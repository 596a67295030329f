SPECIFICATION FairSpec
CONSTANTS
  p1 = p1
  p2 = p2
  w1 = w1
  w2 = w2
  c1 = c1
  c2 = c2
  unrec = unrec
  Callers = {p1, p2}
  Waits = {}
  Codes = {c1}
  Unrecognized = unrec
  Recognized = {c1}
  TorKnows = {c1}
  WaitSets = {}
  ChanCap = 1
  MaxIds = 2
  MaxEvents = 0
  NoProc = NoProc
PROPERTIES
  RequestReturns
CHECK_DEADLOCK FALSE
