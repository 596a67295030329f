SPECIFICATION FairSpec
CONSTANTS
  p1 = p1
  p2 = p2
  w1 = w1
  w2 = w2
  c1 = c1
  c2 = c2
  unrec = unrec
  Callers = {p1}
  Waits = {w1, w2}
  Codes = {c1}
  Unrecognized = unrec
  Recognized = {}
  TorKnows = {c1}
  WaitSets = {{c1}, {unrec}}
  ChanCap = 2
  MaxIds = 3
  MaxEvents = 2
  NoProc = NoProc
PROPERTIES
  RequestReturns
  WaitReturns
  EventArrives
