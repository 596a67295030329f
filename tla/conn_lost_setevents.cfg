SPECIFICATION Spec
CONSTANTS
  p1 = p1
  p2 = p2
  w1 = w1
  w2 = w2
  c1 = c1
  c2 = c2
  unrec = unrec
  Callers = {p1, p2}
  Waits = {w1, w2}
  Codes = {c1, c2}
  Unrecognized = unrec
  Recognized = {c1, c2}
  TorKnows = {c1, c2}
  WaitSets = {{c1}, {c2}}
  ChanCap = 1
  MaxIds = 2
  MaxEvents = 1
  NoProc = NoProc
INVARIANTS
  Subscribed
CHECK_DEADLOCK FALSE
