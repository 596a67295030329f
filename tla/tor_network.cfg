SPECIFICATION FairSpec
CONSTANTS
  c1 = c1
  c2 = c2
  Calls = {c1, c2}
  Confs <- MCConfs
  Dirs = {d1, d2}
  MaxTries <- MCMaxTries
INVARIANTS
  TypeOK
  NoOrphan
  ListenerReleased
  Published
  NetworkReady
  WaitHasUpload
  DialOutcome
PROPERTIES
  VerdictSound
  
  DialerEnds
CHECK_DEADLOCK FALSE
