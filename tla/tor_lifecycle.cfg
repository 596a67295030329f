SPECIFICATION FairSpec
CONSTANTS
  Confs <- MCConfs
  MaxPolls = 2
  MaxCloses = 2
INVARIANTS
  TypeOK
  Reported
  HaltedNotKilled
  CloseIdempotent
PROPERTIES
  DirRemoval
  CallReturns
CHECK_DEADLOCK FALSE
