SPECIFICATION Spec
CONSTANTS
  Confs <- MCConfs
  MaxPolls = 2
  MaxCloses = 2
INVARIANTS
  CloseStops
CHECK_DEADLOCK FALSE
