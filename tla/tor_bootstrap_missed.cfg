SPECIFICATION BootFairSpec
CONSTANTS
  c1 = c1
  c2 = c2
  Calls = {c1, c2}
  Confs <- MCConfs
  Dirs = {d1}
  MaxTries <- MCMaxTries
PROPERTY
  BootstrapSeen
CHECK_DEADLOCK FALSE
