SPECIFICATION FairSpec
CONSTANTS
  Checkpoints = {c1, c2, c3}
  Limits = {1, 2}
  WithTimeout = {c2, c3}
  Endless = {c3}
  MaxLaunches = 2
INVARIANTS
  TypeOK
  NoneForgotten
  DrainedValidates
PROPERTIES
  PendingIsResolved
  ShutdownEnds
CHECK_DEADLOCK FALSE
