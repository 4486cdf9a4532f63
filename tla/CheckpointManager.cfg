SPECIFICATION Spec
CONSTANTS
  Checkpoints = {c1, c2, c3}
  NoCheckpoint = NoCheckpoint
  Scores = {1, 2}
  ScoreAttribute = TRUE
  NumToKeep = 1
  AtomicWrites = FALSE
  MaxReports = 4
  MaxCrashes = 1
SYMMETRY Symmetry
INVARIANTS
  TypeOK
  Restorable
  ResultsStored
  OneStatus
  IndexIsAhead
  Durable
  RetentionBound
  NoOrphans
PROPERTIES
  BestSurvive
CHECK_DEADLOCK FALSE
