SPECIFICATION FairSpec
CONSTANT MaxStarts = 3
INVARIANTS
  TypeOK
  OneGroupHeld
  CleanerKnowsGroup
  OneWatcher
PROPERTIES
  ActiveIsRemoved
CHECK_DEADLOCK FALSE
