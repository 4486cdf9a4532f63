SPECIFICATION FairSpec
CONSTANTS
  None = None
  WorldSize = 3
  MaxCalls = 2
  MaxDeaths = 1
  MaxWarnings = 1
  MaxExpiries = 1
INVARIANTS
  TypeOK
  CounterIsInside
  Agreement
  NoneStranded
PROPERTIES
  ResetEnds
CHECK_DEADLOCK FALSE
