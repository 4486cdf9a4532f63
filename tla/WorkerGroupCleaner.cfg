SPECIFICATION Spec
CONSTANT MaxStarts = 2
INVARIANT CleanerEnsuresRemoval
CHECK_DEADLOCK FALSE
