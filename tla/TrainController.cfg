SPECIFICATION FairSpec
CONSTANTS
  MaxFailures = 1
  ControllerFailureLimit = 1
  Sizes = {1, 2}
  Elastic = TRUE
  HasReplicaGroups = TRUE
  FailingHooks <- AllButAfterShutdown
INVARIANTS
  TypeOK
  GroupIsUsable
  RetryBudget
  FinishedReleasesWorkers
PROPERTIES
  ResultIsFinal
  RootCausePreserved
  FreshAttempt
  ImplementsTrainingRun
