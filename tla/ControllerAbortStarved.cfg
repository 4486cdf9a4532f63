SPECIFICATION FairSpec
CONSTANTS
  MaxFailures = 0
  ControllerFailureLimit <- Unlimited
  Sizes = {2}
  Elastic = FALSE
  HasReplicaGroups = FALSE
  FailingHooks <- NoHooks
PROPERTIES
  AbortServed
