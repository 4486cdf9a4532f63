SPECIFICATION FairSpec
CONSTANTS
  Workers = {0, 1}
  MaxReports = 2
  MaxFailures = 1
  MaxFaults = 1
  MaxHangs = 1
  Modes = {"VALIDATED"}
  Backends = {"plain", "replicas"}
INVARIANTS
  TypeOK
  NothingLost
  ReportsBelongTogether
  HandlerKeepsUp
  FinishedDelivered
PROPERTIES
  RunEnds
