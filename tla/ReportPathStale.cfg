SPECIFICATION Spec
CONSTANTS
  Workers = {0, 1}
  MaxReports = 2
  MaxFailures = 1
  MaxFaults = 1
  MaxHangs = 0
  Modes = {"COMMITTED", "VALIDATED"}
  Backends = {"plain", "replicas"}
INVARIANTS
  NoMixedGenerations
