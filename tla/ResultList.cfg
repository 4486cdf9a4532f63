SPECIFICATION Spec
CONSTANTS
  Metrics = {0, 1}
  Missing = Missing
  NaN = NaN
  Text = Text
  Infinity = 9
  ScoreOrders = {"max", "min"}
  NumToKeep = 2
  MaxReports = 5
INVARIANTS
  SliceIsWorst
  KeepsBestValues
CHECK_DEADLOCK FALSE
