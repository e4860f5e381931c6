CONSTANTS
  Nothing = Nothing
  Tolerances = {"tight", "loose"}
  Capacities = {1, 2}
  NumRows = 2
  Batches <- MCBatches
  BaseCases <- MCBaseCases
  Stops = {0, 3, 6}
  MaxCalls = 5
SPECIFICATION ReportsSpec
INVARIANTS
    ReportsTellTheRun
    OnMeansPlanned
CHECK_DEADLOCK FALSE
