SPECIFICATION MCSpec
CONSTANTS
    NumRows = 3
    BatchSizes = {2, 3}
    MaxRuns = 3
    MaxContexts = 2
INVARIANTS
    ResultsAreOwn
    CapacityFitsBatch
    BackwardReadsItsForward
