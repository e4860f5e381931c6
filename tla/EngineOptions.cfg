SPECIFICATION Spec
CONSTANTS
    None = None
    Kinds = {"contingency", "injection", "scenario"}
    RowCounts = {1, 2}
    BatchSizes = {1, 2}
    Iterations = {1, 2}
    MaxCalls = 6
    MaxHandles = 2
INVARIANTS
    OptionsAreObeyed
    BaseViewsStayAlive
    ResidualsOfCompute
CHECK_DEADLOCK FALSE
