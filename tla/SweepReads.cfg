SPECIFICATION Spec
CONSTANTS
    None = None
    NaN = NaN
    Gone = Gone
    Grids <- MCGrids
    OtherData <- MCOtherData
    OtherLimits <- MCOtherLimits
    Topologies <- MCTopologies
    Splits = {{2}}
    Volts <- MCVolts
    Residual <- MCResidual
    Tols = {1, 3}
    Margins = {0, 20}
    Capacity = 1
    MaxRows = 2
    MaxCalls = 6
INVARIANTS
    RowsLeftOutAgree
    RecordsOfTheirVoltages
    BaseCaseReportsAlike
    FlowsFitTheRun
CHECK_DEADLOCK FALSE
