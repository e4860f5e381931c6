SPECIFICATION Spec
CONSTANTS
    g = g  x = x  l = l
    MaxRows = 2
    MaxCalls = 4
    Loads = {1}
    BranchRows <- MCBranchRows
    GenRows <- MCGenRows
    VoltRows <- MCVoltRows
    Refused = {x}
    Calls <- MCCalls
INVARIANTS
    RecordsMatchSession
    AnswerIsOfThisCall
    NeverRefusedForRows
