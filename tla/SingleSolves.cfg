SPECIFICATION Spec
CONSTANTS
    None = None
    Empty = Empty
    Bus = {1, 2, 3}
    FacadeLayouts <- MCFacadeLayouts
    OpLayouts <- MCOpLayouts
    HaveBridge = TRUE
    Injections = {s1, s2}
    Magnitude = {m1, m2}
    Op = {op}
    Budgets = {0, 2}
    MaxFar = 1
    MaxSolves = 3
INVARIANTS
    AdjointOfTheSolution
    LoopStartsFresh
    AcPfKeepsSetPoints
    GradientOfItsForward
PROPERTIES
    EverySolveReturns
CHECK_DEADLOCK FALSE
