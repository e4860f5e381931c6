SPECIFICATION InjectionSpec
SYMMETRY SolverSettings
CONSTANTS
    Absent = Absent
    ImaginaryUnit = 100
    Grids <- MCGrids
    Tol = 1
    BusRows <- MCBusRows
    Elements <- MCElements
    GenVs <- MCGenVs
    GenPPlans <- MCGenPPlans
    ReleasePlans <- MCReleasePlans
    GridPlan <- MCGridPlan
    Solvers = {every, iter0}
    every = every
    iter0 = iter0
    Sizes = {1}
    Bound = 7
INVARIANTS
    SolvesWhatIsAsked
    OneVoltagePerBus
    ChecksUseWhatIsSolved
CHECK_DEADLOCK FALSE
