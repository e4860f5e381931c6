SPECIFICATION MCSpec
CONSTANTS
    g = g  k = k  x = x
    Data = {1, 2}
    Gens = {g, k, x}
    Rows = {1, 2}
    Masks <- MCMasks
    SetPoints <- MCSetPoints
    Remote = {x}
    Units = {u1, u2, u3}
    PlainBuses = {b1, b2}
    None = None
    NaN = NaN
    Values = {1, 2, 4}
    Pin = 2
    Base = 3
    Tol = 1
    Whole = 6
SYMMETRY Alikes
INVARIANTS
    AssembledAsAsked
    SolvedAtTheSetPoints
    RowsSkippedAlike
    GradientsSplitTheTie
CHECK_DEADLOCK FALSE
