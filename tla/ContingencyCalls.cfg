SPECIFICATION ContingencySpec
CONSTANTS
    Null = Null
    a = a  split = split  strand = strand  div = div
    Lists <- MCLists
    Data = {"d1", "d2"}
    RdData = {"r1"}
    SnMva <- MCSnMva
    Limits = {"l1"}
    Capacities = {1, 2}
    Solvers = {"every", "base", "btf"}
    FactorReuse = {"base"}
    Unsupported = {"btf"}
    Splits = {split, strand}
    Strands = {strand}
    Diverges = {div}
    Bound = 5
    Found <- MCFound
INVARIANTS
    SolvesWhatIsAsked
    FlagsDescribeSource
    ViolationsTellTheRun
CHECK_DEADLOCK FALSE
