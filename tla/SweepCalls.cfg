SPECIFICATION MCSpec
CONSTANTS
    Groups = {"topology", "generators", "reference"}
    None = None
    i2 = i2  j2 = j2  i3 = i3
    t2 = t2  u2 = u2  t3 = t3
    v2 = v2  v3 = v3
    g2 = g2  h2 = h2
    s2 = s2
    x2 = x2  x3 = x3
    bSmall = bSmall  bLarge = bLarge
    plain = plain  masked = masked  reuse = reuse
    gridBus = gridBus  otherBus = otherBus
    Injections = {i2, j2, i3}
    Topologies = {t2, u2, t3}
    GenVs = {v2}
    GenMasks = {g2, h2}
    SkipMasks = {s2}
    ExtSats = {x2, x3}
    BranchSets = {bSmall, bLarge}
    Settings = {plain, masked, reuse}
    MaskModes = {masked}
    FactorReuse = {reuse}
    Rows <- MCRows
    MaxTrip <- MCMaxTrip
    NumBranches <- MCNumBranches
    Reserved <- MCReserved
    SlackOff = {h2}
    StrandsSlack <- MCStrandsSlack
    Buses = {gridBus, otherBus}
    GridRef = gridBus
    BestRef <- MCBestRef
INVARIANTS
    TypeOK
    SolveReadsStagedInputs
    FlagsDescribeSource
    KeptJacobianIsLive
    BatchMatchesSession
PROPERTIES
    ImplementsContract
