SPECIFICATION MCSpec
CONSTANTS
    None = None
    t1 = t1  t2 = t2
    loose = loose  tight = tight
    Settings = {loose, tight}
    Masks = {g, h}
    Targets = {t1, t2}
    Columns <- MCColumns
    Moves = {m, n}
    Shifts = {m}
    Sizes = {1, 2}
    MaxPlans = 3
INVARIANTS
    TypeOK
    ReportIsCurrent
    BaseReportIsCurrent
    ReadableReportFitsSettings
