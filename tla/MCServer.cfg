SPECIFICATION ServerSpec
CONSTANTS
    a = a
    b = b
    v = v
    IDs = {a, b}
    Values = {v}
    Unencodable = {}
    HalfRange = 4
    NULL = NULL
    Savers <- MCSavers
    Absent = Absent
    Empty = Empty
    Mixed = Mixed
    DiskMayFail = TRUE
    Subs = {}
    AuditMayFail = FALSE
    Reqs = {r1, r2}
    Inputs <- TwoNames
    StoreInterval = 300
    HasFile = TRUE
    MaxInFlight = 2
    Ticker = Ticker
    Main = Main
    Restore = TRUE
    DrainMayTimeOut = TRUE
    MaxStarts = 2
SYMMETRY Symmetry
INVARIANTS
    ServerTypeOK
    StopKeeps
    RestartBringsBack
    CountedOnce
    SavedExact
PROPERTIES
    RestartsInvisible
    KillsRevert
