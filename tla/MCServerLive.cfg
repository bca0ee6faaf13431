SPECIFICATION FairServerSpec
CONSTANTS
    a = a
    b = b
    v = v
    IDs = {a}
    Values = {v}
    Unencodable = {}
    HalfRange = 4
    NULL = NULL
    Savers <- MCSavers
    Absent = Absent
    Empty = Empty
    Mixed = Mixed
    DiskMayFail = FALSE
    Subs = {"file"}
    AuditMayFail = FALSE
    Reqs = {r1}
    Inputs <- OneName
    StoreInterval = 300
    HasFile = TRUE
    MaxInFlight = 1
    Ticker = Ticker
    Main = Main
    Restore = TRUE
    DrainMayTimeOut = FALSE
    MaxStarts = 2
PROPERTIES
    PeriodicallySaved
    ShutdownCompletes
