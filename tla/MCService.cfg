SPECIFICATION FairSpec
CONSTANTS
    a = a
    b = b
    v = v
    nan = nan
    IDs = {a}
    Values = {v, nan}
    Unencodable = {nan}
    HalfRange = 4
    NULL = NULL
    Savers = {r1, r2}
    Absent = Absent
    Empty = Empty
    Mixed = Mixed
    DiskMayFail = TRUE
    Subs = {"file", "http"}
    AuditMayFail = FALSE
    Reqs = {r1, r2}
    Inputs <- ServiceInputs
    StoreInterval = 0
    HasFile = TRUE
    MaxInFlight = 2
INVARIANTS
    TypeOK
    NoNilPayload
    NoOvercount
    AnswerMeansWritten
    RefusedOnlyByGauge
    AuditTrail
    SyncSaved
PROPERTIES
    Answered
    FileAudited
    AppliesUnlessRaced
