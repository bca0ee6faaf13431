SPECIFICATION Spec
CONSTANTS
    a = a
    b = b
    v = v
    nan = nan
    IDs = {a, b}
    Values = {v, nan}
    Unencodable = {nan}
    HalfRange = 4
    NULL = NULL
    Savers = {r1, r2, r3}
    Absent = Absent
    Empty = Empty
    Mixed = Mixed
    DiskMayFail = FALSE
    Subs = {}
    AuditMayFail = FALSE
    Reqs = {r1, r2, r3}
    Inputs <- SerialInputs
    StoreInterval = 0
    HasFile = FALSE
    MaxInFlight = 1
PROPERTIES
    AppliesAtomically
INVARIANTS
    CounterSums
    AnswerMeansWritten
