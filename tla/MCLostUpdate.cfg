SPECIFICATION Spec
CONSTANTS
    a = a
    b = b
    v = v
    IDs = {a}
    Values = {v}
    Unencodable = {}
    HalfRange = 8
    NULL = NULL
    Reqs = {r1, r2}
    Inputs <- OneCounter
    Main = Main
    Codes <- NoCodes
    RetryAttempts = 0
    DrainMayTimeOut = FALSE
    MaxLate = 0
    MaxStarts = 1
INVARIANTS
    CountersAccumulate
