SPECIFICATION Spec
CONSTANTS
    a = a
    b = b
    v = v
    IDs = {a, b}
    Values = {v}
    Unencodable = {}
    HalfRange = 8
    NULL = NULL
    Reqs = {r1, r2}
    Inputs <- MCInputs
    Main = Main
    Codes <- MCCodes
    RetryAttempts = 1
    DrainMayTimeOut = TRUE
    MaxLate = 1
    MaxStarts = 2
INVARIANTS
    TypeOK
    RetriesCountOnce
    AnswerMeansExecuted
    NoLateOverwrite
    

    
