SPECIFICATION Spec
CONSTANTS
    Workers = {w1, w2}
    QueueCap = 1
    RetryAttempts = 1
    Outcomes = {"ok", "rejected", "refused", "reset", "timeout", "broken"}
    SampleLen = 1
    MaxSamples <- OneEach
    None = None
SYMMETRY Symmetry
INVARIANTS
    TypeOK
    NothingLeftBehind
    Drained
    CountedTwice
