SPECIFICATION Spec
CONSTANTS
    Workers = {w1}
    QueueCap = 1
    RetryAttempts = 1
    Outcomes = {"ok"}
    SampleLen = 1
    MaxSamples <- TwoPolls
    None = None
INVARIANTS
    NoPanic
