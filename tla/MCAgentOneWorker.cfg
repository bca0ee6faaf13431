SPECIFICATION FairSpec
CONSTANTS
    Workers = {w1}
    QueueCap = 2
    RetryAttempts = 1
    Outcomes = {"ok", "rejected", "reset"}
    SampleLen = 1
    MaxSamples <- TwoPolls
    None = None
PROPERTIES
    GaugesInOrder
    Terminates
