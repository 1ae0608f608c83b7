SPECIFICATION FairSpec
CONSTANTS
    Kinds = {"modify", "enable"}
    Cores = {1, 2}
    Faults = {"nack"}
    MaxRetries = 2
    MaxAsync = 3
    MaxSync = 0
    MaxIrqs = 1
    MaxFaults = 1
    MaxDepth = 2
INVARIANT InterruptsAccounted
INVARIANT PendingHasRunning
PROPERTY InterruptServed
PROPERTY AllWritten
