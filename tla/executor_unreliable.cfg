SPECIFICATION Spec
CONSTANTS
    Kinds = {"modify", "enable"}
    Cores = {1, 2}
    Faults = {"send", "opcode", "lose", "late", "partial", "garble", "nack"}
    MaxRetries = 2
    MaxAsync = 2
    MaxSync = 1
    MaxIrqs = 2
    MaxFaults = 2
    MaxDepth = 2
INVARIANT TypeOK
PROPERTY ImplementsService
