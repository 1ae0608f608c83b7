SPECIFICATION Spec
CONSTANTS
    Kinds = {"read", "enable"}
    Cores = {1}
    Faults = {}
    MaxRetries = 2
    MaxAsync = 2
    MaxSync = 1
    MaxIrqs = 1
    MaxFaults = 0
    MaxDepth = 2
INVARIANT OwnReply
