SPECIFICATION Spec
CONSTANTS
    Kinds = {"read", "write", "modify"}
    Cores = {}
    Faults = {"nack", "garble"}
    MaxRetries = 2
    MaxAsync = 3
    MaxSync = 1
    MaxIrqs = 0
    MaxFaults = 2
    MaxDepth = 2
INVARIANT OneOwner
INVARIANT TasksInPlace
INVARIANT HeldUntilAnswered
INVARIANT OwnReply
INVARIANT NeverAborted
PROPERTY LossReported
