SPECIFICATION Spec
CONSTANTS
    Boards = {1}
    Binaries <- LongAndShort
    Wanted = {0}
    Faults = {"refuse"}
    MaxFaults = 1
    MaxInits = 3
CHECK_DEADLOCK FALSE
INVARIANTS InitLoads
