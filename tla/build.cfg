SPECIFICATION Spec
CONSTANTS
    Binaries = {"a", "b"}
    Interconnects = {"i1", "i2"}
    Entities = {"t1", "t2"}
    None = None
    Template = Template
    MaxRuns = 3
    MaxFaults = 2
CHECK_DEADLOCK FALSE
INVARIANTS BinaryUpToDate
