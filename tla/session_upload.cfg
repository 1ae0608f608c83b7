SPECIFICATION Spec
CONSTANTS
    Boards = {1}
    Binaries <- LongAndShort
    Wanted = {0}
    Faults = {"silent", "refuse", "abort", "unplug"}
    MaxFaults = 3
    MaxInits = 3
CHECK_DEADLOCK FALSE
INVARIANTS TargetTracks
PROPERTIES HashOfStored
