SPECIFICATION FairSpec
CONSTANTS
    Boards = {1}
    Binaries <- LongAndExact
    Wanted = {0, 1, 2}
    Faults = {"silent", "refuse", "abort", "power"}
    MaxFaults = 2
    MaxInits = 3
CHECK_DEADLOCK FALSE
INVARIANTS WantedConnected LoadedAsStored
PROPERTIES InitReturns
