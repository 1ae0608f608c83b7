SPECIFICATION Spec
CONSTANTS
    Kinds = {"gpio8", "uart"}
    Calls = 3
    MaxFaults = 1
CHECK_DEADLOCK FALSE
INVARIANTS
    AsIfInOrder ReadsWhatWasWritten LatchOnlyForDivisor
