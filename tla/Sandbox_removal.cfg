SPECIFICATION Spec
CONSTANTS
    Input = 1
    MaxWrites = 1
    Capacity = 1
    MaxOutput = 1
    Faults = {"timeout"}
INVARIANTS TimedOutIsRemoved
CHECK_DEADLOCK FALSE
