SPECIFICATION Spec
CONSTANTS
    Letters = {x}
    MaxOutput = 4
    MaxWritten = 5
INVARIANTS WholeIsCompared PassedStartsRight
CHECK_DEADLOCK FALSE
