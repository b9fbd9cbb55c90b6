SPECIFICATION FairSpec
CONSTANTS
    Names <- MCNames
    Inputs = {i1, i2}
    Expected <- MCExpected
    Outputs <- MCOutputs
    Absent = Absent
    Refused = Refused
    Vanishes = TRUE
INVARIANTS EveryCaseIsJudged VerdictsAreTheirs ErrorIsDue
PROPERTIES JudgingEnds
CHECK_DEADLOCK FALSE
