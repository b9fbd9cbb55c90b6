SPECIFICATION FairSpec
CONSTANTS
    Input = 4
    MaxWrites = 5
    Capacity = 2
    MaxOutput = 2
    Faults = {"timeout", "io", "docker", "loop"}
INVARIANTS TypeOK ExitedIsHeard LeftOnlyByDocker
PROPERTIES CallReturns ProgramIsHeard StepsRunOut
CHECK_DEADLOCK FALSE
