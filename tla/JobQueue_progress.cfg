SPECIFICATION FairSpec
CONSTANTS
    Judges = {j1, j2}
    Jobs <- TwoJobs
    Packs = {"python", "cobol"}
    VerdictLists <- OneList
    ApiWrites = {}
    MaxClock = 1
    MaxFailures = 1
    Null = Null
INVARIANTS OrphanOnlyByFailure
PROPERTIES WaitingIsTaken HeldIsReleased WaitingEnds
