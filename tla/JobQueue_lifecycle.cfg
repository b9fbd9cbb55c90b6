SPECIFICATION Spec
CONSTANTS
    Judges = {j1, j2}
    Jobs <- TwoJobs
    Packs = {"python"}
    VerdictLists <- OneList
    ApiWrites = {"replaced", "failed"}
    MaxClock = 2
    MaxFailures = 1
    Null = Null
SYMMETRY JudgeSymmetry
INVARIANTS OldestFirst
PROPERTIES ImplementsLifecycle
