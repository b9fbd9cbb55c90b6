SPECIFICATION Spec
CONSTANTS
    Judges = {j1, j2}
    Jobs <- TwoJobs
    Packs = {"python"}
    VerdictLists <- TwoLists
    ApiWrites <- JobStates
    MaxClock = 1
    MaxFailures = 1
    Null = Null
SYMMETRY JudgeSymmetry
INVARIANTS TypeOK OneHolder HeldNotClaimable QueueInv
PROPERTIES VerdictIsFinal ClaimedOnce
