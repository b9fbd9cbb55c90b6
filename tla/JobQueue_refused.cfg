SPECIFICATION Spec
CONSTANTS
    Judges = {j1}
    Jobs <- TwoJobs
    Packs = {"python"}
    VerdictLists <- OneList
    ApiWrites = {}
    MaxClock = 1
    MaxFailures = 0
    Null = Null
INVARIANTS ClaimMeetsCheck
