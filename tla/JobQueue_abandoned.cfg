SPECIFICATION FairSpec
CONSTANTS
    Judges = {j1, j2}
    Jobs <- TwoJobs
    Packs = {"python"}
    VerdictLists <- OneList
    ApiWrites = {}
    MaxClock = 1
    MaxFailures = 1
    Null = Null
PROPERTIES AbandonedIsReclaimed
