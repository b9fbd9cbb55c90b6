SPECIFICATION FairSpec
CONSTANTS
    Clients = {c1}
    Bodies <- MCBodies
    MAX_SOURCE = 2
    Jobs = {r1, r2, r3}
    VerdictLists <- MCVerdictLists
    Strangers = {nil, text}
    Malformed = {text}
    Attempts = 4
    MaxFailures = 3
    Null = Null
    None = None
INVARIANTS AcceptedIsFound RowsAreAccountedFor InternalErrorIsDue PassedIsEarned
PROPERTIES ProgressIsForward RequestsEnd
CHECK_DEADLOCK FALSE
