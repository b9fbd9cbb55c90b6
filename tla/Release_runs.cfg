SPECIFICATION FairSpec
CONSTANTS
    First <- MCFirst
    Pushed = {"breaking", "feat", "other"}
    Raises <- MCRaises
    MaxCommits = 3
    MaxFailures = 1
    MaxReruns = 2
    None = None
INVARIANTS VersionsRise ChangesAreCounted ImagesFollow
PROPERTY MainIsReleased
CHECK_DEADLOCK FALSE
