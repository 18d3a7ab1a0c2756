\* The system stops once every thread has used up its bounded calls.
CHECK_DEADLOCK FALSE
SPECIFICATION FairSpec
CONSTANTS
    p1 = p1
    Producers = {p1}
    MaxLogs = 6
    MaxRounds = 2
    MaxFileSize = 1
    MaxPosts = 2
    Overlaps = {FALSE, TRUE}
INVARIANTS
    NothingLost
    NoGap
    ResourcesAlive
PROPERTIES
    PushWakes
    ReleaseReturns
