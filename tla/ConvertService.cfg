\* The process stops when it has followed a null pointer.
CHECK_DEADLOCK FALSE
SPECIFICATION FairSpec
CONSTANTS
    Key = {a, b}
    QuoteKeys = {a}
    Addresses = 4
    WS_SIZE = 3
    PER_WS_CODE_NUMS = 1
    None = None
    Null = Null
    Client = {c1, c2}
    Ctx = {x1, x2}
    REQ_ID_START = 10
    Markets = 2
    MaxReqs = 3
    Setups <- AllSetups
INVARIANTS
    Routing
    UpstreamWanted
    ServerAgrees
    Replies
PROPERTIES
    ServedAgain
    WalkEnds
