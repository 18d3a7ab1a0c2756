\* Programs end, and clients stop asking at their bounds.
CHECK_DEADLOCK FALSE
SPECIFICATION Spec
CONSTANTS
    p1 = p1
    p2 = p2
    Process = {p1, p2}
    HashOrder <- Listing
    Levels = 2
    MaxSessions = 3
    MaxFaults = 1
    Parts = 2
    MaxMsgs <- Messages
    MaxFlips = 2
    MaxContexts = 3
    MaxCommands = 3
    Slow = {TRUE, FALSE}
    DbKeys = {1, 2}
    Writes = {{1, 2}}
    Commands <- SmallReads
    MaxPuts = 2
    MaxReads = 2
    Inner = {TRUE, FALSE}
    MaxMessages = 2
    MaxRestarts = 1
    Buffers = {TRUE, FALSE}
    Clients = {c1, c2}
    MaxPieces = 2
    MaxSent = 2
INVARIANTS
    ViewsAgree
    NothingForgotten
    
PROPERTIES
    Progress
