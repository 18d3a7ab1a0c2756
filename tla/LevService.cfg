\* The system stops when every client has come and gone.
CHECK_DEADLOCK FALSE
SPECIFICATION FairSpec
CONSTANTS
    Client = {k1, k2, k3}
    None = None
    Above = 1
    BufferSize = 2
    CountMod = 64
    Setups <- AllSetups
INVARIANTS
    Partition
    SocketsOwned
    AllMonitored
PROPERTIES
    HangUpCloses
