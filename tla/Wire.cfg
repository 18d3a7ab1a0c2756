\* Programs end, messages are all read, clocks and requests reach their bounds.
CHECK_DEADLOCK FALSE
SPECIFICATION Spec
CONSTANTS
    Sent <- SmallSent
    Receivers = {"uws server", "uws client", "ws_proto"}
    Short = 4
    Medium = 6
    MaxPayload = 9
    DataMax = 3
    HttpHead = 2
    Links = {1, 2}
    Slots = {1, 2}
    Cap = 1
    Units = 2
    WheelSize = 3
    TimeoutTicks = 2
    Plans <- WirePlans
    Timers = {1, 2}
    Delays = {1, 2}
    MaxTime = 5
    Members = {1, 2, 3}
    MaxDepth = 3
    f1 = f1
    f2 = f2
    Quoted <- WireQuoted
    Pages <- WirePages
    Fields = {f1, f2}
    MaxVal = 1
    MaxAsks = 2
    Contexts = {"c1", "c2"}
    DataLens = {1, 2}
    Scripts <- WireScripts
    MaxLeaves = 1

    
    
PROPERTIES
    EndsComplete
