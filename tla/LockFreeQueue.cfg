\* The system stops when producers without a consumer have enqueued their items.
CHECK_DEADLOCK FALSE
SPECIFICATION FairSpec
CONSTANTS
    Producer = {p1, p2, p3}
    Consumer = {c1}
    p1 = p1
    p2 = p2
    p3 = p3
    c1 = c1
    Cells = 5
    NULL = NULL
    MaxItems = 6
    Plans <- Served
    SizeModulus = 16
    Spurious = FALSE
INVARIANTS
    NoUseAfterFree
    SizeExact
PROPERTIES
    ImplementsLaggingQueue
    Delivered
    
