\* A tree of which a null pointer was followed stops; a full heap can be emptied.
CHECK_DEADLOCK FALSE
SPECIFICATION Spec
CONSTANTS
    Keys = 7
    Vals = {1, 2, 3, 4, 5, 6, 7}
    HeapVals = {1, 2, 3}
    HeapSize = 7
    Numbers = {0, 3, 12, 31, 100}
    Terms <- SmallTerms
    Letters = {"a", "b"}
    MaxInput = 6
INVARIANTS
    SearchTree
    AVLHolds
    HeapHolds
    
    
