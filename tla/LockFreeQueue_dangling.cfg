SPECIFICATION Spec
CONSTANTS
    Producer = {p1, p2, p3}
    Consumer = {c1}
    p1 = p1
    p2 = p2
    p3 = p3
    c1 = c1
    Cells = 4
    NULL = NULL
    MaxItems = 6
    Plans <- TestPlan
    SizeModulus = 16
    Spurious = FALSE
INVARIANTS
    NoUseAfterFree
