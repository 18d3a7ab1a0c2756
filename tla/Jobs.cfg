\* Programs end, books and logs reach their bounds.
CHECK_DEADLOCK FALSE
SPECIFICATION Spec
CONSTANTS
    Directory <- SmallDirectory
    TaskCounts = 4
    PoolSize = 3
    CropJobs <- SmallJobs
    CropFaults = 1
    Book <- SmallBook
    DbFaults = 1
    Crashes = 1
    StackSize = 4
    HeapSize = 8
    Levels9 <- LogLevels
    FuncBytes = {0, 85}
    FileMax = 4
    LineSizes = {2, 5}
    Keys = {"k1", "k2"}
    MaxLines = 3
    MaxDays = 2
    MaxLives = 2
    MaxOpens = 2
INVARIANTS
    NothingMislaid
    TablesAgree

    
