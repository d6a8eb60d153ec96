SPECIFICATION Spec
CONSTANTS
    numThreads = 2
    numFiles = 4
    kind <- MCChanging
    MaxOpen = 3
    FaultyCalls = {"init", "create", "lock", "unlock", "broadcast", "fclose", "malloc"}
    MaxSpurious = 1
INVARIANT HangNeedsLoss
PROPERTY ReportSpec
CHECK_DEADLOCK FALSE
