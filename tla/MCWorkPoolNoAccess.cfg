SPECIFICATION Spec
CONSTANTS
    numThreads = 1
    numFiles = 2
    kind <- MCForbidden
    MaxOpen = 2
    FaultyCalls = {}
    MaxSpurious = 0
INVARIANT NoCrash
