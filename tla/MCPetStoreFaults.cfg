SPECIFICATION Spec
CONSTANTS
    numCats = 1
    numDogs = 1
    numBirds = 1
    FaultyCalls = {"init", "create", "join", "lock", "unlock", "broadcast"}
    StaleInts <- MCStaleInts
    MaxPlay = 2
    MaxSpurious = 1
INVARIANTS HangNeedsFailure TotalsRight
CHECK_DEADLOCK FALSE
