SPECIFICATION Spec
CONSTANTS
    numCats = 1
    numDogs = 1
    numBirds = 0
    FaultyCalls = {"lock"}
    StaleInts <- MCStaleInts
    MaxPlay = 1
    MaxSpurious = 0
INVARIANT NoAssertFails
CHECK_DEADLOCK FALSE
