SPECIFICATION FairSpec
CONSTANTS
    numCats = 2
    numDogs = 1
    numBirds = 1
    FaultyCalls = {}
    StaleInts <- MCStaleInts
    MaxPlay = 1
    MaxSpurious = 1
INVARIANTS TypeOK CountersMatch NoAssertFails NoLostWakeup
PROPERTIES RoomSpec AllGoHome WaiterPlays
