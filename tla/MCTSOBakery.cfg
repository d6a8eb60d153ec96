SPECIFICATION FairSpec
CONSTANTS
    numThreads = 2
    Methods = {"mfence", "spin", "ticket"}
    MaxIterations <- MCIterations
    Modulus = 3
INVARIANTS NoAssertFails LockExclusion TicketsBounded
PROPERTIES AllEnd TicketLockSpec LockSpec
