SPECIFICATION Spec
CONSTANTS
    Sizes = {0, 1, 3}
    Procs = {p1, p2, p3}
    NoProc = NoProc
    FaultyCalls = {"region", "class", "alloc", "cdev_add", "device_create", "lock"}
INVARIANTS NothingLeft DestroyConstructed NodeHasDevice MutexGivenBack
SYMMETRY MCSymmetry
CHECK_DEADLOCK FALSE
