SPECIFICATION Spec
CONSTANTS
    Sizes = {2}
    Procs = {p1}
    NoProc = NoProc
    FaultyCalls = {"cdev_add"}
INVARIANT FileKeepsDevice
CHECK_DEADLOCK FALSE
