SPECIFICATION Spec
CONSTANTS
    Places = 5
    Base = 4
    Nibbles = 4
    Inputs <- MCInputs
    Bits = 2
    MaxLinks = 5
    MaxRuns = 3
    numFiles = 10
    entry <- MCEntry
    MaxOpen = 6
INVARIANTS SortsDigits ConvertRight AssertsPass KeepsAll NoTrash
PROPERTY SumReport
CHECK_DEADLOCK FALSE
