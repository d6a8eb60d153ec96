SPECIFICATION FairSpec
CONSTANTS
    numThreads = 3
    numFiles = 3
    kind <- MCReadable
    MaxOpen = 3
    FaultyCalls = {}
    MaxSpurious = 1
INVARIANTS EachFileOnce NoFileLost NoLostWork NoLostMain TablesQuiet
PROPERTIES ReportSpec Finishes
