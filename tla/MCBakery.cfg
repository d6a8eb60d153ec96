SPECIFICATION FairSpec
CONSTANTS
    numThreads = 2
    MaxIterations <- MCIterations
INVARIANT MutualExclusion
PROPERTIES AllEnd EachGetsIn LockSpec
