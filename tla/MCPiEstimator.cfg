SPECIFICATION FairSpec
CONSTANTS
    numThreads = 2
    MaxPoints = 3
INVARIANT EstimateRight
PROPERTY AllEnd
