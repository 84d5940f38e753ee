SPECIFICATION Spec
CONSTANTS
    NBlocks = 3
    Cases <- MCCases
    ChunkSize = 1
    MinPerThread = 2
    MaxThreads = 2
    MinHashBits = 1
    BithashBits = 1
INVARIANTS
    FoundIsThere
    RollingIsFresh
    IndexHoldsUnknown
    NothingMissed
    KnownIsInFile
    InputIsReportedWhole
PROPERTIES
    ReportsAscend
\* The file has been scanned.
CHECK_DEADLOCK FALSE
