SPECIFICATION Spec
CONSTANTS
    NBlocks = 3
    Cases <- TempFileCases
    ChunkSize = 1
    MinPerThread = 2
    MaxThreads = 1
    MinHashBits = 1
    BithashBits = 1
INVARIANTS
    LastReportIsWhole
\* The file has been scanned.
CHECK_DEADLOCK FALSE
