SPECIFICATION FairSpec
CONSTANTS
    NBlocks = 4
    Partial = TRUE
    ZeroTail = {}
    Gap = 1
    HasSha = FALSE
    HasUrl = TRUE
    IOFails = FALSE
    ShortBodies = TRUE
    StaleTemp = FALSE
    MaxChunks = 1
    MaxRuns = 1
INVARIANTS
    KnownIsWritten
    OutputOldOrWhole
    PassCoversMissing
PROPERTIES
    CallsReturn
\* A program that has ended, in the last run allowed, takes no step.
CHECK_DEADLOCK FALSE
