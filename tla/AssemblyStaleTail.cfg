SPECIFICATION Spec
CONSTANTS
    NBlocks = 2
    Partial = TRUE
    ZeroTail = {0}
    Gap = 0
    HasSha = FALSE
    HasUrl = TRUE
    IOFails = FALSE
    ShortBodies = TRUE
    StaleTemp = TRUE
    MaxChunks = 1
    MaxRuns = 2
INVARIANTS
    OutputOldOrWhole
\* A program that has ended, in the last run allowed, takes no step.
CHECK_DEADLOCK FALSE
