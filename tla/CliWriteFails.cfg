SPECIFICATION CliSpec
CONSTANTS
    NBlocks = 2
    Partial = TRUE
    ZeroTail = {}
    Gap = 0
    HasSha = TRUE
    HasUrl = TRUE
    IOFails = TRUE
    ShortBodies = FALSE
    StaleTemp = FALSE
    MaxChunks = 1
    MaxRuns = 1
    Inputs = 1
    Retries = 1
INVARIANTS
    KnownIsWritten
\* A program that has ended, in the last run allowed, takes no step.
CHECK_DEADLOCK FALSE
