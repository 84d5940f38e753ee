SPECIFICATION CliSpec
CONSTANTS
    NBlocks = 2
    Partial = TRUE
    ZeroTail = {}
    Gap = 0
    HasSha = TRUE
    HasUrl = TRUE
    IOFails = FALSE
    ShortBodies = TRUE
    StaleTemp = FALSE
    MaxChunks = 1
    MaxRuns = 1
    Inputs = 1
    Retries = 1
INVARIANTS
    MissingWasRefused
\* A program that has ended, in the last run allowed, takes no step.
CHECK_DEADLOCK FALSE
