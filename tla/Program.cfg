SPECIFICATION ProgSpec
CONSTANTS
    NBlocks = 2
    Partial = TRUE
    ZeroTail = {}
    Gap = 0
    HasSha = TRUE
    HasUrl = TRUE
    IOFails = TRUE
    ShortBodies = FALSE
    StaleTemp = FALSE
    MaxChunks = 2
    MaxRuns = 2
    Inputs = 1
    Retries = 2
    Modes = {"bar", "lines", "json"}
    Percents = 2
INVARIANTS
    CliTypeOK
    ExitLeavesNoTemp
    ExitZeroMeansWhole
    GivesUpAfterRetriesInARow
    RetriesAreBounded
    MissingWasRefused
    PhaseEndsWithLast
    MessagesHaveTheirLine
PROPERTIES
    EveryPhaseEnds
    Exits
\* A program that has ended, in the last run allowed, takes no step.
CHECK_DEADLOCK FALSE
