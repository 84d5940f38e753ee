SPECIFICATION Spec
CONSTANTS
    Procs = {p1, p2, p3}
    NBlocks = 2
    Partial = TRUE
    StaleTemp = TRUE
    None = None
SYMMETRY Symmetry
INVARIANTS
    UndisturbedBlocksAreRight
    TwoLeaveRightBlocks
\* Assemblies that have all ended take no step.
CHECK_DEADLOCK FALSE
