SPECIFICATION FairSpec
CONSTANTS
    MaxBlocksize = 4
    MaxHeader = 9
    MaxBlocks = 6
    MaxPrealloc = 2
    MaxGap = 5
    Lengths <- MCLengths
    HashTried <- MCHashTried
INVARIANTS
    AcceptedIsUsable
    ReservedAsArrived
    PartialIsRefused
    WrittenParsesBack
    RequestedAsPlanned
    RequestsCoverWhatIsMissing
    GapsAreBounded
PROPERTIES
    ParseEnds
\* Nothing is left to mark once every block is known.
CHECK_DEADLOCK FALSE
