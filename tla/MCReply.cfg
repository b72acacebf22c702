SPECIFICATION FairSpec
CONSTANTS
    Byte <- MCByte
    Contents <- MCContents
    MaxPeek = 3
INVARIANTS
    TypeOK
    AllAccountedFor
PROPERTIES
    IsAStream
    EventuallyFinished
CHECK_DEADLOCK FALSE
