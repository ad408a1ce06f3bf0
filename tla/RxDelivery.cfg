\* A buffer of five bytes, written around its end; the segments arrive in any
\* order, twice, or not at all.
CONSTANTS
    SeqMod = 15
    BufSize = 5
    Isn = 3
    Depth = 2
    MaxLen = 2
    MaxPos = 6
    MaxSegments = 5
SPECIFICATION FairSpec
INVARIANTS
    AckedIsNotifiedOnce
    AckedIsKept
    StoredWhileInOrder
PROPERTIES
    AckedIsDelivered
CHECK_DEADLOCK FALSE
