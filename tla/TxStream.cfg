SPECIFICATION FairSpec
CONSTANTS
    BufSize = 8
    SeqMod = 16
    Chunk = 2
    Mss = 5
    Streams <- Straddling
    Windows = {6}
    MaxLosses = 1
    MaxExpired = 1
    EmxDepth = 2
    EventDepth = 2
    PipeDepth = 1
    WireDepth = 1
INVARIANTS UnackedIsKept PeerReads WithinWindow FinIsLast
PROPERTIES AcceptedIsAnnounced
CHECK_DEADLOCK FALSE
