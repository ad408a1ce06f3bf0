SPECIFICATION FairSpec
CONSTANTS
    MaxSessions = 2
    CntMod = 4
    AckDelays <- MCAckDelays
    EveAkdDepth = 1
    AkdEveDepth = 1
    AkdTxeDepth = 1
    TxeEveDepth = 1
    Types = {"ACK", "RT", "TX"}
    MaxPosted = 4
INVARIANTS
    TypeOK
    EveAkdLedger
    AkdTxeLedger
    GatedWriteFindsRoom
PROPERTIES
    Drains
    ImplementsService
