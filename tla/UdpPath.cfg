SPECIFICATION FairSpec
CONSTANTS
    Ip <- MCIp
    Me = 6
    Gateway = 3
    Local <- MCLocal
    Bcast = 99
    StreamDepth = 2
    UccDepth = 6
    HdrDepth = 16
    CsumDepth = 4
    DataDepth = 8
    Mds = 4
    Mrt <- MCMrt
    NoIp = 0
    Works <- MCWorks
INVARIANTS NoMixup FateIsJust WireIntact PortsAgree
PROPERTIES EveryFate NeighbourLearned
CHECK_DEADLOCK FALSE
