SPECIFICATION FairSpec
CONSTANTS
    MaxSessions = 2
    Ip = {"A", "B", "cfrm"}
    NoIp = "none"
    CfrmIp = "cfrm"
    Mrts <- Swapped
    StreamDepth = 2
    Free = 3
    Split = 2
    NotifLen = 2
    Works <- Pressed
PROPERTIES NotifiedIsDelivered
CHECK_DEADLOCK FALSE
