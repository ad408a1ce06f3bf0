SPECIFICATION FairSpec
CONSTANTS
    MaxSessions = 2
    ByteValues = 2
    MaxRetries = 1
    StreamDepth = 1
    Budgets <- Workloads
INVARIANT PortsConserved
PROPERTIES OpenIsAnswered ClosingEnds
CHECK_DEADLOCK FALSE
