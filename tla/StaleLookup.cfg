\* One id, one peer: a session is closed while a segment of the same socket
\* pair is on its way from Mdh to Fsm.
CONSTANTS
    MaxSessions = 1
    QryDepth = 2
    RepDepth = 1
    RelDepth = 1
    MaxSegments = 3
    MaxConnects = 0
    MaxReads = 0
    MaxCloses = 0
    Tuple = {t1}
    NoTuple = NoTuple
    SlcDepth = 1
    MetaDepth = 2
SPECIFICATION LifeSpec
INVARIANT ConnectionIsInCam
CHECK_DEADLOCK FALSE
