\* Two sessions: three segments take one out of ESTABLISHED, Tac opens and
\* closes, a timer expires.
CONSTANTS
    MaxSessions = 2
    QryDepth = 2
    RepDepth = 1
    RelDepth = 1
    MaxSegments = 3
    MaxConnects = 2
    MaxReads = 1
    MaxCloses = 1
SPECIFICATION FairSpec
INVARIANTS
    NoLostUpdate
PROPERTIES
    AllServed
\* The bounded clients stop.
CHECK_DEADLOCK FALSE
