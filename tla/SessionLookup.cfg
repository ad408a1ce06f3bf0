\* Two ids and two socket pairs: an id that is being recycled leaves the free
\* list empty, and ids change hands.
CONSTANTS
    MaxSessions = 2
    Tuple = {t1, t2}
    NoTuple = NoTuple
    StreamDepth = 1
    MaxLookups = 3
    MaxReleases = 2
    MaxReverse = 1
SPECIFICATION FairSpec
INVARIANTS
    IdsConserved
    CamConsistent
PROPERTIES
    ReverseIsCurrent
    LookupServed
    ReleasedIsFreed
\* The bounded users stop.
CHECK_DEADLOCK FALSE
