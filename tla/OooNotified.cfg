\* Segments kept out of order make Ran pair a notification with the memory
\* status of an earlier segment.
CONSTANTS
    SeqMod = 15
    BufSize = 5
    Isn = 3
    Depth = 2
    MaxLen = 2
    MaxPos = 6
    MaxSegments = 5
SPECIFICATION Spec
INVARIANT NotifiedIsStored
CHECK_DEADLOCK FALSE
