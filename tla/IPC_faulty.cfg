SPECIFICATION Spec
CONSTANTS
    Messages = {m1, m2, m3, ev}
    Events = {ev}
    NoMessage = NoMessage
    MaxSeq = 1
    FaultyModem = TRUE
    MaxFrames = 1
INVARIANTS
    TypeOK
    SequencePartition
    Ownership
PROPERTIES
    QueuedForEver
\* The model stops at undefined behaviour.
CHECK_DEADLOCK FALSE
