SPECIFICATION FairSpec
CONSTANTS
    Messages = {m1, m2, m3, ev}
    Events = {ev}
    NoMessage = NoMessage
    MaxSeq = 3
    FaultyModem = FALSE
    MaxFrames = 3
INVARIANTS
    SafeAllocation
PROPERTIES
    EveryRequestCompletes
    ImplementsChannel
