CONSTANTS
    Ids = {1, 2, 3}
    MaxCalls = 3
    MaxChanges = 1
    MaxQueue = 2
    Causes <- BusyAndCongestion
    None = None
SPECIFICATION Spec
INVARIANTS
    RightCallAddressed
    FailCauseOfEndedCall
