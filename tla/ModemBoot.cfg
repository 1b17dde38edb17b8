SPECIFICATION FairSpec
CONSTANTS
    ImageSize = 2
    Blocks = 2
    LinkTries = 2
    WakeTries = 2
    DumpSize = 2
    MaxCalls = 2
INVARIANTS
    BootedOnlyIfComplete
    LinkLeftActive
    BootSocketValid
PROPERTIES
    EveryCallReturns
\* Nothing more happens after MaxCalls calls.
CHECK_DEADLOCK FALSE
