SPECIFICATION FairSpec
CONSTANTS
    Threads = {t1, t2}
    MaxCalls = 3
    MayInterrupt = TRUE
    NoThread = NoThread
INVARIANTS
    IdsDistinct
    OwnResult
    NoResultLeft
PROPERTIES
    EveryCallReturns
\* Nothing more happens after MaxCalls calls.
CHECK_DEADLOCK FALSE
