SPECIFICATION SpecLoop
CONSTANTS
    HeaderSize = 2
    IOBufSize = 3
    Lengths = {2, 5}
    MaxMessages = 2
    MaxFd = 5
    OpenAtStart = {0, 1}
    WordBits = 2
    MaxSubmissions = 2
INVARIANTS
    DeliveredInOrder
    NothingHeldBack
    PanicOnlyAtEnd
PROPERTIES
    EveryMessageDelivered
    EverySubmissionServed
\* The process ends in a panic, and initialize() when it has no descriptors.
CHECK_DEADLOCK FALSE
