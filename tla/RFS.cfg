SPECIFICATION Spec
CONSTANTS
    Paths <- TwoLevels
    Outside = Outside
    Above = Above
    MaxFd = 2
    Addresses <- LowAndHigh
    NVSize = 1
    Half = 3
    NVLengths = {1, 2}
    NVReadMax = 1
INVARIANTS
    OnlyOwnHandles
    TablesMatchReplies
    NVInBounds
PROPERTIES
    FailureLosesNothing
