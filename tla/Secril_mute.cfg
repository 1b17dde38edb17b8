CONSTANTS
    Uids = {"media"}
    Values = {0, 1}
    Callbacks = {cb}
    MaxCalls = 2
    MaxOutages = 0
    MaxServices = 1
    Null = Null
SPECIFICATION SecrilSpec
PROPERTY MuteStateReported
