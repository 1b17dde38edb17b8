CONSTANTS
    Uids = {"system", "media", "signed", "other"}
    Values = {1, 4, 260}
    Callbacks = {cb}
    MaxCalls = 2
    MaxOutages = 1
    MaxServices = 2
    Null = Null
SPECIFICATION SecrilSpec
INVARIANT SuccessMeansSet
PROPERTY OnlyAllowedUsers
