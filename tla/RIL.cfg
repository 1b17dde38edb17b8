SPECIFICATION FairSpec
CONSTANTS
    Tokens = {t1, t2}
    NotifiedKeys = {imsi}
    SettableKeys = {netMode}
    SimKeys = {imsi}
    PipeCapacity = 2
    MaxNotifications = 3
    NoToken = NoToken
    NoKey = NoKey
INVARIANTS
    OneCompleter
    WakesWithOwnReply
    HangNeedsFullPipe
    CacheCoherent
    RadioOffInLowPower
PROPERTIES
    EveryRequestCompletes
\* The process may exit (PwrPhoneReset), and rild owes no request.
CHECK_DEADLOCK FALSE
