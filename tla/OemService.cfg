CONSTANTS
    Handlers = {h1, h2, h3}
    Holders = {h1, h2}
    MaxRecords = 3
    MaxEvents = 2
    None = None
SPECIFICATION Spec
PROPERTIES
    EveryHandlerCalled
    OnlyDeathEnds
    DeadHandlersLeave
    EveryEventDelivered
\* After the last event and registration nothing has to happen.
CHECK_DEADLOCK FALSE
