SPECIFICATION NVSpec
CONSTANTS
    Values = {0, 1}
    DefaultValue = 0
    PaddingValue = 0
    MaxStarts = 2
INVARIANTS
    DataSurvivesRestart
PROPERTIES
    NeverDoomed
\* Nothing more happens after MaxStarts starts.
CHECK_DEADLOCK FALSE
