SPECIFICATION FairSpec
CONSTANTS
    Interval = 2
    ReadTimeout = TRUE
    MaxWait = 2
PROPERTIES
    ErrorStops
    HeartbeatEnds
