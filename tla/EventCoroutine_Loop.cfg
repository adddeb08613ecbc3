CONSTANTS
    Timed = {TRUE, FALSE}
    Legacy = {TRUE, FALSE}
    MainRaises = {"timeout", "error"}
SPECIFICATION FairEventSpec
INVARIANTS
    NoLostWakeup
PROPERTIES
    NoMainAfterStop
    CancelEnds
