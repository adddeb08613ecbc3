CONSTANTS
    Timed = {TRUE}
    Legacy = {TRUE}
    MainRaises = {}
SPECIFICATION FairEventSpec
PROPERTIES
    EveryCancelEnds
