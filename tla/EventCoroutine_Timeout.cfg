CONSTANTS
    Timed = {FALSE}
    Legacy = {FALSE}
    MainRaises = {"timeout"}
SPECIFICATION EventSpec
PROPERTIES
    WaitsForEvent
