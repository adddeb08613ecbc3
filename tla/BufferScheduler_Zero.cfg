CONSTANTS
    None = None
    Kwargs <- Early
    MaxEvents = 2
    MinClock = 0
    MaxClock = 2
    MaxRegistered = 2
    MaxSaved = 2
    Horizon = 3
    BufferInput = 2
    BufferOutput = 1
    Changed = {}
    Dates = {}
    Resolution = 1
SPECIFICATION Spec
PROPERTIES
    PlansAroundDeparted
