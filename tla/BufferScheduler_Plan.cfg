CONSTANTS
    None = None
    Kwargs <- Mixed
    MaxEvents = 2
    MinClock = 1
    MaxClock = 2
    MaxRegistered = 2
    MaxSaved = 2
    Horizon = 3
    BufferInput = 1
    BufferOutput = 1
    Changed = {1}
    Dates = {3}
    Resolution = 1
SPECIFICATION Spec
INVARIANTS
    PlanFeasible
PROPERTIES
    NeverForgotten
    PlansAroundDeparted
