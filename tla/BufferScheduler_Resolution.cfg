CONSTANTS
    None = None
    Kwargs <- Even
    MaxEvents = 2
    MinClock = 2
    MaxClock = 4
    MaxRegistered = 2
    MaxSaved = 2
    Horizon = 4
    BufferInput = 2
    BufferOutput = 1
    Changed = {}
    Dates = {}
    Resolution = 2
SPECIFICATION Spec
INVARIANTS
    PlanFeasible
    BoundsInOrder
