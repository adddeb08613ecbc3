CONSTANTS
    a1 = a1
    a2 = a2
    Agent = {a1}
    Delay <- ForwardDelays
    Priorities <- NormalAndHigh
    Start = 0
    Limit = 2
    NoLimit = NoLimit
    MaxEvents = 3
    HookActs = FALSE
SPECIFICATION Spec
INVARIANTS
    Accounting
PROPERTIES
    ImplementsEventSimulation
