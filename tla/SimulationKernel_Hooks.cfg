CONSTANTS
    a1 = a1
    a2 = a2
    Agent = {a1, a2}
    Delay <- AnyDelays
    Priorities <- NormalAndHigh
    Start = 0
    Limit = NoLimit
    NoLimit = NoLimit
    MaxEvents = 2
    HookActs = TRUE
SPECIFICATION Spec
INVARIANTS
    Accounting
