CONSTANTS
    WaitCap = 3
    CallbackRaises = {}
SPECIFICATION ConnectionSpec
INVARIANTS
    StopDisconnects
    CallStarts
