CONSTANTS
    WaitCap = 3
    CallbackRaises = {"rpc", "error"}
SPECIFICATION FairConnectionSpec
INVARIANTS
    PromptRetry
PROPERTIES
    Alternating
    StopEnds
    Reconnects
