SPECIFICATION RunsSpec
CONSTANTS
    Products <- TwoProducts
    Format <- ByKeys
    Defaults <- TheDefaults
    Processes = 2
    Invocations = 3
    None = None
INVARIANT
    OwnResults
PROPERTY
    ResultsKept
CHECK_DEADLOCK FALSE
