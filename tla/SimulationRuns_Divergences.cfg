SPECIFICATION RunsSpec
CONSTANTS
    Products <- TwoProducts
    Format <- ByKey
    Defaults <- TheDefaults
    Processes = 2
    Invocations = 3
    None = None
INVARIANT
    OwnResults
PROPERTY
    FailedRepeated
CHECK_DEADLOCK FALSE
