CONSTANTS
    Key = {k1, k2}
    MaxDeliveries = 2
SPECIFICATION FairSpec
INVARIANTS
    OneTask
    Supervised
    CompletedByResult
