CONSTANTS
    Key = {k1}
    MaxDeliveries = 3
SPECIFICATION Spec
INVARIANTS
    RefusedWhileProcessed
