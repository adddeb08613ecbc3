CONSTANTS
    Start = {s1}
    Cancel = {c1}
    Send = {m1, m2}
    WaitCap = 1
    Expires = TRUE
    MaxLost = 1
SPECIFICATION FairRequestsSpec
INVARIANTS
    StartReported
    SendReported
PROPERTIES
    CallsReturn
