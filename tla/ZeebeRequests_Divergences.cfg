CONSTANTS
    Start = {s1}
    Cancel = {c1}
    Send = {m1, m2}
    WaitCap = 2
    Expires = TRUE
    MaxLost = 1
SPECIFICATION RequestsSpec
INVARIANTS
    SendFailure
    CancelReports
