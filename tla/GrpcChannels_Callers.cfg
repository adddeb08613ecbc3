CONSTANTS
    u1 = u1
    User = {u1, u2, u3}
    keepalive = keepalive
    large = large
    Option = {keepalive, large}
    NoOption = NoOption
    Wishes <- MCWishes
    MaxUses = 2
SPECIFICATION Spec
INVARIANTS
    InUse
    NothingLeft
PROPERTIES
    LastCloses
