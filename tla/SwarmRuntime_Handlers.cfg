SPECIFICATION Spec
CONSTANTS
    Handlers = {h1, h2}
    Agents = {a}
    Longer = {}
    Certs = {c1, c2, c3}
    Configs = {x}
    Generated <- PeerOnly
    Ops = {"update", "destroy", "create", "sleep", "wake", "upgrade", "renew"}
    CanFail = TRUE
    None = None
INVARIANTS
    KeyPair
PROPERTIES
    AloneSucceeds
    AloneCleans
    NeverPutToSleep
SYMMETRY Symmetry
