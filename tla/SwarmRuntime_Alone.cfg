SPECIFICATION Spec
CONSTANTS
    Handlers = {h1}
    Agents = {"x", "xy"}
    Longer <- OneLonger
    Certs = {c1, c2, c3}
    Configs = {}
    Generated <- PeerOnly
    Ops = {"update", "destroy"}
    CanFail = TRUE
    None = None
PROPERTIES
    OnlyOwn
    CreateCleans
    DestroyCleans
