SPECIFICATION Spec
CONSTANTS
    Handlers = {h1, h2}
    Agents = {a}
    Longer = {}
    Certs = {c1, c2, c3}
    Configs = {}
    Generated <- PeerOnly
    Ops = {"update", "destroy"}
    CanFail = FALSE
    None = None
PROPERTY
    NotFoundChangesNothing
