CONSTANTS
    tcp = tcp
    mqtt = mqtt
    event = event
    grpc = grpc
    agent = agent
    Coro = {tcp, mqtt, grpc}
    Parents = {}
    Kind <- MCKind
    Lossy = {tcp}
SPECIFICATION Spec
INVARIANTS
    AllCancelledInTime
    GrpcServesLast
    StartAfterSetup
    StopAfterCancel
    ThreadReleases
