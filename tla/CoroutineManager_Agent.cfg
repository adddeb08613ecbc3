CONSTANTS
    tcp = tcp
    mqtt = mqtt
    event = event
    grpc = grpc
    agent = agent
    Coro = {tcp, mqtt, event, grpc}
    Parents = {agent}
    Kind <- MCKind
    Lossy = {tcp, event}
SPECIFICATION FairSpec
INVARIANTS
    StopOnlyStarted
    SetupsFirst
    GrpcWaitsForAll
    OrderlyShutdown
PROPERTIES
    NoLoopAfterShutdown
    ShutdownTerminates
    ImplementsLifecycle
CONSTRAINT AtMostThree
