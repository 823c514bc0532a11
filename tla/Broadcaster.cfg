SPECIFICATION Spec
CONSTANTS
    c1 = c1
    c2 = c2
    build = build
    Clients = {c1, c2}
    Buffer = 2
    EventTypes = {build}
    Strict = TRUE
    HasHeartbeat = TRUE
    Initial = 1
    MaxEvents = 4
INVARIANTS
    ListedIsActive
PROPERTIES
    ImplementsLog
    QueuesDrain
