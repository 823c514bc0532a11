SPECIFICATION Spec
CONSTANTS
    None = None
    p1 = p1
    p2 = p2
    Parent <- MCParent
    Servers = {p1, p2}
    Modes = {"single", "background"}
    Ports = {8000}
INVARIANTS
    RunningIsDiscoverable
PROPERTIES
    OnlyProcessesRefuse
    LaunchedIsRunning
    StopKills
CHECK_DEADLOCK FALSE
