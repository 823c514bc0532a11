SPECIFICATION Spec
CONSTANTS
    None = None
    p1 = p1
    p2 = p2
    Parent <- MCParent
    Servers = {p1, p2}
    Modes = {"single", "multi", "background"}
    Ports = {8000, 8001}
INVARIANT
    SingleInstance
CHECK_DEADLOCK FALSE
