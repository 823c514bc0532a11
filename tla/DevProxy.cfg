SPECIFICATION Spec
CONSTANTS
    Digits = {"7"}
    Apps <- MCApps
    Methods <- MCMethods
    Paths <- MCPaths
    Backend <- MCBackend
    Chunks = 2
INVARIANTS
    RoutesAreFound
    ReplayIsFaithful
    OneAnswer
PROPERTY SessionsEnd
CHECK_DEADLOCK FALSE
