SPECIFICATION Spec
CONSTANTS
    Orders <- MCOrders
    MaxSignals = 2
INVARIANTS
    NoChildLeft
    StatusIsTrue
PROPERTIES
    StopsInReverse
    StopReachesAll
    StartIsDecided
CHECK_DEADLOCK FALSE
