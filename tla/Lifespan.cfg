SPECIFICATION Spec
CONSTANTS
    NMounts = 3
    MaxSends = 2
INVARIANTS
    Nested
    AnswersAreTrue
    NeverWaitsForTheDead
PROPERTY StopEnds
CHECK_DEADLOCK FALSE
