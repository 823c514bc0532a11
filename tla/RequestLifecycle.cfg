SPECIFICATION Spec
CONSTANTS
    NDeps = 2
    MaxBody = 1
INVARIANTS
    NothingOutlivesRequest
    LifoTeardown
    DependenciesTornDown
    SecondStartOnlyAfterHandlerReply
    CancellationIsGenuine
    RequestIsAnswered
PROPERTIES
    ResourceOutlivesStream
    CancelledStreamUnwinds
