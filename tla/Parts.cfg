SPECIFICATION MCSpec
CONSTANTS
    Clients = {"a", "b"}
    MaxTokens = 2
    Window = 3
    t1 = t1
    t2 = t2
    t3 = t3
    p = p
    q = q
    Threads = {t1, t2, t3}
    ProcessOf <- MCProcessOf
    Names = {"u", "v"}
    Flags = {"f", "g"}
    m1 = m1
    m2 = m2
    Marks = {m1, m2}
    OwnerOf <- MCOwnerOf
    Readers = {"r", "s"}
    Nothing = Nothing
    Idle = Idle
    Torn = Torn
INVARIANTS
    OverridesSurvive
    WindowsAreCounted
    ShellIsStopped
PROPERTIES
    ImplementsTokenBucket
    BucketsAreRecent
    UpdatesAreKept
CHECK_DEADLOCK FALSE
