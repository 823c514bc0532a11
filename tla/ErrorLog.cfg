SPECIFICATION Spec
CONSTANTS
    t1 = t1
    t2 = t2
    Threads = {t1, t2}
    MaxEntries = 2
    MaxWorkers = 2
    MaxCloses = 2
    MaxFaults = 1
INVARIANTS
    UnfinishedIsExact
    EntriesAreAccountedFor
    InsertionOrder
    ReadsObserveUnlessClosed
PROPERTY FlushEnds
