SPECIFICATION Spec
CONSTANTS
    t1 = t1
    t2 = t2
    Threads = {t1, t2}
    MaxEntries = 1
    MaxWorkers = 1
    MaxCloses = 1
    MaxFaults = 0
INVARIANT ReadsObserveAppends
