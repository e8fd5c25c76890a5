SPECIFICATION StoreSpec
CONSTANTS
    P1 = P1
    P2 = P2
    T1 = T1
    T2 = T2
    T3 = T3
    NoThread = NoThread
    TaskIds = {i1, i2}
    Procs = {P1, P2}
    Threads = {T1, T2, T3}
    Home <- MCHome
    MaxUpdates = 4
    Capacity = 1
    HardLimit = 2
    MaxRevision = 4
INVARIANT AckedIsKept
INVARIANT RevisionNamesContent
PROPERTY LimitsHold
