SPECIFICATION Spec
CONSTANTS
    Nil = Nil
    NoKey = NoKey
    k1 = k1
    k2 = k2
    t1 = t1
    t2 = t2
    t3 = t3
    Keys = {k1, k2}
    Parts = {0, 1}
    Txns = {t1, t3}
    Stored = {k1, k2}
    Cached = {k1, k2}
    Cancels = {}
    MaxCrashes = 0
    MaxFaults = 1
    PartOf <- TwoParts
    Requests <- CrossedRequests
INVARIANTS
    AppliedInLogOrder
    NoLostUpdate
    StorageCatchesUp
    StoreNotOlderThanDb
    DbHasNewest
    ReportedOnce
    MessagesResumable
CHECK_DEADLOCK FALSE
