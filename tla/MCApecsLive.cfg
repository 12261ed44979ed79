SPECIFICATION FairSpec
CONSTANTS
    Nil = Nil
    NoKey = NoKey
    k1 = k1
    k2 = k2
    t1 = t1
    t2 = t2
    t3 = t3
    Keys = {k1, k2}
    Parts = {0}
    Txns = {t1, t3}
    Stored = {k1, k2}
    Cached = {k1}
    Cancels = {}
    MaxCrashes = 0
    MaxFaults = 0
    PartOf <- OnePart
    Requests <- CrossedRequests
PROPERTIES
    EveryTxnReported
    EveryChangeStored
CHECK_DEADLOCK FALSE
