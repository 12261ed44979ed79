SPECIFICATION Spec
CONSTANTS
    Nil = Nil
    NoKey = NoKey
    k1 = k1
    k2 = k2
    t1 = t1
    t2 = t2
    t3 = t3
    Keys = {k1}
    Parts = {0}
    Txns = {t1}
    Stored = {k1}
    Cached = {k1}
    Cancels = {}
    MaxCrashes = 1
    MaxFaults = 0
    PartOf <- OnePart
    Requests <- ColdRequests
INVARIANTS
    StatePreserved
CHECK_DEADLOCK FALSE
