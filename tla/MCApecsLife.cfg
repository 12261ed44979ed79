SPECIFICATION Spec
CONSTANTS
    Nil = Nil
    NoKey = NoKey
    k1 = k1
    k2 = k2
    t1 = t1
    t2 = t2
    t3 = t3
    Keys = {k1, k2}
    Parts = {0}
    Txns = {t1, t2, t3}
    Stored = {k2}
    Cached = {k2}
    Cancels = {t3}
    MaxCrashes = 0
    MaxFaults = 0
    PartOf <- OnePart
    Requests <- LifeRequests
INVARIANTS
    TypeOK
    MessagesResumable
    ReportedOnce
CHECK_DEADLOCK FALSE
