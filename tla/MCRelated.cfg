SPECIFICATION Spec
CONSTANTS
    pl = pl
    c1 = c1
    c2 = c2
    Player = pl
    Chars = {c1, c2}
    PartOf <- SharedParts
    Requests <- MixedRequests
    MaxChanges = 2
INVARIANTS
    TypeOK
    RelatedCatchesUp
    RelatedStored
CHECK_DEADLOCK FALSE
