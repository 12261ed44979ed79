SPECIFICATION Spec
CONSTANTS
    pl = pl
    c1 = c1
    c2 = c2
    Player = pl
    Chars = {c1, c2}
    PartOf <- OwnParts
    Requests <- PlayerRequests
    MaxChanges = 1
INVARIANTS
    RelatedCatchesUp
CHECK_DEADLOCK FALSE
