SPECIFICATION Spec
CONSTANTS
    None = None
    db1 = db1
    db2 = db2
    System = "STORAGE"
    Targets = {db1, db2}
    MaxMsgs = 3
INVARIANTS
    IInv
    TypeOK
    NoMessageSkipped
    CommittedIsHandled
PROPERTIES
    HandledInOrder
CHECK_DEADLOCK FALSE
