SPECIFICATION FairSpec
CONSTANTS
    MaxPartition <- MCMaxPartition
    NoFuture = NoFuture
    NoDef = NoDef
    RawDefs <- MCRawDefs
    AdminProg <- MCAdminProg
    Base <- MCBase
    Programs <- MCPrograms
    MaxPublish = 2
    MaxStarts = 2
    MaxFaults = 1
PROPERTY
    EndedIsRestarted
CHECK_DEADLOCK FALSE
