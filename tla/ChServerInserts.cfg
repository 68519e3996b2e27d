SPECIFICATION FairSpec
CONSTANTS
    c1 = c1
    c2 = c2
    Conns <- OneConn
    MaxRequests = 2
    MaxBlocks = 2
    MaxResidue = 1
    Kinds <- InsertOrSelect
    Compressions <- Uncompressed
    Versions <- QuotaVersion
    SrConfigured = TRUE
INVARIANT
    IInv
    OrderInv
    ConfirmedIsStored
    StoredInBlockOrder
    AckedInsertIsStored
PROPERTY
    ImplementsService
    NeverWrittenAgain
    InsertAnswered
    OnlyStarRocksStalls
CHECK_DEADLOCK FALSE
