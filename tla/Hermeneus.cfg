SPECIFICATION FairHermeneus
CONSTANTS
    c1 = c1
    r1 = r1
    r2 = r2
    Conns <- OneConn
    MaxRequests = 1
    MaxBlocks = 2
    MaxResidue = 1
    Kinds <- OnlyInserts
    Compressions <- Uncompressed
    Versions <- QuotaVersion
    SrConfigured = TRUE
    Rows <- TwoRows
    MaxHops = 1
    Modes <- LoadOnly
    Mapped <- AllMapped
    HasBrokers = TRUE
INVARIANTS
    RowsInBlockOrder
    AckedRowsDurable
    JointInv
PROPERTIES
    ImplementsServer
    WritesReturn
    ShutdownCompletes
CHECK_DEADLOCK FALSE
