SPECIFICATION Spec
CONSTANTS
    c1 = c1
    c2 = c2
    Conns <- OneConn
    MaxRequests = 3
    MaxBlocks = 1
    MaxResidue = 1
    Kinds <- EveryReply
    Compressions <- AnyCompression
    Versions <- AnyVersion
    SrConfigured = TRUE
INVARIANTS
    TypeOK
    RepliesMatchRequests
    OnlyFailedInsertDesyncs
    NoMutualWait
CONSTRAINT Serving
CHECK_DEADLOCK FALSE
