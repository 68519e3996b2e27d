SPECIFICATION Spec
CONSTANTS
    c1 = c1
    c2 = c2
    Conns <- OneConn
    MaxRequests = 2
    MaxBlocks = 1
    MaxResidue = 1
    Kinds <- InsertOrSelect
    Compressions <- Uncompressed
    Versions <- QuotaVersion
    SrConfigured = TRUE
INVARIANT
    NeverDesynced
CHECK_DEADLOCK FALSE
