SPECIFICATION Spec
CONSTANTS
    c1 = c1
    c2 = c2
    Conns <- TwoConns
    MaxRequests = 1
    MaxBlocks = 1
    MaxResidue = 1
    Kinds <- AnyKind
    Compressions <- Uncompressed
    Versions <- QuotaVersion
    SrConfigured = FALSE
INVARIANTS
    AckedInsertIsStored
SYMMETRY Symmetry
CHECK_DEADLOCK FALSE
