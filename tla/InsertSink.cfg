SPECIFICATION FairSinkSpec
CONSTANTS
    w1 = w1
    w2 = w2
    w3 = w3
    r1 = r1
    r2 = r2
    Calls <- AllCalls
    Batch <- Batches
    MaxHops = 2
    Modes <- AllModes
    Mapped <- WithTopic
    HasBrokers = TRUE
INVARIANTS
    SinkTypeOK
    SinkInv
PROPERTIES
    ImplementsSink
    WrittenBecomesVisible
    EveryWriteReturns
CHECK_DEADLOCK FALSE
