SPECIFICATION Spec
CONSTANTS
    Word = 4
    MaxText = 5
    MaxBody = 7
    Environments <- SomeEnvironments
    Headers <- AllHeaders
    CorootRows <- SixRows
    MaxRows = 2
INVARIANTS
    HeaderAsMeant
    RowsArrive
    OnlyKeysAndTextsRefused
    OnlyEventsLost
    IngestInv
CHECK_DEADLOCK FALSE
