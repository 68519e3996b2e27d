SPECIFICATION Spec
CONSTANTS
    MaxEdits = 0
    MaxSize = 2
    Lists <- WithEmpty
INVARIANTS
    EmptyInMirrored
CHECK_DEADLOCK FALSE
