SPECIFICATION Spec
CONSTANTS
    MaxEdits = 1
    MaxSize = 0
    Lists <- OneAndTwo
INVARIANTS
    NoSilentMislabel
CHECK_DEADLOCK FALSE
