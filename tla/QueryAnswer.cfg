SPECIFICATION Spec
CONSTANTS
    Translated <- FiveQueries
    MaxRows = 2
    MaxWords = 1
INVARIANTS
    ResultIsComplete
    ProbesAnswered
CHECK_DEADLOCK FALSE
