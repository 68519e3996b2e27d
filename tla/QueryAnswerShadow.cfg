SPECIFICATION Spec
CONSTANTS
    Translated <- OneQuery
    MaxRows = 1
    MaxWords = 1
INVARIANT KnownSelectIsTranslated
CHECK_DEADLOCK FALSE
