SPECIFICATION Spec
CONSTANTS
    MaxEdits = 1
    MaxSize = 3
    Lists <- OneAndTwo
INVARIANTS
    ExtractorReads
    SameAnswer
    CatalogueTranslated
    ShapeFitsColumns
CHECK_DEADLOCK FALSE
