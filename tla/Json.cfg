SPECIFICATION Spec
CONSTANTS
    Documents <- MCDocuments
    MaxDocs = 2
INVARIANTS
    Delivered
    CleanBetween
CHECK_DEADLOCK FALSE
