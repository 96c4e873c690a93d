SPECIFICATION Spec
CONSTANTS
    k1 = k1
    k2 = k2
    Keys <- MCKeys
    Files <- MCFiles
    MaxPages = 2
    MaxVersion = 2
    MaxLookups = 2
    MaxImports = 2
CHECK_DEADLOCK FALSE
INVARIANTS TypeOK CurrentInput ConfirmedIsImported
PROPERTY ImportEnds
