SPECIFICATION FairSpec
CONSTANTS
    MaxOid = 2
    MaxRevision = 1
    NULL = NULL
    Mixes = TRUE
    MaxChanges = 3
INVARIANTS
    RowsFitDeclaration
    ServedIsStored
    RefreshKeepsLayout
    FallbackIsOurs
PROPERTIES
    LiveTableServes
