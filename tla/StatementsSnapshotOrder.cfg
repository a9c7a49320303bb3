CONSTANTS
    NULL = NULL
    IsCase <- AnyCase
    MaxChanges = 2
SPECIFICATION Spec
INVARIANTS
    SnapshotServes
