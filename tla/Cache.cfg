SPECIFICATION FairSpec
INVARIANTS
    OneBuilder
    PublishedIsComplete
    LeasesCounted
    NothingLeaks
PROPERTIES
    SnapshotIsFinal
    WaitEnds
    AcquireReturns
CONSTANTS
    Cursors = {c1, c2, c3}
    RowCount = 2
    MaxAttempts = 4
    Timeouts = TRUE
    Faults = TRUE
CHECK_DEADLOCK FALSE
