SPECIFICATION FairSpec
INVARIANTS
    Accounting
    ExclusiveLease
    NothingLeaks
    FreedIsQuiet
PROPERTIES
    FirstInFirstOut
    ImplementsLeaseSpec
    QueueDrains
    AcquireReturns
CONSTANTS
    Clients = {t1, t2, t3}
    Connections = {k1, k2}
    NULL = NULL
    MinimumSize = 1
    MaximumSize = 2
    MaximumWaiters = 2
    MaxSerial = 3
    Timeouts = TRUE
    Faults = TRUE
CHECK_DEADLOCK FALSE
