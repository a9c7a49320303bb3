SPECIFICATION FairSpec
CONSTANTS
    MaxRows = 2
    MaxGeneration = 3
    Settings = 1
    MaxInternalPolls = 3
    MaxResultRows = 2
INVARIANTS
    PooledIsQuiescent
    RowIsBacked
    MachineNeverRefuses
    ConfirmedCancelInterrupts
PROPERTIES
    ImplementsRowStream
    CancelEndsScan
    OnlyGetResultBlocks
