SPECIFICATION Spec
INVARIANTS
    GateHasOneOwner
PROPERTIES
    StreamIsolated
CONSTANTS
    a = a
    b = b
    f = f
    here = here
    there = there
    Tables = {a, b}
    Identities = {here, there}
    IdentityOf <- TwoIdentities
    Cursors = {c1, c2}
    CursorTable <- ScansOfA
    NoIdentity = NoIdentity
    MaxParticipants = 2
    MaxSavepoints = 2
    MaxDepth = 1
    MaxWrites = 2
