SPECIFICATION Spec
INVARIANTS
    AckedIsCommitted
CONSTANTS
    a = a
    b = b
    f = f
    here = here
    there = there
    Tables = {a}
    Identities = {here, there}
    IdentityOf <- TwoIdentities
    Cursors = {}
    CursorTable <- ScansOfA
    NoIdentity = NoIdentity
    MaxParticipants = 2
    MaxSavepoints = 2
    MaxDepth = 1
    MaxWrites = 4
