SPECIFICATION Spec
INVARIANTS
    RolledBackStaysOut
    SavepointsMirrored
CONSTANTS
    a = a
    b = b
    f = f
    here = here
    there = there
    Tables = {a}
    Identities = {here, there}
    IdentityOf <- TwoIdentities
    Cursors = {}
    CursorTable <- ScansOfA
    NoIdentity = NoIdentity
    MaxParticipants = 2
    MaxSavepoints = 2
    MaxDepth = 2
    MaxWrites = 3
