SPECIFICATION Spec
INVARIANTS
    
    RolledBackStaysOut
PROPERTIES
    AmbiguousIsFinal
CONSTANTS
    a = a
    b = b
    f = f
    here = here
    there = there
    Tables = {a, b, f}
    Identities = {here, there}
    IdentityOf <- TwoIdentities
    Cursors = {}
    CursorTable <- ScansOfA
    NoIdentity = NoIdentity
    MaxParticipants = 2
    MaxSavepoints = 2
    MaxDepth = 0
    MaxWrites = 3
