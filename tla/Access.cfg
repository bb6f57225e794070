SPECIFICATION Spec
CONSTANTS
    ada = ada  bob = bob  h1 = h1  h2 = h2
    Users = {ada, bob}
    Seeded = {ada}
    NoUser = NoUser
    Handlers = {h1, h2}
    Life = 1
    MaxLatency = 1
    MaxRows = 2
    MaxTime = 2
SYMMETRY Symmetry
INVARIANTS
    TypeOK
    PowerIsRecent
    AccessEndsWithSession
PROPERTIES
    RoleKept
CHECK_DEADLOCK FALSE
