SPECIFICATION Spec
CONSTANTS
    Users = {ann, bob}
    Tokens = {t1, t2, t3}
    NoUser = NoUser
    NoToken = NoToken
    Handlers = {h1, h2}
    Lifetime = 1
    MaxTime = 2
    MaxFailures = 1
SYMMETRY Symmetry
INVARIANTS
    TypeOK
    OneSuccessor
    KeepsSession
    SpentHaveNoRow
PROPERTIES
    LogoutStopsExchange
CHECK_DEADLOCK FALSE
