SPECIFICATION Spec

CONSTANTS
    Conns = {c1, c2}
    Acting = {c1}
    Isolates = {i1, i2}
    Events = {e1}
    NoEvent = none
    AnyConn = c1
    Faults = {"crash_outside", "io_outside", "lost_send"}
    MaxTokens = 2
    MaxMishaps = 1
    MaxActs = 3

SYMMETRY Symmetry

INVARIANTS
    TypeOK
    OneRefresher
    ReauthIsDeserved
    NewestTokenIsStored
    RefreshingIsWorkedOn
    RevocationIsTold

CHECK_DEADLOCK FALSE
