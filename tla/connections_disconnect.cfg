\* One connection, one refresh, a disconnect while it is under way.
SPECIFICATION Spec
CONSTANTS
    Conns = {c1}
    Acting = {c1}
    Isolates = {i1}
    Events = {}
    NoEvent = none
    AnyConn = c1
    Faults = {"disconnect_in_refresh"}
    MaxTokens = 2
    MaxMishaps = 0
    MaxActs = 6
INVARIANT DisconnectedIsWiped
CHECK_DEADLOCK FALSE
