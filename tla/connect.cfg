SPECIFICATION Spec
CONSTANTS
    Owner = {o1, o2}
    Link = {l1}
    Handshake = {h1, h2}
    Conn = {1, 2}
    Page = {p1, p2}
    NoLink = NoLink
    NoConn = NoConn
    NoToken = NoToken
SYMMETRY Alike
CONSTRAINT Few
INVARIANTS TypeOK LandsWhereItStarted OneLiveConnection SelectedWasChosen
CHECK_DEADLOCK FALSE
