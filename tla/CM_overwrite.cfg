\* Two concurrent requests to one peer.
SPECIFICATION Spec
CONSTANTS
    Peers = {p1}
    Handlers = {h1, h2}
    Records = {r1, r2}
    Conns = {c1, c2}
    RelayConns = {}
    CloseAllConnsCalled = FALSE
    NoPeer = NoPeer
    NoRec = NoRec
    NoConn = NoConn
PROPERTIES LiveConnectionReused
CHECK_DEADLOCK FALSE
