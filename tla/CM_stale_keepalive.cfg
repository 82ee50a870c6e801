\* One request at a time to one peer is enough.
SPECIFICATION Spec
CONSTANTS
    Peers = {p1}
    Handlers = {h1}
    Records = {r1, r2}
    Conns = {c1, c2}
    RelayConns = {}
    CloseAllConnsCalled = FALSE
    NoPeer = NoPeer
    NoRec = NoRec
    NoConn = NoConn
PROPERTIES KeepAliveRemovesItsOwn
CHECK_DEADLOCK FALSE
