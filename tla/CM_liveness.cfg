\* Fair scheduling, two concurrent requests to one peer, CloseAllConns at any time. No symmetry.
SPECIFICATION FairSpec
CONSTANTS
    Peers = {p1}
    Handlers = {h1, h2}
    Records = {r1, r2, r3}
    Conns = {c1, c2}
    RelayConns = {}
    CloseAllConnsCalled = TRUE
    NoPeer = NoPeer
    NoRec = NoRec
    NoConn = NoConn
PROPERTIES DeadIsRemoved NoGoroutineLeak
CHECK_DEADLOCK FALSE
