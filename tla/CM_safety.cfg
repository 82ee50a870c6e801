\* Two concurrent requests, two peers, every interleaving.
SPECIFICATION HSpec
CONSTANTS
    Peers = {p1, p2}
    Handlers = {h1, h2}
    Records = {r1, r2, r3}
    Conns = {c1, c2, relay1}
    RelayConns = {relay1}
    CloseAllConnsCalled = TRUE
    NoPeer = NoPeer
    NoRec = NoRec
    NoConn = NoConn
SYMMETRY SafetySymmetry
INVARIANTS TypeOK RegisteredIsMaintained RegisteredIsNotStopped StoppedIsClosed EntryIsDirectToPeer
           SerialisedStaysMaintained
PROPERTIES EvictsNothingItSawAlive ImplementsTable
CHECK_DEADLOCK FALSE
