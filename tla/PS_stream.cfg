\* One client (clients share nothing but the tables), transfers both ways.
SPECIFICATION HFairSpec
CONSTANTS
    Sends = {s1, s2}
    Recvs = {r1}
    Clients = {c1}
    NoTransfer = NoTransfer
INVARIANTS TypeOK DoneIsTruthful
PROPERTIES IdleHidesNoSteadyTransfer ShowsOnlyActive GoneStreamEnds ActiveIsShown
CHECK_DEADLOCK FALSE
