\* One client following one transfer.
SPECIFICATION FairSpec
CONSTANTS
    Sends = {s1}
    Recvs = {}
    Clients = {c1}
    NoTransfer = NoTransfer
PROPERTY EndIsAnnounced
CHECK_DEADLOCK FALSE
