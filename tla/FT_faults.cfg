\* Every fault at once: wrong requests, reset streams, lost connections, failing disks.
SPECIFICATION FairSpec
CONSTANTS
    Names = {"a", "b"}
    Requests <- MixedRequests
    SizeBits = 3
    Window = 2
    Negotiations = {TRUE, FALSE}
    LossMayHappen = TRUE
    DiskMayFail = TRUE
    NoFile = NoFile
    NoName = NoName
INVARIANTS TypeOK InOrder DeliveryIntegrity CountersMatchWire BlockedIsAnswered
PROPERTIES SendingSettles ReceivingSettles ImplementsDelivery
CHECK_DEADLOCK FALSE
