\* Good files and sound disks; the connection may be lost.
SPECIFICATION FairSpec
CONSTANTS
    Names = {"a", "b"}
    Requests <- GoodRequests
    SizeBits = 3
    Window = 3
    Negotiations = {TRUE}
    LossMayHappen = TRUE
    DiskMayFail = FALSE
    NoFile = NoFile
    NoName = NoName
INVARIANTS FailedIsUnfinished FailsOnlyByLoss
PROPERTY BothReportDone
CHECK_DEADLOCK FALSE
