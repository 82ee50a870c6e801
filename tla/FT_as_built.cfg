\* The stream opened as Post opens it, with no protocol. Nothing fails.
SPECIFICATION FairSpec
CONSTANTS
    Names = {"a", "b"}
    Requests <- GoodRequests
    SizeBits = 3
    Window = 2
    Negotiations = {FALSE}
    LossMayHappen = FALSE
    DiskMayFail = FALSE
    NoFile = NoFile
    NoName = NoName
PROPERTY BothReportDone
CHECK_DEADLOCK FALSE
