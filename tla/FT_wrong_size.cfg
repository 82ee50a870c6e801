\* Nothing fails; the file is longer than the request says.
SPECIFICATION Spec
CONSTANTS
    Names = {"a", "b"}
    Requests <- LongerFile
    SizeBits = 3
    Window = 2
    Negotiations = {TRUE}
    LossMayHappen = FALSE
    DiskMayFail = FALSE
    NoFile = NoFile
    NoName = NoName
INVARIANT DoneMeansWhole
CHECK_DEADLOCK FALSE
