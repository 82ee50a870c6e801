\* Sizes that fit, sizes that turn negative and sums that wrap; floats that are an
\* eighth off.
SPECIFICATION Spec
CONSTANTS
    Width = 5
    Requests <- SmallRequests
    ByteCounts <- SmallCounts
    Speeds = {0, 9}
    Accuracy = 8
    HeaderLength = 1
    FrameLength = 1
    NoEta = NoEta
INVARIANTS TypeOK BytesConserved FilesFilledInOrder NeverUnderreported OverreportIsFraming TotalAgreesWithFiles SpeedsAddUp
CHECK_DEADLOCK FALSE
