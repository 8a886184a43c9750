\* A source that blocks for longer than its thread is joined.
SPECIFICATION Spec
CONSTANTS
    OpenRetry = 2
    ReadRetry = 1
    JoinTimeout = 6
    Natives = {0, 1}
    Caps = {0, 2}
    MaxGap = 6
    FileLength = 4
    Stamps = {0, 1, 2, 7, None}
    MaxBlock = 7
    MaxTime = 9
    None = None
INVARIANT SlotsOutliveThread
CHECK_DEADLOCK FALSE
