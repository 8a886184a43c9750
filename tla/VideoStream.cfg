\* Files, realtime and paced streams, with failures, retries and a shutdown.
SPECIFICATION Spec
CONSTANTS
    OpenRetry = 2
    ReadRetry = 1
    JoinTimeout = 6
    Natives = {0, 1}
    Caps = {0, 2}
    MaxGap = 6
    FileLength = 4
    Stamps = {0, 1, 2, 7, None}
    MaxBlock = 7
    MaxTime = 9
    None = None
INVARIANTS
    TypeOK
    FilePlaysOnTime
PROPERTIES
    NoBursts
    OnePerPeriod
CHECK_DEADLOCK FALSE
