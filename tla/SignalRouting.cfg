\* Two cameras, two use cases with the shared detector.
SPECIFICATION FairSpec
CONSTANTS
    c1 = c1
    c2 = c2
    u1 = u1
    u2 = u2
    Cameras = {c1, c2}
    UseCases = {u1, u2}
    Assigned <- AssignedBoth
    Shared = {u1, u2}
    BatchSize = 2
    None = None
    MaxFrames <- MoreOfSecond
INVARIANTS
    TypeOK
    PendingIsOwed
    NoDroppedSignal
    NoLostWakeup
    WorkIsPaidFor
PROPERTIES
    ImplementsLatestFrame
    FramesAreShown
CHECK_DEADLOCK FALSE
