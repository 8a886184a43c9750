SPECIFICATION Spec
CONSTANTS
    PreSeconds = 1
    PostSeconds = 1
    Slack = 1
    Period = 1
    MaxFrames = 6
    QueueSize = 1
    MaxLag = 1
    MaxLatency = 1
    MaxTime = 3
    MaxCaptures = 4
    MaxEvents = 2
    NoEvent = NoEvent
INVARIANT ConfirmedIsBundled
CHECK_DEADLOCK FALSE
