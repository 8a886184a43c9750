SPECIFICATION Spec
CONSTANTS
    PreSeconds = 1
    PostSeconds = 1
    Slack = 1
    Period = 1
    MaxFrames = 6
    QueueSize = 1
    MaxLag = 1
    MaxLatency = 1
    MaxTime = 6
    MaxCaptures = 4
    MaxEvents = 2
    NoEvent = NoEvent
INVARIANTS EventsAreConserved SnapshotIfAvailable BundlesArePrompt
PROPERTY ClipCoversInterval
CHECK_DEADLOCK FALSE
