\* The three render modes with a clock and a viewer of the page.
SPECIFICATION PageSpec
CONSTANTS
    Modes = {"delayed_matched", "inference_only", "latest_predictions"}
    Delay = 2
    BufferSize = 2
    Ttl = 1
    MaxFrames = 3
    MaxTime = 4
INVARIANTS
    TypeOK
PROPERTIES
    ViewerNeverGoesBack
    PlaysTimeline
    ReadyResultIsShown
CHECK_DEADLOCK FALSE
