SPECIFICATION Spec
CONSTANTS
    Positions <- RoadPositions
    Zone <- RoadZone
    Line1 = 2
    Line2 = 6
    Hysteresis = 1
    MaxTransition = 3
    Stale = 2
    LostBuffer = 4
    InDirection = "line_1_to_line_2"
    Steps = {1, 3}
    MaxTime = 12
    Watch = FALSE
    None = None
INVARIANT OncePerId
