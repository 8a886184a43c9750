SPECIFICATION Spec
CONSTANTS
    Positions <- RoadPositions
    Zone <- RoadZone
    Line1 = 2
    Line2 = 6
    Hysteresis = 1
    MaxTransition = 2
    Stale = 1
    LostBuffer = 1
    InDirection = "line_1_to_line_2"
    Steps = {1, 2}
    MaxTime = 6
    Watch = TRUE
    None = None
INVARIANT JitterIsNoCrossing
PROPERTIES OnlySchedulesCount EveryScheduleCounts
