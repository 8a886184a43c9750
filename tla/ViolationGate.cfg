SPECIFICATION Spec
CONSTANTS
    car = car
    bus = bus
    Positions <- RoadPositions
    Approach <- RoadApproach
    Exit <- RoadExit
    Allowed <- RightForCars
    StopLine = 2
    Hysteresis = 1
    MaxMovement = 2
    Stale = 1
    LostBuffer = 3
    Classes = {car, bus}
    Lights = {"red", "green", "unknown"}
    Enforced = {"red"}
    Steps = {1, 2}
    MaxTime = 5
    Windows = {1, 2, 3, 4, 5}
    MaxObserved = 7
    Watch = TRUE
    None = None
INVARIANTS TypeOK EarlyVerdictIsSafe JudgedBySteadyLight
PROPERTIES ViolationIsJustified RunIsJudged VerdictIsFinal
