\* The documented exactness of a reply does not hold.
SPECIFICATION SystemSpec
CONSTANTS
    k1 = k1
    k2 = k2
    c1 = c1
    c2 = c2
    Consumers = {k1, k2}
    Cameras = {c1, c2}
    Owns <- OwnsSome
    BatchSize = 2
    CloseOrder <- BothInOrder
    Failures = FALSE
    MaxFrames <- MoreOfFirst
    ModelClasses = {"p", "q"}
    Detectors <- SomeDetectors
    Deployments = 2
    Outputs <- SomeOutputs
INVARIANTS
    ExactSnapshot
CHECK_DEADLOCK FALSE
