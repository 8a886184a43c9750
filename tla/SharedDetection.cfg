\* Two consumers, two cameras, crashes, timeouts and backend errors.
SPECIFICATION SystemSpec
CONSTANTS
    k1 = k1
    k2 = k2
    c1 = c1
    c2 = c2
    Consumers = {k1, k2}
    Cameras = {c1, c2}
    Owns <- OwnsSome
    BatchSize = 2
    CloseOrder <- BothInOrder
    Failures = TRUE
    MaxFrames <- MoreOfFirst
    ModelClasses = {"p", "q"}
    Detectors <- SomeDetectors
    Deployments = 2
    Outputs <- SomeOutputs
INVARIANTS
    TypeOK
    OneReplyPerRequest
    PredictionsAlign
    RepliesAreTransparent
PROPERTIES
    EveryWaitEnds
    ShutdownCompletes
CHECK_DEADLOCK FALSE
