\* The tracker of one camera and the buffers its results are published in.
SPECIFICATION UseCaseSpec
CONSTANTS
    Classes = {0, 1}
    Threshold = 1
    Top = 2
    MaxMissed = 1
    MaxDetections = 2
    MaxTracks = 3
    MaxAnalyzed = 3
    Capacity = 2
INVARIANT SnapshotIsOneFrame
PROPERTIES MatchingIsStable OneTrackPerDetection
CHECK_DEADLOCK FALSE
