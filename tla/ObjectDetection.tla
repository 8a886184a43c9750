-------------------------- MODULE ObjectDetection --------------------------
(***************************************************************************)
(* The object_detection use case of one camera: its pipeline passes every  *)
(* frame to ObjectTracker, and publish_result copies the tracks into       *)
(* shared buffers of a fixed size, from which the renderer thread in the   *)
(* main process reads a snapshot.  vehicle_counting and                    *)
(* red_light_violation publish their results in the same way.              *)
(*                                                                         *)
(* write_snapshot holds the lock of the state while it fills the buffers   *)
(* and then sets the counters, read_snapshot while it copies them.  Every  *)
(* box is taken to lie in a zone; zones and geometry do not change and are *)
(* left out.                                                               *)
(***************************************************************************)
EXTENDS ObjectTracker

CONSTANT Capacity  \* capacity: inference.max_detections

ASSUME CapacityAssumption == Capacity \in Nat \ {0}

VARIABLES step,      \* worker: "track", "publish" or "count"
          locked,    \* lock of the shared state
          buffer,    \* box_buffer: the ids of the tracks the boxes are of
          count,     \* count
          source,    \* source_sequence
          published  \* history: [frame, boxes] of the last result published

sharedVars == <<locked, buffer, count, source, published>>
useCaseVars == <<trackerVars, step, sharedVars>>

Result == [frame |-> frames, boxes |-> [i \in DOMAIN tracks |-> tracks[i].id]]

\* create_shared_state: buffers of zeros.
InitUseCase ==
    /\ InitTracker
    /\ step = "track"
    /\ locked = FALSE
    /\ buffer = [i \in 1 .. Capacity |-> 0]
    /\ count = 0 /\ source = 0
    /\ published = Result
-----------------------------------------------------------------------------
PredictFrame ==
    /\ step = "track"
    /\ Predict
    /\ UNCHANGED <<step, sharedVars>>

\* The tracks the frame leaves, missed ones included, are its result.
Analyze ==
    /\ Update
    /\ step' = "publish"
    /\ UNCHANGED sharedVars

\* Mutant of FillBuffers: the lock is not taken.
FillUnlocked ==
    /\ step = "publish" /\ step' = "count"
    /\ buffer' = [i \in 1 .. Capacity |->
                     IF i <= Len(tracks) THEN tracks[i].id ELSE buffer[i]]
    /\ UNCHANGED <<trackerVars, locked, count, source, published>>

\* write_snapshot takes the lock and overwrites the beginning of the buffers.
FillBuffers ==
    /\ step = "publish" /\ step' = "count"
    /\ locked' = TRUE
    /\ buffer' = [i \in 1 .. Capacity |->
                     IF i <= Len(tracks) THEN tracks[i].id ELSE buffer[i]]
    /\ UNCHANGED <<trackerVars, count, source, published>>

\* It sets the counters and releases the lock.
SetCounts ==
    /\ step = "count" /\ step' = "track"
    /\ count' = IF Len(tracks) < Capacity THEN Len(tracks) ELSE Capacity
    /\ source' = frames
    /\ locked' = FALSE
    /\ published' = Result
    /\ UNCHANGED <<trackerVars, buffer>>

NextUseCase == PredictFrame \/ Analyze \/ FillBuffers \/ SetCounts

UseCaseSpec == InitUseCase /\ [][NextUseCase]_useCaseVars
-----------------------------------------------------------------------------
\* What read_snapshot returns when it gets the lock.
Snapshot == [frame |-> source, boxes |-> SubSeq(buffer, 1, count)]

\* Whenever the renderer reads it, a snapshot is the result published last, whole or
\* cut off at the capacity: it never mixes two frames, names another frame than
\* the one its boxes are of, or shows a box left over from a longer result.
SnapshotIsOneFrame ==
    ~locked =>
        /\ Snapshot.frame = published.frame
        /\ Snapshot.boxes = SubSeq(published.boxes, 1, Len(Snapshot.boxes))
        /\ Len(Snapshot.boxes) \in {Len(published.boxes), Capacity}
=============================================================================
