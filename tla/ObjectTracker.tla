--------------------------- MODULE ObjectTracker ---------------------------
(***************************************************************************)
(* PerCameraKalmanTracker, the tracker of the object_detection use case,   *)
(* for one camera: every processed frame predicts the tracks, matches them *)
(* with the detections of the frame, ages the tracks that found none, and  *)
(* starts a track for every detection left.                                *)
(*                                                                         *)
(* Boxes, velocities and confidences are abstracted away: how far a        *)
(* predicted box overlaps a detection is left open in every frame, ties    *)
(* included.  A box is the detection of the frame it was measured from.    *)
(***************************************************************************)
EXTENDS Naturals, Sequences, FiniteSets, SequencesExt

CONSTANTS Classes,        \* class ids
          Threshold,      \* iou_threshold
          Top,            \* the largest overlap
          MaxMissed,      \* max_missed
          MaxDetections,  \* bound: detections in a frame
          MaxTracks,      \* bound: tracks held
          MaxAnalyzed     \* bound: frames

ASSUME TrackerAssumption ==
    {Threshold, Top, MaxMissed, MaxDetections, MaxTracks, MaxAnalyzed}
        \subseteq Nat

VARIABLES tracks,  \* tracks, in the order of the list
          nextId,  \* next_track_id
          frames,  \* frames processed
          phase,   \* "idle", or "match" between the prediction and the matching
          classes, \* the classes of the detections in the frame
          overlap  \* overlap[i][d]: of track i, predicted, with detection d

trackerVars == <<tracks, nextId, frames, phase, classes, overlap>>

\* KalmanBoxTrack; box is the detection it was measured from, 0 if it was missed.
NewTrack(id, class, box) == [id |-> id, class |-> class, box |-> box, missed |-> 0]

InitTracker ==
    /\ tracks = <<>>
    /\ nextId = 1
    /\ frames = 0
    /\ phase = "idle"
    /\ classes = <<>>
    /\ overlap = <<>>
-----------------------------------------------------------------------------
\* The pairs <<track, detection>> the loop over both lists looks at.
Pairs == (DOMAIN tracks) \X (DOMAIN classes)

\* Mutant of Candidates: the classes are not compared.
AnyClass == {p \in Pairs : overlap[p] >= Threshold}

Candidates ==
    {p \in Pairs : tracks[p[1]].class = classes[p[2]] /\ overlap[p] >= Threshold}

\* Mutant of Before: the smallest overlap comes first.
BeforeLarger(p, q) == overlap[p] < overlap[q]

\* sorted(candidates, reverse=True): by overlap, then the later track, then the
\* later detection.
Before(p, q) ==
    \/ overlap[p] > overlap[q]
    \/ overlap[p] = overlap[q] /\ p[1] > q[1]
    \/ overlap[p] = overlap[q] /\ p[1] = q[1] /\ p[2] > q[2]

\* The candidates in that order, each taken unless its track or its detection is
\* matched already.
Matches ==
    CHOOSE taken \in SUBSET Candidates :
        \A p \in Candidates :
            p \in taken <=>
                \A q \in taken : Before(q, p) => p[1] # q[1] /\ p[2] # q[2]

\* A matched track is measured anew and counts no miss.
Measured(t, d) == [t EXCEPT !.class = classes[d], !.box = d, !.missed = 0]

\* The others miss one more.
Missed(t) == [t EXCEPT !.box = 0, !.missed = @ + 1]

\* The track of a detection left over, with before of them started earlier.
Started(d, before) == NewTrack(nextId + before, classes[d], d)

\* The elements of a set of indexes, in order.
InOrder(I) ==
    CHOOSE q \in [1 .. Cardinality(I) -> I] : \A i, j \in DOMAIN q : i < j => q[i] < q[j]

\* The detections of the next frame, and what predict and _iou make of them.
Predict ==
    /\ phase = "idle" /\ phase' = "match"
    /\ frames < MaxAnalyzed
    /\ frames' = frames + 1
    /\ \E n \in 0 .. MaxDetections : classes' \in [1 .. n -> Classes]
    /\ overlap' \in [(DOMAIN tracks) \X (DOMAIN classes') -> 0 .. Top]
    /\ UNCHANGED <<tracks, nextId>>

\* PerCameraKalmanTracker.update after the prediction.
Update ==
    /\ phase = "match" /\ phase' = "idle"
    /\ LET pairs == Matches
           Of(i) == {p \in pairs : p[1] = i}
           aged == [i \in DOMAIN tracks |->
                       IF Of(i) = {} THEN Missed(tracks[i])
                       ELSE Measured(tracks[i], (CHOOSE p \in Of(i) : TRUE)[2])]
           kept == InOrder({i \in DOMAIN tracks : aged[i].missed <= MaxMissed})
           left == InOrder({d \in DOMAIN classes : \A p \in pairs : p[2] # d})
       IN  /\ tracks' = [k \in DOMAIN kept |-> aged[kept[k]]]
                        \o [k \in DOMAIN left |-> Started(left[k], k - 1)]
           /\ nextId' = nextId + Len(left)
    /\ Len(tracks') <= MaxTracks
    /\ classes' = <<>> /\ overlap' = <<>>
    /\ UNCHANGED frames

NextTracker == Predict \/ Update

TrackerSpec == InitTracker /\ [][NextTracker]_trackerVars
-----------------------------------------------------------------------------
\* The detection the track with this id holds after a step, 0 if none.
Holds(i) == IF \E t \in ToSet(tracks') : t.id = tracks[i].id /\ t.box # 0
            THEN (CHOOSE t \in ToSet(tracks') : t.id = tracks[i].id).box ELSE 0

\* The greedy choice is a stable matching: a track and a detection of its class
\* that overlap enough are only kept apart by a partner that one of them overlaps
\* at least as much, so no track is robbed of its object by a poorer fit.
MatchingIsStable ==
    [][ phase = "match" => \A p \in Pairs :
            tracks[p[1]].class = classes[p[2]] /\ overlap[p] >= Threshold =>
                \/ Holds(p[1]) # 0 /\ overlap[<<p[1], Holds(p[1])>>] >= overlap[p]
                \/ \E i \in DOMAIN tracks : /\ Holds(i) = p[2]
                                            /\ overlap[<<i, p[2]>>] >= overlap[p]
      ]_trackerVars

\* Every detection ends up on exactly one track, of its class.  A track never takes
\* on another class, and a new track has an id of its own never given out before.
OneTrackPerDetection ==
    [][ phase = "match" =>
            /\ \A d \in DOMAIN classes :
                  \E i \in DOMAIN tracks' :
                     /\ tracks'[i].class = classes[d]
                     /\ \A j \in DOMAIN tracks' : tracks'[j].box = d <=> j = i
            /\ \A t \in ToSet(tracks') :
                  \/ t.id >= nextId
                  \/ \E s \in ToSet(tracks) : s.id = t.id /\ s.class = t.class
            /\ \A i, j \in DOMAIN tracks' : tracks'[i].id = tracks'[j].id => i = j
      ]_trackerVars
=============================================================================
