---------------------------- MODULE VehicleGate ----------------------------
(***************************************************************************)
(* The double-line gate of vehicle_counting, followed for one track id of  *)
(* one camera: DoubleLineGate.update for every frame the vehicle is in,    *)
(* then CameraGateState.cleanup.  The tracks of a camera share nothing but *)
(* the two totals, to which each adds its own counts.                      *)
(*                                                                         *)
(* Positions are measured along the road, so a signed distance is a        *)
(* difference; whether the path between two positions meets a line segment *)
(* or passes beside its end (_segments_intersect) is left open.  Frames    *)
(* come from the use-case worker, which may process a frame twice.  The    *)
(* tracker is external: it gives a vehicle that comes back the same id     *)
(* until it has been gone longer than its lost-track buffer.               *)
(***************************************************************************)
EXTENDS Integers

CONSTANTS Positions,      \* where a vehicle may be observed
          Line1, Line2,   \* positions of the two lines
          Zone,           \* positions in the transition polygon
          Hysteresis,     \* crossing_hysteresis_px
          MaxTransition,  \* max_transition_seconds
          Stale,          \* stale_track_seconds
          LostBuffer,     \* seconds the tracker remembers a lost vehicle
          InDirection,    \* "line_1_to_line_2" or "line_2_to_line_1"
          Steps,          \* bound: seconds between two frames
          MaxTime,        \* bound: seconds
          Watch,          \* whether the history variable trail is kept
          None            \* no track state, or not tracked in the frame

ASSUME GateAssumption ==
    /\ Positions \subseteq Int /\ Zone \subseteq Positions
    /\ None \notin Positions
    /\ Line1 \in Int /\ Line2 \in Int /\ Hysteresis \in Nat
    /\ MaxTransition \in Nat /\ Stale \in Nat /\ LostBuffer \in Nat
    /\ Steps \subseteq Nat \ {0}
    /\ InDirection \in {"line_1_to_line_2", "line_2_to_line_1"}

VARIABLES track,    \* the TrackGateState of the id in camera_state.tracks
          total,    \* total[d]: what the id added to in_count and out_count
          now,      \* timestamp of the last frame
          sequence, \* its sequence
          at,       \* where the vehicle is in the last frame
          heard,    \* history: when the tracker last reported it, 0 if never
          trail     \* history: the set of its new observations since the state was
                    \* created; one older than MaxTransition only if it passed a line

vars == <<track, total, now, sequence, at, heard, trail>>

Directions == {"in", "out"}
Attempts == {"line_1_to_line_2", "line_2_to_line_1"}

NewTrack == [phase |-> "idle", armedAt |-> 0, armedSequence |-> -1,
             transitionSeen |-> FALSE, countedDirections |-> {},
             lastSeen |-> 0, side1 |-> 0, side2 |-> 0]

ResetPhase(s) == [s EXCEPT !.phase = "idle", !.armedAt = 0,
                           !.armedSequence = -1, !.transitionSeen = FALSE]

Init ==
    /\ track = None
    /\ total = [d \in Directions |-> 0]
    /\ now = 0 /\ sequence = 0
    /\ at = None
    /\ heard = 0
    /\ trail = {}
-----------------------------------------------------------------------------
\* Mutant of Near: no hysteresis.
NearNever(line, p) == FALSE

\* _stable_crossing: within the hysteresis of the line the last side is kept.
Near(line, p) == p - line \in -Hysteresis .. Hysteresis
Side(line, old, p) == IF Near(line, p) THEN old ELSE IF p > line THEN 1 ELSE -1
Passes(line, old, p) == old # 0 /\ Side(line, old, p) # old

\* One observation of a track: where and when, and which lines it crosses.
Observe(s, p, time, seq, hit1, hit2) ==
    [pos |-> p, time |-> time, seq |-> seq, inside |-> p \in Zone,
     cross1 |-> Passes(Line1, s.side1, p) /\ hit1,
     cross2 |-> Passes(Line2, s.side2, p) /\ hit2,
     missed |-> \/ Passes(Line1, s.side1, p) /\ ~hit1
                \/ Passes(Line2, s.side2, p) /\ ~hit2]

\* The line an attempt in this direction starts at, and the one it ends at.
First(phase, o) == IF phase = "line_1_to_line_2" THEN o.cross1 ELSE o.cross2
Second(phase, o) == IF phase = "line_1_to_line_2" THEN o.cross2 ELSE o.cross1
Arms(phase, o) == First(phase, o) /\ ~Second(phase, o) /\ o.inside
TurnsBack(phase, o) == First(phase, o) /\ ~o.inside
DirectionOf(phase) == IF phase = InDirection THEN "in" ELSE "out"

\* Mutant of TimedOut: the limit itself is too late.
TimedOutAtLimit(s, o) == s.phase # "idle" /\ o.time - s.armedAt >= MaxTransition

TimedOut(s, o) == s.phase # "idle" /\ o.time - s.armedAt > MaxTransition

\* last_seen and the sides, then the timeout of an attempt.
Refresh(s, o) ==
    LET r == [s EXCEPT !.lastSeen = o.time,
                       !.side1 = Side(Line1, @, o.pos),
                       !.side2 = Side(Line2, @, o.pos)]
    IN  IF TimedOut(r, o) THEN ResetPhase(r) ELSE r

\* Mutant of Seen: the frame that armed the attempt counts when it is repeated.
SeenAnyFrame(s, o) == [s EXCEPT !.transitionSeen = @ \/ o.inside]

Seen(s, o) ==
    [s EXCEPT !.transitionSeen = @ \/ (o.seq > s.armedSequence /\ o.inside)]

\* _complete: the attempt ends at its second line and has not counted before.
Completes(s, o) ==
    /\ s.phase # "idle"
    /\ ~TurnsBack(s.phase, o)
    /\ Second(s.phase, o)
    /\ Seen(s, o).transitionSeen
    /\ DirectionOf(s.phase) \notin s.countedDirections

Arm(s, o) ==
    LET armed == {d \in Attempts : Arms(d, o)}
    IN  IF armed = {} THEN s
        ELSE [s EXCEPT !.phase = CHOOSE d \in armed : TRUE,
                       !.armedAt = o.time, !.armedSequence = o.seq]

Advance(s, o) ==
    IF s.phase = "idle" THEN Arm(s, o)
    ELSE IF TurnsBack(s.phase, o) THEN ResetPhase(s)
    ELSE IF ~Second(s.phase, o) THEN Seen(s, o)
    ELSE IF Completes(s, o)
         THEN ResetPhase([s EXCEPT !.countedDirections =
                                       @ \cup {DirectionOf(s.phase)}])
         ELSE ResetPhase(s)
-----------------------------------------------------------------------------
\* setdefault, update.
Update(p, time, seq, hit1, hit2) ==
    LET old == IF track = None THEN NewTrack ELSE track
        o == Observe(old, p, time, seq, hit1, hit2)
        s == Refresh(old, o)
        Kept(x) == \/ time - x.time <= MaxTransition
                   \/ x.cross1 \/ x.cross2 \/ x.missed
    IN  /\ track' = Advance(s, o)
        /\ total' = IF Completes(s, o)
                    THEN [total EXCEPT ![DirectionOf(s.phase)] = @ + 1] ELSE total
        /\ trail' = IF ~Watch THEN {}
                    ELSE IF seq = sequence THEN trail
                    ELSE {x \in trail \cup {o} : Kept(x)}
        /\ heard' = time

\* cleanup after a frame the vehicle is not in; one it is in never removes it.
Cleanup(time) ==
    /\ IF track # None /\ time - track.lastSeen > Stale
       THEN track' = None /\ trail' = {}
       ELSE UNCHANGED <<track, trail>>
    /\ UNCHANGED <<total, heard>>

\* One frame through process_batch.
Process(p, time, seq, hit1, hit2) ==
    /\ now' = time /\ sequence' = seq /\ at' = p
    /\ IF p = None THEN Cleanup(time) ELSE Update(p, time, seq, hit1, hit2)

Alive(time) == heard = 0 \/ time - heard <= LostBuffer

NewFrame ==
    \E dt \in Steps, p \in Positions \cup {None}, hit1, hit2 \in BOOLEAN :
        /\ now + dt <= MaxTime
        /\ p # None => Alive(now + dt)
        /\ Process(p, now + dt, sequence + 1, hit1, hit2)

\* The worker reads the same raw slot twice.
RepeatedFrame ==
    /\ sequence > 0
    /\ Process(at, now, sequence, TRUE, TRUE)

Next == NewFrame \/ RepeatedFrame

Spec == Init /\ [][Next]_vars
-----------------------------------------------------------------------------
\* The schedule of the documentation, over the remembered observations: from the
\* first line, seen again in the zone in a later frame, through the second line,
\* in time, without turning back or meeting the second line in between.
Schedule(tr, phase) ==
    \E a, z \in tr :
        /\ \A x \in tr : x.seq <= z.seq
        /\ Arms(phase, a)
        /\ z.time - a.time <= MaxTransition
        /\ Second(phase, z)
        /\ \E x \in tr : x.seq > a.seq /\ x.inside
        /\ \A x \in tr : x.seq > a.seq => ~TurnsBack(phase, x)
        /\ \A x \in tr : a.seq < x.seq /\ x.seq < z.seq => ~Second(phase, x)

Counts(d) == total'[d] > total[d]

\* A vehicle counts only after its whole schedule was observed: no partial
\* crossing, direct jump, late arrival, turn back or repeated frame counts.
OnlySchedulesCount ==
    [][\A phase \in Attempts :
          Counts(DirectionOf(phase)) => Schedule(trail', phase)]_vars

\* A vehicle that never passes a line beside its end is counted by the frame that
\* completes its schedule, if it has not been counted in that direction before.
EveryScheduleCounts ==
    [][\A phase \in Attempts :
          (/\ sequence' > sequence /\ at' # None
           /\ Schedule(trail', phase)
           /\ \A x \in trail' : ~x.missed)
          => total'[DirectionOf(phase)] > 0]_vars

\* Jitter around a line is no crossing: between two crossings of one line, with
\* no line passed otherwise, a vehicle moves by more than twice the hysteresis.
JitterIsNoCrossing ==
    \A x, y \in trail :
        /\ x.seq < y.seq
        /\ x.pos - y.pos \in -2 * Hysteresis .. 2 * Hysteresis
        /\ \A k \in trail : x.seq < k.seq /\ k.seq < y.seq =>
              ~k.cross1 /\ ~k.cross2 /\ ~k.missed
        => ~(x.cross1 /\ y.cross1) /\ ~(x.cross2 /\ y.cross2)

\* Each direction counts at most once per track id, so the totals never exceed
\* the number of ids the tracker handed out.
OncePerId == \A d \in Directions : total[d] <= 1
=============================================================================
