--------------------------- MODULE ViolationGate ---------------------------
(***************************************************************************)
(* Red-light violations, followed for one track id of one camera: the loop *)
(* body of RedLightViolationPipeline.process_batch with                    *)
(* ViolationCheckingGate.update, the RuleEngine of the camera's policy,    *)
(* _apply_rule_decision and CameraViolationState.cleanup.  The tracks of a *)
(* camera share nothing but violation_count.                               *)
(*                                                                         *)
(* Positions are measured along the road; whether a path meets the stop    *)
(* line segment is left open, and so are the class the detector reports    *)
(* and the smoothed state of the traffic light in every frame.  The        *)
(* tracker is external: it gives a vehicle that comes back the same id     *)
(* until it has been gone longer than its lost-track buffer.               *)
(***************************************************************************)
EXTENDS Integers, TrafficLight

CONSTANTS Positions,    \* where a vehicle may be observed
          StopLine,     \* position of the stop line
          Approach,     \* positions in approach_roi
          Exit,         \* Exit[p]: movement of the exit zone p is in, or None
          Hysteresis,   \* crossing_hysteresis_px
          MaxMovement,  \* max_movement_seconds
          Stale,        \* stale_track_seconds
          LostBuffer,   \* seconds the tracker remembers a lost vehicle
          Classes,      \* vehicle classes
          Lights,       \* smoothed light states, "unknown" among them
          Enforced,     \* policy.enforced_light_states
          Allowed,      \* policy.allowed: movement -> set of classes
          Steps,        \* bound: seconds between two frames
          MaxTime,      \* bound: seconds
          Windows,      \* bound: smoothing windows
          MaxObserved,  \* bound: frames the smoothing has seen
          Watch,        \* whether the history variable trail is kept
          None          \* nothing: no state, not tracked, no movement

Movements == DOMAIN Allowed

ASSUME PolicyAssumption ==
    /\ Positions \subseteq Int /\ Approach \subseteq Positions
    /\ None \notin Positions /\ None \notin Classes /\ None \notin Movements
    /\ None \notin {"unresolved", "allowed", "violation"}
    /\ Exit \in [Positions -> Movements \cup {None}]
    /\ Allowed \in [Movements -> SUBSET Classes]
    /\ Enforced \subseteq Lights
    /\ Steps \subseteq Nat \ {0} /\ MaxTime \in Nat
    /\ MaxMovement \in Nat /\ Watch \in BOOLEAN
    /\ Windows \subseteq Nat \ {0} /\ MaxObserved \in Nat

VARIABLES track,      \* the ViolationTrackState of the id
          violations, \* what the id added to violation_count
          now,        \* timestamp of the last frame
          at,         \* where the vehicle is in the last frame
          heard,      \* history: when the tracker last reported it, 0 if never
          trail       \* history: the observations given to the gate since the
                      \* state was created; those older than MaxMovement only if
                      \* the vehicle passed the line; class and light
                      \* only of those that crossed it

vars == <<track, violations, now, at, heard, trail>>

NewTrack == [phase |-> "approaching", lastSeen |-> 0, side |-> 0,
             anchor |-> None, approachSeen |-> FALSE, crossedAt |-> 0,
             light |-> None, class |-> None, movement |-> None,
             decision |-> None, emitted |-> FALSE]

ResetPhase(s) ==
    [NewTrack EXCEPT !.lastSeen = s.lastSeen, !.side = s.side, !.anchor = s.anchor]

\* What a track in each phase has found out: an approaching one nothing, one that
\* waits for its movement the light and the class it crossed the line with.
Known(s) ==
    /\ (s.side = 0) = (s.anchor = None)
    /\ s.phase = "approaching" =>
          /\ s.crossedAt = 0 /\ ~s.emitted
          /\ {s.light, s.class, s.movement, s.decision} = {None}
    /\ s.phase = "waiting_for_movement" =>
          /\ s.approachSeen /\ ~s.emitted
          /\ s.class \in Classes /\ s.light \in Enforced
          /\ s.movement = None /\ s.decision = None
    /\ s.phase = "resolved" =>
          /\ s.decision \in {"unresolved", "allowed", "violation"}
          /\ s.emitted = (s.decision = "violation")

\* The variables have their types, and a phase holds just what it has found out.
TypeOK ==
    /\ track # None =>
          /\ DOMAIN track = DOMAIN NewTrack
          /\ track.phase \in {"approaching", "waiting_for_movement", "resolved"}
          /\ track.lastSeen \in 0 .. now /\ track.crossedAt \in 0 .. now
          /\ track.side \in {-1, 0, 1}
          /\ track.anchor \in Positions \cup {None}
          /\ track.approachSeen \in BOOLEAN
          /\ track.class \in Classes \cup {None}
          /\ track.light \in Lights \cup {None}
          /\ track.movement \in Movements \cup {None}
          /\ Known(track)
    /\ violations \in Nat
    /\ now \in 0 .. MaxTime
    /\ at \in Positions \cup {None}
    /\ heard \in 0 .. now

Init ==
    /\ track = None
    /\ violations = 0
    /\ now = 0
    /\ at = None
    /\ heard = 0
    /\ trail = {}
-----------------------------------------------------------------------------
(* RuleEngine.                                                             *)

Allows(class, movement) == class \in Allowed[movement]

\* Mutant of EvaluateAtCrossing: the movements are not looked at.
ViolationAtCrossing(class, light) ==
    IF light = "unknown" THEN "unresolved"
    ELSE IF light \notin Enforced THEN "allowed" ELSE "violation"

\* None: at least one movement is legal, so the exit decides.
EvaluateAtCrossing(class, light) ==
    IF light = "unknown" THEN "unresolved"
    ELSE IF light \notin Enforced THEN "allowed"
    ELSE IF \E m \in Movements : Allows(class, m) THEN None
    ELSE "violation"

Evaluate(class, movement, light) ==
    IF light = "unknown" \/ movement \notin Movements THEN "unresolved"
    ELSE IF light \notin Enforced \/ Allows(class, movement) THEN "allowed"
    ELSE "violation"
-----------------------------------------------------------------------------
\* _stable_crossing: within the hysteresis of the line the last side is kept.
Near(p) == p - StopLine \in -Hysteresis .. Hysteresis
Side(old, p) == IF Near(p) THEN old ELSE IF p > StopLine THEN 1 ELSE -1
Passes(old, p) == old # 0 /\ Side(old, p) # old

\* One observation of a track: where, when and what it saw.
Observe(s, p, time, class, light, hit) ==
    [pos |-> p, time |-> time, class |-> class, light |-> light, from |-> s.anchor,
     crossed |-> Passes(s.side, p) /\ hit, missed |-> Passes(s.side, p) /\ ~hit]

\* Mutants of TimedOut: no timeout at all; a timeout in every phase.
TimedOutNever(s, o) == FALSE
TimedOutAlways(s, o) == o.time - s.crossedAt > MaxMovement

TimedOut(s, o) ==
    s.phase = "waiting_for_movement" /\ o.time - s.crossedAt > MaxMovement

\* last_seen and the stop-line side, then the timeout of a pending movement.
Refresh(s, o) ==
    LET r == [s EXCEPT !.lastSeen = o.time,
                       !.side = Side(@, o.pos),
                       !.anchor = IF Near(o.pos) THEN @ ELSE o.pos]
    IN  IF TimedOut(r, o) THEN ResetPhase(r) ELSE r

\* Mutant of Enters: a crossing straight into an exit zone is left out.
EntersJunction(s, o) ==
    /\ s.phase = "approaching" /\ s.approachSeen
    /\ o.crossed /\ o.from \in Approach /\ o.pos \notin Approach
    /\ Exit[o.pos] = None

\* Over the stop line, out of the approach it was seen in.
Enters(s, o) ==
    /\ s.phase = "approaching"
    /\ s.approachSeen
    /\ o.crossed /\ o.from \in Approach /\ o.pos \notin Approach

Returns(o) == o.crossed /\ o.pos \in Approach

Exits(s, o) ==
    /\ s.phase = "waiting_for_movement"
    /\ ~Returns(o)
    /\ Exit[o.pos] # None

\* Mutant of Apply: the phase is left as it was.
ApplyDecisionOnly(s, decision) ==
    IF decision = None THEN s
    ELSE [s EXCEPT !.decision = decision, !.emitted = @ \/ decision = "violation"]

\* _apply_rule_decision: None leaves the track waiting for its movement.
Apply(s, decision) ==
    IF decision = None THEN s
    ELSE [s EXCEPT !.phase = "resolved", !.decision = decision,
                   !.emitted = @ \/ decision = "violation"]

\* ViolationCheckingGate.update and what process_batch makes of its event.
Advance(s, o) ==
    CASE Enters(s, o) ->
            Apply([s EXCEPT !.phase = "waiting_for_movement",
                            !.crossedAt = o.time,
                            !.class = o.class, !.light = o.light],
                  EvaluateAtCrossing(o.class, o.light))
      [] Exits(s, o) ->
            Apply([s EXCEPT !.movement = Exit[o.pos]],
                  Evaluate(s.class, Exit[o.pos], s.light))
      [] s.phase = "approaching" /\ ~Enters(s, o) ->
            [s EXCEPT !.approachSeen = @ \/ o.pos \in Approach]
      [] s.phase = "waiting_for_movement" /\ Returns(o) ->
            [ResetPhase(s) EXCEPT !.approachSeen = TRUE]
      [] OTHER -> s
-----------------------------------------------------------------------------
\* Tracks that were never seen in the approach are not followed.
Business(p) ==
    p # None /\ (p \in Approach \/ (track # None /\ track.approachSeen))

Update(p, time, class, light, hit) ==
    LET old == IF track = None THEN NewTrack ELSE track
        o == Observe(old, p, time, class, light, hit)
        s == Refresh(old, o)
        next == Advance(s, o)
        Kept(x) == time - x.time <= MaxMovement \/ x.crossed \/ x.missed
        note == IF o.crossed THEN o ELSE [o EXCEPT !.class = None, !.light = None]
    IN  /\ track' = next
        /\ violations' = IF next.emitted /\ ~s.emitted
                         THEN violations + 1 ELSE violations
        /\ trail' = IF ~Watch THEN {}
                    ELSE IF time = now THEN trail
                    ELSE {x \in trail \cup {note} : Kept(x)}

\* cleanup of a track the frame did not update: one that waits for its movement
\* is kept for another window, as unresolved.
Cleanup(time) ==
    /\ IF track = None \/ time - track.lastSeen <= Stale
       THEN UNCHANGED <<track, trail>>
       ELSE IF track.phase = "waiting_for_movement"
       THEN /\ track' = [track EXCEPT !.phase = "resolved",
                                      !.decision = "unresolved",
                                      !.lastSeen = time]
            /\ UNCHANGED trail
       ELSE track' = None /\ trail' = {}
    /\ UNCHANGED violations

\* One frame through process_batch.
Process(p, time, class, light, hit) ==
    /\ now' = time /\ at' = p
    /\ heard' = IF p = None THEN heard ELSE time
    /\ IF Business(p) THEN Update(p, time, class, light, hit) ELSE Cleanup(time)

Alive(time) == heard = 0 \/ time - heard <= LostBuffer

NewFrame ==
    \E dt \in Steps, p \in Positions \cup {None}, class \in Classes,
       light \in Lights, hit \in BOOLEAN :
        /\ now + dt <= MaxTime
        /\ p # None => Alive(now + dt)
        /\ Process(p, now + dt, class, light, hit)

\* The worker reads the same raw slot twice; the light is smoothed again.
RepeatedFrame ==
    /\ now > 0
    /\ \E class \in Classes, light \in Lights : Process(at, now, class, light, TRUE)

Next == NewFrame \/ RepeatedFrame

Spec == Init /\ [][Next]_vars
-----------------------------------------------------------------------------
\* The vehicle ran the line in observation x of the trail: it left the approach over
\* the stop line, and has not come back over it since.
RanLine(tr, x) ==
    /\ x.crossed /\ x.from \in Approach /\ x.pos \notin Approach
    /\ \A y \in tr : y.time > x.time => ~Returns(y)

Illegal(class, movement) == ~Allows(class, movement)

\* A violation is only ever counted against a vehicle that left the approach over
\* the stop line in a frame in which an enforced light was on, and whose class in
\* that frame may take no movement at all, or not the one it has just taken.
ViolationIsJustified ==
    [][violations' > violations =>
          \E x \in trail' :
              /\ RanLine(trail', x)
              /\ x.light \in Enforced
              /\ now' - x.time <= MaxMovement
              /\ \/ \A m \in Movements : Illegal(x.class, m)
                 \/ Exit[at'] # None /\ Illegal(x.class, Exit[at'])]_vars

\* Every crossing among the observations was followed, or was itself, a return.
CameBack(tr) ==
    \A x \in tr : x.crossed => \E y \in tr : y.time >= x.time /\ Returns(y)

NeverMissed(tr) == \A x \in tr : ~x.missed

\* A vehicle without a verdict that leaves the approach over the stop line, not
\* having passed the line elsewhere, is judged by the light of that very frame.
RunIsJudged ==
    [][\A o \in trail' :
          (/\ o.time = now' /\ now' > now
           /\ RanLine(trail', o)
           /\ track # None /\ track.decision = None
           /\ NeverMissed(trail')
           /\ CameBack(trail' \ {o}))
          => track'.decision = EvaluateAtCrossing(o.class, o.light)]_vars

\* A verdict is never revised while the gate remembers the vehicle.
VerdictIsFinal ==
    [][track # None /\ track.decision # None /\ track' # None
          => /\ track'.decision = track.decision
             /\ track'.phase = "resolved"]_vars

\* A verdict given at the stop line is the one every configured exit would have
\* led to: waiting for the movement could not have changed it.
EarlyVerdictIsSafe ==
    (/\ track # None /\ track.decision # None /\ track.movement = None
     /\ at # None /\ track.crossedAt = now)
        => \A m \in Movements :
              Evaluate(track.class, m, track.light) = track.decision

\* The lights the smoothing follows.
Follows ==
    [light \in Lights |->
        \A window \in Windows, n \in 1 .. MaxObserved : \A observed \in [1 .. n -> Lights] :
            FollowsTheLight(observed, window, light)]

\* The light a vehicle is judged by is one the smoothing follows: it is on as soon as
\* half of the window shows it and not before, whatever the frames before showed, so
\* a flicker during the crossing is no verdict.
JudgedBySteadyLight == track # None /\ track.light # None => Follows[track.light]
=============================================================================
