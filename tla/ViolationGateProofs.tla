------------------------ MODULE ViolationGateProofs ------------------------
(***************************************************************************)
(* Proofs about ViolationGate, for any road, policy, hysteresis, timeouts  *)
(* and frames.                                                             *)
(*                                                                         *)
(* What each phase of a track has found out (Known, a part of TypeOK) is   *)
(* inductive.  Two facts rest on it alone: a track that waits was seen in  *)
(* the approach, so no frame that shows it leads to the cleanup, and a     *)
(* verdict without a movement is younger than the frame only if it was     *)
(* given at the line.                                                      *)
(*                                                                         *)
(* That verdicts are just needs the memory of what was observed            *)
(* (Evidence): a track that waits ran the line in an observation that is   *)
(* remembered, with the light and the class the track has kept, and has    *)
(* not come back since; a track whose every crossing was followed by a     *)
(* return is on the approach; and a frame that is repeated passes no line, *)
(* for the sides were settled when it was first seen.                      *)
(*                                                                         *)
(* The light of a verdict is the majority of the last frames: what that is *)
(* is proved for any window and any frames seen before (TrafficLight).     *)
(***************************************************************************)
EXTENDS ViolationGate, DataLemmas

Verdicts == {"unresolved", "allowed", "violation"}

\* A track at time t.
TrackOK(s, t) ==
    /\ DOMAIN s = DOMAIN NewTrack
    /\ s.phase \in {"approaching", "waiting_for_movement", "resolved"}
    /\ s.lastSeen \in 0 .. t /\ s.crossedAt \in 0 .. t
    /\ s.side \in {-1, 0, 1}
    /\ s.anchor \in Positions \cup {None}
    /\ s.approachSeen \in BOOLEAN
    /\ s.class \in Classes \cup {None}
    /\ s.light \in Lights \cup {None}
    /\ s.movement \in Movements \cup {None}
    /\ Known(s)

\* An observation at time t.
ObservationOK(o, t) ==
    /\ t \in Nat /\ o.time = t /\ o.pos \in Positions
    /\ o.class \in Classes /\ o.light \in Lights

\* Waiting for the movement could not have changed the verdict.
Safe(s) == \A m \in Movements : Evaluate(s.class, m, s.light) = s.decision

\* What a step leaves of a verdict.
SameVerdict(s, r) ==
    /\ r.phase = "resolved" /\ s.phase = "resolved"
    /\ r.decision = s.decision /\ r.movement = s.movement
    /\ r.class = s.class /\ r.light = s.light /\ r.crossedAt = s.crossedAt
-----------------------------------------------------------------------------
(* Tracks.                                                                 *)

\* A new track is well formed.
LEMMA NewTrackOK ==
    ASSUME NEW t \in Nat
    PROVE  TrackOK(NewTrack, t)
BY DEF NewTrack, TrackOK, Known

\* A track that starts over is.
LEMMA ResetPhaseOK ==
    ASSUME NEW t \in Nat, NEW s, TrackOK(s, t)
    PROVE  TrackOK(ResetPhase(s), t) /\ ResetPhase(s).phase = "approaching"
<1> DEFINE r == ResetPhase(s)
<1>1. DOMAIN r = DOMAIN NewTrack BY DEF NewTrack, ResetPhase
<1>2. /\ r.phase = "approaching" /\ r.lastSeen = s.lastSeen /\ r.side = s.side
      /\ r.anchor = s.anchor /\ r.approachSeen = FALSE /\ r.crossedAt = 0
      /\ r.light = None /\ r.class = None /\ r.movement = None
      /\ r.decision = None /\ r.emitted = FALSE
  BY DEF NewTrack, ResetPhase
<1> HIDE DEF r
<1>3. Known(r) BY <1>2 DEF TrackOK, Known
<1>4. r.approachSeen \in BOOLEAN BY <1>2
<1>5. 0 \in 0 .. t OBVIOUS
<1>6. TrackOK(r, t) BY <1>1, <1>2, <1>3, <1>4, <1>5 DEF TrackOK
<1> QED BY <1>2, <1>6 DEF r

\* An observation refreshes a track, or makes it start over when its movement is
\* overdue; what is resolved keeps its verdict.
LEMMA RefreshOK ==
    ASSUME NEW s, NEW o, NEW t, ObservationOK(o, t), TrackOK(s, t)
    PROVE  /\ TrackOK(Refresh(s, o), t)
           /\ s.phase = "resolved" => SameVerdict(s, Refresh(s, o))
           /\ Refresh(s, o).phase \in {s.phase, "approaching"}
<1> DEFINE side == Side(s.side, o.pos)
           anchor == IF Near(o.pos) THEN s.anchor ELSE o.pos
           r == [s EXCEPT !.lastSeen = o.time, !.side = Side(@, o.pos),
                          !.anchor = IF Near(o.pos) THEN @ ELSE o.pos]
<1>1. side \in {-1, 0, 1} BY DEF Side, TrackOK
<1>2. anchor \in Positions \cup {None} BY DEF TrackOK, ObservationOK
<1>3. (side = 0) = (anchor = None)
  BY PolicyAssumption DEF Side, TrackOK, Known, ObservationOK
<1>4. DOMAIN r = DOMAIN NewTrack BY DEF TrackOK
<1>5. /\ r.phase = s.phase /\ r.decision = s.decision /\ r.movement = s.movement
      /\ r.class = s.class /\ r.light = s.light /\ r.crossedAt = s.crossedAt
      /\ r.approachSeen = s.approachSeen /\ r.emitted = s.emitted
      /\ r.side = side /\ r.anchor = anchor /\ r.lastSeen = t
  BY DEF TrackOK, NewTrack, ObservationOK
<1> HIDE DEF side, anchor
<1>6. Refresh(s, o) = IF TimedOut(r, o) THEN ResetPhase(r) ELSE r BY DEF Refresh
<1> HIDE DEF r
<1>7. Known(r) BY <1>3, <1>5 DEF Known, TrackOK
<1>8. TrackOK(r, t)
  BY <1>1, <1>2, <1>4, <1>5, <1>7 DEF TrackOK, ObservationOK
<1>9. CASE TimedOut(r, o)
  <2>1. s.phase = "waiting_for_movement" BY <1>5, <1>9 DEF TimedOut
  <2> QED BY <1>6, <1>8, <1>9, <2>1, ResetPhaseOK DEF ObservationOK
<1>10. CASE ~TimedOut(r, o)
  <2>1. Refresh(s, o) = r BY <1>6, <1>10
  <2> QED BY <1>5, <1>8, <2>1 DEF SameVerdict
<1> QED BY <1>9, <1>10

\* What the gate and the rules make of a refreshed track: a resolved one stays as it
\* is, and a verdict without a movement is safe.
LEMMA AdvanceOK ==
    ASSUME NEW s, NEW o, NEW t, ObservationOK(o, t), TrackOK(s, t)
    PROVE  /\ TrackOK(Advance(s, o), t)
           /\ s.phase = "resolved" => Advance(s, o) = s
           /\ s.phase # "resolved" /\ Advance(s, o).decision # None
                 /\ Advance(s, o).movement = None => Safe(Advance(s, o))
<1>1. CASE Enters(s, o)
  <2> DEFINE q == [s EXCEPT !.phase = "waiting_for_movement", !.crossedAt = o.time,
                            !.class = o.class, !.light = o.light]
             d == EvaluateAtCrossing(o.class, o.light)
             r == Advance(s, o)
  <2>1. s.phase = "approaching" /\ s.approachSeen BY <1>1 DEF Enters
  <2>2. r = Apply(q, d) BY <1>1, <2>1 DEF Advance, Exits
  <2>3. DOMAIN q = DOMAIN NewTrack BY DEF TrackOK
  <2>4. /\ q.phase = "waiting_for_movement" /\ q.crossedAt = t
        /\ q.class = o.class /\ q.light = o.light /\ q.lastSeen = s.lastSeen
        /\ q.side = s.side /\ q.anchor = s.anchor /\ q.approachSeen = TRUE
        /\ q.movement = None /\ q.decision = None /\ q.emitted = FALSE
    BY <2>1 DEF TrackOK, Known, NewTrack, ObservationOK
  <2>5. d \in Verdicts \cup {None} BY DEF EvaluateAtCrossing, Verdicts
  <2>6. d = None => o.light \in Enforced
    BY PolicyAssumption DEF EvaluateAtCrossing
  <2>7. d # None =>
           \A m \in Movements : Evaluate(o.class, m, o.light) = d
    BY DEF EvaluateAtCrossing, Evaluate
  <2> HIDE DEF q, d, r
  <2>8. CASE d = None
    <3>1. r = q BY <2>2, <2>8 DEF Apply
    <3>2. Known(q)
      BY <2>4, <2>6, <2>8 DEF Known, TrackOK, ObservationOK
    <3>3. q.approachSeen \in BOOLEAN BY <2>4
    <3>4. t \in 0 .. t /\ q.class \in Classes /\ q.light \in Lights
      BY <2>4 DEF ObservationOK
    <3>5. TrackOK(q, t) BY <2>3, <2>4, <3>2, <3>3, <3>4 DEF TrackOK
    <3> QED BY <2>1, <2>4, <3>1, <3>5 DEF r
  <2>9. CASE d # None
    <3> DEFINE z == [q EXCEPT !.phase = "resolved", !.decision = d,
                              !.emitted = @ \/ d = "violation"]
    <3>1. r = z BY <2>2, <2>9 DEF Apply
    <3>2. DOMAIN z = DOMAIN NewTrack BY <2>3
    <3>3. /\ z.phase = "resolved" /\ z.crossedAt = t /\ z.class = o.class
          /\ z.light = o.light /\ z.lastSeen = s.lastSeen /\ z.side = s.side
          /\ z.anchor = s.anchor /\ z.approachSeen = q.approachSeen
          /\ z.movement = None /\ z.decision = d
          /\ z.emitted = (d = "violation")
      BY <2>3, <2>4 DEF NewTrack
    <3> HIDE DEF z
    <3>4. Known(z) BY <2>5, <2>9, <3>3 DEF Known, TrackOK, Verdicts
    <3>5. z.approachSeen \in BOOLEAN BY <2>4, <3>3
    <3>6. t \in 0 .. t /\ z.class \in Classes /\ z.light \in Lights
      BY <3>3 DEF ObservationOK
    <3>7. TrackOK(z, t) BY <3>2, <3>3, <3>4, <3>5, <3>6 DEF TrackOK
    <3>8. Safe(z) BY <2>7, <2>9, <3>3 DEF Safe
    <3> QED BY <2>1, <3>1, <3>7, <3>8 DEF r
  <2> QED BY <2>8, <2>9
<1>2. CASE Exits(s, o)
  <2> DEFINE q == [s EXCEPT !.movement = Exit[o.pos]]
             d == Evaluate(s.class, Exit[o.pos], s.light)
             z == [q EXCEPT !.phase = "resolved", !.decision = d,
                            !.emitted = @ \/ d = "violation"]
             r == Advance(s, o)
  <2>1. s.phase = "waiting_for_movement" BY <1>2 DEF Exits
  <2>2. Exit[o.pos] \in Movements
    BY <1>2, PolicyAssumption DEF Exits, ObservationOK
  <2>3. d \in Verdicts /\ d # None
    BY PolicyAssumption DEF Evaluate, Verdicts
  <2>4. r = Apply(q, d) BY <1>2, <2>1 DEF Advance, Enters, Exits
  <2>5. r = z BY <2>3, <2>4 DEF Apply
  <2>6. DOMAIN q = DOMAIN NewTrack BY DEF TrackOK
  <2>7. /\ q.crossedAt = s.crossedAt /\ q.class = s.class /\ q.light = s.light
        /\ q.lastSeen = s.lastSeen /\ q.side = s.side /\ q.anchor = s.anchor
        /\ q.approachSeen = s.approachSeen /\ q.movement = Exit[o.pos]
        /\ q.emitted = s.emitted
    BY DEF TrackOK, NewTrack
  <2> HIDE DEF q, d
  <2>8. DOMAIN z = DOMAIN NewTrack BY <2>6
  <2>9. /\ z.phase = "resolved" /\ z.crossedAt = s.crossedAt /\ z.class = s.class
        /\ z.light = s.light /\ z.lastSeen = s.lastSeen /\ z.side = s.side
        /\ z.anchor = s.anchor /\ z.approachSeen = s.approachSeen
        /\ z.movement = Exit[o.pos] /\ z.decision = d
        /\ z.emitted = (d = "violation")
    BY <2>1, <2>6, <2>7 DEF NewTrack, TrackOK, Known
  <2> HIDE DEF z, r
  <2>10. Known(z) BY <2>3, <2>9 DEF Known, TrackOK, Verdicts
  <2>11. TrackOK(z, t) BY <2>2, <2>8, <2>9, <2>10 DEF TrackOK
  <2>12. z.movement # None BY <2>2, <2>9, PolicyAssumption
  <2> QED BY <2>1, <2>5, <2>11, <2>12 DEF r
<1>3. CASE s.phase = "approaching" /\ ~Enters(s, o)
  <2> DEFINE q == [s EXCEPT !.approachSeen = @ \/ o.pos \in Approach]
  <2>1. Advance(s, o) = q BY <1>3 DEF Advance, Exits
  <2>2. DOMAIN q = DOMAIN NewTrack BY DEF TrackOK
  <2>3. /\ q.phase = s.phase /\ q.decision = s.decision /\ q.movement = s.movement
        /\ q.class = s.class /\ q.light = s.light /\ q.crossedAt = s.crossedAt
        /\ q.emitted = s.emitted /\ q.side = s.side /\ q.anchor = s.anchor
        /\ q.lastSeen = s.lastSeen /\ q.approachSeen \in BOOLEAN
    BY DEF TrackOK, NewTrack
  <2> HIDE DEF q
  <2>4. Known(q) BY <1>3, <2>3 DEF Known, TrackOK
  <2>5. TrackOK(q, t) BY <2>2, <2>3, <2>4 DEF TrackOK
  <2>6. q.decision = None BY <1>3, <2>3 DEF TrackOK, Known
  <2> QED BY <1>3, <2>1, <2>5, <2>6
<1>4. CASE s.phase = "waiting_for_movement" /\ Returns(o)
  <2> DEFINE p == ResetPhase(s)
             q == [p EXCEPT !.approachSeen = TRUE]
  <2>1. Advance(s, o) = q BY <1>4 DEF Advance, Enters, Exits
  <2>2. TrackOK(p, t) /\ p.phase = "approaching"
    BY ResetPhaseOK DEF ObservationOK
  <2> HIDE DEF p
  <2>3. DOMAIN q = DOMAIN NewTrack BY <2>2 DEF TrackOK
  <2>4. /\ q.phase = p.phase /\ q.decision = p.decision /\ q.movement = p.movement
        /\ q.class = p.class /\ q.light = p.light /\ q.crossedAt = p.crossedAt
        /\ q.emitted = p.emitted /\ q.side = p.side /\ q.anchor = p.anchor
        /\ q.lastSeen = p.lastSeen /\ q.approachSeen = TRUE
    BY <2>2 DEF TrackOK, NewTrack
  <2> HIDE DEF q
  <2>5. Known(q) BY <2>2, <2>4 DEF Known, TrackOK
  <2>6. TrackOK(q, t) BY <2>2, <2>3, <2>4, <2>5 DEF TrackOK
  <2>7. q.decision = None BY <2>2, <2>4 DEF TrackOK, Known
  <2> QED BY <1>4, <2>1, <2>6, <2>7
<1>5. CASE /\ ~(s.phase = "approaching")
           /\ ~Exits(s, o)
           /\ ~(s.phase = "waiting_for_movement" /\ Returns(o))
  <2>1. Advance(s, o) = s BY <1>5 DEF Advance, Enters
  <2>2. s.phase # "resolved" => s.decision = None BY <1>5 DEF TrackOK, Known
  <2> QED BY <2>1, <2>2
<1> QED BY <1>1, <1>2, <1>3, <1>4, <1>5
-----------------------------------------------------------------------------
(* Steps.                                                                  *)

\* A step brings a track to a later time, unchanged, refreshed or forgotten.
LEMMA LaterOK ==
    ASSUME NEW t \in Nat, NEW u \in Nat, t <= u, NEW s, TrackOK(s, t)
    PROVE  TrackOK(s, u)
BY DEF TrackOK

\* Time and inputs of a step: a new frame is later than the last, a repeated one
\* shows the same.
LEMMA StepIsProcess ==
    ASSUME TypeOK, Next
    PROVE  \E p \in Positions \cup {None}, t \in Nat, class \in Classes,
              light \in Lights, hit \in BOOLEAN :
               /\ now <= t /\ t <= MaxTime
               /\ t = now => p = at
               /\ Process(p, t, class, light, hit)
<1>1. CASE NewFrame
  <2>1. PICK dt \in Steps, p \in Positions \cup {None}, class \in Classes,
             light \in Lights, hit \in BOOLEAN :
                /\ now + dt <= MaxTime
                /\ Process(p, now + dt, class, light, hit)
    BY <1>1 DEF NewFrame
  <2>2. now + dt \in Nat /\ now <= now + dt /\ now + dt # now
    BY PolicyAssumption DEF TypeOK
  <2> DEFINE t == now + dt
  <2>3. /\ t \in Nat /\ now <= t /\ t <= MaxTime
        /\ t = now => p = at
        /\ Process(p, t, class, light, hit)
    BY <2>1, <2>2
  <2> HIDE DEF t
  <2> QED BY <2>3
<1>2. CASE RepeatedFrame
  <2>1. PICK class \in Classes, light \in Lights :
                Process(at, now, class, light, TRUE)
    BY <1>2 DEF RepeatedFrame
  <2>2. now \in Nat /\ now <= now /\ now <= MaxTime /\ at \in Positions \cup {None}
    BY PolicyAssumption DEF TypeOK
  <2>3. TRUE \in BOOLEAN OBVIOUS
  <2> QED BY <2>1, <2>2, <2>3, Zenon
<1> QED BY <1>1, <1>2 DEF Next

\* What process_batch makes of one frame: the track it updates keeps its verdict, and
\* a new verdict without a movement is safe.
LEMMA UpdateOK ==
    ASSUME TypeOK, NEW p \in Positions, NEW t \in Nat, NEW class \in Classes,
           NEW light \in Lights, NEW hit \in BOOLEAN, now <= t,
           Update(p, t, class, light, hit)
    PROVE  /\ TrackOK(track', t)
           /\ violations' \in Nat
           /\ \/ track # None /\ SameVerdict(track, track')
              \/ /\ track # None => track.decision = None
                 /\ track'.decision # None /\ track'.movement = None
                       => Safe(track')
<1> DEFINE old == IF track = None THEN NewTrack ELSE track
           o == Observe(old, p, t, class, light, hit)
           s == Refresh(old, o)
<1>1. track' = Advance(s, o) BY DEF Update
<1>2. TrackOK(old, t)
  <2>1. now \in Nat BY PolicyAssumption DEF TypeOK
  <2>2. CASE track = None BY <2>2, NewTrackOK
  <2>3. CASE track # None
    <3>1. TrackOK(track, now) BY <2>3 DEF TypeOK, TrackOK
    <3> QED BY <2>1, <2>3, <3>1, LaterOK
  <2> QED BY <2>2, <2>3
<1>3. ObservationOK(o, t) BY DEF ObservationOK, Observe
<1>4. violations' \in Nat BY DEF Update, TypeOK
<1>5. old.phase = "resolved" => track # None /\ old = track
  BY DEF NewTrack
<1>6. old.phase # "resolved" => old.decision = None
  BY <1>2 DEF TrackOK, Known
<1>7. track # None => old = track OBVIOUS
<1> HIDE DEF old, o
<1>8. /\ TrackOK(s, t) /\ s.phase \in {old.phase, "approaching"}
      /\ old.phase = "resolved" => SameVerdict(old, s)
  BY <1>2, <1>3, RefreshOK
<1> HIDE DEF s
<1>9. /\ TrackOK(track', t)
      /\ s.phase = "resolved" => track' = s
      /\ s.phase # "resolved" /\ track'.decision # None /\ track'.movement = None
            => Safe(track')
  BY <1>1, <1>3, <1>8, AdvanceOK
<1>10. CASE old.phase = "resolved"
  <2>1. s.phase = "resolved" BY <1>8, <1>10 DEF SameVerdict
  <2> QED BY <1>4, <1>5, <1>8, <1>9, <1>10, <2>1
<1>11. CASE old.phase # "resolved"
  <2>1. s.phase # "resolved" BY <1>8, <1>11
  <2> QED BY <1>4, <1>6, <1>7, <1>9, <1>11, <2>1
<1> QED BY <1>10, <1>11

\* A frame without the vehicle, or one it has no business in: a track that waits is
\* given up, any other is left as it is or forgotten.
LEMMA CleanupOK ==
    ASSUME TypeOK, NEW t \in Nat, now <= t, Cleanup(t)
    PROVE  /\ track' # None => TrackOK(track', t)
           /\ violations' \in Nat
           /\ \/ track' = track
              \/ track' = None
              \/ /\ track # None /\ track.phase = "waiting_for_movement"
                 /\ track'.crossedAt = track.crossedAt
<1>1. now \in Nat BY PolicyAssumption DEF TypeOK
<1>2. track # None => TrackOK(track, t)
  <2> SUFFICES ASSUME track # None PROVE TrackOK(track, t)
    OBVIOUS
  <2>1. TrackOK(track, now) BY DEF TypeOK, TrackOK
  <2> QED BY <1>1, <2>1, LaterOK
<1>3. violations' \in Nat BY DEF Cleanup, TypeOK
<1>4. CASE track = None \/ t - track.lastSeen <= Stale
  BY <1>2, <1>3, <1>4 DEF Cleanup
<1>5. CASE ~(track = None \/ t - track.lastSeen <= Stale)
  <2>1. CASE track.phase = "waiting_for_movement"
    <3> DEFINE q == [track EXCEPT !.phase = "resolved", !.decision = "unresolved",
                                  !.lastSeen = t]
    <3>1. track' = q BY <1>5, <2>1 DEF Cleanup
    <3>2. DOMAIN q = DOMAIN NewTrack BY <1>2, <1>5 DEF TrackOK
    <3>3. /\ q.phase = "resolved" /\ q.decision = "unresolved"
          /\ q.movement = track.movement /\ q.class = track.class
          /\ q.light = track.light /\ q.crossedAt = track.crossedAt
          /\ q.emitted = track.emitted /\ q.side = track.side
          /\ q.anchor = track.anchor /\ q.lastSeen = t
          /\ q.approachSeen = track.approachSeen
      BY <1>2, <1>5 DEF TrackOK, NewTrack
    <3> HIDE DEF q
    <3>4. track.emitted = FALSE BY <1>2, <1>5, <2>1 DEF TrackOK, Known
    <3>5. Known(q) BY <1>2, <1>5, <3>3, <3>4 DEF Known, TrackOK
    <3>6. TrackOK(q, t) BY <1>2, <1>5, <3>2, <3>3, <3>5 DEF TrackOK
    <3> QED BY <1>3, <1>5, <2>1, <3>1, <3>3, <3>6
  <2>2. CASE track.phase # "waiting_for_movement"
    BY <1>3, <1>5, <2>2 DEF Cleanup
  <2> QED BY <2>1, <2>2
<1> QED BY <1>4, <1>5
-----------------------------------------------------------------------------
(* Theorems.                                                               *)

\* Every step keeps the types.
LEMMA TypeKept ==
    ASSUME TypeOK, [Next]_vars
    PROVE  TypeOK'
<1>1. CASE UNCHANGED vars BY <1>1 DEF vars, TypeOK, Known
<1>2. CASE Next
  <2>1. PICK p \in Positions \cup {None}, t \in Nat, class \in Classes,
             light \in Lights, hit \in BOOLEAN :
                /\ now <= t /\ t <= MaxTime
                /\ Process(p, t, class, light, hit)
    BY <1>2, StepIsProcess
  <2>2. now' = t /\ at' = p /\ heard' = (IF p = None THEN heard ELSE t)
    BY <2>1 DEF Process
  <2>3. (track' # None => TrackOK(track', t)) /\ violations' \in Nat
    <3>1. CASE Business(p)
      <4>1. p \in Positions BY <3>1 DEF Business
      <4> QED BY <2>1, <3>1, <4>1, UpdateOK DEF Process
    <3>2. CASE ~Business(p) BY <2>1, <3>2, CleanupOK DEF Process
    <3> QED BY <3>1, <3>2
  <2>4. now' \in 0 .. MaxTime /\ heard' \in 0 .. now'
    BY <2>1, <2>2, PolicyAssumption DEF TypeOK
  <2> QED BY <2>2, <2>3, <2>4 DEF TypeOK, TrackOK, Known
<1> QED BY <1>1, <1>2

\* Type correctness: every phase of a track holds just what it has found out.
THEOREM TypeCorrect == Spec => []TypeOK
<1>1. Init => TypeOK BY PolicyAssumption DEF Init, TypeOK
<1>2. TypeOK /\ [Next]_vars => TypeOK' BY TypeKept
<1> QED BY <1>1, <1>2, PTL DEF Spec

\* A verdict is final: as long as the gate remembers a vehicle it was passed on,
\* nothing the vehicle does, and no frame without it, revises it.
THEOREM VerdictsAreFinal == Spec => VerdictIsFinal
<1>1. TypeOK /\ [Next]_vars =>
        [track # None /\ track.decision # None /\ track' # None
           => track'.decision = track.decision /\ track'.phase = "resolved"]_vars
  <2> SUFFICES ASSUME TypeOK, Next, track # None, track.decision # None,
                      track' # None
               PROVE  track'.decision = track.decision /\ track'.phase = "resolved"
    OBVIOUS
  <2>1. PICK p \in Positions \cup {None}, t \in Nat, class \in Classes,
             light \in Lights, hit \in BOOLEAN :
                now <= t /\ Process(p, t, class, light, hit)
    BY StepIsProcess
  <2>2. track.phase = "resolved" BY DEF TypeOK, Known
  <2>3. CASE Business(p)
    <3>1. p \in Positions BY <2>3 DEF Business
    <3>2. SameVerdict(track, track') BY <2>1, <2>3, <3>1, UpdateOK DEF Process
    <3> QED BY <3>2 DEF SameVerdict
  <2>4. CASE ~Business(p)
    <3>1. track' = track BY <2>1, <2>2, <2>4, CleanupOK DEF Process
    <3> QED BY <2>2, <3>1
  <2> QED BY <2>3, <2>4
<1> QED BY <1>1, TypeCorrect, PTL DEF Spec, VerdictIsFinal

\* An early verdict is safe: what is decided in the frame of the crossing is what
\* every configured exit would have led to, for any policy.
THEOREM EarlyVerdictsAreSafe == Spec => []EarlyVerdictIsSafe
<1> DEFINE Early == track # None /\ track.decision # None /\ track.movement = None
                    /\ at # None /\ track.crossedAt = now
<1>1. Init => EarlyVerdictIsSafe BY DEF Init, EarlyVerdictIsSafe
<1>2. TypeOK /\ EarlyVerdictIsSafe /\ [Next]_vars => EarlyVerdictIsSafe'
  <2> SUFFICES ASSUME TypeOK, EarlyVerdictIsSafe, Next, Early'
               PROVE  Safe(track')
    BY DEF vars, EarlyVerdictIsSafe, Safe, Evaluate
  <2>1. PICK p \in Positions \cup {None}, t \in Nat, class \in Classes,
             light \in Lights, hit \in BOOLEAN :
                now <= t /\ (t = now => p = at) /\ Process(p, t, class, light, hit)
    BY StepIsProcess
  <2>2. now' = t /\ at' = p /\ p # None BY <2>1 DEF Process
  <2>3. ASSUME track # None, SameVerdict(track, track') PROVE Safe(track')
    <3>1. now \in Nat /\ track.crossedAt <= now
      BY <2>3, PolicyAssumption DEF TypeOK
    <3>2. track'.crossedAt = track.crossedAt BY <2>3 DEF SameVerdict
    <3>3. t = now BY <2>1, <2>2, <3>1, <3>2
    <3>4. Early BY <2>1, <2>2, <2>3, <3>3 DEF SameVerdict
    <3>5. Safe(track) BY <3>4 DEF EarlyVerdictIsSafe, Safe
    <3> QED BY <2>3, <3>5 DEF Safe, SameVerdict
  <2>4. CASE Business(p)
    <3>1. p \in Positions BY <2>2
    <3>2. \/ track # None /\ SameVerdict(track, track')
          \/ track'.decision # None /\ track'.movement = None => Safe(track')
      BY <2>1, <2>4, <3>1, UpdateOK DEF Process
    <3> QED BY <2>3, <3>2
  <2>5. CASE ~Business(p)
    <3>1. Cleanup(t) BY <2>1, <2>5 DEF Process
    <3>2. ~(track # None /\ track.phase = "waiting_for_movement" /\ t = now)
      BY <2>1, <2>2, <2>5 DEF Business, TypeOK, Known
    <3>3. CASE track' = track
      <4>1. TypeOK' BY TypeKept
      <4>2. track.phase = "resolved" BY <3>3 DEF TypeOK, Known
      <4> QED BY <2>3, <3>3, <4>2 DEF SameVerdict
    <3>4. CASE /\ track # None /\ track.phase = "waiting_for_movement"
               /\ track'.crossedAt = track.crossedAt
      <4>1. now \in Nat /\ track.crossedAt <= now
        BY <3>4, PolicyAssumption DEF TypeOK
      <4>2. t # now BY <3>2, <3>4
      <4>3. track'.crossedAt # t BY <2>1, <3>4, <4>1, <4>2 DEF TypeOK
      <4> QED BY <2>2, <4>3
    <3> QED BY <2>1, <3>1, <3>2, <3>3, <3>4, CleanupOK
  <2> QED BY <2>4, <2>5
<1> QED BY <1>1, <1>2, TypeCorrect, PTL DEF Spec
-----------------------------------------------------------------------------
(* What was observed.                                                      *)

\* No track has the value that stands for none.
NoTrackIsNone == \A t \in Nat : ~TrackOK(None, t)

\* Refresh(s, o), case by case: a movement that is waited for is not overdue.
Refreshed(s, o, r) ==
    /\ r.side = Side(s.side, o.pos)
    /\ r.anchor = IF Near(o.pos) THEN s.anchor ELSE o.pos
    /\ \/ /\ r.phase = s.phase /\ r.approachSeen = s.approachSeen
          /\ r.crossedAt = s.crossedAt /\ r.class = s.class /\ r.light = s.light
          /\ r.phase = "waiting_for_movement" => o.time - r.crossedAt <= MaxMovement
       \/ r.phase = "approaching" /\ s.phase = "waiting_for_movement"

LEMMA RefreshIs ==
    ASSUME NEW s, NEW o, NEW t, ObservationOK(o, t), TrackOK(s, t)
    PROVE  Refreshed(s, o, Refresh(s, o))
<1> DEFINE r == [s EXCEPT !.lastSeen = o.time, !.side = Side(@, o.pos),
                          !.anchor = IF Near(o.pos) THEN @ ELSE o.pos]
<1>1. /\ r.phase = s.phase /\ r.approachSeen = s.approachSeen
      /\ r.crossedAt = s.crossedAt /\ r.class = s.class /\ r.light = s.light
      /\ r.side = Side(s.side, o.pos)
      /\ r.anchor = (IF Near(o.pos) THEN s.anchor ELSE o.pos)
  BY DEF TrackOK, NewTrack
<1>2. s.crossedAt \in Int /\ o.time \in Int /\ MaxMovement \in Int
  BY PolicyAssumption DEF TrackOK, ObservationOK
<1>3. Refresh(s, o) = IF TimedOut(r, o) THEN ResetPhase(r) ELSE r BY DEF Refresh
<1> HIDE DEF r
<1>4. CASE TimedOut(r, o)
  <2> DEFINE q == ResetPhase(r)
  <2>1. q.phase = "approaching" /\ q.side = r.side /\ q.anchor = r.anchor
    BY DEF ResetPhase, NewTrack
  <2>2. s.phase = "waiting_for_movement" BY <1>1, <1>4 DEF TimedOut
  <2>3. Refresh(s, o) = q BY <1>3, <1>4
  <2> HIDE DEF q
  <2> QED BY <1>1, <2>1, <2>2, <2>3 DEF Refreshed
<1>5. CASE ~TimedOut(r, o)
  <2>1. r.phase = "waiting_for_movement" => o.time - r.crossedAt <= MaxMovement
    BY <1>1, <1>2, <1>5 DEF TimedOut
  <2>2. Refresh(s, o) = r BY <1>3, <1>5
  <2> QED BY <1>1, <2>1, <2>2 DEF Refreshed
<1> QED BY <1>4, <1>5

\* Advance(s, o), case by case.
EnteredBy(s, o, n) ==
    LET verdict == EvaluateAtCrossing(o.class, o.light) IN
    /\ Enters(s, o)
    /\ n.crossedAt = o.time /\ n.class = o.class /\ n.light = o.light
    /\ n.decision = verdict
    /\ n.phase = "resolved" <=> verdict # None
    /\ n.emitted <=> verdict = "violation"

ExitedBy(s, o, n) ==
    /\ Exits(s, o)
    /\ n.phase = "resolved" /\ n.decision # None
    /\ n.emitted <=> Evaluate(s.class, Exit[o.pos], s.light) = "violation"

ApproachedBy(s, o, n) ==
    /\ s.phase = "approaching" /\ ~Enters(s, o)
    /\ n.phase = "approaching" /\ ~n.emitted
    /\ n.approachSeen <=> s.approachSeen \/ o.pos \in Approach

ReturnedBy(s, o, n) ==
    /\ s.phase = "waiting_for_movement" /\ Returns(o)
    /\ n.phase = "approaching" /\ ~n.emitted /\ n.approachSeen

LeftBy(s, o, n) ==
    /\ s.phase # "approaching"
    /\ ~(s.phase = "waiting_for_movement" /\ Returns(o))
    /\ n = s

Advanced(s, o, n) ==
    /\ n.side = s.side /\ n.anchor = s.anchor
    /\ \/ EnteredBy(s, o, n) \/ ExitedBy(s, o, n) \/ ApproachedBy(s, o, n)
       \/ ReturnedBy(s, o, n) \/ LeftBy(s, o, n)

LEMMA AdvanceIs ==
    ASSUME NEW s, NEW o, NEW t, ObservationOK(o, t), TrackOK(s, t)
    PROVE  Advanced(s, o, Advance(s, o))
<1> DEFINE n == Advance(s, o)
<1>1. CASE Enters(s, o)
  <2> DEFINE q == [s EXCEPT !.phase = "waiting_for_movement", !.crossedAt = o.time,
                            !.class = o.class, !.light = o.light]
             d == EvaluateAtCrossing(o.class, o.light)
             z == [q EXCEPT !.phase = "resolved", !.decision = d,
                            !.emitted = @ \/ d = "violation"]
  <2>1. s.phase = "approaching" BY <1>1 DEF Enters
  <2>2. n = Apply(q, d) BY <1>1, <2>1 DEF Advance, Exits
  <2>3. DOMAIN q = DOMAIN NewTrack BY DEF TrackOK
  <2>4. /\ q.phase = "waiting_for_movement" /\ q.crossedAt = o.time
        /\ q.class = o.class /\ q.light = o.light
        /\ q.side = s.side /\ q.anchor = s.anchor
        /\ q.decision = None /\ q.emitted = FALSE
    BY <2>1 DEF TrackOK, Known, NewTrack
  <2> HIDE DEF q, d
  <2>5. CASE d = None
    <3>1. n = q BY <2>2, <2>5 DEF Apply
    <3>2. None # "violation" BY PolicyAssumption
    <3> HIDE DEF n
    <3>3. EnteredBy(s, o, n) BY <1>1, <2>4, <2>5, <3>1, <3>2 DEF EnteredBy, d
    <3> QED BY <2>4, <3>1, <3>3 DEF Advanced, n
  <2>6. CASE d # None
    <3>1. n = z BY <2>2, <2>6 DEF Apply
    <3>2. /\ z.phase = "resolved" /\ z.crossedAt = o.time /\ z.class = o.class
          /\ z.light = o.light /\ z.side = s.side /\ z.anchor = s.anchor
          /\ z.decision = d /\ z.emitted = (d = "violation")
      BY <2>3, <2>4 DEF NewTrack
    <3> HIDE DEF n, z
    <3>3. EnteredBy(s, o, n) BY <1>1, <2>6, <3>1, <3>2 DEF EnteredBy, d
    <3> QED BY <3>1, <3>2, <3>3 DEF Advanced, n
  <2> QED BY <2>5, <2>6
<1>2. CASE Exits(s, o)
  <2> DEFINE q == [s EXCEPT !.movement = Exit[o.pos]]
             d == Evaluate(s.class, Exit[o.pos], s.light)
             z == [q EXCEPT !.phase = "resolved", !.decision = d,
                            !.emitted = @ \/ d = "violation"]
  <2>1. s.phase = "waiting_for_movement" BY <1>2 DEF Exits
  <2>2. d # None BY PolicyAssumption DEF Evaluate
  <2>3. n = Apply(q, d) BY <1>2, <2>1 DEF Advance, Enters, Exits
  <2>4. n = z BY <2>2, <2>3 DEF Apply
  <2>5. DOMAIN q = DOMAIN NewTrack BY DEF TrackOK
  <2>6. q.side = s.side /\ q.anchor = s.anchor /\ q.emitted = FALSE
    BY <2>1 DEF TrackOK, NewTrack, Known
  <2> HIDE DEF q, d
  <2>7. /\ z.phase = "resolved" /\ z.side = s.side /\ z.anchor = s.anchor
        /\ z.decision = d /\ z.emitted = (d = "violation")
    BY <2>5, <2>6 DEF NewTrack
  <2> HIDE DEF n, z
  <2>8. ExitedBy(s, o, n) BY <1>2, <2>2, <2>4, <2>7 DEF ExitedBy, d
  <2> QED BY <2>4, <2>7, <2>8 DEF Advanced, n
<1>3. CASE s.phase = "approaching" /\ ~Enters(s, o)
  <2> DEFINE q == [s EXCEPT !.approachSeen = @ \/ o.pos \in Approach]
  <2>1. n = q BY <1>3 DEF Advance, Exits
  <2>2. /\ q.phase = "approaching" /\ q.emitted = FALSE
        /\ q.side = s.side /\ q.anchor = s.anchor
        /\ q.approachSeen = (s.approachSeen \/ o.pos \in Approach)
    BY <1>3 DEF TrackOK, NewTrack, Known
  <2> HIDE DEF n, q
  <2>3. ApproachedBy(s, o, n) BY <1>3, <2>1, <2>2 DEF ApproachedBy
  <2> QED BY <2>1, <2>2, <2>3 DEF Advanced, n
<1>4. CASE s.phase = "waiting_for_movement" /\ Returns(o)
  <2> DEFINE q == [ResetPhase(s) EXCEPT !.approachSeen = TRUE]
  <2>1. n = q BY <1>4 DEF Advance, Enters, Exits
  <2>2. /\ q.phase = "approaching" /\ q.emitted = FALSE /\ q.approachSeen = TRUE
        /\ q.side = s.side /\ q.anchor = s.anchor
    BY DEF ResetPhase, NewTrack
  <2> HIDE DEF n, q
  <2>3. ReturnedBy(s, o, n) BY <1>4, <2>1, <2>2 DEF ReturnedBy
  <2> QED BY <2>1, <2>2, <2>3 DEF Advanced, n
<1>5. CASE /\ ~(s.phase = "approaching")
           /\ ~Exits(s, o)
           /\ ~(s.phase = "waiting_for_movement" /\ Returns(o))
  <2>1. n = s BY <1>5 DEF Advance, Enters
  <2> HIDE DEF n
  <2> QED BY <1>5, <2>1 DEF Advanced, LeftBy, n
<1> QED BY <1>1, <1>2, <1>3, <1>4, <1>5

\* A track that waits for its movement ran the line in this observation.
RanIn(s, tr, x) ==
    /\ x \in tr /\ RanLine(tr, x)
    /\ x.time = s.crossedAt /\ x.class = s.class /\ x.light = s.light

OnApproach(s) ==
    s.phase = "approaching" /\ (s.anchor \in Approach => s.approachSeen)

\* Observations are told apart by their times.
Chronicle(tr, t) ==
    \A x \in tr : /\ x.time \in Nat /\ x.time <= t
                  /\ \A y \in tr : x.time = y.time => x = y

\* A track agrees with what was observed of it: one that waits ran the line; one whose
\* every crossing was followed by a return is on the approach, and was seen there if it
\* comes from there.
AgreesWith(s, tr) ==
    /\ s.phase = "waiting_for_movement" => \E x : RanIn(s, tr, x)
    /\ s.phase # "resolved" /\ NeverMissed(tr) /\ CameBack(tr) => OnApproach(s)

\* The line was passed, if at all, when the last frame was first seen.
Settled == Business(at) => track # None /\ ~Passes(track.side, at)

Evidence ==
    /\ Chronicle(trail, now)
    /\ Settled
    /\ track # None => AgreesWith(track, trail)

\* The observation x justifies a violation by a vehicle at p at time t.
Justifies(tr, x, p, t) ==
    /\ x \in tr /\ RanLine(tr, x) /\ x.light \in Enforced
    /\ t - x.time <= MaxMovement
    /\ \/ \A m \in Movements : Illegal(x.class, m)
       \/ Exit[p] # None /\ Illegal(x.class, Exit[p])

\* What Observe notes of a track s.
Observed(s, o, note) ==
    /\ o.from = s.anchor
    /\ o.crossed \in BOOLEAN /\ o.missed \in BOOLEAN
    /\ o.crossed \/ o.missed => Passes(s.side, o.pos)
    /\ note.time = o.time /\ note.pos = o.pos
    /\ note.crossed = o.crossed /\ note.missed = o.missed
    /\ o.crossed => note = o

\* The memory after an observation: every crossing is kept.
Remembers(tr, note, new) ==
    /\ new \subseteq tr \cup {note}
    /\ \A x \in tr : x.crossed \/ x.missed => x \in new
    /\ note.crossed \/ note.missed => note \in new

\* A frame the vehicle has business in, as a step of the track s it starts from, with
\* the observation o and the refreshed track r.
UpdateBy(s, o, note, r, p, t) ==
    /\ s = IF track = None THEN NewTrack ELSE track
    /\ TrackOK(s, t) /\ TrackOK(r, t) /\ ObservationOK(o, t) /\ o.pos = p
    /\ Observed(s, o, note) /\ Refreshed(s, o, r) /\ Advanced(r, o, track')
    /\ violations' = IF track'.emitted /\ ~r.emitted
                     THEN violations + 1 ELSE violations

LEMMA UpdateIs ==
    ASSUME TypeOK, Watch, NEW p \in Positions, NEW t \in Nat, NEW class \in Classes,
           NEW light \in Lights, NEW hit \in BOOLEAN, now <= t,
           Update(p, t, class, light, hit)
    PROVE  \E s, o, note, r :
              /\ UpdateBy(s, o, note, r, p, t)
              /\ trail' = IF t = now THEN trail
                          ELSE {x \in trail \cup {note} :
                                   t - x.time <= MaxMovement \/ x.crossed \/ x.missed}
<1> DEFINE s == IF track = None THEN NewTrack ELSE track
           o == Observe(s, p, t, class, light, hit)
           note == IF o.crossed THEN o ELSE [o EXCEPT !.class = None, !.light = None]
           r == Refresh(s, o)
<1>1. TrackOK(s, t)
  <2>1. now \in Nat BY PolicyAssumption DEF TypeOK
  <2>2. CASE track = None BY <2>2, NewTrackOK
  <2>3. CASE track # None
    <3>1. TrackOK(track, now) BY <2>3 DEF TypeOK, TrackOK
    <3> QED BY <2>1, <2>3, <3>1, LaterOK
  <2> QED BY <2>2, <2>3
<1>2. /\ track' = Advance(r, o)
      /\ violations' = IF Advance(r, o).emitted /\ ~r.emitted
                       THEN violations + 1 ELSE violations
      /\ trail' = IF t = now THEN trail
                  ELSE {x \in trail \cup {note} :
                           t - x.time <= MaxMovement \/ x.crossed \/ x.missed}
  BY DEF Update
<1> HIDE DEF s
<1>3. ObservationOK(o, t) /\ o.pos = p /\ Observed(s, o, note)
  BY DEF Observe, ObservationOK, Observed
<1> HIDE DEF o, note
<1>4. TrackOK(r, t) /\ Refreshed(s, o, r) BY <1>1, <1>3, RefreshOK, RefreshIs
<1> HIDE DEF r
<1>5. Advanced(r, o, Advance(r, o)) BY <1>3, <1>4, AdvanceIs
<1>6. UpdateBy(s, o, note, r, p, t)
  BY <1>1, <1>2, <1>3, <1>4, <1>5 DEF UpdateBy, s
<1> QED BY <1>2, <1>6

\* What is noted in a later frame joins the memory.
LEMMA NewNote ==
    ASSUME NEW tr, NEW k \in Nat, NEW t \in Nat, k < t, Chronicle(tr, k),
           NEW note, note.time = t, NEW new,
           new = {x \in tr \cup {note} : t - x.time <= MaxMovement \/ x.crossed \/ x.missed}
    PROVE  /\ Chronicle(new, t) /\ Remembers(tr, note, new)
           /\ \A x \in tr : x.time < t
<1>1. \A x \in tr : x.time \in Nat /\ x.time < t BY DEF Chronicle
<1>2. Remembers(tr, note, new) BY DEF Remembers
<1>3. \A x \in tr, y \in tr : x.time = y.time => x = y BY DEF Chronicle
<1>4. \A x \in new : x \in tr \/ x = note OBVIOUS
<1>5. Chronicle(new, t)
  <2> SUFFICES ASSUME NEW x \in new, NEW y \in new
               PROVE  x.time \in Nat /\ x.time <= t /\ (x.time = y.time => x = y)
    BY DEF Chronicle
  <2>1. (x \in tr \/ x = note) /\ (y \in tr \/ y = note) BY <1>4
  <2> QED BY <1>1, <1>3, <2>1
<1> QED BY <1>1, <1>2, <1>5

\* The track a frame leaves agrees with what was observed, a violation it is charged
\* with is justified, and a run it makes is judged by the light of the frame.
LEMMA ObservationAgrees ==
    ASSUME NEW t \in Nat, NEW s, NEW o, NEW note, NEW r, NEW n, NEW tr, NEW new,
           TrackOK(s, t), TrackOK(r, t), TrackOK(n, t), ObservationOK(o, t),
           Observed(s, o, note), Refreshed(s, o, r), Advanced(r, o, n),
           Remembers(tr, note, new), Chronicle(new, t),
           o.crossed => \A x \in tr : x.time < t,
           AgreesWith(s, tr)
    PROVE  /\ AgreesWith(n, new)
           /\ n.emitted /\ ~r.emitted => \E x : Justifies(new, x, o.pos, t)
           /\ (/\ note \in new /\ RanLine(new, note) /\ s.decision = None
               /\ NeverMissed(new) /\ CameBack(new \ {note}))
              => n.decision = EvaluateAtCrossing(note.class, note.light)
<1>1. /\ o.time = t /\ note.time = t /\ note.pos = o.pos
      /\ note.crossed = o.crossed /\ note.missed = o.missed
      /\ o.crossed => note = o /\ note \in new
      /\ Returns(note) <=> Returns(o)
      /\ \A y \in new : y \in tr \/ y = note
      /\ \A y \in new : y.time \in Nat /\ y.time <= t
      /\ \A x, y \in new : x.time = y.time => x = y
  BY DEF ObservationOK, Observed, Remembers, Chronicle, Returns
<1>2. /\ r.phase \in {s.phase, "approaching"}
      /\ r.phase = "waiting_for_movement" =>
            /\ s.phase = "waiting_for_movement"
            /\ r.crossedAt = s.crossedAt /\ r.class = s.class /\ r.light = s.light
            /\ t - s.crossedAt <= MaxMovement
  BY <1>1 DEF Refreshed
<1>3. ASSUME NEW x, RanIn(s, tr, x), ~Returns(o)
      PROVE  RanIn(s, new, x)
  <2>1. x \in new BY <1>3 DEF RanIn, RanLine, Remembers
  <2>2. RanLine(new, x) BY <1>1, <1>3 DEF RanIn, RanLine
  <2> QED BY <1>3, <2>1, <2>2 DEF RanIn
<1>4. ASSUME EnteredBy(r, o, n)
      PROVE  /\ o.crossed /\ note = o /\ note \in new /\ RanLine(new, note)
             /\ ~Returns(o) /\ n.crossedAt = note.time
             /\ n.class = note.class /\ n.light = note.light
  <2>1. o.crossed /\ o.from \in Approach /\ o.pos \notin Approach
    BY <1>4 DEF EnteredBy, Enters
  <2>2. \A y \in new : ~(y.time > note.time) BY <1>1
  <2> QED BY <1>1, <1>4, <2>1, <2>2 DEF EnteredBy, RanLine, Returns
<1>5. ASSUME n.phase = "waiting_for_movement"
      PROVE  \E x : RanIn(n, new, x)
  <2>1. CASE EnteredBy(r, o, n) BY <1>4, <2>1 DEF RanIn
  <2>2. CASE LeftBy(r, o, n)
    <3>1. r.phase = "waiting_for_movement" /\ n = r /\ ~Returns(o)
      BY <1>5, <2>2 DEF LeftBy
    <3>2. PICK x : RanIn(s, tr, x) BY <1>2, <3>1 DEF AgreesWith
    <3>3. RanIn(s, new, x) BY <1>3, <3>1, <3>2
    <3> QED BY <1>2, <3>1, <3>3 DEF RanIn
  <2> QED BY <1>5, <2>1, <2>2 DEF Advanced, ExitedBy, ApproachedBy, ReturnedBy
<1>6. ASSUME ~o.crossed, ~o.missed, NeverMissed(new), CameBack(new)
      PROVE  NeverMissed(tr) /\ CameBack(tr)
  <2>1. \A x \in tr : x.crossed \/ x.missed => x \in new BY DEF Remembers
  <2>2. NeverMissed(tr) BY <1>6, <2>1 DEF NeverMissed
  <2>3. ~Returns(note) BY <1>1, <1>6 DEF Returns
  <2> QED BY <1>1, <1>6, <2>1, <2>2, <2>3 DEF CameBack
<1>7. ASSUME n.phase # "resolved", NeverMissed(new), CameBack(new)
      PROVE  OnApproach(n)
  <2>1. CASE EnteredBy(r, o, n)
    <3>1. PICK y \in new : y.time >= note.time /\ Returns(y)
      BY <1>4, <1>7, <2>1 DEF CameBack
    <3>2. y = note BY <1>1, <1>4, <2>1, <3>1
    <3> QED BY <1>1, <1>4, <2>1, <3>1, <3>2
  <2>2. CASE ExitedBy(r, o, n) BY <1>7, <2>2 DEF ExitedBy
  <2>3. CASE ApproachedBy(r, o, n)
    <3>1. /\ n.phase = "approaching" /\ n.anchor = r.anchor
          /\ n.approachSeen <=> r.approachSeen \/ o.pos \in Approach
      BY <2>3 DEF Advanced, ApproachedBy
    <3>2. r.phase = "approaching" BY <2>3 DEF ApproachedBy
    <3>3. CASE ~Near(o.pos)
      BY <3>1, <3>3 DEF OnApproach, Refreshed
    <3>4. CASE Near(o.pos)
      <4>1. ~o.crossed /\ ~o.missed BY <3>4 DEF Observed, Passes, Side
      <4>2. r.anchor = s.anchor BY <3>4 DEF Refreshed
      <4>3. s.phase # "resolved" BY <3>2 DEF Refreshed
      <4>4. OnApproach(s) BY <1>6, <1>7, <4>1, <4>3 DEF AgreesWith
      <4>5. r.approachSeen = s.approachSeen BY <4>4 DEF Refreshed, OnApproach
      <4> QED BY <3>1, <4>2, <4>4, <4>5 DEF OnApproach
    <3> QED BY <3>3, <3>4
  <2>4. CASE ReturnedBy(r, o, n) BY <2>4 DEF ReturnedBy, OnApproach
  <2>5. CASE LeftBy(r, o, n)
    <3>1. n = r /\ r.phase = "waiting_for_movement"
      BY <1>7, <2>5 DEF LeftBy, TrackOK
    <3>2. PICK x : RanIn(n, new, x) BY <1>5, <3>1
    <3>3. x \in new /\ RanLine(new, x) /\ x.crossed /\ x.pos \notin Approach
      BY <3>2 DEF RanIn, RanLine
    <3>4. PICK y \in new : y.time >= x.time /\ Returns(y)
      BY <1>7, <3>3 DEF CameBack
    <3>5. y = x BY <1>1, <3>3, <3>4 DEF RanLine
    <3> QED BY <3>3, <3>4, <3>5 DEF Returns
  <2> QED BY <2>1, <2>2, <2>3, <2>4, <2>5 DEF Advanced
<1>8. ASSUME n.emitted, ~r.emitted
      PROVE  \E x : Justifies(new, x, o.pos, t)
  <2>1. CASE EnteredBy(r, o, n)
    <3>1. EvaluateAtCrossing(o.class, o.light) = "violation"
      BY <1>8, <2>1 DEF EnteredBy
    <3>2. o.light \in Enforced /\ \A m \in Movements : Illegal(o.class, m)
      BY <3>1, PolicyAssumption DEF EvaluateAtCrossing, Illegal
    <3>3. t - note.time <= MaxMovement BY <1>1, PolicyAssumption
    <3>4. Justifies(new, note, o.pos, t)
      BY <1>4, <2>1, <3>2, <3>3 DEF Justifies
    <3> QED BY <3>4
  <2>2. CASE ExitedBy(r, o, n)
    <3>1. /\ r.phase = "waiting_for_movement" /\ ~Returns(o) /\ Exit[o.pos] # None
          /\ Evaluate(r.class, Exit[o.pos], r.light) = "violation"
      BY <1>8, <2>2 DEF ExitedBy, Exits
    <3>2. r.light \in Enforced /\ Illegal(r.class, Exit[o.pos])
      BY <3>1, PolicyAssumption DEF Evaluate, Illegal
    <3>3. PICK x : RanIn(s, tr, x) BY <1>2, <3>1 DEF AgreesWith
    <3>4. RanIn(s, new, x) BY <1>3, <3>1, <3>3
    <3>5. Justifies(new, x, o.pos, t)
      BY <1>2, <3>1, <3>2, <3>4 DEF Justifies, RanIn
    <3> QED BY <3>5
  <2> QED BY <1>8, <2>1, <2>2 DEF Advanced, ApproachedBy, ReturnedBy, LeftBy
<1>9. ASSUME note \in new, RanLine(new, note), s.decision = None,
             NeverMissed(new), CameBack(new \ {note})
      PROVE  n.decision = EvaluateAtCrossing(note.class, note.light)
  <2>1. /\ o.crossed /\ note = o /\ o.from \in Approach /\ o.pos \notin Approach
        /\ o.from = s.anchor
    BY <1>1, <1>9 DEF RanLine, Observed
  <2>2. \A x \in tr : x # note /\ (x.crossed \/ x.missed => x \in new)
    BY <1>1, <2>1 DEF Remembers
  <2>3. NeverMissed(tr) BY <1>9, <2>2 DEF NeverMissed
  <2>4. CameBack(tr) BY <1>1, <1>9, <2>2 DEF CameBack
  <2>5. s.phase # "resolved"
    BY <1>9, PolicyAssumption DEF TrackOK, Known
  <2>6. s.phase = "approaching" /\ s.approachSeen
    BY <2>1, <2>3, <2>4, <2>5 DEF AgreesWith, OnApproach
  <2>7. r.phase = "approaching" /\ r.approachSeen BY <2>6 DEF Refreshed
  <2>8. Enters(r, o) BY <2>1, <2>7 DEF Enters
  <2>9. EnteredBy(r, o, n)
    BY <2>7, <2>8 DEF Advanced, ExitedBy, Exits, ApproachedBy, ReturnedBy, LeftBy
  <2> QED BY <2>1, <2>9 DEF EnteredBy
<1>10. AgreesWith(n, new) BY <1>5, <1>7 DEF AgreesWith
<1> QED BY <1>8, <1>9, <1>10

\* A new track agrees with anything.
LEMMA NewTrackAgrees ==
    ASSUME NEW tr
    PROVE  AgreesWith(NewTrack, tr)
BY PolicyAssumption DEF NewTrack, AgreesWith, OnApproach

\* What a step says about violations and runs.
Justified == violations' > violations => \E x : Justifies(trail', x, at', now')

Judged ==
    \A o \in trail' :
        (/\ o.time = now' /\ now' > now
         /\ RanLine(trail', o)
         /\ track # None /\ track.decision = None
         /\ NeverMissed(trail')
         /\ CameBack(trail' \ {o}))
        => track'.decision = EvaluateAtCrossing(o.class, o.light)

\* A frame the vehicle has business in.
LEMMA UpdateKeepsEvidence ==
    ASSUME TypeOK, Evidence, Watch, NoTrackIsNone,
           NEW p \in Positions, NEW t \in Nat, NEW class \in Classes,
           NEW light \in Lights, NEW hit \in BOOLEAN,
           now <= t, t = now => p = at, Business(p), now' = t, at' = p,
           Update(p, t, class, light, hit)
    PROVE  Evidence' /\ Justified /\ Judged
<1>1. PICK s, o, note, r :
          /\ UpdateBy(s, o, note, r, p, t)
          /\ trail' = IF t = now THEN trail
                      ELSE {x \in trail \cup {note} :
                               t - x.time <= MaxMovement \/ x.crossed \/ x.missed}
  BY UpdateIs
<1>2. PICK n, new, k : n = track' /\ new = trail' /\ k = now OBVIOUS
<1>3. PICK tr : tr = trail OBVIOUS
<1>4. /\ TrackOK(s, t) /\ TrackOK(r, t) /\ ObservationOK(o, t) /\ o.pos = p
      /\ Observed(s, o, note) /\ Refreshed(s, o, r) /\ Advanced(r, o, n)
      /\ (n.emitted /\ ~r.emitted) \/ violations' = violations
      /\ note.time = t
  BY <1>1, <1>2 DEF UpdateBy, Observed, ObservationOK
<1>5. TrackOK(n, t)
  <2>1. TrackOK(track', t) BY UpdateOK
  <2> QED BY <1>2, <2>1
<1>6. k \in Nat /\ Chronicle(tr, k) /\ AgreesWith(s, tr)
  <2>1. AgreesWith(track, tr) \/ track = None BY <1>3 DEF Evidence
  <2>2. Chronicle(tr, k) BY <1>2, <1>3 DEF Evidence
  <2> QED BY <1>1, <1>2, <2>1, <2>2, NewTrackAgrees DEF UpdateBy, TypeOK
<1>7. /\ Chronicle(new, t) /\ Remembers(tr, note, new)
      /\ o.crossed => \A x \in tr : x.time < t
  <2>1. CASE t = now
    <3>1. track # None /\ ~Passes(track.side, p)
      BY <2>1 DEF Evidence, Settled
    <3>2. ~o.crossed /\ ~o.missed
      BY <1>1, <1>4, <3>1 DEF UpdateBy, Observed
    <3>3. new = tr BY <1>1, <1>2, <1>3, <2>1
    <3>4. Remembers(tr, note, tr) BY <1>4, <3>2 DEF Remembers, Observed
    <3> QED BY <1>2, <1>6, <2>1, <3>2, <3>3, <3>4
  <2>2. CASE t # now
    <3>1. k < t BY <1>2, <1>6, <2>2
    <3>2. new = {x \in tr \cup {note} :
                    t - x.time <= MaxMovement \/ x.crossed \/ x.missed}
      BY <1>1, <1>2, <1>3, <2>2
    <3> QED BY <1>4, <1>6, <3>1, <3>2, NewNote
  <2> QED BY <2>1, <2>2
<1>8. /\ AgreesWith(n, new)
      /\ n.emitted /\ ~r.emitted => \E x : Justifies(new, x, o.pos, t)
      /\ (/\ note \in new /\ RanLine(new, note) /\ s.decision = None
          /\ NeverMissed(new) /\ CameBack(new \ {note}))
         => n.decision = EvaluateAtCrossing(note.class, note.light)
  BY <1>4, <1>5, <1>6, <1>7, ObservationAgrees
<1>9. n # None BY <1>5 DEF NoTrackIsNone
<1>10. ~Passes(n.side, p)
  <2>1. n.side = Side(s.side, p) BY <1>4 DEF Advanced, Refreshed
  <2> QED BY <2>1 DEF Passes, Side
<1>11. Evidence'
  <2>1. Chronicle(new, t)' /\ AgreesWith(n, new)' BY <1>7, <1>8
  <2>2. Chronicle(trail, now)' BY <1>2, <1>7 DEF Chronicle
  <2>3. Settled' BY <1>2, <1>9, <1>10 DEF Settled
  <2>4. AgreesWith(track, trail)'
    BY <1>2, <1>8 DEF AgreesWith, RanIn, RanLine, OnApproach, NeverMissed, CameBack
  <2> QED BY <2>2, <2>3, <2>4 DEF Evidence
<1>12. Justified
  <2>1. violations \in Nat BY DEF TypeOK
  <2> QED BY <1>2, <1>4, <1>8, <2>1 DEF Justified
<1>13. Judged
  <2> SUFFICES ASSUME NEW x \in new, x.time = t, t > k, RanLine(new, x),
                      track # None, track.decision = None,
                      NeverMissed(new), CameBack(new \ {x})
               PROVE  n.decision = EvaluateAtCrossing(x.class, x.light)
    BY <1>2 DEF Judged
  <2>1. x \in tr \/ x = note BY <1>7 DEF Remembers
  <2>2. x \notin tr BY <1>6 DEF Chronicle
  <2>3. s = track BY <1>1 DEF UpdateBy
  <2> QED BY <1>8, <2>1, <2>2, <2>3
<1> QED BY <1>11, <1>12, <1>13

\* A frame without it, or one it has no business in.
LEMMA CleanupKeepsEvidence ==
    ASSUME TypeOK, Evidence, Watch,
           NEW p \in Positions \cup {None}, NEW t \in Nat,
           now <= t, ~Business(p), now' = t, at' = p, Cleanup(t)
    PROVE  Evidence' /\ Justified /\ Judged
<1>1. PICK n, new : n = track' /\ new = trail' OBVIOUS
<1>2. PICK tr, k : tr = trail /\ k = now OBVIOUS
<1>3. k \in Nat /\ Chronicle(tr, k) BY <1>2 DEF Evidence, TypeOK
<1>4. violations' = violations /\ violations \in Nat BY DEF Cleanup, TypeOK
<1>5. \/ track' = track /\ trail' = trail
      \/ /\ track # None /\ track.phase = "waiting_for_movement"
         /\ n.phase = "resolved" /\ n.approachSeen = track.approachSeen
         /\ trail' = trail
      \/ track' = None /\ trail' = {}
  BY <1>1 DEF Cleanup, TypeOK, NewTrack
<1>6. Chronicle(new, t)
  <2>1. new = tr \/ new = {} BY <1>1, <1>2, <1>5
  <2> QED BY <1>2, <1>3, <2>1 DEF Chronicle
<1>7. n # None => AgreesWith(n, new)
  <2>1. CASE track' = track /\ trail' = trail
    <3>1. track # None => AgreesWith(track, trail) BY DEF Evidence
    <3> QED BY <1>1, <2>1, <3>1
  <2>2. CASE n.phase = "resolved" BY <2>2 DEF AgreesWith
  <2> QED BY <1>1, <1>5, <2>1, <2>2
<1>8. Business(p)' => FALSE
  <2>1. \/ p = None
        \/ p \notin Approach /\ (track = None \/ ~track.approachSeen)
    BY DEF Business
  <2> QED BY <1>1, <1>5, <2>1 DEF Business
<1>9. Evidence'
  <2>1. Chronicle(trail, now)' BY <1>1, <1>6 DEF Chronicle
  <2>2. Settled' BY <1>8 DEF Settled, Business
  <2>3. track' # None => AgreesWith(track, trail)'
    BY <1>1, <1>7 DEF AgreesWith, RanIn, RanLine, OnApproach, NeverMissed, CameBack
  <2> QED BY <2>1, <2>2, <2>3 DEF Evidence
<1>10. Justified BY <1>4 DEF Justified
<1>11. Judged
  <2> SUFFICES ASSUME NEW x \in new, x.time = t, t > k
               PROVE  FALSE
    BY <1>1, <1>2 DEF Judged
  <2>1. x \in tr BY <1>1, <1>2, <1>5
  <2> QED BY <1>3, <2>1 DEF Chronicle
<1> QED BY <1>9, <1>10, <1>11

LEMMA EvidenceStep ==
    ASSUME TypeOK, Evidence, Watch, NoTrackIsNone, Next
    PROVE  Evidence' /\ Justified /\ Judged
<1>1. PICK p \in Positions \cup {None}, t \in Nat, class \in Classes,
           light \in Lights, hit \in BOOLEAN :
              now <= t /\ (t = now => p = at) /\ Process(p, t, class, light, hit)
  BY StepIsProcess
<1>2. now' = t /\ at' = p BY <1>1 DEF Process
<1>3. CASE Business(p)
  <2>1. p \in Positions BY <1>3 DEF Business
  <2> QED BY <1>1, <1>2, <1>3, <2>1, UpdateKeepsEvidence DEF Process
<1>4. CASE ~Business(p)
  BY <1>1, <1>2, <1>4, CleanupKeepsEvidence DEF Process
<1> QED BY <1>3, <1>4

\* A track and the memory of what was observed of it agree, for any road and policy.
LEMMA EvidenceHolds ==
    ASSUME Watch, NoTrackIsNone
    PROVE  Spec => []Evidence
<1>1. Init => Evidence
  BY PolicyAssumption DEF Init, Evidence, Chronicle, Settled, Business
<1>2. TypeOK /\ Evidence /\ [Next]_vars => Evidence'
  <2>1. CASE Next BY <2>1, EvidenceStep
  <2>2. CASE UNCHANGED vars
    BY <2>2 DEF vars, Evidence, Chronicle, Settled, Business, AgreesWith,
                RanIn, RanLine, OnApproach, NeverMissed, CameBack
  <2> QED BY <2>1, <2>2
<1> QED BY <1>1, <1>2, TypeCorrect, PTL DEF Spec

\* No violation is counted that the observations do not justify: for any road and
\* policy, and any frames, repeated ones included.
THEOREM ViolationsAreJustified ==
    ASSUME Watch, NoTrackIsNone
    PROVE  Spec => ViolationIsJustified
<1>1. TypeOK /\ Evidence /\ [Next]_vars =>
        [violations' > violations =>
           \E x \in trail' :
              /\ RanLine(trail', x)
              /\ x.light \in Enforced
              /\ now' - x.time <= MaxMovement
              /\ \/ \A m \in Movements : Illegal(x.class, m)
                 \/ Exit[at'] # None /\ Illegal(x.class, Exit[at'])]_vars
  BY EvidenceStep DEF Justified, Justifies
<1> QED BY <1>1, EvidenceHolds, TypeCorrect, PTL DEF Spec, ViolationIsJustified

\* A vehicle that runs the line without a verdict is judged by the light of that
\* frame: no run is missed or judged by another light.
THEOREM RunsAreJudged ==
    ASSUME Watch, NoTrackIsNone
    PROVE  Spec => RunIsJudged
<1>1. TypeOK /\ Evidence /\ [Next]_vars =>
        [\A o \in trail' :
            (/\ o.time = now' /\ now' > now
             /\ RanLine(trail', o)
             /\ track # None /\ track.decision = None
             /\ NeverMissed(trail')
             /\ CameBack(trail' \ {o}))
            => track'.decision = EvaluateAtCrossing(o.class, o.light)]_vars
  BY EvidenceStep DEF Judged
<1> QED BY <1>1, EvidenceHolds, TypeCorrect, PTL DEF Spec, RunIsJudged
-----------------------------------------------------------------------------
(* The smoothing follows the light, for any window and any frames seen     *)
(* before.  The history holds the last frames, as many as the window       *)
(* admits (HistoryIsTheEnd), so a light that fills at least half of it     *)
(* from the end on is a candidate and, being seen last, wins; one that     *)
(* fills less loses to a light that fills all the rest.                    *)

\* What the deque holds after n frames.
Held(n, window) == IF n < window THEN n ELSE window

LastFrames(observed, n, window) ==
    [j \in 1 .. Held(n, window) |-> observed[n - Held(n, window) + j]]

HistoryAfter(observed, n, window) ==
    IF n = 0 THEN NoHistory
    ELSE [maxlen |-> window, frames |-> LastFrames(observed, n, window)]

\* One more frame is remembered, and the oldest forgotten if there are too many.
LEMMA RememberOne ==
    ASSUME NEW L, NEW observed \in Seq(L), NEW window \in Nat \ {0},
           NEW n \in 1 .. Len(observed)
    PROVE  Remember(HistoryAfter(observed, n - 1, window), observed[n], window)
             = HistoryAfter(observed, n, window)
  <1> DEFINE h == HistoryAfter(observed, n - 1, window)
             old == IF h.maxlen = window THEN h.frames ELSE <<>>
             all == Append(old, observed[n])
             new == IF Len(all) > window THEN Tail(all) ELSE all
  <1>1. n \in Nat /\ n >= 1 /\ n - 1 \in Nat /\ n <= Len(observed) /\ Len(observed) \in Nat
    OBVIOUS
  <1>2. PICK k \in Nat : k = Held(n - 1, window)
    BY <1>1 DEF Held
  <1>3. k <= n - 1 /\ k <= window /\ (k = n - 1 \/ k = window)
    BY <1>1, <1>2 DEF Held
  <1>4. /\ old \in Seq(L) /\ Len(old) = k
        /\ \A j \in 1 .. k : old[j] = observed[n - 1 - k + j]
    <2>1. CASE n = 1
      <3>1. h = [maxlen |-> 0, frames |-> <<>>] /\ k = 0
        BY <1>3, <2>1 DEF HistoryAfter, NoHistory
      <3> HIDE DEF h
      <3> QED BY <3>1
    <2>2. CASE n # 1
      <3> DEFINE f == [j \in 1 .. k |-> observed[n - 1 - k + j]]
      <3>1. h = [maxlen |-> window, frames |-> f]
        <4>1. n - 1 # 0
          BY <1>1, <2>2
        <4> QED BY <1>2, <4>1 DEF HistoryAfter, LastFrames
      <3>2. old = f
        <4> HIDE DEF h, f
        <4> QED BY <3>1
      <3>3. \A j \in 1 .. k : observed[n - 1 - k + j] \in L
        <4> TAKE j \in 1 .. k
        <4>1. n - 1 - k + j \in 1 .. Len(observed)
          BY <1>1, <1>3
        <4> QED BY <4>1
      <3>4. f \in Seq(L) /\ Len(f) = k
        BY <3>3
      <3> HIDE DEF old
      <3> QED BY <3>2, <3>4
    <2> QED BY <2>1, <2>2
  <1> HIDE DEF old
  <1>5. /\ all \in Seq(L) /\ Len(all) = k + 1
        /\ \A j \in 1 .. k + 1 : all[j] = observed[n - 1 - k + j]
    <2>1. observed[n] \in L
      OBVIOUS
    <2>2. all \in Seq(L) /\ Len(all) = k + 1
      BY <1>4, <2>1
    <2>3. ASSUME NEW j \in 1 .. k + 1 PROVE all[j] = observed[n - 1 - k + j]
      <3>1. CASE j = k + 1
        BY <1>1, <1>4, <3>1
      <3>2. CASE j # k + 1
        <4>1. j \in 1 .. k
          BY <3>2
        <4> QED BY <1>4, <4>1
      <3> QED BY <3>1, <3>2
    <2> QED BY <2>2, <2>3
  <1> HIDE DEF all
  <1>6. PICK m \in Nat : m = Held(n, window)
    BY <1>1 DEF Held
  <1>7. new \in Seq(L) /\ Len(new) = m /\ \A j \in 1 .. m : new[j] = observed[n - m + j]
    <2>1. CASE k = window
      <3>1. m = window /\ m = k
        BY <1>1, <1>2, <1>3, <1>6, <2>1 DEF Held
      <3>2. new = Tail(all) /\ all # <<>>
        BY <1>5, <2>1
      <3> HIDE DEF new
      <3>3. new \in Seq(L) /\ Len(new) = k /\ \A j \in 1 .. k : new[j] = all[j + 1]
        BY <1>5, <3>2
      <3>4. ASSUME NEW j \in 1 .. k PROVE new[j] = observed[n - k + j]
        <4>1. j + 1 \in 1 .. k + 1 /\ n - 1 - k + (j + 1) = n - k + j
          BY <1>1
        <4> QED BY <1>5, <3>3, <4>1
      <3> QED BY <3>1, <3>3, <3>4
    <2>2. CASE k # window
      <3>1. m = k + 1 /\ k = n - 1
        BY <1>1, <1>2, <1>3, <1>6, <2>2 DEF Held
      <3>2. new = all
        BY <1>3, <1>5, <2>2
      <3> HIDE DEF new
      <3>3. n - m = n - 1 - k
        BY <1>1, <3>1
      <3> QED BY <1>5, <3>1, <3>2, <3>3
    <2> QED BY <2>1, <2>2
  <1>8. new = LastFrames(observed, n, window)
    <2> DEFINE f == [j \in 1 .. m |-> observed[n - m + j]]
    <2>1. f = LastFrames(observed, n, window)
      BY <1>6 DEF LastFrames
    <2> HIDE DEF new
    <2>2. new = [j \in 1 .. m |-> new[j]]
      BY <1>7
    <2>3. new = f
      BY <1>7, <2>2
    <2> QED BY <2>1, <2>3
  <1>9. Remember(h, observed[n], window) = [maxlen |-> window, frames |-> new]
    BY DEF Remember, all, old
  <1>10. n # 0
    BY <1>1
  <1> HIDE DEF h, new
  <1> QED BY <1>8, <1>9, <1>10 DEF HistoryAfter, h

\* The history holds the last frames.
LEMMA HistoryIsTheEnd ==
    ASSUME NEW L, NEW observed \in Seq(L), NEW window \in Nat \ {0}, Len(observed) > 0
    PROVE  HistoryOf(observed, window).frames
             = LastFrames(observed, Len(observed), window)
  <1> DEFINE N == Len(observed)
             Step(f) == [n \in 0 .. N |->
                            IF n = 0 THEN NoHistory
                            ELSE Remember(f[n - 1], observed[n], window)]
             history == CHOOSE f : f = Step(f)
             g == [n \in 0 .. N |-> HistoryAfter(observed, n, window)]
  <1>1. N \in Nat /\ N # 0
    OBVIOUS
  <1>2. g = Step(g)
    <2>1. ASSUME NEW n \in 0 .. N
          PROVE  g[n] = IF n = 0 THEN NoHistory
                        ELSE Remember(g[n - 1], observed[n], window)
      <3>1. CASE n = 0
        BY <3>1 DEF HistoryAfter
      <3>2. CASE n # 0
        <4>1. n \in 1 .. N /\ n - 1 \in 0 .. N
          BY <1>1, <3>2
        <4>2. g[n - 1] = HistoryAfter(observed, n - 1, window)
          BY <4>1
        <4>3. g[n] = HistoryAfter(observed, n, window)
          OBVIOUS
        <4> HIDE DEF g
        <4> QED BY <3>2, <4>1, <4>2, <4>3, RememberOne
      <3> QED BY <3>1, <3>2
    <2> QED BY <2>1
  <1>3. history = Step(history)
    <2> HIDE DEF g, Step
    <2> QED BY <1>2
  <1>4. HistoryOf(observed, window) = history[N]
    BY DEF HistoryOf
  <1> HIDE DEF history
  <1>5. ASSUME NEW n \in 0 .. N
        PROVE  history[n] = IF n = 0 THEN NoHistory
                            ELSE Remember(history[n - 1], observed[n], window)
    BY <1>3
  <1>6. \A n \in 0 .. N : history[n] = HistoryAfter(observed, n, window)
    <2> DEFINE Odd == {n \in 0 .. N : history[n] # HistoryAfter(observed, n, window)}
    <2>1. SUFFICES ASSUME Odd # {} PROVE FALSE
      OBVIOUS
    <2>2. PICK n \in Odd : \A m \in Odd : n <= m
      <3>1. Odd \subseteq Nat
        OBVIOUS
      <3> HIDE DEF Odd
      <3> QED BY <2>1, <3>1, Least
    <2>3. CASE n = 0
      BY <1>5, <2>2, <2>3 DEF HistoryAfter
    <2>4. CASE n # 0
      <3>1. n \in 1 .. N /\ n - 1 \in 0 .. N
        BY <1>1, <2>2, <2>4
      <3>2. n - 1 \notin Odd
        <4>1. ~(n <= n - 1)
          BY <3>1
        <4> HIDE DEF Odd
        <4> QED BY <2>2, <4>1
      <3>3. history[n - 1] = HistoryAfter(observed, n - 1, window)
        BY <3>1, <3>2
      <3>4. history[n] = Remember(history[n - 1], observed[n], window)
        BY <1>5, <2>4, <3>1
      <3>5. history[n] = HistoryAfter(observed, n, window)
        BY <3>1, <3>3, <3>4, RememberOne
      <3> QED BY <2>2, <3>5
    <2> QED BY <2>3, <2>4
  <1>7. history[N] = [maxlen |-> window, frames |-> LastFrames(observed, N, window)]
    BY <1>1, <1>6 DEF HistoryAfter
  <1> QED BY <1>4, <1>7

\* The places after a up to b show a light; nothing else does.
ShownIn(frames, l, a, b) == \A j \in a + 1 .. b : frames[j] = l
ShownOnlyIn(frames, l, a, b) ==
    \A j \in DOMAIN frames : frames[j] = l => j \in a + 1 .. b

\* A light is counted at least at the places it is known to be at.
LEMMA CountAtLeast ==
    ASSUME NEW m \in Nat, NEW frames, DOMAIN frames = 1 .. m, NEW l,
           NEW a \in Nat, NEW b \in Nat, a <= b, b <= m,
           ShownIn(frames, l, a, b)
    PROVE  Count(frames, l) \in Nat /\ Count(frames, l) >= b - a
  <1> DEFINE P == {j \in 1 .. m : frames[j] = l}
             Q == a + 1 .. b
  <1>1. P \in SUBSET (1 .. m) /\ Q \in SUBSET P
    BY DEF ShownIn
  <1>2. Count(frames, l) = Cardinality(P)
    BY DEF Count
  <1>3. IsFiniteSet(1 .. m) /\ IsFiniteSet(Q) /\ Cardinality(Q) = b - a
    <2>1. IsFiniteSet(1 .. m)
      BY FS_Interval
    <2>2. IsFiniteSet(Q) /\ Cardinality(Q) = IF a + 1 > b THEN 0 ELSE b - (a + 1) + 1
      <3>1. a + 1 \in Int /\ b \in Int
        OBVIOUS
      <3> QED BY <3>1, FS_Interval
    <2> HIDE DEF Q
    <2> QED BY <2>1, <2>2
  <1> HIDE DEF P, Q
  <1>4. IsFiniteSet(P) /\ Cardinality(P) \in Nat
    BY <1>1, <1>3, FS_Subset, FS_CardinalityType
  <1>5. Cardinality(Q) <= Cardinality(P)
    BY <1>1, <1>4, FS_Subset
  <1> QED BY <1>2, <1>3, <1>4, <1>5

\* It is counted at most at the places it can be at.
LEMMA CountAtMost ==
    ASSUME NEW m \in Nat, NEW frames, DOMAIN frames = 1 .. m, NEW l,
           NEW a \in Nat, NEW b \in Nat, a <= b,
           ShownOnlyIn(frames, l, a, b)
    PROVE  Count(frames, l) \in Nat /\ Count(frames, l) <= b - a
  <1> DEFINE P == {j \in 1 .. m : frames[j] = l}
             Q == a + 1 .. b
  <1>1. P \in SUBSET Q
    BY DEF ShownOnlyIn
  <1>2. Count(frames, l) = Cardinality(P)
    BY DEF Count
  <1>3. IsFiniteSet(Q) /\ Cardinality(Q) = b - a
    <2>1. IsFiniteSet(Q) /\ Cardinality(Q) = IF a + 1 > b THEN 0 ELSE b - (a + 1) + 1
      <3>1. a + 1 \in Int /\ b \in Int
        OBVIOUS
      <3> QED BY <3>1, FS_Interval
    <2> HIDE DEF Q
    <2> QED BY <2>1
  <1> HIDE DEF P, Q
  <1>4. IsFiniteSet(P) /\ Cardinality(P) \in Nat
    BY <1>1, <1>3, FS_Subset, FS_CardinalityType
  <1>5. Cardinality(P) <= Cardinality(Q)
    BY <1>1, <1>3, FS_Subset
  <1> QED BY <1>2, <1>3, <1>4, <1>5

\* The light seen last wins if it is a candidate, and a single candidate wins.
LEMMA MajorityIs ==
    ASSUME NEW m \in Nat, NEW frames, DOMAIN frames = 1 .. m, m > 0, NEW l
    PROVE  /\ frames[m] = l /\ l \in Candidates(frames) => Majority(frames) = l
           /\ Candidates(frames) = {l} => Majority(frames) = l
  <1> DEFINE P == {j \in 1 .. m : frames[j] \in Candidates(frames)}
  <1>1. Majority(frames) = frames[Max(P)]
    BY DEF Majority
  <1>2. \A j : j \in P <=> j \in 1 .. m /\ frames[j] \in Candidates(frames)
    OBVIOUS
  <1> HIDE DEF P
  <1>3. ASSUME P # {} PROVE Max(P) \in P /\ \A j \in P : j <= Max(P)
    <2>1. P \subseteq 0 .. m
      BY <1>2
    <2>2. PICK g \in P : \A j \in P : j <= g
      BY <1>3, <2>1, Greatest
    <2>3. \E x \in P : \A y \in P : x >= y
      <3>1. \A y \in P : y \in Nat /\ g \in Nat
        BY <2>1
      <3> QED BY <2>2, <3>1
    <2>4. Max(P) \in P /\ \A y \in P : Max(P) >= y
      BY <2>3 DEF Max
    <2>5. \A y \in P : y \in Nat
      BY <2>1
    <2>6. \A y \in P : y \in Nat /\ Max(P) \in Nat /\ Max(P) >= y
      BY <2>4, <2>5
    <2> QED BY <2>4, <2>6
  <1>4. ASSUME frames[m] = l, l \in Candidates(frames) PROVE Majority(frames) = l
    <2>1. m \in P
      BY <1>2, <1>4
    <2>2. Max(P) \in P /\ m <= Max(P)
      BY <1>3, <2>1
    <2>3. Max(P) \in 1 .. m
      BY <1>2, <2>2
    <2>4. Max(P) = m
      BY <2>2, <2>3
    <2> QED BY <1>1, <1>4, <2>4
  <1>5. ASSUME Candidates(frames) = {l} PROVE Majority(frames) = l
    <2>1. PICK j \in 1 .. m : frames[j] = l
      <3>1. l \in Candidates(frames)
        BY <1>5
      <3>2. l \in ToSet(frames)
        BY <3>1 DEF Candidates
      <3> QED BY <3>2 DEF ToSet
    <2>2. j \in P
      BY <1>2, <1>5, <2>1
    <2>3. Max(P) \in P
      BY <1>3, <2>2
    <2>4. frames[Max(P)] = l
      BY <1>2, <1>5, <2>3
    <2> QED BY <1>1, <2>4
  <1> QED BY <1>4, <1>5

\* The reported light follows the light of the frames.
LEMMA SmoothingFollows ==
    ASSUME NEW L, NEW observed \in Seq(L), NEW window \in Nat \ {0}, NEW light
    PROVE  FollowsTheLight(observed, window, light)
  <1> SUFFICES ASSUME NEW n \in 1 .. Len(observed), SteadyFor(observed, n, light)
               PROVE  /\ 2 * n >= window => Smoothed(observed, window) = light
                      /\ \A other \in ToSet(observed) \ {light} :
                            (/\ 2 * n < window /\ n + window <= Len(observed)
                             /\ SteadyFor(SubSeq(observed, 1, Len(observed) - n),
                                          window, other))
                            => Smoothed(observed, window) = other
    BY DEF FollowsTheLight
  <1>1. PICK N \in Nat : N = Len(observed)
    OBVIOUS
  <1>2. n \in Nat /\ n >= 1 /\ n <= N
    BY <1>1
  <1>3. PICK m \in Nat : m = Held(N, window)
    BY <1>1 DEF Held
  <1>4. m > 0 /\ m <= N /\ m <= window /\ (window <= N => m = window)
    BY <1>2, <1>3 DEF Held
  <1>5. PICK frames : frames = LastFrames(observed, N, window)
    OBVIOUS
  <1>6. DOMAIN frames = 1 .. m /\ \A j \in 1 .. m : frames[j] = observed[N - m + j]
    BY <1>3, <1>5 DEF LastFrames
  <1>7. Smoothed(observed, window) = Majority(frames)
    <2>1. HistoryOf(observed, window).frames = frames
      BY <1>1, <1>2, <1>5, HistoryIsTheEnd
    <2> QED BY <2>1 DEF Smoothed
  <1>8. \A j \in 1 .. m : j > m - n => frames[j] = light
    <2> SUFFICES ASSUME NEW j \in 1 .. m, j > m - n PROVE frames[j] = light
      OBVIOUS
    <2>1. N - m + j \in N - n + 1 .. N
      BY <1>2, <1>4
    <2>2. observed[N - m + j] = light
      BY <1>1, <2>1 DEF SteadyFor
    <2> QED BY <1>6, <2>2
  <1>9. ToSet(frames) = {frames[j] : j \in 1 .. m}
    BY <1>6 DEF ToSet
  <1>10. ASSUME 2 * n >= window PROVE Smoothed(observed, window) = light
    <2>1. PICK a \in Nat : a = IF n < m THEN m - n ELSE 0
      <3>1. n < m => m - n \in Nat
        BY <1>2
      <3> QED BY <3>1
    <2>2. a <= m /\ m - a >= a /\ \A j \in 1 .. m : j > a => j > m - n
      BY <1>2, <1>4, <1>10, <2>1
    <2>3. Count(frames, light) >= m - a /\ Count(frames, light) \in Nat
      <3>1. ShownIn(frames, light, a, m)
        <4> SUFFICES ASSUME NEW j \in a + 1 .. m PROVE frames[j] = light
          BY DEF ShownIn
        <4>1. j \in 1 .. m /\ j > a
          OBVIOUS
        <4> QED BY <1>8, <2>2, <4>1
      <3> QED BY <1>6, <2>2, <3>1, CountAtLeast
    <2>4. ASSUME NEW l \in ToSet(frames) PROVE Count(frames, light) >= Count(frames, l)
      <3>1. CASE l = light
        BY <2>3, <3>1
      <3>2. CASE l # light
        <4>1. ShownOnlyIn(frames, l, 0, a)
          <5> SUFFICES ASSUME NEW j \in 1 .. m, frames[j] = l PROVE j \in 0 + 1 .. a
            BY <1>6 DEF ShownOnlyIn
          <5>1. ~(j > a)
            BY <1>8, <2>2, <3>2
          <5> QED BY <5>1
        <4>2. Count(frames, l) <= a - 0 /\ Count(frames, l) \in Nat
          BY <1>6, <4>1, CountAtMost
        <4> QED BY <2>2, <2>3, <4>2
      <3> QED BY <3>1, <3>2
    <2>5. frames[m] = light /\ light \in ToSet(frames)
      <3>1. m \in 1 .. m /\ m > m - n
        BY <1>2, <1>4
      <3> QED BY <1>8, <1>9, <3>1
    <2>6. light \in Candidates(frames)
      BY <2>4, <2>5 DEF Candidates
    <2> QED BY <1>4, <1>6, <1>7, <2>5, <2>6, MajorityIs
  <1>11. ASSUME NEW other \in ToSet(observed) \ {light},
                2 * n < window, n + window <= N,
                SteadyFor(SubSeq(observed, 1, N - n), window, other)
         PROVE  Smoothed(observed, window) = other
    <2>1. m = window /\ n < m /\ m - n \in Nat /\ m - n > n
      BY <1>2, <1>4, <1>11
    <2>2. \A j \in 1 .. m : j <= m - n => frames[j] = other
      <3> SUFFICES ASSUME NEW j \in 1 .. m, j <= m - n PROVE frames[j] = other
        OBVIOUS
      <3> DEFINE s == SubSeq(observed, 1, N - n)
                 i == N - m + j
      <3>1. i \in 1 .. N - n /\ N - n \in Nat /\ N - n <= N
        BY <1>2, <1>4
      <3>2. Len(s) = N - n /\ s[i] = observed[i]
        BY <1>1, <3>1
      <3>3. i \in Len(s) - window + 1 .. Len(s)
        <4> HIDE DEF s
        <4> QED BY <1>2, <1>4, <2>1, <3>2
      <3>4. s[i] = other
        <4> HIDE DEF i
        <4> QED BY <1>11, <3>3 DEF SteadyFor
      <3> QED BY <1>6, <3>2, <3>4
    <2>3. Count(frames, other) >= m - n /\ Count(frames, other) \in Nat
      <3>1. ShownIn(frames, other, 0, m - n)
        <4> SUFFICES ASSUME NEW j \in 0 + 1 .. m - n PROVE frames[j] = other
          BY DEF ShownIn
        <4>1. j \in 1 .. m /\ j <= m - n
          BY <2>1
        <4> QED BY <2>2, <4>1
      <3>2. m - n \in Nat /\ m - n <= m
        BY <1>2, <2>1
      <3>3. Count(frames, other) \in Nat /\ Count(frames, other) >= (m - n) - 0
        BY <1>6, <3>1, <3>2, CountAtLeast
      <3> QED BY <3>2, <3>3
    <2>4. ASSUME NEW l, l # other PROVE Count(frames, l) <= n /\ Count(frames, l) \in Nat
      <3>1. PICK a \in Nat : a = m - n
        BY <2>1
      <3>2. ShownOnlyIn(frames, l, a, m)
        <4> SUFFICES ASSUME NEW j \in 1 .. m, frames[j] = l PROVE j \in a + 1 .. m
          BY <1>6 DEF ShownOnlyIn
        <4>1. ~(j <= m - n)
          BY <2>2, <2>4
        <4> QED BY <3>1, <4>1
      <3>3. a <= m /\ m - a = n
        BY <1>2, <3>1
      <3>4. Count(frames, l) \in Nat /\ Count(frames, l) <= m - a
        BY <1>6, <3>2, <3>3, CountAtMost
      <3> QED BY <3>3, <3>4
    <2>5. other \in ToSet(frames)
      <3>1. 1 \in 1 .. m /\ 1 <= m - n
        BY <1>4, <2>1
      <3> QED BY <1>9, <2>2, <3>1
    <2>6. Candidates(frames) = {other}
      <3>1. \A l \in Candidates(frames) : l = other
        <4> SUFFICES ASSUME NEW l \in Candidates(frames), l # other PROVE FALSE
          OBVIOUS
        <4>1. Count(frames, l) >= Count(frames, other)
          BY <2>5 DEF Candidates
        <4>2. Count(frames, l) <= n /\ Count(frames, l) \in Nat
          BY <2>4
        <4> QED BY <1>2, <2>1, <2>3, <4>1, <4>2
      <3>2. other \in Candidates(frames)
        <4> SUFFICES ASSUME NEW l \in ToSet(frames), l # other
                     PROVE  Count(frames, other) >= Count(frames, l)
          BY <2>3, <2>5 DEF Candidates
        <4>1. Count(frames, l) <= n /\ Count(frames, l) \in Nat
          BY <2>4
        <4> QED BY <1>2, <2>1, <2>3, <4>1
      <3> QED BY <3>1, <3>2
    <2> QED BY <1>4, <1>6, <1>7, <2>6, MajorityIs
  <1> QED BY <1>1, <1>10, <1>11

\* The smoothing follows every light, for any window and any frames seen before.
THEOREM EveryLightIsFollowed == \A light \in Lights : Follows[light]
  <1> SUFFICES ASSUME NEW light \in Lights, NEW window \in Windows,
                      NEW n \in 1 .. MaxObserved, NEW observed \in [1 .. n -> Lights]
               PROVE  FollowsTheLight(observed, window, light)
    BY DEF Follows
  <1>1. window \in Nat \ {0} /\ n \in Nat
    BY PolicyAssumption
  <1>2. observed \in Seq(Lights)
    BY <1>1
  <1> QED BY <1>1, <1>2, SmoothingFollows
=============================================================================
