------------------------- MODULE VehicleGateProofs -------------------------
(***************************************************************************)
(* Proofs about VehicleGate, for any lines, zone, hysteresis, limits and   *)
(* frames.                                                                 *)
(*                                                                         *)
(* The gate counts a track id at most once in each direction, provided it  *)
(* does not forget the id before the tracker does.                         *)
(*                                                                         *)
(* The other results relate the state of a track to the observations it    *)
(* was made from (History): the side of each line is the one the last      *)
(* passing observation left the vehicle on, and an attempt under way was   *)
(* armed by a remembered observation, with nothing after it that would     *)
(* have ended it.  So what completes is a whole schedule, on any road.     *)
(* That no schedule is missed needs the converse (Reach), which holds on a *)
(* road of the right shape (Geometry): a vehicle between the lines is on   *)
(* the near side of both, and the attempt its arming observation began is  *)
(* still open.                                                             *)
(***************************************************************************)
EXTENDS VehicleGate, TLAPS

\* A TrackGateState.
Track == [phase : Attempts \cup {"idle"}, armedAt : Int, armedSequence : Int,
          transitionSeen : BOOLEAN, countedDirections : SUBSET Directions,
          lastSeen : Int, side1 : Int, side2 : Int]

\* Time never goes back, the tracker's last report is not in the future, and a
\* vehicle in the last frame was reported then and has a state.
Clock ==
    /\ now \in Nat /\ heard \in Nat /\ heard <= now /\ sequence \in Nat
    /\ sequence > 0 => now > 0
    /\ at # None => at \in Positions /\ track # None /\ heard = now

\* The totals are what the state says was counted.  Without a state, nothing was
\* counted yet, or the id has been gone for too long to be given out again.
Totals ==
    /\ total \in [Directions -> {0, 1}]
    /\ track # None =>
          /\ track \in Track
          /\ heard > 0 /\ track.lastSeen = heard
          /\ \A d \in Directions : total[d] = 1 <=> d \in track.countedDirections
    /\ track = None =>
          \/ heard = 0 /\ \A d \in Directions : total[d] = 0
          \/ heard > 0 /\ now - heard > LostBuffer

Inv == Clock /\ Totals
-----------------------------------------------------------------------------
(* What an update does to the state of a track.                            *)

\* The fields an observation has.
LEMMA ObservationIs ==
    ASSUME NEW s, NEW p, NEW time \in Int, NEW seq \in Int, NEW hit1, NEW hit2
    PROVE  LET o == Observe(s, p, time, seq, hit1, hit2)
           IN  o.pos = p /\ o.time = time /\ o.seq = seq /\ o.inside \in BOOLEAN
  BY DEF Observe

\* Giving up an attempt keeps what the track has counted, and when it was seen.
LEMMA ResetKeeps ==
    ASSUME NEW s \in Track
    PROVE  /\ ResetPhase(s) \in Track
           /\ ResetPhase(s).lastSeen = s.lastSeen
           /\ ResetPhase(s).countedDirections = s.countedDirections
  <1>1. "idle" \in Attempts \cup {"idle"} /\ 0 \in Int /\ -1 \in Int
        /\ FALSE \in BOOLEAN
    OBVIOUS
  <1>2. \A p \in Attempts \cup {"idle"}, t \in Int, q \in Int, v \in BOOLEAN :
          LET r == [s EXCEPT !.phase = p, !.armedAt = t, !.armedSequence = q,
                             !.transitionSeen = v]
          IN  /\ r \in Track /\ r.lastSeen = s.lastSeen
              /\ r.countedDirections = s.countedDirections
    BY DEF Track
  <1> QED BY <1>1, <1>2 DEF ResetPhase

\* Refreshing a state, with or without the timeout of its attempt, keeps what it
\* has counted.
LEMMA RefreshKeeps ==
    ASSUME NEW s \in Track, NEW o, o.time \in Int
    PROVE  /\ Refresh(s, o) \in Track
           /\ Refresh(s, o).lastSeen = o.time
           /\ Refresh(s, o).countedDirections = s.countedDirections
  <1> DEFINE r == [s EXCEPT !.lastSeen = o.time,
                            !.side1 = Side(Line1, @, o.pos),
                            !.side2 = Side(Line2, @, o.pos)]
  <1>1. Side(Line1, s.side1, o.pos) \in Int /\ Side(Line2, s.side2, o.pos) \in Int
    BY DEF Side, Track
  <1>2. /\ r \in Track /\ r.lastSeen = o.time
        /\ r.countedDirections = s.countedDirections
    BY <1>1 DEF Track
  <1>3. /\ ResetPhase(r) \in Track /\ ResetPhase(r).lastSeen = r.lastSeen
        /\ ResetPhase(r).countedDirections = r.countedDirections
    BY <1>2, ResetKeeps
  <1> QED BY <1>2, <1>3 DEF Refresh

\* Advancing a state adds the direction of an attempt it completes, one that has
\* not counted yet, and nothing else.
LEMMA AdvanceKeeps ==
    ASSUME NEW s \in Track, NEW o, o.time \in Int, o.seq \in Int, o.inside \in BOOLEAN
    PROVE  /\ Advance(s, o) \in Track
           /\ Advance(s, o).lastSeen = s.lastSeen
           /\ Completes(s, o) =>
                 /\ DirectionOf(s.phase) \in Directions \ s.countedDirections
                 /\ Advance(s, o).countedDirections =
                       s.countedDirections \cup {DirectionOf(s.phase)}
           /\ ~Completes(s, o) =>
                 Advance(s, o).countedDirections = s.countedDirections
  <1> DEFINE Same(r) == /\ r \in Track /\ r.lastSeen = s.lastSeen
                        /\ r.countedDirections = s.countedDirections
             q == [s EXCEPT !.countedDirections = @ \cup {DirectionOf(s.phase)}]
  <1>1. DirectionOf(s.phase) \in Directions
    BY DEF DirectionOf, Directions
  <1>2. Same(Arm(s, o))
    <2> DEFINE armed == {d \in Attempts : Arms(d, o)}
               a == [s EXCEPT !.phase = CHOOSE d \in armed : TRUE,
                              !.armedAt = o.time, !.armedSequence = o.seq]
    <2>1. CASE armed = {}
      BY <2>1 DEF Arm
    <2>2. CASE armed # {}
      <3>1. (CHOOSE d \in armed : TRUE) \in Attempts
        BY <2>2
      <3>2. Same(a)
        BY <3>1 DEF Track
      <3> QED BY <2>2, <3>2 DEF Arm
    <2> QED BY <2>1, <2>2
  <1>3. Same(ResetPhase(s))
    BY ResetKeeps
  <1>4. Same(Seen(s, o))
    BY DEF Seen, Track
  <1>5. q \in Track /\ q.lastSeen = s.lastSeen
        /\ q.countedDirections = s.countedDirections \cup {DirectionOf(s.phase)}
    BY <1>1 DEF Track
  <1>6. /\ ResetPhase(q) \in Track /\ ResetPhase(q).lastSeen = q.lastSeen
        /\ ResetPhase(q).countedDirections = q.countedDirections
    BY <1>5, ResetKeeps
  <1>7. CASE Completes(s, o)
    <2>1. Advance(s, o) = ResetPhase(q)
      BY <1>7 DEF Advance, Completes
    <2> QED BY <1>7, <2>1, <1>1, <1>5, <1>6 DEF Completes
  <1>8. CASE ~Completes(s, o)
    <2>1. Advance(s, o) \in {Arm(s, o), ResetPhase(s), Seen(s, o)}
      BY <1>8 DEF Advance
    <2> QED BY <1>8, <2>1, <1>2, <1>3, <1>4
  <1> QED BY <1>7, <1>8
-----------------------------------------------------------------------------
(* Frames.                                                                 *)

\* A frame the vehicle is in.  An id without a state is one that never had one: the
\* tracker has forgotten every id that the gate has.
LEMMA UpdateStep ==
    ASSUME Inv, None \notin Track, LostBuffer \in Nat,
           NEW p \in Positions, NEW time \in Nat, NEW seq \in Nat,
           NEW hit1, NEW hit2,
           time >= now, time > 0, Alive(time),
           now' = time, sequence' = seq, at' = p, Update(p, time, seq, hit1, hit2)
    PROVE  Inv'
  <1> DEFINE old == IF track = None THEN NewTrack ELSE track
             o == Observe(old, p, time, seq, hit1, hit2)
             s == Refresh(old, o)
  <1>1. NewTrack \in Track /\ NewTrack.countedDirections = {}
    BY DEF NewTrack, Track
  <1>2. /\ old \in Track
        /\ \A d \in Directions : total[d] = 1 <=> d \in old.countedDirections
    <2>1. CASE track = None
      <3>1. \A d \in Directions : total[d] = 0
        BY <2>1 DEF Inv, Clock, Totals, Alive
      <3> QED BY <2>1, <3>1, <1>1
    <2>2. CASE track # None
      BY <2>2 DEF Inv, Totals
    <2> QED BY <2>1, <2>2
  <1>3. o.time = time /\ o.seq = seq /\ o.inside \in BOOLEAN
    BY ObservationIs
  <1> HIDE DEF o, old
  <1>4. /\ s \in Track /\ s.lastSeen = time
        /\ s.countedDirections = old.countedDirections
    BY <1>2, <1>3, RefreshKeeps
  <1>5. /\ track' = Advance(s, o) /\ heard' = time
        /\ total' = IF Completes(s, o)
                    THEN [total EXCEPT ![DirectionOf(s.phase)] = @ + 1] ELSE total
    BY DEF Update, o, old
  <1> HIDE DEF s
  <1>6. /\ track' \in Track /\ track'.lastSeen = time
        /\ Completes(s, o) =>
              /\ DirectionOf(s.phase) \in Directions \ s.countedDirections
              /\ track'.countedDirections =
                    s.countedDirections \cup {DirectionOf(s.phase)}
        /\ ~Completes(s, o) => track'.countedDirections = s.countedDirections
    BY <1>3, <1>4, <1>5, AdvanceKeeps
  <1>7. total \in [Directions -> {0, 1}]
    BY DEF Inv, Totals
  <1>8. /\ total' \in [Directions -> {0, 1}]
        /\ \A d \in Directions : total'[d] = 1 <=> d \in track'.countedDirections
    <2>1. CASE Completes(s, o)
      <3> DEFINE e == DirectionOf(s.phase)
      <3>1. e \in Directions /\ e \notin old.countedDirections /\ total[e] = 0
        BY <2>1, <1>2, <1>4, <1>6, <1>7
      <3>2. total' = [total EXCEPT ![e] = 1]
        BY <2>1, <1>5, <1>7, <3>1
      <3> HIDE DEF e
      <3>3. track'.countedDirections = old.countedDirections \cup {e}
        BY <2>1, <1>4, <1>6 DEF e
      <3> QED BY <1>2, <1>7, <3>1, <3>2, <3>3
    <2>2. CASE ~Completes(s, o)
      BY <2>2, <1>2, <1>4, <1>5, <1>6, <1>7
    <2> QED BY <2>1, <2>2
  <1>9. track' # None
    BY <1>6
  <1>10. Clock'
    BY <1>5, <1>9 DEF Clock
  <1>11. Totals'
    BY <1>5, <1>6, <1>8, <1>9 DEF Totals
  <1> QED BY <1>10, <1>11 DEF Inv

\* A frame the vehicle is not in.  A state that is removed was last seen when the
\* tracker last reported the vehicle, for too long to report it again.
LEMMA CleanupStep ==
    ASSUME Inv, Stale \in Nat, LostBuffer \in Nat, LostBuffer <= Stale,
           NEW time \in Nat, NEW seq \in Nat, time >= now, time > 0,
           now' = time, sequence' = seq, at' = None, Cleanup(time)
    PROVE  Inv'
  <1>1. total' = total /\ heard' = heard
    BY DEF Cleanup
  <1>2. Clock'
    BY <1>1 DEF Inv, Clock
  <1>3. CASE track' = track
    BY <1>1, <1>3 DEF Inv, Clock, Totals
  <1>4. CASE track # None /\ time - track.lastSeen > Stale /\ track' = None
    BY <1>1, <1>4 DEF Inv, Clock, Totals
  <1>5. track' = track \/ (track # None /\ time - track.lastSeen > Stale /\ track' = None)
    BY DEF Cleanup
  <1> QED BY <1>2, <1>3, <1>4, <1>5 DEF Inv

\* OncePerId, the intent of the test of the same wording: if the gate remembers a
\* lost vehicle at least as long as the tracker does, no id counts twice in a
\* direction, whatever the lines, the zone and the path.
THEOREM CountedOncePerId ==
    ASSUME LostBuffer \in Nat, Stale \in Nat, LostBuffer <= Stale, None \notin Track
    PROVE  Spec => []OncePerId
  <1>1. Init => Inv
    BY DEF Init, Inv, Clock, Totals, Directions
  <1>2. Inv /\ [Next]_vars => Inv'
    <2> SUFFICES ASSUME Inv, [Next]_vars
                 PROVE  Inv'
      OBVIOUS
    <2>1. ASSUME NewFrame
          PROVE  Inv'
      <3>1. PICK dt \in Steps, p \in Positions \cup {None}, hit1, hit2 \in BOOLEAN :
              /\ p # None => Alive(now + dt)
              /\ Process(p, now + dt, sequence + 1, hit1, hit2)
        BY <2>1 DEF NewFrame
      <3>2. /\ now + dt \in Nat /\ now + dt >= now /\ now + dt > 0
            /\ sequence + 1 \in Nat
        BY GateAssumption DEF Inv, Clock
      <3>3. CASE p = None
        BY <3>1, <3>2, <3>3, CleanupStep DEF Process
      <3>4. CASE p # None
        BY <3>1, <3>2, <3>4, UpdateStep DEF Process
      <3> QED BY <3>3, <3>4
    <2>2. ASSUME RepeatedFrame
          PROVE  Inv'
      <3>1. now \in Nat /\ now >= now /\ now > 0 /\ sequence \in Nat
        BY <2>2 DEF RepeatedFrame, Inv, Clock
      <3>2. CASE at = None
        BY <2>2, <3>1, <3>2, CleanupStep DEF RepeatedFrame, Process
      <3>3. CASE at # None
        <4>1. at \in Positions /\ Alive(now)
          BY <3>3 DEF Inv, Clock, Alive
        <4> QED BY <2>2, <3>1, <3>3, <4>1, UpdateStep DEF RepeatedFrame, Process
      <3> QED BY <3>2, <3>3
    <2>3. CASE UNCHANGED vars
      BY <2>3 DEF vars, Inv, Clock, Totals
    <2> QED BY <2>1, <2>2, <2>3 DEF Next
  <1>3. Inv => OncePerId
    BY DEF Inv, Totals, OncePerId
  <1> QED BY <1>1, <1>2, <1>3, PTL DEF Spec
-----------------------------------------------------------------------------
(* Observations, and the sides of the two lines.                           *)

Lines == {1, 2}
LineAt(l) == IF l = 1 THEN Line1 ELSE Line2
SideAt(l, s) == IF l = 1 THEN s.side1 ELSE s.side2
Cross(l, x) == IF l = 1 THEN x.cross1 ELSE x.cross2
Sign(l, p) == IF p > LineAt(l) THEN 1 ELSE -1
PassesLine(x) == x.cross1 \/ x.cross2 \/ x.missed
NoneMissed(tr) == \A x \in tr : ~x.missed

Observation == [pos : Int, time : Nat, seq : Nat, inside : BOOLEAN,
                cross1 : BOOLEAN, cross2 : BOOLEAN, missed : BOOLEAN]

SidesIn(s) == s.side1 \in -1 .. 1 /\ s.side2 \in -1 .. 1

\* What an observation o of a track in state s records, and how it changes the sides.
Observed(s, o, t) ==
    /\ o \in Observation
    /\ o.inside => o.pos \in Zone
    /\ \A l \in Lines :
          /\ SideAt(l, t) = Side(LineAt(l), SideAt(l, s), o.pos)
          /\ Cross(l, o) => Passes(LineAt(l), SideAt(l, s), o.pos)
          /\ Passes(LineAt(l), SideAt(l, s), o.pos) => Cross(l, o) \/ o.missed

\* The memory after observation o: those that are forgotten are old, and passed no line.
Grows(tr, o, new) ==
    /\ o \in new /\ new \subseteq tr \cup {o}
    /\ \A x \in tr :
          PassesLine(x) \/ o.time - x.time <= MaxTransition => x \in new
    /\ \A x \in tr : x.seq < o.seq /\ x.time <= o.time

\* Which side a vehicle is on after an observation at p.
LEMMA SideIs ==
    ASSUME NEW line \in Int, NEW old \in -1 .. 1, NEW p \in Int
    PROVE  /\ Side(line, old, p) \in -1 .. 1
           /\ p - line > Hysteresis => Side(line, old, p) = 1
           /\ line - p > Hysteresis => Side(line, old, p) = -1
           /\ ~(p - line > Hysteresis) /\ ~(line - p > Hysteresis)
                 => Side(line, old, p) = old
           /\ Side(line, Side(line, old, p), p) = Side(line, old, p)
  BY GateAssumption DEF Side, Near

\* A line is passed by moving beyond its hysteresis, to the other side.
LEMMA PassesIs ==
    ASSUME NEW line \in Int, NEW old \in -1 .. 1, NEW p \in Int,
           Passes(line, old, p)
    PROVE  /\ old = 1 => line - p > Hysteresis
           /\ old = -1 => p - line > Hysteresis
           /\ old # 0 /\ ~Near(line, p)
           /\ Side(line, old, p) = IF p > line THEN 1 ELSE -1
  BY GateAssumption DEF Passes, Side, Near

LEMMA LineType ==
    /\ \A l \in Lines : LineAt(l) \in Int
    /\ \A s : SidesIn(s) => \A l \in Lines : SideAt(l, s) \in -1 .. 1
  BY GateAssumption DEF Lines, LineAt, SidesIn, SideAt
-----------------------------------------------------------------------------
(* Jitter.                                                                 *)

\* A line that was crossed beyond its hysteresis, with no line passed since, has the
\* vehicle on the side it crossed to.
SidesKnown(s, tr) ==
    \A l \in Lines, x \in tr :
        Cross(l, x) =>
            /\ ~Near(LineAt(l), x.pos)
            /\ (\A y \in tr : y.seq > x.seq => ~PassesLine(y))
                  => SideAt(l, s) = Sign(l, x.pos)

\* JitterIsNoCrossing, line by line.
NoJitter(tr) ==
    \A l \in Lines, x, y \in tr :
        /\ x.seq < y.seq /\ Cross(l, x) /\ Cross(l, y)
        /\ \A k \in tr : x.seq < k.seq /\ k.seq < y.seq => ~PassesLine(k)
        => x.pos - y.pos \notin -2 * Hysteresis .. 2 * Hysteresis

\* No observation that passed a line is forgotten.
LEMMA NoPassIsForgotten ==
    ASSUME NEW tr, NEW o, NEW new, Grows(tr, o, new), tr \subseteq Observation,
           NEW x \in tr, \A y \in new : y.seq > x.seq => ~PassesLine(y)
    PROVE  /\ \A y \in tr : y.seq > x.seq => ~PassesLine(y)
           /\ ~PassesLine(o)
  <1>1. o \in new /\ x.seq < o.seq /\ x.seq \in Nat
        /\ \A y \in tr : PassesLine(y) => y \in new
    BY DEF Grows, Observation
  <1>2. o.seq > x.seq => ~PassesLine(o)
    BY <1>1
  <1>3. \A y \in tr : y.seq > x.seq => ~PassesLine(y)
    BY <1>1
  <1> QED BY <1>1, <1>2, <1>3 DEF Grows

LEMMA SidesStayKnown ==
    ASSUME NEW s, NEW o, NEW t, NEW tr, NEW new, Observed(s, o, t), SidesIn(s),
           Grows(tr, o, new), tr \subseteq Observation, SidesKnown(s, tr)
    PROVE  SidesKnown(t, new)
  <1> SUFFICES ASSUME NEW l \in Lines, NEW x \in new, Cross(l, x)
               PROVE  /\ ~Near(LineAt(l), x.pos)
                      /\ (\A y \in new : y.seq > x.seq => ~PassesLine(y))
                            => SideAt(l, t) = Sign(l, x.pos)
    BY DEF SidesKnown
  <1>1. LineAt(l) \in Int /\ SideAt(l, s) \in -1 .. 1 /\ o.pos \in Int
    BY LineType DEF Observed, Observation
  <1>2. SideAt(l, t) = Side(LineAt(l), SideAt(l, s), o.pos)
    BY DEF Observed
  <1>3. CASE x = o
    <2>1. Passes(LineAt(l), SideAt(l, s), o.pos)
      BY <1>3 DEF Observed
    <2> QED BY <1>1, <1>2, <1>3, <2>1, PassesIs DEF Sign
  <1>4. CASE x \in tr
    <2>1. ~Near(LineAt(l), x.pos)
      BY <1>4 DEF SidesKnown
    <2>2. ASSUME \A y \in new : y.seq > x.seq => ~PassesLine(y)
          PROVE  SideAt(l, t) = Sign(l, x.pos)
      <3>1. /\ \A y \in tr : y.seq > x.seq => ~PassesLine(y)
            /\ ~PassesLine(o)
        BY <1>4, <2>2, NoPassIsForgotten
      <3>2. SideAt(l, s) = Sign(l, x.pos)
        BY <1>4, <3>1 DEF SidesKnown
      <3>3. ~Passes(LineAt(l), SideAt(l, s), o.pos)
        BY <3>1 DEF Observed, PassesLine, Cross, Lines
      <3>4. SideAt(l, s) # 0
        BY <3>2 DEF Sign
      <3> QED BY <1>2, <3>2, <3>3, <3>4 DEF Passes
    <2> QED BY <2>1, <2>2
  <1> QED BY <1>3, <1>4 DEF Grows

LEMMA NoJitterKept ==
    ASSUME NEW s, NEW o, NEW t, NEW tr, NEW new, Observed(s, o, t), SidesIn(s),
           Grows(tr, o, new), tr \subseteq Observation, SidesKnown(s, tr),
           NoJitter(tr)
    PROVE  NoJitter(new)
  <1> SUFFICES ASSUME NEW l \in Lines, NEW x \in new, NEW y \in new,
                      x.seq < y.seq, Cross(l, x), Cross(l, y),
                      \A k \in new : x.seq < k.seq /\ k.seq < y.seq => ~PassesLine(k)
               PROVE  x.pos - y.pos \notin -2 * Hysteresis .. 2 * Hysteresis
    BY DEF NoJitter
  <1>1. /\ x \in tr \cup {o} /\ y \in tr \cup {o}
        /\ \A k \in tr : k.seq < o.seq /\ (PassesLine(k) => k \in new)
        /\ o.seq \in Nat /\ \A k \in tr : k.seq \in Nat /\ k.pos \in Int
    BY DEF Grows, Observed, Observation
  <1>2. \A k \in tr : x.seq < k.seq /\ k.seq < y.seq => ~PassesLine(k)
    BY <1>1
  <1>3. CASE y \in tr
    <2>1. x \in tr
      BY <1>1, <1>3
    <2> QED BY <1>2, <1>3, <2>1 DEF NoJitter
  <1>4. CASE y = o /\ x \in tr
    <2>1. \A k \in tr : k.seq > x.seq => ~PassesLine(k)
      BY <1>1, <1>2, <1>4
    <2>2. SideAt(l, s) = Sign(l, x.pos) /\ ~Near(LineAt(l), x.pos)
      BY <1>4, <2>1 DEF SidesKnown
    <2>3. LineAt(l) \in Int /\ SideAt(l, s) \in -1 .. 1 /\ o.pos \in Int /\ x.pos \in Int
      BY <1>1, <1>4, LineType DEF Observed, Observation
    <2>4. Passes(LineAt(l), SideAt(l, s), o.pos)
      BY <1>4 DEF Observed
    <2>5. /\ SideAt(l, s) = 1 => LineAt(l) - o.pos > Hysteresis
          /\ SideAt(l, s) = -1 => o.pos - LineAt(l) > Hysteresis
      BY <2>3, <2>4, PassesIs
    <2> QED BY <1>4, <2>2, <2>3, <2>5, GateAssumption DEF Sign, Near
  <1> QED BY <1>1, <1>3, <1>4
-----------------------------------------------------------------------------
(* What one observation does to an attempt.                                *)

\* Both directions of travel start at the line where the other one ends.
LEMMA Directed ==
    ASSUME NEW d \in Attempts, NEW e \in Attempts, NEW o
    PROVE  /\ d # e => First(d, o) = Second(e, o) /\ Second(d, o) = First(e, o)
           /\ Arms(d, o) /\ Arms(e, o) => d = e
           /\ First(d, o) => PassesLine(o)
           /\ Second(d, o) => PassesLine(o)
  BY DEF Attempts, First, Second, Arms, PassesLine

\* An attempt that has lasted too long is given up before the observation is used.
Refreshed(s, o, r) ==
    /\ r \in Track
    /\ r.lastSeen = o.time /\ r.countedDirections = s.countedDirections
    /\ \A l \in Lines : SideAt(l, r) = Side(LineAt(l), SideAt(l, s), o.pos)
    /\ IF s.phase # "idle" /\ o.time - s.armedAt > MaxTransition
       THEN r.phase = "idle" /\ ~r.transitionSeen
       ELSE /\ r.phase = s.phase /\ r.armedAt = s.armedAt
            /\ r.armedSequence = s.armedSequence
            /\ r.transitionSeen = s.transitionSeen

LEMMA RefreshIs ==
    ASSUME NEW s \in Track, NEW o, o.time \in Int
    PROVE  Refreshed(s, o, Refresh(s, o))
  <1> DEFINE r == [s EXCEPT !.lastSeen = o.time,
                            !.side1 = Side(Line1, @, o.pos),
                            !.side2 = Side(Line2, @, o.pos)]
  <1>1. Side(Line1, s.side1, o.pos) \in Int /\ Side(Line2, s.side2, o.pos) \in Int
    BY DEF Side, Track
  <1>2. /\ r \in Track /\ r.phase = s.phase /\ r.armedAt = s.armedAt
        /\ r.armedSequence = s.armedSequence /\ r.transitionSeen = s.transitionSeen
        /\ r.side1 = Side(Line1, s.side1, o.pos)
        /\ r.side2 = Side(Line2, s.side2, o.pos)
    BY <1>1 DEF Track
  <1>3. /\ Refresh(s, o) \in Track /\ Refresh(s, o).lastSeen = o.time
        /\ Refresh(s, o).countedDirections = s.countedDirections
    BY RefreshKeeps
  <1> HIDE DEF r
  <1>4. Refresh(s, o) = IF TimedOut(r, o) THEN ResetPhase(r) ELSE r
    BY DEF Refresh, r
  <1>5. TimedOut(r, o) <=> s.phase # "idle" /\ o.time - s.armedAt > MaxTransition
    BY <1>2 DEF TimedOut
  <1>6. /\ ResetPhase(r).phase = "idle" /\ ~ResetPhase(r).transitionSeen
        /\ ResetPhase(r).side1 = r.side1 /\ ResetPhase(r).side2 = r.side2
    BY <1>2 DEF ResetPhase, Track
  <1>7. /\ Refresh(s, o).side1 = Side(Line1, s.side1, o.pos)
        /\ Refresh(s, o).side2 = Side(Line2, s.side2, o.pos)
    BY <1>2, <1>4, <1>6
  <1>8. \A l \in Lines :
           SideAt(l, Refresh(s, o)) = Side(LineAt(l), SideAt(l, s), o.pos)
    BY <1>7 DEF SideAt, LineAt, Lines
  <1> QED BY <1>2, <1>3, <1>4, <1>5, <1>6, <1>8 DEF Refreshed

\* What _stable_crossing and the phases make of an observation.
Advanced(s, o, t) ==
    /\ t \in Track
    /\ t.lastSeen = s.lastSeen /\ t.side1 = s.side1 /\ t.side2 = s.side2
    /\ s.phase = "idle" =>
          /\ \A d \in Attempts : Arms(d, o) =>
                t.phase = d /\ t.armedAt = o.time /\ t.armedSequence = o.seq
          /\ (\A d \in Attempts : ~Arms(d, o)) => t.phase = "idle"
          /\ t.transitionSeen = s.transitionSeen
    /\ s.phase # "idle" =>
          IF TurnsBack(s.phase, o) \/ Second(s.phase, o)
          THEN t.phase = "idle" /\ ~t.transitionSeen
          ELSE /\ t.phase = s.phase /\ t.armedAt = s.armedAt
               /\ t.armedSequence = s.armedSequence
               /\ t.transitionSeen
                     <=> s.transitionSeen \/ (o.seq > s.armedSequence /\ o.inside)

LEMMA AdvanceIs ==
    ASSUME NEW s \in Track, NEW o \in Observation
    PROVE  Advanced(s, o, Advance(s, o))
  <1> DEFINE t == Advance(s, o)
             q == [s EXCEPT !.countedDirections = @ \cup {DirectionOf(s.phase)}]
  <1>1. o.time \in Int /\ o.seq \in Int /\ o.inside \in BOOLEAN
    BY DEF Observation
  <1>2. t \in Track /\ t.lastSeen = s.lastSeen
    BY <1>1, AdvanceKeeps
  <1>3. DirectionOf(s.phase) \in Directions
    BY DEF DirectionOf, Directions
  <1>4. \A r \in Track : /\ ResetPhase(r).phase = "idle"
                         /\ ~ResetPhase(r).transitionSeen
                         /\ ResetPhase(r).side1 = r.side1
                         /\ ResetPhase(r).side2 = r.side2
    BY DEF ResetPhase, Track
  <1>5. CASE s.phase = "idle"
    <2> DEFINE armed == {d \in Attempts : Arms(d, o)}
               a == [s EXCEPT !.phase = CHOOSE d \in armed : TRUE,
                              !.armedAt = o.time, !.armedSequence = o.seq]
    <2>1. t = IF armed = {} THEN s ELSE a
      BY <1>5 DEF Advance, Arm
    <2>2. CASE armed = {}
      BY <1>2, <1>5, <2>1, <2>2 DEF Advanced
    <2>3. CASE armed # {}
      <3>1. \A d \in Attempts : Arms(d, o) => (CHOOSE e \in armed : TRUE) = d
        BY <2>3, Directed
      <3>2. /\ a.armedAt = o.time /\ a.armedSequence = o.seq
            /\ a.phase = (CHOOSE e \in armed : TRUE)
            /\ a.side1 = s.side1 /\ a.side2 = s.side2
            /\ a.transitionSeen = s.transitionSeen
        BY DEF Track
      <3>3. ~ \A d \in Attempts : ~Arms(d, o)
        BY <2>3
      <3> HIDE DEF armed, a
      <3>4. t = a
        BY <2>1, <2>3
      <3>5. /\ t.armedAt = o.time /\ t.armedSequence = o.seq
            /\ \A d \in Attempts : Arms(d, o) => t.phase = d
            /\ t.side1 = s.side1 /\ t.side2 = s.side2
            /\ t.transitionSeen = s.transitionSeen
        BY <3>1, <3>2, <3>4
      <3> HIDE DEF t
      <3>6. Advanced(s, o, t)
        BY <1>2, <1>5, <3>3, <3>5 DEF Advanced
      <3> QED BY <3>6 DEF t
    <2> QED BY <2>2, <2>3
  <1>6. CASE s.phase # "idle" /\ (TurnsBack(s.phase, o) \/ Second(s.phase, o))
    <2>1. q \in Track /\ q.side1 = s.side1 /\ q.side2 = s.side2
      BY <1>3 DEF Track
    <2>2. t = ResetPhase(s) \/ t = ResetPhase(q)
      BY <1>6 DEF Advance
    <2> HIDE DEF t, q
    <2>3. t.phase = "idle" /\ ~t.transitionSeen /\ t.side1 = s.side1
          /\ t.side2 = s.side2
      BY <1>4, <2>1, <2>2
    <2> QED BY <1>2, <1>6, <2>3 DEF Advanced, t
  <1>7. CASE s.phase # "idle" /\ ~TurnsBack(s.phase, o) /\ ~Second(s.phase, o)
    <2>1. t = Seen(s, o)
      BY <1>7 DEF Advance
    <2>2. /\ Seen(s, o).phase = s.phase /\ Seen(s, o).armedAt = s.armedAt
          /\ Seen(s, o).armedSequence = s.armedSequence
          /\ Seen(s, o).side1 = s.side1 /\ Seen(s, o).side2 = s.side2
          /\ Seen(s, o).transitionSeen
                <=> s.transitionSeen \/ (o.seq > s.armedSequence /\ o.inside)
      BY DEF Seen, Track
    <2>3. /\ t.phase = s.phase /\ t.armedAt = s.armedAt
          /\ t.armedSequence = s.armedSequence
          /\ t.side1 = s.side1 /\ t.side2 = s.side2
          /\ t.transitionSeen
                <=> s.transitionSeen \/ (o.seq > s.armedSequence /\ o.inside)
      BY <2>1, <2>2
    <2> HIDE DEF t
    <2>4. Advanced(s, o, t)
      BY <1>2, <1>7, <2>3 DEF Advanced
    <2> QED BY <2>4 DEF t
  <1> QED BY <1>5, <1>6, <1>7
-----------------------------------------------------------------------------
(* Schedules.                                                              *)

\* Observation a has armed an attempt that nothing has ended since.
ArmedBy(a, phase, tr) ==
    /\ Arms(phase, a)
    /\ \A x \in tr : x.seq > a.seq => ~TurnsBack(phase, x) /\ ~Second(phase, x)

SeenAfter(a, tr) == \E k \in tr : k.seq > a.seq /\ k.inside

\* Time does not go back between observations.
Chronological(tr) == \A x, y \in tr : x.seq <= y.seq => x.time <= y.time

\* Every attempt was armed by an observation, in time, and is where the observations
\* since have brought it.
AttemptOf(s, tr) ==
    /\ s.phase = "idle" => ~s.transitionSeen
    /\ s.phase # "idle" =>
          /\ s.lastSeen - s.armedAt <= MaxTransition
          /\ \E a \in tr :
                /\ ArmedBy(a, s.phase, tr)
                /\ a.seq = s.armedSequence /\ a.time = s.armedAt
                /\ s.transitionSeen => SeenAfter(a, tr)

\* Conversely, if no line was passed beside its end, the observations of an attempt
\* that is in time have armed it.
OpenOf(s, tr) ==
    NoneMissed(tr) =>
        \A phase \in Attempts, a \in tr :
            ArmedBy(a, phase, tr) /\ s.lastSeen - a.time <= MaxTransition =>
                /\ s.phase = phase
                /\ s.armedSequence = a.seq /\ s.armedAt = a.time
                /\ SeenAfter(a, tr) => s.transitionSeen

\* The vehicle of an attempt is between the lines; beyond the second line it is also
\* beyond the first, and before the first also before the second.
BetweenOf(s, tr) ==
    /\ SidesIn(s)
    /\ s.side2 = 1 => s.side1 = 1
    /\ s.side1 = -1 => s.side2 = -1
    /\ NoneMissed(tr) /\ s.phase # "idle" => s.side1 = 1 /\ s.side2 = -1

\* The road: line 2 lies behind line 1, and the transition zone between them.
Geometry ==
    /\ Line1 < Line2
    /\ \A p \in Zone : p >= Line1 - Hysteresis /\ p <= Line2 + Hysteresis

\* One observation of a track in state s: refreshed to r, advanced to t.
Updated(s, o, r, t, tr, new) ==
    /\ s \in Track /\ o \in Observation /\ tr \subseteq Observation
    /\ Observed(s, o, r) /\ Refreshed(s, o, r) /\ Advanced(r, o, t)
    /\ Grows(tr, o, new)

\* What is known of an attempt before and after a new observation is the same.
LEMMA SameAttempt ==
    ASSUME NEW s, NEW o, NEW r, NEW t, NEW tr, NEW new, Updated(s, o, r, t, tr, new),
           NEW phase \in Attempts, NEW a \in tr
    PROVE  /\ Arms(phase, a) => a \in new
           /\ a.seq < o.seq /\ a.time <= o.time
           /\ ArmedBy(a, phase, new)
                <=> /\ ArmedBy(a, phase, tr)
                    /\ ~TurnsBack(phase, o) /\ ~Second(phase, o)
  <1>1. /\ a.seq < o.seq /\ a.time <= o.time /\ o \in new /\ new \subseteq tr \cup {o}
        /\ \A x \in tr : PassesLine(x) => x \in new
    BY DEF Updated, Grows
  <1>2. \A x : TurnsBack(phase, x) \/ Second(phase, x) \/ Arms(phase, x) => PassesLine(x)
    BY Directed DEF TurnsBack, Arms
  <1>3. ArmedBy(a, phase, new) =>
           ArmedBy(a, phase, tr) /\ ~TurnsBack(phase, o) /\ ~Second(phase, o)
    <2> SUFFICES ASSUME ArmedBy(a, phase, new)
                 PROVE  ArmedBy(a, phase, tr) /\ ~TurnsBack(phase, o) /\ ~Second(phase, o)
      OBVIOUS
    <2>1. \A x \in new : x.seq > a.seq => ~TurnsBack(phase, x) /\ ~Second(phase, x)
      BY DEF ArmedBy
    <2>2. o.seq > a.seq
      BY <1>1 DEF Updated, Observation
    <2> QED BY <1>1, <1>2, <2>1, <2>2 DEF ArmedBy
  <1>4. ArmedBy(a, phase, tr) /\ ~TurnsBack(phase, o) /\ ~Second(phase, o)
           => ArmedBy(a, phase, new)
    BY <1>1 DEF ArmedBy
  <1> QED BY <1>1, <1>2, <1>3, <1>4

LEMMA AttemptKept ==
    ASSUME NEW s, NEW o, NEW r, NEW t, NEW tr, NEW new, Updated(s, o, r, t, tr, new),
           Chronological(tr), AttemptOf(s, tr)
    PROVE  AttemptOf(t, new)
  <1>1. /\ s \in Track /\ r \in Track /\ t \in Track /\ o \in Observation
        /\ tr \subseteq Observation /\ r.lastSeen = o.time /\ t.lastSeen = o.time
        /\ o.time \in Nat /\ o.seq \in Nat /\ MaxTransition \in Nat
        /\ \A x \in tr : x.seq \in Nat /\ x.time \in Nat
    BY GateAssumption DEF Updated, Refreshed, Advanced, Observation
  <1>2. /\ o \in new /\ new \subseteq tr \cup {o}
        /\ \A x \in tr : x.seq < o.seq /\ x.time <= o.time
        /\ \A x \in tr : o.time - x.time <= MaxTransition => x \in new
    BY DEF Updated, Grows
  <1>3. r.phase = "idle" => ~r.transitionSeen
    BY DEF Updated, Refreshed, AttemptOf
  <1>4. CASE r.phase = "idle" /\ \A d \in Attempts : ~Arms(d, o)
    BY <1>3, <1>4 DEF Updated, Advanced, AttemptOf
  <1>5. ASSUME r.phase = "idle", NEW d \in Attempts, Arms(d, o)
        PROVE  AttemptOf(t, new)
    <2>1. /\ t.phase = d /\ t.armedAt = o.time /\ t.armedSequence = o.seq
          /\ ~t.transitionSeen
      BY <1>3, <1>5 DEF Updated, Advanced
    <2>2. \A x \in new : ~(x.seq > o.seq)
      BY <1>1, <1>2
    <2>3. ArmedBy(o, d, new)
      BY <1>5, <2>2 DEF ArmedBy
    <2>4. d # "idle" /\ o.time - o.time <= MaxTransition
      BY <1>1 DEF Attempts
    <2> QED BY <1>1, <1>2, <2>1, <2>3, <2>4 DEF AttemptOf
  <1>6. CASE r.phase # "idle" /\ (TurnsBack(r.phase, o) \/ Second(r.phase, o))
    BY <1>6 DEF Updated, Advanced, AttemptOf
  <1>7. CASE r.phase # "idle" /\ ~TurnsBack(r.phase, o) /\ ~Second(r.phase, o)
    <2>1. /\ s.phase # "idle" /\ r.phase = s.phase /\ r.armedAt = s.armedAt
          /\ r.armedSequence = s.armedSequence /\ r.transitionSeen = s.transitionSeen
          /\ o.time - s.armedAt <= MaxTransition
      BY <1>1, <1>7 DEF Updated, Refreshed, Track
    <2>2. /\ t.phase = s.phase /\ t.armedAt = s.armedAt
          /\ t.armedSequence = s.armedSequence
          /\ t.transitionSeen
                <=> s.transitionSeen \/ (o.seq > s.armedSequence /\ o.inside)
      BY <1>7, <2>1 DEF Updated, Advanced
    <2>3. PICK a \in tr : /\ ArmedBy(a, s.phase, tr)
                          /\ a.seq = s.armedSequence /\ a.time = s.armedAt
                          /\ s.transitionSeen => SeenAfter(a, tr)
      BY <2>1 DEF AttemptOf
    <2>4. s.phase \in Attempts
      BY <1>1, <2>1 DEF Track
    <2>5. a \in new /\ ArmedBy(a, s.phase, new)
      BY <1>7, <2>1, <2>3, <2>4, SameAttempt DEF ArmedBy
    <2>6. SeenAfter(a, tr) => SeenAfter(a, new)
      <3> SUFFICES ASSUME NEW k \in tr, k.seq > a.seq, k.inside PROVE SeenAfter(a, new)
        BY DEF SeenAfter
      <3>1. a.time <= k.time
        BY <1>1 DEF Chronological
      <3>2. k \in new
        BY <1>1, <1>2, <2>1, <2>3, <3>1
      <3> QED BY <3>2 DEF SeenAfter
    <2>7. t.transitionSeen => SeenAfter(a, new)
      BY <1>2, <2>2, <2>3, <2>6 DEF SeenAfter
    <2> QED BY <1>1, <2>1, <2>2, <2>3, <2>5, <2>7 DEF AttemptOf
  <1> QED BY <1>4, <1>5, <1>6, <1>7
\* A line passed beside its end is not forgotten.
LEMMA NoneMissedBefore ==
    ASSUME NEW tr, NEW o, NEW new, Grows(tr, o, new), NoneMissed(new)
    PROVE  NoneMissed(tr) /\ ~o.missed
  BY DEF Grows, NoneMissed, PassesLine

\* Only a vehicle that was before line 1 or beyond line 2 starts an attempt, and only
\* one that leaves the zone between the lines passes one of them.
LEMMA BetweenKept ==
    ASSUME Geometry,
           NEW s, NEW o, NEW r, NEW t, NEW tr, NEW new, Updated(s, o, r, t, tr, new),
           BetweenOf(s, tr)
    PROVE  /\ BetweenOf(t, new)
           /\ NoneMissed(new) /\ s.phase # "idle" => \A d \in Attempts : ~Arms(d, o)
  <1>1. /\ o.pos \in Int /\ s.side1 \in -1 .. 1 /\ s.side2 \in -1 .. 1
        /\ Line1 \in Int /\ Line2 \in Int /\ Line1 < Line2 /\ Hysteresis \in Nat
        /\ s.side2 = 1 => s.side1 = 1
        /\ s.side1 = -1 => s.side2 = -1
    BY GateAssumption DEF Updated, Observation, BetweenOf, SidesIn, Geometry
  <1>2. /\ t.side1 = r.side1 /\ t.side2 = r.side2
        /\ r.side1 = Side(Line1, s.side1, o.pos)
        /\ r.side2 = Side(Line2, s.side2, o.pos)
        /\ o.cross1 => Passes(Line1, s.side1, o.pos)
        /\ o.cross2 => Passes(Line2, s.side2, o.pos)
        /\ Passes(Line1, s.side1, o.pos) => o.cross1 \/ o.missed
        /\ Passes(Line2, s.side2, o.pos) => o.cross2 \/ o.missed
    <2>1. Observed(s, o, r) /\ Advanced(r, o, t)
      BY DEF Updated
    <2>2. 1 \in Lines /\ 2 \in Lines
      BY DEF Lines
    <2> QED BY <2>1, <2>2 DEF Observed, Advanced, SideAt, LineAt, Cross
  <1>3. /\ r.side1 \in -1 .. 1
        /\ o.pos - Line1 > Hysteresis => r.side1 = 1
        /\ Line1 - o.pos > Hysteresis => r.side1 = -1
        /\ ~(o.pos - Line1 > Hysteresis) /\ ~(Line1 - o.pos > Hysteresis)
              => r.side1 = s.side1
    BY <1>1, <1>2, SideIs
  <1>4. /\ r.side2 \in -1 .. 1
        /\ o.pos - Line2 > Hysteresis => r.side2 = 1
        /\ Line2 - o.pos > Hysteresis => r.side2 = -1
        /\ ~(o.pos - Line2 > Hysteresis) /\ ~(Line2 - o.pos > Hysteresis)
              => r.side2 = s.side2
    BY <1>1, <1>2, SideIs
  <1>5. SidesIn(t) /\ (t.side2 = 1 => t.side1 = 1) /\ (t.side1 = -1 => t.side2 = -1)
    BY <1>1, <1>2, <1>3, <1>4 DEF SidesIn
  <1>6. o.inside => ~(Line1 - o.pos > Hysteresis) /\ ~(o.pos - Line2 > Hysteresis)
    <2>1. o.inside => o.pos \in Zone
      BY DEF Updated, Observed
    <2> QED BY <1>1, <2>1 DEF Geometry
  <1>7. /\ o.cross1 /\ o.inside => s.side1 = -1 /\ r.side1 = 1
        /\ o.cross2 /\ o.inside => s.side2 = 1 /\ r.side2 = -1
    <2>1. ASSUME o.cross1, o.inside PROVE s.side1 = -1 /\ r.side1 = 1
      <3>1. Passes(Line1, s.side1, o.pos)
        BY <1>2, <2>1
      <3>2. s.side1 = -1
        BY <1>1, <1>6, <2>1, <3>1, PassesIs
      <3>3. o.pos - Line1 > Hysteresis
        BY <1>1, <3>1, <3>2, PassesIs
      <3> QED BY <1>3, <3>2, <3>3
    <2>2. ASSUME o.cross2, o.inside PROVE s.side2 = 1 /\ r.side2 = -1
      <3>1. Passes(Line2, s.side2, o.pos)
        BY <1>2, <2>2
      <3>2. s.side2 = 1
        BY <1>1, <1>6, <2>2, <3>1, PassesIs
      <3>3. Line2 - o.pos > Hysteresis
        BY <1>1, <3>1, <3>2, PassesIs
      <3> QED BY <1>4, <3>2, <3>3
    <2> QED BY <2>1, <2>2
  <1>8. ASSUME NoneMissed(new)
        PROVE  /\ s.phase # "idle" => \A d \in Attempts : ~Arms(d, o)
               /\ t.phase # "idle" => t.side1 = 1 /\ t.side2 = -1
    <2>1. /\ NoneMissed(tr) /\ ~o.missed
          /\ s.phase # "idle" => s.side1 = 1 /\ s.side2 = -1
      <3>1. Grows(tr, o, new)
        BY DEF Updated
      <3>2. NoneMissed(tr) /\ ~o.missed
        BY <1>8, <3>1, NoneMissedBefore
      <3> QED BY <3>2 DEF BetweenOf
    <2>2. s.phase # "idle" => \A d \in Attempts : ~Arms(d, o)
      BY <1>7, <2>1 DEF Attempts, Arms, First
    <2>3. /\ ~o.cross1 /\ s.side1 # 0 => r.side1 = s.side1
          /\ ~o.cross2 /\ s.side2 # 0 => r.side2 = s.side2
      BY <1>2, <2>1 DEF Passes
    <2>4. ASSUME t.phase # "idle", r.phase = "idle"
          PROVE  t.side1 = 1 /\ t.side2 = -1
      <3>1. PICK d \in Attempts : Arms(d, o)
        BY <2>4 DEF Updated, Advanced
      <3>2. CASE d = "line_1_to_line_2"
        <4>1. o.cross1 /\ ~o.cross2 /\ o.inside
          BY <3>1, <3>2 DEF Arms, First, Second
        <4> QED BY <1>1, <1>2, <1>7, <2>3, <4>1
      <3>3. CASE d = "line_2_to_line_1"
        <4>1. o.cross2 /\ ~o.cross1 /\ o.inside
          BY <3>1, <3>3 DEF Arms, First, Second
        <4> QED BY <1>1, <1>2, <1>7, <2>3, <4>1
      <3> QED BY <3>2, <3>3 DEF Attempts
    <2>5. ASSUME t.phase # "idle", r.phase # "idle"
          PROVE  t.side1 = 1 /\ t.side2 = -1
      <3>1. /\ s.phase # "idle" /\ s.phase = r.phase /\ s.phase \in Attempts
            /\ ~TurnsBack(r.phase, o) /\ ~Second(r.phase, o)
        BY <2>5 DEF Updated, Refreshed, Advanced, Track
      <3>2. ~o.cross1 \/ (o.cross1 /\ o.inside)
        BY <3>1 DEF TurnsBack, Second, First, Attempts
      <3>3. ~o.cross2 \/ (o.cross2 /\ o.inside)
        BY <3>1 DEF TurnsBack, Second, First, Attempts
      <3>4. s.side1 = 1 /\ s.side2 = -1
        BY <2>1, <3>1
      <3>5. ~o.cross1 /\ ~o.cross2
        BY <1>7, <3>2, <3>3, <3>4
      <3> QED BY <1>2, <2>3, <3>4, <3>5
    <2> QED BY <2>2, <2>4, <2>5
  <1> QED BY <1>5, <1>8 DEF BetweenOf

LEMMA OpenKept ==
    ASSUME Geometry,
           NEW s, NEW o, NEW r, NEW t, NEW tr, NEW new, Updated(s, o, r, t, tr, new),
           BetweenOf(s, tr), OpenOf(s, tr), s.lastSeen <= o.time
    PROVE  OpenOf(t, new)
  <1> SUFFICES ASSUME NoneMissed(new), NEW phase \in Attempts, NEW a \in new,
                      ArmedBy(a, phase, new), t.lastSeen - a.time <= MaxTransition
               PROVE  /\ t.phase = phase
                      /\ t.armedSequence = a.seq /\ t.armedAt = a.time
                      /\ SeenAfter(a, new) => t.transitionSeen
    BY DEF OpenOf
  <1>1. /\ s \in Track /\ o \in Observation /\ tr \subseteq Observation
        /\ t.lastSeen = o.time /\ s.lastSeen \in Int
        /\ o.time \in Nat /\ o.seq \in Nat /\ MaxTransition \in Nat
        /\ \A x \in tr : x.seq \in Nat /\ x.time \in Nat /\ x.seq < o.seq
        /\ new \subseteq tr \cup {o} /\ o \in new
    BY GateAssumption DEF Updated, Refreshed, Advanced, Observation, Track, Grows
  <1>2. CASE a = o
    <2>1. Arms(phase, o)
      BY <1>2 DEF ArmedBy
    <2>2. s.phase = "idle"
      BY <2>1, BetweenKept
    <2>3. r.phase = "idle"
      BY <2>2 DEF Updated, Refreshed
    <2>4. t.phase = phase /\ t.armedAt = o.time /\ t.armedSequence = o.seq
      BY <2>1, <2>3 DEF Updated, Advanced
    <2>5. ~SeenAfter(o, new)
      <3>1. \A k \in new : ~(k.seq > o.seq)
        BY <1>1
      <3> QED BY <3>1 DEF SeenAfter
    <2> QED BY <1>2, <2>4, <2>5
  <1>3. CASE a \in tr
    <2>1. /\ ArmedBy(a, phase, tr) /\ ~TurnsBack(phase, o) /\ ~Second(phase, o)
          /\ a.seq < o.seq
      BY <1>3, SameAttempt
    <2>2. s.lastSeen - a.time <= MaxTransition /\ o.time - a.time <= MaxTransition
      BY <1>1, <1>3
    <2>3. NoneMissed(tr)
      BY NoneMissedBefore DEF Updated
    <2>4. /\ s.phase = phase /\ s.armedSequence = a.seq /\ s.armedAt = a.time
          /\ SeenAfter(a, tr) => s.transitionSeen
      BY <1>3, <2>1, <2>2, <2>3 DEF OpenOf
    <2>5. /\ r.phase = phase /\ r.armedSequence = a.seq /\ r.armedAt = a.time
          /\ r.transitionSeen = s.transitionSeen
      BY <1>1, <1>3, <2>2, <2>4 DEF Updated, Refreshed
    <2>6. phase # "idle"
      BY DEF Attempts
    <2>7. /\ t.phase = phase /\ t.armedSequence = a.seq /\ t.armedAt = a.time
          /\ t.transitionSeen
                <=> s.transitionSeen \/ (o.seq > a.seq /\ o.inside)
      BY <2>1, <2>5, <2>6 DEF Updated, Advanced
    <2>8. SeenAfter(a, new) => SeenAfter(a, tr) \/ o.inside
      BY <1>1 DEF SeenAfter
    <2>9. o.seq > a.seq
      BY <1>1, <1>3, <2>1
    <2> QED BY <2>4, <2>7, <2>8, <2>9
  <1> QED BY <1>1, <1>2, <1>3

\* What counts is a whole schedule.
LEMMA CompletesSchedule ==
    ASSUME NEW s, NEW o, NEW r, NEW t, NEW tr, NEW new, Updated(s, o, r, t, tr, new),
           Chronological(tr), AttemptOf(s, tr), Completes(r, o)
    PROVE  r.phase \in Attempts /\ Schedule(new, r.phase)
  <1>1. /\ s \in Track /\ r \in Track /\ o \in Observation /\ tr \subseteq Observation
        /\ o.time \in Nat /\ o.seq \in Nat /\ MaxTransition \in Nat
        /\ \A x \in tr : x.seq \in Nat /\ x.time \in Nat
    BY GateAssumption DEF Updated, Refreshed, Observation
  <1>2. /\ o \in new /\ new \subseteq tr \cup {o}
        /\ \A x \in tr : x.seq < o.seq /\ x.time <= o.time
        /\ \A x \in tr : o.time - x.time <= MaxTransition => x \in new
    BY DEF Updated, Grows
  <1>3. /\ r.phase # "idle" /\ ~TurnsBack(r.phase, o) /\ Second(r.phase, o)
        /\ r.transitionSeen \/ (o.seq > r.armedSequence /\ o.inside)
    BY <1>1 DEF Completes, Seen, Track
  <1>4. /\ s.phase # "idle" /\ r.phase = s.phase /\ r.armedAt = s.armedAt
        /\ r.armedSequence = s.armedSequence /\ r.transitionSeen = s.transitionSeen
        /\ o.time - s.armedAt <= MaxTransition /\ s.phase \in Attempts
    BY <1>1, <1>3 DEF Updated, Refreshed, Track
  <1>5. PICK a \in tr : /\ ArmedBy(a, s.phase, tr)
                        /\ a.seq = s.armedSequence /\ a.time = s.armedAt
                        /\ s.transitionSeen => SeenAfter(a, tr)
    BY <1>4 DEF AttemptOf
  <1>6. a \in new /\ Arms(s.phase, a) /\ o.time - a.time <= MaxTransition
    BY <1>2, <1>4, <1>5 DEF ArmedBy
  <1>7. \E x \in new : x.seq > a.seq /\ x.inside
    <2>1. CASE o.inside /\ o.seq > a.seq
      BY <1>2, <2>1
    <2>2. CASE SeenAfter(a, tr)
      <3>1. PICK k \in tr : k.seq > a.seq /\ k.inside
        BY <2>2 DEF SeenAfter
      <3>2. a.time <= k.time
        BY <1>1, <3>1 DEF Chronological
      <3>3. k \in new
        BY <1>1, <1>2, <1>6, <3>2
      <3> QED BY <3>1, <3>3
    <2> QED BY <1>3, <1>4, <1>5, <2>1, <2>2
  <1>8. \A x \in new : x.seq > a.seq => ~TurnsBack(s.phase, x)
    BY <1>2, <1>3, <1>4, <1>5 DEF ArmedBy
  <1>9. \A x \in new : a.seq < x.seq /\ x.seq < o.seq => ~Second(s.phase, x)
    BY <1>1, <1>2, <1>5 DEF ArmedBy
  <1>10. \A x \in new : x.seq <= o.seq
    BY <1>1, <1>2
  <1>11. Schedule(new, s.phase)
    BY <1>2, <1>3, <1>4, <1>6, <1>7, <1>8, <1>9, <1>10 DEF Schedule
  <1> QED BY <1>4, <1>11

\* A whole schedule counts, unless its direction has.
LEMMA ScheduleCompletes ==
    ASSUME NEW s, NEW o, NEW r, NEW t, NEW tr, NEW new, Updated(s, o, r, t, tr, new),
           OpenOf(s, tr), s.lastSeen <= o.time, NoneMissed(new),
           NEW phase \in Attempts, Schedule(new, phase)
    PROVE  r.phase = phase
           /\ (Completes(r, o) \/ DirectionOf(phase) \in r.countedDirections)
  <1>1. /\ s \in Track /\ r \in Track /\ o \in Observation /\ tr \subseteq Observation
        /\ s.lastSeen \in Int /\ o.time \in Nat /\ o.seq \in Nat
        /\ MaxTransition \in Nat
        /\ \A x \in tr : x.seq \in Nat /\ x.time \in Nat /\ x.seq < o.seq
        /\ new \subseteq tr \cup {o} /\ o \in new
        /\ \A x \in tr : PassesLine(x) => x \in new
    BY GateAssumption DEF Updated, Refreshed, Observation, Track, Grows
  <1>2. PICK a \in new, z \in new :
          /\ \A x \in new : x.seq <= z.seq
          /\ Arms(phase, a)
          /\ z.time - a.time <= MaxTransition
          /\ Second(phase, z)
          /\ \E x \in new : x.seq > a.seq /\ x.inside
          /\ \A x \in new : x.seq > a.seq => ~TurnsBack(phase, x)
          /\ \A x \in new : a.seq < x.seq /\ x.seq < z.seq => ~Second(phase, x)
    BY DEF Schedule
  <1>3. z = o
    BY <1>1, <1>2
  <1>4. a \in tr /\ a.seq < o.seq
    BY <1>1, <1>2, <1>3 DEF Arms
  <1>5. ArmedBy(a, phase, tr)
    <2> SUFFICES ASSUME NEW x \in tr, x.seq > a.seq
                 PROVE  ~TurnsBack(phase, x) /\ ~Second(phase, x)
      BY <1>2 DEF ArmedBy
    <2>1. TurnsBack(phase, x) \/ Second(phase, x) => PassesLine(x)
      BY Directed DEF TurnsBack
    <2> QED BY <1>1, <1>2, <1>3, <1>4, <2>1
  <1>6. s.lastSeen - a.time <= MaxTransition /\ o.time - a.time <= MaxTransition
    BY <1>1, <1>2, <1>3, <1>4
  <1>7. NoneMissed(tr)
    BY NoneMissedBefore DEF Updated
  <1>8. /\ s.phase = phase /\ s.armedSequence = a.seq /\ s.armedAt = a.time
        /\ SeenAfter(a, tr) => s.transitionSeen
    BY <1>4, <1>5, <1>6, <1>7 DEF OpenOf
  <1>9. /\ r.phase = phase /\ r.armedSequence = a.seq
        /\ r.transitionSeen = s.transitionSeen
    BY <1>1, <1>4, <1>6, <1>8 DEF Updated, Refreshed
  <1>10. phase # "idle" /\ ~TurnsBack(phase, o) /\ Second(phase, o)
    <2>1. o.seq > a.seq
      BY <1>1, <1>4
    <2> QED BY <1>1, <1>2, <1>3, <2>1 DEF Attempts
  <1>11. SeenAfter(a, tr) \/ o.inside
    BY <1>1, <1>2 DEF SeenAfter
  <1>12. Seen(r, o).transitionSeen
    <2>1. o.seq > r.armedSequence
      BY <1>1, <1>4, <1>9
    <2>2. r.transitionSeen \/ o.inside
      BY <1>8, <1>9, <1>11
    <2> QED BY <1>1, <2>1, <2>2 DEF Seen, Track
  <1> QED BY <1>9, <1>10, <1>12 DEF Completes
-----------------------------------------------------------------------------
(* The history is kept over every step.                                    *)

\* The memory of observations, and where it ends: the last frame, if the vehicle is in
\* it, is remembered, and has been taken into account.
Memory ==
    /\ trail \subseteq Observation /\ Chronological(trail) /\ NoJitter(trail)
    /\ \A x \in trail : x.seq <= sequence /\ x.time <= now
    /\ track = None => trail = {}
    /\ at # None =>
          /\ track.lastSeen = now
          /\ \E x \in trail : x.seq = sequence /\ (at \in Zone => x.inside)
          /\ \A l \in Lines :
                SideAt(l, track) = Side(LineAt(l), SideAt(l, track), at)

\* The state of a track agrees with the memory.
Agrees(s, tr) ==
    s \in Track /\ SidesIn(s) /\ SidesKnown(s, tr) /\ AttemptOf(s, tr)

CountsOf(s) == \A d \in s.countedDirections : total[d] > 0

History ==
    /\ Clock /\ Memory
    /\ total \in [Directions -> Nat]
    /\ track # None => Agrees(track, trail) /\ track.lastSeen <= now /\ CountsOf(track)

\* If the road has the shape it should have, the state misses no attempt either.
Reach == track # None => BetweenOf(track, trail) /\ OpenOf(track, trail)

\* Update, by the state s it starts from, the observation o, and the refreshed state r.
UpdateBy(s, o, r, p, time, seq) ==
    /\ s \in Track /\ s.lastSeen <= time /\ CountsOf(s)
    /\ o \in Observation /\ o.pos = p /\ o.time = time /\ o.seq = seq
    /\ o.inside <=> p \in Zone
    /\ Observed(s, o, r) /\ Refreshed(s, o, r) /\ Advanced(r, o, track')
    /\ Completes(r, o) => /\ DirectionOf(r.phase) \in track'.countedDirections
                          /\ DirectionOf(r.phase) \in Directions
    /\ track'.countedDirections \subseteq
          s.countedDirections \cup
             (IF Completes(r, o) THEN {DirectionOf(r.phase)} ELSE {})
    /\ total' = IF Completes(r, o)
                THEN [total EXCEPT ![DirectionOf(r.phase)] = @ + 1] ELSE total
    /\ heard' = time

\* An observation is made of what the gate sees.
LEMMA ObserveIs ==
    ASSUME NEW s \in Track, NEW p \in Positions, NEW time \in Nat, NEW seq \in Nat,
           NEW hit1 \in BOOLEAN, NEW hit2 \in BOOLEAN
    PROVE  LET o == Observe(s, p, time, seq, hit1, hit2) IN
           /\ o \in Observation /\ o.pos = p /\ o.time = time /\ o.seq = seq
           /\ o.inside <=> p \in Zone
           /\ o.cross1 => Passes(Line1, s.side1, p)
           /\ o.cross2 => Passes(Line2, s.side2, p)
           /\ Passes(Line1, s.side1, p) => o.cross1 \/ o.missed
           /\ Passes(Line2, s.side2, p) => o.cross2 \/ o.missed
           /\ o.missed => Passes(Line1, s.side1, p) \/ Passes(Line2, s.side2, p)
  <1> DEFINE o == Observe(s, p, time, seq, hit1, hit2)
             c1 == Passes(Line1, s.side1, p) /\ hit1
             c2 == Passes(Line2, s.side2, p) /\ hit2
             ms == \/ Passes(Line1, s.side1, p) /\ ~hit1
                   \/ Passes(Line2, s.side2, p) /\ ~hit2
  <1>1. c1 \in BOOLEAN /\ c2 \in BOOLEAN /\ ms \in BOOLEAN /\ (p \in Zone) \in BOOLEAN
    OBVIOUS
  <1>2. o = [pos |-> p, time |-> time, seq |-> seq, inside |-> p \in Zone,
             cross1 |-> c1, cross2 |-> c2, missed |-> ms]
    BY DEF Observe
  <1>3. p \in Int
    BY GateAssumption
  <1>4. /\ c1 => Passes(Line1, s.side1, p)
        /\ c2 => Passes(Line2, s.side2, p)
        /\ Passes(Line1, s.side1, p) => c1 \/ ms
        /\ Passes(Line2, s.side2, p) => c2 \/ ms
        /\ ms => Passes(Line1, s.side1, p) \/ Passes(Line2, s.side2, p)
    OBVIOUS
  <1> HIDE DEF o, c1, c2, ms
  <1>5. o \in Observation
    BY <1>1, <1>2, <1>3 DEF Observation
  <1>6. /\ o.pos = p /\ o.time = time /\ o.seq = seq /\ o.inside = (p \in Zone)
        /\ o.cross1 = c1 /\ o.cross2 = c2 /\ o.missed = ms
    BY <1>2
  <1>7. /\ o.cross1 => Passes(Line1, s.side1, p)
        /\ o.cross2 => Passes(Line2, s.side2, p)
        /\ Passes(Line1, s.side1, p) => o.cross1 \/ o.missed
        /\ Passes(Line2, s.side2, p) => o.cross2 \/ o.missed
        /\ o.missed => Passes(Line1, s.side1, p) \/ Passes(Line2, s.side2, p)
    BY <1>4, <1>6
  <1> QED BY <1>5, <1>6, <1>7 DEF o

\* A new track has no history.
LEMMA NewTrackAgrees ==
    /\ NewTrack \in Track /\ NewTrack.lastSeen = 0 /\ NewTrack.countedDirections = {}
    /\ Agrees(NewTrack, {}) /\ BetweenOf(NewTrack, {}) /\ OpenOf(NewTrack, {})
  BY DEF NewTrack, Track, Agrees, SidesIn, SidesKnown, AttemptOf, BetweenOf, OpenOf

\* A frame the vehicle is in, as a step of the lemmas above.
LEMMA UpdateIs ==
    ASSUME History, NEW p \in Positions, NEW time \in Nat, NEW seq \in Nat,
           NEW hit1 \in BOOLEAN, NEW hit2 \in BOOLEAN, time >= now,
           Update(p, time, seq, hit1, hit2)
    PROVE  \E s, o, r :
              /\ UpdateBy(s, o, r, p, time, seq)
              /\ s = IF track = None THEN NewTrack ELSE track
              /\ Agrees(s, trail) /\ (Reach => BetweenOf(s, trail) /\ OpenOf(s, trail))
              /\ o.missed => \/ Passes(Line1, s.side1, p)
                             \/ Passes(Line2, s.side2, p)
              /\ Watch => trail' =
                    IF seq = sequence THEN trail
                    ELSE {x \in trail \cup {o} : \/ time - x.time <= MaxTransition
                                                 \/ x.cross1 \/ x.cross2 \/ x.missed}
  <1> DEFINE s == IF track = None THEN NewTrack ELSE track
             o == Observe(s, p, time, seq, hit1, hit2)
             r == Refresh(s, o)
  <1>1. /\ now \in Nat /\ Agrees(s, trail) /\ s \in Track /\ s.lastSeen <= time
        /\ CountsOf(s) /\ s.lastSeen \in Int
        /\ Reach => BetweenOf(s, trail) /\ OpenOf(s, trail)
    <2>1. CASE track = None
      BY <2>1, NewTrackAgrees DEF History, Memory, CountsOf, Clock
    <2>2. CASE track # None
      <3>1. now \in Nat /\ track \in Track
        BY <2>2 DEF History, Clock, Agrees
      <3>2. track.lastSeen \in Int
        BY <3>1 DEF Track
      <3> QED BY <2>2, <3>1, <3>2 DEF History, Agrees, Reach
    <2> QED BY <2>1, <2>2
  <1>2. /\ track' = Advance(r, o) /\ heard' = time
        /\ total' = IF Completes(r, o)
                    THEN [total EXCEPT ![DirectionOf(r.phase)] = @ + 1] ELSE total
        /\ Watch => trail' =
              IF seq = sequence THEN trail
              ELSE {x \in trail \cup {o} : \/ time - x.time <= MaxTransition
                                           \/ x.cross1 \/ x.cross2 \/ x.missed}
    BY DEF Update
  <1> HIDE DEF s
  <1>3. /\ o \in Observation /\ o.pos = p /\ o.time = time /\ o.seq = seq
        /\ o.inside <=> p \in Zone
        /\ o.cross1 => Passes(Line1, s.side1, p)
        /\ o.cross2 => Passes(Line2, s.side2, p)
        /\ Passes(Line1, s.side1, p) => o.cross1 \/ o.missed
        /\ Passes(Line2, s.side2, p) => o.cross2 \/ o.missed
        /\ o.missed => Passes(Line1, s.side1, p) \/ Passes(Line2, s.side2, p)
    BY <1>1, ObserveIs
  <1> HIDE DEF o
  <1>4. Refreshed(s, o, r)
    BY <1>1, <1>3, RefreshIs
  <1> HIDE DEF r
  <1>5. r \in Track
    BY <1>4 DEF Refreshed
  <1>6. Advanced(r, o, track')
    BY <1>2, <1>3, <1>5, AdvanceIs
  <1>7. Observed(s, o, r)
    BY <1>3, <1>4
       DEF Observed, Refreshed, Cross, SideAt, LineAt, Lines
  <1>8. /\ Completes(r, o) => /\ DirectionOf(r.phase) \in track'.countedDirections
                              /\ DirectionOf(r.phase) \in Directions
        /\ track'.countedDirections \subseteq
              s.countedDirections \cup
                 (IF Completes(r, o) THEN {DirectionOf(r.phase)} ELSE {})
    <2>1. o.time \in Int /\ o.seq \in Int /\ o.inside \in BOOLEAN
      BY <1>3 DEF Observation
    <2>2. r.countedDirections = s.countedDirections
      BY <1>4 DEF Refreshed
    <2>3. /\ Completes(r, o) =>
                /\ DirectionOf(r.phase) \in Directions \ r.countedDirections
                /\ track'.countedDirections =
                      r.countedDirections \cup {DirectionOf(r.phase)}
          /\ ~Completes(r, o) => track'.countedDirections = r.countedDirections
      BY <1>2, <1>5, <2>1, AdvanceKeeps
    <2> QED BY <2>2, <2>3
  <1>9. UpdateBy(s, o, r, p, time, seq)
    BY <1>1, <1>2, <1>3, <1>4, <1>6, <1>7, <1>8 DEF UpdateBy
  <1> QED BY <1>1, <1>2, <1>3, <1>9 DEF s
\* The clock after a frame the vehicle is in.
LEMMA ClockKept ==
    ASSUME Clock, None \notin Track, NEW p \in Positions, NEW time \in Nat,
           NEW seq \in Nat, time > 0, now' = time, sequence' = seq, at' = p,
           track' \in Track, heard' = time
    PROVE  Clock'
  BY DEF Clock

\* Only a completed attempt adds to a total, and what the state has counted is in it.
LEMMA TotalIs ==
    ASSUME NEW s, NEW o, NEW r, NEW p, NEW time, NEW seq,
           UpdateBy(s, o, r, p, time, seq), total \in [Directions -> Nat]
    PROVE  /\ total' \in [Directions -> Nat]
           /\ \A d \in track'.countedDirections : total'[d] > 0
           /\ \A d \in Directions : total'[d] >= total[d]
           /\ \A d \in Directions :
                 Counts(d) => Completes(r, o) /\ d = DirectionOf(r.phase)
  <1> DEFINE e == DirectionOf(r.phase)
  <1>1. CASE Completes(r, o)
    <2>1. e \in Directions /\ total' = [total EXCEPT ![e] = @ + 1]
      BY <1>1 DEF UpdateBy
    <2>2. track'.countedDirections \subseteq s.countedDirections \cup {e}
      BY <1>1 DEF UpdateBy
    <2>3. \A d \in s.countedDirections : total[d] > 0 /\ d \in Directions
      BY DEF UpdateBy, CountsOf, Track
    <2> HIDE DEF e
    <2>4. /\ total' \in [Directions -> Nat] /\ total'[e] = total[e] + 1
          /\ \A d \in Directions : d # e => total'[d] = total[d]
      BY <2>1
    <2>5. \A d \in Directions : total[d] \in Nat
      OBVIOUS
    <2>6. \A d \in track'.countedDirections : total'[d] > 0
      BY <2>1, <2>2, <2>3, <2>4, <2>5
    <2>7. \A d \in Directions : total'[d] >= total[d] /\ (Counts(d) => d = e)
      BY <2>1, <2>4, <2>5 DEF Counts
    <2> QED BY <1>1, <2>4, <2>6, <2>7 DEF e
  <1>2. CASE ~Completes(r, o)
    <2>1. total' = total /\ track'.countedDirections \subseteq s.countedDirections
      BY <1>2 DEF UpdateBy
    <2>2. \A d \in s.countedDirections : total[d] > 0
      BY DEF UpdateBy, CountsOf
    <2>3. \A d \in Directions : total[d] \in Nat
      OBVIOUS
    <2>4. \A d \in track'.countedDirections : total'[d] > 0
      BY <2>1, <2>2
    <2>5. \A d \in Directions : total'[d] >= total[d] /\ ~Counts(d)
      BY <2>1, <2>3 DEF Counts
    <2> QED BY <2>1, <2>4, <2>5
  <1> QED BY <1>1, <1>2

\* A new frame the vehicle is in.
LEMMA NewObservation ==
    ASSUME History, Watch, None \notin Track,
           NEW p \in Positions, NEW time \in Nat, NEW seq \in Nat,
           NEW hit1 \in BOOLEAN, NEW hit2 \in BOOLEAN, time >= now, time > 0,
           seq = sequence + 1, now' = time, sequence' = seq, at' = p,
           Update(p, time, seq, hit1, hit2)
    PROVE  /\ History'
           /\ \A phase \in Attempts :
                 Counts(DirectionOf(phase)) => Schedule(trail', phase)
           /\ Geometry /\ Reach =>
                 /\ Reach'
                 /\ \A phase \in Attempts :
                       Schedule(trail', phase) /\ NoneMissed(trail')
                          => total'[DirectionOf(phase)] > 0
  <1> DEFINE Kept(x) == \/ time - x.time <= MaxTransition
                        \/ x.cross1 \/ x.cross2 \/ x.missed
  <1>1. PICK s, o, r :
           /\ UpdateBy(s, o, r, p, time, seq)
           /\ Agrees(s, trail) /\ (Reach => BetweenOf(s, trail) /\ OpenOf(s, trail))
           /\ Watch => trail' = IF seq = sequence THEN trail
                                ELSE {x \in trail \cup {o} : Kept(x)}
    BY UpdateIs
  <1>2. /\ sequence \in Nat /\ now \in Nat /\ MaxTransition \in Nat
        /\ seq # sequence /\ trail \subseteq Observation /\ Chronological(trail)
        /\ \A x \in trail : x.seq <= sequence /\ x.time <= now
        /\ NoJitter(trail) /\ total \in [Directions -> Nat]
    BY GateAssumption DEF History, Memory, Clock
  <1>3. trail' = {x \in trail \cup {o} : Kept(x)}
    BY <1>1, <1>2
  <1>4. /\ s \in Track /\ o \in Observation /\ o.pos = p /\ o.time = time /\ o.seq = seq
        /\ o.inside <=> p \in Zone
        /\ Observed(s, o, r) /\ Refreshed(s, o, r) /\ Advanced(r, o, track')
        /\ s.lastSeen <= time /\ heard' = time
        /\ SidesIn(s) /\ SidesKnown(s, trail) /\ AttemptOf(s, trail)
    BY <1>1 DEF UpdateBy, Agrees
  <1>5. \A x \in trail : /\ x.seq \in Nat /\ x.time \in Nat
                         /\ x.seq < o.seq /\ x.time <= o.time
    BY <1>2, <1>4 DEF Observation
  <1>6. Grows(trail, o, trail')
    <2>1. Kept(o)
      BY <1>2, <1>4
    <2>2. \A x \in trail : PassesLine(x) \/ o.time - x.time <= MaxTransition => Kept(x)
      BY <1>4 DEF PassesLine
    <2> QED BY <1>3, <1>5, <2>1, <2>2 DEF Grows
  <1>7. Updated(s, o, r, track', trail, trail')
    BY <1>2, <1>4, <1>6 DEF Updated
  <1>8. PICK t, tr : t = track' /\ tr = trail'
    OBVIOUS
  <1>9. /\ t \in Track /\ t.lastSeen = time /\ t.side1 = r.side1 /\ t.side2 = r.side2
        /\ \A l \in Lines : SideAt(l, t) = Side(LineAt(l), SideAt(l, s), p)
    BY <1>4, <1>8 DEF Refreshed, Advanced, SideAt
  <1>10. Observed(s, o, t)
    BY <1>4, <1>9 DEF Observed
  <1>11. Agrees(t, tr)
    <2>1. SidesKnown(t, tr)
      BY <1>2, <1>4, <1>6, <1>8, <1>10, SidesStayKnown
    <2>2. AttemptOf(t, tr)
      BY <1>2, <1>4, <1>7, <1>8, AttemptKept
    <2>3. SidesIn(t)
      <3>1. 1 \in Lines /\ 2 \in Lines /\ LineAt(1) = Line1 /\ LineAt(2) = Line2
        BY DEF Lines, LineAt
      <3>2. t.side1 = Side(Line1, s.side1, p) /\ t.side2 = Side(Line2, s.side2, p)
        BY <1>9, <3>1 DEF SideAt
      <3>3. p \in Int /\ Line1 \in Int /\ Line2 \in Int
        BY GateAssumption
      <3> QED BY <1>4, <3>2, <3>3, SideIs DEF SidesIn
    <2> QED BY <1>9, <2>1, <2>2, <2>3 DEF Agrees
  <1>12. tr \subseteq trail \cup {o} /\ o \in tr
    BY <1>3, <1>6, <1>8 DEF Grows
  <1>13. Chronological(tr)
    <2> SUFFICES ASSUME NEW x \in trail \cup {o}, NEW y \in trail \cup {o},
                        x.seq <= y.seq
                 PROVE  x.time <= y.time
      BY <1>12 DEF Chronological
    <2>1. CASE y = o
      BY <1>4, <1>5, <2>1
    <2>2. CASE y \in trail
      <3>1. x \in trail
        BY <1>4, <1>5, <2>2
      <3> QED BY <1>2, <2>2, <3>1 DEF Chronological
    <2> QED BY <2>1, <2>2
  <1>14. Memory'
    <2>1. NoJitter(tr)
      BY <1>2, <1>4, <1>6, <1>8, <1>10, NoJitterKept
    <2>2. tr \subseteq Observation
      BY <1>2, <1>4, <1>12
    <2>3. \A x \in tr : x.seq <= seq /\ x.time <= time
      BY <1>2, <1>4, <1>5, <1>12
    <2>4. \A l \in Lines : SideAt(l, t) = Side(LineAt(l), SideAt(l, t), p)
      <3> SUFFICES ASSUME NEW l \in Lines
                   PROVE  SideAt(l, t) = Side(LineAt(l), SideAt(l, t), p)
        OBVIOUS
      <3>1. LineAt(l) \in Int /\ SideAt(l, s) \in -1 .. 1 /\ p \in Int
        BY <1>4, LineType, GateAssumption
      <3> QED BY <1>9, <3>1, SideIs
    <2>5. \E x \in tr : x.seq = seq /\ (p \in Zone => x.inside)
      BY <1>4, <1>12
    <2>6. t # None
      BY <1>9
    <2> QED BY <1>8, <1>9, <1>13, <2>1, <2>2, <2>3, <2>4, <2>5, <2>6 DEF Memory
  <1>15. /\ total' \in [Directions -> Nat]
         /\ \A d \in track'.countedDirections : total'[d] > 0
         /\ \A d \in Directions : total'[d] >= total[d]
         /\ \A d \in Directions :
               Counts(d) => Completes(r, o) /\ d = DirectionOf(r.phase)
    BY <1>1, <1>2, TotalIs
  <1>16. Clock'
    BY <1>4, <1>8, <1>9, ClockKept DEF History
  <1>17. History'
    <2>1. t.lastSeen <= time
      BY <1>9
    <2> QED BY <1>8, <1>11, <1>14, <1>15, <1>16, <2>1 DEF History, CountsOf
  <1>18. ASSUME NEW phase \in Attempts, Counts(DirectionOf(phase))
         PROVE  Schedule(trail', phase)
    <2>1. DirectionOf(phase) \in Directions
      BY DEF DirectionOf, Directions
    <2>2. Completes(r, o) /\ DirectionOf(phase) = DirectionOf(r.phase)
      BY <1>15, <1>18, <2>1
    <2>3. r.phase \in Attempts /\ Schedule(trail', r.phase)
      BY <1>2, <1>4, <1>7, <2>2, CompletesSchedule
    <2>4. phase = r.phase
      BY <2>2, <2>3, GateAssumption DEF DirectionOf, Attempts
    <2> QED BY <2>3, <2>4
  <1>19. ASSUME Geometry, Reach
         PROVE  /\ Reach'
                /\ \A phase \in Attempts :
                      Schedule(trail', phase) /\ NoneMissed(trail')
                         => total'[DirectionOf(phase)] > 0
    <2>1. BetweenOf(s, trail) /\ OpenOf(s, trail)
      BY <1>1, <1>19
    <2>2. BetweenOf(t, tr)
      BY <1>7, <1>8, <1>19, <2>1, BetweenKept
    <2>3. OpenOf(t, tr)
      BY <1>4, <1>7, <1>8, <1>19, <2>1, OpenKept
    <2>4. Reach'
      BY <1>8, <2>2, <2>3 DEF Reach
    <2>5. ASSUME NEW phase \in Attempts, Schedule(trail', phase), NoneMissed(trail')
          PROVE  total'[DirectionOf(phase)] > 0
      <3>1. /\ r.phase = phase
            /\ Completes(r, o) \/ DirectionOf(phase) \in r.countedDirections
        BY <1>4, <1>7, <2>1, <2>5, ScheduleCompletes
      <3>2. CASE Completes(r, o)
        <4>1. DirectionOf(phase) \in track'.countedDirections
          BY <1>1, <3>1, <3>2 DEF UpdateBy
        <4> QED BY <1>15, <4>1
      <3>3. CASE DirectionOf(phase) \in r.countedDirections
        <4>1. DirectionOf(phase) \in s.countedDirections
          BY <1>4, <3>3 DEF Refreshed
        <4>2. DirectionOf(phase) \in Directions
          BY DEF DirectionOf, Directions
        <4>3. total[DirectionOf(phase)] > 0
          BY <1>1, <4>1 DEF UpdateBy, CountsOf
        <4>4. total'[DirectionOf(phase)] >= total[DirectionOf(phase)]
          BY <1>15, <4>2
        <4>5. total[DirectionOf(phase)] \in Nat /\ total'[DirectionOf(phase)] \in Nat
          BY <1>2, <1>15, <4>2
        <4> QED BY <4>3, <4>4, <4>5
      <3> QED BY <3>1, <3>2, <3>3
    <2> QED BY <2>4, <2>5
  <1> QED BY <1>17, <1>18, <1>19
\* The last frame again: nothing is passed, so nothing counts, and an attempt is at most
\* seen in the zone by the observation that was remembered.
LEMMA RepeatedObservation ==
    ASSUME History, Watch, None \notin Track, at # None, sequence > 0,
           now' = now, sequence' = sequence, at' = at,
           Update(at, now, sequence, TRUE, TRUE)
    PROVE  History' /\ total' = total /\ trail' = trail /\ (Reach => Reach')
  <1>1. /\ now \in Nat /\ now > 0 /\ sequence \in Nat /\ at \in Positions
        /\ track # None /\ MaxTransition \in Nat
    BY GateAssumption DEF History, Clock
  <1>2. PICK s, o, r :
           /\ UpdateBy(s, o, r, at, now, sequence)
           /\ s = IF track = None THEN NewTrack ELSE track
           /\ Agrees(s, trail) /\ (Reach => BetweenOf(s, trail) /\ OpenOf(s, trail))
           /\ o.missed => Passes(Line1, s.side1, at) \/ Passes(Line2, s.side2, at)
           /\ Watch => trail' = trail
    <2>p. PICK p \in Positions : p = at
      BY <1>1
    <2>t. PICK time \in Nat : time = now
      BY <1>1
    <2>s. PICK seq \in Nat : seq = sequence
      BY <1>1
    <2>1. p = at /\ time = now /\ seq = sequence
      BY <2>p, <2>t, <2>s
    <2>u. Update(at, now, sequence, TRUE, TRUE)
      OBVIOUS
    <2>2. Update(p, time, seq, TRUE, TRUE) /\ time >= now
      <3>1. Update(p, time, seq, TRUE, TRUE)
        BY <2>u, <2>1 DEF Update
      <3>2. time >= now
        BY <1>1, <2>1
      <3> QED BY <3>1, <3>2
    <2>3. TRUE \in BOOLEAN
      OBVIOUS
    <2>4. \E s, o, r :
             /\ UpdateBy(s, o, r, p, time, seq)
             /\ s = IF track = None THEN NewTrack ELSE track
             /\ Agrees(s, trail) /\ (Reach => BetweenOf(s, trail) /\ OpenOf(s, trail))
             /\ o.missed => \/ Passes(Line1, s.side1, p)
                            \/ Passes(Line2, s.side2, p)
             /\ Watch => trail' =
                   IF seq = sequence THEN trail
                   ELSE {x \in trail \cup {o} : \/ time - x.time <= MaxTransition
                                                \/ x.cross1 \/ x.cross2 \/ x.missed}
      BY <2>2, <2>3, UpdateIs
    <2> QED BY <2>1, <2>4
  <1>3. trail' = trail /\ s = track
    BY <1>1, <1>2
  <1>4. /\ s \in Track /\ o \in Observation /\ o.pos = at /\ o.time = now
        /\ o.seq = sequence /\ (o.inside <=> at \in Zone)
        /\ Observed(s, o, r) /\ Refreshed(s, o, r) /\ Advanced(r, o, track')
        /\ heard' = now
        /\ SidesIn(s) /\ SidesKnown(s, trail) /\ AttemptOf(s, trail)
    BY <1>2 DEF UpdateBy, Agrees
  <1>5. PICK z \in trail : z.seq = sequence /\ (at \in Zone => z.inside)
    BY <1>1 DEF History, Memory
  <1>6. s.lastSeen = now
        /\ \A l \in Lines : SideAt(l, s) = Side(LineAt(l), SideAt(l, s), at)
    BY <1>1, <1>3 DEF History, Memory
  <1>7. /\ ~o.cross1 /\ ~o.cross2 /\ ~o.missed
        /\ r.side1 = s.side1 /\ r.side2 = s.side2
    <2>1. /\ 1 \in Lines /\ 2 \in Lines /\ LineAt(1) = Line1 /\ LineAt(2) = Line2
          /\ \A q : SideAt(1, q) = q.side1 /\ SideAt(2, q) = q.side2
          /\ \A q : Cross(1, q) = q.cross1 /\ Cross(2, q) = q.cross2
      BY DEF Lines, LineAt, SideAt, Cross
    <2>2. s.side1 = Side(Line1, s.side1, at) /\ s.side2 = Side(Line2, s.side2, at)
      BY <1>6, <2>1
    <2>3. ~Passes(Line1, s.side1, at) /\ ~Passes(Line2, s.side2, at)
      BY <2>2 DEF Passes
    <2>4. /\ r.side1 = s.side1 /\ r.side2 = s.side2
          /\ o.cross1 => Passes(Line1, s.side1, at)
          /\ o.cross2 => Passes(Line2, s.side2, at)
      BY <1>4, <2>1, <2>2 DEF Observed
    <2> QED BY <1>2, <2>3, <2>4
  <1>8. \A d : ~Arms(d, o) /\ ~TurnsBack(d, o) /\ ~Second(d, o) /\ ~First(d, o)
    BY <1>7 DEF Arms, TurnsBack, Second, First
  <1>9. ~Completes(r, o)
    BY <1>8 DEF Completes
  <1>10. total' = total
    BY <1>2, <1>9 DEF UpdateBy
  <1>11. s.phase # "idle" => o.time - s.armedAt <= MaxTransition
    BY <1>4, <1>6 DEF AttemptOf
  <1>12. /\ r.phase = s.phase /\ r.armedAt = s.armedAt
         /\ r.armedSequence = s.armedSequence /\ r.transitionSeen = s.transitionSeen
         /\ r \in Track /\ r.lastSeen = now
    <2>1. s.armedAt \in Int /\ o.time \in Int
      BY <1>1, <1>4 DEF Track
    <2>2. ~(s.phase # "idle" /\ o.time - s.armedAt > MaxTransition)
      BY <1>1, <1>11, <2>1
    <2> QED BY <1>4, <2>2 DEF Refreshed
  <1>13. PICK t : t = track'
    OBVIOUS
  <1>14. Advanced(r, o, t)
    BY <1>4, <1>13
  <1>15. /\ t \in Track /\ t.lastSeen = now /\ t.side1 = s.side1 /\ t.side2 = s.side2
         /\ t.phase = s.phase
         /\ s.phase = "idle" => (t.transitionSeen <=> s.transitionSeen)
         /\ s.phase # "idle" =>
               /\ t.armedAt = s.armedAt /\ t.armedSequence = s.armedSequence
               /\ t.transitionSeen
                     <=> s.transitionSeen \/ (o.seq > s.armedSequence /\ o.inside)
    BY <1>7, <1>8, <1>12, <1>14 DEF Advanced
  <1>16. \A l \in Lines : SideAt(l, t) = SideAt(l, s)
    BY <1>15 DEF SideAt
  <1>17. Agrees(t, trail)
    <2>1. SidesIn(t) /\ SidesKnown(t, trail)
      BY <1>4, <1>15, <1>16 DEF SidesIn, SidesKnown
    <2>2. CASE t.phase = "idle"
      BY <1>4, <1>15, <2>1, <2>2 DEF Agrees, AttemptOf
    <2>3. CASE t.phase # "idle"
      <3>1. PICK a \in trail : /\ ArmedBy(a, s.phase, trail)
                               /\ a.seq = s.armedSequence /\ a.time = s.armedAt
                               /\ s.transitionSeen => SeenAfter(a, trail)
        BY <1>4, <1>15, <2>3 DEF AttemptOf
      <3>2. o.seq > s.armedSequence /\ o.inside => SeenAfter(a, trail)
        BY <1>4, <1>5, <3>1 DEF SeenAfter
      <3>3. t.transitionSeen => SeenAfter(a, trail)
        BY <1>15, <2>3, <3>1, <3>2
      <3>4. t.lastSeen - t.armedAt <= MaxTransition
        BY <1>4, <1>11, <1>15, <2>3
      <3>5. AttemptOf(t, trail)
        BY <1>15, <2>3, <3>1, <3>3, <3>4 DEF AttemptOf
      <3> QED BY <1>15, <2>1, <3>5 DEF Agrees
    <2> QED BY <2>2, <2>3
  <1>18. Memory'
    <2>1. t # None
      BY <1>15
    <2>2. \A l \in Lines : SideAt(l, t) = Side(LineAt(l), SideAt(l, t), at)
      BY <1>6, <1>16
    <2> QED BY <1>1, <1>3, <1>5, <1>13, <1>15, <2>1, <2>2 DEF History, Memory
  <1>19. \A d \in t.countedDirections : total[d] > 0
    BY <1>2, <1>9, <1>13 DEF UpdateBy, CountsOf
  <1>20. Clock'
    BY <1>1, <1>4, <1>13, <1>15, ClockKept DEF History
  <1>21. History'
    BY <1>1, <1>3, <1>10, <1>13, <1>15, <1>17, <1>18, <1>19, <1>20
       DEF History, CountsOf
  <1>22. ASSUME Reach PROVE Reach'
    <2>1. BetweenOf(s, trail) /\ OpenOf(s, trail)
      BY <1>2, <1>22
    <2>2. BetweenOf(t, trail)
      BY <1>15, <2>1 DEF BetweenOf, SidesIn
    <2>3. OpenOf(t, trail)
      <3> SUFFICES ASSUME NoneMissed(trail), NEW phase \in Attempts, NEW a \in trail,
                          ArmedBy(a, phase, trail),
                          t.lastSeen - a.time <= MaxTransition
                   PROVE  /\ t.phase = phase
                          /\ t.armedSequence = a.seq /\ t.armedAt = a.time
                          /\ SeenAfter(a, trail) => t.transitionSeen
        BY DEF OpenOf
      <3>1. /\ s.phase = phase /\ s.armedSequence = a.seq /\ s.armedAt = a.time
            /\ SeenAfter(a, trail) => s.transitionSeen
        BY <1>6, <1>15, <2>1 DEF OpenOf
      <3>2. s.phase # "idle"
        BY <3>1 DEF Attempts
      <3> QED BY <1>15, <3>1, <3>2
    <2> QED BY <1>3, <1>13, <2>2, <2>3 DEF Reach
  <1> QED BY <1>3, <1>10, <1>21, <1>22

\* A frame the vehicle is not in.
LEMMA CleanupKeepsHistory ==
    ASSUME History, NEW time \in Nat, NEW seq \in Nat, time >= now, time > 0,
           seq >= sequence, now' = time, sequence' = seq, at' = None, Cleanup(time)
    PROVE  History' /\ total' = total /\ (Reach => Reach')
  <1>1. total' = total /\ heard' = heard /\ now \in Nat /\ sequence \in Nat
    BY DEF Cleanup, History, Clock
  <1>2. Clock'
    BY <1>1 DEF History, Clock
  <1>3. \A x \in trail : x.seq <= seq /\ x.time <= time
    BY <1>1 DEF History, Memory, Observation
  <1>4. CASE UNCHANGED <<track, trail>>
    <2>1. Memory'
      BY <1>3, <1>4 DEF History, Memory
    <2>2. track # None => track.lastSeen <= time
      BY <1>1 DEF History, Agrees, Track
    <2>3. CountsOf(track) => CountsOf(track)'
      BY <1>1, <1>4 DEF CountsOf
    <2> QED BY <1>1, <1>2, <1>4, <2>1, <2>2, <2>3 DEF History, Reach
  <1>5. CASE track' = None /\ trail' = {}
    <2>1. Memory'
      BY <1>5 DEF Memory, Chronological, NoJitter
    <2> QED BY <1>1, <1>2, <1>5, <2>1 DEF History, Reach
  <1> QED BY <1>4, <1>5 DEF Cleanup

\* What a step keeps, and what it counts.
LEMMA HistoryStep ==
    ASSUME History, Watch, None \notin Track, [Next]_vars
    PROVE  /\ History'
           /\ \A phase \in Attempts :
                 Counts(DirectionOf(phase)) => Schedule(trail', phase)
           /\ Geometry /\ Reach =>
                 /\ Reach'
                 /\ \A phase \in Attempts :
                       /\ sequence' > sequence /\ at' # None
                       /\ Schedule(trail', phase) /\ NoneMissed(trail')
                       => total'[DirectionOf(phase)] > 0
  <1>1. /\ now \in Nat /\ sequence \in Nat /\ (sequence > 0 => now > 0)
        /\ at # None => at \in Positions
        /\ total \in [Directions -> Nat]
        /\ \A phase \in Attempts : DirectionOf(phase) \in Directions
    BY DEF History, Clock, DirectionOf, Directions
  <1>2. total' = total => \A phase \in Attempts : ~Counts(DirectionOf(phase))
    BY <1>1 DEF Counts
  <1>3. CASE NewFrame
    <2>1. PICK dt \in Steps, p \in Positions \cup {None},
               hit1 \in BOOLEAN, hit2 \in BOOLEAN :
             Process(p, now + dt, sequence + 1, hit1, hit2)
      BY <1>3 DEF NewFrame
    <2>2. /\ now + dt \in Nat /\ now + dt >= now /\ now + dt > 0
          /\ sequence + 1 \in Nat /\ sequence + 1 >= sequence
      BY <1>1, GateAssumption
    <2>3. CASE p = None
      BY <1>2, <2>1, <2>2, <2>3, CleanupKeepsHistory DEF Process
    <2>4. CASE p # None
      BY <2>1, <2>2, <2>4, NewObservation DEF Process
    <2> QED BY <2>3, <2>4
  <1>4. CASE RepeatedFrame
    <2>1. sequence > 0 /\ now > 0 /\ Process(at, now, sequence, TRUE, TRUE)
      BY <1>1, <1>4 DEF RepeatedFrame
    <2>2. ~(sequence' > sequence) /\ now >= now /\ sequence >= sequence
      BY <1>1, <2>1 DEF Process
    <2>3. CASE at = None
      BY <1>1, <1>2, <2>1, <2>2, <2>3, CleanupKeepsHistory DEF Process
    <2>4. CASE at # None
      BY <1>2, <2>1, <2>2, <2>4, RepeatedObservation DEF Process
    <2> QED BY <2>3, <2>4
  <1>5. CASE UNCHANGED vars
    <2>1. /\ UNCHANGED <<track, total, now, sequence, at, heard, trail>>
          /\ ~(sequence' > sequence)
      BY <1>1, <1>5 DEF vars
    <2>2. Clock' /\ Memory'
      BY <2>1 DEF History, Clock, Memory
    <2>3. History' /\ (Reach => Reach')
      BY <2>1, <2>2 DEF History, CountsOf, Reach
    <2> QED BY <1>2, <2>1, <2>3
  <1> QED BY <1>3, <1>4, <1>5 DEF Next

LEMMA HistoryInit ==
    ASSUME Init
    PROVE  History /\ Reach
  <1>1. Clock /\ Memory
    BY DEF Init, Clock, Memory, Chronological, NoJitter
  <1>2. total \in [Directions -> Nat] /\ track = None
    BY DEF Init
  <1> QED BY <1>1, <1>2 DEF History, Reach

\* The gate and the memory of what was observed agree, for any lines, zone, hysteresis,
\* limits and path.
LEMMA HistoryHolds ==
    ASSUME Watch, None \notin Track
    PROVE  Spec => []History
  <1>1. History /\ [Next]_vars => History'
    BY HistoryStep
  <1> QED BY <1>1, HistoryInit, PTL DEF Spec

\* A vehicle that moves around a line by no more than twice the hysteresis never crosses
\* it twice.
THEOREM JitterNeverCrosses ==
    ASSUME Watch, None \notin Track
    PROVE  Spec => []JitterIsNoCrossing
  <1>1. History => JitterIsNoCrossing
    <2> SUFFICES ASSUME History, NEW x \in trail, NEW y \in trail, x.seq < y.seq,
                        x.pos - y.pos \in -2 * Hysteresis .. 2 * Hysteresis,
                        \A k \in trail : x.seq < k.seq /\ k.seq < y.seq =>
                           ~k.cross1 /\ ~k.cross2 /\ ~k.missed
                 PROVE  ~(x.cross1 /\ y.cross1) /\ ~(x.cross2 /\ y.cross2)
      BY DEF JitterIsNoCrossing
    <2>1. \A l \in Lines : ~(Cross(l, x) /\ Cross(l, y))
      BY DEF History, Memory, NoJitter, PassesLine
    <2> QED BY <2>1 DEF Lines, Cross
  <1> QED BY <1>1, HistoryHolds, PTL

\* Whatever is counted, its whole schedule was observed: on any road.
THEOREM OnlyWholeSchedulesCount ==
    ASSUME Watch, None \notin Track
    PROVE  Spec => OnlySchedulesCount
  <1>1. History /\ [Next]_vars =>
          [\A phase \in Attempts :
              Counts(DirectionOf(phase)) => Schedule(trail', phase)]_vars
    BY HistoryStep
  <1> QED BY <1>1, HistoryHolds, PTL DEF Spec, OnlySchedulesCount

\* No whole schedule is missed, on a road where line 2 lies behind line 1 and the
\* transition zone between them.
THEOREM WholeSchedulesCount ==
    ASSUME Watch, None \notin Track, Geometry
    PROVE  Spec => EveryScheduleCounts
  <1>1. History /\ Reach /\ [Next]_vars => Reach'
    BY HistoryStep
  <1>2. Spec => []Reach
    BY <1>1, HistoryInit, HistoryHolds, PTL DEF Spec
  <1>3. History /\ Reach /\ [Next]_vars =>
          [\A phase \in Attempts :
              (/\ sequence' > sequence /\ at' # None
               /\ Schedule(trail', phase)
               /\ \A x \in trail' : ~x.missed)
              => total'[DirectionOf(phase)] > 0]_vars
    BY HistoryStep DEF NoneMissed
  <1> QED BY <1>2, <1>3, HistoryHolds, PTL DEF Spec, EveryScheduleCounts
=============================================================================
