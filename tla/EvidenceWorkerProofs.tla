------------------------ MODULE EvidenceWorkerProofs ------------------------
(***************************************************************************)
(* Proofs about EvidenceWorker, for any intervals, period, queue and       *)
(* buffer size, lags and latencies.                                        *)
(*                                                                         *)
(* Inductive invariants on top of the types: the ids of the events are     *)
(* apart (Apart), no event is ahead of its result (Ordered), and what is   *)
(* queued or pending is no older than the place of the loop allows         *)
(* (Timely).  For the clips: what was sampled is in the order it was       *)
(* captured (Camera), the buffer covers the retention of its newest frame  *)
(* (Rolling), and an event is taken in time, stopped or not (Recent).      *)
(***************************************************************************)
EXTENDS EvidenceWorker, DataLemmas

Frame == [seq : Nat, ts : Nat]
Event == [id : Nat, seq : Nat, at : Nat]

Types ==
    /\ now \in Nat /\ lag \in Nat /\ stopped \in BOOLEAN
    /\ raw \in Frame /\ work \in Frame /\ shown \in Nat
    /\ wpc \in {"idle", "infer", "emit", "exited"}
    /\ pc \in {"head", "drain", "finalize", "final", "done"}
    /\ ~stopped => pc \in {"head", "drain", "finalize"}
    /\ events \in Seq(Event) /\ emitted \in Nat
    /\ pending \subseteq [event : Event, annotated : BOOLEAN]
    /\ \A b \in bundles : b.event \in Event

\* Sequence numbers: a result is never ahead of the camera, an event never of its
\* result, and what does without its snapshot is older than the last result.
Ordered ==
    /\ shown <= raw.seq /\ work.seq <= raw.seq
    /\ wpc = "infer" => shown <= work.seq
    /\ wpc = "emit" => shown = work.seq
    /\ \A i \in 1 .. Len(events) : events[i].seq <= shown
    /\ \A p \in pending : IF p.annotated THEN p.event.seq <= shown
                                         ELSE p.event.seq < shown
    /\ SnapshotIfAvailable

\* The ids of the events, wherever they are, are apart, and are all there were.
Apart ==
    /\ \A i, j \in 1 .. Len(events) : events[i].id = events[j].id => i = j
    /\ \A p, q \in pending : p.event.id = q.event.id => p = q
    /\ \A b, c \in bundles : b.event.id = c.event.id => b = c
    /\ Queued \cap (Accepted \cup Bundled \cup dropped) = {}
    /\ Accepted \cap (Bundled \cup dropped) = {}
    /\ Bundled \cap dropped = {}
    /\ Queued \cup Accepted \cup Bundled \cup dropped = 1 .. emitted

\* What may still be queued, or pending, since the loop was last at its head.
QueuedBound == MaxLatency + (IF pc = "drain" THEN MaxLag ELSE 0)
PendingBound == IF pc = "head" THEN PostSeconds
                ELSE Wait + MaxLag

Timely ==
    /\ pc # "done" => lag <= MaxLag
    /\ wpc \in {"infer", "emit"} => now - work.ts <= MaxLatency
    /\ ~stopped =>
          /\ \A i \in 1 .. Len(events) : now - lag <= events[i].at + QueuedBound
          /\ \A p \in pending : now - lag <= p.event.at + PendingBound
          /\ \A b \in bundles : now >= b.event.at + PostSeconds
-----------------------------------------------------------------------------
(* Queues.                                                                 *)

\* What appending an event, and taking the first one, does to the queue.
LEMMA AppendIs ==
    ASSUME NEW q \in Seq(Event), NEW e \in Event
    PROVE  /\ Append(q, e) \in Seq(Event) /\ Len(Append(q, e)) = Len(q) + 1
           /\ \A i \in 1 .. Len(q) : Append(q, e)[i] = q[i]
           /\ Append(q, e)[Len(q) + 1] = e
           /\ DOMAIN q = 1 .. Len(q) /\ DOMAIN Append(q, e) = 1 .. Len(q) + 1
           /\ Len(q) \in Nat
OBVIOUS

LEMMA TailIs ==
    ASSUME NEW q \in Seq(Event), q # <<>>
    PROVE  /\ Tail(q) \in Seq(Event) /\ Len(Tail(q)) = Len(q) - 1
           /\ \A i \in 1 .. Len(q) - 1 : Tail(q)[i] = q[i + 1]
           /\ Head(q) = q[1] /\ Head(q) \in Event
           /\ DOMAIN q = 1 .. Len(q) /\ DOMAIN Tail(q) = 1 .. Len(q) - 1
           /\ Len(q) \in Nat \ {0}
OBVIOUS

\* The events put by one frame of the use-case worker: none, or the next one, in the
\* queue or refused.
LEMMA EmitIs ==
    ASSUME Types, Emit
    PROVE  \/ UNCHANGED <<events, dropped, emitted>>
           \/ \E e \in Event :
                /\ e = [id |-> emitted + 1, seq |-> work.seq, at |-> work.ts]
                /\ emitted' = emitted + 1
                /\ \/ events' = Append(events, e) /\ UNCHANGED dropped
                   \/ dropped' = dropped \cup {e.id} /\ UNCHANGED events
<1> DEFINE e == [id |-> emitted + 1, seq |-> work.seq, at |-> work.ts]
<1>1. e \in Event BY DEF Types, Event, Frame
<1>2. CASE PutEvent(NoEvent) BY <1>2 DEF PutEvent
<1>3. CASE PutEvent(e)
  <2>1. e.id = emitted + 1 OBVIOUS
  <2> HIDE DEF e
  <2> QED BY <1>1, <1>3, <2>1 DEF PutEvent, e
<1> QED BY <1>2, <1>3 DEF Emit

\* The bundles of the events that are ready.
LEMMA BundleIs ==
    ASSUME NEW p, NEW buf
    PROVE  /\ Bundle(p, buf).event = p.event
           /\ p.annotated => Bundle(p, buf).snapshot = "annotated"
BY DEF Bundle

\* Both ways to finalize submit what is ready and leave the rest pending.
LEMMA SubmitIs ==
    ASSUME FinalizeReady \/ FinalizeAll
    PROVE  \E ready \in SUBSET pending : \E buf :
              /\ Submit(ready, buf)
              /\ FinalizeReady => ready = {p \in pending : Ready(p)}
<1>1. CASE FinalizeReady BY <1>1 DEF FinalizeReady
<1>2. CASE FinalizeAll /\ ~FinalizeReady
  <2>1. Submit(pending, buffer') BY <1>2 DEF FinalizeAll
  <2> QED BY <1>2, <2>1
<1> QED BY <1>1, <1>2
-----------------------------------------------------------------------------
(* Types.                                                                  *)

LEMMA TypesInit == Init => Types
<1> SUFFICES ASSUME Init PROVE Types
  OBVIOUS
<1>1. NoFrame \in Frame BY DEF NoFrame, Frame
<1>2. <<>> \in Seq(Event) OBVIOUS
<1> QED BY <1>1, <1>2 DEF Init, Types

\* A record put together from typed parts, and the elements of the queue.
LEMMA TypesKept ==
    ASSUME Types, [Next]_vars
    PROVE  Types'
<1> USE DEF Types
<1>1. CASE Tick
  BY <1>1 DEF Tick, cameraVars, workerVars, evidenceVars
<1>2. CASE Capture BY <1>2 DEF Capture, workerVars, evidenceVars, Frame
<1>3. CASE Stop BY <1>3 DEF Stop, cameraVars, workerVars, evidenceVars
<1>4. CASE ReadRaw BY <1>4 DEF ReadRaw, cameraVars, evidenceVars
<1>5. CASE WriteResult BY <1>5 DEF WriteResult, cameraVars, evidenceVars, Frame
<1>6. CASE Emit
  <2>1. events' \in Seq(Event) /\ emitted' \in Nat
    BY <1>6, EmitIs, AppendIs
  <2> QED BY <1>6, <2>1 DEF Emit, cameraVars, evidenceVars
<1>7. CASE WorkerExits BY <1>7 DEF WorkerExits, cameraVars, evidenceVars
<1>8. CASE LoopHead
  BY <1>8 DEF LoopHead, cameraVars, workerVars
<1>9. CASE Accept
  <2>1. events' \in Seq(Event) /\ Head(events) \in Event
    BY <1>9, TailIs DEF Accept
  <2>2. PICK a \in BOOLEAN :
              pending' = pending \cup {[event |-> Head(events), annotated |-> a]}
    BY <1>9, Zenon DEF Accept
  <2>3. pending' \subseteq [event : Event, annotated : BOOLEAN]
    BY <2>1, <2>2
  <2> QED BY <1>9, <2>1, <2>3 DEF Accept, cameraVars, workerVars
<1>10. CASE DrainDone BY <1>10 DEF DrainDone, cameraVars, workerVars
<1>11. CASE FinalizeReady \/ FinalizeAll
  <2>0. PICK ready \in SUBSET pending : \E buf : Submit(ready, buf)
    BY <1>11, SubmitIs
  <2>1. PICK buf : Submit(ready, buf) BY <2>0
  <2>2. \A b \in bundles' : b.event \in Event BY <2>1, BundleIs DEF Submit
  <2>3. pending' \subseteq pending BY <2>1 DEF Submit
  <2>4. CASE FinalizeReady
    BY <2>2, <2>3, <2>4 DEF FinalizeReady, cameraVars, workerVars
  <2>5. CASE FinalizeAll
    BY <2>2, <2>3, <2>5 DEF FinalizeAll, cameraVars, workerVars
  <2> QED BY <1>11, <2>4, <2>5
<1>12. CASE UNCHANGED vars
  BY <1>12 DEF vars, cameraVars, workerVars, evidenceVars
<1> QED BY <1>1, <1>2, <1>3, <1>4, <1>5, <1>6, <1>7, <1>8, <1>9, <1>10, <1>11,
           <1>12 DEF Next, UseCaseStep, EvidenceStep
-----------------------------------------------------------------------------
(* The order of frames, results and events.                                *)

LEMMA OrderedKept ==
    ASSUME Types, Ordered, [Next]_vars
    PROVE  Ordered'
<1> USE DEF Types, Ordered, Frame
<1>1. CASE Tick
  BY <1>1 DEF Tick, cameraVars, workerVars, evidenceVars, SnapshotIfAvailable
<1>2. CASE Capture
  BY <1>2 DEF Capture, workerVars, evidenceVars, SnapshotIfAvailable
<1>3. CASE Stop
  BY <1>3 DEF Stop, cameraVars, workerVars, evidenceVars, SnapshotIfAvailable
<1>4. CASE ReadRaw
  BY <1>4 DEF ReadRaw, cameraVars, evidenceVars, SnapshotIfAvailable
<1>5. CASE WriteResult
  <2>1. shown' = work.seq /\ wpc' = "emit" /\ shown <= shown'
    BY <1>5 DEF WriteResult
  <2>2. UNCHANGED <<raw, work, events, pending, bundles>>
    BY <1>5 DEF WriteResult, cameraVars, evidenceVars
  <2>3. /\ shown' <= raw'.seq /\ work'.seq <= raw'.seq
        /\ wpc' = "infer" => shown' <= work'.seq
        /\ wpc' = "emit" => shown' = work'.seq
    BY <2>1, <2>2
  <2>4. \A i \in 1 .. Len(events) : events[i].seq \in Nat
    <3>1. \A i \in 1 .. Len(events) : events[i] \in Event OBVIOUS
    <3> QED BY <3>1 DEF Event
  <2>5. \A i \in 1 .. Len(events') : events'[i].seq <= shown'
    BY <2>1, <2>2, <2>4
  <2>6. \A p \in pending' : IF p.annotated THEN p.event.seq <= shown'
                                            ELSE p.event.seq < shown'
    BY <2>1, <2>2 DEF Event
  <2>7. SnapshotIfAvailable'
    BY <2>1, <2>2 DEF SnapshotIfAvailable, Event
  <2> QED BY <2>3, <2>5, <2>6, <2>7
<1>6. CASE Emit
  <2>1. wpc = "emit" /\ wpc' = "idle" /\ UNCHANGED <<raw, work, shown, pending, bundles>>
    BY <1>6 DEF Emit, cameraVars, evidenceVars
  <2>2. \A i \in 1 .. Len(events') : events'[i].seq <= shown'
    <3>1. CASE UNCHANGED events BY <2>1, <3>1
    <3>2. CASE \E e \in Event : e.seq = work.seq /\ events' = Append(events, e)
      BY <2>1, <3>2, AppendIs
    <3> QED BY <1>6, <3>1, <3>2, EmitIs
  <2> QED BY <2>1, <2>2 DEF SnapshotIfAvailable
<1>7. CASE WorkerExits
  BY <1>7 DEF WorkerExits, cameraVars, evidenceVars, SnapshotIfAvailable
<1>8. CASE LoopHead
  BY <1>8 DEF LoopHead, cameraVars, workerVars, SnapshotIfAvailable
<1>9. CASE Accept
  <2>1. /\ events # <<>> /\ events' = Tail(events)
        /\ UNCHANGED <<raw, work, shown, wpc, bundles>>
    BY <1>9 DEF Accept, cameraVars, workerVars
  <2>2. \A i \in 1 .. Len(events') : events'[i].seq <= shown'
    BY <2>1, TailIs
  <2>3. Head(events).seq <= shown /\ Head(events).seq \in Nat
    BY <2>1, TailIs DEF Event
  <2>4. ASSUME NEW p \in pending', p \notin pending
        PROVE  /\ p.event = Head(events)
               /\ ~p.annotated => shown # Head(events).seq
    <3>1. p = [event |-> Head(events), annotated |-> shown = Head(events).seq]
      BY <1>9, <2>4 DEF Accept
    <3> QED BY <3>1
  <2>5. \A p \in pending' : IF p.annotated THEN p.event.seq <= shown'
                                            ELSE p.event.seq < shown'
    BY <2>1, <2>3, <2>4
  <2> QED BY <2>1, <2>2, <2>5 DEF SnapshotIfAvailable
<1>10. CASE DrainDone
  BY <1>10 DEF DrainDone, cameraVars, workerVars, SnapshotIfAvailable
<1>11. CASE FinalizeReady \/ FinalizeAll
  <2>0. PICK ready \in SUBSET pending : \E buf : Submit(ready, buf)
    BY <1>11, SubmitIs
  <2>1. PICK buf : Submit(ready, buf) BY <2>0
  <2>2. UNCHANGED <<raw, work, shown, wpc, events>>
    BY <1>11 DEF FinalizeReady, FinalizeAll, cameraVars, workerVars
  <2>3. pending' \subseteq pending BY <2>1 DEF Submit
  <2>4. ASSUME NEW b \in bundles', b \notin bundles, b.snapshot # "annotated"
        PROVE  shown > b.event.seq
    <3>1. PICK p \in ready : b = Bundle(p, buf) BY <2>1, <2>4 DEF Submit
    <3>2. ~p.annotated /\ b.event = p.event BY <2>4, <3>1, BundleIs
    <3> QED BY <3>1, <3>2 DEF Event
  <2>5. SnapshotIfAvailable' BY <2>2, <2>4 DEF SnapshotIfAvailable
  <2> QED BY <2>2, <2>3, <2>5
<1>12. CASE UNCHANGED vars
  BY <1>12 DEF vars, cameraVars, workerVars, evidenceVars, SnapshotIfAvailable
<1> QED BY <1>1, <1>2, <1>3, <1>4, <1>5, <1>6, <1>7, <1>8, <1>9, <1>10, <1>11,
           <1>12 DEF Next, UseCaseStep, EvidenceStep

\* The annotated snapshot is missing from a bundle only if a newer result replaced the
\* one of its event, whatever is queued, delayed or stopped.
THEOREM SnapshotsAreKept == Spec => []SnapshotIfAvailable
<1>1. Init => Types /\ Ordered
  <2>1. Init => Ordered
    BY DEF Init, Ordered, NoFrame, SnapshotIfAvailable
  <2> QED BY <2>1, TypesInit
<1>2. Types /\ Ordered /\ [Next]_vars => (Types /\ Ordered)'
  BY TypesKept, OrderedKept
<1>3. Ordered => SnapshotIfAvailable BY DEF Ordered
<1> QED BY <1>1, <1>2, <1>3, PTL DEF Spec
-----------------------------------------------------------------------------
(* The time of events and bundles.                                         *)

\* Elements of the queue and of the pending set are events.
LEMMA EventsTyped ==
    ASSUME Types
    PROVE  /\ \A i \in 1 .. Len(events) : events[i].at \in Nat
           /\ \A p \in pending : p.event.at \in Nat
           /\ \A b \in bundles : b.event.at \in Nat
<1>1. \A i \in 1 .. Len(events) : events[i] \in Event BY DEF Types
<1> QED BY <1>1 DEF Types, Event

LEMMA TimelyKept ==
    ASSUME Types, Timely, [Next]_vars
    PROVE  Timely'
<1> USE EvidenceAssumption
<1>0. /\ PostSeconds \in Nat /\ MaxLag \in Nat /\ MaxLatency \in Nat
      /\ Wait \in Nat /\ Wait >= PostSeconds /\ Wait >= MaxLatency
  BY DEF Wait
<1>t. now \in Nat /\ lag \in Nat /\ work.ts \in Nat
  BY DEF Types, Frame
<1>1. CASE Tick
  <2>1. now' = now + 1 /\ lag' \in {lag, lag + 1} BY <1>1 DEF Tick
  <2>2. UNCHANGED <<stopped, events, work, wpc, pc, pending, bundles>>
    BY <1>1 DEF Tick, workerVars, evidenceVars
  <2>3. pc' # "done" => lag' = lag + 1 /\ lag' <= MaxLag
    BY <1>0, <1>1, <1>t, <2>2 DEF Tick
  <2>4. wpc' \in {"infer", "emit"} => now' - work'.ts <= MaxLatency
    BY <1>0, <1>1, <1>t, <2>1, <2>2 DEF Tick
  <2>5. ~stopped => now' - lag' = now - lag
    <3>1. ~stopped => pc' # "done" BY <2>2 DEF Types
    <3> QED BY <1>t, <2>1, <2>3, <3>1
  <2>6. \A b \in bundles : now >= b.event.at + PostSeconds
                              => now' >= b.event.at + PostSeconds
    BY <1>0, <1>t, <2>1, EventsTyped
  <2> QED BY <2>2, <2>3, <2>4, <2>5, <2>6 DEF Timely, QueuedBound, PendingBound
<1>2. CASE Capture
  BY <1>2 DEF Capture, workerVars, evidenceVars, Timely, QueuedBound, PendingBound
<1>3. CASE Stop
  BY <1>3 DEF Stop, workerVars, evidenceVars, Timely
<1>4. CASE ReadRaw
  <2>1. raw.ts \in Nat BY DEF Types, Frame
  <2>2. work' = raw /\ now - raw.ts <= MaxLatency
    BY <1>0, <1>4, <1>t, <2>1 DEF ReadRaw
  <2>3. UNCHANGED <<now, lag, stopped, events, pc, pending, bundles>>
    BY <1>4 DEF ReadRaw, evidenceVars
  <2> QED BY <2>2, <2>3 DEF Timely, QueuedBound, PendingBound
<1>5. CASE WriteResult
  BY <1>5 DEF WriteResult, evidenceVars, Timely, QueuedBound, PendingBound
<1>6. CASE Emit
  <2>1. UNCHANGED <<now, lag, stopped, pc, pending, bundles, work>>
        /\ wpc = "emit" /\ wpc' = "idle"
    BY <1>6 DEF Emit, evidenceVars
  <2>2. now - lag <= work.ts + QueuedBound
    BY <1>0, <1>t, <2>1 DEF Timely, QueuedBound
  <2>3. ~stopped => \A i \in 1 .. Len(events') :
                       now - lag <= events'[i].at + QueuedBound
    <3>1. CASE UNCHANGED events BY <3>1 DEF Timely
    <3>2. CASE \E e \in Event : e.at = work.ts /\ events' = Append(events, e)
      <4>1. PICK e \in Event : e.at = work.ts /\ events' = Append(events, e)
        BY <3>2
      <4>2. events \in Seq(Event) BY DEF Types
      <4>3. ASSUME ~stopped, NEW i \in 1 .. Len(events')
            PROVE  now - lag <= events'[i].at + QueuedBound
        <5>1. CASE i \in 1 .. Len(events)
          BY <4>1, <4>2, <4>3, <5>1, AppendIs DEF Timely
        <5>2. CASE i = Len(events) + 1 BY <2>2, <4>1, <4>2, <5>2, AppendIs
        <5> QED BY <4>1, <4>2, <5>1, <5>2, AppendIs
      <4> QED BY <4>3
    <3> QED BY <1>6, <3>1, <3>2, EmitIs
  <2>4. QueuedBound' = QueuedBound /\ PendingBound' = PendingBound
    BY <2>1 DEF QueuedBound, PendingBound
  <2> QED BY <2>1, <2>3, <2>4 DEF Timely
<1>7. CASE WorkerExits
  BY <1>7 DEF WorkerExits, evidenceVars, Timely, QueuedBound, PendingBound
<1>8. CASE LoopHead
  <2>1. /\ pc = "head" /\ lag' = 0
        /\ UNCHANGED <<now, stopped, events, pending, bundles, wpc, work>>
    BY <1>8 DEF LoopHead, workerVars
  <2>2. ~stopped => pc' = "drain" BY <1>8 DEF LoopHead
  <2>3. now' - lag' <= (now - lag) + MaxLag
    BY <1>0, <1>t, <2>1 DEF Timely
  <2>4. ASSUME ~stopped', NEW i \in 1 .. Len(events')
        PROVE  now' - lag' <= events'[i].at + QueuedBound'
    <3>1. now - lag <= events[i].at + MaxLatency /\ events[i].at \in Nat
      BY <1>0, <1>t, <2>1, <2>4, EventsTyped DEF Timely, QueuedBound
    <3> QED BY <1>0, <1>t, <2>1, <2>2, <2>3, <2>4, <3>1 DEF QueuedBound
  <2>5. ASSUME ~stopped', NEW p \in pending'
        PROVE  now' - lag' <= p.event.at + PendingBound'
    <3>1. now - lag <= p.event.at + PostSeconds /\ p.event.at \in Nat
      BY <2>1, <2>5, EventsTyped DEF Timely, PendingBound
    <3> QED BY <1>0, <1>t, <2>1, <2>2, <2>3, <2>5, <3>1 DEF PendingBound
  <2> QED BY <1>0, <2>1, <2>4, <2>5 DEF Timely
<1>9. CASE Accept
  <2>1. /\ pc = "drain" /\ events # <<>> /\ events' = Tail(events)
        /\ UNCHANGED <<now, lag, stopped, pc, bundles, wpc, work>>
        /\ events \in Seq(Event)
    BY <1>9 DEF Accept, workerVars, Types
  <2>2. ~stopped => \A i \in 1 .. Len(events') :
                       now - lag <= events'[i].at + QueuedBound
    BY <2>1, TailIs DEF Timely
  <2>3. ASSUME NEW p \in pending', p \notin pending, ~stopped
        PROVE  now - lag <= p.event.at + PendingBound
    <3>1. p.event = events[1] /\ 1 \in 1 .. Len(events)
      BY <1>9, <2>1, <2>3, TailIs DEF Accept
    <3>2. now - lag <= p.event.at + MaxLatency + MaxLag /\ p.event.at \in Nat
      BY <1>0, <2>1, <2>3, <3>1, EventsTyped DEF Timely, QueuedBound
    <3>3. PendingBound = Wait + MaxLag
      BY <2>1 DEF PendingBound
    <3> QED BY <1>0, <1>t, <3>2, <3>3
  <2>4. QueuedBound' = QueuedBound /\ PendingBound' = PendingBound
    BY <2>1 DEF QueuedBound, PendingBound
  <2> QED BY <2>1, <2>2, <2>3, <2>4 DEF Timely
<1>10. CASE DrainDone
  <2>1. /\ pc' = "finalize" /\ pc = "drain" /\ events' = <<>>
        /\ UNCHANGED <<now, lag, stopped, pending, bundles, wpc, work>>
    BY <1>10 DEF DrainDone, workerVars
  <2> QED BY <2>1 DEF Timely, PendingBound
<1>11. CASE FinalizeReady
  <2>1. /\ pc = "finalize" /\ pc' = "head"
        /\ UNCHANGED <<now, lag, stopped, events, wpc, work>>
    BY <1>11 DEF FinalizeReady, workerVars
  <2>2. PICK buf : Submit({p \in pending : Ready(p)}, buf)
    BY <1>11 DEF FinalizeReady
  <2>3. QueuedBound' = QueuedBound BY <2>1 DEF QueuedBound
  <2>4. ASSUME NEW p \in pending'
        PROVE  now - lag <= p.event.at + PendingBound'
    <3>1. p \in pending /\ ~Ready(p) BY <2>2, <2>4 DEF Submit
    <3>2. p.event.at \in Nat BY <3>1, EventsTyped
    <3> QED BY <1>0, <1>t, <2>1, <3>1, <3>2 DEF Ready, PendingBound
  <2>5. ASSUME NEW b \in bundles', b \notin bundles
        PROVE  now >= b.event.at + PostSeconds
    <3>1. PICK p \in pending : Ready(p) /\ b = Bundle(p, buf)
      BY <2>2, <2>5 DEF Submit
    <3> QED BY <3>1, BundleIs DEF Ready
  <2> QED BY <2>1, <2>3, <2>4, <2>5 DEF Timely
<1>12. CASE FinalizeAll
  <2>1. stopped /\ stopped' = stopped /\ pc' = "done"
    BY <1>12 DEF FinalizeAll, Types
  <2>2. UNCHANGED <<now, wpc, work>> BY <1>12 DEF FinalizeAll, workerVars
  <2> QED BY <2>1, <2>2 DEF Timely
<1>13. CASE UNCHANGED vars
  BY <1>13 DEF vars, workerVars, evidenceVars, Timely, QueuedBound, PendingBound
<1> QED BY <1>1, <1>2, <1>3, <1>4, <1>5, <1>6, <1>7, <1>8, <1>9, <1>10, <1>11,
           <1>12, <1>13 DEF Next, UseCaseStep, EvidenceStep

\* While the process runs, a bundle waits for its post-roll, and an event waits for no
\* more than two rounds of the loop beyond what it has to wait for.
THEOREM BundlesArePunctual == Spec => []BundlesArePrompt
<1>1. Init => Types /\ Timely
  <2>1. Init => Timely
    BY EvidenceAssumption DEF Init, Timely, NoFrame
  <2> QED BY <2>1, TypesInit
<1>2. Types /\ Timely /\ [Next]_vars => (Types /\ Timely)'
  BY TypesKept, TimelyKept
<1>3. Types /\ Timely => BundlesArePrompt
  <2> SUFFICES ASSUME Types, Timely, ~stopped
               PROVE  /\ \A b \in bundles : now >= b.event.at + PostSeconds
                      /\ \A e \in Range(events) \cup {p.event : p \in pending} :
                            now <= e.at + Wait + 2 * MaxLag
    BY DEF BundlesArePrompt
  <2>1. /\ now \in Nat /\ lag \in Nat /\ lag <= MaxLag /\ PostSeconds \in Nat
        /\ MaxLag \in Nat /\ MaxLatency \in Nat
        /\ Wait \in Nat /\ Wait >= PostSeconds /\ Wait >= MaxLatency
    BY EvidenceAssumption DEF Types, Timely, Wait
  <2>2. ASSUME NEW i \in 1 .. Len(events)
        PROVE  now <= events[i].at + Wait + 2 * MaxLag
    <3>1. events[i].at \in Nat BY EventsTyped
    <3>2. now - lag <= events[i].at + QueuedBound BY DEF Timely
    <3>3. QueuedBound \in Nat /\ QueuedBound <= MaxLatency + MaxLag
      BY <2>1 DEF QueuedBound
    <3> QED BY SMTT(30), <2>1, <3>1, <3>2, <3>3
  <2>3. ASSUME NEW p \in pending
        PROVE  now <= p.event.at + Wait + 2 * MaxLag
    <3>1. p.event.at \in Nat BY EventsTyped
    <3>2. now - lag <= p.event.at + PendingBound BY DEF Timely
    <3>3. /\ PendingBound \in Nat
          /\ PendingBound <= Wait + MaxLag
      BY <2>1 DEF PendingBound
    <3> QED BY SMTT(30), <2>1, <3>1, <3>2, <3>3
  <2>4. Range(events) = {events[i] : i \in 1 .. Len(events)}
    BY DEF Range, Types
  <2> QED BY <2>2, <2>3, <2>4 DEF Timely
<1> QED BY <1>1, <1>2, <1>3, PTL DEF Spec
-----------------------------------------------------------------------------
(* Conservation of events.                                                 *)

\* The queue by its ids.
LEMMA QueuedIs ==
    ASSUME Types
    PROVE  Queued = {events[i].id : i \in 1 .. Len(events)}
BY DEF Queued, Types

\* Steps that move no event.
LEMMA SamePlaces ==
    ASSUME Apart, UNCHANGED <<events, pending, bundles, dropped, emitted>>
    PROVE  Apart'
<1>1. Queued' = Queued /\ Accepted' = Accepted /\ Bundled' = Bundled
  BY DEF Queued, Accepted, Bundled
<1> QED BY <1>1 DEF Apart

LEMMA EmitKeepsApart ==
    ASSUME Types, Apart, Emit
    PROVE  Apart'
<1>1. UNCHANGED <<pending, bundles>> BY DEF Emit, evidenceVars
<1>2. CASE UNCHANGED <<events, dropped, emitted>>
  BY <1>1, <1>2, SamePlaces
<1>3. ASSUME NEW e \in Event, e.id = emitted + 1, emitted' = emitted + 1,
             \/ events' = Append(events, e) /\ UNCHANGED dropped
             \/ dropped' = dropped \cup {e.id} /\ UNCHANGED events
      PROVE  Apart'
  <2> DEFINE All == Queued \cup Accepted \cup Bundled \cup dropped
  <2>1. Accepted' = Accepted /\ Bundled' = Bundled
    BY <1>1 DEF Accepted, Bundled
  <2>2. emitted \in Nat /\ events \in Seq(Event) BY DEF Types
  <2>3. e.id \notin All BY <1>3, <2>2 DEF Apart
  <2>4. 1 .. emitted' = (1 .. emitted) \cup {e.id} BY <1>3, <2>2
  <2>5. CASE events' = Append(events, e) /\ UNCHANGED dropped
    <3>1. Queued' = Queued \cup {e.id}
      <4>1. Queued = {events[i].id : i \in 1 .. Len(events)} BY QueuedIs
      <4>2. Queued' = {events'[i].id : i \in 1 .. Len(events) + 1}
        BY <2>2, <2>5, AppendIs DEF Queued
      <4> QED BY <2>2, <2>5, <4>1, <4>2, AppendIs
    <3>2. \A i \in 1 .. Len(events) : events[i].id \in Queued
      BY QueuedIs
    <3>3. ASSUME NEW i \in 1 .. Len(events'), NEW j \in 1 .. Len(events'),
                 events'[i].id = events'[j].id
          PROVE  i = j
      <4>1. CASE i \in 1 .. Len(events) /\ j \in 1 .. Len(events)
        BY <2>2, <2>5, <3>3, <4>1, AppendIs DEF Apart
      <4>2. CASE i = Len(events) + 1 /\ j \in 1 .. Len(events)
        BY <2>2, <2>3, <2>5, <3>2, <3>3, <4>2, AppendIs
      <4>3. CASE i \in 1 .. Len(events) /\ j = Len(events) + 1
        BY <2>2, <2>3, <2>5, <3>2, <3>3, <4>3, AppendIs
      <4>4. CASE i = Len(events) + 1 /\ j = Len(events) + 1 BY <4>4
      <4> QED BY <2>2, <2>5, <4>1, <4>2, <4>3, <4>4, AppendIs
    <3>4. dropped' = dropped BY <2>5
    <3>5. /\ Queued' \cap (Accepted \cup Bundled \cup dropped)' = {}
          /\ (Queued \cup Accepted \cup Bundled \cup dropped)' = 1 .. emitted'
      BY <2>1, <2>3, <2>4, <3>1, <3>4 DEF Apart
    <3> QED BY <1>1, <2>1, <3>3, <3>4, <3>5 DEF Apart
  <2>6. CASE dropped' = dropped \cup {e.id} /\ UNCHANGED events
    <3>1. Queued' = Queued BY <2>6 DEF Queued
    <3>2. /\ (Queued \cap (Accepted \cup Bundled \cup dropped))' = {}
          /\ (Accepted \cap (Bundled \cup dropped))' = {}
          /\ (Bundled \cap dropped)' = {}
          /\ (Queued \cup Accepted \cup Bundled \cup dropped)' = 1 .. emitted'
      BY <2>1, <2>3, <2>4, <2>6, <3>1 DEF Apart
    <3> QED BY <1>1, <2>6, <3>2 DEF Apart
  <2> QED BY <1>3, <2>5, <2>6
<1>4. CASE ~UNCHANGED <<events, dropped, emitted>>
  <2>1. PICK e \in Event :
            /\ e = [id |-> emitted + 1, seq |-> work.seq, at |-> work.ts]
            /\ emitted' = emitted + 1
            /\ \/ events' = Append(events, e) /\ UNCHANGED dropped
               \/ dropped' = dropped \cup {e.id} /\ UNCHANGED events
    BY <1>4, EmitIs
  <2>2. e.id = emitted + 1 BY <2>1
  <2> QED BY <1>3, <2>1, <2>2
<1> QED BY <1>2, <1>4

LEMMA AcceptKeepsApart ==
    ASSUME Types, Apart, Accept
    PROVE  Apart'
<1>1. /\ events # <<>> /\ events' = Tail(events) /\ events \in Seq(Event)
      /\ UNCHANGED <<bundles, dropped, emitted>>
  BY DEF Accept, workerVars, Types
<1> DEFINE h == events[1].id
<1>2. PICK x : x.event = events[1] /\ pending' = pending \cup {x}
  <2>1. [event |-> Head(events), annotated |-> shown = Head(events).seq].event
           = events[1]
    BY <1>1, TailIs
  <2> QED BY <2>1 DEF Accept
<1>3. Queued = {events[i].id : i \in 1 .. Len(events)} BY QueuedIs
<1>4. Queued' = {events[i].id : i \in 2 .. Len(events)}
  <2>1. Queued' = {Tail(events)[i].id : i \in 1 .. Len(events) - 1}
    BY <1>1, TailIs DEF Queued
  <2>2. \A i \in 2 .. Len(events) : /\ i - 1 \in 1 .. Len(events) - 1
                                    /\ Tail(events)[i - 1] = events[i]
    BY <1>1, TailIs
  <2>3. \A i \in 1 .. Len(events) - 1 : /\ i + 1 \in 2 .. Len(events)
                                        /\ Tail(events)[i] = events[i + 1]
    BY <1>1, TailIs
  <2> QED BY <2>1, <2>2, <2>3
<1>5. h \in Queued /\ h \notin Queued' /\ Queued = Queued' \cup {h}
  BY <1>1, <1>3, <1>4, TailIs DEF Apart
<1>6. Accepted' = Accepted \cup {h} BY <1>2 DEF Accepted
<1>7. Bundled' = Bundled BY <1>1 DEF Bundled
<1>8. \A i, j \in 1 .. Len(events') : events'[i].id = events'[j].id => i = j
  BY <1>1, TailIs DEF Apart
<1>9. h \notin Accepted BY <1>5 DEF Apart
<1>10. \A p, q \in pending' : p.event.id = q.event.id => p = q
  BY <1>2, <1>9 DEF Apart, Accepted
<1> HIDE DEF h
<1>11. /\ (Queued \cap (Accepted \cup Bundled \cup dropped))' = {}
       /\ (Accepted \cap (Bundled \cup dropped))' = {}
       /\ (Queued \cup Accepted \cup Bundled \cup dropped)' = 1 .. emitted'
  BY <1>1, <1>5, <1>6, <1>7 DEF Apart
<1> QED BY <1>1, <1>7, <1>8, <1>10, <1>11 DEF Apart

LEMMA SubmitKeepsApart ==
    ASSUME Apart, NEW ready \in SUBSET pending, NEW buf, Submit(ready, buf),
           UNCHANGED <<events, dropped, emitted>>
    PROVE  Apart'
<1> DEFINE R == {p.event.id : p \in ready}
<1>1. /\ bundles' = bundles \cup {Bundle(p, buf) : p \in ready}
      /\ pending' = pending \ ready
  BY DEF Submit
<1>2. \A p \in ready : Bundle(p, buf).event.id = p.event.id BY BundleIs
<1>3. Queued' = Queued BY DEF Queued
<1>4. R \subseteq Accepted BY DEF Accepted
<1>5. Accepted' = Accepted \ R
  <2>1. \A p \in pending \ ready : p.event.id \notin R BY DEF Apart
  <2> QED BY <1>1, <2>1 DEF Accepted
<1>6. Bundled' = Bundled \cup R BY <1>1, <1>2 DEF Bundled
<1>7. ASSUME NEW b \in bundles', NEW c \in bundles', b.event.id = c.event.id
      PROVE  b = c
  <2>1. CASE b \in bundles /\ c \in bundles BY <1>7, <2>1 DEF Apart
  <2>a. ASSUME NEW x \in bundles, NEW y \in bundles', y \notin bundles
        PROVE  x.event.id # y.event.id
    <3>1. y.event.id \in Accepted BY <1>1, <1>2, <1>4, <2>a
    <3>2. x.event.id \in Bundled BY DEF Bundled
    <3>3. Accepted \cap Bundled = {} BY DEF Apart
    <3> QED BY <3>1, <3>2, <3>3
  <2>2. CASE b \in bundles /\ c \notin bundles BY <1>7, <2>2, <2>a
  <2>3. CASE b \notin bundles /\ c \in bundles BY <1>7, <2>3, <2>a
  <2>4. CASE b \notin bundles /\ c \notin bundles
    <3>1. PICK p \in ready : b = Bundle(p, buf) BY <1>1, <2>4
    <3>2. PICK q \in ready : c = Bundle(q, buf) BY <1>1, <2>4
    <3>3. p = q BY <1>2, <1>7, <3>1, <3>2 DEF Apart
    <3> QED BY <3>1, <3>2, <3>3
  <2> QED BY <2>1, <2>2, <2>3, <2>4
<1>8. \A p, q \in pending' : p.event.id = q.event.id => p = q
  BY <1>1 DEF Apart
<1> HIDE DEF R
<1>9. /\ (Queued \cap (Accepted \cup Bundled \cup dropped))' = {}
      /\ (Accepted \cap (Bundled \cup dropped))' = {}
      /\ (Bundled \cap dropped)' = {}
      /\ (Queued \cup Accepted \cup Bundled \cup dropped)' = 1 .. emitted'
  BY <1>3, <1>4, <1>5, <1>6 DEF Apart
<1> QED BY <1>7, <1>8, <1>9 DEF Apart

LEMMA ApartKept ==
    ASSUME Types, Apart, [Next]_vars
    PROVE  Apart'
<1>1. CASE Emit BY <1>1, EmitKeepsApart
<1>2. CASE Accept BY <1>2, AcceptKeepsApart
<1>3. CASE FinalizeReady \/ FinalizeAll
  <2>0. PICK ready \in SUBSET pending : \E buf : Submit(ready, buf)
    BY <1>3, SubmitIs
  <2>1. PICK buf : Submit(ready, buf) BY <2>0
  <2>2. UNCHANGED <<events, dropped, emitted>>
    BY <1>3 DEF FinalizeReady, FinalizeAll, workerVars
  <2> QED BY <2>1, <2>2, SubmitKeepsApart
<1>4. CASE Tick \/ Capture \/ Stop
  BY <1>4, SamePlaces DEF Tick, Capture, Stop, workerVars, evidenceVars
<1>5. CASE ReadRaw \/ WriteResult \/ WorkerExits
  BY <1>5, SamePlaces DEF ReadRaw, WriteResult, WorkerExits, evidenceVars
<1>6. CASE LoopHead \/ DrainDone
  BY <1>6, SamePlaces DEF LoopHead, DrainDone, workerVars
<1>7. CASE UNCHANGED vars
  BY <1>7, SamePlaces DEF vars, workerVars, evidenceVars
<1> QED BY <1>1, <1>2, <1>3, <1>4, <1>5, <1>6, <1>7
        DEF Next, UseCaseStep, EvidenceStep
-----------------------------------------------------------------------------
(* From ids that are apart to numbers.                                     *)

\* A set and its image under a function without repetitions have one size.
LEMMA ImageSize ==
    ASSUME NEW S, NEW I, IsFiniteSet(I), NEW g \in [S -> I],
           I = {g[x] : x \in S}, \A x, y \in S : g[x] = g[y] => x = y
    PROVE  Cardinality(S) = Cardinality(I)
<1>1. g \in Injection(S, I) BY DEF Injection, IsInjective
<1>2. g \in Surjection(S, I) BY DEF Surjection
<1> QED BY <1>1, <1>2, FS_Injection

LEMMA IntervalSize ==
    ASSUME NEW n \in Nat
    PROVE  IsFiniteSet(1 .. n) /\ Cardinality(1 .. n) = n
BY FS_Interval

\* Two finite sets that are apart.
LEMMA TwoApart ==
    ASSUME NEW A, NEW B, IsFiniteSet(A), IsFiniteSet(B), A \cap B = {}
    PROVE  /\ IsFiniteSet(A \cup B)
           /\ Cardinality(A \cup B) = Cardinality(A) + Cardinality(B)
<1>1. Cardinality(A) \in Nat /\ Cardinality(B) \in Nat BY FS_CardinalityType
<1>2. Cardinality(A \cap B) = 0 BY FS_EmptySet
<1>3. /\ IsFiniteSet(A \cup B)
      /\ Cardinality(A \cup B)
            = Cardinality(A) + Cardinality(B) - Cardinality(A \cap B)
  BY FS_Union
<1> QED BY <1>1, <1>2, <1>3

\* Four sets that are apart and fill an interval.
Fill(n, A, B, C, D) ==
    /\ A \cup B \cup C \cup D = 1 .. n
    /\ A \cap (B \cup C \cup D) = {} /\ B \cap (C \cup D) = {} /\ C \cap D = {}

SizesFill(n, A, B, C, D) ==
    /\ IsFiniteSet(A) /\ IsFiniteSet(B) /\ IsFiniteSet(C) /\ IsFiniteSet(D)
    /\ Cardinality(A) + Cardinality(B) + Cardinality(C) + Cardinality(D) = n

LEMMA FourApart ==
    ASSUME NEW n \in Nat, NEW A, NEW B, NEW C, NEW D, Fill(n, A, B, C, D)
    PROVE  SizesFill(n, A, B, C, D)
<1>1. IsFiniteSet(1 .. n) /\ Cardinality(1 .. n) = n BY IntervalSize
<1>2. /\ A \in SUBSET (1 .. n) /\ B \in SUBSET (1 .. n)
      /\ C \in SUBSET (1 .. n) /\ D \in SUBSET (1 .. n)
  BY DEF Fill
<1>3. IsFiniteSet(A) /\ IsFiniteSet(B) /\ IsFiniteSet(C) /\ IsFiniteSet(D)
  BY <1>1, <1>2, FS_Subset
<1>4. /\ Cardinality(A) \in Nat /\ Cardinality(B) \in Nat
      /\ Cardinality(C) \in Nat /\ Cardinality(D) \in Nat
  BY <1>3, FS_CardinalityType
<1> DEFINE CD == C \cup D
           BCD == B \cup CD
<1>5. IsFiniteSet(CD) /\ Cardinality(CD) = Cardinality(C) + Cardinality(D)
  <2>1. C \cap D = {} BY DEF Fill
  <2> QED BY <1>3, <2>1, TwoApart
<1>6. B \cap CD = {} BY DEF Fill
<1>7. A \cap BCD = {} /\ A \cup BCD = 1 .. n BY DEF Fill
<1> HIDE DEF CD
<1>8. IsFiniteSet(BCD) /\ Cardinality(BCD) = Cardinality(B) + Cardinality(CD)
  BY <1>3, <1>5, <1>6, TwoApart
<1> HIDE DEF BCD
<1>9. Cardinality(A \cup BCD) = Cardinality(A) + Cardinality(BCD)
  BY <1>3, <1>7, <1>8, TwoApart
<1>10. Cardinality(A \cup BCD) = n BY <1>1, <1>7
<1>11. n = Cardinality(A) + (Cardinality(B) + (Cardinality(C) + Cardinality(D)))
  BY <1>5, <1>8, <1>9, <1>10
<1> QED BY <1>3, <1>4, <1>11 DEF SizesFill

\* Every confirmed event is at exactly one place, and none is bundled twice, for any
\* number of events and any size of the queue.
THEOREM EventsAreAlwaysConserved == Spec => []EventsAreConserved
<1>1. Init => Types /\ Apart
  <2>1. Init => Apart
    <3> SUFFICES ASSUME Init PROVE Apart
      OBVIOUS
    <3>1. /\ events = <<>> /\ pending = {} /\ bundles = {} /\ dropped = {}
          /\ emitted = 0
      BY DEF Init
    <3>2. Queued = {} /\ Accepted = {} /\ Bundled = {}
      BY <3>1 DEF Queued, Accepted, Bundled
    <3> QED BY <3>1, <3>2 DEF Apart
  <2> QED BY <2>1, TypesInit
<1>2. Types /\ Apart /\ [Next]_vars => (Types /\ Apart)'
  BY TypesKept, ApartKept
<1>3. Types /\ Apart => EventsAreConserved
  <2> SUFFICES ASSUME Types, Apart PROVE EventsAreConserved
    OBVIOUS
  <2>1. emitted \in Nat /\ events \in Seq(Event) /\ Len(events) \in Nat
    BY DEF Types
  <2>2. SizesFill(emitted, Queued, Accepted, Bundled, dropped)
    <3>1. Fill(emitted, Queued, Accepted, Bundled, dropped) BY DEF Apart, Fill
    <3> QED BY <2>1, <3>1, FourApart
  <2>3. Cardinality(Queued) = Len(events)
    <3> DEFINE g == [i \in 1 .. Len(events) |-> events[i].id]
    <3>1. Queued = {g[i] : i \in 1 .. Len(events)} BY QueuedIs
    <3>2. g \in [1 .. Len(events) -> Queued] BY <3>1
    <3>3. \A i, j \in 1 .. Len(events) : g[i] = g[j] => i = j BY DEF Apart
    <3> HIDE DEF g
    <3>4. Cardinality(1 .. Len(events)) = Cardinality(Queued)
      BY <2>2, <3>1, <3>2, <3>3, ImageSize DEF SizesFill
    <3>5. Cardinality(1 .. Len(events)) = Len(events) BY <2>1, IntervalSize
    <3> QED BY <3>4, <3>5
  <2>4. Cardinality(Accepted) = Cardinality(pending)
    <3> DEFINE g == [p \in pending |-> p.event.id]
    <3>1. Accepted = {g[p] : p \in pending} BY DEF Accepted
    <3>2. g \in [pending -> Accepted] BY <3>1
    <3>3. \A p, q \in pending : g[p] = g[q] => p = q BY DEF Apart
    <3> HIDE DEF g
    <3> QED BY <2>2, <3>1, <3>2, <3>3, ImageSize DEF SizesFill
  <2>5. Cardinality(Bundled) = Cardinality(bundles)
    <3> DEFINE g == [b \in bundles |-> b.event.id]
    <3>1. Bundled = {g[b] : b \in bundles} BY DEF Bundled
    <3>2. g \in [bundles -> Bundled] BY <3>1
    <3>3. \A b, c \in bundles : g[b] = g[c] => b = c BY DEF Apart
    <3> HIDE DEF g
    <3> QED BY <2>2, <3>1, <3>2, <3>3, ImageSize DEF SizesFill
  <2> QED BY <2>2, <2>3, <2>4, <2>5 DEF Apart, EventsAreConserved, SizesFill
<1> QED BY <1>1, <1>2, <1>3, PTL DEF Spec
-----------------------------------------------------------------------------
(* The rolling buffer.                                                     *)

Retention == PreSeconds + PostSeconds + Slack

\* Seconds of k periods.
Periods(k) == k * Period

\* The buffer is large enough for the frames sampled within the retention.
Roomy == Periods(MaxFrames - 1) > Retention

Newest(buf) == buf[Len(buf)]

\* Samples are a period apart: the frame of one was captured after the last.
Spaced(buf) ==
    \A i, j \in 1 .. Len(buf) :
        i < j => buf[j].ts >= buf[i].ts + Periods(j - i - 1)

\* The next sample is a period after the last.
Due(buf, next) ==
    \A i \in 1 .. Len(buf) : next >= buf[i].ts + Periods(Len(buf) + 1 - i)

\* The buffer holds the newest frame ever sampled, and all within the retention of it.
Covers(buf, frames) ==
    /\ \A i \in 1 .. Len(buf) : buf[i] \in frames
    /\ frames # {} => Len(buf) > 0
    /\ \A g \in frames :
          /\ \/ g = Newest(buf)
             \/ g.seq < Newest(buf).seq /\ g.ts < Newest(buf).ts
          /\ Newest(buf).ts - g.ts <= Retention => \E i \in 1 .. Len(buf) : buf[i] = g

\* q is full without its first k frames.
SuffixOf(q, full, k) ==
    /\ q \in Seq(Frame) /\ Len(q) \in Nat \ {0}
    /\ k \in 0 .. Len(full) - 1 /\ Len(q) = Len(full) - k
    /\ \A i \in 1 .. Len(q) : q[i] = full[i + k]

LEMMA OneMore ==
    ASSUME NEW a \in Int
    PROVE  /\ Periods(a + 1) = Periods(a) + Period /\ Periods(1) = Period
           /\ Periods(a) \in Int /\ Period \in Nat \ {0}
BY EvidenceAssumption DEF Periods

\* The size the constructor gives the buffer: max(4, ceil(retention * fps * 2)).
BufferSize == MaxFrames >= 4 /\ Periods(MaxFrames) >= 2 * Retention

\* It is roomy whether a period is longer than the retention or not.
LEMMA SizeIsRoomy ==
    ASSUME BufferSize
    PROVE  Roomy
<1>1. MaxFrames \in Nat /\ Period \in Nat /\ Period > 0 /\ Retention \in Nat
  BY EvidenceAssumption DEF Retention
<1>2. PICK n \in Nat : MaxFrames - 1 = n + 3 BY <1>1 DEF BufferSize
<1>3. PICK d \in Nat : d = n * Period BY <1>1
<1>4. Periods(MaxFrames - 1) = d + 3 * Period
  <2>1. Periods(MaxFrames - 1) = (n + 3) * Period BY <1>2 DEF Periods
  <2> QED BY <1>1, <1>3, <2>1
<1>5. Periods(MaxFrames) = d + 4 * Period
  <2>1. (MaxFrames - 1) + 1 = MaxFrames /\ MaxFrames - 1 \in Int BY <1>1
  <2>2. Periods(MaxFrames) = Periods(MaxFrames - 1) + Period BY <2>1, OneMore
  <2> QED BY <1>1, <1>4, <2>2
<1>6. d + 4 * Period >= 2 * Retention BY <1>5 DEF BufferSize
<1>7. d + 3 * Period > Retention BY <1>1, <1>6
<1> QED BY <1>4, <1>7 DEF Roomy

\* A frame more.
LEMMA AppendFrame ==
    ASSUME NEW q \in Seq(Frame), NEW f \in Frame
    PROVE  /\ Append(q, f) \in Seq(Frame) /\ Len(Append(q, f)) = Len(q) + 1
           /\ \A i \in 1 .. Len(q) : Append(q, f)[i] = q[i] /\ q[i] \in Frame
           /\ Append(q, f)[Len(q) + 1] = f
           /\ Len(q) \in Nat
OBVIOUS

\* A suffix of a suffix is one.
LEMMA SuffixOfSuffix ==
    ASSUME NEW full \in Seq(Frame), NEW q, NEW r, NEW k \in Nat, NEW m \in Nat,
           SuffixOf(q, full, k), SuffixOf(r, q, m)
    PROVE  SuffixOf(r, full, k + m)
<1>1. Len(full) \in Nat /\ Len(q) \in Nat /\ Len(r) \in Nat
  BY DEF SuffixOf
<1>2. /\ k + m \in 0 .. Len(full) - 1 /\ Len(r) = Len(full) - (k + m)
  BY <1>1 DEF SuffixOf
<1>3. \A i \in 1 .. Len(r) : i + m \in 1 .. Len(q) /\ (i + m) + k = i + (k + m)
  BY <1>1 DEF SuffixOf
<1>4. \A i \in 1 .. Len(r) : r[i] = full[i + (k + m)]
  BY <1>3 DEF SuffixOf
<1> QED BY <1>2, <1>4 DEF SuffixOf

\* append drops the frames before the first it retains; with a roomy buffer, all of
\* these are beyond the retention.
LEMMA BufferedIs ==
    ASSUME Roomy, NEW buf \in Seq(Frame), NEW f \in Frame, Len(buf) <= MaxFrames,
           Spaced(Append(buf, f))
    PROVE  /\ \E k \in Nat : /\ SuffixOf(Buffered(buf, f), Append(buf, f), k)
                             /\ \A j \in 1 .. k : ~Retained(f, Append(buf, f)[j])
           /\ Len(Buffered(buf, f)) <= MaxFrames
<1> DEFINE full == Append(buf, f)
           cut == IF Len(full) > MaxFrames THEN 1 ELSE 0
           bounded == IF Len(full) > MaxFrames THEN Tail(full) ELSE full
           Kept == {i \in DOMAIN bounded : Retained(f, bounded[i])}
           first == CHOOSE i \in DOMAIN bounded :
                       /\ Retained(f, bounded[i])
                       /\ \A j \in 1 .. i - 1 : ~Retained(f, bounded[j])
           new == SubSeq(bounded, first, Len(bounded))
<1>1. /\ full \in Seq(Frame) /\ Len(full) = Len(buf) + 1 /\ Len(buf) \in Nat
      /\ full[Len(full)] = f /\ f.ts \in Nat
      /\ MaxFrames \in Nat \ {0} /\ Retention \in Nat
  BY AppendFrame, EvidenceAssumption DEF Frame, Retention
<1>2. Buffered(buf, f) = new BY DEF Buffered
<1> HIDE DEF full
<1>3. SuffixOf(bounded, full, cut) /\ Len(bounded) <= MaxFrames
  <2>1. CASE Len(full) > MaxFrames
    <3>1. /\ bounded = Tail(full) /\ cut = 1
          /\ Tail(full) \in Seq(Frame) /\ Len(Tail(full)) = Len(full) - 1
          /\ \A i \in 1 .. Len(full) - 1 : Tail(full)[i] = full[i + 1]
      BY <1>1, <2>1
    <3> HIDE DEF bounded, cut
    <3> QED BY <1>1, <2>1, <3>1 DEF SuffixOf
  <2>2. CASE ~(Len(full) > MaxFrames)
    <3>1. bounded = full /\ cut = 0 BY <2>2
    <3> HIDE DEF bounded, cut
    <3> QED BY <1>1, <2>2, <3>1 DEF SuffixOf
  <2> QED BY <2>1, <2>2
<1>4. \A j \in 1 .. cut : ~Retained(f, full[j])
  <2> SUFFICES ASSUME Len(full) > MaxFrames PROVE ~Retained(f, full[1])
    OBVIOUS
  <2>1. Len(full) = MaxFrames + 1 BY <1>1
  <2>2. f.ts >= full[1].ts + Periods(MaxFrames - 1)
    <3>1. 1 \in 1 .. Len(full) /\ Len(full) \in 1 .. Len(full) /\ 1 < Len(full)
      BY <1>1, <2>1
    <3>2. Len(full) - 1 - 1 = MaxFrames - 1 BY <1>1, <2>1
    <3>3. Spaced(full) BY DEF full
    <3> QED BY <1>1, <3>1, <3>2, <3>3 DEF Spaced
  <2>3. full[1].ts \in Nat /\ Periods(MaxFrames - 1) \in Int
    <3>1. full[1] \in Frame BY <1>1
    <3>2. MaxFrames - 1 \in Int BY <1>1
    <3> QED BY <3>1, <3>2, OneMore DEF Frame
  <2> HIDE DEF cut, bounded, Kept, first
  <2>4. f.ts - full[1].ts > Retention BY <1>1, <2>2, <2>3 DEF Roomy
  <2> QED BY <1>1, <2>3, <2>4 DEF Retained, Retention
<1> HIDE DEF bounded, cut
<1>5. /\ bounded \in Seq(Frame) /\ Len(bounded) \in Nat \ {0}
      /\ DOMAIN bounded = 1 .. Len(bounded)
      /\ cut \in Nat /\ bounded[Len(bounded)] = f
  BY <1>1, <1>3 DEF SuffixOf
<1>6. Len(bounded) \in Kept
  <2>1. f.ts - f.ts = 0 BY <1>1
  <2>2. Retained(f, f) BY <1>1, <2>1 DEF Retained, Retention
  <2> QED BY <1>5, <2>2
<1>7. /\ first \in 1 .. Len(bounded)
      /\ \A j \in 1 .. first - 1 : ~Retained(f, bounded[j])
  <2>1. Kept \subseteq Nat BY <1>5
  <2>2. PICK n \in Kept : \A m \in Kept : n <= m
    <3> HIDE DEF Kept
    <3> QED BY <1>6, <2>1, Least
  <2>3. \A j \in 1 .. n - 1 : j \in DOMAIN bounded /\ j \notin Kept
    BY <1>5, <2>1, <2>2
  <2>4. n \in DOMAIN bounded /\ Retained(f, bounded[n])
        /\ \A j \in 1 .. n - 1 : ~Retained(f, bounded[j])
    BY <2>2, <2>3
  <2> HIDE DEF Kept
  <2> QED BY <1>5, <2>4
<1> HIDE DEF first
<1>8. SuffixOf(new, bounded, first - 1) /\ Len(new) <= Len(bounded)
  <2>1. /\ first \in Int /\ Len(bounded) \in Int /\ first <= Len(bounded)
        /\ \A i \in first .. Len(bounded) : bounded[i] \in Frame
    BY <1>5, <1>7
  <2>2. /\ new \in Seq(Frame) /\ Len(new) = Len(bounded) - first + 1
        /\ \A i \in 1 .. Len(bounded) - first + 1 : new[i] = bounded[first + i - 1]
    BY <2>1, SubSeqProperties
  <2> HIDE DEF new
  <2>3. /\ Len(new) \in Nat \ {0} /\ first - 1 \in 0 .. Len(bounded) - 1
        /\ Len(new) = Len(bounded) - (first - 1)
    BY <1>5, <1>7, <2>2
  <2>4. \A i \in 1 .. Len(new) : first + i - 1 = i + (first - 1)
    BY <1>5, <1>7, <2>3
  <2> QED BY <1>5, <1>7, <2>2, <2>3, <2>4 DEF SuffixOf
<1> HIDE DEF new
<1>9. first - 1 \in Nat BY <1>5, <1>7
<1>10. SuffixOf(new, full, cut + (first - 1))
  BY <1>1, <1>3, <1>5, <1>8, <1>9, SuffixOfSuffix
<1>11. ASSUME NEW j \in 1 .. cut + (first - 1)
       PROVE  ~Retained(f, full[j])
  <2>1. CASE j \in 1 .. cut BY <1>4, <2>1
  <2>2. CASE j \notin 1 .. cut
    <3>1. j - cut \in 1 .. first - 1 /\ j - cut \in 1 .. Len(bounded)
      BY <1>5, <1>7, <2>2
    <3>2. bounded[j - cut] = full[j]
      <4>1. (j - cut) + cut = j BY <1>5
      <4> QED BY <1>3, <3>1, <4>1 DEF SuffixOf
    <3> QED BY <1>7, <3>1, <3>2
  <2> QED BY <2>1, <2>2
<1>12. Len(new) <= MaxFrames
  <2>1. Len(new) \in Nat BY <1>8 DEF SuffixOf
  <2> QED BY <1>1, <1>3, <1>5, <1>8, <2>1
<1>13. cut + (first - 1) \in Nat BY <1>5, <1>9
<1> QED BY <1>2, <1>10, <1>11, <1>12, <1>13 DEF full

\* A frame that was captured after the last sample, and sampled a period after it.
LEMMA AppendSpaced ==
    ASSUME NEW buf \in Seq(Frame), NEW f \in Frame, NEW next \in Nat, NEW t \in Nat,
           Spaced(buf), Due(buf, next), f.ts >= next - Period
    PROVE  /\ Spaced(Append(buf, f))
           /\ t >= next /\ t >= f.ts => Due(Append(buf, f), t + Period)
<1> DEFINE full == Append(buf, f)
           n == Len(buf)
<1>1. /\ full \in Seq(Frame) /\ Len(full) = n + 1 /\ n \in Nat
      /\ \A i \in 1 .. n : full[i] = buf[i] /\ buf[i].ts \in Nat
      /\ full[n + 1] = f /\ f.ts \in Nat /\ Period \in Nat
  <2>1. \A i \in 1 .. n : full[i] = buf[i] /\ buf[i] \in Frame BY AppendFrame
  <2>2. \A g \in Frame : g.ts \in Nat BY DEF Frame
  <2> QED BY <2>1, <2>2, AppendFrame, EvidenceAssumption
<1>2. \A i \in 1 .. n : next >= buf[i].ts + Periods(n + 1 - i) BY DEF Due
<1>s. \A i, j \in 1 .. n : i < j => buf[j].ts >= buf[i].ts + Periods(j - i - 1)
  BY DEF Spaced
<1> HIDE DEF full, n
<1>3. \A i \in 1 .. n : /\ Periods(n + 1 - i) = Periods(n - i) + Period
                        /\ Periods(n - i) \in Int
  <2> SUFFICES ASSUME NEW i \in 1 .. n
               PROVE  /\ Periods(n + 1 - i) = Periods(n - i) + Period
                      /\ Periods(n - i) \in Int
    OBVIOUS
  <2>1. n - i \in Int /\ n + 1 - i = (n - i) + 1 BY <1>1
  <2> QED BY <2>1, OneMore
<1>4. Spaced(full)
  <2> SUFFICES ASSUME NEW i \in 1 .. n + 1, NEW j \in 1 .. n + 1, i < j
               PROVE  full[j].ts >= full[i].ts + Periods(j - i - 1)
    BY <1>1 DEF Spaced
  <2>1. CASE j \in 1 .. n
    <3>1. i \in 1 .. n BY <1>1, <2>1
    <3>2. buf[j].ts >= buf[i].ts + Periods(j - i - 1) BY <1>s, <2>1, <3>1
    <3> QED BY <1>1, <2>1, <3>1, <3>2
  <2>2. CASE j = n + 1
    <3>1. i \in 1 .. n /\ j - i - 1 = n - i BY <1>1, <2>2
    <3>2. next >= buf[i].ts + (Periods(n - i) + Period) BY <1>2, <1>3, <3>1
    <3>3. PICK d \in Int : d = Periods(n - i) BY <1>3, <3>1
    <3>4. full[i] = buf[i] /\ buf[i].ts \in Nat BY <1>1, <3>1
    <3>5. PICK c \in Nat : c = buf[i].ts BY <3>4
    <3>6. PICK e, p \in Nat : e = f.ts /\ p = Period BY <1>1
    <3>7. next >= c + (d + p) BY <3>2, <3>3, <3>5, <3>6
    <3>8. e >= next - p BY <3>6
    <3>9. e >= c + d BY <3>7, <3>8
    <3>10. full[j].ts >= full[i].ts + d BY <1>1, <2>2, <3>4, <3>5, <3>6, <3>9
    <3> QED BY <3>1, <3>3, <3>10
  <2> QED BY <1>1, <2>1, <2>2
<1>5. ASSUME t >= next, t >= f.ts, NEW i \in 1 .. n + 1
      PROVE  t + Period >= full[i].ts + Periods(n + 2 - i)
  <2>1. CASE i \in 1 .. n
    <3>1. (n + 1 - i) + 1 = n + 2 - i /\ n + 1 - i \in Int BY <1>1
    <3>2. PICK d \in Int : d = Periods(n + 1 - i) BY <3>1, OneMore
    <3>3. Periods(n + 2 - i) = d + Period BY <3>1, <3>2, OneMore
    <3>4. full[i] = buf[i] /\ buf[i].ts \in Nat BY <1>1, <2>1
    <3>5. PICK c \in Nat : c = buf[i].ts BY <3>4
    <3>6. next >= c + d BY <1>2, <2>1, <3>2, <3>5
    <3>7. PICK p \in Nat : p = Period BY <1>1
    <3>8. t >= c + d BY <1>5, <3>6
    <3>9. t + p >= c + (d + p) BY <3>8
    <3> QED BY <3>3, <3>4, <3>5, <3>7, <3>9
  <2>2. CASE i = n + 1
    <3>1. n + 2 - i = 1 BY <1>1, <2>2
    <3>2. 0 \in Int OBVIOUS
    <3>3. Periods(n + 2 - i) = Period BY <3>1, <3>2, OneMore
    <3>4. full[i] = f BY <1>1, <2>2
    <3>5. t + Period >= f.ts + Period BY <1>1, <1>5
    <3> QED BY <3>3, <3>4, <3>5
  <2> QED BY <1>1, <2>1, <2>2
<1>6. t >= next /\ t >= f.ts => Due(full, t + Period)
  <2>1. Len(full) + 1 = n + 2 BY <1>1
  <2> QED BY <1>1, <1>5, <2>1 DEF Due
<1> QED BY <1>4, <1>6 DEF full

\* What holds of the buffer holds of its suffixes.
LEMMA SuffixKeeps ==
    ASSUME NEW full \in Seq(Frame), NEW q, NEW k \in Nat, SuffixOf(q, full, k)
    PROVE  /\ Spaced(full) => Spaced(q)
           /\ \A next : Due(full, next) => Due(q, next)
           /\ Newest(q) = Newest(full)
<1>1. Len(q) \in Nat \ {0} /\ Len(full) \in Nat /\ Len(q) = Len(full) - k
  BY DEF SuffixOf
<1>2. \A i \in 1 .. Len(q) : i + k \in 1 .. Len(full) /\ q[i] = full[i + k]
  BY <1>1 DEF SuffixOf
<1>3. ASSUME Spaced(full) PROVE Spaced(q)
  <2> SUFFICES ASSUME NEW i \in 1 .. Len(q), NEW j \in 1 .. Len(q), i < j
               PROVE  q[j].ts >= q[i].ts + Periods(j - i - 1)
    BY DEF Spaced
  <2>1. i + k < j + k /\ (j + k) - (i + k) - 1 = j - i - 1 BY <1>1
  <2>2. full[j + k].ts >= full[i + k].ts + Periods((j + k) - (i + k) - 1)
    BY <1>2, <1>3, <2>1 DEF Spaced
  <2> QED BY <1>2, <2>1, <2>2
<1>4. ASSUME NEW next, Due(full, next) PROVE Due(q, next)
  <2> SUFFICES ASSUME NEW i \in 1 .. Len(q)
               PROVE  next >= q[i].ts + Periods(Len(q) + 1 - i)
    BY DEF Due
  <2>1. Len(full) + 1 - (i + k) = Len(q) + 1 - i BY <1>1
  <2>2. next >= full[i + k].ts + Periods(Len(full) + 1 - (i + k))
    BY <1>2, <1>4 DEF Due
  <2> QED BY <1>2, <2>1, <2>2
<1>5. Newest(q) = Newest(full)
  <2>1. Len(q) \in 1 .. Len(q) /\ Len(q) + k = Len(full) BY <1>1
  <2> QED BY <1>2, <2>1 DEF Newest
<1> QED BY <1>3, <1>4, <1>5

\* The buffer after a sample covers what was ever sampled.
LEMMA BufferedCovers ==
    ASSUME Roomy, NEW buf \in Seq(Frame), NEW f \in Frame, Len(buf) <= MaxFrames,
           NEW frames, frames \subseteq Frame, Covers(buf, frames),
           \A g \in frames : g.seq < f.seq /\ g.ts < f.ts,
           Spaced(Append(buf, f)), NEW new, new = Buffered(buf, f)
    PROVE  /\ new \in Seq(Frame) /\ Len(new) <= MaxFrames /\ Newest(new) = f
           /\ Spaced(new)
           /\ \A next : Due(Append(buf, f), next) => Due(new, next)
           /\ Covers(new, frames \cup {f})
<1> DEFINE full == Append(buf, f)
           n == Len(buf)
<1>1. /\ full \in Seq(Frame) /\ Len(full) = n + 1 /\ n \in Nat
      /\ \A i \in 1 .. n : full[i] = buf[i]
      /\ full[n + 1] = f /\ f.ts \in Nat /\ Retention \in Nat
  BY AppendFrame, EvidenceAssumption DEF Frame, Retention
<1>2. PICK k \in Nat : /\ SuffixOf(new, full, k)
                       /\ \A j \in 1 .. k : ~Retained(f, full[j])
  BY BufferedIs
<1>3. Len(new) <= MaxFrames BY BufferedIs
<1> HIDE DEF n
<1>4. /\ new \in Seq(Frame) /\ Len(new) \in Nat \ {0}
      /\ Len(new) = n + 1 - k
      /\ \A i \in 1 .. Len(new) : i + k \in 1 .. n + 1 /\ new[i] = full[i + k]
  <2>1. Len(full) - k = n + 1 - k BY <1>1
  <2>2. /\ new \in Seq(Frame) /\ Len(new) \in Nat \ {0} /\ Len(new) = Len(full) - k
        /\ \A i \in 1 .. Len(new) : new[i] = full[i + k]
    BY <1>2 DEF SuffixOf
  <2> HIDE DEF full
  <2>3. \A i \in 1 .. Len(new) : i + k \in 1 .. n + 1 BY <1>1, <2>1, <2>2
  <2> QED BY <2>1, <2>2, <2>3
<1>5. /\ Spaced(new) /\ Newest(new) = f
      /\ \A next : Due(full, next) => Due(new, next)
  BY <1>1, <1>2, SuffixKeeps DEF Newest
<1> HIDE DEF full
<1>6. \A i \in 1 .. Len(new) : new[i] \in frames \cup {f}
  <2> SUFFICES ASSUME NEW i \in 1 .. Len(new) PROVE new[i] \in frames \cup {f}
    OBVIOUS
  <2>1. i + k \in 1 .. n \/ i + k = n + 1 BY <1>1, <1>4
  <2>2. \A j \in 1 .. n : buf[j] \in frames BY DEF Covers, n
  <2> QED BY <1>1, <1>4, <2>1, <2>2
<1>7. ASSUME NEW g \in frames, f.ts - g.ts <= Retention
      PROVE  \E i \in 1 .. Len(new) : new[i] = g
  <2>1. n > 0 BY DEF Covers, n
  <2>2. Newest(buf) \in frames BY <1>1, <2>1 DEF Covers, Newest, n
  <2>3. Newest(buf).ts - g.ts <= Retention
    <3>1. Newest(buf).ts \in Nat /\ g.ts \in Nat /\ Newest(buf).ts < f.ts
      BY <2>2 DEF Frame
    <3> QED BY <1>1, <1>7, <3>1
  <2>4. PICK i \in 1 .. n : buf[i] = g BY <2>3 DEF Covers, n
  <2>5. full[i] = g /\ Retained(f, g)
    BY <1>1, <1>7, <2>4 DEF Retained, Retention
  <2>6. i \notin 1 .. k BY <1>2, <2>5 DEF full
  <2>7. i - k \in 1 .. Len(new) /\ (i - k) + k = i
    BY <1>1, <1>2, <1>4, <2>6
  <2> QED BY <1>4, <2>5, <2>7
<1>8. Len(new) \in 1 .. Len(new) /\ new[Len(new)] = f
  BY <1>4, <1>5 DEF Newest
<1>9. Covers(new, frames \cup {f})
  BY <1>4, <1>5, <1>6, <1>7, <1>8 DEF Covers
<1> QED BY <1>3, <1>4, <1>5, <1>9 DEF full
-----------------------------------------------------------------------------
(* The samples of the camera, and the clips.                               *)

\* What was sampled are frames of the camera, each older than its newest one, which
\* was captured after the last sample if it was not sampled itself.
Camera ==
    /\ raw.ts <= now /\ nextSample \in Nat
    /\ \A g \in sampled :
          /\ g \in Frame /\ g.seq > 0
          /\ g = raw \/ (g.seq < raw.seq /\ g.ts < raw.ts)
    /\ pc # "done" =>
          /\ nextSample <= now + Period
          /\ raw.seq > 0 /\ raw \notin sampled => raw.ts >= nextSample - Period

\* The buffer covers the samples, and the newest one is no newer than the round.
Rolling ==
    /\ buffer \in Seq(Frame) /\ Len(buffer) <= MaxFrames
    /\ Spaced(buffer) /\ Covers(buffer, sampled)
    /\ pc # "done" =>
          /\ Due(buffer, nextSample)
          /\ sampled # {} => Newest(buffer).ts <= now - lag

\* What may be pending at a place of the loop, stopped or not.
PendingBy == IF pc = "head" THEN PostSeconds - 1
             ELSE IF pc = "final" THEN PostSeconds - 1 + MaxLag
             ELSE PostSeconds + Slack

Recent ==
    /\ pc \in {"head", "drain", "finalize"} =>
          \A i \in 1 .. Len(events) : now - lag <= events[i].at + QueuedBound
    /\ pc # "done" => \A p \in pending : now - lag <= p.event.at + PendingBy

\* The slack covers the lags: of an event on its way to the evidence process, and of
\* the two rounds of the loop before the last sample.
Prompt ==
    /\ MaxLatency + MaxLag <= PostSeconds + Slack
    /\ 2 * MaxLag <= Slack + 1

\* The newest frame is sampled, unless there is none or it was sampled before.
LEMMA SampleIs ==
    ASSUME Types, Camera, Sample
    PROVE  \/ /\ raw.seq = 0 \/ raw \in sampled
              /\ UNCHANGED <<buffer, sampled>>
           \/ /\ raw.seq > 0 /\ raw \notin sampled
              /\ buffer' = Buffered(buffer, raw) /\ sampled' = sampled \cup {raw}
<1>1. raw \in Frame /\ raw.seq \in Nat BY DEF Types, Frame
<1>2. \A g \in sampled : g.seq \in Nat /\ g.seq > 0 /\ (g = raw \/ g.seq < raw.seq)
  BY DEF Camera, Frame
<1>3. ASSUME raw \in sampled PROVE raw.seq = LastSequence
  <2> DEFINE Top(n) == \A g \in sampled : g.seq <= n
             seqs == {g.seq : g \in sampled}
  <2>1. raw.seq \in seqs /\ Top(raw.seq) BY <1>1, <1>2, <1>3
  <2>2. \A n \in seqs : Top(n) => n = raw.seq
    <3> SUFFICES ASSUME NEW g \in sampled, Top(g.seq) PROVE g.seq = raw.seq
      OBVIOUS
    <3>1. raw.seq <= g.seq BY <1>3
    <3> QED BY <1>1, <1>2, <3>1
  <2>3. LastSequence = CHOOSE n \in seqs : Top(n)
    <3>1. sampled # {} BY <1>3
    <3> QED BY <3>1 DEF LastSequence
  <2> HIDE DEF Top, seqs
  <2> QED BY <2>1, <2>2, <2>3
<1>4. ASSUME raw.seq > 0, raw.seq = LastSequence PROVE raw \in sampled
  <2> DEFINE Top(n) == \A g \in sampled : g.seq <= n
             seqs == {g.seq : g \in sampled}
  <2>1. sampled # {} BY <1>1, <1>4 DEF LastSequence
  <2>2. LastSequence = CHOOSE n \in seqs : Top(n) BY <2>1 DEF LastSequence
  <2>3. seqs \subseteq 0 .. raw.seq /\ seqs # {}
    BY <1>1, <1>2, <2>1
  <2>4. PICK m \in seqs : \A n \in seqs : n <= m
    <3> HIDE DEF seqs
    <3>1. raw.seq \in Nat BY <1>1
    <3> QED BY <2>3, <3>1, Greatest
  <2>5. m \in seqs /\ Top(m) BY <2>4
  <2>6. LastSequence \in seqs
    <3> HIDE DEF Top, seqs
    <3> QED BY <2>2, <2>5
  <2>7. PICK g \in sampled : g.seq = LastSequence BY <2>6
  <2> QED BY <1>1, <1>2, <1>4, <2>7
<1>5. CASE raw.seq \in {0, LastSequence}
  <2>1. raw.seq = 0 \/ raw \in sampled BY <1>1, <1>4, <1>5
  <2> QED BY <1>5, <2>1 DEF Sample
<1>6. CASE raw.seq \notin {0, LastSequence}
  <2>1. raw.seq > 0 /\ raw \notin sampled BY <1>1, <1>3, <1>6
  <2> QED BY <1>6, <2>1 DEF Sample
<1> QED BY <1>5, <1>6

\* What a sample does to the buffer, before the process is done.
LEMMA SampleKeeps ==
    ASSUME Roomy, Types, Camera, Rolling, pc # "done", Sample
    PROVE  /\ buffer' \in Seq(Frame) /\ Len(buffer') <= MaxFrames
           /\ Spaced(buffer') /\ Covers(buffer', sampled')
           /\ now >= nextSample => Due(buffer', now + Period)
           /\ sampled' # {} => Newest(buffer').ts <= now
           /\ \A g \in sampled' :
                 /\ g \in Frame /\ g.seq > 0
                 /\ g = raw \/ (g.seq < raw.seq /\ g.ts < raw.ts)
           /\ raw.seq > 0 => raw \in sampled'
<1>1. /\ raw \in Frame /\ raw.seq \in Nat /\ raw.ts \in Nat /\ now \in Nat /\ lag \in Nat
      /\ nextSample \in Nat /\ Period \in Nat /\ raw.ts <= now
  BY EvidenceAssumption DEF Types, Frame, Camera
<1>2. CASE (raw.seq = 0 \/ raw \in sampled) /\ UNCHANGED <<buffer, sampled>>
  <2>1. /\ buffer \in Seq(Frame) /\ Len(buffer) <= MaxFrames
        /\ Spaced(buffer) /\ Covers(buffer, sampled) /\ Due(buffer, nextSample)
        /\ sampled # {} => Newest(buffer).ts <= now - lag
    BY DEF Rolling
  <2>2. now >= nextSample => Due(buffer, now + Period)
    <3> SUFFICES ASSUME now >= nextSample, NEW i \in 1 .. Len(buffer)
                 PROVE  now + Period >= buffer[i].ts + Periods(Len(buffer) + 1 - i)
      BY DEF Due
    <3>1. nextSample >= buffer[i].ts + Periods(Len(buffer) + 1 - i)
      BY <2>1 DEF Due
    <3>2. Len(buffer) + 1 - i \in Int BY <2>1
    <3>3. PICK d \in Int : d = Periods(Len(buffer) + 1 - i) BY <3>2, OneMore
    <3>4. buffer[i] \in Frame BY <2>1
    <3>5. PICK c \in Nat : c = buffer[i].ts BY <3>4 DEF Frame
    <3>6. now + Period >= c + d BY <1>1, <3>1, <3>3, <3>5
    <3> QED BY <3>3, <3>5, <3>6
  <2>3. sampled # {} => Newest(buffer).ts <= now
    <3> SUFFICES ASSUME sampled # {} PROVE Newest(buffer).ts <= now
      OBVIOUS
    <3>1. Len(buffer) \in 1 .. Len(buffer) BY <2>1 DEF Covers
    <3>2. Newest(buffer) \in Frame BY <2>1, <3>1 DEF Newest
    <3>3. Newest(buffer).ts \in Nat BY <3>2 DEF Frame
    <3> QED BY <1>1, <2>1, <3>3
  <2>4. \A g \in sampled :
           /\ g \in Frame /\ g.seq > 0
           /\ g = raw \/ (g.seq < raw.seq /\ g.ts < raw.ts)
    BY DEF Camera
  <2> QED BY <1>1, <1>2, <2>1, <2>2, <2>3, <2>4
<1>3. CASE /\ raw.seq > 0 /\ raw \notin sampled
           /\ buffer' = Buffered(buffer, raw) /\ sampled' = sampled \cup {raw}
  <2>1. PICK b, s : b = buffer' /\ s = sampled' OBVIOUS
  <2>2. /\ buffer \in Seq(Frame) /\ Len(buffer) <= MaxFrames
        /\ Spaced(buffer) /\ Covers(buffer, sampled) /\ Due(buffer, nextSample)
    BY DEF Rolling
  <2>3. \A g \in sampled : g \in Frame /\ g.seq > 0 /\ g.seq < raw.seq /\ g.ts < raw.ts
    BY <1>3 DEF Camera
  <2>4. raw.ts >= nextSample - Period BY <1>3 DEF Camera
  <2>5. /\ Spaced(Append(buffer, raw))
        /\ now >= nextSample => Due(Append(buffer, raw), now + Period)
    BY <1>1, <2>2, <2>4, AppendSpaced
  <2>6. sampled \subseteq Frame BY <2>3
  <2>7. b = Buffered(buffer, raw) /\ s = sampled \cup {raw} BY <1>3, <2>1
  <2>8. /\ b \in Seq(Frame) /\ Len(b) <= MaxFrames /\ Newest(b) = raw
        /\ Spaced(b)
        /\ \A next : Due(Append(buffer, raw), next) => Due(b, next)
        /\ Covers(b, sampled \cup {raw})
    BY <1>1, <2>2, <2>3, <2>5, <2>6, <2>7, BufferedCovers
  <2>9. now >= nextSample => Due(b, now + Period) BY <2>5, <2>8
  <2>10. \A g \in s : /\ g \in Frame /\ g.seq > 0
                      /\ g = raw \/ (g.seq < raw.seq /\ g.ts < raw.ts)
    BY <1>1, <1>3, <2>3, <2>7
  <2> QED BY <1>1, <2>1, <2>7, <2>8, <2>9, <2>10
<1> QED BY <1>2, <1>3, SampleIs

LEMMA CameraKept ==
    ASSUME Roomy, Types, Camera, Rolling, [Next]_vars
    PROVE  Camera'
<1>0. /\ raw \in Frame /\ raw.seq \in Nat /\ raw.ts \in Nat /\ now \in Nat
      /\ nextSample \in Nat /\ Period \in Nat
  BY EvidenceAssumption DEF Types, Frame, Camera
<1>1. CASE Tick
  <2>1. now' = now + 1 /\ UNCHANGED <<raw, nextSample, sampled, pc>>
    BY <1>1 DEF Tick, cameraVars, evidenceVars
  <2> QED BY <1>0, <2>1 DEF Camera
<1>2. CASE Capture
  <2>1. /\ raw' = [seq |-> raw.seq + 1, ts |-> now]
        /\ raw.seq = 0 \/ raw.ts < now
        /\ UNCHANGED <<now, nextSample, sampled, pc>>
    BY <1>2 DEF Capture, evidenceVars
  <2>2. raw'.seq = raw.seq + 1 /\ raw'.ts = now BY <2>1
  <2>3. ASSUME NEW g \in sampled
        PROVE  g \in Frame /\ g.seq > 0 /\ g.seq < raw.seq + 1 /\ g.ts < now
    <3>1. /\ g \in Frame /\ g.seq > 0 /\ g.seq \in Nat /\ g.ts \in Nat /\ raw.ts <= now
          /\ g = raw \/ (g.seq < raw.seq /\ g.ts < raw.ts)
      BY DEF Camera, Frame
    <3> QED BY <1>0, <2>1, <3>1
  <2> QED BY <1>0, <2>1, <2>2, <2>3 DEF Camera
<1>3. CASE Stop \/ UseCaseStep \/ Accept \/ DrainDone \/ FinalizeReady
  <2>1. UNCHANGED <<now, raw, nextSample, sampled>> /\ (pc' # "done" => pc # "done")
    BY <1>3 DEF Stop, UseCaseStep, ReadRaw, WriteResult, Emit, WorkerExits, Accept,
                DrainDone, FinalizeReady, cameraVars, evidenceVars
  <2> QED BY <2>1 DEF Camera
<1>4. CASE LoopHead
  <2>1. UNCHANGED <<now, raw>> /\ pc = "head"
    BY <1>4 DEF LoopHead, cameraVars
  <2>2. CASE UNCHANGED <<buffer, sampled, nextSample>>
    BY <2>1, <2>2 DEF Camera
  <2>3. CASE now >= nextSample /\ Sample /\ nextSample' = now + Period
    BY <1>0, <2>1, <2>3, SampleKeeps DEF Camera
  <2> QED BY <1>4, <2>2, <2>3 DEF LoopHead
<1>5. CASE FinalizeAll
  <2>1. UNCHANGED <<now, raw, nextSample>> /\ pc = "final" /\ pc' = "done" /\ Sample
    BY <1>5 DEF FinalizeAll, cameraVars
  <2> QED BY <2>1, SampleKeeps DEF Camera
<1>6. CASE UNCHANGED vars
  BY <1>6 DEF vars, cameraVars, evidenceVars, Camera
<1> QED BY <1>1, <1>2, <1>3, <1>4, <1>5, <1>6 DEF Next, EvidenceStep

LEMMA RollingKept ==
    ASSUME Roomy, Types, Camera, Rolling, [Next]_vars
    PROVE  Rolling'
<1>0. /\ now \in Nat /\ lag \in Nat /\ nextSample \in Nat /\ Period \in Nat
  BY EvidenceAssumption DEF Types, Camera
<1>1. CASE Tick
  <2>1. /\ UNCHANGED <<buffer, nextSample, sampled, pc>>
        /\ pc # "done" => now' - lag' = now - lag
    BY <1>0, <1>1 DEF Tick, evidenceVars
  <2> QED BY <2>1 DEF Rolling
<1>2. CASE Capture \/ Stop \/ UseCaseStep \/ Accept \/ DrainDone \/ FinalizeReady
  <2>1. /\ UNCHANGED <<now, lag, buffer, nextSample, sampled>>
        /\ pc' # "done" => pc # "done"
    BY <1>2 DEF Capture, Stop, UseCaseStep, ReadRaw, WriteResult, Emit, WorkerExits,
                Accept, DrainDone, FinalizeReady, cameraVars, evidenceVars
  <2> QED BY <2>1 DEF Rolling
<1>3. CASE LoopHead
  <2>1. now' = now /\ lag' = 0 /\ pc = "head" BY <1>3 DEF LoopHead
  <2>2. CASE UNCHANGED <<buffer, sampled, nextSample>>
    <3>1. ASSUME sampled # {} PROVE Newest(buffer).ts <= now
      <4>1. Len(buffer) \in 1 .. Len(buffer) BY <3>1 DEF Rolling, Covers
      <4>2. Newest(buffer) \in Frame BY <4>1 DEF Rolling, Newest
      <4>3. Newest(buffer).ts \in Nat BY <4>2 DEF Frame
      <4>4. Newest(buffer).ts <= now - lag BY <2>1, <3>1 DEF Rolling
      <4> QED BY <1>0, <4>3, <4>4
    <3> QED BY <1>0, <2>1, <2>2, <3>1 DEF Rolling
  <2>3. CASE now >= nextSample /\ Sample /\ nextSample' = now + Period
    BY <1>0, <2>1, <2>3, SampleKeeps DEF Rolling
  <2> QED BY <1>3, <2>2, <2>3 DEF LoopHead
<1>4. CASE FinalizeAll
  <2>1. pc = "final" /\ pc' = "done" /\ Sample BY <1>4 DEF FinalizeAll
  <2> QED BY <2>1, SampleKeeps DEF Rolling
<1>5. CASE UNCHANGED vars BY <1>5 DEF vars, evidenceVars, Rolling
<1> QED BY <1>1, <1>2, <1>3, <1>4, <1>5 DEF Next, EvidenceStep

\* Stopped or not, an event is taken in time.
LEMMA RecentKept ==
    ASSUME Prompt, Types, Timely, Recent, [Next]_vars
    PROVE  Recent'
<1>0. /\ now \in Nat /\ lag \in Nat /\ work.ts \in Nat
      /\ PostSeconds \in Nat /\ MaxLag \in Nat /\ MaxLatency \in Nat /\ Slack \in Nat
      /\ MaxLatency + MaxLag <= PostSeconds + Slack
      /\ MaxLag - 1 <= Slack
  <2>1. now \in Nat /\ lag \in Nat /\ work.ts \in Nat BY DEF Types, Frame
  <2>2. PostSeconds \in Nat /\ MaxLag \in Nat /\ MaxLatency \in Nat /\ Slack \in Nat
    BY EvidenceAssumption
  <2>3. /\ MaxLatency + MaxLag <= PostSeconds + Slack
        /\ 2 * MaxLag <= Slack + 1
    BY DEF Prompt
  <2> QED BY <2>1, <2>2, <2>3
<1>b. /\ \A i \in 1 .. Len(events) : events[i] \in Event /\ events[i].at \in Nat
      /\ \A p \in pending : p.event.at \in Nat
  BY EventsTyped DEF Types
<1>1. CASE Tick
  <2>1. /\ UNCHANGED <<events, pending, pc>>
        /\ pc # "done" => now' - lag' = now - lag
    BY <1>0, <1>1 DEF Tick, evidenceVars
  <2> QED BY <2>1 DEF Recent, QueuedBound, PendingBy
<1>2. CASE Capture \/ Stop \/ ReadRaw \/ WriteResult \/ WorkerExits
  <2>1. UNCHANGED <<now, lag, events, pending, pc>>
    BY <1>2 DEF Capture, Stop, ReadRaw, WriteResult, WorkerExits, evidenceVars
  <2> QED BY <2>1 DEF Recent, QueuedBound, PendingBy
<1>3. CASE Emit
  <2>1. wpc = "emit" /\ UNCHANGED <<now, lag, pending, pc>>
    BY <1>3 DEF Emit, evidenceVars
  <2>2. now - lag <= work.ts + QueuedBound
    BY <1>0, <2>1 DEF Timely, QueuedBound
  <2>3. CASE UNCHANGED events BY <2>1, <2>3 DEF Recent, QueuedBound, PendingBy
  <2>4. CASE \E e \in Event : e.at = work.ts /\ events' = Append(events, e)
    <3>1. PICK e \in Event : e.at = work.ts /\ events' = Append(events, e)
      BY <2>4
    <3>2. events \in Seq(Event) BY DEF Types
    <3>3. /\ Len(events') = Len(events) + 1 /\ Len(events) \in Nat
          /\ \A i \in 1 .. Len(events) : events'[i] = events[i]
          /\ events'[Len(events) + 1] = e
      BY <3>1, <3>2, AppendIs
    <3>4. ASSUME pc \in {"head", "drain", "finalize"}, NEW i \in 1 .. Len(events')
          PROVE  now - lag <= events'[i].at + QueuedBound
      <4>1. CASE i \in 1 .. Len(events) BY <3>3, <3>4, <4>1 DEF Recent
      <4>2. CASE i = Len(events) + 1 BY <2>2, <3>1, <3>3, <4>2
      <4> QED BY <3>3, <4>1, <4>2
    <3> QED BY <2>1, <3>4 DEF Recent, QueuedBound, PendingBy
  <2> QED BY <1>3, <2>3, <2>4, EmitIs
<1>4. CASE LoopHead
  <2>1. /\ now' = now /\ lag' = 0 /\ pc = "head" /\ pc' \in {"drain", "final"}
        /\ UNCHANGED <<events, pending>>
    BY <1>4 DEF LoopHead
  <2>2. lag <= MaxLag BY <2>1 DEF Timely
  <2>3. ASSUME NEW i \in 1 .. Len(events)
        PROVE  now - 0 <= events[i].at + (MaxLatency + MaxLag)
    <3>1. now - lag <= events[i].at + (MaxLatency + 0)
      BY <2>1 DEF Recent, QueuedBound
    <3> QED BY <1>0, <1>b, <2>2, <3>1
  <2>4. ASSUME NEW p \in pending
        PROVE  /\ now - 0 <= p.event.at + (PostSeconds - 1 + MaxLag)
               /\ now - 0 <= p.event.at + (PostSeconds + Slack)
    <3>1. now - lag <= p.event.at + (PostSeconds - 1)
      BY <2>1 DEF Recent, PendingBy
    <3> QED BY <1>0, <1>b, <2>2, <3>1
  <2>5. CASE pc' = "drain" BY <2>1, <2>3, <2>4, <2>5 DEF Recent, QueuedBound, PendingBy
  <2>6. CASE pc' = "final" BY <2>1, <2>4, <2>6 DEF Recent, PendingBy
  <2> QED BY <2>1, <2>5, <2>6
<1>5. CASE Accept
  <2>1. /\ pc = "drain" /\ events # <<>> /\ events' = Tail(events)
        /\ UNCHANGED <<now, lag, pc>>
    BY <1>5 DEF Accept, workerVars
  <2>2. /\ \A i \in 1 .. Len(events') : events'[i] = events[i + 1]
                                        /\ i + 1 \in 1 .. Len(events)
        /\ Head(events) = events[1] /\ 1 \in 1 .. Len(events)
    BY <2>1, TailIs DEF Types
  <2>3. now - lag <= Head(events).at + (PostSeconds + Slack)
    <3>1. now - lag <= events[1].at + (MaxLatency + MaxLag)
      BY <2>1, <2>2 DEF Recent, QueuedBound
    <3> QED BY <1>0, <1>b, <2>2, <3>1
  <2>4. \A p \in pending' : p \in pending \/ p.event = Head(events)
    BY <1>5 DEF Accept
  <2> QED BY <2>1, <2>2, <2>3, <2>4 DEF Recent, QueuedBound, PendingBy
<1>6. CASE DrainDone
  <2>1. /\ pc = "drain" /\ pc' = "finalize" /\ events = <<>>
        /\ UNCHANGED <<now, lag, events, pending>>
    BY <1>6 DEF DrainDone
  <2>2. 1 .. Len(events') = {} BY <2>1
  <2> QED BY <2>1, <2>2 DEF Recent, PendingBy
<1>7. CASE FinalizeReady
  <2>1. /\ pc = "finalize" /\ pc' = "head" /\ UNCHANGED <<now, lag, events>>
        /\ pending' = pending \ {p \in pending : Ready(p)}
    BY <1>7 DEF FinalizeReady, Submit
  <2>2. ASSUME NEW p \in pending, ~Ready(p)
        PROVE  now - lag <= p.event.at + (PostSeconds - 1)
    BY <1>0, <1>b, <2>2 DEF Ready
  <2> QED BY <2>1, <2>2 DEF Recent, QueuedBound, PendingBy
<1>8. CASE FinalizeAll
  <2>1. pc' = "done" BY <1>8 DEF FinalizeAll
  <2> QED BY <2>1 DEF Recent
<1>9. CASE UNCHANGED vars
  BY <1>9 DEF vars, evidenceVars, Recent, QueuedBound, PendingBy
<1> QED BY <1>1, <1>2, <1>3, <1>4, <1>5, <1>6, <1>7, <1>8, <1>9
        DEF Next, EvidenceStep, UseCaseStep

\* A clip is what the buffer, which covers the samples, holds of its interval.
LEMMA ClipIs ==
    ASSUME NEW buf \in Seq(Frame), NEW frames, frames \subseteq Frame,
           Covers(buf, frames), NEW p, p.event.at \in Nat,
           frames # {} => Newest(buf).ts <= p.event.at + PostSeconds + Slack
    PROVE  Bundle(p, buf).frames = {f \in frames : InInterval(f, p.event)}
<1>1. Bundle(p, buf).frames = {f \in Range(buf) : InInterval(f, p.event)}
  BY DEF Bundle
<1>2. Range(buf) = {buf[i] : i \in 1 .. Len(buf)}
  BY DEF Range
<1>3. \A f \in Range(buf) : f \in frames BY <1>2 DEF Covers
<1>4. ASSUME NEW f \in frames, InInterval(f, p.event)
      PROVE  f \in Range(buf)
  <2>1. Len(buf) \in 1 .. Len(buf) BY DEF Covers
  <2>2. Newest(buf) \in Frame BY <2>1 DEF Newest
  <2>3. Newest(buf).ts \in Nat /\ f.ts \in Nat BY <2>2 DEF Frame
  <2>4. f.ts >= p.event.at - PreSeconds /\ PreSeconds \in Nat /\ PostSeconds \in Nat
        /\ Slack \in Nat
    BY <1>4, EvidenceAssumption DEF InInterval
  <2>5. Newest(buf).ts <= p.event.at + PostSeconds + Slack OBVIOUS
  <2>6. Newest(buf).ts - f.ts <= Retention
    <3>1. PICK a, b, c \in Nat : a = Newest(buf).ts /\ b = f.ts /\ c = p.event.at
      BY <2>3
    <3>2. a <= c + PostSeconds + Slack /\ b >= c - PreSeconds BY <2>4, <2>5, <3>1
    <3>3. a - b <= PreSeconds + PostSeconds + Slack BY <2>4, <3>2
    <3> QED BY <3>1, <3>3 DEF Retention
  <2>7. \E i \in 1 .. Len(buf) : buf[i] = f BY <2>6 DEF Covers
  <2> QED BY <1>2, <2>7
<1> QED BY <1>1, <1>3, <1>4

LEMMA ClipStep ==
    ASSUME Roomy, Prompt, Types, Timely, Camera, Rolling, Recent, [Next]_vars
    PROVE  [\A b \in bundles' \ bundles :
              b.frames = {f \in sampled' : InInterval(f, b.event)}]_vars
<1>0. /\ now \in Nat /\ lag \in Nat
      /\ PostSeconds \in Nat /\ MaxLag \in Nat /\ Slack \in Nat
  BY EvidenceAssumption DEF Types
<1>s. sampled \subseteq Frame BY DEF Camera
<1>1. CASE FinalizeReady
  <2>1. /\ pc = "finalize" /\ UNCHANGED <<buffer, sampled>>
        /\ bundles' = bundles \cup {Bundle(p, buffer) : p \in {p \in pending : Ready(p)}}
    BY <1>1 DEF FinalizeReady, Submit
  <2>2. ASSUME NEW p \in pending
        PROVE  Bundle(p, buffer).frames = {f \in sampled : InInterval(f, p.event)}
    <3>1. p.event.at \in Nat BY EventsTyped
    <3>2. now - lag <= p.event.at + (PostSeconds + Slack)
      BY <2>1 DEF Recent, PendingBy
    <3>3. ASSUME sampled # {}
          PROVE  Newest(buffer).ts <= p.event.at + PostSeconds + Slack
      <4>1. Len(buffer) \in 1 .. Len(buffer) BY <3>3 DEF Rolling, Covers
      <4>2. Newest(buffer) \in Frame BY <4>1 DEF Rolling, Newest
      <4>3. Newest(buffer).ts \in Nat BY <4>2 DEF Frame
      <4>4. Newest(buffer).ts <= now - lag BY <2>1, <3>3 DEF Rolling
      <4> QED BY <1>0, <3>1, <3>2, <4>3, <4>4
    <3>4. buffer \in Seq(Frame) /\ Covers(buffer, sampled) BY DEF Rolling
    <3> QED BY <1>s, <3>1, <3>3, <3>4, ClipIs
  <2>3. ASSUME NEW b \in bundles' \ bundles
        PROVE  b.frames = {f \in sampled' : InInterval(f, b.event)}
    <3>1. PICK p \in pending : b = Bundle(p, buffer) BY <2>1, <2>3
    <3>2. b.event = p.event BY <3>1, BundleIs
    <3> QED BY <2>1, <2>2, <3>1, <3>2
  <2> QED BY <2>3
<1>2. CASE FinalizeAll
  <2>1. /\ pc = "final" /\ Sample
        /\ bundles' = bundles \cup {Bundle(p, buffer') : p \in pending}
    BY <1>2 DEF FinalizeAll, Submit
  <2>2. PICK buf, frames : buf = buffer' /\ frames = sampled' OBVIOUS
  <2>3. /\ buf \in Seq(Frame) /\ Covers(buf, frames) /\ frames \subseteq Frame
        /\ frames # {} => Newest(buf).ts <= now
    BY <2>1, <2>2, SampleKeeps
  <2>4. ASSUME NEW p \in pending
        PROVE  Bundle(p, buf).frames = {f \in frames : InInterval(f, p.event)}
    <3>1. p.event.at \in Nat BY EventsTyped
    <3>2. now <= p.event.at + PostSeconds + Slack
      <4>1. now - lag <= p.event.at + (PostSeconds - 1 + MaxLag)
        BY <2>1 DEF Recent, PendingBy
      <4>2. lag <= MaxLag BY <2>1 DEF Timely
      <4>3. 2 * MaxLag <= Slack + 1 BY DEF Prompt
      <4> QED BY <1>0, <3>1, <4>1, <4>2, <4>3
    <3>3. ASSUME frames # {}
          PROVE  Newest(buf).ts <= p.event.at + PostSeconds + Slack
      <4>1. Len(buf) \in 1 .. Len(buf) BY <2>3, <3>3 DEF Covers
      <4>2. Newest(buf) \in Frame BY <2>3, <4>1 DEF Newest
      <4>3. Newest(buf).ts \in Nat BY <4>2 DEF Frame
      <4> QED BY <1>0, <2>3, <3>1, <3>2, <3>3, <4>3
    <3> QED BY <2>3, <3>1, <3>3, ClipIs
  <2>5. ASSUME NEW b \in bundles' \ bundles
        PROVE  b.frames = {f \in frames : InInterval(f, b.event)}
    <3>1. PICK p \in pending : b = Bundle(p, buf) BY <2>1, <2>2, <2>5
    <3>2. b.event = p.event BY <3>1, BundleIs
    <3> QED BY <2>4, <3>1, <3>2
  <2> QED BY <2>2, <2>5
<1>3. CASE ~FinalizeReady /\ ~FinalizeAll
  <2>1. bundles' = bundles
    BY <1>3 DEF Next, UseCaseStep, EvidenceStep, Tick, Capture, Stop, ReadRaw,
                WriteResult, Emit, WorkerExits, LoopHead, Accept, DrainDone,
                evidenceVars, vars
  <2> QED BY <2>1
<1> QED BY <1>1, <1>2, <1>3

\* Every clip holds every frame that was ever sampled in the interval of its event: the
\* buffer of the constructor's size never drops one before the bundle is submitted, at a
\* stop neither, if the lags are within the slack.
THEOREM ClipsAreComplete ==
    ASSUME BufferSize, Prompt
    PROVE  Spec => ClipCoversInterval
<1> DEFINE IInv == Types /\ Timely /\ Camera /\ Rolling /\ Recent
<1>1. Init => IInv
  <2> SUFFICES ASSUME Init PROVE IInv
    OBVIOUS
  <2>1. /\ now = 0 /\ lag = 0 /\ nextSample = 0 /\ pc = "head" /\ sampled = {}
        /\ buffer = <<>> /\ pending = {} /\ bundles = {} /\ events = <<>>
        /\ wpc = "idle" /\ raw = NoFrame
    BY DEF Init
  <2>2. /\ Len(buffer) = 0 /\ buffer \in Seq(Frame) /\ Len(events) = 0
        /\ raw.seq = 0 /\ raw.ts = 0
    BY <2>1 DEF NoFrame
  <2>3. PostSeconds \in Nat /\ MaxLag \in Nat /\ MaxFrames \in Nat /\ Period \in Nat
    BY EvidenceAssumption
  <2>4. 1 .. 0 = {} OBVIOUS
  <2>5. Timely BY <2>1, <2>2, <2>3, <2>4 DEF Timely
  <2>6. Camera BY <2>1, <2>2, <2>3 DEF Camera
  <2>7. Rolling
    BY <2>1, <2>2, <2>3, <2>4 DEF Rolling, Spaced, Covers, Due
  <2>8. Recent BY <2>1, <2>2, <2>4 DEF Recent
  <2> QED BY <2>5, <2>6, <2>7, <2>8, TypesInit
<1>2. IInv /\ [Next]_vars => IInv'
  BY SizeIsRoomy, TypesKept, TimelyKept, CameraKept, RollingKept, RecentKept
<1>3. IInv /\ [Next]_vars
        => [\A b \in bundles' \ bundles :
              b.frames = {f \in sampled' : InInterval(f, b.event)}]_vars
  BY SizeIsRoomy, ClipStep
<1> QED BY <1>1, <1>2, <1>3, PTL DEF Spec, ClipCoversInterval
=============================================================================
