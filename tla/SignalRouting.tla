--------------------------- MODULE SignalRouting ---------------------------
(***************************************************************************)
(* Latest-frame routing between the camera threads of the main process and *)
(* the use-case worker processes: VideoStream writes the raw slot of its   *)
(* camera and calls UseCaseOrchestrator.publish_frame, which signals every *)
(* use case the camera is assigned to; UseCaseWorker.run collects signals  *)
(* into a batch, reads the newest raw frames and writes the results into   *)
(* the inference slots of its use case.                                    *)
(*                                                                         *)
(* A frame is its sequence number.  One step is one critical section of a  *)
(* lock, one queue operation or one call into the pipeline.  The order in  *)
(* which publish_frame visits the runtimes is left open.  What a pipeline  *)
(* computes, latency counters and the delayed raw buffer (OutputRenderer)  *)
(* are abstracted away.                                                    *)
(***************************************************************************)
EXTENDS Naturals, Sequences, FiniteSets, Functions

CONSTANTS Cameras,    \* camera ids
          UseCases,   \* enabled deployments
          Assigned,   \* Assigned[u]: cameras of use case u
          Shared,     \* use cases whose detector is the shared worker
          BatchSize,  \* runtime.batch_size
          None,       \* no camera in hand
          MaxFrames   \* bound: MaxFrames[c] frames are captured of c

ASSUME AssignedAssumption ==
    /\ IsFiniteSet(Cameras)
    /\ Assigned \in [UseCases -> SUBSET Cameras]
    /\ Shared \subseteq UseCases
    /\ BatchSize \in Nat \ {0}
    /\ None \notin Cameras
    /\ MaxFrames \in [Cameras -> Nat]

VARIABLES raw,       \* raw[c]: sequence in the raw slot of c
          todo,      \* todo[c]: use cases publish_frame has yet to visit
          pending,   \* pending[u]: cameras whose signal_pending is set
          queue,     \* queue[u]: signal_queue
          dropped,   \* dropped[u][c]: dropped_signals
          stopped,   \* stop_event
          pc,        \* pc[u]: where the worker of u is
          batch,     \* batch[u]: collected cameras it has not reached yet
          cur,       \* cur[u]: camera whose flag it cleared and slot it reads
          frames,    \* frames[u]: <<camera, sequence>> pairs it read
          inference, \* inference[u][c]: sequence in the inference slot
          inferred,  \* inferred[u][c]: inferred_frames
          stale,     \* stale[u][c]: stale_inference_drops
          seen       \* history: seen[u][c] is the last sequence of c it read

camVars == <<raw, todo>>
signalVars == <<pending, queue, dropped>>
workVars == <<batch, cur, frames>>
resultVars == <<inference, inferred, stale>>
vars == <<camVars, signalVars, stopped, pc, workVars, resultVars, seen>>

PerCamera == [UseCases -> [Cameras -> Nat]]
zero == [u \in UseCases |-> [c \in Cameras |-> 0]]
Watchers(c) == {u \in UseCases : c \in Assigned[u]}

\* Mutant of QueueSize: one place too few.
ShortQueue(u) == Cardinality(Assigned[u]) - 1

\* maxsize of signal_queue
QueueSize(u) == Cardinality(Assigned[u])

\* The variables have their types, and publish_frame only ever visits use cases
\* the camera is assigned to.
TypeOK ==
    /\ raw \in [Cameras -> Nat]
    /\ todo \in [Cameras -> SUBSET UseCases]
    /\ \A c \in Cameras : \A u \in todo[c] : c \in Assigned[u]
    /\ pending \in [UseCases -> SUBSET Cameras]
    /\ queue \in [UseCases -> Seq(Cameras)]
    /\ dropped \in PerCamera
    /\ stopped \in BOOLEAN
    /\ pc \in [UseCases -> {"check", "first", "collect", "clear", "read",
                            "infer", "write", "exited"}]
    /\ batch \in [UseCases -> Seq(Cameras)]
    /\ cur \in [UseCases -> Cameras \cup {None}]
    /\ frames \in [UseCases -> Seq(Cameras \X Nat)]
    /\ inference \in PerCamera
    /\ inferred \in PerCamera
    /\ stale \in PerCamera
    /\ seen \in PerCamera

Init ==
    /\ raw = [c \in Cameras |-> 0]
    /\ todo = [c \in Cameras |-> {}]
    /\ pending = [u \in UseCases |-> {}]
    /\ queue = [u \in UseCases |-> <<>>]
    /\ dropped = zero
    /\ stopped = FALSE
    /\ pc = [u \in UseCases |-> "check"]
    /\ batch = [u \in UseCases |-> <<>>]
    /\ cur = [u \in UseCases |-> None]
    /\ frames = [u \in UseCases |-> <<>>]
    /\ inference = zero
    /\ inferred = zero
    /\ stale = zero
    /\ seen = zero
-----------------------------------------------------------------------------
(* Camera threads of the main process.                                     *)

\* Mutant of Capture: every enabled use case is signalled.
CaptureForAll(c) ==
    /\ todo[c] = {} /\ raw[c] < MaxFrames[c]
    /\ raw' = [raw EXCEPT ![c] = @ + 1]
    /\ todo' = [todo EXCEPT ![c] = UseCases]
    /\ UNCHANGED <<signalVars, stopped, pc, workVars, resultVars, seen>>

Capture(c) ==
    /\ todo[c] = {}
    /\ raw[c] < MaxFrames[c]
    /\ raw' = [raw EXCEPT ![c] = @ + 1]
    /\ todo' = [todo EXCEPT ![c] = Watchers(c)]
    /\ UNCHANGED <<signalVars, stopped, pc, workVars, resultVars, seen>>

\* Mutant of Publish: the flag is not tested.
PublishAlways(c, u) ==
    /\ u \in todo[c]
    /\ todo' = [todo EXCEPT ![c] = @ \ {u}]
    /\ Len(queue[u]) < QueueSize(u)
    /\ queue' = [queue EXCEPT ![u] = Append(@, c)]
    /\ pending' = [pending EXCEPT ![u] = @ \cup {c}]
    /\ UNCHANGED <<raw, dropped, stopped, pc, workVars, resultVars, seen>>

\* One runtime of publish_frame: the flag is tested, the camera queued and the
\* flag set under signal_lock; a full queue only counts the lost signal.
Publish(c, u) ==
    /\ u \in todo[c]
    /\ todo' = [todo EXCEPT ![c] = @ \ {u}]
    /\ IF c \in pending[u]
       THEN UNCHANGED signalVars
       ELSE IF Len(queue[u]) < QueueSize(u)
            THEN /\ queue' = [queue EXCEPT ![u] = Append(@, c)]
                 /\ pending' = [pending EXCEPT ![u] = @ \cup {c}]
                 /\ UNCHANGED dropped
            ELSE /\ dropped' = [dropped EXCEPT ![u][c] = @ + 1]
                 /\ UNCHANGED <<queue, pending>>
    /\ UNCHANGED <<raw, stopped, pc, workVars, resultVars, seen>>

\* UseCaseOrchestrator.close
Stop ==
    /\ ~stopped
    /\ stopped' = TRUE
    /\ UNCHANGED <<camVars, signalVars, pc, workVars, resultVars, seen>>
-----------------------------------------------------------------------------
(* Worker process of use case u.                                           *)

Goto(u, from, to) ==
    /\ pc[u] = from
    /\ pc' = [pc EXCEPT ![u] = to]

LoopHead(u) ==
    /\ Goto(u, "check", IF stopped THEN "exited" ELSE "first")
    /\ UNCHANGED <<camVars, signalVars, stopped, workVars, resultVars, seen>>

TakeFirst(u) ==
    /\ Goto(u, "first", "collect")
    /\ queue[u] # <<>>
    /\ batch' = [batch EXCEPT ![u] = <<Head(queue[u])>>]
    /\ queue' = [queue EXCEPT ![u] = Tail(@)]
    /\ UNCHANGED <<camVars, pending, dropped, stopped, cur, frames,
                   resultVars, seen>>

FirstTimeout(u) ==
    /\ Goto(u, "first", "check")
    /\ queue[u] = <<>>
    /\ UNCHANGED <<camVars, signalVars, stopped, workVars, resultVars, seen>>

TakeMore(u) ==
    /\ pc[u] = "collect"
    /\ Len(batch[u]) < BatchSize
    /\ queue[u] # <<>>
    /\ queue' = [queue EXCEPT ![u] = Tail(@)]
    /\ batch' = IF Head(queue[u]) \in Range(batch[u]) THEN batch
                ELSE [batch EXCEPT ![u] = Append(@, Head(queue[u]))]
    /\ UNCHANGED <<camVars, pending, dropped, stopped, pc, cur, frames,
                   resultVars, seen>>

\* The batch is full, the deadline passed, or the queue stayed empty until it.
CloseBatch(u) ==
    /\ Goto(u, "collect", "clear")
    /\ UNCHANGED <<camVars, signalVars, stopped, workVars, resultVars, seen>>

\* Mutant of ClearPending: the flag stays set.
ClearNothing(u) ==
    /\ Goto(u, "clear", "read")
    /\ batch[u] # <<>>
    /\ cur' = [cur EXCEPT ![u] = Head(batch[u])]
    /\ batch' = [batch EXCEPT ![u] = Tail(@)]
    /\ UNCHANGED <<camVars, signalVars, stopped, frames, resultVars, seen>>

\* signal_pending := False, under signal_lock, before the slot is read.
ClearPending(u) ==
    /\ Goto(u, "clear", "read")
    /\ batch[u] # <<>>
    /\ cur' = [cur EXCEPT ![u] = Head(batch[u])]
    /\ batch' = [batch EXCEPT ![u] = Tail(@)]
    /\ pending' = [pending EXCEPT ![u] = @ \ {Head(batch[u])}]
    /\ UNCHANGED <<camVars, queue, dropped, stopped, frames, resultVars, seen>>

ReadSlot(u) ==
    /\ Goto(u, "read", "clear")
    /\ frames' = IF raw[cur[u]] = 0 THEN frames
                 ELSE [frames EXCEPT ![u] = Append(@, <<cur[u], raw[cur[u]]>>)]
    /\ seen' = [seen EXCEPT ![u][cur[u]] = raw[cur[u]]]
    /\ cur' = [cur EXCEPT ![u] = None]
    /\ UNCHANGED <<camVars, signalVars, stopped, batch, resultVars>>

BatchRead(u) ==
    /\ Goto(u, "clear", IF frames[u] = <<>> THEN "check" ELSE "infer")
    /\ batch[u] = <<>>
    /\ UNCHANGED <<camVars, signalVars, stopped, workVars, resultVars, seen>>

\* process_batch returned one result per frame.
Infer(u) ==
    /\ Goto(u, "infer", "write")
    /\ UNCHANGED <<camVars, signalVars, stopped, workVars, resultVars, seen>>

StaleCounted(u) ==
    stale' = [stale EXCEPT ![u] = [c \in Cameras |->
                IF \E f \in Range(frames[u]) : f[1] = c THEN @[c] + 1 ELSE @[c]]]

\* Mutants of StaleDrop: the batch is tried again; it is dropped without cause.
StaleRetry(u) ==
    /\ u \in Shared
    /\ Goto(u, "infer", "infer")
    /\ \E f \in Range(frames[u]) : raw[f[1]] # f[2] /\ stale[u][f[1]] <= MaxFrames[f[1]]
    /\ StaleCounted(u)
    /\ UNCHANGED <<camVars, signalVars, stopped, workVars, inference, inferred, seen>>

StaleAnyway(u) ==
    /\ Goto(u, "infer", "check")
    /\ StaleCounted(u)
    /\ frames' = [frames EXCEPT ![u] = <<>>]
    /\ UNCHANGED <<camVars, signalVars, stopped, batch, cur, inference,
                   inferred, seen>>

\* StaleSharedFrameError: the shared worker found one of the raw slots already
\* overwritten.  Every frame of the batch is given up and counted.
StaleDrop(u) ==
    /\ u \in Shared
    /\ Goto(u, "infer", "check")
    /\ \E f \in Range(frames[u]) : raw[f[1]] # f[2]
    /\ StaleCounted(u)
    /\ frames' = [frames EXCEPT ![u] = <<>>]
    /\ UNCHANGED <<camVars, signalVars, stopped, batch, cur, inference,
                   inferred, seen>>

\* Any other exception of process_batch leaves run; nobody restarts the worker.
WorkerFails(u) ==
    /\ Goto(u, "infer", "exited")
    /\ frames' = [frames EXCEPT ![u] = <<>>]
    /\ UNCHANGED <<camVars, signalVars, stopped, batch, cur, resultVars, seen>>

\* Mutant of WriteResult: the results are paired with the frames in reverse.
WriteReversed(u) ==
    /\ pc[u] = "write"
    /\ inference' = [inference EXCEPT ![u][Head(frames[u])[1]] =
                        frames[u][Len(frames[u])][2]]
    /\ inferred' = [inferred EXCEPT ![u][Head(frames[u])[1]] = @ + 1]
    /\ frames' = [frames EXCEPT ![u] = Tail(@)]
    /\ pc' = [pc EXCEPT ![u] = IF Len(frames[u]) = 1 THEN "check" ELSE "write"]
    /\ UNCHANGED <<camVars, signalVars, stopped, batch, cur, stale, seen>>

WriteResult(u) ==
    /\ pc[u] = "write"
    /\ LET f == Head(frames[u]) IN
          /\ inference' = [inference EXCEPT ![u][f[1]] = f[2]]
          /\ inferred' = [inferred EXCEPT ![u][f[1]] = @ + 1]
    /\ frames' = [frames EXCEPT ![u] = Tail(@)]
    /\ pc' = [pc EXCEPT ![u] = IF Len(frames[u]) = 1 THEN "check" ELSE "write"]
    /\ UNCHANGED <<camVars, signalVars, stopped, batch, cur, stale, seen>>
-----------------------------------------------------------------------------
WorkerStep(u) ==
    \/ LoopHead(u) \/ TakeFirst(u) \/ FirstTimeout(u) \/ TakeMore(u)
    \/ CloseBatch(u) \/ ClearPending(u) \/ ReadSlot(u) \/ BatchRead(u)
    \/ Infer(u) \/ StaleDrop(u) \/ WorkerFails(u) \/ WriteResult(u)

Next ==
    \/ \E c \in Cameras : Capture(c)
    \/ \E c \in Cameras, u \in UseCases : Publish(c, u)
    \/ Stop
    \/ \E u \in UseCases : WorkerStep(u)

Spec == Init /\ [][Next]_vars

\* A camera thread always finishes the publish_frame call it is in; a worker
\* process keeps running.  Capturing, stopping and failing are never forced.
Fairness ==
    /\ \A c \in Cameras, u \in UseCases : WF_vars(Publish(c, u))
    /\ \A u \in UseCases : WF_vars(WorkerStep(u))

FairSpec == Spec /\ Fairness
-----------------------------------------------------------------------------
Reading(u) == IF cur[u] = None THEN {} ELSE {cur[u]}
InHand(u) == {f[1] : f \in Range(frames[u])}
InBatch(u, c) == IF c \in InHand(u) \cup Reading(u) THEN 1 ELSE 0
Signalled(u, c) == IF c \in pending[u] THEN 1 ELSE 0
Publishing(u, c) == IF u \in todo[c] THEN 1 ELSE 0

\* Uncleared signals, oldest first: the batch left to read, then the queue.
Owed(u) == batch[u] \o queue[u]

\* signal_pending of a camera is set exactly while one signal of it is on its
\* way: queued, or collected by the worker but not yet cleared.
PendingIsOwed ==
    \A u \in UseCases : /\ IsInjective(Owed(u))
                        /\ Range(Owed(u)) = pending[u]

\* queue.Full in publish_frame is never reached: a queue of one place per
\* assigned camera is large enough for every interleaving.
NoDroppedSignal ==
    \A u \in UseCases, c \in Cameras : dropped[u][c] = 0

\* No lost wake-up: a raw frame a use case has not read is announced by a signal
\* on its way, by a publish_frame call under way, or by a worker that is about
\* to read the slot.
NoLostWakeup ==
    \A u \in UseCases : \A c \in Assigned[u] :
        seen[u][c] < raw[c] =>
            c \in Range(Owed(u)) \/ u \in todo[c] \/ cur[u] = c

\* One captured frame pays for at most one unit of work: results, stale drops,
\* the frame in hand, the signal and the publication together never exceed the
\* frames captured, so no interleaving makes a worker spin on one frame.
WorkIsPaidFor ==
    \A u \in UseCases : \A c \in Assigned[u] :
        inferred[u][c] + stale[u][c] + InBatch(u, c) + Signalled(u, c)
            + Publishing(u, c) <= raw[c]

\* The frames in hand are newer than, or the same as, what the inference slot
\* shows, are the last ones read, and no camera is in a batch twice.
BatchIsFresh ==
    \A u \in UseCases :
        /\ \A i, j \in DOMAIN frames[u] :
              frames[u][i][1] = frames[u][j][1] => i = j
        /\ \A f \in Range(frames[u]) :
              inference[u][f[1]] <= f[2] /\ f[2] = seen[u][f[1]]

\* Latest-frame transport: the raw and the inference slots implement the
\* abstract mailbox; an inference slot never shows an older frame than before.
LF == INSTANCE LatestFrame WITH published <- raw, delivered <- inference
ImplementsLatestFrame == LF!Spec

\* Every captured frame, or a newer one, is eventually shown by every use case of
\* its camera whose worker has not exited.  Only a batch that the shared detector
\* refused because of another camera can lose the last frame of a camera.
FramesAreShown ==
    \A u \in UseCases : \A c \in Assigned[u] : \A n \in 1 .. MaxFrames[c] :
        (raw[c] = n) ~> \/ inference[u][c] >= n
                        \/ pc[u] = "exited"
                        \/ u \in Shared /\ Assigned[u] # {c} /\ stale[u][c] > 0
=============================================================================
