--------------------------- MODULE EvidenceWorker ---------------------------
(***************************************************************************)
(* Evidence of one camera: the camera thread writes raw frames, the        *)
(* use-case worker writes results and puts events on the event queue, and  *)
(* the evidence process samples raw frames into a rolling buffer, accepts  *)
(* the events and submits one bundle for each, once its post-roll is over  *)
(* or the stop event is set.                                               *)
(*                                                                         *)
(* A frame is its sequence and its timestamp, an event the frame it was    *)
(* confirmed in.  Time passes in seconds, not faster than MaxLag for one   *)
(* round of the loop and MaxLatency for one frame in the use-case worker.  *)
(* JPEG, clip and file writing (the writer thread) are abstracted away.    *)
(***************************************************************************)
EXTENDS Integers, Sequences, FiniteSets, SequencesExt

CONSTANTS PreSeconds, PostSeconds, \* evidence.pre_seconds, post_seconds
          Slack,         \* seconds kept beyond them (2.0)
          Period,        \* seconds between two samples, 1 / fps
          MaxFrames,     \* maxlen of the rolling buffer
          QueueSize,     \* maxsize of event_queue
          MaxLag,        \* bound: seconds for one round of the loop
          MaxLatency,    \* bound: seconds for one frame in the use-case worker
          MaxTime,       \* bound: seconds
          MaxCaptures,   \* bound: frames of the camera
          MaxEvents,     \* bound: events
          NoEvent        \* what a frame without an event confirms

ASSUME EvidenceAssumption ==
    /\ {PreSeconds, PostSeconds, Slack, MaxLag, MaxLatency} \subseteq Nat
    /\ {Period, MaxFrames, QueueSize} \subseteq Nat \ {0}

VARIABLES now,
          raw,       \* frame in the raw slot
          shown,     \* sequence in the inference slot
          work,      \* the frame the use-case worker is at
          wpc,       \* where it is
          events,    \* event_queue
          dropped,   \* ids of the events the full queue refused
          emitted,   \* how many events were confirmed; the last one's id
          stopped,   \* stop_event
          pc,        \* where the evidence process is
          nextSample,\* next_sample
          lag,       \* seconds since it was last at the head of its loop
          buffer,    \* the RollingJpegBuffer
          pending,   \* accepted events, with the source of their snapshot
          bundles,   \* submitted bundles
          sampled    \* history: every frame it ever sampled

cameraVars == <<raw>>
workerVars == <<shown, work, wpc, dropped, emitted>>
evidenceVars == <<pc, nextSample, buffer, pending, bundles, sampled>>
vars == <<now, lag, stopped, events, cameraVars, workerVars, evidenceVars>>

NoFrame == [seq |-> 0, ts |-> 0]

Init ==
    /\ now = 0 /\ lag = 0
    /\ raw = NoFrame
    /\ shown = 0 /\ work = NoFrame /\ wpc = "idle"
    /\ events = <<>> /\ dropped = {} /\ emitted = 0
    /\ stopped = FALSE
    /\ pc = "head" /\ nextSample = 0
    /\ buffer = <<>> /\ pending = {} /\ bundles = {} /\ sampled = {}
-----------------------------------------------------------------------------
(* The rest of the system.                                                 *)

Tick ==
    /\ now < MaxTime
    /\ pc # "done" => lag < MaxLag
    /\ wpc \in {"infer", "emit"} => now - work.ts < MaxLatency
    /\ now' = now + 1
    /\ lag' = IF pc = "done" THEN lag ELSE lag + 1
    /\ UNCHANGED <<stopped, events, cameraVars, workerVars, evidenceVars>>

\* At most one frame a second.
Capture ==
    /\ raw.seq < MaxCaptures
    /\ raw.seq = 0 \/ raw.ts < now
    /\ raw' = [seq |-> raw.seq + 1, ts |-> now]
    /\ UNCHANGED <<now, lag, stopped, events, workerVars, evidenceVars>>

\* UseCaseOrchestrator.close
Stop ==
    /\ ~stopped
    /\ stopped' = TRUE
    /\ UNCHANGED <<now, lag, events, cameraVars, workerVars, evidenceVars>>

ReadRaw ==
    /\ wpc = "idle" /\ ~stopped
    /\ raw.seq > 0 /\ now - raw.ts < MaxLatency
    /\ work' = raw /\ wpc' = "infer"
    /\ UNCHANGED <<now, lag, stopped, events, cameraVars, shown, dropped,
                   emitted, evidenceVars>>

\* The result goes into the inference slot before its event is put.
WriteResult ==
    /\ wpc = "infer"
    /\ shown' = work.seq /\ wpc' = "emit"
    /\ UNCHANGED <<now, lag, stopped, events, cameraVars, work, dropped,
                   emitted, evidenceVars>>

PutEvent(event) ==
    IF event = NoEvent THEN UNCHANGED <<events, dropped, emitted>>
    ELSE /\ emitted' = event.id
         /\ IF Len(events) < QueueSize
            THEN events' = Append(events, event) /\ UNCHANGED dropped
            ELSE dropped' = dropped \cup {event.id} /\ UNCHANGED events

Emit ==
    /\ wpc = "emit" /\ wpc' = "idle"
    /\ \/ PutEvent(NoEvent)
       \/ /\ emitted < MaxEvents
          /\ PutEvent([id |-> emitted + 1, seq |-> work.seq, at |-> work.ts])
    /\ UNCHANGED <<now, lag, stopped, cameraVars, shown, work, evidenceVars>>

WorkerExits ==
    /\ wpc = "idle" /\ stopped
    /\ wpc' = "exited"
    /\ UNCHANGED <<now, lag, stopped, events, cameraVars, shown, work, dropped,
                   emitted, evidenceVars>>
-----------------------------------------------------------------------------
(* EvidenceWorker.run                                                      *)

\* Mutant of Retained: nothing is kept beyond the interval.
RetainedInterval(f, g) == f.ts - g.ts <= PreSeconds + PostSeconds

Retained(f, g) == f.ts - g.ts <= PreSeconds + PostSeconds + Slack

\* RollingJpegBuffer.append: the oldest frame goes if there are more than maxlen,
\* then the oldest ones up to the first within the retention.
Buffered(buf, f) ==
    LET full == Append(buf, f)
        bounded == IF Len(full) > MaxFrames THEN Tail(full) ELSE full
        first == CHOOSE i \in DOMAIN bounded :
                    /\ Retained(f, bounded[i])
                    /\ \A j \in 1 .. i - 1 : ~Retained(f, bounded[j])
    IN  SubSeq(bounded, first, Len(bounded))

LastSequence == IF sampled = {} THEN 0
                ELSE CHOOSE n \in {f.seq : f \in sampled} :
                        \A f \in sampled : f.seq <= n

\* _sample: read_if_new, then append.
Sample ==
    IF raw.seq \in {0, LastSequence} THEN UNCHANGED <<buffer, sampled>>
    ELSE /\ buffer' = Buffered(buffer, raw)
         /\ sampled' = sampled \cup {raw}

\* The head of the loop, and the sample if one is due.
LoopHead ==
    /\ pc = "head"
    /\ lag' = 0
    /\ IF stopped THEN pc' = "final" /\ UNCHANGED <<buffer, sampled, nextSample>>
       ELSE /\ pc' = "drain"
            /\ IF now >= nextSample
               THEN Sample /\ nextSample' = now + Period
               ELSE UNCHANGED <<buffer, sampled, nextSample>>
    /\ UNCHANGED <<now, stopped, events, cameraVars, workerVars, pending, bundles>>

\* Mutant of Accept: the snapshot is taken if the newest raw frame has its result.
AcceptNewest ==
    /\ pc = "drain" /\ events # <<>>
    /\ pending' = pending \cup {[event |-> Head(events),
                                 annotated |-> shown = raw.seq]}
    /\ events' = Tail(events)
    /\ UNCHANGED <<now, lag, stopped, cameraVars, workerVars, pc, nextSample,
                   buffer, bundles, sampled>>

\* One event of _drain_events, with the annotated snapshot if the inference slot
\* still shows the frame of the event.
Accept ==
    /\ pc = "drain" /\ events # <<>>
    /\ pending' = pending \cup {[event |-> Head(events),
                                 annotated |-> shown = Head(events).seq]}
    /\ events' = Tail(events)
    /\ UNCHANGED <<now, lag, stopped, cameraVars, workerVars, pc, nextSample,
                   buffer, bundles, sampled>>

DrainDone ==
    /\ pc = "drain" /\ events = <<>>
    /\ pc' = "finalize"
    /\ UNCHANGED <<now, lag, stopped, events, cameraVars, workerVars, nextSample,
                   buffer, pending, bundles, sampled>>

InInterval(f, e) == f.ts \in (e.at - PreSeconds) .. (e.at + PostSeconds)

\* _submit_bundle
Bundle(p, buf) ==
    [event |-> p.event,
     frames |-> {f \in Range(buf) : InInterval(f, p.event)},
     snapshot |-> IF p.annotated THEN "annotated"
                  ELSE IF buf # <<>> THEN "raw_nearest" ELSE "missing"]

\* Mutant of Submit: the events stay pending.
SubmitAgain(ready, buf) ==
    /\ bundles' = bundles \cup {Bundle(p, buf) : p \in ready}
    /\ UNCHANGED pending

Submit(ready, buf) ==
    /\ bundles' = bundles \cup {Bundle(p, buf) : p \in ready}
    /\ pending' = pending \ ready

\* Mutant of Ready: the retention of the buffer is waited for.
ReadyAfterRetention(p) == now >= p.event.at + PreSeconds + PostSeconds + Slack

Ready(p) == now >= p.event.at + PostSeconds

\* _finalize_ready, then the wait.
FinalizeReady ==
    /\ pc = "finalize" /\ pc' = "head"
    /\ Submit({p \in pending : Ready(p)}, buffer)
    /\ UNCHANGED <<now, lag, stopped, events, cameraVars, workerVars, nextSample,
                   buffer, sampled>>

\* The finally block: a last sample, then _finalize_all.
FinalizeAll ==
    /\ pc = "final" /\ pc' = "done"
    /\ Sample
    /\ Submit(pending, buffer')
    /\ UNCHANGED <<now, lag, stopped, events, cameraVars, workerVars, nextSample>>
-----------------------------------------------------------------------------
EvidenceStep == LoopHead \/ Accept \/ DrainDone \/ FinalizeReady \/ FinalizeAll
UseCaseStep == ReadRaw \/ WriteResult \/ Emit \/ WorkerExits

Next == Tick \/ Capture \/ Stop \/ UseCaseStep \/ EvidenceStep

Spec == Init /\ [][Next]_vars
-----------------------------------------------------------------------------
Queued == {events[i].id : i \in DOMAIN events}
Accepted == {p.event.id : p \in pending}
Bundled == {b.event.id : b \in bundles}

\* Every confirmed event is at exactly one place: refused by the full queue, in
\* the queue, accepted or in a bundle; none is bundled twice.
EventsAreConserved ==
    /\ Queued \cup Accepted \cup Bundled \cup dropped = 1 .. emitted
    /\ Len(events) + Cardinality(pending) + Cardinality(bundles)
          + Cardinality(dropped) = emitted

\* The clip covers the whole interval: every frame that was ever sampled in it is
\* still in the buffer when the bundle is submitted.
ClipCoversInterval ==
    [][\A b \in bundles' \ bundles :
          b.frames = {f \in sampled' : InInterval(f, b.event)}]_vars

\* A bundle does without its annotated snapshot only if a newer result replaced
\* the one of its event: the event is never ahead of its result.
SnapshotIfAvailable ==
    \A b \in bundles : b.snapshot # "annotated" => shown > b.event.seq

\* What an event has to wait for: its post-roll, and the worker that reports it.
Wait == IF PostSeconds > MaxLatency THEN PostSeconds ELSE MaxLatency

\* While the process runs, a bundle waits for its post-roll, and an event waits no
\* longer than it has to and two rounds of the loop: the one it was put in too late
\* for and the next.
BundlesArePrompt ==
    ~stopped =>
        /\ \A b \in bundles : now >= b.event.at + PostSeconds
        /\ \A e \in Range(events) \cup {p.event : p \in pending} :
              now <= e.at + Wait + 2 * MaxLag

\* "A confirmed domain event produces event.json": when both processes are done,
\* every event the queue took is in a bundle.
ConfirmedIsBundled ==
    (pc = "done" /\ wpc = "exited") => Bundled \cup dropped = 1 .. emitted
=============================================================================
