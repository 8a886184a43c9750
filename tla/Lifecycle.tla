----------------------------- MODULE Lifecycle -----------------------------
(***************************************************************************)
(* The shutdown of the whole runtime, over the processes of                *)
(* SharedDetection: VisionRuntime.close and UseCaseOrchestrator.close set  *)
(* the stop event, close the use cases one after the other, then the       *)
(* shared worker and at last the raw slots.  Each process is joined for    *)
(* five seconds, sent SIGTERM if it has not ended by then and joined for   *)
(* two seconds more.  Nobody looks whether it has ended then: its queues   *)
(* and slots are closed anyway.  No process has a handler for the signal,  *)
(* so it executes nothing more; that is all "dead" and "exited" mean, for  *)
(* the operating system may take any time to end it.                       *)
(*                                                                         *)
(* A use case waits up to ten seconds for a reply, the worker may have     *)
(* seen the stop event before its requests, and any of them may be slow:   *)
(* a join can time out whatever the process is doing.  A process that is   *)
(* terminated while it copies a raw slot leaves the lock of the slot       *)
(* locked for everybody else.                                              *)
(*                                                                         *)
(* The camera threads have been joined before (VideoStream).  The process  *)
(* of a use case stands for its evidence process too, which is joined next *)
(* to it; its renderer thread, joined for three seconds, is left out.      *)
(***************************************************************************)
EXTENDS SharedDetection, InferenceCoordination

CONSTANT CloseOrder  \* the use cases in the order of the deployments

ASSUME LifecycleAssumption ==
    /\ CloseOrder \in Seq(Consumers)
    /\ ToSet(CloseOrder) = Consumers /\ IsInjective(CloseOrder)

VARIABLE main  \* main process: 0 while it serves, then what it closes: a use
               \* case, the shared worker, and beyond them the raw slots

systemVars == <<vars, main>>

SharedWorker == Len(CloseOrder) + 1
RawSlots == SharedWorker + 1

Ended(i) == IF i = SharedWorker THEN pc = "exited" ELSE state[CloseOrder[i]] = "dead"

StartRuntime == Init /\ main = 0
-----------------------------------------------------------------------------
\* The processes and, until they are joined, the camera threads.
Serve ==
    /\ \/ ~stopped /\ \E c \in Cameras : Capture(c)
       \/ \E k \in Consumers : Consumer(k)
       \/ Crash
    /\ UNCHANGED main

WorkerRuns == Worker /\ UNCHANGED main

\* A use-case worker sees the stop event at the head of its loop.
ConsumerEnds(k) ==
    /\ stopped
    /\ state[k] = "idle" /\ items[k] = <<>>
    /\ state' = [state EXCEPT ![k] = "dead"]
    /\ UNCHANGED <<slotVars, id, items, requests, responses, stopped, workerVars,
                   main>>

\* The cameras are stopped and the stop event is set.
BeginClose == main = 0 /\ Stop /\ main' = 1

\* Raw slots whose lock a use case may hold: those it still reads for its batch.
Reading(k) ==
    IF state[k] = "idle" THEN {c \in Owns[k] : \A f \in ToSet(items[k]) : f[1] # c}
    ELSE {}

ConsumerKilled(k) ==
    /\ state[k] # "dead"
    /\ state' = [state EXCEPT ![k] = "dead"]
    /\ items' = [items EXCEPT ![k] = <<>>]
    /\ \/ UNCHANGED locked
       \/ \E c \in Reading(k) \ locked : locked' = locked \cup {c}
    /\ UNCHANGED <<slot, id, requests, responses, stopped, workerVars>>

\* The process has ended when the join returns or when is_alive is asked.
JoinReturns ==
    /\ main \in 1 .. SharedWorker
    /\ Ended(main)
    /\ main' = main + 1 /\ UNCHANGED vars

\* Mutant of JoinTimesOut: what does not end in time is left alone.
JoinGivesUp ==
    /\ main \in 1 .. SharedWorker
    /\ main' = main + 1 /\ UNCHANGED vars

\* join(timeout=5), is_alive, terminate, join(timeout=2): the process executes nothing
\* more and, gone by then or not, its queues and slots are closed.
JoinTimesOut ==
    /\ main \in 1 .. SharedWorker
    /\ IF main = SharedWorker THEN WorkerKilled ELSE ConsumerKilled(CloseOrder[main])
    /\ main' = main + 1

Close == JoinReturns \/ JoinTimesOut

RunSystem ==
    \/ Serve \/ WorkerRuns
    \/ \E k \in Consumers : ConsumerEnds(k)
    \/ BeginClose \/ Close

\* The wait of a consumer whose reply is there, or for which nobody is left to reply.
WaitIsOver(k) == Receive(k) \/ (pc = "exited" /\ Timeout(k))

\* Fair: the worker, the main process while it closes and a wait that is over.  Nobody
\* has to ask, capture, crash or end.
SystemSpec ==
    /\ StartRuntime /\ [][RunSystem]_systemVars
    /\ WF_systemVars(WorkerRuns) /\ WF_systemVars(Close)
    /\ \A k \in Consumers : WF_systemVars(WaitIsOver(k) /\ UNCHANGED main)
-----------------------------------------------------------------------------
\* "These consumer filters are applied after shared inference": what a consumer makes
\* of a reply is what a detector of its own would have given it, with any filters and
\* limits of the consumers of the worker, but for the last boxes if max_detections
\* cut the shared ones.
RepliesAreTransparent ==
    \A k \in Consumers : \A r \in ToSet(responses[k]) :
        r.kind = "ok" => FiltersCommute

\* No use case waits for ever: every request gets a reply, those put off because they
\* did not fit included (smaller requests cannot overtake one for ever), or the worker
\* is gone, which may never have taken it, and then the wait is given up.
EveryWaitEnds == \A k \in Consumers : state[k] = "waiting" ~> state[k] # "waiting"

\* Shutdown comes to its end and leaves nobody running: what has missed the stop
\* event, waits for a reply that never comes or for a lock that a process took along
\* when it was terminated or crashed is stopped as well, and stops nobody else.
ShutdownCompletes ==
    stopped ~> main = RawSlots /\ \A i \in 1 .. SharedWorker : Ended(i)
=============================================================================
