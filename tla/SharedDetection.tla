-------------------------- MODULE SharedDetection --------------------------
(***************************************************************************)
(* One shared detection worker and the consumers of its ModelSpec:         *)
(* SharedDetectionProvider.predict_batch in each use-case process, the     *)
(* request queue, run_shared_detection_worker with its pending deque and   *)
(* its latest-prediction cache, and one response queue per consumer.       *)
(*                                                                         *)
(* A frame is <<camera, sequence>> and a prediction is the frame it was    *)
(* computed from.  A request id is one bit: uuid4 only has to differ from  *)
(* the id of the consumer's previous request.  Consumers may ask for any   *)
(* frames they read (SignalRouting says which), and deployments with       *)
(* several shared detectors are several consumers.                         *)
(***************************************************************************)
EXTENDS Naturals, Sequences, FiniteSets, SequencesExt

CONSTANTS Consumers,   \* consumer keys
          Cameras,
          Owns,        \* Owns[k]: handle.camera_ids
          BatchSize,   \* worker_defaults.batch_size
          Failures,    \* whether timeouts, crashes and backend errors happen
          MaxFrames    \* bound: MaxFrames[c] frames are captured of c

ASSUME SharedAssumption ==
    /\ IsFiniteSet(Consumers) /\ IsFiniteSet(Cameras)
    /\ Owns \in [Consumers -> SUBSET Cameras]
    /\ BatchSize \in Nat \ {0}
    /\ Failures \in BOOLEAN
    /\ MaxFrames \in [Cameras -> Nat]

VARIABLES slot,       \* slot[c]: sequence in the raw slot of c
          locked,     \* raw slots whose lock a process held when it was killed
          state,      \* state[k]: "idle", "waiting" or "dead"
          id,         \* id[k]: id of the last request
          items,      \* items[k]: frames it is about, in order
          requests,   \* request_queue
          responses,  \* responses[k]: response queue
          stopped,    \* stop_event
          pc,         \* "first", "collect", "read", "refuse", "reply", "fail"
                      \* or "exited"
          pending,    \* deque of requests put off to a later batch
          batch,      \* requests of this batch
          at,         \* which of them is read or answered next
          item,       \* which of its items is read next
          frames,     \* frames_by_key, in insertion order
          stale,      \* <<consumer, id>> of the requests found stale
          latest      \* latest[c]: frame of the cached prediction, 0 if none

consumerVars == <<state, id, items>>
workerVars == <<pc, pending, batch, at, item, frames, stale, latest>>
slotVars == <<slot, locked>>
vars == <<slotVars, consumerVars, requests, responses, stopped, workerVars>>

ItemCount(rs) == FoldSeq(LAMBDA r, n : Len(r.items) + n, 0, rs)
Key(r) == <<r.consumer, r.id>>
Request == [consumer : Consumers, id : 0 .. 1, items : Seq(Cameras \X Nat)]
Response == [id : 0 .. 1, kind : {"ok", "stale", "error"},
             predictions : Seq(Cameras \X Nat)]

\* The variables have their types; a batch is never read when it is empty, nothing is
\* read beyond its end, and only a request that is too large by itself makes it exceed
\* batch_size.
TypeOK ==
    /\ slot \in [Cameras -> Nat]
    /\ locked \subseteq Cameras
    /\ state \in [Consumers -> {"idle", "waiting", "dead"}]
    /\ id \in [Consumers -> 0 .. 1]
    /\ items \in [Consumers -> Seq(Cameras \X (Nat \ {0}))]
    /\ requests \in Seq(Request)
    /\ responses \in [Consumers -> Seq(Response)]
    /\ stopped \in BOOLEAN
    /\ pc \in {"first", "collect", "read", "refuse", "reply", "fail", "exited"}
    /\ pending \in Seq(Request)
    /\ batch \in Seq(Request)
    /\ at \in 1 .. Len(batch) + 1
    /\ item \in Nat \ {0}
    /\ pc = "read" /\ at <= Len(batch) => item <= Len(batch[at].items)
    /\ frames \in Seq(Cameras \X (Nat \ {0}))
    /\ stale \subseteq Consumers \X (0 .. 1)
    /\ latest \in [Cameras -> Nat]
    /\ pc \notin {"first", "exited"} => batch # <<>>
    /\ Len(batch) > 1 => ItemCount(batch) <= BatchSize

Init ==
    /\ slot = [c \in Cameras |-> 0]
    /\ locked = {}
    /\ state = [k \in Consumers |-> "idle"]
    /\ id = [k \in Consumers |-> 0]
    /\ items = [k \in Consumers |-> <<>>]
    /\ requests = <<>>
    /\ responses = [k \in Consumers |-> <<>>]
    /\ stopped = FALSE
    /\ pc = "first"
    /\ pending = <<>>
    /\ batch = <<>>
    /\ at = 1 /\ item = 1
    /\ frames = <<>>
    /\ stale = {}
    /\ latest = [c \in Cameras |-> 0]
-----------------------------------------------------------------------------
(* Cameras and consumers.                                                  *)

Capture(c) ==
    /\ slot[c] < MaxFrames[c]
    /\ c \notin locked
    /\ slot' = [slot EXCEPT ![c] = @ + 1]
    /\ UNCHANGED <<locked, consumerVars, requests, responses, stopped, workerVars>>

\* The use-case worker reads one more frame for the batch it will ask about.
ReadFrame(k, c) ==
    /\ state[k] = "idle"
    /\ c \in Owns[k]
    /\ slot[c] > 0 /\ c \notin locked
    /\ \A f \in ToSet(items[k]) : f[1] # c
    /\ items' = [items EXCEPT ![k] = Append(@, <<c, slot[c]>>)]
    /\ UNCHANGED <<slotVars, state, id, requests, responses, stopped, workerVars>>

\* predict_batch up to the blocking get.
Ask(k) ==
    /\ state[k] = "idle"
    /\ items[k] # <<>>
    /\ state' = [state EXCEPT ![k] = "waiting"]
    /\ id' = [id EXCEPT ![k] = 1 - @]
    /\ requests' = Append(requests,
                      [consumer |-> k, id |-> 1 - id[k], items |-> items[k]])
    /\ UNCHANGED <<slotVars, items, responses, stopped, workerVars>>

\* _response: a mismatched id or an error raises out of the use-case worker, a
\* stale reply only drops the batch.
Receive(k) ==
    /\ state[k] = "waiting"
    /\ responses[k] # <<>>
    /\ LET r == Head(responses[k]) IN
          state' = [state EXCEPT ![k] =
                      IF r.id = id[k] /\ r.kind \in {"ok", "stale"}
                      THEN "idle" ELSE "dead"]
    /\ responses' = [responses EXCEPT ![k] = Tail(@)]
    /\ items' = [items EXCEPT ![k] = <<>>]
    /\ UNCHANGED <<slotVars, id, requests, stopped, workerVars>>

\* TimeoutError: the use-case worker dies and nobody restarts it.
Timeout(k) ==
    /\ Failures
    /\ state[k] = "waiting"
    /\ responses[k] = <<>>
    /\ state' = [state EXCEPT ![k] = "dead"]
    /\ items' = [items EXCEPT ![k] = <<>>]
    /\ UNCHANGED <<slotVars, id, requests, responses, stopped, workerVars>>

Stop ==
    /\ Failures
    /\ ~stopped
    /\ stopped' = TRUE
    /\ UNCHANGED <<slotVars, consumerVars, requests, responses, workerVars>>
-----------------------------------------------------------------------------
(* The shared worker.                                                      *)

\* Mutant of TakeFirst: what was put off waits for an empty queue.
TakeNewestFirst ==
    /\ pc = "first" /\ ~stopped
    /\ IF requests # <<>>
       THEN /\ batch' = <<Head(requests)>>
            /\ requests' = Tail(requests) /\ UNCHANGED pending
       ELSE /\ pending # <<>> /\ batch' = <<Head(pending)>>
            /\ pending' = Tail(pending) /\ UNCHANGED requests
    /\ pc' = "collect"
    /\ UNCHANGED <<slotVars, consumerVars, responses, stopped, at, item, frames,
                   stale, latest>>

\* A new batch starts with the oldest request put off, if there is one.
TakeFirst ==
    /\ pc = "first"
    /\ ~stopped
    /\ \/ /\ pending # <<>>
          /\ batch' = <<Head(pending)>>
          /\ pending' = Tail(pending)
          /\ UNCHANGED requests
       \/ /\ pending = <<>>
          /\ requests # <<>>
          /\ batch' = <<Head(requests)>>
          /\ requests' = Tail(requests)
          /\ UNCHANGED pending
    /\ pc' = "collect"
    /\ UNCHANGED <<slotVars, consumerVars, responses, stopped, at, item, frames,
                   stale, latest>>

\* Mutant of Fits: the candidate itself is not counted.
FitsSoFar(r) == ItemCount(batch) <= BatchSize

Fits(r) == ItemCount(Append(batch, r)) <= BatchSize

\* Mutant of TakeMore: a candidate that does not fit is dropped.
TakeOrDrop ==
    /\ pc = "collect" /\ requests # <<>>
    /\ ItemCount(batch) < BatchSize
    /\ requests' = Tail(requests)
    /\ batch' = IF Fits(Head(requests)) THEN Append(batch, Head(requests)) ELSE batch
    /\ UNCHANGED <<slotVars, consumerVars, responses, stopped, pc, pending, at,
                   item, frames, stale, latest>>

\* _collect_requests: a candidate that does not fit is put off.
TakeMore ==
    /\ pc = "collect"
    /\ ItemCount(batch) < BatchSize
    /\ requests # <<>>
    /\ requests' = Tail(requests)
    /\ IF Fits(Head(requests))
       THEN batch' = Append(batch, Head(requests)) /\ UNCHANGED pending
       ELSE pending' = Append(pending, Head(requests)) /\ UNCHANGED batch
    /\ UNCHANGED <<slotVars, consumerVars, responses, stopped, pc, at, item,
                   frames, stale, latest>>

\* The batch is full or its deadline passed.
CloseBatch ==
    /\ pc = "collect"
    /\ pc' = "read"
    /\ UNCHANGED <<slotVars, consumerVars, requests, responses, stopped, pending,
                   batch, at, item, frames, stale, latest>>

\* Mutant of Exact: the sequence is not compared.
ExactAlways(key) == slot[key[1]] > 0

\* The raw slot still holds the frame the request names.
Exact(key) == slot[key[1]] = key[2]

\* One item of the batch: cached or already copied, copied now, or stale, which
\* abandons the rest of its request.
ReadItem ==
    /\ pc = "read"
    /\ at <= Len(batch)
    /\ LET r == batch[at]
           key == r.items[item]
           known == latest[key[1]] = key[2] \/ key \in ToSet(frames)
           exact == Exact(key)
           more == (known \/ exact) /\ item < Len(r.items)
       IN  /\ known \/ key[1] \notin locked
           /\ frames' = IF ~known /\ exact THEN Append(frames, key) ELSE frames
           /\ stale' = IF known \/ exact THEN stale ELSE stale \cup {Key(r)}
           /\ item' = IF more THEN item + 1 ELSE 1
           /\ IF ~more /\ at = Len(batch)
              THEN pc' = "refuse" /\ at' = 1
              ELSE pc' = pc /\ at' = IF more THEN at ELSE at + 1
    /\ UNCHANGED <<slotVars, consumerVars, requests, responses, stopped, pending,
                   batch, latest>>

\* The requests of the batch a reply was refused or is due to, from the next on.
Stale == {i \in at .. Len(batch) : Key(batch[i]) \in stale}
Valid == {i \in at .. Len(batch) : Key(batch[i]) \notin stale}

\* Request r gets its reply, on the queue of its consumer.
Reply(r, kind, predictions) ==
    responses' = [responses EXCEPT ![r.consumer] =
        Append(@, [id |-> r.id, kind |-> kind, predictions |-> predictions])]

ReplyStale ==
    /\ pc = "refuse"
    /\ \E i \in Stale :
          /\ \A j \in Stale : i <= j
          /\ Reply(batch[i], "stale", <<>>)
          /\ at' = i + 1
    /\ UNCHANGED <<slotVars, consumerVars, requests, stopped, pc, pending, batch, item,
                   frames, stale, latest>>

\* Frames that are to be inferred: those of the valid requests, unless cached.
Needed == {f \in UNION {ToSet(r.items) : r \in {b \in ToSet(batch) : Key(b) \notin stale}} :
              latest[f[1]] # f[2]}
InferKeys == {i \in DOMAIN frames : frames[i] \in Needed}

\* Mutant of Cached: the cache is updated after the replies.
CachedBefore(c) == latest[c]

\* The cache keeps the last prediction of each camera of the model call.
Cached(c) ==
    LET mine == {i \in InferKeys : frames[i][1] = c}
    IN  IF mine = {} THEN latest[c] ELSE frames[Max(mine)][2]

\* The loop over the requests goes on behind the last one answered or, if none of
\* the others is valid, the batch is done.
Continue(last, next) ==
    /\ IF \E i \in last + 1 .. Len(batch) : Key(batch[i]) \notin stale
       THEN pc' = next /\ at' = last + 1 /\ UNCHANGED <<batch, stale>>
       ELSE pc' = "first" /\ at' = 1 /\ batch' = <<>> /\ stale' = {}
    /\ frames' = <<>>
    /\ UNCHANGED <<slotVars, consumerVars, requests, stopped, pending, item>>

Infer ==
    /\ pc = "refuse" /\ Stale = {}
    /\ latest' = [c \in Cameras |-> Cached(c)]
    /\ Continue(0, "reply") /\ UNCHANGED responses

InferFails ==
    /\ Failures
    /\ pc = "refuse" /\ Stale = {}
    /\ InferKeys # {}
    /\ Continue(0, "fail") /\ UNCHANGED <<responses, latest>>

\* The predictions of a reply are taken from the cache by camera.
Predicted(r) == [i \in DOMAIN r.items |-> <<r.items[i][1], latest[r.items[i][1]]>>]

ReplyValid ==
    /\ pc \in {"reply", "fail"}
    /\ \E i \in Valid :
          /\ \A j \in Valid : i <= j
          /\ IF pc = "reply" THEN Reply(batch[i], "ok", Predicted(batch[i]))
             ELSE Reply(batch[i], "error", <<>>)
          /\ Continue(i, pc)
    /\ UNCHANGED latest

\* The process ends, and its memory is gone.
Exits ==
    /\ pc' = "exited"
    /\ pending' = <<>> /\ batch' = <<>> /\ at' = 1 /\ item' = 1
    /\ frames' = <<>> /\ stale' = {} /\ latest' = [c \in Cameras |-> 0]
    /\ UNCHANGED <<slot, consumerVars, requests, responses, stopped>>

\* The stop event is seen at the head of the loop; requests still queued or put
\* off get no reply.
Exit ==
    /\ pc = "first"
    /\ stopped
    /\ Exits /\ UNCHANGED locked

\* The worker ends wherever it is, with the lock of the slot it copies if it is
\* copying one.
WorkerKilled ==
    /\ pc # "exited"
    /\ Exits
    /\ \/ UNCHANGED locked
       \/ pc = "read" /\ locked' = locked \cup {batch[at].items[item][1]}

\* It is killed by the system at any point; nobody restarts it.
Crash == Failures /\ WorkerKilled
-----------------------------------------------------------------------------
Consumer(k) ==
    \/ \E c \in Cameras : ReadFrame(k, c)
    \/ Ask(k) \/ Receive(k) \/ Timeout(k)

Worker ==
    \/ TakeFirst \/ TakeMore \/ CloseBatch \/ ReadItem \/ ReplyStale
    \/ Infer \/ InferFails \/ ReplyValid \/ Exit

Next ==
    \/ \E c \in Cameras : Capture(c)
    \/ \E k \in Consumers : Consumer(k)
    \/ Worker \/ Stop \/ Crash

Spec == Init /\ [][Next]_vars
-----------------------------------------------------------------------------
\* The requests of the batch that have no reply yet.
Unanswered ==
    {i \in DOMAIN batch :
        \/ pc \in {"collect", "read"}
        \/ pc = "refuse" /\ (i >= at \/ Key(batch[i]) \notin stale)
        \/ pc \in {"reply", "fail"} /\ i \in Valid}

\* Where a request of k, or the reply to one, is.
From(k, s) == {i \in DOMAIN s : s[i].consumer = k}
Places(k) ==
    {"queued"} \X From(k, requests) \cup {"put off"} \X From(k, pending)
        \cup {"taken"} \X (From(k, batch) \cap Unanswered)
        \cup {"answered"} \X DOMAIN responses[k]

\* A request is never answered twice and, while the worker lives, never lost, and a
\* consumer that waits only ever finds the reply to the request it waits for.  So
\* the queues hold at most one request and one reply per consumer, cannot reach
\* their maxsize, and the "response mismatch" error of _response cannot happen.
OneReplyPerRequest ==
    \A k \in Consumers :
        /\ Cardinality(Places(k)) <= 1
        /\ state[k] = "waiting" /\ pc # "exited" => Places(k) # {}
        /\ state[k] = "waiting" /\ responses[k] # <<>> =>
              Head(responses[k]).id = id[k]

Predictions(k) == Head(responses[k]).predictions
HasPredictions(k) ==
    state[k] = "waiting" /\ responses[k] # <<>> /\ Head(responses[k]).kind = "ok"

\* A reply has one prediction per frame, of the same camera and in the order
\* asked, computed from the frame asked or a newer one that was captured; and what
\* is computed next is newer than what the cache holds, so it never goes back.
PredictionsAlign ==
    /\ \A k \in Consumers : HasPredictions(k) =>
          /\ Len(Predictions(k)) = Len(items[k])
          /\ \A i \in DOMAIN items[k] :
                LET p == Predictions(k)[i] f == items[k][i]
                IN  p[1] = f[1] /\ p[2] >= f[2] /\ p[2] <= slot[f[1]]
    /\ \A i \in DOMAIN frames :
          LET c == frames[i][1] IN
          /\ latest[c] < frames[i][2]
          /\ \A j \in 1 .. i - 1 : frames[j][1] = c => frames[j][2] < frames[i][2]

\* "copy exact latest-frame snapshot or reject stale request": a reply holds the
\* predictions of exactly the frames asked.
ExactSnapshot ==
    \A k \in Consumers : HasPredictions(k) => Predictions(k) = items[k]
=============================================================================
