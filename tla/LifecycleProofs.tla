-------------------------- MODULE LifecycleProofs --------------------------
(***************************************************************************)
(* Proofs about Lifecycle, for any use cases, cameras and close order.     *)
(*                                                                         *)
(* The invariant of shared detection is SharedInv: a consumer has one      *)
(* request, at one place between its queue and its reply, and its own id   *)
(* and frames are on it (Accounts, Matching); the frames the worker copied *)
(* rise above those in its cache, which bounds what a reply is made from   *)
(* (CachesOK).  It is kept by the steps of the worker, by those of the     *)
(* others, and by a termination or a crash between any two of them.        *)
(***************************************************************************)
EXTENDS Lifecycle, DataLemmas

\* The order of closing names use cases.
LEMMA CloseOrderNames ==
    /\ Len(CloseOrder) \in Nat
    /\ \A i \in 1 .. Len(CloseOrder) : CloseOrder[i] \in Consumers
BY LifecycleAssumption
-----------------------------------------------------------------------------
(* What the worker and the consumers know of each other's requests.        *)

\* Where the worker is in its loop, and what it remembers there.
PositionOK ==
    /\ pc \in {"first", "collect", "exited"} => at = 1 /\ frames = <<>> /\ stale = {}
    /\ pc # "read" => item = 1
    /\ pc \in {"first", "exited"} => batch = <<>>
    /\ pc = "exited" => pending = <<>>
    /\ pc = "read" => at <= Len(batch)
    /\ pc \in {"reply", "fail"} => frames = <<>> /\ Valid # {}
    /\ \A r \in Range(requests) \cup Range(pending) \cup Range(batch) : r.items # <<>>

\* A request has a consumer, an id and items.
LEMMA RequestParts ==
    ASSUME NEW r \in Request
    PROVE  /\ r.consumer \in Consumers /\ r.id \in 0 .. 1
           /\ r.items \in Seq(Cameras \X Nat) /\ Len(r.items) \in Nat
           /\ DOMAIN r.items = 1 .. Len(r.items)
           /\ \A j \in 1 .. Len(r.items) :
                 /\ r.items[j] \in Cameras \X Nat
                 /\ r.items[j][1] \in Cameras /\ r.items[j][2] \in Nat
                 /\ r.items[j] = <<r.items[j][1], r.items[j][2]>>
<1>1. r.consumer \in Consumers /\ r.id \in 0 .. 1 /\ r.items \in Seq(Cameras \X Nat)
  BY DEF Request
<1>2. /\ Len(r.items) \in Nat /\ DOMAIN r.items = 1 .. Len(r.items)
      /\ \A j \in 1 .. Len(r.items) : r.items[j] \in Cameras \X Nat
  BY <1>1
<1> QED BY <1>1, <1>2

\* A queue of requests that is not empty has a head and a tail.
LEMMA QueueParts ==
    ASSUME NEW q \in Seq(Request), q # <<>>
    PROVE  /\ Head(q) \in Request /\ Tail(q) \in Seq(Request)
           /\ <<Head(q)>> \in Seq(Request) /\ Len(<<Head(q)>>) = 1
           /\ Head(q) \in Range(q) /\ Range(Tail(q)) \subseteq Range(q)
           /\ Range(<<Head(q)>>) = {Head(q)}
<1>1. Head(q) \in Request /\ Tail(q) \in Seq(Request) BY TailEmpty
<1>2. Head(q) \in Range(q) /\ Range(Tail(q)) \subseteq Range(q) BY RangeTail
<1>3. <<Head(q)>> \in Seq(Request) /\ Len(<<Head(q)>>) = 1 BY <1>1
<1>4. Range(<<Head(q)>>) = {Head(q)} BY DEF Range
<1> QED BY <1>1, <1>2, <1>3, <1>4

\* TypeOK, of the cameras and consumers and of the worker.
ConsumersOK ==
    /\ slot \in [Cameras -> Nat]
    /\ locked \subseteq Cameras
    /\ state \in [Consumers -> {"idle", "waiting", "dead"}]
    /\ id \in [Consumers -> 0 .. 1]
    /\ items \in [Consumers -> Seq(Cameras \X (Nat \ {0}))]
    /\ requests \in Seq(Request)
    /\ responses \in [Consumers -> Seq(Response)]
    /\ stopped \in BOOLEAN

WorkerOK ==
    /\ pc \in {"first", "collect", "read", "refuse", "reply", "fail", "exited"}
    /\ pending \in Seq(Request)
    /\ batch \in Seq(Request)
    /\ at \in 1 .. Len(batch) + 1
    /\ item \in Nat \ {0}
    /\ pc = "read" /\ at <= Len(batch) => item <= Len(batch[at].items)
    /\ frames \in Seq(Cameras \X (Nat \ {0}))
    /\ stale \subseteq Consumers \X (0 .. 1)
    /\ latest \in [Cameras -> Nat]
    /\ pc \notin {"first", "exited"} => batch # <<>>
    /\ Len(batch) > 1 => ItemCount(batch) <= BatchSize

LEMMA TypeParts == TypeOK <=> ConsumersOK /\ WorkerOK
BY DEF TypeOK, ConsumersOK, WorkerOK

\* The frames a consumer read are the items of its request.
LEMMA ItemsOfRequest ==
    ASSUME NEW k \in Consumers, NEW b \in 0 .. 1,
           NEW s \in Seq(Cameras \X (Nat \ {0}))
    PROVE  [consumer |-> k, id |-> b, items |-> s] \in Request
<1>1. s \in Seq(Cameras \X Nat)
  <2>1. s \in [1 .. Len(s) -> Cameras \X (Nat \ {0})] /\ Len(s) \in Nat OBVIOUS
  <2>2. s \in [1 .. Len(s) -> Cameras \X Nat] BY <2>1
  <2> QED BY <2>1, <2>2, SeqDef
<1> QED BY <1>1 DEF Request

\* A step of a consumer keeps the types.
LEMMA ConsumerTypes ==
    ASSUME ConsumersOK, NEW k \in Consumers, Consumer(k)
    PROVE  ConsumersOK'
<1> USE DEF ConsumersOK
<1>1. ASSUME NEW c \in Cameras, ReadFrame(k, c) PROVE ConsumersOK'
  <2>1. <<c, slot[c]>> \in Cameras \X (Nat \ {0}) BY <1>1 DEF ReadFrame
  <2>2. Append(items[k], <<c, slot[c]>>) \in Seq(Cameras \X (Nat \ {0})) BY <2>1
  <2>3. items' \in [Consumers -> Seq(Cameras \X (Nat \ {0}))]
    BY <1>1, <2>2 DEF ReadFrame
  <2> QED BY <1>1, <2>3 DEF ReadFrame, slotVars
<1>2. CASE Ask(k)
  <2>1. 1 - id[k] \in 0 .. 1
    <3>1. id[k] \in 0 .. 1 OBVIOUS
    <3>2. \A x \in 0 .. 1 : 1 - x \in 0 .. 1 OBVIOUS
    <3> QED BY <3>1, <3>2
  <2>2. [consumer |-> k, id |-> 1 - id[k], items |-> items[k]] \in Request
    BY <2>1, ItemsOfRequest
  <2>3. requests' \in Seq(Request) BY <1>2, <2>2 DEF Ask
  <2>4. id' \in [Consumers -> 0 .. 1] BY <1>2, <2>1 DEF Ask
  <2>5. state' \in [Consumers -> {"idle", "waiting", "dead"}] BY <1>2 DEF Ask
  <2> QED BY <1>2, <2>3, <2>4, <2>5 DEF Ask, slotVars
<1>3. CASE Receive(k)
  <2>1. responses' \in [Consumers -> Seq(Response)] BY <1>3, TailEmpty DEF Receive
  <2>2. state' \in [Consumers -> {"idle", "waiting", "dead"}]
    <3>1. PICK x \in {"idle", "dead"} : state' = [state EXCEPT ![k] = x]
      BY <1>3 DEF Receive
    <3> QED BY <3>1
  <2>3. items' \in [Consumers -> Seq(Cameras \X (Nat \ {0}))]
    <3>1. <<>> \in Seq(Cameras \X (Nat \ {0})) OBVIOUS
    <3> QED BY <1>3, <3>1 DEF Receive
  <2> QED BY <1>3, <2>1, <2>2, <2>3 DEF Receive, slotVars
<1>4. CASE Timeout(k)
  <2>1. items' \in [Consumers -> Seq(Cameras \X (Nat \ {0}))]
    <3>1. <<>> \in Seq(Cameras \X (Nat \ {0})) OBVIOUS
    <3> QED BY <1>4, <3>1 DEF Timeout
  <2>2. state' \in [Consumers -> {"idle", "waiting", "dead"}] BY <1>4 DEF Timeout
  <2> QED BY <1>4, <2>1, <2>2 DEF Timeout, slotVars
<1> QED BY <1>1, <1>2, <1>3, <1>4 DEF Consumer

\* The steps of the cameras and consumers and the end of a use case keep the types and
\* leave the worker alone.
Others ==
    \/ \E c \in Cameras : Capture(c)
    \/ \E k \in Consumers : Consumer(k) \/ ConsumerEnds(k) \/ ConsumerKilled(k)
    \/ Stop
    \/ UNCHANGED vars

LEMMA OthersLeaveWorker == Others => UNCHANGED workerVars
<1>1. ASSUME NEW k \in Consumers, Consumer(k) PROVE UNCHANGED workerVars
  BY <1>1 DEF Consumer, ReadFrame, Ask, Receive, Timeout
<1>2. ASSUME NEW k \in Consumers, ConsumerEnds(k) \/ ConsumerKilled(k)
      PROVE  UNCHANGED workerVars
  BY <1>2 DEF ConsumerEnds, ConsumerKilled
<1> QED BY <1>1, <1>2 DEF Others, Capture, Stop, vars

LEMMA TypeOfOthers ==
    ASSUME ConsumersOK, WorkerOK, Others
    PROVE  ConsumersOK' /\ WorkerOK'
<1>1. WorkerOK' BY OthersLeaveWorker DEF WorkerOK, workerVars
<1>2. ASSUME NEW c \in Cameras, Capture(c) PROVE ConsumersOK'
  BY <1>2 DEF ConsumersOK, Capture, consumerVars
<1>3. ASSUME NEW k \in Consumers, ConsumerEnds(k) PROVE ConsumersOK'
  BY <1>3 DEF ConsumersOK, ConsumerEnds, slotVars
<1>4. ASSUME NEW k \in Consumers, ConsumerKilled(k) PROVE ConsumersOK'
  <2>1. items' \in [Consumers -> Seq(Cameras \X (Nat \ {0}))]
    <3>1. <<>> \in Seq(Cameras \X (Nat \ {0})) OBVIOUS
    <3> QED BY <1>4, <3>1 DEF ConsumerKilled, ConsumersOK
  <2>2. Reading(k) \subseteq Cameras
    BY SharedAssumption DEF Reading
  <2>3. locked' \subseteq Cameras BY <1>4, <2>2 DEF ConsumerKilled, ConsumersOK
  <2>4. state' \in [Consumers -> {"idle", "waiting", "dead"}]
    BY <1>4 DEF ConsumerKilled, ConsumersOK
  <2> QED BY <1>4, <2>1, <2>3, <2>4 DEF ConsumerKilled, ConsumersOK
<1>5. ASSUME Stop \/ UNCHANGED vars PROVE ConsumersOK'
  <2>1. /\ slot' = slot /\ locked' = locked /\ state' = state /\ id' = id
        /\ items' = items /\ requests' = requests /\ responses' = responses
        /\ stopped' \in {stopped, TRUE}
    BY <1>5 DEF Stop, vars, slotVars, consumerVars
  <2> QED BY <2>1 DEF ConsumersOK
<1> QED BY <1>1, <1>2, <1>3, <1>4, <1>5, ConsumerTypes DEF Others

\* Nobody asks about no frame.
LEMMA PositionOfOthers ==
    ASSUME ConsumersOK, PositionOK, Others
    PROVE  PositionOK'
<1>1. UNCHANGED workerVars BY OthersLeaveWorker
<1>2. \A r \in Range(requests') : r \in Range(requests) \/ r.items # <<>>
  <2>1. CASE requests' = requests BY <2>1
  <2>2. ASSUME NEW k \in Consumers, Ask(k)
        PROVE  \A r \in Range(requests') : r \in Range(requests) \/ r.items # <<>>
    <3>1. PICK new \in Request : requests' = Append(requests, new) /\ new.items # <<>>
      <4>1. id[k] \in 0 .. 1 /\ \A x \in 0 .. 1 : 1 - x \in 0 .. 1
        BY DEF ConsumersOK
      <4>2. [consumer |-> k, id |-> 1 - id[k], items |-> items[k]] \in Request
        BY <4>1, ItemsOfRequest DEF ConsumersOK
      <4> QED BY <2>2, <4>2 DEF Ask
    <3>2. Range(requests') = Range(requests) \cup {new}
      BY <3>1, RangeAppend DEF ConsumersOK
    <3> QED BY <3>1, <3>2
  <2>3. ASSUME NEW k \in Consumers, Consumer(k), ~Ask(k) PROVE requests' = requests
    BY <2>3 DEF Consumer, ReadFrame, Receive, Timeout
  <2>4. ASSUME NEW k \in Consumers, ConsumerEnds(k) \/ ConsumerKilled(k)
        PROVE  requests' = requests
    BY <2>4 DEF ConsumerEnds, ConsumerKilled
  <2> QED BY <2>1, <2>2, <2>3, <2>4 DEF Others, Capture, Stop, vars
<1> QED BY <1>1, <1>2 DEF PositionOK, Valid, Key, workerVars

\* The steps of the worker leave the consumers alone but for requests and replies.
LEMMA WorkerLeavesOthers ==
    ASSUME Worker
    PROVE  UNCHANGED <<slotVars, consumerVars, stopped>>
<1> USE DEF slotVars
<1>1. CASE TakeFirst BY <1>1 DEF TakeFirst
<1>2. CASE TakeMore BY <1>2 DEF TakeMore
<1>3. CASE CloseBatch BY <1>3 DEF CloseBatch
<1>4. CASE ReadItem BY <1>4 DEF ReadItem
<1>5. CASE ReplyStale BY <1>5 DEF ReplyStale
<1>6. CASE Infer BY <1>6 DEF Infer, Continue
<1>7. CASE InferFails BY <1>7 DEF InferFails, Continue
<1>8. CASE ReplyValid BY <1>8 DEF ReplyValid, Continue
<1>9. CASE Exit BY <1>9 DEF Exit, Exits
<1> QED BY <1>1, <1>2, <1>3, <1>4, <1>5, <1>6, <1>7, <1>8, <1>9 DEF Worker

\* The requests of a batch.
LEMMA BatchParts ==
    ASSUME WorkerOK
    PROVE  /\ Len(batch) \in Nat /\ DOMAIN batch = 1 .. Len(batch)
           /\ \A i \in 1 .. Len(batch) :
                 /\ batch[i] \in Request /\ batch[i] \in Range(batch)
                 /\ Key(batch[i]) \in Consumers \X (0 .. 1)
<1>1. /\ Len(batch) \in Nat /\ DOMAIN batch = 1 .. Len(batch)
      /\ \A i \in 1 .. Len(batch) : batch[i] \in Request
  BY DEF WorkerOK
<1>2. \A i \in 1 .. Len(batch) : batch[i] \in Range(batch) BY <1>1 DEF Range
<1>3. \A i \in 1 .. Len(batch) : Key(batch[i]) \in Consumers \X (0 .. 1)
  BY <1>1, RequestParts DEF Key
<1> QED BY <1>1, <1>2, <1>3

\* A batch is formed of the requests queued and put off.
LEMMA FirstTypes ==
    ASSUME ConsumersOK, WorkerOK, PositionOK, TakeFirst
    PROVE  ConsumersOK' /\ WorkerOK' /\ PositionOK'
<1>1. /\ pc = "first" /\ pc' = "collect" /\ at' = 1 /\ item' = 1
      /\ frames = <<>> /\ frames' = <<>> /\ stale' = {} /\ latest' = latest
  BY DEF TakeFirst, PositionOK
<1>2. PICK r \in Request :
         /\ batch' = <<r>> /\ r \in Range(pending) \cup Range(requests)
         /\ requests' \in Seq(Request) /\ Range(requests') \subseteq Range(requests)
         /\ pending' \in Seq(Request) /\ Range(pending') \subseteq Range(pending)
  <2>0. requests \in Seq(Request) /\ pending \in Seq(Request)
    BY DEF ConsumersOK, WorkerOK
  <2>1. CASE pending # <<>>
    <3>1. /\ batch' = <<Head(pending)>> /\ pending' = Tail(pending)
          /\ requests' = requests
      BY <2>1 DEF TakeFirst
    <3>2. /\ Head(pending) \in Request /\ Tail(pending) \in Seq(Request)
          /\ Head(pending) \in Range(pending)
          /\ Range(Tail(pending)) \subseteq Range(pending)
      BY <2>0, <2>1, QueueParts
    <3> QED BY <2>0, <3>1, <3>2
  <2>2. CASE pending = <<>>
    <3>1. /\ batch' = <<Head(requests)>> /\ requests' = Tail(requests)
          /\ pending' = pending /\ requests # <<>>
      BY <2>2 DEF TakeFirst
    <3>2. /\ Head(requests) \in Request /\ Tail(requests) \in Seq(Request)
          /\ Head(requests) \in Range(requests)
          /\ Range(Tail(requests)) \subseteq Range(requests)
      BY <2>0, <3>1, QueueParts
    <3> QED BY <2>0, <3>1, <3>2
  <2> QED BY <2>1, <2>2
<1>3. ConsumersOK'
  BY <1>2 DEF TakeFirst, ConsumersOK, slotVars, consumerVars
<1>4. batch' \in Seq(Request) /\ Len(batch') = 1 /\ batch' # <<>> BY <1>2
<1>5. WorkerOK'
  BY <1>1, <1>2, <1>4 DEF WorkerOK
<1>6. \A x \in Range(batch') : x = r
  BY <1>2 DEF Range
<1>7. PositionOK'
  BY <1>1, <1>2, <1>4, <1>6 DEF PositionOK
<1> QED BY <1>3, <1>5, <1>7

LEMMA MoreTypes ==
    ASSUME ConsumersOK, WorkerOK, PositionOK, TakeMore
    PROVE  ConsumersOK' /\ WorkerOK' /\ PositionOK'
<1>1. /\ pc = "collect" /\ pc' = "collect" /\ at = 1 /\ at' = 1 /\ item' = 1
      /\ frames = <<>> /\ frames' = <<>> /\ stale = {} /\ stale' = {} /\ latest' = latest
  BY DEF TakeMore, PositionOK
<1> DEFINE r == Head(requests)
<1>2. /\ r \in Request /\ r \in Range(requests)
      /\ requests' \in Seq(Request) /\ Range(requests') \subseteq Range(requests)
  BY QueueParts DEF TakeMore, ConsumersOK
<1>3. /\ batch' \in Seq(Request) /\ batch' # <<>>
      /\ Range(batch') \subseteq Range(batch) \cup {r}
      /\ Len(batch') > 1 => ItemCount(batch') <= BatchSize
      /\ pending' \in Seq(Request) /\ Range(pending') \subseteq Range(pending) \cup {r}
  <2>1. batch \in Seq(Request) /\ pending \in Seq(Request) /\ batch # <<>>
    BY <1>1 DEF WorkerOK
  <2>2. CASE Fits(r)
    <3>1. batch' = Append(batch, r) /\ pending' = pending BY <2>2 DEF TakeMore
    <3>2. Range(batch') = Range(batch) \cup {r} BY <1>2, <2>1, <3>1, RangeAppend
    <3>3. batch' # <<>> /\ batch' \in Seq(Request) BY <1>2, <2>1, <3>1
    <3> QED BY <2>1, <2>2, <3>1, <3>2, <3>3 DEF Fits
  <2>3. CASE ~Fits(r)
    <3>1. pending' = Append(pending, r) /\ batch' = batch BY <2>3 DEF TakeMore
    <3>2. Range(pending') = Range(pending) \cup {r} BY <1>2, <2>1, <3>1, RangeAppend
    <3>3. pending' \in Seq(Request) BY <1>2, <2>1, <3>1
    <3> QED BY <2>1, <3>1, <3>2, <3>3 DEF WorkerOK
  <2> QED BY <2>2, <2>3
<1>4. ConsumersOK'
  BY <1>2 DEF TakeMore, ConsumersOK, slotVars, consumerVars
<1>5. WorkerOK'
  BY <1>1, <1>3 DEF WorkerOK
<1>7. PositionOK'
  BY <1>1, <1>2, <1>3 DEF PositionOK
<1> QED BY <1>4, <1>5, <1>7

LEMMA CloseTypes ==
    ASSUME ConsumersOK, WorkerOK, PositionOK, CloseBatch
    PROVE  ConsumersOK' /\ WorkerOK' /\ PositionOK'
<1>1. /\ pc = "collect" /\ pc' = "read" /\ at = 1 /\ item = 1
      /\ UNCHANGED <<pending, batch, at, item, frames, stale, latest>>
  BY DEF CloseBatch, PositionOK
<1>2. Len(batch) >= 1 /\ batch[1] \in Range(batch) /\ batch[1] \in Request
  <2>1. Len(batch) >= 1 BY <1>1 DEF WorkerOK
  <2> QED BY <2>1, BatchParts
<1>3. Len(batch[1].items) >= 1
  <2>1. batch[1].items # <<>> BY <1>2 DEF PositionOK
  <2>2. batch[1].items \in Seq(Cameras \X Nat) BY <1>2, RequestParts
  <2> QED BY <2>1, <2>2
<1>4. ConsumersOK' BY DEF CloseBatch, ConsumersOK, slotVars, consumerVars
<1>5. WorkerOK' BY <1>1, <1>2, <1>3 DEF WorkerOK
<1>6. PositionOK' BY <1>1, <1>2 DEF CloseBatch, PositionOK
<1> QED BY <1>4, <1>5, <1>6

\* What ReadItem does, with its item.
LEMMA ItemRead ==
    ASSUME ConsumersOK, WorkerOK, PositionOK, ReadItem,
           NEW r, NEW key, r = batch[at], key = r.items[item]
    PROVE  /\ r \in Request /\ r \in Range(batch) /\ at \in 1 .. Len(batch)
           /\ key \in Cameras \X Nat /\ key[1] \in Cameras /\ key[2] \in Nat
           /\ key = <<key[1], key[2]>>
           /\ item \in 1 .. Len(r.items)
<1>1. at \in 1 .. Len(batch) BY BatchParts DEF ReadItem, WorkerOK
<1>2. r \in Request /\ r \in Range(batch) BY <1>1, BatchParts
<1>3. Len(r.items) \in Nat /\ item \in 1 .. Len(r.items)
  BY <1>1, <1>2, RequestParts DEF ReadItem, WorkerOK
<1> QED BY <1>1, <1>2, <1>3, RequestParts

LEMMA ReadTypes ==
    ASSUME ConsumersOK, WorkerOK, PositionOK, ReadItem,
           \A c \in Cameras : latest[c] <= slot[c]
    PROVE  ConsumersOK' /\ WorkerOK' /\ PositionOK'
<1> DEFINE r == batch[at]
           key == r.items[item]
           known == latest[key[1]] = key[2] \/ key \in ToSet(frames)
           more == (known \/ Exact(key)) /\ item < Len(r.items)
<1>1. /\ r \in Request /\ at \in 1 .. Len(batch) /\ Key(r) \in Consumers \X (0 .. 1)
      /\ key \in Cameras \X Nat /\ key[1] \in Cameras /\ key[2] \in Nat
      /\ key = <<key[1], key[2]>> /\ item \in 1 .. Len(r.items)
      /\ Len(r.items) \in Nat
  BY ItemRead, BatchParts, RequestParts
<1>2. /\ pc = "read" /\ UNCHANGED <<pending, batch, latest, requests>>
      /\ frames' = IF ~known /\ Exact(key) THEN Append(frames, key) ELSE frames
      /\ stale' = IF known \/ Exact(key) THEN stale ELSE stale \cup {Key(r)}
      /\ item' = IF more THEN item + 1 ELSE 1
      /\ IF ~more /\ at = Len(batch)
         THEN pc' = "refuse" /\ at' = 1
         ELSE pc' = pc /\ at' = IF more THEN at ELSE at + 1
  BY DEF ReadItem
<1>3. frames' \in Seq(Cameras \X (Nat \ {0}))
  <2>1. ASSUME ~known, Exact(key) PROVE key \in Cameras \X (Nat \ {0})
    <3>1. latest[key[1]] \in Nat /\ slot[key[1]] \in Nat
      BY <1>1 DEF ConsumersOK, WorkerOK
    <3>2. key[2] # 0 BY <1>1, <2>1, <3>1 DEF Exact
    <3> QED BY <1>1, <3>2
  <2> HIDE DEF known, key
  <2>2. frames \in Seq(Cameras \X (Nat \ {0})) BY DEF WorkerOK
  <2>3. CASE ~known /\ Exact(key) BY <1>2, <2>1, <2>2, <2>3
  <2>4. CASE ~(~known /\ Exact(key)) BY <1>2, <2>2, <2>4
  <2> QED BY <2>3, <2>4
<1>4. stale' \subseteq Consumers \X (0 .. 1)
  <2> HIDE DEF known, key
  <2> QED BY <1>1, <1>2 DEF WorkerOK
<1>5. /\ pc' \in {"read", "refuse"} /\ batch' # <<>> /\ item' \in Nat \ {0}
      /\ at' \in 1 .. Len(batch') + 1
      /\ pc' = "read" => at' <= Len(batch') /\ item' <= Len(batch'[at'].items)
      /\ pc' # "read" => item' = 1
  <2>1. Len(batch) \in Nat /\ \A i \in 1 .. Len(batch) : Len(batch[i].items) >= 1
    <3>1. ASSUME NEW i \in 1 .. Len(batch) PROVE Len(batch[i].items) >= 1
      <4>1. batch[i] \in Request /\ batch[i] \in Range(batch) BY BatchParts
      <4>2. batch[i].items \in Seq(Cameras \X Nat) /\ batch[i].items # <<>>
        BY <4>1, RequestParts DEF PositionOK
      <4> QED BY <4>2
    <3> QED BY <3>1, BatchParts
  <2>2. batch # <<>> BY <1>2 DEF WorkerOK
  <2>3. CASE more
    <3>1. pc' = "read" /\ at' = at /\ item' = item + 1 /\ item < Len(r.items)
      BY <1>2, <2>3
    <3> QED BY <1>1, <1>2, <2>1, <2>2, <3>1
  <2>4. CASE ~more
    <3> HIDE DEF r, key, known, more
    <3>1. /\ item' = 1
          /\ \/ pc' = "refuse" /\ at' = 1
             \/ at # Len(batch) /\ pc' = "read" /\ at' = at + 1
      BY <1>2, <2>4
    <3> QED BY <1>1, <1>2, <2>1, <2>2, <3>1
  <2> QED BY <2>3, <2>4
<1>6. ConsumersOK' BY DEF ReadItem, ConsumersOK, slotVars, consumerVars
<1>7. WorkerOK'
  <2> HIDE DEF r, key, known, more
  <2> QED BY <1>2, <1>3, <1>4, <1>5 DEF WorkerOK
<1>8. PositionOK'
  <2> HIDE DEF r, key, known, more
  <2>1. requests' = requests BY <1>2
  <2> QED BY <1>2, <1>5, <2>1 DEF PositionOK
<1> QED BY <1>6, <1>7, <1>8

\* A reply is a response, on the queue of its consumer.
LEMMA ReplyTypes ==
    ASSUME ConsumersOK, NEW r \in Request, NEW kind \in {"ok", "stale", "error"},
           NEW p \in Seq(Cameras \X Nat), Reply(r, kind, p)
    PROVE  LET m == [id |-> r.id, kind |-> kind, predictions |-> p]
           IN  /\ m \in Response
               /\ responses' \in [Consumers -> Seq(Response)]
               /\ responses'[r.consumer] = Append(responses[r.consumer], m)
               /\ \A k \in Consumers \ {r.consumer} : responses'[k] = responses[k]
<1> DEFINE m == [id |-> r.id, kind |-> kind, predictions |-> p]
<1>1. r.consumer \in Consumers /\ r.id \in 0 .. 1 BY RequestParts
<1>2. m \in Response BY <1>1 DEF Response
<1>3. responses' = [responses EXCEPT ![r.consumer] = Append(@, m)] BY DEF Reply
<1> HIDE DEF m
<1>4. responses \in [Consumers -> Seq(Response)] BY DEF ConsumersOK
<1>5. responses' \in [Consumers -> Seq(Response)] BY <1>1, <1>2, <1>3, <1>4
<1>6. /\ responses'[r.consumer] = Append(responses[r.consumer], m)
      /\ \A k \in Consumers \ {r.consumer} : responses'[k] = responses[k]
  BY <1>1, <1>3, <1>4
<1> QED BY <1>2, <1>5, <1>6 DEF m

\* The predictions of a reply are frames, one for each item.
LEMMA PredictedTypes ==
    ASSUME WorkerOK, NEW r \in Request
    PROVE  /\ Predicted(r) \in Seq(Cameras \X Nat)
           /\ Len(Predicted(r)) = Len(r.items)
           /\ \A i \in 1 .. Len(r.items) :
                 Predicted(r)[i] = <<r.items[i][1], latest[r.items[i][1]]>>
<1>1. /\ Len(r.items) \in Nat /\ DOMAIN r.items = 1 .. Len(r.items)
      /\ \A j \in 1 .. Len(r.items) : r.items[j][1] \in Cameras
  BY RequestParts
<1>2. \A j \in 1 .. Len(r.items) : latest[r.items[j][1]] \in Nat
  BY <1>1 DEF WorkerOK
<1>3. Predicted(r) \in [1 .. Len(r.items) -> Cameras \X Nat]
  BY <1>1, <1>2 DEF Predicted
<1>4. Predicted(r) \in Seq(Cameras \X Nat) BY <1>1, <1>3, SeqDef
<1>5. Len(Predicted(r)) = Len(r.items) BY <1>1, <1>3, <1>4, LenProperties
<1> QED BY <1>1, <1>4, <1>5 DEF Predicted

LEMMA StaleTypes ==
    ASSUME ConsumersOK, WorkerOK, PositionOK, ReplyStale
    PROVE  ConsumersOK' /\ WorkerOK' /\ PositionOK'
<1>1. PICK i \in Stale : Reply(batch[i], "stale", <<>>) /\ at' = i + 1
  BY DEF ReplyStale
<1>2. /\ pc = "refuse" /\ pc' = "refuse"
      /\ UNCHANGED <<requests, pending, batch, item, frames, stale, latest>>
  BY DEF ReplyStale
<1>3. i \in 1 .. Len(batch) /\ batch[i] \in Request /\ Len(batch) \in Nat
  <2>1. i \in 1 .. Len(batch) BY BatchParts DEF Stale, WorkerOK
  <2> QED BY <2>1, BatchParts
<1>4. responses' \in [Consumers -> Seq(Response)]
  <2>1. <<>> \in Seq(Cameras \X Nat) OBVIOUS
  <2> QED BY <1>1, <1>3, <2>1, ReplyTypes
<1>5. ConsumersOK' BY <1>4 DEF ReplyStale, ConsumersOK, slotVars, consumerVars
<1>6. WorkerOK' BY <1>1, <1>2, <1>3 DEF WorkerOK
<1>7. PositionOK' BY <1>1, <1>2, <1>3 DEF PositionOK
<1> QED BY <1>5, <1>6, <1>7

\* The loop over the requests leaves the worker in a proper state.
LEMMA ContinueTypes ==
    ASSUME WorkerOK, PositionOK, NEW last \in 0 .. Len(batch),
           NEW next \in {"reply", "fail"}, Continue(last, next),
           pc \in {"refuse", "reply", "fail"}, latest' \in [Cameras -> Nat]
    PROVE  WorkerOK' /\ PositionOK'
<1>1. /\ frames' = <<>> /\ pending' = pending /\ requests' = requests
      /\ item' = 1 /\ item = 1 /\ batch # <<>>
  BY DEF Continue, PositionOK, WorkerOK
<1>2. CASE \E i \in last + 1 .. Len(batch) : Key(batch[i]) \notin stale
  <2>1. pc' = next /\ at' = last + 1 /\ batch' = batch /\ stale' = stale
    BY <1>2 DEF Continue
  <2>2. Valid' = {i \in last + 1 .. Len(batch) : Key(batch[i]) \notin stale}
    BY <2>1 DEF Valid, Key
  <2>3. Valid' # {} BY <1>2, <2>2
  <2>4. at' \in 1 .. Len(batch') + 1 BY <2>1, BatchParts
  <2>5. WorkerOK' BY <1>1, <2>1, <2>4 DEF WorkerOK
  <2>6. PositionOK' BY <1>1, <2>1, <2>3 DEF PositionOK
  <2> QED BY <2>5, <2>6
<1>3. CASE ~\E i \in last + 1 .. Len(batch) : Key(batch[i]) \notin stale
  <2>1. pc' = "first" /\ at' = 1 /\ batch' = <<>> /\ stale' = {}
    BY <1>3 DEF Continue
  <2>2. Range(batch') = {} BY <2>1 DEF Range
  <2>3. <<>> \in Seq(Request) /\ Len(batch') = 0 /\ <<>> \in Seq(Cameras \X (Nat \ {0}))
    BY <2>1
  <2>5. WorkerOK' BY <1>1, <2>1, <2>3 DEF WorkerOK
  <2>6. PositionOK' BY <1>1, <2>1, <2>2 DEF PositionOK
  <2> QED BY <2>5, <2>6
<1> QED BY <1>2, <1>3

\* The greatest of a bounded set of places.
LEMMA MaxOf ==
    ASSUME NEW b \in Nat, NEW T, T \subseteq 0 .. b, T # {}
    PROVE  Max(T) \in T /\ \A x \in T : x <= Max(T)
<1>1. PICK n \in T : \A m \in T : m <= n BY Greatest
<1>2. \A m \in T : n >= m BY <1>1
<1>3. Max(T) \in T /\ \A y \in T : Max(T) >= y BY <1>2 DEF Max
<1> QED BY <1>3

\* What the cache holds of a camera after the model call: what it held, or the last
\* frame of it among those inferred.
LEMMA CachedFrame ==
    ASSUME WorkerOK, NEW c \in Cameras
    PROVE  LET mine == {i \in InferKeys : frames[i][1] = c}
           IN  /\ Cached(c) \in Nat
               /\ mine = {} => Cached(c) = latest[c]
               /\ mine # {} => \E m \in mine :
                     Cached(c) = frames[m][2] /\ \A i \in mine : i <= m
<1> DEFINE mine == {i \in InferKeys : frames[i][1] = c}
<1>1. /\ Len(frames) \in Nat
      /\ mine \subseteq 0 .. Len(frames) /\ mine \subseteq 1 .. Len(frames)
  BY DEF InferKeys, WorkerOK
<1>2. \A i \in 1 .. Len(frames) : frames[i][2] \in Nat BY DEF WorkerOK
<1>3. latest[c] \in Nat BY DEF WorkerOK
<1>4. mine = {} => Cached(c) = latest[c] BY DEF Cached
<1>5. mine # {} => Cached(c) = frames[Max(mine)][2] BY DEF Cached
<1> HIDE DEF mine
<1>6. mine # {} => Max(mine) \in mine /\ \A x \in mine : x <= Max(mine)
  BY <1>1, MaxOf
<1>7. Cached(c) \in Nat BY <1>1, <1>2, <1>3, <1>4, <1>5, <1>6
<1> QED BY <1>4, <1>5, <1>6, <1>7 DEF mine

LEMMA InferTypes ==
    ASSUME ConsumersOK, WorkerOK, PositionOK, Infer \/ InferFails
    PROVE  ConsumersOK' /\ WorkerOK' /\ PositionOK'
<1>1. pc = "refuse" /\ UNCHANGED <<slotVars, consumerVars, requests, stopped, responses>>
  BY DEF Infer, InferFails, Continue
<1>2. latest' \in [Cameras -> Nat]
  BY CachedFrame DEF Infer, InferFails, WorkerOK
<1>3. PICK next \in {"reply", "fail"} : Continue(0, next) BY DEF Infer, InferFails
<1>4. 0 \in 0 .. Len(batch) BY BatchParts
<1>5. WorkerOK' /\ PositionOK' BY <1>1, <1>2, <1>3, <1>4, ContinueTypes
<1>6. ConsumersOK' BY <1>1 DEF ConsumersOK, slotVars, consumerVars
<1> QED BY <1>5, <1>6

LEMMA ValidTypes ==
    ASSUME ConsumersOK, WorkerOK, PositionOK, ReplyValid
    PROVE  ConsumersOK' /\ WorkerOK' /\ PositionOK'
<1>1. PICK i \in Valid :
         /\ IF pc = "reply" THEN Reply(batch[i], "ok", Predicted(batch[i]))
            ELSE Reply(batch[i], "error", <<>>)
         /\ Continue(i, pc)
  BY DEF ReplyValid
<1>2. pc \in {"reply", "fail"} /\ latest' = latest BY DEF ReplyValid
<1>3. i \in 1 .. Len(batch) /\ i \in 0 .. Len(batch) /\ batch[i] \in Request
  <2>1. i \in 1 .. Len(batch) BY BatchParts DEF Valid, WorkerOK
  <2> QED BY <2>1, BatchParts
<1>4. responses' \in [Consumers -> Seq(Response)]
  <2>1. <<>> \in Seq(Cameras \X Nat) OBVIOUS
  <2>2. Predicted(batch[i]) \in Seq(Cameras \X Nat) BY <1>3, PredictedTypes
  <2> QED BY <1>1, <1>3, <2>1, <2>2, ReplyTypes
<1>5. latest' \in [Cameras -> Nat] BY <1>2 DEF WorkerOK
<1>6. WorkerOK' /\ PositionOK' BY <1>1, <1>2, <1>3, <1>5, ContinueTypes
<1>7. UNCHANGED <<slotVars, consumerVars, requests, stopped>>
  BY <1>1 DEF Continue
<1>8. ConsumersOK' BY <1>4, <1>7 DEF ConsumersOK, slotVars, consumerVars
<1> QED BY <1>6, <1>8

LEMMA ExitTypes ==
    ASSUME ConsumersOK, WorkerOK, PositionOK, Exit \/ WorkerKilled
    PROVE  ConsumersOK' /\ WorkerOK' /\ PositionOK'
<1>1. Exits BY DEF Exit, WorkerKilled
<1>2. locked' \subseteq Cameras
  <2>1. CASE locked' = locked BY <2>1 DEF ConsumersOK
  <2>2. CASE pc = "read" /\ locked' = locked \cup {batch[at].items[item][1]}
    <3>1. at \in 1 .. Len(batch) BY <2>2, BatchParts DEF PositionOK, WorkerOK
    <3>2. batch[at] \in Request BY <3>1, BatchParts
    <3>3. item \in 1 .. Len(batch[at].items)
      BY <2>2, <3>1, <3>2, RequestParts DEF WorkerOK
    <3>4. batch[at].items[item][1] \in Cameras BY <3>2, <3>3, RequestParts
    <3> QED BY <2>2, <3>4 DEF ConsumersOK
  <2> QED BY <2>1, <2>2 DEF Exit, WorkerKilled
<1>3. ConsumersOK' BY <1>1, <1>2 DEF ConsumersOK, Exits, consumerVars
<1>4. /\ <<>> \in Seq(Request) /\ Len(<<>>) = 0 /\ Range(<<>>) = {}
      /\ <<>> \in Seq(Cameras \X (Nat \ {0}))
  BY DEF Range
<1>5. WorkerOK' BY <1>1, <1>4 DEF Exits, WorkerOK
<1>6. PositionOK' BY <1>1, <1>4 DEF Exits, PositionOK
<1> QED BY <1>3, <1>5, <1>6
-----------------------------------------------------------------------------
(* Where the requests are: a consumer has at most one, in one of four      *)
(* places, and one that waits has one while the worker lives.              *)

Of(s) == {r.consumer : r \in Range(s)}
OneEach(s) == \A i, j \in DOMAIN s : s[i].consumer = s[j].consumer => i = j

Taken == {batch[i].consumer : i \in Unanswered}
Answered == {k \in Consumers : responses[k] # <<>>}
Placed == Of(requests) \cup Of(pending) \cup Taken \cup Answered

Accounts ==
    /\ OneEach(requests) /\ OneEach(pending) /\ OneEach(batch)
    /\ \A k \in Consumers : Len(responses[k]) <= 1
    /\ Of(requests) \cap (Of(pending) \cup Taken \cup Answered) = {}
    /\ Of(pending) \cap (Taken \cup Answered) = {}
    /\ Taken \cap Answered = {}
    /\ \A k \in Consumers : state[k] = "idle" => k \notin Placed
    /\ \A k \in Consumers : state[k] = "waiting" /\ pc # "exited" => k \in Placed

\* The consumers of a queue, as it grows and shrinks.
LEMMA OfAppend ==
    ASSUME NEW s \in Seq(Request), NEW r \in Request
    PROVE  /\ Of(Append(s, r)) = Of(s) \cup {r.consumer}
           /\ OneEach(s) /\ r.consumer \notin Of(s) => OneEach(Append(s, r))
<1>1. Range(Append(s, r)) = Range(s) \cup {r} BY RangeAppend
<1>2. /\ DOMAIN Append(s, r) = 1 .. Len(s) + 1 /\ DOMAIN s = 1 .. Len(s)
      /\ \A i \in 1 .. Len(s) : Append(s, r)[i] = s[i]
      /\ Append(s, r)[Len(s) + 1] = r /\ Len(s) \in Nat
  OBVIOUS
<1>3. ASSUME OneEach(s), r.consumer \notin Of(s) PROVE OneEach(Append(s, r))
  <2>1. \A i \in 1 .. Len(s) : s[i].consumer # r.consumer
    BY <1>2, <1>3 DEF Of, Range
  <2> QED BY <1>2, <1>3, <2>1 DEF OneEach
<1> QED BY <1>1, <1>3 DEF Of

LEMMA OfTail ==
    ASSUME NEW s \in Seq(Request), s # <<>>, OneEach(s)
    PROVE  /\ OneEach(Tail(s)) /\ Head(s).consumer \in Of(s)
           /\ Of(Tail(s)) = Of(s) \ {Head(s).consumer}
<1>1. /\ DOMAIN Tail(s) = 1 .. Len(s) - 1 /\ DOMAIN s = 1 .. Len(s)
      /\ \A i \in 1 .. Len(s) - 1 : Tail(s)[i] = s[i + 1]
      /\ Head(s) = s[1] /\ Len(s) \in Nat /\ Len(s) > 0
  OBVIOUS
<1>2. OneEach(Tail(s)) BY <1>1 DEF OneEach
<1>3. Head(s).consumer \in Of(s) BY <1>1 DEF Of, Range
<1>4. ASSUME NEW k \in Of(Tail(s)) PROVE k \in Of(s) \ {Head(s).consumer}
  <2>1. PICK i \in 1 .. Len(s) - 1 : k = Tail(s)[i].consumer
    BY <1>1 DEF Of, Range
  <2>2. i + 1 \in 1 .. Len(s) /\ k = s[i + 1].consumer /\ i + 1 # 1 BY <1>1, <2>1
  <2>3. k # Head(s).consumer BY <1>1, <2>2 DEF OneEach
  <2> QED BY <1>1, <2>2, <2>3 DEF Of, Range
<1>5. ASSUME NEW k \in Of(s), k # Head(s).consumer PROVE k \in Of(Tail(s))
  <2>1. PICK i \in 1 .. Len(s) : k = s[i].consumer BY <1>1 DEF Of, Range
  <2>2. i # 1 BY <1>1, <1>5, <2>1
  <2>3. i - 1 \in 1 .. Len(s) - 1 /\ Tail(s)[i - 1] = s[i] BY <1>1, <2>1, <2>2
  <2> QED BY <1>1, <2>1, <2>3 DEF Of, Range
<1> QED BY <1>2, <1>3, <1>4, <1>5

LEMMA OfFew ==
    /\ Of(<<>>) = {} /\ OneEach(<<>>)
    /\ \A r \in Request : Of(<<r>>) = {r.consumer} /\ OneEach(<<r>>)
BY DEF Of, OneEach, Range

\* Of which consumers the worker has requests, at each point of its loop.
LEMMA TakenParts ==
    ASSUME WorkerOK, PositionOK
    PROVE  /\ pc \in {"first", "exited"} => Taken = {}
           /\ pc \in {"collect", "read"} => Taken = Of(batch)
           /\ pc = "refuse" /\ at = 1 => Taken = Of(batch)
           /\ pc \in {"reply", "fail"} => Unanswered = Valid
           /\ Taken \subseteq Of(batch) /\ Unanswered \subseteq 1 .. Len(batch)
<1>1. Len(batch) \in Nat /\ DOMAIN batch = 1 .. Len(batch) BY BatchParts
<1>2. /\ pc \in {"collect", "read"} => Unanswered = DOMAIN batch
      /\ pc = "refuse" /\ at = 1 => Unanswered = DOMAIN batch
      /\ Unanswered \subseteq DOMAIN batch
  BY <1>1 DEF Unanswered
<1>3. pc \in {"reply", "fail"} => Unanswered = Valid
  BY <1>1 DEF Unanswered, Valid, WorkerOK
<1>4. Of(batch) = {batch[i].consumer : i \in DOMAIN batch} BY DEF Of, Range
<1>5. pc \in {"first", "exited"} => Unanswered = {}
  BY <1>1 DEF Unanswered, PositionOK
<1> QED BY <1>1, <1>2, <1>3, <1>4, <1>5 DEF Taken

\* Consumers are placed as their requests are.
LEMMA PlacedAreConsumers ==
    ASSUME ConsumersOK, WorkerOK, PositionOK
    PROVE  Placed \subseteq Consumers
<1>1. ASSUME NEW s \in Seq(Request) PROVE Of(s) \subseteq Consumers
  BY RequestParts DEF Of, Range
<1> QED BY <1>1, TakenParts DEF Placed, Answered, ConsumersOK, WorkerOK

\* A consumer asks only when it has no request, and waits until its reply is there.
LEMMA AccountsOfOthers ==
    ASSUME ConsumersOK, WorkerOK, PositionOK, Accounts, Others
    PROVE  Accounts'
<1>1. UNCHANGED workerVars BY OthersLeaveWorker
<1>2. /\ batch' = batch /\ pending' = pending /\ pc' = pc /\ Taken' = Taken
  BY <1>1 DEF workerVars, Taken, Unanswered, Valid, Key
<1>3. ASSUME UNCHANGED <<requests, responses>>,
             \A k \in Consumers : state'[k] = state[k] \/ state'[k] = "dead"
      PROVE  Accounts'
  <2>1. Placed' = Placed BY <1>2, <1>3 DEF Placed, Answered
  <2> QED BY <1>2, <1>3, <2>1 DEF Accounts, Answered
<1>4. ASSUME NEW k \in Consumers, Consumer(k) PROVE Accounts'
  <2>1. ASSUME NEW c \in Cameras, ReadFrame(k, c) PROVE Accounts'
    BY <1>3, <2>1 DEF ReadFrame
  <2>2. CASE Ask(k)
    <3>1. /\ state[k] = "idle" /\ responses' = responses
          /\ state' = [state EXCEPT ![k] = "waiting"]
      BY <2>2 DEF Ask
    <3>2. PICK r \in Request : requests' = Append(requests, r) /\ r.consumer = k
      <4>1. id[k] \in 0 .. 1 /\ \A x \in 0 .. 1 : 1 - x \in 0 .. 1
        BY DEF ConsumersOK
      <4>2. [consumer |-> k, id |-> 1 - id[k], items |-> items[k]] \in Request
        BY <4>1, ItemsOfRequest DEF ConsumersOK
      <4> QED BY <2>2, <4>2 DEF Ask
    <3>3. k \notin Placed BY <3>1 DEF Accounts
    <3>4. /\ Of(requests') = Of(requests) \cup {k} /\ OneEach(requests')
      BY <3>2, <3>3, OfAppend DEF Accounts, Placed, ConsumersOK
    <3>5. Answered' = Answered BY <3>1 DEF Answered
    <3>6. Placed' = Placed \cup {k} BY <1>2, <3>4, <3>5 DEF Placed
    <3>7. \A x \in Consumers : x # k => state'[x] = state[x]
      BY <3>1 DEF ConsumersOK
    <3>8. state'[k] = "waiting" BY <3>1 DEF ConsumersOK
    <3> QED BY <1>2, <3>1, <3>3, <3>4, <3>5, <3>6, <3>7, <3>8 DEF Accounts, Placed
  <2>3. CASE Receive(k)
    <3>1. /\ state[k] = "waiting" /\ requests' = requests /\ responses[k] # <<>>
          /\ responses' = [responses EXCEPT ![k] = Tail(@)]
      BY <2>3 DEF Receive
    <3>2. responses'[k] = <<>>
      <4>1. responses[k] \in Seq(Response) /\ Len(responses[k]) = 1
        <5>1. responses[k] \in Seq(Response) /\ Len(responses[k]) <= 1
          BY DEF ConsumersOK, Accounts
        <5>2. Len(responses[k]) \in Nat /\ Len(responses[k]) # 0 BY <3>1, <5>1, EmptySeq
        <5>3. \A n \in Nat : n # 0 /\ n <= 1 => n = 1 OBVIOUS
        <5> QED BY <5>1, <5>2, <5>3
      <4>2. responses'[k] = Tail(responses[k]) BY <3>1 DEF ConsumersOK
      <4> QED BY <3>1, <4>1, <4>2, TailEmpty
    <3>3. \A x \in Consumers : x # k => responses'[x] = responses[x]
      BY <3>1 DEF ConsumersOK
    <3>4. Answered' = Answered \ {k} /\ k \in Answered
      BY <3>1, <3>2, <3>3 DEF Answered
    <3>5. Placed' = Placed \ {k} BY <1>2, <3>1, <3>4 DEF Placed, Accounts
    <3>6. PICK d \in {"idle", "dead"} : state' = [state EXCEPT ![k] = d]
      BY <2>3 DEF Receive
    <3>7. state'[k] # "waiting" /\ \A x \in Consumers : x # k => state'[x] = state[x]
      BY <3>6 DEF ConsumersOK
    <3>8. \A x \in Consumers : Len(responses'[x]) <= 1
      BY <3>2, <3>3 DEF Accounts
    <3> QED BY <1>2, <3>1, <3>4, <3>5, <3>7, <3>8 DEF Accounts
  <2>4. CASE Timeout(k)
    <3>1. state' = [state EXCEPT ![k] = "dead"] /\ UNCHANGED <<requests, responses>>
      BY <2>4 DEF Timeout
    <3> QED BY <1>3, <3>1 DEF ConsumersOK
  <2> QED BY <1>4, <2>1, <2>2, <2>3, <2>4 DEF Consumer
<1>5. ASSUME NEW k \in Consumers, ConsumerEnds(k) \/ ConsumerKilled(k) PROVE Accounts'
  <2>1. state' = [state EXCEPT ![k] = "dead"] /\ UNCHANGED <<requests, responses>>
    BY <1>5 DEF ConsumerEnds, ConsumerKilled
  <2> QED BY <1>3, <2>1 DEF ConsumersOK
<1>6. ASSUME (\E c \in Cameras : Capture(c)) \/ Stop \/ UNCHANGED vars PROVE Accounts'
  <2>1. UNCHANGED <<state, requests, responses>>
    BY <1>6 DEF Capture, Stop, vars, consumerVars
  <2> QED BY <1>3, <2>1
<1> QED BY <1>4, <1>5, <1>6 DEF Others

\* A request that is taken is not queued or put off any more, and one put off is not
\* taken.
LEMMA AccountsOfFirst ==
    ASSUME ConsumersOK, WorkerOK, PositionOK, Accounts, TakeFirst
    PROVE  Accounts'
<1>1. /\ pc = "first" /\ pc' = "collect" /\ responses' = responses /\ state' = state
  BY DEF TakeFirst, consumerVars
<1>2. Taken = {} BY <1>1, TakenParts
<1>3. ConsumersOK' /\ WorkerOK' /\ PositionOK' BY FirstTypes
<1>4. Taken' = Of(batch')
  <2>1. Unanswered' = DOMAIN batch' BY <1>1 DEF Unanswered
  <2> QED BY <2>1 DEF Taken, Of, Range
<1>5. requests \in Seq(Request) /\ pending \in Seq(Request)
  BY DEF ConsumersOK, WorkerOK
<1>6. \E k \in Of(requests) \cup Of(pending) :
         /\ Of(batch') = {k} /\ OneEach(batch')
         /\ OneEach(requests') /\ Of(requests') = Of(requests) \ {k}
         /\ OneEach(pending') /\ Of(pending') = Of(pending) \ {k}
  <2>1. CASE pending # <<>>
    <3>1. /\ batch' = <<Head(pending)>> /\ pending' = Tail(pending)
          /\ requests' = requests
      BY <2>1 DEF TakeFirst
    <3>2. Head(pending) \in Request BY <1>5, <2>1, QueueParts
    <3> DEFINE k == Head(pending).consumer
    <3>3. /\ Of(pending') = Of(pending) \ {k} /\ OneEach(pending') /\ k \in Of(pending)
      BY <1>5, <2>1, <3>1, OfTail DEF Accounts
    <3>4. Of(batch') = {k} /\ OneEach(batch') BY <3>1, <3>2, OfFew
    <3>5. k \notin Of(requests) BY <3>3 DEF Accounts
    <3> QED BY <3>1, <3>3, <3>4, <3>5 DEF Accounts
  <2>2. CASE pending = <<>>
    <3>1. /\ batch' = <<Head(requests)>> /\ requests' = Tail(requests)
          /\ pending' = pending /\ requests # <<>>
      BY <2>2 DEF TakeFirst
    <3>2. Head(requests) \in Request BY <1>5, <3>1, QueueParts
    <3> DEFINE k == Head(requests).consumer
    <3>3. /\ Of(requests') = Of(requests) \ {k} /\ OneEach(requests')
          /\ k \in Of(requests)
      BY <1>5, <3>1, OfTail DEF Accounts
    <3>4. Of(batch') = {k} /\ OneEach(batch') BY <3>1, <3>2, OfFew
    <3>5. k \notin Of(pending) BY <3>3 DEF Accounts
    <3> QED BY <3>1, <3>3, <3>4, <3>5 DEF Accounts
  <2> QED BY <2>1, <2>2
<1>7. Answered' = Answered BY <1>1 DEF Answered
<1>8. Placed' = Placed BY <1>2, <1>4, <1>6, <1>7 DEF Placed
<1> QED BY <1>1, <1>2, <1>4, <1>6, <1>7, <1>8 DEF Accounts, Placed

LEMMA AccountsOfMore ==
    ASSUME ConsumersOK, WorkerOK, PositionOK, Accounts, TakeMore
    PROVE  Accounts'
<1>1. /\ pc = "collect" /\ pc' = "collect" /\ responses' = responses /\ state' = state
      /\ requests # <<>> /\ requests' = Tail(requests)
  BY DEF TakeMore, consumerVars
<1>2. Taken = Of(batch) BY <1>1, TakenParts
<1>3. ConsumersOK' /\ WorkerOK' /\ PositionOK' BY MoreTypes
<1>4. Taken' = Of(batch')
  <2>1. Unanswered' = DOMAIN batch' BY <1>1 DEF Unanswered
  <2> QED BY <2>1 DEF Taken, Of, Range
<1>5. requests \in Seq(Request) /\ pending \in Seq(Request) /\ batch \in Seq(Request)
  BY DEF ConsumersOK, WorkerOK
<1>6. Head(requests) \in Request BY <1>1, <1>5, QueueParts
<1> DEFINE k == Head(requests).consumer
<1>7. /\ OneEach(requests') /\ Of(requests') = Of(requests) \ {k} /\ k \in Of(requests)
  BY <1>1, <1>5, OfTail DEF Accounts
<1>8. k \notin Of(pending) /\ k \notin Of(batch) BY <1>2, <1>7 DEF Accounts
<1>9. /\ OneEach(batch') /\ OneEach(pending')
      /\ \/ Of(batch') = Of(batch) \cup {k} /\ Of(pending') = Of(pending)
         \/ Of(batch') = Of(batch) /\ Of(pending') = Of(pending) \cup {k}
  <2>1. CASE Fits(Head(requests))
    <3>1. batch' = Append(batch, Head(requests)) /\ pending' = pending
      BY <2>1 DEF TakeMore
    <3> QED BY <1>5, <1>6, <1>8, <3>1, OfAppend DEF Accounts
  <2>2. CASE ~Fits(Head(requests))
    <3>1. pending' = Append(pending, Head(requests)) /\ batch' = batch
      BY <2>2 DEF TakeMore
    <3> QED BY <1>5, <1>6, <1>8, <3>1, OfAppend DEF Accounts
  <2> QED BY <2>1, <2>2
<1>10. Answered' = Answered BY <1>1 DEF Answered
<1> HIDE DEF k
<1>11. Placed' = Placed BY <1>2, <1>4, <1>7, <1>9, <1>10 DEF Placed
<1> QED BY <1>1, <1>2, <1>4, <1>7, <1>8, <1>9, <1>10, <1>11 DEF Accounts, Placed

\* While the batch is read no request moves.
LEMMA AccountsOfRead ==
    ASSUME ConsumersOK, WorkerOK, PositionOK, Accounts, CloseBatch \/ ReadItem
    PROVE  Accounts'
<1>1. /\ pc \in {"collect", "read"} /\ pc' \in {"read", "refuse"}
      /\ pc' = "refuse" => at' = 1
      /\ UNCHANGED <<state, requests, responses, batch, pending>>
  BY DEF CloseBatch, ReadItem, consumerVars
<1>2. Taken = Of(batch) BY <1>1, TakenParts
<1>3. Taken' = Of(batch)
  <2>1. Unanswered' = DOMAIN batch
    BY <1>1, BatchParts DEF Unanswered
  <2> QED BY <1>1, <2>1 DEF Taken, Of, Range
<1>4. Placed' = Placed /\ Answered' = Answered
  BY <1>1, <1>2, <1>3 DEF Placed, Answered
<1> QED BY <1>1, <1>2, <1>3, <1>4 DEF Accounts

\* A request that is answered is not taken any more.
LEMMA ReplyMoves ==
    ASSUME ConsumersOK, WorkerOK, PositionOK, Accounts,
           NEW i \in Unanswered, NEW kind \in {"ok", "stale", "error"},
           NEW p \in Seq(Cameras \X Nat), Reply(batch[i], kind, p),
           UNCHANGED <<state, requests, pending>>, OneEach(batch'),
           Taken' = Taken \ {batch[i].consumer},
           pc # "exited"
    PROVE  Accounts'
<1> DEFINE k == batch[i].consumer
<1>1. batch[i] \in Request /\ k \in Consumers /\ k \in Taken
  BY BatchParts, TakenParts, RequestParts DEF Taken
<1>2. /\ responses' \in [Consumers -> Seq(Response)]
      /\ \E m \in Response : responses'[k] = Append(responses[k], m)
      /\ \A x \in Consumers : x # k => responses'[x] = responses[x]
  <2> DEFINE m == [id |-> batch[i].id, kind |-> kind, predictions |-> p]
  <2>1. /\ m \in Response /\ responses' \in [Consumers -> Seq(Response)]
        /\ responses'[k] = Append(responses[k], m)
        /\ \A x \in Consumers \ {k} : responses'[x] = responses[x]
    BY <1>1, ReplyTypes
  <2> HIDE DEF m
  <2> QED BY <2>1
<1>3. responses[k] = <<>> BY <1>1 DEF Accounts, Answered
<1>4. responses'[k] # <<>> /\ Len(responses'[k]) = 1
  <2>1. PICK m \in Response : responses'[k] = Append(<<>>, m) BY <1>2, <1>3
  <2>2. Append(<<>>, m) = <<m>> OBVIOUS
  <2> QED BY <2>1, <2>2
<1> HIDE DEF k
<1>5. Answered' = Answered \cup {k} BY <1>1, <1>2, <1>4 DEF Answered
<1>6. \A x \in Consumers : Len(responses'[x]) <= 1 BY <1>2, <1>4 DEF Accounts
<1>7. Taken' = Taken \ {k} BY DEF k
<1>8. Placed' = Placed BY <1>1, <1>5, <1>7 DEF Placed
<1> QED BY <1>1, <1>5, <1>6, <1>7, <1>8 DEF Accounts

\* A consumer has one request in the batch.
LEMMA TakenWithout ==
    ASSUME WorkerOK, PositionOK, OneEach(batch), NEW i \in Unanswered
    PROVE  {batch[j].consumer : j \in Unanswered \ {i}} = Taken \ {batch[i].consumer}
<1>1. Unanswered \subseteq DOMAIN batch BY TakenParts, BatchParts
<1> QED BY <1>1 DEF Taken, OneEach

LEMMA AccountsOfStale ==
    ASSUME ConsumersOK, WorkerOK, PositionOK, Accounts, ReplyStale
    PROVE  Accounts'
<1>1. PICK i \in Stale : /\ \A j \in Stale : i <= j
                         /\ Reply(batch[i], "stale", <<>>) /\ at' = i + 1
  BY DEF ReplyStale
<1>2. /\ pc = "refuse" /\ pc' = "refuse"
      /\ UNCHANGED <<state, requests, pending, batch, stale>>
  BY DEF ReplyStale, consumerVars
<1>3. i \in 1 .. Len(batch) /\ i >= at /\ Len(batch) \in Nat /\ at \in Nat /\ at >= 1
  BY BatchParts DEF Stale, WorkerOK
<1>4. Unanswered' = Unanswered \ {i}
  <2>1. Unanswered = {j \in 1 .. Len(batch) : j >= at \/ Key(batch[j]) \notin stale}
    BY <1>2, BatchParts DEF Unanswered
  <2>2. Unanswered' = {j \in 1 .. Len(batch) : j >= i + 1 \/ Key(batch[j]) \notin stale}
    BY <1>1, <1>2, BatchParts DEF Unanswered, Key
  <2>3. Key(batch[i]) \in stale BY DEF Stale
  <2>4. ASSUME NEW j \in 1 .. Len(batch), j >= at, j # i, Key(batch[j]) \in stale
        PROVE  j >= i + 1
    <3>1. j \in Stale BY <1>3, <2>4 DEF Stale
    <3> QED BY <1>1, <1>3, <2>4, <3>1
  <2> HIDE DEF Key
  <2>5. ASSUME NEW j \in 1 .. Len(batch) PROVE j \in Unanswered' <=> j \in Unanswered \ {i}
    BY <1>3, <2>1, <2>2, <2>3, <2>4
  <2> QED BY <2>1, <2>2, <2>5
<1>5. i \in Unanswered BY <1>2, <1>3, BatchParts DEF Unanswered
<1>6. Taken' = Taken \ {batch[i].consumer}
  <2>1. Taken' = {batch[j].consumer : j \in Unanswered \ {i}} BY <1>2, <1>4 DEF Taken
  <2> QED BY <1>5, <2>1, TakenWithout DEF Accounts
<1>7. <<>> \in Seq(Cameras \X Nat) OBVIOUS
<1>8. OneEach(batch') BY <1>2 DEF Accounts
<1> QED BY <1>1, <1>2, <1>5, <1>6, <1>7, <1>8, ReplyMoves

\* After the last of the valid requests the batch is over.
LEMMA ContinueTakes ==
    ASSUME WorkerOK, PositionOK, OneEach(batch), NEW last \in 0 .. Len(batch),
           NEW next \in {"reply", "fail"}, Continue(last, next)
    PROVE  /\ Unanswered' = {i \in last + 1 .. Len(batch) : Key(batch[i]) \notin stale}
           /\ Taken' = {batch[i].consumer : i \in Unanswered'}
           /\ OneEach(batch') /\ UNCHANGED <<state, requests, pending>>
           /\ pc' # "exited" /\ \A i \in Unanswered' : batch'[i] = batch[i]
<1>1. UNCHANGED <<state, requests, pending>> BY DEF Continue, consumerVars
<1>2. CASE \E i \in last + 1 .. Len(batch) : Key(batch[i]) \notin stale
  <2>1. pc' = next /\ at' = last + 1 /\ batch' = batch /\ stale' = stale
    BY <1>2 DEF Continue
  <2>2. Unanswered' = {i \in last + 1 .. Len(batch) : Key(batch[i]) \notin stale}
    BY <2>1, BatchParts DEF Unanswered, Valid, Key
  <2> QED BY <1>1, <2>1, <2>2 DEF Taken
<1>3. CASE ~\E i \in last + 1 .. Len(batch) : Key(batch[i]) \notin stale
  <2>1. pc' = "first" /\ at' = 1 /\ batch' = <<>> BY <1>3 DEF Continue
  <2>2. Unanswered' = {} BY <2>1 DEF Unanswered
  <2>3. OneEach(batch') BY <2>1, OfFew
  <2> QED BY <1>1, <1>3, <2>1, <2>2, <2>3 DEF Taken
<1> QED BY <1>2, <1>3

LEMMA AccountsOfInfer ==
    ASSUME ConsumersOK, WorkerOK, PositionOK, Accounts, Infer \/ InferFails
    PROVE  Accounts'
<1>1. pc = "refuse" /\ Stale = {} /\ responses' = responses
  BY DEF Infer, InferFails
<1>2. PICK next \in {"reply", "fail"} : Continue(0, next) BY DEF Infer, InferFails
<1>3. /\ Unanswered' = {i \in 0 + 1 .. Len(batch) : Key(batch[i]) \notin stale}
      /\ Taken' = {batch[i].consumer : i \in Unanswered'}
      /\ OneEach(batch') /\ UNCHANGED <<state, requests, pending>>
      /\ pc' # "exited"
  <2>1. 0 \in 0 .. Len(batch) BY BatchParts
  <2> QED BY <1>2, <2>1, ContinueTakes DEF Accounts
<1>4. Unanswered' = Unanswered
  <2>1. Unanswered = {i \in 1 .. Len(batch) : i >= at \/ Key(batch[i]) \notin stale}
    BY <1>1, BatchParts DEF Unanswered
  <2>2. \A i \in at .. Len(batch) : Key(batch[i]) \notin stale BY <1>1 DEF Stale
  <2>3. at \in Nat /\ Len(batch) \in Nat BY BatchParts DEF WorkerOK
  <2> QED BY <1>3, <2>1, <2>2, <2>3
<1>5. Taken' = Taken BY <1>3, <1>4 DEF Taken
<1>6. Placed' = Placed /\ Answered' = Answered
  BY <1>1, <1>3, <1>5 DEF Placed, Answered
<1> QED BY <1>1, <1>3, <1>5, <1>6 DEF Accounts

LEMMA AccountsOfValid ==
    ASSUME ConsumersOK, WorkerOK, PositionOK, Accounts, ReplyValid
    PROVE  Accounts'
<1>1. PICK i \in Valid :
         /\ \A j \in Valid : i <= j
         /\ IF pc = "reply" THEN Reply(batch[i], "ok", Predicted(batch[i]))
            ELSE Reply(batch[i], "error", <<>>)
         /\ Continue(i, pc)
  BY DEF ReplyValid
<1>2. pc \in {"reply", "fail"} /\ Unanswered = Valid BY TakenParts DEF ReplyValid
<1>3. /\ i \in 1 .. Len(batch) /\ i \in 0 .. Len(batch) /\ batch[i] \in Request
      /\ i >= at /\ at \in Nat /\ Len(batch) \in Nat
  <2>1. i \in 1 .. Len(batch) /\ i >= at /\ at \in Nat /\ Len(batch) \in Nat
    BY BatchParts DEF Valid, WorkerOK
  <2> QED BY <2>1, BatchParts
<1>4. /\ Unanswered' = {j \in i + 1 .. Len(batch) : Key(batch[j]) \notin stale}
      /\ Taken' = {batch[j].consumer : j \in Unanswered'}
      /\ OneEach(batch') /\ UNCHANGED <<state, requests, pending>>
  BY <1>1, <1>2, <1>3, ContinueTakes DEF Accounts
<1>5. Unanswered' = Unanswered \ {i}
  <2>1. Unanswered = {j \in at .. Len(batch) : Key(batch[j]) \notin stale}
    BY <1>2 DEF Valid
  <2>2. \A j \in Unanswered : i <= j BY <1>1, <1>2
  <2> QED BY <1>3, <1>4, <2>1, <2>2
<1>6. Taken' = Taken \ {batch[i].consumer}
  BY <1>2, <1>4, <1>5, TakenWithout DEF Accounts
<1>7. <<>> \in Seq(Cameras \X Nat) /\ Predicted(batch[i]) \in Seq(Cameras \X Nat)
  BY <1>3, PredictedTypes
<1>8. PICK kind \in {"ok", "error"}, p \in Seq(Cameras \X Nat) : Reply(batch[i], kind, p)
  BY <1>1, <1>7
<1> QED BY <1>2, <1>4, <1>6, <1>8, ReplyMoves

\* The worker takes what it has of its consumers with it.
LEMMA AccountsOfExit ==
    ASSUME ConsumersOK, WorkerOK, PositionOK, Accounts, Exit \/ WorkerKilled
    PROVE  Accounts'
<1>1. /\ pc' = "exited" /\ pending' = <<>> /\ batch' = <<>>
      /\ UNCHANGED <<state, requests, responses>>
  BY DEF Exit, WorkerKilled, Exits, consumerVars
<1>2. Taken' = {} BY <1>1 DEF Taken, Unanswered
<1>3. Of(pending') = {} /\ OneEach(pending') /\ OneEach(batch') BY <1>1, OfFew
<1>4. Answered' = Answered /\ Placed' \subseteq Placed
  BY <1>1, <1>2, <1>3 DEF Answered, Placed
<1> QED BY <1>1, <1>2, <1>3, <1>4 DEF Accounts
-----------------------------------------------------------------------------
(* What the requests and replies say: a request is the one its consumer    *)
(* waits for, and a reply is made from the frames it names or newer ones.  *)

Open == Range(requests) \cup Range(pending) \cup {batch[i] : i \in Unanswered}

Matches(r) ==
    state[r.consumer] = "waiting" =>
        r.id = id[r.consumer] /\ r.items = items[r.consumer]

Aligned(k) ==
    /\ Len(Predictions(k)) = Len(items[k])
    /\ \A i \in DOMAIN items[k] :
          LET p == Predictions(k)[i] f == items[k][i]
          IN  p[1] = f[1] /\ p[2] >= f[2] /\ p[2] <= slot[f[1]]

Honest(k) ==
    state[k] = "waiting" /\ responses[k] # <<>> =>
        /\ Head(responses[k]).id = id[k]
        /\ Head(responses[k]).kind = "ok" => Aligned(k)

Matching ==
    /\ \A r \in Open : Matches(r)
    /\ \A k \in Consumers : Honest(k)

\* The frames the worker copied are newer than the cache, and newer and newer.
FramesRise ==
    \A i \in DOMAIN frames :
        LET c == frames[i][1] IN
        /\ latest[c] < frames[i][2] /\ frames[i][2] <= slot[c]
        /\ \A j \in 1 .. i - 1 : frames[j][1] = c => frames[j][2] < frames[i][2]

\* What has been read for the requests that are not refused is in the cache or among
\* the frames, and what their replies are taken from is as new as what they ask.
Known(f) == latest[f[1]] = f[2] \/ f \in Range(frames)
ReadSoFar(i, j) ==
    \/ pc = "refuse"
    \/ i < at
    \/ i = at /\ j < item

CachesOK ==
    /\ \A c \in Cameras : latest[c] <= slot[c]
    /\ FramesRise
    /\ pc \in {"read", "refuse"} =>
          \A i \in 1 .. Len(batch) : Key(batch[i]) \notin stale =>
              \A j \in 1 .. Len(batch[i].items) :
                  ReadSoFar(i, j) => Known(batch[i].items[j])
    /\ pc = "reply" =>
          \A i \in Valid : \A j \in 1 .. Len(batch[i].items) :
              latest[batch[i].items[j][1]] >= batch[i].items[j][2]

\* The requests the worker has not answered yet come from those it had.
LEMMA OpenShrinks ==
    ASSUME ConsumersOK, WorkerOK, PositionOK, Accounts, Worker \/ WorkerKilled
    PROVE  Open' \subseteq Open
<1> DEFINE InBatch == {batch[i] : i \in Unanswered}
<1>1. ASSUME UNCHANGED <<requests, pending>>, Unanswered' \subseteq Unanswered,
             \A i \in Unanswered' : batch'[i] = batch[i]
      PROVE  Open' \subseteq Open
  BY <1>1 DEF Open
<1>2. requests \in Seq(Request) /\ pending \in Seq(Request) /\ batch \in Seq(Request)
  BY DEF ConsumersOK, WorkerOK
<1>3. CASE TakeFirst
  <2>1. pc' = "collect" BY <1>3 DEF TakeFirst
  <2>2. InBatch' = Range(batch') BY <2>1 DEF Unanswered, Range
  <2>3. CASE pending # <<>>
    <3>1. /\ batch' = <<Head(pending)>> /\ pending' = Tail(pending)
          /\ requests' = requests
      BY <1>3, <2>3 DEF TakeFirst
    <3>2. Range(batch') \subseteq Range(pending) /\ Range(pending') \subseteq Range(pending)
      BY <1>2, <2>3, <3>1, QueueParts
    <3> QED BY <2>2, <3>1, <3>2 DEF Open
  <2>4. CASE pending = <<>>
    <3>1. /\ batch' = <<Head(requests)>> /\ requests' = Tail(requests)
          /\ pending' = pending /\ requests # <<>>
      BY <1>3, <2>4 DEF TakeFirst
    <3>2. /\ Range(batch') \subseteq Range(requests)
          /\ Range(requests') \subseteq Range(requests)
      BY <1>2, <3>1, QueueParts
    <3> QED BY <2>2, <3>1, <3>2 DEF Open
  <2> QED BY <2>3, <2>4
<1>4. CASE TakeMore
  <2>1. /\ pc = "collect" /\ pc' = "collect"
        /\ requests # <<>> /\ requests' = Tail(requests)
    BY <1>4 DEF TakeMore
  <2>2. InBatch' = Range(batch') /\ InBatch = Range(batch)
    BY <2>1 DEF Unanswered, Range
  <2>3. /\ Head(requests) \in Request /\ Head(requests) \in Range(requests)
        /\ Range(requests') \subseteq Range(requests)
    BY <1>2, <2>1, QueueParts
  <2>4. CASE Fits(Head(requests))
    <3>1. batch' = Append(batch, Head(requests)) /\ pending' = pending
      BY <1>4, <2>4 DEF TakeMore
    <3>2. Range(batch') = Range(batch) \cup {Head(requests)}
      BY <1>2, <2>3, <3>1, RangeAppend
    <3> QED BY <2>2, <2>3, <3>1, <3>2 DEF Open
  <2>5. CASE ~Fits(Head(requests))
    <3>1. pending' = Append(pending, Head(requests)) /\ batch' = batch
      BY <1>4, <2>5 DEF TakeMore
    <3>2. Range(pending') = Range(pending) \cup {Head(requests)}
      BY <1>2, <2>3, <3>1, RangeAppend
    <3> QED BY <2>2, <2>3, <3>1, <3>2 DEF Open
  <2> QED BY <2>4, <2>5
<1>5. CASE CloseBatch \/ ReadItem
  <2>1. pc \in {"collect", "read"} /\ UNCHANGED <<requests, pending, batch>>
    BY <1>5 DEF CloseBatch, ReadItem
  <2>2. Unanswered' \subseteq DOMAIN batch /\ Unanswered = DOMAIN batch
    BY <2>1, BatchParts DEF Unanswered, Valid, CloseBatch, ReadItem
  <2> QED BY <1>1, <2>1, <2>2
<1>6. CASE ReplyStale
  <2>1. PICK i \in Stale : at' = i + 1 BY <1>6 DEF ReplyStale
  <2>2. /\ pc = "refuse" /\ pc' = "refuse"
        /\ UNCHANGED <<requests, pending, batch, stale>>
    BY <1>6 DEF ReplyStale
  <2>3. i >= at /\ i \in Nat /\ at \in Nat BY BatchParts DEF Stale, WorkerOK
  <2>4. Unanswered' \subseteq Unanswered
    BY <2>1, <2>2, <2>3, BatchParts DEF Unanswered, Key
  <2> QED BY <1>1, <2>2, <2>4
<1>7. CASE Infer \/ InferFails
  <2>1. PICK next \in {"reply", "fail"} : Continue(0, next) BY <1>7 DEF Infer, InferFails
  <2>2. 0 \in 0 .. Len(batch) /\ pc = "refuse" BY <1>7, BatchParts DEF Infer, InferFails
  <2>3. /\ Unanswered' = {i \in 0 + 1 .. Len(batch) : Key(batch[i]) \notin stale}
        /\ UNCHANGED <<requests, pending>> /\ \A i \in Unanswered' : batch'[i] = batch[i]
    BY <2>1, <2>2, ContinueTakes DEF Accounts
  <2>4. Unanswered' \subseteq Unanswered BY <2>2, <2>3, BatchParts DEF Unanswered
  <2> QED BY <1>1, <2>3, <2>4
<1>8. CASE ReplyValid
  <2>1. PICK i \in Valid : Continue(i, pc) BY <1>8 DEF ReplyValid
  <2>2. /\ pc \in {"reply", "fail"} /\ i \in 0 .. Len(batch) /\ Len(batch) \in Nat
        /\ i >= at /\ at \in Nat /\ i \in Nat /\ Unanswered = Valid
    BY <1>8, BatchParts, TakenParts DEF ReplyValid, Valid, WorkerOK
  <2>3. /\ Unanswered' = {j \in i + 1 .. Len(batch) : Key(batch[j]) \notin stale}
        /\ UNCHANGED <<requests, pending>> /\ \A j \in Unanswered' : batch'[j] = batch[j]
    BY <2>1, <2>2, ContinueTakes DEF Accounts
  <2>4. Unanswered' \subseteq Unanswered BY <2>2, <2>3 DEF Valid
  <2> QED BY <1>1, <2>3, <2>4
<1>9. CASE Exit \/ WorkerKilled
  <2>1. pending' = <<>> /\ pc' = "exited" /\ requests' = requests
    BY <1>9 DEF Exit, WorkerKilled, Exits
  <2>2. Range(pending') = {} /\ Unanswered' = {} BY <2>1 DEF Range, Unanswered
  <2> QED BY <2>1, <2>2 DEF Open
<1> QED BY <1>3, <1>4, <1>5, <1>6, <1>7, <1>8, <1>9 DEF Worker

\* Frames are only captured.
LEMMA SlotsGrow ==
    ASSUME ConsumersOK, Others
    PROVE  \A c \in Cameras : slot[c] \in Nat /\ slot'[c] \in Nat /\ slot[c] <= slot'[c]
<1>1. \A c \in Cameras : slot[c] \in Nat BY DEF ConsumersOK
<1>2. ASSUME NEW c \in Cameras, Capture(c)
      PROVE  \A x \in Cameras : slot'[x] \in Nat /\ slot[x] <= slot'[x]
  BY <1>1, <1>2 DEF Capture, ConsumersOK
<1>3. CASE slot' = slot BY <1>1, <1>3
<1>4. ASSUME NEW k \in Consumers, Consumer(k) PROVE slot' = slot
  BY <1>4 DEF Consumer, ReadFrame, Ask, Receive, Timeout, slotVars
<1>5. ASSUME NEW k \in Consumers, ConsumerEnds(k) \/ ConsumerKilled(k) PROVE slot' = slot
  BY <1>5 DEF ConsumerEnds, ConsumerKilled, slotVars
<1> QED BY <1>1, <1>2, <1>3, <1>4, <1>5 DEF Others, Stop, vars, slotVars

\* What is promised to a consumer that waits stays so.
LEMMA HonestKept ==
    ASSUME ConsumersOK, NEW k \in Consumers, Honest(k),
           state'[k] = "waiting" => state[k] = "waiting",
           responses'[k] = responses[k] \/ responses'[k] = <<>>,
           id'[k] = id[k], state[k] = "waiting" => items'[k] = items[k],
           \A c \in Cameras : slot[c] \in Nat /\ slot'[c] \in Nat /\ slot[c] <= slot'[c],
           \A x \in Consumers : \A r \in Range(responses[x]) : r \in Response
    PROVE  Honest(k)'
<1> SUFFICES ASSUME state'[k] = "waiting", responses'[k] # <<>> PROVE Honest(k)'
  BY DEF Honest
<1>1. /\ state[k] = "waiting" /\ responses'[k] = responses[k] /\ id'[k] = id[k]
      /\ items'[k] = items[k]
  OBVIOUS
<1>2. Head(responses'[k]).id = id'[k] BY <1>1 DEF Honest
<1>3. ASSUME Head(responses'[k]).kind = "ok" PROVE Aligned(k)'
  <2>1. Aligned(k) BY <1>1, <1>3 DEF Honest
  <2>2. Predictions(k)' = Predictions(k) BY <1>1 DEF Predictions
  <2>3. Len(Predictions(k)) = Len(items[k]) BY <2>1 DEF Aligned
  <2>4. /\ Len(items[k]) \in Nat /\ DOMAIN items[k] = 1 .. Len(items[k])
        /\ \A i \in 1 .. Len(items[k]) : items[k][i][1] \in Cameras
    BY DEF ConsumersOK
  <2>5. /\ Head(responses[k]) \in Response
    <3>1. responses[k] \in Seq(Response) /\ responses[k] # <<>> BY <1>1 DEF ConsumersOK
    <3> QED BY <3>1
  <2>6. Predictions(k) \in Seq(Cameras \X Nat) BY <2>5 DEF Predictions, Response
  <2>7. ASSUME NEW i \in 1 .. Len(items[k])
        PROVE  /\ Predictions(k)[i][1] = items[k][i][1]
               /\ Predictions(k)[i][2] >= items[k][i][2]
               /\ Predictions(k)[i][2] <= slot'[items[k][i][1]]
    <3>1. /\ Predictions(k)[i][1] = items[k][i][1]
          /\ Predictions(k)[i][2] >= items[k][i][2]
          /\ Predictions(k)[i][2] <= slot[items[k][i][1]]
      BY <2>1, <2>4 DEF Aligned
    <3>2. Predictions(k)[i][2] \in Nat BY <2>3, <2>6
    <3>3. slot[items[k][i][1]] <= slot'[items[k][i][1]] BY <2>4
    <3>4. slot[items[k][i][1]] \in Nat /\ slot'[items[k][i][1]] \in Nat BY <2>4
    <3> QED BY <3>1, <3>2, <3>3, <3>4
  <2> QED BY <1>1, <2>2, <2>3, <2>4, <2>7 DEF Aligned
<1> QED BY <1>2, <1>3 DEF Honest

\* A consumer that asks gets a request of its own, and nobody answers it in advance.
LEMMA MatchingOfOthers ==
    ASSUME ConsumersOK, WorkerOK, PositionOK, Accounts, Matching, Others
    PROVE  Matching'
<1>1. Taken' = Taken /\ {batch[i] : i \in Unanswered}' = {batch[i] : i \in Unanswered}
  BY OthersLeaveWorker DEF workerVars, Taken, Unanswered, Valid, Key
<1>2. pending' = pending BY OthersLeaveWorker DEF workerVars
<1>3. \A c \in Cameras : slot[c] \in Nat /\ slot'[c] \in Nat /\ slot[c] <= slot'[c]
  BY SlotsGrow
<1>4. \A x \in Consumers : \A r \in Range(responses[x]) : r \in Response
  <2>1. \A x \in Consumers : responses[x] \in Seq(Response) BY DEF ConsumersOK
  <2> QED BY <2>1 DEF Range
<1>5. \A r \in Open : r \in Request /\ r.consumer \in Placed /\ r.consumer \in Consumers
  <2>1. ASSUME NEW r \in Open PROVE r \in Request /\ r.consumer \in Placed
    <3>1. \A q \in Seq(Request) : \A x \in Range(q) : x \in Request BY DEF Range
    <3>2. r \in Request
      BY <3>1, BatchParts, TakenParts DEF Open, ConsumersOK, WorkerOK
    <3>3. r.consumer \in Placed BY DEF Open, Placed, Of, Taken
    <3> QED BY <3>2, <3>3
  <2> QED BY <2>1, RequestParts
<1>6. ASSUME UNCHANGED <<requests, id>>,
             \A k \in Consumers : \/ responses'[k] = responses[k]
                                  \/ responses'[k] = <<>>,
             \A k \in Consumers :
                state'[k] = "waiting" => state[k] = "waiting" /\ items'[k] = items[k],
             \A k \in Consumers : state[k] = "waiting" =>
                items'[k] = items[k] \/ state'[k] # "waiting"
      PROVE  Matching'
  <2>1. Open' = Open BY <1>1, <1>2, <1>6 DEF Open
  <2>2. \A r \in Open : Matches(r)' BY <1>5, <1>6 DEF Matching, Matches
  <2>3. ASSUME NEW k \in Consumers PROVE Honest(k)'
    <3>1. CASE state'[k] = "waiting"
      BY <1>3, <1>4, <1>6, <3>1, HonestKept DEF Matching
    <3>2. CASE state'[k] # "waiting" BY <3>2 DEF Honest
    <3> QED BY <3>1, <3>2
  <2> QED BY <2>1, <2>2, <2>3 DEF Matching
<1>7. ASSUME NEW k \in Consumers, Ask(k) PROVE Matching'
  <2>1. /\ state[k] = "idle" /\ responses' = responses /\ items' = items
        /\ state' = [state EXCEPT ![k] = "waiting"] /\ id' = [id EXCEPT ![k] = 1 - @]
    BY <1>7 DEF Ask
  <2>2. PICK new \in Request :
           /\ requests' = Append(requests, new)
           /\ new.consumer = k /\ new.id = 1 - id[k] /\ new.items = items[k]
    <3>1. id[k] \in 0 .. 1 /\ \A x \in 0 .. 1 : 1 - x \in 0 .. 1
      BY DEF ConsumersOK
    <3>2. [consumer |-> k, id |-> 1 - id[k], items |-> items[k]] \in Request
      BY <3>1, ItemsOfRequest DEF ConsumersOK
    <3> QED BY <1>7, <3>2 DEF Ask
  <2>4. k \notin Placed /\ responses[k] = <<>>
    BY <2>1 DEF Accounts, Placed, Answered
  <2>5. /\ id'[k] = 1 - id[k]
        /\ \A x \in Consumers : x # k => state'[x] = state[x] /\ id'[x] = id[x]
    BY <2>1 DEF ConsumersOK
  <2>6. Range(requests') = Range(requests) \cup {new}
    BY <2>2, RangeAppend DEF ConsumersOK
  <2>7. Open' = Open \cup {new} BY <1>1, <1>2, <2>6 DEF Open
  <2>8. Matches(new)' BY <2>1, <2>2, <2>5 DEF Matches
  <2>9. ASSUME NEW r \in Open PROVE Matches(r)'
    BY <1>5, <2>1, <2>4, <2>5 DEF Matching, Matches
  <2>10. ASSUME NEW x \in Consumers PROVE Honest(x)'
    <3>1. CASE x = k BY <2>1, <2>4, <3>1 DEF Honest
    <3>2. CASE x # k
      BY <1>3, <1>4, <2>1, <2>5, <3>2, HonestKept DEF Matching
    <3> QED BY <3>1, <3>2
  <2> QED BY <2>7, <2>8, <2>9, <2>10 DEF Matching
<1>8. ASSUME NEW k \in Consumers, Consumer(k) PROVE Matching'
  <2>1. ASSUME NEW c \in Cameras, ReadFrame(k, c) PROVE Matching'
    <3>1. /\ UNCHANGED <<requests, id, responses, state>> /\ state[k] = "idle"
          /\ \A x \in Consumers : x # k => items'[x] = items[x]
      BY <2>1 DEF ReadFrame, ConsumersOK
    <3> QED BY <1>6, <3>1
  <2>2. CASE Receive(k) \/ Timeout(k)
    <3>1. PICK d \in {"idle", "dead"} : state' = [state EXCEPT ![k] = d]
      BY <2>2 DEF Receive, Timeout
    <3>2. state'[k] # "waiting" /\ \A x \in Consumers : x # k => state'[x] = state[x]
      BY <3>1 DEF ConsumersOK
    <3>3. /\ UNCHANGED <<requests, id>>
          /\ \A x \in Consumers : x # k =>
                items'[x] = items[x] /\ responses'[x] = responses[x]
      BY <2>2 DEF Receive, Timeout, ConsumersOK
    <3>4. responses'[k] = responses[k] \/ responses'[k] = <<>>
      <4>1. CASE Timeout(k) BY <4>1 DEF Timeout
      <4>2. CASE Receive(k)
        <5>1. responses'[k] = Tail(responses[k]) /\ responses[k] # <<>>
          BY <4>2 DEF Receive, ConsumersOK
        <5>2. responses[k] \in Seq(Response) /\ Len(responses[k]) <= 1
          BY DEF ConsumersOK, Accounts
        <5>3. Len(responses[k]) \in Nat /\ Len(responses[k]) # 0 BY <5>1, <5>2, EmptySeq
        <5>4. \A n \in Nat : n # 0 /\ n <= 1 => n = 1 OBVIOUS
        <5>5. Len(responses[k]) = 1 BY <5>2, <5>3, <5>4
        <5> QED BY <5>1, <5>2, <5>5, TailEmpty
      <4> QED BY <2>2, <4>1, <4>2
    <3> QED BY <1>6, <3>2, <3>3, <3>4
  <2> QED BY <1>7, <1>8, <2>1, <2>2 DEF Consumer
<1>9. ASSUME NEW k \in Consumers, ConsumerEnds(k) \/ ConsumerKilled(k) PROVE Matching'
  <2>1. /\ state' = [state EXCEPT ![k] = "dead"] /\ UNCHANGED <<requests, id, responses>>
        /\ \A x \in Consumers : x # k => items'[x] = items[x]
    BY <1>9 DEF ConsumerEnds, ConsumerKilled, ConsumersOK
  <2>2. state'[k] # "waiting" /\ \A x \in Consumers : x # k => state'[x] = state[x]
    BY <2>1 DEF ConsumersOK
  <2> QED BY <1>6, <2>1, <2>2
<1>10. ASSUME (\E c \in Cameras : Capture(c)) \/ Stop \/ UNCHANGED vars PROVE Matching'
  <2>1. UNCHANGED <<state, id, items, requests, responses>>
    BY <1>10 DEF Capture, Stop, vars, consumerVars
  <2> QED BY <1>6, <2>1
<1> QED BY <1>8, <1>9, <1>10 DEF Others

\* A reply that is made keeps the promise when it holds predictions that align with the
\* request.
LEMMA HonestReply ==
    ASSUME ConsumersOK, WorkerOK, PositionOK, Accounts, Matching,
           NEW i \in Unanswered, NEW kind \in {"ok", "stale", "error"},
           NEW p \in Seq(Cameras \X Nat), Reply(batch[i], kind, p),
           UNCHANGED <<slot, state, id, items>>,
           kind = "ok" =>
              /\ Len(p) = Len(batch[i].items)
              /\ \A j \in 1 .. Len(batch[i].items) :
                    LET f == batch[i].items[j]
                    IN  p[j][1] = f[1] /\ p[j][2] >= f[2] /\ p[j][2] <= slot[f[1]]
    PROVE  \A k \in Consumers : Honest(k)'
<1>1. PICK k \in Consumers : k = batch[i].consumer /\ batch[i] \in Request /\ k \in Taken
  BY BatchParts, TakenParts, RequestParts DEF Taken
<1>2. PICK m \in Response :
         /\ m.id = batch[i].id /\ m.kind = kind /\ m.predictions = p
         /\ responses'[k] = Append(responses[k], m)
         /\ \A x \in Consumers : x # k => responses'[x] = responses[x]
  <2> DEFINE r == [id |-> batch[i].id, kind |-> kind, predictions |-> p]
  <2>1. \A x \in Consumers \ {k} : responses'[x] = responses[x]
    BY <1>1, ReplyTypes
  <2>2. responses'[k] = Append(responses[k], r) /\ r \in Response BY <1>1, ReplyTypes
  <2>3. r.id = batch[i].id /\ r.kind = kind /\ r.predictions = p OBVIOUS
  <2> HIDE DEF r
  <2> QED BY <2>1, <2>2, <2>3
<1>3. responses[k] = <<>> BY <1>1 DEF Accounts, Answered
<1>4. Head(responses'[k]) = m
  <2>1. responses'[k] = Append(<<>>, m) BY <1>2, <1>3
  <2>2. Append(<<>>, m) = <<m>> /\ Head(<<m>>) = m OBVIOUS
  <2> QED BY <2>1, <2>2
<1>5. m.id = batch[i].id /\ m.kind = kind /\ m.predictions = p BY <1>2
<1>6. Matches(batch[i]) BY DEF Matching, Open
<1>7. Honest(k)'
  <2> SUFFICES ASSUME state'[k] = "waiting" PROVE Honest(k)' BY DEF Honest
  <2>1. batch[i].id = id[k] /\ batch[i].items = items[k] BY <1>1, <1>6 DEF Matches
  <2>2. Head(responses'[k]).id = id'[k] BY <1>4, <1>5, <2>1
  <2>3. ASSUME Head(responses'[k]).kind = "ok" PROVE Aligned(k)'
    <3>1. kind = "ok" BY <1>4, <1>5, <2>3
    <3>2. Predictions(k)' = p BY <1>4, <1>5 DEF Predictions
    <3>3. DOMAIN items[k] = 1 .. Len(items[k]) BY <1>1 DEF ConsumersOK
    <3>4. slot' = slot /\ items' = items OBVIOUS
    <3>5. /\ Len(p) = Len(items[k])
          /\ \A j \in 1 .. Len(items[k]) :
                /\ p[j][1] = items[k][j][1] /\ p[j][2] >= items[k][j][2]
                /\ p[j][2] <= slot[items[k][j][1]]
      BY <2>1, <3>1
    <3> QED BY <3>2, <3>3, <3>4, <3>5 DEF Aligned
  <2> QED BY <2>2, <2>3 DEF Honest
<1>8. ASSUME NEW x \in Consumers, x # k PROVE Honest(x)'
  <2>1. Honest(x) /\ responses'[x] = responses[x] BY <1>2, <1>8 DEF Matching
  <2>2. Predictions(x)' = Predictions(x) BY <2>1 DEF Predictions
  <2>3. Aligned(x)' <=> Aligned(x) BY <2>2 DEF Aligned
  <2> QED BY <2>1, <2>3 DEF Honest
<1> QED BY <1>7, <1>8

LEMMA MatchingOfWorker ==
    ASSUME ConsumersOK, WorkerOK, PositionOK, Accounts, Matching, CachesOK,
           Worker \/ WorkerKilled
    PROVE  Matching'
<1>1. UNCHANGED <<slot, state, id, items>>
  BY WorkerLeavesOthers DEF WorkerKilled, Exits, slotVars, consumerVars
<1>2. \A r \in Open' : Matches(r)'
  <2>1. \A r \in Open : Matches(r)' BY <1>1 DEF Matching, Matches
  <2> QED BY <2>1, OpenShrinks
<1>3. CASE responses' = responses
  <2>1. \A k \in Consumers : Honest(k)'
    BY <1>1, <1>3 DEF Matching, Honest, Aligned, Predictions
  <2> QED BY <1>2, <2>1 DEF Matching
<1>4. CASE ReplyStale
  <2>1. PICK i \in Stale : Reply(batch[i], "stale", <<>>) BY <1>4 DEF ReplyStale
  <2>2. i \in Unanswered
    <3>1. pc = "refuse" BY <1>4 DEF ReplyStale
    <3> QED BY <3>1, BatchParts DEF Stale, Unanswered, WorkerOK
  <2>3. <<>> \in Seq(Cameras \X Nat) OBVIOUS
  <2>4. \A k \in Consumers : Honest(k)' BY <1>1, <2>1, <2>2, <2>3, HonestReply
  <2> QED BY <1>2, <2>4 DEF Matching
<1>5. CASE ReplyValid
  <2>1. PICK i \in Valid :
           IF pc = "reply" THEN Reply(batch[i], "ok", Predicted(batch[i]))
           ELSE Reply(batch[i], "error", <<>>)
    BY <1>5 DEF ReplyValid
  <2>2. i \in Unanswered /\ i \in 1 .. Len(batch) /\ batch[i] \in Request
    <3>1. i \in Unanswered BY <1>5, TakenParts DEF ReplyValid
    <3> QED BY <3>1, TakenParts, BatchParts
  <2> DEFINE p == Predicted(batch[i])
  <2>3. /\ p \in Seq(Cameras \X Nat) /\ Len(p) = Len(batch[i].items)
        /\ \A j \in 1 .. Len(batch[i].items) :
              p[j] = <<batch[i].items[j][1], latest[batch[i].items[j][1]]>>
    BY <2>2, PredictedTypes
  <2> HIDE DEF p
  <2>4. CASE pc = "reply"
    <3>1. ASSUME NEW j \in 1 .. Len(batch[i].items)
          PROVE  LET f == batch[i].items[j]
                 IN  p[j][1] = f[1] /\ p[j][2] >= f[2] /\ p[j][2] <= slot[f[1]]
      <4>1. batch[i].items[j][1] \in Cameras BY <2>2, RequestParts
      <4>2. p[j] = <<batch[i].items[j][1], latest[batch[i].items[j][1]]>> BY <2>3
      <4>3. /\ latest[batch[i].items[j][1]] >= batch[i].items[j][2]
            /\ latest[batch[i].items[j][1]] <= slot[batch[i].items[j][1]]
        BY <2>4, <4>1 DEF CachesOK
      <4> QED BY <4>2, <4>3
    <3>2. Reply(batch[i], "ok", p) BY <2>1, <2>4 DEF p
    <3>3. \A k \in Consumers : Honest(k)'
      BY <1>1, <2>2, <2>3, <3>1, <3>2, HonestReply
    <3> QED BY <1>2, <3>3 DEF Matching
  <2>5. CASE pc # "reply"
    <3>1. <<>> \in Seq(Cameras \X Nat) OBVIOUS
    <3>2. \A k \in Consumers : Honest(k)' BY <1>1, <2>1, <2>2, <2>5, <3>1, HonestReply
    <3> QED BY <1>2, <3>2 DEF Matching
  <2> QED BY <2>4, <2>5
<1>6. CASE Worker /\ ~ReplyStale /\ ~ReplyValid
  <2>1. responses' = responses
    BY <1>6 DEF Worker, TakeFirst, TakeMore, CloseBatch, ReadItem, Infer, InferFails,
                Exit, Exits
  <2> QED BY <1>3, <2>1
<1>7. CASE WorkerKilled BY <1>3, <1>7 DEF WorkerKilled, Exits
<1> QED BY <1>4, <1>5, <1>6, <1>7

LEMMA CachesOfOthers ==
    ASSUME ConsumersOK, WorkerOK, CachesOK, Others
    PROVE  CachesOK'
<1>1. UNCHANGED workerVars BY OthersLeaveWorker
<1>2. \A c \in Cameras : slot[c] \in Nat /\ slot'[c] \in Nat /\ slot[c] <= slot'[c]
  BY SlotsGrow
<1>3. \A c \in Cameras : latest'[c] <= slot'[c]
  <2>1. \A c \in Cameras : latest[c] \in Nat /\ latest[c] <= slot[c]
    BY DEF CachesOK, WorkerOK
  <2>2. latest' = latest BY <1>1 DEF workerVars
  <2> QED BY <1>2, <2>1, <2>2
<1>4. FramesRise'
  <2>1. frames' = frames /\ latest' = latest BY <1>1 DEF workerVars
  <2>2. \A i \in DOMAIN frames : frames[i][1] \in Cameras /\ frames[i][2] \in Nat
    BY DEF WorkerOK
  <2>3. \A i \in DOMAIN frames : frames[i][2] <= slot'[frames[i][1]]
    BY <1>2, <2>2 DEF CachesOK, FramesRise
  <2> QED BY <2>1, <2>3 DEF CachesOK, FramesRise
<1> QED BY <1>1, <1>3, <1>4 DEF CachesOK, Valid, Key, Known, ReadSoFar, workerVars

\* A frame that is copied is newer than the others of its camera: the slot still held
\* it, and it is neither cached nor copied yet.
LEMMA CachesOfRead ==
    ASSUME ConsumersOK, WorkerOK, PositionOK, CachesOK, ReadItem
    PROVE  CachesOK'
<1>0. PICK r \in Request, key \in Cameras \X Nat : r = batch[at] /\ key = r.items[item]
  BY ItemRead
<1> DEFINE known == latest[key[1]] = key[2] \/ key \in ToSet(frames)
           more == (known \/ Exact(key)) /\ item < Len(r.items)
<1>1. /\ r \in Request /\ at \in 1 .. Len(batch)
      /\ key[1] \in Cameras /\ key[2] \in Nat
      /\ key = <<key[1], key[2]>> /\ item \in 1 .. Len(r.items)
      /\ Len(r.items) \in Nat /\ Len(batch) \in Nat
  BY <1>0, ItemRead, BatchParts, RequestParts
<1>2. /\ pc = "read" /\ UNCHANGED <<slot, batch, latest>>
      /\ frames' = IF ~known /\ Exact(key) THEN Append(frames, key) ELSE frames
      /\ stale' = IF known \/ Exact(key) THEN stale ELSE stale \cup {Key(r)}
      /\ item' = IF more THEN item + 1 ELSE 1
      /\ IF ~more /\ at = Len(batch)
         THEN pc' = "refuse" /\ at' = 1
         ELSE pc' = pc /\ at' = IF more THEN at ELSE at + 1
  BY <1>0 DEF ReadItem, slotVars
<1>3. known <=> latest[key[1]] = key[2] \/ key \in Range(frames) BY DEF ToSet, Range
<1>4. Exact(key) <=> slot[key[1]] = key[2] BY DEF Exact
<1>5. /\ Len(frames) \in Nat /\ DOMAIN frames = 1 .. Len(frames)
      /\ \A i \in 1 .. Len(frames) :
            /\ frames[i][1] \in Cameras /\ frames[i][2] \in Nat
            /\ frames[i] = <<frames[i][1], frames[i][2]>> /\ frames[i] \in Range(frames)
  <2>1. /\ Len(frames) \in Nat /\ DOMAIN frames = 1 .. Len(frames)
        /\ \A i \in 1 .. Len(frames) : frames[i] \in Cameras \X (Nat \ {0})
    BY DEF WorkerOK
  <2> QED BY <2>1 DEF Range
<1>6. FramesRise' /\ Range(frames) \subseteq Range(frames')
      /\ (known \/ Exact(key) => latest[key[1]] = key[2] \/ key \in Range(frames'))
  <2> HIDE DEF known
  <2>1. CASE ~known /\ Exact(key)
    <3>1. frames' = Append(frames, key) BY <1>2, <2>1
    <3>2. /\ DOMAIN frames' = 1 .. Len(frames) + 1
          /\ \A i \in 1 .. Len(frames) : frames'[i] = frames[i]
          /\ frames'[Len(frames) + 1] = key
      <4>1. frames \in Seq(Cameras \X (Nat \ {0})) BY DEF WorkerOK
      <4> QED BY <1>5, <3>1, <4>1
    <3>3. latest[key[1]] < key[2] /\ key[2] <= slot[key[1]]
      <4>1. /\ latest[key[1]] \in Nat /\ latest[key[1]] <= slot[key[1]]
            /\ slot[key[1]] = key[2] /\ latest[key[1]] # key[2]
        BY <1>1, <1>3, <1>4, <2>1 DEF CachesOK, WorkerOK
      <4> QED BY <1>1, <4>1
    <3>4. ASSUME NEW j \in 1 .. Len(frames), frames[j][1] = key[1]
          PROVE  frames[j][2] < key[2]
      <4>1. frames[j][2] <= slot[key[1]] BY <1>5, <3>4 DEF CachesOK, FramesRise
      <4>2. frames[j][2] # key[2] BY <1>1, <1>3, <1>5, <2>1, <3>4
      <4> QED BY <1>1, <1>4, <1>5, <2>1, <4>1, <4>2
    <3>5. FramesRise'
      <4> SUFFICES ASSUME NEW i \in 1 .. Len(frames) + 1
                   PROVE  LET c == frames'[i][1] IN
                          /\ latest'[c] < frames'[i][2] /\ frames'[i][2] <= slot'[c]
                          /\ \A j \in 1 .. i - 1 :
                                frames'[j][1] = c => frames'[j][2] < frames'[i][2]
        BY <3>2 DEF FramesRise
      <4>1. CASE i = Len(frames) + 1
        <5>1. i - 1 = Len(frames) BY <1>5, <4>1
        <5> QED BY <1>2, <3>2, <3>3, <3>4, <4>1, <5>1
      <4>2. CASE i \in 1 .. Len(frames)
        <5>1. \A j \in 1 .. i - 1 : j \in 1 .. Len(frames) BY <1>5, <4>2
        <5>2. /\ latest[frames[i][1]] < frames[i][2]
              /\ frames[i][2] <= slot[frames[i][1]]
              /\ \A j \in 1 .. i - 1 :
                    frames[j][1] = frames[i][1] => frames[j][2] < frames[i][2]
          BY <1>5, <4>2 DEF CachesOK, FramesRise
        <5> QED BY <1>2, <3>2, <4>2, <5>1, <5>2
      <4> QED BY <1>5, <4>1, <4>2
    <3>6. Range(frames) \subseteq Range(frames') /\ key \in Range(frames')
      <4>1. ASSUME NEW x \in Range(frames) PROVE x \in Range(frames')
        <5>1. PICK i \in 1 .. Len(frames) : x = frames[i] BY <1>5 DEF Range
        <5>2. i \in DOMAIN frames' /\ frames'[i] = x BY <1>5, <3>2, <5>1
        <5> QED BY <5>2 DEF Range
      <4>2. Len(frames) + 1 \in DOMAIN frames' BY <1>5, <3>2
      <4> QED BY <3>2, <4>1, <4>2 DEF Range
    <3> QED BY <3>5, <3>6
  <2>2. CASE ~(~known /\ Exact(key))
    <3>1. frames' = frames BY <1>2, <2>2
    <3>2. FramesRise' BY <1>2, <3>1 DEF CachesOK, FramesRise
    <3> QED BY <1>3, <2>2, <3>1, <3>2
  <2> QED BY <2>1, <2>2
<1>7. \A f : Known(f) => Known(f)' BY <1>2, <1>6 DEF Known
<1>8. stale \subseteq stale' /\ (Key(r) \notin stale' => known \/ Exact(key))
  <2> HIDE DEF known
  <2> QED BY <1>2
<1>9. known \/ Exact(key) => Known(key)'
  <2> HIDE DEF known
  <2> QED BY <1>2, <1>6 DEF Known
<1>10. ASSUME pc' \in {"read", "refuse"}, NEW i \in 1 .. Len(batch),
              Key(batch[i]) \notin stale', NEW j \in 1 .. Len(batch[i].items),
              ReadSoFar(i, j)'
       PROVE  Known(batch[i].items[j])'
  <2>1. CASE ReadSoFar(i, j)
    <3>1. Key(batch[i]) \notin stale BY <1>8, <1>10
    <3>2. Known(batch[i].items[j]) BY <1>2, <2>1, <3>1 DEF CachesOK
    <3> QED BY <1>2, <1>7, <3>2 DEF Known
  <2>2. CASE ~ReadSoFar(i, j)
    <3>1. i = at /\ j = item /\ (known \/ Exact(key))
      <4>1. i >= at /\ (i = at => j >= item) /\ item \in Nat /\ j \in Nat
        BY <1>1, <2>2 DEF ReadSoFar
      <4>2. i = at => known \/ Exact(key) BY <1>0, <1>8, <1>10
      <4> HIDE DEF known
      <4>3. CASE more
        <5>1. pc' = "read" /\ at' = at /\ item' = item + 1 /\ (known \/ Exact(key))
          BY <1>2, <4>3
        <5>2. i < at \/ (i = at /\ j < item + 1) BY <1>10, <5>1 DEF ReadSoFar
        <5> QED BY <1>1, <4>1, <5>1, <5>2
      <4>4. CASE ~more
        <5> HIDE DEF more
        <5>1. \/ pc' = "refuse" /\ at = Len(batch)
              \/ pc' = "read" /\ at' = at + 1 /\ item' = 1
          BY <1>2, <4>4
        <5>2. i <= at BY <1>1, <1>10, <5>1 DEF ReadSoFar
        <5>3. i = at /\ (known \/ Exact(key)) BY <1>1, <4>1, <4>2, <5>2
        <5>4. ~(item < Len(r.items)) BY <4>4, <5>3 DEF more
        <5>5. j \in 1 .. Len(r.items) BY <1>0, <5>3
        <5> QED BY <1>1, <4>1, <5>3, <5>4, <5>5
      <4> QED BY <4>3, <4>4
    <3>2. Known(key)' BY <1>9, <3>1
    <3>3. batch[i].items[j] = key BY <1>0, <3>1
    <3> QED BY <1>2, <3>2, <3>3 DEF Known
  <2> QED BY <2>1, <2>2
<1>11. pc' \in {"read", "refuse"} BY <1>2
<1>12. \A c \in Cameras : latest'[c] <= slot'[c] BY <1>2 DEF CachesOK
<1>13. batch' = batch BY <1>2
<1> HIDE DEF known, more
<1> QED BY <1>6, <1>10, <1>11, <1>12, <1>13 DEF CachesOK, Key

\* After the model call the cache holds, of each camera of a request that was read,
\* the frame asked or one copied later in the same batch.
LEMMA CachesOfInfer ==
    ASSUME ConsumersOK, WorkerOK, PositionOK, CachesOK, Infer
    PROVE  CachesOK'
<1>1. pc = "refuse" /\ Stale = {} /\ Continue(0, "reply") /\ slot' = slot
  BY DEF Infer, Continue, slotVars
<1>2. \A c \in Cameras : latest'[c] = Cached(c) BY DEF Infer
<1>3. /\ Len(frames) \in Nat /\ DOMAIN frames = 1 .. Len(frames)
      /\ \A i \in 1 .. Len(frames) : frames[i][1] \in Cameras /\ frames[i][2] \in Nat
  BY DEF WorkerOK
<1>4. \A c \in Cameras : latest[c] \in Nat /\ slot[c] \in Nat /\ latest[c] <= slot[c]
  BY DEF ConsumersOK, WorkerOK, CachesOK
<1>5. ASSUME NEW c \in Cameras
      PROVE  /\ latest'[c] <= slot'[c] /\ latest[c] <= latest'[c] /\ latest'[c] \in Nat
             /\ \A n \in InferKeys : frames[n][1] = c => frames[n][2] <= latest'[c]
  <2> DEFINE mine == {i \in InferKeys : frames[i][1] = c}
  <2>1. mine \subseteq 1 .. Len(frames) BY <1>3 DEF InferKeys
  <2>2. CASE mine = {}
    <3>1. latest'[c] = latest[c] BY <1>2, <2>2, CachedFrame
    <3> QED BY <1>1, <1>4, <2>2, <3>1
  <2>3. CASE mine # {}
    <3>1. PICK m \in mine : Cached(c) = frames[m][2] /\ \A i \in mine : i <= m
      BY <2>3, CachedFrame
    <3>2. m \in 1 .. Len(frames) /\ frames[m][1] = c BY <2>1, <3>1
    <3>3. /\ latest[c] < frames[m][2] /\ frames[m][2] <= slot[c]
          /\ \A j \in 1 .. m - 1 : frames[j][1] = c => frames[j][2] < frames[m][2]
      BY <1>3, <3>2 DEF CachesOK, FramesRise
    <3>4. ASSUME NEW n \in InferKeys, frames[n][1] = c
          PROVE  frames[n][2] <= frames[m][2]
      <4>1. n \in mine /\ n \in 1 .. Len(frames) /\ n <= m BY <1>3, <3>1, <3>4 DEF InferKeys
      <4>2. CASE n = m BY <1>3, <3>2, <4>2
      <4>3. CASE n # m
        <5>1. n \in 1 .. m - 1 BY <3>2, <4>1, <4>3
        <5> QED BY <1>3, <3>2, <3>3, <3>4, <4>1, <5>1
      <4> QED BY <4>2, <4>3
    <3>5. latest'[c] = frames[m][2] BY <1>2, <3>1
    <3> QED BY <1>1, <1>3, <1>4, <3>2, <3>3, <3>4, <3>5
  <2> QED BY <2>2, <2>3
<1>6. ASSUME NEW i \in 1 .. Len(batch), Key(batch[i]) \notin stale,
             NEW j \in 1 .. Len(batch[i].items)
      PROVE  latest'[batch[i].items[j][1]] >= batch[i].items[j][2]
  <2>1. PICK f \in Cameras \X Nat :
           f = batch[i].items[j] /\ f[1] \in Cameras /\ f[2] \in Nat
    BY BatchParts, RequestParts
  <2>2. Known(f) BY <1>1, <1>6, <2>1 DEF CachesOK, ReadSoFar
  <2>3. latest[f[1]] <= latest'[f[1]] /\ latest'[f[1]] \in Nat /\ latest[f[1]] \in Nat
    BY <1>4, <1>5, <2>1
  <2>4. CASE latest[f[1]] = f[2] BY <2>1, <2>3, <2>4
  <2>5. CASE latest[f[1]] # f[2]
    <3>1. PICK n \in 1 .. Len(frames) : frames[n] = f
      BY <1>3, <2>2, <2>5 DEF Known, Range
    <3>2. f \in Needed
      <4>1. f \in ToSet(batch[i].items)
        BY <2>1, BatchParts, RequestParts DEF ToSet
      <4>2. batch[i] \in ToSet(batch) BY BatchParts DEF ToSet
      <4> QED BY <1>6, <2>5, <4>1, <4>2 DEF Needed
    <3>3. n \in InferKeys BY <1>3, <3>1, <3>2 DEF InferKeys
    <3> QED BY <1>5, <2>1, <2>3, <3>1, <3>3
  <2> QED BY <2>4, <2>5
<1>7. frames' = <<>> BY <1>1 DEF Continue
<1>8. FramesRise' BY <1>7 DEF FramesRise
<1>9. pc' = "reply" =>
         /\ batch' = batch
         /\ Valid' = {i \in 1 .. Len(batch) : Key(batch[i]) \notin stale}
  BY <1>1 DEF Continue, Valid, Key
<1>10. pc' \in {"reply", "first"} BY <1>1 DEF Continue
<1> QED BY <1>5, <1>6, <1>8, <1>9, <1>10 DEF CachesOK

LEMMA CachesOfWorker ==
    ASSUME ConsumersOK, WorkerOK, PositionOK, CachesOK, Worker \/ WorkerKilled
    PROVE  CachesOK'
<1>1. slot' = slot BY WorkerLeavesOthers DEF WorkerKilled, Exits, slotVars
<1>2. ASSUME frames' = <<>>, latest' = latest,
             pc' \in {"first", "collect", "fail", "exited"}
      PROVE  CachesOK'
  <2>1. FramesRise' BY <1>2 DEF FramesRise
  <2> QED BY <1>1, <1>2, <2>1 DEF CachesOK
<1>3. CASE TakeFirst \/ TakeMore
  <2>1. frames' = <<>> /\ latest' = latest /\ pc' = "collect"
    BY <1>3 DEF TakeFirst, TakeMore, PositionOK
  <2> QED BY <1>2, <2>1
<1>4. CASE CloseBatch
  <2>1. /\ pc' = "read" /\ at' = 1 /\ item' = 1
        /\ UNCHANGED <<batch, stale, frames, latest>>
    BY <1>4 DEF CloseBatch, PositionOK
  <2>2. \A i \in 1 .. Len(batch) : \A j \in 1 .. Len(batch[i].items) : ~ReadSoFar(i, j)'
    <3>1. ASSUME NEW i \in 1 .. Len(batch), NEW j \in 1 .. Len(batch[i].items)
          PROVE  ~ReadSoFar(i, j)'
      <4>1. i \in Nat /\ j \in Nat /\ i >= 1 /\ j >= 1
        BY BatchParts, RequestParts
      <4> QED BY <2>1, <4>1 DEF ReadSoFar
    <3> QED BY <3>1
  <2>3. FramesRise' BY <1>1, <2>1 DEF CachesOK, FramesRise
  <2> QED BY <1>1, <2>1, <2>2, <2>3 DEF CachesOK
<1>5. CASE ReplyStale
  <2>1. /\ pc = "refuse" /\ pc' = "refuse"
        /\ UNCHANGED <<batch, stale, frames, latest>>
    BY <1>5 DEF ReplyStale
  <2>2. FramesRise' BY <1>1, <2>1 DEF CachesOK, FramesRise
  <2> QED BY <1>1, <2>1, <2>2 DEF CachesOK, ReadSoFar, Known, Key
<1>6. CASE InferFails
  <2>1. frames' = <<>> /\ latest' = latest /\ pc' \in {"first", "fail"}
    BY <1>6 DEF InferFails, Continue
  <2> QED BY <1>2, <2>1
<1>7. CASE ReplyValid
  <2>1. PICK i \in Valid : Continue(i, pc) BY <1>7 DEF ReplyValid
  <2>2. latest' = latest /\ frames' = <<>> BY <1>7, <2>1 DEF ReplyValid, Continue
  <2>3. CASE pc' \in {"first", "fail"} BY <1>2, <2>2, <2>3
  <2>4. CASE pc' \notin {"first", "fail"}
    <3>1. pc = "reply" /\ pc' = "reply" /\ at' = i + 1 /\ batch' = batch /\ stale' = stale
      BY <1>7, <2>1, <2>4 DEF ReplyValid, Continue
    <3>2. i >= at /\ i \in Nat /\ at \in Nat BY BatchParts DEF Valid, WorkerOK
    <3>3. Valid' \subseteq Valid BY <3>1, <3>2, BatchParts DEF Valid, Key
    <3>4. FramesRise' BY <2>2 DEF FramesRise
    <3> QED BY <1>1, <2>2, <3>1, <3>3, <3>4 DEF CachesOK
  <2> QED BY <2>3, <2>4
<1>8. CASE Exit \/ WorkerKilled
  <2>1. /\ pc' = "exited" /\ frames' = <<>> /\ \A c \in Cameras : latest'[c] = 0
    BY <1>8 DEF Exit, WorkerKilled, Exits
  <2>2. FramesRise' BY <2>1 DEF FramesRise
  <2>3. \A c \in Cameras : latest'[c] <= slot'[c] BY <1>1, <2>1 DEF ConsumersOK
  <2> QED BY <2>1, <2>2, <2>3 DEF CachesOK
<1> QED BY <1>3, <1>4, <1>5, <1>6, <1>7, <1>8, CachesOfRead, CachesOfInfer DEF Worker
-----------------------------------------------------------------------------
(* The inductive invariant.                                                *)

SharedInv ==
    /\ ConsumersOK /\ WorkerOK /\ PositionOK
    /\ Accounts /\ Matching /\ CachesOK

LEMMA SharedInvInit == StartRuntime => SharedInv
<1> SUFFICES ASSUME StartRuntime PROVE SharedInv OBVIOUS
<1> USE DEF StartRuntime, Init
<1>1. /\ <<>> \in Seq(Request) /\ <<>> \in Seq(Response) /\ Len(<<>>) = 0
      /\ <<>> \in Seq(Cameras \X (Nat \ {0}))
      /\ Range(<<>>) = {} /\ DOMAIN <<>> = {}
  BY DEF Range
<1>2. ConsumersOK
  <2>1. items \in [Consumers -> Seq(Cameras \X (Nat \ {0}))] BY <1>1
  <2>2. responses \in [Consumers -> Seq(Response)] BY <1>1
  <2>3. slot \in [Cameras -> Nat] OBVIOUS
  <2>4. /\ state \in [Consumers -> {"idle", "waiting", "dead"}]
        /\ id \in [Consumers -> 0 .. 1]
    OBVIOUS
  <2> QED BY <1>1, <2>1, <2>2, <2>3, <2>4 DEF ConsumersOK
<1>3. WorkerOK BY <1>1 DEF WorkerOK
<1>4. PositionOK BY <1>1 DEF PositionOK
<1>5. Unanswered = {} BY DEF Unanswered
<1>6. Accounts
  BY <1>1, <1>5, OfFew DEF Accounts, Taken, Answered, Placed
<1>7. Matching BY <1>1, <1>5 DEF Matching, Open, Honest
<1>8. CachesOK
  <2>1. FramesRise BY <1>1 DEF FramesRise
  <2>2. \A c \in Cameras : latest[c] <= slot[c] OBVIOUS
  <2> QED BY <2>1, <2>2 DEF CachesOK
<1> QED BY <1>2, <1>3, <1>4, <1>6, <1>7, <1>8 DEF SharedInv

\* The steps of the system are steps of the worker, its end, or of the others.
LEMMA SystemSteps ==
    ASSUME [RunSystem]_systemVars
    PROVE  Others \/ Worker \/ WorkerKilled
<1>1. CASE UNCHANGED systemVars BY <1>1 DEF systemVars, Others
<1>2. CASE JoinTimesOut
  <2>1. CASE main = SharedWorker BY <1>2, <2>1 DEF JoinTimesOut
  <2>2. CASE main # SharedWorker
    <3>1. CloseOrder[main] \in Consumers
      BY <1>2, <2>2, CloseOrderNames DEF JoinTimesOut, SharedWorker
    <3> QED BY <1>2, <2>2, <3>1 DEF JoinTimesOut, Others
  <2> QED BY <2>1, <2>2
<1>3. CASE JoinReturns BY <1>3 DEF JoinReturns, Others
<1>4. CASE Serve BY <1>4 DEF Serve, Crash, Others
<1>5. CASE WorkerRuns BY <1>5 DEF WorkerRuns
<1>6. CASE BeginClose BY <1>6 DEF BeginClose, Others
<1>7. CASE \E k \in Consumers : ConsumerEnds(k) BY <1>7 DEF Others
<1> QED BY <1>1, <1>2, <1>3, <1>4, <1>5, <1>6, <1>7 DEF RunSystem, Close

LEMMA TypesOfWorker ==
    ASSUME ConsumersOK, WorkerOK, PositionOK, CachesOK, Worker \/ WorkerKilled
    PROVE  ConsumersOK' /\ WorkerOK' /\ PositionOK'
<1>1. CASE ReadItem BY <1>1, ReadTypes DEF CachesOK
<1> QED BY <1>1, FirstTypes, MoreTypes, CloseTypes, StaleTypes, InferTypes, ValidTypes,
           ExitTypes DEF Worker

LEMMA SharedInvKept ==
    ASSUME SharedInv, Others \/ Worker \/ WorkerKilled
    PROVE  SharedInv'
<1> USE DEF SharedInv
<1>1. CASE Others
  <2>1. ConsumersOK' /\ WorkerOK' BY <1>1, TypeOfOthers
  <2>2. PositionOK' BY <1>1, PositionOfOthers
  <2>3. Accounts' /\ Matching' /\ CachesOK'
    BY <1>1, AccountsOfOthers, MatchingOfOthers, CachesOfOthers
  <2> QED BY <2>1, <2>2, <2>3
<1>2. CASE Worker \/ WorkerKilled
  <2>1. ConsumersOK' /\ WorkerOK' /\ PositionOK' BY <1>2, TypesOfWorker
  <2>2. Accounts'
    BY <1>2, AccountsOfFirst, AccountsOfMore, AccountsOfRead, AccountsOfStale,
       AccountsOfInfer, AccountsOfValid, AccountsOfExit DEF Worker
  <2>3. Matching' /\ CachesOK' BY <1>2, MatchingOfWorker, CachesOfWorker
  <2> QED BY <2>1, <2>2, <2>3
<1> QED BY <1>1, <1>2

\* A set under a tag.
LEMMA Tagged ==
    ASSUME NEW t, NEW S
    PROVE  /\ {t} \X S # {} <=> S # {}
           /\ (\A i, j \in S : i = j) => \A x, y \in {t} \X S : x = y
<1>1. ASSUME NEW i \in S PROVE <<t, i>> \in {t} \X S OBVIOUS
<1>2. ASSUME NEW x \in {t} \X S PROVE x = <<t, x[2]>> /\ x[2] \in S OBVIOUS
<1>3. {t} \X S # {} <=> S # {} BY <1>1, <1>2
<1>4. ASSUME \A i, j \in S : i = j, NEW x \in {t} \X S, NEW y \in {t} \X S
      PROVE  x = y
  BY <1>2, <1>4
<1> QED BY <1>3, <1>4

\* A consumer has one place at most, and one while it waits and the worker lives.
LEMMA PlacesOf ==
    ASSUME SharedInv, NEW k \in Consumers
    PROVE  /\ \A p, q \in Places(k) : p = q
           /\ k \in Placed <=> Places(k) # {}
<1> USE DEF SharedInv
<1>1. /\ DOMAIN batch = 1 .. Len(batch) /\ Unanswered \subseteq DOMAIN batch
  BY BatchParts, TakenParts
<1>2. /\ From(k, requests) # {} <=> k \in Of(requests)
      /\ From(k, pending) # {} <=> k \in Of(pending)
      /\ From(k, batch) \cap Unanswered # {} <=> k \in Taken
  BY <1>1 DEF From, Of, Range, Taken
<1>3. DOMAIN responses[k] # {} <=> k \in Answered
  <2>1. responses[k] \in Seq(Response) BY DEF ConsumersOK
  <2>2. DOMAIN responses[k] = 1 .. Len(responses[k]) /\ Len(responses[k]) \in Nat BY <2>1
  <2>3. responses[k] = <<>> <=> Len(responses[k]) = 0 BY <2>1, EmptySeq
  <2>4. \A n \in Nat : 1 .. n # {} <=> n # 0 OBVIOUS
  <2> QED BY <2>2, <2>3, <2>4 DEF Answered
<1>5. /\ \A i, j \in From(k, requests) : i = j
      /\ \A i, j \in From(k, pending) : i = j
      /\ \A i, j \in From(k, batch) \cap Unanswered : i = j
  BY DEF Accounts, OneEach, From
<1>6. \A i, j \in DOMAIN responses[k] : i = j
  <2>1. responses[k] \in Seq(Response) BY DEF ConsumersOK
  <2>2. DOMAIN responses[k] = 1 .. Len(responses[k]) /\ Len(responses[k]) \in Nat
        /\ Len(responses[k]) <= 1
    BY <2>1 DEF Accounts
  <2> QED BY <2>2
<1> DEFINE A == {"queued"} \X From(k, requests)
           B == {"put off"} \X From(k, pending)
           C == {"taken"} \X (From(k, batch) \cap Unanswered)
           D == {"answered"} \X DOMAIN responses[k]
<1>7. /\ \A x, y \in A : x = y
      /\ A # {} <=> k \in Of(requests)
  BY <1>2, <1>5, Tagged
<1>8. /\ \A x, y \in B : x = y
      /\ B # {} <=> k \in Of(pending)
  BY <1>2, <1>5, Tagged
<1>9. /\ \A x, y \in C : x = y
      /\ C # {} <=> k \in Taken
  BY <1>2, <1>5, Tagged
<1>10. /\ \A x, y \in D : x = y
       /\ D # {} <=> k \in Answered
  BY <1>3, <1>6, Tagged
<1>11. Places(k) = A \cup B \cup C \cup D BY DEF Places
<1> HIDE DEF A, B, C, D
<1>12. k \in Placed <=> Places(k) # {}
  BY <1>7, <1>8, <1>9, <1>10, <1>11 DEF Placed
<1>13. ASSUME NEW p \in Places(k), NEW q \in Places(k) PROVE p = q
  BY <1>7, <1>8, <1>9, <1>10, <1>11 DEF Accounts
<1> QED BY <1>12, <1>13

\* A request is answered once, and every reply found is the one waited for.
LEMMA OneReply == SharedInv => OneReplyPerRequest
<1> SUFFICES ASSUME SharedInv, NEW k \in Consumers
             PROVE  /\ Cardinality(Places(k)) <= 1
                    /\ state[k] = "waiting" /\ pc # "exited" => Places(k) # {}
                    /\ state[k] = "waiting" /\ responses[k] # <<>> =>
                          Head(responses[k]).id = id[k]
  BY DEF OneReplyPerRequest
<1>1. Cardinality(Places(k)) <= 1
  <2>1. CASE Places(k) = {} BY <2>1, FS_EmptySet
  <2>2. CASE Places(k) # {}
    <3>1. PICK p : Places(k) = {p} BY <2>2, PlacesOf
    <3>2. Cardinality({p}) = 1 BY FS_Singleton
    <3> QED BY <3>1, <3>2
  <2> QED BY <2>1, <2>2
<1>2. state[k] = "waiting" /\ pc # "exited" => Places(k) # {}
  BY PlacesOf DEF SharedInv, Accounts
<1>3. state[k] = "waiting" /\ responses[k] # <<>> => Head(responses[k]).id = id[k]
  BY DEF SharedInv, Matching, Honest
<1> QED BY <1>1, <1>2, <1>3

LEMMA PredictionsOfInv == SharedInv => PredictionsAlign
<1> SUFFICES ASSUME SharedInv PROVE PredictionsAlign OBVIOUS
<1>1. \A k \in Consumers : HasPredictions(k) => Aligned(k)
  BY DEF SharedInv, Matching, Honest, HasPredictions
<1>2. FramesRise BY DEF SharedInv, CachesOK
<1> QED BY <1>1, <1>2 DEF PredictionsAlign, Aligned, FramesRise

\* The invariant holds of the whole runtime, its shutdown included.
LEMMA SharedInvHolds == SystemSpec => []SharedInv
<1>1. SharedInv /\ [RunSystem]_systemVars => SharedInv'
  BY SystemSteps, SharedInvKept
<1> QED BY <1>1, SharedInvInit, PTL DEF SystemSpec

\* The variables keep their types; a batch is read within its bounds, and only a request
\* too large by itself makes it exceed batch_size.
THEOREM TypesAreKept == SystemSpec => []TypeOK
<1>1. SharedInv => TypeOK BY TypeParts DEF SharedInv
<1> QED BY <1>1, SharedInvHolds, PTL

\* A request is never answered twice nor, while the worker lives, lost, and the reply a
\* waiting consumer finds is the one to its request: for any number of consumers, any
\* batch size, and any crash, timeout or termination in between.
THEOREM RepliesMatchRequests == SystemSpec => []OneReplyPerRequest
BY OneReply, SharedInvHolds, PTL

\* A reply has one prediction per frame, of its camera and in the order asked, computed
\* from the frame asked or from a newer one that was captured, and the cache never goes
\* back.
THEOREM PredictionsAreAligned == SystemSpec => []PredictionsAlign
BY PredictionsOfInv, SharedInvHolds, PTL
-----------------------------------------------------------------------------
(* Shared detection is transparent, for any filters of the consumers and   *)
(* any output of the model.  Both post-processings choose from the best    *)
(* box on, and that equation has one solution (KeptOnce): of what the      *)
(* shared worker keeps, the boxes that pass a consumer's filter are the    *)
(* ones the consumer would have kept, since a box and the ones that        *)
(* suppress it are of one class, and those have the better score.          *)

\* A detector, and a raw output of the model.
DetectorOK(b) ==
    b \in Binding(Nat, (SUBSET ModelClasses) \cup {AnyClass}, Nat)

RawOK(raw) == raw.classes \in Seq(ModelClasses)

\* What NMS keeps of an output.
KeptEquation(K, raw, config) ==
    /\ K \subseteq DOMAIN raw.classes
    /\ \A i \in DOMAIN raw.classes :
          i \in K <=> /\ Passes(raw, config, i)
                      /\ \A j \in K : j < i => ~Suppresses(raw, j, i)

\* Choosing from the best candidate on comes to an end with some choice.
LEMMA SomeKept ==
    ASSUME NEW raw, RawOK(raw), NEW config
    PROVE  \E K : KeptEquation(K, raw, config)
  <1> DEFINE D == DOMAIN raw.classes
             S == {i \in D : Passes(raw, config, i)}
             R == {p \in D \X D : p[1] < p[2] /\ Suppresses(raw, p[1], p[2])}
  <1>1. PICK n \in Nat : D = 1 .. n
    BY DEF RawOK
  <1>2. IsFiniteSet(S) /\ S \subseteq 0 .. n
    <2>1. IsFiniteSet(1 .. n)
      BY FS_Interval
    <2>2. S \in SUBSET (1 .. n) /\ S \subseteq 0 .. n
      BY <1>1
    <2> HIDE DEF S
    <2> QED BY <2>1, <2>2, FS_Subset
  <1>3. LastOne(S, R)
    <2> SUFFICES ASSUME NEW T \in SUBSET S, T # {}
                 PROVE  \E l \in T : \A q \in T : <<l, q>> \notin R
      BY DEF LastOne
    <2>1. T \subseteq 0 .. n
      BY <1>2
    <2>2. PICK l \in T : \A q \in T : q <= l
      <3> HIDE DEF S
      <3> QED BY <1>1, <2>1, Greatest
    <2>3. \A q \in T : q \in Nat /\ l \in Nat
      BY <2>1
    <2>4. \A q \in T : ~(l < q)
      BY <2>2, <2>3
    <2> QED BY <2>4
  <1>4. PICK K \in SUBSET S : Chosen(K, S, R)
    <2> HIDE DEF S, R
    <2> QED BY <1>2, <1>3, GreedyChoice
  <1>5. KeptEquation(K, raw, config)
    BY <1>4 DEF KeptEquation, Chosen
  <1> QED BY <1>5

\* Only one: the best candidate on which two differ cannot exist.
LEMMA KeptOnce ==
    ASSUME NEW raw, RawOK(raw), NEW config, NEW K, NEW L,
           KeptEquation(K, raw, config), KeptEquation(L, raw, config)
    PROVE  K = L
  <1> DEFINE D == DOMAIN raw.classes
             Odd == {i \in D : (i \in K) # (i \in L)}
  <1>1. PICK n \in Nat : D = 1 .. n
    BY DEF RawOK
  <1>2. SUFFICES ASSUME Odd # {} PROVE FALSE
    BY DEF KeptEquation
  <1>3. PICK i \in Odd : \A j \in Odd : i <= j
    <2>1. Odd \subseteq Nat
      BY <1>1
    <2> HIDE DEF Odd
    <2> QED BY <1>2, <2>1, Least
  <1>4. \A j \in D : j < i => (j \in K <=> j \in L)
    <2>1. i \in Nat /\ \A j \in D : j \in Nat
      BY <1>1, <1>3
    <2> QED BY <1>3, <2>1
  <1>5. K \subseteq D /\ L \subseteq D
    BY DEF KeptEquation
  <1>6. (i \in K) <=> (i \in L)
    BY <1>3, <1>4, <1>5 DEF KeptEquation
  <1> QED BY <1>3, <1>6

\* The recursive function of the model is that choice.
LEMMA KeptIsTheChoice ==
    ASSUME NEW raw, RawOK(raw), NEW config
    PROVE  KeptEquation(Kept(raw, config), raw, config)
  <1> DEFINE D == DOMAIN raw.classes
             Step(f) == [i \in D |->
                            /\ Passes(raw, config, i)
                            /\ \A j \in 1 .. i - 1 : f[j] => ~Suppresses(raw, j, i)]
             kept == CHOOSE f : f = Step(f)
  <1>1. PICK n \in Nat : D = 1 .. n
    BY DEF RawOK
  <1>2. PICK K : KeptEquation(K, raw, config)
    BY SomeKept
  <1>3. \E f : f = Step(f)
    <2> DEFINE g == [i \in D |-> IF i \in K THEN TRUE ELSE FALSE]
    <2>1. ASSUME NEW i \in D
          PROVE  g[i] = (/\ Passes(raw, config, i)
                         /\ \A j \in 1 .. i - 1 : g[j] => ~Suppresses(raw, j, i))
      <3>1. i \in Nat /\ 1 .. i - 1 \subseteq D /\ \A j \in D : j < i <=> j \in 1 .. i - 1
        BY <1>1
      <3>2. \A j \in 1 .. i - 1 : g[j] <=> j \in K
        BY <3>1
      <3>3. K \subseteq D
        BY <1>2 DEF KeptEquation
      <3>4. (\A j \in K : j < i => ~Suppresses(raw, j, i))
              <=> \A j \in 1 .. i - 1 : g[j] => ~Suppresses(raw, j, i)
        BY <3>1, <3>2, <3>3
      <3>5. (i \in K) <=> /\ Passes(raw, config, i)
                          /\ \A j \in K : j < i => ~Suppresses(raw, j, i)
        BY <1>2 DEF KeptEquation
      <3>6. (i \in K => g[i] = TRUE) /\ (i \notin K => g[i] = FALSE)
        OBVIOUS
      <3>7. CASE i \in K
        BY <3>4, <3>5, <3>6, <3>7
      <3>8. CASE i \notin K
        <4>1. ~(/\ Passes(raw, config, i)
                /\ \A j \in 1 .. i - 1 : g[j] => ~Suppresses(raw, j, i))
          BY <3>4, <3>5, <3>8
        <4>2. g[i] = FALSE
          BY <3>6, <3>8
        <4> QED BY <4>1, <4>2
      <3> QED BY <3>7, <3>8
    <2>2. g = Step(g)
      BY <2>1
    <2> HIDE DEF g, Step
    <2> QED BY <2>2
  <1>4. kept = Step(kept)
    <2> HIDE DEF Step
    <2> QED BY <1>3
  <1>5. Kept(raw, config) = {i \in D : kept[i]}
    BY DEF Kept
  <1> HIDE DEF kept
  <1>6. \A i \in D : kept[i] = (/\ Passes(raw, config, i)
                                /\ \A j \in 1 .. i - 1 : kept[j] => ~Suppresses(raw, j, i))
    BY <1>4
  <1>7. ASSUME NEW i \in D
        PROVE  i \in Kept(raw, config) <=>
                  /\ Passes(raw, config, i)
                  /\ \A j \in Kept(raw, config) : j < i => ~Suppresses(raw, j, i)
    <2>1. i \in Nat /\ 1 .. i - 1 \subseteq D /\ \A j \in D : j < i <=> j \in 1 .. i - 1
      BY <1>1
    <2>2. (\A j \in 1 .. i - 1 : kept[j] => ~Suppresses(raw, j, i))
            <=> \A j \in Kept(raw, config) : j < i => ~Suppresses(raw, j, i)
      BY <1>5, <2>1
    <2> QED BY <1>5, <1>6, <2>2
  <1> QED BY <1>5, <1>7 DEF KeptEquation

\* The boxes before the last of the best come with it, and fewer than asked for are
\* all there are.
LEMMA BestAreFirst ==
    ASSUME NEW S, S \subseteq Nat, IsFiniteSet(S), NEW n \in Nat
    PROVE  /\ \A i \in S, j \in Best(n, S) : i < j => i \in Best(n, S)
           /\ Best(n, S) # S => Cardinality(Best(n, S)) = n
  <1> DEFINE Below(i) == {j \in S : j < i}
             B == Best(n, S)
  <1>1. \A i : IsFiniteSet(Below(i)) /\ Cardinality(Below(i)) \in Nat
    <2> TAKE i
    <2>1. Below(i) \in SUBSET S
      OBVIOUS
    <2> HIDE DEF Below
    <2> QED BY <2>1, FS_Subset, FS_CardinalityType
  <1>2. B \subseteq S /\ \A i \in S : i \in B <=> Cardinality(Below(i)) < n
    BY DEF Best
  <1>3. ASSUME NEW i \in S, NEW j \in B, i < j PROVE i \in B
    <2>1. Below(i) \in SUBSET Below(j)
      <3>1. i \in Nat /\ j \in Nat /\ \A x \in S : x \in Nat
        BY <1>2
      <3>2. \A x \in S : x < i => x < j
        BY <1>3, <3>1
      <3> QED BY <3>2
    <2> HIDE DEF Below, B
    <2>2. Cardinality(Below(i)) <= Cardinality(Below(j)) /\ Cardinality(Below(j)) < n
      BY <1>1, <1>2, <2>1, FS_Subset
    <2>3. Cardinality(Below(i)) \in Nat /\ Cardinality(Below(j)) \in Nat
      BY <1>1
    <2>4. Cardinality(Below(i)) < n
      BY <2>2, <2>3
    <2> QED BY <1>2, <2>4
  <1>4. ASSUME B # S PROVE Cardinality(B) = n
    <2>1. PICK u \in S \ B : \A x \in S \ B : u <= x
      <3>1. S \ B \subseteq Nat /\ S \ B # {}
        BY <1>2, <1>4
      <3> HIDE DEF B
      <3> QED BY <3>1, Least
    <2>2. B = Below(u)
      <3>1. \A x \in S : x \in Nat
        OBVIOUS
      <3>2. ASSUME NEW x \in B PROVE x \in Below(u)
        <4>1. x \in S /\ x # u /\ ~(u < x)
          BY <1>2, <1>3, <2>1, <3>2
        <4> HIDE DEF B
        <4> QED BY <2>1, <3>1, <4>1
      <3>3. ASSUME NEW x \in Below(u) PROVE x \in B
        <4>1. x \in S /\ x \in Nat /\ u \in Nat /\ x < u
          BY <2>1, <3>1, <3>3
        <4> HIDE DEF B
        <4> QED BY <2>1, <4>1
      <3> QED BY <3>2, <3>3
    <2> HIDE DEF B
    <2>3. PICK c \in Nat : c = Cardinality(B)
      BY <1>1, <2>2
    <2>4. c >= n
      <3>1. ~(Cardinality(Below(u)) < n)
        BY <1>2, <2>1
      <3> HIDE DEF Below
      <3> QED BY <2>2, <2>3, <3>1
    <2>5. CASE B = {}
      BY <2>3, <2>4, <2>5, FS_EmptySet
    <2>6. CASE B # {}
      <3>1. PICK g \in B : \A x \in B : x <= g
        <4>1. IsFiniteSet(B) /\ B \subseteq Nat
          BY <1>1, <1>2, <2>2
        <4>2. PICK b \in Nat : \A x \in B : x <= b
          BY <4>1, FiniteIsBounded
        <4>3. B \subseteq 0 .. b
          BY <4>1, <4>2
        <4> QED BY <2>6, <4>3, Greatest
      <3>2. B = Below(g) \cup {g} /\ g \notin Below(g)
        <4>1. \A x \in S : x \in Nat
          OBVIOUS
        <4>2. g \in S /\ g \in Nat
          BY <1>2, <3>1
        <4>3. \A x \in B : x \in S /\ x \in Nat /\ x <= g
          BY <1>2, <3>1
        <4>4. \A x \in B : x < g \/ x = g
          BY <4>2, <4>3
        <4>5. \A x \in Below(g) : x \in B
          BY <1>3, <3>1
        <4>6. g \notin Below(g)
          BY <4>2
        <4>7. \A x \in B : x \in Below(g) \cup {g}
          BY <4>3, <4>4
        <4> QED BY <3>1, <4>5, <4>6, <4>7
      <3>3. Cardinality(Below(g)) < n
        BY <1>2, <3>1
      <3> HIDE DEF Below
      <3>4. c = Cardinality(Below(g)) + 1
        BY <1>1, <2>3, <3>2, FS_AddElement
      <3> QED BY <1>1, <2>3, <2>4, <3>3, <3>4
    <2> QED BY <2>5, <2>6
  <1> QED BY <1>3, <1>4

\* The best of all are among the best of a part they belong to.
LEMMA BestOfPart ==
    ASSUME NEW S, S \subseteq Nat, IsFiniteSet(S), NEW n \in Nat,
           NEW T \in SUBSET S, NEW i \in T, i \in Best(n, S)
    PROVE  i \in Best(n, T)
  <1> DEFINE Below(U) == {j \in U : j < i}
  <1>1. Below(T) \in SUBSET Below(S) /\ Below(S) \in SUBSET S
    OBVIOUS
  <1>2. Cardinality(Below(S)) < n
    BY DEF Best
  <1>3. Cardinality(Below(T)) < n
    <2> HIDE DEF Below
    <2>1. IsFiniteSet(Below(S)) /\ IsFiniteSet(Below(T))
      BY <1>1, FS_Subset
    <2>2. Cardinality(Below(T)) <= Cardinality(Below(S))
      BY <1>1, <2>1, FS_Subset
    <2>3. Cardinality(Below(T)) \in Nat /\ Cardinality(Below(S)) \in Nat
      BY <2>1, FS_CardinalityType
    <2> QED BY <1>2, <2>2, <2>3
  <1> QED BY <1>3 DEF Best

\* A shared worker keeps no less than each of its consumers, and as many.
LEMMA MergedIsWeaker ==
    ASSUME NEW bindings \in [1 .. Deployments -> Detectors],
           NEW d \in 1 .. Deployments, Shared(bindings, d),
           NEW m, m = Merged(bindings, Group(bindings, d)),
           NEW raw, RawOK(raw)
    PROVE  /\ m.maxDetections = bindings[d].maxDetections
           /\ \A i \in DOMAIN raw.classes :
                 Passes(raw, bindings[d], i) => Passes(raw, m, i)
  <1> DEFINE G == Group(bindings, d)
             first == Min(G)
             lowest == Min({bindings[e].confidence : e \in G})
  <1>1. \A e \in 1 .. Deployments : DetectorOK(bindings[e])
    BY CoordinationAssumption DEF DetectorOK
  <1>2. DOMAIN bindings = 1 .. Deployments /\ d \in G /\ G \subseteq 1 .. Deployments
    BY DEF Group, Shared
  <1>3. first \in G
    <2> HIDE DEF G
    <2>0. Deployments \in Nat
      BY CoordinationAssumption
    <2>1. G \subseteq Nat /\ G # {}
      BY <1>2, <2>0
    <2>2. \E e \in G : \A f \in G : e <= f
      BY <2>1, Least
    <2> QED BY <2>2 DEF Min
  <1>4. lowest \in Nat /\ \A e \in G : lowest <= bindings[e].confidence
    <2> DEFINE C == {bindings[e].confidence : e \in G}
    <2>1. \A e \in G : bindings[e].confidence \in Nat
      BY <1>1, <1>2 DEF DetectorOK, Binding
    <2>2. C \subseteq Nat /\ C # {}
      BY <1>2, <2>1
    <2> HIDE DEF C
    <2>3. \E c \in C : \A f \in C : c <= f
      BY <2>2, Least
    <2>4. Min(C) \in C /\ \A c \in C : Min(C) <= c
      BY <2>3 DEF Min
    <2>5. \A e \in G : bindings[e].confidence \in C
      BY DEF C
    <2> QED BY <2>2, <2>4, <2>5 DEF C
  <1>5. bindings[first].maxDetections = bindings[d].maxDetections
    <2>1. ModelSpec(bindings[first]) = ModelSpec(bindings[d])
      BY <1>3 DEF Group
    <2>2. ModelSpec(bindings[d]) # NoSpec /\ ModelSpec(bindings[first]) # NoSpec
      BY <2>1 DEF Shared, Shareable
    <2> HIDE DEF G, first
    <2> QED BY <2>1, <2>2 DEF ModelSpec
  <1>6. /\ m.maxDetections = bindings[first].maxDetections
        /\ m.confidence = lowest
        /\ m.classes = IF \E e \in G : bindings[e].classes = AnyClass THEN AnyClass
                       ELSE UNION {bindings[e].classes : e \in G}
    <2>1. first \in 1 .. Deployments
      BY <1>2, <1>3
    <2>2. DetectorOK(bindings[first])
      BY <1>1, <2>1
    <2>3. PICK b : b = bindings[first] /\ DetectorOK(b)
      BY <2>2
    <2>4. m = [b EXCEPT !.confidence = lowest,
                        !.classes = IF \E e \in G : bindings[e].classes = AnyClass
                                    THEN AnyClass
                                    ELSE UNION {bindings[e].classes : e \in G}]
      BY <2>3 DEF Merged
    <2> HIDE DEF G, first, lowest
    <2> QED BY <2>3, <2>4 DEF DetectorOK, Binding
  <1>7. ASSUME NEW i \in DOMAIN raw.classes, Passes(raw, bindings[d], i)
        PROVE  Passes(raw, m, i)
    <2>1. Score(raw, i) \in Int
      BY DEF RawOK, Score
    <2>2. bindings[d].confidence \in Nat
      BY <1>1 DEF DetectorOK, Binding
    <2>3. Score(raw, i) >= m.confidence
      <3>1. /\ Score(raw, i) >= bindings[d].confidence
            /\ m.confidence <= bindings[d].confidence
        BY <1>2, <1>4, <1>6, <1>7 DEF Passes
      <3>2. m.confidence \in Nat
        BY <1>4, <1>6
      <3> QED BY <2>1, <2>2, <3>1, <3>2
    <2>4. m.classes = AnyClass \/ raw.classes[i] \in m.classes
      <3> HIDE DEF G, first, lowest
      <3>1. CASE \E e \in G : bindings[e].classes = AnyClass
        BY <1>6, <3>1
      <3>2. CASE ~ \E e \in G : bindings[e].classes = AnyClass
        <4>1. raw.classes[i] \in bindings[d].classes
          BY <1>2, <1>7, <3>2 DEF Passes
        <4> QED BY <1>2, <1>6, <3>2, <4>1
      <3> QED BY <3>1, <3>2
    <2> QED BY <2>3, <2>4 DEF Passes
  <1> QED BY <1>5, <1>6, <1>7

\* A consumer of a shared worker gets what a detector of its own would find, but for
\* the last boxes when others used up the limit.
LEMMA SharedIsTransparent ==
    ASSUME NEW bindings \in [1 .. Deployments -> Detectors], NEW raw, RawOK(raw)
    PROVE  SharingIsTransparentFor(raw, bindings)
  <1> SUFFICES ASSUME NEW d \in 1 .. Deployments
               PROVE  LET got == Detections(raw, bindings, d)
                          own == Prediction(raw, bindings[d])
                          all == Prediction(raw, Backend(bindings, d))
                      IN  /\ got \subseteq own
                          /\ \A i \in own, j \in got : i < j => i \in got
                          /\ got = own \/ Cardinality(all) = bindings[d].maxDetections
    BY DEF SharingIsTransparentFor
  <1>1. PICK config : config = bindings[d] /\ config \in Detectors
    OBVIOUS
  <1>2. PICK max \in Nat : max = config.maxDetections
    <2>1. DetectorOK(config)
      BY <1>1, CoordinationAssumption DEF DetectorOK
    <2> QED BY <2>1 DEF DetectorOK, Binding
  <1>3. PICK T : T = Kept(raw, config) /\ KeptEquation(T, raw, config)
    BY KeptIsTheChoice
  <1>4. PICK n \in Nat : DOMAIN raw.classes = 1 .. n
    BY DEF RawOK
  <1>5. Prediction(raw, config) = Best(max, T)
    BY <1>2, <1>3 DEF Prediction
  <1>6. CASE ~Shared(bindings, d)
    <2>1. Backend(bindings, d) = config
      BY <1>1, <1>6 DEF Backend
    <2>2. Detections(raw, bindings, d) = Prediction(raw, config)
      BY <1>6, <2>1 DEF Detections
    <2> QED BY <1>1, <2>2
  <1>7. CASE Shared(bindings, d)
    <2>1. PICK m : m = Merged(bindings, Group(bindings, d))
      OBVIOUS
    <2>2. /\ m.maxDetections = max
          /\ \A i \in 1 .. n : Passes(raw, config, i) => Passes(raw, m, i)
      BY <1>1, <1>2, <1>4, <1>7, <2>1, MergedIsWeaker
    <2>3. PICK S : S = Kept(raw, m) /\ KeptEquation(S, raw, m)
      BY KeptIsTheChoice
    <2>4. S \subseteq 1 .. n /\ S \subseteq Nat /\ IsFiniteSet(S)
      <3>1. S \in SUBSET (1 .. n)
        BY <1>4, <2>3 DEF KeptEquation
      <3>2. IsFiniteSet(1 .. n)
        BY FS_Interval
      <3>3. IsFiniteSet(S)
        BY <3>1, <3>2, FS_Subset
      <3> QED BY <3>1, <3>3
    <2>5. T = {i \in S : Passes(raw, config, i)}
      <3> DEFINE L == {i \in S : Passes(raw, config, i)}
      <3>1. ASSUME NEW i \in 1 .. n, NEW j \in 1 .. n, Passes(raw, config, i),
                   j < i, Suppresses(raw, j, i)
            PROVE  Passes(raw, config, j)
        <4>1. raw.classes[j] = raw.classes[i]
          BY <3>1 DEF Suppresses
        <4>2. /\ Score(raw, j) >= Score(raw, i)
              /\ Score(raw, j) \in Int /\ Score(raw, i) \in Int
          <5>1. Len(raw.classes) \in Nat
            BY DEF RawOK
          <5> QED BY <3>1, <5>1 DEF Score
        <4>3. config.confidence \in Nat
          BY <1>1, CoordinationAssumption DEF Binding
        <4>4. Score(raw, j) >= config.confidence
          BY <3>1, <4>2, <4>3 DEF Passes
        <4> QED BY <3>1, <4>1, <4>4 DEF Passes
      <3>2. ASSUME NEW i \in 1 .. n
            PROVE  i \in L <=> /\ Passes(raw, config, i)
                               /\ \A j \in L : j < i => ~Suppresses(raw, j, i)
        <4>1. i \in S <=> /\ Passes(raw, m, i)
                          /\ \A j \in S : j < i => ~Suppresses(raw, j, i)
          BY <1>4, <2>3 DEF KeptEquation
        <4>2. CASE ~Passes(raw, config, i)
          BY <4>2
        <4>3. CASE Passes(raw, config, i)
          <5>1. (\A j \in S : j < i => ~Suppresses(raw, j, i))
                  <=> \A j \in L : j < i => ~Suppresses(raw, j, i)
            BY <2>4, <3>1, <4>3
          <5> QED BY <2>2, <4>1, <4>3, <5>1
        <4> QED BY <4>2, <4>3
      <3>3. KeptEquation(L, raw, config)
        <4>1. L \subseteq 1 .. n
          BY <2>4
        <4> HIDE DEF L
        <4> QED BY <1>4, <3>2, <4>1 DEF KeptEquation
      <3> HIDE DEF L
      <3>4. L = T
        BY <1>3, <3>3, KeptOnce
      <3> QED BY <3>4 DEF L
    <2>6. PICK all : all = Best(max, S)
      OBVIOUS
    <2>7. PICK own : own = Best(max, T)
      OBVIOUS
    <2>8. PICK got : got = {i \in all : Passes(raw, config, i)}
      OBVIOUS
    <2>9. Prediction(raw, Backend(bindings, d)) = all
      BY <1>7, <2>1, <2>2, <2>3, <2>6 DEF Backend, Prediction
    <2>10. Detections(raw, bindings, d) = got
      BY <1>1, <1>7, <2>8, <2>9 DEF Detections
    <2>11. all \subseteq S /\ own \subseteq T /\ got = all \cap T
      BY <2>5, <2>6, <2>7, <2>8 DEF Best
    <2>12. got \subseteq own
      BY <2>4, <2>5, <2>6, <2>7, <2>11, BestOfPart
    <2>13. /\ \A i \in S, j \in all : i < j => i \in all
           /\ all # S => Cardinality(all) = max
      BY <2>4, <2>6, BestAreFirst
    <2>14. \A i \in own, j \in got : i < j => i \in got
      BY <2>5, <2>11, <2>13
    <2>15. got = own \/ Cardinality(all) = max
      <3>1. all = S => T \subseteq got
        BY <2>5, <2>11
      <3> QED BY <2>11, <2>12, <2>13, <3>1
    <2> QED BY <1>1, <1>2, <1>5, <2>7, <2>9, <2>10, <2>12, <2>14, <2>15
  <1> QED BY <1>6, <1>7

\* Sharing a worker changes nothing for its consumers, for any detectors of the
\* deployments and any output of the model.
THEOREM SharingIsTransparent == FiltersCommute
  <1> SUFFICES ASSUME NEW bindings \in [1 .. Deployments -> Detectors], NEW raw \in Outputs
               PROVE  SharingIsTransparentFor(raw, bindings)
    BY DEF FiltersCommute
  <1>1. RawOK(raw)
    BY CoordinationAssumption DEF RawOK
  <1> QED BY <1>1, SharedIsTransparent
=============================================================================
