-------------------------- MODULE MonitoringProofs --------------------------
(***************************************************************************)
(* Proofs about what a viewer is shown: about OutputRenderer and           *)
(* Monitoring, for any render modes, alignment delay, buffer size and      *)
(* timing of the threads; and about the results that the pictures are      *)
(* drawn with, ObjectDetection and its ObjectTracker, for any classes,     *)
(* overlaps, numbers of detections and capacity of the shared buffers.     *)
(*                                                                         *)
(* The raw buffer holds consecutive frames up to the last one buffered     *)
(* (Run), and starts with the first frame of all, with one that was due,   *)
(* or is full; time stamps never go back (Timeline).  A result that the    *)
(* renderer cached is buffered until the picture passes its frame or newer *)
(* results have filled the buffer (Results).  The invariants of the        *)
(* results are stated with their proofs, at the end.                       *)
(***************************************************************************)
EXTENDS Monitoring, ObjectDetection, DataLemmas, FiniteSetTheorems, TLAPS

Types ==
    /\ mode \in Modes /\ now \in Nat /\ slot \in Nat /\ buffered \in Nat
    /\ buffered <= slot
    /\ taken \in Seq(Nat) /\ Len(taken) = slot
    /\ raws \in Seq(Nat)
    /\ inference \in 0 .. slot /\ prediction \in Nat /\ result \in Nat
    /\ picked \in 0 .. slot
    /\ rnow \in 0 .. now
    /\ shown \in [raw : Nat, boxes : Nat]

Timeline ==
    /\ \A i \in 1 .. slot : taken[i] <= now
    /\ \A i, j \in 1 .. slot : i <= j => taken[i] <= taken[j]

\* The first frame in the raw buffer.
First == buffered - Len(raws) + 1

Run ==
    mode = "delayed_matched" =>
        /\ slot <= buffered + 1
        /\ Len(raws) <= buffered /\ Len(raws) <= BufferSize
        /\ buffered > 0 => Len(raws) > 0
        /\ \A i \in 1 .. Len(raws) : raws[i] = First + i - 1
        /\ First = 1 \/ Len(raws) = BufferSize \/ Due(First)
        /\ shown.raw <= First

\* What the other modes have shown, and what they are about to show.
Latest ==
    mode # "delayed_matched" =>
        /\ pc # "cache"
        /\ pc = "render" => picked > 0
        /\ shown.boxes = 0 \/ mode = "latest_predictions" =>
              shown.raw <= slot /\ (pc = "render" => shown.raw <= picked)
        /\ shown.boxes # 0 /\ mode = "inference_only" =>
              shown.raw = shown.boxes /\ shown.raw <= inference

IInv == Types /\ Timeline /\ Run /\ Latest
-----------------------------------------------------------------------------
(* Buffers.                                                                *)

\* A deque that grows by one frame keeps its last frames.
LEMMA PushIs ==
    ASSUME NEW s \in Seq(Nat), NEW x \in Nat, Len(s) <= BufferSize
    PROVE  LET n == Len(s) p == Push(s, x) IN
           /\ p \in Seq(Nat)
           /\ n < BufferSize => /\ Len(p) = n + 1 /\ p[n + 1] = x
                                /\ \A i \in 1 .. n : p[i] = s[i]
           /\ n = BufferSize => /\ Len(p) = n /\ p[n] = x
                                /\ \A i \in 1 .. n - 1 : p[i] = s[i + 1]
<1>1. BufferSize \in Nat /\ BufferSize >= 2 BY RendererAssumption
<1>2. CASE Len(s) < BufferSize BY <1>1, <1>2 DEF Push
<1>3. CASE Len(s) = BufferSize
  <2> DEFINE t == Tail(s)
  <2>1. /\ t \in Seq(Nat) /\ Len(t) = Len(s) - 1
        /\ \A i \in 1 .. Len(s) - 1 : t[i] = s[i + 1]
    BY <1>1, <1>3
  <2> HIDE DEF t
  <2>2. Push(s, x) = Append(t, x) BY <1>1, <1>3 DEF Push, t
  <2> QED BY <1>1, <1>3, <2>1, <2>2
<1> QED BY <1>1, <1>2, <1>3

\* The buffer after its first frames were dropped.
LEMMA SubSeqIs ==
    ASSUME NEW s \in Seq(Nat), NEW i \in 1 .. Len(s)
    PROVE  LET p == SubSeq(s, i, Len(s)) IN
           /\ p \in Seq(Nat) /\ Len(p) = Len(s) - i + 1
           /\ \A j \in 1 .. Len(p) : p[j] = s[i + j - 1]
OBVIOUS

\* A step of RenderDelayed, by the frame it stops at.
LEMMA RenderDelayedIs ==
    ASSUME Types, Run, RenderDelayed
    PROVE  \/ UNCHANGED <<raws, shown>>
           \/ \E i \in 1 .. Len(raws) :
                 /\ NewestDue(i)
                 /\ raws' = SubSeq(raws, i, Len(raws))
                 /\ raws[i] = First + i - 1
                 /\ IF Due(raws[i])
                    THEN /\ shown'.raw = raws[i] /\ shown'.boxes \in {0, raws[i]}
                         /\ shown' \in [raw : Nat, boxes : Nat]
                    ELSE shown' = shown
<1>1. CASE raws = <<>> BY <1>1 DEF RenderDelayed
<1>2. CASE raws # <<>>
  <2>1. PICK i \in 1 .. Len(raws) : NewestDue(i) /\ ShowDelayed(i)
    BY <1>2 DEF RenderDelayed
  <2>2. raws[i] = First + i - 1 /\ raws[i] \in Nat
    <3>1. mode = "delayed_matched" BY DEF RenderDelayed
    <3>2. raws[i] = First + i - 1 BY <3>1 DEF Run
    <3>3. raws \in Seq(Nat) BY DEF Types
    <3>4. raws[i] \in Nat BY <3>3
    <3> QED BY <3>2, <3>4
  <2>3. BoxesFor(infers', raws[i]) \in {0, raws[i]} BY DEF BoxesFor
  <2>4. raws' = SubSeq(raws, i, Len(raws)) BY <2>1 DEF ShowDelayed
  <2>5. CASE Due(raws[i])
    <3>1. shown' = [raw |-> raws[i], boxes |-> BoxesFor(infers', raws[i])]
      BY <2>1, <2>5 DEF ShowDelayed
    <3>2. /\ shown'.raw = raws[i] /\ shown'.boxes \in {0, raws[i]}
          /\ shown' \in [raw : Nat, boxes : Nat]
      BY <2>2, <2>3, <3>1
    <3> QED BY <2>1, <2>2, <2>4, <2>5, <3>2
  <2>6. CASE ~Due(raws[i])
    <3>1. shown' = shown BY <2>1, <2>6 DEF ShowDelayed
    <3> QED BY <2>1, <2>2, <2>4, <2>6, <3>1
  <2> QED BY <2>5, <2>6
<1> QED BY <1>1, <1>2
-----------------------------------------------------------------------------
(* Types and time.                                                         *)

LEMMA TypesInit == Init => Types
<1> SUFFICES ASSUME Init PROVE Types
  OBVIOUS
<1>1. Blank \in [raw : Nat, boxes : Nat] BY DEF Blank
<1>2. <<>> \in Seq(Nat) /\ Len(<<>>) = 0 OBVIOUS
<1> QED BY <1>1, <1>2 DEF Init, Types

LEMMA TypesKept ==
    ASSUME Types, Run, [Next]_vars
    PROVE  Types'
<1> USE DEF Types
<1>1. CASE Tick BY <1>1 DEF Tick, cameraVars, workerVars
<1>2. CASE Capture
  <2>1. taken' \in Seq(Nat) /\ Len(taken') = slot + 1 /\ slot' = slot + 1
    BY <1>2 DEF Capture
  <2>2. UNCHANGED <<mode, now, buffered, raws, inference, result, prediction,
                    rnow, picked, shown>>
    BY <1>2 DEF Capture, workerVars
  <2> QED BY <2>1, <2>2
<1>3. CASE BufferRaw
  <2>1. raws' \in Seq(Nat)
    BY <1>3, PushIs DEF BufferRaw, Run
  <2>2. /\ buffered' = slot
        /\ UNCHANGED <<mode, now, slot, taken, inference, result, prediction,
                       rnow, picked, shown>>
    BY <1>3 DEF BufferRaw, workerVars
  <2> QED BY <2>1, <2>2
<1>4. ASSUME NEW n \in Frames, WriteInference(n) PROVE Types'
  <2>1. n \in 0 .. slot /\ n \in Nat
    BY <1>4, RendererAssumption DEF WriteInference, Frames
  <2> QED BY <1>4, <2>1 DEF WriteInference, cameraVars
<1>5. CASE PublishResult BY <1>5 DEF PublishResult, cameraVars
<1>6. CASE StartRender BY <1>6 DEF StartRender, cameraVars, workerVars
<1>7. CASE CacheInference BY <1>7 DEF CacheInference, cameraVars, workerVars
<1>8. CASE PickRaw BY <1>8 DEF PickRaw, cameraVars, workerVars
<1>9. CASE RenderDelayed
  <2>1. raws' \in Seq(Nat) /\ shown' \in [raw : Nat, boxes : Nat]
    BY <1>9, RenderDelayedIs, SubSeqIs
  <2> QED BY <1>9, <2>1 DEF RenderDelayed, cameraVars, workerVars
<1>10. CASE RenderInferenceOnly
  <2>1. shown' \in [raw : Nat, boxes : Nat]
    BY <1>10 DEF RenderInferenceOnly
  <2> QED BY <1>10, <2>1 DEF RenderInferenceOnly, cameraVars, workerVars
<1>11. CASE RenderLatest
  <2>1. shown' \in [raw : Nat, boxes : Nat] BY <1>11 DEF RenderLatest
  <2> QED BY <1>11, <2>1 DEF RenderLatest, cameraVars, workerVars
<1>12. CASE UNCHANGED vars BY <1>12 DEF vars, cameraVars, workerVars
<1> QED BY <1>1, <1>2, <1>3, <1>4, <1>5, <1>6, <1>7, <1>8, <1>9, <1>10, <1>11,
           <1>12 DEF Next, Render

\* What a step other than a capture leaves alone, and what a capture adds.
LEMMA TakenIs ==
    ASSUME Types, [Next]_vars
    PROVE  /\ now' \in {now, now + 1}
           /\ \/ slot' = slot /\ taken' = taken
              \/ slot' = slot + 1 /\ taken' = Append(taken, now) /\ now' = now
<1>1. CASE Capture BY <1>1 DEF Capture
<1>2. CASE Tick BY <1>2 DEF Tick, cameraVars
<1>3. CASE BufferRaw \/ PublishResult \/ StartRender \/ CacheInference \/ PickRaw
  BY <1>3 DEF BufferRaw, PublishResult, StartRender, CacheInference, PickRaw,
              cameraVars
<1>4. CASE \E n \in Frames : WriteInference(n)
  BY <1>4 DEF WriteInference, cameraVars
<1>5. CASE Render
  BY <1>5 DEF Render, RenderDelayed, RenderInferenceOnly, RenderLatest, cameraVars
<1>6. CASE UNCHANGED vars BY <1>6 DEF vars, cameraVars
<1> QED BY <1>1, <1>2, <1>3, <1>4, <1>5, <1>6 DEF Next

LEMMA TimelineKept ==
    ASSUME Types, Timeline, [Next]_vars
    PROVE  Timeline'
<1>1. now \in Nat /\ slot \in Nat /\ taken \in Seq(Nat) /\ Len(taken) = slot
  BY DEF Types
<1>2. \A i \in 1 .. slot : taken[i] \in Nat BY <1>1
<1>3. now' \in Nat /\ now <= now' BY <1>1, TakenIs
<1>4. CASE slot' = slot /\ taken' = taken
  <2>1. \A i \in 1 .. slot' : taken'[i] <= now'
    BY <1>1, <1>2, <1>3, <1>4 DEF Timeline
  <2> QED BY <1>4, <2>1 DEF Timeline
<1>5. CASE slot' = slot + 1 /\ taken' = Append(taken, now) /\ now' = now
  <2>1. /\ \A i \in 1 .. slot : taken'[i] = taken[i]
        /\ taken'[slot + 1] = now
    BY <1>1, <1>5
  <2>2. 1 .. slot' = (1 .. slot) \cup {slot + 1} BY <1>1, <1>5
  <2>3. \A i \in 1 .. slot' : taken'[i] <= now'
    BY <1>1, <1>5, <2>1, <2>2 DEF Timeline
  <2>4. ASSUME NEW i \in 1 .. slot', NEW j \in 1 .. slot', i <= j
        PROVE  taken'[i] <= taken'[j]
    <3>1. CASE j = slot + 1 BY <1>5, <2>1, <2>3, <3>1
    <3>2. CASE j \in 1 .. slot
      <4>1. i \in 1 .. slot BY <1>1, <1>5, <2>4, <3>2
      <4> QED BY <2>1, <2>4, <3>2, <4>1 DEF Timeline
    <3> QED BY <2>2, <3>1, <3>2
  <2> QED BY <2>3, <2>4 DEF Timeline
<1> QED BY <1>4, <1>5, TakenIs
-----------------------------------------------------------------------------
(* What is buffered and what is shown.                                     *)

\* A frame that is due stays due.
LEMMA DueStays ==
    ASSUME Types, [Next]_vars, NEW n \in 1 .. slot, Due(n)
    PROVE  Due(n)'
<1>1. rnow \in Nat /\ now \in Nat /\ rnow <= now /\ slot \in Nat
  BY DEF Types
<1>2. rnow' \in {rnow, now}
  <2>1. CASE StartRender BY <2>1 DEF StartRender
  <2>2. CASE Tick \/ Capture \/ BufferRaw \/ PublishResult
    BY <2>2 DEF Tick, Capture, BufferRaw, PublishResult
  <2>3. CASE \E m \in Frames : WriteInference(m) BY <2>3 DEF WriteInference
  <2>4. CASE CacheInference \/ PickRaw \/ Render
    BY <2>4 DEF CacheInference, PickRaw, Render, RenderDelayed,
               RenderInferenceOnly, RenderLatest
  <2>5. CASE UNCHANGED vars BY <2>5 DEF vars
  <2> QED BY <2>1, <2>2, <2>3, <2>4, <2>5 DEF Next
<1>3. taken'[n] = taken[n]
  <2>1. taken \in Seq(Nat) /\ Len(taken) = slot BY DEF Types
  <2> QED BY <2>1, TakenIs
<1>4. taken[n] \in Nat /\ Delay \in Nat
  BY RendererAssumption DEF Types
<1> QED BY <1>1, <1>2, <1>3, <1>4 DEF Due

\* Steps that leave the buffer, the camera and the picture alone.
LEMMA RunUntouched ==
    ASSUME Types, Run, [Next]_vars, UNCHANGED <<mode, slot, buffered, raws, shown>>
    PROVE  Run'
<1>1. First' = First BY DEF First
<1>2. SUFFICES ASSUME mode = "delayed_matched" PROVE Run'
  BY DEF Run
<1>3. CASE First \in 1 .. slot
  BY <1>1, <1>2, <1>3, DueStays DEF Run
<1>4. CASE First \notin 1 .. slot
  <2>1. /\ buffered \in Nat /\ slot \in Nat /\ buffered <= slot
        /\ Len(raws) \in Nat /\ Len(raws) <= buffered
        /\ buffered > 0 => Len(raws) > 0
    BY <1>2 DEF Types, Run
  <2>2. First = 1 BY <1>4, <2>1 DEF First
  <2> QED BY <1>1, <1>2, <2>2 DEF Run
<1> QED BY <1>3, <1>4

\* The callback of the camera thread appends the next frame, and drops the first one
\* if the buffer is full.
LEMMA BufferKeepsRun ==
    ASSUME Types, Run, BufferRaw, mode = "delayed_matched"
    PROVE  Run'
<1> DEFINE n == Len(raws)
<1>1. /\ buffered \in Nat /\ slot \in Nat /\ raws \in Seq(Nat) /\ n \in Nat
      /\ BufferSize \in Nat /\ BufferSize >= 2
  BY RendererAssumption DEF Types
<1>2. slot = buffered + 1 /\ buffered' = slot /\ slot' = slot /\ mode' = mode
      /\ raws' = Push(raws, slot) /\ shown' = shown
  BY <1>1 DEF BufferRaw, Run
<1>3. /\ n <= buffered /\ n <= BufferSize /\ (buffered > 0 => n > 0)
      /\ \A i \in 1 .. n : raws[i] = buffered - n + i
      /\ First = buffered - n + 1 /\ shown.raw <= First /\ shown.raw \in Nat
      /\ First = 1 \/ n = BufferSize \/ Due(First)
  <2>1. \A i \in 1 .. n : raws[i] = First + i - 1 BY DEF Run
  <2>2. First = buffered - n + 1 BY DEF First
  <2> QED BY <1>1, <2>1, <2>2 DEF Run, Types
<1>4. CASE n < BufferSize
  <2>1. /\ Len(raws') = n + 1 /\ raws'[n + 1] = slot
        /\ \A i \in 1 .. n : raws'[i] = raws[i]
    BY <1>1, <1>2, <1>3, <1>4, PushIs
  <2>2. First' = First
    <3>1. First' = buffered' - Len(raws') + 1 BY DEF First
    <3>2. slot = buffered + 1 /\ buffered' = slot BY <1>2
    <3> QED BY <1>1, <1>3, <2>1, <3>1, <3>2
  <2>3. \A i \in 1 .. Len(raws') : raws'[i] = First' + i - 1
    <3> SUFFICES ASSUME NEW i \in 1 .. n + 1 PROVE raws'[i] = First + i - 1
      BY <2>1, <2>2
    <3>1. CASE i \in 1 .. n BY <1>1, <1>3, <2>1, <3>1
    <3>2. CASE i = n + 1 BY <1>1, <1>2, <1>3, <2>1, <3>2
    <3> QED BY <1>1, <3>1, <3>2
  <2>4. Due(First) => Due(First)'
    BY <1>2, <2>2 DEF BufferRaw, Due
  <2>5. First' = 1 \/ Due(First)' BY <1>3, <1>4, <2>2, <2>4
  <2>6. /\ slot' <= buffered' + 1 /\ Len(raws') <= buffered'
        /\ Len(raws') <= BufferSize /\ Len(raws') > 0
    BY <1>1, <1>2, <1>3, <1>4, <2>1
  <2>7. shown'.raw <= First' BY <1>2, <1>3, <2>2
  <2> QED BY <2>3, <2>5, <2>6, <2>7 DEF Run
<1>5. CASE n = BufferSize
  <2>1. /\ Len(raws') = n /\ raws'[n] = slot
        /\ \A i \in 1 .. n - 1 : raws'[i] = raws[i + 1]
    BY <1>1, <1>2, <1>3, <1>5, PushIs
  <2>2. First' = First + 1
    <3>1. First' = buffered' - Len(raws') + 1 BY DEF First
    <3>2. slot = buffered + 1 /\ buffered' = slot BY <1>2
    <3> QED BY <1>1, <1>3, <2>1, <3>1, <3>2
  <2>3. \A i \in 1 .. Len(raws') : raws'[i] = First' + i - 1
    <3> SUFFICES ASSUME NEW i \in 1 .. n PROVE raws'[i] = First + i
      BY <1>1, <1>3, <2>1, <2>2
    <3>1. CASE i \in 1 .. n - 1 BY <1>1, <1>3, <2>1, <3>1
    <3>2. CASE i = n BY <1>1, <1>2, <1>3, <2>1, <3>2
    <3> QED BY <1>1, <3>1, <3>2
  <2>4. /\ slot' <= buffered' + 1 /\ Len(raws') <= buffered'
        /\ Len(raws') <= BufferSize /\ Len(raws') > 0 /\ Len(raws') = BufferSize
        /\ shown'.raw <= First'
    BY <1>1, <1>2, <1>3, <1>5, <2>1, <2>2
  <2> QED BY <2>3, <2>4 DEF Run
<1> QED BY <1>1, <1>3, <1>4, <1>5

\* The renderer drops frames up to one that is due.
LEMMA RenderKeepsRun ==
    ASSUME Types, Run, [Next]_vars, RenderDelayed
    PROVE  Run'
<1>1. UNCHANGED <<mode, slot, taken, buffered, rnow>> /\ mode = "delayed_matched"
  BY DEF RenderDelayed, cameraVars
<1>2. CASE UNCHANGED <<raws, shown>> BY <1>1, <1>2, RunUntouched
<1>3. ASSUME NEW i \in 1 .. Len(raws), NewestDue(i), raws[i] = First + i - 1,
             raws' = SubSeq(raws, i, Len(raws)),
             IF Due(raws[i]) THEN shown'.raw = raws[i] ELSE shown' = shown
      PROVE  Run'
  <2> DEFINE n == Len(raws)
  <2>1. /\ buffered \in Nat /\ slot \in Nat /\ raws \in Seq(Nat) /\ n \in Nat
        /\ shown.raw \in Nat /\ BufferSize \in Nat
    BY RendererAssumption DEF Types
  <2>2. /\ slot <= buffered + 1 /\ n <= buffered /\ n <= BufferSize
        /\ \A j \in 1 .. n : raws[j] = First + j - 1
        /\ First = buffered - n + 1 /\ shown.raw <= First
        /\ First = 1 \/ n = BufferSize \/ Due(First)
    BY <1>1 DEF Run, First
  <2>3. /\ Len(raws') = n - i + 1
        /\ \A j \in 1 .. Len(raws') : raws'[j] = raws[i + j - 1]
    BY <1>3, <2>1, SubSeqIs
  <2>4. First' = First + i - 1 BY <1>1, <2>1, <2>2, <2>3 DEF First
  <2>5. \A j \in 1 .. Len(raws') : raws'[j] = First' + j - 1
    <3> SUFFICES ASSUME NEW j \in 1 .. n - i + 1 PROVE raws'[j] = First + i - 1 + j - 1
      BY <2>3, <2>4
    <3>1. i + j - 1 \in 1 .. n /\ raws'[j] = raws[i + j - 1] BY <2>1, <2>3
    <3> QED BY <2>1, <2>2, <3>1
  <2>6. /\ slot' <= buffered' + 1 /\ Len(raws') <= buffered'
        /\ Len(raws') <= BufferSize /\ Len(raws') > 0
    BY <1>1, <2>1, <2>2, <2>3
  <2>7. shown'.raw <= First'
    <3>1. CASE Due(raws[i]) BY <1>3, <2>1, <2>2, <2>4, <3>1
    <3>2. CASE ~Due(raws[i])
      <4>1. shown' = shown BY <1>3, <3>2
      <4> QED BY <2>1, <2>2, <2>4, <4>1
    <3> QED BY <3>1, <3>2
  <2>8. First' = 1 \/ Len(raws') = BufferSize \/ Due(First)'
    <3>1. Due(First') => Due(First)' BY <1>1 DEF Due
    <3>2. CASE i = 1 BY <2>1, <2>2, <2>3, <2>4, <3>1, <3>2
    <3>3. CASE i # 1
      <4>1. Due(raws[i]) BY <1>3, <3>3 DEF NewestDue
      <4> QED BY <1>3, <2>4, <3>1, <4>1
    <3> QED BY <3>2, <3>3
  <2> QED BY <2>5, <2>6, <2>7, <2>8 DEF Run
<1> QED BY <1>2, <1>3, RenderDelayedIs

LEMMA RunKept ==
    ASSUME Types, Run, [Next]_vars
    PROVE  Run'
<1>1. CASE mode' # "delayed_matched" BY <1>1 DEF Run
<1>2. CASE Capture
  <2>1. /\ slot' = slot + 1 /\ slot = buffered /\ First' = First
        /\ UNCHANGED <<mode, buffered, raws, rnow, shown>>
    BY <1>2 DEF Capture, First
  <2>2. buffered \in Nat /\ slot \in Nat /\ Len(raws) \in Nat BY DEF Types
  <2>3. SUFFICES ASSUME mode = "delayed_matched" PROVE Run'
    BY <2>1 DEF Run
  <2>4. Len(raws) <= buffered /\ (buffered > 0 => Len(raws) > 0)
    BY <2>3 DEF Run
  <2>5. First = 1 \/ First \in 1 .. slot BY <2>1, <2>2, <2>4 DEF First
  <2>6. Due(First) => First = 1 \/ Due(First)' BY <2>1, <2>5, DueStays
  <2> QED BY <2>1, <2>2, <2>3, <2>6 DEF Run
<1>3. CASE BufferRaw /\ mode = "delayed_matched" BY <1>3, BufferKeepsRun
<1>4. CASE RenderDelayed BY <1>4, RenderKeepsRun
<1>5. CASE Tick \/ PublishResult \/ StartRender \/ CacheInference \/ PickRaw
  BY <1>5, RunUntouched
     DEF Tick, PublishResult, StartRender, CacheInference, PickRaw, cameraVars
<1>6. CASE \E n \in Frames : WriteInference(n)
  BY <1>6, RunUntouched DEF WriteInference, cameraVars
<1>7. CASE UNCHANGED vars BY <1>7, RunUntouched DEF vars, cameraVars
<1>8. CASE RenderInferenceOnly \/ RenderLatest \/ (BufferRaw /\ mode # "delayed_matched")
  BY <1>1, <1>8 DEF RenderInferenceOnly, RenderLatest, BufferRaw
<1> QED BY <1>1, <1>2, <1>3, <1>4, <1>5, <1>6, <1>7, <1>8 DEF Next, Render

\* The picture of the other modes follows the raw slot, or the results.
LEMMA LatestKept ==
    ASSUME Types, Latest, [Next]_vars
    PROVE  Latest'
<1>1. CASE mode = "delayed_matched"
  <2>1. mode' = mode
    BY DEF Next, Tick, Capture, BufferRaw, WriteInference, PublishResult,
           StartRender, CacheInference, PickRaw, Render, RenderDelayed,
           RenderInferenceOnly, RenderLatest, vars
  <2> QED BY <1>1, <2>1 DEF Latest
<1>t. slot \in Nat /\ shown.raw \in Nat /\ picked \in Nat /\ inference \in Nat
  BY DEF Types
<1>2. CASE UNCHANGED <<mode, picked, shown, pc>> /\ slot <= slot'
           /\ inference <= inference' /\ slot' \in Nat /\ inference' \in Nat
  BY <1>2, <1>t DEF Latest
<1>3. CASE Tick \/ Capture \/ BufferRaw \/ PublishResult \/ UNCHANGED vars
  BY <1>2, <1>3, <1>t
     DEF Tick, Capture, BufferRaw, PublishResult, vars, cameraVars, workerVars
<1>4. CASE \E n \in Frames : WriteInference(n)
  <2>1. inference <= inference' /\ inference' \in Nat
    BY <1>4, <1>t, RendererAssumption DEF WriteInference, Frames
  <2> QED BY <1>2, <1>4, <1>t, <2>1 DEF WriteInference, cameraVars
<1>5. CASE mode # "delayed_matched" /\ StartRender
  BY <1>5 DEF StartRender, Latest, cameraVars, workerVars
<1>6. CASE mode # "delayed_matched" /\ PickRaw
  BY <1>6, <1>t DEF PickRaw, Latest, cameraVars, workerVars
<1>7. CASE RenderInferenceOnly
  <2>1. /\ pc = "render" /\ pc' = "wait" /\ mode = "inference_only" /\ mode' = mode
        /\ UNCHANGED <<slot, inference>>
    BY <1>7 DEF RenderInferenceOnly, cameraVars, workerVars
  <2>2. CASE inference # 0
    <3>1. shown'.raw = inference /\ shown'.boxes = inference
      BY <1>7, <2>2 DEF RenderInferenceOnly
    <3> QED BY <1>t, <2>1, <2>2, <3>1 DEF Latest
  <2>3. CASE inference = 0
    <3>1. shown'.raw = picked /\ shown'.boxes = 0
      BY <1>7, <2>3 DEF RenderInferenceOnly
    <3> QED BY <1>t, <2>1, <3>1 DEF Latest, Types
  <2> QED BY <2>2, <2>3
<1>8. CASE RenderLatest
  <2>1. /\ pc' = "wait" /\ mode = "latest_predictions" /\ mode' = mode
        /\ slot' = slot /\ shown'.raw = picked
    BY <1>8 DEF RenderLatest, cameraVars
  <2> QED BY <1>t, <2>1 DEF Latest, Types
<1>9. CASE mode # "delayed_matched" /\ CacheInference
  BY <1>9 DEF CacheInference, Latest
<1>10. CASE mode # "delayed_matched" /\ RenderDelayed BY <1>10 DEF RenderDelayed
<1> QED BY <1>1, <1>3, <1>4, <1>5, <1>6, <1>7, <1>8, <1>9, <1>10
        DEF Next, Render
-----------------------------------------------------------------------------
(* Theorems about the renderer.                                            *)

LEMMA Invariance == Spec => []IInv
<1>1. Init => IInv
  <2> SUFFICES ASSUME Init PROVE IInv
    OBVIOUS
  <2>1. Types BY TypesInit
  <2>2. Timeline BY DEF Init, Timeline
  <2>3. Run BY RendererAssumption DEF Init, Run, First, Blank
  <2>4. Latest BY DEF Init, Latest, Blank
  <2> QED BY <2>1, <2>2, <2>3, <2>4 DEF IInv
<1>2. IInv /\ [Next]_vars => IInv'
  BY TypesKept, TimelineKept, RunKept, LatestKept DEF IInv
<1> QED BY <1>1, <1>2, PTL DEF Spec

\* The frames due are the first ones, up to the newest due one.
LEMMA DueFramesAre ==
    ASSUME Types, Timeline, NEW n \in 1 .. buffered, Due(n),
           n < buffered => ~Due(n + 1)
    PROVE  DueFrames = 1 .. n
<1>1. /\ buffered \in Nat /\ slot \in Nat /\ buffered <= slot /\ rnow \in Nat
      /\ Delay \in Nat /\ taken \in Seq(Nat) /\ Len(taken) = slot
  BY RendererAssumption DEF Types
<1>2. \A i \in 1 .. slot : taken[i] \in Nat BY <1>1
<1>3. ASSUME NEW i \in 1 .. buffered, NEW j \in 1 .. buffered, i <= j, Due(j)
      PROVE  Due(i)
  <2>1. i \in 1 .. slot /\ j \in 1 .. slot BY <1>1
  <2>2. taken[i] <= taken[j] BY <1>3, <2>1 DEF Timeline
  <2> QED BY <1>1, <1>2, <1>3, <2>1, <2>2 DEF Due
<1>4. \A i \in 1 .. n : i \in 1 .. buffered /\ Due(i) BY <1>1, <1>3
<1>5. ASSUME NEW i \in 1 .. buffered, Due(i), ~(i <= n) PROVE FALSE
  <2>1. n + 1 \in 1 .. buffered /\ n + 1 <= i /\ n < buffered BY <1>1, <1>5
  <2>2. Due(n + 1) BY <1>3, <1>5, <2>1
  <2> QED BY <2>1, <2>2
<1> QED BY <1>4, <1>5 DEF DueFrames

\* The interval of the frames after n.
LEMMA RestSize ==
    ASSUME NEW m \in Nat, NEW n \in 0 .. m
    PROVE  /\ IsFiniteSet((n + 1) .. m) /\ Cardinality((n + 1) .. m) = m - n
           /\ Cardinality(1 .. n) = n
<1>1. /\ IsFiniteSet((n + 1) .. m)
      /\ Cardinality((n + 1) .. m) = IF n + 1 > m THEN 0 ELSE m - (n + 1) + 1
  BY FS_Interval
<1>2. Cardinality(1 .. n) = IF 1 > n THEN 0 ELSE n - 1 + 1 BY FS_Interval
<1> QED BY <1>1, <1>2

\* The timeline is played exactly, Delay behind the clock: if the buffer is long
\* enough for the frames that arrived since, the picture is the newest due one.
LEMMA PlaysStep ==
    ASSUME IInv, [Next]_vars, RenderDelayed, DueFrames # {},
           Cardinality((1 .. buffered) \ DueFrames) < BufferSize
    PROVE  shown'.raw = Cardinality(DueFrames)
<1>1. /\ buffered \in Nat /\ slot \in Nat /\ buffered <= slot /\ rnow \in Nat
      /\ Delay \in Nat /\ BufferSize \in Nat /\ BufferSize >= 2
      /\ raws \in Seq(Nat) /\ Len(raws) \in Nat
  BY RendererAssumption DEF IInv, Types
<1>2. /\ Len(raws) <= buffered /\ Len(raws) <= BufferSize
      /\ (buffered > 0 => Len(raws) > 0)
      /\ \A i \in 1 .. Len(raws) : raws[i] = First + i - 1
      /\ First = 1 \/ Len(raws) = BufferSize \/ Due(First)
  BY DEF IInv, Run, RenderDelayed
<1>3. buffered > 0 /\ Len(raws) > 0 /\ First \in 1 .. buffered
      /\ First = buffered - Len(raws) + 1
  <2>1. buffered > 0 BY <1>1 DEF DueFrames
  <2> QED BY <1>1, <1>2, <2>1 DEF First
<1>4. ASSUME NEW i \in 1 .. buffered, NEW j \in 1 .. buffered, i <= j, Due(j)
      PROVE  Due(i)
  <2>1. i \in 1 .. slot /\ j \in 1 .. slot BY <1>1
  <2>2. taken[i] <= taken[j] BY <1>4, <2>1 DEF IInv, Timeline
  <2>3. taken[i] \in Nat /\ taken[j] \in Nat BY <2>1 DEF IInv, Types
  <2> QED BY <1>1, <1>4, <2>2, <2>3 DEF Due
<1>5. Due(First)
  <2>1. CASE First = 1
    <3>1. PICK n \in 1 .. buffered : Due(n) BY DEF DueFrames
    <3> QED BY <1>1, <1>3, <1>4, <2>1, <3>1
  <2>2. CASE Len(raws) = BufferSize /\ ~Due(First)
    <3> DEFINE rest == (1 .. buffered) \ DueFrames
               tail == (First - 1 + 1) .. buffered
    <3>1. ASSUME NEW n \in tail PROVE n \in rest
      <4>1. n \in 1 .. buffered /\ First <= n BY <1>1, <1>3
      <4>2. ~Due(n) BY <1>3, <1>4, <2>2, <4>1
      <4> QED BY <4>1, <4>2 DEF DueFrames
    <3>2. Cardinality(tail) = buffered - (First - 1)
      <4>1. First - 1 \in 0 .. buffered BY <1>1, <1>3
      <4> QED BY <1>1, <4>1, RestSize
    <3>3. IsFiniteSet(rest) /\ rest \in SUBSET (1 .. buffered)
      <4>1. IsFiniteSet(1 .. buffered) BY <1>1, FS_Interval
      <4> QED BY <4>1, FS_Subset
    <3> HIDE DEF rest, tail
    <3>4. tail \in SUBSET rest BY <3>1
    <3>5. Cardinality(tail) <= Cardinality(rest) BY <3>3, <3>4, FS_Subset
    <3>6. Cardinality(tail) = BufferSize BY <1>1, <1>3, <2>2, <3>2
    <3>7. Cardinality(rest) \in Nat BY <3>3, FS_CardinalityType
    <3>8. Cardinality(rest) < BufferSize BY DEF rest
    <3> QED BY <1>1, <3>5, <3>6, <3>7, <3>8
  <2> QED BY <1>2, <2>1, <2>2
<1>6. raws # <<>> BY <1>3
<1>7. PICK i \in 1 .. Len(raws) : NewestDue(i) /\ ShowDelayed(i)
  BY <1>6 DEF RenderDelayed
<1>8. raws[i] = First + i - 1 /\ raws[i] \in 1 .. buffered
  BY <1>1, <1>2, <1>3
<1>9. Due(raws[i])
  <2>1. CASE i = 1 BY <1>5, <1>8, <1>3, <2>1
  <2>2. CASE i # 1 BY <1>7, <2>2 DEF NewestDue
  <2> QED BY <2>1, <2>2
<1>10. raws[i] < buffered => ~Due(raws[i] + 1)
  <2> SUFFICES ASSUME raws[i] < buffered PROVE ~Due(raws[i] + 1)
    OBVIOUS
  <2>1. i < Len(raws) BY <1>1, <1>3, <1>8
  <2>2. raws[i + 1] = raws[i] + 1 BY <1>1, <1>2, <1>3, <1>8, <2>1
  <2>3. ~Due(raws[i + 1]) BY <1>7, <2>1 DEF NewestDue
  <2> QED BY <2>2, <2>3
<1>11. DueFrames = 1 .. raws[i] BY <1>8, <1>9, <1>10, DueFramesAre DEF IInv
<1>12. Cardinality(DueFrames) = raws[i] BY <1>1, <1>8, <1>11, RestSize
<1>13. shown' = [raw |-> raws[i], boxes |-> BoxesFor(infers', raws[i])]
  BY <1>7, <1>9 DEF ShowDelayed
<1> QED BY <1>12, <1>13

\* delayed_matched shows exactly the newest frame that is due, however large the delay
\* and the buffer, if the buffer holds the frames that arrived since.
THEOREM TimelineIsPlayed == Spec => PlaysTimeline
<1>1. IInv /\ [Next]_vars =>
        [RenderDelayed /\ DueFrames # {}
           /\ Cardinality((1 .. buffered) \ DueFrames) < BufferSize
         => shown'.raw = Cardinality(DueFrames)]_vars
  BY PlaysStep
<1> QED BY <1>1, Invariance, PTL DEF Spec, PlaysTimeline
-----------------------------------------------------------------------------
(* Results.                                                                *)

\* The results that came after that of frame m.
NewerResults(m) == {k \in ready : k > m}

\* Results are buffered in the order of their frames, and one that is no longer
\* buffered belongs to a frame the picture has passed or was pushed out by newer ones.
Results ==
    /\ infers \in Seq(Nat) /\ Len(infers) <= BufferSize
    /\ cached \in 0 .. inference /\ ready \subseteq 1 .. cached
    /\ mode # "delayed_matched" => ready = {}
    /\ \A i \in 1 .. Len(infers) : infers[i] \in ready
    /\ \A i, j \in 1 .. Len(infers) : i < j => infers[i] < infers[j]
    /\ \A m \in ready \ ToSet(infers) :
          m < shown.raw \/ BufferSize <= Cardinality(NewerResults(m))

\* Steps of other threads at most bring a newer result.
LEMMA ResultsUntouched ==
    ASSUME Types, Results, UNCHANGED <<mode, infers, cached, ready, shown>>,
           inference' \in Nat, inference <= inference'
    PROVE  Results'
<1>1. cached \in 0 .. inference' BY DEF Types, Results
<1>2. \A m \in ready : NewerResults(m)' = NewerResults(m) BY DEF NewerResults
<1> QED BY <1>1, <1>2 DEF Results

\* There are finitely many results, and no fewer after one more.
LEMMA NewerSize ==
    ASSUME Types, Results, NEW m \in Nat, NEW n \in Nat
    PROVE  /\ Cardinality(NewerResults(m)) \in Nat
           /\ LET more == {k \in ready \cup {n} : k > m} IN
              /\ IsFiniteSet(more) /\ Cardinality(more) \in Nat
              /\ Cardinality(NewerResults(m)) <= Cardinality(more)
<1> DEFINE more == {k \in ready \cup {n} : k > m}
<1>1. IsFiniteSet(ready)
  <2>1. IsFiniteSet(1 .. cached) /\ ready \in SUBSET (1 .. cached)
    <3>1. cached \in Nat BY DEF Types, Results
    <3> QED BY <3>1, FS_Interval DEF Results
  <2> QED BY <2>1, FS_Subset
<1>2. IsFiniteSet(ready \cup {n}) BY <1>1, FS_AddElement
<1>3. IsFiniteSet(more)
  <2>1. more \in SUBSET (ready \cup {n}) OBVIOUS
  <2> QED BY <1>2, <2>1, FS_Subset
<1>4. NewerResults(m) \in SUBSET more BY DEF NewerResults
<1> HIDE DEF more
<1>5. /\ IsFiniteSet(NewerResults(m))
      /\ Cardinality(NewerResults(m)) <= Cardinality(more)
  BY <1>3, <1>4, FS_Subset
<1>6. Cardinality(NewerResults(m)) \in Nat /\ Cardinality(more) \in Nat
  BY <1>3, <1>5, FS_CardinalityType
<1> QED BY <1>3, <1>5, <1>6 DEF more

\* A new result goes to the end of the buffer; if it pushes one out, the buffer holds
\* as many newer ones as it can.
LEMMA CacheKeepsResults ==
    ASSUME Types, Results, Latest, CacheInference
    PROVE  Results'
<1> DEFINE n == Len(infers)
<1>1. /\ infers \in Seq(Nat) /\ n \in Nat /\ n <= BufferSize
      /\ BufferSize \in Nat /\ BufferSize >= 2
      /\ inference \in Nat /\ cached \in 0 .. inference /\ ready \subseteq 1 .. cached
      /\ UNCHANGED <<mode, inference, shown>> /\ mode = "delayed_matched"
  BY RendererAssumption
     DEF Types, Results, Latest, CacheInference, workerVars
<1>2. CASE inference \in {0, cached}
  <2>1. UNCHANGED <<infers, cached, ready>> BY <1>2 DEF CacheInference
  <2> QED BY <1>1, <2>1, ResultsUntouched
<1>3. CASE inference \notin {0, cached}
  <2>1. /\ infers' = Push(infers, inference) /\ cached' = inference
        /\ ready' = ready \cup {inference} /\ inference > cached
    BY <1>1, <1>3 DEF CacheInference
  <2>2. \A i \in 1 .. n : infers[i] \in ready /\ infers[i] \in Nat
          /\ infers[i] < inference
    <3>1. \A i \in 1 .. n : infers[i] \in ready BY DEF Results
    <3> QED BY <1>1, <2>1, <3>1
  <2>3. \A i, j \in 1 .. n : i < j => infers[i] < infers[j] BY DEF Results
  <2>4. \A m \in ready' : NewerResults(m)' = {k \in ready \cup {inference} : k > m}
    BY <2>1 DEF NewerResults
  <2>5. \A m \in ready \ ToSet(infers) :
           m < shown.raw \/ BufferSize <= Cardinality(NewerResults(m)')
    <3> SUFFICES ASSUME NEW m \in ready \ ToSet(infers), ~(m < shown.raw)
                 PROVE  BufferSize <= Cardinality(NewerResults(m)')
      OBVIOUS
    <3>1. m \in Nat /\ m \in ready' BY <1>1, <2>1
    <3>2. /\ Cardinality(NewerResults(m)) \in Nat
          /\ Cardinality(NewerResults(m)') \in Nat
          /\ Cardinality(NewerResults(m)) <= Cardinality(NewerResults(m)')
      BY <1>1, <2>4, <3>1, NewerSize
    <3>3. BufferSize <= Cardinality(NewerResults(m)) BY DEF Results
    <3> QED BY <1>1, <3>2, <3>3
  <2>6. cached' \in 0 .. inference' /\ ready' \subseteq 1 .. cached'
    BY <1>1, <1>3, <2>1
  <2>7. CASE n < BufferSize
    <3>1. /\ infers' \in Seq(Nat) /\ Len(infers') = n + 1
          /\ infers'[n + 1] = inference /\ \A i \in 1 .. n : infers'[i] = infers[i]
      BY <1>1, <2>1, <2>7, PushIs
    <3>2. 1 .. n + 1 = (1 .. n) \cup {n + 1} BY <1>1
    <3>3. \A i \in 1 .. n + 1 : infers'[i] \in ready' BY <2>1, <2>2, <3>1, <3>2
    <3>4. \A i, j \in 1 .. n + 1 : i < j => infers'[i] < infers'[j]
      <4> SUFFICES ASSUME NEW i \in 1 .. n + 1, NEW j \in 1 .. n + 1, i < j
                   PROVE  infers'[i] < infers'[j]
        OBVIOUS
      <4>1. i \in 1 .. n BY <1>1
      <4>2. CASE j \in 1 .. n BY <2>3, <3>1, <4>1, <4>2
      <4>3. CASE j = n + 1 BY <2>2, <3>1, <4>1, <4>3
      <4> QED BY <3>2, <4>2, <4>3
    <3>5. ready' \ ToSet(infers') \subseteq ready \ ToSet(infers)
      <4>1. DOMAIN infers' = 1 .. n + 1 /\ DOMAIN infers = 1 .. n BY <1>1, <3>1
      <4>2. n + 1 \in 1 .. n + 1 BY <1>1
      <4>3. inference \in ToSet(infers') BY <3>1, <4>1, <4>2 DEF ToSet
      <4>4. ToSet(infers) \subseteq ToSet(infers')
        BY <3>1, <3>2, <4>1 DEF ToSet
      <4> QED BY <2>1, <4>3, <4>4
    <3>6. \A m \in ready' \ ToSet(infers') :
             m < shown'.raw \/ BufferSize <= Cardinality(NewerResults(m)')
      BY <1>1, <2>5, <3>5
    <3>7. Len(infers') <= BufferSize BY <1>1, <2>7, <3>1
    <3> QED BY <1>1, <2>6, <3>1, <3>3, <3>4, <3>6, <3>7 DEF Results, NewerResults
  <2>8. CASE n = BufferSize
    <3>1. /\ infers' \in Seq(Nat) /\ Len(infers') = n /\ infers'[n] = inference
          /\ \A i \in 1 .. n - 1 : infers'[i] = infers[i + 1]
      BY <1>1, <2>1, <2>8, PushIs
    <3>2. 1 .. n = (1 .. n - 1) \cup {n} /\ 1 .. n = {1} \cup {i + 1 : i \in 1 .. n - 1}
      <4>1. 1 .. n = (1 .. n - 1) \cup {n} BY <1>1, <2>8
      <4>2. ASSUME NEW i \in 1 .. n, i # 1 PROVE i \in {k + 1 : k \in 1 .. n - 1}
        <5>1. i - 1 \in 1 .. n - 1 /\ i = (i - 1) + 1 BY <1>1, <4>2
        <5> QED BY <5>1
      <4>3. 1 \in 1 .. n /\ \A k \in 1 .. n - 1 : k + 1 \in 1 .. n BY <1>1, <2>8
      <4> QED BY <4>1, <4>2, <4>3
    <3>3. \A i \in 1 .. n - 1 : i \in 1 .. n /\ i + 1 \in 1 .. n BY <1>1
    <3>4. \A i \in 1 .. n : infers'[i] \in ready'
      BY <2>1, <2>2, <3>1, <3>2, <3>3
    <3>5. \A i, j \in 1 .. n : i < j => infers'[i] < infers'[j]
      <4> SUFFICES ASSUME NEW i \in 1 .. n, NEW j \in 1 .. n, i < j
                   PROVE  infers'[i] < infers'[j]
        OBVIOUS
      <4>1. i \in 1 .. n - 1 BY <1>1
      <4>2. CASE j \in 1 .. n - 1
        <5>1. i + 1 < j + 1 BY <1>1
        <5> QED BY <2>3, <3>1, <3>3, <4>1, <4>2, <5>1
      <4>3. CASE j = n BY <2>2, <3>1, <3>3, <4>1, <4>3
      <4> QED BY <3>2, <4>2, <4>3
    <3>o. PICK x : x = infers[1] OBVIOUS
    <3>6. \A m \in ready' \ ToSet(infers') : m = x \/ m \in ready \ ToSet(infers)
      <4>1. DOMAIN infers' = 1 .. n /\ DOMAIN infers = 1 .. n BY <1>1, <3>1
      <4>2. n \in 1 .. n BY <1>1, <2>8
      <4>3. inference \in ToSet(infers') BY <3>1, <4>1, <4>2 DEF ToSet
      <4>4. \A i \in 1 .. n - 1 : infers[i + 1] \in ToSet(infers')
        BY <3>1, <3>3, <4>1 DEF ToSet
      <4>5. \A m \in ToSet(infers) : m = infers[1] \/ m \in ToSet(infers')
        BY <3>2, <4>1, <4>4 DEF ToSet
      <4> QED BY <2>1, <3>o, <4>3, <4>5
    <3>7. BufferSize <= Cardinality(NewerResults(x)')
      <4> DEFINE newer == NewerResults(x)'
      <4>1. 1 \in 1 .. n BY <1>1, <2>8
      <4>2. x \in ready' /\ x \in Nat BY <2>1, <2>2, <3>o, <4>1
      <4>3. newer = {k \in ready \cup {inference} : k > x} BY <2>4, <4>2
      <4>4. IsFiniteSet(newer) /\ Cardinality(newer) \in Nat
        BY <1>1, <4>2, <4>3, NewerSize
      <4>5. \A i \in 1 .. n : infers'[i] \in newer
        <5> SUFFICES ASSUME NEW i \in 1 .. n PROVE infers'[i] > x
          BY <2>1, <3>4, <4>3
        <5>1. CASE i \in 1 .. n - 1
          <6>1. 1 < i + 1 BY <5>1
          <6>2. infers[1] < infers[i + 1] BY <2>3, <3>3, <4>1, <5>1, <6>1
          <6> QED BY <2>2, <3>o, <3>1, <3>3, <4>1, <5>1, <6>2
        <5>2. CASE i = n BY <1>1, <2>2, <3>o, <3>1, <4>1, <5>2
        <5> QED BY <3>2, <5>1, <5>2
      <4> HIDE DEF newer
      <4>6. infers' \in [1 .. n -> newer]
        <5>1. infers' = [i \in 1 .. n |-> infers'[i]] BY <1>1, <3>1
        <5> QED BY <4>5, <5>1
      <4>7. \A i, j \in 1 .. n : infers'[i] = infers'[j] => i = j
        <5>1. \A i \in 1 .. n : infers'[i] \in Nat BY <3>1
        <5>2. \A i, j \in 1 .. n : i < j \/ i = j \/ j < i BY <1>1
        <5> QED BY <3>5, <5>1, <5>2
      <4>8. infers' \in Injection(1 .. n, newer)
        BY <4>6, <4>7 DEF Injection, IsInjective
      <4>9. Cardinality(1 .. n) <= Cardinality(newer) BY <4>4, <4>8, FS_Injection
      <4>10. Cardinality(1 .. n) = n BY <1>1, RestSize
      <4> QED BY <1>1, <2>8, <4>4, <4>9, <4>10 DEF newer
    <3>8. \A m \in ready' \ ToSet(infers') :
             m < shown'.raw \/ BufferSize <= Cardinality(NewerResults(m)')
      BY <1>1, <2>5, <3>6, <3>7
    <3> QED BY <1>1, <2>6, <2>8, <3>1, <3>4, <3>5, <3>8 DEF Results, NewerResults
  <2> QED BY <1>1, <2>7, <2>8
<1> QED BY <1>2, <1>3

\* The buffer of results after its first ones were dropped, perhaps all of them.
LEMMA ResultsLeftAre ==
    ASSUME NEW s \in Seq(Nat), NEW j \in 1 .. Len(s) + 1
    PROVE  LET p == SubSeq(s, j, Len(s)) IN
           /\ p \in Seq(Nat) /\ Len(p) = Len(s) - j + 1
           /\ \A k \in 1 .. Len(p) : p[k] = s[j + k - 1]
           /\ \A k \in j .. Len(s) : s[k] \in ToSet(p)
<1> DEFINE p == SubSeq(s, j, Len(s))
<1>1. /\ p \in Seq(Nat) /\ Len(p) = Len(s) - j + 1
      /\ \A k \in 1 .. Len(p) : p[k] = s[j + k - 1]
  OBVIOUS
<1>2. DOMAIN p = 1 .. Len(p) BY <1>1
<1> HIDE DEF p
<1>3. ASSUME NEW k \in j .. Len(s) PROVE s[k] \in ToSet(p)
  <2>1. k - j + 1 \in 1 .. Len(p) /\ j + (k - j + 1) - 1 = k BY <1>1
  <2>2. p[k - j + 1] = s[k] BY <1>1, <2>1
  <2> QED BY <1>2, <2>1, <2>2 DEF ToSet
<1> QED BY <1>1, <1>3 DEF p

\* A step of RenderDelayed that shows another picture, by the results it drops.
LEMMA DelayedShows ==
    ASSUME Types, Run, RenderDelayed
    PROVE  \/ UNCHANGED <<infers, shown>>
           \/ \E n \in Nat : \E j \in 1 .. Len(infers) + 1 :
                 /\ n \in 1 .. slot /\ shown.raw <= n /\ shown'.raw = n
                 /\ OldestKept(j, n)
                 /\ infers' = SubSeq(infers, j, Len(infers))
                 /\ shown' = [raw |-> n, boxes |-> BoxesFor(infers', n)]
<1>1. CASE raws = <<>> BY <1>1 DEF RenderDelayed
<1>2. CASE raws # <<>>
  <2>1. PICK i \in 1 .. Len(raws) : NewestDue(i) /\ ShowDelayed(i)
    BY <1>2 DEF RenderDelayed
  <2>2. /\ mode = "delayed_matched" /\ raws[i] = First + i - 1
        /\ shown.raw <= First /\ Len(raws) <= buffered /\ Len(raws) \in Nat
        /\ buffered \in Nat /\ buffered <= slot /\ slot \in Nat /\ shown.raw \in Nat
    BY DEF RenderDelayed, Run, Types
  <2>3. raws[i] \in 1 .. slot /\ shown.raw <= raws[i] BY <2>2 DEF First
  <2>4. CASE Due(raws[i])
    <3>1. PICK j \in 1 .. Len(infers) + 1 :
             /\ OldestKept(j, raws[i])
             /\ infers' = SubSeq(infers, j, Len(infers))
             /\ shown' = [raw |-> raws[i], boxes |-> BoxesFor(infers', raws[i])]
      BY <2>1, <2>4 DEF ShowDelayed
    <3>2. raws[i] \in Nat /\ shown'.raw = raws[i] BY <2>3, <3>1
    <3> QED BY <2>3, <3>1, <3>2
  <2>5. CASE ~Due(raws[i]) BY <2>1, <2>5 DEF ShowDelayed
  <2> QED BY <2>4, <2>5
<1> QED BY <1>1, <1>2

\* Only results of frames the picture passes are dropped.
LEMMA RenderKeepsResults ==
    ASSUME Types, Run, Results, RenderDelayed
    PROVE  Results'
<1>1. UNCHANGED <<mode, cached, ready, inference>> /\ inference \in Nat
  BY DEF RenderDelayed, workerVars, Types
<1>2. CASE UNCHANGED <<infers, shown>> BY <1>1, <1>2, ResultsUntouched
<1>3. ASSUME NEW n \in Nat, NEW j \in 1 .. Len(infers) + 1,
             shown.raw <= n, shown'.raw = n, OldestKept(j, n),
             infers' = SubSeq(infers, j, Len(infers))
      PROVE  Results'
  <2>1. /\ infers \in Seq(Nat) /\ Len(infers) \in Nat /\ Len(infers) <= BufferSize
        /\ BufferSize \in Nat /\ shown.raw \in Nat /\ ready \subseteq Nat
        /\ DOMAIN infers = 1 .. Len(infers)
    BY RendererAssumption DEF Types, Results
  <2>2. /\ infers' \in Seq(Nat) /\ Len(infers') = Len(infers) - j + 1
        /\ \A k \in 1 .. Len(infers') : infers'[k] = infers[j + k - 1]
        /\ \A k \in j .. Len(infers) : infers[k] \in ToSet(infers')
    BY <1>3, <2>1, ResultsLeftAre
  <2>3. \A k \in 1 .. Len(infers') : j + k - 1 \in 1 .. Len(infers)
    <3>1. PICK a \in Nat : a = Len(infers) BY <2>1
    <3>2. PICK b : b = Len(infers') OBVIOUS
    <3>3. j \in 1 .. a + 1 BY <3>1
    <3>4. b = a - j + 1 BY <2>2, <3>1, <3>2, Zenon
    <3>5. \A k \in 1 .. b : j + k - 1 \in 1 .. a BY <3>3, <3>4
    <3> QED BY <3>1, <3>2, <3>5, Zenon
  <2>4. \A k \in 1 .. Len(infers') : infers'[k] \in ready'
    BY <1>1, <2>2, <2>3 DEF Results
  <2>5. ASSUME NEW i \in 1 .. Len(infers'), NEW k \in 1 .. Len(infers'), i < k
        PROVE  infers'[i] < infers'[k]
    <3>1. j + i - 1 < j + k - 1 BY <2>1, <2>2, <2>5
    <3>2. infers[j + i - 1] < infers[j + k - 1] BY <2>3, <3>1 DEF Results
    <3> QED BY <2>2, <3>2
  <2>6. ASSUME NEW m \in ready' \ ToSet(infers')
        PROVE  m < shown'.raw \/ BufferSize <= Cardinality(NewerResults(m)')
    <3>1. NewerResults(m)' = NewerResults(m) BY <1>1 DEF NewerResults
    <3>2. m \in ready /\ m \in Nat BY <1>1, <2>1
    <3>3. CASE m \in ToSet(infers)
      <4>1. PICK k \in 1 .. Len(infers) : m = infers[k] BY <2>1, <3>3 DEF ToSet
      <4>2. k \notin j .. Len(infers) BY <2>2, <2>6, <4>1
      <4>3. k \in 1 .. j - 1 BY <2>1, <4>2
      <4> QED BY <1>3, <4>1, <4>3 DEF OldestKept
    <3>4. CASE m \notin ToSet(infers)
      <4>1. m < shown.raw \/ BufferSize <= Cardinality(NewerResults(m))
        BY <3>2, <3>4 DEF Results
      <4>2. m < shown.raw => m < n BY <1>3, <2>1, <3>2
      <4> QED BY <1>3, <3>1, <4>1, <4>2
    <3> QED BY <3>3, <3>4
  <2>7. Len(infers') <= BufferSize BY <2>1, <2>2
  <2> QED BY <1>1, <2>2, <2>4, <2>5, <2>6, <2>7 DEF Results, NewerResults
<1> QED BY <1>2, <1>3, DelayedShows

LEMMA ResultsKept ==
    ASSUME IInv, Results, [Next]_vars
    PROVE  Results'
<1>1. Types /\ Run /\ Latest /\ inference \in Nat BY DEF IInv, Types
<1>2. CASE CacheInference BY <1>1, <1>2, CacheKeepsResults
<1>3. CASE RenderDelayed BY <1>1, <1>3, RenderKeepsResults
<1>4. CASE RenderInferenceOnly \/ RenderLatest
  <2>1. /\ mode # "delayed_matched"
        /\ UNCHANGED <<mode, infers, cached, ready, inference>>
    BY <1>4 DEF RenderInferenceOnly, RenderLatest, workerVars
  <2> QED BY <1>1, <2>1 DEF Results
<1>5. CASE Tick \/ Capture \/ BufferRaw \/ PublishResult \/ StartRender \/ PickRaw
           \/ UNCHANGED vars
  BY <1>1, <1>5, ResultsUntouched
     DEF Tick, Capture, BufferRaw, PublishResult, StartRender, PickRaw, vars,
         workerVars
<1>6. CASE \E n \in Frames : WriteInference(n)
  <2>1. inference' \in Nat /\ inference <= inference'
    BY <1>1, <1>6, RendererAssumption DEF WriteInference, Frames
  <2> QED BY <1>1, <1>6, <2>1, ResultsUntouched DEF WriteInference
<1> QED BY <1>2, <1>3, <1>4, <1>5, <1>6 DEF Next, Render

LEMMA ResultsHold == Spec => []Results
<1>1. Init => Results
  <2> SUFFICES ASSUME Init PROVE Results
    OBVIOUS
  <2>1. /\ infers = <<>> /\ cached = 0 /\ inference = 0 /\ ready = {}
    BY DEF Init
  <2>2. BufferSize \in Nat BY RendererAssumption
  <2> QED BY <2>1, <2>2 DEF Results
<1>2. IInv /\ Results /\ [Next]_vars => Results' BY ResultsKept
<1> QED BY <1>1, <1>2, Invariance, PTL DEF Spec

\* What ReadyResultIsShown says of a step.
LEMMA ReadyStep ==
    ASSUME IInv, Results, RenderDelayed, shown'.raw \in ready, shown' # shown,
           Cardinality({m \in ready : m > shown'.raw}) < BufferSize
    PROVE  shown'.boxes = shown'.raw
<1>1. PICK n \in Nat : \E j \in 1 .. Len(infers) + 1 :
         /\ shown.raw <= n /\ OldestKept(j, n)
         /\ infers' = SubSeq(infers, j, Len(infers))
         /\ shown' = [raw |-> n, boxes |-> BoxesFor(infers', n)]
  BY DelayedShows DEF IInv
<1>2. PICK j \in 1 .. Len(infers) + 1 :
         /\ shown.raw <= n /\ OldestKept(j, n)
         /\ infers' = SubSeq(infers, j, Len(infers))
         /\ shown' = [raw |-> n, boxes |-> BoxesFor(infers', n)]
  BY <1>1
<1>3. shown'.raw = n /\ shown'.boxes = BoxesFor(infers', n) BY <1>2
<1>4. /\ infers \in Seq(Nat) /\ Len(infers) \in Nat /\ shown.raw \in Nat
      /\ DOMAIN infers = 1 .. Len(infers) /\ BufferSize \in Nat
  BY RendererAssumption DEF IInv, Types, Results
<1>5. n \in ToSet(infers)
  <2>1. ~(n < shown.raw) BY <1>2, <1>4
  <2>2. ~(BufferSize <= Cardinality(NewerResults(n)))
    <3>1. Cardinality(NewerResults(n)) \in Nat BY NewerSize DEF IInv
    <3>2. Cardinality(NewerResults(n)) < BufferSize BY <1>3 DEF NewerResults
    <3> QED BY <1>4, <3>1, <3>2
  <2> QED BY <1>3, <2>1, <2>2 DEF Results
<1>6. PICK k \in 1 .. Len(infers) : infers[k] = n BY <1>4, <1>5 DEF ToSet
<1>7. k \in j .. Len(infers)
  <2>1. k \notin 1 .. j - 1 BY <1>2, <1>6 DEF OldestKept
  <2> QED BY <1>4, <2>1
<1>8. n \in ToSet(infers') BY <1>2, <1>4, <1>6, <1>7, ResultsLeftAre
<1> QED BY <1>3, <1>8 DEF BoxesFor

\* A result the renderer has read before its frame becomes due is shown with that frame,
\* however large the delay and the buffer, unless newer results filled the buffer.
THEOREM ReadyResultsAreShown == Spec => ReadyResultIsShown
<1>1. IInv /\ Results /\ [Next]_vars =>
        [RenderDelayed /\ shown'.raw \in ready
           /\ Cardinality({m \in ready : m > shown'.raw}) < BufferSize
           /\ shown' # shown
         => shown'.boxes = shown'.raw]_vars
  BY ReadyStep
<1> QED BY <1>1, Invariance, ResultsHold, PTL DEF Spec, ReadyResultIsShown

-----------------------------------------------------------------------------
(* Types.                                                                  *)

\* Nothing names a frame that was not captured, and only delayed_matched buffers.
Bounds ==
    /\ now <= MaxTime
    /\ slot <= MaxFrames
    /\ result <= slot /\ prediction <= slot
    /\ shown.raw <= slot /\ shown.boxes <= slot
    /\ pc \in {"wait", "cache", "raw", "render"}
    /\ mode # "delayed_matched" => raws = <<>>

LEMMA BoundsKept ==
    ASSUME IInv, Bounds, [Next]_vars
    PROVE  Bounds'
<1>1. /\ slot \in Nat /\ slot' \in Nat /\ slot <= slot' /\ now \in Nat
      /\ result \in Nat /\ prediction \in Nat /\ shown.raw \in Nat
      /\ shown.boxes \in Nat /\ picked \in 0 .. slot /\ inference \in 0 .. slot
      /\ MaxFrames \in Nat /\ MaxTime \in Nat
  BY TakenIs, RendererAssumption DEF IInv, Types
<1>2. CASE Tick
  BY <1>1, <1>2 DEF Tick, Bounds, cameraVars, workerVars
<1>3. CASE Capture
  <2>1. /\ slot' = slot + 1 /\ slot' <= MaxFrames
        /\ UNCHANGED <<mode, now, result, prediction, shown, pc, raws>>
    BY <1>1, <1>3 DEF Capture, workerVars
  <2> QED BY <1>1, <2>1 DEF Bounds
<1>4. CASE BufferRaw
  BY <1>1, <1>4 DEF BufferRaw, Bounds, workerVars
<1>5. CASE \E n \in Frames : WriteInference(n)
  <2>1. /\ result' <= slot
        /\ UNCHANGED <<mode, now, slot, prediction, shown, pc, raws>>
    BY <1>1, <1>5 DEF WriteInference, Frames, cameraVars
  <2> QED BY <1>1, <2>1 DEF Bounds
<1>6. CASE PublishResult
  BY <1>1, <1>6 DEF PublishResult, Bounds, cameraVars
<1>7. CASE StartRender \/ CacheInference \/ PickRaw
  BY <1>1, <1>7 DEF StartRender, CacheInference, PickRaw, Bounds, cameraVars,
                    workerVars
<1>8. CASE RenderDelayed
  <2>1. /\ mode = "delayed_matched" /\ pc' = "wait"
        /\ UNCHANGED <<mode, now, slot, result, prediction>>
    BY <1>8 DEF RenderDelayed, cameraVars, workerVars
  <2>2. CASE shown' = shown BY <1>1, <2>1, <2>2 DEF Bounds
  <2>3. ASSUME NEW n \in Nat, n \in 1 .. slot,
               shown' = [raw |-> n, boxes |-> BoxesFor(infers', n)]
        PROVE  Bounds'
    <3>1. shown'.raw = n /\ shown'.boxes \in {0, n} BY <2>3 DEF BoxesFor
    <3> QED BY <1>1, <2>1, <2>3, <3>1 DEF Bounds
  <2> QED BY <1>8, <2>2, <2>3, DelayedShows DEF IInv
<1>9. CASE RenderInferenceOnly
  <2>1. /\ mode # "delayed_matched" /\ pc' = "wait"
        /\ UNCHANGED <<mode, now, slot, result, prediction, raws>>
    BY <1>9 DEF RenderInferenceOnly, cameraVars, workerVars
  <2>2. shown'.raw \in {inference, picked} /\ shown'.boxes \in {inference, 0}
    BY <1>9 DEF RenderInferenceOnly
  <2> QED BY <1>1, <2>1, <2>2 DEF Bounds
<1>10. CASE RenderLatest
  <2>1. /\ mode # "delayed_matched" /\ pc' = "wait"
        /\ UNCHANGED <<mode, now, slot, result, prediction, raws>>
    BY <1>10 DEF RenderLatest, cameraVars, workerVars
  <2>2. shown'.raw = picked /\ shown'.boxes \in {prediction, 0}
    BY <1>10 DEF RenderLatest
  <2> QED BY <1>1, <2>1, <2>2 DEF Bounds
<1>11. CASE UNCHANGED vars
  BY <1>11 DEF vars, Bounds, cameraVars, workerVars
<1> QED BY <1>2, <1>3, <1>4, <1>5, <1>6, <1>7, <1>8, <1>9, <1>10, <1>11
        DEF Next, Render

\* A sequence is one over any set that its elements are in.
LEMMA SeqOver ==
    ASSUME NEW T, NEW s \in Seq(Nat), \A i \in 1 .. Len(s) : s[i] \in T
    PROVE  s \in Seq(T)
OBVIOUS

\* The bounds of the types follow from the invariants.
LEMMA TypesFollow == IInv /\ Results /\ Bounds => TypeOK
<1> SUFFICES ASSUME IInv, Results, Bounds PROVE TypeOK
  OBVIOUS
<1>1. Types /\ Timeline /\ Run BY DEF IInv
<1>2. /\ slot \in Nat /\ buffered \in 0 .. slot /\ now \in Nat
      /\ MaxFrames \in Nat /\ MaxTime \in Nat /\ BufferSize \in Nat
      /\ taken \in Seq(Nat) /\ Len(taken) = slot
      /\ raws \in Seq(Nat) /\ Len(raws) \in Nat
      /\ infers \in Seq(Nat) /\ Len(infers) \in Nat
  BY <1>1, RendererAssumption DEF Types, Results
<1>3. /\ mode \in Modes /\ now \in 0 .. MaxTime /\ slot \in 0 .. MaxFrames
      /\ buffered \in 0 .. slot /\ pc \in {"wait", "cache", "raw", "render"}
      /\ rnow \in 0 .. now /\ picked \in 0 .. slot /\ inference \in 0 .. slot
      /\ result \in 0 .. slot /\ prediction \in 0 .. slot
  BY <1>1, <1>2 DEF Types, Bounds
<1>4. taken \in Seq(0 .. MaxTime)
  <2>1. \A i \in 1 .. slot : taken[i] \in Nat /\ taken[i] <= now
    BY <1>1, <1>2 DEF Timeline
  <2>2. \A i \in 1 .. Len(taken) : taken[i] \in 0 .. MaxTime
    BY <1>2, <2>1 DEF Bounds
  <2> QED BY <1>2, <2>2
<1>5. raws \in Seq(1 .. slot) /\ Len(raws) <= BufferSize
  <2>1. CASE mode = "delayed_matched"
    <3>1. /\ Len(raws) <= buffered /\ Len(raws) <= BufferSize
          /\ \A i \in 1 .. Len(raws) : raws[i] = First + i - 1
      BY <1>1, <2>1 DEF Run
    <3>2. ASSUME NEW i \in 1 .. Len(raws) PROVE raws[i] \in 1 .. slot
      <4>1. PICK n, b, m \in Nat : n = Len(raws) /\ b = buffered /\ m = slot
        BY <1>2
      <4>2. n <= b /\ b <= m /\ i \in 1 .. n BY <1>2, <3>1, <4>1
      <4>3. (b - n + 1) + i - 1 \in 1 .. m BY <4>2
      <4>4. raws[i] = (b - n + 1) + i - 1 BY <3>1, <4>1 DEF First
      <4> QED BY <4>1, <4>3, <4>4
    <3>3. raws \in Seq(1 .. slot) BY <1>2, <3>2, SeqOver
    <3> QED BY <3>1, <3>3
  <2>2. CASE mode # "delayed_matched"
    <3>1. raws = <<>> BY <2>2 DEF Bounds
    <3>2. Len(raws) = 0 BY <3>1
    <3>3. \A i \in 1 .. Len(raws) : raws[i] \in 1 .. slot BY <3>2
    <3>4. raws \in Seq(1 .. slot) BY <1>2, <3>3, SeqOver
    <3> QED BY <1>2, <3>2, <3>4
  <2> QED BY <2>1, <2>2
<1>6. /\ infers \in Seq(1 .. slot) /\ Len(infers) <= BufferSize
      /\ cached \in 0 .. slot /\ ready \subseteq 1 .. slot
  <2>1. cached \in 0 .. slot /\ ready \subseteq 1 .. slot
    BY <1>2, <1>3 DEF Results
  <2>2. \A i \in 1 .. Len(infers) : infers[i] \in 1 .. slot
    BY <2>1 DEF Results
  <2>3. infers \in Seq(1 .. slot) BY <1>2, <2>2, SeqOver
  <2> QED BY <2>1, <2>3 DEF Results
<1>7. shown \in [raw : 0 .. slot, boxes : 0 .. slot]
  <2>1. shown \in [raw : Nat, boxes : Nat] BY <1>1 DEF Types
  <2>2. shown.raw \in 0 .. slot /\ shown.boxes \in 0 .. slot
    BY <1>2, <2>1 DEF Bounds
  <2>3. shown = [raw |-> shown.raw, boxes |-> shown.boxes] BY <2>1
  <2> QED BY <2>2, <2>3
<1> QED BY <1>2, <1>3, <1>4, <1>5, <1>6, <1>7 DEF TypeOK

\* Both deques stay within their size, and every sequence number in the renderer, the
\* slots and the plugin snapshot is that of a captured frame.
THEOREM RendererTypes == Spec => []TypeOK
<1>1. Init => Bounds
  <2> SUFFICES ASSUME Init PROVE Bounds
    OBVIOUS
  <2>1. Blank.raw = 0 /\ Blank.boxes = 0 BY DEF Blank
  <2> QED BY <2>1, RendererAssumption DEF Init, Bounds
<1>2. IInv /\ Bounds /\ [Next]_vars => Bounds' BY BoundsKept
<1>3. Spec => []Bounds BY <1>1, <1>2, Invariance, PTL DEF Spec
<1> QED BY <1>3, Invariance, ResultsHold, TypesFollow, PTL

-----------------------------------------------------------------------------
(* The viewer.                                                             *)

\* Pictures come from the output slot or the raw slot, and what was sent from one of
\* them was in it.
Viewed ==
    /\ view.raw \in Nat
    /\ view.from \in {"none", "raw", "plain", "boxes"}
    /\ view.from = "none" => view.raw = 0
    /\ view.from = "raw" => view.raw <= slot
    /\ view.from \in {"plain", "boxes"} => Rendered /\ ~looking
    /\ view.from = "boxes" =>
          /\ view.raw <= shown.raw
          /\ mode = "inference_only" => shown.boxes # 0
    /\ view.from = "plain" =>
          \/ view.raw <= shown.raw
          \/ mode = "inference_only" /\ shown.boxes # 0

\* Viewing disturbs nothing: the page only reads the slots.
LEMMA PageImplementsRenderer == PageSpec => Spec
<1>1. InitPage => Init BY DEF InitPage
<1>2. [NextPage]_pageVars => [Next]_vars
  BY DEF NextPage, Serve, SendOutput, FindEmpty, SendRaw, pageVars
<1> QED BY <1>1, <1>2, PTL DEF PageSpec, Spec

\* What the renderer shows next is no older than what it shows, unless it switches
\* from raw pictures to results; and it is never blank again.
LEMMA ShownIsNewer ==
    ASSUME IInv, IInv', [Next]_vars
    PROVE  /\ slot <= slot' /\ mode' = mode
           /\ Rendered => Rendered'
           /\ \/ /\ shown.raw <= shown'.raw
                 /\ mode = "inference_only" /\ shown.boxes # 0 => shown'.boxes # 0
              \/ mode = "inference_only" /\ shown.boxes = 0 /\ shown'.boxes # 0
<1>1. /\ slot \in Nat /\ shown.raw \in Nat /\ picked \in Nat /\ inference \in Nat
      /\ shown \in [raw : Nat, boxes : Nat]
  BY DEF IInv, Types
<1>2. slot <= slot' BY <1>1, TakenIs DEF IInv
<1>3. mode' = mode
  BY DEF Next, Tick, Capture, BufferRaw, WriteInference, PublishResult,
         StartRender, CacheInference, PickRaw, Render, RenderDelayed,
         RenderInferenceOnly, RenderLatest, vars
<1>4. CASE shown' = shown BY <1>1, <1>2, <1>3, <1>4 DEF Rendered
<1>5. CASE RenderDelayed /\ shown' # shown
  <2>1. mode = "delayed_matched" BY <1>5 DEF RenderDelayed
  <2>2. PICK i \in 1 .. Len(raws) : shown'.raw = raws[i] /\ raws[i] = First + i - 1
    BY <1>5, RenderDelayedIs DEF IInv
  <2>3. /\ shown.raw <= First /\ Len(raws) <= buffered
        /\ buffered \in Nat /\ Len(raws) \in Nat
    BY <2>1 DEF IInv, Run, Types
  <2>4. First \in Nat /\ First >= 1 BY <2>3 DEF First
  <2>5. shown.raw <= shown'.raw /\ shown'.raw > 0 BY <1>1, <2>2, <2>3, <2>4
  <2>6. Rendered'
    <3>1. Blank.raw = 0 BY DEF Blank
    <3> QED BY <2>5, <3>1 DEF Rendered, Blank
  <2> QED BY <1>2, <1>3, <2>1, <2>5, <2>6
<1>6. CASE RenderInferenceOnly
  <2>1. mode = "inference_only" /\ pc = "render" BY <1>6 DEF RenderInferenceOnly
  <2>2. CASE inference # 0
    <3>1. shown' = [raw |-> inference, boxes |-> inference]
      BY <1>6, <2>2 DEF RenderInferenceOnly
    <3>2. shown'.raw = inference /\ shown'.boxes = inference BY <3>1
    <3>3. Rendered' BY <2>2, <3>2 DEF Rendered, Blank
    <3>4. shown.boxes # 0 => shown.raw <= inference
      BY <2>1 DEF IInv, Latest
    <3> QED BY <1>2, <1>3, <2>1, <2>2, <3>2, <3>3, <3>4
  <2>3. CASE inference = 0
    <3>1. shown' = [raw |-> picked, boxes |-> 0]
      BY <1>6, <2>3 DEF RenderInferenceOnly
    <3>2. shown'.raw = picked /\ shown'.boxes = 0 BY <3>1
    <3>3. picked > 0 BY <2>1 DEF IInv, Latest
    <3>4. Rendered' BY <1>1, <3>2, <3>3 DEF Rendered, Blank
    <3>5. shown.boxes = 0
      BY <1>1, <2>1, <2>3 DEF IInv, Latest
    <3>6. shown.raw <= picked BY <2>1, <3>5 DEF IInv, Latest
    <3> QED BY <1>2, <1>3, <3>2, <3>4, <3>5, <3>6
  <2> QED BY <2>2, <2>3
<1>7. CASE RenderLatest
  <2>1. mode = "latest_predictions" /\ pc = "render" /\ shown'.raw = picked
    BY <1>7 DEF RenderLatest
  <2>2. picked > 0 /\ shown.raw <= picked BY <2>1 DEF IInv, Latest
  <2>3. Rendered' BY <1>1, <2>1, <2>2 DEF Rendered, Blank
  <2> QED BY <1>2, <1>3, <2>1, <2>2, <2>3
<1>8. CASE Tick \/ Capture \/ BufferRaw \/ PublishResult \/ StartRender
           \/ CacheInference \/ PickRaw \/ UNCHANGED vars
  BY <1>4, <1>8 DEF Tick, Capture, BufferRaw, PublishResult, StartRender,
                    CacheInference, PickRaw, vars
<1>9. CASE \E n \in Frames : WriteInference(n)
  BY <1>4, <1>9 DEF WriteInference
<1> QED BY <1>4, <1>5, <1>6, <1>7, <1>8, <1>9 DEF Next, Render

\* What the viewer may see next.
NoJump ==
    /\ \/ view'.raw >= view.raw
       \/ view.from = "raw" /\ view'.from \in {"plain", "boxes"}
       \/ mode = "inference_only" /\ view.from = "plain" /\ view'.from = "boxes"
    /\ view.from \in {"plain", "boxes"} => view'.from # "raw"

LEMMA ViewedKept ==
    ASSUME IInv, IInv', Viewed, [NextPage]_pageVars
    PROVE  Viewed' /\ NoJump
<1>1. /\ slot \in Nat /\ slot' \in Nat /\ view.raw \in Nat
      /\ shown.raw \in Nat /\ shown'.raw \in Nat
  BY DEF IInv, Types, Viewed
<1>2. CASE UNCHANGED <<view, looking>>
  <2>1. [Next]_vars
    BY DEF NextPage, Serve, SendOutput, FindEmpty, SendRaw, pageVars
  <2>2. NoJump BY <1>1, <1>2 DEF NoJump, Viewed
  <2>3. /\ slot <= slot' /\ mode' = mode /\ (Rendered => Rendered')
        /\ \/ /\ shown.raw <= shown'.raw
              /\ mode = "inference_only" /\ shown.boxes # 0 => shown'.boxes # 0
           \/ mode = "inference_only" /\ shown.boxes = 0 /\ shown'.boxes # 0
    BY <2>1, ShownIsNewer
  <2>4. view.raw <= shown.raw /\ shown.raw <= shown'.raw => view.raw <= shown'.raw
    BY <1>1
  <2>5. view.raw <= slot => view.raw <= slot' BY <1>1, <2>3
  <2> QED BY <1>2, <2>2, <2>3, <2>4, <2>5 DEF Viewed
<1>3. CASE SendOutput
  <2>1. /\ ~looking /\ Rendered /\ looking' = looking
        /\ UNCHANGED <<mode, slot, shown>> /\ Rendered'
    BY <1>3 DEF SendOutput, vars, cameraVars, Rendered
  <2>2. /\ view'.raw = shown.raw
        /\ view'.from = IF shown.boxes = 0 THEN "plain" ELSE "boxes"
    BY <1>3 DEF SendOutput
  <2>3. Viewed' BY <1>1, <2>1, <2>2 DEF Viewed
  <2>4. NoJump BY <1>1, <2>1, <2>2 DEF NoJump, Viewed
  <2> QED BY <2>3, <2>4
<1>4. CASE FindEmpty
  <2>1. /\ ~Rendered /\ looking' = TRUE /\ view' = view
        /\ UNCHANGED <<mode, slot, shown>>
    BY <1>4 DEF FindEmpty, vars, cameraVars
  <2>2. view.from \in {"none", "raw"} BY <2>1 DEF Viewed
  <2> QED BY <1>1, <2>1, <2>2 DEF Viewed, NoJump
<1>5. CASE SendRaw
  <2>1. looking /\ looking' = FALSE /\ UNCHANGED <<mode, slot, shown>>
    BY <1>5 DEF SendRaw, vars, cameraVars
  <2>2. view.from \in {"none", "raw"} BY <2>1 DEF Viewed
  <2>3. CASE slot = 0
    <3>1. view' = view BY <1>5, <2>3 DEF SendRaw
    <3> QED BY <1>1, <2>1, <2>2, <3>1 DEF Viewed, NoJump
  <2>4. CASE slot # 0
    <3>1. view'.raw = slot /\ view'.from = "raw" BY <1>5, <2>4 DEF SendRaw
    <3>2. view.raw <= slot BY <1>1, <2>2 DEF Viewed
    <3> QED BY <1>1, <2>1, <2>2, <3>1, <3>2 DEF Viewed, NoJump
  <2> QED BY <2>3, <2>4
<1> QED BY <1>2, <1>3, <1>4, <1>5 DEF NextPage, Serve, pageVars

\* A viewer never sees the stream jump back in time, except for the switch from raw
\* frames to delayed pictures or to the first result, however its requests and the
\* renderer interleave.
THEOREM ViewersNeverGoBack == PageSpec => ViewerNeverGoesBack
<1>1. InitPage => Viewed
  <2> SUFFICES ASSUME InitPage PROVE Viewed
    OBVIOUS
  <2>1. view.raw = 0 /\ view.from = "none" BY DEF InitPage
  <2> QED BY <2>1 DEF Viewed
<1>2. IInv /\ IInv' /\ Viewed /\ [NextPage]_pageVars => Viewed' BY ViewedKept
<1>3. IInv /\ IInv' /\ Viewed /\ [NextPage]_pageVars
        => [/\ \/ view'.raw >= view.raw
               \/ view.from = "raw" /\ view'.from \in {"plain", "boxes"}
               \/ mode = "inference_only" /\ view.from = "plain"
                     /\ view'.from = "boxes"
            /\ view.from \in {"plain", "boxes"} => view'.from # "raw"]_pageVars
  BY ViewedKept DEF NoJump
<1>4. PageSpec => []IInv BY PageImplementsRenderer, Invariance, PTL
<1> QED BY <1>1, <1>2, <1>3, <1>4, PTL DEF PageSpec, ViewerNeverGoesBack
-----------------------------------------------------------------------------
(* The results: how ObjectTracker matches the detections of a frame, and    *)
(* how ObjectDetection publishes the tracks.                               *)

\* Detections and overlaps only matter while a frame is matched; the ids of the tracks
\* are distinct and have all been given out.
Track == [id : Nat, class : Classes, box : Nat, missed : Nat]

TrackerOK ==
    /\ tracks \in Seq(Track)
    /\ nextId \in Nat
    /\ \A i \in DOMAIN tracks : tracks[i].id < nextId
    /\ \A i, j \in DOMAIN tracks : tracks[i].id = tracks[j].id => i = j
    /\ phase \in {"idle", "match"}
    /\ phase = "match" => classes \in Seq(Classes) /\ overlap \in [Pairs -> Nat]

\* Of any candidates, one comes last: of those that overlap least, the earliest track
\* with its earliest detection.
LEMMA LastCandidate ==
    ASSUME TrackerOK, phase = "match", NEW T, T \subseteq Pairs, T # {}
    PROVE  \E l \in T : \A q \in T : ~Before(l, q)
  <1>0. /\ \A p \in T : overlap[p] \in Nat /\ p[1] \in Nat /\ p[2] \in Nat
        /\ T \subseteq Pairs /\ T # {}
    <2>1. DOMAIN tracks = 1 .. Len(tracks) /\ DOMAIN classes = 1 .. Len(classes)
      BY DEF TrackerOK
    <2> QED BY <2>1 DEF TrackerOK, Pairs
  <1> DEFINE O == {overlap[p] : p \in T}
  <1>1. PICK o \in O : \A x \in O : o <= x
    <2> HIDE DEF TrackerOK
    <2>1. O \subseteq Nat /\ O # {}
      BY <1>0
    <2> HIDE DEF O
    <2> QED BY <2>1, Least
  <1> DEFINE T1 == {p \in T : overlap[p] = o}
             I == {p[1] : p \in T1}
  <1>2. PICK i \in I : \A x \in I : i <= x
    <2>1. I \subseteq Nat /\ I # {}
      BY <1>0, <1>1
    <2> HIDE DEF I
    <2> QED BY <2>1, Least
  <1> DEFINE T2 == {p \in T1 : p[1] = i}
             D == {p[2] : p \in T2}
  <1>3. PICK d \in D : \A x \in D : d <= x
    <2>1. D \subseteq Nat /\ D # {}
      BY <1>0, <1>2
    <2> HIDE DEF D
    <2> QED BY <2>1, Least
  <1>4. PICK l \in T2 : l[2] = d
    BY <1>3
  <1>5. ASSUME NEW q \in T, Before(l, q) PROVE FALSE
    <2>1. l \in T /\ overlap[l] = o /\ l[1] = i /\ l[2] = d
      BY <1>4
    <2>2. overlap[q] \in Nat /\ q[1] \in Nat /\ q[2] \in Nat /\ o \in Nat /\ i \in Nat
          /\ d \in Nat
      BY <1>0, <2>1
    <2>3. o <= overlap[q]
      BY <1>1
    <2>4. overlap[q] = o => i <= q[1]
      BY <1>2
    <2>5. overlap[q] = o /\ q[1] = i => d <= q[2]
      BY <1>3
    <2>6. \/ o > overlap[q]
          \/ o = overlap[q] /\ i > q[1]
          \/ o = overlap[q] /\ i = q[1] /\ d > q[2]
      BY <1>5, <2>1 DEF Before
    <2> QED BY <2>2, <2>3, <2>4, <2>5, <2>6
  <1> QED BY <1>4, <1>5

\* The matches are well defined: candidates, each of them taken unless one before it is
\* that has its track or its detection.
Apart(p, q) == p[1] # q[1] /\ p[2] # q[2]

Greedy(M) == \A p \in Candidates : p \in M <=> \A q \in M : Before(q, p) => Apart(p, q)

LEMMA MatchesExist ==
    ASSUME TrackerOK, phase = "match"
    PROVE  Matches \in SUBSET Candidates /\ Greedy(Matches)
  <1> DEFINE R == {x \in Pairs \X Pairs : Before(x[1], x[2]) /\ ~Apart(x[2], x[1])}
  <1>1. Candidates \subseteq Pairs
    BY DEF Candidates
  <1>2. IsFiniteSet(Candidates)
    <2>1. /\ DOMAIN tracks = 1 .. Len(tracks) /\ DOMAIN classes = 1 .. Len(classes)
          /\ Len(tracks) \in Nat /\ Len(classes) \in Nat
      BY DEF TrackerOK
    <2>2. IsFiniteSet(1 .. Len(tracks)) /\ IsFiniteSet(1 .. Len(classes))
      BY <2>1, FS_Interval
    <2>3. IsFiniteSet(Pairs)
      BY <2>1, <2>2, FS_Product DEF Pairs
    <2> QED BY <1>1, <2>3, FS_Subset
  <1>3. LastOne(Candidates, R)
    <2> SUFFICES ASSUME NEW T \in SUBSET Candidates, T # {}
                 PROVE  \E l \in T : \A q \in T : <<l, q>> \notin R
      BY DEF LastOne
    <2>1. T \subseteq Pairs
      BY <1>1
    <2>2. PICK l \in T : \A q \in T : ~Before(l, q)
      BY <2>1, LastCandidate
    <2> QED BY <2>2
  <1>4. PICK K \in SUBSET Candidates : Chosen(K, Candidates, R)
    <2> HIDE DEF R
    <2> QED BY <1>2, <1>3, GreedyChoice
  <1>5. Greedy(K)
    <2> SUFFICES ASSUME NEW p \in Candidates
                 PROVE  p \in K <=> \A q \in K : Before(q, p) => Apart(p, q)
      BY DEF Greedy
    <2>1. p \in K <=> \A q \in K : <<q, p>> \notin R
      BY <1>4 DEF Chosen
    <2>2. \A q \in K : <<q, p>> \notin R <=> (Before(q, p) => Apart(p, q))
      BY <1>1, <1>4
    <2> HIDE DEF R
    <2> QED BY <2>1, <2>2
  <1>6. Matches = CHOOSE M \in SUBSET Candidates : Greedy(M)
    BY Zenon DEF Matches, Greedy, Apart
  <1> HIDE DEF R
  <1> QED BY <1>4, <1>5, <1>6

\* No two matches have a track or a detection in common.
LEMMA MatchedOnce ==
    ASSUME TrackerOK, phase = "match", NEW p \in Matches, NEW q \in Matches, ~Apart(p, q)
    PROVE  p = q
  <1>1. Greedy(Matches) /\ p \in Candidates /\ q \in Candidates
    BY MatchesExist
  <1>2. ~Before(p, q) /\ ~Before(q, p)
    BY <1>1 DEF Greedy, Apart
  <1>3. /\ p = <<p[1], p[2]>> /\ q = <<q[1], q[2]>>
        /\ p \in Pairs /\ q \in Pairs
    BY <1>1 DEF Candidates, Pairs
  <1>4. overlap[p] \in Nat /\ overlap[q] \in Nat
    BY <1>3 DEF TrackerOK
  <1>5. p[1] \in Nat /\ p[2] \in Nat /\ q[1] \in Nat /\ q[2] \in Nat
    <2>1. DOMAIN tracks = 1 .. Len(tracks) /\ DOMAIN classes = 1 .. Len(classes)
      BY DEF TrackerOK
    <2> QED BY <1>3, <2>1 DEF Pairs
  <1>6. p[1] = q[1] /\ p[2] = q[2]
    BY <1>2, <1>4, <1>5 DEF Before
  <1> QED BY <1>3, <1>6

\* The elements of a set of indexes, in order.
LEMMA InOrderIs ==
    ASSUME NEW I, I \subseteq Nat, IsFiniteSet(I)
    PROVE  /\ InOrder(I) \in Seq(I)
           /\ Range(InOrder(I)) = I
           /\ IsInjective(InOrder(I))
  <1>1. PICK n \in Nat : n = Cardinality(I)
    BY FS_CardinalityType
  <1> DEFINE Good(q) == \A i, j \in DOMAIN q : i < j => q[i] < q[j]
  <1>2. PICK e \in [1 .. Cardinality(I) -> I] : Increasing(e, Cardinality(I))
    BY Enumeration
  <1>3. Good(e)
    BY <1>2 DEF Increasing
  <1>4. InOrder(I) \in [1 .. Cardinality(I) -> I] /\ Good(InOrder(I))
    <2>1. InOrder(I) = CHOOSE q \in [1 .. Cardinality(I) -> I] : Good(q)
      BY Zenon DEF InOrder
    <2> HIDE DEF Good
    <2> QED BY <1>3, <2>1, Zenon
  <1>5. PICK q \in [1 .. Cardinality(I) -> I] : q = InOrder(I)
    BY <1>4
  <1>6. Increasing(q, Cardinality(I))
    BY <1>4, <1>5 DEF Increasing
  <1>7. /\ \A x \in I : \E i \in 1 .. Cardinality(I) : q[i] = x
        /\ \A i, j \in 1 .. Cardinality(I) : q[i] = q[j] => i = j
    BY <1>6, EnumerationIsFull
  <1>8. q \in Seq(I)
    BY <1>1
  <1>9. DOMAIN q = 1 .. Cardinality(I) /\ \A i \in 1 .. Cardinality(I) : q[i] \in I
    OBVIOUS
  <1>10. Range(q) = I
    <2>1. Range(q) \subseteq I
      BY <1>9 DEF Range
    <2>2. I \subseteq Range(q)
      BY <1>7, <1>9 DEF Range
    <2> QED BY <2>1, <2>2
  <1>11. IsInjective(q)
    BY <1>7, <1>9 DEF IsInjective
  <1> QED BY <1>5, <1>8, <1>10, <1>11

\* What a frame makes of the tracks.  A is what becomes of each of them, k are those
\* kept, l the detections left over.
Updated(A, k, l) ==
    /\ A \in [DOMAIN tracks -> Track]
    /\ \A p \in Matches : A[p[1]] = Measured(tracks[p[1]], p[2])
    /\ \A i \in DOMAIN tracks :
          (\A p \in Matches : p[1] # i) => A[i] = Missed(tracks[i])
    /\ IsInjective(k) /\ Range(k) = {i \in DOMAIN tracks : A[i].missed <= MaxMissed}
    /\ IsInjective(l) /\ Range(l) = {d \in DOMAIN classes : \A p \in Matches : p[2] # d}
    /\ tracks' \in Seq(Track) /\ DOMAIN tracks' = 1 .. Len(k) + Len(l)
    /\ \A i \in 1 .. Len(k) : tracks'[i] = A[k[i]]
    /\ \A j \in 1 .. Len(l) : tracks'[Len(k) + j] = Started(l[j], j - 1)
    /\ nextId' = nextId + Len(l)

LEMMA UpdateIs ==
    ASSUME TrackerOK, Update
    PROVE  \E A : \E k \in Seq(DOMAIN tracks), l \in Seq(DOMAIN classes) : Updated(A, k, l)
  <1> DEFINE Of(i) == {p \in Matches : p[1] = i}
             Aged == [i \in DOMAIN tracks |->
                         IF Of(i) = {} THEN Missed(tracks[i])
                         ELSE Measured(tracks[i], (CHOOSE p \in Of(i) : TRUE)[2])]
  <1>0. phase = "match"
    BY DEF Update
  <1>1. /\ tracks \in Seq(Track) /\ DOMAIN tracks = 1 .. Len(tracks) /\ Len(tracks) \in Nat
        /\ classes \in Seq(Classes) /\ DOMAIN classes = 1 .. Len(classes)
        /\ Len(classes) \in Nat /\ nextId \in Nat
    BY <1>0 DEF TrackerOK
  <1>2. \A p \in Matches : /\ p[1] \in DOMAIN tracks
                           /\ p[2] \in DOMAIN classes
    BY <1>0, MatchesExist DEF Candidates, Pairs
  <1>3. \A i \in DOMAIN tracks : tracks[i] \in Track
    BY <1>1
  <1>4. \A t \in Track, d \in DOMAIN classes : Measured(t, d) \in Track
    <2> SUFFICES ASSUME NEW t \in Track, NEW d \in DOMAIN classes
                 PROVE  Measured(t, d) \in Track
      OBVIOUS
    <2>1. classes[d] \in Classes /\ d \in Nat
      BY <1>1
    <2> QED BY <2>1 DEF Measured, Track
  <1>5. \A t \in Track : Missed(t) \in Track
    <2> SUFFICES ASSUME NEW t \in Track PROVE Missed(t) \in Track
      OBVIOUS
    <2>1. PICK i \in Nat, c \in Classes, b \in Nat, n \in Nat :
             t = [id |-> i, class |-> c, box |-> b, missed |-> n]
      BY DEF Track
    <2>2. PICK m \in Nat : m = t.missed + 1
      BY <2>1
    <2>3. Missed(t) = [t EXCEPT !.box = 0, !.missed = m]
      BY <2>2 DEF Missed
    <2>4. Missed(t) = [id |-> i, class |-> c, box |-> 0, missed |-> m]
      BY <2>1, <2>3
    <2> QED BY <2>4 DEF Track
  <1>6. PICK A \in [DOMAIN tracks -> Track] : A = Aged
    <2> SUFFICES ASSUME NEW i \in DOMAIN tracks PROVE Aged[i] \in Track
      OBVIOUS
    <2>1. CASE Of(i) = {}
      BY <1>3, <1>5, <2>1
    <2>2. CASE Of(i) # {}
      <3>1. (CHOOSE p \in Of(i) : TRUE) \in Of(i)
        BY <2>2
      <3>2. (CHOOSE p \in Of(i) : TRUE)[2] \in DOMAIN classes
        BY <1>2, <3>1
      <3> QED BY <1>3, <1>4, <2>2, <3>2
    <2> QED BY <2>1, <2>2
  <1>7. ASSUME NEW p \in Matches PROVE A[p[1]] = Measured(tracks[p[1]], p[2])
    <2>1. Of(p[1]) # {} /\ p[1] \in DOMAIN tracks
      BY <1>2
    <2>2. PICK q \in Of(p[1]) : q = CHOOSE x \in Of(p[1]) : TRUE
      BY <2>1
    <2>3. q = p
      BY <1>0, <2>2, MatchedOnce DEF Apart
    <2> QED BY <1>6, <2>1, <2>2, <2>3
  <1>8. ASSUME NEW i \in DOMAIN tracks, \A p \in Matches : p[1] # i
        PROVE  A[i] = Missed(tracks[i])
    <2>1. Of(i) = {}
      BY <1>8
    <2> QED BY <1>6, <2>1
  <1> DEFINE K == {i \in DOMAIN tracks : A[i].missed <= MaxMissed}
             L == {d \in DOMAIN classes : \A p \in Matches : p[2] # d}
  <1>9. K \subseteq Nat /\ IsFiniteSet(K) /\ L \subseteq Nat /\ IsFiniteSet(L)
    <2>1. IsFiniteSet(1 .. Len(tracks)) /\ IsFiniteSet(1 .. Len(classes))
      BY <1>1, FS_Interval
    <2>2. K \subseteq 1 .. Len(tracks) /\ L \subseteq 1 .. Len(classes)
      BY <1>1
    <2> HIDE DEF K, L
    <2>3. IsFiniteSet(K) /\ IsFiniteSet(L)
      BY <2>1, <2>2, FS_Subset
    <2>4. K \subseteq Nat /\ L \subseteq Nat
      BY <2>2
    <2> QED BY <2>3, <2>4
  <1>10. PICK k \in Seq(K), l \in Seq(L) :
            /\ k = InOrder(K) /\ Range(k) = K /\ IsInjective(k)
            /\ l = InOrder(L) /\ Range(l) = L /\ IsInjective(l)
    <2> HIDE DEF K, L
    <2> QED BY <1>9, InOrderIs
  <1> DEFINE first == [j \in DOMAIN k |-> A[k[j]]]
             new == [j \in DOMAIN l |-> Started(l[j], j - 1)]
  <1>11. tracks' = first \o new /\ nextId' = nextId + Len(l)
    <2> DEFINE kept == InOrder({i \in DOMAIN tracks : Aged[i].missed <= MaxMissed})
               left == InOrder(L)
    <2>1. /\ tracks' = [j \in DOMAIN kept |-> Aged[kept[j]]]
                       \o [j \in DOMAIN left |-> Started(left[j], j - 1)]
          /\ nextId' = nextId + Len(left)
      BY Zenon DEF Update
    <2>2. Aged = A
      BY <1>6
    <2> HIDE DEF Aged
    <2>3. kept = k /\ left = l
      BY <1>10, <2>2
    <2> HIDE DEF kept, left
    <2> QED BY <2>1, <2>2, <2>3
  <1>12. /\ k \in Seq(DOMAIN tracks) /\ l \in Seq(DOMAIN classes)
         /\ Len(k) \in Nat /\ Len(l) \in Nat
         /\ DOMAIN k = 1 .. Len(k) /\ DOMAIN l = 1 .. Len(l)
         /\ \A j \in 1 .. Len(k) : k[j] \in DOMAIN tracks
         /\ \A j \in 1 .. Len(l) : l[j] \in DOMAIN classes
    <2>1. K \subseteq DOMAIN tracks /\ L \subseteq DOMAIN classes
      OBVIOUS
    <2> HIDE DEF K, L
    <2> QED BY <1>10, <2>1
  <1> HIDE DEF Aged
  <1>13. first \in Seq(Track) /\ Len(first) = Len(k)
    <2>1. \A j \in 1 .. Len(k) : A[k[j]] \in Track
      BY <1>6, <1>12
    <2> QED BY <1>12, <2>1
  <1>14. new \in Seq(Track) /\ Len(new) = Len(l)
    <2>1. ASSUME NEW j \in 1 .. Len(l) PROVE Started(l[j], j - 1) \in Track
      <3>1. l[j] \in DOMAIN classes
        BY <1>12
      <3>2. classes[l[j]] \in Classes /\ l[j] \in Nat
        BY <1>1, <3>1
      <3>3. nextId + (j - 1) \in Nat
        BY <1>1, <1>12
      <3> QED BY <3>2, <3>3 DEF Started, NewTrack, Track
    <2> QED BY <1>12, <2>1
  <1>15. /\ \A j \in 1 .. Len(k) : first[j] = A[k[j]]
         /\ \A j \in 1 .. Len(l) : new[j] = Started(l[j], j - 1)
    BY <1>12
  <1> HIDE DEF first, new
  <1>16. /\ tracks' \in Seq(Track) /\ DOMAIN tracks' = 1 .. Len(k) + Len(l)
         /\ \A j \in 1 .. Len(k) : tracks'[j] = A[k[j]]
         /\ \A j \in 1 .. Len(l) : tracks'[Len(k) + j] = Started(l[j], j - 1)
    <2>1. PICK s \in Seq(Track), t \in Seq(Track) : s = first /\ t = new
      BY <1>13, <1>14
    <2>2. /\ s \o t \in Seq(Track)
          /\ DOMAIN (s \o t) = 1 .. Len(s) + Len(t)
          /\ \A j \in 1 .. Len(s) : (s \o t)[j] = s[j]
          /\ \A j \in 1 .. Len(t) : (s \o t)[Len(s) + j] = t[j]
      OBVIOUS
    <2> QED BY <1>11, <1>13, <1>14, <1>15, <2>1, <2>2
  <1>17. Updated(A, k, l)
    BY <1>6, <1>7, <1>8, <1>10, <1>11, <1>16, Zenon DEF Updated
  <1> QED BY <1>12, <1>17

\* A track that stays keeps its id and its class, and has the detection it is matched
\* with, if any.
KeptTracks(k) ==
    \A j \in 1 .. Len(k) :
        /\ k[j] \in DOMAIN tracks /\ j \in DOMAIN tracks'
        /\ tracks'[j].id = tracks[k[j]].id
        /\ tracks'[j].class = tracks[k[j]].class
        /\ \/ <<k[j], tracks'[j].box>> \in Matches
           \/ tracks'[j].box = 0 /\ \A p \in Matches : p[1] # k[j]

LEMMA KeptTrack ==
    ASSUME TrackerOK, phase = "match",
           NEW A, NEW k \in Seq(DOMAIN tracks), NEW l \in Seq(DOMAIN classes),
           Updated(A, k, l)
    PROVE  KeptTracks(k)
  <1> SUFFICES ASSUME NEW j \in 1 .. Len(k)
               PROVE  /\ k[j] \in DOMAIN tracks /\ j \in DOMAIN tracks'
                      /\ tracks'[j].id = tracks[k[j]].id
                      /\ tracks'[j].class = tracks[k[j]].class
                      /\ \/ <<k[j], tracks'[j].box>> \in Matches
                         \/ tracks'[j].box = 0 /\ \A p \in Matches : p[1] # k[j]
    BY DEF KeptTracks
  <1>1. PICK i \in DOMAIN tracks : i = k[j]
    OBVIOUS
  <1>2. tracks[i] \in Track /\ tracks'[j] = A[i]
    BY <1>1 DEF TrackerOK, Updated
  <1>3. j \in DOMAIN tracks'
    BY DEF Updated
  <1>4. CASE \A p \in Matches : p[1] # i
    <2>1. tracks'[j] = Missed(tracks[i])
      BY <1>2, <1>4 DEF Updated
    <2>2. /\ tracks'[j].id = tracks[i].id /\ tracks'[j].class = tracks[i].class
          /\ tracks'[j].box = 0
      BY <1>2, <2>1 DEF Missed, Track
    <2> QED BY <1>1, <1>3, <1>4, <2>2
  <1>5. CASE \E p \in Matches : p[1] = i
    <2>1. PICK p \in Matches : p[1] = i
      BY <1>5
    <2>2. p \in Candidates /\ p = <<i, p[2]>>
      BY <2>1, MatchesExist DEF Candidates, Pairs
    <2>3. tracks'[j] = Measured(tracks[i], p[2])
      BY <1>2, <2>1 DEF Updated
    <2>4. classes[p[2]] = tracks[i].class
      BY <2>1, <2>2 DEF Candidates
    <2>5. /\ tracks'[j].id = tracks[i].id /\ tracks'[j].class = classes[p[2]]
          /\ tracks'[j].box = p[2]
      BY <1>2, <2>3 DEF Measured, Track
    <2> QED BY <1>1, <1>3, <2>1, <2>2, <2>4, <2>5
  <1> QED BY <1>4, <1>5

\* A matched track stays.
LEMMA MatchedStays ==
    ASSUME TrackerOK, phase = "match",
           NEW A, NEW k \in Seq(DOMAIN tracks), NEW l \in Seq(DOMAIN classes),
           Updated(A, k, l), NEW p \in Matches
    PROVE  \E j \in 1 .. Len(k) : k[j] = p[1] /\ tracks'[j].box = p[2]
  <1>1. p \in Candidates /\ p \in Pairs /\ p = <<p[1], p[2]>>
    BY MatchesExist DEF Candidates, Pairs
  <1>2. p[1] \in DOMAIN tracks /\ tracks[p[1]] \in Track
    BY <1>1 DEF Pairs, TrackerOK
  <1>3. A[p[1]] = Measured(tracks[p[1]], p[2])
    BY DEF Updated
  <1>4. A[p[1]].missed = 0 /\ A[p[1]].box = p[2]
    BY <1>2, <1>3 DEF Measured, Track
  <1>5. p[1] \in Range(k)
    <2>1. A[p[1]].missed <= MaxMissed
      BY <1>4, TrackerAssumption
    <2> QED BY <1>2, <2>1 DEF Updated
  <1>6. PICK j \in 1 .. Len(k) : k[j] = p[1]
    BY <1>5 DEF Range
  <1>7. tracks'[j] = A[p[1]]
    BY <1>6 DEF Updated
  <1> QED BY <1>4, <1>6, <1>7

\* The others are new.
LEMMA NewTracks ==
    ASSUME TrackerOK, phase = "match",
           NEW A, NEW k \in Seq(DOMAIN tracks), NEW l \in Seq(DOMAIN classes),
           Updated(A, k, l), NEW i \in DOMAIN tracks', i \notin 1 .. Len(k)
    PROVE  \E j \in 1 .. Len(l) :
              /\ i = Len(k) + j /\ j \in Nat
              /\ l[j] \in DOMAIN classes /\ \A p \in Matches : p[2] # l[j]
              /\ tracks'[i].id = nextId + (j - 1)
              /\ tracks'[i].class = classes[l[j]]
              /\ tracks'[i].box = l[j]
  <1>1. PICK m \in Nat, n \in Nat : m = Len(k) /\ n = Len(l)
    OBVIOUS
  <1>2. i \in 1 .. m + n
    BY <1>1 DEF Updated
  <1>3. PICK j \in 1 .. n : i = m + j
    <2>1. i - m \in 1 .. n /\ i = m + (i - m)
      BY <1>1, <1>2
    <2> QED BY <2>1
  <1>4. tracks'[i] = Started(l[j], j - 1)
    BY <1>1, <1>3 DEF Updated
  <1>5. l[j] \in DOMAIN classes /\ l[j] \in Range(l)
    BY <1>1, <1>3 DEF Range
  <1>6. \A p \in Matches : p[2] # l[j]
    BY <1>5 DEF Updated
  <1> QED BY <1>1, <1>3, <1>4, <1>5, <1>6 DEF Started, NewTrack

\* So every detection is on exactly one track after the frame, of its class.
LEMMA DetectionHasTrack ==
    ASSUME TrackerOK, phase = "match",
           NEW A, NEW k \in Seq(DOMAIN tracks), NEW l \in Seq(DOMAIN classes),
           Updated(A, k, l), NEW d \in DOMAIN classes
    PROVE  \E i \in DOMAIN tracks' :
              /\ tracks'[i].class = classes[d]
              /\ \A j \in DOMAIN tracks' : tracks'[j].box = d <=> j = i
  <1>1. d # 0
    BY DEF TrackerOK
  <1>2. ASSUME NEW j \in 1 .. Len(k)
        PROVE  /\ j \in DOMAIN tracks' /\ tracks'[j].class = tracks[k[j]].class
               /\ tracks'[j].box = d => <<k[j], d>> \in Matches
    <2>1. KeptTracks(k)
      BY KeptTrack
    <2> QED BY <1>1, <2>1 DEF KeptTracks
  <1>3. CASE \E p \in Matches : p[2] = d
    <2>1. PICK p \in Matches : p[2] = d
      BY <1>3
    <2>2. PICK i \in 1 .. Len(k) : k[i] = p[1] /\ tracks'[i].box = d
      BY <2>1, MatchedStays
    <2>3. i \in DOMAIN tracks' /\ tracks'[i].class = classes[d]
      <3>1. i \in DOMAIN tracks' /\ tracks'[i].class = tracks[k[i]].class
        BY <1>2
      <3>2. p \in Candidates
        BY MatchesExist
      <3> QED BY <2>1, <2>2, <3>1, <3>2 DEF Candidates
    <2>4. ASSUME NEW j \in DOMAIN tracks', tracks'[j].box = d PROVE j = i
      <3>1. CASE j \in 1 .. Len(k)
        <4>1. <<k[j], d>> \in Matches
          BY <1>2, <2>4, <3>1
        <4>2. <<k[j], d>> = p
          BY <2>1, <4>1, MatchedOnce DEF Apart
        <4>3. k[j] = k[i]
          BY <2>2, <4>2
        <4> QED BY <2>2, <3>1, <4>3 DEF Updated, IsInjective
      <3>2. CASE j \notin 1 .. Len(k)
        <4>1. PICK n \in 1 .. Len(l) : /\ \A q \in Matches : q[2] # l[n]
                                      /\ tracks'[j].box = l[n]
          BY <3>2, NewTracks
        <4> QED BY <2>1, <2>4, <4>1
      <3> QED BY <3>1, <3>2
    <2> QED BY <2>2, <2>3, <2>4
  <1>4. CASE \A p \in Matches : p[2] # d
    <2>1. d \in Range(l)
      BY <1>4 DEF Updated
    <2>2. PICK m \in 1 .. Len(l) : l[m] = d
      BY <2>1 DEF Range
    <2>3. PICK i \in Nat : i = Len(k) + m
      OBVIOUS
    <2>4. /\ i \in DOMAIN tracks' /\ i \notin 1 .. Len(k)
      BY <2>3 DEF Updated
    <2>5. tracks'[i] = Started(d, m - 1)
      BY <2>2, <2>3 DEF Updated
    <2>6. tracks'[i].class = classes[d] /\ tracks'[i].box = d
      BY <2>5 DEF Started, NewTrack
    <2>7. ASSUME NEW j \in DOMAIN tracks', tracks'[j].box = d PROVE j = i
      <3>1. CASE j \in 1 .. Len(k)
        <4>1. <<k[j], d>> \in Matches
          BY <1>2, <2>7, <3>1
        <4> QED BY <1>4, <4>1
      <3>2. CASE j \notin 1 .. Len(k)
        <4>1. PICK n \in 1 .. Len(l) : j = Len(k) + n /\ tracks'[j].box = l[n]
          BY <3>2, NewTracks
        <4>2. n = m
          BY <2>2, <2>7, <4>1 DEF Updated, IsInjective
        <4> QED BY <2>3, <4>1, <4>2
      <3> QED BY <3>1, <3>2
    <2> QED BY <2>4, <2>6, <2>7
  <1> QED BY <1>3, <1>4

\* The ids stay distinct, and below the next one.
LEMMA IdsStayDistinct ==
    ASSUME TrackerOK, phase = "match",
           NEW A, NEW k \in Seq(DOMAIN tracks), NEW l \in Seq(DOMAIN classes),
           Updated(A, k, l)
    PROVE  /\ \A i, j \in DOMAIN tracks' : tracks'[i].id = tracks'[j].id => i = j
           /\ nextId' \in Nat
           /\ \A i \in DOMAIN tracks' : tracks'[i].id < nextId'
  <1>1. PICK b \in Nat : b = Len(l)
    OBVIOUS
  <1>2. PICK n \in Nat : n = nextId
    BY DEF TrackerOK
  <1>3. nextId' = n + b
    BY <1>1, <1>2 DEF Updated
  <1>4. ASSUME NEW i \in 1 .. Len(k)
        PROVE  /\ tracks'[i].id = tracks[k[i]].id /\ k[i] \in DOMAIN tracks
               /\ tracks'[i].id \in Nat /\ tracks'[i].id < n
    <2>1. tracks'[i].id = tracks[k[i]].id /\ k[i] \in DOMAIN tracks
      <3>1. KeptTracks(k)
        BY KeptTrack
      <3> QED BY <3>1 DEF KeptTracks
    <2>2. PICK x \in DOMAIN tracks : x = k[i]
      BY <2>1
    <2>3. tracks[x] \in Track /\ tracks[x].id < n
      BY <1>2 DEF TrackerOK
    <2>4. tracks[x].id \in Nat
      BY <2>3 DEF Track
    <2> QED BY <2>1, <2>2, <2>3, <2>4
  <1>5. ASSUME NEW i \in DOMAIN tracks', i \notin 1 .. Len(k)
        PROVE  \E j \in 1 .. b : i = Len(k) + j /\ tracks'[i].id = n + (j - 1)
    BY <1>1, <1>2, <1>5, NewTracks
  <1>6. ASSUME NEW i \in DOMAIN tracks' PROVE tracks'[i].id < nextId'
    <2>1. CASE i \in 1 .. Len(k)
      BY <1>3, <1>4, <2>1
    <2>2. CASE i \notin 1 .. Len(k)
      BY <1>3, <1>5, <2>2
    <2> QED BY <2>1, <2>2
  <1>7. ASSUME NEW i \in DOMAIN tracks', NEW j \in DOMAIN tracks',
               tracks'[i].id = tracks'[j].id
        PROVE  i = j
    <2>1. CASE i \in 1 .. Len(k) /\ j \in 1 .. Len(k)
      <3>1. /\ k[i] \in DOMAIN tracks /\ k[j] \in DOMAIN tracks
            /\ tracks[k[i]].id = tracks[k[j]].id
        BY <1>4, <1>7, <2>1
      <3>2. k[i] = k[j]
        BY <3>1, Zenon DEF TrackerOK
      <3> QED BY <2>1, <3>2 DEF Updated, IsInjective
    <2>2. CASE i \in 1 .. Len(k) /\ j \notin 1 .. Len(k)
      <3>1. PICK m \in 1 .. b : tracks'[j].id = n + (m - 1)
        BY <1>5, <2>2
      <3>2. tracks'[i].id \in Nat /\ tracks'[i].id < n
        BY <1>4, <2>2
      <3> QED BY <1>7, <3>1, <3>2
    <2>3. CASE i \notin 1 .. Len(k) /\ j \in 1 .. Len(k)
      <3>1. PICK m \in 1 .. b : tracks'[i].id = n + (m - 1)
        BY <1>5, <2>3
      <3>2. tracks'[j].id \in Nat /\ tracks'[j].id < n
        BY <1>4, <2>3
      <3> QED BY <1>7, <3>1, <3>2
    <2>4. CASE i \notin 1 .. Len(k) /\ j \notin 1 .. Len(k)
      <3>1. PICK m \in 1 .. b : i = Len(k) + m /\ tracks'[i].id = n + (m - 1)
        BY <1>5, <2>4
      <3>2. PICK o \in 1 .. b : j = Len(k) + o /\ tracks'[j].id = n + (o - 1)
        BY <1>5, <2>4
      <3>3. m = o
        BY <1>7, <3>1, <3>2
      <3> QED BY <3>1, <3>2, <3>3
    <2> QED BY <2>1, <2>2, <2>3, <2>4
  <1> QED BY <1>3, <1>6, <1>7

\* What the step says of the track of a match.
LEMMA HoldsIs ==
    ASSUME TrackerOK, phase = "match",
           NEW A, NEW k \in Seq(DOMAIN tracks), NEW l \in Seq(DOMAIN classes),
           Updated(A, k, l), NEW p \in Matches
    PROVE  Holds(p[1]) = p[2] /\ p[2] # 0
  <1>1. PICK d : d = p[2]
    OBVIOUS
  <1>2. d # 0
    <2>1. p[2] \in DOMAIN classes
      BY MatchesExist DEF Candidates, Pairs
    <2> QED BY <1>1, <2>1 DEF TrackerOK
  <1>3. PICK j \in 1 .. Len(k) : k[j] = p[1] /\ tracks'[j].box = d
    BY <1>1, MatchedStays
  <1>4. PICK id : id = tracks[p[1]].id
    OBVIOUS
  <1>5. j \in DOMAIN tracks' /\ tracks'[j].id = id
    <2>1. j \in DOMAIN tracks'
      BY DEF Updated
    <2>2. KeptTracks(k)
      BY KeptTrack
    <2>3. tracks'[j].id = tracks[k[j]].id
      BY <2>2 DEF KeptTracks
    <2> QED BY <1>3, <1>4, <2>1, <2>3
  <1> DEFINE Same == {t \in ToSet(tracks') : t.id = id}
  <1>6. tracks'[j] \in Same
    BY <1>5 DEF ToSet
  <1>7. ASSUME NEW t \in Same PROVE t.box = d
    <2>1. PICK i \in DOMAIN tracks' : t = tracks'[i]
      BY DEF ToSet
    <2>2. i = j
      <3>1. \A x, y \in DOMAIN tracks' : tracks'[x].id = tracks'[y].id => x = y
        BY IdsStayDistinct
      <3> QED BY <1>5, <2>1, <3>1
    <2> QED BY <1>3, <2>1, <2>2
  <1>8. PICK t \in Same : t = CHOOSE x \in ToSet(tracks') : x.id = id
    BY <1>6
  <1>9. Holds(p[1]) = IF \E x \in ToSet(tracks') : x.id = id /\ x.box # 0
                      THEN t.box ELSE 0
    BY <1>4, <1>8 DEF Holds
  <1>10. \E x \in ToSet(tracks') : x.id = id /\ x.box # 0
    BY <1>2, <1>6, <1>7
  <1> QED BY <1>1, <1>2, <1>7, <1>9, <1>10

\* A match that was not made has a rival at least as good.
LEMMA Rivalled ==
    ASSUME TrackerOK, phase = "match", NEW p \in Candidates
    PROVE  \E q \in Matches : ~Apart(p, q) /\ overlap[q] >= overlap[p]
                              /\ q = <<q[1], q[2]>> /\ q[1] \in DOMAIN tracks
  <1>1. Matches \in SUBSET Candidates /\ Greedy(Matches)
    BY MatchesExist
  <1>2. \A q \in Candidates : /\ q = <<q[1], q[2]>> /\ q[1] \in DOMAIN tracks
                              /\ overlap[q] \in Nat
    BY DEF TrackerOK, Candidates, Pairs
  <1>3. CASE p \in Matches
    BY <1>1, <1>2, <1>3 DEF Apart
  <1>4. CASE p \notin Matches
    <2>1. PICK q \in Matches : Before(q, p) /\ ~Apart(p, q)
      BY <1>1, <1>4 DEF Greedy
    <2>2. overlap[q] \in Nat /\ overlap[p] \in Nat
      BY <1>1, <1>2
    <2>3. overlap[q] >= overlap[p]
      BY <2>1, <2>2 DEF Before
    <2> QED BY <1>1, <1>2, <2>1, <2>3
  <1> QED BY <1>3, <1>4

\* Both properties hold of every frame.
Stable ==
    \A p \in Pairs :
        tracks[p[1]].class = classes[p[2]] /\ overlap[p] >= Threshold =>
            \/ Holds(p[1]) # 0 /\ overlap[<<p[1], Holds(p[1])>>] >= overlap[p]
            \/ \E i \in DOMAIN tracks : /\ Holds(i) = p[2]
                                        /\ overlap[<<i, p[2]>>] >= overlap[p]

LEMMA FrameIsStable ==
    ASSUME TrackerOK, Update
    PROVE  Stable
  <1>1. phase = "match"
    BY DEF Update
  <1>2. PICK A : \E k \in Seq(DOMAIN tracks), l \in Seq(DOMAIN classes) : Updated(A, k, l)
    BY UpdateIs
  <1>3. PICK k \in Seq(DOMAIN tracks), l \in Seq(DOMAIN classes) : Updated(A, k, l)
    BY <1>2
  <1>4. \A q \in Matches : Holds(q[1]) = q[2] /\ q[2] # 0
    BY <1>1, <1>3, HoldsIs
  <1> SUFFICES ASSUME NEW p \in Pairs,
                      tracks[p[1]].class = classes[p[2]], overlap[p] >= Threshold
               PROVE  \/ Holds(p[1]) # 0 /\ overlap[<<p[1], Holds(p[1])>>] >= overlap[p]
                      \/ \E i \in DOMAIN tracks :
                            Holds(i) = p[2] /\ overlap[<<i, p[2]>>] >= overlap[p]
    BY DEF Stable
  <1>5. p \in Candidates
    BY DEF Candidates
  <1>6. PICK q \in Matches : ~Apart(p, q) /\ overlap[q] >= overlap[p]
                             /\ q = <<q[1], q[2]>> /\ q[1] \in DOMAIN tracks
    BY <1>1, <1>5, Rivalled
  <1>7. CASE q[1] = p[1]
    <2>1. Holds(p[1]) = q[2] /\ q[2] # 0
      BY <1>4, <1>7
    <2>2. <<p[1], Holds(p[1])>> = q
      BY <1>6, <1>7, <2>1
    <2> QED BY <1>6, <2>1, <2>2
  <1>8. CASE q[2] = p[2]
    <2>1. Holds(q[1]) = p[2] /\ <<q[1], p[2]>> = q
      BY <1>4, <1>6, <1>8
    <2> QED BY <1>6, <2>1
  <1> QED BY <1>6, <1>7, <1>8 DEF Apart

Placed ==
    /\ \A d \in DOMAIN classes :
          \E i \in DOMAIN tracks' :
             /\ tracks'[i].class = classes[d]
             /\ \A j \in DOMAIN tracks' : tracks'[j].box = d <=> j = i
    /\ \A t \in ToSet(tracks') :
          \/ t.id >= nextId
          \/ \E s \in ToSet(tracks) : s.id = t.id /\ s.class = t.class
    /\ \A i, j \in DOMAIN tracks' : tracks'[i].id = tracks'[j].id => i = j

LEMMA FrameIsPlaced ==
    ASSUME TrackerOK, Update
    PROVE  Placed
  <1>1. phase = "match"
    BY DEF Update
  <1>2. PICK A : \E k \in Seq(DOMAIN tracks), l \in Seq(DOMAIN classes) : Updated(A, k, l)
    BY UpdateIs
  <1>3. PICK k \in Seq(DOMAIN tracks), l \in Seq(DOMAIN classes) : Updated(A, k, l)
    BY <1>2
  <1>4. ASSUME NEW d \in DOMAIN classes
        PROVE  \E i \in DOMAIN tracks' :
                  /\ tracks'[i].class = classes[d]
                  /\ \A j \in DOMAIN tracks' : tracks'[j].box = d <=> j = i
    BY <1>1, <1>3, DetectionHasTrack
  <1>5. ASSUME NEW i \in DOMAIN tracks'
        PROVE  \/ tracks'[i].id >= nextId
               \/ \E s \in ToSet(tracks) : /\ s.id = tracks'[i].id
                                           /\ s.class = tracks'[i].class
    <2>1. CASE i \in 1 .. Len(k)
      <3>1. /\ k[i] \in DOMAIN tracks
            /\ tracks'[i].id = tracks[k[i]].id
            /\ tracks'[i].class = tracks[k[i]].class
        <4>1. KeptTracks(k)
          BY <1>1, <1>3, KeptTrack
        <4> QED BY <2>1, <4>1 DEF KeptTracks
      <3>2. tracks[k[i]] \in ToSet(tracks)
        BY <3>1 DEF ToSet
      <3> QED BY <3>1, <3>2
    <2>2. CASE i \notin 1 .. Len(k)
      <3>1. PICK j \in 1 .. Len(l) : j \in Nat /\ tracks'[i].id = nextId + (j - 1)
        BY <1>1, <1>3, <2>2, NewTracks
      <3>2. nextId \in Nat /\ j >= 1
        BY DEF TrackerOK
      <3> QED BY <3>1, <3>2
    <2> QED BY <2>1, <2>2
  <1>6. \A i, j \in DOMAIN tracks' : tracks'[i].id = tracks'[j].id => i = j
    BY <1>1, <1>3, IdsStayDistinct
  <1>7. ASSUME NEW t \in ToSet(tracks')
        PROVE  \/ t.id >= nextId
               \/ \E s \in ToSet(tracks) : s.id = t.id /\ s.class = t.class
    <2>1. PICK i \in DOMAIN tracks' : t = tracks'[i]
      BY DEF ToSet
    <2> QED BY <1>5, <2>1
  <1> QED BY <1>4, <1>6, <1>7 DEF Placed

\* The invariant is kept.
LEMMA UpdateKeeps ==
    ASSUME TrackerOK, Update
    PROVE  TrackerOK'
  <1>1. phase = "match" /\ phase' = "idle"
    BY DEF Update
  <1>2. PICK A : \E k \in Seq(DOMAIN tracks), l \in Seq(DOMAIN classes) : Updated(A, k, l)
    BY UpdateIs
  <1>3. PICK k \in Seq(DOMAIN tracks), l \in Seq(DOMAIN classes) : Updated(A, k, l)
    BY <1>2
  <1>4. tracks' \in Seq(Track)
    BY <1>3 DEF Updated
  <1>5. /\ \A i, j \in DOMAIN tracks' : tracks'[i].id = tracks'[j].id => i = j
        /\ nextId' \in Nat
        /\ \A i \in DOMAIN tracks' : tracks'[i].id < nextId'
    BY <1>1, <1>3, IdsStayDistinct
  <1> QED BY <1>1, <1>4, <1>5 DEF TrackerOK

LEMMA PredictKeeps ==
    ASSUME TrackerOK, Predict
    PROVE  TrackerOK'
  <1>1. PICK n \in 0 .. MaxDetections : classes' \in [1 .. n -> Classes]
    BY DEF Predict
  <1>2. classes' \in Seq(Classes)
    <2>1. n \in Nat
      BY TrackerAssumption
    <2> QED BY <1>1, <2>1
  <1>3. overlap' \in [Pairs' -> Nat]
    <2>1. overlap' \in [Pairs' -> 0 .. Top] /\ 0 .. Top \subseteq Nat
      BY TrackerAssumption DEF Predict, Pairs
    <2> QED BY <2>1
  <1> QED BY <1>2, <1>3 DEF TrackerOK, Predict

\* The shared state of a camera.  While the worker writes a result it holds the lock,
\* and the buffers already hold the tracks; otherwise they hold the result published.
Copied ==
    /\ source = published.frame
    /\ count = IF Len(published.boxes) < Capacity THEN Len(published.boxes) ELSE Capacity
    /\ \A i \in 1 .. count : buffer[i] = published.boxes[i]

SharedOK ==
    /\ step \in {"track", "publish", "count"}
    /\ step # "track" => phase = "idle"
    /\ buffer \in [1 .. Capacity -> Nat]
    /\ published.boxes \in Seq(Nat)
    /\ step = "count" =>
          /\ locked
          /\ \A i \in 1 .. Capacity : i <= Len(tracks) => buffer[i] = tracks[i].id
    /\ step # "count" => Copied

UseCaseInv == TrackerOK /\ SharedOK

LEMMA BoxesOfTracks ==
    ASSUME TrackerOK
    PROVE  /\ Result.frame = frames /\ Result.boxes \in Seq(Nat)
           /\ Len(tracks) \in Nat /\ Len(Result.boxes) = Len(tracks)
           /\ \A i \in 1 .. Len(tracks) : /\ Result.boxes[i] = tracks[i].id
                                          /\ tracks[i].id \in Nat
  <1>1. /\ Len(tracks) \in Nat /\ DOMAIN tracks = 1 .. Len(tracks)
        /\ \A i \in 1 .. Len(tracks) : tracks[i] \in Track
    BY DEF TrackerOK
  <1>2. \A i \in 1 .. Len(tracks) : tracks[i].id \in Nat
    BY <1>1 DEF Track
  <1> DEFINE b == [i \in DOMAIN tracks |-> tracks[i].id]
  <1>3. b \in [1 .. Len(tracks) -> Nat]
    BY <1>1, <1>2
  <1>4. b \in Seq(Nat) /\ Len(b) = Len(tracks)
    BY <1>1, <1>3
  <1>5. Result.frame = frames /\ Result.boxes = b
    BY DEF Result
  <1>6. \A i \in 1 .. Len(tracks) : b[i] = tracks[i].id
    BY <1>1
  <1> HIDE DEF b
  <1> QED BY <1>1, <1>2, <1>4, <1>5, <1>6

LEMMA InitUseCaseInv ==
    ASSUME InitUseCase
    PROVE  UseCaseInv
  <1>1. TrackerOK
    BY DEF InitUseCase, InitTracker, TrackerOK
  <1>2. Len(published.boxes) = 0 /\ published.frame = 0 /\ published.boxes \in Seq(Nat)
    <2>1. Len(tracks) = 0 /\ frames = 0 /\ published = Result
      BY DEF InitUseCase, InitTracker
    <2> QED BY <1>1, <2>1, BoxesOfTracks
  <1>3. Capacity \in Nat /\ Capacity > 0
    BY CapacityAssumption
  <1>4. Copied
    BY <1>2, <1>3 DEF InitUseCase, Copied
  <1>5. SharedOK
    BY <1>2, <1>4 DEF InitUseCase, InitTracker, SharedOK
  <1> QED BY <1>1, <1>5 DEF UseCaseInv

LEMMA NextUseCaseInv ==
    ASSUME UseCaseInv, [NextUseCase]_useCaseVars
    PROVE  UseCaseInv'
  <1>0. TrackerOK /\ SharedOK
    BY DEF UseCaseInv
  <1>1. CASE PredictFrame
    <2>1. TrackerOK'
      BY <1>0, <1>1, PredictKeeps DEF PredictFrame
    <2>2. SharedOK'
      BY <1>0, <1>1 DEF PredictFrame, SharedOK, Copied, sharedVars
    <2> QED BY <2>1, <2>2 DEF UseCaseInv
  <1>2. CASE Analyze
    <2>1. TrackerOK'
      BY <1>0, <1>2, UpdateKeeps DEF Analyze
    <2>2. phase = "match" /\ phase' = "idle" /\ step' = "publish" /\ UNCHANGED sharedVars
      BY <1>2 DEF Analyze, Update
    <2>3. step = "track"
      BY <1>0, <2>2 DEF SharedOK
    <2>4. SharedOK'
      BY <1>0, <2>2, <2>3 DEF SharedOK, Copied, sharedVars
    <2> QED BY <2>1, <2>4 DEF UseCaseInv
  <1>3. CASE FillBuffers
    <2>1. TrackerOK'
      BY <1>0, <1>3 DEF FillBuffers, trackerVars, TrackerOK, Pairs
    <2>2. Capacity \in Nat
      BY CapacityAssumption
    <2>3. ASSUME NEW i \in 1 .. Capacity
          PROVE  /\ buffer'[i] = IF i <= Len(tracks) THEN tracks[i].id ELSE buffer[i]
                 /\ buffer'[i] \in Nat
      <3>1. buffer'[i] = IF i <= Len(tracks) THEN tracks[i].id ELSE buffer[i]
        BY <1>3 DEF FillBuffers
      <3>2. buffer[i] \in Nat
        BY <1>0 DEF SharedOK
      <3>3. i <= Len(tracks) => tracks[i].id \in Nat
        BY <1>0, <2>2, BoxesOfTracks
      <3> QED BY <3>1, <3>2, <3>3
    <2>4. buffer' \in [1 .. Capacity -> Nat]
      BY <1>3, <2>3 DEF FillBuffers
    <2>5. SharedOK'
      BY <1>0, <1>3, <2>3, <2>4 DEF FillBuffers, SharedOK, trackerVars
    <2> QED BY <2>1, <2>5 DEF UseCaseInv
  <1>4. CASE SetCounts
    <2>1. TrackerOK'
      BY <1>0, <1>4 DEF SetCounts, trackerVars, TrackerOK, Pairs
    <2>2. PICK n \in Nat, c \in Nat : n = Len(tracks) /\ c = Capacity
      BY <1>0, CapacityAssumption, BoxesOfTracks
    <2>3. /\ published'.frame = source' /\ published'.boxes \in Seq(Nat)
          /\ Len(published'.boxes) = n
          /\ \A i \in 1 .. n : published'.boxes[i] = tracks[i].id
      BY <1>0, <1>4, <2>2, BoxesOfTracks DEF SetCounts
    <2>4. count' = IF n < c THEN n ELSE c
      BY <1>4, <2>2 DEF SetCounts
    <2>5. ASSUME NEW i \in 1 .. count' PROVE buffer'[i] = published'.boxes[i]
      <3>1. i \in 1 .. n /\ i \in 1 .. c
        BY <2>4
      <3>2. step = "count" /\ buffer' = buffer
        BY <1>4 DEF SetCounts
      <3>3. buffer[i] = tracks[i].id
        BY <1>0, <2>2, <3>1, <3>2 DEF SharedOK
      <3> QED BY <2>3, <3>1, <3>2, <3>3
    <2>6. Copied'
      BY <2>2, <2>3, <2>4, <2>5 DEF Copied
    <2>7. SharedOK'
      BY <1>0, <1>4, <2>3, <2>6 DEF SetCounts, SharedOK, trackerVars
    <2> QED BY <2>1, <2>7 DEF UseCaseInv
  <1>5. CASE UNCHANGED useCaseVars
    BY <1>0, <1>5 DEF useCaseVars, trackerVars, sharedVars, UseCaseInv, TrackerOK, Pairs,
                      SharedOK, Copied
  <1> QED BY <1>1, <1>2, <1>3, <1>4, <1>5 DEF NextUseCase

LEMMA UseCaseInvariant == UseCaseSpec => []UseCaseInv
  <1>1. InitUseCase => UseCaseInv
    BY InitUseCaseInv
  <1>2. UseCaseInv /\ [NextUseCase]_useCaseVars => UseCaseInv'
    BY NextUseCaseInv
  <1> QED BY <1>1, <1>2, PTL DEF UseCaseSpec

\* A step of the use case that changes the tracker while it matches is an update.
LEMMA MatchStep ==
    ASSUME UseCaseInv, [NextUseCase]_useCaseVars, phase = "match"
    PROVE  Update \/ UNCHANGED trackerVars
  BY DEF NextUseCase, PredictFrame, Predict, Analyze, FillBuffers, SetCounts, useCaseVars

\* The greedy choice of the tracker is stable (update in tracker.py): a track and a
\* detection it could be matched with are only kept apart by a partner of one of them
\* that overlaps at least as much, whatever the overlaps and with any ties.
THEOREM NoTrackIsRobbed == UseCaseSpec => MatchingIsStable
  <1>1. UseCaseInv /\ [NextUseCase]_useCaseVars => [phase = "match" => Stable]_trackerVars
    <2> SUFFICES ASSUME UseCaseInv, [NextUseCase]_useCaseVars, phase = "match",
                        ~UNCHANGED trackerVars
                 PROVE  Stable
      OBVIOUS
    <2>1. Update
      BY MatchStep
    <2> QED BY <2>1, FrameIsStable DEF UseCaseInv
  <1>2. [][phase = "match" => Stable]_trackerVars => MatchingIsStable
    BY Zenon DEF MatchingIsStable, Stable
  <1> QED BY <1>1, <1>2, UseCaseInvariant, PTL DEF UseCaseSpec

\* Every detection of a frame ends up on exactly one track, of its class; tracks keep
\* their class, and ids are never given out twice (update in tracker.py).
THEOREM DetectionsAreTracked == UseCaseSpec => OneTrackPerDetection
  <1>1. UseCaseInv /\ [NextUseCase]_useCaseVars => [phase = "match" => Placed]_trackerVars
    <2> SUFFICES ASSUME UseCaseInv, [NextUseCase]_useCaseVars, phase = "match",
                        ~UNCHANGED trackerVars
                 PROVE  Placed
      OBVIOUS
    <2>1. Update
      BY MatchStep
    <2> QED BY <2>1, FrameIsPlaced DEF UseCaseInv
  <1>2. [][phase = "match" => Placed]_trackerVars => OneTrackPerDetection
    BY Zenon DEF OneTrackPerDetection, Placed
  <1> QED BY <1>1, <1>2, UseCaseInvariant, PTL DEF UseCaseSpec

\* What the renderer reads from the shared buffers of a camera is one result, whole or
\* cut off at the capacity, whatever its size and that of the results before it
\* (write_snapshot and read_snapshot in state.py).
THEOREM SnapshotsAreWhole == UseCaseSpec => []SnapshotIsOneFrame
  <1>1. UseCaseInv => SnapshotIsOneFrame
    <2> SUFFICES ASSUME UseCaseInv, ~locked
                 PROVE  /\ Snapshot.frame = published.frame
                        /\ Snapshot.boxes
                              = SubSeq(published.boxes, 1, Len(Snapshot.boxes))
                        /\ Len(Snapshot.boxes) \in {Len(published.boxes), Capacity}
      BY DEF SnapshotIsOneFrame
    <2>1. SharedOK /\ Copied
      BY DEF UseCaseInv, SharedOK
    <2>2. PICK n \in Nat, c \in Nat, m \in Nat :
             /\ n = Len(published.boxes) /\ c = Capacity
             /\ m = count /\ m = (IF n < c THEN n ELSE c)
      BY <2>1, CapacityAssumption DEF SharedOK, Copied
    <2>3. PICK b \in Seq(Nat), r \in Seq(Nat) :
             b = buffer /\ r = published.boxes /\ Len(b) = c /\ Len(r) = n
      <3>1. buffer \in [1 .. c -> Nat]
        BY <2>1, <2>2 DEF SharedOK
      <3>2. buffer \in Seq(Nat) /\ Len(buffer) = c
        BY <3>1
      <3>3. published.boxes \in Seq(Nat)
        BY <2>1 DEF SharedOK
      <3> QED BY <2>2, <3>2, <3>3
    <2>4. \A i \in 1 .. m : b[i] = r[i]
      BY <2>1, <2>2, <2>3 DEF Copied
    <2>5. m <= n /\ m <= c
      BY <2>2
    <2>6. Len(SubSeq(b, 1, m)) = m /\ SubSeq(b, 1, m) = SubSeq(r, 1, m)
      BY <2>3, <2>4, <2>5
    <2>7. Snapshot.frame = source /\ Snapshot.boxes = SubSeq(b, 1, m)
      BY <2>2, <2>3 DEF Snapshot
    <2> QED BY <2>1, <2>2, <2>3, <2>6, <2>7 DEF Copied
  <1> QED BY <1>1, UseCaseInvariant, PTL
=============================================================================
