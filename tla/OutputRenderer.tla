--------------------------- MODULE OutputRenderer ---------------------------
(***************************************************************************)
(* UseCaseOutputRenderer for one camera of one use case: the steady-rate   *)
(* renderer thread, the camera thread that fills the delayed raw buffer,   *)
(* and the use-case worker that writes inference results.  Cameras do not  *)
(* interact, so one is enough.                                             *)
(*                                                                         *)
(* An image is the sequence of its raw frame; a picture shown is           *)
(* [raw |-> frame, boxes |-> frame its boxes were computed from, 0 if it   *)
(* has none].  Time is a discrete clock read by every thread.              *)
(***************************************************************************)
EXTENDS Naturals, Sequences, FiniteSets, SequencesExt

CONSTANTS Modes,       \* output render modes explored
          Delay,       \* alignment_delay_ms
          BufferSize,  \* frame_buffer_size
          Ttl,         \* prediction_ttl_ms
          MaxFrames,   \* bound: frames captured
          MaxTime      \* bound: clock

ASSUME RendererAssumption ==
    /\ Modes \subseteq {"delayed_matched", "inference_only", "latest_predictions"}
    /\ Delay \in Nat
    /\ BufferSize \in Nat /\ BufferSize >= 2
    /\ Ttl \in Nat /\ MaxFrames \in Nat /\ MaxTime \in Nat

VARIABLES mode,        \* monitoring.render_mode
          now,         \* time.time()
          slot,        \* sequence in the raw slot
          taken,       \* taken[n]: timestamp of frame n
          buffered,    \* last_raw_sequences: last frame put into raws
          raws,        \* raw_buffers
          inference,   \* sequence in the inference slot
          result,      \* frame whose result waits for publish_result, or 0
          prediction,  \* frame of the published plugin snapshot, or 0
          cached,      \* last_inference_sequences
          infers,      \* inference_buffers
          pc,          \* renderer: "wait", "cache", "raw", "render"
          rnow,        \* render_once's now
          picked,      \* sequence render_once read from the raw slot, or 0
          shown,       \* picture in the output slot
          ready        \* history: frames whose result the renderer cached

cameraVars == <<slot, taken, buffered>>
workerVars == <<inference, result, prediction>>
vars == <<mode, now, cameraVars, raws, workerVars, cached, infers, pc, rnow,
          picked, shown, ready>>

Frames == 1 .. MaxFrames
Blank == [raw |-> 0, boxes |-> 0]

\* Every buffered sequence is a captured frame and both deques are bounded.
TypeOK ==
    /\ mode \in Modes
    /\ now \in 0 .. MaxTime
    /\ slot \in 0 .. MaxFrames
    /\ taken \in Seq(0 .. MaxTime) /\ Len(taken) = slot
    /\ buffered \in 0 .. slot
    /\ raws \in Seq(1 .. slot) /\ Len(raws) <= BufferSize
    /\ inference \in 0 .. slot
    /\ result \in 0 .. slot
    /\ prediction \in 0 .. slot
    /\ cached \in 0 .. slot
    /\ infers \in Seq(1 .. slot) /\ Len(infers) <= BufferSize
    /\ pc \in {"wait", "cache", "raw", "render"}
    /\ rnow \in 0 .. now
    /\ picked \in 0 .. slot
    /\ shown \in [raw : 0 .. slot, boxes : 0 .. slot]
    /\ ready \subseteq 1 .. slot

Init ==
    /\ mode \in Modes
    /\ now = 0
    /\ slot = 0
    /\ taken = <<>>
    /\ buffered = 0
    /\ raws = <<>>
    /\ inference = 0
    /\ result = 0
    /\ prediction = 0
    /\ cached = 0
    /\ infers = <<>>
    /\ pc = "wait"
    /\ rnow = 0
    /\ picked = 0
    /\ shown = Blank
    /\ ready = {}

\* Mutant of Push: no maxlen.
PushUnbounded(s, x) == Append(s, x)

\* collections.deque(maxlen=BufferSize).append
Push(s, x) ==
    IF Len(s) < BufferSize THEN Append(s, x) ELSE Append(Tail(s), x)
-----------------------------------------------------------------------------
Tick ==
    /\ now < MaxTime
    /\ now' = now + 1
    /\ UNCHANGED <<mode, cameraVars, raws, workerVars, cached, infers, pc, rnow,
                   picked, shown, ready>>

\* The camera thread writes the raw slot; its callback follows before it
\* captures again.
Capture ==
    /\ slot < MaxFrames
    /\ slot = buffered
    /\ slot' = slot + 1
    /\ taken' = Append(taken, now)
    /\ UNCHANGED <<mode, now, buffered, raws, workerVars, cached, infers, pc,
                   rnow, picked, shown, ready>>

\* publish_frame -> buffer_raw_frame, which does nothing in the other modes.
BufferRaw ==
    /\ buffered < slot
    /\ buffered' = slot
    /\ raws' = IF mode = "delayed_matched" THEN Push(raws, slot) ELSE raws
    /\ UNCHANGED <<mode, now, slot, taken, workerVars, cached, infers, pc, rnow,
                   picked, shown, ready>>

\* Mutant of WriteInference: an older frame may come after a newer one.
WriteAnyInference(n) ==
    /\ result = 0 /\ n \in 1 .. slot
    /\ inference' = n /\ result' = n
    /\ UNCHANGED <<mode, now, cameraVars, raws, prediction, cached, infers, pc,
                   rnow, picked, shown, ready>>

\* The use-case worker finishes a frame it read earlier, never an older one than
\* last time (SignalRouting), and publishes the plugin snapshot afterwards.
WriteInference(n) ==
    /\ result = 0
    /\ n \in inference .. slot
    /\ n > 0
    /\ inference' = n
    /\ result' = n
    /\ UNCHANGED <<mode, now, cameraVars, raws, prediction, cached, infers, pc,
                   rnow, picked, shown, ready>>

PublishResult ==
    /\ result # 0
    /\ prediction' = result
    /\ result' = 0
    /\ UNCHANGED <<mode, now, cameraVars, raws, inference, cached, infers, pc,
                   rnow, picked, shown, ready>>
-----------------------------------------------------------------------------
(* render_once.                                                            *)

StartRender ==
    /\ pc = "wait"
    /\ pc' = IF mode = "delayed_matched" THEN "cache" ELSE "raw"
    /\ rnow' = now
    /\ UNCHANGED <<mode, now, cameraVars, raws, workerVars, cached, infers,
                   picked, shown, ready>>

CacheInference ==
    /\ pc = "cache"
    /\ pc' = "render"
    /\ IF inference \in {0, cached}
       THEN UNCHANGED <<cached, infers, ready>>
       ELSE /\ infers' = Push(infers, inference)
            /\ cached' = inference
            /\ ready' = ready \cup {inference}
    /\ UNCHANGED <<mode, now, cameraVars, raws, workerVars, rnow, picked, shown>>

\* The other modes copy the raw slot before they look at any result.
PickRaw ==
    /\ pc = "raw"
    /\ picked' = slot
    /\ pc' = IF slot = 0 THEN "wait" ELSE "render"
    /\ UNCHANGED <<mode, now, cameraVars, raws, workerVars, cached, infers, rnow,
                   shown, ready>>

\* now - alignment delay >= timestamp of frame n
Due(n) == taken[n] + Delay <= rnow

\* Mutant of NewestDue: the newest frame is due only after the delay has passed.
NewestPast(i) ==
    /\ \A j \in 2 .. i : taken[raws[j]] + Delay < rnow
    /\ i < Len(raws) => taken[raws[i + 1]] + Delay >= rnow

\* The first frames of the raw buffer are dropped as long as the next one is due:
\* raws[i] is the first that is left.
NewestDue(i) ==
    /\ \A j \in 2 .. i : Due(raws[j])
    /\ i < Len(raws) => ~Due(raws[i + 1])

\* Mutant of OldestKept: the result of the frame itself goes too.
OldestNewer(j, n) ==
    /\ \A k \in 1 .. j - 1 : infers[k] <= n
    /\ j <= Len(infers) => infers[j] > n

\* The first results are dropped as long as they are older than the frame to be
\* shown: infers[j] is the first that is left, if any is.
OldestKept(j, n) ==
    /\ \A k \in 1 .. j - 1 : infers[k] < n
    /\ j <= Len(infers) => infers[j] >= n

\* The result with the sequence of the frame.
BoxesFor(results, n) == IF n \in ToSet(results) THEN n ELSE 0

\* The first frame left is shown, with its result if it is there, when it is due.
ShowDelayed(i) ==
    LET n == raws[i] IN
    /\ raws' = SubSeq(raws, i, Len(raws))
    /\ IF Due(n)
       THEN \E j \in 1 .. Len(infers) + 1 :
               /\ OldestKept(j, n)
               /\ infers' = SubSeq(infers, j, Len(infers))
               /\ shown' = [raw |-> n, boxes |-> BoxesFor(infers', n)]
       ELSE UNCHANGED <<infers, shown>>

RenderDelayed ==
    /\ pc = "render" /\ mode = "delayed_matched"
    /\ IF raws = <<>> THEN UNCHANGED <<raws, infers, shown>>
       ELSE \E i \in 1 .. Len(raws) : NewestDue(i) /\ ShowDelayed(i)
    /\ pc' = "wait"
    /\ UNCHANGED <<mode, now, cameraVars, workerVars, cached, rnow, picked, ready>>

RenderInferenceOnly ==
    /\ pc = "render" /\ mode = "inference_only"
    /\ shown' = IF inference # 0 THEN [raw |-> inference, boxes |-> inference]
                ELSE [raw |-> picked, boxes |-> 0]
    /\ pc' = "wait" /\ picked' = 0
    /\ UNCHANGED <<mode, now, cameraVars, raws, workerVars, cached, infers, rnow,
                   ready>>

Expired(n) == n = 0 \/ rnow > taken[n] + Ttl

\* The snapshot may be of a later frame than the picture.
RenderLatest ==
    /\ pc = "render" /\ mode = "latest_predictions"
    /\ shown' = [raw |-> picked,
                 boxes |-> IF Expired(prediction) THEN 0 ELSE prediction]
    /\ pc' = "wait" /\ picked' = 0
    /\ UNCHANGED <<mode, now, cameraVars, raws, workerVars, cached, infers, rnow,
                   ready>>

Render == RenderDelayed \/ RenderInferenceOnly \/ RenderLatest

Next ==
    \/ Tick \/ Capture \/ BufferRaw
    \/ \E n \in Frames : WriteInference(n)
    \/ PublishResult
    \/ StartRender \/ CacheInference \/ PickRaw \/ Render

Spec == Init /\ [][Next]_vars
-----------------------------------------------------------------------------
\* delayed_matched shows, Delay behind the clock, exactly the newest frame
\* buffered by then, provided the buffer is long enough for the frames that
\* arrived since.
DueFrames == {n \in 1 .. buffered : Due(n)}
PlaysTimeline ==
    [][ RenderDelayed /\ DueFrames # {}
            /\ Cardinality((1 .. buffered) \ DueFrames) < BufferSize =>
          shown'.raw = Cardinality(DueFrames) ]_vars

\* A result the renderer cached before its frame is due is shown with it, unless
\* BufferSize newer results pushed it out.
ReadyResultIsShown ==
    [][ RenderDelayed /\ shown'.raw \in ready
            /\ Cardinality({m \in ready : m > shown'.raw}) < BufferSize
            /\ shown' # shown =>
          shown'.boxes = shown'.raw ]_vars
=============================================================================
