# Vision Stream Lab: formal models

This directory models the runtime of Vision Stream Lab in TLA+. The runtime moves
the newest frame of each camera through shared-memory slots to a set of worker
processes (one per use case), to a shared object detector, to an output renderer
and to an evidence recorder. TLC checks the models on small instances. TLAPS
proves the safety of the routing, the shared detector and its filters, the pacing of the
reader threads, the renderer, the object tracker, the two gates, the traffic light and the
evidence worker for all sizes. Paths below are
relative to the repository (`src/src/vision_stream_lab/...` in the `map` of
`PROJECT.json`, shortened here to `vsl/...`).

Contents

1. The system
2. The models, and how they correspond to the code
3. The runs, their bounds and what they show
4. Fairness
5. What is proved
6. What is only model-checked
7. Disagreements between the code and its documentation
8. What is not modelled
9. Plan
10. Running the tools

## 1. The system

One main process, one process per use-case deployment, one process per distinct
shared model specification, and an optional evidence process. They share
memory slots (one raw slot per camera, one inference slot and one output slot per
camera and use case), multiprocessing queues, and one stop event.

| Component | State it keeps | Operations | Talks to |
|---|---|---|---|
| Camera reader (`vsl/streaming/video_stream.py`, `manager.py`) | open capture, file position and clock, media pacer, sampler, online flag | open, read, retry, rewind, pace, publish, stop and join | writes the raw slot, calls `publish_frame` |
| Signal routing (`vsl/runtime/orchestrator.py`, `use_case_worker.py`) | `signal_pending` flag per camera, bounded signal queue per use case, counters | `publish_frame`, collect a batch, clear flags, read slots, infer, write results | raw slots, inference slots, pipelines |
| Shared detection (`vsl/runtime/inference_execution/shared_detection.py`) | request queue, pending deque, cache of the latest prediction per camera, one response queue per consumer | `predict_batch`, collect, copy exact frames, reject stale ones, infer, reply | use-case workers, raw slots |
| Output renderer (`vsl/runtime/output_renderer.py`) | raw and inference deques per camera, last sequences | `buffer_raw_frame`, `render_once` in three modes | raw and inference slots, plugin snapshot, output slot |
| Counting gate (`vsl/usecases/vehicle_counting/gate.py`) | phase, sides, counted directions per track id | `update`, `cleanup` | pipeline, tracker |
| Violation gate and rules (`vsl/usecases/red_light_violation/`) | phase, crossing snapshot, decision per track id | `update`, evaluate, apply, `cleanup` | pipeline, tracker, traffic light |
| Evidence (`vsl/alerting/evidence_worker.py`) | rolling JPEG buffer, pending events, event queue | sample, drain, finalize, flush at stop | raw slot, inference slot, event queue |
| Inference coordination (`vsl/runtime/inference_execution/coordinator.py`, `_build`, `vsl/inference/model_spec.py`) | none after start-up | group detectors by model, merge their filters | shared detection |
| Runtime lifecycle (`vsl/main.py`, `close`) | stop event, process list | start, stop, join, terminate, close slots | everything |
| Use-case result (`vsl/usecases/*/state.py`) | boxes, count and source sequence in shared buffers, one lock | `write_snapshot`, `read_snapshot` | use-case worker, renderer |
| Traffic light (`vsl/usecases/red_light_violation/traffic_light.py`) | the last lights of a camera | `classify`, `_smooth` | violation pipeline |
| Monitoring page (`vsl/monitoring/api.py`) | nothing but what a viewer last saw | `iter_mjpeg_frames` | output slot, raw slot |
| Object tracker (`vsl/usecases/object_detection/tracker.py`) | list of tracks of a camera, next track id | predict, match, measure, age, start, remove | object-detection pipeline |
| ByteTrack adapters, model execution, configuration composer, loader and schema, plugin registry, rendering and geometry, simulator | see section 8 | | |

What is hard about it, and therefore what the properties are about:

- the flag, the queue and the slot of a camera are three objects updated by two
  processes in separate critical sections: a wake-up can be lost, duplicated or
  refused by a full queue;
- a frame is named by its sequence and read from a slot that is overwritten under
  the reader: everything downstream must either use exactly that frame or notice;
- a synchronous request through two queues to a worker that batches, defers,
  fails and dies;
- three clocks in the renderer (capture, inference, render) and bounded
  deques between them;
- state machines per track id that see frames at irregular times, sometimes the
  same frame twice, and ids that vanish and come back;
- events whose clip is in the future when they are confirmed, and a shutdown that
  comes before it;
- reader threads that block in a library call while the main process gives up
  joining them;
- a shutdown whose joins are shorter than the waits of the processes they are for,
  and which terminates a process that may hold the lock of a slot.

`PROJECT.json` lists these under `hazards`, each at its line, with the properties
that would catch it going wrong or the reason there is none yet.

What makes each component correct:

| Component | Correct when |
|---|---|
| Signal routing | every unread frame is announced; no signal is queued twice or refused; one frame causes at most one unit of work; the inference slot never goes back; every frame or a newer one is processed |
| Shared detection | one reply per request, the right one, with one prediction per frame asked; nobody waits forever |
| Inference coordination | a consumer cannot tell a shared worker from a detector of its own |
| Lifecycle | shutdown ends, whatever hangs, and leaves no process running |
| Use-case result | a reader sees the result of one frame, never a mixture |
| Traffic light | the light reported is one that has been on for a while, and only that |
| Monitoring page | what a viewer sees does not jump back or fall back to raw pictures |
| Output renderer | boxes are drawn on the frame they belong to; the picture a viewer sees never goes back; the delayed timeline is exact; a result in time is used |
| Counting gate | counted exactly when the documented two-line schedule was observed; jitter and repeats do not count; once per id and direction |
| Violation gate | a violation only with its evidence; a run is judged by the light of its frame; verdicts are final; an early verdict equals every late one |
| Evidence | no event lost or bundled twice; clip complete; snapshot exact; bundle on time |
| Camera reader | a file plays at its own speed; a paced stream neither bursts nor drifts; no thread outlives the slots it writes (it may: section 7) |
| Object tracker | every detection has one track of its class; no track loses its object to a poorer fit; ids are not reused |

## 2. The models, and how they correspond to the code

An image is always represented by the sequence number of its frame: all
properties are about which frame something was computed from, never about pixels.
`VARIABLES` carry the name of the attribute or local variable they stand for in
their comment. One action is one critical section of a lock, one queue operation,
one call into a library, or the code between two of these. Operators with the
comment "Mutant of X" are wrong variants of `X`; no specification uses
them. They document which mistake each property would catch (`mutants` in
`PROJECT.json` pairs them up).

**`LatestFrame`** is the abstract specification of latest-frame transport: cameras
publish 1, 2, 3, ..., and a use case shows some published frame per camera and never
an older one than before. It has no queue, flag, batch or process.

**`SignalRouting`** is `publish_frame` (`Capture`, then one `Publish` per assigned
use case, in any order) and `UseCaseWorker.run` (the other actions, by program
counter: `check` the stop event, wait for the `first` signal, `collect` a batch
until it is full or its deadline passes, `clear` one flag, `read` its slot, `infer`,
`write` each result). `StaleDrop` is the shared detector's refusal, `WorkerFails`
any other exception: the worker's process ends and nothing restarts it. It
implements `LatestFrame` (`ImplementsLatestFrame`). The delay between `put` and
`get` of a multiprocessing queue is left out: a worker that times out although an
item is on its way only goes round its loop again, as it does in `FirstTimeout`.
`SignalRoutingProofs` holds the proofs, with the lemmas of `DataLemmas`.

**`SharedDetection`** is a consumer's `predict_batch` (`Ask`, `Receive`, `Timeout`) and
`run_shared_detection_worker` (`TakeFirst` ... `Infer`). A prediction is represented
by the frame it was computed from. The request id is one bit, because the code only
compares it with the id of the consumer's own last request. The two nested loops over
the requests of a batch and their items are the counters `at` and `item`: each frame is
copied, and each reply put, in a step of its own, so a crash may come after some of the
replies. `Crash` kills the
worker between any two steps, `InferFails` is an exception of the backend, which is
answered with an error to everyone in the batch. A worker that is killed while it
copies a frame leaves the lock of the slot locked (`WorkerKilled`): a
multiprocessing lock is not released by the death of its owner. Whoever needs that
slot from then on is stuck, camera thread and consumers included.

**`Lifecycle`** adds the shutdown of the whole runtime to it: `BeginClose` sets the stop
event, `Close` joins the use cases one after the other and then the shared worker
(`UseCaseOrchestrator.close`, `SharedDetectionPool.close`), and the raw slots come
last (`VisionRuntime.close`). A join that times out sends the process SIGTERM
(`JoinTimesOut`), which may happen at any time, whatever the process is doing, because
a consumer waits up to ten seconds for a reply and a join only five. No process installs a
handler, so the signal takes its next step away; `dead` and `exited` mean that, not
that the operating system has removed the process. The second join waits two seconds for
that and its outcome is never looked at, so `JoinTimesOut` moves on to the next process
whether this one is gone or not: the model makes no claim about what has been removed when a
queue or slot is closed. A consumer that is terminated while it reads a raw slot
leaves its lock behind, too.

**`InferenceCoordination`** has no state: it says which detectors share a worker
(`ModelSpec`, `Group`, `Shared`), with which configuration (`Merged`), and what the
post-processing of YOLO outputs (`Passes`, `Suppresses`, `Kept`, `Prediction`) and the
filter of a consumer (`Detections`) make of one raw output of the model. A prediction is
the set of the candidates it keeps, because they are listed best first everywhere. The
invariant `RepliesAreTransparent` evaluates these operators, in every state with a reply,
for `Deployments` detectors out of `Detectors` and the raw outputs `Outputs`.

**`OutputRenderer`** is one camera of one use case: the camera thread (`Capture`,
`BufferRaw`), the use-case worker (`WriteInference`, `PublishResult`) and
`render_once`, split where it reads another process's state (`StartRender` reads the
clock, `CacheInference` the inference slot, `PickRaw` the raw slot; `Render` is the
rest). From `SignalRouting` it takes that an inference slot never goes back.
**`Monitoring`** adds a viewer of the page: `iter_mjpeg_frames` with
`_read_display_frame`, which looks at the output slot (`SendOutput`, `FindEmpty`) and,
if it is empty, later at the raw slot (`SendRaw`).

**`VehicleGate`** and **`ViolationGate`** follow one track id. `Update` is one call of the
gate's `update` with what the pipeline does around it, `Cleanup` is `cleanup` after a
frame without the vehicle, and `RepeatedFrame` is a slot read twice. Positions are
points along the road, so that a signed distance is a difference. Whether the path
also meets the line *segment* is left open (`hit`), as is where the vehicle goes next,
its class and the light. The tracker is external: an id may disappear for any time
and come back as the same id no later than `LostBuffer` after it was last reported.
`trail` is a history variable: the properties are stated over what was
observed, not over the gate's own phase. It is a set of observations that carry their
sequence or time, of which only those that can still matter are kept. **`TrafficLight`** is `_smooth`, the majority
over the last frames with its rule for ties, as operators over a sequence of lights;
the light that `ViolationGate` takes is what it returns, for any of the `Windows` and up to
`MaxObserved` frames.

**`EvidenceWorker`** is one camera: the use-case worker writes its result and then puts
the event; the evidence process samples, drains, finalizes and, after the stop event,
flushes. A bundle is its event, its set of frames and the source of its snapshot.
`MaxFrames` has the value the constructor computes,
`(pre + post + slack) * fps * 2`, for the constants of the run. A frame may be captured at
any time; `MaxCaptures` bounds how many there are, `MaxTime` the clock.

**`VideoStream`** is the reader thread of a file, a realtime stream or a
paced stream, with the main process that starts, stops, joins and finally closes
the slots. Opening and reading take up to `MaxBlock`, which may be longer than the join
waits, since `cv2.VideoCapture` is given no timeout: then `CloseSlots` comes before the
thread is done, and what it writes after that may end the process (`WritesClosed`). Code
between waits takes no time; a wait ends when it is over or when the stop event is set.
A source may report no frame rate, and a camera may have no `max_fps` (`Natives` and `Caps`
with 0): `SamplePeriod` is 0 then and nothing is sampled out.

**`ObjectTracker`** is `PerCameraKalmanTracker` for one camera. A frame is two
steps, because its properties compare the state between them with the result:
`Predict` (the detections of the frame, and how far each predicted box overlaps each
of them, any table including ties) and `Update` (candidates of the same class at the
threshold, the greedy pass in the order of `sorted(..., reverse=True)`, ageing, new
tracks, removal). `Matches` defines the pass by its equation: a candidate is taken unless
one taken before it has its track or its detection. There is one such set
(`GreedyChoice`, section 5), so the `CHOOSE` stands for the loop. A box is represented by the
detection it was measured from.

**`ObjectDetection`** adds what follows the tracker in the use-case worker:
`FillBuffers` and `SetCounts` are `write_snapshot`, with the lock of the shared state held
between them, and `Snapshot` is what `read_snapshot` returns to the renderer.

Composition: `SignalRouting` composes the camera threads, the orchestrator and all
use-case workers; `SharedDetection` composes the consumers and the shared worker, and
`Lifecycle` these with the main process; `OutputRenderer` and `EvidenceWorker` each
compose three processes, `Monitoring` adds a fourth, and `ObjectDetection` composes
tracker, worker and reader; the modules meet at the slots. What one assumes of a slot
another shows: `SharedDetection` lets a consumer ask for any frames it read, a superset of what `SignalRouting` does;
`SignalRouting.StaleDrop` is enabled when a raw slot moved on, which is when
`SharedDetection` may answer "stale" (`Exact`); `OutputRenderer` uses that the
inference slot is monotone, which is `ImplementsLatestFrame`.

## 3. The runs, their bounds and what they show

| Run | Module, cfg | Distinct states | Question |
|---|---|---|---|
| `signal_routing` | `MCSignalRouting`, `SignalRouting.cfg` | 82,103 | Are signals lost, duplicated or refused; does one frame cause one unit of work; do the slots implement the mailbox; is every frame, or a newer one, shown? |
| `shared_detection` | `MCSharedDetection`, `SharedDetection.cfg` | 253,699 | Are replies matched, aligned and made for their consumer, and does every wait end, with crashes, errors and locks left behind; does shutdown end and leave nobody running? |
| `shared_detection_exact` | `MCSharedDetection`, `SharedDetectionExact.cfg` | violated | Does a reply hold exactly the frame asked? |
| `monitoring` | `Monitoring`, `Monitoring.cfg` | 4,225,988 | Are the delayed timeline and the results ready in time shown in all three modes, and does what a viewer sees go back? |
| `vehicle_gate` | `MCVehicleGate`, `VehicleGate.cfg` | 148,403 | Is exactly the documented schedule counted? |
| `vehicle_gate_revived` | `MCVehicleGate`, `VehicleGateRevived.cfg` | violated | Once per id when the gate forgets before the tracker? |
| `violation_gate` | `MCViolationGate`, `ViolationGate.cfg` | 106,543 | Are violations justified, runs judged, verdicts final, and by a light that was really on? |
| `evidence` | `EvidenceWorker`, `EvidenceWorker.cfg` | 5,138,355 | Is every event in one place, its clip complete and its bundle on time? |
| `evidence_stop` | `EvidenceWorker`, `EvidenceWorkerStop.cfg` | violated | Is every event bundled at shutdown? |
| `object_detection` | `ObjectDetection`, `ObjectDetection.cfg` | 128,595 | Is the greedy matching stable, with one track per detection and fresh ids, and does the renderer read the result of one frame? |
| `video_stream` | `VideoStream`, `VideoStream.cfg` | 3,539,121 | Do files keep to their clock and streams to their pace, over retries, rewinding and shutdown, with and without a frame rate? |
| `video_stream_stop` | `VideoStream`, `VideoStreamStop.cfg` | violated | Is the thread done when the slots are closed? |

Each run has at most one type invariant, and only where it says more than the types:
which local variables of a worker are empty when, that a batch fits, what a phase has
found out.

Why the bounds are enough for the interesting cases:

- `signal_routing`: two frames of one camera let a frame be overwritten before, between
  and after every step of a worker; the other camera has one frame, which its batch
  partner's overtaken frame can drop for good, since no frame follows it. Two use cases
  make one publication visit two queues, one of them with a single place. Both use the
  shared detector, so both may drop a batch as stale.
- `shared_detection`: a consumer of two cameras and one of the first of them, with
  `BatchSize` 2, make a request that fills a batch, one that must be put off, and two
  that share a frame; a second frame of the shared camera makes cache entries and
  copies stale. No more than one request per consumer can be open, so request ids
  need no more than one bit. Both use cases are closed, so that one is joined while
  the other still asks. For the filters: two detectors with every combination of
  execution, two confidences, three sets of classes and limits of one and two boxes,
  against every output of three candidates of two classes with every overlap, so that a
  box of another consumer can suppress, outrank or crowd out one's own.
- `monitoring`: the buffer of 2 is smaller than the 3 frames, so a push drops one,
  and the clock runs twice the delay and beyond the prediction's time to live.
- `vehicle_gate`: five positions are one for each case the geometry distinguishes
  (before, on, between, on, beyond); steps of 1 and 2 make both a short and a long
  gap around `Stale` 1 and `MaxTransition` 2. Here `LostBuffer` 1 does not exceed
  `Stale`: the tracker forgets first. `vehicle_gate_revived` has the opposite ratio.
- `violation_gate`: approach, stop line, junction and two exits; one class with a legal
  exit and one without; an enforced, a free and an unknown light. The smoothing is
  evaluated for windows of one to five and every sequence of up to seven lights, so that
  every window is filled, passed and tied.
- `evidence`: a queue of 1 and two events refuse one; one second of pre-roll,
  post-roll and slack each let an event's interval begin before and end after
  anything that happens. An event may wait for `PostSeconds + 2 * MaxLag`, three seconds, so
  with six seconds of time (`MaxTime`) it can be too late for an event of any of the first
  three, with time left over. There are up to four frames (`MaxCaptures`), at most one
  event for each. The length limit `MaxFrames` 6 is not reached by four frames: that it never
  drops a frame too early is what `ClipsAreComplete` proves, from `BufferSize`.
- `object_detection`: two detections and up to three tracks of two classes, with three
  levels of overlap (below the threshold, at it, above it), make every conflict between
  two pairs, ties among them. Three frames with `MaxMissed` 1 let a track be missed,
  found again, and removed. A step that would hold more than `MaxTracks` tracks is not
  taken. `Capacity` 2 is what `max_detections` allows a frame, one less than the tracks
  that missed ones can add up to, so results are cut off, too.
- `video_stream`, `video_stream_stop`: a file of four frames, and streams; a source of rate 1
  or of no known rate, with a cap of one frame in two or without; timestamps that stay,
  advance, jump beyond `MaxGap` or are invalid. The waits are those of the
  code in half seconds: 1 s after a failed open, 0.5 s after a failed read, 3 s for the
  join (`JoinTimeout` 6); `MaxGap` 6 is chosen to lie below the largest stamp. `MaxBlock` 7 is the
  least that outlasts the join: a call that returns after the slots are closed.

Deadlock is checked where a step is always possible (the two gates: a frame can
always be read again). Elsewhere the system may stop (`CHECK_DEADLOCK FALSE`): all
frames of the bound are captured and every worker has exited (`signal_routing`), the
shared worker is gone, its consumers are dead and the slots are closed
(`shared_detection*`), both processes have ended (`evidence*`), the thread is done and the
slots are closed (`video_stream*`), the frames of the bound are processed
(`object_detection`), or the bounded clock is at its end. That nobody waits forever while the
system should run is what the liveness properties say.

## 4. Fairness

Safety properties are checked without fairness. Liveness is checked under weak
fairness of exactly these steps:

- `Publish(c, u)`: a camera thread finishes the `publish_frame` call it is in; it
  takes no blocking operation (`put_nowait`) and a lock held for two statements.
- `WorkerStep(u)`: a worker process keeps running; each of its waits has a timeout,
  so some step is always possible.
- `WorkerRuns` in `Lifecycle`: likewise for the shared worker, unless the slot it has to
  read is locked by a process that has died.
- `WaitIsOver(k)`: a consumer blocked in `get` takes a reply that is there, and gives up after
  ten seconds (`Timeout`) if the shared worker is gone. While the worker lives, `Timeout` may
  happen but is not counted on: otherwise every wait would end by giving up, and
  `EveryWaitEnds` would not notice a request put off for ever.
- `Close`: once the main process has begun to close, it goes on; each of its joins has a
  time limit, after which the process is terminated.

Capturing, stopping, failures, crashes and the timeout of a consumer whose worker is alive are
never forced. `FramesAreShown` makes an exception for a worker that has exited, because nothing
restarts it: that is what the code does, not a simplification. `EveryWaitEnds` makes none.

## 5. What is proved

Every theorem holds for all values of the constants that satisfy the named assumption of
its module, which TLC evaluates in the module's run.

| Module | Theorem | Statement |
|---|---|---|
| `SignalRoutingProofs` | `TypeCorrect` | `Spec => [](TypeOK /\ Shape)` |
| | `PendingIsAlwaysOwed` | `Spec => []PendingIsOwed`: the flag is set exactly while one signal is on its way |
| | `SignalsAreNeverDropped` | `Spec => []NoDroppedSignal`: `queue.Full` is unreachable |
| | `NoWakeupIsLost` | `Spec => []NoLostWakeup` |
| | `BatchIsAlwaysFresh` | `Spec => []BatchIsFresh` |
| | `WorkIsAlwaysPaidFor` | `Spec => []WorkIsPaidFor`: one frame causes at most one unit of work |
| | `RoutingImplementsLatestFrame` | `Spec => LF!Spec` |
| `VideoStreamProofs` | `TypeCorrect` | `Spec => []TypeOK` |
| | `FilesPlayOnTime` | `Spec => []FilePlaysOnTime` |
| | `StreamsNeverBurst` | `Spec => NoBursts` |
| | `StreamsKeepTheirRate` | `Spec => OnePerPeriod` |
| `LifecycleProofs` | `TypesAreKept` | `SystemSpec => []TypeOK`, which includes that only a request too large by itself exceeds a batch |
| | `RepliesMatchRequests` | `SystemSpec => []OneReplyPerRequest` |
| | `PredictionsAreAligned` | `SystemSpec => []PredictionsAlign` |
| | `SharingIsTransparent` | `FiltersCommute`: for any detectors and any output of the model |
| `VehicleGateProofs` | `CountedOncePerId` | `Spec => []OncePerId`, if `LostBuffer <= Stale` |
| | `JitterNeverCrosses` | `Spec => []JitterIsNoCrossing` |
| | `OnlyWholeSchedulesCount` | `Spec => OnlySchedulesCount` |
| | `WholeSchedulesCount` | `Spec => EveryScheduleCounts`, if `Geometry` |
| `ViolationGateProofs` | `TypeCorrect` | `Spec => []TypeOK` |
| | `VerdictsAreFinal` | `Spec => VerdictIsFinal` |
| | `EarlyVerdictsAreSafe` | `Spec => []EarlyVerdictIsSafe` |
| | `ViolationsAreJustified` | `Spec => ViolationIsJustified` |
| | `RunsAreJudged` | `Spec => RunIsJudged` |
| | `EveryLightIsFollowed` | `\A light \in Lights : Follows[light]`: for any window and number of frames |
| `EvidenceWorkerProofs` | `EventsAreAlwaysConserved` | `Spec => []EventsAreConserved` |
| | `SnapshotsAreKept` | `Spec => []SnapshotIfAvailable` |
| | `BundlesArePunctual` | `Spec => []BundlesArePrompt` |
| | `ClipsAreComplete` | `Spec => ClipCoversInterval`, if `BufferSize` and `Prompt` |
| `MonitoringProofs` | `TimelineIsPlayed` | `Spec => PlaysTimeline` |
| | `ReadyResultsAreShown` | `Spec => ReadyResultIsShown` |
| | `RendererTypes` | `Spec => []TypeOK` of `OutputRenderer` |
| | `ViewersNeverGoBack` | `PageSpec => ViewerNeverGoesBack` |
| | `NoTrackIsRobbed` | `UseCaseSpec => MatchingIsStable` |
| | `DetectionsAreTracked` | `UseCaseSpec => OneTrackPerDetection` |
| | `SnapshotsAreWhole` | `UseCaseSpec => []SnapshotIsOneFrame` |

**Routing**, in the order of the lemmas of `SignalRoutingProofs` (any finite set of
cameras, any use cases, assignment, batch size and number of frames:
`AssignedAssumption`):

1. `Shape` says which local variables of a worker are empty at which program counter.
   Without it the heads of `batch` and `frames` have no type, so `TypeOK` alone is not
   inductive.
2. `SignalInv` strengthens `PendingIsOwed` with `OnlyAssigned` (a worker only ever has
   signals of cameras assigned to it) and `NoDroppedSignal`. The last two are mutually
   dependent: a signal is only put when its flag is clear, so by injectivity of
   batch-then-queue the queue holds fewer signals than there are assigned cameras, so
   it has room, so no signal is refused and the flag and the queue stay in step. The
   counting step is `ShorterThanSet` in `DataLemmas`.
3. `FlagWakes` says that an unread frame of a camera has its flag set, is being
   published, or is about to be read. It depends on the order in
   the worker (clear the flag, then read the slot) and gives `NoLostWakeup`
   together with `PendingIsOwed`.
4. `FreshInv` (`Apart`, `Ordered`) says that frames in hand, batch and camera being
   read are of different cameras, and that slot, in-hand frame, last read and raw
   sequence are ordered. It makes every `WriteResult` a `Deliver` of the mailbox, and
   every other step a `Produce` or a stutter.
5. `WorkIsPaidFor` is inductive on top of these. Each step moves a unit of work of a camera
   from one place to the next (publication, signal, frame in hand, result or stale drop), and
   only `Capture` adds one, for the frame it captures. That a signal cleared was set
   comes from `PendingIsOwed`, that a result takes the camera out of the batch from
   `BatchIsFresh`.

`DataLemmas` holds what the proofs of several components rest on, stated for arbitrary
sets: lemmas on sequences used as queues (ranges and injectivity under `Append`, `Tail`,
`\o`), and two principles drawn from the library's well-foundedness of strict subsets. The
first is that of the least number: a set of naturals has a least element, a bounded one a
greatest (`Least`, `Greatest`), which is enough wherever a loop stops at the first or takes the
last of something. The second is induction over finite sets (`FiniteInduction`), stated for the
set of the subsets that have the property in place of a predicate. From it follow that a
choice made in an order exists (`GreedyChoice`: given what rules out what, and that of any
candidates one rules out none, some set holds exactly those that none of it rules out) and that
a finite set of naturals can be listed in order (`Enumeration`).

**Reader threads** (`VideoStreamProofs`; any file, retries, timestamps, blocking times and
rates, none included). `TypeOK` leaves parts of the timing state out and is proved from the
stronger `Types`. `OnSchedule` ties the position in a file to its media
clock: before a read the next frame is due, after it exactly the frame read last was.
For streams, the pacer's deadlines move with the media time and never into the past, and
its next sample lies on the grid of sampling periods counted from the first frame.

**Shared detection** (`LifecycleProofs`; any consumers, cameras, batch size and slots, with
crashes, time limits and terminations at any point). `SharedInv` has five parts on top of the types:

1. `PositionOK` says what the worker's counters and local variables are at each point of
   its loops.
2. `Accounts` says where the requests are: a consumer has none, or one, in exactly one of
   the request queue, the deferred ones, the batch and its response queue, and one if it
   waits and the worker lives. Every step moves at most one request from one place to the
   next.
3. `Matching` says that every request not answered yet has the id and the items its consumer waits
   for, and that the reply a waiting consumer finds has its id and, if it is no error,
   predictions that align with what it asked.
4. `FramesRise` says that the frames copied for a batch are newer than the cache, and of
   each camera newer and newer.
5. `CachesOK` says that what was copied or found for the requests not refused is in the
   cache or among these frames. So after the model call, which writes the last
   of each camera (`Greatest`), the cache holds a frame as new as the one asked, which is
   what `PredictionsAlign` needs. That it may be a newer one is the first entry of section 7.

**Shared filters** (`LifecycleProofs`; any deployments, filters, limits and outputs of the
model). The suppression of overlapping boxes goes through the candidates in an order, so what it
keeps is a choice of `GreedyChoice`, and the only one (`KeptOnce`, `KeptIsTheChoice`). Boxes
only suppress boxes of their own class, and whatever suppresses a box that passes a
filter passes it too, for its score is higher. So the filter of a consumer and the suppression
commute: those kept under the merged filters (`MergedIsWeaker`) that pass the consumer's
are those kept under the consumer's. `BestAreFirst` and `BestOfPart` carry this over the limit
`max_detections`, which is the only thing that can make a difference
(`SharingIsTransparentFor`). This says what a consumer makes of a reply, whatever the state: so
it is stated of the filters (`FiltersCommute`) and not of the system.

**Counting gate** (`VehicleGateProofs`; any lines, zone, hysteresis and path). The totals are
what the state of the id says was counted (`Totals`), and a state is only removed when
the tracker has been without the vehicle for longer than `Stale`. If that is no
shorter than `LostBuffer`, the id is never given out again. `vehicle_gate_revived` shows that the
assumption is needed, and that the defaults of the configuration do not meet it. The
theorem also assumes that the value that stands for no state is not a state.

The other three theorems are about what was observed, so they also assume that `trail` is kept
(`Watch`). `History` relates the state of an id to it. The side of each line is the one
the last observation that passed it left the vehicle on, and it changes only by a
position beyond the hysteresis (`JitterNeverCrosses`). An attempt under way was armed by an
observation that is remembered, and none after it would have ended it; so what
completes is a whole schedule (`OnlyWholeSchedulesCount`), on any road. `WholeSchedulesCount` is the
converse. It takes `Reach`: between the lines, a vehicle that has not passed a line
beside its end is on the far side of the one and the near side of the other, so the
attempt its first crossing began is still open. This holds if line 2 lies behind
line 1 and the transition zone within the hysteresis of what is between them (`Geometry`), the road
of `README.md:464-465` ("Line 1 -> observed in transition zone -> Line 2"). The configuration does
not check it: with a zone that reaches beyond a line, TLC finds schedules that do not count.

**Violation gate** (`ViolationGateProofs`; any road, policy, hysteresis and timeouts). A
verdict is final because a phase holds just what the track has found out (`Known`, part of
`TypeOK`): a resolved track has a verdict and only `cleanup` leaves the phase. `Known`
also shows that a verdict without a movement from the frame of the crossing comes from
`EvaluateAtCrossing`, which gives one only if all movements of the policy agree.
`Evidence` relates a track to what was observed (with `Watch`, and if no track has the value
that stands for none). A track that waits for a movement ran the line in a remembered
observation, with the light and class it has kept, and has not come back since. A
track all of whose crossings were followed by a return is on the approach. A
repeated frame passes no line, for the sides were settled when it was first seen. The first gives
`ViolationIsJustified`, the other two `RunIsJudged`.

The traffic light has no steps of its own: `EveryLightIsFollowed` is about the operators.
`HistoryIsTheEnd` says, by the least number, that the history holds the last `window` frames, in order.
`CountAtLeast` and `CountAtMost` count a light in it from the run of frames at its
end, and `MajorityIs` says what the most frequent light is, with the tie at exactly half
of an even window, where the light seen last wins. It is a statement about the
operators: `ViolationGate` takes any light, not only one that some history gives.

**Evidence worker** (`EvidenceWorkerProofs`; any intervals, rates, queue size and lags).
`Apart` says that the ids in the queue, pending, bundled and dropped are disjoint and
together all there were, which makes the count of `EventsAreConserved` a sum of
cardinalities. `Ordered` says that an event is never ahead of its result, and a result
never ahead of its camera. `Timely` bounds the age of what is queued or pending by where
the loop is.

For the clips, `Camera` says that what was sampled is in the order of its capture and that an
unsampled newest frame was captured after the last sample; `Rolling` that the buffer holds
its newest sample and all within the retention of it, samples being a period apart
(`Spaced`, `Due`); `Recent` that an event is taken in time even after the stop event.
The length limit of the buffer could drop a frame too early. The size the constructor
chooses, `max(4, ceil(retention * fps * 2))`, excludes it for every rate, below one
frame per retention too (`BufferSize`, `SizeIsRoomy`). `Prompt` says that the slack of two seconds
covers the lags: `MaxLatency + MaxLag <= PostSeconds + Slack` for an event on its way, and
`2 * MaxLag <= Slack + 1` for the last sample, which a stop takes up to two rounds after the
frame of an event that was not ready. Nothing in the code enforces `Prompt`. If any of the three is
exceeded (a buffer of three frames, a lag of two seconds, a latency of three, in the
constants of the run), TLC finds a clip that misses a frame.

**Renderer and viewer** (`MonitoringProofs`; any delay, buffer of at least two frames,
number of frames and clock). `Run` says that the raw buffer holds consecutive frames up to
the last one buffered and starts with the first frame of all, or with one that was due, or
is full; `Timeline` that time stamps never go back. Together, the loop of
`_select_delayed_raw` leaves the newest frame that is due. `Latest` does the same for the
two modes without delay. `Results` says that a result the renderer cached stays in its deque
until the picture passes its frame or enough newer ones have arrived, which gives
`ReadyResultIsShown`; `Bounds` are the sizes and ranges of `TypeOK`. `Viewed` relates what a viewer
was sent to the slots it may be sent from next.

**Tracker and results** (`MonitoringProofs`; any classes, overlaps, threshold, ages,
numbers of tracks and detections, and capacity). `TrackerOK` says that the ids of the tracks are
distinct and below the next one. Of any candidates one comes last (`LastCandidate`: least
overlap, then the earliest track, then its earliest detection), so the matching exists
(`MatchesExist`), and since `Before` is total, no two matches share a track or a
detection (`MatchedOnce`). `Updated` describes a frame by what becomes of each track and the
two lists that are joined: `KeptTrack`, `MatchedStays` and `NewTracks` say what is in them. A
matched track counts no miss, so it is never removed. From these follow the three
parts of `OneTrackPerDetection`; and `MatchingIsStable`, because a
candidate that was not taken has a rival taken before it (`Rivalled`). `SharedOK` describes the
buffers by the step of the worker. `SnapshotIsOneFrame` is not inductive without it: while
the lock is held the buffers already hold the tracks, and at any other time, those below `count`
are the ids of the result published last, whatever an older result left behind them.

## 6. What is only model-checked

- Liveness (`FramesAreShown`, `EveryWaitEnds`, `ShutdownCompletes`): temporal
  reasoning with fairness and `ENABLED` is beyond the installed prover.
- `RepliesAreTransparent` and `JudgedBySteadyLight` evaluate, in the states of a run, what
  `SharingIsTransparent` and `EveryLightIsFollowed` prove of the operators alone.

Every other property of a passing run is stated by a theorem. An induction over data is within
reach only in the form of `DataLemmas`, over the subsets of a finite set or the naturals: the
library's induction theorems have an operator parameter, which the installed provers
cannot instantiate. So the models say with a quantifier or a `CHOOSE` what a loop of the
code finds, where they can: the places of a batch, the frame the cache ends up with, the
first frame the rolling buffer retains, the observations in `trail`, the boxes that are kept, the
matches of a frame. TLC still evaluates these definitions, and the mutants show that they
are not vacuous.

## 7. Disagreements between the code and its documentation

1. **A shared reply may hold a newer frame** (`shared_detection_exact`). The reply is
   built from `latest_predictions[camera_id]` without comparing the sequence
   (`shared_detection.py:314`). A request whose frame was found in the cache gets the
   prediction of a newer one if another request of the same batch overwrote the
   entry. `README.md:154` says "copy exact latest-frame snapshot or reject stale
   request". `PredictionsAlign` shows what does hold: same camera, same order, never
   older than asked.
2. **An id can count twice** (`vehicle_gate_revived`). With the defaults, the gate forgets
   a lost vehicle after 2 s (`config.py:47`) while the tracker keeps its id for 5 s
   (`config.py:19-20`), so the counted directions are lost and the same id counts
   again. `tests/test_vehicle_counting.py:178` names the intent:
   `test_hysteresis_suppresses_jitter_and_each_direction_counts_once_per_id`.
3. **An event may be lost at shutdown** (`evidence_stop`). The `finally` block does not drain
   the event queue again (`evidence_worker.py:142`). `README.md:501` says "A confirmed
   domain event produces `event.json`".
4. **A camera thread may outlive its slots** (`video_stream_stop`). `stop` joins the thread for
   three seconds and does not look whether it has ended (`video_stream.py:175`), and a
   `cv2.VideoCapture` that is opening or reading a dead source is given no timeout
   (`video_stream.py:191`). The main process then closes and unlinks the slots while the thread
   still holds its capture. `README.md:389-391` says "Shutdown sets the stop event, joins every
   camera thread, releases each OpenCV capture, then closes worker processes and shared
   memory."

Not counted as a disagreement, because the documentation says "approximately": if
`frame_buffer_size` or more frames arrive within `alignment_delay_ms`, the oldest frame
left in the deque is always too young and the delayed picture does not appear.
`PlaysTimeline` names that condition. Nor is it one that a consumer of a shared worker can
miss its last boxes when the boxes of other consumers use up `max_detections`: the
comment at `model_spec.py:47` only says that filters are applied afterwards.
`SharingIsTransparentFor` names that condition, too.

## 8. What is not modelled

| Part | Why |
|---|---|
| Start-up of the runtime | one step of `Lifecycle`. `runtime.start()` is called outside the `try` of `main.py:89`, so that a start that fails halfway leaves processes and slots behind: a matter of two statements in one process, not of an order of events |
| What a process does between SIGTERM and its end, and whether it is gone within two seconds | the operating system's. The code does not look, nor does the model: nothing is claimed about the slots of such a process |
| The renderer thread at shutdown | joined for three seconds and not looked at (`output_renderer.py:68-70`), as the camera thread is; it only waits for the locks of slots, and ends with the process |
| Kalman arithmetic, ByteTrack | floating point, and an external library. `ObjectTracker` leaves the overlaps open; the gates take a tracker's promise, an id is reported or not, as external |
| Zones, geometry, drawing | pure functions of one frame in floating point |
| Snapshots of `vehicle_counting` and `red_light_violation` | published under one lock in the same way as those of `object_detection`, which `ObjectDetection` models |
| Recognising the light in an image | image processing; `TrafficLight` starts from the light of each frame |
| Running a detection model | a call that returns or raises; the decoding of its output is left open in `InferenceCoordination` (`Raw`) |
| Configuration composer, loader, schema, plugin registry | run once before the system starts, and check values one at a time. What validation guarantees appears as the named assumptions on constants |
| Status page, single pictures, simulator, scripts | they only read, or run on their own |

Left out inside the modelled parts: shape and dtype checks of slots; latency and frame
counters without a reader; files, encoding and the writer thread of the evidence worker
(and their failures); the probe of an implausible file frame rate; the pacing of the
renderer thread and of a viewer (both may act at any time); the options of a model
specification except `max_detections`; several detectors of one deployment.

## 9. Plan

Done, in this order: `SignalRouting` and `LatestFrame` with their proofs,
`SharedDetection`, `OutputRenderer`, the two gates, `EvidenceWorker`, `VideoStream`,
`ObjectTracker`; then their compositions `Lifecycle`, `Monitoring` and
`ObjectDetection`, the operators of `InferenceCoordination` and `TrafficLight`, and the
proofs of section 5: first the routing, then the reader threads and the safety of each
component's state, then the shared detector, the histories of the gates, the results of the
renderer and the clips, the filters of the shared detector, the traffic light, and the
matching and publication of the tracks. What is left:

| Step | What for |
|---|---|
| `SignalRouting` and `SharedDetection` over the same raw slots | `StaleDrop` of the one implemented by the other |
| A fault in the middle of start-up | what was started is stopped again |
| Two gates' ids with `EvidenceWorker` | whether a revived id gives a second bundle (`dedupe_key` is written and never compared) |
| The smoothing of `TrafficLight` as part of the state of `ViolationGate` | the light of a crossing is one the frames before it support; as it is now, the light is free |
| The configuration composer (`composer.py`) against a reference that looks a path up in the chain of files | every leaf keeps the file that wrote it last |

## 10. Running the tools

    tlc -workers 2 -config SignalRouting.cfg MCSignalRouting
    tlapm SignalRoutingProofs.tla

The other runs and proofs differ only in the module and configuration named in sections 3
and 5. Each takes between a second and five minutes.
