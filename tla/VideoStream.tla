---------------------------- MODULE VideoStream ----------------------------
(***************************************************************************)
(* The reader thread of one camera (VideoStream._read_loop) and the main   *)
(* process that starts it and, on shutdown, sets its stop event, joins it  *)
(* with a timeout and closes the shared frame slots.  The streams are      *)
(* stopped one after the other and share nothing.                          *)
(*                                                                         *)
(* Time is a discrete clock.  Opening and reading a source may block for   *)
(* up to MaxBlock, which may be longer than the join waits: OpenCV is given *)
(* no timeout.  Everything else takes no time, and a wait ends exactly     *)
(* when it is over or the stop event is set.  What a source delivers is    *)
(* left open: it may report no usable frame rate (for a file, after        *)
(* _resolve_video_timeline_fps), refuse to open, fail or carry any         *)
(* timestamp.  Pictures, capture_fps and the callback (SignalRouting) are  *)
(* abstracted away.                                                        *)
(***************************************************************************)
EXTENDS Integers

CONSTANTS OpenRetry,    \* wait after a source that did not open
          ReadRetry,    \* wait after a stream that failed
          JoinTimeout,  \* timeout of thread.join in stop
          Natives,      \* times between two frames of a source, 0 if unknown
          Caps,         \* 1 / max_fps of a camera, or 0 without a cap
          MaxGap,       \* MAX_MEDIA_TIMESTAMP_GAP_SECONDS
          FileLength,   \* frames of a video file
          Stamps,       \* timestamps a stream may carry, None if invalid
          MaxBlock,     \* bound: time an open or a read blocks
          MaxTime,      \* bound: clock
          None          \* not set yet

ASSUME StreamAssumption ==
    /\ {OpenRetry, ReadRetry, MaxGap, MaxBlock, MaxTime} \subseteq Nat
    /\ {JoinTimeout, FileLength} \subseteq Nat \ {0}
    /\ Natives \subseteq Nat /\ Caps \subseteq Nat
    /\ None \notin Int /\ Stamps \subseteq Nat \cup {None}

VARIABLES cam,      \* the camera: is it a file, does the file loop, its timing,
                    \* the period of its frames and that of max_fps
          now,
          main,     \* main process: "created", "running", "joining", "closed"
          stopped,  \* stop_event
          joinEnd,  \* when the join gives up
          pc,       \* thread: "none", "head", "opening", "reading", "pacing",
                    \* "publish", "resting", "retry", "done"
          since,    \* when the call it is in began; started, for a read
          wake,     \* when the wait it is in ends
          capture,  \* whether it holds an open capture
          online,   \* state.online
          file,     \* position, source_frame_index and playback_started_at
          pacer,    \* _MediaTimelinePacer
          sampler,  \* _RealtimeSampler.last_publish
          frame,    \* what it is about to publish: file position or media time
          shown     \* history: [at, media] of the frame published last over this
                    \* connection, and the media time of its first

fileVars == <<file>>
timingVars == <<pacer, sampler>>
vars == <<cam, now, main, stopped, joinEnd, pc, since, wake, capture, online,
          fileVars, timingVars, frame, shown>>

Camera == [file : BOOLEAN, loop : BOOLEAN, timeline : BOOLEAN,
           native : Natives, cap : Caps]
PlaysFile == cam.file /\ cam.timeline
PacesStream == ~cam.file /\ cam.timeline

\* 1 / target_fps: the lower of the two rates; 0, no sampling, if there is none.
SamplePeriod == IF cam.cap > cam.native THEN cam.cap ELSE cam.native

NewFile == [position |-> 0, index |-> 0, started |-> 0]
NewPacer == [media |-> None, next |-> None, published |-> None, deadline |-> None]
NewShown == [at |-> None, media |-> None, first |-> None]

\* The variables have their types; the thread reads only from an open capture and
\* releases it when it ends, and a camera without a capture is offline.
TypeOK ==
    /\ cam \in Camera
    /\ now \in 0 .. MaxTime
    /\ main \in {"created", "running", "joining", "closed"}
    /\ stopped \in BOOLEAN /\ joinEnd \in Nat
    /\ pc \in {"none", "head", "opening", "reading", "pacing", "publish",
               "resting", "retry", "done"}
    /\ since \in 0 .. now /\ wake \in Nat
    /\ capture \in BOOLEAN /\ online \in BOOLEAN
    /\ pc \in {"reading", "pacing", "publish", "resting"} => capture
    /\ pc \in {"none", "opening", "retry", "done"} => ~capture
    /\ online => capture \/ pc = "done"
    /\ file.position \in 0 .. FileLength /\ file.index \in Nat

Init ==
    /\ cam \in Camera
    /\ now = 0
    /\ main = "created" /\ stopped = FALSE /\ joinEnd = 0
    /\ pc = "none" /\ since = 0 /\ wake = 0
    /\ capture = FALSE /\ online = FALSE
    /\ file = NewFile /\ pacer = NewPacer /\ sampler = None
    /\ frame = 0 /\ shown = NewShown
-----------------------------------------------------------------------------
\* A wait on the stop event is over.
Wakes == stopped \/ now >= wake

Tick ==
    /\ now < MaxTime
    /\ pc \notin {"head", "publish"}
    /\ pc \in {"opening", "reading"} => now - since < MaxBlock
    /\ pc \in {"pacing", "resting", "retry"} => ~Wakes
    /\ now' = now + 1
    /\ UNCHANGED <<cam, main, stopped, joinEnd, pc, since, wake, capture, online,
                   fileVars, timingVars, frame, shown>>

(* Main process: VideoStream.start and stop, then the slots are closed.    *)

Start ==
    /\ main = "created"
    /\ main' = "running" /\ pc' = "head"
    /\ UNCHANGED <<cam, now, stopped, joinEnd, since, wake, capture, online,
                   fileVars, timingVars, frame, shown>>

Stop ==
    /\ main = "running"
    /\ main' = "joining" /\ stopped' = TRUE /\ joinEnd' = now + JoinTimeout
    /\ UNCHANGED <<cam, now, pc, since, wake, capture, online, fileVars,
                   timingVars, frame, shown>>

\* The join has returned, whether or not the thread has ended.
CloseSlots ==
    /\ main = "joining"
    /\ pc = "done" \/ now >= joinEnd
    /\ main' = "closed"
    /\ UNCHANGED <<cam, now, stopped, joinEnd, pc, since, wake, capture, online,
                   fileVars, timingVars, frame, shown>>
-----------------------------------------------------------------------------
mainVars == <<cam, now, main, stopped, joinEnd>>

\* The thread leaves its loop and releases the capture.
Leave == pc' = "done" /\ capture' = FALSE

LoopHead ==
    /\ pc = "head"
    /\ since' = now
    /\ IF stopped THEN Leave
       ELSE pc' = (IF capture THEN "reading" ELSE "opening") /\ UNCHANGED capture
    /\ UNCHANGED <<mainVars, wake, online, fileVars, timingVars, frame, shown>>

\* Mutant of Retry: the camera stays online.
RetryOnline(wait) == pc' = "retry" /\ wake' = now + wait /\ UNCHANGED online

Retry(wait) == pc' = "retry" /\ wake' = now + wait /\ online' = FALSE

OpenFails ==
    /\ pc = "opening"
    /\ Retry(OpenRetry)
    /\ UNCHANGED <<mainVars, since, capture, fileVars, timingVars, frame, shown>>

\* Every connection starts with its own timing state.
Opens ==
    /\ pc = "opening" /\ pc' = "reading"
    /\ capture' = TRUE
    /\ since' = now
    /\ file' = [NewFile EXCEPT !.started = now]
    /\ pacer' = NewPacer /\ sampler' = None /\ shown' = NewShown
    /\ UNCHANGED <<mainVars, wake, online, frame>>

\* A stream fails: the capture is given up and opened again.
ReadFails ==
    /\ pc = "reading" /\ ~cam.file
    /\ capture' = FALSE
    /\ Retry(ReadRetry)
    /\ UNCHANGED <<mainVars, since, fileVars, timingVars, frame, shown>>

\* int(elapsed * native_fps + 0.5) when the iteration started
Desired == (2 * (since - file.started) + cam.native) \div (2 * cam.native)
FollowsClock == PlaysFile /\ cam.native > 0
Skipped == IF FollowsClock /\ Desired > file.index THEN Desired - file.index ELSE 0
EndOfFile == file.position + Skipped >= FileLength

\* Mutant of Rewound: the frame counter goes on.
RewoundPosition == [file EXCEPT !.position = 0, !.started = now]

Rewound == [file EXCEPT !.position = 0, !.index = 0, !.started = now]

FileEnds ==
    /\ pc = "reading" /\ cam.file /\ EndOfFile
    /\ online' = FALSE
    /\ IF cam.loop
       THEN file' = Rewound /\ pc' = "head" /\ UNCHANGED capture
       ELSE Leave /\ UNCHANGED file
    /\ UNCHANGED <<mainVars, since, wake, timingVars, frame, shown>>

\* _RealtimeSampler.should_publish
Due == sampler = None \/ now - sampler >= cam.cap

Sampled == IF Due THEN sampler' = now /\ pc' = "publish"
           ELSE UNCHANGED sampler /\ pc' = "head"

ReadsFile ==
    /\ pc = "reading" /\ cam.file /\ ~EndOfFile
    /\ frame' = file.position + Skipped
    /\ file' = [file EXCEPT !.position = @ + Skipped + 1,
                            !.index = @ + Skipped + 1]
    /\ IF cam.timeline THEN pc' = "publish" /\ UNCHANGED sampler ELSE Sampled
    /\ UNCHANGED <<mainVars, since, wake, capture, online, pacer, shown>>

ReadsRealtime ==
    /\ pc = "reading" /\ ~cam.file /\ ~cam.timeline
    /\ Sampled
    /\ UNCHANGED <<mainVars, since, wake, capture, online, fileVars, pacer, frame,
                   shown>>

\* fallback_period: what a frame lasts, if nothing else is known.
FallbackPeriod == IF cam.native > 0 THEN cam.native ELSE cam.cap

\* _resolve_media_time: an invalid, repeated, backward or far timestamp counts as
\* the next frame; without any rate, as the same one.
MediaTime(stamp) ==
    IF pacer.media = None THEN (IF stamp = None THEN 0 ELSE stamp)
    ELSE IF stamp # None /\ stamp - pacer.media \in 1 .. MaxGap THEN stamp
    ELSE pacer.media + FallbackPeriod

\* Mutant of NextSample: one period further, however late the frame is.
NextPeriod(next, media) == next + SamplePeriod

\* The first sample time, counted in periods from next, that is after media.
NextSample(next, media) ==
    IF SamplePeriod = 0 THEN next
    ELSE next + ((media - next) \div SamplePeriod + 1) * SamplePeriod

\* media_delta
Elapsed(media) ==
    IF media > pacer.published THEN media - pacer.published ELSE FallbackPeriod

\* Mutant of Deadline: the lost time is caught up.
DeadlineCatchUp(media) ==
    IF pacer.published = None THEN now ELSE pacer.deadline + Elapsed(media)

Deadline(media) ==
    LET due == pacer.deadline + Elapsed(media)
    IN  IF pacer.published = None \/ due < now THEN now ELSE due

\* plan: the frame is sampled out, or waits for its deadline.
ReadsTimeline(stamp) ==
    /\ pc = "reading" /\ PacesStream
    /\ LET media == MediaTime(stamp)
           next == IF pacer.next = None THEN media ELSE pacer.next
       IN  /\ IF SamplePeriod > 0 /\ media < next
              THEN /\ pacer' = [pacer EXCEPT !.media = media]
                   /\ pc' = "head"
                   /\ UNCHANGED <<wake, frame>>
              ELSE /\ pacer' = [media |-> media, published |-> media,
                                next |-> NextSample(next, media),
                                deadline |-> Deadline(media)]
                   /\ pc' = IF Deadline(media) > now THEN "pacing" ELSE "publish"
                   /\ wake' = Deadline(media)
                   /\ frame' = media
    /\ UNCHANGED <<mainVars, since, capture, online, fileVars, sampler, shown>>

\* stop_event.wait(delay)
Paced ==
    /\ pc = "pacing" /\ Wakes
    /\ IF stopped THEN Leave ELSE pc' = "publish" /\ UNCHANGED capture
    /\ UNCHANGED <<mainVars, since, wake, online, fileVars, timingVars, frame, shown>>

\* The slot is written and the use cases are signalled; a file then waits for the
\* rest of its frame period.
Publish ==
    /\ pc = "publish"
    /\ online' = TRUE
    /\ shown' = [at |-> now, media |-> frame,
                 first |-> IF shown.first = None THEN frame ELSE shown.first]
    /\ IF PlaysFile /\ since + SamplePeriod > now
       THEN pc' = "resting" /\ wake' = since + SamplePeriod
       ELSE pc' = "head" /\ UNCHANGED wake
    /\ UNCHANGED <<mainVars, since, capture, fileVars, timingVars, frame>>

\* The slot was closed under a thread that outlived its join: the write may end the
\* process, and with it the thread.
WritesClosed ==
    /\ pc = "publish" /\ main = "closed"
    /\ Leave
    /\ UNCHANGED <<mainVars, since, wake, online, fileVars, timingVars, frame, shown>>

Rested ==
    /\ pc \in {"resting", "retry"} /\ Wakes
    /\ pc' = "head"
    /\ UNCHANGED <<mainVars, since, wake, capture, online, fileVars, timingVars,
                   frame, shown>>

ThreadStep ==
    \/ LoopHead \/ OpenFails \/ Opens \/ ReadFails \/ FileEnds \/ ReadsFile
    \/ ReadsRealtime \/ (\E stamp \in Stamps : ReadsTimeline(stamp))
    \/ Paced \/ Publish \/ WritesClosed \/ Rested

Next == Tick \/ Start \/ Stop \/ CloseSlots \/ ThreadStep

Spec == Init /\ [][Next]_vars
-----------------------------------------------------------------------------
\* "Without changing media speed": a file with a frame rate, published at that or a
\* lower one, always shows the frame its media clock is at, rounded, however long a
\* read took and however often the file was rewound.
FilePlaysOnTime == pc = "publish" /\ FollowsClock => frame = Desired

\* "Without catch-up bursts": two frames of a paced stream are published at least
\* as far apart as they are on the media timeline, late or damaged timestamps and
\* stalls included.
NoBursts ==
    [][ Publish /\ PacesStream /\ shown.at # None
          => now - shown.at >= frame - shown.media ]_vars

\* max_fps: a paced stream with a cap or a rate publishes at most one frame in every
\* sampling period, counted from the first frame of the connection, so it never
\* drifts or bunches.
Period(media) == (media - shown.first) \div SamplePeriod
OnePerPeriod ==
    [][ Publish /\ PacesStream /\ SamplePeriod > 0 /\ shown.at # None
          => Period(frame) > Period(shown.media) ]_vars

\* "Joins every camera thread, releases each OpenCV capture, then closes worker
\* processes and shared memory": no thread is left when the slots are closed.
SlotsOutliveThread == main = "closed" => pc = "done"
=============================================================================
