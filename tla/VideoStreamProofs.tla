------------------------- MODULE VideoStreamProofs -------------------------
(***************************************************************************)
(* Type correctness of the reader thread, the clock of a file and the      *)
(* pacing of a stream, for all timings, all frame rates and all files.     *)
(***************************************************************************)
EXTENDS VideoStream, TLAPS

LEMMA ConstantTypes ==
    /\ OpenRetry \in Nat /\ ReadRetry \in Nat /\ MaxGap \in Nat
    /\ MaxBlock \in Nat /\ MaxTime \in Nat
    /\ JoinTimeout \in Nat /\ FileLength \in Nat
    /\ JoinTimeout > 0 /\ FileLength > 0
    /\ Natives \subseteq Nat /\ Caps \subseteq Nat
    /\ None \notin Int /\ Stamps \subseteq Nat \cup {None}
  <1> QED BY StreamAssumption

\* The periods of a camera are numbers, the sampling period the longer of the two.
LEMMA PeriodTypes ==
    ASSUME cam \in Camera
    PROVE  /\ cam.native \in Nat /\ cam.cap \in Nat
           /\ SamplePeriod \in Nat /\ FallbackPeriod \in Nat
           /\ SamplePeriod >= cam.native
  <1>1. cam.native \in Nat /\ cam.cap \in Nat
    BY ConstantTypes DEF Camera
  <1> QED BY <1>1 DEF SamplePeriod, FallbackPeriod

\* A camera is what it was when it was started.
LEMMA CameraIsKept == [Next]_vars => cam' = cam
  <1> QED BY DEF vars, Next, ThreadStep, Tick, Start, Stop, CloseSlots, LoopHead, OpenFails,
             Opens, ReadFails, FileEnds, ReadsFile, ReadsRealtime, ReadsTimeline,
             Paced, Publish, WritesClosed, Rested, mainVars

\* TypeOK is proved in three parts: the control of both threads, the clock with what
\* is measured by it, and the timing state, which TypeOK leaves out in part.
ControlOK ==
    /\ main \in {"created", "running", "joining", "closed"}
    /\ stopped \in BOOLEAN /\ capture \in BOOLEAN /\ online \in BOOLEAN
    /\ pc \in {"none", "head", "opening", "reading", "pacing", "publish",
               "resting", "retry", "done"}
    /\ pc \in {"reading", "pacing", "publish", "resting"} => capture
    /\ pc \in {"none", "opening", "retry", "done"} => ~capture
    /\ online => capture \/ pc = "done"
    /\ pc = "none" <=> main = "created"

ClockOK ==
    /\ cam \in Camera
    /\ now \in 0 .. MaxTime
    /\ since \in 0 .. now
    /\ joinEnd \in Nat /\ wake \in Nat

FileOK ==
    /\ file = [position |-> file.position, index |-> file.index,
               started |-> file.started]
    /\ file.position \in 0 .. FileLength /\ file.index \in Nat
    /\ file.started \in Nat

PacerOK ==
    /\ pacer = [media |-> pacer.media, next |-> pacer.next,
                published |-> pacer.published, deadline |-> pacer.deadline]
    /\ pacer.media \in Nat \cup {None}
    /\ pacer.published \in Nat \cup {None}
    /\ pacer.deadline \in Nat \cup {None}
    /\ pacer.published # None => pacer.deadline # None

Types == ControlOK /\ ClockOK /\ FileOK /\ PacerOK

LEMMA TypesImplyTypeOK == Types => TypeOK
  <1> QED BY DEF Types, ControlOK, ClockOK, FileOK, TypeOK

LEMMA TypesInit == Init => Types
  <1> SUFFICES ASSUME Init PROVE Types
    OBVIOUS
  <1>1. ControlOK
    BY DEF Init, ControlOK
  <1>2. ClockOK
    BY ConstantTypes DEF Init, ClockOK
  <1>3. FileOK
    BY ConstantTypes DEF Init, FileOK, NewFile
  <1>4. PacerOK
    BY DEF Init, PacerOK, NewPacer
  <1> QED BY <1>1, <1>2, <1>3, <1>4 DEF Types

\* The timestamp of a frame is a number, and so is its deadline, which is never past.
LEMMA MediaTimeType ==
    ASSUME cam \in Camera, PacerOK, NEW stamp \in Stamps
    PROVE  MediaTime(stamp) \in Nat
  <1>1. stamp \in Nat \cup {None} /\ FallbackPeriod \in Nat /\ None \notin Int
    BY ConstantTypes, PeriodTypes
  <1>2. CASE pacer.media = None
    BY <1>1, <1>2 DEF MediaTime
  <1>3. CASE pacer.media # None
    <2>1. pacer.media \in Nat
      BY <1>3 DEF PacerOK
    <2>2. stamp # None => stamp \in Nat
      BY <1>1
    <2> QED BY <2>1, <2>2, <1>1, <1>3 DEF MediaTime
  <1> QED BY <1>2, <1>3

LEMMA DeadlineType ==
    ASSUME cam \in Camera, PacerOK, now \in Nat, NEW media \in Nat
    PROVE  Deadline(media) \in Nat /\ Deadline(media) >= now
  <1>1. CASE pacer.published = None
    BY <1>1 DEF Deadline
  <1>2. CASE pacer.published # None
    <2>1. pacer.published \in Nat /\ pacer.deadline \in Nat
      BY <1>2 DEF PacerOK
    <2>2. Elapsed(media) \in Nat
      BY <2>1, PeriodTypes DEF Elapsed
    <2> QED BY <2>1, <2>2, <1>2 DEF Deadline
  <1> QED BY <1>1, <1>2

\* A deadline leaves at least the time that has passed on the media timeline.
LEMMA DeadlineKeepsPace ==
    ASSUME cam \in Camera, PacerOK, now \in Nat, NEW media \in Nat,
           pacer.published # None
    PROVE  Deadline(media) >= pacer.deadline + media - pacer.published
  <1>1. pacer.published \in Nat /\ pacer.deadline \in Nat /\ FallbackPeriod \in Nat
    BY PeriodTypes DEF PacerOK
  <1>2. Elapsed(media) \in Nat /\ Elapsed(media) >= media - pacer.published
    BY <1>1 DEF Elapsed
  <1> QED BY <1>1, <1>2 DEF Deadline

\* Division by a positive number yields a number.
LEMMA DivisionType ==
    ASSUME NEW a \in Int, NEW b \in Nat, b > 0
    PROVE  a \div b \in Int
  <1> QED OBVIOUS

LEMMA DesiredType ==
    ASSUME ClockOK, FileOK, cam.native > 0
    PROVE  Desired \in Int
  <1>1. cam.native \in Nat /\ since \in Int /\ file.started \in Int
    BY ConstantTypes, PeriodTypes DEF ClockOK, FileOK
  <1>2. /\ 2 * (since - file.started) + cam.native \in Int
        /\ 2 * cam.native \in Nat /\ 2 * cam.native > 0
    BY <1>1
  <1> QED BY <1>2, DivisionType DEF Desired

\* How many frames a late file skips.
LEMMA SkippedType ==
    ASSUME ClockOK, FileOK
    PROVE  Skipped \in Nat
  <1>1. file.index \in Nat
    BY DEF FileOK
  <1>2. CASE FollowsClock
    <2>1. Desired \in Int
      BY <1>2, DesiredType DEF FollowsClock
    <2> QED BY <1>1, <2>1 DEF Skipped
  <1>3. CASE ~FollowsClock
    BY <1>3 DEF Skipped
  <1> QED BY <1>2, <1>3

LEMMA ControlStep == ControlOK /\ [Next]_vars => ControlOK'
  <1> SUFFICES ASSUME ControlOK, [Next]_vars
               PROVE  ControlOK'
    OBVIOUS
  <1> USE DEF ControlOK
  <1>1. CASE Tick
    BY <1>1 DEF Tick
  <1>2. CASE Start
    BY <1>2 DEF Start
  <1>3. CASE Stop
    BY <1>3 DEF Stop
  <1>4. CASE CloseSlots
    BY <1>4 DEF CloseSlots
  <1>5. CASE LoopHead
    BY <1>5 DEF LoopHead, Leave, mainVars
  <1>6. CASE OpenFails
    BY <1>6 DEF OpenFails, Retry, mainVars
  <1>7. CASE Opens
    BY <1>7 DEF Opens, mainVars
  <1>8. CASE ReadFails
    BY <1>8 DEF ReadFails, Retry, mainVars
  <1>9. CASE FileEnds
    BY <1>9 DEF FileEnds, Leave, mainVars
  <1>10. CASE ReadsFile
    <2>1. /\ pc = "reading" /\ pc' \in {"head", "publish"}
          /\ UNCHANGED <<main, stopped, capture, online>>
      BY <1>10 DEF ReadsFile, Sampled, mainVars
    <2> QED BY <2>1
  <1>11. CASE ReadsRealtime
    <2>1. /\ pc = "reading" /\ pc' \in {"head", "publish"}
          /\ UNCHANGED <<main, stopped, capture, online>>
      BY <1>11 DEF ReadsRealtime, Sampled, mainVars
    <2> QED BY <2>1
  <1>12. ASSUME NEW stamp \in Stamps, ReadsTimeline(stamp) PROVE ControlOK'
    <2>1. /\ pc = "reading" /\ pc' \in {"head", "pacing", "publish"}
          /\ UNCHANGED <<main, stopped, capture, online>>
      BY <1>12 DEF ReadsTimeline, mainVars
    <2> QED BY <2>1
  <1>13. CASE Paced
    BY <1>13 DEF Paced, Leave, mainVars
  <1>14. CASE Publish
    BY <1>14 DEF Publish, mainVars
  <1>15. CASE Rested
    BY <1>15 DEF Rested, mainVars
  <1>16. CASE UNCHANGED vars
    BY <1>16 DEF vars
  <1>17. CASE WritesClosed
    BY <1>17 DEF WritesClosed, Leave, mainVars
  <1> QED BY <1>1, <1>2, <1>3, <1>4, <1>5, <1>6, <1>7, <1>8, <1>9,
             <1>10, <1>11, <1>12, <1>13, <1>14, <1>15, <1>16, <1>17
          DEF Next, ThreadStep

LEMMA ClockStep == ClockOK /\ FileOK /\ PacerOK /\ [Next]_vars => ClockOK'
  <1> SUFFICES ASSUME ClockOK, FileOK, PacerOK, [Next]_vars
               PROVE  ClockOK'
    OBVIOUS
  <1> USE ConstantTypes DEF ClockOK
  <1>1. CASE Tick
    BY <1>1 DEF Tick
  <1>2. CASE Start
    BY <1>2 DEF Start
  <1>3. CASE Stop
    BY <1>3 DEF Stop
  <1>4. CASE CloseSlots
    BY <1>4 DEF CloseSlots
  <1>5. CASE LoopHead
    <2>1. since' \in {since, now} /\ UNCHANGED <<cam, now, wake, joinEnd>>
      BY <1>5 DEF LoopHead, mainVars
    <2> QED BY <2>1
  <1>6. CASE OpenFails
    <2>1. wake' = now + OpenRetry /\ UNCHANGED <<cam, now, since, joinEnd>>
      BY <1>6 DEF OpenFails, Retry, mainVars
    <2> QED BY <2>1
  <1>7. CASE Opens
    <2>1. since' \in {since, now} /\ UNCHANGED <<cam, now, wake, joinEnd>>
      BY <1>7 DEF Opens, mainVars
    <2> QED BY <2>1
  <1>8. CASE ReadFails
    <2>1. wake' = now + ReadRetry /\ UNCHANGED <<cam, now, since, joinEnd>>
      BY <1>8 DEF ReadFails, Retry, mainVars
    <2> QED BY <2>1
  <1>9. CASE FileEnds
    <2>1. since' \in {since, now} /\ UNCHANGED <<cam, now, wake, joinEnd>>
      BY <1>9 DEF FileEnds, mainVars
    <2> QED BY <2>1
  <1>10. CASE ReadsFile
    <2>1. since' \in {since, now} /\ UNCHANGED <<cam, now, wake, joinEnd>>
      BY <1>10 DEF ReadsFile, mainVars
    <2> QED BY <2>1
  <1>11. CASE ReadsRealtime
    <2>1. since' \in {since, now} /\ UNCHANGED <<cam, now, wake, joinEnd>>
      BY <1>11 DEF ReadsRealtime, mainVars
    <2> QED BY <2>1
  <1>12. ASSUME NEW stamp \in Stamps, ReadsTimeline(stamp) PROVE ClockOK'
    <2>1. MediaTime(stamp) \in Nat /\ now \in Nat
      BY MediaTimeType
    <2>2. Deadline(MediaTime(stamp)) \in Nat
      BY <2>1, DeadlineType
    <2>3. wake' = wake \/ wake' = Deadline(MediaTime(stamp))
      BY <1>12 DEF ReadsTimeline
    <2>4. UNCHANGED <<cam, now, since, joinEnd>>
      BY <1>12 DEF ReadsTimeline, mainVars
    <2> QED BY <2>2, <2>3, <2>4
  <1>13. CASE Paced
    <2>1. since' \in {since, now} /\ UNCHANGED <<cam, now, wake, joinEnd>>
      BY <1>13 DEF Paced, mainVars
    <2> QED BY <2>1
  <1>14. CASE Publish
    <2>1. since + SamplePeriod \in Nat
      BY PeriodTypes
    <2>2. wake' = wake \/ wake' = since + SamplePeriod
      BY <1>14 DEF Publish
    <2>3. UNCHANGED <<cam, now, since, joinEnd>>
      BY <1>14 DEF Publish, mainVars
    <2> QED BY <2>1, <2>2, <2>3
  <1>15. CASE Rested
    <2>1. since' \in {since, now} /\ UNCHANGED <<cam, now, wake, joinEnd>>
      BY <1>15 DEF Rested, mainVars
    <2> QED BY <2>1
  <1>16. CASE UNCHANGED vars
    BY <1>16 DEF vars
  <1>17. CASE WritesClosed
    <2>1. since' \in {since, now} /\ UNCHANGED <<cam, now, wake, joinEnd>>
      BY <1>17 DEF WritesClosed, mainVars
    <2> QED BY <2>1
  <1> QED BY <1>1, <1>2, <1>3, <1>4, <1>5, <1>6, <1>7, <1>8, <1>9,
             <1>10, <1>11, <1>12, <1>13, <1>14, <1>15, <1>16, <1>17
          DEF Next, ThreadStep

LEMMA FileStep == ClockOK /\ FileOK /\ [Next]_vars => FileOK'
  <1> SUFFICES ASSUME ClockOK, FileOK, [Next]_vars
               PROVE  FileOK'
    OBVIOUS
  <1>1. CASE UNCHANGED file
    BY <1>1 DEF FileOK
  <1>2. CASE Opens \/ FileEnds
    <2>1. file' \in {[NewFile EXCEPT !.started = now], Rewound, file}
      BY <1>2 DEF Opens, FileEnds
    <2>2. now \in Nat
      BY ConstantTypes DEF ClockOK
    <2>3. file' = file \/ \E index \in {0, file.index} :
             file' = [position |-> 0, index |-> index, started |-> now]
      BY <2>1 DEF FileOK, NewFile, Rewound
    <2> QED BY <2>2, <2>3, ConstantTypes DEF FileOK
  <1>3. CASE ReadsFile
    <2>1. Skipped \in Nat
      BY SkippedType
    <2>2. file.position + Skipped < FileLength
      BY <1>3, <2>1, ConstantTypes DEF ReadsFile, EndOfFile, FileOK
    <2>3. file' = [file EXCEPT !.position = @ + Skipped + 1, !.index = @ + Skipped + 1]
      BY <1>3 DEF ReadsFile
    <2>4. file' = [position |-> file.position + Skipped + 1,
                   index |-> file.index + Skipped + 1, started |-> file.started]
      BY <2>3 DEF FileOK
    <2> QED BY <2>1, <2>2, <2>4, ConstantTypes DEF FileOK
  <1>4. UNCHANGED file \/ Opens \/ FileEnds \/ ReadsFile
    BY DEF vars, Next, ThreadStep, Tick, Start, Stop, CloseSlots, LoopHead, OpenFails,
           ReadFails, ReadsRealtime, ReadsTimeline, Paced, Publish, WritesClosed, Rested,
           fileVars
  <1> QED BY <1>1, <1>2, <1>3, <1>4

LEMMA PacerStep == ClockOK /\ PacerOK /\ [Next]_vars => PacerOK'
  <1> SUFFICES ASSUME ClockOK, PacerOK, [Next]_vars
               PROVE  PacerOK'
    OBVIOUS
  <1>1. CASE UNCHANGED pacer
    BY <1>1 DEF PacerOK
  <1>2. CASE Opens
    BY <1>2 DEF Opens, NewPacer, PacerOK
  <1>3. ASSUME NEW stamp \in Stamps, ReadsTimeline(stamp) PROVE PacerOK'
    <2> DEFINE media == MediaTime(stamp)
    <2>1. media \in Nat
      BY MediaTimeType DEF ClockOK
    <2>2. now \in Nat /\ cam \in Camera
      BY ConstantTypes DEF ClockOK
    <2>3. Deadline(media) \in Nat /\ None \notin Nat
      BY <2>1, <2>2, DeadlineType, ConstantTypes
    <2>4. \/ pacer' = [pacer EXCEPT !.media = media]
          \/ \E next : pacer' = [media |-> media, published |-> media,
                                 next |-> next, deadline |-> Deadline(media)]
      BY <1>3 DEF ReadsTimeline
    <2> HIDE DEF media
    <2> QED BY <2>1, <2>3, <2>4 DEF PacerOK
  <1>4. UNCHANGED pacer \/ Opens \/ \E stamp \in Stamps : ReadsTimeline(stamp)
    BY DEF vars, Next, ThreadStep, Tick, Start, Stop, CloseSlots, LoopHead, OpenFails,
           ReadFails, FileEnds, ReadsFile, ReadsRealtime, Paced, Publish, WritesClosed,
           Rested,
           timingVars
  <1> QED BY <1>1, <1>2, <1>3, <1>4

LEMMA TypesStep == Types /\ [Next]_vars => Types'
  <1> QED BY ControlStep, ClockStep, FileStep, PacerStep DEF Types

\* The variables of the reader have their types: it reads only from an open capture,
\* releases it when it ends, and a camera without a capture is offline.
THEOREM TypeCorrect == Spec => []TypeOK
  <1>1. Spec => []Types
    BY TypesInit, TypesStep, PTL DEF Spec
  <1> QED BY <1>1, TypesImplyTypeOK, PTL
-----------------------------------------------------------------------------
\* The frame a file played in time is at when its media clock started at started.
DesiredAt(time, started, native) ==
    (2 * (time - started) + native) \div (2 * native)

\* A quotient grows by one when the dividend grows by the divisor.
LEMMA QuotientGrows ==
    ASSUME NEW a \in Int, NEW c \in Int, NEW b \in Nat, b > 0, c >= a + b
    PROVE  c \div b >= a \div b + 1
  <1> QED OBVIOUS

\* One sampling period later at least one more frame is due.
LEMMA NextFrameIsDue ==
    ASSUME NEW s \in Int, NEW t \in Int, NEW started \in Int,
           NEW native \in Nat, native > 0, NEW period \in Nat, period >= native,
           t >= s + period
    PROVE  DesiredAt(t, started, native) >= DesiredAt(s, started, native) + 1
  <1> DEFINE a == 2 * (s - started) + native
             c == 2 * (t - started) + native
             b == 2 * native
  <1>2. a \in Int /\ c \in Int /\ b \in Nat /\ b > 0 /\ c >= a + b
    OBVIOUS
  <1>3. c \div b >= a \div b + 1
    <2> HIDE DEF a, b, c
    <2> QED BY <1>2, QuotientGrows
  <1> QED BY <1>3 DEF DesiredAt

\* Right after its start a file is at its first frame.
LEMMA FirstFrameIsDue ==
    ASSUME NEW t \in Int, NEW native \in Nat, native > 0
    PROVE  DesiredAt(t, t, native) = 0
  <1>2. 2 * (t - t) + native = native
    OBVIOUS
  <1>3. native \div (2 * native) = 0
    OBVIOUS
  <1> QED BY <1>2, <1>3 DEF DesiredAt

\* The frames read never run ahead of the media clock: before a read, the next frame
\* is due; afterwards exactly the frame read last was.
OnSchedule ==
    FollowsClock =>
        /\ pc # "pacing"
        /\ file.position = file.index
        /\ pc = "head" /\ capture =>
              stopped \/ file.index <= DesiredAt(now, file.started, cam.native)
        /\ pc = "reading" => file.index <= DesiredAt(since, file.started, cam.native)
        /\ pc = "publish" => frame = DesiredAt(since, file.started, cam.native)
        /\ pc \in {"publish", "resting"} =>
              file.index = DesiredAt(since, file.started, cam.native) + 1
        /\ pc = "resting" => wake = since + SamplePeriod

LEMMA OnScheduleStep ==
    ASSUME Types, OnSchedule, [Next]_vars
    PROVE  OnSchedule'
  <1> SUFFICES ASSUME FollowsClock'
               PROVE  OnSchedule'
    BY DEF OnSchedule
  <1>0. cam' = cam /\ SamplePeriod' = SamplePeriod
    BY CameraIsKept DEF SamplePeriod
  <1>a. FollowsClock /\ PlaysFile /\ cam.file /\ cam.timeline /\ ~PacesStream
    BY <1>0 DEF FollowsClock, PlaysFile, PacesStream
  <1>b. /\ now \in Int /\ since \in Int
        /\ file.started \in Int /\ file.index \in Nat /\ file.position \in Nat
        /\ cam.native \in Nat /\ cam.native > 0
        /\ SamplePeriod \in Nat /\ SamplePeriod >= cam.native
    BY <1>a, ConstantTypes, PeriodTypes DEF Types, ClockOK, FileOK, FollowsClock
  <1>c. /\ DesiredAt(since, file.started, cam.native) = Desired
        /\ Desired \in Int
    BY <1>b, DesiredType DEF DesiredAt, Desired, Types
  <1>d. stopped \in BOOLEAN /\ capture \in BOOLEAN
    BY DEF Types, ControlOK
  <1> USE <1>0, <1>a DEF OnSchedule
  <1>1. CASE Tick
    BY <1>1 DEF Tick, fileVars
  <1>2. CASE Start
    BY <1>2 DEF Start, fileVars, Types, ControlOK
  <1>3. CASE Stop
    BY <1>3 DEF Stop, fileVars
  <1>4. CASE CloseSlots
    BY <1>4 DEF CloseSlots, fileVars
  <1>5. CASE LoopHead
    <2>1. UNCHANGED <<file, stopped, now>> /\ since' = now /\ pc = "head"
      BY <1>5 DEF LoopHead, mainVars, fileVars
    <2>2. pc' \in {"done", "opening"} \/ (pc' = "reading" /\ capture /\ ~stopped)
      BY <1>5 DEF LoopHead, Leave
    <2> QED BY <2>1, <2>2
  <1>6. CASE Opens
    <2>1. pc' = "reading" /\ file' = [NewFile EXCEPT !.started = now] /\ since' = now
      BY <1>6 DEF Opens
    <2>2. file'.position = 0 /\ file'.index = 0 /\ file'.started = now
      BY <2>1 DEF NewFile
    <2>3. DesiredAt(now, now, cam.native) = 0
      BY <1>b, FirstFrameIsDue
    <2> QED BY <2>1, <2>2, <2>3
  <1>7. CASE FileEnds
    <2>1. CASE file' = Rewound /\ pc' = "head" /\ now' = now
      <3>1. file'.position = 0 /\ file'.index = 0 /\ file'.started = now
        BY <2>1 DEF Rewound, Types, FileOK
      <3>2. DesiredAt(now, now, cam.native) = 0
        BY <1>b, FirstFrameIsDue
      <3> QED BY <2>1, <3>1, <3>2
    <2>2. CASE file' = file /\ pc' = "done"
      BY <2>2
    <2> QED BY <1>7, <2>1, <2>2 DEF FileEnds, Leave, mainVars
  <1>8. CASE ReadsFile
    <2>1. pc = "reading" /\ pc' = "publish" /\ UNCHANGED since
          /\ frame' = file.position + Skipped
          /\ file' = [file EXCEPT !.position = @ + Skipped + 1, !.index = @ + Skipped + 1]
      BY <1>8 DEF ReadsFile
    <2>2. /\ file'.position = file.position + Skipped + 1
          /\ file'.index = file.index + Skipped + 1
          /\ file'.started = file.started
      BY <2>1 DEF Types, FileOK
    <2>3. Skipped = Desired - file.index
      BY <2>1, <1>b, <1>c DEF Skipped
    <2> QED BY <2>1, <2>2, <2>3, <1>b, <1>c
  <1>9. CASE Publish
    <2>1. UNCHANGED <<file, since, now, stopped>> /\ pc = "publish"
      BY <1>9 DEF Publish, mainVars, fileVars
    <2>2. CASE pc' = "resting" /\ wake' = since + SamplePeriod
      BY <2>1, <2>2
    <2>3. CASE pc' = "head" /\ now >= since + SamplePeriod
      <3>1. DesiredAt(now, file.started, cam.native)
              >= DesiredAt(since, file.started, cam.native) + 1
        BY <2>3, <1>b, NextFrameIsDue
      <3> QED BY <2>1, <2>3, <3>1, <1>b, <1>c
    <2> QED BY <1>9, <1>b, <2>2, <2>3 DEF Publish
  <1>10. CASE Rested
    <2>1. UNCHANGED <<file, since, now, stopped, capture>> /\ pc' = "head"
          /\ pc \in {"resting", "retry"}
      BY <1>10 DEF Rested, mainVars, fileVars
    <2>2. CASE pc = "retry"
      BY <2>1, <2>2, <1>d DEF Types, ControlOK
    <2>3. CASE pc = "resting" /\ ~stopped
      <3>1. now >= since + SamplePeriod
        BY <1>10, <2>3 DEF Rested, Wakes
      <3>2. DesiredAt(now, file.started, cam.native)
              >= DesiredAt(since, file.started, cam.native) + 1
        BY <3>1, <1>b, NextFrameIsDue
      <3> QED BY <2>1, <2>3, <3>2, <1>b, <1>c
    <2>4. CASE stopped
      BY <2>1, <2>4, <1>d
    <2> QED BY <2>1, <2>2, <2>3, <2>4, <1>d
  <1>11. CASE OpenFails
    BY <1>11 DEF OpenFails, Retry, mainVars, fileVars
  <1>12. CASE UNCHANGED vars
    BY <1>12 DEF vars, fileVars
  <1>14. CASE WritesClosed
    BY <1>14 DEF WritesClosed, Leave, mainVars, fileVars
  <1>13. /\ ~ReadFails /\ ~ReadsRealtime /\ ~Paced
         /\ ~\E stamp \in Stamps : ReadsTimeline(stamp)
    BY DEF ReadFails, ReadsRealtime, Paced, ReadsTimeline
  <1> QED BY <1>1, <1>2, <1>3, <1>4, <1>5, <1>6, <1>7, <1>8, <1>9, <1>10, <1>11,
             <1>12, <1>13, <1>14 DEF Next, ThreadStep

\* "Without changing media speed": whatever its frame rate, its cap and the time reads
\* take, a file shows the frame its media clock is at, across rewinds and stalls.
THEOREM FilesPlayOnTime == Spec => []FilePlaysOnTime
  <1>1. Init => OnSchedule
    BY DEF Init, OnSchedule, NewFile
  <1>2. Types /\ OnSchedule /\ [Next]_vars => OnSchedule'
    BY OnScheduleStep
  <1>3. Spec => []OnSchedule
    BY <1>1, <1>2, TypesInit, TypesStep, PTL DEF Spec
  <1>4. OnSchedule => FilePlaysOnTime
    BY DEF OnSchedule, FilePlaysOnTime, DesiredAt, Desired
  <1> QED BY <1>3, <1>4, PTL
-----------------------------------------------------------------------------
LEMMA NextSampleIsLater ==
    ASSUME cam \in Camera, SamplePeriod > 0,
           NEW next \in Int, NEW media \in Int, media >= next
    PROVE  NextSample(next, media) > media
  <1>1. SamplePeriod \in Nat /\ SamplePeriod > 0
    BY PeriodTypes
  <1> DEFINE a == media - next
             b == SamplePeriod
  <1>2. a \in Int /\ b \in Nat /\ b > 0
    BY <1>1
  <1>3. a \div b \in Int /\ (a \div b + 1) * b > a /\ (a \div b + 1) * b \in Int
    <2> HIDE DEF a, b
    <2> QED BY <1>2
  <1>4. NextSample(next, media) = next + (a \div b + 1) * b
    BY <1>1 DEF NextSample
  <1> HIDE DEF b
  <1> QED BY <1>3, <1>4

LEMMA NextSampleType ==
    ASSUME cam \in Camera, NEW next \in Int, NEW media \in Int
    PROVE  NextSample(next, media) \in Int
  <1>1. SamplePeriod \in Nat
    BY PeriodTypes
  <1>2. CASE SamplePeriod = 0
    BY <1>2 DEF NextSample
  <1>3. CASE SamplePeriod > 0
    <2> DEFINE q == (media - next) \div SamplePeriod + 1
    <2>1. q \in Int
      BY <1>1, <1>3, DivisionType
    <2>2. NextSample(next, media) = next + q * SamplePeriod
      BY <1>1, <1>3 DEF NextSample
    <2> HIDE DEF q
    <2> QED BY <1>1, <2>1, <2>2
  <1> QED BY <1>1, <1>2, <1>3

\* The multiples of b at and above a split the quotients.
LEMMA QuotientBound ==
    ASSUME NEW a \in Int, NEW k \in Int, NEW b \in Nat, b > 0
    PROVE  /\ a >= k * b => a \div b >= k
           /\ a < k * b => a \div b < k
  <1> QED OBVIOUS

\* The sampling grid of a connection starts at its first frame.
OnGrid(next, first, period) == \E k \in Int : next = first + k * period

LEMMA NextSampleOnGrid ==
    ASSUME cam \in Camera, SamplePeriod > 0,
           NEW next \in Int, NEW media \in Int, NEW first \in Int,
           OnGrid(next, first, SamplePeriod)
    PROVE  OnGrid(NextSample(next, media), first, SamplePeriod)
  <1>1. SamplePeriod \in Nat /\ SamplePeriod > 0
    BY PeriodTypes
  <1>2. PICK k \in Int : next = first + k * SamplePeriod
    BY DEF OnGrid
  <1> DEFINE q == (media - next) \div SamplePeriod + 1
  <1>3. q \in Int
    BY <1>1, DivisionType
  <1>4. next + q * SamplePeriod = first + (k + q) * SamplePeriod
    <2> HIDE DEF q
    <2> QED BY <1>1, <1>2, <1>3
  <1>5. k + q \in Int
    BY <1>3
  <1>6. NextSample(next, media) = next + q * SamplePeriod
    BY <1>1 DEF NextSample
  <1> HIDE DEF q
  <1> QED BY <1>4, <1>5, <1>6 DEF OnGrid

\* A paced stream shows a frame exactly when its deadline is over, and plans the next
\* one from there: a deadline not before the last one plus the time between the two and,
\* if frames are sampled, a sample on the grid that is after the last one.
Planned ==
    PacesStream =>
        /\ shown.at # None =>
              /\ shown.at \in Nat /\ shown.media \in Nat /\ shown.first \in Nat
              /\ pacer.published # None
        /\ shown.at = None => shown.first = None
        /\ pacer.published = None => pacer.next = None
        /\ pacer.published # None =>
              /\ pacer.next \in Int
              /\ SamplePeriod > 0 =>
                    /\ pacer.next > pacer.published
                    /\ OnGrid(pacer.next,
                              IF shown.at = None THEN pacer.published ELSE shown.first,
                              SamplePeriod)
        /\ pc \notin {"pacing", "publish", "done"} =>
              /\ shown.at = None => pacer.published = None
              /\ shown.at # None =>
                    shown.at = pacer.deadline /\ shown.media = pacer.published
        /\ pc \in {"pacing", "publish"} =>
              /\ frame \in Nat /\ pacer.published = frame /\ pacer.deadline \in Nat
              /\ shown.at # None =>
                    /\ pacer.deadline - shown.at >= frame - shown.media
                    /\ SamplePeriod > 0 => \E sample \in Int :
                          /\ OnGrid(sample, shown.first, SamplePeriod)
                          /\ shown.media < sample /\ sample <= frame
        /\ pc = "pacing" => wake = pacer.deadline /\ now <= wake
        /\ pc = "publish" => now = pacer.deadline

LEMMA PlannedStep ==
    ASSUME Types, Planned, [Next]_vars
    PROVE  Planned'
  <1> SUFFICES ASSUME PacesStream'
               PROVE  Planned'
    BY DEF Planned
  <1>0. cam' = cam /\ SamplePeriod' = SamplePeriod
    BY CameraIsKept DEF SamplePeriod
  <1>a. PacesStream /\ ~cam.file /\ cam.timeline /\ ~PlaysFile
    BY <1>0 DEF PlaysFile, PacesStream
  <1>b. now \in Nat /\ wake \in Nat /\ None \notin Int /\ cam \in Camera
    BY ConstantTypes DEF Types, ClockOK
  <1>c. PICK period \in Nat : period = SamplePeriod
    BY <1>b, PeriodTypes
  <1>d. SamplePeriod = period /\ SamplePeriod' = period
    BY <1>0, <1>c
  <1> USE <1>a, <1>d DEF Planned
  <1>1. CASE /\ UNCHANGED <<pacer, shown, now, wake, frame>>
             /\ \/ pc' = pc
                \/ pc \notin {"pacing", "publish", "done"} /\ pc' \notin {"pacing", "publish"}
                \/ pc' = "done"
    BY <1>1
  <1>2. CASE Tick
    <2>1. UNCHANGED <<pacer, shown, wake, frame, pc>> /\ now' = now + 1 /\ pc # "publish"
      BY <1>2 DEF Tick, timingVars
    <2>2. pc = "pacing" => now < wake
      BY <1>2, <1>b DEF Tick, Wakes
    <2>3. pc = "pacing" => now' <= wake'
      BY <2>1, <2>2, <1>b
    <2> QED BY <2>1, <2>3
  <1>3. CASE Opens
    <2>1. pacer' = NewPacer /\ shown' = NewShown /\ pc' = "reading"
      BY <1>3 DEF Opens
    <2> QED BY <2>1 DEF NewPacer, NewShown
  <1>4. ASSUME NEW stamp \in Stamps, ReadsTimeline(stamp) PROVE Planned'
    <2> DEFINE media == MediaTime(stamp)
               next == IF pacer.next = None THEN media ELSE pacer.next
    <2>1. media \in Nat
      BY <1>b, MediaTimeType DEF Types
    <2>2. /\ pc = "reading" /\ UNCHANGED <<shown, now>>
          /\ IF period > 0 /\ media < next
             THEN /\ pacer' = [pacer EXCEPT !.media = media]
                  /\ pc' = "head"
             ELSE /\ pacer' = [media |-> media, published |-> media,
                               next |-> NextSample(next, media),
                               deadline |-> Deadline(media)]
                  /\ pc' = IF Deadline(media) > now THEN "pacing" ELSE "publish"
                  /\ wake' = Deadline(media)
                  /\ frame' = media
      BY <1>4 DEF ReadsTimeline, mainVars
    <2>3. Deadline(media) \in Nat /\ Deadline(media) >= now
      BY <2>1, <1>b, DeadlineType DEF Types
    <2>4. /\ next \in Int
          /\ period > 0 =>
                OnGrid(next, IF shown.at = None THEN media ELSE shown.first, period)
      <3>1. CASE pacer.published = None
        <4>1. next = media /\ shown.at = None
          BY <3>1
        <4>3. media = media + 0 * period
          BY <2>1
        <4> HIDE DEF media, next
        <4> QED BY <2>1, <4>1, <4>3 DEF OnGrid
      <3>2. CASE pacer.published # None
        <4>1. shown.at # None
          BY <2>2, <3>2
        <4>2. /\ pacer.next \in Int
              /\ period > 0 => OnGrid(pacer.next, shown.first, period)
          BY <3>2, <4>1
        <4>3. next = pacer.next
          BY <4>2, <1>b
        <4> QED BY <4>1, <4>2, <4>3
      <3> QED BY <3>1, <3>2
    <2>5. CASE period > 0 /\ media < next
      <3>1. /\ pacer' = [pacer EXCEPT !.media = media]
            /\ pc' = "head" /\ UNCHANGED shown
        BY <2>2, <2>5
      <3>2. /\ pacer'.published = pacer.published /\ pacer'.next = pacer.next
            /\ pacer'.deadline = pacer.deadline
        BY <3>1 DEF Types, PacerOK
      <3> HIDE DEF media, next
      <3> QED BY <2>2, <3>1, <3>2
    <2>6. CASE ~(period > 0 /\ media < next)
      <3>1. /\ pacer'.published = media /\ pacer'.next = NextSample(next, media)
            /\ pacer'.deadline = Deadline(media)
            /\ wake' = Deadline(media) /\ frame' = media
            /\ pc' = IF Deadline(media) > now THEN "pacing" ELSE "publish"
        BY <2>2, <2>6
      <3>2. /\ NextSample(next, media) \in Int
            /\ period > 0 => NextSample(next, media) > media
        <4> HIDE DEF media, next
        <4>1. media \in Int /\ next \in Int /\ (period > 0 => media >= next)
          BY <2>1, <2>4, <2>6
        <4> QED BY <1>b, <4>1, NextSampleIsLater, NextSampleType
      <3>3. period > 0 =>
              OnGrid(NextSample(next, media),
                     IF shown.at = None THEN media ELSE shown.first, period)
        <4>1. (IF shown.at = None THEN media ELSE shown.first) \in Int
          BY <2>1
        <4> HIDE DEF media, next
        <4> QED BY <1>b, <2>1, <2>4, <4>1, NextSampleOnGrid
      <3>4. ASSUME shown.at # None
            PROVE  /\ Deadline(media) - shown.at >= media - shown.media
                   /\ period > 0 => /\ OnGrid(next, shown.first, period)
                                    /\ shown.media < next /\ next <= media
        <4>1. /\ pacer.published # None /\ shown.media \in Nat /\ shown.at \in Nat
              /\ shown.at = pacer.deadline /\ shown.media = pacer.published
              /\ pacer.next \in Int /\ (period > 0 => pacer.next > pacer.published)
          BY <2>2, <3>4
        <4>2. next = pacer.next
          BY <4>1, <1>b
        <4>3. Deadline(media) >= pacer.deadline + media - pacer.published
          BY <4>1, <1>b, <2>1, DeadlineKeepsPace DEF Types
        <4> HIDE DEF media, next
        <4> QED BY <2>1, <2>3, <2>4, <2>6, <3>4, <4>1, <4>2, <4>3
      <3>5. pc' = "publish" => now = Deadline(media)
        BY <3>1, <2>3, <1>b
      <3>6. pc' = "pacing" => now <= Deadline(media)
        BY <2>3
      <3>7. shown.at # None =>
              /\ shown.at \in Nat /\ shown.media \in Nat /\ shown.first \in Nat
        OBVIOUS
      <3> HIDE DEF media, next
      <3> QED BY <2>1, <2>2, <2>3, <2>4, <3>1, <3>2, <3>3, <3>4, <3>5, <3>6, <3>7, <1>b
    <2> QED BY <2>5, <2>6
  <1>5. CASE Publish
    <2>1. /\ pc = "publish" /\ pc' = "head" /\ UNCHANGED <<pacer, now, frame>>
          /\ shown' = [at |-> now, media |-> frame,
                       first |-> IF shown.first = None THEN frame ELSE shown.first]
      BY <1>5 DEF Publish, mainVars, timingVars
    <2>2. /\ shown'.at = now /\ shown'.media = frame
          /\ shown'.first = IF shown.first = None THEN frame ELSE shown.first
      BY <2>1
    <2>3. shown'.first = IF shown.at = None THEN pacer.published ELSE shown.first
      BY <2>1, <2>2, <1>b
    <2> QED BY <2>1, <2>2, <2>3, <1>b
  <1>6. CASE Paced
    <2>1. UNCHANGED <<pacer, shown, now, wake, frame, stopped>> /\ pc = "pacing"
      BY <1>6 DEF Paced, mainVars, timingVars
    <2>2. CASE stopped
      BY <1>6, <2>1, <2>2 DEF Paced, Leave
    <2>3. CASE ~stopped
      <3>1. pc' = "publish" /\ now >= wake
        BY <1>6, <2>3 DEF Paced, Wakes
      <3> QED BY <2>1, <3>1, <1>b
    <2> QED BY <2>2, <2>3
  <1>15. CASE WritesClosed
    <2>1. UNCHANGED <<pacer, shown, now, wake, frame>> /\ pc' = "done"
      BY <1>15 DEF WritesClosed, Leave, mainVars, timingVars
    <2> QED BY <1>1, <2>1
  <1>7. LoopHead \/ OpenFails \/ ReadFails \/ Rested
        => /\ UNCHANGED <<pacer, shown, now, frame>>
           /\ pc \notin {"pacing", "publish", "done"} /\ pc' \notin {"pacing", "publish"}
    BY DEF LoopHead, Leave, OpenFails, ReadFails, Retry, Rested, mainVars, timingVars
  <1>8. Start \/ Stop \/ CloseSlots => UNCHANGED <<pacer, shown, now, wake, frame>>
    BY DEF Start, Stop, CloseSlots, timingVars
  <1>9. Start => pc = "none" /\ pc' = "head"
    BY DEF Start, Types, ControlOK
  <1>10. Stop \/ CloseSlots => pc' = pc
    BY DEF Stop, CloseSlots
  <1>11. ~FileEnds /\ ~ReadsFile /\ ~ReadsRealtime
    BY DEF FileEnds, ReadsFile, ReadsRealtime
  <1>12. CASE LoopHead \/ OpenFails \/ ReadFails \/ Rested
    BY <1>7, <1>12
  <1>13. CASE Start \/ Stop \/ CloseSlots
    BY <1>1, <1>8, <1>9, <1>10, <1>13
  <1>14. CASE UNCHANGED vars
    BY <1>1, <1>14 DEF vars, timingVars
  <1> QED BY <1>2, <1>3, <1>4, <1>5, <1>6, <1>11, <1>12, <1>13, <1>14, <1>15
          DEF Next, ThreadStep

LEMMA AlwaysPlanned == Spec => [](Types /\ Planned)
  <1>1. Init => Planned
    BY DEF Init, Planned, NewPacer, NewShown
  <1>2. Types /\ Planned /\ [Next]_vars => Planned'
    BY PlannedStep
  <1> QED BY <1>1, <1>2, TypesInit, TypesStep, PTL DEF Spec

\* "Without catch-up bursts": late, damaged or missing timestamps and stalls never
\* make two frames follow each other faster than on the media timeline.
THEOREM StreamsNeverBurst == Spec => NoBursts
  <1>1. Types /\ Planned /\ [Next]_vars
        => [ Publish /\ PacesStream /\ shown.at # None
               => now - shown.at >= frame - shown.media ]_vars
    BY DEF Publish, Planned
  <1> QED BY <1>1, AlwaysPlanned, PTL DEF Spec, NoBursts

\* max_fps: in no sampling period of a connection, counted from its first frame, are
\* two frames published, with a cap, with a rate or with both.
THEOREM StreamsKeepTheirRate == Spec => OnePerPeriod
  <1>1. ASSUME Types, Planned, Publish, PacesStream, SamplePeriod > 0, shown.at # None
        PROVE  Period(frame) > Period(shown.media)
    <2>1. /\ frame \in Int /\ shown.media \in Int /\ shown.first \in Int
      BY <1>1 DEF Publish, Planned
    <2>2. PICK sample \in Int : /\ OnGrid(sample, shown.first, SamplePeriod)
                               /\ shown.media < sample /\ sample <= frame
      BY <1>1 DEF Publish, Planned
    <2>3. PICK k \in Int : sample = shown.first + k * SamplePeriod
      BY <2>2 DEF OnGrid
    <2>4. SamplePeriod \in Nat /\ SamplePeriod > 0
      BY <1>1, PeriodTypes DEF Types, ClockOK
    <2>5. /\ frame - shown.first >= k * SamplePeriod
          /\ shown.media - shown.first < k * SamplePeriod
      BY <2>1, <2>2, <2>3, <2>4
    <2>6. /\ (frame - shown.first) \div SamplePeriod >= k
          /\ (shown.media - shown.first) \div SamplePeriod < k
      <3> DEFINE a == frame - shown.first
                 c == shown.media - shown.first
      <3>1. a \in Int /\ c \in Int /\ a >= k * SamplePeriod /\ c < k * SamplePeriod
        BY <2>1, <2>5
      <3> HIDE DEF a, c
      <3>2. a \div SamplePeriod >= k /\ c \div SamplePeriod < k
        BY <2>4, <3>1, QuotientBound
      <3> QED BY <3>2 DEF a, c
    <2>7. /\ (frame - shown.first) \div SamplePeriod \in Int
          /\ (shown.media - shown.first) \div SamplePeriod \in Int
      BY <2>1, <2>4, DivisionType
    <2> QED BY <2>6, <2>7 DEF Period
  <1>2. Types /\ Planned /\ [Next]_vars
        => [ Publish /\ PacesStream /\ SamplePeriod > 0 /\ shown.at # None
               => Period(frame) > Period(shown.media) ]_vars
    BY <1>1
  <1> QED BY <1>2, AlwaysPlanned, PTL DEF Spec, OnePerPeriod
=============================================================================
