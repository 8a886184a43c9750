---------------------------- MODULE TrafficLight ----------------------------
(***************************************************************************)
(* TrafficLightClassifier._smooth: the light of one camera is the majority *)
(* of the last window frames.  How the light of a frame is recognised in   *)
(* the image is external.                                                  *)
(***************************************************************************)
EXTENDS Naturals, Sequences, FiniteSets, SequencesExt

\* A deque with its maxlen; a camera seen for the first time has none.
NoHistory == [maxlen |-> 0, frames |-> <<>>]

Remember(history, light, window) ==
    LET old == IF history.maxlen = window THEN history.frames ELSE <<>>
        all == Append(old, light)
    IN  [maxlen |-> window,
         frames |-> IF Len(all) > window THEN Tail(all) ELSE all]

Count(frames, light) == Cardinality({i \in DOMAIN frames : frames[i] = light})

Candidates(frames) ==
    {l \in ToSet(frames) : \A m \in ToSet(frames) : Count(frames, l) >= Count(frames, m)}

\* Mutant of Majority: ties go to the light seen first.
MajoritySeenFirst(frames) ==
    frames[Min({i \in DOMAIN frames : frames[i] \in Candidates(frames)})]

\* Ties go to the light seen last.
Majority(frames) ==
    frames[Max({i \in DOMAIN frames : frames[i] \in Candidates(frames)})]

\* The history after the frames of an observed sequence.
HistoryOf(observed, window) ==
    LET history[n \in 0 .. Len(observed)] ==
            IF n = 0 THEN NoHistory
            ELSE Remember(history[n - 1], observed[n], window)
    IN  history[Len(observed)]

\* What classify returns for the last frame of it.
Smoothed(observed, window) == Majority(HistoryOf(observed, window).frames)
-----------------------------------------------------------------------------
\* The last n frames show one light.
SteadyFor(observed, n, light) ==
    \A i \in Len(observed) - n + 1 .. Len(observed) : observed[i] = light

\* A light that has been on for half the window is reported, whatever was seen
\* before; one that has been on for less, after a steady other light, is not.
FollowsTheLight(observed, window, light) ==
    \A n \in 1 .. Len(observed) :
        SteadyFor(observed, n, light) =>
            /\ 2 * n >= window => Smoothed(observed, window) = light
            /\ \A other \in ToSet(observed) \ {light} :
                  (/\ 2 * n < window /\ n + window <= Len(observed)
                   /\ SteadyFor(SubSeq(observed, 1, Len(observed) - n), window, other))
                  => Smoothed(observed, window) = other
=============================================================================
