---------------------------- MODULE LatestFrame ----------------------------
(***************************************************************************)
(* What latest-frame transport promises, with no queue, lock or process:   *)
(* a camera publishes frames numbered 1, 2, 3, ...; a use case shows, per  *)
(* camera, one of the frames published so far and never goes back to an    *)
(* older one.  Frames in between may be skipped.  Frame 0 is "no frame".   *)
(***************************************************************************)
EXTENDS Naturals

CONSTANTS Cameras, UseCases

VARIABLES published,   \* published[c]: newest frame of camera c
          delivered    \* delivered[u][c]: frame of c that use case u shows

vars == <<published, delivered>>

Init ==
    /\ published = [c \in Cameras |-> 0]
    /\ delivered = [u \in UseCases |-> [c \in Cameras |-> 0]]

Produce(c) ==
    /\ published' = [published EXCEPT ![c] = @ + 1]
    /\ UNCHANGED delivered

Deliver(u, c) ==
    /\ \E n \in delivered[u][c] .. published[c] :
          delivered' = [delivered EXCEPT ![u][c] = n]
    /\ UNCHANGED published

Next ==
    \/ \E c \in Cameras : Produce(c)
    \/ \E u \in UseCases, c \in Cameras : Deliver(u, c)

Spec == Init /\ [][Next]_vars
=============================================================================
