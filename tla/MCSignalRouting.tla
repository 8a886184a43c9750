-------------------------- MODULE MCSignalRouting --------------------------
(* Small instances of SignalRouting for TLC.                               *)
EXTENDS SignalRouting

CONSTANTS c1, c2, u1, u2

\* u1 watches both cameras, u2 only the second.
AssignedBoth == [u \in UseCases |-> IF u = u1 THEN {c1, c2} ELSE {c2}]

\* One frame of the first camera, two of the one both use cases watch.
MoreOfSecond == [c \in Cameras |-> IF c = c2 THEN 2 ELSE 1]
=============================================================================
