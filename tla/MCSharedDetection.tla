------------------------- MODULE MCSharedDetection -------------------------
(* Small instances of SharedDetection and Lifecycle for TLC, and bounded     *)
(* inputs for the operators of InferenceCoordination.                        *)
EXTENDS Lifecycle, TLC

CONSTANTS k1, k2, c1, c2

\* k1 watches both cameras, k2 only the first.
OwnsSome == [k \in Consumers |-> IF k = k1 THEN {c1, c2} ELSE {c1}]

\* Two frames of the first camera, one of the second.
MoreOfFirst == [c \in Cameras |-> IF c = c1 THEN 2 ELSE 1]

BothInOrder == <<k1, k2>>

\* Every filter and limit of a detector that may be shared, and the reasons why one
\* is not.
SomeDetectors ==
    {b \in Binding({1, 3}, {AnyClass, {"p"}, {"q"}}, 1 .. 2) :
        \/ Shareable(b)
        \/ b.confidence = 1 /\ b.classes = AnyClass /\ b.maxDetections = 1}

\* Whatever three candidates of two classes the model finds, and however they
\* overlap.
SomeOutputs == Raw(3, {"p", "q"})
=============================================================================
