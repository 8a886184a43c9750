-------------------------- MODULE MCViolationGate --------------------------
(* A junction for ViolationGate.                                            *)
EXTENDS ViolationGate

CONSTANTS car, bus

\* In the approach, on the stop line, in the junction, in either exit zone.
RoadPositions == {0, 2, 4, 6, 7}
RoadApproach == {0, 2}
RoadExit == [p \in RoadPositions |->
                CASE p = 6 -> "right" [] p = 7 -> "straight" [] OTHER -> None]

\* Cars may turn right; nobody may go straight.
RightForCars == [m \in {"right", "straight"} |-> IF m = "right" THEN {car} ELSE {}]
=============================================================================
