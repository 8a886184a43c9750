--------------------------- MODULE MCVehicleGate ---------------------------
EXTENDS VehicleGate

\* Before line 1, on it, between the lines, on line 2, beyond it.
RoadPositions == {0, 2, 4, 6, 8}
RoadZone == {2, 4, 6}
=============================================================================
