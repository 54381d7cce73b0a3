-------------------------- MODULE MCStationAdmission --------------------------
(* Instances of StationAdmission for TLC.                                   *)
EXTENDS StationAdmission

MCRobots == 1 .. 4
FewRobots == 1 .. 3

AllModes == {Legacy, Committed, Fifo}
LiveModes == {Legacy, Fifo}

=============================================================================
