-------------------------- MODULE MCDynamicAdmission --------------------------
(* Instances of DynamicAdmission for TLC.                                   *)
EXTENDS DynamicAdmission

MCRobots == 1 .. 4

NoModes == {}

(* Under caution the window of near arrivals decides in one contract, the   *)
(* weighted mass in the other.                                              *)
MCWeightLimit ==
    [contract \in Contracts |->
        [healthy |-> 12, brake |-> 4,
         caution |-> IF contract = EtaOverbooking THEN 12 ELSE 9]]

MCBlockStreak == [caution |-> 1, brake |-> 2]
MCDrought == [caution |-> 1, brake |-> 3]

=============================================================================
