-------------------------- MODULE MCStationFeedback --------------------------
(* Two robots, one slot; the smallest thresholds with caution, brake and  *)
(* lock apart.                                                              *)
EXTENDS StationFeedback

Two == 1 .. 2

TokenContracts == {Legacy, Committed}
CommittedOnly  == {Committed}

CautionLimits == [exit |-> 1, drought |-> 1, rejection |-> 1]
BrakeLimits   == [exit |-> 3, drought |-> 2, rejection |-> 2]
EarlyLimits   == [exit |-> 1, drought |-> 1, rejection |-> 1, pressure |-> 1, evidence |-> 2]
RecoveryNeeds == [clear |-> 1, releases |-> 2]

=============================================================================
