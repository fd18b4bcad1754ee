---------------------------- MODULE MCNightCycle ----------------------------
(* Instances of NightCycle for TLC: which calls may raise. *)
EXTENDS NightCycle

AllFaults == FaultKinds
=============================================================================
