-------------------------- MODULE MCScheduledTakeoff --------------------------
(***************************************************************************)
(* ScheduledTakeoff with drones that TLC need not tell apart.              *)
(***************************************************************************)
EXTENDS ScheduledTakeoff, TLC

AnyDrones == Permutations(Drones)
===============================================================================
