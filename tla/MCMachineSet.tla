----------------------------- MODULE MCMachineSet -----------------------------
(***************************************************************************)
(* A machine set with two machines, an event for all of them and one with  *)
(* both for its targets.                                                   *)
(***************************************************************************)
EXTENDS MachineSet

CONSTANTS m1, m2, toAll, toBoth

AllOrBoth == [e \in UserEvents |-> IF e = toAll THEN <<>> ELSE <<m1, m2>>]
=============================================================================
