-------------------------- MODULE MCMachineSetTimers --------------------------
(***************************************************************************)
(* The machine set of MCMachineSet, with the count of overtaking events.   *)
(***************************************************************************)
EXTENDS MCMachineSet, MachineSetTimers
=============================================================================
