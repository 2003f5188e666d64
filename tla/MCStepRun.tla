------------------------------- MODULE MCStepRun -------------------------------
(* StepRun on small instances. Process ids and calls are told apart only by   *)
(* equality; a call gets its mode when it begins.                             *)
EXTENDS StepRun, TLC

Symmetry == Permutations(Pids) \cup Permutations(Calls)
=============================================================================
