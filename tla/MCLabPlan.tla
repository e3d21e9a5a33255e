------------------------------ MODULE MCLabPlan ------------------------------
(* Every lab of three machines, every subset and both directions. *)
EXTENDS LabPlan, TLC

CONSTANTS m1, m2, m3

Names == Permutations(Machine)
=============================================================================
