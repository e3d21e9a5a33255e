---------------------------- MODULE MCVmLifecycle ----------------------------
(* Small instances of VmLifecycle for TLC: up to two callers that start the  *)
(* machine and one that stops it.                                            *)
EXTENDS VmLifecycle, TLC

CONSTANTS s1, s2, t1

Callers == Permutations({s1, s2})
=============================================================================
