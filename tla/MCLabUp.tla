------------------------------- MODULE MCLabUp -------------------------------
(* A small lab for TLC: `web' depends on `dc' and configures itself only once *)
(* `dc' is configured.                                                        *)
EXTENDS LabUp, TLC

CONSTANTS dc, web, u1, u2, d1

Pair      == {dc, web}
PairDeps  == dc :> {} @@ web :> {dc}
PairAfter == dc :> {} @@ web :> {dc}
PairSteps == dc :> 1 @@ web :> 1

\* The two `up's are interchangeable.
Ups == Permutations(Up)
=============================================================================
