----------------------------- MODULE MCStatuses -----------------------------
(* Model-checking instance of Statuses: two replicas, an object of each  *)
(* kind at a time.                                                        *)
EXTENDS Statuses, TLC

CONSTANTS r1, r2

MCReplicas == {r1, r2}
Symmetry == Permutations(MCReplicas)
=============================================================================
