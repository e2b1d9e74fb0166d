------------------------- MODULE MCReshardArbiter -------------------------
(* Small instances of ReshardArbiter. *)
EXTENDS ReshardArbiter

CONSTANTS n1, n2

(* Nodes configured with different counts race to seed. *)
SeedsDiffer == [n \in Nodes |-> IF n = n1 THEN 0 ELSE 1]

=============================================================================
