------------------------- MODULE MCOverlapHandoff -------------------------
(* Small instances of OverlapHandoff. *)
EXTENDS OverlapHandoff, TLC

CONSTANTS x, y

(* Nodes start alike and are named nowhere. *)
AnyNode == Permutations(Nodes)

=============================================================================
