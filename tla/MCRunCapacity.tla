--------------------------- MODULE MCRunCapacity ---------------------------
(***************************************************************************)
(* The instance of RunCapacity for TLC: two siblings and one slot.           *)
(***************************************************************************)
EXTENDS RunCapacity, TLC

CONSTANTS c, d, root

Siblings == [r \in {c, d} |-> root]
Permute == Permutations({c, d})
=============================================================================
