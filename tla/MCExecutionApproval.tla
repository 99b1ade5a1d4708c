------------------------- MODULE MCExecutionApproval -------------------------
(***************************************************************************)
(* Instances of ExecutionApproval for TLC: a root and its child; calls r of *)
(* the root and k of the child, with request ids of their own or one id     *)
(* replayed.                                                               *)
(***************************************************************************)
EXTENDS ExecutionApproval, TLC

CONSTANTS root, kid, r1, r2, k1, k2, g1, g2

OneChild == (kid :> root)

ByName == [c \in Calls |-> IF c \in {k1, k2} THEN kid ELSE root]
OwnId == [c \in Calls |-> c]
OneIdPerTask == [c \in Calls |-> IF c = k2 THEN k1 ELSE IF c = r2 THEN r1 ELSE c]

Permute == Permutations(Grants)
PermuteAll == Permute \cup Permutations({r1, r2}) \cup Permutations({k1, k2})

=============================================================================
