--------------------------- MODULE MCSubagentRuns ---------------------------
(***************************************************************************)
(* The instance of SubagentRuns for TLC: one child.                          *)
(***************************************************************************)
EXTENDS SubagentRuns

CONSTANTS c, root

OneChild == [r \in {c} |-> root]
=============================================================================
