--------------------------- MODULE MCCallAdmission ---------------------------
(***************************************************************************)
(* Small instances of CallAdmission for TLC.                               *)
(***************************************************************************)
EXTENDS CallAdmission, TLC

CONSTANTS c1, c2, c3

TwoCalls == {c1, c2}
ThreeCalls == {c1, c2, c3}
OneCall == {c1}

\* Calls differ only in their name.
Symmetry == Permutations(Calls)

\* The calls whose own context names what compact_settled looks for.
OwnRoutes == {"taskId", "chatScope"}
AnyRoute == AllRoutes
=============================================================================
