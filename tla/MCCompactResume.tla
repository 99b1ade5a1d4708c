-------------------------- MODULE MCCompactResume --------------------------
(***************************************************************************)
(* Small instances of CompactResume for TLC.                               *)
(***************************************************************************)
EXTENDS CompactResume, TLC

Symmetry == Permutations(Tasks) \cup Permutations(Requests)
            \cup Permutations(Convs \ Provisional) \cup Permutations(Handoffs)
            \cup Permutations(Jobs)

\* What lags, and where: other calls in a task that native capture created, the report
\* of a new chat in one that an MCP call or the report itself created.
LagSteps ==
    lagging' # {} => reports' = {} /\ \A t \in Tasks : Exists(t)' => task'[t].recorder
=============================================================================
