----------------------------- MODULE RunCapacity -----------------------------
(***************************************************************************)
(* The global limit on the children that count, over the life of delegated *)
(* children.  A history variable tells which of them came back: a claim, a *)
(* heartbeat or news of the browser renews a child whose deadline is over  *)
(* and which no watchdog pass has treated yet, without looking whether its *)
(* slot was given to another registration meanwhile.                       *)
(***************************************************************************)
EXTENDS SubagentRuns

VARIABLE overtaken  \* children that came back when every slot was taken

limitVars == <<runVars, overtaken>>

\* The slots in use: by the children that count, and by a registration that was
\* counted and is not inserted yet.
Taken == Cardinality(Counted) + IF gate.stage = "insert" THEN 1 ELSE 0

\* A child that does not count and does after the step was registered before or
\* is inserted by it; one of the first kind is overtaken as long as it counts and
\* the slots do not suffice.
Noted ==
    overtaken' = IF Taken' <= Limit THEN {}
                 ELSE {r \in Counted' :
                          r \in overtaken \/ (r \notin Counted /\ run[r].status # "none")}

LimitNext == RunNext /\ Noted

LimitSpec == RunInit /\ overtaken = {} /\ [][LimitNext]_limitVars

----------------------------------------------------------------------------
\* Properties

\* README: the global concurrency limit.  However registrations, claims, late signs
\* of life, the watchdog and restarts interleave, the children that count exceed it
\* by no more than those that came back when their slot was given away: no
\* registration ever takes a slot too many, and the excess ends with them.
Capacity == Cardinality(Counted \ overtaken) <= Limit
=============================================================================
