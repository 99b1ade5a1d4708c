------------------------------- MODULE MCHost -------------------------------
(***************************************************************************)
(* What the loops of the host keep going, for TLC, one at a time: part says  *)
(* which module a behaviour is about.  They share no state; the others stay  *)
(* as they start.                                                            *)
(***************************************************************************)
EXTENDS WorkspaceIndex, TurnLifecycle, TLC

CONSTANTS p1, p2, i1, i2

VARIABLE part

\* One that says what the user wrote and later completes, one that works.
ToolKinds == (i1 :> {"message", "progress", "complete"}) @@ (i2 :> {"tool"})

-----------------------------------------------------------------------------
Parts == {"index", "turns"}

Init ==
    /\ part \in Parts
    /\ IndexInit /\ TurnInit
    /\ tree = (p1 :> 1) @@ (p2 :> 0)
    /\ part # "turns" => run = "none"

\* The other parts stay as they are.
Only(p) ==
    /\ part = p /\ UNCHANGED part
    /\ IF p = "index" THEN TRUE ELSE UNCHANGED indexVars
    /\ IF p = "turns" THEN TRUE ELSE UNCHANGED turnVars

Next ==
    \/ Only("index") /\ IndexNext
    \/ Only("turns") /\ TurnNext

vars == <<part, indexVars, turnVars>>

\* The watcher delivers, the loop goes on rebuilding and the rebuilds end.
IndexFairness ==
    /\ WF_indexVars(part = "index" /\ \E p \in Paths : mark_index_stale(p))
    /\ WF_indexVars(part = "index" /\ AskRebuild(Loop))
    /\ \A r \in Rebuilders :
        /\ WF_indexVars(part = "index" /\ StartRebuild(r))
        /\ WF_indexVars(part = "index" /\ \E p \in Paths : Visit(r, p))
        /\ WF_indexVars(part = "index" /\ Insert(r))
        /\ WF_indexVars(part = "index" /\ export_index_snapshot(r))
        /\ WF_indexVars(part = "index" /\ replace_workspace_index(r))

\* Calls that were admitted end, leases lapse, the watchdog goes on.
TurnFairness ==
    /\ \A c \in Invocations : WF_turnVars(part = "turns" /\ Call(c))
    /\ WF_turnVars(part = "turns" /\ Watchdog)
    /\ SF_turnVars(part = "turns" /\ Expire) /\ SF_turnVars(part = "turns" /\ Grace)
    /\ \A t \in TaskTurns : WF_turnVars(part = "turns" /\ ChildEnds(t))

Spec == Init /\ [][Next]_vars /\ IndexFairness /\ TurnFairness

TypesHold == IndexTypes /\ TurnTypes

\* Once changes stop the loop makes the index fresh, through failed rebuilds and marks that hit a
\* rebuild under way.  And a task that has an event does not stay running, whoever stops calling
\* or goes down.  docs/ARCHITECTURE.md:82 says so of every task: one whose only calls were refused
\* for want of a user message has a row and no event, and stays (finalization_watchdog.rs:60-62);
\* a hundred such rows keep the pass from every younger one (line 42), which is not modelled: there
\* is one task here.
HostProgresses ==
    []<>(/\ part = "index" => index.fresh = "fresh"
         /\ part = "turns" => taskRow.status # "running" \/ newest.turn = NoTurn)
=============================================================================
