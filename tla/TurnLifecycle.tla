---------------------------- MODULE TurnLifecycle ----------------------------
(***************************************************************************)
(* The turns of one task: calls that reopen it, tools that run in it, the    *)
(* agent's own completion, and the watchdog that completes a turn nobody     *)
(* finished (runtime_host: persistence, agent_lifecycle,                     *)
(* finalization_watchdog, user_message, activity_control).  The task may be  *)
(* the child of a sub-agent run.  Steps between two awaits are one action.   *)
(***************************************************************************)
EXTENDS Naturals, FiniteSets

CONSTANTS
    Invocations,    \* MCP calls, one request id each
    KindsOf,        \* [Invocations -> SUBSET Kinds]: the tools each may call
    MaxTurn,        \* bound: turns of the task
    MaxCrashes      \* bound: times the host goes down

ASSUME TurnAssumption ==
    /\ MaxTurn \in Nat \ {0} /\ MaxCrashes \in Nat
    /\ \A c \in Invocations : KindsOf[c] \subseteq {"message", "tool", "progress", "complete"}

VARIABLES
    taskRow,        \* the task's row: its status, and updated within the grace
    told,       \* turns with a user message in the timeline
    newest,     \* the latest event of the timeline: its turn, and within the grace; NoTurn without one
    calls,      \* what each invocation is doing
    began,      \* invocations with a tool_call event
    outcome,    \* tool_result events of each: its own, or "interrupted"
    live,       \* ActivityRegistry.active
    finals,     \* completed status events: their turn and who wrote them
    children,   \* turns with a pending or running descendant
    run,        \* the row of this task as a child
    watch,      \* the watchdog's pass
    crashes

turnVars == <<taskRow, told, newest, calls, began, outcome, live, finals, children, run, watch, crashes>>

TaskTurns == 1..MaxTurn
NoTurn == 0
Statuses == {"running", "completed", "interrupted"}
Kinds == {"message", "tool", "progress", "complete"}
IdleCall == [at |-> "idle", kind |-> "message", turn |-> 1, waited |-> FALSE, open |-> {}, copy |-> "running"]
Resting == [at |-> "idle", turn |-> 1, open |-> {}]
Steps == {"idle", "admitted", "asking", "cleared", "registered", "running", "quiet", "childless",
          "reported", "claimed", "written", "settling", "final", "returned", "stored", "binding",
          "bound", "titling", "done", "lost"}
Underway(c) == calls[c].at \notin {"idle", "done", "lost"}

TurnTypes ==
    /\ taskRow \in [status : Statuses, recent : BOOLEAN]
    /\ told \subseteq TaskTurns /\ children \subseteq TaskTurns
    /\ newest \in [turn : {NoTurn} \cup TaskTurns, recent : BOOLEAN]
    /\ calls \in [Invocations -> [at : Steps, kind : Kinds, turn : TaskTurns, waited : BOOLEAN,
                                  open : SUBSET Invocations, copy : Statuses]]
    /\ began \subseteq Invocations /\ live \subseteq Invocations
    /\ outcome \in [Invocations -> SUBSET {"own", "interrupted"}]
    /\ finals \subseteq TaskTurns \X {"agent", "watchdog"}
    /\ run \in {"none", "running", "completed", "timedOut"}
    /\ watch \in [at : {"idle", "picked", "latest", "quiet", "childless", "expired", "written", "settling"},
                  turn : TaskTurns, open : SUBSET Invocations]
    /\ crashes \in 0..MaxCrashes

\* The first turn has its message, or all there was is a call that was refused for want of it:
\* the row, and no event.
TurnInit ==
    /\ taskRow = [status |-> "running", recent |-> TRUE]
    /\ \/ told = {1} /\ newest = [turn |-> 1, recent |-> TRUE]
       \/ told = {} /\ newest = [turn |-> NoTurn, recent |-> FALSE]
    /\ calls = [c \in Invocations |-> IdleCall]
    /\ began = {} /\ live = {} /\ finals = {} /\ children = {}
    /\ outcome = [c \in Invocations |-> {}]
    /\ run \in {"none", "running"}
    /\ watch = Resting /\ crashes = 0

\* Of a call that is over only what a tool left in the timeline matters.
Over(k, at) == IF k.kind = "tool" THEN [k EXCEPT !.at = at, !.waited = FALSE] ELSE [IdleCall EXCEPT !.at = at]
Goto(c, at) == calls' = [calls EXCEPT ![c] = IF at = "done" THEN Over(@, at) ELSE [@ EXCEPT !.at = at]]
StoredIn(t) == newest' = [turn |-> t, recent |-> TRUE]
RowIs(status) == taskRow' = [status |-> status, recent |-> TRUE]

\* What follows in a call: steps of the one who makes it.
Step(c, from, to) == calls[c].at = from /\ Goto(c, to)

-----------------------------------------------------------------------------
\* ensure_call_identity writes the row before the message of the turn is looked for.
Admit(c, k, t) ==
    /\ calls[c].at = "idle"
    /\ calls' = [calls EXCEPT ![c].at = "admitted", ![c].kind = k, ![c].turn = t]
    /\ RowIs("running")
    /\ UNCHANGED <<told, newest, began, outcome, live, finals, children, run, watch, crashes>>

Synced(c) == calls[c].kind = "message" \/ calls[c].turn \in told

Refuse(c) ==
    /\ ~Synced(c) /\ Step(c, "admitted", "done")
    /\ UNCHANGED <<taskRow, told, newest, began, outcome, live, finals, children, run, watch, crashes>>

\* authorize_execution: the call waits for the user, outside the registry.
Ask(c) ==
    /\ calls[c].kind = "tool" /\ Synced(c) /\ calls[c].at = "admitted"
    /\ calls' = [calls EXCEPT ![c].at = "asking", ![c].waited = TRUE]
    /\ began' = began \cup {c} /\ StoredIn(calls[c].turn)
    /\ UNCHANGED <<taskRow, told, outcome, live, finals, children, run, watch, crashes>>

Approved(c) ==
    /\ Step(c, "asking", "cleared")
    /\ UNCHANGED <<taskRow, told, newest, began, outcome, live, finals, children, run, watch, crashes>>

Denied(c) ==
    /\ Step(c, "asking", "done")
    /\ outcome' = [outcome EXCEPT ![c] = @ \cup {"own"}] /\ StoredIn(calls[c].turn)
    /\ UNCHANGED <<taskRow, told, began, live, finals, children, run, watch, crashes>>

\* ActivityRegistry::register: lifecycle tools are not in it.
Register(c) ==
    /\ \/ Synced(c) /\ Step(c, "admitted", "registered")
       \/ Step(c, "cleared", "registered")
    /\ live' = IF calls[c].kind = "tool" THEN live \cup {c} ELSE live
    /\ UNCHANGED <<taskRow, told, newest, began, outcome, finals, children, run, watch, crashes>>

Start(c) ==
    /\ Step(c, "registered", "running")
    /\ began' = began \cup {c} /\ StoredIn(calls[c].turn)
    /\ UNCHANGED <<taskRow, told, outcome, live, finals, children, run, watch, crashes>>

\* A tool's result; a result that cannot be stored is only logged.
Answer(c) ==
    /\ calls[c].kind = "tool" /\ Step(c, "running", "returned")
    /\ \/ outcome' = [outcome EXCEPT ![c] = @ \cup {"own"}] /\ StoredIn(calls[c].turn)
       \/ UNCHANGED <<outcome, newest>>
    /\ \/ UNCHANGED children
       \/ children' = children \cup {calls[c].turn}
    /\ UNCHANGED <<taskRow, told, began, live, finals, run, watch, crashes>>

\* The guard is dropped.
Leave(c) ==
    /\ calls[c].kind = "tool" /\ Step(c, "returned", "done")
    /\ live' = live \ {c}
    /\ UNCHANGED <<taskRow, told, newest, began, outcome, finals, children, run, watch, crashes>>

\* save_user_message: the event of a turn is stored once...
SaveMessage(c) ==
    /\ calls[c].kind = "message" /\ Step(c, "running", "stored")
    /\ told' = told \cup {calls[c].turn} /\ StoredIn(calls[c].turn)
    /\ UNCHANGED <<taskRow, began, outcome, live, finals, children, run, watch, crashes>>

\* ...then bind_project_folder and apply_initial_task_title read the row, and one that lacks a
\* folder or a title is written back whole, with the status it had.
ReadRow(c) ==
    /\ \E from \in {"stored", "bound"} :
          /\ calls[c].at = from
          /\ calls' = [calls EXCEPT ![c].at = IF from = "stored" THEN "binding" ELSE "titling",
                                    ![c].copy = taskRow.status]
    /\ UNCHANGED <<taskRow, told, newest, began, outcome, live, finals, children, run, watch, crashes>>

LeaveRow(c) ==
    /\ Step(c, "stored", "bound") \/ Step(c, "bound", "done")
    /\ UNCHANGED <<taskRow, told, newest, began, outcome, live, finals, children, run, watch, crashes>>

WriteBack(c) ==
    /\ Step(c, "binding", "bound") \/ Step(c, "titling", "done")
    /\ RowIs(calls[c].copy)
    /\ UNCHANGED <<told, newest, began, outcome, live, finals, children, run, watch, crashes>>

\* save_agent_event of agent_progress: the row, then the event.
Progress(c) ==
    /\ calls[c].kind = "progress"
    /\ \/ Step(c, "running", "written") /\ RowIs("running") /\ UNCHANGED newest
       \/ Step(c, "written", "done") /\ StoredIn(calls[c].turn) /\ UNCHANGED taskRow
    /\ UNCHANGED <<told, began, outcome, live, finals, children, run, watch, crashes>>

-----------------------------------------------------------------------------
\* agent_turn_complete.
ActiveIn(t) == \E c \in live : calls[c].turn = t

Fail(c) == Goto(c, "done") /\ StoredIn(calls[c].turn)

CheckActive(c) ==
    /\ calls[c].kind = "complete" /\ calls[c].at = "running"
    /\ IF ActiveIn(calls[c].turn) THEN Fail(c) ELSE Goto(c, "quiet") /\ UNCHANGED newest
    /\ UNCHANGED <<taskRow, told, began, outcome, live, finals, children, run, watch, crashes>>

CheckChildren(c) ==
    /\ calls[c].kind = "complete" /\ calls[c].at = "quiet"
    /\ IF calls[c].turn \in children THEN Fail(c) ELSE Goto(c, "childless") /\ UNCHANGED newest
    /\ UNCHANGED <<taskRow, told, began, outcome, live, finals, children, run, watch, crashes>>

\* persist_completion_report, which may fail unnoticed.
StoreReport(c) ==
    /\ Step(c, "childless", "reported")
    /\ StoredIn(calls[c].turn) \/ UNCHANGED newest
    /\ UNCHANGED <<taskRow, told, began, outcome, live, finals, children, run, watch, crashes>>

\* Mutant: whether the run could be completed is not asked.
MutClaim(c) ==
    /\ Step(c, "reported", "claimed") /\ UNCHANGED newest
    /\ run' = IF run = "running" THEN "completed" ELSE run
    /\ UNCHANGED <<taskRow, told, began, outcome, live, finals, children, watch, crashes>>

\* finish_subagent_for_child: the run ends here, or another end has won.
Claim(c) ==
    /\ calls[c].at = "reported"
    /\ run' = IF run = "running" THEN "completed" ELSE run
    /\ IF run' \in {"none", "completed"} THEN Goto(c, "claimed") /\ UNCHANGED newest ELSE Fail(c)
    /\ UNCHANGED <<taskRow, told, began, outcome, live, finals, children, watch, crashes>>

WriteRow(c) ==
    /\ Step(c, "claimed", "written") /\ RowIs("completed")
    /\ UNCHANGED <<told, newest, began, outcome, live, finals, children, run, watch, crashes>>

\* Calls of the turn that started and have no result.
OpenCalls(t) == {c \in began : calls[c].kind = "tool" /\ calls[c].turn = t /\ outcome[c] = {}}

ReadOrphans(c) ==
    /\ calls[c].kind = "complete" /\ calls[c].at = "written"
    /\ calls' = [calls EXCEPT ![c].at = "settling", ![c].open = OpenCalls(calls[c].turn)]
    /\ UNCHANGED <<taskRow, told, newest, began, outcome, live, finals, children, run, watch, crashes>>

Interrupted(o) == outcome' = [outcome EXCEPT ![o] = @ \cup {"interrupted"}]

Settle(c, o) ==
    /\ calls[c].at = "settling" /\ o \in calls[c].open
    /\ Interrupted(o) /\ StoredIn(calls[c].turn)
    /\ calls' = [calls EXCEPT ![c].open = @ \ {o}]
    /\ UNCHANGED <<taskRow, told, began, live, finals, children, run, watch, crashes>>

FinalEvent(c) ==
    /\ calls[c].open = {} /\ Step(c, "settling", "done")
    /\ finals' = finals \cup {<<calls[c].turn, "agent">>} /\ StoredIn(calls[c].turn)
    /\ UNCHANGED <<taskRow, told, began, outcome, live, children, run, watch, crashes>>

-----------------------------------------------------------------------------
\* The watchdog, one task of a pass.
Pass(at) == watch' = [watch EXCEPT !.at = at]

\* expire_stale_subagents, before a pass and again before its last look: the run of this child has
\* lapsed.  The row is interrupted then, and the rest of the pass changes nothing.
Expire ==
    /\ watch.at \in {"idle", "quiet"} /\ run = "running"
    /\ run' = "timedOut" /\ Pass("expired")
    /\ UNCHANGED <<taskRow, told, newest, calls, began, outcome, live, finals, children, crashes>>

\* interrupt_expired_child.
Interrupt ==
    /\ watch.at = "expired"
    /\ taskRow' = [status |-> IF taskRow.status = "running" THEN "interrupted" ELSE taskRow.status, recent |-> TRUE]
    /\ watch' = IF newest.turn = NoTurn THEN Resting
                ELSE [watch EXCEPT !.at = "written", !.turn = newest.turn]
    /\ UNCHANGED <<told, newest, calls, began, outcome, live, finals, children, run, crashes>>

Stale == taskRow.status = "running" /\ ~taskRow.recent

Pick ==
    /\ watch.at = "idle" /\ Stale /\ Pass("picked")
    /\ UNCHANGED <<taskRow, told, newest, calls, began, outcome, live, finals, children, run, crashes>>

\* A task without an event is passed over.
ReadLatest ==
    /\ watch.at = "picked"
    /\ watch' = IF newest.turn = NoTurn \/ newest.recent THEN Resting ELSE [watch EXCEPT !.at = "latest", !.turn = newest.turn]
    /\ UNCHANGED <<taskRow, told, newest, calls, began, outcome, live, finals, children, run, crashes>>

\* Mutant: the watchdog does not look at the registry.
MutLookActive ==
    /\ watch.at = "latest"
    /\ watch' = [watch EXCEPT !.at = "quiet"]
    /\ UNCHANGED <<taskRow, told, newest, calls, began, outcome, live, finals, children, run, crashes>>

LookActive ==
    /\ watch.at = "latest"
    /\ watch' = IF ActiveIn(watch.turn) THEN Resting ELSE [watch EXCEPT !.at = "quiet"]
    /\ UNCHANGED <<taskRow, told, newest, calls, began, outcome, live, finals, children, run, crashes>>

\* has_active_subagent_work
LookChildren ==
    /\ watch.at = "quiet"
    /\ watch' = IF watch.turn \in children \/ run = "running" THEN Resting
                ELSE [watch EXCEPT !.at = "childless"]
    /\ UNCHANGED <<taskRow, told, newest, calls, began, outcome, live, finals, children, run, crashes>>

\* Mutant: the update does not repeat the condition on the time.
MutFinalize ==
    /\ watch.at = "childless"
    /\ IF taskRow.status = "running"
       THEN /\ RowIs("completed") /\ StoredIn(watch.turn)
            /\ finals' = finals \cup {<<watch.turn, "watchdog">>} /\ Pass("written")
       ELSE watch' = Resting /\ UNCHANGED <<taskRow, newest, finals>>
    /\ UNCHANGED <<told, calls, began, outcome, live, children, run, crashes>>

\* auto_finalize_turn: the row and the event in one transaction.
Finalize ==
    /\ watch.at = "childless"
    /\ IF Stale
       THEN /\ RowIs("completed") /\ StoredIn(watch.turn)
            /\ finals' = finals \cup {<<watch.turn, "watchdog">>} /\ Pass("written")
       ELSE watch' = Resting /\ UNCHANGED <<taskRow, newest, finals>>
    /\ UNCHANGED <<told, calls, began, outcome, live, children, run, crashes>>

WatchOrphans ==
    /\ watch.at = "written"
    /\ watch' = [watch EXCEPT !.at = "settling", !.open = OpenCalls(watch.turn)]
    /\ UNCHANGED <<taskRow, told, newest, calls, began, outcome, live, finals, children, run, crashes>>

WatchSettle(o) ==
    /\ watch.at = "settling" /\ o \in watch.open
    /\ Interrupted(o) /\ StoredIn(watch.turn)
    /\ watch' = [watch EXCEPT !.open = @ \ {o}]
    /\ UNCHANGED <<taskRow, told, calls, began, live, finals, children, run, crashes>>

EndPass ==
    /\ watch.at = "settling" /\ watch.open = {} /\ watch' = Resting
    /\ UNCHANGED <<taskRow, told, newest, calls, began, outcome, live, finals, children, run, crashes>>

-----------------------------------------------------------------------------
\* The grace passes: only a tool or the user takes that long.
Grace ==
    /\ taskRow.recent \/ newest.recent
    /\ watch.at = "idle"
    /\ \A c \in Invocations :
          Underway(c) => calls[c].at = "asking" \/ (calls[c].at = "running" /\ calls[c].kind = "tool")
    /\ taskRow' = [taskRow EXCEPT !.recent = FALSE] /\ newest' = [newest EXCEPT !.recent = FALSE]
    /\ UNCHANGED <<told, calls, began, outcome, live, finals, children, run, watch, crashes>>

ChildEnds(t) ==
    /\ t \in children /\ children' = children \ {t}
    /\ UNCHANGED <<taskRow, told, newest, calls, began, outcome, live, finals, run, watch, crashes>>

\* Calls and the pass are gone, and the bootstrap of the next start interrupts a running row.
Crash ==
    /\ crashes < MaxCrashes /\ crashes' = crashes + 1
    /\ IF taskRow.status = "running" THEN RowIs("interrupted") ELSE UNCHANGED taskRow
    /\ calls' = [c \in Invocations |-> IF Underway(c) THEN Over(calls[c], "lost") ELSE calls[c]]
    /\ live' = {} /\ watch' = Resting
    /\ UNCHANGED <<told, newest, began, outcome, finals, children, run>>

Call(c) ==
    \/ Refuse(c) \/ Ask(c) \/ Approved(c) \/ Denied(c) \/ Register(c) \/ Start(c) \/ Answer(c) \/ Leave(c)
    \/ SaveMessage(c) \/ ReadRow(c) \/ LeaveRow(c) \/ WriteBack(c) \/ Progress(c)
    \/ CheckActive(c) \/ CheckChildren(c) \/ StoreReport(c) \/ Claim(c) \/ WriteRow(c) \/ ReadOrphans(c)
    \/ (\E o \in Invocations : Settle(c, o)) \/ FinalEvent(c)

Watchdog ==
    \/ Interrupt \/ Pick \/ ReadLatest \/ LookActive \/ LookChildren \/ Finalize \/ WatchOrphans
    \/ (\E o \in Invocations : WatchSettle(o)) \/ EndPass

TurnNext ==
    \/ \E c \in Invocations : Call(c) \/ \E k \in KindsOf[c], t \in TaskTurns : Admit(c, k, t)
    \/ Expire \/ Watchdog \/ Grace \/ Crash
    \/ \E t \in TaskTurns : ChildEnds(t)

TurnSpec == TurnInit /\ [][TurnNext]_turnVars

-----------------------------------------------------------------------------
\* The final event of a child is stored only when its run was completed: not beside
\* a run that timed out or failed meanwhile (save_agent_event).
FinalMatchesRun == \A t \in TaskTurns : <<t, "agent">> \in finals => run \in {"none", "completed"}

\* When the watchdog completes the task, no message is being stored, no completion is
\* underway, and no tool runs in that turn, except one that had waited for its approval
\* all along: whatever was admitted since the pass looked keeps the turn open.
Finalizes == watch.at = "childless" /\ watch'.at = "written"
NothingUnderway == Finalizes => \A c \in Invocations : Underway(c) =>
                        calls[c].waited \/ (calls[c].kind = "tool" /\ calls[c].turn # watch.turn)

\* In every step a final event belongs to a completed run, and the watchdog finalizes
\* no turn in which something is underway.
TurnsSafe == [][FinalMatchesRun' /\ NothingUnderway]_turnVars
=============================================================================
