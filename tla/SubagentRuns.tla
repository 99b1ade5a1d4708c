----------------------------- MODULE SubagentRuns -----------------------------
(***************************************************************************)
(* The life of delegated children: registration under the global           *)
(* concurrency limit, dispatch to the browser extension with a fenced      *)
(* number of attempts, the claim by a worker, leases and heartbeats, the    *)
(* watchdog, the recovery of a browser answer, the cascade of a stopped     *)
(* conversation, and restarts of the host.  Every statement that another    *)
(* party can get between is a step of its own.                             *)
(*                                                                         *)
(* A run is named by its deterministic id, and so is its child task: a run  *)
(* is also the task its own children name as their parent.                 *)
(***************************************************************************)
EXTENDS Integers, FiniteSets

CONSTANTS
    Runs,       \* delegations: one deterministic sub-agent id each
    Root,       \* the task the user talks to
    ParentOf,   \* the task that delegates a run
    Limit,      \* the setting ui_subagentConcurrency
    MaxTries,   \* MAX_EXTENSION_FALLBACK_ATTEMPTS
    MaxBoots,   \* bound on the restarts of the host
    Browser,    \* whether children are dispatched to the browser extension
    Stoppable   \* the tasks the user may stop

Tasks == Runs \cup {Root}
None == "none"

ASSUME RunAssumption ==
    /\ IsFiniteSet(Runs) /\ Root \notin Runs /\ None \notin Tasks
    /\ ParentOf \in [Runs -> Tasks]
    /\ Limit \in Nat \ {0} /\ MaxTries \in Nat \ {0} /\ MaxBoots \in Nat
    /\ Browser \in BOOLEAN
    /\ Stoppable \subseteq Tasks

VARIABLES
    run,      \* subagent_runs
    live,     \* the tasks whose status is pending or running
    boot,     \* the worker id of this process
    gate,     \* subagent_registration_gate and the registration that holds it
    seen,     \* rows a watchdog pass has selected and not yet treated
    request,  \* requests of a fallback that have read the row: the attempt, or 0
    stop,     \* the stop of a conversation in progress
    cleaning  \* terminal runs whose task row is not updated yet

runVars == <<run, live, boot, gate, seen, request, stop, cleaning>>

----------------------------------------------------------------------------
\* Rows

Ends == {"completed", "failed", "stopped", "timedOut", "interrupted"}
Statuses == {"none", "pending", "running"} \cup Ends
Fallbacks == {"none", "requested", "started", "claimed", "exhausted"}

RunRow == [status  : Statuses,
           fb      : Fallbacks,        \* fallback_state
           tries   : 0..MaxTries,      \* fallback_attempts
           owner   : 0..MaxBoots,      \* worker_id
           lapsed  : BOOLEAN,          \* lease_expires_at_ms is over
           quiet   : BOOLEAN,          \* too long unclaimed
           overdue : BOOLEAN]          \* max_runtime_ms is over

NoRun == [status |-> "none", fb |-> "none", tries |-> 0, owner |-> 0,
          lapsed |-> FALSE, quiet |-> FALSE, overdue |-> FALSE]

Scanners == {"gate", "watchdog"}
GateStages == {"free", "locked", "scanning", "insert"}
StopStages == {"idle", "select", "interrupt", "mark"}

RunTypeOK ==
    /\ run \in [Runs -> RunRow]
    /\ live \subseteq Tasks
    /\ boot \in 0..MaxBoots
    /\ gate \in [run : Runs \cup {None}, stage : GateStages]
    /\ seen \in [Scanners -> SUBSET Runs]
    /\ request \in [Runs -> 0..MaxTries]
    /\ stop \in [task : Tasks \cup {None}, stage : StopStages, rows : SUBSET Runs]
    /\ cleaning \subseteq Runs

FreeGate == [run |-> None, stage |-> "free"]
NoStop == [task |-> None, stage |-> "idle", rows |-> {}]

RunInit ==
    /\ run = [r \in Runs |-> NoRun]
    /\ live = {Root}
    /\ boot = 0
    /\ gate = FreeGate
    /\ seen = [w \in Scanners |-> {}]
    /\ request = [r \in Runs |-> 0]
    /\ stop = NoStop
    /\ cleaning = {}

----------------------------------------------------------------------------
\* Queries

Active(r) == run[r].status \in {"pending", "running"}
Ended(r) == run[r].status \in Ends
Waiting(r) == run[r].status = "pending" /\ run[r].fb \in {"requested", "started"}

\* DESCENDANTS_CTE: the smallest set that holds the task's children and theirs.
Descendants(t) ==
    {r \in Runs : \A S \in SUBSET Runs :
        (\A q \in Runs : ParentOf[q] \in S \cup {t} => q \in S) => r \in S}

\* The rows the watchdog selects, and the condition its update repeats.
Stale(r) ==
    \/ /\ run[r].status = "pending"
       /\ \/ run[r].fb = "none" /\ run[r].quiet
          \/ Waiting(r) /\ (run[r].quiet \/ run[r].overdue)
    \/ /\ run[r].status = "running"
       /\ run[r].lapsed \/ run[r].overdue \/ run[r].owner # boot

\* active_subagent_count
Counted == {r \in Runs : \/ run[r].status = "running" /\ ~run[r].lapsed
                         \/ /\ run[r].status = "pending"
                            /\ run[r].fb \in {"none", "requested", "started"}
                            /\ ~run[r].quiet}

Set(r, row) == run' = [run EXCEPT ![r] = row]

----------------------------------------------------------------------------
\* Registration: register_subagent

\* Takes the gate; a retry finds its row and returns it, a parent that is over
\* is refused.
Enter(r) ==
    /\ gate.stage = "free"
    /\ run[r].status = "none"
    /\ ParentOf[r] \in live
    /\ gate' = [run |-> r, stage |-> "locked"]
    /\ UNCHANGED <<run, live, boot, seen, request, stop, cleaning>>

\* active_subagent_count first runs a watchdog pass of its own.
ScanAtGate ==
    /\ gate.stage = "locked"
    /\ gate' = [gate EXCEPT !.stage = "scanning"]
    /\ seen' = [seen EXCEPT !["gate"] = {r \in Runs : Stale(r)}]
    /\ UNCHANGED <<run, live, boot, request, stop, cleaning>>

\* Mutant: a registration may also enter a pool that is just full.
MutCount ==
    /\ gate.stage = "scanning"
    /\ seen["gate"] = {}
    /\ gate' = IF Cardinality(Counted) <= Limit THEN [gate EXCEPT !.stage = "insert"]
               ELSE FreeGate
    /\ UNCHANGED <<run, live, boot, seen, request, stop, cleaning>>

\* Full: a nested child is told to do the work itself, a root waits and tries
\* again; both give the gate back.
Count ==
    /\ gate.stage = "scanning"
    /\ seen["gate"] = {}
    /\ gate' = IF Cardinality(Counted) < Limit THEN [gate EXCEPT !.stage = "insert"]
               ELSE FreeGate
    /\ UNCHANGED <<run, live, boot, seen, request, stop, cleaning>>

\* The task and the run are inserted in one transaction.
Insert ==
    /\ gate.stage = "insert"
    /\ Set(gate.run, [NoRun EXCEPT !.status = "pending"])
    /\ live' = live \cup {gate.run}
    /\ gate' = FreeGate
    /\ UNCHANGED <<boot, seen, request, stop, cleaning>>

----------------------------------------------------------------------------
\* The browser fallback

\* request_subagent_extension_fallback reads the row and chooses the attempt ...
ReadFallback(r) ==
    LET attempt == IF Waiting(r) /\ run[r].tries > 0 THEN run[r].tries
                   ELSE run[r].tries + 1 IN
    /\ Browser
    /\ run[r].status = "pending" /\ request[r] = 0
    /\ attempt <= MaxTries
    /\ request' = [request EXCEPT ![r] = attempt]
    /\ UNCHANGED <<run, live, boot, gate, seen, stop, cleaning>>

\* ... and writes it to the row if the run is still pending.
WriteFallback(r) ==
    /\ request[r] > 0
    /\ run' = IF run[r].status = "pending"
              THEN [run EXCEPT ![r].fb = "requested", ![r].tries = request[r],
                               ![r].quiet = FALSE]
              ELSE run
    /\ request' = [request EXCEPT ![r] = 0]
    /\ UNCHANGED <<live, boot, gate, seen, stop, cleaning>>

\* subagent_fallback_started for the current attempt.
Started(r) ==
    /\ Waiting(r)
    /\ Set(r, [run[r] EXCEPT !.fb = "started", !.quiet = FALSE])
    /\ UNCHANGED <<live, boot, gate, seen, request, stop, cleaning>>

\* Mutant: the last attempt is retried once more.
MutResult(r, n) ==
    /\ Waiting(r)
    /\ n = run[r].tries
    /\ Set(r, [run[r] EXCEPT !.fb = "requested", !.tries = n + 1, !.quiet = FALSE])
    /\ UNCHANGED <<live, boot, gate, seen, request, stop, cleaning>>

\* subagent_fallback_result for attempt n: the next attempt, or the end.
Result(r, n) ==
    /\ Waiting(r)
    /\ n = run[r].tries
    /\ IF n < MaxTries
       THEN /\ Set(r, [run[r] EXCEPT !.fb = "requested", !.tries = n + 1,
                                     !.quiet = FALSE])
            /\ UNCHANGED cleaning
       ELSE /\ Set(r, [run[r] EXCEPT !.fb = "exhausted", !.status = "failed"])
            /\ cleaning' = cleaning \cup {r}
    /\ UNCHANGED <<live, boot, gate, seen, request, stop>>

\* subagent_fallback_heartbeat for the current attempt.
BrowserBeat(r) ==
    /\ ~run[r].overdue
    /\ \/ Waiting(r) /\ Set(r, [run[r] EXCEPT !.quiet = FALSE])
       \/ /\ run[r].status = "running" /\ run[r].fb = "claimed"
          /\ Set(r, [run[r] EXCEPT !.lapsed = FALSE])
    /\ UNCHANGED <<live, boot, gate, seen, request, stop, cleaning>>

\* recover_claimed_final: the answer of a browser child that did not finish
\* through MCP ends the run and its task in one transaction.
Recover(r) ==
    /\ run[r].status = "running" /\ run[r].fb = "claimed"
    /\ ~run[r].overdue
    /\ r \in live /\ ParentOf[r] \in live
    /\ \A q \in Descendants(r) : ~Active(q)
    /\ Set(r, [run[r] EXCEPT !.status = "completed"])
    /\ live' = live \ {r}
    /\ UNCHANGED <<boot, gate, seen, request, stop, cleaning>>

----------------------------------------------------------------------------
\* The worker

ClaimedRow(r) == [run[r] EXCEPT !.status = "running", !.owner = boot, !.lapsed = FALSE,
                                !.quiet = FALSE, !.overdue = FALSE,
                                !.fb = IF Waiting(r) THEN "claimed" ELSE @]

\* Mutant: the update of the claim does not ask that the run is pending.
MutClaim(r) ==
    /\ Active(r)
    /\ Set(r, ClaimedRow(r))
    /\ UNCHANGED <<live, boot, gate, seen, request, stop, cleaning>>

\* claim_subagent_from_message: compare-and-set from pending.
Claim(r) ==
    /\ run[r].status = "pending"
    /\ Set(r, ClaimedRow(r))
    /\ UNCHANGED <<live, boot, gate, seen, request, stop, cleaning>>

\* heartbeat_subagent of the worker or of one of its tool calls.
Beat(r) ==
    /\ run[r].status = "running" /\ run[r].owner = boot
    /\ ~run[r].overdue
    /\ Set(r, [run[r] EXCEPT !.lapsed = FALSE])
    /\ UNCHANGED <<live, boot, gate, seen, request, stop, cleaning>>

\* Mutant: the update of a completion does not look at the status.
MutFinishRun(r, end) ==
    /\ run[r].status # "none"
    /\ Set(r, [run[r] EXCEPT !.status = end])
    /\ cleaning' = cleaning \cup {r}
    /\ UNCHANGED <<live, boot, gate, seen, request, stop>>

\* finish_subagent_for_child, from agent_turn_complete or fail_subagent.
FinishRun(r, end) ==
    /\ Active(r)
    /\ Set(r, [run[r] EXCEPT !.status = end])
    /\ cleaning' = cleaning \cup {r}
    /\ UNCHANGED <<live, boot, gate, seen, request, stop>>

\* Mutant: the watchdog's next pass is left out.
MutScan == FALSE /\ UNCHANGED runVars

\* expire_stale_subagents: the rows of a pass are selected first (both selects
\* in one step: each update repeats the condition of its row) ...
Scan ==
    /\ seen["watchdog"] = {}
    /\ \E r \in Runs : Stale(r)
    /\ seen' = [seen EXCEPT !["watchdog"] = {r \in Runs : Stale(r)}]
    /\ UNCHANGED <<run, live, boot, gate, request, stop, cleaning>>

\* Mutant: the update trusts the rows selected before.
MutExpire(w, r) ==
    /\ r \in seen[w]
    /\ seen' = [seen EXCEPT ![w] = @ \ {r}]
    /\ IF Active(r)
       THEN /\ Set(r, [run[r] EXCEPT !.status = IF @ = "pending" THEN "failed" ELSE "timedOut"])
            /\ cleaning' = cleaning \cup {r}
       ELSE UNCHANGED <<run, cleaning>>
    /\ UNCHANGED <<live, boot, gate, request, stop>>

\* ... and each is ended only if it is stale when it is updated.
Expire(w, r) ==
    /\ r \in seen[w]
    /\ seen' = [seen EXCEPT ![w] = @ \ {r}]
    /\ IF Stale(r)
       THEN /\ Set(r, [run[r] EXCEPT !.status = IF @ = "pending" THEN "failed" ELSE "timedOut"])
            /\ cleaning' = cleaning \cup {r}
       ELSE UNCHANGED <<run, cleaning>>
    /\ UNCHANGED <<live, boot, gate, request, stop>>

\* The statements after a terminal transition that end the child's task.
CleanUp(r) ==
    /\ r \in cleaning
    /\ cleaning' = cleaning \ {r}
    /\ live' = live \ {r}
    /\ UNCHANGED <<run, boot, gate, seen, request, stop>>

----------------------------------------------------------------------------
\* The user stops a conversation: stop_conversation

StopTask(t) ==
    /\ t \in Stoppable
    /\ t # Root => run[t].status # "none"
    /\ stop.stage = "idle"
    /\ live' = live \ {t}
    /\ stop' = [task |-> t, stage |-> "select", rows |-> {}]
    /\ UNCHANGED <<run, boot, gate, seen, request, cleaning>>

\* interrupt_active_child_subagents selects the active descendants ...
SelectChildren ==
    /\ stop.stage = "select"
    /\ stop' = [stop EXCEPT !.stage = "interrupt",
                            !.rows = {r \in Descendants(stop.task) : Active(r)}]
    /\ UNCHANGED <<run, live, boot, gate, seen, request, cleaning>>

\* ... and interrupts those that are still active.
Interrupt(r) ==
    /\ stop.stage = "interrupt" /\ r \in stop.rows
    /\ stop' = [stop EXCEPT !.rows = @ \ {r}]
    /\ IF Active(r)
       THEN /\ Set(r, [run[r] EXCEPT !.status = "interrupted"])
            /\ cleaning' = cleaning \cup {r}
       ELSE UNCHANGED <<run, cleaning>>
    /\ UNCHANGED <<live, boot, gate, seen, request>>

\* mark_child_subagent_terminal: the stopped task may be a child itself.
MarkStopped ==
    /\ stop.stage = "interrupt" /\ stop.rows = {}
    /\ run' = IF stop.task \in Runs /\ Active(stop.task)
              THEN [run EXCEPT ![stop.task].status = "stopped"] ELSE run
    /\ stop' = NoStop
    /\ UNCHANGED <<live, boot, gate, seen, request, cleaning>>

----------------------------------------------------------------------------
\* Time and restarts

\* Sixty seconds without a claim, or 180 without news from the browser.
Unclaimed(r) ==
    /\ run[r].status = "pending" /\ ~run[r].quiet
    /\ Set(r, [run[r] EXCEPT !.quiet = TRUE])
    /\ UNCHANGED <<live, boot, gate, seen, request, stop, cleaning>>

Lapse(r) ==
    /\ run[r].status = "running" /\ ~run[r].lapsed
    /\ Set(r, [run[r] EXCEPT !.lapsed = TRUE])
    /\ UNCHANGED <<live, boot, gate, seen, request, stop, cleaning>>

Overrun(r) ==
    /\ Active(r) /\ ~run[r].overdue
    /\ Set(r, [run[r] EXCEPT !.overdue = TRUE])
    /\ UNCHANGED <<live, boot, gate, seen, request, stop, cleaning>>

\* A call or a message sets the status of its task to running: ensure_call_identity.
Wake(t) ==
    /\ t \notin live
    /\ t # Root => run[t].status # "none"
    /\ live' = live \cup {t}
    /\ UNCHANGED <<run, boot, gate, seen, request, stop, cleaning>>

\* What the old process was doing is lost; bootstrap interrupts the running
\* tasks, and only a task that no call has reached is still pending.
Restart ==
    /\ boot < MaxBoots
    /\ boot' = boot + 1
    /\ gate' = FreeGate
    /\ seen' = [w \in Scanners |-> {}]
    /\ request' = [r \in Runs |-> 0]
    /\ stop' = NoStop
    /\ cleaning' = {}
    /\ \E untouched \in SUBSET {r \in Runs : run[r].status = "pending"} :
           live' = live \cap untouched
    /\ UNCHANGED run

----------------------------------------------------------------------------

Register == (\E r \in Runs : Enter(r)) \/ ScanAtGate \/ Count \/ Insert

Fallback(r) == \/ ReadFallback(r) \/ WriteFallback(r) \/ Started(r)
               \/ (\E n \in 1..MaxTries : Result(r, n))
               \/ BrowserBeat(r) \/ Recover(r)

Work(r) == Claim(r) \/ Beat(r) \/ \E end \in {"completed", "failed"} : FinishRun(r, end)

Treat(w) == \E r \in Runs : Expire(w, r)

StopRuns == \/ (\E t \in Tasks : StopTask(t))
        \/ SelectChildren \/ (\E r \in Runs : Interrupt(r)) \/ MarkStopped

AgeRun(r) == Unclaimed(r) \/ Lapse(r) \/ Overrun(r)

RunNext ==
    \/ Register \/ Scan \/ (\E w \in Scanners : Treat(w)) \/ StopRuns \/ Restart
    \/ \E t \in Tasks : Wake(t)
    \/ \E r \in Runs : Fallback(r) \/ Work(r) \/ CleanUp(r) \/ AgeRun(r)

RunSpec == RunInit /\ [][RunNext]_runVars

\* The watchdog ticks every 5 seconds, and the deadlines pass.
RunFairSpec ==
    /\ RunSpec
    /\ WF_runVars(Scan) /\ WF_runVars(Treat("watchdog"))
    /\ \A r \in Runs : WF_runVars(Overrun(r)) /\ WF_runVars(Unclaimed(r))

----------------------------------------------------------------------------
\* Properties

\* The plan of the leases: no terminal run comes back, and completion, timeout
\* and stop have one winner.
TerminalStays == [][\A r \in Runs : Ended(r) => run'[r].status = run[r].status]_runVars

\* A run is handed to one worker only, also across restarts of the host.
OneWorker ==
    [][\A r \in Runs : run[r].status = "running" =>
          run'[r].owner = run[r].owner]_runVars

\* A renewed lease wins against a watchdog that works from an old snapshot.
LeaseRespected ==
    [][\A r \in Runs : run[r].status = "running" /\ run'[r].status = "timedOut"
          => run[r].lapsed \/ run[r].overdue \/ run[r].owner # boot]_runVars

\* No row keeps its parent waiting for ever: every run ends.
RunsEnd == \A r \in Runs : run[r].status = "pending" ~> Ended(r)

=============================================================================
