--------------------------- MODULE ExecutionApproval ---------------------------
(***************************************************************************)
(* Authorization of tool calls in a tree of tasks: the execution mode, the  *)
(* approvals a call waits for, the reusable safe-read grants with their     *)
(* budgets, the part of a budget a child inherits, and what revokes them.   *)
(* Every await of a call and every statement of a handler that another      *)
(* party can get between is a step of its own.                              *)
(*                                                                         *)
(* The mode "deny" is accepted by the table but written by no handler.      *)
(* Files and bytes are budgeted by the same guarded update as the calls, so *)
(* one counter stands for the three.                                        *)
(***************************************************************************)
EXTENDS Integers, FiniteSets

CONSTANTS
    Children,   \* delegated tasks
    Root,       \* the conversation of the user
    ParentOf,   \* the task that delegates a child
    Calls,      \* executions of a tool, each at most once
    TaskOf,     \* the task a call belongs to
    IdOf,       \* the request id of a call, which is the id of its approval
    Ids,        \* request ids
    Reads,      \* the calls of a safe-read tool
    Grants,     \* ids of approval_grants
    Budget,     \* maxCalls of a grant the user creates
    Share,      \* the largest maxCalls a delegation asks for its child
    Steered,    \* the tasks whose mode the user sets and which he may stop; with
                \* the root, he changes the default mode too
    Late,       \* whether leases of children may lapse and be renewed
    Crashes     \* whether the process may die

Tasks == Children \cup {Root}
None == "none"

ASSUME ApprovalAssumption ==
    /\ Root \notin Children /\ None \notin Tasks \cup Grants
    /\ ParentOf \in [Children -> Tasks]
    /\ TaskOf \in [Calls -> Tasks] /\ IdOf \in [Calls -> Ids] /\ Reads \subseteq Calls
    \* A replay repeats the call.
    /\ \A c, d \in Calls : IdOf[c] = IdOf[d] =>
           TaskOf[c] = TaskOf[d] /\ (c \in Reads <=> d \in Reads)
    /\ Steered \subseteq Tasks
    /\ Budget \in Nat \ {0} /\ Share \in Nat \ {0} /\ Late \in BOOLEAN /\ Crashes \in BOOLEAN

VARIABLES
    setting,   \* settings.command_execution_mode
    mode,      \* task_execution_modes
    approval,  \* approvals.state
    grant,     \* approval_grants
    run,       \* subagent_runs.status, or "stopped" when the user stopped the task itself
    call,      \* the executions in progress
    due,       \* statements an ended child's handler has still to make
    stop       \* the stop of a conversation in progress

vars == <<setting, mode, approval, grant, run, call, due, stop>>

----------------------------------------------------------------------------
\* Rows

Modes == {"allow", "approval"}
Decided == {"approved", "rejected", "expired", "cancelled"}

GrantRow == [state  : {"free", "active", "revoked", "expired", "exhausted"},
             task   : Tasks,
             from   : Grants \cup {None},  \* inherited_from
             max    : 0..(Budget + Share), \* max_calls
             used   : 0..(Budget + Share), \* used_calls
             lapsed : BOOLEAN]             \* expires_at_ms is over

FreeGrant == [state |-> "free", task |-> Root, from |-> None, max |-> 0, used |-> 0,
              lapsed |-> FALSE]
NewGrant(t, h, n) == [state |-> "active", task |-> t, from |-> h, max |-> n, used |-> 0,
                      lapsed |-> FALSE]

\* Where a call is in authorize_execution, and what cleared it.
Stages == {"idle", "select", "list", "consume", "ask", "waiting", "recheck", "cleared",
           "ran", "refused", "lost"}
CallState == [stage : Stages,
              picks : SUBSET Grants,                        \* candidates not tried yet
              by    : {None, "mode", "grant", "user"},
              grant : Grants \cup {None}]                   \* the grant that was charged
NewCall == [stage |-> "idle", picks |-> {}, by |-> None, grant |-> None]

StopStages == {"idle", "select", "interrupt", "mark", "approvals", "grants", "mode"}
NoStop == [task |-> None, stage |-> "idle", rows |-> {}]
Pieces == {"approvals", "grants"}

TypeOK ==
    /\ setting \in Modes
    /\ mode \in [Tasks -> Modes \cup {None}]
    /\ approval \in [Ids -> Decided \cup {None, "pending"}]
    /\ grant \in [Grants -> GrantRow]
    /\ run \in [Tasks -> {None, "pending", "running", "over", "stopped"}]
    /\ call \in [Calls -> CallState]
    /\ due \subseteq Children \X Pieces
    /\ stop \in [task : Tasks \cup {None}, stage : StopStages, rows : SUBSET Children]

Init ==
    /\ setting \in Modes
    /\ mode = [t \in Tasks |-> None]
    /\ approval = [i \in Ids |-> None]
    /\ grant = [g \in Grants |-> FreeGrant]
    /\ run = [t \in Tasks |-> IF t = Root THEN "running" ELSE None]
    /\ call = [c \in Calls |-> NewCall]
    /\ due = {}
    /\ stop = NoStop

----------------------------------------------------------------------------
\* Queries

\* The smallest set that holds a task's children and theirs.
Descendants(t) ==
    {r \in Children : \A S \in SUBSET Children :
        (\A q \in Children : ParentOf[q] \in S \cup {t} => q \in S) => r \in S}

\* Mutant: the cascade stops at the grant itself.
MutUnder(G) == G
\* The grants of G and everything inherited from them.
Under(G) ==
    {h \in Grants : \A S \in SUBSET Grants :
        (G \subseteq S /\ \A k \in Grants : grant[k].from \in S => k \in S) => h \in S}

GrantsOf(t) == {g \in Grants : grant[g].state # "free" /\ grant[g].task = t}
IsActive(g) == grant[g].state = "active"

\* execution_mode of the root of the tree, else the setting
EffectiveMode == IF mode[Root] = None THEN setting ELSE mode[Root]

\* UPDATE approval_grants SET state='revoked' WHERE ... AND state='active'
Revoked(G) == [g \in Grants |-> IF g \in G /\ IsActive(g)
                                THEN [grant[g] EXCEPT !.state = "revoked"] ELSE grant[g]]

\* UPDATE approvals SET state='cancelled' WHERE task_id ... AND state='pending'
Cancelled(T) == [i \in Ids |-> IF approval[i] = "pending"
                                  /\ \E c \in Calls : IdOf[c] = i /\ TaskOf[c] \in T
                               THEN "cancelled" ELSE approval[i]]

\* Mutant: the guard of the update is forgotten.
MutFits(g, n) == IsActive(g)
\* The guarded update that takes n calls from a budget.
Fits(g, n) == IsActive(g) /\ grant[g].used + n <= grant[g].max
Charged(g, n) ==
    LET used == grant[g].used + n
    IN  [grant[g] EXCEPT !.used = used,
                         !.state = IF used >= grant[g].max THEN "exhausted" ELSE @]


Go(c, stage) == call' = [call EXCEPT ![c].stage = stage]
Clear(c, by) == call' = [call EXCEPT ![c].stage = "cleared", ![c].by = by]

----------------------------------------------------------------------------
\* A call: authorize_execution and what call_persisted_inner does after it

\* A worker may go on calling after its run has ended: only a stopped task refuses.
ReadMode(c) ==
    /\ call[c].stage = "idle" /\ run[TaskOf[c]] \in {"running", "over"}
    /\ \/ EffectiveMode = "allow" /\ Clear(c, "mode")
       \/ EffectiveMode = "approval" /\ Go(c, IF c \in Reads THEN "select" ELSE "ask")
    /\ UNCHANGED <<setting, mode, approval, grant, run, due, stop>>

\* consume_safe_read_grant first expires the lapsed grants of the task ...
ExpireGrants(c) ==
    /\ call[c].stage = "select"
    /\ grant' = [g \in Grants |-> IF g \in GrantsOf(TaskOf[c]) /\ IsActive(g) /\ grant[g].lapsed
                                  THEN [grant[g] EXCEPT !.state = "expired"]
                                  ELSE grant[g]]
    /\ Go(c, "list")
    /\ UNCHANGED <<setting, mode, approval, run, due, stop>>

\* ... then lists those that are still active, one that lapsed meanwhile too: the time was
\* read before both.
SelectGrants(c) ==
    /\ call[c].stage = "list"
    /\ call' = [call EXCEPT ![c].stage = "consume",
                            ![c].picks = {g \in GrantsOf(TaskOf[c]) : IsActive(g)}]
    /\ UNCHANGED <<setting, mode, approval, grant, run, due, stop>>

\* One candidate pays for the call.
Consume(c, g) ==
    /\ call[c].stage = "consume" /\ g \in call[c].picks /\ Fits(g, 1)
    /\ grant' = [grant EXCEPT ![g] = Charged(g, 1)]
    /\ call' = [call EXCEPT ![c] = [stage |-> "cleared", picks |-> {}, by |-> "grant",
                                    grant |-> g]]
    /\ UNCHANGED <<setting, mode, approval, run, due, stop>>

\* A candidate's tools, options, paths or remaining budget do not match.
SkipGrant(c, g) ==
    /\ call[c].stage = "consume" /\ g \in call[c].picks
    /\ call' = [call EXCEPT ![c].picks = @ \ {g}]
    /\ UNCHANGED <<setting, mode, approval, grant, run, due, stop>>

NoGrantLeft(c) ==
    /\ call[c].stage = "consume" /\ call[c].picks = {}
    /\ Go(c, "ask")
    /\ UNCHANGED <<setting, mode, approval, grant, run, due, stop>>

\* Mutant: a replayed request joins the approval that is already there.
MutAsk(c) ==
    /\ call[c].stage = "ask"
    /\ approval' = [approval EXCEPT ![IdOf[c]] = IF @ = None THEN "pending" ELSE @]
    /\ Go(c, "waiting")
    /\ UNCHANGED <<setting, mode, grant, run, due, stop>>

\* INSERT OR IGNORE: the id of a request is used once.
Ask(c) ==
    /\ call[c].stage = "ask"
    /\ IF approval[IdOf[c]] = None
       THEN approval' = [approval EXCEPT ![IdOf[c]] = "pending"] /\ Go(c, "waiting")
       ELSE UNCHANGED approval /\ Go(c, "refused")
    /\ UNCHANGED <<setting, mode, grant, run, due, stop>>

\* wait_for_approval reads a decision.
Poll(c) ==
    /\ call[c].stage = "waiting" /\ approval[IdOf[c]] \in Decided
    /\ Go(c, IF approval[IdOf[c]] = "approved" THEN "recheck" ELSE "refused")
    /\ UNCHANGED <<setting, mode, approval, grant, run, due, stop>>

\* Mutant: the deadline overwrites a decision that was made after the last poll.
MutGiveUp(c) ==
    /\ call[c].stage = "waiting"
    /\ approval' = [approval EXCEPT ![IdOf[c]] = "expired"]
    /\ Go(c, "refused")
    /\ UNCHANGED <<setting, mode, grant, run, due, stop>>

\* Mutant: a call waits without a deadline.
MutGiveUpNever(c) ==
    /\ call[c].stage = "waiting" /\ approval[IdOf[c]] = "cancelled"
    /\ Go(c, "refused")
    /\ UNCHANGED <<setting, mode, approval, grant, run, due, stop>>

\* The deadline or a cancellation after a poll that read "pending": the approval is
\* resolved if it still is, and the call is refused in any case.
GiveUp(c) ==
    /\ call[c].stage = "waiting"
    /\ \E end \in {"expired", "cancelled"} :
           approval' = [approval EXCEPT ![IdOf[c]] = IF @ = "pending" THEN end ELSE @]
    /\ Go(c, "refused")
    /\ UNCHANGED <<setting, mode, grant, run, due, stop>>

\* recheck_approved_execution
Recheck(c) ==
    /\ call[c].stage = "recheck"
    /\ IF EffectiveMode = "allow" \/ approval[IdOf[c]] = "approved"
       THEN Clear(c, "user") ELSE Go(c, "refused")
    /\ UNCHANGED <<setting, mode, approval, grant, run, due, stop>>

Dispatch(c) ==
    /\ call[c].stage = "cleared"
    /\ Go(c, "ran")
    /\ UNCHANGED <<setting, mode, approval, grant, run, due, stop>>

----------------------------------------------------------------------------
\* The user

\* resolve_task_approval: one transaction; "similar" also creates a grant.
Decide(c) ==
    /\ approval[IdOf[c]] = "pending" /\ call[c].stage # "idle"
    /\ \/ /\ \E d \in {"approved", "rejected"} : approval' = [approval EXCEPT ![IdOf[c]] = d]
          /\ UNCHANGED grant
       \/ /\ c \in Reads
          /\ approval' = [approval EXCEPT ![IdOf[c]] = "approved"]
          /\ \E g \in Grants :
                /\ grant[g].state = "free"
                /\ grant' = [grant EXCEPT ![g] = NewGrant(TaskOf[c], None, Budget)]
    /\ UNCHANGED <<setting, mode, run, call, due, stop>>

\* revoke_task_approval_grant
RevokeGrant(g) ==
    /\ IsActive(g)
    /\ grant' = Revoked(Under({g}))
    /\ UNCHANGED <<setting, mode, approval, run, call, due, stop>>

\* persist_user_execution_mode
SetMode(t, m) ==
    /\ mode' = [mode EXCEPT ![t] = m]
    /\ approval' = Cancelled({t} \cup Descendants(t))
    /\ grant' = Revoked(Under(GrantsOf(t)))
    /\ UNCHANGED <<setting, run, call, due, stop>>

\* update_settings changes the default and nothing else.
SetSetting(m) ==
    /\ setting' = m
    /\ UNCHANGED <<mode, approval, grant, run, call, due, stop>>

\* The agent is disabled or gets a new secret.
RevokeAgent ==
    /\ grant' = Revoked(Grants)
    /\ UNCHANGED <<setting, mode, approval, run, call, due, stop>>

----------------------------------------------------------------------------
\* Children

Register(r) ==
    /\ run[r] = None /\ run[ParentOf[r]] = "running"
    /\ run' = [run EXCEPT ![r] = "pending"]
    /\ UNCHANGED <<setting, mode, approval, grant, call, due, stop>>

\* The claim, and inherit_subagent_approval_grant in a savepoint of its transaction:
\* the child's budget is reserved from one active grant of the parent, or nothing is
\* inherited.
Claim(r) ==
    /\ run[r] = "pending"
    /\ run' = [run EXCEPT ![r] = "running"]
    /\ \/ UNCHANGED grant
       \/ \E p \in GrantsOf(ParentOf[r]), g \in Grants, n \in 1..Share :
             /\ ~grant[p].lapsed /\ Fits(p, n)
             /\ grant[g].state = "free"
             /\ grant' = [grant EXCEPT ![p] = Charged(p, n), ![g] = NewGrant(r, p, n)]
    /\ UNCHANGED <<setting, mode, approval, call, due, stop>>

Ongoing(r) == run[r] \in {"pending", "running"}
Ended(t) == run[t] \in {"over", "stopped"}
End(r) == run' = [run EXCEPT ![r] = "over"]

\* finish_subagent_for_child: the status, then the grants.
Finish(r) ==
    /\ Ongoing(r) /\ End(r)
    /\ due' = due \cup {<<r, "grants">>}
    /\ UNCHANGED <<setting, mode, approval, grant, call, stop>>

\* The watchdog: the status, then the approvals, then the grants.
TimeOut(r) ==
    /\ Ongoing(r) /\ End(r)
    /\ due' = due \cup {<<r, "approvals">>, <<r, "grants">>}
    /\ UNCHANGED <<setting, mode, approval, grant, call, stop>>

\* recover_claimed_final: one transaction.
Recover(r) ==
    /\ run[r] = "running" /\ End(r)
    /\ grant' = Revoked(GrantsOf(r))
    /\ UNCHANGED <<setting, mode, approval, call, due, stop>>

CancelApprovals(r) ==
    /\ <<r, "approvals">> \in due
    /\ due' = due \ {<<r, "approvals">>}
    /\ approval' = Cancelled({r})
    /\ UNCHANGED <<setting, mode, grant, run, call, stop>>

RevokeOfChild(r) ==
    /\ <<r, "grants">> \in due /\ <<r, "approvals">> \notin due
    /\ due' = due \ {<<r, "grants">>}
    /\ grant' = Revoked(GrantsOf(r))
    /\ UNCHANGED <<setting, mode, approval, run, call, stop>>

\* Time: a grant lapses with everything inherited from it; a heartbeat of a child
\* renews what it inherited up to the parent's own deadline.
Lapse(g) ==
    /\ Late /\ IsActive(g) /\ ~grant[g].lapsed
    /\ grant' = [h \in Grants |-> IF h \in Under({g}) THEN [grant[h] EXCEPT !.lapsed = TRUE]
                                  ELSE grant[h]]
    /\ UNCHANGED <<setting, mode, approval, run, call, due, stop>>

Heartbeat(r) ==
    /\ Late /\ run[r] = "running"
    /\ grant' = [g \in Grants |->
                    IF g \in GrantsOf(r) /\ IsActive(g) /\ grant[g].from # None
                    THEN [grant[g] EXCEPT !.lapsed = grant[grant[g].from].lapsed]
                    ELSE grant[g]]
    /\ UNCHANGED <<setting, mode, approval, run, call, due, stop>>

----------------------------------------------------------------------------
\* stop_conversation

StopTask(t) ==
    /\ stop.stage = "idle" /\ run[t] \notin {None, "stopped"}
    /\ stop' = [task |-> t, stage |-> "select", rows |-> {}]
    /\ run' = IF t = Root THEN [run EXCEPT ![t] = "stopped"] ELSE run
    /\ UNCHANGED <<setting, mode, approval, grant, call, due>>

SelectChildren ==
    /\ stop.stage = "select"
    /\ stop' = [stop EXCEPT !.stage = "interrupt",
                            !.rows = {r \in Descendants(stop.task) : Ongoing(r)}]
    /\ UNCHANGED <<setting, mode, approval, grant, run, call, due>>

Interrupt(r) ==
    /\ stop.stage = "interrupt" /\ r \in stop.rows
    /\ stop' = [stop EXCEPT !.rows = @ \ {r}]
    /\ IF Ongoing(r) THEN End(r) /\ due' = due \cup {<<r, "approvals">>}
       ELSE UNCHANGED <<run, due>>
    /\ UNCHANGED <<setting, mode, approval, grant, call>>

\* The task's own run, approvals, grants and mode, one statement each.
MarkStopped ==
    /\ stop.stage = "interrupt" /\ stop.rows = {}
    /\ stop' = [stop EXCEPT !.stage = "approvals"]
    /\ run' = [run EXCEPT ![stop.task] = "stopped"]
    /\ UNCHANGED <<setting, mode, approval, grant, call, due>>

StopApprovals ==
    /\ stop.stage = "approvals"
    /\ stop' = [stop EXCEPT !.stage = "grants"]
    /\ approval' = Cancelled({stop.task})
    /\ UNCHANGED <<setting, mode, grant, run, call, due>>

StopGrants ==
    /\ stop.stage = "grants"
    /\ stop' = [stop EXCEPT !.stage = "mode"]
    /\ grant' = Revoked(GrantsOf(stop.task))
    /\ UNCHANGED <<setting, mode, approval, run, call, due>>

\* Mutant: a stopped task is left in the mode "deny".
MutStopMode ==
    /\ stop.stage = "mode"
    /\ stop' = NoStop
    /\ mode' = [mode EXCEPT ![stop.task] = "deny"]
    /\ UNCHANGED <<setting, approval, grant, run, call, due>>

StopMode ==
    /\ stop.stage = "mode"
    /\ stop' = NoStop
    /\ mode' = [mode EXCEPT ![stop.task] = None]
    /\ UNCHANGED <<setting, approval, grant, run, call, due>>

\* The process dies: the rows stay, and with them approvals nobody waits for.
Restart ==
    /\ Crashes
    /\ call' = [c \in Calls |-> IF call[c].stage \in {"idle", "ran", "refused"} THEN call[c]
                                ELSE [call[c] EXCEPT !.stage = "lost"]]
    /\ due' = {} /\ stop' = NoStop
    /\ UNCHANGED <<setting, mode, approval, grant, run>>

----------------------------------------------------------------------------

Execute(c) ==
    \/ ReadMode(c) \/ ExpireGrants(c) \/ SelectGrants(c) \/ NoGrantLeft(c) \/ Ask(c) \/ Poll(c) \/ GiveUp(c)
    \/ Recheck(c) \/ Dispatch(c)
    \/ \E g \in Grants : Consume(c, g) \/ SkipGrant(c, g)

User ==
    \/ \E c \in Calls : Decide(c)
    \/ \E g \in Grants : RevokeGrant(g)
    \/ \E m \in Modes : \/ Root \in Steered /\ SetSetting(m)
                        \/ \E t \in Steered : SetMode(t, m)
    \/ RevokeAgent

Child(r) == \/ Register(r) \/ Claim(r) \/ Finish(r) \/ TimeOut(r) \/ Recover(r)
            \/ CancelApprovals(r) \/ RevokeOfChild(r) \/ Heartbeat(r)

Stop == \/ (\E t \in Steered : StopTask(t)) \/ SelectChildren
        \/ (\E r \in Children : Interrupt(r))
        \/ MarkStopped \/ StopApprovals \/ StopGrants \/ StopMode

Next == \/ \E c \in Calls : Execute(c)
        \/ User
        \/ \E r \in Children : Child(r)
        \/ \E g \in Grants : Lapse(g)
        \/ Stop
        \/ Restart

Spec == Init /\ [][Next]_vars

\* The runtime polls an admitted call; the 120 seconds of an approval pass.
FairSpec == Spec /\ \A c \in Calls : WF_vars(Execute(c) /\ call[c].stage # "idle")

----------------------------------------------------------------------------
\* Properties

\* authorize_execution: "Never reset a terminal decision to pending".  However the
\* user, the deadline, a policy change, a stop and the watchdog meet, an approval is
\* resolved once.
DecidedOnce == [][\A i \in Ids : approval[i] \in Decided => approval'[i] = approval[i]]_vars

\* "Approval IDs are server-derived request IDs and single-use": a decision of the
\* user clears one call, and only if it was an approval.
SingleUse ==
    \A c, d \in Calls :
        call[c].by = "user" =>
            /\ approval[IdOf[c]] = "approved"
            /\ call[d].by = "user" /\ IdOf[d] = IdOf[c] => d = c

\* docs/approval-grants.md: child budgets are reserved from the parent's.  The reads
\* charged to a grant and to everything inherited from it stay within its budget.
TreeBudget ==
    \A g \in Grants :
        Cardinality({c \in Calls : call[c].grant \in Under({g})}) <= grant[g].max

\* A grant the user revokes takes what was inherited from it along: an active grant's
\* parent is revoked only by the end of the task that held it.
RevocationCascades ==
    \A g \in Grants :
        LET p == grant[g].from IN
        IsActive(g) /\ p # None /\ grant[p].state = "revoked" => Ended(grant[p].task)

\* No call waits for ever, even when the user never answers.
CallsEnd ==
    \A c \in Calls : call[c].stage # "idle" ~> call[c].stage \in {"ran", "refused", "lost"}

=============================================================================
