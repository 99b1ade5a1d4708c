---------------------------- MODULE CallAdmission ----------------------------
(***************************************************************************)
(* What happens to an MCP tool call between its arrival and the dispatch   *)
(* of the tool: the compact fence (call_compact_checked), the resolution   *)
(* of the task it belongs to and the read-modify-write of the task row     *)
(* (ensure_call_identity), the approval of a new conversation, and the     *)
(* durable MCP scope binding.  The user (stop, continue, retry, approve,   *)
(* reject) and the compact worker act on the same rows between any two of  *)
(* these statements.                                                       *)
(*                                                                         *)
(* The model follows the calls of one task.  The ChatGPT conversations the *)
(* task has lived in are numbered 0, 1, 2, ...: conversation k has its own *)
(* openai scope and its own MCP scope (the openai session, known to the    *)
(* program only through chatgpt_mcp_scope_bindings).  A logical session is *)
(* safe_id(task, generation), so it is written as the generation.          *)
(***************************************************************************)
EXTENDS Integers, FiniteSets

CONSTANTS
    Calls,       \* MCP tool calls
    Routes,      \* how calls name their task: a subset of AllRoutes
    Web,         \* whether the task was created by the browser bridge
    ApproveNew,  \* the setting ui_approveNewConversations
    MaxCompacts, \* bound on the compact jobs started
    MaxSends     \* bound on the messages and retries the user sends

AllRoutes == {"taskId", "turn", "mcpScope", "chatScope", "sameText"}

ASSUME AdmissionAssumption ==
    /\ Routes \subseteq AllRoutes
    /\ Web \in BOOLEAN /\ ApproveNew \in BOOLEAN
    /\ MaxCompacts \in Nat /\ MaxSends \in Nat

VARIABLES
    row,      \* the task's row in the tasks table
    binding,  \* chatgpt_mcp_scope_bindings: conversation -> generation
    archive,  \* chatgpt_compact_archives rows of the task
    job,      \* its open compact job
    call,     \* the calls, each between two of its statements
    granted,  \* history: the user or a setting has let this task execute
    sends     \* messages and retries of the user so far

vars == <<row, binding, archive, job, call, granted, sends>>

----------------------------------------------------------------------------
\* Rows

Chats == 0..MaxCompacts
NoSession == 0
Unbound == 0

TaskRow == [exists  : BOOLEAN,
            allow   : {"unset", "yes", "no"},   \* allow_execute
            status  : {"pending", "running", "interrupted", "stopped", "failed"},
            gen     : Nat,
            session : Nat,                      \* active_session_id
            chat    : Chats,                    \* conversation_scope_hash
            overdue : BOOLEAN]                  \* created_at_ms 60 s ago or more

ArchiveRow == [chat : Chats, session : Nat]
JobPhases  == {"none", "preparing", "handoff"}
JobRow     == [phase   : JobPhases,        \* handoff: writing_handoff and later
               settled : BOOLEAN,          \* the barrier was found clear
               session : Nat,              \* old_active_session_id
               started : 0..MaxCompacts]   \* jobs started so far

Stages == {"idle", "tracked", "admitted", "resolved", "valid", "read", "waiting",
           "expiring", "cleared", "rewriting", "claimed", "binding", "running", "done"}

CallRow == [stage   : Stages,
            route   : AllRoutes,
            message : BOOLEAN,   \* the tool is agent_user_message
            chat    : Chats,     \* the conversation it was made in
            copy    : TaskRow,   \* the row as the call last read it
            session : Nat,       \* the logical session of the call
            gen     : Nat]       \* the generation it will bind its scope to

NoRow == [exists |-> FALSE, allow |-> "unset", status |-> "pending", gen |-> 1,
          session |-> NoSession, chat |-> 0, overdue |-> FALSE]

\* bridge_started inserts the row of a browser conversation.
WebRow == [NoRow EXCEPT !.exists = TRUE, !.allow = "yes", !.status = "running"]

NoCall == [stage |-> "idle", route |-> "taskId", message |-> FALSE, chat |-> 0,
           copy |-> NoRow, session |-> NoSession, gen |-> 1]

TypeOK ==
    /\ row \in TaskRow
    /\ binding \in [Chats -> Nat]
    /\ archive \subseteq ArchiveRow
    /\ job \in JobRow
    /\ call \in [Calls -> CallRow]
    /\ granted \in BOOLEAN
    /\ sends \in 0..MaxSends

Init ==
    /\ row = IF Web THEN WebRow ELSE NoRow
    /\ binding \in {[k \in Chats |-> IF k = 0 THEN g ELSE Unbound] :
                        g \in IF Web THEN {Unbound, 1} ELSE {Unbound}}
    /\ archive = {}
    /\ job = [phase |-> "none", settled |-> FALSE, session |-> NoSession, started |-> 0]
    /\ call = [c \in Calls |-> NoCall]
    /\ granted = Web
    /\ sends = 0

----------------------------------------------------------------------------
\* Queries

Compacting == job.phase # "none"
Archived(k) == \E a \in archive : a.chat = k

\* The scope the call's own context carries: only the browser's scope of the
\* conversation is comparable with a task row or a compact job.
OwnScope(c, k) == call[c].route = "chatScope" /\ call[c].chat = k
SelfNamed(c) == call[c].route \in {"taskId", "chatScope"}
OwnTask(c) == call[c].route = "taskId"

\* Mutant: only the calls whose tool already runs are counted.
MutInFlight == {c \in Calls : call[c].stage = "running"}

\* ActivityRegistry.in_flight: from track_compact_call to the guard's drop.
InFlight == {c \in Calls : call[c].stage \notin {"idle", "done"}}

\* compact_settled reads the contexts as they were when they were tracked.
CompactSettled == \A c \in InFlight : ~OwnTask(c) /\ ~OwnScope(c, row.chat)

\* The row upsert_task writes for the call c, from the copy it read: a new
\* row when there was none, else the copied fields with the call's status.
MergedRow(c) ==
    LET copy  == call[c].copy
        allow == IF copy.exists THEN copy.allow
                 ELSE IF ApproveNew THEN "unset" ELSE "yes"
    IN [exists  |-> TRUE,
        allow   |-> allow,
        status  |-> IF allow = "unset" THEN "pending" ELSE "running",
        gen     |-> call[c].session,
        session |-> IF allow = "unset" THEN NoSession ELSE call[c].session,
        chat    |-> IF copy.exists THEN copy.chat ELSE call[c].chat,
        overdue |-> IF copy.exists THEN copy.overdue ELSE FALSE]

\* Mutant: only the trigger on a changed scope is there.
MutTriggersAllow(new) == Compacting => new.chat = row.chat

\* Mutant: compact_task_generation does not compare the generations.
MutTriggersAllowOldGeneration(new) ==
    /\ ~Archived(new.chat)
    /\ archive # {} /\ new.session # NoSession =>
           \A a \in archive : a.session # new.session

\* compact_archived_task_insert/_update, compact_task_generation and
\* compact_task_scope_lock abort the upsert.
TriggersAllow(new) ==
    /\ ~Archived(new.chat)
    /\ archive # {} => /\ new.gen >= row.gen
                       /\ new.session = NoSession
                          \/ \A a \in archive : a.session # new.session
    /\ Compacting => new.chat = row.chat

\* created_at_ms is not among the columns the conflict clause updates.
Upserted(new) == [new EXCEPT !.overdue = row.exists /\ row.overdue]

\* The next stage of a call; a copy of the row is used once, and of a call
\* that is over nothing is kept.
To(c, stage) ==
    call' = [call EXCEPT ![c] = IF stage = "done"
                                THEN [NoCall EXCEPT !.stage = stage]
                                ELSE [call[c] EXCEPT !.stage = stage, !.copy = NoRow]]

----------------------------------------------------------------------------
\* The call: call_compact_checked

\* A call arrives and is tracked before it looks at the durable fence.
Track(c) ==
    /\ call[c].stage = "idle"
    /\ \E r \in Routes, m \in BOOLEAN, k \in 0..row.chat :
          call' = [call EXCEPT ![c] = [NoCall EXCEPT !.stage = "tracked", !.route = r,
                                                     !.message = m, !.chat = k]]
    /\ UNCHANGED <<row, binding, archive, job, granted, sends>>

Fenced(c) ==
    \/ call[c].route = "chatScope" /\ Archived(call[c].chat)
    \/ Compacting /\ (OwnTask(c) \/ OwnScope(c, row.chat))

CheckFence(c) ==
    /\ call[c].stage = "tracked"
    /\ To(c, IF Fenced(c) THEN "done" ELSE "admitted")
    /\ UNCHANGED <<row, binding, archive, job, granted, sends>>

----------------------------------------------------------------------------
\* The call: ensure_call_identity

\* mapped_mcp_scope_task: a binding of an earlier generation is refused.
StaleBinding(c) == binding[call[c].chat] \notin {Unbound, row.gen}

\* recover_manual_compact_task: while nothing of this generation is bound, a message
\* from a scope without a binding that reads like one of the replacement chat.
Recovers(c) ==
    /\ call[c].message
    /\ Web /\ archive # {} /\ row.allow = "yes"
    /\ binding[call[c].chat] = Unbound
    /\ \A k \in Chats : binding[k] # row.gen

\* The task is the explicit one, the one of the turn or of the MCP scope's
\* binding, else the one whose row has the call's scope, else the one whose new
\* conversation got the same text; a first message in an unknown scope makes a
\* new one.  (Every scope here is an openai one: in another a call that is no message
\* makes a task of its own, which is no ChatGPT conversation.)
Resolves(c) ==
    LET k == call[c].chat IN
    CASE call[c].route \in {"taskId", "turn"} -> row.exists /\ ~StaleBinding(c)
      [] call[c].route = "mcpScope"  -> binding[k] # Unbound /\ ~StaleBinding(c)
      [] call[c].route = "chatScope" -> IF row.exists THEN row.chat = k
                                        ELSE call[c].message
      [] call[c].route = "sameText"  -> Recovers(c)

Resolve(c) ==
    /\ call[c].stage = "admitted"
    /\ To(c, IF Resolves(c) THEN "resolved" ELSE "done")
    /\ UNCHANGED <<row, binding, archive, job, granted, sends>>

\* validate_resolved_task
Validate(c) ==
    /\ call[c].stage = "resolved"
    /\ To(c, IF Compacting THEN "done" ELSE "valid")
    /\ UNCHANGED <<row, binding, archive, job, granted, sends>>

Refused(c) == \/ row.status = "stopped" /\ ~call[c].message
              \/ row.allow = "no"

\* Reads the row and settles the generation of the call's session: a message
\* to a stopped task reopens it in the next generation.
ReadTask(c) ==
    LET gen == IF row.status = "stopped" THEN row.gen + 1 ELSE row.gen IN
    /\ call[c].stage = "valid"
    /\ IF row.exists /\ Refused(c)
       THEN To(c, "done")
       ELSE call' = [call EXCEPT ![c].stage = "read", ![c].copy = row,
                                 ![c].session = gen]
    /\ UNCHANGED <<row, binding, archive, job, granted, sends>>

\* The first upsert_task: the whole row, from the copy.
UpsertTask(c) ==
    LET new == MergedRow(c) IN
    /\ call[c].stage = "read"
    /\ IF TriggersAllow(new)
       THEN /\ row' = Upserted(new)
            /\ granted' = (granted \/ (~call[c].copy.exists /\ ~ApproveNew))
            /\ To(c, IF new.allow = "unset" THEN "waiting" ELSE "claimed")
       ELSE To(c, "done") /\ UNCHANGED <<row, granted>>
    /\ UNCHANGED <<binding, archive, job, sends>>

\* Mutant: an overdue task without an answer is taken as approved.
MutPollApproval(c) ==
    /\ call[c].stage = "waiting"
    /\ row.allow = "yes" \/ (row.allow = "unset" /\ row.overdue)
    /\ To(c, "cleared")
    /\ UNCHANGED <<row, binding, archive, job, granted, sends>>

\* Mutant: the wait for the approval has no deadline.
MutPollApprovalForever(c) ==
    /\ call[c].stage = "waiting"
    /\ \/ row.allow = "yes" /\ To(c, "cleared")
       \/ row.allow = "no" /\ To(c, "done")
    /\ UNCHANGED <<row, binding, archive, job, granted, sends>>

\* One turn of wait_for_conversation_approval; it sleeps and polls again
\* while the answer is open and the 60 seconds are not over.
PollApproval(c) ==
    /\ call[c].stage = "waiting"
    /\ \/ row.allow = "yes" /\ To(c, "cleared")
       \/ row.allow = "no" /\ To(c, "done")
       \/ row.allow = "unset" /\ row.overdue /\ To(c, "expiring")
    /\ UNCHANGED <<row, binding, archive, job, granted, sends>>

\* The approval window is over: the answer is "no" unless one came meanwhile.
ExpireApproval(c) ==
    /\ call[c].stage = "expiring"
    /\ row' = IF row.allow = "unset"
              THEN [row EXCEPT !.allow = "no", !.status = "failed"]
              ELSE row
    /\ To(c, "done")
    /\ UNCHANGED <<binding, archive, job, granted, sends>>

RereadTask(c) ==
    /\ call[c].stage = "cleared"
    /\ call' = [call EXCEPT ![c].stage = "rewriting", ![c].copy = row]
    /\ UNCHANGED <<row, binding, archive, job, granted, sends>>

\* The second upsert_task, of the row read after the approval.
RewriteTask(c) ==
    LET new == [call[c].copy EXCEPT !.status = "running", !.session = call[c].session] IN
    /\ call[c].stage = "rewriting"
    /\ IF TriggersAllow(new)
       THEN row' = Upserted(new) /\ To(c, "claimed")
       ELSE To(c, "done") /\ UNCHANGED row
    /\ UNCHANGED <<binding, archive, job, granted, sends>>

\* persist_mcp_scope_binding: only a message binds, only an openai MCP scope
\* of an approved browser task, and never over another task's binding.
ReadBinding(c) ==
    /\ call[c].stage = "claimed"
    /\ call[c].message
    /\ IF Web /\ row.allow = "yes" /\ call[c].route # "chatScope"
       THEN call' = [call EXCEPT ![c].stage = "binding", ![c].gen = row.gen]
       ELSE To(c, "running")
    /\ UNCHANGED <<row, binding, archive, job, granted, sends>>

WriteBinding(c) ==
    /\ call[c].stage = "binding"
    /\ binding' = [binding EXCEPT ![call[c].chat] = call[c].gen]
    /\ To(c, "running")
    /\ UNCHANGED <<row, archive, job, granted, sends>>

\* ensure_user_message_synced and authorize_execution let the tool run or not.
Authorize(c) ==
    /\ call[c].stage = "claimed"
    /\ ~call[c].message
    /\ \E stage \in {"running", "done"} : To(c, stage)
    /\ UNCHANGED <<row, binding, archive, job, granted, sends>>

Finish(c) ==
    /\ call[c].stage = "running"
    /\ To(c, "done")
    /\ UNCHANGED <<row, binding, archive, job, granted, sends>>

----------------------------------------------------------------------------
\* The user

\* Mutant: the task gets the status of its terminal sessions.
MutStop ==
    /\ row.exists
    /\ row' = [row EXCEPT !.status = "closed", !.session = NoSession]
    /\ UNCHANGED <<binding, archive, job, call, granted, sends>>

\* stop_conversation's update of the task row.
Stop ==
    /\ row.exists
    /\ row' = [row EXCEPT !.status = "stopped", !.session = NoSession]
    /\ UNCHANGED <<binding, archive, job, call, granted, sends>>

\* continue_message: a new message of the user from the local page.
Continue ==
    /\ Web /\ row.exists /\ ~Compacting
    /\ sends < MaxSends
    /\ row' = [row EXCEPT !.status = "running"]
    /\ sends' = sends + 1
    /\ UNCHANGED <<binding, archive, job, call, granted>>

\* task_action "retry" and "resume".
Retry ==
    /\ row.exists
    /\ sends < MaxSends
    /\ row' = [row EXCEPT !.status = "pending"]
    /\ sends' = sends + 1
    /\ UNCHANGED <<binding, archive, job, call, granted>>

Decide(answer) ==
    /\ row.exists /\ row.allow = "unset"
    /\ row' = [row EXCEPT !.allow = answer,
                          !.status = IF answer = "yes" THEN "pending" ELSE "failed"]
    /\ granted' = (granted \/ answer = "yes")
    /\ UNCHANGED <<binding, archive, job, call, sends>>

\* Time passes: the task is now 60 seconds old.
Age ==
    /\ row.exists /\ ~row.overdue
    /\ row' = [row EXCEPT !.overdue = TRUE]
    /\ UNCHANGED <<binding, archive, job, call, granted, sends>>

----------------------------------------------------------------------------
\* The compact worker (CompactResume has the whole protocol)

StartCompact ==
    /\ Web /\ ~Compacting
    /\ job.started < MaxCompacts
    /\ job' = [phase |-> "preparing", settled |-> FALSE, session |-> row.session,
               started |-> job.started + 1]
    /\ UNCHANGED <<row, binding, archive, call, granted, sends>>

\* checkpoint_compact asks the barrier before it opens the transaction.
AskSettled ==
    /\ Compacting /\ ~job.settled
    /\ CompactSettled
    /\ job' = [job EXCEPT !.settled = TRUE]
    /\ UNCHANGED <<row, binding, archive, call, granted, sends>>

AdvanceCompact ==
    /\ job.phase = "preparing" /\ job.settled
    /\ job' = [job EXCEPT !.phase = "handoff", !.settled = FALSE]
    /\ UNCHANGED <<row, binding, archive, call, granted, sends>>

\* complete: archives the conversation and its session, moves the task to the
\* next conversation in the next generation.
CompleteCompact ==
    /\ job.phase = "handoff" /\ job.settled
    /\ archive' = archive \cup
         {[chat |-> row.chat,
           session |-> IF row.session = NoSession THEN job.session ELSE row.session]}
    /\ row' = [row EXCEPT !.chat = @ + 1, !.session = NoSession, !.gen = @ + 1,
                          !.status = IF @ = "running" THEN "interrupted" ELSE @]
    /\ job' = [job EXCEPT !.phase = "none", !.settled = FALSE]
    /\ UNCHANGED <<binding, call, granted, sends>>

CancelCompact ==
    /\ Compacting
    /\ job' = [job EXCEPT !.phase = "none", !.settled = FALSE]
    /\ UNCHANGED <<row, binding, archive, call, granted, sends>>

----------------------------------------------------------------------------

CallStep(c) ==
    \/ CheckFence(c) \/ Resolve(c) \/ Validate(c) \/ ReadTask(c) \/ UpsertTask(c)
    \/ PollApproval(c) \/ ExpireApproval(c) \/ RereadTask(c) \/ RewriteTask(c)
    \/ ReadBinding(c) \/ WriteBinding(c) \/ Authorize(c) \/ Finish(c)

User == Stop \/ Continue \/ Retry \/ \E answer \in {"yes", "no"} : Decide(answer)

Compact == \/ StartCompact \/ AskSettled \/ AdvanceCompact
           \/ CompleteCompact \/ CancelCompact

Next == \/ \E c \in Calls : Track(c) \/ CallStep(c)
        \/ User \/ Age \/ Compact

Spec == Init /\ [][Next]_vars

\* The runtime polls every task that can make progress, and time passes.
FairSpec == Spec /\ WF_vars(Age) /\ \A c \in Calls : WF_vars(CallStep(c))

----------------------------------------------------------------------------
\* Properties

\* While the handoff is being written no tool of the task runs for a call whose
\* own context names the task or its browser scope (SelfNamed): the calls
\* compact_settled can see are drained, and the fence lets none in.
BarrierDrained ==
    job.phase = "handoff" =>
        \A c \in Calls : SelfNamed(c) => call[c].stage # "running"

\* A tool runs only in a task the user, the browser or the setting has let
\* execute, whatever approvals, rejections, timeouts and stale writes of the
\* row raced.
OnlyGrantedRuns == \A c \in Calls : call[c].stage = "running" => granted

\* After a compact the task stays in its live conversation: no stale copy of
\* the row brings back an archived conversation, its session or its
\* generation (the compact_* triggers).
OnLiveConversation ==
    /\ ~Archived(row.chat)
    /\ row.session # NoSession => \A a \in archive : a.session # row.session

\* The generation of a task that was ever compacted never goes back.
GenerationKept == [][archive # {} => row'.gen >= row.gen]_vars

\* identity.rs: only a new user message can reopen a stopped conversation (and
\* the user's own continue, retry and approval).
StopHolds ==
    [][row.status = "stopped" /\ row'.status = "running" =>
        \/ sends' # sends
        \/ \E c \in Calls : UpsertTask(c) /\ call[c].message]_vars

\* Every call that arrives ends: it never waits for an approval for ever, nor
\* for a compact.
CallsEnd == \A c \in Calls : call[c].stage = "tracked" ~> call[c].stage = "done"

=============================================================================
