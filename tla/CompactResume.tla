--------------------------- MODULE CompactResume ---------------------------
(***************************************************************************)
(* Compact & resume: the SQLite tables that tie a ChatCMD task to one      *)
(* ChatGPT conversation, the durable compact jobs that move that binding   *)
(* to a replacement conversation, and the browser-bridge handlers that     *)
(* race with them.  A write transaction (BEGIN IMMEDIATE) is one atomic    *)
(* action; what a handler reads before its transaction is kept in one of   *)
(* the in-flight variables, so that anything may happen in between.  A     *)
(* trigger that aborts, a violated UNIQUE index and a returned error all   *)
(* roll the transaction back: the action is simply not enabled.            *)
(*                                                                         *)
(* openai_scope is injective, so the scope of a conversation is written as *)
(* the conversation itself; an (id, url) pair is one conversation; a job   *)
(* is named by its start_operation_id, which is UNIQUE.                    *)
(***************************************************************************)
EXTENDS Integers, FiniteSets

CONSTANTS
    Tasks,        \* task ids
    Convs,        \* ChatGPT conversations
    Provisional,  \* the conversations known by a provisional ("WEB:") id
    Jobs,         \* compact jobs, each named by its start operation
    Requests,     \* chatgpt_bridge_requests with a generated id
    Handoffs,     \* handoff texts (nonempty and within MAX_HANDOFF_BYTES)
    None,         \* SQL NULL
    MaxRev,       \* bound on the revision of a job
    McpFirst,     \* whether MCP calls may create a task before the browser reports
    MaxReports,   \* bound on bridge_started calls between read and commit
    MaxLag        \* bound on the other calls between two of their statements

ASSUME CompactAssumption ==
    /\ Provisional \subseteq Convs
    /\ None \notin Tasks \cup Convs \cup Jobs \cup Handoffs
    /\ McpFirst \in BOOLEAN
    /\ MaxRev \in Nat /\ MaxReports \in Nat /\ MaxLag \in Nat

VARIABLES
    task,      \* tasks and chatgpt_conversations rows, keyed by task
    req,       \* chatgpt_bridge_requests rows
    job,       \* chatgpt_compact_jobs rows
    archive,   \* chatgpt_compact_archives rows
    immediate, \* tasks with an immediate-mode row in chatgpt_message_queue
    seen,      \* the revision of each job the extension has last read
    reports,   \* bridge_started calls that have read and not yet committed
    lagging    \* other calls between their read and their write

vars == <<task, req, job, archive, immediate, seen, reports, lagging>>

----------------------------------------------------------------------------
\* Rows

Opt(S) == S \cup {None}

Phases == {"preparing", "writing_handoff", "saving_handoff",
           "opening_new_chat", "completed", "cancelled"}

rank == [p \in Phases |->
            CASE p = "preparing"        -> 0
              [] p = "writing_handoff"  -> 1
              [] p = "saving_handoff"   -> 2
              [] p = "opening_new_chat" -> 3
              [] p = "completed"        -> 4
              [] p = "cancelled"        -> 5]

Terminal == {"completed", "cancelled"}
Working  == {"queued", "running", "stop_requested"}
Outcomes == {"completed", "stopped", "failed"}

\* The one deterministic request id: the continuation of a compact job.
ContinueId(j) == <<"compact-continue", j>>
RequestIds == Requests \cup {ContinueId(j) : j \in Jobs}
ASSUME RequestAssumption ==
    /\ None \notin RequestIds
    /\ \A j \in Jobs : ContinueId(j) \notin Requests  \* every other id is a fresh UUID

TaskRow == [status : {"absent", "running", "interrupted", "stopped",
                      "completed", "failed"},
            scope  : Opt(Convs),      \* tasks.conversation_scope_hash
            conv   : Opt(Convs),      \* chatgpt_conversations, None: no row
            active : Opt(RequestIds), \* active_request_id
            recorder : BOOLEAN]       \* owned by the recorder-only agent

RequestRow == [status   : {"absent"} \cup Working \cup Outcomes,
               task     : Opt(Tasks),
               conv     : Opt(Convs),
               obsolete : BOOLEAN,     \* chatgpt_compact_obsolete_requests
               final    : BOOLEAN,     \* its turn has a completed status event
               after    : SUBSET Jobs] \* jobs completed by its created_at_ms

JobRow == [phase    : {"absent"} \cup Phases,
           task     : Opt(Tasks),
           rev      : 0..MaxRev,
           old      : Opt(Convs),
           oldScope : Opt(Convs),
           new      : Opt(Convs),
           handoff  : Opt(Handoffs),
           continue : BOOLEAN]

ArchiveRow == [conv : Convs, prev : Opt(Convs), job : Jobs]
Report == [req : RequestIds, conv : Convs, cand : Tasks]
Lag    == {"failing", "stopping", "closing"} \X RequestIds
          \cup {"asking", "demoting"} \X Tasks

NoTask    == [status |-> "absent", scope |-> None, conv |-> None,
              active |-> None, recorder |-> FALSE]
NoRequest == [status |-> "absent", task |-> None, conv |-> None,
              obsolete |-> FALSE, final |-> FALSE, after |-> {}]
NoJob     == [phase |-> "absent", task |-> None, rev |-> 0, old |-> None,
              oldScope |-> None, new |-> None, handoff |-> None, continue |-> FALSE]

TypeOK ==
    /\ task \in [Tasks -> TaskRow]
    /\ req \in [RequestIds -> RequestRow]
    /\ job \in [Jobs -> JobRow]
    /\ archive \subseteq ArchiveRow
    /\ immediate \subseteq Tasks
    /\ seen \in [Jobs -> 0..MaxRev]
    /\ reports \subseteq Report
    /\ lagging \subseteq Lag

Init ==
    /\ task = [t \in Tasks |-> NoTask]
    /\ req = [r \in RequestIds |-> NoRequest]
    /\ job = [j \in Jobs |-> NoJob]
    /\ archive = {}
    /\ immediate = {}
    /\ seen = [j \in Jobs |-> 0]
    /\ reports = {}
    /\ lagging = {}

----------------------------------------------------------------------------
\* Queries and constraints of the schema

Active(j) == job[j].phase \in Phases \ Terminal
Compacting(t) == \E j \in Jobs : Active(j) /\ job[j].task = t
Exists(t) == task[t].status # "absent"
Busy(t) == \E r \in RequestIds : req[r].task = t /\ req[r].status \in Working
Others(t, r) == \E q \in RequestIds \ {r} :
                    req[q].task = t /\ req[q].status \in Working

ArchivedConv(c)  == \E a \in archive : a.conv = c
ArchivedScope(c) == \E a \in archive : a.conv = c \/ a.prev = c
Completed == {j \in Jobs : job[j].phase = "completed"}

\* Mutant: callbacks of requests retired by a completed compact still count.
MutGuardCallback(r, c) ==
    LET t == req[r].task IN
    /\ ~ArchivedConv(c)
    /\ t # None => ~Compacting(t)

\* Mutant: callbacks are not turned away while the task is compacted.
MutGuardPaused(r, c) ==
    LET t == req[r].task IN
    /\ ~req[r].obsolete
    /\ ~ArchivedConv(c)
    /\ t # None /\ (\E j \in Completed : job[j].task = t) /\ task[t].conv # None =>
        /\ c # None => c = task[t].conv
        /\ req[r].conv # None => req[r].conv = task[t].conv

\* guard_callback: callbacks of retired, archived or compacting bindings.
guard_callback(r, c) ==
    LET t == req[r].task IN
    /\ ~req[r].obsolete
    /\ ~ArchivedConv(c)
    /\ t # None =>
        /\ ~Compacting(t)
        /\ (\E j \in Completed : job[j].task = t) /\ task[t].conv # None =>
            /\ c # None => c = task[t].conv
            /\ req[r].conv # None => req[r].conv = task[t].conv

\* Mutant: a callback may move a binding whatever it is.
MutGuardConversationBinding(t, c) == c = None \/ c \notin Provisional

\* guard_conversation_binding: a durable binding is never moved by a callback.
guard_conversation_binding(t, c) ==
    \/ c = None
    \/ task[t].conv \in {None, c}
    \/ task[t].conv \in Provisional /\ c \notin Provisional

\* guard_native: archived and compact-owned conversations cannot enroll turns.
guard_native(c) ==
    /\ ~ArchivedConv(c)
    /\ \A j \in Jobs : Active(j) => c \notin {job[j].old, job[j].new}

\* Triggers and UNIQUE indexes on a write of chatgpt_conversations.conversation_id.
MayBind(t, c) ==
    /\ ~ArchivedConv(c)
    /\ c # task[t].conv => ~Compacting(t)
    /\ \A u \in Tasks \ {t} : task[u].conv # c

\* Mutant: the trigger on archived scopes is missing.
MutMayScope(t, c) == \A u \in Tasks \ {t} : task[u].scope # c

\* Triggers and UNIQUE indexes on a write of tasks.conversation_scope_hash.
MayScope(t, c) ==
    /\ ~ArchivedScope(c)
    /\ c # task[t].scope => ~Compacting(t)
    /\ \A u \in Tasks \ {t} : task[u].recorder = task[t].recorder => task[u].scope # c

\* compact_reserved_task_insert, which an upsert fires as well.
MayInsertTask(t, c) ==
    \A j \in Jobs : Active(j) /\ job[j].task # t => c \notin {job[j].oldScope, job[j].new}

\* compact_request_insert
MayInsertRequest(t, c) ==
    /\ ~ArchivedConv(c)
    /\ \A j \in Jobs : Active(j) => job[j].task # t /\ c \notin {job[j].old, job[j].new}

NewRequest(status, t, c) ==
    [status |-> status, task |-> t, conv |-> c, obsolete |-> FALSE,
     final |-> FALSE, after |-> Completed]

\* A handler goes on with a later statement of its own; beyond the bound it is
\* taken to die before that statement.
Later(step) ==
    lagging' = IF Cardinality(lagging) < MaxLag THEN lagging \cup {step} ELSE lagging

----------------------------------------------------------------------------
\* Browser-bridge requests (api/chatgpt.rs)

\* create_request: a message for a new chat has neither task nor conversation.
CreateRequest(r) ==
    /\ req[r].status = "absent"
    /\ req' = [req EXCEPT ![r] = NewRequest("queued", None, None)]
    /\ UNCHANGED <<task, job, archive, immediate, seen, reports, lagging>>

\* Environment: a new chat has a conversation nothing else was told about.  A
\* provisional id is later reported again under the durable one.
FreshChat(r, c) ==
    /\ \A t \in Tasks : task[t].conv # c /\ (task[t].scope = c => task[t].conv = None)
    /\ \A j \in Jobs : c \notin {job[j].old, job[j].oldScope, job[j].new}
    /\ \A q \in RequestIds \ {r} : req[q].conv # c
    /\ \A f \in reports : f.conv = c => f.req = r

\* bridge_task_id hashes the request and its conversation: ids never collide.
FreshTask(t, r, c) ==
    /\ ~Exists(t)
    /\ \A f \in reports : f.cand = t => f.req = r /\ f.conv = c

\* The MCP calls of a chat reach the server before the browser's report of it:
\* ensure_call_identity creates a task that has a scope and no conversation row.
McpTask(t, c) ==
    /\ McpFirst
    /\ FreshTask(t, None, None)
    /\ \A u \in Tasks : task[u].scope # c
    /\ MayInsertTask(t, c) /\ MayScope(t, c)
    /\ task' = [task EXCEPT ![t].status = "running", ![t].scope = c]
    /\ UNCHANGED <<req, job, archive, immediate, seen, reports, lagging>>

\* bridge_started, up to the transaction: the row and the task of the scope are
\* read from the pool.
ReadStarted(r, c) ==
    /\ req[r].status # "absent"
    /\ Cardinality(reports) < MaxReports
    /\ req[r].task = None => FreshChat(r, c)
    /\ \E t \in Tasks :
        /\ \/ req[r].task = t
           \/ req[r].task = None /\ task[t].scope = c /\ ~task[t].recorder
           \/ /\ req[r].task = None
              /\ \A u \in Tasks : task[u].scope = c => task[u].recorder
              /\ FreshTask(t, r, c)
        /\ reports' = reports \cup {[req |-> r, conv |-> c, cand |-> t]}
    /\ UNCHANGED <<task, req, job, archive, immediate, seen, lagging>>

\* persist_bridge_started_binding: the first writer of the request's task wins,
\* and a stop that arrived first is kept.
PersistStarted(f) ==
    LET r == f.req
        c == f.conv
        t == IF req[r].task = None THEN f.cand ELSE req[r].task
    IN  /\ guard_callback(r, c)
        /\ guard_conversation_binding(t, c)
        /\ MayInsertTask(t, c) /\ MayScope(t, c) /\ MayBind(t, c)
        /\ req' = [req EXCEPT ![r].task = t, ![r].conv = c,
                      ![r].status = IF @ = "stop_requested" THEN @ ELSE "running"]
        /\ task' = [task EXCEPT ![t].status = "running", ![t].scope = c,
                                ![t].conv = c, ![t].active = r]
        /\ reports' = reports \ {f}
        /\ UNCHANGED <<job, archive, immediate, seen, lagging>>

\* A call that is refused, or whose process dies before the commit.
DropStarted(f) ==
    /\ reports' = reports \ {f}
    /\ UNCHANGED <<task, req, job, archive, immediate, seen, lagging>>

\* bridge_identity: the durable id of a bound request's conversation.
BridgeIdentity(r, c) ==
    LET t == req[r].task IN
    /\ t # None
    /\ c \notin Provisional
    /\ guard_callback(r, c)
    /\ guard_conversation_binding(t, c)
    /\ MayScope(t, c) /\ MayBind(t, c)
    /\ req' = [req EXCEPT ![r].conv = c]
    /\ task' = [task EXCEPT ![t].scope = c, ![t].conv = c]
    /\ UNCHANGED <<job, archive, immediate, seen, reports, lagging>>

\* continue_message, with guard_send in its transaction.
ContinueMessage(t, r) ==
    /\ req[r].status = "absent"
    /\ task[t].conv # None
    /\ ~Compacting(t) /\ ~Busy(t)
    /\ MayInsertRequest(t, task[t].conv)
    /\ req' = [req EXCEPT ![r] = NewRequest("queued", t, task[t].conv)]
    /\ task' = [task EXCEPT ![t].active = r, ![t].status = "running"]
    /\ UNCHANGED <<job, archive, immediate, seen, reports, lagging>>

\* enroll: a user turn typed in ChatGPT itself.  An already captured turn
\* returns its request; a new one supersedes the active request of its task.
Enroll(t, r, c) ==
    LET bound == IF \E u \in Tasks : task[u].conv = c
                 THEN {u \in Tasks : task[u].conv = c}
                 ELSE {u \in Tasks : task[u].scope = c}
        old   == task[t].active
    IN  /\ req[r].status = "absent"
        /\ guard_native(c)
        /\ IF bound # {} THEN t \in bound
           ELSE FreshTask(t, r, c) /\ MayInsertTask(t, c) /\ ~ArchivedScope(c)
        /\ MayInsertRequest(t, c)
        /\ req' = [q \in RequestIds |->
                      IF q = r THEN NewRequest("running", t, c)
                      ELSE IF q = old /\ req[q].status \in Working
                           THEN [req[q] EXCEPT !.status = "stopped"]
                           ELSE req[q]]
        /\ task' = [task EXCEPT ![t] =
                      IF bound = {}
                      THEN [status |-> "running", scope |-> c, conv |-> c,
                            active |-> r, recorder |-> TRUE]
                      ELSE [task[t] EXCEPT
                               !.conv = IF task[t].conv = None THEN c ELSE task[t].conv,
                               !.active = r,
                               !.status = IF task[t].status = "stopped" THEN "stopped"
                                          ELSE "running"]]
        /\ UNCHANGED <<job, archive, immediate, seen, reports, lagging>>

----------------------------------------------------------------------------
\* How a request ends (api/chatgpt_result.rs, chatgpt_completion.rs, chatgpt_support.rs)

\* The MCP client reports the turn as completed in the timeline (external here).
FinalReported(r) ==
    /\ req[r].task # None
    /\ ~req[r].final
    /\ req' = [req EXCEPT ![r].final = TRUE]
    /\ UNCHANGED <<task, job, archive, immediate, seen, reports, lagging>>

\* The conversation row after r ended: its pointer is cleared if it names r.
Released(t, r, c) ==
    IF task[t].active # r THEN task[t]
    ELSE [task[t] EXCEPT !.active = None, !.conv = IF c = None THEN @ ELSE c]

\* bridge_result of a bound request; a provisional id is not recorded.
BridgeResult(r, c, status) ==
    LET t   == req[r].task
        new == IF c \in Provisional THEN None ELSE c
        row == Released(t, r, new)
        as  == [completed |-> "completed", stopped |-> "interrupted", failed |-> "failed"]
    IN  /\ t # None
        /\ guard_callback(r, c)
        /\ guard_conversation_binding(t, new)
        /\ new # None /\ task[t].active = r => MayBind(t, new)
        /\ req' = [req EXCEPT ![r].status = status,
                              ![r].conv = IF new = None THEN @ ELSE new]
        /\ task' = [task EXCEPT ![t] =
                      IF req[r].final \/ Others(t, r) \/ row.status = "stopped" THEN row
                      ELSE [row EXCEPT !.status = as[status]]]
        /\ Later(<<"demoting", t>>)
        /\ UNCHANGED <<job, archive, immediate, seen, reports>>

\* bridge_result of a request whose conversation never became known: the row is
\* read, and written by id in a later statement.
ReadUnbound(r) ==
    /\ req[r].status # "absent"
    /\ req[r].task = None
    /\ guard_callback(r, None)
    /\ Later(<<"failing", r>>)
    /\ UNCHANGED <<task, req, job, archive, immediate, seen, reports>>

FailUnbound(r) ==
    /\ <<"failing", r>> \in lagging
    /\ req' = IF req[r].obsolete /\ req[r].task # None THEN req
              ELSE [req EXCEPT ![r].status = "failed"]
    /\ lagging' = lagging \ {<<"failing", r>>}
    /\ UNCHANGED <<task, job, archive, immediate, seen, reports>>

\* persist_browser_completion: the answer read from the browser bubble.
BrowserCompleted(r, c) ==
    LET t   == req[r].task
        row == Released(t, r, c)
    IN  /\ t # None
        /\ guard_callback(r, c)
        /\ req[r].status \notin {"stop_requested", "stopped", "failed"}
        /\ guard_conversation_binding(t, c)
        /\ c # None /\ task[t].active = r => MayBind(t, c)
        /\ req' = [req EXCEPT ![r].status = "completed", ![r].final = TRUE,
                              ![r].conv = IF c = None THEN @ ELSE c]
        /\ task' = [task EXCEPT ![t] =
                      IF Others(t, r) \/ row.status = "stopped" THEN row
                      ELSE [row EXCEPT !.status = "completed"]]
        /\ Later(<<"demoting", t>>)
        /\ UNCHANGED <<job, archive, immediate, seen, reports>>

\* request_json completes a request whose turn is already final, ...
SettleFinal(r) ==
    /\ req[r].task # None
    /\ req[r].final
    /\ req[r].status \in Working
    /\ req' = [req EXCEPT ![r].status = "completed"]
    /\ Later(<<"closing", r>>)
    /\ UNCHANGED <<task, job, archive, immediate, seen, reports>>

\* ... and clears the active pointer in a second statement.
ClearActive(r) ==
    /\ <<"closing", r>> \in lagging
    /\ task' = [t \in Tasks |-> IF t = req[r].task /\ task[t].active = r
                                THEN [task[t] EXCEPT !.active = None] ELSE task[t]]
    /\ lagging' = (lagging \ {<<"closing", r>>}) \cup {<<"demoting", req[r].task>>}
    /\ UNCHANGED <<req, job, archive, immediate, seen, reports>>

\* Mutant: a task without an active request is not turned away.
MutReadStop(t) ==
    /\ Exists(t)
    /\ Later(<<"stopping", task[t].active>>)
    /\ UNCHANGED <<task, req, job, archive, immediate, seen, reports>>

\* stop_message reads the active request and flags it in a second statement.
ReadStop(t) ==
    /\ task[t].active # None
    /\ req[task[t].active].status \in Working
    /\ Later(<<"stopping", task[t].active>>)
    /\ UNCHANGED <<task, req, job, archive, immediate, seen, reports>>

StopMessage(r) ==
    /\ <<"stopping", r>> \in lagging
    /\ req' = IF req[r].status \in {"queued", "running"}
              THEN [req EXCEPT ![r].status = "stop_requested"] ELSE req
    /\ lagging' = lagging \ {<<"stopping", r>>}
    /\ UNCHANGED <<task, job, archive, immediate, seen, reports>>

\* The process dies: calls between two statements are lost, rows survive.
Crash ==
    /\ reports # {} \/ lagging # {}
    /\ reports' = {}
    /\ lagging' = {}
    /\ UNCHANGED <<task, req, job, archive, immediate, seen>>
----------------------------------------------------------------------------
\* The user-message queue, as far as compact pauses it (chatgpt_queue.rs)

\* immediate_allowed: an active request of a running task.
ReadImmediateAllowed(t) ==
    /\ task[t].status = "running"
    /\ task[t].active # None
    /\ req[task[t].active].status \in Working
    /\ Later(<<"asking", t>>)
    /\ UNCHANGED <<task, req, job, archive, immediate, seen, reports>>

\* Mutant: the trigger compact_queue_insert is missing.
MutQueueImmediate(t) ==
    /\ <<"asking", t>> \in lagging
    /\ immediate' = immediate \cup {t}
    /\ lagging' = lagging \ {<<"asking", t>>}
    /\ UNCHANGED <<task, req, job, archive, seen, reports>>

\* The insert, which compact_queue_insert turns into a queued row while compacting.
QueueImmediate(t) ==
    /\ <<"asking", t>> \in lagging
    /\ immediate' = IF Compacting(t) THEN immediate ELSE immediate \cup {t}
    /\ lagging' = lagging \ {<<"asking", t>>}
    /\ UNCHANGED <<task, req, job, archive, seen, reports>>

\* claim_immediate: the next MCP result of the task carries the messages.
ClaimImmediate(t) ==
    /\ t \in immediate
    /\ immediate' = immediate \ {t}
    /\ UNCHANGED <<task, req, job, archive, seen, reports, lagging>>

\* demote_all_immediate, a statement of its own after the request ended.
DemoteImmediate(t) ==
    /\ <<"demoting", t>> \in lagging
    /\ immediate' = immediate \ {t}
    /\ lagging' = lagging \ {<<"demoting", t>>}
    /\ UNCHANGED <<task, req, job, archive, seen, reports>>

----------------------------------------------------------------------------
\* Compact jobs (crates/chatcmd-storage/src/compact)

\* Mutant: the active job of the task is not looked for.
MutCompactStart(t, j, continue) ==
    /\ job[j].phase = "absent"
    /\ task[t].conv \in Convs \ Provisional
    /\ job' = [job EXCEPT ![j] =
                  [phase |-> "preparing", task |-> t, rev |-> 0,
                   old |-> task[t].conv, oldScope |-> task[t].scope, new |-> None,
                   handoff |-> None, continue |-> continue]]
    /\ UNCHANGED <<task, req, archive, immediate, seen, reports, lagging>>

\* compact_start_with_continuation.  A start operation already used returns its
\* job and a task with an active job returns that one: nothing changes.
CompactStart(t, j, continue) ==
    /\ job[j].phase = "absent"
    /\ ~Compacting(t)
    /\ task[t].conv \in Convs \ Provisional
    /\ job' = [job EXCEPT ![j] =
                  [phase |-> "preparing", task |-> t, rev |-> 0,
                   old |-> task[t].conv, oldScope |-> task[t].scope, new |-> None,
                   handoff |-> None, continue |-> continue]]
    /\ req' = [r \in RequestIds |->
                  IF req[r].task = t /\ req[r].status \in {"queued", "running"}
                  THEN [req[r] EXCEPT !.status = "stop_requested"] ELSE req[r]]
    /\ immediate' = immediate \ {t}
    /\ UNCHANGED <<task, archive, seen, reports, lagging>>

\* The extension reads the job (compact_pending, compact_job); what it posts
\* later, once or repeatedly, expects the revision it has read.
ReadJob(j) ==
    /\ job[j].phase # "absent"
    /\ seen' = [seen EXCEPT ![j] = job[j].rev]
    /\ UNCHANGED <<task, req, job, archive, immediate, reports, lagging>>

\* Mutant: only a binding of the task itself is looked at.
MutEnsureDestination(j, c) == c # job[j].old /\ ~ArchivedConv(c)

\* ensure_destination: not owned, archived or reserved by anybody else.
ensure_destination(j, c) ==
    /\ \A t \in Tasks \ {job[j].task} : c \notin {task[t].conv, task[t].scope}
    /\ ~ArchivedConv(c)
    /\ \A k \in Jobs \ {j} : Active(k) => job[k].new # c

\* Mutant: the handoff may be replaced after the new chat was opened with it.
MutMayCheckpoint(j, phase, handoff, dest) ==
    LET to == IF dest = None THEN job[j].new ELSE dest IN
    /\ rank[phase] >= rank[job[j].phase]
    /\ phase \in {"opening_new_chat", "completed"} => job[j].handoff # None
    /\ phase = "completed" => job[j].phase = "opening_new_chat"
    /\ to = None => phase # "completed"
    /\ to # None => /\ to \notin Provisional /\ to # job[j].old
                    /\ job[j].new \in {None, to}
                    /\ ensure_destination(j, to)

\* The checks of compact_checkpoint on a job that is not terminal.
MayCheckpoint(j, phase, handoff, dest) ==
    LET to == IF dest = None THEN job[j].new ELSE dest IN
    /\ rank[phase] >= rank[job[j].phase]
    /\ phase \in {"opening_new_chat", "completed"} => job[j].handoff # None
    /\ phase = "completed" => job[j].phase = "opening_new_chat"
    /\ handoff # None /\ rank[job[j].phase] >= rank["opening_new_chat"] =>
           handoff = job[j].handoff
    /\ to = None => phase # "completed"
    /\ to # None =>
        /\ to \notin Provisional
        /\ to # job[j].old
        /\ job[j].new \in {None, to}
        /\ phase # "cancelled" => ensure_destination(j, to)
    /\ phase # "cancelled" =>
        /\ task[job[j].task].conv = job[j].old
        /\ task[job[j].task].scope = job[j].oldScope

Advanced(j, phase, handoff, dest) ==
    [job EXCEPT ![j].phase = phase,
                ![j].rev = @ + 1,
                ![j].handoff = IF handoff = None THEN @ ELSE handoff,
                ![j].new = IF dest = None THEN @ ELSE dest]

\* Mutant: the scope of the task is moved and its conversation row forgotten.
MutComplete(j, to) ==
    LET t == job[j].task IN
    /\ ~ArchivedScope(to)
    /\ archive' = archive \cup {[conv |-> job[j].old, prev |-> job[j].oldScope, job |-> j]}
    /\ req' = [r \in RequestIds |->
                  IF req[r].task # t THEN req[r] ELSE [req[r] EXCEPT !.obsolete = TRUE]]
    /\ task' = [task EXCEPT ![t].scope = to, ![t].active = None]

\* complete: archive the source, retire its requests and move the task.
complete(j, to) ==
    LET t == job[j].task IN
    /\ ~ArchivedScope(to) /\ \A a \in archive : a.conv # job[j].old
    /\ job[j].oldScope # to
    /\ archive' = archive \cup {[conv |-> job[j].old, prev |-> job[j].oldScope, job |-> j]}
    /\ req' = [r \in RequestIds |->
                  IF req[r].task # t THEN req[r]
                  ELSE [req[r] EXCEPT !.obsolete = TRUE,
                           !.status = IF @ \in Working THEN "stopped" ELSE @]]
    /\ task' = [task EXCEPT ![t] =
                  [task[t] EXCEPT !.conv = to, !.scope = to, !.active = None,
                      !.status = IF task[t].status = "running" THEN "interrupted"
                                 ELSE task[t].status]]

\* Mutant: the expected revision is not compared.
MutCompactCheckpoint(j, rev, phase, handoff, dest) ==
    /\ job[j].rev < MaxRev
    /\ job[j].phase \notin Terminal
    /\ MayCheckpoint(j, phase, handoff, dest)
    /\ job' = Advanced(j, phase, handoff, dest)
    /\ IF phase = "completed"
       THEN complete(j, IF dest = None THEN job[j].new ELSE dest)
       ELSE UNCHANGED <<task, req, archive>>

\* compact_checkpoint against expected revision rev; a terminal job takes only
\* an update of its detail, which moves nothing but the revision.
compact_checkpoint(j, rev, phase, handoff, dest) ==
    /\ job[j].rev = rev
    /\ rev < MaxRev
    /\ IF job[j].phase \in Terminal
       THEN /\ phase = job[j].phase /\ handoff = None /\ dest = None
            /\ job' = [job EXCEPT ![j].rev = @ + 1]
            /\ UNCHANGED <<task, req, archive>>
       ELSE /\ MayCheckpoint(j, phase, handoff, dest)
            /\ job' = Advanced(j, phase, handoff, dest)
            /\ IF phase = "completed"
               THEN complete(j, IF dest = None THEN job[j].new ELSE dest)
               ELSE UNCHANGED <<task, req, archive>>

\* A checkpoint of the extension, against the revision it has read.
Checkpoint(j, phase, handoff, dest) ==
    /\ job[j].phase # "absent"
    /\ compact_checkpoint(j, seen[j], phase, handoff, dest)
    /\ UNCHANGED <<immediate, seen, reports, lagging>>

\* settle_replacement_compact_if_ready: the first real user turn in the reserved
\* destination completes the job, reading its revision again if it moved.
SettleReplacement(j) ==
    /\ job[j].phase = "opening_new_chat"
    /\ job[j].new # None
    /\ compact_checkpoint(j, job[j].rev, "completed", None, job[j].new)
    /\ UNCHANGED <<immediate, seen, reports, lagging>>

\* Mutant: messages of the task since the completion are not looked for.
MutResumeCompact(j) ==
    LET t == job[j].task
        r == ContinueId(j)
    IN  /\ job[j].phase = "completed" /\ job[j].continue
        /\ req[r].status = "absent"
        /\ ~Busy(t) /\ MayInsertRequest(t, job[j].new)
        /\ req' = [req EXCEPT ![r] = NewRequest("queued", t, job[j].new)]
        /\ task' = [task EXCEPT ![t].active = r, ![t].status = "running"]
        /\ UNCHANGED <<job, archive, immediate, seen, reports, lagging>>

\* resume_compact: one continuation, which a real user message pre-empts.
ResumeCompact(j) ==
    LET t == job[j].task
        r == ContinueId(j)
    IN  /\ job[j].phase = "completed"
        /\ job[j].continue
        /\ task[t].conv = job[j].new
        /\ ~Compacting(t)
        /\ req[r].status = "absent"
        /\ ~Busy(t)
        /\ \A q \in RequestIds : req[q].task = t => j \notin req[q].after
        /\ MayInsertRequest(t, job[j].new)
        /\ req' = [req EXCEPT ![r] = NewRequest("queued", t, job[j].new)]
        /\ task' = [task EXCEPT ![t].active = r, ![t].status = "running"]
        /\ UNCHANGED <<job, archive, immediate, seen, reports, lagging>>

----------------------------------------------------------------------------
BrowserNext ==
    \/ \E r \in Requests :
        \/ CreateRequest(r) \/ ReadUnbound(r)
        \/ \E t \in Tasks : ContinueMessage(t, r)
        \/ \E t \in Tasks, c \in Convs \ Provisional : Enroll(t, r, c)
    \/ \E r \in RequestIds :
        \/ FinalReported(r) \/ FailUnbound(r) \/ SettleFinal(r) \/ ClearActive(r)
        \/ StopMessage(r)
        \/ \E c \in Convs : ReadStarted(r, c) \/ BridgeIdentity(r, c)
        \/ \E c \in Opt(Convs) :
            \/ BrowserCompleted(r, c)
            \/ \E status \in Outcomes : BridgeResult(r, c, status)
    \/ \E f \in reports : PersistStarted(f) \/ DropStarted(f)
    \/ \E t \in Tasks : ReadStop(t) \/ \E c \in Convs \ Provisional : McpTask(t, c)

QueueNext ==
    \E t \in Tasks : \/ ReadImmediateAllowed(t) \/ QueueImmediate(t)
                     \/ ClaimImmediate(t) \/ DemoteImmediate(t)

CompactNext ==
    \/ \E j \in Jobs :
        \/ \E t \in Tasks, continue \in BOOLEAN : CompactStart(t, j, continue)
        \/ SettleReplacement(j)
        \/ ResumeCompact(j)
        \/ ReadJob(j)
        \/ \E phase \in Phases, handoff \in Opt(Handoffs), dest \in Opt(Convs) :
              Checkpoint(j, phase, handoff, dest)

Next == BrowserNext \/ QueueNext \/ CompactNext \/ Crash

Spec == Init /\ [][Next]_vars
----------------------------------------------------------------------------
\* Properties

\* A conversation belongs to at most one task, and one that compact has archived
\* belongs to none ever after: whatever a late callback, a native capture or a
\* second compact job does, nobody is bound to it.
SingleOwner ==
    \A t \in Tasks : task[t].conv # None =>
        /\ ~ArchivedConv(task[t].conv)
        /\ \A u \in Tasks \ {t} : task[u].conv # task[t].conv

\* No task answers to the scope of an archived conversation either, except for an
\* unbound one that an MCP call created under the durable id of a conversation the
\* archived task answered for under its provisional id.
ScopeRetired ==
    \A t \in Tasks, a \in archive :
        task[t].scope # None /\ task[t].scope \in {a.conv, a.prev} =>
            task[t].scope = a.conv /\ a.prev \in Provisional /\ task[t].conv = None

\* From the start of a job to its end the binding of its task is the one the job
\* recorded, so that the check "source task binding changed" never fires.
SourceHeld ==
    \A j \in Jobs : Active(j) =>
        /\ task[job[j].task].conv = job[j].old
        /\ task[job[j].task].scope = job[j].oldScope

\* While a task is compacted nothing dispatches for it, whatever callbacks, calls and
\* queued messages were under way when its job started: no message of it is immediate,
\* no request of it is queued or running and none becomes so.  The one way in is a
\* bridge_started that read its request before it had a task, found the task an MCP
\* call had created, and commits only now: guard_callback asks after the job of the
\* task the request has, and this one has none yet.
Dispatches(r, t) == req[r].task = t /\ req[r].status \in {"queued", "running"}
Paused ==
    [][\A t \in Tasks : Compacting(t)' =>
          /\ t \notin immediate'
          /\ \A r \in RequestIds : Dispatches(r, t)' =>
                \/ Compacting(t) /\ Dispatches(r, t)
                \/ /\ req[r].task = None
                   /\ \E f \in reports \ reports' : f.req = r /\ f.cand = t]_vars

\* A request retired by a completed compact never works again and is never the
\* active request of a conversation.
RetiredStaysRetired ==
    \A r \in RequestIds : req[r].obsolete =>
        /\ req[r].status \notin Working
        /\ \A t \in Tasks : task[t].active # r

\* What a completed job attached is still attached, unless a later completed job
\* of the same task archived it.
Attached ==
    \A j \in Completed :
        \/ task[job[j].task].conv = job[j].new
        \/ \E k \in Completed : job[k].task = job[j].task /\ job[k].old = job[j].new

\* A durable binding is moved only by the step that completes a compact job of
\* that very task from that very conversation.
MovedByCompletion ==
    [][\A t \in Tasks : task[t].conv \in Convs \ Provisional /\ task'[t].conv # task[t].conv =>
          \E j \in Jobs : /\ job[j].phase = "opening_new_chat"
                          /\ job'[j].phase = "completed"
                          /\ job[j].task = t
                          /\ job[j].old = task[t].conv
                          /\ job'[j].new = task'[t].conv]_vars

\* A checkpoint decided on an outdated reading of the job is refused: apart from
\* the completion by the replacement conversation itself, a job only moves under
\* a writer that has seen its current revision.
NoBlindCheckpoint ==
    [][\A j \in Jobs :
          /\ job[j].phase # "absent" /\ job'[j] # job[j]
          /\ job'[j].phase # "completed" \/ job[j].phase = "completed"
          => seen[j] = job[j].rev]_vars

\* A job's destination is reserved once and for all, and the handoff is frozen
\* from the moment the new chat is opened with it.
HandoffFrozen ==
    [][\A j \in Jobs :
          /\ job[j].new # None => job'[j].new = job[j].new
          /\ job[j].phase \in {"opening_new_chat"} \cup Terminal =>
                job'[j].handoff = job[j].handoff
          /\ job[j].phase \in Terminal => job'[j].phase = job[j].phase]_vars

\* Checkpoints are neither blind nor rewrite what was handed over.
CheckpointsSound == NoBlindCheckpoint /\ HandoffFrozen

\* A task is where its jobs say it is: at the source while a job runs, at the
\* destination after it, and none that has a conversation is under an archived scope.
BindingHeld == SourceHeld /\ Attached /\ ScopeRetired

\* The continuation is sent only when asked for, and only by the side that is
\* first: never after a message of the task that is newer than the completion.
ContinueNotOvertaking ==
    [][\A j \in Jobs :
          req[ContinueId(j)].status = "absent" /\ req'[ContinueId(j)].status # "absent" =>
              /\ job[j].continue
              /\ req'[ContinueId(j)].conv = job[j].new
              /\ \A r \in RequestIds :
                    req[r].task = job[j].task =>
                        j \notin req[r].after /\ req[r].status \notin Working]_vars

\* The abstract specification the binding implements: a task's conversation is
\* the one of its chatgpt_conversations row, retired are the archived ones.
Binding == INSTANCE ConversationBinding WITH
               bound   <- [t \in Tasks |-> task[t].conv],
               retired <- {a.conv : a \in archive}

\* Every behaviour of the tables, seen through that mapping, only ever binds,
\* names or moves a task the way ConversationBinding allows.
RefinesBinding == Binding!Spec
=============================================================================
