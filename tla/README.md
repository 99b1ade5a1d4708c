# A TLA+ development of ChatCmd

ChatCmd executes tools (files, commands, git, shells) on a user's machine for ChatGPT
conversations. A Rust server speaks MCP to the model, keeps tasks, sessions, approvals,
delegations and a timeline in SQLite, and drives the ChatGPT page through a browser extension
that polls a small HTTP bridge. The rows of those tables are changed by many parties that do not
know of each other: the extension, the capture of native chats, MCP calls of several workers, the
user's interface, two watchdogs, the clock, and a process that may die between two statements.
The files of the workspace are shared with programs ChatCmd does not know at all. That is what is
modelled here: the protocols whose steps interleave, and the bookkeeping (cursors, budgets,
journals, leases) that has to survive them. Pure I/O, parsing and layout are left out.

Paths below are relative to the repository.

## 1. Inventory

| Component | State | Operations | Hard parts | What makes it correct | Modules |
| --- | --- | --- | --- | --- | --- |
| Compact & resume (`src/api/chatgpt_compact*.rs`, `crates/chatcmd-storage/src/compact/`) | `chatgpt_compact_jobs`, archives, retired requests | start, claim, checkpoint, destination, completion, cancel, retry, continue | callbacks of the browser late, repeated and out of order; compare-and-set on a revision; crash between checkpoints | one conversation per task, source kept until completion, retired work stays retired, nothing dispatched meanwhile | `CompactResume`, `ConversationBinding` |
| ChatGPT bridge (`src/api/chatgpt*.rs`) | `chatgpt_bridge_requests`, `chatgpt_conversations` | create, claim, started, result, completion, stop, capture | the same callbacks; provisional conversation ids; late snapshots | a request acts on the task's own conversation; an answer is stored for its own request | `CompactResume`, `TurnCapture` (partly) |
| Message queue (`src/chatgpt_queue.rs`, `src/api/chatgpt_queue.rs`, `queued_messages.rs`) | `chatgpt_message_queue` | enqueue, order, edit, delete, claim, demote | the mode is asked for before the row is written | every message is delivered once or still listed | `MessageQueue` |
| Task identity of a call (`src/runtime_host/identity*.rs`) | `tasks`, `task_sessions`, MCP scope bindings | resolve, adopt, upsert | the row is read, awaited upon and written back whole | a stop holds; the conversation stays the live one; only approved tasks run | `CallAdmission` (delegated identities partly) |
| Compact barrier (`src/runtime_host/compact.rs`, `activity_control.rs`) | running activities, in memory | track, admit, settle | a call between its check and its dispatch | no tool runs once the handoff is written | `CallAdmission` |
| Sub-agent runs (`src/runtime_host/subagents/`, `subagent_*.rs`, `src/api/subagent*.rs`) | `subagent_runs`, registration gate | register, dispatch, claim, heartbeat, finish, expire, recover, cascade | leases against late signs of life, attempts against late results, restarts, a global limit | limit, one end, one worker, no early timeout, every run ends | `SubagentRuns` |
| Execution approval and grants (`src/runtime_host/approval/`, `src/api/task_controls.rs`, `task_execution_mode.rs`) | `approvals`, `approval_grants`, `task_execution_modes` | authorize, decide, grant, reserve, revoke, expire | a deadline against a decision; budgets drawn on by several calls and children; revocation against inheritance | resolved once, used once, budget of the whole tree, revocation cascades | `ExecutionApproval` |
| Turn lifecycle and finalization (`agent_lifecycle.rs`, `completion_report.rs`, `finalization_watchdog.rs`, `turn_file_changes.rs`) | task rows, final events, reports, tracked changes | message, tool, progress, complete, watch, reconcile | completion against open tools and children; the watchdog's several reads; evidence that has become stale | nothing underway in a finalized turn, a passed report is fresh, every change is listed | `TurnLifecycle`, `TurnFileChanges`, `CompletionReport` |
| Plan prompts (`plan_prompt*.rs`, `src/api/plan_questions.rs`) | `plan_questions`, waiters | ask, answer, cancel, time out | answer against timeout, disconnect and restart | one terminal transition, and the agent hears that one | `PlanPrompt` |
| Filesystem mutations (`filesystem_mutations.rs`, `filesystem_atomic_writer.rs`, journal) | trees, journal files and rows | write, copy, move, delete, restore, collect, recover | crash between two renames, or between a rename and its journal entry; another request on the same path | a reader sees whole trees, nothing orphaned, a source goes only when its copy is in place | `FileMutations`, `TreeTransfer` |
| Batches of edits (`filesystem_apply_edits.rs`, `file_version.rs`) | one file | apply, replace text | version checks before a rename; byte and line coordinates | the result is that of the edits on the text that was read | `TextEdits`, `FileEdits` |
| Filesystem queries (`filesystem_list.rs`, `filesystem_search.rs`, `filesystem_read.rs`) | listing states, cursors | page, continue, cancel | several budgets cut a page; callers compete for a cursor; changes in between | the pages together are what was there, once | `ListPages`, `SearchPages`, `TextReads` |
| Repository index (`filesystem_repository_index.rs`, `src/runtime_host.rs`, `workspace_index.rs`) | generations, freshness, snapshot row | rebuild, mark, export, query, reconcile | events during a crawl; readers during a rebuild | fresh means nothing missed; a query reads one generation; it becomes fresh again | `WorkspaceIndex` |
| Blobs, quotas and budgets (`blob_store.rs`, `artifact_quota.rs`) | entries, metadata and data files, reserved bytes | begin, append, seal, lease, read, expire, recover | concurrent reservations, failed writes, crashes | acknowledged bytes survive, used once, quota kept | `BlobStore`, `ProcessRuns` |
| Command executions (`command_runner.rs`, `command_execution_*.rs`, `process_runner.rs`) | registry, journal, artifacts | claim, wait, run, record, evict, reload | repeated requests against a running, finished or lost execution | run once per request, nobody gets another's result, output paid for | `CommandExecutions`, `ProcessRuns` |
| Interactive shells (`shell/`, `terminal_lifecycle.rs`) | sessions, replay, rows | create, write, read, close, retire, bridge | exit against close; trimmed replay; a restart | output without gaps, one final row status | `ShellSessions` |
| Git (`git_service/`) | index, HEAD | preview, recheck, stage, commit, verify, restore | other users of the repository between two git commands | what is committed is what was previewed | `GitCommits` |
| Updater (`src/updater/`) | phase, files of the program and extension | check, download, prepare, restart, install | a failure or loss of power between two lines of a script | one whole version after the next start | `Updater` |
| Browser extension (`chatgpt-extension/`) | tab bindings, recorders | start, heartbeat, close; observe, adopt, relay | the worker is stopped between two awaits; stopped and superseded recorders | a prompt is at work in one tab; an answer goes to its own request | `SubagentTabs`, `TurnCapture` (rest: environment) |
| Storage core, persistence of calls, agents and settings, MCP server | rows | bootstrap, order of a call's writes, revocation of an agent | what a restart finds | as part of the modules above | partly |
| Project context and skills, local authentication, tunnels, live events, desktop shell, web interface | files, cookies, processes, views | | no protocol of several steps | | not modelled |

`PROJECT.json` lists every component with its files and what of it is modelled, and every
hazard of the code with the line where it bites and the properties about it.

How they interact. An MCP call passes the compact barrier, resolves its task (identity), is
authorized (approval), and runs one of the services; its answer takes along what the user queued.
A delegation registers a run whose child task makes calls of its own; its claim reserves part of a
parent's grant, and the extension opens a tab for it. The end of a turn asks for open tools and
children, for the evidence of its commands and for the files they changed. The user's stop goes
through tasks, runs, approvals, grants and modes, one statement each. A compact moves a task to
another conversation while all this goes on. All of it meets in SQLite: a statement is atomic, a
handler is not, unless it opens a transaction.

## 2. Conventions

- A SQL statement outside a transaction, and a transaction, are one action each. Whatever a
  handler read before is kept in a variable, so that anything may happen in between. The same
  holds for every await of a content script, every file operation and every git command.
- An error that rolls back, an index or a trigger that refuses, and an early return without effect
  are a disabled action or a stutter.
- Ids are model values; JSON payloads, texts and times appear as far as a guard asks for them: a
  deadline is a flag that may be set at any moment while it is pending. Bytes, lines, matches and
  output are counted in units.
- A process that dies loses its in-flight variables and keeps its rows and files; `Restart` also
  does what the bootstrap does to them.
- Where the code is known not to keep a property, the exception is a variable of its own
  (`slipped`, `cut`, `unread`, `moved`, `excused`, `disturbed`, `overtaken`, ...) that the property
  names, so that everything else is still checked; sections 4 and 6 list them. No run and no theorem
  leaves such a case out: the exception is in the formula, and the step that needs it is in the model.
- `Mut...` definitions are the mutants: plausible bugs that the property named in `PROJECT.json`
  must find.

## 3. Modules and their code

### Tasks, conversations, authority

**`CompactResume`** - `task`, `req`, `job`, `archive`, `immediate` are rows of the tables named in
the comments; `seen` is the revision the extension holds; `reports` and `lagging` are calls of the
bridge between their read and their write. One action per handler: the lifecycle of a request
(create, claim, started in two steps, result, browser completion, stop, native capture), and of a
job (start, claim, the checkpoints, reservation of the destination, send, completion, cancellation,
retry, continue). `openai_scope` is injective, so a scope is written as its conversation.

**`ConversationBinding`** - what compact promises, without browser and protocol: every task is
attached to at most one conversation, a conversation to at most one task, and a task moves only by
a completion, to a conversation nobody had. It may start with tasks bound already, as the program
does on its own database. `CompactResume` implements it with the mapping from tasks to
`task[t].conv` (property `RefinesBinding`, theorem `Refinement`).

**`CallAdmission`** - the calls of one task, each at one of its awaits: tracked, admitted,
resolved, row read, waiting for the approval of a new conversation, row written back, scope bound,
running. The user stops, continues, retries, approves and rejects; the compact worker starts,
hands off and completes. Conversations are numbered, a session is its generation.

**`SubagentRuns`** - one row per delegation, with the registration gate and its sweep, the
attempts of the browser dispatch, the claim, heartbeats, the two-step watchdog, both finalizers, the
stop cascade and restarts. A task row is whether it is live. **`RunCapacity`** adds the history of the
children that came back after their deadline when their slot was given away (`overtaken`).

**`ExecutionApproval`** - `authorize_execution` with its awaits; decisions, modes, the default
setting, revocation of a grant or an agent; registration, claim with the reservation of a budget,
heartbeat and the ends of a child; the stop, statement by statement. Budgets of files and bytes
follow the same guarded update as calls, so one counter stands for three. Whether tool, options and
paths match a grant is nondeterministic (`SkipGrant`, a claim that inherits nothing).

### Files

**`FileMutations`** - `fs` is the tree at every place: the paths of the requests, and the stage, backup
and quarantine of every operation. A worker stands between two steps of `transfer_safe`,
`delete_safe` or `write_reader`; every rename, every file copied or removed, and every write of the
journal (file, then row, either of which may fail) is a step. `Crash` loses the workers;
`Restart`, `Due`, `RecoverDelete`, `RecoverTransfer` and `Serve` are `recover_interrupted_mutations`,
operation by operation, which may itself fail or be cut off. Budgets, timeouts and cancellation
are failures of the step that checks them. **`MoveSources`** adds the history of the moves whose source or
destination another request changed when the code no longer looks at it (`disturbed`).

**`TreeTransfer`** - what ADR 0012 promises a reader: whole trees that appear in one step, in the
place of what was there, and sources that shrink only after that. `FileMutations` implements it
(`RefinesTransfer`) with `Visible(p)`: the tree at `p`, or its backup while a replacement has it out
of its place. It promises so for requests that keep `Apart`; of others the code promises a reader nothing
(section 4), and the mapping says nothing.

**`TextEdits`** - no state: how `fs_apply_edits` turns a request and the bytes of a file into ranges
or a refusal (by byte, by line and column, with BOM and line ends to be kept) and those into the
result. **`FileEdits`** - one file with other writers: the token of a version is captured in steps
(open, stat, read), and `apply_edits` resolves, streams, checks again and renames in steps;
`replace_text` reads and writes. A client whose call fails after the commit sends it again.

**`BlobStore`** - `entry` and `meta` are the store in memory and its metadata files, `file` the data.
An operation holds the mutex and is one action; a crash inside one leaves one of `CrashPoints`. Tools
hold leases over the mutex. **`ProcessRuns`** adds the shared quota of output files: reservation,
spawn, output into preview and file, exit, drain and every failure, and the scan of the next host.

**`ListPages`**, **`SearchPages`**, **`TextReads`** - the loops of the paged queries with all their
budgets, step by step, the state between two pages, and changes in between. Calls of `ListPages` also
compete for one cursor.

**`WorkspaceIndex`** - rebuilds are asked for, wait for the gate of the root and crawl entry by entry outside the lock; the watcher's marks, the export
and restore of the snapshot, the reconcile loop and paged queries run beside them.

**`GitCommits`** - every git command of a preview, of the recheck and of the commit is a step; others
edit, stage and commit; hooks change files; commands fail, time out or are cancelled.

**`Updater`** - the manager's three tasks, and the installers line by line, each of which may fail or
be the last.

### Turns and messages

**`TurnLifecycle`** - calls of one task between their awaits, the rows they leave, the stale rows that
`bind_project_folder` and the first title write back, the watchdog's reads, the agent's completion, the run of
the task when it is a child, and crashes with what the bootstrap does to the rows. A task starts with its first message,
or with nothing but the row that a refused call left.
**`TurnFileChanges`** - native records and watcher events of the turn's files until the list is sent. The
watcher takes its events one at a time, so that others come to the bounded channel in between, then
looks at the files, then records: three actions, in the order of `record_watcher_batch`.
**`CompletionReport`** - who answered with which execution, what was recorded of it, and the source
tree before, after and now.

**`PlanPrompt`** - the row of a question, the registry of waiting calls, the asker and the answerers.
**`MessageQueue`** - rows, requests of the user between their read and their write, the claim by a
tool's answer, the end of a turn.

**`CommandExecutions`** - claims, parked callers, the detached execution, records and their order of
eviction, the journal's files and their reload. **`ShellSessions`** - sessions, replay buffers, calls
between their steps, bridges, request ids and rows.

**`SubagentTabs`** - `childRun` at the server, `chrome.storage.session`, the worker's memory, and the
tabs; every await of the worker is a boundary. **`TurnCapture`** - the page's turns, the run of a
dispatched prompt, the recorder with its timer and retries, the monitor's native tick, the resume
after a reload, the relay and the rows of the host.

### Composition

`MC...` modules give the constants values; every `.cfg` is one question. The services and the loops
of the host share no table with each other in the code either, so `MCServices` and `MCHost` put one
of them in each behaviour (`part`), with the variables of the others off: TLC explores the sum of
their states and not the product. `MCCompactTasks` starts either on an empty database or on one in
which every task is bound already, and leaves to each start what the other does not cover
(`PairSteps`); `MCCompactResume` has one call lag at a time, of the kind that the task's origin allows (`LagSteps`).
`CommandExecutions` asks `ProcessRuns` for nothing but an outcome, `FileEdits` and
`TextReads` use the operators of `TextEdits`.

## 4. Runs

| Run | Shows |
| --- | --- |
| compact_continue | one task, two requests, one job, and a call between two of its statements: nothing dispatches during a compact but what a late `bridge_started` attaches, every checkpoint knows the job's revision, destination and handoff are frozen, the automatic continuation never overtakes the user |
| compact_two_tasks | two tasks and two jobs, at once or in a row, on a database that knows them or an empty one, with a provisional id and a `bridge_started` overtaken between its read and its transaction: one owner, the source is kept, nobody answers to an archived conversation, retired requests stay retired, only completions move a task; refinement of `ConversationBinding` |
| call_rows | two calls of every route, a compact, a stop, a retry: stale copies of the row bring back no archived conversation, session or generation; no tool the barrier can see runs during the handoff |
| call_approval | a new conversation runs only after its approval, with the 60 second deadline, and every call ends |
| call_stop (violation) | a call that read the row before a stop writes it back as running |
| runs_capacity | two delegations, one slot, sweep, watchdog, restart, signs of life before and after the deadline: the limit is exceeded only by children that came back when their slot was given away |
| runs_ends | one child, three attempts, two restarts, stops at both levels: one end, one worker, no timeout under a live lease, and an end in every case |
| approval_once | one request twice, every way to resolve it: resolved once, clears one call, and every admitted call ends though nobody answers |
| approval_tree | four reads of two tasks on two grants, one inherited: the budget bounds the tree, and a revocation reaches what was inherited |
| file_journal | nine pairs of requests: a move over a tree with its source hidden, erased or written, or its destination written or erased; a copy over a tree that is being copied; a restore and a write of a hidden path; a copy of what is erased; with failures, crashes, lost journal files: nothing orphaned, the source of a move that nobody disturbed is safe, and the pairs that keep apart refine `TreeTransfer` |
| services | sixteen services, one in each behaviour. `ServicesSafe`: executions, processes, shells, blobs, updates, tracked changes. `MessagesSafe`: questions, queue, tabs. `ContentsSafe`: edits, listings, searches, readings, commits, captured turns. `PassedIsFresh`: the evidence of a completion |
| host | the loops of the host: the index is fresh only for what it saw and becomes fresh again (`IndexSafe`); the watchdog finalizes only a quiet turn (`TurnsSafe`); no index is stale for ever and no task with an event running for ever (`HostProgresses`) |

The services' properties are conjunctions with one part per module; each part has its own comment
and mutants in its module. In the words of their modules: a sealed or leased blob is whole, is used
once and paid for (`BlobsSafe`); an edit does what its token's text asked for, once (`EditsSafe`);
a command is started once for every time its key was forgotten, its outcome stays, and nobody waits
for an execution that is gone (`ExecutionsSafe`); reservations return and files are covered
(`ProcessesSafe`); a replay numbers its events without a gap it does not tell, and a row settles
(`ShellsSafe`); the pages of a listing are together what was there (`ListsSafe`), those of a search the
matches of the lines that were searched, which leaves out the lines in `unread` (`SearchesSafe`), those of a reading
the text and, but for two cases of a lone CR (`CountRight`), its number of lines (`ReadsSafe`); a preview is of one moment and a commit of its preview
(`CommitsSafe`); an install or a roll-back leaves one version (`UpdatesSafe`); every changed file is
listed (`ChangesListed`); an answer is the one that is stored (`PromptsSafe`); a message is
delivered once or still queued (`MessagesKept`); a prompt's tab has its name (`TabsSafe`); a captured
answer is stored, for its own request, but for answers `cut` by a shorter result and turns `misread`
(`CaptureSafe`).

### Disagreements

The violation is a disagreement between the code and its documents; `PROJECT.json` quotes both
sides under `findings`. Further disagreements were met while the models were written. Their traces are
in the models; where a property would fail, its exception names them. No run repeats them.

Tasks and conversations:

- A call known by its turn or its MCP scope binding is not counted by `compact_settled`
  (`activity_control.rs:77` compares the context the call arrived with) and may run during the
  handoff; `BarrierDrained` therefore speaks of the calls that name their task or scope themselves.
- A `bridge_started` that read its unbound request before the compact began passes
  `guard_callback` (it joins on the request's own task) and attaches the request as running to the
  compacting task that an MCP call has created (`guards.rs:12`). It is the one exception of `Paused`, in its formula: the step
  that commits a report read before the request had a task.
- `BridgeResult` and `BrowserCompleted` record a durable conversation without moving the task's scope.
  An MCP call under the durable id may then create a second task, which keeps an archived
  conversation's scope after a compact (`compact_reserved_task_insert` reserves only the old scope
  and the new one). It is the exception of `ScopeRetired`: that task is attached to no conversation.
- Two first messages of a new conversation read no row; the second insert resets the user's answer
  (`identity.rs:206`).
- A message of an old, unbound chat with the text of one in the new chat is bound to the task.
- A late or repeated `bridge_started` has no status guard and sets an ended request back to running
  (`chatgpt.rs:288`); whether a chat is busy is asked before the insert (`chatgpt.rs:116`);
  stopping updates request and task in two statements (`chatgpt.rs:184`), and settling a request
  updates request, queue row and event one by one (`chatgpt_support.rs:37`).

Delegations and approval:

- A retried start writes the attempt it computed from an older row (`subagent_fallback.rs:142`, guard
  on the status alone): the attempt of a run may go back.
- A registration that checked its parent before a stop inserts after the cascade has selected the
  children: the child stays pending under a stopped parent (`subagents.rs:248`).
- A claim or a heartbeat after the deadline and before the watchdog brings back a child whose slot was
  given away. The limit is then exceeded by the children that came back (`overtaken` in `RunCapacity`), until
  the excess has ended; no registration adds to it.
- A change of the root's mode revokes the root's grants and what was inherited from them; a grant the
  user gave to a child itself stays active, where `docs/approval-grants.md` speaks of the descendants
  (`task_execution_mode.rs:102`).
- `docs/approval-grants.md:9` says "Terminal child transitions revoke any remaining active child
  grants"; `interrupt_active_child_subagents` and `mark_child_subagent_terminal` leave them active, and
  a task that was interrupted is still admitted (`identity.rs:171`).
- A stop cancels approvals, revokes grants and deletes the mode in separate statements
  (`task_controls.rs:431`), and a call acts on the mode it read before (`authorization.rs:21`).

Journaled file operations:

- `transfer_safe` looks again only at a destination its preflight saw (`filesystem_mutations.rs:585`).
  One that appears later is backed up, replaced and deleted, also with the policy `error`
  ("destination exists and conflictPolicy is error"); a test covers only the replaced destination.
- Recovery removes a backup when anything is at the destination (line 1159), also when the operation
  of the backup never published and another request put it there; ADR 0012 says "removed only after
  publish succeeds". With a first replacement that failed after its backup, a second request that
  published and a third replacement that failed after its backup, recovery in that order puts the
  oldest tree back and removes the published one. `RefinesTransfer` therefore speaks of requests that keep
  `Apart`; `Owned` and `SourceSafe` hold of all of them.
- What comes to the source of a move after its verification is removed with the source, and a source is
  removed though its published tree has been taken away or replaced: nothing is compared between `verify_trees`
  and `remove_tree_checked` (lines 627-666). Such moves are the `disturbed` ones, the exception of `SourceSafe`. Writes inside a tree
  are not requests of the model: its writes replace what is at a path.

Edits, queries, index:

- Between recheck and rename another writer's text is lost; `newVersion` is a stat after the commit;
  `replace_text` is read-modify-write without a version.
- **Search drops matches.** `filesystem_search.rs` ~518-532: with `contextAfter > 0`, when the line just
  read completes pending matches and the page is full, the loop breaks before the pattern runs on that
  line; its matches are lost on the next page (`unread`). `search_v2.rs:186` expects pages
  "without duplicates or gaps".
- **Wrong line count.** `filesystem_read.rs` 182-227: after a lone CR the next byte leaves
  `last_was_terminator` set, so a text that ends in CR and one more byte reports a line too few; the count of a page
  that stops before the end of the file leaves out the lines that a lone CR ends (line 664);
  `read_text_streaming.rs:246` expects exact metadata. `CountRight` names the two cases, and how far off the first is.
- A directory cursor keeps its id from page to page, so a continuation repeated after a lost reply
  skips a page; a continuation takes the state before it validates it, so a mismatch loses it;
  `max_stats = 0` with sizes, a match larger than the output budget, a line longer than
  `maxBytes`, and a read budget that ends before the first line never make progress; an indexed search that
  fell back to walking keeps its generation and its cursor is refused; an incomplete character at the
  end of a text is left out without an error.
- A stale mark that lands behind a crawl is overwritten by the rebuild's fresh insert (the exception
  of `IndexSafe`); without a watcher the log promises a periodic reconcile that skips a fresh index
  (`runtime_host.rs` ~258, ~288).

Commands, shells, blobs:

- A caller whose execution is rolled back or evicted between its claim and its subscription waits for
  ever; one whose key is forgotten while it waits may run the command again; a finished record whose
  write failed is `unknown` after a restart; a torn journal file keeps the service unavailable.
- **Another command's result.** The look after a subscription (`CommandExecutionRegistry::finished`) compares
  neither the digest nor the execution. A caller subscribes to the execution of a first one; that
  is rolled back because its running record cannot be written; a third caller claims the key with another command, which
  finishes; the second one's look then returns that result, where `claim` refuses a key with another digest. It takes
  three callers: the proof of `RightCommand` failed there, TLC found the trace with the digests d, d and e, and the
  property now excepts an execution that was forgotten or rolled back.
- A run whose child exits while a process it left keeps the pipe never ends (the contract says
  bounded); failed runs leave artifact files nobody counts until the next host scans.
- The request id of a shell call is documented as idempotency key (`docs/mcp_method.md:19`), but the
  cached answer is asked for before `begin_request`, so a retry may run twice; a write that fails
  its checkpoint after `write_all` is not cached; the session limit is check-then-insert; `retain` drops
  exited sessions unretired; a bridge may end and leave the row running; `closed` may be
  overwritten by `exited`; a read returns up to 2000 events and the append refuses more than 250.
- A failed partial append makes the seal fail until a restart truncates it; a lease whose
  persist fails leaves `Consuming` without a holder; a synchronization error after a commit frees
  the blob for a second use.

Turns and messages:

- `docs/ARCHITECTURE.md:82` says tasks do not stay running. One whose calls were all refused for want of a user message has
  a row and no timeline event, is passed over (`finalization_watchdog.rs:60-62`) and does: the exception of `HostProgresses`. A hundred such
  rows starve the watchdog (`LIMIT 100`); the model has one task. The wait for an approval is not an activity, and as
  long as the grace: the watchdog may finalize, and the approved call runs in a completed turn (the
  exception of `TurnsSafe`). A crash between the statements of `save_agent_event` leaves a completed
  task without its final event. Calls of an earlier turn are never reconciled. `agent_lifecycle.rs:14`
  looks for children before it stores the final event; `persistence.rs:504` finishes a child's run
  before its report is stored.
- A criterion whose only reference is blank is counted as covered (`completion_report.rs` against
  `docs/coding-agent-contract.md:133`); references beyond 64 are dropped.
- A repeated user message resets what was tracked; a file removed, made and removed again is not listed; events
  the system had not delivered when the watcher is dropped are lost uncounted (`excused`).
- An answer persisted just before the receiver's timer approves the row while the agent gets an error; a
  call dropped during its INSERT leaves the row pending until the next start.
- `create` and `update` of a message ask `immediate_allowed` before they write (`chatgpt_queue.rs:68`), so an immediate
  message of an ended turn goes to the next turn's first tool; claimed messages are deleted before
  the answer is delivered, and a failing claim fails a tool that has run.

Browser:

- `docs/CHATGPT_THINK.md` promises guarded replay and order, completed answers that stay, and
  mutations that are always sent. `retain_result` replaces a longer stored answer by the shorter
  reported one (`cut`), and a later longer snapshot of no higher revision is refused though answered
  "accepted"; a final result whose post fails is reported again as failed; a reload before `started`
  leaves a dispatched request of a new chat unbound; a failed lookup of the marker enrols the turn a
  second time (`misread`); text of a superseded turn younger than 500 ms is lost.
- `settleSubagentStartupFailure` returns when any other attempt is bound, also the older one
  (`unreported`); `sameAttempt` is false for an accepted failure with retry, so the page's result is
  never acknowledged; a stop of the worker between binding and sending leaves a live tab without a
  prompt, between unbinding and `tabs.remove` an unnamed one with a prompt (`slipped`, as are the
  read-then-write windows of `handleClosedTab`, `migrateTabBindings`, `closeOnce` and a progress report).

Git and updates:

- `git_commit_scope.rs:439` expects a conflict for `all` with unstaged or untracked files;
  `validate_preview` accepts and `execute` stages them. Cancelled reads after the commit report a
  retryable precommit error. A HEAD moved by others while the own commit failed is reported as the own.
  `restore` writes the whole old index without a lock; a failing read in the failure path leaves
  everything staged. `verify_parent` takes a timed-out read for "no parent". A preview is torn
  when the index changes after its second read and twice more (`moved`; the recheck catches it).
- The Windows script's catch block removes extension and marker also when the failure was before its
  backup was complete, yet the next start says "rolled back" (`updater/mod.rs:48`); without an error
  file nothing is rolled back; the macOS script has no roll-back; power lost between two lines leaves a mix.

### Bounds

Compact: 1-2 tasks, 2-4 conversations, 1-2 jobs, 1-2 requests, 1-2 handoffs, revisions
up to `MaxRev` 3, at most one report or one other call between read and write (`MaxReports`,
`MaxLag`, `LagSteps`; with two tasks only the report, `MaxLag` 0). A race needs a handler, the party that overtakes it and one job that is completed; two jobs
and three conversations allow a compact of a compact and a competition for a destination.
Calls: 1-2 calls, `MaxCompacts` 0-1, `MaxSends` 0-1. Two calls are enough for one to write what
the other read, and one compact for an archived conversation. Runs: 1-2 delegations,
`Limit` 1, `MaxTries` 1-3, `MaxBoots` 0-2: the limit is exceeded by one more child than slots,
and an attempt is confused with the next one. Approval: 1-4 calls, 2 tasks, 1-2 grants, `Budget`
and `Share` 1-2: the last unit of a budget and two who want it, or a child that wants two; longer
chains of grants are left to the theorem `Cascade`. Files: two operations, three paths, trees of up
to two files: a tree that is half copied or half removed, and one other request between any two
steps. The number of crashes and restarts is not bounded.

Services: two clients, blobs, callers, keys, processes, files, committers; texts of up to five bytes of
eight kinds; at most two faults and two restarts; records, replays, channels and listing states hold
one to three, so that they overflow. Each bound is one more than what a race needs (a holder and a rival,
a full buffer and one more, a version and its successor); the outside acts of git are two, and
three with the larger bound found the torn preview (above). Behaviours of `SubagentTabs` end where
they slip. Host: two paths, two rebuilders, two changes; two calls, two turns, one crash.

Symmetry is used only in runs without liveness, over sets whose members no definition names.

### Deadlock

All runs say `CHECK_DEADLOCK FALSE`: once the bounded calls, jobs and delegations are
over, the system has nothing left to do.

### Fairness

`CallAdmission!FairSpec`: steps of a call that was started, as the runtime polls
its future, and the passing of the 60 seconds. `SubagentRuns!RunFairSpec`: the watchdog's pass and its
treatment of the rows it selected (a task that ticks every 5 seconds), and the passing of the
runtime and unclaimed deadlines; nothing of the browser, the worker or the user.
`ExecutionApproval!FairSpec`: the steps of an admitted call (150 ms polls, 120 second deadline); no
answer of the user. `MCHost!IndexFairness`: the watcher delivers, the loop starts its rebuilds and they go
on; none for the rebuilds other callers may start. `MCHost!TurnFairness`: admitted calls end, the watchdog's
ticks go on, a child ends; leases and the grace period run out again and again (strong, because a call
in between starts them anew); no message of the user and no completion by the agent.

## 5. Proofs

TLAPS checks every theorem for all values of the constants that satisfy the modules' named
assumptions, so for any number of tasks, calls, jobs, runs, grants, files, turns and crashes.

**`CompactResume_proofs`.** `TypeInv` is `TypeOK` with the shape of a job's row (`JobShape`: what is
set in which phase, nothing in an absent row) and a bound on the requests a stop is about to close;
it is inductive (`TypeCorrect`). `SoundCheckpoints` is an action property: `JobSteps` sums up what
one step may do to a job's row, and each way is a checkpoint with the row's own revision, or the one
exception. `ContinuesInOrder` adds `Underway` (what a call or a lagging
statement is about existed when it was read), so that only `resume_compact` creates a continuation.

Its second part, about the binding: `BindingInv` adds that an active job's task exists and `SingleOwner`.
From it: one owner (`OneOwner`); a task moves only by a completion (`OnlyCompletionMoves`); the refinement of
`ConversationBinding` (`Refinement`), initial states to initial states, a step to a step or a
stutter; that a running job's task stays where the job found it and a completed job's attachment
holds (`JobsHoldTheirTask`, no hypothesis); that a retired request never works again
(`RetiredForGood`). `BindingStays` (all of `BindingHeld`) adds how a task comes to the scope it has (`Scopes`), and
`CompactPauses` (`Paused`) who may be queued or running in a compacting task (`QueuePaused`). Neither
has a hypothesis: the exceptions are those of the properties.

**`CallsAndRuns_proofs`.** The calls (`CallAdmission`): `OnLiveConversation` is not inductive: a call may hold a copy of the row from
before a compact. `Inv` says what such copies can be (`CallsFit`), what was archived before what
(`ArchivedBefore`, `SessionLive`), that conversations are numbered by completed compacts
(`ChatsCounted`) and who may be admitted (`AllowGranted`). `FenceInv` adds what the barrier has
seen: past the fence there is no call that names its task or scope itself (`SelfNamed`).

The runs (`SubagentRuns`): `RunInv` says that whoever holds the registration gate has no row yet and
that a pending run is never past its claim. The row lemmas say what any step may do to one run (`RunRowStep`); one lemma
per action shows it; the action properties `TerminalStays`, `OneWorker` and `LeaseRespected`
follow. `CapacityInv` adds `Room`: rows selected by the sweep and the child about to be
inserted are accounted for before the count is used, beside the children that are `overtaken`. `LimitHolds` has no
hypothesis on when signs of life come.

**`ExecutionApproval_proofs`.** Approvals, grants, ends and calls are treated one at a time, each with
a lemma on what any step may do (`ApprovalStep`, `GrantStep`, `RevokedFor`, `CallStep`). `Inv` adds
to the properties that budgets are kept (`Within`), that handlers revoke only for tasks that have
ended (`DueEnded`, `StopEnded`), and that two calls never hold one approval (`UseInv`). `BudgetKept` is
about a tree of grants of any shape, without an induction over it. `Placed` lays the budgets out on
the line of numbers: a grant's is an interval from `base[g]` on, below its root `top[g]`; what it
reserves for children and they have not spent are intervals inside it, apart from each other; every read has a number
`pos[c]` of its own, in the used part of its grant's interval. The reads under a grant then are an
injection into its interval. Theorems: `TypeCorrect`, `ResolvedOnce`, `UsedOnce`, `BudgetKept`, `Cascade`.

**`FileMutations_proofs`.** `Owned` alone is not inductive: a crash ends the workers and a journal file
may be lost, so what is in limbo must have its row already. `Rooted` adds that the row is there
from `planned` on, which stages come before and after publication, that a published transfer
has no staged tree, and that no worker runs during recovery. `NothingOrphaned` follows for any
number of requests, also on the same paths. It rests on the order of the code: the row is written
before the first change, and both records go only after the last.

`SourcesKept` (`SourceSafe`) holds of any number of requests on any paths, with no hypothesis that they keep
apart. `HoldsInv` follows a move from its verification to its end: what is left of its source was in the staged tree when
the two were compared, and after the publication it is at the destination, unless the move is `disturbed`. What any step
may do to a move is one of five outcomes (`Outcome`: another actor's step, the end of the move, a step before, at or after
the publication). `OutcomeHolds` shows each of them keeps the invariant, `ByOther`, `BeforePublishing` and
`FromPublishing` that every step is one of them.

**`Services_proofs`.** `PassedFresh`: what a completion has looked up of an execution is what was
recorded (`LookedUp`), so a report that passes has a fresh successful execution for every criterion. It rests on
`ReportAssumption`, a fact about the inputs that TLC evaluates for the run's: flattening the references of a
criterion and cutting them to the limits loses none of an input within the limits. `PromptsKept`:
`PromptInv` ties the row of a question to the entry with its sender and to what the asker was told.
`CommandsKept` (`ExecutionsSafe` and the types of `CommandExecutions`): `ExecInv` says of an execution
that it stands in its key's entry from the claim to the publication and has its running record from
before its start (`ExecAt`); whom entries and files are about (`RecordAt`, `RunningAt`, `FinishedAt`), so that what a
restart reads back is what was said; what each caller may still be waiting for (`CallerAt`); and that a key
whose entry and files are gone was forgotten as often as it was started (`StartsAt`), the reason why nothing runs
twice: eviction removes the entry and both files, a roll-back never started anything, and a reload takes an orphan for an
unknown outcome. A reload is shown to evict the first of the finished records and to keep at most `MAX_RECORDS`
(`Order`, `Restores`). `ExecutionAssumption` says that the keys are finitely many and the limit is positive.
`MessagesNeverLost`: `QueueInv` says where a message stands in its turn (positions enumerate the pending
ones), what a request that has read may still write, and that what an answer carries was pending when it was claimed.
`ReservationsKept`: `ProcInv` says who holds how much of the quota at each step. The sum of a finite
function is a number of dots (`Cardinality` of a union of intervals, one per process), so no induction over data is
needed: a fold is its closed form, or there is a least set on which it is not. `ShellsKept`: `ShellInv`
says of a session what its replay is of what was told, and of calls, bridges, replays, rows and open requests
what each may rest on at each of its steps (`CallsSound`, `BridgesSound`, `ReplaysSound`, `RowsSound`, `OpenSound`).

**`Stores_proofs`.** The services that keep something outside the host's memory. `TabsKept`: `TabsInv` says, unless a
window of section 4 was hit (`slipped`), which tab the binding, a start, a close and a report can be about at
each await (`TabsFit`, `AttemptsFit`, `WorkFits`), that a tab with a prompt is named by whoever is to close it
(`TabsNamed`), that a close is of an attempt that is over (`ClosesFit`), and that a start that failed is reported
or about to be (`Accounted`). The attempt to prove it found two windows the model had not counted:
a replaced tab closed between the read and the write of `migrateTabBindings`, and a progress report
that writes back the context it has read; TLC confirms both.

`UpdatesKept`: `PreparedIsVerified` needs that whatever is downloaded is of a newer release with a digest (`Offers`);
`InstallsWhole` needs what each line of a script has found done by the lines before it (`WindowsDone`, `OtherDone`), and of
a roll-back what it has put back so far (`PutBack`). `UpdateAssumption` says what may lie beside the program.

`BlobsKept`: `BlobSound` ties an entry to its file and to the metadata a restart reads: metadata that is not expired is
behind the map only by what recovery makes up for, a sealed or consuming blob has the whole file, and a blob was applied once for each life of
the host, none of them in this life while it can still be leased. `OneHolder` says that no two calls hold one blob, from which a lease may be given back.
`Quota` sums what an owner's entries reserve: a finite sum, treated through `Cardinality` as above. `BlobAssumption`: the
blobs are finitely many, and the two values that stand for "none" are none of the blobs and of the contents.

`ChangesKept`: `ChangesListed` speaks of the completed turn only. `TrackInv` says of each file whose change can be known
(not `excused`) and as long as no event was lost: an "added" that is under way, in an event, the batch, a tool or a record, is true
(`NewlyAdded`), because the look at the files drops a file that was added and is gone; the last word about a file that is there is not
"deleted" (`LastTells`); and a file that is not as it was is listed, or an event, the batch or a tool that will list it is
under way (`Underway`). The proof showed that the model had been too coarse: it took a whole batch in one action,
so nothing ever came to the channel behind an event that was taken, and with a channel of one nothing was ever merged.

**`MCServices_proofs`.** The composition that TLC runs: `ServicesAreSafe`, `MessagesAreSafe` and `PassedAlwaysFresh` are
`Spec => []ServicesSafe`, `Spec => []MessagesSafe` and `Spec => PassedIsFresh`. A behaviour is of one part (`OnePart`); a step of
that part keeps its inductive invariant, and the others stutter (`ServicesInv`, `MessagesInv`).

**`Host_proofs`.** `TurnsKept`: `TurnInv` says what a call's row can be at each of its awaits
(`CallShape`); that after the grace only tools are underway that ran already or waited for their approval
(`Quieted`), and in a turn whose registry the watchdog has read only those that waited (`WatchClear`). `IndexKept`: `IndexInv` says what a crawl has seen of
each path and what is still to be delivered (`CrawlExplained`, `FreshExplained`), what a paged query has
covered (`FindCovers`), and that one rebuild crawls at a time. `HostTypes` and `HostSafe` carry
them to `MCHost`, the composition that TLC runs: each step is one of one part, and a stutter of the other.

Only model-checked, and why:

- All liveness: `CallsEnd` (twice), `RunsEnd`, `HostProgresses`. The prover has no reasoning about ENABLED.
- `RefinesTransfer`, for the pairs of the run: a proof has to say of any number of requests that keep apart where each
  tree a reader sees is, which is not worked out for all of them.
- `ContentsSafe` of `MCServices`. What an edit, a listing, a search or a reading returns is a fold over a sequence (lines,
  pages, budgets), whose lemmas need an induction over data; `TextEdits` is recursive. `CaptureSafe` and `CommitsSafe`
  are state machines; the invariants of a page's timers and of a commit's reads are not worked out. Whether `PreviewIsReal`
  (the reads of a preview show one moment) holds of any number of committers is open: the run has the ones of its `.cfg`.
- `TypesHold` of `MCServices`: the types of the proved parts are in their theorems, those of the six parts above are not.

## 6. What the models leave out

- SQL failures in the middle of a handler and futures dropped at an await, other than by `Restart` and where a
  module names them.
- `CallAdmission`: one task; scopes of ChatGPT conversations only (in a scope of another kind a call that is no
  message makes a task of its own, `identity.rs:104-128`); delegated and routed identities are the route "turn". A
  second way to lose a stop, the rewrite after an approval, is in the model as `RewriteTask`. The
  settlement of a replacement conversation by a call is in `CompactResume`.
- `SubagentRuns`: any call or message wakes a task (more than the code allows); a pass of the
  watchdog treats any number of rows (the code's batch is 100) and its two selects are one step; the
  limit does not change.
- `FileMutations`: verification `none`; the content of a file (its name tells it apart); symbolic
  links, permissions and durability; requests refused, skipped or planned by the preflight, which
  change nothing; a second root; the cut of a single `rename`.
- `ExecutionApproval`: one agent; the attempt a grant is bound to always matches, since a run is
  claimed once; a stopped task is not reopened; the mode "deny" is written by no handler.
- `FileEdits`, `TurnFileChanges`: two writes never leave the same inode with the same times; content
  that comes back is a change that is undone. `GitCommits`: files and no renames, the repository's
  root as working directory, contents that never come back, `git commit` as one step. `CompletionReport`: the tree does
  not return to an earlier content.
- `SearchPages` has one call at a time; `ListPages` numbers entries in the order they are read; globs,
  ordering of a walk, `fs_find`'s patterns and metadata are not modelled.
- `ShellSessions`, `Updater`: one program; two restarts of the updater within 900 ms would start two
  installers. `TurnCapture`: provisional ids and repeats of the agent's own text without a marker.
- `TurnLifecycle`: one task and its possible run, so no `LIMIT` of a pass; which text binds a folder or needs a title is
  nondeterministic; a lease that lapses before a pass or before its last look ends the pass for this task; `agent_wait` and the revisions of a report are not modelled.

## 7. Plan

Done: the binding of tasks to conversations, the admission of calls, delegations, authority, journaled
file operations, the services and the loops of the host, and the theorems above.

Left, in this order:

1. `CaptureSafe` and `CommitsSafe`, and `EditsSafe` with the result of `apply_edits` as a parameter; then
   `TypesHold` of `MCServices` as for the other bundles.
2. The batching event writer, `agent_wait` and the revisions of a report, and `fs_find`.
