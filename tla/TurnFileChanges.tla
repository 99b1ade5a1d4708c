--------------------------- MODULE TurnFileChanges ---------------------------
(***************************************************************************)
(* What a turn reports of the files it changed (runtime_host/               *)
(* turn_file_changes.rs): native tools record their own changes, a watcher    *)
(* follows the shell, and the completion of the turn takes the merged list.  *)
(* Of a file the model keeps which content it has, 0 when it is absent.      *)
(***************************************************************************)
EXTENDS Naturals, Sequences

CONSTANTS
    TrackedFiles,
    Capacity,       \* WATCHER_CHANNEL_CAPACITY
    Begun,          \* a set of [TrackedFiles -> 0..1]: the files of the turn's beginning
    MaxSteps        \* bound: changes of files

VARIABLES
    content,       \* [TrackedFiles -> 0..2]
    base,       \* history: content when the turn began
    tracked,    \* TurnState.changes
    watching,   \* TurnState.watcher is there
    kernel,     \* events the system has not delivered
    channel,    \* events the worker has not taken
    batch,      \* the worker's coalesced and captured events
    overflow,   \* dropped_events > 0
    native,     \* a native tool between its two snapshots
    excused,    \* history: files whose change cannot be known, see below
    steps, repeated,
    summary     \* what finish_turn_file_tracking returned, and the content then

trackVars == <<content, base, tracked, watching, kernel, channel, batch, overflow, native, excused,
               steps, repeated, summary>>

Contents == 0..2
ChangeKinds == {"added", "modified", "deleted", "moved"}
NoChange == [kind |-> "none"]
Records == [kind : ChangeKinds, origin : {"nativeTool", "shellWatcher"}, old : Contents,
            previous : TrackedFiles \cup {"none"}]
NoBatch == [at |-> "idle", kinds |-> [f \in TrackedFiles |-> "none"]]
NoNative == [at |-> "idle"]
NoSummary == [at |-> "open"]

ASSUME TrackAssumption ==
    /\ Capacity \in Nat /\ MaxSteps \in Nat /\ Begun \subseteq [TrackedFiles -> 0..1]
    /\ "none" \notin TrackedFiles

TrackTypes ==
    /\ content \in [TrackedFiles -> Contents] /\ base \in [TrackedFiles -> Contents]
    /\ tracked \in [TrackedFiles -> Records \cup {NoChange}]
    /\ watching \in BOOLEAN /\ overflow \in BOOLEAN /\ repeated \in BOOLEAN
    /\ Len(channel) <= Capacity
    /\ batch.at \in {"idle", "collecting", "captured"}
    /\ excused \subseteq TrackedFiles /\ steps \in 0..MaxSteps
    /\ summary.at \in {"open", "draining", "sent"}

TrackInit ==
    /\ content \in Begun /\ base = content
    /\ tracked = [f \in TrackedFiles |-> NoChange]
    /\ watching = FALSE /\ kernel = <<>> /\ channel = <<>> /\ batch = NoBatch /\ overflow = FALSE
    /\ native = NoNative /\ excused = {} /\ steps = 0 /\ repeated = FALSE /\ summary = NoSummary

Open == summary.at = "open"

-----------------------------------------------------------------------------
KindOfWrite(before, after) ==
    CASE before = 0 -> "added" [] after = 0 -> "deleted" [] OTHER -> "modified"

\* Removed in the turn and made again: the merged record forgets that it was there.
Recreated(f, v) == IF base[f] # 0 /\ content[f] = 0 /\ v # 0 THEN {f} ELSE {}

\* The system saw files change; nobody follows a shell without a watcher.
Observed(events) == kernel' = IF watching THEN kernel \o events ELSE kernel

Recording(f) == native # NoNative /\ f \in {native.path, native.to}

\* Something that is not a tool of the host writes, makes or removes a file.
ShellChange(f, v) ==
    /\ Open /\ steps < MaxSteps /\ steps' = steps + 1
    /\ v # content[f] /\ content' = [content EXCEPT ![f] = v]
    /\ Observed(<<[path |-> f, kind |-> KindOfWrite(content[f], v)]>>)
    /\ excused' = excused \cup Recreated(f, v) \cup IF watching /\ ~Recording(f) THEN {} ELSE {f}
    /\ UNCHANGED <<base, tracked, watching, channel, batch, overflow, native, repeated, summary>>

\* shell_create: enable_shell_file_watcher.
Enable ==
    /\ Open /\ ~watching /\ watching' = TRUE
    /\ UNCHANGED <<content, base, tracked, kernel, channel, batch, overflow, native, excused, steps,
                   repeated, summary>>

-----------------------------------------------------------------------------
\* Mutant: any file that goes is not listed.
MutMerged(previous, next) ==
    CASE previous = NoChange -> next
      [] previous # NoChange /\ next.kind = "deleted" -> NoChange
      [] OTHER -> [next EXCEPT !.old = previous.old,
                               !.kind = IF previous.kind = "added" THEN "added" ELSE @]

\* merge_record: what was there first is kept, and a file that came and went is not listed.
Merged(previous, next) ==
    CASE previous = NoChange -> next
      [] previous # NoChange /\ previous.kind = "added" /\ next.kind = "deleted" -> NoChange
      [] OTHER -> [next EXCEPT !.old = previous.old,
                               !.kind = IF previous.kind = "added" THEN "added" ELSE @]

\* fs_write_text and its like, fs_delete, fs_move: the snapshot before and the change.
NativeChange(f, g, v) ==
    /\ Open /\ native = NoNative /\ steps < MaxSteps /\ steps' = steps + 1
    /\ \/ /\ f = g /\ v # content[f] /\ content' = [content EXCEPT ![f] = v]
          /\ native' = [at |-> "committed", path |-> f, to |-> f, old |-> content[f],
                        kind |-> KindOfWrite(content[f], v)]
          /\ Observed(<<[path |-> f, kind |-> KindOfWrite(content[f], v)]>>)
       \/ /\ f # g /\ content[f] # 0 /\ v = content[f] /\ content' = [content EXCEPT ![f] = 0, ![g] = v]
          /\ native' = [at |-> "committed", path |-> f, to |-> g, old |-> v, kind |-> "moved"]
          /\ Observed(<<[path |-> f, kind |-> "modified"], [path |-> g, kind |-> "modified"]>>)
    /\ excused' = excused \cup Recreated(g, v)
    /\ UNCHANGED <<base, tracked, watching, channel, batch, overflow, repeated, summary>>

\* ... and record_committed_change, which overwrites where a moved file came from.
NativeRecord ==
    /\ native.at = "committed" /\ native' = NoNative
    /\ LET g == native.to
           record == [kind |-> native.kind, origin |-> "nativeTool", old |-> native.old,
                      previous |-> IF native.path = g THEN "none" ELSE native.path]
       IN /\ tracked' = [tracked EXCEPT ![g] = Merged(@, record)]
          /\ excused' = IF tracked[g].kind = "none" \/ tracked[g].previous = "none" THEN excused
                        ELSE excused \cup {tracked[g].previous}
    /\ UNCHANGED <<content, base, watching, kernel, channel, batch, overflow, steps, repeated, summary>>

-----------------------------------------------------------------------------
\* enqueue_watcher_event
Deliver ==
    /\ kernel # <<>> /\ kernel' = Tail(kernel)
    /\ IF Len(channel) < Capacity
       THEN channel' = Append(channel, Head(kernel)) /\ UNCHANGED overflow
       ELSE overflow' = TRUE /\ UNCHANGED channel
    /\ UNCHANGED <<content, base, tracked, watching, batch, native, excused, steps, repeated, summary>>

\* coalesce_kind
Coalesced(now, next) == IF now = "added" /\ next = "modified" THEN "added" ELSE next

\* watcher_worker takes what comes within the debounce, an event at a time, ...
TakeEvent ==
    /\ batch.at \in {"idle", "collecting"} /\ channel # <<>> /\ channel' = Tail(channel)
    /\ LET event == Head(channel)
       IN batch' = [at |-> "collecting",
                    kinds |-> [batch.kinds EXCEPT ![event.path] = Coalesced(@, event.kind)]]
    /\ UNCHANGED <<content, base, tracked, watching, kernel, overflow, native, excused, steps, repeated,
                   summary>>

\* ... looks at the files outside the lock: what was made and is gone is not a change ...
LookAtFiles ==
    /\ batch.at = "collecting"
    /\ batch' = [at |-> "captured",
                 kinds |-> [f \in TrackedFiles |->
                     IF batch.kinds[f] = "added" /\ content[f] = 0 THEN "none" ELSE batch.kinds[f]]]
    /\ UNCHANGED <<content, base, tracked, watching, kernel, channel, overflow, native, excused, steps,
                   repeated, summary>>

\* ... and records what no native tool has recorded.
Watched(record, kind) ==
    CASE kind = "none" -> record
      [] kind # "none" /\ record # NoChange /\ record.origin = "nativeTool" -> record
      [] OTHER -> Merged(record, [kind |-> kind, origin |-> "shellWatcher", old |-> 0, previous |-> "none"])

RecordBatch ==
    /\ batch.at = "captured" /\ batch' = NoBatch
    /\ tracked' = [f \in TrackedFiles |-> Watched(tracked[f], batch.kinds[f])]
    /\ UNCHANGED <<content, base, watching, kernel, channel, overflow, native, excused, steps, repeated,
                   summary>>

-----------------------------------------------------------------------------
\* begin_turn_file_tracking again, for a repeated agent_user_message: the state of the
\* turn is replaced, its watcher is gone.
BeginAgain ==
    /\ Open /\ ~repeated /\ repeated' = TRUE
    /\ tracked' = [f \in TrackedFiles |-> NoChange]
    /\ watching' = FALSE /\ kernel' = <<>> /\ overflow' = FALSE
    /\ excused' = {f \in TrackedFiles : tracked[f] # NoChange \/ content[f] # base[f]}
                  \cup {kernel[i].path : i \in DOMAIN kernel} \cup excused
    /\ UNCHANGED <<content, base, channel, batch, native, steps, summary>>

\* finish_turn_file_tracking: the watcher goes first, with what it was not told yet; then
\* the worker ends, then the list is taken.
StopWatcher ==
    /\ Open /\ native = NoNative
    /\ watching' = FALSE /\ kernel' = <<>> /\ summary' = [at |-> "draining"]
    /\ excused' = excused \cup {kernel[i].path : i \in DOMAIN kernel}
    /\ UNCHANGED <<content, base, tracked, channel, batch, overflow, native, steps, repeated>>

Finish ==
    /\ summary.at = "draining" /\ channel = <<>> /\ batch = NoBatch
    /\ summary' = [at |-> "sent", incomplete |-> overflow,
                   listed |-> {f \in TrackedFiles : tracked[f] # NoChange}
                              \cup {tracked[f].previous : f \in {g \in TrackedFiles : tracked[g] # NoChange}}]
    /\ UNCHANGED <<content, base, tracked, watching, kernel, channel, batch, overflow, native, excused,
                   steps, repeated>>

TrackNext ==
    \/ \E f \in TrackedFiles, v \in Contents : ShellChange(f, v) \/ \E g \in TrackedFiles : NativeChange(f, g, v)
    \/ NativeRecord \/ Enable
    \/ Deliver \/ TakeEvent \/ LookAtFiles \/ RecordBatch
    \/ BeginAgain \/ StopWatcher \/ Finish

-----------------------------------------------------------------------------
\* The list a completed turn shows names every file that is not as it was when the turn
\* began, unless it says that events were lost, whatever the order in which the tools, the
\* shell and the worker recorded it.  Excused: a shell nobody watched, a file removed and
\* made again, one the shell changed before a tool had recorded its own change, one whose
\* move was followed by another change, a repeated user
\* message, and events the system had not delivered.
ChangesListed ==
    summary.at = "sent" =>
        \A f \in TrackedFiles :
            content[f] # base[f] => f \in summary.listed \/ summary.incomplete \/ f \in excused
=============================================================================
