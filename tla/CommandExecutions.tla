--------------------------- MODULE CommandExecutions ---------------------------
(***************************************************************************)
(* command_run: the registry of executions and its journal, the callers     *)
(* that claim, wait for and repeat an execution, and the detached task that *)
(* runs and records it (crates/chatcmd-runtime/src/command_runner.rs,        *)
(* command_execution_registry.rs, command_execution_journal.rs).             *)
(*                                                                          *)
(* An execution is known by a number instead of its uuid; a request by the  *)
(* digest of its command.  A file of the journal is created empty and then  *)
(* written, so a failure or the end of the host in between leaves it torn.   *)
(***************************************************************************)
EXTENDS Naturals, Sequences, FiniteSets

CONSTANTS
  Callers,
  Keys,            \* owner and idempotency key
  Demands,         \* what the callers may ask for: functions to [key, digest]
  MAX_RECORDS,
  MaxExecutions,   \* bound
  MaxFailures,     \* bound: of the disk
  MaxRestarts      \* bound

ASSUME ExecutionAssumption ==
  /\ MAX_RECORDS \in Nat \ {0} /\ MaxExecutions \in Nat /\ IsFiniteSet(Keys)
  /\ \A d \in Demands : \A c \in Callers : d[c].key \in Keys

VARIABLES
  demand,      \* the request of every caller
  records,     \* entries of the registry
  completed,   \* completed_order
  disk,        \* [Keys -> the two journal files]
  available,   \* no startup_error
  caller,
  exec,        \* executions by their number
  said,        \* outcomes that were ever published for an execution
  evictions,   \* per key
  failures, reloads

execVars == <<demand, records, completed, disk, available, caller, exec, said, evictions, failures, reloads>>

Ids == 1..MaxExecutions
NoRecord == [id |-> 0, digest |-> "none", outcome |-> "none"]
NoJournal == [state |-> "absent", id |-> 0, digest |-> "none", outcome |-> "none"]
TornJournal == [NoJournal EXCEPT !.state = "torn"]
Written(i, d, outcome) == [state |-> "whole", id |-> i, digest |-> d, outcome |-> outcome]
NoJournals == [running |-> NoJournal, finished |-> NoJournal]
NoCaller == [step |-> "idle", id |-> 0]
NoExec == [step |-> "none", key |-> CHOOSE k \in Keys : TRUE, digest |-> "none", outcome |-> "none",
           spawns |-> 0, kept |-> TRUE]

Held == {k \in Keys : records[k] # NoRecord}
IsFinished(k) == records[k].outcome # "none"
KeyOf(c) == demand[c].key

ExecutionInit ==
  /\ demand \in Demands
  /\ records = [k \in Keys |-> NoRecord] /\ completed = <<>>
  /\ disk = [k \in Keys |-> NoJournals] /\ available = TRUE
  /\ caller = [c \in Callers |-> NoCaller]
  /\ exec = [i \in Ids |-> NoExec] /\ said = [i \in Ids |-> {}]
  /\ evictions = [k \in Keys |-> 0] /\ failures = 0 /\ reloads = 0

DiskFails == failures < MaxFailures /\ failures' = failures + 1
DiskWorks == UNCHANGED failures

-----------------------------------------------------------------------------
\* run: a request, or its repetition after an error or a lost connection.
Request(c) ==
  /\ caller[c].step \in {"idle", "refused", "lost"}
  /\ caller' = [caller EXCEPT ![c] = [step |-> "claim", id |-> 0]]
  /\ UNCHANGED <<demand, records, completed, disk, available, exec, said, evictions, failures, reloads>>

Goes(c, step, i) == caller' = [caller EXCEPT ![c] = [step |-> step, id |-> i]]

\* Everyone parked on an execution claims again.
Woken(i, new) == [c \in Callers |-> IF new[c] = [step |-> "parked", id |-> i]
                                    THEN [step |-> "claim", id |-> 0] ELSE new[c]]

ClaimUnavailable(c) ==
  /\ caller[c].step = "claim" /\ ~available
  /\ Goes(c, "refused", 0)
  /\ UNCHANGED <<demand, records, completed, disk, available, exec, said, evictions, failures, reloads>>

ClaimKnown(c) ==
  LET r == records[KeyOf(c)] IN
  /\ caller[c].step = "claim" /\ available /\ r # NoRecord
  /\ CASE r.digest # demand[c].digest -> Goes(c, "refused", 0)
       [] r.digest = demand[c].digest /\ r.outcome # "none" -> Goes(c, "answered", r.id)
       [] OTHER -> Goes(c, "wait", r.id)
  /\ UNCHANGED <<demand, records, completed, disk, available, exec, said, evictions, failures, reloads>>

\* evict_completed: the registry is full and one of its executions has finished.
Evicting == Cardinality(Held) >= MAX_RECORDS
Evictee == Head(completed)

ClaimBusy(c) ==
  /\ caller[c].step = "claim" /\ available /\ records[KeyOf(c)] = NoRecord
  /\ Evicting /\ completed = <<>>
  /\ Goes(c, "refused", 0)
  /\ UNCHANGED <<demand, records, completed, disk, available, exec, said, evictions, failures, reloads>>

Next_id == CHOOSE i \in Ids : exec[i].step = "none"

ClaimNew(c) ==
  LET k == KeyOf(c)
      d == demand[c].digest IN
  /\ caller[c].step = "claim" /\ available /\ records[k] = NoRecord
  /\ \E i \in Ids : exec[i].step = "none"
  /\ Evicting => completed # <<>>
  /\ LET i == Next_id
         new == [id |-> i, digest |-> d, outcome |-> "none"] IN
     /\ records' = [x \in Keys |-> IF x = k THEN new ELSE
                                   IF Evicting /\ x = Evictee THEN NoRecord ELSE records[x]]
     /\ exec' = [exec EXCEPT ![i] = [NoExec EXCEPT !.step = "claimed", !.key = k, !.digest = d]]
     /\ Goes(c, "create", i)
  /\ IF Evicting
     THEN /\ completed' = Tail(completed)
          /\ disk' = [disk EXCEPT ![Evictee] = NoJournals]
          /\ evictions' = [evictions EXCEPT ![Evictee] = @ + 1]
     ELSE UNCHANGED <<completed, disk, evictions>>
  /\ UNCHANGED <<demand, available, said, failures, reloads>>

\* The entry is gone, and its files, or the second of them, are not.
EvictFails(c) ==
  /\ caller[c].step = "claim" /\ available /\ records[KeyOf(c)] = NoRecord
  /\ Evicting /\ completed # <<>> /\ DiskFails
  /\ records' = [records EXCEPT ![Evictee] = NoRecord]
  /\ completed' = Tail(completed)
  /\ \E one \in BOOLEAN :
        disk' = IF one THEN [disk EXCEPT ![Evictee].running = NoJournal] ELSE disk
  /\ evictions' = [evictions EXCEPT ![Evictee] = @ + 1]
  /\ Goes(c, "refused", 0)
  /\ UNCHANGED <<demand, available, exec, said, reloads>>

-----------------------------------------------------------------------------
\* write_running, and rollback_claim when it fails: nothing was started.
MutRolledBack(c) ==
  /\ records' = [records EXCEPT ![KeyOf(c)] = NoRecord]
  /\ exec' = [exec EXCEPT ![caller[c].id].step = "dropped"]
  /\ caller' = [caller EXCEPT ![c] = [step |-> "refused", id |-> 0]]
RolledBack(c) ==
  /\ records' = [records EXCEPT ![KeyOf(c)] = NoRecord]
  /\ exec' = [exec EXCEPT ![caller[c].id].step = "dropped"]
  /\ caller' = Woken(caller[c].id, [caller EXCEPT ![c] = [step |-> "refused", id |-> 0]])

CreateRunning(c) ==
  LET k == KeyOf(c) IN
  /\ caller[c].step = "create"
  /\ \/ /\ disk[k].running.state = "absent" /\ DiskWorks
        /\ disk' = [disk EXCEPT ![k].running = TornJournal]
        /\ Goes(c, "write", caller[c].id)
        /\ UNCHANGED <<records, exec>>
     \/ /\ IF disk[k].running.state = "absent" THEN DiskFails ELSE DiskWorks
        /\ RolledBack(c) /\ UNCHANGED disk
  /\ UNCHANGED <<demand, completed, available, said, evictions, reloads>>

\* The detached task starts; the caller claims again and waits for it.
Detached(c) ==
  /\ exec' = [exec EXCEPT ![caller[c].id].step = "queued"]
  /\ Goes(c, "claim", 0) /\ UNCHANGED records

WriteRunning(c) ==
  LET k == KeyOf(c)
      whole == Written(caller[c].id, demand[c].digest, "none") IN
  /\ caller[c].step = "write"
  /\ \/ /\ disk' = [disk EXCEPT ![k].running = whole]
        /\ DiskWorks /\ Detached(c)
     \/ \E left \in {TornJournal, whole} :
          /\ disk' = [disk EXCEPT ![k].running = left]
          /\ DiskFails /\ RolledBack(c)
  /\ UNCHANGED <<demand, completed, available, said, evictions, reloads>>

\* The second look at the entry; the notification was subscribed to before it.  Who finds
\* neither a result nor the execution waits for a notification that was given already.
Subscribe(c) ==
  /\ caller[c].step = "wait"
  /\ IF records[KeyOf(c)] # NoRecord /\ IsFinished(KeyOf(c))
     THEN Goes(c, "answered", records[KeyOf(c)].id)
     ELSE Goes(c, IF records[KeyOf(c)].id = caller[c].id THEN "parked" ELSE "stray", caller[c].id)
  /\ UNCHANGED <<demand, records, completed, disk, available, exec, said, evictions, failures, reloads>>

-----------------------------------------------------------------------------
\* A terminal state is reported; which one does not matter here.
Ends(i) == exec' = [exec EXCEPT ![i].step = "ended", ![i].outcome = "reported"]

\* execute: a permit and a process, or a cancellation, an exhausted quota or a
\* command that cannot be started.
Execute(i) ==
  /\ exec[i].step = "queued"
  /\ \/ exec' = [exec EXCEPT ![i].step = "running", ![i].spawns = @ + 1]
     \/ Ends(i)
  /\ UNCHANGED <<demand, records, completed, disk, available, caller, said, evictions, failures, reloads>>

\* The process is over, or its output cannot be read.
Exit(i) ==
  /\ exec[i].step = "running"
  /\ Ends(i)
  /\ UNCHANGED <<demand, records, completed, disk, available, caller, said, evictions, failures, reloads>>

\* finish: the record is written first ...
CreateFinished(i) ==
  LET k == exec[i].key IN
  /\ exec[i].step = "ended"
  /\ \/ /\ disk[k].finished.state = "absent" /\ DiskWorks
        /\ disk' = [disk EXCEPT ![k].finished = TornJournal]
        /\ exec' = [exec EXCEPT ![i].step = "recording"]
     \/ /\ IF disk[k].finished.state = "absent" THEN DiskFails ELSE DiskWorks
        /\ exec' = [exec EXCEPT ![i].step = "recorded", ![i].kept = FALSE]
        /\ UNCHANGED disk
  /\ UNCHANGED <<demand, records, completed, available, caller, said, evictions, reloads>>

WriteFinished(i) ==
  LET k == exec[i].key
      whole == Written(i, records[k].digest, exec[i].outcome) IN
  /\ exec[i].step = "recording"
  /\ \/ /\ disk' = [disk EXCEPT ![k].finished = whole] /\ DiskWorks
        /\ exec' = [exec EXCEPT ![i].step = "recorded"]
     \/ \E left \in {TornJournal, whole} :
          /\ disk' = [disk EXCEPT ![k].finished = left] /\ DiskFails
          /\ exec' = [exec EXCEPT ![i].step = "recorded", ![i].kept = FALSE]
  /\ UNCHANGED <<demand, records, completed, available, caller, said, evictions, reloads>>

\* ... and the entry is finished whether that succeeded or not.
Publish(i) ==
  LET k == exec[i].key IN
  /\ exec[i].step = "recorded"
  /\ records' = [records EXCEPT ![k].outcome = exec[i].outcome]
  /\ completed' = Append(completed, k)
  /\ exec' = [exec EXCEPT ![i].step = "over"]
  /\ said' = [said EXCEPT ![i] = @ \cup {exec[i].outcome}]
  /\ caller' = Woken(i, caller)
  /\ UNCHANGED <<demand, disk, available, evictions, failures, reloads, failures, reloads>>

-----------------------------------------------------------------------------
\* load_records after the host died: a finished record counts, a running one without
\* it becomes an unknown outcome, and a file that cannot be read ends the service.
HasFinished(k) == disk[k].finished.state # "absent"
Orphans == {k \in Keys : disk[k].running.state # "absent" /\ ~HasFinished(k)}
Corrupt == \E k \in Keys : disk[k].finished.state = "torn" \/ (k \in Orphans /\ disk[k].running.state = "torn")
Closed(S) == [k \in Keys |-> IF k \notin S THEN disk[k] ELSE
  [disk[k] EXCEPT !.finished = Written(disk[k].running.id, disk[k].running.digest, "unknown")]]

\* In the order of the directory, the orphans last.
LoadOrders(files) ==
  LET S == {k \in Keys : files[k].finished.state = "whole"} IN
  {s \in [1..Cardinality(S) -> S] :
     /\ \A a, b \in DOMAIN s : s[a] = s[b] => a = b
     /\ \A a, b \in DOMAIN s : s[a] \in Orphans /\ s[b] \notin Orphans => b < a}

Lost ==
  /\ caller' = [c \in Callers |-> IF caller[c].step \in {"idle", "answered", "refused"} THEN caller[c]
                                  ELSE [step |-> "lost", id |-> 0]]
  /\ exec' = [i \in Ids |-> IF exec[i].step \in {"none", "over", "dropped"} THEN exec[i]
                            ELSE [exec[i] EXCEPT !.step = "lost"]]
  /\ reloads < MaxRestarts /\ reloads' = reloads + 1
  /\ UNCHANGED demand

Loaded(files) ==
  \E s \in LoadOrders(files) :
    LET n == IF Len(s) > MAX_RECORDS THEN Len(s) + 1 - MAX_RECORDS ELSE 0
        gone == {s[j] : j \in 1..n}
        kept == {s[j] : j \in DOMAIN s} \ gone IN
    /\ records' = [k \in Keys |-> IF k \notin kept THEN NoRecord ELSE
         [id |-> files[k].finished.id, digest |-> files[k].finished.digest, outcome |-> files[k].finished.outcome]]
    /\ completed' = SubSeq(s, n + 1, Len(s))
    /\ disk' = [k \in Keys |-> IF k \in gone THEN NoJournals ELSE files[k]]
    /\ evictions' = [k \in Keys |-> evictions[k] + IF k \in gone THEN 1 ELSE 0]
    /\ said' = [i \in Ids |-> said[i] \cup
         {files[k].finished.outcome : k \in {x \in kept : files[x].finished.id = i}}]
    /\ available' = TRUE

Unloaded ==
  /\ records' = [k \in Keys |-> NoRecord] /\ completed' = <<>> /\ available' = FALSE
  /\ UNCHANGED <<said, evictions>>

Reload ==
  /\ DiskWorks /\ Lost
  /\ IF Corrupt THEN Unloaded /\ UNCHANGED disk ELSE Loaded(Closed(Orphans))

\* The record of an orphan cannot be written.
ReloadFails ==
  /\ DiskFails /\ Lost /\ ~Corrupt
  /\ \E k \in Orphans, left \in {NoJournal, TornJournal} : \E S \in SUBSET (Orphans \ {k}) :
       disk' = [Closed(S) EXCEPT ![k].finished = left]
  /\ Unloaded

-----------------------------------------------------------------------------
CallerStep(c) ==
  \/ ClaimUnavailable(c) \/ ClaimKnown(c) \/ ClaimBusy(c) \/ ClaimNew(c) \/ EvictFails(c)
  \/ CreateRunning(c) \/ WriteRunning(c) \/ Subscribe(c)

ExecStep(i) == Execute(i) \/ Exit(i) \/ CreateFinished(i) \/ WriteFinished(i) \/ Publish(i)

ExecutionNext ==
  \/ \E c \in Callers : Request(c) \/ CallerStep(c)
  \/ \E i \in Ids : ExecStep(i)
  \/ Reload \/ ReloadFails

ExecutionSpec == ExecutionInit /\ [][ExecutionNext]_execVars

-----------------------------------------------------------------------------
Outcomes == {"none", "reported", "unknown"}

ExecutionTypes ==
  /\ \A k \in Keys : records[k].id \in 0..MaxExecutions /\ records[k].outcome \in Outcomes
  /\ {completed[n] : n \in DOMAIN completed} = {k \in Held : IsFinished(k)}
  /\ Cardinality({completed[n] : n \in DOMAIN completed}) = Len(completed)
  /\ Cardinality(Held) <= MAX_RECORDS

\* docs/coding-agent-contract.md: a retry observes the execution and does not run it
\* again, also after a restart.  A key's command is started once for every time the
\* registry forgot the key, whatever the disk did.
Started(k) == {i \in Ids : exec[i].key = k /\ exec[i].spawns > 0}
RunsOnce ==
  /\ \A i \in Ids : exec[i].spawns <= 1
  /\ \A k \in Keys : Cardinality(Started(k)) <= 1 + evictions[k]

\* What was published for an execution stays its outcome, before and after restarts,
\* if its record could be written.
OneOutcome == \A i \in Ids : exec[i].kept => Cardinality(said[i]) <= 1

\* Nobody is told the outcome of another command: an answer is of the caller's key, and of
\* its digest unless the execution the caller asked for was forgotten, or rolled back, while
\* it waited: the second look at the entry compares neither the digest nor the execution.
RightCommand ==
  \A c \in Callers : caller[c].step = "answered" =>
    LET e == exec[caller[c].id] IN
    /\ e.key = KeyOf(c)
    /\ e.digest # demand[c].digest =>
         \/ evictions[e.key] > 0
         \/ \E i \in Ids : exec[i].step = "dropped" /\ exec[i].key = e.key /\ exec[i].digest = demand[c].digest

\* No wake-up is lost: the execution a caller waits for is under way, unless it was rolled
\* back, or finished and forgotten, between the caller's claim and its subscription.
UnderWay == {"claimed", "queued", "running", "ended", "recording", "recorded"}
NobodyForgotten ==
  \A c \in Callers : caller[c].step = "parked" =>
    exec[caller[c].id].step \in UnderWay /\ records[KeyOf(c)].id = caller[c].id

ExecutionsSafe == RunsOnce /\ OneOutcome /\ RightCommand /\ NobodyForgotten
=============================================================================
