----------------------------- MODULE ProcessRuns -----------------------------
(***************************************************************************)
(* A bounded child process and the quota of its output file:                 *)
(* crates/chatcmd-runtime/src/process_runner.rs and artifact_quota.rs.       *)
(*                                                                          *)
(* Output is counted in units.  The pipe of a process may outlive it, in the *)
(* hands of a process it left behind.                                        *)
(***************************************************************************)
EXTENDS Integers, FiniteSets, FiniteSetsExt

CONSTANTS
  Processes,
  Options,      \* what a run may be asked for: preview, limit, kill
  MaxTotal,     \* HARD_TOTAL_ARTIFACT_BYTES
  MaxOutput,    \* bound
  MaxReboots    \* bound

ASSUME ProcessAssumption ==
  /\ IsFiniteSet(Processes) /\ MaxTotal \in Nat /\ MaxOutput \in Nat
  /\ \A o \in Options : o.limit \in Nat /\ o.preview \in Nat

VARIABLES
  process,   \* every run
  quota,     \* QuotaUsage
  output,    \* the artifact files, -1 when there is none
  left,      \* files of runs that failed, or could not be removed: nobody accounts for them
  reboots

processVars == <<process, quota, output, left, reboots>>

NoProcess == [step |-> "idle", opt |-> CHOOSE o \in Options : TRUE, total |-> 0, held |-> 0,
              why |-> "none", pipe |-> "closed", signal |-> FALSE, ref |-> FALSE]
NoQuota == [initialized |-> FALSE, committed |-> 0, reserved |-> 0]
NoOutput == -1

ProcessInit ==
  /\ process = [r \in Processes |-> NoProcess]
  /\ quota = NoQuota
  /\ output = [r \in Processes |-> NoOutput] /\ left = {}
  /\ reboots = 0

Min2(a, b) == IF a < b THEN a ELSE b
Bytes(S) == MapThenSumSet(LAMBDA r : output[r], {r \in S : output[r] > 0})

-----------------------------------------------------------------------------
\* scan_and_prune, before the first reservation of a host: what is too old goes, then the
\* oldest until the rest fits.
Pruned(gone) == Bytes(Processes \ gone) <= MaxTotal

Scan ==
  /\ ~quota.initialized
  /\ \E r \in Processes : process[r].step = "idle"
  /\ \E gone \in SUBSET {r \in Processes : output[r] >= 0} :
       /\ Pruned(gone)
       /\ output' = [r \in Processes |-> IF r \in gone THEN NoOutput ELSE output[r]]
       /\ quota' = [NoQuota EXCEPT !.initialized = TRUE, !.committed = Bytes(Processes \ gone)]
  /\ left' = {}
  /\ UNCHANGED <<process, reboots>>

Runs(r, p) == process' = [process EXCEPT ![r] = p]

\* reserve: all that the run may write, before it starts.
MutFree(o) == o.limit <= MaxTotal - quota.committed
Free(o) == o.limit + quota.committed + quota.reserved <= MaxTotal

Reserve(r, o) ==
  /\ process[r].step = "idle" /\ quota.initialized
  /\ IF Free(o)
     THEN /\ Runs(r, [NoProcess EXCEPT !.step = "reserved", !.opt = o, !.held = o.limit])
          /\ quota' = [quota EXCEPT !.reserved = @ + o.limit]
     ELSE Runs(r, [NoProcess EXCEPT !.step = "over", !.why = "quota"]) /\ UNCHANGED quota
  /\ UNCHANGED <<output, left, reboots>>

\* Drop of a reservation that was not committed.
Released(r) == quota' = [quota EXCEPT !.reserved = @ - process[r].held]

Spawn(r) ==
  /\ process[r].step = "reserved"
  /\ Runs(r, [process[r] EXCEPT !.step = "running", !.pipe = "child"])
  /\ output' = [output EXCEPT ![r] = 0]
  /\ UNCHANGED <<quota, left, reboots>>

\* No directory, no process, no pipe.
SpawnFails(r) ==
  /\ process[r].step = "reserved"
  /\ Runs(r, [process[r] EXCEPT !.step = "over", !.why = "spawn", !.held = 0])
  /\ Released(r)
  /\ UNCHANGED <<output, left, reboots>>

-----------------------------------------------------------------------------
\* drain_stream: a unit of output, kept while the file is below its limit; the first
\* that does not fit the preview sends the signal.
MutStored(r) == output[r] + 1
Stored(r) == Min2(output[r] + 1, process[r].opt.limit)

Prints(r) ==
  /\ process[r].pipe # "closed" /\ process[r].total < MaxOutput
  /\ output' = [output EXCEPT ![r] = Stored(r)]
  /\ Runs(r, [process[r] EXCEPT !.total = @ + 1, !.signal = @ \/ process[r].total + 1 > process[r].opt.preview])
  /\ UNCHANGED <<quota, left, reboots>>

\* The process exits; what it left behind may hold its pipe.
ProcessExits(r) ==
  /\ process[r].step = "running"
  /\ \E p \in {"closed", "other"} : Runs(r, [process[r] EXCEPT !.step = "drain", !.why = "exited", !.pipe = p])
  /\ UNCHANGED <<quota, output, left, reboots>>

PipeCloses(r) ==
  /\ process[r].pipe = "other"
  /\ Runs(r, [process[r] EXCEPT !.pipe = "closed"])
  /\ UNCHANGED <<quota, output, left, reboots>>

\* terminate_tree: the process group is gone; what left the group is not.
Terminated(r, why) ==
  \E p \in {"closed", "other"} : Runs(r, [process[r] EXCEPT !.step = "drain", !.why = why, !.pipe = p])

Ended(r) ==
  /\ process[r].step = "running"
  /\ \/ Terminated(r, "cancelled")
     \/ Terminated(r, "timedOut")
     \/ process[r].signal /\ process[r].opt.kill /\ Terminated(r, "outputLimit")
  /\ UNCHANGED <<quota, output, left, reboots>>

\* Both streams have ended: the file is kept if the preview does not hold everything.
Truncated(r) == process[r].total > process[r].opt.preview
Drained(r) ==
  LET keep == Truncated(r) /\ output[r] > 0 IN
  /\ process[r].step = "drain" /\ process[r].pipe = "closed"
  /\ Runs(r, [process[r] EXCEPT !.step = "over", !.held = 0, !.ref = keep])
  /\ quota' = [quota EXCEPT !.reserved = @ - process[r].held, !.committed = @ + IF keep THEN output[r] ELSE 0]
  /\ \/ /\ output' = IF keep THEN output ELSE [output EXCEPT ![r] = NoOutput]
        /\ UNCHANGED left
     \/ ~keep /\ left' = left \cup {r} /\ UNCHANGED output   \* it could not be removed
  /\ UNCHANGED reboots

\* A stream cannot be read, or the process not be waited for: the file stays.
DrainFails(r) ==
  /\ process[r].step \in {"running", "drain"}
  /\ Runs(r, [process[r] EXCEPT !.step = "over", !.why = "reader", !.held = 0, !.pipe = "closed"])
  /\ Released(r) /\ left' = left \cup {r}
  /\ UNCHANGED <<output, reboots>>

\* The host ends; files stay until the first reservation of the next one.
Reboot ==
  /\ reboots < MaxReboots /\ reboots' = reboots + 1
  /\ \E again \in SUBSET {r \in Processes : output[r] < 0 /\ process[r].step # "idle"} :
       process' = [r \in Processes |-> IF r \in again \/ process[r].step = "idle" THEN NoProcess ELSE
                     [NoProcess EXCEPT !.step = "over", !.why = "lost"]]
  /\ quota' = NoQuota
  /\ UNCHANGED <<output, left>>

ProcessNext ==
  \/ Scan \/ Reboot
  \/ \E r \in Processes :
       \/ \E o \in Options : Reserve(r, o)
       \/ Spawn(r) \/ SpawnFails(r) \/ Prints(r) \/ ProcessExits(r) \/ PipeCloses(r) \/ Ended(r)
       \/ Drained(r) \/ DrainFails(r)

ProcessSpec == ProcessInit /\ [][ProcessNext]_processVars

-----------------------------------------------------------------------------
ProcessTypes ==
  /\ quota.committed \in 0..MaxTotal /\ quota.reserved \in 0..MaxTotal
  /\ \A r \in Processes : output[r] \in NoOutput..MaxOutput /\ process[r].total \in 0..MaxOutput

\* Reservations are returned by every way a run can end, and what is promised never
\* exceeds the quota.
Promised == MapThenSumSet(LAMBDA r : process[r].held, Processes)
ReservationsReturned ==
  quota.initialized => quota.reserved = Promised /\ quota.committed + quota.reserved <= MaxTotal

\* The files on disk, but for those of runs that failed or that could not be removed, fit
\* what is committed and reserved.
DiskCovered ==
  quota.initialized => Bytes(Processes \ left) <= quota.committed + quota.reserved

\* A result that points to its file points to one that is there and as long as it says,
\* until the next host prunes it; one that does not point to a file has all the output in its preview.
FileKept ==
  \A r \in Processes : process[r].step = "over" /\ process[r].why \in {"exited", "cancelled", "timedOut", "outputLimit"} =>
    IF process[r].ref THEN output[r] = Min2(process[r].total, process[r].opt.limit)
    ELSE ~Truncated(r) \/ process[r].opt.limit = 0

ProcessesSafe == ReservationsReturned /\ DiskCovered /\ FileKept
=============================================================================
