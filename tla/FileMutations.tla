--------------------------- MODULE FileMutations ---------------------------
(***************************************************************************)
(* The journaled file operations of the workspace service: copy and move   *)
(* through a staged tree, deletion to a quarantine or for good, the atomic *)
(* write of a file, and the recovery of interrupted operations when the    *)
(* host starts (crates/chatcmd-runtime/src/filesystem_mutations.rs,        *)
(* filesystem_atomic_writer.rs and src/mutation_journal_bridge.rs).        *)
(*                                                                         *)
(* A tree is the set of its files (a file is a tree of one), and two trees *)
(* are told apart by their files.  Verification is not `none`, and a       *)
(* preflight that refuses, skips or only plans a request changes nothing:  *)
(* the operation is then one that does not begin.  The timeouts and        *)
(* budgets are failures that may happen at any step that checks them.      *)
(***************************************************************************)

CONSTANTS
    Paths,      \* the paths the requests name
    Ops,        \* the operations, each with its own identifier
    Files,
    NoEntry,    \* marks a path without an entry
    None,       \* no journal
    Initial,    \* the trees before the first request
    Text,       \* what an operation that writes writes
    Scenarios   \* the requests the operations carry, one function per scenario

VARIABLES
    fs,         \* the tree at every place
    job,        \* the request of every operation
    op,         \* its worker: where it is and what it has seen
    sidecar,    \* the phase in its journal file
    row,        \* the phase in its row of filesystem_operation_journal
    host,       \* "up", "down", or "scan" while recovery runs before serving
    recovered   \* the operations this start has looked at

vars == <<fs, job, op, sidecar, row, host, recovered>>

Stage(o) == <<"stage", o>>
Backup(o) == <<"backup", o>>
Quarantine(o) == <<"quarantine", o>>
Named == Paths \cup ({"quarantine"} \X Ops)      \* what a request can name
Place == Named \cup ({"stage", "backup"} \X Ops)
Absent == {NoEntry}
Tree == {Absent} \cup SUBSET Files

Transfers == {"copy", "move"}
Deletes == {"quarantine", "permanent"}
Request == [kind : Transfers \cup Deletes \cup {"write"},
            src : Named, dst : Named, policy : {"error", "replace"}]

\* The phases after which recovery takes the destination for published.  The
\* two phases of a cancelled transfer are treated like those of a failed one.
PublishedPhases == {"published", "removingSource", "completed", "completedWithSourceRemaining"}
Phase == PublishedPhases \cup
         {"planned", "staging", "verifying", "readyToPublish", "backingUpDestination",
          "destinationBackedUp", "publishing", "quarantining", "deleting",
          "failedRolledBack", "failedPartial"}

\* Where a worker is: the phase it has journaled last, or a step between two.
Stages == (Phase \ {"failedRolledBack", "failedPartial", "deleting", "completedWithSourceRemaining"}) \cup
          {"idle", "begun", "copying", "validated", "backedUp", "renamed", "cleaned",
           "removed", "remaining", "quarantined", "rolledBack", "partial", "checked", "ended"}
Worker == [stage : Stages, seen : Tree, listed : SUBSET Files, todo : SUBSET Files,
           backed : BOOLEAN, published : BOOLEAN]

ASSUME InstanceAssumption ==
    /\ NoEntry \notin Files
    /\ None \notin Phase
    /\ Paths \cap ({"stage", "backup", "quarantine"} \X Ops) = {}
    /\ Initial \in [Paths -> Tree]
    /\ Text \in [Ops -> SUBSET Files]
    /\ Scenarios \subseteq [Ops -> Request]

Has(p) == fs[p] # Absent
Content(p) == IF Has(p) THEN fs[p] ELSE {}
Src(o) == job[o].src
Dst(o) == job[o].dst
Kind(o) == job[o].kind

At(o, stage) == host = "up" /\ op[o].stage = stage
Running(o) == op[o].stage \notin {"idle", "ended"}
Journaled(o) == sidecar[o] # None \/ row[o] # None

\* An entry still has the identity it had when the request was authorised:
\* removals inside a directory do not change it, another entry does.
Unchanged(o, p) == Has(p) /\ op[o].seen # Absent /\ fs[p] \subseteq op[o].seen

\* What a removal that may fail half way can leave of the tree at p.
Remains(p) == IF Has(p) THEN {Absent} \cup SUBSET fs[p] ELSE {Absent}

Init ==
    /\ fs = [p \in Place |-> IF p \in Paths THEN Initial[p] ELSE Absent]
    /\ job \in Scenarios
    /\ op = [o \in Ops |-> [stage |-> "idle", seen |-> Absent, listed |-> {}, todo |-> {},
                            backed |-> FALSE, published |-> FALSE]]
    /\ sidecar = [o \in Ops |-> None]
    /\ row = [o \in Ops |-> None]
    /\ host = "up"
    /\ recovered = {}

Goto(o, stage) == op' = [op EXCEPT ![o].stage = stage]
Become(o, worker) == op' = [op EXCEPT ![o] = worker]

\* The rename of an entry to another name.
Renamed(p, q) == [fs EXCEPT ![q] = fs[p], ![p] = Absent]

\* The row of an operation: written again in every phase, deleted at the end,
\* listed when the host starts.
Recorded(o, phase) == [row EXCEPT ![o] = phase]
Unrecorded(o) == [row EXCEPT ![o] = None]
Listed(o) == row[o] # None

(***************************************************************************)
(* write_journal replaces the journal file and then upserts the row.  Each *)
(* of the two can fail, and the error ends the operation where it is.      *)
(***************************************************************************)
Journal(o, phase, next) ==
    /\ \/ /\ sidecar' = [sidecar EXCEPT ![o] = phase]
          /\ row' = Recorded(o, phase)
          /\ Goto(o, next)
       \/ /\ sidecar' \in {sidecar, [sidecar EXCEPT ![o] = phase]}
          /\ row' = row
          /\ Goto(o, "ended")
    /\ UNCHANGED <<fs, job, host, recovered>>

-----------------------------------------------------------------------------
(* Every operation: the preflight.                                         *)

\* The checks that come before the first change: what is copied, moved or
\* deleted exists...
SourceFound(o) == Kind(o) # "write" => Has(Src(o))

\* ...and a destination that may not be replaced does not.
DestinationFree(o) == Kind(o) \notin Deletes /\ job[o].policy = "error" => ~Has(Dst(o))

\* The entry whose identity the preflight keeps.
Target(o) == IF Kind(o) \in Deletes THEN Src(o) ELSE Dst(o)

Begin(o) ==
    /\ At(o, "idle")
    /\ SourceFound(o) /\ DestinationFree(o)
    /\ Become(o, [op[o] EXCEPT !.stage = "begun", !.seen = fs[Target(o)]])
    /\ UNCHANGED <<fs, job, sidecar, row, host, recovered>>

Plan(o) == At(o, "begun") /\ Kind(o) # "write" /\ Journal(o, "planned", "planned")

-----------------------------------------------------------------------------
(* transfer_safe: copy and move.                                           *)

StartStaging(o) == At(o, "planned") /\ Kind(o) \in Transfers /\ Journal(o, "staging", "staging")

\* A mutant: the root of the staged tree is not created.
MutListSource(o) ==
    /\ At(o, "staging")
    /\ Has(Src(o))
    /\ Become(o, [op[o] EXCEPT !.stage = "copying",
                               !.listed = Content(Src(o)), !.todo = Content(Src(o))])
    /\ UNCHANGED <<fs, job, sidecar, row, host, recovered>>

\* copy_tree_checked creates the root of the staged tree and lists the source...
ListSource(o) ==
    /\ At(o, "staging")
    /\ Has(Src(o))
    /\ fs' = [fs EXCEPT ![Stage(o)] = {}]
    /\ Become(o, [op[o] EXCEPT !.stage = "copying",
                               !.listed = Content(Src(o)), !.todo = Content(Src(o))])
    /\ UNCHANGED <<job, sidecar, row, host, recovered>>

\* ...and copies what it listed, one file after the other.
CopyFile(o) ==
    /\ At(o, "copying")
    /\ \E f \in op[o].todo \cap Content(Src(o)) :
          /\ fs' = [fs EXCEPT ![Stage(o)] = @ \cup {f}]
          /\ Become(o, [op[o] EXCEPT !.todo = @ \ {f}])
    /\ UNCHANGED <<job, sidecar, row, host, recovered>>

Copied(o) == At(o, "copying") /\ op[o].todo = {} /\ Journal(o, "verifying", "verifying")

\* verify_trees looks up every file of the source in the staged tree.
Verified(o) ==
    /\ At(o, "verifying")
    /\ Has(Src(o))
    /\ Content(Src(o)) \subseteq Content(Stage(o))
    /\ Journal(o, "readyToPublish", "readyToPublish")

\* A failed copy, verification, cancellation check or revalidation removes the
\* staged tree; the journal then says whether that worked, and stays.
Rollback(o) ==
    /\ \E stage \in {"staging", "copying", "verifying", "readyToPublish"} : At(o, stage)
    /\ \E t \in Remains(Stage(o)) :
          /\ fs' = [fs EXCEPT ![Stage(o)] = t]
          /\ Goto(o, IF t = Absent THEN "rolledBack" ELSE "partial")
    /\ UNCHANGED <<job, sidecar, row, host, recovered>>

EndRollback(o) ==
    \/ At(o, "rolledBack") /\ Journal(o, "failedRolledBack", "ended")
    \/ At(o, "partial") /\ Journal(o, "failedPartial", "ended")

\* The destination seen by the preflight is compared with what is there; one
\* that the preflight did not see is not.
Revalidate(o) ==
    /\ At(o, "readyToPublish")
    /\ op[o].seen # Absent => Unchanged(o, Dst(o))
    /\ Goto(o, "validated")
    /\ UNCHANGED <<fs, job, sidecar, row, host, recovered>>

PlanBackup(o) ==
    At(o, "validated") /\ Has(Dst(o)) /\ Journal(o, "backingUpDestination", "backingUpDestination")

BackUp(o) ==
    /\ At(o, "backingUpDestination")
    /\ \/ /\ Has(Dst(o))
          /\ fs' = Renamed(Dst(o), Backup(o))
          /\ Become(o, [op[o] EXCEPT !.stage = "backedUp", !.backed = TRUE])
       \/ fs' = fs /\ Goto(o, "ended")
    /\ UNCHANGED <<job, sidecar, row, host, recovered>>

BackedUp(o) == At(o, "backedUp") /\ Journal(o, "destinationBackedUp", "destinationBackedUp")

StartPublishing(o) ==
    /\ (At(o, "validated") /\ ~Has(Dst(o))) \/ At(o, "destinationBackedUp")
    /\ Journal(o, "publishing", "publishing")

\* A rename replaces a file that has appeared at the destination.
Publish(o) ==
    /\ At(o, "publishing")
    /\ fs' = Renamed(Stage(o), Dst(o))
    /\ Become(o, [op[o] EXCEPT !.stage = "renamed", !.published = TRUE])
    /\ UNCHANGED <<job, sidecar, row, host, recovered>>

\* A mutant: the error of the rename is not looked at.
MutPublishFails(o) ==
    /\ At(o, "publishing")
    /\ Goto(o, "renamed")
    /\ UNCHANGED <<fs, job, sidecar, row, host, recovered>>

\* The staged tree is removed and the backup put back, as far as that works.
PublishFails(o) ==
    /\ At(o, "publishing")
    /\ \E t \in Remains(Stage(o)), restored \in BOOLEAN :
          LET rolled == [fs EXCEPT ![Stage(o)] = t]
              back == op[o].backed /\ restored
          IN  /\ fs' = IF back THEN [rolled EXCEPT ![Dst(o)] = fs[Backup(o)], ![Backup(o)] = Absent]
                               ELSE rolled
              /\ Goto(o, IF t = Absent /\ (op[o].backed => back) THEN "rolledBack" ELSE "partial")
    /\ UNCHANGED <<job, sidecar, row, host, recovered>>

Published(o) == At(o, "renamed") /\ Journal(o, "published", "published")

\* A backup that cannot be removed is left, with a warning.
DropBackup(o) ==
    /\ At(o, "published")
    /\ \E t \in Remains(Backup(o)) : fs' = [fs EXCEPT ![Backup(o)] = t]
    /\ Goto(o, "cleaned")
    /\ UNCHANGED <<job, sidecar, row, host, recovered>>

-----------------------------------------------------------------------------
(* The removal of a source, and delete_safe.                               *)

\* The worker of a deletion checks the entry again before it touches it.
RefuseDelete(o) ==
    /\ At(o, "planned") /\ Kind(o) \in Deletes
    /\ Goto(o, "ended")
    /\ UNCHANGED <<fs, job, sidecar, row, host, recovered>>

StartRemoving(o) ==
    \/ At(o, "cleaned") /\ Kind(o) = "move" /\ Journal(o, "removingSource", "removingSource")
    \/ /\ At(o, "planned") /\ Kind(o) = "permanent" /\ Unchanged(o, Src(o))
       /\ Journal(o, "deleting", "removingSource")

\* remove_tree_checked removes the files, then the root.
RemoveFile(o) ==
    /\ At(o, "removingSource")
    /\ \E f \in Content(Src(o)) : fs' = [fs EXCEPT ![Src(o)] = @ \ {f}]
    /\ UNCHANGED <<job, op, sidecar, row, host, recovered>>

RemoveRoot(o) ==
    /\ At(o, "removingSource")
    /\ fs[Src(o)] = {}
    /\ fs' = [fs EXCEPT ![Src(o)] = Absent]
    /\ Goto(o, "removed")
    /\ UNCHANGED <<job, sidecar, row, host, recovered>>

\* A move tells of a source that stays; a permanent deletion fails.
StopRemoving(o) ==
    /\ At(o, "removingSource")
    /\ Goto(o, IF Kind(o) = "move" THEN "remaining" ELSE "ended")
    /\ UNCHANGED <<fs, job, sidecar, row, host, recovered>>

StartQuarantine(o) ==
    /\ At(o, "planned") /\ Kind(o) = "quarantine" /\ Unchanged(o, Src(o))
    /\ Journal(o, "quarantining", "quarantining")

Hide(o) ==
    /\ At(o, "quarantining")
    /\ \/ /\ Has(Src(o))
          /\ fs' = Renamed(Src(o), Quarantine(o))
          /\ Goto(o, "quarantined")
       \/ fs' = fs /\ Goto(o, "ended")
    /\ UNCHANGED <<job, sidecar, row, host, recovered>>

Complete(o) ==
    \/ /\ (At(o, "cleaned") /\ Kind(o) = "copy") \/ At(o, "removed") \/ At(o, "quarantined")
       /\ Journal(o, "completed", "completed")
    \/ At(o, "remaining") /\ Journal(o, "completedWithSourceRemaining", "completed")

\* remove_journal deletes the row, then the file; an error leaves the rest.
Forget(o) ==
    /\ At(o, "completed")
    /\ \/ sidecar' = [sidecar EXCEPT ![o] = None] /\ row' = Unrecorded(o)
       \/ sidecar' = sidecar /\ row' \in {row, Unrecorded(o)}
    /\ Goto(o, "ended")
    /\ UNCHANGED <<fs, job, host, recovered>>

\* quarantine_gc removes retained trees; it may stop half way.
CollectQuarantine(o) ==
    /\ host = "up"
    /\ Has(Quarantine(o))
    /\ \E t \in Remains(Quarantine(o)) : fs' = [fs EXCEPT ![Quarantine(o)] = t]
    /\ UNCHANGED <<job, op, sidecar, row, host, recovered>>

-----------------------------------------------------------------------------
(* write_atomic: a temporary file, a last look at the target, a rename.    *)

CheckTarget(o) ==
    /\ At(o, "begun") /\ Kind(o) = "write"
    /\ IF op[o].seen = Absent THEN ~Has(Dst(o)) ELSE Unchanged(o, Dst(o))
    /\ Goto(o, "checked")
    /\ UNCHANGED <<fs, job, sidecar, row, host, recovered>>

\* Onto a name that was free the rename does not replace.
CommitWrite(o) ==
    /\ At(o, "checked")
    /\ op[o].seen = Absent => ~Has(Dst(o))
    /\ fs' = [fs EXCEPT ![Dst(o)] = Text[o]]
    /\ Goto(o, "ended")
    /\ UNCHANGED <<job, sidecar, row, host, recovered>>

FailWrite(o) ==
    /\ (At(o, "begun") /\ Kind(o) = "write") \/ At(o, "checked")
    /\ Goto(o, "ended")
    /\ UNCHANGED <<fs, job, sidecar, row, host, recovered>>

-----------------------------------------------------------------------------
(* The end of the process, and recover_interrupted_mutations.              *)

Crash ==
    /\ host # "down"
    /\ host' = "down"
    /\ op' = [o \in Ops |-> IF Running(o) THEN [op[o] EXCEPT !.stage = "ended"] ELSE op[o]]
    /\ UNCHANGED <<fs, job, sidecar, row, recovered>>

Restart ==
    /\ host = "down"
    /\ host' = "scan"
    /\ recovered' = {}
    /\ UNCHANGED <<fs, job, op, sidecar, row>>

\* A journal file can go away with the directory it is in.
LoseSidecar(o) ==
    /\ sidecar[o] # None
    /\ sidecar' = [sidecar EXCEPT ![o] = None]
    /\ UNCHANGED <<fs, job, op, row, host, recovered>>

\* The journal files come first, then the rows of the operations not met yet.
Due(o) ==
    /\ host = "scan"
    /\ o \notin recovered
    /\ \/ sidecar[o] # None
       \/ Listed(o) /\ \A p \in Ops \ recovered : sidecar[p] = None

LastPhase(o) == IF sidecar[o] # None THEN sidecar[o] ELSE row[o]

\* What remove_journal can leave; an error ends the start of the host.
Discard(o) ==
    \/ /\ sidecar' = [sidecar EXCEPT ![o] = None]
       /\ row' = Unrecorded(o)
       /\ host' = host
    \/ /\ sidecar' = sidecar
       /\ row' \in {row, Unrecorded(o)}
       /\ host' = "down"

Keep == UNCHANGED <<sidecar, row, host>>

\* Of a deletion only the journal is removed, unless both names exist or a
\* permanent deletion has left something.
RecoverDelete(o) ==
    LET kept == IF Kind(o) = "quarantine"
                THEN Has(Src(o)) /\ Has(Quarantine(o))
                ELSE LastPhase(o) = "deleting" /\ Has(Src(o))
    IN  /\ Due(o) /\ Kind(o) \in Deletes
        /\ IF kept THEN Keep ELSE Discard(o)
        /\ recovered' = recovered \cup {o}
        /\ UNCHANGED <<fs, job, op>>

\* A mutant: only the phase tells whether the destination was published.
MutBackupRecovered(o, now) ==
    IF now[Backup(o)] = Absent THEN {now}
    ELSE IF LastPhase(o) \in PublishedPhases
    THEN {[now EXCEPT ![Backup(o)] = t] : t \in Remains(Backup(o))}
    ELSE {now, [now EXCEPT ![Dst(o)] = fs[Backup(o)], ![Backup(o)] = Absent]}

\* What can become of the backup: dropped if the destination is there or was
\* published, else put back.
BackupRecovered(o, now) ==
    IF now[Backup(o)] = Absent THEN {now}
    ELSE IF LastPhase(o) \in PublishedPhases \/ now[Dst(o)] # Absent
    THEN {[now EXCEPT ![Backup(o)] = t] : t \in Remains(Backup(o))}
    ELSE {now, [now EXCEPT ![Dst(o)] = fs[Backup(o)], ![Backup(o)] = Absent]}

\* A mutant: the journal goes, whether recovery worked or not.
MutRecoverTransfer(o) ==
    /\ Due(o) /\ Kind(o) \in Transfers
    /\ \E t \in Remains(Stage(o)) : fs' \in BackupRecovered(o, [fs EXCEPT ![Stage(o)] = t])
    /\ Discard(o)
    /\ recovered' = recovered \cup {o}
    /\ UNCHANGED <<job, op>>

\* The staged tree goes, then the backup; the journal goes once both are gone.
RecoverTransfer(o) ==
    /\ Due(o) /\ Kind(o) \in Transfers
    /\ \E t \in Remains(Stage(o)) : fs' \in BackupRecovered(o, [fs EXCEPT ![Stage(o)] = t])
    /\ IF fs'[Stage(o)] = Absent /\ fs'[Backup(o)] = Absent THEN Discard(o) ELSE Keep
    /\ recovered' = recovered \cup {o}
    /\ UNCHANGED <<job, op>>

\* With nothing left to look at the host serves requests.
Serve ==
    /\ host = "scan"
    /\ \A o \in Ops : ~Due(o)
    /\ host' = "up"
    /\ UNCHANGED <<fs, job, op, sidecar, row, recovered>>

-----------------------------------------------------------------------------

Transfer(o) ==
    \/ StartStaging(o) \/ ListSource(o) \/ CopyFile(o) \/ Copied(o) \/ Verified(o)
    \/ Rollback(o) \/ EndRollback(o) \/ Revalidate(o) \/ PlanBackup(o) \/ BackUp(o) \/ BackedUp(o)
    \/ StartPublishing(o) \/ Publish(o) \/ PublishFails(o) \/ Published(o) \/ DropBackup(o)

Removal(o) ==
    \/ RefuseDelete(o) \/ StartRemoving(o) \/ RemoveFile(o) \/ RemoveRoot(o) \/ StopRemoving(o)
    \/ StartQuarantine(o) \/ Hide(o) \/ Complete(o) \/ Forget(o) \/ CollectQuarantine(o)

Write(o) == CheckTarget(o) \/ CommitWrite(o) \/ FailWrite(o)

Recovery(o) == LoseSidecar(o) \/ RecoverDelete(o) \/ RecoverTransfer(o)

Next ==
    \/ \E o \in Ops : Begin(o) \/ Plan(o) \/ Transfer(o) \/ Removal(o) \/ Write(o) \/ Recovery(o)
    \/ Crash \/ Restart \/ Serve

Spec == Init /\ [][Next]_vars

-----------------------------------------------------------------------------
TypeOK ==
    /\ fs \in [Place -> Tree]
    /\ job \in Scenarios
    /\ op \in [Ops -> Worker]
    /\ sidecar \in [Ops -> Phase \cup {None}]
    /\ row \in [Ops -> Phase \cup {None}]
    /\ host \in {"up", "down", "scan"}
    /\ recovered \subseteq Ops

(***************************************************************************)
(* Nothing is orphaned: a staged tree, and the backup of a destination     *)
(* that has not been replaced, belong to a worker or have a journal that   *)
(* the next start of the host finds, whichever write of it failed.         *)
(***************************************************************************)
Owned ==
    \A o \in Ops :
        Has(Stage(o)) \/ (Has(Backup(o)) /\ ~op[o].published) => Running(o) \/ Journaled(o)

(***************************************************************************)
(* Requests that keep apart: nobody else fills the destination of a        *)
(* transfer, or the source of a move; and what is at a destination is      *)
(* taken away only by the deletion the transfer restores.  Of requests     *)
(* that do not, a reader is promised nothing: a transfer does not look at  *)
(* its destination again before it drops the backup of it.                 *)
(***************************************************************************)
Fillers == Transfers \cup {"write"}
Takers == Deletes \cup {"move"}
Apart ==
    \A o, p \in Ops :
        /\ Kind(o) \in Fillers => Dst(o) \in Paths
        /\ Kind(o) \in Transfers /\ Kind(p) \in Fillers /\ p # o => Dst(p) # Dst(o)
        /\ Kind(o) \in Transfers /\ Kind(p) \in Takers /\ Src(p) = Dst(o) =>
              Kind(p) = "quarantine" /\ Src(o) = Quarantine(p)
        /\ Kind(o) = "move" /\ Kind(p) \in Fillers => Dst(p) # Src(o)

(***************************************************************************)
(* A reader sees whole trees: what is at a path, or the backup of it while *)
(* a request that has not published has it out of its place.  Requests     *)
(* that keep apart do what TreeTransfer says of what a reader sees, and    *)
(* the recovery after a crash changes nothing of it.                       *)
(***************************************************************************)
Visible(p) ==
    IF ~Has(p) /\ \E o \in Ops : Dst(o) = p /\ Has(Backup(o)) /\ ~op[o].published
    THEN fs[Backup(CHOOSE o \in Ops : Dst(o) = p /\ Has(Backup(o)) /\ ~op[o].published)]
    ELSE fs[p]

Reader == INSTANCE TreeTransfer WITH
    tree <- IF Apart THEN [p \in Named |-> Visible(p)] ELSE [p \in Named |-> Absent],
    taken <- IF Apart THEN [o \in Ops |-> op[o].listed] ELSE [o \in Ops |-> {}],
    done <- IF Apart THEN {o \in Ops : op[o].published} ELSE {}

RefinesTransfer == Reader!Spec
=============================================================================
