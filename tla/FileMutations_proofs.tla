------------------------ MODULE FileMutations_proofs ------------------------
(***************************************************************************)
(* Proofs about FileMutations: types, that nothing is orphaned, and that   *)
(* the source of a move nobody disturbs is safe, for every set of          *)
(* requests.                                                               *)
(***************************************************************************)
EXTENDS MoveSources, TLAPS

\* The stages of a transfer before and after the staged tree is published.
Middle == {"staging", "copying", "verifying", "readyToPublish", "validated",
           "backingUpDestination", "backedUp", "destinationBackedUp", "publishing",
           "rolledBack", "partial"}
Early == {"idle", "begun", "planned"} \cup Middle
Late == {"renamed", "published", "cleaned", "removingSource", "removed", "remaining", "completed"}

\* A staged tree, or a backup that is still the only copy of a destination.
Limbo(o) == Has(Stage(o)) \/ (Has(Backup(o)) /\ ~op[o].published)

(***************************************************************************)
(* The strengthening.  A row is there from the first journaled phase until *)
(* nothing is in limbo, so that the loss of a journal file, and every      *)
(* failed write of one, leave recovery its row; and once published a       *)
(* transfer has no staged tree.                                            *)
(***************************************************************************)
Rooted(o) ==
    /\ Kind(o) \notin Transfers => ~Has(Stage(o)) /\ ~Has(Backup(o))
    /\ Limbo(o) => row[o] # None
    /\ op[o].stage \notin {"idle", "begun", "checked", "ended"} => row[o] # None
    /\ op[o].stage \in Early => ~op[o].published
    /\ op[o].stage \in Late /\ Kind(o) \in Transfers => op[o].published
    /\ op[o].stage \in Middle => Kind(o) \in Transfers
    /\ op[o].stage = "copying" => Has(Stage(o))
    /\ op[o].stage \in {"quarantining", "quarantined"} => Kind(o) \notin Transfers
    /\ op[o].published => ~Has(Stage(o))
    /\ host # "up" => ~Running(o)

IInv == TypeOK /\ \A o \in Ops : Rooted(o)

-----------------------------------------------------------------------------
(* Places.                                                                 *)

\* The places of two operations, and those a request names, are distinct.
LEMMA Places ==
    ASSUME NEW o \in Ops, NEW p \in Ops, NEW q \in Named
    PROVE  /\ Stage(o) \in Place /\ Backup(o) \in Place /\ q \in Place
           /\ Quarantine(o) \in Named
           /\ Stage(o) # q /\ Backup(o) # q
           /\ Stage(o) # Backup(p)
           /\ o # p => Stage(o) # Stage(p) /\ Backup(o) # Backup(p)
BY InstanceAssumption DEF Stage, Backup, Quarantine, Place, Named

\* The request of an operation.
LEMMA Requests ==
    ASSUME TypeOK, NEW o \in Ops
    PROVE  /\ Src(o) \in Named /\ Dst(o) \in Named
           /\ Kind(o) \in Transfers \cup Deletes \cup {"write"}
BY InstanceAssumption DEF TypeOK, Src, Dst, Kind, Request

\* An operation whose own places, row and worker stay as they are.
LEMMA Frame ==
    ASSUME NEW o \in Ops, Rooted(o), job' = job,
           fs'[Stage(o)] = fs[Stage(o)], fs'[Backup(o)] = fs[Backup(o)],
           row'[o] = row[o], op'[o] = op[o], host' = host \/ ~Running(o)
    PROVE  Rooted(o)'
BY DEF Rooted, Limbo, Running, Has, Kind, Stage, Backup

-----------------------------------------------------------------------------
(* Steps that leave the trees alone.                                       *)

\* A worker that goes to another stage.
LEMMA Move ==
    ASSUME TypeOK, NEW o \in Ops, NEW s \in Stages, Goto(o, s)
    PROVE  /\ op' \in [Ops -> Worker]
           /\ op'[o].stage = s /\ op'[o].published = op[o].published
           /\ \A p \in Ops \ {o} : op'[p] = op[p]
BY DEF TypeOK, Goto, Worker

\* What a worker may go to without touching the trees.
Fits(o, s) ==
    /\ s \in Early => ~op[o].published
    /\ s \in Late /\ Kind(o) \in Transfers => op[o].published
    /\ s \in Middle => Kind(o) \in Transfers
    /\ s = "copying" => Has(Stage(o))
    /\ s \in {"quarantining", "quarantined"} => Kind(o) \notin Transfers

LEMMA Moved ==
    ASSUME IInv, NEW o \in Ops, NEW s \in Stages, Goto(o, s), host = "up", Fits(o, s),
           s \notin {"idle", "begun", "checked", "ended"} => row[o] # None,
           UNCHANGED <<fs, job, sidecar, row, host, recovered>>
    PROVE  IInv'
<1>1. /\ op' \in [Ops -> Worker]
      /\ op'[o].stage = s /\ op'[o].published = op[o].published
      /\ \A p \in Ops \ {o} : op'[p] = op[p]
  BY Move DEF IInv
<1>2. TypeOK'
  BY <1>1 DEF IInv, TypeOK
<1>3. Rooted(o)'
  BY <1>1 DEF IInv, Rooted, Limbo, Running, Has, Kind, Stage, Backup, Fits
<1>4. ASSUME NEW p \in Ops \ {o} PROVE Rooted(p)'
  BY <1>1, Frame DEF IInv
<1>5. QED BY <1>2, <1>3, <1>4 DEF IInv

LEMMA Journals ==
    ASSUME IInv, NEW o \in Ops, NEW ph \in Phase, NEW s \in Stages, Journal(o, ph, s),
           host = "up", Fits(o, s)
    PROVE  IInv'
<1>1. CASE sidecar' = [sidecar EXCEPT ![o] = ph] /\ row' = Recorded(o, ph) /\ Goto(o, s)
  <2>1. /\ op' \in [Ops -> Worker]
        /\ op'[o].stage = s /\ op'[o].published = op[o].published
        /\ \A p \in Ops \ {o} : op'[p] = op[p]
    BY <1>1, Move DEF IInv
  <2>2. UNCHANGED <<fs, job, host, recovered>>
    BY DEF Journal
  <2>3. /\ sidecar' \in [Ops -> Phase \cup {None}] /\ row' \in [Ops -> Phase \cup {None}]
        /\ row'[o] = ph /\ ph # None
        /\ \A p \in Ops \ {o} : row'[p] = row[p]
    BY <1>1, InstanceAssumption DEF IInv, TypeOK, Recorded
  <2>4. TypeOK'
    BY <2>1, <2>2, <2>3 DEF IInv, TypeOK
  <2>5. Rooted(o)'
    BY <2>1, <2>2, <2>3 DEF IInv, Rooted, Limbo, Running, Has, Kind, Stage, Backup, Fits
  <2>6. ASSUME NEW p \in Ops \ {o} PROVE Rooted(p)'
    BY <2>1, <2>2, <2>3, Frame DEF IInv
  <2>7. QED BY <2>4, <2>5, <2>6 DEF IInv
<1>2. CASE /\ sidecar' \in {sidecar, [sidecar EXCEPT ![o] = ph]}
           /\ row' = row
           /\ Goto(o, "ended")
  <2>1. /\ op' \in [Ops -> Worker]
        /\ op'[o].stage = "ended" /\ op'[o].published = op[o].published
        /\ \A p \in Ops \ {o} : op'[p] = op[p]
    BY <1>2, Move DEF IInv, Stages
  <2>2. UNCHANGED <<fs, job, host, recovered>>
    BY DEF Journal
  <2>3. sidecar' \in [Ops -> Phase \cup {None}]
    BY <1>2 DEF IInv, TypeOK
  <2>4. TypeOK'
    BY <1>2, <2>1, <2>2, <2>3 DEF IInv, TypeOK
  <2>5. Rooted(o)'
    BY <1>2, <2>1, <2>2 DEF IInv, Rooted, Limbo, Running, Has, Kind, Stage, Backup, Early, Middle, Late
  <2>6. ASSUME NEW p \in Ops \ {o} PROVE Rooted(p)'
    BY <1>2, <2>1, <2>2, Frame DEF IInv
  <2>7. QED BY <2>4, <2>5, <2>6 DEF IInv
<1>3. QED BY <1>1, <1>2 DEF Journal

\* Every step that writes the journal.
LEMMA JournalSteps ==
    ASSUME IInv, NEW o \in Ops,
           \/ Plan(o) \/ StartStaging(o) \/ Copied(o) \/ Verified(o) \/ EndRollback(o)
           \/ PlanBackup(o) \/ BackedUp(o) \/ StartPublishing(o) \/ Published(o)
           \/ StartRemoving(o) \/ StartQuarantine(o) \/ Complete(o)
    PROVE  IInv'
<1> USE DEF At, IInv, Rooted, Fits, Early, Middle, Late, Stages, Phase, PublishedPhases
<1>1. CASE Plan(o)              BY <1>1, Journals DEF Plan
<1>2. CASE StartStaging(o)      BY <1>2, Journals DEF StartStaging
<1>3. CASE Copied(o)            BY <1>3, Journals DEF Copied
<1>4. CASE Verified(o)          BY <1>4, Journals DEF Verified
<1>5. CASE EndRollback(o)       BY <1>5, Journals DEF EndRollback
<1>6. CASE PlanBackup(o)        BY <1>6, Journals DEF PlanBackup
<1>7. CASE BackedUp(o)          BY <1>7, Journals DEF BackedUp
<1>8. CASE StartPublishing(o)   BY <1>8, Journals DEF StartPublishing
<1>9. CASE Published(o)         BY <1>9, Journals DEF Published
<1>10. CASE StartRemoving(o)    BY <1>10, Journals DEF StartRemoving, Transfers
<1>11. CASE StartQuarantine(o)  BY <1>11, Journals DEF StartQuarantine, Transfers
<1>12. CASE Complete(o)         BY <1>12, Journals DEF Complete
<1>13. QED BY <1>1, <1>2, <1>3, <1>4, <1>5, <1>6, <1>7, <1>8, <1>9, <1>10, <1>11, <1>12


\* Every other step of a worker that leaves the trees alone.
LEMMA QuietSteps ==
    ASSUME IInv, NEW o \in Ops,
           Revalidate(o) \/ RefuseDelete(o) \/ StopRemoving(o) \/ CheckTarget(o) \/ FailWrite(o)
    PROVE  IInv'
<1> USE DEF At, IInv, Rooted, Fits, Early, Middle, Late, Stages, Phase, PublishedPhases
<1>1. CASE Revalidate(o)        BY <1>1, Moved DEF Revalidate
<1>2. CASE RefuseDelete(o)      BY <1>2, Moved DEF RefuseDelete
<1>3. CASE StopRemoving(o)
  <2>1. CASE Kind(o) = "move"   BY <1>3, <2>1, Moved DEF StopRemoving
  <2>2. CASE Kind(o) # "move"   BY <1>3, <2>2, Moved DEF StopRemoving
  <2>3. QED BY <2>1, <2>2
<1>4. CASE CheckTarget(o)       BY <1>4, Moved DEF CheckTarget
<1>5. CASE FailWrite(o)         BY <1>5, Moved DEF FailWrite
<1>6. QED BY <1>1, <1>2, <1>3, <1>4, <1>5

\* A record that begins differs in the stage and in what was seen.
LEMMA BeginStep == ASSUME IInv, NEW o \in Ops, Begin(o) PROVE IInv'
<1> DEFINE target == IF Kind(o) \in Deletes THEN Src(o) ELSE Dst(o)
<1>1. target \in Place
  BY Requests, Places DEF IInv
<1>2. fs[target] \in Tree
  BY <1>1 DEF IInv, TypeOK
<1>3. Become(o, [op[o] EXCEPT !.stage = "begun", !.seen = fs[target]])
  BY DEF Begin, Target
<1>4. op[o].stage = "idle" /\ host = "up" /\ UNCHANGED <<fs, job, sidecar, row, host, recovered>>
  BY DEF Begin, At
<1> HIDE DEF target
<1>5. /\ op' \in [Ops -> Worker]
      /\ op'[o].stage = "begun" /\ op'[o].published = op[o].published
      /\ \A p \in Ops \ {o} : op'[p] = op[p]
  <2>1. "begun" \in Stages
    BY DEF Stages
  <2>2. QED BY <1>2, <1>3, <2>1 DEF IInv, TypeOK, Worker, Become
<1>6. TypeOK'
  BY <1>4, <1>5 DEF IInv, TypeOK
<1>7. Rooted(o)'
  BY <1>4, <1>5 DEF IInv, Rooted, Limbo, Running, Has, Kind, Stage, Backup, Early, Middle, Late
<1>8. ASSUME NEW p \in Ops \ {o} PROVE Rooted(p)'
  BY <1>4, <1>5, Frame DEF IInv
<1>9. QED BY <1>6, <1>7, <1>8 DEF IInv

-----------------------------------------------------------------------------
(* Steps on the places a request names.                                    *)

\* Trees of named places that change leave every staged tree and backup alone.
LEMMA NamedPlaces ==
    ASSUME TypeOK, fs' \in [Place -> Tree],
           \A q \in Place \ Named : fs'[q] = fs[q], NEW p \in Ops
    PROVE  fs'[Stage(p)] = fs[Stage(p)] /\ fs'[Backup(p)] = fs[Backup(p)]
<1>1. Stage(p) \in Place \ Named /\ Backup(p) \in Place \ Named
  BY InstanceAssumption DEF Stage, Backup, Place, Named
<1>2. QED BY <1>1

LEMMA OnNamed ==
    ASSUME IInv, NEW o \in Ops, NEW s \in Stages, fs' \in [Place -> Tree],
           \A q \in Place \ Named : fs'[q] = fs[q],
           op' = op \/ Goto(o, s), host = "up", Fits(o, s),
           s \notin {"idle", "begun", "checked", "ended"} => row[o] # None,
           UNCHANGED <<job, sidecar, row, host, recovered>>
    PROVE  IInv'
<1>1. \A p \in Ops : fs'[Stage(p)] = fs[Stage(p)] /\ fs'[Backup(p)] = fs[Backup(p)]
  BY NamedPlaces DEF IInv
<1>2. CASE op' = op
  <2>1. TypeOK'
    BY <1>2 DEF IInv, TypeOK
  <2>2. ASSUME NEW p \in Ops PROVE Rooted(p)'
    BY <1>1, <1>2, Frame DEF IInv
  <2>3. QED BY <2>1, <2>2 DEF IInv
<1>3. CASE Goto(o, s)
  <2>1. /\ op' \in [Ops -> Worker]
        /\ op'[o].stage = s /\ op'[o].published = op[o].published
        /\ \A p \in Ops \ {o} : op'[p] = op[p]
    BY <1>3, Move DEF IInv
  <2>2. TypeOK'
    BY <2>1 DEF IInv, TypeOK
  <2>3. Rooted(o)'
    BY <1>1, <2>1 DEF IInv, Rooted, Limbo, Running, Has, Kind, Stage, Backup, Fits
  <2>4. ASSUME NEW p \in Ops \ {o} PROVE Rooted(p)'
    BY <1>1, <2>1, Frame DEF IInv
  <2>5. QED BY <2>2, <2>3, <2>4 DEF IInv
<1>4. QED BY <1>2, <1>3

\* What removals leave, and renames between places, are trees.
LEMMA TreesStay ==
    ASSUME TypeOK, NEW p \in Place
    PROVE  /\ fs[p] \in Tree /\ Remains(p) \subseteq Tree /\ Absent \in Tree
           /\ \A t \in Tree : [fs EXCEPT ![p] = t] \in [Place -> Tree]
           /\ \A q \in Place : Renamed(p, q) \in [Place -> Tree]
BY DEF TypeOK, Remains, Tree, Has, Renamed

LEMMA NamedSteps ==
    ASSUME IInv, NEW o \in Ops,
           RemoveFile(o) \/ RemoveRoot(o) \/ Hide(o) \/ CollectQuarantine(o) \/ CommitWrite(o)
    PROVE  IInv'
<1>1. /\ Src(o) \in Named /\ Dst(o) \in Named /\ Quarantine(o) \in Named
      /\ Src(o) \in Place /\ Dst(o) \in Place /\ Quarantine(o) \in Place
  BY Requests, Places DEF IInv
<1>2. TypeOK /\ Rooted(o) /\ "ended" \in Stages /\ "removed" \in Stages /\ "quarantined" \in Stages
  BY DEF IInv, Stages
<1>3. CASE RemoveFile(o)
  <2>1. PICK f \in Content(Src(o)) : fs' = [fs EXCEPT ![Src(o)] = @ \ {f}]
    BY <1>3 DEF RemoveFile
  <2>2. fs[Src(o)] \ {f} \in Tree
    BY <1>1, <1>2, <2>1, TreesStay DEF Content, Has, Tree
  <2>3. fs' \in [Place -> Tree] /\ \A q \in Place \ Named : fs'[q] = fs[q]
    BY <1>1, <1>2, <2>1, <2>2 DEF TypeOK
  <2>4. Fits(o, "ended")
    BY DEF Fits, Early, Middle, Late
  <2>5. QED BY <1>2, <1>3, <2>3, <2>4, OnNamed DEF RemoveFile, At
<1>4. CASE RemoveRoot(o)
  <2>1. fs' \in [Place -> Tree] /\ \A q \in Place \ Named : fs'[q] = fs[q]
    BY <1>1, <1>2, <1>4, TreesStay DEF RemoveRoot, TypeOK
  <2>2. Fits(o, "removed") /\ row[o] # None
    BY <1>2, <1>4 DEF RemoveRoot, At, Rooted, Fits, Early, Middle, Late
  <2>3. QED BY <1>2, <1>4, <2>1, <2>2, OnNamed DEF RemoveRoot, At
<1>5. CASE Hide(o)
  <2>1. fs' \in [Place -> Tree] /\ \A q \in Place \ Named : fs'[q] = fs[q]
    BY <1>1, <1>2, <1>5, TreesStay DEF Hide, TypeOK, Renamed
  <2>2. Fits(o, "quarantined") /\ Fits(o, "ended") /\ row[o] # None
    BY <1>2, <1>5 DEF Hide, At, Rooted, Fits, Early, Middle, Late
  <2>3. QED BY <1>2, <1>5, <2>1, <2>2, OnNamed DEF Hide, At
<1>6. CASE CollectQuarantine(o)
  <2>1. fs' \in [Place -> Tree] /\ \A q \in Place \ Named : fs'[q] = fs[q]
    BY <1>1, <1>2, <1>6, TreesStay DEF CollectQuarantine, TypeOK
  <2>2. Fits(o, "ended")
    BY DEF Fits, Early, Middle, Late
  <2>3. QED BY <1>2, <1>6, <2>1, <2>2, OnNamed DEF CollectQuarantine
<1>7. CASE CommitWrite(o)
  <2>1. Text[o] \in Tree
    BY InstanceAssumption DEF Tree
  <2>2. fs' \in [Place -> Tree] /\ \A q \in Place \ Named : fs'[q] = fs[q]
    BY <1>1, <1>2, <1>7, <2>1 DEF CommitWrite, TypeOK
  <2>3. Fits(o, "ended")
    BY DEF Fits, Early, Middle, Late
  <2>4. QED BY <1>2, <1>7, <2>2, <2>3, OnNamed DEF CommitWrite, At
<1>8. QED BY <1>3, <1>4, <1>5, <1>6, <1>7


-----------------------------------------------------------------------------
(* Steps on the staged tree and the backup of an operation.                *)

\* The places a transfer changes, seen from the other operations.
LEMMA OnOwn ==
    ASSUME IInv, NEW o \in Ops, fs' \in [Place -> Tree],
           \A q \in Place \ (Named \cup {Stage(o), Backup(o)}) : fs'[q] = fs[q],
           op' \in [Ops -> Worker], \A p \in Ops \ {o} : op'[p] = op[p],
           Rooted(o)', UNCHANGED <<job, sidecar, row, host, recovered>>
    PROVE  IInv'
<1>1. TypeOK'
  BY DEF IInv, TypeOK
<1>2. ASSUME NEW p \in Ops \ {o} PROVE Rooted(p)'
  <2>1. Stage(p) \in Place \ (Named \cup {Stage(o), Backup(o)})
    BY InstanceAssumption DEF Stage, Backup, Place, Named
  <2>2. Backup(p) \in Place \ (Named \cup {Stage(o), Backup(o)})
    BY InstanceAssumption DEF Stage, Backup, Place, Named
  <2>3. QED BY <2>1, <2>2, Frame DEF IInv
<1>3. QED BY <1>1, <1>2 DEF IInv

\* The shape of a worker that becomes another one.
LEMMA Becomes ==
    ASSUME TypeOK, NEW o \in Ops, NEW w \in Worker, Become(o, w)
    PROVE  op' \in [Ops -> Worker] /\ op'[o] = w /\ \A p \in Ops \ {o} : op'[p] = op[p]
BY DEF TypeOK, Become

LEMMA OwnSteps ==
    ASSUME IInv, NEW o \in Ops,
           \/ ListSource(o) \/ CopyFile(o) \/ Rollback(o) \/ BackUp(o)
           \/ Publish(o) \/ PublishFails(o) \/ DropBackup(o)
    PROVE  IInv'
<1> DEFINE S == Stage(o)  B == Backup(o)  D == Dst(o)
<1>1. /\ S \in Place /\ B \in Place /\ D \in Place /\ D \in Named
      /\ S # B /\ S # D /\ B # D
  BY Places, Requests DEF IInv
<1>2. /\ TypeOK /\ Rooted(o) /\ op[o] \in Worker
      /\ fs[S] \in Tree /\ fs[B] \in Tree /\ fs[D] \in Tree /\ Absent \in Tree
      /\ Remains(S) \subseteq Tree /\ Remains(B) \subseteq Tree
  BY <1>1, TreesStay DEF IInv, TypeOK
<1>3. Src(o) \in Place
  BY Requests, Places DEF IInv
<1>4. Content(Src(o)) \subseteq Files
  BY <1>2, <1>3 DEF Content, Has, TypeOK, Tree
<1>5. UNCHANGED <<job, sidecar, row, host, recovered>> /\ host = "up"
  BY DEF ListSource, CopyFile, Rollback, BackUp, Publish, PublishFails, DropBackup, At
<1> HIDE DEF S, B, D
<1>6. CASE ListSource(o)
  <2>1. [op[o] EXCEPT !.stage = "copying", !.listed = Content(Src(o)), !.todo = Content(Src(o))]
           \in Worker
    BY <1>2, <1>4 DEF Worker, Stages
  <2>2. /\ op' \in [Ops -> Worker]
        /\ op'[o].stage = "copying" /\ op'[o].published = op[o].published
        /\ \A p \in Ops \ {o} : op'[p] = op[p]
    BY <1>2, <1>6, <2>1, Becomes DEF ListSource, Worker
  <2>3. fs' = [fs EXCEPT ![S] = {}] /\ {} \in Tree
    BY <1>6 DEF ListSource, Tree, S
  <2>4. Kind(o) \in Transfers /\ row[o] # None /\ ~op[o].published
    BY <1>2, <1>6 DEF ListSource, At, Rooted, Early, Middle
  <2>5. fs' \in [Place -> Tree] /\ \A q \in Place \ (Named \cup {S, B}) : fs'[q] = fs[q]
    BY <1>1, <1>2, <2>3 DEF TypeOK
  <2>6. Rooted(o)'
    <3>1. fs'[S] # Absent
      BY <1>1, <1>2, <2>3, InstanceAssumption DEF TypeOK, Absent
    <3>2. QED BY <1>5, <2>2, <2>4, <3>1 DEF Rooted, Limbo, Kind, Early, Middle, Late, Has, S, Stage
  <2>7. QED BY <1>5, <2>2, <2>5, <2>6, OnOwn DEF S, B
<1>7. CASE CopyFile(o)
  <2>1. PICK f \in op[o].todo \cap Content(Src(o)) :
          /\ fs' = [fs EXCEPT ![S] = @ \cup {f}]
          /\ Become(o, [op[o] EXCEPT !.todo = @ \ {f}])
    BY <1>7 DEF CopyFile, S
  <2>2. [op[o] EXCEPT !.todo = @ \ {f}] \in Worker
    BY <1>2 DEF Worker
  <2>3. /\ op' \in [Ops -> Worker]
        /\ op'[o].stage = op[o].stage /\ op'[o].published = op[o].published
        /\ \A p \in Ops \ {o} : op'[p] = op[p]
    BY <1>2, <2>1, <2>2, Becomes DEF Worker
  <2>4. Kind(o) \in Transfers /\ row[o] # None /\ ~op[o].published /\ op[o].stage = "copying"
    BY <1>2, <1>7 DEF CopyFile, At, Rooted, Early, Middle
  <2>5. fs[S] \cup {f} \in Tree

    <3>1. fs[S] \in SUBSET Files
      BY <1>2, <2>4 DEF Rooted, Has, Tree, S
    <3>2. f \in Files
      BY <1>4, <2>1
    <3>3. QED BY <3>1, <3>2 DEF Tree
  <2>6. fs' \in [Place -> Tree] /\ \A q \in Place \ (Named \cup {S, B}) : fs'[q] = fs[q]
    BY <1>1, <1>2, <2>1, <2>5 DEF TypeOK
  <2>7. Rooted(o)'
    <3>1. fs'[S] # Absent
      <4>1. fs[S] \in SUBSET Files /\ f \in Files /\ fs'[S] = fs[S] \cup {f}
        BY <1>1, <1>2, <1>4, <2>1, <2>4 DEF Rooted, Has, Tree, TypeOK, S
      <4>2. QED BY <4>1, InstanceAssumption DEF Absent
    <3>2. QED BY <1>5, <2>3, <2>4, <3>1 DEF Rooted, Limbo, Kind, Early, Middle, Late, Has, S, Stage
  <2>8. QED BY <1>5, <2>3, <2>6, <2>7, OnOwn DEF S, B
<1>8. CASE Rollback(o)
  <2>1. PICK t \in Remains(S) :
          /\ fs' = [fs EXCEPT ![S] = t]
          /\ Goto(o, IF t = Absent THEN "rolledBack" ELSE "partial")
    BY <1>8 DEF Rollback, S
  <2>2. PICK s \in {"rolledBack", "partial"} : Goto(o, s)
    BY <2>1
  <2>3. /\ op' \in [Ops -> Worker]
        /\ op'[o].stage = s /\ op'[o].published = op[o].published
        /\ \A p \in Ops \ {o} : op'[p] = op[p]
    BY <1>2, <2>2, Move DEF Stages
  <2>4. Kind(o) \in Transfers /\ row[o] # None /\ ~op[o].published
    BY <1>2, <1>8 DEF Rollback, At, Rooted, Early, Middle
  <2>5. fs' \in [Place -> Tree] /\ \A q \in Place \ (Named \cup {S, B}) : fs'[q] = fs[q]
    BY <1>1, <1>2, <2>1 DEF TypeOK
  <2>6. Rooted(o)'
    BY <1>5, <2>3, <2>4 DEF Rooted, Limbo, Kind, Early, Middle, Late
  <2>7. QED BY <1>5, <2>3, <2>5, <2>6, OnOwn DEF S, B
<1>9. CASE BackUp(o)
  <2>1. Kind(o) \in Transfers /\ row[o] # None /\ ~op[o].published
    BY <1>2, <1>9 DEF BackUp, At, Rooted, Early, Middle
  <2>2. CASE fs' = Renamed(D, B) /\ Become(o, [op[o] EXCEPT !.stage = "backedUp", !.backed = TRUE])
    <3> DEFINE w == [op[o] EXCEPT !.stage = "backedUp", !.backed = TRUE]
    <3>1. w \in Worker /\ w.stage = "backedUp" /\ w.published = op[o].published
      BY <1>2 DEF Worker, Stages
    <3> HIDE DEF w
    <3>2. /\ op' \in [Ops -> Worker]
          /\ op'[o].stage = "backedUp" /\ op'[o].published = op[o].published
          /\ \A p \in Ops \ {o} : op'[p] = op[p]
      <4>1. Become(o, w)
        BY <2>2 DEF w
      <4>2. QED BY <1>2, <3>1, <4>1, Becomes
    <3>3. fs' \in [Place -> Tree] /\ \A q \in Place \ (Named \cup {S, B}) : fs'[q] = fs[q]
      BY <1>1, <1>2, <2>2 DEF TypeOK, Renamed
    <3>4. Rooted(o)'
      BY <1>5, <2>1, <3>2 DEF Rooted, Limbo, Kind, Early, Middle, Late
    <3>5. QED BY <1>5, <3>2, <3>3, <3>4, OnOwn DEF S, B
  <2>3. CASE fs' = fs /\ Goto(o, "ended")
    BY <1>2, <1>5, <2>3, Moved DEF Fits, Early, Middle, Late, Stages
  <2>4. QED BY <1>9, <2>2, <2>3 DEF BackUp, D, B
<1>10. CASE Publish(o)
  <2> DEFINE w == [op[o] EXCEPT !.stage = "renamed", !.published = TRUE]
  <2>1. w \in Worker /\ w.stage = "renamed" /\ w.published = TRUE
    BY <1>2 DEF Worker, Stages
  <2> HIDE DEF w
  <2>2. /\ op' \in [Ops -> Worker]
        /\ op'[o].stage = "renamed" /\ op'[o].published = TRUE
        /\ \A p \in Ops \ {o} : op'[p] = op[p]
    <3>1. Become(o, w)
      BY <1>10 DEF w, Publish
    <3>2. QED BY <1>2, <2>1, <3>1, Becomes
  <2>3. Kind(o) \in Transfers /\ row[o] # None
    BY <1>2, <1>10 DEF Publish, At, Rooted, Early, Middle
  <2>4. /\ fs' \in [Place -> Tree] /\ \A q \in Place \ (Named \cup {S, B}) : fs'[q] = fs[q]
        /\ fs'[S] = Absent
    BY <1>1, <1>2, <1>10 DEF Publish, TypeOK, Renamed, S, D
  <2>5. Rooted(o)'
    BY <1>5, <2>2, <2>3, <2>4 DEF Rooted, Limbo, Kind, Early, Middle, Late, Has, S, Stage
  <2>6. QED BY <1>5, <2>2, <2>4, <2>5, OnOwn DEF S, B
<1>11. CASE PublishFails(o)
  <2>1. PICK t \in Remains(S), restored \in BOOLEAN :
          /\ fs' = IF op[o].backed /\ restored
                   THEN [[fs EXCEPT ![S] = t] EXCEPT ![D] = fs[B], ![B] = Absent]
                   ELSE [fs EXCEPT ![S] = t]
          /\ Goto(o, IF t = Absent /\ (op[o].backed => op[o].backed /\ restored)
                     THEN "rolledBack" ELSE "partial")
    BY <1>11 DEF PublishFails, S, B, D
  <2>2. PICK s \in {"rolledBack", "partial"} : Goto(o, s)
    BY <2>1
  <2>3. /\ op' \in [Ops -> Worker]
        /\ op'[o].stage = s /\ op'[o].published = op[o].published
        /\ \A p \in Ops \ {o} : op'[p] = op[p]
    BY <1>2, <2>2, Move DEF Stages
  <2>4. Kind(o) \in Transfers /\ row[o] # None /\ ~op[o].published
    BY <1>2, <1>11 DEF PublishFails, At, Rooted, Early, Middle
  <2>5. [fs EXCEPT ![S] = t] \in [Place -> Tree]
    BY <1>1, <1>2 DEF TypeOK
  <2>6. fs' \in [Place -> Tree] /\ \A q \in Place \ (Named \cup {S, B}) : fs'[q] = fs[q]
    BY <1>1, <1>2, <2>1, <2>5 DEF TypeOK
  <2>7. Rooted(o)'
    BY <1>5, <2>3, <2>4 DEF Rooted, Limbo, Kind, Early, Middle, Late
  <2>8. QED BY <1>5, <2>3, <2>6, <2>7, OnOwn DEF S, B
<1>12. CASE DropBackup(o)
  <2>1. PICK t \in Remains(B) : fs' = [fs EXCEPT ![B] = t]
    BY <1>12 DEF DropBackup, B
  <2>2. /\ op' \in [Ops -> Worker]
        /\ op'[o].stage = "cleaned" /\ op'[o].published = op[o].published
        /\ \A p \in Ops \ {o} : op'[p] = op[p]
    BY <1>2, <1>12, Move DEF DropBackup, Stages
  <2>3. row[o] # None /\ op[o].stage = "published"
    BY <1>2, <1>12 DEF DropBackup, At, Rooted
  <2>4. fs' \in [Place -> Tree] /\ \A q \in Place \ (Named \cup {S, B}) : fs'[q] = fs[q]
    BY <1>1, <1>2, <2>1 DEF TypeOK
  <2>5. fs'[S] = fs[S] /\ (fs[B] = Absent => fs'[B] = Absent)
    BY <1>1, <1>2, <2>1 DEF TypeOK, Remains, Has
  <2>6. Rooted(o)'
    BY <1>2, <1>5, <2>2, <2>3, <2>5 DEF Rooted, Limbo, Kind, Early, Middle, Late, Has, S, B, Stage, Backup
  <2>7. QED BY <1>5, <2>2, <2>4, <2>6, OnOwn DEF S, B
<1>13. QED BY <1>6, <1>7, <1>8, <1>9, <1>10, <1>11, <1>12

-----------------------------------------------------------------------------
(* The end of an operation, and of the process.                            *)

\* A journal goes only when nothing is in limbo.
LEMMA ForgetStep == ASSUME IInv, NEW o \in Ops, Forget(o) PROVE IInv'
<1>1. /\ TypeOK /\ Rooted(o) /\ op[o].stage = "completed" /\ host = "up"
      /\ Goto(o, "ended") /\ UNCHANGED <<fs, job, host, recovered>>
  BY DEF IInv, Forget, At
<1>2. /\ op' \in [Ops -> Worker]
      /\ op'[o].stage = "ended" /\ op'[o].published = op[o].published
      /\ \A p \in Ops \ {o} : op'[p] = op[p]
  BY <1>1, Move DEF Stages
<1>3. /\ sidecar' \in [Ops -> Phase \cup {None}] /\ row' \in [Ops -> Phase \cup {None}]
      /\ \A p \in Ops \ {o} : row'[p] = row[p]
  BY <1>1 DEF Forget, Unrecorded, TypeOK
<1>4. TypeOK'
  BY <1>1, <1>2, <1>3 DEF TypeOK
<1>5. ~Has(Stage(o)) /\ (Has(Backup(o)) => op[o].published)
  BY <1>1 DEF Rooted, Late
<1>6. Rooted(o)'
  BY <1>1, <1>2, <1>5 DEF Rooted, Limbo, Running, Has, Kind, Stage, Backup, Early, Middle, Late
<1>7. ASSUME NEW p \in Ops \ {o} PROVE Rooted(p)'
  BY <1>1, <1>2, <1>3, Frame DEF IInv
<1>8. QED BY <1>4, <1>6, <1>7 DEF IInv

LEMMA CrashStep == ASSUME IInv, Crash PROVE IInv'
<1>1. TypeOK /\ UNCHANGED <<fs, job, sidecar, row, recovered>> /\ host' = "down"
  BY DEF IInv, Crash
<1>2. ASSUME NEW o \in Ops
      PROVE  /\ op'[o] \in Worker /\ op'[o].published = op[o].published
             /\ op'[o].stage \in {"idle", "ended"}
             /\ op'[o].stage = "idle" => op[o].stage = "idle"
  <2>1. op[o] \in Worker
    BY <1>1 DEF TypeOK
  <2>2. CASE Running(o)
    <3>1. op'[o] = [op[o] EXCEPT !.stage = "ended"]
      BY <2>2 DEF Crash
    <3>2. QED BY <2>1, <3>1 DEF Worker, Stages
  <2>3. CASE ~Running(o)
    <3>1. op'[o] = op[o]
      BY <2>3 DEF Crash
    <3>2. QED BY <2>1, <2>3, <3>1 DEF Running
  <2>4. QED BY <2>2, <2>3
<1>3. op' \in [Ops -> Worker]
  <2>1. op' = [o \in Ops |-> op'[o]]
    BY DEF Crash
  <2>2. QED BY <1>2, <2>1
<1>4. TypeOK'
  BY <1>1, <1>3 DEF TypeOK
<1>5. ASSUME NEW o \in Ops PROVE Rooted(o)'
  <2>1. Rooted(o)
    BY DEF IInv
  <2>2. QED BY <1>1, <1>2, <2>1 DEF Rooted, Limbo, Running, Has, Kind, Stage, Backup, Early, Middle, Late
<1>6. QED BY <1>4, <1>5 DEF IInv

LEMMA HostSteps ==
    ASSUME IInv, Restart \/ Serve \/ \E o \in Ops : LoseSidecar(o)
    PROVE  IInv'
<1>1. TypeOK'
  BY DEF IInv, TypeOK, Restart, Serve, LoseSidecar
<1>2. /\ UNCHANGED <<fs, job, op, row>>
      /\ host' = host \/ (host # "up" /\ host' # "down")
  BY DEF Restart, Serve, LoseSidecar
<1>3. ASSUME NEW o \in Ops PROVE Rooted(o)'
  <2>1. Rooted(o)
    BY DEF IInv
  <2>2. host' = host \/ ~Running(o)
    BY <1>2, <2>1 DEF Rooted
  <2>3. QED BY <1>2, <2>1, <2>2, Frame
<1>4. QED BY <1>1, <1>3 DEF IInv

\* Recovery discards the journal of a deletion, or of a transfer that is done.
LEMMA Discards ==
    ASSUME IInv, NEW o \in Ops, Discard(o) \/ Keep, host = "scan", op' = op, job' = job,
           recovered' = recovered \cup {o}, fs' \in [Place -> Tree],
           \A q \in Place \ (Named \cup {Stage(o), Backup(o)}) : fs'[q] = fs[q],
           Kind(o) \notin Transfers => ~Has(Stage(o))' /\ ~Has(Backup(o))',
           op[o].published => ~Has(Stage(o))',
           Limbo(o)' => row'[o] # None
    PROVE  IInv'
<1>1. /\ sidecar' \in [Ops -> Phase \cup {None}] /\ row' \in [Ops -> Phase \cup {None}]
      /\ \A p \in Ops \ {o} : row'[p] = row[p]
      /\ host' \in {"scan", "down"}
  BY DEF IInv, TypeOK, Discard, Unrecorded, Keep
<1>2. TypeOK'
  BY <1>1 DEF IInv, TypeOK
<1>3. ~Running(o) /\ Rooted(o)
  BY DEF IInv, Rooted
<1>4. Rooted(o)'
  BY <1>1, <1>3 DEF Rooted, Running, Kind, Early, Middle, Late
<1>5. ASSUME NEW p \in Ops \ {o} PROVE Rooted(p)'
  <2>1. Stage(p) \in Place \ (Named \cup {Stage(o), Backup(o)})
    BY InstanceAssumption DEF Stage, Backup, Place, Named
  <2>2. Backup(p) \in Place \ (Named \cup {Stage(o), Backup(o)})
    BY InstanceAssumption DEF Stage, Backup, Place, Named
  <2>3. Rooted(p) /\ ~Running(p)
    BY DEF IInv, Rooted
  <2>4. QED BY <1>1, <2>1, <2>2, <2>3, Frame
<1>6. QED BY <1>2, <1>4, <1>5 DEF IInv

LEMMA RecoverDeleteStep == ASSUME IInv, NEW o \in Ops, RecoverDelete(o) PROVE IInv'
<1>1. /\ (Discard(o) \/ Keep) /\ host = "scan" /\ op' = op /\ job' = job /\ fs' = fs
      /\ recovered' = recovered \cup {o} /\ Kind(o) \notin Transfers
  BY DEF RecoverDelete, Due, Deletes, Transfers
<1>2. Rooted(o) /\ fs' \in [Place -> Tree]
  BY <1>1 DEF IInv, TypeOK
<1>3. ~Has(Stage(o))' /\ ~Has(Backup(o))' /\ ~Limbo(o)'
  BY <1>1, <1>2 DEF Rooted, Limbo, Has, Stage, Backup
<1>4. QED BY <1>1, <1>2, <1>3, Discards

LEMMA RecoverTransferStep == ASSUME IInv, NEW o \in Ops, RecoverTransfer(o) PROVE IInv'
<1> DEFINE S == Stage(o)  B == Backup(o)  D == Dst(o)
<1>1. /\ S \in Place /\ B \in Place /\ D \in Place /\ D \in Named
      /\ S # B /\ S # D /\ B # D
  BY Places, Requests DEF IInv
<1>2. /\ TypeOK /\ Rooted(o)
      /\ fs[S] \in Tree /\ fs[B] \in Tree /\ Absent \in Tree
      /\ Remains(S) \subseteq Tree /\ Remains(B) \subseteq Tree
  BY <1>1, TreesStay DEF IInv, TypeOK
<1>3. /\ host = "scan" /\ op' = op /\ job' = job /\ recovered' = recovered \cup {o}
      /\ Kind(o) \in Transfers
  BY DEF RecoverTransfer, Due
<1>4. IF fs'[S] = Absent /\ fs'[B] = Absent THEN Discard(o) ELSE Keep
  BY DEF RecoverTransfer
<1>5. PICK t \in Remains(S) : fs' \in BackupRecovered(o, [fs EXCEPT ![S] = t])
  BY DEF RecoverTransfer
<1> DEFINE now == [fs EXCEPT ![S] = t]
<1>6. now \in [Place -> Tree] /\ now[S] = t /\ \A q \in Place \ {S} : now[q] = fs[q]
  BY <1>1, <1>2, <1>5 DEF TypeOK
<1> HIDE DEF S, B, D
<1>7. \/ fs' = now
      \/ \E u \in Remains(B) : fs' = [now EXCEPT ![B] = u]
      \/ fs' = [now EXCEPT ![D] = fs[B], ![B] = Absent]
  BY <1>5 DEF BackupRecovered, B, D
<1> HIDE DEF now
<1>8. /\ fs' \in [Place -> Tree] /\ fs'[S] = t
      /\ \A q \in Place \ (Named \cup {S, B}) : fs'[q] = fs[q]
  BY <1>1, <1>2, <1>6, <1>7
<1>9. fs[S] = Absent => t = Absent
  BY <1>5 DEF Remains, Has
<1>10. op[o].published => ~Has(Stage(o))'
  BY <1>2, <1>8, <1>9 DEF Rooted, Has, S, Stage
<1>11. Limbo(o)' => row'[o] # None
  <2>1. CASE fs'[S] = Absent /\ fs'[B] = Absent
    BY <2>1 DEF Limbo, Has, S, B, Stage, Backup
  <2>2. CASE ~(fs'[S] = Absent /\ fs'[B] = Absent)
    <3>1. row' = row
      BY <1>4, <2>2 DEF Keep
    <3>2. Limbo(o)' => Limbo(o)
      <4>1. fs[B] = Absent => fs'[B] = Absent
        BY <1>1, <1>2, <1>6, <1>7 DEF Remains, Has, Tree
      <4>2. QED BY <1>3, <1>8, <1>9, <4>1 DEF Limbo, Has, S, B, Stage, Backup
    <3>3. QED BY <1>2, <3>1, <3>2 DEF Rooted
  <2>3. QED BY <2>1, <2>2
<1>12. Discard(o) \/ Keep
  BY <1>4
<1>13. QED BY <1>3, <1>8, <1>10, <1>11, <1>12, Discards DEF S, B

-----------------------------------------------------------------------------
LEMMA Starts == Init => IInv
<1> SUFFICES ASSUME Init PROVE IInv
  OBVIOUS
<1>1. fs \in [Place -> Tree]
  BY InstanceAssumption DEF Init, Tree, Place, Named
<1>2. op \in [Ops -> Worker]
  BY DEF Init, Worker, Stages, Tree
<1>3. TypeOK
  BY <1>1, <1>2 DEF Init, TypeOK
<1>4. ASSUME NEW o \in Ops PROVE Rooted(o)
  <2>1. Stage(o) \in Place \ Paths /\ Backup(o) \in Place \ Paths
    BY InstanceAssumption DEF Stage, Backup, Place, Named
  <2>2. ~Has(Stage(o)) /\ ~Has(Backup(o))
    BY <2>1 DEF Init, Has
  <2>3. op[o].stage = "idle" /\ op[o].published = FALSE /\ host = "up"
    BY DEF Init
  <2>4. QED BY <2>2, <2>3 DEF Rooted, Limbo, Early, Middle, Late
<1>5. QED BY <1>3, <1>4 DEF IInv

LEMMA Steps == IInv /\ [Next]_vars => IInv'
<1> SUFFICES ASSUME IInv, [Next]_vars PROVE IInv'
  OBVIOUS
<1>1. ASSUME NEW o \in Ops, Begin(o) PROVE IInv'
  BY <1>1, BeginStep
<1>2. ASSUME NEW o \in Ops, Plan(o) PROVE IInv'
  BY <1>2, JournalSteps
<1>3. ASSUME NEW o \in Ops, Transfer(o) PROVE IInv'
  BY <1>3, JournalSteps, QuietSteps, OwnSteps DEF Transfer
<1>4. ASSUME NEW o \in Ops, Removal(o) PROVE IInv'
  BY <1>4, JournalSteps, QuietSteps, NamedSteps, ForgetStep DEF Removal
<1>5. ASSUME NEW o \in Ops, Write(o) PROVE IInv'
  BY <1>5, QuietSteps, NamedSteps DEF Write
<1>6. ASSUME NEW o \in Ops, Recovery(o) PROVE IInv'
  BY <1>6, HostSteps, RecoverDeleteStep, RecoverTransferStep DEF Recovery
<1>7. ASSUME Crash \/ Restart \/ Serve PROVE IInv'
  BY <1>7, CrashStep, HostSteps
<1>8. CASE UNCHANGED vars
  BY <1>8 DEF vars, IInv, TypeOK, Rooted, Limbo, Running, Has, Kind, Stage, Backup
<1>9. QED BY <1>1, <1>2, <1>3, <1>4, <1>5, <1>6, <1>7, <1>8 DEF Next

\* Every variable keeps its type.
THEOREM Typed == Spec => []TypeOK
<1>1. IInv => TypeOK
  BY DEF IInv
<1>2. QED BY <1>1, Starts, Steps, PTL DEF Spec

(***************************************************************************)
(* Nothing is orphaned, whatever the requests: a staged tree, or a backup  *)
(* that is the only copy of a destination, has a worker or a journal.      *)
(***************************************************************************)
THEOREM NothingOrphaned == Spec => []Owned
<1>1. IInv => Owned
  BY DEF IInv, Rooted, Limbo, Owned, Journaled
<1>2. QED BY <1>1, Starts, Steps, PTL DEF Spec

-----------------------------------------------------------------------------
(* The sources of moves.                                                   *)

(***************************************************************************)
(* The strengthening.  Unless it was disturbed, a move whose source was    *)
(* compared holds all of it in the staged tree, and one that has published *)
(* holds all of it at the destination.                                     *)
(***************************************************************************)
Holds(o) ==
    /\ op[o].stage \in Verifieds => Content(Src(o)) \subseteq Content(Stage(o))
    /\ op[o].stage \in Settled => Content(Src(o)) \subseteq Content(Dst(o))
HoldsInv ==
    /\ IInv
    /\ \A o \in Ops : Kind(o) = "move" /\ o \notin disturbed => Holds(o)

(***************************************************************************)
(* What a step is to the move o: another actor's, that leaves its staged   *)
(* tree alone; the end of the move, or a step outside the stages that the  *)
(* comparison matters to; a step from the comparison to the publication; a *)
(* step after the publication; or the publication.                         *)
(***************************************************************************)
Passed(o) == op'[o] = op[o] /\ fs'[Stage(o)] = fs[Stage(o)]
Left(o) == op'[o].stage \notin Verifieds \cup Settled
Advanced(o) ==
    /\ op'[o].stage \in Verifieds
    /\ op[o].stage \in Verifieds \/ Content(Src(o)) \subseteq Content(Stage(o))
    /\ fs'[Stage(o)] = fs[Stage(o)]
    /\ ContentNext(Src(o)) \subseteq Content(Src(o))
Cleaned(o) ==
    /\ op'[o].stage \in Settled /\ op[o].stage \in Settled
    /\ fs'[Dst(o)] = fs[Dst(o)]
    /\ ContentNext(Src(o)) \subseteq Content(Src(o))
Appeared(o) ==
    /\ op[o].stage = "publishing" /\ op'[o].stage = "renamed"
    /\ fs' = Renamed(Stage(o), Dst(o))
Outcome(o) == Passed(o) \/ Left(o) \/ Advanced(o) \/ Cleaned(o) \/ Appeared(o)

\* An outcome keeps what the move holds, unless the step disturbs it.
LEMMA OutcomeHolds ==
    ASSUME IInv, job' = job, NEW o \in Ops, Outcome(o), ~Disturbs(o), Holds(o)
    PROVE  Holds(o)'
<1> DEFINE S == Stage(o)  F == Src(o)  D == Dst(o)
<1>1. F \in Place /\ D \in Place /\ S \in Place /\ S # F /\ S # D /\ S' = S
  BY Requests, Places DEF IInv, Stage
<1>2. /\ Src(o)' = F /\ Dst(o)' = D /\ Stage(o)' = S
      /\ Content(F)' = ContentNext(F) /\ Content(D)' = ContentNext(D) /\ Content(S)' = ContentNext(S)
  BY DEF Src, Dst, Stage, Content, Has, ContentNext
<1>3. Holds(o)' <=>
        /\ op'[o].stage \in Verifieds => ContentNext(F) \subseteq ContentNext(S)
        /\ op'[o].stage \in Settled => ContentNext(F) \subseteq ContentNext(D)
  BY DEF Holds, Content, Has, ContentNext, Src, Dst, Stage, Verifieds, Settled
<1>4. /\ fs'[S] = fs[S] => ContentNext(S) = Content(S)
      /\ fs'[D] = fs[D] => ContentNext(D) = Content(D)
  BY DEF ContentNext, Content, Has
<1>5. Verifieds \cap Settled = {} /\ "publishing" \in Verifieds /\ "renamed" \in Settled
  BY DEF Verifieds, Settled
<1> HIDE DEF S, F, D
<1>6. CASE Passed(o)
  BY <1>3, <1>4, <1>6 DEF Passed, Disturbs, Holds, S, F, D
<1>7. CASE Left(o)
  BY <1>3, <1>7 DEF Left
<1>8. CASE Advanced(o)
  BY <1>3, <1>4, <1>5, <1>8 DEF Advanced, Holds, S, F, D
<1>9. CASE Cleaned(o)
  BY <1>3, <1>4, <1>5, <1>9 DEF Cleaned, Holds, S, F, D
<1>10. CASE Appeared(o)
  <2>1. fs' = [fs EXCEPT ![D] = fs[S], ![S] = Absent]
    BY <1>10 DEF Appeared, Renamed, S, D
  <2>2. fs'[D] = fs[S] /\ (F # D => fs'[F] = fs[F])
    BY <1>1, <2>1 DEF IInv, TypeOK
  <2>3. ContentNext(D) = Content(S) /\ (F # D => ContentNext(F) = Content(F))
    BY <2>2 DEF ContentNext, Content, Has
  <2>4. Content(F) \subseteq Content(S)
    BY <1>5, <1>10 DEF Appeared, Holds, S, F
  <2>5. QED BY <1>3, <1>5, <1>10, <2>3, <2>4 DEF Appeared
<1>11. QED BY <1>6, <1>7, <1>8, <1>9, <1>10 DEF Outcome

(***************************************************************************)
(* Another operation p: its worker, its staged tree, its backup and the    *)
(* named places are all that its steps change.                             *)
(***************************************************************************)
LEMMA Elsewhere ==
    ASSUME IInv, NEW o \in Ops, NEW p \in Ops \ {o}, NEW w, op' = op \/ op' = [op EXCEPT ![p] = w],
           \A q \in Place \ (Named \cup {Stage(p), Backup(p)}) : fs'[q] = fs[q]
    PROVE  Passed(o)
<1>1. Stage(o) \in Place \ (Named \cup {Stage(p), Backup(p)})
  BY InstanceAssumption DEF Stage, Backup, Place, Named
<1>2. op'[o] = op[o]
  BY DEF IInv, TypeOK
<1>3. QED BY <1>1, <1>2 DEF Passed

\* The worker of p changes, or none does.
Works(p) == op' = op \/ \E w : op' = [op EXCEPT ![p] = w]
Around(p) == \A q \in Place \ (Named \cup {Stage(p), Backup(p)}) : fs'[q] = fs[q]

LEMMA Aside ==
    ASSUME IInv, NEW o \in Ops, NEW p \in Ops \ {o}, Works(p), Around(p)
    PROVE  Passed(o)
<1>1. CASE op' = op
  BY <1>1, Elsewhere DEF Around
<1>2. CASE \E w : op' = [op EXCEPT ![p] = w]
  <2>1. PICK w : op' = [op EXCEPT ![p] = w]
    BY <1>2
  <2>2. QED BY <2>1, Elsewhere DEF Around
<1>3. QED BY <1>1, <1>2 DEF Works

LEMMA Going ==
    ASSUME IInv, NEW p \in Ops, NEW s, Goto(p, s)
    PROVE  Works(p)
<1>1. Goto(p, s) => op' = [op EXCEPT ![p] = [op[p] EXCEPT !.stage = s]]
  BY DEF Goto
<1>2. QED BY <1>1 DEF Works

LEMMA Journaling ==
    ASSUME IInv, NEW p \in Ops, NEW ph, NEW s, Journal(p, ph, s)
    PROVE  Works(p) /\ Around(p) /\ fs' = fs /\ (Goto(p, s) \/ Goto(p, "ended"))
<1>1. fs' = fs /\ (Goto(p, s) \/ Goto(p, "ended"))
  BY DEF Journal
<1>2. QED BY <1>1, Going DEF Around

LEMMA ByOther ==
    ASSUME IInv, NEW p \in Ops,
           Begin(p) \/ Plan(p) \/ Transfer(p) \/ Removal(p) \/ Write(p) \/ Recovery(p)
    PROVE  Works(p) /\ Around(p)
<1>1. /\ Stage(p) \in Place /\ Backup(p) \in Place /\ Quarantine(p) \in Place
      /\ Src(p) \in Place /\ Dst(p) \in Place
      /\ Src(p) \in Named /\ Dst(p) \in Named /\ Quarantine(p) \in Named
      /\ DOMAIN fs = Place
  BY Requests, Places DEF IInv, TypeOK
<1>2. CASE \/ Plan(p) \/ StartStaging(p) \/ Copied(p) \/ Verified(p) \/ EndRollback(p)
           \/ PlanBackup(p) \/ BackedUp(p) \/ StartPublishing(p) \/ Published(p)
           \/ StartRemoving(p) \/ StartQuarantine(p) \/ Complete(p)
  BY <1>2, Journaling DEF Plan, StartStaging, Copied, Verified, EndRollback, PlanBackup, BackedUp,
     StartPublishing, Published, StartRemoving, StartQuarantine, Complete
<1>3. CASE \/ Revalidate(p) \/ RefuseDelete(p) \/ StopRemoving(p) \/ CheckTarget(p) \/ FailWrite(p)
  <2>1. fs' = fs /\ \E s : Goto(p, s)
    BY <1>3 DEF Revalidate, RefuseDelete, StopRemoving, CheckTarget, FailWrite
  <2>2. QED BY <2>1, Going DEF Around
<1>4. CASE Begin(p)
  BY <1>4 DEF Begin, Become, Works, Around
<1>5. CASE ListSource(p) \/ CopyFile(p)
  <2>1. \E t : fs' = [fs EXCEPT ![Stage(p)] = t]
    BY <1>5 DEF ListSource, CopyFile
  <2>2. QED BY <1>1, <1>5, <2>1 DEF ListSource, CopyFile, Become, Works, Around
<1>6. CASE Rollback(p) \/ DropBackup(p)
  <2>1. \E q \in {Stage(p), Backup(p)} : \E t : fs' = [fs EXCEPT ![q] = t]
    BY <1>6 DEF Rollback, DropBackup
  <2>2. \E s : Goto(p, s)
    BY <1>6 DEF Rollback, DropBackup
  <2>3. QED BY <1>1, <2>1, <2>2, Going DEF Around
<1>7. CASE BackUp(p)
  BY <1>1, <1>7, Going DEF BackUp, Become, Works, Around, Renamed
<1>8. CASE Publish(p)
  BY <1>1, <1>8 DEF Publish, Become, Works, Around, Renamed
<1>9. CASE PublishFails(p)
  <2>1. \E s : Goto(p, s)
    BY <1>9 DEF PublishFails
  <2>2. Around(p)
    BY <1>1, <1>9 DEF PublishFails, Around
  <2>3. QED BY <2>1, <2>2, Going
<1>10. CASE RemoveFile(p) \/ RemoveRoot(p) \/ CollectQuarantine(p)
  <2>1. \E q \in Named : \E t : fs' = [fs EXCEPT ![q] = t]
    BY <1>1, <1>10 DEF RemoveFile, RemoveRoot, CollectQuarantine
  <2>2. op' = op \/ \E s : Goto(p, s)
    BY <1>10 DEF RemoveFile, RemoveRoot, CollectQuarantine
  <2>3. Around(p)
    BY <1>1, <2>1 DEF Around
  <2>4. QED BY <2>2, <2>3, Going DEF Works
<1>11. CASE Hide(p)
  BY <1>1, <1>11, Going DEF Hide, Around, Renamed
<1>12. CASE CommitWrite(p)
  BY <1>1, <1>12, Going DEF CommitWrite, Around
<1>13. CASE Forget(p)
  BY <1>13, Going DEF Forget, Around
<1>14. CASE LoseSidecar(p) \/ RecoverDelete(p)
  BY <1>14 DEF LoseSidecar, RecoverDelete, Works, Around
<1>15. CASE RecoverTransfer(p)
  <2>1. PICK t \in Remains(Stage(p)) : fs' \in BackupRecovered(p, [fs EXCEPT ![Stage(p)] = t])
    BY <1>15 DEF RecoverTransfer
  <2>2. Around(p)
    BY <1>1, <2>1 DEF BackupRecovered, Around
  <2>3. QED BY <1>15, <2>2 DEF RecoverTransfer, Works
<1>16. QED
  BY <1>2, <1>3, <1>4, <1>5, <1>6, <1>7, <1>8, <1>9, <1>10, <1>11, <1>12, <1>13, <1>14, <1>15
  DEF Transfer, Removal, Write, Recovery

\* A worker that goes somewhere, writing the journal or not.
LEMMA Goes ==
    ASSUME IInv, NEW o \in Ops, NEW s, Goto(o, s)
    PROVE  op'[o].stage = s
BY DEF IInv, TypeOK, Worker, Goto

LEMMA Notes ==
    ASSUME IInv, NEW o \in Ops, NEW ph, NEW s, Journal(o, ph, s)
    PROVE  fs' = fs /\ op'[o].stage \in {s, "ended"}
BY Goes DEF Journal

\* A tree that does not change, or that a step removes.
LEMMA Same ==
    ASSUME NEW q, fs'[q] = fs[q]
    PROVE  ContentNext(q) = Content(q)
BY DEF ContentNext, Content, Has

LEMMA Gone ==
    ASSUME NEW q, fs'[q] = Absent
    PROVE  ContentNext(q) = {}
BY DEF ContentNext

\* The steps a move takes before it publishes.
LEMMA BeforePublishing ==
    ASSUME IInv, NEW o \in Ops, Kind(o) = "move",
           \/ Begin(o) \/ Plan(o) \/ StartStaging(o) \/ ListSource(o) \/ CopyFile(o) \/ Copied(o)
           \/ Verified(o) \/ Rollback(o) \/ EndRollback(o) \/ Revalidate(o) \/ PlanBackup(o)
           \/ BackUp(o) \/ BackedUp(o) \/ StartPublishing(o)
    PROVE  Outcome(o)
<1>1. /\ Src(o) \in Place /\ Dst(o) \in Place /\ Stage(o) \in Place /\ Backup(o) \in Place
      /\ Stage(o) # Src(o) /\ Backup(o) # Src(o) /\ Stage(o) # Dst(o) /\ Stage(o) # Backup(o)
      /\ DOMAIN fs = Place /\ op \in [Ops -> Worker]
  BY Requests, Places DEF IInv, TypeOK
<1>2. CASE \/ Begin(o) \/ Plan(o) \/ StartStaging(o) \/ ListSource(o) \/ CopyFile(o) \/ Copied(o)
           \/ Rollback(o) \/ EndRollback(o)
  <2>1. op'[o].stage \in {"begun", "planned", "staging", "copying", "verifying", "rolledBack",
                          "partial", "ended"}
    <3>1. CASE Begin(o)
      BY <1>1, <3>1 DEF Begin, Become, Worker
    <3>2. CASE Plan(o) \/ StartStaging(o) \/ Copied(o) \/ EndRollback(o)
      BY <3>2, Notes DEF Plan, StartStaging, Copied, EndRollback
    <3>3. CASE ListSource(o)
      BY <1>1, <3>3 DEF ListSource, Become, Worker
    <3>4. CASE CopyFile(o)
      BY <1>1, <3>4 DEF CopyFile, Become, Worker, At
    <3>5. CASE Rollback(o)
      BY <3>5, Goes DEF Rollback
    <3>6. QED BY <1>2, <3>1, <3>2, <3>3, <3>4, <3>5
  <2>2. QED BY <2>1 DEF Outcome, Left, Verifieds, Settled
<1>3. CASE Verified(o)
  <2>1. fs' = fs /\ op'[o].stage \in {"readyToPublish", "ended"} /\ Content(Src(o)) \subseteq Content(Stage(o))
    BY <1>3, Notes DEF Verified
  <2>2. QED BY <2>1, Same DEF Outcome, Left, Advanced, Verifieds, Settled
<1>4. CASE Revalidate(o) \/ PlanBackup(o) \/ BackedUp(o) \/ StartPublishing(o)
  <2>1. op[o].stage \in Verifieds
    BY <1>4 DEF Revalidate, PlanBackup, BackedUp, StartPublishing, At, Verifieds
  <2>2. fs' = fs /\ op'[o].stage \in Verifieds \cup {"ended"}
    BY <1>4, Notes, Goes DEF Revalidate, PlanBackup, BackedUp, StartPublishing, Verifieds
  <2>3. QED BY <2>1, <2>2, Same DEF Outcome, Left, Advanced, Verifieds, Settled
<1>5. CASE BackUp(o)
  <2>1. op[o].stage \in Verifieds
    BY <1>5 DEF BackUp, At, Verifieds
  <2>2. CASE fs' = Renamed(Dst(o), Backup(o)) /\ Become(o, [op[o] EXCEPT !.stage = "backedUp", !.backed = TRUE])
    <3>1. op'[o].stage = "backedUp"
      BY <1>1, <2>2 DEF Become, Worker
    <3>2. fs'[Stage(o)] = fs[Stage(o)] /\ (fs'[Src(o)] = fs[Src(o)] \/ fs'[Src(o)] = Absent)
      BY <1>1, <2>2 DEF Renamed
    <3>3. ContentNext(Src(o)) \subseteq Content(Src(o))
      BY <3>2, Same, Gone
    <3>4. QED BY <2>1, <3>1, <3>2, <3>3 DEF Outcome, Advanced, Verifieds
  <2>3. CASE Goto(o, "ended")
    BY <2>3, Goes DEF Outcome, Left, Verifieds, Settled
  <2>4. QED BY <1>5, <2>2, <2>3 DEF BackUp
<1>6. QED BY <1>2, <1>3, <1>4, <1>5

\* The publication, and the steps after it.
LEMMA FromPublishing ==
    ASSUME IInv, NEW o \in Ops, Kind(o) = "move",
           \/ Publish(o) \/ PublishFails(o) \/ Published(o) \/ DropBackup(o) \/ StartRemoving(o)
           \/ RemoveFile(o) \/ RemoveRoot(o) \/ StopRemoving(o) \/ Complete(o) \/ Forget(o)
    PROVE  Outcome(o)
<1>1. /\ Src(o) \in Place /\ Dst(o) \in Place /\ Stage(o) \in Place /\ Backup(o) \in Place
      /\ Stage(o) # Src(o) /\ Backup(o) # Src(o) /\ Backup(o) # Dst(o)
      /\ DOMAIN fs = Place /\ op \in [Ops -> Worker]
  BY Requests, Places DEF IInv, TypeOK
<1>2. CASE Publish(o)
  BY <1>1, <1>2 DEF Publish, At, Become, Worker, Outcome, Appeared
<1>3. CASE PublishFails(o) \/ RemoveRoot(o) \/ StopRemoving(o) \/ Complete(o) \/ Forget(o)
  <2>1. op'[o].stage \in {"rolledBack", "partial", "removed", "remaining", "completed", "ended"}
    BY <1>3, Goes, Notes DEF PublishFails, RemoveRoot, StopRemoving, Complete, Forget
  <2>2. QED BY <2>1 DEF Outcome, Left, Verifieds, Settled
<1>4. CASE Published(o) \/ StartRemoving(o)
  <2>1. op[o].stage \in Settled
    BY <1>4 DEF Published, StartRemoving, At, Settled
  <2>2. fs' = fs /\ op'[o].stage \in Settled \cup {"ended"}
    BY <1>4, Notes DEF Published, StartRemoving, Settled
  <2>3. QED BY <2>1, <2>2, Same DEF Outcome, Left, Cleaned, Verifieds, Settled
<1>5. CASE DropBackup(o)
  <2>1. op[o].stage \in Settled /\ op'[o].stage \in Settled
    BY <1>5, Goes DEF DropBackup, At, Settled
  <2>2. fs'[Src(o)] = fs[Src(o)] /\ fs'[Dst(o)] = fs[Dst(o)]
    BY <1>1, <1>5 DEF DropBackup
  <2>3. QED BY <2>1, <2>2, Same DEF Outcome, Cleaned
<1>6. CASE RemoveFile(o)
  BY <1>1, <1>6 DEF RemoveFile, Outcome, Passed
<1>7. QED BY <1>2, <1>3, <1>4, <1>5, <1>6

\* The steps of a move, and those that are none of its worker's.
LEMMA OwnOutcome ==
    ASSUME IInv, NEW o \in Ops, Kind(o) = "move",
           Begin(o) \/ Plan(o) \/ Transfer(o) \/ Removal(o) \/ Write(o) \/ Recovery(o)
    PROVE  Outcome(o)
<1>1. CASE CollectQuarantine(o) \/ LoseSidecar(o)
  <2>1. Quarantine(o) # Stage(o) /\ op' = op
    BY <1>1 DEF CollectQuarantine, LoseSidecar, Quarantine, Stage
  <2>2. fs'[Stage(o)] = fs[Stage(o)]
    <3>1. Stage(o) \in Place /\ Quarantine(o) \in Place /\ DOMAIN fs = Place
      BY Requests, Places DEF IInv, TypeOK, Place
    <3>2. QED BY <1>1, <2>1, <3>1 DEF CollectQuarantine, LoseSidecar
  <2>3. QED BY <2>1, <2>2 DEF Outcome, Passed
<1>2. CASE RecoverTransfer(o)
  <2>1. host = "scan" /\ op' = op
    BY <1>2 DEF RecoverTransfer, Due
  <2>2. ~Running(o)
    BY <2>1 DEF IInv, Rooted
  <2>3. QED BY <2>1, <2>2 DEF Outcome, Left, Running, Verifieds, Settled
<1>3. ~RefuseDelete(o) /\ ~StartQuarantine(o) /\ ~RecoverDelete(o)
      /\ ~CheckTarget(o) /\ (FailWrite(o) \/ CommitWrite(o) => op'[o].stage = "ended")
      /\ (Hide(o) => op'[o].stage \in {"quarantined", "ended"})
  BY Goes DEF RefuseDelete, StartQuarantine, RecoverDelete, Deletes, CheckTarget, FailWrite,
     CommitWrite, Hide
<1>4. CASE FailWrite(o) \/ CommitWrite(o) \/ Hide(o)
  BY <1>3, <1>4 DEF Outcome, Left, Verifieds, Settled
<1>5. QED BY <1>1, <1>2, <1>3, <1>4, BeforePublishing, FromPublishing
          DEF Transfer, Removal, Write, Recovery

LEMMA EveryOutcome ==
    ASSUME IInv, NEW o \in Ops, Kind(o) = "move", Next
    PROVE  Outcome(o)
<1>1. ASSUME NEW p \in Ops,
             Begin(p) \/ Plan(p) \/ Transfer(p) \/ Removal(p) \/ Write(p) \/ Recovery(p)
      PROVE  Outcome(o)
  <2>1. CASE p = o
    BY <1>1, <2>1, OwnOutcome
  <2>2. CASE p # o
    BY <1>1, <2>2, ByOther, Aside DEF Outcome
  <2>3. QED BY <2>1, <2>2
<1>2. CASE Crash
  <2>1. CASE Running(o)
    <3>1. op'[o].stage = "ended"
      BY <1>2, <2>1 DEF Crash, IInv, TypeOK, Worker
    <3>2. QED BY <3>1 DEF Outcome, Left, Verifieds, Settled
  <2>2. CASE ~Running(o)
    BY <1>2, <2>2 DEF Crash, Outcome, Passed
  <2>3. QED BY <2>1, <2>2
<1>3. CASE Restart \/ Serve
  BY <1>3 DEF Restart, Serve, Outcome, Passed
<1>4. QED BY <1>1, <1>2, <1>3 DEF Next

-----------------------------------------------------------------------------

\* No step changes a request.
LEMMA JobStays == Next => job' = job
<1>1. ASSUME NEW o \in Ops, Transfer(o) PROVE job' = job
  BY <1>1 DEF Transfer, Journal, StartStaging, ListSource, CopyFile, Copied, Verified, Rollback,
     EndRollback, Revalidate, PlanBackup, BackUp, BackedUp, StartPublishing, Publish,
     PublishFails, Published, DropBackup
<1>2. ASSUME NEW o \in Ops, Removal(o) PROVE job' = job
  BY <1>2 DEF Removal, Journal, RefuseDelete, StartRemoving, RemoveFile, RemoveRoot, StopRemoving,
     StartQuarantine, Hide, Complete, Forget, CollectQuarantine
<1>3. ASSUME NEW o \in Ops, Begin(o) \/ Plan(o) \/ Write(o) \/ Recovery(o) PROVE job' = job
  BY <1>3 DEF Begin, Plan, Journal, Write, CheckTarget, CommitWrite, FailWrite, Recovery,
     LoseSidecar, RecoverDelete, RecoverTransfer
<1>4. Crash \/ Restart \/ Serve => job' = job
  BY DEF Crash, Restart, Serve
<1>5. QED BY <1>1, <1>2, <1>3, <1>4 DEF Next

LEMMA HoldsStarts == WatchedInit => HoldsInv
<1> SUFFICES ASSUME WatchedInit PROVE HoldsInv
  OBVIOUS
<1>1. IInv
  BY Starts DEF WatchedInit
<1>2. ASSUME NEW o \in Ops PROVE op[o].stage = "idle"
  BY DEF WatchedInit, Init
<1>3. QED BY <1>1, <1>2 DEF HoldsInv, Holds, Verifieds, Settled

LEMMA HoldsSteps == HoldsInv /\ [WatchedNext]_<<vars, disturbed>> => HoldsInv'
<1> SUFFICES ASSUME HoldsInv, [WatchedNext]_<<vars, disturbed>> PROVE HoldsInv'
  OBVIOUS
<1>1. IInv'
  BY Steps DEF HoldsInv, WatchedNext, vars
<1>2. CASE UNCHANGED <<vars, disturbed>>
  BY <1>1, <1>2 DEF HoldsInv, Holds, Kind, Src, Dst, Stage, Content, Has, vars
<1>3. CASE WatchedNext
  <2>1. job' = job
    BY <1>3, JobStays DEF WatchedNext
  <2>2. ASSUME NEW o \in Ops, Kind(o)' = "move", o \notin disturbed' PROVE Holds(o)'
    <3>1. Kind(o) = "move"
      BY <2>1, <2>2 DEF Kind
    <3>2. o \notin disturbed /\ ~Disturbs(o)
      BY <1>3, <2>2, <3>1 DEF WatchedNext, Noted
    <3>3. Outcome(o)
      BY <1>3, <3>1, EveryOutcome DEF WatchedNext, HoldsInv
    <3>4. Holds(o)
      BY <3>1, <3>2 DEF HoldsInv
    <3>5. QED BY <2>1, <3>2, <3>3, <3>4, OutcomeHolds DEF HoldsInv
  <2>3. QED BY <1>1, <2>2 DEF HoldsInv
<1>4. QED BY <1>2, <1>3

(***************************************************************************)
(* A move takes from its source only what its destination holds, whatever  *)
(* fails or crashes and whatever the other requests are, unless one of     *)
(* them brought files to the source after it was compared or took files    *)
(* from the destination after it was published.                            *)
(***************************************************************************)
THEOREM SourcesKept == WatchedSpec => SourceSafe
<1>1. ASSUME HoldsInv, NEW o \in Ops, Kind(o) = "move", o \notin disturbed, RemoveFile(o)
      PROVE  Content(Src(o)) \ fs'[Src(o)] \subseteq Content(Dst(o))
  <2>1. op[o].stage \in Settled /\ Holds(o)
    BY <1>1 DEF HoldsInv, RemoveFile, At, Settled
  <2>2. QED BY <2>1 DEF Holds
<1>2. HoldsInv /\ [WatchedNext]_<<vars, disturbed>> =>
         [\A o \in Ops :
             Kind(o) = "move" /\ o \notin disturbed /\ RemoveFile(o) =>
                 Content(Src(o)) \ fs'[Src(o)] \subseteq Content(Dst(o))]_<<vars, disturbed>>
  BY <1>1
<1>3. QED BY <1>2, HoldsStarts, HoldsSteps, PTL DEF WatchedSpec, SourceSafe
=============================================================================
