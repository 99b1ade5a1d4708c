------------------------ MODULE CallsAndRuns_proofs ------------------------
(***************************************************************************)
(* The calls of a task and the runs of its sub-agents.                       *)
(*                                                                         *)
(* Theorems about CallAdmission for any number of calls: type correctness,  *)
(* the task stays in its live conversation whatever stale copies of its     *)
(* row are written back, its generation never goes back once it was         *)
(* compacted, and a tool runs only in a task that was let execute.          *)
(*                                                                         *)
(* Then proofs about SubagentRuns and RunCapacity for any set of delegations, any limit,     *)
(* any number of restarts and attempts.  The inductive invariant RunInv says *)
(* what the type does not: the delegation that holds the registration gate   *)
(* has no row yet, and a pending run is never past its claim.  From it,      *)
(* RunRowStep says what one step may do to one run, and the action           *)
(* properties follow from RunRowStep without looking at the actions again.   *)
(***************************************************************************)
EXTENDS CallAdmission, RunCapacity, FiniteSetTheorems, TLAPS

\* Every open job is one of the started ones, so the conversations the task
\* has been through are counted by the jobs.
ChatsCounted == row.chat + (IF Compacting THEN 1 ELSE 0) <= job.started

\* The archived conversations are those before the live one.
ArchivedBefore == \A k \in Chats : Archived(k) <=> k < row.chat

SessionLive == row.session # NoSession => \A a \in archive : a.session # row.session

\* A call x fits a task in conversation k, let execute or not (g): it does not
\* come from, or remember, a later conversation, and it goes on only if some
\* grant explains it.
GoesOn == {"cleared", "rewriting", "claimed", "binding", "running"}
Fits(x, k, g) == /\ x.chat <= k /\ x.copy.chat <= k
                 /\ x.copy.allow = "yes" => g
                 /\ x.stage = "read" /\ x.copy.exists => x.copy.allow # "no"
                 /\ x.stage \in GoesOn => g

CallsFit == \A c \in Calls : Fits(call[c], row.chat, granted)
AllowGranted == row.allow = "yes" => granted

Inv == TypeOK /\ ChatsCounted /\ ArchivedBefore /\ SessionLive
       /\ CallsFit /\ AllowGranted

----------------------------------------------------------------------------
\* A row as upsert_task leaves it
LEMMA MergedType ==
    ASSUME AdmissionAssumption, TypeOK, NEW c \in Calls
    PROVE  /\ MergedRow(c) \in TaskRow
           /\ Upserted(MergedRow(c)) \in TaskRow
<1>1. call[c] \in CallRow
  BY DEF TypeOK
<1>2. call[c].copy \in TaskRow /\ call[c].chat \in Chats /\ call[c].session \in Nat
  BY <1>1 DEF CallRow
<1>3. row.exists \in BOOLEAN /\ row.overdue \in BOOLEAN
  BY DEF TypeOK, TaskRow
<1>4. MergedRow(c) \in TaskRow
  BY <1>2 DEF MergedRow, TaskRow, NoSession
<1>5. Upserted(MergedRow(c)) \in TaskRow
  BY <1>3, <1>4 DEF Upserted, TaskRow
<1>. QED
  BY <1>4, <1>5

LEMMA ToType ==
    ASSUME AdmissionAssumption, TypeOK, NEW c \in Calls, NEW stage \in Stages, To(c, stage)
    PROVE  call' \in [Calls -> CallRow]
<1>1. call[c] \in CallRow
  BY DEF TypeOK
<1>2. NoRow \in TaskRow
  BY DEF NoRow, TaskRow, NoSession, Chats, AdmissionAssumption
<1>3. NoCall \in CallRow
  BY <1>2 DEF NoCall, CallRow, Stages, AllRoutes, Chats, NoSession, AdmissionAssumption
<1>4. /\ [NoCall EXCEPT !.stage = stage] \in CallRow
      /\ [call[c] EXCEPT !.stage = stage, !.copy = NoRow] \in CallRow
  BY <1>1, <1>2, <1>3 DEF CallRow
<1>. QED
  BY <1>4 DEF To, TypeOK

LEMMA NoCallType ==
    ASSUME AdmissionAssumption
    PROVE  NoRow \in TaskRow /\ NoCall \in CallRow
<1>1. NoRow \in TaskRow
  BY DEF NoRow, TaskRow, NoSession, Chats, AdmissionAssumption
<1>2. NoCall \in CallRow
  BY <1>1 DEF NoCall, CallRow, Stages, AllRoutes, Chats, NoSession, AdmissionAssumption
<1>. QED
  BY <1>1, <1>2

\* Moving a call to another stage keeps every call fitting.
LEMMA ToFits ==
    ASSUME AdmissionAssumption, TypeOK, CallsFit, NEW c \in Calls, NEW stage \in Stages,
           To(c, stage), stage # "read"
    PROVE  \A g \in BOOLEAN : (granted => g) /\ (stage \in GoesOn => g) =>
               \A d \in Calls : Fits(call'[d], row.chat, g)
<1>. SUFFICES ASSUME NEW g \in BOOLEAN, granted => g, stage \in GoesOn => g, NEW d \in Calls
              PROVE  Fits(call'[d], row.chat, g)
  OBVIOUS
<1>1. row.chat \in Nat /\ Fits(call[d], row.chat, g) /\ call \in [Calls -> CallRow]
  BY DEF TypeOK, TaskRow, Chats, CallsFit, Fits
<1>2. CASE d # c
  BY <1>1, <1>2 DEF To
<1>3. CASE d = c /\ stage = "done"
  <2>1. call'[d] = [NoCall EXCEPT !.stage = "done"]
    BY <1>1, <1>3 DEF To
  <2>. QED
    BY <1>1, <2>1 DEF Fits, NoCall, NoRow, GoesOn
<1>4. CASE d = c /\ stage # "done"
  <2>1. call'[d] = [call[c] EXCEPT !.stage = stage, !.copy = NoRow]
    BY <1>1, <1>4 DEF To
  <2>2. call[c] \in CallRow
    BY <1>1
  <2>3. call'[d].chat = call[c].chat /\ call'[d].copy = NoRow /\ call'[d].stage = stage
    BY <2>1, <2>2 DEF CallRow
  <2>. QED
    BY <1>1, <1>4, <2>3 DEF Fits, NoRow
<1>. QED
  BY <1>2, <1>3, <1>4

\* A step of a call that changes nothing but its stage and a binding.
LEMMA Quiet ==
    ASSUME AdmissionAssumption, Inv, NEW c \in Calls, NEW stage \in Stages,
           To(c, stage), stage # "read", stage \in GoesOn => granted,
           binding' \in [Chats -> Nat], UNCHANGED <<row, archive, job, granted, sends>>
    PROVE  Inv'
<1>1. call' \in [Calls -> CallRow]
  BY ToType DEF Inv
<1>2. TypeOK'
  BY <1>1 DEF Inv, TypeOK
<1>3. CallsFit'
  BY ToFits DEF Inv, TypeOK, CallsFit
<1>. QED
  BY <1>2, <1>3 DEF Inv, ChatsCounted, ArchivedBefore, SessionLive, AllowGranted,
                    Archived, Compacting

\* A step that changes the row within its conversation, gives it no archived
\* session and leaves every call fitting.
LEMMA RowStep ==
    ASSUME AdmissionAssumption, Inv, row' \in TaskRow, row'.chat = row.chat,
           SessionLive', call' \in [Calls -> CallRow],
           \A d \in Calls : Fits(call'[d], row.chat, granted'),
           granted' \in BOOLEAN, sends' \in 0..MaxSends, AllowGranted',
           UNCHANGED <<binding, archive, job>>
    PROVE  Inv'
<1>1. TypeOK'
  BY DEF Inv, TypeOK
<1>2. CallsFit'
  BY DEF CallsFit, Fits
<1>3. ChatsCounted' /\ ArchivedBefore'
  BY DEF Inv, ChatsCounted, ArchivedBefore, Archived, Compacting
<1>. QED
  BY <1>1, <1>2, <1>3 DEF Inv

\* A step that only moves the compact job.
LEMMA JobStep ==
    ASSUME AdmissionAssumption, Inv, job' \in JobRow, ChatsCounted',
           UNCHANGED <<row, binding, archive, call, granted, sends>>
    PROVE  Inv'
BY DEF Inv, TypeOK, ArchivedBefore, SessionLive, CallsFit, AllowGranted, Archived

----------------------------------------------------------------------------
\* The steps of a call

LEMMA TrackInv ==
    ASSUME AdmissionAssumption, Inv, NEW c \in Calls, Track(c)
    PROVE  Inv'
<1>1. PICK r \in Routes, m \in BOOLEAN, k \in 0..row.chat :
          call' = [call EXCEPT ![c] = [NoCall EXCEPT !.stage = "tracked", !.route = r,
                                                     !.message = m, !.chat = k]]
  BY DEF Track
<1>2. row.chat \in Chats /\ row \in TaskRow /\ call \in [Calls -> CallRow]
  BY DEF Inv, TypeOK, TaskRow
<1>. DEFINE new == [NoCall EXCEPT !.stage = "tracked", !.route = r, !.message = m, !.chat = k]
<1>3. new \in CallRow
  <2>1. r \in AllRoutes /\ k \in Chats
    BY <1>2 DEF AdmissionAssumption, Chats
  <2>. QED
    BY <2>1, NoCallType DEF CallRow, Stages
<1>4. Fits(new, row.chat, granted)
  <2>1. row.chat \in Nat
    BY <1>2 DEF Chats
  <2>. QED
    BY <2>1 DEF Fits, NoCall, NoRow, GoesOn
<1>5. call' = [call EXCEPT ![c] = new]
  BY <1>1
<1>. HIDE DEF new
<1>6. call' \in [Calls -> CallRow]
  BY <1>2, <1>3, <1>5
<1>7. \A d \in Calls : Fits(call'[d], row.chat, granted)
  BY <1>2, <1>4, <1>5 DEF Inv, CallsFit
<1>8. SessionLive'
  BY DEF Inv, SessionLive, Track
<1>. QED
  BY <1>2, <1>6, <1>7, <1>8, RowStep DEF Track, Inv, TypeOK, AllowGranted

LEMMA CheckInv ==
    ASSUME AdmissionAssumption, Inv, NEW c \in Calls,
           CheckFence(c) \/ Resolve(c) \/ Validate(c)
    PROVE  Inv'
<1>1. PICK stage \in {"done", "admitted", "resolved", "valid"} : To(c, stage)
  BY DEF CheckFence, Resolve, Validate
<1>2. /\ binding' \in [Chats -> Nat]
      /\ UNCHANGED <<row, archive, job, granted, sends>>
  BY DEF CheckFence, Resolve, Validate, Inv, TypeOK
<1>. QED
  BY <1>1, <1>2, Quiet DEF Stages, GoesOn

LEMMA ReadTaskInv ==
    ASSUME AdmissionAssumption, Inv, NEW c \in Calls, ReadTask(c)
    PROVE  Inv'
<1>. DEFINE gen == IF row.status = "stopped" THEN row.gen + 1 ELSE row.gen
            new == [call[c] EXCEPT !.stage = "read", !.copy = row, !.session = gen]
<1>1. row \in TaskRow /\ call \in [Calls -> CallRow] /\ call[c] \in CallRow
  BY DEF Inv, TypeOK
<1>2. CASE To(c, "done")
  BY <1>2, Quiet DEF ReadTask, Inv, TypeOK, Stages, GoesOn
<1>3. CASE /\ call' = [call EXCEPT ![c].stage = "read", ![c].copy = row, ![c].session = gen]
           /\ ~(row.exists /\ Refused(c))
  <2>1. call' = [call EXCEPT ![c] = new]
    BY <1>1, <1>3
  <2>2. new \in CallRow
    <3>1. gen \in Nat
      BY <1>1 DEF TaskRow
    <3>. HIDE DEF gen
    <3>. QED
      BY <1>1, <3>1 DEF CallRow, Stages
  <2>3. Fits(new, row.chat, granted)
    <3>1. new.chat = call[c].chat /\ new.copy = row /\ new.stage = "read"
      BY <1>1 DEF CallRow
    <3>2. row.chat \in Nat
      BY <1>1 DEF TaskRow, Chats
    <3>3. row.exists => row.allow # "no"
      BY <1>3 DEF Inv, AllowGranted, Refused
    <3>. HIDE DEF new
    <3>. QED
      BY <3>1, <3>2, <3>3 DEF Fits, GoesOn, Inv, CallsFit, AllowGranted
  <2>. HIDE DEF new
  <2>4. call' \in [Calls -> CallRow] /\ \A d \in Calls : Fits(call'[d], row.chat, granted)
    BY <1>1, <2>1, <2>2, <2>3 DEF Inv, CallsFit
  <2>5. SessionLive'
    BY DEF Inv, SessionLive, ReadTask
  <2>. QED
    BY <1>1, <2>4, <2>5, RowStep DEF ReadTask, Inv, TypeOK, AllowGranted
<1>. QED
  BY <1>2, <1>3 DEF ReadTask

\* The triggers keep an upsert of a copy in the live conversation.
LEMMA TriggersKeepChat ==
    ASSUME AdmissionAssumption, Inv, NEW new \in TaskRow, TriggersAllow(new),
           new.chat <= row.chat
    PROVE  /\ Upserted(new).chat = row.chat
           /\ Upserted(new).session # NoSession =>
                  \A a \in archive : a.session # Upserted(new).session
<1>1. row.chat \in Nat /\ new.chat \in Chats /\ new.chat \in Nat
  BY DEF Inv, TypeOK, TaskRow, Chats
<1>2. ~(new.chat < row.chat)
  BY <1>1 DEF TriggersAllow, Inv, ArchivedBefore
<1>3. Upserted(new).chat = new.chat /\ Upserted(new).session = new.session
  BY DEF Upserted, TaskRow
<1>. QED
  BY <1>1, <1>2, <1>3 DEF TriggersAllow

LEMMA UpsertInv ==
    ASSUME AdmissionAssumption, Inv, NEW c \in Calls, UpsertTask(c)
    PROVE  Inv'
<1>. DEFINE new == MergedRow(c)
<1>1. row \in TaskRow /\ call \in [Calls -> CallRow] /\ call[c] \in CallRow
  BY DEF Inv, TypeOK
<1>2. new \in TaskRow /\ Upserted(new) \in TaskRow
  BY MergedType DEF Inv
<1>3. CASE ~TriggersAllow(new)
  BY <1>3, Quiet DEF UpsertTask, Inv, TypeOK, Stages, GoesOn
<1>4. CASE TriggersAllow(new)
  <2>1. /\ row' = Upserted(new)
        /\ granted' = (granted \/ (~call[c].copy.exists /\ ~ApproveNew))
        /\ To(c, IF new.allow = "unset" THEN "waiting" ELSE "claimed")
        /\ UNCHANGED <<binding, archive, job, sends>>
    BY <1>4 DEF UpsertTask
  <2>2. new.chat <= row.chat
    <3>1. new.chat = IF call[c].copy.exists THEN call[c].copy.chat ELSE call[c].chat
      BY DEF MergedRow
    <3>. QED
      BY <3>1 DEF Inv, CallsFit, Fits
  <2>4. /\ new.allow = "yes" => granted'
        /\ new.allow # "no"
    <3>1. new.allow = IF call[c].copy.exists THEN call[c].copy.allow
                      ELSE IF ApproveNew THEN "unset" ELSE "yes"
      BY DEF MergedRow
    <3>2. /\ call[c].copy.allow = "yes" => granted
          /\ call[c].copy.exists => call[c].copy.allow # "no"
      BY DEF Inv, CallsFit, Fits, UpsertTask
    <3>. QED
      BY <2>1, <3>1, <3>2
  <2>5. granted' \in BOOLEAN /\ (granted => granted')
    BY <2>1 DEF Inv, TypeOK
  <2>6. row'.allow = new.allow /\ row'.chat = row.chat /\ SessionLive'
    <3>1. Upserted(new).allow = new.allow
      BY <1>2 DEF Upserted, TaskRow
    <3>. QED
      BY <1>2, <1>4, <2>1, <2>2, <3>1, TriggersKeepChat DEF SessionLive
  <2>. DEFINE stage == IF new.allow = "unset" THEN "waiting" ELSE "claimed"
  <2>7. stage \in Stages /\ stage # "read" /\ To(c, stage) /\ (stage \in GoesOn => granted')
    <3>1. stage \in Stages /\ stage # "read" /\ To(c, stage)
      BY <2>1 DEF Stages
    <3>2. stage \in GoesOn => new.allow # "unset"
      BY DEF GoesOn
    <3>3. new.allow \in {"unset", "yes", "no"}
      BY <1>2 DEF TaskRow
    <3>. QED
      BY <2>4, <3>1, <3>2, <3>3
  <2>. HIDE DEF stage, new
  <2>8. call' \in [Calls -> CallRow]
    BY <2>7, ToType DEF Inv
  <2>9. \A d \in Calls : Fits(call'[d], row.chat, granted')
    BY <2>5, <2>7, ToFits DEF Inv
  <2>. QED
    BY <1>2, <2>1, <2>4, <2>5, <2>6, <2>8, <2>9, RowStep DEF Inv, TypeOK, AllowGranted
<1>. QED
  BY <1>3, <1>4

LEMMA PollInv ==
    ASSUME AdmissionAssumption, Inv, NEW c \in Calls, PollApproval(c)
    PROVE  Inv'
<1>1. PICK stage \in {"cleared", "done", "expiring"} :
          To(c, stage) /\ (stage = "cleared" => row.allow = "yes")
  BY DEF PollApproval
<1>2. binding' \in [Chats -> Nat] /\ UNCHANGED <<row, archive, job, granted, sends>>
  BY DEF PollApproval, Inv, TypeOK
<1>3. stage \in GoesOn => granted
  BY <1>1 DEF GoesOn, Inv, AllowGranted
<1>. QED
  BY <1>1, <1>2, <1>3, Quiet DEF Stages

LEMMA ExpireInv ==
    ASSUME AdmissionAssumption, Inv, NEW c \in Calls, ExpireApproval(c)
    PROVE  Inv'
<1>1. row \in TaskRow /\ granted \in BOOLEAN
  BY DEF Inv, TypeOK
<1>2. call' \in [Calls -> CallRow]
  BY ToType DEF ExpireApproval, Stages, Inv
<1>3. \A d \in Calls : Fits(call'[d], row.chat, granted)
  BY <1>1, ToFits DEF ExpireApproval, Stages, GoesOn, Inv
<1>4. CASE row.allow # "unset"
  BY <1>1, <1>2, <1>3, <1>4, RowStep DEF ExpireApproval, Inv, TypeOK, AllowGranted, SessionLive
<1>5. CASE row.allow = "unset"
  <2>1. row' = [row EXCEPT !.allow = "no", !.status = "failed"]
    BY <1>5 DEF ExpireApproval
  <2>2. row' \in TaskRow /\ row'.chat = row.chat /\ row'.session = row.session
        /\ row'.allow = "no" /\ row'.exists = row.exists
    BY <1>1, <2>1 DEF TaskRow
  <2>. QED
    BY <1>2, <1>3, <2>2, RowStep DEF ExpireApproval, Inv, TypeOK, AllowGranted, SessionLive
<1>. QED
  BY <1>4, <1>5

LEMMA RereadInv ==
    ASSUME AdmissionAssumption, Inv, NEW c \in Calls, RereadTask(c)
    PROVE  Inv'
<1>. DEFINE new == [call[c] EXCEPT !.stage = "rewriting", !.copy = row]
<1>1. row \in TaskRow /\ call \in [Calls -> CallRow] /\ call[c] \in CallRow
  BY DEF Inv, TypeOK
<1>2. call' = [call EXCEPT ![c] = new]
  BY <1>1 DEF RereadTask
<1>3. new \in CallRow
  BY <1>1 DEF CallRow, Stages
<1>4. Fits(new, row.chat, granted)
  <2>1. new.chat = call[c].chat /\ new.copy = row /\ new.stage = "rewriting"
    BY <1>1 DEF CallRow
  <2>2. row.chat \in Nat
    BY <1>1 DEF TaskRow, Chats
  <2>3. call[c].chat <= row.chat /\ granted
    BY DEF Inv, CallsFit, Fits, GoesOn, RereadTask
  <2>. HIDE DEF new
  <2>. QED
    BY <2>1, <2>2, <2>3 DEF Fits, GoesOn
<1>. HIDE DEF new
<1>5. call' \in [Calls -> CallRow] /\ \A d \in Calls : Fits(call'[d], row.chat, granted)
  BY <1>1, <1>2, <1>3, <1>4 DEF Inv, CallsFit
<1>. QED
  BY <1>1, <1>5, RowStep DEF RereadTask, Inv, TypeOK, AllowGranted, SessionLive

LEMMA RewriteInv ==
    ASSUME AdmissionAssumption, Inv, NEW c \in Calls, RewriteTask(c)
    PROVE  Inv'
<1>. DEFINE new == [call[c].copy EXCEPT !.status = "running", !.session = call[c].session]
<1>1. row \in TaskRow /\ call \in [Calls -> CallRow] /\ call[c] \in CallRow /\ granted \in BOOLEAN
  BY DEF Inv, TypeOK
<1>2. new \in TaskRow /\ new.chat = call[c].copy.chat /\ new.allow = call[c].copy.allow
      /\ new.exists = call[c].copy.exists
  BY <1>1 DEF CallRow, TaskRow
<1>3. Fits(call[c], row.chat, granted) /\ call[c].stage = "rewriting"
  BY DEF Inv, CallsFit, RewriteTask
<1>. HIDE DEF new
<1>4. CASE ~TriggersAllow(new)
  BY <1>4, Quiet DEF RewriteTask, new, Inv, TypeOK, Stages, GoesOn
<1>5. CASE TriggersAllow(new)
  <2>1. /\ row' = Upserted(new) /\ To(c, "claimed")
        /\ UNCHANGED <<binding, archive, job, granted, sends>>
    BY <1>5 DEF RewriteTask, new
  <2>2. row' \in TaskRow /\ row'.allow = new.allow /\ row'.exists = new.exists
    BY <1>1, <1>2, <2>1 DEF Upserted, TaskRow
  <2>3. row'.chat = row.chat /\ SessionLive'
    BY <1>2, <1>3, <1>5, <2>1, TriggersKeepChat DEF Fits, SessionLive
  <2>4. AllowGranted'
    BY <1>2, <1>3, <2>1, <2>2 DEF Fits, AllowGranted
  <2>5. granted
    BY <1>3 DEF Fits, GoesOn
  <2>6. call' \in [Calls -> CallRow]
    BY <2>1, ToType DEF Inv, Stages
  <2>7. \A d \in Calls : Fits(call'[d], row.chat, granted')
    BY <1>1, <2>1, <2>5, ToFits DEF Inv, Stages
  <2>. QED
    BY <2>1, <2>2, <2>3, <2>4, <2>6, <2>7, RowStep DEF Inv, TypeOK
<1>. QED
  BY <1>4, <1>5

LEMMA BindInv ==
    ASSUME AdmissionAssumption, Inv, NEW c \in Calls,
           ReadBinding(c) \/ WriteBinding(c) \/ Authorize(c) \/ Finish(c)
    PROVE  Inv'
<1>1. row \in TaskRow /\ call \in [Calls -> CallRow] /\ call[c] \in CallRow
      /\ binding \in [Chats -> Nat]
  BY DEF Inv, TypeOK
<1>2. call[c].stage \in GoesOn => granted
  BY DEF Inv, CallsFit, Fits
<1>3. CASE Authorize(c) \/ Finish(c)
  <2>1. PICK stage \in {"running", "done"} : To(c, stage) /\ (stage = "running" => granted)
    BY <1>2, <1>3 DEF Authorize, Finish, GoesOn
  <2>. QED
    BY <1>1, <1>3, <2>1, Quiet DEF Authorize, Finish, Stages, GoesOn
<1>4. CASE WriteBinding(c)
  <2>1. binding' \in [Chats -> Nat]
    BY <1>1, <1>4 DEF WriteBinding, CallRow
  <2>. QED
    BY <1>2, <1>4, <2>1, Quiet DEF WriteBinding, Stages, GoesOn
<1>5. CASE ReadBinding(c) /\ To(c, "running")
  BY <1>1, <1>2, <1>5, Quiet DEF ReadBinding, Stages, GoesOn
<1>6. CASE /\ ReadBinding(c)
           /\ call' = [call EXCEPT ![c].stage = "binding", ![c].gen = row.gen]
  <2>. DEFINE new == [call[c] EXCEPT !.stage = "binding", !.gen = row.gen]
  <2>1. call' = [call EXCEPT ![c] = new]
    BY <1>1, <1>6
  <2>2. new \in CallRow
    BY <1>1 DEF CallRow, TaskRow, Stages
  <2>3. Fits(new, row.chat, granted)
    <3>1. new.chat = call[c].chat /\ new.copy = call[c].copy /\ new.stage = "binding"
      BY <1>1 DEF CallRow
    <3>2. Fits(call[c], row.chat, granted) /\ granted
      BY <1>2, <1>6 DEF ReadBinding, GoesOn, Inv, CallsFit
    <3>. HIDE DEF new
    <3>. QED
      BY <3>1, <3>2 DEF Fits
  <2>. HIDE DEF new
  <2>4. call' \in [Calls -> CallRow] /\ \A d \in Calls : Fits(call'[d], row.chat, granted)
    BY <1>1, <2>1, <2>2, <2>3 DEF Inv, CallsFit
  <2>. QED
    BY <1>1, <1>6, <2>4, RowStep DEF ReadBinding, Inv, TypeOK, AllowGranted, SessionLive
<1>. QED
  BY <1>3, <1>4, <1>5, <1>6 DEF ReadBinding

----------------------------------------------------------------------------
\* The user, time and the compact worker

LEMMA UserInv ==
    ASSUME AdmissionAssumption, Inv, User \/ Age
    PROVE  Inv'
<1>1. row \in TaskRow /\ granted \in BOOLEAN /\ sends \in 0..MaxSends /\ MaxSends \in Nat
  BY DEF Inv, TypeOK, AdmissionAssumption
<1>2. call' \in [Calls -> CallRow] /\ UNCHANGED <<call, binding, archive, job>>
  BY DEF User, Age, Stop, Continue, Retry, Decide, Inv, TypeOK
<1>3. granted' \in BOOLEAN /\ (granted => granted') /\ sends' \in 0..MaxSends
  <2>1. granted' \in BOOLEAN /\ (granted => granted')
    BY <1>1 DEF User, Age, Stop, Continue, Retry, Decide
  <2>2. sends' = sends \/ (sends < MaxSends /\ sends' = sends + 1)
    BY DEF User, Age, Stop, Continue, Retry, Decide
  <2>. QED
    BY <1>1, <2>1, <2>2
<1>4. \A d \in Calls : Fits(call'[d], row.chat, granted')
  BY <1>2, <1>3 DEF Inv, CallsFit, Fits
<1>5. row' \in TaskRow /\ row'.chat = row.chat /\ row'.session \in {row.session, NoSession}
  <2>1. CASE Stop
    BY <1>1, <2>1 DEF Stop, TaskRow, NoSession
  <2>2. CASE Continue
    BY <1>1, <2>2 DEF Continue, TaskRow
  <2>3. CASE Retry
    BY <1>1, <2>3 DEF Retry, TaskRow
  <2>4. CASE Decide("yes")
    BY <1>1, <2>4 DEF Decide, TaskRow
  <2>5. CASE Decide("no")
    BY <1>1, <2>5 DEF Decide, TaskRow
  <2>6. CASE Age
    BY <1>1, <2>6 DEF Age, TaskRow
  <2>. QED
    BY <2>1, <2>2, <2>3, <2>4, <2>5, <2>6 DEF User
<1>6. AllowGranted'
  <2>1. \/ row'.allow = row.allow
        \/ row'.allow = "yes" /\ granted'
        \/ row'.allow = "no"
    BY <1>1 DEF User, Age, Stop, Continue, Retry, Decide, TaskRow
  <2>. QED
    BY <1>3, <1>5, <2>1 DEF Inv, AllowGranted
<1>7. SessionLive'
  BY <1>2, <1>5 DEF Inv, SessionLive
<1>. QED
  BY <1>2, <1>3, <1>4, <1>5, <1>6, <1>7, RowStep

LEMMA CompactInv ==
    ASSUME AdmissionAssumption, Inv, Compact
    PROVE  Inv'
<1>1. /\ row \in TaskRow /\ job \in JobRow /\ MaxCompacts \in Nat
      /\ row.chat \in Nat /\ row.session \in Nat /\ row.gen \in Nat /\ job.started \in Nat
  BY DEF Inv, TypeOK, TaskRow, JobRow, Chats, AdmissionAssumption
<1>2. CASE StartCompact
  <2>1. job' \in JobRow /\ job'.started = job.started + 1 /\ job'.phase = "preparing"
    BY <1>1, <1>2 DEF StartCompact, JobRow, JobPhases
  <2>2. ChatsCounted'
    BY <1>1, <1>2, <2>1 DEF StartCompact, Inv, ChatsCounted, Compacting
  <2>. QED
    BY <1>2, <2>1, <2>2, JobStep DEF StartCompact
<1>3. CASE AskSettled
  <2>1. job' \in JobRow /\ job'.started = job.started /\ job'.phase = job.phase
    BY <1>1, <1>3 DEF AskSettled, JobRow
  <2>2. ChatsCounted'
    BY <1>3, <2>1 DEF AskSettled, Inv, ChatsCounted, Compacting
  <2>. QED
    BY <1>3, <2>1, <2>2, JobStep DEF AskSettled
<1>4. CASE AdvanceCompact
  <2>1. job' \in JobRow /\ job'.started = job.started /\ job'.phase = "handoff"
    BY <1>1, <1>4 DEF AdvanceCompact, JobRow, JobPhases
  <2>2. ChatsCounted'
    BY <1>4, <2>1 DEF AdvanceCompact, Inv, ChatsCounted, Compacting
  <2>. QED
    BY <1>4, <2>1, <2>2, JobStep DEF AdvanceCompact
<1>5. CASE CancelCompact
  <2>1. job' \in JobRow /\ job'.started = job.started /\ job'.phase = "none"
    BY <1>1, <1>5 DEF CancelCompact, JobRow, JobPhases
  <2>2. ChatsCounted'
    BY <1>1, <1>5, <2>1 DEF CancelCompact, Inv, ChatsCounted, Compacting
  <2>. QED
    BY <1>5, <2>1, <2>2, JobStep DEF CancelCompact
<1>6. CASE CompleteCompact
  <2>1. row.chat + 1 <= job.started /\ job.started <= MaxCompacts
    BY <1>1, <1>6 DEF CompleteCompact, Inv, ChatsCounted, Compacting, JobRow
  <2>2. job' \in JobRow /\ job'.started = job.started /\ job'.phase = "none"
    BY <1>1, <1>6 DEF CompleteCompact, JobRow, JobPhases
  <2>3. /\ row' \in TaskRow /\ row'.chat = row.chat + 1
        /\ row'.session = NoSession /\ row'.allow = row.allow
    <3>1. row.chat + 1 \in Chats /\ row.gen + 1 \in Nat /\ NoSession \in Nat
      BY <1>1, <2>1 DEF Chats, NoSession
    <3>. QED
      BY <1>1, <1>6, <3>1 DEF CompleteCompact, TaskRow
  <2>. DEFINE old == [chat |-> row.chat,
                      session |-> IF row.session = NoSession THEN job.session ELSE row.session]
  <2>4. archive' = archive \cup {old} /\ old \in ArchiveRow /\ old.chat = row.chat
    BY <1>1, <1>6 DEF CompleteCompact, ArchiveRow, TaskRow, JobRow
  <2>. HIDE DEF old
  <2>5. TypeOK'
    BY <1>6, <2>2, <2>3, <2>4 DEF CompleteCompact, Inv, TypeOK
  <2>6. ChatsCounted'
    BY <1>1, <2>1, <2>2, <2>3 DEF ChatsCounted, Compacting
  <2>7. ArchivedBefore'
    <3>. SUFFICES ASSUME NEW k \in Chats
                  PROVE  Archived(k)' <=> k < row.chat + 1
      BY <2>3 DEF ArchivedBefore
    <3>1. Archived(k)' <=> Archived(k) \/ k = row.chat
      BY <2>4 DEF Archived
    <3>2. Archived(k) <=> k < row.chat
      BY DEF Inv, ArchivedBefore
    <3>. QED
      BY <1>1, <3>1, <3>2 DEF Chats
  <2>8. SessionLive' /\ AllowGranted'
    BY <1>6, <2>3 DEF SessionLive, AllowGranted, CompleteCompact, Inv
  <2>9. CallsFit'
    <3>1. \A c \in Calls : call[c].chat \in Nat /\ call[c].copy.chat \in Nat
      BY DEF Inv, TypeOK, CallRow, TaskRow, Chats
    <3>. QED
      BY <1>1, <1>6, <2>3, <3>1 DEF CompleteCompact, Inv, CallsFit, Fits
  <2>. QED
    BY <2>5, <2>6, <2>7, <2>8, <2>9 DEF Inv
<1>. QED
  BY <1>2, <1>3, <1>4, <1>5, <1>6 DEF Compact

----------------------------------------------------------------------------

LEMMA InitInv == AdmissionAssumption /\ Init => Inv
<1>. SUFFICES ASSUME AdmissionAssumption, Init
              PROVE  Inv
  OBVIOUS
<1>1. NoRow \in TaskRow /\ NoCall \in CallRow
  BY NoCallType
<1>2. row \in TaskRow /\ row.chat = 0 /\ row.session = NoSession
      /\ (row.allow = "yes" => granted) /\ granted \in BOOLEAN
  BY <1>1 DEF Init, WebRow, NoRow, TaskRow, AdmissionAssumption
<1>3. binding \in [Chats -> Nat]
  <2>1. PICK g \in {Unbound, 1} : binding = [k \in Chats |-> IF k = 0 THEN g ELSE Unbound]
    BY DEF Init
  <2>. QED
    BY <2>1 DEF Unbound
<1>4. job \in JobRow /\ job.started = 0 /\ job.phase = "none"
  BY DEF Init, JobRow, JobPhases, NoSession, AdmissionAssumption
<1>5. TypeOK
  BY <1>1, <1>2, <1>3, <1>4 DEF Init, TypeOK, AdmissionAssumption
<1>6. ChatsCounted /\ ArchivedBefore /\ SessionLive /\ AllowGranted
  BY <1>2, <1>4 DEF Init, ChatsCounted, Compacting, ArchivedBefore, Archived, SessionLive,
                    AllowGranted, Chats
<1>7. CallsFit
  BY <1>2 DEF Init, CallsFit, Fits, NoCall, NoRow, GoesOn
<1>. QED
  BY <1>5, <1>6, <1>7 DEF Inv

LEMMA NextInv == AdmissionAssumption /\ Inv /\ [Next]_vars => Inv'
<1>. SUFFICES ASSUME AdmissionAssumption, Inv, [Next]_vars
              PROVE  Inv'
  OBVIOUS
<1>1. ASSUME NEW c \in Calls, Track(c) \/ CallStep(c)
      PROVE  Inv'
  BY <1>1, TrackInv, CheckInv, ReadTaskInv, UpsertInv, PollInv, ExpireInv, RereadInv,
     RewriteInv, BindInv DEF CallStep
<1>2. CASE User \/ Age
  BY <1>2, UserInv
<1>3. CASE Compact
  BY <1>3, CompactInv
<1>4. CASE UNCHANGED vars
  BY <1>4 DEF vars, Inv, TypeOK, ChatsCounted, Compacting, ArchivedBefore, Archived,
              SessionLive, CallsFit, AllowGranted
<1>. QED
  BY <1>1, <1>2, <1>3, <1>4 DEF Next

LEMMA InvHolds == Spec => []Inv
<1>1. AdmissionAssumption
  BY AdmissionAssumption
<1>. QED
  BY <1>1, InitInv, NextInv, PTL DEF Spec

\* Every variable keeps its type, for any number of calls and compacts.
THEOREM TypeCorrect == Spec => []TypeOK
<1>1. Inv => TypeOK
  BY DEF Inv
<1>. QED
  BY <1>1, InvHolds, PTL

\* The task stays in its live conversation and never gets back an archived
\* session, however late a copy of its row is written back.
THEOREM StaysLive == Spec => []OnLiveConversation
<1>1. ASSUME Inv
      PROVE  OnLiveConversation
  <2>1. row.chat \in Chats /\ row.chat \in Nat
    BY <1>1 DEF Inv, TypeOK, TaskRow, Chats
  <2>2. ~Archived(row.chat)
    BY <1>1, <2>1 DEF Inv, ArchivedBefore
  <2>. QED
    BY <1>1, <2>2 DEF OnLiveConversation, Inv, SessionLive
<1>. QED
  BY <1>1, InvHolds, PTL

\* A tool runs only in a task that was let execute.
THEOREM GrantedRuns == Spec => []OnlyGrantedRuns
<1>1. Inv => OnlyGrantedRuns
  BY DEF Inv, CallsFit, Fits, GoesOn, OnlyGrantedRuns
<1>. QED
  BY <1>1, InvHolds, PTL

----------------------------------------------------------------------------
\* What the steps do to the live conversation and to the other calls

\* Only the completion of a compact moves the task to another conversation.
LEMMA ChatMoves ==
    ASSUME AdmissionAssumption, Inv, [Next]_vars, ~CompleteCompact
    PROVE  row'.chat = row.chat
<1>1. row \in TaskRow
  BY DEF Inv, TypeOK
<1>2. ASSUME NEW c \in Calls, UpsertTask(c)
      PROVE  row'.chat = row.chat
  <2>1. MergedRow(c) \in TaskRow
    BY MergedType DEF Inv
  <2>2. MergedRow(c).chat = IF call[c].copy.exists THEN call[c].copy.chat ELSE call[c].chat
    BY DEF MergedRow
  <2>3. MergedRow(c).chat <= row.chat
    BY <2>2 DEF Inv, CallsFit, Fits
  <2>. QED
    BY <1>2, <2>1, <2>3, TriggersKeepChat DEF UpsertTask
<1>3. ASSUME NEW c \in Calls, RewriteTask(c)
      PROVE  row'.chat = row.chat
  <2>. DEFINE new == [call[c].copy EXCEPT !.status = "running", !.session = call[c].session]
  <2>1. call[c] \in CallRow
    BY DEF Inv, TypeOK
  <2>2. new \in TaskRow /\ new.chat = call[c].copy.chat
    BY <2>1 DEF CallRow, TaskRow
  <2>3. new.chat <= row.chat
    BY <2>2 DEF Inv, CallsFit, Fits
  <2>4. (TriggersAllow(new) /\ row' = Upserted(new)) \/ row' = row
    BY <1>3 DEF RewriteTask
  <2>. HIDE DEF new
  <2>. QED
    BY <2>2, <2>3, <2>4, TriggersKeepChat
<1>4. ASSUME NEW c \in Calls, ExpireApproval(c)
      PROVE  row'.chat = row.chat
  BY <1>1, <1>4 DEF ExpireApproval, TaskRow
<1>5. CASE User \/ Age
  BY <1>1, <1>5 DEF User, Age, Stop, Continue, Retry, Decide, TaskRow
<1>6. CASE Compact
  BY <1>6 DEF Compact, StartCompact, AskSettled, AdvanceCompact, CancelCompact
<1>7. ASSUME NEW c \in Calls,
             \/ Track(c) \/ CheckFence(c) \/ Resolve(c) \/ Validate(c) \/ ReadTask(c)
             \/ PollApproval(c) \/ RereadTask(c) \/ ReadBinding(c) \/ WriteBinding(c)
             \/ Authorize(c) \/ Finish(c)
      PROVE  row'.chat = row.chat
  BY <1>7 DEF Track, CheckFence, Resolve, Validate, ReadTask, PollApproval, RereadTask,
              ReadBinding, WriteBinding, Authorize, Finish
<1>8. CASE UNCHANGED vars
  BY <1>8 DEF vars
<1>. QED
  BY <1>2, <1>3, <1>4, <1>5, <1>6, <1>7, <1>8 DEF Next, CallStep

\* A call past its fence keeps its route and conversation until it is over,
\* and a step of one call leaves the others and the compact job alone.
Outside == {"idle", "tracked", "done"}

LEMMA CallMoves ==
    ASSUME AdmissionAssumption, Inv, NEW c \in Calls, CallStep(c), ~CheckFence(c)
    PROVE  /\ call[c].stage \notin Outside
           /\ call'[c].stage = "done" \/ /\ call'[c].route = call[c].route
                                         /\ call'[c].chat = call[c].chat
           /\ \A d \in Calls \ {c} : call'[d] = call[d]
           /\ UNCHANGED job
<1>1. call \in [Calls -> CallRow] /\ call[c] \in CallRow /\ NoCall \in CallRow
  BY NoCallType DEF Inv, TypeOK
<1>2. ASSUME NEW stage, To(c, stage)
      PROVE  /\ call'[c].stage = "done" \/ /\ call'[c].route = call[c].route
                                           /\ call'[c].chat = call[c].chat
             /\ \A d \in Calls \ {c} : call'[d] = call[d]
  BY <1>1, <1>2 DEF To, CallRow
<1>3. CASE ReadTask(c)
  BY <1>1, <1>2, <1>3 DEF ReadTask, Outside, CallRow
<1>4. CASE RereadTask(c)
  BY <1>1, <1>4 DEF RereadTask, Outside, CallRow
<1>5. CASE ReadBinding(c)
  BY <1>1, <1>2, <1>5 DEF ReadBinding, Outside, CallRow
<1>6. CASE \/ Resolve(c) \/ Validate(c) \/ UpsertTask(c) \/ PollApproval(c)
           \/ ExpireApproval(c) \/ RewriteTask(c) \/ WriteBinding(c) \/ Authorize(c)
           \/ Finish(c)
  <2>1. /\ call[c].stage \notin Outside /\ UNCHANGED job
        /\ \E stage \in Stages : To(c, stage)
    BY <1>6 DEF Resolve, Validate, UpsertTask, PollApproval, ExpireApproval, RewriteTask,
                WriteBinding, Authorize, Finish, Outside, Stages
  <2>. QED
    BY <1>2, <2>1
<1>. QED
  BY <1>3, <1>4, <1>5, <1>6 DEF CallStep

----------------------------------------------------------------------------
\* The barrier

\* Of the calls that name the task or its scope themselves, a settled barrier
\* leaves none past its fence, and the fence lets none in.
FenceInv ==
    /\ job.settled => Compacting
    /\ \A c \in Calls :
          /\ call[c].stage \notin Outside /\ call[c].route = "chatScope"
                => call[c].chat = row.chat
          /\ (job.settled \/ job.phase = "handoff") /\ SelfNamed(c)
                => call[c].stage \in Outside

LEMMA FenceInit == Init => FenceInv
BY DEF Init, FenceInv, Compacting, NoCall, Outside, SelfNamed

LEMMA FenceStep ==
    ASSUME AdmissionAssumption, Inv, FenceInv, [Next]_vars
    PROVE  FenceInv'
<1>1. call \in [Calls -> CallRow] /\ row.chat \in Chats /\ job \in JobRow
      /\ \A c \in Calls : call[c].chat <= row.chat /\ call[c].chat \in Chats
  BY DEF Inv, TypeOK, TaskRow, CallRow, CallsFit, Fits
<1>0. CompleteCompact => job' # job
  BY <1>1 DEF CompleteCompact, JobRow
<1>2. ASSUME NEW c \in Calls, Track(c)
      PROVE  FenceInv'
  <2>1. PICK r \in Routes, m \in BOOLEAN, k \in 0..row.chat :
          call' = [call EXCEPT ![c] = [NoCall EXCEPT !.stage = "tracked", !.route = r,
                                                     !.message = m, !.chat = k]]
    BY <1>2 DEF Track
  <2>2. /\ call'[c].stage = "tracked"
        /\ \A d \in Calls \ {c} : call'[d] = call[d]
    BY <1>1, <2>1 DEF NoCall
  <2>. QED
    BY <1>2, <2>2 DEF FenceInv, Compacting, Track, Outside, SelfNamed
<1>3. ASSUME NEW c \in Calls, CheckFence(c)
      PROVE  FenceInv'
  <2>1. /\ UNCHANGED <<row, job>> /\ call[c].stage = "tracked"
        /\ \A d \in Calls \ {c} : call'[d] = call[d]
    BY <1>1, <1>3 DEF CheckFence, To
  <2>2. CASE Fenced(c)
    <3>1. call'[c].stage = "done"
      BY <1>1, <1>3, <2>2 DEF CheckFence, To, NoCall
    <3>. QED
      BY <2>1, <3>1 DEF FenceInv, Compacting, Outside, SelfNamed
  <2>3. CASE ~Fenced(c)
    <3>1. call'[c].stage = "admitted" /\ call'[c].route = call[c].route
          /\ call'[c].chat = call[c].chat
      BY <1>1, <1>3, <2>3 DEF CheckFence, To, CallRow
    <3>3. call[c].route = "chatScope" => call[c].chat = row.chat
      BY <1>1, <2>3 DEF Fenced, Inv, ArchivedBefore, Chats
    <3>4. SelfNamed(c) => ~Compacting
      BY <2>3, <3>3 DEF Fenced, OwnTask, OwnScope, SelfNamed
    <3>. QED
      BY <2>1, <3>1, <3>3, <3>4 DEF FenceInv, Compacting, Outside, SelfNamed
  <2>. QED
    BY <2>2, <2>3
<1>4. ASSUME NEW c \in Calls, CallStep(c), ~CheckFence(c)
      PROVE  FenceInv'
  <2>1. row'.chat = row.chat
    <3>1. ~CompleteCompact
      BY <1>0, <1>4, CallMoves
    <3>. QED
      BY <1>4, <3>1, ChatMoves DEF Next
  <2>. QED
    BY <1>4, <2>1, CallMoves DEF FenceInv, Compacting, Outside, SelfNamed
<1>5. CASE User \/ Age
  <2>1. row'.chat = row.chat /\ UNCHANGED <<call, job>>
    <3>1. UNCHANGED <<call, job>> /\ ~CompleteCompact
      BY <1>1, <1>5 DEF User, Age, Stop, Continue, Retry, Decide, CompleteCompact, JobRow
    <3>. QED
      BY <1>5, <3>1, ChatMoves DEF Next
  <2>. QED
    BY <2>1 DEF FenceInv, Compacting, SelfNamed
<1>6. CASE AskSettled
  <2>1. /\ job' = [job EXCEPT !.settled = TRUE] /\ CompactSettled /\ Compacting
        /\ UNCHANGED <<row, call>>
    BY <1>6 DEF AskSettled
  <2>2. job'.phase = job.phase
    BY <1>1, <2>1 DEF JobRow
  <2>3. \A c \in Calls : SelfNamed(c) => call[c].stage \in Outside
    <3>. SUFFICES ASSUME NEW c \in Calls, SelfNamed(c), call[c].stage \notin Outside
                  PROVE  FALSE
      OBVIOUS
    <3>1. c \in InFlight /\ (OwnTask(c) \/ OwnScope(c, row.chat))
      BY DEF InFlight, Outside, OwnTask, OwnScope, SelfNamed, FenceInv
    <3>. QED
      BY <2>1, <3>1 DEF CompactSettled
  <2>. QED
    BY <2>1, <2>2, <2>3 DEF FenceInv, Compacting, SelfNamed
<1>7. CASE StartCompact \/ AdvanceCompact \/ CancelCompact
  <2>1. CASE StartCompact
    <3>1. UNCHANGED <<row, call>> /\ job'.settled = FALSE /\ job'.phase = "preparing"
      BY <2>1 DEF StartCompact
    <3>. QED
      BY <3>1 DEF FenceInv, Compacting, SelfNamed
  <2>2. CASE AdvanceCompact
    <3>1. UNCHANGED <<row, call>> /\ job.settled
          /\ job' = [job EXCEPT !.phase = "handoff", !.settled = FALSE]
      BY <2>2 DEF AdvanceCompact
    <3>2. job'.settled = FALSE /\ job'.phase = "handoff"
      BY <1>1, <3>1 DEF JobRow
    <3>. QED
      BY <3>1, <3>2 DEF FenceInv, Compacting, SelfNamed
  <2>3. CASE CancelCompact
    <3>1. UNCHANGED <<row, call>> /\ job' = [job EXCEPT !.phase = "none", !.settled = FALSE]
      BY <2>3 DEF CancelCompact
    <3>2. job'.settled = FALSE /\ job'.phase = "none"
      BY <1>1, <3>1 DEF JobRow
    <3>. QED
      BY <3>1, <3>2 DEF FenceInv, Compacting, SelfNamed
  <2>. QED
    BY <1>7, <2>1, <2>2, <2>3
<1>8. CASE CompleteCompact
  <2>1. /\ job.settled /\ UNCHANGED call
        /\ job'.settled = FALSE /\ job'.phase = "none"
    BY <1>1, <1>8 DEF CompleteCompact, JobRow
  <2>. QED
    BY <2>1 DEF FenceInv, Compacting, SelfNamed
<1>9. CASE UNCHANGED vars
  BY <1>9 DEF vars, FenceInv, Compacting, SelfNamed
<1>. QED
  BY <1>2, <1>3, <1>4, <1>5, <1>6, <1>7, <1>8, <1>9 DEF Next, Compact

\* Calls that carry the task id or the browser's conversation scope are
\* drained before the handoff.
THEOREM Drained == Spec => []BarrierDrained
<1>1. AdmissionAssumption
  BY AdmissionAssumption
<1>2. Inv /\ FenceInv /\ [Next]_vars => FenceInv'
  BY <1>1, FenceStep
<1>3. FenceInv => BarrierDrained
  BY DEF FenceInv, BarrierDrained, Outside, SelfNamed
<1>. QED
  BY <1>2, <1>3, FenceInit, InvHolds, PTL DEF Spec

\* Once the task was compacted no step takes its generation back.
THEOREM GenerationGrows == Spec => GenerationKept
<1>1. ASSUME Inv, [Next]_vars, archive # {}
      PROVE  row'.gen >= row.gen
  <2>1. row \in TaskRow /\ row.gen \in Nat
    BY <1>1 DEF Inv, TypeOK, TaskRow
  <2>2. ASSUME NEW new \in TaskRow, TriggersAllow(new), row' = Upserted(new)
        PROVE  row'.gen >= row.gen
    BY <1>1, <2>2 DEF TriggersAllow, Upserted, TaskRow
  <2>3. ASSUME NEW c \in Calls, UpsertTask(c)
        PROVE  row'.gen >= row.gen
    <3>1. MergedRow(c) \in TaskRow
      BY <1>1, MergedType, AdmissionAssumption DEF Inv
    <3>. QED
      BY <2>1, <2>2, <2>3, <3>1 DEF UpsertTask
  <2>4. ASSUME NEW c \in Calls, RewriteTask(c)
        PROVE  row'.gen >= row.gen
    <3>1. call[c] \in CallRow
      BY <1>1 DEF Inv, TypeOK
    <3>2. [call[c].copy EXCEPT !.status = "running", !.session = call[c].session] \in TaskRow
      BY <3>1 DEF CallRow, TaskRow
    <3>. QED
      BY <2>1, <2>2, <2>4, <3>2 DEF RewriteTask
  <2>5. ASSUME NEW c \in Calls, ExpireApproval(c)
        PROVE  row'.gen >= row.gen
    <3>1. row' = row \/ row' = [row EXCEPT !.allow = "no", !.status = "failed"]
      BY <2>5 DEF ExpireApproval
    <3>2. row'.gen = row.gen
      BY <2>1, <3>1 DEF TaskRow
    <3>. QED
      BY <2>1, <3>2
  <2>6. CASE User \/ Age
    <3>1. CASE Stop
      BY <2>1, <3>1 DEF Stop, TaskRow
    <3>2. CASE Continue
      BY <2>1, <3>2 DEF Continue, TaskRow
    <3>3. CASE Retry
      BY <2>1, <3>3 DEF Retry, TaskRow
    <3>4. ASSUME NEW answer \in {"yes", "no"}, Decide(answer)
          PROVE  row'.gen >= row.gen
      <4>. DEFINE status == IF answer = "yes" THEN "pending" ELSE "failed"
      <4>1. row' = [row EXCEPT !.allow = answer, !.status = status]
        BY <3>4 DEF Decide
      <4>. HIDE DEF status
      <4>2. row'.gen = row.gen
        BY <2>1, <4>1 DEF TaskRow
      <4>. QED
        BY <2>1, <4>2
    <3>5. CASE Age
      BY <2>1, <3>5 DEF Age, TaskRow
    <3>. QED
      BY <2>6, <3>1, <3>2, <3>3, <3>4, <3>5 DEF User
  <2>7. CASE Compact
    <3>1. CASE CompleteCompact
      <4>. DEFINE status == IF row.status = "running" THEN "interrupted" ELSE row.status
      <4>1. row' = [row EXCEPT !.chat = row.chat + 1, !.session = NoSession,
                               !.gen = row.gen + 1, !.status = status]
        BY <3>1 DEF CompleteCompact
      <4>. HIDE DEF status
      <4>2. row'.gen = row.gen + 1
        BY <2>1, <4>1 DEF TaskRow
      <4>. QED
        BY <2>1, <4>2
    <3>2. CASE UNCHANGED row
      BY <2>1, <3>2
    <3>. QED
      BY <2>7, <3>1, <3>2 DEF Compact, StartCompact, AskSettled, AdvanceCompact, CancelCompact
  <2>8. ASSUME NEW c \in Calls,
               \/ Track(c) \/ CheckFence(c) \/ Resolve(c) \/ Validate(c) \/ ReadTask(c)
               \/ PollApproval(c) \/ RereadTask(c) \/ ReadBinding(c) \/ WriteBinding(c)
               \/ Authorize(c) \/ Finish(c)
        PROVE  row'.gen >= row.gen
    <3>1. Track(c) \/ CheckFence(c) \/ Resolve(c) \/ Validate(c) \/ ReadTask(c)
          => UNCHANGED row
      BY DEF Track, CheckFence, Resolve, Validate, ReadTask
    <3>2. PollApproval(c) \/ RereadTask(c) \/ ReadBinding(c) \/ WriteBinding(c)
          => UNCHANGED row
      BY DEF PollApproval, RereadTask, ReadBinding, WriteBinding
    <3>3. Authorize(c) \/ Finish(c) => UNCHANGED row
      BY DEF Authorize, Finish
    <3>. QED
      BY <2>1, <2>8, <3>1, <3>2, <3>3
  <2>9. CASE UNCHANGED vars
    BY <2>1, <2>9 DEF vars
  <2>. QED
    BY <1>1, <2>3, <2>4, <2>5, <2>6, <2>7, <2>8, <2>9 DEF Next, CallStep
<1>2. Inv /\ [Next]_vars => (archive # {} => row'.gen >= row.gen)
  BY <1>1
<1>3. Inv /\ [Next]_vars => [archive # {} => row'.gen >= row.gen]_vars
  BY <1>2
<1>. QED
  BY <1>3, InvHolds, PTL DEF Spec, GenerationKept

----------------------------------------------------------------------------
\* The delegation behind the gate is not registered yet.
GateHolds == gate.stage # "free" => gate.run \in Runs /\ run[gate.run].status = "none"

\* A pending run waits for a worker: no one claimed it, no fallback is exhausted.
PendingOpen == \A r \in Runs : run[r].status = "pending"
                   => run[r].fb \in {"none", "requested", "started"}

RunInv == RunTypeOK /\ GateHolds /\ PendingOpen

\* What a step does to one row: nothing of interest, a registration, a claim,
\* an end, or an expiry.
RunRowStep(old, new) ==
    /\ \/ new.status = old.status /\ new.owner = old.owner
       \/ old.status = "none" /\ new.status = "pending"
          /\ gate.stage = "insert" /\ gate' = FreeGate
       \/ old.status = "pending" /\ new.status = "running"
       \/ /\ old.status \in {"pending", "running"} /\ new.status \in Ends
          /\ new.owner = old.owner
          /\ old.status = "running" /\ new.status = "timedOut"
                => old.lapsed \/ old.overdue \/ old.owner # boot
    /\ new.status = "pending" => new.fb \in {"none", "requested", "started"}

\* Every row keeps its type, and every row moves as RunRowStep says.
RunSound == /\ run' \in [Runs -> RunRow]
         /\ \A r \in Runs : RunRowStep(run[r], run'[r])
----------------------------------------------------------------------------
\* A step that leaves the rows alone.
LEMMA QuietSound == RunInv /\ UNCHANGED run => RunSound
  BY DEF RunInv, RunTypeOK, PendingOpen, RunSound, RunRowStep

\* A step that writes one row is judged by that row.
LEMMA OneRow ==
  ASSUME RunInv, NEW r \in Runs, NEW rec \in RunRow, Set(r, rec), RunRowStep(run[r], rec)
  PROVE  RunSound
<1>1. run' = [run EXCEPT ![r] = rec] BY DEF Set
<1>2. run \in [Runs -> RunRow] BY DEF RunInv, RunTypeOK
<1>3. \A q \in Runs : run'[q] = IF q = r THEN rec ELSE run[q] BY <1>1, <1>2
<1>4. run' \in [Runs -> RunRow] BY <1>1, <1>2
<1>5. ASSUME NEW q \in Runs, q # r PROVE RunRowStep(run[q], run'[q])
  BY <1>3, <1>5 DEF RunInv, PendingOpen, RunRowStep
<1>q. QED BY <1>3, <1>4, <1>5 DEF RunSound

\* An action that ends an active run.
LEMMA EndSound ==
  ASSUME RunInv, NEW r \in Runs, Active(r), NEW end \in Ends \ {"timedOut"},
         Set(r, [run[r] EXCEPT !.status = end])
  PROVE  RunSound
<1> DEFINE rec == [run[r] EXCEPT !.status = end]
<1>1. run[r] \in RunRow BY DEF RunInv, RunTypeOK
<1>2. rec \in RunRow BY <1>1 DEF RunRow, Statuses, Ends
<1>3. rec.status = end /\ rec.owner = run[r].owner BY <1>1 DEF RunRow
<1>4. RunRowStep(run[r], rec) BY <1>3 DEF RunRowStep, Active, Ends
<1>q. QED BY <1>2, <1>4, OneRow

LEMMA NoRunType == NoRun \in RunRow
<1>1. 0 \in 0..MaxTries /\ 0 \in 0..MaxBoots BY RunAssumption
<1>q. QED BY <1>1 DEF NoRun, RunRow, Statuses, Fallbacks

LEMMA InsertSound == ASSUME RunInv, Insert PROVE RunSound
<1> DEFINE rec == [NoRun EXCEPT !.status = "pending"]
<1>1. gate.run \in Runs /\ run[gate.run].status = "none"
  BY DEF RunInv, GateHolds, Insert
<1>2. rec \in RunRow BY NoRunType DEF RunRow, Statuses
<1>3. rec.status = "pending" /\ rec.fb = "none" BY DEF NoRun
<1>4. RunRowStep(run[gate.run], rec) BY <1>1, <1>3 DEF RunRowStep, Insert
<1>q. QED BY <1>1, <1>2, <1>4, OneRow DEF Insert

LEMMA WriteFallbackSound ==
  ASSUME RunInv, NEW r \in Runs, WriteFallback(r) PROVE RunSound
<1>1. CASE run[r].status # "pending" BY <1>1, QuietSound DEF WriteFallback
<1>2. CASE run[r].status = "pending"
  <2> DEFINE rec == [run[r] EXCEPT !.fb = "requested", !.tries = request[r], !.quiet = FALSE]
  <2>1. run[r] \in RunRow /\ run \in [Runs -> RunRow] BY DEF RunInv, RunTypeOK
  <2>2. request[r] \in 0..MaxTries BY DEF RunInv, RunTypeOK
  <2>3. rec \in RunRow BY <2>1, <2>2 DEF RunRow, Fallbacks
  <2>4. rec.status = "pending" /\ rec.fb = "requested" /\ rec.owner = run[r].owner
    BY <2>1, <1>2 DEF RunRow
  <2>5. RunRowStep(run[r], rec)
    BY <1>2, <2>4 DEF RunRowStep, WriteFallback, RunInv, PendingOpen
  <2>6. run' = [run EXCEPT ![r].fb = "requested", ![r].tries = request[r], ![r].quiet = FALSE]
    BY <1>2 DEF WriteFallback
  <2>7. [run EXCEPT ![r].fb = "requested", ![r].tries = request[r], ![r].quiet = FALSE]
          = [run EXCEPT ![r] = rec] BY <2>1
  <2>8. Set(r, rec) BY <2>6, <2>7 DEF Set
  <2>q. QED BY <2>3, <2>5, <2>8, OneRow
<1>q. QED BY <1>1, <1>2

LEMMA StartedSound == ASSUME RunInv, NEW r \in Runs, Started(r) PROVE RunSound
<1> DEFINE rec == [run[r] EXCEPT !.fb = "started", !.quiet = FALSE]
<1>1. run[r] \in RunRow BY DEF RunInv, RunTypeOK
<1>2. rec \in RunRow BY <1>1 DEF RunRow, Fallbacks
<1>3. rec.status = run[r].status /\ rec.fb = "started" /\ rec.owner = run[r].owner
  BY <1>1 DEF RunRow
<1>4. RunRowStep(run[r], rec)
  BY <1>3 DEF RunRowStep, Started, Waiting
<1>q. QED BY <1>2, <1>4, OneRow DEF Started

LEMMA ResultSound ==
  ASSUME RunInv, NEW r \in Runs, NEW n \in 1..MaxTries, Result(r, n) PROVE RunSound
<1>1. run[r] \in RunRow BY DEF RunInv, RunTypeOK
<1>2. CASE n < MaxTries
  <2> DEFINE rec == [run[r] EXCEPT !.fb = "requested", !.tries = n + 1, !.quiet = FALSE]
  <2>1. n + 1 \in 0..MaxTries BY <1>2, RunAssumption
  <2>2. rec \in RunRow BY <1>1, <2>1 DEF RunRow, Fallbacks
  <2>3. rec.status = run[r].status /\ rec.fb = "requested" /\ rec.owner = run[r].owner
    BY <1>1 DEF RunRow
  <2>4. RunRowStep(run[r], rec) BY <2>3 DEF RunRowStep, Result, Waiting
  <2>q. QED BY <1>2, <2>2, <2>4, OneRow DEF Result
<1>3. CASE ~(n < MaxTries)
  <2> DEFINE rec == [run[r] EXCEPT !.fb = "exhausted", !.status = "failed"]
  <2>1. rec \in RunRow BY <1>1 DEF RunRow, Fallbacks, Statuses, Ends
  <2>2. rec.status = "failed" /\ rec.owner = run[r].owner BY <1>1 DEF RunRow
  <2>3. RunRowStep(run[r], rec) BY <2>2 DEF RunRowStep, Result, Waiting, Ends
  <2>q. QED BY <1>3, <2>1, <2>3, OneRow DEF Result
<1>q. QED BY <1>2, <1>3

LEMMA BeatSound ==
  ASSUME RunInv, NEW r \in Runs, run[r].status = "running",
         Set(r, [run[r] EXCEPT !.lapsed = FALSE])
  PROVE  RunSound
<1> DEFINE rec == [run[r] EXCEPT !.lapsed = FALSE]
<1>1. run[r] \in RunRow BY DEF RunInv, RunTypeOK
<1>2. rec \in RunRow BY <1>1 DEF RunRow
<1>3. rec.status = run[r].status /\ rec.owner = run[r].owner BY <1>1 DEF RunRow
<1>4. RunRowStep(run[r], rec) BY <1>3 DEF RunRowStep
<1>q. QED BY <1>2, <1>4, OneRow

LEMMA BrowserBeatSound == ASSUME RunInv, NEW r \in Runs, BrowserBeat(r) PROVE RunSound
<1>1. CASE Waiting(r) /\ Set(r, [run[r] EXCEPT !.quiet = FALSE])
  <2> DEFINE rec == [run[r] EXCEPT !.quiet = FALSE]
  <2>1. run[r] \in RunRow BY DEF RunInv, RunTypeOK
  <2>2. rec \in RunRow BY <2>1 DEF RunRow
  <2>3. rec.status = run[r].status /\ rec.fb = run[r].fb /\ rec.owner = run[r].owner
    BY <2>1 DEF RunRow
  <2>4. RunRowStep(run[r], rec)
    BY <1>1, <2>3 DEF RunRowStep, Waiting, BrowserBeat
  <2>q. QED BY <1>1, <2>2, <2>4, OneRow
<1>2. CASE run[r].status = "running" /\ Set(r, [run[r] EXCEPT !.lapsed = FALSE])
  BY <1>2, BeatSound DEF BrowserBeat
<1>q. QED BY <1>1, <1>2 DEF BrowserBeat

LEMMA ClaimSound == ASSUME RunInv, NEW r \in Runs, Claim(r) PROVE RunSound
<1> DEFINE rec == ClaimedRow(r)
<1>1. run[r] \in RunRow /\ boot \in 0..MaxBoots BY DEF RunInv, RunTypeOK
<1>2. rec \in RunRow BY <1>1 DEF RunRow, ClaimedRow, Fallbacks, Statuses
<1>3. rec.status = "running" BY <1>1 DEF RunRow, ClaimedRow
<1>4. run[r].status = "pending" /\ run[r].fb \in {"none", "requested", "started"}
  BY DEF Claim, RunInv, PendingOpen
<1>5. RunRowStep(run[r], rec) BY <1>3, <1>4 DEF RunRowStep, Claim
<1>q. QED BY <1>2, <1>5, OneRow DEF Claim

LEMMA ExpireSound ==
  ASSUME RunInv, NEW w \in Scanners, NEW r \in Runs, Expire(w, r) PROVE RunSound
<1>1. CASE ~Stale(r) BY <1>1, QuietSound DEF Expire
<1>2. CASE Stale(r)
  <2> DEFINE end == IF run[r].status = "pending" THEN "failed" ELSE "timedOut"
             rec == [run[r] EXCEPT !.status = end]
  <2>1. run[r] \in RunRow BY DEF RunInv, RunTypeOK
  <2>2. rec \in RunRow BY <2>1 DEF RunRow, Statuses, Ends
  <2>3. rec.status = end /\ rec.owner = run[r].owner BY <2>1 DEF RunRow
  <2>4. RunRowStep(run[r], rec) BY <1>2, <2>3 DEF RunRowStep, Stale, Ends
  <2>5. Set(r, rec)
    <3>1. Set(r, [run[r] EXCEPT !.status = IF @ = "pending" THEN "failed" ELSE "timedOut"])
      BY <1>2 DEF Expire
    <3>q. QED BY <3>1, <2>1
  <2>q. QED BY <2>2, <2>4, <2>5, OneRow
<1>q. QED BY <1>1, <1>2

LEMMA InterruptSound == ASSUME RunInv, NEW r \in Runs, Interrupt(r) PROVE RunSound
<1>1. CASE Active(r)
  <2>1. Set(r, [run[r] EXCEPT !.status = "interrupted"]) BY <1>1 DEF Interrupt
  <2>2. "interrupted" \in Ends \ {"timedOut"} BY DEF Ends
  <2>q. QED BY <1>1, <2>1, <2>2, EndSound
<1>2. CASE ~Active(r) BY <1>2, QuietSound DEF Interrupt
<1>q. QED BY <1>1, <1>2

LEMMA MarkStoppedSound == ASSUME RunInv, MarkStopped PROVE RunSound
<1>1. CASE stop.task \in Runs /\ Active(stop.task)
  <2>1. run' = [run EXCEPT ![stop.task].status = "stopped"] BY <1>1 DEF MarkStopped
  <2>2. run \in [Runs -> RunRow] BY DEF RunInv, RunTypeOK
  <2>3. Set(stop.task, [run[stop.task] EXCEPT !.status = "stopped"])
    BY <2>1, <2>2, <1>1 DEF Set
  <2>4. "stopped" \in Ends \ {"timedOut"} BY DEF Ends
  <2>q. QED BY <1>1, <2>3, <2>4, EndSound
<1>2. CASE ~(stop.task \in Runs /\ Active(stop.task))
  BY <1>2, QuietSound DEF MarkStopped
<1>q. QED BY <1>1, <1>2

LEMMA AgeSound == ASSUME RunInv, NEW r \in Runs, AgeRun(r) PROVE RunSound
<1>1. run[r] \in RunRow BY DEF RunInv, RunTypeOK
<1>2. CASE Unclaimed(r)
  <2> DEFINE rec == [run[r] EXCEPT !.quiet = TRUE]
  <2>1. rec \in RunRow BY <1>1 DEF RunRow
  <2>2. rec.status = "pending" /\ rec.fb = run[r].fb /\ rec.owner = run[r].owner /\ rec.quiet
    BY <1>1, <1>2 DEF RunRow, Unclaimed
  <2>3. RunRowStep(run[r], rec)
    BY <1>2, <2>2 DEF RunRowStep, Unclaimed, RunInv, PendingOpen
  <2>q. QED BY <1>2, <2>1, <2>3, OneRow DEF Unclaimed
<1>3. CASE Lapse(r)
  <2> DEFINE rec == [run[r] EXCEPT !.lapsed = TRUE]
  <2>1. rec \in RunRow BY <1>1 DEF RunRow
  <2>2. rec.status = "running" /\ rec.owner = run[r].owner /\ rec.lapsed
    BY <1>1, <1>3 DEF RunRow, Lapse
  <2>3. RunRowStep(run[r], rec) BY <1>3, <2>2 DEF RunRowStep, Lapse
  <2>q. QED BY <1>3, <2>1, <2>3, OneRow DEF Lapse
<1>4. CASE Overrun(r)
  <2> DEFINE rec == [run[r] EXCEPT !.overdue = TRUE]
  <2>1. rec \in RunRow BY <1>1 DEF RunRow
  <2>2. /\ rec.status = run[r].status /\ rec.owner = run[r].owner
        /\ rec.fb = run[r].fb /\ rec.quiet = run[r].quiet /\ rec.lapsed = run[r].lapsed
    BY <1>1 DEF RunRow
  <2>3. RunRowStep(run[r], rec) BY <1>4, <2>2 DEF RunRowStep, Overrun, RunInv, PendingOpen
  <2>q. QED BY <1>4, <2>1, <2>3, OneRow DEF Overrun
<1>q. QED BY <1>2, <1>3, <1>4 DEF AgeRun

\* Every step of the system is sound for every row.
LEMMA StepSound == ASSUME RunInv, [RunNext]_runVars PROVE RunSound
<1>1. CASE UNCHANGED runVars BY <1>1, QuietSound DEF runVars
<1>2. CASE Register
  <2>1. CASE Insert BY <2>1, InsertSound
  <2>2. CASE (\E r \in Runs : Enter(r)) \/ ScanAtGate \/ Count
    BY <2>2, QuietSound DEF Enter, ScanAtGate, Count
  <2>q. QED BY <1>2, <2>1, <2>2 DEF Register
<1>3. CASE Scan \/ Restart \/ \E t \in Tasks : Wake(t)
  BY <1>3, QuietSound DEF Scan, Restart, Wake
<1>4. CASE \E w \in Scanners : Treat(w) BY <1>4, ExpireSound DEF Treat
<1>5. CASE StopRuns
  <2>1. CASE (\E t \in Tasks : StopTask(t)) \/ SelectChildren
    BY <2>1, QuietSound DEF StopTask, SelectChildren
  <2>q. QED BY <1>5, <2>1, InterruptSound, MarkStoppedSound DEF StopRuns
<1>6. ASSUME NEW r \in Runs, Fallback(r) PROVE RunSound
  <2>1. CASE ReadFallback(r) BY <2>1, QuietSound DEF ReadFallback
  <2>2. CASE Recover(r)
    <3>1. Active(r) /\ Set(r, [run[r] EXCEPT !.status = "completed"])
      BY <2>2 DEF Recover, Active
    <3>2. "completed" \in Ends \ {"timedOut"} BY DEF Ends
    <3>q. QED BY <3>1, <3>2, EndSound
  <2>q. QED BY <1>6, <2>1, <2>2, WriteFallbackSound, StartedSound, ResultSound,
               BrowserBeatSound DEF Fallback
<1>7. ASSUME NEW r \in Runs, Work(r) PROVE RunSound
  <2>1. CASE Claim(r) BY <2>1, ClaimSound
  <2>2. CASE Beat(r) BY <2>2, BeatSound DEF Beat
  <2>3. ASSUME NEW end \in {"completed", "failed"}, FinishRun(r, end) PROVE RunSound
    <3>1. end \in Ends \ {"timedOut"} BY DEF Ends
    <3>q. QED BY <2>3, <3>1, EndSound DEF FinishRun
  <2>q. QED BY <1>7, <2>1, <2>2, <2>3 DEF Work
<1>8. ASSUME NEW r \in Runs, CleanUp(r) \/ AgeRun(r) PROVE RunSound
  BY <1>8, QuietSound, AgeSound DEF CleanUp
<1>q. QED BY <1>1, <1>2, <1>3, <1>4, <1>5, <1>6, <1>7, <1>8 DEF RunNext

----------------------------------------------------------------------------
\* Who holds the gate after a step: no one, the same delegation as before, or
\* one that enters and has no row.
LEMMA GateStep ==
  ASSUME RunInv, [RunNext]_runVars
  PROVE  /\ gate' \in [run : Runs \cup {None}, stage : GateStages]
         /\ \/ gate'.stage = "free"
            \/ gate'.run = gate.run /\ gate.stage # "free"
            \/ gate'.run \in Runs /\ run[gate'.run].status = "none" /\ run' = run
<1>0. gate \in [run : Runs \cup {None}, stage : GateStages] BY DEF RunInv, RunTypeOK
<1>1. CASE gate' = gate BY <1>0, <1>1
<1>2. CASE gate' = FreeGate BY <1>2 DEF FreeGate, GateStages
<1>3. CASE ScanAtGate BY <1>0, <1>3 DEF ScanAtGate, GateStages
<1>4. CASE Count BY <1>0, <1>2, <1>4 DEF Count, GateStages
<1>5. CASE \E r \in Runs : Enter(r) BY <1>5 DEF Enter, GateStages
<1>6. Register => gate' = FreeGate \/ ScanAtGate \/ Count \/ \E r \in Runs : Enter(r)
  BY DEF Register, Insert
<1>7. Restart => gate' = FreeGate BY DEF Restart
<1>8. UNCHANGED runVars \/ Scan \/ (\E w \in Scanners : Treat(w)) \/ (\E t \in Tasks : Wake(t))
        \/ StopRuns => gate' = gate
  BY DEF runVars, Scan, Treat, Expire, Wake, StopRuns, StopTask, SelectChildren, Interrupt, MarkStopped
<1>9. ASSUME NEW r \in Runs, Fallback(r) \/ Work(r) \/ CleanUp(r) \/ AgeRun(r)
      PROVE  gate' = gate
  <2>1. Fallback(r) => gate' = gate
    BY DEF Fallback, ReadFallback, WriteFallback, Started, Result, BrowserBeat, Recover
  <2>2. Work(r) \/ CleanUp(r) \/ AgeRun(r) => gate' = gate
    BY DEF Work, Claim, Beat, FinishRun, CleanUp, AgeRun, Unclaimed, Lapse, Overrun
  <2>q. QED BY <1>9, <2>1, <2>2
<1>q. QED BY <1>1, <1>2, <1>3, <1>4, <1>5, <1>6, <1>7, <1>8, <1>9 DEF RunNext

\* The set of live tasks, the process and the tasks to clean up keep their types.
LEMMA TaskStep ==
  ASSUME RunInv, [RunNext]_runVars
  PROVE  live' \subseteq Tasks /\ boot' \in 0..MaxBoots /\ cleaning' \subseteq Runs
<1>0. live \subseteq Tasks /\ boot \in 0..MaxBoots /\ cleaning \subseteq Runs
  BY DEF RunInv, RunTypeOK
<1>1. CASE UNCHANGED runVars \/ Scan BY <1>0, <1>1 DEF runVars, Scan
<1>2. CASE Register
  <2>1. Insert => gate.run \in Runs BY DEF RunInv, GateHolds, Insert
  <2>q. QED BY <1>0, <1>2, <2>1 DEF Register, Enter, ScanAtGate, Count, Insert, Tasks
<1>3. CASE \E w \in Scanners : Treat(w) BY <1>0, <1>3 DEF Treat, Expire
<1>4. CASE StopRuns BY <1>0, <1>4 DEF StopRuns, StopTask, SelectChildren, Interrupt, MarkStopped
<1>5. CASE Restart
  <2>1. boot + 1 \in 0..MaxBoots BY <1>0, <1>5, RunAssumption DEF Restart
  <2>q. QED BY <1>0, <1>5, <2>1 DEF Restart
<1>6. CASE \E t \in Tasks : Wake(t) BY <1>0, <1>6 DEF Wake
<1>7. ASSUME NEW r \in Runs, Fallback(r) \/ Work(r) \/ CleanUp(r) \/ AgeRun(r)
      PROVE  live' \subseteq Tasks /\ boot' = boot /\ cleaning' \subseteq Runs
  <2>1. Fallback(r) => live' \subseteq Tasks /\ boot' = boot /\ cleaning' \subseteq Runs
    BY <1>0 DEF Fallback, ReadFallback, WriteFallback, Started, Result, BrowserBeat, Recover
  <2>2. Work(r) => live' \subseteq Tasks /\ boot' = boot /\ cleaning' \subseteq Runs
    BY <1>0 DEF Work, Claim, Beat, FinishRun
  <2>3. CleanUp(r) \/ AgeRun(r) => live' \subseteq Tasks /\ boot' = boot /\ cleaning' \subseteq Runs
    BY <1>0 DEF CleanUp, AgeRun, Unclaimed, Lapse, Overrun
  <2>q. QED BY <1>7, <2>1, <2>2, <2>3
<1>q. QED BY <1>0, <1>1, <1>2, <1>3, <1>4, <1>5, <1>6, <1>7 DEF RunNext

\* The snapshots, the requests and the stop in progress keep their types.
LEMMA CopyStep ==
  ASSUME RunInv, [RunNext]_runVars
  PROVE  /\ seen' \in [Scanners -> SUBSET Runs]
         /\ request' \in [Runs -> 0..MaxTries]
         /\ stop' \in [task : Tasks \cup {None}, stage : StopStages, rows : SUBSET Runs]
<1> DEFINE StopType == [task : Tasks \cup {None}, stage : StopStages, rows : SUBSET Runs]
<1>0. /\ seen \in [Scanners -> SUBSET Runs] /\ request \in [Runs -> 0..MaxTries]
      /\ stop \in StopType
  BY DEF RunInv, RunTypeOK
<1>s. NoStop \in StopType BY DEF NoStop, StopStages
<1>1. CASE UNCHANGED runVars BY <1>0, <1>1 DEF runVars
<1>2. CASE Register BY <1>0, <1>2 DEF Register, Enter, ScanAtGate, Count, Insert
<1>3. CASE Scan \/ \E t \in Tasks : Wake(t) BY <1>0, <1>3 DEF Scan, Wake
<1>4. CASE \E w \in Scanners : Treat(w) BY <1>0, <1>4 DEF Treat, Expire
<1>5. CASE StopRuns
  <2>1. seen' = seen /\ request' = request
    BY <1>5 DEF StopRuns, StopTask, SelectChildren, Interrupt, MarkStopped
  <2>2. (\E t \in Tasks : StopTask(t)) => stop' \in StopType BY DEF StopTask, StopStages
  <2>3. SelectChildren => stop' \in StopType
    <3> DEFINE rows == {r \in Descendants(stop.task) : Active(r)}
    <3>1. rows \subseteq Runs BY DEF Descendants
    <3> HIDE DEF rows
    <3>2. [stop EXCEPT !.stage = "interrupt", !.rows = rows] \in StopType
      BY <1>0, <3>1 DEF StopStages
    <3>q. QED BY <3>2 DEF SelectChildren, rows
  <2>4. ASSUME NEW r \in Runs, Interrupt(r) PROVE stop' \in StopType
    BY <1>0, <2>4 DEF Interrupt
  <2>5. MarkStopped => stop' \in StopType BY <1>s DEF MarkStopped
  <2>q. QED BY <1>0, <1>5, <2>1, <2>2, <2>3, <2>4, <2>5 DEF StopRuns
<1>6. CASE Restart BY <1>s, <1>6, RunAssumption DEF Restart
<1>7. ASSUME NEW r \in Runs, Fallback(r) \/ Work(r) \/ CleanUp(r) \/ AgeRun(r)
      PROVE  seen' = seen /\ request' \in [Runs -> 0..MaxTries] /\ stop' = stop
  <2>1. run[r].tries \in 0..MaxTries BY DEF RunInv, RunTypeOK, RunRow
  <2>2. ReadFallback(r) => seen' = seen /\ request' \in [Runs -> 0..MaxTries] /\ stop' = stop
    BY <1>0, <2>1 DEF ReadFallback
  <2>3. WriteFallback(r) => seen' = seen /\ request' \in [Runs -> 0..MaxTries] /\ stop' = stop
    BY <1>0, RunAssumption DEF WriteFallback
  <2>4. Fallback(r) => ReadFallback(r) \/ WriteFallback(r) \/ UNCHANGED <<seen, request, stop>>
    BY DEF Fallback, Started, Result, BrowserBeat, Recover
  <2>5. Work(r) \/ CleanUp(r) \/ AgeRun(r) => UNCHANGED <<seen, request, stop>>
    BY DEF Work, Claim, Beat, FinishRun, CleanUp, AgeRun, Unclaimed, Lapse, Overrun
  <2>q. QED BY <1>0, <1>7, <2>2, <2>3, <2>4, <2>5
<1>q. QED BY <1>0, <1>1, <1>2, <1>3, <1>4, <1>5, <1>6, <1>7 DEF RunNext

LEMMA RunInvInit == RunInit => RunInv
<1> SUFFICES ASSUME RunInit PROVE RunInv OBVIOUS
<1>1. run \in [Runs -> RunRow] BY NoRunType DEF RunInit
<1>2. gate \in [run : Runs \cup {None}, stage : GateStages] BY DEF RunInit, FreeGate, GateStages
<1>3. stop \in [task : Tasks \cup {None}, stage : StopStages, rows : SUBSET Runs]
  BY DEF RunInit, NoStop, StopStages
<1>4. boot \in 0..MaxBoots /\ request \in [Runs -> 0..MaxTries] BY RunAssumption DEF RunInit
<1>5. RunTypeOK BY <1>1, <1>2, <1>3, <1>4 DEF RunInit, RunTypeOK, Tasks
<1>6. GateHolds /\ PendingOpen BY DEF RunInit, GateHolds, PendingOpen, FreeGate, NoRun
<1>q. QED BY <1>5, <1>6 DEF RunInv

LEMMA RunInvStep == RunInv /\ [RunNext]_runVars => RunInv'
<1> SUFFICES ASSUME RunInv, [RunNext]_runVars PROVE RunInv' OBVIOUS
<1>1. RunSound BY StepSound
<1>2. RunTypeOK' BY <1>1, GateStep, TaskStep, CopyStep DEF RunTypeOK, RunSound
<1>3. GateHolds'
  <2>1. CASE gate'.stage = "free" BY <2>1 DEF GateHolds
  <2>2. CASE gate'.stage # "free" /\ gate'.run = gate.run /\ gate.stage # "free"
    <3>1. gate.run \in Runs /\ run[gate.run].status = "none" BY <2>2 DEF RunInv, GateHolds
    <3>2. gate' # FreeGate BY <2>2 DEF FreeGate
    <3>3. run'[gate.run].status = "none" BY <1>1, <3>1, <3>2 DEF RunSound, RunRowStep
    <3>q. QED BY <2>2, <3>1, <3>3 DEF GateHolds
  <2>3. CASE gate'.run \in Runs /\ run[gate'.run].status = "none" /\ run' = run
    BY <2>3 DEF GateHolds
  <2>q. QED BY <2>1, <2>2, <2>3, GateStep
<1>4. PendingOpen' BY <1>1 DEF RunSound, RunRowStep, PendingOpen
<1>q. QED BY <1>2, <1>3, <1>4 DEF RunInv

THEOREM RunInvariant == RunSpec => []RunInv
  BY RunInvInit, RunInvStep, PTL DEF RunSpec

----------------------------------------------------------------------------
\* Every variable keeps its type, for any number of delegations, attempts and
\* restarts of the host.
THEOREM RunsTyped == RunSpec => []RunTypeOK
  BY RunInvariant, PTL DEF RunInv

\* A run that is over stays as it ended: among finish, fallback, watchdog, stop
\* and cascade there is one winner.
THEOREM OneEnd == RunSpec => TerminalStays
<1>1. RunInv /\ [RunNext]_runVars
        => [\A r \in Runs : Ended(r) => run'[r].status = run[r].status]_runVars
  BY StepSound DEF RunSound, RunRowStep, Ended, Ends
<1>q. QED BY <1>1, RunInvariant, PTL DEF RunSpec, TerminalStays

\* A running child keeps its worker: no claim and no restart takes it over.
THEOREM WorkerKept == RunSpec => OneWorker
<1>1. RunInv /\ [RunNext]_runVars
        => [\A r \in Runs : run[r].status = "running" => run'[r].owner = run[r].owner]_runVars
  BY StepSound DEF RunSound, RunRowStep
<1>q. QED BY <1>1, RunInvariant, PTL DEF RunSpec, OneWorker

\* A child is timed out only when its lease or its runtime is over or its worker
\* is gone at that moment, whatever the watchdog has read before.
THEOREM NoEarlyTimeout == RunSpec => LeaseRespected
<1>1. RunInv /\ [RunNext]_runVars
        => [\A r \in Runs : run[r].status = "running" /\ run'[r].status = "timedOut"
               => run[r].lapsed \/ run[r].overdue \/ run[r].owner # boot]_runVars
  BY StepSound DEF RunSound, RunRowStep
<1>q. QED BY <1>1, RunInvariant, PTL DEF RunSpec, LeaseRespected

----------------------------------------------------------------------------
\* The limit

\* The children that hold a slot of their own, and a registration that has passed the
\* count and is not inserted, which holds one too.
Held == Counted \ overtaken
Reserved == IF gate.stage = "insert" THEN 1 ELSE 0

CapacityInv == RunInv /\ Cardinality(Held) + Reserved <= Limit

\* Whoever holds a slot is finite, and a set within it is not larger.
LEMMA HeldFinite ==
  /\ IsFiniteSet(Counted) /\ Cardinality(Counted) \in Nat
  /\ IsFiniteSet(Held) /\ Cardinality(Held) \in Nat
  /\ \A S \in SUBSET Held : Cardinality(S) \in Nat /\ Cardinality(S) <= Cardinality(Held)
<1>1. Counted \subseteq Runs /\ Held \subseteq Counted BY DEF Counted, Held
<1>2. IsFiniteSet(Counted) /\ IsFiniteSet(Held) BY <1>1, RunAssumption, FS_Subset
<1>q. QED BY <1>2, FS_Subset, FS_CardinalityType

\* Rows appear only through the gate.
LEMMA OnlyInsert ==
  ASSUME RunInv, [RunNext]_runVars, ~Insert
  PROVE  \A r \in Runs : run[r].status = "none" => run'[r].status # "pending"
<1>1. RunSound BY StepSound
<1>2. CASE run' = run BY <1>2
<1>3. CASE gate' = gate
  <2>1. ~(gate.stage = "insert" /\ gate' = FreeGate) BY <1>3 DEF FreeGate
  <2>q. QED BY <1>1, <2>1 DEF RunSound, RunRowStep
<1>4. UNCHANGED runVars \/ Scan \/ (\E w \in Scanners : Treat(w)) \/ (\E t \in Tasks : Wake(t))
        \/ StopRuns => gate' = gate
  BY DEF runVars, Scan, Treat, Expire, Wake, StopRuns, StopTask, SelectChildren, Interrupt, MarkStopped
<1>5. Restart \/ Register => run' = run
  BY DEF Restart, Register, Enter, ScanAtGate, Count
<1>6. \A r \in Runs : Fallback(r) => gate' = gate
  BY DEF Fallback, ReadFallback, WriteFallback, Started, Result, BrowserBeat, Recover
<1>7. \A r \in Runs : Work(r) \/ CleanUp(r) \/ AgeRun(r) => gate' = gate
  BY DEF Work, Claim, Beat, FinishRun, CleanUp, AgeRun, Unclaimed, Lapse, Overrun
<1>q. QED BY <1>2, <1>3, <1>4, <1>5, <1>6, <1>7 DEF RunNext

\* The gate gets to its last stage only by the count.
LEMMA OnlyCount ==
  ASSUME RunInv, [RunNext]_runVars, gate'.stage = "insert"
  PROVE  gate.stage = "insert" \/ Count
<1>0. gate \in [run : Runs \cup {None}, stage : GateStages] BY DEF RunInv, RunTypeOK
<1>1. gate' = FreeGate => gate'.stage # "insert" BY DEF FreeGate
<1>2. Restart \/ Insert => gate' = FreeGate BY DEF Restart, Insert
<1>3. (\E r \in Runs : Enter(r)) \/ ScanAtGate => gate'.stage # "insert"
  BY <1>0 DEF Enter, ScanAtGate
<1>4. UNCHANGED runVars \/ Scan \/ (\E w \in Scanners : Treat(w)) \/ (\E t \in Tasks : Wake(t))
        \/ StopRuns => gate' = gate
  BY DEF runVars, Scan, Treat, Expire, Wake, StopRuns, StopTask, SelectChildren, Interrupt, MarkStopped
<1>5. \A r \in Runs : Fallback(r) => gate' = gate
  BY DEF Fallback, ReadFallback, WriteFallback, Started, Result, BrowserBeat, Recover
<1>6. \A r \in Runs : Work(r) \/ CleanUp(r) \/ AgeRun(r) => gate' = gate
  BY DEF Work, Claim, Beat, FinishRun, CleanUp, AgeRun, Unclaimed, Lapse, Overrun
<1>q. QED BY <1>1, <1>2, <1>3, <1>4, <1>5, <1>6 DEF RunNext, Register

LEMMA CapacityStep ==
  ASSUME CapacityInv, RunNext, Noted
  PROVE  Cardinality(Held)' + Reserved' <= Limit
<1>0. RunInv /\ RunSound /\ [RunNext]_runVars BY StepSound DEF CapacityInv
<1>1. /\ Cardinality(Held) \in Nat /\ Cardinality(Counted) \in Nat /\ Reserved \in {0, 1}
      /\ Limit \in Nat /\ Cardinality(Held) + Reserved <= Limit
  BY HeldFinite, RunAssumption DEF CapacityInv, Reserved
<1>2. CASE Taken' <= Limit
  <2>1. Held' = Counted' BY <1>2 DEF Noted, Held
  <2>q. QED BY <1>2, <2>1 DEF Taken, Reserved
<1>3. CASE ~(Taken' <= Limit)
  <2>1. \A r \in Held' : r \notin overtaken /\ (r \in Counted \/ run[r].status = "none")
    BY <1>3 DEF Noted, Held
  <2>2. Held' \subseteq Counted' /\ Counted' \subseteq Runs BY DEF Held, Counted
  <2>3. CASE Insert
    <3>1. gate.run \in Runs BY <1>0, <2>3 DEF RunInv, GateHolds, Insert
    <3>2. \A r \in Runs \ {gate.run} : run'[r] = run[r]
      BY <1>0, <2>3 DEF Insert, Set, RunInv, RunTypeOK
    <3>3. \A r \in Counted' : r \in Counted \/ r = gate.run BY <3>2 DEF Counted
    <3>4. Held' \subseteq Held \cup {gate.run} BY <2>1, <2>2, <3>3 DEF Held
    <3>5. IsFiniteSet(Held \cup {gate.run})
          /\ Cardinality(Held \cup {gate.run}) <= Cardinality(Held) + 1
      <4>1. IsFiniteSet(Held) /\ Cardinality(Held) \in Nat BY HeldFinite
      <4>2. /\ IsFiniteSet(Held \cup {gate.run})
            /\ \/ Cardinality(Held \cup {gate.run}) = Cardinality(Held)
               \/ Cardinality(Held \cup {gate.run}) = Cardinality(Held) + 1
        BY ONLY <4>1, FS_AddElement
      <4>q. QED BY ONLY <4>1, <4>2
    <3>6. /\ Cardinality(Held') \in Nat /\ Cardinality(Held \cup {gate.run}) \in Nat
          /\ Cardinality(Held') <= Cardinality(Held \cup {gate.run})
      BY <3>4, <3>5, FS_Subset, FS_CardinalityType
    <3>7. Reserved = 1 /\ Reserved' = 0 BY <2>3 DEF Insert, FreeGate, Reserved
    <3>q. QED BY <1>1, <3>5, <3>6, <3>7
  <2>4. CASE ~Insert
    <3>1. \A r \in Counted' : run[r].status # "none"
      <4>1. SUFFICES ASSUME NEW r \in Runs, run[r].status = "none"
                     PROVE  run'[r].status = "none"
        BY <2>2 DEF Counted
      <4>2. run'[r].status \in {"none", "pending"}
        BY <1>0, <4>1 DEF RunSound, RunRowStep
      <4>q. QED BY <1>0, <2>4, <4>1, <4>2, OnlyInsert
    <3>2. Held' \in SUBSET Held BY <2>1, <2>2, <3>1 DEF Held
    <3>3. Cardinality(Held') \in Nat /\ Cardinality(Held') <= Cardinality(Held)
      BY <3>2, HeldFinite
    <3>4. Reserved' <= Reserved
      <4>1. CASE gate'.stage # "insert" BY <4>1, <1>1 DEF Reserved
      <4>2. CASE gate.stage = "insert" BY <4>2 DEF Reserved
      <4>3. CASE Count /\ gate'.stage = "insert"
        <5>1. Counted' = Counted BY <4>3 DEF Count, Counted
        <5>2. Cardinality(Counted) < Limit BY <4>3 DEF Count, FreeGate
        <5>q. QED BY <1>1, <1>3, <4>3, <5>1, <5>2 DEF Taken
      <4>q. QED BY <1>0, <4>1, <4>2, <4>3, OnlyCount
    <3>q. QED BY <1>1, <3>3, <3>4 DEF Reserved
  <2>q. QED BY <2>3, <2>4
<1>q. QED BY <1>2, <1>3

\* The children that count never exceed the configured limit by more than those that
\* came back when every slot was taken: for any limit and any delegations, whatever
\* claims and heartbeats come late.
THEOREM LimitHolds == LimitSpec => []Capacity
<1>1. RunInit /\ overtaken = {} => CapacityInv
  <2> SUFFICES ASSUME RunInit, overtaken = {} PROVE CapacityInv OBVIOUS
  <2>1. Held = {} BY DEF RunInit, NoRun, Counted, Held
  <2>2. Cardinality(Held) = 0 BY <2>1, FS_EmptySet
  <2>3. Reserved = 0 BY DEF RunInit, FreeGate, Reserved
  <2>q. QED BY <2>2, <2>3, RunInvInit, RunAssumption DEF CapacityInv
<1>2. CapacityInv /\ [LimitNext]_limitVars => CapacityInv'
  <2>1. CASE UNCHANGED limitVars
    <3>1. UNCHANGED runVars /\ UNCHANGED overtaken BY <2>1 DEF limitVars
    <3>2. Held' = Held /\ Reserved' = Reserved BY <3>1 DEF runVars, Held, Counted, Reserved
    <3>q. QED BY <3>1, <3>2, RunInvStep DEF CapacityInv
  <2>2. CASE LimitNext BY <2>2, RunInvStep, CapacityStep DEF CapacityInv, LimitNext
  <2>q. QED BY <2>1, <2>2
<1>3. CapacityInv => Capacity
  BY HeldFinite, RunAssumption DEF CapacityInv, Capacity, Held, Reserved
<1>q. QED BY <1>1, <1>2, <1>3, PTL DEF LimitSpec

=============================================================================
