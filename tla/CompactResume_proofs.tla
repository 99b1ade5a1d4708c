----------------------- MODULE CompactResume_proofs -----------------------
(***************************************************************************)
(* Proofs about CompactResume for every set of tasks, conversations, jobs  *)
(* and requests and every bound.                                           *)
(***************************************************************************)
EXTENDS CompactResume, TLAPS

\* What TypeOK rests on: a request that does not exist has no task, and the
\* request that request_json is closing exists and has one.
ClosingBound ==
    \A r \in RequestIds :
        /\ req[r].status = "absent" => req[r].task = None
        /\ <<"closing", r>> \in lagging => req[r].task # None

\* A job that exists has the task and the durable source it was started with,
\* and a destination that can never be its source.
JobShape ==
    \A j \in Jobs :
        /\ job[j].phase = "absent" => job[j].new = None
        /\ job[j].phase # "absent" =>
              /\ job[j].task \in Tasks
              /\ job[j].old \in Convs \ Provisional
              /\ job[j].new # None => job[j].new \notin Provisional /\ job[j].new # job[j].old
              /\ job[j].phase = "completed" => job[j].new # None

\* The inductive invariant behind TypeOK.
TypeInv == TypeOK /\ ClosingBound /\ JobShape

\* Rows keep their type when fields are assigned values of the field's type.
LEMMA NewRequestType ==
    ASSUME NEW status \in {"queued", "running"}, NEW t \in Opt(Tasks), NEW c \in Opt(Convs)
    PROVE  NewRequest(status, t, c) \in RequestRow
  BY DEF NewRequest, RequestRow, Working, Completed

LEMMA NothingTyped ==
    /\ NoTask \in TaskRow
    /\ NoRequest \in RequestRow
    /\ NoJob \in JobRow
  BY CompactAssumption DEF NoTask, NoRequest, NoJob, TaskRow, RequestRow, JobRow, Opt

LEMMA InitTypeOK == Init => TypeOK
  BY NothingTyped, CompactAssumption DEF Init, TypeOK

LEMMA LaterType ==
    ASSUME TypeOK, NEW step \in Lag, Later(step)
    PROVE  lagging' \subseteq Lag
  BY DEF Later, TypeOK

\* The actions that touch one request row and perhaps what is in flight.
LEMMA RequestStepType ==
    ASSUME TypeOK, NEW r \in RequestIds,
           \/ r \in Requests /\ CreateRequest(r)
           \/ FinalReported(r) \/ ReadUnbound(r) \/ FailUnbound(r)
           \/ SettleFinal(r) \/ StopMessage(r)
    PROVE  TypeOK'
<1>1. req[r] \in RequestRow
  BY DEF TypeOK
<1>2. /\ [req[r] EXCEPT !.final = TRUE] \in RequestRow
      /\ \A status \in {"stop_requested", "completed", "failed"} :
            [req[r] EXCEPT !.status = status] \in RequestRow
  BY <1>1 DEF RequestRow, Working, Outcomes
<1>3. CASE r \in Requests /\ CreateRequest(r)
  <2>1. NewRequest("queued", None, None) \in RequestRow
    BY NewRequestType DEF Opt
  <2>2. QED BY <1>3, <2>1 DEF CreateRequest, TypeOK
<1>4. CASE FinalReported(r)
  BY <1>4, <1>2 DEF FinalReported, TypeOK
<1>5. CASE ReadUnbound(r)
  BY <1>5, LaterType DEF ReadUnbound, TypeOK, Lag
<1>6. CASE FailUnbound(r)
  BY <1>6, <1>2 DEF FailUnbound, TypeOK
<1>7. CASE SettleFinal(r)
  BY <1>7, <1>2, LaterType DEF SettleFinal, TypeOK, Lag
<1>8. CASE StopMessage(r)
  BY <1>8, <1>2 DEF StopMessage, TypeOK
<1>9. QED BY <1>3, <1>4, <1>5, <1>6, <1>7, <1>8

\* The actions on the message queue and the ones that only read.
LEMMA QueueStepType ==
    ASSUME TypeOK, NEW t \in Tasks,
           \/ ReadStop(t) \/ ReadImmediateAllowed(t) \/ QueueImmediate(t)
           \/ ClaimImmediate(t) \/ DemoteImmediate(t)
    PROVE  TypeOK'
<1>1. CASE ReadStop(t)
  <2>1. task[t].active \in RequestIds
    BY <1>1 DEF ReadStop, TypeOK, TaskRow, Opt
  <2>2. QED BY <1>1, <2>1, LaterType DEF ReadStop, TypeOK, Lag
<1>2. CASE ReadImmediateAllowed(t)
  BY <1>2, LaterType DEF ReadImmediateAllowed, TypeOK, Lag
<1>3. CASE QueueImmediate(t)
  BY <1>3 DEF QueueImmediate, TypeOK
<1>4. CASE ClaimImmediate(t)
  BY <1>4 DEF ClaimImmediate, TypeOK
<1>5. CASE DemoteImmediate(t)
  BY <1>5 DEF DemoteImmediate, TypeOK
<1>6. QED BY <1>1, <1>2, <1>3, <1>4, <1>5

LEMMA PersistStartedType ==
    ASSUME TypeOK, NEW f \in reports, PersistStarted(f)
    PROVE  TypeOK'
<1> DEFINE r == f.req
           c == f.conv
           t == IF req[r].task = None THEN f.cand ELSE req[r].task
           status == IF req[r].status = "stop_requested" THEN req[r].status ELSE "running"
<1>1. r \in RequestIds /\ c \in Convs /\ f.cand \in Tasks /\ req[r] \in RequestRow
  BY DEF TypeOK, Report
<1>2. t \in Tasks /\ task[t] \in TaskRow
  BY <1>1 DEF TypeOK, RequestRow, Opt
<1>3. status \in {"stop_requested", "running"}
  OBVIOUS
<1> HIDE DEF r, c, t, status
<1>4. [[[req[r] EXCEPT !.task = t] EXCEPT !.conv = c] EXCEPT !.status = status] \in RequestRow
  BY <1>1, <1>2, <1>3 DEF RequestRow, Opt, Working
<1>5. [task[t] EXCEPT !.status = "running", !.scope = c, !.conv = c, !.active = r] \in TaskRow
  BY <1>1, <1>2 DEF TaskRow, Opt
<1>6. req' \in [RequestIds -> RequestRow]
  BY <1>1, <1>4 DEF TypeOK, PersistStarted, r, c, t, status
<1>7. task' \in [Tasks -> TaskRow]
  BY <1>2, <1>5 DEF TypeOK, PersistStarted, r, c, t, status
<1>8. QED BY <1>6, <1>7 DEF TypeOK, PersistStarted

LEMMA ClearActiveType ==
    ASSUME TypeOK, ClosingBound, NEW r \in RequestIds, ClearActive(r)
    PROVE  TypeOK'
<1>1. req[r].task \in Tasks
  BY DEF ClosingBound, ClearActive, TypeOK, RequestRow, Opt
<1>2. \A t \in Tasks : [task[t] EXCEPT !.active = None] \in TaskRow
  BY DEF TypeOK, TaskRow, Opt
<1>3. task' \in [Tasks -> TaskRow]
  BY <1>2 DEF ClearActive, TypeOK
<1>4. lagging' \subseteq Lag
  BY <1>1 DEF ClearActive, TypeOK, Lag
<1>5. QED BY <1>3, <1>4 DEF ClearActive, TypeOK

LEMMA ReadStartedType ==
    ASSUME TypeOK, NEW r \in RequestIds, NEW c \in Convs, ReadStarted(r, c)
    PROVE  TypeOK'
  BY DEF ReadStarted, TypeOK, Report

LEMMA BridgeIdentityType ==
    ASSUME TypeOK, NEW r \in RequestIds, NEW c \in Convs, BridgeIdentity(r, c)
    PROVE  TypeOK'
<1> DEFINE t == req[r].task
<1>1. req[r] \in RequestRow
  BY DEF TypeOK
<1>2. t \in Tasks /\ task[t] \in TaskRow
  BY <1>1 DEF BridgeIdentity, TypeOK, RequestRow, Opt
<1> HIDE DEF t
<1>3. [req[r] EXCEPT !.conv = c] \in RequestRow
  BY <1>1 DEF RequestRow, Opt
<1>4. [task[t] EXCEPT !.scope = c, !.conv = c] \in TaskRow
  BY <1>2 DEF TaskRow, Opt
<1>5. req' \in [RequestIds -> RequestRow]
  BY <1>3 DEF BridgeIdentity, TypeOK
<1>6. task' \in [Tasks -> TaskRow]
  BY <1>2, <1>4 DEF BridgeIdentity, TypeOK, t
<1>7. QED BY <1>5, <1>6 DEF BridgeIdentity, TypeOK

LEMMA McpTaskType ==
    ASSUME TypeOK, NEW t \in Tasks, NEW c \in Convs, McpTask(t, c)
    PROVE  TypeOK'
<1>1. [task[t] EXCEPT !.status = "running", !.scope = c] \in TaskRow
  BY DEF TypeOK, TaskRow, Opt
<1>2. task' \in [Tasks -> TaskRow]
  BY <1>1 DEF McpTask, TypeOK
<1>3. QED BY <1>2 DEF McpTask, TypeOK

LEMMA ContinueMessageType ==
    ASSUME TypeOK, NEW t \in Tasks, NEW r \in Requests, ContinueMessage(t, r)
    PROVE  TypeOK'
<1>1. r \in RequestIds /\ task[t] \in TaskRow
  BY DEF RequestIds, TypeOK
<1>2. NewRequest("queued", t, task[t].conv) \in RequestRow
  BY <1>1, NewRequestType DEF TaskRow, Opt
<1>3. [task[t] EXCEPT !.active = r, !.status = "running"] \in TaskRow
  BY <1>1 DEF TaskRow, Opt
<1>4. QED BY <1>1, <1>2, <1>3 DEF ContinueMessage, TypeOK

LEMMA EnrollType ==
    ASSUME TypeOK, NEW t \in Tasks, NEW r \in Requests, NEW c \in Convs, Enroll(t, r, c)
    PROVE  TypeOK'
<1>1. r \in RequestIds /\ task[t] \in TaskRow
  BY DEF RequestIds, TypeOK
<1>2. NewRequest("running", t, c) \in RequestRow
  BY <1>1, NewRequestType DEF TaskRow, Opt
<1>3. \A q \in RequestIds : req[q] \in RequestRow /\ [req[q] EXCEPT !.status = "stopped"] \in RequestRow
  BY DEF TypeOK, RequestRow, Working, Outcomes
<1>4. [status |-> "running", scope |-> c, conv |-> c, active |-> r, recorder |-> TRUE] \in TaskRow
  BY <1>1 DEF TaskRow, Opt
<1>5. [task[t] EXCEPT !.conv = IF task[t].conv = None THEN c ELSE task[t].conv, !.active = r,
             !.status = IF task[t].status = "stopped" THEN "stopped" ELSE "running"] \in TaskRow
  BY <1>1 DEF TaskRow, Opt
<1>6. req' \in [RequestIds -> RequestRow]
  BY <1>2, <1>3 DEF Enroll, TypeOK
<1>7. task' \in [Tasks -> TaskRow]
  <2> DEFINE bound == IF \E u \in Tasks : task[u].conv = c
                      THEN {u \in Tasks : task[u].conv = c}
                      ELSE {u \in Tasks : task[u].scope = c}
             created == [status |-> "running", scope |-> c, conv |-> c,
                         active |-> r, recorder |-> TRUE]
             adopted == [task[t] EXCEPT
                            !.conv = IF task[t].conv = None THEN c ELSE task[t].conv,
                            !.active = r,
                            !.status = IF task[t].status = "stopped" THEN "stopped"
                                       ELSE "running"]
  <2>1. created \in TaskRow /\ adopted \in TaskRow
    BY <1>4, <1>5
  <2>2. task' = [task EXCEPT ![t] = IF bound = {} THEN created ELSE adopted]
    BY DEF Enroll
  <2> HIDE DEF bound, created, adopted
  <2>3. QED BY <2>1, <2>2 DEF TypeOK
<1>8. QED BY <1>6, <1>7 DEF Enroll, TypeOK

\* The row of a conversation after one of its requests ended.
LEMMA ReleasedType ==
    ASSUME TypeOK, NEW t \in Tasks, NEW r, NEW c \in Opt(Convs)
    PROVE  /\ Released(t, r, c) \in TaskRow
           /\ \A status \in {"interrupted", "completed", "failed"} :
                 [Released(t, r, c) EXCEPT !.status = status] \in TaskRow
<1>1. task[t] \in TaskRow
  BY DEF TypeOK
<1>2. [task[t] EXCEPT !.active = None, !.conv = IF c = None THEN task[t].conv ELSE c] \in TaskRow
  BY <1>1 DEF TaskRow, Opt
<1>3. Released(t, r, c) \in TaskRow
  BY <1>1, <1>2 DEF Released
<1>4. QED BY <1>3 DEF TaskRow

LEMMA BridgeResultType ==
    ASSUME TypeOK, NEW r \in RequestIds, NEW c \in Opt(Convs), NEW status \in Outcomes,
           BridgeResult(r, c, status)
    PROVE  TypeOK'
<1> DEFINE t   == req[r].task
           new == IF c \in Provisional THEN None ELSE c
           as  == [completed |-> "completed", stopped |-> "interrupted", failed |-> "failed"]
<1>1. req[r] \in RequestRow
  BY DEF TypeOK
<1>2. t \in Tasks
  BY <1>1 DEF BridgeResult, RequestRow, Opt
<1>3. new \in Opt(Convs) /\ as[status] \in {"interrupted", "completed", "failed"}
  BY DEF Opt, Outcomes
<1>4. [req[r] EXCEPT !.status = status, !.conv = IF new = None THEN req[r].conv ELSE new] \in RequestRow
  BY <1>1, <1>3 DEF RequestRow, Opt
<1>5. lagging' \subseteq Lag
  BY <1>2, LaterType DEF BridgeResult, Lag
<1>6. task' \in [Tasks -> TaskRow]
  <2> HIDE DEF t, new, as
  <2>1. /\ Released(t, r, new) \in TaskRow
        /\ [Released(t, r, new) EXCEPT !.status = as[status]] \in TaskRow
    BY <1>2, <1>3, ReleasedType
  <2>2. task' = [task EXCEPT ![t] =
                   IF \/ req[r].final \/ Others(t, r) \/ Released(t, r, new).status = "stopped"
                   THEN Released(t, r, new)
                   ELSE [Released(t, r, new) EXCEPT !.status = as[status]]]
    BY DEF BridgeResult, t, new, as
  <2>3. QED BY <2>1, <2>2 DEF TypeOK
<1>7. req' \in [RequestIds -> RequestRow]
  BY <1>4 DEF BridgeResult, TypeOK
<1>8. QED BY <1>5, <1>6, <1>7 DEF BridgeResult, TypeOK

LEMMA BrowserCompletedType ==
    ASSUME TypeOK, NEW r \in RequestIds, NEW c \in Opt(Convs), BrowserCompleted(r, c)
    PROVE  TypeOK'
<1> DEFINE t == req[r].task
<1>1. req[r] \in RequestRow
  BY DEF TypeOK
<1>2. t \in Tasks
  BY <1>1 DEF BrowserCompleted, RequestRow, Opt
<1>3. [req[r] EXCEPT !.status = "completed", !.final = TRUE,
                     !.conv = IF c = None THEN req[r].conv ELSE c] \in RequestRow
  BY <1>1 DEF RequestRow, Opt, Outcomes
<1>4. lagging' \subseteq Lag
  BY <1>2, LaterType DEF BrowserCompleted, Lag
<1>5. task' \in [Tasks -> TaskRow]
  <2> HIDE DEF t
  <2>1. /\ Released(t, r, c) \in TaskRow
        /\ [Released(t, r, c) EXCEPT !.status = "completed"] \in TaskRow
    BY <1>2, ReleasedType
  <2>2. task' = [task EXCEPT ![t] =
                   IF Others(t, r) \/ Released(t, r, c).status = "stopped" THEN Released(t, r, c)
                   ELSE [Released(t, r, c) EXCEPT !.status = "completed"]]
    BY DEF BrowserCompleted, t
  <2>3. QED BY <2>1, <2>2 DEF TypeOK
<1>6. req' \in [RequestIds -> RequestRow]
  BY <1>3 DEF BrowserCompleted, TypeOK
<1>7. QED BY <1>4, <1>5, <1>6 DEF BrowserCompleted, TypeOK

LEMMA CompactStartType ==
    ASSUME TypeOK, NEW t \in Tasks, NEW j \in Jobs, NEW continue \in BOOLEAN,
           CompactStart(t, j, continue)
    PROVE  TypeOK'
<1>1. task[t] \in TaskRow
  BY DEF TypeOK
<1>2. [phase |-> "preparing", task |-> t, rev |-> 0, old |-> task[t].conv,
       oldScope |-> task[t].scope, new |-> None, handoff |-> None,
       continue |-> continue] \in JobRow
  BY <1>1, CompactAssumption DEF JobRow, TaskRow, Opt, Phases
<1>3. \A r \in RequestIds : /\ req[r] \in RequestRow
                            /\ [req[r] EXCEPT !.status = "stop_requested"] \in RequestRow
  BY DEF TypeOK, RequestRow, Working
<1>4. job' \in [Jobs -> JobRow]
  BY <1>2 DEF CompactStart, TypeOK
<1>5. req' \in [RequestIds -> RequestRow]
  BY <1>3 DEF CompactStart, TypeOK
<1>6. QED BY <1>4, <1>5 DEF CompactStart, TypeOK

LEMMA ReadJobType ==
    ASSUME TypeOK, NEW j \in Jobs, ReadJob(j)
    PROVE  TypeOK'
<1>1. job[j].rev \in 0..MaxRev
  BY DEF TypeOK, JobRow
<1>2. QED BY <1>1 DEF ReadJob, TypeOK

LEMMA ResumeCompactType ==
    ASSUME TypeOK, JobShape, NEW j \in Jobs, ResumeCompact(j)
    PROVE  TypeOK'
<1> DEFINE t == job[j].task
           r == ContinueId(j)
<1>1. t \in Tasks /\ r \in RequestIds /\ job[j].new \in Opt(Convs) /\ task[t] \in TaskRow
  BY DEF ResumeCompact, JobShape, TypeOK, JobRow, RequestIds
<1>2. NewRequest("queued", t, job[j].new) \in RequestRow
  BY <1>1, NewRequestType DEF Opt
<1> HIDE DEF t, r
<1>3. [task[t] EXCEPT !.active = r, !.status = "running"] \in TaskRow
  BY <1>1 DEF TaskRow, Opt
<1>4. req' \in [RequestIds -> RequestRow]
  BY <1>2 DEF ResumeCompact, TypeOK, r, t
<1>5. task' \in [Tasks -> TaskRow]
  BY <1>1, <1>3 DEF ResumeCompact, TypeOK, r, t
<1>6. QED BY <1>4, <1>5 DEF ResumeCompact, TypeOK

LEMMA AdvancedType ==
    ASSUME TypeOK, NEW j \in Jobs, job[j].rev < MaxRev, NEW phase \in Phases,
           NEW handoff \in Opt(Handoffs), NEW dest \in Opt(Convs)
    PROVE  Advanced(j, phase, handoff, dest) \in [Jobs -> JobRow]
<1>1. job[j] \in JobRow
  BY DEF TypeOK
<1>2. job[j].rev + 1 \in 0..MaxRev
  BY <1>1, CompactAssumption DEF JobRow
<1>3. [job[j] EXCEPT !.phase = phase, !.rev = job[j].rev + 1,
                     !.handoff = IF handoff = None THEN job[j].handoff ELSE handoff,
                     !.new = IF dest = None THEN job[j].new ELSE dest] \in JobRow
  BY <1>1, <1>2, ZenonT(40) DEF JobRow, Opt
<1>4. QED BY <1>3 DEF Advanced, TypeOK

LEMMA CompleteType ==
    ASSUME TypeOK, NEW j \in Jobs, NEW to \in Convs, complete(j, to),
           job[j].task \in Tasks, job[j].old \in Convs
    PROVE  /\ task' \in [Tasks -> TaskRow]
           /\ req' \in [RequestIds -> RequestRow]
           /\ archive' \subseteq ArchiveRow
<1> DEFINE t == job[j].task
           next == IF task[t].status = "running" THEN "interrupted" ELSE task[t].status
<1>1. task[t] \in TaskRow /\ job[j] \in JobRow
  BY DEF TypeOK
<1>2. [task[t] EXCEPT !.conv = to, !.scope = to, !.active = None, !.status = next] \in TaskRow
  BY <1>1 DEF TaskRow, Opt
<1>3. task' \in [Tasks -> TaskRow]
  BY <1>2 DEF complete, TypeOK
<1>4. \A r \in RequestIds :
         /\ req[r] \in RequestRow
         /\ [req[r] EXCEPT !.obsolete = TRUE,
               !.status = IF req[r].status \in Working THEN "stopped" ELSE req[r].status]
               \in RequestRow
  BY DEF TypeOK, RequestRow, Outcomes
<1>5. req' \in [RequestIds -> RequestRow]
  BY <1>4 DEF complete
<1>6. [conv |-> job[j].old, prev |-> job[j].oldScope, job |-> j] \in ArchiveRow
  BY <1>1 DEF ArchiveRow, JobRow
<1>7. QED BY <1>3, <1>5, <1>6 DEF complete, TypeOK

\* Every checkpoint, whoever makes it, keeps the tables typed.
LEMMA CheckpointType ==
    ASSUME TypeOK, JobShape, NEW j \in Jobs, job[j].phase # "absent", NEW rev,
           NEW phase \in Phases, NEW handoff \in Opt(Handoffs), NEW dest \in Opt(Convs),
           compact_checkpoint(j, rev, phase, handoff, dest),
           UNCHANGED <<immediate, seen, reports, lagging>>
    PROVE  TypeOK'
<1> DEFINE to == IF dest = None THEN job[j].new ELSE dest
<1>1. job[j] \in JobRow /\ job[j].rev < MaxRev
  BY DEF TypeOK, compact_checkpoint
<1>2. job' \in [Jobs -> JobRow]
  <2>1. CASE job[j].phase \in Terminal
    <3>1. job[j].rev + 1 \in 0..MaxRev
      BY <1>1, CompactAssumption DEF JobRow
    <3>2. [job[j] EXCEPT !.rev = job[j].rev + 1] \in JobRow
      BY <1>1, <3>1 DEF JobRow
    <3>3. QED BY <2>1, <3>2 DEF compact_checkpoint, TypeOK
  <2>2. CASE job[j].phase \notin Terminal
    BY <2>2, <1>1, AdvancedType DEF compact_checkpoint
  <2>3. QED BY <2>1, <2>2
<1>3. /\ task' \in [Tasks -> TaskRow]
      /\ req' \in [RequestIds -> RequestRow]
      /\ archive' \subseteq ArchiveRow
  <2>1. CASE job[j].phase \notin Terminal /\ phase = "completed"
    <3>1. to \in Convs
      BY <2>1, <1>1 DEF compact_checkpoint, MayCheckpoint, JobRow, Opt
    <3>2. job[j].task \in Tasks /\ job[j].old \in Convs
      BY DEF JobShape
    <3>3. complete(j, to)
      BY <2>1 DEF compact_checkpoint
    <3> HIDE DEF to
    <3>4. QED BY <3>1, <3>2, <3>3, CompleteType
  <2>2. CASE job[j].phase \in Terminal \/ phase # "completed"
    BY <2>2 DEF compact_checkpoint, TypeOK
  <2>3. QED BY <2>1, <2>2
<1>4. QED BY <1>2, <1>3 DEF TypeOK

----------------------------------------------------------------------------
\* Requests are created once and keep a task they have been given.
RequestsGrow ==
    \A q \in RequestIds :
        /\ req[q].status # "absent" /\ req[q].task # None => req'[q].task # None
        /\ req'[q].status = "absent" => req[q].status = "absent" /\ req'[q].task = req[q].task
        /\ <<"closing", q>> \in lagging' =>
              <<"closing", q>> \in lagging \/ req[q].task # None

LEMMA ClosingBoundStep ==
    ASSUME ClosingBound, RequestsGrow
    PROVE  ClosingBound'
  BY DEF ClosingBound, RequestsGrow

\* A step that leaves the requests alone and schedules no closing.
LEMMA RequestsKept ==
    ASSUME UNCHANGED req,
           \A q \in RequestIds : <<"closing", q>> \in lagging' => <<"closing", q>> \in lagging
    PROVE  RequestsGrow
  BY DEF RequestsGrow

LEMMA LaterLag ==
    ASSUME NEW step, Later(step)
    PROVE  lagging' \subseteq lagging \cup {step}
  BY DEF Later

\* One row of the requests is replaced.
LEMMA RequestReplaced ==
    ASSUME TypeOK, NEW r \in RequestIds, NEW row, req' = [req EXCEPT ![r] = row],
           row.status # "absent", row.task # None \/ req[r].task = None \/ req[r].status = "absent",
           \A q \in RequestIds : <<"closing", q>> \in lagging' =>
              <<"closing", q>> \in lagging \/ req[q].task # None
    PROVE  RequestsGrow
  BY DEF TypeOK, RequestsGrow

LEMMA NewRequestFields ==
    ASSUME NEW status, NEW t, NEW c
    PROVE  /\ NewRequest(status, t, c).status = status
           /\ NewRequest(status, t, c).task = t
           /\ NewRequest(status, t, c).conv = c
  BY DEF NewRequest

LEMMA RequestsGrowBrowser ==
    ASSUME TypeOK, NEW r \in RequestIds,
           \/ r \in Requests /\ CreateRequest(r)
           \/ FinalReported(r) \/ ReadUnbound(r) \/ FailUnbound(r)
           \/ SettleFinal(r) \/ StopMessage(r) \/ ClearActive(r)
    PROVE  RequestsGrow
<1>1. CASE r \in Requests /\ CreateRequest(r)
  <2>1. NewRequest("queued", None, None).status # "absent"
    BY NewRequestFields
  <2>2. QED BY <1>1, <2>1, RequestReplaced DEF CreateRequest
<1>2. CASE FinalReported(r)
  BY <1>2 DEF FinalReported, TypeOK, RequestsGrow, RequestRow
<1>3. CASE ReadUnbound(r)
  BY <1>3, LaterLag, RequestsKept DEF ReadUnbound
<1>4. CASE FailUnbound(r)
  BY <1>4 DEF FailUnbound, TypeOK, RequestsGrow, RequestRow
<1>5. CASE SettleFinal(r)
  BY <1>5, LaterLag DEF SettleFinal, TypeOK, RequestsGrow, RequestRow
<1>6. CASE StopMessage(r)
  BY <1>6 DEF StopMessage, TypeOK, RequestsGrow, RequestRow
<1>7. CASE ClearActive(r)
  BY <1>7, RequestsKept DEF ClearActive
<1>8. QED BY <1>1, <1>2, <1>3, <1>4, <1>5, <1>6, <1>7


LEMMA RequestsGrowBinding ==
    ASSUME TypeOK, NEW r \in RequestIds, NEW c \in Opt(Convs),
           \/ c \in Convs /\ BridgeIdentity(r, c)
           \/ BrowserCompleted(r, c)
           \/ \E status \in Outcomes : BridgeResult(r, c, status)
    PROVE  RequestsGrow
<1>1. CASE c \in Convs /\ BridgeIdentity(r, c)
  BY <1>1 DEF BridgeIdentity, TypeOK, RequestsGrow, RequestRow
<1>2. CASE BrowserCompleted(r, c)
  <2>1. \A q \in RequestIds : <<"closing", q>> \in lagging' => <<"closing", q>> \in lagging
    BY <1>2, LaterLag DEF BrowserCompleted
  <2>2. QED BY <1>2, <2>1 DEF BrowserCompleted, TypeOK, RequestsGrow, RequestRow
<1>3. CASE \E status \in Outcomes : BridgeResult(r, c, status)
  <2>1. \A q \in RequestIds : <<"closing", q>> \in lagging' => <<"closing", q>> \in lagging
    BY <1>3, LaterLag DEF BridgeResult
  <2>2. PICK status \in Outcomes : BridgeResult(r, c, status)
    BY <1>3
  <2>3. status # "absent"
    BY DEF Outcomes
  <2> DEFINE new == IF c \in Provisional THEN None ELSE c
             conv == IF new = None THEN req[r].conv ELSE new
  <2>4. req' = [req EXCEPT ![r] = [req[r] EXCEPT !.status = status, !.conv = conv]]
    BY <2>2 DEF BridgeResult
  <2>5. req[r].task # None /\ req[r] \in RequestRow
    BY <2>2 DEF BridgeResult, TypeOK
  <2> HIDE DEF new, conv
  <2>6. QED BY <2>1, <2>3, <2>4, <2>5 DEF TypeOK, RequestsGrow, RequestRow
<1>4. QED BY <1>1, <1>2, <1>3

LEMMA RequestsGrowStarted ==
    ASSUME TypeOK, CompactAssumption, NEW f \in reports, PersistStarted(f) \/ DropStarted(f)
    PROVE  RequestsGrow
<1>1. CASE PersistStarted(f)
  <2> DEFINE r == f.req
             t == IF req[r].task = None THEN f.cand ELSE req[r].task
             status == IF req[r].status = "stop_requested" THEN req[r].status ELSE "running"
  <2>1. r \in RequestIds /\ f.cand \in Tasks /\ req[r] \in RequestRow
    BY DEF TypeOK, Report
  <2>2. t # None /\ status # "absent"
    BY <2>1
  <2>3. req' = [req EXCEPT ![r] = [req[r] EXCEPT !.task = t, !.conv = f.conv, !.status = status]]
    BY <1>1 DEF PersistStarted
  <2>4. lagging' = lagging
    BY <1>1 DEF PersistStarted
  <2> HIDE DEF r, t, status
  <2>5. QED BY <2>1, <2>2, <2>3, <2>4 DEF TypeOK, RequestsGrow, RequestRow
<1>2. CASE DropStarted(f)
  BY <1>2, RequestsKept DEF DropStarted
<1>3. QED BY <1>1, <1>2

LEMMA RequestsGrowTask ==
    ASSUME TypeOK, NEW t \in Tasks,
           \/ ReadStop(t) \/ ReadImmediateAllowed(t) \/ QueueImmediate(t)
           \/ ClaimImmediate(t) \/ DemoteImmediate(t)
           \/ \E c \in Convs : McpTask(t, c)
           \/ \E r \in RequestIds, c \in Convs : ReadStarted(r, c)
    PROVE  RequestsGrow
<1>1. CASE ReadStop(t)
  BY <1>1, LaterLag, RequestsKept DEF ReadStop
<1>2. CASE ReadImmediateAllowed(t)
  BY <1>2, LaterLag, RequestsKept DEF ReadImmediateAllowed
<1>3. CASE QueueImmediate(t) \/ ClaimImmediate(t) \/ DemoteImmediate(t)
  BY <1>3, RequestsKept DEF QueueImmediate, ClaimImmediate, DemoteImmediate
<1>4. CASE \E c \in Convs : McpTask(t, c)
  BY <1>4, RequestsKept DEF McpTask
<1>5. CASE \E r \in RequestIds, c \in Convs : ReadStarted(r, c)
  BY <1>5, RequestsKept DEF ReadStarted
<1>6. QED BY <1>1, <1>2, <1>3, <1>4, <1>5

LEMMA RequestsGrowNew ==
    ASSUME TypeOK, JobShape, CompactAssumption,
           \/ \E t \in Tasks, r \in Requests : ContinueMessage(t, r)
           \/ \E t \in Tasks, r \in Requests, c \in Convs : Enroll(t, r, c)
           \/ \E j \in Jobs : ResumeCompact(j)
    PROVE  RequestsGrow
<1>1. CASE \E t \in Tasks, r \in Requests : ContinueMessage(t, r)
  <2>1. PICK t \in Tasks, r \in Requests : ContinueMessage(t, r)
    BY <1>1
  <2>2. NewRequest("queued", t, task[t].conv).status = "queued"
    BY NewRequestFields
  <2>3. r \in RequestIds
    BY DEF RequestIds
  <2>4. /\ req[r].status = "absent" /\ lagging' = lagging
        /\ req' = [req EXCEPT ![r] = NewRequest("queued", t, task[t].conv)]
    BY <2>1 DEF ContinueMessage
  <2>5. QED BY <2>2, <2>3, <2>4 DEF TypeOK, RequestsGrow
<1>2. CASE \E t \in Tasks, r \in Requests, c \in Convs : Enroll(t, r, c)
  <2>1. PICK t \in Tasks, r \in Requests, c \in Convs : Enroll(t, r, c)
    BY <1>2
  <2>2. NewRequest("running", t, c).status = "running"
    BY NewRequestFields
  <2>3. /\ req[r].status = "absent"
        /\ \A q \in RequestIds \ {r} :
              req'[q] = req[q] \/ req'[q] = [req[q] EXCEPT !.status = "stopped"]
        /\ req'[r] = NewRequest("running", t, c)
        /\ lagging' = lagging
    BY <2>1 DEF Enroll, RequestIds
  <2>4. \A q \in RequestIds : req[q] \in RequestRow
    BY DEF TypeOK
  <2>5. \A q \in RequestIds \ {r} :
           /\ req'[q].task = req[q].task
           /\ req'[q].status \in {req[q].status, "stopped"}
    BY <2>3, <2>4 DEF RequestRow
  <2>6. req'[r].status # "absent"
    BY <2>2, <2>3
  <2> HIDE DEF NewRequest
  <2>7. QED BY <2>3, <2>5, <2>6 DEF RequestsGrow
<1>3. CASE \E j \in Jobs : ResumeCompact(j)
  <2>1. PICK j \in Jobs : ResumeCompact(j)
    BY <1>3
  <2>2. NewRequest("queued", job[j].task, job[j].new).status = "queued"
    BY NewRequestFields
  <2>3. ContinueId(j) \in RequestIds
    BY DEF RequestIds
  <2>4. /\ req[ContinueId(j)].status = "absent" /\ lagging' = lagging
        /\ req' = [req EXCEPT ![ContinueId(j)] = NewRequest("queued", job[j].task, job[j].new)]
    BY <2>1 DEF ResumeCompact
  <2> HIDE DEF ContinueId
  <2>5. QED BY <2>2, <2>3, <2>4 DEF TypeOK, RequestsGrow
<1>4. QED BY <1>1, <1>2, <1>3

LEMMA RequestsGrowCompact ==
    ASSUME TypeOK, NEW j \in Jobs,
           \/ \E t \in Tasks, continue \in BOOLEAN : CompactStart(t, j, continue)
           \/ /\ \/ UNCHANGED req
                 \/ \E to \in Convs : complete(j, to)
              /\ UNCHANGED lagging
    PROVE  RequestsGrow
<1>1. \A q \in RequestIds : req[q] \in RequestRow
  BY DEF TypeOK
<1>2. CASE \E t \in Tasks, continue \in BOOLEAN : CompactStart(t, j, continue)
  <2>1. PICK t \in Tasks, continue \in BOOLEAN : CompactStart(t, j, continue)
    BY <1>2
  <2>2. QED BY <1>1, <2>1 DEF CompactStart, RequestsGrow, RequestRow
<1>3. CASE UNCHANGED req /\ UNCHANGED lagging
  BY <1>3, RequestsKept
<1>4. CASE (\E to \in Convs : complete(j, to)) /\ UNCHANGED lagging
  <2>1. \A q \in RequestIds :
           \/ req'[q] = req[q]
           \/ req'[q] = [req[q] EXCEPT !.obsolete = TRUE,
                 !.status = IF req[q].status \in Working THEN "stopped" ELSE req[q].status]
    BY <1>4 DEF complete
  <2>2. QED BY <1>1, <1>4, <2>1 DEF RequestsGrow, RequestRow
<1>5. QED BY <1>2, <1>3, <1>4

----------------------------------------------------------------------------
LEMMA JobShapeStart ==
    ASSUME TypeOK, JobShape, NEW t \in Tasks, NEW j \in Jobs, NEW continue \in BOOLEAN,
           CompactStart(t, j, continue)
    PROVE  JobShape'
  BY DEF CompactStart, JobShape, TypeOK

\* A checkpoint that is not the detail of a terminal job, as far as the job goes.
LEMMA AdvancedFields ==
    ASSUME TypeOK, NEW j \in Jobs, NEW phase \in Phases, NEW handoff, NEW dest,
           job' = Advanced(j, phase, handoff, dest)
    PROVE  /\ \A k \in Jobs \ {j} : job'[k] = job[k]
           /\ job'[j].phase = phase
           /\ job'[j].new = IF dest = None THEN job[j].new ELSE dest
           /\ job'[j].task = job[j].task
           /\ job'[j].old = job[j].old
           /\ job'[j].oldScope = job[j].oldScope
  BY DEF Advanced, TypeOK, JobRow

LEMMA DetailFields ==
    ASSUME TypeOK, NEW j \in Jobs, job' = [job EXCEPT ![j].rev = @ + 1]
    PROVE  /\ \A k \in Jobs \ {j} : job'[k] = job[k]
           /\ job'[j].phase = job[j].phase
           /\ job'[j].new = job[j].new
           /\ job'[j].task = job[j].task
           /\ job'[j].old = job[j].old
           /\ job'[j].oldScope = job[j].oldScope
  BY DEF TypeOK, JobRow

LEMMA JobShapeCheckpoint ==
    ASSUME TypeOK, JobShape, NEW j \in Jobs, job[j].phase # "absent", NEW rev,
           NEW phase \in Phases, NEW handoff \in Opt(Handoffs), NEW dest \in Opt(Convs),
           compact_checkpoint(j, rev, phase, handoff, dest)
    PROVE  JobShape'
<1>1. CASE job[j].phase \in Terminal
  BY <1>1, DetailFields DEF compact_checkpoint, JobShape
<1>2. CASE job[j].phase \notin Terminal
  <2>1. job' = Advanced(j, phase, handoff, dest) /\ MayCheckpoint(j, phase, handoff, dest)
    BY <1>2 DEF compact_checkpoint
  <2>2. job'[j].phase # "absent"
    BY <2>1, AdvancedFields DEF Phases
  <2>3. QED BY <2>1, <2>2, AdvancedFields DEF MayCheckpoint, JobShape
<1>3. QED BY <1>1, <1>2

\* The checkpoints of the extension and of the replacement conversation.
LEMMA CheckpointCases ==
    ASSUME TypeOK, NEW j \in Jobs,
           \/ \E phase \in Phases, handoff \in Opt(Handoffs), dest \in Opt(Convs) :
                 Checkpoint(j, phase, handoff, dest)
           \/ SettleReplacement(j)
    PROVE  /\ job[j].phase # "absent"
           /\ UNCHANGED <<immediate, seen, reports, lagging>>
           /\ \E rev \in Nat, phase \in Phases, handoff \in Opt(Handoffs), dest \in Opt(Convs) :
                 compact_checkpoint(j, rev, phase, handoff, dest)
<1>1. job[j].rev \in Nat /\ seen[j] \in Nat /\ job[j].new \in Opt(Convs)
  BY DEF TypeOK, JobRow
<1>2. CASE \E phase \in Phases, handoff \in Opt(Handoffs), dest \in Opt(Convs) :
              Checkpoint(j, phase, handoff, dest)
  BY <1>1, <1>2 DEF Checkpoint
<1>3. CASE SettleReplacement(j)
  <2>1. None \in Opt(Handoffs) /\ "completed" \in Phases
    BY DEF Opt, Phases
  <2>2. QED BY <1>1, <1>3, <2>1 DEF SettleReplacement
<1>4. QED BY <1>2, <1>3

\* A checkpoint either leaves everything but its job alone or completes it.
LEMMA CheckpointEffect ==
    ASSUME TypeOK, JobShape, NEW j \in Jobs, job[j].phase # "absent", NEW rev,
           NEW phase \in Phases, NEW handoff \in Opt(Handoffs), NEW dest \in Opt(Convs),
           compact_checkpoint(j, rev, phase, handoff, dest)
    PROVE  \/ UNCHANGED <<task, req, archive>> /\ (job'[j].phase = "completed" => job[j].phase = "completed")
           \/ /\ phase = "completed" /\ job[j].phase = "opening_new_chat"
              /\ MayCheckpoint(j, phase, handoff, dest)
              /\ job' = Advanced(j, phase, handoff, dest)
              /\ job'[j].new \in Convs
              /\ complete(j, job'[j].new)
<1>1. CASE job[j].phase \in Terminal
  BY <1>1, DetailFields DEF compact_checkpoint
<1>2. CASE job[j].phase \notin Terminal /\ phase # "completed"
  BY <1>2, AdvancedFields DEF compact_checkpoint
<1>3. CASE job[j].phase \notin Terminal /\ phase = "completed"
  <2>1. /\ MayCheckpoint(j, phase, handoff, dest)
        /\ job' = Advanced(j, phase, handoff, dest)
        /\ complete(j, IF dest = None THEN job[j].new ELSE dest)
    BY <1>3 DEF compact_checkpoint
  <2>2. job'[j].new = IF dest = None THEN job[j].new ELSE dest
    BY <2>1, AdvancedFields
  <2>3. job'[j].new \in Convs
    BY <1>3, <2>1, <2>2 DEF MayCheckpoint, TypeOK, JobRow, Opt
  <2>4. QED BY <1>3, <2>1, <2>2, <2>3 DEF MayCheckpoint
<1>4. QED BY <1>1, <1>2, <1>3

\* Every step of the system, one alternative per handler.
LEMMA NextCases ==
    ASSUME Next
    PROVE  \/ \E r \in RequestIds :
                 \/ r \in Requests /\ CreateRequest(r)
                 \/ FinalReported(r) \/ ReadUnbound(r) \/ FailUnbound(r)
                 \/ SettleFinal(r) \/ StopMessage(r) \/ ClearActive(r)
           \/ \E r \in RequestIds, c \in Opt(Convs) :
                 \/ c \in Convs /\ BridgeIdentity(r, c)
                 \/ BrowserCompleted(r, c)
                 \/ \E status \in Outcomes : BridgeResult(r, c, status)
           \/ \E f \in reports : PersistStarted(f) \/ DropStarted(f)
           \/ \E r \in RequestIds, c \in Convs : ReadStarted(r, c)
           \/ \E t \in Tasks :
                 \/ ReadStop(t) \/ ReadImmediateAllowed(t) \/ QueueImmediate(t)
                 \/ ClaimImmediate(t) \/ DemoteImmediate(t)
           \/ \E t \in Tasks, c \in Convs \ Provisional : McpTask(t, c)
           \/ \E t \in Tasks, r \in Requests : ContinueMessage(t, r)
           \/ \E t \in Tasks, r \in Requests, c \in Convs \ Provisional : Enroll(t, r, c)
           \/ \E j \in Jobs : ResumeCompact(j)
           \/ \E t \in Tasks, j \in Jobs, continue \in BOOLEAN : CompactStart(t, j, continue)
           \/ \E j \in Jobs : ReadJob(j)
           \/ \E j \in Jobs :
                 \/ \E phase \in Phases, handoff \in Opt(Handoffs), dest \in Opt(Convs) :
                       Checkpoint(j, phase, handoff, dest)
                 \/ SettleReplacement(j)
           \/ Crash
<1>1. Requests \subseteq RequestIds /\ Convs \subseteq Opt(Convs)
  BY DEF RequestIds, Opt
<1>2. CASE BrowserNext
  BY <1>1, <1>2 DEF BrowserNext
<1>3. CASE QueueNext
  BY <1>3 DEF QueueNext
<1>4. CASE CompactNext
  BY <1>4 DEF CompactNext
<1>5. QED BY <1>2, <1>3, <1>4 DEF Next

LEMMA TypeInvStep ==
    ASSUME TypeInv, [Next]_vars
    PROVE  TypeInv' /\ RequestsGrow
<1> USE CompactAssumption
<1>1. TypeOK /\ ClosingBound /\ JobShape
  BY DEF TypeInv
<1>2. CASE UNCHANGED vars
  BY <1>1, <1>2, RequestsKept DEF vars, TypeInv, TypeOK, ClosingBound, JobShape
<1>3. ASSUME NEW r \in RequestIds,
             \/ r \in Requests /\ CreateRequest(r)
             \/ FinalReported(r) \/ ReadUnbound(r) \/ FailUnbound(r)
             \/ SettleFinal(r) \/ StopMessage(r) \/ ClearActive(r)
      PROVE  TypeInv' /\ RequestsGrow
  <2>1. TypeOK'
    BY <1>1, <1>3, RequestStepType, ClearActiveType
  <2>2. RequestsGrow
    BY <1>1, <1>3, RequestsGrowBrowser
  <2>3. UNCHANGED job
    BY <1>3 DEF CreateRequest, FinalReported, ReadUnbound, FailUnbound, SettleFinal,
                StopMessage, ClearActive
  <2>4. QED BY <1>1, <2>1, <2>2, <2>3, ClosingBoundStep DEF TypeInv, JobShape
<1>4. ASSUME NEW r \in RequestIds, NEW c \in Opt(Convs),
             \/ c \in Convs /\ BridgeIdentity(r, c)
             \/ BrowserCompleted(r, c)
             \/ \E status \in Outcomes : BridgeResult(r, c, status)
      PROVE  TypeInv' /\ RequestsGrow
  <2>1. TypeOK'
    BY <1>1, <1>4, BridgeIdentityType, BrowserCompletedType, BridgeResultType
  <2>2. RequestsGrow
    BY <1>1, <1>4, RequestsGrowBinding
  <2>3. UNCHANGED job
    BY <1>4 DEF BridgeIdentity, BrowserCompleted, BridgeResult
  <2>4. QED BY <1>1, <2>1, <2>2, <2>3, ClosingBoundStep DEF TypeInv, JobShape
<1>5. ASSUME NEW f \in reports, PersistStarted(f) \/ DropStarted(f)
      PROVE  TypeInv' /\ RequestsGrow
  <2>1. TypeOK'
    <3>1. CASE DropStarted(f)
      BY <1>1, <3>1 DEF DropStarted, TypeOK
    <3>2. QED BY <1>1, <1>5, <3>1, PersistStartedType
  <2>2. RequestsGrow
    BY <1>1, <1>5, RequestsGrowStarted
  <2>3. UNCHANGED job
    BY <1>5 DEF PersistStarted, DropStarted
  <2>4. QED BY <1>1, <2>1, <2>2, <2>3, ClosingBoundStep DEF TypeInv, JobShape
<1>6. ASSUME NEW r \in RequestIds, NEW c \in Convs, ReadStarted(r, c)
      PROVE  TypeInv' /\ RequestsGrow
  <2>1. TypeOK'
    BY <1>1, <1>6, ReadStartedType
  <2>2. UNCHANGED <<req, lagging, job>>
    BY <1>6 DEF ReadStarted
  <2>3. QED BY <1>1, <2>1, <2>2, RequestsKept DEF TypeInv, ClosingBound, JobShape
<1>7. ASSUME NEW t \in Tasks,
             \/ ReadStop(t) \/ ReadImmediateAllowed(t) \/ QueueImmediate(t)
             \/ ClaimImmediate(t) \/ DemoteImmediate(t)
      PROVE  TypeInv' /\ RequestsGrow
  <2>1. TypeOK'
    BY <1>1, <1>7, QueueStepType
  <2>2. RequestsGrow
    BY <1>1, <1>7, RequestsGrowTask
  <2>3. UNCHANGED job
    BY <1>7 DEF ReadStop, ReadImmediateAllowed, QueueImmediate, ClaimImmediate, DemoteImmediate
  <2>4. QED BY <1>1, <2>1, <2>2, <2>3, ClosingBoundStep DEF TypeInv, JobShape
<1>8. ASSUME NEW t \in Tasks, NEW c \in Convs, McpTask(t, c)
      PROVE  TypeInv' /\ RequestsGrow
  <2>1. TypeOK'
    BY <1>1, <1>8, McpTaskType
  <2>2. UNCHANGED <<req, lagging, job>>
    BY <1>8 DEF McpTask
  <2>3. QED BY <1>1, <2>1, <2>2, RequestsKept DEF TypeInv, ClosingBound, JobShape
<1>9. ASSUME \/ \E t \in Tasks, r \in Requests : ContinueMessage(t, r)
             \/ \E t \in Tasks, r \in Requests, c \in Convs : Enroll(t, r, c)
             \/ \E j \in Jobs : ResumeCompact(j)
      PROVE  TypeInv' /\ RequestsGrow
  <2>1. TypeOK'
    BY <1>1, <1>9, ContinueMessageType, EnrollType, ResumeCompactType
  <2>2. RequestsGrow
    BY <1>1, <1>9, RequestsGrowNew
  <2>3. UNCHANGED job
    BY <1>9 DEF ContinueMessage, Enroll, ResumeCompact
  <2>4. QED BY <1>1, <2>1, <2>2, <2>3, ClosingBoundStep DEF TypeInv, JobShape
<1>10. ASSUME NEW t \in Tasks, NEW j \in Jobs, NEW continue \in BOOLEAN,
              CompactStart(t, j, continue)
       PROVE  TypeInv' /\ RequestsGrow
  <2>1. TypeOK' /\ JobShape'
    BY <1>1, <1>10, CompactStartType, JobShapeStart
  <2>2. RequestsGrow
    BY <1>1, <1>10, RequestsGrowCompact
  <2>3. QED BY <1>1, <2>1, <2>2, ClosingBoundStep DEF TypeInv
<1>11. ASSUME NEW j \in Jobs, ReadJob(j)
       PROVE  TypeInv' /\ RequestsGrow
  <2>1. TypeOK'
    BY <1>1, <1>11, ReadJobType
  <2>2. UNCHANGED <<req, lagging, job>>
    BY <1>11 DEF ReadJob
  <2>3. QED BY <1>1, <2>1, <2>2, RequestsKept DEF TypeInv, ClosingBound, JobShape
<1>12. ASSUME NEW j \in Jobs,
              \/ \E phase \in Phases, handoff \in Opt(Handoffs), dest \in Opt(Convs) :
                    Checkpoint(j, phase, handoff, dest)
              \/ SettleReplacement(j)
       PROVE  TypeInv' /\ RequestsGrow
  <2>1. /\ job[j].phase # "absent"
        /\ UNCHANGED <<immediate, seen, reports, lagging>>
        /\ \E rev \in Nat, phase \in Phases, handoff \in Opt(Handoffs), dest \in Opt(Convs) :
              compact_checkpoint(j, rev, phase, handoff, dest)
    BY <1>1, <1>12, CheckpointCases
  <2>2. PICK rev \in Nat, phase \in Phases, handoff \in Opt(Handoffs), dest \in Opt(Convs) :
              compact_checkpoint(j, rev, phase, handoff, dest)
    BY <2>1
  <2>3. TypeOK' /\ JobShape'
    BY <1>1, <2>1, <2>2, CheckpointType, JobShapeCheckpoint
  <2>4. UNCHANGED req \/ \E to \in Convs : complete(j, to)
    BY <1>1, <2>1, <2>2, CheckpointEffect
  <2>5. RequestsGrow
    BY <1>1, <2>1, <2>4, RequestsGrowCompact
  <2>6. QED BY <1>1, <2>3, <2>5, ClosingBoundStep DEF TypeInv
<1>13. CASE Crash
  <2>1. RequestsGrow
    BY <1>13, RequestsKept DEF Crash
  <2>2. QED BY <1>1, <1>13, <2>1 DEF Crash, TypeInv, TypeOK, ClosingBound, JobShape
<1>14. QED
  BY <1>2, <1>3, <1>4, <1>5, <1>6, <1>7, <1>8, <1>9, <1>10, <1>11, <1>12, <1>13, NextCases

LEMMA TypeInvInit == Init => TypeInv
  BY InitTypeOK DEF Init, TypeInv, ClosingBound, JobShape, NoRequest, NoJob

LEMMA TypeInvariance == Spec => []TypeInv
<1>1. TypeInv /\ [Next]_vars => TypeInv'
  BY TypeInvStep
<1>2. QED BY <1>1, TypeInvInit, PTL DEF Spec

\* The tables and everything in flight are well formed in every reachable state.
THEOREM TypeCorrect == Spec => []TypeOK
<1>1. TypeInv => TypeOK
  BY DEF TypeInv
<1>2. QED BY <1>1, TypeInvariance, PTL

----------------------------------------------------------------------------
(* Checkpoints: what a step does to the jobs.                               *)

\* Only the start of a job and its own checkpoints write it.
LEMMA JobSteps ==
    ASSUME TypeInv, [Next]_vars, NEW j \in Jobs, job[j].phase # "absent", job'[j] # job[j]
    PROVE  \/ \E phase \in Phases, handoff \in Opt(Handoffs), dest \in Opt(Convs) :
                 Checkpoint(j, phase, handoff, dest)
           \/ SettleReplacement(j)
<1>1. TypeOK /\ JobShape
  BY DEF TypeInv
<1>2. CASE UNCHANGED job
  BY <1>2
<1>3. ASSUME NEW t \in Tasks, NEW k \in Jobs, NEW continue \in BOOLEAN, CompactStart(t, k, continue)
      PROVE  FALSE
  BY <1>1, <1>3 DEF CompactStart, TypeOK
<1>4. ASSUME NEW k \in Jobs, k # j,
             \/ \E phase \in Phases, handoff \in Opt(Handoffs), dest \in Opt(Convs) :
                   Checkpoint(k, phase, handoff, dest)
             \/ SettleReplacement(k)
      PROVE  FALSE
  <2>1. /\ job[k].phase # "absent"
        /\ \E rev \in Nat, phase \in Phases, handoff \in Opt(Handoffs), dest \in Opt(Convs) :
              compact_checkpoint(k, rev, phase, handoff, dest)
    BY <1>1, <1>4, CheckpointCases
  <2>2. PICK rev \in Nat, phase \in Phases, handoff \in Opt(Handoffs), dest \in Opt(Convs) :
              compact_checkpoint(k, rev, phase, handoff, dest)
    BY <2>1
  <2>3. CASE job' = [job EXCEPT ![k].rev = @ + 1]
    BY <1>1, <1>4, <2>3, DetailFields
  <2>4. CASE job' = Advanced(k, phase, handoff, dest)
    BY <1>1, <1>4, <2>4, AdvancedFields
  <2>5. QED BY <2>2, <2>3, <2>4 DEF compact_checkpoint
<1>5. CASE UNCHANGED vars
  BY <1>2, <1>5 DEF vars
<1>6. CASE \E r \in RequestIds :
                 \/ r \in Requests /\ CreateRequest(r)
                 \/ FinalReported(r) \/ ReadUnbound(r) \/ FailUnbound(r)
                 \/ SettleFinal(r) \/ StopMessage(r) \/ ClearActive(r)
  BY <1>2, <1>6 DEF CreateRequest, FinalReported, ReadUnbound, FailUnbound, SettleFinal,
                    StopMessage, ClearActive
<1>9. ASSUME NEW r \in RequestIds, NEW c \in Opt(Convs),
             \/ c \in Convs /\ BridgeIdentity(r, c)
             \/ BrowserCompleted(r, c)
             \/ \E status \in Outcomes : BridgeResult(r, c, status)
      PROVE  UNCHANGED job
  <2>1. CASE BridgeIdentity(r, c) \/ BrowserCompleted(r, c)
    BY <2>1 DEF BridgeIdentity, BrowserCompleted
  <2>2. ASSUME NEW status \in Outcomes, BridgeResult(r, c, status)
        PROVE  UNCHANGED job
    BY <2>2 DEF BridgeResult
  <2>3. QED BY <1>9, <2>1, <2>2
<1>7. CASE \/ \E f \in reports : PersistStarted(f) \/ DropStarted(f)
           \/ \E r \in RequestIds, c \in Convs : ReadStarted(r, c)
           \/ \E t \in Tasks :
                 \/ ReadStop(t) \/ ReadImmediateAllowed(t) \/ QueueImmediate(t)
                 \/ ClaimImmediate(t) \/ DemoteImmediate(t)
           \/ \E t \in Tasks, c \in Convs \ Provisional : McpTask(t, c)
           \/ \E t \in Tasks, r \in Requests : ContinueMessage(t, r)
           \/ \E t \in Tasks, r \in Requests, c \in Convs \ Provisional : Enroll(t, r, c)
           \/ \E k \in Jobs : ResumeCompact(k)
           \/ \E k \in Jobs : ReadJob(k)
           \/ Crash
  BY <1>2, <1>7 DEF PersistStarted, DropStarted, ReadStarted, ReadStop, ReadImmediateAllowed,
                    QueueImmediate, ClaimImmediate, DemoteImmediate, McpTask, ContinueMessage,
                    Enroll, ResumeCompact, ReadJob, Crash
<1>8. QED BY <1>2, <1>3, <1>4, <1>5, <1>6, <1>7, <1>9, NextCases

LEMMA AdvancedHandoff ==
    ASSUME TypeOK, NEW j \in Jobs, NEW phase \in Phases, NEW handoff, NEW dest,
           job' = Advanced(j, phase, handoff, dest)
    PROVE  job'[j].handoff = IF handoff = None THEN job[j].handoff ELSE handoff
  BY DEF Advanced, TypeOK, JobRow

\* What a checkpoint may rewrite of its job.
LEMMA FrozenByCheckpoint ==
    ASSUME TypeOK, NEW j \in Jobs, NEW rev, NEW phase \in Phases, NEW handoff \in Opt(Handoffs),
           NEW dest \in Opt(Convs), compact_checkpoint(j, rev, phase, handoff, dest)
    PROVE  /\ job[j].new # None => job'[j].new = job[j].new
           /\ job[j].phase \in {"opening_new_chat"} \cup Terminal =>
                 job'[j].handoff = job[j].handoff
           /\ job[j].phase \in Terminal => job'[j].phase = job[j].phase
<1>1. CASE job[j].phase \in Terminal
  <2>1. job' = [job EXCEPT ![j].rev = @ + 1]
    BY <1>1 DEF compact_checkpoint
  <2>2. job'[j].handoff = job[j].handoff
    BY <2>1 DEF TypeOK, JobRow
  <2>3. QED BY <2>1, <2>2, DetailFields
<1>2. CASE job[j].phase \notin Terminal
  <2>1. job' = Advanced(j, phase, handoff, dest) /\ MayCheckpoint(j, phase, handoff, dest)
    BY <1>2 DEF compact_checkpoint
  <2>2. job[j].new # None => job'[j].new = job[j].new
    BY <2>1, AdvancedFields DEF MayCheckpoint
  <2>3. rank["opening_new_chat"] = 3
    BY DEF rank, Phases
  <2>4. job[j].phase = "opening_new_chat" => handoff = None \/ handoff = job[j].handoff
    BY <2>1, <2>3 DEF MayCheckpoint
  <2>5. job[j].phase = "opening_new_chat" => job'[j].handoff = job[j].handoff
    BY <2>1, <2>4, AdvancedHandoff
  <2>6. QED BY <1>2, <2>2, <2>5
<1>3. QED BY <1>1, <1>2

LEMMA CheckpointsSoundStep ==
    ASSUME TypeInv, [Next]_vars, NEW j \in Jobs
    PROVE  /\ /\ job[j].phase # "absent" /\ job'[j] # job[j]
              /\ job'[j].phase # "completed" \/ job[j].phase = "completed"
              => seen[j] = job[j].rev
           /\ job[j].new # None => job'[j].new = job[j].new
           /\ job[j].phase \in {"opening_new_chat"} \cup Terminal =>
                 job'[j].handoff = job[j].handoff
           /\ job[j].phase \in Terminal => job'[j].phase = job[j].phase
<1>1. TypeOK /\ JobShape
  BY DEF TypeInv
<1>2. CASE job'[j] = job[j]
  BY <1>2
<1>3. CASE job[j].phase = "absent"
  <2>1. job[j].new = None
    BY <1>1, <1>3 DEF JobShape
  <2>2. QED BY <1>3, <2>1 DEF Terminal
<1>4. CASE job[j].phase # "absent" /\ job'[j] # job[j]
  <2>1. CASE \E phase \in Phases, handoff \in Opt(Handoffs), dest \in Opt(Convs) :
                Checkpoint(j, phase, handoff, dest)
    <3>1. PICK phase \in Phases, handoff \in Opt(Handoffs), dest \in Opt(Convs) :
                Checkpoint(j, phase, handoff, dest)
      BY <2>1
    <3>2. compact_checkpoint(j, seen[j], phase, handoff, dest)
      BY <3>1 DEF Checkpoint
    <3>3. job[j].rev = seen[j]
      BY <3>2 DEF compact_checkpoint
    <3>4. QED BY <1>1, <3>2, <3>3, FrozenByCheckpoint
  <2>2. CASE SettleReplacement(j)
    <3>1. /\ compact_checkpoint(j, job[j].rev, "completed", None, job[j].new)
          /\ job[j].phase = "opening_new_chat"
      BY <2>2 DEF SettleReplacement
    <3>2. "completed" \in Phases /\ None \in Opt(Handoffs) /\ job[j].new \in Opt(Convs)
      BY <1>1 DEF Phases, Opt, TypeOK, JobRow
    <3>3. job' = Advanced(j, "completed", None, job[j].new)
      BY <3>1 DEF compact_checkpoint, Terminal
    <3>4. job'[j].phase = "completed"
      BY <1>1, <3>2, <3>3, AdvancedFields
    <3>5. QED BY <1>1, <3>1, <3>2, <3>4, FrozenByCheckpoint
  <2>3. QED BY <1>4, <2>1, <2>2, JobSteps
<1>5. QED BY <1>2, <1>3, <1>4

\* No checkpoint but the one that settles a replacement is written from a stale reading of
\* its job, and none rewrites the destination, the handed-over text or the end of a job.
THEOREM SoundCheckpoints == Spec => CheckpointsSound
<1> DEFINE Blind == \A j \in Jobs :
              /\ job[j].phase # "absent" /\ job'[j] # job[j]
              /\ job'[j].phase # "completed" \/ job[j].phase = "completed"
              => seen[j] = job[j].rev
           Frozen == \A j \in Jobs :
              /\ job[j].new # None => job'[j].new = job[j].new
              /\ job[j].phase \in {"opening_new_chat"} \cup Terminal =>
                    job'[j].handoff = job[j].handoff
              /\ job[j].phase \in Terminal => job'[j].phase = job[j].phase
<1>1. TypeInv /\ [Next]_vars => [Blind]_vars /\ [Frozen]_vars
  BY CheckpointsSoundStep
<1>2. QED BY <1>1, TypeInvariance, PTL DEF Spec, CheckpointsSound, NoBlindCheckpoint, HandoffFrozen

----------------------------------------------------------------------------
(* The continuation of a job: who creates it, and after what.               *)

\* What a call or a lagging statement is about was there when it was read, and stays.
Underway ==
    /\ \A f \in reports : req[f.req].status # "absent"
    /\ \A r \in RequestIds : <<"failing", r>> \in lagging => req[r].status # "absent"

LEMMA UnderwayStep ==
    ASSUME TypeInv, Underway, [Next]_vars
    PROVE  Underway'
<1>1. TypeInv' /\ RequestsGrow
  BY TypeInvStep
<1>2. /\ \A f \in reports' : f \in reports \/ req[f.req].status # "absent"
      /\ \A r \in RequestIds : <<"failing", r>> \in lagging' =>
            <<"failing", r>> \in lagging \/ req[r].status # "absent"
  <2>1. CASE UNCHANGED <<reports, lagging>>
    BY <2>1
  <2>2. CASE \E r \in RequestIds :
                 \/ r \in Requests /\ CreateRequest(r)
                 \/ FinalReported(r) \/ ReadUnbound(r) \/ FailUnbound(r)
                 \/ SettleFinal(r) \/ StopMessage(r) \/ ClearActive(r)
    BY <2>2, LaterLag DEF CreateRequest, FinalReported, ReadUnbound, FailUnbound, SettleFinal,
                          StopMessage, ClearActive
  <2>3. ASSUME NEW r \in RequestIds, NEW c \in Opt(Convs),
               \/ c \in Convs /\ BridgeIdentity(r, c)
               \/ BrowserCompleted(r, c)
               \/ \E status \in Outcomes : BridgeResult(r, c, status)
        PROVE  /\ reports' = reports
               /\ \A q \in RequestIds : <<"failing", q>> \in lagging' => <<"failing", q>> \in lagging
    <3>1. CASE BridgeIdentity(r, c)
      BY <3>1 DEF BridgeIdentity
    <3>2. CASE BrowserCompleted(r, c)
      BY <3>2, LaterLag DEF BrowserCompleted
    <3>3. ASSUME NEW status \in Outcomes, BridgeResult(r, c, status)
          PROVE  /\ reports' = reports
                 /\ \A q \in RequestIds :
                       <<"failing", q>> \in lagging' => <<"failing", q>> \in lagging
      <4>1. reports' = reports /\ Later(<<"demoting", req[r].task>>)
        BY <3>3 DEF BridgeResult
      <4>2. QED BY <4>1, LaterLag
    <3>4. QED BY <2>3, <3>1, <3>2, <3>3
  <2>4. ASSUME \/ \E f \in reports : PersistStarted(f) \/ DropStarted(f)
               \/ \E r \in RequestIds, c \in Convs : ReadStarted(r, c)
               \/ Crash
        PROVE  /\ \A f \in reports' : f \in reports \/ req[f.req].status # "absent"
               /\ lagging' \subseteq lagging
    <3>1. CASE Crash
      BY <3>1 DEF Crash
    <3>2. ASSUME NEW f \in reports, PersistStarted(f) \/ DropStarted(f)
          PROVE  reports' \subseteq reports /\ lagging' = lagging
      BY <3>2 DEF PersistStarted, DropStarted
    <3>3. ASSUME NEW r \in RequestIds, NEW c \in Convs, ReadStarted(r, c)
          PROVE  /\ \A f \in reports' : f \in reports \/ req[f.req].status # "absent"
                 /\ lagging' = lagging
      BY <3>3 DEF ReadStarted
    <3>4. QED BY <2>4, <3>1, <3>2, <3>3
  <2>5. CASE \E t \in Tasks :
                 \/ ReadStop(t) \/ ReadImmediateAllowed(t) \/ QueueImmediate(t)
                 \/ ClaimImmediate(t) \/ DemoteImmediate(t)
    BY <2>5, LaterLag DEF ReadStop, ReadImmediateAllowed, QueueImmediate, ClaimImmediate,
                          DemoteImmediate
  <2>6. CASE \/ \E t \in Tasks, c \in Convs \ Provisional : McpTask(t, c)
             \/ \E t \in Tasks, r \in Requests : ContinueMessage(t, r)
             \/ \E t \in Tasks, r \in Requests, c \in Convs \ Provisional : Enroll(t, r, c)
             \/ \E j \in Jobs : ResumeCompact(j)
             \/ \E t \in Tasks, j \in Jobs, continue \in BOOLEAN : CompactStart(t, j, continue)
             \/ \E j \in Jobs : ReadJob(j)
             \/ \E j \in Jobs :
                 \/ \E phase \in Phases, handoff \in Opt(Handoffs), dest \in Opt(Convs) :
                       Checkpoint(j, phase, handoff, dest)
                 \/ SettleReplacement(j)
    BY <2>1, <2>6, ZenonT(40) DEF McpTask, ContinueMessage, Enroll, ResumeCompact, CompactStart, ReadJob,
                      Checkpoint, SettleReplacement
  <2>7. CASE UNCHANGED vars
    BY <2>1, <2>7 DEF vars
  <2>8. QED BY <2>2, <2>3, <2>4, <2>5, <2>6, <2>7, NextCases
<1>3. \A f \in reports : f.req \in RequestIds
  BY DEF TypeInv, TypeOK, Report
<1>4. \A f \in reports' : f.req \in RequestIds
  BY <1>1 DEF TypeInv, TypeOK, Report
<1>5. \A r \in RequestIds : req'[r].status = "absent" => req[r].status = "absent"
  BY <1>1 DEF RequestsGrow
<1>6. QED BY <1>2, <1>3, <1>4, <1>5 DEF Underway

\* The continuation of a job is created by resume_compact and by nothing else: what a report,
\* an answer or a stop is about is there already.
LEMMA OnlyResumeCreates ==
    ASSUME TypeInv, Underway, [Next]_vars, NEW j \in Jobs,
           req[ContinueId(j)].status = "absent", req'[ContinueId(j)].status # "absent"
    PROVE  ResumeCompact(j)
<1> DEFINE q == ContinueId(j)
<1>1. /\ TypeOK /\ ClosingBound /\ JobShape
      /\ q \in RequestIds /\ q \notin Requests
      /\ req[q].status = "absent" /\ req'[q].status # "absent"
  BY RequestAssumption DEF TypeInv, RequestIds
<1>2. \A k \in Jobs : ContinueId(k) = q => k = j
  BY DEF ContinueId
<1>3. req[q] \in RequestRow /\ req[q].status \notin Working
  BY <1>1 DEF TypeOK, Working
<1> HIDE DEF q
<1>4. CASE UNCHANGED req
  BY <1>1, <1>4
<1>5. ASSUME NEW r \in RequestIds,
             \/ r \in Requests /\ CreateRequest(r)
             \/ FinalReported(r) \/ FailUnbound(r) \/ SettleFinal(r) \/ StopMessage(r)
      PROVE  FALSE
  <2>1. CASE r \in Requests /\ CreateRequest(r)
    BY <1>1, <2>1 DEF CreateRequest, TypeOK
  <2>2. CASE FinalReported(r)
    BY <1>1, <1>3, <2>2 DEF FinalReported, TypeOK, RequestRow
  <2>3. CASE FailUnbound(r)
    BY <1>1, <2>3 DEF FailUnbound, Underway, TypeOK
  <2>4. CASE SettleFinal(r)
    BY <1>1, <1>3, <2>4 DEF SettleFinal, TypeOK
  <2>5. CASE StopMessage(r)
    BY <1>1, <2>5 DEF StopMessage, TypeOK
  <2>6. QED BY <1>5, <2>1, <2>2, <2>3, <2>4, <2>5
<1>6. ASSUME NEW r \in RequestIds, NEW c \in Opt(Convs),
             \/ c \in Convs /\ BridgeIdentity(r, c)
             \/ BrowserCompleted(r, c)
             \/ \E status \in Outcomes : BridgeResult(r, c, status)
      PROVE  FALSE
  <2>1. req[r].task # None
    BY <1>6 DEF BridgeIdentity, BrowserCompleted, BridgeResult
  <2>2. r # q
    BY <1>1, <2>1 DEF ClosingBound
  <2>3. CASE BridgeIdentity(r, c)
    BY <1>1, <2>2, <2>3 DEF BridgeIdentity, TypeOK
  <2>4. CASE BrowserCompleted(r, c)
    BY <1>1, <2>2, <2>4 DEF BrowserCompleted, TypeOK
  <2>5. CASE \E status \in Outcomes : BridgeResult(r, c, status)
    BY <1>1, <2>2, <2>5 DEF BridgeResult, TypeOK
  <2>6. QED BY <1>6, <2>3, <2>4, <2>5
<1>7. ASSUME NEW f \in reports, PersistStarted(f)
      PROVE  FALSE
  <2>1. f.req # q
    BY <1>1 DEF Underway
  <2>2. QED BY <1>1, <1>7, <2>1 DEF PersistStarted, TypeOK
<1>8. ASSUME NEW t \in Tasks, NEW r \in Requests,
             ContinueMessage(t, r) \/ \E c \in Convs : Enroll(t, r, c)
      PROVE  FALSE
  <2>1. CASE ContinueMessage(t, r)
    BY <1>1, <2>1 DEF ContinueMessage, TypeOK
  <2>2. CASE \E c \in Convs : Enroll(t, r, c)
    BY <1>1, <1>3, <2>2 DEF Enroll
  <2>3. QED BY <1>8, <2>1, <2>2
<1>9. ASSUME NEW k \in Jobs, ResumeCompact(k)
      PROVE  k = j
  <2>1. req' = [req EXCEPT ![ContinueId(k)] = NewRequest("queued", job[k].task, job[k].new)]
    BY <1>9 DEF ResumeCompact
  <2>2. QED BY <1>1, <1>2, <2>1 DEF TypeOK
<1>10. ASSUME NEW t \in Tasks, NEW k \in Jobs, NEW continue \in BOOLEAN, CompactStart(t, k, continue)
       PROVE  FALSE
  BY <1>1, <1>10 DEF CompactStart
<1>11. ASSUME NEW k \in Jobs,
              \/ \E phase \in Phases, handoff \in Opt(Handoffs), dest \in Opt(Convs) :
                    Checkpoint(k, phase, handoff, dest)
              \/ SettleReplacement(k)
       PROVE  FALSE
  <2>1. /\ job[k].phase # "absent"
        /\ \E rev \in Nat, phase \in Phases, handoff \in Opt(Handoffs), dest \in Opt(Convs) :
              compact_checkpoint(k, rev, phase, handoff, dest)
    BY <1>1, <1>11, CheckpointCases
  <2>2. PICK rev \in Nat, phase \in Phases, handoff \in Opt(Handoffs), dest \in Opt(Convs) :
              compact_checkpoint(k, rev, phase, handoff, dest)
    BY <2>1
  <2>3. UNCHANGED req \/ \E to \in Convs : complete(k, to)
    BY <1>1, <2>1, <2>2, CheckpointEffect
  <2>4. CASE \E to \in Convs : complete(k, to)
    <3>1. \/ req'[q] = req[q]
          \/ req'[q] = [req[q] EXCEPT !.obsolete = TRUE,
                 !.status = IF req[q].status \in Working THEN "stopped" ELSE req[q].status]
      BY <1>1, <2>4 DEF complete
    <3>2. QED BY <1>1, <1>3, <3>1 DEF RequestRow
  <2>5. QED BY <1>4, <2>3, <2>4
<1>12. CASE \/ \E r \in RequestIds : ReadUnbound(r) \/ ClearActive(r)
            \/ \E f \in reports : DropStarted(f)
            \/ \E r \in RequestIds, c \in Convs : ReadStarted(r, c)
            \/ \E t \in Tasks :
                 \/ ReadStop(t) \/ ReadImmediateAllowed(t) \/ QueueImmediate(t)
                 \/ ClaimImmediate(t) \/ DemoteImmediate(t)
            \/ \E t \in Tasks, c \in Convs \ Provisional : McpTask(t, c)
            \/ \E k \in Jobs : ReadJob(k)
            \/ Crash
            \/ UNCHANGED vars
  BY <1>4, <1>12 DEF ReadUnbound, ClearActive, DropStarted, ReadStarted, ReadStop,
                     ReadImmediateAllowed, QueueImmediate, ClaimImmediate, DemoteImmediate,
                     McpTask, ReadJob, Crash, vars
<1>13. QED BY <1>5, <1>6, <1>7, <1>8, <1>9, <1>10, <1>11, <1>12, NextCases

LEMMA ContinueStep ==
    ASSUME TypeInv, Underway, [Next]_vars, NEW j \in Jobs,
           req[ContinueId(j)].status = "absent", req'[ContinueId(j)].status # "absent"
    PROVE  /\ job[j].continue
           /\ req'[ContinueId(j)].conv = job[j].new
           /\ \A r \in RequestIds :
                 req[r].task = job[j].task => j \notin req[r].after /\ req[r].status \notin Working
<1>1. ResumeCompact(j)
  BY OnlyResumeCreates
<1>2. /\ job[j].continue /\ ~Busy(job[j].task)
      /\ \A q \in RequestIds : req[q].task = job[j].task => j \notin req[q].after
      /\ req' = [req EXCEPT ![ContinueId(j)] = NewRequest("queued", job[j].task, job[j].new)]
  BY <1>1 DEF ResumeCompact
<1>3. ContinueId(j) \in RequestIds /\ req \in [RequestIds -> RequestRow]
  BY DEF RequestIds, TypeInv, TypeOK
<1>4. req'[ContinueId(j)] = NewRequest("queued", job[j].task, job[j].new)
  BY <1>2, <1>3
<1>5. req'[ContinueId(j)].conv = job[j].new
  BY <1>4, NewRequestFields
<1>6. QED BY <1>2, <1>5 DEF Busy

\* The continuation of a compact job is sent in its new chat, only when it was asked for, and
\* never after a newer message of the task, whatever else lags behind.
THEOREM ContinuesInOrder == Spec => ContinueNotOvertaking
<1> DEFINE InOrder == \A j \in Jobs :
          req[ContinueId(j)].status = "absent" /\ req'[ContinueId(j)].status # "absent" =>
              /\ job[j].continue
              /\ req'[ContinueId(j)].conv = job[j].new
              /\ \A r \in RequestIds :
                    req[r].task = job[j].task =>
                        j \notin req[r].after /\ req[r].status \notin Working
           IInv == TypeInv /\ Underway
<1>1. Init => IInv
  BY TypeInvInit DEF Init, Underway
<1>2. IInv /\ [Next]_vars => IInv'
  BY TypeInvStep, UnderwayStep
<1>3. IInv /\ [Next]_vars => [InOrder]_vars
  BY ContinueStep
<1>4. QED BY <1>1, <1>2, <1>3, PTL DEF Spec, ContinueNotOvertaking

-----------------------------------------------------------------------------
(***************************************************************************)
(* Who owns a conversation, which requests work and where a task is, for   *)
(* every set of tasks, conversations, jobs and requests.  Each part sums   *)
(* the handlers up in the few things a step can do to the rows it is about *)
(* (BindingStep, RequestStep, PlaceStep) and proves its invariants from    *)
(* that summary alone:                                                     *)
(*   - each step leaves all bindings alone, binds or names one task, or    *)
(*     moves one by completing a compact job of it;                        *)
(*   - a request goes on, ends or begins for a task that is not compacted, *)
(*     and only a completion retires requests;                             *)
(*   - a task's conversation and scope move together, and away from a      *)
(*     compact job's source only when that job completes.                  *)
(***************************************************************************)


BindingKept ==
    /\ UNCHANGED archive
    /\ \A u \in Tasks : task'[u].conv = task[u].conv

\* The task t takes c: its first conversation, or a durable one for a provisional.
Binds(t, c) ==
    /\ \/ task[t].conv = None
       \/ task[t].conv \in Provisional /\ c \notin Provisional
    /\ ~ArchivedConv(c)
    /\ \A u \in Tasks \ {t} : task[u].conv # c
    /\ \A u \in Tasks : task'[u].conv = IF u = t THEN c ELSE task[u].conv
    /\ UNCHANGED archive

\* The completion of j moves its task to c and archives where it was.
Moves(j, c) ==
    LET t == job[j].task IN
    /\ job[j].phase = "opening_new_chat" /\ job'[j].phase = "completed"
    /\ t \in Tasks /\ task[t].conv = job[j].old /\ job'[j].new = c
    /\ job[j].old \in Convs \ Provisional /\ c \in Convs \ Provisional /\ c # job[j].old
    /\ ~ArchivedConv(c)
    /\ \A u \in Tasks \ {t} : task[u].conv # c
    /\ \A u \in Tasks : task'[u].conv = IF u = t THEN c ELSE task[u].conv
    /\ archive' = archive \cup {[conv |-> job[j].old, prev |-> job[j].oldScope, job |-> j]}

BindingStep ==
    \/ BindingKept
    \/ \E t \in Tasks, c \in Convs : Binds(t, c)
    \/ \E j \in Jobs, c \in Convs : Moves(j, c)

\* A task that does not exist is bound to nothing and nothing names it.
TasksExist ==
    /\ \A t \in Tasks : ~Exists(t) => task[t].conv = None
    /\ \A r \in RequestIds : req[r].task # None => Exists(req[r].task)

\* What MayBind and guard_conversation_binding together allow a callback to do.
LEMMA GuardedBind ==
    ASSUME TypeOK, NEW t \in Tasks, NEW c \in Convs, guard_conversation_binding(t, c),
           MayBind(t, c), UNCHANGED archive,
           \A u \in Tasks : task'[u].conv = IF u = t THEN c ELSE task[u].conv
    PROVE  BindingStep
<1>1. c # None
  BY CompactAssumption
<1>2. CASE task[t].conv = c
  BY <1>2 DEF BindingStep, BindingKept
<1>3. CASE task[t].conv # c
  <2>1. \/ task[t].conv = None
        \/ task[t].conv \in Provisional /\ c \notin Provisional
    BY <1>1, <1>3 DEF guard_conversation_binding
  <2>2. Binds(t, c)
    BY <2>1 DEF Binds, MayBind
  <2>3. QED BY <2>2 DEF BindingStep
<1>4. QED BY <1>2, <1>3

LEMMA PersistStartedBinding ==
    ASSUME TypeOK, NEW f \in reports, PersistStarted(f)
    PROVE  BindingStep
<1> DEFINE r == f.req
           c == f.conv
           t == IF req[r].task = None THEN f.cand ELSE req[r].task
<1>1. r \in RequestIds /\ c \in Convs /\ f.cand \in Tasks /\ req[r] \in RequestRow
  BY DEF TypeOK, Report
<1>2. t \in Tasks
  BY <1>1 DEF RequestRow, Opt
<1>3. /\ guard_conversation_binding(t, c) /\ MayBind(t, c) /\ UNCHANGED archive
      /\ task' = [task EXCEPT ![t] = [task[t] EXCEPT !.status = "running", !.scope = c,
                                                     !.conv = c, !.active = r]]
  BY DEF PersistStarted
<1> HIDE DEF r, c, t
<1>4. \A u \in Tasks : task'[u].conv = IF u = t THEN c ELSE task[u].conv
  BY <1>2, <1>3 DEF TypeOK, TaskRow
<1>5. QED BY <1>1, <1>2, <1>3, <1>4, GuardedBind

LEMMA BridgeIdentityBinding ==
    ASSUME TypeOK, NEW r \in RequestIds, NEW c \in Convs, BridgeIdentity(r, c)
    PROVE  BindingStep
<1> DEFINE t == req[r].task
<1>1. t \in Tasks
  BY DEF BridgeIdentity, TypeOK, RequestRow, Opt
<1>2. /\ guard_conversation_binding(t, c) /\ MayBind(t, c) /\ UNCHANGED archive
      /\ task' = [task EXCEPT ![t] = [task[t] EXCEPT !.scope = c, !.conv = c]]
  BY DEF BridgeIdentity
<1> HIDE DEF t
<1>3. \A u \in Tasks : task'[u].conv = IF u = t THEN c ELSE task[u].conv
  BY <1>1, <1>2 DEF TypeOK, TaskRow
<1>4. QED BY <1>1, <1>2, <1>3, GuardedBind

\* The end of a request names its task's conversation only if it is its active one.
LEMMA ReleasedBinding ==
    ASSUME TypeOK, NEW r, NEW t \in Tasks, NEW c \in Opt(Convs), NEW status,
           guard_conversation_binding(t, c), UNCHANGED archive,
           c # None /\ task[t].active = r => MayBind(t, c),
           \/ task' = [task EXCEPT ![t] = Released(t, r, c)]
           \/ task' = [task EXCEPT ![t] = [Released(t, r, c) EXCEPT !.status = status]]
    PROVE  BindingStep
<1>1. task[t] \in TaskRow /\ Released(t, r, c) \in TaskRow
  BY ReleasedType DEF TypeOK
<1>2. Released(t, r, c).conv = IF task[t].active # r \/ c = None THEN task[t].conv ELSE c
  BY <1>1 DEF Released, TaskRow
<1>3. [Released(t, r, c) EXCEPT !.status = status].conv = Released(t, r, c).conv
  BY <1>1 DEF TaskRow
<1>4. \A u \in Tasks : task'[u].conv = IF u = t THEN Released(t, r, c).conv ELSE task[u].conv
  <2> HIDE DEF Released
  <2>1. QED BY <1>1, <1>3 DEF TypeOK
<1>5. CASE task[t].active # r \/ c = None
  BY <1>2, <1>4, <1>5 DEF BindingStep, BindingKept
<1>6. CASE task[t].active = r /\ c # None
  <2>1. c \in Convs /\ MayBind(t, c)
    BY <1>6 DEF Opt
  <2>2. \A u \in Tasks : task'[u].conv = IF u = t THEN c ELSE task[u].conv
    BY <1>2, <1>4, <1>6
  <2>3. QED BY <2>1, <2>2, GuardedBind
<1>7. QED BY <1>5, <1>6

LEMMA BridgeResultBinding ==
    ASSUME TypeOK, NEW r \in RequestIds, NEW c \in Opt(Convs), NEW status \in Outcomes,
           BridgeResult(r, c, status)
    PROVE  BindingStep
<1> DEFINE t   == req[r].task
           new == IF c \in Provisional THEN None ELSE c
           as  == [completed |-> "completed", stopped |-> "interrupted", failed |-> "failed"]
<1>1. t \in Tasks
  BY DEF BridgeResult, TypeOK, RequestRow, Opt
<1>2. new \in Opt(Convs)
  BY DEF Opt
<1>3. /\ guard_conversation_binding(t, new) /\ UNCHANGED archive
      /\ new # None /\ task[t].active = r => MayBind(t, new)
      /\ task' = [task EXCEPT ![t] =
                    IF \/ req[r].final \/ Others(t, r) \/ Released(t, r, new).status = "stopped"
                    THEN Released(t, r, new)
                    ELSE [Released(t, r, new) EXCEPT !.status = as[status]]]
  BY DEF BridgeResult
<1> HIDE DEF t, new, as
<1>4. \/ task' = [task EXCEPT ![t] = Released(t, r, new)]
      \/ task' = [task EXCEPT ![t] = [Released(t, r, new) EXCEPT !.status = as[status]]]
  BY <1>3
<1>5. QED BY <1>1, <1>2, <1>3, <1>4, ReleasedBinding

LEMMA BrowserCompletedBinding ==
    ASSUME TypeOK, NEW r \in RequestIds, NEW c \in Opt(Convs), BrowserCompleted(r, c)
    PROVE  BindingStep
<1> DEFINE t == req[r].task
<1>1. t \in Tasks
  BY DEF BrowserCompleted, TypeOK, RequestRow, Opt
<1>2. /\ guard_conversation_binding(t, c) /\ UNCHANGED archive
      /\ c # None /\ task[t].active = r => MayBind(t, c)
      /\ task' = [task EXCEPT ![t] =
                    IF Others(t, r) \/ Released(t, r, c).status = "stopped" THEN Released(t, r, c)
                    ELSE [Released(t, r, c) EXCEPT !.status = "completed"]]
  BY DEF BrowserCompleted
<1> HIDE DEF t
<1>3. \/ task' = [task EXCEPT ![t] = Released(t, r, c)]
      \/ task' = [task EXCEPT ![t] = [Released(t, r, c) EXCEPT !.status = "completed"]]
  BY <1>2
<1>4. QED BY <1>1, <1>2, <1>3, ReleasedBinding

LEMMA EnrollBinding ==
    ASSUME TypeOK, NEW t \in Tasks, NEW r \in Requests, NEW c \in Convs, Enroll(t, r, c),
           ~Exists(t) => task[t].conv = None
    PROVE  BindingStep
<1> DEFINE bound == IF \E u \in Tasks : task[u].conv = c
                    THEN {u \in Tasks : task[u].conv = c}
                    ELSE {u \in Tasks : task[u].scope = c}
           created == [status |-> "running", scope |-> c, conv |-> c,
                       active |-> r, recorder |-> TRUE]
           adopted == [task[t] EXCEPT
                          !.conv = IF task[t].conv = None THEN c ELSE task[t].conv,
                          !.active = r,
                          !.status = IF task[t].status = "stopped" THEN "stopped"
                                     ELSE "running"]
<1>1. /\ ~ArchivedConv(c) /\ UNCHANGED archive
      /\ IF bound # {} THEN t \in bound ELSE FreshTask(t, r, c)
      /\ task' = [task EXCEPT ![t] = IF bound = {} THEN created ELSE adopted]
  BY DEF Enroll, guard_native
<1>2. task[t] \in TaskRow /\ c # None
  BY CompactAssumption DEF TypeOK
<1>3. created.conv = c /\ adopted.conv = IF task[t].conv = None THEN c ELSE task[t].conv
  BY <1>2 DEF TaskRow
<1>4. bound = {} => task[t].conv = None
  BY <1>1 DEF FreshTask
<1>5. task[t].conv = None => \A u \in Tasks : task[u].conv # c
  <2>1. ASSUME task[t].conv = None, NEW u \in Tasks, task[u].conv = c
        PROVE  FALSE
    <3>1. bound = {v \in Tasks : task[v].conv = c}
      BY <2>1
    <3>2. t \in bound
      BY <1>1, <2>1, <3>1
    <3>3. QED BY <1>2, <2>1, <3>1, <3>2
  <2>2. QED BY <2>1
<1>6. task' = [task EXCEPT ![t] = created] \/ task' = [task EXCEPT ![t] = adopted]
  BY <1>1
<1>7. \A u \in Tasks : task'[u].conv =
         IF u = t THEN (IF task[t].conv = None THEN c ELSE task[t].conv) ELSE task[u].conv
  <2>1. bound = {} => \A u \in Tasks : task'[u].conv = IF u = t THEN c ELSE task[u].conv
    <3> HIDE DEF adopted, bound
    <3>1. QED BY <1>1, <1>3 DEF TypeOK
  <2>2. bound # {} => \A u \in Tasks : task'[u].conv = IF u = t THEN adopted.conv ELSE task[u].conv
    <3> HIDE DEF adopted, bound
    <3>1. QED BY <1>1 DEF TypeOK
  <2> HIDE DEF adopted, bound
  <2>3. QED BY <1>3, <1>4, <2>1, <2>2
<1> HIDE DEF bound, created, adopted
<1>8. CASE task[t].conv = None
  <2>1. Binds(t, c)
    BY <1>1, <1>5, <1>7, <1>8 DEF Binds
  <2>2. QED BY <2>1 DEF BindingStep
<1>9. CASE task[t].conv # None
  BY <1>1, <1>7, <1>9 DEF BindingStep, BindingKept
<1>10. QED BY <1>8, <1>9

----------------------------------------------------------------------------
\* A step that gives tasks no other life and requests no other task.
LEMMA TasksExistKept ==
    ASSUME TasksExist,
           \A t \in Tasks : task'[t].status # "absent" \/ task'[t].conv = task[t].conv,
           \A t \in Tasks : Exists(t) => task'[t].status # "absent",
           \A t \in Tasks : ~Exists(t) /\ task'[t].status = "absent" => task'[t].conv = task[t].conv,
           TypeOK',
           \A r \in RequestIds : req'[r].task \in Tasks =>
              \/ req'[r].task = req[r].task
              \/ task'[req'[r].task].status # "absent"
    PROVE  TasksExist'
  BY DEF TasksExist, Exists, TypeOK, RequestRow, Opt

LEMMA ReleasedStatus ==
    ASSUME TypeOK, NEW t \in Tasks, NEW r, NEW c
    PROVE  Released(t, r, c).status = task[t].status
<1>1. task[t] \in TaskRow
  BY DEF TypeOK
<1>2. QED BY <1>1 DEF Released, TaskRow

LEMMA TasksExistRequest ==
    ASSUME TypeOK, TypeOK', TasksExist, NEW r \in RequestIds,
           \/ r \in Requests /\ CreateRequest(r)
           \/ FinalReported(r) \/ ReadUnbound(r) \/ FailUnbound(r)
           \/ SettleFinal(r) \/ StopMessage(r) \/ ClearActive(r)
    PROVE  TasksExist'
<1>1. \A t \in Tasks : task[t] \in TaskRow
  BY DEF TypeOK
<1>2. \A t \in Tasks : task'[t].status = task[t].status /\ task'[t].conv = task[t].conv
  BY <1>1 DEF CreateRequest, FinalReported, ReadUnbound, FailUnbound, SettleFinal,
              StopMessage, ClearActive, TaskRow
<1>3. \A q \in RequestIds : req'[q].task = req[q].task \/ req'[q].task = None
  <2>1. CASE r \in Requests /\ CreateRequest(r)
    <3>1. NewRequest("queued", None, None).task = None
      BY NewRequestFields
    <3>2. req' = [req EXCEPT ![r] = NewRequest("queued", None, None)]
      BY <2>1 DEF CreateRequest
    <3>3. QED BY <3>1, <3>2 DEF TypeOK
  <2>2. CASE ~(r \in Requests /\ CreateRequest(r))
    BY <2>2 DEF FinalReported, ReadUnbound, FailUnbound, SettleFinal,
                StopMessage, ClearActive, TypeOK, RequestRow
  <2>3. QED BY <2>1, <2>2
<1>4. QED BY <1>2, <1>3, CompactAssumption, TasksExistKept DEF Exists

LEMMA TasksExistCallback ==
    ASSUME TypeOK, TypeOK', TasksExist, NEW r \in RequestIds, NEW c \in Opt(Convs),
           \/ c \in Convs /\ BridgeIdentity(r, c)
           \/ BrowserCompleted(r, c)
           \/ \E status \in Outcomes : BridgeResult(r, c, status)
    PROVE  TasksExist'
<1> DEFINE t == req[r].task
<1>1. t \in Tasks /\ task[t].status # "absent" /\ task[t] \in TaskRow
  BY DEF BridgeIdentity, BrowserCompleted, BridgeResult, TypeOK, RequestRow, Opt,
         TasksExist, Exists
<1>2. \A q \in RequestIds : req'[q].task = req[q].task
  <2>1. req[r] \in RequestRow
    BY DEF TypeOK
  <2>2. CASE c \in Convs /\ BridgeIdentity(r, c)
    BY <2>1, <2>2 DEF BridgeIdentity, TypeOK, RequestRow
  <2>3. CASE BrowserCompleted(r, c)
    BY <2>1, <2>3 DEF BrowserCompleted, TypeOK, RequestRow
  <2>4. CASE \E status \in Outcomes : BridgeResult(r, c, status)
    <3>1. PICK status \in Outcomes : BridgeResult(r, c, status)
      BY <2>4
    <3> DEFINE new  == IF c \in Provisional THEN None ELSE c
               conv == IF new = None THEN req[r].conv ELSE new
    <3>2. req' = [req EXCEPT ![r] = [req[r] EXCEPT !.status = status, !.conv = conv]]
      BY <3>1 DEF BridgeResult
    <3> HIDE DEF conv
    <3>3. QED BY <2>1, <3>2 DEF TypeOK, RequestRow
  <2>5. QED BY <2>2, <2>3, <2>4
<1>3. \A u \in Tasks \ {t} : task'[u] = task[u]
  BY DEF BridgeIdentity, BrowserCompleted, BridgeResult, TypeOK
<1>4. task'[t].status # "absent"
  <2>1. CASE c \in Convs /\ BridgeIdentity(r, c)
    BY <1>1, <2>1 DEF BridgeIdentity, TypeOK, TaskRow
  <2>2. CASE BrowserCompleted(r, c)
    <3>1. Released(t, r, c) \in TaskRow /\ Released(t, r, c).status = task[t].status
      BY <1>1, ReleasedType, ReleasedStatus
    <3>2. task' = [task EXCEPT ![t] =
                    IF Others(t, r) \/ Released(t, r, c).status = "stopped" THEN Released(t, r, c)
                    ELSE [Released(t, r, c) EXCEPT !.status = "completed"]]
      BY <2>2 DEF BrowserCompleted
    <3>3. task'[t] = Released(t, r, c)
          \/ task'[t] = [Released(t, r, c) EXCEPT !.status = "completed"]
      BY <1>1, <3>2 DEF TypeOK
    <3>4. QED BY <1>1, <3>1, <3>3 DEF TaskRow
  <2>3. CASE \E status \in Outcomes : BridgeResult(r, c, status)
    <3> DEFINE new == IF c \in Provisional THEN None ELSE c
               as  == [completed |-> "completed", stopped |-> "interrupted", failed |-> "failed"]
    <3>1. PICK status \in Outcomes : BridgeResult(r, c, status)
      BY <2>3
    <3>2. new \in Opt(Convs) /\ as[status] # "absent"
      BY DEF Opt, Outcomes
    <3>3. task' = [task EXCEPT ![t] =
                    IF \/ req[r].final \/ Others(t, r) \/ Released(t, r, new).status = "stopped"
                    THEN Released(t, r, new)
                    ELSE [Released(t, r, new) EXCEPT !.status = as[status]]]
      BY <3>1 DEF BridgeResult
    <3> HIDE DEF new, as
    <3>4. Released(t, r, new) \in TaskRow /\ Released(t, r, new).status = task[t].status
      BY <1>1, <3>2, ReleasedType, ReleasedStatus
    <3>5. task'[t] = Released(t, r, new)
          \/ task'[t] = [Released(t, r, new) EXCEPT !.status = as[status]]
      BY <1>1, <3>3 DEF TypeOK
    <3>6. QED BY <1>1, <3>2, <3>4, <3>5 DEF TaskRow
  <2>4. QED BY <2>1, <2>2, <2>3
<1>5. \A u \in Tasks : u # t => task'[u] = task[u]
  BY <1>3
<1> HIDE DEF t
<1>6. QED BY <1>1, <1>2, <1>4, <1>5, TasksExistKept DEF Exists

LEMMA TasksExistStarted ==
    ASSUME TypeOK, TypeOK', TasksExist, NEW f \in reports, PersistStarted(f) \/ DropStarted(f)
    PROVE  TasksExist'
<1>1. CASE PersistStarted(f)
  <2> DEFINE r == f.req
             c == f.conv
             t == IF req[r].task = None THEN f.cand ELSE req[r].task
             status == IF req[r].status = "stop_requested" THEN req[r].status ELSE "running"
  <2>1. r \in RequestIds /\ c \in Convs /\ f.cand \in Tasks /\ req[r] \in RequestRow
    BY DEF TypeOK, Report
  <2>2. t \in Tasks
    BY <2>1 DEF RequestRow, Opt
  <2>3. /\ task' = [task EXCEPT ![t] = [task[t] EXCEPT !.status = "running", !.scope = c,
                                                       !.conv = c, !.active = r]]
        /\ req' = [req EXCEPT ![r] = [req[r] EXCEPT !.task = t, !.conv = c, !.status = status]]
    BY <1>1 DEF PersistStarted
  <2> HIDE DEF r, c, t, status
  <2>4. task'[t].status = "running" /\ \A u \in Tasks \ {t} : task'[u] = task[u]
    BY <2>2, <2>3 DEF TypeOK, TaskRow
  <2>5. \A q \in RequestIds : req'[q].task = req[q].task \/ req'[q].task = t
    BY <2>1, <2>3 DEF TypeOK, RequestRow
  <2>6. QED BY <2>2, <2>4, <2>5, TasksExistKept DEF Exists
<1>2. CASE DropStarted(f)
  BY <1>2 DEF DropStarted, TasksExist, Exists
<1>3. QED BY <1>1, <1>2

LEMMA TasksExistNew ==
    ASSUME TypeOK, TypeOK', JobShape, TasksExist,
           \/ \E t \in Tasks, r \in Requests : ContinueMessage(t, r)
           \/ \E t \in Tasks, r \in Requests, c \in Convs : Enroll(t, r, c)
           \/ \E j \in Jobs : ResumeCompact(j)
           \/ \E t \in Tasks, c \in Convs : McpTask(t, c)
    PROVE  TasksExist'
<1>1. CASE \E t \in Tasks, r \in Requests : ContinueMessage(t, r)
  <2>1. PICK t \in Tasks, r \in Requests : ContinueMessage(t, r)
    BY <1>1
  <2>2. NewRequest("queued", t, task[t].conv).task = t /\ r \in RequestIds
    BY NewRequestFields DEF RequestIds
  <2>3. /\ task' = [task EXCEPT ![t] = [task[t] EXCEPT !.active = r, !.status = "running"]]
        /\ req' = [req EXCEPT ![r] = NewRequest("queued", t, task[t].conv)]
    BY <2>1 DEF ContinueMessage
  <2>4. task'[t].status = "running" /\ \A u \in Tasks \ {t} : task'[u] = task[u]
    BY <2>3 DEF TypeOK, TaskRow
  <2>5. \A q \in RequestIds : req'[q].task = req[q].task \/ req'[q].task = t
    BY <2>2, <2>3 DEF TypeOK
  <2>6. QED BY <2>4, <2>5, TasksExistKept DEF Exists
<1>2. CASE \E t \in Tasks, r \in Requests, c \in Convs : Enroll(t, r, c)
  <2>1. PICK t \in Tasks, r \in Requests, c \in Convs : Enroll(t, r, c)
    BY <1>2
  <2>2. NewRequest("running", t, c).task = t
    BY NewRequestFields
  <2>3. /\ \A q \in RequestIds :
              \/ req'[q] = req[q] \/ req'[q] = [req[q] EXCEPT !.status = "stopped"]
              \/ req'[q] = NewRequest("running", t, c)
        /\ \/ task' = [task EXCEPT ![t] = [status |-> "running", scope |-> c, conv |-> c,
                                          active |-> r, recorder |-> TRUE]]
           \/ task' = [task EXCEPT ![t] =
                        [task[t] EXCEPT
                          !.conv = IF task[t].conv = None THEN c ELSE task[t].conv,
                          !.active = r,
                          !.status = IF task[t].status = "stopped" THEN "stopped"
                                     ELSE "running"]]
    BY <2>1 DEF Enroll
  <2>4. task'[t].status # "absent" /\ \A u \in Tasks \ {t} : task'[u] = task[u]
    <3> DEFINE conv == IF task[t].conv = None THEN c ELSE task[t].conv
               status == IF task[t].status = "stopped" THEN "stopped" ELSE "running"
    <3>1. status # "absent" /\ task[t] \in TaskRow
      BY DEF TypeOK
    <3>2. CASE task' = [task EXCEPT ![t] = [status |-> "running", scope |-> c, conv |-> c,
                                           active |-> r, recorder |-> TRUE]]
      BY <3>2 DEF TypeOK
    <3>3. CASE task' = [task EXCEPT ![t] = [task[t] EXCEPT !.conv = conv, !.active = r,
                                                           !.status = status]]
      <4> HIDE DEF conv, status
      <4>1. QED BY <3>1, <3>3 DEF TypeOK, TaskRow
    <3>4. QED BY <2>3, <3>2, <3>3
  <2>5. \A q \in RequestIds : req'[q].task = req[q].task \/ req'[q].task = t
    <3>1. \A q \in RequestIds : req[q] \in RequestRow
      BY DEF TypeOK
    <3> HIDE DEF NewRequest
    <3>2. QED BY <2>2, <2>3, <3>1 DEF RequestRow
  <2>6. QED BY <2>4, <2>5, TasksExistKept DEF Exists
<1>3. CASE \E j \in Jobs : ResumeCompact(j)
  <2>1. PICK j \in Jobs : ResumeCompact(j)
    BY <1>3
  <2> DEFINE t == job[j].task
             r == ContinueId(j)
  <2>2. NewRequest("queued", t, job[j].new).task = t /\ r \in RequestIds /\ t \in Tasks
    <3>1. r \in RequestIds
      BY DEF RequestIds
    <3>2. job[j].phase = "completed"
      BY <2>1 DEF ResumeCompact
    <3>3. t \in Tasks
      BY <3>2 DEF JobShape
    <3>4. QED BY <3>1, <3>3, NewRequestFields
  <2>3. /\ task' = [task EXCEPT ![t] = [task[t] EXCEPT !.active = r, !.status = "running"]]
        /\ req' = [req EXCEPT ![r] = NewRequest("queued", t, job[j].new)]
    BY <2>1 DEF ResumeCompact
  <2> HIDE DEF t, r
  <2>4. task'[t].status = "running" /\ \A u \in Tasks \ {t} : task'[u] = task[u]
    BY <2>2, <2>3 DEF TypeOK, TaskRow
  <2>5. \A q \in RequestIds : req'[q].task = req[q].task \/ req'[q].task = t
    BY <2>2, <2>3 DEF TypeOK
  <2>6. QED BY <2>2, <2>4, <2>5, TasksExistKept DEF Exists
<1>4. CASE \E t \in Tasks, c \in Convs : McpTask(t, c)
  <2>1. PICK t \in Tasks, c \in Convs : McpTask(t, c)
    BY <1>4
  <2>2. /\ task' = [task EXCEPT ![t] = [task[t] EXCEPT !.status = "running", !.scope = c]]
        /\ req' = req
    BY <2>1 DEF McpTask
  <2>3. task'[t].status = "running" /\ \A u \in Tasks \ {t} : task'[u] = task[u]
    BY <2>2 DEF TypeOK, TaskRow
  <2>4. QED BY <2>2, <2>3, TasksExistKept DEF Exists
<1>5. QED BY <1>1, <1>2, <1>3, <1>4

\* What the completion of a job does to bindings and tasks.
LEMMA CompletionMoves ==
    ASSUME TypeOK, JobShape, NEW j \in Jobs, job[j].phase = "opening_new_chat",
           NEW handoff \in Opt(Handoffs), NEW dest \in Opt(Convs),
           MayCheckpoint(j, "completed", handoff, dest),
           job' = Advanced(j, "completed", handoff, dest),
           job'[j].new \in Convs, complete(j, job'[j].new)
    PROVE  /\ Moves(j, job'[j].new)
           /\ \A u \in Tasks : task[u].status # "absent" => task'[u].status # "absent"
           /\ \A u \in Tasks \ {job[j].task} : task'[u] = task[u]
           /\ \A q \in RequestIds : req'[q].task = req[q].task
<1> DEFINE t == job[j].task
           c == job'[j].new
           status == IF task[t].status = "running" THEN "interrupted" ELSE task[t].status
<1>1. /\ t \in Tasks /\ job[j].old \in Convs \ Provisional /\ "completed" \in Phases
      /\ task[t] \in TaskRow
  BY DEF JobShape, Phases, TypeOK
<1>2. /\ job'[j].phase = "completed"
      /\ c = IF dest = None THEN job[j].new ELSE dest
  BY <1>1, AdvancedFields
<1>3. /\ c \notin Provisional /\ c # job[j].old /\ task[t].conv = job[j].old
      /\ ensure_destination(j, c)
  BY <1>2, CompactAssumption DEF MayCheckpoint
<1>4. /\ task' = [task EXCEPT ![t] = [task[t] EXCEPT !.conv = c, !.scope = c,
                                                     !.active = None, !.status = status]]
      /\ archive' = archive \cup
            {[conv |-> job[j].old, prev |-> job[j].oldScope, job |-> j]}
  BY DEF complete
<1>5. \A q \in RequestIds : req'[q].task = req[q].task
  <2>1. \A q \in RequestIds : req[q] \in RequestRow
    BY DEF TypeOK
  <2>2. \A q \in RequestIds :
           \/ req'[q] = req[q]
           \/ req'[q] = [req[q] EXCEPT !.obsolete = TRUE,
                 !.status = IF req[q].status \in Working THEN "stopped" ELSE req[q].status]
    BY DEF complete
  <2>3. QED BY <2>1, <2>2 DEF RequestRow
<1>6. task[t].status # "absent" => status # "absent"
  OBVIOUS
<1> HIDE DEF t, c, status
<1>7. /\ \A u \in Tasks : task'[u].conv = IF u = t THEN c ELSE task[u].conv
      /\ \A u \in Tasks \ {t} : task'[u] = task[u]
      /\ task'[t].status = status
  BY <1>1, <1>4 DEF TypeOK, TaskRow
<1>8. Moves(j, c)
  BY <1>1, <1>2, <1>3, <1>4, <1>7 DEF Moves, ensure_destination, t, c
<1>9. QED BY <1>1, <1>5, <1>6, <1>7, <1>8 DEF t, c

\* A checkpoint keeps all bindings or moves one.
LEMMA CheckpointBinding ==
    ASSUME TypeOK, TypeOK', JobShape, TasksExist, NEW j \in Jobs,
           \/ \E phase \in Phases, handoff \in Opt(Handoffs), dest \in Opt(Convs) :
                 Checkpoint(j, phase, handoff, dest)
           \/ SettleReplacement(j)
    PROVE  BindingStep /\ TasksExist'
<1>1. /\ job[j].phase # "absent"
      /\ \E rev \in Nat, phase \in Phases, handoff \in Opt(Handoffs), dest \in Opt(Convs) :
            compact_checkpoint(j, rev, phase, handoff, dest)
  BY CheckpointCases
<1>2. PICK rev \in Nat, phase \in Phases, handoff \in Opt(Handoffs), dest \in Opt(Convs) :
            compact_checkpoint(j, rev, phase, handoff, dest)
  BY <1>1
<1>3. CASE UNCHANGED <<task, req, archive>>
  BY <1>3 DEF BindingStep, BindingKept, TasksExist, Exists
<1>4. CASE /\ phase = "completed" /\ job[j].phase = "opening_new_chat"
           /\ MayCheckpoint(j, phase, handoff, dest)
           /\ job' = Advanced(j, phase, handoff, dest)
           /\ job'[j].new \in Convs
           /\ complete(j, job'[j].new)
  <2>1. /\ Moves(j, job'[j].new)
        /\ \A u \in Tasks : task[u].status # "absent" => task'[u].status # "absent"
        /\ \A u \in Tasks \ {job[j].task} : task'[u] = task[u]
        /\ \A q \in RequestIds : req'[q].task = req[q].task
    BY <1>4, CompletionMoves
  <2>2. job[j].task \in Tasks /\ Exists(job[j].task)
    BY <2>1, CompactAssumption DEF Moves, TasksExist
  <2>3. TasksExist'
    BY <2>1, <2>2 DEF TasksExist, Exists, TypeOK, RequestRow, Opt
  <2>4. QED BY <1>4, <2>1, <2>3 DEF BindingStep
<1>5. QED BY <1>1, <1>2, <1>3, <1>4, CheckpointEffect

\* A step that leaves the task and archive rows alone.
LEMMA TaskUntouched ==
    ASSUME TypeOK, TasksExist, UNCHANGED task, UNCHANGED archive, \A q \in RequestIds : req'[q].task = req[q].task
    PROVE  BindingStep /\ TasksExist'
  BY DEF TasksExist, Exists, BindingStep, BindingKept

\* The invariant behind the theorems on bindings.
BindingInv == TypeInv /\ TasksExist /\ SingleOwner

LEMMA EveryStep ==
    ASSUME TypeInv, TasksExist, [Next]_vars
    PROVE  BindingStep /\ TasksExist'
<1>1. TypeOK /\ JobShape /\ TypeOK'
  BY TypeInvStep DEF TypeInv
<1>2. CASE UNCHANGED vars
  BY <1>2 DEF vars, BindingStep, BindingKept, TasksExist, Exists
<1>3. ASSUME NEW r \in RequestIds,
             \/ r \in Requests /\ CreateRequest(r)
             \/ FinalReported(r) \/ ReadUnbound(r) \/ FailUnbound(r)
             \/ SettleFinal(r) \/ StopMessage(r) \/ ClearActive(r)
      PROVE  BindingStep /\ TasksExist'
  <2>1. TasksExist'
    BY <1>1, <1>3, TasksExistRequest
  <2>2. \A t \in Tasks : task[t] \in TaskRow
    BY <1>1 DEF TypeOK
  <2>3. BindingKept
    BY <1>3, <2>2 DEF BindingKept, CreateRequest, FinalReported, ReadUnbound, FailUnbound,
                      SettleFinal, StopMessage, ClearActive, TaskRow
  <2>4. QED BY <2>1, <2>3 DEF BindingStep
<1>4. ASSUME NEW r \in RequestIds, NEW c \in Opt(Convs),
             \/ c \in Convs /\ BridgeIdentity(r, c)
             \/ BrowserCompleted(r, c)
             \/ \E status \in Outcomes : BridgeResult(r, c, status)
      PROVE  BindingStep /\ TasksExist'
  BY <1>1, <1>4, TasksExistCallback, BridgeIdentityBinding, BrowserCompletedBinding,
     BridgeResultBinding
<1>5. ASSUME NEW f \in reports, PersistStarted(f) \/ DropStarted(f)
      PROVE  BindingStep /\ TasksExist'
  <2>1. TasksExist'
    BY <1>1, <1>5, TasksExistStarted
  <2>2. CASE PersistStarted(f)
    BY <1>1, <2>1, <2>2, PersistStartedBinding
  <2>3. CASE DropStarted(f)
    BY <2>1, <2>3 DEF DropStarted, BindingStep, BindingKept
  <2>4. QED BY <1>5, <2>1, <2>2, <2>3
<1>6. ASSUME NEW r \in RequestIds, NEW c \in Convs, ReadStarted(r, c)
      PROVE  BindingStep /\ TasksExist'
  <2>1. UNCHANGED task /\ UNCHANGED req /\ UNCHANGED archive
    BY <1>6 DEF ReadStarted
  <2>2. QED BY <1>1, <2>1, TaskUntouched
<1>7. ASSUME NEW t \in Tasks,
             \/ ReadStop(t) \/ ReadImmediateAllowed(t) \/ QueueImmediate(t)
             \/ ClaimImmediate(t) \/ DemoteImmediate(t)
      PROVE  BindingStep /\ TasksExist'
  <2>1. UNCHANGED task /\ UNCHANGED req /\ UNCHANGED archive
    BY <1>7 DEF ReadStop, ReadImmediateAllowed, QueueImmediate, ClaimImmediate, DemoteImmediate
  <2>2. QED BY <1>1, <2>1, TaskUntouched
<1>8. ASSUME \/ \E t \in Tasks, r \in Requests : ContinueMessage(t, r)
             \/ \E t \in Tasks, r \in Requests, c \in Convs : Enroll(t, r, c)
             \/ \E j \in Jobs : ResumeCompact(j)
             \/ \E t \in Tasks, c \in Convs : McpTask(t, c)
      PROVE  BindingStep /\ TasksExist'
  <2>1. TasksExist'
    BY <1>1, <1>8, TasksExistNew
  <2>2. CASE \E t \in Tasks, r \in Requests, c \in Convs : Enroll(t, r, c)
    BY <1>1, <2>1, <2>2, EnrollBinding DEF TasksExist
  <2>3. \A t \in Tasks : task[t] \in TaskRow
    BY <1>1 DEF TypeOK
  <2>4. CASE \E t \in Tasks, r \in Requests : ContinueMessage(t, r)
    <3>1. BindingKept
      BY <1>1, <2>3, <2>4 DEF BindingKept, ContinueMessage, TypeOK, TaskRow
    <3>2. QED BY <2>1, <3>1 DEF BindingStep
  <2>5. CASE \E j \in Jobs : ResumeCompact(j)
    <3>1. PICK j \in Jobs : ResumeCompact(j)
      BY <2>5
    <3>2. UNCHANGED archive /\ task' = [task EXCEPT ![job[j].task] =
               [task[job[j].task] EXCEPT !.active = ContinueId(j), !.status = "running"]]
      BY <3>1 DEF ResumeCompact
    <3>3. BindingKept
      BY <1>1, <2>3, <3>2 DEF BindingKept, TypeOK, TaskRow
    <3>4. QED BY <2>1, <3>3 DEF BindingStep
  <2>6. CASE \E t \in Tasks, c \in Convs : McpTask(t, c)
    <3>1. BindingKept
      BY <1>1, <2>3, <2>6 DEF BindingKept, McpTask, TypeOK, TaskRow
    <3>2. QED BY <2>1, <3>1 DEF BindingStep
  <2>7. QED BY <1>8, <2>2, <2>4, <2>5, <2>6
<1>9. ASSUME NEW t \in Tasks, NEW j \in Jobs, NEW continue \in BOOLEAN,
             CompactStart(t, j, continue)
      PROVE  BindingStep /\ TasksExist'
  <2>1. \A q \in RequestIds : req[q] \in RequestRow
    BY <1>1 DEF TypeOK
  <2>2. UNCHANGED task /\ UNCHANGED archive /\ \A q \in RequestIds : req'[q].task = req[q].task
    BY <1>9, <2>1 DEF CompactStart, RequestRow
  <2>3. QED BY <1>1, <2>2, TaskUntouched
<1>10. ASSUME NEW j \in Jobs, ReadJob(j)
       PROVE  BindingStep /\ TasksExist'
  <2>1. UNCHANGED task /\ UNCHANGED req /\ UNCHANGED archive
    BY <1>10 DEF ReadJob
  <2>2. QED BY <1>1, <2>1, TaskUntouched
<1>11. ASSUME NEW j \in Jobs,
              \/ \E phase \in Phases, handoff \in Opt(Handoffs), dest \in Opt(Convs) :
                    Checkpoint(j, phase, handoff, dest)
              \/ SettleReplacement(j)
       PROVE  BindingStep /\ TasksExist'
  BY <1>1, <1>11, CheckpointBinding
<1>12. CASE Crash
  <2>1. UNCHANGED task /\ UNCHANGED req /\ UNCHANGED archive
    BY <1>12 DEF Crash
  <2>2. QED BY <1>1, <2>1, TaskUntouched
<1>13. QED
  BY <1>2, <1>3, <1>4, <1>5, <1>6, <1>7, <1>8, <1>9, <1>10, <1>11, <1>12, NextCases

----------------------------------------------------------------------------
\* A binding step keeps conversations with one owner and archived ones with none.
LEMMA SingleOwnerStep ==
    ASSUME SingleOwner, BindingStep
    PROVE  SingleOwner'
<1>1. CASE BindingKept
  BY <1>1 DEF BindingKept, SingleOwner, ArchivedConv
<1>2. CASE \E t \in Tasks, c \in Convs : Binds(t, c)
  BY <1>2 DEF Binds, SingleOwner, ArchivedConv
<1>3. ASSUME NEW j \in Jobs, NEW c \in Convs, Moves(j, c)
      PROVE  SingleOwner'
  <2>1. \A d : ArchivedConv(d)' => ArchivedConv(d) \/ d = job[j].old
    BY <1>3 DEF Moves, ArchivedConv
  <2>2. job[j].old # None /\ job[j].task \in Tasks
    BY <1>3, CompactAssumption DEF Moves
  <2>3. QED BY <1>3, <2>1, <2>2 DEF Moves, SingleOwner
<1>4. QED BY <1>1, <1>2, <1>3 DEF BindingStep

LEMMA BindingInvStep ==
    ASSUME BindingInv, [Next]_vars
    PROVE  BindingInv' /\ BindingStep
  BY TypeInvStep, EveryStep, SingleOwnerStep DEF BindingInv

LEMMA BindingInvInit == Init => BindingInv
  BY TypeInvInit DEF Init, BindingInv, TasksExist, SingleOwner, Exists, NoTask, NoRequest

LEMMA BindingInvariance == Spec => []BindingInv
<1>1. BindingInv /\ [Next]_vars => BindingInv'
  BY BindingInvStep
<1>2. QED BY <1>1, BindingInvInit, PTL DEF Spec

\* No two tasks share a conversation and nobody is ever bound to an archived one.
THEOREM OneOwner == Spec => []SingleOwner
<1>1. BindingInv => SingleOwner
  BY DEF BindingInv
<1>2. QED BY <1>1, BindingInvariance, PTL

\* No handler but the completion of a compact job moves a durable binding.
THEOREM OnlyCompletionMoves == Spec => MovedByCompletion
<1> DEFINE Moved == \A t \in Tasks :
        task[t].conv \in Convs \ Provisional /\ task'[t].conv # task[t].conv =>
          \E j \in Jobs : /\ job[j].phase = "opening_new_chat"
                          /\ job'[j].phase = "completed"
                          /\ job[j].task = t
                          /\ job[j].old = task[t].conv
                          /\ job'[j].new = task'[t].conv
<1>1. BindingInv /\ [Next]_vars => [Moved]_vars
  <2>1. ASSUME BindingStep PROVE Moved
    <3>1. CASE BindingKept
      BY <3>1 DEF BindingKept
    <3>2. CASE \E t \in Tasks, c \in Convs : Binds(t, c)
      BY <3>2, CompactAssumption DEF Binds
    <3>3. CASE \E j \in Jobs, c \in Convs : Moves(j, c)
      BY <3>3 DEF Moves
    <3>4. QED BY <2>1, <3>1, <3>2, <3>3 DEF BindingStep
  <2>2. QED BY <2>1, BindingInvStep
<1>2. QED BY <1>1, BindingInvariance, PTL DEF Spec, MovedByCompletion

\* The rows, jobs and handlers implement the abstract life of a binding.
THEOREM Refinement == Spec => RefinesBinding
<1>1. Init => Binding!Init
  BY DEF Init, Binding!Init, NoTask
<1>2. BindingInv /\ [Next]_vars => [Binding!Next]_(Binding!vars)
  <2> SUFFICES ASSUME BindingInv, BindingStep
               PROVE  [Binding!Next]_(Binding!vars)
    BY BindingInvStep
  <2> DEFINE bound == [t \in Tasks |-> task[t].conv]
             retired == {a.conv : a \in archive}
  <2>1. CASE BindingKept
    <3>1. bound' = bound /\ retired' = retired
      BY <2>1 DEF BindingKept
    <3>2. QED BY <3>1 DEF Binding!vars
  <2>2. ASSUME NEW t \in Tasks, NEW c \in Convs, Binds(t, c)
        PROVE  Binding!Next
    <3>1. bound' = [bound EXCEPT ![t] = c] /\ retired' = retired
      BY <2>2 DEF Binds
    <3>2. c \notin retired /\ \A u \in Tasks : bound[u] # c
      BY <2>2, CompactAssumption DEF Binds, ArchivedConv
    <3>3. Binding!Bind(t, c) \/ Binding!Name(t, c)
      BY <2>2, <3>1, <3>2 DEF Binds, Binding!Bind, Binding!Name, Binding!Free, Binding!Durable
    <3>4. QED BY <3>3 DEF Binding!Next
  <2>3. ASSUME NEW j \in Jobs, NEW c \in Convs, Moves(j, c)
        PROVE  Binding!Next
    <3> DEFINE t == job[j].task
    <3>1. t \in Tasks /\ bound[t] = job[j].old
      BY <2>3 DEF Moves
    <3>2. bound' = [bound EXCEPT ![t] = c] /\ retired' = retired \cup {bound[t]}
      <4>1. /\ \A u \in Tasks : task'[u].conv = IF u = t THEN c ELSE task[u].conv
            /\ archive' = archive \cup
                  {[conv |-> job[j].old, prev |-> job[j].oldScope, job |-> j]}
        BY <2>3 DEF Moves
      <4>2. retired' = retired \cup {job[j].old}
        <5> DEFINE row == [conv |-> job[j].old, prev |-> job[j].oldScope, job |-> j]
        <5>1. row.conv = job[j].old /\ archive' = archive \cup {row}
          BY <4>1
        <5> HIDE DEF row
        <5>2. \A d : d \in retired' <=> d \in retired \/ d = job[j].old
          BY <5>1
        <5>3. QED BY <5>2
      <4> HIDE DEF t
      <4>3. bound' = [bound EXCEPT ![t] = c]
        BY <4>1
      <4>4. QED BY <3>1, <4>2, <4>3
    <3>3. c \notin retired /\ \A u \in Tasks : bound[u] # c
      BY <2>3 DEF Moves, ArchivedConv
    <3>4. Binding!Move(t, c)
      BY <2>3, <3>1, <3>2, <3>3 DEF Moves, Binding!Move, Binding!Free, Binding!Durable
    <3>5. QED BY <3>1, <3>4 DEF Binding!Next
  <2>4. QED BY <2>1, <2>2, <2>3 DEF BindingStep
<1>3. QED BY <1>1, <1>2, BindingInvariance, PTL DEF Spec, RefinesBinding, Binding!Spec

----------------------------------------------------------------------------
(* Requests: which of them work, and for which task.                        *)

\* The request goes on as it is, or ends.
Continues(q) ==
    /\ req'[q].task = req[q].task /\ req'[q].obsolete = req[q].obsolete
    /\ req'[q].status \in Working => req[q].status \in Working
    /\ req'[q].status \in {"queued", "running"} => req'[q].status = req[q].status

\* The request is dispatched, for its task if it has one already: a task that is not
\* compacted, unless a report of the browser brings it along.
Begins(q) ==
    /\ ~req'[q].obsolete
    /\ req[q].task \in {None, req'[q].task}
    /\ \/ req'[q].task = None \/ ~Compacting(req'[q].task)
       \/ req[q].task = None /\ \E f \in reports \ reports' : f.req = q /\ f.cand = req'[q].task

RequestStep ==
    /\ \A q \in RequestIds : Continues(q) \/ Begins(q)
    /\ \A u \in Tasks :
        \/ task'[u].active \in {None, task[u].active}
        \/ \E q \in RequestIds : task'[u].active = q /\ Begins(q) /\ req'[q].task = u

\* The requests of t are retired.
RetireStep(t) ==
    /\ \A q \in RequestIds :
        IF req[q].task = t THEN req'[q].task = t /\ req'[q].status \notin Working
        ELSE req'[q] = req[q]
    /\ task'[t].active = None
    /\ \A u \in Tasks \ {t} : task'[u].active = task[u].active

LEMMA ActiveKept ==
    ASSUME UNCHANGED req, \A u \in Tasks : task'[u].active \in {None, task[u].active}
    PROVE  RequestStep
  BY DEF RequestStep, Continues

\* One request goes on, and no other one is touched.
LEMMA OneContinues ==
    ASSUME TypeOK, NEW r \in RequestIds, NEW row, req' = [req EXCEPT ![r] = row],
           row.task = req[r].task, row.obsolete = req[r].obsolete,
           row.status \in Working => req[r].status \in Working,
           row.status \in {"queued", "running"} => row.status = req[r].status,
           \A u \in Tasks : task'[u].active \in {None, task[u].active}
    PROVE  RequestStep
<1>1. \A q \in RequestIds : req'[q] = IF q = r THEN row ELSE req[q]
  BY DEF TypeOK
<1>2. \A q \in RequestIds : Continues(q)
  BY <1>1 DEF Continues
<1>3. QED BY <1>2 DEF RequestStep

\* The other rows stay as they are.
LEMMA OthersContinue ==
    ASSUME TypeOK, NEW r \in RequestIds, NEW row, req' = [req EXCEPT ![r] = row]
    PROVE  req'[r] = row /\ \A q \in RequestIds \ {r} : Continues(q)
<1>1. \A q \in RequestIds : req'[q] = IF q = r THEN row ELSE req[q]
  BY DEF TypeOK
<1>2. QED BY <1>1 DEF Continues

LEMMA RequestStepBrowser ==
    ASSUME TypeOK, ClosingBound, NEW r \in RequestIds,
           \/ r \in Requests /\ CreateRequest(r)
           \/ FinalReported(r) \/ ReadUnbound(r) \/ FailUnbound(r)
           \/ SettleFinal(r) \/ StopMessage(r) \/ ClearActive(r)
    PROVE  RequestStep
<1>1. req[r] \in RequestRow /\ \A u \in Tasks : task[u] \in TaskRow
  BY DEF TypeOK
<1>2. CASE CreateRequest(r)
  <2>1. req' = [req EXCEPT ![r] = NewRequest("queued", None, None)] /\ UNCHANGED task
    BY <1>2 DEF CreateRequest
  <2>2. req[r].task = None /\ ~NewRequest("queued", None, None).obsolete
    BY <1>2 DEF CreateRequest, ClosingBound, NewRequest
  <2>3. NewRequest("queued", None, None).task = None
    BY NewRequestFields
  <2>4. req'[r] = NewRequest("queued", None, None) /\ \A q \in RequestIds \ {r} : Continues(q)
    BY <2>1, OthersContinue
  <2>5. Begins(r)
    BY <2>2, <2>3, <2>4 DEF Begins
  <2>6. QED BY <2>1, <2>4, <2>5 DEF RequestStep
<1>3. CASE FinalReported(r)
  <2>1. req' = [req EXCEPT ![r] = [req[r] EXCEPT !.final = TRUE]] /\ UNCHANGED task
    BY <1>3 DEF FinalReported
  <2>2. QED BY <1>1, <2>1, OneContinues DEF RequestRow
<1>4. CASE ReadUnbound(r)
  BY <1>4, ActiveKept DEF ReadUnbound
<1>5. CASE FailUnbound(r)
  <2>1. UNCHANGED task /\ (UNCHANGED req \/ req' = [req EXCEPT ![r] = [req[r] EXCEPT !.status = "failed"]])
    BY <1>5 DEF FailUnbound
  <2>2. QED BY <1>1, <2>1, OneContinues, ActiveKept DEF RequestRow, Working
<1>6. CASE SettleFinal(r)
  <2>1. req' = [req EXCEPT ![r] = [req[r] EXCEPT !.status = "completed"]] /\ UNCHANGED task
    BY <1>6 DEF SettleFinal
  <2>2. QED BY <1>1, <2>1, OneContinues DEF RequestRow, Working
<1>7. CASE StopMessage(r)
  <2>1. /\ UNCHANGED task
        /\ \/ UNCHANGED req
           \/ /\ req[r].status \in {"queued", "running"}
              /\ req' = [req EXCEPT ![r] = [req[r] EXCEPT !.status = "stop_requested"]]
    BY <1>7 DEF StopMessage
  <2>2. QED BY <1>1, <2>1, OneContinues, ActiveKept DEF RequestRow, Working
<1>8. CASE ClearActive(r)
  <2>1. UNCHANGED req /\ \A u \in Tasks : task'[u] = task[u] \/ task'[u] = [task[u] EXCEPT !.active = None]
    BY <1>8 DEF ClearActive
  <2>2. \A u \in Tasks : task'[u].active \in {None, task[u].active}
    BY <1>1, <2>1 DEF TaskRow
  <2>3. QED BY <2>1, <2>2, ActiveKept
<1>9. QED BY <1>2, <1>3, <1>4, <1>5, <1>6, <1>7, <1>8

\* The end of a request may clear the pointer of its task.
LEMMA ReleasedActive ==
    ASSUME TypeOK, NEW r, NEW t \in Tasks, NEW c, NEW status,
           \/ task' = [task EXCEPT ![t] = Released(t, r, c)]
           \/ task' = [task EXCEPT ![t] = [Released(t, r, c) EXCEPT !.status = status]]
    PROVE  \A u \in Tasks : task'[u].active \in {None, task[u].active}
<1>1. task[t] \in TaskRow
  BY DEF TypeOK
<1>2. Released(t, r, c).active \in {None, task[t].active}
  BY <1>1 DEF Released, TaskRow
<1>3. [Released(t, r, c) EXCEPT !.status = status].active = Released(t, r, c).active
  BY <1>1 DEF Released, TaskRow
<1> HIDE DEF Released
<1>4. QED BY <1>2, <1>3 DEF TypeOK

LEMMA RequestStepCallback ==
    ASSUME TypeOK, NEW r \in RequestIds, NEW c \in Opt(Convs),
           \/ c \in Convs /\ BridgeIdentity(r, c)
           \/ BrowserCompleted(r, c)
           \/ \E status \in Outcomes : BridgeResult(r, c, status)
    PROVE  RequestStep
<1> DEFINE t == req[r].task
<1>1. req[r] \in RequestRow /\ \A u \in Tasks : task[u] \in TaskRow
  BY DEF TypeOK
<1>2. t \in Tasks
  BY DEF BridgeIdentity, BrowserCompleted, BridgeResult, TypeOK, RequestRow, Opt
<1>3. CASE BridgeIdentity(r, c)
  <2>1. /\ req' = [req EXCEPT ![r] = [req[r] EXCEPT !.conv = c]]
        /\ task' = [task EXCEPT ![t] = [task[t] EXCEPT !.scope = c, !.conv = c]]
    BY <1>3 DEF BridgeIdentity
  <2> HIDE DEF t
  <2>2. \A u \in Tasks : task'[u].active = task[u].active
    BY <1>1, <1>2, <2>1 DEF TypeOK, TaskRow
  <2>3. QED BY <1>1, <2>1, <2>2, OneContinues DEF RequestRow
<1>4. CASE BrowserCompleted(r, c)
  <2> DEFINE conv == IF c = None THEN req[r].conv ELSE c
  <2>1. /\ req' = [req EXCEPT ![r] = [req[r] EXCEPT !.status = "completed", !.final = TRUE, !.conv = conv]]
        /\ task' = [task EXCEPT ![t] =
                    IF Others(t, r) \/ Released(t, r, c).status = "stopped" THEN Released(t, r, c)
                    ELSE [Released(t, r, c) EXCEPT !.status = "completed"]]
    BY <1>4 DEF BrowserCompleted
  <2> HIDE DEF t, conv
  <2>2. \A u \in Tasks : task'[u].active \in {None, task[u].active}
    BY <1>2, <2>1, ReleasedActive
  <2>3. QED BY <1>1, <2>1, <2>2, OneContinues DEF RequestRow, Working
<1>5. ASSUME NEW status \in Outcomes, BridgeResult(r, c, status)
      PROVE  RequestStep
  <2> DEFINE new == IF c \in Provisional THEN None ELSE c
             conv == IF new = None THEN req[r].conv ELSE new
             as == [completed |-> "completed", stopped |-> "interrupted", failed |-> "failed"]
  <2>0. req' = [req EXCEPT ![r] = [req[r] EXCEPT !.status = status, !.conv = conv]]
    BY <1>5 DEF BridgeResult
  <2>1. task' = [task EXCEPT ![t] =
                    IF \/ req[r].final \/ Others(t, r) \/ Released(t, r, new).status = "stopped"
                    THEN Released(t, r, new)
                    ELSE [Released(t, r, new) EXCEPT !.status = as[status]]]
    BY <1>5 DEF BridgeResult
  <2> HIDE DEF t, new, conv, as
  <2>2. \A u \in Tasks : task'[u].active \in {None, task[u].active}
    BY <1>2, <2>1, ReleasedActive
  <2>3. QED BY <1>1, <2>0, <2>2, OneContinues DEF RequestRow, Working, Outcomes
<1>6. QED BY <1>3, <1>4, <1>5

LEMMA RequestStepStarted ==
    ASSUME TypeOK, NEW f \in reports, PersistStarted(f) \/ DropStarted(f)
    PROVE  RequestStep
<1> DEFINE r == f.req
           t == IF req[r].task = None THEN f.cand ELSE req[r].task
           status == IF req[r].status = "stop_requested" THEN req[r].status ELSE "running"
           row == [req[r] EXCEPT !.task = t, !.conv = f.conv, !.status = status]
<1>1. /\ r \in RequestIds /\ f.cand \in Tasks /\ req[r] \in RequestRow
      /\ \A u \in Tasks : task[u] \in TaskRow
  BY DEF TypeOK, Report
<1>2. t \in Tasks
  BY <1>1 DEF RequestRow, Opt
<1>3. CASE PersistStarted(f)
  <2>1. /\ ~req[r].obsolete /\ (req[r].task # None => ~Compacting(req[r].task))
        /\ req' = [req EXCEPT ![r] = row] /\ f \notin reports'
        /\ task' = [task EXCEPT ![t] = [task[t] EXCEPT !.status = "running", !.scope = f.conv,
                                                       !.conv = f.conv, !.active = r]]
    BY <1>3 DEF PersistStarted, guard_callback
  <2>2. row.obsolete = req[r].obsolete /\ row.task = t
    BY <1>1 DEF RequestRow
  <2>3. \/ req[r].task = t /\ ~Compacting(t)
        \/ req[r].task = None /\ t = f.cand
    BY <2>1
  <2> HIDE DEF t, row
  <2>4. \A u \in Tasks : task'[u].active = IF u = t THEN r ELSE task[u].active
    BY <1>1, <1>2, <2>1 DEF TypeOK, TaskRow
  <2>5. req'[r] = row /\ \A q \in RequestIds \ {r} : Continues(q)
    BY <1>1, <2>1, OthersContinue
  <2>6. Begins(r)
    BY <2>1, <2>2, <2>3, <2>5 DEF Begins
  <2>7. QED BY <1>1, <2>2, <2>4, <2>5, <2>6 DEF RequestStep
<1>4. CASE DropStarted(f)
  BY <1>4, ActiveKept DEF DropStarted
<1>5. QED BY <1>3, <1>4

LEMMA RequestStepNew ==
    ASSUME TypeOK, ClosingBound, JobShape,
           \/ \E t \in Tasks, r \in Requests : ContinueMessage(t, r)
           \/ \E t \in Tasks, r \in Requests, c \in Convs : Enroll(t, r, c)
           \/ \E j \in Jobs : ResumeCompact(j)
           \/ \E t \in Tasks, c \in Convs : McpTask(t, c)
    PROVE  RequestStep
<1>1. \A u \in Tasks : task[u] \in TaskRow
  BY DEF TypeOK
<1>2. ASSUME NEW t \in Tasks, NEW r \in RequestIds, NEW c, req[r].status = "absent", ~Compacting(t),
             req' = [req EXCEPT ![r] = NewRequest("queued", t, c)],
             task' = [task EXCEPT ![t] = [task[t] EXCEPT !.active = r, !.status = "running"]]
      PROVE  RequestStep
  <2>1. NewRequest("queued", t, c).task = t /\ ~NewRequest("queued", t, c).obsolete
    BY DEF NewRequest
  <2>2. req[r].task = None
    BY <1>2 DEF ClosingBound
  <2>3. \A u \in Tasks : task'[u].active = IF u = t THEN r ELSE task[u].active
    BY <1>1, <1>2 DEF TypeOK, TaskRow
  <2>4. req'[r] = NewRequest("queued", t, c) /\ \A q \in RequestIds \ {r} : Continues(q)
    BY <1>2, OthersContinue
  <2>5. Begins(r)
    BY <1>2, <2>1, <2>2, <2>4 DEF Begins
  <2>6. QED BY <2>1, <2>3, <2>4, <2>5 DEF RequestStep
<1>3. ASSUME NEW t \in Tasks, NEW r \in Requests, ContinueMessage(t, r)
      PROVE  RequestStep
  BY <1>2, <1>3 DEF ContinueMessage, RequestIds
<1>4. ASSUME NEW j \in Jobs, ResumeCompact(j)
      PROVE  RequestStep
  <2>1. job[j].task \in Tasks /\ ContinueId(j) \in RequestIds
    BY <1>4 DEF ResumeCompact, JobShape, RequestIds
  <2>2. QED BY <1>2, <1>4, <2>1 DEF ResumeCompact
<1>5. ASSUME NEW t \in Tasks, NEW r \in Requests, NEW c \in Convs, Enroll(t, r, c)
      PROVE  RequestStep
  <2>1. /\ req[r].status = "absent" /\ r \in RequestIds
        /\ \A j \in Jobs : Active(j) => job[j].task # t
        /\ req'[r] = NewRequest("running", t, c)
        /\ \A q \in RequestIds \ {r} :
              \/ req'[q] = req[q]
              \/ req'[q] = [req[q] EXCEPT !.status = "stopped"]
    BY <1>5 DEF Enroll, MayInsertRequest, RequestIds
  <2>2. req'[r].task = t /\ ~req'[r].obsolete
    <3>1. NewRequest("running", t, c).task = t /\ ~NewRequest("running", t, c).obsolete
      BY DEF NewRequest
    <3>2. QED BY <2>1, <3>1
  <2>3. req[r].task = None /\ ~Compacting(t)
    BY <2>1 DEF ClosingBound, Compacting
  <2>4. \A q \in RequestIds \ {r} : Continues(q)
    <3>1. \A q \in RequestIds : req[q] \in RequestRow
      BY DEF TypeOK
    <3>2. \A q \in RequestIds : [req[q] EXCEPT !.status = "stopped"].status = "stopped"
                               /\ [req[q] EXCEPT !.status = "stopped"].task = req[q].task
                               /\ [req[q] EXCEPT !.status = "stopped"].obsolete = req[q].obsolete
      BY <3>1 DEF RequestRow
    <3>3. QED BY <2>1, <3>2 DEF Continues, Working
  <2>5. \A u \in Tasks : task'[u].active = IF u = t THEN r ELSE task[u].active
    BY <1>1, <1>5 DEF Enroll, TypeOK, TaskRow
  <2>6. Begins(r)
    BY <2>2, <2>3 DEF Begins
  <2>7. QED BY <2>1, <2>2, <2>4, <2>5, <2>6 DEF RequestStep
<1>6. ASSUME NEW t \in Tasks, NEW c \in Convs, McpTask(t, c)
      PROVE  RequestStep
  <2>1. UNCHANGED req /\ task' = [task EXCEPT ![t] = [task[t] EXCEPT !.status = "running", !.scope = c]]
    BY <1>6 DEF McpTask
  <2>2. \A u \in Tasks : task'[u].active = task[u].active
    BY <1>1, <2>1 DEF TypeOK, TaskRow
  <2>3. QED BY <2>1, <2>2, ActiveKept
<1>7. QED BY <1>3, <1>4, <1>5, <1>6

LEMMA EveryRequestStep ==
    ASSUME TypeInv, [Next]_vars
    PROVE  RequestStep \/ \E t \in Tasks : RetireStep(t)
<1>1. TypeOK /\ ClosingBound /\ JobShape
  BY DEF TypeInv
<1>2. CASE UNCHANGED vars
  BY <1>2, ActiveKept DEF vars
<1>3. ASSUME NEW r \in RequestIds,
             \/ r \in Requests /\ CreateRequest(r)
             \/ FinalReported(r) \/ ReadUnbound(r) \/ FailUnbound(r)
             \/ SettleFinal(r) \/ StopMessage(r) \/ ClearActive(r)
      PROVE  RequestStep
  BY <1>1, <1>3, RequestStepBrowser
<1>4. ASSUME NEW r \in RequestIds, NEW c \in Opt(Convs),
             \/ c \in Convs /\ BridgeIdentity(r, c)
             \/ BrowserCompleted(r, c)
             \/ \E status \in Outcomes : BridgeResult(r, c, status)
      PROVE  RequestStep
  BY <1>1, <1>4, RequestStepCallback
<1>5. ASSUME NEW f \in reports, PersistStarted(f) \/ DropStarted(f)
      PROVE  RequestStep
  BY <1>1, <1>5, RequestStepStarted
<1>6. ASSUME \/ \E t \in Tasks, r \in Requests : ContinueMessage(t, r)
             \/ \E t \in Tasks, r \in Requests, c \in Convs : Enroll(t, r, c)
             \/ \E j \in Jobs : ResumeCompact(j)
             \/ \E t \in Tasks, c \in Convs : McpTask(t, c)
      PROVE  RequestStep
  BY <1>1, <1>6, RequestStepNew
<1>7. ASSUME \/ \E r \in RequestIds, c \in Convs : ReadStarted(r, c)
             \/ \E t \in Tasks : \/ ReadStop(t) \/ ReadImmediateAllowed(t) \/ QueueImmediate(t)
                                 \/ ClaimImmediate(t) \/ DemoteImmediate(t)
             \/ \E j \in Jobs : ReadJob(j)
             \/ Crash
      PROVE  RequestStep
  <2>1. UNCHANGED task /\ UNCHANGED req
    BY <1>7 DEF ReadStarted, ReadStop, ReadImmediateAllowed, QueueImmediate, ClaimImmediate,
                DemoteImmediate, ReadJob, Crash
  <2>2. QED BY <2>1, ActiveKept
<1>8. ASSUME NEW t \in Tasks, NEW j \in Jobs, NEW continue \in BOOLEAN,
             CompactStart(t, j, continue)
      PROVE  RequestStep
  <2>1. \A q \in RequestIds : req[q] \in RequestRow
    BY <1>1 DEF TypeOK
  <2>2. /\ UNCHANGED task
        /\ \A q \in RequestIds :
              \/ req'[q] = req[q]
              \/ /\ req[q].status \in {"queued", "running"}
                 /\ req'[q] = [req[q] EXCEPT !.status = "stop_requested"]
    BY <1>8 DEF CompactStart
  <2>3. \A q \in RequestIds : Continues(q)
    BY <2>1, <2>2 DEF Continues, Working, RequestRow
  <2>4. QED BY <2>2, <2>3 DEF RequestStep
<1>9. ASSUME NEW j \in Jobs,
             \/ \E phase \in Phases, handoff \in Opt(Handoffs), dest \in Opt(Convs) :
                   Checkpoint(j, phase, handoff, dest)
             \/ SettleReplacement(j)
      PROVE  RequestStep \/ \E t \in Tasks : RetireStep(t)
  <2>1. /\ job[j].phase # "absent"
        /\ \E rev \in Nat, phase \in Phases, handoff \in Opt(Handoffs), dest \in Opt(Convs) :
              compact_checkpoint(j, rev, phase, handoff, dest)
    BY <1>1, <1>9, CheckpointCases
  <2>2. PICK rev \in Nat, phase \in Phases, handoff \in Opt(Handoffs), dest \in Opt(Convs) :
              compact_checkpoint(j, rev, phase, handoff, dest)
    BY <2>1
  <2>3. CASE UNCHANGED <<task, req, archive>>
    BY <2>3, ActiveKept
  <2>4. CASE complete(j, job'[j].new)
    <3> DEFINE t == job[j].task
               to == job'[j].new
               status == IF task[t].status = "running" THEN "interrupted" ELSE task[t].status
    <3>1. t \in Tasks /\ \A u \in Tasks : task[u] \in TaskRow
      BY <1>1, <2>1 DEF JobShape, TypeOK
    <3>2. /\ \A q \in RequestIds : req[q].task # t => req'[q] = req[q]
          /\ \A q \in RequestIds : req[q].task = t =>
                req'[q] = [req[q] EXCEPT !.obsolete = TRUE,
                             !.status = IF req[q].status \in Working THEN "stopped" ELSE req[q].status]
          /\ task' = [task EXCEPT ![t] = [task[t] EXCEPT !.conv = to, !.scope = to,
                                                         !.active = None, !.status = status]]
      BY <2>4 DEF complete
    <3> HIDE DEF t, to, status
    <3>3. \A q \in RequestIds :
             IF req[q].task = t THEN req'[q].task = t /\ req'[q].status \notin Working
             ELSE req'[q] = req[q]
      <4>1. \A q \in RequestIds : req[q] \in RequestRow
        BY <1>1 DEF TypeOK
      <4>2. QED BY <3>2, <4>1 DEF RequestRow, Working
    <3>4. /\ task'[t].active = None
          /\ \A u \in Tasks \ {t} : task'[u].active = task[u].active
      BY <1>1, <3>1, <3>2 DEF TypeOK, TaskRow
    <3>5. QED BY <3>1, <3>3, <3>4 DEF RetireStep
  <2>5. QED BY <1>1, <2>1, <2>2, <2>3, <2>4, CheckpointEffect
<1>10. QED
  BY <1>2, <1>3, <1>4, <1>5, <1>6, <1>7, <1>8, <1>9, NextCases

\* The active request of a task is its own and was not retired; a retired one has ended.
Retired ==
    /\ \A t \in Tasks : task[t].active # None =>
          req[task[t].active].task = t /\ ~req[task[t].active].obsolete
    /\ \A r \in RequestIds : req[r].obsolete => req[r].status \notin Working

LEMMA RetiredStep ==
    ASSUME TypeInv, Retired, [Next]_vars
    PROVE  Retired'
<1>1. \A u \in Tasks : task[u].active \in Opt(RequestIds)
  BY DEF TypeInv, TypeOK, TaskRow
<1>2. CASE RequestStep
  <2>1. ASSUME NEW u \in Tasks, task'[u].active # None
        PROVE  req'[task'[u].active].task = u /\ ~req'[task'[u].active].obsolete
    <3>1. CASE \E q \in RequestIds : task'[u].active = q /\ Begins(q) /\ req'[q].task = u
      BY <3>1 DEF Begins
    <3>2. CASE task'[u].active = task[u].active
      <4> DEFINE a == task[u].active
      <4>1. a \in RequestIds /\ req[a].task = u /\ ~req[a].obsolete
        BY <1>1, <2>1, <3>2 DEF Retired, Opt
      <4>2. Continues(a) \/ Begins(a)
        BY <1>2, <4>1 DEF RequestStep
      <4>3. QED BY <3>2, <4>1, <4>2, CompactAssumption DEF Continues, Begins
    <3>3. QED BY <1>2, <2>1, <3>1, <3>2 DEF RequestStep
  <2>2. ASSUME NEW r \in RequestIds, req'[r].obsolete
        PROVE  req'[r].status \notin Working
    BY <1>2, <2>2 DEF RequestStep, Continues, Begins, Retired
  <2>3. QED BY <2>1, <2>2 DEF Retired
<1>3. ASSUME NEW t \in Tasks, RetireStep(t)
      PROVE  Retired'
  <2>1. ASSUME NEW u \in Tasks, task'[u].active # None
        PROVE  req'[task'[u].active].task = u /\ ~req'[task'[u].active].obsolete
    <3>1. u # t /\ task'[u].active = task[u].active
      BY <1>3, <2>1 DEF RetireStep
    <3>2. req'[task[u].active] = req[task[u].active]
      BY <1>1, <1>3, <2>1, <3>1 DEF RetireStep, Retired, Opt
    <3>3. QED BY <2>1, <3>1, <3>2 DEF Retired
  <2>2. ASSUME NEW r \in RequestIds, req'[r].obsolete
        PROVE  req'[r].status \notin Working
    BY <1>3, <2>2 DEF RetireStep, Retired
  <2>3. QED BY <2>1, <2>2 DEF Retired
<1>4. QED BY <1>2, <1>3, EveryRequestStep

\* A request retired by a completed compact never works again, and no task has it as its
\* active one: whatever late callback, stop or settling comes after the completion.
THEOREM RetiredForGood == Spec => []RetiredStaysRetired
<1>1. Init => TypeInv /\ Retired
  BY TypeInvInit DEF Init, Retired, NoTask, NoRequest
<1>2. TypeInv /\ Retired /\ [Next]_vars => (TypeInv /\ Retired)'
  BY TypeInvStep, RetiredStep
<1>3. TypeInv /\ Retired => RetiredStaysRetired
  <2> SUFFICES ASSUME TypeInv, Retired, NEW r \in RequestIds, req[r].obsolete
               PROVE  req[r].status \notin Working /\ \A t \in Tasks : task[t].active # r
    BY DEF RetiredStaysRetired
  <2>1. req[r].status \notin Working
    BY DEF Retired
  <2>2. ASSUME NEW t \in Tasks, task[t].active = r PROVE FALSE
    <3>1. task[t].active # None
      BY <2>2, RequestAssumption
    <3>2. ~req[task[t].active].obsolete
      BY <3>1 DEF Retired
    <3>3. QED BY <2>2, <3>2
  <2>3. QED BY <2>1, <2>2
<1>4. QED BY <1>1, <1>2, <1>3, PTL DEF Spec

----------------------------------------------------------------------------
(* Where a task is: its conversation, its scope, and what its jobs recorded. *)

RowKept(u) ==
    task'[u].conv = task[u].conv /\ task'[u].scope = task[u].scope /\ task'[u].recorder = task[u].recorder

Durable(c) == c \in Convs \ Provisional

\* A callback puts t under the conversation c, ...
Takes(t, c) ==
    /\ guard_conversation_binding(t, c) /\ MayScope(t, c) /\ MayBind(t, c)
    /\ task'[t].conv = c /\ task'[t].scope = c /\ task'[t].recorder = task[t].recorder

\* ... or names its conversation when a request ends, ...
Renames(t, c) ==
    /\ task[t].active # None
    /\ guard_conversation_binding(t, c) /\ MayBind(t, c)
    /\ task'[t].conv = c /\ task'[t].scope = task[t].scope /\ task'[t].recorder = task[t].recorder

\* ... a captured turn binds the task that MCP created for its conversation, ...
Adopts(t, c) ==
    /\ task[t].conv = None /\ task[t].scope = c /\ ~ArchivedConv(c)
    /\ \A u \in Tasks : task[u].conv # c
    /\ task'[t].conv = c /\ task'[t].scope = c /\ task'[t].recorder = task[t].recorder

\* ... or creates one, ...
Creates(t, c) ==
    /\ ~Exists(t) /\ Durable(c) /\ ~ArchivedScope(c)
    /\ \A u \in Tasks : task[u].scope # c /\ task[u].conv # c
    /\ task'[t].conv = c /\ task'[t].scope = c

\* ... as an MCP call does that comes first.
Asks(t, c) ==
    /\ McpFirst /\ ~Exists(t) /\ Durable(c) /\ ~ArchivedScope(c)
    /\ \A u \in Tasks : task[u].scope # c
    /\ task'[t].conv = task[t].conv /\ task'[t].scope = c /\ task'[t].recorder = task[t].recorder

RowStep ==
    \/ \A u \in Tasks : RowKept(u)
    \/ \E t \in Tasks, c \in Convs :
        /\ Takes(t, c) \/ Renames(t, c) \/ Adopts(t, c) \/ Creates(t, c) \/ Asks(t, c)
        /\ \A u \in Tasks \ {t} : RowKept(u)

\* Only a task with a conversation gets an active request.
NamedStep ==
    \A u \in Tasks : task'[u].active # None => task[u].active # None \/ task'[u].conv # None

\* The completion of j takes its task to c.
Completes(j, c) ==
    LET t == job[j].task IN
    /\ Moves(j, c)
    /\ task[t].scope = job[j].oldScope /\ c # job[j].oldScope /\ ~ArchivedScope(c)
    /\ \A u \in Tasks \ {t} : task[u].scope # c
    /\ task'[t].scope = c /\ task'[t].recorder = task[t].recorder /\ task'[t].active = None
    /\ \A u \in Tasks \ {t} : task'[u] = task[u]

JobKept(k) ==
    /\ job'[k].phase = job[k].phase /\ job'[k].task = job[k].task /\ job'[k].new = job[k].new
    /\ job'[k].old = job[k].old /\ job'[k].oldScope = job[k].oldScope

\* An active job goes on or is cancelled.
JobGoesOn(k) ==
    /\ Active(k) /\ job'[k].phase \in Phases \ {"completed"}
    /\ job'[k].task = job[k].task
    /\ job'[k].old = job[k].old /\ job'[k].oldScope = job[k].oldScope

JobsGoOn == \A k \in Jobs : JobKept(k) \/ JobGoesOn(k)

PlaceStep ==
    \/ RowStep /\ NamedStep /\ JobsGoOn /\ UNCHANGED archive
    \/ \E t \in Tasks, j \in Jobs, continue \in BOOLEAN : CompactStart(t, j, continue)
    \/ \E j \in Jobs, c \in Convs :
        /\ Completes(j, c)
        /\ \A k \in Jobs \ {j} : JobKept(k)
        /\ job'[j].task = job[j].task /\ job'[j].old = job[j].old /\ job'[j].oldScope = job[j].oldScope

LEMMA RowsKept ==
    ASSUME \A u \in Tasks : RowKept(u) /\ task'[u].active \in {None, task[u].active},
           UNCHANGED job, UNCHANGED archive
    PROVE  PlaceStep
  BY DEF PlaceStep, RowStep, NamedStep, JobsGoOn, JobKept

LEMMA TaskKept ==
    ASSUME UNCHANGED task, UNCHANGED job, UNCHANGED archive
    PROVE  PlaceStep
  BY RowsKept DEF RowKept

LEMMA PlaceStepStarted ==
    ASSUME TypeOK, NEW f \in reports, PersistStarted(f) \/ DropStarted(f)
    PROVE  PlaceStep
<1> DEFINE r == f.req
           c == f.conv
           t == IF req[r].task = None THEN f.cand ELSE req[r].task
<1>1. r \in RequestIds /\ c \in Convs /\ f.cand \in Tasks /\ req[r] \in RequestRow
  BY DEF TypeOK, Report
<1>2. t \in Tasks /\ c # None
  BY <1>1, CompactAssumption DEF RequestRow, Opt
<1>3. CASE PersistStarted(f)
  <2>1. /\ guard_conversation_binding(t, c) /\ MayScope(t, c) /\ MayBind(t, c)
        /\ UNCHANGED archive /\ UNCHANGED job
        /\ task' = [task EXCEPT ![t] = [task[t] EXCEPT !.status = "running", !.scope = c,
                                                       !.conv = c, !.active = r]]
    BY <1>3 DEF PersistStarted
  <2> HIDE DEF r, c, t
  <2>2. /\ task'[t].conv = c /\ task'[t].scope = c /\ task'[t].recorder = task[t].recorder
        /\ \A u \in Tasks \ {t} : task'[u] = task[u]
    BY <1>2, <2>1 DEF TypeOK, TaskRow
  <2>3. Takes(t, c) /\ \A u \in Tasks \ {t} : RowKept(u)
    BY <2>1, <2>2 DEF Takes, RowKept
  <2>4. NamedStep
    BY <1>2, <2>2 DEF NamedStep
  <2>5. QED BY <1>1, <1>2, <2>1, <2>3, <2>4 DEF PlaceStep, RowStep, JobsGoOn, JobKept
<1>4. CASE DropStarted(f)
  BY <1>4, TaskKept DEF DropStarted
<1>5. QED BY <1>3, <1>4

\* What the end of a request does to the row of its task.
LEMMA PlaceStepReleased ==
    ASSUME TypeOK, NEW r \in RequestIds, NEW t \in Tasks, NEW c \in Opt(Convs), NEW status,
           guard_conversation_binding(t, c), UNCHANGED archive, UNCHANGED job,
           c # None /\ task[t].active = r => MayBind(t, c),
           \/ task' = [task EXCEPT ![t] = Released(t, r, c)]
           \/ task' = [task EXCEPT ![t] = [Released(t, r, c) EXCEPT !.status = status]]
    PROVE  PlaceStep
<1> DEFINE row == Released(t, r, c)
<1>1. task[t] \in TaskRow /\ row \in TaskRow
  BY ReleasedType DEF TypeOK
<1>2. /\ row.conv = IF task[t].active # r \/ c = None THEN task[t].conv ELSE c
      /\ row.active \in {None, task[t].active}
      /\ row.scope = task[t].scope /\ row.recorder = task[t].recorder
  BY <1>1 DEF Released, TaskRow
<1> HIDE DEF row
<1>3. /\ \A u \in Tasks \ {t} : task'[u] = task[u]
      /\ task'[t].conv = row.conv /\ task'[t].active = row.active
      /\ task'[t].scope = row.scope /\ task'[t].recorder = row.recorder
  <2>1. \/ task' = [task EXCEPT ![t] = row]
        \/ task' = [task EXCEPT ![t] = [row EXCEPT !.status = status]]
    BY DEF row
  <2>2. QED BY <1>1, <2>1 DEF TypeOK, TaskRow
<1>4. CASE task[t].active # r \/ c = None
  <2>1. \A u \in Tasks : RowKept(u) /\ task'[u].active \in {None, task[u].active}
    BY <1>2, <1>3, <1>4 DEF RowKept
  <2>2. QED BY <2>1, RowsKept
<1>5. CASE task[t].active = r /\ c # None
  <2>1. c \in Convs /\ MayBind(t, c)
    BY <1>5 DEF Opt
  <2>2. Renames(t, c) /\ \A u \in Tasks \ {t} : RowKept(u)
    BY <1>2, <1>3, <1>5, <2>1, RequestAssumption DEF Renames, RowKept
  <2>3. NamedStep
    BY <1>2, <1>3 DEF NamedStep
  <2>4. QED BY <2>1, <2>2, <2>3 DEF PlaceStep, RowStep, JobsGoOn, JobKept
<1>6. QED BY <1>4, <1>5

LEMMA PlaceStepCallback ==
    ASSUME TypeOK, NEW r \in RequestIds, NEW c \in Opt(Convs),
           \/ c \in Convs /\ BridgeIdentity(r, c)
           \/ BrowserCompleted(r, c)
           \/ \E status \in Outcomes : BridgeResult(r, c, status)
    PROVE  PlaceStep
<1> DEFINE t == req[r].task
<1>1. t \in Tasks
  BY DEF BridgeIdentity, BrowserCompleted, BridgeResult, TypeOK, RequestRow, Opt
<1>2. CASE c \in Convs /\ BridgeIdentity(r, c)
  <2>1. /\ guard_conversation_binding(t, c) /\ MayScope(t, c) /\ MayBind(t, c)
        /\ UNCHANGED archive /\ UNCHANGED job
        /\ task' = [task EXCEPT ![t] = [task[t] EXCEPT !.scope = c, !.conv = c]]
    BY <1>2 DEF BridgeIdentity
  <2> HIDE DEF t
  <2>2. /\ task'[t].conv = c /\ task'[t].scope = c /\ task'[t].recorder = task[t].recorder
        /\ task'[t].active = task[t].active
        /\ \A u \in Tasks \ {t} : task'[u] = task[u]
    BY <1>1, <2>1 DEF TypeOK, TaskRow
  <2>3. Takes(t, c) /\ \A u \in Tasks \ {t} : RowKept(u)
    BY <2>1, <2>2 DEF Takes, RowKept
  <2>4. NamedStep
    BY <2>2 DEF NamedStep
  <2>5. QED BY <1>1, <1>2, <2>1, <2>3, <2>4 DEF PlaceStep, RowStep, JobsGoOn, JobKept
<1>3. CASE BrowserCompleted(r, c)
  <2>1. /\ guard_conversation_binding(t, c) /\ UNCHANGED archive /\ UNCHANGED job
        /\ c # None /\ task[t].active = r => MayBind(t, c)
        /\ task' = [task EXCEPT ![t] =
                      IF Others(t, r) \/ Released(t, r, c).status = "stopped" THEN Released(t, r, c)
                      ELSE [Released(t, r, c) EXCEPT !.status = "completed"]]
    BY <1>3 DEF BrowserCompleted
  <2> HIDE DEF t
  <2>2. \/ task' = [task EXCEPT ![t] = Released(t, r, c)]
        \/ task' = [task EXCEPT ![t] = [Released(t, r, c) EXCEPT !.status = "completed"]]
    BY <2>1
  <2>3. QED BY <1>1, <2>1, <2>2, PlaceStepReleased
<1>4. ASSUME NEW status \in Outcomes, BridgeResult(r, c, status)
      PROVE  PlaceStep
  <2> DEFINE new == IF c \in Provisional THEN None ELSE c
             as  == [completed |-> "completed", stopped |-> "interrupted", failed |-> "failed"]
  <2>1. new \in Opt(Convs)
    BY DEF Opt
  <2>2. /\ guard_conversation_binding(t, new) /\ UNCHANGED archive /\ UNCHANGED job
        /\ new # None /\ task[t].active = r => MayBind(t, new)
        /\ task' = [task EXCEPT ![t] =
                      IF \/ req[r].final \/ Others(t, r) \/ Released(t, r, new).status = "stopped"
                      THEN Released(t, r, new)
                      ELSE [Released(t, r, new) EXCEPT !.status = as[status]]]
    BY <1>4 DEF BridgeResult
  <2> HIDE DEF t, new, as
  <2>3. \/ task' = [task EXCEPT ![t] = Released(t, r, new)]
        \/ task' = [task EXCEPT ![t] = [Released(t, r, new) EXCEPT !.status = as[status]]]
    BY <2>2
  <2>4. QED BY <1>1, <2>1, <2>2, <2>3, PlaceStepReleased
<1>5. QED BY <1>2, <1>3, <1>4

LEMMA PlaceStepEnroll ==
    ASSUME TypeOK, NEW t \in Tasks, NEW r \in Requests, NEW c \in Convs \ Provisional, Enroll(t, r, c)
    PROVE  PlaceStep
<1> DEFINE bound == IF \E u \in Tasks : task[u].conv = c
                    THEN {u \in Tasks : task[u].conv = c}
                    ELSE {u \in Tasks : task[u].scope = c}
           created == [status |-> "running", scope |-> c, conv |-> c,
                       active |-> r, recorder |-> TRUE]
           adopted == [task[t] EXCEPT
                          !.conv = IF task[t].conv = None THEN c ELSE task[t].conv,
                          !.active = r,
                          !.status = IF task[t].status = "stopped" THEN "stopped"
                                     ELSE "running"]
<1>1. /\ UNCHANGED archive /\ UNCHANGED job /\ ~ArchivedConv(c)
      /\ IF bound # {} THEN t \in bound ELSE FreshTask(t, r, c) /\ ~ArchivedScope(c)
      /\ task' = [task EXCEPT ![t] = IF bound = {} THEN created ELSE adopted]
  BY DEF Enroll, guard_native
<1>2. task[t] \in TaskRow /\ c # None /\ c \in Convs
  BY CompactAssumption DEF TypeOK
<1>3. /\ created.conv = c /\ created.scope = c
      /\ adopted.conv = IF task[t].conv = None THEN c ELSE task[t].conv
      /\ adopted.scope = task[t].scope /\ adopted.recorder = task[t].recorder
  BY <1>2 DEF TaskRow
<1>4. CASE bound = {}
  <2>1. \A u \in Tasks : task[u].scope # c /\ task[u].conv # c
    BY <1>4
  <2>2. ~Exists(t) /\ ~ArchivedScope(c)
    BY <1>1, <1>4 DEF FreshTask
  <2>3. task' = [task EXCEPT ![t] = created]
    BY <1>1, <1>4
  <2> HIDE DEF created, adopted, bound
  <2>4. task'[t] = created /\ \A u \in Tasks \ {t} : task'[u] = task[u]
    BY <1>2, <2>3 DEF TypeOK
  <2>5. Creates(t, c) /\ \A u \in Tasks \ {t} : RowKept(u)
    BY <1>2, <1>3, <2>1, <2>2, <2>4 DEF Creates, Durable, RowKept
  <2>6. NamedStep
    BY <1>2, <1>3, <2>4 DEF NamedStep
  <2>7. QED BY <1>1, <1>2, <2>5, <2>6 DEF PlaceStep, RowStep, JobsGoOn, JobKept
<1>5. CASE bound # {}
  <2>1. t \in bound /\ task' = [task EXCEPT ![t] = adopted]
    BY <1>1, <1>5
  <2>2. task[t].conv = None => task[t].scope = c /\ \A u \in Tasks : task[u].conv # c
    BY <1>2, <2>1
  <2> HIDE DEF created, adopted, bound
  <2>3. task'[t] = adopted /\ \A u \in Tasks \ {t} : task'[u] = task[u]
    BY <1>2, <2>1 DEF TypeOK
  <2>4. NamedStep
    BY <1>2, <1>3, <2>3 DEF NamedStep
  <2>5. CASE task[t].conv = None
    <3>1. Adopts(t, c) /\ \A u \in Tasks \ {t} : RowKept(u)
      BY <1>1, <1>3, <2>2, <2>3, <2>5 DEF Adopts, RowKept
    <3>2. QED BY <1>1, <1>2, <2>4, <3>1 DEF PlaceStep, RowStep, JobsGoOn, JobKept
  <2>6. CASE task[t].conv # None
    <3>1. \A u \in Tasks : RowKept(u)
      BY <1>3, <2>3, <2>6 DEF RowKept
    <3>2. QED BY <1>1, <2>4, <3>1 DEF PlaceStep, RowStep, JobsGoOn, JobKept
  <2>7. QED BY <2>5, <2>6
<1>6. QED BY <1>4, <1>5

LEMMA PlaceStepNew ==
    ASSUME TypeOK, JobShape,
           \/ \E t \in Tasks, r \in Requests : ContinueMessage(t, r)
           \/ \E j \in Jobs : ResumeCompact(j)
           \/ \E t \in Tasks, c \in Convs \ Provisional : McpTask(t, c)
    PROVE  PlaceStep
<1>1. \A u \in Tasks : task[u] \in TaskRow
  BY DEF TypeOK
<1>2. ASSUME NEW t \in Tasks, NEW r, task[t].conv # None, UNCHANGED archive, UNCHANGED job,
             task' = [task EXCEPT ![t] = [task[t] EXCEPT !.active = r, !.status = "running"]]
      PROVE  PlaceStep
  <2>1. /\ task'[t].conv = task[t].conv /\ task'[t].scope = task[t].scope
        /\ task'[t].recorder = task[t].recorder
        /\ \A u \in Tasks \ {t} : task'[u] = task[u]
    BY <1>1, <1>2 DEF TypeOK, TaskRow
  <2>2. (\A u \in Tasks : RowKept(u)) /\ NamedStep
    BY <1>2, <2>1 DEF RowKept, NamedStep
  <2>3. QED BY <1>2, <2>2 DEF PlaceStep, RowStep, JobsGoOn, JobKept
<1>3. ASSUME NEW t \in Tasks, NEW r \in Requests, ContinueMessage(t, r)
      PROVE  PlaceStep
  BY <1>2, <1>3 DEF ContinueMessage
<1>4. ASSUME NEW j \in Jobs, ResumeCompact(j)
      PROVE  PlaceStep
  <2>1. job[j].task \in Tasks /\ job[j].new # None
    BY <1>4 DEF ResumeCompact, JobShape
  <2>2. QED BY <1>2, <1>4, <2>1 DEF ResumeCompact
<1>5. ASSUME NEW t \in Tasks, NEW c \in Convs \ Provisional, McpTask(t, c)
      PROVE  PlaceStep
  <2>1. /\ McpFirst /\ ~Exists(t) /\ ~ArchivedScope(c) /\ \A u \in Tasks : task[u].scope # c
        /\ UNCHANGED archive /\ UNCHANGED job
        /\ task' = [task EXCEPT ![t] = [task[t] EXCEPT !.status = "running", !.scope = c]]
    BY <1>5, ZenonT(40) DEF McpTask, FreshTask, MayScope
  <2>2. /\ task'[t].conv = task[t].conv /\ task'[t].scope = c /\ task'[t].active = task[t].active
        /\ task'[t].recorder = task[t].recorder
        /\ \A u \in Tasks \ {t} : task'[u] = task[u]
    BY <1>1, <2>1 DEF TypeOK, TaskRow
  <2>3. Asks(t, c) /\ \A u \in Tasks \ {t} : RowKept(u)
    BY <2>1, <2>2 DEF Asks, Durable, RowKept
  <2>4. NamedStep
    BY <2>2 DEF NamedStep
  <2>5. QED BY <2>1, <2>3, <2>4 DEF PlaceStep, RowStep, JobsGoOn, JobKept
<1>6. QED BY <1>3, <1>4, <1>5

LEMMA PlaceStepCheckpoint ==
    ASSUME TypeOK, JobShape, NEW j \in Jobs,
           \/ \E phase \in Phases, handoff \in Opt(Handoffs), dest \in Opt(Convs) :
                 Checkpoint(j, phase, handoff, dest)
           \/ SettleReplacement(j)
    PROVE  PlaceStep
<1>1. /\ job[j].phase # "absent"
      /\ \E rev \in Nat, phase \in Phases, handoff \in Opt(Handoffs), dest \in Opt(Convs) :
            compact_checkpoint(j, rev, phase, handoff, dest)
  BY CheckpointCases
<1>2. PICK rev \in Nat, phase \in Phases, handoff \in Opt(Handoffs), dest \in Opt(Convs) :
            compact_checkpoint(j, rev, phase, handoff, dest)
  BY <1>1
<1>3. job[j].phase \in Phases
  BY <1>1 DEF TypeOK, JobRow
<1>4. CASE job[j].phase \in Terminal
  <2>1. job' = [job EXCEPT ![j].rev = @ + 1] /\ UNCHANGED <<task, req, archive>>
    BY <1>2, <1>4 DEF compact_checkpoint
  <2>2. \A k \in Jobs : JobKept(k)
    BY <2>1, DetailFields DEF JobKept
  <2>3. QED BY <2>1, <2>2 DEF PlaceStep, RowStep, RowKept, NamedStep, JobsGoOn
<1>5. CASE job[j].phase \notin Terminal /\ phase # "completed"
  <2>1. job' = Advanced(j, phase, handoff, dest) /\ UNCHANGED <<task, req, archive>>
    BY <1>2, <1>5 DEF compact_checkpoint
  <2>2. JobGoesOn(j) /\ \A k \in Jobs \ {j} : JobKept(k)
    BY <1>3, <1>5, <2>1, AdvancedFields DEF JobGoesOn, JobKept, Active
  <2>3. QED BY <2>1, <2>2 DEF PlaceStep, RowStep, RowKept, NamedStep, JobsGoOn
<1>6. CASE job[j].phase \notin Terminal /\ phase = "completed"
  <2> DEFINE t == job[j].task
             c == job'[j].new
             status == IF task[t].status = "running" THEN "interrupted" ELSE task[t].status
  <2>1. /\ MayCheckpoint(j, "completed", handoff, dest)
        /\ job' = Advanced(j, "completed", handoff, dest)
        /\ job[j].phase = "opening_new_chat"
        /\ complete(j, IF dest = None THEN job[j].new ELSE dest)
    BY <1>2, <1>6 DEF compact_checkpoint, MayCheckpoint
  <2>2. c = IF dest = None THEN job[j].new ELSE dest
    BY <1>6, <2>1, AdvancedFields
  <2>3. c \in Convs
    BY <2>1, <2>2 DEF MayCheckpoint, TypeOK, JobRow, Opt
  <2>4. complete(j, c) /\ t \in Tasks /\ task[t] \in TaskRow
    BY <1>1, <2>1, <2>2 DEF JobShape, TypeOK
  <2>5. Moves(j, c) /\ \A u \in Tasks \ {t} : task'[u] = task[u]
    BY <2>1, <2>3, <2>4, CompletionMoves
  <2>6. task[t].scope = job[j].oldScope /\ ensure_destination(j, c)
    BY <2>1, <2>2, <2>3, CompactAssumption DEF MayCheckpoint
  <2>7. /\ c # job[j].oldScope /\ ~ArchivedScope(c)
        /\ task' = [task EXCEPT ![t] = [task[t] EXCEPT !.conv = c, !.scope = c,
                                                       !.active = None, !.status = status]]
    BY <2>4 DEF complete
  <2> HIDE DEF c, status
  <2>8. task'[t].scope = c /\ task'[t].recorder = task[t].recorder /\ task'[t].active = None
    <3> HIDE DEF t
    <3>1. QED BY <2>4, <2>7 DEF TypeOK, TaskRow
  <2>9. Completes(j, c)
    BY <2>5, <2>6, <2>7, <2>8 DEF Completes, ensure_destination
  <2>10. /\ \A k \in Jobs \ {j} : JobKept(k)
         /\ job'[j].task = job[j].task /\ job'[j].old = job[j].old /\ job'[j].oldScope = job[j].oldScope
    BY <1>6, <2>1, AdvancedFields DEF JobKept
  <2>11. QED BY <2>3, <2>9, <2>10 DEF PlaceStep
<1>7. QED BY <1>4, <1>5, <1>6

LEMMA EveryPlaceStep ==
    ASSUME TypeInv, [Next]_vars
    PROVE  PlaceStep
<1>1. TypeOK /\ ClosingBound /\ JobShape
  BY DEF TypeInv
<1>2. CASE UNCHANGED vars
  BY <1>2, TaskKept DEF vars
<1>3. ASSUME NEW r \in RequestIds,
             \/ r \in Requests /\ CreateRequest(r)
             \/ FinalReported(r) \/ ReadUnbound(r) \/ FailUnbound(r)
             \/ SettleFinal(r) \/ StopMessage(r) \/ ClearActive(r)
      PROVE  PlaceStep
  <2>1. CASE ClearActive(r)
    <3>1. /\ UNCHANGED job /\ UNCHANGED archive
          /\ \A u \in Tasks : task'[u] = task[u] \/ task'[u] = [task[u] EXCEPT !.active = None]
      BY <2>1 DEF ClearActive
    <3>2. \A u \in Tasks : task[u] \in TaskRow
      BY <1>1 DEF TypeOK
    <3>3. \A u \in Tasks : RowKept(u) /\ task'[u].active \in {None, task[u].active}
      BY <3>1, <3>2 DEF RowKept, TaskRow
    <3>4. QED BY <3>1, <3>3, RowsKept
  <2>2. CASE ~ClearActive(r)
    <3>1. UNCHANGED task /\ UNCHANGED job /\ UNCHANGED archive
      BY <1>3, <2>2 DEF CreateRequest, FinalReported, ReadUnbound, FailUnbound, SettleFinal, StopMessage
    <3>2. QED BY <3>1, TaskKept
  <2>3. QED BY <2>1, <2>2
<1>4. ASSUME NEW r \in RequestIds, NEW c \in Opt(Convs),
             \/ c \in Convs /\ BridgeIdentity(r, c)
             \/ BrowserCompleted(r, c)
             \/ \E status \in Outcomes : BridgeResult(r, c, status)
      PROVE  PlaceStep
  BY <1>1, <1>4, PlaceStepCallback
<1>5. ASSUME NEW f \in reports, PersistStarted(f) \/ DropStarted(f)
      PROVE  PlaceStep
  BY <1>1, <1>5, PlaceStepStarted
<1>6. ASSUME \/ \E t \in Tasks, r \in Requests : ContinueMessage(t, r)
             \/ \E j \in Jobs : ResumeCompact(j)
             \/ \E t \in Tasks, c \in Convs \ Provisional : McpTask(t, c)
      PROVE  PlaceStep
  BY <1>1, <1>6, PlaceStepNew
<1>7. ASSUME NEW t \in Tasks, NEW r \in Requests, NEW c \in Convs \ Provisional, Enroll(t, r, c)
      PROVE  PlaceStep
  BY <1>1, <1>7, PlaceStepEnroll
<1>8. ASSUME \/ \E r \in RequestIds, c \in Convs : ReadStarted(r, c)
             \/ \E t \in Tasks : \/ ReadStop(t) \/ ReadImmediateAllowed(t) \/ QueueImmediate(t)
                                 \/ ClaimImmediate(t) \/ DemoteImmediate(t)
             \/ \E j \in Jobs : ReadJob(j)
             \/ Crash
      PROVE  PlaceStep
  <2>1. UNCHANGED task /\ UNCHANGED job /\ UNCHANGED archive
    BY <1>8 DEF ReadStarted, ReadStop, ReadImmediateAllowed, QueueImmediate, ClaimImmediate,
                DemoteImmediate, ReadJob, Crash
  <2>2. QED BY <2>1, TaskKept
<1>9. ASSUME NEW t \in Tasks, NEW j \in Jobs, NEW continue \in BOOLEAN,
             CompactStart(t, j, continue)
      PROVE  PlaceStep
  BY <1>9 DEF PlaceStep
<1>10. ASSUME NEW j \in Jobs,
              \/ \E phase \in Phases, handoff \in Opt(Handoffs), dest \in Opt(Convs) :
                    Checkpoint(j, phase, handoff, dest)
              \/ SettleReplacement(j)
       PROVE  PlaceStep
  BY <1>1, <1>10, PlaceStepCheckpoint
<1>11. QED
  BY <1>2, <1>3, <1>4, <1>5, <1>6, <1>7, <1>8, <1>9, <1>10, NextCases

\* A task is compacted by one job at a time.
OneJob ==
    \A j, k \in Jobs : Active(j) /\ Active(k) /\ job[j].task = job[k].task => j = k

\* What a compact job starts with.
LEMMA StartFields ==
    ASSUME TypeOK, NEW t \in Tasks, NEW j \in Jobs, NEW continue \in BOOLEAN, CompactStart(t, j, continue)
    PROVE  /\ UNCHANGED task /\ UNCHANGED archive /\ ~Compacting(t)
           /\ job[j].phase = "absent" /\ job'[j].phase = "preparing"
           /\ job'[j].task = t /\ job'[j].old = task[t].conv /\ job'[j].oldScope = task[t].scope
           /\ \A k \in Jobs \ {j} : job'[k] = job[k]
  BY DEF CompactStart, TypeOK

\* A job that is still active was active and has its task and source.
LEMMA StillActive ==
    ASSUME JobsGoOn, NEW k \in Jobs, Active(k)'
    PROVE  /\ Active(k) /\ job'[k].task = job[k].task
           /\ job'[k].old = job[k].old /\ job'[k].oldScope = job[k].oldScope
  BY DEF JobsGoOn, JobKept, JobGoesOn, Active

LEMMA OneJobStep ==
    ASSUME TypeOK, OneJob, PlaceStep
    PROVE  OneJob'
<1>1. CASE JobsGoOn
  BY <1>1, StillActive DEF OneJob
<1>2. ASSUME NEW t \in Tasks, NEW j \in Jobs, NEW continue \in BOOLEAN, CompactStart(t, j, continue)
      PROVE  OneJob'
  BY <1>2, StartFields DEF OneJob, Active, Compacting
<1>3. ASSUME NEW j \in Jobs, NEW c \in Convs, Completes(j, c), \A k \in Jobs \ {j} : JobKept(k)
      PROVE  OneJob'
  <2>1. \A k \in Jobs : Active(k)' => k # j /\ Active(k) /\ job'[k].task = job[k].task
    BY <1>3 DEF Completes, Moves, JobKept, Active, Terminal
  <2>2. QED BY <2>1 DEF OneJob
<1>4. QED BY <1>1, <1>2, <1>3 DEF PlaceStep

LEMMA SourceHeldStep ==
    ASSUME TypeOK, JobShape, TasksExist, OneJob, SourceHeld, PlaceStep
    PROVE  SourceHeld'
<1>1. ASSUME RowStep, JobsGoOn, NEW j \in Jobs, Active(j)'
      PROVE  task'[job'[j].task].conv = job'[j].old /\ task'[job'[j].task].scope = job'[j].oldScope
  <2> DEFINE t == job[j].task
  <2>1. /\ Active(j) /\ job'[j].task = t
        /\ job'[j].old = job[j].old /\ job'[j].oldScope = job[j].oldScope
    BY <1>1, StillActive
  <2>2. /\ t \in Tasks /\ task[t].conv = job[j].old /\ task[t].scope = job[j].oldScope
        /\ job[j].old \in Convs
    BY <2>1 DEF SourceHeld, JobShape, Active, Phases
  <2>3. Exists(t) /\ task[t].conv # None /\ Compacting(t)
    BY <2>1, <2>2, CompactAssumption DEF TasksExist, Compacting
  <2> HIDE DEF t
  <2>4. CASE RowKept(t)
    BY <2>1, <2>2, <2>4 DEF RowKept
  <2>5. ASSUME NEW c \in Convs, Takes(t, c) \/ Renames(t, c) \/ Adopts(t, c) \/ Creates(t, c) \/ Asks(t, c)
        PROVE  RowKept(t)
    BY <2>3, <2>5 DEF Takes, Renames, Adopts, Creates, Asks, MayBind, MayScope, RowKept
  <2>6. QED BY <1>1, <2>2, <2>4, <2>5 DEF RowStep
<1>2. ASSUME NEW t \in Tasks, NEW j \in Jobs, NEW continue \in BOOLEAN, CompactStart(t, j, continue)
      PROVE  SourceHeld'
  BY <1>2, StartFields DEF SourceHeld, Active
<1>3. ASSUME NEW j \in Jobs, NEW c \in Convs, Completes(j, c), \A k \in Jobs \ {j} : JobKept(k)
      PROVE  SourceHeld'
  <2>1. Active(j) /\ ~Active(j)'
    BY <1>3 DEF Completes, Moves, Active, Phases, Terminal
  <2>2. ASSUME NEW k \in Jobs, Active(k)'
        PROVE  task'[job'[k].task].conv = job'[k].old /\ task'[job'[k].task].scope = job'[k].oldScope
    <3>1. k # j /\ Active(k) /\ JobKept(k)
      BY <1>3, <2>1, <2>2 DEF JobKept, Active
    <3>2. job[k].task # job[j].task /\ job[k].task \in Tasks
      BY <2>1, <3>1 DEF OneJob, JobShape, Active, Phases
    <3>3. QED BY <1>3, <3>1, <3>2 DEF Completes, JobKept, SourceHeld
  <2>3. QED BY <2>2 DEF SourceHeld
<1>4. QED BY <1>1, <1>2, <1>3 DEF PlaceStep, SourceHeld

\* The conversation a completed job attached is a durable one of an existing task.
LEMMA CompletedFields ==
    ASSUME TypeOK, JobShape, NEW j \in Completed
    PROVE  job[j].task \in Tasks /\ job[j].new \in Convs \ Provisional
  BY DEF TypeOK, JobRow, Opt, JobShape, Completed

\* A callback, a captured turn or an MCP call leaves a durable conversation alone.
LEMMA DurableStays ==
    ASSUME TasksExist, RowStep, NEW t \in Tasks, task[t].conv \in Convs \ Provisional
    PROVE  task'[t].conv = task[t].conv
<1>1. Exists(t) /\ task[t].conv # None
  BY CompactAssumption DEF TasksExist
<1>2. CASE RowKept(t)
  BY <1>2 DEF RowKept
<1>3. ASSUME NEW c \in Convs, Takes(t, c) \/ Renames(t, c) \/ Adopts(t, c) \/ Creates(t, c) \/ Asks(t, c)
      PROVE  task'[t].conv = task[t].conv
  BY <1>1, <1>3, CompactAssumption
     DEF Takes, Renames, Adopts, Creates, Asks, guard_conversation_binding
<1>4. QED BY <1>2, <1>3 DEF RowStep

LEMMA AttachedStep ==
    ASSUME TypeOK, JobShape, TasksExist, Attached, PlaceStep
    PROVE  Attached'
<1>1. ASSUME RowStep, JobsGoOn PROVE Attached'
  <2>1. \A k \in Jobs : k \in Completed' => k \in Completed /\ JobKept(k)
    BY <1>1 DEF JobsGoOn, JobKept, JobGoesOn, Completed
  <2>2. \A k \in Completed : k \in Completed' /\ JobKept(k)
    BY <1>1 DEF JobsGoOn, JobKept, JobGoesOn, Completed, Active, Terminal
  <2>3. ASSUME NEW j \in Jobs, j \in Completed'
        PROVE  \/ task'[job'[j].task].conv = job'[j].new
               \/ \E k \in Completed' : job'[k].task = job'[j].task /\ job'[k].old = job'[j].new
    <3>1. /\ j \in Completed /\ JobKept(j)
          /\ job[j].task \in Tasks /\ job[j].new \in Convs \ Provisional
      BY <2>1, <2>3, CompletedFields
    <3>2. CASE task[job[j].task].conv = job[j].new
      BY <1>1, <3>1, <3>2, DurableStays DEF JobKept
    <3>3. CASE \E k \in Completed : job[k].task = job[j].task /\ job[k].old = job[j].new
      BY <2>2, <3>1, <3>3 DEF JobKept
    <3>4. QED BY <3>1, <3>2, <3>3 DEF Attached
  <2>4. QED BY <2>3 DEF Attached, Completed
<1>2. ASSUME NEW t \in Tasks, NEW j \in Jobs, NEW continue \in BOOLEAN, CompactStart(t, j, continue)
      PROVE  Attached'
  <2>1. /\ UNCHANGED task /\ j \notin Completed /\ j \notin Completed'
        /\ \A k \in Jobs \ {j} : job'[k] = job[k]
    BY <1>2, StartFields DEF Completed
  <2>2. Completed' = Completed
    BY <2>1 DEF Completed
  <2>3. QED BY <2>1, <2>2 DEF Attached, Completed
<1>3. ASSUME NEW j \in Jobs, NEW c \in Convs, Completes(j, c),
             \A k \in Jobs \ {j} : JobKept(k),
             job'[j].task = job[j].task /\ job'[j].old = job[j].old
      PROVE  Attached'
  <2>1. /\ j \in Completed' /\ j \notin Completed /\ job'[j].new = c
        /\ job[j].task \in Tasks /\ task'[job[j].task].conv = c
        /\ task[job[j].task].conv = job[j].old
        /\ \A u \in Tasks \ {job[j].task} : task'[u].conv = task[u].conv
    BY <1>3 DEF Completes, Moves, Completed
  <2>2. Completed' = Completed \cup {j}
    BY <1>3, <2>1 DEF Completed, JobKept
  <2>3. \A k \in Completed : k # j /\ JobKept(k)
    BY <1>3, <2>1 DEF Completed
  <2>4. ASSUME NEW k \in Completed
        PROVE  \/ task'[job'[k].task].conv = job'[k].new
               \/ \E i \in Completed' : job'[i].task = job'[k].task /\ job'[i].old = job'[k].new
    <3>1. JobKept(k) /\ job[k].task \in Tasks
      BY <2>3, <2>4, CompletedFields
    <3>2. CASE task[job[k].task].conv = job[k].new
      BY <1>3, <2>1, <2>2, <3>1, <3>2 DEF JobKept
    <3>3. CASE \E i \in Completed : job[i].task = job[k].task /\ job[i].old = job[k].new
      BY <2>2, <2>3, <3>1, <3>3 DEF JobKept
    <3>4. QED BY <3>1, <3>2, <3>3 DEF Attached
  <2>5. QED BY <1>3, <2>1, <2>2, <2>4 DEF Attached
<1>4. QED BY <1>1, <1>2, <1>3 DEF PlaceStep

PlaceInv == TypeInv /\ TasksExist /\ OneJob /\ SourceHeld /\ Attached

LEMMA PlaceInvariance == Spec => []PlaceInv
<1>1. Init => PlaceInv
  BY TypeInvInit DEF Init, PlaceInv, TasksExist, Exists, NoTask, NoRequest, NoJob, OneJob,
                     SourceHeld, Attached, Active, Completed, Phases
<1>2. ASSUME PlaceInv, [Next]_vars PROVE PlaceInv'
  <2>1. TypeInv /\ TypeOK /\ JobShape
    BY <1>2 DEF PlaceInv, TypeInv
  <2>2. PlaceStep /\ TasksExist' /\ TypeInv'
    BY <1>2, <2>1, EveryPlaceStep, EveryStep, TypeInvStep DEF PlaceInv
  <2>3. QED BY <1>2, <2>1, <2>2, OneJobStep, SourceHeldStep, AttachedStep DEF PlaceInv
<1>3. QED BY <1>1, <1>2, PTL DEF Spec

\* While a job runs its task is at the source it recorded, and what a completed job
\* attached stays attached until a later job of the same task archives it.
THEOREM JobsHoldTheirTask == Spec => [](SourceHeld /\ Attached)
<1>1. PlaceInv => SourceHeld /\ Attached
  BY DEF PlaceInv
<1>2. QED BY <1>1, PlaceInvariance, PTL

----------------------------------------------------------------------------
(* Under which scope a task answers.  Where a conversation is first known by a  *)
(* provisional id, an MCP call under its durable id may create a second task of *)
(* it: scopes are unique, but a scope may be another task's conversation.       *)

\* A task answers to its conversation, or to the provisional id that was its first; ...
ScopeFollows ==
    \A t \in Tasks : task[t].conv # None =>
        \/ task[t].scope = task[t].conv
        \/ task[t].scope \in Provisional /\ task[t].conv \notin Provisional

\* ... one of the recorder to a durable one; ...
RecorderScope ==
    \A t \in Tasks : task[t].recorder => Durable(task[t].conv) /\ task[t].scope = task[t].conv

\* ... and never to the scope of another task.
OwnScope ==
    \A t, u \in Tasks : t # u /\ task[t].scope # None => task[u].scope # task[t].scope

\* Only a task with a conversation has an active request.
Unnamed ==
    \A t \in Tasks : task[t].conv = None => task[t].active = None

Scopes == ScopeFollows /\ RecorderScope /\ OwnScope /\ Unnamed /\ ScopeRetired

\* A row keeps to these rules if every row does that did not change and the changed
\* one is compared with each of them.
LEMMA OneRow ==
    ASSUME Scopes, UNCHANGED archive, NEW t \in Tasks, \A u \in Tasks \ {t} : RowKept(u), NamedStep,
           task'[t].conv # None =>
               \/ task'[t].scope = task'[t].conv
               \/ task'[t].scope \in Provisional /\ task'[t].conv \notin Provisional,
           task'[t].recorder => Durable(task'[t].conv) /\ task'[t].scope = task'[t].conv,
           task'[t].scope # None => \A u \in Tasks \ {t} : task[u].scope # task'[t].scope,
           task'[t].conv = None => task[t].conv = None,
           task'[t].scope # None =>
               \/ ~ArchivedScope(task'[t].scope)
               \/ task'[t].scope = task[t].scope /\ task[t].conv # None /\ task'[t].conv # None
    PROVE  Scopes'
<1>1. ScopeFollows'
  BY DEF Scopes, ScopeFollows, RowKept
<1>2. RecorderScope'
  BY DEF Scopes, RecorderScope, RowKept, Durable
<1>3. OwnScope'
  BY DEF Scopes, OwnScope, RowKept
<1>4. Unnamed'
  BY DEF Scopes, Unnamed, RowKept, NamedStep
<1>5. ScopeRetired'
  BY DEF Scopes, ScopeRetired, RowKept, ArchivedScope
<1>6. QED BY <1>1, <1>2, <1>3, <1>4, <1>5 DEF Scopes

LEMMA TakesScope ==
    ASSUME TypeOK, Scopes, UNCHANGED archive, NEW t \in Tasks, NEW c \in Convs, Takes(t, c),
           \A u \in Tasks \ {t} : RowKept(u), NamedStep
    PROVE  Scopes'
<1>1. c # None
  BY CompactAssumption
<1>2. task[t].recorder => Durable(c) /\ task[t].scope = c
  BY <1>1, CompactAssumption DEF Takes, guard_conversation_binding, Scopes, RecorderScope, Durable
<1>3. ASSUME NEW u \in Tasks \ {t} PROVE task[u].scope # c
  <2>1. task[u].conv # c
    BY DEF Takes, MayBind
  <2>2. CASE task[u].recorder = task[t].recorder
    BY <2>1, <2>2 DEF Takes, MayScope
  <2>3. CASE task[u].recorder
    BY <2>1, <2>3 DEF Scopes, RecorderScope
  <2>4. CASE task[t].recorder
    BY <1>1, <1>2, <2>1, <2>4 DEF Scopes, OwnScope
  <2>5. CASE ~task[u].recorder /\ ~task[t].recorder
    <3>1. task[u] \in TaskRow /\ task[t] \in TaskRow
      BY DEF TypeOK
    <3>2. task[u].recorder = task[t].recorder
      BY <2>5, <3>1 DEF TaskRow
    <3>3. QED BY <2>1, <2>2, <3>2
  <2>6. QED BY <2>3, <2>4, <2>5
<1>4. QED BY <1>1, <1>2, <1>3, OneRow DEF Takes, MayScope

LEMMA RenamesScope ==
    ASSUME Scopes, UNCHANGED archive, NEW t \in Tasks, NEW c \in Convs, Renames(t, c),
           \A u \in Tasks \ {t} : RowKept(u), NamedStep
    PROVE  Scopes'
<1>1. c # None /\ task[t].conv # None
  BY CompactAssumption DEF Renames, Scopes, Unnamed
<1>2. CASE task[t].conv = c
  <2>1. \A u \in Tasks : RowKept(u)
    BY <1>2 DEF Renames, RowKept
  <2>2. QED BY <1>1, <2>1, OneRow DEF RowKept, Scopes, ScopeFollows, RecorderScope, OwnScope,
                                      Unnamed, ScopeRetired
<1>3. CASE task[t].conv # c
  <2>1. task[t].conv \in Provisional /\ c \notin Provisional
    BY <1>1, <1>3 DEF Renames, guard_conversation_binding
  <2>2. task[t].scope \in Provisional /\ ~task[t].recorder
    BY <1>1, <2>1 DEF Scopes, ScopeFollows, RecorderScope, Durable
  <2>3. task[t].scope # None => \A u \in Tasks \ {t} : task[u].scope # task[t].scope
    BY DEF Scopes, OwnScope
  <2>4. QED BY <1>1, <2>1, <2>2, <2>3, OneRow DEF Renames
<1>4. QED BY <1>2, <1>3

\* When a job completes, who else answers to its source was created by an MCP call under
\* the durable id, while the task itself answered to the provisional one.
LEMMA CompletesScope ==
    ASSUME Scopes, SingleOwner, NEW j \in Jobs, NEW c \in Convs, Completes(j, c)
    PROVE  Scopes'
<1> DEFINE t == job[j].task
<1>1. /\ t \in Tasks /\ c # None /\ Durable(c) /\ task'[t].conv = c /\ task'[t].scope = c
      /\ task'[t].active = None /\ \A u \in Tasks \ {t} : task'[u] = task[u]
      /\ \A u \in Tasks \ {t} : task[u].scope # c
      /\ task[t].conv = job[j].old /\ task[t].scope = job[j].oldScope /\ task[t].conv # None
      /\ ~ArchivedScope(c) /\ c # task[t].conv /\ c # task[t].scope
  BY CompactAssumption DEF Completes, Moves, Durable
<1>2. \A a \in archive' : a \in archive \/ (a.conv = task[t].conv /\ a.prev = task[t].scope)
  <2> DEFINE row == [conv |-> job[j].old, prev |-> job[j].oldScope, job |-> j]
  <2>1. archive' = archive \cup {row}
    BY DEF Completes, Moves
  <2>2. row.conv = task[t].conv /\ row.prev = task[t].scope
    BY <1>1
  <2> HIDE DEF row
  <2>3. \A a \in archive' : a \in archive \/ a = row
    BY ONLY <2>1
  <2> HIDE DEF t
  <2>4. QED BY ONLY <2>2, <2>3
<1> HIDE DEF t
<1>3. ScopeFollows' /\ RecorderScope'
  BY <1>1 DEF Scopes, ScopeFollows, RecorderScope, Durable
<1>4. OwnScope'
  BY <1>1 DEF Scopes, OwnScope
<1>5. Unnamed'
  BY <1>1 DEF Scopes, Unnamed
<1>6. ASSUME NEW u \in Tasks, NEW a \in archive', task'[u].scope # None,
             task'[u].scope \in {a.conv, a.prev}
      PROVE  task'[u].scope = a.conv /\ a.prev \in Provisional /\ task'[u].conv = None
  <2>1. CASE u = t
    <3>1. a \notin archive
      BY <1>1, <1>6, <2>1 DEF ArchivedScope
    <3>2. QED BY <1>1, <1>2, <1>6, <2>1, <3>1
  <2>2. CASE u # t /\ a \in archive
    BY <1>1, <1>6, <2>2 DEF Scopes, ScopeRetired
  <2>3. CASE u # t /\ a \notin archive
    <3>1. a.conv = task[t].conv /\ a.prev = task[t].scope /\ task'[u] = task[u]
      BY <1>1, <1>2, <2>3
    <3>2. task[u].scope # task[t].scope
      BY <1>1, <1>6, <2>3, <3>1 DEF Scopes, OwnScope
    <3>3. task[u].scope = task[t].conv /\ task[t].scope # task[t].conv
      BY <1>6, <3>1, <3>2
    <3>4. task[t].scope \in Provisional /\ task[t].conv \notin Provisional
      BY <1>1, <3>3 DEF Scopes, ScopeFollows
    <3>5. task[u].conv # task[t].conv
      BY <1>1, <2>3 DEF SingleOwner
    <3>6. task[u].conv = None
      BY <3>3, <3>4, <3>5 DEF Scopes, ScopeFollows
    <3>7. QED BY <3>1, <3>3, <3>4, <3>6
  <2>4. QED BY <2>1, <2>2, <2>3
<1>7. ScopeRetired'
  BY <1>6 DEF ScopeRetired
<1>8. QED BY <1>3, <1>4, <1>5, <1>7 DEF Scopes

LEMMA ScopesStep ==
    ASSUME TypeOK, TasksExist, SingleOwner, Scopes, PlaceStep
    PROVE  Scopes'
<1>1. ASSUME RowStep, NamedStep, UNCHANGED archive
      PROVE  Scopes'
  <2>1. CASE \A u \in Tasks : RowKept(u)
    <3>1. /\ ScopeFollows' /\ RecorderScope' /\ ScopeRetired'
      BY <1>1, <2>1 DEF Scopes, RowKept, ScopeFollows, RecorderScope, Durable, ScopeRetired
    <3>2. OwnScope' /\ Unnamed'
      BY <1>1, <2>1 DEF Scopes, RowKept, OwnScope, Unnamed, NamedStep
    <3>3. QED BY <3>1, <3>2 DEF Scopes
  <2>2. ASSUME NEW t \in Tasks, NEW c \in Convs, \A u \in Tasks \ {t} : RowKept(u),
               Adopts(t, c) \/ Creates(t, c) \/ Asks(t, c)
        PROVE  Scopes'
    <3>1. c # None /\ (~Exists(t) => task[t].conv = None)
      BY CompactAssumption DEF TasksExist
    <3>2. CASE Adopts(t, c)
      <4>1. ~task[t].recorder
        BY <3>1, <3>2, CompactAssumption DEF Adopts, Scopes, RecorderScope, Durable
      <4>2. \A u \in Tasks \ {t} : task[u].scope # c
        BY <3>1, <3>2 DEF Adopts, Scopes, OwnScope
      <4>3. ~ArchivedScope(c)
        BY <3>1, <3>2 DEF Adopts, Scopes, ScopeRetired, ArchivedScope, ArchivedConv
      <4>4. QED BY <1>1, <2>2, <3>1, <3>2, <4>1, <4>2, <4>3, OneRow DEF Adopts
    <3>3. CASE Creates(t, c)
      BY <1>1, <2>2, <3>1, <3>3, OneRow DEF Creates
    <3>4. CASE Asks(t, c)
      <4>1. task[t].conv = None /\ ~task[t].recorder
        BY <3>1, <3>4, CompactAssumption DEF Asks, Scopes, RecorderScope, Durable
      <4>2. QED BY <1>1, <2>2, <3>1, <3>4, <4>1, OneRow DEF Asks
    <3>5. QED BY <2>2, <3>2, <3>3, <3>4
  <2>3. QED BY <1>1, <2>1, <2>2, TakesScope, RenamesScope DEF RowStep
<1>2. ASSUME NEW t \in Tasks, NEW j \in Jobs, NEW continue \in BOOLEAN, CompactStart(t, j, continue)
      PROVE  Scopes'
  BY <1>2, StartFields DEF Scopes, ScopeFollows, RecorderScope, Durable, OwnScope, Unnamed,
                           ScopeRetired
<1>3. ASSUME NEW j \in Jobs, NEW c \in Convs, Completes(j, c)
      PROVE  Scopes'
  BY <1>3, CompletesScope
<1>4. QED BY <1>1, <1>2, <1>3 DEF PlaceStep

\* While a job runs its task stays at the recorded source, after it the task is at the
\* destination, and nobody who has a conversation answers to an archived one any more:
\* for all interleavings of callbacks, captured turns and MCP calls.
THEOREM BindingStays == Spec => []BindingHeld
<1>1. Init => Scopes
  BY DEF Init, Scopes, ScopeFollows, RecorderScope, OwnScope, Unnamed, ScopeRetired, NoTask
<1>2. PlaceInv /\ BindingInv /\ Scopes /\ [Next]_vars => Scopes'
  BY EveryPlaceStep, ScopesStep DEF PlaceInv, BindingInv, TypeInv
<1>3. PlaceInv /\ Scopes => BindingHeld
  BY DEF PlaceInv, Scopes, BindingHeld
<1>4. QED BY <1>1, <1>2, <1>3, PlaceInvariance, BindingInvariance, PTL DEF Spec

----------------------------------------------------------------------------
(* Nothing dispatches for a task that is compacted, unless a report of the     *)
(* browser brings along a request that had no task when the job started.       *)

LEMMA EndsKeep ==
    ASSUME \/ \E r \in RequestIds :
                \/ CreateRequest(r) \/ FinalReported(r) \/ ReadUnbound(r) \/ FailUnbound(r)
                \/ SettleFinal(r) \/ StopMessage(r) \/ ClearActive(r)
           \/ \E r \in RequestIds, c \in Opt(Convs) :
                \/ BridgeIdentity(r, c) \/ BrowserCompleted(r, c)
                \/ \E status \in Outcomes : BridgeResult(r, c, status)
    PROVE  UNCHANGED reports /\ UNCHANGED immediate
<1>1. ASSUME NEW r, \/ CreateRequest(r) \/ FinalReported(r) \/ ReadUnbound(r) \/ FailUnbound(r)
                    \/ SettleFinal(r) \/ StopMessage(r) \/ ClearActive(r)
      PROVE  UNCHANGED reports /\ UNCHANGED immediate
  BY <1>1 DEF CreateRequest, FinalReported, ReadUnbound, FailUnbound, SettleFinal, StopMessage, ClearActive
<1>2. ASSUME NEW r, NEW c, BridgeIdentity(r, c)
      PROVE  UNCHANGED reports /\ UNCHANGED immediate
  BY <1>2 DEF BridgeIdentity
<1>3. ASSUME NEW r, NEW c, BrowserCompleted(r, c)
      PROVE  UNCHANGED reports /\ UNCHANGED immediate
  BY <1>3 DEF BrowserCompleted
<1>4. ASSUME NEW r, NEW c, NEW status, BridgeResult(r, c, status)
      PROVE  UNCHANGED reports /\ UNCHANGED immediate
  BY <1>4 DEF BridgeResult
<1>5. QED BY <1>1, <1>2, <1>3, <1>4

\* A message becomes immediate only for a task that is not compacted.
LEMMA ImmediateStep ==
    ASSUME TypeOK, [Next]_vars, NEW u \in Tasks, u \in immediate', u \notin immediate
    PROVE  ~Compacting(u)
<1>1. ASSUME \/ \E r \in RequestIds :
                  \/ CreateRequest(r) \/ FinalReported(r) \/ ReadUnbound(r) \/ FailUnbound(r)
                  \/ SettleFinal(r) \/ StopMessage(r) \/ ClearActive(r)
             \/ \E r \in RequestIds, c \in Opt(Convs) :
                  \/ BridgeIdentity(r, c) \/ BrowserCompleted(r, c)
                  \/ \E status \in Outcomes : BridgeResult(r, c, status)
             \/ \E f \in reports : PersistStarted(f) \/ DropStarted(f)
             \/ \E r \in RequestIds, c \in Convs : ReadStarted(r, c)
      PROVE  UNCHANGED immediate
  BY <1>1, EndsKeep DEF PersistStarted, DropStarted, ReadStarted
<1>2. ASSUME \/ \E t \in Tasks : ReadStop(t) \/ ReadImmediateAllowed(t)
             \/ \E t \in Tasks, c \in Convs : McpTask(t, c)
             \/ \E t \in Tasks, r \in Requests : ContinueMessage(t, r)
             \/ \E t \in Tasks, r \in Requests, c \in Convs : Enroll(t, r, c)
             \/ \E j \in Jobs : ResumeCompact(j) \/ ReadJob(j)
             \/ Crash
      PROVE  UNCHANGED immediate
  BY <1>2 DEF ReadStop, ReadImmediateAllowed, McpTask, ContinueMessage, Enroll, ResumeCompact,
              ReadJob, Crash
<1>3. ASSUME NEW j \in Jobs,
             \/ \E phase \in Phases, handoff \in Opt(Handoffs), dest \in Opt(Convs) :
                   Checkpoint(j, phase, handoff, dest)
             \/ SettleReplacement(j)
      PROVE  UNCHANGED immediate
  BY <1>3 DEF Checkpoint, SettleReplacement
<1>4. ASSUME \/ \E t \in Tasks : ClaimImmediate(t) \/ DemoteImmediate(t)
             \/ \E t \in Tasks, j \in Jobs, continue \in BOOLEAN : CompactStart(t, j, continue)
      PROVE  immediate' \subseteq immediate
  BY <1>4 DEF ClaimImmediate, DemoteImmediate, CompactStart
<1>5. ASSUME NEW t \in Tasks, QueueImmediate(t) PROVE ~Compacting(u)
  <2>1. immediate' = IF Compacting(t) THEN immediate ELSE immediate \cup {t}
    BY <1>5 DEF QueueImmediate
  <2>2. QED BY <2>1
<1>6. ~UNCHANGED immediate /\ ~UNCHANGED vars
  BY DEF vars
<1>7. QED BY <1>1, <1>2, <1>3, <1>4, <1>5, <1>6, NextCases

\* A task is compacted from the step on that starts a job for it.
LEMMA StaysCompacted ==
    ASSUME TypeOK, PlaceStep, NEW u \in Tasks, Compacting(u)'
    PROVE  Compacting(u) \/ \E j \in Jobs, continue \in BOOLEAN : CompactStart(u, j, continue)
<1>1. PICK k \in Jobs : Active(k)' /\ job'[k].task = u
  BY DEF Compacting
<1>2. CASE JobsGoOn
  <2>1. Active(k) /\ job'[k].task = job[k].task
    BY <1>1, <1>2, StillActive
  <2>2. QED BY <1>1, <2>1 DEF Compacting
<1>3. ASSUME NEW t \in Tasks, NEW j \in Jobs, NEW continue \in BOOLEAN, CompactStart(t, j, continue)
      PROVE  Compacting(u) \/ CompactStart(u, j, continue)
  <2>1. job'[j].task = t /\ \A i \in Jobs \ {j} : job'[i] = job[i]
    BY <1>3, StartFields
  <2>2. CASE k = j
    BY <1>1, <1>3, <2>1, <2>2
  <2>3. CASE k # j
    BY <1>1, <2>1, <2>3 DEF Compacting, Active
  <2>4. QED BY <2>2, <2>3
<1>4. ASSUME NEW j \in Jobs, NEW c \in Convs, Completes(j, c), \A i \in Jobs \ {j} : JobKept(i)
      PROVE  Compacting(u)
  <2>1. k # j
    BY <1>1, <1>4 DEF Completes, Moves, Active, Terminal
  <2>2. QED BY <1>1, <1>4, <2>1 DEF JobKept, Compacting, Active
<1>5. QED BY <1>2, <1>3, <1>4 DEF PlaceStep

\* No message of a compacted task is immediate.
QueuePaused == \A t \in Tasks : Compacting(t) => t \notin immediate

LEMMA QueuePausedStep ==
    ASSUME TypeOK, PlaceStep, QueuePaused, [Next]_vars
    PROVE  QueuePaused'
<1>1. ASSUME NEW u \in Tasks, Compacting(u)' PROVE u \notin immediate'
  <2>1. CASE Compacting(u)
    BY <2>1, ImmediateStep DEF QueuePaused
  <2>2. ASSUME NEW j \in Jobs, NEW continue \in BOOLEAN, CompactStart(u, j, continue)
        PROVE  u \notin immediate'
    BY <2>2 DEF CompactStart
  <2>3. QED BY <1>1, <2>1, <2>2, StaysCompacted
<1>2. QED BY <1>1 DEF QueuePaused

LEMMA PausedStep ==
    ASSUME TypeInv, PlaceStep, [Next]_vars, NEW u \in Tasks, Compacting(u)',
           NEW r \in RequestIds, Dispatches(r, u)'
    PROVE  \/ Compacting(u) /\ Dispatches(r, u)
           \/ req[r].task = None /\ \E f \in reports \ reports' : f.req = r /\ f.cand = u
<1>1. TypeOK /\ (RequestStep \/ \E t \in Tasks : RetireStep(t))
  BY EveryRequestStep DEF TypeInv
<1>2. req'[r].task = u /\ req'[r].status \in {"queued", "running"}
  BY DEF Dispatches
<1>3. CASE Compacting(u)
  <2>1. CASE Continues(r)
    BY <1>2, <1>3, <2>1 DEF Continues, Dispatches
  <2>2. CASE Begins(r)
    BY <1>2, <1>3, <2>2, CompactAssumption DEF Begins
  <2>3. ASSUME NEW t \in Tasks, RetireStep(t)
        PROVE  Compacting(u) /\ Dispatches(r, u)
    BY <1>2, <1>3, <2>3 DEF RetireStep, Dispatches, Working
  <2>4. QED BY <1>1, <2>1, <2>2, <2>3 DEF RequestStep
<1>4. ASSUME NEW j \in Jobs, NEW continue \in BOOLEAN, CompactStart(u, j, continue)
      PROVE  FALSE
  <2>1. /\ \A q \in RequestIds : req[q] \in RequestRow
        /\ \A q \in RequestIds :
              req'[q] = IF req[q].task = u /\ req[q].status \in {"queued", "running"}
                        THEN [req[q] EXCEPT !.status = "stop_requested"] ELSE req[q]
    BY <1>1, <1>4 DEF CompactStart, TypeOK
  <2>2. QED BY <1>2, <2>1 DEF RequestRow
<1>5. QED BY <1>1, <1>3, <1>4, StaysCompacted

\* While a task is compacted none of its messages is immediate and no request of it is
\* queued or running, but for one that a late report of the browser attaches to it:
\* for any number of reports and calls under way when the job starts.
THEOREM CompactPauses == Spec => Paused
<1>1. Init => QueuePaused
  BY DEF Init, QueuePaused
<1>2. PlaceInv /\ [Next]_vars => PlaceStep /\ TypeInv /\ TypeOK
  BY EveryPlaceStep DEF PlaceInv, TypeInv
<1>3. PlaceInv /\ QueuePaused /\ [Next]_vars => QueuePaused'
  BY <1>2, QueuePausedStep
<1>4. ASSUME PlaceInv, QueuePaused', [Next]_vars
      PROVE  \A t \in Tasks : Compacting(t)' =>
                /\ t \notin immediate'
                /\ \A r \in RequestIds : Dispatches(r, t)' =>
                      \/ Compacting(t) /\ Dispatches(r, t)
                      \/ /\ req[r].task = None
                         /\ \E f \in reports \ reports' : f.req = r /\ f.cand = t
  <2>1. ASSUME NEW t \in Tasks, Compacting(t)' PROVE t \notin immediate'
    BY <1>4, <2>1 DEF QueuePaused
  <2>2. QED BY <1>2, <1>4, <2>1, PausedStep
<1>5. PlaceInv /\ QueuePaused' /\ [Next]_vars =>
          [\A t \in Tasks : Compacting(t)' =>
              /\ t \notin immediate'
              /\ \A r \in RequestIds : Dispatches(r, t)' =>
                    \/ Compacting(t) /\ Dispatches(r, t)
                    \/ /\ req[r].task = None
                       /\ \E f \in reports \ reports' : f.req = r /\ f.cand = t]_vars
  BY <1>4
<1>6. QED BY <1>1, <1>3, <1>5, PlaceInvariance, PTL DEF Spec, Paused

=============================================================================
