--------------------------- MODULE Stores_proofs ---------------------------
(***************************************************************************)
(* Proofs about the services that keep something outside the memory of the   *)
(* host: the tabs and the stored keys of the browser (SubagentTabs), the     *)
(* installed program (Updater), the store of blobs (BlobStore) and the files *)
(* a turn changed (TurnFileChanges), each with its inductive invariant.      *)
(*                                                                         *)
(* Of the tabs, each action is first put as what it does to the fields (its  *)
(* ...Does lemma), then shown to keep the types, and to keep the invariant   *)
(* TabsSound as long as nothing slips (its ...Quiet lemma, a step per        *)
(* conjunct).                                                              *)
(***************************************************************************)
EXTENDS SubagentTabs, Updater, BlobStore, TurnFileChanges, FiniteSetTheorems, SequenceTheorems,
        TLAPS

----------------------------------------------------------------------------
\* The browser half of a sub-agent (SubagentTabs): what the worker's memory and the stored
\* keys look like, whatever is lost.
TabBounds == [attempt : 0..MaxAttempts, tab : 0..MaxTabs]
StartSteps == {"look", "beat", "drop", "open", "store", "ready", "again", "send"}
StartWork == [step : StartSteps, tab : 0..MaxTabs, old : 0..MaxAttempts]
CloseAsked == [attempt : 0..MaxAttempts, by : {"interface", "settle", "start", "later", "renewal"}]
CloseWork == [step : {"look", "release", "unbind", "remove"}, bound : TabBounds]
LeaveWork == [tab : 0..MaxTabs, unbind : BOOLEAN, failed : SUBSET Attempts]
MoveWork == [from : 0..MaxTabs, to : 0..MaxTabs, read : BOOLEAN, bound : TabBounds, requests : SUBSET Attempts]
ReportWork == [tab : 0..MaxTabs, attempt : 0..MaxAttempts, kind : {"none", "started", "result"}]
TabsWork ==
    [starts : Seq(Attempts), start : StartWork, closes : Seq(CloseAsked), close : CloseWork,
     settles : [Attempts -> {"none", "look", "post"}], later : SUBSET Attempts, gone : SUBSET TabIds,
     leaving : LeaveWork, moving : MoveWork, report : ReportWork]
ChildRows == [status : {"pending", "running", "completed", "failed"}, attempt : Attempts, conversation : 0..MaxTabs]
TabRows == [open : BOOLEAN, used : BOOLEAN, conversation : 0..MaxTabs, prompt : 0..MaxAttempts]
SessionKeys == [bound : TabBounds, request : [Attempts -> 0..MaxTabs]]
TabsLog == [asked : SUBSET Attempts, dispatches : Nat, faults : Nat, lost : BOOLEAN, slipped : BOOLEAN,
            told : BOOLEAN, unreported : BOOLEAN]

TabsTyped ==
    /\ childRun \in ChildRows
    /\ chatTabs \in [TabIds -> TabRows]
    /\ session \in SessionKeys
    /\ worker \in TabsWork
    /\ tabLog \in TabsLog
    /\ worker.starts = <<>> => worker.start.step = "look"
    /\ worker.closes = <<>> => worker.close.step = "look"
    /\ worker.report # NoReport => worker.report.attempt \in Attempts

\* Of the worker's memory, at most fs changes.
Working(fs) ==
    /\ worker' \in TabsWork
    /\ "start" \in fs \/ (worker'.starts = worker.starts /\ worker'.start = worker.start)
    /\ "close" \in fs \/ (worker'.closes = worker.closes /\ worker'.close = worker.close)
    /\ "settles" \in fs \/ worker'.settles = worker.settles
    /\ "later" \in fs \/ worker'.later = worker.later
    /\ "gone" \in fs \/ worker'.gone = worker.gone
    /\ "leaving" \in fs \/ worker'.leaving = worker.leaving
    /\ "moving" \in fs \/ worker'.moving = worker.moving
    /\ "report" \in fs \/ worker'.report = worker.report
\* Of the history, at most fs changes.
Notes(fs) ==
    /\ tabLog' \in TabsLog
    /\ "asked" \in fs \/ tabLog'.asked = tabLog.asked
    /\ "lost" \in fs \/ tabLog'.lost = tabLog.lost
    /\ "slipped" \in fs \/ tabLog'.slipped = tabLog.slipped
    /\ "unreported" \in fs \/ tabLog'.unreported = tabLog.unreported
NoStart == [step |-> "look", tab |-> NoTab, old |-> 0]
NoClosing == [step |-> "look", bound |-> Unbound]
\* The head of a queue is taken from it.
StartOver == worker'.starts = Tail(worker.starts) /\ worker'.start = NoStart
CloseOver == worker'.closes = Tail(worker.closes) /\ worker'.close = NoClosing
AsksFor(a, by) ==
    worker'.closes = Append(worker.closes, [attempt |-> a, by |-> by]) /\ worker'.close = worker.close
SettlesThese(as) ==
    worker'.settles = [a \in Attempts |-> IF a \in as /\ worker.settles[a] = "none" THEN "look" ELSE worker.settles[a]]
StepTo(step) == worker'.starts = worker.starts /\ worker'.start = [worker.start EXCEPT !.step = step]

LEMMA TabsNumbers ==
    /\ MaxAttempts \in Nat \ {0} /\ MaxTabs \in Nat \ {0}
    /\ Attempts = 1..MaxAttempts /\ TabIds = 1..MaxTabs
    /\ Unbound \in TabBounds /\ NoStart \in StartWork /\ NoClosing \in CloseWork
    /\ NotLeaving \in LeaveWork /\ NotMoving \in MoveWork /\ NoReport \in ReportWork
<1>1. /\ MaxAttempts \in Nat \ {0} /\ MaxTabs \in Nat \ {0}
      /\ Attempts = 1..MaxAttempts /\ TabIds = 1..MaxTabs
  BY SubagentTabsAssumption DEF Attempts, TabIds
<1>2. Unbound \in TabBounds
  BY <1>1 DEF Unbound, TabBounds, NoTab
<1> QED
  BY <1>1, <1>2 DEF NoStart, StartWork, StartSteps, NoClosing, CloseWork, NotLeaving, LeaveWork,
     NotMoving, MoveWork, NoReport, ReportWork, NoTab

LEMMA FreshFits == FreshWorker \in TabsWork
  BY TabsNumbers, EmptySeq DEF FreshWorker, TabsWork, NoStart, NoClosing

\* The head and the rest of a queue that is not empty.
LEMMA QueueParts ==
    ASSUME NEW S, NEW s \in Seq(S), s # <<>>
    PROVE  /\ Head(s) \in S /\ Head(s) = s[1] /\ Tail(s) \in Seq(S)
           /\ Len(s) \in Nat /\ Len(s) > 0 /\ Len(Tail(s)) = Len(s) - 1
           /\ \A i \in DOMAIN Tail(s) : i + 1 \in DOMAIN s /\ Tail(s)[i] = s[i + 1]
           /\ \A j \in DOMAIN s : j = 1 \/ (j - 1 \in DOMAIN Tail(s) /\ Tail(s)[j - 1] = s[j])
<1>1. PICK n \in Nat : n = Len(s) /\ n > 0
  BY EmptySeq
<1>2. DOMAIN s = 1..n
  BY <1>1
<1>3. Head(s) \in S /\ Head(s) = s[1]
  BY <1>1
<1>4. Tail(s) \in Seq(S) /\ Len(Tail(s)) = n - 1 /\ \A i \in 1..(n - 1) : Tail(s)[i] = s[i + 1]
  BY <1>1, HeadTailProperties
<1>5. DOMAIN Tail(s) = 1..(n - 1)
  BY <1>1, <1>4, LenProperties
<1> QED
  BY <1>1, <1>2, <1>3, <1>4, <1>5

LEMMA TailWork ==
    ASSUME TabsTyped
    PROVE  /\ worker.starts # <<>> => Tail(worker.starts) \in Seq(Attempts) /\ Attempt \in Attempts
           /\ worker.closes # <<>> => Tail(worker.closes) \in Seq(CloseAsked) /\ Head(worker.closes) \in CloseAsked
<1>1. worker.starts \in Seq(Attempts) /\ worker.closes \in Seq(CloseAsked)
  BY DEF TabsTyped, TabsWork
<1> QED
  BY <1>1, QueueParts DEF Attempt

\* What each action does, field by field.
LEMMA ChildClaimsDoes ==
    ASSUME TabsTyped, ChildClaims
    PROVE  /\ Working({}) /\ Notes({}) /\ UNCHANGED <<chatTabs, session>>
           /\ childRun' \in ChildRows /\ childRun.status = "pending" /\ childRun'.status = "running"
           /\ childRun'.attempt = childRun.attempt
  BY DEF ChildClaims, TabsTyped, Working, Notes, ChildRows

LEMMA ChildEndsDoes ==
    ASSUME TabsTyped, ChildEnds
    PROVE  /\ Working({}) /\ Notes({}) /\ UNCHANGED <<chatTabs, session>>
           /\ childRun' \in ChildRows /\ ~ChildOver /\ ChildOver'
           /\ childRun'.attempt = childRun.attempt
  BY DEF ChildEnds, TabsTyped, Working, Notes, ChildRows, ChildOver

LEMMA InterfaceClosesDoes ==
    ASSUME TabsTyped, InterfaceCloses
    PROVE  /\ Working({"close"}) /\ Notes({}) /\ UNCHANGED <<childRun, chatTabs, session>>
           /\ childRun.status = "failed" /\ worker.closes = <<>> /\ AsksFor(0, "interface")
<1>1. [attempt |-> 0, by |-> "interface"] \in CloseAsked
  BY TabsNumbers DEF CloseAsked
<1>2. worker \in TabsWork /\ tabLog \in TabsLog
  BY DEF TabsTyped
<1>3. Append(worker.closes, [attempt |-> 0, by |-> "interface"]) \in Seq(CloseAsked)
  BY <1>1, <1>2, AppendProperties DEF TabsWork
<1> QED
  BY <1>2, <1>3 DEF InterfaceCloses, Working, Notes, AsksFor, AskClose, NoClose, AnyAttempt, TabsWork, TabsLog

LEMMA CloseLookDoes ==
    ASSUME TabsTyped, CloseLook
    PROVE  /\ Working({"close"}) /\ Notes({"slipped"}) /\ UNCHANGED <<childRun, chatTabs, session>>
           /\ worker.closes # <<>> /\ worker.close.step = "look"
           /\ tabLog'.slipped = (tabLog.slipped \/ worker.moving # NotMoving)
           /\ IF session.bound # Unbound /\ Head(worker.closes).attempt \in {0, session.bound.attempt}
              THEN worker'.closes = worker.closes /\ worker'.close = [step |-> "release", bound |-> session.bound]
              ELSE CloseOver
<1>1. worker \in TabsWork /\ tabLog \in TabsLog /\ session.bound \in TabBounds /\ worker.closes # <<>>
  BY DEF TabsTyped, SessionKeys, CloseLook
<1>2. Tail(worker.closes) \in Seq(CloseAsked) /\ NoClosing \in CloseWork
      /\ [step |-> "release", bound |-> session.bound] \in CloseWork
  BY <1>1, TailWork, TabsNumbers DEF CloseWork
<1> QED
  BY <1>1, <1>2 DEF CloseLook, Working, Notes, Fenced, Popped, CloseOver, NoClosing, FreshWorker, AnyAttempt, TabsWork, TabsLog

LEMMA CloseReleaseDoes ==
    ASSUME TabsTyped, CloseRelease
    PROVE  /\ Working({"close"}) /\ Notes({}) /\ UNCHANGED chatTabs
           /\ worker.close.step = "release"
           /\ worker'.closes = worker.closes /\ worker'.close = [step |-> "unbind", bound |-> worker.close.bound]
           /\ childRun' \in ChildRows /\ childRun'.status = childRun.status /\ childRun'.attempt = childRun.attempt
           /\ session' \in SessionKeys /\ session'.bound = session.bound
           /\ \A a \in Attempts : session'.request[a] =
                 IF a = worker.close.bound.attempt THEN NoTab ELSE session.request[a]
<1>1. worker \in TabsWork /\ tabLog \in TabsLog /\ session \in SessionKeys /\ childRun \in ChildRows
      /\ chatTabs \in [TabIds -> TabRows] /\ worker.close \in CloseWork
  BY DEF TabsTyped, TabsWork
<1>2. NoTab \in 0..MaxTabs
  BY TabsNumbers DEF NoTab
<1>3. /\ childRun' \in ChildRows /\ childRun'.status = childRun.status /\ childRun'.attempt = childRun.attempt
  BY <1>1 DEF CloseRelease, WithIdentity, TabOpen, ChildRows, TabRows
<1>4. session' \in SessionKeys /\ session'.bound = session.bound
      /\ \A a \in Attempts : session'.request[a] = IF a = worker.close.bound.attempt THEN NoTab ELSE session.request[a]
  BY <1>1, <1>2 DEF CloseRelease, SessionKeys
<1>5. worker' = [worker EXCEPT !.close = [step |-> "unbind", bound |-> worker.close.bound]]
      /\ [step |-> "unbind", bound |-> worker.close.bound] \in CloseWork
  BY <1>1 DEF CloseRelease, CloseWork, TabsWork
<1> QED
  BY <1>1, <1>3, <1>4, <1>5 DEF CloseRelease, Working, Notes, TabsWork

LEMMA CloseUnbindDoes ==
    ASSUME TabsTyped, CloseUnbind
    PROVE  /\ Working({"close"}) /\ Notes({"slipped"}) /\ UNCHANGED <<childRun, chatTabs>>
           /\ worker.close.step = "unbind"
           /\ tabLog'.slipped = (tabLog.slipped \/ session.bound \notin {Unbound, worker.close.bound})
           /\ worker'.closes = worker.closes /\ worker'.close = [step |-> "remove", bound |-> worker.close.bound]
           /\ session' \in SessionKeys /\ session'.bound = Unbound /\ session'.request = session.request
<1>1. worker \in TabsWork /\ tabLog \in TabsLog /\ session \in SessionKeys /\ worker.close \in CloseWork
  BY DEF TabsTyped, TabsWork
<1>4. session' \in SessionKeys /\ session'.bound = Unbound /\ session'.request = session.request
  BY <1>1, TabsNumbers DEF CloseUnbind, SessionKeys
<1>5. worker' = [worker EXCEPT !.close = [step |-> "remove", bound |-> worker.close.bound]]
      /\ [step |-> "remove", bound |-> worker.close.bound] \in CloseWork
  BY <1>1 DEF CloseUnbind, CloseWork, TabsWork
<1>6. Notes({"slipped"}) /\ tabLog'.slipped = (tabLog.slipped \/ session.bound \notin {Unbound, worker.close.bound})
  BY <1>1 DEF CloseUnbind, Notes, TabsLog
<1> QED
  BY <1>1, <1>4, <1>5, <1>6 DEF CloseUnbind, Working, TabsWork

\* A tab is closed: its row says so, and nothing else of it changes.
LEMMA ShutTabDoes ==
    ASSUME TabsTyped, NEW t, chatTabs' = [chatTabs EXCEPT ![t].open = FALSE]
    PROVE  /\ chatTabs' \in [TabIds -> TabRows]
           /\ \A u \in TabIds : /\ chatTabs'[u].open = (chatTabs[u].open /\ u # t)
                                /\ chatTabs'[u].used = chatTabs[u].used /\ chatTabs'[u].prompt = chatTabs[u].prompt
  BY DEF TabsTyped, TabRows

LEMMA CloseRemoveDoes ==
    ASSUME TabsTyped, CloseRemove
    PROVE  /\ Working({"close", "gone"}) /\ Notes({}) /\ UNCHANGED <<childRun, session>>
           /\ worker.close.step = "remove" /\ worker.closes # <<>> /\ CloseOver
           /\ chatTabs' = [chatTabs EXCEPT ![worker.close.bound.tab].open = FALSE]
           /\ worker'.gone = IF TabOpen(worker.close.bound.tab) /\ Named(worker.close.bound.tab)
                             THEN worker.gone \cup {worker.close.bound.tab} ELSE worker.gone
<1>1. worker \in TabsWork /\ tabLog \in TabsLog /\ worker.closes # <<>>
  BY DEF TabsTyped, CloseRemove
<1>2. Tail(worker.closes) \in Seq(CloseAsked) /\ NoClosing \in CloseWork
  BY <1>1, TailWork, TabsNumbers
<1>3. TabOpen(worker.close.bound.tab) => worker.gone \cup {worker.close.bound.tab} \in SUBSET TabIds
  BY <1>1 DEF TabOpen, TabsWork
<1> QED
  BY <1>1, <1>2, <1>3 DEF CloseRemove, Working, Notes, Popped, CloseOver, NoClosing, FreshWorker, TabsWork

\* The bounds in the history are counted up.
LEMMA LogSteps ==
    ASSUME TabsTyped
    PROVE  /\ Faulted \in TabsLog /\ Faulted.asked = tabLog.asked /\ Faulted.lost = tabLog.lost
           /\ Faulted.slipped = tabLog.slipped /\ Faulted.unreported = tabLog.unreported
           /\ ReplyLost \in TabsLog /\ ReplyLost.asked = tabLog.asked /\ ReplyLost.lost
           /\ ReplyLost.slipped = tabLog.slipped /\ ReplyLost.unreported = tabLog.unreported
<1>1. tabLog \in TabsLog /\ tabLog.faults + 1 \in Nat
  BY DEF TabsTyped, TabsLog
<1>2. PICK f : f = [tabLog EXCEPT !.faults = tabLog.faults + 1]
  OBVIOUS
<1>3. Faulted = f /\ ReplyLost = [f EXCEPT !.lost = TRUE]
  BY <1>2 DEF Faulted, ReplyLost
<1>4. f \in TabsLog /\ f.asked = tabLog.asked /\ f.lost = tabLog.lost /\ f.slipped = tabLog.slipped
      /\ f.unreported = tabLog.unreported
  BY <1>1, <1>2 DEF TabsLog
<1> QED
  BY <1>3, <1>4 DEF TabsLog

LEMMA SettleLookDoes ==
    ASSUME TabsTyped, NEW a \in Attempts, SettleLook(a)
    PROVE  /\ Working({"settles"}) /\ Notes({"unreported"}) /\ UNCHANGED <<childRun, chatTabs, session>>
           /\ \A b \in Attempts : b # a => worker'.settles[b] = worker.settles[b]
           /\ worker'.settles[a] \in {"post", "none"}
           /\ tabLog'.unreported = (tabLog.unreported \/ (worker'.settles[a] = "none" /\ Current(a)))
<1>1. worker \in TabsWork /\ tabLog \in TabsLog
  BY DEF TabsTyped
<1>2. PICK s \in {"post", "none"} : worker' = [worker EXCEPT !.settles[a] = s]
  BY DEF SettleLook
<1>3. worker' \in TabsWork /\ worker'.settles = [worker.settles EXCEPT ![a] = s]
  BY <1>1, <1>2 DEF TabsWork
<1>4. worker.settles \in [Attempts -> {"none", "look", "post"}]
  BY <1>1 DEF TabsWork
<1>5. worker'.settles[a] = s /\ \A b \in Attempts : b # a => worker'.settles[b] = worker.settles[b]
  BY <1>3, <1>4
<1>6. tabLog' = [tabLog EXCEPT !.unreported = @ \/ (s = "none" /\ Current(a))]
  BY <1>5 DEF SettleLook
<1>7. Notes({"unreported"}) /\ tabLog'.unreported = (tabLog.unreported \/ (s = "none" /\ Current(a)))
  BY <1>1, <1>6 DEF Notes, TabsLog
<1>8. Working({"settles"})
  BY <1>1, <1>2, <1>3 DEF Working, TabsWork
<1> QED
  BY <1>5, <1>7, <1>8 DEF SettleLook

\* A report that a startup failed ends the attempt it is about, if that is still the run's.
ChildFails(a) ==
    /\ childRun' \in ChildRows
    /\ ~Current(a) => childRun' = childRun
    /\ Current(a) => \/ childRun'.status = "pending" /\ childRun'.attempt = a + 1 /\ a + 1 \in Attempts
                     \/ childRun'.status = "failed" /\ childRun'.attempt = a
LEMMA AfterFailureDoes ==
    ASSUME TabsTyped, NEW a \in Attempts, childRun' = AfterFailure(a)
    PROVE  ChildFails(a)
<1>1. childRun \in ChildRows /\ MaxAttempts \in Nat /\ Attempts = 1..MaxAttempts
  BY TabsNumbers DEF TabsTyped
<1>2. CASE ~Current(a)
  BY <1>1, <1>2 DEF AfterFailure, ChildFails
<1>3. CASE Current(a) /\ a < MaxAttempts
  <2>1. a + 1 \in Attempts /\ childRun' = [childRun EXCEPT !.attempt = a + 1]
    BY <1>1, <1>3 DEF AfterFailure
  <2> QED
    BY <1>1, <1>3, <2>1 DEF ChildFails, Current, ChildRows
<1>4. CASE Current(a) /\ ~(a < MaxAttempts)
  BY <1>1, <1>4 DEF AfterFailure, ChildFails, Current, ChildRows
<1> QED
  BY <1>2, <1>3, <1>4

LEMMA SettlePostDoes ==
    ASSUME TabsTyped, NEW a \in Attempts, SettlePost(a)
    PROVE  /\ Working({"settles", "close"}) /\ Notes({"lost"}) /\ UNCHANGED <<chatTabs, session>>
           /\ \A b \in Attempts : b # a => worker'.settles[b] = worker.settles[b]
           /\ ChildFails(a) /\ worker.closes = <<>>
           /\ \/ /\ Current(a) /\ AsksFor(a, "settle") /\ tabLog'.lost = tabLog.lost
              \/ /\ worker'.closes = worker.closes /\ worker'.close = worker.close
                 /\ ~tabLog'.lost => ~Current(a)
<1>1. worker \in TabsWork /\ tabLog \in TabsLog /\ childRun' = AfterFailure(a) /\ worker.closes = <<>>
  BY DEF TabsTyped, SettlePost, NoClose
<1>2. [attempt |-> a, by |-> "settle"] \in CloseAsked
  BY TabsNumbers DEF CloseAsked
<1>3. Append(worker.closes, [attempt |-> a, by |-> "settle"]) \in Seq(CloseAsked)
  BY <1>1, <1>2, AppendProperties DEF TabsWork
<1>4. PICK s : s = [worker.settles EXCEPT ![a] = "none"]
  OBVIOUS
<1>5. s \in [Attempts -> {"none", "look", "post"}] /\ \A b \in Attempts : b # a => s[b] = worker.settles[b]
  BY <1>1, <1>4 DEF TabsWork
<1>6. PICK w : w = [worker EXCEPT !.settles = s]
  OBVIOUS
<1>7. w = [worker EXCEPT !.settles[a] = "none"]
  BY <1>4, <1>6
<1>8. ChildFails(a)
  BY <1>1, AfterFailureDoes
<1>9. CASE worker' = AskClose(w, a, "settle") /\ Current(a) /\ UNCHANGED tabLog
  <2>1. worker' = [w EXCEPT !.closes = Append(worker.closes, [attempt |-> a, by |-> "settle"])]
    BY <1>1, <1>6, <1>9 DEF AskClose, TabsWork
  <2>2. Working({"settles", "close"}) /\ worker'.settles = s /\ AsksFor(a, "settle")
    BY <1>1, <1>3, <1>5, <1>6, <2>1 DEF Working, AsksFor, TabsWork
  <2> QED
    BY <1>1, <1>5, <1>8, <1>9, <2>2 DEF SettlePost, Notes
<1>10. CASE worker' = w /\ ((UNCHANGED tabLog /\ ~Current(a)) \/ tabLog' = ReplyLost)
  <2>1. Working({"settles", "close"}) /\ worker'.settles = s /\ worker'.closes = worker.closes /\ worker'.close = worker.close
    BY <1>1, <1>5, <1>6, <1>10 DEF Working, TabsWork
  <2>2. Notes({"lost"}) /\ (~tabLog'.lost => ~Current(a))
    BY <1>1, <1>10, LogSteps DEF Notes
  <2> QED
    BY <1>1, <1>5, <1>8, <2>1, <2>2 DEF SettlePost
<1> QED
  BY <1>7, <1>9, <1>10 DEF SettlePost

LEMMA DispatchDoes ==
    ASSUME TabsTyped, NEW a \in Attempts, Dispatch(a)
    PROVE  /\ Working({"start"}) /\ Notes({"asked"}) /\ UNCHANGED <<childRun, chatTabs, session>>
           /\ a <= childRun.attempt /\ tabLog'.asked = tabLog.asked \cup {a}
           /\ worker'.start = worker.start
           /\ \/ worker.starts # <<>> /\ Last(worker.starts) = a /\ worker'.starts = worker.starts
              \/ worker'.starts = Append(worker.starts, a)
<1>1. worker \in TabsWork /\ tabLog \in TabsLog
  BY DEF TabsTyped
<1>2. Append(worker.starts, a) \in Seq(Attempts)
  BY <1>1, AppendProperties DEF TabsWork
<1>3. Notes({"asked"}) /\ tabLog'.asked = tabLog.asked \cup {a}
  <2>1. tabLog.dispatches + 1 \in Nat /\ tabLog.asked \cup {a} \in SUBSET Attempts
    BY <1>1 DEF TabsLog
  <2>2. tabLog' = [tabLog EXCEPT !.asked = tabLog.asked \cup {a}, !.dispatches = tabLog.dispatches + 1]
    BY DEF Dispatch
  <2> QED
    BY <1>1, <2>1, <2>2 DEF Notes, TabsLog
<1> QED
  BY <1>1, <1>2, <1>3 DEF Dispatch, Working, TabsWork

LEMMA StartLookDoes ==
    ASSUME TabsTyped, StartLook
    PROVE  /\ Working({"start"}) /\ Notes({"slipped"}) /\ UNCHANGED <<childRun, chatTabs, session>>
           /\ worker.starts # <<>> /\ worker.start.step = "look"
           /\ tabLog'.slipped = (tabLog.slipped \/ worker.moving # NotMoving)
           /\ IF session.bound.attempt = Attempt /\ TabOpen(session.bound.tab) THEN StartOver
              ELSE /\ worker'.starts = worker.starts /\ worker'.start.step = "beat"
                   /\ worker'.start.old = session.bound.attempt /\ worker'.start.tab = worker.start.tab
<1>1. worker \in TabsWork /\ tabLog \in TabsLog /\ session.bound \in TabBounds /\ worker.starts # <<>>
  BY DEF TabsTyped, SessionKeys, StartLook, StartAt
<1>2. Tail(worker.starts) \in Seq(Attempts) /\ NoStart \in StartWork
  BY <1>1, TailWork, TabsNumbers
<1>3. PICK n : n = [worker.start EXCEPT !.step = "beat", !.old = session.bound.attempt]
  OBVIOUS
<1>4. n \in StartWork /\ n.step = "beat" /\ n.old = session.bound.attempt /\ n.tab = worker.start.tab
  BY <1>1, <1>3 DEF TabsWork, StartWork, StartSteps, TabBounds
<1>5. \/ session.bound.attempt = Attempt /\ TabOpen(session.bound.tab)
         /\ worker' = [worker EXCEPT !.starts = Tail(worker.starts), !.start = NoStart]
      \/ ~(session.bound.attempt = Attempt /\ TabOpen(session.bound.tab)) /\ worker' = [worker EXCEPT !.start = n]
  BY <1>1, <1>3 DEF StartLook, StartEnded, NoStart, FreshWorker, TabsWork, StartWork
<1> QED
  BY <1>1, <1>2, <1>4, <1>5, ZenonT(40) DEF StartLook, StartAt, Working, Notes, StartOver, TabsWork, TabsLog

\* A start that is over, with or without its attempt.
LEMMA StartEnds ==
    ASSUME TabsTyped, worker.starts # <<>>
    PROVE  /\ worker' = StartEnded(worker) => Working({"start"}) /\ StartOver
           /\ worker' = StartFailed(worker) => Working({"start", "settles"}) /\ StartOver /\ SettlesThese({Attempt})
<1>1. worker \in TabsWork /\ Tail(worker.starts) \in Seq(Attempts) /\ NoStart \in StartWork
  BY TailWork, TabsNumbers DEF TabsTyped
<1>2. PICK w : w = [worker EXCEPT !.starts = Tail(worker.starts), !.start = NoStart]
  OBVIOUS
<1>3. StartEnded(worker) = w
  BY <1>2 DEF StartEnded, NoStart, FreshWorker
<1>4. /\ w \in TabsWork /\ w.starts = Tail(worker.starts) /\ w.start = NoStart
      /\ w.closes = worker.closes /\ w.close = worker.close /\ w.settles = worker.settles
      /\ w.later = worker.later /\ w.gone = worker.gone /\ w.leaving = worker.leaving
      /\ w.moving = worker.moving /\ w.report = worker.report
  BY <1>1, <1>2 DEF TabsWork
<1>5. PICK s : s = [a \in Attempts |-> IF a \in {Attempt} /\ w.settles[a] = "none" THEN "look" ELSE w.settles[a]]
  OBVIOUS
<1>6. s \in [Attempts -> {"none", "look", "post"}]
  BY <1>4, <1>5 DEF TabsWork
<1>7. StartFailed(worker) = [w EXCEPT !.settles = s]
  BY <1>3, <1>5 DEF StartFailed, Settling, Attempt
<1>8. ASSUME worker' = [w EXCEPT !.settles = s]
      PROVE  Working({"start", "settles"}) /\ StartOver /\ worker'.settles = s
  BY <1>4, <1>6, <1>8 DEF Working, StartOver, TabsWork
<1>9. ASSUME worker' = w PROVE Working({"start"}) /\ StartOver
  BY <1>4, <1>9 DEF Working, StartOver
<1> QED
  BY <1>3, <1>4, <1>5, <1>7, <1>8, <1>9 DEF SettlesThese

\* The start under way takes a step.
LEMMA StartSteps1 ==
    ASSUME TabsTyped, worker.starts # <<>>, NEW step \in StartSteps, worker' = [worker EXCEPT !.start.step = step]
    PROVE  Working({"start"}) /\ worker'.starts = worker.starts /\ worker'.start.step = step
           /\ worker'.start.tab = worker.start.tab /\ worker'.start.old = worker.start.old
<1>1. worker \in TabsWork
  BY DEF TabsTyped
<1>2. PICK n : n = [worker.start EXCEPT !.step = step]
  OBVIOUS
<1>3. n \in StartWork /\ n.step = step /\ n.tab = worker.start.tab /\ n.old = worker.start.old
  BY <1>1, <1>2 DEF TabsWork, StartWork
<1>4. worker' = [worker EXCEPT !.start = n]
  BY <1>2
<1> QED
  BY <1>1, <1>3, <1>4 DEF Working, TabsWork

StartMoves(step) ==
    /\ worker'.starts = worker.starts /\ worker'.start.step = step
    /\ worker'.start.tab = worker.start.tab /\ worker'.start.old = worker.start.old
StartUnderway(step) == worker.starts # <<>> /\ worker.start.step = step

LEMMA StartBeatDoes ==
    ASSUME TabsTyped, StartBeat
    PROVE  /\ Notes({}) /\ UNCHANGED <<childRun, chatTabs, session>> /\ StartUnderway("beat")
           /\ \/ Working({"start"}) /\ ~Current(Attempt) /\ StartOver
              \/ Working({"start"}) /\ Current(Attempt) /\ worker.start.old = 0 /\ StartMoves("open")
              \/ /\ Working({"start", "close"}) /\ Current(Attempt) /\ worker.start.old # 0 /\ StartMoves("drop")
                 /\ AsksFor(worker.start.old, "start")
              \/ Working({"start", "settles"}) /\ StartOver /\ SettlesThese({Attempt})
<1>1. worker \in TabsWork /\ tabLog \in TabsLog /\ StartUnderway("beat")
  BY DEF TabsTyped, StartBeat, StartAt, StartUnderway
<1>2. ASSUME worker.start.old # 0,
             worker' = [AskClose(worker, worker.start.old, "start") EXCEPT !.start.step = "drop"]
      PROVE  Working({"start", "close"}) /\ StartMoves("drop") /\ AsksFor(worker.start.old, "start")
  <2>1. PICK c : c = Append(worker.closes, [attempt |-> worker.start.old, by |-> "start"])
    OBVIOUS
  <2>2. [attempt |-> worker.start.old, by |-> "start"] \in CloseAsked
    BY <1>1 DEF CloseAsked, TabsWork, StartWork
  <2>3. c \in Seq(CloseAsked)
    BY <1>1, <2>1, <2>2, AppendProperties DEF TabsWork
  <2>4. PICK n : n = [worker.start EXCEPT !.step = "drop"]
    OBVIOUS
  <2>5. n \in StartWork /\ n.step = "drop" /\ n.tab = worker.start.tab /\ n.old = worker.start.old
    BY <1>1, <2>4 DEF TabsWork, StartWork, StartSteps
  <2>6. worker' = [worker EXCEPT !.closes = c, !.start = n]
    BY <1>1, <1>2, <2>1, <2>4 DEF AskClose, TabsWork
  <2> QED
    BY <1>1, <2>1, <2>3, <2>5, <2>6 DEF Working, StartMoves, AsksFor, TabsWork
<1>3. Notes({}) /\ UNCHANGED <<childRun, chatTabs, session>>
  BY <1>1, LogSteps DEF StartBeat, Notes
<1>4. "open" \in StartSteps
  BY DEF StartSteps
<1> QED
  BY <1>1, <1>2, <1>3, <1>4, StartEnds, StartSteps1 DEF StartBeat, StartUnderway, StartMoves

LEMMA StartDroppedDoes ==
    ASSUME TabsTyped, StartDropped
    PROVE  /\ Notes({}) /\ UNCHANGED <<childRun, chatTabs, session>> /\ StartUnderway("drop")
           /\ Working({"start"}) /\ StartMoves("open")
           /\ \A i \in DOMAIN worker.closes : worker.closes[i].by # "start"
<1>1. "open" \in StartSteps
  BY DEF StartSteps
<1> QED
  BY <1>1, StartSteps1 DEF StartDropped, StartAt, StartUnderway, StartMoves, Notes, TabsTyped

LEMMA StartOpenDoes ==
    ASSUME TabsTyped, StartOpen
    PROVE  /\ Notes({}) /\ UNCHANGED <<childRun, session>> /\ StartUnderway("open")
           /\ Working({"start"}) /\ worker'.starts = worker.starts /\ worker'.start.step = "store"
           /\ worker'.start.old = worker.start.old
           /\ chatTabs' \in [TabIds -> TabRows]
           /\ worker'.start.tab \in TabIds /\ chatTabs'[worker'.start.tab].used
           /\ \A t \in TabIds :
                 \/ chatTabs'[t] = chatTabs[t]
                 \/ /\ t = worker'.start.tab /\ ~chatTabs[t].used
                    /\ chatTabs'[t].prompt = 0 /\ chatTabs'[t].open /\ chatTabs'[t].used
<1>1. worker \in TabsWork /\ tabLog \in TabsLog /\ chatTabs \in [TabIds -> TabRows] /\ childRun \in ChildRows
      /\ StartUnderway("open") /\ UNCHANGED <<childRun, session, tabLog>>
  BY DEF TabsTyped, StartOpen, StartAt, StartUnderway
<1>2. PICK c \in {0, childRun.conversation}, t \in TabIds :
        /\ chatTabs' = [chatTabs EXCEPT ![t] =
              IF @.used THEN @ ELSE [open |-> TRUE, used |-> TRUE, conversation |-> c, prompt |-> 0]]
        /\ worker' = [worker EXCEPT !.start.step = "store", !.start.tab = t]
  BY DEF StartOpen
<1>3. PICK n : n = [worker.start EXCEPT !.step = "store", !.tab = t]
  OBVIOUS
<1>4. n \in StartWork /\ n.step = "store" /\ n.tab = t /\ n.old = worker.start.old
  <2>1. t \in 0..MaxTabs /\ worker.start \in StartWork
    BY <1>1, TabsNumbers DEF TabsWork
  <2> QED
    BY <1>3, <2>1 DEF StartWork, StartSteps
<1>5. worker' = [worker EXCEPT !.start = n]
  BY <1>1, <1>2, <1>3 DEF TabsWork, StartWork
<1>6. Working({"start"}) /\ worker'.starts = worker.starts /\ worker'.start = n
  BY <1>1, <1>4, <1>5 DEF Working, TabsWork
<1>7. PICK o : o = [open |-> TRUE, used |-> TRUE, conversation |-> c, prompt |-> 0]
  OBVIOUS
<1>8. o \in TabRows /\ o.open /\ o.used /\ o.prompt = 0
  BY <1>1, <1>7, TabsNumbers DEF TabRows, ChildRows
<1>9. chatTabs' = [chatTabs EXCEPT ![t] = IF chatTabs[t].used THEN chatTabs[t] ELSE o]
  BY <1>2, <1>7
<1>10. chatTabs' \in [TabIds -> TabRows] /\ chatTabs'[t].used
       /\ \A u \in TabIds : chatTabs'[u] = chatTabs[u] \/ (u = t /\ ~chatTabs[t].used /\ chatTabs'[u] = o)
  BY <1>1, <1>8, <1>9
<1> QED
  BY <1>1, <1>4, <1>6, <1>8, <1>10 DEF Notes

LEMMA StartStoreDoes ==
    ASSUME TabsTyped, StartStore
    PROVE  /\ Notes({}) /\ UNCHANGED <<childRun, chatTabs>> /\ StartUnderway("store")
           /\ Working({"start"}) /\ StartMoves("ready")
           /\ session' \in SessionKeys /\ session'.bound = [attempt |-> Attempt, tab |-> worker.start.tab]
           /\ \A a \in Attempts : session'.request[a] = IF a = Attempt THEN worker.start.tab ELSE session.request[a]
<1>1. worker \in TabsWork /\ session \in SessionKeys /\ StartUnderway("store") /\ tabLog \in TabsLog
  BY DEF TabsTyped, StartStore, StartAt, StartUnderway
<1>2. Attempt \in Attempts /\ Attempt \in 0..MaxAttempts /\ worker.start.tab \in 0..MaxTabs
  BY <1>1, TailWork, TabsNumbers, SMTT(20) DEF StartUnderway, TabsWork, StartWork
<1>3. [attempt |-> Attempt, tab |-> worker.start.tab] \in TabBounds
  BY <1>2 DEF TabBounds
<1>4. session' = [session EXCEPT !.request[Attempt] = worker.start.tab, !.bound = [attempt |-> Attempt, tab |-> worker.start.tab]]
  BY DEF StartStore
<1>5. session' \in SessionKeys /\ session'.bound = [attempt |-> Attempt, tab |-> worker.start.tab]
      /\ \A a \in Attempts : session'.request[a] = IF a = Attempt THEN worker.start.tab ELSE session.request[a]
  BY <1>1, <1>2, <1>3, <1>4 DEF SessionKeys
<1>6. "ready" \in StartSteps
  BY DEF StartSteps
<1> QED
  BY <1>1, <1>5, <1>6, StartSteps1 DEF StartStore, StartUnderway, StartMoves, Notes

LEMMA StartReadyDoes ==
    ASSUME TabsTyped, StartReady
    PROVE  /\ Notes({}) /\ UNCHANGED <<childRun, chatTabs, session>> /\ StartUnderway("ready")
           /\ \/ Working({"start"}) /\ StartMoves("again")
              \/ Working({"start", "settles"}) /\ StartOver /\ SettlesThese({Attempt})
<1>1. "again" \in StartSteps
  BY DEF StartSteps
<1>2. tabLog \in TabsLog
  BY DEF TabsTyped
<1> QED
  BY <1>1, <1>2, StartSteps1, StartEnds, LogSteps DEF StartReady, StartAt, StartUnderway, StartMoves, Notes

LEMMA StartAgainDoes ==
    ASSUME TabsTyped, StartAgain
    PROVE  /\ Notes({}) /\ UNCHANGED <<childRun, chatTabs, session>> /\ StartUnderway("again")
           /\ Working({"start"}) /\ IF Current(Attempt) THEN StartMoves("send") ELSE StartOver
<1>1. "send" \in StartSteps
  BY DEF StartSteps
<1>2. tabLog \in TabsLog
  BY DEF TabsTyped
<1> QED
  BY <1>1, <1>2, StartSteps1, StartEnds DEF StartAgain, StartAt, StartUnderway, StartMoves, Notes

LEMMA StartSendDoes ==
    ASSUME TabsTyped, StartSend
    PROVE  /\ Notes({}) /\ UNCHANGED <<childRun, session>> /\ StartUnderway("send")
           /\ chatTabs' \in [TabIds -> TabRows]
           /\ \/ /\ TabOpen(worker.start.tab) /\ Working({"start"}) /\ StartOver
                 /\ \A t \in TabIds :
                       /\ chatTabs'[t].open = chatTabs[t].open /\ chatTabs'[t].used = chatTabs[t].used
                       /\ chatTabs'[t].prompt = IF t = worker.start.tab THEN Attempt ELSE chatTabs[t].prompt
              \/ chatTabs' = chatTabs /\ Working({"start", "settles"}) /\ StartOver /\ SettlesThese({Attempt})
<1>1. worker \in TabsWork /\ StartUnderway("send") /\ tabLog \in TabsLog /\ chatTabs \in [TabIds -> TabRows]
  BY DEF TabsTyped, StartSend, StartAt, StartUnderway
<1>2. Attempt \in 0..MaxAttempts
  BY <1>1, TailWork, TabsNumbers DEF StartUnderway
<1>3. CASE TabOpen(worker.start.tab)
  <2>1. PICK t \in TabIds : t = worker.start.tab
    BY <1>3 DEF TabOpen
  <2>2. PICK c : c = IF chatTabs[t].conversation = 0 THEN t ELSE chatTabs[t].conversation
    OBVIOUS
  <2>3. c \in 0..MaxTabs
    BY <1>1, <2>1, <2>2, TabsNumbers DEF TabRows
  <2>4. chatTabs' = [chatTabs EXCEPT ![t].prompt = Attempt, ![t].conversation = c]
    <3>1. chatTabs' = [chatTabs EXCEPT ![t].prompt = Attempt, ![t].conversation = IF @ = 0 THEN t ELSE @]
      BY <1>3, <2>1 DEF StartSend
    <3>2. [chatTabs EXCEPT ![t].prompt = Attempt][t].conversation = chatTabs[t].conversation
      BY <1>1, <2>1 DEF TabRows
    <3> QED
      BY <1>1, <2>1, <2>2, <3>1, <3>2 DEF TabRows
  <2>5. /\ chatTabs' \in [TabIds -> TabRows]
        /\ \A u \in TabIds :
              /\ chatTabs'[u].open = chatTabs[u].open /\ chatTabs'[u].used = chatTabs[u].used
              /\ chatTabs'[u].prompt = IF u = t THEN Attempt ELSE chatTabs[u].prompt
    BY <1>1, <1>2, <2>3, <2>4 DEF TabRows
  <2>6. Working({"start"}) /\ StartOver
    BY <1>1, <1>3, StartEnds DEF StartSend, StartUnderway
  <2> QED
    BY <1>1, <1>3, <2>1, <2>5, <2>6 DEF StartSend, Notes
<1>4. CASE ~TabOpen(worker.start.tab)
  BY <1>1, <1>4, StartEnds DEF StartSend, StartUnderway, Notes
<1> QED
  BY <1>3, <1>4

LEMMA ReportReadDoes ==
    ASSUME TabsTyped, NEW t \in TabIds, NEW kind \in {"started", "result"}, ReportRead(t, kind)
    PROVE  /\ Notes({}) /\ UNCHANGED <<childRun, chatTabs, session>> /\ Working({"report"})
           /\ TabOpen(t) /\ chatTabs[t].prompt \in Attempts /\ session.request[chatTabs[t].prompt] = t
           /\ worker'.report.tab = t /\ worker'.report.attempt = chatTabs[t].prompt
<1>1. worker \in TabsWork /\ tabLog \in TabsLog /\ chatTabs \in [TabIds -> TabRows]
  BY DEF TabsTyped
<1>2. PICK r : r = [tab |-> t, attempt |-> chatTabs[t].prompt, kind |-> kind]
  OBVIOUS
<1>3. r \in ReportWork /\ r.tab = t /\ r.attempt = chatTabs[t].prompt
  BY <1>1, <1>2, TabsNumbers DEF ReportWork, TabRows
<1>4. worker' = [worker EXCEPT !.report = r] /\ chatTabs[t].prompt # 0
  BY <1>2 DEF ReportRead
<1>5. chatTabs[t].prompt \in Attempts
  BY <1>1, <1>4, TabsNumbers DEF TabRows
<1> QED
  BY <1>1, <1>3, <1>4, <1>5 DEF ReportRead, Working, Notes, TabsWork

\* What a report does to the run: nothing to the status and the attempt, the end of a run
\* at work, or the failure of the attempt.
LEMMA ReportPostDoes ==
    ASSUME TabsTyped, ReportPost, worker.report.attempt \in Attempts
    PROVE  /\ Notes({"slipped"}) /\ UNCHANGED chatTabs /\ Working({"report", "later"})
           /\ worker.report # NoReport /\ worker'.report = NoReport
           /\ tabLog'.slipped = (tabLog.slipped \/ session.request[worker.report.attempt] \notin {NoTab, worker.report.tab})
           /\ session' \in SessionKeys /\ session'.bound = session.bound
           /\ \A a \in Attempts : session'.request[a] =
                 IF a = worker.report.attempt THEN worker.report.tab ELSE session.request[a]
           /\ childRun' \in ChildRows
           /\ \/ childRun'.status = childRun.status /\ childRun'.attempt = childRun.attempt
              \/ childRun.status = "running" /\ childRun'.status = "completed" /\ childRun'.attempt = childRun.attempt
              \/ ChildFails(worker.report.attempt)
           /\ \/ worker'.later = worker.later
              \/ ChildOver' /\ worker'.later = worker.later \cup {worker.report.attempt}
<1>1. worker \in TabsWork /\ tabLog \in TabsLog /\ session \in SessionKeys /\ childRun \in ChildRows
      /\ chatTabs \in [TabIds -> TabRows] /\ worker.report \in ReportWork
  BY DEF TabsTyped, TabsWork
<1>2. PICK r : r = worker.report
  OBVIOUS
<1>3. r.attempt \in Attempts /\ r.tab \in 0..MaxTabs
  BY <1>1, <1>2 DEF ReportWork
<1>4. session' = [session EXCEPT !.request[r.attempt] = r.tab]
  BY <1>2 DEF ReportPost
<1>5. session' \in SessionKeys /\ session'.bound = session.bound
      /\ \A a \in Attempts : session'.request[a] = IF a = r.attempt THEN r.tab ELSE session.request[a]
  BY <1>1, <1>3, <1>4 DEF SessionKeys
<1>6. Notes({"slipped"}) /\ tabLog'.slipped = (tabLog.slipped \/ session.request[r.attempt] \notin {NoTab, r.tab})
  BY <1>1, <1>2 DEF ReportPost, Notes, TabsLog
<1>7. PICK w : w = [worker EXCEPT !.report = NoReport]
  OBVIOUS
<1>8. \/ worker' = w
      \/ /\ childRun'.status \in {"completed", "failed"}
         /\ worker' = [w EXCEPT !.later = worker.later \cup {r.attempt}]
  <2>1. w.later = worker.later
    BY <1>1, <1>7 DEF TabsWork
  <2> QED
    BY <1>2, <1>7, <2>1 DEF ReportPost
<1>9. /\ Working({"report", "later"}) /\ worker'.report = NoReport
      /\ worker'.later = worker.later \/ (ChildOver' /\ worker'.later = worker.later \cup {r.attempt})
  <2>1. /\ w \in TabsWork /\ w.starts = worker.starts /\ w.start = worker.start
        /\ w.closes = worker.closes /\ w.close = worker.close /\ w.settles = worker.settles
        /\ w.later = worker.later /\ w.gone = worker.gone /\ w.leaving = worker.leaving
        /\ w.moving = worker.moving /\ w.report = NoReport
    BY <1>1, <1>7, TabsNumbers DEF TabsWork
  <2>2. CASE worker' = w
    BY <2>1, <2>2 DEF Working
  <2>3. CASE childRun'.status \in {"completed", "failed"} /\ worker' = [w EXCEPT !.later = worker.later \cup {r.attempt}]
    <3>1. worker.later \cup {r.attempt} \in SUBSET Attempts
      BY <1>1, <1>3 DEF TabsWork
    <3> QED
      BY <2>1, <2>3, <3>1 DEF Working, TabsWork, ChildOver
  <2> QED
    BY <1>8, <2>2, <2>3
<1>10. \/ childRun' = WithIdentity(r.attempt, r.tab)
       \/ childRun' = AfterFailure(r.attempt)
       \/ childRun.status = "running" /\ childRun' = [childRun EXCEPT !.status = "completed"]
  BY <1>2 DEF ReportPost
<1>11. CASE childRun' = WithIdentity(r.attempt, r.tab)
  <2>1. childRun' \in ChildRows /\ childRun'.status = childRun.status /\ childRun'.attempt = childRun.attempt
    BY <1>1, <1>11 DEF WithIdentity, TabOpen, ChildRows, TabRows
  <2> QED
    BY <1>2, <1>5, <1>6, <1>9, <2>1 DEF ReportPost
<1>12. CASE childRun' = AfterFailure(r.attempt)
  <2>1. ChildFails(r.attempt)
    BY <1>3, <1>12, AfterFailureDoes
  <2> QED
    BY <1>2, <1>5, <1>6, <1>9, <2>1 DEF ReportPost, ChildFails
<1>13. CASE childRun.status = "running" /\ childRun' = [childRun EXCEPT !.status = "completed"]
  <2>1. childRun' \in ChildRows /\ childRun'.status = "completed" /\ childRun'.attempt = childRun.attempt
    BY <1>1, <1>13 DEF ChildRows
  <2> QED
    BY <1>2, <1>5, <1>6, <1>9, <1>13, <2>1 DEF ReportPost
<1> QED
  BY <1>10, <1>11, <1>12, <1>13

LEMMA CloseLaterDoes ==
    ASSUME TabsTyped, NEW a \in Attempts, CloseLater(a)
    PROVE  /\ Working({"close", "later"}) /\ Notes({}) /\ UNCHANGED <<childRun, chatTabs, session>>
           /\ a \in worker.later /\ worker.closes = <<>> /\ AsksFor(a, "later") /\ worker'.later = worker.later \ {a}
<1>1. [attempt |-> a, by |-> "later"] \in CloseAsked
  BY TabsNumbers DEF CloseAsked
<1>2. worker \in TabsWork /\ tabLog \in TabsLog
  BY DEF TabsTyped
<1>3. PICK c : c = Append(worker.closes, [attempt |-> a, by |-> "later"])
  OBVIOUS
<1>4. c \in Seq(CloseAsked)
  BY <1>1, <1>2, <1>3, AppendProperties DEF TabsWork
<1>5. worker' = [worker EXCEPT !.closes = c, !.later = worker.later \ {a}]
  BY <1>2, <1>3 DEF CloseLater, AskClose, TabsWork
<1>6. Working({"close", "later"}) /\ worker'.closes = c /\ worker'.close = worker.close /\ worker'.later = worker.later \ {a}
  BY <1>2, <1>4, <1>5 DEF Working, TabsWork
<1> QED
  BY <1>2, <1>3, <1>6 DEF CloseLater, Notes, AsksFor, NoClose

LEMMA RenewDoes ==
    ASSUME TabsTyped, NEW a \in Attempts, Renew(a)
    PROVE  /\ Working({"close"}) /\ Notes({}) /\ UNCHANGED <<childRun, chatTabs, session>>
           /\ session.request[a] # NoTab /\ (childRun.status = "failed" \/ childRun.attempt # a)
           /\ worker.closes = <<>> /\ AsksFor(a, "renewal")
<1>1. [attempt |-> a, by |-> "renewal"] \in CloseAsked
  BY TabsNumbers DEF CloseAsked
<1>2. worker \in TabsWork /\ tabLog \in TabsLog
  BY DEF TabsTyped
<1>3. Append(worker.closes, [attempt |-> a, by |-> "renewal"]) \in Seq(CloseAsked)
  BY <1>1, <1>2, AppendProperties DEF TabsWork
<1> QED
  BY <1>2, <1>3 DEF Renew, Working, Notes, AsksFor, AskClose, NoClose, TabsWork, TabsLog

LEMMA UserClosesDoes ==
    ASSUME TabsTyped, NEW t \in TabIds, UserCloses(t)
    PROVE  /\ Working({"gone"}) /\ Notes({}) /\ UNCHANGED <<childRun, session>>
           /\ TabOpen(t) /\ chatTabs' = [chatTabs EXCEPT ![t].open = FALSE]
           /\ worker'.gone = worker.gone \cup {t}
  BY LogSteps DEF UserCloses, TabsTyped, Working, Notes, TabsWork

LEMMA TabGoneReadDoes ==
    ASSUME TabsTyped, NEW t \in TabIds, TabGoneRead(t)
    PROVE  /\ Working({"gone", "leaving"}) /\ Notes({"slipped"}) /\ UNCHANGED <<childRun, chatTabs, session>>
           /\ t \in worker.gone /\ worker.leaving = NotLeaving /\ worker'.gone = worker.gone \ {t}
           /\ worker'.leaving = [tab |-> t, unbind |-> session.bound.tab = t,
                                 failed |-> {a \in Attempts : session.request[a] = t}]
           /\ tabLog'.slipped = (tabLog.slipped \/ t = worker.moving.to)
<1>1. worker \in TabsWork /\ tabLog \in TabsLog
  BY DEF TabsTyped
<1>2. PICK f : f = {a \in Attempts : session.request[a] = t}
  OBVIOUS
<1>3. PICK u \in BOOLEAN : u = (session.bound.tab = t)
  OBVIOUS
<1>4. PICK l : l = [tab |-> t, unbind |-> u, failed |-> f]
  OBVIOUS
<1>5. l \in LeaveWork
  BY <1>2, <1>4, TabsNumbers DEF LeaveWork
<1>6. worker' = [worker EXCEPT !.gone = worker.gone \ {t}, !.leaving = l]
  BY <1>1, <1>2, <1>3, <1>4 DEF TabGoneRead, TabsWork
<1>7. Working({"gone", "leaving"}) /\ worker'.gone = worker.gone \ {t} /\ worker'.leaving = l
  BY <1>1, <1>5, <1>6 DEF Working, TabsWork
<1>8. Notes({"slipped"}) /\ tabLog'.slipped = (tabLog.slipped \/ t = worker.moving.to)
  BY <1>1 DEF TabGoneRead, Notes, TabsLog
<1> QED
  BY <1>2, <1>3, <1>4, <1>7, <1>8 DEF TabGoneRead

LEMMA TabGoneApplyDoes ==
    ASSUME TabsTyped, TabGoneApply
    PROVE  /\ Working({"settles", "leaving"}) /\ Notes({"slipped"}) /\ UNCHANGED <<childRun, chatTabs>>
           /\ worker.leaving # NotLeaving /\ worker'.leaving = NotLeaving
           /\ SettlesThese({a \in worker.leaving.failed : session.request[a] # NoTab})
           /\ session' \in SessionKeys /\ session'.request = session.request
           /\ session'.bound = IF worker.leaving.unbind THEN Unbound ELSE session.bound
           /\ tabLog'.slipped = (tabLog.slipped \/
                 (worker.leaving.unbind /\ session.bound.tab \notin {NoTab, worker.leaving.tab}))
<1>1. worker \in TabsWork /\ tabLog \in TabsLog /\ session \in SessionKeys
  BY DEF TabsTyped
<1>2. PICK w : w = [worker EXCEPT !.leaving = NotLeaving]
  OBVIOUS
<1>3. /\ w \in TabsWork /\ w.starts = worker.starts /\ w.start = worker.start
      /\ w.closes = worker.closes /\ w.close = worker.close /\ w.settles = worker.settles
      /\ w.later = worker.later /\ w.gone = worker.gone /\ w.leaving = NotLeaving
      /\ w.moving = worker.moving /\ w.report = worker.report
  BY <1>1, <1>2, TabsNumbers DEF TabsWork
<1>4. PICK as : as = {a \in worker.leaving.failed : session.request[a] # NoTab}
  OBVIOUS
<1>5. PICK s : s = [a \in Attempts |-> IF a \in as /\ w.settles[a] = "none" THEN "look" ELSE w.settles[a]]
  OBVIOUS
<1>6. s \in [Attempts -> {"none", "look", "post"}]
  BY <1>3, <1>5 DEF TabsWork
<1>7. worker' = [w EXCEPT !.settles = s]
  BY <1>2, <1>4, <1>5 DEF TabGoneApply, Settling
<1>8. Working({"settles", "leaving"}) /\ worker'.settles = s /\ worker'.leaving = NotLeaving
  BY <1>3, <1>6, <1>7 DEF Working, TabsWork
<1>9. session' \in SessionKeys /\ session'.request = session.request
      /\ session'.bound = IF worker.leaving.unbind THEN Unbound ELSE session.bound
  BY <1>1, TabsNumbers DEF TabGoneApply, SessionKeys
<1>10. Notes({"slipped"}) /\ tabLog'.slipped = (tabLog.slipped \/
                 (worker.leaving.unbind /\ session.bound.tab \notin {NoTab, worker.leaving.tab}))
  BY <1>1 DEF TabGoneApply, Notes, TabsLog
<1>11. SettlesThese(as)
  BY <1>3, <1>5, <1>8 DEF SettlesThese
<1> QED
  BY <1>4, <1>8, <1>9, <1>10, <1>11 DEF TabGoneApply

LEMMA MovedTo ==
    ASSUME NEW f, NEW o, NEW r, NEW b, NEW q, NEW x
    PROVE  [[from |-> f, to |-> o, read |-> r, bound |-> b, requests |-> q] EXCEPT !.to = x]
             = [from |-> f, to |-> x, read |-> r, bound |-> b, requests |-> q]
  OBVIOUS

LEMMA TabReplacedDoes ==
    ASSUME TabsTyped, NEW t \in TabIds, TabReplaced(t)
    PROVE  /\ Working({"moving"}) /\ Notes({"slipped"}) /\ UNCHANGED <<childRun, session>>
           /\ TabOpen(t) /\ worker.moving = NotMoving
           /\ tabLog'.slipped \/ (worker.starts = <<>> /\ worker.closes = <<>> /\ ~tabLog.slipped)
           /\ tabLog.slipped => tabLog'.slipped
           /\ chatTabs' \in [TabIds -> TabRows]
           /\ \E s \in TabIds :
                 /\ ~chatTabs[s].used
                 /\ worker'.moving = [from |-> t, to |-> s, read |-> FALSE, bound |-> Unbound, requests |-> {}]
                 /\ s # t => /\ chatTabs'[s] = chatTabs[t]
                             /\ ~chatTabs'[t].open /\ chatTabs'[t].used = chatTabs[t].used /\ chatTabs'[t].prompt = 0
                             /\ \A u \in TabIds : u \notin {s, t} => chatTabs'[u] = chatTabs[u]
<1>1. worker \in TabsWork /\ tabLog \in TabsLog /\ chatTabs \in [TabIds -> TabRows]
  BY DEF TabsTyped
<1>2. PICK s \in TabIds :
        /\ ~chatTabs[s].used
        /\ chatTabs' = [chatTabs EXCEPT ![t].open = FALSE, ![t].prompt = 0, ![s] = chatTabs[t]]
        /\ worker' = [worker EXCEPT !.moving = [NotMoving EXCEPT !.from = t, !.to = s]]
  BY DEF TabReplaced
<1>3. PICK m : m = [from |-> t, to |-> s, read |-> FALSE, bound |-> Unbound, requests |-> {}]
  OBVIOUS
<1>4. m = [NotMoving EXCEPT !.from = t, !.to = s]
  <2>1. PICK n, z : n = [NotMoving EXCEPT !.from = t] /\ z = FALSE
    OBVIOUS
  <2>2. n = [from |-> t, to |-> NoTab, read |-> z, bound |-> Unbound, requests |-> {}]
    BY <2>1, Zenon DEF NotMoving
  <2>3. [n EXCEPT !.to = s] =
        [[from |-> t, to |-> NoTab, read |-> z, bound |-> Unbound, requests |-> {}] EXCEPT !.to = s]
    BY <2>2, Zenon
  <2>4. [[from |-> t, to |-> NoTab, read |-> z, bound |-> Unbound, requests |-> {}] EXCEPT !.to = s]
          = [from |-> t, to |-> s, read |-> z, bound |-> Unbound, requests |-> {}]
    BY MovedTo
  <2>5. m = [from |-> t, to |-> s, read |-> z, bound |-> Unbound, requests |-> {}]
    BY <1>3, <2>1, Zenon
  <2> QED
    BY <2>1, <2>3, <2>4, <2>5, Zenon
<1>5. m \in MoveWork
  BY <1>3, TabsNumbers DEF MoveWork
<1>6. Working({"moving"}) /\ worker'.moving = m
  BY <1>1, <1>2, <1>4, <1>5 DEF Working, TabsWork
<1>7. PICK o : o = [chatTabs[t] EXCEPT !.open = FALSE, !.prompt = 0]
  OBVIOUS
<1>8. o \in TabRows /\ ~o.open /\ o.used = chatTabs[t].used /\ o.prompt = 0
  <2>1. PICK x \in TabRows : x = chatTabs[t]
    BY <1>1
  <2>2. o = [x EXCEPT !.open = FALSE, !.prompt = 0] /\ 0 \in 0..MaxAttempts
    BY <1>7, <2>1, TabsNumbers
  <2> QED
    BY <2>1, <2>2 DEF TabRows
<1>9. chatTabs' = [chatTabs EXCEPT ![t] = o, ![s] = chatTabs[t]]
  BY <1>1, <1>2, <1>7 DEF TabRows
<1>10. /\ chatTabs' \in [TabIds -> TabRows]
       /\ s # t => /\ chatTabs'[s] = chatTabs[t] /\ chatTabs'[t] = o
                   /\ \A u \in TabIds : u \notin {s, t} => chatTabs'[u] = chatTabs[u]
  BY <1>1, <1>8, <1>9
<1>11. tabLog' = [Faulted EXCEPT !.slipped = @ \/ worker.starts \o worker.closes # <<>>]
  BY DEF TabReplaced
<1>12. worker.starts \o worker.closes = <<>> => worker.starts = <<>> /\ worker.closes = <<>>
  <2>1. worker.starts \in Seq(Attempts) /\ worker.closes \in Seq(CloseAsked)
    BY <1>1 DEF TabsWork
  <2> QED
    BY <2>1, EmptySeq
<1>13. /\ Notes({"slipped"}) /\ (tabLog.slipped => tabLog'.slipped)
       /\ tabLog'.slipped \/ (worker.starts = <<>> /\ worker.closes = <<>> /\ ~tabLog.slipped)
  BY <1>1, <1>11, <1>12, LogSteps DEF Notes, TabsLog
<1>14. /\ ~chatTabs[s].used
       /\ worker'.moving = [from |-> t, to |-> s, read |-> FALSE, bound |-> Unbound, requests |-> {}]
       /\ s # t => /\ chatTabs'[s] = chatTabs[t]
                   /\ ~chatTabs'[t].open /\ chatTabs'[t].used = chatTabs[t].used /\ chatTabs'[t].prompt = 0
                   /\ \A u \in TabIds : u \notin {s, t} => chatTabs'[u] = chatTabs[u]
  <2>1. worker'.moving = [from |-> t, to |-> s, read |-> FALSE, bound |-> Unbound, requests |-> {}]
    BY <1>3, <1>6, Zenon
  <2>2. s # t => /\ chatTabs'[s] = chatTabs[t]
                 /\ ~chatTabs'[t].open /\ chatTabs'[t].used = chatTabs[t].used /\ chatTabs'[t].prompt = 0
                 /\ \A u \in TabIds : u \notin {s, t} => chatTabs'[u] = chatTabs[u]
    BY <1>8, <1>10
  <2> QED
    BY <1>2, <2>1, <2>2, Zenon
<1>15. Notes({"slipped"}) /\ Working({"moving"}) /\ TabOpen(t) /\ worker.moving = NotMoving /\ UNCHANGED <<childRun, session>>
  BY <1>6, <1>13 DEF TabReplaced
<1>16. PICK r \in TabIds :
          /\ ~chatTabs[r].used
          /\ worker'.moving = [from |-> t, to |-> r, read |-> FALSE, bound |-> Unbound, requests |-> {}]
          /\ r # t => /\ chatTabs'[r] = chatTabs[t]
                      /\ ~chatTabs'[t].open /\ chatTabs'[t].used = chatTabs[t].used /\ chatTabs'[t].prompt = 0
                      /\ \A u \in TabIds : u \notin {r, t} => chatTabs'[u] = chatTabs[u]
  BY <1>14, Zenon
<1> QED
  BY <1>10, <1>13, <1>15, <1>16, Zenon

LEMMA MoveReadDoes ==
    ASSUME TabsTyped, MoveRead
    PROVE  /\ Working({"moving"}) /\ Notes({}) /\ UNCHANGED <<childRun, chatTabs, session>>
           /\ worker.moving # NotMoving /\ ~worker.moving.read
           /\ worker'.moving.read /\ worker'.moving.from = worker.moving.from /\ worker'.moving.to = worker.moving.to
           /\ worker'.moving.bound = IF session.bound.tab = worker.moving.from THEN session.bound ELSE Unbound
           /\ worker'.moving.requests = {a \in Attempts : session.request[a] = worker.moving.from}
<1>1. worker \in TabsWork /\ tabLog \in TabsLog /\ session.bound \in TabBounds /\ worker.moving \in MoveWork
  BY DEF TabsTyped, SessionKeys, TabsWork
<1>2. PICK b : b = IF session.bound.tab = worker.moving.from THEN session.bound ELSE Unbound
  OBVIOUS
<1>3. PICK f : f = {a \in Attempts : session.request[a] = worker.moving.from}
  OBVIOUS
<1>4. PICK m : m = [worker.moving EXCEPT !.read = TRUE, !.bound = b, !.requests = f]
  OBVIOUS
<1>5. b \in TabBounds /\ f \in SUBSET Attempts
  BY <1>1, <1>2, <1>3, TabsNumbers
<1>6. m \in MoveWork /\ m.read /\ m.from = worker.moving.from /\ m.to = worker.moving.to /\ m.bound = b /\ m.requests = f
  BY <1>1, <1>4, <1>5 DEF MoveWork
<1>7. worker' = [worker EXCEPT !.moving = m]
  BY <1>1, <1>2, <1>3, <1>4 DEF MoveRead, TabsWork, MoveWork
<1>8. Working({"moving"}) /\ worker'.moving = m
  BY <1>1, <1>6, <1>7 DEF Working, TabsWork
<1> QED
  BY <1>1, <1>2, <1>3, <1>6, <1>8 DEF MoveRead, Notes

LEMMA MoveWriteDoes ==
    ASSUME TabsTyped, MoveWrite
    PROVE  /\ Working({"moving"}) /\ Notes({"slipped"}) /\ UNCHANGED <<childRun, chatTabs>>
           /\ worker.moving.read /\ worker'.moving = NotMoving
           /\ session' \in SessionKeys
           /\ session'.bound = IF worker.moving.bound = Unbound THEN session.bound
                               ELSE [attempt |-> worker.moving.bound.attempt, tab |-> worker.moving.to]
           /\ \A a \in Attempts : session'.request[a] =
                 IF a \in worker.moving.requests THEN worker.moving.to ELSE session.request[a]
           /\ tabLog'.slipped = (tabLog.slipped \/
                 (worker.moving.bound # Unbound /\ session.bound # worker.moving.bound))
<1>1. worker \in TabsWork /\ tabLog \in TabsLog /\ session \in SessionKeys /\ worker.moving \in MoveWork
  BY DEF TabsTyped, TabsWork
<1>2. PICK m : m = worker.moving
  OBVIOUS
<1>3. [m.bound EXCEPT !.tab = m.to] = [attempt |-> m.bound.attempt, tab |-> m.to]
      /\ [attempt |-> m.bound.attempt, tab |-> m.to] \in TabBounds
  BY <1>1, <1>2 DEF MoveWork, TabBounds
<1>4. session' = [bound |-> IF m.bound = Unbound THEN session.bound ELSE [m.bound EXCEPT !.tab = m.to],
                  request |-> [a \in Attempts |-> IF a \in m.requests THEN m.to ELSE session.request[a]]]
  BY <1>2 DEF MoveWrite
<1>5. /\ session' \in SessionKeys
      /\ session'.bound = IF m.bound = Unbound THEN session.bound ELSE [attempt |-> m.bound.attempt, tab |-> m.to]
      /\ \A a \in Attempts : session'.request[a] = IF a \in m.requests THEN m.to ELSE session.request[a]
  BY <1>1, <1>2, <1>3, <1>4 DEF SessionKeys, MoveWork
<1>6. Working({"moving"}) /\ worker'.moving = NotMoving
  BY <1>1, TabsNumbers DEF MoveWrite, Working, TabsWork
<1>7. Notes({"slipped"}) /\ tabLog'.slipped = (tabLog.slipped \/ (m.bound # Unbound /\ session.bound # m.bound))
  BY <1>1, <1>2 DEF MoveWrite, Notes, TabsLog
<1> QED
  BY <1>2, <1>5, <1>6, <1>7 DEF MoveWrite

LEMMA WorkerRestartsDoes ==
    ASSUME TabsTyped, WorkerRestarts
    PROVE  /\ UNCHANGED <<childRun, chatTabs, session>> /\ Notes({"slipped", "lost"})
           /\ worker' = FreshWorker /\ worker' \in TabsWork /\ tabLog'.lost
           /\ tabLog'.slipped = (tabLog.slipped \/ worker.close.step = "remove" \/ worker.moving # NotMoving)
<1>1. tabLog' = [ReplyLost EXCEPT !.slipped = @ \/ worker.close.step = "remove" \/ worker.moving # NotMoving]
  BY DEF WorkerRestarts
<1>2. /\ Notes({"slipped", "lost"}) /\ tabLog'.lost
      /\ tabLog'.slipped = (tabLog.slipped \/ worker.close.step = "remove" \/ worker.moving # NotMoving)
  BY <1>1, LogSteps DEF Notes, TabsLog
<1> QED
  BY <1>2, FreshFits DEF WorkerRestarts

\* Until something slips: tabs that were closed stay closed, and every key and every piece of
\* work is about a tab that was opened.
WholeBound(b) == b.attempt = 0 <=> b.tab = 0
OverAt(a) == ChildOver \/ childRun.attempt > a
InUse(t) == t = NoTab \/ chatTabs[t].used
Gone(t) == chatTabs[t].used /\ ~chatTabs[t].open
Moving == worker.moving # NotMoving

TabsFit ==
    /\ \A t \in TabIds : chatTabs[t].open \/ chatTabs[t].prompt # 0 => chatTabs[t].used
    /\ WholeBound(session.bound) /\ InUse(session.bound.tab)
    /\ \A a \in Attempts : InUse(session.request[a])
    /\ \A t \in worker.gone : Gone(t)
    /\ InUse(worker.leaving.tab) /\ ~TabOpen(worker.leaving.tab)
    /\ InUse(worker.start.tab)
    /\ InUse(worker.close.bound.tab) /\ WholeBound(worker.close.bound)
    /\ InUse(worker.report.tab)
    /\ InUse(worker.moving.to) /\ InUse(worker.moving.from) /\ ~TabOpen(worker.moving.from)
    /\ WholeBound(worker.moving.bound)

AttemptsFit ==
    /\ session.bound.attempt <= childRun.attempt
    /\ \A a \in Attempts : session.request[a] # NoTab => a <= childRun.attempt
    /\ \A i \in DOMAIN worker.starts : worker.starts[i] <= childRun.attempt
    /\ \A a \in tabLog.asked : a <= childRun.attempt
    /\ worker.report = NoReport \/ (worker.report.attempt \in 1..childRun.attempt /\ worker.report.tab # NoTab)
    /\ worker.moving.bound.attempt <= childRun.attempt
    /\ \A a \in worker.moving.requests : a <= childRun.attempt
    /\ worker.start.old <= childRun.attempt
    /\ worker.start.step \notin {"look", "beat"} =>
          /\ \A a \in Attempts : a > Attempt => session.request[a] = NoTab
          /\ worker.report = NoReport \/ worker.report.attempt <= Attempt

WorkFits ==
    /\ worker.start.step \in {"store", "ready", "again", "send"} => worker.start.tab # NoTab
    /\ worker.start.step = "drop" => worker.start.old # 0 /\ worker.start.old <= Attempt
    /\ worker.closes = <<>> => worker.close.step = "look"
    /\ worker.close.step # "look" => worker.close.bound.attempt # 0
    /\ Moving => worker.moving.from # NoTab /\ worker.moving.to # NoTab /\ worker.moving.from # worker.moving.to
                 /\ worker.start.step = "look" /\ worker.close.step = "look"
                 /\ worker.moving.from \notin worker.gone /\ worker.leaving.tab # worker.moving.from
    /\ worker.leaving.tab = NoTab => worker.leaving = NotLeaving
    /\ worker.moving.read /\ worker.moving.bound # Unbound => worker.moving.bound.tab = worker.moving.from
    /\ worker.moving.read => \A a \in worker.moving.requests : session.request[a] = worker.moving.from

Closing(t) == worker.close.step = "remove" /\ worker.close.bound.tab = t
TabsNamed ==
    /\ \A t \in TabIds : chatTabs[t].open /\ chatTabs[t].prompt # 0 =>
          session.bound.tab = t \/ Closing(t) \/ worker.moving.to = t
    /\ Moving /\ TabOpen(worker.moving.to) /\ chatTabs[worker.moving.to].prompt # 0 =>
          (IF worker.moving.read THEN worker.moving.bound.tab ELSE session.bound.tab) = worker.moving.from
    /\ worker.start.step \in {"ready", "again", "send"} /\ TabOpen(worker.start.tab) =>
          session.bound.tab = worker.start.tab \/ Closing(worker.start.tab)
    /\ worker.start.step \in {"ready", "again", "send"} =>
          session.request[Attempt] = worker.start.tab \/ OverAt(Attempt)
    /\ worker.start.step \in {"open", "store"} => session.bound = Unbound
    /\ worker.start.step \in {"beat", "drop"} => session.bound = Unbound \/ session.bound.attempt = worker.start.old
    /\ worker.start.step = "drop" =>
          session.bound = Unbound \/ \E i \in DOMAIN worker.closes : worker.closes[i].by = "start"
    /\ worker.close.step = "remove" /\ Head(worker.closes).by = "start" => session.bound = Unbound

ClosesFit ==
    /\ \A i \in DOMAIN worker.closes :
          LET e == worker.closes[i] IN
          /\ e.by = "interface" => childRun.status = "failed" /\ e.attempt = 0
          /\ e.by \in {"settle", "later", "renewal"} => e.attempt # 0 /\ OverAt(e.attempt)
          /\ e.by = "start" => worker.start.step = "drop" /\ e.attempt = worker.start.old
    /\ \A a \in worker.later : OverAt(a)
    /\ worker.start.step = "beat" /\ worker.start.old = Attempt => ~TabOpen(session.bound.tab)
    /\ worker.start.step = "drop" => OverAt(worker.start.old) \/ ~TabOpen(session.bound.tab)
    /\ worker.close.step # "look" =>
         \/ OverAt(worker.close.bound.attempt)
         \/ /\ ~TabOpen(worker.close.bound.tab)
            /\ worker.start.step = "drop" /\ Head(worker.closes).by = "start"
            /\ worker.close.bound.attempt = worker.start.old

TabShows(t, a) == TabOpen(t) /\ chatTabs[t].prompt = a
TabWatched(a) ==
    /\ session.request[a] # NoTab
    /\ \/ TabShows(session.request[a], a)
       \/ session.request[a] \in worker.gone
       \/ a \in worker.leaving.failed
       \/ /\ Moving /\ session.request[a] = worker.moving.from
          /\ worker.moving.read => a \in worker.moving.requests
          /\ TabShows(worker.moving.to, a) \/ worker.moving.to \in worker.gone
Accounted ==
    LET a == childRun.attempt IN
    ~tabLog.lost /\ ~tabLog.unreported /\ childRun.status = "pending" =>
      /\ a \in tabLog.asked =>
            \/ \E i \in DOMAIN worker.starts : worker.starts[i] = a
            \/ worker.settles[a] # "none" \/ TabWatched(a)
      /\ session.bound.attempt = a =>
            \/ worker.starts # <<>> /\ Attempt = a /\ worker.start.step # "look"
            \/ worker.settles[a] # "none" \/ TabWatched(a)

TabsSound == TabsFit /\ AttemptsFit /\ WorkFits /\ TabsNamed /\ ClosesFit /\ Accounted
TabsInv == TabsTyped /\ (~tabLog.slipped => TabsSound)

LEMMA TabsStart == TabsInit => TabsInv
<1> SUFFICES ASSUME TabsInit PROVE TabsInv
  OBVIOUS
<1>1. childRun \in ChildRows /\ childRun.status = "pending" /\ childRun.attempt = 1
  BY TabsNumbers DEF TabsInit, ChildRows
<1>2. chatTabs \in [TabIds -> TabRows] /\ \A t \in TabIds : ~chatTabs[t].open /\ ~chatTabs[t].used /\ chatTabs[t].prompt = 0
  BY TabsNumbers DEF TabsInit, TabRows, NoTabYet
<1>3. session \in SessionKeys /\ session.bound = Unbound /\ \A a \in Attempts : session.request[a] = NoTab
  BY TabsNumbers DEF TabsInit, SessionKeys, NoTab
<1>4. worker = FreshWorker /\ worker \in TabsWork
  BY FreshFits DEF TabsInit
<1>5. /\ worker.starts = <<>> /\ worker.start = NoStart /\ worker.closes = <<>> /\ worker.close = NoClosing
      /\ worker.settles = [a \in Attempts |-> "none"] /\ worker.later = {} /\ worker.gone = {}
      /\ worker.leaving = NotLeaving /\ worker.moving = NotMoving /\ worker.report = NoReport
  BY <1>4 DEF FreshWorker, NoStart, NoClosing
<1>6. tabLog \in TabsLog /\ tabLog.asked = {}
  BY DEF TabsInit, TabsLog
<1>7. TabsTyped
  BY <1>1, <1>2, <1>3, <1>4, <1>5, <1>6 DEF TabsTyped, NoStart, NoClosing
<1>8. TabsFit
  BY <1>2, <1>3, <1>5, TabsNumbers DEF TabsFit, WholeBound, InUse, Gone, TabOpen, NoStart, NoClosing, Unbound, NotLeaving, NotMoving, NoReport, NoTab
<1>9. AttemptsFit
  BY <1>1, <1>3, <1>5, <1>6 DEF AttemptsFit, Unbound, NotMoving, NoStart
<1>10. WorkFits
  BY <1>5, FreshFits DEF WorkFits, NoStart, NoClosing, Moving, FreshWorker, NotMoving, NotLeaving
<1>11. TabsNamed
  BY <1>2, <1>5 DEF TabsNamed, NoStart, NoClosing, Moving
<1>12. ClosesFit
  BY <1>5 DEF ClosesFit, NoStart, NoClosing
<1>13. Accounted
  BY <1>1, <1>3, <1>6 DEF Accounted, Unbound
<1> QED
  BY <1>7, <1>8, <1>9, <1>10, <1>11, <1>12, <1>13 DEF TabsInv, TabsSound

\* A queue with one piece of work more.
LEMMA AppendNonempty ==
    ASSUME NEW S, NEW s \in Seq(S), NEW e \in S
    PROVE  /\ Append(s, e) \in Seq(S) /\ Append(s, e) # <<>>
           /\ Len(s) \in Nat /\ Len(s) + 1 \in DOMAIN Append(s, e) /\ Append(s, e)[Len(s) + 1] = e
           /\ \A i \in DOMAIN s : i \in DOMAIN Append(s, e) /\ Append(s, e)[i] = s[i]
           /\ \A i \in DOMAIN Append(s, e) : Append(s, e)[i] = e \/ (i \in DOMAIN s /\ Append(s, e)[i] = s[i])
           /\ Head(Append(s, e)) = IF s = <<>> THEN e ELSE Head(s)
<1>1. PICK n \in Nat : n = Len(s) /\ (n = 0 <=> s = <<>>)
  BY EmptySeq
<1>2. PICK t : t = Append(s, e)
  OBVIOUS
<1>3. t \in Seq(S) /\ Len(t) = n + 1 /\ t[n + 1] = e /\ \A i \in 1..n : t[i] = s[i]
  BY <1>1, <1>2, AppendProperties
<1>4. DOMAIN s = 1..n /\ DOMAIN t = 1..(n + 1)
  BY <1>1, <1>3, LenProperties
<1>5. t # <<>> /\ Head(t) = t[1]
  BY <1>1, <1>3, EmptySeq
<1>6. Head(t) = IF s = <<>> THEN e ELSE Head(s)
  BY <1>1, <1>3, <1>5
<1> QED
  BY <1>1, <1>2, <1>3, <1>4, <1>5, <1>6

\* Only a report about an attempt is under way.
LEMMA ReportAttempt == TabsTyped /\ ReportPost => worker.report.attempt \in Attempts
  BY DEF TabsTyped, ReportPost

\* The types hold whatever slips.
LEMMA TabsTypedStep ==
    ASSUME TabsTyped, [TabsNext]_tabVars
    PROVE  TabsTyped'
<1>1. CASE ChildClaims
  BY <1>1, ChildClaimsDoes DEF TabsTyped, Working, Notes
<1>2. CASE ChildEnds
  BY <1>2, ChildEndsDoes DEF TabsTyped, Working, Notes
<1>3. CASE InterfaceCloses
  BY <1>3, InterfaceClosesDoes, AppendNonempty DEF TabsTyped, Working, Notes, AsksFor
<1>4. CASE CloseLook
  BY <1>4, CloseLookDoes DEF TabsTyped, Working, Notes, CloseOver, NoClosing
<1>5. CASE CloseRelease
  BY <1>5, CloseReleaseDoes DEF TabsTyped, Working, Notes, CloseOver, NoClosing
<1>6. CASE CloseUnbind
  BY <1>6, CloseUnbindDoes DEF TabsTyped, Working, Notes, CloseOver, NoClosing
<1>7. CASE CloseRemove
  BY <1>7, CloseRemoveDoes, ShutTabDoes DEF TabsTyped, Working, Notes, CloseOver, NoClosing
<1>8. CASE StartLook
  BY <1>8, StartLookDoes DEF TabsTyped, Working, Notes, StartUnderway, StartOver, NoStart, StartMoves, AsksFor
<1>9. CASE StartBeat
  BY <1>9, StartBeatDoes, AppendNonempty DEF TabsTyped, Working, Notes, StartUnderway, StartOver, NoStart, StartMoves, AsksFor
<1>10. CASE StartDropped
  BY <1>10, StartDroppedDoes DEF TabsTyped, Working, Notes, StartUnderway, StartOver, NoStart, StartMoves, AsksFor
<1>11. CASE StartOpen
  BY <1>11, StartOpenDoes DEF TabsTyped, Working, Notes, StartUnderway, StartOver, NoStart, StartMoves, AsksFor
<1>12. CASE StartStore
  BY <1>12, StartStoreDoes DEF TabsTyped, Working, Notes, StartUnderway, StartOver, NoStart, StartMoves, AsksFor
<1>13. CASE StartReady
  BY <1>13, StartReadyDoes DEF TabsTyped, Working, Notes, StartUnderway, StartOver, NoStart, StartMoves, AsksFor
<1>14. CASE StartAgain
  BY <1>14, StartAgainDoes DEF TabsTyped, Working, Notes, StartUnderway, StartOver, NoStart, StartMoves, AsksFor
<1>15. CASE StartSend
  BY <1>15, StartSendDoes DEF TabsTyped, Working, Notes, StartUnderway, StartOver, NoStart, StartMoves, AsksFor
<1>16. CASE ReportPost
  BY <1>16, ReportAttempt, ReportPostDoes DEF TabsTyped, Working, Notes, ChildFails
<1>17. CASE TabGoneApply
  BY <1>17, TabGoneApplyDoes DEF TabsTyped, Working, Notes
<1>18. CASE MoveRead
  BY <1>18, MoveReadDoes DEF TabsTyped, Working, Notes
<1>19. CASE MoveWrite
  BY <1>19, MoveWriteDoes DEF TabsTyped, Working, Notes
<1>20. CASE WorkerRestarts
  BY <1>20, WorkerRestartsDoes DEF TabsTyped, Working, Notes, FreshWorker
<1>21. ASSUME NEW a \in Attempts, Dispatch(a) PROVE TabsTyped'
  BY <1>21, DispatchDoes, AppendNonempty DEF TabsTyped, Working, Notes
<1>22. ASSUME NEW a \in Attempts, SettleLook(a) PROVE TabsTyped'
  BY <1>22, SettleLookDoes DEF TabsTyped, Working, Notes
<1>23. ASSUME NEW a \in Attempts, SettlePost(a) PROVE TabsTyped'
  BY <1>23, SettlePostDoes, AppendNonempty DEF TabsTyped, Working, Notes, AsksFor, ChildFails
<1>24. ASSUME NEW a \in Attempts, CloseLater(a) PROVE TabsTyped'
  BY <1>24, CloseLaterDoes, AppendNonempty DEF TabsTyped, Working, Notes, AsksFor
<1>25. ASSUME NEW a \in Attempts, Renew(a) PROVE TabsTyped'
  BY <1>25, RenewDoes, AppendNonempty DEF TabsTyped, Working, Notes, AsksFor
<1>26. ASSUME NEW t \in TabIds, UserCloses(t) PROVE TabsTyped'
  BY <1>26, UserClosesDoes, ShutTabDoes DEF TabsTyped, Working, Notes
<1>27. ASSUME NEW t \in TabIds, TabGoneRead(t) PROVE TabsTyped'
  BY <1>27, TabGoneReadDoes DEF TabsTyped, Working, Notes
<1>28. ASSUME NEW t \in TabIds, TabReplaced(t) PROVE TabsTyped'
  BY <1>28, TabReplacedDoes DEF TabsTyped, Working, Notes
<1>29. ASSUME NEW t \in TabIds, NEW kind \in {"started", "result"}, ReportRead(t, kind) PROVE TabsTyped'
  BY <1>29, ReportReadDoes DEF TabsTyped, Working, Notes
<1>30. CASE UNCHANGED tabVars
  BY <1>30 DEF tabVars, TabsTyped
<1> QED
  BY <1>1, <1>2, <1>3, <1>4, <1>5, <1>6, <1>7, <1>8, <1>9, <1>10, <1>11, <1>12, <1>13, <1>14, <1>15, <1>16, <1>17, <1>18, <1>19, <1>20, <1>21, <1>22, <1>23, <1>24, <1>25, <1>26, <1>27, <1>28, <1>29, <1>30 DEF TabsNext

\* The numbers among the fields.
LEMMA TabsShapes ==
    ASSUME TabsTyped
    PROVE  /\ childRun.attempt \in Attempts /\ session.bound \in TabBounds
           /\ childRun.attempt \in Nat /\ session.bound.attempt \in Nat /\ session.bound.tab \in Nat
           /\ \A a \in Attempts : a \in Nat /\ a # 0 /\ session.request[a] \in Nat
           /\ worker.starts \in Seq(Attempts) /\ \A i \in DOMAIN worker.starts : worker.starts[i] \in Nat
           /\ worker.closes \in Seq(CloseAsked)
           /\ worker.start.old \in Nat /\ worker.start.tab \in Nat
           /\ worker.close.bound \in TabBounds /\ worker.close.bound.attempt \in Nat
           /\ worker.moving.bound \in TabBounds /\ worker.moving.bound.attempt \in Nat
           /\ worker.starts # <<>> => Attempt \in Attempts /\ Attempt \in Nat
           /\ worker.start.step # "look" => worker.starts # <<>> /\ Attempt \in Attempts
           /\ worker.close.step # "look" => worker.closes # <<>>
           /\ worker.gone \subseteq TabIds /\ worker.leaving.failed \subseteq Attempts
           /\ \A t \in TabIds : t \in Nat /\ t # 0
           /\ \A n \in Nat : n \in TabIds <=> n \in 1..MaxTabs
<1>1. childRun \in ChildRows /\ session \in SessionKeys /\ worker \in TabsWork /\ MaxAttempts \in Nat /\ MaxTabs \in Nat
      /\ Attempts = 1..MaxAttempts /\ TabIds = 1..MaxTabs
  BY TabsNumbers DEF TabsTyped
<1>2. worker.starts # <<>> => Attempt \in Attempts
  BY TailWork
<1>3. \A i \in DOMAIN worker.starts : worker.starts[i] \in Attempts
  BY <1>1 DEF TabsWork
<1>4. childRun.attempt \in Attempts /\ session.bound \in TabBounds /\ \A a \in Attempts : session.request[a] \in 0..MaxTabs
  BY <1>1 DEF ChildRows, SessionKeys
<1>5. worker.starts \in Seq(Attempts) /\ worker.closes \in Seq(CloseAsked) /\ worker.start \in StartWork /\ worker.close \in CloseWork
      /\ worker.gone \subseteq TabIds /\ worker.leaving \in LeaveWork /\ worker.moving \in MoveWork
  BY <1>1 DEF TabsWork
<1>6. worker.start.old \in Nat /\ worker.start.tab \in Nat /\ worker.close.bound \in TabBounds
      /\ worker.moving.bound \in TabBounds /\ worker.leaving.failed \subseteq Attempts
  BY <1>1, <1>5 DEF StartWork, CloseWork, LeaveWork, MoveWork
<1>7. \A b \in TabBounds : b.attempt \in Nat /\ b.tab \in Nat
  BY <1>1 DEF TabBounds
<1>8. \A n \in Nat : n \in TabIds <=> n \in 1..MaxTabs
  BY <1>1
<1>9. \A a \in Attempts : a \in Nat /\ a # 0
  BY <1>1
<1>10. \A t \in TabIds : t \in Nat /\ t # 0
  BY <1>1
<1>11. \A t \in 0..MaxTabs : t \in Nat
  BY <1>1
<1>12. (worker.start.step # "look" => worker.starts # <<>>) /\ (worker.close.step # "look" => worker.closes # <<>>)
  BY DEF TabsTyped
<1> QED
  BY <1>2, <1>3, <1>4, <1>5, <1>6, <1>7, <1>8, <1>9, <1>10, <1>11, <1>12

\* A binding that names an attempt or a tab names both.
LEMMA BoundParts ==
    ASSUME NEW b \in TabBounds, WholeBound(b)
    PROVE  (b = Unbound <=> b.attempt = 0) /\ (b = Unbound <=> b.tab = NoTab)
  BY DEF TabBounds, Unbound, WholeBound, NoTab

\* Every tab a key or a piece of work names is one of the browser's, or none.
LEMMA TabsPlaces ==
    ASSUME TabsTyped
    PROVE  /\ session.bound.tab \in TabIds \cup {NoTab} /\ \A a \in Attempts : session.request[a] \in TabIds \cup {NoTab}
           /\ worker.gone \subseteq TabIds /\ worker.leaving.tab \in TabIds \cup {NoTab}
           /\ worker.start.tab \in TabIds \cup {NoTab} /\ worker.close.bound.tab \in TabIds \cup {NoTab}
           /\ worker.report.tab \in TabIds \cup {NoTab}
           /\ worker.moving.from \in TabIds \cup {NoTab} /\ worker.moving.to \in TabIds \cup {NoTab}
           /\ worker.moving.bound.tab \in TabIds \cup {NoTab} /\ NoTab \notin TabIds
<1>1. session \in SessionKeys /\ worker \in TabsWork /\ 0..MaxTabs = TabIds \cup {NoTab} /\ NoTab \notin TabIds
  BY TabsNumbers DEF TabsTyped, NoTab
<1>2. session.bound \in TabBounds /\ \A a \in Attempts : session.request[a] \in 0..MaxTabs
  BY <1>1 DEF SessionKeys
<1>3. worker.start \in StartWork /\ worker.close \in CloseWork /\ worker.gone \subseteq TabIds
      /\ worker.leaving \in LeaveWork /\ worker.moving \in MoveWork /\ worker.report \in ReportWork
  BY <1>1 DEF TabsWork
<1>4. /\ worker.start.tab \in 0..MaxTabs /\ worker.close.bound \in TabBounds /\ worker.leaving.tab \in 0..MaxTabs
      /\ worker.moving.from \in 0..MaxTabs /\ worker.moving.to \in 0..MaxTabs /\ worker.moving.bound \in TabBounds
      /\ worker.report.tab \in 0..MaxTabs
  BY <1>3 DEF StartWork, CloseWork, LeaveWork, MoveWork, ReportWork
<1>5. \A b \in TabBounds : b.tab \in 0..MaxTabs
  BY DEF TabBounds
<1> QED
  BY <1>1, <1>2, <1>3, <1>4, <1>5

\* The rest of a queue.
LEMMA StartTail ==
    ASSUME TabsTyped, worker.starts # <<>>
    PROVE  /\ 1 \in DOMAIN worker.starts /\ Attempt = worker.starts[1]
           /\ \A i \in DOMAIN Tail(worker.starts) : i + 1 \in DOMAIN worker.starts /\ Tail(worker.starts)[i] = worker.starts[i + 1]
           /\ \A j \in DOMAIN worker.starts : j = 1 \/ (j - 1 \in DOMAIN Tail(worker.starts) /\ Tail(worker.starts)[j - 1] = worker.starts[j])
<1>1. worker.starts \in Seq(Attempts)
  BY DEF TabsTyped, TabsWork
<1> QED
  BY <1>1, QueueParts DEF Attempt
LEMMA CloseTail ==
    ASSUME TabsTyped, worker.closes # <<>>
    PROVE  /\ 1 \in DOMAIN worker.closes /\ Head(worker.closes) = worker.closes[1]
           /\ \A i \in DOMAIN Tail(worker.closes) : i + 1 \in DOMAIN worker.closes /\ Tail(worker.closes)[i] = worker.closes[i + 1]
           /\ \A j \in DOMAIN worker.closes : j = 1 \/ (j - 1 \in DOMAIN Tail(worker.closes) /\ Tail(worker.closes)[j - 1] = worker.closes[j])
<1>1. worker.closes \in Seq(CloseAsked)
  BY DEF TabsTyped, TabsWork
<1> QED
  BY <1>1, QueueParts
\* A start that is over leaves the queue to the rest; the failed one is put down to be reported.
LEMMA StartLeaves ==
    ASSUME TabsTyped, worker.starts # <<>>, StartOver
    PROVE  /\ worker'.start.step = "look" /\ worker'.start.tab = NoTab /\ worker'.start.old = 0
           /\ \A i \in DOMAIN worker'.starts : \E j \in DOMAIN worker.starts : worker'.starts[i] = worker.starts[j]
           /\ \A j \in DOMAIN worker.starts :
                 worker.starts[j] = Attempt \/ \E i \in DOMAIN worker'.starts : worker'.starts[i] = worker.starts[j]
<1>1. PICK s : s = worker.starts /\ s # <<>>
  OBVIOUS
<1>2. PICK r : r = Tail(s)
  OBVIOUS
<1>3. /\ Attempt = s[1]
      /\ \A i \in DOMAIN r : i + 1 \in DOMAIN s /\ r[i] = s[i + 1]
      /\ \A j \in DOMAIN s : j = 1 \/ (j - 1 \in DOMAIN r /\ r[j - 1] = s[j])
  BY <1>1, <1>2, StartTail
<1>4. worker'.starts = r /\ worker'.start = NoStart
  BY <1>1, <1>2 DEF StartOver
<1>5. worker'.start.step = "look" /\ worker'.start.tab = NoTab /\ worker'.start.old = 0
  BY <1>4 DEF NoStart
<1>6. ASSUME NEW j \in DOMAIN s PROVE s[j] = Attempt \/ \E i \in DOMAIN r : r[i] = s[j]
  BY <1>3
<1>7. ASSUME NEW i \in DOMAIN r PROVE \E j \in DOMAIN s : r[i] = s[j]
  BY <1>3
<1> QED
  BY <1>1, <1>4, <1>5, <1>6, <1>7, Zenon

LEMMA StartOverSound ==
    ASSUME TabsTyped, TabsSound, worker.starts # <<>>, worker.start.step # "drop", StartOver,
           Working({"start", "settles"}), Notes({"slipped"}), UNCHANGED <<childRun, chatTabs, session>>,
           \A a \in Attempts : worker.settles[a] # "none" => worker'.settles[a] # "none",
           ~tabLog.lost /\ ~tabLog.unreported /\ Current(Attempt) => worker'.settles[Attempt] # "none" \/ TabWatched(Attempt)
    PROVE  TabsSound'
<1>1. TabsFit /\ AttemptsFit /\ WorkFits /\ TabsNamed /\ ClosesFit /\ Accounted
  BY DEF TabsSound
<1>2. /\ worker'.closes = worker.closes /\ worker'.close = worker.close /\ worker'.later = worker.later
      /\ worker'.gone = worker.gone /\ worker'.leaving = worker.leaving /\ worker'.moving = worker.moving
      /\ worker'.report = worker.report /\ tabLog'.asked = tabLog.asked /\ tabLog'.lost = tabLog.lost
      /\ tabLog'.unreported = tabLog.unreported /\ childRun' = childRun /\ chatTabs' = chatTabs /\ session' = session
  BY DEF Working, Notes
<1>3. /\ worker'.start.step = "look" /\ worker'.start.tab = NoTab /\ worker'.start.old = 0
      /\ \A i \in DOMAIN worker'.starts : \E j \in DOMAIN worker.starts : worker'.starts[i] = worker.starts[j]
      /\ \A j \in DOMAIN worker.starts :
            worker.starts[j] = Attempt \/ \E i \in DOMAIN worker'.starts : worker'.starts[i] = worker.starts[j]
  BY StartLeaves
<1>4. \A i \in DOMAIN worker.closes : worker.closes[i].by # "start"
  BY <1>1 DEF ClosesFit
<1>5. worker.closes # <<>> => Head(worker.closes).by # "start"
  BY <1>4, CloseTail
<1>11. TabsFit'
  BY <1>1, <1>2, <1>3 DEF TabsFit, WholeBound, InUse, Gone, TabOpen
<1>12. AttemptsFit'
  BY <1>1, <1>2, <1>3, TabsShapes, SMTT(20) DEF AttemptsFit
<1>13. WorkFits'
  BY <1>1, <1>2, <1>3 DEF WorkFits, Moving
<1>14. TabsNamed'
  BY <1>1, <1>2, <1>3, <1>4, <1>5 DEF TabsNamed, Closing, Moving, TabOpen
<1>15. ClosesFit'
  BY <1>1, <1>2, <1>3, <1>4, <1>5 DEF ClosesFit, OverAt, ChildOver
<1>16. Accounted'
  <2>1. \A a \in Attempts : TabWatched(a)' <=> TabWatched(a)
    BY <1>2 DEF TabWatched, TabShows, TabOpen, Moving
  <2>2. childRun.status = "pending" /\ Attempt = childRun.attempt => Current(Attempt)
    BY DEF Current
  <2>3. childRun.attempt \in Attempts
    BY TabsShapes
  <2>4. ~tabLog.lost /\ ~tabLog.unreported /\ childRun.status = "pending" /\ Attempt = childRun.attempt =>
           worker'.settles[childRun.attempt] # "none" \/ TabWatched(childRun.attempt)'
    BY <2>1, <2>2, <2>3
  <2> QED
    BY <1>1, <1>2, <1>3, <2>1, <2>3, <2>4 DEF Accounted
<1> QED
  BY <1>11, <1>12, <1>13, <1>14, <1>15, <1>16 DEF TabsSound

LEMMA SettleStart ==
    ASSUME TabsTyped, worker.starts # <<>>, SettlesThese({Attempt})
    PROVE  /\ \A a \in Attempts : worker.settles[a] # "none" => worker'.settles[a] # "none"
           /\ worker'.settles[Attempt] # "none"
<1>1. Attempt \in Attempts
  BY TabsShapes
<1> QED
  BY <1>1 DEF SettlesThese

LEMMA LaterParts == TabsTyped => worker.later \subseteq Nat /\ \A i \in DOMAIN worker.closes : worker.closes[i] \in CloseAsked
  BY TabsNumbers DEF TabsTyped, TabsWork

LEMMA SettlePostKeepsLost ==
    ASSUME TabsTyped, NEW a \in Attempts, SettlePost(a), ~tabLog'.lost
    PROVE  ~tabLog.lost
  BY DEF SettlePost, ReplyLost, Faulted, TabsTyped, TabsLog

\* One close more is asked for.
LEMMA AskParts ==
    ASSUME TabsTyped, NEW a \in 0..MaxAttempts, NEW by \in {"interface", "settle", "start", "later", "renewal"}, AsksFor(a, by)
    PROVE  /\ worker'.closes # <<>> /\ worker'.close = worker.close
           /\ \A i \in DOMAIN worker'.closes : \/ worker'.closes[i].attempt = a /\ worker'.closes[i].by = by
                                               \/ i \in DOMAIN worker.closes /\ worker'.closes[i] = worker.closes[i]
           /\ \A i \in DOMAIN worker.closes : i \in DOMAIN worker'.closes /\ worker'.closes[i] = worker.closes[i]
           /\ \E i \in DOMAIN worker'.closes : worker'.closes[i].by = by
           /\ worker.closes # <<>> => Head(worker'.closes) = Head(worker.closes)
<1>1. PICK e : e = [attempt |-> a, by |-> by]
  OBVIOUS
<1>2. e \in CloseAsked /\ e.attempt = a /\ e.by = by /\ worker.closes \in Seq(CloseAsked)
  BY <1>1 DEF CloseAsked, TabsTyped, TabsWork
<1>3. worker'.closes = Append(worker.closes, e) /\ worker'.close = worker.close
  BY <1>1 DEF AsksFor
<1> QED
  BY <1>2, <1>3, AppendNonempty
LEMMA DispatchParts ==
    ASSUME TabsTyped, NEW a \in Attempts, Dispatch(a)
    PROVE  /\ \A i \in DOMAIN worker'.starts : worker'.starts[i] = a \/ (i \in DOMAIN worker.starts /\ worker'.starts[i] = worker.starts[i])
           /\ \A i \in DOMAIN worker.starts : i \in DOMAIN worker'.starts /\ worker'.starts[i] = worker.starts[i]
           /\ \E i \in DOMAIN worker'.starts : worker'.starts[i] = a
           /\ worker.starts # <<>> => worker'.starts # <<>> /\ Head(worker'.starts) = Head(worker.starts)
<1>1. worker.starts \in Seq(Attempts)
  BY DEF TabsTyped, TabsWork
<1>2. CASE worker'.starts = Append(worker.starts, a)
  BY <1>1, <1>2, AppendNonempty
<1>3. CASE worker.starts # <<>> /\ Last(worker.starts) = a /\ worker'.starts = worker.starts
  <2>1. Len(worker.starts) \in DOMAIN worker.starts /\ worker.starts[Len(worker.starts)] = a
    BY <1>1, <1>3, EmptySeq DEF Last
  <2> QED
    BY <1>3, <2>1
<1> QED
  BY <1>2, <1>3, DispatchDoes

LEMMA ChildClaimsQuiet ==
    ASSUME TabsTyped, TabsSound, TabsTyped', ChildClaims, ~tabLog'.slipped
    PROVE  TabsSound'
<1>1. ~tabLog.slipped /\ TabsFit /\ AttemptsFit /\ WorkFits /\ TabsNamed /\ ClosesFit /\ Accounted
  BY ChildClaimsDoes DEF TabsSound, Notes
<1>2. /\ worker'.starts = worker.starts /\ worker'.start = worker.start /\ worker'.closes = worker.closes /\ worker'.close = worker.close
      /\ worker'.settles = worker.settles /\ worker'.later = worker.later /\ worker'.gone = worker.gone /\ worker'.leaving = worker.leaving
      /\ worker'.moving = worker.moving /\ worker'.report = worker.report /\ tabLog'.asked = tabLog.asked /\ tabLog'.lost = tabLog.lost
      /\ tabLog'.unreported = tabLog.unreported /\ chatTabs' = chatTabs /\ session' = session
  BY ChildClaimsDoes DEF Working, Notes
<1>3. childRun.status = "pending" /\ childRun'.status = "running" /\ childRun'.attempt = childRun.attempt
  BY ChildClaimsDoes
<1>11. TabsFit'
  BY <1>1, <1>2, <1>3 DEF TabsFit, WholeBound, InUse, Gone, TabOpen
<1>12. AttemptsFit'
  BY <1>1, <1>2, <1>3 DEF AttemptsFit, Attempt
<1>13. WorkFits'
  BY <1>1, <1>2, <1>3 DEF WorkFits, Moving, Attempt, TabOpen
<1>14. TabsNamed'
  BY <1>1, <1>2, <1>3 DEF TabsNamed, Closing, Moving, TabOpen, Attempt, OverAt, ChildOver
<1>15. ClosesFit'
  BY <1>1, <1>2, <1>3 DEF ClosesFit, OverAt, ChildOver, TabOpen, Attempt
<1>16. Accounted'
  BY <1>1, <1>2, <1>3 DEF Accounted, TabWatched, TabShows, Moving, TabOpen, Attempt
<1> QED
  BY <1>11, <1>12, <1>13, <1>14, <1>15, <1>16 DEF TabsSound

LEMMA ChildEndsQuiet ==
    ASSUME TabsTyped, TabsSound, TabsTyped', ChildEnds, ~tabLog'.slipped
    PROVE  TabsSound'
<1>1. ~tabLog.slipped /\ TabsFit /\ AttemptsFit /\ WorkFits /\ TabsNamed /\ ClosesFit /\ Accounted
  BY ChildEndsDoes DEF TabsSound, Notes
<1>2. /\ worker'.starts = worker.starts /\ worker'.start = worker.start /\ worker'.closes = worker.closes /\ worker'.close = worker.close
      /\ worker'.settles = worker.settles /\ worker'.later = worker.later /\ worker'.gone = worker.gone /\ worker'.leaving = worker.leaving
      /\ worker'.moving = worker.moving /\ worker'.report = worker.report /\ tabLog'.asked = tabLog.asked /\ tabLog'.lost = tabLog.lost
      /\ tabLog'.unreported = tabLog.unreported /\ chatTabs' = chatTabs /\ session' = session
  BY ChildEndsDoes DEF Working, Notes
<1>3. ~ChildOver /\ ChildOver' /\ childRun'.attempt = childRun.attempt
  BY ChildEndsDoes
<1>11. TabsFit'
  BY <1>1, <1>2, <1>3 DEF TabsFit, WholeBound, InUse, Gone, TabOpen
<1>12. AttemptsFit'
  BY <1>1, <1>2, <1>3 DEF AttemptsFit, Attempt
<1>13. WorkFits'
  BY <1>1, <1>2, <1>3 DEF WorkFits, Moving, Attempt, TabOpen
<1>14. TabsNamed'
  BY <1>1, <1>2, <1>3 DEF TabsNamed, Closing, Moving, TabOpen, Attempt, OverAt, ChildOver
<1>15. ClosesFit'
  BY <1>1, <1>2, <1>3 DEF ClosesFit, OverAt, ChildOver, TabOpen, Attempt
<1>16. Accounted'
  BY <1>1, <1>2, <1>3 DEF Accounted, TabWatched, TabShows, Moving, TabOpen, Attempt, ChildOver
<1> QED
  BY <1>11, <1>12, <1>13, <1>14, <1>15, <1>16 DEF TabsSound

LEMMA InterfaceClosesQuiet ==
    ASSUME TabsTyped, TabsSound, TabsTyped', InterfaceCloses, ~tabLog'.slipped
    PROVE  TabsSound'
<1>1. ~tabLog.slipped /\ TabsFit /\ AttemptsFit /\ WorkFits /\ TabsNamed /\ ClosesFit /\ Accounted
  BY InterfaceClosesDoes DEF TabsSound, Notes
<1>2. /\ worker'.starts = worker.starts /\ worker'.start = worker.start /\ worker'.settles = worker.settles /\ worker'.later = worker.later
      /\ worker'.gone = worker.gone /\ worker'.leaving = worker.leaving /\ worker'.moving = worker.moving /\ worker'.report = worker.report
      /\ tabLog'.asked = tabLog.asked /\ tabLog'.lost = tabLog.lost /\ tabLog'.unreported = tabLog.unreported /\ childRun' = childRun
      /\ chatTabs' = chatTabs /\ session' = session
  BY InterfaceClosesDoes DEF Working, Notes
<1>3. /\ worker.closes = <<>> /\ worker'.closes # <<>> /\ worker'.close = worker.close /\ worker.close.step = "look"
      /\ \A i \in DOMAIN worker'.closes : worker'.closes[i].attempt = 0 /\ worker'.closes[i].by = "interface"
      /\ worker.start.step # "drop" \/ session.bound = Unbound
  <2>1. worker.closes = <<>> /\ worker.close.step = "look" /\ AsksFor(0, "interface") /\ childRun.status = "failed"
    BY <1>1, InterfaceClosesDoes DEF WorkFits
  <2>2. DOMAIN worker.closes = {}
    BY <2>1
  <2>3. 0 \in 0..MaxAttempts
    BY TabsNumbers
  <2>4. worker.start.step # "drop" \/ session.bound = Unbound
    BY <1>1, <2>2 DEF TabsNamed
  <2> QED
    BY <2>1, <2>2, <2>3, <2>4, AskParts
<1>4. childRun.status = "failed"
  BY InterfaceClosesDoes
<1>11. TabsFit'
  BY <1>1, <1>2, <1>3, <1>4 DEF TabsFit, WholeBound, InUse, Gone, TabOpen
<1>12. AttemptsFit'
  BY <1>1, <1>2, <1>3, <1>4 DEF AttemptsFit, Attempt
<1>13. WorkFits'
  BY <1>1, <1>2, <1>3, <1>4 DEF WorkFits, Moving, Attempt, TabOpen
<1>14. TabsNamed'
  BY <1>1, <1>2, <1>3, <1>4 DEF TabsNamed, Closing, Moving, TabOpen, Attempt, OverAt, ChildOver
<1>15. ClosesFit'
  BY <1>1, <1>2, <1>3, <1>4 DEF ClosesFit, OverAt, ChildOver, TabOpen, Attempt
<1>16. Accounted'
  BY <1>1, <1>2, <1>3, <1>4 DEF Accounted, TabWatched, TabShows, Moving, TabOpen, Attempt
<1> QED
  BY <1>11, <1>12, <1>13, <1>14, <1>15, <1>16 DEF TabsSound

LEMMA CloseLookQuiet ==
    ASSUME TabsTyped, TabsSound, TabsTyped', CloseLook, ~tabLog'.slipped
    PROVE  TabsSound'
<1>1. ~tabLog.slipped /\ TabsFit /\ AttemptsFit /\ WorkFits /\ TabsNamed /\ ClosesFit /\ Accounted
  BY CloseLookDoes DEF TabsSound, Notes
<1>2. /\ worker'.starts = worker.starts /\ worker'.start = worker.start /\ worker'.settles = worker.settles /\ worker'.later = worker.later
      /\ worker'.gone = worker.gone /\ worker'.leaving = worker.leaving /\ worker'.moving = worker.moving /\ worker'.report = worker.report
      /\ tabLog'.asked = tabLog.asked /\ tabLog'.lost = tabLog.lost /\ tabLog'.unreported = tabLog.unreported /\ childRun' = childRun
      /\ chatTabs' = chatTabs /\ session' = session
  BY CloseLookDoes DEF Working, Notes
<1>3. /\ worker.closes # <<>> /\ worker.close.step = "look" /\ worker.moving = NotMoving
      /\ IF session.bound # Unbound /\ Head(worker.closes).attempt \in {0, session.bound.attempt}
         THEN worker'.closes = worker.closes /\ worker'.close = [step |-> "release", bound |-> session.bound]
         ELSE CloseOver
  BY <1>1, CloseLookDoes
<1>4. PICK h : h = worker.closes[1] /\ h = Head(worker.closes) /\ 1 \in DOMAIN worker.closes /\ h \in CloseAsked
  BY <1>3, CloseTail, TailWork
<1>5. (session.bound = Unbound <=> session.bound.attempt = 0) /\ ~Moving
  BY <1>1, <1>3, TabsShapes, BoundParts DEF TabsFit, Moving
<1>6. /\ worker'.close.step = "look" \/ (worker'.close.step = "release" /\ worker'.close.bound = session.bound
              /\ session.bound # Unbound /\ h.attempt \in {0, session.bound.attempt} /\ worker'.closes = worker.closes)
      /\ worker'.closes = <<>> => worker'.close.step = "look"
      /\ worker'.close.bound \in {Unbound, session.bound}
      /\ \A i \in DOMAIN worker'.closes : \E j \in DOMAIN worker.closes : worker'.closes[i] = worker.closes[j]
  <2>1. CASE session.bound # Unbound /\ h.attempt \in {0, session.bound.attempt}
    BY <1>3, <1>4, <2>1
  <2>2. CASE CloseOver
    BY <1>3, <2>2, CloseTail DEF CloseOver, NoClosing
  <2> QED
    BY <1>3, <1>4, <2>1, <2>2
<1>7. worker.start.step = "drop" =>
          session.bound = Unbound \/ \E i \in DOMAIN worker'.closes : worker'.closes[i].by = "start"
  <2>1. SUFFICES ASSUME worker.start.step = "drop", session.bound # Unbound
                 PROVE  \E i \in DOMAIN worker'.closes : worker'.closes[i].by = "start"
    OBVIOUS
  <2>2. PICK i \in DOMAIN worker.closes : worker.closes[i].by = "start"
    BY <1>1, <2>1 DEF TabsNamed
  <2>3. session.bound.attempt = worker.start.old /\ worker.closes[i].attempt = worker.start.old
    BY <1>1, <2>1, <2>2 DEF TabsNamed, ClosesFit
  <2>4. CASE i = 1
    BY <1>3, <1>4, <2>1, <2>2, <2>3, <2>4
  <2>5. CASE i # 1 /\ CloseOver
    BY <1>3, <2>2, <2>5, CloseTail DEF CloseOver
  <2>6. CASE ~CloseOver
    BY <1>3, <2>2, <2>6
  <2> QED
    BY <2>4, <2>5, <2>6
<1>8. worker'.close.step # "look" => \/ OverAt(session.bound.attempt)
           \/ /\ ~TabOpen(session.bound.tab) /\ worker.start.step = "drop" /\ h.by = "start"
              /\ session.bound.attempt = worker.start.old
  <2>1. SUFFICES ASSUME session.bound # Unbound, h.attempt \in {0, session.bound.attempt}
                 PROVE  \/ OverAt(session.bound.attempt)
                        \/ /\ ~TabOpen(session.bound.tab) /\ worker.start.step = "drop" /\ h.by = "start"
                           /\ session.bound.attempt = worker.start.old
    BY <1>6
  <2>2. CASE h.by = "start"
    <3>1. worker.start.step = "drop" /\ h.attempt = worker.start.old /\ worker.start.old # 0
      BY <1>1, <1>4, <2>2 DEF ClosesFit, WorkFits
    <3>2. OverAt(worker.start.old) \/ ~TabOpen(session.bound.tab)
      BY <1>1, <3>1 DEF ClosesFit
    <3> QED
      BY <2>1, <2>2, <3>1, <3>2
  <2>3. CASE h.by = "interface"
    BY <1>1, <1>4, <2>3 DEF ClosesFit, OverAt, ChildOver
  <2>4. CASE h.by \in {"settle", "later", "renewal"}
    BY <1>1, <1>4, <2>1, <2>4 DEF ClosesFit
  <2> QED
    BY <1>4, <2>2, <2>3, <2>4 DEF CloseAsked
<1>9. worker'.close.step # "look" => Head(worker'.closes) = h
  BY <1>4, <1>6
<1>11. TabsFit'
  <2>1. \A b \in {Unbound, session.bound} : InUse(b.tab) /\ WholeBound(b)
    BY <1>1 DEF TabsFit, Unbound, InUse, WholeBound, NoTab
  <2> QED
    BY <1>1, <1>2, <1>6, <2>1 DEF TabsFit, WholeBound, InUse, Gone, TabOpen
<1>12. AttemptsFit'
  BY <1>1, <1>2 DEF AttemptsFit, Attempt
<1>13. WorkFits'
  BY <1>1, <1>2, <1>5, <1>6 DEF WorkFits, Moving, Attempt, TabOpen
<1>14. TabsNamed'
  BY <1>1, <1>2, <1>3, <1>5, <1>6, <1>7 DEF TabsNamed, Closing, Moving, TabOpen, Attempt, OverAt, ChildOver
<1>15. ClosesFit'
  BY <1>1, <1>2, <1>6, <1>8, <1>9 DEF ClosesFit, OverAt, ChildOver, TabOpen, Attempt
<1>16. Accounted'
  BY <1>1, <1>2 DEF Accounted, TabWatched, TabShows, Moving, TabOpen, Attempt
<1> QED
  BY <1>11, <1>12, <1>13, <1>14, <1>15, <1>16 DEF TabsSound

LEMMA CloseReleaseQuiet ==
    ASSUME TabsTyped, TabsSound, TabsTyped', CloseRelease, ~tabLog'.slipped
    PROVE  TabsSound'
<1>1. ~tabLog.slipped /\ TabsFit /\ AttemptsFit /\ WorkFits /\ TabsNamed /\ ClosesFit /\ Accounted
  BY CloseReleaseDoes DEF TabsSound, Notes
<1>2. /\ worker'.starts = worker.starts /\ worker'.start = worker.start /\ worker'.settles = worker.settles /\ worker'.later = worker.later
      /\ worker'.gone = worker.gone /\ worker'.leaving = worker.leaving /\ worker'.moving = worker.moving /\ worker'.report = worker.report
      /\ tabLog'.asked = tabLog.asked /\ tabLog'.lost = tabLog.lost /\ tabLog'.unreported = tabLog.unreported /\ chatTabs' = chatTabs
  BY CloseReleaseDoes DEF Working, Notes
<1>3. /\ worker.close.step = "release" /\ worker'.closes = worker.closes
      /\ worker'.close.step = "unbind" /\ worker'.close.bound = worker.close.bound
      /\ childRun'.status = childRun.status /\ childRun'.attempt = childRun.attempt
      /\ session'.bound = session.bound
      /\ \A a \in Attempts : session'.request[a] =
            IF a = worker.close.bound.attempt THEN NoTab ELSE session.request[a]
  BY CloseReleaseDoes
<1>4. ~Moving /\ worker.moving = NotMoving
  BY <1>1, <1>3 DEF WorkFits, Moving
<1>5. OverAt(worker.close.bound.attempt) \/ (worker.start.step = "drop" /\ worker.close.bound.attempt = worker.start.old)
  BY <1>1, <1>3 DEF ClosesFit
<1>11. TabsFit'
  BY <1>1, <1>2, <1>3 DEF TabsFit, WholeBound, InUse, Gone, TabOpen
<1>12. AttemptsFit'
  BY <1>1, <1>2, <1>3 DEF AttemptsFit, Attempt
<1>13. WorkFits'
  BY <1>1, <1>2, <1>3, <1>4, <1>5 DEF WorkFits, Moving, Attempt, TabOpen, NotMoving
<1>14. TabsNamed'
  BY <1>1, <1>2, <1>3, <1>4, <1>5, TabsShapes, SMTT(20) DEF TabsNamed, Closing, Moving, TabOpen, Attempt, OverAt, ChildOver
<1>15. ClosesFit'
  BY <1>1, <1>2, <1>3, <1>4, <1>5 DEF ClosesFit, OverAt, ChildOver, TabOpen, Attempt
<1>16. Accounted'
  <2>1. childRun.status = "pending" =>
            worker.close.bound.attempt # childRun.attempt
            \/ (1 \in DOMAIN worker.starts /\ worker.starts # <<>> /\ worker.starts[1] = childRun.attempt
                /\ Attempt = childRun.attempt /\ worker.start.step # "look")
    <3>1. SUFFICES ASSUME childRun.status = "pending", worker.close.bound.attempt = childRun.attempt
                   PROVE  1 \in DOMAIN worker.starts /\ worker.starts # <<>> /\ worker.starts[1] = childRun.attempt
                          /\ Attempt = childRun.attempt /\ worker.start.step # "look"
      OBVIOUS
    <3>2. worker.start.step = "drop" /\ childRun.attempt = worker.start.old
      BY <1>5, <3>1, TabsShapes DEF OverAt, ChildOver
    <3>3. 1 \in DOMAIN worker.starts /\ worker.starts # <<>> /\ worker.starts[1] = Attempt
      BY <3>2, StartTail DEF TabsTyped
    <3>4. childRun.attempt <= Attempt /\ Attempt <= childRun.attempt
      BY <1>1, <3>2, <3>3 DEF WorkFits, AttemptsFit
    <3> QED
      BY <3>2, <3>3, <3>4, TabsShapes, SMTT(20)
  <2>2. childRun.attempt \in Attempts
    BY TabsShapes
  <2> QED
    BY <1>1, <1>2, <1>3, <1>4, <2>1, <2>2 DEF Accounted, TabWatched, TabShows, TabOpen, Attempt
<1> QED
  BY <1>11, <1>12, <1>13, <1>14, <1>15, <1>16 DEF TabsSound

LEMMA CloseUnbindQuiet ==
    ASSUME TabsTyped, TabsSound, TabsTyped', CloseUnbind, ~tabLog'.slipped
    PROVE  TabsSound'
<1>1. ~tabLog.slipped /\ TabsFit /\ AttemptsFit /\ WorkFits /\ TabsNamed /\ ClosesFit /\ Accounted
  BY CloseUnbindDoes DEF TabsSound, Notes
<1>2. /\ worker'.starts = worker.starts /\ worker'.start = worker.start /\ worker'.settles = worker.settles /\ worker'.later = worker.later
      /\ worker'.gone = worker.gone /\ worker'.leaving = worker.leaving /\ worker'.moving = worker.moving /\ worker'.report = worker.report
      /\ tabLog'.asked = tabLog.asked /\ tabLog'.lost = tabLog.lost /\ tabLog'.unreported = tabLog.unreported /\ childRun' = childRun
      /\ chatTabs' = chatTabs
  BY CloseUnbindDoes DEF Working, Notes
<1>3. /\ worker.close.step = "unbind" /\ (session.bound = Unbound \/ session.bound = worker.close.bound)
      /\ worker'.closes = worker.closes /\ worker'.close.step = "remove" /\ worker'.close.bound = worker.close.bound
      /\ session'.bound = Unbound /\ session'.request = session.request
  <2>1. PICK q \in BOOLEAN : q <=> session.bound \notin {Unbound, worker.close.bound}
    OBVIOUS
  <2>2. ~(session.bound \notin {Unbound, worker.close.bound})
    BY <1>1, CloseUnbindDoes, Zenon
  <2> QED
    BY <2>2, CloseUnbindDoes
<1>4. worker.moving = NotMoving
  BY <1>1, <1>3 DEF WorkFits, Moving
<1>5. Unbound.attempt = 0 /\ Unbound.tab = NoTab /\ NoTab \notin TabIds /\ childRun.attempt \in Attempts
      /\ 0 <= childRun.attempt /\ worker.moving.to = NoTab
  BY <1>4, TabsPlaces, TabsShapes DEF Unbound, NotMoving
<1>11. TabsFit'
  BY <1>1, <1>2, <1>3, <1>4, <1>5 DEF TabsFit, WholeBound, InUse, Gone, TabOpen, NoTab
<1>12. AttemptsFit'
  BY <1>1, <1>2, <1>3, <1>5 DEF AttemptsFit, Attempt
<1>13. WorkFits'
  BY <1>1, <1>2, <1>3, <1>4, <1>5 DEF WorkFits, Moving, Attempt, TabOpen
<1>14. TabsNamed'
  BY <1>1, <1>2, <1>3, <1>4, <1>5 DEF TabsNamed, Closing, Moving, TabOpen, Attempt, OverAt, ChildOver
<1>15. ClosesFit'
  BY <1>1, <1>2, <1>3, <1>4, <1>5 DEF ClosesFit, OverAt, ChildOver, TabOpen, Attempt
<1>16. Accounted'
  BY <1>1, <1>2, <1>3, <1>4, <1>5, TabsShapes DEF Accounted, TabWatched, TabShows, Moving, TabOpen, Attempt
<1> QED
  BY <1>11, <1>12, <1>13, <1>14, <1>15, <1>16 DEF TabsSound

LEMMA CloseRemoveQuiet ==
    ASSUME TabsTyped, TabsSound, TabsTyped', CloseRemove, ~tabLog'.slipped
    PROVE  TabsSound'
<1>1. ~tabLog.slipped /\ TabsFit /\ AttemptsFit /\ WorkFits /\ TabsNamed /\ ClosesFit /\ Accounted
  BY CloseRemoveDoes DEF TabsSound, Notes
<1>2. /\ worker'.starts = worker.starts /\ worker'.start = worker.start /\ worker'.settles = worker.settles /\ worker'.later = worker.later
      /\ worker'.leaving = worker.leaving /\ worker'.moving = worker.moving /\ worker'.report = worker.report /\ tabLog'.asked = tabLog.asked
      /\ tabLog'.lost = tabLog.lost /\ tabLog'.unreported = tabLog.unreported /\ childRun' = childRun /\ session' = session
  BY CloseRemoveDoes DEF Working, Notes
<1>3. /\ worker.close.step = "remove" /\ worker.closes # <<>>
      /\ worker'.closes = Tail(worker.closes) /\ worker'.close = NoClosing
      /\ worker'.gone = IF TabOpen(worker.close.bound.tab) /\ Named(worker.close.bound.tab)
                        THEN worker.gone \cup {worker.close.bound.tab} ELSE worker.gone
      /\ \A u \in TabIds : /\ chatTabs'[u].open <=> (chatTabs[u].open /\ u # worker.close.bound.tab)
                           /\ chatTabs'[u].used = chatTabs[u].used /\ chatTabs'[u].prompt = chatTabs[u].prompt
  BY CloseRemoveDoes, ShutTabDoes DEF CloseOver
<1>4. /\ \A i \in DOMAIN worker'.closes : \E j \in DOMAIN worker.closes : worker'.closes[i] = worker.closes[j]
      /\ \A j \in DOMAIN worker.closes : worker.closes[j] = Head(worker.closes)
                 \/ \E i \in DOMAIN worker'.closes : worker'.closes[i] = worker.closes[j]
  <2>1. PICK s : s = worker.closes /\ s # <<>>
    BY <1>3
  <2>2. PICK r : r = Tail(s)
    OBVIOUS
  <2>3. /\ Head(s) = s[1]
        /\ \A i \in DOMAIN r : i + 1 \in DOMAIN s /\ r[i] = s[i + 1]
        /\ \A j \in DOMAIN s : j = 1 \/ (j - 1 \in DOMAIN r /\ r[j - 1] = s[j])
    BY <2>1, <2>2, CloseTail
  <2>4. worker'.closes = r
    BY <1>3, <2>1, <2>2
  <2> QED
    BY ONLY <2>1, <2>3, <2>4
<1>5. worker.moving = NotMoving /\ worker.moving.to = NoTab /\ worker'.close.step = "look"
      /\ worker'.close.bound.attempt = 0 /\ worker'.close.bound.tab = NoTab
  BY <1>1, <1>3 DEF WorkFits, Moving, NotMoving, NoClosing, Unbound
<1>6. worker.gone \subseteq worker'.gone
      /\ \A a \in Attempts : TabShows(session.request[a], a) => TabShows(session.request[a], a)' \/ session.request[a] \in worker'.gone
  BY <1>2, <1>3 DEF TabShows, TabOpen, Named
<1>11. TabsFit'
  <2>1. WholeBound(worker.close.bound)' /\ InUse(worker.close.bound.tab)'
    BY <1>5 DEF WholeBound, InUse, NoTab
  <2>2. \A t \in worker'.gone : Gone(t)'
    BY <1>1, <1>3, TabsPlaces DEF TabsFit, Gone, TabOpen
  <2>3. /\ WholeBound(session.bound) /\ WholeBound(worker.moving.bound)
        /\ InUse(session.bound.tab) /\ InUse(worker.leaving.tab) /\ ~TabOpen(worker.leaving.tab)
        /\ InUse(worker.start.tab) /\ InUse(worker.report.tab) /\ InUse(worker.moving.to)
        /\ InUse(worker.moving.from) /\ ~TabOpen(worker.moving.from)
        /\ \A a \in Attempts : InUse(session.request[a])
    BY <1>1 DEF TabsFit
  <2>4. \A u \in TabIds \cup {NoTab} : (InUse(u) => InUse(u)') /\ (~TabOpen(u) => ~TabOpen(u)')
    BY <1>3 DEF InUse, TabOpen
  <2>5. \A t \in TabIds : chatTabs'[t].open \/ chatTabs'[t].prompt # 0 => chatTabs'[t].used
    BY <1>1, <1>3 DEF TabsFit
  <2>6. InUse(session.bound.tab)' /\ \A a \in Attempts : InUse(session.request[a])'
    BY <1>2, <2>3, <2>4, TabsPlaces
  <2>7. /\ InUse(worker.leaving.tab)' /\ ~TabOpen(worker.leaving.tab)'
        /\ InUse(worker.start.tab)' /\ InUse(worker.report.tab)'
    BY <1>2, <2>3, <2>4, TabsPlaces
  <2>8. InUse(worker.moving.to)' /\ InUse(worker.moving.from)' /\ ~TabOpen(worker.moving.from)'
    BY <1>2, <2>3, <2>4, TabsPlaces
  <2>9. WholeBound(session.bound)' /\ WholeBound(worker.moving.bound)'
    BY <1>2, <2>3 DEF WholeBound
  <2> QED
    BY <2>1, <2>2, <2>5, <2>6, <2>7, <2>8, <2>9 DEF TabsFit
<1>12. AttemptsFit'
  BY <1>1, <1>2 DEF AttemptsFit, Attempt
<1>13. WorkFits'
  BY <1>1, <1>2, <1>3, <1>5 DEF WorkFits, Moving, Attempt, TabOpen
<1>14. TabsNamed'
  BY <1>1, <1>2, <1>3, <1>4, <1>5, TabsPlaces DEF TabsNamed, Closing, Moving, TabOpen, Attempt, OverAt, ChildOver
<1>15. ClosesFit'
  BY <1>1, <1>2, <1>3, <1>4, <1>5, TabsPlaces, SMTT(20) DEF ClosesFit, OverAt, ChildOver, TabOpen, Attempt
<1>16. Accounted'
  BY <1>1, <1>2, <1>5, <1>6, TabsShapes DEF Accounted, TabWatched, Moving, Attempt
<1> QED
  BY <1>11, <1>12, <1>13, <1>14, <1>15, <1>16 DEF TabsSound

LEMMA StartLookOnQuiet ==
    ASSUME TabsTyped, TabsSound, TabsTyped', StartLook, ~tabLog'.slipped, ~StartOver
    PROVE  TabsSound'
<1>1. ~tabLog.slipped /\ TabsFit /\ AttemptsFit /\ WorkFits /\ TabsNamed /\ ClosesFit /\ Accounted
  BY StartLookDoes DEF TabsSound, Notes
<1>2. /\ worker'.closes = worker.closes /\ worker'.close = worker.close /\ worker'.settles = worker.settles /\ worker'.later = worker.later
      /\ worker'.gone = worker.gone /\ worker'.leaving = worker.leaving /\ worker'.moving = worker.moving /\ worker'.report = worker.report
      /\ tabLog'.asked = tabLog.asked /\ tabLog'.lost = tabLog.lost /\ tabLog'.unreported = tabLog.unreported /\ childRun' = childRun
      /\ chatTabs' = chatTabs /\ session' = session
  BY StartLookDoes DEF Working, Notes
<1>3. /\ worker.start.step = "look" /\ worker'.starts = worker.starts /\ worker'.start.step = "beat"
      /\ worker'.start.tab = worker.start.tab /\ worker'.start.old = session.bound.attempt
      /\ ~(session.bound.attempt = Attempt /\ TabOpen(session.bound.tab))
      /\ worker.moving = NotMoving /\ worker.starts # <<>>
  BY <1>1, StartLookDoes
<1>4. 1 \in DOMAIN worker.starts /\ worker.starts[1] = Attempt
  BY <1>3, StartTail
<1>5. ~Moving
  BY <1>3 DEF Moving
<1>11. TabsFit'
  BY <1>1, <1>2, <1>3 DEF TabsFit, WholeBound, InUse, Gone, TabOpen
<1>12. AttemptsFit'
  BY <1>1, <1>2, <1>3 DEF AttemptsFit, Attempt
<1>13. WorkFits'
  BY <1>1, <1>2, <1>3 DEF WorkFits, Moving, Attempt, TabOpen
<1>14. TabsNamed'
  BY <1>1, <1>2, <1>3 DEF TabsNamed, Closing, Moving, TabOpen, Attempt, OverAt, ChildOver
<1>15. ClosesFit'
  BY <1>1, <1>2, <1>3 DEF ClosesFit, OverAt, ChildOver, TabOpen, Attempt
<1>16. Accounted'
  BY <1>1, <1>2, <1>3 DEF Accounted, TabWatched, TabShows, Moving, TabOpen, Attempt
<1> QED
  BY <1>11, <1>12, <1>13, <1>14, <1>15, <1>16 DEF TabsSound

LEMMA StartLookQuiet ==
    ASSUME TabsTyped, TabsSound, TabsTyped', StartLook, ~tabLog'.slipped
    PROVE  TabsSound'
<1>1. CASE StartOver
  <2>1. /\ worker.starts # <<>> /\ worker.start.step = "look" /\ Working({"start"}) /\ Notes({"slipped"})
        /\ UNCHANGED <<childRun, chatTabs, session>>
    BY StartLookDoes
  <2>2. worker.start.step # "drop" /\ Working({"start", "settles"})
        /\ \A a \in Attempts : worker.settles[a] # "none" => worker'.settles[a] # "none"
    BY <2>1 DEF Working
  <2>3. session.bound.attempt = Attempt
    <3>1. worker'.start.step # "beat"
      BY <1>1, <2>1, StartLeaves
    <3> QED
      BY <3>1, StartLookDoes
  <2>4. ~tabLog.lost /\ ~tabLog.unreported /\ Current(Attempt) => worker'.settles[Attempt] # "none" \/ TabWatched(Attempt)
    BY <2>1, <2>3 DEF TabsSound, Accounted, Current, Working
  <2> QED
    BY <1>1, <2>1, <2>2, <2>4, StartOverSound
<1>2. CASE ~StartOver
  BY <1>2, StartLookOnQuiet
<1> QED
  BY <1>1, <1>2

LEMMA StartBeatOpenQuiet ==
    ASSUME TabsTyped, TabsSound, TabsTyped', StartBeat, ~tabLog'.slipped,
           Working({"start"}), Current(Attempt), worker.start.old = 0, StartMoves("open")
    PROVE  TabsSound'
<1>1. ~tabLog.slipped /\ TabsFit /\ AttemptsFit /\ WorkFits /\ TabsNamed /\ ClosesFit /\ Accounted
  BY StartBeatDoes DEF TabsSound, Notes
<1>2. /\ worker'.closes = worker.closes /\ worker'.close = worker.close /\ worker'.settles = worker.settles /\ worker'.later = worker.later
      /\ worker'.gone = worker.gone /\ worker'.leaving = worker.leaving /\ worker'.moving = worker.moving /\ worker'.report = worker.report
      /\ tabLog'.asked = tabLog.asked /\ tabLog'.lost = tabLog.lost /\ tabLog'.unreported = tabLog.unreported /\ childRun' = childRun
      /\ chatTabs' = chatTabs /\ session' = session
  BY StartBeatDoes DEF Working, Notes
<1>3. /\ worker.start.step = "beat" /\ worker'.starts = worker.starts /\ worker'.start.step = "open"
      /\ worker'.start.tab = worker.start.tab /\ worker'.start.old = worker.start.old
  BY StartBeatDoes DEF StartUnderway, StartMoves
<1>4. worker.starts # <<>> /\ Attempt \in Attempts /\ Attempt \in Nat /\ 1 \in DOMAIN worker.starts /\ worker.starts[1] = Attempt
      /\ Attempt <= childRun.attempt /\ childRun.attempt \in Attempts
  <2>1. worker.starts # <<>>
    BY StartBeatDoes DEF StartUnderway
  <2>2. 1 \in DOMAIN worker.starts /\ worker.starts[1] = Attempt
    BY <2>1, StartTail
  <2> QED
    BY <1>1, <2>1, <2>2, TabsShapes DEF AttemptsFit
<1>5. ~Moving /\ worker.moving = NotMoving /\ worker.moving.to = NoTab /\ ~worker.moving.read
  BY <1>1, <1>3 DEF WorkFits, Moving, NotMoving
<1>6. session.bound = Unbound
  BY <1>1, <1>3, BoundParts, TabsShapes DEF TabsNamed, TabsFit
<1>7. childRun.attempt = Attempt /\ \A a \in Attempts : a \in Nat
  BY TabsShapes DEF Current
<1>11. TabsFit'
  BY <1>1, <1>2, <1>3, <1>5, <1>6 DEF TabsFit, WholeBound, InUse, Gone, TabOpen
<1>12. AttemptsFit'
  BY <1>1, <1>2, <1>3, <1>5, <1>6, <1>4, <1>7 DEF AttemptsFit, Attempt
<1>13. WorkFits'
  BY <1>1, <1>2, <1>3, <1>5, <1>6 DEF WorkFits, Moving, Attempt, TabOpen
<1>14. TabsNamed'
  BY <1>1, <1>2, <1>3, <1>5, <1>6 DEF TabsNamed, Closing, Moving, TabOpen, Attempt, OverAt, ChildOver
<1>15. ClosesFit'
  BY <1>1, <1>2, <1>3, <1>5, <1>6 DEF ClosesFit, OverAt, ChildOver, TabOpen, Attempt
<1>16. Accounted'
  BY <1>1, <1>2, <1>3, <1>5, <1>6, <1>4 DEF Accounted, TabWatched, TabShows, Moving, TabOpen, Attempt
<1> QED
  BY <1>11, <1>12, <1>13, <1>14, <1>15, <1>16 DEF TabsSound

LEMMA StartBeatDropQuiet ==
    ASSUME TabsTyped, TabsSound, TabsTyped', StartBeat, ~tabLog'.slipped,
           Working({"start", "close"}), Current(Attempt), worker.start.old # 0, StartMoves("drop"), AsksFor(worker.start.old, "start")
    PROVE  TabsSound'
<1>1. ~tabLog.slipped /\ TabsFit /\ AttemptsFit /\ WorkFits /\ TabsNamed /\ ClosesFit /\ Accounted
  BY StartBeatDoes DEF TabsSound, Notes
<1>2. /\ worker'.settles = worker.settles /\ worker'.later = worker.later /\ worker'.gone = worker.gone /\ worker'.leaving = worker.leaving
      /\ worker'.moving = worker.moving /\ worker'.report = worker.report /\ tabLog'.asked = tabLog.asked /\ tabLog'.lost = tabLog.lost
      /\ tabLog'.unreported = tabLog.unreported /\ childRun' = childRun /\ chatTabs' = chatTabs /\ session' = session
  BY StartBeatDoes DEF Working, Notes
<1>3. /\ worker.start.step = "beat" /\ worker'.starts = worker.starts /\ worker'.start.step = "drop"
      /\ worker'.start.tab = worker.start.tab /\ worker'.start.old = worker.start.old
  BY StartBeatDoes DEF StartUnderway, StartMoves
<1>4. worker.starts # <<>> /\ Attempt \in Attempts /\ Attempt \in Nat /\ 1 \in DOMAIN worker.starts /\ worker.starts[1] = Attempt
      /\ Attempt <= childRun.attempt /\ childRun.attempt \in Attempts
  <2>1. worker.starts # <<>>
    BY StartBeatDoes DEF StartUnderway
  <2>2. 1 \in DOMAIN worker.starts /\ worker.starts[1] = Attempt
    BY <2>1, StartTail
  <2> QED
    BY <1>1, <2>1, <2>2, TabsShapes DEF AttemptsFit
<1>5. ~Moving /\ worker.moving = NotMoving /\ worker.moving.to = NoTab /\ ~worker.moving.read
  BY <1>1, <1>3 DEF WorkFits, Moving, NotMoving
<1>6. childRun.attempt = Attempt /\ \A a \in Attempts : a \in Nat
  BY TabsShapes DEF Current
<1>7. worker.start.old <= Attempt /\ worker.start.old \in Nat /\ worker.start.old \in 0..MaxAttempts
  BY <1>1, <1>6, TabsShapes DEF AttemptsFit, TabsTyped, TabsWork, StartWork
<1>8. /\ worker'.closes # <<>> /\ worker'.close = worker.close
      /\ \A i \in DOMAIN worker'.closes : \/ worker'.closes[i].attempt = worker.start.old /\ worker'.closes[i].by = "start"
                                          \/ \E j \in DOMAIN worker.closes : worker'.closes[i] = worker.closes[j]
      /\ \E i \in DOMAIN worker'.closes : worker'.closes[i].by = "start"
      /\ worker.closes # <<>> => Head(worker'.closes) = Head(worker.closes)
  BY <1>7, AskParts
<1>9. worker.closes # <<>> => Head(worker.closes).by # "start"
  BY <1>1, <1>3, CloseTail DEF ClosesFit
<1>10. OverAt(worker.start.old) \/ ~TabOpen(session.bound.tab)
  BY <1>1, <1>3, <1>6, <1>7, <1>4 DEF ClosesFit, OverAt
<1>11. TabsFit'
  BY <1>1, <1>2, <1>3, <1>5, <1>8 DEF TabsFit, WholeBound, InUse, Gone, TabOpen
<1>12. AttemptsFit'
  BY <1>1, <1>2, <1>3, <1>5, <1>8, <1>4, <1>6 DEF AttemptsFit, Attempt
<1>13. WorkFits'
  BY <1>1, <1>2, <1>3, <1>5, <1>8, <1>7 DEF WorkFits, Moving, Attempt, TabOpen
<1>14. TabsNamed'
  BY <1>1, <1>2, <1>3, <1>5, <1>8, <1>9, TabsShapes DEF TabsNamed, Closing, Moving, TabOpen, Attempt, OverAt, ChildOver
<1>15. ClosesFit'
  BY <1>1, <1>2, <1>3, <1>5, <1>8, <1>10 DEF ClosesFit, OverAt, ChildOver, TabOpen, Attempt
<1>16. Accounted'
  BY <1>1, <1>2, <1>3, <1>5, <1>8, <1>4 DEF Accounted, TabWatched, TabShows, Moving, TabOpen, Attempt
<1> QED
  BY <1>11, <1>12, <1>13, <1>14, <1>15, <1>16 DEF TabsSound

LEMMA StartBeatQuiet ==
    ASSUME TabsTyped, TabsSound, TabsTyped', StartBeat, ~tabLog'.slipped
    PROVE  TabsSound'
<1>1. CASE Working({"start"}) /\ ~Current(Attempt) /\ StartOver
  BY <1>1, StartBeatDoes, StartOverSound DEF StartUnderway, Notes, Working
<1>2. CASE Working({"start"}) /\ Current(Attempt) /\ worker.start.old = 0 /\ StartMoves("open")
  BY <1>2, StartBeatOpenQuiet
<1>3. CASE Working({"start", "close"}) /\ Current(Attempt) /\ worker.start.old # 0 /\ StartMoves("drop") /\ AsksFor(worker.start.old, "start")
  BY <1>3, StartBeatDropQuiet
<1>4. CASE Working({"start", "settles"}) /\ StartOver /\ SettlesThese({Attempt})
  BY <1>4, StartBeatDoes, StartOverSound, SettleStart DEF StartUnderway, Notes
<1> QED
  BY <1>1, <1>2, <1>3, <1>4, StartBeatDoes

LEMMA StartDroppedQuiet ==
    ASSUME TabsTyped, TabsSound, TabsTyped', StartDropped, ~tabLog'.slipped
    PROVE  TabsSound'
<1>1. ~tabLog.slipped /\ TabsFit /\ AttemptsFit /\ WorkFits /\ TabsNamed /\ ClosesFit /\ Accounted
  BY StartDroppedDoes DEF TabsSound, Notes
<1>2. /\ worker'.closes = worker.closes /\ worker'.close = worker.close /\ worker'.settles = worker.settles /\ worker'.later = worker.later
      /\ worker'.gone = worker.gone /\ worker'.leaving = worker.leaving /\ worker'.moving = worker.moving /\ worker'.report = worker.report
      /\ tabLog'.asked = tabLog.asked /\ tabLog'.lost = tabLog.lost /\ tabLog'.unreported = tabLog.unreported /\ childRun' = childRun
      /\ chatTabs' = chatTabs /\ session' = session
  BY StartDroppedDoes DEF Working, Notes
<1>3. /\ worker.start.step = "drop" /\ worker'.starts = worker.starts /\ worker'.start.step = "open"
      /\ worker'.start.tab = worker.start.tab /\ worker'.start.old = worker.start.old
      /\ \A i \in DOMAIN worker.closes : worker.closes[i].by # "start"
  BY StartDroppedDoes DEF StartUnderway, StartMoves
<1>4. worker.starts # <<>> /\ Attempt \in Attempts /\ Attempt \in Nat /\ 1 \in DOMAIN worker.starts /\ worker.starts[1] = Attempt
      /\ Attempt <= childRun.attempt /\ childRun.attempt \in Attempts
  <2>1. worker.starts # <<>>
    BY StartDroppedDoes DEF StartUnderway
  <2>2. 1 \in DOMAIN worker.starts /\ worker.starts[1] = Attempt
    BY <2>1, StartTail
  <2> QED
    BY <1>1, <2>1, <2>2, TabsShapes DEF AttemptsFit
<1>5. ~Moving /\ worker.moving = NotMoving /\ worker.moving.to = NoTab /\ ~worker.moving.read
  BY <1>1, <1>3 DEF WorkFits, Moving, NotMoving
<1>6. session.bound = Unbound
  BY <1>1, <1>3 DEF TabsNamed
<1>7. worker.closes # <<>> => Head(worker.closes).by # "start"
  BY <1>3, CloseTail
<1>11. TabsFit'
  BY <1>1, <1>2, <1>3, <1>5, <1>6, <1>7 DEF TabsFit, WholeBound, InUse, Gone, TabOpen
<1>12. AttemptsFit'
  BY <1>1, <1>2, <1>3, <1>5, <1>6, <1>7 DEF AttemptsFit, Attempt
<1>13. WorkFits'
  BY <1>1, <1>2, <1>3, <1>5, <1>6, <1>7 DEF WorkFits, Moving, Attempt, TabOpen
<1>14. TabsNamed'
  BY <1>1, <1>2, <1>3, <1>5, <1>6, <1>7 DEF TabsNamed, Closing, Moving, TabOpen, Attempt, OverAt, ChildOver
<1>15. ClosesFit'
  BY <1>1, <1>2, <1>3, <1>5, <1>6, <1>7, TabsShapes DEF ClosesFit, OverAt, ChildOver, TabOpen, Attempt
<1>16. Accounted'
  BY <1>1, <1>2, <1>3, <1>5, <1>6, <1>7, <1>4 DEF Accounted, TabWatched, TabShows, Moving, TabOpen, Attempt
<1> QED
  BY <1>11, <1>12, <1>13, <1>14, <1>15, <1>16 DEF TabsSound

LEMMA StartOpenQuiet ==
    ASSUME TabsTyped, TabsSound, TabsTyped', StartOpen, ~tabLog'.slipped
    PROVE  TabsSound'
<1>1. ~tabLog.slipped /\ TabsFit /\ AttemptsFit /\ WorkFits /\ TabsNamed /\ ClosesFit /\ Accounted
  BY StartOpenDoes DEF TabsSound, Notes
<1>2. /\ worker'.closes = worker.closes /\ worker'.close = worker.close /\ worker'.settles = worker.settles /\ worker'.later = worker.later
      /\ worker'.gone = worker.gone /\ worker'.leaving = worker.leaving /\ worker'.moving = worker.moving /\ worker'.report = worker.report
      /\ tabLog'.asked = tabLog.asked /\ tabLog'.lost = tabLog.lost /\ tabLog'.unreported = tabLog.unreported /\ childRun' = childRun
      /\ session' = session
  BY StartOpenDoes DEF Working, Notes
<1>3. /\ worker.start.step = "open" /\ worker'.starts = worker.starts /\ worker'.start.step = "store"
      /\ worker'.start.tab \in TabIds /\ chatTabs'[worker'.start.tab].used /\ worker'.start.old = worker.start.old
      /\ \A t \in TabIds :
            \/ chatTabs'[t] = chatTabs[t]
            \/ t = worker'.start.tab /\ ~chatTabs[t].used /\ chatTabs'[t].prompt = 0 /\ chatTabs'[t].open /\ chatTabs'[t].used
  BY StartOpenDoes DEF StartUnderway
<1>4. worker.starts # <<>> /\ Attempt \in Attempts /\ Attempt \in Nat /\ 1 \in DOMAIN worker.starts /\ worker.starts[1] = Attempt
      /\ Attempt <= childRun.attempt /\ childRun.attempt \in Attempts
  <2>1. worker.starts # <<>>
    BY StartOpenDoes DEF StartUnderway
  <2>2. 1 \in DOMAIN worker.starts /\ worker.starts[1] = Attempt
    BY <2>1, StartTail
  <2> QED
    BY <1>1, <2>1, <2>2, TabsShapes DEF AttemptsFit
<1>5. ~Moving /\ worker.moving = NotMoving /\ worker.moving.to = NoTab /\ ~worker.moving.read
  BY <1>1, <1>3 DEF WorkFits, Moving, NotMoving
<1>6. session.bound = Unbound /\ Unbound.attempt = 0 /\ Unbound.tab = NoTab
  BY <1>1, <1>3 DEF TabsNamed, Unbound
<1>7. \A t \in TabIds : (chatTabs[t].used => chatTabs'[t] = chatTabs[t]) /\ (chatTabs[t].open => chatTabs[t].used)
  BY <1>1, <1>3 DEF TabsFit
<1>11. TabsFit'
  BY <1>1, <1>2, <1>3, <1>5, <1>6, <1>7, TabsPlaces DEF TabsFit, WholeBound, InUse, Gone, TabOpen, NoTab
<1>12. AttemptsFit'
  BY <1>1, <1>2, <1>3, <1>5, <1>6, <1>7, TabsPlaces, <1>4 DEF AttemptsFit, Attempt
<1>13. WorkFits'
  BY <1>1, <1>2, <1>3, <1>5, <1>6, <1>7, TabsPlaces DEF WorkFits, Moving, Attempt, TabOpen
<1>14. TabsNamed'
  BY <1>1, <1>2, <1>3, <1>5, <1>6, <1>7, TabsPlaces DEF TabsNamed, Closing, Moving, TabOpen, Attempt, OverAt, ChildOver
<1>15. ClosesFit'
  BY <1>1, <1>2, <1>3, <1>5, <1>6, <1>7, TabsPlaces DEF ClosesFit, OverAt, ChildOver, TabOpen, Attempt
<1>16. Accounted'
  BY <1>1, <1>2, <1>3, <1>5, <1>6, <1>7, TabsPlaces, <1>4 DEF Accounted, TabWatched, TabShows, Moving, TabOpen, Attempt
<1> QED
  BY <1>11, <1>12, <1>13, <1>14, <1>15, <1>16 DEF TabsSound

LEMMA StartStoreQuiet ==
    ASSUME TabsTyped, TabsSound, TabsTyped', StartStore, ~tabLog'.slipped
    PROVE  TabsSound'
<1>1. ~tabLog.slipped /\ TabsFit /\ AttemptsFit /\ WorkFits /\ TabsNamed /\ ClosesFit /\ Accounted
  BY StartStoreDoes DEF TabsSound, Notes
<1>2. /\ worker'.closes = worker.closes /\ worker'.close = worker.close /\ worker'.settles = worker.settles /\ worker'.later = worker.later
      /\ worker'.gone = worker.gone /\ worker'.leaving = worker.leaving /\ worker'.moving = worker.moving /\ worker'.report = worker.report
      /\ tabLog'.asked = tabLog.asked /\ tabLog'.lost = tabLog.lost /\ tabLog'.unreported = tabLog.unreported /\ childRun' = childRun
      /\ chatTabs' = chatTabs
  BY StartStoreDoes DEF Working, Notes
<1>3. /\ worker.start.step = "store" /\ worker'.starts = worker.starts /\ worker'.start.step = "ready"
      /\ worker'.start.tab = worker.start.tab /\ worker'.start.old = worker.start.old /\ worker.start.tab # NoTab
      /\ session'.bound.attempt = Attempt /\ session'.bound.tab = worker.start.tab
      /\ \A a \in Attempts : session'.request[a] = IF a = Attempt THEN worker.start.tab ELSE session.request[a]
  BY <1>1, StartStoreDoes DEF StartUnderway, StartMoves, WorkFits
<1>4. worker.starts # <<>> /\ Attempt \in Attempts /\ Attempt \in Nat /\ 1 \in DOMAIN worker.starts /\ worker.starts[1] = Attempt
      /\ Attempt <= childRun.attempt /\ childRun.attempt \in Attempts
  <2>1. worker.starts # <<>>
    BY StartStoreDoes DEF StartUnderway
  <2>2. 1 \in DOMAIN worker.starts /\ worker.starts[1] = Attempt
    BY <2>1, StartTail
  <2> QED
    BY <1>1, <2>1, <2>2, TabsShapes DEF AttemptsFit
<1>5. ~Moving /\ worker.moving = NotMoving /\ worker.moving.to = NoTab /\ ~worker.moving.read
  BY <1>1, <1>3 DEF WorkFits, Moving, NotMoving
<1>6. session.bound = Unbound /\ session.bound.attempt = 0 /\ session.bound.tab = NoTab
      /\ \A i \in DOMAIN worker.closes : worker.closes[i].by # "start"
  BY <1>1, <1>3 DEF TabsNamed, Unbound, ClosesFit
<1>7. worker.closes # <<>> => Head(worker.closes).by # "start"
  BY <1>6, CloseTail
<1>11. TabsFit'
  <2>1. Attempt # 0 /\ worker.start.tab # 0 /\ InUse(worker.start.tab)
    BY <1>1, <1>3, <1>4, TabsShapes DEF TabsFit, NoTab
  <2>2. WholeBound(session.bound)' /\ InUse(session.bound.tab)'
    BY <1>2, <1>3, <2>1 DEF WholeBound, InUse
  <2>3. \A a \in Attempts : InUse(session.request[a])'
    BY <1>1, <1>2, <1>3, <2>1 DEF TabsFit, InUse
  <2> QED
    BY <1>1, <1>2, <1>3, <2>2, <2>3, SMTT(20) DEF TabsFit, WholeBound, InUse, Gone, TabOpen
<1>12. AttemptsFit'
  <2>1. \A a \in Attempts : session'.request[a] # NoTab => a <= childRun.attempt
    BY <1>1, <1>3, <1>4 DEF AttemptsFit
  <2>2. \A a \in Attempts : a > Attempt => session'.request[a] = NoTab
    <3>1. SUFFICES ASSUME NEW a \in Attempts, a > Attempt PROVE session'.request[a] = NoTab
      OBVIOUS
    <3>2. session.request[a] = NoTab
      BY <1>1, <1>3, <3>1 DEF AttemptsFit
    <3>3. a \in Nat
      BY TabsShapes
    <3>4. a # Attempt
      BY ONLY <1>4, <3>1, <3>3
    <3> QED
      BY <1>3, <3>2, <3>4
  <2>3. worker.report = NoReport \/ worker.report.attempt <= Attempt
    BY <1>1, <1>3 DEF AttemptsFit
  <2> QED
    BY <1>1, <1>2, <1>3, <1>4, <2>1, <2>2, <2>3 DEF AttemptsFit, Attempt
<1>13. WorkFits'
  BY <1>1, <1>2, <1>3, <1>4, <1>5, <1>6, <1>7 DEF WorkFits, Moving, Attempt, TabOpen
<1>14. TabsNamed'
  <2>1. \A t \in TabIds : chatTabs[t].open /\ chatTabs[t].prompt # 0 => Closing(t)
    BY <1>1, <1>5, <1>6, TabsPlaces DEF TabsNamed
  <2>2. Closing(worker.close.bound.tab)' <=> Closing(worker.close.bound.tab)
    BY <1>2 DEF Closing
  <2>3. session'.request[Attempt] = worker.start.tab
    BY <1>3, <1>4
  <2>4. worker.close.step = "look" \/ worker.closes # <<>>
    BY TabsShapes
  <2> QED
    BY <1>2, <1>3, <1>5, <1>7, <2>1, <2>3, <2>4 DEF TabsNamed, Closing, Moving, TabOpen, Attempt
<1>15. ClosesFit'
  BY <1>1, <1>2, <1>3, <1>4, <1>5, <1>6, <1>7 DEF ClosesFit, OverAt, ChildOver, TabOpen, Attempt
<1>16. Accounted'
  BY <1>1, <1>2, <1>3, <1>4, <1>5, <1>6, <1>7 DEF Accounted, TabWatched, TabShows, Moving, TabOpen, Attempt
<1> QED
  BY <1>11, <1>12, <1>13, <1>14, <1>15, <1>16 DEF TabsSound

LEMMA StartReadyOnQuiet ==
    ASSUME TabsTyped, TabsSound, TabsTyped', StartReady, ~tabLog'.slipped,
           Working({"start"}), StartMoves("again")
    PROVE  TabsSound'
<1>1. ~tabLog.slipped /\ TabsFit /\ AttemptsFit /\ WorkFits /\ TabsNamed /\ ClosesFit /\ Accounted
  BY StartReadyDoes DEF TabsSound, Notes
<1>2. /\ worker'.closes = worker.closes /\ worker'.close = worker.close /\ worker'.settles = worker.settles /\ worker'.later = worker.later
      /\ worker'.gone = worker.gone /\ worker'.leaving = worker.leaving /\ worker'.moving = worker.moving /\ worker'.report = worker.report
      /\ tabLog'.asked = tabLog.asked /\ tabLog'.lost = tabLog.lost /\ tabLog'.unreported = tabLog.unreported /\ childRun' = childRun
      /\ chatTabs' = chatTabs /\ session' = session
  BY StartReadyDoes DEF Working, Notes
<1>3. /\ worker.start.step = "ready" /\ worker'.starts = worker.starts /\ worker'.start.step = "again"
      /\ worker'.start.tab = worker.start.tab /\ worker'.start.old = worker.start.old
  BY StartReadyDoes DEF StartUnderway, StartMoves
<1>4. worker.starts # <<>> /\ Attempt \in Attempts /\ Attempt \in Nat /\ 1 \in DOMAIN worker.starts /\ worker.starts[1] = Attempt
      /\ Attempt <= childRun.attempt /\ childRun.attempt \in Attempts
  <2>1. worker.starts # <<>>
    BY StartReadyDoes DEF StartUnderway
  <2>2. 1 \in DOMAIN worker.starts /\ worker.starts[1] = Attempt
    BY <2>1, StartTail
  <2> QED
    BY <1>1, <2>1, <2>2, TabsShapes DEF AttemptsFit
<1>5. ~Moving /\ worker.moving = NotMoving /\ worker.moving.to = NoTab /\ ~worker.moving.read
  BY <1>1, <1>3 DEF WorkFits, Moving, NotMoving
<1>11. TabsFit'
  BY <1>1, <1>2, <1>3, <1>5 DEF TabsFit, WholeBound, InUse, Gone, TabOpen
<1>12. AttemptsFit'
  BY <1>1, <1>2, <1>3, <1>5, <1>4 DEF AttemptsFit, Attempt
<1>13. WorkFits'
  BY <1>1, <1>2, <1>3, <1>5 DEF WorkFits, Moving, Attempt, TabOpen
<1>14. TabsNamed'
  BY <1>1, <1>2, <1>3, <1>5 DEF TabsNamed, Closing, Moving, TabOpen, Attempt, OverAt, ChildOver
<1>15. ClosesFit'
  BY <1>1, <1>2, <1>3, <1>5 DEF ClosesFit, OverAt, ChildOver, TabOpen, Attempt
<1>16. Accounted'
  BY <1>1, <1>2, <1>3, <1>5, <1>4 DEF Accounted, TabWatched, TabShows, Moving, TabOpen, Attempt
<1> QED
  BY <1>11, <1>12, <1>13, <1>14, <1>15, <1>16 DEF TabsSound

LEMMA StartReadyQuiet ==
    ASSUME TabsTyped, TabsSound, TabsTyped', StartReady, ~tabLog'.slipped
    PROVE  TabsSound'
<1>1. CASE Working({"start"}) /\ StartMoves("again")
  BY <1>1, StartReadyOnQuiet
<1>2. CASE Working({"start", "settles"}) /\ StartOver /\ SettlesThese({Attempt})
  BY <1>2, StartReadyDoes, StartOverSound, SettleStart DEF StartUnderway, Notes
<1> QED
  BY <1>1, <1>2, StartReadyDoes

LEMMA StartAgainOnQuiet ==
    ASSUME TabsTyped, TabsSound, TabsTyped', StartAgain, ~tabLog'.slipped,
           StartMoves("send")
    PROVE  TabsSound'
<1>1. ~tabLog.slipped /\ TabsFit /\ AttemptsFit /\ WorkFits /\ TabsNamed /\ ClosesFit /\ Accounted
  BY StartAgainDoes DEF TabsSound, Notes
<1>2. /\ worker'.closes = worker.closes /\ worker'.close = worker.close /\ worker'.settles = worker.settles /\ worker'.later = worker.later
      /\ worker'.gone = worker.gone /\ worker'.leaving = worker.leaving /\ worker'.moving = worker.moving /\ worker'.report = worker.report
      /\ tabLog'.asked = tabLog.asked /\ tabLog'.lost = tabLog.lost /\ tabLog'.unreported = tabLog.unreported /\ childRun' = childRun
      /\ chatTabs' = chatTabs /\ session' = session
  BY StartAgainDoes DEF Working, Notes
<1>3. /\ worker.start.step = "again" /\ worker'.starts = worker.starts /\ worker'.start.step = "send"
      /\ worker'.start.tab = worker.start.tab /\ worker'.start.old = worker.start.old
  BY StartAgainDoes DEF StartUnderway, StartMoves
<1>4. worker.starts # <<>> /\ Attempt \in Attempts /\ Attempt \in Nat /\ 1 \in DOMAIN worker.starts /\ worker.starts[1] = Attempt
      /\ Attempt <= childRun.attempt /\ childRun.attempt \in Attempts
  <2>1. worker.starts # <<>>
    BY StartAgainDoes DEF StartUnderway
  <2>2. 1 \in DOMAIN worker.starts /\ worker.starts[1] = Attempt
    BY <2>1, StartTail
  <2> QED
    BY <1>1, <2>1, <2>2, TabsShapes DEF AttemptsFit
<1>5. ~Moving /\ worker.moving = NotMoving /\ worker.moving.to = NoTab /\ ~worker.moving.read
  BY <1>1, <1>3 DEF WorkFits, Moving, NotMoving
<1>11. TabsFit'
  BY <1>1, <1>2, <1>3, <1>5 DEF TabsFit, WholeBound, InUse, Gone, TabOpen
<1>12. AttemptsFit'
  BY <1>1, <1>2, <1>3, <1>5, <1>4 DEF AttemptsFit, Attempt
<1>13. WorkFits'
  BY <1>1, <1>2, <1>3, <1>5 DEF WorkFits, Moving, Attempt, TabOpen
<1>14. TabsNamed'
  BY <1>1, <1>2, <1>3, <1>5 DEF TabsNamed, Closing, Moving, TabOpen, Attempt, OverAt, ChildOver
<1>15. ClosesFit'
  BY <1>1, <1>2, <1>3, <1>5 DEF ClosesFit, OverAt, ChildOver, TabOpen, Attempt
<1>16. Accounted'
  BY <1>1, <1>2, <1>3, <1>5, <1>4 DEF Accounted, TabWatched, TabShows, Moving, TabOpen, Attempt
<1> QED
  BY <1>11, <1>12, <1>13, <1>14, <1>15, <1>16 DEF TabsSound

LEMMA StartAgainQuiet ==
    ASSUME TabsTyped, TabsSound, TabsTyped', StartAgain, ~tabLog'.slipped
    PROVE  TabsSound'
<1>1. CASE StartMoves("send")
  BY <1>1, StartAgainOnQuiet
<1>2. CASE StartOver /\ ~Current(Attempt)
  BY <1>2, StartAgainDoes, StartOverSound DEF StartUnderway, Notes, Working
<1> QED
  BY <1>1, <1>2, StartAgainDoes

LEMMA StartSendOnQuiet ==
    ASSUME TabsTyped, TabsSound, TabsTyped', StartSend, ~tabLog'.slipped,
           TabOpen(worker.start.tab), Working({"start"}), StartOver,
           \A t \in TabIds : /\ chatTabs'[t].open = chatTabs[t].open /\ chatTabs'[t].used = chatTabs[t].used
                             /\ chatTabs'[t].prompt = IF t = worker.start.tab THEN Attempt ELSE chatTabs[t].prompt
    PROVE  TabsSound'
<1>1. ~tabLog.slipped /\ TabsFit /\ AttemptsFit /\ WorkFits /\ TabsNamed /\ ClosesFit /\ Accounted
  BY StartSendDoes DEF TabsSound, Notes
<1>2. /\ worker'.closes = worker.closes /\ worker'.close = worker.close /\ worker'.settles = worker.settles /\ worker'.later = worker.later
      /\ worker'.gone = worker.gone /\ worker'.leaving = worker.leaving /\ worker'.moving = worker.moving /\ worker'.report = worker.report
      /\ tabLog'.asked = tabLog.asked /\ tabLog'.lost = tabLog.lost /\ tabLog'.unreported = tabLog.unreported /\ childRun' = childRun
      /\ session' = session
  BY StartSendDoes DEF Working, Notes
<1>3. /\ worker.start.step = "send" /\ worker.starts # <<>>
      /\ worker'.start.step = "look" /\ worker'.start.tab = NoTab /\ worker'.start.old = 0
      /\ \A i \in DOMAIN worker'.starts : \E j \in DOMAIN worker.starts : worker'.starts[i] = worker.starts[j]
      /\ \A j \in DOMAIN worker.starts :
            worker.starts[j] = Attempt \/ \E i \in DOMAIN worker'.starts : worker'.starts[i] = worker.starts[j]
  <2>1. worker.start.step = "send" /\ worker.starts # <<>>
    BY StartSendDoes DEF StartUnderway
  <2> QED
    BY <2>1, StartLeaves
<1>4. worker.starts # <<>> /\ Attempt \in Attempts /\ Attempt \in Nat /\ 1 \in DOMAIN worker.starts /\ worker.starts[1] = Attempt
      /\ Attempt <= childRun.attempt /\ childRun.attempt \in Attempts
  <2>1. worker.starts # <<>>
    BY StartSendDoes DEF StartUnderway
  <2>2. 1 \in DOMAIN worker.starts /\ worker.starts[1] = Attempt
    BY <2>1, StartTail
  <2> QED
    BY <1>1, <2>1, <2>2, TabsShapes DEF AttemptsFit
<1>5. ~Moving /\ worker.moving = NotMoving /\ worker.moving.to = NoTab /\ ~worker.moving.read
  BY <1>1, <1>3 DEF WorkFits, Moving, NotMoving
<1>6. \A i \in DOMAIN worker.closes : worker.closes[i].by # "start"
  BY <1>1, <1>3 DEF ClosesFit
<1>7. worker.closes # <<>> => Head(worker.closes).by # "start"
  BY <1>6, CloseTail
<1>11. TabsFit'
  BY <1>1, <1>2, <1>3, TabsPlaces, SMTT(20) DEF TabsFit, WholeBound, InUse, Gone, TabOpen
<1>12. AttemptsFit'
  BY <1>1, <1>2, <1>3, TabsShapes, SMTT(20) DEF AttemptsFit, Attempt
<1>13. WorkFits'
  BY <1>1, <1>2, <1>3, <1>5 DEF WorkFits, Moving, Attempt, TabOpen
<1>14. TabsNamed'
  BY <1>1, <1>2, <1>3, <1>5, <1>6, <1>7 DEF TabsNamed, Closing, Moving, TabOpen, Attempt, OverAt, ChildOver
<1>15. ClosesFit'
  BY <1>1, <1>2, <1>3, <1>6, <1>7, TabsPlaces DEF ClosesFit, OverAt, ChildOver, TabOpen, Attempt
<1>16. Accounted'
  <2>1. SUFFICES ASSUME ~tabLog.lost, ~tabLog.unreported, childRun.status = "pending"
                 PROVE  /\ childRun.attempt \in tabLog.asked =>
                              \/ \E i \in DOMAIN worker'.starts : worker'.starts[i] = childRun.attempt
                              \/ worker.settles[childRun.attempt] # "none" \/ TabWatched(childRun.attempt)'
                        /\ session.bound.attempt = childRun.attempt =>
                              worker.settles[childRun.attempt] # "none" \/ TabWatched(childRun.attempt)'
    BY <1>2 DEF Accounted
  <2>2. CASE Attempt = childRun.attempt
    <3>1. session.request[Attempt] = worker.start.tab /\ worker.start.tab # NoTab /\ worker.start.tab \in TabIds
      BY <1>1, <1>3, <2>1, <2>2, <1>4, TabsPlaces, TabsShapes, SMTT(20) DEF TabsNamed, OverAt, ChildOver, WorkFits
    <3>2. PICK t \in TabIds : t = worker.start.tab
      BY <3>1
    <3>3. TabOpen(t)' /\ chatTabs'[t].prompt = childRun.attempt
      BY <2>2, <3>2 DEF TabOpen
    <3>4. session'.request[childRun'.attempt] = t /\ t # NoTab /\ childRun' = childRun
      BY <1>2, <2>2, <3>1, <3>2
    <3>5. TabWatched(childRun.attempt)'
      BY <3>3, <3>4 DEF TabWatched, TabShows
    <3> QED
      BY <3>5
  <2>3. CASE Attempt # childRun.attempt
    <3>1. session.request[childRun.attempt] = NoTab
      BY <1>1, <1>3, <1>4, <2>3, TabsShapes DEF AttemptsFit
    <3>2. ~TabWatched(childRun.attempt)
      BY <3>1 DEF TabWatched
    <3> QED
      BY <1>1, <1>3, <2>1, <2>3, <3>2 DEF Accounted
  <2> QED
    BY <2>2, <2>3
<1> QED
  BY <1>11, <1>12, <1>13, <1>14, <1>15, <1>16 DEF TabsSound

LEMMA StartSendQuiet ==
    ASSUME TabsTyped, TabsSound, TabsTyped', StartSend, ~tabLog'.slipped
    PROVE  TabsSound'
<1>1. CASE chatTabs' = chatTabs /\ Working({"start", "settles"}) /\ StartOver /\ SettlesThese({Attempt})
  BY <1>1, StartSendDoes, StartOverSound, SettleStart DEF StartUnderway, Notes
<1>2. CASE TabOpen(worker.start.tab) /\ Working({"start"}) /\ StartOver
           /\ \A t \in TabIds :
                 /\ chatTabs'[t].open = chatTabs[t].open /\ chatTabs'[t].used = chatTabs[t].used
                 /\ chatTabs'[t].prompt = IF t = worker.start.tab THEN Attempt ELSE chatTabs[t].prompt
  BY <1>2, StartSendOnQuiet
<1> QED
  BY <1>1, <1>2, StartSendDoes

LEMMA ReportPostQuiet ==
    ASSUME TabsTyped, TabsSound, TabsTyped', ReportPost, ~tabLog'.slipped
    PROVE  TabsSound'
<1>1. ~tabLog.slipped /\ TabsFit /\ AttemptsFit /\ WorkFits /\ TabsNamed /\ ClosesFit /\ Accounted
  BY ReportAttempt, ReportPostDoes DEF TabsSound, Notes
<1>2. /\ worker'.starts = worker.starts /\ worker'.start = worker.start /\ worker'.closes = worker.closes /\ worker'.close = worker.close
      /\ worker'.settles = worker.settles /\ worker'.gone = worker.gone /\ worker'.leaving = worker.leaving /\ worker'.moving = worker.moving
      /\ tabLog'.asked = tabLog.asked /\ tabLog'.lost = tabLog.lost /\ tabLog'.unreported = tabLog.unreported /\ chatTabs' = chatTabs
  BY ReportAttempt, ReportPostDoes DEF Working, Notes
<1>3. /\ worker.report # NoReport /\ worker'.report = NoReport /\ worker.report.attempt \in Attempts
      /\ session.request[worker.report.attempt] \in {NoTab, worker.report.tab}
      /\ session'.bound = session.bound
      /\ \A a \in Attempts : session'.request[a] = IF a = worker.report.attempt THEN worker.report.tab ELSE session.request[a]
  <2>1. worker.report.attempt \in Attempts
    BY ReportAttempt
  <2>2. ~(session.request[worker.report.attempt] \notin {NoTab, worker.report.tab})
    BY <2>1, ReportPostDoes, Zenon
  <2> QED
    BY <2>1, <2>2, ReportPostDoes
<1>4. \/ childRun'.status = childRun.status /\ childRun'.attempt = childRun.attempt
      \/ childRun.status \in {"pending", "running"} /\ ChildOver' /\ childRun'.attempt = childRun.attempt
      \/ /\ childRun.status = "pending" /\ childRun'.status = "pending"
         /\ childRun'.attempt = worker.report.attempt + 1 /\ childRun.attempt = worker.report.attempt
  BY <1>3, ReportPostDoes DEF ChildFails, Current, ChildOver
<1>5. \/ worker'.later = worker.later
      \/ ChildOver' /\ worker'.later = worker.later \cup {worker.report.attempt}
  BY <1>3, ReportPostDoes
<1>6. childRun.attempt \in Nat /\ childRun.attempt <= childRun'.attempt /\ childRun'.attempt \in Nat
  BY <1>4, TabsShapes
<1>7. /\ \A x \in Nat : OverAt(x) => OverAt(x)'
      /\ childRun.status = "failed" => childRun'.status = "failed"
  BY <1>4, <1>6 DEF OverAt, ChildOver
<1>8. worker.report.attempt <= childRun.attempt /\ worker.report.tab # NoTab
  BY <1>1, <1>3 DEF AttemptsFit
<1>11. TabsFit'
  <2>1. InUse(worker.report.tab) /\ NoReport.tab = NoTab
    BY <1>1 DEF TabsFit, NoReport
  <2>2. \A a \in Attempts : InUse(session'.request[a])
    BY <1>1, <1>3, <2>1 DEF TabsFit
  <2> QED
    BY <1>1, <1>2, <1>3, <2>1, <2>2, SMTT(20) DEF TabsFit, WholeBound, InUse, Gone, TabOpen
<1>12. AttemptsFit'
  <2>1. \A n \in Nat : n <= childRun.attempt => n <= childRun'.attempt
    BY <1>6
  <2>2. worker.start.step # "look" => Attempt \in Attempts
    BY TabsShapes
  <2>3. worker.start.step \notin {"look", "beat"} => worker.report.attempt <= Attempt
    BY <1>1, <1>3 DEF AttemptsFit
  <2>4. ASSUME NEW a \in Attempts, worker.start.step \notin {"look", "beat"}, a > Attempt PROVE session'.request[a] = NoTab
    <3>1. session.request[a] = NoTab
      BY <1>1, <2>4 DEF AttemptsFit
    <3>2. a \in Nat /\ Attempt \in Nat /\ worker.report.attempt \in Nat
      BY <1>3, <2>2, <2>4, TabsShapes
    <3>3. a # worker.report.attempt
      BY <2>3, <2>4, <3>2
    <3> QED
      BY <1>3, <3>1, <3>3
  <2>5. \A a \in Attempts : session'.request[a] # NoTab => a <= childRun.attempt
    BY <1>1, <1>3, <1>8 DEF AttemptsFit
  <2>6. \A a \in tabLog.asked : a \in Attempts
    BY DEF TabsTyped, TabsLog
  <2>7. /\ \A a \in Attempts : session'.request[a] # NoTab => a <= childRun'.attempt
        /\ session.bound.attempt <= childRun'.attempt /\ worker.moving.bound.attempt <= childRun'.attempt
        /\ worker.start.old <= childRun'.attempt
        /\ \A i \in DOMAIN worker.starts : worker.starts[i] <= childRun'.attempt
        /\ \A a \in tabLog.asked : a <= childRun'.attempt
        /\ \A a \in worker.moving.requests : a <= childRun'.attempt
    <3>1. /\ session.bound.attempt <= childRun.attempt /\ worker.moving.bound.attempt <= childRun.attempt
          /\ worker.start.old <= childRun.attempt
          /\ \A i \in DOMAIN worker.starts : worker.starts[i] <= childRun.attempt
          /\ \A a \in tabLog.asked : a <= childRun.attempt
          /\ \A a \in worker.moving.requests : a <= childRun.attempt
      BY <1>1 DEF AttemptsFit
    <3>2. /\ session.bound.attempt \in Nat /\ worker.moving.bound.attempt \in Nat /\ worker.start.old \in Nat
          /\ \A i \in DOMAIN worker.starts : worker.starts[i] \in Nat
          /\ \A a \in Attempts : a \in Nat
      BY TabsShapes
    <3>3. \A a \in worker.moving.requests : a \in Attempts
      BY DEF TabsTyped, TabsWork, MoveWork
    <3> QED
      BY ONLY <2>1, <2>5, <2>6, <3>1, <3>2, <3>3
  <2> QED
    BY <1>2, <1>3, <2>4, <2>7 DEF AttemptsFit, Attempt
<1>13. WorkFits'
  <2>1. worker.moving.read => \A a \in worker.moving.requests : session'.request[a] = worker.moving.from
    <3>1. SUFFICES ASSUME worker.moving.read, NEW a \in worker.moving.requests PROVE session'.request[a] = worker.moving.from
      OBVIOUS
    <3>2. a \in Attempts /\ session.request[a] = worker.moving.from /\ worker.moving.from # NoTab
      BY <1>1, <3>1 DEF WorkFits, Moving, NotMoving, TabsTyped, TabsWork, MoveWork
    <3> QED
      BY <1>3, <3>2
  <2> QED
    BY <1>1, <1>2, <1>3, <2>1 DEF WorkFits, Moving, Attempt
<1>14. TabsNamed'
  <2>1. worker.start.step \in {"ready", "again", "send"} => session'.request[Attempt] = worker.start.tab \/ OverAt(Attempt)'
    <3>1. SUFFICES ASSUME worker.start.step \in {"ready", "again", "send"}, ~OverAt(Attempt)'
                   PROVE  session'.request[Attempt] = worker.start.tab
      OBVIOUS
    <3>2. Attempt \in Attempts /\ Attempt \in Nat /\ worker'.starts = worker.starts
      BY <1>2, <3>1, TabsShapes
    <3>3. ~OverAt(Attempt)
      BY <1>2, <1>7, <3>1, <3>2 DEF Attempt
    <3>4. session.request[Attempt] = worker.start.tab /\ worker.start.tab # NoTab
      BY <1>1, <3>1, <3>3 DEF TabsNamed, WorkFits
    <3> QED
      BY <1>3, <3>2, <3>4
  <2> QED
    BY <1>1, <1>2, <1>3, <2>1 DEF TabsNamed, Closing, Moving, TabOpen, Attempt
<1>15. ClosesFit'
  <2>1. \A i \in DOMAIN worker.closes : worker.closes[i].attempt \in Nat
    BY LaterParts, TabsNumbers DEF CloseAsked
  <2>2. \A a \in worker'.later : OverAt(a)'
    BY <1>1, <1>5, <1>7, LaterParts DEF ClosesFit, OverAt
  <2>3. worker.start.old \in Nat /\ worker.close.bound.attempt \in Nat
    BY TabsShapes
  <2> QED
    BY <1>1, <1>2, <1>3, <1>7, <2>1, <2>2, <2>3 DEF ClosesFit, TabOpen, Attempt
<1>16. Accounted'
  <2>1. childRun'.attempt = childRun.attempt \/ childRun'.attempt > childRun.attempt
    BY <1>6
  <2>2. CASE childRun'.attempt = childRun.attempt /\ childRun'.status = "pending"
    <3>1. childRun.status = "pending"
      BY <1>4, <1>6, <2>2 DEF ChildOver
    <3>2. TabWatched(childRun.attempt) => TabWatched(childRun.attempt)'
      BY <1>2, <1>3, <2>2, TabsShapes DEF TabWatched, TabShows, TabOpen, Moving
    <3> QED
      BY <1>1, <1>2, <1>3, <2>2, <3>1, <3>2 DEF Accounted, Attempt
  <2>3. CASE childRun'.attempt > childRun.attempt
    <3>1. childRun'.attempt \notin tabLog.asked /\ session.bound.attempt # childRun'.attempt
      BY <1>1, <1>6, <2>3, TabsShapes DEF AttemptsFit
    <3> QED
      BY <1>2, <1>3, <3>1 DEF Accounted
  <2>4. CASE childRun'.status # "pending"
    BY <2>4 DEF Accounted
  <2> QED
    BY <2>1, <2>2, <2>3, <2>4
<1> QED
  BY <1>11, <1>12, <1>13, <1>14, <1>15, <1>16 DEF TabsSound

LEMMA TabGoneApplyQuiet ==
    ASSUME TabsTyped, TabsSound, TabsTyped', TabGoneApply, ~tabLog'.slipped
    PROVE  TabsSound'
<1>1. ~tabLog.slipped /\ TabsFit /\ AttemptsFit /\ WorkFits /\ TabsNamed /\ ClosesFit /\ Accounted
  BY TabGoneApplyDoes DEF TabsSound, Notes
<1>2. /\ worker'.starts = worker.starts /\ worker'.start = worker.start /\ worker'.closes = worker.closes /\ worker'.close = worker.close
      /\ worker'.later = worker.later /\ worker'.gone = worker.gone /\ worker'.moving = worker.moving /\ worker'.report = worker.report
      /\ tabLog'.asked = tabLog.asked /\ tabLog'.lost = tabLog.lost /\ tabLog'.unreported = tabLog.unreported /\ childRun' = childRun
      /\ chatTabs' = chatTabs
  BY TabGoneApplyDoes DEF Working, Notes
<1>3. /\ worker.leaving # NotLeaving /\ worker'.leaving = NotLeaving
      /\ session'.request = session.request
      /\ session'.bound = IF worker.leaving.unbind THEN Unbound ELSE session.bound
      /\ SettlesThese({a \in worker.leaving.failed : session.request[a] # NoTab})
  BY TabGoneApplyDoes
<1>4. worker.leaving.unbind => session.bound.tab \in {NoTab, worker.leaving.tab}
  BY TabGoneApplyDoes
<1>5. /\ NotLeaving.tab = NoTab /\ NotLeaving.failed = {} /\ Unbound.tab = NoTab /\ Unbound.attempt = 0
      /\ session'.bound = Unbound \/ session'.bound = session.bound
      /\ session'.bound # session.bound => session.bound.tab \in {NoTab, worker.leaving.tab}
  BY <1>3, <1>4 DEF NotLeaving, Unbound
<1>6. ~TabOpen(worker.leaving.tab)
  BY <1>1 DEF TabsFit
<1>7. \A a \in Attempts : /\ worker.settles[a] # "none" => worker'.settles[a] # "none"
                          /\ a \in worker.leaving.failed /\ session.request[a] # NoTab => worker'.settles[a] # "none"
  BY <1>3 DEF SettlesThese
<1>11. TabsFit'
  BY <1>1, <1>2, <1>3, <1>5, TabsPlaces DEF TabsFit, WholeBound, InUse, Gone, TabOpen, NoTab
<1>12. AttemptsFit'
  BY <1>1, <1>2, <1>3, <1>5, TabsShapes DEF AttemptsFit, Attempt
<1>13. WorkFits'
  BY <1>1, <1>2, <1>3, <1>5 DEF WorkFits, Moving, Attempt, TabOpen
<1>14. TabsNamed'
  <2>1. \A t \in TabIds : TabOpen(t) /\ session.bound.tab = t => session'.bound = session.bound
    BY <1>5, <1>6, TabsPlaces DEF TabOpen
  <2>2. Moving /\ session.bound.tab = worker.moving.from => session'.bound = session.bound
    BY <1>1, <1>5, TabsPlaces DEF WorkFits
  <2>3. /\ \A t \in TabIds : chatTabs[t].open /\ chatTabs[t].prompt # 0 =>
               session'.bound.tab = t \/ Closing(t) \/ worker.moving.to = t
        /\ worker.start.step \in {"ready", "again", "send"} /\ TabOpen(worker.start.tab) =>
               session'.bound.tab = worker.start.tab \/ Closing(worker.start.tab)
    BY <1>1, <2>1 DEF TabsNamed, TabOpen
  <2>4. Moving /\ TabOpen(worker.moving.to) /\ chatTabs[worker.moving.to].prompt # 0 =>
          (IF worker.moving.read THEN worker.moving.bound.tab ELSE session'.bound.tab) = worker.moving.from
    BY <1>1, <2>2 DEF TabsNamed
  <2> QED
    BY <1>1, <1>2, <1>3, <1>5, <2>3, <2>4 DEF TabsNamed, Closing, Moving, TabOpen, Attempt, OverAt, ChildOver
<1>15. ClosesFit'
  BY <1>1, <1>2, <1>3, <1>5, TabsPlaces DEF ClosesFit, OverAt, ChildOver, TabOpen, Attempt
<1>16. Accounted'
  <2>1. childRun.attempt \in Attempts /\ childRun.attempt # 0
    BY TabsShapes
  <2>2. TabWatched(childRun.attempt) => worker'.settles[childRun.attempt] # "none" \/ TabWatched(childRun.attempt)'
    BY <1>2, <1>3, <1>7, <2>1 DEF TabWatched, TabShows, TabOpen, Moving
  <2>3. session'.bound.attempt = childRun.attempt => session.bound.attempt = childRun.attempt
    BY <1>5, <2>1
  <2> QED
    BY <1>1, <1>2, <1>7, <2>1, <2>2, <2>3 DEF Accounted, Attempt
<1> QED
  BY <1>11, <1>12, <1>13, <1>14, <1>15, <1>16 DEF TabsSound

LEMMA MoveReadQuiet ==
    ASSUME TabsTyped, TabsSound, TabsTyped', MoveRead, ~tabLog'.slipped
    PROVE  TabsSound'
<1>1. ~tabLog.slipped /\ TabsFit /\ AttemptsFit /\ WorkFits /\ TabsNamed /\ ClosesFit /\ Accounted
  BY MoveReadDoes DEF TabsSound, Notes
<1>2. /\ worker'.starts = worker.starts /\ worker'.start = worker.start /\ worker'.closes = worker.closes /\ worker'.close = worker.close
      /\ worker'.settles = worker.settles /\ worker'.later = worker.later /\ worker'.gone = worker.gone /\ worker'.leaving = worker.leaving
      /\ worker'.report = worker.report /\ tabLog'.asked = tabLog.asked /\ tabLog'.lost = tabLog.lost /\ tabLog'.unreported = tabLog.unreported
      /\ childRun' = childRun /\ chatTabs' = chatTabs /\ session' = session
  BY MoveReadDoes DEF Working, Notes
<1>3. /\ worker.moving # NotMoving /\ ~worker.moving.read
      /\ worker'.moving.read /\ worker'.moving.from = worker.moving.from /\ worker'.moving.to = worker.moving.to
      /\ worker'.moving.bound = IF session.bound.tab = worker.moving.from THEN session.bound ELSE Unbound
      /\ worker'.moving.requests = {a \in Attempts : session.request[a] = worker.moving.from}
  BY MoveReadDoes
<1>4. /\ Moving /\ Moving' /\ worker.moving.from # NoTab /\ WholeBound(Unbound) /\ Unbound.attempt = 0
      /\ session.bound.tab = worker.moving.from => worker'.moving.bound = session.bound
      /\ session.bound.tab # worker.moving.from => worker'.moving.bound = Unbound
  BY <1>1, <1>3 DEF Moving, NotMoving, WorkFits, WholeBound, Unbound, NoTab
<1>5. \A a \in worker'.moving.requests : a \in Attempts /\ session.request[a] = worker.moving.from
  BY <1>3
<1>11. TabsFit'
  BY <1>1, <1>2, <1>3, <1>4 DEF TabsFit, WholeBound, InUse, Gone, TabOpen
<1>12. AttemptsFit'
  BY <1>1, <1>2, <1>4, <1>5, TabsShapes DEF AttemptsFit, Attempt
<1>13. WorkFits'
  BY <1>1, <1>2, <1>3, <1>4, <1>5 DEF WorkFits, Moving, Attempt, TabOpen
<1>14. TabsNamed'
  BY <1>1, <1>2, <1>3, <1>4 DEF TabsNamed, Closing, Moving, TabOpen, Attempt, OverAt, ChildOver
<1>15. ClosesFit'
  BY <1>1, <1>2, <1>3, <1>4 DEF ClosesFit, OverAt, ChildOver, TabOpen, Attempt
<1>16. Accounted'
  <2>1. childRun.attempt \in Attempts
    BY TabsShapes
  <2>2. TabWatched(childRun.attempt) => TabWatched(childRun.attempt)'
    BY <1>2, <1>3, <1>4, <2>1 DEF TabWatched, TabShows, TabOpen
  <2> QED
    BY <1>1, <1>2, <2>1, <2>2 DEF Accounted, Attempt
<1> QED
  BY <1>11, <1>12, <1>13, <1>14, <1>15, <1>16 DEF TabsSound

LEMMA MoveWriteQuiet ==
    ASSUME TabsTyped, TabsSound, TabsTyped', MoveWrite, ~tabLog'.slipped
    PROVE  TabsSound'
<1>1. ~tabLog.slipped /\ TabsFit /\ AttemptsFit /\ WorkFits /\ TabsNamed /\ ClosesFit /\ Accounted
  BY MoveWriteDoes DEF TabsSound, Notes
<1>2. /\ worker'.starts = worker.starts /\ worker'.start = worker.start /\ worker'.closes = worker.closes /\ worker'.close = worker.close
      /\ worker'.settles = worker.settles /\ worker'.later = worker.later /\ worker'.gone = worker.gone /\ worker'.leaving = worker.leaving
      /\ worker'.report = worker.report /\ tabLog'.asked = tabLog.asked /\ tabLog'.lost = tabLog.lost /\ tabLog'.unreported = tabLog.unreported
      /\ childRun' = childRun /\ chatTabs' = chatTabs
  BY MoveWriteDoes DEF Working, Notes
<1>3. /\ worker.moving.read /\ worker'.moving = NotMoving
      /\ session'.bound = IF worker.moving.bound = Unbound THEN session.bound
                          ELSE [attempt |-> worker.moving.bound.attempt, tab |-> worker.moving.to]
      /\ \A a \in Attempts : session'.request[a] =
            IF a \in worker.moving.requests THEN worker.moving.to ELSE session.request[a]
  BY MoveWriteDoes
<1>4. worker.moving.bound # Unbound => session.bound = worker.moving.bound
  <2>1. ~(worker.moving.bound # Unbound /\ session.bound # worker.moving.bound)
    BY MoveWriteDoes, Zenon
  <2> QED
    BY <2>1
<1>5. /\ Moving /\ worker.moving.from # NoTab /\ worker.moving.to # NoTab /\ worker.moving.from # worker.moving.to
      /\ worker.start.step = "look" /\ worker.close.step = "look"
      /\ worker.moving.from \notin worker.gone
      /\ worker.moving.bound # Unbound => worker.moving.bound.tab = worker.moving.from
      /\ \A a \in worker.moving.requests : session.request[a] = worker.moving.from
  BY <1>1, <1>3 DEF Moving, NotMoving, WorkFits
<1>6. /\ NotMoving.from = NoTab /\ NotMoving.to = NoTab /\ ~NotMoving.read /\ NotMoving.bound = Unbound
      /\ NotMoving.requests = {} /\ Unbound.attempt = 0 /\ Unbound.tab = NoTab /\ ~Moving'
  BY <1>3 DEF NotMoving, Unbound, Moving
<1>7. /\ worker.moving.bound = Unbound => session'.bound = session.bound
      /\ worker.moving.bound # Unbound => session'.bound.attempt = session.bound.attempt /\ session'.bound.tab = worker.moving.to
            /\ session.bound.tab = worker.moving.from
  BY <1>3, <1>4, <1>5
<1>8. ~TabOpen(worker.moving.from) /\ InUse(worker.moving.to)
  BY <1>1 DEF TabsFit
<1>9. (session.bound.attempt = 0 <=> session.bound.tab = 0) /\ NoTab = 0
  BY <1>1 DEF TabsFit, WholeBound, NoTab
<1>10. session'.bound.attempt = session.bound.attempt
  BY <1>7
<1>11. TabsFit'
  <2>1. WholeBound(session.bound)' /\ InUse(session.bound.tab)'
    BY <1>1, <1>2, <1>5, <1>7, <1>8, <1>9 DEF TabsFit, WholeBound, InUse
  <2>2. \A a \in Attempts : InUse(session.request[a])'
    BY <1>1, <1>2, <1>3, <1>8 DEF TabsFit, InUse
  <2> QED
    BY <1>1, <1>2, <1>3, <1>6, <1>9, <2>1, <2>2, TabsPlaces, SMTT(20) DEF TabsFit, WholeBound, InUse, Gone, TabOpen
<1>12. AttemptsFit'
  <2>1. \A a \in Attempts : session'.request[a] # NoTab => a <= childRun.attempt
    BY <1>1, <1>3 DEF AttemptsFit
  <2> QED
    BY <1>1, <1>2, <1>3, <1>5, <1>6, <1>10, <2>1, TabsShapes DEF AttemptsFit
<1>13. WorkFits'
  BY <1>1, <1>2, <1>3, <1>5, <1>6 DEF WorkFits, Attempt
<1>14. TabsNamed'
  <2>1. ASSUME NEW t \in TabIds, chatTabs[t].open, chatTabs[t].prompt # 0 PROVE session'.bound.tab = t
    <3>1. TabOpen(t)
      BY <2>1 DEF TabOpen
    <3>2. session.bound.tab = t \/ worker.moving.to = t
      BY <1>1, <1>5, <2>1 DEF TabsNamed, Closing
    <3>3. worker.moving.to = t => worker.moving.bound # Unbound
      BY <1>1, <1>3, <1>5, <1>6, <2>1, <3>1 DEF TabsNamed
    <3> QED
      BY <1>7, <1>8, <3>1, <3>2, <3>3
  <2> QED
    BY <1>2, <1>5, <1>6, <2>1 DEF TabsNamed
<1>15. ClosesFit'
  BY <1>1, <1>2, <1>5 DEF ClosesFit, OverAt, ChildOver
<1>16. Accounted'
  <2>1. childRun.attempt \in Attempts
    BY TabsShapes
  <2>2. ASSUME TabWatched(childRun.attempt) PROVE TabWatched(childRun.attempt)'
    <3>1. PICK a \in Attempts : a = childRun.attempt
      BY <2>1
    <3>2. CASE a \in worker.moving.requests
      <4>1. session.request[a] = worker.moving.from /\ session'.request[a] = worker.moving.to
        BY <1>3, <1>5, <3>2
      <4>2. ~TabShows(session.request[a], a) /\ session.request[a] \notin worker.gone
        BY <1>5, <1>8, <4>1 DEF TabShows
      <4> QED
        BY <1>2, <1>5, <2>2, <3>1, <4>1, <4>2 DEF TabWatched, TabShows, TabOpen
    <3>3. CASE a \notin worker.moving.requests
      <4>1. session'.request[a] = session.request[a]
        BY <1>3, <3>3
      <4> QED
        BY <1>2, <1>3, <2>2, <3>1, <3>3, <4>1 DEF TabWatched, TabShows, TabOpen
    <3> QED
      BY <3>2, <3>3
  <2> QED
    BY <1>1, <1>2, <1>5, <1>10, <2>1, <2>2 DEF Accounted
<1> QED
  BY <1>11, <1>12, <1>13, <1>14, <1>15, <1>16 DEF TabsSound

LEMMA WorkerRestartsQuiet ==
    ASSUME TabsTyped, TabsSound, TabsTyped', WorkerRestarts, ~tabLog'.slipped
    PROVE  TabsSound'
<1>1. ~tabLog.slipped /\ TabsFit /\ AttemptsFit /\ WorkFits /\ TabsNamed /\ ClosesFit /\ Accounted
  BY WorkerRestartsDoes DEF TabsSound, Notes
<1>2. /\ tabLog'.asked = tabLog.asked /\ tabLog'.unreported = tabLog.unreported /\ childRun' = childRun /\ chatTabs' = chatTabs
      /\ session' = session
  BY WorkerRestartsDoes DEF Working, Notes
<1>3. /\ worker.close.step # "remove" /\ worker.moving = NotMoving /\ worker.moving.to = NoTab
  <2>1. ~(worker.close.step = "remove") /\ ~(worker.moving # NotMoving)
    BY WorkerRestartsDoes, Zenon
  <2> QED
    BY <2>1 DEF NotMoving
<1>4. /\ worker'.starts = <<>> /\ worker'.start = NoStart /\ worker'.closes = <<>> /\ worker'.close = NoClosing
      /\ worker'.later = {} /\ worker'.gone = {} /\ worker'.leaving = NotLeaving
      /\ worker'.moving = NotMoving /\ worker'.report = NoReport /\ tabLog'.lost
  BY WorkerRestartsDoes DEF FreshWorker, NoStart, NoClosing
<1>5. /\ worker'.start.step = "look" /\ worker'.start.tab = 0 /\ worker'.start.old = 0 /\ NoTab = 0 /\ Unbound.tab = 0 /\ Unbound.attempt = 0
      /\ worker'.close.step = "look" /\ worker'.close.bound = Unbound /\ NotLeaving.tab = 0 /\ NoReport.tab = 0
      /\ NotMoving.from = 0 /\ NotMoving.to = 0 /\ NotMoving.bound = Unbound /\ ~NotMoving.read /\ NotMoving.requests = {} /\ ~Moving'
  BY <1>4 DEF NoStart, NoClosing, NotLeaving, NotMoving, NoReport, Unbound, NoTab, Moving
<1>6. NoTab \notin TabIds /\ childRun.attempt \in Nat
  BY TabsPlaces, TabsShapes
<1>11. TabsFit'
  BY <1>1, <1>2, <1>4, <1>5, <1>6 DEF TabsFit, WholeBound, InUse, Gone, TabOpen
<1>12. AttemptsFit'
  BY <1>1, <1>2, <1>4, <1>5, <1>6 DEF AttemptsFit, Attempt
<1>13. WorkFits'
  BY <1>1, <1>2, <1>4, <1>5, <1>6 DEF WorkFits, Moving, Attempt, TabOpen
<1>14. TabsNamed'
  BY <1>1, <1>2, <1>4, <1>5, <1>6, <1>3 DEF TabsNamed, Closing, Moving, TabOpen, Attempt, OverAt, ChildOver
<1>15. ClosesFit'
  BY <1>1, <1>2, <1>4, <1>5, <1>6 DEF ClosesFit, OverAt, ChildOver, TabOpen, Attempt
<1>16. Accounted'
  BY <1>4 DEF Accounted
<1> QED
  BY <1>11, <1>12, <1>13, <1>14, <1>15, <1>16 DEF TabsSound

LEMMA DispatchQuiet ==
    ASSUME TabsTyped, TabsSound, TabsTyped', NEW a \in Attempts, Dispatch(a), ~tabLog'.slipped
    PROVE  TabsSound'
<1>1. ~tabLog.slipped /\ TabsFit /\ AttemptsFit /\ WorkFits /\ TabsNamed /\ ClosesFit /\ Accounted
  BY DispatchDoes DEF TabsSound, Notes
<1>2. /\ worker'.closes = worker.closes /\ worker'.close = worker.close /\ worker'.settles = worker.settles /\ worker'.later = worker.later
      /\ worker'.gone = worker.gone /\ worker'.leaving = worker.leaving /\ worker'.moving = worker.moving /\ worker'.report = worker.report
      /\ tabLog'.lost = tabLog.lost /\ tabLog'.unreported = tabLog.unreported /\ childRun' = childRun /\ chatTabs' = chatTabs
      /\ session' = session
  BY DispatchDoes DEF Working, Notes
<1>3. /\ \A i \in DOMAIN worker'.starts : worker'.starts[i] = a \/ \E j \in DOMAIN worker.starts : worker'.starts[i] = worker.starts[j]
      /\ \A j \in DOMAIN worker.starts : \E i \in DOMAIN worker'.starts : worker'.starts[i] = worker.starts[j]
      /\ \E i \in DOMAIN worker'.starts : worker'.starts[i] = a
      /\ worker'.start = worker.start
  BY DispatchParts, DispatchDoes
<1>4. worker.starts # <<>> => worker'.starts # <<>> /\ Head(worker'.starts) = Head(worker.starts)
  BY DispatchParts
<1>5. a <= childRun.attempt /\ tabLog'.asked = tabLog.asked \cup {a}
  BY DispatchDoes
<1>6. worker.start.step # "look" => worker'.starts # <<>> /\ Head(worker'.starts) = Head(worker.starts) /\ worker.starts # <<>>
  BY <1>4, TabsShapes
<1>11. TabsFit'
  BY <1>1, <1>2, <1>3 DEF TabsFit, WholeBound, InUse, Gone, TabOpen
<1>12. AttemptsFit'
  BY <1>1, <1>2, <1>3, <1>5, <1>6 DEF AttemptsFit, Attempt
<1>13. WorkFits'
  BY <1>1, <1>2, <1>3, <1>6 DEF WorkFits, Moving, Attempt, TabOpen
<1>14. TabsNamed'
  BY <1>1, <1>2, <1>3, <1>6 DEF TabsNamed, Closing, Moving, TabOpen, Attempt, OverAt, ChildOver
<1>15. ClosesFit'
  BY <1>1, <1>2, <1>3, <1>6 DEF ClosesFit, OverAt, ChildOver, TabOpen, Attempt
<1>16. Accounted'
  <2>1. childRun.attempt \in Attempts
    BY TabsShapes
  <2>2. TabWatched(childRun.attempt) <=> TabWatched(childRun.attempt)'
    BY <1>2 DEF TabWatched, TabShows, TabOpen, Moving
  <2> QED
    BY <1>1, <1>2, <1>3, <1>4, <1>5, <1>6, <2>1, <2>2 DEF Accounted, Attempt
<1> QED
  BY <1>11, <1>12, <1>13, <1>14, <1>15, <1>16 DEF TabsSound

LEMMA SettleLookQuiet ==
    ASSUME TabsTyped, TabsSound, TabsTyped', NEW a \in Attempts, SettleLook(a), ~tabLog'.slipped
    PROVE  TabsSound'
<1>1. ~tabLog.slipped /\ TabsFit /\ AttemptsFit /\ WorkFits /\ TabsNamed /\ ClosesFit /\ Accounted
  BY SettleLookDoes DEF TabsSound, Notes
<1>2. /\ worker'.starts = worker.starts /\ worker'.start = worker.start /\ worker'.closes = worker.closes /\ worker'.close = worker.close
      /\ worker'.later = worker.later /\ worker'.gone = worker.gone /\ worker'.leaving = worker.leaving /\ worker'.moving = worker.moving
      /\ worker'.report = worker.report /\ tabLog'.asked = tabLog.asked /\ tabLog'.lost = tabLog.lost /\ childRun' = childRun
      /\ chatTabs' = chatTabs /\ session' = session
  BY SettleLookDoes DEF Working, Notes
<1>3. /\ \A b \in Attempts : b # a => worker'.settles[b] = worker.settles[b]
      /\ worker'.settles[a] \in {"post", "none"}
  BY SettleLookDoes
<1>4. ~tabLog'.unreported => ~tabLog.unreported /\ ~(worker'.settles[a] = "none" /\ Current(a))
  BY SettleLookDoes, Zenon
<1>11. TabsFit'
  BY <1>1, <1>2, <1>3 DEF TabsFit, WholeBound, InUse, Gone, TabOpen
<1>12. AttemptsFit'
  BY <1>1, <1>2, <1>3 DEF AttemptsFit, Attempt
<1>13. WorkFits'
  BY <1>1, <1>2, <1>3 DEF WorkFits, Moving, Attempt, TabOpen
<1>14. TabsNamed'
  BY <1>1, <1>2, <1>3 DEF TabsNamed, Closing, Moving, TabOpen, Attempt, OverAt, ChildOver
<1>15. ClosesFit'
  BY <1>1, <1>2, <1>3 DEF ClosesFit, OverAt, ChildOver, TabOpen, Attempt
<1>16. Accounted'
  <2>1. childRun.attempt \in Attempts
    BY TabsShapes
  <2>2. TabWatched(childRun.attempt) <=> TabWatched(childRun.attempt)'
    BY <1>2 DEF TabWatched, TabShows, TabOpen, Moving
  <2>3. ~tabLog'.unreported /\ childRun.status = "pending" /\ worker.settles[childRun.attempt] # "none" =>
            worker'.settles[childRun.attempt] # "none"
    BY <1>3, <1>4, <2>1 DEF Current
  <2> QED
    BY <1>1, <1>2, <1>4, <2>1, <2>2, <2>3 DEF Accounted, Attempt
<1> QED
  BY <1>11, <1>12, <1>13, <1>14, <1>15, <1>16 DEF TabsSound

LEMMA SettlePostQuiet ==
    ASSUME TabsTyped, TabsSound, TabsTyped', NEW a \in Attempts, SettlePost(a), ~tabLog'.slipped
    PROVE  TabsSound'
<1>1. ~tabLog.slipped /\ TabsFit /\ AttemptsFit /\ WorkFits /\ TabsNamed /\ ClosesFit /\ Accounted
  BY SettlePostDoes DEF TabsSound, Notes
<1>2. /\ worker'.starts = worker.starts /\ worker'.start = worker.start /\ worker'.later = worker.later /\ worker'.gone = worker.gone
      /\ worker'.leaving = worker.leaving /\ worker'.moving = worker.moving /\ worker'.report = worker.report /\ tabLog'.asked = tabLog.asked
      /\ tabLog'.unreported = tabLog.unreported /\ chatTabs' = chatTabs /\ session' = session
  BY SettlePostDoes DEF Working, Notes
<1>3. /\ \A b \in Attempts : b # a => worker'.settles[b] = worker.settles[b]
      /\ ChildFails(a) /\ worker.closes = <<>>
      /\ \/ Current(a) /\ AsksFor(a, "settle") /\ tabLog'.lost = tabLog.lost
         \/ worker'.closes = worker.closes /\ worker'.close = worker.close /\ (~tabLog'.lost => ~Current(a))
  BY SettlePostDoes
<1>4. worker.close.step = "look" /\ DOMAIN worker.closes = {} /\ (worker.start.step # "drop" \/ session.bound = Unbound)
  <2>1. DOMAIN worker.closes = {}
    BY <1>3
  <2> QED
    BY <1>1, <1>3, <2>1 DEF WorkFits, TabsNamed
<1>5. /\ worker'.close = worker.close
      /\ \/ Current(a) /\ worker'.closes # <<>>
            /\ \A i \in DOMAIN worker'.closes : worker'.closes[i].attempt = a /\ worker'.closes[i].by = "settle"
         \/ worker'.closes = worker.closes /\ (~tabLog'.lost => ~Current(a))
  <2>1. CASE Current(a) /\ AsksFor(a, "settle")
    <3>1. a \in 0..MaxAttempts
      BY TabsNumbers
    <3> QED
      BY <1>4, <2>1, <3>1, AskParts
  <2> QED
    BY <1>3, <2>1
<1>6. \/ childRun' = childRun /\ ~Current(a)
      \/ Current(a) /\ childRun.status = "pending" /\ childRun.attempt = a /\ childRun'.status = "pending" /\ childRun'.attempt = a + 1
      \/ Current(a) /\ childRun.status = "pending" /\ childRun.attempt = a /\ childRun'.status = "failed" /\ childRun'.attempt = a
  BY <1>3 DEF ChildFails, Current
<1>7. childRun.attempt \in Nat /\ childRun.attempt <= childRun'.attempt /\ childRun'.attempt \in Nat /\ a \in Nat /\ a # 0
  BY <1>6, TabsShapes
<1>8. /\ \A x \in Nat : OverAt(x) => OverAt(x)'
      /\ childRun.status = "failed" => childRun'.status = "failed"
      /\ Current(a) => OverAt(a)'
  BY <1>6, <1>7 DEF OverAt, ChildOver
<1>11. TabsFit'
  BY <1>1, <1>2, <1>5, SMTT(20) DEF TabsFit, WholeBound, InUse, Gone, TabOpen
<1>12. AttemptsFit'
  <2>1. \A n \in Nat : n <= childRun.attempt => n <= childRun'.attempt
    BY <1>7
  <2>2. \A b \in tabLog.asked \cup worker.moving.requests : b \in Attempts
    BY DEF TabsTyped, TabsLog, TabsWork, MoveWork
  <2>3. /\ session.bound.attempt <= childRun.attempt /\ worker.moving.bound.attempt <= childRun.attempt
        /\ worker.start.old <= childRun.attempt
        /\ \A i \in DOMAIN worker.starts : worker.starts[i] <= childRun.attempt
        /\ \A b \in tabLog.asked : b <= childRun.attempt
        /\ \A b \in worker.moving.requests : b <= childRun.attempt
        /\ \A b \in Attempts : session.request[b] # NoTab => b <= childRun.attempt
        /\ worker.report = NoReport \/ (worker.report.attempt \in 1..childRun.attempt /\ worker.report.tab # NoTab)
    BY <1>1 DEF AttemptsFit
  <2>4. /\ session.bound.attempt \in Nat /\ worker.moving.bound.attempt \in Nat /\ worker.start.old \in Nat
        /\ \A i \in DOMAIN worker.starts : worker.starts[i] \in Nat
        /\ \A b \in Attempts : b \in Nat
    BY TabsShapes
  <2>5. /\ session.bound.attempt <= childRun'.attempt /\ worker.moving.bound.attempt <= childRun'.attempt
        /\ worker.start.old <= childRun'.attempt
        /\ \A i \in DOMAIN worker.starts : worker.starts[i] <= childRun'.attempt
        /\ \A b \in tabLog.asked : b <= childRun'.attempt
        /\ \A b \in worker.moving.requests : b <= childRun'.attempt
        /\ \A b \in Attempts : session.request[b] # NoTab => b <= childRun'.attempt
    BY ONLY <2>1, <2>2, <2>3, <2>4
  <2>6. worker.report = NoReport \/ (worker.report.attempt \in 1..childRun'.attempt /\ worker.report.tab # NoTab)
    BY ONLY <1>7, <2>3
  <2> QED
    BY <1>1, <1>2, <2>5, <2>6 DEF AttemptsFit, Attempt
<1>13. WorkFits'
  BY <1>1, <1>2, <1>4, <1>5 DEF WorkFits, Moving, Attempt, TabOpen
<1>14. TabsNamed'
  <2>1. worker.start.step # "look" => Attempt \in Nat
    BY TabsShapes
  <2>2. worker.start.step \in {"ready", "again", "send"} =>
          session.request[Attempt] = worker.start.tab \/ OverAt(Attempt)'
    BY <1>1, <1>2, <1>8, <2>1 DEF TabsNamed, Attempt
  <2> QED
    BY <1>1, <1>2, <1>4, <1>5, <2>2 DEF TabsNamed, Closing, Moving, TabOpen, Attempt
<1>15. ClosesFit'
  <2>1. worker.start.old \in Nat /\ \A b \in worker.later : OverAt(b)'
    BY <1>1, <1>8, LaterParts, TabsShapes DEF ClosesFit
  <2>2. worker.start.step = "drop" => OverAt(worker.start.old)' \/ ~TabOpen(session.bound.tab)
    BY <1>1, <1>2, <1>8, <2>1 DEF ClosesFit
  <2>3. \A i \in DOMAIN worker'.closes : worker'.closes[i].by = "settle" /\ worker'.closes[i].attempt = a /\ a # 0 /\ OverAt(a)'
    BY <1>4, <1>5, <1>7, <1>8
  <2>4. worker'.close.step = "look"
    BY <1>4, <1>5
  <2> QED
    BY <1>1, <1>2, <2>1, <2>2, <2>3, <2>4 DEF ClosesFit, TabOpen, Attempt, OverAt, ChildOver
<1>16. Accounted'
  <2>1. childRun.attempt \in Attempts
    BY TabsShapes
  <2>2. CASE childRun' = childRun /\ ~Current(a) /\ childRun.status = "pending" /\ ~tabLog'.lost
    <3>1. TabWatched(childRun.attempt) <=> TabWatched(childRun.attempt)'
      BY <1>2, <2>2 DEF TabWatched, TabShows, TabOpen, Moving
    <3>2. worker'.settles[childRun.attempt] = worker.settles[childRun.attempt] /\ ~tabLog.lost
      BY <1>3, <2>1, <2>2, SettlePostKeepsLost DEF Current
    <3> QED
      BY <1>1, <1>2, <2>1, <2>2, <3>1, <3>2 DEF Accounted, Attempt
  <2>3. CASE childRun'.attempt = childRun.attempt + 1
    <3>1. childRun'.attempt \notin tabLog.asked /\ session.bound.attempt # childRun'.attempt
      BY <1>1, <1>7, <2>3, TabsShapes DEF AttemptsFit
    <3> QED
      BY <1>2, <3>1 DEF Accounted
  <2>4. CASE childRun'.status # "pending" \/ tabLog'.lost
    BY <2>4 DEF Accounted
  <2> QED
    BY <1>6, <2>2, <2>3, <2>4
<1> QED
  BY <1>11, <1>12, <1>13, <1>14, <1>15, <1>16 DEF TabsSound

LEMMA CloseLaterQuiet ==
    ASSUME TabsTyped, TabsSound, TabsTyped', NEW a \in Attempts, CloseLater(a), ~tabLog'.slipped
    PROVE  TabsSound'
<1>1. ~tabLog.slipped /\ TabsFit /\ AttemptsFit /\ WorkFits /\ TabsNamed /\ ClosesFit /\ Accounted
  BY CloseLaterDoes DEF TabsSound, Notes
<1>2. /\ worker'.starts = worker.starts /\ worker'.start = worker.start /\ worker'.settles = worker.settles /\ worker'.gone = worker.gone
      /\ worker'.leaving = worker.leaving /\ worker'.moving = worker.moving /\ worker'.report = worker.report /\ tabLog'.asked = tabLog.asked
      /\ tabLog'.lost = tabLog.lost /\ tabLog'.unreported = tabLog.unreported /\ childRun' = childRun /\ chatTabs' = chatTabs
      /\ session' = session
  BY CloseLaterDoes DEF Working, Notes
<1>3. /\ worker.closes = <<>> /\ worker'.closes # <<>> /\ worker'.close = worker.close /\ worker.close.step = "look"
      /\ \A i \in DOMAIN worker'.closes : worker'.closes[i].attempt = a /\ worker'.closes[i].by = "later"
      /\ worker.start.step # "drop" \/ session.bound = Unbound
  <2>1. worker.closes = <<>> /\ worker.close.step = "look" /\ AsksFor(a, "later")
    BY <1>1, CloseLaterDoes DEF WorkFits
  <2>2. DOMAIN worker.closes = {}
    BY <2>1
  <2>3. a \in 0..MaxAttempts
    BY TabsNumbers
  <2>4. worker.start.step # "drop" \/ session.bound = Unbound
    BY <1>1, <2>2 DEF TabsNamed
  <2> QED
    BY <2>1, <2>2, <2>3, <2>4, AskParts
<1>4. a # 0 /\ OverAt(a) /\ worker'.later \subseteq worker.later
  BY <1>1, CloseLaterDoes, TabsShapes DEF ClosesFit
<1>11. TabsFit'
  BY <1>1, <1>2, <1>3, <1>4 DEF TabsFit, WholeBound, InUse, Gone, TabOpen
<1>12. AttemptsFit'
  BY <1>1, <1>2, <1>3, <1>4 DEF AttemptsFit, Attempt
<1>13. WorkFits'
  BY <1>1, <1>2, <1>3, <1>4 DEF WorkFits, Moving, Attempt, TabOpen
<1>14. TabsNamed'
  BY <1>1, <1>2, <1>3, <1>4 DEF TabsNamed, Closing, Moving, TabOpen, Attempt, OverAt, ChildOver
<1>15. ClosesFit'
  BY <1>1, <1>2, <1>3, <1>4 DEF ClosesFit, OverAt, ChildOver, TabOpen, Attempt
<1>16. Accounted'
  BY <1>1, <1>2, <1>3, <1>4 DEF Accounted, TabWatched, TabShows, Moving, TabOpen, Attempt
<1> QED
  BY <1>11, <1>12, <1>13, <1>14, <1>15, <1>16 DEF TabsSound

LEMMA RenewQuiet ==
    ASSUME TabsTyped, TabsSound, TabsTyped', NEW a \in Attempts, Renew(a), ~tabLog'.slipped
    PROVE  TabsSound'
<1>1. ~tabLog.slipped /\ TabsFit /\ AttemptsFit /\ WorkFits /\ TabsNamed /\ ClosesFit /\ Accounted
  BY RenewDoes DEF TabsSound, Notes
<1>2. /\ worker'.starts = worker.starts /\ worker'.start = worker.start /\ worker'.settles = worker.settles /\ worker'.later = worker.later
      /\ worker'.gone = worker.gone /\ worker'.leaving = worker.leaving /\ worker'.moving = worker.moving /\ worker'.report = worker.report
      /\ tabLog'.asked = tabLog.asked /\ tabLog'.lost = tabLog.lost /\ tabLog'.unreported = tabLog.unreported /\ childRun' = childRun
      /\ chatTabs' = chatTabs /\ session' = session
  BY RenewDoes DEF Working, Notes
<1>3. /\ worker.closes = <<>> /\ worker'.closes # <<>> /\ worker'.close = worker.close /\ worker.close.step = "look"
      /\ \A i \in DOMAIN worker'.closes : worker'.closes[i].attempt = a /\ worker'.closes[i].by = "renewal"
      /\ worker.start.step # "drop" \/ session.bound = Unbound
  <2>1. worker.closes = <<>> /\ worker.close.step = "look" /\ AsksFor(a, "renewal")
    BY <1>1, RenewDoes DEF WorkFits
  <2>2. DOMAIN worker.closes = {}
    BY <2>1
  <2>3. a \in 0..MaxAttempts
    BY TabsNumbers
  <2>4. worker.start.step # "drop" \/ session.bound = Unbound
    BY <1>1, <2>2 DEF TabsNamed
  <2> QED
    BY <2>1, <2>2, <2>3, <2>4, AskParts
<1>4. a # 0 /\ OverAt(a)
  <2>1. a <= childRun.attempt /\ (childRun.status = "failed" \/ childRun.attempt # a)
    BY <1>1, RenewDoes DEF AttemptsFit
  <2> QED
    BY <2>1, TabsShapes DEF OverAt, ChildOver
<1>11. TabsFit'
  BY <1>1, <1>2, <1>3, <1>4 DEF TabsFit, WholeBound, InUse, Gone, TabOpen
<1>12. AttemptsFit'
  BY <1>1, <1>2, <1>3, <1>4 DEF AttemptsFit, Attempt
<1>13. WorkFits'
  BY <1>1, <1>2, <1>3, <1>4 DEF WorkFits, Moving, Attempt, TabOpen
<1>14. TabsNamed'
  BY <1>1, <1>2, <1>3, <1>4 DEF TabsNamed, Closing, Moving, TabOpen, Attempt, OverAt, ChildOver
<1>15. ClosesFit'
  BY <1>1, <1>2, <1>3, <1>4 DEF ClosesFit, OverAt, ChildOver, TabOpen, Attempt
<1>16. Accounted'
  BY <1>1, <1>2, <1>3, <1>4 DEF Accounted, TabWatched, TabShows, Moving, TabOpen, Attempt
<1> QED
  BY <1>11, <1>12, <1>13, <1>14, <1>15, <1>16 DEF TabsSound

LEMMA UserClosesQuiet ==
    ASSUME TabsTyped, TabsSound, TabsTyped', NEW t \in TabIds, UserCloses(t), ~tabLog'.slipped
    PROVE  TabsSound'
<1>1. ~tabLog.slipped /\ TabsFit /\ AttemptsFit /\ WorkFits /\ TabsNamed /\ ClosesFit /\ Accounted
  BY UserClosesDoes DEF TabsSound, Notes
<1>2. /\ worker'.starts = worker.starts /\ worker'.start = worker.start /\ worker'.closes = worker.closes /\ worker'.close = worker.close
      /\ worker'.settles = worker.settles /\ worker'.later = worker.later /\ worker'.leaving = worker.leaving /\ worker'.moving = worker.moving
      /\ worker'.report = worker.report /\ tabLog'.asked = tabLog.asked /\ tabLog'.lost = tabLog.lost /\ tabLog'.unreported = tabLog.unreported
      /\ childRun' = childRun /\ session' = session
  BY UserClosesDoes DEF Working, Notes
<1>3. TabOpen(t) /\ worker'.gone = worker.gone \cup {t}
      /\ \A u \in TabIds : /\ chatTabs'[u].open <=> (chatTabs[u].open /\ u # t)
                           /\ chatTabs'[u].used = chatTabs[u].used /\ chatTabs'[u].prompt = chatTabs[u].prompt
  BY UserClosesDoes, ShutTabDoes
<1>4. ~TabOpen(worker.moving.from)
  BY <1>1 DEF TabsFit
<1>11. TabsFit'
  BY <1>1, <1>2, <1>3, <1>4, TabsPlaces, SMTT(20) DEF TabsFit, WholeBound, InUse, Gone, TabOpen
<1>12. AttemptsFit'
  BY <1>1, <1>2, <1>3, <1>4, TabsPlaces DEF AttemptsFit, Attempt
<1>13. WorkFits'
  BY <1>1, <1>2, <1>3, <1>4, TabsPlaces DEF WorkFits, Moving, Attempt, TabOpen
<1>14. TabsNamed'
  BY <1>1, <1>2, <1>3, <1>4, TabsPlaces DEF TabsNamed, Closing, Moving, TabOpen, Attempt, OverAt, ChildOver
<1>15. ClosesFit'
  BY <1>1, <1>2, <1>3, <1>4, TabsPlaces DEF ClosesFit, OverAt, ChildOver, TabOpen, Attempt
<1>16. Accounted'
  BY <1>1, <1>2, <1>3, <1>4, TabsPlaces DEF Accounted, TabWatched, TabShows, Moving, TabOpen, Attempt
<1> QED
  BY <1>11, <1>12, <1>13, <1>14, <1>15, <1>16 DEF TabsSound

LEMMA TabGoneReadQuiet ==
    ASSUME TabsTyped, TabsSound, TabsTyped', NEW t \in TabIds, TabGoneRead(t), ~tabLog'.slipped
    PROVE  TabsSound'
<1>1. ~tabLog.slipped /\ TabsFit /\ AttemptsFit /\ WorkFits /\ TabsNamed /\ ClosesFit /\ Accounted
  BY TabGoneReadDoes DEF TabsSound, Notes
<1>2. /\ worker'.starts = worker.starts /\ worker'.start = worker.start /\ worker'.closes = worker.closes /\ worker'.close = worker.close
      /\ worker'.settles = worker.settles /\ worker'.later = worker.later /\ worker'.moving = worker.moving /\ worker'.report = worker.report
      /\ tabLog'.asked = tabLog.asked /\ tabLog'.lost = tabLog.lost /\ tabLog'.unreported = tabLog.unreported /\ childRun' = childRun
      /\ chatTabs' = chatTabs /\ session' = session
  BY TabGoneReadDoes DEF Working, Notes
<1>3. /\ t \in worker.gone /\ worker.leaving = NotLeaving /\ worker'.gone = worker.gone \ {t}
      /\ worker'.leaving = [tab |-> t, unbind |-> session.bound.tab = t, failed |-> {a \in Attempts : session.request[a] = t}]
      /\ t # worker.moving.to
  <2>1. ~(t = worker.moving.to)
    BY TabGoneReadDoes, Zenon
  <2> QED
    BY <2>1, TabGoneReadDoes
<1>4. /\ worker'.leaving.tab = t /\ \A a \in Attempts : session.request[a] = t => a \in worker'.leaving.failed
      /\ NotLeaving.failed = {} /\ t # NoTab
  BY <1>3, TabsPlaces DEF NotLeaving
<1>5. chatTabs[t].used /\ ~chatTabs[t].open
  BY <1>1, <1>3 DEF TabsFit, Gone
<1>11. TabsFit'
  BY <1>1, <1>2, <1>4, <1>5, <1>3, SMTT(20) DEF TabsFit, WholeBound, InUse, Gone, TabOpen
<1>12. AttemptsFit'
  BY <1>1, <1>2, <1>4, <1>5 DEF AttemptsFit, Attempt
<1>13. WorkFits'
  BY <1>1, <1>2, <1>4, <1>5, <1>3 DEF WorkFits, Moving, Attempt, TabOpen
<1>14. TabsNamed'
  BY <1>1, <1>2, <1>4, <1>5 DEF TabsNamed, Closing, Moving, TabOpen, Attempt, OverAt, ChildOver
<1>15. ClosesFit'
  BY <1>1, <1>2, <1>4, <1>5 DEF ClosesFit, OverAt, ChildOver, TabOpen, Attempt
<1>16. Accounted'
  <2>1. childRun.attempt \in Attempts
    BY TabsShapes
  <2>2. TabWatched(childRun.attempt) => TabWatched(childRun.attempt)'
    BY <1>2, <1>3, <1>4, <2>1 DEF TabWatched, TabShows, TabOpen, Moving
  <2> QED
    BY <1>1, <1>2, <2>1, <2>2 DEF Accounted, Attempt
<1> QED
  BY <1>11, <1>12, <1>13, <1>14, <1>15, <1>16 DEF TabsSound

LEMMA TabReplacedQuiet ==
    ASSUME TabsTyped, TabsSound, TabsTyped', NEW t \in TabIds, TabReplaced(t), ~tabLog'.slipped
    PROVE  TabsSound'
<1>1. ~tabLog.slipped /\ TabsFit /\ AttemptsFit /\ WorkFits /\ TabsNamed /\ ClosesFit /\ Accounted
  BY TabReplacedDoes DEF TabsSound, Notes
<1>2. /\ worker'.starts = worker.starts /\ worker'.start = worker.start /\ worker'.closes = worker.closes /\ worker'.close = worker.close
      /\ worker'.settles = worker.settles /\ worker'.later = worker.later /\ worker'.gone = worker.gone /\ worker'.leaving = worker.leaving
      /\ worker'.report = worker.report /\ tabLog'.asked = tabLog.asked /\ tabLog'.lost = tabLog.lost /\ tabLog'.unreported = tabLog.unreported
      /\ childRun' = childRun /\ session' = session
  BY TabReplacedDoes DEF Working, Notes
<1>3. /\ TabOpen(t) /\ worker.moving = NotMoving /\ worker.starts = <<>> /\ worker.closes = <<>>
  <2>1. worker.starts = <<>> /\ worker.closes = <<>>
    BY TabReplacedDoes, Zenon
  <2> QED
    BY <2>1, TabReplacedDoes
<1>4. PICK s \in TabIds :
      /\ ~chatTabs[s].used
      /\ worker'.moving = [from |-> t, to |-> s, read |-> FALSE, bound |-> Unbound, requests |-> {}]
      /\ s # t => /\ chatTabs'[s] = chatTabs[t]
                  /\ ~chatTabs'[t].open /\ chatTabs'[t].used = chatTabs[t].used /\ chatTabs'[t].prompt = 0
                  /\ \A u \in TabIds : u \notin {s, t} => chatTabs'[u] = chatTabs[u]
  BY TabReplacedDoes
<1>5. chatTabs[t].open /\ chatTabs[t].used /\ s # t /\ t # NoTab /\ s # NoTab /\ ~chatTabs[s].open
  BY <1>1, <1>3, <1>4, TabsPlaces DEF TabsFit, TabOpen
<1>6. /\ chatTabs'[s] = chatTabs[t] /\ ~chatTabs'[t].open /\ chatTabs'[t].used /\ chatTabs'[t].prompt = 0
      /\ \A u \in TabIds : u \notin {s, t} => chatTabs'[u] = chatTabs[u]
  BY <1>4, <1>5
<1>7. /\ worker'.moving.from = t /\ worker'.moving.to = s /\ ~worker'.moving.read /\ worker'.moving.bound = Unbound
      /\ worker'.moving.requests = {} /\ Unbound.attempt = 0 /\ Unbound.tab = NoTab /\ Moving'
  BY <1>4, <1>5 DEF Unbound, Moving, NotMoving
<1>8. worker.start.step = "look" /\ worker.close.step = "look" /\ ~Moving /\ worker.moving.to = NoTab
      /\ \A i \in DOMAIN worker.closes : FALSE
  <2>1. DOMAIN worker.closes = {}
    BY <1>3
  <2> QED
    BY <1>3, <2>1 DEF TabsTyped, Moving, NotMoving
<1>9. /\ \A u \in TabIds : chatTabs[u].used => chatTabs'[u].used
      /\ \A u \in TabIds : u # s => (chatTabs'[u].open => chatTabs[u].open)
      /\ \A u \in worker.gone : u # s /\ u # t
      /\ \A n \in TabIds \cup {NoTab} : InUse(n) => n # s
  BY <1>1, <1>4, <1>5, <1>6 DEF TabsFit, Gone, InUse
<1>11. TabsFit'
  BY <1>1, <1>2, <1>5, <1>6, <1>7, <1>8, <1>9, TabsPlaces DEF TabsFit, WholeBound, InUse, Gone, TabOpen, NoTab
<1>12. AttemptsFit'
  BY <1>1, <1>2, <1>7, <1>8, TabsShapes DEF AttemptsFit, Attempt
<1>13. WorkFits'
  <2>1. worker.leaving.tab # t
    BY <1>1, <1>3 DEF TabsFit
  <2> QED
    BY <1>1, <1>2, <1>5, <1>7, <1>8, <1>9, <2>1 DEF WorkFits, Attempt
<1>14. TabsNamed'
  <2>1. ASSUME NEW u \in TabIds, chatTabs'[u].open, chatTabs'[u].prompt # 0 PROVE session.bound.tab = u \/ s = u
    <3>1. u = s \/ u \notin {s, t}
      BY <1>6, <2>1
    <3>2. CASE u \notin {s, t}
      <4>1. chatTabs[u].open /\ chatTabs[u].prompt # 0 /\ worker.moving.to # u
        BY <1>6, <1>8, <2>1, <3>2, TabsPlaces
      <4> QED
        BY <1>1, <1>8, <4>1 DEF TabsNamed, Closing
    <3> QED
      BY <3>1, <3>2
  <2>2. chatTabs'[s].prompt # 0 => session.bound.tab = t
    BY <1>1, <1>5, <1>6, <1>8, TabsPlaces DEF TabsNamed, Closing
  <2> QED
    BY <1>2, <1>7, <1>8, <2>1, <2>2 DEF TabsNamed, Closing
<1>15. ClosesFit'
  BY <1>1, <1>2, <1>8 DEF ClosesFit, OverAt, ChildOver, TabOpen, Attempt
<1>16. Accounted'
  <2>1. PICK a \in Attempts : a = childRun.attempt
    BY TabsShapes
  <2>2. ASSUME TabWatched(a) PROVE TabWatched(a)'
    <3>1. CASE session.request[a] = t
      <4>1. TabShows(t, a) => TabShows(s, a)'
        BY <1>6 DEF TabShows, TabOpen
      <4>2. session'.request[a] = worker'.moving.from /\ t \notin worker.gone
        BY <1>2, <1>7, <1>9, <3>1
      <4> QED
        BY <1>2, <1>5, <1>7, <1>8, <2>2, <3>1, <4>1, <4>2 DEF TabWatched
    <3>2. CASE session.request[a] # t
      <4>1. TabShows(session.request[a], a) => TabShows(session.request[a], a)'
        BY <1>2, <1>5, <1>6, <3>2 DEF TabShows, TabOpen
      <4> QED
        BY <1>2, <1>8, <2>2, <4>1 DEF TabWatched
    <3> QED
      BY <3>1, <3>2
  <2> QED
    BY <1>1, <1>2, <1>3, <1>7, <2>1, <2>2 DEF Accounted
<1> QED
  BY <1>11, <1>12, <1>13, <1>14, <1>15, <1>16 DEF TabsSound

LEMMA ReportReadQuiet ==
    ASSUME TabsTyped, TabsSound, TabsTyped', NEW t \in TabIds, NEW kind \in {"started", "result"}, ReportRead(t, kind), ~tabLog'.slipped
    PROVE  TabsSound'
<1>1. ~tabLog.slipped /\ TabsFit /\ AttemptsFit /\ WorkFits /\ TabsNamed /\ ClosesFit /\ Accounted
  BY ReportReadDoes DEF TabsSound, Notes
<1>2. /\ worker'.starts = worker.starts /\ worker'.start = worker.start /\ worker'.closes = worker.closes /\ worker'.close = worker.close
      /\ worker'.settles = worker.settles /\ worker'.later = worker.later /\ worker'.gone = worker.gone /\ worker'.leaving = worker.leaving
      /\ worker'.moving = worker.moving /\ tabLog'.asked = tabLog.asked /\ tabLog'.lost = tabLog.lost /\ tabLog'.unreported = tabLog.unreported
      /\ childRun' = childRun /\ chatTabs' = chatTabs /\ session' = session
  BY ReportReadDoes DEF Working, Notes
<1>3. /\ TabOpen(t) /\ chatTabs[t].prompt \in Attempts /\ session.request[chatTabs[t].prompt] = t
      /\ worker'.report.tab = t /\ worker'.report.attempt = chatTabs[t].prompt
  BY ReportReadDoes
<1>11. TabsFit'
  BY <1>1, <1>2, <1>3 DEF TabsFit, WholeBound, InUse, Gone, TabOpen
<1>12. AttemptsFit'
  BY <1>1, <1>2, <1>3, TabsShapes, SMTT(20) DEF AttemptsFit, Attempt, NoTab
<1>13. WorkFits'
  BY <1>1, <1>2, <1>3 DEF WorkFits, Moving, Attempt, TabOpen
<1>14. TabsNamed'
  BY <1>1, <1>2, <1>3 DEF TabsNamed, Closing, Moving, TabOpen, Attempt, OverAt, ChildOver
<1>15. ClosesFit'
  BY <1>1, <1>2, <1>3 DEF ClosesFit, OverAt, ChildOver, TabOpen, Attempt
<1>16. Accounted'
  BY <1>1, <1>2, <1>3 DEF Accounted, TabWatched, TabShows, Moving, TabOpen, Attempt
<1> QED
  BY <1>11, <1>12, <1>13, <1>14, <1>15, <1>16 DEF TabsSound

\* What slipped stays slipped.
LEMMA SlippedStays ==
    ASSUME TabsTyped, [TabsNext]_tabVars, tabLog.slipped
    PROVE  tabLog'.slipped
<1>1. CASE ChildClaims
  BY <1>1, ChildClaimsDoes, Zenon DEF Notes
<1>2. CASE ChildEnds
  BY <1>2, ChildEndsDoes, Zenon DEF Notes
<1>3. CASE InterfaceCloses
  BY <1>3, InterfaceClosesDoes, Zenon DEF Notes
<1>4. CASE CloseLook
  BY <1>4, CloseLookDoes, Zenon DEF Notes
<1>5. CASE CloseRelease
  BY <1>5, CloseReleaseDoes, Zenon DEF Notes
<1>6. CASE CloseUnbind
  BY <1>6, CloseUnbindDoes, Zenon DEF Notes
<1>7. CASE CloseRemove
  BY <1>7, CloseRemoveDoes, Zenon DEF Notes
<1>8. CASE StartLook
  BY <1>8, StartLookDoes, Zenon DEF Notes
<1>9. CASE StartBeat
  BY <1>9, StartBeatDoes, Zenon DEF Notes
<1>10. CASE StartDropped
  BY <1>10, StartDroppedDoes, Zenon DEF Notes
<1>11. CASE StartOpen
  BY <1>11, StartOpenDoes, Zenon DEF Notes
<1>12. CASE StartStore
  BY <1>12, StartStoreDoes, Zenon DEF Notes
<1>13. CASE StartReady
  BY <1>13, StartReadyDoes, Zenon DEF Notes
<1>14. CASE StartAgain
  BY <1>14, StartAgainDoes, Zenon DEF Notes
<1>15. CASE StartSend
  BY <1>15, StartSendDoes, Zenon DEF Notes
<1>16. CASE ReportPost
  BY <1>16, ReportAttempt, ReportPostDoes, Zenon DEF Notes
<1>17. CASE TabGoneApply
  BY <1>17, TabGoneApplyDoes, Zenon DEF Notes
<1>18. CASE MoveRead
  BY <1>18, MoveReadDoes, Zenon DEF Notes
<1>19. CASE MoveWrite
  BY <1>19, MoveWriteDoes, Zenon DEF Notes
<1>20. CASE WorkerRestarts
  BY <1>20, WorkerRestartsDoes, Zenon DEF Notes
<1>21. ASSUME NEW a \in Attempts, Dispatch(a) PROVE tabLog'.slipped
  BY <1>21, DispatchDoes, Zenon DEF Notes
<1>22. ASSUME NEW a \in Attempts, SettleLook(a) PROVE tabLog'.slipped
  BY <1>22, SettleLookDoes, Zenon DEF Notes
<1>23. ASSUME NEW a \in Attempts, SettlePost(a) PROVE tabLog'.slipped
  BY <1>23, SettlePostDoes, Zenon DEF Notes
<1>24. ASSUME NEW a \in Attempts, CloseLater(a) PROVE tabLog'.slipped
  BY <1>24, CloseLaterDoes, Zenon DEF Notes
<1>25. ASSUME NEW a \in Attempts, Renew(a) PROVE tabLog'.slipped
  BY <1>25, RenewDoes, Zenon DEF Notes
<1>26. ASSUME NEW t \in TabIds, UserCloses(t) PROVE tabLog'.slipped
  BY <1>26, UserClosesDoes, Zenon DEF Notes
<1>27. ASSUME NEW t \in TabIds, TabGoneRead(t) PROVE tabLog'.slipped
  BY <1>27, TabGoneReadDoes, Zenon DEF Notes
<1>28. ASSUME NEW t \in TabIds, TabReplaced(t) PROVE tabLog'.slipped
  BY <1>28, TabReplacedDoes, Zenon DEF Notes
<1>29. ASSUME NEW t \in TabIds, NEW kind \in {"started", "result"}, ReportRead(t, kind) PROVE tabLog'.slipped
  BY <1>29, ReportReadDoes, Zenon DEF Notes
<1>30. CASE UNCHANGED tabVars
  BY <1>30 DEF tabVars
<1> QED
  BY <1>1, <1>2, <1>3, <1>4, <1>5, <1>6, <1>7, <1>8, <1>9, <1>10, <1>11, <1>12, <1>13, <1>14, <1>15, <1>16, <1>17, <1>18, <1>19, <1>20, <1>21, <1>22, <1>23, <1>24, <1>25, <1>26, <1>27, <1>28, <1>29, <1>30 DEF TabsNext

LEMMA TabsStep ==
    ASSUME TabsInv, [TabsNext]_tabVars
    PROVE  TabsInv'
<1>1. TabsTyped /\ TabsTyped'
  BY TabsTypedStep DEF TabsInv
<1> SUFFICES ASSUME ~tabLog'.slipped PROVE TabsSound'
  BY <1>1 DEF TabsInv
<1>2. TabsSound
  BY <1>1, SlippedStays DEF TabsInv
<1>3. CASE ChildClaims
  BY <1>1, <1>2, <1>3, ChildClaimsQuiet
<1>4. CASE ChildEnds
  BY <1>1, <1>2, <1>4, ChildEndsQuiet
<1>5. CASE InterfaceCloses
  BY <1>1, <1>2, <1>5, InterfaceClosesQuiet
<1>6. CASE CloseLook
  BY <1>1, <1>2, <1>6, CloseLookQuiet
<1>7. CASE CloseRelease
  BY <1>1, <1>2, <1>7, CloseReleaseQuiet
<1>8. CASE CloseUnbind
  BY <1>1, <1>2, <1>8, CloseUnbindQuiet
<1>9. CASE CloseRemove
  BY <1>1, <1>2, <1>9, CloseRemoveQuiet
<1>10. CASE StartLook
  BY <1>1, <1>2, <1>10, StartLookQuiet
<1>11. CASE StartBeat
  BY <1>1, <1>2, <1>11, StartBeatQuiet
<1>12. CASE StartDropped
  BY <1>1, <1>2, <1>12, StartDroppedQuiet
<1>13. CASE StartOpen
  BY <1>1, <1>2, <1>13, StartOpenQuiet
<1>14. CASE StartStore
  BY <1>1, <1>2, <1>14, StartStoreQuiet
<1>15. CASE StartReady
  BY <1>1, <1>2, <1>15, StartReadyQuiet
<1>16. CASE StartAgain
  BY <1>1, <1>2, <1>16, StartAgainQuiet
<1>17. CASE StartSend
  BY <1>1, <1>2, <1>17, StartSendQuiet
<1>18. CASE ReportPost
  BY <1>1, <1>2, <1>18, ReportPostQuiet
<1>19. CASE TabGoneApply
  BY <1>1, <1>2, <1>19, TabGoneApplyQuiet
<1>20. CASE MoveRead
  BY <1>1, <1>2, <1>20, MoveReadQuiet
<1>21. CASE MoveWrite
  BY <1>1, <1>2, <1>21, MoveWriteQuiet
<1>22. CASE WorkerRestarts
  BY <1>1, <1>2, <1>22, WorkerRestartsQuiet
<1>23. ASSUME NEW a \in Attempts, Dispatch(a) PROVE TabsSound'
  BY <1>1, <1>2, <1>23, DispatchQuiet
<1>24. ASSUME NEW a \in Attempts, SettleLook(a) PROVE TabsSound'
  BY <1>1, <1>2, <1>24, SettleLookQuiet
<1>25. ASSUME NEW a \in Attempts, SettlePost(a) PROVE TabsSound'
  BY <1>1, <1>2, <1>25, SettlePostQuiet
<1>26. ASSUME NEW a \in Attempts, CloseLater(a) PROVE TabsSound'
  BY <1>1, <1>2, <1>26, CloseLaterQuiet
<1>27. ASSUME NEW a \in Attempts, Renew(a) PROVE TabsSound'
  BY <1>1, <1>2, <1>27, RenewQuiet
<1>28. ASSUME NEW t \in TabIds, UserCloses(t) PROVE TabsSound'
  BY <1>1, <1>2, <1>28, UserClosesQuiet
<1>29. ASSUME NEW t \in TabIds, TabGoneRead(t) PROVE TabsSound'
  BY <1>1, <1>2, <1>29, TabGoneReadQuiet
<1>30. ASSUME NEW t \in TabIds, TabReplaced(t) PROVE TabsSound'
  BY <1>1, <1>2, <1>30, TabReplacedQuiet
<1>31. ASSUME NEW t \in TabIds, NEW kind \in {"started", "result"}, ReportRead(t, kind) PROVE TabsSound'
  BY <1>1, <1>2, <1>31, ReportReadQuiet
<1>32. CASE UNCHANGED tabVars
  <2>1. /\ worker' = worker /\ childRun' = childRun /\ chatTabs' = chatTabs /\ session' = session /\ tabLog' = tabLog
        /\ TabsFit /\ AttemptsFit /\ WorkFits /\ TabsNamed /\ ClosesFit /\ Accounted
    BY <1>2, <1>32 DEF tabVars, TabsSound
  <2>2. TabsFit'
    BY <2>1 DEF TabsFit, WholeBound, InUse, Gone, TabOpen
  <2>3. AttemptsFit' /\ WorkFits'
    BY <2>1 DEF AttemptsFit, WorkFits, Attempt, Moving
  <2>4. TabsNamed'
    BY <2>1 DEF TabsNamed, Closing, Moving, TabOpen, Attempt, OverAt, ChildOver
  <2>5. ClosesFit'
    BY <2>1 DEF ClosesFit, TabOpen, Attempt, OverAt, ChildOver
  <2>6. Accounted'
    BY <2>1 DEF Accounted, TabWatched, TabShows, Moving, TabOpen, Attempt
  <2> QED
    BY <2>2, <2>3, <2>4, <2>5, <2>6 DEF TabsSound
<1> QED
  BY <1>3, <1>4, <1>5, <1>6, <1>7, <1>8, <1>9, <1>10, <1>11, <1>12, <1>13, <1>14, <1>15, <1>16, <1>17, <1>18, <1>19, <1>20, <1>21, <1>22, <1>23, <1>24, <1>25, <1>26, <1>27, <1>28, <1>29, <1>30, <1>31, <1>32 DEF TabsNext

LEMMA TabsInvSafe == TabsInv => TabsSafe /\ TabsTypes
<1> SUFFICES ASSUME TabsInv PROVE TabsSafe /\ TabsTypes
  OBVIOUS
<1>1. TabsTyped /\ (~tabLog.slipped => TabsFit /\ WorkFits /\ TabsNamed /\ ClosesFit /\ Accounted)
  BY DEF TabsInv, TabsSound
<1>2. TabsTypes
  <2>1. childRun \in ChildRows /\ session \in SessionKeys /\ chatTabs \in [TabIds -> TabRows]
    BY <1>1 DEF TabsTyped
  <2> QED
    BY <2>1 DEF TabsTypes, ChildRows, SessionKeys, TabBounds, TabRows
<1>3. PromptsNamed
  BY <1>1 DEF PromptsNamed, TabsNamed, Closing
<1>4. ClaimedKept
  <2>1. SUFFICES ASSUME worker.close.step # "look", TabOpen(worker.close.bound.tab), ~tabLog.slipped,
                        childRun.status = "running", childRun.attempt = worker.close.bound.attempt
                 PROVE  FALSE
    BY DEF ClaimedKept
  <2>2. OverAt(worker.close.bound.attempt)
    BY <1>1, <2>1 DEF ClosesFit
  <2> QED
    BY <1>1, <2>1, <2>2, TabsShapes DEF OverAt, ChildOver
<1>5. NothingForgotten
  <2>1. SUFFICES ASSUME worker = FreshWorker, ~tabLog.lost, ~tabLog.slipped, ~tabLog.unreported,
                        childRun.status = "pending", childRun.attempt \in tabLog.asked
                 PROVE  \E t \in TabIds : TabOpen(t) /\ chatTabs[t].prompt = childRun.attempt
    BY DEF NothingForgotten
  <2>2. /\ worker.starts = <<>> /\ worker.gone = {} /\ worker.leaving = NotLeaving /\ worker.moving = NotMoving
        /\ \A a \in Attempts : worker.settles[a] = "none"
    BY <2>1 DEF FreshWorker
  <2>3. DOMAIN worker.starts = {} /\ childRun.attempt \in Attempts /\ NotLeaving.failed = {} /\ ~Moving
    BY <1>1, <2>2, TabsShapes DEF NotLeaving, Moving
  <2>4. TabWatched(childRun.attempt)
    BY <1>1, <2>1, <2>2, <2>3 DEF Accounted
  <2>5. TabShows(session.request[childRun.attempt], childRun.attempt)
    BY <2>2, <2>3, <2>4 DEF TabWatched
  <2> QED
    BY <2>5 DEF TabShows, TabOpen
<1> QED
  BY <1>2, <1>3, <1>4, <1>5 DEF TabsSafe

\* Until a key is removed or written back from an older reading, every tab a sub-agent's prompt
\* runs in is named by the stored binding or being closed, the tab of a child at work is never
\* closed by the extension, and an idle worker has left no asked-for attempt without its tab
\* unreported: for any number of attempts, tabs, dispatches, closed and replaced tabs and restarts.
THEOREM TabsKept == TabsSpec => [](TabsSafe /\ TabsTypes)
<1>1. TabsInit => TabsInv
  BY TabsStart
<1>2. TabsInv /\ [TabsNext]_tabVars => TabsInv'
  BY TabsStep
<1>3. TabsInv => TabsSafe /\ TabsTypes
  BY TabsInvSafe
<1> QED
  BY <1>1, <1>2, <1>3, PTL DEF TabsSpec

----------------------------------------------------------------------------
(* Updater: what is offered, and where the script is.                       *)

Newer(r) == is_remote_newer(r.version, Running) /\ r.digest # "none"

\* What is downloaded or prepared is newer and has a digest.
Offers ==
    /\ prepared # NoRelease => Newer(prepared)
    /\ updating.at # "idle" => Newer(updating.of)
    /\ updating.at \in {"extract", "prepare"} => updating.got = "asset"
    /\ phase = "readyToRestart" => prepared # NoRelease

\* Nothing that is installed has changed yet.
Intact(f, there) == f["exe"] = "old" /\ f["ext"] = there.ext /\ f["marker"] = there.marker

\* Before the script starts: the old program, and no backup.
Untouched(f) ==
    f["exe"] = "old" /\ f["bexe"] = "none" /\ f["bext"] = "none" /\ f["bmarker"] = "none"

\* What the lines before line n of the scripts have done.
WindowsDone(f, there, n) ==
    /\ n <= 4 => Intact(f, there)
    /\ n >= 2 => f["bexe"] = "old"
    /\ f["bext"] = IF n >= 3 THEN there.ext ELSE "none"
    /\ f["bmarker"] = IF n >= 4 THEN there.marker ELSE "none"
    /\ n >= 6 => f["ext"] = "new"
    /\ n >= 7 => f["exe"] = "new"
    /\ n >= 8 => f["marker"] = "new"
OtherDone(f, n) ==
    /\ n >= 3 => f["ext"] = "new"
    /\ n >= 4 => f["exe"] = "new"
    /\ n >= 5 => f["marker"] = "new"

\* A backup is complete, and what a roll-back has put back before its line n.
BackupOf(f, there) == f["bexe"] = "old" /\ f["bext"] = there.ext /\ f["bmarker"] = there.marker
PutBack(f, there, n) ==
    /\ n >= 2 => f["exe"] = "old"
    /\ n = 3 => f["ext"] = "none"
    /\ n >= 4 => f["ext"] = there.ext
    /\ n >= 5 => f["marker"] = there.marker

Scripts ==
    /\ installer.how \in {"none", "wait"} => Untouched(files)
    /\ installer.how = "forward" =>
          /\ installer.at >= 1
          /\ platform = "windows" => WindowsDone(files, installer.found, installer.at)
          /\ platform # "windows" => OtherDone(files, installer.at)
    /\ installer.how = "back" =>
          installer.at >= 1 /\ (BackupOf(files, installer.found) => PutBack(files, installer.found, installer.at))
    /\ installer.how = "rolledBack" => (BackupOf(files, installer.found) => PutBack(files, installer.found, 5))
    /\ installer.how = "done" =>
          files["exe"] = "new" /\ files["ext"] = "new" /\ files["marker"] = "new" /\ program = "new"

UpdateInv == UpdateTypes /\ Offers /\ Scripts

InstallerRows ==
    [at : 0..9, how : {"none", "wait", "forward", "failing", "back", "done", "rolledBack", "dead"},
     found : [ext : Installed, marker : Installed]]
UpdateRows ==
    [at : {"idle", "download", "verify", "extract", "prepare"}, of : Releases \cup {NoRelease},
     got : {"none", "asset", "other"}]

LEMMA InstallerTurns ==
    ASSUME installer \in InstallerRows,
           NEW how \in {"none", "wait", "forward", "failing", "back", "done", "rolledBack", "dead"},
           installer' = [installer EXCEPT !.how = how]
    PROVE  installer' \in InstallerRows /\ installer'.how = how /\ installer'.at = installer.at
           /\ installer'.found = installer.found
BY DEF InstallerRows

LEMMA InstallerBegins ==
    ASSUME installer \in InstallerRows, NEW how \in {"forward", "back"}, NEW at \in 0..9,
           NEW there \in [ext : Installed, marker : Installed],
           \/ installer' = [installer EXCEPT !.how = how, !.at = at, !.found = there]
           \/ installer' = [installer EXCEPT !.how = how, !.at = at] /\ there = installer.found
    PROVE  installer' \in InstallerRows /\ installer'.how = how /\ installer'.at = at /\ installer'.found = there
<1>1. PICK a, h, w : a = installer.at /\ h = installer.how /\ w = installer.found
  OBVIOUS
<1>2. installer = [at |-> a, how |-> h, found |-> w]
  BY <1>1 DEF InstallerRows
<1>3. installer' = [at |-> at, how |-> how, found |-> there]
  <2>1. CASE installer' = [installer EXCEPT !.how = how, !.at = at, !.found = there]
    BY ONLY <1>2, <2>1
  <2>2. CASE installer' = [installer EXCEPT !.how = how, !.at = at] /\ there = installer.found
    BY ONLY <1>1, <1>2, <2>2
  <2> QED
    BY <2>1, <2>2
<1> QED
  BY <1>3 DEF InstallerRows

LEMMA UpdateRowsAre ==
    /\ UpdateTypes => installer \in InstallerRows /\ updating \in UpdateRows
    /\ NoUpdate \in UpdateRows /\ NoUpdate.at = "idle" /\ NotInstalling \in InstallerRows
    /\ NotInstalling.how = "none"
BY DEF UpdateTypes, InstallerRows, UpdateRows, NoUpdate, NotInstalling, Installed

LEMMA ManagerTypes ==
    ASSUME UpdateTypes, UNCHANGED <<platform, installer, files, program>>, phase' \in Phases, busy' \in BOOLEAN,
           selection' \in Releases \cup {NoRelease}, prepared' \in Releases \cup {NoRelease},
           fetching' \in BOOLEAN, restarting' \in BOOLEAN, lastError' \in BOOLEAN, updating' \in UpdateRows,
           checks' \in 0..MaxChecks
    PROVE  UpdateTypes'
BY DEF UpdateTypes, UpdateRows

LEMMA ScriptTypes ==
    ASSUME UpdateTypes,
           UNCHANGED <<platform, phase, busy, selection, prepared, fetching, updating, restarting, checks>>,
           installer' \in InstallerRows, files' \in [Slots -> Installed], program' \in {"old", "new", "none"},
           lastError' \in BOOLEAN
    PROVE  UpdateTypes'
BY DEF UpdateTypes, InstallerRows

LEMMA UpdateStarts == UpdateInit => UpdateInv
<1> SUFFICES ASSUME UpdateInit PROVE UpdateInv
  OBVIOUS
<1>1. PICK b \in Beside :
        files = [s \in Slots |-> IF s = "exe" THEN "old" ELSE IF s \in DOMAIN b THEN b[s] ELSE "none"]
  BY DEF UpdateInit
<1>2. /\ files \in [Slots -> Installed] /\ files["exe"] = "old" /\ files["bexe"] = "none"
      /\ files["bext"] = "none" /\ files["bmarker"] = "none"
  BY <1>1, UpdateAssumption DEF Slots, Installed
<1>3. /\ updating = NoUpdate /\ installer = NotInstalling /\ phase = "idle" /\ prepared = NoRelease
      /\ selection = NoRelease /\ 0 \in 0..MaxChecks
  BY UpdateAssumption DEF UpdateInit
<1>4. UpdateTypes
  BY <1>2, <1>3, UpdateRowsAre DEF UpdateInit, UpdateTypes, Phases, InstallerRows, UpdateRows
<1>5. Offers /\ Scripts
  BY <1>2, <1>3, UpdateRowsAre DEF Offers, Scripts, Untouched
<1> QED
  BY <1>4, <1>5 DEF UpdateInv

\* An update goes on by one step.
LEMMA StepTurns ==
    ASSUME UpdateTypes, Offers, NEW from \in {"download", "verify", "extract"},
           NEW to \in {"verify", "extract", "prepare"}, NEW shown \in Phases, shown # "readyToRestart",
           NEW what \in {"none", "asset", "other"}, to # "verify" => what = "asset",
           UpdateStep(from, to, shown, what)
    PROVE  (UpdateTypes /\ Offers)'
<1>1. updating \in UpdateRows /\ updating.at # "idle" /\ updating' = [updating EXCEPT !.at = to, !.got = what]
  BY UpdateRowsAre DEF UpdateStep
<1>2. updating' \in UpdateRows /\ updating'.at = to /\ updating'.got = what /\ updating'.of = updating.of
  BY <1>1 DEF UpdateRows
<1>3. UpdateTypes'
  BY <1>2 DEF UpdateTypes, UpdateRows, UpdateStep, ManagerOnly
<1>4. Offers'
  BY <1>1, <1>2 DEF Offers, UpdateStep
<1> QED
  BY <1>3, <1>4

\* The steps of the manager leave the script and the files alone, but for its start.
LEMMA ManagerStep ==
    ASSUME UpdateInv,
           \/ CheckBegins \/ finish_check \/ start_update \/ UpdateFails
           \/ download \/ verify \/ extract_zip \/ prepare_update \/ LookIdle
    PROVE  UpdateInv'
<1>1. /\ UNCHANGED <<platform, installer, files, program>>
      /\ installer.how = "none"
  BY DEF CheckBegins, finish_check, start_update, UpdateFails, download, verify, extract_zip,
         prepare_update, LookIdle, UpdateStep, ManagerOnly, Up
<1>2. Scripts'
  BY <1>1 DEF UpdateInv, Scripts
<1>3. NoRelease.digest = "none" /\ (Acceptable => Newer(selection)) /\ ~(NoRelease \in {r \in Releases \cup {NoRelease} : Newer(r)})
  BY DEF NoRelease, Acceptable, Newer
<1>4. (UpdateTypes /\ Offers)'
  <2>0. UpdateTypes /\ Offers /\ updating \in UpdateRows /\ installer' = installer
    BY <1>1, UpdateRowsAre DEF UpdateInv
  <2>1. CASE CheckBegins
    <3>1. checks' \in 0..MaxChecks /\ phase' = "checking" /\ busy' \in BOOLEAN /\ fetching' \in BOOLEAN
          /\ lastError' \in BOOLEAN
      <4>1. checks \in 0..MaxChecks /\ checks < MaxChecks /\ checks' = checks + 1 /\ MaxChecks \in Nat
        BY <2>1, <2>0, UpdateAssumption DEF UpdateTypes, CheckBegins
      <4>2. checks' \in 0..MaxChecks
        BY ONLY <4>1
      <4> QED
        BY <4>2, <2>1 DEF CheckBegins
    <3>2. UNCHANGED <<platform, installer, files, program, selection, prepared, updating, restarting>>
      BY <2>1 DEF CheckBegins, ManagerOnly
    <3>3. UpdateTypes'
      BY <3>1, <3>2, <2>0, ManagerTypes DEF UpdateTypes, Phases, UpdateRows
    <3> QED
      BY <3>1, <3>2, <3>3, <2>0 DEF Offers
  <2>2. CASE finish_check
    <3>1. /\ selection' \in Releases \cup {NoRelease}
          /\ phase' \in {"upToDate", "readyToRestart", "available", "failed"}
          /\ phase' = "readyToRestart" => prepared # NoRelease
      BY <2>0, <2>2 DEF UpdateTypes, finish_check, fetch_latest
    <3>2. /\ UNCHANGED <<platform, installer, files, program, prepared, updating, restarting, lastError, checks>>
          /\ fetching' = FALSE /\ busy' = FALSE
      BY <2>2 DEF finish_check, ManagerOnly
    <3>3. UpdateTypes'
      <4>1. /\ prepared \in Releases \cup {NoRelease} /\ restarting \in BOOLEAN /\ lastError \in BOOLEAN
            /\ checks \in 0..MaxChecks
        BY <2>0 DEF UpdateTypes
      <4>2. phase' \in Phases /\ busy' \in BOOLEAN /\ fetching' \in BOOLEAN
        BY <3>1, <3>2 DEF Phases
      <4> QED
        BY <4>1, <4>2, <3>1, <3>2, <2>0, ManagerTypes
    <3> QED
      BY <3>1, <3>2, <3>3, <2>0 DEF Offers
  <2>3. CASE start_update
    <3>1. prepared' = NoRelease /\ UNCHANGED <<selection, fetching, restarting, lastError, checks>>
      BY <2>3 DEF start_update
    <3>2. CASE Acceptable
      <4>1. busy' = TRUE /\ phase' = "downloading" /\ updating' = [at |-> "download", of |-> selection, got |-> "none"]
        BY <2>3, <3>2 DEF start_update
      <4>2. updating' \in UpdateRows /\ updating'.at = "download" /\ updating'.of = selection
        BY <2>0, <4>1 DEF UpdateTypes, UpdateRows
      <4> QED
        BY <1>1, <1>3, <2>0, <3>1, <3>2, <4>1, <4>2 DEF UpdateTypes, UpdateRows, Offers, Phases
    <3>3. CASE ~Acceptable
      <4>1. phase' \in {"upToDate", "failed"} /\ UNCHANGED <<busy, updating>>
        BY <2>3, <3>3 DEF start_update
      <4> QED
        BY <1>1, <2>0, <3>1, <4>1 DEF UpdateTypes, Offers, Phases
    <3> QED
      BY <3>2, <3>3
  <2>4. CASE UpdateFails
    BY <2>4, <2>0, UpdateRowsAre, ZenonT(40) DEF UpdateTypes, UpdateRows, Offers, UpdateFails, Phases, ManagerOnly
  <2>5. CASE download
    <3>1. PICK what \in {"asset", "other"} : UpdateStep("download", "verify", "verifying", what)
      BY <2>5 DEF download
    <3> QED
      BY <3>1, <2>0, StepTurns DEF Phases
  <2>6. CASE verify
    BY <2>6, <2>0, StepTurns DEF verify, Phases
  <2>7. CASE extract_zip
    <3>1. updating.got = "asset" /\ UpdateStep("extract", "prepare", "preparing", updating.got)
      BY <2>7, <2>0 DEF extract_zip, UpdateStep, Offers
    <3>2. UpdateStep("extract", "prepare", "preparing", "asset")
      BY <3>1, Zenon
    <3> QED
      BY <3>2, <2>0, StepTurns DEF Phases
  <2>8. CASE prepare_update
    <3>1. /\ prepared' = updating.of /\ phase' = "readyToRestart" /\ updating' = NoUpdate /\ updating.at = "prepare"
          /\ busy' = FALSE
      BY <2>8 DEF prepare_update
    <3>2. Newer(updating.of) /\ updating.of \in Releases \cup {NoRelease} /\ updating.of # NoRelease
      BY <2>0, <3>1 DEF Offers, UpdateRows, Newer, NoRelease
    <3>3. UNCHANGED <<platform, installer, files, program, selection, fetching, restarting, lastError, checks>>
      BY <2>8 DEF prepare_update, ManagerOnly
    <3>4. UpdateTypes'
      BY <3>1, <3>2, <3>3, <2>0, UpdateRowsAre, ManagerTypes DEF UpdateTypes, Phases, UpdateRows
    <3> QED
      BY <3>1, <3>2, <3>3, <3>4, UpdateRowsAre DEF Offers
  <2>9. CASE LookIdle
    <3>1. /\ UNCHANGED <<platform, installer, files, program, busy, selection, prepared, fetching, updating,
                         lastError, checks>>
          /\ phase' \in {phase, "failed"} /\ restarting' \in {restarting, TRUE}
      BY <2>9 DEF LookIdle, ManagerOnly
    <3>2. UpdateTypes'
      <4>1. phase' \in Phases /\ restarting' \in BOOLEAN
        BY <3>1, <2>0 DEF UpdateTypes, Phases
      <4>2. /\ busy' \in BOOLEAN /\ selection' \in Releases \cup {NoRelease} /\ prepared' \in Releases \cup {NoRelease}
            /\ fetching' \in BOOLEAN /\ lastError' \in BOOLEAN /\ updating' \in UpdateRows /\ checks' \in 0..MaxChecks
        BY <3>1, <2>0 DEF UpdateTypes
      <4> QED
        BY <3>1, <4>1, <4>2, <2>0, ManagerTypes
    <3> QED
      BY <3>1, <3>2, <2>0 DEF Offers
  <2> QED
    BY <2>1, <2>2, <2>3, <2>4, <2>5, <2>6, <2>7, <2>8, <2>9
<1> QED
  BY <1>2, <1>4 DEF UpdateInv

\* The scripts' lines, one by one.
LEMMA ScriptLength ==
    /\ platform = "windows" => Script = 7 /\ Targets = <<"bexe", "bext", "bmarker", "ext", "ext", "exe", "marker">>
    /\ platform # "windows" => Script = 4 /\ Targets = <<"ext", "ext", "exe", "marker">>
  BY DEF Script, Targets

LEMMA LineKeeps == ASSUME UpdateInv, Line PROVE UpdateInv'
<1> PICK k : k = installer.at
  OBVIOUS
<1>0. /\ k \in 0..9 /\ k >= 1 /\ k <= Script /\ files \in [Slots -> Installed]
      /\ installer.how = "forward" /\ installer' = [installer EXCEPT !.at = @ + 1]
      /\ files' = Forward(files)[k]
      /\ UNCHANGED <<platform, phase, busy, selection, prepared, fetching, updating, restarting, checks,
                     program, lastError>>
  BY DEF UpdateInv, UpdateTypes, Line, Scripts, Scripted
<1>1. installer'.at = k + 1 /\ installer'.how = "forward" /\ installer'.found = installer.found
  BY <1>0 DEF UpdateInv, UpdateTypes
<1>2. ASSUME files' \in [Slots -> Installed], k + 1 \in 0..9,
             platform = "windows" => WindowsDone(files', installer.found, k + 1),
             platform # "windows" => OtherDone(files', k + 1)
      PROVE  UpdateInv'
  <2>1. UpdateTypes' /\ Offers'
    BY <1>0, <1>1, <1>2 DEF UpdateInv, UpdateTypes, Offers
  <2>2. Scripts'
    BY <1>0, <1>1, <1>2 DEF Scripts
  <2> QED
    BY <2>1, <2>2 DEF UpdateInv
<1>3. CASE platform = "windows"
  <2>0. WindowsDone(files, installer.found, k) /\ k \in 1..7
    BY <1>0, <1>3, ScriptLength DEF UpdateInv, Scripts
  <2>1. CASE k = 1
    <3>1. files' = [files EXCEPT !["bexe"] = files["exe"]]
      BY <1>0, <1>3, <2>1 DEF Forward, Copied
    <3> QED
      BY <3>1, <1>0, <1>2, <1>3, <2>0, <2>1 DEF WindowsDone, Intact, Slots, Installed, Had
  <2>2. CASE k = 2
    <3>1. files' = IF Had("ext") THEN [files EXCEPT !["bext"] = files["ext"]] ELSE files
      BY <1>0, <1>3, <2>2 DEF Forward, Copied
    <3> QED
      BY <3>1, <1>0, <1>2, <1>3, <2>0, <2>2 DEF WindowsDone, Intact, Slots, Installed, Had
  <2>3. CASE k = 3
    <3>1. files' = IF Had("marker") THEN [files EXCEPT !["bmarker"] = files["marker"]] ELSE files
      BY <1>0, <1>3, <2>3 DEF Forward, Copied
    <3> QED
      BY <3>1, <1>0, <1>2, <1>3, <2>0, <2>3 DEF WindowsDone, Intact, Slots, Installed, Had
  <2>4. CASE k = 4
    <3>1. files' = [files EXCEPT !["ext"] = "none"]
      BY <1>0, <1>3, <2>4 DEF Forward, Copied
    <3> QED
      BY <3>1, <1>0, <1>2, <1>3, <2>0, <2>4 DEF WindowsDone, Intact, Slots, Installed, Had
  <2>5. CASE k = 5
    <3>1. files' = [files EXCEPT !["ext"] = "new"]
      BY <1>0, <1>3, <2>5 DEF Forward, Copied
    <3> QED
      BY <3>1, <1>0, <1>2, <1>3, <2>0, <2>5 DEF WindowsDone, Intact, Slots, Installed, Had
  <2>6. CASE k = 6
    <3>1. files' = [files EXCEPT !["exe"] = "new"]
      BY <1>0, <1>3, <2>6 DEF Forward, Copied
    <3> QED
      BY <3>1, <1>0, <1>2, <1>3, <2>0, <2>6 DEF WindowsDone, Intact, Slots, Installed, Had
  <2>7. CASE k = 7
    <3>1. files' = [files EXCEPT !["marker"] = "new"]
      BY <1>0, <1>3, <2>7 DEF Forward, Copied
    <3> QED
      BY <3>1, <1>0, <1>2, <1>3, <2>0, <2>7 DEF WindowsDone, Intact, Slots, Installed, Had
  <2> QED
    BY <1>2, <1>3, <2>0, <2>1, <2>2, <2>3, <2>4, <2>5, <2>6, <2>7
<1>4. CASE platform # "windows"
  <2>0. OtherDone(files, k) /\ k \in 1..4
    BY <1>0, <1>4, ScriptLength DEF UpdateInv, Scripts
  <2>1. CASE k = 1
    <3>1. files' = [files EXCEPT !["ext"] = "none"]
      BY <1>0, <1>4, <2>1 DEF Forward, Copied
    <3> QED
      BY <3>1, <1>0, <1>2, <1>4, <2>0, <2>1 DEF OtherDone, Slots, Installed
  <2>2. CASE k = 2
    <3>1. files' = [files EXCEPT !["ext"] = "new"]
      BY <1>0, <1>4, <2>2 DEF Forward, Copied
    <3> QED
      BY <3>1, <1>0, <1>2, <1>4, <2>0, <2>2 DEF OtherDone, Slots, Installed
  <2>3. CASE k = 3
    <3>1. files' = [files EXCEPT !["exe"] = "new"]
      BY <1>0, <1>4, <2>3 DEF Forward, Copied
    <3> QED
      BY <3>1, <1>0, <1>2, <1>4, <2>0, <2>3 DEF OtherDone, Slots, Installed
  <2>4. CASE k = 4
    <3>1. files' = [files EXCEPT !["marker"] = "new"]
      BY <1>0, <1>4, <2>4 DEF Forward, Copied
    <3> QED
      BY <3>1, <1>0, <1>2, <1>4, <2>0, <2>4 DEF OtherDone, Slots, Installed
  <2> QED
    BY <1>2, <1>4, <2>0, <2>1, <2>2, <2>3, <2>4
<1> QED
  BY <1>3, <1>4

\* A line that fails, the start of the new program and the note of the error.
LEMMA ScriptTurns ==
    ASSUME UpdateInv, LineFails \/ StartNew \/ WriteError \/ BackFails \/ StartOld \/ exit_for_update \/ spawn_installer
    PROVE  UpdateInv'
<1>1. CASE LineFails
  <2>1. /\ installer.how = "forward" /\ installer.at \in 1..Script
        /\ files' \in {files, [files EXCEPT ![Targets[installer.at]] = "torn"]}
    BY <1>1 DEF LineFails, UpdateInv, UpdateTypes, Scripts
  <2>2. files' \in [Slots -> Installed]
    BY <2>1, ScriptLength DEF UpdateInv, UpdateTypes, Installed, Slots
  <2>3. /\ installer' \in [at : 0..9, how : {"failing", "dead"}, found : [ext : Installed, marker : Installed]]
        /\ UNCHANGED <<platform, phase, busy, selection, prepared, fetching, updating, restarting, checks,
                     program, lastError>>
    BY <1>1 DEF LineFails, UpdateInv, UpdateTypes, Scripted
  <2>4. installer'.how \in {"failing", "dead"}
    BY <2>3
  <2>5. Scripts'
    BY <2>4 DEF Scripts
  <2> QED
    BY <2>2, <2>3, <2>5 DEF UpdateInv, UpdateTypes, Offers
<1>2. CASE StartNew
  <2>0. installer \in InstallerRows
    BY UpdateRowsAre DEF UpdateInv
  <2>1. /\ installer.how = "forward" /\ installer.at = Script + 1 /\ UNCHANGED files
        /\ program' \in {"new", "none"} /\ lastError' = FALSE
        /\ \/ installer' = [installer EXCEPT !.how = "done"] /\ program' = "new"
           \/ installer' = [installer EXCEPT !.how = "failing"]
           \/ installer' = [installer EXCEPT !.how = "dead"]
        /\ UNCHANGED <<platform, phase, busy, selection, prepared, fetching, updating, restarting, checks>>
    BY <1>2 DEF StartNew, Scripted
  <2>2. /\ installer' \in InstallerRows /\ installer'.how \in {"done", "failing", "dead"}
        /\ installer'.how = "done" => program' = "new"
    BY <2>0, <2>1, InstallerTurns
  <2>3. files["exe"] = "new" /\ files["ext"] = "new" /\ files["marker"] = "new"
    BY <2>1, ScriptLength DEF UpdateInv, Scripts, WindowsDone, OtherDone
  <2>4. Scripts'
    BY <2>1, <2>2, <2>3 DEF Scripts
  <2> QED
    <3>1. UpdateTypes'
      BY <2>1, <2>2, ScriptTypes DEF UpdateInv, UpdateTypes
    <3> QED
      BY <3>1, <2>1, <2>4 DEF UpdateInv, Offers
<1>3. CASE WriteError
  <2>0. installer \in InstallerRows
    BY UpdateRowsAre DEF UpdateInv
  <2>1. /\ UNCHANGED <<platform, phase, busy, selection, prepared, fetching, updating, restarting, checks, files>>
        /\ \/ installer' = [installer EXCEPT !.how = "back", !.at = 1] /\ lastError' = TRUE /\ program' = "none"
           \/ installer' = [installer EXCEPT !.how = "dead"] /\ UNCHANGED <<lastError, program>>
    BY <1>3 DEF WriteError, Scripted
  <2>2. /\ installer' \in InstallerRows
        /\ \/ installer'.how = "back" /\ installer'.at = 1
           \/ installer'.how = "dead"
    <3>1. CASE installer' = [installer EXCEPT !.how = "back", !.at = 1]
      <4>1. installer.found \in [ext : Installed, marker : Installed] /\ 1 \in 0..9
        BY <2>0 DEF InstallerRows
      <4>2. PICK at \in 0..9, there \in [ext : Installed, marker : Installed] : at = 1 /\ there = installer.found
        BY <4>1
      <4>3. installer' = [installer EXCEPT !.how = "back", !.at = at]
        BY <4>2, <3>1
      <4> QED
        BY <4>2, <4>3, <2>0, InstallerBegins
    <3>2. CASE installer' = [installer EXCEPT !.how = "dead"]
      BY <2>0, <3>2, InstallerTurns
    <3> QED
      BY <2>1, <3>1, <3>2
  <2>3. Scripts'
    BY <2>2 DEF Scripts, PutBack
  <2>4. UpdateTypes'
    BY <2>1, <2>2, ScriptTypes DEF UpdateInv, UpdateTypes
  <2> QED
    BY <2>1, <2>3, <2>4 DEF UpdateInv, Offers
<1>4. CASE BackFails
  <2>1. /\ UNCHANGED <<platform, phase, busy, selection, prepared, fetching, updating, restarting, checks,
                       program, lastError, files>>
        /\ installer' = [installer EXCEPT !.how = "dead"]
    BY <1>4 DEF BackFails, Scripted
  <2>2. installer'.how = "dead"
    BY <2>1 DEF UpdateInv, UpdateTypes
  <2>3. Scripts'
    BY <2>2 DEF Scripts
  <2> QED
    BY <2>1, <2>3 DEF UpdateInv, UpdateTypes, Offers
<1>5. CASE StartOld
  <2>1. /\ UNCHANGED <<platform, phase, busy, selection, prepared, fetching, updating, restarting, checks,
                       lastError, files>>
        /\ installer.how = "back" /\ installer.at = 5 /\ program' = "old"
        /\ installer' = [installer EXCEPT !.how = "rolledBack"]
    BY <1>5 DEF StartOld, Scripted
  <2>2. installer'.how = "rolledBack" /\ installer'.found = installer.found
    BY <2>1 DEF UpdateInv, UpdateTypes
  <2>3. Scripts'
    BY <2>1, <2>2 DEF UpdateInv, Scripts
  <2> QED
    BY <2>1, <2>3 DEF UpdateInv, UpdateTypes, Offers
<1>6. CASE exit_for_update
  <2>1. /\ UNCHANGED <<platform, phase, busy, selection, prepared, fetching, updating, restarting, checks,
                       lastError, files>>
        /\ installer.how = "wait" /\ program' = "none"
        /\ installer' = [installer EXCEPT !.how = "forward", !.at = 1,
                                          !.found = [ext |-> files["ext"], marker |-> files["marker"]]]
    BY <1>6 DEF exit_for_update
  <2>2. /\ installer'.how = "forward" /\ installer'.at = 1
        /\ installer'.found = [ext |-> files["ext"], marker |-> files["marker"]]
    BY <2>1 DEF UpdateInv, UpdateTypes
  <2>3. Untouched(files)
    BY <2>1 DEF UpdateInv, Scripts
  <2>4. WindowsDone(files, installer'.found, 1) /\ OtherDone(files, 1)
    BY <2>2, <2>3 DEF WindowsDone, OtherDone, Untouched, Intact
  <2>5. Scripts'
    BY <2>1, <2>2, <2>4 DEF Scripts
  <2>6. files["ext"] \in Installed /\ files["marker"] \in Installed
    BY DEF UpdateInv, UpdateTypes, Slots
  <2>7. PICK there : there = [ext |-> files["ext"], marker |-> files["marker"]]
    OBVIOUS
  <2>8. there \in [ext : Installed, marker : Installed]
    BY <2>6, <2>7
  <2>9. installer' = [installer EXCEPT !.how = "forward", !.at = 1, !.found = there]
    BY <2>1, <2>7
  <2>10. installer' \in InstallerRows
    <3>1. installer \in InstallerRows
      BY UpdateRowsAre DEF UpdateInv
    <3> QED
      <4>1. PICK at \in 0..9 : at = 1
        OBVIOUS
      <4>2. installer' = [installer EXCEPT !.how = "forward", !.at = at, !.found = there]
        BY <4>1, <2>9
      <4> QED
        BY <3>1, <2>8, <4>2, InstallerBegins
  <2>11. UpdateTypes'
    BY <2>1, <2>10, ScriptTypes DEF UpdateInv, UpdateTypes
  <2> QED
    BY <2>1, <2>5, <2>11 DEF UpdateInv, Offers
<1>7. CASE spawn_installer
  <2>1. /\ UNCHANGED <<platform, busy, selection, prepared, fetching, updating, files, program, lastError, checks>>
        /\ installer.how = "none" /\ restarting' = FALSE /\ phase' \in {"restarting", "failed"}
        /\ \/ installer' = installer
           \/ installer' = [NotInstalling EXCEPT !.how = "wait"]
    BY <1>7 DEF spawn_installer, Up
  <2>2. [NotInstalling EXCEPT !.how = "wait"] = [at |-> 0, how |-> "wait", found |-> [ext |-> "none", marker |-> "none"]]
    BY DEF NotInstalling
  <2>3. installer'.how \in {"none", "wait"}
    BY <2>1, <2>2
  <2>4. Scripts'
    BY <2>1, <2>3 DEF UpdateInv, Scripts
  <2>5. installer' \in [at : 0..9, how : {"none", "wait", "forward", "failing", "back", "done", "rolledBack", "dead"},
                        found : [ext : Installed, marker : Installed]]
    BY <2>1, <2>2 DEF UpdateInv, UpdateTypes, Installed
  <2>6. phase' \in Phases /\ phase' # "readyToRestart"
    BY <2>1 DEF Phases
  <2>7. UpdateTypes'
    <3>1. /\ platform \in Platforms /\ busy \in BOOLEAN /\ fetching \in BOOLEAN /\ lastError \in BOOLEAN
          /\ selection \in Releases \cup {NoRelease} /\ prepared \in Releases \cup {NoRelease}
          /\ files \in [Slots -> Installed] /\ program \in {"old", "new", "none"} /\ checks \in 0..MaxChecks
          /\ updating \in UpdateRows
      BY DEF UpdateInv, UpdateTypes, UpdateRows
    <3>2. restarting' \in BOOLEAN
      BY <2>1
    <3> QED
      BY <3>1, <3>2, <2>1, <2>5, <2>6 DEF UpdateTypes, UpdateRows
  <2>8. Offers'
    BY <2>1, <2>6 DEF UpdateInv, Offers
  <2> QED
    BY <2>4, <2>7, <2>8 DEF UpdateInv
<1> QED
  BY <1>1, <1>2, <1>3, <1>4, <1>5, <1>6, <1>7

LEMMA BackKeeps == ASSUME UpdateInv, BackLine PROVE UpdateInv'
<1> PICK k : k = installer.at
  OBVIOUS
<1>0. /\ k \in 1..4 /\ files \in [Slots -> Installed] /\ installer.how = "back"
      /\ installer' = [installer EXCEPT !.at = @ + 1] /\ files' = Back(files)[k]
      /\ BackupOf(files, installer.found) => PutBack(files, installer.found, k)
      /\ UNCHANGED <<platform, phase, busy, selection, prepared, fetching, updating, restarting, checks,
                     program, lastError>>
  BY DEF UpdateInv, UpdateTypes, BackLine, Scripts, Scripted
<1>1. installer'.at = k + 1 /\ installer'.how = "back" /\ installer'.found = installer.found
  BY <1>0 DEF UpdateInv, UpdateTypes
<1>2. /\ files' \in [Slots -> Installed]
      /\ BackupOf(files', installer.found) => PutBack(files', installer.found, k + 1)
  <2>1. CASE k = 1
    <3>1. files' = IF files["bexe"] # "none" THEN [files EXCEPT !["exe"] = files["bexe"]] ELSE files
      BY <1>0, <2>1 DEF Back, Copied
    <3> QED
      BY <3>1, <1>0, <2>1 DEF PutBack, BackupOf, Slots, Installed
  <2>2. CASE k = 2
    <3>1. files' = [files EXCEPT !["ext"] = "none"]
      BY <1>0, <2>2 DEF Back
    <3> QED
      BY <3>1, <1>0, <2>2 DEF PutBack, BackupOf, Slots, Installed
  <2>3. CASE k = 3
    <3>1. files' = IF Had("ext") /\ files["bext"] # "none" THEN [files EXCEPT !["ext"] = files["bext"]] ELSE files
      BY <1>0, <2>3 DEF Back, Copied
    <3>2. files' \in [Slots -> Installed]
      BY <3>1, <1>0 DEF Slots, Installed
    <3>3. ASSUME BackupOf(files', installer.found) PROVE PutBack(files', installer.found, 4)
      <4>1. BackupOf(files, installer.found)
        BY <3>1, <3>3, <1>0 DEF BackupOf, Slots
      <4>2. files["exe"] = "old" /\ files["ext"] = "none" /\ files["bext"] = installer.found.ext
        BY <4>1, <1>0, <2>3 DEF PutBack, BackupOf
      <4>3. files'["exe"] = "old" /\ files'["ext"] = installer.found.ext
        BY <3>1, <4>2, <1>0 DEF Had, Slots
      <4> QED
        BY <4>3 DEF PutBack
    <3> QED
      BY <3>2, <3>3, <2>3
  <2>4. CASE k = 4
    <3>1. files' = IF Had("marker") /\ files["bmarker"] # "none" THEN [files EXCEPT !["marker"] = files["bmarker"]]
                   ELSE [files EXCEPT !["marker"] = "none"]
      BY <1>0, <2>4 DEF Back, Copied
    <3>2. files' \in [Slots -> Installed]
      BY <3>1, <1>0 DEF Slots, Installed
    <3>3. ASSUME BackupOf(files', installer.found) PROVE PutBack(files', installer.found, 5)
      <4>1. BackupOf(files, installer.found)
        BY <3>1, <3>3, <1>0 DEF BackupOf, Slots
      <4>2. files["exe"] = "old" /\ files["ext"] = installer.found.ext /\ files["bmarker"] = installer.found.marker
        BY <4>1, <1>0, <2>4 DEF PutBack, BackupOf
      <4>3. files'["exe"] = "old" /\ files'["ext"] = installer.found.ext /\ files'["marker"] = installer.found.marker
        BY <3>1, <4>2, <1>0 DEF Had, Slots
      <4> QED
        BY <4>3 DEF PutBack
    <3> QED
      BY <3>2, <3>3, <2>4
  <2> QED
    BY <1>0, <2>1, <2>2, <2>3, <2>4
<1>3. UpdateTypes' /\ Offers'
  BY <1>0, <1>1, <1>2 DEF UpdateInv, UpdateTypes, Offers
<1>4. Scripts'
  BY <1>0, <1>1, <1>2 DEF Scripts
<1> QED
  BY <1>3, <1>4 DEF UpdateInv

LEMMA UpdatesStep == UpdateInv /\ [UpdateNext]_updateVars => UpdateInv'
<1> SUFFICES ASSUME UpdateInv, [UpdateNext]_updateVars PROVE UpdateInv'
  OBVIOUS
<1>1. CASE UNCHANGED updateVars
  BY <1>1 DEF updateVars, UpdateInv, UpdateTypes, Offers, Scripts
<1>2. CASE UpdateNext
  BY <1>2, ManagerStep, LineKeeps, ScriptTurns, BackKeeps DEF UpdateNext
<1> QED
  BY <1>1, <1>2

LEMMA UpdatesHold == UpdateInv => UpdateTypes /\ UpdatesSafe
<1> SUFFICES ASSUME UpdateInv PROVE UpdatesSafe
  BY DEF UpdateInv
<1>1. PreparedIsVerified
  BY DEF UpdateInv, Offers, Newer, PreparedIsVerified
<1>2. Backed <=> BackupOf(files, installer.found)
  BY DEF Backed, BackupOf
<1>3. installer.how = "rolledBack" /\ Backed => PutBack(files, installer.found, 5)
  BY <1>2 DEF UpdateInv, Scripts
<1>4. ASSUME platform = "windows", installer.how = "forward", ~Backed PROVE Intact(files, installer.found)
  <2>1. installer.at \in 0..9 /\ WindowsDone(files, installer.found, installer.at)
    BY <1>4 DEF UpdateInv, UpdateTypes, Scripts
  <2>2. installer.at <= 4
    BY <2>1, <1>4 DEF WindowsDone, Backed
  <2> QED
    BY <2>1, <2>2 DEF WindowsDone
<1>5. InstallsWhole
  BY <1>3, <1>4 DEF InstallsWhole, UpdateInv, Scripts, PutBack, Intact
<1> QED
  BY <1>1, <1>5 DEF UpdatesSafe

\* What is offered to install is newer and was verified, an installation that is done put every file
\* in place, one that was rolled back restored what was there, and what is changed on Windows has a
\* backup: for any releases and whatever is installed beside the program.
THEOREM UpdatesKept == UpdateInit /\ [][UpdateNext]_updateVars => [](UpdatesSafe /\ UpdateTypes)
<1>1. UpdateInit => UpdateInv
  BY UpdateStarts
<1>2. UpdateInv /\ [UpdateNext]_updateVars => UpdateInv'
  BY UpdatesStep
<1>3. UpdateInv => UpdatesSafe /\ UpdateTypes
  BY UpdatesHold
<1> QED
  BY <1>1, <1>2, <1>3, PTL

----------------------------------------------------------------------------
(* BlobStore: entries, their files, and who holds them.                     *)

BlobBytes == {1, 2, Torn}
Holds(c) == call[c].step # "idle"

BlobShapes ==
  /\ entry \in [Blobs -> BlobEntry \cup {NoEntry}] /\ meta \in [Blobs -> BlobEntry \cup {NoEntry}]
  /\ file \in [Blobs -> Seq(BlobBytes) \cup {NoFile}] /\ applied \in [Blobs -> Seq(Seq(BlobBytes))]
  /\ call \in [Calls -> [blob : Blobs, step : {"leased", "written", "failed"}] \cup {Idle}]
  /\ lapsed \subseteq Blobs /\ used \subseteq Blobs /\ faults \in 0..MaxFaults /\ restarts \in Nat
  /\ page \in [blob : Blobs \cup {NoEntry}, offset : Nat, got : Seq(Nat)]

\* The file of a blob that is sealed is whole, one that is gone has none; what is stored of it,
\* unless its time is over, is behind the map by what recovery can do without; and it was
\* applied at most once in a life of the host.
BlobSound(b) ==
  /\ entry[b].state \in {"sealed", "consuming"} => file[b] = Whole /\ entry[b].received = 2
  /\ entry[b].state \in {"none", "aborted", "consumed"} => file[b] = NoFile
  /\ meta[b].state # "none" /\ b \notin lapsed =>
       /\ entry[b].state \in {"uploading", "sealed", "consuming"} /\ entry[b].owner = meta[b].owner
       /\ meta[b].state \in {"sealed", "consuming"} =>
            entry[b].state \in {"sealed", "consuming"} /\ meta[b].received = 2
  /\ b \notin used => entry[b] = NoEntry /\ meta[b] = NoEntry /\ applied[b] = <<>>
  /\ \A i \in DOMAIN applied[b] : applied[b][i] = Whole
  /\ Len(applied[b]) <= restarts + 1
  /\ entry[b].state \in {"uploading", "sealed"} => Len(applied[b]) <= restarts

\* Whoever holds a blob alone may give it back.
CallSound(c) ==
  Holds(c) => /\ call[c].blob \in used /\ entry[call[c].blob].state \notin {"uploading", "sealed"}
              /\ call[c].step \in {"leased", "failed"} => Len(applied[call[c].blob]) <= restarts
OneHolder == \A c, d \in Calls : Holds(c) /\ Holds(d) /\ call[c].blob = call[d].blob => c = d

\* An artifact that was opened is sealed for good, or gone.
PageSound ==
  /\ page.blob \in Blobs => page.blob \in used /\ entry[page.blob].state # "uploading"
  /\ PageIntact

BlobInv ==
  /\ BlobShapes /\ (\A b \in Blobs : BlobSound(b)) /\ (\A c \in Calls : CallSound(c))
  /\ OneHolder /\ PageSound /\ Quota

LEMMA EntryStates ==
  ASSUME BlobShapes, NEW b \in Blobs
  PROVE  /\ entry[b] = NoEntry <=> entry[b].state = "none"
         /\ meta[b] = NoEntry <=> meta[b].state = "none"
         /\ entry[b].state \in BlobState \cup {"none"} /\ meta[b].state \in BlobState \cup {"none"}
         /\ entry[b] # NoEntry => entry[b] \in BlobEntry
         /\ meta[b] # NoEntry => meta[b] \in BlobEntry
  BY DEF BlobShapes, BlobEntry, NoEntry, BlobState

LEMMA CallStates ==
  ASSUME BlobShapes, NEW c \in Calls
  PROVE  /\ call[c] = Idle <=> ~Holds(c)
         /\ Holds(c) => call[c].blob \in Blobs /\ call[c].step \in {"leased", "written", "failed"}
         /\ ~Holds(c) => call[c].blob = NoEntry
  BY DEF BlobShapes, Idle, Holds

LEMMA WholeIs == Whole \in Seq(BlobBytes) /\ Len(Whole) = 2 /\ Whole # NoFile /\ Whole # <<>>
<1>1. Whole \in Seq(BlobBytes) /\ Len(Whole) = 2 /\ Len(<<>>) = 0
  <2>1. 1 \in BlobBytes /\ 2 \in BlobBytes
    BY DEF BlobBytes
  <2> QED
    BY <2>1 DEF Whole
<1>2. NoFile \notin Seq(BlobBytes)
  BY BlobAssumption, Zenon DEF BlobBytes
<1>3. Whole # <<>>
  BY <1>1
<1>4. Whole # NoFile
  BY <1>1, <1>2, Zenon
<1> QED
  BY <1>1, <1>3, <1>4

\* One row of a table is written.
LEMMA SetRow ==
  ASSUME NEW S, NEW f \in [Blobs -> S], NEW b \in Blobs, NEW v \in S, NEW g, g = [f EXCEPT ![b] = v]
  PROVE  g \in [Blobs -> S] /\ g[b] = v /\ \A x \in Blobs : x # b => g[x] = f[x]
OBVIOUS

LEMMA WithoutRows ==
  ASSUME BlobShapes, NEW S
  PROVE  /\ Without(entry, S, NoEntry) \in [Blobs -> BlobEntry \cup {NoEntry}]
         /\ Without(meta, S, NoEntry) \in [Blobs -> BlobEntry \cup {NoEntry}]
         /\ Without(file, S, NoFile) \in [Blobs -> Seq(BlobBytes) \cup {NoFile}]
BY DEF Without, BlobShapes

LEMMA BlobsStart == BlobInit => BlobInv
<1> SUFFICES ASSUME BlobInit PROVE BlobInv
  OBVIOUS
<1>1. BlobShapes
  BY BlobAssumption DEF BlobInit, BlobShapes, NoPage
<1>2. \A b \in Blobs : BlobSound(b)
  BY BlobAssumption DEF BlobInit, BlobSound, NoEntry
<1>3. (\A c \in Calls : CallSound(c)) /\ OneHolder
  BY DEF BlobInit, CallSound, OneHolder, Holds, Idle
<1>4. PageSound
  BY BlobAssumption DEF BlobInit, PageSound, PageIntact, NoPage
<1>5. Quota
  <2> SUFFICES ASSUME NEW o \in Turns PROVE usage(entry, o) <= OwnerLimit
    BY DEF Quota
  <2>1. {b \in Blobs : Active(entry[b]) /\ entry[b].owner = o} = {}
    BY DEF BlobInit, Active, NoEntry
  <2>2. usage(entry, o) = Cardinality({})
    BY <2>1, Zenon DEF usage
  <2>3. Cardinality({}) = 0
    BY FS_EmptySet
  <2> QED
    BY <2>2, <2>3, BlobAssumption
<1> QED
  BY <1>1, <1>2, <1>3, <1>4, <1>5 DEF BlobInv

\* A blob nobody touches stays sound.
LEMMA BlobStays ==
  ASSUME NEW b \in Blobs, BlobSound(b), entry'[b] = entry[b], meta'[b] = meta[b], file'[b] = file[b],
         applied'[b] = applied[b], restarts' = restarts, lapsed \subseteq lapsed', used \subseteq used'
  PROVE  BlobSound(b)'
  BY DEF BlobSound

\* No more is reserved than was, if only what was active is.
LEMMA QuotaStays ==
  ASSUME Quota, \A b \in Blobs : Active(entry'[b]) => Active(entry[b]) /\ entry'[b].owner = entry[b].owner
  PROVE  Quota'
<1> SUFFICES ASSUME NEW o \in Turns PROVE usage(entry', o) <= OwnerLimit
  BY DEF Quota
<1>1. PICK S : S = {b \in Blobs : Active(entry[b]) /\ entry[b].owner = o}
  OBVIOUS
<1>2. PICK T : T = {b \in Blobs : Active(entry'[b]) /\ entry'[b].owner = o}
  OBVIOUS
<1>3. IsFiniteSet(S) /\ T \subseteq S
  BY <1>1, <1>2, FS_Subset, BlobAssumption
<1>4. Cardinality(S) <= OwnerLimit
  BY <1>1 DEF Quota, usage
<1>5. Cardinality(T) <= Cardinality(S) /\ Cardinality(T) \in Nat /\ Cardinality(S) \in Nat
  BY <1>3, FS_Subset, FS_CardinalityType
<1>6. Cardinality(T) <= OwnerLimit
  BY <1>4, <1>5, BlobAssumption
<1> QED
  BY <1>2, <1>6 DEF usage

\* What the calls and the page rest on, when the map changes at b only or entries go.
LEMMA HoldersStay ==
  ASSUME BlobShapes, \A c \in Calls : CallSound(c), OneHolder, PageSound, UNCHANGED <<call, page, applied, restarts>>,
         used \subseteq used',
         \A b \in Blobs : \/ entry'[b].state = entry[b].state
                          \/ entry'[b].state \notin {"uploading", "sealed"}
                          \/ b \notin used
                          \/ entry'[b].state = "sealed" /\ \A c \in Calls : Holds(c) => call[c].blob # b
  PROVE  (\A c \in Calls : CallSound(c)') /\ OneHolder' /\ PageSound'
<1>1. ASSUME NEW c \in Calls PROVE CallSound(c)'
  BY <1>1, CallStates DEF CallSound, Holds
<1>2. OneHolder'
  BY DEF OneHolder, Holds
<1>3. PageSound'
  BY DEF PageSound, PageIntact
<1> QED
  BY <1>1, <1>2, <1>3

\* An upload or an artifact of its own begins: one more for its owner.
LEMMA QuotaTaken ==
  ASSUME BlobShapes, Quota, NEW b \in Blobs, NEW o \in Turns, NEW new, new.owner = o,
         usage(Without(entry, Purged, NoEntry), o) < OwnerLimit,
         entry' = [Without(entry, Purged, NoEntry) EXCEPT ![b] = new]
  PROVE  Quota'
<1> SUFFICES ASSUME NEW u \in Turns PROVE usage(entry', u) <= OwnerLimit
  BY DEF Quota
<1>1. PICK kept : kept = Without(entry, Purged, NoEntry)
  OBVIOUS
<1>2. kept \in [Blobs -> BlobEntry \cup {NoEntry}] /\ entry' = [kept EXCEPT ![b] = new]
  BY <1>1 DEF Without, BlobShapes
<1>3. \A x \in Blobs : Active(kept[x]) => Active(entry[x]) /\ kept[x].owner = entry[x].owner
  BY <1>1 DEF Without, Active, NoEntry
<1>4. PICK S : S = {x \in Blobs : Active(entry[x]) /\ entry[x].owner = u}
  OBVIOUS
<1>5. PICK K : K = {x \in Blobs : Active(kept[x]) /\ kept[x].owner = u}
  OBVIOUS
<1>6. PICK T : T = {x \in Blobs : Active(entry'[x]) /\ entry'[x].owner = u}
  OBVIOUS
<1>7. IsFiniteSet(S) /\ IsFiniteSet(K) /\ K \subseteq S
  BY <1>3, <1>4, <1>5, FS_Subset, BlobAssumption
<1>8. Cardinality(K) \in Nat /\ Cardinality(S) \in Nat /\ Cardinality(K) <= Cardinality(S)
  BY <1>7, FS_Subset, FS_CardinalityType
<1>9. Cardinality(S) <= OwnerLimit
  BY <1>4 DEF Quota, usage
<1>10. CASE u = o
  <2>1. Cardinality(K) < OwnerLimit
    BY <1>1, <1>5, <1>10 DEF usage
  <2>2. T \subseteq K \cup {b}
    BY <1>2, <1>5, <1>6
  <2>3. IsFiniteSet(K \cup {b}) /\ Cardinality(K \cup {b}) <= Cardinality(K) + 1 /\ Cardinality(K \cup {b}) \in Nat
    <3>1. IsFiniteSet(K \cup {b})
          /\ Cardinality(K \cup {b}) = IF b \in K THEN Cardinality(K) ELSE Cardinality(K) + 1
      BY <1>7, FS_AddElement, Zenon
    <3> QED
      BY <3>1, <1>8
  <2>4. Cardinality(T) <= Cardinality(K \cup {b}) /\ Cardinality(T) \in Nat
    BY <2>2, <2>3, FS_Subset, FS_CardinalityType
  <2>5. Cardinality(T) <= OwnerLimit
    BY <2>1, <2>3, <2>4, <1>8, BlobAssumption
  <2> QED
    BY <2>5, <1>6 DEF usage
<1>11. CASE u # o
  <2>1. T \subseteq K
    BY <1>2, <1>5, <1>6, <1>11
  <2>2. Cardinality(T) <= Cardinality(K) /\ Cardinality(T) \in Nat
    BY <2>1, <1>7, FS_Subset, FS_CardinalityType
  <2>3. Cardinality(T) <= OwnerLimit
    BY <2>2, <1>8, <1>9, BlobAssumption
  <2> QED
    BY <2>3, <1>6 DEF usage
<1> QED
  BY <1>10, <1>11

\* A blob that is dropped.
LEMMA BlobGone ==
  ASSUME NEW b \in Blobs, BlobSound(b), entry'[b] = NoEntry, meta'[b] = NoEntry, file'[b] = NoFile,
         applied'[b] = applied[b], restarts' = restarts, used \subseteq used'
  PROVE  BlobSound(b)'
  BY DEF BlobSound, NoEntry


LEMMA BeginKeeps == ASSUME BlobInv, NEW b \in Blobs, NEW o \in Turns, NEW p \in Purposes, begin(b, o, p) PROVE BlobInv'
<1> PICK new : new = Entry(b, o, p, "uploading", 0, <<>>)
  OBVIOUS
<1>0. /\ b \notin used /\ used' = used \cup {b} /\ UNCHANGED <<lapsed, call, page, applied, faults, restarts>>
      /\ \/ /\ usage(Without(entry, Purged, NoEntry), o) < OwnerLimit
            /\ entry' = [Without(entry, Purged, NoEntry) EXCEPT ![b] = new]
            /\ meta' = [Without(meta, Purged, NoEntry) EXCEPT ![b] = new]
            /\ file' = [Without(file, Purged, NoFile) EXCEPT ![b] = <<>>]
         \/ /\ entry' = Without(entry, Purged, NoEntry)
            /\ meta' = Without(meta, Purged, NoEntry)
            /\ file' = Without(file, Purged, NoFile)
  BY DEF begin, Unused, NoFault
<1>1. new \in BlobEntry /\ new.state = "uploading" /\ new.owner = o
  BY DEF Entry, BlobEntry, BlobState, Whole, Purposes
<1>2. entry[b] = NoEntry /\ meta[b] = NoEntry /\ applied[b] = <<>> /\ file[b] = NoFile /\ b \notin Purged
  BY <1>0 DEF BlobInv, BlobSound, Purged, Known, NoEntry
<1>3. \A x \in Blobs \ {b} :
        \/ entry'[x] = entry[x] /\ meta'[x] = meta[x] /\ file'[x] = file[x]
        \/ entry'[x] = NoEntry /\ meta'[x] = NoEntry /\ file'[x] = NoFile
  BY <1>0 DEF Without
<1>4. \/ entry'[b] = new /\ meta'[b] = new /\ file'[b] = <<>>
      \/ entry'[b] = NoEntry /\ meta'[b] = NoEntry /\ file'[b] = NoFile
  BY <1>0, <1>2 DEF Without
<1>5. BlobShapes'
  <2>1. /\ entry' \in [Blobs -> BlobEntry \cup {NoEntry}] /\ meta' \in [Blobs -> BlobEntry \cup {NoEntry}]
        /\ file' \in [Blobs -> Seq(BlobBytes) \cup {NoFile}]
    <3>1. BlobShapes /\ new \in BlobEntry \cup {NoEntry} /\ <<>> \in Seq(BlobBytes) \cup {NoFile}
      BY <1>1 DEF BlobInv
    <3>2. PICK e, m, f : /\ e = Without(entry, Purged, NoEntry) /\ m = Without(meta, Purged, NoEntry)
                         /\ f = Without(file, Purged, NoFile)
      OBVIOUS
    <3>3. /\ e \in [Blobs -> BlobEntry \cup {NoEntry}] /\ m \in [Blobs -> BlobEntry \cup {NoEntry}]
          /\ f \in [Blobs -> Seq(BlobBytes) \cup {NoFile}]
      BY <3>1, <3>2, WithoutRows
    <3>4. \/ entry' = [e EXCEPT ![b] = new] /\ meta' = [m EXCEPT ![b] = new] /\ file' = [f EXCEPT ![b] = <<>>]
          \/ entry' = e /\ meta' = m /\ file' = f
      BY <1>0, <3>2, Zenon
    <3>5. CASE entry' = e /\ meta' = m /\ file' = f
      BY <3>3, <3>5
    <3>6. CASE entry' = [e EXCEPT ![b] = new] /\ meta' = [m EXCEPT ![b] = new] /\ file' = [f EXCEPT ![b] = <<>>]
      BY <3>1, <3>3, <3>6
    <3> QED
      BY <3>4, <3>5, <3>6
  <2> QED
    BY <2>1, <1>0 DEF BlobInv, BlobShapes
<1>6. ASSUME NEW x \in Blobs PROVE BlobSound(x)'
  <2>1. CASE x # b
    BY <2>1, <1>0, <1>3, BlobStays, BlobGone DEF BlobInv
  <2>2. CASE x = b
    BY <2>2, <1>0, <1>1, <1>2, <1>4 DEF BlobSound, NoEntry, BlobInv, BlobShapes
  <2> QED
    BY <2>1, <2>2
<1>7. (\A c \in Calls : CallSound(c)') /\ OneHolder' /\ PageSound'
  <2>1. \A x \in Blobs : \/ entry'[x].state = entry[x].state
                         \/ entry'[x].state \notin {"uploading", "sealed"}
                         \/ x \notin used
    BY <1>0, <1>3 DEF NoEntry
  <2> QED
    BY <1>0, <2>1, HoldersStay DEF BlobInv
<1>8. Quota'
  <2>1. CASE entry' = Without(entry, Purged, NoEntry)
    BY <2>1, QuotaStays DEF BlobInv, Without, Active, NoEntry
  <2>2. CASE entry' # Without(entry, Purged, NoEntry)
    BY <2>2, <1>0, <1>1, QuotaTaken DEF BlobInv
  <2> QED
    BY <2>1, <2>2
<1> QED
  BY <1>5, <1>6, <1>7, <1>8 DEF BlobInv

LEMMA StoreKeeps == ASSUME BlobInv, NEW b \in Blobs, NEW o \in Turns, store_artifact(b, o) PROVE BlobInv'
<1> PICK new : new = Entry(b, o, "artifact", "sealed", Len(Whole), Whole)
  OBVIOUS
<1>0. /\ b \notin used /\ used' = used \cup {b} /\ UNCHANGED <<lapsed, call, page, applied, faults, restarts>>
      /\ usage(Without(entry, Purged, NoEntry), o) < OwnerLimit
      /\ entry' = [Without(entry, Purged, NoEntry) EXCEPT ![b] = new]
      /\ meta' = [Without(meta, Purged, NoEntry) EXCEPT ![b] = new]
      /\ file' = [Without(file, Purged, NoFile) EXCEPT ![b] = Whole]
  BY DEF store_artifact, Unused, NoFault
<1>1. new \in BlobEntry /\ new.state = "sealed" /\ new.owner = o /\ new.received = 2
  BY WholeIs DEF Entry, BlobEntry, BlobState, Purposes
<1>2. entry[b] = NoEntry /\ applied[b] = <<>>
  BY <1>0 DEF BlobInv, BlobSound
<1>3. \A x \in Blobs \ {b} :
        \/ entry'[x] = entry[x] /\ meta'[x] = meta[x] /\ file'[x] = file[x]
        \/ entry'[x] = NoEntry /\ meta'[x] = NoEntry /\ file'[x] = NoFile
  BY <1>0 DEF Without
<1>4. entry'[b] = new /\ meta'[b] = new /\ file'[b] = Whole
  BY <1>0 DEF Without
<1>5. BlobShapes'
  BY <1>0, <1>1, WholeIs DEF BlobInv, BlobShapes, Without
<1>6. ASSUME NEW x \in Blobs PROVE BlobSound(x)'
  <2>1. CASE x # b
    BY <2>1, <1>0, <1>3, BlobStays, BlobGone DEF BlobInv
  <2>2. CASE x = b
    BY <2>2, <1>0, <1>1, <1>2, <1>4 DEF BlobSound, BlobInv, BlobShapes
  <2> QED
    BY <2>1, <2>2
<1>7. (\A c \in Calls : CallSound(c)') /\ OneHolder' /\ PageSound'
  <2>1. \A x \in Blobs : \/ entry'[x].state = entry[x].state
                         \/ entry'[x].state \notin {"uploading", "sealed"}
                         \/ x \notin used
    BY <1>0, <1>3 DEF NoEntry
  <2> QED
    BY <1>0, <2>1, HoldersStay DEF BlobInv
<1>8. Quota'
  BY <1>0, <1>1, QuotaTaken DEF BlobInv
<1> QED
  BY <1>5, <1>6, <1>7, <1>8 DEF BlobInv

\* Entries that go: what is purged, a task's, all.
LEMMA DropKeeps == ASSUME BlobInv, NEW S \in SUBSET Blobs, Drop(S) PROVE BlobInv'
<1>0. /\ UNCHANGED <<lapsed, call, page, used, applied, faults, restarts>>
      /\ entry' = Without(entry, S, NoEntry) /\ meta' = Without(meta, S, NoEntry) /\ file' = Without(file, S, NoFile)
  BY DEF Drop, NoFault
<1>3. \A x \in Blobs :
        \/ entry'[x] = entry[x] /\ meta'[x] = meta[x] /\ file'[x] = file[x]
        \/ entry'[x] = NoEntry /\ meta'[x] = NoEntry /\ file'[x] = NoFile
  BY <1>0 DEF Without
<1>5. BlobShapes'
  BY <1>0 DEF BlobInv, BlobShapes, Without
<1>6. ASSUME NEW x \in Blobs PROVE BlobSound(x)'
  BY <1>0, <1>3, BlobStays, BlobGone DEF BlobInv
<1>7. (\A c \in Calls : CallSound(c)') /\ OneHolder' /\ PageSound'
  <2>1. \A x \in Blobs : \/ entry'[x].state = entry[x].state
                         \/ entry'[x].state \notin {"uploading", "sealed"}
    BY <1>3 DEF NoEntry
  <2> QED
    BY <1>0, <2>1, HoldersStay DEF BlobInv
<1>8. Quota'
  BY <1>3, QuotaStays DEF BlobInv, Active, NoEntry
<1> QED
  BY <1>5, <1>6, <1>7, <1>8 DEF BlobInv

\* One entry becomes aborted.
LEMMA AbortKeeps == ASSUME BlobInv, NEW b \in Blobs, abort(b) \/ touch_expired(b) PROVE BlobInv'
<1>0. /\ UNCHANGED <<lapsed, call, page, used, applied, faults, restarts>> /\ entry[b] # NoEntry
      /\ entry' = [entry EXCEPT ![b].state = "aborted"] /\ file' = [file EXCEPT ![b] = NoFile]
      /\ \/ meta' = [meta EXCEPT ![b] = NoEntry]
         \/ b \in lapsed /\ meta' = meta
  BY DEF abort, touch_expired, NoFault, IsExpired, Known, Usable
<1>1. entry'[b].state = "aborted" /\ entry'[b] \in BlobEntry /\ file'[b] = NoFile /\ b \in used
  <2>1. PICK new : new = [entry[b] EXCEPT !.state = "aborted"]
    OBVIOUS
  <2>2. entry[b] \in BlobEntry /\ b \in used
    BY <1>0 DEF BlobInv, BlobShapes, BlobSound
  <2>3. new \in BlobEntry /\ new.state = "aborted"
    BY <2>1, <2>2 DEF BlobEntry, BlobState
  <2>4. entry' = [entry EXCEPT ![b] = new]
    BY <1>0, <2>1
  <2> QED
    BY <2>2, <2>3, <2>4, <1>0 DEF BlobInv, BlobShapes
<1>3. \A x \in Blobs \ {b} : entry'[x] = entry[x] /\ meta'[x] = meta[x] /\ file'[x] = file[x]
  BY <1>0 DEF BlobInv, BlobShapes
<1>5. BlobShapes'
  BY <1>0, <1>1 DEF BlobInv, BlobShapes
<1>6. ASSUME NEW x \in Blobs PROVE BlobSound(x)'
  <2>1. CASE x # b
    BY <2>1, <1>0, <1>3, BlobStays DEF BlobInv
  <2>2. CASE x = b
    <3>1. meta'[b] = NoEntry \/ b \in lapsed
      BY <1>0 DEF BlobInv, BlobShapes
    <3> QED
      BY <2>2, <3>1, <1>0, <1>1 DEF BlobSound, BlobInv, NoEntry
  <2> QED
    BY <2>1, <2>2
<1>7. (\A c \in Calls : CallSound(c)') /\ OneHolder' /\ PageSound'
  <2>1. \A x \in Blobs : \/ entry'[x].state = entry[x].state
                         \/ entry'[x].state \notin {"uploading", "sealed"}
    BY <1>1, <1>3
  <2> QED
    BY <1>0, <2>1, HoldersStay DEF BlobInv
<1>8. Quota'
  BY <1>1, <1>3, QuotaStays DEF BlobInv, Active
<1> QED
  BY <1>5, <1>6, <1>7, <1>8 DEF BlobInv

\* A chunk, a seal.
LEMMA UploadKeeps == ASSUME BlobInv, NEW b \in Blobs, write_chunk(b) \/ seal(b) PROVE BlobInv'
<1>0. /\ UNCHANGED <<lapsed, call, page, used, applied, restarts>> /\ faults' \in 0..MaxFaults
      /\ entry[b].state = "uploading" /\ entry[b] \in BlobEntry
  BY BlobAssumption DEF write_chunk, seal, NoFault, Fault, BlobInv, BlobShapes, NoEntry
<1>1. /\ \A x \in Blobs \ {b} : entry'[x] = entry[x] /\ meta'[x] = meta[x] /\ file'[x] = file[x]
      /\ entry' \in [Blobs -> BlobEntry \cup {NoEntry}] /\ meta' \in [Blobs -> BlobEntry \cup {NoEntry}]
      /\ file' \in [Blobs -> Seq(BlobBytes) \cup {NoFile}]
      /\ entry'[b].owner = entry[b].owner /\ entry'[b] # NoEntry
      /\ meta'[b] \in {meta[b], entry'[b]}
      /\ \/ entry'[b].state = "uploading"
         \/ entry'[b].state = "sealed" /\ file'[b] = Whole /\ entry'[b].received = 2
  <2>1. CASE write_chunk(b)
    <3>1. PICK n : n = entry[b].received + 1
      OBVIOUS
    <3>2. PICK new : new = [entry[b] EXCEPT !.received = n]
      OBVIOUS
    <3>3. n \in 1..2 /\ file[b] # NoFile
      BY <2>1, <3>1, <1>0, WholeIs DEF write_chunk, BlobEntry
    <3>4. new \in BlobEntry /\ new.state = "uploading" /\ new.owner = entry[b].owner
      BY <3>2, <3>3, <1>0, WholeIs DEF BlobEntry
    <3>5. Append(file[b], Whole[n]) \in Seq(BlobBytes) /\ Append(file[b], Torn) \in Seq(BlobBytes)
      <4>1. file[b] \in Seq(BlobBytes)
        BY <3>3 DEF BlobInv, BlobShapes
      <4>2. Whole[n] \in BlobBytes /\ Torn \in BlobBytes
        BY <3>3 DEF Whole, BlobBytes
      <4> QED
        BY <4>1, <4>2
    <3>6. \/ /\ file' = [file EXCEPT ![b] = Append(@, Whole[n])]
             /\ entry' = [entry EXCEPT ![b] = new]
             /\ meta' \in {meta, [meta EXCEPT ![b] = new]}
          \/ /\ file' = [file EXCEPT ![b] = Append(@, Torn)]
             /\ UNCHANGED <<entry, meta>>
      BY <2>1, <3>1, <3>2 DEF write_chunk
    <3>7. /\ entry \in [Blobs -> BlobEntry \cup {NoEntry}] /\ meta \in [Blobs -> BlobEntry \cup {NoEntry}]
          /\ file \in [Blobs -> Seq(BlobBytes) \cup {NoFile}] /\ new \in BlobEntry \cup {NoEntry}
          /\ Append(file[b], Whole[n]) \in Seq(BlobBytes) \cup {NoFile} /\ Append(file[b], Torn) \in Seq(BlobBytes) \cup {NoFile}
      BY <3>4, <3>5 DEF BlobInv, BlobShapes
    <3>8. CASE /\ file' = [file EXCEPT ![b] = Append(@, Whole[n])] /\ entry' = [entry EXCEPT ![b] = new]
               /\ meta' \in {meta, [meta EXCEPT ![b] = new]}
      <4>1. /\ file' \in [Blobs -> Seq(BlobBytes) \cup {NoFile}] /\ \A x \in Blobs : x # b => file'[x] = file[x]
        BY <3>7, <3>8, SetRow
      <4>2. /\ entry' \in [Blobs -> BlobEntry \cup {NoEntry}] /\ entry'[b] = new
            /\ \A x \in Blobs : x # b => entry'[x] = entry[x]
        BY <3>7, <3>8, SetRow
      <4>3. /\ meta' \in [Blobs -> BlobEntry \cup {NoEntry}] /\ meta'[b] \in {meta[b], new}
            /\ \A x \in Blobs : x # b => meta'[x] = meta[x]
        BY <3>7, <3>8, SetRow
      <4> QED
        BY <4>1, <4>2, <4>3, <3>4 DEF NoEntry
    <3>9. CASE file' = [file EXCEPT ![b] = Append(@, Torn)] /\ UNCHANGED <<entry, meta>>
      <4>1. /\ file' \in [Blobs -> Seq(BlobBytes) \cup {NoFile}] /\ \A x \in Blobs : x # b => file'[x] = file[x]
        BY <3>7, <3>9, SetRow
      <4> QED
        BY <4>1, <3>7, <3>9, <1>0 DEF NoEntry
    <3> QED
      BY <3>6, <3>8, <3>9
  <2>2. CASE seal(b)
    <3>1. PICK new : new = [entry[b] EXCEPT !.state = "sealed", !.sha256 = Whole]
      OBVIOUS
    <3>2. /\ entry[b].received = 2 /\ file[b] = Whole /\ entry' = [entry EXCEPT ![b] = new]
          /\ meta' \in {meta, [meta EXCEPT ![b] = new]} /\ UNCHANGED file
      BY <2>2, <3>1, WholeIs DEF seal, Sealable
    <3>3. new \in BlobEntry /\ new.state = "sealed" /\ new.owner = entry[b].owner /\ new.received = 2
      BY <3>1, <3>2, <1>0 DEF BlobEntry, BlobState
    <3>4. /\ entry \in [Blobs -> BlobEntry \cup {NoEntry}] /\ meta \in [Blobs -> BlobEntry \cup {NoEntry}]
          /\ file \in [Blobs -> Seq(BlobBytes) \cup {NoFile}] /\ new \in BlobEntry \cup {NoEntry}
      BY <3>3 DEF BlobInv, BlobShapes
    <3>5. /\ entry' \in [Blobs -> BlobEntry \cup {NoEntry}] /\ entry'[b] = new
          /\ \A x \in Blobs : x # b => entry'[x] = entry[x]
      BY <3>2, <3>4, SetRow
    <3>6. /\ meta' \in [Blobs -> BlobEntry \cup {NoEntry}] /\ meta'[b] \in {meta[b], new}
          /\ \A x \in Blobs : x # b => meta'[x] = meta[x]
      BY <3>2, <3>4, SetRow
    <3> QED
      BY <3>2, <3>3, <3>4, <3>5, <3>6 DEF NoEntry
  <2> QED
    BY <2>1, <2>2
<1>2. b \in used /\ Len(applied[b]) <= restarts
  BY <1>0 DEF BlobInv, BlobSound, NoEntry
<1>5. BlobShapes'
  BY <1>0, <1>1 DEF BlobInv, BlobShapes
<1>6. ASSUME NEW x \in Blobs PROVE BlobSound(x)'
  <2>1. CASE x # b
    BY <2>1, <1>0, <1>1, BlobStays DEF BlobInv
  <2>2. CASE x = b
    <3>1. \/ meta'[b] = entry'[b]
          \/ meta'[b] = meta[b] /\ (meta[b].state # "none" /\ b \notin lapsed =>
                                      meta[b].state \notin {"sealed", "consuming"} /\ entry[b].owner = meta[b].owner)
      BY <1>0, <1>1 DEF BlobInv, BlobSound
    <3> QED
      BY <2>2, <3>1, <1>0, <1>1, <1>2 DEF BlobInv, BlobSound
  <2> QED
    BY <2>1, <2>2
<1>7. (\A c \in Calls : CallSound(c)') /\ OneHolder' /\ PageSound'
  <2>1. \A c \in Calls : Holds(c) => call[c].blob # b
    BY <1>0 DEF BlobInv, CallSound
  <2>2. \A x \in Blobs : \/ entry'[x].state = entry[x].state
                         \/ entry'[x].state = "sealed" /\ \A c \in Calls : Holds(c) => call[c].blob # x
    <3> TAKE x \in Blobs
    <3>1. CASE x = b
      BY <3>1, <1>0, <1>1, <2>1
    <3>2. CASE x # b
      <4>1. x \in Blobs \ {b}
        BY <3>2
      <4>2. entry'[x] = entry[x]
        BY <4>1, <1>1, Zenon
      <4> QED
        BY <4>2
    <3> QED
      BY <3>1, <3>2
  <2> QED
    BY <1>0, <2>2, HoldersStay DEF BlobInv
<1>8. Quota'
  BY <1>0, <1>1, QuotaStays DEF BlobInv, Active
<1> QED
  BY <1>5, <1>6, <1>7, <1>8 DEF BlobInv

LEMMA LeaseKeeps == ASSUME BlobInv, NEW c \in Calls, NEW b \in Blobs, lease(c, b) PROVE BlobInv'
<1> PICK new : new = [entry[b] EXCEPT !.state = "consuming"]
  OBVIOUS
<1>0. /\ UNCHANGED <<lapsed, page, used, applied, restarts, file>> /\ faults' \in 0..MaxFaults
      /\ call[c] = Idle /\ entry[b].state = "sealed" /\ entry[b] \in BlobEntry
      /\ entry' = [entry EXCEPT ![b] = new]
      /\ \/ meta' = [meta EXCEPT ![b] = new] /\ call' = [call EXCEPT ![c] = [blob |-> b, step |-> "leased"]]
         \/ UNCHANGED <<meta, call>>
  BY BlobAssumption DEF lease, Leasable, NoFault, Fault, BlobInv, BlobShapes, NoEntry
<1>1. /\ file[b] = Whole /\ entry[b].received = 2 /\ b \in used /\ Len(applied[b]) <= restarts
      /\ (meta[b].state # "none" /\ b \notin lapsed => entry[b].owner = meta[b].owner
              /\ (meta[b].state \in {"sealed", "consuming"} => meta[b].received = 2))
  BY <1>0 DEF BlobInv, BlobSound, NoEntry
<1>2. new \in BlobEntry /\ new.state = "consuming" /\ new.owner = entry[b].owner /\ new.received = 2
  BY <1>0, <1>1 DEF BlobEntry, BlobState
<1>3. /\ \A x \in Blobs \ {b} : entry'[x] = entry[x] /\ meta'[x] = meta[x] /\ file'[x] = file[x]
      /\ entry'[b] = new /\ meta'[b] \in {meta[b], new}
  BY <1>0 DEF BlobInv, BlobShapes
<1>4. ~Holds(c) /\ \A d \in Calls : Holds(d) => call[d].blob # b
  BY <1>0, CallStates DEF BlobInv, CallSound
<1>5. BlobShapes'
  <2>1. /\ entry \in [Blobs -> BlobEntry \cup {NoEntry}] /\ meta \in [Blobs -> BlobEntry \cup {NoEntry}]
        /\ new \in BlobEntry \cup {NoEntry}
    BY <1>2 DEF BlobInv, BlobShapes
  <2>2. entry' \in [Blobs -> BlobEntry \cup {NoEntry}] /\ meta' \in [Blobs -> BlobEntry \cup {NoEntry}]
    BY <2>1, <1>0, SetRow, SMTT(20)
  <2>3. call' \in [Calls -> [blob : Blobs, step : {"leased", "written", "failed"}] \cup {Idle}]
    <3>1. PICK row : row = [blob |-> b, step |-> "leased"]
      OBVIOUS
    <3>2. row \in [blob : Blobs, step : {"leased", "written", "failed"}] \cup {Idle}
      BY <3>1
    <3>3. call \in [Calls -> [blob : Blobs, step : {"leased", "written", "failed"}] \cup {Idle}]
      BY DEF BlobInv, BlobShapes
    <3>4. call' = [call EXCEPT ![c] = row] \/ call' = call
      BY <1>0, <3>1
    <3> QED
      BY <3>2, <3>3, <3>4
  <2> QED
    BY <2>2, <2>3, <1>0 DEF BlobInv, BlobShapes
<1>6. ASSUME NEW x \in Blobs PROVE BlobSound(x)'
  <2>1. CASE x # b
    BY <2>1, <1>0, <1>3, BlobStays DEF BlobInv
  <2>2. CASE x = b
    <3>1. BlobSound(b) /\ entry'[b].state = "consuming" /\ entry'[b].owner = entry[b].owner /\ entry'[b].received = 2
      BY <1>2, <1>3 DEF BlobInv
    <3>2. /\ meta'[b].state # "none" /\ b \notin lapsed =>
               /\ entry'[b].owner = meta'[b].owner
               /\ meta'[b].state \in {"sealed", "consuming"} => meta'[b].received = 2
      <4>1. CASE meta'[b] = meta[b]
        BY <4>1, <3>1, <1>1
      <4>2. CASE meta'[b] = new
        BY <4>2, <1>2, <3>1
      <4> QED
        BY <4>1, <4>2, <1>3
    <3>3. file'[b] = Whole /\ applied'[b] = applied[b] /\ lapsed' = lapsed /\ used' = used /\ restarts' = restarts
      BY <1>0, <1>1
    <3>4. \A i \in DOMAIN applied[b] : applied[b][i] = Whole
      BY <3>1 DEF BlobSound
    <3>5. Len(applied[b]) <= restarts + 1
      BY <3>1 DEF BlobSound
    <3> QED
      BY <2>2, <3>1, <3>2, <3>3, <3>4, <3>5, <1>1 DEF BlobSound
  <2> QED
    BY <2>1, <2>2
<1>7. \A d \in Calls : d # c => call'[d] = call[d] /\ (Holds(d)' <=> Holds(d))
  BY <1>0 DEF BlobInv, BlobShapes, Holds
<1>8. Holds(c)' => call'[c].blob = b
  BY <1>0, <1>4 DEF BlobInv, BlobShapes, Holds
<1>9. ASSUME NEW d \in Calls PROVE CallSound(d)'
  <2>1. CASE d = c
    BY <2>1, <1>0, <1>1, <1>2, <1>3, <1>8 DEF CallSound
  <2>2. CASE d # c
    BY <2>2, <1>0, <1>3, <1>4, <1>7, CallStates DEF BlobInv, CallSound
  <2> QED
    BY <2>1, <2>2
<1>10. OneHolder'
  BY <1>4, <1>7, <1>8 DEF BlobInv, OneHolder
<1>11. PageSound'
  BY <1>0, <1>2, <1>3 DEF BlobInv, PageSound, PageIntact
<1>12. Quota'
  BY <1>0, <1>2, <1>3, QuotaStays DEF BlobInv, Active
<1> QED
  BY <1>5, <1>6, <1>9, <1>10, <1>11, <1>12 DEF BlobInv

\* What is behind a lease is the whole blob, or nothing.
LEMMA BehindLease ==
  ASSUME BlobInv, NEW b \in Blobs, b \in used, entry[b].state # "uploading"
  PROVE  file[b] \in {Whole, NoFile}
  BY EntryStates DEF BlobInv, BlobSound, BlobState

LEMMA TargetKeeps == ASSUME BlobInv, NEW c \in Calls, write_target(c) \/ register_fails(c) PROVE BlobInv'
<1> PICK b : b = call[c].blob
  OBVIOUS
<1>0. /\ UNCHANGED <<entry, meta, file, lapsed, page, used, restarts>> /\ faults' \in 0..MaxFaults
      /\ \/ /\ call[c].step = "leased" /\ file[b] # NoFile
            /\ applied' = [applied EXCEPT ![b] = Append(@, file[b])]
            /\ call' = [call EXCEPT ![c].step = "written"]
         \/ call[c].step = "leased" /\ call' = [call EXCEPT ![c].step = "failed"] /\ UNCHANGED applied
         \/ /\ call[c].step = "written"
            /\ applied' = [applied EXCEPT ![b] = SubSeq(@, 1, Len(@) - 1)]
            /\ call' = [call EXCEPT ![c].step = "failed"]
  <2>1. faults \in 0..MaxFaults /\ MaxFaults \in Nat
    BY BlobAssumption DEF BlobInv, BlobShapes
  <2>2. CASE write_target(c)
    <3>1. UNCHANGED <<entry, meta, file, lapsed, page, used>> /\ UNCHANGED <<faults, restarts>> /\ call[c].step = "leased"
      BY <2>2 DEF write_target, NoFault
    <3>2. \/ /\ file[b] # NoFile
             /\ applied' = [applied EXCEPT ![b] = Append(@, file[b])]
             /\ call' = [call EXCEPT ![c].step = "written"]
          \/ call' = [call EXCEPT ![c].step = "failed"] /\ UNCHANGED applied
      BY <2>2 DEF write_target
    <3> QED
      BY <2>1, <3>1, <3>2
  <2>3. CASE register_fails(c)
    <3>1. /\ UNCHANGED <<entry, meta, file, lapsed, page, used, restarts>> /\ faults' = faults + 1 /\ faults < MaxFaults
          /\ call[c].step = "written"
          /\ applied' = [applied EXCEPT ![b] = SubSeq(@, 1, Len(@) - 1)]
          /\ call' = [call EXCEPT ![c].step = "failed"]
      BY <2>3 DEF register_fails, Fault
    <3>2. faults' \in 0..MaxFaults
      BY ONLY <2>1, <3>1
    <3> QED
      BY <3>1, <3>2
  <2> QED
    BY <2>2, <2>3
<1>1. Holds(c) /\ b \in Blobs /\ b \in used /\ entry[b].state \notin {"uploading", "sealed"}
  BY <1>0, CallStates DEF BlobInv, CallSound, Holds, Idle
<1>2. file[b] \in {Whole, NoFile}
  BY <1>1, BehindLease
<1>3. PICK s : s = applied[b]
  OBVIOUS
<1>4. s \in Seq(Seq(BlobBytes)) /\ (\A i \in DOMAIN s : s[i] = Whole) /\ Len(s) <= restarts + 1
      /\ (call[c].step = "leased" => Len(s) <= restarts) /\ restarts \in Nat
  BY <1>1, <1>3 DEF BlobInv, BlobShapes, BlobSound, CallSound
<1>5. PICK t : t = applied'[b]
  OBVIOUS
<1>6. /\ t \in Seq(Seq(BlobBytes)) /\ (\A i \in DOMAIN t : t[i] = Whole) /\ Len(t) <= restarts + 1
      /\ call'[c].step \in {"written", "failed"} /\ (call'[c].step = "failed" => Len(t) <= restarts)
  <2>0. applied \in [Blobs -> Seq(Seq(BlobBytes))] /\ call'[c].step \in {"written", "failed"}
    BY <1>0, <1>1, CallStates DEF BlobInv, BlobShapes, Idle, Holds
  <2>1. CASE call[c].step = "leased" /\ file[b] # NoFile /\ applied' = [applied EXCEPT ![b] = Append(@, file[b])]
             /\ call' = [call EXCEPT ![c].step = "written"]
    <3>1. t = Append(s, Whole)
      BY <2>0, <2>1, <1>1, <1>2, <1>3, <1>5
    <3>2. call'[c].step = "written"
      BY <2>1, <1>1, CallStates DEF BlobInv, BlobShapes, Idle, Holds
    <3> QED
      BY <3>1, <3>2, <1>4, <2>1, WholeIs
  <2>2. CASE call[c].step = "leased" /\ UNCHANGED applied
    BY <2>0, <2>2, <1>3, <1>4, <1>5
  <2>3. CASE call[c].step = "written" /\ applied' = [applied EXCEPT ![b] = SubSeq(@, 1, Len(@) - 1)]
    <3>1. t = SubSeq(s, 1, Len(s) - 1)
      BY <2>0, <2>3, <1>1, <1>3, <1>5
    <3>2. CASE Len(s) = 0
      <4>1. s = <<>> /\ t = <<>>
        BY <3>1, <3>2, <1>4
      <4> QED
        BY <4>1, <1>4, <2>0
    <3>3. CASE Len(s) # 0
      <4>0. Len(s) - 1 \in 0..Len(s) /\ Len(s) \in Nat
        BY <3>3, <1>4
      <4>1. Len(t) = Len(s) - 1 /\ (\A i \in 1..(Len(s) - 1) : t[i] = s[i]) /\ t \in Seq(Seq(BlobBytes))
        <5>1. PICK m : m = Len(s) - 1
          OBVIOUS
        <5>2. m \in 0..Len(s) /\ t = SubSeq(s, 1, m) /\ s \in Seq(Seq(BlobBytes))
          BY <5>1, <4>0, <3>1, <1>4
        <5>3. t \in Seq(Seq(BlobBytes)) /\ Len(t) = m /\ \A i \in 1..m : t[i] = s[i]
          BY ONLY <5>2, <4>0, SubSeqProperties
        <5> QED
          BY <5>1, <5>3
      <4>2. Len(t) <= restarts /\ Len(t) \in Nat
        BY <4>1, <1>4, <3>3
      <4>3. \A i \in DOMAIN t : t[i] = Whole
        <5>1. DOMAIN t = 1..(Len(s) - 1) /\ DOMAIN s = 1..Len(s)
          BY <4>1, <1>4
        <5>2. 1..(Len(s) - 1) \subseteq 1..Len(s)
          BY <4>0
        <5> QED
          BY <5>1, <5>2, <4>1, <1>4
      <4> QED
        BY <4>1, <4>2, <4>3, <1>4, <2>0
    <3> QED
      BY <3>2, <3>3
  <2> QED
    BY <1>0, <2>1, <2>2, <2>3
<1>7. /\ \A x \in Blobs : x # b => applied'[x] = applied[x]
      /\ applied' \in [Blobs -> Seq(Seq(BlobBytes))]
  BY <1>0, <1>1, <1>5, <1>6 DEF BlobInv, BlobShapes
<1>8. /\ \A d \in Calls : d # c => call'[d] = call[d] /\ (Holds(d)' <=> Holds(d))
      /\ call'[c].blob = b
      /\ call' \in [Calls -> [blob : Blobs, step : {"leased", "written", "failed"}] \cup {Idle}]
  <2>1. PICK step \in {"written", "failed"} : call' = [call EXCEPT ![c].step = step]
    BY <1>0
  <2>2. PICK row : row = [call[c] EXCEPT !.step = step]
    OBVIOUS
  <2>3. call[c] \in [blob : Blobs, step : {"leased", "written", "failed"}]
    BY <1>1, CallStates DEF BlobInv, BlobShapes
  <2>4. row \in [blob : Blobs, step : {"leased", "written", "failed"}] /\ row.blob = b
    BY <2>2, <2>3
  <2>5. call' = [call EXCEPT ![c] = row] /\ call \in [Calls -> [blob : Blobs, step : {"leased", "written", "failed"}] \cup {Idle}]
    BY <2>1, <2>2 DEF BlobInv, BlobShapes
  <2>6. \A d \in Calls : d # c => call'[d] = call[d]
    BY <2>5
  <2> QED
    BY <2>4, <2>5, <2>6 DEF Holds
<1>9. BlobShapes'
  BY <1>0, <1>7, <1>8 DEF BlobInv, BlobShapes
<1>10. ASSUME NEW x \in Blobs PROVE BlobSound(x)'
  <2>1. CASE x # b
    BY <2>1, <1>0, <1>7, BlobStays DEF BlobInv
  <2>2. CASE x = b
    BY <2>2, <1>0, <1>1, <1>5, <1>6 DEF BlobInv, BlobSound
  <2> QED
    BY <2>1, <2>2
<1>11. ASSUME NEW d \in Calls PROVE CallSound(d)'
  <2>1. CASE d = c
    BY <2>1, <1>0, <1>1, <1>5, <1>6, <1>8 DEF CallSound
  <2>2. CASE d # c
    <3>1. Holds(d) => call[d].blob # b /\ call[d].blob \in Blobs
      BY <2>2, <1>1, CallStates DEF BlobInv, OneHolder
    <3> QED
      BY <2>2, <3>1, <1>0, <1>7, <1>8 DEF BlobInv, CallSound
  <2> QED
    BY <2>1, <2>2
<1>12. OneHolder'
  BY <1>1, <1>8 DEF BlobInv, OneHolder
<1>13. PageSound' /\ Quota'
  BY <1>0 DEF BlobInv, PageSound, PageIntact, Quota, usage
<1> QED
  BY <1>9, <1>10, <1>11, <1>12, <1>13 DEF BlobInv

LEMMA FinishUploadKeeps == ASSUME BlobInv, NEW c \in Calls, finish_consume(c) PROVE BlobInv'
<1> PICK b : b = call[c].blob
  OBVIOUS
<1>0. /\ UNCHANGED <<lapsed, page, used, applied, restarts>> /\ faults' \in 0..MaxFaults
      /\ call[c].step \in {"written", "failed"} /\ call' = [call EXCEPT ![c] = Idle]
  BY BlobAssumption DEF finish_consume, NoFault, Fault, BlobInv, BlobShapes
<1>1. Holds(c) /\ b \in Blobs /\ b \in used /\ (call[c].step = "failed" => Len(applied[b]) <= restarts)
  BY <1>0, CallStates DEF BlobInv, CallSound, Holds
<1>2. /\ \A x \in Blobs \ {b} : entry'[x] = entry[x] /\ meta'[x] = meta[x] /\ file'[x] = file[x]
      /\ entry' \in [Blobs -> BlobEntry \cup {NoEntry}] /\ meta' \in [Blobs -> BlobEntry \cup {NoEntry}]
      /\ file' \in [Blobs -> Seq(BlobBytes) \cup {NoFile}]
      /\ \/ entry'[b] = entry[b] /\ meta'[b] = meta[b] /\ file'[b] = file[b]
         \/ /\ entry[b].state = "consuming" /\ entry'[b].state = "consumed"
            /\ meta'[b] = NoEntry /\ file'[b] = NoFile
         \/ /\ call[c].step = "failed"
            /\ entry[b].state = "consuming" /\ entry'[b].state = "sealed" /\ file'[b] = file[b]
            /\ entry'[b].owner = entry[b].owner /\ entry'[b].received = entry[b].received
            /\ meta'[b] \in {meta[b], entry'[b]}
  <2>1. CASE ~Known(b) \/ entry[b].state # "consuming"
    <3>1. UNCHANGED <<entry, meta, file>>
      BY <2>1 DEF finish_consume
    <3> QED
      BY <3>1 DEF BlobInv, BlobShapes
  <2>2. CASE Known(b) /\ entry[b].state = "consuming"
    <3>0. entry[b] \in BlobEntry
      BY <2>2, <1>1, EntryStates DEF BlobInv, Known
    <3>1. CASE call[c].step = "written"
      <4>1. /\ entry' = [entry EXCEPT ![b].state = "consumed"] /\ meta' = [meta EXCEPT ![b] = NoEntry]
            /\ file' = [file EXCEPT ![b] = NoFile]
        BY <2>2, <3>1 DEF finish_consume
      <4> QED
        BY <4>1, <3>0, <2>2, <1>1 DEF BlobInv, BlobShapes, BlobEntry, BlobState
    <3>2. CASE call[c].step # "written"
      <4>1. PICK new : new = [entry[b] EXCEPT !.state = "sealed"]
        OBVIOUS
      <4>2. /\ entry' = [entry EXCEPT ![b] = new] /\ meta' \in {meta, [meta EXCEPT ![b] = new]} /\ UNCHANGED file
        BY <4>1, <2>2, <3>2 DEF finish_consume
      <4>3. new \in BlobEntry /\ new.state = "sealed" /\ new.owner = entry[b].owner /\ new.received = entry[b].received
        BY <4>1, <3>0 DEF BlobEntry, BlobState
      <4>4. /\ entry \in [Blobs -> BlobEntry \cup {NoEntry}] /\ meta \in [Blobs -> BlobEntry \cup {NoEntry}]
            /\ file \in [Blobs -> Seq(BlobBytes) \cup {NoFile}]
        BY DEF BlobInv, BlobShapes
      <4>5. /\ entry' \in [Blobs -> BlobEntry \cup {NoEntry}] /\ meta' \in [Blobs -> BlobEntry \cup {NoEntry}]
            /\ \A x \in Blobs \ {b} : entry'[x] = entry[x] /\ meta'[x] = meta[x]
            /\ entry'[b] = new /\ meta'[b] \in {meta[b], new}
        BY ONLY <4>2, <4>3, <4>4, <1>1
      <4>6. call[c].step = "failed"
        BY <1>0, <3>2
      <4> QED
        BY ONLY <4>2, <4>3, <4>4, <4>5, <4>6, <2>2
    <3> QED
      BY <3>1, <3>2
  <2> QED
    BY <2>1, <2>2
<1>3. \A d \in Calls : (Holds(d)' => d # c) /\ (d # c => call'[d] = call[d] /\ (Holds(d)' <=> Holds(d)))
  BY <1>0 DEF BlobInv, BlobShapes, Holds, Idle
<1>4. BlobShapes'
  <2>1. call' \in [Calls -> [blob : Blobs, step : {"leased", "written", "failed"}] \cup {Idle}]
    BY <1>0 DEF BlobInv, BlobShapes
  <2> QED
    BY <2>1, <1>0, <1>2 DEF BlobInv, BlobShapes
<1>5. ASSUME NEW x \in Blobs PROVE BlobSound(x)'
  <2>1. CASE x # b \/ (entry'[b] = entry[b] /\ meta'[b] = meta[b] /\ file'[b] = file[b])
    BY <2>1, <1>0, <1>2, BlobStays DEF BlobInv
  <2>2. CASE x = b /\ entry'[b].state = "consumed" /\ meta'[b] = NoEntry /\ file'[b] = NoFile
    BY <2>2, <1>0, <1>1 DEF BlobInv, BlobSound, NoEntry
  <2>3. CASE x = b /\ call[c].step = "failed" /\ entry[b].state = "consuming" /\ entry'[b].state = "sealed" /\ file'[b] = file[b]
             /\ entry'[b].owner = entry[b].owner /\ entry'[b].received = entry[b].received
             /\ meta'[b] \in {meta[b], entry'[b]}
    <3>1. /\ file[b] = Whole /\ entry[b].received = 2
          /\ (meta[b].state # "none" /\ b \notin lapsed => entry[b].owner = meta[b].owner
                /\ (meta[b].state \in {"sealed", "consuming"} => meta[b].received = 2))
          /\ (\A i \in DOMAIN applied[b] : applied[b][i] = Whole) /\ Len(applied[b]) <= restarts + 1
      BY <2>3, <1>1 DEF BlobInv, BlobSound
    <3> QED
      BY <2>3, <3>1, <1>0, <1>1 DEF BlobSound
  <2> QED
    BY <1>2, <2>1, <2>2, <2>3
<1>6. ASSUME NEW d \in Calls PROVE CallSound(d)'
  <2> SUFFICES ASSUME Holds(d)' PROVE CallSound(d)'
    BY DEF CallSound
  <2>1. d # c /\ Holds(d) /\ call[d].blob # b /\ call[d].blob \in Blobs /\ call'[d] = call[d]
    BY <1>1, <1>3, CallStates DEF BlobInv, OneHolder
  <2> QED
    BY <2>1, <1>0, <1>2 DEF BlobInv, CallSound
<1>7. OneHolder'
  BY <1>3 DEF BlobInv, OneHolder
<1>8. PageSound'
  <2>1. \A x \in Blobs : entry'[x].state = "uploading" => entry[x].state = "uploading"
    BY <1>2
  <2> QED
    BY <2>1, <1>0 DEF BlobInv, PageSound, PageIntact
<1>9. Quota'
  BY <1>2, QuotaStays DEF BlobInv, Active
<1> QED
  BY <1>4, <1>5, <1>6, <1>7, <1>8, <1>9 DEF BlobInv

LEMMA ExpireKeeps == ASSUME BlobInv, NEW b \in Blobs, expire(b) PROVE BlobInv'
<1>0. /\ UNCHANGED <<entry, meta, file, call, page, used, applied, restarts>> /\ faults' \in 0..MaxFaults
      /\ lapsed' = lapsed \cup {b}
  BY BlobAssumption DEF expire, Fault, BlobInv, BlobShapes
<1>1. BlobShapes' /\ OneHolder' /\ PageSound' /\ Quota'
  BY <1>0 DEF BlobInv, BlobShapes, OneHolder, PageSound, PageIntact, Quota, usage, Holds
<1>2. ASSUME NEW x \in Blobs PROVE BlobSound(x)'
  BY <1>0, BlobStays DEF BlobInv
<1>3. ASSUME NEW d \in Calls PROVE CallSound(d)'
  BY <1>0 DEF BlobInv, CallSound, Holds
<1> QED
  BY <1>1, <1>2, <1>3 DEF BlobInv

LEMMA PageKeeps == ASSUME BlobInv, (\E b \in Blobs, o \in Turns : open_page(b, o)) \/ read_page PROVE BlobInv'
<1>0. UNCHANGED <<entry, meta, file, lapsed, call, used, applied, faults, restarts>>
  BY DEF open_page, read_page, NoFault
<1>1. page' \in [blob : Blobs \cup {NoEntry}, offset : Nat, got : Seq(Nat)] /\ PageSound'
  <2>1. ASSUME NEW b \in Blobs, NEW o \in Turns, open_page(b, o)
        PROVE  page' \in [blob : Blobs \cup {NoEntry}, offset : Nat, got : Seq(Nat)] /\ PageSound'
    <3>1. /\ entry[b].state = "sealed"
          /\ page' = [blob |-> b, offset |-> IF page.blob = b THEN page.offset + Len(page.got) ELSE 0, got |-> <<>>]
      BY <2>1 DEF open_page, Readable
    <3>2. page.offset \in Nat /\ Len(page.got) \in Nat
      BY DEF BlobInv, BlobShapes
    <3>3. b \in used
      BY <3>1 DEF BlobInv, BlobSound, NoEntry
    <3>4. page' \in [blob : Blobs \cup {NoEntry}, offset : Nat, got : Seq(Nat)]
      BY <3>1, <3>2
    <3>5. page'.blob = b /\ page'.got = <<>>
      BY <3>1
    <3> QED
      BY <3>1, <3>3, <3>4, <3>5, <1>0 DEF PageSound, PageIntact
  <2>2. ASSUME read_page PROVE page' \in [blob : Blobs \cup {NoEntry}, offset : Nat, got : Seq(Nat)] /\ PageSound'
    <3>1. CASE page' = NoPage
      BY <3>1, BlobAssumption DEF NoPage, PageSound, PageIntact
    <3>2. CASE page' # NoPage
      <4>1. PICK x : x = page.blob
        OBVIOUS
      <4>2. /\ x \in Blobs /\ file[x] # NoFile
            /\ page' = [page EXCEPT !.got = SubSeq(file[x], page.offset + 1, page.offset + 1)]
            /\ page.offset < Len(file[x])
        BY <2>2, <3>2, <4>1 DEF read_page, BlobInv, BlobShapes
      <4>3. file[x] = Whole /\ x \in used /\ entry[x].state # "uploading"
        BY <4>1, <4>2, BehindLease DEF BlobInv, PageSound
      <4>4. page.offset \in Nat /\ page \in [blob : Blobs \cup {NoEntry}, offset : Nat, got : Seq(Nat)]
        BY DEF BlobInv, BlobShapes
      <4>5. PICK g : g = SubSeq(Whole, page.offset + 1, page.offset + 1)
        OBVIOUS
      <4>6. g \in Seq(Nat)
        <5>1. Whole \in Seq(Nat) /\ page.offset + 1 \in 1..Len(Whole)
          BY <4>2, <4>3, <4>4, WholeIs DEF Whole
        <5>2. PICK n : n = page.offset + 1
          OBVIOUS
        <5>3. n \in 1..Len(Whole) /\ g = SubSeq(Whole, n, n)
          BY <5>1, <5>2, <4>5
        <5> QED
          BY ONLY <5>1, <5>3, SubSeqProperties
      <4>7. page' = [page EXCEPT !.got = g] /\ page'.blob = x /\ page'.offset = page.offset /\ page'.got = g
        BY <4>1, <4>2, <4>3, <4>4, <4>5
      <4>8. PageIntact'
        BY <4>5, <4>7 DEF PageIntact
      <4> QED
        BY <4>3, <4>4, <4>6, <4>7, <4>8, <1>0 DEF PageSound
    <3> QED
      BY <3>1, <3>2
  <2> QED
    BY <2>1, <2>2
<1>2. BlobShapes' /\ OneHolder' /\ Quota'
  BY <1>0, <1>1 DEF BlobInv, BlobShapes, OneHolder, Quota, usage, Holds
<1>3. ASSUME NEW x \in Blobs PROVE BlobSound(x)'
  BY <1>0, BlobStays DEF BlobInv
<1>4. ASSUME NEW d \in Calls PROVE CallSound(d)'
  BY <1>0 DEF BlobInv, CallSound, Holds
<1> QED
  BY <1>1, <1>2, <1>3, <1>4 DEF BlobInv

\* What a crash leaves of a blob that is not being uploaded is the file, or none.
LEMMA AfterCrash ==
  ASSUME BlobInv, NEW crashed \in CrashPoints, NEW b \in Blobs, entry[b].state \notin {"uploading", "none"}
  PROVE  crashed[1][b] \in {file[b], NoFile}
<1>1. \A x \in Blobs : file[x] = file[x] /\ (x = b => Known(b) /\ ~Unused(b))
  BY DEF BlobInv, BlobSound, Known, Unused, NoEntry
<1> QED
  BY <1>1 DEF CrashPoints, Known, BlobInv, BlobShapes

LEMMA RestartKeeps == ASSUME BlobInv, restart PROVE BlobInv'
<1>0. /\ UNCHANGED <<lapsed, used, applied>> /\ faults' \in 0..MaxFaults /\ restarts' = restarts + 1
      /\ page' = NoPage /\ call' = [c \in Calls |-> Idle]
  BY BlobAssumption DEF restart, BlobInv, BlobShapes
<1>1. PICK crashed \in CrashPoints :
        LET f == crashed[1]
            kept == {b \in Blobs : Recoverable(b, f)} IN
        /\ entry' = [b \in Blobs |-> IF b \in kept THEN RecoveredEntry(b) ELSE NoEntry]
        /\ meta' = entry'
        /\ file' = [b \in Blobs |-> IF b \in kept THEN RecoveredFile(b, f) ELSE NoFile]
  BY DEF restart
<1>2. PICK f : f = crashed[1]
  OBVIOUS
<1>3. \A b \in Blobs : f[b] \in Seq(BlobBytes) \cup {NoFile}
  <2>1. file \in [Blobs -> Seq(BlobBytes) \cup {NoFile}] /\ <<>> \in Seq(BlobBytes)
    BY DEF BlobInv, BlobShapes
  <2>2. CASE f = file
    BY <2>1, <2>2
  <2>3. ASSUME NEW b \in Blobs, file[b] # NoFile, f = [file EXCEPT ![b] = Append(@, Torn)]
        PROVE  \A x \in Blobs : f[x] \in Seq(BlobBytes) \cup {NoFile}
    <3>1. Append(file[b], Torn) \in Seq(BlobBytes)
      BY <2>1, <2>3 DEF BlobBytes
    <3> QED
      BY <3>1, <2>1, <2>3
  <2>4. ASSUME NEW b \in Blobs, f = [file EXCEPT ![b] = <<>>] \/ f = [file EXCEPT ![b] = NoFile]
        PROVE  \A x \in Blobs : f[x] \in Seq(BlobBytes) \cup {NoFile}
    BY <2>1, <2>4
  <2>5. \/ f = file
        \/ \E b \in Blobs : file[b] # NoFile /\ f = [file EXCEPT ![b] = Append(@, Torn)]
        \/ \E b \in Blobs : f = [file EXCEPT ![b] = <<>>] \/ f = [file EXCEPT ![b] = NoFile]
    <3>1. \/ crashed = <<file, meta>>
          \/ \E b \in Blobs : file[b] # NoFile /\ crashed = <<[file EXCEPT ![b] = Append(@, Torn)], meta>>
          \/ \E b \in Blobs : crashed = <<[file EXCEPT ![b] = <<>>], meta>>
          \/ \E b \in Blobs : crashed = <<[file EXCEPT ![b] = NoFile], meta>>
      BY <1>1 DEF CrashPoints
    <3>2. CASE crashed = <<file, meta>>
      BY <3>2, <1>2
    <3>3. ASSUME NEW b \in Blobs, file[b] # NoFile, crashed = <<[file EXCEPT ![b] = Append(@, Torn)], meta>>
          PROVE  f = [file EXCEPT ![b] = Append(@, Torn)]
      BY <3>3, <1>2
    <3>4. ASSUME NEW b \in Blobs, NEW x, crashed = <<[file EXCEPT ![b] = x], meta>>
          PROVE  f = [file EXCEPT ![b] = x]
      BY <3>4, <1>2
    <3> QED
      BY <3>1, <3>2, <3>3, <3>4, Zenon
  <2> QED
    BY <2>2, <2>3, <2>4, <2>5
<1>4. ASSUME NEW b \in Blobs
      PROVE  /\ meta'[b] = entry'[b] /\ entry'[b] \in BlobEntry \cup {NoEntry} /\ file'[b] \in Seq(BlobBytes) \cup {NoFile}
             /\ \/ entry'[b] = NoEntry /\ file'[b] = NoFile
                \/ /\ b \in used /\ Active(entry[b]) /\ entry'[b].owner = entry[b].owner
                   /\ \/ entry'[b].state = "uploading"
                      \/ entry'[b].state = "sealed" /\ entry'[b].received = 2 /\ file'[b] = Whole
  <2>1. CASE ~Recoverable(b, f)
    BY <2>1, <1>1, <1>2
  <2>2. CASE Recoverable(b, f)
    <3>1. /\ entry'[b] = RecoveredEntry(b) /\ meta'[b] = entry'[b] /\ file'[b] = RecoveredFile(b, f)
      BY <2>2, <1>1, <1>2
    <3>2. /\ meta[b] \in BlobEntry /\ b \notin lapsed /\ meta[b].state \in {"uploading", "sealed", "consuming"}
          /\ f[b] \in Seq(BlobBytes) /\ Len(f[b]) >= meta[b].received /\ meta[b].received \in 0..2
      BY <2>2, <1>3, EntryStates, WholeIs DEF Recoverable, IsExpired, BlobInv, BlobState, BlobEntry
    <3>3. file'[b] \in Seq(BlobBytes)
      BY <3>1, <3>2 DEF RecoveredFile
    <3>4. /\ entry[b].state \in {"uploading", "sealed", "consuming"} /\ entry[b].owner = meta[b].owner
          /\ (meta[b].state \in {"sealed", "consuming"} =>
                 entry[b].state \in {"sealed", "consuming"} /\ meta[b].received = 2)
          /\ b \in used
      BY <3>2 DEF BlobInv, BlobSound, NoEntry
    <3>5. CASE meta[b].state = "uploading"
      <4>1. entry'[b] = meta[b]
        BY <3>1, <3>5 DEF RecoveredEntry
      <4> QED
        BY <4>1, <3>1, <3>2, <3>3, <3>4, <3>5 DEF Active
    <3>6. CASE meta[b].state \in {"sealed", "consuming"}
      <4>1. file[b] = Whole
        BY <3>4, <3>6 DEF BlobInv, BlobSound
      <4>2. f[b] = Whole
        BY <4>1, <3>2, <3>4, <3>6, <1>2, AfterCrash, BlobAssumption DEF BlobBytes
      <4>3. file'[b] = Whole
        <5>1. file'[b] = SubSeq(Whole, 1, 2)
          BY <4>2, <3>1, <3>4, <3>6 DEF RecoveredFile
        <5>2. SubSeq(Whole, 1, Len(Whole)) = Whole
          BY WholeIs, SubSeqFull
        <5> QED
          BY <5>1, <5>2, WholeIs
      <4>4. entry'[b] \in BlobEntry /\ entry'[b].state = "sealed" /\ entry'[b].received = 2 /\ entry'[b].owner = entry[b].owner
        BY <3>1, <3>2, <3>4, <3>6 DEF RecoveredEntry, BlobEntry, BlobState
      <4> QED
        BY <4>3, <4>4, <3>1, <3>3, <3>4 DEF Active
    <3> QED
      BY <3>2, <3>5, <3>6
  <2> QED
    BY <2>1, <2>2
<1>5. BlobShapes'
  <2>1. entry' \in [Blobs -> BlobEntry \cup {NoEntry}] /\ meta' \in [Blobs -> BlobEntry \cup {NoEntry}]
        /\ file' \in [Blobs -> Seq(BlobBytes) \cup {NoFile}]
    <3>1. entry' = [b \in Blobs |-> entry'[b]] /\ meta' = [b \in Blobs |-> meta'[b]] /\ file' = [b \in Blobs |-> file'[b]]
      BY <1>1
    <3> QED
      BY <3>1, <1>4
  <2> QED
    BY <2>1, <1>0 DEF BlobInv, BlobShapes, NoPage
<1>6. ASSUME NEW b \in Blobs PROVE BlobSound(b)'
  <2>1. /\ \A i \in DOMAIN applied[b] : applied[b][i] = Whole
        /\ Len(applied[b]) <= restarts + 1 /\ restarts \in Nat /\ Len(applied[b]) \in Nat
        /\ b \notin used => applied[b] = <<>>
    BY DEF BlobInv, BlobSound, BlobShapes
  <2> QED
    BY <1>0, <1>4, <2>1 DEF BlobSound, NoEntry
<1>7. (\A c \in Calls : CallSound(c)') /\ OneHolder' /\ PageSound'
  BY <1>0, BlobAssumption DEF CallSound, OneHolder, Holds, Idle, PageSound, PageIntact, NoPage
<1>8. Quota'
  BY <1>4, QuotaStays DEF BlobInv, Active, NoEntry
<1> QED
  BY <1>5, <1>6, <1>7, <1>8 DEF BlobInv

LEMMA BlobsStep == BlobInv /\ [BlobNext]_blobVars => BlobInv'
<1> SUFFICES ASSUME BlobInv, [BlobNext]_blobVars PROVE BlobInv'
  OBVIOUS
<1>1. CASE UNCHANGED blobVars
  <2>1. BlobShapes' /\ OneHolder' /\ PageSound' /\ Quota'
    BY <1>1 DEF BlobInv, BlobShapes, OneHolder, PageSound, PageIntact, Quota, usage, Holds, blobVars
  <2>2. (\A b \in Blobs : BlobSound(b)') /\ (\A c \in Calls : CallSound(c)')
    BY <1>1 DEF BlobInv, BlobSound, CallSound, Holds, blobVars
  <2> QED
    BY <2>1, <2>2 DEF BlobInv
<1>2. CASE BlobNext
  <2>1. ASSUME NEW b \in Blobs, NEW o \in Turns, NEW p \in Purposes, begin(b, o, p) PROVE BlobInv'
    BY <2>1, BeginKeeps
  <2>2. ASSUME NEW b \in Blobs, NEW o \in Turns, store_artifact(b, o) PROVE BlobInv'
    BY <2>2, StoreKeeps
  <2>3. ASSUME NEW b \in Blobs, touch_expired(b) \/ abort(b) PROVE BlobInv'
    BY <2>3, AbortKeeps
  <2>4. ASSUME NEW b \in Blobs, write_chunk(b) \/ seal(b) PROVE BlobInv'
    BY <2>4, UploadKeeps
  <2>5. ASSUME NEW c \in Calls, NEW b \in Blobs, lease(c, b) PROVE BlobInv'
    BY <2>5, LeaseKeeps
  <2>6. ASSUME NEW c \in Calls, write_target(c) \/ register_fails(c) PROVE BlobInv'
    BY <2>6, TargetKeeps
  <2>7. ASSUME NEW c \in Calls, finish_consume(c) PROVE BlobInv'
    BY <2>7, FinishUploadKeeps
  <2>8. ASSUME gc \/ cleanup_all \/ \E o \in Turns : cleanup_task(TaskOf(o)) PROVE BlobInv'
    <3>1. \E S \in SUBSET Blobs : Drop(S)
      BY <2>8 DEF gc, cleanup_all, cleanup_task, Purged
    <3> QED
      BY <3>1, DropKeeps
  <2>9. ASSUME NEW b \in Blobs, expire(b) PROVE BlobInv'
    BY <2>9, ExpireKeeps
  <2>10. ASSUME (\E b \in Blobs, o \in Turns : open_page(b, o)) \/ read_page PROVE BlobInv'
    BY <2>10, PageKeeps
  <2> QED
    BY <1>2, <2>1, <2>2, <2>3, <2>4, <2>5, <2>6, <2>7, <2>8, <2>9, <2>10, RestartKeeps DEF BlobNext
<1> QED
  BY <1>1, <1>2

LEMMA BlobsHold == BlobInv => BlobTypes /\ BlobsSafe
<1> SUFFICES ASSUME BlobInv PROVE BlobTypes /\ BlobsSafe
  OBVIOUS
<1>1. BlobTypes
  BY DEF BlobInv, BlobShapes, BlobTypes
<1>2. SealedIntact
  BY DEF BlobInv, BlobSound, SealedIntact
<1>3. Exclusive
  <2> SUFFICES ASSUME NEW c \in Calls, NEW d \in Calls, call[c] # Idle, call[c].blob = call[d].blob PROVE c = d
    BY DEF Exclusive
  <2>1. Holds(c) /\ Holds(d)
    BY CallStates, BlobAssumption DEF BlobInv
  <2> QED
    BY <2>1 DEF BlobInv, OneHolder
<1>4. AppliedWhole
  <2>1. \A b \in Blobs : Len(applied[b]) \in Nat /\ restarts \in Nat
    BY DEF BlobInv, BlobShapes
  <2>2. \A b \in Blobs : Len(applied[b]) <= 1 + restarts
    BY <2>1 DEF BlobInv, BlobSound
  <2> QED
    BY <2>2 DEF BlobInv, BlobSound, AppliedWhole
<1> QED
  BY <1>1, <1>2, <1>3, <1>4 DEF BlobInv, BlobsSafe, PageSound

\* The file of a sealed blob is what its owner uploaded, it is held by one call at a time and
\* applied whole, once in a life of the host; a page of an artifact is of the sealed file; and
\* what the entries of an owner reserve stays within his limit: for any finite set of blobs and any
\* calls, failed writes, expiries and restarts.
THEOREM BlobsKept == BlobInit /\ [][BlobNext]_blobVars => [](BlobsSafe /\ BlobTypes)
<1>1. BlobInit => BlobInv
  BY BlobsStart
<1>2. BlobInv /\ [BlobNext]_blobVars => BlobInv'
  BY BlobsStep
<1>3. BlobInv => BlobsSafe /\ BlobTypes
  BY BlobsHold
<1> QED
  BY <1>1, <1>2, <1>3, PTL

----------------------------------------------------------------------------
(* TurnFileChanges: where a change that is not listed yet is under way.     *)

EventKinds == {"added", "modified", "deleted"}
FileEvents == [path : TrackedFiles, kind : EventKinds]
NativeWork == [at : {"committed"}, path : TrackedFiles, to : TrackedFiles, old : Contents, kind : ChangeKinds]
BatchKinds == [TrackedFiles -> EventKinds \cup {"none"}]

TrackShapes ==
    /\ content \in [TrackedFiles -> Contents] /\ base \in [TrackedFiles -> Contents]
    /\ tracked \in [TrackedFiles -> Records \cup {NoChange}]
    /\ watching \in BOOLEAN /\ overflow \in BOOLEAN /\ repeated \in BOOLEAN
    /\ kernel \in Seq(FileEvents) /\ channel \in Seq(FileEvents) /\ Len(channel) <= Capacity
    /\ batch \in [at : {"idle", "collecting", "captured"}, kinds : BatchKinds]
    /\ native \in NativeWork \cup {NoNative}
    /\ excused \subseteq TrackedFiles /\ steps \in 0..MaxSteps
    /\ summary.at \in {"open", "draining", "sent"}

Tells(s, f) == \E i \in DOMAIN s : s[i].path = f
TellsAfter(s, f, n) == \E i \in DOMAIN s : i > n /\ s[i].path = f
Busy == native # NoNative
Logged(f) == tracked[f] # NoChange

\* Whatever is under way says that a file is new only if it is.
NewlyAdded(f) ==
    /\ \A i \in DOMAIN kernel : kernel[i].path = f /\ kernel[i].kind = "added" => base[f] = 0
    /\ \A i \in DOMAIN channel : channel[i].path = f /\ channel[i].kind = "added" => base[f] = 0
    /\ batch.kinds[f] = "added" => base[f] = 0
    /\ Logged(f) /\ tracked[f].kind = "added" => base[f] = 0
    /\ Busy /\ native.to = f /\ native.kind = "added" => base[f] = 0

\* The record of a file is not to be dropped: it is gone, it was there, or a tool has recorded it.
Settled(f) ==
    \/ content[f] = 0 \/ base[f] # 0 \/ (Busy /\ native.to = f)
    \/ Logged(f) /\ tracked[f].origin = "nativeTool"

\* The last event of a file that is there does not say that it is gone.
LastTells(f) ==
    \/ Settled(f)
    \/ /\ batch.kinds[f] = "deleted" => Tells(channel, f) \/ Tells(kernel, f)
       /\ \A i \in DOMAIN channel : channel[i].path = f /\ channel[i].kind = "deleted" =>
             TellsAfter(channel, f, i) \/ Tells(kernel, f)
       /\ \A i \in DOMAIN kernel : kernel[i].path = f /\ kernel[i].kind = "deleted" => TellsAfter(kernel, f, i)

\* A change is listed, or something that will list it is under way.
Underway(f) ==
    content[f] # base[f] =>
        \/ Tells(channel, f) \/ Tells(kernel, f) \/ batch.kinds[f] # "none"
        \/ Logged(f) \/ (\E g \in TrackedFiles : Logged(g) /\ tracked[g].previous = f)
        \/ Busy /\ f \in {native.path, native.to}

\* Only tools move files, and what a tool removed is gone.
Tools ==
    /\ \A f \in TrackedFiles : Logged(f) /\ tracked[f].previous # "none" => tracked[f].origin = "nativeTool"
    /\ Busy => /\ native.kind = "deleted" => content[native.to] = 0 \/ native.to \in excused
               /\ native.kind = "moved" <=> native.path # native.to
Ending ==
    /\ batch.at = "idle" => batch = NoBatch
    /\ summary.at # "open" => kernel = <<>> /\ native = NoNative

FileSound(f) == f \notin excused => NewlyAdded(f) /\ (~overflow => LastTells(f) /\ Underway(f))

TrackInv == TrackShapes /\ (\A f \in TrackedFiles : FileSound(f)) /\ Tools /\ Ending /\ ChangesListed

-----------------------------------------------------------------------------
\* More events, one less.
Grown(s, n, t) ==
    /\ t \in Seq(FileEvents)
    /\ \A f : Tells(t, f) <=> Tells(s, f) \/ Tells(n, f)
    /\ \A i \in DOMAIN t : \/ i \in DOMAIN s /\ t[i] = s[i]
                           \/ \E j \in DOMAIN n : i = Len(s) + j /\ t[i] = n[j]
    /\ \A f : \A i \in DOMAIN s : TellsAfter(s, f, i) \/ Tells(n, f) => TellsAfter(t, f, i)

LEMMA EventsGrow ==
    ASSUME NEW s \in Seq(FileEvents), NEW n \in Seq(FileEvents), NEW t, t = s \o n
    PROVE  Grown(s, n, t)
<1>1. t \in Seq(FileEvents) /\ Len(t) = Len(s) + Len(n) /\ Len(s) \in Nat /\ Len(n) \in Nat
  OBVIOUS
<1>2. DOMAIN t = 1..(Len(s) + Len(n)) /\ DOMAIN s = 1..Len(s) /\ DOMAIN n = 1..Len(n)
  BY <1>1
<1>3. \A i \in DOMAIN s : i \in DOMAIN t /\ t[i] = s[i]
  BY <1>1, <1>2
<1>4. \A j \in DOMAIN n : Len(s) + j \in DOMAIN t /\ t[Len(s) + j] = n[j] /\ \A i \in DOMAIN s : Len(s) + j > i
  BY <1>1, <1>2
<1>5. ASSUME NEW i \in DOMAIN t, i \notin DOMAIN s
      PROVE  \E j \in DOMAIN n : i = Len(s) + j /\ t[i] = n[j]
  <2>1. i - Len(s) \in DOMAIN n /\ i = Len(s) + (i - Len(s))
    BY <1>1, <1>2, <1>5
  <2> QED
    BY <2>1, <1>4
<1>6. ASSUME NEW f PROVE Tells(t, f) <=> Tells(s, f) \/ Tells(n, f)
  <2>1. Tells(t, f) => Tells(s, f) \/ Tells(n, f)
    BY <1>3, <1>5 DEF Tells
  <2>2. Tells(s, f) => Tells(t, f)
    BY <1>3 DEF Tells
  <2>3. Tells(n, f) => Tells(t, f)
    BY <1>4 DEF Tells
  <2> QED
    BY <2>1, <2>2, <2>3
<1>7. ASSUME NEW f, NEW i \in DOMAIN s, TellsAfter(s, f, i) \/ Tells(n, f) PROVE TellsAfter(t, f, i)
  BY <1>3, <1>4, <1>7 DEF Tells, TellsAfter
<1> QED
  BY <1>1, <1>3, <1>5, <1>6, <1>7 DEF Grown

Shrunk(s, e, t) ==
    /\ t \in Seq(FileEvents) /\ e \in FileEvents /\ 1 \in DOMAIN s /\ s[1] = e /\ Len(t) = Len(s) - 1
    /\ \A i \in DOMAIN t : i + 1 \in DOMAIN s /\ t[i] = s[i + 1]
    /\ \A f : Tells(s, f) => Tells(t, f) \/ e.path = f
    /\ \A f : TellsAfter(s, f, 1) => Tells(t, f)
    /\ \A f : \A i \in DOMAIN t : TellsAfter(s, f, i + 1) => TellsAfter(t, f, i)

LEMMA EventsShrink ==
    ASSUME NEW s \in Seq(FileEvents), s # <<>>, NEW t, t = Tail(s), NEW e, e = Head(s)
    PROVE  Shrunk(s, e, t)
<1>1. t \in Seq(FileEvents) /\ Head(s) \in FileEvents /\ Len(s) \in Nat \ {0} /\ Len(t) = Len(s) - 1 /\ Head(s) = s[1]
  OBVIOUS
<1>2. DOMAIN s = 1..Len(s) /\ DOMAIN t = 1..(Len(s) - 1) /\ 1 \in DOMAIN s
  BY <1>1
<1>3. \A i \in DOMAIN t : i + 1 \in DOMAIN s /\ t[i] = s[i + 1] /\ i \in Nat
  BY <1>1, <1>2
<1>4. \A j \in DOMAIN s : j = 1 \/ (j - 1 \in DOMAIN t /\ t[j - 1] = s[j])
  BY <1>1, <1>2
<1>5. ASSUME NEW f, Tells(s, f) PROVE Tells(t, f) \/ Head(s).path = f
  BY <1>1, <1>4, <1>5 DEF Tells
<1>6. ASSUME NEW f, TellsAfter(s, f, 1) PROVE Tells(t, f)
  <2>1. PICK j \in DOMAIN s : j > 1 /\ s[j].path = f
    BY <1>6 DEF TellsAfter
  <2>2. j # 1
    BY <2>1
  <2> QED
    BY <2>1, <2>2, <1>4 DEF Tells
<1>7. ASSUME NEW f, NEW i \in DOMAIN t, TellsAfter(s, f, i + 1) PROVE TellsAfter(t, f, i)
  <2>1. PICK j \in DOMAIN s : j > i + 1 /\ s[j].path = f
    BY <1>7 DEF TellsAfter
  <2>2. j - 1 \in DOMAIN t /\ t[j - 1] = s[j] /\ j - 1 > i
    BY <2>1, <1>2, <1>3, <1>4
  <2> QED
    BY <2>1, <2>2 DEF TellsAfter
<1> QED
  BY <1>1, <1>2, <1>3, <1>5, <1>6, <1>7 DEF Shrunk

LEMMA TrackStarts == TrackInit => TrackInv
<1> SUFFICES ASSUME TrackInit PROVE TrackInv
  OBVIOUS
<1>1. content \in [TrackedFiles -> Contents] /\ base = content
  BY TrackAssumption DEF TrackInit, Contents
<1>2. NoBatch \in [at : {"idle", "collecting", "captured"}, kinds : BatchKinds]
  BY DEF NoBatch, BatchKinds
<1>3. \A f \in TrackedFiles : tracked[f] = NoChange /\ batch.kinds[f] = "none"
  BY DEF TrackInit, NoBatch
<1>4. TrackShapes
  <2>1. steps \in 0..MaxSteps /\ <<>> \in Seq(FileEvents) /\ Len(<<>>) <= Capacity
    BY TrackAssumption DEF TrackInit
  <2>2. tracked \in [TrackedFiles -> Records \cup {NoChange}] /\ summary.at = "open"
    BY DEF TrackInit, NoSummary
  <2> QED
    BY <1>1, <1>2, <2>1, <2>2 DEF TrackInit, TrackShapes
<1>5. \A f \in TrackedFiles : FileSound(f)
  BY <1>1, <1>3 DEF TrackInit, FileSound, NewlyAdded, LastTells, Underway, Logged, Busy
<1>6. Tools /\ Ending /\ ChangesListed
  BY <1>3 DEF TrackInit, Tools, Ending, ChangesListed, Logged, Busy, NoSummary
<1> QED
  BY <1>4, <1>5, <1>6 DEF TrackInv

\* Something changes the contents of the files of D and the system has more to tell of them.
LEMMA ChangeKeeps ==
    ASSUME TrackInv, Open, NEW D \in SUBSET TrackedFiles, NEW more \in Seq(FileEvents),
           content' \in [TrackedFiles -> Contents], \A x \in TrackedFiles \ D : content'[x] = content[x],
           UNCHANGED <<base, tracked, watching, channel, batch, overflow, repeated, summary>>,
           steps' \in 0..MaxSteps, kernel' \in {kernel, kernel \o more},
           \A i \in DOMAIN more : more[i].path \in D,
           native' \in NativeWork \cup {NoNative}, Busy => native' = native, Busy' /\ ~Busy => native'.to \in D,
           excused \subseteq excused', excused' \subseteq TrackedFiles,
           \A x \in D \ excused' :
              /\ \A i \in DOMAIN more : more[i].path = x /\ more[i].kind = "added" => base[x] = 0
              /\ Busy' /\ native'.to = x /\ native'.kind = "added" => base[x] = 0
              /\ \/ Busy' /\ x = native'.to
                 \/ Busy' /\ x = native'.path /\ content'[x] = 0
                 \/ kernel' = kernel \o more /\ Len(more) = 1 /\ more[1].path = x
                    /\ (more[1].kind = "deleted" => content'[x] = 0),
           Tools'
    PROVE  TrackInv'
<1>a. kernel \in Seq(FileEvents)
  BY DEF TrackInv, TrackShapes
<1>b. PICK k : k = kernel \o more
  OBVIOUS
<1>c. Grown(kernel, more, k)
  BY <1>a, <1>b, EventsGrow
<1>g. ASSUME kernel' = kernel \o more PROVE kernel' = k
  BY <1>b, <1>g
<1>0. kernel' \in Seq(FileEvents) /\ \A f : Tells(kernel, f) => Tells(kernel', f)
  <2>1. CASE kernel' = kernel
    BY <2>1, <1>a
  <2>2. CASE kernel' = kernel \o more
    BY <2>2, <1>c, <1>g DEF Grown
  <2> QED
    BY <2>1, <2>2
<1>u. /\ base' = base /\ tracked' = tracked /\ channel' = channel /\ batch' = batch /\ overflow' = overflow
      /\ summary' = summary /\ watching' = watching /\ repeated' = repeated
  OBVIOUS
<1>1. TrackShapes'
  BY <1>0 DEF TrackInv, TrackShapes
<1>2. ASSUME NEW x \in TrackedFiles, x \notin excused' PROVE NewlyAdded(x)'
  <2>1. NewlyAdded(x)
    BY <1>2 DEF TrackInv, FileSound
  <2>2. \A i \in DOMAIN kernel' : kernel'[i].path = x /\ kernel'[i].kind = "added" => base[x] = 0
    <3>1. CASE kernel' = kernel
      BY <3>1, <2>1 DEF NewlyAdded
    <3>2. CASE kernel' = kernel \o more
      <4> TAKE i \in DOMAIN kernel'
      <4>1. CASE i \in DOMAIN kernel /\ kernel'[i] = kernel[i]
        BY <4>1, <2>1 DEF NewlyAdded
      <4>2. CASE \E j \in DOMAIN more : i = Len(kernel) + j /\ kernel'[i] = more[j]
        BY <4>2, <1>2
      <4> QED
        BY <4>1, <4>2, <3>2, <1>c, <1>g DEF Grown
    <3> QED
      BY <3>1, <3>2
  <2>3. Busy' /\ native'.to = x /\ native'.kind = "added" => base[x] = 0
    <3>1. CASE Busy
      BY <3>1, <2>1, <1>2 DEF NewlyAdded
    <3>2. CASE ~Busy
      BY <3>2, <1>2
    <3> QED
      BY <3>1, <3>2
  <2>4. /\ \A i \in DOMAIN channel' : channel'[i].path = x /\ channel'[i].kind = "added" => base'[x] = 0
        /\ batch'.kinds[x] = "added" => base'[x] = 0
        /\ tracked'[x] # NoChange /\ tracked'[x].kind = "added" => base'[x] = 0
    BY <2>1, <1>u DEF NewlyAdded, Logged
  <2> QED
    BY <2>2, <2>3, <2>4, <1>u DEF NewlyAdded, Logged
<1>3. ASSUME NEW x \in TrackedFiles, x \notin excused', ~overflow PROVE LastTells(x)' /\ Underway(x)'
  <2>0. LastTells(x) /\ Underway(x)
    BY <1>3 DEF TrackInv, FileSound
  <2>1. CASE x \notin D
    <3>1. content'[x] = content[x] /\ (Busy => Busy' /\ native' = native) /\ (Tells(kernel, x) => Tells(kernel', x))
      BY <2>1, <1>0 DEF Busy
    <3>2. Underway(x)'
      BY <3>1, <2>0 DEF Underway, Logged
    <3>3. CASE Settled(x)
      <4>1. Settled(x)'
        BY <3>1, <3>3, <1>u DEF Settled, Logged
      <4> QED
        BY <4>1, <3>2 DEF LastTells
    <3>4. CASE ~Settled(x)
      <4>1. \A i \in DOMAIN kernel' : kernel'[i].path = x /\ kernel'[i].kind = "deleted" => TellsAfter(kernel', x, i)
        <5>1. CASE kernel' = kernel
          BY <5>1, <3>4, <2>0 DEF LastTells
        <5>2. CASE kernel' = kernel \o more
          <6> TAKE i \in DOMAIN kernel'
          <6>1. CASE i \in DOMAIN kernel /\ kernel'[i] = kernel[i]
            <7>1. kernel[i].path = x /\ kernel[i].kind = "deleted" => TellsAfter(kernel, x, i)
              BY <6>1, <3>4, <2>0 DEF LastTells
            <7> QED
              BY <7>1, <6>1, <5>2, <1>c, <1>g DEF Grown
          <6>2. CASE \E j \in DOMAIN more : i = Len(kernel) + j /\ kernel'[i] = more[j]
            BY <6>2, <2>1
          <6> QED
            BY <6>1, <6>2, <5>2, <1>c, <1>g DEF Grown
        <5> QED
          BY <5>1, <5>2
      <4> QED
        BY <4>1, <3>1, <3>2, <3>4, <2>0 DEF LastTells
    <3> QED
      BY <3>2, <3>3, <3>4
  <2>2. CASE x \in D
    <3>1. CASE Busy' /\ (x = native'.to \/ (x = native'.path /\ content'[x] = 0))
      BY <3>1 DEF Underway, LastTells, Settled
    <3>2. CASE kernel' = kernel \o more /\ Len(more) = 1 /\ more[1].path = x
               /\ (more[1].kind = "deleted" => content'[x] = 0)
      <4>1. 1 \in DOMAIN more /\ (\A j \in DOMAIN more : j = 1) /\ Tells(more, x)
        BY <3>2 DEF Tells
      <4>2. Tells(kernel', x)
        BY <3>2, <4>1, <1>c, <1>g, ZenonT(40) DEF Grown
      <4>3. Underway(x)'
        BY <4>2 DEF Underway
      <4>6. kernel' = k
        BY <3>2, <1>g
      <4>4. CASE content'[x] = 0
        BY <4>3, <4>4 DEF LastTells, Settled
      <4>5. CASE content'[x] # 0
        <5>1. \A i \in DOMAIN kernel' : kernel'[i].path = x /\ kernel'[i].kind = "deleted" => TellsAfter(kernel', x, i)
          <6> TAKE i \in DOMAIN kernel'
          <6>1. CASE i \in DOMAIN kernel
            <7>1. TellsAfter(k, x, i)
              BY <6>1, <4>1, <1>c DEF Grown
            <7> QED
              BY <7>1, <4>6
          <6>2. CASE \E j \in DOMAIN more : i = Len(kernel) + j /\ kernel'[i] = more[j]
            BY <6>2, <4>1, <4>5, <3>2
          <6> QED
            <7>1. i \in DOMAIN k
              BY <4>6
            <7>2. i \in DOMAIN kernel \/ \E j \in DOMAIN more : i = Len(kernel) + j /\ k[i] = more[j]
              BY <7>1, <1>c DEF Grown
            <7> QED
              BY <6>1, <6>2, <7>2, <4>6
        <5> QED
          BY <5>1, <4>2, <4>3 DEF LastTells
      <4> QED
        BY <4>4, <4>5
    <3> QED
      BY <2>2, <1>3, <3>1, <3>2
  <2> QED
    BY <2>1, <2>2
<1>4. \A x \in TrackedFiles : FileSound(x)'
  BY <1>2, <1>3 DEF FileSound
<1>5. Ending' /\ ChangesListed'
  BY DEF TrackInv, Ending, ChangesListed, Open
<1> QED
  BY <1>1, <1>4, <1>5 DEF TrackInv

LEMMA WriteKinds ==
    ASSUME NEW before \in Contents, NEW after \in Contents
    PROVE  /\ KindOfWrite(before, after) \in EventKinds
           /\ KindOfWrite(before, after) = "added" => before = 0
           /\ KindOfWrite(before, after) = "deleted" => after = 0
BY DEF KindOfWrite, EventKinds, Contents

LEMMA ShellKeeps ==
    ASSUME TrackInv, NEW f \in TrackedFiles, NEW v \in Contents, ShellChange(f, v)
    PROVE  TrackInv'
<1> PICK e : e = [path |-> f, kind |-> KindOfWrite(content[f], v)]
  OBVIOUS
<1>0. /\ Open /\ steps' = steps + 1 /\ steps < MaxSteps /\ v # content[f] /\ content' = [content EXCEPT ![f] = v]
      /\ kernel' = IF watching THEN kernel \o <<e>> ELSE kernel
      /\ excused' = excused \cup Recreated(f, v) \cup IF watching /\ ~Recording(f) THEN {} ELSE {f}
      /\ UNCHANGED <<base, tracked, watching, channel, batch, overflow, native, repeated, summary>>
  BY DEF ShellChange, Observed
<1>1. content \in [TrackedFiles -> Contents] /\ content[f] \in Contents /\ steps \in 0..MaxSteps /\ native \in NativeWork \cup {NoNative}
  BY DEF TrackInv, TrackShapes
<1>2. /\ e \in FileEvents /\ e.path = f /\ (e.kind = "added" => content[f] = 0) /\ (e.kind = "deleted" => v = 0)
  BY <1>1, WriteKinds DEF FileEvents
<1>3. PICK more : more = <<e>>
  OBVIOUS
<1>4. more \in Seq(FileEvents) /\ Len(more) = 1 /\ more[1] = e /\ DOMAIN more = {1}
  BY <1>2, <1>3
<1>5. content' \in [TrackedFiles -> Contents] /\ content'[f] = v /\ \A x \in TrackedFiles : x # f => content'[x] = content[x]
  BY <1>0, <1>1
<1>6. steps' \in 0..MaxSteps
  BY ONLY <1>0, <1>1, TrackAssumption
<1>7. excused \subseteq excused' /\ excused' \subseteq TrackedFiles
  BY <1>0 DEF Recreated, TrackInv, TrackShapes
<1>8. kernel' \in {kernel, kernel \o more}
  BY <1>0, <1>3
<1>9. ASSUME f \notin excused'
      PROVE  /\ watching /\ ~Recording(f) /\ (content[f] = 0 /\ v # 0 => base[f] = 0)
             /\ kernel' = kernel \o more
  BY <1>0, <1>3, <1>9 DEF Recreated
<1>10. ASSUME f \notin excused', e.kind = "added" PROVE base[f] = 0
  BY <1>9, <1>10, <1>2, <1>0
<1>11. f \notin excused' => ~(Busy /\ f \in {native.path, native.to})
  BY <1>9 DEF Recording, Busy
<1>12. Tools'
  <2>1. Busy /\ native.kind = "deleted" => content'[native.to] = 0 \/ native.to \in excused'
    <3>1. CASE Busy /\ native.to = f
      BY <3>1, <1>11
    <3>2. CASE Busy /\ native.to # f
      BY <3>2, <1>1, <1>5, <1>7 DEF TrackInv, Tools, Busy, NativeWork
    <3> QED
      BY <3>1, <3>2
  <2> QED
    BY <2>1, <1>0 DEF TrackInv, Tools, Busy, Logged
<1>13. \A x \in {f} \ excused' :
         /\ \A i \in DOMAIN more : more[i].path = x /\ more[i].kind = "added" => base[x] = 0
         /\ Busy' /\ native'.to = x /\ native'.kind = "added" => base[x] = 0
         /\ kernel' = kernel \o more /\ Len(more) = 1 /\ more[1].path = x
         /\ (more[1].kind = "deleted" => content'[x] = 0)
  BY <1>0, <1>2, <1>4, <1>5, <1>9, <1>10, <1>11 DEF Busy
<1>14. PICK D \in SUBSET TrackedFiles : D = {f}
  OBVIOUS
<1>15. \A i \in DOMAIN more : more[i].path \in D
  BY <1>2, <1>4, <1>14
<1> QED
  <2>1. /\ content' \in [TrackedFiles -> Contents] /\ \A x \in TrackedFiles \ D : content'[x] = content[x]
        /\ native' \in NativeWork \cup {NoNative} /\ (Busy => native' = native) /\ (Busy' /\ ~Busy => native'.to \in D)
    BY <1>0, <1>1, <1>5, <1>14 DEF Busy
  <2>2. \A x \in D \ excused' :
           /\ \A i \in DOMAIN more : more[i].path = x /\ more[i].kind = "added" => base[x] = 0
           /\ Busy' /\ native'.to = x /\ native'.kind = "added" => base[x] = 0
           /\ \/ Busy' /\ x = native'.to
              \/ Busy' /\ x = native'.path /\ content'[x] = 0
              \/ kernel' = kernel \o more /\ Len(more) = 1 /\ more[1].path = x
                 /\ (more[1].kind = "deleted" => content'[x] = 0)
    BY <1>13, <1>14
  <2>3. UNCHANGED <<base, tracked, watching, channel, batch, overflow, repeated, summary>> /\ Open
    BY <1>0
  <2> QED
    BY <1>4, <1>6, <1>7, <1>8, <1>12, <1>15, <2>1, <2>2, <2>3, ChangeKeeps

LEMMA NativeChangeKeeps ==
    ASSUME TrackInv, NEW f \in TrackedFiles, NEW g \in TrackedFiles, NEW v \in Contents, NativeChange(f, g, v)
    PROVE  TrackInv'
<1>0. /\ Open /\ native = NoNative /\ steps < MaxSteps /\ steps' = steps + 1
      /\ excused' = excused \cup Recreated(g, v)
      /\ UNCHANGED <<base, tracked, watching, channel, batch, overflow, repeated, summary>>
  BY DEF NativeChange
<1>1. content \in [TrackedFiles -> Contents] /\ content[f] \in Contents /\ steps \in 0..MaxSteps
  BY DEF TrackInv, TrackShapes
<1>2. steps' \in 0..MaxSteps
  BY ONLY <1>0, <1>1, TrackAssumption
<1>3. excused \subseteq excused' /\ excused' \subseteq TrackedFiles
  BY <1>0 DEF Recreated, TrackInv, TrackShapes
<1>4. g \notin excused' /\ content[g] = 0 /\ v # 0 => base[g] = 0
  BY <1>0 DEF Recreated
<1>5. ~Busy
  BY <1>0 DEF Busy
<1>6. CASE f = g /\ v # content[f]
  <2> PICK kind : kind = KindOfWrite(content[f], v)
    OBVIOUS
  <2>0. /\ kind \in EventKinds /\ (kind = "added" => content[f] = 0 /\ v # 0) /\ (kind = "deleted" => v = 0)
    BY <1>1, <1>6, WriteKinds
  <2>1. /\ content' = [content EXCEPT ![f] = v]
        /\ native' = [at |-> "committed", path |-> f, to |-> f, old |-> content[f], kind |-> kind]
        /\ Observed(<<[path |-> f, kind |-> kind]>>)
    BY <1>6 DEF NativeChange
  <2>2. native' \in NativeWork /\ native'.to = f /\ native'.path = f /\ native'.kind = kind /\ Busy'
    BY <2>0, <2>1, <1>1 DEF NativeWork, EventKinds, ChangeKinds, Busy, NoNative
  <2>3. PICK more : more = <<[path |-> f, kind |-> kind]>>
    OBVIOUS
  <2>4. more \in Seq(FileEvents) /\ DOMAIN more = {1} /\ more[1].path = f /\ more[1].kind = kind
    BY <2>0, <2>3 DEF FileEvents
  <2>5. content' \in [TrackedFiles -> Contents] /\ content'[f] = v /\ \A x \in TrackedFiles : x # f => content'[x] = content[x]
    BY <2>1, <1>1
  <2>6. kernel' \in {kernel, kernel \o more}
    BY <2>1, <2>3 DEF Observed
  <2>7. Tools'
    BY <2>0, <2>2, <2>5, <1>0 DEF TrackInv, Tools, Logged, EventKinds
  <2>8. PICK D \in SUBSET TrackedFiles : D = {f}
    OBVIOUS
  <2>9. f \notin excused' /\ kind = "added" => base[f] = 0
    BY <2>0, <1>4, <1>6
  <2>10. \A x \in D \ excused' :
          /\ \A i \in DOMAIN more : more[i].path = x /\ more[i].kind = "added" => base[x] = 0
          /\ Busy' /\ native'.to = x /\ native'.kind = "added" => base[x] = 0
          /\ \/ Busy' /\ x = native'.to
             \/ Busy' /\ x = native'.path /\ content'[x] = 0
             \/ kernel' = kernel \o more /\ Len(more) = 1 /\ more[1].path = x
                /\ (more[1].kind = "deleted" => content'[x] = 0)
    BY <2>2, <2>4, <2>8, <2>9
  <2>11. \A i \in DOMAIN more : more[i].path \in D
    BY <2>4, <2>8
  <2>12. native' \in NativeWork \cup {NoNative} /\ (Busy' /\ ~Busy => native'.to \in D)
         /\ \A x \in TrackedFiles \ D : content'[x] = content[x]
    BY <2>2, <2>5, <2>8
  <2> QED
    BY <1>0, <1>2, <1>3, <1>5, <2>4, <2>5, <2>6, <2>7, <2>10, <2>11, <2>12, ChangeKeeps
<1>7. CASE f # g
  <2>1. /\ content' = [content EXCEPT ![f] = 0, ![g] = v] /\ v = content[f] /\ v # 0
        /\ native' = [at |-> "committed", path |-> f, to |-> g, old |-> v, kind |-> "moved"]
        /\ Observed(<<[path |-> f, kind |-> "modified"], [path |-> g, kind |-> "modified"]>>)
    BY <1>7 DEF NativeChange
  <2>2. native' \in NativeWork /\ native'.to = g /\ native'.path = f /\ native'.kind = "moved" /\ Busy'
    BY <2>1, <1>1 DEF NativeWork, ChangeKinds, Busy, NoNative
  <2>3. PICK more : more = <<[path |-> f, kind |-> "modified"], [path |-> g, kind |-> "modified"]>>
    OBVIOUS
  <2>4. /\ more \in Seq(FileEvents) /\ DOMAIN more = {1, 2} /\ more[1].path = f /\ more[2].path = g
        /\ more[1].kind = "modified" /\ more[2].kind = "modified"
    BY <2>3 DEF FileEvents, EventKinds
  <2>5. content' \in [TrackedFiles -> Contents] /\ content'[f] = 0 /\ \A x \in TrackedFiles \ {f, g} : content'[x] = content[x]
    BY <2>1, <1>1, <1>7 DEF Contents
  <2>6. kernel' \in {kernel, kernel \o more}
    BY <2>1, <2>3 DEF Observed
  <2>7. Tools'
    BY <2>2, <1>0, <1>7 DEF TrackInv, Tools, Logged
  <2>8. PICK D \in SUBSET TrackedFiles : D = {f, g}
    OBVIOUS
  <2>9. \A x \in D \ excused' :
          /\ \A i \in DOMAIN more : more[i].path = x /\ more[i].kind = "added" => base[x] = 0
          /\ Busy' /\ native'.to = x /\ native'.kind = "added" => base[x] = 0
          /\ \/ Busy' /\ x = native'.to
             \/ Busy' /\ x = native'.path /\ content'[x] = 0
    BY <2>2, <2>4, <2>5, <2>8
  <2>10. \A i \in DOMAIN more : more[i].path \in D
    BY <2>4, <2>8
  <2> QED
    BY <1>0, <1>2, <1>3, <1>5, <2>2, <2>4, <2>5, <2>6, <2>7, <2>8, <2>9, <2>10, ChangeKeeps
<1> QED
  BY <1>6, <1>7 DEF NativeChange

\* A merged record: when there is none, where it comes from, when it says that a file is new.
LEMMA MergedRecord ==
    ASSUME NEW p \in Records \cup {NoChange}, NEW n \in Records, NEW m, m = Merged(p, n)
    PROVE  /\ m \in Records \cup {NoChange}
           /\ m = NoChange => p # NoChange /\ p.kind = "added" /\ n.kind = "deleted"
           /\ m # NoChange => /\ m.origin = n.origin /\ m.previous = n.previous
                              /\ m.kind = "added" => n.kind = "added" \/ (p # NoChange /\ p.kind = "added")
<1>1. NoChange \notin Records
  BY DEF NoChange, Records, ChangeKinds
<1>2. CASE p = NoChange
  BY <1>1, <1>2 DEF Merged
<1>3. CASE p # NoChange /\ p.kind = "added" /\ n.kind = "deleted"
  BY <1>3 DEF Merged
<1>4. CASE p # NoChange /\ ~(p.kind = "added" /\ n.kind = "deleted")
  <2>1. PICK k \in ChangeKinds : k = (IF p.kind = "added" THEN "added" ELSE n.kind)
    BY DEF Records, ChangeKinds
  <2>2. m = [n EXCEPT !.old = p.old, !.kind = IF p.kind = "added" THEN "added" ELSE @]
    BY <1>4 DEF Merged
  <2>3. n = [kind |-> n.kind, origin |-> n.origin, old |-> n.old, previous |-> n.previous]
    BY DEF Records
  <2>4. m = [kind |-> k, origin |-> n.origin, old |-> p.old, previous |-> n.previous]
    BY <2>1, <2>2, <2>3
  <2>5. p.old \in Contents /\ n.origin \in {"nativeTool", "shellWatcher"} /\ n.previous \in TrackedFiles \cup {"none"}
    BY <1>4 DEF Records
  <2>6. m \in Records
    BY <2>4, <2>5 DEF Records
  <2>7. m.origin = n.origin /\ m.previous = n.previous /\ m.kind = k
    BY <2>4
  <2> QED
    BY <1>1, <1>4, <2>1, <2>6, <2>7
<1> QED
  BY <1>2, <1>3, <1>4

LEMMA ListedKind ==
    ASSUME NEW r \in Records \cup {NoChange}
    PROVE  r # NoChange <=> r \in Records /\ r.kind # "none"
BY DEF Records, NoChange, ChangeKinds

LEMMA EnableKeeps == TrackInv /\ Enable => TrackInv'
BY DEF TrackInv, TrackShapes, FileSound, NewlyAdded, LastTells, Underway, Settled, Tools, Ending, ChangesListed,
       Logged, Busy, Enable

LEMMA NativeRecordKeeps == TrackInv /\ NativeRecord => TrackInv'
<1> SUFFICES ASSUME TrackInv, NativeRecord PROVE TrackInv'
  OBVIOUS
<1> PICK g : g = native.to
  OBVIOUS
<1> PICK record : record = [kind |-> native.kind, origin |-> "nativeTool", old |-> native.old,
                            previous |-> IF native.path = g THEN "none" ELSE native.path]
  OBVIOUS
<1> PICK old : old = tracked[g]
  OBVIOUS
<1> PICK new : new = Merged(old, record)
  OBVIOUS
<1>0. /\ native.at = "committed" /\ native' = NoNative /\ tracked' = [tracked EXCEPT ![g] = new]
      /\ excused' = IF old.kind = "none" \/ old.previous = "none" THEN excused ELSE excused \cup {old.previous}
      /\ content' = content /\ base' = base /\ watching' = watching /\ kernel' = kernel /\ channel' = channel
      /\ batch' = batch /\ overflow' = overflow /\ steps' = steps /\ repeated' = repeated /\ summary' = summary
  BY DEF NativeRecord
<1>1. Busy /\ native \in NativeWork /\ g \in TrackedFiles /\ ~Busy'
  BY <1>0 DEF Busy, NoNative, TrackInv, TrackShapes, NativeWork
<1>2. tracked \in [TrackedFiles -> Records \cup {NoChange}] /\ old \in Records \cup {NoChange}
  BY <1>1 DEF TrackInv, TrackShapes
<1>3. record \in Records
  BY <1>1 DEF Records, NativeWork
<1>4. record.kind = native.kind /\ record.origin = "nativeTool"
      /\ (native.path # g => record.previous = native.path)
  OBVIOUS
<1>5. /\ new \in Records \cup {NoChange}
      /\ new = NoChange => old # NoChange /\ old.kind = "added" /\ native.kind = "deleted"
      /\ new # NoChange => /\ new.origin = "nativeTool" /\ (native.path # g => new.previous = native.path)
                           /\ new.kind = "added" => native.kind = "added" \/ (old # NoChange /\ old.kind = "added")
  BY <1>2, <1>3, <1>4, MergedRecord
<1>6. tracked' \in [TrackedFiles -> Records \cup {NoChange}] /\ tracked'[g] = new
      /\ \A h \in TrackedFiles : h # g => tracked'[h] = tracked[h]
  BY <1>0, <1>1, <1>2, <1>5
<1>7. old # NoChange => old.kind # "none" /\ old.previous \in TrackedFiles \cup {"none"}
  BY <1>2, ListedKind DEF Records
<1>8. excused \subseteq excused' /\ excused' \subseteq TrackedFiles
  <2>1. old.kind # "none" => old # NoChange
    BY DEF NoChange
  <2>2. excused \subseteq TrackedFiles
    BY DEF TrackInv, TrackShapes
  <2> QED
    BY <1>0, <1>7, <2>1, <2>2
<1>9. TrackShapes'
  BY <1>0, <1>6, <1>8 DEF TrackInv, TrackShapes
<1>10. (native.kind = "deleted" => content[g] = 0 \/ g \in excused) /\ (native.kind = "moved" <=> native.path # g)
  BY <1>1 DEF TrackInv, Tools
<1>11. ASSUME NEW x \in TrackedFiles, x \notin excused' PROVE FileSound(x)'
  <2>1. x \notin excused /\ NewlyAdded(x)
    BY <1>8, <1>11 DEF TrackInv, FileSound
  <2>2. x = g => /\ old # NoChange /\ old.kind = "added" => base[x] = 0
                 /\ native.kind = "added" => base[x] = 0
                 /\ native.kind = "deleted" => content[x] = 0
    BY <2>1, <1>1, <1>10 DEF NewlyAdded, Logged
  <2>3. tracked'[x] # NoChange /\ tracked'[x].kind = "added" => base[x] = 0
    <3>1. CASE x = g
      BY <3>1, <2>2, <1>5, <1>6
    <3>2. CASE x # g
      BY <3>2, <2>1, <1>6 DEF NewlyAdded, Logged
    <3> QED
      BY <3>1, <3>2
  <2>4. NewlyAdded(x)'
    BY <2>1, <2>3, <1>0, <1>1 DEF NewlyAdded, Logged
  <2>5. ASSUME ~overflow PROVE LastTells(x)' /\ Underway(x)'
    <3>1. LastTells(x) /\ Underway(x)
      BY <2>1, <2>5 DEF TrackInv, FileSound
    <3>2. CASE x = g
      <4>1. new # NoChange \/ (content[x] = 0 /\ base[x] = 0)
        BY <3>2, <2>2, <1>5
      <4>2. Settled(x)'
        BY <4>1, <3>2, <1>0, <1>5, <1>6 DEF Settled, Logged
      <4>3. Underway(x)'
        BY <4>1, <3>2, <1>0, <1>6 DEF Underway, Logged
      <4> QED
        BY <4>2, <4>3 DEF LastTells
    <3>3. CASE x # g
      <4>1. Settled(x) => Settled(x)'
        BY <3>3, <1>0, <1>6 DEF Settled, Logged
      <4>2. LastTells(x)'
        BY <4>1, <3>1, <1>0 DEF LastTells
      <4>3. ASSUME content[x] # base[x], NEW h \in TrackedFiles, Logged(h), tracked[h].previous = x
            PROVE  Underway(x)'
        <5>1. CASE h = g
          <6>1. old # NoChange /\ old.previous = x
            BY <5>1, <4>3 DEF Logged
          <6>2. x # "none"
            BY TrackAssumption
          <6>3. x \in excused'
            BY <6>1, <6>2, <1>0, <1>7
          <6> QED
            BY <6>3, <1>11
        <5>2. CASE h # g
          <6>1. tracked'[h] # NoChange /\ tracked'[h].previous = x
            BY <5>2, <4>3, <1>6 DEF Logged
          <6> QED
            BY <6>1 DEF Underway, Logged
        <5> QED
          BY <5>1, <5>2
      <4>4. ASSUME x = native.path PROVE Underway(x)'
        <5>1. new # NoChange /\ new.previous = x
          BY <4>4, <3>3, <1>5, <1>10
        <5>2. tracked'[g] # NoChange /\ tracked'[g].previous = x
          BY <5>1, <1>6
        <5> QED
          BY <5>2, <1>1 DEF Underway, Logged
      <4>5. ASSUME content[x] # base[x] /\ (Tells(channel, x) \/ Tells(kernel, x) \/ batch.kinds[x] # "none" \/ Logged(x))
            PROVE  Underway(x)'
        BY <4>5, <3>3, <1>0, <1>6 DEF Underway, Logged
      <4>6. ASSUME content[x] = base[x] PROVE Underway(x)'
        BY <4>6, <1>0 DEF Underway
      <4>7. Underway(x)'
        BY <4>3, <4>4, <4>5, <4>6, <3>1, <3>3 DEF Underway
      <4> QED
        BY <4>2, <4>7
    <3> QED
      BY <3>2, <3>3
  <2> QED
    BY <2>4, <2>5, <1>0 DEF FileSound
<1>12. \A x \in TrackedFiles : FileSound(x)'
  BY <1>11 DEF FileSound
<1>13. Tools'
  <2>1. ASSUME NEW f \in TrackedFiles, tracked'[f] # NoChange, tracked'[f].previous # "none"
        PROVE  tracked'[f].origin = "nativeTool"
    <3>1. CASE f = g
      BY <3>1, <2>1, <1>5, <1>6
    <3>2. CASE f # g
      BY <3>2, <2>1, <1>6 DEF TrackInv, Tools, Logged
    <3> QED
      BY <3>1, <3>2
  <2> QED
    BY <2>1, <1>1 DEF Tools, Logged
<1>14. summary.at = "open" /\ Ending'
  BY <1>0, <1>1 DEF TrackInv, Ending, Busy, TrackShapes
<1>15. ChangesListed'
  BY <1>0, <1>14 DEF ChangesListed
<1> QED
  BY <1>9, <1>12, <1>13, <1>14, <1>15 DEF TrackInv

LEMMA DeliverKeeps == TrackInv /\ Deliver => TrackInv'
<1> SUFFICES ASSUME TrackInv, Deliver PROVE TrackInv'
  OBVIOUS
<1>0. /\ kernel # <<>> /\ kernel' = Tail(kernel)
      /\ \/ Len(channel) < Capacity /\ channel' = Append(channel, Head(kernel)) /\ overflow' = overflow
         \/ overflow' = TRUE /\ channel' = channel
      /\ content' = content /\ base' = base /\ tracked' = tracked /\ watching' = watching /\ batch' = batch
      /\ native' = native /\ excused' = excused /\ steps' = steps /\ repeated' = repeated /\ summary' = summary
  BY DEF Deliver
<1>1. kernel \in Seq(FileEvents) /\ channel \in Seq(FileEvents) /\ Len(channel) <= Capacity /\ overflow \in BOOLEAN
  BY DEF TrackInv, TrackShapes
<1> PICK e : e = Head(kernel)
  OBVIOUS
<1>2. /\ kernel' \in Seq(FileEvents) /\ e \in FileEvents /\ 1 \in DOMAIN kernel /\ kernel[1] = e
      /\ \A i \in DOMAIN kernel' : i + 1 \in DOMAIN kernel /\ kernel'[i] = kernel[i + 1]
      /\ \A f : Tells(kernel, f) => Tells(kernel', f) \/ e.path = f
      /\ \A f : TellsAfter(kernel, f, 1) => Tells(kernel', f)
      /\ \A f : \A i \in DOMAIN kernel' : TellsAfter(kernel, f, i + 1) => TellsAfter(kernel', f, i)
  <2>1. Shrunk(kernel, e, kernel')
    BY <1>0, <1>1, EventsShrink
  <2> QED
    BY <2>1 DEF Shrunk
<1>3. PICK more : more = <<e>>
  OBVIOUS
<1>4. more \in Seq(FileEvents) /\ DOMAIN more = {1} /\ more[1] = e
  BY <1>2, <1>3
<1>5. PICK longer : longer = channel \o more
  OBVIOUS
<1>6. Grown(channel, more, longer) /\ longer = Append(channel, e) /\ Len(longer) = Len(channel) + 1
  <2>1. Grown(channel, more, longer)
    BY <1>1, <1>4, <1>5, EventsGrow
  <2>2. longer = Append(channel, e) /\ Len(longer) = Len(channel) + 1
    BY <1>1, <1>2, <1>3, <1>5
  <2> QED
    BY <2>1, <2>2
<1>7. channel' = longer \/ channel' = channel
  BY <1>0, <1>6
<1>8. channel' \in Seq(FileEvents) /\ Len(channel') <= Capacity
  <2>1. longer \in Seq(FileEvents)
    BY <1>6 DEF Grown
  <2>2. Len(channel) \in Nat
    BY <1>1
  <2> QED
    <3>1. CASE channel' = channel
      BY <3>1, <1>1
    <3>2. CASE channel' = longer /\ Len(channel) < Capacity
      <4>1. Len(channel) + 1 <= Capacity
        BY ONLY <2>2, <3>2, TrackAssumption
      <4> QED
        BY <4>1, <3>2, <2>1, <1>6
    <3> QED
      BY <3>1, <3>2, <1>0, <1>6
<1>9. TrackShapes'
  BY <1>0, <1>2, <1>8 DEF TrackInv, TrackShapes
<1>10. ASSUME NEW x \in TrackedFiles, x \notin excused PROVE NewlyAdded(x)'
  <2>1. NewlyAdded(x)
    BY <1>10 DEF TrackInv, FileSound
  <2>2. \A i \in DOMAIN kernel' : kernel'[i].path = x /\ kernel'[i].kind = "added" => base[x] = 0
    BY <2>1, <1>2 DEF NewlyAdded
  <2>3. e.path = x /\ e.kind = "added" => base[x] = 0
    BY <2>1, <1>2 DEF NewlyAdded
  <2>4. \A i \in DOMAIN longer : longer[i].path = x /\ longer[i].kind = "added" => base[x] = 0
    <3> TAKE i \in DOMAIN longer
    <3>1. CASE i \in DOMAIN channel /\ longer[i] = channel[i]
      BY <3>1, <2>1 DEF NewlyAdded
    <3>2. CASE longer[i] = e
      BY <3>2, <2>3
    <3> QED
      BY <3>1, <3>2, <1>4, <1>6 DEF Grown
  <2>5. \A i \in DOMAIN channel' : channel'[i].path = x /\ channel'[i].kind = "added" => base[x] = 0
    BY <2>1, <2>4, <1>7 DEF NewlyAdded
  <2> QED
    BY <2>1, <2>2, <2>5, <1>0 DEF NewlyAdded, Logged, Busy
<1>11. ASSUME NEW x \in TrackedFiles, x \notin excused, ~overflow' PROVE LastTells(x)' /\ Underway(x)'
  <2>0. ~overflow /\ channel' = longer
    BY <1>0, <1>6, <1>11
  <2>1. LastTells(x) /\ Underway(x)
    BY <2>0, <1>11 DEF TrackInv, FileSound
  <2>2. Tells(more, x) <=> e.path = x
    BY <1>4 DEF Tells
  <2>3. /\ Tells(channel, x) => Tells(channel', x)
        /\ Tells(kernel, x) => Tells(kernel', x) \/ Tells(channel', x)
    BY <2>0, <2>2, <1>2, <1>6 DEF Grown
  <2>4. Underway(x)'
    BY <2>1, <2>3, <1>0 DEF Underway, Logged, Busy
  <2>5. Settled(x)' <=> Settled(x)
    BY <1>0 DEF Settled, Logged, Busy
  <2>6. ASSUME ~Settled(x)
        PROVE  /\ batch'.kinds[x] = "deleted" => Tells(channel', x) \/ Tells(kernel', x)
               /\ \A i \in DOMAIN channel' : channel'[i].path = x /\ channel'[i].kind = "deleted" =>
                     TellsAfter(channel', x, i) \/ Tells(kernel', x)
               /\ \A i \in DOMAIN kernel' : kernel'[i].path = x /\ kernel'[i].kind = "deleted" => TellsAfter(kernel', x, i)
    <3>1. /\ batch.kinds[x] = "deleted" => Tells(channel, x) \/ Tells(kernel, x)
          /\ \A i \in DOMAIN channel : channel[i].path = x /\ channel[i].kind = "deleted" =>
                TellsAfter(channel, x, i) \/ Tells(kernel, x)
          /\ \A i \in DOMAIN kernel : kernel[i].path = x /\ kernel[i].kind = "deleted" => TellsAfter(kernel, x, i)
      BY <2>1, <2>6 DEF LastTells
    <3>2. batch'.kinds[x] = "deleted" => Tells(channel', x) \/ Tells(kernel', x)
      BY <3>1, <2>3, <1>0
    <3>3. \A i \in DOMAIN kernel' : kernel'[i].path = x /\ kernel'[i].kind = "deleted" => TellsAfter(kernel', x, i)
      BY <3>1, <1>2
    <3>4. ASSUME NEW i \in DOMAIN longer, longer[i].path = x, longer[i].kind = "deleted"
          PROVE  TellsAfter(longer, x, i) \/ Tells(kernel', x)
      <4>1. CASE i \in DOMAIN channel /\ longer[i] = channel[i]
        <5>1. TellsAfter(channel, x, i) \/ Tells(kernel, x)
          BY <4>1, <3>1, <3>4
        <5>2. TellsAfter(channel, x, i) \/ Tells(more, x) \/ Tells(kernel', x)
          BY <5>1, <2>2, <1>2
        <5> QED
          BY <5>2, <4>1, <1>6 DEF Grown
      <4>2. CASE longer[i] = e
        BY <4>2, <3>1, <3>4, <1>2
      <4> QED
        BY <4>1, <4>2, <1>4, <1>6 DEF Grown
    <3> QED
      BY <3>2, <3>3, <3>4, <2>0
  <2>7. LastTells(x)'
    BY <2>5, <2>6 DEF LastTells
  <2> QED
    BY <2>4, <2>7
<1>12. \A x \in TrackedFiles : FileSound(x)'
  BY <1>0, <1>10, <1>11 DEF FileSound
<1>13. Tools'
  BY <1>0 DEF TrackInv, Tools, Logged, Busy
<1>14. summary.at = "open" /\ Ending' /\ ChangesListed'
  BY <1>0 DEF TrackInv, Ending, ChangesListed
<1> QED
  BY <1>9, <1>12, <1>13, <1>14 DEF TrackInv

LEMMA TakeEventKeeps == TrackInv /\ TakeEvent => TrackInv'
<1> SUFFICES ASSUME TrackInv, TakeEvent PROVE TrackInv'
  OBVIOUS
<1> PICK e : e = Head(channel)
  OBVIOUS
<1> PICK kind : kind = Coalesced(batch.kinds[e.path], e.kind)
  OBVIOUS
<1>0. /\ channel # <<>> /\ channel' = Tail(channel)
      /\ batch' = [at |-> "collecting", kinds |-> [batch.kinds EXCEPT ![e.path] = kind]]
      /\ content' = content /\ base' = base /\ tracked' = tracked /\ watching' = watching /\ kernel' = kernel
      /\ overflow' = overflow /\ native' = native /\ excused' = excused /\ steps' = steps
      /\ repeated' = repeated /\ summary' = summary
  BY DEF TakeEvent
<1>1. channel \in Seq(FileEvents) /\ Len(channel) <= Capacity /\ batch.kinds \in BatchKinds
  BY DEF TrackInv, TrackShapes
<1>2. /\ channel' \in Seq(FileEvents) /\ e \in FileEvents /\ 1 \in DOMAIN channel /\ channel[1] = e /\ Len(channel') = Len(channel) - 1
      /\ \A i \in DOMAIN channel' : i + 1 \in DOMAIN channel /\ channel'[i] = channel[i + 1]
      /\ \A f : Tells(channel, f) => Tells(channel', f) \/ e.path = f
      /\ \A f : TellsAfter(channel, f, 1) => Tells(channel', f)
      /\ \A f : \A i \in DOMAIN channel' : TellsAfter(channel, f, i + 1) => TellsAfter(channel', f, i)
  <2>1. Shrunk(channel, e, channel')
    BY <1>0, <1>1, EventsShrink
  <2> QED
    BY <2>1 DEF Shrunk
<1>3. /\ kind \in EventKinds /\ (kind = "deleted" => e.kind = "deleted")
      /\ (kind = "added" => e.kind = "added" \/ batch.kinds[e.path] = "added")
  BY <1>2 DEF Coalesced, FileEvents, EventKinds
<1>4. /\ batch'.kinds \in BatchKinds /\ batch'.kinds[e.path] = kind /\ batch'.at = "collecting"
      /\ \A f \in TrackedFiles : f # e.path => batch'.kinds[f] = batch.kinds[f]
      /\ batch' \in [at : {"idle", "collecting", "captured"}, kinds : BatchKinds]
  BY <1>0, <1>1, <1>2, <1>3 DEF BatchKinds, FileEvents
<1>5. Len(channel') <= Capacity
  <2>1. Len(channel) \in Nat
    BY <1>1
  <2> QED
    BY ONLY <2>1, <1>1, <1>2, TrackAssumption
<1>6. TrackShapes'
  BY <1>0, <1>2, <1>4, <1>5 DEF TrackInv, TrackShapes
<1>7. ASSUME NEW x \in TrackedFiles, x \notin excused PROVE FileSound(x)'
  <2>1. NewlyAdded(x)
    BY <1>7 DEF TrackInv, FileSound
  <2>2. batch'.kinds[x] = "added" => base[x] = 0
    <3>1. e.path = x /\ e.kind = "added" => base[x] = 0
      BY <2>1, <1>2 DEF NewlyAdded
    <3>2. batch.kinds[x] = "added" => base[x] = 0
      BY <2>1 DEF NewlyAdded
    <3> QED
      BY <3>1, <3>2, <1>3, <1>4
  <2>3. \A i \in DOMAIN channel' : channel'[i].path = x /\ channel'[i].kind = "added" => base[x] = 0
    BY <2>1, <1>2 DEF NewlyAdded
  <2>4. NewlyAdded(x)'
    BY <2>1, <2>2, <2>3, <1>0 DEF NewlyAdded, Logged, Busy
  <2>5. ASSUME ~overflow PROVE LastTells(x)' /\ Underway(x)'
    <3>1. LastTells(x) /\ Underway(x)
      BY <1>7, <2>5 DEF TrackInv, FileSound
    <3>2. e.path = x => batch'.kinds[x] # "none"
      BY <1>3, <1>4 DEF EventKinds
    <3>3. batch.kinds[x] # "none" => batch'.kinds[x] # "none"
      BY <3>2, <1>4
    <3>4. Underway(x)'
      BY <3>1, <3>2, <3>3, <1>0, <1>2 DEF Underway, Logged, Busy
    <3>5. Settled(x)' <=> Settled(x)
      BY <1>0 DEF Settled, Logged, Busy
    <3>6. ASSUME ~Settled(x)
          PROVE  /\ batch'.kinds[x] = "deleted" => Tells(channel', x) \/ Tells(kernel, x)
                 /\ \A i \in DOMAIN channel' : channel'[i].path = x /\ channel'[i].kind = "deleted" =>
                       TellsAfter(channel', x, i) \/ Tells(kernel, x)
                 /\ \A i \in DOMAIN kernel : kernel[i].path = x /\ kernel[i].kind = "deleted" => TellsAfter(kernel, x, i)
      <4>1. /\ batch.kinds[x] = "deleted" => Tells(channel, x) \/ Tells(kernel, x)
            /\ \A i \in DOMAIN channel : channel[i].path = x /\ channel[i].kind = "deleted" =>
                  TellsAfter(channel, x, i) \/ Tells(kernel, x)
            /\ \A i \in DOMAIN kernel : kernel[i].path = x /\ kernel[i].kind = "deleted" => TellsAfter(kernel, x, i)
        BY <3>1, <3>6 DEF LastTells
      <4>2. batch'.kinds[x] = "deleted" => Tells(channel', x) \/ Tells(kernel, x)
        <5>1. CASE e.path = x
          BY <5>1, <4>1, <1>2, <1>3, <1>4
        <5>2. CASE e.path # x
          BY <5>2, <4>1, <1>2, <1>4
        <5> QED
          BY <5>1, <5>2
      <4>3. \A i \in DOMAIN channel' : channel'[i].path = x /\ channel'[i].kind = "deleted" =>
               TellsAfter(channel', x, i) \/ Tells(kernel, x)
        BY <4>1, <1>2
      <4> QED
        BY <4>1, <4>2, <4>3
    <3>7. LastTells(x)'
      BY <3>5, <3>6, <1>0 DEF LastTells
    <3> QED
      BY <3>4, <3>7
  <2> QED
    BY <2>4, <2>5, <1>0 DEF FileSound
<1>8. \A x \in TrackedFiles : FileSound(x)'
  BY <1>0, <1>7 DEF FileSound
<1>9. Tools' /\ ChangesListed'
  BY <1>0 DEF TrackInv, Tools, Logged, Busy, ChangesListed
<1>10. Ending'
  BY <1>0, <1>4 DEF TrackInv, Ending
<1> QED
  BY <1>6, <1>8, <1>9, <1>10 DEF TrackInv

LEMMA LookAtFilesKeeps == TrackInv /\ LookAtFiles => TrackInv'
<1> SUFFICES ASSUME TrackInv, LookAtFiles PROVE TrackInv'
  OBVIOUS
<1>0. /\ content' = content /\ base' = base /\ tracked' = tracked /\ watching' = watching /\ kernel' = kernel
      /\ channel' = channel /\ overflow' = overflow /\ native' = native /\ excused' = excused /\ steps' = steps
      /\ repeated' = repeated /\ summary' = summary /\ batch'.at = "captured"
      /\ \A f \in TrackedFiles :
            batch'.kinds[f] = IF batch.kinds[f] = "added" /\ content[f] = 0 THEN "none" ELSE batch.kinds[f]
  BY DEF LookAtFiles
<1>1. batch' \in [at : {"idle", "collecting", "captured"}, kinds : BatchKinds]
  BY DEF LookAtFiles, TrackInv, TrackShapes, BatchKinds
<1>2. TrackShapes'
  BY <1>0, <1>1 DEF TrackInv, TrackShapes
<1>3. ASSUME NEW x \in TrackedFiles, x \notin excused PROVE FileSound(x)'
  <2>1. NewlyAdded(x)
    BY <1>3 DEF TrackInv, FileSound
  <2>2. batch'.kinds[x] = "added" => batch.kinds[x] = "added"
    BY <1>0
  <2>3. NewlyAdded(x)'
    BY <2>1, <2>2, <1>0 DEF NewlyAdded, Logged, Busy
  <2>4. ASSUME ~overflow PROVE LastTells(x)' /\ Underway(x)'
    <3>1. LastTells(x) /\ Underway(x)
      BY <1>3, <2>4 DEF TrackInv, FileSound
    <3>2. batch.kinds[x] # "none" /\ batch'.kinds[x] = "none" => content[x] = base[x]
      BY <2>1, <1>0 DEF NewlyAdded
    <3>3. Underway(x)'
      BY <3>1, <3>2, <1>0 DEF Underway, Logged, Busy
    <3>4. Settled(x)' <=> Settled(x)
      BY <1>0 DEF Settled, Logged, Busy
    <3>5. batch'.kinds[x] = "deleted" => batch.kinds[x] = "deleted"
      BY <1>0
    <3>6. LastTells(x)'
      BY <3>1, <3>4, <3>5, <1>0 DEF LastTells
    <3> QED
      BY <3>3, <3>6
  <2> QED
    BY <2>3, <2>4, <1>0 DEF FileSound
<1>4. \A x \in TrackedFiles : FileSound(x)'
  BY <1>0, <1>3 DEF FileSound
<1>5. Tools' /\ ChangesListed'
  BY <1>0 DEF TrackInv, Tools, Logged, Busy, ChangesListed
<1>6. Ending'
  BY <1>0 DEF TrackInv, Ending
<1> QED
  BY <1>2, <1>4, <1>5, <1>6 DEF TrackInv

LEMMA RecordBatchKeeps == TrackInv /\ RecordBatch => TrackInv'
<1> SUFFICES ASSUME TrackInv, RecordBatch PROVE TrackInv'
  OBVIOUS
<1>0. /\ content' = content /\ base' = base /\ watching' = watching /\ kernel' = kernel
      /\ channel' = channel /\ overflow' = overflow /\ native' = native /\ excused' = excused /\ steps' = steps
      /\ repeated' = repeated /\ summary' = summary /\ batch' = NoBatch
      /\ tracked' = [f \in TrackedFiles |-> Watched(tracked[f], batch.kinds[f])]
  BY DEF RecordBatch
<1>1. batch.kinds \in BatchKinds /\ tracked \in [TrackedFiles -> Records \cup {NoChange}]
  BY DEF TrackInv, TrackShapes
\* What becomes of the record of a file.
<1>2. ASSUME NEW f \in TrackedFiles
      PROVE  /\ tracked'[f] \in Records \cup {NoChange}
             /\ \/ tracked'[f] = tracked[f] /\ (batch.kinds[f] = "none" \/ (tracked[f] # NoChange /\ tracked[f].origin = "nativeTool"))
                \/ /\ batch.kinds[f] # "none" /\ ~(tracked[f] # NoChange /\ tracked[f].origin = "nativeTool")
                   /\ tracked'[f] = NoChange =>
                         tracked[f] # NoChange /\ tracked[f].kind = "added" /\ batch.kinds[f] = "deleted"
                   /\ tracked'[f] # NoChange =>
                         /\ tracked'[f].previous = "none"
                         /\ tracked'[f].kind = "added" =>
                               batch.kinds[f] = "added" \/ (tracked[f] # NoChange /\ tracked[f].kind = "added")
  <2>0. tracked'[f] = Watched(tracked[f], batch.kinds[f]) /\ tracked[f] \in Records \cup {NoChange}
        /\ batch.kinds[f] \in EventKinds \cup {"none"}
    BY <1>0, <1>1 DEF BatchKinds
  <2>1. CASE batch.kinds[f] = "none"
    BY <2>0, <2>1 DEF Watched
  <2>2. CASE batch.kinds[f] # "none" /\ tracked[f] # NoChange /\ tracked[f].origin = "nativeTool"
    BY <2>0, <2>2 DEF Watched
  <2>3. CASE batch.kinds[f] # "none" /\ ~(tracked[f] # NoChange /\ tracked[f].origin = "nativeTool")
    <3> PICK n : n = [kind |-> batch.kinds[f], origin |-> "shellWatcher", old |-> 0, previous |-> "none"]
      OBVIOUS
    <3>1. n \in Records /\ n.kind = batch.kinds[f] /\ n.previous = "none"
      BY <2>0, <2>3 DEF Records, EventKinds, ChangeKinds, Contents
    <3>2. tracked'[f] = Merged(tracked[f], n)
      BY <2>0, <2>3 DEF Watched
    <3> QED
      BY <2>0, <2>3, <3>1, <3>2, MergedRecord
  <2> QED
    BY <2>1, <2>2, <2>3
<1>3. tracked' \in [TrackedFiles -> Records \cup {NoChange}]
  BY <1>0, <1>2
<1>4. NoBatch \in [at : {"idle", "collecting", "captured"}, kinds : BatchKinds] /\ NoBatch.at = "idle"
      /\ \A f \in TrackedFiles : NoBatch.kinds[f] = "none"
  BY DEF NoBatch, BatchKinds
<1>5. TrackShapes'
  BY <1>0, <1>3, <1>4 DEF TrackInv, TrackShapes
<1>6. ASSUME NEW x \in TrackedFiles, x \notin excused PROVE FileSound(x)'
  <2>1. NewlyAdded(x)
    BY <1>6 DEF TrackInv, FileSound
  <2>2. /\ batch.kinds[x] = "added" => base[x] = 0
        /\ tracked[x] # NoChange /\ tracked[x].kind = "added" => base[x] = 0
    BY <2>1 DEF NewlyAdded, Logged
  <2>3. tracked'[x] # NoChange /\ tracked'[x].kind = "added" => base[x] = 0
    BY <2>2, <1>2
  <2>4. NewlyAdded(x)'
    BY <2>1, <2>3, <1>0, <1>4 DEF NewlyAdded, Logged, Busy
  <2>5. ASSUME ~overflow PROVE LastTells(x)' /\ Underway(x)'
    <3>1. LastTells(x) /\ Underway(x)
      BY <1>6, <2>5 DEF TrackInv, FileSound
    <3>2. Settled(x) => Settled(x)'
      BY <1>0, <1>2 DEF Settled, Logged, Busy
    <3>3. LastTells(x)'
      BY <3>1, <3>2, <1>0, <1>4 DEF LastTells
    <3>4. ASSUME content[x] # base[x], tracked'[x] = NoChange, Logged(x) \/ batch.kinds[x] # "none"
          PROVE  Underway(x)'
      <4>1. batch.kinds[x] = "deleted" /\ base[x] = 0 /\ ~(tracked[x] # NoChange /\ tracked[x].origin = "nativeTool")
        BY <3>4, <2>2, <1>2 DEF Logged
      <4>2. CASE Settled(x)
        <5>1. Busy /\ native.to = x
          BY <4>1, <4>2, <3>4 DEF Settled, Logged
        <5> QED
          BY <5>1, <1>0 DEF Underway, Busy
      <4>3. CASE ~Settled(x)
        <5>1. Tells(channel, x) \/ Tells(kernel, x)
          BY <4>1, <4>3, <3>1 DEF LastTells
        <5> QED
          BY <5>1, <1>0 DEF Underway
      <4> QED
        BY <4>2, <4>3
    <3>5. ASSUME tracked'[x] # NoChange PROVE Underway(x)'
      BY <3>5 DEF Underway, Logged
    <3>6. ASSUME NEW h \in TrackedFiles, Logged(h), tracked[h].previous = x PROVE Underway(x)'
      <4>1. tracked[h].previous # "none"
        BY <3>6, TrackAssumption
      <4>2. tracked[h] # NoChange /\ tracked[h].origin = "nativeTool"
        BY <3>6, <4>1 DEF TrackInv, Tools, Logged
      <4>3. tracked'[h] = tracked[h]
        BY <4>2, <1>2
      <4> QED
        BY <3>6, <4>2, <4>3 DEF Underway, Logged
    <3>7. ASSUME content[x] # base[x], Tells(channel, x) \/ Tells(kernel, x) \/ (Busy /\ x \in {native.path, native.to})
          PROVE  Underway(x)'
      BY <3>7, <1>0 DEF Underway, Busy
    <3>8. ASSUME content[x] = base[x] PROVE Underway(x)'
      BY <3>8, <1>0 DEF Underway
    <3>9. Underway(x)'
      BY <3>1, <3>4, <3>5, <3>6, <3>7, <3>8 DEF Underway
    <3> QED
      BY <3>3, <3>9
  <2> QED
    BY <2>4, <2>5, <1>0 DEF FileSound
<1>7. \A x \in TrackedFiles : FileSound(x)'
  BY <1>0, <1>6 DEF FileSound
<1>8. Tools'
  <2>1. ASSUME NEW f \in TrackedFiles, tracked'[f] # NoChange, tracked'[f].previous # "none"
        PROVE  tracked'[f].origin = "nativeTool"
    <3>1. tracked'[f] = tracked[f]
      BY <2>1, <1>2
    <3> QED
      BY <2>1, <3>1 DEF TrackInv, Tools, Logged
  <2> QED
    BY <2>1, <1>0 DEF TrackInv, Tools, Logged, Busy
<1>9. Ending' /\ ChangesListed'
  BY <1>0 DEF TrackInv, Ending, ChangesListed
<1> QED
  BY <1>5, <1>7, <1>8, <1>9 DEF TrackInv

\* A watcher that goes takes what the system had not told it.
LEMMA NothingToTell ==
    \A f : f \notin {kernel[i].path : i \in DOMAIN kernel} => ~Tells(kernel, f)
BY DEF Tells

LEMMA BeginAgainKeeps == TrackInv /\ BeginAgain => TrackInv'
<1> SUFFICES ASSUME TrackInv, BeginAgain PROVE TrackInv'
  OBVIOUS
<1>0. /\ Open /\ repeated' = TRUE /\ watching' = FALSE /\ kernel' = <<>> /\ overflow' = FALSE
      /\ tracked' = [f \in TrackedFiles |-> NoChange]
      /\ excused' = {f \in TrackedFiles : tracked[f] # NoChange \/ content[f] # base[f]}
                    \cup {kernel[i].path : i \in DOMAIN kernel} \cup excused
      /\ content' = content /\ base' = base /\ channel' = channel /\ batch' = batch /\ native' = native
      /\ steps' = steps /\ summary' = summary
  BY DEF BeginAgain
<1>1. \A i \in DOMAIN kernel : kernel[i].path \in TrackedFiles
  <2>1. kernel \in Seq(FileEvents)
    BY DEF TrackInv, TrackShapes
  <2>2. \A i \in DOMAIN kernel : kernel[i] \in FileEvents
    BY <2>1
  <2> QED
    BY <2>2 DEF FileEvents
<1>2. excused' \subseteq TrackedFiles /\ excused \subseteq excused'
  BY <1>0, <1>1 DEF TrackInv, TrackShapes
<1>3. tracked' \in [TrackedFiles -> Records \cup {NoChange}] /\ \A f \in TrackedFiles : tracked'[f] = NoChange
  BY <1>0
<1>4. TrackShapes'
  <2>1. <<>> \in Seq(FileEvents)
    OBVIOUS
  <2> QED
    BY <1>0, <1>2, <1>3, <2>1 DEF TrackInv, TrackShapes
<1>5. ASSUME NEW x \in TrackedFiles, x \notin excused' PROVE FileSound(x)'
  <2>1. x \notin excused /\ content[x] = base[x]
    BY <1>0, <1>5
  <2>2. NewlyAdded(x)
    BY <2>1 DEF TrackInv, FileSound
  <2>3. DOMAIN kernel' = {}
    BY <1>0
  <2>4. NewlyAdded(x)'
    BY <2>2, <2>3, <1>0, <1>3 DEF NewlyAdded, Logged, Busy
  <2>5. Settled(x)'
    BY <2>1, <1>0 DEF Settled
  <2>6. LastTells(x)' /\ Underway(x)'
    BY <2>1, <2>5, <1>0 DEF LastTells, Underway
  <2> QED
    BY <2>4, <2>6 DEF FileSound
<1>6. \A x \in TrackedFiles : FileSound(x)'
  BY <1>5 DEF FileSound
<1>7. Tools'
  BY <1>0, <1>2, <1>3 DEF TrackInv, Tools, Logged, Busy
<1>8. Ending' /\ ChangesListed'
  BY <1>0 DEF TrackInv, Ending, ChangesListed, Open
<1> QED
  BY <1>4, <1>6, <1>7, <1>8 DEF TrackInv

LEMMA StopWatcherKeeps == TrackInv /\ StopWatcher => TrackInv'
<1> SUFFICES ASSUME TrackInv, StopWatcher PROVE TrackInv'
  OBVIOUS
<1>0. /\ Open /\ native = NoNative /\ watching' = FALSE /\ kernel' = <<>> /\ summary' = [at |-> "draining"]
      /\ excused' = excused \cup {kernel[i].path : i \in DOMAIN kernel}
      /\ content' = content /\ base' = base /\ tracked' = tracked /\ channel' = channel /\ batch' = batch
      /\ overflow' = overflow /\ native' = native /\ steps' = steps /\ repeated' = repeated
  BY DEF StopWatcher
<1>1. \A i \in DOMAIN kernel : kernel[i].path \in TrackedFiles
  <2>1. kernel \in Seq(FileEvents)
    BY DEF TrackInv, TrackShapes
  <2>2. \A i \in DOMAIN kernel : kernel[i] \in FileEvents
    BY <2>1
  <2> QED
    BY <2>2 DEF FileEvents
<1>2. excused' \subseteq TrackedFiles
  BY <1>0, <1>1 DEF TrackInv, TrackShapes
<1>3. TrackShapes'
  <2>1. <<>> \in Seq(FileEvents) /\ summary'.at = "draining"
    BY <1>0
  <2> QED
    BY <1>0, <1>2, <2>1 DEF TrackInv, TrackShapes
<1>4. ASSUME NEW x \in TrackedFiles, x \notin excused' PROVE FileSound(x)'
  <2>1. x \notin excused /\ ~Tells(kernel, x)
    BY <1>0, <1>4, NothingToTell
  <2>2. NewlyAdded(x)
    BY <2>1 DEF TrackInv, FileSound
  <2>3. DOMAIN kernel' = {}
    BY <1>0
  <2>4. NewlyAdded(x)'
    BY <2>2, <2>3, <1>0 DEF NewlyAdded, Logged, Busy
  <2>5. ASSUME ~overflow PROVE LastTells(x)' /\ Underway(x)'
    <3>1. LastTells(x) /\ Underway(x)
      BY <2>1, <2>5 DEF TrackInv, FileSound
    <3>2. Underway(x)'
      BY <3>1, <2>1, <1>0 DEF Underway, Logged, Busy
    <3>3. Settled(x)' <=> Settled(x)
      BY <1>0 DEF Settled, Logged, Busy
    <3>4. LastTells(x)'
      BY <3>1, <3>3, <2>1, <2>3, <1>0 DEF LastTells
    <3> QED
      BY <3>2, <3>4
  <2> QED
    BY <2>4, <2>5, <1>0 DEF FileSound
<1>5. \A x \in TrackedFiles : FileSound(x)'
  BY <1>4 DEF FileSound
<1>6. Tools' /\ Ending' /\ ChangesListed'
  BY <1>0 DEF TrackInv, Tools, Ending, ChangesListed, Logged, Busy
<1> QED
  BY <1>3, <1>5, <1>6 DEF TrackInv

LEMMA FinishTurnKeeps == TrackInv /\ Finish => TrackInv'
<1> SUFFICES ASSUME TrackInv, Finish PROVE TrackInv'
  OBVIOUS
<1> PICK names : names = {f \in TrackedFiles : tracked[f] # NoChange}
                         \cup {tracked[f].previous : f \in {g \in TrackedFiles : tracked[g] # NoChange}}
  OBVIOUS
<1>0. /\ summary.at = "draining" /\ channel = <<>> /\ batch = NoBatch
      /\ summary' = [at |-> "sent", incomplete |-> overflow, listed |-> names]
      /\ content' = content /\ base' = base /\ tracked' = tracked /\ watching' = watching /\ kernel' = kernel
      /\ channel' = channel /\ batch' = batch /\ overflow' = overflow /\ native' = native
      /\ excused' = excused /\ steps' = steps /\ repeated' = repeated
  BY DEF Finish
<1>1. summary'.at = "sent" /\ summary'.incomplete = overflow /\ summary'.listed = names
  BY <1>0
<1>2. TrackShapes'
  BY <1>0, <1>1 DEF TrackInv, TrackShapes
<1>3. kernel = <<>> /\ ~Busy
  BY <1>0 DEF TrackInv, Ending, Busy
<1>4. \A x \in TrackedFiles : FileSound(x)'
  BY <1>0 DEF TrackInv, FileSound, NewlyAdded, LastTells, Underway, Settled, Logged, Busy
<1>5. Tools' /\ Ending'
  BY <1>0, <1>3 DEF TrackInv, Tools, Ending, Logged, Busy
<1>6. ASSUME NEW x \in TrackedFiles, content[x] # base[x], x \notin excused, ~overflow PROVE x \in names
  <2>1. Underway(x)
    BY <1>6 DEF TrackInv, FileSound
  <2>2. ~Tells(channel, x) /\ ~Tells(kernel, x) /\ batch.kinds[x] = "none"
    BY <1>0, <1>3 DEF Tells, NoBatch
  <2>3. Logged(x) \/ \E g \in TrackedFiles : Logged(g) /\ tracked[g].previous = x
    BY <2>1, <2>2, <1>3, <1>6 DEF Underway
  <2> QED
    BY <2>3 DEF Logged
<1>7. ChangesListed'
  BY <1>0, <1>1, <1>6 DEF ChangesListed
<1> QED
  BY <1>2, <1>4, <1>5, <1>7 DEF TrackInv

LEMMA TrackStep == TrackInv /\ [TrackNext]_trackVars => TrackInv'
<1> SUFFICES ASSUME TrackInv, [TrackNext]_trackVars PROVE TrackInv'
  OBVIOUS
<1>1. ASSUME NEW f \in TrackedFiles, NEW v \in Contents, ShellChange(f, v) PROVE TrackInv'
  BY <1>1, ShellKeeps
<1>2. ASSUME NEW f \in TrackedFiles, NEW g \in TrackedFiles, NEW v \in Contents, NativeChange(f, g, v) PROVE TrackInv'
  BY <1>2, NativeChangeKeeps
<1>3. CASE UNCHANGED trackVars
  BY <1>3 DEF trackVars, TrackInv, TrackShapes, FileSound, NewlyAdded, LastTells, Underway, Settled, Tools, Ending,
              ChangesListed, Logged, Busy
<1> QED
  BY <1>1, <1>2, <1>3, EnableKeeps, NativeRecordKeeps, DeliverKeeps, TakeEventKeeps, LookAtFilesKeeps,
     RecordBatchKeeps, BeginAgainKeeps, StopWatcherKeeps, FinishTurnKeeps DEF TrackNext

LEMMA TrackHolds == TrackInv => TrackTypes /\ ChangesListed
BY DEF TrackInv, TrackShapes, TrackTypes

\* The list of a completed turn names every file that is not as it was when the turn began, unless
\* it says that events were lost, or the change cannot be known: for any files, any capacity of the
\* channel and any order of tools, shell, system and worker.
THEOREM ChangesKept == TrackInit /\ [][TrackNext]_trackVars => [](ChangesListed /\ TrackTypes)
<1>1. TrackInit => TrackInv
  BY TrackStarts
<1>2. TrackInv /\ [TrackNext]_trackVars => TrackInv'
  BY TrackStep
<1>3. TrackInv => ChangesListed /\ TrackTypes
  BY TrackHolds
<1> QED
  BY <1>1, <1>2, <1>3, PTL

=============================================================================
