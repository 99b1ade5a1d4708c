---------------------------- MODULE SubagentTabs ----------------------------
(* The browser half of a sub-agent: the extension's background worker opens *)
(* one ChatGPT tab per attempt, submits the prompt there, keeps the run's   *)
(* lease alive, reports failures and closes the tab again.                  *)
(*                                                                          *)
(* Three stores change independently: the run's row at the local server,    *)
(* chrome.storage.session, which outlives the worker, and the worker's own  *)
(* memory, which a restart of the service worker empties. Every await of    *)
(* the worker is a boundary between two steps here.                         *)
EXTENDS Naturals, Sequences, SequencesExt, FiniteSets

CONSTANTS
  MaxAttempts,     \* attempts a run has (MAX_EXTENSION_FALLBACK_ATTEMPTS)
  MaxTabs,         \* bound: tabs ever opened
  MaxDispatches,   \* bound: times the web interface asks for a start
  MaxTabFaults        \* bound: tabs closed or replaced, lost replies, restarts

ASSUME SubagentTabsAssumption ==
  MaxAttempts \in Nat \ {0} /\ MaxTabs \in Nat \ {0}
    /\ MaxDispatches \in Nat /\ MaxTabFaults \in Nat

Attempts == 1..MaxAttempts
TabIds == 1..MaxTabs
NoTab == 0
AnyAttempt == 0
Unbound == [attempt |-> 0, tab |-> NoTab]

VARIABLES
  childRun,      \* the run's row at the server: status, attempt, conversation
  chatTabs,   \* the browser's tabs: existing, open, conversation, prompt
  session,    \* chrome.storage.session: the binding and the request contexts
  worker,     \* the memory of the service worker
  tabLog      \* what was asked, which faults happened (history and bounds)

tabVars == <<childRun, chatTabs, session, worker, tabLog>>

NoTabYet == [open |-> FALSE, used |-> FALSE, conversation |-> 0, prompt |-> 0]
NotLeaving == [tab |-> NoTab, unbind |-> FALSE, failed |-> {}]
NotMoving == [from |-> NoTab, to |-> NoTab, read |-> FALSE,
              bound |-> Unbound, requests |-> {}]
NoReport == [tab |-> NoTab, attempt |-> 0, kind |-> "none"]

(* subagentStarts and subagentClosures chain every piece of work behind the *)
(* one before it, so each is a queue whose head is the work under way.      *)
FreshWorker ==
  [starts |-> <<>>, start |-> [step |-> "look", tab |-> NoTab, old |-> 0],
   closes |-> <<>>, close |-> [step |-> "look", bound |-> Unbound],
   settles |-> [a \in Attempts |-> "none"],
   later |-> {}, gone |-> {}, leaving |-> NotLeaving,
   moving |-> NotMoving, report |-> NoReport]

TabsInit ==
  /\ childRun = [status |-> "pending", attempt |-> 1, conversation |-> 0]
  /\ chatTabs = [t \in TabIds |-> NoTabYet]
  /\ session = [bound |-> Unbound, request |-> [a \in Attempts |-> NoTab]]
  /\ worker = FreshWorker
  /\ tabLog = [asked |-> {}, dispatches |-> 0, faults |-> 0,
               lost |-> FALSE, slipped |-> FALSE, told |-> FALSE,
               unreported |-> FALSE]

----------------------------------------------------------------------------
(* The local server.                                                        *)
TabOpen(t) == t \in TabIds /\ chatTabs[t].open
ChildOver == childRun.status \in {"completed", "failed"}
Current(a) == childRun.status = "pending" /\ childRun.attempt = a

(* /fallback/result for a child no MCP call has claimed: another attempt,   *)
(* or the end of the run; refused for an older attempt and a claimed run.   *)
AfterFailure(a) ==
  IF ~Current(a) THEN childRun
  ELSE IF a < MaxAttempts THEN [childRun EXCEPT !.attempt = a + 1]
  ELSE [childRun EXCEPT !.status = "failed"]

(* /fallback/started: the conversation of the attempt's tab is recorded.    *)
WithIdentity(a, t) ==
  IF childRun.attempt = a /\ childRun.status \in {"pending", "running"}
       /\ TabOpen(t) /\ chatTabs[t].conversation # 0
  THEN [childRun EXCEPT !.conversation = chatTabs[t].conversation]
  ELSE childRun

(* The child's first MCP call, from any tab its prompt was submitted in.    *)
ChildClaims ==
  /\ childRun.status = "pending"
  /\ \E t \in TabIds : chatTabs[t].prompt # 0
  /\ childRun' = [childRun EXCEPT !.status = "running"]
  /\ UNCHANGED <<chatTabs, session, worker, tabLog>>

(* agent_turn_complete, or a stop, an interruption or a timeout.            *)
ChildEnds ==
  /\ \/ childRun.status = "running" /\ childRun' = [childRun EXCEPT !.status = "completed"]
     \/ ~ChildOver /\ childRun' = [childRun EXCEPT !.status = "failed"]
  /\ UNCHANGED <<chatTabs, session, worker, tabLog>>

----------------------------------------------------------------------------
(* Closing: closeSubagentRequest, fenced by the attempt it is for.          *)
AskClose(w, a, by) == [w EXCEPT !.closes = Append(@, [attempt |-> a, by |-> by])]
NoClose == worker.closes = <<>>    \* bound: closes are serial, so a second waits
Popped(w) == [w EXCEPT !.closes = Tail(@), !.close = FreshWorker.close]
TabFault == tabLog.faults < MaxTabFaults
Faulted == [tabLog EXCEPT !.faults = @ + 1]
ReplyLost == [Faulted EXCEPT !.lost = TRUE]

(* Mutant: a close takes whatever is bound, also a newer attempt's tab.     *)
MutFenced(expected) == session.bound # Unbound

Fenced(expected) ==
  session.bound # Unbound /\ expected \in {AnyAttempt, session.bound.attempt}

CloseLook ==
  /\ worker.closes # <<>> /\ worker.close.step = "look"
  /\ worker' = IF Fenced(Head(worker.closes).attempt)
                 THEN [worker EXCEPT !.close =
                         [step |-> "release", bound |-> session.bound]]
                 ELSE Popped(worker)
  /\ tabLog' = [tabLog EXCEPT !.slipped = @ \/ worker.moving # NotMoving]
  /\ UNCHANGED <<childRun, chatTabs, session>>

(* The identity is sent once more, best effort, and the request released.   *)
CloseRelease ==
  LET bound == worker.close.bound IN
  /\ worker.close.step = "release"
  /\ childRun' = IF session.request[bound.attempt] # NoTab
                THEN WithIdentity(bound.attempt, bound.tab) ELSE childRun
  /\ session' = [session EXCEPT !.request[bound.attempt] = NoTab]
  /\ worker' = [worker EXCEPT !.close.step = "unbind"]
  /\ UNCHANGED <<chatTabs, tabLog>>

(* The key is removed whatever it holds by now.                             *)
CloseUnbind ==
  /\ worker.close.step = "unbind"
  /\ session' = [session EXCEPT !.bound = Unbound]
  /\ worker' = [worker EXCEPT !.close.step = "remove"]
  /\ tabLog' = [tabLog EXCEPT !.slipped =
                  @ \/ session.bound \notin {Unbound, worker.close.bound}]
  /\ UNCHANGED <<childRun, chatTabs>>

(* The tab goes; its onRemoved event follows as for a tab the user closed   *)
(* (of no effect when nothing can name the tab any more).                   *)
Named(t) == t \in {session.bound.tab, worker.start.tab, worker.report.tab,
                   worker.moving.from}
              \/ \E a \in Attempts : session.request[a] = t

CloseRemove ==
  LET t == worker.close.bound.tab IN
  /\ worker.close.step = "remove"
  /\ chatTabs' = [chatTabs EXCEPT ![t].open = FALSE]
  /\ worker' = IF TabOpen(t) /\ Named(t) THEN [Popped(worker) EXCEPT !.gone = @ \cup {t}]
                                      ELSE Popped(worker)
  /\ UNCHANGED <<childRun, session, tabLog>>

(* The interface closes the tab of a run that failed or was stopped.        *)
InterfaceCloses ==
  /\ childRun.status = "failed" /\ ~tabLog.told /\ NoClose
  /\ worker' = AskClose(worker, AnyAttempt, "interface")
  /\ tabLog' = [tabLog EXCEPT !.told = TRUE]
  /\ UNCHANGED <<childRun, chatTabs, session>>

----------------------------------------------------------------------------
(* Reporting a startup that failed: settleSubagentStartupFailure, one at a  *)
(* time per attempt. Nothing is reported while another attempt is bound,    *)
(* also when that is the attempt before this one.                           *)
Settling(w, as) ==
  [w EXCEPT !.settles = [a \in Attempts |->
     IF a \in as /\ @[a] = "none" THEN "look" ELSE @[a]]]

SettleLook(a) ==
  /\ worker.settles[a] = "look"
  /\ worker' = [worker EXCEPT !.settles[a] =
       IF session.bound = Unbound \/ session.bound.attempt = a
       THEN "post" ELSE "none"]
  /\ tabLog' = [tabLog EXCEPT !.unreported = @ \/
                  (worker'.settles[a] = "none" /\ Current(a))]
  /\ UNCHANGED <<childRun, chatTabs, session>>

(* Only an accepted report closes the tab: a claimed child is left alone.   *)
SettlePost(a) ==
  LET done == [worker EXCEPT !.settles[a] = "none"] IN
  /\ worker.settles[a] = "post" /\ NoClose
  /\ childRun' = AfterFailure(a)
  /\ \/ worker' = (IF Current(a) THEN AskClose(done, a, "settle") ELSE done)
        /\ UNCHANGED tabLog
     \/ TabFault /\ worker' = done /\ tabLog' = ReplyLost
  /\ UNCHANGED <<chatTabs, session>>

----------------------------------------------------------------------------
(* Starting an attempt: startSubagentRequest(Once).                         *)
StartEnded(w) == [w EXCEPT !.starts = Tail(@), !.start = FreshWorker.start]
StartFailed(w) == Settling(StartEnded(w), {Head(w.starts)})
StartAt(step) == worker.starts # <<>> /\ worker.start.step = step
Attempt == Head(worker.starts)

(* The same attempt asked for again joins the work already under way.       *)
Dispatch(a) ==
  /\ a <= childRun.attempt /\ tabLog.dispatches < MaxDispatches
  /\ worker' = IF worker.starts # <<>> /\ Last(worker.starts) = a THEN worker
               ELSE [worker EXCEPT !.starts = Append(@, a)]
  /\ tabLog' = [tabLog EXCEPT !.asked = @ \cup {a}, !.dispatches = @ + 1]
  /\ UNCHANGED <<childRun, chatTabs, session>>

StartLook ==
  /\ StartAt("look")
  /\ worker' = IF session.bound.attempt = Attempt /\ TabOpen(session.bound.tab)
               THEN StartEnded(worker)
               ELSE [worker EXCEPT !.start.step = "beat",
                                   !.start.old = session.bound.attempt]
  /\ tabLog' = [tabLog EXCEPT !.slipped = @ \/
                  worker.moving # NotMoving]
  /\ UNCHANGED <<childRun, chatTabs, session>>

(* Mutant: the tab of the attempt before is left open.                      *)
MutStartBeat ==
  /\ StartAt("beat")
  /\ worker' = IF ~Current(Attempt) THEN StartEnded(worker)
               ELSE [worker EXCEPT !.start.step = "open"]
  /\ UNCHANGED <<childRun, chatTabs, session, tabLog>>

StartBeat ==
  /\ StartAt("beat")
  /\ \/ /\ worker' = IF ~Current(Attempt) THEN StartEnded(worker)
                     ELSE IF worker.start.old = 0
                     THEN [worker EXCEPT !.start.step = "open"]
                     ELSE [AskClose(worker, worker.start.old, "start")
                             EXCEPT !.start.step = "drop"]
        /\ UNCHANGED tabLog
     \/ TabFault /\ worker' = StartFailed(worker) /\ tabLog' = Faulted
  /\ UNCHANGED <<childRun, chatTabs, session>>

StartDropped ==
  /\ StartAt("drop")
  /\ \A i \in DOMAIN worker.closes : worker.closes[i].by # "start"
  /\ worker' = [worker EXCEPT !.start.step = "open"]
  /\ UNCHANGED <<childRun, chatTabs, session, tabLog>>

(* A known conversation is reopened in the tab that shows it, if any.       *)
StartOpen ==
  /\ StartAt("open")
  /\ \E c \in {0, childRun.conversation}, t \in TabIds :
       LET showing == {s \in TabIds : TabOpen(s) /\ chatTabs[s].conversation = c} IN
       /\ IF c # 0 /\ showing # {} THEN t \in showing
          ELSE ~chatTabs[t].used /\ \A s \in TabIds : s < t => chatTabs[s].used
       /\ chatTabs' = [chatTabs EXCEPT ![t] =
            IF @.used THEN @
            ELSE [open |-> TRUE, used |-> TRUE, conversation |-> c, prompt |-> 0]]
       /\ worker' = [worker EXCEPT !.start.step = "store", !.start.tab = t]
  /\ UNCHANGED <<childRun, session, tabLog>>

StartStore ==
  /\ StartAt("store")
  /\ session' = [session EXCEPT !.request[Attempt] = worker.start.tab,
                   !.bound = [attempt |-> Attempt, tab |-> worker.start.tab]]
  /\ worker' = [worker EXCEPT !.start.step = "ready"]
  /\ UNCHANGED <<childRun, chatTabs, tabLog>>

(* waitForTab and waitForChatGptReady, which may also time out.             *)
StartReady ==
  /\ StartAt("ready")
  /\ \/ TabOpen(worker.start.tab) /\ worker' = [worker EXCEPT !.start.step = "again"]
        /\ UNCHANGED tabLog
     \/ ~TabOpen(worker.start.tab) /\ worker' = StartFailed(worker) /\ UNCHANGED tabLog
     \/ TabFault /\ worker' = StartFailed(worker) /\ tabLog' = Faulted
  /\ UNCHANGED <<childRun, chatTabs, session>>

(* Loading can outlive a stop, a claim or a retry: ask once more.           *)
StartAgain ==
  /\ StartAt("again")
  /\ worker' = IF Current(Attempt) THEN [worker EXCEPT !.start.step = "send"]
               ELSE StartEnded(worker)
  /\ UNCHANGED <<childRun, chatTabs, session, tabLog>>

StartSend ==
  LET t == worker.start.tab IN
  /\ StartAt("send")
  /\ IF TabOpen(t)
       THEN /\ chatTabs' = [chatTabs EXCEPT ![t].prompt = Attempt,
                              ![t].conversation = IF @ = 0 THEN t ELSE @]
            /\ worker' = StartEnded(worker)
       ELSE /\ worker' = StartFailed(worker) /\ UNCHANGED chatTabs
  /\ UNCHANGED <<childRun, session, tabLog>>

----------------------------------------------------------------------------
(* What a tab's content script reports: handleProgress.                     *)
ReportRead(t, kind) ==
  LET a == chatTabs[t].prompt IN
  /\ worker.report = NoReport /\ TabOpen(t) /\ a # 0 /\ session.request[a] = t
  /\ kind = "started" => WithIdentity(a, t) # childRun    \* bound
  /\ worker' = [worker EXCEPT !.report =
                  [tab |-> t, attempt |-> a, kind |-> kind]]
  /\ UNCHANGED <<childRun, chatTabs, session, tabLog>>

(* The context read before is written back with the identity, then posted.  *)
(* A stable final answer completes a claimed run; any other result fails    *)
(* the attempt. Only an end of this very attempt is acknowledged, and the   *)
(* tab closed a little later.                                               *)
ReportPost ==
  LET r == worker.report
      done == [worker EXCEPT !.report = NoReport]
      after == {AfterFailure(r.attempt)} \cup
                 (IF childRun.status = "running" /\ childRun.attempt = r.attempt
                  THEN {[childRun EXCEPT !.status = "completed"]} ELSE {}) IN
  /\ r # NoReport
  /\ session' = [session EXCEPT !.request[r.attempt] = r.tab]
  /\ childRun' \in (IF r.kind = "started" THEN {WithIdentity(r.attempt, r.tab)} ELSE after)
  /\ worker' = IF r.kind = "result" /\ childRun'.attempt = r.attempt
                    /\ childRun'.status \in {"completed", "failed"}
               THEN [done EXCEPT !.later = @ \cup {r.attempt}] ELSE done
  /\ tabLog' = [tabLog EXCEPT !.slipped =
                  @ \/ session.request[r.attempt] \notin {NoTab, r.tab}]
  /\ UNCHANGED chatTabs

CloseLater(a) ==
  /\ a \in worker.later /\ NoClose
  /\ worker' = [AskClose(worker, a, "later") EXCEPT !.later = @ \ {a}]
  /\ UNCHANGED <<childRun, chatTabs, session, tabLog>>

(* renewBrowserSubagents: a heartbeat for every stored context whose tab    *)
(* lives; a run that ended badly or moved on has its tab closed.            *)
Renew(a) ==
  /\ session.request[a] # NoTab /\ TabOpen(session.request[a])
  /\ childRun.status = "failed" \/ childRun.attempt # a
  /\ NoClose
  /\ worker' = AskClose(worker, a, "renewal")
  /\ UNCHANGED <<childRun, chatTabs, session, tabLog>>

----------------------------------------------------------------------------
(* The browser: tabs closed by the user, tabs replaced, worker restarts.    *)
UserCloses(t) ==
  /\ TabFault /\ TabOpen(t)
  /\ chatTabs' = [chatTabs EXCEPT ![t].open = FALSE]
  /\ worker' = [worker EXCEPT !.gone = @ \cup {t}]
  /\ tabLog' = Faulted
  /\ UNCHANGED <<childRun, session>>

(* handleClosedTab reads the whole storage ...                              *)
TabGoneRead(t) ==
  /\ t \in worker.gone /\ worker.leaving = NotLeaving
  /\ worker' = [worker EXCEPT !.gone = @ \ {t}, !.leaving =
       [tab |-> t, unbind |-> session.bound.tab = t,
        failed |-> {a \in Attempts : session.request[a] = t}]]
  /\ tabLog' = [tabLog EXCEPT !.slipped = @ \/ t = worker.moving.to]
  /\ UNCHANGED <<childRun, chatTabs, session>>

(* Mutant: the keys are removed, the closed requests not reported.          *)
MutTabGoneApply ==
  LET l == worker.leaving IN
  /\ l # NotLeaving
  /\ session' = [session EXCEPT !.bound = IF l.unbind THEN Unbound ELSE @]
  /\ worker' = [worker EXCEPT !.leaving = NotLeaving]
  /\ UNCHANGED <<childRun, chatTabs, tabLog>>

(* ... then removes the keys it found and reports the requests it found.    *)
TabGoneApply ==
  LET l == worker.leaving IN
  /\ l # NotLeaving
  /\ session' = [session EXCEPT !.bound = IF l.unbind THEN Unbound ELSE @]
  /\ worker' = Settling([worker EXCEPT !.leaving = NotLeaving],
                        {a \in l.failed : session.request[a] # NoTab})
  /\ tabLog' = [tabLog EXCEPT !.slipped = @ \/
                  (l.unbind /\ session.bound.tab \notin {NoTab, l.tab})]
  /\ UNCHANGED <<childRun, chatTabs>>

(* Chrome replaces a tab: the page lives on under another id.               *)
TabReplaced(t) ==
  /\ TabFault /\ TabOpen(t) /\ worker.moving = NotMoving
  /\ \E s \in TabIds :
       /\ ~chatTabs[s].used /\ \A u \in TabIds : u < s => chatTabs[u].used
       /\ chatTabs' = [chatTabs EXCEPT ![t].open = FALSE, ![t].prompt = 0,
                                       ![s] = chatTabs[t]]
       /\ worker' = [worker EXCEPT !.moving =
                       [NotMoving EXCEPT !.from = t, !.to = s]]
  /\ tabLog' = [Faulted EXCEPT !.slipped = @ \/
                  worker.starts \o worker.closes # <<>>]
  /\ UNCHANGED <<childRun, session>>

(* migrateTabBindings copies the values it read under the new id.           *)
MoveRead ==
  LET m == worker.moving IN
  /\ m # NotMoving /\ ~m.read
  /\ worker' = [worker EXCEPT !.moving.read = TRUE,
       !.moving.bound = IF session.bound.tab = m.from THEN session.bound ELSE Unbound,
       !.moving.requests = {a \in Attempts : session.request[a] = m.from}]
  /\ UNCHANGED <<childRun, chatTabs, session, tabLog>>

MoveWrite ==
  LET m == worker.moving IN
  /\ m.read
  /\ session' = [bound |-> IF m.bound = Unbound THEN session.bound
                           ELSE [m.bound EXCEPT !.tab = m.to],
                 request |-> [a \in Attempts |->
                    IF a \in m.requests THEN m.to ELSE session.request[a]]]
  /\ worker' = [worker EXCEPT !.moving = NotMoving]
  /\ tabLog' = [tabLog EXCEPT !.slipped = @ \/
                  (m.bound # Unbound /\ session.bound # m.bound)]
  /\ UNCHANGED <<childRun, chatTabs>>

(* Everything in memory is gone, the storage and the tabs are not.          *)
WorkerRestarts ==
  /\ TabFault /\ worker # FreshWorker
  /\ worker' = FreshWorker
  /\ tabLog' = [ReplyLost EXCEPT !.slipped = @ \/ worker.close.step = "remove"
                                          \/ worker.moving # NotMoving]
  /\ UNCHANGED <<childRun, chatTabs, session>>

TabsNext ==
  \/ ChildClaims \/ ChildEnds \/ InterfaceCloses
  \/ CloseLook \/ CloseRelease \/ CloseUnbind \/ CloseRemove
  \/ StartLook \/ StartBeat \/ StartDropped \/ StartOpen
  \/ StartStore \/ StartReady \/ StartAgain \/ StartSend
  \/ ReportPost \/ TabGoneApply \/ MoveRead \/ MoveWrite
  \/ WorkerRestarts
  \/ \E a \in Attempts : Dispatch(a) \/ SettleLook(a) \/ SettlePost(a)
                           \/ CloseLater(a) \/ Renew(a)
  \/ \E t \in TabIds : UserCloses(t) \/ TabGoneRead(t) \/ TabReplaced(t)
                         \/ \E kind \in {"started", "result"} : ReportRead(t, kind)

TabsSpec == TabsInit /\ [][TabsNext]_tabVars

----------------------------------------------------------------------------
TabsTypes ==
  /\ childRun.status \in {"pending", "running", "completed", "failed"}
  /\ childRun.attempt \in Attempts /\ childRun.conversation \in 0..MaxTabs
  /\ session.bound \in [attempt : 0..MaxAttempts, tab : 0..MaxTabs]
  /\ session.request \in [Attempts -> 0..MaxTabs]
  /\ \A t \in TabIds : chatTabs[t].prompt \in 0..MaxAttempts

(* A tab in which a sub-agent's prompt runs is always one the stored        *)
(* binding names, or the one being closed: so a later attempt finds and     *)
(* closes it, and two tabs never work on one run. The windows in which a    *)
(* key is removed or written back from an older reading, and a restart      *)
(* before the tab is removed, are the only exceptions (slipped).            *)
PromptsNamed ==
  ~tabLog.slipped =>
    \A t \in TabIds : chatTabs[t].open /\ chatTabs[t].prompt # 0 =>
      \/ session.bound.tab = t
      \/ worker.close.step = "remove" /\ worker.close.bound.tab = t
      \/ worker.moving.to = t

(* The extension never closes the tab of the attempt whose child is at work *)
(* at the server: "Never close a claimed child".                            *)
ClaimedKept ==
  worker.close.step # "look" /\ TabOpen(worker.close.bound.tab) /\ ~tabLog.slipped
    => ~(childRun.status = "running" /\ childRun.attempt = worker.close.bound.attempt)

(* When the worker is idle and neither a reply nor the worker's memory was  *)
(* ever lost, a pending attempt that was asked for has its prompt in an     *)
(* open tab: every startup that failed and every tab that was closed before *)
(* the child came to work has been reported, except a startup that fails    *)
(* while the attempt before it is still bound (unreported).                 *)
NothingForgotten ==
  worker = FreshWorker /\ ~tabLog.lost /\ ~tabLog.slipped /\ ~tabLog.unreported
      /\ childRun.status = "pending" /\ childRun.attempt \in tabLog.asked
    => \E t \in TabIds : TabOpen(t) /\ chatTabs[t].prompt = childRun.attempt

TabsSafe == PromptsNamed /\ ClaimedKept /\ NothingForgotten
=============================================================================
