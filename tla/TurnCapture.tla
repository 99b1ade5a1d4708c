---------------------------- MODULE TurnCapture ----------------------------
(***************************************************************************)
(* How the extension records what ChatGPT answers: one conversation page,    *)
(* its content scripts (the run of a dispatched prompt, the recorder, the    *)
(* monitor, the native tick, the resume after a reload), the service worker  *)
(* that relays their messages, and the rows and snapshots of the host.       *)
(*                                                                           *)
(* An answer is the set of parts <<turn, i>> the page shows so far.  Every   *)
(* step between two awaits of the scripts is one action; a mutation of the   *)
(* page and the scan it queues as a microtask are one.  Whether the 500 ms   *)
(* since the last send are over is left open.  Prompts carry their request   *)
(* as a marker (with_route); marker-less repeats by the recorder's own agent *)
(* and provisional conversation ids are left out.                            *)
(***************************************************************************)
EXTENDS Naturals, Sequences, FiniteSets
LOCAL INSTANCE FiniteSetsExt

CONSTANTS AnswerParts,          \* how many parts the answer of each turn may get
          MaxUpsets

MaxPrompts == Len(AnswerParts)
PageTurns == 1..MaxPrompts
NoTurn == 0
Dispatched == 0                   \* the request ChatCMD sends; the native one of turn t is t
CaptureRequests == 0..MaxPrompts
NoneRecorded == MaxPrompts + 1
PageParts(t, n) == {<<t, i>> : i \in 1..n}

VARIABLES chatPage,    \* the document: its prompts, the latest answer
          recorder,    \* the content scripts and their messages under way
          relay,       \* the service worker's session storage
          captures,    \* chatgpt_bridge_requests and the chatgpt_think events
          captureLog
captureVars == <<chatPage, recorder, relay, captures, captureLog>>

NoSnap == [turn |-> NoTurn, text |-> {}, revision |-> 0, completed |-> FALSE]
NoOwner ==
    [request |-> NoneRecorded, by |-> "none", phase |-> "none", why |-> "none", wait |-> "none",
     base |-> NoTurn, turn |-> NoTurn, text |-> {}, said |-> {}, revision |-> 0, complete |-> FALSE,
     dirty |-> FALSE, bound |-> FALSE, active |-> FALSE, timer |-> FALSE, flight |-> 0,
     stop |-> FALSE, ended |-> FALSE, error |-> FALSE]
NoTick == [turn |-> NoTurn, request |-> NoneRecorded, chat |-> FALSE, ended |-> FALSE]
NoFinal == [request |-> NoneRecorded, kind |-> "none", text |-> {}, step |-> "none", read |-> NoSnap]

CaptureInit ==
    /\ chatPage = [here |-> TRUE, marked |-> <<>>, answer |-> {}, busy |-> FALSE]
    /\ recorder = [owner |-> NoOwner, kept |-> [r \in CaptureRequests |-> NoSnap], posts |-> {},
                   started |-> FALSE, seen |-> {}, tick |-> NoTick, fresh |-> FALSE]
    /\ relay = [contexts |-> {}, named |-> NoneRecorded]
    /\ captures = [rows |-> [r \in CaptureRequests |-> [status |-> "none", bound |-> FALSE,
                                done |-> FALSE, answer |-> {}, snap |-> NoSnap]],
                   active |-> NoneRecorded, final |-> NoFinal]
    /\ captureLog = [upsets |-> 0, misread |-> FALSE, cut |-> FALSE]

Latest(page) == Len(page.marked)
owner == recorder.owner
Row(r) == captures.rows[r]
Live == {"queued", "running", "stop_requested"}
Upset == captureLog.upsets < MaxUpsets
Upsets == [captureLog EXCEPT !.upsets = @ + 1]

\* A revision later than any other of the request: the milliseconds of the page's clock.
RevisionNow(o) ==
    2 + Max({o.revision, Row(o.request).snap.revision, recorder.kept[o.request].revision}
            \union {m.snap.revision : m \in {p \in recorder.posts : p.request = o.request}})

-----------------------------------------------------------------------------
(* The recorder.                                                             *)

SnapshotOf(o) == [turn |-> o.turn, text |-> o.text, revision |-> o.revision, completed |-> o.complete]
RecorderStopped(o) == [o EXCEPT !.active = FALSE, !.timer = FALSE]

MutOwnPrompt(page) == TRUE
\* Which user turn a run takes for its own: the one that carries its marker.
OwnPrompt(page) == page.marked[Latest(page)]

\* scan: find the turn, end with it, take what the page shows of it.
Scanned(o, page) ==
    LET t == IF o.turn = NoTurn /\ Latest(page) # o.base /\ OwnPrompt(page)
             THEN Latest(page) ELSE o.turn
    IN IF ~o.active \/ Latest(page) = 0 THEN o
       ELSE IF ~page.here \/ t \notin {NoTurn, Latest(page)} THEN RecorderStopped(o)
       ELSE IF t # NoTurn /\ ~(page.answer \subseteq o.text)
            THEN [o EXCEPT !.turn = t, !.text = @ \union page.answer, !.dirty = TRUE,
                           !.revision = RevisionNow(o)]
            ELSE [o EXCEPT !.turn = t]

MutCompleted(o) == o
Completed(o) ==
    IF o.complete THEN o ELSE [o EXCEPT !.complete = TRUE, !.dirty = TRUE, !.revision = RevisionNow(o)]

CanSend(o) == o.bound /\ o.active /\ o.turn # NoTurn

\* flush: whoever calls it waits for its own message or for the one under way.
FlushSent(o, completed) ==
    LET c == IF completed THEN Completed(o) ELSE o IN
    IF c.flight # 0 THEN [c EXCEPT !.wait = "other"]
    ELSE IF ~CanSend(c) THEN [c EXCEPT !.wait = "failed"]
    ELSE IF ~c.dirty THEN [c EXCEPT !.wait = "ok"]
    ELSE [c EXCEPT !.flight = c.revision, !.wait = "own"]
Flushed(o, completed) == FlushSent(Scanned(o, chatPage), completed)

MutScheduled(o) == o
\* scheduleSend: what is not acknowledged yet always has a timer or a message under way.
Scheduled(o) ==
    IF o.bound /\ o.dirty /\ o.active /\ o.flight = 0 THEN [o EXCEPT !.timer = TRUE] ELSE o

\* The microtask of a mutation.  It sends at once unless within the rate window: then the
\* timer fires next.
Mutated(o, page) == Scheduled(Scanned(o, page))

\* What of the owner is written through: its checkpoint and its message.
KeptOf(kept, o) ==
    IF o.request # NoneRecorded /\ o.turn # NoTurn /\ o.active
    THEN [kept EXCEPT ![o.request] = SnapshotOf(o)] ELSE kept
Become(rec, o) ==
    [rec EXCEPT !.owner = o, !.kept = KeptOf(@, o),
        !.posts = IF o.flight # 0 /\ rec.owner.flight # o.flight
                  THEN @ \union {[request |-> o.request, snap |-> SnapshotOf(o)]} ELSE @]

\* finish: an acknowledged recorder drops its checkpoint.  The native poll (every 4 s, as
\* long as an answer must be stable) has seen the turn meanwhile; it looks again at one
\* whose recording ended in an error.
RecordingOver(rec) ==
    LET o == rec.owner IN
    [rec EXCEPT !.owner = NoOwner,
        !.kept = IF ~o.dirty THEN [@ EXCEPT ![o.request] = NoSnap] ELSE @,
        !.seen = IF o.by = "tick" /\ o.error THEN @ \ {Latest(chatPage)}
                 ELSE @ \union ({o.turn} \ {NoTurn})]

MutSettlingFor(o, why) ==
    [o EXCEPT !.phase = "posting", !.why = IF why = "terminal" THEN "completed" ELSE why,
              !.wait = "none", !.said = o.text]
\* The monitor and reportRequestResult flush before they report what they read before.
SettlingFor(o, why) ==
    Flushed([o EXCEPT !.phase = "settling", !.why = why,
                      !.said = IF why \in {"completed", "end"} THEN @ ELSE Scanned(o, chatPage).text],
            why \in {"ping", "terminal", "completed", "end"})

\* What the script does once its flush is over.
Resumed(o) ==
    IF o.wait \notin {"ok", "failed"} THEN o
    ELSE IF o.phase = "binding" THEN [o EXCEPT !.phase = "watch", !.wait = "none"]
    ELSE IF o.why \in {"ping", "terminal"} /\ o.wait = "failed"
         THEN [o EXCEPT !.phase = "watch", !.why = "none", !.wait = "none"]
    ELSE IF o.why = "terminal"
         THEN SettlingFor(o, IF o.ended THEN "end" ELSE IF o.stop THEN "stopped" ELSE "completed")
    ELSE [o EXCEPT !.phase = IF o.why = "end" THEN "over" ELSE "posting", !.wait = "none"]
Go(o) == Resumed(Resumed(o))

\* The reply to the message under way, or its failure.
Replied(o, ok) ==
    LET r == [o EXCEPT !.flight = 0, !.dirty = IF ok THEN o.revision > o.flight ELSE @,
                       !.error = ~ok]
        s == Scheduled(r)
    IN Go(IF s.wait = "own" THEN [s EXCEPT !.wait = IF ok THEN "ok" ELSE "failed"]
          ELSE IF s.wait # "other" THEN s
          ELSE IF ok /\ s.dirty /\ s.active THEN Flushed(s, FALSE)
          ELSE [s EXCEPT !.wait = IF s.dirty THEN "failed" ELSE "ok"])

-----------------------------------------------------------------------------
(* The page.                                                                 *)

Shows(page, script) ==
    /\ chatPage' = page
    /\ recorder' = Become(recorder, IF script.active THEN Mutated(script, page) ELSE script)
    /\ UNCHANGED <<relay, captures>>

Prompted(marked) ==
    [chatPage EXCEPT !.marked = Append(@, marked), !.answer = {}, !.busy = TRUE]

UserTypes ==
    /\ chatPage.here /\ ~chatPage.busy /\ Latest(chatPage) < MaxPrompts
    /\ Shows(Prompted(FALSE), owner)
    /\ UNCHANGED captureLog

AnswerGrows ==
    /\ chatPage.here /\ Latest(chatPage) # 0
    /\ LET t == Latest(chatPage)
           n == Cardinality(chatPage.answer) + 1
       IN n <= AnswerParts[t] /\ Shows([chatPage EXCEPT !.answer = PageParts(t, n)], owner)
    /\ UNCHANGED captureLog

AnswerEnds ==
    /\ chatPage.busy
    /\ Shows([chatPage EXCEPT !.busy = FALSE], owner)
    /\ UNCHANGED captureLog

\* Another conversation is opened in the tab; it does not come back.
Leaves ==
    /\ chatPage.here /\ Latest(chatPage) # 0 /\ Upset
    /\ captureLog' = Upsets
    /\ Shows([chatPage EXCEPT !.here = FALSE, !.busy = FALSE], owner)

\* A reload: the scripts start anew, what they sent is still on its way.
PageReloads ==
    /\ Upset /\ chatPage.here /\ Latest(chatPage) # 0
    /\ captureLog' = Upsets
    /\ recorder' = [recorder EXCEPT !.owner = NoOwner, !.seen = {}, !.tick = NoTick, !.fresh = TRUE]
    /\ UNCHANGED <<chatPage, relay, captures>>

-----------------------------------------------------------------------------
(* A prompt ChatCMD sends: its row, then the run in the page.                *)

\* continue_message and a first message: bound when the conversation is known.
Send ==
    /\ Row(Dispatched).status = "none" /\ chatPage.here
    /\ IF chatPage.marked = <<>> THEN TRUE
       ELSE (\E r \in CaptureRequests : Row(r).bound) /\ captures.active = NoneRecorded
    /\ captures' = [captures EXCEPT
            !.rows[Dispatched].status = "queued",
            !.rows[Dispatched].bound = chatPage.marked # <<>>,
            !.active = IF chatPage.marked # <<>> THEN Dispatched ELSE @]
    /\ UNCHANGED <<chatPage, recorder, relay, captureLog>>

\* The page takes it when it can write and stops the recorder of an earlier request.
RunArrives ==
    /\ Row(Dispatched).status # "none" /\ Dispatched \notin relay.contexts
    /\ chatPage.here /\ ~chatPage.busy /\ owner.request # Dispatched
    /\ \A t \in DOMAIN chatPage.marked : ~chatPage.marked[t]
    /\ Row(Dispatched).status = "queued"
    /\ relay' = [relay EXCEPT !.contexts = @ \union {Dispatched}]
    /\ recorder' = [recorder EXCEPT !.owner =
            [NoOwner EXCEPT !.request = Dispatched, !.by = "run", !.phase = "compose"]]
    /\ UNCHANGED <<chatPage, captures, captureLog>>

RecorderCreated ==
    /\ owner.phase = "compose"
    /\ recorder' = Become(recorder, [owner EXCEPT !.phase = "created", !.active = TRUE,
            !.base = Latest(chatPage), !.dirty = TRUE, !.revision = RevisionNow(owner)])
    /\ UNCHANGED <<chatPage, relay, captures, captureLog>>

Submit ==
    /\ owner.phase = "created" /\ Latest(chatPage) < MaxPrompts /\ ~chatPage.busy /\ chatPage.here
    /\ Shows(Prompted(TRUE), [owner EXCEPT !.phase = "submitted"])
    /\ UNCHANGED captureLog

\* Reports a script that threw: with what it saw once the request was started.
Throws(o) == Go(SettlingFor(o, IF o.stop THEN "stopped" ELSE "failed"))

SubmitFails ==
    /\ owner.phase \in {"compose", "created"} /\ Upset
    /\ captureLog' = Upsets
    /\ recorder' = Become(recorder, Throws(owner))
    /\ UNCHANGED <<chatPage, relay, captures>>

StartedPost ==
    /\ owner.phase = "submitted"
    /\ recorder' = [recorder EXCEPT !.owner.phase = "starting", !.started = TRUE]
    /\ UNCHANGED <<chatPage, relay, captures, captureLog>>

\* persist_bridge_started_binding has no guard on a request that ended.
bridge_started ==
    [captures EXCEPT
        !.rows[Dispatched].status = IF @ = "stop_requested" THEN @ ELSE "running",
        !.rows[Dispatched].bound = TRUE, !.active = Dispatched]

\* The script binds its recorder: from now on it may send.
Bound(o) ==
    Go(Flushed([Scanned(o, chatPage) EXCEPT !.bound = TRUE, !.phase = "binding"], FALSE))

\* The reply, or none within ten seconds while the message is still on its way.
StartedServed ==
    /\ recorder.started
    /\ captures' = IF Dispatched \in relay.contexts /\ chatPage.here THEN bridge_started ELSE captures
    /\ LET rec == [recorder EXCEPT !.started = FALSE]
           ok == captures' # captures
       IN recorder' = IF owner.phase # "starting" THEN rec
                      ELSE IF ~Scanned(owner, chatPage).active
                           THEN RecordingOver([rec EXCEPT !.owner = RecorderStopped(@)])
                      ELSE Become(rec, IF ok THEN Bound(owner) ELSE Throws(owner))
    /\ UNCHANGED <<chatPage, relay, captureLog>>

StartedLost ==
    /\ owner.phase = "starting" /\ owner.active /\ Upset
    /\ captureLog' = Upsets
    /\ recorder' = Become(recorder, Throws(owner))
    /\ UNCHANGED <<chatPage, relay, captures>>

-----------------------------------------------------------------------------
(* Observations.                                                             *)

\* The timer, or before it the monitor's next round (every 350 ms), which sends what waits.
TimerFires ==
    /\ owner.timer
    /\ LET o == Scanned([owner EXCEPT !.timer = FALSE], chatPage)
       IN recorder' = Become(recorder,
              IF CanSend(o) /\ o.dirty /\ o.flight = 0 THEN [o EXCEPT !.flight = o.revision] ELSE o)
    /\ UNCHANGED <<chatPage, relay, captures, captureLog>>

\* The monitor ends with its recorder.
RecorderLost ==
    /\ owner.phase = "watch" /\ ~owner.active
    /\ recorder' = RecordingOver(recorder)
    /\ UNCHANGED <<chatPage, relay, captures, captureLog>>

MutAccepts(snap, new) == ~snap.completed \/ new.completed
\* The upsert of chatgpt_think: revisions grow, a completed one is not reopened.
Accepts(snap, new) ==
    /\ snap.revision < new.revision
    /\ ~snap.completed \/ new.completed
Persisted(rows, r, new) ==
    IF Accepts(rows[r].snap, new) THEN [rows EXCEPT ![r].snap = new] ELSE rows

\* The relay knows the request by its context or by the conversation's binding; what
\* the upsert refuses is still acknowledged.
Delivered(m) ==
    LET r == m.request
        ok == /\ chatPage.here
              /\ r \in relay.contexts \/ relay.named = r
              /\ Row(r).bound
        mine == owner.request = r /\ owner.flight = m.snap.revision
        rec == [recorder EXCEPT !.posts = @ \ {m}]
    IN /\ captures' = IF ok THEN [captures EXCEPT !.rows = Persisted(@, r, m.snap)] ELSE captures
       /\ relay' = IF chatPage.here /\ Row(r).bound /\ relay.named = r
                   THEN [relay EXCEPT !.contexts = @ \union {r}] ELSE relay
       /\ recorder' = IF mine THEN Become(rec, Replied(owner, ok)) ELSE rec
       /\ UNCHANGED <<chatPage, captureLog>>

\* The worker or the connection ends: the page sees an error, the message may arrive yet.
FlightFails ==
    /\ owner.flight # 0 /\ Upset
    /\ captureLog' = Upsets
    /\ \E arrives \in BOOLEAN :
        recorder' = Become([recorder EXCEPT !.posts = IF arrives THEN @ ELSE
                @ \ {m \in @ : m.request = owner.request /\ m.snap.revision = owner.flight}],
            Replied(owner, FALSE))
    /\ UNCHANGED <<chatPage, relay, captures>>

-----------------------------------------------------------------------------
(* The end of a request.                                                     *)

Done(o) == o.text # {} /\ ~chatPage.busy
\* isTerminalRequestState of what bridgeRequestState returns.
TerminalState(r) ==
    /\ r \in relay.contexts
    /\ ~(Row(r).status = "running" /\ ~Row(r).done)
    /\ Row(r).done \/ Row(r).status \notin {"running", "stop_requested"}

\* A stable answer: ask the host to complete, or follow its end.
Settles ==
    /\ owner.phase = "watch" /\ owner.active /\ Done(Scanned(owner, chatPage))
    /\ \E why \in {"ping"} \union IF TerminalState(owner.request) THEN {"terminal"} ELSE {} :
        recorder' = Become(recorder, Go(SettlingFor(owner, why)))
    /\ UNCHANGED <<chatPage, relay, captures, captureLog>>

\* Told to stop, by message or by the state it polls: report once the page is idle.
StopLearned ==
    /\ owner.phase = "watch" /\ owner.active
    /\ Row(owner.request).status = "stop_requested" \/ owner.stop
    /\ recorder' = Become(recorder, Go(SettlingFor([owner EXCEPT !.stop = TRUE], "stopped")))
    /\ chatPage' = [chatPage EXCEPT !.busy = FALSE]
    /\ UNCHANGED <<relay, captures, captureLog>>

\* The deadline: a run reports a failure, an adopted one just ends.
DeadlinePasses ==
    /\ owner.phase = "watch" /\ owner.active /\ Upset
    /\ captureLog' = Upsets
    /\ recorder' = IF owner.by = "run" THEN Become(recorder, Throws(owner))
                   ELSE RecordingOver([recorder EXCEPT !.owner.error = TRUE])
    /\ UNCHANGED <<chatPage, relay, captures>>

EndsQuietly ==
    /\ owner.phase = "over"
    /\ recorder' = RecordingOver(recorder)
    /\ UNCHANGED <<chatPage, relay, captures, captureLog>>

\* Bound: one final report is under way at a time.
FinalPost ==
    /\ owner.phase = "posting" /\ captures.final = NoFinal
    /\ captures' = [captures EXCEPT !.final =
            [NoFinal EXCEPT !.request = owner.request, !.kind = owner.why, !.text = owner.said,
                            !.step = "sent"]]
    /\ recorder' = [recorder EXCEPT !.owner.phase = "reporting"]
    /\ UNCHANGED <<chatPage, relay, captureLog>>

final == captures.final
\* The reply: the context is released and the script ends; a failed report of a run is
\* reported once more as a failure.
FinalReply(caps, ok) ==
    /\ captures' = [caps EXCEPT !.final = NoFinal]
    /\ relay' = IF ok THEN [relay EXCEPT !.contexts = @ \ {final.request}] ELSE relay
    /\ recorder' =
        IF owner.phase # "reporting" \/ owner.request # final.request THEN recorder
        ELSE IF ok \/ (final.kind # "ping" /\ (owner.by # "run" \/ final.kind = "failed"))
             THEN RecordingOver(recorder)
        ELSE IF final.kind = "ping"
             THEN [recorder EXCEPT !.owner.phase = "watch", !.owner.why = "none"]
        ELSE IF Scanned(owner, chatPage).active THEN Become(recorder, Throws(owner))
        ELSE RecordingOver([recorder EXCEPT !.owner = RecorderStopped(@)])
    /\ UNCHANGED chatPage

\* The row of a request that ends leaves the conversation.
RequestEnded(caps, r, status, text) ==
    [caps EXCEPT !.rows[r].status = status, !.rows[r].answer = text,
        !.rows[r].done = @ \/ status = "completed",
        !.active = IF @ = r THEN NoneRecorded ELSE @]

\* bridge_browser_completed settles the row first.
FinalSettle ==
    /\ final.step = "sent" /\ final.kind = "ping"
    /\ IF /\ final.request \in relay.contexts /\ chatPage.here /\ Row(final.request).bound
          /\ Row(final.request).status \notin {"stop_requested", "stopped", "failed"}
       THEN /\ captures' = [RequestEnded(captures, final.request, "completed", final.text)
                               EXCEPT !.final.step = "settled"]
            /\ UNCHANGED <<chatPage, recorder, relay>>
       ELSE FinalReply(captures, FALSE)
    /\ UNCHANGED captureLog

\* bridge_result settles it last and asks nothing of its status.
Concluded(caps) ==
    IF final.kind = "ping" THEN FinalReply(caps, TRUE)
    ELSE IF Row(final.request).bound \/ final.kind = "failed"
         THEN FinalReply(RequestEnded(caps, final.request, final.kind, final.text), TRUE)
         ELSE FinalReply(caps, FALSE)

\* retain_result reads the snapshot, then writes it through the upsert.
FinalRead ==
    LET snap == Row(final.request).snap
        completed == final.kind \in {"ping", "completed"}
    IN /\ final.step = IF final.kind = "ping" THEN "settled" ELSE "sent"
       /\ IF final.kind # "ping" /\ final.request \notin relay.contexts
          THEN FinalReply(captures, FALSE)
          ELSE IF \/ final.text = {} \/ ~Row(final.request).bound
                  \/ snap.text = final.text /\ (~completed \/ snap.completed)
               THEN Concluded(captures)
          ELSE /\ captures' = [captures EXCEPT !.final.step = "read", !.final.read = snap]
               /\ UNCHANGED <<chatPage, recorder, relay>>
       /\ UNCHANGED captureLog

FinalWrite ==
    LET r == final.request
        new == [final.read EXCEPT !.text = final.text, !.revision = @ + 1,
                                  !.completed = final.kind \in {"ping", "completed"}]
    IN /\ final.step = "read"
       /\ Concluded([captures EXCEPT !.rows = Persisted(@, r, new)])
       /\ captureLog' = [captureLog EXCEPT !.cut = @ \/
              (Accepts(Row(r).snap, new) /\ ~(Row(r).snap.text \subseteq new.text))]

\* The final message of the MCP turn, and any read of the request that finds it.
McpFinal(r) ==
    /\ Row(r).bound /\ ~Row(r).done /\ Row(r).status \in Live
    /\ Upset /\ captureLog' = Upsets
    /\ captures' = [captures EXCEPT !.rows[r].done = TRUE]
    /\ UNCHANGED <<chatPage, recorder, relay>>
FinalDetected(r) ==
    /\ Row(r).done /\ Row(r).status \in Live
    /\ captures' = RequestEnded(captures, r, "completed", Row(r).answer)
    /\ UNCHANGED <<chatPage, recorder, relay, captureLog>>

StopAsked ==
    /\ captures.active # NoneRecorded /\ Row(captures.active).status \in {"queued", "running"}
    /\ Upset /\ captureLog' = Upsets
    /\ captures' = [captures EXCEPT !.rows[captures.active].status = "stop_requested"]
    /\ UNCHANGED <<chatPage, recorder, relay>>

-----------------------------------------------------------------------------
(* Turns typed in the page, and what is left after a reload.                 *)

\* adopt: with the checkpoint of this turn if there is one.
Adopted(rec, r, by, ended) ==
    LET k == recorder.kept[r]
        fresh == [NoOwner EXCEPT !.request = r, !.by = by, !.phase = "binding", !.active = TRUE,
                    !.bound = TRUE, !.dirty = TRUE, !.ended = ended,
                    !.stop = Row(r).status = "stop_requested", !.turn = Latest(chatPage)]
        o == IF k.turn = Latest(chatPage)
             THEN [fresh EXCEPT !.text = k.text, !.revision = k.revision, !.complete = k.completed]
             ELSE [fresh EXCEPT !.revision = RevisionNow(fresh)]
    IN Become(rec, Go(Flushed(o, FALSE)))

TickAsk ==
    LET t == Latest(chatPage) IN
    /\ chatPage.here /\ t # NoTurn /\ ~recorder.fresh
    /\ t \notin recorder.seen /\ recorder.tick = NoTick
    /\ owner = NoOwner
    /\ recorder' = [recorder EXCEPT !.tick.turn = t]
    /\ UNCHANGED <<chatPage, relay, captures, captureLog>>

MutPrior(t) == {r \in CaptureRequests : Row(r).status # "none" /\ r = t}
\* A request that already has this turn: its own native one, or whose snapshot is of it.
Prior(t) ==
    {r \in CaptureRequests : Row(r).bound /\ (r = t \/ Row(r).snap.turn = t)}

\* A new native turn stops the active request of the conversation.
Enrolled(t) ==
    LET active == captures.active
        rows == [captures.rows EXCEPT ![t].status = "running", ![t].bound = TRUE]
    IN [captures EXCEPT !.active = t,
            !.rows = IF active # NoneRecorded /\ active # t /\ Row(active).status \in Live
                     THEN [rows EXCEPT ![active].status = "stopped"] ELSE rows]

\* handleNativeTurn: the marker's own request, or an enrolment.  A marker whose lookup
\* fails is taken for an unrelated one.
TickServed ==
    LET t == recorder.tick.turn
        marked == chatPage.marked[t]
        Serve(r, caps, chat) ==
            /\ captures' = caps
            /\ relay' = [contexts |-> relay.contexts \union {r}, named |-> r]
            /\ recorder' = [recorder EXCEPT !.tick.request = r, !.tick.chat = chat,
                  !.tick.ended = caps.rows[r].status = "completed" /\ caps.rows[r].done]
    IN /\ t # NoTurn /\ recorder.tick.request = NoneRecorded /\ chatPage.here
       /\ \/ /\ marked
             /\ IF Row(Dispatched).status \in {"running", "queued", "completed"}
                THEN Serve(Dispatched, captures, TRUE)
                ELSE /\ recorder' = [recorder EXCEPT !.tick = NoTick, !.seen = @ \union {t}]
                     /\ UNCHANGED <<captures, relay>>
             /\ UNCHANGED <<chatPage, captureLog>>
          \/ /\ \E r \in IF Prior(t) = {} THEN {t} ELSE Prior(t) :
                LET caps == IF Prior(t) = {} THEN Enrolled(t) ELSE captures
                IN Serve(r, [caps EXCEPT !.rows = Persisted(@, r,
                                [NoSnap EXCEPT !.turn = t, !.revision = 1])], FALSE)
             /\ captureLog' = [captureLog EXCEPT !.misread = @ \/
                    (marked /\ \A r \in CaptureRequests : Row(r).snap.turn # t)]
             /\ UNCHANGED chatPage

\* The page may have gone on meanwhile.
TickReply ==
    LET k == recorder.tick
        rec == [recorder EXCEPT !.tick = NoTick]
    IN /\ k.request # NoneRecorded
       /\ recorder' =
            IF Latest(chatPage) # k.turn \/ owner # NoOwner \/ ~chatPage.here THEN rec
            ELSE LET known == [rec EXCEPT !.seen = @ \union {k.turn}]
                 IN IF k.ended /\ ~k.chat THEN known
                    ELSE Adopted(known, k.request, "tick", k.ended)
       /\ UNCHANGED <<chatPage, relay, captures, captureLog>>

\* Once after a reload: the only request of the tab, if its checkpoint is of this turn.
Resume ==
    LET rec == [recorder EXCEPT !.fresh = FALSE] IN
    /\ recorder.fresh
    /\ recorder' =
        IF /\ Cardinality(relay.contexts) = 1 /\ owner = NoOwner /\ chatPage.here
           /\ \A r \in relay.contexts :
                /\ Row(r).bound /\ Row(r).status \in {"running", "completed", "stop_requested"}
                /\ recorder.kept[r].turn = Latest(chatPage)
        THEN LET r == CHOOSE x \in relay.contexts : TRUE
             IN Adopted(rec, r, "resume", Row(r).status = "completed" /\ Row(r).done)
        ELSE rec
    /\ UNCHANGED <<chatPage, relay, captures, captureLog>>

CaptureNext ==
    \/ UserTypes \/ AnswerGrows \/ AnswerEnds \/ Leaves \/ PageReloads
    \/ Send \/ RunArrives \/ RecorderCreated \/ Submit \/ SubmitFails
    \/ StartedPost \/ StartedServed \/ StartedLost
    \/ TimerFires \/ RecorderLost \/ FlightFails
    \/ \E m \in recorder.posts : Delivered(m)
    \/ Settles \/ StopLearned \/ DeadlinePasses \/ EndsQuietly
    \/ FinalPost \/ FinalSettle \/ FinalRead \/ FinalWrite
    \/ \E r \in CaptureRequests : McpFinal(r) \/ FinalDetected(r)
    \/ StopAsked
    \/ TickAsk \/ TickServed \/ TickReply \/ Resume

CaptureSpec == CaptureInit /\ [][CaptureNext]_captureVars

-----------------------------------------------------------------------------
Snaps == [turn : {NoTurn} \union PageTurns, text : SUBSET (PageTurns \X Nat), revision : Nat,
          completed : BOOLEAN]
CaptureTypes ==
    /\ chatPage.answer \subseteq PageTurns \X Nat /\ Len(chatPage.marked) <= MaxPrompts
    /\ \A r \in CaptureRequests :
        /\ Row(r).status \in Live \union {"none", "stopped", "completed", "failed"}
        /\ Row(r).snap \in Snaps /\ recorder.kept[r] \in Snaps
    /\ \A m \in recorder.posts : m.snap \in Snaps
    /\ owner.request \in CaptureRequests \union {NoneRecorded}
    /\ owner.flight <= owner.revision
    /\ relay.contexts \subseteq CaptureRequests

\* What is stored for a request is of its own user turn only, whatever is typed, sent or
\* reloaded meanwhile: a new turn or conversation stops the recorder of the old one
\* (docs/CHATGPT_THINK.md).
OwnTurn ==
    \A r \in CaptureRequests :
        \A t \in {p[1] : p \in Row(r).snap.text} \union ({Row(r).snap.turn} \ {NoTurn}) :
            IF r = Dispatched THEN chatPage.marked[t] ELSE t = r

\* A recorder that has everything acknowledged has it stored, messages lost, late or
\* repeated notwithstanding; but for an answer that grew after its request was completed
\* and reloaded, and for a result that was cut back to what the page had reported.
SyncedIsStored ==
    owner.bound /\ owner.active /\ ~owner.dirty =>
        \/ owner.text \subseteq Row(owner.request).snap.text
        \/ Row(owner.request).snap.completed /\ ~owner.complete
        \/ captureLog.cut

\* What is not acknowledged is always about to be sent again: a timer, or a message
\* whose reply sends the rest.
TrailingKept ==
    CanSend(owner) /\ owner.dirty => owner.timer \/ owner.flight # 0

\* A request the page reported as completed has that answer stored, as final; but while
\* it is reported again after a result was cut back.
FinalStored ==
    \A r \in CaptureRequests :
        Row(r).status = "completed" /\ Row(r).answer # {} =>
            \/ Row(r).snap.completed /\ Row(r).answer \subseteq Row(r).snap.text
            \/ captureLog.cut /\ final.request = r

\* No user turn is recorded under two requests, unless the marker's lookup failed
\* before anything of the turn was stored.
OneRequestPerTurn ==
    captureLog.misread \/
        \A r, q \in CaptureRequests :
            Row(r).snap.turn = Row(q).snap.turn /\ Row(r).snap.turn # NoTurn => r = q

\* A captured answer is stored, whole and for its own request only.  docs/CHATGPT_THINK.md:26 and 72
\* promise it without exception; the code has two.  A final result that is shorter than the stored
\* answer replaces it (`cut`), and a turn whose marker could not be looked up is enrolled a second
\* time (`misread`).
CaptureSafe ==
    OwnTurn /\ SyncedIsStored /\ TrailingKept /\ FinalStored /\ OneRequestPerTurn
=============================================================================
