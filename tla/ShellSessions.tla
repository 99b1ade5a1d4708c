----------------------------- MODULE ShellSessions -----------------------------
(***************************************************************************)
(* Interactive shells (chatcmd-runtime shell, runtime_host dispatch and      *)
(* terminal_lifecycle): sessions that calls create, write to, wait for and   *)
(* close, the reaper that retires them, their bounded replay, the bridge     *)
(* that publishes it live, and the rows the host keeps of them.              *)
(***************************************************************************)
EXTENDS Integers, Sequences, FiniteSets, SequencesExt

CONSTANTS
    Requests,       \* request ids a client may use again
    MaxSessions,    \* RuntimeConfig.max_sessions
    MaxRetired,     \* 64 in retire_session
    MaxReplay,      \* RuntimeConfig.max_replay_bytes
    MaxEvents,      \* RuntimeConfig.max_replay_events
    MaxChunk,       \* RuntimeConfig.shell_output_chunk_bytes
    Bounds          \* bounds, one of them chosen: [printed, calls, hosts], the bytes a session
                    \* prints, the calls and the starts of the host

ASSUME ShellAssumption ==
    /\ MaxRetired \in Nat /\ MaxReplay \in Nat /\ MaxEvents \in Nat /\ MaxChunk \in Nat
    /\ \A b \in Bounds : b.printed \in Nat /\ b.calls \in Nat /\ b.hosts \in Nat

VARIABLES
    open,           \* inner.sessions
    retired,        \* inner.retired_sessions
    child,          \* the shell's process
    exited,         \* Session.exited
    reaping,        \* the reaper has taken the session out of open
    told,           \* the shell was told to end, or killed
    replay,         \* Session.output, and what the pty printed that is not in it yet
    completed_requests,
    in_flight_requests,
    calls,          \* the calls; a session and its bridge have the number of the call that made them
    bridges,
    statuses,       \* terminal_sessions.status
    made,           \* calls so far
    hosts,
    bounds

shellVars == <<open, retired, child, exited, reaping, told, replay, completed_requests, in_flight_requests, calls, bridges, statuses, made, hosts, bounds>>

ShellOver == {"exited", "closed", "interrupted"}
Sessions == 1..bounds.calls
NoSession == 0
NoShellCall == [at |-> "idle", op |-> "none", req |-> "none", s |-> NoSession, status |-> "none", shut |-> {}]
NoBridge == [at |-> "none", s |-> NoSession, cursor |-> 0, seen |-> 0]
EmptyReplay == [events |-> <<>>, latest |-> 0, bytes |-> 0, lost |-> 0, lostEvents |-> 0, truncated |-> FALSE,
                waiting |-> 0, printed |-> 0]

ShellTypes ==
    /\ open \subseteq Sessions /\ Range(retired) \subseteq Sessions /\ Len(retired) <= MaxRetired
    /\ child \in [Sessions -> {"none", "running", "exited"}] /\ exited \in [Sessions -> BOOLEAN]
    /\ reaping \subseteq Sessions /\ told \subseteq Sessions
    /\ \A s \in Sessions : replay[s].waiting \in 0..bounds.printed /\ replay[s].printed \in 0..bounds.printed
    /\ DOMAIN completed_requests \subseteq Requests /\ in_flight_requests \subseteq Requests
    /\ \A c \in Sessions : calls[c].s \in Sessions \cup {NoSession} /\ calls[c].req \in Requests \cup {"none"}
    /\ \A n \in DOMAIN bridges : bridges[n].at \in {"none", "read", "look", "over", "blind"}
    /\ statuses \in [Sessions -> {"none", "running"} \cup ShellOver]
    /\ made \in 0..bounds.calls /\ hosts \in 0..bounds.hosts

ShellInit ==
    /\ bounds \in Bounds /\ open = {} /\ retired = <<>> /\ child = [s \in Sessions |-> "none"] /\ exited = [s \in Sessions |-> FALSE]
    /\ reaping = {} /\ told = {} /\ replay = [s \in Sessions |-> EmptyReplay]
    /\ completed_requests = <<>> /\ in_flight_requests = {} /\ calls = [c \in Sessions |-> NoShellCall]
    /\ bridges = [n \in 1..bounds.calls |-> NoBridge] /\ statuses = [s \in Sessions |-> "none"] /\ made = 0 /\ hosts = 0

-----------------------------------------------------------------------------
\* find_session: the open ones, then the retired ones; not one that is on its way.
find_session(s) == s \in open \/ s \in Range(retired)

\* The second half of retire_session: the oldest of too many is forgotten.
Retained(s) == LET longer == Append(retired, s) IN IF Len(longer) > MaxRetired THEN Tail(longer) ELSE longer

\* RequestGuard::drop
CallEnds(c) ==
    /\ calls' = [calls EXCEPT ![c] = NoShellCall]
    /\ in_flight_requests' = IF calls[c].at \in {"begun", "admitted", "spawned", "written"} THEN in_flight_requests \ {calls[c].req} ELSE in_flight_requests

\* A call about a session, at its first step.
CallStarts(c, at, op, s, status) ==
    /\ c = made + 1 /\ made' = c
    /\ calls' = [calls EXCEPT ![c] = [NoShellCall EXCEPT !.at = at, !.op = op, !.s = s, !.status = status]]

CallGoes(c, to) == calls' = [calls EXCEPT ![c].at = to]

CallsOnly == UNCHANGED <<open, retired, child, exited, reaping, told, replay, bridges, statuses, made, hosts, bounds>>

-----------------------------------------------------------------------------
\* OutputBuffer::push: what is over a limit goes at the front.
BytesOf(events) == FoldLeft(LAMBDA n, e : n + e.bytes, 0, events)
Fits(events) == BytesOf(events) <= MaxReplay /\ Len(events) <= MaxEvents
Bounded(b) ==
    LET from(k) == SubSeq(b.events, k + 1, Len(b.events))
        gone == CHOOSE k \in 0..Len(b.events) : Fits(from(k)) /\ \A j \in 0..(k - 1) : ~Fits(from(j))
        lost == BytesOf(SubSeq(b.events, 1, gone))
    IN [b EXCEPT !.events = from(gone), !.bytes = @ - lost, !.lost = @ + lost, !.lostEvents = @ + gone,
                 !.truncated = @ \/ gone > 0]

Mutpush(b, n) ==
    Bounded([b EXCEPT !.latest = Len(b.events) + 1, !.bytes = @ + n, !.waiting = @ - n,
                      !.events = Append(@, [sequence |-> Len(b.events) + 1, bytes |-> n])])

push(b, n) ==
    Bounded([b EXCEPT !.latest = @ + 1, !.bytes = @ + n, !.waiting = @ - n,
                      !.events = Append(@, [sequence |-> b.latest + 1, bytes |-> n])])

PtyOutput(s) ==
    /\ child[s] = "running" /\ replay[s].printed < bounds.printed
    /\ replay' = [replay EXCEPT ![s].printed = @ + 1, ![s].waiting = @ + 1]
    /\ UNCHANGED <<open, retired, child, exited, reaping, told, completed_requests, in_flight_requests, calls, bridges, statuses, made, hosts, bounds>>

\* The coalescer cuts a full chunk, or flushes what there is when its latency is over.
append_output(s) ==
    /\ \E n \in 1..MaxChunk : n <= replay[s].waiting /\ replay' = [replay EXCEPT ![s] = push(@, n)]
    /\ UNCHANGED <<open, retired, child, exited, reaping, told, completed_requests, in_flight_requests, calls, bridges, statuses, made, hosts, bounds>>

\* The shell ends by itself, or by a signal.
ShellExit(s) ==
    /\ child[s] = "running" /\ child' = [child EXCEPT ![s] = "exited"]
    /\ UNCHANGED <<open, retired, exited, reaping, told, replay, completed_requests, in_flight_requests, calls, bridges, statuses, made, hosts, bounds>>

\* spawn_session_reaper, and the coalescer at the end of the output.
Reap(s) ==
    /\ child[s] = "exited" /\ ~exited[s]
    /\ exited' = [exited EXCEPT ![s] = TRUE]
    /\ open' = open \ {s} /\ reaping' = IF s \in open THEN reaping \cup {s} ELSE reaping
    /\ UNCHANGED <<retired, child, told, replay, completed_requests, in_flight_requests, calls, bridges, statuses, made, hosts, bounds>>

Reaped(s) ==
    /\ s \in reaping /\ reaping' = reaping \ {s} /\ retired' = Retained(s)
    /\ UNCHANGED <<open, child, exited, told, replay, completed_requests, in_flight_requests, calls, bridges, statuses, made, hosts, bounds>>

-----------------------------------------------------------------------------
\* cached: the answer of an earlier call with this request id.
Ask(c, op, req, s) ==
    /\ c = made + 1 /\ made' = c
    /\ IF req \in DOMAIN completed_requests
       THEN calls' = [calls EXCEPT ![c] = IF op = "create" THEN [NoShellCall EXCEPT !.at = "persist", !.op = op, !.req = req,
                                                !.s = completed_requests[req]] ELSE NoShellCall]
       ELSE calls' = [calls EXCEPT ![c] = [NoShellCall EXCEPT !.at = "looked", !.op = op, !.req = req, !.s = s]]
    /\ UNCHANGED <<open, retired, child, exited, reaping, told, replay, completed_requests, in_flight_requests, bridges, statuses, hosts, bounds>>

begin_request(c) ==
    /\ calls[c].at = "looked" /\ UNCHANGED completed_requests
    /\ IF calls[c].req \in in_flight_requests
       THEN calls' = [calls EXCEPT ![c] = NoShellCall] /\ UNCHANGED in_flight_requests
       ELSE in_flight_requests' = in_flight_requests \cup {calls[c].req} /\ CallGoes(c, "begun")
    /\ CallsOnly

\* create drops the sessions whose shell has exited before it counts; nothing retires them.
Admit(c) ==
    /\ calls[c].at = "begun" /\ calls[c].op = "create"
    /\ LET done == {s \in open : child[s] = "exited"} IN
         /\ open' = open \ done
         /\ exited' = [s \in Sessions |-> s \in done \/ exited[s]]
         /\ IF Cardinality(open \ done) >= MaxSessions THEN CallEnds(c) ELSE CallGoes(c, "admitted") /\ UNCHANGED in_flight_requests
    /\ UNCHANGED <<retired, child, reaping, told, replay, completed_requests, bridges, statuses, made, hosts, bounds>>

SpawnShell(c) ==
    /\ calls[c].at = "admitted"
    /\ \/ /\ child' = [child EXCEPT ![c] = "running"] /\ open' = open \cup {c}
          /\ calls' = [calls EXCEPT ![c].at = "spawned", ![c].s = c] /\ UNCHANGED in_flight_requests
       \/ CallEnds(c) /\ UNCHANGED <<child, open>>
    /\ UNCHANGED <<retired, exited, reaping, told, replay, completed_requests, bridges, statuses, made, hosts, bounds>>

\* A cancelled create kills what it started, as well as it can, and retires it.
Cancelled(c) ==
    LET s == calls[c].s IN
    /\ calls[c].at = "spawned"
    /\ \/ child' = [child EXCEPT ![s] = "exited"] \/ UNCHANGED child
    /\ told' = told \cup {s}
    /\ open' = open \ {s} /\ retired' = IF s \in open THEN Retained(s) ELSE retired
    /\ CallEnds(c)
    /\ UNCHANGED <<exited, reaping, replay, completed_requests, bridges, statuses, made, hosts, bounds>>

\* store_cached
store_cached(c) == [r \in DOMAIN completed_requests \cup {calls[c].req} |-> IF r = calls[c].req THEN calls[c].s ELSE completed_requests[r]]

Created(c) ==
    /\ calls[c].at = "spawned" /\ CallGoes(c, "persist")
    /\ completed_requests' = store_cached(c) /\ in_flight_requests' = in_flight_requests \ {calls[c].req}
    /\ CallsOnly

\* persist_shell_session, also of a session an earlier call created; then its bridge starts.
persist_shell_session(c) ==
    /\ calls[c].at = "persist"
    /\ \/ /\ statuses' = [statuses EXCEPT ![calls[c].s] = "running"]
          /\ bridges' = [bridges EXCEPT ![c] = [NoBridge EXCEPT !.at = "read", !.s = calls[c].s]]
       \/ UNCHANGED <<statuses, bridges>>
    /\ calls' = [calls EXCEPT ![c] = NoShellCall]
    /\ UNCHANGED <<open, retired, child, exited, reaping, told, replay, completed_requests, in_flight_requests, made, hosts, bounds>>

\* write: to an open session; the answer is kept if nothing fails after the text is written.
Write(c) ==
    /\ calls[c].at = "begun" /\ calls[c].op = "write"
    /\ IF calls[c].s \in open THEN CallGoes(c, "written") /\ UNCHANGED in_flight_requests ELSE CallEnds(c)
    /\ UNCHANGED completed_requests /\ CallsOnly

WriteDone(c) ==
    /\ calls[c].at = "written" /\ CallEnds(c)
    /\ completed_requests' = store_cached(c) \/ UNCHANGED completed_requests
    /\ CallsOnly

-----------------------------------------------------------------------------
\* wait: a shell that has exited is retired before the answer.
Wait(c, s) ==
    /\ find_session(s) /\ child[s] = "exited"
    /\ CallStarts(c, IF s \in open THEN "push" ELSE "row", "wait", s, "exited")
    /\ exited' = [exited EXCEPT ![s] = TRUE] /\ open' = open \ {s}
    /\ UNCHANGED <<retired, child, reaping, told, replay, completed_requests, in_flight_requests, bridges, statuses, hosts, bounds>>

Mutclose(c, s, force, status) ==
    /\ find_session(s) /\ CallStarts(c, IF s \in open THEN "push" ELSE "row", "close", s, status)
    /\ child' = [child EXCEPT ![s] = IF force /\ @ = "running" THEN "exited" ELSE @]
    /\ told' = IF force THEN told \cup {s} ELSE told
    /\ open' = open \ {s}
    /\ UNCHANGED <<retired, exited, reaping, replay, completed_requests, in_flight_requests, bridges, statuses, hosts, bounds>>

\* close: killed, or asked to exit as long as its input is open; retired either way.
close(c, s, force, status) ==
    /\ find_session(s) /\ CallStarts(c, IF s \in open THEN "push" ELSE "row", "close", s, status)
    /\ child' = [child EXCEPT ![s] = IF force /\ @ = "running" THEN "exited" ELSE @]
    /\ told' = IF force \/ s \in open THEN told \cup {s} ELSE told
    /\ open' = open \ {s}
    /\ UNCHANGED <<retired, exited, reaping, replay, completed_requests, in_flight_requests, bridges, statuses, hosts, bounds>>

Push(c) ==
    /\ calls[c].at = "push" /\ CallGoes(c, "row") /\ retired' = Retained(calls[c].s)
    /\ UNCHANGED <<open, child, exited, reaping, told, replay, completed_requests, in_flight_requests, bridges, statuses, made, hosts, bounds>>

update_session_status(c) ==
    /\ calls[c].at = "row" /\ calls[c].op \in {"wait", "close"}
    /\ statuses' = [statuses EXCEPT ![calls[c].s] = IF @ = "none" THEN @ ELSE calls[c].status]
    /\ calls' = [calls EXCEPT ![c] = NoShellCall]
    /\ UNCHANGED <<open, retired, child, exited, reaping, told, replay, completed_requests, in_flight_requests, bridges, made, hosts, bounds>>

\* session_action of the interface: a session that is not found has its row closed all the same.
session_action(c, s, status) ==
    /\ ~find_session(s) /\ statuses[s] # "none" /\ CallStarts(c, "row", "close", s, status)
    /\ UNCHANGED <<open, retired, child, exited, reaping, told, replay, completed_requests, in_flight_requests, bridges, statuses, hosts, bounds>>

\* Those whose rows run are looked up, closed one by one, and then all rows that run are closed:
\* by a stop of the task and the timeout of a child, which kill; at the next turn and before a
\* new shell those that are not busy are asked to exit, and no more rows are closed.
StartStop(c, how) ==
    LET found == {s \in Sessions : statuses[s] = "running"} IN
    /\ c = made + 1 /\ made' = c
    /\ \E shut \in IF how = "stop" THEN {found \cap open} ELSE IF how = "timeout" THEN {found} ELSE SUBSET found :
         calls' = [calls EXCEPT ![c] = [NoShellCall EXCEPT !.at = "stopping", !.op = how, !.shut = shut,
                                        !.status = IF how = "timeout" THEN "interrupted" ELSE "closed"]]
    /\ UNCHANGED <<open, retired, child, exited, reaping, told, replay, completed_requests, in_flight_requests, bridges, statuses, hosts, bounds>>

StopOne(c) ==
    /\ calls[c].at = "stopping"
    /\ \E s \in calls[c].shut :
         /\ calls' = [calls EXCEPT ![c].shut = @ \ {s}]
         /\ IF find_session(s)
            THEN /\ child' = [child EXCEPT ![s] = IF calls[c].op # "turn" /\ @ = "running" THEN "exited" ELSE @]
                 /\ told' = told \cup {s}
                 /\ open' = open \ {s} /\ retired' = IF s \in open THEN Retained(s) ELSE retired
            ELSE UNCHANGED <<child, told, open, retired>>
         /\ statuses' = IF calls[c].op = "turn" THEN [statuses EXCEPT ![s] = IF @ = "running" THEN "closed" ELSE @] ELSE statuses
    /\ UNCHANGED <<exited, reaping, replay, completed_requests, in_flight_requests, bridges, made, hosts, bounds>>

Stopped(c) ==
    /\ calls[c].at = "stopping" /\ calls[c].shut = {}
    /\ statuses' = IF calls[c].op = "turn" THEN statuses
               ELSE [s \in Sessions |-> IF statuses[s] = "running" THEN calls[c].status ELSE statuses[s]]
    /\ calls' = [calls EXCEPT ![c] = NoShellCall]
    /\ UNCHANGED <<open, retired, child, exited, reaping, told, replay, completed_requests, in_flight_requests, bridges, made, hosts, bounds>>

-----------------------------------------------------------------------------
\* What a read answers: the events after a cursor that are still there, in their order.
Later(s, cursor) == {i \in DOMAIN replay[s].events : replay[s].events[i].sequence > cursor}
After(s, cursor) ==
    LET later == Later(s, cursor) IN
    [k \in 1..Cardinality(later) |->
        replay[s].events[CHOOSE i \in later : Cardinality({j \in later : j <= i}) = k]]
Oldest(s) == IF replay[s].events = <<>> THEN replay[s].latest + 1 ELSE Head(replay[s].events).sequence
Gap(s, cursor) == replay[s].truncated \/ cursor + 1 < Oldest(s)

\* read_when_available, and the bridge that publishes each event after its cursor.
BridgeRead(n) ==
    LET b == bridges[n] IN
    /\ b.at = "read"
    /\ IF ~find_session(b.s) THEN bridges' = [bridges EXCEPT ![n].at = "blind"]
       ELSE /\ replay[b.s].latest > b.cursor \/ exited[b.s]
            /\ bridges' = [bridges EXCEPT ![n] =
                 IF After(b.s, b.cursor) = <<>> THEN [b EXCEPT !.at = "look"]
                 ELSE [b EXCEPT !.cursor = Last(After(b.s, b.cursor)).sequence, !.seen = @ + Len(After(b.s, b.cursor))]]
    /\ UNCHANGED <<open, retired, child, exited, reaping, told, replay, completed_requests, in_flight_requests, calls, statuses, made, hosts, bounds>>

\* Nothing to publish: an exited shell is announced as closed and its row says so.
BridgeLook(n) ==
    LET b == bridges[n] IN
    /\ b.at = "look"
    /\ IF ~find_session(b.s) THEN bridges' = [bridges EXCEPT ![n].at = "blind"] /\ UNCHANGED statuses
       ELSE IF child[b.s] # "exited" THEN bridges' = [bridges EXCEPT ![n].at = "read"] /\ UNCHANGED statuses
       ELSE \/ bridges' = [bridges EXCEPT ![n].at = "over"] /\ statuses' = [statuses EXCEPT ![b.s] = "exited"]
            \/ bridges' = [bridges EXCEPT ![n].at = "blind"] /\ UNCHANGED statuses
    /\ UNCHANGED <<open, retired, child, exited, reaping, told, replay, completed_requests, in_flight_requests, calls, made, hosts, bounds>>

\* The host ends and starts: what it knew of is gone, its processes are killed as well as they
\* can be, and the rows that run are interrupted.
bootstrap ==
    /\ hosts < bounds.hosts /\ hosts' = hosts + 1
    /\ open' = {} /\ retired' = <<>> /\ reaping' = {} /\ completed_requests' = <<>> /\ in_flight_requests' = {}
    /\ calls' = [c \in Sessions |-> NoShellCall] /\ bridges' = [n \in 1..bounds.calls |-> NoBridge]
    /\ \E left \in SUBSET {s \in Sessions : child[s] = "running"} :
         child' = [s \in Sessions |-> IF child[s] = "running" /\ s \notin left THEN "exited" ELSE child[s]]
    /\ told' = {s \in Sessions : child[s] # "none"}
    /\ exited' = [s \in Sessions |-> child[s] # "none"]
    /\ statuses' = [s \in Sessions |-> IF statuses[s] = "running" THEN "interrupted" ELSE statuses[s]]
    /\ UNCHANGED <<replay, made, bounds>>

ShellNext ==
    \/ \E s \in Sessions : PtyOutput(s) \/ append_output(s) \/ ShellExit(s) \/ Reap(s) \/ Reaped(s)
    \/ \E c \in Sessions :
        \/ \E r \in Requests : Ask(c, "create", r, NoSession) \/ \E s \in Sessions : child[s] # "none" /\ Ask(c, "write", r, s)
        \/ begin_request(c) \/ Admit(c) \/ SpawnShell(c) \/ Cancelled(c) \/ Created(c) \/ persist_shell_session(c)
        \/ Write(c) \/ WriteDone(c)
        \/ \E s \in Sessions : Wait(c, s) \/ session_action(c, s, "closed")
                               \/ close(c, s, FALSE, "closed") \/ close(c, s, TRUE, "interrupted")
        \/ Push(c) \/ update_session_status(c)
        \/ \E how \in {"turn", "stop", "timeout"} : StartStop(c, how)
        \/ StopOne(c) \/ Stopped(c)
    \/ \E n \in DOMAIN bridges : BridgeRead(n) \/ BridgeLook(n)
    \/ bootstrap

-----------------------------------------------------------------------------
\* The replay of a shell is the end of what it printed: its sequence numbers have no gap, what
\* is no longer there is counted, and every byte is there, counted or still to come.
ReplayExact ==
    \A s \in Sessions :
        LET b == replay[s] IN
        /\ \A i \in DOMAIN b.events : b.events[i].sequence = b.lostEvents + i
        /\ b.latest = b.lostEvents + Len(b.events)
        /\ b.lost + BytesOf(b.events) + b.waiting = b.printed /\ b.bytes = BytesOf(b.events)
        /\ b.truncated <=> b.lostEvents > 0

\* A read that reports no gap misses nothing after its cursor.
ReadsTell ==
    \A s \in Sessions : \A cursor \in 0..replay[s].latest :
        ~Gap(s, cursor) => Len(After(s, cursor)) = replay[s].latest - cursor

\* A bridge publishes every event up to its cursor that the replay had not lost.
LiveComplete ==
    \A n \in DOMAIN bridges :
        bridges[n].s # NoSession => bridges[n].cursor - bridges[n].seen <= replay[bridges[n].s].lostEvents

\* Of this host's shells, one that still runs and was never told to end is an open session.
NoneForgotten ==
    \A s \in Sessions : child[s] = "running" /\ s \notin told => s \in open

\* A row says running only while a bridge looks after its session, or has lost sight of it:
\* nothing else leaves it so.
RowsSettle ==
    \A s \in Sessions : statuses[s] = "running" =>
        \E n \in DOMAIN bridges : bridges[n].s = s /\ bridges[n].at \in {"read", "look", "blind"}

ShellsSafe == ReplayExact /\ ReadsTell /\ LiveComplete /\ NoneForgotten /\ RowsSettle
=============================================================================
