----------------------------- MODULE MessageQueue -----------------------------
(***************************************************************************)
(* The messages a user writes while a chat is busy (api/chatgpt_queue,       *)
(* chatgpt_queue, runtime_host/queued_messages).  Those in immediate mode go *)
(* into the answer of the next tool call of the task; the others wait.  Each *)
(* request asks whether the task is active before it writes a mode, in a     *)
(* statement of its own.                                                     *)
(***************************************************************************)
EXTENDS Naturals, Sequences, FiniteSets

CONSTANTS
    Messages,       \* ids of messages, one create request each
    Desk,           \* requests that change a message or their order
    MaxTurns        \* bound: turns the task starts again

ASSUME QueueAssumption == IsFiniteSet(Messages) /\ MaxTurns \in Nat

VARIABLES
    rows,       \* chatgpt_message_queue: [id -> row]
    creating,   \* what each create request has read
    changing,   \* what the other requests have read
    active,     \* the task runs and its request is under way
    settling,   \* a final was stored and its demotion is due
    carried,    \* the messages each answer of a tool carried, in order
    dropped,    \* messages the user deleted
    turns

queueVars == <<rows, creating, changing, active, settling, carried, dropped, turns>>

Modes == {"queued", "immediate"}
NotCreated == [at |-> "idle", mode |-> "queued", order |-> 0]
NoChangeAsked == [at |-> "idle", kind |-> "list", of |-> <<>>, mode |-> "queued"]

QueueTypes ==
    /\ rows \in [DOMAIN rows -> [mode : Modes, order : Nat, born : Nat]]
    /\ creating \in [Messages -> [at : {"idle", "moded", "ordered", "done"}, mode : Modes, order : Nat]]
    /\ changing \in [Desk -> [at : {"idle", "looked", "done"}, kind : {"list", "mode", "order"},
                              of : UNION {[1..n -> Messages] : n \in 0..Cardinality(Messages)}, mode : Modes]]
    /\ active \in BOOLEAN /\ settling \in BOOLEAN
    /\ DOMAIN rows \subseteq Messages /\ dropped \subseteq Messages /\ turns \in 0..MaxTurns

QueueInit ==
    /\ rows = << >> /\ creating = [m \in Messages |-> NotCreated]
    /\ changing = [d \in Desk |-> NoChangeAsked]
    /\ active = TRUE /\ settling = FALSE /\ carried = << >> /\ dropped = {} /\ turns = 0

\* ORDER BY sort_order, created_at_ms, id
Before(m, n) == rows[m].order < rows[n].order \/ (rows[m].order = rows[n].order /\ rows[m].born < rows[n].born)
Listed(S) == CHOOSE s \in [1..Cardinality(S) -> S] :
                \A i, j \in 1..Cardinality(S) : i < j => Before(s[i], s[j])
MaxOrder == IF DOMAIN rows = {} THEN 0
            ELSE LET top == CHOOSE m \in DOMAIN rows : \A n \in DOMAIN rows : rows[n].order <= rows[m].order
                 IN rows[top].order
Born == Cardinality({m \in Messages : creating[m].at = "done"}) + 1
Rest(S) == [m \in DOMAIN rows \ S |-> rows[m]]

\* immediate_allowed, as the request sees it.
Allowed(mode) == IF active THEN mode ELSE "queued"

-----------------------------------------------------------------------------
\* create_queue_message
choose_mode(m, mode) ==
    /\ creating[m].at = "idle"
    /\ creating' = [creating EXCEPT ![m].at = "moded", ![m].mode = Allowed(mode)]
    /\ UNCHANGED <<rows, changing, active, settling, carried, dropped, turns>>

read_order(m) ==
    /\ creating[m].at = "moded"
    /\ creating' = [creating EXCEPT ![m].at = "ordered", ![m].order = MaxOrder + 1]
    /\ UNCHANGED <<rows, changing, active, settling, carried, dropped, turns>>

insert(m) ==
    /\ creating[m].at = "ordered"
    /\ creating' = [creating EXCEPT ![m].at = "done"]
    /\ rows' = [n \in DOMAIN rows \cup {m} |->
                  IF n = m THEN [mode |-> creating[m].mode, order |-> creating[m].order, born |-> Born] ELSE rows[n]]
    /\ UNCHANGED <<changing, active, settling, carried, dropped, turns>>

\* update_queue_message looks for the message and for an active task, then updates.
look_update(d, m, mode) ==
    /\ changing[d].at = "idle" /\ m \in DOMAIN rows
    /\ changing' = [changing EXCEPT ![d] = [at |-> "looked", kind |-> "mode", of |-> <<m>>, mode |-> Allowed(mode)]]
    /\ UNCHANGED <<rows, creating, active, settling, carried, dropped, turns>>

update(d) ==
    /\ changing[d].at = "looked" /\ changing[d].kind = "mode"
    /\ changing' = [changing EXCEPT ![d] = [NoChangeAsked EXCEPT !.at = "done"]]
    /\ rows' = [m \in DOMAIN rows |-> IF m = changing[d].of[1] THEN [rows[m] EXCEPT !.mode = changing[d].mode] ELSE rows[m]]
    /\ UNCHANGED <<creating, active, settling, carried, dropped, turns>>

\* reorder_queue_messages counts the messages, then numbers them in one transaction.
look_reorder(d, order) ==
    /\ changing[d].at = "idle" /\ Len(order) = Cardinality(DOMAIN rows)
    /\ changing' = [changing EXCEPT ![d] = [at |-> "looked", kind |-> "order", of |-> order, mode |-> "queued"]]
    /\ UNCHANGED <<rows, creating, active, settling, carried, dropped, turns>>

Place(order, m) == CHOOSE i \in DOMAIN order : order[i] = m

reorder(d) ==
    LET order == changing[d].of IN
    /\ changing[d].at = "looked" /\ changing[d].kind = "order"
    /\ changing' = [changing EXCEPT ![d] = [NoChangeAsked EXCEPT !.at = "done"]]
    /\ rows' = IF \E i \in DOMAIN order : order[i] \notin DOMAIN rows THEN rows
               ELSE [m \in DOMAIN rows |->
                       IF \E i \in DOMAIN order : order[i] = m THEN [rows[m] EXCEPT !.order = Place(order, m)] ELSE rows[m]]
    /\ UNCHANGED <<creating, active, settling, carried, dropped, turns>>

\* queue_messages: demote_immediate_if_inactive, before the list is read.
look_list(d) ==
    /\ changing[d].at = "idle" /\ ~active
    /\ changing' = [changing EXCEPT ![d] = [NoChangeAsked EXCEPT !.at = "looked"]]
    /\ UNCHANGED <<rows, creating, active, settling, carried, dropped, turns>>

Demoted == [m \in DOMAIN rows |-> [rows[m] EXCEPT !.mode = "queued"]]

demote_immediate_if_inactive(d) ==
    /\ changing[d].at = "looked" /\ changing[d].kind = "list"
    /\ changing' = [changing EXCEPT ![d] = [NoChangeAsked EXCEPT !.at = "done"]]
    /\ rows' = Demoted
    /\ UNCHANGED <<creating, active, settling, carried, dropped, turns>>

delete(m) ==
    /\ m \in DOMAIN rows
    /\ rows' = Rest({m}) /\ dropped' = dropped \cup {m}
    /\ UNCHANGED <<creating, changing, active, settling, carried, turns>>

-----------------------------------------------------------------------------
\* claim_immediate: one transaction; an upgrade that finds another writer fails the call
\* and leaves the queue as it was.
Immediate == {m \in DOMAIN rows : rows[m].mode = "immediate"}
MutTaken == DOMAIN rows

Taken == Immediate

claim_immediate ==
    /\ Immediate # {}
    /\ carried' = Append(carried, Listed(Immediate)) /\ rows' = Rest(Taken)
    /\ UNCHANGED <<creating, changing, active, settling, dropped, turns>>

\* A final answer is stored; what is still immediate is demoted by a later statement.
Final ==
    /\ active /\ active' = FALSE /\ settling' = TRUE
    /\ UNCHANGED <<rows, creating, changing, carried, dropped, turns>>

demote_all_immediate ==
    /\ settling /\ settling' = FALSE
    /\ rows' = Demoted
    /\ UNCHANGED <<creating, changing, active, carried, dropped, turns>>

Continue ==
    /\ ~active /\ turns < MaxTurns
    /\ active' = TRUE /\ turns' = turns + 1
    /\ UNCHANGED <<rows, creating, changing, settling, carried, dropped>>

Orders == {s \in UNION {[1..n -> Messages] : n \in 1..Cardinality(Messages)} : \A i, j \in DOMAIN s : s[i] = s[j] => i = j}

QueueNext ==
    \/ \E m \in Messages :
        \/ \E mode \in Modes : choose_mode(m, mode) \/ \E d \in Desk : look_update(d, m, mode)
        \/ read_order(m) \/ insert(m) \/ delete(m)
    \/ \E d \in Desk : update(d) \/ look_list(d) \/ demote_immediate_if_inactive(d) \/ reorder(d)
                       \/ \E s \in Orders : look_reorder(d, s)
    \/ claim_immediate \/ Final \/ demote_all_immediate \/ Continue

-----------------------------------------------------------------------------
InAnswer(m, k) == \E i \in DOMAIN carried[k] : carried[k][i] = m
Carriers(m) == {k \in DOMAIN carried : InAnswer(m, k)}

\* A message that was accepted is in the queue, or the user deleted it, or one answer
\* carried it: the claim, changes of mode and order and the end of a turn lose none and
\* carry none twice.
MessagesKept ==
    \A m \in Messages : creating[m].at = "done" =>
        Cardinality({m} \cap DOMAIN rows) + Cardinality({m} \cap dropped) + Cardinality(Carriers(m)) = 1
=============================================================================
