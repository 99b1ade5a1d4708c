------------------------ MODULE ConversationBinding ------------------------
(***************************************************************************)
(* What the tables of compact & resume promise about the conversation of a *)
(* task, without jobs, phases, requests or callbacks: a task is bound to   *)
(* one conversation that is its alone; a provisional conversation may      *)
(* become a durable one; a durable one is left only by moving on to another*)
(* that nobody has had before it, and what was left is retired for good.   *)
(***************************************************************************)

CONSTANTS Tasks, Convs, Provisional, None

VARIABLES
    bound,    \* the conversation of each task, or None
    retired   \* conversations that were moved away from

vars == <<bound, retired>>

Durable == Convs \ Provisional
Free(c) == c \notin retired /\ \A t \in Tasks : bound[t] # c

\* A program that starts finds tasks that were bound before.
Init ==
    /\ bound \in [Tasks -> Durable \cup {None}]
    /\ \A t, u \in Tasks : t # u /\ bound[t] # None => bound[t] # bound[u]
    /\ retired = {}

\* A task meets its first conversation.
Bind(t, c) ==
    /\ bound[t] = None
    /\ Free(c)
    /\ bound' = [bound EXCEPT ![t] = c]
    /\ UNCHANGED retired

\* The provisional conversation of a task turns out to have a durable name.
Name(t, c) ==
    /\ bound[t] \in Provisional
    /\ c \in Durable
    /\ Free(c)
    /\ bound' = [bound EXCEPT ![t] = c]
    /\ UNCHANGED retired

\* A task moves on, for good, to a conversation nobody has.
Move(t, c) ==
    /\ bound[t] \in Durable
    /\ c \in Durable
    /\ Free(c)
    /\ bound' = [bound EXCEPT ![t] = c]
    /\ retired' = retired \cup {bound[t]}

Next == \E t \in Tasks, c \in Convs : Bind(t, c) \/ Name(t, c) \/ Move(t, c)

Spec == Init /\ [][Next]_vars
=============================================================================
