------------------------------ MODULE PlanPrompt ------------------------------
(***************************************************************************)
(* One question of a plan (runtime_host/plan_prompt, plan_prompt_persistence *)
(* and api/plan_questions): the call that asks it and waits, the answers     *)
(* the user sends, its row and the registry entry with the sender.  A row    *)
(* leaves "pending" by one UPDATE whoever comes first.                       *)
(***************************************************************************)
EXTENDS Naturals

CONSTANT Answerers      \* requests of the user interface that answer

VARIABLES
    question,   \* plan_questions.state of the row
    listed,     \* PlanPromptRegistry.pending has the entry
    slot,       \* the oneshot: "empty", an answer, or "gone" with its receiver
    asker,      \* where the asking call is, and what it returned
    answering,  \* what each answer does
    closing,    \* cancel_abandoned_plan_prompt, spawned by the guard's Drop
    late        \* the deadline has passed

promptVars == <<question, listed, slot, asker, answering, closing, late>>

Resolutions == {"approved", "denied", "cancelled"}
Terminal == Resolutions \cup {"expired"}
NoAnswer == [at |-> "idle", resolution |-> "denied", late |-> FALSE, said |-> "none"]
Quiet == [a \in Answerers |-> NoAnswer]

PromptTypes ==
    /\ question \in {"none", "pending"} \cup Terminal
    /\ listed \in BOOLEAN /\ late \in BOOLEAN
    /\ slot \in {"none", "empty", "gone"} \cup Resolutions
    /\ asker \in [at : {"idle", "inserting", "waiting", "elapsed", "over", "abandoned", "down"},
                  got : {"none", "error"} \cup Terminal]
    /\ answering \in [Answerers ->
          [at : {"idle", "viewed", "stored", "done"}, resolution : Resolutions, late : BOOLEAN,
           said : {"none", "accepted", "refused"}]]
    /\ closing \in {"none", "spawned", "done", "failed"}

PromptInit ==
    /\ question = "none" /\ listed = FALSE /\ slot = "none" /\ late = FALSE
    /\ asker = [at |-> "idle", got |-> "none"]
    /\ answering = Quiet /\ closing = "none"

Muttransition(state) == question' = IF question = "none" THEN question ELSE state

\* UPDATE plan_questions SET state=? WHERE ... AND state='pending'
Transition(state) == question' = IF question = "pending" THEN state ELSE question

-----------------------------------------------------------------------------
\* ask_plan_question_with_kind: the entry is listed before the row is there.
register ==
    /\ asker.at = "idle"
    /\ asker' = [asker EXCEPT !.at = "inserting"]
    /\ listed' = TRUE /\ slot' = "empty"
    /\ UNCHANGED <<question, answering, closing, late>>

persist_pending_plan_prompt ==
    /\ asker.at = "inserting"
    /\ asker' = [asker EXCEPT !.at = "waiting"]
    /\ question' = "pending"
    /\ UNCHANGED <<listed, slot, answering, closing, late>>

\* PlanPromptGuard::drop, at every end of the call; the guard closes a row it knows of.
DropGuard(knows) ==
    /\ listed' = FALSE /\ slot' = "gone"
    /\ closing' = IF knows THEN "spawned" ELSE closing

NotPersisted ==
    /\ asker.at = "inserting"
    /\ asker' = [at |-> "over", got |-> "error"]
    /\ DropGuard(FALSE)
    /\ UNCHANGED <<question, answering, late>>

\* The answer is in the channel: it wins over a timer that elapsed meanwhile.
receive ==
    /\ asker.at = "waiting" /\ slot \in Resolutions
    /\ asker' = [at |-> "over", got |-> slot]
    /\ DropGuard(TRUE)
    /\ UNCHANGED <<question, answering, late>>

Mutelapse ==
    /\ asker.at = "waiting" /\ slot = "empty" /\ late
    /\ asker' = [at |-> "over", got |-> "expired"]
    /\ DropGuard(TRUE)
    /\ UNCHANGED <<question, answering, late>>

elapse ==
    /\ asker.at = "waiting" /\ slot = "empty" /\ late
    /\ asker' = [asker EXCEPT !.at = "elapsed"] /\ slot' = "gone"
    /\ UNCHANGED <<question, listed, answering, closing, late>>

\* persist_plan_prompt_timeout: a row that somebody else closed makes the call fail.
persist_plan_prompt_timeout ==
    /\ asker.at = "elapsed"
    /\ \/ /\ Transition("expired")
          /\ asker' = [at |-> "over", got |-> IF question = "pending" THEN "expired" ELSE "error"]
       \/ asker' = [at |-> "over", got |-> "error"] /\ UNCHANGED question
    /\ DropGuard(TRUE)
    /\ UNCHANGED <<answering, late>>

\* The call is dropped while it waits.  A statement that was sent is still executed,
\* after the guard has gone without knowing of the row.
Abort ==
    /\ \/ asker.at = "inserting" /\ question' \in {"none", "pending"}
          /\ asker' = [asker EXCEPT !.at = "abandoned"] /\ DropGuard(FALSE)
       \/ asker.at = "waiting" /\ UNCHANGED question
          /\ asker' = [asker EXCEPT !.at = "over"] /\ DropGuard(TRUE)
       \/ asker.at = "elapsed" /\ (Transition("expired") \/ UNCHANGED question)
          /\ asker' = [asker EXCEPT !.at = "over"] /\ DropGuard(TRUE)
    /\ UNCHANGED <<answering, late>>

cancel_abandoned_plan_prompt ==
    /\ closing = "spawned"
    /\ \/ Transition("cancelled") /\ closing' = "done"
       \/ UNCHANGED question /\ closing' = "failed"
    /\ UNCHANGED <<listed, slot, asker, answering, late>>

-----------------------------------------------------------------------------
\* answer_plan_question: the entry is looked up, then the time is read.
Said(a, said) == answering' = [answering EXCEPT ![a].at = "done", ![a].said = said]

view(a, r) ==
    /\ answering[a].at = "idle"
    /\ IF listed THEN answering' = [answering EXCEPT ![a] = [at |-> "viewed", resolution |-> r, late |-> late, said |-> "none"]]
       ELSE asker.at # "idle" /\ Said(a, "refused")
    /\ UNCHANGED <<question, listed, slot, asker, closing, late>>

\* persist_plan_prompt_resolution: a late answer closes the row as expired.
persist_plan_prompt_resolution(a) ==
    /\ answering[a].at = "viewed"
    /\ \/ /\ ~answering[a].late /\ question = "pending"
          /\ Transition(answering[a].resolution)
          /\ answering' = [answering EXCEPT ![a].at = "stored"]
       \/ /\ answering[a].late \/ question # "pending"
          /\ IF answering[a].late THEN Transition("expired") ELSE UNCHANGED question
          /\ Said(a, "refused")
       \/ UNCHANGED question /\ Said(a, "refused")
    /\ UNCHANGED <<listed, slot, asker, closing, late>>

\* PlanPromptRegistry::resolve
resolve(a) ==
    /\ answering[a].at = "stored"
    /\ listed' = FALSE
    /\ IF listed /\ slot = "empty"
       THEN slot' = answering[a].resolution /\ Said(a, "accepted")
       ELSE UNCHANGED slot /\ Said(a, "refused")
    /\ UNCHANGED <<question, asker, closing, late>>

Answer(a) ==
    \/ \E r \in Resolutions : view(a, r)
    \/ persist_plan_prompt_resolution(a) \/ resolve(a)

-----------------------------------------------------------------------------
Deadline ==
    /\ listed /\ ~late /\ late' = TRUE
    /\ UNCHANGED <<question, listed, slot, asker, answering, closing>>

PromptCrash ==
    /\ asker.at \notin {"idle", "down"}
    /\ asker' = [asker EXCEPT !.at = "down"]
    /\ listed' = FALSE /\ slot' = "gone" /\ closing' = "none"
    /\ answering' = [a \in Answerers |-> [answering[a] EXCEPT !.at = "done"]]
    /\ UNCHANGED <<question, late>>

expire_pending_plan_questions_on_startup ==
    /\ asker.at = "down"
    /\ asker' = [asker EXCEPT !.at = "over"]
    /\ Transition("expired")
    /\ UNCHANGED <<listed, slot, answering, closing, late>>

PromptNext ==
    \/ register \/ persist_pending_plan_prompt \/ NotPersisted
    \/ receive \/ elapse \/ persist_plan_prompt_timeout
    \/ Abort \/ cancel_abandoned_plan_prompt
    \/ \E a \in Answerers : Answer(a)
    \/ Deadline \/ PromptCrash \/ expire_pending_plan_questions_on_startup

PromptSpec == PromptInit /\ [][PromptNext]_promptVars

-----------------------------------------------------------------------------
\* What the agent is told is what the row says for ever: in particular it is told that it
\* may execute only of a question whose row is approved, and "expired" only of one that
\* no answer can close any more.
ToldIsStored == asker.got \in Terminal => question = asker.got

\* An answer that was accepted is the one of the row, and the agent has it unless its call
\* or the host went away first; so two answers are not both accepted.
AcceptedIsStored ==
    \A a \in Answerers : answering[a].said = "accepted" =>
        /\ question = answering[a].resolution
        /\ slot = answering[a].resolution \/ asker.got = answering[a].resolution
           \/ (asker.at \in {"over", "down"} /\ asker.got = "none")
        /\ \A b \in Answerers \ {a} : answering[b].said # "accepted"

\* Once the call is over and its closing has been written, no question is left pending;
\* one whose insert was cut off stays until the next start.
NoneLeftPending ==
    asker.at = "over" /\ closing \notin {"spawned", "failed"} => question # "pending"

PromptsSafe == ToldIsStored /\ AcceptedIsStored /\ NoneLeftPending
=============================================================================
