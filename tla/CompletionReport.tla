-------------------------- MODULE CompletionReport --------------------------
(***************************************************************************)
(* What the completion of a turn says of its verification                   *)
(* (runtime_host/completion_report.rs): the agent names executions of        *)
(* command_run, the host looks up who answered with them, reads what they     *)
(* recorded and compares the source tree before, after and now.              *)
(***************************************************************************)
EXTENDS Naturals, Sequences, FiniteSets, SequencesExt

CONSTANTS
    Evidence,   \* execution ids
    OfChild,    \* those of a task delegated in turn 1
    Inputs,     \* what an agent may send: see NoInput
    MAX_ITEMS,
    Blank,      \* a reference of white space
    MaxTrees    \* bound: changes of the source tree

VARIABLES
    sources,       \* the content of the source tree, 0 or 1
    trees,      \* how often it changed
    proof,      \* the record of each execution
    answers,    \* of each execution the turns of its tool_result events, in order
    turn,       \* the current turn
    quality     \* the report on it

reportVars == <<sources, trees, proof, answers, turn, quality>>

NoInput == [refs |-> <<>>, criteria |-> <<>>, scope |-> FALSE, notApplicable |-> FALSE, reason |-> FALSE]
NoState == [digest |-> 0, whole |-> FALSE, known |-> FALSE]
Absent == [end |-> "absent", before |-> NoState, after |-> NoState]
NoQuality == [at |-> "open", input |-> NoInput, owners |-> <<>>, verdict |-> "none"]

SourceStates == [digest : 0..1, whole : BOOLEAN, known : BOOLEAN]
Verdicts == {"passed", "failed", "stale", "unknown", "notRun", "notApplicable"}

ReportTypes ==
    /\ sources \in 0..1 /\ trees \in 0..MaxTrees /\ turn \in 1..2
    /\ proof \in [Evidence -> [end : {"absent", "running", "ok", "bad", "unknown", "evicted"},
                               before : SourceStates, after : SourceStates]]
    /\ answers \in [Evidence -> {<<>>, <<1>>, <<2>>, <<1, 2>>}]
    /\ quality.at \in {"open", "looked", "stored"} /\ quality.verdict \in Verdicts \cup {"none"}

ReportInit ==
    /\ sources = 0 /\ trees = 0 /\ turn = 1 /\ answers = [x \in Evidence |-> <<>>] /\ quality = NoQuality
    /\ proof = [x \in Evidence |-> Absent]

-----------------------------------------------------------------------------
\* Anybody edits the tree, back to what it was too.
EditTree ==
    /\ trees < MaxTrees /\ trees' = trees + 1 /\ sources' = 1 - sources
    /\ UNCHANGED <<proof, answers, turn, quality>>

\* capture_source_state: what is not whole may be the same for two different trees.
Snapshots == {[digest |-> sources, whole |-> TRUE, known |-> TRUE], [digest |-> 0, whole |-> FALSE, known |-> TRUE]}

Launch(x) ==
    /\ proof[x].end = "absent"
    /\ \E s \in Snapshots : proof' = [proof EXCEPT ![x].end = "running", ![x].before = s]
    /\ UNCHANGED <<sources, trees, answers, turn, quality>>

Complete(x, end) ==
    /\ proof[x].end = "running" /\ end \in {"ok", "bad"}
    /\ \E s \in Snapshots : proof' = [proof EXCEPT ![x].end = end, ![x].after = s]
    /\ UNCHANGED <<sources, trees, answers, turn, quality>>

\* The host restarts: what ran is unknown and has no source state.
Restarted ==
    /\ \E x \in Evidence : proof[x].end = "running"
    /\ quality' = IF quality.at = "looked" THEN NoQuality ELSE quality
    /\ proof' = [x \in Evidence |-> IF proof[x].end = "running" THEN [Absent EXCEPT !.end = "unknown"] ELSE proof[x]]
    /\ UNCHANGED <<sources, trees, answers, turn>>

\* The registry forgets it, at any time after its end.
Evicted(x) ==
    /\ proof[x].end \in {"ok", "bad", "unknown"}
    /\ proof' = [proof EXCEPT ![x] = [Absent EXCEPT !.end = "evicted"]]
    /\ UNCHANGED <<sources, trees, answers, turn, quality>>

\* The result of the call is in the timeline; a repeated call answers again, in its turn.
Answered(x) ==
    /\ proof[x].end \in {"ok", "bad", "unknown"} /\ turn \notin ToSet(answers[x])
    /\ x \in OfChild => turn = 1
    /\ answers' = [answers EXCEPT ![x] = Append(@, turn)]
    /\ UNCHANGED <<sources, trees, proof, turn, quality>>

NextTurn ==
    /\ turn = 1 /\ turn' = 2 /\ quality' = NoQuality
    /\ UNCHANGED <<sources, trees, proof, answers>>

-----------------------------------------------------------------------------
\* requested_refs: of what comes first, the criteria's after the others.
requested_refs(input) ==
    LET all == SelectSeq(input.refs \o FlattenSeq(input.criteria), LAMBDA r : r # Blank)
    IN ToSet(SubSeq(all, 1, IF Len(all) < MAX_ITEMS THEN Len(all) ELSE MAX_ITEMS))

\* The turn of the last answer, 0 when there is none; a child's counts in its parent's turn.
Owner(x) == IF answers[x] = <<>> THEN 0 ELSE Last(answers[x])

Found(x) == Owner(x) # 0 /\ (x \in OfChild => turn = 1)

\* resolve_evidence: the events are read first.
Look(input) ==
    /\ quality.at = "open"
    /\ quality' = [quality EXCEPT !.at = "looked", !.input = input,
                                  !.owners = [x \in requested_refs(input) |-> IF Found(x) THEN Owner(x) ELSE 0]]
    /\ UNCHANGED <<sources, trees, proof, answers, turn>>

source_state_changed(x, now) ==
    \/ proof[x].before.known /\ proof[x].after.known /\ proof[x].before # proof[x].after
    \/ proof[x].after.known /\ proof[x].after # now

\* Mutant: a snapshot that is not whole will do.
Muthas_fresh_source_state(x, now) ==
    /\ proof[x].before.known /\ proof[x].after.known
    /\ proof[x].before = proof[x].after /\ proof[x].after = now

has_fresh_source_state(x, now) ==
    /\ proof[x].before.known /\ proof[x].after.known
    /\ proof[x].before = proof[x].after /\ proof[x].after = now /\ proof[x].before.whole

evidence_status(x, now) ==
    CASE quality.owners[x] # turn \/ source_state_changed(x, now) -> "stale"
      [] quality.owners[x] = turn /\ ~source_state_changed(x, now) ->
            (CASE proof[x].end = "unknown" -> "unknown"
               [] proof[x].end = "bad" -> "failed"
               [] OTHER -> IF has_fresh_source_state(x, now) THEN "passed" ELSE "unknown")

\* aggregate_verification
aggregate_verification(input, refs, lost, statuses) ==
    CASE refs = {} /\ ~input.notApplicable -> "notRun"
      [] refs = {} /\ input.notApplicable -> IF input.reason THEN "notApplicable" ELSE "unknown"
      [] refs # {} /\ "failed" \in statuses -> "failed"
      [] refs # {} /\ "failed" \notin statuses /\ "stale" \in statuses -> "stale"
      [] OTHER -> IF \/ lost \/ "unknown" \in statuses \/ ~input.scope \/ input.criteria = <<>>
                     \/ \E i \in DOMAIN input.criteria : input.criteria[i] = <<>>
                  THEN "unknown" ELSE "passed"

\* ... then the records and the tree, which is read once.
Conclude ==
    /\ quality.at = "looked"
    /\ \E now \in Snapshots :
         LET refs == DOMAIN quality.owners
             kept == {x \in refs : quality.owners[x] # 0 /\ proof[x].end # "evicted"}
         IN quality' = [NoQuality EXCEPT !.at = "stored",
                          !.verdict = aggregate_verification(quality.input, refs, kept # refs,
                                                             {evidence_status(x, now) : x \in kept})]
    /\ UNCHANGED <<sources, trees, proof, answers, turn>>

ReportNext ==
    \/ EditTree \/ Restarted \/ NextTurn \/ Conclude
    \/ \E x \in Evidence : Launch(x) \/ Evicted(x) \/ Answered(x) \/ (\E end \in {"ok", "bad"} : Complete(x, end))
    \/ \E input \in Inputs : Look(input)

ReportSpec == ReportInit /\ [][ReportNext]_reportVars

-----------------------------------------------------------------------------
Concludes == quality.at = "looked" /\ quality'.at = "stored"
Within(input) == Len(input.refs \o FlattenSeq(input.criteria)) <= MAX_ITEMS
                 /\ Blank \notin ToSet(FlattenSeq(input.criteria))

\* Evidence has every id an input may name, and flattening, filtering and cutting lose
\* nothing of an input within the limits.
ASSUME ReportAssumption ==
    \A input \in Inputs :
        /\ requested_refs(input) \subseteq Evidence
        /\ Within(input) => \A i \in DOMAIN input.criteria :
              ToSet(input.criteria[i]) \subseteq requested_refs(input)

\* A report says "passed" only of executions that exited with 0, that answered in this
\* turn or in a child delegated in it, and for which the whole tree was the same when
\* they began, when they ended and when the report looked, whatever was edited, restarted,
\* repeated or forgotten between; and then every criterion has one, as long as no
\* reference is blank and there are no more than MAX_ITEMS of them.
PassedIsFresh ==
    [][Concludes /\ quality'.verdict = "passed" =>
          /\ DOMAIN quality.owners # {}
          /\ \A x \in DOMAIN quality.owners :
                /\ proof[x].end = "ok" /\ turn \in ToSet(answers[x])
                /\ proof[x].before.whole /\ proof[x].after.whole
                /\ proof[x].before.digest = sources /\ proof[x].after.digest = sources
          /\ Within(quality.input) => \A i \in DOMAIN quality.input.criteria :
                /\ quality.input.criteria[i] # <<>>
                /\ ToSet(quality.input.criteria[i]) \subseteq DOMAIN quality.owners]_reportVars
=============================================================================
