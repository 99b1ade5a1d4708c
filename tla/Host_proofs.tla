---------------------------- MODULE Host_proofs ----------------------------
(***************************************************************************)
(* Proofs about what the loops of the host keep going: the turns of a task  *)
(* (TurnLifecycle), the repository index of a workspace (WorkspaceIndex),   *)
(* and the two together as the run of MCHost checks them.                   *)
(***************************************************************************)
EXTENDS MCHost, FiniteSetTheorems, TLAPS

----------------------------------------------------------------------------
(* The turns of a task.                                                     *)

CallRows == [at : Steps, kind : Kinds, turn : TaskTurns, waited : BOOLEAN,
             open : SUBSET Invocations, copy : Statuses]

\* Only a tool waits for its approval, a tool that runs is in the registry, and what
\* follows an agent's completion is the completion's.
RowShape(c) ==
    /\ calls[c].at \in {"asking", "cleared"} => calls[c].kind = "tool" /\ calls[c].waited
    /\ calls[c].at \in {"registered", "running", "returned"} /\ calls[c].kind = "tool" => c \in live
    /\ calls[c].at \in {"quiet", "childless", "reported", "claimed", "settling"} =>
          calls[c].kind = "complete"
    /\ calls[c].at \in {"claimed", "settling"}
          \/ (calls[c].at = "written" /\ calls[c].kind = "complete") =>
          run \in {"none", "completed"}

CallShape == \A c \in Invocations : RowShape(c)

\* Since the grace passed no call was admitted: what is underway is a tool that was
\* already running or was already waiting for its approval ...
Quieted ==
    ~taskRow.recent => \A c \in Invocations : Underway(c) =>
        /\ calls[c].kind = "tool"
        /\ calls[c].waited \/ calls[c].at \in {"running", "returned"}

\* ... and in the turn whose registry the watchdog has read, only one that waited.
WatchClear ==
    ~taskRow.recent /\ watch.at \in {"quiet", "childless"} => \A c \in Invocations : Underway(c) =>
        calls[c].waited \/ (calls[c].kind = "tool" /\ calls[c].turn # watch.turn)

TurnInv == TurnTypes /\ CallShape /\ FinalMatchesRun /\ Quieted /\ WatchClear

LEMMA TurnInvInit == TurnInit => TurnInv
<1> SUFFICES ASSUME TurnInit PROVE TurnInv
  OBVIOUS
<1>1. 1 \in TaskTurns
  BY TurnAssumption DEF TaskTurns
<1>2. IdleCall \in CallRows /\ IdleCall.at = "idle"
  BY <1>1 DEF IdleCall, CallRows, Steps, Kinds, Statuses
<1>3. calls \in [Invocations -> CallRows] /\ \A c \in Invocations : calls[c] = IdleCall
  BY <1>2 DEF TurnInit
<1>4. taskRow \in [status : Statuses, recent : BOOLEAN]
      /\ taskRow.recent
  BY DEF TurnInit, Statuses
<1>5. newest \in [turn : {NoTurn} \cup TaskTurns, recent : BOOLEAN]
  <2>1. CASE newest = [turn |-> 1, recent |-> TRUE]
    BY <1>1, <2>1
  <2>2. CASE newest = [turn |-> NoTurn, recent |-> FALSE]
    BY <2>2
  <2>3. QED BY <2>1, <2>2 DEF TurnInit
<1>6. watch \in [at : {"idle"}, turn : TaskTurns, open : SUBSET Invocations]
  BY <1>1 DEF TurnInit, Resting
<1>7. TurnTypes
  BY <1>1, <1>3, <1>4, <1>5, <1>6, TurnAssumption DEF TurnInit, TurnTypes, CallRows
<1>8. QED
  BY <1>2, <1>3, <1>4, <1>7 DEF TurnInit, TurnInv, CallShape, FinalMatchesRun, Quieted, WatchClear,
                          RowShape

\* What a step of a call does to the rows.
LEMMA GotoRow ==
    ASSUME TurnTypes, NEW c \in Invocations, NEW at \in Steps, Goto(c, at)
    PROVE  /\ calls' \in [Invocations -> CallRows]
           /\ \A d \in Invocations \ {c} : calls'[d] = calls[d]
           /\ calls'[c].at = at
           /\ at # "done" => /\ calls'[c].kind = calls[c].kind
                             /\ calls'[c].turn = calls[c].turn
                             /\ calls'[c].waited = calls[c].waited
<1> DEFINE now == calls[c]
           next == IF at = "done" THEN Over(now, at) ELSE [now EXCEPT !.at = at]
<1>1. now \in CallRows
  BY DEF TurnTypes, CallRows
<1>2. IdleCall \in CallRows
  BY TurnAssumption DEF IdleCall, CallRows, Steps, Kinds, TaskTurns, Statuses
<1>3. Over(now, at) \in CallRows /\ Over(now, at).at = at
  BY <1>1, <1>2 DEF Over, CallRows
<1>4. [now EXCEPT !.at = at] \in CallRows /\ [now EXCEPT !.at = at].at = at
  BY <1>1 DEF CallRows
<1>5. next \in CallRows /\ next.at = at
  BY <1>3, <1>4
<1>6. at # "done" => next.kind = now.kind /\ next.turn = now.turn /\ next.waited = now.waited
  BY <1>1 DEF CallRows
<1>7. calls' = [calls EXCEPT ![c] = next]
  BY DEF Goto
<1> HIDE DEF next, now
<1>8. calls \in [Invocations -> CallRows]
  BY DEF TurnTypes, CallRows
<1>9. QED BY <1>5, <1>6, <1>7, <1>8 DEF now

LEMMA RowTypes ==
    /\ \A s \in Statuses : RowIs(s) =>
          /\ taskRow' \in [status : Statuses, recent : BOOLEAN]
          /\ taskRow'.recent
    /\ \A t \in TaskTurns : StoredIn(t) => newest' \in [turn : {NoTurn} \cup TaskTurns, recent : BOOLEAN]
<1>1. ASSUME NEW s \in Statuses, RowIs(s)
      PROVE  /\ taskRow' \in [status : Statuses, recent : BOOLEAN]
             /\ taskRow'.recent
  BY <1>1 DEF RowIs
<1>2. ASSUME NEW t \in TaskTurns, StoredIn(t)
      PROVE  newest' \in [turn : {NoTurn} \cup TaskTurns, recent : BOOLEAN]
  BY <1>2 DEF StoredIn
<1>3. QED BY <1>1, <1>2

\* A step of one call, as far as the invariant is concerned.
Moves(c) ==
    /\ calls' \in [Invocations -> CallRows]
    /\ \A d \in Invocations \ {c} : calls'[d] = calls[d]
    /\ \/ live' \in {live, live \cup {c}}
       \/ live' = live \ {c} /\ calls'[c].at = "done"
    /\ run' \in {"none", "running", "completed", "timedOut"}
    /\ run' # run => run' = "completed" /\ run = "running"
    /\ watch' = watch
    /\ taskRow' \in [status : Statuses, recent : BOOLEAN]
    /\ newest' \in [turn : {NoTurn} \cup TaskTurns, recent : BOOLEAN]
    /\ \/ taskRow'.recent
       \/ taskRow' = taskRow /\ calls'[c].at = "done"
       \/ /\ taskRow' = taskRow
          /\ Underway(c)
          /\ calls'[c].kind = calls[c].kind /\ calls'[c].turn = calls[c].turn
          /\ calls[c].waited => calls'[c].waited
          /\ calls[c].kind # "tool" \/ calls[c].waited \/ calls'[c].at \in {"running", "returned"}

LEMMA MovesKeeps ==
    ASSUME TurnInv, NEW c \in Invocations, Moves(c), RowShape(c)',
           told' \subseteq TaskTurns, children' \subseteq TaskTurns,
           began' \subseteq Invocations,
           outcome' \in [Invocations -> SUBSET {"own", "interrupted"}], crashes' = crashes,
           \/ finals' = finals
           \/ /\ finals' = finals \cup {<<calls[c].turn, "agent">>}
              /\ run \in {"none", "completed"}
    PROVE  TurnInv'
<1>1. TurnTypes'
  BY DEF TurnInv, TurnTypes, Moves, CallRows
<1>2. CallShape'
  <2>1. SUFFICES ASSUME NEW d \in Invocations \ {c} PROVE RowShape(d)'
    BY DEF CallShape
  <2>2. calls'[d] = calls[d] /\ (d \in live => d \in live') /\ RowShape(d)
    BY DEF Moves, TurnInv, CallShape
  <2>3. run \in {"none", "completed"} => run' \in {"none", "completed"}
    BY DEF Moves
  <2>4. QED BY <2>2, <2>3 DEF RowShape
<1>3. FinalMatchesRun'
  BY DEF TurnInv, FinalMatchesRun, Moves
<1>4. ASSUME ~taskRow'.recent
      PROVE  /\ ~taskRow.recent
             /\ \/ ~Underway(c)'
                \/ /\ Underway(c)
                   /\ calls'[c].kind = calls[c].kind /\ calls'[c].turn = calls[c].turn
                   /\ calls[c].waited => calls'[c].waited
                   /\ calls[c].kind # "tool" \/ calls[c].waited \/ calls'[c].at \in {"running", "returned"}
  BY <1>4 DEF Moves, Underway
<1>5. \A d \in Invocations \ {c} : calls'[d] = calls[d] /\ (Underway(d)' <=> Underway(d))
  BY DEF Moves, Underway
<1>6. Quieted'
  <2>1. SUFFICES ASSUME ~taskRow'.recent, NEW d \in Invocations, Underway(d)'
                 PROVE  /\ calls'[d].kind = "tool"
                        /\ calls'[d].waited \/ calls'[d].at \in {"running", "returned"}
    BY DEF Quieted
  <2>2. \A e \in Invocations : Underway(e) =>
           /\ calls[e].kind = "tool"
           /\ calls[e].waited \/ calls[e].at \in {"running", "returned"}
    <3>1. ~taskRow.recent
      BY <1>4, <2>1
    <3>2. Quieted
      BY DEF TurnInv
    <3>3. QED BY <3>1, <3>2 DEF Quieted
  <2>3. CASE d = c
    BY <1>4, <2>1, <2>2, <2>3
  <2>4. CASE d # c
    BY <1>5, <2>1, <2>2, <2>4
  <2>5. QED BY <2>3, <2>4
<1>7. WatchClear'
  <2>1. SUFFICES ASSUME ~taskRow'.recent, watch.at \in {"quiet", "childless"},
                        NEW d \in Invocations, Underway(d)'
                 PROVE  calls'[d].waited \/ (calls'[d].kind = "tool" /\ calls'[d].turn # watch.turn)
    BY DEF Moves, WatchClear
  <2>2. \A e \in Invocations : Underway(e) =>
           calls[e].waited \/ (calls[e].kind = "tool" /\ calls[e].turn # watch.turn)
    BY <1>4, <2>1 DEF TurnInv, WatchClear
  <2>3. CASE d = c
    BY <1>4, <2>1, <2>2, <2>3
  <2>4. CASE d # c
    BY <1>5, <2>1, <2>2, <2>4
  <2>5. QED BY <2>3, <2>4
<1>8. QED BY <1>1, <1>2, <1>3, <1>6, <1>7 DEF TurnInv

\* The actions of a call, each from its own guard.
LEMMA CallStep ==
    ASSUME TurnInv, NEW c \in Invocations, Call(c)
    PROVE  TurnInv'
<1> DEFINE turn == calls[c].turn
<1>1. /\ TurnTypes /\ RowShape(c) /\ calls[c] \in CallRows /\ turn \in TaskTurns
      /\ \A at \in {"asking", "cleared", "registered", "running", "quiet", "childless", "reported",
                    "claimed", "written", "settling", "returned"} :
            calls[c].at = at => Underway(c)
  BY DEF TurnInv, CallShape, TurnTypes, CallRows, Underway
<1>2. /\ taskRow \in [status : Statuses, recent : BOOLEAN]
      /\ newest \in [turn : {NoTurn} \cup TaskTurns, recent : BOOLEAN]
      /\ run \in {"none", "running", "completed", "timedOut"}
      /\ told \subseteq TaskTurns /\ children \subseteq TaskTurns /\ began \subseteq Invocations
      /\ outcome \in [Invocations -> SUBSET {"own", "interrupted"}]
  BY DEF TurnInv, TurnTypes
<1>3. StoredIn(turn) => newest' \in [turn : {NoTurn} \cup TaskTurns, recent : BOOLEAN]
  BY <1>1, RowTypes
<1>4. outcome' = [outcome EXCEPT ![c] = @ \cup {"own"}] =>
          outcome' \in [Invocations -> SUBSET {"own", "interrupted"}]
  BY <1>2
<1> DEFINE Went(at) ==
             /\ calls' \in [Invocations -> CallRows]
             /\ \A d \in Invocations \ {c} : calls'[d] = calls[d]
             /\ calls'[c].at = at
             /\ at # "done" => /\ calls'[c].kind = calls[c].kind /\ calls'[c].turn = calls[c].turn
                               /\ calls'[c].waited = calls[c].waited
<1>5. \A at \in Steps : Goto(c, at) => Went(at)
  BY <1>1, GotoRow
<1> HIDE DEF turn
<1>6. CASE Refuse(c) \/ Approved(c) \/ Denied(c)
  <2>1. PICK at \in {"done", "cleared"} :
           /\ Goto(c, at) /\ calls[c].at \in {"admitted", "asking"}
           /\ at = "cleared" => calls[c].at = "asking"
           /\ outcome' = outcome \/ outcome' = [outcome EXCEPT ![c] = @ \cup {"own"}]
           /\ newest' = newest \/ StoredIn(turn)
           /\ UNCHANGED <<taskRow, told, began, live, finals, children, run, watch, crashes>>
    BY <1>6 DEF Refuse, Approved, Denied, Step, turn
  <2>2. Went(at)
    BY <1>5, <2>1 DEF Steps
  <2>3. Moves(c) /\ RowShape(c)'
    BY <1>1, <1>2, <1>3, <2>1, <2>2 DEF Moves, RowShape
  <2>4. QED BY <1>2, <1>4, <2>1, <2>3, MovesKeeps
<1>7. \/ taskRow.recent
      \/ ~Underway(c)
      \/ calls[c].kind = "tool" /\ (calls[c].waited \/ calls[c].at \in {"running", "returned"})
  BY DEF TurnInv, Quieted
<1>8. CASE Ask(c)
  <2>1. /\ calls' = [calls EXCEPT ![c] = [calls[c] EXCEPT !.at = "asking", !.waited = TRUE]]
        /\ began' = began \cup {c} /\ StoredIn(turn)
        /\ calls[c].kind = "tool" /\ calls[c].at = "admitted"
        /\ UNCHANGED <<taskRow, told, outcome, live, finals, children, run, watch, crashes>>
    BY <1>8 DEF Ask, turn
  <2>2. /\ calls' \in [Invocations -> CallRows]
        /\ \A d \in Invocations \ {c} : calls'[d] = calls[d]
        /\ calls'[c].at = "asking" /\ calls'[c].kind = "tool" /\ calls'[c].turn = turn
        /\ calls'[c].waited
    <3>1. calls \in [Invocations -> CallRows]
      BY <1>1 DEF TurnTypes, CallRows
    <3>2. [calls[c] EXCEPT !.at = "asking", !.waited = TRUE] \in CallRows
      BY <1>1 DEF CallRows, Steps
    <3>3. QED BY <1>1, <2>1, <3>1, <3>2 DEF CallRows, turn
  <2>3. Underway(c)
    BY <2>1 DEF Underway
  <2>4. Moves(c) /\ RowShape(c)'
    BY <1>2, <1>3, <1>7, <2>1, <2>2, <2>3 DEF Moves, RowShape, turn
  <2>5. QED BY <1>2, <2>1, <2>4, MovesKeeps
<1>9. CASE Register(c)
  <2>1. /\ Goto(c, "registered") /\ calls[c].at \in {"admitted", "cleared"}
        /\ live' = IF calls[c].kind = "tool" THEN live \cup {c} ELSE live
        /\ UNCHANGED <<taskRow, told, newest, began, outcome, finals, children, run, watch, crashes>>
    BY <1>9 DEF Register, Step
  <2>2. Went("registered")
    BY <1>5, <2>1 DEF Steps
  <2>3. Underway(c)
    BY <2>1 DEF Underway
  <2>4. Moves(c) /\ RowShape(c)'
    BY <1>2, <1>7, <2>1, <2>2, <2>3 DEF Moves, RowShape
  <2>5. QED BY <1>2, <2>1, <2>4, MovesKeeps
<1>10. CASE Start(c) \/ Answer(c)
  <2>1. PICK at \in {"running", "returned"} :
           /\ Goto(c, at) /\ calls[c].at \in {"registered", "running"}
           /\ at = "returned" => calls[c].kind = "tool"
           /\ began' \in {began, began \cup {c}}
           /\ outcome' = outcome \/ outcome' = [outcome EXCEPT ![c] = @ \cup {"own"}]
           /\ newest' = newest \/ StoredIn(turn)
           /\ children' \in {children, children \cup {turn}}
           /\ UNCHANGED <<taskRow, told, live, finals, run, watch, crashes>>
    BY <1>10 DEF Start, Answer, Step, turn
  <2>2. Went(at)
    BY <1>5, <2>1 DEF Steps
  <2>3. Underway(c)
    BY <2>1 DEF Underway
  <2>4. Moves(c) /\ RowShape(c)'
    BY <1>1, <1>2, <1>3, <2>1, <2>2, <2>3 DEF Moves, RowShape
  <2>5. QED BY <1>1, <1>2, <1>4, <2>1, <2>4, MovesKeeps
<1>11. CASE Leave(c)
  <2>1. /\ Goto(c, "done") /\ live' = live \ {c}
        /\ UNCHANGED <<taskRow, told, newest, began, outcome, finals, children, run, watch, crashes>>
    BY <1>11 DEF Leave, Step
  <2>2. Went("done")
    BY <1>5, <2>1 DEF Steps
  <2>3. Moves(c) /\ RowShape(c)'
    BY <1>2, <2>1, <2>2 DEF Moves, RowShape
  <2>4. QED BY <1>2, <2>1, <2>3, MovesKeeps
<1>16. CASE SaveMessage(c) \/ LeaveRow(c)
  <2>1. PICK at \in {"stored", "bound", "done"} :
           /\ Goto(c, at) /\ calls[c].at \in {"running", "stored", "bound"}
           /\ calls[c].at = "running" => calls[c].kind = "message"
           /\ told' \in {told, told \cup {turn}}
           /\ newest' = newest \/ StoredIn(turn)
           /\ UNCHANGED <<taskRow, began, outcome, live, finals, children, run, watch, crashes>>
    BY <1>16 DEF SaveMessage, LeaveRow, Step, turn
  <2>2. Went(at)
    BY <1>5, <2>1 DEF Steps
  <2>3. Underway(c)
    BY <2>1 DEF Underway
  <2>4. Moves(c) /\ RowShape(c)'
    BY <1>1, <1>2, <1>3, <1>7, <2>1, <2>2, <2>3 DEF Moves, RowShape
  <2>5. QED BY <1>1, <1>2, <2>1, <2>4, MovesKeeps
<1>17. CASE ReadRow(c)
  <2>1. PICK at \in {"binding", "titling"} :
           /\ calls' = [calls EXCEPT ![c] = [calls[c] EXCEPT !.at = at, !.copy = taskRow.status]]
           /\ calls[c].at \in {"stored", "bound"}
           /\ UNCHANGED <<taskRow, told, newest, began, outcome, live, finals, children, run, watch, crashes>>
    BY <1>17 DEF ReadRow
  <2>2. /\ calls' \in [Invocations -> CallRows]
        /\ \A d \in Invocations \ {c} : calls'[d] = calls[d]
        /\ calls'[c].at = at /\ calls'[c].kind = calls[c].kind /\ calls'[c].turn = calls[c].turn
        /\ calls'[c].waited = calls[c].waited
    <3>1. calls \in [Invocations -> CallRows]
      BY <1>1 DEF TurnTypes, CallRows
    <3>2. [calls[c] EXCEPT !.at = at, !.copy = taskRow.status] \in CallRows
      BY <1>1, <1>2, <2>1 DEF CallRows, Steps
    <3>3. QED BY <1>1, <2>1, <3>1, <3>2 DEF CallRows
  <2>3. Underway(c)
    BY <2>1 DEF Underway
  <2>4. Moves(c) /\ RowShape(c)'
    BY <1>2, <1>7, <2>1, <2>2, <2>3 DEF Moves, RowShape
  <2>5. QED BY <1>2, <2>1, <2>4, MovesKeeps
<1>18. CASE WriteBack(c)
  <2>1. PICK at \in {"bound", "done"} :
           /\ Goto(c, at) /\ RowIs(calls[c].copy)
           /\ UNCHANGED <<told, newest, began, outcome, live, finals, children, run, watch, crashes>>
    BY <1>18 DEF WriteBack, Step
  <2>2. Went(at)
    BY <1>5, <2>1 DEF Steps
  <2>3. taskRow' \in [status : Statuses, recent : BOOLEAN] /\ taskRow'.recent
    BY <1>1, <2>1, RowTypes DEF CallRows
  <2>4. Moves(c) /\ RowShape(c)'
    BY <1>2, <2>1, <2>2, <2>3 DEF Moves, RowShape
  <2>5. QED BY <1>2, <2>1, <2>4, MovesKeeps
<1>12. CASE Progress(c) \/ WriteRow(c)
  <2>1. PICK at \in {"written", "done"} :
           /\ Goto(c, at) /\ calls[c].at \in {"running", "written", "claimed"}
           /\ at = "written" => /\ \E s \in Statuses : RowIs(s)
                                /\ calls[c].at = "claimed" \/ calls[c].kind = "progress"
           /\ at = "done" => taskRow' = taskRow
           /\ newest' = newest \/ StoredIn(turn)
           /\ UNCHANGED <<told, began, outcome, live, finals, children, run, watch, crashes>>
    BY <1>12 DEF Progress, WriteRow, Step, Statuses, turn
  <2>2. Went(at)
    BY <1>5, <2>1 DEF Steps
  <2>3. at = "written" =>
          /\ taskRow' \in [status : Statuses, recent : BOOLEAN]
          /\ taskRow'.recent
    BY <2>1, RowTypes
  <2>4. Moves(c) /\ RowShape(c)'
    BY <1>1, <1>2, <1>3, <2>1, <2>2, <2>3 DEF Moves, RowShape
  <2>5. QED BY <1>2, <2>1, <2>4, MovesKeeps
<1>13. CASE CheckActive(c) \/ CheckChildren(c) \/ StoreReport(c) \/ Claim(c)
  <2>1. PICK at \in {"quiet", "childless", "reported", "claimed", "done"} :
           /\ Goto(c, at) /\ calls[c].at \in {"running", "quiet", "childless", "reported"}
           /\ calls[c].kind = "complete"
           /\ newest' = newest \/ StoredIn(turn)
           /\ run' = run \/ (run' = "completed" /\ run = "running")
           /\ at = "claimed" => run' \in {"none", "completed"}
           /\ UNCHANGED <<taskRow, told, began, outcome, live, finals, children, watch, crashes>>
    <3>1. calls[c].at \in {"childless", "reported"} => calls[c].kind = "complete"
      BY <1>1 DEF RowShape
    <3>2. CASE CheckActive(c) \/ CheckChildren(c)
      BY <3>2 DEF CheckActive, CheckChildren, Fail, turn
    <3>3. CASE StoreReport(c)
      BY <3>1, <3>3 DEF StoreReport, Step, turn
    <3>4. CASE Claim(c)
      BY <3>1, <3>4 DEF Claim, Fail, turn
    <3>5. QED BY <1>13, <3>2, <3>3, <3>4
  <2>2. Went(at)
    BY <1>5, <2>1 DEF Steps
  <2>3. Underway(c)
    BY <2>1 DEF Underway
  <2>4. Moves(c) /\ RowShape(c)'
    BY <1>2, <1>3, <2>1, <2>2, <2>3 DEF Moves, RowShape
  <2>5. QED BY <1>2, <2>1, <2>4, MovesKeeps
<1>14. CASE ReadOrphans(c) \/ \E o \in Invocations : Settle(c, o)
  <2>1. PICK open \in SUBSET Invocations :
           /\ calls' = [calls EXCEPT ![c] = [calls[c] EXCEPT !.at = "settling", !.open = open]]
           /\ calls[c].kind = "complete" /\ calls[c].at \in {"written", "settling"}
           /\ newest' = newest \/ StoredIn(turn)
           /\ outcome' = outcome \/ \E o \in Invocations : Interrupted(o)
           /\ UNCHANGED <<taskRow, told, began, live, finals, children, run, watch, crashes>>
    <3>1. CASE ReadOrphans(c)
      <4>1. OpenCalls(calls[c].turn) \in SUBSET Invocations
        BY <1>2 DEF OpenCalls
      <4>2. calls' = [calls EXCEPT ![c] = [calls[c] EXCEPT !.at = "settling", !.open = OpenCalls(calls[c].turn)]]
        BY <3>1 DEF ReadOrphans
      <4>3. QED BY <3>1, <4>1, <4>2 DEF ReadOrphans
    <3>2. ASSUME NEW o \in Invocations, Settle(c, o)
          PROVE  /\ calls' = [calls EXCEPT ![c] = [calls[c] EXCEPT !.at = "settling", !.open = calls[c].open \ {o}]]
                 /\ calls[c].kind = "complete" /\ calls[c].at = "settling"
                 /\ StoredIn(turn) /\ Interrupted(o)
                 /\ UNCHANGED <<taskRow, told, began, live, finals, children, run, watch, crashes>>
      <4>1. /\ calls' = [calls EXCEPT ![c].open = @ \ {o}] /\ calls[c].at = "settling"
            /\ StoredIn(turn) /\ Interrupted(o)
            /\ UNCHANGED <<taskRow, told, began, live, finals, children, run, watch, crashes>>
        BY <3>2 DEF Settle, turn
      <4>2. calls[c].kind = "complete"
        BY <1>1, <4>1 DEF RowShape
      <4>3. [calls[c] EXCEPT !.open = @ \ {o}]
                = [calls[c] EXCEPT !.at = "settling", !.open = calls[c].open \ {o}]
        BY <1>1, <4>1 DEF CallRows
      <4>4. QED BY <4>1, <4>2, <4>3
    <3>3. calls[c].open \in SUBSET Invocations
      BY <1>1 DEF CallRows
    <3>4. CASE \E o \in Invocations : Settle(c, o)
      <4>1. PICK o \in Invocations : Settle(c, o)
        BY <3>4
      <4>2. calls[c].open \ {o} \in SUBSET Invocations
        BY <3>3
      <4>3. QED BY <3>2, <4>1, <4>2
    <3>5. QED BY <1>14, <3>1, <3>4
  <2>2. /\ calls' \in [Invocations -> CallRows]
        /\ \A d \in Invocations \ {c} : calls'[d] = calls[d]
        /\ calls'[c].at = "settling" /\ calls'[c].kind = "complete" /\ calls'[c].turn = turn
        /\ calls'[c].waited = calls[c].waited
    <3>1. calls \in [Invocations -> CallRows]
      BY <1>1 DEF TurnTypes, CallRows
    <3>2. [calls[c] EXCEPT !.at = "settling", !.open = open] \in CallRows
      BY <1>1 DEF CallRows, Steps
    <3>3. QED BY <1>1, <2>1, <3>1, <3>2 DEF CallRows, turn
  <2>3. Underway(c)
    BY <2>1 DEF Underway
  <2>4. outcome' \in [Invocations -> SUBSET {"own", "interrupted"}]
    BY <1>2, <2>1 DEF Interrupted
  <2>5. Moves(c) /\ RowShape(c)'
    BY <1>1, <1>2, <1>3, <2>1, <2>2, <2>3 DEF Moves, RowShape, turn
  <2>6. QED BY <1>2, <2>1, <2>4, <2>5, MovesKeeps
<1>15. CASE FinalEvent(c)
  <2>1. /\ Goto(c, "done") /\ calls[c].at = "settling"
        /\ finals' = finals \cup {<<turn, "agent">>} /\ StoredIn(turn)
        /\ UNCHANGED <<taskRow, told, began, outcome, live, children, run, watch, crashes>>
    BY <1>15 DEF FinalEvent, Step, turn
  <2>2. Went("done")
    BY <1>5, <2>1 DEF Steps
  <2>3. Moves(c) /\ RowShape(c)'
    BY <1>2, <1>3, <2>1, <2>2 DEF Moves, RowShape
  <2>4. run \in {"none", "completed"}
    BY <1>1, <2>1 DEF RowShape
  <2>5. QED BY <1>2, <2>1, <2>3, <2>4, MovesKeeps DEF turn
<1>19. QED
  BY <1>6, <1>8, <1>9, <1>10, <1>11, <1>12, <1>13, <1>14, <1>15, <1>16, <1>17, <1>18
  DEF Call

\* A call is admitted: the row is recent again.
LEMMA AdmitStep ==
    ASSUME TurnInv, NEW c \in Invocations, NEW k \in KindsOf[c], NEW t \in TaskTurns, Admit(c, k, t)
    PROVE  TurnInv'
<1>1. /\ TurnTypes /\ calls[c] \in CallRows /\ calls \in [Invocations -> CallRows] /\ k \in Kinds
      /\ RowShape(c)
  BY TurnAssumption DEF TurnInv, CallShape, TurnTypes, CallRows, Kinds
<1>2. /\ calls' = [calls EXCEPT ![c] = [calls[c] EXCEPT !.at = "admitted", !.kind = k, !.turn = t]]
      /\ RowIs("running")
      /\ UNCHANGED <<told, newest, began, outcome, live, finals, children, run, watch, crashes>>
  BY DEF Admit
<1>3. [calls[c] EXCEPT !.at = "admitted", !.kind = k, !.turn = t] \in CallRows
  BY <1>1 DEF CallRows, Steps
<1>4. /\ calls' \in [Invocations -> CallRows]
      /\ \A d \in Invocations \ {c} : calls'[d] = calls[d]
      /\ calls'[c].at = "admitted"
  BY <1>1, <1>2, <1>3 DEF CallRows
<1>5. /\ taskRow' \in [status : Statuses, recent : BOOLEAN]
      /\ taskRow'.recent
  BY <1>2, RowTypes DEF Statuses
<1>6. Moves(c) /\ RowShape(c)'
  BY <1>1, <1>2, <1>4, <1>5 DEF TurnTypes, Moves, RowShape
<1>7. QED BY <1>1, <1>2, <1>6, MovesKeeps DEF TurnTypes

\* A step of the watchdog or of a child: the calls go on where they are.
LEMMA WatchKeeps ==
    ASSUME TurnInv, UNCHANGED <<told, calls, began, live, crashes>>,
           taskRow' \in [status : Statuses, recent : BOOLEAN],
           newest' \in [turn : {NoTurn} \cup TaskTurns, recent : BOOLEAN],
           children' \subseteq TaskTurns,
           outcome' \in [Invocations -> SUBSET {"own", "interrupted"}],
           run' = run \/ (run = "running" /\ run' = "timedOut"),
           finals' = finals \/ finals' = finals \cup {<<watch.turn, "watchdog">>},
           watch' \in [at : {"idle", "picked", "latest", "quiet", "childless", "expired", "written", "settling"},
                       turn : TaskTurns, open : SUBSET Invocations],
           ~taskRow'.recent => ~taskRow.recent,
           watch'.at \in {"quiet", "childless"} =>
              /\ watch'.turn = watch.turn
              /\ watch.at \in {"quiet", "childless"} \/ (watch.at = "latest" /\ ~ActiveIn(watch.turn))
    PROVE  TurnInv'
<1>1. TurnTypes'
  BY DEF TurnInv, TurnTypes
<1>2. CallShape'
  BY DEF TurnInv, CallShape, RowShape
<1>3. FinalMatchesRun'
  BY DEF TurnInv, FinalMatchesRun
<1>4. \A c \in Invocations : Underway(c)' <=> Underway(c)
  BY DEF Underway
<1>5. Quieted'
  BY <1>4 DEF TurnInv, Quieted
<1>6. WatchClear'
  <2>1. SUFFICES ASSUME ~taskRow'.recent, watch'.at \in {"quiet", "childless"},
                        NEW c \in Invocations, Underway(c)
                 PROVE  calls[c].waited \/ (calls[c].kind = "tool" /\ calls[c].turn # watch.turn)
    BY <1>4 DEF WatchClear
  <2>2. CASE watch.at \in {"quiet", "childless"}
    BY <2>1, <2>2 DEF TurnInv, WatchClear
  <2>3. CASE watch.at = "latest" /\ ~ActiveIn(watch.turn)
    <3>1. /\ calls[c].kind = "tool"
          /\ calls[c].waited \/ calls[c].at \in {"running", "returned"}
      BY <2>1 DEF TurnInv, Quieted
    <3>2. calls[c].waited \/ c \in live
      BY <3>1 DEF TurnInv, CallShape, RowShape
    <3>3. QED BY <2>3, <3>1, <3>2 DEF ActiveIn
  <2>4. QED BY <2>1, <2>2, <2>3
<1>7. QED BY <1>1, <1>2, <1>3, <1>5, <1>6 DEF TurnInv

LEMMA WatchdogStep ==
    ASSUME TurnInv, Expire \/ Watchdog \/ \E t \in TaskTurns : ChildEnds(t)
    PROVE  TurnInv'
<1> DEFINE Places == {"idle", "picked", "latest", "quiet", "childless", "expired", "written", "settling"}
           Looks == [at : Places, turn : TaskTurns, open : SUBSET Invocations]
<1>1. /\ watch \in Looks /\ watch.turn \in TaskTurns
      /\ taskRow \in [status : Statuses, recent : BOOLEAN]
      /\ newest \in [turn : {NoTurn} \cup TaskTurns, recent : BOOLEAN]
      /\ children \subseteq TaskTurns /\ began \subseteq Invocations
      /\ outcome \in [Invocations -> SUBSET {"own", "interrupted"}]
  BY DEF TurnInv, TurnTypes
<1>2. Resting \in Looks /\ Resting.at = "idle"
  BY TurnAssumption DEF Resting, TaskTurns
<1>3. StoredIn(watch.turn) => newest' \in [turn : {NoTurn} \cup TaskTurns, recent : BOOLEAN]
  BY <1>1, RowTypes
<1>4. \A at \in Places : Pass(at) => watch' \in Looks /\ watch'.at = at /\ watch'.turn = watch.turn
  BY <1>1 DEF Pass
<1>5. CASE Expire
  <2>1. /\ run = "running" /\ run' = "timedOut" /\ Pass("expired")
        /\ UNCHANGED <<taskRow, told, newest, calls, began, outcome, live, finals, children, crashes>>
    BY <1>5 DEF Expire
  <2>2. watch' \in Looks /\ watch'.at = "expired"
    BY <1>4, <2>1
  <2>3. QED BY <1>1, <2>1, <2>2, WatchKeeps
<1>6. CASE Interrupt
  <2>1. PICK status \in Statuses :
           taskRow' = [status |-> status, recent |-> TRUE]
    BY <1>1, <1>6 DEF Interrupt, Statuses
  <2>2. watch' \in Looks /\ watch'.at \in {"idle", "written"}
    <3>1. newest.turn = NoTurn \/ newest.turn \in TaskTurns
      BY <1>1
    <3>2. CASE newest.turn = NoTurn
      BY <1>2, <1>6, <3>2 DEF Interrupt
    <3>3. CASE newest.turn # NoTurn
      BY <1>1, <1>6, <3>1, <3>3 DEF Interrupt
    <3>4. QED BY <3>2, <3>3
  <2>3. /\ taskRow' \in [status : Statuses, recent : BOOLEAN]
        /\ taskRow'.recent
    BY <2>1
  <2>4. UNCHANGED <<told, newest, calls, began, outcome, live, finals, children, run, crashes>>
    BY <1>6 DEF Interrupt
  <2>5. QED BY <1>1, <2>2, <2>3, <2>4, WatchKeeps
<1>7. CASE Pick \/ ReadLatest \/ LookActive \/ LookChildren
  <2>1. /\ UNCHANGED <<taskRow, told, newest, calls, began, outcome, live, finals, children, run, crashes>>
        /\ \/ watch' = Resting
           \/ Pass("picked")
           \/ \E t \in TaskTurns : watch' = [watch EXCEPT !.at = "latest", !.turn = t]
           \/ /\ watch' = [watch EXCEPT !.at = "quiet"]
              /\ watch.at = "latest" /\ ~ActiveIn(watch.turn)
           \/ /\ watch' = [watch EXCEPT !.at = "childless"]
              /\ watch.at = "quiet"
    <3>1. newest.turn = NoTurn \/ newest.turn \in TaskTurns
      BY <1>1
    <3>2. CASE Pick
      BY <3>2 DEF Pick
    <3>3. CASE ReadLatest
      BY <3>1, <3>3 DEF ReadLatest
    <3>4. CASE LookActive
      BY <3>4 DEF LookActive
    <3>5. CASE LookChildren
      BY <3>5 DEF LookChildren
    <3>6. QED BY <1>7, <3>2, <3>3, <3>4, <3>5
  <2>2. /\ watch' \in Looks
        /\ watch'.at \in {"quiet", "childless"} =>
              /\ watch'.turn = watch.turn
              /\ watch.at \in {"quiet", "childless"} \/ (watch.at = "latest" /\ ~ActiveIn(watch.turn))
    <3>1. CASE watch' = Resting \/ Pass("picked")
      BY <1>2, <1>4, <3>1
    <3>2. CASE \E t \in TaskTurns : watch' = [watch EXCEPT !.at = "latest", !.turn = t]
      BY <1>1, <3>2
    <3>3. CASE /\ watch' = [watch EXCEPT !.at = "quiet"]
               /\ watch.at = "latest" /\ ~ActiveIn(watch.turn)
      BY <1>1, <3>3
    <3>4. CASE watch' = [watch EXCEPT !.at = "childless"] /\ watch.at = "quiet"
      BY <1>1, <3>4
    <3>5. QED BY <2>1, <3>1, <3>2, <3>3, <3>4
  <2>3. QED BY <1>1, <2>1, <2>2, WatchKeeps
<1>8. CASE Finalize
  <2>1. UNCHANGED <<told, calls, began, outcome, live, children, run, crashes>>
    BY <1>8 DEF Finalize
  <2>2. CASE Stale
    <3>1. /\ RowIs("completed") /\ StoredIn(watch.turn)
          /\ finals' = finals \cup {<<watch.turn, "watchdog">>} /\ Pass("written")
      BY <1>8, <2>2 DEF Finalize
    <3>2. watch' \in Looks /\ watch'.at = "written"
      BY <1>4, <3>1
    <3>3. /\ taskRow' \in [status : Statuses, recent : BOOLEAN]
          /\ taskRow'.recent
      BY <3>1, RowTypes DEF Statuses
    <3>4. QED BY <1>1, <1>3, <2>1, <3>1, <3>2, <3>3, WatchKeeps
  <2>3. CASE ~Stale
    <3>1. watch' = Resting /\ UNCHANGED <<taskRow, newest, finals>>
      BY <1>8, <2>3 DEF Finalize
    <3>2. QED BY <1>1, <1>2, <2>1, <3>1, WatchKeeps
  <2>4. QED BY <2>2, <2>3
<1>9. CASE WatchOrphans
  <2>1. OpenCalls(watch.turn) \in SUBSET Invocations
    BY <1>1 DEF OpenCalls
  <2>2. watch' \in Looks /\ watch'.at = "settling"
    BY <1>1, <1>9, <2>1 DEF WatchOrphans
  <2>3. UNCHANGED <<taskRow, told, newest, calls, began, outcome, live, finals, children, run, crashes>>
    BY <1>9 DEF WatchOrphans
  <2>4. QED BY <1>1, <2>2, <2>3, WatchKeeps
<1>10. ASSUME NEW o \in Invocations, WatchSettle(o)
       PROVE  TurnInv'
  <2>1. /\ watch' = [watch EXCEPT !.open = @ \ {o}] /\ watch.at = "settling"
        /\ Interrupted(o) /\ StoredIn(watch.turn)
        /\ UNCHANGED <<taskRow, told, calls, began, live, finals, children, run, crashes>>
    BY <1>10 DEF WatchSettle
  <2>2. watch' \in Looks /\ watch'.at = "settling"
    BY <1>1, <2>1
  <2>3. outcome' \in [Invocations -> SUBSET {"own", "interrupted"}]
    BY <1>1, <2>1 DEF Interrupted
  <2>4. QED BY <1>1, <1>3, <2>1, <2>2, <2>3, WatchKeeps
<1>11. CASE EndPass
  <2>1. /\ watch' = Resting
        /\ UNCHANGED <<taskRow, told, newest, calls, began, outcome, live, finals, children, run, crashes>>
    BY <1>11 DEF EndPass
  <2>2. QED BY <1>1, <1>2, <2>1, WatchKeeps
<1>12. ASSUME NEW t \in TaskTurns, ChildEnds(t)
       PROVE  TurnInv'
  <2>1. /\ children' = children \ {t}
        /\ UNCHANGED <<taskRow, told, newest, calls, began, outcome, live, finals, run, watch, crashes>>
    BY <1>12 DEF ChildEnds
  <2>2. QED BY <1>1, <2>1, WatchKeeps
<1>13. QED
  BY <1>5, <1>6, <1>7, <1>8, <1>9, <1>10, <1>11, <1>12 DEF Watchdog

\* The grace passes while nothing but a tool or the user is waited for.
LEMMA GraceStep ==
    ASSUME TurnInv, Grace
    PROVE  TurnInv'
<1>1. /\ taskRow' \in [status : Statuses, recent : BOOLEAN]
      /\ newest' \in [turn : {NoTurn} \cup TaskTurns, recent : BOOLEAN]
      /\ UNCHANGED <<told, calls, began, outcome, live, finals, children, run, watch, crashes>>
      /\ watch.at = "idle"
  BY DEF Grace, TurnInv, TurnTypes
<1>2. \A c \in Invocations :
          Underway(c) => calls[c].at = "asking" \/ (calls[c].at = "running" /\ calls[c].kind = "tool")
  BY DEF Grace
<1>3. \A c \in Invocations : Underway(c)' <=> Underway(c)
  BY <1>1 DEF Underway
<1>4. Quieted'
  BY <1>1, <1>2, <1>3 DEF TurnInv, CallShape, RowShape, Quieted
<1>5. WatchClear'
  BY <1>1 DEF WatchClear
<1>6. TurnTypes' /\ CallShape' /\ FinalMatchesRun'
  BY <1>1 DEF TurnInv, TurnTypes, CallShape, RowShape, FinalMatchesRun
<1>7. QED BY <1>4, <1>5, <1>6 DEF TurnInv

LEMMA CrashStep ==
    ASSUME TurnInv, Crash
    PROVE  TurnInv'
<1>1. /\ calls' = [c \in Invocations |-> IF Underway(c) THEN Over(calls[c], "lost") ELSE calls[c]]
      /\ live' = {} /\ watch' = Resting
      /\ crashes' \in 0..MaxCrashes
      /\ RowIs("interrupted") \/ taskRow' = taskRow
      /\ UNCHANGED <<told, newest, began, outcome, finals, children, run>>
  BY TurnAssumption DEF Crash, TurnInv, TurnTypes
<1>2. calls \in [Invocations -> CallRows] /\ IdleCall \in CallRows
  BY TurnAssumption DEF TurnInv, TurnTypes, CallRows, IdleCall, Steps, Kinds, TaskTurns, Statuses
<1>3. \A c \in Invocations : Over(calls[c], "lost") \in CallRows /\ Over(calls[c], "lost").at = "lost"
  BY <1>2 DEF Over, CallRows, Steps
<1>4. calls' \in [Invocations -> CallRows]
  BY <1>1, <1>2, <1>3
<1>5. \A c \in Invocations : calls'[c].at \in {"idle", "done", "lost"}
  BY <1>1, <1>3 DEF Underway
<1>6. /\ watch' \in [at : {"idle"}, turn : TaskTurns, open : SUBSET Invocations]
  BY <1>1, TurnAssumption DEF Resting, TaskTurns
<1>7. TurnTypes'
  <2>1. taskRow' \in [status : Statuses, recent : BOOLEAN]
    BY <1>1, RowTypes DEF TurnInv, TurnTypes, Statuses
  <2>2. QED BY <1>1, <1>4, <1>6, <2>1 DEF TurnInv, TurnTypes, CallRows
<1>8. CallShape' /\ FinalMatchesRun' /\ Quieted' /\ WatchClear'
  BY <1>1, <1>5, <1>6 DEF TurnInv, CallShape, RowShape, FinalMatchesRun, Quieted, WatchClear, Underway
<1>9. QED BY <1>7, <1>8 DEF TurnInv

LEMMA TurnInvStep ==
    ASSUME TurnInv, [TurnNext]_turnVars
    PROVE  TurnInv'
<1>1. CASE UNCHANGED turnVars
  BY <1>1 DEF turnVars, TurnInv, TurnTypes, CallShape, RowShape, FinalMatchesRun, Quieted, WatchClear,
              Underway
<1>2. QED BY <1>1, CallStep, AdmitStep, WatchdogStep, GraceStep, CrashStep DEF TurnNext

LEMMA TurnInvAlways == TurnSpec => []TurnInv
<1>1. TurnInv /\ [TurnNext]_turnVars => TurnInv'
  BY TurnInvStep
<1>2. QED BY <1>1, TurnInvInit, PTL DEF TurnSpec

\* Only the watchdog's own update finalizes, on a row that is still stale.
LEMMA FinalizesStale ==
    ASSUME TurnInv, [TurnNext]_turnVars, Finalizes
    PROVE  Stale
<1>1. watch' # watch /\ watch.at = "childless" /\ watch'.at = "written"
  BY DEF Finalizes
<1>2. ASSUME NEW c \in Invocations, Call(c)
      PROVE  FALSE
  <2>1. watch' = watch
    BY <1>2 DEF Call, Refuse, Ask, Approved, Denied, Register, Start, Answer, Leave, SaveMessage,
                ReadRow, LeaveRow, WriteBack, Progress, CheckActive, CheckChildren, StoreReport, Claim, WriteRow, ReadOrphans,
                Settle, FinalEvent
  <2>2. QED BY <1>1, <2>1
<1>3. ASSUME NEW c \in Invocations, NEW k \in KindsOf[c], NEW t \in TaskTurns, Admit(c, k, t)
      PROVE  FALSE
  BY <1>1, <1>3 DEF Admit
<1>4. CASE Expire \/ Interrupt \/ Pick \/ ReadLatest \/ LookActive \/ LookChildren \/ WatchOrphans
           \/ (\E o \in Invocations : WatchSettle(o)) \/ EndPass \/ Grace
           \/ \E t \in TaskTurns : ChildEnds(t)
  BY <1>1, <1>4 DEF Expire, Interrupt, Pick, ReadLatest, LookActive, LookChildren, WatchOrphans,
                    WatchSettle, EndPass, Grace, ChildEnds
<1>5. CASE Crash
  BY <1>1, <1>5 DEF Crash, Resting
<1>6. CASE Finalize
  BY <1>1, <1>6 DEF Finalize, Resting
<1>7. QED BY <1>1, <1>2, <1>3, <1>4, <1>5, <1>6 DEF TurnNext, Watchdog, turnVars

\* A final event belongs to a completed run, and the watchdog completes no turn in which
\* something is underway but a tool that waited for its approval: for every number of
\* calls, turns and crashes.
THEOREM TurnsKept == TurnSpec => TurnsSafe
<1> DEFINE Safe == FinalMatchesRun' /\ NothingUnderway
<1>1. TurnInv /\ [TurnNext]_turnVars => [Safe]_turnVars
  <2>1. SUFFICES ASSUME TurnInv, [TurnNext]_turnVars PROVE Safe
    OBVIOUS
  <2>2. FinalMatchesRun'
    BY <2>1, TurnInvStep DEF TurnInv
  <2>3. NothingUnderway
    BY <2>1, FinalizesStale DEF NothingUnderway, Finalizes, TurnInv, WatchClear, Stale
  <2>4. QED BY <2>2, <2>3
<1>2. QED BY <1>1, TurnInvAlways, PTL DEF TurnSpec, TurnsSafe

\* The rows, the calls and the pass of the watchdog are well formed.
THEOREM TurnTypeCorrect == TurnSpec => []TurnTypes
<1>1. TurnInv => TurnTypes
  BY DEF TurnInv
<1>2. QED BY <1>1, TurnInvAlways, PTL

----------------------------------------------------------------------------
(* The repository index.                                                    *)

Indexes == [gen : Nat, entries : [Paths -> Nat], fresh : {"none", "fresh", "stale", "unknown"}]
Rebuilds == [step : {"idle", "wait", "crawl", "persist", "store"}, todo : SUBSET Paths,
             seen : [Paths -> Nat], copy : Indexes]
Finds == [step : {"none", "first", "next", "cursor", "done", "failed"}, source : {"direct", "index"},
          left : SUBSET Paths, seen : [Paths -> Nat], gen : Nat, rootTime : Nat,
          got : SUBSET Paths, quiet : BOOLEAN]

IndexShape ==
    /\ tree \in [Paths -> Nat] /\ rootTime \in Nat /\ changes \in Nat
    /\ index \in Indexes /\ row \in Indexes
    /\ pending \subseteq Paths /\ overtaken \subseteq Paths
    /\ rebuild \in [Rebuilders -> Rebuilds]
    /\ find \in Finds

\* The gate lets one rebuild crawl at a time ...
OneCrawl == \A r, q \in Rebuilders : rebuild[r].step = "crawl" /\ rebuild[q].step = "crawl" => r = q

\* ... and what it has visited and was changed since has an event to come, or one that came
\* behind it.
CrawlExplained ==
    \A r \in Rebuilders, p \in Paths :
        rebuild[r].step = "crawl" /\ p \notin rebuild[r].todo /\ rebuild[r].seen[p] # tree[p] =>
            p \in pending \cup overtaken

\* While nothing changes, what a query has reported and what it still has to report are
\* together what exists.
FindCovers ==
    /\ find.quiet /\ find.step # "failed" => find.left \cup find.got = Existing(tree)
    /\ find.step = "done" => find.left = {}

IndexInv == IndexShape /\ OneCrawl /\ CrawlExplained /\ FreshExplained /\ FindCovers

LEMMA Empties ==
    /\ Nothing \in [Paths -> Nat] /\ NoIndex \in Indexes /\ NoRebuild \in Rebuilds /\ NoFind \in Finds
    /\ NoIndex.fresh = "none" /\ NoRebuild.step = "idle" /\ ~NoFind.quiet /\ NoFind.step = "none"
<1>1. Nothing \in [Paths -> Nat]
  BY DEF Nothing
<1>2. NoIndex \in Indexes /\ NoIndex.fresh = "none"
  BY <1>1 DEF NoIndex, Indexes
<1>3. NoRebuild \in Rebuilds /\ NoRebuild.step = "idle"
  BY <1>1, <1>2 DEF NoRebuild, Rebuilds
<1>4. NoFind \in Finds /\ NoFind.step = "none"
  BY <1>1 DEF NoFind, Finds
<1>5. ~NoFind.quiet
  BY DEF NoFind
<1>6. QED BY <1>1, <1>2, <1>3, <1>4, <1>5

LEMMA IndexInvInit == IndexInit => IndexInv
<1> SUFFICES ASSUME IndexInit PROVE IndexInv
  OBVIOUS
<1>1. tree \in [Paths -> Nat]
  BY DEF IndexInit
<1>2. IndexShape
  BY <1>1, Empties DEF IndexInit, IndexShape
<1>3. \A r \in Rebuilders : rebuild[r].step # "crawl"
  BY Empties DEF IndexInit
<1>4. find.step = "none" /\ ~find.quiet /\ index.fresh = "none"
  BY Empties DEF IndexInit
<1>5. QED
  BY <1>2, <1>3, <1>4 DEF IndexInv, OneCrawl, CrawlExplained, FreshExplained, FindCovers

LEMMA WalkCovers ==
    ASSUME IndexShape
    PROVE  /\ Walk \in Finds /\ Walk.step = "first" /\ Walk.left = Existing(tree) /\ Walk.got = {}
           /\ \A gen \in Nat : LET w == [Walk EXCEPT !.gen = gen]
                               IN  w \in Finds /\ w.step = "first" /\ w.left = Existing(tree) /\ w.got = {}
<1>1. Existing(tree) \in SUBSET Paths
  BY DEF Existing
<1>2. NoFind \in Finds /\ NoFind.got = {}
  BY Empties DEF NoFind
<1>3. Walk \in Finds /\ Walk.step = "first" /\ Walk.left = Existing(tree) /\ Walk.got = {}
  BY <1>1, <1>2 DEF Walk, Finds, IndexShape
<1> HIDE DEF Walk
<1>4. QED BY <1>3 DEF Finds

\* A step of the query leaves the tree alone.
LEMMA FindStep ==
    ASSUME IndexInv, StartFind \/ FindEmpty \/ NextPage \/ \E p \in Paths : Report(p)
    PROVE  IndexInv'
<1>1. UNCHANGED <<tree, rootTime, index, row, pending, unsaved, rebuild, overtaken, changes>>
  BY DEF StartFind, FindEmpty, NextPage, Report
<1>2. IndexShape /\ find \in Finds /\ FindCovers
  BY DEF IndexInv, IndexShape
<1>3. find' \in Finds /\ FindCovers'
  <2>1. CASE StartFind
    <3>1. CASE Trusted
      <4> DEFINE q == (pending = {} /\ overtaken = {})
      <4>1. find' = [Walk EXCEPT !.source = "index", !.left = Existing(index.entries),
                                 !.seen = index.entries, !.gen = index.gen, !.quiet = q]
        BY <2>1, <3>1 DEF StartFind
      <4>2. find' = [step |-> "first", source |-> "index", left |-> Existing(index.entries),
                     seen |-> index.entries, gen |-> index.gen, rootTime |-> rootTime, got |-> {},
                     quiet |-> q]
        BY <4>1 DEF Walk, NoFind
      <4>3. q \in BOOLEAN /\ index.entries \in [Paths -> Nat] /\ index.gen \in Nat
        BY <1>2 DEF IndexShape, Indexes
      <4>4. Existing(index.entries) \in SUBSET Paths
        BY DEF Existing
      <4>5. q => Existing(index.entries) = Existing(tree)
        BY <3>1 DEF IndexInv, FreshExplained, Trusted, Existing
      <4> HIDE DEF q
      <4>6. find' \in Finds
        BY <1>2, <4>2, <4>3, <4>4 DEF IndexShape, Finds
      <4>7. find'.step = "first" /\ find'.left = Existing(index.entries) /\ find'.got = {}
        BY <4>2
      <4>8. find'.quiet => q
        BY <4>2, <4>3
      <4>9. QED BY <1>1, <4>5, <4>6, <4>7, <4>8 DEF FindCovers
    <3>2. CASE ~Trusted
      <4>1. find' = Walk
        BY <2>1, <3>2 DEF StartFind
      <4>2. QED BY <1>1, <1>2, <4>1, WalkCovers DEF FindCovers
    <3>3. QED BY <3>1, <3>2
  <2>2. CASE FindEmpty \/ NextPage
    <3>1. PICK step \in {"done", "next", "failed"} :
             /\ find' = [find EXCEPT !.step = step]
             /\ step = "done" => find.left = {}
             /\ find.step # "failed"
      BY <2>2 DEF FindEmpty, NextPage
    <3>2. /\ find' \in Finds /\ find'.step = step /\ find'.left = find.left /\ find'.got = find.got
          /\ find'.quiet = find.quiet
      BY <1>2, <3>1 DEF Finds
    <3>3. QED BY <1>1, <1>2, <3>1, <3>2 DEF FindCovers
  <2>3. ASSUME NEW p \in Paths, Report(p)
        PROVE  find' \in Finds /\ FindCovers'
    <3>1. PICK step \in {"done", "cursor"} :
             /\ find' = [find EXCEPT !.left = @ \ {p}, !.got = @ \cup {p}, !.step = step]
             /\ step = "done" => find.left = {p}
             /\ find.step # "failed" /\ p \in find.left
      BY <2>3 DEF Report
    <3>2. /\ find' \in Finds /\ find'.step = step /\ find'.left = find.left \ {p}
          /\ find'.got = find.got \cup {p} /\ find'.quiet = find.quiet
      BY <1>2, <3>1 DEF Finds
    <3>3. QED BY <1>1, <1>2, <3>1, <3>2 DEF FindCovers
  <2>4. QED BY <2>1, <2>2, <2>3
<1>4. QED
  BY <1>1, <1>3 DEF IndexInv, IndexShape, OneCrawl, CrawlExplained, FreshExplained

LEMMA DetectStaleStep ==
    ASSUME IndexInv, NEW p \in Paths, DetectStale(p)
    PROVE  IndexInv'
<1>1. /\ UNCHANGED <<tree, rootTime, row, pending, unsaved, rebuild, overtaken, changes>>
      /\ index' = IF index.fresh = "none" THEN index ELSE [index EXCEPT !.gen = @ + 1, !.fresh = "stale"]
      /\ find' = IF find.step = "first" THEN [Walk EXCEPT !.gen = find.gen] ELSE [find EXCEPT !.step = "failed"]
  BY DEF DetectStale
<1>2. IndexShape /\ index \in Indexes /\ find \in Finds /\ find.gen \in Nat
  BY DEF IndexInv, IndexShape, Finds
<1>3. index' \in Indexes /\ index'.fresh # "fresh"
  <2>1. CASE index.fresh = "none"
    BY <1>1, <1>2, <2>1
  <2>2. CASE index.fresh # "none"
    <3>1. index' = [index EXCEPT !.gen = index.gen + 1, !.fresh = "stale"]
      BY <1>1, <2>2
    <3>2. index.gen \in Nat /\ index.entries \in [Paths -> Nat]
      BY <1>2 DEF Indexes
    <3>3. index.gen + 1 \in Nat
      BY <3>2
    <3>4. index' = [gen |-> index.gen + 1, entries |-> index.entries, fresh |-> "stale"]
      BY <1>2, <3>1 DEF Indexes
    <3>5. QED BY <3>2, <3>3, <3>4 DEF Indexes
  <2>3. QED BY <2>1, <2>2
<1>4. find' \in Finds /\ FindCovers'
  <2>1. CASE find.step = "first"
    BY <1>1, <1>2, <2>1, WalkCovers DEF FindCovers
  <2>2. CASE find.step # "first"
    <3>1. find' \in Finds /\ find'.step = "failed"
      BY <1>1, <1>2, <2>2 DEF Finds
    <3>2. QED BY <3>1 DEF FindCovers
  <2>3. QED BY <2>1, <2>2
<1>5. QED
  BY <1>1, <1>3, <1>4 DEF IndexInv, IndexShape, OneCrawl, CrawlExplained, FreshExplained

LEMMA ChangedTree ==
    ASSUME IndexShape, NEW p \in Paths, Changed(p)
    PROVE  /\ tree' \in [Paths -> Nat] /\ rootTime' \in Nat
           /\ \A q \in Paths \ {p} : tree'[q] = tree[q]
<1>1. PICK v \in {0, changes + 2} :
         /\ tree' = [tree EXCEPT ![p] = v]
         /\ rootTime' = IF p \notin Nested /\ 0 \in {v, tree[p]} THEN rootTime + 1 ELSE rootTime
  BY DEF Changed
<1>2. v \in Nat
  BY DEF IndexShape
<1>3. QED BY <1>1, <1>2 DEF IndexShape

LEMMA ChangeStep ==
    ASSUME IndexInv, NEW p \in Paths, Change(p)
    PROVE  IndexInv'
<1>1. /\ Changed(p) /\ changes' = changes + 1
      /\ pending' = pending \cup {p}
      /\ find' = [find EXCEPT !.quiet = FALSE]
      /\ UNCHANGED <<index, row, unsaved, rebuild, overtaken>>
  BY DEF Change, Count
<1>2. IndexShape /\ find \in Finds /\ changes \in Nat
  BY DEF IndexInv, IndexShape
<1>3. /\ tree' \in [Paths -> Nat] /\ rootTime' \in Nat
      /\ \A q \in Paths \ {p} : tree'[q] = tree[q]
  BY <1>1, <1>2, ChangedTree
<1>4. find' \in Finds /\ ~find'.quiet /\ find'.step = find.step /\ find'.left = find.left
  BY <1>1, <1>2 DEF Finds
<1>5. IndexShape'
  BY <1>1, <1>2, <1>3, <1>4 DEF IndexShape
<1>6. OneCrawl' /\ FindCovers'
  BY <1>1, <1>4 DEF IndexInv, OneCrawl, FindCovers
<1>7. CrawlExplained' /\ FreshExplained'
  BY <1>1, <1>3 DEF IndexInv, CrawlExplained, FreshExplained
<1>8. QED BY <1>5, <1>6, <1>7 DEF IndexInv

LEMMA MarkStep ==
    ASSUME IndexInv, NEW p \in Paths, mark_index_stale(p)
    PROVE  IndexInv'
<1>1. /\ pending' = pending \ {p} /\ index' = Marked(p)
      /\ overtaken' = IF Passed(p) THEN overtaken \cup {p} ELSE overtaken \ {p}
      /\ UNCHANGED <<tree, rootTime, row, rebuild, find, changes>>
  BY DEF mark_index_stale
<1>2. IndexShape /\ index \in Indexes
  BY DEF IndexInv, IndexShape
<1>3. index' \in Indexes /\ index'.fresh # "fresh"
  <2>1. CASE index.fresh = "none"
    BY <1>1, <1>2, <2>1 DEF Marked
  <2>2. CASE index.fresh # "none"
    <3>1. index' = [gen |-> index.gen + 1, entries |-> [index.entries EXCEPT ![p] = tree[p]], fresh |-> "stale"]
      BY <1>1, <2>2 DEF Marked
    <3>2. index.gen + 1 \in Nat /\ [index.entries EXCEPT ![p] = tree[p]] \in [Paths -> Nat]
      BY <1>2 DEF Indexes, IndexShape
    <3>3. QED BY <3>1, <3>2 DEF Indexes
  <2>3. QED BY <2>1, <2>2
<1>4. IndexShape'
  BY <1>1, <1>2, <1>3 DEF IndexShape
<1>5. CrawlExplained'
  <2>1. SUFFICES ASSUME NEW r \in Rebuilders, NEW q \in Paths, rebuild[r].step = "crawl",
                        q \notin rebuild[r].todo, rebuild[r].seen[q] # tree[q]
                 PROVE  q \in pending' \cup overtaken'
    BY <1>1 DEF CrawlExplained
  <2>2. q \in pending \cup overtaken
    BY <2>1 DEF IndexInv, CrawlExplained
  <2>3. q = p => Passed(p)
    BY <2>1 DEF Passed, Crawling
  <2>4. QED BY <1>1, <2>2, <2>3
<1>6. OneCrawl' /\ FindCovers' /\ FreshExplained'
  BY <1>1, <1>3 DEF IndexInv, OneCrawl, FindCovers, FreshExplained
<1>7. QED BY <1>4, <1>5, <1>6 DEF IndexInv

\* A step of one rebuild that leaves the tree and what is pending alone.
LEMMA RebuildKeeps ==
    ASSUME IndexInv, NEW r \in Rebuilders, NEW x \in Rebuilds, Proceeds(r, x),
           index' \in Indexes, row' \in Indexes, changes' \in Nat,
           x.step = "crawl" =>
               /\ \A q \in Rebuilders \ {r} : rebuild[q].step # "crawl"
               /\ \A p \in Paths : p \notin x.todo /\ x.seen[p] # tree[p] => p \in pending \cup overtaken,
           \/ overtaken' = overtaken
           \/ /\ overtaken' \subseteq overtaken
              /\ rebuild[r].step = "crawl" /\ x.step # "crawl",
           FreshExplained'
    PROVE  IndexInv'
<1>1. /\ rebuild' = [rebuild EXCEPT ![r] = x]
      /\ UNCHANGED <<tree, rootTime, pending, unsaved, find>>
  BY DEF Proceeds
<1>2. IndexShape /\ rebuild \in [Rebuilders -> Rebuilds]
  BY DEF IndexInv, IndexShape
<1>3. rebuild' \in [Rebuilders -> Rebuilds] /\ rebuild'[r] = x
      /\ \A q \in Rebuilders \ {r} : rebuild'[q] = rebuild[q]
  BY <1>1, <1>2
<1>4. IndexShape'
  BY <1>1, <1>2, <1>3 DEF IndexShape
<1>5. OneCrawl'
  BY <1>3 DEF IndexInv, OneCrawl
<1>6. CrawlExplained'
  <2>1. SUFFICES ASSUME NEW q \in Rebuilders, NEW p \in Paths, rebuild'[q].step = "crawl",
                        p \notin rebuild'[q].todo, rebuild'[q].seen[p] # tree[p]
                 PROVE  p \in pending \cup overtaken'
    BY <1>1 DEF CrawlExplained
  <2>2. CASE q = r
    BY <1>3, <2>1, <2>2
  <2>3. CASE q # r
    <3>1. p \in pending \cup overtaken
      BY <1>3, <2>1, <2>3 DEF IndexInv, CrawlExplained
    <3>2. rebuild[r].step # "crawl"
      BY <1>3, <2>1, <2>3 DEF IndexInv, OneCrawl
    <3>3. QED BY <3>1, <3>2
  <2>4. QED BY <2>2, <2>3
<1>7. FindCovers'
  BY <1>1 DEF IndexInv, FindCovers
<1>8. QED BY <1>4, <1>5, <1>6, <1>7 DEF IndexInv

LEMMA RebuildStep ==
    ASSUME IndexInv, NEW r \in Rebuilders,
           \/ AskRebuild(r) \/ StartRebuild(r) \/ Insert(r) \/ FailRebuild(r)
           \/ export_index_snapshot(r) \/ replace_workspace_index(r)
           \/ \E p \in Paths : Visit(r, p)
    PROVE  IndexInv'
<1>1. /\ IndexShape /\ rebuild[r] \in Rebuilds /\ index \in Indexes /\ row \in Indexes /\ changes \in Nat
      /\ tree \in [Paths -> Nat]
  BY DEF IndexInv, IndexShape
<1>2. UNCHANGED <<index, tree, pending, overtaken>> => FreshExplained'
  BY DEF IndexInv, FreshExplained
<1>3. changes + 1 \in Nat
  BY <1>1
<1>4. CASE StartRebuild(r)
  <2> DEFINE x == [NoRebuild EXCEPT !.step = "crawl", !.todo = Paths]
  <2>1. /\ Proceeds(r, x) /\ UNCHANGED <<index, row, overtaken, changes>> /\ Crawling = {}
    BY <1>4 DEF StartRebuild, Gate
  <2>2. x \in Rebuilds /\ x.todo = Paths
    BY Empties DEF Rebuilds
  <2>3. \A q \in Rebuilders : rebuild[q].step # "crawl"
    BY <2>1 DEF Crawling
  <2> HIDE DEF x
  <2>4. FreshExplained'
    BY <1>2, <2>1 DEF Proceeds
  <2>5. QED BY <1>1, <1>3, <2>1, <2>2, <2>3, <2>4, RebuildKeeps
<1>5. CASE AskRebuild(r)
  <2> DEFINE x == [NoRebuild EXCEPT !.step = "wait"]
  <2>1. /\ Proceeds(r, x) /\ UNCHANGED <<index, row, overtaken>>
        /\ changes' \in {changes, changes + 1}
    BY <1>5 DEF AskRebuild, Count
  <2>2. x \in Rebuilds /\ x.step = "wait"
    BY Empties DEF Rebuilds
  <2> HIDE DEF x
  <2>3. FreshExplained'
    BY <1>2, <2>1 DEF Proceeds
  <2>4. QED BY <1>1, <1>3, <2>1, <2>2, <2>3, RebuildKeeps
<1>6. ASSUME NEW p \in Paths, Visit(r, p)
      PROVE  IndexInv'
  <2> DEFINE x == [rebuild[r] EXCEPT !.todo = @ \ {p}, !.seen[p] = tree[p]]
  <2>1. Proceeds(r, x) /\ UNCHANGED <<index, row, overtaken, changes>> /\ p \in rebuild[r].todo
    BY <1>6 DEF Visit
  <2>2. /\ x \in Rebuilds /\ x.step = rebuild[r].step /\ x.todo = rebuild[r].todo \ {p}
        /\ x.seen = [rebuild[r].seen EXCEPT ![p] = tree[p]]
    BY <1>1 DEF Rebuilds
  <2>3. rebuild[r].seen \in [Paths -> Nat]
    BY <1>1 DEF Rebuilds
  <2> HIDE DEF x
  <2>4. FreshExplained'
    BY <1>2, <2>1 DEF Proceeds
  <2>5. x.step = "crawl" =>
           /\ \A q \in Rebuilders \ {r} : rebuild[q].step # "crawl"
           /\ \A q \in Paths : q \notin x.todo /\ x.seen[q] # tree[q] => q \in pending \cup overtaken
    BY <2>2, <2>3 DEF IndexInv, OneCrawl, CrawlExplained
  <2>6. QED BY <1>1, <2>1, <2>2, <2>4, <2>5, RebuildKeeps
<1>7. CASE Insert(r)
  <2> DEFINE x == [NoRebuild EXCEPT !.step = "persist"]
  <2>1. /\ rebuild[r].step = "crawl" /\ rebuild[r].todo = {}
        /\ index' = [gen |-> index.gen + 1, entries |-> rebuild[r].seen, fresh |-> "fresh"]
        /\ overtaken' = {p \in overtaken : rebuild[r].seen[p] # tree[p]}
        /\ Proceeds(r, x) /\ UNCHANGED <<row, changes>>
    BY <1>7 DEF Insert
  <2>2. x \in Rebuilds /\ x.step = "persist"
    BY Empties DEF Rebuilds
  <2> HIDE DEF x
  <2>3. index.gen + 1 \in Nat /\ rebuild[r].seen \in [Paths -> Nat]
    BY <1>1 DEF Indexes, Rebuilds
  <2>4. index' \in Indexes /\ index'.entries = rebuild[r].seen
    BY <2>1, <2>3 DEF Indexes
  <2>5. FreshExplained'
    <3>1. UNCHANGED <<tree, pending>>
      BY <2>1 DEF Proceeds
    <3>2. \A p \in Paths : rebuild[r].seen[p] # tree[p] => p \in pending \cup overtaken
      BY <2>1 DEF IndexInv, CrawlExplained
    <3>3. QED BY <2>1, <2>4, <3>1, <3>2 DEF FreshExplained
  <2>6. QED BY <1>1, <2>1, <2>2, <2>4, <2>5, RebuildKeeps
<1>8. CASE FailRebuild(r)
  <2>1. /\ index' = [index EXCEPT !.fresh = "unknown"] /\ changes' = changes + 1
        /\ Proceeds(r, NoRebuild) /\ UNCHANGED <<row, overtaken>>
    BY <1>8 DEF FailRebuild, Count
  <2>2. index' \in Indexes /\ index'.fresh = "unknown"
    BY <1>1, <2>1 DEF Indexes
  <2>3. FreshExplained'
    BY <2>2 DEF FreshExplained
  <2>4. QED BY <1>1, <1>3, <2>1, <2>2, <2>3, Empties, RebuildKeeps
<1>9. CASE export_index_snapshot(r)
  <2> DEFINE x == [rebuild[r] EXCEPT !.step = "store", !.copy = index]
  <2>1. Proceeds(r, x) /\ UNCHANGED <<index, row, overtaken, changes>>
    BY <1>9 DEF export_index_snapshot
  <2>2. x \in Rebuilds /\ x.step = "store"
    BY <1>1 DEF Rebuilds
  <2> HIDE DEF x
  <2>3. FreshExplained'
    BY <1>2, <2>1 DEF Proceeds
  <2>4. QED BY <1>1, <2>1, <2>2, <2>3, RebuildKeeps
<1>10. CASE replace_workspace_index(r)
  <2>1. /\ row' = rebuild[r].copy /\ Proceeds(r, NoRebuild)
        /\ UNCHANGED <<index, overtaken, changes>>
    BY <1>10 DEF replace_workspace_index
  <2>2. row' \in Indexes
    BY <1>1, <2>1 DEF Rebuilds
  <2>3. FreshExplained'
    BY <1>2, <2>1 DEF Proceeds
  <2>4. QED BY <1>1, <2>1, <2>2, <2>3, Empties, RebuildKeeps
<1>11. QED BY <1>4, <1>5, <1>6, <1>7, <1>8, <1>9, <1>10

\* What a restart finds in the database is a candidate at best.
LEMMA RestoredShape ==
    ASSUME IndexShape
    PROVE  Restored \in Indexes /\ Restored.fresh # "fresh"
<1>1. load_workspace_index \in Indexes
  BY Empties DEF load_workspace_index, IndexShape
<1>2. QED BY <1>1 DEF Restored, Indexes

LEMMA RestartIndexStep ==
    ASSUME IndexInv, RestartIndex
    PROVE  IndexInv'
<1>1. /\ UNCHANGED <<tree, rootTime>> \/ \E p \in Paths : Changed(p)
      /\ index' = Restored /\ pending' = {} /\ overtaken' = {}
      /\ rebuild' = [r \in Rebuilders |-> NoRebuild] /\ find' = NoFind
      /\ changes' = changes + 1 /\ row' = row
  BY DEF RestartIndex, Count
<1>2. IndexShape
  BY DEF IndexInv
<1>3. tree' \in [Paths -> Nat] /\ rootTime' \in Nat
  BY <1>1, <1>2, ChangedTree DEF IndexShape
<1>4. \A r \in Rebuilders : rebuild'[r] \in Rebuilds /\ rebuild'[r].step # "crawl"
  BY <1>1, Empties
<1>5. IndexShape'
  BY <1>1, <1>2, <1>3, Empties, RestoredShape DEF IndexShape
<1>6. OneCrawl' /\ CrawlExplained'
  BY <1>4 DEF OneCrawl, CrawlExplained
<1>7. FreshExplained'
  BY <1>1, <1>2, RestoredShape DEF FreshExplained
<1>8. FindCovers'
  BY <1>1, Empties DEF FindCovers
<1>9. QED BY <1>5, <1>6, <1>7, <1>8 DEF IndexInv

LEMMA StaleRowStep ==
    ASSUME IndexInv, mark_workspace_index_stale
    PROVE  IndexInv'
<1>1. /\ row' = IF row.fresh = "none" THEN row ELSE [row EXCEPT !.fresh = "stale"]
      /\ UNCHANGED <<tree, rootTime, index, pending, rebuild, find, overtaken, changes>>
  BY DEF mark_workspace_index_stale
<1>2. row \in Indexes
  BY DEF IndexInv, IndexShape
<1>3. row' \in Indexes
  BY <1>1, <1>2 DEF Indexes
<1>4. QED
  BY <1>1, <1>3 DEF IndexInv, IndexShape, OneCrawl, CrawlExplained, FreshExplained, FindCovers

LEMMA IndexInvStep ==
    ASSUME IndexInv, [IndexNext]_indexVars
    PROVE  IndexInv'
<1>1. CASE UNCHANGED indexVars
  BY <1>1 DEF indexVars, IndexInv, IndexShape, OneCrawl, CrawlExplained, FreshExplained, FindCovers
<1>2. QED
  BY <1>1, ChangeStep, MarkStep, StaleRowStep, RebuildStep, RestartIndexStep, FindStep,
     DetectStaleStep DEF IndexNext

LEMMA IndexInvAlways == IndexSpec => []IndexInv
<1>1. IndexInv /\ [IndexNext]_indexVars => IndexInv'
  BY IndexInvStep
<1>2. QED BY <1>1, IndexInvInit, PTL DEF IndexSpec

\* Within one life of the host the entries change only with the generation.
LEMMA GenerationStep ==
    ASSUME IndexInv, [IndexNext]_indexVars, index'.gen = index.gen
    PROVE  index'.entries = index.entries \/ index' = Restored
<1>1. index \in Indexes /\ index.gen \in Nat
  BY DEF IndexInv, IndexShape, Indexes
<1>2. CASE UNCHANGED index
  BY <1>2
<1>3. ASSUME NEW p \in Paths, mark_index_stale(p)
      PROVE  index'.entries = index.entries
  <2>1. index' = Marked(p)
    BY <1>3 DEF mark_index_stale
  <2>2. QED BY <1>1, <2>1 DEF Marked
<1>4. ASSUME NEW r \in Rebuilders, Insert(r) \/ FailRebuild(r)
      PROVE  index'.entries = index.entries
  <2>1. CASE Insert(r)
    BY <1>1, <2>1 DEF Insert
  <2>2. CASE FailRebuild(r)
    BY <1>1, <2>2 DEF FailRebuild, Indexes
  <2>3. QED BY <1>4, <2>1, <2>2
<1>5. CASE RestartIndex
  BY <1>5 DEF RestartIndex
<1>6. ASSUME NEW p \in Paths, DetectStale(p)
      PROVE  index'.entries = index.entries
  BY <1>1, <1>6 DEF DetectStale, Indexes
<1>7. ASSUME \/ \E p \in Paths : Change(p) \/ Report(p)
             \/ mark_workspace_index_stale \/ StartFind \/ FindEmpty \/ NextPage
             \/ \E r \in Rebuilders :
                   \/ AskRebuild(r) \/ StartRebuild(r) \/ export_index_snapshot(r) \/ replace_workspace_index(r)
                   \/ \E p \in Paths : Visit(r, p)
      PROVE  UNCHANGED index
  BY <1>7 DEF Change, Report, mark_workspace_index_stale, StartFind, FindEmpty, NextPage,
              AskRebuild, StartRebuild, export_index_snapshot, replace_workspace_index, Visit
<1>8. QED
  BY <1>2, <1>3, <1>4, <1>5, <1>6, <1>7 DEF IndexNext, indexVars

LEMMA AtMostOneCrawl ==
    ASSUME OneCrawl
    PROVE  Cardinality(Crawling) <= 1
<1>1. CASE Crawling = {}
  BY <1>1, FS_EmptySet
<1>2. CASE Crawling # {}
  <2>1. PICK r \in Rebuilders : r \in Crawling
    BY <1>2 DEF Crawling
  <2>2. Crawling = {r}
    BY <2>1 DEF Crawling, OneCrawl
  <2>3. QED BY <2>2, FS_Singleton
<1>3. QED BY <1>1, <1>2

\* Versions are numbers and one rebuild crawls at a time.
THEOREM IndexTypeCorrect == IndexSpec => []IndexTypes
<1>1. IndexInv => IndexTypes
  BY AtMostOneCrawl DEF IndexInv, IndexShape, Indexes, IndexTypes
<1>2. QED BY <1>1, IndexInvAlways, PTL

\* An index that says it is fresh is wrong only where an event is still to come or came
\* behind the crawl, a query that ran over a quiet tree reported what exists, and a
\* generation names one set of entries: for every number of paths, rebuilds and changes.
THEOREM IndexKept == IndexSpec => IndexSafe
<1> DEFINE Fixed == index'.gen = index.gen => index'.entries = index.entries \/ index' = Restored
<1>1. IndexInv => FreshExplained /\ FindComplete
  BY DEF IndexInv, FindCovers, FindComplete
<1>2. IndexInv /\ [IndexNext]_indexVars => [Fixed]_indexVars
  BY GenerationStep
<1>3. QED
  BY <1>1, <1>2, IndexInvAlways, PTL DEF IndexSpec, IndexSafe, GenerationFixes

----------------------------------------------------------------------------
(* Both together, as MCHost composes them.                                  *)

LEMMA HostIsBoth == Spec => IndexSpec /\ TurnSpec
<1>1. Init => IndexInit /\ TurnInit
  BY DEF Init
<1>2. [Next]_vars => [IndexNext]_indexVars /\ [TurnNext]_turnVars
  <2>1. CASE Only("index") /\ IndexNext
    BY <2>1 DEF Only
  <2>2. CASE Only("turns") /\ TurnNext
    BY <2>2 DEF Only
  <2>3. CASE UNCHANGED vars
    BY <2>3 DEF vars
  <2>4. QED BY <2>1, <2>2, <2>3 DEF Next
<1>3. QED BY <1>1, <1>2, PTL DEF Spec, IndexSpec, TurnSpec

\* What a step of one part leaves alone, the other keeps.
THEOREM HostTypes == Spec => []TypesHold
<1>1. IndexTypes /\ TurnTypes => TypesHold
  BY DEF TypesHold
<1>2. QED BY <1>1, HostIsBoth, IndexTypeCorrect, TurnTypeCorrect, PTL

\* The properties of the parts hold of the whole.
THEOREM HostSafe == Spec => IndexSafe /\ TurnsSafe
  BY HostIsBoth, IndexKept, TurnsKept

=============================================================================
