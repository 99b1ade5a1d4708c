--------------------------- MODULE MCCompactTasks ---------------------------
(***************************************************************************)
(* Two tasks, their jobs and the conversations they compete for, for TLC.  *)
(***************************************************************************)
EXTENDS MCCompactResume

\* Either the program restarted on a database in which every task is bound already, or
\* not created yet, and only requests that failed are left: two jobs, and MCP calls that
\* come before the browser.  What happens between several tasks needs no enrolment.
\* Or the database is empty: one job, a request, a conversation first known by a provisional
\* id and a bridge_started between its read and its transaction.
BoundTask(c) == [status |-> "completed", scope |-> c, conv |-> c,
                 active |-> None, recorder |-> FALSE]
OldRequest == [NoRequest EXCEPT !.status = "failed"]

BoundInit ==
    /\ task \in [Tasks -> {NoTask} \cup {BoundTask(c) : c \in Convs \ Provisional}]
    /\ \A t, u \in Tasks : t # u /\ task[t].conv # None => task[t].conv # task[u].conv
    /\ req = [r \in RequestIds |-> IF r \in Requests THEN OldRequest ELSE NoRequest]
    /\ job = [j \in Jobs |-> NoJob]
    /\ archive = {} /\ immediate = {} /\ reports = {} /\ lagging = {}
    /\ seen = [j \in Jobs |-> 0]

\* Without lags no request becomes an OldRequest.
Restarted == \A r \in Requests : req[r] = OldRequest

Used == ({task[t].scope : t \in Tasks} \cup {task[t].conv : t \in Tasks} \cup {req[r].conv : r \in RequestIds}
         \cup {job[j].new : j \in Jobs} \cup {h.conv : h \in archive}) \ {None}

PairInit == BoundInit \/ Init
PairSpec == PairInit /\ [][Next]_vars

\* What each of the two leaves to the other.
PairSteps ==
    IF Restarted
    THEN /\ UNCHANGED reports /\ \A r \in Requests : UNCHANGED req[r]
         /\ Used' \subseteq Convs \ Provisional
    ELSE Cardinality({j \in Jobs : job'[j] # NoJob}) <= 1
=============================================================================
