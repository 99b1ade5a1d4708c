---------------------------- MODULE TreeTransfer ----------------------------
(***************************************************************************)
(* What the file operations of the workspace service promise               *)
(* (docs/adr/0012-safe-filesystem-mutations.md): at every path a reader    *)
(* sees a whole tree or none.  A tree is taken from the source, appears at *)
(* the destination in one step, and a source goes away only after that.    *)
(* There are no stages, no backups, no journal and no crash.               *)
(***************************************************************************)

CONSTANTS Ops, Absent, Text

VARIABLES
    job,        \* the requests; they do not change
    tree,       \* what a reader finds at every path, and in every quarantine
    taken,      \* the files an operation has taken from its source
    done        \* the operations that have published

Src(o) == job[o].src
Dst(o) == job[o].dst
Quarantine(o) == <<"quarantine", o>>
Content(p) == IF tree[p] = Absent THEN {} ELSE tree[p]

Init ==
    /\ taken = [o \in Ops |-> {}]
    /\ done = {}

Take(o) ==
    /\ job[o].kind \in {"copy", "move"}
    /\ tree[Src(o)] # Absent
    /\ taken' = [taken EXCEPT ![o] = tree[Src(o)]]
    /\ UNCHANGED <<job, tree, done>>

\* All that was taken appears, in the place of what was there.
Publish(o) ==
    /\ job[o].kind \in {"copy", "move"}
    /\ o \notin done
    /\ tree' = [tree EXCEPT ![Dst(o)] = taken[o]]
    /\ done' = done \cup {o}
    /\ UNCHANGED <<job, taken>>

\* A source shrinks under a move that has published and holds what goes, or
\* under a permanent deletion; a quarantine shrinks when it is collected.
Shrink(p, by) ==
    /\ \/ /\ job[by].kind = "move" /\ by \in done /\ p = Src(by)
          /\ Content(p) \subseteq taken[by]
       \/ job[by].kind = "permanent" /\ p = Src(by)
       \/ p = Quarantine(by)
    /\ tree[p] # Absent
    /\ \E t \in {Absent} \cup SUBSET tree[p] : tree' = [tree EXCEPT ![p] = t]
    /\ UNCHANGED <<job, taken, done>>

\* A deletion to the quarantine moves the whole tree.
Hide(o) ==
    /\ job[o].kind = "quarantine"
    /\ tree[Src(o)] # Absent
    /\ tree' = [tree EXCEPT ![Quarantine(o)] = tree[Src(o)], ![Src(o)] = Absent]
    /\ UNCHANGED <<job, taken, done>>

Write(o) ==
    /\ job[o].kind = "write"
    /\ tree' = [tree EXCEPT ![Dst(o)] = Text[o]]
    /\ UNCHANGED <<job, taken, done>>

Next ==
    \/ \E o \in Ops : Take(o) \/ Publish(o) \/ Hide(o) \/ Write(o)
    \/ \E o \in Ops, p \in DOMAIN tree : Shrink(p, o)

Spec == Init /\ [][Next]_<<job, tree, taken, done>>
=============================================================================
