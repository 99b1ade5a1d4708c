-------------------------- MODULE MCFileMutations --------------------------
(***************************************************************************)
(* Instances of FileMutations for TLC: pairs of requests on three paths.   *)
(***************************************************************************)
EXTENDS MoveSources, TLC

CONSTANTS a, b, c, o1, o2

Trees == (a :> {1, 2}) @@ (b :> {3}) @@ (c :> {NoEntry})
Texts == (o1 :> {4}) @@ (o2 :> {5})

Ask(kind, src, dst, policy) == [kind |-> kind, src |-> src, dst |-> dst, policy |-> policy]
MoveOver == Ask("move", a, b, "replace")
CopyOver == Ask("copy", a, b, "replace")
CopyAside == Ask("copy", a, c, "error")
CopyTarget == Ask("copy", b, c, "error")
EraseTarget(o) == Ask("permanent", b, Quarantine(o), "error")
HideIt(o) == Ask("quarantine", a, Quarantine(o), "error")
Erase(o) == Ask("permanent", a, Quarantine(o), "error")
RestoreIt == Ask("move", Quarantine(o1), a, "error")
WriteOn(p, policy) == Ask("write", p, p, policy)

\* A move over another tree while its source is hidden or erased; a copy over
\* a tree while that is copied; a copy of what is being erased; a restored or
\* rewritten path while its tree is hidden.
OnSource ==
    {(o1 :> MoveOver) @@ (o2 :> q) : q \in {HideIt(o2), Erase(o2)}} \cup
    {(o1 :> HideIt(o1)) @@ (o2 :> q) : q \in {RestoreIt, WriteOn(a, "replace")}} \cup
    {(o1 :> CopyOver) @@ (o2 :> CopyTarget), (o1 :> Erase(o1)) @@ (o2 :> CopyAside)}

\* The source or the destination of a move that replaces a tree is written,
\* or its destination erased, while the move is under way.
OnMoves ==
    {(o1 :> MoveOver) @@ (o2 :> q) :
        q \in {WriteOn(a, "replace"), WriteOn(b, "replace"), EraseTarget(o2)}}

Met == OnSource \cup OnMoves
=============================================================================
