---------------------------- MODULE MoveSources ----------------------------
(***************************************************************************)
(* FileMutations with a history variable: the moves that another request   *)
(* has disturbed.  A move compares its source with the staged tree once    *)
(* (verify_trees) and looks at neither its source nor its destination      *)
(* again before it removes the source (filesystem_mutations.rs:627-666).   *)
(* Another request disturbs it when, after that comparison, files come to  *)
(* the source, or when, after the publication, files leave the             *)
(* destination.                                                            *)
(***************************************************************************)
EXTENDS FileMutations

VARIABLE disturbed

\* The stages between the comparison and the publication, and after it.
Verifieds == {"readyToPublish", "validated", "backingUpDestination", "backedUp",
              "destinationBackedUp", "publishing"}
Settled == {"renamed", "published", "cleaned", "removingSource"}

ContentNext(p) == IF fs'[p] = Absent THEN {} ELSE fs'[p]

Disturbs(o) ==
    /\ op'[o] = op[o]
    /\ \/ /\ op[o].stage \in Verifieds \cup Settled
          /\ ~(ContentNext(Src(o)) \subseteq Content(Src(o)))
       \/ /\ op[o].stage \in Settled
          /\ ~(Content(Dst(o)) \subseteq ContentNext(Dst(o)))

Noted == disturbed' = disturbed \cup {o \in Ops : Kind(o) = "move" /\ Disturbs(o)}

WatchedInit == Init /\ disturbed = {}
WatchedNext == Next /\ Noted
WatchedSpec == WatchedInit /\ [][WatchedNext]_<<vars, disturbed>>

(***************************************************************************)
(* A move takes from its source only what its destination holds, through   *)
(* failures, restarts and whatever other requests do to its source and its *)
(* destination, unless one of them disturbed it.                           *)
(***************************************************************************)
SourceSafe ==
    [][\A o \in Ops :
          Kind(o) = "move" /\ o \notin disturbed /\ RemoveFile(o) =>
              Content(Src(o)) \ fs'[Src(o)] \subseteq Content(Dst(o))]_<<vars, disturbed>>
=============================================================================
