---------------------------- MODULE WorkspaceIndex ----------------------------
(***************************************************************************)
(* The repository index of a workspace root: crates/chatcmd-runtime/src/    *)
(* filesystem_repository_index.rs, the watcher and the reconcile loop of    *)
(* src/runtime_host.rs, the rows of repository/workspace_index.rs, and the  *)
(* paged queries (filesystem_find.rs, filesystem_search.rs) that read it.   *)
(*                                                                          *)
(* A rebuild crawls outside the index's lock, one entry at a time; events   *)
(* of the watcher arrive when they like.  A path has a version, 0 when it   *)
(* is absent; what is nested does not show in the times of the root.        *)
(***************************************************************************)
EXTENDS Naturals, FiniteSets

CONSTANTS
  Paths,
  Nested,       \* paths below a subdirectory of the root
  Rebuilders,   \* the tool workspace_index_rebuild, and the loop
  Loop,
  MaxChanges    \* bound: changes of the tree, rebuilds by the tool or failed, restarts

ASSUME IndexAssumption == Nested \subseteq Paths /\ Loop \in Rebuilders /\ MaxChanges \in Nat

VARIABLES
  tree,       \* [Paths -> version]
  rootTime,   \* the root's own modification time
  index,      \* RootIndex in memory
  row,        \* its rows in the database
  pending,    \* changed paths whose event has not been handled
  unsaved,    \* whether a stale mark of the rows is still to be written
  rebuild,    \* every rebuild under way
  find,       \* a query and its pages
  overtaken,  \* marked after the crawl that was inserted later had passed them
  changes

indexVars == <<tree, rootTime, index, row, pending, unsaved, rebuild, find, overtaken, changes>>

Nothing == [p \in Paths |-> 0]
NoIndex == [gen |-> 0, entries |-> Nothing, fresh |-> "none"]
NoRebuild == [step |-> "idle", todo |-> {}, seen |-> Nothing, copy |-> NoIndex]
NoFind == [step |-> "none", source |-> "direct", left |-> {}, seen |-> Nothing, gen |-> 0,
           rootTime |-> 0, got |-> {}, quiet |-> FALSE]
Existing(t) == {p \in Paths : t[p] # 0}

IndexInit ==
  /\ tree \in [Paths -> {0, 1}]
  /\ rootTime = 0
  /\ index = NoIndex /\ row = NoIndex
  /\ pending = {} /\ overtaken = {}
  /\ unsaved = FALSE
  /\ rebuild = [r \in Rebuilders |-> NoRebuild]
  /\ find = NoFind
  /\ changes = 0

Count == changes < MaxChanges /\ changes' = changes + 1

-----------------------------------------------------------------------------
\* A tool or another program creates, rewrites or removes an entry.
Changed(p) ==
  \E v \in {0, changes + 2} :
    /\ v # tree[p]
    /\ tree' = [tree EXCEPT ![p] = v]
    /\ rootTime' = IF p \notin Nested /\ 0 \in {v, tree[p]} THEN rootTime + 1 ELSE rootTime

Change(p) ==
  /\ Changed(p) /\ Count
  /\ pending' = pending \cup {p}
  /\ find' = [find EXCEPT !.quiet = FALSE]
  /\ UNCHANGED <<index, row, unsaved, rebuild, overtaken>>

Crawling == {r \in Rebuilders : rebuild[r].step = "crawl"}
Passed(p) == \E r \in Crawling : p \notin rebuild[r].todo /\ rebuild[r].seen[p] # tree[p]

\* mark_index_stale of one path: its entry is refreshed or removed, and the
\* index is not trusted before the next rebuild.
MutMarked(p) ==
  IF index.fresh = "none" THEN index
  ELSE [index EXCEPT !.entries[p] = tree[p], !.fresh = "stale"]
Marked(p) ==
  IF index.fresh = "none" THEN index
  ELSE [gen |-> index.gen + 1, entries |-> [index.entries EXCEPT ![p] = tree[p]], fresh |-> "stale"]

mark_index_stale(p) ==
  /\ p \in pending
  /\ pending' = pending \ {p}
  /\ index' = Marked(p)
  /\ unsaved' = TRUE
  /\ overtaken' = IF Passed(p) THEN overtaken \cup {p} ELSE overtaken \ {p}
  /\ UNCHANGED <<tree, rootTime, row, rebuild, find, changes>>

mark_workspace_index_stale ==
  /\ unsaved /\ unsaved' = FALSE
  /\ row' = IF row.fresh = "none" THEN row ELSE [row EXCEPT !.fresh = "stale"]
  /\ UNCHANGED <<tree, rootTime, index, pending, rebuild, find, overtaken, changes>>

-----------------------------------------------------------------------------
Proceeds(r, x) ==
  /\ rebuild' = [rebuild EXCEPT ![r] = x]
  /\ UNCHANGED <<tree, rootTime, pending, unsaved, find>>

MutSkips == index.fresh \in {"fresh", "unknown"}
Skips == index.fresh = "fresh"

\* The gate of a root.
MutGate == TRUE
Gate == Crawling = {}

\* The tool is called, or a tick of the loop finds the index not fresh ...
AskRebuild(r) ==
  /\ rebuild[r].step = "idle"
  /\ IF r = Loop THEN ~Skips /\ UNCHANGED changes ELSE Count
  /\ Proceeds(r, [NoRebuild EXCEPT !.step = "wait"])
  /\ UNCHANGED <<index, row, overtaken>>

\* ... and rebuild_index waits for the gate: one crawl at a time for a root, fresh or not by then.
StartRebuild(r) ==
  /\ rebuild[r].step = "wait" /\ Gate
  /\ Proceeds(r, [NoRebuild EXCEPT !.step = "crawl", !.todo = Paths])
  /\ UNCHANGED <<index, row, overtaken, changes>>

\* build_entries visits an entry.
Visit(r, p) ==
  /\ p \in rebuild[r].todo
  /\ Proceeds(r, [rebuild[r] EXCEPT !.todo = @ \ {p}, !.seen[p] = tree[p]])
  /\ UNCHANGED <<index, row, overtaken, changes>>

Insert(r) ==
  /\ rebuild[r].step = "crawl" /\ rebuild[r].todo = {}
  /\ index' = [gen |-> index.gen + 1, entries |-> rebuild[r].seen, fresh |-> "fresh"]
  /\ overtaken' = {p \in overtaken : rebuild[r].seen[p] # tree[p]}
  /\ Proceeds(r, [NoRebuild EXCEPT !.step = "persist"])
  /\ UNCHANGED <<row, changes>>

\* A cancellation, a limit or an error of the walk.
FailRebuild(r) ==
  /\ rebuild[r].step = "crawl" /\ Count
  /\ index' = [index EXCEPT !.fresh = "unknown"]
  /\ Proceeds(r, NoRebuild)
  /\ UNCHANGED <<row, overtaken>>

\* persist_repository_index, after the gate: the index as it is now ...
export_index_snapshot(r) ==
  /\ rebuild[r].step = "persist"
  /\ Proceeds(r, [rebuild[r] EXCEPT !.step = "store", !.copy = index])
  /\ UNCHANGED <<index, row, overtaken, changes>>

\* ... replaces the rows in one transaction.
replace_workspace_index(r) ==
  /\ rebuild[r].step = "store"
  /\ row' = rebuild[r].copy
  /\ Proceeds(r, NoRebuild)
  /\ UNCHANGED <<index, overtaken, changes>>

-----------------------------------------------------------------------------
\* The row of the root with its entries; without a row there is no index.
load_workspace_index == IF row.fresh = "none" THEN NoIndex ELSE row

\* restore_index_snapshot: what was persisted is a candidate, never fresh.
MutRestored == load_workspace_index
Restored == [load_workspace_index EXCEPT !.fresh = IF @ = "none" THEN @ ELSE "stale"]

\* The host restarts; the tree may change while it is down.
RestartIndex ==
  /\ Count
  /\ UNCHANGED <<tree, rootTime>> \/ \E p \in Paths : Changed(p)
  /\ index' = Restored
  /\ pending' = {} /\ overtaken' = {} /\ unsaved' = FALSE
  /\ rebuild' = [r \in Rebuilders |-> NoRebuild]
  /\ find' = NoFind
  /\ UNCHANGED row

-----------------------------------------------------------------------------
\* A query starts from a fresh index, or from a walk.
Walk == [NoFind EXCEPT !.step = "first", !.left = Existing(tree), !.seen = tree,
                       !.rootTime = rootTime, !.quiet = TRUE]

MutTrusted == index.fresh # "none"
Trusted == index.fresh = "fresh"

StartFind ==
  /\ find.step = "none"
  /\ find' = IF Trusted
             THEN [Walk EXCEPT !.source = "index", !.left = Existing(index.entries),
                               !.seen = index.entries, !.gen = index.gen,
                               !.quiet = pending = {} /\ overtaken = {}]
             ELSE Walk
  /\ UNCHANGED <<tree, rootTime, index, row, pending, unsaved, rebuild, overtaken, changes>>

\* A page of one item.  An entry of the index is compared with the file; one that
\* differs marks the index stale and turns the first page into a walk.
Current(p) == find.source = "direct" \/ tree[p] = find.seen[p]

Report(p) ==
  /\ find.step \in {"first", "next"} /\ p \in find.left /\ Current(p)
  /\ find' = [find EXCEPT !.left = @ \ {p}, !.got = @ \cup {p},
                          !.step = IF find.left = {p} THEN "done" ELSE "cursor"]
  /\ UNCHANGED <<tree, rootTime, index, row, pending, unsaved, rebuild, overtaken, changes>>

FindEmpty ==
  /\ find.step \in {"first", "next"} /\ find.left = {}
  /\ find' = [find EXCEPT !.step = "done"]
  /\ UNCHANGED <<tree, rootTime, index, row, pending, unsaved, rebuild, overtaken, changes>>

DetectStale(p) ==
  /\ find.step \in {"first", "next"} /\ p \in find.left /\ ~Current(p)
  /\ index' = IF index.fresh = "none" THEN index ELSE [index EXCEPT !.gen = @ + 1, !.fresh = "stale"]
  /\ find' = IF find.step = "first" THEN [Walk EXCEPT !.gen = find.gen] ELSE [find EXCEPT !.step = "failed"]
  /\ UNCHANGED <<tree, rootTime, row, pending, unsaved, rebuild, overtaken, changes>>

\* The next page: the root and the generation the cursor was issued for.
SameIndex == find.gen = 0 \/ (index.fresh = "fresh" /\ index.gen = find.gen)

NextPage ==
  /\ find.step = "cursor"
  /\ find' = [find EXCEPT !.step = IF rootTime = find.rootTime /\ SameIndex THEN "next" ELSE "failed"]
  /\ UNCHANGED <<tree, rootTime, index, row, pending, unsaved, rebuild, overtaken, changes>>

IndexNext ==
  \/ \E p \in Paths : Change(p)
  \/ \E p \in Paths : mark_index_stale(p)
  \/ mark_workspace_index_stale
  \/ \E r \in Rebuilders : AskRebuild(r) \/ StartRebuild(r)
  \/ \E r \in Rebuilders, p \in Paths : Visit(r, p)
  \/ \E r \in Rebuilders : Insert(r)
  \/ \E r \in Rebuilders : FailRebuild(r)
  \/ \E r \in Rebuilders : export_index_snapshot(r)
  \/ \E r \in Rebuilders : replace_workspace_index(r)
  \/ RestartIndex
  \/ StartFind
  \/ \E p \in Paths : Report(p)
  \/ FindEmpty
  \/ \E p \in Paths : DetectStale(p)
  \/ NextPage

IndexSpec == IndexInit /\ [][IndexNext]_indexVars

-----------------------------------------------------------------------------
\* Versions are numbers, and one rebuild crawls at a time.
IndexTypes ==
  /\ tree \in [Paths -> Nat] /\ index.entries \in [Paths -> Nat]
  /\ index.fresh \in {"none", "fresh", "stale", "unknown"}
  /\ Cardinality(Crawling) <= 1

\* An index that says it is fresh differs from the tree only where an event is still
\* to come, or where the event came between the visit of the crawl and its end.
FreshExplained ==
  index.fresh = "fresh" => \A p \in Paths : index.entries[p] # tree[p] => p \in pending \cup overtaken

\* A query that ran to its end over all its pages while nothing changed, and that
\* did not start from an index with a known blind spot, reported what exists.
FindComplete == find.step = "done" /\ find.quiet => find.got = Existing(tree)

\* Two reads of the index in one life of the host that see the same generation see
\* the same entries: a cursor is bound to its generation.
GenerationFixes ==
  [][index'.gen = index.gen => index'.entries = index.entries \/ index' = Restored]_indexVars

\* What the index says and what a query answers from it can be relied on.
IndexSafe == [](FreshExplained /\ FindComplete) /\ GenerationFixes
=============================================================================
