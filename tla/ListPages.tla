------------------------------ MODULE ListPages ------------------------------
(***************************************************************************)
(* Pages of a directory: crates/chatcmd-runtime/src/filesystem_list.rs,      *)
(* behind fs_list_v2 of src/runtime_host/dispatch/filesystem_tools.rs.       *)
(*                                                                          *)
(* One directory, whose entries are numbered in the order it is read.  A      *)
(* listing is named by the call that opened it; its state holds an open       *)
(* iterator, here the set of the entries it still has.                        *)
(***************************************************************************)
EXTENDS Integers, Sequences, SequencesExt, FiniteSetsExt

CONSTANTS
  Entries, Initially,  \* what may be in the directory, and what is there at first
  Hidden,       \* entries whose name starts with a dot
  Plans,        \* what the calls, in order, ask for: limit, scan, stats, hidden, stat
  MAX_ACTIVE_LIST_STATES,
  MaxPages,     \* bound: calls
  MaxChanges,   \* bound: of the directory
  MaxWarned     \* bound: entries that cannot be read

ASSUME ListAssumption == Entries \subseteq Nat /\ MAX_ACTIVE_LIST_STATES \in Nat \ {0}

VARIABLES
  present,      \* entries of the directory
  dirVersion,   \* directory_version
  listStates,   \* DirectoryListStore, the oldest first
  plan,         \* what each call asks for
  pages,        \* every call
  given,        \* by listing: the items of all its pages, in order
  warned        \* by listing: the entries a warning stands for

listVars == <<present, dirVersion, listStates, plan, pages, given, warned>>

PageCalls == 1..MaxPages
NoListing == [id |-> 0, version |-> 0, hidden |-> TRUE, stat |-> FALSE, rest |-> {}, pending |-> {}]
NoListPage == [step |-> "idle", cursor |-> 0, seen |-> 0, state |-> NoListing, items |-> 0, scanned |-> 0, calls |-> 0]

ListInit ==
  /\ present = Initially
  /\ dirVersion = 1 /\ listStates = <<>>
  /\ plan \in Plans /\ pages = [c \in PageCalls |-> NoListPage]
  /\ given = [c \in PageCalls |-> <<>>] /\ warned = [c \in PageCalls |-> {}]

Refused == [NoListPage EXCEPT !.step = "refused"]
ListPage(c, p) == pages' = [pages EXCEPT ![c] = p]
IdsOf(ss) == {ss[i].id : i \in DOMAIN ss}

-----------------------------------------------------------------------------
\* An entry is made or removed; an open iterator may meet what is new.
ChangeDirectory ==
  /\ dirVersion <= MaxChanges
  /\ dirVersion' = dirVersion + 1
  /\ \E e \in Entries, met \in BOOLEAN :
       LET Meets(s) == [s EXCEPT !.rest = IF met /\ e \notin present THEN @ \cup {e} ELSE @] IN
       /\ present' = IF e \in present THEN present \ {e} ELSE present \cup {e}
       /\ listStates' = [i \in DOMAIN listStates |-> Meets(listStates[i])]
       /\ pages' = [c \in PageCalls |-> IF pages[c].step = "scan" THEN [pages[c] EXCEPT !.state = Meets(@)] ELSE pages[c]]
  /\ UNCHANGED <<plan, given, warned>>

\* The time of the oldest state is over: what looks next drops it (cleanup_expired).
ExpireListing ==
  /\ listStates # <<>>
  /\ listStates' = Tail(listStates)
  /\ UNCHANGED <<plan, present, dirVersion, pages, given, warned>>

-----------------------------------------------------------------------------
\* A page is asked for: of a new listing, or with a cursor some page gave, maybe once
\* more; the version of the directory is read before the states are locked.
Cursors == {0} \cup {pages[d].state.id : d \in {d \in PageCalls : pages[d].step = "more"}}

AskPage(c) ==
  /\ c <= Len(plan) /\ pages[c].step = "idle" /\ \A d \in 1..(c - 1) : pages[d].step # "idle"
  /\ Cardinality({d \in PageCalls : pages[d].step \in {"asked", "scan"}}) < 2
  /\ \E k \in Cursors : ListPage(c, [NoListPage EXCEPT !.step = "asked", !.cursor = k, !.seen = dirVersion])
  /\ UNCHANGED <<plan, present, dirVersion, listStates, given, warned>>

OpenListing(c) ==
  /\ pages[c].step = "asked" /\ pages[c].cursor = 0
  /\ ListPage(c, [pages[c] EXCEPT !.step = "scan",
              !.state = [id |-> c, version |-> pages[c].seen, hidden |-> plan[c].hidden,
                         stat |-> plan[c].stat, rest |-> present, pending |-> {}]])
  /\ UNCHANGED <<plan, present, dirVersion, listStates, given, warned>>

\* validate_state, and the version of the cursor and of the directory.
MutAgrees(s, c) == s.stat = plan[c].stat /\ s.version = pages[c].seen
Agrees(s, c) == s.hidden = plan[c].hidden /\ s.stat = plan[c].stat /\ s.version = pages[c].seen

\* The state leaves the store before it is compared: a request that does not agree loses it.
ContinueListing(c) ==
  /\ pages[c].step = "asked" /\ pages[c].cursor # 0
  /\ IF pages[c].cursor \in IdsOf(listStates)
     THEN LET s == SelectSeq(listStates, LAMBDA t : t.id = pages[c].cursor)[1] IN
          /\ listStates' = SelectSeq(listStates, LAMBDA t : t.id # pages[c].cursor)
          /\ ListPage(c, IF Agrees(s, c) THEN [pages[c] EXCEPT !.step = "scan", !.state = s]
                     ELSE Refused)
     ELSE ListPage(c, Refused) /\ UNCHANGED listStates
  /\ UNCHANGED <<plan, present, dirVersion, given, warned>>

-----------------------------------------------------------------------------
\* scan_page.  PageFull: enough items, and only whether there is more is asked.
PageFull(c) == pages[c].items = plan[c].limit
Reading(c) == pages[c].step = "scan" /\ pages[c].scanned < plan[c].scan
Coming(s) == IF s.pending # {} THEN s.pending ELSE IF s.rest # {} THEN {Min(s.rest)} ELSE {}
MayFail == MapThenSumSet(LAMBDA l : Cardinality(warned[l]), PageCalls) < MaxWarned
Past(s, e) == [s EXCEPT !.pending = {}, !.rest = @ \ {e}]
Passes(c, e) == ~plan[c].hidden /\ e \in Hidden
OverStats(c) == plan[c].stat /\ pages[c].calls >= plan[c].stats

SkipHidden(c) ==
  /\ Reading(c)
  /\ \E e \in Coming(pages[c].state) :
       /\ Passes(c, e)
       /\ ListPage(c, [pages[c] EXCEPT !.state = Past(@, e), !.scanned = @ + 1])
  /\ UNCHANGED <<plan, present, dirVersion, listStates, given, warned>>

\* The item of an entry: one that is gone has no metadata.
Item(c) ==
  LET p == pages[c] IN
  /\ Reading(c) /\ ~PageFull(c) /\ ~OverStats(c)
  /\ \E e \in Coming(p.state), ok \in BOOLEAN :
       /\ ~Passes(c, e)
       /\ IF ok THEN plan[c].stat => e \in present ELSE e \in present => MayFail
       /\ ListPage(c, [p EXCEPT !.state = Past(@, e), !.scanned = @ + 1, !.items = IF ok THEN @ + 1 ELSE @,
                   !.calls = IF plan[c].stat THEN @ + 1 ELSE @])
       /\ IF ok THEN given' = [given EXCEPT ![p.state.id] = Append(@, e)] /\ UNCHANGED warned
          ELSE warned' = [warned EXCEPT ![p.state.id] = @ \cup {e}] /\ UNCHANGED given
  /\ UNCHANGED <<plan, present, dirVersion, listStates>>

\* The iterator cannot read an entry.
Unreadable(c) ==
  /\ Reading(c) /\ pages[c].state.pending = {} /\ MayFail
  /\ \E e \in Coming(pages[c].state) :
       /\ ListPage(c, [pages[c] EXCEPT !.state = Past(@, e)])
       /\ warned' = [warned EXCEPT ![pages[c].state.id] = @ \cup {e}]
  /\ UNCHANGED <<plan, present, dirVersion, listStates, given>>

\* The page is over: a state with more to come goes back, under its own name.
WithRoom(ss) == IF Len(ss) >= MAX_ACTIVE_LIST_STATES THEN Tail(ss) ELSE ss

PageOver(c, s) ==
  /\ listStates' = Append(WithRoom(listStates), s)
  /\ ListPage(c, [NoListPage EXCEPT !.step = "more", !.state.id = s.id])
  /\ UNCHANGED <<plan, present, dirVersion, given, warned>>

\* No more than its metadata allows, or one more than the page: it waits for the next page.
MutPushedBack(s, e) == Past(s, e)
PushedBack(s, e) == [s EXCEPT !.pending = {e}, !.rest = @ \ {e}]

Ahead(c) ==
  /\ Reading(c)
  /\ PageFull(c) \/ OverStats(c)
  /\ \E e \in Coming(pages[c].state) : ~Passes(c, e) /\ PageOver(c, PushedBack(pages[c].state, e))

\* Cancelled, out of time, or as many entries as it may look at.
StopPage(c) == pages[c].step = "scan" /\ PageOver(c, pages[c].state)

Exhausted(c) ==
  /\ Reading(c) /\ Coming(pages[c].state) = {}
  /\ ListPage(c, [pages[c] EXCEPT !.step = "done"])
  /\ UNCHANGED <<plan, present, dirVersion, listStates, given, warned>>

ListNext ==
  \/ ChangeDirectory
  \/ ExpireListing
  \/ \E c \in PageCalls : \/ AskPage(c) \/ OpenListing(c) \/ ContinueListing(c) \/ SkipHidden(c) \/ Item(c) \/ Unreadable(c) \/ Ahead(c) \/ StopPage(c) \/ Exhausted(c)

-----------------------------------------------------------------------------
ListTypes ==
  /\ present \subseteq Entries /\ dirVersion \in 1..(MaxChanges + 1)
  /\ Len(listStates) <= MAX_ACTIVE_LIST_STATES
  /\ \A c \in PageCalls : /\ pages[c].step \in {"idle", "asked", "scan", "refused", "more", "done"}
                          /\ ToSet(given[c]) \cup warned[c] \subseteq Entries

\* Who holds the state of a listing: the store, or calls that are scanning.
ListHeld(l) ==
  {listStates[i] : i \in {i \in DOMAIN listStates : listStates[i].id = l}}
  \cup {pages[c].state : c \in {c \in PageCalls : pages[c].step = "scan" /\ pages[c].state.id = l}}
Holders(l) ==
  Len(SelectSeq(listStates, LAMBDA s : s.id = l))
  + Len(SelectSeq([c \in PageCalls |-> pages[c]], LAMBDA p : p.step = "scan" /\ p.state.id = l))
Told(l) == ToSet(given[l]) \cup warned[l]
Visible(hidden) == IF hidden THEN present ELSE present \ Hidden

\* Two calls never read one listing.  While the directory is as it was, no entry is given twice,
\* what is given or warned of is no longer to come, and what is neither is still to come; a listing
\* that is exhausted left nothing out, whichever budgets cut its pages and whoever repeated a cursor.
ListsSafe ==
  \A l \in PageCalls :
    /\ Holders(l) <= 1
    /\ \A s \in ListHeld(l) :
         s.version = dirVersion =>
           /\ IsInjective(given[l])
           /\ Told(l) \cap (s.rest \cup s.pending) = {}
           /\ Visible(s.hidden) \subseteq Told(l) \cup s.rest \cup s.pending
    /\ \A c \in PageCalls :
         pages[c].step = "done" /\ pages[c].state.id = l /\ pages[c].state.version = dirVersion =>
           IsInjective(given[l]) /\ Visible(plan[c].hidden) \subseteq Told(l)
=============================================================================
