----------------------------- MODULE SearchPages -----------------------------
(***************************************************************************)
(* Pages of a text search: crates/chatcmd-runtime/src/filesystem_search.rs,  *)
(* its helpers and its state, behind fs_search of                            *)
(* src/runtime_host/filesystem_dispatch.rs.                                  *)
(*                                                                          *)
(* One search over a tree that keeps its text.  A file is how many matches    *)
(* each of its lines has; a match is file, line and number; a line is a unit  *)
(* of what is read, a match a unit of output.  How calls race for a cursor is *)
(* in ListPages: here a page follows the other.                              *)
(***************************************************************************)
EXTENDS Integers, Sequences, FiniteSets, SequencesExt

CONSTANTS
  Trees,         \* files in the order they are visited: text or not, lines
  Searches,      \* limit, files, bytes, output, perFile, after, index
  MaxSearchPages \* bound

ASSUME SearchAssumption ==
  \A a \in Searches : {a.limit, a.files, a.bytes, a.output, a.perFile} \subseteq Nat \ {0} /\ a.after \in Nat

VARIABLES
  tree, search,  \* what is searched, and how
  rootChanged,   \* the version of the root is another than the search began with
  index,         \* of the repository: fresh, and touched: files it knows another version of
  scan,          \* SearchState, and the page being made
  found,         \* matches given, over all pages
  unread         \* lines that were read and not searched

searchVars == <<tree, search, rootChanged, index, scan, found, unread>>

NoCurrent == [file |-> 0, line |-> 0, pending |-> <<>>, ready |-> <<>>, found |-> 0]
NoScan == [step |-> "idle", pages |-> 0, next |-> 1, indexed |-> FALSE, generation |-> FALSE, cur |-> NoCurrent,
           items |-> <<>>, files |-> 0, bytes |-> 0, from |-> <<0, 0>>]

SearchInit ==
  /\ tree \in Trees /\ search \in Searches
  /\ rootChanged = FALSE /\ index = [fresh |-> search.index, touched |-> {}]
  /\ scan = NoScan /\ found = <<>> /\ unread = {}

Least(a, b) == IF a < b THEN a ELSE b
ScanPlace(s) == IF s.cur.file = 0 THEN <<s.next, 0>> ELSE <<s.cur.file, s.cur.line>>
Fresh(s) == [s EXCEPT !.step = "scan", !.items = <<>>, !.files = 0, !.bytes = 0, !.from = ScanPlace(s)]

-----------------------------------------------------------------------------
\* A file changes its time, the root gets another entry, the index is marked or rebuilt.
Disturbed(i, r) == index' = i /\ rootChanged' = r /\ UNCHANGED <<tree, search, scan, found, unread>>

Touch == \E f \in DOMAIN tree : f \notin index.touched /\ Disturbed([index EXCEPT !.touched = @ \cup {f}], rootChanged)
ChangeRoot == ~rootChanged /\ Disturbed(index, TRUE)
MarkIndex == index.fresh /\ Disturbed([index EXCEPT !.fresh = FALSE], rootChanged)

-----------------------------------------------------------------------------
Start ==
  /\ scan.step = "idle"
  /\ scan' = Fresh([NoScan EXCEPT !.pages = 1, !.indexed = index.fresh, !.generation = index.fresh])
  /\ rootChanged' = FALSE
  /\ UNCHANGED <<tree, search, index, found, unread>>

\* validate_state, and the generation the search began with: an index that is fresh again has another.
Valid(s) == ~rootChanged /\ (s.generation => index.fresh)

\* With the cursor of the last page.  A search asked with other words loses its state too.
ContinueSearch ==
  /\ scan.step = "kept" /\ scan.pages < MaxSearchPages
  /\ \E same \in BOOLEAN :
       scan' = IF same /\ Valid(scan) THEN Fresh([scan EXCEPT !.pages = @ + 1]) ELSE [scan EXCEPT !.step = "refused"]
  /\ UNCHANGED <<tree, search, rootChanged, index, found, unread>>

\* Its time is over, or newer searches need the room.
Forget ==
  /\ scan.step = "kept"
  /\ scan' = [scan EXCEPT !.step = "refused"]
  /\ UNCHANGED <<tree, search, rootChanged, index, found, unread>>

-----------------------------------------------------------------------------
\* drain_ready: what the page has room for.
Room(s) == Least(search.limit, search.output) - Len(s.items)
DrainReady(s) ==
  LET n == Least(Len(s.cur.ready), Room(s)) IN
  [s EXCEPT !.items = @ \o SubSeq(s.cur.ready, 1, n), !.cur.ready = SubSeq(@, n + 1, Len(@))]
Blocked(s) == s.cur.ready # <<>>

\* The page is made; there is more when it was cut, in a file, or when there is a file.
HasNext(s) == s.next <= Len(tree)
Finished(s, cut) ==
  /\ scan' = [s EXCEPT !.step = IF cut \/ s.cur.file # 0 \/ HasNext(s) THEN "kept" ELSE "over"]
  /\ found' = found \o s.items
  /\ UNCHANGED <<tree, search, rootChanged, index>>

\* What cuts a page before it reads on.
OverFiles(s) == s.files >= search.files /\ s.cur.file = 0
OverBytes(s) == s.bytes >= search.bytes
OverItems(s) == Len(s.items) >= search.limit
Budgeted(s) == OverFiles(s) \/ OverBytes(s) \/ OverItems(s)

AtEnd(s) == s.cur.line = Len(tree[s.cur.file].lines)
Consumed(s) == s.cur.file # 0 /\ ~Blocked(s) /\ s.cur.pending = <<>> /\ AtEnd(s)
WithoutEnd(s) == IF Consumed(s) THEN [s EXCEPT !.cur = NoCurrent] ELSE s

\* Cancelled or out of time.
Interrupted ==
  /\ scan.step = "scan"
  /\ Finished([scan EXCEPT !.from = <<0, 0>>], TRUE)
  /\ UNCHANGED unread

OutOfBudget ==
  /\ scan.step = "scan" /\ Budgeted(scan)
  /\ IF OverFiles(scan) \/ OverBytes(scan) THEN Finished(scan, TRUE)
     ELSE Finished(WithoutEnd(scan), WithoutEnd(scan).cur.file # 0 \/ HasNext(scan))
  /\ UNCHANGED unread

\* What an earlier page left ready comes first.
LeftOver ==
  /\ scan.step = "scan" /\ ~Budgeted(scan) /\ Blocked(DrainReady(scan))
  /\ Finished(DrainReady(scan), TRUE)
  /\ UNCHANGED unread

NoMore ==
  /\ scan.step = "scan" /\ ~Budgeted(scan) /\ scan.cur.file = 0 /\ ~HasNext(scan)
  /\ Finished(scan, FALSE)
  /\ UNCHANGED unread

-----------------------------------------------------------------------------
\* A file the index knows another version of: the first page starts again without the index,
\* a later one gives up.
Stale(s) == s.indexed /\ s.next \in index.touched

DetectStaleFile ==
  /\ scan.step = "scan" /\ ~Budgeted(scan) /\ scan.cur.file = 0 /\ HasNext(scan) /\ Stale(scan)
  /\ index' = [index EXCEPT !.fresh = FALSE]
  /\ scan' = IF scan.pages > 1 THEN [scan EXCEPT !.step = "refused"]
             ELSE Fresh([scan EXCEPT !.next = 1, !.indexed = FALSE])
  /\ unread' = {}
  /\ UNCHANGED <<tree, search, rootChanged, found>>

\* Binary, too big, or it cannot be opened.
SkipFile ==
  /\ scan.step = "scan" /\ ~Budgeted(scan) /\ scan.cur.file = 0 /\ HasNext(scan) /\ ~Stale(scan)
  /\ ~tree[scan.next].text
  /\ scan' = [scan EXCEPT !.next = @ + 1]
  /\ UNCHANGED <<tree, search, rootChanged, index, found, unread>>

\* The file that is open, or the next one.
Opened(s) ==
  IF s.cur.file # 0 THEN DrainReady(s)
  ELSE [s EXCEPT !.cur = [NoCurrent EXCEPT !.file = s.next], !.next = @ + 1, !.files = @ + 1]
Opens(s) == s.cur.file # 0 \/ (HasNext(s) /\ ~Stale(s) /\ tree[s.next].text)

\* append_after_context and flush_pending: a match is ready when it has its lines after it.
Waited(s) == [i \in DOMAIN s.cur.pending |-> [s.cur.pending[i] EXCEPT !.left = @ - 1]]
Ready(ps) == LET due == SelectSeq(ps, LAMBDA m : m.left = 0) IN [i \in DOMAIN due |-> due[i].match]
Aged(s) ==
  DrainReady([s EXCEPT !.cur.line = @ + 1, !.bytes = @ + 1, !.cur.ready = @ \o Ready(Waited(s)),
                    !.cur.pending = SelectSeq(Waited(s), LAMBDA m : m.left > 0)])

\* The regular expression over the line that was read.
Matched(s) ==
  LET here == tree[s.cur.file].lines[s.cur.line]
      new == [k \in 1..Least(here, search.perFile - s.cur.found) |-> <<s.cur.file, s.cur.line, k>>]
  IN DrainReady(IF search.after = 0 THEN [s EXCEPT !.cur.ready = @ \o new, !.cur.found = @ + Len(new)]
             ELSE [s EXCEPT !.cur.pending = @ \o [i \in DOMAIN new |-> [match |-> new[i], left |-> search.after]],
                            !.cur.found = @ + Len(new)])

ReadsOn(s) == s.step = "scan" /\ ~Budgeted(s) /\ Opens(s) /\ (s.cur.file # 0 => ~Blocked(DrainReady(s)))

\* When what became ready does not fit, the line just read is never searched.
ReadLine ==
  LET o == Opened(scan) IN
  /\ ReadsOn(scan) /\ ~AtEnd(o)
  /\ IF Blocked(Aged(o))
     THEN Finished(Aged(o), TRUE) /\ unread' = unread \cup {<<o.cur.file, o.cur.line + 1>>}
     ELSE /\ IF Blocked(Matched(Aged(o))) THEN Finished(Matched(Aged(o)), TRUE)
             ELSE scan' = Matched(Aged(o)) /\ UNCHANGED <<tree, search, rootChanged, index, found>>
          /\ UNCHANGED unread

\* At its end a file gives what still waits for lines after it.
MutAllReady(s) == [s EXCEPT !.cur.pending = <<>>]
AllReady(s) == [s EXCEPT !.cur.ready = @ \o [i \in DOMAIN s.cur.pending |-> s.cur.pending[i].match], !.cur.pending = <<>>]

EndFile ==
  LET e == DrainReady(AllReady(Opened(scan))) IN
  /\ ReadsOn(scan) /\ AtEnd(Opened(scan))
  /\ IF Blocked(e) THEN Finished(e, TRUE)
     ELSE scan' = [e EXCEPT !.cur = NoCurrent] /\ UNCHANGED <<tree, search, rootChanged, index, found>>
  /\ UNCHANGED unread

SearchNext ==
  \/ Touch \/ ChangeRoot \/ MarkIndex
  \/ Start \/ ContinueSearch \/ Forget
  \/ Interrupted \/ OutOfBudget \/ LeftOver \/ NoMore
  \/ DetectStaleFile \/ SkipFile \/ ReadLine \/ EndFile

-----------------------------------------------------------------------------
SearchTypes ==
  /\ scan.step \in {"idle", "scan", "kept", "over", "refused"}
  /\ scan.pages \in 0..MaxSearchPages /\ scan.next \in 1..(Len(tree) + 1)
  /\ Len(scan.items) <= Least(search.limit, search.output)

Precedes(m, n) == \E i \in 1..3 : m[i] < n[i] /\ \A j \in 1..(i - 1) : m[j] = n[j]

\* The matches of a file up to a line, in lines that were searched: as many as a file may give.
MatchesOf(f, last) ==
  LET all == {<<f, l, k>> : l \in {l \in 1..last : <<f, l>> \notin unread}, k \in 1..3}
      real == {m \in all : m[3] <= tree[f].lines[m[2]]}
  IN {m \in real : Cardinality({n \in real : Precedes(n, m)}) < search.perFile}
Passed(s) ==
  UNION {MatchesOf(f, Len(tree[f].lines)) : f \in {f \in 1..(s.next - 1) : tree[f].text /\ f # s.cur.file}}
  \cup (IF s.cur.file = 0 THEN {} ELSE MatchesOf(s.cur.file, s.cur.line))
Made == found \o (IF scan.step = "scan" THEN scan.items ELSE <<>>)
HeldBack(s) == s.cur.ready \o [i \in DOMAIN s.cur.pending |-> s.cur.pending[i].match]

\* The pages of a search give the matches of the lines that were searched in the order of the tree and
\* none of them twice; a match of such a line is given or still held for the next page, so that a search
\* that is over gave all of them; and a page that was not interrupted gives a match or has moved on.
\* The lines of `unread` are not searched: with lines after a match asked for, the line that completes
\* it is dropped when the match no longer fits the page (filesystem_search.rs:518-533), and what matches
\* in it is lost, where search_v2.rs:186 expects pages without gaps.
SearchesSafe ==
  /\ scan.step \in {"scan", "kept", "over"} =>
       LET m == Made \o HeldBack(scan) IN
       /\ \A i \in 1..(Len(m) - 1) : Precedes(m[i], m[i + 1])
       /\ ToSet(m) = Passed(scan)
  /\ scan.step = "over" => scan.next = Len(tree) + 1 /\ HeldBack(scan) = <<>>
  /\ scan.step = "kept" => scan.items # <<>> \/ ScanPlace(scan) # scan.from
=============================================================================
