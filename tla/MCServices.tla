------------------------------ MODULE MCServices ------------------------------
(***************************************************************************)
(* The services of the host for TLC, one at a time: part says which module   *)
(* a behaviour is about.  They share no state; the variables of the others   *)
(* are off (those of the evidence, which a property reads, as they start).   *)
(***************************************************************************)
EXTENDS BlobStore, FileEdits, CommandExecutions, ProcessRuns, TurnFileChanges,
        CompletionReport, PlanPrompt, MessageQueue, Updater, ShellSessions,
        ListPages, SearchPages, TextReads, SubagentTabs, TurnCapture,
        GitCommits, TLC

CONSTANTS w1, w2, o1, o2, p1, p2, u1, u2, k1, k2, e1, e2, g1, g2, h1, h2

VARIABLE part

SameTask(o) == "task"

-----------------------------------------------------------------------------
NoRequest == [tool |-> "none"]
Asks(tool, system, edits, keep) ==
    [tool |-> tool, coordinate_system |-> system, edits |-> edits,
     preserve_bom |-> keep, preserve_line_endings |-> keep]
Edit(s, e, t) == [start |-> s, end |-> e, text |-> t]

Inserted == {<<>>, <<LF>>, <<Plain, CR, LF>>}
ByteEdits == {Edit(s, e, t) : s \in 0..4, e \in 0..5, t \in Inserted}
Second == {Edit(2, 2, <<LF>>), Edit(1, 3, <<Lead, Cont>>)}
Places == {<<l, k>> : l \in 1..2, k \in 1..3}
LineEdits == {Edit(p, q, <<LF>>) : p, q \in Places}

\* Line ends of both kinds, a BOM, a longer code point, and what is not UTF-8.
Files == {<<Plain, CR, LF, Plain, LF>>, BOM \o <<CR, LF>>, <<Lead, Cont, CR, LF>>, <<Cont, Plain>>}

Of(c, r) == [d \in Clients |-> IF d = c THEN r ELSE NoRequest]
Alone(requests) == {[text |-> f, request |-> Of(w1, r), writes |-> 0] : f \in Files, r \in requests}

ByBytes == Alone({Asks("apply_edits", "byte", <<e>>, k) : e \in ByteEdits, k \in BOOLEAN}
                 \cup {Asks("apply_edits", "byte", <<e, g>>, TRUE) : e \in ByteEdits, g \in Second})
ByLines == Alone({Asks("apply_edits", "lineColumn", <<e>>, k) : e \in LineEdits, k \in BOOLEAN})

\* Two clients, and a writer from outside.
File == <<Plain, LF, Plain>>
Grow == Asks("apply_edits", "byte", <<Edit(1, 1, <<Lead, Cont>>)>>, TRUE)
Cut == Asks("apply_edits", "byte", <<Edit(2, 3, <<>>)>>, TRUE)
Rewrite == Asks("replace_text", "byte", <<Edit(0, 1, <<Plain, Plain>>)>>, FALSE)
Together == {[text |-> File, request |-> (w1 :> Grow) @@ (w2 :> r), writes |-> 0] : r \in {Cut, Rewrite}}
            \cup {[text |-> File, request |-> Of(w1, Grow), writes |-> 2]}
EditScenarios == <<ByBytes, ByLines, Together>>
OtherTexts == {<<Plain>>, File}

-----------------------------------------------------------------------------
Both(a, d, b, e) == (u1 :> [key |-> a, digest |-> d]) @@ (u2 :> [key |-> b, digest |-> e])
\* A repeated command, one with the key of another, and two.
TwoCommands == {Both(k1, "d", k1, "d"), Both(k1, "d", k1, "e"), Both(k1, "d", k2, "d")}

RunOptions == {[preview |-> 1, limit |-> 2, kill |-> TRUE], [preview |-> 0, limit |-> 1, kill |-> FALSE]}

FilesBegun == {(p1 :> 1) @@ (p2 :> 0)}

Sent(refs, criteria, scope) == [NoInput EXCEPT !.refs = refs, !.criteria = criteria, !.scope = scope]
Completions ==
    {Sent(<<e1>>, <<<<e1>>, <<e2>>>>, TRUE), Sent(<<e1, e2>>, <<<<e1>>, <<e1, e2>>>>, TRUE),
     Sent(<<>>, <<<<e2>>, <<>>>>, TRUE), Sent(<<>>, <<<<e1>>, <<Blank>>>>, TRUE),
     Sent(<<>>, <<<<e1>>>>, FALSE), [NoInput EXCEPT !.notApplicable = TRUE]}

\* A newer release, one without an asset, an older one and one whose version is no number.
Build(n, tag) == [n |-> n, tag |-> tag]
Published == {[version |-> Build(<<1, 2>>, "a"), digest |-> "d"], [version |-> Build(<<1, 3>>, "b"), digest |-> "d"],
              [version |-> Build(<<1, 3>>, "b"), digest |-> "none"], [version |-> Build(<<1, 1, 0>>, "c"), digest |-> "d"],
              [version |-> Build(<<>>, "x"), digest |-> "d"]}
ThisVersion == Build(<<1, 1>>, "r")

\* What a shell prints; three calls about shells; two calls and a restart.
SmallBounds == {[printed |-> 4, calls |-> 1, hosts |-> 0], [printed |-> 0, calls |-> 3, hosts |-> 0],
                [printed |-> 0, calls |-> 2, hosts |-> 1]}

\* Pages of two entries, of two stats, and calls that ask for different things.
ListOf(l, n, m, hide, stat) == [limit |-> l, scan |-> n, stats |-> m, hidden |-> hide, stat |-> stat]
Twice(o) == <<o, o>>
ListPlans ==
    {Twice(ListOf(2, 2, 9, FALSE, FALSE)), Twice(ListOf(2, 9, 1, TRUE, TRUE)),
     <<ListOf(1, 9, 9, TRUE, FALSE), ListOf(1, 9, 9, FALSE, FALSE)>>}

SearchOf(l, f, b, o, p, a, i) ==
    [limit |-> l, files |-> f, bytes |-> b, output |-> o, perFile |-> p, after |-> a, index |-> i]
Searching ==
    {SearchOf(1, 9, 9, 9, 3, 1, TRUE), SearchOf(3, 1, 2, 2, 2, 2, FALSE), SearchOf(2, 1, 9, 9, 9, 0, FALSE)}
TextOf(lines) == [text |-> TRUE, lines |-> lines]
NoText == [text |-> FALSE, lines |-> <<>>]
SomeTrees == {<<TextOf(<<2, 1>>), NoText, TextOf(<<0, 1, 1>>)>>, <<TextOf(<<3, 1>>)>>}

ReadOf(t, u, s, l, m, b, e, w) ==
    [text |-> t, unit |-> u, start |-> s, limit |-> l, max |-> m, budget |-> b, ends |-> e, total |-> w]
ShortTexts == UNION {[1..n -> {Plain, LF, CR}] : n \in 0..4}
Encoded == {<<>>, BOM \o <<Lead, Cont, Plain>>, <<Plain, Lead, Cont, Lead, Cont>>, <<Plain, Cont>>, <<Plain, Lead>>}
TextReadings ==
    {ReadOf(t, "line", s, 1, 2, 9, TRUE, FALSE) : t \in ShortTexts, s \in {1, 2}}
    \cup {ReadOf(t, "line", 1, 2, 9, b, e, ~e) : t \in ShortTexts, b \in {3, 9}, e \in BOOLEAN}
    \cup {ReadOf(t, "byte", s, l, 3, b, TRUE, FALSE) : t \in Encoded, s \in {0, 2}, l \in {2, 3}, b \in {2, 9}}
OneText == {<<Plain>>}

TwoAnswers == <<2, 1>>

\* Everything or one file is committed, by a call alone, two at once, or a preview and its execution.
CommitOf(how, all, scope) == [how |-> how, all |-> all, scope |-> scope]
CommitAll == CommitOf("commit", TRUE, {})
CommitOne == CommitOf("commit", FALSE, {g1})
TwoCalls(a, b, n, f) == [jobs |-> (h1 :> a) @@ (h2 :> b), outside |-> n, faults |-> f]
Committing ==
    {TwoCalls(CommitAll, NoJob, 2, 0), TwoCalls(CommitAll, NoJob, 1, 1), TwoCalls(CommitOne, NoJob, 2, 1),
     TwoCalls(CommitAll, CommitOne, 0, 1),
     TwoCalls(CommitOf("preview", FALSE, {g1}), CommitOf("execute", FALSE, {g1}), 1, 0),
     TwoCalls(CommitOf("preview", TRUE, {}), CommitOf("execute", FALSE, {g1}), 0, 0)}
\* A file edited; an untracked one beside it; one both staged and edited; and no commit yet.
Pair(a, b) == (g1 :> a) @@ (g2 :> b)
RepoOf(b, t, i, w) == [born |-> b, tree |-> t, index |-> i, work |-> w]
Repositories ==
    {RepoOf(TRUE, Pair(1, 1), Pair(1, 1), Pair(2, 1)), RepoOf(TRUE, Pair(1, 0), Pair(1, 0), Pair(2, 3)),
     RepoOf(TRUE, Pair(1, 1), Pair(2, 1), Pair(3, 0)), RepoOf(FALSE, Pair(0, 0), Pair(1, 0), Pair(1, 0))}

Installations == {[ext |-> "old", marker |-> "old"], [ext |-> "none", marker |-> "old"], [ext |-> "old", marker |-> "none"]}

-----------------------------------------------------------------------------
Parts == {"blobs", "edits", "commands", "processes", "tracking", "evidence", "prompts",
          "queue", "updates", "shells", "lists", "searches", "reads", "tabs", "capture", "commits"}

Off == 0
NoBlobs ==
    /\ entry = Off /\ meta = Off /\ file = Off /\ lapsed = Off /\ call = Off /\ page = Off
    /\ used = Off /\ applied = Off /\ faults = Off /\ restarts = Off
NoEdits ==
    /\ ino = Off /\ texts = Off /\ asked = Off /\ writes = Off /\ editor = Off
    /\ committed = Off
NoCommands ==
    /\ demand = Off /\ records = Off /\ completed = Off /\ disk = Off /\ available = Off
    /\ caller = Off /\ exec = Off /\ said = Off /\ evictions = Off /\ failures = Off
    /\ reloads = Off
NoProcesses ==
    /\ process = Off /\ quota = Off /\ output = Off /\ left = Off /\ reboots = Off
NoTracking ==
    /\ content = Off /\ base = Off /\ tracked = Off /\ watching = Off /\ kernel = Off
    /\ channel = Off /\ batch = Off /\ overflow = Off /\ native = Off /\ excused = Off
    /\ steps = Off /\ repeated = Off /\ summary = Off
NoPrompts ==
    /\ question = Off /\ listed = Off /\ slot = Off /\ asker = Off /\ answering = Off
    /\ closing = Off /\ late = Off
NoQueue ==
    /\ rows = Off /\ creating = Off /\ changing = Off /\ active = Off /\ settling = Off
    /\ carried = Off /\ dropped = Off /\ turns = Off
NoUpdates ==
    /\ platform = Off /\ phase = Off /\ busy = Off /\ selection = Off /\ prepared = Off
    /\ fetching = Off /\ updating = Off /\ restarting = Off /\ installer = Off
    /\ files = Off /\ program = Off /\ lastError = Off /\ checks = Off
NoShells ==
    /\ open = Off /\ retired = Off /\ child = Off /\ exited = Off /\ reaping = Off
    /\ told = Off /\ replay = Off /\ completed_requests = Off /\ in_flight_requests = Off
    /\ calls = Off /\ bridges = Off /\ statuses = Off /\ made = Off /\ hosts = Off
    /\ bounds = Off
NoLists ==
    /\ present = Off /\ dirVersion = Off /\ listStates = Off /\ plan = Off /\ pages = Off
    /\ given = Off /\ warned = Off
NoSearches ==
    /\ tree = Off /\ search = Off /\ rootChanged = Off /\ index = Off /\ scan = Off
    /\ found = Off /\ unread = Off
NoReads ==
    /\ read = Off /\ body = Off /\ written = Off /\ readPage = Off /\ received = Off
NoTabs ==
    /\ childRun = Off /\ chatTabs = Off /\ session = Off /\ worker = Off /\ tabLog = Off
NoCapture ==
    /\ chatPage = Off /\ recorder = Off /\ relay = Off /\ captures = Off
    /\ captureLog = Off
NoCommits == repo = Off /\ commits = Off /\ gitLog = Off

Init ==
    /\ part \in Parts /\ ReportInit
    /\ IF part = "blobs" THEN BlobInit ELSE NoBlobs
    /\ IF part = "edits" THEN EditInit ELSE NoEdits
    /\ IF part = "commands" THEN ExecutionInit ELSE NoCommands
    /\ IF part = "processes" THEN ProcessInit ELSE NoProcesses
    /\ IF part = "tracking" THEN TrackInit ELSE NoTracking
    /\ IF part = "prompts" THEN PromptInit ELSE NoPrompts
    /\ IF part = "queue" THEN QueueInit ELSE NoQueue
    /\ IF part = "updates" THEN UpdateInit ELSE NoUpdates
    /\ IF part = "shells" THEN ShellInit ELSE NoShells
    /\ IF part = "lists" THEN ListInit ELSE NoLists
    /\ IF part = "searches" THEN SearchInit ELSE NoSearches
    /\ IF part = "reads" THEN ReadInit ELSE NoReads
    /\ IF part = "tabs" THEN TabsInit ELSE NoTabs
    /\ IF part = "capture" THEN CaptureInit ELSE NoCapture
    /\ IF part = "commits" THEN GitInit ELSE NoCommits

\* The other parts stay as they are.
Only(p) ==
    /\ part = p /\ UNCHANGED part
    /\ IF p = "blobs" THEN TRUE ELSE UNCHANGED blobVars
    /\ IF p = "edits" THEN TRUE ELSE UNCHANGED editVars
    /\ IF p = "commands" THEN TRUE ELSE UNCHANGED execVars
    /\ IF p = "processes" THEN TRUE ELSE UNCHANGED processVars
    /\ IF p = "tracking" THEN TRUE ELSE UNCHANGED trackVars
    /\ IF p = "evidence" THEN TRUE ELSE UNCHANGED reportVars
    /\ IF p = "prompts" THEN TRUE ELSE UNCHANGED promptVars
    /\ IF p = "queue" THEN TRUE ELSE UNCHANGED queueVars
    /\ IF p = "updates" THEN TRUE ELSE UNCHANGED updateVars
    /\ IF p = "shells" THEN TRUE ELSE UNCHANGED shellVars
    /\ IF p = "lists" THEN TRUE ELSE UNCHANGED listVars
    /\ IF p = "searches" THEN TRUE ELSE UNCHANGED searchVars
    /\ IF p = "reads" THEN TRUE ELSE UNCHANGED readVars
    /\ IF p = "tabs" THEN TRUE ELSE UNCHANGED tabVars
    /\ IF p = "capture" THEN TRUE ELSE UNCHANGED captureVars
    /\ IF p = "commits" THEN TRUE ELSE UNCHANGED gitVars

Next ==
    \/ Only("blobs") /\ BlobNext
    \/ Only("edits") /\ EditNext
    \/ Only("commands") /\ ExecutionNext
    \/ Only("processes") /\ ProcessNext
    \/ Only("tracking") /\ TrackNext
    \/ Only("evidence") /\ ReportNext
    \/ Only("prompts") /\ PromptNext
    \/ Only("queue") /\ QueueNext
    \/ Only("updates") /\ UpdateNext
    \/ Only("shells") /\ ShellNext
    \/ Only("lists") /\ ListNext
    \/ Only("searches") /\ SearchNext
    \/ Only("reads") /\ ReadNext
    \/ Only("capture") /\ CaptureNext
    \/ Only("commits") /\ GitNext
    \/ Only("tabs") /\ ~tabLog.slipped /\ TabsNext

vars == <<part, blobVars, editVars, execVars, processVars, trackVars, reportVars, promptVars,
          queueVars, updateVars, shellVars, listVars, searchVars, readVars, tabVars, captureVars,
          gitVars>>
Spec == Init /\ [][Next]_vars

TypesHold ==
    /\ part = "blobs" => BlobTypes
    /\ part = "edits" => EditTypes
    /\ part = "commands" => ExecutionTypes
    /\ part = "processes" => ProcessTypes
    /\ part = "tracking" => TrackTypes
    /\ part = "evidence" => ReportTypes
    /\ part = "prompts" => PromptTypes
    /\ part = "queue" => QueueTypes
    /\ part = "updates" => UpdateTypes
    /\ part = "shells" => ShellTypes
    /\ part = "lists" => ListTypes
    /\ part = "searches" => SearchTypes
    /\ part = "reads" => ReadTypes
    /\ part = "tabs" => TabsTypes
    /\ part = "capture" => CaptureTypes
    /\ part = "commits" => GitTypes

\* A command runs once for those who ask for it, its output is paid for, and a shell's output and
\* row are what became of it; what is uploaded is stored whole and used once, an update leaves one
\* whole version, and what a turn changed is listed.
ServicesSafe ==
    /\ part = "commands" => ExecutionsSafe
    /\ part = "processes" => ProcessesSafe
    /\ part = "shells" => ShellsSafe
    /\ part = "blobs" => BlobsSafe
    /\ part = "updates" => UpdatesSafe
    /\ part = "tracking" => ChangesListed

\* What the user answers or says reaches the agent once, and is what is stored; and the prompt of
\* a sub-agent is at work in one tab of the browser.
MessagesSafe ==
    /\ part = "prompts" => PromptsSafe
    /\ part = "queue" => MessagesKept
    /\ part = "tabs" => TabsSafe

\* What is edited in a file is what was asked for, and a commit is what was previewed.  The pages of
\* a directory are, together, what was there.  Those of a search are the matches of the lines that
\* were searched, which leaves out a line that was read when a page was full (filesystem_search.rs:518-533;
\* search_v2.rs:186 expects no gaps).  Those of a text are the text, and its number of lines but for the
\* two cases of CountRight (read_text_streaming.rs:246 expects it exact).  What a page shows of a turn
\* is stored for its own request, but for a longer answer that a shorter result replaced and for a turn
\* that was enrolled twice because its marker could not be looked up (docs/CHATGPT_THINK.md:72).
ContentsSafe ==
    /\ part = "edits" => EditsSafe
    /\ part = "lists" => ListsSafe
    /\ part = "searches" => SearchesSafe
    /\ part = "reads" => ReadsSafe
    /\ part = "commits" => CommitsSafe
    /\ part = "capture" => CaptureSafe
=============================================================================
