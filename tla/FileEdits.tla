---------------------------- MODULE FileEdits ----------------------------
(***************************************************************************)
(* Version tokens and versioned edits of one file: stat_v2 and              *)
(* verify_expected_version of crates/chatcmd-runtime/src/filesystem/        *)
(* file_version.rs, apply_edits of filesystem_apply_edits.rs, and           *)
(* replace_text of filesystem.rs, among other writers of the same file.     *)
(*                                                                          *)
(* A token names a file by its identity, its times and size (one stamp) and *)
(* a hash.  Nothing is locked: every open, read, stat and rename of a       *)
(* request is a step.  Assumed of the file system: two writes do not leave  *)
(* the same inode with the same times.                                      *)
(***************************************************************************)
EXTENDS TextEdits

CONSTANTS
  Clients,      \* callers of the tools
  Scenarios,    \* sets of [text, request : Clients -> request or NoRequest, writes]
  Others,       \* what another program may write
  MaxTries,     \* bound: requests a client sends
  NoVersion

VARIABLES
  ino,       \* identity of the entry at the path
  texts,     \* what was ever written there, in order; the last one is there now
  asked,     \* the scenario: the request of every client
  writes,    \* writes of other programs that may still come
  editor,    \* every client's call
  committed  \* [client, token, source, kind] of each replacement by a call

editVars == <<ino, texts, asked, writes, editor, committed>>

stamp == Len(texts)
Content == texts[stamp]
Seen == [ino |-> ino, stamp |-> stamp]

Waiting == [step |-> "idle", token |-> NoVersion, before |-> NoVersion, hash |-> <<>>,
            edits |-> <<>>, temp |-> <<>>, tries |-> 0]

EditInit ==
  \E i \in DOMAIN Scenarios : \E s \in Scenarios[i] :
    /\ ino = 1
    /\ texts = <<s.text>>
    /\ asked = s.request
    /\ writes = s.writes
    /\ editor = [c \in Clients |-> Waiting]
    /\ committed = {}

Becomes(c, r) == editor' = [editor EXCEPT ![c] = r]
Fails(c) == [editor[c] EXCEPT !.step = "failed", !.before = NoVersion]
Kept == UNCHANGED <<ino, texts, asked, writes, committed>>

-----------------------------------------------------------------------------
\* Another program writes in place or replaces the file.
WriteInPlace(text) ==
  /\ writes > 0 /\ writes' = writes - 1
  /\ texts' = Append(texts, text)
  /\ UNCHANGED <<ino, asked, editor, committed>>

Supersede(text) ==
  /\ writes > 0 /\ writes' = writes - 1
  /\ texts' = Append(texts, text)
  /\ ino' = ino + stamp
  /\ UNCHANGED <<asked, editor, committed>>

\* A client asks for the version of the file, or repeats its edit with the
\* version it has after any answer but a success.
Stat(c) ==
  /\ asked[c].tool # "none"
  /\ editor[c].step \in {"idle", "failed"} /\ editor[c].tries < MaxTries
  /\ Becomes(c, [Waiting EXCEPT !.step = IF asked[c].tool = "apply_edits" THEN "stat" ELSE "resolve",
                                  !.tries = editor[c].tries + 1])
  /\ Kept

Retry(c) ==
  /\ editor[c].step = "failed" /\ editor[c].token # NoVersion /\ editor[c].tries < MaxTries
  /\ Becomes(c, [Waiting EXCEPT !.step = "verify", !.token = editor[c].token, !.tries = editor[c].tries + 1])
  /\ Kept

-----------------------------------------------------------------------------
\* capture: the metadata, ...
Snapshot(c) ==
  /\ editor[c].step \in {"stat", "verify", "recheck"} /\ editor[c].before = NoVersion
  /\ Becomes(c, [editor[c] EXCEPT !.before = Seen, !.hash = <<>>])
  /\ Kept

\* ... the hash of the file as it is opened and read, ...
HashContent(c) ==
  /\ editor[c].before # NoVersion /\ editor[c].hash = <<>>
  /\ Becomes(c, [editor[c] EXCEPT !.hash = <<Content>>])
  /\ Kept

\* ... and the metadata again, which must not have changed.
MutUnchangedSince(before) == before.ino = ino
UnchangedSince(before) == before = Seen

Version(c) == [at |-> editor[c].before, hash |-> editor[c].hash]

\* verify_expected_version: the captured version is the token's.
MutSameVersion(token, version) == version.hash = token.hash
SameVersion(token, version) == version = token

AfterCapture == [stat |-> "verify", verify |-> "resolve", recheck |-> "replace"]

Capture(c) ==
  LET w == editor[c]
      go == [w EXCEPT !.step = AfterCapture[@], !.before = NoVersion] IN
  /\ w.before # NoVersion /\ w.hash # <<>>
  /\ Becomes(c,
       IF ~UnchangedSince(w.before) THEN Fails(c)
       ELSE IF w.step = "stat" THEN [go EXCEPT !.token = Version(c)]
       ELSE IF SameVersion(w.token, Version(c)) THEN go
       ELSE Fails(c))
  /\ Kept

-----------------------------------------------------------------------------
\* The first pass resolves the edits in the file as it is now, or refuses them.
Resolve(c) ==
  /\ asked[c].tool = "apply_edits" /\ editor[c].step = "resolve"
  /\ Becomes(c,
       IF Accepted(Content, asked[c])
       THEN [editor[c] EXCEPT !.step = "stream", !.edits = resolve_edits(Content, asked[c])]
       ELSE [Fails(c) EXCEPT !.tries = MaxTries])
  /\ Kept

\* The second pass opens the file again and streams it into a temporary file.
MutAfterStream == "replace"
AfterStream == "recheck"

Stream(c) ==
  /\ editor[c].step = "stream"
  /\ Becomes(c,
       IF Streamable(Content, editor[c].edits)
       THEN [editor[c] EXCEPT !.step = AfterStream, !.temp = stream_edits(Content, editor[c].edits)]
       ELSE Fails(c))
  /\ Kept

\* Budgets, deadlines and a cancellation are checked before the replacement.
GiveUp(c) ==
  /\ editor[c].step \in {"stream", "recheck", "replace"}
  /\ Becomes(c, Fails(c))
  /\ Kept

Put(c, text, kind) ==
  /\ texts' = Append(texts, text)
  /\ ino' = ino + stamp
  /\ committed' = committed \cup {[client |-> c, token |-> editor[c].token, from |-> stamp, to |-> stamp + 1, kind |-> kind]}
  /\ UNCHANGED <<asked, writes>>

\* atomic_replace; then the directory is synchronized, whose failure is an
\* error of the call though the edit is committed.
Replace(c) ==
  /\ asked[c].tool = "apply_edits" /\ editor[c].step = "replace"
  /\ Put(c, editor[c].temp, "edit")
  /\ \/ Becomes(c, [editor[c] EXCEPT !.step = "done"])
     \/ Becomes(c, Fails(c))

-----------------------------------------------------------------------------
\* replace_text reads the file, and replaces whatever is there by what it read
\* with the first edit's text in place of its range.
ReadText(c) ==
  /\ asked[c].tool = "replace_text" /\ editor[c].step = "resolve"
  /\ Becomes(c,
       IF Accepted(Content, asked[c])
       THEN [editor[c] EXCEPT !.step = "replace", !.temp = Applied(Content, resolve_edits(Content, asked[c]))]
       ELSE [Fails(c) EXCEPT !.tries = MaxTries])
  /\ Kept

WriteText(c) ==
  /\ asked[c].tool = "replace_text" /\ editor[c].step = "replace"
  /\ Put(c, editor[c].temp, "rewrite")
  /\ Becomes(c, [editor[c] EXCEPT !.step = "done"])

EditNext ==
  \/ \E t \in Others : WriteInPlace(t)
  \/ \E t \in Others : Supersede(t)
  \/ \E c \in Clients : Stat(c)
  \/ \E c \in Clients : Retry(c)
  \/ \E c \in Clients : Snapshot(c)
  \/ \E c \in Clients : HashContent(c)
  \/ \E c \in Clients : Capture(c)
  \/ \E c \in Clients : Resolve(c)
  \/ \E c \in Clients : Stream(c)
  \/ \E c \in Clients : GiveUp(c)
  \/ \E c \in Clients : Replace(c)
  \/ \E c \in Clients : ReadText(c)
  \/ \E c \in Clients : WriteText(c)

EditSpec == EditInit /\ [][EditNext]_editVars

-----------------------------------------------------------------------------
\* Requests, tokens and texts have their types.
EditTypes ==
  /\ ino \in Nat /\ writes \in Nat
  /\ \A c \in Clients :
       /\ editor[c].step \in {"idle", "stat", "verify", "resolve", "stream", "recheck", "replace", "done", "failed"}
       /\ editor[c].tries \in 0..MaxTries

\* A token never pairs the metadata of one version with the hash of another,
\* however the file is written while it is captured.
TokenTrue ==
  \A c \in Clients : editor[c].token # NoVersion =>
    editor[c].token.hash = <<texts[editor[c].token.at.stamp]>>

\* An edit is committed as the client meant it: to the text its token names, though
\* the file is resolved, streamed and replaced in three separate opens.
EditExact ==
  \A e \in committed : e.kind = "edit" =>
    LET old == texts[e.token.at.stamp] IN
    texts[e.to] = Applied(old, resolve_edits(old, asked[e.client]))

\* An edit whose call failed after the commit and is sent again with its token is
\* not applied twice.
RetrySafe == \A e, f \in committed : e.kind = "edit" /\ e.token = f.token /\ e.client = f.client => e = f

\* What a call is about to commit is text, of the size the budget was checked for,
\* with the byte order mark and the line ends the request asked to keep.
ResultSound ==
  \A c \in Clients : editor[c].step = "replace" /\ asked[c].tool = "apply_edits" =>
    LET old == texts[editor[c].token.at.stamp]
        new == editor[c].temp
        edits == editor[c].edits IN
    /\ IsUtf8(new)
    /\ Len(new) = output_size(Len(old), edits)
    /\ asked[c].preserve_bom => (HasBom(old) => HasBom(new))
    /\ asked[c].preserve_line_endings /\ CrlfFile(old) /\ Lfs(old) = {} /\ ~Splits(old, edits) => Lfs(new) = {}

\* An edit does what it was asked to do, to the version it named, once, and leaves
\* a sound text.
EditsSafe == TokenTrue /\ EditExact /\ RetrySafe /\ ResultSound
=============================================================================
