------------------------------ MODULE TextReads ------------------------------
(***************************************************************************)
(* Reading a text in pages, of lines or of bytes:                            *)
(* crates/chatcmd-runtime/src/filesystem_read.rs, and read_text_range of     *)
(* filesystem.rs on top of it.                                               *)
(*                                                                          *)
(* A client reads one file readPage after readPage, with the version of the first    *)
(* one; others may write it meanwhile.  Bytes are those of TextEdits.  A      *)
(* write changes the size or the time of the file.                           *)
(***************************************************************************)
EXTENDS TextEdits, FiniteSetsExt

CONSTANTS
  Reads,         \* text, and what is read of it: unit, start, limit, max, budget, ends, total
  Rewritten,     \* texts others write
  MaxWrites,     \* bound
  MaxReads       \* bound: pages

ASSUME ReadAssumption == \A q \in Reads : {q.limit, q.max, q.budget} \subseteq Nat \ {0}

VARIABLES
  read,          \* what the client reads
  body, written, \* the file, and how often it was written
  readPage,          \* the readPage being read
  received       \* the bytes all pages gave

readVars == <<read, body, written, readPage, received>>

Unknown == -1
NoPageYet == [step |-> "idle", pages |-> 0, version |-> -1, token |-> -1, start |-> 0, pos |-> 0, line |-> 1, out |-> <<>>,
              emitted |-> 0, last |-> 0, cr |-> FALSE, limited |-> FALSE, term |-> FALSE, next |-> 0, total |-> Unknown]

ReadInit ==
  /\ read \in Reads
  /\ body = read.text /\ written = 0
  /\ readPage = [NoPageYet EXCEPT !.start = read.start] /\ received = <<>>

Smaller(a, b) == IF a < b THEN a ELSE b
Now(p) == readPage' = p /\ UNCHANGED <<read, body, written>>

WriteFile ==
  /\ written < MaxWrites
  /\ \E t \in Rewritten : body' = t
  /\ written' = written + 1
  /\ UNCHANGED <<read, readPage, received>>

\* The first readPage, and the one after: from where the last one said, if the file is that version.
BeginRead ==
  /\ readPage.step = "idle" \/ (readPage.step = "over" /\ readPage.next # Unknown /\ readPage.pages < MaxReads)
  /\ Now(IF readPage.token \in {-1, written}
        THEN [NoPageYet EXCEPT !.step = "read", !.pages = readPage.pages + 1, !.version = written, !.token = written,
                               !.start = IF readPage.step = "idle" THEN read.start ELSE readPage.next]
        ELSE [readPage EXCEPT !.step = "refused"])
  /\ UNCHANGED received

\* check_budget
GiveUpRead == readPage.step = "read" /\ Now([readPage EXCEPT !.step = "refused"]) /\ UNCHANGED received

-----------------------------------------------------------------------------
\* read_line_range: a line is at its end.
push_bounded(p, bytes) ==
  [p EXCEPT !.out = SubSeq(@ \o bytes, 1, Smaller(read.max, Len(@ \o bytes))), !.limited = @ \/ Len(p.out \o bytes) > read.max]

finish_line(p, end) ==
  LET e == IF p.line < p.start THEN p
           ELSE [push_bounded(p, IF read.ends THEN end ELSE IF p.emitted + 1 < read.limit THEN <<LF>> ELSE <<>>)
                 EXCEPT !.emitted = @ + 1, !.last = p.line]
  IN [e EXCEPT !.line = @ + 1, !.cr = FALSE, !.term = TRUE]

LineFull(p) == p.emitted >= read.limit \/ p.limited
Byte(p) == body[p.pos + 1]

\* The byte after a CR decides what ended the line; the line may have been the last.
AfterCr(p) == IF p.cr THEN finish_line([p EXCEPT !.term = FALSE], <<CR>>) ELSE [p EXCEPT !.term = FALSE]
MutByteRead(p) ==
  LET q == AfterCr(p) IN
  CASE Byte(p) = CR -> [q EXCEPT !.cr = TRUE]
    [] Byte(p) = LF -> finish_line(q, <<LF>>)
    [] OTHER -> IF q.line >= q.start THEN push_bounded(q, <<Byte(p)>>) ELSE q
ByteRead(p) ==
  LET q == AfterCr(p) IN
  CASE p.cr /\ Byte(p) = LF -> finish_line(p, <<CR, LF>>)
    [] Byte(p) = CR -> [q EXCEPT !.cr = TRUE]
    [] ~p.cr /\ Byte(p) = LF -> finish_line(q, <<LF>>)
    [] OTHER -> IF q.line >= q.start THEN push_bounded(q, <<Byte(p)>>) ELSE q

InLines(p) == p.step = "read" /\ read.unit = "line" /\ ~LineFull(p)

ReadByte ==
  /\ InLines(readPage) /\ readPage.pos < read.budget /\ readPage.pos < Len(body)
  /\ Now(IF readPage.cr /\ Byte(readPage) # LF /\ LineFull(AfterCr(readPage)) THEN AfterCr(readPage)
        ELSE [ByteRead(readPage) EXCEPT !.pos = @ + 1])
  /\ UNCHANGED received

\* trim_incomplete_utf8_tail: a character cut at the end goes, anything else that is no text fails.
Valid8(bytes) == Max({n \in 0..Len(bytes) : IsUtf8(SubSeq(bytes, 1, n))})
Decodes(bytes) == SubSeq(bytes, Valid8(bytes) + 1, Len(bytes)) \in {<<>>, <<Lead>>, <<6>>, <<6, 7>>}
MutTrimmed(bytes) == bytes
Trimmed(bytes) == SubSeq(bytes, 1, Valid8(bytes))
Unmarked(bytes, first) == IF first /\ HasBom(bytes) THEN SubSeq(bytes, 4, Len(bytes)) ELSE bytes

\* legacy_text_total_lines: line feeds.
LegacyTotal(t) == Cardinality({i \in DOMAIN t : t[i] = LF}) + (IF t = <<>> \/ Last(t) = LF THEN 0 ELSE 1)

\* The metadata is read again before the readPage is given.
Given(p, bytes) ==
  IF p.version = written /\ Decodes(bytes) THEN Now(p) /\ received' = received \o p.out
  ELSE Now([p EXCEPT !.step = "refused"]) /\ UNCHANGED received

LinesOver ==
  LET full == LineFull(readPage)
      starved == ~full /\ readPage.pos >= read.budget
      eof == ~full /\ ~starved /\ readPage.pos = Len(body)
      q == IF eof /\ readPage.cr THEN finish_line(readPage, <<CR>>)
           ELSE IF eof /\ readPage.pos > 0 /\ ~readPage.term /\ readPage.line >= readPage.start
                THEN [readPage EXCEPT !.emitted = @ + 1, !.last = readPage.line]
           ELSE readPage
      atEnd == readPage.pos = Len(body)
      cut == q.limited \/ starved \/ (~atEnd /\ q.emitted >= read.limit)
      lines == IF readPage.pos = 0 THEN 0 ELSE IF q.term THEN q.line - 1 ELSE q.line
  IN
  /\ readPage.step = "read" /\ read.unit = "line" /\ (full \/ starved \/ eof)
  /\ Given([q EXCEPT !.step = "over", !.out = Unmarked(Trimmed(q.out), readPage.start = 1),
                     !.next = IF cut THEN (IF q.last = 0 THEN readPage.start - 1 ELSE q.last) + 1 ELSE Unknown,
                     !.total = IF atEnd THEN lines ELSE IF read.total THEN LegacyTotal(body) ELSE Unknown],
           q.out)

-----------------------------------------------------------------------------
\* validated_utf8_start: a start inside a character moves to its end; what is read to know it counts.
Starts(o) == IF Boundary(body, o) THEN o ELSE Min({n \in (o + 1)..Len(body) : Boundary(body, n)})
Inside(o) == o > 0 /\ ~Boundary(body, o)
StartKnown(o) == Inside(o) => \E a \in 0..(o - 1) : IsUtf8(SubSeq(body, a + 1, Starts(o)))
Probed(o) == IF o \in {0, Len(body)} THEN 0 ELSE IF Inside(o) THEN 1 + Smaller(o + 4, Len(body)) - Max({o - 3, 0}) ELSE 1

\* One read, which may return less than was asked for, though more than a character.
BytesOver ==
  LET at == Starts(readPage.start)
      most == Smaller(Smaller(read.max, read.limit) + 3, Max({read.budget - Probed(readPage.start), 0}))
      there == Smaller(most, Len(body) - at)
  IN
  /\ readPage.step = "read" /\ read.unit = "byte"
  /\ IF readPage.start > Len(body) \/ ~StartKnown(readPage.start) THEN Now([readPage EXCEPT !.step = "refused"]) /\ UNCHANGED received
     ELSE \E n \in Smaller(there, 4)..there :
       LET bytes == SubSeq(body, at + 1, at + Smaller(n, Smaller(read.max, read.limit)))
           end == at + Len(Trimmed(bytes))
       IN Given([readPage EXCEPT !.step = "over", !.out = Unmarked(Trimmed(bytes), at = 0), !.pos = end,
                             !.next = IF end < Len(body) THEN end ELSE Unknown], bytes)

ReadNext == WriteFile \/ BeginRead \/ GiveUpRead \/ ReadByte \/ LinesOver \/ BytesOver

-----------------------------------------------------------------------------
ReadTypes ==
  /\ readPage.step \in {"idle", "read", "over", "refused"} /\ readPage.pages \in 0..MaxReads
  /\ Len(readPage.out) <= read.max /\ readPage.emitted <= read.limit

\* Lines end at LF, CR LF and CR.
EndsOf(t) == {i \in DOMAIN t : t[i] = LF \/ (t[i] = CR /\ At(t, i + 1) # LF)}
LinesOf(t) == Cardinality(EndsOf(t)) + (IF t = <<>> \/ Len(t) \in EndsOf(t) THEN 0 ELSE 1)
\* The bytes before a line, at most all of them; with its end, or without the one of the line before.
BeforeLine(t, l) == Max({0} \cup {i \in EndsOf(t) : Cardinality({j \in EndsOf(t) : j <= i}) < l}
                        \cup {Len(t) : x \in {x \in {0} : l > LinesOf(t)}})
Unified(t) == FlattenSeq([i \in DOMAIN t |-> IF t[i] = LF /\ At(t, i - 1) = CR THEN <<>> ELSE IF t[i] = CR THEN <<LF>> ELSE <<t[i]>>])
Shown(t) == IF read.ends THEN t ELSE Unified(t)
TextBetween(from, to) == Unmarked(SubSeq(body, BeforeLine(body, from) + 1, BeforeLine(body, to)), from = 1)

\* A page of lines is the text of its lines from the first on; whatever cut it, a line that the next page
\* will not repeat was given, but for its end; with nothing to come it was given to its end.  The number
\* of lines is right but in two cases.  A text that ends in one byte after a CR has one line more: the flag
\* for the end of a line, set when that byte ends the line of the CR, is not reset for the byte itself
\* (filesystem_read.rs:182-220); when the byte is a CR, the end of the file makes up for it, unless the
\* budget ends there too.  And the count of a page that stops before the end of the file is of line
\* feeds, and leaves out the lines that a CR ends alone (filesystem_read.rs:664).  Pages of bytes are, put
\* together, the file; and a page with room for a character and a line moves on.
EndsAfterCr(t) ==
  /\ Len(t) >= 2 /\ t[Len(t) - 1] = CR /\ t[Len(t)] # LF
  /\ t[Len(t)] = CR => read.budget = Len(t)
LoneCr(t) == \E i \in DOMAIN t : t[i] = CR /\ At(t, i + 1) # LF
CountRight ==
  \/ readPage.total \in {Unknown, LinesOf(body)}
  \/ EndsAfterCr(body) /\ readPage.total = LinesOf(body) - 1
  \/ readPage.pos < Len(body) /\ LoneCr(body)

PageRight ==
  LET all == TextBetween(readPage.start, LinesOf(body) + 1)
      due == TextBetween(readPage.start, IF readPage.next = Unknown THEN LinesOf(body) + 1 ELSE readPage.next)
  IN
  /\ IsPrefix(readPage.out, Shown(all))
  /\ Len(readPage.out) + (IF read.ends THEN IF readPage.limited THEN 2 ELSE 0 ELSE 1) >= Len(Shown(due))
  /\ CountRight
  /\ readPage.next # Unknown /\ ~readPage.limited /\ read.budget > Len(body) => readPage.next > readPage.start

BytesRight ==
  /\ read.start = 0 => Unmarked(SubSeq(body, 1, readPage.pos), TRUE) = received
  /\ readPage.next = Unknown => readPage.pos = Len(body)
  /\ readPage.next # Unknown /\ Smaller(read.max, read.limit) >= 3 /\ read.budget >= 8 => readPage.pos > readPage.start \/ readPage.pos = 0

\* While the file is the one the client read first.
ReadsSafe ==
  readPage.step = "over" /\ readPage.version = written /\ IsUtf8(body) =>
    IF read.unit = "line" THEN PageRight ELSE BytesRight
=============================================================================
