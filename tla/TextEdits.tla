---------------------------- MODULE TextEdits ----------------------------
(***************************************************************************)
(* What fs_apply_edits computes (crates/chatcmd-runtime/src/               *)
(* filesystem_apply_edits.rs): from the bytes of a file and a request to   *)
(* byte ranges or a refusal, and from those to the streamed result.        *)
(*                                                                         *)
(* A text is a sequence of bytes of eight kinds: a plain character, CR,    *)
(* LF, the two bytes of a longer code point, the three bytes of a BOM.     *)
(* An offset counts the bytes before a place.                              *)
(***************************************************************************)
EXTENDS Naturals, FiniteSets, Sequences, SequencesExt

Plain == 1
CR == 2
LF == 3
Lead == 4
Cont == 5
BOM == <<6, 7, 8>>

At(c, i) == IF i \in DOMAIN c THEN c[i] ELSE 0
Offsets(c) == 0..Len(c)
HasBom(c) == Len(c) >= 3 /\ SubSeq(c, 1, 3) = BOM

\* std::str::from_utf8 on the bytes as they are read.
IsUtf8(c) == \A i \in DOMAIN c :
    /\ c[i] = Lead <=> At(c, i + 1) = Cont
    /\ c[i] = Cont => At(c, i - 1) = Lead
    /\ c[i] = 6 <=> At(c, i + 1) = 7
    /\ c[i] = 7 <=> At(c, i + 1) = 8
    /\ c[i] = 7 => At(c, i - 1) = 6
    /\ c[i] = 8 => At(c, i - 1) = 7

Boundary(c, offset) == offset = Len(c) \/ (offset < Len(c) /\ c[offset + 1] \notin {Cont, 7, 8})

Crlfs(c) == {i \in DOMAIN c : c[i] = LF /\ At(c, i - 1) = CR}
Lfs(c) == {i \in DOMAIN c : c[i] = LF /\ At(c, i - 1) # CR}

\* dominant_newline: CRLF when at least half of the line ends are.
CrlfFile(c) == Crlfs(c) # {} /\ Cardinality(Crlfs(c)) >= Cardinality(Lfs(c))

\* normalize_replacement: every line end of the new text becomes CRLF.
normalize_replacement(text, c, request) ==
    IF ~request.preserve_line_endings \/ ~CrlfFile(c) THEN text
    ELSE FlattenSeq([i \in DOMAIN text |->
            IF text[i] = LF THEN <<CR, LF>>
            ELSE IF text[i] = CR /\ At(text, i + 1) = LF THEN <<>>
            ELSE <<text[i]>>])

\* The line and the column (in code points, both from 1) of an offset; a BOM at
\* the start of the file is not part of its first line.
Position(c, offset) ==
    LET before == {i \in 1..offset : c[i] = LF}
        start == IF before = {} THEN (IF HasBom(c) THEN 3 ELSE 0) ELSE CHOOSE i \in before : \A j \in before : j <= i
    IN <<Cardinality(before) + 1,
         Cardinality({i \in (start + 1)..offset : Boundary(c, i - 1)}) + 1>>

Addressable(c) == {o \in Offsets(c) : Boundary(c, o) /\ (HasBom(c) => o >= 3)}

\* resolve_line_columns: the one offset of a line and a column, if it has one.
OffsetsOf(c, position) == {o \in Addressable(c) : Position(c, o) = position}

Located(c, e, request) ==
    LET Offset(position) == CHOOSE o \in OffsetsOf(c, position) : TRUE IN
    IF request.coordinate_system = "byte" THEN e
    ELSE [start |-> Offset(e.start), end |-> Offset(e.end), text |-> e.text]

\* validate_utf8_and_boundaries for byte ranges, or the lookup of the positions.
Resolvable(c, request) ==
    /\ IsUtf8(c)
    /\ \A i \in DOMAIN request.edits :
         LET e == request.edits[i] IN
         IF request.coordinate_system = "byte"
         THEN /\ Boundary(c, e.start) /\ Boundary(c, e.end)
              /\ request.preserve_bom /\ HasBom(c) => e.start >= 3
         ELSE OffsetsOf(c, e.start) # {} /\ OffsetsOf(c, e.end) # {}

\* The edits in the order they are applied, their text normalized.
Earlier(e, f) == e.start < f.start \/ (e.start = f.start /\ e.end <= f.end)

resolve_edits(c, request) ==
    LET edits == [i \in DOMAIN request.edits |->
                    LET r == Located(c, request.edits[i], request) IN
                    [r EXCEPT !.text = normalize_replacement(@, c, request)]]
    IN SortSeq(edits, LAMBDA e, f : Earlier(e, f) /\ ~Earlier(f, e))

MutValidateRanges(edits, size) ==
    \A i \in DOMAIN edits : edits[i].start <= edits[i].end /\ edits[i].end <= size
validate_ranges(edits, size) ==
    /\ \A i \in DOMAIN edits : edits[i].start <= edits[i].end /\ edits[i].end <= size
    /\ \A i \in 2..Len(edits) : edits[i - 1].end <= edits[i].start

Accepted(c, request) == Resolvable(c, request) /\ validate_ranges(resolve_edits(c, request), Len(c))

MutStream(c, edits) ==
    LET step(acc, e) == [out |-> acc.out \o SubSeq(c, acc.cursor + 1, e.start) \o e.text, cursor |-> e.start]
        last == FoldLeft(step, [out |-> <<>>, cursor |-> 0], edits)
    IN last.out \o SubSeq(c, last.cursor + 1, Len(c))

\* stream_edits: copy up to an edit, skip what it replaces, write its text, and
\* copy the rest.  The file may be shorter by then: reading it fails.
stream_edits(c, edits) ==
    LET step(acc, e) == [out |-> acc.out \o SubSeq(c, acc.cursor + 1, e.start) \o e.text, cursor |-> e.end]
        last == FoldLeft(step, [out |-> <<>>, cursor |-> 0], edits)
    IN last.out \o SubSeq(c, last.cursor + 1, Len(c))
Streamable(c, edits) == \A i \in DOMAIN edits : edits[i].start <= Len(c)

output_size(size, edits) == FoldLeft(LAMBDA n, e : n + Len(e.text) - (e.end - e.start), size, edits)

-----------------------------------------------------------------------------
\* What the request asks for: each edit in turn, from the last to the first,
\* replaces its own range of the text and moves no other range.
Applied(c, edits) ==
    FoldRight(LAMBDA e, text : SubSeq(text, 1, e.start) \o e.text \o SubSeq(text, e.end + 1, Len(text)), edits, c)

\* An edit that starts or ends between the CR and the LF of a line end.
Splits(c, edits) == \E i \in DOMAIN edits : \E o \in {edits[i].start, edits[i].end} :
    At(c, o) = CR /\ At(c, o + 1) = LF
=============================================================================
