------------------------------ MODULE PieceTable ------------------------------
(* The document of an edited file as a sequence of pieces of the file and of    *)
(* what was typed: packages/editor-core/src/pieceTable.ts.  A line of the file  *)
(* is its number, from 1; a typed line is a number the file does not have.      *)
EXTENDS Integers, Sequences, SequencesExt

CONSTANTS
    FileLines,  \* how many lines the file has
    Insertions, \* sequences of lines that may be typed
    UndoLimit,  \* HISTORY_LIMIT
    MaxEdits    \* bound: edits made, and saves

\* Assumed of the constants.
PieceTableAssumption ==
    /\ FileLines \in Nat /\ UndoLimit \in Nat \ {0} /\ MaxEdits \in Nat
    /\ Insertions \subseteq Seq(Nat \ 0 .. FileLines)

VARIABLES
    current,    \* the pieces of the document
    undoStack, redoStack,
    savedPoint, \* the pieces when it was last saved
    edits       \* edits made, and saves

vars == <<current, undoStack, redoStack, savedPoint, edits>>

(* --------------------------------- pieces -------------------------------- *)

Original(from, count) == [kind |-> "original", from |-> from, count |-> count]
Added(lines) == [kind |-> "added", lines |-> lines]

SizeOf(piece) == IF piece.kind = "original" THEN piece.count ELSE Len(piece.lines)

LinesOf(piece) ==
    IF piece.kind = "original" THEN [i \in 1 .. piece.count |-> piece.from + i - 1] ELSE piece.lines

\* The lines before a piece of a sequence.
Start(pieces, i) == FoldLeft(LAMBDA sum, piece : sum + SizeOf(piece), 0, SubSeq(pieces, 1, i - 1))
Total(pieces) == Start(pieces, Len(pieces) + 1)

Least(a, b) == IF a < b THEN a ELSE b
Greatest(a, b) == IF a < b THEN b ELSE a

\* Variant: the part of a piece of the file begins where the piece does.
SliceUnmoved(piece, from, to) ==
    IF to <= from THEN <<>>
    ELSE IF piece.kind = "original" THEN <<Original(piece.from, to - from)>>
    ELSE <<Added(SubSeq(piece.lines, from + 1, to))>>

\* The part of a piece between two of its lines, as no piece or one.
Slice(piece, from, to) ==
    IF to <= from THEN <<>>
    ELSE IF piece.kind = "original" THEN <<Original(piece.from + from, to - from)>>
    ELSE <<Added(SubSeq(piece.lines, from + 1, to))>>

Cut(pieces, from, to) ==
    FlattenSeq([i \in DOMAIN pieces |->
        Slice(pieces[i], Greatest(0, from - Start(pieces, i)),
                         Least(SizeOf(pieces[i]), to - Start(pieces, i)))])

\* Variant: pieces of the file are joined whatever lines they have.
JoinedAnyway(out, piece) ==
    IF SizeOf(piece) = 0 THEN out
    ELSE IF out = <<>> \/ Last(out).kind # piece.kind THEN Append(out, piece)
    ELSE Append(Front(out), IF piece.kind = "added" THEN Added(Last(out).lines \o piece.lines)
                            ELSE Original(Last(out).from, Last(out).count + piece.count))

\* A piece is put after others: an empty one is dropped, one that continues the last is joined.
Joined(out, piece) ==
    LET last == Last(out) IN
    IF SizeOf(piece) = 0 THEN out
    ELSE IF out = <<>> \/ last.kind # piece.kind THEN Append(out, piece)
    ELSE IF piece.kind = "added" THEN Append(Front(out), Added(last.lines \o piece.lines))
    ELSE IF last.from + last.count = piece.from
    THEN Append(Front(out), Original(last.from, last.count + piece.count))
    ELSE Append(out, piece)

Normalize(pieces) == FoldLeft(Joined, <<>>, pieces)

\* A document never has no line.
Filled(pieces) == IF pieces = <<>> THEN <<Added(<<0>>)>> ELSE pieces

Lines(pieces) == FlattenSeq([i \in DOMAIN pieces |-> LinesOf(pieces[i])])

(* ---------------------------------- edits -------------------------------- *)

Init ==
    /\ current = IF FileLines > 0 THEN <<Original(1, FileLines)>> ELSE <<>>
    /\ undoStack = <<>> /\ redoStack = <<>>
    /\ savedPoint = current
    /\ edits = 0

\* Variant: what was undone can still be redone after an edit.
PushedOnly(next) ==
    /\ edits < MaxEdits
    /\ edits' = edits + 1
    /\ undoStack' = IF Len(undoStack) = UndoLimit THEN Append(Tail(undoStack), current)
                    ELSE Append(undoStack, current)
    /\ current' = Filled(Normalize(next))
    /\ UNCHANGED <<redoStack, savedPoint>>

\* push(): an edit forgets what was undone, and in the end the oldest undo point.
Push(next) ==
    /\ edits < MaxEdits
    /\ edits' = edits + 1
    /\ undoStack' = IF Len(undoStack) = UndoLimit THEN Append(Tail(undoStack), current)
                    ELSE Append(undoStack, current)
    /\ redoStack' = <<>>
    /\ current' = Filled(Normalize(next))
    /\ UNCHANGED savedPoint

\* splice(), which insert(), delete() and setLine() call.
Splice ==
    \E from \in 0 .. Total(current), lines \in Insertions : \E remove \in 0 .. Total(current) - from :
        /\ remove > 0 \/ lines # <<>>
        /\ Push(Cut(current, 0, from) \o (IF lines = <<>> THEN <<>> ELSE <<Added(lines)>>)
                \o Cut(current, from + remove, Total(current)))

\* Pieces of the journal, which fit the file.
Journal == {<<>>, <<Original(FileLines, 1)>>} \cup
           {<<Added(lines), Original(1, 1), Original(2, FileLines - 1)>> : lines \in Insertions}

Restore == \E pieces \in Journal : Push(pieces)

Undo ==
    /\ undoStack # <<>>
    /\ current' = Last(undoStack)
    /\ undoStack' = Front(undoStack)
    /\ redoStack' = Append(redoStack, current)
    /\ UNCHANGED <<savedPoint, edits>>

Redo ==
    /\ redoStack # <<>>
    /\ current' = Last(redoStack)
    /\ redoStack' = Front(redoStack)
    /\ undoStack' = Append(undoStack, current)
    /\ UNCHANGED <<savedPoint, edits>>

Dirty == current # savedPoint

MarkSaved ==
    /\ Dirty /\ edits < MaxEdits
    /\ edits' = edits + 1
    /\ savedPoint' = current
    /\ UNCHANGED <<current, undoStack, redoStack>>

Next == Splice \/ Restore \/ Undo \/ Redo \/ MarkSaved

Spec == Init /\ [][Next]_vars

\* segments(): the pieces of a range, from the one that has its first line on.
Segments(from, count) == Cut(current, Greatest(0, from), Least(Total(current), from + count))

\* originalLineAt(): 0 for none.
OriginalLineAt(i) ==
    LET found == Segments(i, 1) IN
    IF found # <<>> /\ found[1].kind = "original" THEN found[1].from ELSE 0

(* ------------------------------- properties ------------------------------ *)

PieceKind ==
    [kind : {"original"}, from : 1 .. FileLines, count : 1 .. FileLines]
    \cup [kind : {"added"}, lines : Seq(Nat \ 1 .. FileLines) \ {<<>>}]

TypeOK ==
    /\ current \in Seq(PieceKind) /\ savedPoint \in Seq(PieceKind)
    /\ undoStack \in Seq(Seq(PieceKind)) /\ redoStack \in Seq(Seq(PieceKind))
    /\ edits \in 0 .. MaxEdits

\* pieceTable.ts:60: the document is dirty exactly when it "differs from what was last saved (or
\* opened)", line for line, although it is the pieces that are compared.
DirtyWhenChanged == Dirty <=> Lines(current) # Lines(savedPoint)

\* Any range of lines is read as the same lines of the document, from where each of them is.
ReadsTheDocument ==
    LET doc == Lines(current) IN
    /\ Len(doc) = Total(current)
    /\ \A from \in 0 .. Len(doc), count \in 0 .. Len(doc) :
          Lines(Segments(from, count)) = SubSeq(doc, from + 1, Least(Len(doc), from + count))
    /\ \A i \in 1 .. Len(doc) : OriginalLineAt(i - 1) = IF doc[i] \in 1 .. FileLines THEN doc[i] ELSE 0

Document == INSTANCE LineDocument WITH
    doc <- Lines(current),
    past <- [i \in DOMAIN undoStack |-> Lines(undoStack[i])],
    future <- [i \in DOMAIN redoStack |-> Lines(redoStack[i])],
    Kept <- {Lines(pieces) : pieces \in Journal}, Limit <- UndoLimit, Empty <- 0

\* What a step of the table is to the document.
OfTheDocument == [Document!Next]_(Document!docVars)

\* Whatever its pieces are cut into and joined to, the table is a document of lines that is
\* spliced, undone and redone: it implements LineDocument.
IsADocument == Document!Begins([i \in 1 .. FileLines |-> i]) /\ [][OfTheDocument]_vars
=============================================================================
