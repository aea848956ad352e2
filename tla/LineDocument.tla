----------------------------- MODULE LineDocument -----------------------------
(* What an edited file is to its reader: a sequence of lines that is spliced,   *)
(* with undo and redo (packages/editor-core/src/pieceTable.ts promises it).     *)
EXTENDS Integers, Sequences

CONSTANTS
    Insertions, \* sequences of lines that may be put in
    Kept,       \* documents that may be restored
    Limit,      \* how many documents undo goes back
    Empty       \* the empty line

VARIABLES
    doc,        \* the lines
    past,       \* the documents undo goes back to, the latest last
    future      \* those redo goes on to

docVars == <<doc, past, future>>

Nonempty(lines) == IF lines = <<>> THEN <<Empty>> ELSE lines

Recent(documents) ==
    IF Len(documents) > Limit THEN Tail(documents) ELSE documents

Becomes(lines) ==
    /\ doc' = Nonempty(lines)
    /\ past' = Recent(Append(past, doc))
    /\ future' = <<>>

Splice ==
    \E from \in 0 .. Len(doc), lines \in Insertions : \E to \in from .. Len(doc) :
        Becomes(SubSeq(doc, 1, from) \o lines \o SubSeq(doc, to + 1, Len(doc)))

Restore == \E lines \in Kept : Becomes(lines)

Undo ==
    /\ past # <<>>
    /\ doc' = past[Len(past)]
    /\ past' = SubSeq(past, 1, Len(past) - 1)
    /\ future' = Append(future, doc)

Redo ==
    /\ future # <<>>
    /\ doc' = future[Len(future)]
    /\ future' = SubSeq(future, 1, Len(future) - 1)
    /\ past' = Append(past, doc)

Next == Splice \/ Restore \/ Undo \/ Redo

Begins(lines) == doc = lines /\ past = <<>> /\ future = <<>>
=============================================================================
