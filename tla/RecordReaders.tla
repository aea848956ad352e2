---------------------------- MODULE RecordReaders ----------------------------
(* The readers that are fed a file or an answer a piece at a time: the records  *)
(* of CSV (transfer-engine/src/csv.ts), of JSON arrays, lines and sequences      *)
(* (jsonStream.ts) and of BSON dumps (importRun.ts), the events of an event      *)
(* stream (api-client/src/responses.ts), and the hits of a search                 *)
(* (file-engine/src/search.ts).                                                  *)
(*                                                                              *)
(* A text is a sequence of cells.  A cell is a character or byte, or stands for   *)
(* what is never told apart within: "data: ", "event: " and "id: " are "D", "E"   *)
(* and "I", and "w" is a character of two bytes.  Texts are what the writers of   *)
(* the same files give (csvLine(), the JSON formatters, serializeSseEvents()),    *)
(* or anything.  Left out: limits of sizes, byte order marks, previews, batches    *)
(* of hits, patterns that are more than a word.                                   *)
EXTENDS Naturals, Sequences, FiniteSets

CONSTANTS
    Inputs,    \* sets of what is read: records of reader, text, wrote and more
    Pieces,    \* how many cells are fed at once
    None,      \* no value
    MaxHits,   \* MAX_HITS: hits reported of a search
    MaxCarry   \* MAX_CARRY_BYTES: cells of an unterminated line kept by a search

ASSUME ReadersAssumption ==
    /\ Pieces \subseteq Nat \ {0} /\ MaxHits \in Nat /\ MaxCarry \in Nat
    /\ \A g \in DOMAIN Inputs : \A i \in Inputs[g] :
           i.reader \in {"csv", "jsonl", "array", "sequence", "bson", "events", "bytes", "lines"}

VARIABLES
    input,     \* what is read
    fed,       \* how many cells of its text the reader has been fed
    st,        \* the fields of the reader, and what it has handed over
    over       \* "no", "yes" once finish() has returned, "error" once something was thrown

vars == <<input, fed, st, over>>

Max2(a, b) == IF a > b THEN a ELSE b
Min2(a, b) == IF a < b THEN a ELSE b
From(s, i) == SubSeq(s, i, Len(s))
Drop(s, n) == SubSeq(s, n + 1, Len(s))

\* Each, in order: what Op makes of s with every cell of cells.
Each(Op(_, _), s, cells) ==
    LET f[i \in 0 .. Len(cells)] == IF i = 0 THEN s ELSE Op(f[i - 1], cells[i])
    IN  f[Len(cells)]

Joined(parts) == LET f[i \in 0 .. Len(parts)] == IF i = 0 THEN <<>> ELSE f[i - 1] \o parts[i]
                 IN  f[Len(parts)]

Feeds(s) == Cardinality({i \in DOMAIN s : s[i] = "\n"})

----------------------------------------------------------------------------
(* CSV.                                                                         *)

\* utf8Units(): the bytes of a cell.
Units(c) == IF c = "w" THEN 2 ELSE 1
Bytes(s) == LET f[i \in 0 .. Len(s)] == IF i = 0 THEN 0 ELSE f[i - 1] + Units(s[i]) IN f[Len(s)]

\* csvField(), csvLine(): a field as it is written.
Special == {",", "q", "\n", "\r"}
\* Variant: a quote within a field is written as it is.
FieldUndoubled(text) ==
    IF \A i \in DOMAIN text : text[i] \notin Special THEN text ELSE <<"q">> \o text \o <<"q">>

Field(text) ==
    IF /\ \A i \in DOMAIN text : text[i] \notin Special
       /\ text # <<>> => Head(text) # " " /\ text[Len(text)] # " "
    THEN text
    ELSE <<"q">> \o Joined([i \in DOMAIN text |-> IF text[i] = "q" THEN <<"q", "q">> ELSE <<text[i]>>])
                 \o <<"q">>

Line(fields, eol) ==
    Joined([i \in DOMAIN fields |-> (IF i = 1 THEN <<>> ELSE <<",">>) \o Field(fields[i])]) \o eol

CsvStart(byte, line, record) ==
    [state |-> "field start", fields |-> <<>>, field |-> <<>>, pendingCr |-> FALSE,
     started |-> FALSE, line |-> line, recordLine |-> line, record |-> record, bytes |-> byte,
     out |-> <<>>]

\* Variant: what is delivered is not counted.
DeliveredUncounted(s) ==
    [s EXCEPT !.fields = <<>>, !.field = <<>>,
              !.out = Append(@, [value |-> Append(s.fields, s.field), record |-> s.record,
                                 line |-> s.recordLine, byteEnd |-> s.bytes, nextLine |-> s.line])]

\* deliver().
Delivered(s) ==
    [s EXCEPT !.fields = <<>>, !.field = <<>>, !.record = @ + 1,
              !.out = Append(@, [value |-> Append(s.fields, s.field), record |-> s.record,
                                 line |-> s.recordLine, byteEnd |-> s.bytes, nextLine |-> s.line])]

Blank(s) == ~s.started /\ s.fields = <<>> /\ s.field = <<>>

\* endRecord().
EndRecord(s, cr) ==
    LET e == [s EXCEPT !.line = @ + 1, !.pendingCr = cr]
        d == IF Blank(s) THEN e ELSE Delivered(e)
    IN  [d EXCEPT !.recordLine = e.line, !.started = FALSE, !.state = "field start"]

\* step(), outside quotes.
Unquoted(s, c) ==
    CASE c = "," -> [s EXCEPT !.fields = Append(@, s.field), !.field = <<>>, !.started = TRUE,
                              !.state = "field start"]
      [] c \in {"\n", "\r"} -> EndRecord(s, c = "\r")
      [] c = "q" /\ s.state = "field start" -> [s EXCEPT !.state = "quoted", !.started = TRUE]
      [] OTHER -> [s EXCEPT !.field = Append(@, c), !.started = TRUE, !.state = "unquoted"]

\* step().
Step(s, c) ==
    CASE s.state = "quoted" /\ c = "q" -> [s EXCEPT !.state = "quote in quoted"]
      [] s.state = "quoted" /\ c # "q" ->
             [s EXCEPT !.field = Append(@, c), !.line = IF c = "\n" THEN @ + 1 ELSE @]
      [] s.state = "quote in quoted" /\ c = "q" ->
             [s EXCEPT !.field = Append(@, c), !.state = "quoted"]
      [] s.state = "quote in quoted" /\ c # "q" -> Unquoted([s EXCEPT !.state = "unquoted"], c)
      [] OTHER -> Unquoted(s, c)

\* feed(), for one character.
FeedCsv(s, c) ==
    LET b == [s EXCEPT !.bytes = @ + Units(c), !.pendingCr = FALSE]
    IN  IF s.pendingCr /\ c = "\n" THEN b ELSE Step(b, c)

\* finish(): what is thrown, and the record with no line break.
CsvEnd(s) ==
    IF s.state = "quoted" THEN [error |-> TRUE, out |-> s.out]
    ELSE [error |-> FALSE, out |-> (IF Blank(s) THEN s ELSE Delivered(s)).out]

----------------------------------------------------------------------------
(* JSON.                                                                        *)

JsonStart(byte, line, index) ==
    [state |-> "between", opened |-> FALSE, depth |-> 0, escaped |-> FALSE, inString |-> FALSE,
     held |-> <<>>, partStart |-> 0, elementLine |-> 1, line |-> line, index |-> index,
     offset |-> byte, out |-> <<>>]

IsSpace(c) == c \in {" ", "\n", "\r"}

\* emit(), and the info onDocument() is given with it.
Emitted(s, text, byteEnd) ==
    [s EXCEPT !.held = <<>>, !.index = @ + 1, !.state = "between",
              !.out = Append(@, [value |-> text, record |-> s.index, line |-> s.elementLine,
                                 byteEnd |-> byteEnd, nextLine |-> s.elementLine + 1])]

\* JSON Lines: add(), and emitLine() at the byte after the line.
AddToLine(s, c) ==
    [s EXCEPT !.held = Append(@, c), !.elementLine = IF s.held = <<>> THEN s.line ELSE @]

EmitLine(s, byteEnd) ==
    LET bare == IF s.held # <<>> /\ s.held[Len(s.held)] = "\r" THEN SubSeq(s.held, 1, Len(s.held) - 1)
                ELSE s.held
    IN  IF \A i \in DOMAIN bare : IsSpace(bare[i]) THEN [s EXCEPT !.held = <<>>]
        ELSE Emitted(s, bare, byteEnd)

FeedLine(s, c) ==
    LET n == [s EXCEPT !.offset = @ + 1]
    IN  IF c = "\n" THEN [EmitLine(n, n.offset) EXCEPT !.line = @ + 1] ELSE AddToLine(n, c)

\* keep(): the part of the element in this piece, up to the cell before to.
Keep(s, data, to) == [s EXCEPT !.held = @ \o SubSeq(data, s.partStart + 1, to)]

\* An element ends before cell i of the piece (i counts from 0).
Cut(s, data, i) == [Emitted(Keep(s, data, i), Keep(s, data, i).held, s.offset + i) EXCEPT !.partStart = i]

\* begin(), and the state its first byte leads to.
Begun(s, c, i) ==
    [s EXCEPT !.held = <<>>, !.elementLine = s.line, !.partStart = i, !.escaped = FALSE,
              !.inString = FALSE, !.depth = IF c \in {"{", "["} THEN 1 ELSE 0,
              !.state = CASE c \in {"{", "["} -> "container" [] c = "q" -> "string"
                          [] OTHER -> "scalar"]

\* feedValues(), for cell i of the piece: what the state makes of it.
Between(s, c, i, array) ==
    CASE IsSpace(c) \/ c = "," -> s
      [] array /\ ~s.opened /\ ~(IsSpace(c) \/ c = ",") ->
             IF c = "[" THEN [s EXCEPT !.opened = TRUE] ELSE [s EXCEPT !.state = "thrown"]
      [] array /\ s.opened /\ c = "]" -> [s EXCEPT !.state = "done"]
      [] OTHER -> Begun(s, c, i)

InString(s, data, c, i) ==
    CASE s.escaped -> [s EXCEPT !.escaped = FALSE]
      [] ~s.escaped /\ c = "\\" -> [s EXCEPT !.escaped = TRUE]
      [] ~s.escaped /\ c = "q" -> Cut(s, data, i + 1)
      [] OTHER -> s

InContainer(s, data, c, i) ==
    CASE s.inString /\ s.escaped -> [s EXCEPT !.escaped = FALSE]
      [] s.inString /\ ~s.escaped /\ c = "\\" -> [s EXCEPT !.escaped = TRUE]
      [] ~(s.inString /\ s.escaped) /\ c = "q" -> [s EXCEPT !.inString = ~@]
      [] ~s.inString /\ c \in {"{", "["} -> [s EXCEPT !.depth = @ + 1]
      [] ~s.inString /\ c \in {"}", "]"} /\ s.depth = 1 -> Cut([s EXCEPT !.depth = 0], data, i + 1)
      [] ~s.inString /\ c \in {"}", "]"} /\ s.depth > 1 -> [s EXCEPT !.depth = @ - 1]
      [] OTHER -> s

InScalar(s, data, c, i, array) ==
    IF ~IsSpace(c) /\ c \notin {",", "]"} THEN s
    ELSE [Cut(s, data, i) EXCEPT !.state = IF c = "]" /\ array THEN "done" ELSE @]

FeedCell(s, data, i, array) ==
    LET c == data[i + 1]
        n == [s EXCEPT !.line = IF c = "\n" THEN @ + 1 ELSE @]
    IN  CASE s.state = "between" -> Between(n, c, i, array)
          [] s.state = "string" -> InString(n, data, c, i)
          [] s.state = "container" -> InContainer(n, data, c, i)
          [] s.state = "scalar" -> InScalar(n, data, c, i, array)
          [] s.state = "done" -> IF IsSpace(c) THEN n ELSE [n EXCEPT !.state = "thrown"]
          [] OTHER -> s

\* Variant: what a piece holds of an element that goes on is dropped.
InElementAtOnce(s) == s.state = "container"

InElement(s) == s.state \in {"string", "container", "scalar"}

\* feed(): a piece, of an array or of a sequence of values.
FeedValues(s, data, array) ==
    LET f[i \in 0 .. Len(data)] ==
            IF i = 0 THEN [s EXCEPT !.partStart = 0] ELSE FeedCell(f[i - 1], data, i - 1, array)
        e == f[Len(data)]
    IN  [(IF InElement(e) THEN Keep(e, data, Len(data)) ELSE e) EXCEPT !.offset = s.offset + Len(data)]

\* finish().
ValuesEnd(s) ==
    CASE s.state \in {"container", "string", "thrown"} -> [error |-> TRUE, out |-> s.out]
      [] s.state = "scalar" -> [error |-> FALSE, out |-> Emitted(s, s.held, s.offset).out]
      [] OTHER -> [error |-> FALSE, out |-> s.out]

----------------------------------------------------------------------------
(* BSON dumps: each document begins with its length, here in cells, whose        *)
(* prefix takes two of them.                                                     *)

Prefix == 2
LengthOf == [c \in {"2", "3", "5"} |-> CASE c = "2" -> 2 [] c = "3" -> 3 [] c = "5" -> 5]

BsonStart(byte, record) == [held |-> <<>>, consumed |-> byte, record |-> record, out |-> <<>>]

Complete(s) == Len(s.held) >= Prefix /\ LengthOf[s.held[1]] <= Len(s.held)

\* The loop over what is held: every document that is complete.
Documents(s) ==
    LET f[n \in 0 .. Len(s.held)] ==
            IF n = 0 THEN s
            ELSE LET d == f[n - 1]
                     length == LengthOf[d.held[1]]
                     end == d.consumed + length
                 IN  IF ~Complete(d) THEN d
                     ELSE [held |-> Drop(d.held, length), consumed |-> end, record |-> d.record + 1,
                           out |-> Append(d.out, [value |-> SubSeq(d.held, 1, length),
                                                  record |-> d.record, line |-> d.record,
                                                  byteEnd |-> end, nextLine |-> d.record + 1])]
    IN  f[Len(s.held)]

----------------------------------------------------------------------------
(* Event streams.                                                                *)

NoEvent == [event |-> <<>>, id |-> None, data |-> <<>>]

EventsStart == [buffer |-> <<>>, pending |-> NoEvent, out |-> <<>>]

\* serializeSseEvents(), with the line ends another server may use.
Serialized(events, eol) ==
    Joined([i \in DOMAIN events |->
        LET e == events[i] IN
        (IF e.event = <<>> THEN <<>> ELSE <<"E">> \o e.event \o eol)
        \o (IF e.id = None THEN <<>> ELSE <<"I">> \o e.id \o eol)
        \o Joined([l \in DOMAIN e.data |-> <<"D">> \o e.data[l] \o eol]) \o eol])

\* handleLine(), with dispatch() for an empty one.
HandleLine(s, line) ==
    CASE line = <<>> ->
             [s EXCEPT !.pending = NoEvent,
                       !.out = IF s.pending.data = <<>> THEN @ ELSE Append(@, s.pending)]
      [] line # <<>> /\ Head(line) = "D" -> [s EXCEPT !.pending.data = Append(@, Tail(line))]
      [] line # <<>> /\ Head(line) = "E" -> [s EXCEPT !.pending.event = Tail(line)]
      [] line # <<>> /\ Head(line) = "I" -> [s EXCEPT !.pending.id = Tail(line)]
      [] OTHER -> s    \* a comment, a field of another name

\* Variant: a CR at the very end of a piece ends the line.
LineBreakAtOnce(buffer) ==
    LET ends == {i \in DOMAIN buffer : buffer[i] \in {"\n", "\r"}}
        at == CHOOSE i \in ends : \A j \in ends : i <= j
    IN  IF ends = {} THEN <<>>
        ELSE IF buffer[at] = "\r" /\ at < Len(buffer) /\ From(buffer, at + 1)[1] = "\n" THEN <<at, at + 2>>
        ELSE <<at, at + 1>>

\* Where the first line of the buffer ends, if that is certain: the line break begins at the
\* first cell and the next line at the second.
LineBreak(buffer) ==
    LET at == CHOOSE i \in DOMAIN buffer : /\ buffer[i] \in {"\n", "\r"}
                                           /\ \A j \in 1 .. i - 1 : buffer[j] \notin {"\n", "\r"}
    IN  CASE \A i \in DOMAIN buffer : buffer[i] \notin {"\n", "\r"} -> <<>>
          [] OTHER -> IF buffer[at] = "\n" THEN <<at, at + 1>>
                      ELSE IF at = Len(buffer) THEN <<>>
                      ELSE <<at, IF buffer[at + 1] = "\n" THEN at + 2 ELSE at + 1>>

\* push(): the lines that are complete.
FeedEvents(s, data) ==
    LET b == [s EXCEPT !.buffer = @ \o data]
        f[n \in 0 .. Len(b.buffer)] ==
            IF n = 0 THEN b
            ELSE LET l == f[n - 1]
                     cut == LineBreak(l.buffer)
                 IN  IF cut = <<>> THEN l
                     ELSE HandleLine([l EXCEPT !.buffer = From(@, cut[2])],
                                     SubSeq(l.buffer, 1, cut[1] - 1))
    IN  f[Len(b.buffer)]

\* flush().
EventsEnd(s) ==
    LET n == Len(s.buffer)
        line == IF n > 0 /\ s.buffer[n] = "\r" THEN SubSeq(s.buffer, 1, n - 1) ELSE s.buffer
        h == IF n = 0 THEN s ELSE HandleLine([s EXCEPT !.buffer = <<>>], line)
    IN  [error |-> FALSE, out |-> HandleLine(h, <<>>).out]

----------------------------------------------------------------------------
(* Search.  A hit is where it begins and its line.                               *)

SearchStart == [tail |-> <<>>, tailOffset |-> 0, line |-> 0, nextAllowed |-> 0, full |-> FALSE,
                truncated |-> FALSE, out |-> <<>>]

\* isWordByte(): of the cell at i, counted from 1, if there is one.
IsWord(s, i) == i \in DOMAIN s /\ s[i] \notin {" ", "\n"}

Matches(s, needle, i) ==
    i + Len(needle) - 1 <= Len(s) /\ SubSeq(s, i, i + Len(needle) - 1) = needle

\* indexOf(): the first match at or after cell i, or 0.
FirstMatch(s, needle, i) ==
    LET all == {j \in i .. Len(s) : Matches(s, needle, j)}
    IN  IF all = {} THEN 0 ELSE CHOOSE j \in all : \A k \in all : j <= k

Bounded(s, needle, i) == ~IsWord(s, i - 1) /\ ~IsWord(s, i + Len(needle))

\* Emitter.add(), for each hit of a window until one is refused.
Added(s, hits) ==
    [s EXCEPT !.out = @ \o SubSeq(hits, 1, Min2(Len(hits), MaxHits - Len(s.out))),
              !.full = Len(s.out) + Len(hits) > MaxHits,
              !.truncated = Len(s.out) + Len(hits) > MaxHits]

Hits(s, at, base, line) ==
    [k \in DOMAIN at |-> [offset |-> base + at[k] - 1, line |-> line + Feeds(SubSeq(s, 1, at[k] - 1))]]

\* The matches scanBytes() takes of a window, from cell i on.  One at the very start of a later
\* window was judged in the one before, with the byte before it.
Found(window, needle, whole, later, searchEnd, i) ==
    LET f[from \in 1 .. Len(window) + 1] ==
            LET found == FirstMatch(window, needle, from) IN
            CASE found = 0 \/ found + Len(needle) - 1 > searchEnd -> <<>>
              [] OTHER -> IF whole /\ found = 1 /\ later THEN f[2]
                          ELSE IF whole /\ ~Bounded(window, needle, found) THEN f[found + 1]
                          ELSE <<found>> \o f[found + Len(needle)]
    IN  f[i]

\* Variant: a match, less a byte.
CarriedShort(needle) == Len(needle) - 1

\* What is carried into the next window: a match and the byte before it.
Carried(needle) == Len(needle) + 1

\* scanBytes(), for one chunk.
ScanBytes(s, chunk, needle, whole, atEnd) ==
    LET window == s.tail \o chunk
        base == s.tailOffset
        searchEnd == IF whole /\ ~atEnd THEN Len(window) - 1 ELSE Len(window)
        at == Found(window, needle, whole, base > 0, searchEnd, Max2(0, s.nextAllowed - base) + 1)
        carryFrom == Max2(0, Len(window) - Carried(needle))
        a == Added(s, Hits(window, at, base, s.line))
    IN  [a EXCEPT !.nextAllowed = IF at = <<>> THEN @ ELSE base + at[Len(at)] - 1 + Len(needle),
                  !.line = @ + Feeds(SubSeq(window, 1, carryFrom)),
                  !.tail = Drop(window, carryFrom), !.tailOffset = base + carryFrom]

\* scanRegex(): searchBlock(), of whole lines or of a line too long to wait for its end.
SearchBlock(s, block, needle, whole) ==
    LET at == Found(block, needle, whole, FALSE, Len(block), 1)
    IN  Added(s, Hits(block, at, s.tailOffset, s.line))

LastFeed(s) == LET all == {i \in DOMAIN s : s[i] = "\n"}
               IN  IF all = {} THEN 0 ELSE CHOOSE i \in all : \A j \in all : j <= i

ScanLines(s, chunk, needle, whole) ==
    LET joined == s.tail \o chunk
        cut == LastFeed(joined)
        searchTo == IF cut = 0 /\ Len(joined) > MaxCarry THEN Len(joined) ELSE cut
        block == SubSeq(joined, 1, searchTo)
        a == SearchBlock(s, block, needle, whole)
    IN  [a EXCEPT !.line = @ + Feeds(block), !.tailOffset = @ + searchTo,
                  !.tail = Drop(joined, searchTo)]

LinesEnd(s, needle, whole) ==
    [error |-> FALSE, out |-> (IF s.full THEN s ELSE SearchBlock(s, s.tail, needle, whole)).out]

----------------------------------------------------------------------------
(* Reading.                                                                      *)

text == input.text
Search == {"bytes", "lines"}
Values == {"array", "sequence"}

\* A reader made to begin at a byte, with the line and the record there.
Started(reader, byte, line, record) ==
    CASE reader = "csv" -> CsvStart(byte, line, record)
      [] reader \in Values \cup {"jsonl"} -> JsonStart(byte, line, record)
      [] reader = "bson" -> BsonStart(byte, record)
      [] reader = "events" -> EventsStart
      [] reader \in Search -> SearchStart

\* A reader that is fed some cells; atEnd, if they are the last.
Fed(reader, s, data, atEnd) ==
    CASE reader = "csv" -> Each(FeedCsv, s, data)
      [] reader = "jsonl" -> Each(FeedLine, s, data)
      [] reader \in Values -> FeedValues(s, data, reader = "array")
      [] reader = "bson" -> Documents([s EXCEPT !.held = @ \o data])
      [] reader = "events" -> FeedEvents(s, data)
      [] reader = "bytes" -> ScanBytes(s, data, input.needle, input.whole, atEnd)
      [] reader = "lines" -> ScanLines(s, data, input.needle, input.whole)

Ended(reader, s) ==
    CASE reader = "csv" -> CsvEnd(s)
      [] reader = "jsonl" -> [error |-> FALSE, out |-> EmitLine(s, s.offset).out]
      [] reader \in Values -> ValuesEnd(s)
      [] reader = "bson" -> [error |-> s.held # <<>>, out |-> s.out]
      [] reader = "events" -> EventsEnd(s)
      [] reader = "bytes" -> [error |-> FALSE, out |-> s.out]
      [] reader = "lines" -> LinesEnd(s, input.needle, input.whole)

Init ==
    /\ \E g \in DOMAIN Inputs : input \in Inputs[g]
    /\ fed = 0
    /\ st = Started(input.reader, 0, 1, 1)
    /\ over = "no"

\* The next n cells, or what is left of them.
Feed(n) ==
    /\ over = "no" /\ fed < Len(text)
    /\ LET to == Min2(fed + n, Len(text)) IN
       /\ fed' = to
       /\ st' = Fed(input.reader, st, SubSeq(text, fed + 1, to), to = Len(text))
    /\ UNCHANGED <<input, over>>

\* A search that is full reads no further, and neither does a reader that has thrown.
Stopped == IF input.reader \in Search THEN st.full
           ELSE input.reader \in Values /\ st.state = "thrown"

Finish ==
    /\ over = "no" /\ (fed = Len(text) \/ Stopped)
    /\ LET e == Ended(input.reader, st) IN
       /\ st' = [st EXCEPT !.out = e.out]
       /\ over' = IF e.error THEN "error" ELSE "yes"
    /\ UNCHANGED <<input, fed>>

Next == (\E n \in Pieces : Feed(n)) \/ Finish

Spec == Init /\ [][Next]_vars

----------------------------------------------------------------------------
(* Properties.                                                                   *)

TypeOK ==
    /\ fed \in 0 .. Len(text) /\ over \in {"no", "yes", "error"}
    /\ \A i \in DOMAIN st.out : input.reader \notin Search \cup {"events"} =>
           st.out[i].record = i /\ st.out[i].byteEnd \in 1 .. Bytes(text)

Valued == [i \in DOMAIN st.out |-> IF input.reader = "events" THEN st.out[i] ELSE st.out[i].value]

\* A record of one empty field is a blank line to the reader.
NotBlank(row) == row # <<<<>>>>
Written == IF input.reader = "csv" THEN SelectSeq(input.wrote, NotBlank) ELSE input.wrote

\* What the writers of the same format have written is what is read, however the text is cut:
\* every record, element, document and event, once, whole and in order.
ReadsWhatWasWritten ==
    over # "no" /\ input.wrote # None =>
        over = "yes" /\ Valued = Written

\* The matches of the whole text, from the left, that do not overlap.
AllMatches ==
    LET k == Len(input.needle)
        f[i \in 1 .. Len(text) + k] ==
            IF i + k - 1 > Len(text) THEN <<>>
            ELSE IF Matches(text, input.needle, i) /\ (input.whole => Bounded(text, input.needle, i))
            THEN <<i>> \o f[i + k] ELSE f[i + 1]
    IN  f[1]

LongLine == \E i \in DOMAIN text : /\ i + MaxCarry <= Len(text)
                                    /\ \A j \in i .. i + MaxCarry : text[j] # "\n"

\* A search reports every match once, at its place and line, also those that straddle two chunks;
\* up to the limit, and says so.  A line too long to be kept whole is searched in parts.
FindsEveryMatch ==
    over = "yes" /\ input.reader \in Search /\ (input.reader = "lines" => ~LongLine) =>
        LET all == Hits(text, AllMatches, 0, 0) IN
        /\ st.out = SubSeq(all, 1, Min2(Len(all), MaxHits))
        /\ input.reader = "bytes" => (st.truncated <=> Len(all) > MaxHits)

\* The cells behind a byte.
Behind(byte) == Drop(text, CHOOSE i \in 0 .. Len(text) : Bytes(SubSeq(text, 1, i)) = byte)

\* What a reader started behind record k, as an import resumes, makes of the rest.
Resumed(k) ==
    LET r == st.out[k]
        s == Started(input.reader, r.byteEnd, r.nextLine, r.record + 1)
    IN  Ended(input.reader, Fed(input.reader, s, Behind(r.byteEnd), TRUE))

Numbered(s) == [i \in DOMAIN s |-> [value |-> s[i].value, record |-> s[i].record, byteEnd |-> s[i].byteEnd]]

\* The end of record k is between a CR and its LF, or its next line is not where it ends.
LineUnsure(k) ==
    \/ input.reader = "sequence"
    \/ input.reader = "csv" /\ Behind(st.out[k].byteEnd) # <<>>
                           /\ Head(Behind(st.out[k].byteEnd)) = "\n"

ResumesBehind(k) ==
    /\ ~Resumed(k).error
    /\ IF LineUnsure(k) THEN Numbered(Resumed(k).out) = Numbered(From(st.out, k + 1))
       ELSE Resumed(k).out = From(st.out, k + 1)

\* A file read from behind any of its records gives the records that follow it, with the same
\* numbers, ends and lines.
ResumesAnywhere ==
    over = "yes" /\ input.reader \in {"csv", "jsonl", "sequence", "bson"} =>
        \A k \in DOMAIN st.out : ResumesBehind(k)
=============================================================================
