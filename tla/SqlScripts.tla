----------------------------- MODULE SqlScripts -----------------------------
(* Where the statements of an SQL script begin and end: the scanner that is fed  *)
(* a file a chunk at a time (sql-parser/src/scanner.ts), the statements a script   *)
(* task is handed of it (query-engine/src/statements.ts), and the tokens the        *)
(* editor shows of the same text, a line at a time (sql-parser/src/lexer.ts).        *)
(*                                                                              *)
(* A text is a sequence of cells: characters, where "x" and "E" stand for the     *)
(* bytes of words, "D" for the word DELIMITER, and "^" for the backquote.          *)
(* Left out: limits of lengths, numbers and parameters, bytes beyond ASCII, the     *)
(* cap of one statement's text.                                                    *)
EXTENDS Naturals, Sequences, FiniteSets

CONSTANTS
    Scripts,   \* sets of what is read: records of dialect, text and wrote
    Chunks,    \* how many cells are fed at once
    None       \* no value

\* What the constants must satisfy.
ScriptsAssumption ==
    /\ Chunks \subseteq Nat \ {0}
    /\ \A g \in DOMAIN Scripts : \A i \in Scripts[g] : i.dialect \in {"mysql", "postgresql"}

VARIABLES
    input,     \* the script
    fed,       \* how many cells the scanner has been fed
    st,        \* the fields of the scanner, and of the stream of statements
    over       \* finish() has returned

vars == <<input, fed, st, over>>

Spaces == {" ", "\n"}
WordCells == {"x", "E", "D"}

\* The first place at or after i whose cell is one of set, or the one after the last.
NextOf(s, i, set) ==
    CHOOSE k \in i .. Len(s) + 1 : /\ k <= Len(s) => s[k] \in set
                                   /\ \A j \in i .. k - 1 : s[j] \notin set

CutAt(s, n) == SubSeq(s, n + 1, Len(s))
FeedsIn(s) == Cardinality({i \in DOMAIN s : s[i] = "\n"})

TrimStart(s) ==
    SubSeq(s, CHOOSE k \in 1 .. Len(s) + 1 : /\ k <= Len(s) => s[k] \notin Spaces
                                             /\ \A j \in 1 .. k - 1 : s[j] \in Spaces, Len(s))
TrimEnd(s) ==
    SubSeq(s, 1, CHOOSE k \in 0 .. Len(s) : /\ k > 0 => s[k] \notin Spaces
                                            /\ \A j \in k + 1 .. Len(s) : s[j] \in Spaces)
Trim(s) == TrimEnd(TrimStart(s))

EndsWith(s, end) == Len(s) >= Len(end) /\ CutAt(s, Len(s) - Len(end)) = end

----------------------------------------------------------------------------
(* The scanner.                                                                 *)

Mysql == input.dialect = "mysql"

ScannerStart(offset) ==
    [state |-> "normal", phase |-> "before", start |-> offset, previous |-> None, before |-> None,
     nesting |-> 0, close |-> None, escapes |-> FALSE, word |-> <<>>, delimiter |-> <<";">>, matched |-> 0,
     directive |-> <<>>, tag |-> <<>>, opening |-> <<>>, found |-> <<>>]

\* push().
Push(s, c) == [s EXCEPT !.before = s.previous, !.previous = c]

\* record(), of a statement up to end.
Recorded(s, end, command, unterminated, malformed) ==
    [s EXCEPT !.start = end, !.phase = "before",
              !.found = Append(@, [start |-> s.start, end |-> end, command |-> command,
                                   unterminated |-> unterminated, malformed |-> malformed,
                                   delimiter |-> s.delimiter])]

\* terminate().
Terminate(s, end) ==
    [(IF s.phase = "before" THEN s ELSE Recorded(s, end, FALSE, FALSE, FALSE))
        EXCEPT !.phase = "before", !.word = <<>>]

\* applyDirective(): the first word of the line is the delimiter from here on.
ApplyDirective(s, end) ==
    LET line == Trim(s.directive)
        first == SubSeq(line, 1, NextOf(line, 1, Spaces) - 1)
        d == IF first = <<>> THEN s ELSE [s EXCEPT !.delimiter = first]
    IN  [Recorded(d, end, TRUE, FALSE, FALSE) EXCEPT !.state = "normal", !.directive = <<>>]

Opened(s, state) == [s EXCEPT !.state = state, !.previous = None]
Quoted(s, c, escapes) == [Opened(s, "quoted") EXCEPT !.close = c, !.escapes = escapes]

\* dispatch(): a cell of ordinary text at the offset before end.
Dispatch(s, c, end) ==
    LET p == Push(s, c) IN
    CASE c = s.delimiter[1] ->
             IF Len(s.delimiter) = 1 THEN Terminate(p, end)
             ELSE [p EXCEPT !.matched = 1, !.state = "delimiter"]
      [] c # s.delimiter[1] /\ c = "'" ->
             Quoted(p, c, Mysql \/ (s.previous = "E" /\ s.before \notin WordCells))
      [] c # s.delimiter[1] /\ (c = "\"" \/ (c = "^" /\ Mysql)) -> Quoted(p, c, Mysql)
      [] c # s.delimiter[1] /\ c = "-" /\ s.previous = "-" -> Opened(p, "dash dash")
      [] c # s.delimiter[1] /\ c = "#" /\ Mysql -> [p EXCEPT !.state = "line comment"]
      [] c # s.delimiter[1] /\ c = "*" /\ s.previous = "/" ->
             [Opened(p, "block comment") EXCEPT !.nesting = 1]
      [] c # s.delimiter[1] /\ c = "$" /\ ~Mysql /\ s.previous \notin WordCells ->
             [p EXCEPT !.state = "dollar tag", !.tag = <<>>]
      [] OTHER -> p

\* skipBlockComment(), for one cell.
InBlock(s, c) ==
    CASE s.previous = "*" /\ c = "/" ->
             [s EXCEPT !.previous = None, !.nesting = @ - 1,
                       !.state = IF s.nesting = 1 THEN "normal" ELSE @]
      [] s.previous = "/" /\ c = "*" /\ ~Mysql -> [s EXCEPT !.previous = None, !.nesting = @ + 1]
      [] OTHER -> [s EXCEPT !.previous = c]

\* skipQuoted(), for one cell.
InQuotes(s, c) ==
    IF s.previous = "\\" /\ s.escapes /\ s.close # "^" THEN [s EXCEPT !.previous = None]
    ELSE [s EXCEPT !.previous = c, !.state = IF c = s.close THEN "quote end" ELSE @]

\* skipDollarBody(), for one cell.
InDollar(s, c) ==
    CASE c = s.opening[s.matched + 1] /\ s.matched + 1 = Len(s.opening) ->
             [s EXCEPT !.state = "normal", !.previous = "$", !.matched = @ + 1]
      [] c = s.opening[s.matched + 1] /\ s.matched + 1 < Len(s.opening) -> [s EXCEPT !.matched = @ + 1]
      [] OTHER -> [s EXCEPT !.matched = IF c = "$" THEN 1 ELSE 0]

\* What opensCommentOrEnds() keeps from starting a statement.
StartsNothing(s, c) ==
    c \in {"-", "/", s.delimiter[1]} \/ (c = "*" /\ s.previous = "/") \/ (Mysql /\ c = "#")

\* The cells skipOrdinary() stops at.
Watched(s) == {s.delimiter[1], "'", "\"", "-", "/", "*"} \cup (IF Mysql THEN {"^", "#"} ELSE {"$"})

\* What skipping the ordinary cells from i to before k leaves behind.
Skipped(s, data, i, k) ==
    CASE k = i -> s
      [] k = i + 1 -> [s EXCEPT !.before = s.previous, !.previous = data[i]]
      [] OTHER -> [s EXCEPT !.before = data[k - 2], !.previous = data[k - 1]]

At(s, i) == [s |-> s, i |-> i]

\* feed(), in its state NORMAL: a turn of the loop, at cell i of the data.
Normal(s, data, i, offset) ==
    LET c == data[i]
        d(t, k) == At(Dispatch(t, data[k], offset + k), k + 1)
    IN  CASE s.phase = "before" ->
               (CASE c \in Spaces -> At(Push(s, c), i + 1)
                  [] c \in WordCells -> At([Push(s, c) EXCEPT !.phase = "word", !.word = <<c>>], i + 1)
                  [] c \notin Spaces \cup WordCells ->
                         d(IF StartsNothing(s, c) THEN s ELSE [s EXCEPT !.phase = "inside"], i))
          [] s.phase = "word" ->
               (IF c \in WordCells THEN At([Push(s, c) EXCEPT !.word = Append(@, c)], i + 1)
                ELSE LET w == [s EXCEPT !.phase = "inside"] IN    \* finishWord()
                     IF Mysql /\ s.word = <<"D">>
                     THEN At([w EXCEPT !.state = "directive", !.directive = <<>>], i)
                     ELSE d(w, i))
          [] s.phase = "inside" ->
               LET k == NextOf(data, i, Watched(s))
                   t == Skipped(s, data, i, k)
               IN  IF k > Len(data) THEN At(t, k) ELSE d(t, k)

\* feed(): a turn of the loop.
Turn(s, data, i, offset) ==
    LET c == data[i]
        line == NextOf(data, i, {"\n"})
    IN  CASE s.state = "line comment" ->
               IF line > Len(data) THEN At(s, line)
               ELSE At([Push(s, "\n") EXCEPT !.state = "normal"], line + 1)
          [] s.state = "block comment" -> At(InBlock(s, c), i + 1)
          [] s.state = "quoted" -> At(InQuotes(s, c), i + 1)
          [] s.state = "quote end" ->
               IF c = s.close THEN At(Opened(s, "quoted"), i + 1)
               ELSE At([s EXCEPT !.state = "normal"], i)
          [] s.state = "dollar" -> At(InDollar(s, c), i + 1)
          [] s.state = "dollar tag" ->
               (CASE c = "$" -> At([s EXCEPT !.opening = <<"$">> \o s.tag \o <<"$">>, !.matched = 0,
                                              !.state = "dollar"], i + 1)
                  [] c \in WordCells -> At([s EXCEPT !.tag = Append(@, c)], i + 1)
                  [] OTHER -> At([s EXCEPT !.state = "normal"], i))
          [] s.state = "dash dash" ->
               At([s EXCEPT !.state = IF ~Mysql \/ c \in Spaces THEN "line comment" ELSE "normal"], i)
          [] s.state = "directive" ->
               LET r == [s EXCEPT !.directive = @ \o SubSeq(data, i, line - 1)] IN
               IF line > Len(data) THEN At(r, line)
               ELSE At(ApplyDirective(r, offset + line), line + 1)
          [] s.state = "delimiter" ->
               (CASE c # s.delimiter[s.matched + 1] -> At([s EXCEPT !.state = "normal"], i)
                  [] c = s.delimiter[s.matched + 1] /\ s.matched + 1 < Len(s.delimiter) ->
                         At([s EXCEPT !.matched = @ + 1], i + 1)
                  [] OTHER -> At([Terminate(s, offset + i) EXCEPT !.state = "normal"], i + 1))
          [] s.state = "normal" -> Normal(s, data, i, offset)

\* feed(): no cell takes more than three turns.
Scan(s, data, offset) ==
    LET f[n \in 0 .. 3 * Len(data)] ==
            IF n = 0 THEN At(s, 1)
            ELSE LET p == f[n - 1] IN IF p.i > Len(data) THEN p ELSE Turn(p.s, data, p.i, offset)
    IN  f[3 * Len(data)].s

\* finish().
ScanEnd(s, total) ==
    CASE s.state = "directive" -> ApplyDirective(s, total)
      [] s.state # "directive" /\ s.phase # "before" ->
             Recorded(s, total, FALSE, TRUE, s.state \in {"quoted", "block comment", "dollar"})
      [] OTHER -> s

----------------------------------------------------------------------------
(* The statements that are handed on.                                            *)

StreamStart(offset) ==
    [scanner |-> ScannerStart(offset), window |-> <<>>, windowStart |-> offset, lines |-> 0,
     sent |-> <<>>]

\* stripDelimiter().
Strip(sql, f) ==
    LET t == Trim(sql) IN
    IF ~f.unterminated /\ EndsWith(t, f.delimiter)
    THEN TrimEnd(SubSeq(t, 1, Len(t) - Len(f.delimiter))) ELSE t

\* Variant: the line breaks of what is not sent are not counted.
EmitUncounted(s, f) ==
    LET sql == SubSeq(s.window, f.start - s.windowStart + 1, f.end - s.windowStart)
        leading == SubSeq(sql, 1, Len(sql) - Len(TrimStart(sql)))
        one == [sql |-> Strip(sql, f), start |-> f.start, end |-> f.end,
                malformed |-> f.malformed, line |-> s.lines + FeedsIn(leading) + 1]
    IN  [s EXCEPT !.lines = IF f.command THEN @ ELSE @ + FeedsIn(sql), !.windowStart = f.end,
                  !.window = CutAt(@, f.end - s.windowStart),
                  !.sent = IF f.command THEN @ ELSE Append(@, one)]

\* emit(), for the statement f.
Emit(s, f) ==
    LET sql == SubSeq(s.window, f.start - s.windowStart + 1, f.end - s.windowStart)
        leading == SubSeq(sql, 1, Len(sql) - Len(TrimStart(sql)))
        one == [sql |-> Strip(sql, f), start |-> f.start, end |-> f.end,
                malformed |-> f.malformed, line |-> s.lines + FeedsIn(leading) + 1]
    IN  [s EXCEPT !.lines = @ + FeedsIn(sql), !.windowStart = f.end,
                  !.window = CutAt(@, f.end - s.windowStart),
                  !.sent = IF f.command THEN @ ELSE Append(@, one)]

\* emit(), of all that is pending.
EmitAll(s) ==
    LET f[i \in 0 .. Len(s.scanner.found)] ==
            IF i = 0 THEN s ELSE Emit(f[i - 1], s.scanner.found[i])
    IN  [f[Len(s.scanner.found)] EXCEPT !.scanner.found = <<>>]

\* streamStatements(), for a chunk, and at the end.
Streamed(s, data, offset) ==
    EmitAll([s EXCEPT !.window = @ \o data, !.scanner = Scan(@, data, offset)])
StreamEnd(s) == EmitAll([s EXCEPT !.scanner = ScanEnd(@, s.windowStart + Len(s.window))])

\* splitStatements(): the same of a text in memory.
Split(text) ==
    LET s == ScanEnd(Scan(ScannerStart(0), text, 0), Len(text))
        own == SelectSeq(s.found, LAMBDA f : ~f.command)
    IN  [i \in DOMAIN own |-> [sql |-> Strip(SubSeq(text, own[i].start + 1, own[i].end), own[i]),
                               start |-> own[i].start, end |-> own[i].end,
                               malformed |-> own[i].malformed]]

----------------------------------------------------------------------------
(* The tokens of the editor.  Numbers, keywords and parameters are words here.    *)

CodeState == [mode |-> "code", depth |-> 0, quote |-> <<>>, escapes |-> FALSE]

Operators == {"-", "/", "*"}
TagCells == WordCells \cup {"$"}

\* The token from opened up to before cell i ends, and code follows.
Token(l, type, i) ==
    [l EXCEPT !.tokens = Append(@, [type |-> type, from |-> l.opened, to |-> i]),
              !.i = i, !.opened = i, !.mode = "code"]

Within(l, mode, quote, escapes, i) ==
    [l EXCEPT !.mode = mode, !.quote = quote, !.escapes = escapes, !.depth = 1, !.i = i]

\* The first place from i on that is not in set.
Beyond(line, i, set) ==
    CHOOSE k \in i .. Len(line) + 1 : /\ k <= Len(line) => line[k] \notin set
                                      /\ \A j \in i .. k - 1 : line[j] \in set

Cell(line, i) == IF i \in DOMAIN line THEN line[i] ELSE None

\* tokenizeLine(), outside of comments and quotes: what begins at cell i.
Code(l, line) ==
    LET i == l.i
        c == line[i]
        next == Cell(line, i + 1)
        tag == Beyond(line, i + 1, WordCells)
    IN  CASE c = " " -> Token(l, "whitespace", Beyond(line, i, {" "}))
          [] \/ c = "-" /\ next = "-" /\ (Mysql => Cell(line, i + 2) \in {None, " "})
             \/ c = "#" /\ Mysql -> Token(l, "comment", Len(line) + 1)
          [] c = "/" /\ next = "*" -> Within(l, "block", <<>>, FALSE, i + 2)
          [] c = "'" \/ (c = "\"" /\ Mysql) ->
                 Within(l, "string", <<c>>,
                        Mysql \/ (Cell(line, i - 1) = "E" /\ Cell(line, i - 2) \notin TagCells), i + 1)
          [] (c = "\"" /\ ~Mysql) \/ (c = "^" /\ Mysql) ->
                 Within(l, "quoted identifier", <<c>>, FALSE, i + 1)
          [] c = "$" /\ ~Mysql ->
                 IF Cell(line, tag) = "$" THEN Within(l, "dollar", SubSeq(line, i, tag), FALSE, tag + 1)
                 ELSE Token(l, "parameter", i + 1)
          [] c \in WordCells -> Token(l, "identifier", Beyond(line, i, TagCells))
          [] c = ";" -> Token(l, "punctuation", i + 1)
          [] OTHER -> Token(l, "operator", Beyond(line, i + 1, Operators))

Lexed(l, line) ==
    LET i == l.i
        c == line[i]
        next == Cell(line, i + 1)
    IN  CASE l.mode = "code" -> Code(l, line)
          [] l.mode = "block" ->
               (CASE c = "*" /\ next = "/" ->
                         IF l.depth = 1 THEN Token([l EXCEPT !.depth = 0], "comment", i + 2)
                         ELSE [l EXCEPT !.i = i + 2, !.depth = @ - 1]
                  [] c = "/" /\ next = "*" /\ ~Mysql -> [l EXCEPT !.i = i + 2, !.depth = @ + 1]
                  [] OTHER -> [l EXCEPT !.i = i + 1])
          [] l.mode \in {"string", "quoted identifier"} ->
               (CASE c = "\\" /\ l.escapes -> [l EXCEPT !.i = i + 2]
                  [] <<c>> = l.quote /\ next = c -> [l EXCEPT !.i = i + 2]
                  [] <<c>> = l.quote /\ next # c -> Token(l, l.mode, i + 1)
                  [] OTHER -> [l EXCEPT !.i = i + 1])
          [] l.mode = "dollar" ->
               LET end == i + Len(l.quote) IN
               IF end - 1 <= Len(line) /\ SubSeq(line, i, end - 1) = l.quote THEN Token(l, "string", end)
               ELSE [l EXCEPT !.i = i + 1]

\* tokenizeLine(): the tokens of a line that begins in a state, and the state it ends in.
TokenizeLine(line, from) ==
    LET start == [i |-> 1, opened |-> 1, tokens |-> <<>>, mode |-> from.mode, depth |-> from.depth,
                  quote |-> from.quote, escapes |-> from.escapes]
        f[n \in 0 .. Len(line) + 1] ==
            IF n = 0 THEN start
            ELSE LET p == f[n - 1] IN IF p.i > Len(line) THEN p ELSE Lexed(p, line)
        end == f[Len(line) + 1]
        rest == [type |-> end.mode, from |-> end.opened, to |-> Len(line) + 1]
    IN  [tokens |-> IF end.mode = "code" \/ end.opened > Len(line) THEN end.tokens
                    ELSE Append(end.tokens, rest),
         state |-> [mode |-> end.mode, depth |-> end.depth, quote |-> end.quote,
                    escapes |-> end.escapes]]

\* tokenize(): line after line, at the offsets of the text.
Tokenize(text) ==
    LET f[n \in 0 .. FeedsIn(text) + 1] ==
            IF n = 0 THEN [at |-> 0, tokens |-> <<>>, state |-> CodeState]
            ELSE LET p == f[n - 1]
                     end == NextOf(text, p.at + 1, {"\n"})
                     r == TokenizeLine(SubSeq(text, p.at + 1, end - 1), p.state)
                 IN  [at |-> end, state |-> r.state,
                      tokens |-> p.tokens \o [k \in DOMAIN r.tokens |->
                          [r.tokens[k] EXCEPT !.from = @ + p.at, !.to = @ + p.at]]]
    IN  f[FeedsIn(text) + 1]

----------------------------------------------------------------------------
(* Reading.                                                                      *)

text == input.text

Init ==
    /\ \E g \in DOMAIN Scripts : input \in Scripts[g]
    /\ fed = 0
    /\ st = StreamStart(0)
    /\ over = FALSE

\* The next chunk, of n cells or what is left.
Feed(n) ==
    /\ ~over /\ fed < Len(text)
    /\ LET to == IF fed + n < Len(text) THEN fed + n ELSE Len(text) IN
       /\ fed' = to
       /\ st' = Streamed(st, SubSeq(text, fed + 1, to), fed)
    /\ UNCHANGED <<input, over>>

Finish ==
    /\ ~over /\ fed = Len(text)
    /\ st' = StreamEnd(st)
    /\ over' = TRUE
    /\ UNCHANGED <<input, fed>>

Next == (\E n \in Chunks : Feed(n)) \/ Finish

Spec == Init /\ [][Next]_vars

----------------------------------------------------------------------------
(* Properties.                                                                   *)

TypeOK ==
    /\ fed \in 0 .. Len(text) /\ over \in BOOLEAN
    /\ st.windowStart + Len(st.window) = fed /\ st.scanner.start = st.windowStart
    /\ st.scanner.found = <<>>

\* The line of the text a place is in.
LineOf(offset) == FeedsIn(SubSeq(text, 1, offset)) + 1

\* The line of the first cell of a statement that is not blank.
FirstLine(f) ==
    LET own == SubSeq(text, f.start + 1, f.end) IN LineOf(f.start + Len(own) - Len(TrimStart(own)))

\* scanner.ts: "the input may be cut anywhere, even between the two bytes of -- or inside a
\* dollar-quote tag, and the resulting index is identical": a task that is handed the statements
\* of a file, chunk by chunk, gets those the editor finds in the same text, with their lines.
CutAnywhere ==
    over => LET whole == Split(text) IN
            /\ Len(st.sent) = Len(whole)
            /\ \A k \in DOMAIN whole :
                  /\ [sql |-> st.sent[k].sql, start |-> st.sent[k].start, end |-> st.sent[k].end,
                      malformed |-> st.sent[k].malformed] = whole[k]
                  /\ st.sent[k].line = FirstLine(whole[k])

\* A script written as statements, each behind its delimiter, is read as these statements.
ReadsStatements ==
    over /\ input.wrote # None =>
        [k \in DOMAIN st.sent |-> st.sent[k].sql] = input.wrote

\* A comment after an operator sign is part of the operator to the editor, and the second of two
\* dollars in a name may begin a quotation to the scanner.
Unlike(t) ==
    \E i \in t.from .. t.to - 2 :
        \/ t.type = "operator" /\ i > t.from /\ text[i] \in {"-", "/"} /\ text[i + 1] \in {"-", "*"}
        \/ t.type = "identifier" /\ text[i] = "$" /\ text[i + 1] = "$"

\* What starts a statement: a sign that could begin a comment does not.
Starts(t) ==
    /\ t.type \notin {"whitespace", "comment", "block", "punctuation"}
    /\ t.type = "operator" => Cell(text, t.from) \notin {"-", "/"}

\* The scanner ends statements where the tokens of the editor do, and leaves the last one open like them.
AgreesWith(all, mode) ==
    LET ends == {0} \cup {t.from : t \in {u \in all : u.type = "punctuation"}}
        last == Len(text) + 1
        before(e) == CHOOSE p \in ends \cup {0} : p < e /\ \A q \in ends : q <= p \/ q >= e
        full(e) == \E t \in all : Starts(t) /\ before(e) < t.from /\ t.from < e
    IN  /\ {st.sent[k].end : k \in DOMAIN st.sent} =
              {e \in ends \ {0} : full(e)} \cup (IF full(last) THEN {Len(text)} ELSE {})
        /\ \A k \in DOMAIN st.sent :
              st.sent[k].malformed <=> full(last) /\ k = Len(st.sent) /\ mode # "code"

\* The editor and the scanner agree where statements end, and whether the last one is closed.
EditorAgrees ==
    over /\ input.wrote = None =>
        \A l \in {Tokenize(text)} : \A all \in {{l.tokens[k] : k \in DOMAIN l.tokens}} :
            (\A t \in all : ~Unlike(t)) => AgreesWith(all, l.state.mode)
=============================================================================
