------------------------------- MODULE MCStudio -------------------------------
(* The texts and designs of the database studio, as TLC checks them: the records  *)
(* of imported files, events and hits (RecordReaders, whose constants the          *)
(* configuration gives), the statements of scripts (SqlScripts), the designer of    *)
(* a table (TableDesign) and the editor of documents (DocumentEdit).  A behaviour   *)
(* is one of one of them, which part names.                                        *)
EXTENDS RecordReaders

Upto(set, n) == UNION {[1 .. k -> set] : k \in 0 .. n}
Read(reader, cells, wrote) == [reader |-> reader, text |-> cells, wrote |-> wrote]
LineEnds == {<<"\n">>, <<"\r", "\n">>}

\* Rows of fields.
Fields == {<<>>, <<"x">>, <<"q">>, <<",", "w">>, <<"\r", "\n">>, <<" ", "x">>, <<"q", "q", "x">>}
Rows == Upto(Fields, 2) \ {<<>>}
Csv == {Read("csv", Joined([i \in DOMAIN rows |-> Line(rows[i], eol)]), rows) :
            rows \in Upto(Rows, 1) \cup {<<a, b>> : a \in Rows, b \in {<<<<"q">>>>, <<<<>>, <<"w">>>>}},
            eol \in LineEnds}
AnyCsv == {Read("csv", cells, None) : cells \in [1 .. 5 -> {",", "q", "\n", "\r", "w"}]}

\* Elements of JSON: jsonFormatter() and ndjsonFormatter(), and others' ways to write the same.
Elements == {<<"x", "x">>, <<"q", "\\", "q", "]", "q">>, <<"{", "[", "]", "}">>, <<"{", "q", "}", "q", "}">>}
Separated(elements, between) ==
    Joined([i \in DOMAIN elements |-> (IF i = 1 THEN <<>> ELSE between) \o elements[i]])
Json ==
    UNION {{Read("array", <<"[", "\n">> \o Separated(e, <<",", "\n">>) \o <<"\n", "]", "\n">>, e),
            Read("array", <<"[">> \o Separated(e, <<",">>) \o <<"]">>, e),
            Read("sequence", Separated(e, <<"\n">>), e), Read("sequence", Separated(e, <<" ">>), e)}
           : e \in Upto(Elements, 2)}
JsonLines ==
    {Read("jsonl", Joined([i \in DOMAIN e |-> blank \o e[i] \o eol]), e) :
        e \in Upto(Elements, 2), blank \in {<<>>, <<"\n">>, <<" ", "\n">>}, eol \in LineEnds}

Bson == {Read("bson", Joined(d), d) : d \in Upto({<<"2", "0">>, <<"3", "0", "x">>, <<"5", "0", "2", "0", "3">>}, 3)}

Event(event, id, data) == [event |-> event, id |-> id, data |-> data]
Events == {Event(<<>>, None, <<<<"x">>>>), Event(<<"x">>, <<>>, <<<<>>, <<"y">>>>),
           Event(<<>>, <<"y">>, <<<<":">>>>)}
Streams == {Read("events", Serialized(e, eol), e) : e \in Upto(Events, 2), eol \in LineEnds \cup {<<"\r">>}}

Needles == {[needle |-> <<"a">>, whole |-> TRUE], [needle |-> <<"a", "a">>, whole |-> FALSE],
            [needle |-> <<"a", " ", "a">>, whole |-> TRUE]}
Searches ==
    {[reader |-> r, text |-> cells, wrote |-> None, needle |-> n.needle, whole |-> n.whole] :
        r \in Search, cells \in [1 .. 6 -> {"a", " ", "\n"}], n \in Needles}

MCInputs == <<Csv, AnyCsv, Json, JsonLines, Bson, Streams, Searches>>

\* Scripts of up to four fragments, and scripts as they are written, with other delimiters between.
MyFragments == {<<"x">>, <<"'">>, <<"\\">>, <<"-", "-">>, <<" ">>, <<"/", "*">>, <<"*", "/">>, <<";">>,
                <<"\n">>, <<"#">>, <<"^">>}
PgFragments == {<<"x">>, <<"E", "'">>, <<"'">>, <<"\\">>, <<"-", "-">>, <<"/", "*">>, <<"*", "/">>, <<";">>,
                <<"\n">>, <<"$", "$">>, <<"$", "x", "$">>, <<"\"">>}
Any(dialect, fragments) ==
    {[dialect |-> dialect, text |-> Joined(p), wrote |-> None] : p \in Upto(fragments, 4)}

Plain == {<<"x">>, <<"x", " ", "'", ";", "'">>, <<"-", "-", " ", ";", "\n", "x">>}
Inner == {<<"x">>, <<"x", ";", "x">>, <<"x", "'", ";", "/", "/", "'">>, <<"-", "-", " ", ";", "\n", "x">>}
WrittenScripts ==
    {[dialect |-> "mysql", wrote |-> <<a, b, c>>,
      text |-> Joined(<<a, <<";", "\n", "D", " ">>, d, <<"\n">>, b, d, <<"\n", "D", " ", ";", "\n">>, c, e>>)]
     : a \in Plain, b \in Inner, c \in Plain,
       d \in {<<"/", "/">>, <<"$", "$">>, <<";", ";">>}, e \in {<<>>, <<";">>, <<";", "\n">>}}

MCScripts == <<Any("mysql", MyFragments), Any("postgresql", PgFragments), WrittenScripts>>

\* Tables of two columns, with keys of every kind.
ColumnOf(name, data) == [name |-> name, type |-> "int", comment |-> "", data |-> data]
KeyOf(kind, name, columns) == [kind |-> kind, name |-> <<name>>, columns |-> columns, form |-> "plain"]
TableOf(primary, keys) ==
    [name |-> "t", columns |-> <<ColumnOf("a", "A"), ColumnOf("b", "B")>>, primary |-> primary, keys |-> keys]

Indexed == TableOf(<<"a">>, <<KeyOf("unique", "u", <<"b">>), KeyOf("index", "i", <<"b", "a">>)>>)
Referring == TableOf(<<"a", "b">>, <<KeyOf("foreign", "f", <<"b">>), KeyOf("check", "c", <<>>)>>)
Simple == TableOf(<<"a">>, <<KeyOf("unique", "u", <<"b">>)>>)

\* What is edited far, and what is edited, applied, reloaded and left.
DesignPlan(tables, edited, used) ==
    [mysql : BOOLEAN, table : tables, edits : {edited}, uses : {used}]
MCPlans == DesignPlan({Indexed, Referring}, 3, 0) \cup DesignPlan({Simple}, 1, 3)
           \cup DesignPlan({Simple}, 2, 2)

\* A collection of two documents; edits, saves, changes of others and clicks.
ValueOf(v) == [t |-> "value", v |-> v]
MCFirst ==
    {<<[id |-> 1, e |-> [a |-> ValueOf(1), b |-> [t |-> "object", e |-> [a |-> ValueOf(1)]]]],
       [id |-> 2, e |-> [b |-> ValueOf(2)]]>>}
EditPlan(edited, saved, changed, clicks) ==
    [edits |-> edited, saves |-> saved, others |-> changed, uses |-> clicks]
MCEditPlans == {EditPlan(2, 1, 1, 0), EditPlan(1, 1, 1, 2), EditPlan(1, 2, 0, 1)}

\* A behaviour is one of one part, which part names; what a part does not need stays 0.
VARIABLES part, plan, table, tab, comp, loads, jobs, meant, merged, stale, edits, uses,
          asking, saves, others

Script == INSTANCE SqlScripts WITH Scripts <- MCScripts, Chunks <- {1, 3}
Design == INSTANCE TableDesign WITH Plans <- MCPlans, Names <- {"a", "b", "x"}
Document == INSTANCE DocumentEdit WITH
    First <- MCFirst, Keys <- {"a", "b"}, Values <- {1, 2}, Plans <- MCEditPlans,
    server <- table, docs <- tab, selected <- comp, inserting <- loads, draft <- meant,
    loading <- merged, saving <- stale

reading == <<input, fed, st, over>>
asked == <<asking, saves, others>>
designing == <<plan, table, tab, comp, loads, jobs, meant, merged, stale, edits, uses, asked>>

ASSUME Script!ScriptsAssumption /\ Design!TableDesignAssumption /\ Document!DocumentEditAssumption

NotReading == input = 0 /\ fed = 0 /\ st = 0 /\ over = 0
NothingAsked == asking = 0 /\ saves = 0 /\ others = 0
NotDesigning == /\ NothingAsked /\ plan = 0 /\ table = 0 /\ tab = 0 /\ comp = 0 /\ loads = 0 /\ jobs = 0
                /\ meant = 0 /\ merged = 0 /\ stale = 0 /\ edits = 0 /\ uses = 0

Begins ==
    \/ part = "records" /\ Init /\ NotDesigning
    \/ part = "scripts" /\ Script!Init /\ NotDesigning
    \/ part = "design" /\ Design!Init /\ NotReading /\ NothingAsked
    \/ part = "document" /\ Document!Init /\ NotReading

Steps ==
    /\ UNCHANGED part
    /\ \/ part = "records" /\ Next /\ UNCHANGED designing
       \/ part = "scripts" /\ Script!Next /\ UNCHANGED designing
       \/ part = "design" /\ Design!Next /\ UNCHANGED <<reading, asked>>
       \/ part = "document" /\ Document!Next /\ UNCHANGED reading

Studio == Begins /\ [][Steps]_<<part, reading, designing>>

\* Each part's variables are of their types.
TypesOK ==
    /\ part = "records" => TypeOK
    /\ part = "scripts" => Script!TypeOK
    /\ part = "design" => Design!TypeOK
    /\ part = "document" => Document!TypeOK

\* What has been written is read: every record of a file, event of a stream and statement of a
\* script, once, whole and in order, wherever the pieces are cut.
WrittenIsRead ==
    /\ part = "records" => ReadsWhatWasWritten
    /\ part = "scripts" => Script!ReadsStatements

\* Who reads the same text another way finds the same in it: a search in one piece, an import that
\* resumes behind any record, a script that is split at once, and the editor; but for the numbers of
\* the lines of some resumed imports (LineUnsure) and for texts the server's rules and the
\* editor's lexer part on (Unlike).
ReadTheSame ==
    /\ part = "records" => FindsEveryMatch /\ ResumesAnywhere
    /\ part = "scripts" => Script!CutAnywhere /\ Script!EditorAgrees

\* The statements made of an edited design make it, with the data, if all are taken, and all are but
\* for swaps and chains of column renames and for an index that is made beside a new name of the
\* table (DesignIsMade, which names what else is left out); keys follow their columns through all
\* edits; and a design is compared with what the server has.
DesignIsTrue ==
    part = "design" => Design!DesignIsMade /\ Design!KeysFollow /\ Design!ShownIsServer

\* A saved document has what was edited, and otherwise what other programs have made of it; and
\* the fields of a document are never written to another.
DocumentIsKept ==
    /\ [](part = "document" => Document!SameDocument)
    /\ [][part = "document" => Document!KeptTheRest]_<<part, designing>>
=============================================================================
