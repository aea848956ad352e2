----------------------------- MODULE TableDesign -----------------------------
(* The designer of a table: the model of the table one edits, the statements      *)
(* that turn the server's table into it (db-admin/src/tableDesign.ts), and their    *)
(* way to the server and back (ui/src/dbstudio/admin/TableDesigner.tsx).            *)
(*                                                                              *)
(* The server is external, and takes a statement when what it names is there,      *)
(* what it makes is not, and no key needs what it drops.  What a column is, but    *)
(* for its name and comment, is one value; so is what a key is, but for its        *)
(* columns and name.  An automatic name is a sequence of what it is made of.       *)
(* Left out: generated columns, automatic increment, referenced tables, the        *)
(* order of columns, tables that are created, checks that name columns.            *)
EXTENDS Naturals, Sequences, FiniteSets

CONSTANTS
    Plans,     \* records of mysql, table, edits and uses (below)
    Names,     \* names columns are given
    None       \* no value

\* What the constants must satisfy.
TableDesignAssumption ==
    \A p \in Plans : p.mysql \in BOOLEAN /\ p.edits \in Nat /\ p.uses \in Nat

VARIABLES
    plan,      \* who the server is, the first table; how many edits and uses are looked at
    table,     \* the table of the server
    tab,       \* the tab: name, dirty, and the design saved in its state
    comp,      \* the component: the design it shows and what that is from, the name its load()
               \* reads, and whether it applies
    loads,     \* reads of the server under way: the name, and whether the component still waits
    jobs,      \* what is being applied: the statements left, and the new name
    meant,     \* ids of the columns the primary key and each key of the design are meant to have
    merged,    \* a column has had the name of another, or one that keys had of a column removed
    stale,     \* the table may have changed since it was read, unknown to the component
    edits, uses

vars == <<plan, table, tab, comp, loads, jobs, meant, merged, stale, edits, uses>>

Mysql == plan.mysql

Elements(s) == {s[i] : i \in DOMAIN s}
NoneTwice(s) == Cardinality(Elements(s)) = Len(s)
Mapped(s, Op(_)) == [i \in DOMAIN s |-> Op(s[i])]
Flattened(parts) == LET f[i \in 0 .. Len(parts)] == IF i = 0 THEN <<>> ELSE f[i - 1] \o parts[i]
                    IN  f[Len(parts)]
\* The elements that meet a test, each turned into the elements Op gives.
Gathered(s, Op(_)) == Flattened(Mapped(s, Op))
Only(test, element) == IF test THEN <<element>> ELSE <<>>

----------------------------------------------------------------------------
(* Designs.  A key is a foreign key, a unique constraint, a check or an index.    *)

NamesOf(design) == {c.name : c \in Elements(design.columns)}
OfKind(design, kind) == SelectSeq(design.keys, LAMBDA k : k.kind = kind)

Ordinal == <<"1", "2", "3", "4">>

\* foreignKeyName(), uniqueName(), checkName(): the keys of a kind, with the names they get.
Named(design, kind) ==
    LET all == OfKind(design, kind) IN
    [i \in DOMAIN all |->
        [all[i] EXCEPT !.name = IF @ # <<>> THEN @
                                ELSE <<kind, design.name>> \o
                                     (IF kind = "check" THEN <<Ordinal[i]>> ELSE all[i].columns)]]

\* validateDesign(): there are no problems.
Valid(design) ==
    /\ design.name # "" /\ design.columns # <<>> /\ "" \notin NamesOf(design)
    /\ Cardinality(NamesOf(design)) = Len(design.columns)
    /\ Elements(design.primary) \subseteq NamesOf(design)
    /\ \A k \in Elements(design.keys) :
          /\ Elements(k.columns) \subseteq NamesOf(design)
          /\ k.kind # "check" => k.columns # <<>>

\* designFromMetadata().
DesignOf(t) ==
    [name |-> t.name, primary |-> t.primary, keys |-> t.keys,
     columns |-> [i \in DOMAIN t.columns |->
         [id |-> t.columns[i].name, name |-> t.columns[i].name,
          type |-> t.columns[i].type, comment |-> t.columns[i].comment]]]

----------------------------------------------------------------------------
(* alterTableSql().                                                              *)

ById(design, id) == {c \in Elements(design.columns) : c.id = id}

\* current(): a name from before, as it is after the column renames.
Current(before, after, name) ==
    LET now == {c \in Elements(after.columns) :
                    c.name # name /\ \E o \in ById(before, c.id) : o.name = name}
    IN  IF now = {} THEN name ELSE (CHOOSE c \in now : TRUE).name

Moved(before, after, names) == Mapped(names, LAMBDA n : Current(before, after, n))

\* sameForeignKey(), sameIndex(), and the comparisons of the others.
Same(before, after, old, new) ==
    new.form = old.form /\ new.columns = Moved(before, after, old.columns)

WithName(keys, name) ==
    LET all == SelectSeq(keys, LAMBDA k : k.name = name) IN IF all = <<>> THEN None ELSE all[1]

Drop(before, after, kind) ==
    Gathered(Named(before, kind), LAMBDA old :
        LET kept == WithName(Named(after, kind), old.name) IN
        Only(kept = None \/ ~Same(before, after, old, kept),
             [do |-> "drop key", table |-> before.name, kind |-> kind, name |-> old.name]))

Add(before, after, kind) ==
    Gathered(Named(after, kind), LAMBDA new :
        LET old == WithName(Named(before, kind), new.name) IN
        Only(old = None \/ ~Same(before, after, old, new),
             [do |-> "add key", table |-> IF kind = "index" THEN after.name ELSE before.name,
              key |-> new]))

PrimaryStays(before, after) == Moved(before, after, before.primary) = after.primary

\* The statements that change a column which is in both designs.
Change(before, old, new) ==
    LET to(what) == [do |-> what, table |-> before.name, old |-> old.name, new |-> new] IN
    IF Mysql THEN Only([new EXCEPT !.id = old.id] # old, to("change"))
    ELSE Only(old.name # new.name, to("rename")) \o Only(old.type # new.type, to("retype"))

\* Variant: what is dropped and added again comes back before the columns are there.
AlterEarly(before, after) ==
    LET was(c) == CHOOSE o \in ById(before, c.id) : TRUE
        isNew(c) == ById(before, c.id) = {}
        of(what, c) == [do |-> what, table |-> before.name, new |-> c]
    IN  Drop(before, after, "foreign") \o Drop(before, after, "unique")
        \o Drop(before, after, "check") \o Drop(before, after, "index")
        \o Add(before, after, "unique") \o Add(before, after, "check")
        \o Add(before, after, "foreign") \o Add(before, after, "index")
        \o Gathered(before.columns, LAMBDA c : Only(ById(after, c.id) = {}, of("drop column", c)))
        \o Gathered(after.columns, LAMBDA c : IF isNew(c) THEN <<>> ELSE Change(before, was(c), c))
        \o Gathered(after.columns, LAMBDA c : Only(isNew(c), of("add column", c)))

Alter(before, after) ==
    LET was(c) == CHOOSE o \in ById(before, c.id) : TRUE
        isNew(c) == ById(before, c.id) = {}
        isGone(c) == ById(after, c.id) = {}
        of(what, c) == [do |-> what, table |-> before.name, new |-> c]
    IN  Drop(before, after, "foreign") \o Drop(before, after, "unique")
        \o Drop(before, after, "check") \o Drop(before, after, "index")
        \o Only(before.primary # <<>> /\ ~PrimaryStays(before, after),
                [do |-> "drop primary", table |-> before.name])
        \o Gathered(before.columns, LAMBDA c : Only(isGone(c), of("drop column", c)))
        \o Gathered(after.columns, LAMBDA c : IF isNew(c) THEN <<>> ELSE Change(before, was(c), c))
        \o Gathered(after.columns, LAMBDA c : Only(isNew(c), of("add column", c)))
        \o Only(after.primary # <<>> /\ ~PrimaryStays(before, after),
                [do |-> "add primary", table |-> before.name, columns |-> after.primary])
        \o Add(before, after, "unique") \o Add(before, after, "check")
        \o Add(before, after, "foreign") \o Add(before, after, "index")
        \o Gathered(after.columns, LAMBDA c :
              Only(~Mysql /\ ~isNew(c) /\ was(c).comment # c.comment, of("comment", c)))
        \o Only(before.name # after.name,
                [do |-> "rename table", table |-> before.name, name |-> after.name])

----------------------------------------------------------------------------
(* The server.  A column has the data of the column of the first table it was.    *)

Column(t, name) == CHOOSE c \in Elements(t.columns) : c.name = name
Used(t, name) == name \in Elements(t.primary) \/ \E k \in Elements(t.keys) : name \in Elements(k.columns)
KeyNamed(t, kind, name) == \E k \in Elements(t.keys) : k.kind = kind /\ k.name = name

\* A statement is taken.
Takes(t, s) ==
    /\ s.table = t.name
    /\ CASE s.do = "drop key" -> KeyNamed(t, s.kind, s.name)
         [] s.do = "add key" -> /\ Elements(s.key.columns) \subseteq NamesOf(t) /\ NoneTwice(s.key.columns)
                                /\ \A k \in Elements(t.keys) : k.name # s.key.name
         [] s.do = "drop primary" -> t.primary # <<>>
         [] s.do = "add primary" -> t.primary = <<>> /\ Elements(s.columns) \subseteq NamesOf(t)
         [] s.do = "drop column" -> s.new.name \in NamesOf(t) /\ ~Used(t, s.new.name)
         [] s.do \in {"change", "rename"} ->
                s.old \in NamesOf(t) /\ s.new.name \notin NamesOf(t) \ {s.old}
         [] s.do \in {"retype", "comment"} -> s.new.name \in NamesOf(t)
         [] s.do = "add column" -> s.new.name \notin NamesOf(t)
         [] s.do = "rename table" -> TRUE

\* A column gets another name, and so it does in the keys; and it gets a type and a comment.
Rechanged(t, old, new, type, comment) ==
    LET name(n) == IF n = old THEN new ELSE n IN
    [t EXCEPT !.columns = Mapped(@, LAMBDA c :
                  IF c.name = old THEN [c EXCEPT !.name = new, !.type = type, !.comment = comment] ELSE c),
              !.primary = Mapped(@, name),
              !.keys = Mapped(@, LAMBDA k : [k EXCEPT !.columns = Mapped(@, name)])]

\* What is made of the table.
Made(t, s) ==
    CASE s.do = "drop key" -> [t EXCEPT !.keys = SelectSeq(@, LAMBDA k : k.kind # s.kind \/ k.name # s.name)]
      [] s.do = "add key" -> [t EXCEPT !.keys = Append(@, s.key)]
      [] s.do = "drop primary" -> [t EXCEPT !.primary = <<>>]
      [] s.do = "add primary" -> [t EXCEPT !.primary = s.columns]
      [] s.do = "drop column" -> [t EXCEPT !.columns = SelectSeq(@, LAMBDA c : c.name # s.new.name)]
      [] s.do = "change" -> Rechanged(t, s.old, s.new.name, s.new.type, s.new.comment)
      [] s.do = "rename" ->
             Rechanged(t, s.old, s.new.name, Column(t, s.old).type, Column(t, s.old).comment)
      [] s.do = "retype" -> Rechanged(t, s.new.name, s.new.name, s.new.type, Column(t, s.new.name).comment)
      [] s.do = "comment" -> Rechanged(t, s.new.name, s.new.name, Column(t, s.new.name).type, s.new.comment)
      [] s.do = "add column" ->
             [t EXCEPT !.columns = Append(@, [name |-> s.new.name, type |-> s.new.type, data |-> None,
                                             comment |-> IF Mysql THEN s.new.comment ELSE ""])]
      [] s.do = "rename table" -> [t EXCEPT !.name = s.name]

\* execute(): statement by statement, until one is refused.
Executed(t, statements) ==
    LET f[i \in 0 .. Len(statements)] ==
            IF i = 0 THEN [table |-> t, refused |-> FALSE]
            ELSE LET p == f[i - 1] IN
                 IF p.refused \/ ~Takes(p.table, statements[i]) THEN [p EXCEPT !.refused = TRUE]
                 ELSE [p EXCEPT !.table = Made(@, statements[i])]
    IN  f[Len(statements)]

----------------------------------------------------------------------------
(* Edits.                                                                        *)

Shown == comp.on
Edited == comp.on.design
Unchanged(on) == on.design = on.original

\* commit(), of a component that is shown or has gone.
Saved(on) == [tab EXCEPT !.saved = on, !.dirty = ~Unchanged(on)]

IdsOf(names, design) == Mapped(names, LAMBDA n : (CHOOSE c \in Elements(design.columns) : c.name = n).id)
MeantBy(design) ==
    [primary |-> IdsOf(design.primary, design),
     keys |-> Mapped(design.keys, LAMBDA k : IdsOf(k.columns, design))]

\* edit(): the design becomes another, whose keys are meant to have these columns.
Edit(design, intent) ==
    /\ Shown # None /\ edits < plan.edits
    /\ edits' = edits + 1
    /\ comp' = [comp EXCEPT !.on.design = design]
    /\ tab' = Saved(comp'.on)
    /\ meant' = intent
    /\ merged' = (merged \/ Cardinality(NamesOf(design)) # Len(design.columns)
                         \/ (UNION {Elements(k.columns) : k \in Elements(Edited.keys)} \ NamesOf(Edited))
                                \cap NamesOf(design) # {})
    /\ UNCHANGED <<plan, table, loads, jobs, stale, uses>>

\* Variant: the keys do not follow.
FollowedNot(design, old, new) == [design EXCEPT !.primary = Mapped(@, LAMBDA n : IF n = old THEN new ELSE n)]

\* "Keys follow a renamed column."
Followed(design, old, new) ==
    LET name(n) == IF n = old THEN new ELSE n IN
    [design EXCEPT !.primary = Mapped(@, name),
                   !.keys = Mapped(@, LAMBDA k : [k EXCEPT !.columns = Mapped(@, name)])]

\* updateColumn().
RenameColumn(i, name) ==
    LET old == Edited.columns[i].name IN
    /\ name # old
    /\ Edit(Followed([Edited EXCEPT !.columns[i].name = name], old, name), meant)

RetypeColumn(i) ==
    Edit([Edited EXCEPT !.columns[i].type = IF @ = "int" THEN "text" ELSE "int"], meant)

CommentColumn(i) ==
    Edit([Edited EXCEPT !.columns[i].comment = IF @ = "" THEN "words" ELSE ""], meant)

AddColumn ==
    Edit([Edited EXCEPT !.columns = Append(@, [id |-> Ordinal[edits + 1], name |-> "", type |-> "text",
                                               comment |-> ""])], meant)

\* "Keys never name a column that is gone": the primary key does not.
RemoveColumn(i) ==
    LET c == Edited.columns[i]
        rest == SelectSeq(Edited.columns, LAMBDA d : d.id # c.id)
        names == {d.name : d \in Elements(rest)}
    IN  Edit([Edited EXCEPT !.columns = rest, !.primary = SelectSeq(@, LAMBDA n : n \in names)],
             [meant EXCEPT !.primary = SelectSeq(@, LAMBDA id : id # c.id)])

TogglePrimary(i) ==
    LET c == Edited.columns[i]
        on == c.name \in Elements(Edited.primary)
        without(s, one) == SelectSeq(s, LAMBDA n : n # one)
    IN  Edit([Edited EXCEPT !.primary = IF on THEN without(@, c.name) ELSE Append(@, c.name)],
             [meant EXCEPT !.primary = IF on THEN without(@, c.id) ELSE Append(@, c.id)])

NewKey(kind, name, columns) == [kind |-> kind, name |-> name, columns |-> columns, form |-> "plain"]

\* The keys for which a test holds, and what they are meant to have.
Keys(Test(_)) ==
    LET f[i \in 0 .. Len(Edited.keys)] ==
            IF i = 0 THEN [keys |-> <<>>, meant |-> <<>>]
            ELSE IF Test(i) THEN [keys |-> Append(f[i - 1].keys, Edited.keys[i]),
                                  meant |-> Append(f[i - 1].meant, meant.keys[i])]
            ELSE f[i - 1]
    IN  f[Len(Edited.keys)]

\* The box of a column that says it is unique.
ToggleUnique(i) ==
    LET c == Edited.columns[i]
        own(k) == Edited.keys[k].kind = "unique" /\ Edited.keys[k].columns = <<c.name>>
        rest == Keys(LAMBDA k : ~own(k))
    IN  /\ c.name # ""
        /\ IF \E k \in DOMAIN Edited.keys : own(k)
           THEN Edit([Edited EXCEPT !.keys = rest.keys], [meant EXCEPT !.keys = rest.meant])
           ELSE Edit([Edited EXCEPT !.keys = Append(@, NewKey("unique", <<>>, <<c.name>>))],
                     [meant EXCEPT !.keys = Append(@, <<c.id>>)])

\* A new index gets a name that counts.
AddIndex ==
    LET n == Len(OfKind(Edited, "index")) + 1 IN
    Edit([Edited EXCEPT !.keys = Append(@, NewKey("index", <<"index", Edited.name, Ordinal[n]>>, <<>>))],
         [meant EXCEPT !.keys = Append(@, <<>>)])

\* ColumnPicker: the columns a key does not have yet.
PickColumn(k, i) ==
    /\ Edited.keys[k].kind # "check"
    /\ Edited.columns[i].name \notin Elements(Edited.keys[k].columns) \cup {""}
    /\ Edit([Edited EXCEPT !.keys[k].columns = Append(@, Edited.columns[i].name)],
            [meant EXCEPT !.keys[k] = Append(@, Edited.columns[i].id)])

RemoveKey(k) ==
    LET rest == Keys(LAMBDA j : j # k) IN
    Edit([Edited EXCEPT !.keys = rest.keys], [meant EXCEPT !.keys = rest.meant])

RenameTable(name) == name # Edited.name /\ Edit([Edited EXCEPT !.name = name], meant)

EditSomething ==
    /\ Shown # None
    /\ \/ \E i \in DOMAIN Edited.columns :
             \/ \E name \in Names : RenameColumn(i, name)
             \/ RetypeColumn(i) \/ CommentColumn(i) \/ RemoveColumn(i)
             \/ TogglePrimary(i) \/ ToggleUnique(i)
             \/ \E k \in DOMAIN Edited.keys : PickColumn(k, i)
       \/ AddColumn \/ AddIndex \/ RenameTable("renamed")
       \/ \E k \in DOMAIN Edited.keys : RemoveKey(k)

----------------------------------------------------------------------------
(* The way to the server and back.                                               *)

\* What the information schema has of a table of another name: nothing.
Nothing(name) == [name |-> name, columns |-> <<>>, primary |-> <<>>, keys |-> <<>>]

Use == uses < plan.uses /\ uses' = uses + 1

\* Variant: the design goes on being shown.
UnreadNot(c) == c

\* The component has no design: its effect calls load(), with the name it has kept.
Unread(c) == [c EXCEPT !.on = None]
LoadsOf(c) == loads \cup {[name |-> c.reads, mine |-> TRUE]}

\* load() has its answers.  That of a component which has gone still writes to the tab.
Loaded(l) ==
    LET design == DesignOf(IF l.name = table.name THEN table ELSE Nothing(l.name))
        on == [design |-> design, original |-> design]
    IN  /\ loads' = loads \ {l}
        /\ tab' = Saved(on)
        /\ IF l.mine THEN /\ comp' = [comp EXCEPT !.on = on]
                          /\ meant' = MeantBy(design) /\ merged' = FALSE
           ELSE UNCHANGED <<comp, meant, merged>>
        /\ stale' = ((stale /\ ~l.mine) \/ jobs # <<>> \/ l.name # table.name)
        /\ UNCHANGED <<plan, table, jobs, edits, uses>>

\* "Reload from server".
Reload ==
    /\ Use /\ Shown # None /\ ~comp.applying
    /\ comp' = Unread(comp)
    /\ loads' = LoadsOf(comp)
    /\ UNCHANGED <<plan, table, tab, jobs, meant, merged, stale, edits>>

\* Another tab is shown, and this one again: a new component, with what the tab has saved.
Switch ==
    /\ Use
    /\ comp' = [on |-> tab.saved, reads |-> tab.name, applying |-> FALSE]
    /\ LET left == {[l EXCEPT !.mine = FALSE] : l \in loads} IN
       loads' = IF tab.saved = None THEN left \cup {[name |-> tab.name, mine |-> TRUE]} ELSE left
    /\ jobs' = Mapped(jobs, LAMBDA j : [j EXCEPT !.own = FALSE])
    /\ IF tab.saved # None /\ Unchanged(tab.saved)
       THEN meant' = MeantBy(tab.saved.design) /\ merged' = FALSE ELSE UNCHANGED <<meant, merged>>
    /\ UNCHANGED <<plan, table, tab, stale, edits>>

Statements(on) == IF Valid(on.design) THEN Alter(on.original, on.design) ELSE <<>>

\* apply(): the statements there are at that time.
Apply ==
    /\ Use /\ Shown # None /\ ~comp.applying
    /\ Statements(Shown) # <<>>
    /\ jobs' = Append(jobs, [todo |-> Statements(Shown), name |-> Edited.name, some |-> FALSE,
                             own |-> TRUE])
    /\ comp' = [comp EXCEPT !.applying = TRUE]
    /\ stale' = (stale \/ jobs # <<>>)
    /\ UNCHANGED <<plan, table, tab, loads, meant, merged, edits>>

Without(k) == [i \in 1 .. Len(jobs) - 1 |-> IF i < k THEN jobs[i] ELSE jobs[i + 1]]

\* execute(): the server takes the next statement of a job.
Taken(k) ==
    /\ jobs[k].todo # <<>> /\ Takes(table, Head(jobs[k].todo))
    /\ table' = Made(table, Head(jobs[k].todo))
    /\ jobs' = [jobs EXCEPT ![k].todo = Tail(@), ![k].some = TRUE]
    /\ UNCHANGED <<plan, tab, comp, loads, meant, merged, stale, edits, uses>>

\* Or refuses it, also for what is in the table: the job ends, and the design stays.
Refused(k) ==
    /\ jobs[k].todo # <<>>
    /\ IF Takes(table, Head(jobs[k].todo)) THEN Use ELSE UNCHANGED uses
    /\ jobs' = Without(k)
    /\ comp' = [comp EXCEPT !.applying = @ /\ ~jobs[k].own]
    /\ stale' = (stale \/ jobs[k].some)
    /\ UNCHANGED <<plan, table, tab, loads, meant, merged, edits>>

\* All are made: the tab has the new name and no design, and the component reads the table,
\* unless it is not the one that applied it.
Applied(k) ==
    /\ jobs[k].todo = <<>>
    /\ jobs' = Without(k)
    /\ tab' = [name |-> jobs[k].name, dirty |-> FALSE, saved |-> None]
    /\ IF jobs[k].own THEN /\ comp' = [Unread(comp) EXCEPT !.applying = FALSE]
                           /\ loads' = LoadsOf(comp) /\ UNCHANGED stale
       ELSE UNCHANGED <<comp, loads>> /\ stale' = TRUE
    /\ UNCHANGED <<plan, table, meant, merged, edits, uses>>

Init ==
    /\ plan \in Plans
    /\ table = plan.table
    /\ LET on == [design |-> DesignOf(table), original |-> DesignOf(table)] IN
       /\ tab = [name |-> table.name, dirty |-> FALSE, saved |-> on]
       /\ comp = [on |-> on, reads |-> table.name, applying |-> FALSE]
       /\ meant = MeantBy(on.design)
    /\ loads = {} /\ jobs = <<>> /\ merged = FALSE /\ stale = FALSE /\ edits = 0 /\ uses = 0

Next ==
    \/ EditSomething \/ Reload \/ Switch \/ Apply
    \/ \E l \in loads : Loaded(l)
    \/ \E k \in DOMAIN jobs : Taken(k) \/ Refused(k) \/ Applied(k)

Spec == Init /\ [][Next]_vars

----------------------------------------------------------------------------
(* Properties.                                                                   *)

TypeOK ==
    /\ \A k \in DOMAIN jobs : jobs[k].own => comp.applying /\ Shown # None
    /\ Shown # None => /\ Len(meant.keys) = Len(Edited.keys)
                       /\ Cardinality({c.id : c \in Elements(Edited.columns)}) = Len(Edited.columns)
    /\ edits \in 0 .. plan.edits /\ uses \in 0 .. plan.uses

\* What validateDesign() does not look at: the names keys get, and columns named twice in one.
Told(design) ==
    LET all == Named(design, "foreign") \o Named(design, "unique") \o Named(design, "check")
               \o Named(design, "index")
    IN  /\ Cardinality({k.name : k \in Elements(all)}) = Len(all)
        /\ NoneTwice(design.primary)
        /\ \A k \in Elements(all) : k.name # <<>> /\ NoneTwice(k.columns)

\* A column takes the name of one that has it until a later statement.
Crossing(before, after) ==
    \E i, j \in DOMAIN after.columns :
        /\ i < j /\ ById(before, after.columns[i].id) # {}
        /\ \E o \in ById(before, after.columns[j].id) : o.name = after.columns[i].name

\* An index is made under the new name of the table, which it gets afterwards.
Premature(before, after) == before.name # after.name /\ Add(before, after, "index") # <<>>

\* The columns as they should come out: with their data, and on PostgreSQL a new one without
\* its comment.
Columns(t, design) ==
    LET kept(c) == c.id \in NamesOf(t) IN
    {[name |-> c.name, type |-> c.type, comment |-> IF Mysql \/ kept(c) THEN c.comment ELSE "",
      data |-> IF kept(c) THEN Column(t, c.id).data ELSE None] : c \in Elements(design.columns)}

\* The design e is made of: every column has its data, and every key is there.
MakesIt(e) ==
    /\ e.table.name = Edited.name /\ e.table.primary = Edited.primary
    /\ Elements(e.table.columns) = Columns(table, Edited)
    /\ Elements(e.table.keys) = UNION {Elements(Named(Edited, kind)) :
                                         kind \in {"foreign", "unique", "check", "index"}}

\* tableDesign.ts: "The statements that turn before into after. Columns are matched by id, so
\* renaming a column renames it (keeping its data)". Of the table a design was read from it is
\* made whenever the server takes all statements: every column keeps its data, and every key is
\* there, but on PostgreSQL a new column is without its comment. The server takes them all, unless
\* a column gets a name that another gives up in a later statement (a swap, a chain of renames),
\* or an index is made when the table has a new name too (it is made under that, before RENAME):
\* of those the doc's "so the order is valid for the server" is not true. Designs validateDesign()
\* has something to say of are left out, and those it should: keys of one name or without a name,
\* and keys that have a column twice.
DesignIsMade ==
    /\ Shown # None /\ DesignOf(table) = Shown.original /\ Valid(Edited) /\ Told(Edited) /\ ~merged
    => LET e == Executed(table, Alter(Shown.original, Edited)) IN
       /\ ~e.refused => MakesIt(e)
       /\ e.refused => Crossing(Shown.original, Edited) \/ Premature(Shown.original, Edited)

\* TableDesigner.tsx: "Keys follow a renamed column", "Keys never name a column that is gone":
\* through all edits each key stays with its columns, unless a column gets a name that is in use.
KeysFollow ==
    Shown # None /\ ~merged =>
        /\ IdsOf(Edited.primary, Edited) = meant.primary
        /\ \A k \in DOMAIN Edited.keys :
              \A i \in DOMAIN Edited.keys[k].columns :
                  LET now == {c \in Elements(Edited.columns) : c.name = Edited.keys[k].columns[i]}
                  IN  {c.id : c \in now} = {meant.keys[k][i]} \cap {c.id : c \in Elements(Edited.columns)}

\* Once nothing is under way, what the design is said to differ from is the server's table, also
\* after changes that were applied or refused, unless only some of them were made, another component
\* has applied them, or the table was read by the name it had before.
ShownIsServer ==
    Shown # None /\ jobs = <<>> /\ ~stale =>
        Shown.original = DesignOf(table)
=============================================================================
