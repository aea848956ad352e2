------------------------------ MODULE TableRows ------------------------------
(* Writing the changes staged in the grid of a table                           *)
(* (packages/ui/src/dbstudio/admin/TableBrowser.tsx, tableChanges.ts), one      *)
(* statement after another (packages/ui/src/dbstudio/db/dbOps.ts), on the one   *)
(* session of the connection, which a query tab uses too                        *)
(* (packages/ui/src/dbstudio/db/useDbManager.ts, transaction()) and which is     *)
(* made again when it drops.  Keys stay as they were read; a row is its value.   *)
(* The server's transactions are external: MySQL's BEGIN commits the one that    *)
(* is open, PostgreSQL's leaves it open and refuses everything after an error    *)
(* until the end of it.                                                         *)
EXTENDS Naturals, Sequences, SequencesExt

CONSTANTS
    Rows,       \* rows of the page that was read, numbered
    Stagings,   \* choices of what is staged: functions from some of the rows to Change
    MaxFaults,  \* bound: statements the server refuses
    MaxDrops,   \* bound: times the connection drops
    MaxUses     \* bound: what the query tab does

\* An edit of a row, its deletion, and a row inserted (whose place is free).
Change == {"edit", "delete", "insert"}
Wanted == [edit |-> "mine", delete |-> "none", insert |-> "mine"]

\* Assumed of the constants.
TableRowsAssumption ==
    /\ Rows \subseteq Nat \ {0}
    /\ \A f \in Stagings : DOMAIN f \subseteq Rows /\ \A r \in DOMAIN f : f[r] \in Change
    /\ {MaxFaults, MaxDrops, MaxUses} \subseteq Nat

Theirs == 0     \* what the query tab writes: a row of another table
Places == Rows \cup {Theirs}

VARIABLES
    engine,     \* mysql, postgresql
    staged,     \* the changes staged
    table,      \* what is committed
    work,       \* what the session sees: its transaction's, or what is committed
    tx,         \* who opened the transaction of the session: none, grid, tab
    broken,     \* PostgreSQL: an error was met in it
    left,       \* the statements apply() has still to run
    wrap,       \* whether it runs them in a transaction of its own
    told,       \* what the grid said: no, written, nothing, some
    flag,       \* the query tab's inTransaction
    open,       \* whether the query tab is open
    write,      \* its write: no, pending (in its transaction), done (as far as it was told)
    before,     \* what was committed, and seen, when apply() began
    used,       \* how often the server refused, the connection dropped, the query tab did something
    missed,     \* history: rows another program had deleted when their edit was written
    severed,    \* history: the connection dropped in a transaction
    beside      \* history: the tab was at work while the grid was, or the grid in its transaction

vars == <<engine, staged, table, work, tx, broken, left, wrap, told, flag, open, write, before, used,
          missed, severed, beside>>

server == <<table, work, tx, broken>>
noted == <<missed, severed, beside>>

Init ==
    /\ engine \in {"mysql", "postgresql"}
    /\ staged \in Stagings
    /\ table = [p \in Places |-> IF p \in DOMAIN staged /\ staged[p] = "insert" THEN "none" ELSE "old"]
    /\ work = table /\ before = table
    /\ tx = "none" /\ broken = FALSE
    /\ left = <<>> /\ wrap = FALSE /\ told = "no"
    /\ flag = FALSE /\ open = TRUE /\ write = "no"
    /\ used = [faults |-> 0, drops |-> 0, uses |-> 0]
    /\ missed = {} /\ severed = FALSE /\ beside = FALSE

(* ------------------------- the server (external) --------------------------- *)

\* The session sees now, which is committed when it is in no transaction.
Sees(now) ==
    /\ work' = now
    /\ table' = IF tx = "none" THEN now ELSE table
    /\ UNCHANGED <<tx, broken>>

Begins(who) ==
    IF engine = "mysql" \/ tx = "none"
    THEN table' = work /\ tx' = who /\ UNCHANGED <<work, broken>>
    ELSE UNCHANGED server
Commits ==
    /\ table' = IF broken THEN table ELSE work
    /\ work' = table'
    /\ tx' = "none" /\ broken' = FALSE
RollsBack == work' = table /\ table' = table /\ tx' = "none" /\ broken' = FALSE

\* A statement is refused, and with PostgreSQL its transaction is good for nothing any more.
Refuses ==
    /\ broken' = (broken \/ (engine = "postgresql" /\ tx # "none"))
    /\ UNCHANGED <<table, work, tx>>

(* -------------------------------- the grid --------------------------------- *)

Statement(do, at) == [do |-> do, at |-> at]

\* buildChangeStatements(): edits, then deletions, then insertions, in the order of the rows.
Having(change) == {r \in DOMAIN staged : staged[r] = change}
Statements ==
    LET Each(change) == [n \in 1 .. Len(SetToSortSeq(Having(change), <)) |->
                             Statement(change, SetToSortSeq(Having(change), <)[n])]
    IN Each("edit") \o Each("delete") \o Each("insert")

\* Variant: what the query tabs do is not looked at.
WrappedAnyway(statements, busy) == Len(statements) > 1

\* apply(): in a transaction, unless there is one statement only or a query tab is known to have one.
Wrapped(statements, busy) == Len(statements) > 1 /\ ~busy

Apply ==
    /\ told = "no" /\ left = <<>> /\ staged # <<>>
    /\ wrap' = Wrapped(Statements, open /\ flag)
    /\ left' = IF wrap' THEN <<Statement("begin", 0)>> \o Statements \o <<Statement("commit", 0)>>
                        ELSE Statements
    /\ before' = table
    /\ UNCHANGED <<engine, staged, server, told, flag, open, write, used, noted>>

\* What a statement of the grid does.  A row that is gone is not found, which is no error.
Runs(s) ==
    CASE s.do = "begin" -> Begins("grid")
      [] s.do = "commit" -> Commits
      [] s.do = "rollback" -> RollsBack
      [] s.do = "insert" -> Sees([work EXCEPT ![s.at] = "mine"])
      [] OTHER -> Sees([work EXCEPT ![s.at] = IF @ = "none" THEN @ ELSE Wanted[s.do]])

\* A statement is done.  When it was the last one the grid says that all is written, or, after an
\* error, that nothing was.
Says(after) ==
    IF after # <<>> THEN UNCHANGED told
    ELSE told' = IF Head(left).do = "rollback" THEN "nothing" ELSE "written"
Done ==
    /\ left # <<>> /\ ~(broken /\ Head(left).do \notin {"commit", "rollback"})
    /\ Runs(Head(left))
    /\ left' = Tail(left)
    /\ Says(Tail(left))
    /\ missed' = IF Head(left).do = "edit" /\ work[Head(left).at] = "none"
                 THEN missed \cup {Head(left).at} ELSE missed
    /\ beside' = (beside \/ (tx = "tab" /\ Head(left).do \in Change))
    /\ UNCHANGED <<engine, staged, wrap, flag, open, write, before, used, severed>>

\* Variant: the transaction is left as it is.
FailedAndLeft == left' = <<>> /\ told' = IF wrap THEN "nothing" ELSE "some"

\* A statement failed: the rest is not run, and the transaction rolled back.
Failed ==
    IF Head(left).do = "rollback" THEN left' = <<>> /\ told' = "nothing"
    ELSE IF wrap THEN left' = <<Statement("rollback", 0)>> /\ UNCHANGED told
    ELSE left' = <<>> /\ told' = "some"

Refused ==
    /\ left # <<>> /\ Head(left).do \in Change
    /\ IF broken THEN UNCHANGED used
       ELSE used.faults < MaxFaults /\ used' = [used EXCEPT !.faults = @ + 1]
    /\ Refuses
    /\ Failed
    /\ beside' = (beside \/ tx = "tab")
    /\ UNCHANGED <<engine, staged, wrap, flag, open, write, before, missed, severed>>

(* ------------------------------ the connection ----------------------------- *)

\* The connection drops: what its transaction did is undone, and the next statement finds a new one.
Lost ==
    /\ used.drops < MaxDrops /\ used' = [used EXCEPT !.drops = @ + 1]
    /\ RollsBack
    /\ severed' = (severed \/ tx # "none")

Drops ==
    /\ Lost
    /\ UNCHANGED <<engine, staged, left, wrap, told, flag, open, write, before, missed, beside>>

\* It drops under a statement of the grid, which may have been done.
DropsUnder ==
    /\ left # <<>> /\ Head(left).do \in {"begin", "commit"} \cup Change
    /\ Lost
    /\ Failed
    /\ UNCHANGED <<engine, staged, wrap, flag, open, write, before, missed, beside>>

(* ------------------------------ the query tab ------------------------------ *)

Uses ==
    /\ open /\ used.uses < MaxUses /\ used' = [used EXCEPT !.uses = @ + 1]
    /\ beside' = (beside \/ left # <<>>)
    /\ UNCHANGED <<engine, staged, left, wrap, told, before, missed, severed>>

\* transaction(), begun when the tab knows of none: the flag is the tab's, whatever becomes of it.
TabBegins == Uses /\ ~flag /\ Begins("tab") /\ flag' = TRUE /\ UNCHANGED <<open, write>>
TabEnds ==
    /\ Uses /\ flag
    /\ flag' = FALSE
    /\ \/ Commits /\ write' = IF write = "pending" THEN "done" ELSE write
       \/ RollsBack /\ write' = IF write = "pending" THEN "no" ELSE write
    /\ UNCHANGED open

TabWrites ==
    /\ Uses /\ write = "no" /\ ~broken
    /\ Sees([work EXCEPT ![Theirs] = "theirs"])
    /\ write' = IF flag THEN "pending" ELSE "done"
    /\ UNCHANGED <<flag, open>>

\* The tab is closed, its transaction left open.
TabCloses == Uses /\ open' = FALSE /\ UNCHANGED <<server, flag, write>>

(* ----------------------------- another program ----------------------------- *)

\* Somebody deletes a row the grid shows, before the changes are applied.
OthersDelete(r) ==
    /\ left = <<>> /\ told = "no" /\ tx = "none" /\ table[r] = "old"
    /\ work' = [work EXCEPT ![r] = "none"] /\ table' = [table EXCEPT ![r] = "none"]
    /\ UNCHANGED <<engine, staged, tx, broken, left, wrap, told, flag, open, write, before, used, noted>>

Next ==
    \/ Apply \/ Done \/ Refused \/ Drops \/ DropsUnder
    \/ TabBegins \/ TabEnds \/ TabWrites \/ TabCloses
    \/ \E r \in Rows : OthersDelete(r)

Spec == Init /\ [][Next]_vars

(* ------------------------------- properties -------------------------------- *)

TypeOK ==
    /\ engine \in {"mysql", "postgresql"} /\ staged \in Stagings
    /\ {table, work, before} \subseteq [Places -> {"old", "mine", "none", "theirs"}]
    /\ tx \in {"none", "grid", "tab"} /\ told \in {"no", "written", "nothing", "some"}
    /\ write \in {"no", "pending", "done"}
    /\ missed \subseteq Rows /\ {broken, wrap, flag, open, severed, beside} \subseteq BOOLEAN

\* What the grid says is so when it says it: all that was staged is written, or nothing was, unless
\* the connection dropped or the query tab was at work in the grid's transaction meanwhile, or a
\* row was gone.
SaysWhatIs ==
    told # told' /\ ~severed' /\ ~beside' =>
        /\ told' = "written" => \A r \in DOMAIN staged \ missed' : table'[r] = Wanted[staged[r]]
        /\ told' = "nothing" => \A r \in Rows : {table'[r], work'[r]} = {before[r]}

\* The grid keeps out of the transaction of a tab that is open: what the tab wrote is committed
\* when it was told so, and no sooner.
LeavesTheTab ==
    ~severed /\ ~beside => /\ write = "done" => table[Theirs] = "theirs"
                           /\ open /\ write = "pending" => table[Theirs] = "old"
===============================================================================
