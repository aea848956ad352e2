---------------------------- MODULE MysqlSession ----------------------------
(* A MySQL session (mysql-engine/src/session.ts): statements on the first      *)
(* connection, and a second one for browsing and for the KILL QUERY that       *)
(* cancels a statement.  What runs on one connection is MysqlConnection's.     *)
EXTENDS Integers, Sequences, FiniteSets, Functions

CONSTANTS
    Stmt,       \* the statements, numbered in the order they are given to execute()
    Browse,     \* the metadata queries, each asked once
    Kill,       \* who may be stopped and why, pairs of a statement and a reason
    none

Reason == {"cancel", "timeout"}

\* Assumed of the constants.
SessionAssumption ==
    /\ Stmt \subseteq Nat
    /\ Kill \subseteq Stmt \X Reason
    /\ none \notin Browse \cup Kill /\ Browse \cap Kill = {}

VARIABLES
    stmt,       \* new, running on the server, answered, over
    struck,     \* statements the server interrupted
    wanted,     \* the reasons a statement was to be stopped for
    kill,       \* each kill: none, connecting, sent, gone, refused
    browse,     \* each metadata query: new, queued, connecting, running, done, failed
    turn,       \* auxiliaryTurn, the metadata queries not finished
    second,     \* the second connection: none, connecting, up, dead, closed
    user,       \* the kill or metadata query on the second connection
    closed,     \* this.closed
    hasty       \* history: statements begun while a kill was on its way

session == <<stmt, struck, wanted, kill, browse, turn, second, user, closed>>
vars == <<session, hasty>>

Init ==
    /\ stmt = [k \in Stmt |-> "new"]
    /\ struck = {}
    /\ wanted = [k \in Stmt |-> {}]
    /\ kill = [q \in Kill |-> "none"]
    /\ browse = [b \in Browse |-> "new"]
    /\ turn = <<>>
    /\ second = "none" /\ user = none /\ closed = FALSE
    /\ hasty = {}

(* ------------------------------- statements ------------------------------ *)

\* execute(), which query() refuses beside another statement.
Execute(k) ==
    /\ stmt[k] = "new" /\ ~closed
    /\ \A j \in Stmt : j < k => stmt[j] # "new"
    /\ \A j \in Stmt : stmt[j] \in {"new", "over"}
    /\ stmt' = [stmt EXCEPT ![k] = "running"]
    /\ UNCHANGED <<struck, wanted, kill, browse, turn, second, user, closed>>

ServerEnds(k) ==
    /\ stmt[k] = "running"
    /\ stmt' = [stmt EXCEPT ![k] = "answered"]
    /\ UNCHANGED <<struck, wanted, kill, browse, turn, second, user, closed>>

IterationEnds(k) ==
    /\ stmt[k] = "answered"
    /\ stmt' = [stmt EXCEPT ![k] = "over"]
    /\ UNCHANGED <<struck, wanted, kill, browse, turn, second, user, closed>>

(* -------------------------- the second connection ------------------------ *)

\* second(): connects for the first who needs it.
Opened == IF second = "none" THEN "connecting" ELSE second

\* A query on the second connection, once it is there: refused when it is busy
\* or was lost.
Refused == user # none \/ second # "up"

Ready == second \notin {"none", "connecting"}

\* Variant: the timer of a statement that is over still strikes.
LateTimeout(k) ==
    /\ <<k, "timeout">> \in Kill
    /\ stmt[k] \in {"running", "answered", "over"} /\ kill[<<k, "timeout">>] = "none"
    /\ wanted' = [wanted EXCEPT ![k] = @ \cup {"timeout"}]
    /\ IF closed THEN UNCHANGED <<kill, second>>
       ELSE /\ kill' = [kill EXCEPT ![<<k, "timeout">>] = "connecting"]
            /\ second' = Opened
    /\ UNCHANGED <<stmt, struck, browse, turn, user, closed>>

\* cancel() or the time limit, up to the await of second().
Stopping(k, why) ==
    /\ <<k, why>> \in Kill
    /\ stmt[k] \in {"running", "answered"} /\ kill[<<k, why>>] = "none"
    /\ wanted' = [wanted EXCEPT ![k] = @ \cup {why}]
    /\ IF closed THEN UNCHANGED <<kill, second>>
       ELSE /\ kill' = [kill EXCEPT ![<<k, why>>] = "connecting"]
            /\ second' = Opened
    /\ UNCHANGED <<stmt, struck, browse, turn, user, closed>>

Cancel(k) == Stopping(k, "cancel")
Timeout(k) == Stopping(k, "timeout")

KillGoes(q) ==
    /\ kill[q] = "connecting" /\ Ready
    /\ kill' = [kill EXCEPT ![q] = IF Refused THEN "refused" ELSE "sent"]
    /\ user' = IF Refused THEN user ELSE q
    /\ UNCHANGED <<stmt, struck, wanted, browse, turn, second, closed>>

\* The server stops whatever the first connection runs by now.
KillActs(q) ==
    /\ kill[q] = "sent" /\ user = q
    /\ kill' = [kill EXCEPT ![q] = "gone"]
    /\ user' = none
    /\ LET victims == {k \in Stmt : stmt[k] = "running"} IN
       /\ struck' = struck \cup victims
       /\ stmt' = [k \in Stmt |-> IF k \in victims THEN "answered" ELSE stmt[k]]
    /\ UNCHANGED <<wanted, browse, turn, second, closed>>

\* onSecond(): the query waits for its turn.
Ask(b) ==
    /\ browse[b] = "new" /\ ~closed
    /\ browse' = [browse EXCEPT ![b] = "queued"]
    /\ turn' = Append(turn, b)
    /\ UNCHANGED <<stmt, struck, wanted, kill, second, user, closed>>

\* `this.auxiliaryTurn.then(run, run)`: the turn passes on however it ended.
Passed(b) == Tail(turn)

BrowseEnds(b, how) ==
    /\ browse' = [browse EXCEPT ![b] = how]
    /\ turn' = Passed(b)

HasTurn(b) == Head(turn) = b

BrowseTurn(b) ==
    /\ browse[b] = "queued" /\ HasTurn(b)
    /\ IF closed THEN BrowseEnds(b, "failed") /\ UNCHANGED second
       ELSE /\ browse' = [browse EXCEPT ![b] = "connecting"]
            /\ second' = Opened
            /\ UNCHANGED turn
    /\ UNCHANGED <<stmt, struck, wanted, kill, user, closed>>

BrowseGoes(b) ==
    /\ browse[b] = "connecting" /\ Ready
    /\ IF Refused THEN BrowseEnds(b, "failed") /\ UNCHANGED user
       ELSE /\ browse' = [browse EXCEPT ![b] = "running"]
            /\ user' = b
            /\ UNCHANGED turn
    /\ UNCHANGED <<stmt, struck, wanted, kill, second, closed>>

BrowseAnswered(b) ==
    /\ browse[b] = "running"
    /\ BrowseEnds(b, "done")
    /\ user' = none
    /\ UNCHANGED <<stmt, struck, wanted, kill, second, closed>>

\* The kills and metadata queries that fail with the second connection.
Rejected(lost) ==
    /\ kill' = [q \in Kill |-> IF q \in lost THEN "refused" ELSE kill[q]]
    /\ browse' = [b \in Browse |-> IF b \in lost THEN "failed" ELSE browse[b]]
    /\ turn' = IF lost \cap Browse = {} THEN turn ELSE Passed(Head(turn))

SecondConnects ==
    /\ second = "connecting"
    /\ second' = "up"
    /\ UNCHANGED <<stmt, struck, wanted, kill, browse, turn, user, closed>>

\* Everyone who waited fails, and the next call connects again.
SecondFails ==
    /\ second = "connecting"
    /\ second' = "none"
    /\ Rejected({q \in Kill : kill[q] = "connecting"} \cup {b \in Browse : browse[b] = "connecting"})
    /\ UNCHANGED <<stmt, struck, wanted, user, closed>>

\* The server drops the second connection; the session keeps it as it is.
SecondDrops ==
    /\ second = "up"
    /\ second' = "dead"
    /\ Rejected({user})
    /\ user' = none
    /\ UNCHANGED <<stmt, struck, wanted, closed>>

\* close(): the first connection at once, the second as soon as it is there.
Close ==
    /\ ~closed
    /\ closed' = TRUE
    /\ stmt' = [k \in Stmt |-> IF stmt[k] = "running" THEN "answered" ELSE stmt[k]]
    /\ UNCHANGED <<struck, wanted, kill, browse, turn, second, user>>

CloseEnds ==
    /\ closed /\ second \in {"up", "dead"}
    /\ second' = "closed"
    /\ Rejected({user})
    /\ user' = none
    /\ UNCHANGED <<stmt, struck, wanted, closed>>

\* The statements that this step begins beside a kill nobody awaited.
BegunHastily ==
    {k \in Stmt : /\ stmt[k] = "new" /\ stmt'[k] = "running"
                  /\ \E q \in Kill : kill[q] \in {"connecting", "sent"}}

Next ==
    /\ \/ \E k \in Stmt : Execute(k) \/ ServerEnds(k) \/ IterationEnds(k) \/ Cancel(k) \/ Timeout(k)
       \/ \E q \in Kill : KillGoes(q) \/ KillActs(q)
       \/ \E b \in Browse : Ask(b) \/ BrowseTurn(b) \/ BrowseGoes(b) \/ BrowseAnswered(b)
       \/ SecondConnects \/ SecondFails \/ SecondDrops \/ Close \/ CloseEnds
    /\ hasty' = hasty \cup BegunHastily

Spec == Init /\ [][Next]_vars

\* Connects end one way or the other and the server answers metadata queries.
SecondEnds == SecondConnects \/ SecondFails

Fairness ==
    /\ WF_session(SecondEnds)
    /\ \A b \in Browse :
        WF_session(BrowseTurn(b)) /\ WF_session(BrowseGoes(b)) /\ WF_session(BrowseAnswered(b))

FairSpec == Spec /\ Fairness

(* ------------------------------- properties ------------------------------ *)

TypeOK ==
    /\ stmt \in [Stmt -> {"new", "running", "answered", "over"}]
    /\ struck \subseteq Stmt /\ hasty \subseteq Stmt
    /\ wanted \in [Stmt -> SUBSET Reason]
    /\ kill \in [Kill -> {"none", "connecting", "sent", "gone", "refused"}]
    /\ browse \in [Browse -> {"new", "queued", "connecting", "running", "done", "failed"}]
    /\ IsInjective(turn) /\ Range(turn) \subseteq Browse
    /\ second \in {"none", "connecting", "up", "dead", "closed"}
    /\ user \in Browse \cup Kill \cup {none}
    /\ closed \in BOOLEAN

\* Metadata queries use the second connection one after the other, in the order
\* they were asked, whichever of them fail.
BrowseInTurn ==
    \A b \in Browse :
        /\ browse[b] \in {"connecting", "running"} => Head(turn) = b
        /\ browse[b] \in {"queued", "connecting", "running"} <=> \E i \in DOMAIN turn : turn[i] = b

\* provider.ts:205: cancel() "asks the server to stop this statement", and no
\* other: a statement is interrupted only when it was to be stopped itself, or was
\* begun by a caller that did not wait for the kill of the one before.
OnlyOwnInterrupted == \A k \in struck \ hasty : wanted[k] # {}

\* A session that was closed makes no further connection, also for queries that
\* waited for their turn.
NoSecondAfterClose == [][closed /\ second # "connecting" => second' # "connecting"]_vars

\* Every metadata query is answered or fails.
BrowseIsTold == \A b \in Browse : browse[b] = "queued" ~> browse[b] \in {"done", "failed"}
=============================================================================
