------------------------- MODULE PostgresConnection -------------------------
(* One PostgreSQL connection after the login (db-protocol-postgres/src/        *)
(* connection.ts) with the statements a session runs on it (postgres-engine/   *)
(* src/session.ts, execute): reading, walking away, and the cancel requests,   *)
(* each sent over a connection of its own.                                     *)
EXTENDS Integers, Sequences, FiniteSets

CONSTANTS
    Stmt,       \* the statements, numbered in the order they are run
    Stops,      \* who may be stopped and why, pairs of a statement and a reason
    MaxRows,    \* bound: rows of one answer
    Wire,       \* bound: messages between the server and the client
    none

Reason == {"cancel", "timeout"}

\* The cancel requests that can ever be sent.
Request == Stops \cup Stmt \X {"abandon"}

ASSUME PostgresAssumption ==
    /\ MaxRows \in Nat /\ Wire \in Nat \ {0}
    /\ Stmt \subseteq Nat /\ none \notin Stmt
    /\ Stops \subseteq Stmt \X Reason

VARIABLES
    stmt,       \* new, reading, yielded, draining, over
    failure,    \* an ErrorResponse came for it
    wanted,     \* the reasons its caller had to stop it
    busy,       \* the statement that holds the connection
    got,        \* the statements whose messages each one read
    request,    \* each cancel request: none, connecting, sent, over
    destroyed,  \* the pump is closed
    runs,       \* the statement the server runs
    rows,       \* rows it has sent
    struck,     \* statements the server cancelled
    wire,       \* messages on their way to the client
    hasty       \* history: statements begun while a cancel request was on its way

connection == <<stmt, failure, wanted, busy, got, request, destroyed, runs, rows, struck, wire>>
vars == <<connection, hasty>>

Init ==
    /\ stmt = [k \in Stmt |-> "new"]
    /\ failure = {} /\ struck = {}
    /\ wanted = [k \in Stmt |-> {}]
    /\ busy = none
    /\ got = [k \in Stmt |-> {}]
    /\ request = [r \in Request |-> "none"]
    /\ destroyed = FALSE
    /\ runs = none /\ rows = 0 /\ wire = <<>>
    /\ hasty = {}

(* -------------------------------- PgQuery -------------------------------- *)

\* query() and the start of events(): refused while another holds the connection.
Execute(k) ==
    /\ stmt[k] = "new" /\ busy = none /\ ~destroyed
    /\ \A j \in Stmt : j < k => stmt[j] # "new"
    /\ stmt' = [stmt EXCEPT ![k] = "reading"]
    /\ busy' = k
    /\ runs' = k /\ rows' = 0
    /\ UNCHANGED <<failure, wanted, got, request, destroyed, struck, wire>>

Received ==
    /\ wire # <<>> /\ ~destroyed
    /\ wire' = Tail(wire)
    /\ got' = [got EXCEPT ![busy] = @ \cup {Head(wire).of}]

\* The statement is over: release().
Released(k) ==
    /\ stmt' = [stmt EXCEPT ![k] = "over"]
    /\ busy' = none

Read(k) ==
    /\ stmt[k] = "reading" /\ Received
    /\ \/ /\ Head(wire).kind = "row"
          /\ stmt' = [stmt EXCEPT ![k] = "yielded"]
          /\ UNCHANGED <<failure, busy>>
       \/ /\ Head(wire).kind = "error"
          /\ failure' = failure \cup {k}
          /\ UNCHANGED <<stmt, busy>>
       \/ /\ Head(wire).kind = "ready"
          /\ Released(k)
          /\ UNCHANGED failure
    /\ UNCHANGED <<wanted, request, destroyed, runs, rows, struck>>

ReadOn(k) ==
    /\ stmt[k] = "yielded"
    /\ stmt' = [stmt EXCEPT ![k] = "reading"]
    /\ UNCHANGED <<failure, wanted, busy, got, request, destroyed, runs, rows, struck, wire>>

\* The consumer returns: abandon() asks the server to stop.
WalkAway(k) ==
    /\ stmt[k] = "yielded"
    /\ IF destroyed THEN Released(k) /\ UNCHANGED request
       ELSE /\ stmt' = [stmt EXCEPT ![k] = "draining"]
            /\ request' = [request EXCEPT ![<<k, "abandon">>] = "connecting"]
            /\ UNCHANGED busy
    /\ UNCHANGED <<failure, wanted, got, destroyed, runs, rows, struck, wire>>

\* Variant: what is left is read while the request is still on its way.
DrainedAtOnce(k) == TRUE

\* The drain awaits its request before it reads.
Drained(k) == request[<<k, "abandon">>] = "over"

\* abandon(), once its request is over: what is left is read up to the ready.
Drain(k) ==
    /\ stmt[k] = "draining" /\ Drained(k) /\ Received
    /\ IF Head(wire).kind = "ready" THEN Released(k) ELSE UNCHANGED <<stmt, busy>>
    /\ UNCHANGED <<failure, wanted, request, destroyed, runs, rows, struck>>

\* Variant: the connection is given back as it is.
DrainGivesUp(k) ==
    /\ stmt[k] = "draining"
    /\ Released(k)
    /\ UNCHANGED <<failure, wanted, got, request, destroyed, runs, rows, struck, wire>>

\* The five seconds are over: the connection is dropped rather than left out of step.
DrainTimeout(k) ==
    /\ stmt[k] = "draining"
    /\ destroyed' = TRUE
    /\ Released(k)
    /\ UNCHANGED <<failure, wanted, got, request, runs, rows, struck, wire>>

\* Variant: a statement that fails does not release.
FailsHolding(k) ==
    /\ destroyed /\ stmt[k] \in {"reading", "draining"}
    /\ stmt' = [stmt EXCEPT ![k] = "over"]
    /\ UNCHANGED <<failure, wanted, busy, got, request, destroyed, runs, rows, struck, wire>>

\* A read on a connection that is gone.
ReadFails(k) ==
    /\ destroyed /\ stmt[k] \in {"reading", "draining"}
    /\ Released(k)
    /\ UNCHANGED <<failure, wanted, got, request, destroyed, runs, rows, struck, wire>>

Drop ==
    /\ ~destroyed
    /\ destroyed' = TRUE
    /\ UNCHANGED <<stmt, failure, wanted, busy, got, request, runs, rows, struck, wire>>

(* -------------------------------- cancelling ----------------------------- *)

Interrupt(k, why) ==
    /\ <<k, why>> \in Stops
    /\ stmt[k] \notin {"new", "over"} /\ request[<<k, why>>] = "none"
    /\ wanted' = [wanted EXCEPT ![k] = @ \cup {why}]
    /\ request' = [request EXCEPT ![<<k, why>>] = "connecting"]
    /\ UNCHANGED <<stmt, failure, busy, got, destroyed, runs, rows, struck, wire>>

Cancel(k) == Interrupt(k, "cancel")
Timeout(k) == Interrupt(k, "timeout")

RequestConnects(r) ==
    /\ request[r] = "connecting"
    /\ request' = [request EXCEPT ![r] = "sent"]
    /\ UNCHANGED <<stmt, failure, wanted, busy, got, destroyed, runs, rows, struck, wire>>

\* It cannot connect: execute() then destroys the connection, abandon() goes on.
RequestFails(r) ==
    /\ request[r] = "connecting"
    /\ request' = [request EXCEPT ![r] = "over"]
    /\ destroyed' = (destroyed \/ r[2] # "abandon")
    /\ UNCHANGED <<stmt, failure, wanted, busy, got, runs, rows, struck, wire>>

\* The server stops whatever the backend runs by now, and closes the request.
RequestActs(r) ==
    /\ request[r] = "sent"
    /\ request' = [request EXCEPT ![r] = "over"]
    /\ struck' = IF runs = none THEN struck ELSE struck \cup {runs}
    /\ UNCHANGED <<stmt, failure, wanted, busy, got, destroyed, runs, rows, wire>>

(* -------------------------------- the server ----------------------------- *)

Sends(kind) ==
    /\ Len(wire) < Wire
    /\ wire' = Append(wire, [of |-> runs, kind |-> kind])
    /\ UNCHANGED <<stmt, failure, wanted, busy, got, request, destroyed, struck>>

ServerRow ==
    /\ runs # none /\ runs \notin struck /\ rows \in 0..MaxRows - 1
    /\ Sends("row") /\ rows' = rows + 1 /\ UNCHANGED runs

ServerError ==
    /\ runs # none /\ rows >= 0
    /\ Sends("error") /\ rows' = -1 /\ UNCHANGED runs

\* ReadyForQuery, after the command's end or its error.
ServerReady ==
    /\ runs # none /\ (runs \in struck => rows = -1)
    /\ Sends("ready") /\ runs' = none /\ rows' = 0

Server == ServerRow \/ ServerError \/ ServerReady

Statement(k) ==
    \/ Execute(k) \/ Read(k) \/ ReadOn(k) \/ WalkAway(k) \/ Drain(k)
    \/ DrainTimeout(k) \/ ReadFails(k) \/ Cancel(k) \/ Timeout(k)

\* The statements that this step begins beside a cancel request nobody awaited.
BegunHastily ==
    {k \in Stmt : /\ stmt[k] = "new" /\ stmt'[k] # "new"
                  /\ \E r \in Request : r[2] # "abandon" /\ request[r] \in {"connecting", "sent"}}

Next ==
    /\ \/ \E k \in Stmt : Statement(k)
       \/ \E r \in Request : RequestConnects(r) \/ RequestFails(r) \/ RequestActs(r)
       \/ Drop \/ Server
    /\ hasty' = hasty \cup BegunHastily

Spec == Init /\ [][Next]_vars

\* The five-second timer fires and a dead socket is noticed; the server need not
\* answer anything.
Fairness == \A k \in Stmt : WF_connection(DrainTimeout(k)) /\ WF_connection(ReadFails(k))

FairSpec == Spec /\ Fairness

(* ------------------------------- properties ------------------------------ *)

TypeOK ==
    /\ stmt \in [Stmt -> {"new", "reading", "yielded", "draining", "over"}]
    /\ failure \subseteq Stmt /\ struck \subseteq Stmt /\ hasty \subseteq Stmt
    /\ wanted \in [Stmt -> SUBSET Reason]
    /\ busy \in Stmt \cup {none}
    /\ \A k \in Stmt : busy = k <=> stmt[k] \in {"reading", "yielded", "draining"}
    /\ got \in [Stmt -> SUBSET Stmt]
    /\ request \in [Request -> {"none", "connecting", "sent", "over"}]
    /\ destroyed \in BOOLEAN
    /\ runs \in Stmt \cup {none} /\ rows \in -1..MaxRows
    /\ wire \in Seq([of : Stmt, kind : {"row", "error", "ready"}])

\* A statement reads messages of its own only, also after others were cancelled or
\* walked away from.
OwnAnswers == \A k \in Stmt : got[k] \subseteq {k}

\* A connection that is free and alive is in step: nothing is left to be read and
\* the server waits for a statement.
FreeIsInStep == busy = none /\ ~destroyed => wire = <<>> /\ runs = none

\* provider.ts:205: cancel() "asks the server to stop this statement", and no
\* other: what the server cancelled was to be stopped, was walked away from, or
\* was begun by a caller that did not wait for the cancel of the one before.
OnlyOwnInterrupted ==
    \A k \in struck \ hasty : wanted[k] # {} \/ request[<<k, "abandon">>] # "none"

\* Walking away takes five seconds at most, whatever the server does.
WalkedAwayIsReleased == \A k \in Stmt : stmt[k] = "draining" ~> stmt[k] = "over"

\* Statements and answers stay in step: each reads its own, and a free connection
\* has nothing left to read.
InStep == OwnAnswers /\ FreeIsInStep
=============================================================================
