---------------------------- MODULE MongoSession ----------------------------
(* A MongoDB session (mongo-engine/src/session.ts): statements on the main     *)
(* connection, read batch by batch through a cursor of the server, and what    *)
(* the session asks of its second connection: to find and kill a statement     *)
(* that is to stop, and to release the cursor of one that was left.            *)
EXTENDS SecondConnection

CONSTANTS
    Stmt,       \* the statements, numbered in the order they are given to execute()
    Taggable,   \* those that carry a comment to be found by
    Stop,       \* who may be stopped and why, pairs of a statement and a reason
    Batches     \* bound: how many batches one statement reads

\* The jobs of the second connection: to kill a statement for a reason, to release a cursor.
Kill == Stop
Release(k) == <<k, "cursor">>

\* Assumed of the constants.
MongoAssumption ==
    /\ SecondAssumption
    /\ Stmt \subseteq Nat /\ Taggable \subseteq Stmt
    /\ Stop \subseteq Stmt \X {"cancel", "timeout"}
    /\ Job = Kill \cup {Release(k) : k \in Stmt} /\ \A j \in Job : About[j] = none
    /\ Batches \in Nat \ {0}
    /\ none \notin {<<>>} \cup (Stmt \X (1 .. Batches))

VARIABLES
    at,         \* each statement: new, sent, running (on the server), answered, held, over
    reply,      \* the answer it has not taken yet: none, more, last, error
    round,      \* how many commands it sent
    cursor,     \* those the server holds a cursor for
    openCursor, \* those with the id of a cursor in hand
    why,        \* stopped: the reasons each was to be stopped for
    found,      \* the operation each kill found: none, nothing, or a statement and its command
    struck,     \* history: statements a killOp interrupted
    cut,        \* history: statements under which a stop dropped the main connection
    up,         \* the main connection
    hasty       \* history: statements begun while a kill was on its way

vars == <<second_vars, at, reply, round, cursor, openCursor, why, found, struck, cut, up, hasty>>

Init ==
    /\ SecondInit
    /\ at = [k \in Stmt |-> "new"]
    /\ reply = [k \in Stmt |-> "none"]
    /\ round = [k \in Stmt |-> 0]
    /\ cursor = {} /\ openCursor = {}
    /\ why = [k \in Stmt |-> {}]
    /\ found = [q \in Kill |-> none]
    /\ struck = {} /\ cut = {} /\ up = TRUE /\ hasty = {}

(* ------------------------------- statements ------------------------------ *)

Going == {k \in Stmt : at[k] \notin {"new", "over"}}

KillsDue == {q \in Kill : job[q] \notin {"new", "done", "failed"}}

\* A command goes out; one for a connection that is gone fails.
Sends(k) ==
    /\ at' = [at EXCEPT ![k] = "sent"]
    /\ round' = [round EXCEPT ![k] = @ + 1]

\* Variant: only a statement read to its end looks after its cursor.
LeavesOnly(k) ==
    /\ at' = [at EXCEPT ![k] = "over"]
    /\ openCursor' = openCursor \ {k}
    /\ IF k \in openCursor /\ why[k] = {} THEN Ask(Release(k)) ELSE UNCHANGED second_vars

\* The iteration is over; the cursor in hand, if any, is released.
Leaves(k) ==
    /\ at' = [at EXCEPT ![k] = "over"]
    /\ openCursor' = openCursor \ {k}
    /\ IF k \in openCursor THEN Ask(Release(k)) ELSE UNCHANGED second_vars

\* execute() and the first next(), which the host asks for one statement at a time.
Execute(k) ==
    /\ at[k] = "new" /\ Going = {} /\ up
    /\ \A j \in Stmt : j < k => at[j] = "over"
    /\ Sends(k)
    /\ hasty' = IF KillsDue = {} THEN hasty ELSE hasty \cup {k}
    /\ UNCHANGED <<second_vars, reply, cursor, openCursor, why, found, struck, cut, up>>

ServerTakes(k) ==
    /\ at[k] = "sent" /\ up
    /\ at' = [at EXCEPT ![k] = "running"]
    /\ UNCHANGED <<second_vars, reply, round, cursor, openCursor, why, found, struck, cut, up, hasty>>

Outcomes(k) == IF round[k] < Batches THEN {"more", "last", "error"} ELSE {"last", "error"}

\* The server holds a cursor while there is more to read.
ServerAnswers(k) ==
    /\ at[k] = "running"
    /\ \E r \in Outcomes(k) :
        /\ reply' = [reply EXCEPT ![k] = r]
        /\ cursor' = IF r = "more" THEN cursor \cup {k} ELSE cursor \ {k}
    /\ at' = [at EXCEPT ![k] = "answered"]
    /\ UNCHANGED <<second_vars, round, openCursor, why, found, struck, cut, up, hasty>>

\* A reply with a batch: its rows go to the consumer.
Receives(k) ==
    /\ at[k] = "answered" /\ reply[k] # "error"
    /\ at' = [at EXCEPT ![k] = "held"]
    /\ reply' = [reply EXCEPT ![k] = "none"]
    /\ openCursor' = IF reply[k] = "more" THEN openCursor \cup {k} ELSE openCursor \ {k}
    /\ UNCHANGED <<second_vars, round, cursor, why, found, struck, cut, up, hasty>>

\* An error reply, or a connection that is gone, ends the statement.
Fails(k) ==
    /\ \/ at[k] = "answered" /\ reply[k] = "error"
       \/ at[k] \in {"sent", "running", "answered"} /\ ~up
    /\ Leaves(k)
    /\ UNCHANGED <<reply, round, cursor, why, found, struck, cut, up, hasty>>

\* The consumer wants more: the next getMore, unless the statement was stopped.
Continues(k) ==
    /\ at[k] = "held"
    /\ IF k \in openCursor /\ why[k] = {} /\ up
       THEN Sends(k) /\ UNCHANGED <<second_vars, openCursor>>
       ELSE Leaves(k) /\ UNCHANGED round
    /\ UNCHANGED <<reply, cursor, why, found, struck, cut, up, hasty>>

\* The consumer has enough.
Abandons(k) ==
    /\ at[k] = "held"
    /\ Leaves(k)
    /\ UNCHANGED <<reply, round, cursor, why, found, struck, cut, up, hasty>>

(* --------------------------------- stops --------------------------------- *)

\* The statements cut off when the session drops the main connection.
CutOff == Going

\* stop(): a statement with a comment is looked for on the server, for another the
\* connection is dropped.
Stopping(k, reason) ==
    /\ k \in Going /\ reason \notin why[k] /\ <<k, reason>> \in Stop
    /\ why' = [why EXCEPT ![k] = @ \cup {reason}]
    /\ IF k \in Taggable
       THEN Ask(<<k, reason>>) /\ UNCHANGED <<cut, up>>
       ELSE /\ up' = FALSE
            /\ cut' = cut \cup CutOff
            /\ UNCHANGED second_vars
    /\ UNCHANGED <<at, reply, round, cursor, openCursor, found, struck, hasty>>

Cancel(k) == Stopping(k, "cancel")
Timeout(k) == Stopping(k, "timeout")

\* Variant: the kill looks for whatever runs on the main connection.
SearchesAny(q) ==
    /\ q \in Kill /\ job[q] = "running" /\ found[q] = none
    /\ LET there == {k \in Stmt : at[k] = "running"} IN
       found' = [found EXCEPT ![q] = IF there = {} THEN <<>>
                                     ELSE LET k == CHOOSE k \in there : TRUE IN <<k, round[k]>>]
    /\ UNCHANGED <<second_vars, at, reply, round, cursor, openCursor, why, struck, cut, up, hasty>>

\* $currentOp, for the comment of the statement.
Searches(q) ==
    /\ q \in Kill /\ job[q] = "running" /\ found[q] = none
    /\ LET k == q[1] IN
       found' = [found EXCEPT ![q] = IF at[k] = "running" THEN <<k, round[k]>> ELSE <<>>]
    /\ UNCHANGED <<second_vars, at, reply, round, cursor, openCursor, why, struck, cut, up, hasty>>

\* killOp interrupts the operation that was found, if it still runs.
KillActs(q) ==
    /\ q \in Kill /\ found[q] # none
    /\ Answered(q, "done")
    /\ LET hit == {k \in Stmt : at[k] = "running" /\ found[q] = <<k, round[k]>>} IN
       /\ struck' = struck \cup hit
       /\ at' = [k \in Stmt |-> IF k \in hit THEN "answered" ELSE at[k]]
       /\ reply' = [k \in Stmt |-> IF k \in hit THEN "error" ELSE reply[k]]
       /\ cursor' = cursor \ hit
    /\ UNCHANGED <<round, openCursor, why, found, cut, up, hasty>>

\* killCursors.
CursorGoes(k) ==
    /\ Answered(Release(k), "done")
    /\ cursor' = cursor \ {k}
    /\ UNCHANGED <<at, reply, round, openCursor, why, found, struck, cut, up, hasty>>

(* ------------------------ the two connections ----------------------------- *)

\* A kill that fails, for whatever reason, costs the main connection.
Cost ==
    LET lost == \E q \in Kill : job[q] # "failed" /\ job'[q] = "failed" IN
    /\ up' = (up /\ ~lost)
    /\ cut' = IF lost /\ up THEN cut \cup CutOff ELSE cut

\* The server refuses to say what runs.
Refused(j) == j \in Kill /\ found[j] = none /\ Answered(j, "failed")

SecondGoes(j) == (TurnComes(j) \/ ConnectFails(j) \/ Refused(j)) /\ Cost

SecondWorks == (\E j \in Job : SecondGoes(j)) \/ (Connects /\ Cost) \/ (SecondDrops /\ Cost)

SecondMoves ==
    /\ SecondWorks
    /\ UNCHANGED <<at, reply, round, cursor, openCursor, why, found, struck, hasty>>

\* The server drops the main connection.
MainDrops ==
    /\ up
    /\ up' = FALSE
    /\ UNCHANGED <<second_vars, at, reply, round, cursor, openCursor, why, found, struck, cut, hasty>>

SessionCloses ==
    /\ \/ Close /\ up' = FALSE /\ UNCHANGED cut
       \/ CloseEnds /\ Cost
    /\ UNCHANGED <<at, reply, round, cursor, openCursor, why, found, struck, hasty>>

Next ==
    \/ \E k \in Stmt :
        \/ Execute(k) \/ ServerTakes(k) \/ ServerAnswers(k) \/ Receives(k) \/ Fails(k)
        \/ Continues(k) \/ Abandons(k) \/ Cancel(k) \/ Timeout(k) \/ CursorGoes(k)
    \/ \E q \in Kill : Searches(q) \/ KillActs(q)
    \/ SecondMoves \/ MainDrops \/ SessionCloses

Spec == Init /\ [][Next]_vars

(* ------------------------------- properties ------------------------------ *)

TypeOK ==
    /\ SecondTypeOK
    /\ at \in [Stmt -> {"new", "sent", "running", "answered", "held", "over"}]
    /\ reply \in [Stmt -> {"none", "more", "last", "error"}]
    /\ round \in [Stmt -> 0 .. Batches]
    /\ cursor \subseteq Stmt /\ openCursor \subseteq Stmt /\ struck \subseteq Stmt
    /\ cut \subseteq Stmt /\ hasty \subseteq Stmt
    /\ why \in [Stmt -> SUBSET {"cancel", "timeout"}]
    /\ found \in [Kill -> {none, <<>>} \cup (Stmt \X (1 .. Batches))]
    /\ up \in BOOLEAN

\* A statement that is over leaves no cursor on the server: it is being released, or
\* the one who should release it failed, or no reply ever told of it.
CursorsGo ==
    \A k \in cursor :
        at[k] = "over" => job[Release(k)] \notin {"new", "done"} \/ reply[k] = "more"

\* A kill interrupts only the statement that was to be stopped, whatever runs by the
\* time it gets there; and only that statement loses its connection to a stop, unless
\* a caller did not wait for the kill of the one before.
OnlyOwnStopped == \A k \in struck \cup (cut \ hasty) : why[k] # {}
=============================================================================
