---------------------------- MODULE RedisSession ----------------------------
(* The main connection of a Redis session (redis-engine/src/session.ts over    *)
(* db-protocol-redis/src/connection.ts): replies are told apart by their order *)
(* only, and are read piece by piece while a consumer takes the rows; a        *)
(* statement is stopped by dropping the connection; the keep-alive pings it.   *)
EXTENDS Naturals, Sequences

CONSTANTS
    Stmt,       \* the statements, numbered in the order they are given to execute()
    TooLarge,   \* those whose reply has a value the parser refuses
    Pieces,     \* bound: pieces of a reply (the header with a value, or the elements)
    ping, none

\* Assumed of the constants.
RedisAssumption ==
    /\ Stmt \subseteq Nat /\ TooLarge \subseteq Stmt
    /\ Pieces \in Nat \ {0}
    /\ ping # none /\ {ping, none} \cap Stmt = {}

VARIABLES
    stmt,       \* each statement: new, reading, over
    left,       \* pieces of its reply it has still to read
    outcome,    \* how it ended: none, whole, stopped, failed, left
    took,       \* whose pieces it read
    why,        \* stopped: none, cancelled, timeout
    unread,     \* the pieces on their way or in the buffer of the socket, by owner
    busy,       \* busyWith: none, a statement or the ping
    up,         \* the connection
    askew       \* history: a reply was given up half-read

vars == <<stmt, left, outcome, took, why, unread, busy, up, askew>>

Init ==
    /\ stmt = [k \in Stmt |-> "new"]
    /\ left = [k \in Stmt |-> 0]
    /\ outcome = [k \in Stmt |-> "none"]
    /\ took = [k \in Stmt \cup {ping} |-> {}]
    /\ why = [k \in Stmt |-> "none"]
    /\ unread = <<>>
    /\ busy = none /\ up = TRUE /\ askew = FALSE

(* ------------------------------- statements ------------------------------ *)

Over(k, how) ==
    /\ stmt' = [stmt EXCEPT ![k] = "over"]
    /\ outcome' = [outcome EXCEPT ![k] = how]

\* execute() and the first next(): RedisConnection.open() refuses a connection that
\* is gone or busy, the host another statement of the session.
Execute(k) ==
    /\ stmt[k] = "new"
    /\ \A j \in Stmt : j < k => stmt[j] = "over"
    /\ \/ /\ up /\ busy = none
          /\ \E n \in 1 .. Pieces :
              /\ left' = [left EXCEPT ![k] = n]
              /\ unread' = unread \o [i \in 1 .. n |-> k]
          /\ stmt' = [stmt EXCEPT ![k] = "reading"]
          /\ busy' = k
          /\ UNCHANGED outcome
       \/ /\ ~up \/ busy # none
          /\ Over(k, "failed")
          /\ UNCHANGED <<left, unread, busy>>
    /\ UNCHANGED <<took, why, up, askew>>

\* The consumer asks for more; what the buffer holds is read also after the connection
\* was dropped.
ReadsPiece(k) ==
    /\ stmt[k] = "reading" /\ left[k] > 0 /\ unread # <<>> /\ k \notin TooLarge
    /\ took' = [took EXCEPT ![k] = @ \cup {Head(unread)}]
    /\ unread' = Tail(unread)
    /\ left' = [left EXCEPT ![k] = @ - 1]
    /\ UNCHANGED <<stmt, outcome, why, busy, up, askew>>

\* Variant: only a reply that was read to its end frees the connection.
FailsBusy(k, free) ==
    /\ Over(k, IF why[k] = "none" THEN "failed" ELSE "stopped")
    /\ UNCHANGED busy

\* `if (stopped) throw reason(); stream?.done(); throw error`.
Failing(k, free) ==
    /\ Over(k, IF why[k] = "none" THEN "failed" ELSE "stopped")
    /\ busy' = IF why[k] = "none" THEN free ELSE busy

\* The server's one piece is an error.
ErrorReply(k) ==
    /\ stmt[k] = "reading" /\ left[k] = 1 /\ took[k] = {} /\ unread # <<>> /\ k \notin TooLarge
    /\ unread' = Tail(unread)
    /\ Failing(k, none)
    /\ UNCHANGED <<left, took, why, up, askew>>

\* A value that is too large: the rest of the reply stays where it is.
GivesUp(k) ==
    /\ stmt[k] = "reading" /\ left[k] > 0 /\ unread # <<>> /\ k \in TooLarge
    /\ Failing(k, none)
    /\ askew' = (askew \/ why[k] = "none")
    /\ UNCHANGED <<left, took, why, unread, up>>

\* The reader waits on a connection that is gone.
ReadFails(k) ==
    /\ stmt[k] = "reading" /\ left[k] > 0 /\ ~up
    /\ Failing(k, none)
    /\ UNCHANGED <<left, took, why, unread, up, askew>>

\* Variant: the end of the reply is the end of the statement.
EndsAnyway(k) ==
    /\ stmt[k] = "reading" /\ left[k] = 0
    /\ Over(k, "whole")
    /\ busy' = none
    /\ UNCHANGED <<left, took, why, unread, up, askew>>

\* The consumer has taken the last rows: done(), and `if (stopped) throw reason()`.
IterationEnds(k) ==
    /\ stmt[k] = "reading" /\ left[k] = 0
    /\ Over(k, IF why[k] = "none" THEN "whole" ELSE "stopped")
    /\ busy' = none
    /\ UNCHANGED <<left, took, why, unread, up, askew>>

\* Variant: whoever leaves frees the connection.
LeavesFree(k) ==
    /\ stmt[k] = "reading" /\ took[k] # {}
    /\ Over(k, IF why[k] = "none" THEN "left" ELSE "stopped")
    /\ busy' = none
    /\ UNCHANGED <<left, took, why, unread, up, askew>>

\* The consumer leaves its loop at an event: the generator's return() runs cleanup() and
\* no done(), so what is unread stays and the connection stays busy.  A run that was
\* cancelled, or whose spool is full, stopped the statement before; one that fails to
\* keep its rows did not.
WalksAway(k) ==
    /\ stmt[k] = "reading" /\ took[k] # {}
    /\ Over(k, IF why[k] = "none" THEN "left" ELSE "stopped")
    /\ UNCHANGED <<left, took, why, unread, busy, up, askew>>

\* stop(), by cancel() or by the time limit, until the iteration is over.
Stopping(k, reason) ==
    /\ stmt[k] = "reading"
    /\ why' = [why EXCEPT ![k] = IF @ = "none" THEN reason ELSE @]
    /\ up' = FALSE
    /\ UNCHANGED <<stmt, left, outcome, took, unread, busy, askew>>

Cancel(k) == Stopping(k, "cancelled")
Timeout(k) == Stopping(k, "timeout")

(* --------------------- the connection and its keep-alive ------------------ *)

Drops ==
    /\ up
    /\ up' = FALSE
    /\ UNCHANGED <<stmt, left, outcome, took, why, unread, busy, askew>>

\* The keep-alive: it refuses, as begin() does, while another command has the connection.
Ping ==
    /\ up /\ busy = none
    /\ busy' = ping
    /\ unread' = Append(unread, ping)
    /\ UNCHANGED <<stmt, left, outcome, took, why, up, askew>>

PingEnds ==
    /\ busy = ping
    /\ busy' = none
    /\ \/ /\ unread # <<>>
          /\ took' = [took EXCEPT ![ping] = @ \cup {Head(unread)}]
          /\ unread' = Tail(unread)
       \/ ~up /\ UNCHANGED <<took, unread>>
    /\ UNCHANGED <<stmt, left, outcome, why, up, askew>>

Next ==
    \/ \E k \in Stmt :
        \/ Execute(k) \/ ReadsPiece(k) \/ ErrorReply(k) \/ GivesUp(k) \/ ReadFails(k)
        \/ IterationEnds(k) \/ WalksAway(k) \/ Cancel(k) \/ Timeout(k)
    \/ Drops \/ Ping \/ PingEnds

Reads(k) == ReadsPiece(k) \/ ErrorReply(k) \/ GivesUp(k) \/ ReadFails(k) \/ IterationEnds(k)

\* Who runs a statement reads its rows, as a run does until its spool is full.
RedisSpec == Init /\ [][Next]_vars /\ \A k \in Stmt : WF_vars(Reads(k))

(* ------------------------------- properties ------------------------------ *)

TypeOK ==
    /\ stmt \in [Stmt -> {"new", "reading", "over"}]
    /\ left \in [Stmt -> 0 .. Pieces]
    /\ outcome \in [Stmt -> {"none", "whole", "stopped", "failed", "left"}]
    /\ took \in [Stmt \cup {ping} -> SUBSET (Stmt \cup {ping})]
    /\ why \in [Stmt -> {"none", "cancelled", "timeout"}]
    /\ unread \in Seq(Stmt \cup {ping})
    /\ busy \in Stmt \cup {none, ping}
    /\ up \in BOOLEAN /\ askew \in BOOLEAN

\* Everyone reads the pieces of the own reply and of no other, as long as no reply
\* was given up half-read; a statement that was stopped never reports a whole result.
RepliesAreOwn ==
    /\ ~askew => \A k \in Stmt \cup {ping} : took[k] \subseteq {k}
    /\ \A k \in Stmt : outcome[k] = "whole" => why[k] = "none" /\ left[k] = 0

\* A connection that lives is free for the next command once the one before is over, and
\* then has nothing of it left; but where somebody walked away from rows without stopping
\* their statement it stays busy with it, so nobody else gets them.
FreeForTheNext ==
    /\ \A k \in Stmt : up /\ outcome[k] = "left" => busy = k
    /\ up /\ busy # ping /\ (\A k \in Stmt : stmt[k] # "reading" /\ outcome[k] # "left") =>
        busy = none /\ (unread = <<>> \/ askew)

\* A statement ends, also on a connection that was dropped under it.
StatementEnds == \A k \in Stmt : stmt[k] = "reading" ~> stmt[k] = "over"
=============================================================================
