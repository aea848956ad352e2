--------------------------- MODULE MysqlConnection ---------------------------
(* One MySQL connection after the login (db-protocol-mysql/src/connection.ts): *)
(* the queries it runs one at a time, each with its consumer, the back-       *)
(* pressure on the socket, and the pings of the keep-alive.  A packet is       *)
(* known by the command it answers and its kind; a page is one row.            *)
EXTENDS Integers, Sequences, FiniteSets, SequencesExt, FiniteSetTheorems, FunctionTheorems,
        TLAPS

CONSTANTS
    Query,      \* the statements, each run once
    Ping,       \* the pings, each sent once
    HighWater,  \* HIGH_WATER_ROWS
    LowWater,   \* LOW_WATER_ROWS
    MaxRows,    \* bound: rows of one answer
    Wire,       \* bound: packets between the server and the client
    Chunk,      \* bound: packets of one 'data' event
    Beside,     \* may a command be sent while a ping is unanswered?
    none

\* Assumed of the constants.
MysqlAssumption ==
    /\ {HighWater, Wire, Chunk} \subseteq Nat \ {0}
    /\ {LowWater, MaxRows} \subseteq Nat /\ LowWater < HighWater
    /\ Beside \in BOOLEAN
    /\ none \notin Query \cup Ping /\ Query \cap Ping = {}

VARIABLES
    query,      \* each query's object and what its consumer does
    ping,       \* each ping: new, asked, answered
    current,    \* this.current
    handler,    \* the query or ping whose handler is set
    inbox,      \* packets that came without a handler
    closed,     \* closedWith is set
    paused,     \* the socket is paused
    asked,      \* commands the server has not answered in full
    sent,       \* rows of the result under way, -1 before the first, -2 before a second
    wire,       \* packets on their way to the client
    burst       \* packets left of the 'data' event being handled

vars == <<query, ping, current, handler, inbox, closed, paused, asked, sent, wire, burst>>
server == <<asked, sent>>

Packets == [of : Query \cup Ping, kind : {"head", "row", "end", "more", "ok", "okmore", "err"}]
Rows(events) == Cardinality({i \in DOMAIN events : events[i] = "row"})

Fresh == [state |-> "new", events |-> <<>>, over |-> FALSE, failed |-> FALSE,
          paused |-> FALSE, waiting |-> FALSE, abandoned |-> FALSE,
          reader |-> "none", got |-> {}]

Init ==
    /\ query = [k \in Query |-> Fresh]
    /\ ping = [p \in Ping |-> "new"]
    /\ current = none /\ handler = none
    /\ inbox = <<>> /\ closed = FALSE /\ paused = FALSE
    /\ asked = <<>> /\ sent = -1 /\ wire = <<>> /\ burst = 0

(* ------------------------------- MysqlQuery ------------------------------ *)

\* wake()
Woken(q) == [q EXCEPT !.waiting = FALSE]

\* Variant: a query with a full buffer goes on reading.
NeverHeld(q) == q

\* The high-water mark.
Held(q) == [q EXCEPT !.paused = @ \/ Rows(q.events) >= HighWater]

Emitted(q, e) ==
    IF q.abandoned THEN q ELSE Held(Woken([q EXCEPT !.events = Append(@, e)]))

Failed(q) == Woken([q EXCEPT !.over = TRUE, !.failed = TRUE])
Completed(q) == Woken([q EXCEPT !.over = TRUE])

\* process(): a packet that does not belong where it comes is read as what its
\* place expects.  "okmore" is an OK with SERVER_MORE_RESULTS_EXISTS.  (A request for a
\* local file, 0xfb, is for clients that declare CLIENT_LOCAL_FILES; this one does not.)
InStart(q, kind) ==
    CASE kind = "err" -> Failed(q)
      [] kind = "ok" -> Completed(Emitted(q, "end"))
      [] kind = "okmore" -> Emitted(q, "end")
      [] kind \in {"head", "row"} -> [Emitted(q, "columns") EXCEPT !.state = "rows"]
      [] kind \in {"end", "more"} -> Failed(q)

InRows(q, kind) ==
    CASE kind = "err" -> Failed(q)
      [] kind = "end" -> Completed(Emitted(q, "end"))
      [] kind = "more" -> [Emitted(q, "end") EXCEPT !.state = "start"]
      [] kind \in {"row", "head", "ok", "okmore"} -> Emitted(q, "row")

Handled(q, p) ==
    LET r == [q EXCEPT !.got = @ \cup {p.of}] IN
    IF q.state = "start" THEN InStart(r, p.kind) ELSE InRows(r, p.kind)

\* The query's pause and resume act on the one socket.
SocketAfter(old, new) == IF new.paused = old.paused THEN paused ELSE new.paused

(* ----------------------------- MysqlConnection --------------------------- *)

\* Variant: a query takes the connection while another still has it.
NeverBusy == FALSE

Busy == current # none

NoPingOut == \A p \in Ping : ping[p] # "asked"

\* query(): the packets of the inbox are taken for its answer.
Start(k) ==
    /\ query[k].state = "new" /\ ~closed /\ ~Busy
    /\ Beside \/ NoPingOut
    /\ LET new == [Fresh EXCEPT !.state = "start", !.reader = "reading"]
           q == FoldLeft(Handled, new, inbox) IN
       /\ query' = [query EXCEPT ![k] = q]
       /\ paused' = SocketAfter(new, q)
       /\ current' = IF q.over THEN none ELSE k
       /\ handler' = IF q.over THEN none ELSE k
    /\ inbox' = <<>>
    /\ asked' = Append(asked, k)
    /\ UNCHANGED <<ping, closed, sent, wire, burst>>

\* runSimple(): the first packet of the inbox answers, the rest is dropped.  On a
\* connection that is gone nobody will.
SendPing(p) ==
    /\ ping[p] = "new" /\ ~Busy
    /\ Beside \/ NoPingOut
    /\ ping' = [ping EXCEPT ![p] = IF inbox = <<>> THEN "asked" ELSE "answered"]
    /\ handler' = IF inbox = <<>> THEN p ELSE none
    /\ inbox' = <<>>
    /\ asked' = IF closed THEN asked ELSE Append(asked, p)
    /\ UNCHANGED <<query, current, closed, paused, sent, wire, burst>>

\* The 'data' handler, one packet of a chunk after the other.
Receive ==
    /\ wire # <<>> /\ (burst > 0 \/ ~paused)
    /\ wire' = Tail(wire)
    /\ \E n \in 0..Chunk - 1 : burst' = IF burst > 0 THEN burst - 1 ELSE n
    /\ burst' < Len(wire)
    /\ UNCHANGED <<closed, asked, sent>>

ReceiveQuery ==
    /\ handler \in Query /\ Receive
    /\ LET q == Handled(query[handler], Head(wire)) IN
       /\ query' = [query EXCEPT ![handler] = q]
       /\ paused' = SocketAfter(query[handler], q)
       /\ current' = IF q.over THEN none ELSE current
       /\ handler' = IF q.over THEN none ELSE handler
    /\ UNCHANGED <<ping, inbox>>

ReceivePing ==
    /\ handler \in Ping /\ Receive
    /\ ping' = [ping EXCEPT ![handler] = "answered"]
    /\ handler' = none
    /\ UNCHANGED <<query, current, inbox, paused>>

ReceiveNobody ==
    /\ handler = none /\ Receive
    /\ inbox' = Append(inbox, Head(wire))
    /\ UNCHANGED <<query, ping, current, handler, paused>>

\* fail(): the current query is told, a ping that waits is not.
Drop ==
    /\ burst = 0 /\ ~closed
    /\ closed' = TRUE
    /\ query' = IF Busy THEN [query EXCEPT ![current] = Failed(@)] ELSE query
    /\ current' = none
    /\ handler' = IF Busy THEN none ELSE handler
    /\ wire' = <<>> /\ asked' = <<>> /\ sent' = -1
    /\ UNCHANGED <<ping, inbox, paused, burst>>

(* ------------------------------ the consumer ----------------------------- *)

\* next(): an event, which may bring the buffer down to the low-water mark.
Take(k) ==
    /\ burst = 0
    /\ query[k].reader = "reading" /\ ~query[k].waiting /\ query[k].events # <<>>
    /\ LET rest == Tail(query[k].events)
           q == [query[k] EXCEPT !.events = rest, !.paused = @ /\ Rows(rest) > LowWater] IN
       /\ query' = [query EXCEPT ![k] = q]
       /\ paused' = SocketAfter(query[k], q)
    /\ UNCHANGED <<ping, current, handler, inbox, closed, asked, sent, wire, burst>>

\* next() with nothing buffered: the error, the end, or a wait.
TakeLast(k) ==
    /\ burst = 0
    /\ query[k].reader = "reading" /\ ~query[k].waiting /\ query[k].events = <<>>
    /\ query' = [query EXCEPT
         ![k] = IF query[k].failed THEN [@ EXCEPT !.reader = "error"]
                ELSE IF query[k].over THEN [@ EXCEPT !.reader = "done"]
                ELSE [@ EXCEPT !.waiting = TRUE]]
    /\ UNCHANGED <<ping, current, handler, inbox, closed, paused, asked, sent, wire, burst>>

\* Variant: return() leaves the socket as it is.
LeftPaused(q) == [q EXCEPT !.reader = "stopped", !.abandoned = TRUE, !.events = <<>>]

\* return()
Abandoned(q) ==
    [q EXCEPT !.reader = "stopped", !.abandoned = TRUE, !.events = <<>>, !.paused = FALSE]

Stop(k) ==
    /\ burst = 0
    /\ query[k].reader = "reading" /\ ~query[k].waiting
    /\ LET q == Abandoned(query[k]) IN
       /\ query' = [query EXCEPT ![k] = q]
       /\ paused' = SocketAfter(query[k], q)
    /\ UNCHANGED <<ping, current, handler, inbox, closed, asked, sent, wire, burst>>

(* ------------------------------- the server ------------------------------ *)

Answers(c) ==
    IF c \in Ping THEN {"ok"}
    ELSE IF sent = -1 THEN {"ok", "okmore", "err", "head"}
    ELSE IF sent = -2 THEN {"ok", "err"}
    ELSE {"end", "more", "err"} \cup (IF sent < MaxRows THEN {"row"} ELSE {})

ServerSends ==
    /\ asked # <<>> /\ Len(wire) < Wire /\ burst = 0
    /\ \E kind \in Answers(Head(asked)) :
         /\ wire' = Append(wire, [of |-> Head(asked), kind |-> kind])
         /\ asked' = IF kind \in {"ok", "err", "end"} THEN Tail(asked) ELSE asked
         /\ sent' = IF kind = "head" THEN 0
                    ELSE IF kind = "row" THEN sent + 1
                    ELSE IF kind \in {"more", "okmore"} THEN -2 ELSE -1
    /\ UNCHANGED <<query, ping, current, handler, inbox, closed, paused, burst>>

Next ==
    \/ \E k \in Query : burst = 0 /\ Start(k)
    \/ \E p \in Ping : burst = 0 /\ SendPing(p)
    \/ \E k \in Query : Take(k) \/ TakeLast(k) \/ Stop(k)
    \/ ReceiveQuery \/ ReceivePing \/ ReceiveNobody
    \/ Drop \/ ServerSends

Spec == Init /\ [][Next]_vars

\* The server answers, the network delivers, and a consumer that reads goes on.
Fairness ==
    /\ WF_vars(ServerSends)
    /\ WF_vars(ReceiveQuery) /\ WF_vars(ReceivePing) /\ WF_vars(ReceiveNobody)
    /\ \A k \in Query : WF_vars(Take(k) \/ TakeLast(k))

FairSpec == Spec /\ Fairness

(* ------------------------------- properties ------------------------------ *)

TypeOK ==
    /\ query \in [Query -> [state : {"new", "start", "rows"},
                            events : BoundedSeq({"columns", "row", "end"}, HighWater + Chunk + 2),
                            over : BOOLEAN, failed : BOOLEAN, paused : BOOLEAN,
                            waiting : BOOLEAN, abandoned : BOOLEAN,
                            reader : {"none", "reading", "stopped", "done", "error"},
                            got : SUBSET (Query \cup Ping)]]
    /\ ping \in [Ping -> {"new", "asked", "answered"}]
    /\ current \in Query \cup {none}
    /\ handler \in Query \cup Ping \cup {none}
    /\ closed \in BOOLEAN /\ paused \in BOOLEAN
    /\ sent \in -2..MaxRows /\ burst \in 0..Chunk - 1

\* While no command is sent beside a ping, every packet a query reads is of its
\* own answer, also after queries that failed, dropped or were walked away from.
OwnAnswers == \A k \in Query : query[k].got \subseteq {k}

\* connection.ts:369: "A connection runs one command at a time (the protocol has
\* no multiplexing)": it is free only once nothing is left to come.
OneCommand == current = none /\ ~closed => \A i \in DOMAIN asked : asked[i] \in Ping

\* A paused socket has a query that will resume it: one whose consumer has more
\* than the low-water mark still to read.
PausedHasReader ==
    paused => \E k \in Query : query[k].paused /\ Rows(query[k].events) > LowWater

\* A consumer that falls behind costs at most the high-water mark and what the
\* 'data' event that reached it still held.
BufferBounded ==
    \A k \in Query : Rows(query[k].events) < HighWater + Chunk

\* A consumer that goes on reading is told the end or the error.
ReaderIsTold == \A k \in Query : query[k].reader = "reading" ~> query[k].reader # "reading"

\* A statement does not keep the connection for ever, also one whose consumer
\* walked away: connection.ts:140, "drains the rest of the response in the
\* background so the connection stays usable".
BusyEnds == \A k \in Query : current = k ~> current # k

(* --------------------------------- proofs -------------------------------- *)

\* What the proofs use of the constants: no command is sent beside an unanswered ping.
MyConstants ==
    /\ HighWater \in Nat /\ LowWater \in Nat /\ LowWater < HighWater
    /\ Chunk \in Nat /\ Chunk >= 1 /\ MaxRows \in Nat /\ Wire \in Nat
    /\ none \notin Query /\ none \notin Ping /\ \A p \in Ping : p \notin Query
    /\ ~Beside

\* An empty inbox leaves a query as it is.
LEMMA NothingFolded ==
  ASSUME NEW q
  PROVE  FoldLeft(Handled, q, <<>>) = q
  <1>1. DOMAIN <<>> = {}
    OBVIOUS
  <1> QED
    BY <1>1 DEF FoldLeft, MapThenFoldSet

\* The rows among the events of a query are counted ...
LEMMA RowsAre ==
  ASSUME NEW S, NEW e \in Seq(S)
  PROVE  /\ IsFiniteSet({i \in DOMAIN e : e[i] = "row"})
         /\ Rows(e) = Cardinality({i \in DOMAIN e : e[i] = "row"})
         /\ Rows(e) \in Nat
         /\ Rows(e) <= Len(e)
  <1> DEFINE R == {i \in DOMAIN e : e[i] = "row"}
  <1>1. /\ IsFiniteSet(1 .. Len(e)) /\ Cardinality(1 .. Len(e)) = Len(e)
    <2>1. Len(e) \in Nat
      OBVIOUS
    <2> HIDE DEF R
    <2> QED
      BY <2>1, FS_Interval
  <1>2. R \in SUBSET (1 .. Len(e))
    OBVIOUS
  <1>3. IsFiniteSet(R) /\ Cardinality(R) <= Len(e)
    BY <1>1, <1>2, FS_Subset
  <1>4. Cardinality(R) \in Nat
    BY <1>3, FS_CardinalityType
  <1>5. Rows(e) = Cardinality(R)
    BY DEF Rows
  <1> QED
    BY <1>3, <1>4, <1>5

\* ... none among none ...
LEMMA RowsOfNothing == Rows(<<>>) = 0
  <1>1. {i \in DOMAIN <<>> : <<>>[i] = "row"} = {}
    OBVIOUS
  <1> QED
    BY <1>1, FS_EmptySet DEF Rows

\* ... one more when a row comes ...
LEMMA RowsAppended ==
  ASSUME NEW S, NEW e \in Seq(S), NEW x \in S
  PROVE  Rows(Append(e, x)) = IF x = "row" THEN Rows(e) + 1 ELSE Rows(e)
  <1> DEFINE R == {i \in DOMAIN e : e[i] = "row"}
             f == Append(e, x)
             T == {i \in DOMAIN f : f[i] = "row"}
  <1>1. /\ f \in Seq(S) /\ Len(f) = Len(e) + 1 /\ f[Len(e) + 1] = x
        /\ \A i \in 1 .. Len(e) : f[i] = e[i]
    OBVIOUS
  <1>2. DOMAIN f = 1 .. (Len(e) + 1) /\ DOMAIN e = 1 .. Len(e) /\ Len(e) \in Nat
    BY <1>1
  <1>3. CASE x = "row"
    <2>1. T = R \cup {Len(e) + 1}
      <3> HIDE DEF f
      <3> QED
        BY <1>1, <1>2, <1>3
    <2>2. Len(e) + 1 \notin R
      BY <1>2
    <2>5. IsFiniteSet(R)
      BY RowsAre
    <2>3. Cardinality(T) = Cardinality(R) + 1
      <3> HIDE DEF R, T
      <3> QED
        BY <2>1, <2>2, <2>5, FS_AddElement
    <2>4. Rows(f) = Cardinality(T) /\ Rows(e) = Cardinality(R)
      <3> HIDE DEF f
      <3> QED
        BY <1>1, RowsAre
    <2> QED
      BY <2>3, <2>4, <1>3
  <1>4. CASE x # "row"
    <2>1. T = R
      <3> HIDE DEF f
      <3> QED
        BY <1>1, <1>2, <1>4
    <2>4. Rows(f) = Cardinality(T) /\ Rows(e) = Cardinality(R)
      <3> HIDE DEF f
      <3> QED
        BY <1>1, RowsAre
    <2> QED
      BY <2>1, <2>4, <1>4
  <1> QED
    BY <1>3, <1>4

\* ... and one less when a row is taken.
LEMMA RowsTaken ==
  ASSUME NEW S, NEW e \in Seq(S), e # <<>>
  PROVE  Rows(Tail(e)) = IF e[1] = "row" THEN Rows(e) - 1 ELSE Rows(e)
  <1> DEFINE f == Tail(e)
             U == {i \in DOMAIN e : e[i] = "row"}
             R == U \ {1}
             T == {i \in DOMAIN f : f[i] = "row"}
             b == [i \in R |-> i - 1]
  <1>1. /\ f \in Seq(S) /\ Len(f) = Len(e) - 1 /\ Len(e) \in Nat /\ Len(e) >= 1
        /\ \A i \in 1 .. Len(f) : f[i] = e[i + 1]
    OBVIOUS
  <1>2. DOMAIN f = 1 .. (Len(e) - 1) /\ DOMAIN e = 1 .. Len(e)
    BY <1>1
  <1> HIDE DEF f
  <1>3. b \in [R -> T]
    <2> SUFFICES ASSUME NEW i \in R PROVE i - 1 \in T
      OBVIOUS
    <2>1. i \in 1 .. Len(e) /\ i # 1 /\ e[i] = "row"
      BY <1>2
    <2>2. i - 1 \in 1 .. Len(f) /\ (i - 1) + 1 = i
      BY <2>1, <1>1
    <2> QED
      BY <2>1, <2>2, <1>1, <1>2
  <1>4. \A i, j \in R : b[i] = b[j] => i = j
    BY <1>2
  <1>5. \A t \in T : \E i \in R : b[i] = t
    <2> SUFFICES ASSUME NEW t \in T PROVE \E i \in R : b[i] = t
      OBVIOUS
    <2>1. t \in 1 .. Len(f) /\ f[t] = "row" /\ t + 1 \in 1 .. Len(e) /\ t + 1 # 1 /\ (t + 1) - 1 = t
      BY <1>1, <1>2
    <2>2. t + 1 \in R
      BY <2>1, <1>1, <1>2
    <2>3. b[t + 1] = t
      BY <2>1, <2>2
    <2> QED
      BY <2>2, <2>3
  <1>6. b \in Bijection(R, T)
    BY <1>3, <1>4, <1>5, Fun_IsBij
  <1>7. IsFiniteSet(U) /\ Rows(e) = Cardinality(U) /\ Cardinality(U) \in Nat
    BY RowsAre
  <1>8. IsFiniteSet(R)
    BY <1>7, FS_RemoveElement
  <1>9. Cardinality(T) = Cardinality(R)
    BY <1>6, <1>8, FS_Bijection DEF ExistsBijection
  <1>10. Cardinality(R) = IF 1 \in U THEN Cardinality(U) - 1 ELSE Cardinality(U)
    BY <1>7, FS_RemoveElement
  <1>11. 1 \in U <=> e[1] = "row"
    BY <1>1, <1>2
  <1>12. Rows(f) = Cardinality(T)
    BY <1>1, RowsAre
  <1> QED
    BY <1>7, <1>9, <1>10, <1>11, <1>12 DEF f

\* The object of a query, with events of any number.
QueryObject ==
    [state : {"new", "start", "rows"}, events : Seq({"columns", "row", "end"}),
     over : BOOLEAN, failed : BOOLEAN, paused : BOOLEAN, waiting : BOOLEAN, abandoned : BOOLEAN,
     reader : {"none", "reading", "stopped", "done", "error"}, got : SUBSET (Query \cup Ping)]

\* Its rows, and its other events.
Buffered(q) == Rows(q.events)
Others(q) == Len(q.events) - Rows(q.events)

\* It is paused with more than the low-water mark to read, and before it has the high-water mark.
Watched(q) ==
    /\ q.paused => Buffered(q) > LowWater
    /\ q.paused \/ Buffered(q) < HighWater

\* The packets a query may be sent where it is.
Fits(state, kind) ==
    \/ state = "start" /\ kind \in {"head", "ok", "okmore", "err"}
    \/ state = "rows" /\ kind \in {"row", "end", "more", "err"}

\* The events of a query are its rows and the others.
LEMMA NumbersOfObjects ==
  ASSUME NEW q \in QueryObject
  PROVE  /\ q.events \in Seq({"columns", "row", "end"}) /\ Len(q.events) \in Nat
         /\ Buffered(q) \in Nat /\ Others(q) \in Nat /\ Len(q.events) = Buffered(q) + Others(q)
  <1>1. q.events \in Seq({"columns", "row", "end"})
    BY DEF QueryObject
  <1>2. Len(q.events) \in Nat
    BY <1>1
  <1>3. Rows(q.events) \in Nat /\ Rows(q.events) <= Len(q.events)
    BY <1>1, RowsAre
  <1> QED
    BY <1>1, <1>2, <1>3 DEF Buffered, Others

\* What an event changes ...
LEMMA AppendingIs ==
  ASSUME NEW q \in QueryObject, ~q.abandoned, NEW e \in {"columns", "row", "end"},
         NEW r, r = [q EXCEPT !.events = Append(@, e)]
  PROVE  /\ r \in QueryObject /\ r.events = Append(q.events, e)
         /\ r.state = q.state /\ r.over = q.over /\ r.got = q.got /\ r.paused = q.paused
         /\ r.abandoned = q.abandoned
         /\ Buffered(r) = IF e = "row" THEN Buffered(q) + 1 ELSE Buffered(q)
         /\ Others(r) = IF e = "row" THEN Others(q) ELSE Others(q) + 1
  <1>1. q.events \in Seq({"columns", "row", "end"})
    BY DEF QueryObject
  <1>2. /\ r \in QueryObject /\ r.events = Append(q.events, e)
        /\ r.state = q.state /\ r.over = q.over /\ r.got = q.got /\ r.paused = q.paused
        /\ r.abandoned = q.abandoned
    <2> DEFINE a == Append(q.events, e)
    <2>1. a \in Seq({"columns", "row", "end"})
      BY <1>1
    <2> HIDE DEF a
    <2>2. r = [q EXCEPT !.events = a]
      BY DEF a
    <2>3. r.events = a /\ r \in QueryObject
      BY <2>1, <2>2 DEF QueryObject
    <2> QED
      BY <2>2, <2>3 DEF QueryObject, a
  <1>3. Buffered(r) = IF e = "row" THEN Buffered(q) + 1 ELSE Buffered(q)
    BY <1>1, <1>2, RowsAppended DEF Buffered
  <1>4. Len(r.events) = Len(q.events) + 1
    BY <1>1, <1>2
  <1>5. /\ Buffered(q) \in Nat /\ Others(q) \in Nat /\ Len(q.events) = Buffered(q) + Others(q)
        /\ Buffered(r) \in Nat /\ Others(r) \in Nat /\ Len(r.events) = Buffered(r) + Others(r)
    BY <1>2, NumbersOfObjects
  <1> QED
    BY <1>2, <1>3, <1>4, <1>5

\* ... also when it is the one too many, or nobody listens ...
LEMMA EmittingIs ==
  ASSUME MyConstants, NEW q \in QueryObject, NEW e \in {"columns", "row", "end"},
         NEW r, r = Emitted(q, e)
  PROVE  /\ r \in QueryObject /\ r.state = q.state /\ r.over = q.over /\ r.got = q.got
         /\ q.paused => r.paused
         /\ Watched(q) => Watched(r)
         /\ Buffered(r) = Buffered(q) \/ Buffered(r) = Buffered(q) + 1
         /\ e # "row" => Buffered(r) = Buffered(q)
         /\ e = "row" => Others(r) <= Others(q)
         /\ Others(r) <= Others(q) + 1
  <1> DEFINE s == [q EXCEPT !.events = Append(@, e)]
             w == Woken(s)
  <1>0. HighWater \in Nat /\ LowWater \in Nat /\ LowWater < HighWater
    BY DEF MyConstants
  <1>1. CASE q.abandoned
    <2>1. r = q
      BY <1>1 DEF Emitted
    <2> QED
      BY <2>1, NumbersOfObjects
  <1>2. CASE ~q.abandoned
    <2>1. r = Held(w)
      BY <1>2 DEF Emitted
    <2>2. /\ s \in QueryObject
          /\ s.state = q.state /\ s.over = q.over /\ s.got = q.got /\ s.paused = q.paused
          /\ Buffered(s) = IF e = "row" THEN Buffered(q) + 1 ELSE Buffered(q)
          /\ Others(s) = IF e = "row" THEN Others(q) ELSE Others(q) + 1
      BY <1>2, AppendingIs
    <2>3. /\ w \in QueryObject /\ w.events = s.events
          /\ w.state = s.state /\ w.over = s.over /\ w.got = s.got /\ w.paused = s.paused
      <3> HIDE DEF s
      <3> QED
        BY <2>2 DEF Woken, QueryObject
    <2>4. /\ r \in QueryObject /\ r.events = w.events
          /\ r.state = w.state /\ r.over = w.over /\ r.got = w.got
          /\ r.paused <=> (w.paused \/ Rows(w.events) >= HighWater)
      <3> HIDE DEF w
      <3> QED
        BY <2>1, <2>3, Zenon DEF Held, QueryObject
    <2> HIDE DEF w, s
    <2>5. Buffered(r) = Buffered(s) /\ Buffered(w) = Buffered(s) /\ Others(r) = Others(s)
      BY <2>3, <2>4 DEF Buffered, Others
    <2>6. r.paused <=> (q.paused \/ Buffered(r) >= HighWater)
      BY <2>2, <2>3, <2>4, <2>5 DEF Buffered
    <2>7. Buffered(q) \in Nat /\ Others(q) \in Nat
      BY NumbersOfObjects
    <2> QED
      BY <1>0, <2>2, <2>3, <2>4, <2>5, <2>6, <2>7 DEF Watched
  <1> QED
    BY <1>1, <1>2

\* ... what an end or an error changes ...
LEMMA EndingIs ==
  ASSUME NEW q \in QueryObject, NEW r, r = Failed(q) \/ r = Completed(q)
  PROVE  /\ r \in QueryObject /\ r.state = q.state /\ r.over /\ r.got = q.got
         /\ r.paused = q.paused /\ r.events = q.events
  BY DEF Failed, Completed, Woken, QueryObject

\* ... and what a packet changes that fits.
LEMMA HandlingIs ==
  ASSUME MyConstants, NEW q \in QueryObject, NEW p \in Packets, ~q.over,
         Fits(q.state, p.kind), NEW r, r = Handled(q, p)
  PROVE  /\ r \in QueryObject /\ r.got = q.got \cup {p.of}
         /\ r.over <=> p.kind \in {"ok", "err", "end"}
         /\ p.kind \in {"head", "row"} => r.state = "rows"
         /\ p.kind \in {"more", "okmore"} => r.state = "start"
         /\ r.state # "new"
         /\ q.paused => r.paused
         /\ Watched(q) => Watched(r)
         /\ Buffered(r) = Buffered(q) \/ Buffered(r) = Buffered(q) + 1
         /\ Others(r) <= IF p.kind = "row" THEN Others(q) ELSE Others(q) + 1
  <1> DEFINE g == [q EXCEPT !.got = @ \cup {p.of}]
  <1>1. p.of \in Query \cup Ping
    BY DEF Packets
  <1>2. /\ g \in QueryObject /\ g.got = q.got \cup {p.of} /\ g.state = q.state
        /\ g.over = q.over /\ g.paused = q.paused /\ g.events = q.events
    BY <1>1 DEF QueryObject
  <1>3. r = IF q.state = "start" THEN InStart(g, p.kind) ELSE InRows(g, p.kind)
    BY <1>2 DEF Handled
  <1> HIDE DEF g
  <1>10. g \in QueryObject
    BY <1>2
  <1>4. Buffered(g) = Buffered(q) /\ Others(g) = Others(q) /\ (Watched(q) => Watched(g))
    BY <1>2 DEF Buffered, Others, Watched
  <1>5. Buffered(q) \in Nat /\ Others(q) \in Nat
    BY NumbersOfObjects
  <1>6. CASE p.kind = "err"
    <2>1. r = Failed(g)
      BY <1>3, <1>6 DEF Fits, InStart, InRows
    <2>2. /\ r \in QueryObject /\ r.state = g.state /\ r.over /\ r.got = g.got
          /\ r.paused = g.paused /\ r.events = g.events
      BY <2>1, <1>2, EndingIs
    <2> QED
      BY <2>2, <1>2, <1>4, <1>5, <1>6 DEF Buffered, Others, Watched, Fits
  <1>7. CASE p.kind \in {"ok", "end"}
    <2> DEFINE m == Emitted(g, "end")
    <2>1. r = Completed(m)
      BY <1>3, <1>7 DEF Fits, InStart, InRows
    <2>2. /\ m \in QueryObject /\ m.state = g.state /\ m.got = g.got
      BY <1>10, EmittingIs, Zenon
    <2>6. (g.paused => m.paused) /\ (Watched(g) => Watched(m))
      BY <1>10, EmittingIs, Zenon
    <2>5. Buffered(m) = Buffered(g) /\ Others(m) <= Others(g) + 1
      BY <1>10, EmittingIs
    <2> HIDE DEF m
    <2>3. /\ r \in QueryObject /\ r.state = m.state /\ r.over /\ r.got = m.got
          /\ r.paused = m.paused /\ r.events = m.events
      BY <2>1, <2>2, EndingIs
    <2>4. Buffered(r) = Buffered(m) /\ Others(r) = Others(m) /\ (Watched(m) => Watched(r))
      BY <2>3 DEF Buffered, Others, Watched
    <2> QED
      BY <2>2, <2>3, <2>4, <2>5, <2>6, <1>2, <1>4, <1>5, <1>7 DEF Fits
  <1>8. CASE p.kind = "row"
    <2>1. r = Emitted(g, "row")
      BY <1>3, <1>8 DEF Fits, InStart, InRows
    <2>2. /\ r \in QueryObject /\ r.state = g.state /\ r.over = g.over /\ r.got = g.got
      BY <2>1, <1>10, EmittingIs, Zenon
    <2>6. (g.paused => r.paused) /\ (Watched(g) => Watched(r))
      BY <2>1, <1>10, EmittingIs, Zenon
    <2>3. /\ Buffered(r) = Buffered(g) \/ Buffered(r) = Buffered(g) + 1
          /\ Others(r) <= Others(g)
      BY <2>1, <1>10, EmittingIs
    <2> QED
      BY <2>2, <2>3, <2>6, <1>2, <1>4, <1>5, <1>8 DEF Fits
  <1>9. CASE p.kind \in {"head", "more"}
    <2> DEFINE e == IF p.kind = "head" THEN "columns" ELSE "end"
               m == Emitted(g, e)
               t == IF p.kind = "head" THEN "rows" ELSE "start"
    <2>7. e \in {"columns", "row", "end"} /\ e # "row"
      BY <1>9
    <2>1. r = [m EXCEPT !.state = t]
      BY <1>3, <1>9 DEF Fits, InStart, InRows
    <2> HIDE DEF e
    <2>2. /\ m \in QueryObject /\ m.over = g.over /\ m.got = g.got
      BY <1>10, <2>7, EmittingIs, Zenon
    <2>6. (g.paused => m.paused) /\ (Watched(g) => Watched(m))
      BY <1>10, <2>7, EmittingIs, Zenon
    <2>5. Buffered(m) = Buffered(g) /\ Others(m) <= Others(g) + 1
      BY <1>10, <2>7, EmittingIs
    <2> HIDE DEF m
    <2>3. /\ r \in QueryObject /\ r.state = t /\ r.over = m.over /\ r.got = m.got
          /\ r.paused = m.paused /\ r.events = m.events
      BY <2>1, <2>2 DEF QueryObject
    <2>4. Buffered(r) = Buffered(m) /\ Others(r) = Others(m) /\ (Watched(m) => Watched(r))
      BY <2>3 DEF Buffered, Others, Watched
    <2> QED
      BY <2>2, <2>3, <2>4, <2>5, <2>6, <1>2, <1>4, <1>5, <1>9 DEF Fits
  <1>11. CASE p.kind = "okmore"
    <2>1. r = Emitted(g, "end") /\ q.state = "start"
      BY <1>3, <1>11 DEF Fits, InStart, InRows
    <2>2. /\ r \in QueryObject /\ r.state = g.state /\ r.over = g.over /\ r.got = g.got
      BY <2>1, <1>10, EmittingIs, Zenon
    <2>6. (g.paused => r.paused) /\ (Watched(g) => Watched(r))
      BY <2>1, <1>10, EmittingIs, Zenon
    <2>3. Buffered(r) = Buffered(g) /\ Others(r) <= Others(g) + 1
      BY <2>1, <1>10, EmittingIs
    <2> QED
      BY <2>1, <2>2, <2>3, <2>6, <1>2, <1>4, <1>5, <1>11
  <1> QED
    BY <1>6, <1>7, <1>8, <1>9, <1>11 DEF Fits

\* What a server may send after what.
Follows(a, b) ==
    \/ a \in {"head", "row"} /\ b \in {"row", "end", "more", "err"}
    \/ a \in {"more", "okmore"} /\ b \in {"ok", "err"}

\* How the server stands after the last packet it sent ...
Leaves(kind, s) ==
    \/ kind \in {"head", "row"} /\ s >= 0
    \/ kind \in {"more", "okmore"} /\ s = -2

\* ... and before the next that a query waits for.
Awaits(state, s) ==
    \/ state = "start" /\ s < 0
    \/ state = "rows" /\ s >= 0

\* Queries and pings have their types, and nothing comes unasked.
MyTypes ==
    /\ query \in [Query -> QueryObject]
    /\ ping \in [Ping -> {"new", "asked", "answered"}]
    /\ closed \in BOOLEAN /\ paused \in BOOLEAN
    /\ inbox = <<>>

\* So have the packets, and an event holds no more than what is on its way.
MyNumbers ==
    /\ wire \in Seq(Packets)
    /\ sent \in Int /\ -2 <= sent /\ sent <= MaxRows
    /\ burst \in Nat /\ burst <= Chunk - 1 /\ burst <= Len(wire)

\* No ping is unanswered.
NoPingAsked == \A p \in Ping : ping[p] # "asked"

\* The connection is free, or was lost.
Resting ==
    /\ handler \notin Query /\ handler \in Ping \cup {none} /\ current = none
    /\ asked = <<>> /\ Len(wire) = 0 /\ sent = -1
    /\ closed \/ (handler = none /\ NoPingAsked)

\* A ping is out.
Pinging ==
    /\ ~closed
    /\ handler \in Ping /\ current = none /\ sent = -1 /\ ping[handler] = "asked"
    /\ \A p \in Ping : ping[p] = "asked" => p = handler
    /\ \/ asked = <<handler>> /\ Len(wire) = 0
       \/ asked = <<>> /\ Len(wire) = 1

\* A query has the connection.
Running ==
    /\ ~closed
    /\ handler \in Query /\ current = handler
    /\ NoPingAsked
    /\ asked = <<handler>> \/ asked = <<>>

\* It is one of the three.
MyModes == Resting \/ Pinging \/ Running

\* What is on its way is the rest of one answer, of the query that has the connection: each packet
\* fits after the one before it, the first where the query is, and the last where the server is.
MyStream ==
    handler \in Query =>
      /\ ~query[handler].over
      /\ query[handler].state \in {"start", "rows"}
      /\ \A i \in 1 .. Len(wire) : wire[i].of = handler
      /\ Len(wire) > 0 => Fits(query[handler].state, wire[1].kind)
      /\ \A i \in 1 .. Len(wire) : i < Len(wire) => Follows(wire[i].kind, wire[i + 1].kind)
      /\ asked # <<>> /\ Len(wire) > 0 => Leaves(wire[Len(wire)].kind, sent)
      /\ asked # <<>> /\ Len(wire) = 0 => Awaits(query[handler].state, sent)
      /\ asked = <<>> => /\ Len(wire) > 0 /\ sent = -1
                         /\ wire[Len(wire)].kind \in {"ok", "err", "end"}

\* A query reads packets of its own, and is not paused before it begins.
MyAnswers ==
    \A k \in Query :
      /\ query[k].got \subseteq {k}
      /\ query[k].state = "new" => ~query[k].paused

\* The first packet of an answer that goes on is the next that comes.
Opening ==
    \/ Len(wire) > 0 /\ wire[1].kind \in {"head", "okmore"}
    \/ Len(wire) = 0 /\ sent = -1 /\ asked # <<>>

\* Beside its rows a query has three events at most: the columns and the end of a result (or the end
\* alone, of one without rows), and the end of a second one.
MyRest ==
    \A k \in Query :
      /\ Others(query[k]) <= 3
      /\ k = current => Others(query[k]) <= 2
      /\ k = current /\ query[k].state = "rows" => Others(query[k]) <= 1
      /\ k = current /\ query[k].state = "start" /\ Opening => Others(query[k]) = 0

\* A query that is not paused has less than the high-water mark; one that is, room for what its
\* event still holds.
MyRoom ==
    \A k \in Query :
      /\ Watched(query[k])
      /\ Buffered(query[k]) <= HighWater + Chunk - 1
      /\ k = current /\ query[k].paused =>
           Buffered(query[k]) <= HighWater + Chunk - 1 - burst

\* The socket is paused for one query, and in the middle of an event for the current one.
MySocket ==
    /\ \A k \in Query : query[k].paused => paused
    /\ paused => \E k \in Query : query[k].paused
    /\ \A j, k \in Query : query[j].paused /\ query[k].paused => j = k
    /\ \A j \in Query : burst > 0 /\ query[j].paused => j = current

\* The inductive invariant of a MySQL connection.
MyInv ==
    /\ MyTypes /\ MyNumbers /\ MyModes /\ MyStream
    /\ MyAnswers /\ MyRest /\ MyRoom /\ MySocket

\* A query that was not begun, and one that was just begun.
LEMMA FreshIs ==
  ASSUME MyConstants, NEW q,
         q = Fresh \/ q = [Fresh EXCEPT !.state = "start", !.reader = "reading"]
  PROVE  /\ q \in QueryObject /\ q.state = (IF q = Fresh THEN "new" ELSE "start")
         /\ ~q.over /\ q.got = {} /\ ~q.paused
         /\ q.paused = FALSE /\ Watched(q) /\ Buffered(q) = 0 /\ Others(q) = 0
  <1>0. <<>> \in Seq({"columns", "row", "end"})
    OBVIOUS
  <1>1. /\ Fresh \in QueryObject /\ Fresh.state = "new" /\ ~Fresh.over
        /\ Fresh.got = {} /\ Fresh.paused = FALSE /\ Fresh.events = <<>>
    BY <1>0 DEF Fresh, QueryObject
  <1>2. /\ q \in QueryObject /\ ~q.over
        /\ q.got = {} /\ q.paused = FALSE /\ q.events = <<>>
    BY <1>1 DEF QueryObject
  <1>3. q.state = (IF q = Fresh THEN "new" ELSE "start")
    BY <1>1 DEF QueryObject
  <1>4. Buffered(q) = 0 /\ Others(q) = 0
    BY <1>2, RowsOfNothing DEF Buffered, Others
  <1> QED
    BY <1>2, <1>3, <1>4 DEF Watched, MyConstants

\* A connection begins with nothing asked.
LEMMA MysqlBegins == ASSUME MyConstants, Init PROVE MyInv
  <1>1. /\ query = [k \in Query |-> Fresh]
        /\ ping = [p \in Ping |-> "new"]
        /\ current = none /\ handler = none
        /\ inbox = <<>> /\ closed = FALSE /\ paused = FALSE
        /\ asked = <<>> /\ sent = -1 /\ wire = <<>> /\ burst = 0
    BY DEF Init
  <1>3. /\ Fresh \in QueryObject /\ Fresh.state = "new" /\ Fresh.got = {}
        /\ ~Fresh.paused /\ Watched(Fresh)
        /\ Buffered(Fresh) = 0 /\ Others(Fresh) = 0
    BY FreshIs, Zenon
  <1>4. \A k \in Query : query[k] = Fresh
    BY <1>1
  <1>5. MyTypes
    BY <1>1, <1>3 DEF MyTypes
  <1>6. MyNumbers
    BY <1>1 DEF MyNumbers, MyConstants
  <1>7. MyModes
    BY <1>1 DEF MyModes, Resting, NoPingAsked, MyConstants
  <1>8. MyStream
    BY <1>1 DEF MyStream, MyConstants
  <1>9. MyAnswers
    BY <1>3, <1>4, Zenon DEF MyAnswers
  <1>10. MyRest
    BY <1>1, <1>3, <1>4 DEF MyRest, MyConstants
  <1>11. MyRoom
    BY <1>1, <1>3, <1>4 DEF MyRoom, MyConstants
  <1>12. MySocket
    BY <1>1, <1>3, <1>4, Zenon DEF MySocket
  <1> QED
    BY <1>5, <1>6, <1>7, <1>8, <1>9, <1>10, <1>11, <1>12 DEF MyInv

\* What a consumer does, reading or walking away, keeps the invariant ...
LEMMA ConsumerKeeps ==
  ASSUME MyConstants, MyInv, NEW k \in Query, NEW r \in QueryObject,
         r.state = query[k].state, r.over = query[k].over, r.got = query[k].got,
         r.paused => query[k].paused, Watched(r),
         Buffered(r) <= Buffered(query[k]), Others(r) <= Others(query[k]),
         query' = [query EXCEPT ![k] = r],
         paused' \in BOOLEAN,
         query[k].paused /\ ~r.paused => ~paused',
         (r.paused <=> query[k].paused) => paused' = paused,
         UNCHANGED <<ping, current, handler, inbox, closed, asked, sent, wire, burst>>
  PROVE  MyInv'
  <1> USE DEF MyInv
  <1>1. /\ query' \in [Query -> QueryObject] /\ query'[k] = r
        /\ \A j \in Query : j # k => query'[j] = query[j]
    BY DEF MyTypes
  <1>2. \A j \in Query : /\ query'[j].state = query[j].state /\ query'[j].got = query[j].got
                         /\ Buffered(query'[j]) <= Buffered(query[j])
                         /\ Others(query'[j]) <= Others(query[j])
    <2> TAKE j \in Query
    <2>1. Buffered(query[j]) \in Nat /\ Others(query[j]) \in Nat
      BY NumbersOfObjects DEF MyTypes
    <2> QED
      BY <1>1, <2>1
  <1>3. \A j \in Query : /\ query'[j].over = query[j].over /\ (query'[j].paused => query[j].paused)
                         /\ Watched(query'[j])
    BY <1>1, Zenon DEF MyRoom
  <1>4. \A j \in Query : /\ Buffered(query[j]) \in Nat /\ Buffered(query'[j]) \in Nat
                         /\ Others(query[j]) \in Nat /\ Others(query'[j]) \in Nat
    BY <1>1, NumbersOfObjects DEF MyTypes
  <1>5. MyTypes'
    BY <1>1 DEF MyTypes
  <1>6. MyNumbers'
    BY DEF MyNumbers
  <1>7. MyModes'
    BY DEF MyModes, Resting, Pinging, Running, NoPingAsked
  <1>8. MyStream'
    BY <1>2, <1>3 DEF MyStream
  <1>9. MyAnswers'
    BY <1>2, <1>3, Zenon DEF MyAnswers
  <1>10. MyRest'
    BY <1>2, <1>4 DEF MyRest, Opening
  <1>11. MyRoom'
    BY <1>2, <1>3, <1>4 DEF MyRoom, MyNumbers, MyConstants
  <1>12. MySocket'
    <2>1. CASE r.paused <=> query[k].paused
      <3>1. paused' = paused
        BY <2>1
      <3>2. \A j \in Query : query'[j].paused <=> query[j].paused
        BY <1>1, <2>1, Zenon
      <3> QED
        BY <3>1, <3>2 DEF MySocket
    <2>2. CASE query[k].paused /\ ~r.paused
      <3>1. ~paused'
        BY <2>2
      <3>2. \A j \in Query : ~query'[j].paused
        BY <1>1, <2>2, Zenon DEF MySocket
      <3> QED
        BY <3>1, <3>2, Zenon DEF MySocket
    <2> QED
      BY <2>1, <2>2
  <1> QED
    BY <1>5, <1>6, <1>7, <1>8, <1>9, <1>10, <1>11, <1>12

\* ... taking an event ...
LEMMA TakeKeeps == ASSUME MyConstants, MyInv, NEW k \in Query, Take(k) PROVE MyInv'
  <1> DEFINE e == query[k].events
             n == Tail(e)
             r == [query[k] EXCEPT !.events = n, !.paused = @ /\ Rows(n) > LowWater]
  <1>1. /\ e # <<>> /\ query' = [query EXCEPT ![k] = r]
        /\ paused' = SocketAfter(query[k], r)
        /\ UNCHANGED <<ping, current, handler, inbox, closed, asked, sent, wire, burst>>
    BY Zenon DEF Take
  <1>2. query[k] \in QueryObject
    BY DEF MyInv, MyTypes
  <1>3. e \in Seq({"columns", "row", "end"})
    BY <1>2 DEF QueryObject
  <1>4. n \in Seq({"columns", "row", "end"}) /\ Len(n) = Len(e) - 1
    BY <1>1, <1>3
  <1>5. Rows(n) = IF e[1] = "row" THEN Rows(e) - 1 ELSE Rows(e)
    BY <1>1, <1>3, RowsTaken
  <1> HIDE DEF n
  <1>6. Rows(n) \in Nat /\ Rows(e) \in Nat /\ Len(e) \in Nat
    <2> HIDE DEF e
    <2>1. Rows(n) \in Nat
      BY <1>4, RowsAre
    <2>2. Rows(e) \in Nat
      BY <1>3, RowsAre
    <2> QED
      BY <1>3, <2>1, <2>2
  <1>9. (query[k].paused /\ Rows(n) > LowWater) \in BOOLEAN
    OBVIOUS
  <1>7. /\ r \in QueryObject /\ r.state = query[k].state /\ r.over = query[k].over
        /\ r.got = query[k].got /\ r.events = n
    BY <1>2, <1>4, <1>9 DEF QueryObject
  <1>8. r.paused <=> (query[k].paused /\ Rows(n) > LowWater)
    BY <1>2, Zenon DEF QueryObject
  <1> HIDE DEF r
  <1>10. Buffered(r) = Rows(n) /\ Others(r) = Len(n) - Rows(n)
    BY <1>7 DEF Buffered, Others
  <1>11. Buffered(query[k]) = Rows(e) /\ Others(query[k]) = Len(e) - Rows(e)
    BY DEF Buffered, Others
  <1>12. Buffered(r) <= Buffered(query[k]) /\ Others(r) <= Others(query[k])
    BY <1>4, <1>5, <1>6, <1>10, <1>11
  <1>13. query[k].paused \/ Buffered(query[k]) < HighWater
    BY DEF MyInv, MyRoom, Watched
  <1>16. Buffered(r) < HighWater \/ r.paused
    <2>1. CASE Rows(n) > LowWater
      BY <1>8, <1>12, <1>13, <1>6, <1>10, <1>11, <2>1 DEF MyConstants
    <2>2. CASE Rows(n) <= LowWater
      BY <1>6, <1>10, <2>2 DEF MyConstants
    <2> QED
      BY <2>1, <2>2, <1>6 DEF MyConstants
  <1>14. Watched(r)
    BY <1>8, <1>10, <1>16 DEF Watched
  <1>15. /\ paused' \in BOOLEAN
         /\ query[k].paused /\ ~r.paused => ~paused'
         /\ (r.paused <=> query[k].paused) => paused' = paused
    BY <1>1, <1>2, <1>7, Zenon DEF SocketAfter, QueryObject, MyInv, MyTypes
  <1> QED
    BY <1>1, <1>7, <1>8, <1>12, <1>14, <1>15, ConsumerKeeps, Zenon

\* ... the last one, or waiting for one ...
LEMMA TakeLastKeeps == ASSUME MyConstants, MyInv, NEW k \in Query, TakeLast(k) PROVE MyInv'
  <1>1. query[k] \in QueryObject
    BY DEF MyInv, MyTypes
  <1>2. PICK r \in {[query[k] EXCEPT !.reader = "error"], [query[k] EXCEPT !.reader = "done"],
                    [query[k] EXCEPT !.waiting = TRUE]} : query' = [query EXCEPT ![k] = r]
    BY Zenon DEF TakeLast
  <1>3. UNCHANGED <<ping, current, handler, inbox, closed, paused, asked, sent, wire, burst>>
    BY DEF TakeLast
  <1>4. /\ r \in QueryObject /\ r.state = query[k].state /\ r.over = query[k].over
        /\ r.got = query[k].got /\ r.events = query[k].events /\ r.paused = query[k].paused
    BY <1>1, <1>2 DEF QueryObject
  <1>5. Watched(query[k])
    BY DEF MyInv, MyRoom
  <1>6. Buffered(r) = Buffered(query[k]) /\ Others(r) = Others(query[k]) /\ Watched(r)
    BY <1>4, <1>5 DEF Buffered, Others, Watched
  <1>7. Buffered(query[k]) \in Nat /\ Others(query[k]) \in Nat
    BY <1>1, NumbersOfObjects
  <1>8. Buffered(r) <= Buffered(query[k]) /\ Others(r) <= Others(query[k])
    BY <1>6, <1>7
  <1>9. paused' \in BOOLEAN
    BY <1>3 DEF MyInv, MyTypes
  <1> QED
    BY <1>2, <1>3, <1>4, <1>6, <1>8, <1>9, ConsumerKeeps, Zenon

\* ... or leaving.
LEMMA StopKeeps == ASSUME MyConstants, MyInv, NEW k \in Query, Stop(k) PROVE MyInv'
  <1> DEFINE r == Abandoned(query[k])
  <1>1. /\ query' = [query EXCEPT ![k] = r]
        /\ paused' = SocketAfter(query[k], r)
        /\ UNCHANGED <<ping, current, handler, inbox, closed, asked, sent, wire, burst>>
    BY Zenon DEF Stop
  <1>2. query[k] \in QueryObject
    BY DEF MyInv, MyTypes
  <1>3. <<>> \in Seq({"columns", "row", "end"})
    OBVIOUS
  <1>4. /\ r \in QueryObject /\ r.state = query[k].state /\ r.over = query[k].over
        /\ r.got = query[k].got /\ r.events = <<>> /\ r.paused = FALSE
    BY <1>2, <1>3 DEF Abandoned, QueryObject
  <1> HIDE DEF r
  <1>5. Buffered(r) = 0 /\ Others(r) = 0
    BY <1>4, RowsOfNothing DEF Buffered, Others
  <1>6. Buffered(query[k]) \in Nat /\ Others(query[k]) \in Nat
    BY <1>2, NumbersOfObjects
  <1>7. Buffered(r) <= Buffered(query[k]) /\ Others(r) <= Others(query[k]) /\ Watched(r)
    BY <1>4, <1>5, <1>6 DEF Watched, MyConstants
  <1>8. /\ paused' \in BOOLEAN
        /\ query[k].paused /\ ~r.paused => ~paused'
        /\ (r.paused <=> query[k].paused) => paused' = paused
    BY <1>1, <1>2, <1>4, Zenon DEF SocketAfter, QueryObject, MyInv, MyTypes
  <1>9. r.paused => query[k].paused
    BY <1>4
  <1> QED
    BY <1>1, <1>4, <1>7, <1>8, <1>9, ConsumerKeeps, Zenon

\* A query begins on a connection that is free ...
LEMMA StartKeeps == ASSUME MyConstants, MyInv, NEW k \in Query, burst = 0, Start(k) PROVE MyInv'
  <1> USE DEF MyInv
  <1> DEFINE r == [Fresh EXCEPT !.state = "start", !.reader = "reading"]
  <1>1. inbox = <<>>
    BY DEF MyTypes
  <1>2. FoldLeft(Handled, r, inbox) = r
    BY <1>1, NothingFolded
  <1>3. /\ query[k].state = "new" /\ ~closed /\ current = none
        /\ NoPingOut
        /\ query' = [query EXCEPT ![k] = r]
        /\ paused' = SocketAfter(r, r)
        /\ current' = IF r.over THEN none ELSE k
        /\ handler' = IF r.over THEN none ELSE k
        /\ inbox' = <<>>
        /\ asked' = Append(asked, k)
        /\ UNCHANGED <<ping, closed, sent, wire, burst>>
    <2> HIDE DEF r
    <2> QED
      BY <1>2, Zenon DEF Start, r, Busy, MyConstants
  <1>4. /\ r \in QueryObject /\ r.state = "start" /\ ~r.over /\ r.got = {} /\ ~r.paused
        /\ Watched(r) /\ Buffered(r) = 0 /\ Others(r) = 0
    <2>1. r # Fresh
      BY DEF Fresh
    <2> QED
      BY <2>1, FreshIs, Zenon
  <1>5. paused' = paused
    BY <1>3 DEF SocketAfter
  <1>6. current' = k /\ handler' = k
    BY <1>3, <1>4
  <1>7. Resting /\ handler = none
    <2>1. ~Running
      BY <1>3 DEF Running, MyConstants
    <2>2. ~Pinging
      BY <1>3 DEF Pinging, NoPingOut
    <2> QED
      BY <2>1, <2>2, <1>3 DEF MyModes, Resting
  <1>8. asked = <<>> /\ Len(wire) = 0 /\ sent = -1
    BY <1>7 DEF Resting
  <1>9. asked' = <<k>> /\ asked' # <<>>
    BY <1>3, <1>8
  <1> HIDE DEF r
  <1>10. /\ query' \in [Query -> QueryObject] /\ query'[k] = r
         /\ \A j \in Query : j # k => query'[j] = query[j]
    BY <1>3, <1>4 DEF MyTypes
  <1>11. wire' = wire /\ sent' = sent /\ burst' = 0 /\ ping' = ping /\ closed' = closed
    BY <1>3
  <1>21. MyTypes'
    BY <1>3, <1>5, <1>10 DEF MyTypes
  <1>22. MyNumbers'
    BY <1>11 DEF MyNumbers
  <1>23. MyModes'
    <2>1. NoPingAsked'
      BY <1>3 DEF NoPingOut, NoPingAsked
    <2> QED
      BY <1>3, <1>6, <1>9, <2>1 DEF MyModes, Running
  <1>24. MyStream'
    BY <1>4, <1>6, <1>8, <1>9, <1>10, <1>11 DEF MyStream, Awaits
  <1>25. MyAnswers'
    BY <1>4, <1>10, Zenon DEF MyAnswers
  <1>26. MyRest'
    BY <1>4, <1>6, <1>8, <1>10 DEF MyRest
  <1>27. MyRoom'
    BY <1>4, <1>6, <1>10, <1>11 DEF MyRoom, MyConstants
  <1>28. MySocket'
    <2>1. ~query[k].paused
      BY <1>3 DEF MyAnswers
    <2>2. \A j \in Query : query'[j].paused <=> query[j].paused
      BY <1>4, <1>10, <2>1, Zenon
    <2> QED
      BY <1>5, <1>11, <2>2 DEF MySocket
  <1> QED
    BY <1>21, <1>22, <1>23, <1>24, <1>25, <1>26, <1>27, <1>28

\* ... and so does a ping.
LEMMA SendPingKeeps ==
  ASSUME MyConstants, MyInv, NEW p \in Ping, burst = 0, SendPing(p)
  PROVE  MyInv'
  <1> USE DEF MyInv
  <1>1. inbox = <<>>
    BY DEF MyTypes
  <1>2. /\ current = none /\ NoPingOut
        /\ ping' = [ping EXCEPT ![p] = "asked"]
        /\ handler' = p /\ inbox' = <<>>
        /\ asked' = IF closed THEN asked ELSE Append(asked, p)
        /\ UNCHANGED <<query, current, closed, paused, sent, wire, burst>>
    BY <1>1 DEF SendPing, Busy, MyConstants
  <1>3. Resting
    <2>1. ~Running
      BY <1>2 DEF Running, MyConstants
    <2>2. ~Pinging
      BY <1>2 DEF Pinging, NoPingOut
    <2> QED
      BY <2>1, <2>2, <1>2 DEF MyModes
  <1>4. asked = <<>> /\ Len(wire) = 0 /\ sent = -1
    BY <1>3 DEF Resting
  <1>5. /\ ping'[p] = "asked" /\ \A o \in Ping : o # p => ping'[o] = ping[o]
        /\ ping' \in [Ping -> {"new", "asked", "answered"}]
    BY <1>2 DEF MyTypes
  <1>6. p \notin Query
    BY DEF MyConstants
  <1>21. MyTypes'
    BY <1>2, <1>5 DEF MyTypes
  <1>22. MyNumbers'
    BY <1>2 DEF MyNumbers
  <1>23. MyModes'
    <2>1. CASE closed
      <3>1. asked' = <<>>
        BY <1>2, <1>4, <2>1
      <3> QED
        BY <1>2, <1>4, <1>6, <2>1, <3>1 DEF MyModes, Resting
    <2>2. CASE ~closed
      <3>1. asked' = <<p>>
        BY <1>2, <1>4, <2>2
      <3> QED
        BY <1>2, <1>4, <1>5, <2>2, <3>1 DEF MyModes, Pinging, NoPingOut
    <2> QED
      BY <2>1, <2>2
  <1>24. MyStream'
    BY <1>2, <1>6 DEF MyStream
  <1>25. MyAnswers'
    BY <1>2 DEF MyAnswers
  <1>26. MyRest'
    BY <1>2 DEF MyRest, MyConstants
  <1>27. MyRoom'
    BY <1>2 DEF MyRoom
  <1>28. MySocket'
    BY <1>2 DEF MySocket
  <1> QED
    BY <1>21, <1>22, <1>23, <1>24, <1>25, <1>26, <1>27, <1>28

\* A packet that comes is the first on its way ...
LEMMA ReceiveIs ==
  ASSUME MyConstants, MyInv, Receive
  PROVE  /\ Len(wire) \in Nat /\ Len(wire) > 0 /\ (burst > 0 \/ ~paused)
         /\ wire' = Tail(wire) /\ Len(wire') = Len(wire) - 1
         /\ wire' \in Seq(Packets)
         /\ \A i \in 1 .. Len(wire') : wire'[i] = wire[i + 1]
         /\ wire[1] \in Packets /\ Head(wire) = wire[1]
         /\ burst' \in Nat /\ burst' <= Chunk - 1 /\ burst' <= Len(wire')
         /\ burst > 0 => burst' = burst - 1
         /\ burst \in Nat
         /\ UNCHANGED <<closed, asked, sent>>
  <1>1. wire \in Seq(Packets) /\ burst \in Nat /\ burst <= Chunk - 1
    BY DEF MyInv, MyNumbers
  <1>2. /\ wire # <<>> /\ (burst > 0 \/ ~paused) /\ wire' = Tail(wire)
        /\ \E n \in 0 .. Chunk - 1 : burst' = IF burst > 0 THEN burst - 1 ELSE n
        /\ burst' < Len(wire) /\ UNCHANGED <<closed, asked, sent>>
    BY DEF Receive
  <1>3. /\ Len(wire) \in Nat /\ Len(wire) > 0
        /\ wire' \in Seq(Packets) /\ Len(wire') = Len(wire) - 1
        /\ \A i \in 1 .. Len(wire') : wire'[i] = wire[i + 1]
        /\ wire[1] \in Packets /\ Head(wire) = wire[1]
    BY <1>1, <1>2
  <1>4. burst' \in Nat /\ burst' <= Chunk - 1 /\ (burst > 0 => burst' = burst - 1)
    BY <1>1, <1>2 DEF MyConstants
  <1> QED
    BY <1>1, <1>2, <1>3, <1>4

\* ... the answer to a ping ...
LEMMA ReceivePingKeeps == ASSUME MyConstants, MyInv, ReceivePing PROVE MyInv'
  <1> USE DEF MyInv
  <1>1. /\ handler \in Ping /\ ping' = [ping EXCEPT ![handler] = "answered"]
        /\ handler' = none /\ UNCHANGED <<query, current, inbox, paused>>
        /\ UNCHANGED <<closed, asked, sent>>
    BY DEF ReceivePing, Receive
  <1>2. /\ Len(wire) > 0 /\ Len(wire') = Len(wire) - 1 /\ wire' \in Seq(Packets)
        /\ burst' \in Nat /\ burst' <= Chunk - 1 /\ burst' <= Len(wire')
    BY ReceiveIs DEF ReceivePing
  <1>3. Pinging
    BY <1>1, <1>2 DEF MyModes, Resting, Running, MyConstants
  <1>4. asked = <<>> /\ Len(wire') = 0 /\ sent = -1 /\ current = none /\ burst' = 0
    BY <1>2, <1>3 DEF Pinging
  <1>5. /\ ping' \in [Ping -> {"new", "asked", "answered"}]
        /\ \A p \in Ping : ping'[p] # "asked"
    BY <1>1, <1>3 DEF MyTypes, Pinging
  <1>21. MyTypes'
    BY <1>1, <1>5 DEF MyTypes
  <1>22. MyNumbers'
    BY <1>1, <1>2 DEF MyNumbers
  <1>23. MyModes'
    BY <1>1, <1>4, <1>5 DEF MyModes, Resting, NoPingAsked, MyConstants
  <1>24. MyStream'
    BY <1>1 DEF MyStream, MyConstants
  <1>25. MyAnswers'
    BY <1>1 DEF MyAnswers
  <1>26. MyRest'
    BY <1>1, <1>4 DEF MyRest, MyConstants
  <1>27. MyRoom'
    BY <1>1, <1>4 DEF MyRoom, MyConstants
  <1>28. MySocket'
    BY <1>1, <1>4 DEF MySocket
  <1> QED
    BY <1>21, <1>22, <1>23, <1>24, <1>25, <1>26, <1>27, <1>28

\* ... never one that nobody waits for ...
LEMMA ReceiveNobodyNever == ASSUME MyConstants, MyInv, ReceiveNobody PROVE FALSE
  <1>1. handler = none
    BY DEF ReceiveNobody
  <1>2. Len(wire) > 0
    BY ReceiveIs DEF ReceiveNobody
  <1> QED
    BY <1>1, <1>2 DEF MyInv, MyModes, Resting, Pinging, Running, MyConstants

\* A connection may be lost.
LEMMA DropKeeps == ASSUME MyConstants, MyInv, Drop PROVE MyInv'
  <1> USE DEF MyInv
  <1>1. /\ burst = 0 /\ ~closed /\ closed' = TRUE
        /\ query' = IF current # none THEN [query EXCEPT ![current] = Failed(query[current])]
                    ELSE query
        /\ current' = none /\ handler' = IF current # none THEN none ELSE handler
        /\ wire' = <<>> /\ asked' = <<>> /\ sent' = -1
        /\ UNCHANGED <<ping, inbox, paused, burst>>
    BY DEF Drop, Busy
  <1>2. current # none => Running
    BY DEF MyModes, Resting, Pinging
  <1>3. handler' \notin Query /\ handler' \in Ping \cup {none}
    BY <1>1, <1>2 DEF MyModes, Resting, Pinging, Running, MyConstants
  <1>4. /\ query' \in [Query -> QueryObject]
        /\ \A k \in Query : /\ query'[k].state = query[k].state /\ query'[k].got = query[k].got
                            /\ query'[k].paused = query[k].paused
                            /\ query'[k].events = query[k].events
    <2>1. CASE current = none
      BY <1>1, <2>1 DEF MyTypes
    <2>2. CASE current # none
      <3>1. current \in Query /\ query[current] \in QueryObject
        BY <1>2, <2>2 DEF Running, MyTypes
      <3> DEFINE r == Failed(query[current])
      <3>2. /\ r \in QueryObject /\ r.state = query[current].state /\ r.got = query[current].got
            /\ r.paused = query[current].paused /\ r.events = query[current].events
        BY <3>1, EndingIs
      <3>3. query' = [query EXCEPT ![current] = r]
        BY <1>1, <2>2
      <3> HIDE DEF r
      <3> QED
        BY <3>1, <3>2, <3>3 DEF MyTypes
    <2> QED
      BY <2>1, <2>2
  <1>5. \A k \in Query : /\ Buffered(query'[k]) = Buffered(query[k])
                         /\ Others(query'[k]) = Others(query[k])
                         /\ Watched(query[k]) => Watched(query'[k])
    BY <1>4 DEF Buffered, Others, Watched
  <1>21. MyTypes'
    BY <1>1, <1>4 DEF MyTypes
  <1>22. MyNumbers'
    BY <1>1 DEF MyNumbers, MyConstants
  <1>23. MyModes'
    BY <1>1, <1>3 DEF MyModes, Resting
  <1>24. MyStream'
    BY <1>3 DEF MyStream
  <1>25. MyAnswers'
    BY <1>4 DEF MyAnswers
  <1>26. MyRest'
    BY <1>1, <1>5 DEF MyRest, MyConstants
  <1>27. MyRoom'
    BY <1>1, <1>5 DEF MyRoom, MyConstants
  <1>28. MySocket'
    BY <1>1, <1>4 DEF MySocket
  <1> QED
    BY <1>21, <1>22, <1>23, <1>24, <1>25, <1>26, <1>27, <1>28

\* The server sends what may follow.
LEMMA ServerKeeps == ASSUME MyConstants, MyInv, ServerSends PROVE MyInv'
  <1> USE DEF MyInv
  <1> DEFINE c == Head(asked)
  <1>1. PICK kind \in Answers(c) :
           /\ wire' = Append(wire, [of |-> c, kind |-> kind])
           /\ asked' = IF kind \in {"ok", "err", "end"} THEN Tail(asked) ELSE asked
           /\ sent' = IF kind = "head" THEN 0
                      ELSE IF kind = "row" THEN sent + 1
                      ELSE IF kind \in {"more", "okmore"} THEN -2 ELSE -1
    BY Zenon DEF ServerSends
  <1>2. /\ asked # <<>> /\ burst = 0
        /\ UNCHANGED <<query, ping, current, handler, inbox, closed, paused, burst>>
    BY DEF ServerSends
  <1>3. ~Resting /\ asked = <<handler>> /\ c = handler
    BY <1>2 DEF MyModes, Resting, Pinging, Running
  <1>4. handler \in Query \cup Ping
    BY <1>3 DEF MyModes, Pinging, Running
  <1>5. kind \in {"head", "row", "end", "more", "ok", "okmore", "err"}
    BY <1>1 DEF Answers
  <1>6. sent \in Int /\ -2 <= sent /\ sent <= MaxRows /\ wire \in Seq(Packets)
        /\ burst \in Nat /\ burst <= Chunk - 1 /\ burst <= Len(wire)
    BY DEF MyNumbers
  <1>7. asked' = IF kind \in {"ok", "err", "end"} THEN <<>> ELSE asked
    BY <1>1, <1>3
  <1>8. [of |-> handler, kind |-> kind] \in Packets
    BY <1>4, <1>5 DEF Packets
  <1> DEFINE p == [of |-> handler, kind |-> kind]
  <1>9. p.of = handler /\ p.kind = kind
    OBVIOUS
  <1>10. wire' = Append(wire, p)
    BY <1>1, <1>3
  <1> HIDE DEF p
  <1>11. /\ wire' \in Seq(Packets) /\ Len(wire') = Len(wire) + 1
         /\ Len(wire) \in Nat
         /\ \A i \in 1 .. Len(wire) : wire'[i] = wire[i]
         /\ wire'[Len(wire')] = p
    BY <1>6, <1>8, <1>10 DEF p
  <1> HIDE DEF c
  <1>12. /\ sent' \in Int /\ -2 <= sent' /\ sent' <= MaxRows
    BY <1>1, <1>5, <1>6 DEF Answers, MyConstants
  <1>21. MyTypes'
    BY <1>2 DEF MyTypes
  <1>22. MyNumbers'
    BY <1>2, <1>6, <1>11, <1>12 DEF MyNumbers
  <1>25. MyAnswers'
    BY <1>2 DEF MyAnswers
  <1>27. MyRoom'
    BY <1>2 DEF MyRoom
  <1>28. MySocket'
    BY <1>2 DEF MySocket
  <1>13. CASE Pinging
    <2>1. kind = "ok" /\ sent' = -1 /\ asked' = <<>>
      BY <1>1, <1>3, <1>7, <1>13 DEF Pinging, Answers
    <2>2. Len(wire) = 0
      BY <1>2, <1>13 DEF Pinging
    <2>3. Pinging'
      BY <1>2, <1>11, <1>13, <2>1, <2>2 DEF Pinging
    <2>4. MyStream'
      BY <1>2, <1>13 DEF MyStream, Pinging, MyConstants
    <2>5. MyRest'
      BY <1>2, <1>13 DEF MyRest, Pinging, MyConstants
    <2> QED
      BY <1>21, <1>22, <1>25, <1>27, <1>28, <2>3, <2>4, <2>5 DEF MyModes
  <1>14. CASE Running
    <2>1. handler \notin Ping /\ current = handler /\ handler \in Query
      BY <1>14 DEF Running, MyConstants
    <2>2. /\ sent = -1 => kind \in {"ok", "okmore", "err", "head"}
          /\ sent = -2 => kind \in {"ok", "err"}
          /\ sent >= 0 => kind \in {"end", "more", "err", "row"}
      BY <1>1, <1>3, <1>6, <2>1 DEF Answers
    <2>3. Running'
      BY <1>2, <1>3, <1>7, <1>14 DEF Running, NoPingAsked
    <2>4. /\ kind \in {"head", "row"} => sent' >= 0 /\ asked' # <<>>
          /\ kind \in {"more", "okmore"} => sent' = -2 /\ asked' # <<>>
          /\ kind \in {"ok", "err", "end"} => sent' = -1 /\ asked' = <<>>
      BY <1>1, <1>2, <1>6, <1>7, <2>2
    <2>5. MyStream'
      <3> USE DEF MyStream
      <3>1. ~query[handler].over /\ query[handler].state \in {"start", "rows"}
        BY <2>1
      <3>2. \A i \in 1 .. Len(wire') : wire'[i].of = handler
        BY <1>9, <1>11, <2>1
      <3>3. Fits(query[handler].state, wire'[1].kind)
        <4>1. CASE Len(wire) = 0
          BY <4>1, <1>2, <1>6, <1>9, <1>11, <2>1, <2>2 DEF Fits, Awaits
        <4>2. CASE Len(wire) > 0
          BY <4>2, <1>11, <2>1
        <4> QED
          BY <4>1, <4>2, <1>11
      <3>4. Len(wire) > 0 => Follows(wire[Len(wire)].kind, kind)
        BY <1>2, <1>6, <2>1, <2>2 DEF Follows, Leaves
      <3>5. \A i \in 1 .. Len(wire') : i < Len(wire') =>
               Follows(wire'[i].kind, wire'[i + 1].kind)
        <4> SUFFICES ASSUME NEW i \in 1 .. Len(wire'), i < Len(wire')
                     PROVE  Follows(wire'[i].kind, wire'[i + 1].kind)
          OBVIOUS
        <4>1. CASE i = Len(wire)
          BY <4>1, <3>4, <1>9, <1>11
        <4>2. CASE i < Len(wire)
          <5>1. i \in 1 .. Len(wire) /\ i + 1 \in 1 .. Len(wire)
            BY <4>2, <1>11
          <5> QED
            BY <4>2, <5>1, <1>11, <2>1
        <4> QED
          BY <4>1, <4>2, <1>11
      <3>6. wire'[Len(wire')].kind = kind /\ Len(wire') > 0
        BY <1>9, <1>11
      <3>7. asked' # <<>> => Leaves(kind, sent')
        BY <1>5, <2>4 DEF Leaves
      <3>8. asked' = <<>> => sent' = -1 /\ kind \in {"ok", "err", "end"}
        BY <1>5, <2>4
      <3> QED
        BY <1>2, <1>11, <3>1, <3>2, <3>3, <3>5, <3>6, <3>7, <3>8
    <2>6. MyRest'
      <3>1. Opening' => Opening
        BY <1>2, <1>5, <1>6, <1>9, <1>11, <2>2, <2>4 DEF Opening
      <3> QED
        BY <1>2, <3>1 DEF MyRest
    <2> QED
      BY <1>21, <1>22, <1>25, <1>27, <1>28, <2>3, <2>5, <2>6 DEF MyModes
  <1> QED
    BY <1>3, <1>13, <1>14 DEF MyModes

\* ... or a part of the answer of the query that has the connection.
LEMMA ReceiveQueryKeeps == ASSUME MyConstants, MyInv, ReceiveQuery PROVE MyInv'
  <1> USE DEF MyInv
  <1> DEFINE p == wire[1]
             q == query[handler]
             r == Handled(q, p)
  <1>1. /\ Len(wire) \in Nat /\ Len(wire) > 0 /\ (burst > 0 \/ ~paused)
        /\ Len(wire') = Len(wire) - 1
        /\ wire' \in Seq(Packets)
        /\ \A i \in 1 .. Len(wire') : wire'[i] = wire[i + 1]
        /\ p \in Packets /\ Head(wire) = p
        /\ burst' \in Nat /\ burst' <= Chunk - 1 /\ burst' <= Len(wire')
        /\ burst > 0 => burst' = burst - 1
        /\ burst \in Nat
        /\ UNCHANGED <<closed, asked, sent>>
    BY ReceiveIs DEF ReceiveQuery
  <1>2. /\ handler \in Query /\ query' = [query EXCEPT ![handler] = r]
        /\ paused' = SocketAfter(q, r)
        /\ current' = IF r.over THEN none ELSE current
        /\ handler' = IF r.over THEN none ELSE handler
        /\ UNCHANGED <<ping, inbox>>
    <2>1. Handled(query[handler], Head(wire)) = r
      BY <1>1
    <2> QED
      BY <2>1, Zenon DEF ReceiveQuery
  <1>3. Running
    BY <1>2 DEF MyModes, Resting, Pinging, MyConstants
  <1>4. /\ ~q.over /\ q.state \in {"start", "rows"} /\ p.of = handler
        /\ Fits(q.state, p.kind)
        /\ \A i \in 1 .. Len(wire) : wire[i].of = handler
        /\ \A i \in 1 .. Len(wire) : i < Len(wire) => Follows(wire[i].kind, wire[i + 1].kind)
        /\ asked # <<>> => Leaves(wire[Len(wire)].kind, sent)
        /\ asked = <<>> => /\ Len(wire) > 0 /\ sent = -1
                           /\ wire[Len(wire)].kind \in {"ok", "err", "end"}
    BY <1>1, <1>2 DEF MyStream
  <1>5. q \in QueryObject
    BY <1>2 DEF MyTypes
  <1>6. /\ r \in QueryObject /\ r.got = q.got \cup {p.of}
        /\ r.over <=> p.kind \in {"ok", "err", "end"}
        /\ p.kind \in {"head", "row"} => r.state = "rows"
        /\ p.kind \in {"more", "okmore"} => r.state = "start"
        /\ r.state # "new"
        /\ q.paused => r.paused
        /\ Watched(q) => Watched(r)
        /\ Buffered(r) = Buffered(q) \/ Buffered(r) = Buffered(q) + 1
        /\ Others(r) <= IF p.kind = "row" THEN Others(q) ELSE Others(q) + 1
    <2> HIDE DEF p, q
    <2>1. p \in Packets /\ q \in QueryObject /\ ~q.over /\ Fits(q.state, p.kind)
      BY <1>1, <1>4, <1>5
    <2> QED
      BY <2>1, HandlingIs, Zenon
  <1>7. /\ Buffered(q) \in Nat /\ Others(q) \in Nat /\ Buffered(r) \in Nat /\ Others(r) \in Nat
    <2> HIDE DEF q, r
    <2> QED
      BY <1>5, <1>6, NumbersOfObjects
  <1>8. r.over \in BOOLEAN /\ r.paused \in BOOLEAN /\ q.paused \in BOOLEAN
    <2> HIDE DEF q, r
    <2> QED
      BY <1>5, <1>6 DEF QueryObject
  <1>9. paused' = IF r.paused = q.paused THEN paused ELSE r.paused
    BY <1>2 DEF SocketAfter
  <1> HIDE DEF r
  <1>10. /\ query' \in [Query -> QueryObject] /\ query'[handler] = r
         /\ \A j \in Query : j # handler => query'[j] = query[j]
    BY <1>2, <1>6 DEF MyTypes
  <1>11. current = handler /\ ~closed /\ NoPingAsked /\ (asked = <<handler>> \/ asked = <<>>)
    BY <1>3 DEF Running
  <1> HIDE DEF q, p
  <1>12. p.kind \in {"head", "row", "end", "more", "ok", "okmore", "err"}
    BY <1>1 DEF Packets
  <1>13. r.over => Len(wire) = 1 /\ asked = <<>> /\ sent = -1 /\ burst' = 0
    <2> SUFFICES ASSUME r.over PROVE Len(wire) = 1 /\ asked = <<>> /\ sent = -1 /\ burst' = 0
      OBVIOUS
    <2>1. p.kind \in {"ok", "err", "end"}
      BY <1>6
    <2>2. Len(wire) = 1
      BY <1>1, <1>4, <2>1 DEF Follows, p
    <2>3. wire[Len(wire)].kind = p.kind
      BY <2>2 DEF p
    <2>4. asked = <<>>
      BY <1>4, <2>1, <2>3 DEF Leaves
    <2> QED
      BY <1>1, <1>4, <2>2, <2>4
  <1>14. ~r.over => /\ p.kind \in {"head", "row", "more", "okmore"} /\ current' = handler
                    /\ handler' = handler /\ r.state \in {"start", "rows"}
    BY <1>2, <1>6, <1>11, <1>12, Zenon
  <1>15. r.over => current' = none /\ handler' = none
    BY <1>2
  <1>16. UNCHANGED <<ping, inbox, closed, asked, sent>>
    BY <1>1, <1>2
  <1>21. MyTypes'
    BY <1>8, <1>9, <1>10, <1>16 DEF MyTypes
  <1>22. MyNumbers'
    BY <1>1 DEF MyNumbers
  <1>23. MyModes'
    <2>1. CASE r.over
      <3>3. Len(wire) = 1
        BY <1>13, <2>1, Zenon
      <3>1. Len(wire') = 0
        BY <1>1, <3>3
      <3>2. NoPingAsked'
        BY <1>11, <1>16 DEF NoPingAsked
      <3> QED
        BY <3>1, <3>2, <1>13, <1>15, <1>16, <2>1 DEF MyModes, Resting, MyConstants
    <2>2. CASE ~r.over
      BY <1>2, <1>11, <1>14, <1>16, <2>2 DEF MyModes, Running, NoPingAsked
    <2> QED
      BY <2>1, <2>2
  <1>24. MyStream'
    <2>1. CASE r.over
      BY <1>15, <2>1 DEF MyStream, MyConstants
    <2>2. CASE ~r.over
      <3>1. query'[handler'].state = r.state /\ query'[handler'].over = r.over /\ handler' = handler
        BY <1>10, <1>14, <2>2
      <3>2. \A i \in 1 .. Len(wire') : wire'[i].of = handler
        BY <1>1, <1>4
      <3>3. Len(wire') > 0 => Fits(r.state, wire'[1].kind)
        <4> SUFFICES ASSUME Len(wire') > 0 PROVE Fits(r.state, wire'[1].kind)
          OBVIOUS
        <4>1. Follows(p.kind, wire[2].kind) /\ wire'[1] = wire[2]
          BY <1>1, <1>4 DEF p
        <4> QED
          BY <4>1, <1>6, <1>14, <2>2 DEF Fits, Follows
      <3>4. \A i \in 1 .. Len(wire') : i < Len(wire') =>
               Follows(wire'[i].kind, wire'[i + 1].kind)
        <4> SUFFICES ASSUME NEW i \in 1 .. Len(wire'), i < Len(wire')
                     PROVE  Follows(wire'[i].kind, wire'[i + 1].kind)
          OBVIOUS
        <4>1. /\ wire'[i] = wire[i + 1] /\ wire'[i + 1] = wire[(i + 1) + 1]
              /\ i + 1 \in 1 .. Len(wire) /\ i + 1 < Len(wire)
          BY <1>1
        <4> QED
          BY <4>1, <1>4
      <3>5. Len(wire') > 0 => wire'[Len(wire')] = wire[Len(wire)]
        BY <1>1
      <3>6. Len(wire') = 0 => wire[Len(wire)] = p
        <4>1. Len(wire') = 0 => Len(wire) = 1
          BY <1>1
        <4> QED
          BY <4>1 DEF p
      <3>7. asked # <<>> /\ Len(wire') = 0 => Awaits(r.state, sent)
        BY <3>6, <1>4, <1>6, <1>14, <2>2 DEF Awaits, Leaves
      <3>8. asked = <<>> => Len(wire') > 0
        BY <1>1, <3>6, <1>4, <1>14, <2>2
      <3> QED
        BY <1>4, <1>14, <1>16, <2>2, <3>1, <3>2, <3>3, <3>4, <3>5, <3>7, <3>8 DEF MyStream
    <2> QED
      BY <2>1, <2>2
  <1>25. MyAnswers'
    <2>1. q.got \subseteq {handler} /\ p.of = handler
      BY <1>2, <1>4 DEF MyAnswers, q
    <2>2. r.got \subseteq {handler}
      BY <1>6, <2>1
    <2> QED
      BY <1>6, <1>10, <2>2 DEF MyAnswers
  <1>17. \A j \in Query : Buffered(query[j]) \in Nat /\ Others(query[j]) \in Nat
    BY NumbersOfObjects DEF MyTypes
  <1>26. MyRest'
    <2>1. /\ Others(q) <= 2 /\ (q.state = "rows" => Others(q) <= 1)
          /\ q.state = "start" /\ p.kind \in {"head", "okmore"} => Others(q) = 0
      BY <1>1, <1>2, <1>11 DEF MyRest, Opening, q, p
    <2>2. \/ q.state = "start" /\ p.kind \in {"head", "ok", "okmore", "err"}
          \/ q.state = "rows" /\ p.kind \in {"row", "end", "more", "err"}
      BY <1>4 DEF Fits
    <2>3. ~r.over /\ r.state = "start" => p.kind \in {"more", "okmore"}
      BY <1>6, <1>14
    <2>4. p.kind \in {"more", "okmore"} => ~Opening'
      <3> SUFFICES ASSUME p.kind \in {"more", "okmore"} PROVE ~Opening'
        OBVIOUS
      <3>1. Len(wire') > 0 => wire'[1] = wire[2] /\ Follows(p.kind, wire[2].kind)
        BY <1>1, <1>4 DEF p
      <3>2. Len(wire') = 0 => wire[Len(wire)] = p
        <4>1. Len(wire') = 0 => Len(wire) = 1
          BY <1>1
        <4> QED
          BY <4>1 DEF p
      <3>3. Len(wire') = 0 /\ asked # <<>> => sent = -2
        BY <1>4, <3>2 DEF Leaves
      <3> QED
        BY <1>16, <3>1, <3>3 DEF Opening, Follows
    <2>5. /\ Others(r) <= 3
          /\ ~r.over => Others(r) <= 2
          /\ ~r.over /\ r.state = "rows" => Others(r) <= 1
      BY <1>6, <1>7, <1>14, <2>1, <2>2
    <2>6. \A j \in Query : j # handler => /\ j # current'
                                          /\ Others(query'[j]) <= 3
      BY <1>2, <1>10, <1>11, <1>14, <1>15 DEF MyRest, MyConstants
    <2>7. handler = current' => ~r.over
      BY <1>2, <1>15 DEF MyConstants
    <2> QED
      BY <1>10, <2>3, <2>4, <2>5, <2>6, <2>7 DEF MyRest
  <1>18. q.paused => burst > 0
    BY <1>1, <1>2 DEF MySocket, q
  <1>27. MyRoom'
    <2>1. /\ Watched(q) /\ Buffered(q) <= HighWater + Chunk - 1
          /\ q.paused => Buffered(q) <= HighWater + Chunk - 1 - burst
      BY <1>2, <1>11 DEF MyRoom, q
    <2>2. ~q.paused => Buffered(q) < HighWater
      BY <2>1 DEF Watched
    <2>3. Buffered(r) <= HighWater + Chunk - 1 - burst'
      <3>1. CASE q.paused
        BY <3>1, <1>1, <1>6, <1>7, <1>18, <2>1 DEF MyConstants
      <3>2. CASE ~q.paused
        BY <3>2, <1>1, <1>6, <1>7, <2>2 DEF MyConstants
      <3> QED
        BY <3>1, <3>2
    <2>4. Buffered(r) <= HighWater + Chunk - 1
      BY <2>3, <1>1, <1>7 DEF MyConstants
    <2>5. \A j \in Query : j # handler => j # current'
      BY <1>2, <1>11, <1>14, <1>15 DEF MyConstants
    <2>6. Watched(r)
      BY <1>6, <2>1
    <2> QED
      BY <1>10, <2>3, <2>4, <2>5, <2>6 DEF MyRoom
  <1>28. MySocket'
    <2>1. \A j \in Query : query[j].paused => j = handler
      BY <1>1, <1>2, <1>11 DEF MySocket
    <2>2. \A j \in Query : query'[j].paused => j = handler
      BY <1>10, <2>1
    <2>3. q.paused => paused
      BY <1>2 DEF MySocket, q
    <2>4. paused => q.paused
      BY <1>2, <2>1, Zenon DEF MySocket, q
    <2>5. paused' <=> r.paused
      <3>1. CASE r.paused = q.paused
        BY <3>1, <1>8, <1>9, <2>3, <2>4 DEF MyTypes
      <3>2. CASE r.paused # q.paused
        BY <3>2, <1>9
      <3> QED
        BY <3>1, <3>2
    <2>6. paused' => \E j \in Query : query'[j].paused
      BY <1>2, <1>10, <2>5, Zenon
    <2>7. \A j \in Query : query'[j].paused => paused'
      BY <1>10, <2>2, <2>5, Zenon
    <2>8. burst' > 0 => current' = handler
      BY <1>13, <1>14
    <2> QED
      BY <2>2, <2>6, <2>7, <2>8 DEF MySocket
  <1> QED
    BY <1>21, <1>22, <1>23, <1>24, <1>25, <1>26, <1>27, <1>28

\* Every step keeps the invariant of the connection.
LEMMA MysqlKeeps ==
  ASSUME MyConstants, MyInv,
         [Next]_<<query, ping, current, handler, inbox, closed, paused, asked, sent, wire, burst>>
  PROVE  MyInv'
  <1>1. CASE UNCHANGED <<query, ping, current, handler, inbox, closed, paused, asked, sent, wire,
                         burst>>
    BY <1>1 DEF MyInv, MyTypes, MyNumbers, MyModes, Resting, Pinging, Running, NoPingAsked,
       MyStream,
       MyAnswers, MyRest, Opening, MyRoom, MySocket
  <1>2. CASE \E k \in Query : burst = 0 /\ Start(k)
    BY <1>2, StartKeeps
  <1>3. CASE \E p \in Ping : burst = 0 /\ SendPing(p)
    BY <1>3, SendPingKeeps
  <1>4. CASE \E k \in Query : Take(k) \/ TakeLast(k) \/ Stop(k)
    BY <1>4, TakeKeeps, TakeLastKeeps, StopKeeps
  <1>5. CASE ReceiveQuery
    BY <1>5, ReceiveQueryKeeps
  <1>6. CASE ReceivePing
    BY <1>6, ReceivePingKeeps
  <1>7. CASE ReceiveNobody
    BY <1>7, ReceiveNobodyNever
  <1>8. CASE Drop
    BY <1>8, DropKeeps
  <1>9. CASE ServerSends
    BY <1>9, ServerKeeps
  <1> QED
    BY <1>1, <1>2, <1>3, <1>4, <1>5, <1>6, <1>7, <1>8, <1>9 DEF Next

\* What the invariant says of the connection.
LEMMA MysqlShows ==
  ASSUME MyConstants, MyInv
  PROVE  /\ TypeOK /\ OwnAnswers /\ OneCommand
         /\ PausedHasReader /\ BufferBounded
  <1> USE DEF MyInv
  <1>1. \A k \in Query : /\ query[k] \in QueryObject
                         /\ Buffered(query[k]) \in Nat /\ Others(query[k]) \in Nat
                         /\ Len(query[k].events) = Buffered(query[k]) + Others(query[k])
                         /\ Buffered(query[k]) <= HighWater + Chunk - 1
                         /\ Others(query[k]) <= 3
    BY NumbersOfObjects DEF MyTypes, MyRoom, MyRest
  <1>2. BufferBounded
    BY <1>1 DEF BufferBounded, Buffered, MyConstants
  <1>3. PausedHasReader
    BY <1>1, Zenon DEF PausedHasReader, MySocket, MyRoom, Watched, Buffered
  <1>4. OneCommand
    <2>1. CASE Resting
      BY <2>1 DEF OneCommand, Resting
    <2>2. CASE Pinging
      <3>1. \A i \in DOMAIN asked : asked[i] = handler /\ handler \in Ping
        BY <2>2 DEF Pinging
      <3> QED
        BY <3>1 DEF OneCommand
    <2>3. CASE Running
      BY <2>3 DEF OneCommand, Running, MyConstants
    <2> QED
      BY <2>1, <2>2, <2>3 DEF MyModes
  <1>5. OwnAnswers
    BY DEF OwnAnswers, MyAnswers
  <1>6. TypeOK
    <2> DEFINE S == {"columns", "row", "end"}
               B == BoundedSeq(S, HighWater + Chunk + 2)
    <2>1. \A k \in Query : query[k].events \in B
      <3> SUFFICES ASSUME NEW k \in Query PROVE query[k].events \in B
        OBVIOUS
      <3> DEFINE e == query[k].events
                 m == HighWater + Chunk + 2
      <3>1. e \in Seq(S) /\ Len(e) \in Nat /\ Len(e) <= m
        BY <1>1 DEF QueryObject, MyConstants
      <3>2. e \in [1 .. Len(e) -> S] /\ Len(e) \in 0 .. m
        BY <3>1 DEF MyConstants
      <3> QED
        BY <3>2 DEF BoundedSeq, SeqOf
    <2> HIDE DEF B
    <2>2. query \in [Query -> [state : {"new", "start", "rows"}, events : B,
                            over : BOOLEAN, failed : BOOLEAN, paused : BOOLEAN,
                            waiting : BOOLEAN, abandoned : BOOLEAN,
                            reader : {"none", "reading", "stopped", "done", "error"},
                            got : SUBSET (Query \cup Ping)]]
      BY <2>1 DEF MyTypes, QueryObject
    <2>3. current \in Query \cup {none} /\ handler \in Query \cup Ping \cup {none}
      BY DEF MyModes, Resting, Pinging, Running
    <2>4. sent \in -2 .. MaxRows /\ burst \in 0 .. Chunk - 1
      BY DEF MyNumbers, MyConstants
    <2> QED
      BY <2>2, <2>3, <2>4 DEF TypeOK, MyTypes, B
  <1> QED
    BY <1>2, <1>3, <1>4, <1>5, <1>6

\* For any queries and pings, marks, rows and chunks, as long as no command is sent beside an
\* unanswered ping: one command at a time, each query reads packets of its own answer, a paused
\* socket has a reader that will resume it, and a slow consumer costs a bounded buffer
\* (db-protocol-mysql/src/connection.ts).
THEOREM MysqlInvariance ==
    MysqlAssumption /\ ~Beside =>
      (Spec => [](TypeOK /\ OwnAnswers /\ OneCommand /\ PausedHasReader /\ BufferBounded))
<1> SUFFICES ASSUME MysqlAssumption, ~Beside
             PROVE  Spec => [](TypeOK /\ OwnAnswers /\ OneCommand /\ PausedHasReader
                               /\ BufferBounded)
  OBVIOUS
<1>1. MyConstants
  BY DEF MysqlAssumption, MyConstants
<1>2. Init => MyInv
  BY <1>1, MysqlBegins
<1>3. MyInv /\ [Next]_vars => MyInv'
  BY <1>1, MysqlKeeps DEF vars
<1>4. MyInv => TypeOK /\ OwnAnswers /\ OneCommand /\ PausedHasReader /\ BufferBounded
  BY <1>1, MysqlShows
<1> QED
  BY <1>2, <1>3, <1>4, PTL DEF Spec
==============================================================================
