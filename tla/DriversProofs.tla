----------------------------- MODULE DriversProofs -----------------------------
(* Proofs about the connections to a database server, each by itself and all    *)
(* together (MCDrivers): statements and answers stay in step, kills and cancels *)
(* strike what they were meant for, buffers are bounded and second connections  *)
(* do one thing at a time, for any number of statements, callers that stop      *)
(* them, rows, replies, servers and messages on their way.                      *)
EXTENDS MCDrivers, TLAPS

(* ------------------------------- PostgreSQL ------------------------------- *)

InTransit == {"connecting", "sent"}

\* The messages on their way are of the statement that holds the connection, the
\* server runs no other, and after a ReadyForQuery comes nothing more.
WireInv ==
    /\ busy # none => runs \in {busy, none}
    /\ ~destroyed =>
         /\ busy = none => wire = <<>> /\ runs = none
         /\ \A i \in DOMAIN wire :
              /\ wire[i].of = busy
              /\ wire[i].kind = "ready" => i = Len(wire) /\ runs = none

\* A cancel request belongs to a statement that was to be stopped, and an abandon
\* request is awaited: until it is over the connection is not given to another.
RequestInv ==
    \A r \in Request :
      /\ request[r] # "none" /\ r[2] # "abandon" => wanted[r[1]] # {}
      /\ request[r] \in InTransit /\ r[2] = "abandon" => destroyed \/ stmt[r[1]] = "draining"

\* A request on its way finds its own statement, or one that was begun hastily.
AimInv ==
    \A r \in Request : request[r] \in InTransit => runs \in {none, r[1]} \cup hasty

Inv == TypeOK /\ WireInv /\ RequestInv /\ AimInv /\ OwnAnswers /\ OnlyOwnInterrupted

\* A connection begins with nothing asked.
LEMMA InitInv == Init => Inv
<1> SUFFICES ASSUME Init PROVE Inv
  OBVIOUS
<1>1. TypeOK
  <2>1. busy \in Stmt \cup {none} /\ \A k \in Stmt : busy = k <=> stmt[k] \in {"reading", "yielded", "draining"}
    BY PostgresAssumption DEF Init
  <2>2. rows \in -1..MaxRows /\ wire \in Seq([of : Stmt, kind : {"row", "error", "ready"}])
    BY PostgresAssumption DEF Init
  <2>3. /\ stmt \in [Stmt -> {"new", "reading", "yielded", "draining", "over"}]
        /\ wanted \in [Stmt -> SUBSET Reason] /\ got \in [Stmt -> SUBSET Stmt]
        /\ request \in [Request -> {"none", "connecting", "sent", "over"}]
    BY DEF Init
  <2>4. /\ failure \subseteq Stmt /\ struck \subseteq Stmt /\ hasty \subseteq Stmt
        /\ destroyed \in BOOLEAN /\ runs \in Stmt \cup {none}
    BY DEF Init
  <2> QED
    BY <2>1, <2>2, <2>3, <2>4 DEF TypeOK
<1>2. WireInv /\ RequestInv /\ AimInv
  BY DEF Init, WireInv, RequestInv, AimInv, InTransit
<1>3. OwnAnswers /\ OnlyOwnInterrupted
  BY DEF Init, OwnAnswers, OnlyOwnInterrupted
<1> QED
  BY <1>1, <1>2, <1>3 DEF Inv

\* A request is a pair of a statement and what it is sent for.
LEMMA Requests ==
    /\ \A r \in Request : r[1] \in Stmt
    /\ \A k \in Stmt : <<k, "abandon">> \in Request
    /\ \A r \in Request : r[2] = "abandon" => r = <<r[1], "abandon">>
    /\ \A r \in Stops : r \in Request /\ r[2] \in Reason
    /\ "abandon" \notin Reason
  BY PostgresAssumption DEF Request, Reason

\* hasty only grows, by statements.
LEMMA HastyGrows == Next /\ hasty \subseteq Stmt => hasty \subseteq hasty' /\ hasty' \subseteq Stmt
  BY DEF Next, BegunHastily

Message == [of : Stmt, kind : {"row", "error", "ready"}]

\* What taking the first message leaves.
LEMMA Taken ==
    ASSUME wire \in Seq(Message), Received
    PROVE  /\ Head(wire) = wire[1] /\ wire[1] \in Message /\ 1 \in DOMAIN wire
           /\ wire' \in Seq(Message) /\ Len(wire') = Len(wire) - 1
           /\ \A i \in DOMAIN wire' : wire'[i] = wire[i + 1] /\ i + 1 \in DOMAIN wire
  BY DEF Received

(* ---------------------------------- types -------------------------------- *)

\* Every step keeps the types, and one statement on the connection ...
LEMMA TypeStep == TypeOK /\ [Next]_vars => TypeOK'
<1> SUFFICES ASSUME TypeOK, Next PROVE TypeOK'
  BY DEF TypeOK, vars, connection
<1>0. hasty' \subseteq Stmt
  BY HastyGrows DEF TypeOK
<1> USE PostgresAssumption DEF TypeOK
<1>1. ASSUME NEW k \in Stmt, Execute(k) PROVE TypeOK'
  BY <1>0, <1>1 DEF Execute
<1>t. wire \in Seq(Message)
  BY DEF Message
<1>2. ASSUME NEW k \in Stmt, Read(k) PROVE TypeOK'
  <2>1. Received
    BY <1>2 DEF Read
  <2>2. wire' \in Seq(Message) /\ Head(wire).of \in Stmt /\ busy = k
    BY <1>t, <1>2, <2>1, Taken DEF Message, Read
  <2>3. got' \in [Stmt -> SUBSET Stmt]
    BY <2>1, <2>2 DEF Received
  <2>4. \/ stmt' = [stmt EXCEPT ![k] = "yielded"] /\ busy' = busy
        \/ stmt' = stmt /\ busy' = busy
        \/ stmt' = [stmt EXCEPT ![k] = "over"] /\ busy' = none
    BY <1>2 DEF Read, Released
  <2>5. /\ stmt' \in [Stmt -> {"new", "reading", "yielded", "draining", "over"}]
        /\ busy' \in Stmt \cup {none}
        /\ \A j \in Stmt : busy' = j <=> stmt'[j] \in {"reading", "yielded", "draining"}
    BY <1>2, <2>2, <2>4 DEF Read
  <2>6. failure' \subseteq Stmt /\ UNCHANGED <<wanted, request, destroyed, runs, rows, struck>>
    BY <1>2 DEF Read
  <2> QED
    BY <1>0, <2>2, <2>3, <2>5, <2>6 DEF Message
<1>3. ASSUME NEW k \in Stmt, ReadOn(k) PROVE TypeOK'
  BY <1>0, <1>3 DEF ReadOn
<1>4. ASSUME NEW k \in Stmt, WalkAway(k) PROVE TypeOK'
  BY <1>0, <1>4, Requests DEF WalkAway, Released
<1>5. ASSUME NEW k \in Stmt, Drain(k) PROVE TypeOK'
  <2>1. Received
    BY <1>5 DEF Drain
  <2>2. wire' \in Seq(Message) /\ Head(wire).of \in Stmt /\ busy = k
    BY <1>t, <1>5, <2>1, Taken DEF Message, Drain
  <2>3. got' \in [Stmt -> SUBSET Stmt]
    BY <2>1, <2>2 DEF Received
  <2> QED
    BY <1>0, <1>5, <2>2, <2>3 DEF Drain, Released, Message
<1>6. ASSUME NEW k \in Stmt, DrainTimeout(k) PROVE TypeOK'
  BY <1>0, <1>6 DEF DrainTimeout, Released
<1>7. ASSUME NEW k \in Stmt, ReadFails(k) PROVE TypeOK'
  BY <1>0, <1>7 DEF ReadFails, Released
<1>8. ASSUME NEW k \in Stmt, NEW why \in Reason, Interrupt(k, why) PROVE TypeOK'
  BY <1>0, <1>8, Requests DEF Interrupt
<1>9. ASSUME NEW r \in Request, RequestConnects(r) \/ RequestFails(r) \/ RequestActs(r) PROVE TypeOK'
  BY <1>0, <1>9 DEF RequestConnects, RequestFails, RequestActs
<1>10. ASSUME Drop PROVE TypeOK'
  BY <1>0, <1>10 DEF Drop
<1>11. ASSUME Server PROVE TypeOK'
  <2>1. PICK kind \in {"row", "error", "ready"} : runs # none /\ Sends(kind)
    BY <1>11 DEF Server, ServerRow, ServerError, ServerReady
  <2>2. wire' \in Seq(Message)
    BY <1>t, <2>1 DEF Sends, Message
  <2>3. runs' \in Stmt \cup {none} /\ rows' \in -1..MaxRows
    BY <1>11 DEF Server, ServerRow, ServerError, ServerReady
  <2> QED
    BY <1>0, <2>1, <2>2, <2>3 DEF Sends, Message
<1> QED
  BY <1>1, <1>2, <1>3, <1>4, <1>5, <1>6, <1>7, <1>8, <1>9, <1>10, <1>11
  DEF Next, Statement, Cancel, Timeout, Reason

(* ------------------------------ the wire --------------------------------- *)

\* Taking a message keeps the shape of the wire, and the message is the holder's.
LEMMA TakenInShape ==
    ASSUME TypeOK, WireInv, Received, busy # none
    PROVE  /\ Head(wire).of = busy
           /\ Head(wire).kind = "ready" => wire' = <<>> /\ runs = none
           /\ \A i \in DOMAIN wire' :
                /\ wire'[i].of = busy
                /\ wire'[i].kind = "ready" => i = Len(wire') /\ runs = none
<1>1. wire \in Seq(Message) /\ ~destroyed
  BY DEF TypeOK, Message, Received
<1>2. /\ Head(wire) = wire[1] /\ 1 \in DOMAIN wire
      /\ wire' \in Seq(Message) /\ Len(wire') = Len(wire) - 1
      /\ \A i \in DOMAIN wire' : wire'[i] = wire[i + 1] /\ i + 1 \in DOMAIN wire
  BY <1>1, Taken
<1>3. Head(wire).kind = "ready" => Len(wire') = 0 /\ runs = none
  BY <1>1, <1>2 DEF WireInv
<1>4. \A i \in DOMAIN wire' : wire'[i].kind = "ready" => i + 1 = Len(wire) /\ runs = none
  BY <1>1, <1>2 DEF WireInv
<1> QED
  BY <1>1, <1>2, <1>3, <1>4 DEF WireInv

\* ... what is on its way is of that statement ...
LEMMA WireStep == TypeOK /\ WireInv /\ Next => WireInv'
<1> SUFFICES ASSUME TypeOK, WireInv, Next PROVE WireInv'
  OBVIOUS
<1>t. /\ wire \in Seq(Message) /\ none \notin Stmt
      /\ \A k \in Stmt : busy = k <=> stmt[k] \in {"reading", "yielded", "draining"}
  BY PostgresAssumption DEF TypeOK, Message
<1>1. ASSUME NEW k \in Stmt, Execute(k) PROVE WireInv'
  BY <1>t, <1>1 DEF Execute, WireInv
<1>2. ASSUME NEW k \in Stmt, Received, Read(k) \/ Drain(k) PROVE WireInv'
  <2>1. busy = k /\ busy # none /\ UNCHANGED <<destroyed, runs>>
    BY <1>t, <1>2 DEF Read, Drain
  <2>2. \/ busy' = busy
        \/ busy' = none /\ Head(wire).kind = "ready"
    BY <1>2 DEF Read, Drain, Released
  <2>3. CASE busy' = busy
    BY <1>2, <2>1, <2>3, TakenInShape DEF WireInv
  <2>4. CASE busy' = none /\ Head(wire).kind = "ready"
    BY <1>2, <2>1, <2>4, TakenInShape DEF WireInv
  <2> QED
    BY <2>2, <2>3, <2>4
<1>3. ASSUME NEW k \in Stmt, ReadOn(k) PROVE WireInv'
  BY <1>3 DEF ReadOn, WireInv
<1>4. ASSUME NEW k \in Stmt, WalkAway(k) PROVE WireInv'
  BY <1>4 DEF WalkAway, Released, WireInv
<1>5. ASSUME NEW k \in Stmt, DrainTimeout(k) \/ ReadFails(k) PROVE WireInv'
  <2>1. destroyed' = TRUE /\ busy' = none
    BY <1>5 DEF DrainTimeout, ReadFails, Released, TypeOK
  <2> QED
    BY <2>1 DEF WireInv
<1>6. ASSUME NEW k \in Stmt, NEW why \in Reason, Interrupt(k, why) PROVE WireInv'
  BY <1>6 DEF Interrupt, WireInv
<1>7. ASSUME NEW r \in Request, RequestConnects(r) \/ RequestFails(r) \/ RequestActs(r) PROVE WireInv'
  BY <1>7 DEF RequestConnects, RequestFails, RequestActs, WireInv
<1>8. ASSUME Drop PROVE WireInv'
  BY <1>8 DEF Drop, WireInv
<1>9. ASSUME Server PROVE WireInv'
  <2>1. PICK kind \in {"row", "error", "ready"} :
          /\ runs # none /\ Sends(kind)
          /\ IF kind = "ready" THEN runs' = none ELSE UNCHANGED runs
    BY <1>9 DEF Server, ServerRow, ServerError, ServerReady
  <2>2. /\ UNCHANGED <<busy, destroyed>> /\ wire' = Append(wire, [of |-> runs, kind |-> kind])
    BY <2>1 DEF Sends
  <2>3. busy # none => runs' \in {busy, none}
    BY <2>1 DEF WireInv
  <2>4. ASSUME ~destroyed, NEW i \in DOMAIN wire'
        PROVE  wire'[i].of = busy /\ (wire'[i].kind = "ready" => i = Len(wire') /\ runs' = none)
    <3>1. Len(wire') = Len(wire) + 1 /\ i \in 1..Len(wire) + 1
      BY <1>t, <2>2, <2>4
    <3>2. CASE i = Len(wire) + 1
      BY <1>t, <2>1, <2>2, <2>4, <3>1, <3>2 DEF WireInv
    <3>3. CASE i \in DOMAIN wire
      BY <1>t, <2>1, <2>2, <2>4, <3>3 DEF WireInv
    <3> QED
      BY <1>t, <3>1, <3>2, <3>3
  <2>5. ~destroyed => busy # none
    BY <2>1 DEF WireInv
  <2> QED
    BY <2>2, <2>3, <2>4, <2>5 DEF WireInv
<1> QED
  BY <1>1, <1>2, <1>3, <1>4, <1>5, <1>6, <1>7, <1>8, <1>9
  DEF Next, Statement, Cancel, Timeout, Reason, Read, Drain

(* ------------------------------ own answers ------------------------------ *)

\* Who reads is the holder, and what is on the wire is the holder's.
LEMMA AnswersStep == TypeOK /\ WireInv /\ OwnAnswers /\ Next => OwnAnswers'
<1> SUFFICES ASSUME TypeOK, WireInv, OwnAnswers, Next PROVE OwnAnswers'
  OBVIOUS
<1>1. CASE UNCHANGED got
  BY <1>1 DEF OwnAnswers
<1>2. ASSUME NEW k \in Stmt, Received, Read(k) \/ Drain(k) PROVE OwnAnswers'
  <2>1. busy = k /\ busy # none
    BY <1>2, PostgresAssumption DEF Read, Drain, TypeOK
  <2>2. got' = [got EXCEPT ![k] = @ \cup {k}]
    BY <1>2, <2>1, TakenInShape DEF Received
  <2> QED
    BY <2>2 DEF OwnAnswers, TypeOK
<1> QED
  BY <1>1, <1>2
  DEF Next, Statement, Execute, Read, ReadOn, WalkAway, Drain, DrainTimeout, ReadFails, Cancel,
     Timeout,
      Interrupt, RequestConnects, RequestFails, RequestActs, Drop, Server, ServerRow, ServerError,
      ServerReady, Sends

(* ----------------------------- cancel requests --------------------------- *)

\* A step that sends no request and gives back no draining statement on a living
\* connection keeps what is known of the requests.
LEMMA RequestKept ==
    ASSUME RequestInv, UNCHANGED <<request, wanted>>, destroyed => destroyed',
           ~destroyed' => \A k \in Stmt : stmt[k] = "draining" => stmt'[k] = "draining"
    PROVE  RequestInv'
  BY Requests DEF RequestInv

\* ... a cancel request is of a statement that was to be stopped ...
LEMMA RequestStep == TypeOK /\ RequestInv /\ Next => RequestInv'
<1> SUFFICES ASSUME TypeOK, RequestInv, Next PROVE RequestInv'
  OBVIOUS
<1>t. /\ stmt \in [Stmt -> {"new", "reading", "yielded", "draining", "over"}]
      /\ wanted \in [Stmt -> SUBSET Reason]
      /\ request \in [Request -> {"none", "connecting", "sent", "over"}]
  BY DEF TypeOK
<1>1. ASSUME NEW k \in Stmt, Execute(k) \/ Read(k) \/ ReadOn(k) \/ DrainTimeout(k) \/ ReadFails(k)
      PROVE  RequestInv'
  <2>1. UNCHANGED <<request, wanted>> /\ (destroyed => destroyed')
    BY <1>1 DEF Execute, Read, ReadOn, DrainTimeout, ReadFails
  <2>2. ~destroyed' => \A j \in Stmt : stmt[j] = "draining" => stmt'[j] = "draining"
    BY <1>t, <1>1 DEF Execute, Read, ReadOn, DrainTimeout, ReadFails, Released
  <2> QED
    BY <2>1, <2>2, RequestKept
<1>2. ASSUME NEW k \in Stmt, WalkAway(k) PROVE RequestInv'
  BY <1>t, <1>2, Requests DEF WalkAway, Released, RequestInv
<1>3. ASSUME NEW k \in Stmt, Drain(k) PROVE RequestInv'
  <2>1. request[<<k, "abandon">>] = "over"
    BY <1>3 DEF Drain, Drained
  <2>2. ASSUME NEW r \in Request, request[r] \in InTransit, r[2] = "abandon"
        PROVE  destroyed' \/ stmt'[r[1]] = "draining"
    <3>1. r[1] # k
      BY <2>1, <2>2, Requests DEF InTransit
    <3>2. r[1] \in Stmt /\ (destroyed \/ stmt[r[1]] = "draining")
      BY <2>2, Requests DEF RequestInv
    <3> QED
      BY <1>t, <1>3, <3>1, <3>2 DEF Drain, Released
  <2>3. UNCHANGED <<request, wanted>>
    BY <1>3 DEF Drain
  <2> QED
    BY <2>2, <2>3 DEF RequestInv
<1>4. ASSUME NEW k \in Stmt, NEW why \in Reason, Interrupt(k, why) PROVE RequestInv'
  <2>1. /\ UNCHANGED <<stmt, destroyed>> /\ why # "abandon" /\ <<k, why>> \in Request
        /\ wanted' = [wanted EXCEPT ![k] = @ \cup {why}]
        /\ request' = [request EXCEPT ![<<k, why>>] = "connecting"]
    BY <1>4, Requests DEF Interrupt
  <2> QED
    BY <1>t, <2>1, Requests DEF RequestInv, InTransit
<1>5. ASSUME NEW r \in Request, RequestConnects(r) \/ RequestFails(r) \/ RequestActs(r) PROVE RequestInv'
  <2>1. /\ UNCHANGED <<stmt, wanted>> /\ (destroyed => destroyed')
        /\ \A q \in Request :
             /\ request'[q] # "none" => request[q] # "none"
             /\ request'[q] \in InTransit => request[q] \in InTransit
    BY <1>t, <1>5 DEF RequestConnects, RequestFails, RequestActs, InTransit, TypeOK
  <2> QED
    BY <1>t, <2>1 DEF RequestInv
<1>6. ASSUME Drop \/ Server PROVE RequestInv'
  <2>1. UNCHANGED <<request, wanted, stmt>> /\ (destroyed => destroyed')
    BY <1>6 DEF Drop, Server, ServerRow, ServerError, ServerReady, Sends
  <2> QED
    BY <2>1, RequestKept
<1> QED
  BY <1>1, <1>2, <1>3, <1>4, <1>5, <1>6 DEF Next, Statement, Cancel, Timeout, Reason

\* ... and finds its own.
LEMMA AimStep == TypeOK /\ WireInv /\ RequestInv /\ AimInv /\ Next => AimInv'
<1> SUFFICES ASSUME TypeOK, WireInv, RequestInv, AimInv, Next PROVE AimInv'
  OBVIOUS
<1>t. /\ none \notin Stmt /\ hasty \subseteq hasty'
      /\ request \in [Request -> {"none", "connecting", "sent", "over"}]
      /\ stmt \in [Stmt -> {"new", "reading", "yielded", "draining", "over"}]
      /\ \A k \in Stmt : busy = k <=> stmt[k] \in {"reading", "yielded", "draining"}
  BY PostgresAssumption, HastyGrows DEF TypeOK
<1>1. ASSUME NEW k \in Stmt, Execute(k) PROVE AimInv'
  <2>1. /\ UNCHANGED request
        /\ runs' = k
        /\ stmt[k] = "new"
        /\ stmt'[k] # "new"
        /\ busy = none
        /\ ~destroyed
    BY <1>t, <1>1 DEF Execute
  <2>2. ASSUME NEW r \in Request, request[r] \in InTransit PROVE k \in hasty'
    <3>1. r[2] # "abandon"
      BY <1>t, <2>1, <2>2, Requests DEF RequestInv
    <3>2. k \in BegunHastily
      BY <2>1, <2>2, <3>1 DEF BegunHastily, InTransit
    <3> QED
      BY <3>2 DEF Next
  <2> QED
    BY <2>1, <2>2 DEF AimInv
<1>2. ASSUME NEW k \in Stmt, WalkAway(k) PROVE AimInv'
  <2>1. runs \in {k, none} /\ UNCHANGED runs
    BY <1>t, <1>2 DEF WalkAway, WireInv
  <2>2. \/ UNCHANGED request
        \/ request' = [request EXCEPT ![<<k, "abandon">>] = "connecting"]
    BY <1>2 DEF WalkAway
  <2>3. ASSUME NEW r \in Request, request'[r] \in InTransit
        PROVE  request[r] \in InTransit \/ r[1] = k
    BY <1>t, <2>2, <2>3, Requests
  <2> QED
    BY <1>t, <2>1, <2>3 DEF AimInv
<1>3. ASSUME NEW k \in Stmt, NEW why \in Reason, Interrupt(k, why) PROVE AimInv'
  <2>1. stmt[k] \in {"reading", "yielded", "draining"}
    BY <1>t, <1>3 DEF Interrupt
  <2>2. runs \in {k, none} /\ UNCHANGED runs
    BY <1>t, <1>3, <2>1 DEF Interrupt, WireInv
  <2>3. ASSUME NEW r \in Request, request'[r] \in InTransit
        PROVE  request[r] \in InTransit \/ r[1] = k
    BY <1>t, <1>3, <2>3, Requests DEF Interrupt
  <2> QED
    BY <1>t, <2>2, <2>3 DEF AimInv
<1>4. ASSUME UNCHANGED runs, \A r \in Request : request'[r] \in InTransit => request[r] \in InTransit
      PROVE  AimInv'
  BY <1>t, <1>4 DEF AimInv
<1>5. ASSUME NEW r \in Request, RequestConnects(r) \/ RequestFails(r) \/ RequestActs(r) PROVE AimInv'
  <2>1. UNCHANGED runs /\ \A q \in Request : request'[q] \in InTransit => request[q] \in InTransit
    BY <1>t, <1>5 DEF RequestConnects, RequestFails, RequestActs, InTransit
  <2> QED
    BY <1>4, <2>1
<1>6. ASSUME Server PROVE AimInv'
  <2>1. UNCHANGED request /\ runs' \in {runs, none}
    BY <1>6 DEF Server, ServerRow, ServerError, ServerReady, Sends
  <2> QED
    BY <1>t, <2>1 DEF AimInv
<1>7. CASE UNCHANGED <<runs, request>>
  BY <1>4, <1>7
<1> QED
  BY <1>1, <1>2, <1>3, <1>5, <1>6, <1>7
  DEF Next, Statement, Cancel, Timeout, Reason, Read, ReadOn, Drain, DrainTimeout, ReadFails, Drop

\* The server strikes the statement a request on its way finds.
LEMMA StruckStep ==
    TypeOK /\ RequestInv /\ AimInv /\ OnlyOwnInterrupted /\ Next => OnlyOwnInterrupted'
<1> SUFFICES ASSUME TypeOK, RequestInv, AimInv, OnlyOwnInterrupted, Next PROVE OnlyOwnInterrupted'
  OBVIOUS
<1>t. /\ none \notin Stmt /\ hasty \subseteq hasty' /\ runs \in Stmt \cup {none} /\ struck \subseteq Stmt
      /\ request \in [Request -> {"none", "connecting", "sent", "over"}]
      /\ wanted \in [Stmt -> SUBSET Reason]
  BY PostgresAssumption, HastyGrows DEF TypeOK
<1>w. \A k \in Stmt : wanted[k] # {} => wanted'[k] # {}
  <2>1. \/ UNCHANGED wanted
        \/ \E k \in Stmt, why \in Reason : wanted' = [wanted EXCEPT ![k] = @ \cup {why}]
    BY DEF Next, Statement, Execute, Read, ReadOn, WalkAway, Drain, DrainTimeout, ReadFails,
       Cancel, Timeout,
           Interrupt, RequestConnects, RequestFails, RequestActs, Drop, Server, ServerRow, ServerError,
           ServerReady, Sends, Reason
  <2> QED
    BY <1>t, <2>1
<1>r. \A r \in Request : request[r] # "none" => request'[r] # "none"
  <2>1. \/ UNCHANGED request
        \/ \E q \in Request, to \in {"connecting", "sent", "over"} : request' = [request EXCEPT ![q] = to]
    <3>1. ASSUME NEW k \in Stmt, Statement(k)
          PROVE  UNCHANGED request \/ \E q \in Request : request' = [request EXCEPT ![q] = "connecting"]
      BY <3>1, Requests
      DEF Statement, Execute, Read, ReadOn, WalkAway, Drain, DrainTimeout, ReadFails, Cancel,
         Timeout, Interrupt
    <3>2. ASSUME NEW r \in Request, RequestConnects(r) \/ RequestFails(r) \/ RequestActs(r)
          PROVE  \E to \in {"connecting", "sent", "over"} : request' = [request EXCEPT ![r] = to]
      BY <3>2 DEF RequestConnects, RequestFails, RequestActs
    <3>3. Drop \/ Server => UNCHANGED request
      BY DEF Drop, Server, ServerRow, ServerError, ServerReady, Sends
    <3> QED
      BY <3>1, <3>2, <3>3 DEF Next
  <2> QED
    BY <1>t, <2>1
<1>2. CASE UNCHANGED struck
  BY <1>t, <1>w, <1>r, <1>2, Requests DEF OnlyOwnInterrupted
<1>3. ASSUME NEW r \in Request, RequestActs(r) PROVE OnlyOwnInterrupted'
  <2>1. request[r] = "sent" /\ (struck' = struck \/ (runs # none /\ struck' = struck \cup {runs}))
    BY <1>3 DEF RequestActs
  <2>2. runs # none /\ runs \notin hasty => wanted[runs] # {} \/ request[<<runs, "abandon">>] # "none"
    BY <1>t, <2>1, Requests DEF AimInv, RequestInv, InTransit
  <2> QED
    BY <1>t, <1>w, <1>r, <2>1, <2>2, Requests DEF OnlyOwnInterrupted
<1> QED
  BY <1>2, <1>3
  DEF Next, Statement, Execute, Read, ReadOn, WalkAway, Drain, DrainTimeout, ReadFails, Cancel,
     Timeout,
      Interrupt, RequestConnects, RequestFails, Drop, Server, ServerRow, ServerError, ServerReady, Sends

(* -------------------------------- theorems ------------------------------- *)

\* A step of something else changes nothing of it.
LEMMA Stuttering == Inv /\ UNCHANGED vars => Inv'
  BY DEF Inv, vars, connection, TypeOK, WireInv, RequestInv, AimInv, OwnAnswers, OnlyOwnInterrupted

\* The inductive invariant: types, the shape of the wire, and whom each cancel
\* request on its way can still hit.
THEOREM PostgresInvariance == Spec => []Inv
<1>1. Inv /\ [Next]_vars => Inv'
  BY TypeStep, WireStep, AnswersStep, RequestStep, AimStep, StruckStep, Stuttering DEF Inv
<1> QED
  BY InitInv, <1>1, PTL DEF Spec

\* The variables of a connection keep their types, and it is held by exactly the
\* statement that is being read.
THEOREM PostgresTyped == Spec => []TypeOK
<1>1. Inv => TypeOK
  BY DEF Inv
<1> QED
  BY PostgresInvariance, <1>1, PTL

\* Statements and answers stay in step (connection.ts, events, abandon and drain):
\* each statement reads messages of its own only, and a connection that is free
\* and alive has nothing left to read.
THEOREM PostgresInStep == Spec => []InStep
<1>1. Inv => InStep
  BY DEF Inv, WireInv, InStep, FreeIsInStep
<1> QED
  BY PostgresInvariance, <1>1, PTL

\* cancel() stops its own statement and no other (session.ts, execute): what the
\* server struck was to be stopped, was walked away from, or was begun by a caller
\* that did not wait for the cancel of the statement before.
THEOREM PostgresInterruptsItsOwn == Spec => []OnlyOwnInterrupted
<1>1. Inv => OnlyOwnInterrupted
  BY DEF Inv
<1> QED
  BY PostgresInvariance, <1>1, PTL

(* -------------------------- a second connection --------------------------- *)

\* The turns are those of S, each once.
Lists(t, S) ==
    /\ t \in Seq(S)
    /\ \A i, j \in DOMAIN t : t[i] = t[j] => i = j
    /\ \A x \in S : \E i \in DOMAIN t : t[i] = x

\* Nobody is listed in an empty queue ...
LEMMA ListsNobody == Lists(<<>>, {})
  BY DEF Lists

\* ... who joins comes last ...
LEMMA ListsOneMore ==
    ASSUME NEW S, NEW t, Lists(t, S), NEW x, x \notin S
    PROVE  /\ Lists(Append(t, x), S \cup {x})
           /\ Append(t, x) # <<>>
           /\ Head(Append(t, x)) = IF t = <<>> THEN x ELSE Head(t)
<1> DEFINE u == Append(t, x)
<1>1. t \in Seq(S) /\ t \in Seq(S \cup {x}) /\ Len(t) \in Nat /\ DOMAIN t = 1..Len(t)
  BY DEF Lists
<1>2. u \in Seq(S \cup {x}) /\ DOMAIN u = 1..(Len(t) + 1) /\ u[Len(t) + 1] = x
  BY <1>1
<1>3. \A i \in DOMAIN t : i \in DOMAIN u /\ u[i] = t[i] /\ u[i] # x /\ i # Len(t) + 1
  BY <1>1 DEF Lists
<1>4. \A i \in DOMAIN u : i \in DOMAIN t \/ i = Len(t) + 1
  BY <1>1, <1>2
<1> HIDE DEF u
<1>5. \A i, j \in DOMAIN u : u[i] = u[j] => i = j
  BY <1>2, <1>3, <1>4 DEF Lists
<1>6. \A y \in S \cup {x} : \E i \in DOMAIN u : u[i] = y
  BY <1>1, <1>2, <1>3 DEF Lists
<1>7. u # <<>> /\ Head(u) = IF t = <<>> THEN x ELSE Head(t)
  <2>1. u # <<>> /\ Head(u) = u[1]
    BY <1>2 DEF u
  <2>2. CASE t = <<>>
    <3>1. Len(t) = 0
      BY <2>2
    <3> QED
      BY <2>1, <2>2, <3>1, <1>2
  <2>3. CASE t # <<>>
    <3>1. 1 \in DOMAIN t /\ Head(t) = t[1]
      BY <2>3, <1>1
    <3> QED
      BY <2>1, <2>3, <3>1, <1>3
  <2> QED
    BY <2>2, <2>3
<1> QED
  BY <1>2, <1>5, <1>6, <1>7 DEF Lists, u

\* ... and who leaves is the first of it.
LEMMA ListsOneLess ==
    ASSUME NEW S, NEW t, Lists(t, S), t # <<>>
    PROVE  Head(t) \in S /\ Lists(Tail(t), S \ {Head(t)})
<1> DEFINE u == Tail(t)
<1>1. t \in Seq(S) /\ Len(t) \in Nat /\ Len(t) >= 1 /\ DOMAIN t = 1..Len(t) /\ Head(t) = t[1]
  BY DEF Lists
<1>2. u \in Seq(S) /\ Len(u) = Len(t) - 1 /\ DOMAIN u = 1..(Len(t) - 1)
  BY <1>1
<1>3. \A i \in DOMAIN u : u[i] = t[i + 1] /\ i + 1 \in DOMAIN t /\ i + 1 # 1
  BY <1>1, <1>2
<1> HIDE DEF u
<1>4. \A i \in DOMAIN u : u[i] \in S \ {Head(t)}
  BY <1>1, <1>3 DEF Lists
<1>5. u \in Seq(S \ {Head(t)})
  BY <1>2, <1>4
<1>6. \A i, j \in DOMAIN u : u[i] = u[j] => i = j
  <2> TAKE i, j \in DOMAIN u
  <2> HAVE u[i] = u[j]
  <2>1. i + 1 = j + 1
    BY <1>3 DEF Lists
  <2> QED
    BY <2>1, <1>2
<1>7. \A x \in S \ {Head(t)} : \E i \in DOMAIN u : u[i] = x
  <2> TAKE x \in S \ {Head(t)}
  <2>1. PICK i \in DOMAIN t : t[i] = x
    BY DEF Lists
  <2>2. i # 1 /\ i - 1 \in DOMAIN u
    BY <2>1, <1>1, <1>2
  <2>3. u[i - 1] = x
    BY <2>1, <2>2, <1>1, <1>3
  <2> QED
    BY <2>2, <2>3
<1> QED
  BY <1>1, <1>5, <1>6, <1>7 DEF Lists, u

\* A queue names those it lists, each once.
LEMMA ListsThem ==
    ASSUME NEW S, NEW t, Lists(t, S)
    PROVE  /\ \A i, j \in DOMAIN t : t[i] = t[j] => i = j
           /\ {t[i] : i \in DOMAIN t} = S
  BY DEF Lists

\* Of those that wait, in the order they came, only the first is at work.
InTurn(t, waiting, working) == Lists(t, waiting) /\ (working # {} => t # <<>> /\ working = {Head(t)})

\* When the first is done, the turn passes to nobody yet ...
LEMMA TurnPasses ==
    ASSUME NEW t, NEW Q, NEW A, InTurn(t, Q, A), t # <<>>
    PROVE  /\ InTurn(Tail(t), Q \ {Head(t)}, {})
           /\ Head(t) \in Q /\ A \subseteq {Head(t)}
  BY ListsOneLess DEF InTurn

\* ... who joins does not take it ...
LEMMA TurnJoined ==
    ASSUME NEW t, NEW Q, NEW A, InTurn(t, Q, A), NEW x, x \notin Q
    PROVE  InTurn(Append(t, x), Q \cup {x}, A)
  BY ListsOneMore DEF InTurn

\* ... it can come to the first alone ...
LEMMA TurnComes ==
    ASSUME NEW t, NEW Q, NEW A, InTurn(t, Q, A), t # <<>>, NEW B, B \subseteq {Head(t)}
    PROVE  InTurn(t, Q, B)
  BY DEF InTurn

\* ... and who has it is first.
LEMMA TurnFirst ==
    ASSUME NEW t, NEW Q, NEW A, InTurn(t, Q, A), NEW x, x \in Q \/ x \in A
    PROVE  t # <<>> /\ (x \in A => Head(t) = x)
  BY DEF InTurn, Lists

(* ------------------------- the second connection ------------------------- *)

\* A job that has its turn, and one that was asked for and is not over.
Active == {"connecting", "selecting", "running"}
Asked == {"queued"} \cup Active

\* The states of the jobs and of the second connection have their types.
SecondTyped ==
    /\ jobs \in [Job -> {"new", "queued", "connecting", "selecting", "running", "done", "failed"}]
    /\ spare \in {"none", "connecting", "up", "dead"}
    /\ spareDb \in 0 .. 1 /\ shut \in BOOLEAN

\* Who waits for the turn, and who has it.
Waiting == {j \in Job : jobs[j] \in Asked}
Working == {j \in Job : jobs[j] \in Active}

\* One job at a time, in the order they were asked.
SecondTurns == InTurn(jobTurn, Waiting, Working)

\* The session knows which database its second connection has selected, and the job that has
\* the turn is as far as the connection is.
SecondPlace ==
    /\ serverDb = spareDb
    /\ \A j \in Job :
         /\ jobs[j] = "connecting" => spare = "connecting"
         /\ jobs[j] \in {"selecting", "running"} => spare = "up"
         /\ jobs[j] = "selecting" => About[j] # none
         /\ jobs[j] = "running" => About[j] \in {none, serverDb}

\* The inductive invariant of a second connection.
SecondInv == SecondTyped /\ SecondTurns /\ SecondPlace

\* A session begins with no second connection and nothing asked.
LEMMA SecondBegins == Second!SecondInit => SecondInv
<1> SUFFICES ASSUME Second!SecondInit PROVE SecondInv
  OBVIOUS
<1>1. Waiting = {} /\ Working = {}
  BY DEF Second!SecondInit, Asked, Active, Waiting, Working
<1>2. SecondTyped /\ SecondPlace
  <2>1. \A j \in Job : jobs[j] = "new"
    BY DEF Second!SecondInit
  <2>3. jobs \in [Job -> {"new", "queued", "connecting", "selecting", "running", "done", "failed"}]
    BY DEF Second!SecondInit
  <2>4. spareDb \in 0 .. 1
    BY DEF Second!SecondInit
  <2>2. SecondTyped
    BY <2>3, <2>4 DEF Second!SecondInit, SecondTyped
  <2> QED
    BY <2>1, <2>2 DEF Second!SecondInit, SecondPlace
<1>3. SecondTurns
  BY <1>1, ListsNobody DEF Second!SecondInit, SecondTurns, InTurn
<1> QED
  BY <1>2, <1>3 DEF SecondInv

\* However a job ends, the turn passes on.
LEMMA SecondEnds ==
    ASSUME SecondInv, NEW j \in Job, NEW how \in {"done", "failed"}, Second!Ends(j, how),
           jobs[j] \in Active \/ (jobs[j] = "queued" /\ Second!First(j))
    PROVE  /\ jobs' = [jobs EXCEPT ![j] = how]
           /\ jobs' \in [Job -> {"new", "queued", "connecting", "selecting", "running", "done", "failed"}]
           /\ \A i \in Job : jobs'[i] \notin Active
           /\ SecondTurns'
<1>1. j \in Waiting /\ (j \in Working \/ Head(jobTurn) = j)
  BY DEF Waiting, Working, Asked, Second!First
<1>2. jobTurn # <<>> /\ Head(jobTurn) = j
  BY <1>1, TurnFirst DEF SecondInv, SecondTurns
<1>3. Working \subseteq {j} /\ InTurn(jobTurn', Waiting \ {j}, {})
  BY <1>2, TurnPasses DEF SecondInv, SecondTurns, Second!Ends
<1>4. /\ jobs' = [jobs EXCEPT ![j] = how]
      /\ jobs \in [Job -> {"new", "queued", "connecting", "selecting", "running", "done", "failed"}]
  BY DEF Second!Ends, SecondInv, SecondTyped
<1>5. Waiting' = Waiting \ {j} /\ Working' = {}
  BY <1>3, <1>4 DEF Waiting, Working, Asked, Active
<1> QED
  BY <1>3, <1>4, <1>5 DEF SecondTurns, Working

\* Every step of a second connection keeps its invariant.
LEMMA SecondKeeps == SecondInv /\ Second!SecondNext => SecondInv'
<1> SUFFICES ASSUME SecondInv, Second!SecondNext PROVE SecondInv'
  OBVIOUS
<1>a. \A j \in Job : About[j] \in {0, 1, none} /\ none \notin {0, 1}
  BY SecondAssumption DEF Second!SecondAssumption, Second!Databases
<1>i. /\ SecondTyped /\ SecondTurns /\ SecondPlace
      /\ jobs \in [Job -> {"new", "queued", "connecting", "selecting", "running", "done", "failed"}]
  BY DEF SecondInv, SecondTyped
<1>1. ASSUME NEW j \in Job, Second!Ask(j) PROVE SecondInv'
  <2>1. Waiting' = Waiting \cup {j} /\ Working' = Working /\ j \notin Waiting
    BY <1>1, <1>i DEF Second!Ask, Waiting, Working, Asked, Active
  <2>2. SecondTurns'
    BY <2>1, <1>1, <1>i, TurnJoined DEF SecondTurns, Second!Ask
  <2>3. SecondTyped' /\ SecondPlace'
    BY <1>1, <1>i DEF SecondTyped, SecondPlace, Second!Ask
  <2> QED
    BY <2>2, <2>3 DEF SecondInv
<1>2. ASSUME NEW j \in Job, Second!TurnComes(j) PROVE SecondInv'
  <2>0. jobs[j] = "queued" /\ Second!First(j) /\ UNCHANGED <<spareDb, serverDb, shut>>
    BY <1>2 DEF Second!TurnComes
  <2>1. CASE Second!Ends(j, "failed") /\ UNCHANGED spare
    BY <2>0, <2>1, SecondEnds, <1>i DEF SecondInv, SecondTyped, SecondPlace, Active
  <2>2. CASE /\ jobTurn' = jobTurn
             /\ jobs' = [jobs EXCEPT ![j] = IF spare = "up" THEN Second!Begun(j, spareDb) ELSE "connecting"]
             /\ spare' = IF spare = "up" THEN "up" ELSE "connecting"
    <3>1. Waiting' = Waiting /\ Working' = {j}
      <4>1. \A i \in Working : i = j
        BY <2>0, <1>i, TurnFirst DEF SecondTurns, Second!First
      <4>2. jobs'[j] \in Active /\ \A i \in Job \ {j} : jobs'[i] = jobs[i]
        BY <2>2, <1>i DEF Active, Second!Begun
      <4> QED
        BY <4>1, <4>2, <2>0 DEF Waiting, Working, Asked, Active
    <3>2. SecondTurns'
      BY <3>1, <2>0, <2>2, <1>i, TurnComes DEF SecondTurns, Second!First
    <3>3. SecondTyped'
      BY <2>0, <2>2, <1>i DEF SecondTyped, Second!Begun
    <3>4. SecondPlace'
      BY <2>0, <2>2, <1>i, <3>1 DEF SecondPlace, SecondTyped, Second!Begun, Working, Active
    <3> QED
      BY <3>2, <3>3, <3>4 DEF SecondInv
  <2> QED
    BY <1>2, <2>1, <2>2 DEF Second!TurnComes
<1>3. CASE Second!Connects
  <2>1. Waiting' = Waiting /\ Working' = Working
    BY <1>3, <1>i DEF Second!Connects, Waiting, Working, Asked, Active, Second!Begun
  <2>2. SecondTurns'
    BY <2>1, <1>3, <1>i DEF SecondTurns, Second!Connects
  <2>3. SecondTyped' /\ SecondPlace'
    BY <1>3, <1>i, <1>a DEF Second!Connects, SecondTyped, SecondPlace, Second!Begun
  <2> QED
    BY <2>2, <2>3 DEF SecondInv
<1>4. ASSUME NEW j \in Job, Second!ConnectFails(j) PROVE SecondInv'
  BY <1>4, SecondEnds, <1>i DEF SecondInv, SecondTyped, SecondPlace, Active, Second!ConnectFails
<1>5. ASSUME NEW j \in Job, Second!Selected(j) PROVE SecondInv'
  <2>1. Waiting' = Waiting /\ Working' = Working
    BY <1>5, <1>i DEF Second!Selected, Waiting, Working, Asked, Active
  <2>2. SecondTurns'
    BY <2>1, <1>5, <1>i DEF SecondTurns, Second!Selected
  <2>4. \A i \in Job : jobs[i] = "running" => i = j
    BY <1>5, <1>i, TurnFirst DEF Second!Selected, SecondTurns, Working, Active
  <2>3. SecondTyped' /\ SecondPlace'
    BY <1>5, <1>i, <1>a, <2>4 DEF Second!Selected, SecondTyped, SecondPlace
  <2> QED
    BY <2>2, <2>3 DEF SecondInv
<1>6. ASSUME NEW j \in Job, NEW how \in {"done", "failed"}, Second!Answered(j, how) PROVE SecondInv'
  <2>1. jobs[j] \in Active
    BY <1>6 DEF Second!Answered, Active
  <2>2. Second!Ends(j, how) /\ UNCHANGED <<spare, spareDb, serverDb, shut>>
    BY <1>6 DEF Second!Answered
  <2> QED
    BY <2>1, <2>2, SecondEnds, <1>i DEF SecondInv, SecondTyped, SecondPlace, Active
<1>7. CASE Second!Loses /\ UNCHANGED <<spareDb, serverDb, shut>>
  <2>1. SecondTyped' /\ SecondPlace'
    BY <1>7, <1>i DEF Second!Loses, SecondTyped, SecondPlace
  <2>2. Working' = {} /\ \A i \in Working : jobs[i] \in {"selecting", "running"}
    BY <1>7, <1>i DEF Second!Loses, SecondPlace, Working, Active
  <2>3. CASE Working = {}
    <3>1. Waiting' = Waiting
      BY <2>3, <1>7, <1>i DEF Second!Loses, Waiting, Working, Active, Asked
    <3>2. jobTurn' = jobTurn
      <4>1. jobTurn # <<>> => Head(jobTurn) \in Job
        BY <1>i, TurnPasses DEF SecondTurns, Waiting
      <4> QED
        BY <4>1, <2>3, <1>7 DEF Second!Loses, Working, Active
    <3> QED
      BY <3>1, <3>2, <2>2, <2>1, <2>3, <1>i DEF SecondInv, SecondTurns
  <2>4. CASE Working # {}
    <3>1. PICK j \in Job : j \in Working
      BY <2>4 DEF Working
    <3>2. jobTurn # <<>> /\ Head(jobTurn) = j
      BY <3>1, <1>i, TurnFirst DEF SecondTurns
    <3>3. Working \subseteq {j} /\ InTurn(Tail(jobTurn), Waiting \ {j}, {})
      BY <3>2, <1>i, TurnPasses DEF SecondTurns
    <3>4. jobTurn' = Tail(jobTurn) /\ Waiting' = Waiting \ {j}
      BY <3>1, <3>2, <3>3, <2>2, <1>7, <1>i DEF Second!Loses, Waiting, Working, Active, Asked
    <3> QED
      BY <3>3, <3>4, <2>1, <2>2 DEF SecondInv, SecondTurns
  <2> QED
    BY <2>3, <2>4
<1>8. CASE Second!Close
  <2>1. Waiting' = Waiting /\ Working' = Working
    BY <1>8 DEF Second!Close, Waiting, Working
  <2> QED
    BY <2>1, <1>8, <1>i DEF SecondInv, SecondTyped, SecondTurns, SecondPlace, Second!Close
<1> QED
  BY <1>1, <1>2, <1>3, <1>4, <1>5, <1>6, <1>7, <1>8
     DEF Second!SecondNext, Second!Goes, Second!SecondDrops, Second!CloseEnds

(* -------------------- the second connection of MongoDB -------------------- *)

(* ------------------------- the second connection ------------------------- *)

\* The second connection of a MongoDB session: the same, of the jobs it has.
AsideTyped ==
    /\ asks \in [MongoJobs -> {"new", "queued", "connecting", "selecting", "running", "done", "failed"}]
    /\ mongoSecond \in {"none", "connecting", "up", "dead"}
    /\ mongoCached \in 0 .. 1 /\ mongoClosed \in BOOLEAN

AsideWaiting == {j \in MongoJobs : asks[j] \in Asked}
AsideWorking == {j \in MongoJobs : asks[j] \in Active}

\* Again one job at a time.
AsideTurns == InTurn(askTurn, AsideWaiting, AsideWorking)

AsidePlace ==
    /\ mongoChosen = mongoCached
    /\ \A j \in MongoJobs :
         /\ asks[j] = "connecting" => mongoSecond = "connecting"
         /\ asks[j] \in {"selecting", "running"} => mongoSecond = "up"
         /\ asks[j] # "selecting"

\* The inductive invariant of the second connection of a MongoDB session.
AsideInv == AsideTyped /\ AsideTurns /\ AsidePlace

\* It begins with nothing asked ...
LEMMA AsideBegins == Mongo!SecondInit => AsideInv
<1> SUFFICES ASSUME Mongo!SecondInit PROVE AsideInv
  OBVIOUS
<1>1. AsideWaiting = {} /\ AsideWorking = {}
  BY DEF Mongo!SecondInit, Asked, Active, AsideWaiting, AsideWorking
<1>2. AsideTyped /\ AsidePlace
  <2>1. \A j \in MongoJobs : asks[j] = "new"
    BY DEF Mongo!SecondInit
  <2>3. asks \in [MongoJobs -> {"new", "queued", "connecting", "selecting", "running", "done", "failed"}]
    BY DEF Mongo!SecondInit
  <2>4. mongoCached \in 0 .. 1
    BY DEF Mongo!SecondInit
  <2>2. AsideTyped
    BY <2>3, <2>4 DEF Mongo!SecondInit, AsideTyped
  <2> QED
    BY <2>1, <2>2 DEF Mongo!SecondInit, AsidePlace
<1>3. AsideTurns
  BY <1>1, ListsNobody DEF Mongo!SecondInit, AsideTurns, InTurn
<1> QED
  BY <1>2, <1>3 DEF AsideInv

\* ... a job that ends passes the turn on ...
LEMMA AsideEnds ==
    ASSUME AsideInv, NEW j \in MongoJobs, NEW how \in {"done", "failed"}, Mongo!Ends(j, how),
           asks[j] \in Active \/ (asks[j] = "queued" /\ Mongo!First(j))
    PROVE  /\ asks' = [asks EXCEPT ![j] = how]
           /\ asks' \in [MongoJobs -> {"new", "queued", "connecting", "selecting", "running", "done", "failed"}]
           /\ \A i \in MongoJobs : asks'[i] \notin Active
           /\ AsideTurns'
<1>1. j \in AsideWaiting /\ (j \in AsideWorking \/ Head(askTurn) = j)
  BY DEF AsideWaiting, AsideWorking, Asked, Mongo!First
<1>2. askTurn # <<>> /\ Head(askTurn) = j
  BY <1>1, TurnFirst DEF AsideInv, AsideTurns
<1>3. AsideWorking \subseteq {j} /\ InTurn(askTurn', AsideWaiting \ {j}, {})
  BY <1>2, TurnPasses DEF AsideInv, AsideTurns, Mongo!Ends
<1>4. /\ asks' = [asks EXCEPT ![j] = how]
      /\ asks \in [MongoJobs -> {"new", "queued", "connecting", "selecting", "running", "done", "failed"}]
  BY DEF Mongo!Ends, AsideInv, AsideTyped
<1>5. AsideWaiting' = AsideWaiting \ {j} /\ AsideWorking' = {}
  BY <1>3, <1>4 DEF AsideWaiting, AsideWorking, Asked, Active
<1> QED
  BY <1>3, <1>4, <1>5 DEF AsideTurns, AsideWorking

\* ... and its steps keep the invariant.
LEMMA AsideKeeps == AsideInv /\ Mongo!SecondNext => AsideInv'
<1> SUFFICES ASSUME AsideInv, Mongo!SecondNext PROVE AsideInv'
  OBVIOUS
<1>i. /\ AsideTyped /\ AsideTurns /\ AsidePlace
      /\ asks \in [MongoJobs -> {"new", "queued", "connecting", "selecting", "running", "done", "failed"}]
  BY DEF AsideInv, AsideTyped
<1>1. ASSUME NEW j \in MongoJobs, Mongo!Ask(j) PROVE AsideInv'
  <2>1. /\ AsideWaiting' = AsideWaiting \cup {j}
        /\ AsideWorking' = AsideWorking
        /\ j \notin AsideWaiting
    BY <1>1, <1>i DEF Mongo!Ask, AsideWaiting, AsideWorking, Asked, Active
  <2>2. AsideTurns'
    BY <2>1, <1>1, <1>i, TurnJoined DEF AsideTurns, Mongo!Ask
  <2>3. AsideTyped' /\ AsidePlace'
    BY <1>1, <1>i DEF AsideTyped, AsidePlace, Mongo!Ask
  <2> QED
    BY <2>2, <2>3 DEF AsideInv
<1>2. ASSUME NEW j \in MongoJobs, Mongo!TurnComes(j) PROVE AsideInv'
  <2>0. asks[j] = "queued" /\ Mongo!First(j) /\ UNCHANGED <<mongoCached, mongoChosen, mongoClosed>>
    BY <1>2 DEF Mongo!TurnComes
  <2>1. CASE Mongo!Ends(j, "failed") /\ UNCHANGED mongoSecond
    BY <2>0, <2>1, AsideEnds, <1>i DEF AsideInv, AsideTyped, AsidePlace, Active
  <2>2. CASE /\ askTurn' = askTurn
             /\ asks' = [asks EXCEPT ![j] = IF mongoSecond = "up" THEN Mongo!Begun(j, mongoCached) ELSE "connecting"]
             /\ mongoSecond' = IF mongoSecond = "up" THEN "up" ELSE "connecting"
    <3>1. AsideWaiting' = AsideWaiting /\ AsideWorking' = {j}
      <4>1. \A i \in AsideWorking : i = j
        BY <2>0, <1>i, TurnFirst DEF AsideTurns, Mongo!First
      <4>2. asks'[j] \in Active /\ \A i \in MongoJobs \ {j} : asks'[i] = asks[i]
        BY <2>2, <1>i DEF Active, Mongo!Begun
      <4> QED
        BY <4>1, <4>2, <2>0 DEF AsideWaiting, AsideWorking, Asked, Active
    <3>2. AsideTurns'
      BY <3>1, <2>0, <2>2, <1>i, TurnComes DEF AsideTurns, Mongo!First
    <3>3. AsideTyped'
      BY <2>0, <2>2, <1>i DEF AsideTyped, Mongo!Begun
    <3>4. AsidePlace'
      BY <2>0, <2>2, <1>i, <3>1 DEF AsidePlace, AsideTyped, Mongo!Begun, AsideWorking, Active
    <3> QED
      BY <3>2, <3>3, <3>4 DEF AsideInv
  <2> QED
    BY <1>2, <2>1, <2>2 DEF Mongo!TurnComes
<1>3. CASE Mongo!Connects
  <2>1. AsideWaiting' = AsideWaiting /\ AsideWorking' = AsideWorking
    BY <1>3, <1>i DEF Mongo!Connects, AsideWaiting, AsideWorking, Asked, Active, Mongo!Begun
  <2>2. AsideTurns'
    BY <2>1, <1>3, <1>i DEF AsideTurns, Mongo!Connects
  <2>3. AsideTyped' /\ AsidePlace'
    BY <1>3, <1>i DEF Mongo!Connects, AsideTyped, AsidePlace, Mongo!Begun
  <2> QED
    BY <2>2, <2>3 DEF AsideInv
<1>4. ASSUME NEW j \in MongoJobs, Mongo!ConnectFails(j) PROVE AsideInv'
  BY <1>4, AsideEnds, <1>i DEF AsideInv, AsideTyped, AsidePlace, Active, Mongo!ConnectFails
<1>5. ASSUME NEW j \in MongoJobs, Mongo!Selected(j) PROVE AsideInv'
  <2>1. AsideWaiting' = AsideWaiting /\ AsideWorking' = AsideWorking
    BY <1>5, <1>i DEF Mongo!Selected, AsideWaiting, AsideWorking, Asked, Active
  <2>2. AsideTurns'
    BY <2>1, <1>5, <1>i DEF AsideTurns, Mongo!Selected
  <2>4. \A i \in MongoJobs : asks[i] = "running" => i = j
    BY <1>5, <1>i, TurnFirst DEF Mongo!Selected, AsideTurns, AsideWorking, Active
  <2>3. AsideTyped' /\ AsidePlace'
    BY <1>5, <1>i, <2>4 DEF Mongo!Selected, AsideTyped, AsidePlace
  <2> QED
    BY <2>2, <2>3 DEF AsideInv
<1>6. ASSUME NEW j \in MongoJobs, NEW how \in {"done", "failed"}, Mongo!Answered(j, how) PROVE AsideInv'
  <2>1. asks[j] \in Active
    BY <1>6 DEF Mongo!Answered, Active
  <2>2. Mongo!Ends(j, how) /\ UNCHANGED <<mongoSecond, mongoCached, mongoChosen, mongoClosed>>
    BY <1>6 DEF Mongo!Answered
  <2> QED
    BY <2>1, <2>2, AsideEnds, <1>i DEF AsideInv, AsideTyped, AsidePlace, Active
<1>7. CASE Mongo!Loses /\ UNCHANGED <<mongoCached, mongoChosen, mongoClosed>>
  <2>1. AsideTyped' /\ AsidePlace'
    BY <1>7, <1>i DEF Mongo!Loses, AsideTyped, AsidePlace
  <2>2. AsideWorking' = {} /\ \A i \in AsideWorking : asks[i] \in {"selecting", "running"}
    BY <1>7, <1>i DEF Mongo!Loses, AsidePlace, AsideWorking, Active
  <2>3. CASE AsideWorking = {}
    <3>1. AsideWaiting' = AsideWaiting
      BY <2>3, <1>7, <1>i DEF Mongo!Loses, AsideWaiting, AsideWorking, Active, Asked
    <3>2. askTurn' = askTurn
      <4>1. askTurn # <<>> => Head(askTurn) \in MongoJobs
        BY <1>i, TurnPasses DEF AsideTurns, AsideWaiting
      <4> QED
        BY <4>1, <2>3, <1>7 DEF Mongo!Loses, AsideWorking, Active
    <3> QED
      BY <3>1, <3>2, <2>2, <2>1, <2>3, <1>i DEF AsideInv, AsideTurns
  <2>4. CASE AsideWorking # {}
    <3>1. PICK j \in MongoJobs : j \in AsideWorking
      BY <2>4 DEF AsideWorking
    <3>2. askTurn # <<>> /\ Head(askTurn) = j
      BY <3>1, <1>i, TurnFirst DEF AsideTurns
    <3>3. AsideWorking \subseteq {j} /\ InTurn(Tail(askTurn), AsideWaiting \ {j}, {})
      BY <3>2, <1>i, TurnPasses DEF AsideTurns
    <3>4. askTurn' = Tail(askTurn) /\ AsideWaiting' = AsideWaiting \ {j}
      BY <3>1, <3>2, <3>3, <2>2, <1>7, <1>i DEF Mongo!Loses, AsideWaiting, AsideWorking, Active,
         Asked
    <3> QED
      BY <3>3, <3>4, <2>1, <2>2 DEF AsideInv, AsideTurns
  <2> QED
    BY <2>3, <2>4
<1>8. CASE Mongo!Close
  <2>1. AsideWaiting' = AsideWaiting /\ AsideWorking' = AsideWorking
    BY <1>8 DEF Mongo!Close, AsideWaiting, AsideWorking
  <2> QED
    BY <2>1, <1>8, <1>i DEF AsideInv, AsideTyped, AsideTurns, AsidePlace, Mongo!Close
<1> QED
  BY <1>1, <1>2, <1>3, <1>4, <1>5, <1>6, <1>7, <1>8
     DEF Mongo!SecondNext, Mongo!Goes, Mongo!SecondDrops, Mongo!CloseEnds

(* ---------------------------- a MySQL session ----------------------------- *)

(* --------------------------- the MySQL session --------------------------- *)

\* A kill that was asked for and did not reach the server yet.
Due == {"connecting", "sent"}
\* A statement the server has.
Going(k) == statement[k] \in {"running", "answered"}

\* The states of statements, kills, metadata queries and the second connection have their types.
SessionTyped ==
    /\ statement \in [Statements -> {"new", "running", "answered", "over"}]
    /\ kill \in [Kills -> {"none", "connecting", "sent", "gone", "refused"}]
    /\ browse \in [Browse -> {"new", "queued", "connecting", "running", "done", "failed"}]
    /\ second \in {"none", "connecting", "up", "dead", "closed"}
    /\ user \in Browse \cup Kills \cup {none}
    /\ ended \in BOOLEAN
\* What was struck, asked for and begun hastily are statements.
SessionSets ==
    /\ struckDown \subseteq Statements /\ hurried \subseteq Statements
    /\ stopWanted \in [Statements -> SUBSET {"cancel", "timeout"}]

\* Who waits for the turn, and who has it.
BrowseWaiting == {b \in Browse : browse[b] \in {"queued", "connecting", "running"}}
BrowseWorking == {b \in Browse : browse[b] \in {"connecting", "running"}}
\* Metadata queries take turns.
SessionTurns == InTurn(turn, BrowseWaiting, BrowseWorking)

\* Who is on the second connection.
SessionUser ==
    /\ user # none => second = "up"
    /\ \A b \in Browse : browse[b] = "running" <=> user = b
    /\ \A q \in Kills : kill[q] = "sent" <=> user = q

\* A kill that is due finds its own statement, or one begun hastily.
SessionAim ==
    /\ \A j, k \in Statements : Going(j) /\ Going(k) => j = k
    /\ \A q \in Kills : kill[q] # "none" => stopWanted[q[1]] # {}
    /\ \A q \in Kills, k \in Statements :
          kill[q] \in Due /\ statement[k] = "running" => k = q[1] \/ k \in hurried
    /\ \A k \in struckDown : k \in hurried \/ stopWanted[k] # {}

\* The inductive invariant of a MySQL session.
SessionInv == SessionTyped /\ SessionSets /\ SessionTurns /\ SessionUser /\ SessionAim

\* What the constants of the session give.
LEMMA SessionFacts ==
    /\ none \notin Browse /\ none \notin Kills /\ Browse \cap Kills = {}
    /\ \A q \in Kills : q[1] \in Statements /\ q[2] \in {"cancel", "timeout"} /\ q = <<q[1], q[2]>>
    /\ \A k, why : <<k, why>> \in Kills => k \in Statements /\ why \in {"cancel", "timeout"}
  BY SessionAssumption DEF Session!SessionAssumption, Session!Reason

\* A session begins with nothing asked.
LEMMA SessionBegins == Session!Init => SessionInv
<1> SUFFICES ASSUME Session!Init PROVE SessionInv
  OBVIOUS
<1>1. /\ statement = [k \in Statements |-> "new"] /\ kill = [q \in Kills |-> "none"]
      /\ browse = [b \in Browse |-> "new"] /\ turn = <<>> /\ user = none
  BY DEF Session!Init
<1>2. BrowseWaiting = {} /\ BrowseWorking = {}
  BY <1>1 DEF BrowseWaiting, BrowseWorking
<1>3. SessionTyped
  BY <1>1 DEF Session!Init, SessionTyped
<1>4. SessionSets
  BY DEF Session!Init, SessionSets
<1>5. SessionTurns
  BY <1>1, <1>2, ListsNobody DEF SessionTurns, InTurn
<1>6. SessionUser
  BY <1>1, SessionFacts DEF SessionUser
<1>7. SessionAim
  BY <1>1 DEF Session!Init, SessionAim, Going, Due
<1> QED
  BY <1>3, <1>4, <1>5, <1>6, <1>7 DEF SessionInv

\* A step of the session keeps the types of its states ...
LEMMA SessionTypedStep == SessionInv /\ Session!Next => SessionTyped'
<1> SUFFICES ASSUME SessionInv, Session!Next PROVE SessionTyped'
  OBVIOUS
<1>0. hurried' = hurried \cup Session!BegunHastily
  BY DEF Session!Next
<1> USE <1>0, SessionFacts DEF SessionInv, SessionTyped
<1>1. ASSUME NEW k \in Statements, Session!Execute(k) PROVE SessionTyped'
  BY <1>1 DEF Session!Execute
<1>2. ASSUME NEW k \in Statements, Session!ServerEnds(k) PROVE SessionTyped'
  BY <1>2 DEF Session!ServerEnds
<1>3. ASSUME NEW k \in Statements, Session!IterationEnds(k) PROVE SessionTyped'
  BY <1>3 DEF Session!IterationEnds
<1>4. ASSUME NEW k \in Statements, Session!Cancel(k) PROVE SessionTyped'
  BY <1>4 DEF Session!Cancel, Session!Stopping, Session!Opened
<1>5. ASSUME NEW k \in Statements, Session!Timeout(k) PROVE SessionTyped'
  BY <1>5 DEF Session!Timeout, Session!Stopping, Session!Opened
<1>6. ASSUME NEW q \in Kills, Session!KillGoes(q) PROVE SessionTyped'
  BY <1>6 DEF Session!KillGoes, Session!Refused, Session!Ready
<1>7. ASSUME NEW q \in Kills, Session!KillActs(q) PROVE SessionTyped'
  BY <1>7 DEF Session!KillActs
<1>8. ASSUME NEW b \in Browse, Session!Ask(b) PROVE SessionTyped'
  BY <1>8 DEF Session!Ask
<1>9. ASSUME NEW b \in Browse, Session!BrowseTurn(b) PROVE SessionTyped'
  BY <1>9 DEF Session!BrowseTurn, Session!HasTurn, Session!BrowseEnds, Session!Opened,
     Session!Passed
<1>10. ASSUME NEW b \in Browse, Session!BrowseGoes(b) PROVE SessionTyped'
  BY <1>10 DEF Session!BrowseGoes, Session!Refused, Session!Ready, Session!BrowseEnds,
     Session!Passed
<1>11. ASSUME NEW b \in Browse, Session!BrowseAnswered(b) PROVE SessionTyped'
  BY <1>11 DEF Session!BrowseAnswered, Session!BrowseEnds, Session!Passed
<1>12. CASE Session!SecondConnects
  BY <1>12 DEF Session!SecondConnects
<1>13. CASE Session!SecondFails
  BY <1>13 DEF Session!SecondFails, Session!Rejected, Session!Passed
<1>14. CASE Session!SecondDrops
  BY <1>14 DEF Session!SecondDrops, Session!Rejected, Session!Passed
<1>15. CASE Session!Close
  BY <1>15 DEF Session!Close
<1>16. CASE Session!CloseEnds
  BY <1>16 DEF Session!CloseEnds, Session!Rejected, Session!Passed
<1> QED
  BY <1>1, <1>2, <1>3, <1>4, <1>5, <1>6, <1>7, <1>8, <1>9, <1>10, <1>11, <1>12, <1>13, <1>14,
     <1>15, <1>16 DEF Session!Next

\* ... and of its sets ...
LEMMA SessionSetsStep == SessionInv /\ Session!Next => SessionSets'
<1> SUFFICES ASSUME SessionInv, Session!Next PROVE SessionSets'
  OBVIOUS
<1>0. hurried' = hurried \cup Session!BegunHastily
  BY DEF Session!Next
<1> USE <1>0, SessionFacts DEF SessionInv, SessionSets, SessionTyped
<1>1. ASSUME NEW k \in Statements, Session!Execute(k) PROVE SessionSets'
  BY <1>1 DEF Session!Execute, Session!BegunHastily
<1>2. ASSUME NEW k \in Statements, Session!ServerEnds(k) PROVE SessionSets'
  BY <1>2 DEF Session!ServerEnds, Session!BegunHastily
<1>3. ASSUME NEW k \in Statements, Session!IterationEnds(k) PROVE SessionSets'
  BY <1>3 DEF Session!IterationEnds, Session!BegunHastily
<1>4. ASSUME NEW k \in Statements, Session!Cancel(k) PROVE SessionSets'
  BY <1>4 DEF Session!Cancel, Session!Stopping, Session!Opened, Session!BegunHastily
<1>5. ASSUME NEW k \in Statements, Session!Timeout(k) PROVE SessionSets'
  BY <1>5 DEF Session!Timeout, Session!Stopping, Session!Opened, Session!BegunHastily
<1>6. ASSUME NEW q \in Kills, Session!KillGoes(q) PROVE SessionSets'
  BY <1>6 DEF Session!KillGoes, Session!Refused, Session!Ready, Session!BegunHastily
<1>7. ASSUME NEW q \in Kills, Session!KillActs(q) PROVE SessionSets'
  BY <1>7 DEF Session!KillActs, Session!BegunHastily
<1>8. ASSUME NEW b \in Browse, Session!Ask(b) PROVE SessionSets'
  BY <1>8 DEF Session!Ask, Session!BegunHastily
<1>9. ASSUME NEW b \in Browse, Session!BrowseTurn(b) PROVE SessionSets'
  BY <1>9 DEF Session!BrowseTurn, Session!HasTurn, Session!BrowseEnds, Session!Opened,
     Session!Passed, Session!BegunHastily
<1>10. ASSUME NEW b \in Browse, Session!BrowseGoes(b) PROVE SessionSets'
  BY <1>10 DEF Session!BrowseGoes, Session!Refused, Session!Ready, Session!BrowseEnds,
     Session!Passed, Session!BegunHastily
<1>11. ASSUME NEW b \in Browse, Session!BrowseAnswered(b) PROVE SessionSets'
  BY <1>11 DEF Session!BrowseAnswered, Session!BrowseEnds, Session!Passed, Session!BegunHastily
<1>12. CASE Session!SecondConnects
  BY <1>12 DEF Session!SecondConnects, Session!BegunHastily
<1>13. CASE Session!SecondFails
  BY <1>13 DEF Session!SecondFails, Session!Rejected, Session!Passed, Session!BegunHastily
<1>14. CASE Session!SecondDrops
  BY <1>14 DEF Session!SecondDrops, Session!Rejected, Session!Passed, Session!BegunHastily
<1>15. CASE Session!Close
  BY <1>15 DEF Session!Close, Session!BegunHastily
<1>16. CASE Session!CloseEnds
  BY <1>16 DEF Session!CloseEnds, Session!Rejected, Session!Passed, Session!BegunHastily
<1> QED
  BY <1>1, <1>2, <1>3, <1>4, <1>5, <1>6, <1>7, <1>8, <1>9, <1>10, <1>11, <1>12, <1>13, <1>14,
     <1>15, <1>16 DEF Session!Next

\* ... one user of the second connection ...
LEMMA SessionUserStep == SessionInv /\ Session!Next => SessionUser'
<1> SUFFICES ASSUME SessionInv, Session!Next PROVE SessionUser'
  OBVIOUS
<1>0. hurried' = hurried \cup Session!BegunHastily
  BY DEF Session!Next
<1> USE <1>0, SessionFacts DEF SessionInv, SessionTyped, SessionUser, SessionTurns
<1>1. ASSUME NEW k \in Statements, Session!Execute(k) PROVE SessionUser'
  BY <1>1 DEF Session!Execute
<1>2. ASSUME NEW k \in Statements, Session!ServerEnds(k) PROVE SessionUser'
  BY <1>2 DEF Session!ServerEnds
<1>3. ASSUME NEW k \in Statements, Session!IterationEnds(k) PROVE SessionUser'
  BY <1>3 DEF Session!IterationEnds
<1>4. ASSUME NEW k \in Statements, Session!Cancel(k) PROVE SessionUser'
  BY <1>4 DEF Session!Cancel, Session!Stopping, Session!Opened
<1>5. ASSUME NEW k \in Statements, Session!Timeout(k) PROVE SessionUser'
  BY <1>5 DEF Session!Timeout, Session!Stopping, Session!Opened
<1>6. ASSUME NEW q \in Kills, Session!KillGoes(q) PROVE SessionUser'
  BY <1>6 DEF Session!KillGoes, Session!Refused, Session!Ready
<1>7. ASSUME NEW q \in Kills, Session!KillActs(q) PROVE SessionUser'
  BY <1>7 DEF Session!KillActs
<1>8. ASSUME NEW b \in Browse, Session!Ask(b) PROVE SessionUser'
  BY <1>8 DEF Session!Ask
<1>9. ASSUME NEW b \in Browse, Session!BrowseTurn(b) PROVE SessionUser'
  BY <1>9 DEF Session!BrowseTurn, Session!HasTurn, Session!BrowseEnds, Session!Opened,
     Session!Passed
<1>10. ASSUME NEW b \in Browse, Session!BrowseGoes(b) PROVE SessionUser'
  BY <1>10 DEF Session!BrowseGoes, Session!Refused, Session!Ready, Session!BrowseEnds,
     Session!Passed
<1>11. ASSUME NEW b \in Browse, Session!BrowseAnswered(b) PROVE SessionUser'
  BY <1>11 DEF Session!BrowseAnswered, Session!BrowseEnds, Session!Passed
<1>12. CASE Session!SecondConnects
  BY <1>12 DEF Session!SecondConnects
<1>13. CASE Session!SecondFails
  BY <1>13 DEF Session!SecondFails, Session!Rejected, Session!Passed
<1>14. CASE Session!SecondDrops
  BY <1>14 DEF Session!SecondDrops, Session!Rejected, Session!Passed
<1>15. CASE Session!Close
  BY <1>15 DEF Session!Close
<1>16. CASE Session!CloseEnds
  BY <1>16 DEF Session!CloseEnds, Session!Rejected, Session!Passed
<1> QED
  BY <1>1, <1>2, <1>3, <1>4, <1>5, <1>6, <1>7, <1>8, <1>9, <1>10, <1>11, <1>12, <1>13, <1>14,
     <1>15, <1>16 DEF Session!Next

\* ... the aim of its kills ...
LEMMA SessionAimStep == SessionInv /\ Session!Next => SessionAim'
<1> SUFFICES ASSUME SessionInv, Session!Next PROVE SessionAim'
  OBVIOUS
<1>0. hurried' = hurried \cup Session!BegunHastily
  BY DEF Session!Next
<1> USE <1>0, SessionFacts DEF SessionInv, SessionTyped, SessionSets, SessionAim, Going, Due
<1>1. ASSUME NEW k \in Statements, Session!Execute(k) PROVE SessionAim'
  BY <1>1 DEF Session!Execute, Session!BegunHastily
<1>2. ASSUME NEW k \in Statements, Session!ServerEnds(k) PROVE SessionAim'
  BY <1>2 DEF Session!ServerEnds, Session!BegunHastily
<1>3. ASSUME NEW k \in Statements, Session!IterationEnds(k) PROVE SessionAim'
  BY <1>3 DEF Session!IterationEnds, Session!BegunHastily
<1>4. ASSUME NEW k \in Statements, Session!Cancel(k) PROVE SessionAim'
  <2>1. /\ <<k, "cancel">> \in Kills /\ Going(k) /\ kill[<<k, "cancel">>] = "none"
        /\ stopWanted' = [stopWanted EXCEPT ![k] = @ \cup {"cancel"}]
        /\ kill' = kill \/ kill' = [kill EXCEPT ![<<k, "cancel">>] = "connecting"]
        /\ UNCHANGED <<statement, struckDown>>
    BY <1>4 DEF Session!Cancel, Session!Stopping
  <2>2. hurried \subseteq hurried'
    OBVIOUS
  <2>3. \A j \in Statements : stopWanted[j] # {} => stopWanted'[j] # {}
    BY <2>1
  <2>4. \A q \in Kills : kill'[q] = kill[q] \/ (q[1] = k /\ stopWanted'[k] # {})
    BY <2>1
  <2>5. \A q \in Kills : kill'[q] # "none" => stopWanted'[q[1]] # {}
    BY <2>3, <2>4
  <2>6. \A q \in Kills, j \in Statements :
          kill'[q] \in Due /\ statement'[j] = "running" => j = q[1] \/ j \in hurried'
    BY <2>1, <2>2, <2>4
  <2>7. \A j \in struckDown' : j \in hurried' \/ stopWanted'[j] # {}
    BY <2>1, <2>2, <2>3
  <2> QED
    BY <2>1, <2>5, <2>6, <2>7
<1>5. ASSUME NEW k \in Statements, Session!Timeout(k) PROVE SessionAim'
  <2>1. /\ <<k, "timeout">> \in Kills /\ Going(k) /\ kill[<<k, "timeout">>] = "none"
        /\ stopWanted' = [stopWanted EXCEPT ![k] = @ \cup {"timeout"}]
        /\ kill' = kill \/ kill' = [kill EXCEPT ![<<k, "timeout">>] = "connecting"]
        /\ UNCHANGED <<statement, struckDown>>
    BY <1>5 DEF Session!Timeout, Session!Stopping
  <2>2. hurried \subseteq hurried'
    OBVIOUS
  <2>3. \A j \in Statements : stopWanted[j] # {} => stopWanted'[j] # {}
    BY <2>1
  <2>4. \A q \in Kills : kill'[q] = kill[q] \/ (q[1] = k /\ stopWanted'[k] # {})
    BY <2>1
  <2>5. \A q \in Kills : kill'[q] # "none" => stopWanted'[q[1]] # {}
    BY <2>3, <2>4
  <2>6. \A q \in Kills, j \in Statements :
          kill'[q] \in Due /\ statement'[j] = "running" => j = q[1] \/ j \in hurried'
    BY <2>1, <2>2, <2>4
  <2>7. \A j \in struckDown' : j \in hurried' \/ stopWanted'[j] # {}
    BY <2>1, <2>2, <2>3
  <2> QED
    BY <2>1, <2>5, <2>6, <2>7
<1>6. ASSUME NEW q \in Kills, Session!KillGoes(q) PROVE SessionAim'
  BY <1>6 DEF Session!KillGoes, Session!Refused, Session!Ready, Session!BegunHastily
<1>7. ASSUME NEW q \in Kills, Session!KillActs(q) PROVE SessionAim'
  BY <1>7 DEF Session!KillActs, Session!BegunHastily
<1>8. ASSUME NEW b \in Browse, Session!Ask(b) PROVE SessionAim'
  BY <1>8 DEF Session!Ask, Session!BegunHastily
<1>9. ASSUME NEW b \in Browse, Session!BrowseTurn(b) PROVE SessionAim'
  BY <1>9 DEF Session!BrowseTurn, Session!HasTurn, Session!BrowseEnds, Session!Opened,
     Session!Passed, Session!BegunHastily
<1>10. ASSUME NEW b \in Browse, Session!BrowseGoes(b) PROVE SessionAim'
  BY <1>10 DEF Session!BrowseGoes, Session!Refused, Session!Ready, Session!BrowseEnds,
     Session!Passed, Session!BegunHastily
<1>11. ASSUME NEW b \in Browse, Session!BrowseAnswered(b) PROVE SessionAim'
  BY <1>11 DEF Session!BrowseAnswered, Session!BrowseEnds, Session!Passed, Session!BegunHastily
<1>12. CASE Session!SecondConnects
  BY <1>12 DEF Session!SecondConnects, Session!BegunHastily
<1>13. CASE Session!SecondFails
  BY <1>13 DEF Session!SecondFails, Session!Rejected, Session!Passed, Session!BegunHastily
<1>14. CASE Session!SecondDrops
  <2>1. \A q \in Kills : kill'[q] = kill[q] \/ (kill'[q] = "refused" /\ kill[q] = "sent")
    BY <1>14 DEF Session!SecondDrops, Session!Rejected, SessionUser
  <2>2. UNCHANGED <<statement, struckDown, stopWanted>> /\ hurried \subseteq hurried'
    BY <1>14 DEF Session!SecondDrops
  <2> QED
    BY <2>1, <2>2
<1>15. CASE Session!Close
  BY <1>15 DEF Session!Close, Session!BegunHastily
<1>16. CASE Session!CloseEnds
  <2>1. \A q \in Kills : kill'[q] = kill[q] \/ (kill'[q] = "refused" /\ kill[q] = "sent")
    BY <1>16 DEF Session!CloseEnds, Session!Rejected, SessionUser
  <2>2. UNCHANGED <<statement, struckDown, stopWanted>> /\ hurried \subseteq hurried'
    BY <1>16 DEF Session!CloseEnds
  <2> QED
    BY <2>1, <2>2
<1> QED
  BY <1>1, <1>2, <1>3, <1>4, <1>5, <1>6, <1>7, <1>8, <1>9, <1>10, <1>11, <1>12, <1>13, <1>14,
     <1>15, <1>16 DEF Session!Next

\* When a metadata query ends, the turn passes on ...
LEMMA BrowseEnds ==
    ASSUME SessionInv, NEW b \in Browse, NEW how \in {"done", "failed"},
           browse' = [browse EXCEPT ![b] = how], turn' = Tail(turn),
           browse[b] \in {"connecting", "running"} \/ (browse[b] = "queued" /\ Head(turn) = b)
    PROVE  SessionTurns'
<1>1. b \in BrowseWaiting /\ (b \in BrowseWorking \/ Head(turn) = b)
  BY DEF BrowseWaiting, BrowseWorking
<1>2. turn # <<>> /\ Head(turn) = b
  BY <1>1, TurnFirst DEF SessionInv, SessionTurns
<1>3. BrowseWorking \subseteq {b} /\ InTurn(turn', BrowseWaiting \ {b}, {})
  BY <1>2, TurnPasses DEF SessionInv, SessionTurns
<1>4. BrowseWaiting' = BrowseWaiting \ {b} /\ BrowseWorking' = {}
  BY <1>3 DEF BrowseWaiting, BrowseWorking, SessionInv, SessionTyped
<1> QED
  BY <1>3, <1>4 DEF SessionTurns

\* ... also when it is lost with the connection ...
LEMMA BrowseRejected ==
    ASSUME SessionInv, NEW lost, Session!Rejected(lost),
           \A b \in Browse : b \in lost => browse[b] \in {"connecting", "running"}
    PROVE  SessionTurns'
<1>1. CASE lost \cap Browse = {}
  <2>1. turn' = turn /\ BrowseWaiting' = BrowseWaiting /\ BrowseWorking' = BrowseWorking
    BY <1>1 DEF Session!Rejected, BrowseWaiting, BrowseWorking, SessionInv, SessionTyped
  <2> QED
    BY <2>1 DEF SessionInv, SessionTurns
<1>2. CASE lost \cap Browse # {}
  <2>1. PICK b \in Browse : b \in lost
    BY <1>2
  <2>2. turn # <<>> /\ Head(turn) = b /\ BrowseWorking \subseteq {b}
    BY <2>1, TurnFirst, TurnPasses DEF SessionInv, SessionTurns, BrowseWorking
  <2>3. \A a \in Browse : a \in lost => a = b
    BY <2>2 DEF BrowseWorking
  <2>4. browse' = [browse EXCEPT ![b] = "failed"] /\ turn' = Tail(turn)
    BY <1>2, <2>1, <2>3 DEF Session!Rejected, Session!Passed, SessionInv, SessionTyped
  <2> QED
    BY <2>1, <2>4, BrowseEnds
<1> QED
  BY <1>1, <1>2

\* ... so that they take turns always.
LEMMA SessionTurnsStep == SessionInv /\ Session!Next => SessionTurns'
<1> SUFFICES ASSUME SessionInv, Session!Next PROVE SessionTurns'
  OBVIOUS
<1>i. /\ browse \in [Browse -> {"new", "queued", "connecting", "running", "done", "failed"}]
      /\ SessionTurns
  BY DEF SessionInv, SessionTyped
<1>1. CASE UNCHANGED <<browse, turn>>
  BY <1>1, <1>i DEF SessionTurns, BrowseWaiting, BrowseWorking
<1>2. ASSUME NEW k \in Statements,
             \/ Session!Execute(k) \/ Session!ServerEnds(k) \/ Session!IterationEnds(k)
             \/ Session!Cancel(k) \/ Session!Timeout(k)
      PROVE  SessionTurns'
  BY <1>1, <1>2 DEF Session!Execute, Session!ServerEnds, Session!IterationEnds, Session!Cancel,
                    Session!Timeout, Session!Stopping
<1>3. ASSUME NEW q \in Kills, Session!KillGoes(q) \/ Session!KillActs(q) PROVE SessionTurns'
  BY <1>1, <1>3 DEF Session!KillGoes, Session!KillActs
<1>4. ASSUME NEW b \in Browse, Session!Ask(b) PROVE SessionTurns'
  <2>1. /\ turn' = Append(turn, b) /\ b \notin BrowseWaiting
        /\ BrowseWaiting' = BrowseWaiting \cup {b} /\ BrowseWorking' = BrowseWorking
    BY <1>4, <1>i DEF Session!Ask, BrowseWaiting, BrowseWorking
  <2> QED
    BY <2>1, <1>i, TurnJoined DEF SessionTurns
<1>5. ASSUME NEW b \in Browse, Session!BrowseTurn(b) PROVE SessionTurns'
  <2>0. browse[b] = "queued" /\ Head(turn) = b
    BY <1>5 DEF Session!BrowseTurn, Session!HasTurn
  <2>1. CASE ended
    BY <2>0, <2>1, <1>5, BrowseEnds DEF Session!BrowseTurn, Session!BrowseEnds, Session!Passed
  <2>2. CASE ~ended
    <3>1. turn # <<>> /\ BrowseWorking \subseteq {b}
      BY <2>0, <1>i, TurnFirst DEF SessionTurns, BrowseWaiting
    <3>2. turn' = turn /\ BrowseWaiting' = BrowseWaiting /\ BrowseWorking' = {b}
      BY <2>0, <2>2, <3>1, <1>5, <1>i DEF Session!BrowseTurn, BrowseWaiting, BrowseWorking
    <3> QED
      BY <2>0, <3>1, <3>2, <1>i, TurnComes DEF SessionTurns
  <2> QED
    BY <2>1, <2>2
<1>6. ASSUME NEW b \in Browse, Session!BrowseGoes(b) PROVE SessionTurns'
  <2>1. CASE Session!Refused
    BY <2>1, <1>6, BrowseEnds DEF Session!BrowseGoes, Session!BrowseEnds, Session!Passed
  <2>2. CASE ~Session!Refused
    <3>1. turn' = turn /\ BrowseWaiting' = BrowseWaiting /\ BrowseWorking' = BrowseWorking
      BY <2>2, <1>6, <1>i DEF Session!BrowseGoes, BrowseWaiting, BrowseWorking
    <3> QED
      BY <3>1, <1>i DEF SessionTurns
  <2> QED
    BY <2>1, <2>2
<1>7. ASSUME NEW b \in Browse, Session!BrowseAnswered(b) PROVE SessionTurns'
  BY <1>7, BrowseEnds DEF Session!BrowseAnswered, Session!BrowseEnds, Session!Passed
<1>8. CASE Session!SecondFails
  <2> DEFINE lost == {q \in Kills : kill[q] = "connecting"} \cup {b \in Browse : browse[b] = "connecting"}
  <2>1. \A b \in Browse : b \in lost => browse[b] \in {"connecting", "running"}
    BY SessionFacts
  <2>2. Session!Rejected(lost)
    BY <1>8 DEF Session!SecondFails
  <2> QED
    BY <2>1, <2>2, BrowseRejected
<1>9. CASE Session!SecondDrops \/ Session!CloseEnds
  <2>1. \A b \in Browse : b \in {user} => browse[b] \in {"connecting", "running"}
    BY DEF SessionInv, SessionUser
  <2>2. Session!Rejected({user})
    BY <1>9 DEF Session!SecondDrops, Session!CloseEnds
  <2> QED
    BY <2>1, <2>2, BrowseRejected
<1>10. CASE Session!SecondConnects \/ Session!Close
  BY <1>1, <1>10 DEF Session!SecondConnects, Session!Close
<1> QED
  BY <1>2, <1>3, <1>4, <1>5, <1>6, <1>7, <1>8, <1>9, <1>10 DEF Session!Next

\* A step of something else changes nothing of the session.
LEMMA SessionStays == SessionInv /\ UNCHANGED Session!vars => SessionInv'
<1> SUFFICES ASSUME SessionInv, UNCHANGED Session!vars PROVE SessionInv'
  OBVIOUS
<1>1. UNCHANGED <<statement, struckDown, stopWanted, kill, browse, turn, second, user, ended, hurried>>
  BY DEF Session!vars, Session!session
<1>2. SessionTyped' /\ SessionSets' /\ SessionTurns'
  BY <1>1 DEF SessionInv, SessionTyped, SessionSets, SessionTurns, BrowseWaiting, BrowseWorking
<1>3. SessionUser' /\ SessionAim'
  BY <1>1 DEF SessionInv, SessionUser, SessionAim, Going
<1> QED
  BY <1>2, <1>3 DEF SessionInv

\* A step of something else changes nothing of the second connection.
LEMMA SecondStays == SecondInv /\ UNCHANGED Second!second_vars => SecondInv'
<1> SUFFICES ASSUME SecondInv, UNCHANGED Second!second_vars PROVE SecondInv'
  OBVIOUS
<1>1. UNCHANGED <<jobs, jobTurn, spare, spareDb, serverDb, shut>>
  BY DEF Second!second_vars
<1> QED
  BY <1>1 DEF SecondInv, SecondTyped, SecondTurns, SecondPlace, Waiting, Working

\* What the invariant says of the second connection.
LEMMA SecondShows ==
    SecondInv => Second!SecondTypeOK /\ Second!JobsInTurn /\ Second!RightDatabase
<1> SUFFICES ASSUME SecondInv
             PROVE Second!SecondTypeOK /\ Second!JobsInTurn /\ Second!RightDatabase
  OBVIOUS
<1>1. Lists(jobTurn, Waiting) /\ (Working # {} => jobTurn # <<>> /\ Working = {Head(jobTurn)})
  BY DEF SecondInv, SecondTurns, InTurn
<1>2. Second!IsInjective(jobTurn) /\ Second!Range(jobTurn) = Waiting
  BY <1>1, ListsThem DEF Second!IsInjective, Second!Range
<1>3. Second!SecondTypeOK
  BY <1>2 DEF Second!SecondTypeOK, SecondInv, SecondTyped, SecondPlace, Waiting, Second!Databases
<1>4. Second!JobsInTurn
  BY <1>1, <1>2 DEF Second!JobsInTurn, Second!First, Waiting, Working, Active, Asked
<1>5. Second!RightDatabase
  BY DEF Second!RightDatabase, SecondInv, SecondPlace
<1> QED
  BY <1>3, <1>4, <1>5

\* For any jobs: a second connection does one at a time, in the order they were asked, and each
\* reads the database it is about (onSecond, selectOn and second of both session.ts).
THEOREM SecondInvariance ==
    Second!SecondInit /\ [][Second!SecondNext]_(Second!second_vars) =>
      [](Second!SecondTypeOK /\ Second!JobsInTurn /\ Second!RightDatabase)
<1>1. Second!SecondInit => SecondInv
  BY SecondBegins
<1>2. SecondInv /\ [Second!SecondNext]_(Second!second_vars) => SecondInv'
  BY SecondKeeps, SecondStays
<1>3. SecondInv => Second!SecondTypeOK /\ Second!JobsInTurn /\ Second!RightDatabase
  BY SecondShows
<1> QED
  BY <1>1, <1>2, <1>3, PTL

\* Once the session was closed no second connection is made (close() of both session.ts).
THEOREM SecondClosed ==
    Second!SecondInit /\ [][Second!SecondNext]_(Second!second_vars) => Second!NoneAfterClose
<1>1. [Second!SecondNext]_(Second!second_vars) =>
        [shut /\ spare # "connecting" => spare' # "connecting"]_(Second!second_vars)
  <2> SUFFICES ASSUME Second!SecondNext, shut, spare # "connecting" PROVE spare' # "connecting"
    OBVIOUS
  <2>1. ASSUME NEW j \in Job, Second!Ask(j) \/ Second!Goes(j) PROVE spare' # "connecting"
    BY <2>1 DEF Second!Ask, Second!Goes, Second!TurnComes, Second!ConnectFails, Second!Selected,
                Second!Answered
  <2>2. ASSUME Second!Connects \/ Second!SecondDrops \/ Second!Close \/ Second!CloseEnds
        PROVE  spare' # "connecting"
    BY <2>2 DEF Second!Connects, Second!SecondDrops, Second!Close, Second!CloseEnds, Second!Loses
  <2> QED
    BY <2>1, <2>2 DEF Second!SecondNext
<1> QED
  BY <1>1, PTL DEF Second!NoneAfterClose

(* ----------------------- the same, of a MongoDB session ------------------- *)

\* A step of something else changes nothing of the second connection ...
LEMMA AsideStays == AsideInv /\ UNCHANGED Mongo!second_vars => AsideInv'
<1> SUFFICES ASSUME AsideInv, UNCHANGED Mongo!second_vars PROVE AsideInv'
  OBVIOUS
<1>1. UNCHANGED <<asks, askTurn, mongoSecond, mongoCached, mongoChosen, mongoClosed>>
  BY DEF Mongo!second_vars
<1> QED
  BY <1>1 DEF AsideInv, AsideTyped, AsideTurns, AsidePlace, AsideWaiting, AsideWorking

\* ... of which the invariant says this ...
LEMMA AsideShows == AsideInv => Mongo!SecondTypeOK /\ Mongo!JobsInTurn
<1> SUFFICES ASSUME AsideInv PROVE Mongo!SecondTypeOK /\ Mongo!JobsInTurn
  OBVIOUS
<1>1. /\ Lists(askTurn, AsideWaiting)
      /\ AsideWorking # {} => askTurn # <<>> /\ AsideWorking = {Head(askTurn)}
  BY DEF AsideInv, AsideTurns, InTurn
<1>2. Mongo!IsInjective(askTurn) /\ Mongo!Range(askTurn) = AsideWaiting
  BY <1>1, ListsThem DEF Mongo!IsInjective, Mongo!Range
<1>3. Mongo!SecondTypeOK
  BY <1>2 DEF Mongo!SecondTypeOK, AsideInv, AsideTyped, AsidePlace, AsideWaiting, Mongo!Databases
<1>4. Mongo!JobsInTurn
  BY <1>1, <1>2 DEF Mongo!JobsInTurn, Mongo!First, AsideWaiting, AsideWorking, Active, Asked
<1> QED
  BY <1>3, <1>4

\* ... and the statements do nothing to it but ask.
LEMMA MongoAsks == Mongo!Next => Mongo!SecondNext \/ UNCHANGED Mongo!second_vars
<1> SUFFICES ASSUME Mongo!Next PROVE Mongo!SecondNext \/ UNCHANGED Mongo!second_vars
  OBVIOUS
<1>1. MongoStops \subseteq MongoJobs /\ \A k \in MongoStmt : Mongo!Release(k) \in MongoJobs
  BY DEF MongoJobs, Mongo!Release
<1>2. ASSUME NEW k \in MongoStmt, Mongo!Leaves(k) PROVE Mongo!SecondNext \/ UNCHANGED Mongo!second_vars
  BY <1>1, <1>2 DEF Mongo!Leaves, Mongo!SecondNext
<1>3. ASSUME NEW k \in MongoStmt, Mongo!Cancel(k) \/ Mongo!Timeout(k)
      PROVE  Mongo!SecondNext \/ UNCHANGED Mongo!second_vars
  BY <1>1, <1>3 DEF Mongo!Cancel, Mongo!Timeout, Mongo!Stopping, Mongo!SecondNext
<1>4. ASSUME NEW k \in MongoStmt, Mongo!Execute(k) \/ Mongo!ServerTakes(k)
        \/ Mongo!ServerAnswers(k) \/ Mongo!Receives(k)
      PROVE  UNCHANGED Mongo!second_vars
  BY <1>4 DEF Mongo!Execute, Mongo!ServerTakes, Mongo!ServerAnswers, Mongo!Receives
<1>5. ASSUME NEW k \in MongoStmt, Mongo!Fails(k) \/ Mongo!Continues(k) \/ Mongo!Abandons(k)
      PROVE  Mongo!SecondNext \/ UNCHANGED Mongo!second_vars
  BY <1>2, <1>5 DEF Mongo!Fails, Mongo!Continues, Mongo!Abandons
<1>6. ASSUME NEW k \in MongoStmt, Mongo!CursorGoes(k) PROVE Mongo!SecondNext
  BY <1>1, <1>6 DEF Mongo!CursorGoes, Mongo!SecondNext, Mongo!Goes
<1>7. ASSUME NEW q \in MongoStops, Mongo!Searches(q) \/ Mongo!KillActs(q)
      PROVE  Mongo!SecondNext \/ UNCHANGED Mongo!second_vars
  BY <1>1, <1>7 DEF Mongo!Searches, Mongo!KillActs, Mongo!SecondNext, Mongo!Goes
<1>8. ASSUME Mongo!SecondMoves \/ Mongo!MainDrops \/ Mongo!SessionCloses
      PROVE  Mongo!SecondNext \/ UNCHANGED Mongo!second_vars
  BY <1>8 DEF Mongo!SecondMoves, Mongo!SecondWorks, Mongo!SecondGoes, Mongo!Refused,
              Mongo!MainDrops, Mongo!SessionCloses, Mongo!SecondNext, Mongo!Goes
<1> QED
  BY <1>3, <1>4, <1>5, <1>6, <1>7, <1>8 DEF Mongo!Next, Mongo!Kill

\* A MongoDB session, too, uses its second connection for one thing at a time: a search for an
\* operation, a kill, a cursor to release (onSecond in mongo-engine/src/session.ts).
THEOREM MongoTakesTurns == Mongo!Spec => [](Mongo!SecondTypeOK /\ Mongo!JobsInTurn)
<1>1. Mongo!Init => AsideInv
  BY AsideBegins DEF Mongo!Init
<1>2. AsideInv /\ [Mongo!Next]_(Mongo!vars) => AsideInv'
  <2>1. UNCHANGED Mongo!vars => UNCHANGED Mongo!second_vars
    BY DEF Mongo!vars
  <2> QED
    BY <2>1, MongoAsks, AsideKeeps, AsideStays
<1>3. AsideInv => Mongo!SecondTypeOK /\ Mongo!JobsInTurn
  BY AsideShows
<1> QED
  BY <1>1, <1>2, <1>3, PTL DEF Mongo!Spec

(* --------------------------- the MySQL session --------------------------- *)

\* Every step keeps the invariant of the session.
LEMMA SessionKeeps == SessionInv /\ [Session!Next]_(Session!vars) => SessionInv'
  BY SessionTypedStep, SessionSetsStep, SessionTurnsStep, SessionUserStep, SessionAimStep,
     SessionStays
     DEF SessionInv

\* What the invariant says of the session.
LEMMA SessionShows ==
    SessionInv => Session!TypeOK /\ Session!BrowseInTurn /\ Session!OnlyOwnInterrupted
<1> SUFFICES ASSUME SessionInv
             PROVE Session!TypeOK /\ Session!BrowseInTurn /\ Session!OnlyOwnInterrupted
  OBVIOUS
<1>1. /\ Lists(turn, BrowseWaiting)
      /\ BrowseWorking # {} => turn # <<>> /\ BrowseWorking = {Head(turn)}
  BY DEF SessionInv, SessionTurns, InTurn
<1>2. /\ Session!IsInjective(turn) /\ Session!Range(turn) = BrowseWaiting
      /\ {turn[i] : i \in DOMAIN turn} = BrowseWaiting
  BY <1>1, ListsThem DEF Session!IsInjective, Session!Range
<1>3. Session!TypeOK
  BY <1>2 DEF Session!TypeOK, SessionInv, SessionTyped, SessionSets, BrowseWaiting, Session!Reason
<1>4. Session!BrowseInTurn
  BY <1>1, <1>2 DEF Session!BrowseInTurn, BrowseWaiting, BrowseWorking
<1>5. Session!OnlyOwnInterrupted
  BY DEF Session!OnlyOwnInterrupted, SessionInv, SessionAim
<1> QED
  BY <1>3, <1>4, <1>5

\* For any statements, metadata queries and kills: metadata queries take turns, and a kill stops
\* its own statement, or one begun by a caller that did not wait (mysql-engine/src/session.ts).
THEOREM SessionInvariance ==
    Session!Spec => [](Session!TypeOK /\ Session!BrowseInTurn /\ Session!OnlyOwnInterrupted)
<1>1. Session!Init => SessionInv
  BY SessionBegins
<1>2. SessionInv /\ [Session!Next]_(Session!vars) => SessionInv'
  BY SessionKeeps
<1>3. SessionInv => Session!TypeOK /\ Session!BrowseInTurn /\ Session!OnlyOwnInterrupted
  BY SessionShows
<1> QED
  BY <1>1, <1>2, <1>3, PTL DEF Session!Spec

\* A closed MySQL session makes no second connection (close() of mysql-engine/src/session.ts).
THEOREM SessionClosed == Session!Spec => Session!NoSecondAfterClose
<1>1. [Session!Next]_(Session!vars) =>
        [ended /\ second # "connecting" => second' # "connecting"]_(Session!vars)
  <2> SUFFICES ASSUME Session!Next, ended, second # "connecting" PROVE second' # "connecting"
    OBVIOUS
  <2>1. ASSUME NEW k \in Statements,
               \/ Session!Execute(k) \/ Session!ServerEnds(k) \/ Session!IterationEnds(k)
               \/ Session!Cancel(k) \/ Session!Timeout(k)
        PROVE  second' # "connecting"
    BY <2>1 DEF Session!Execute, Session!ServerEnds, Session!IterationEnds, Session!Cancel,
                Session!Timeout, Session!Stopping
  <2>2. ASSUME NEW q \in Kills, Session!KillGoes(q) \/ Session!KillActs(q)
        PROVE  second' # "connecting"
    BY <2>2 DEF Session!KillGoes, Session!KillActs
  <2>3. ASSUME NEW b \in Browse,
               \/ Session!Ask(b) \/ Session!BrowseTurn(b)
               \/ Session!BrowseGoes(b) \/ Session!BrowseAnswered(b)
        PROVE  second' # "connecting"
    BY <2>3 DEF Session!Ask, Session!BrowseTurn, Session!BrowseGoes, Session!BrowseAnswered
  <2>4. ASSUME \/ Session!SecondConnects \/ Session!SecondFails \/ Session!SecondDrops
               \/ Session!Close \/ Session!CloseEnds
        PROVE  second' # "connecting"
    BY <2>4 DEF Session!SecondConnects, Session!SecondFails, Session!SecondDrops, Session!Close,
                Session!CloseEnds
  <2> QED
    BY <2>1, <2>2, <2>3, <2>4 DEF Session!Next
<1> QED
  BY <1>1, PTL DEF Session!Spec, Session!NoSecondAfterClose

(* ------------------------------- the buffer ------------------------------- *)

\* What came, what is buffered and what is asked for are within their bounds.
PumpNumbers ==
    /\ coming \in Nat /\ chunks \in Nat /\ coming + chunks <= Total
    /\ need \in Nat /\ most \in Nat /\ need <= most /\ most <= MaxNeed

\* The states of the buffer have their types.
PumpFlags ==
    /\ filling \in {"none", "waiting", "filled", "failed"}
    /\ pumpPaused \in BOOLEAN
    /\ gone \in BOOLEAN

\* Who waits is not kept waiting by a paused socket, a paused socket has half a buffer at least,
\* and one that is not paused has room.
PumpWaits ==
    /\ need > 0 <=> filling = "waiting"
    /\ need > 0 => ~pumpPaused /\ ~gone /\ chunks < need
    /\ pumpPaused => 2 * chunks >= PumpHigh
    /\ ~pumpPaused /\ ~gone /\ need = 0 => chunks < PumpHigh

\* The buffer holds less than the high-water mark, or than what was asked for, and one chunk more.
PumpRoom == chunks < PumpHigh + PumpChunk \/ chunks < most + PumpChunk

\* The inductive invariant of the buffer.
PumpInv == PumpNumbers /\ PumpFlags /\ PumpWaits /\ PumpRoom

\* What the constants of the buffer give.
LEMMA PumpFacts ==
    PumpHigh \in Nat /\ PumpHigh > 0 /\ PumpChunk \in Nat /\ PumpChunk > 0
      /\ MaxNeed \in Nat /\ Total \in Nat
  BY PumpAssumption DEF Pump!PumpAssumption

\* For any mark, chunk and need: nobody waits for bytes from a socket that is paused, and the
\* buffer is bounded (socketPump.ts).
THEOREM PumpInvariance ==
    Pump!Init /\ [][Pump!Next]_(Pump!vars) =>
      [](Pump!TypeOK /\ Pump!NobodyWaitsAsleep /\ Pump!BufferBounded)
<1> USE PumpFacts
<1>1. Pump!Init => PumpInv
  <2>1. Pump!Init => PumpNumbers /\ PumpWaits /\ PumpRoom
    BY DEF Pump!Init, PumpNumbers, PumpWaits, PumpRoom
  <2>2. Pump!Init => PumpFlags
    BY Zenon DEF Pump!Init, PumpFlags
  <2> QED
    BY <2>1, <2>2 DEF PumpInv
<1>2. PumpInv /\ [Pump!Next]_(Pump!vars) => PumpInv'
  <2> SUFFICES ASSUME PumpInv, [Pump!Next]_(Pump!vars) PROVE PumpInv'
    OBVIOUS
  <2> USE DEF PumpInv, PumpNumbers
  <2>1. ASSUME NEW n \in 1 .. PumpChunk, Pump!Data(n) PROVE PumpInv'
    <3>0. /\ n \in Nat /\ n > 0 /\ n <= PumpChunk /\ n <= coming /\ ~pumpPaused /\ ~gone
          /\ coming' = coming - n /\ chunks' = chunks + n /\ gone' = gone /\ most' = most
      BY <2>1 DEF Pump!Data
    <3>1. CASE need > 0 /\ chunks + n >= need
      <4>1. need' = 0 /\ filling' = "filled" /\ (pumpPaused' <=> chunks' >= PumpHigh)
        BY <2>1, <3>1 DEF Pump!Data
      <4>2. PumpNumbers' /\ PumpWaits' /\ PumpRoom'
        BY <3>0, <3>1, <4>1 DEF PumpWaits, PumpRoom
      <4>3. PumpFlags'
        BY <2>1, <3>0, <3>1, <4>1, Zenon DEF PumpFlags, Pump!Data
      <4> QED
        BY <4>2, <4>3
    <3>2. CASE ~(need > 0 /\ chunks + n >= need)
      <4>1. /\ need' = need /\ filling' = filling
            /\ pumpPaused' <=> need = 0 /\ chunks' >= PumpHigh
        BY <2>1, <3>2 DEF Pump!Data
      <4>2. PumpNumbers' /\ PumpWaits' /\ PumpRoom'
        BY <3>0, <3>2, <4>1 DEF PumpWaits, PumpRoom
      <4>3. PumpFlags'
        BY <2>1, <3>0, <3>2, <4>1, Zenon DEF PumpFlags, Pump!Data
      <4> QED
        BY <4>2, <4>3
    <3> QED
      BY <3>1, <3>2
  <2>2. ASSUME NEW n \in 1 .. MaxNeed, Pump!Fill(n) PROVE PumpInv'
    <3>1. n \in Nat /\ n > 0 /\ n <= MaxNeed
      OBVIOUS
    <3>2. PumpNumbers' /\ PumpWaits' /\ PumpRoom'
      BY <2>2, <3>1 DEF Pump!Fill, Pump!Waits, PumpWaits, PumpRoom
    <3>3. PumpFlags'
      BY <2>2 DEF Pump!Fill, Pump!Waits, PumpFlags
    <3> QED
      BY <3>2, <3>3
  <2>3. ASSUME NEW n \in 1 .. MaxNeed, Pump!Consume(n) PROVE PumpInv'
    <3>0. n \in Nat /\ n > 0 /\ n <= MaxNeed
      OBVIOUS
    <3>1. pumpPaused' <=> pumpPaused /\ 2 * chunks' >= PumpHigh
      BY <2>3, Zenon DEF Pump!Consume
    <3>2. PumpNumbers' /\ PumpWaits' /\ PumpRoom'
      BY <2>3, <3>0, <3>1 DEF Pump!Consume, PumpWaits, PumpRoom
    <3>3. PumpFlags'
      BY <2>3, Zenon DEF Pump!Consume, PumpFlags
    <3> QED
      BY <3>2, <3>3
  <2>4. CASE Pump!Fail
    BY <2>4 DEF Pump!Fail, PumpFlags, PumpWaits, PumpRoom
  <2>5. CASE UNCHANGED Pump!vars
    BY <2>5 DEF Pump!vars, PumpFlags, PumpWaits, PumpRoom
  <2> QED
    BY <2>1, <2>2, <2>3, <2>4, <2>5 DEF Pump!Next
<1>3. PumpInv => Pump!TypeOK /\ Pump!NobodyWaitsAsleep /\ Pump!BufferBounded
  <2> SUFFICES ASSUME PumpInv PROVE Pump!TypeOK /\ Pump!NobodyWaitsAsleep /\ Pump!BufferBounded
    OBVIOUS
  <2> USE DEF PumpInv, PumpNumbers, PumpFlags, PumpWaits, PumpRoom
  <2>1. /\ coming \in 0 .. Total /\ chunks \in 0 .. Total
        /\ need \in 0 .. MaxNeed /\ most \in 0 .. MaxNeed
    OBVIOUS
  <2>2. Pump!TypeOK
    BY <2>1 DEF Pump!TypeOK
  <2>3. Pump!NobodyWaitsAsleep
    BY DEF Pump!NobodyWaitsAsleep
  <2>4. Pump!BufferBounded
    BY DEF Pump!BufferBounded
  <2> QED
    BY <2>2, <2>3, <2>4
<1> QED
  BY <1>1, <1>2, <1>3, PTL

(* --------------------------------- Redis ---------------------------------- *)

\* The states of commands and connection have their types.
RedisTyped ==
    /\ command \in [Commands -> {"new", "reading", "over"}]
    /\ verdict \in [Commands -> {"none", "whole", "stopped", "failed", "left"}]
    /\ whyStopped \in [Commands -> {"none", "cancelled", "timeout"}]
    /\ busyWith \in Commands \cup {none, keepAlive}
    /\ redisUp \in BOOLEAN
    /\ skewed \in BOOLEAN

\* What is left to read is within a reply, and replies go to commands or the ping.
RedisPieces ==
    /\ toRead \in [Commands -> 0 .. Pieces]
    /\ tookFrom \in [Commands \cup {keepAlive} -> SUBSET (Commands \cup {keepAlive})]
    /\ replies \in Seq(Commands \cup {keepAlive})

\* The connection is kept by the command that reads, or by one whose reader walked away, and
\* a command that was stopped cost it.
RedisBusy ==
    /\ \A k \in Commands : command[k] = "reading" => busyWith = k
    /\ \A k \in Commands : busyWith = k /\ redisUp => command[k] = "reading" \/ verdict[k] = "left"
    /\ \A k \in Commands : redisUp /\ verdict[k] = "left" => busyWith = k
    /\ \A k \in Commands : whyStopped[k] # "none" => ~redisUp
    /\ \A k \in Commands : verdict[k] # "none" => command[k] = "over"
    /\ \A k \in Commands : verdict[k] = "whole" => whyStopped[k] = "none" /\ toRead[k] = 0

\* n replies, all of them for k.
Owned(s, k, n) == s \in Seq({k}) /\ Len(s) = n

\* Unless it was left askew, what is on its way is for the one that reads, all that it has left
\* to read, and a free connection has nothing on its way.
RedisOwn ==
    ~skewed =>
      /\ \A k \in Commands \cup {keepAlive} : tookFrom[k] \subseteq {k}
      /\ \A k \in Commands : command[k] = "reading" => Owned(replies, k, toRead[k])
      /\ busyWith = keepAlive => Owned(replies, keepAlive, 1)
      /\ busyWith = none /\ redisUp => replies = <<>>

\* The inductive invariant of a Redis session.
RedisInv == RedisTyped /\ RedisPieces /\ RedisBusy /\ RedisOwn

\* What the constants of the Redis session give.
LEMMA RedisFacts ==
    /\ Pieces \in Nat /\ Pieces > 0
    /\ keepAlive # none /\ keepAlive \notin Commands /\ none \notin Commands
  BY RedisAssumption DEF Redis!RedisAssumption

\* Of n replies for k, the first is for k, and leaves one less ...
LEMMA OwnedTaken ==
    ASSUME NEW s, NEW k, NEW n \in Nat, Owned(s, k, n), s # <<>>
    PROVE  Head(s) = k /\ n > 0 /\ Owned(Tail(s), k, n - 1)
<1>1. s \in Seq({k}) /\ Len(s) = n /\ Len(s) # 0
  BY DEF Owned
<1>2. Head(s) = s[1] /\ s[1] \in {k} /\ Tail(s) \in Seq({k}) /\ Len(Tail(s)) = n - 1
  BY <1>1
<1> QED
  BY <1>1, <1>2 DEF Owned

\* ... none is nothing ...
LEMMA OwnedNone == ASSUME NEW s, NEW k PROVE Owned(s, k, 0) => s = <<>>
  BY DEF Owned

\* ... and what the server sends is for who asked.
LEMMA OwnedSent ==
    ASSUME NEW k, NEW n \in Nat
    PROVE  Owned(<<>> \o [i \in 1 .. n |-> k], k, n) /\ Owned(Append(<<>>, k), k, 1)
<1>1. [i \in 1 .. n |-> k] \in Seq({k}) /\ Len([i \in 1 .. n |-> k]) = n
  OBVIOUS
<1>2. <<>> \o [i \in 1 .. n |-> k] = [i \in 1 .. n |-> k]
  BY <1>1
<1>3. Append(<<>>, k) \in Seq({k}) /\ Len(Append(<<>>, k)) = 1
  OBVIOUS
<1> QED
  BY <1>1, <1>2, <1>3 DEF Owned

\* What reading a piece changes ...
LEMMA RedisReads ==
    ASSUME NEW k, Redis!ReadsPiece(k)
    PROVE  /\ command[k] = "reading" /\ replies # <<>> /\ replies' = Tail(replies)
           /\ tookFrom' = [tookFrom EXCEPT ![k] = @ \cup {Head(replies)}]
           /\ toRead' = [toRead EXCEPT ![k] = @ - 1]
           /\ UNCHANGED <<command, busyWith, redisUp, skewed>>
  BY DEF Redis!ReadsPiece

\* ... and what the end of a ping changes.
LEMMA RedisPingEnds ==
    ASSUME Redis!PingEnds
    PROVE  /\ busyWith = keepAlive /\ busyWith' = none
           /\ UNCHANGED <<command, toRead, redisUp, skewed>>
           /\ \/ /\ replies # <<>> /\ replies' = Tail(replies)
                 /\ tookFrom' = [tookFrom EXCEPT ![keepAlive] = @ \cup {Head(replies)}]
              \/ ~redisUp /\ UNCHANGED <<tookFrom, replies>>
  BY DEF Redis!PingEnds

\* What was taken, after a reply for k.
LEMMA RedisTook ==
    ASSUME NEW S, NEW f \in [S -> SUBSET S], NEW k \in S, NEW x \in S,
           NEW g, g = [f EXCEPT ![k] = @ \cup {x}]
    PROVE  /\ g \in [S -> SUBSET S]
           /\ (x = k /\ \A j \in S : f[j] \subseteq {j}) => \A j \in S : g[j] \subseteq {j}
<1>1. g = [j \in S |-> IF j = k THEN f[k] \cup {x} ELSE f[j]]
  OBVIOUS
<1>2. \A j \in S : g[j] \subseteq S
  BY <1>1
<1>3. ASSUME x = k, \A j \in S : f[j] \subseteq {j} PROVE \A j \in S : g[j] \subseteq {j}
  BY <1>1, <1>3
<1> QED
  BY <1>1, <1>2, <1>3

\* A session begins with nothing on its way.
LEMMA RedisBegins == Redis!Init => RedisInv
<1> USE RedisFacts
<1>1. Redis!Init => RedisTyped
  BY DEF Redis!Init, RedisTyped
<1>2. Redis!Init => RedisPieces
  BY DEF Redis!Init, RedisPieces
<1>3. Redis!Init => RedisBusy
  BY DEF Redis!Init, RedisBusy
<1>4. Redis!Init => RedisOwn
  BY DEF Redis!Init, RedisOwn
<1> QED
  BY <1>1, <1>2, <1>3, <1>4 DEF RedisInv

\* A step of the Redis session keeps the types ...
LEMMA RedisTypedStep == RedisInv /\ Redis!Next => RedisTyped'
<1> SUFFICES ASSUME RedisInv, Redis!Next PROVE RedisTyped'
  OBVIOUS
<1> USE RedisFacts DEF RedisInv, RedisTyped
<1>1. ASSUME NEW k \in Commands, Redis!Execute(k) PROVE RedisTyped'
  BY <1>1 DEF Redis!Execute, Redis!Over
<1>2. ASSUME NEW k \in Commands, Redis!ReadsPiece(k) PROVE RedisTyped'
  BY <1>2 DEF Redis!ReadsPiece
<1>3. ASSUME NEW k \in Commands, Redis!ErrorReply(k) PROVE RedisTyped'
  BY <1>3 DEF Redis!ErrorReply, Redis!Failing, Redis!Over
<1>4. ASSUME NEW k \in Commands, Redis!GivesUp(k) PROVE RedisTyped'
  BY <1>4 DEF Redis!GivesUp, Redis!Failing, Redis!Over
<1>5. ASSUME NEW k \in Commands, Redis!ReadFails(k) PROVE RedisTyped'
  BY <1>5 DEF Redis!ReadFails, Redis!Failing, Redis!Over
<1>6. ASSUME NEW k \in Commands, Redis!IterationEnds(k) PROVE RedisTyped'
  BY <1>6 DEF Redis!IterationEnds, Redis!Over
<1>7. ASSUME NEW k \in Commands, Redis!Cancel(k) PROVE RedisTyped'
  BY <1>7 DEF Redis!Cancel, Redis!Stopping
<1>8. ASSUME NEW k \in Commands, Redis!Timeout(k) PROVE RedisTyped'
  BY <1>8 DEF Redis!Timeout, Redis!Stopping
<1>9. CASE Redis!Drops
  BY <1>9 DEF Redis!Drops
<1>10. CASE Redis!Ping
  BY <1>10 DEF Redis!Ping
<1>11. CASE Redis!PingEnds
  BY <1>11 DEF Redis!PingEnds
<1>12. ASSUME NEW k \in Commands, Redis!WalksAway(k) PROVE RedisTyped'
  BY <1>12 DEF Redis!WalksAway, Redis!Over
<1> QED
  BY <1>1, <1>2, <1>3, <1>4, <1>5, <1>6, <1>7, <1>8, <1>9, <1>10, <1>11, <1>12 DEF Redis!Next

\* ... what is left to read ...
LEMMA RedisPiecesStep == RedisInv /\ Redis!Next => RedisPieces'
<1> SUFFICES ASSUME RedisInv, Redis!Next PROVE RedisPieces'
  OBVIOUS
<1> USE RedisFacts DEF RedisInv, RedisPieces, RedisTyped
<1>1. ASSUME NEW k \in Commands, Redis!Execute(k) PROVE RedisPieces'
  <2>1. CASE command' = [command EXCEPT ![k] = "over"] /\ UNCHANGED <<toRead, tookFrom, replies>>
    BY <2>1
  <2>2. ASSUME NEW n \in 1 .. Pieces, toRead' = [toRead EXCEPT ![k] = n],
               replies' = replies \o [i \in 1 .. n |-> k], tookFrom' = tookFrom
        PROVE  RedisPieces'
    <3>1. [i \in 1 .. n |-> k] \in Seq(Commands \cup {keepAlive}) /\ n \in 0 .. Pieces
      OBVIOUS
    <3>2. replies' \in Seq(Commands \cup {keepAlive})
      BY <2>2, <3>1
    <3> QED
      BY <2>2, <3>1, <3>2
  <2> QED
    BY <1>1, <2>1, <2>2 DEF Redis!Execute, Redis!Over
<1>2. ASSUME NEW k \in Commands, Redis!ReadsPiece(k) PROVE RedisPieces'
  BY <1>2 DEF Redis!ReadsPiece
<1>3. ASSUME NEW k \in Commands, Redis!ErrorReply(k) PROVE RedisPieces'
  BY <1>3 DEF Redis!ErrorReply, Redis!Failing, Redis!Over
<1>4. ASSUME NEW k \in Commands, Redis!GivesUp(k) PROVE RedisPieces'
  BY <1>4 DEF Redis!GivesUp, Redis!Failing, Redis!Over
<1>5. ASSUME NEW k \in Commands, Redis!ReadFails(k) PROVE RedisPieces'
  BY <1>5 DEF Redis!ReadFails, Redis!Failing, Redis!Over
<1>6. ASSUME NEW k \in Commands, Redis!IterationEnds(k) PROVE RedisPieces'
  BY <1>6 DEF Redis!IterationEnds, Redis!Over
<1>7. ASSUME NEW k \in Commands, Redis!Cancel(k) PROVE RedisPieces'
  BY <1>7 DEF Redis!Cancel, Redis!Stopping
<1>8. ASSUME NEW k \in Commands, Redis!Timeout(k) PROVE RedisPieces'
  BY <1>8 DEF Redis!Timeout, Redis!Stopping
<1>9. CASE Redis!Drops
  BY <1>9 DEF Redis!Drops
<1>10. CASE Redis!Ping
  BY <1>10 DEF Redis!Ping
<1>11. CASE Redis!PingEnds
  <2>1. CASE replies # <<>> /\ replies' = Tail(replies)
             /\ tookFrom' = [tookFrom EXCEPT ![keepAlive] = @ \cup {Head(replies)}]
    <3>1. /\ Head(replies) \in Commands \cup {keepAlive}
          /\ Tail(replies) \in Seq(Commands \cup {keepAlive})
      BY <2>1
    <3>2. tookFrom' \in [Commands \cup {keepAlive} -> SUBSET (Commands \cup {keepAlive})]
      BY <2>1, <3>1, RedisTook
    <3> QED
      BY <2>1, <3>1, <3>2, <1>11, RedisPingEnds
  <2>2. CASE UNCHANGED <<tookFrom, replies>>
    BY <2>2, <1>11, RedisPingEnds
  <2> QED
    BY <1>11, <2>1, <2>2, RedisPingEnds
<1>12. ASSUME NEW k \in Commands, Redis!WalksAway(k) PROVE RedisPieces'
  BY <1>12 DEF Redis!WalksAway, Redis!Over
<1> QED
  BY <1>1, <1>2, <1>3, <1>4, <1>5, <1>6, <1>7, <1>8, <1>9, <1>10, <1>11, <1>12 DEF Redis!Next

\* ... who has the connection ...
LEMMA RedisBusyStep == RedisInv /\ Redis!Next => RedisBusy'
<1> SUFFICES ASSUME RedisInv, Redis!Next PROVE RedisBusy'
  OBVIOUS
<1> USE RedisFacts DEF RedisInv, RedisTyped, RedisPieces, RedisBusy
<1>1. ASSUME NEW k \in Commands, Redis!Execute(k) PROVE RedisBusy'
  <2>1. CASE command' = [command EXCEPT ![k] = "over"] /\ verdict' = [verdict EXCEPT ![k] = "failed"]
             /\ UNCHANGED <<toRead, busyWith, whyStopped, redisUp>> /\ (redisUp => busyWith # none)
    <3>1. command[k] # "reading" /\ command[k] # "over" /\ verdict[k] = "none"
      BY <1>1 DEF Redis!Execute
    <3>2. redisUp => busyWith # k
      BY <3>1
    <3>3. \A j \in Commands : j # k => command'[j] = command[j] /\ verdict'[j] = verdict[j]
      BY <2>1
    <3>4. command'[k] = "over" /\ verdict'[k] = "failed"
      BY <2>1
    <3> QED
      BY <2>1, <3>2, <3>3, <3>4
  <2>2. ASSUME NEW n \in 1 .. Pieces, toRead' = [toRead EXCEPT ![k] = n], redisUp, busyWith = none,
               command' = [command EXCEPT ![k] = "reading"], busyWith' = k,
               UNCHANGED <<verdict, whyStopped, redisUp>>
        PROVE  RedisBusy'
    <3>1. verdict[k] = "none" /\ \A j \in Commands : command[j] # "reading"
      BY <2>2, <1>1 DEF Redis!Execute
    <3> QED
      BY <2>2, <3>1
  <2>3. \/ /\ command' = [command EXCEPT ![k] = "over"] /\ verdict' = [verdict EXCEPT ![k] = "failed"]
           /\ UNCHANGED <<toRead, busyWith, whyStopped, redisUp>> /\ (redisUp => busyWith # none)
        \/ /\ \E n \in 1 .. Pieces : toRead' = [toRead EXCEPT ![k] = n]
           /\ redisUp /\ busyWith = none /\ command' = [command EXCEPT ![k] = "reading"] /\ busyWith' = k
           /\ UNCHANGED <<verdict, whyStopped, redisUp>>
    BY <1>1 DEF Redis!Execute, Redis!Over
  <2> QED
    BY <2>1, <2>2, <2>3
<1>2. ASSUME NEW k \in Commands, Redis!ReadsPiece(k) PROVE RedisBusy'
  BY <1>2 DEF Redis!ReadsPiece
<1>3. ASSUME NEW k \in Commands, Redis!ErrorReply(k) PROVE RedisBusy'
  BY <1>3 DEF Redis!ErrorReply, Redis!Failing, Redis!Over
<1>4. ASSUME NEW k \in Commands, Redis!GivesUp(k) PROVE RedisBusy'
  BY <1>4 DEF Redis!GivesUp, Redis!Failing, Redis!Over
<1>5. ASSUME NEW k \in Commands, Redis!ReadFails(k) PROVE RedisBusy'
  BY <1>5 DEF Redis!ReadFails, Redis!Failing, Redis!Over
<1>6. ASSUME NEW k \in Commands, Redis!IterationEnds(k) PROVE RedisBusy'
  BY <1>6 DEF Redis!IterationEnds, Redis!Over
<1>7. ASSUME NEW k \in Commands, Redis!Cancel(k) PROVE RedisBusy'
  BY <1>7 DEF Redis!Cancel, Redis!Stopping
<1>8. ASSUME NEW k \in Commands, Redis!Timeout(k) PROVE RedisBusy'
  BY <1>8 DEF Redis!Timeout, Redis!Stopping
<1>9. CASE Redis!Drops
  BY <1>9 DEF Redis!Drops
<1>10. CASE Redis!Ping
  BY <1>10 DEF Redis!Ping
<1>11. CASE Redis!PingEnds
  BY <1>11 DEF Redis!PingEnds
<1>12. ASSUME NEW k \in Commands, Redis!WalksAway(k) PROVE RedisBusy'
  BY <1>12 DEF Redis!WalksAway, Redis!Over
<1> QED
  BY <1>1, <1>2, <1>3, <1>4, <1>5, <1>6, <1>7, <1>8, <1>9, <1>10, <1>11, <1>12 DEF Redis!Next

\* ... and whose the replies are.
LEMMA RedisOwnStep == RedisInv /\ Redis!Next => RedisOwn'
<1> SUFFICES ASSUME RedisInv, Redis!Next PROVE RedisOwn'
  OBVIOUS
<1>1. ASSUME NEW k \in Commands, Redis!Execute(k) PROVE RedisOwn'
  <2>0. skewed' = skewed /\ redisUp' = redisUp /\ tookFrom' = tookFrom
    BY <1>1 DEF Redis!Execute
  <2>1. CASE command' = [command EXCEPT ![k] = "over"] /\ UNCHANGED <<toRead, busyWith, replies>>
    BY <2>0, <2>1 DEF RedisInv, RedisTyped, RedisPieces, RedisBusy, RedisOwn
  <2>2. ASSUME NEW n \in 1 .. Pieces, toRead' = [toRead EXCEPT ![k] = n], redisUp, busyWith = none,
               command' = [command EXCEPT ![k] = "reading"], busyWith' = k,
               replies' = replies \o [i \in 1 .. n |-> k]
        PROVE  RedisOwn'
    <3>1. /\ \A j \in Commands : j # k => command'[j] # "reading"
          /\ toRead'[k] = n /\ n \in Nat /\ k # keepAlive /\ k # none
      BY <2>2, RedisFacts DEF RedisInv, RedisTyped, RedisPieces, RedisBusy, RedisOwn
    <3>2. skewed \/ replies = <<>>
      BY <2>2 DEF RedisInv, RedisOwn
    <3>3. skewed \/ Owned(replies', k, n)
      BY <2>2, <3>1, <3>2, OwnedSent
    <3> QED
      BY <2>0, <2>2, <3>1, <3>3 DEF RedisInv, RedisOwn
  <2>3. \/ command' = [command EXCEPT ![k] = "over"] /\ UNCHANGED <<toRead, busyWith, replies>>
        \/ \E n \in 1 .. Pieces :
              /\ toRead' = [toRead EXCEPT ![k] = n] /\ redisUp /\ busyWith = none
              /\ command' = [command EXCEPT ![k] = "reading"] /\ busyWith' = k
              /\ replies' = replies \o [i \in 1 .. n |-> k]
    BY <1>1 DEF Redis!Execute, Redis!Over
  <2> QED
    BY <2>1, <2>2, <2>3
<1>2. ASSUME NEW k \in Commands, Redis!ReadsPiece(k) PROVE RedisOwn'
  <2>1. /\ command[k] = "reading" /\ replies # <<>> /\ replies' = Tail(replies)
        /\ tookFrom' = [tookFrom EXCEPT ![k] = @ \cup {Head(replies)}]
        /\ toRead' = [toRead EXCEPT ![k] = @ - 1]
        /\ UNCHANGED <<command, busyWith, redisUp, skewed>>
    BY <1>2, RedisReads
  <2>2. /\ toRead[k] \in Nat /\ busyWith = k /\ k # keepAlive /\ k # none
        /\ \A j \in Commands : command[j] = "reading" => j = k
        /\ toRead'[k] = toRead[k] - 1
    BY <2>1, RedisFacts DEF RedisInv, RedisTyped, RedisPieces, RedisBusy, RedisOwn
  <2>3. CASE skewed
    BY <2>1, <2>3 DEF RedisOwn
  <2>4. CASE ~skewed
    <3>0. Owned(replies, k, toRead[k]) /\ \A j \in Commands \cup {keepAlive} : tookFrom[j] \subseteq {j}
      BY <2>1, <2>4 DEF RedisInv, RedisOwn
    <3>1. Head(replies) = k /\ Owned(replies', k, toRead[k] - 1)
      BY <2>1, <2>2, <3>0, OwnedTaken
    <3>2. \A j \in Commands \cup {keepAlive} : tookFrom'[j] \subseteq {j}
      BY <2>1, <3>0, <3>1, RedisTook DEF RedisInv, RedisPieces
    <3> QED
      BY <2>1, <2>2, <3>1, <3>2 DEF RedisOwn
  <2> QED
    BY <2>3, <2>4
<1>3. ASSUME NEW k \in Commands, Redis!ErrorReply(k) PROVE RedisOwn'
  <2>1. /\ command[k] = "reading" /\ replies # <<>> /\ replies' = Tail(replies) /\ toRead[k] = 1
        /\ command' = [command EXCEPT ![k] = "over"]
        /\ busyWith' = IF whyStopped[k] = "none" THEN none ELSE busyWith
        /\ UNCHANGED <<toRead, tookFrom, redisUp, skewed>>
    BY <1>3 DEF Redis!ErrorReply, Redis!Failing, Redis!Over
  <2>2. /\ busyWith = k /\ k # keepAlive /\ none # keepAlive
        /\ \A j \in Commands : command'[j] # "reading"
    BY <2>1, RedisFacts DEF RedisInv, RedisTyped, RedisPieces, RedisBusy, RedisOwn
  <2>3. CASE skewed
    BY <2>1, <2>3 DEF RedisOwn
  <2>4. CASE ~skewed
    <3>1. Owned(replies, k, 1) /\ 1 \in Nat /\ 1 - 1 = 0
      BY <2>1, <2>4 DEF RedisInv, RedisOwn
    <3>2. replies' = <<>>
      BY <2>1, <3>1, OwnedTaken, OwnedNone
    <3> QED
      BY <2>1, <2>2, <3>2 DEF RedisInv, RedisOwn
  <2> QED
    BY <2>3, <2>4
<1>4. ASSUME NEW k \in Commands, Redis!GivesUp(k) PROVE RedisOwn'
  BY <1>4, RedisFacts DEF RedisInv, RedisTyped, RedisPieces, RedisBusy, RedisOwn, Redis!GivesUp,
     Redis!Failing, Redis!Over
<1>5. ASSUME NEW k \in Commands, Redis!ReadFails(k) PROVE RedisOwn'
  BY <1>5, RedisFacts DEF RedisInv, RedisTyped, RedisPieces, RedisBusy, RedisOwn, Redis!ReadFails,
     Redis!Failing, Redis!Over
<1>6. ASSUME NEW k \in Commands, Redis!IterationEnds(k) PROVE RedisOwn'
  <2>1. /\ command[k] = "reading" /\ toRead[k] = 0 /\ busyWith' = none
        /\ command' = [command EXCEPT ![k] = "over"]
        /\ UNCHANGED <<toRead, tookFrom, replies, redisUp, skewed>>
    BY <1>6 DEF Redis!IterationEnds, Redis!Over
  <2>2. none # keepAlive /\ \A j \in Commands : command'[j] # "reading"
    BY <2>1, RedisFacts DEF RedisInv, RedisTyped, RedisPieces, RedisBusy, RedisOwn
  <2>3. skewed \/ replies = <<>>
    BY <2>1, OwnedNone DEF RedisInv, RedisOwn
  <2> QED
    BY <2>1, <2>2, <2>3 DEF RedisInv, RedisOwn
<1>7. ASSUME NEW k \in Commands, Redis!Cancel(k) PROVE RedisOwn'
  BY <1>7, RedisFacts DEF RedisInv, RedisTyped, RedisPieces, RedisBusy, RedisOwn, Redis!Cancel,
     Redis!Stopping
<1>8. ASSUME NEW k \in Commands, Redis!Timeout(k) PROVE RedisOwn'
  BY <1>8, RedisFacts DEF RedisInv, RedisTyped, RedisPieces, RedisBusy, RedisOwn, Redis!Timeout,
     Redis!Stopping
<1>9. CASE Redis!Drops
  BY <1>9, RedisFacts DEF RedisInv, RedisTyped, RedisPieces, RedisBusy, RedisOwn, Redis!Drops
<1>10. CASE Redis!Ping
  <2>1. /\ redisUp /\ busyWith = none /\ busyWith' = keepAlive /\ replies' = Append(replies, keepAlive)
        /\ UNCHANGED <<command, toRead, tookFrom, redisUp, skewed>>
    BY <1>10 DEF Redis!Ping
  <2>2. none # keepAlive /\ \A j \in Commands : command'[j] # "reading"
    BY <2>1, RedisFacts DEF RedisInv, RedisTyped, RedisPieces, RedisBusy, RedisOwn
  <2>3. skewed \/ replies = <<>>
    BY <2>1 DEF RedisInv, RedisOwn
  <2>4. skewed \/ Owned(replies', keepAlive, 1)
    BY <2>1, <2>3, OwnedSent
  <2> QED
    BY <2>1, <2>2, <2>4 DEF RedisInv, RedisOwn
<1>11. CASE Redis!PingEnds
  <2>1. /\ busyWith = keepAlive /\ busyWith' = none /\ UNCHANGED <<command, toRead, redisUp, skewed>>
        /\ \/ /\ replies # <<>> /\ replies' = Tail(replies)
              /\ tookFrom' = [tookFrom EXCEPT ![keepAlive] = @ \cup {Head(replies)}]
           \/ ~redisUp /\ UNCHANGED <<tookFrom, replies>>
    BY <1>11, RedisPingEnds
  <2>2. none # keepAlive /\ \A j \in Commands : command'[j] # "reading"
    BY <2>1, RedisFacts DEF RedisInv, RedisTyped, RedisPieces, RedisBusy, RedisOwn
  <2>3. CASE ~redisUp /\ UNCHANGED <<tookFrom, replies>>
    BY <2>1, <2>2, <2>3 DEF RedisInv, RedisOwn
  <2>4. CASE ~skewed /\ replies # <<>> /\ replies' = Tail(replies)
             /\ tookFrom' = [tookFrom EXCEPT ![keepAlive] = @ \cup {Head(replies)}]
    <3>1. Owned(replies, keepAlive, 1) /\ 1 \in Nat /\ 1 - 1 = 0
      BY <2>1, <2>4 DEF RedisInv, RedisOwn
    <3>2. Head(replies) = keepAlive /\ replies' = <<>>
      <4>1. replies # <<>> /\ replies' = Tail(replies)
        BY <2>4
      <4>2. Head(replies) = keepAlive /\ Owned(Tail(replies), keepAlive, 0)
        BY <4>1, <3>1, OwnedTaken
      <4> QED
        BY <4>1, <4>2, OwnedNone
    <3>3. \A j \in Commands \cup {keepAlive} : tookFrom'[j] \subseteq {j}
      BY <2>4, <3>2, RedisTook DEF RedisInv, RedisPieces, RedisOwn
    <3> QED
      BY <2>1, <2>2, <3>2, <3>3 DEF RedisOwn
  <2>5. CASE skewed
    BY <2>1, <2>5 DEF RedisOwn
  <2> QED
    BY <2>1, <2>3, <2>4, <2>5
<1>12. ASSUME NEW k \in Commands, Redis!WalksAway(k) PROVE RedisOwn'
  BY <1>12, RedisFacts DEF RedisInv, RedisTyped, RedisPieces, RedisBusy, RedisOwn, Redis!WalksAway,
     Redis!Over
<1> QED
  BY <1>1, <1>2, <1>3, <1>4, <1>5, <1>6, <1>7, <1>8, <1>9, <1>10, <1>11, <1>12 DEF Redis!Next

\* A step of something else changes nothing of it.
LEMMA RedisStays == RedisInv /\ UNCHANGED Redis!vars => RedisInv'
<1> SUFFICES ASSUME RedisInv, UNCHANGED Redis!vars PROVE RedisInv'
  OBVIOUS
<1>1. UNCHANGED <<command, toRead, verdict, tookFrom, whyStopped, replies, busyWith, redisUp, skewed>>
  BY DEF Redis!vars
<1> QED
  BY <1>1 DEF RedisInv, RedisTyped, RedisPieces, RedisBusy, RedisOwn

\* What the invariant says of the Redis session.
LEMMA RedisShows == RedisInv => Redis!TypeOK /\ Redis!RepliesAreOwn /\ Redis!FreeForTheNext
<1> SUFFICES ASSUME RedisInv PROVE Redis!TypeOK /\ Redis!RepliesAreOwn /\ Redis!FreeForTheNext
  OBVIOUS
<1>1. Redis!TypeOK
  BY DEF Redis!TypeOK, RedisInv, RedisTyped, RedisPieces
<1>2. Redis!RepliesAreOwn
  BY DEF Redis!RepliesAreOwn, RedisInv, RedisBusy, RedisOwn
<1>3. Redis!FreeForTheNext
  BY DEF Redis!FreeForTheNext, RedisInv, RedisTyped, RedisBusy, RedisOwn
<1> QED
  BY <1>1, <1>2, <1>3

\* For any commands and replies of any number of pieces: a reply is read by who asked, unless one was
\* given up half-read before; a living connection is free for the next command and has nothing left
\* to read, or is busy with a statement whose reader walked away from its rows, which nobody else
\* gets then (redis-engine/src/session.ts, db-protocol-redis/src/connection.ts).
THEOREM RedisInvariance ==
    Redis!Init /\ [][Redis!Next]_(Redis!vars) =>
      [](Redis!TypeOK /\ Redis!RepliesAreOwn /\ Redis!FreeForTheNext)
<1>1. Redis!Init => RedisInv
  BY RedisBegins
<1>2. RedisInv /\ [Redis!Next]_(Redis!vars) => RedisInv'
  BY RedisTypedStep, RedisPiecesStep, RedisBusyStep, RedisOwnStep, RedisStays DEF RedisInv
<1>3. RedisInv => Redis!TypeOK /\ Redis!RepliesAreOwn /\ Redis!FreeForTheNext
  BY RedisShows
<1> QED
  BY <1>1, <1>2, <1>3, PTL

(* -------------------- the search for a MongoDB server --------------------- *)

\* The members of the replica set.
Known == Host \ Strangers

\* The state of the search has its types ...
TopoTyped ==
    /\ anyMember \in BOOLEAN
    /\ lastError \in BOOLEAN
    /\ dialling \in Host \cup {none}
    /\ hello \in Host \cup {none, "stranger", "nobody"}
    /\ searchResult \in Host \cup {"searching", "failed", "refused"}
    /\ tried \subseteq Host /\ opened \subseteq Host

\* ... and so has the replica set.
TopoWorld ==
    /\ leader \in Known \cup {none}
    /\ sees \in [Host -> Known \cup {none}]
    /\ reachable \subseteq Host
    /\ moves \in Nat /\ moves <= MaxMoves

\* The queue is of hosts, and each host is dialled once.
TopoLists == seedQueue \in Seq(Host) /\ Lists(dials, tried)

\* What was found and what is dialled agree with what is open.
TopoPlace ==
    /\ dialling = none => hello = none
    /\ searchResult # "searching" => dialling = none
    /\ dialling # none => dialling \in tried
    /\ hello # none => dialling \in reachable
    /\ opened = IF searchResult \in Host THEN {searchResult}
                ELSE IF hello = none THEN {} ELSE {dialling}

\* A search fails with its queue empty.
TopoEnd == searchResult = "failed" => seedQueue = <<>>

\* x is one of s.
In(s, x) == \E i \in DOMAIN s : s[i] = x

\* Those who could have named the primary.
Namers == (tried \cap Known \cap reachable) \ {dialling}

\* While the replica set keeps its primary, everyone sees it and the answer in hand names it.
TopoKept ==
    moves = 0 /\ ~anyMember =>
      /\ \A h \in Host : sees[h] = leader
      /\ hello # none => hello = IF dialling \in Strangers THEN "stranger"
                                 ELSE IF leader = none THEN "nobody" ELSE leader

\* A primary that can be reached was not passed over, and who could have named it did.
TopoFinds ==
    moves = 0 /\ ~anyMember /\ searchResult \in {"searching", "failed"} =>
      /\ leader \in reachable /\ leader \in tried => dialling = leader
      /\ leader \in reachable /\ Namers # {} => In(seedQueue, leader) \/ dialling = leader

\* Until something went wrong, the primary is still to be dialled or being dialled.
TopoSays ==
    moves = 0 /\ ~anyMember /\ searchResult \in {"searching", "failed"} /\ ~lastError =>
      /\ \/ tried \subseteq {dialling} /\ (tried = {} => seedQueue # <<>>)
         \/ In(seedQueue, leader)
         \/ dialling = leader /\ leader # none
      /\ leader \in tried => dialling = leader

\* The inductive invariant of the search.
TopoInv == TopoTyped /\ TopoWorld /\ TopoLists /\ TopoPlace /\ TopoEnd /\ TopoKept /\ TopoFinds /\ TopoSays

\* What the constants of the search give.
LEMMA TopoFacts ==
    /\ none \notin Host /\ MaxMoves \in Nat /\ Strangers \subseteq Host /\ Seeds \subseteq Seq(Host)
    /\ <<>> \notin Seeds
    /\ "stranger" \notin Host /\ "nobody" \notin Host /\ "searching" \notin Host
    /\ "failed" \notin Host /\ "refused" \notin Host /\ none # "stranger" /\ none # "nobody"
  BY TopologyAssumption DEF Topology!TopologyAssumption

\* Who is in a queue is first in it or in the rest ...
LEMMA InHead ==
    ASSUME NEW S, NEW s \in Seq(S), s # <<>>
    PROVE  /\ Head(s) \in S /\ Tail(s) \in Seq(S)
           /\ \A x : In(s, x) => x = Head(s) \/ In(Tail(s), x)
           /\ \A x : In(Tail(s), x) => In(s, x)
<1>1. Len(s) \in Nat /\ Len(s) >= 1 /\ DOMAIN s = 1 .. Len(s) /\ Head(s) = s[1]
  OBVIOUS
<1>2. Tail(s) \in Seq(S) /\ DOMAIN Tail(s) = 1 .. (Len(s) - 1)
      /\ \A i \in 1 .. (Len(s) - 1) : Tail(s)[i] = s[i + 1]
  BY <1>1
<1>3. \A x : In(s, x) => x = Head(s) \/ In(Tail(s), x)
  <2> SUFFICES ASSUME NEW x, NEW i \in DOMAIN s, s[i] = x, i # 1 PROVE In(Tail(s), x)
    BY <1>1 DEF In
  <2>1. i - 1 \in 1 .. (Len(s) - 1) /\ (i - 1) + 1 = i
    BY <1>1
  <2> QED
    BY <2>1, <1>2 DEF In
<1>4. \A x : In(Tail(s), x) => In(s, x)
  BY <1>1, <1>2 DEF In
<1> QED
  BY <1>1, <1>2, <1>3, <1>4

\* ... who is put in front is in it ...
LEMMA InFront ==
    ASSUME NEW S, NEW s \in Seq(S), NEW y \in S
    PROVE  /\ <<y>> \o s \in Seq(S) /\ <<y>> \o s # <<>>
           /\ In(<<y>> \o s, y) /\ \A x : In(s, x) => In(<<y>> \o s, x)
<1> DEFINE u == <<y>> \o s
<1>1. /\ u \in Seq(S) /\ Len(s) \in Nat /\ Len(u) = 1 + Len(s) /\ u[1] = y
      /\ \A i \in 1 .. Len(s) : u[i + 1] = s[i]
  OBVIOUS
<1> HIDE DEF u
<1>2. DOMAIN u = 1 .. (1 + Len(s)) /\ DOMAIN s = 1 .. Len(s)
  BY <1>1
<1>3. In(u, y) /\ u # <<>>
  BY <1>1, <1>2 DEF In
<1>4. \A x : In(s, x) => In(u, x)
  <2> SUFFICES ASSUME NEW i \in 1 .. Len(s) PROVE i + 1 \in DOMAIN u /\ u[i + 1] = s[i]
    BY <1>2 DEF In
  <2> QED
    BY <1>1, <1>2
<1> QED
  BY <1>1, <1>3, <1>4 DEF u

\* ... and nobody is in an empty one.
LEMMA InNone == \A x : ~In(<<>>, x)
  BY DEF In

\* A search begins with seeds.
LEMMA TopoBegins == Topology!Init => TopoInv
<1> SUFFICES ASSUME Topology!Init PROVE TopoInv
  OBVIOUS
<1> USE TopoFacts
<1>0. /\ anyMember \in BOOLEAN /\ seedQueue \in Seeds /\ tried = {} /\ dials = <<>> /\ dialling = none
      /\ hello = none /\ opened = {} /\ searchResult = "searching" /\ lastError = FALSE
  BY DEF Topology!Init
<1>5. /\ leader \in Known \cup {none} /\ sees = [h \in Host |-> leader]
      /\ reachable \subseteq Host /\ moves = 0
  BY DEF Topology!Init, Topology!Members, Known
<1>1. TopoTyped
  BY <1>0 DEF TopoTyped
<1>2. TopoWorld
  BY <1>5 DEF TopoWorld
<1>3. TopoLists
  BY <1>0, ListsNobody DEF TopoLists
<1>4. TopoPlace /\ TopoKept /\ TopoEnd
  BY <1>0, <1>5 DEF TopoPlace, TopoKept, TopoEnd
<1>6. TopoFinds /\ TopoSays
  BY <1>0, <1>5 DEF TopoFinds, TopoSays, Namers
<1> QED
  BY <1>1, <1>2, <1>3, <1>4, <1>6 DEF TopoInv

\* What leaving a server changes.
LEMMA TopoLeaves ==
    ASSUME TopoInv, Topology!Leaves
    PROVE  /\ seedQueue' \in Seq(Host) /\ \A x : In(seedQueue, x) => In(seedQueue', x)
           /\ dialling # none /\ dialling' = none /\ searchResult = "searching"
           /\ UNCHANGED <<anyMember, tried, searchResult, leader, reachable, moves>>
           /\ lastError => lastError'
           /\ moves = 0 /\ ~anyMember =>
                /\ dialling # leader
                /\ dialling \in Strangers \/ leader = none => lastError'
                /\ dialling \notin Strangers /\ leader # none /\ leader \notin tried => In(seedQueue', leader)
<1>1. /\ hello # none /\ ~(hello # "stranger" /\ (anyMember \/ hello = dialling))
      /\ seedQueue' = IF hello \in Host \ tried THEN <<hello>> \o seedQueue ELSE seedQueue
      /\ lastError' <=> (lastError \/ hello \in {"stranger", "nobody"})
      /\ dialling' = none
      /\ UNCHANGED <<anyMember, tried, searchResult, leader, reachable, moves>>
  BY DEF Topology!Leaves, Topology!Suits, Topology!Ahead, Topology!world
<1>2. seedQueue \in Seq(Host) /\ dialling # none /\ searchResult = "searching" /\ dialling \in Host
  BY <1>1 DEF TopoInv, TopoPlace, TopoLists, TopoTyped
<1>3. seedQueue' \in Seq(Host) /\ \A x : In(seedQueue, x) => In(seedQueue', x)
  BY <1>1, <1>2, InFront
<1>4. ASSUME moves = 0, ~anyMember
      PROVE  /\ dialling # leader
             /\ dialling \in Strangers \/ leader = none => lastError'
             /\ dialling \notin Strangers /\ leader # none /\ leader \notin tried => In(seedQueue', leader)
  <2>1. hello = IF dialling \in Strangers THEN "stranger" ELSE IF leader = none THEN "nobody" ELSE leader
    BY <1>1, <1>4 DEF TopoInv, TopoKept
  <2>2. leader \in Known \/ leader = none
    BY DEF TopoInv, TopoWorld, Known
  <2>3. dialling # leader
    BY <1>1, <1>2, <2>1, <2>2, TopoFacts DEF Known
  <2>4. dialling \in Strangers \/ leader = none => lastError'
    BY <1>1, <2>1
  <2>5. dialling \notin Strangers /\ leader # none /\ leader \notin tried => In(seedQueue', leader)
    BY <1>1, <1>2, <2>1, <2>2, InFront DEF Known
  <2> QED
    BY <2>3, <2>4, <2>5
<1> QED
  BY <1>1, <1>2, <1>3, <1>4

\* The next of the queue.
LEMMA TopoNext ==
    ASSUME TopoInv, seedQueue # <<>>
    PROVE  /\ Head(seedQueue) \in Host /\ Tail(seedQueue) \in Seq(Host)
           /\ \A x : In(seedQueue, x) => x = Head(seedQueue) \/ In(Tail(seedQueue), x)
  BY InHead DEF TopoInv, TopoLists

\* A step of the search keeps its types ...
LEMMA TopoTypedStep == TopoInv /\ Topology!Next => TopoTyped'
<1> SUFFICES ASSUME TopoInv, Topology!Next PROVE TopoTyped'
  OBVIOUS
<1>1. CASE Topology!Skips
  BY <1>1, TopoFacts DEF TopoInv, TopoTyped, Topology!Skips, Topology!world, Topology!search
<1>2. CASE Topology!Dials
  BY <1>2, TopoFacts, TopoNext DEF TopoInv, TopoTyped, Topology!Dials, Topology!world,
     Topology!search
<1>3. CASE Topology!DialFails
  BY <1>3, TopoFacts DEF TopoInv, TopoTyped, Topology!DialFails, Topology!world, Topology!search
<1>4. CASE Topology!Refused
  BY <1>4, TopoFacts DEF TopoInv, TopoTyped, Topology!Refused, Topology!world, Topology!search
<1>5. CASE Topology!Connects
  BY <1>5, TopoFacts DEF TopoInv, TopoTyped, TopoWorld, Known, Topology!Connects, Topology!Says,
     Topology!world, Topology!search
<1>6. CASE Topology!Leaves
  BY <1>6, TopoFacts DEF TopoInv, TopoTyped, Topology!Leaves, Topology!Suits, Topology!Ahead,
     Topology!world, Topology!search
<1>7. CASE Topology!Finds
  BY <1>7, TopoFacts DEF TopoInv, TopoTyped, TopoPlace, Topology!Finds, Topology!Suits,
     Topology!world, Topology!search
<1>8. CASE Topology!Fails
  BY <1>8, TopoFacts DEF TopoInv, TopoTyped, Topology!Fails, Topology!world, Topology!search
<1>9. CASE Topology!Elects
  BY <1>9, TopoFacts DEF TopoInv, TopoTyped, Topology!Elects, Topology!Members, Topology!search
<1>10. ASSUME NEW h \in Topology!Members, Topology!Learns(h) PROVE TopoTyped'
  BY <1>10, TopoFacts DEF TopoInv, TopoTyped, Topology!Learns, Topology!search
<1> QED
  BY <1>1, <1>2, <1>3, <1>4, <1>5, <1>6, <1>7, <1>8, <1>9, <1>10 DEF Topology!Next,
     Topology!Searches

\* ... those of the replica set ...
LEMMA TopoWorldStep == TopoInv /\ Topology!Next => TopoWorld'
<1> SUFFICES ASSUME TopoInv, Topology!Next PROVE TopoWorld'
  OBVIOUS
<1>1. CASE Topology!Skips
  BY <1>1, TopoFacts DEF TopoInv, TopoWorld, Known, Topology!Skips, Topology!world, Topology!search
<1>2. CASE Topology!Dials
  BY <1>2, TopoFacts DEF TopoInv, TopoWorld, Known, Topology!Dials, Topology!world, Topology!search
<1>3. CASE Topology!DialFails
  BY <1>3, TopoFacts DEF TopoInv, TopoWorld, Known, Topology!DialFails, Topology!world,
     Topology!search
<1>4. CASE Topology!Refused
  BY <1>4, TopoFacts DEF TopoInv, TopoWorld, Known, Topology!Refused, Topology!world,
     Topology!search
<1>5. CASE Topology!Connects
  BY <1>5, TopoFacts DEF TopoInv, TopoWorld, Known, Topology!Connects, Topology!Says,
     Topology!world, Topology!search
<1>6. CASE Topology!Leaves
  BY <1>6, TopoFacts DEF TopoInv, TopoWorld, Known, Topology!Leaves, Topology!Suits,
     Topology!Ahead, Topology!world, Topology!search
<1>7. CASE Topology!Finds
  BY <1>7, TopoFacts DEF TopoInv, TopoWorld, Known, Topology!Finds, Topology!Suits,
     Topology!world, Topology!search
<1>8. CASE Topology!Fails
  BY <1>8, TopoFacts DEF TopoInv, TopoWorld, Known, Topology!Fails, Topology!world, Topology!search
<1>9. CASE Topology!Elects
  BY <1>9, TopoFacts DEF TopoInv, TopoWorld, Known, Topology!Elects, Topology!Members,
     Topology!search
<1>10. ASSUME NEW h \in Topology!Members, Topology!Learns(h) PROVE TopoWorld'
  BY <1>10, TopoFacts DEF TopoInv, TopoWorld, Known, Topology!Learns, Topology!search
<1> QED
  BY <1>1, <1>2, <1>3, <1>4, <1>5, <1>6, <1>7, <1>8, <1>9, <1>10 DEF Topology!Next,
     Topology!Searches

\* ... the hosts in the queue and those dialled ...
LEMMA TopoListsStep == TopoInv /\ Topology!Next => TopoLists'
<1> SUFFICES ASSUME TopoInv, Topology!Next PROVE TopoLists'
  OBVIOUS
<1>1. CASE Topology!Skips
  BY <1>1, TopoNext DEF TopoInv, TopoTyped, TopoLists, Topology!Skips, Topology!world,
     Topology!search
<1>2. CASE Topology!Dials
  BY <1>2, TopoNext, ListsOneMore DEF TopoInv, TopoTyped, TopoLists, Topology!Dials,
     Topology!world, Topology!search
<1>3. CASE Topology!DialFails
  BY <1>3, TopoFacts DEF TopoInv, TopoTyped, TopoLists, Topology!DialFails, Topology!world,
     Topology!search
<1>4. CASE Topology!Refused
  BY <1>4, TopoFacts DEF TopoInv, TopoTyped, TopoLists, Topology!Refused, Topology!world,
     Topology!search
<1>5. CASE Topology!Connects
  BY <1>5, TopoFacts DEF TopoInv, TopoTyped, TopoLists, Topology!Connects, Topology!Says,
     Topology!world, Topology!search
<1>6. CASE Topology!Leaves
  <2>1. seedQueue' \in Seq(Host)
    BY <1>6, TopoLeaves
  <2> QED
    BY <1>6, <2>1 DEF TopoInv, TopoLists, Topology!Leaves
<1>7. CASE Topology!Finds
  BY <1>7, TopoFacts DEF TopoInv, TopoTyped, TopoLists, Topology!Finds, Topology!Suits,
     Topology!world, Topology!search
<1>8. CASE Topology!Fails
  BY <1>8, TopoFacts DEF TopoInv, TopoTyped, TopoLists, Topology!Fails, Topology!world,
     Topology!search
<1>9. CASE Topology!Elects
  BY <1>9, TopoFacts DEF TopoInv, TopoTyped, TopoLists, Topology!Elects, Topology!Members,
     Topology!search
<1>10. ASSUME NEW h \in Topology!Members, Topology!Learns(h) PROVE TopoLists'
  BY <1>10, TopoFacts DEF TopoInv, TopoTyped, TopoLists, Topology!Learns, Topology!search
<1> QED
  BY <1>1, <1>2, <1>3, <1>4, <1>5, <1>6, <1>7, <1>8, <1>9, <1>10 DEF Topology!Next,
     Topology!Searches

\* ... what is open ...
LEMMA TopoPlaceStep == TopoInv /\ Topology!Next => TopoPlace'
<1> SUFFICES ASSUME TopoInv, Topology!Next PROVE TopoPlace'
  OBVIOUS
<1>1. CASE Topology!Skips
  BY <1>1, TopoFacts DEF TopoInv, TopoTyped, TopoWorld, TopoPlace, Topology!Skips, Topology!world,
     Topology!search
<1>2. CASE Topology!Dials
  BY <1>2, TopoFacts DEF TopoInv, TopoTyped, TopoWorld, TopoPlace, Topology!Dials, Topology!world,
     Topology!search
<1>3. CASE Topology!DialFails
  BY <1>3, TopoFacts DEF TopoInv, TopoTyped, TopoWorld, TopoPlace, Topology!DialFails,
     Topology!world, Topology!search
<1>4. CASE Topology!Refused
  BY <1>4, TopoFacts DEF TopoInv, TopoTyped, TopoWorld, TopoPlace, Topology!Refused,
     Topology!world, Topology!search
<1>5. CASE Topology!Connects
  BY <1>5, TopoFacts DEF TopoInv, TopoTyped, TopoWorld, TopoPlace, Topology!Connects,
     Topology!Says, Topology!world, Topology!search
<1>6. CASE Topology!Leaves
  BY <1>6, TopoFacts DEF TopoInv, TopoTyped, TopoWorld, TopoPlace, Topology!Leaves,
     Topology!Suits, Topology!Ahead, Topology!world, Topology!search
<1>7. CASE Topology!Finds
  BY <1>7, TopoFacts DEF TopoInv, TopoTyped, TopoWorld, TopoPlace, Topology!Finds, Topology!Suits,
     Topology!world, Topology!search
<1>8. CASE Topology!Fails
  BY <1>8, TopoFacts DEF TopoInv, TopoTyped, TopoWorld, TopoPlace, Topology!Fails, Topology!world,
     Topology!search
<1>9. CASE Topology!Elects
  BY <1>9, TopoFacts DEF TopoInv, TopoTyped, TopoWorld, TopoPlace, Topology!Elects,
     Topology!Members, Topology!search
<1>10. ASSUME NEW h \in Topology!Members, Topology!Learns(h) PROVE TopoPlace'
  BY <1>10, TopoFacts DEF TopoInv, TopoTyped, TopoWorld, TopoPlace, Topology!Learns, Topology!search
<1> QED
  BY <1>1, <1>2, <1>3, <1>4, <1>5, <1>6, <1>7, <1>8, <1>9, <1>10 DEF Topology!Next,
     Topology!Searches

\* ... how it fails ...
LEMMA TopoEndStep == TopoInv /\ Topology!Next => TopoEnd'
<1> SUFFICES ASSUME TopoInv, Topology!Next PROVE TopoEnd'
  OBVIOUS
<1>1. CASE Topology!Skips
  BY <1>1, TopoFacts DEF TopoInv, TopoTyped, TopoPlace, TopoEnd, Topology!Skips, Topology!world,
     Topology!search
<1>2. CASE Topology!Dials
  BY <1>2, TopoFacts DEF TopoInv, TopoTyped, TopoPlace, TopoEnd, Topology!Dials, Topology!world,
     Topology!search
<1>3. CASE Topology!DialFails
  BY <1>3, TopoFacts DEF TopoInv, TopoTyped, TopoPlace, TopoEnd, Topology!DialFails,
     Topology!world, Topology!search
<1>4. CASE Topology!Refused
  BY <1>4, TopoFacts DEF TopoInv, TopoTyped, TopoPlace, TopoEnd, Topology!Refused, Topology!world,
     Topology!search
<1>5. CASE Topology!Connects
  BY <1>5, TopoFacts DEF TopoInv, TopoTyped, TopoPlace, TopoEnd, Topology!Connects, Topology!Says,
     Topology!world, Topology!search
<1>6. CASE Topology!Leaves
  BY <1>6, TopoFacts DEF TopoInv, TopoTyped, TopoPlace, TopoEnd, Topology!Leaves, Topology!Suits,
     Topology!Ahead, Topology!world, Topology!search
<1>7. CASE Topology!Finds
  BY <1>7, TopoFacts DEF TopoInv, TopoTyped, TopoPlace, TopoEnd, Topology!Finds, Topology!Suits,
     Topology!world, Topology!search
<1>8. CASE Topology!Fails
  BY <1>8, TopoFacts DEF TopoInv, TopoTyped, TopoPlace, TopoEnd, Topology!Fails, Topology!world,
     Topology!search
<1>9. CASE Topology!Elects
  BY <1>9, TopoFacts DEF TopoInv, TopoTyped, TopoPlace, TopoEnd, Topology!Elects,
     Topology!Members, Topology!search
<1>10. ASSUME NEW h \in Topology!Members, Topology!Learns(h) PROVE TopoEnd'
  BY <1>10, TopoFacts DEF TopoInv, TopoTyped, TopoPlace, TopoEnd, Topology!Learns, Topology!search
<1> QED
  BY <1>1, <1>2, <1>3, <1>4, <1>5, <1>6, <1>7, <1>8, <1>9, <1>10 DEF Topology!Next,
     Topology!Searches

\* ... what a kept primary means ...
LEMMA TopoKeptStep == TopoInv /\ Topology!Next => TopoKept'
<1> SUFFICES ASSUME TopoInv, Topology!Next PROVE TopoKept'
  OBVIOUS
<1>1. CASE Topology!Skips
  BY <1>1, TopoFacts DEF TopoInv, TopoTyped, TopoWorld, TopoPlace, TopoKept, Topology!Skips,
     Topology!world, Topology!search
<1>2. CASE Topology!Dials
  BY <1>2, TopoFacts DEF TopoInv, TopoTyped, TopoWorld, TopoPlace, TopoKept, Topology!Dials,
     Topology!world, Topology!search
<1>3. CASE Topology!DialFails
  BY <1>3, TopoFacts DEF TopoInv, TopoTyped, TopoWorld, TopoPlace, TopoKept, Topology!DialFails,
     Topology!world, Topology!search
<1>4. CASE Topology!Refused
  BY <1>4, TopoFacts DEF TopoInv, TopoTyped, TopoWorld, TopoPlace, TopoKept, Topology!Refused,
     Topology!world, Topology!search
<1>5. CASE Topology!Connects
  BY <1>5, TopoFacts DEF TopoInv, TopoTyped, TopoWorld, TopoPlace, TopoKept, Topology!Connects,
     Topology!Says, Topology!world, Topology!search
<1>6. CASE Topology!Leaves
  BY <1>6, TopoFacts DEF TopoInv, TopoTyped, TopoWorld, TopoPlace, TopoKept, Topology!Leaves,
     Topology!Suits, Topology!Ahead, Topology!world, Topology!search
<1>7. CASE Topology!Finds
  BY <1>7, TopoFacts DEF TopoInv, TopoTyped, TopoWorld, TopoPlace, TopoKept, Topology!Finds,
     Topology!Suits, Topology!world, Topology!search
<1>8. CASE Topology!Fails
  BY <1>8, TopoFacts DEF TopoInv, TopoTyped, TopoWorld, TopoPlace, TopoKept, Topology!Fails,
     Topology!world, Topology!search
<1>9. CASE Topology!Elects
  BY <1>9, TopoFacts DEF TopoInv, TopoTyped, TopoWorld, TopoPlace, TopoKept, Topology!Elects,
     Topology!Members, Topology!search
<1>10. ASSUME NEW h \in Topology!Members, Topology!Learns(h) PROVE TopoKept'
  BY <1>10, TopoFacts DEF TopoInv, TopoTyped, TopoWorld, TopoPlace, TopoKept, Topology!Learns,
     Topology!search
<1> QED
  BY <1>1, <1>2, <1>3, <1>4, <1>5, <1>6, <1>7, <1>8, <1>9, <1>10 DEF Topology!Next,
     Topology!Searches

\* ... that it is found ...
LEMMA TopoFindsStep == TopoInv /\ Topology!Next => TopoFinds'
<1> SUFFICES ASSUME TopoInv, Topology!Next PROVE TopoFinds'
  OBVIOUS
<1>1. CASE Topology!Skips
  <2>1. /\ seedQueue # <<>> /\ Head(seedQueue) \in tried /\ seedQueue' = Tail(seedQueue)
        /\ searchResult = "searching" /\ dialling = none
        /\ UNCHANGED <<anyMember, tried, dialling, searchResult, leader, reachable, moves>>
    BY <1>1 DEF Topology!Skips, Topology!world, Topology!search
  <2>2. leader \in reachable => leader # none
    BY TopoFacts DEF TopoInv, TopoWorld
  <2> QED
    BY <2>1, <2>2, TopoNext DEF TopoInv, TopoFinds, Namers
<1>2. CASE Topology!Dials
  <2>1. /\ seedQueue # <<>> /\ Head(seedQueue) \notin tried /\ seedQueue' = Tail(seedQueue)
        /\ searchResult = "searching" /\ dialling = none /\ dialling' = Head(seedQueue)
        /\ tried' = tried \cup {Head(seedQueue)}
        /\ UNCHANGED <<anyMember, searchResult, leader, reachable, moves>>
    BY <1>2 DEF Topology!Dials, Topology!world, Topology!search
  <2>2. (leader \in reachable => leader # none) /\ none \notin tried /\ Namers' \subseteq Namers
    BY <2>1, TopoFacts DEF TopoInv, TopoWorld, TopoTyped, Namers
  <2> QED
    BY <2>1, <2>2, TopoNext DEF TopoInv, TopoFinds
<1>3. CASE Topology!DialFails
  <2>1. /\ dialling # none /\ dialling' = none /\ dialling \notin reachable
        /\ UNCHANGED <<anyMember, seedQueue, tried, searchResult, leader, reachable, moves>>
    BY <1>3 DEF Topology!DialFails, Topology!world, Topology!search
  <2>2. Namers' = Namers
    BY <2>1, TopoFacts DEF TopoInv, TopoTyped, Namers
  <2> QED
    BY <2>1, <2>2 DEF TopoInv, TopoFinds
<1>4. CASE Topology!Refused
  BY <1>4, TopoFacts DEF TopoInv, TopoTyped, TopoWorld, TopoPlace, TopoFinds, Topology!Refused,
     Topology!world, Topology!search
<1>5. CASE Topology!Connects
  <2>1. UNCHANGED <<dialling, anyMember, seedQueue, tried, searchResult, leader, reachable, moves>>
    BY <1>5 DEF Topology!Connects, Topology!Says, Topology!world, Topology!search
  <2> QED
    BY <2>1 DEF TopoInv, TopoFinds, Namers
<1>6. CASE Topology!Leaves
  <2>1. SUFFICES ASSUME moves = 0, ~anyMember
        PROVE  /\ leader \in reachable /\ leader \in tried => dialling' = leader
               /\ leader \in reachable /\ Namers' # {} => In(seedQueue', leader) \/ dialling' = leader
    BY <1>6, TopoLeaves DEF TopoFinds
  <2>2. /\ leader \in reachable /\ leader \in tried => dialling = leader
        /\ leader \in reachable /\ Namers # {} => In(seedQueue, leader) \/ dialling = leader
    BY <2>1, <1>6, TopoLeaves DEF TopoInv, TopoFinds
  <2>3. leader \in reachable => leader \notin tried /\ leader # none
    BY <2>1, <2>2, <1>6, TopoLeaves, TopoFacts DEF TopoInv, TopoWorld
  <2>4. ASSUME leader \in reachable, Namers' # {} PROVE In(seedQueue', leader)
    <3>1. Namers' \subseteq Namers \cup ({dialling} \cap Known)
      BY <1>6, TopoLeaves DEF Namers
    <3>2. CASE Namers # {}
      BY <2>1, <2>2, <2>4, <3>2, <1>6, TopoLeaves
    <3>3. CASE dialling \in Known
      BY <2>1, <2>3, <2>4, <3>3, <1>6, TopoLeaves DEF Known
    <3> QED
      BY <2>4, <3>1, <3>2, <3>3
  <2> QED
    BY <2>3, <2>4
<1>7. CASE Topology!Finds
  BY <1>7, TopoFacts DEF TopoInv, TopoTyped, TopoWorld, TopoPlace, TopoFinds, Topology!Finds,
     Topology!Suits, Topology!world, Topology!search
<1>8. CASE Topology!Fails
  <2>1. /\ searchResult = "searching"
        /\ UNCHANGED <<dialling, anyMember, seedQueue, tried, leader, reachable, moves>>
    BY <1>8 DEF Topology!Fails, Topology!world, Topology!search
  <2> QED
    BY <2>1 DEF TopoInv, TopoFinds, Namers
<1>9. CASE Topology!Elects
  BY <1>9, TopoFacts DEF TopoInv, TopoTyped, TopoWorld, TopoPlace, TopoFinds, Topology!Elects,
     Topology!Members, Topology!search
<1>10. ASSUME NEW h \in Topology!Members, Topology!Learns(h) PROVE TopoFinds'
  <2>1. UNCHANGED <<dialling, anyMember, seedQueue, tried, searchResult, leader, reachable, moves>>
    BY <1>10 DEF Topology!Learns, Topology!search
  <2> QED
    BY <2>1 DEF TopoInv, TopoFinds, Namers
<1> QED
  BY <1>1, <1>2, <1>3, <1>4, <1>5, <1>6, <1>7, <1>8, <1>9, <1>10 DEF Topology!Next,
     Topology!Searches

\* ... and that a search fails for a reason only.
LEMMA TopoSaysStep == TopoInv /\ Topology!Next => TopoSays'
<1> SUFFICES ASSUME TopoInv, Topology!Next PROVE TopoSays'
  OBVIOUS
<1>1. CASE Topology!Skips
  <2>1. /\ seedQueue # <<>> /\ Head(seedQueue) \in tried /\ seedQueue' = Tail(seedQueue)
        /\ searchResult = "searching" /\ dialling = none /\ dialling' = none
        /\ UNCHANGED <<anyMember, tried, lastError, searchResult, leader, moves>>
    BY <1>1 DEF Topology!Skips, Topology!world, Topology!search
  <2>2. Head(seedQueue) # none /\ In(seedQueue, leader) => leader # none
    <3>1. seedQueue \in Seq(Host)
      BY DEF TopoInv, TopoLists
    <3> QED
      BY <2>1, <3>1, TopoNext, TopoFacts DEF In
  <2> QED
    BY <2>1, <2>2, TopoNext, TopoFacts DEF TopoInv, TopoSays, TopoTyped
<1>2. CASE Topology!Dials
  <2>1. /\ seedQueue # <<>> /\ Head(seedQueue) \notin tried /\ seedQueue' = Tail(seedQueue)
        /\ searchResult = "searching" /\ dialling = none /\ dialling' = Head(seedQueue)
        /\ tried' = tried \cup {Head(seedQueue)}
        /\ UNCHANGED <<anyMember, lastError, searchResult, leader, moves>>
    BY <1>2 DEF Topology!Dials, Topology!world, Topology!search
  <2>2. Head(seedQueue) \in Host /\ none \notin Host /\ tried \subseteq Host
    BY <2>1, TopoNext, TopoFacts DEF TopoInv, TopoTyped
  <2> QED
    BY <2>1, <2>2, TopoNext DEF TopoInv, TopoSays
<1>3. CASE Topology!DialFails
  BY <1>3, TopoFacts DEF TopoInv, TopoTyped, TopoWorld, TopoPlace, TopoSays, Topology!DialFails,
     Topology!world, Topology!search
<1>4. CASE Topology!Refused
  BY <1>4, TopoFacts DEF TopoInv, TopoTyped, TopoWorld, TopoPlace, TopoSays, Topology!Refused,
     Topology!world, Topology!search
<1>5. CASE Topology!Connects
  BY <1>5, TopoFacts DEF TopoInv, TopoTyped, TopoWorld, TopoPlace, TopoSays, Topology!Connects,
     Topology!Says, Topology!world, Topology!search
<1>6. CASE Topology!Leaves
  <2>1. SUFFICES ASSUME moves = 0, ~anyMember, ~lastError'
        PROVE  In(seedQueue', leader) /\ leader \notin tried
    BY <1>6, TopoLeaves DEF TopoSays
  <2>2. ~lastError /\ dialling \notin Strangers /\ leader # none /\ dialling # leader
    BY <2>1, <1>6, TopoLeaves
  <2>3. leader \notin tried
    BY <2>1, <2>2, <1>6, TopoLeaves DEF TopoInv, TopoSays
  <2> QED
    BY <2>1, <2>2, <2>3, <1>6, TopoLeaves
<1>7. CASE Topology!Finds
  BY <1>7, TopoFacts DEF TopoInv, TopoTyped, TopoWorld, TopoPlace, TopoSays, Topology!Finds,
     Topology!Suits, Topology!world, Topology!search
<1>8. CASE Topology!Fails
  BY <1>8, TopoFacts DEF TopoInv, TopoTyped, TopoWorld, TopoPlace, TopoSays, Topology!Fails,
     Topology!world, Topology!search
<1>9. CASE Topology!Elects
  BY <1>9, TopoFacts DEF TopoInv, TopoTyped, TopoWorld, TopoPlace, TopoSays, Topology!Elects,
     Topology!Members, Topology!search
<1>10. ASSUME NEW h \in Topology!Members, Topology!Learns(h) PROVE TopoSays'
  BY <1>10, TopoFacts DEF TopoInv, TopoTyped, TopoWorld, TopoPlace, TopoSays, Topology!Learns,
     Topology!search
<1> QED
  BY <1>1, <1>2, <1>3, <1>4, <1>5, <1>6, <1>7, <1>8, <1>9, <1>10 DEF Topology!Next,
     Topology!Searches

\* A step of something else changes nothing of the search.
LEMMA TopoStays == TopoInv /\ UNCHANGED Topology!vars => TopoInv'
<1> SUFFICES ASSUME TopoInv, UNCHANGED Topology!vars PROVE TopoInv'
  OBVIOUS
<1>1. UNCHANGED <<anyMember, seedQueue, tried, dials, dialling, hello, opened, searchResult, lastError,
                  leader, sees, reachable, moves>>
  BY DEF Topology!vars, Topology!search, Topology!world
<1>2. TopoTyped' /\ TopoWorld' /\ TopoLists' /\ TopoPlace'
  BY <1>1 DEF TopoInv, TopoTyped, TopoWorld, TopoLists, TopoPlace
<1>3. TopoEnd' /\ TopoKept' /\ TopoFinds' /\ TopoSays'
  BY <1>1 DEF TopoInv, TopoEnd, TopoKept, TopoFinds, TopoSays, Namers
<1> QED
  BY <1>2, <1>3 DEF TopoInv

\* What the invariant says of the search.
LEMMA TopoShows ==
    TopoInv => Topology!TypeOK /\ Topology!NothingLeftOpen /\ Topology!PrimaryIsFound
<1> SUFFICES ASSUME TopoInv
             PROVE  Topology!TypeOK /\ Topology!NothingLeftOpen /\ Topology!PrimaryIsFound
  OBVIOUS
<1>1. dials \in Seq(tried) /\ Topology!IsInjective(dials)
  BY DEF TopoInv, TopoLists, Lists, Topology!IsInjective
<1>2. Topology!TypeOK
  <2>1. dials \in Seq(Host) /\ moves \in 0 .. MaxMoves
    <3>1. tried \subseteq Host
      BY DEF TopoInv, TopoTyped
    <3>2. moves \in 0 .. MaxMoves
      BY TopoFacts DEF TopoInv, TopoWorld
    <3> QED
      BY <1>1, <3>1, <3>2
  <2> QED
    BY <2>1 DEF Topology!TypeOK, Topology!Members, TopoInv, TopoTyped, TopoWorld, TopoLists, Known
<1>3. Topology!NothingLeftOpen
  BY <1>1 DEF Topology!NothingLeftOpen, TopoInv, TopoPlace
<1>4. Topology!PrimaryIsFound
  <2> SUFFICES ASSUME moves = 0, ~anyMember, searchResult = "failed"
               PROVE  lastError /\ (leader \in reachable => tried \cap Known \cap reachable = {})
    BY DEF Topology!PrimaryIsFound, Topology!Members, Known
  <2>1. dialling = none /\ seedQueue = <<>> /\ none \notin tried
    BY TopoFacts DEF TopoInv, TopoPlace, TopoTyped, TopoEnd
  <2>2. lastError
    BY <2>1, InNone DEF TopoInv, TopoSays
  <2>3. leader \in reachable => leader # none /\ Namers = tried \cap Known \cap reachable
    BY <2>1, TopoFacts DEF TopoInv, TopoWorld, Namers
  <2> QED
    BY <2>1, <2>2, <2>3, InNone DEF TopoInv, TopoFinds
<1> QED
  BY <1>2, <1>3, <1>4

\* For any servers and seed lists: the search leaves nothing open but what it found, and finds the
\* primary of a replica set that keeps it, if a member it was told of can be reached
\* (mongo-engine/src/topology.ts).
THEOREM TopologyInvariance ==
    Topology!Init /\ [][Topology!Next]_(Topology!vars) =>
      [](Topology!TypeOK /\ Topology!NothingLeftOpen /\ Topology!PrimaryIsFound)
<1>1. Topology!Init => TopoInv
  BY TopoBegins
<1>2. TopoInv /\ [Topology!Next]_(Topology!vars) => TopoInv'
  BY TopoTypedStep, TopoWorldStep, TopoListsStep, TopoPlaceStep, TopoEndStep, TopoKeptStep,
     TopoFindsStep,
     TopoSaysStep, TopoStays DEF TopoInv
<1>3. TopoInv => Topology!TypeOK /\ Topology!NothingLeftOpen /\ Topology!PrimaryIsFound
  BY TopoShows
<1> QED
  BY <1>1, <1>2, <1>3, PTL

(* -------------------------------- MongoDB --------------------------------- *)

\* The states of the statements have their types ...
MongoFlags ==
    /\ stage \in [MongoStmt -> {"new", "sent", "running", "answered", "held", "over"}]
    /\ answer \in [MongoStmt -> {"none", "more", "last", "error"}]
    /\ mongoUp \in BOOLEAN

\* ... and so have the sets.
MongoSets ==
    /\ cursors \subseteq MongoStmt /\ inHand \subseteq MongoStmt /\ killed \subseteq MongoStmt
    /\ cutOff \subseteq MongoStmt /\ eager \subseteq MongoStmt
    /\ stopReasons \in [MongoStmt -> SUBSET {"cancel", "timeout"}]

\* A statement reads its batches in turn.
MongoRounds ==
    /\ rounds \in [MongoStmt -> Nat]
    /\ \A k \in MongoStmt :
         /\ rounds[k] <= Batches
         /\ stage[k] = "new" => rounds[k] = 0
         /\ stage[k] # "new" => rounds[k] >= 1
         /\ stage[k] = "held" /\ k \in inHand => rounds[k] < Batches
         /\ stage[k] = "answered" /\ answer[k] = "more" => rounds[k] < Batches

\* What a search found is an operation of the statement it is for.
MongoFound ==
    /\ foundOp \in [MongoStops -> {none, <<>>} \cup (MongoStmt \X (1 .. Batches))]
    /\ \A q \in MongoStops, k \in MongoStmt, n \in 1 .. Batches : foundOp[q] = <<k, n>> => k = q[1]
    /\ \A q \in MongoStops : foundOp[q] # none => asks[q] # "new"

\* A cursor is in the hands of its statement, or there is a job to release it.
MongoCursors ==
    \A k \in MongoStmt :
      /\ stage[k] = "new" => k \notin cursors
      /\ stage[k] # "over" => asks[<<k, "cursor">>] = "new"
      /\ k \in cursors /\ stage[k] \in {"sent", "running", "held"} => k \in inHand
      /\ k \in cursors /\ stage[k] = "answered" => answer[k] = "more"
      /\ k \in cursors /\ stage[k] = "over" =>
           asks[<<k, "cursor">>] \notin {"new", "done"} \/ answer[k] = "more"

\* A statement that was begun and is not over.
Underway(k) == stage[k] \notin {"new", "over"}

\* A job that is asked for because of a stop concerns the statement that was stopped, or finds one
\* begun hastily.
MongoAim ==
    /\ \A j, k \in MongoStmt : Underway(j) /\ Underway(k) => j = k
    /\ \A q \in MongoStops : asks[q] # "new" => stopReasons[q[1]] # {}
    /\ \A q \in MongoStops, k \in MongoStmt :
          asks[q] \in Asked /\ Underway(k) => k = q[1] \/ k \in eager
    /\ \A k \in killed : stopReasons[k] # {}
    /\ \A k \in cutOff : k \in eager \/ stopReasons[k] # {}

\* The invariant of the statements ...
MongoRest == MongoFlags /\ MongoSets /\ MongoRounds /\ MongoFound /\ MongoCursors /\ MongoAim

\* ... and with it that of the session.
MongoInv == AsideInv /\ MongoRest

\* What the constants of the MongoDB session give.
LEMMA MongoFacts ==
    /\ Batches \in Nat /\ Batches > 0 /\ Taggable \subseteq MongoStmt
    /\ MongoStops \subseteq MongoJobs
    /\ \A q \in MongoStops : q[1] \in MongoStmt /\ q = <<q[1], q[2]>> /\ q[2] \in {"cancel", "timeout"}
    /\ \A k \in MongoStmt : <<k, "cursor">> \in MongoJobs /\ <<k, "cursor">> \notin MongoStops
    /\ \A k, reason : <<k, reason>> \in MongoStops => k \in MongoStmt /\ reason \in {"cancel", "timeout"}
    /\ \A j, k : <<j, "cursor">> = <<k, "cursor">> => j = k
    /\ \A k \in MongoStmt, n \in 1 .. Batches : none # <<k, n>> /\ <<>> # <<k, n>>
<1>1. /\ MongoStops \subseteq MongoStmt \X {"cancel", "timeout"}
      /\ Batches \in Nat \ {0}
      /\ Taggable \subseteq MongoStmt
  BY MongoAssumption DEF Mongo!MongoAssumption
<1>2. \A k \in MongoStmt : <<k, "cursor">> \in MongoJobs /\ <<k, "cursor">> \notin MongoStops
  BY <1>1 DEF MongoJobs
<1>3. \A k \in MongoStmt, n \in 1 .. Batches : none # <<k, n>> /\ <<>> # <<k, n>>
  <2> SUFFICES ASSUME NEW k \in MongoStmt, NEW n \in 1 .. Batches
               PROVE  none # <<k, n>> /\ <<>> # <<k, n>>
    OBVIOUS
  <2>1. <<k, n>> \in MongoStmt \X (1 .. Batches) /\ Len(<<k, n>>) = 2 /\ Len(<<>>) = 0
    OBVIOUS
  <2> QED
    BY <2>1, MongoAssumption DEF Mongo!MongoAssumption
<1> QED
  BY <1>1, <1>2, <1>3 DEF MongoJobs

\* What asking for a job changes ...
LEMMA MongoAsked ==
    ASSUME AsideInv, NEW j \in MongoJobs, Mongo!Ask(j)
    PROVE  asks[j] = "new" /\ asks' = [asks EXCEPT ![j] = "queued"]
  BY DEF Mongo!Ask

\* ... leaving a statement, which asks for its cursor to be released ...
LEMMA MongoLeaves ==
    ASSUME AsideInv, NEW k \in MongoStmt, Mongo!Leaves(k)
    PROVE  /\ stage' = [stage EXCEPT ![k] = "over"] /\ inHand' = inHand \ {k}
           /\ k \in inHand =>
                asks[<<k, "cursor">>] = "new" /\ asks' = [asks EXCEPT ![<<k, "cursor">>] = "queued"]
           /\ k \notin inHand => asks' = asks
<1>1. /\ stage' = [stage EXCEPT ![k] = "over"] /\ inHand' = inHand \ {k}
      /\ IF k \in inHand THEN Mongo!Ask(<<k, "cursor">>) ELSE UNCHANGED Mongo!second_vars
  BY DEF Mongo!Leaves, Mongo!Release
<1> QED
  BY <1>1, MongoFacts, MongoAsked DEF Mongo!second_vars

\* ... and finishing a job.
LEMMA MongoDone ==
    ASSUME AsideInv, NEW j \in MongoJobs, Mongo!Answered(j, "done")
    PROVE  asks[j] \in {"running"} /\ asks' = [asks EXCEPT ![j] = "done"]
<1>1. asks[j] = "running"
  BY DEF Mongo!Answered, AsideInv, AsidePlace
<1> QED
  BY <1>1 DEF Mongo!Answered, Mongo!Ends

\* What the second connection does by itself: who was asked goes on, or fails.
LEMMA MongoWorks ==
    ASSUME AsideInv, Mongo!SecondWorks \/ Mongo!Close \/ Mongo!CloseEnds
    PROVE  \A j \in MongoJobs :
             asks'[j] = asks[j] \/ (asks[j] \in Asked /\ asks'[j] \in Asked \cup {"failed"})
<1> USE DEF AsideInv, AsideTyped, AsidePlace, Asked, Active
<1>1. ASSUME NEW i \in MongoJobs, Mongo!TurnComes(i)
      PROVE  \A j \in MongoJobs :
               asks'[j] = asks[j] \/ (asks[j] \in Asked /\ asks'[j] \in Asked \cup {"failed"})
  BY <1>1 DEF Mongo!TurnComes, Mongo!Ends, Mongo!Begun
<1>2. ASSUME NEW i \in MongoJobs, Mongo!ConnectFails(i)
      PROVE  \A j \in MongoJobs :
               asks'[j] = asks[j] \/ (asks[j] \in Asked /\ asks'[j] \in Asked \cup {"failed"})
  BY <1>2 DEF Mongo!ConnectFails, Mongo!Ends
<1>3. ASSUME NEW i \in MongoJobs, Mongo!Refused(i)
      PROVE  \A j \in MongoJobs :
               asks'[j] = asks[j] \/ (asks[j] \in Asked /\ asks'[j] \in Asked \cup {"failed"})
  BY <1>3 DEF Mongo!Refused, Mongo!Answered, Mongo!Ends
<1>4. ASSUME Mongo!Connects
      PROVE  \A j \in MongoJobs :
               asks'[j] = asks[j] \/ (asks[j] \in Asked /\ asks'[j] \in Asked \cup {"failed"})
  BY <1>4 DEF Mongo!Connects, Mongo!Begun
<1>5. ASSUME Mongo!Loses
      PROVE  \A j \in MongoJobs :
               asks'[j] = asks[j] \/ (asks[j] \in Asked /\ asks'[j] \in Asked \cup {"failed"})
  BY <1>5 DEF Mongo!Loses
<1>6. ASSUME Mongo!Close PROVE asks' = asks
  BY <1>6 DEF Mongo!Close
<1> QED
  BY <1>1, <1>2, <1>3, <1>4, <1>5, <1>6
     DEF Mongo!SecondWorks, Mongo!SecondGoes, Mongo!SecondDrops, Mongo!CloseEnds

\* What a stop changes.
LEMMA MongoStopping ==
    ASSUME AsideInv, NEW k \in MongoStmt, Mongo!Cancel(k) \/ Mongo!Timeout(k)
    PROVE  \E reason \in {"cancel", "timeout"} :
             /\ Underway(k) /\ <<k, reason>> \in MongoStops
             /\ stopReasons' = [stopReasons EXCEPT ![k] = @ \cup {reason}]
             /\ UNCHANGED <<stage, answer, rounds, cursors, inHand, foundOp, killed, eager>>
             /\ \/ /\ asks[<<k, reason>>] = "new" /\ asks' = [asks EXCEPT ![<<k, reason>>] = "queued"]
                   /\ UNCHANGED <<cutOff, mongoUp>>
                \/ /\ mongoUp' = FALSE /\ cutOff' = cutOff \cup {j \in MongoStmt : Underway(j)}
                   /\ asks' = asks
<1> SUFFICES ASSUME NEW reason \in {"cancel", "timeout"}, Mongo!Stopping(k, reason)
             PROVE  /\ Underway(k) /\ <<k, reason>> \in MongoStops
                    /\ stopReasons' = [stopReasons EXCEPT ![k] = @ \cup {reason}]
                    /\ UNCHANGED <<stage, answer, rounds, cursors, inHand, foundOp, killed, eager>>
                    /\ \/ /\ asks[<<k, reason>>] = "new"
                          /\ asks' = [asks EXCEPT ![<<k, reason>>] = "queued"]
                          /\ UNCHANGED <<cutOff, mongoUp>>
                       \/ /\ mongoUp' = FALSE /\ cutOff' = cutOff \cup {j \in MongoStmt : Underway(j)}
                          /\ asks' = asks
  BY DEF Mongo!Cancel, Mongo!Timeout
<1>1. Underway(k) /\ <<k, reason>> \in MongoStops
  BY DEF Mongo!Stopping, Mongo!Going, Underway
<1>2. /\ stopReasons' = [stopReasons EXCEPT ![k] = @ \cup {reason}]
      /\ UNCHANGED <<stage, answer, rounds, cursors, inHand, foundOp, killed, eager>>
  BY DEF Mongo!Stopping
<1>3. CASE k \in Taggable
  <2>1. Mongo!Ask(<<k, reason>>) /\ UNCHANGED <<cutOff, mongoUp>>
    BY <1>3 DEF Mongo!Stopping
  <2>2. <<k, reason>> \in MongoJobs
    BY <1>1, MongoFacts
  <2> QED
    BY <1>1, <1>2, <2>1, <2>2, MongoAsked
<1>4. CASE k \notin Taggable
  <2>1. mongoUp' = FALSE /\ cutOff' = cutOff \cup {j \in MongoStmt : Underway(j)} /\ asks' = asks
    BY <1>4 DEF Mongo!Stopping, Mongo!CutOff, Mongo!Going, Underway, Mongo!second_vars
  <2> QED
    BY <1>1, <1>2, <2>1
<1> QED
  BY <1>3, <1>4

\* What a failed kill costs: the statement that runs, which is the one it was for or began
\* beside it.
LEMMA MongoCosts ==
    ASSUME MongoInv, Mongo!SecondMoves \/ Mongo!SessionCloses
    PROVE  /\ UNCHANGED <<stage, answer, rounds, cursors, inHand, stopReasons, foundOp, killed, eager>>
           /\ \A j \in MongoJobs :
                asks'[j] = asks[j] \/ (asks[j] \in Asked /\ asks'[j] \in Asked \cup {"failed"})
           /\ mongoUp' \in BOOLEAN
           /\ \/ cutOff' = cutOff
              \/ /\ cutOff' = cutOff \cup {j \in MongoStmt : Underway(j)}
                 /\ \E q \in MongoStops : asks[q] \in Asked
<1>1. UNCHANGED <<stage, answer, rounds, cursors, inHand, stopReasons, foundOp, killed, eager>>
  BY DEF Mongo!SecondMoves, Mongo!SessionCloses
<1>2. AsideInv /\ mongoUp \in BOOLEAN
  BY DEF MongoInv, MongoRest, MongoFlags
<1>3. Mongo!SecondWorks \/ Mongo!Close \/ Mongo!CloseEnds
  BY DEF Mongo!SecondMoves, Mongo!SessionCloses
<1>4. \A j \in MongoJobs :
         asks'[j] = asks[j] \/ (asks[j] \in Asked /\ asks'[j] \in Asked \cup {"failed"})
  BY <1>2, <1>3, MongoWorks
<1>5. Mongo!Cost \/ (mongoUp' = FALSE /\ cutOff' = cutOff)
  BY DEF Mongo!SecondMoves, Mongo!SessionCloses, Mongo!SecondWorks, Mongo!SecondGoes
<1>6. CASE Mongo!Cost
  <2> DEFINE lost == \E q \in MongoStops : asks[q] # "failed" /\ asks'[q] = "failed"
  <2>1. (mongoUp' <=> mongoUp /\ ~lost) /\ mongoUp' \in BOOLEAN
    BY <1>6, Zenon DEF Mongo!Cost, Mongo!Kill
  <2>2. cutOff' = IF lost /\ mongoUp THEN cutOff \cup {j \in MongoStmt : Underway(j)} ELSE cutOff
    BY <1>6 DEF Mongo!Cost, Mongo!Kill, Mongo!CutOff, Mongo!Going, Underway
  <2>3. lost => \E q \in MongoStops : asks[q] \in Asked
    BY <1>4, MongoFacts
  <2> HIDE DEF lost
  <2> QED
    BY <1>1, <1>4, <2>1, <2>2, <2>3
<1> QED
  BY <1>1, <1>4, <1>5, <1>6

\* A session begins with nothing asked.
LEMMA MongoBegins == Mongo!Init => MongoInv
<1> SUFFICES ASSUME Mongo!Init PROVE MongoInv
  OBVIOUS
<1> USE MongoFacts
<1>0. /\ Mongo!SecondInit /\ stage = [k \in MongoStmt |-> "new"]
      /\ answer = [k \in MongoStmt |-> "none"] /\ rounds = [k \in MongoStmt |-> 0]
      /\ cursors = {} /\ inHand = {} /\ stopReasons = [k \in MongoStmt |-> {}]
      /\ foundOp = [q \in MongoStops |-> none]
      /\ killed = {} /\ cutOff = {} /\ mongoUp = TRUE /\ eager = {}
      /\ asks = [j \in MongoJobs |-> "new"]
  BY DEF Mongo!Init, Mongo!Kill, Mongo!SecondInit
<1>1. AsideInv
  BY <1>0, AsideBegins
<1>2. MongoFlags
  BY <1>0 DEF MongoFlags
<1>3. MongoSets /\ MongoRounds
  BY <1>0 DEF MongoSets, MongoRounds
<1>4. MongoFound
  BY <1>0 DEF MongoFound
<1>5. MongoCursors /\ MongoAim
  BY <1>0 DEF MongoCursors, MongoAim, Underway
<1> QED
  BY <1>1, <1>2, <1>3, <1>4, <1>5 DEF MongoInv, MongoRest

\* A statement that goes on, or leaves its cursor to be released.
LEMMA MongoLeft ==
    ASSUME AsideInv, NEW k \in MongoStmt, Mongo!Fails(k) \/ Mongo!Continues(k) \/ Mongo!Abandons(k)
    PROVE  /\ UNCHANGED <<answer, cursors, stopReasons, foundOp, killed, cutOff, mongoUp, eager>>
           /\ stage[k] \in {"sent", "running", "answered", "held"}
           /\ \A q \in MongoStops : asks'[q] = asks[q]
           /\ \A i \in MongoStmt : i # k => asks'[<<i, "cursor">>] = asks[<<i, "cursor">>]
           /\ \/ /\ stage[k] = "held" /\ k \in inHand
                 /\ stage' = [stage EXCEPT ![k] = "sent"] /\ rounds' = [rounds EXCEPT ![k] = @ + 1]
                 /\ inHand' = inHand /\ asks'[<<k, "cursor">>] = asks[<<k, "cursor">>]
              \/ /\ stage' = [stage EXCEPT ![k] = "over"] /\ rounds' = rounds /\ inHand' = inHand \ {k}
                 /\ asks'[<<k, "cursor">>] = IF k \in inHand THEN "queued" ELSE asks[<<k, "cursor">>]
<1>0. asks \in [MongoJobs -> {"new", "queued", "connecting", "selecting", "running", "done", "failed"}]
  BY DEF AsideInv, AsideTyped
<1>1. /\ UNCHANGED <<answer, cursors, stopReasons, foundOp, killed, cutOff, mongoUp, eager>>
      /\ stage[k] \in {"sent", "running", "answered", "held"}
  BY DEF Mongo!Fails, Mongo!Continues, Mongo!Abandons
<1>2. CASE Mongo!Leaves(k) /\ rounds' = rounds
  <2>1. stage' = [stage EXCEPT ![k] = "over"] /\ inHand' = inHand \ {k}
    BY <1>2, MongoLeaves
  <2>2. asks' = IF k \in inHand THEN [asks EXCEPT ![<<k, "cursor">>] = "queued"] ELSE asks
    BY <1>2, MongoLeaves
  <2>3. /\ \A q \in MongoStops : asks'[q] = asks[q]
        /\ \A i \in MongoStmt : i # k => asks'[<<i, "cursor">>] = asks[<<i, "cursor">>]
        /\ asks'[<<k, "cursor">>] = IF k \in inHand THEN "queued" ELSE asks[<<k, "cursor">>]
    BY <2>2, <1>0, MongoFacts
  <2> QED
    BY <1>1, <1>2, <2>1, <2>3
<1>3. CASE /\ stage[k] = "held" /\ k \in inHand /\ Mongo!Sends(k)
           /\ UNCHANGED <<asks, inHand>>
  BY <1>1, <1>3 DEF Mongo!Sends
<1>4. \/ Mongo!Leaves(k) /\ rounds' = rounds
      \/ /\ stage[k] = "held" /\ k \in inHand /\ Mongo!Sends(k)
         /\ UNCHANGED <<asks, inHand>>
  BY DEF Mongo!Fails, Mongo!Continues, Mongo!Abandons, Mongo!second_vars
<1> QED
  BY <1>2, <1>3, <1>4

\* A cursor that is released.
LEMMA MongoReleased ==
    ASSUME AsideInv, NEW k \in MongoStmt, Mongo!CursorGoes(k)
    PROVE  /\ UNCHANGED <<stage, answer, rounds, inHand, stopReasons, foundOp, killed, cutOff, mongoUp, eager>>
           /\ cursors' = cursors \ {k} /\ asks[<<k, "cursor">>] = "running"
           /\ \A q \in MongoStops : asks'[q] = asks[q]
           /\ \A i \in MongoStmt : i # k => asks'[<<i, "cursor">>] = asks[<<i, "cursor">>]
<1>0. asks \in [MongoJobs -> {"new", "queued", "connecting", "selecting", "running", "done", "failed"}]
  BY DEF AsideInv, AsideTyped
<1>1. Mongo!Answered(<<k, "cursor">>, "done") /\ cursors' = cursors \ {k}
      /\ UNCHANGED <<stage, answer, rounds, inHand, stopReasons, foundOp, killed, cutOff, mongoUp, eager>>
  BY DEF Mongo!CursorGoes, Mongo!Release
<1>2. asks[<<k, "cursor">>] = "running" /\ asks' = [asks EXCEPT ![<<k, "cursor">>] = "done"]
  BY <1>1, MongoDone, MongoFacts
<1>3. /\ \A q \in MongoStops : asks'[q] = asks[q]
      /\ \A i \in MongoStmt : i # k => asks'[<<i, "cursor">>] = asks[<<i, "cursor">>]
  BY <1>0, <1>2, MongoFacts
<1> QED
  BY <1>1, <1>2, <1>3

\* A kill that reaches the server.
LEMMA MongoKills ==
    ASSUME AsideInv, NEW q \in MongoStops, Mongo!KillActs(q)
    PROVE  /\ UNCHANGED <<rounds, inHand, stopReasons, foundOp, cutOff, mongoUp, eager>>
           /\ foundOp[q] # none /\ asks[q] = "running" /\ asks'[q] = "done"
           /\ \A p \in MongoStops : p # q => asks'[p] = asks[p]
           /\ \A i \in MongoStmt : asks'[<<i, "cursor">>] = asks[<<i, "cursor">>]
           /\ LET hit == {k \in MongoStmt : stage[k] = "running" /\ foundOp[q] = <<k, rounds[k]>>} IN
              /\ killed' = killed \cup hit
              /\ stage' = [k \in MongoStmt |-> IF k \in hit THEN "answered" ELSE stage[k]]
              /\ answer' = [k \in MongoStmt |-> IF k \in hit THEN "error" ELSE answer[k]]
              /\ cursors' = cursors \ hit
<1>0. asks \in [MongoJobs -> {"new", "queued", "connecting", "selecting", "running", "done", "failed"}]
  BY DEF AsideInv, AsideTyped
<1>1. /\ Mongo!Answered(q, "done") /\ foundOp[q] # none
      /\ UNCHANGED <<rounds, inHand, stopReasons, foundOp, cutOff, mongoUp, eager>>
  BY DEF Mongo!KillActs
<1>2. asks[q] = "running" /\ asks' = [asks EXCEPT ![q] = "done"]
  BY <1>1, MongoDone, MongoFacts
<1>3. /\ \A p \in MongoStops : p # q => asks'[p] = asks[p]
      /\ \A i \in MongoStmt : asks'[<<i, "cursor">>] = asks[<<i, "cursor">>]
      /\ asks'[q] = "done"
  BY <1>0, <1>2, MongoFacts
<1>4. LET hit == {k \in MongoStmt : stage[k] = "running" /\ foundOp[q] = <<k, rounds[k]>>} IN
      /\ killed' = killed \cup hit
      /\ stage' = [k \in MongoStmt |-> IF k \in hit THEN "answered" ELSE stage[k]]
      /\ answer' = [k \in MongoStmt |-> IF k \in hit THEN "error" ELSE answer[k]]
      /\ cursors' = cursors \ hit
  BY DEF Mongo!KillActs
<1> QED
  BY <1>1, <1>2, <1>3, <1>4

\* A statement that is stopped.
LEMMA MongoStopped ==
    ASSUME AsideInv, NEW k \in MongoStmt, Mongo!Cancel(k) \/ Mongo!Timeout(k)
    PROVE  /\ Underway(k)
           /\ \E reason \in {"cancel", "timeout"} : stopReasons' = [stopReasons EXCEPT ![k] = @ \cup {reason}]
           /\ UNCHANGED <<stage, answer, rounds, cursors, inHand, foundOp, killed, eager>>
           /\ mongoUp' = mongoUp \/ mongoUp' = FALSE
           /\ \A q \in MongoStops :
                asks'[q] = asks[q] \/ (q[1] = k /\ asks[q] = "new" /\ asks'[q] = "queued")
           /\ \A i \in MongoStmt : asks'[<<i, "cursor">>] = asks[<<i, "cursor">>]
           /\ cutOff' = cutOff \/ cutOff' = cutOff \cup {j \in MongoStmt : Underway(j)}
<1>0. asks \in [MongoJobs -> {"new", "queued", "connecting", "selecting", "running", "done", "failed"}]
  BY DEF AsideInv, AsideTyped
<1>1. PICK reason \in {"cancel", "timeout"} :
             /\ Underway(k) /\ <<k, reason>> \in MongoStops
             /\ stopReasons' = [stopReasons EXCEPT ![k] = @ \cup {reason}]
             /\ UNCHANGED <<stage, answer, rounds, cursors, inHand, foundOp, killed, eager>>
             /\ \/ /\ asks[<<k, reason>>] = "new" /\ asks' = [asks EXCEPT ![<<k, reason>>] = "queued"]
                   /\ UNCHANGED <<cutOff, mongoUp>>
                \/ /\ mongoUp' = FALSE /\ cutOff' = cutOff \cup {j \in MongoStmt : Underway(j)}
                   /\ asks' = asks
  BY MongoStopping
<1>2. /\ \A q \in MongoStops :
            asks'[q] = asks[q] \/ (q[1] = k /\ asks[q] = "new" /\ asks'[q] = "queued")
      /\ \A i \in MongoStmt : asks'[<<i, "cursor">>] = asks[<<i, "cursor">>]
  <2>1. <<k, reason>> \in MongoStops /\ <<k, reason>>[1] = k
    BY <1>1
  <2>2. CASE asks[<<k, reason>>] = "new" /\ asks' = [asks EXCEPT ![<<k, reason>>] = "queued"]
    <3> DEFINE p == <<k, reason>>
    <3>1. p \in MongoStops /\ p[1] = k /\ asks[p] = "new" /\ asks' = [asks EXCEPT ![p] = "queued"]
      BY <2>1, <2>2
    <3> HIDE DEF p
    <3> QED
      BY <1>0, <3>1, MongoFacts
  <2>3. CASE asks' = asks
    BY <2>3
  <2> QED
    BY <1>1, <2>2, <2>3
<1> QED
  BY <1>1, <1>2

\* Beginning a statement keeps the invariant ...
LEMMA MongoExecutesKeeps ==
    ASSUME MongoInv, NEW k \in MongoStmt, Mongo!Execute(k)
    PROVE  MongoRest'
<1>0. AsideInv /\ MongoRest
  BY DEF MongoInv
<1>1. /\ stage[k] = "new" /\ \A j \in MongoStmt : ~Underway(j)
      /\ stage' = [stage EXCEPT ![k] = "sent"] /\ rounds' = [rounds EXCEPT ![k] = @ + 1]
      /\ eager' = IF {q \in MongoStops : asks[q] \notin {"new", "done", "failed"}} = {} THEN eager
                  ELSE eager \cup {k}
      /\ UNCHANGED <<asks, answer, cursors, inHand, stopReasons, foundOp, killed, cutOff, mongoUp>>
  BY DEF Mongo!Execute, Mongo!Going, Mongo!Sends, Mongo!KillsDue, Mongo!Kill, Mongo!second_vars,
         Underway
<1>2. MongoFlags'
  BY <1>0, <1>1 DEF MongoRest, MongoFlags
<1>3. MongoSets'
  BY <1>0, <1>1, MongoFacts DEF MongoRest, MongoSets, MongoFlags
<1>4. MongoRounds'
  BY <1>0, <1>1, MongoFacts DEF MongoRest, MongoFlags, MongoSets, MongoRounds
<1>5. MongoFound'
  BY <1>0, <1>1, MongoFacts DEF MongoRest, MongoFlags, MongoRounds, MongoFound, Asked, Active
<1>6. MongoCursors'
  BY <1>0, <1>1 DEF MongoRest, MongoFlags, MongoSets, MongoCursors, Asked, Active
<1>7. MongoAim'
  BY <1>0, <1>1 DEF MongoRest, MongoFlags, MongoSets, MongoFound, MongoAim, Underway, Asked, Active
<1> QED
  BY <1>2, <1>3, <1>4, <1>5, <1>6, <1>7 DEF MongoRest

\* ... the server taking it up ...
LEMMA MongoTakesKeeps ==
    ASSUME MongoInv, NEW k \in MongoStmt, Mongo!ServerTakes(k)
    PROVE  MongoRest'
<1>0. AsideInv /\ MongoRest
  BY DEF MongoInv
<1>1. /\ stage[k] = "sent" /\ stage' = [stage EXCEPT ![k] = "running"]
      /\ UNCHANGED <<asks, answer, rounds, cursors, inHand, stopReasons, foundOp, killed, cutOff,
                     mongoUp, eager>>
  BY DEF Mongo!ServerTakes, Mongo!second_vars
<1>2. MongoFlags'
  BY <1>0, <1>1 DEF MongoRest, MongoFlags
<1>3. MongoSets'
  BY <1>0, <1>1, MongoFacts DEF MongoRest, MongoSets, MongoFlags
<1>4. MongoRounds'
  BY <1>0, <1>1, MongoFacts DEF MongoRest, MongoFlags, MongoSets, MongoRounds
<1>5. MongoFound'
  BY <1>0, <1>1, MongoFacts DEF MongoRest, MongoFlags, MongoRounds, MongoFound
<1>6. MongoCursors'
  BY <1>0, <1>1 DEF MongoRest, MongoFlags, MongoSets, MongoCursors
<1>7. MongoAim'
  BY <1>0, <1>1 DEF MongoRest, MongoFlags, MongoSets, MongoFound, MongoAim, Underway
<1> QED
  BY <1>2, <1>3, <1>4, <1>5, <1>6, <1>7 DEF MongoRest

\* ... answering it ...
LEMMA MongoAnswersKeeps ==
    ASSUME MongoInv, NEW k \in MongoStmt, Mongo!ServerAnswers(k)
    PROVE  MongoRest'
<1>0. AsideInv /\ MongoRest
  BY DEF MongoInv
<1>1. /\ stage[k] = "running" /\ stage' = [stage EXCEPT ![k] = "answered"]
      /\ UNCHANGED <<asks, rounds, inHand, stopReasons, foundOp, killed, cutOff, mongoUp, eager>>
      /\ \/ /\ rounds[k] < Batches /\ answer' = [answer EXCEPT ![k] = "more"]
            /\ cursors' = cursors \cup {k}
         \/ /\ \E r \in {"last", "error"} : answer' = [answer EXCEPT ![k] = r]
            /\ cursors' = cursors \ {k}
  BY DEF Mongo!ServerAnswers, Mongo!Outcomes, Mongo!second_vars
<1>2. MongoFlags'
  BY <1>0, <1>1 DEF MongoRest, MongoFlags
<1>3. MongoSets'
  BY <1>0, <1>1, MongoFacts DEF MongoRest, MongoSets, MongoFlags
<1>4. MongoRounds'
  BY <1>0, <1>1, MongoFacts DEF MongoRest, MongoFlags, MongoSets, MongoRounds
<1>5. MongoFound'
  BY <1>0, <1>1, MongoFacts DEF MongoRest, MongoFlags, MongoRounds, MongoFound
<1>6. MongoCursors'
  BY <1>0, <1>1 DEF MongoRest, MongoFlags, MongoSets, MongoCursors
<1>7. MongoAim'
  BY <1>0, <1>1 DEF MongoRest, MongoFlags, MongoSets, MongoFound, MongoAim, Underway
<1> QED
  BY <1>2, <1>3, <1>4, <1>5, <1>6, <1>7 DEF MongoRest

\* ... the answer coming in ...
LEMMA MongoReceivesKeeps ==
    ASSUME MongoInv, NEW k \in MongoStmt, Mongo!Receives(k)
    PROVE  MongoRest'
<1>0. AsideInv /\ MongoRest
  BY DEF MongoInv
<1>1. /\ stage[k] = "answered" /\ stage' = [stage EXCEPT ![k] = "held"]
      /\ answer' = [answer EXCEPT ![k] = "none"]
      /\ inHand' = IF answer[k] = "more" THEN inHand \cup {k} ELSE inHand \ {k}
      /\ UNCHANGED <<asks, rounds, cursors, stopReasons, foundOp, killed, cutOff, mongoUp, eager>>
  BY DEF Mongo!Receives, Mongo!second_vars
<1>2. MongoFlags'
  BY <1>0, <1>1 DEF MongoRest, MongoFlags
<1>3. MongoSets'
  BY <1>0, <1>1, MongoFacts DEF MongoRest, MongoSets, MongoFlags
<1>4. MongoRounds'
  BY <1>0, <1>1, MongoFacts DEF MongoRest, MongoFlags, MongoSets, MongoRounds
<1>5. MongoFound'
  BY <1>0, <1>1, MongoFacts DEF MongoRest, MongoFlags, MongoRounds, MongoFound
<1>6. MongoCursors'
  BY <1>0, <1>1 DEF MongoRest, MongoFlags, MongoSets, MongoCursors
<1>7. MongoAim'
  BY <1>0, <1>1 DEF MongoRest, MongoFlags, MongoSets, MongoFound, MongoAim, Underway
<1> QED
  BY <1>2, <1>3, <1>4, <1>5, <1>6, <1>7 DEF MongoRest

\* ... going on, failing, walking away ...
LEMMA MongoLeavesKeeps ==
    ASSUME MongoInv, NEW k \in MongoStmt, Mongo!Fails(k) \/ Mongo!Continues(k) \/ Mongo!Abandons(k)
    PROVE  MongoRest'
<1>0. AsideInv /\ MongoRest
  BY DEF MongoInv
<1>1. /\ UNCHANGED <<answer, cursors, stopReasons, foundOp, killed, cutOff, mongoUp, eager>>
      /\ stage[k] \in {"sent", "running", "answered", "held"}
      /\ \A q \in MongoStops : asks'[q] = asks[q]
      /\ \A i \in MongoStmt : i # k => asks'[<<i, "cursor">>] = asks[<<i, "cursor">>]
      /\ \/ /\ stage[k] = "held" /\ k \in inHand
            /\ stage' = [stage EXCEPT ![k] = "sent"] /\ rounds' = [rounds EXCEPT ![k] = @ + 1]
            /\ inHand' = inHand /\ asks'[<<k, "cursor">>] = asks[<<k, "cursor">>]
         \/ /\ stage' = [stage EXCEPT ![k] = "over"] /\ rounds' = rounds /\ inHand' = inHand \ {k}
            /\ asks'[<<k, "cursor">>] = IF k \in inHand THEN "queued" ELSE asks[<<k, "cursor">>]
  BY <1>0, MongoLeft
<1>2. MongoFlags'
  BY <1>0, <1>1 DEF MongoRest, MongoFlags
<1>3. MongoSets'
  BY <1>0, <1>1, MongoFacts DEF MongoRest, MongoSets, MongoFlags
<1>4. MongoRounds'
  BY <1>0, <1>1, MongoFacts DEF MongoRest, MongoFlags, MongoSets, MongoRounds
<1>5. MongoFound'
  <2>1. foundOp' = foundOp /\ \A q \in MongoStops : asks'[q] = asks[q]
    BY <1>1
  <2> QED
    BY <1>0, <2>1 DEF MongoRest, MongoFound
<1>6. MongoCursors'
  <2>1. /\ cursors' = cursors /\ answer' = answer /\ stage[k] \in {"sent", "running", "answered", "held"}
        /\ \A i \in MongoStmt : i # k => asks'[<<i, "cursor">>] = asks[<<i, "cursor">>]
    BY <1>1
  <2>2. CASE /\ stage[k] = "held" /\ k \in inHand /\ stage' = [stage EXCEPT ![k] = "sent"] /\ inHand' = inHand
             /\ asks'[<<k, "cursor">>] = asks[<<k, "cursor">>]
    BY <1>0, <2>1, <2>2 DEF MongoRest, MongoFlags, MongoSets, MongoCursors
  <2>3. CASE /\ stage' = [stage EXCEPT ![k] = "over"] /\ inHand' = inHand \ {k}
             /\ asks'[<<k, "cursor">>] = IF k \in inHand THEN "queued" ELSE asks[<<k, "cursor">>]
    BY <1>0, <2>1, <2>3 DEF MongoRest, MongoFlags, MongoSets, MongoCursors
  <2> QED
    BY <1>1, <2>2, <2>3
<1>7. MongoAim'
  BY <1>0, <1>1 DEF MongoRest, MongoFlags, MongoSets, MongoFound, MongoAim, Underway, Asked, Active
<1> QED
  BY <1>2, <1>3, <1>4, <1>5, <1>6, <1>7 DEF MongoRest

\* ... stopping it ...
LEMMA MongoStopsKeeps ==
    ASSUME MongoInv, NEW k \in MongoStmt, Mongo!Cancel(k) \/ Mongo!Timeout(k)
    PROVE  MongoRest'
<1>0. AsideInv /\ MongoRest
  BY DEF MongoInv
<1>1. /\ Underway(k)
      /\ \E reason \in {"cancel", "timeout"} : stopReasons' = [stopReasons EXCEPT ![k] = @ \cup {reason}]
      /\ UNCHANGED <<stage, answer, rounds, cursors, inHand, foundOp, killed, eager>>
      /\ mongoUp' = mongoUp \/ mongoUp' = FALSE
      /\ \A q \in MongoStops :
           asks'[q] = asks[q] \/ (q[1] = k /\ asks[q] = "new" /\ asks'[q] = "queued")
      /\ \A i \in MongoStmt : asks'[<<i, "cursor">>] = asks[<<i, "cursor">>]
      /\ cutOff' = cutOff \/ cutOff' = cutOff \cup {j \in MongoStmt : Underway(j)}
  BY <1>0, MongoStopped
<1>2. MongoFlags'
  BY <1>0, <1>1 DEF MongoRest, MongoFlags
<1>3. MongoSets'
  BY <1>0, <1>1, MongoFacts DEF MongoRest, MongoSets, MongoFlags
<1>4. MongoRounds'
  BY <1>0, <1>1, MongoFacts DEF MongoRest, MongoFlags, MongoSets, MongoRounds
<1>5. MongoFound'
  <2>1. foundOp' = foundOp /\ \A q \in MongoStops : asks[q] # "new" => asks'[q] = asks[q]
    BY <1>1
  <2> QED
    BY <1>0, <2>1 DEF MongoRest, MongoFound
<1>6. MongoCursors'
  BY <1>0, <1>1 DEF MongoRest, MongoFlags, MongoSets, MongoCursors, Asked, Active
<1>7. MongoAim'
  <2>1. PICK reason \in {"cancel", "timeout"} : stopReasons' = [stopReasons EXCEPT ![k] = @ \cup {reason}]
    BY <1>1
  <2>2. stopReasons'[k] # {} /\ \A i \in MongoStmt : stopReasons[i] # {} => stopReasons'[i] # {}
    BY <1>0, <2>1 DEF MongoRest, MongoSets
  <2>3. Underway(k) /\ UNCHANGED <<stage, killed, eager>> /\ \A i \in MongoStmt : Underway(i)' <=> Underway(i)
    BY <1>1 DEF Underway
  <2>4. \A i \in MongoStmt : Underway(i) => i = k
    BY <1>0, <2>3 DEF MongoRest, MongoAim
  <2>5. \A q \in MongoStops : asks'[q] = asks[q] \/ (q[1] = k /\ asks[q] = "new" /\ asks'[q] = "queued")
    BY <1>1
  <2>6. cutOff' = cutOff \/ cutOff' = cutOff \cup {j \in MongoStmt : Underway(j)}
    BY <1>1
  <2>7. killed \subseteq MongoStmt /\ cutOff \subseteq MongoStmt /\ \A q \in MongoStops : q[1] \in MongoStmt
    BY <1>0, MongoFacts DEF MongoRest, MongoSets
  <2> QED
    BY <1>0, <2>2, <2>3, <2>4, <2>5, <2>6, <2>7 DEF MongoRest, MongoAim, Asked
<1> QED
  BY <1>2, <1>3, <1>4, <1>5, <1>6, <1>7 DEF MongoRest

\* ... releasing its cursor ...
LEMMA MongoReleasesKeeps ==
    ASSUME MongoInv, NEW k \in MongoStmt, Mongo!CursorGoes(k)
    PROVE  MongoRest'
<1>0. AsideInv /\ MongoRest
  BY DEF MongoInv
<1>1. /\ UNCHANGED <<stage, answer, rounds, inHand, stopReasons, foundOp, killed, cutOff, mongoUp, eager>>
      /\ cursors' = cursors \ {k} /\ asks[<<k, "cursor">>] = "running"
      /\ \A q \in MongoStops : asks'[q] = asks[q]
      /\ \A i \in MongoStmt : i # k => asks'[<<i, "cursor">>] = asks[<<i, "cursor">>]
  BY <1>0, MongoReleased
<1>2. MongoFlags'
  BY <1>0, <1>1 DEF MongoRest, MongoFlags
<1>3. MongoSets'
  BY <1>0, <1>1, MongoFacts DEF MongoRest, MongoSets, MongoFlags
<1>4. MongoRounds'
  BY <1>0, <1>1, MongoFacts DEF MongoRest, MongoFlags, MongoSets, MongoRounds
<1>5. MongoFound'
  BY <1>0, <1>1, MongoFacts DEF MongoRest, MongoFlags, MongoRounds, MongoFound, Asked, Active
<1>6. MongoCursors'
  BY <1>0, <1>1 DEF MongoRest, MongoFlags, MongoSets, MongoCursors, Asked, Active
<1>7. MongoAim'
  BY <1>0, <1>1 DEF MongoRest, MongoFlags, MongoSets, MongoFound, MongoAim, Underway, Asked, Active
<1> QED
  BY <1>2, <1>3, <1>4, <1>5, <1>6, <1>7 DEF MongoRest

\* ... searching for its operation ...
LEMMA MongoSearchesKeeps ==
    ASSUME MongoInv, NEW q \in MongoStops, Mongo!Searches(q)
    PROVE  MongoRest'
<1>0. AsideInv /\ MongoRest
  BY DEF MongoInv
<1>1. /\ asks[q] = "running"
      /\ foundOp' = [foundOp EXCEPT
           ![q] = IF stage[q[1]] = "running" THEN <<q[1], rounds[q[1]]>> ELSE <<>>]
      /\ UNCHANGED <<asks, stage, answer, rounds, cursors, inHand, stopReasons, killed, cutOff,
                     mongoUp, eager>>
  BY DEF Mongo!Searches, Mongo!second_vars
<1>2. MongoFlags'
  BY <1>0, <1>1 DEF MongoRest, MongoFlags
<1>3. MongoSets'
  BY <1>0, <1>1, MongoFacts DEF MongoRest, MongoSets, MongoFlags
<1>4. MongoRounds'
  BY <1>0, <1>1, MongoFacts DEF MongoRest, MongoFlags, MongoSets, MongoRounds
<1>5. MongoFound'
  <2>1. foundOp \in [MongoStops -> {none, <<>>} \cup (MongoStmt \X (1 .. Batches))]
    BY <1>0 DEF MongoRest, MongoFound
  <2>2. q[1] \in MongoStmt
    BY MongoFacts
  <2>3. stage[q[1]] = "running" => rounds[q[1]] \in 1 .. Batches
    BY <1>0, <2>2, MongoFacts DEF MongoRest, MongoRounds
  <2> DEFINE it == IF stage[q[1]] = "running" THEN <<q[1], rounds[q[1]]>> ELSE <<>>
  <2>4. it \in {none, <<>>} \cup (MongoStmt \X (1 .. Batches))
    BY <2>2, <2>3
  <2>5. \A k \in MongoStmt, n \in 1 .. Batches : it = <<k, n>> => k = q[1]
    BY MongoFacts
  <2>6. foundOp' = [foundOp EXCEPT ![q] = it] /\ asks' = asks /\ asks[q] # "new"
    BY <1>1
  <2> HIDE DEF it
  <2> QED
    BY <1>0, <2>1, <2>4, <2>5, <2>6 DEF MongoRest, MongoFound
<1>6. MongoCursors'
  BY <1>0, <1>1 DEF MongoRest, MongoFlags, MongoSets, MongoCursors, Asked, Active
<1>7. MongoAim'
  BY <1>0, <1>1 DEF MongoRest, MongoFlags, MongoSets, MongoFound, MongoAim, Underway, Asked, Active
<1> QED
  BY <1>2, <1>3, <1>4, <1>5, <1>6, <1>7 DEF MongoRest

\* ... killing it ...
LEMMA MongoStrikesKeeps ==
    ASSUME MongoInv, NEW q \in MongoStops, Mongo!KillActs(q)
    PROVE  MongoRest'
<1>0. AsideInv /\ MongoRest
  BY DEF MongoInv
<1>1. /\ UNCHANGED <<rounds, inHand, stopReasons, foundOp, cutOff, mongoUp, eager>>
      /\ foundOp[q] # none /\ asks[q] = "running" /\ asks'[q] = "done"
      /\ \A p \in MongoStops : p # q => asks'[p] = asks[p]
      /\ \A i \in MongoStmt : asks'[<<i, "cursor">>] = asks[<<i, "cursor">>]
      /\ LET hit == {k \in MongoStmt : stage[k] = "running" /\ foundOp[q] = <<k, rounds[k]>>} IN
         /\ killed' = killed \cup hit
         /\ stage' = [k \in MongoStmt |-> IF k \in hit THEN "answered" ELSE stage[k]]
         /\ answer' = [k \in MongoStmt |-> IF k \in hit THEN "error" ELSE answer[k]]
         /\ cursors' = cursors \ hit
  BY <1>0, MongoKills
<1>2. MongoFlags'
  BY <1>0, <1>1 DEF MongoRest, MongoFlags
<1>3. MongoSets'
  BY <1>0, <1>1, MongoFacts DEF MongoRest, MongoSets, MongoFlags
<1>4. MongoRounds'
  BY <1>0, <1>1, MongoFacts DEF MongoRest, MongoFlags, MongoSets, MongoRounds
<1>5. MongoFound'
  BY <1>0, <1>1, MongoFacts DEF MongoRest, MongoFlags, MongoRounds, MongoFound, Asked, Active
<1>6. MongoCursors'
  BY <1>0, <1>1 DEF MongoRest, MongoFlags, MongoSets, MongoCursors, Asked, Active
<1>7. MongoAim'
  BY <1>0, <1>1, MongoFacts DEF MongoRest, MongoFlags, MongoSets, MongoFound, MongoAim, Underway,
     Asked, Active
<1> QED
  BY <1>2, <1>3, <1>4, <1>5, <1>6, <1>7 DEF MongoRest

\* ... the second connection going on ...
LEMMA MongoMovesKeeps ==
    ASSUME MongoInv, Mongo!SecondMoves \/ Mongo!SessionCloses
    PROVE  MongoRest'
<1>0. AsideInv /\ MongoRest
  BY DEF MongoInv
<1>1. /\ UNCHANGED <<stage, answer, rounds, cursors, inHand, stopReasons, foundOp, killed, eager>>
      /\ \A j \in MongoJobs :
           asks'[j] = asks[j] \/ (asks[j] \in Asked /\ asks'[j] \in Asked \cup {"failed"})
      /\ mongoUp' \in BOOLEAN
      /\ \/ cutOff' = cutOff
         \/ /\ cutOff' = cutOff \cup {j \in MongoStmt : Underway(j)}
            /\ \E q \in MongoStops : asks[q] \in Asked
  BY MongoCosts
<1>2. MongoFlags'
  BY <1>0, <1>1, MongoFacts DEF MongoRest, MongoFlags
<1>3. MongoSets'
  BY <1>0, <1>1, MongoFacts DEF MongoRest, MongoSets, MongoFlags
<1>4. MongoRounds'
  BY <1>0, <1>1, MongoFacts DEF MongoRest, MongoFlags, MongoSets, MongoRounds
<1>5. MongoFound'
  <2>1. foundOp' = foundOp /\ \A q \in MongoStops : asks[q] # "new" => asks'[q] # "new"
    BY <1>1, MongoFacts DEF Asked, Active
  <2> QED
    BY <1>0, <2>1 DEF MongoRest, MongoFound
<1>6. MongoCursors'
  BY <1>0, <1>1, MongoFacts DEF MongoRest, MongoFlags, MongoSets, MongoCursors, Asked, Active
<1>7. MongoAim'
  BY <1>0, <1>1, MongoFacts DEF MongoRest, MongoFlags, MongoSets, MongoFound, MongoAim, Underway,
     Asked, Active
<1> QED
  BY <1>2, <1>3, <1>4, <1>5, <1>6, <1>7 DEF MongoRest

\* ... and losing a connection.
LEMMA MongoDropsKeeps ==
    ASSUME MongoInv, Mongo!MainDrops
    PROVE  MongoRest'
<1>0. AsideInv /\ MongoRest
  BY DEF MongoInv
<1>1. /\ mongoUp' = FALSE
      /\ UNCHANGED <<asks, stage, answer, rounds, cursors, inHand, stopReasons, foundOp, killed,
                     cutOff, eager>>
  BY DEF Mongo!MainDrops, Mongo!second_vars
<1>2. MongoFlags'
  BY <1>0, <1>1 DEF MongoRest, MongoFlags
<1>3. MongoSets'
  BY <1>0, <1>1, MongoFacts DEF MongoRest, MongoSets, MongoFlags
<1>4. MongoRounds'
  BY <1>0, <1>1, MongoFacts DEF MongoRest, MongoFlags, MongoSets, MongoRounds
<1>5. MongoFound'
  BY <1>0, <1>1, MongoFacts DEF MongoRest, MongoFlags, MongoRounds, MongoFound
<1>6. MongoCursors'
  BY <1>0, <1>1 DEF MongoRest, MongoFlags, MongoSets, MongoCursors
<1>7. MongoAim'
  BY <1>0, <1>1 DEF MongoRest, MongoFlags, MongoSets, MongoFound, MongoAim, Underway
<1> QED
  BY <1>2, <1>3, <1>4, <1>5, <1>6, <1>7 DEF MongoRest

\* A step of something else changes nothing of the session.
LEMMA MongoStays == MongoInv /\ UNCHANGED Mongo!vars => MongoInv'
<1> SUFFICES ASSUME MongoInv, UNCHANGED Mongo!vars PROVE MongoInv'
  OBVIOUS
<1>1. /\ UNCHANGED <<stage, answer, rounds, cursors, inHand, stopReasons, foundOp, killed, cutOff,
                     mongoUp, eager>>
      /\ UNCHANGED Mongo!second_vars
  BY DEF Mongo!vars
<1>2. AsideInv' /\ asks' = asks
  BY <1>1, AsideStays DEF MongoInv, Mongo!second_vars
<1>3. MongoFlags' /\ MongoSets' /\ MongoRounds'
  BY <1>1 DEF MongoInv, MongoRest, MongoFlags, MongoSets, MongoRounds
<1>4. MongoFound' /\ MongoCursors' /\ MongoAim'
  BY <1>1, <1>2 DEF MongoInv, MongoRest, MongoFound, MongoCursors, MongoAim, Underway
<1> QED
  BY <1>2, <1>3, <1>4 DEF MongoInv, MongoRest

\* Every step keeps the invariant of the MongoDB session.
LEMMA MongoKeeps == MongoInv /\ Mongo!Next => MongoInv'
<1> SUFFICES ASSUME MongoInv, Mongo!Next PROVE MongoInv'
  OBVIOUS
<1>1. AsideInv'
  BY MongoAsks, AsideKeeps, AsideStays DEF MongoInv
<1>2. MongoRest'
  <2>1. ASSUME NEW k \in MongoStmt,
               \/ Mongo!Execute(k) \/ Mongo!ServerTakes(k) \/ Mongo!ServerAnswers(k) \/ Mongo!Receives(k)
               \/ Mongo!Fails(k) \/ Mongo!Continues(k) \/ Mongo!Abandons(k) \/ Mongo!Cancel(k)
               \/ Mongo!Timeout(k) \/ Mongo!CursorGoes(k)
        PROVE  MongoRest'
    BY <2>1, MongoExecutesKeeps, MongoTakesKeeps, MongoAnswersKeeps, MongoReceivesKeeps,
       MongoLeavesKeeps, MongoStopsKeeps, MongoReleasesKeeps
  <2>2. ASSUME NEW q \in MongoStops, Mongo!Searches(q) \/ Mongo!KillActs(q) PROVE MongoRest'
    BY <2>2, MongoSearchesKeeps, MongoStrikesKeeps
  <2> QED
    BY <2>1, <2>2, MongoMovesKeeps, MongoDropsKeeps DEF Mongo!Next, Mongo!Kill
<1> QED
  BY <1>1, <1>2 DEF MongoInv

\* What the invariant says of the MongoDB session.
LEMMA MongoShows == MongoInv => Mongo!TypeOK /\ Mongo!CursorsGo /\ Mongo!OnlyOwnStopped
<1> SUFFICES ASSUME MongoInv PROVE Mongo!TypeOK /\ Mongo!CursorsGo /\ Mongo!OnlyOwnStopped
  OBVIOUS
<1>1. AsideInv /\ MongoFlags /\ MongoSets /\ MongoRounds /\ MongoFound /\ MongoCursors /\ MongoAim
  BY DEF MongoInv, MongoRest
<1>2. Mongo!TypeOK
  <2>1. rounds \in [MongoStmt -> 0 .. Batches]
    BY <1>1, MongoFacts DEF MongoRounds
  <2>2. Mongo!SecondTypeOK
    BY <1>1, AsideShows
  <2> QED
    BY <1>1, <2>1, <2>2 DEF Mongo!TypeOK, Mongo!Kill, MongoFlags, MongoSets, MongoFound
<1>3. Mongo!CursorsGo
  BY <1>1 DEF Mongo!CursorsGo, Mongo!Release, MongoSets, MongoCursors
<1>4. Mongo!OnlyOwnStopped
  BY <1>1 DEF Mongo!OnlyOwnStopped, MongoAim
<1> QED
  BY <1>2, <1>3, <1>4

\* For any statements, batches and stops: each cursor of a statement that is over is being released,
\* or could not be, or was never told of; and a kill strikes only what was to be stopped
\* (mongo-engine/src/session.ts).
THEOREM MongoInvariance ==
    Mongo!Spec => [](Mongo!TypeOK /\ Mongo!CursorsGo /\ Mongo!OnlyOwnStopped)
<1>1. Mongo!Init => MongoInv
  BY MongoBegins
<1>2. MongoInv /\ [Mongo!Next]_(Mongo!vars) => MongoInv'
  BY MongoKeeps, MongoStays
<1>3. MongoInv => Mongo!TypeOK /\ Mongo!CursorsGo /\ Mongo!OnlyOwnStopped
  BY MongoShows
<1> QED
  BY <1>1, <1>2, <1>3, PTL DEF Mongo!Spec

(* ------------------------------ all of them ------------------------------- *)

\* A behaviour of all of them begins as one of each ...
LEMMA PartsBegin ==
    Begins => /\ Init /\ Mysql!Init /\ Session!Init /\ Redis!Init /\ Mongo!Init /\ Second!SecondInit
              /\ Topology!Init /\ Pump!Init
  BY DEF Begins

\* ... and each step of it is a step of each, or one in which it stands still ...
LEMMA PartsStep ==
    [Steps]_<<part, vars, mysql, sessions, redis, mongo, spares, topology, pump>> =>
      /\ [Next]_vars /\ [Mysql!Next]_(Mysql!vars) /\ [Session!Next]_(Session!vars)
      /\ [Redis!Next]_(Redis!vars) /\ [Mongo!Next]_(Mongo!vars)
      /\ [Second!SecondNext]_(Second!second_vars)
      /\ [Topology!Next]_(Topology!vars) /\ [Pump!Next]_(Pump!vars)
<1> SUFFICES ASSUME [Steps]_<<part, vars, mysql, sessions, redis, mongo, spares, topology, pump>>
    PROVE  /\ Next \/ UNCHANGED vars
           /\ Mysql!Next \/ UNCHANGED Mysql!vars
           /\ Session!Next \/ UNCHANGED Session!vars
           /\ Redis!Next \/ UNCHANGED Redis!vars
           /\ Mongo!Next \/ UNCHANGED Mongo!vars
           /\ Second!SecondNext \/ UNCHANGED Second!second_vars
           /\ Topology!Next \/ UNCHANGED Topology!vars
           /\ Pump!Next \/ UNCHANGED Pump!vars
  OBVIOUS
<1>1. UNCHANGED mysql => UNCHANGED Mysql!vars
  BY DEF mysql, Mysql!vars
<1>2. UNCHANGED sessions => UNCHANGED Session!vars
  BY DEF sessions, Session!vars, Session!session
<1>3. UNCHANGED redis => UNCHANGED Redis!vars
  BY DEF redis, Redis!vars
<1>4. UNCHANGED mongo => UNCHANGED Mongo!vars
  BY DEF mongo, Mongo!vars, Mongo!second_vars
<1>5. UNCHANGED spares => UNCHANGED Second!second_vars
  BY DEF spares, Second!second_vars
<1>6. UNCHANGED topology => UNCHANGED Topology!vars
  BY DEF topology, Topology!vars, Topology!search, Topology!world
<1>7. UNCHANGED pump => UNCHANGED Pump!vars
  BY DEF pump, Pump!vars
<1>8. CASE UNCHANGED <<part, vars, mysql, sessions, redis, mongo, spares, topology, pump>>
  BY <1>1, <1>2, <1>3, <1>4, <1>5, <1>6, <1>7, <1>8
<1>9. CASE Steps
  <2>1. Next \/ UNCHANGED vars
    BY <1>9 DEF Steps
  <2>2. Mysql!Next \/ UNCHANGED Mysql!vars
    BY <1>9, <1>1 DEF Steps
  <2>3. Session!Next \/ UNCHANGED Session!vars
    BY <1>9, <1>2 DEF Steps
  <2>4. Redis!Next \/ UNCHANGED Redis!vars
    BY <1>9, <1>3 DEF Steps
  <2>5. Mongo!Next \/ UNCHANGED Mongo!vars
    BY <1>9, <1>4 DEF Steps
  <2>6. Second!SecondNext \/ UNCHANGED Second!second_vars
    BY <1>9, <1>5 DEF Steps
  <2>7. Topology!Next \/ UNCHANGED Topology!vars
    BY <1>9, <1>6 DEF Steps
  <2>8. Pump!Next \/ UNCHANGED Pump!vars
    BY <1>9, <1>7 DEF Steps
  <2> QED
    BY <2>1, <2>2, <2>3, <2>4, <2>5, <2>6, <2>7, <2>8
<1> QED
  BY <1>8, <1>9

\* ... so what is proved of each module is true of them together.
LEMMA EachIsItself ==
    Drivers =>
      /\ Spec /\ Mysql!Spec /\ Session!Spec /\ Mongo!Spec
      /\ Redis!Init /\ [][Redis!Next]_(Redis!vars)
      /\ Second!SecondInit /\ [][Second!SecondNext]_(Second!second_vars)
      /\ Topology!Init /\ [][Topology!Next]_(Topology!vars)
      /\ Pump!Init /\ [][Pump!Next]_(Pump!vars)
<1> QED
  BY PartsBegin, PartsStep, PTL DEF Drivers, Spec, Mysql!Spec, Session!Spec, Mongo!Spec

\* Together with the others, too, a PostgreSQL connection keeps its statements and answers in step
\* and a cancel strikes no statement but its own (TypeOK, InStep, OnlyOwnInterrupted).
THEOREM DriversKeepPostgres == Drivers => [](TypeOK /\ InStep /\ OnlyOwnInterrupted)
<1> QED
  BY EachIsItself, PostgresTyped, PostgresInStep, PostgresInterruptsItsOwn, PTL

\* For any constants of the drivers: statements and answers stay in step on MySQL and Redis
\* connections, buffers are bounded and nobody waits asleep, a MongoDB session forgets no cursor, and
\* the search for its server leaves nothing open (EachInStep).
THEOREM DriversStayInStep == Drivers => []EachInStep
<1>1. EachInStep <=>
        /\ Mysql!TypeOK /\ Mysql!OwnAnswers /\ Mysql!OneCommand
        /\ Mysql!PausedHasReader /\ Mysql!BufferBounded
        /\ Redis!TypeOK /\ Redis!RepliesAreOwn /\ Redis!FreeForTheNext
        /\ Mongo!TypeOK /\ Mongo!CursorsGo /\ Mongo!OnlyOwnStopped
        /\ Topology!TypeOK /\ Topology!NothingLeftOpen /\ Topology!PrimaryIsFound
        /\ Pump!TypeOK /\ Pump!NobodyWaitsAsleep /\ Pump!BufferBounded
  BY DEF EachInStep
<1>2. Mysql!Spec => [](Mysql!TypeOK /\ Mysql!OwnAnswers /\ Mysql!OneCommand /\ Mysql!PausedHasReader
                       /\ Mysql!BufferBounded)
  BY MysqlAssumption, Mysql!MysqlInvariance
<1> QED
  BY <1>1, <1>2, EachIsItself, RedisInvariance, MongoInvariance, TopologyInvariance,
     PumpInvariance, PTL

\* For any constants: the second connection of a session does one thing at a time, strikes and reads
\* what it was meant for, and is not made after the session was closed (SecondInTurn).
THEOREM DriversTakeTurns == Drivers => SecondInTurn
<1> QED
  BY EachIsItself, SessionInvariance, SessionClosed, SecondInvariance, SecondClosed,
     MongoTakesTurns,
     PTL DEF SecondInTurn
================================================================================
