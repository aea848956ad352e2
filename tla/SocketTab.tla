------------------------------ MODULE SocketTab ------------------------------
(* One WebSocket tab: the hook that owns its connections                       *)
(* (packages/ui/src/websocket/useWebSockets.ts), whose attempts carry a        *)
(* generation, over the desktop runtime (packages/api-client/src/websocket.ts) *)
(* and the sockets of the main process (apps/desktop/src/websocket.ts).        *)
(* Requests of the window are served when they are made; answers and events    *)
(* reach it later, in order.                                                   *)
EXTENDS Naturals, Sequences

CONSTANTS
    MaxAttempts,    \* bound: attempts to connect, each with a socket id of its own
    MaxUses,        \* bound: calls of disconnect(), forget() and closeAll()
    Retries         \* whether the request asks for automatic reconnects

\* Assumed of the constants.
SocketTabAssumption == MaxAttempts \in Nat \ {0} /\ MaxUses \in Nat /\ Retries \in BOOLEAN

Attempt == 1 .. MaxAttempts

VARIABLES
    phase,      \* each attempt in the window: new, building, asked, over
    genOf,      \* its generation
    socket,     \* its socket in the main process: none, opening, open, closing, closed
    out,        \* answers and events on their way to the window
    generation, \* generations: the current one, 0 when there is none
    conn,       \* connections: the attempt that is registered, 0 for none
    timer,      \* the generation the automatic reconnect was armed by, 0 for none
    status,     \* what the tab shows; none when the tab was closed
    uses,       \* calls made
    confused    \* history: the generation of an attempt at work came round again

vars == <<phase, genOf, socket, out, generation, conn, timer, status, uses, confused>>

Init ==
    /\ phase = [a \in Attempt |-> "new"]
    /\ genOf = [a \in Attempt |-> 0]
    /\ socket = [a \in Attempt |-> "none"]
    /\ out = <<>>
    /\ generation = 0 /\ conn = 0 /\ timer = 0
    /\ status = "none"
    /\ uses = 0 /\ confused = FALSE

Current(a) == generation = genOf[a]
Message(a, kind) == [of |-> a, kind |-> kind]
AtWork(a) == \/ phase[a] \in {"building", "asked"} \/ socket[a] \in {"opening", "open", "closing"}
             \/ \E i \in DOMAIN out : out[i].of = a

(* ------------------------------- the window ------------------------------- *)

\* nextGeneration(), which starts again from 1 after a forget().
Renumbered(n) ==
    /\ generation' = n
    /\ confused' = (confused \/ \E b \in Attempt : AtWork(b) /\ genOf[b] = n)

\* connect() with nothing registered, up to the building of the request, after from of the
\* generations, connections and sockets.
Attempts(from) ==
    \E a \in Attempt :
        /\ phase[a] = "new" /\ \A b \in Attempt : b < a => phase[b] # "new"
        /\ phase' = [phase EXCEPT ![a] = "building"]
        /\ genOf' = [genOf EXCEPT ![a] = from + 1]
        /\ Renumbered(from + 1)
        /\ status' = "connecting"
        /\ timer' = 0

Connect ==
    /\ status \notin {"connected", "connecting"} /\ conn = 0
    /\ Attempts(generation)
    /\ UNCHANGED <<socket, out, conn, uses>>

\* A generation may be missing while one was captured: none is 0, and none was captured as 0.
TimerFires ==
    /\ timer # 0
    /\ IF generation = timer /\ conn = 0
       THEN Attempts(generation)
       ELSE timer' = 0 /\ UNCHANGED <<phase, genOf, generation, status, confused>>
    /\ UNCHANGED <<socket, out, conn, uses>>

BuildFails(a) ==
    /\ phase[a] = "building"
    /\ phase' = [phase EXCEPT ![a] = "over"]
    /\ status' = IF Current(a) THEN "error" ELSE status
    /\ UNCHANGED <<genOf, socket, out, generation, conn, timer, uses, confused>>

\* The request is built and the main process is asked for a socket, unless it was retired.
Built(a) ==
    /\ phase[a] = "building"
    /\ IF Current(a)
       THEN /\ phase' = [phase EXCEPT ![a] = "asked"]
            /\ \/ socket' = [socket EXCEPT ![a] = "opening"] /\ out' = Append(out, Message(a, "made"))
               \/ out' = Append(out, Message(a, "refused")) /\ UNCHANGED socket
       ELSE phase' = [phase EXCEPT ![a] = "over"] /\ UNCHANGED <<socket, out>>
    /\ UNCHANGED <<genOf, generation, conn, timer, status, uses, confused>>

\* close() of a socket by its id.
Closed(a) == IF a # 0 /\ socket[a] \in {"opening", "open"}
             THEN [socket EXCEPT ![a] = "closing"] ELSE socket

\* Variant: the generation of the attempt is not looked at when its socket is there.
AlwaysRegistered ==
    /\ out # <<>> /\ Head(out).kind = "made"
    /\ LET a == Head(out).of IN
       /\ phase' = [phase EXCEPT ![a] = "over"]
       /\ conn' = a
    /\ out' = Tail(out)
    /\ UNCHANGED <<genOf, socket, generation, timer, status, uses, confused>>

\* connect() goes on: the socket is registered, or closed when nobody owns it any more.
TakeMade ==
    /\ out # <<>> /\ Head(out).kind = "made"
    /\ LET a == Head(out).of IN
       /\ phase' = [phase EXCEPT ![a] = "over"]
       /\ IF Current(a) THEN conn' = a /\ UNCHANGED socket
                        ELSE socket' = Closed(a) /\ UNCHANGED conn
    /\ out' = Tail(out)
    /\ UNCHANGED <<genOf, generation, timer, status, uses, confused>>

TakeRefused ==
    /\ out # <<>> /\ Head(out).kind = "refused"
    /\ phase' = [phase EXCEPT ![Head(out).of] = "over"]
    /\ status' = IF Current(Head(out).of) THEN "error" ELSE status
    /\ out' = Tail(out)
    /\ UNCHANGED <<genOf, socket, generation, conn, timer, uses, confused>>

\* The events open and error, of the current attempt.
TakeEvent ==
    /\ out # <<>> /\ Head(out).kind \in {"connected", "error"}
    /\ status' = IF Current(Head(out).of) THEN Head(out).kind ELSE status
    /\ out' = Tail(out)
    /\ UNCHANGED <<phase, genOf, socket, generation, conn, timer, uses, confused>>

\* The event close, of the current attempt: an unclean one is retried if the request asks.
TakeClose ==
    /\ out # <<>> /\ Head(out).kind \in {"ended", "broken"}
    /\ IF Current(Head(out).of)
       THEN /\ conn' = 0
            /\ IF Retries /\ Head(out).kind = "broken"
               THEN status' = "connecting" /\ timer' = generation
               ELSE status' = "disconnected" /\ UNCHANGED timer
       ELSE UNCHANGED <<conn, status, timer>>
    /\ out' = Tail(out)
    /\ UNCHANGED <<phase, genOf, socket, generation, uses, confused>>

\* disconnect(): the attempt is retired before its socket is closed.
Disconnect ==
    /\ uses < MaxUses /\ status \in {"connected", "connecting"}
    /\ uses' = uses + 1
    /\ Renumbered(generation + 1)
    /\ timer' = 0 /\ conn' = 0
    /\ socket' = Closed(conn)
    /\ status' = "disconnected"
    /\ UNCHANGED <<phase, genOf, out>>

Reconnect ==
    /\ uses < MaxUses /\ status \notin {"none", "connecting"}
    /\ uses' = uses + 1
    /\ Attempts(generation + 1)
    /\ conn' = 0 /\ socket' = Closed(conn)
    /\ UNCHANGED out

\* forget(): the tab is closed.
Forget ==
    /\ uses < MaxUses /\ status # "none"
    /\ uses' = uses + 1
    /\ timer' = 0 /\ generation' = 0 /\ conn' = 0
    /\ socket' = Closed(conn)
    /\ status' = "none"
    /\ UNCHANGED <<phase, genOf, out, confused>>

\* closeAll(): the workspace is left.
CloseAll ==
    /\ uses < MaxUses /\ status # "none"
    /\ uses' = uses + 1
    /\ timer' = 0 /\ conn' = 0
    /\ IF generation = 0 THEN UNCHANGED <<generation, confused>> ELSE Renumbered(generation + 1)
    /\ socket' = Closed(conn)
    /\ status' = "none"
    /\ UNCHANGED <<phase, genOf, out>>

(* ---------------------------- the main process ---------------------------- *)

\* A socket gets on from one state to another, which the window is told.
Socket(a, from, to, messages) ==
    /\ socket[a] = from
    /\ socket' = [socket EXCEPT ![a] = to]
    /\ out' = out \o messages
    /\ UNCHANGED <<phase, genOf, generation, conn, timer, status, uses, confused>>

Opens(a) == Socket(a, "opening", "open", <<Message(a, "connected")>>)
Fails(a) == \E from \in {"opening", "open", "closing"} :
                Socket(a, from, "closed", <<Message(a, "error"), Message(a, "broken")>>)
Breaks(a) == Socket(a, "open", "closed", <<Message(a, "broken")>>)
Ends(a) == \E from \in {"open", "closing"} : Socket(a, from, "closed", <<Message(a, "ended")>>)

Takes == TakeMade \/ TakeRefused \/ TakeEvent \/ TakeClose
Uses == Connect \/ TimerFires \/ Disconnect \/ Reconnect \/ Forget \/ CloseAll
Works(a) == BuildFails(a) \/ Built(a) \/ Opens(a) \/ Fails(a) \/ Breaks(a) \/ Ends(a)

Next == Takes \/ Uses \/ \E a \in Attempt : Works(a)

Spec == Init /\ [][Next]_vars

(* ------------------------------- properties ------------------------------ *)

TypeOK ==
    /\ phase \in [Attempt -> {"new", "building", "asked", "over"}]
    /\ genOf \in [Attempt -> Nat] /\ generation \in Nat
    /\ socket \in [Attempt -> {"none", "opening", "open", "closing", "closed"}]
    /\ conn \in Attempt \cup {0} /\ timer \in Nat
    /\ status \in {"none", "connecting", "connected", "disconnected", "error"}
    /\ uses \in 0 .. MaxUses /\ confused \in BOOLEAN

\* A socket nobody closes is the registered one, or its answer is still on the way; unless the
\* tab was closed and opened again while an attempt was at work, whose generation came round.
OneSocket ==
    confused \/ \A a \in Attempt :
        socket[a] \in {"opening", "open"} => a = conn \/ phase[a] = "asked"

\* useWebSockets.ts: a reconnect is never "scheduled for a socket the user had already closed":
\* the timer is of the current attempt, and nothing of it is open any more.
RetriesItsOwn ==
    confused \/ timer = 0 \/
    ( /\ timer = generation /\ conn = 0 /\ status = "connecting"
      /\ \A a \in Attempt : genOf[a] = timer => socket[a] \in {"none", "closed"} )

\* With nothing on its way the tab shows connected exactly while its socket is open.
ShowsWhatIs ==
    \/ confused \/ out # <<>>
    \/ \E a \in Attempt : phase[a] \in {"building", "asked"} \/ socket[a] = "opening"
    \/ status = "connected" <=> conn # 0 /\ socket[conn] = "open"

(* -------------------------- the inductive invariant ----------------------- *)

Kinds == {"made", "refused", "connected", "error", "ended", "broken"}
Messages == [of : Attempt, kind : Kinds]

\* What is on its way of each attempt; its answer comes first, and its close last.
told == [a \in Attempt |-> {k \in Kinds : \E i \in DOMAIN out : out[i] = Message(a, k)}]

\* The attempts at work, as AtWork has them.
working == {a \in Attempt : \/ phase[a] \in {"building", "asked"}
                            \/ socket[a] \in {"opening", "open", "closing"} \/ told[a] # {}}

Queued ==
    /\ out \in Seq(Messages)
    /\ \A i, j \in DOMAIN out : i < j /\ out[i].of = out[j].of =>
        out[i].kind \notin {"ended", "broken"} /\ out[j].kind \notin {"made", "refused"}

\* What an attempt has come to, and what the window is still to hear of it.
Heard ==
    \A a \in Attempt :
        /\ phase[a] = "new" <=> genOf[a] = 0
        /\ phase[a] \in {"new", "building"} => socket[a] = "none" /\ told[a] = {}
        /\ phase[a] = "asked" => socket[a] # "closing"
        /\ phase[a] = "asked" <=> told[a] \cap {"made", "refused"} # {}
        /\ "made" \in told[a] => socket[a] # "none"
        /\ "refused" \in told[a] => socket[a] = "none"
        /\ "connected" \in told[a] => socket[a] \notin {"none", "opening"}
        /\ told[a] \cap {"error", "ended", "broken"} # {} => socket[a] = "closed"
        /\ phase[a] = "asked" /\ socket[a] = "open" => "connected" \in told[a]
        /\ (phase[a] = "asked" \/ conn = a) /\ socket[a] = "closed" =>
              told[a] \cap {"ended", "broken"} # {}

Registered ==
    conn # 0 => /\ phase[conn] = "over" /\ genOf[conn] = generation
                /\ socket[conn] \in {"opening", "open", "closed"}

\* No two attempts at work have a generation in common, and the current one is registered once
\* it was answered.
Apart == \A a, b \in working : genOf[a] = genOf[b] => a = b
Owned == \A a \in working : Current(a) /\ phase[a] = "over" => conn = a

\* When a reconnect is due the attempt it is for has nothing left of it.
Armed ==
    timer # 0 => /\ timer = generation /\ conn = 0 /\ status = "connecting"
                 /\ \A a \in working : genOf[a] # timer

Shown ==
    /\ status = "connected" => conn # 0 /\ socket[conn] # "opening"
    /\ conn # 0 /\ socket[conn] = "open" => status = "connected" \/ "connected" \in told[conn]

Inv ==
    /\ TypeOK /\ Queued /\ Heard /\ Registered
    /\ confused \/ (Apart /\ Owned /\ Armed /\ Shown /\ OneSocket)
=============================================================================
