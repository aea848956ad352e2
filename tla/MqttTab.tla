------------------------------- MODULE MqttTab -------------------------------
(* One MQTT request: the hook that owns its connections                        *)
(* (packages/ui/src/mqtt/useMqtt.ts), whose attempts carry a generation, over  *)
(* the desktop runtime (packages/api-client/src/protocols/mqtt/runtime.ts) and *)
(* the clients of the main process (apps/desktop/src/mqtt.ts), which retry by  *)
(* themselves.  Requests of the window are served when they are made; answers  *)
(* and events reach it later, in order.  What is published and subscribed to   *)
(* is left out.                                                                *)
EXTENDS Naturals, Sequences

CONSTANTS
    MaxAttempts,    \* bound: attempts to connect, each with a connection id of its own
    MaxLeaves,      \* bound: calls of disconnect(), forget() and closeAll()
    MaxLosses       \* bound: sessions the broker or the network ends

\* Assumed of the constants.
MqttTabAssumption == MaxAttempts \in Nat \ {0} /\ MaxLeaves \in Nat /\ MaxLosses \in Nat

Attempt == 1 .. MaxAttempts

VARIABLES
    period,     \* reconnectPeriodMs of the request, as whether a client retries
    phase,      \* each attempt in the window: new, building, asked, over
    genOf,      \* its generation
    heard,      \* the attempts whose events still have a listener
    client,     \* its client in the main process: none, opening, open, retrying, ending, closed
    out,        \* answers and events on their way to the window
    generation, \* generations
    conn,       \* connections: the attempt that is registered, 0 for none
    leaving,    \* the attempt whose end disconnect() awaits, 0 for none
    status,     \* what the request shows; none when it was forgotten
    leaves, losses,
    hasty,      \* history: disconnect() went on when another attempt had been made
    missed      \* history: closeAll() came while an attempt was not registered yet

vars == <<period, phase, genOf, heard, client, out, generation, conn, leaving, status, leaves, losses,
          hasty, missed>>

noted == <<hasty, missed>>

Init ==
    /\ period \in BOOLEAN
    /\ phase = [a \in Attempt |-> "new"]
    /\ genOf = [a \in Attempt |-> 0]
    /\ heard = {}
    /\ client = [a \in Attempt |-> "none"]
    /\ out = <<>>
    /\ generation = 0 /\ conn = 0 /\ leaving = 0
    /\ status = "none"
    /\ leaves = 0 /\ losses = 0
    /\ hasty = FALSE /\ missed = FALSE

Current(a) == generation = genOf[a]
Message(a, kind) == [of |-> a, kind |-> kind]

(* ---------------------------- the main process ---------------------------- *)

\* A client gets on from one state to another, which the window is told.
Client(a, from, to, messages) ==
    /\ client[a] = from
    /\ client' = [client EXCEPT ![a] = to]
    /\ out' = out \o messages
    /\ UNCHANGED <<period, phase, genOf, heard, generation, conn, leaving, status, leaves, noted>>

Accepted(a) ==
    /\ Client(a, "opening", "open", <<Message(a, "connected"), Message(a, "made")>>)
    /\ UNCHANGED losses

\* The first error of an attempt ends it, whether it would retry or not; so does a close if not.
Refused(a) ==
    /\ \/ Client(a, "opening", "closed",
                 <<Message(a, "error"), Message(a, "disconnected"), Message(a, "refused")>>)
       \/ ~period /\ Client(a, "opening", "closed", <<Message(a, "disconnected"), Message(a, "refused")>>)
    /\ UNCHANGED losses

Lost(a) ==
    /\ losses < MaxLosses /\ losses' = losses + 1
    /\ IF period THEN Client(a, "open", "retrying", <<>>)
                 ELSE Client(a, "open", "closed", <<Message(a, "disconnected")>>)

\* The events reconnect and connect of a client that retries; an event is there before the next
\* period is over.
Retries(a) ==
    /\ \A i \in DOMAIN out : out[i] # Message(a, "connecting")
    /\ Client(a, "retrying", "retrying", <<Message(a, "connecting")>>)
    /\ UNCHANGED losses
BackAgain(a) == Client(a, "retrying", "open", <<Message(a, "connected")>>) /\ UNCHANGED losses

\* disconnect(): the client is told to end, and has ended, gracefully or not.
EndAsked(a, after) ==
    IF a # 0 /\ client[a] \in {"opening", "open", "retrying"}
    THEN /\ client' = [client EXCEPT ![a] = "ending"]
         /\ out' = Append(out, Message(a, "disconnecting"))
    ELSE out' = out \o after /\ UNCHANGED client

Ended(a) ==
    /\ Client(a, "ending", "closed",
              IF leaving = a THEN <<Message(a, "disconnected"), Message(a, "left")>>
                             ELSE <<Message(a, "disconnected")>>)
    /\ UNCHANGED losses

(* ------------------------------- the window ------------------------------- *)

\* connect(), up to the building of the request.
Connect(a) ==
    /\ phase[a] = "new" /\ \A b \in Attempt : b < a => phase[b] # "new"
    /\ status \notin {"connecting", "connected", "disconnecting"}
    /\ phase' = [phase EXCEPT ![a] = "building"]
    /\ generation' = generation + 1
    /\ genOf' = [genOf EXCEPT ![a] = generation + 1]
    /\ status' = "connecting"
    /\ UNCHANGED <<period, heard, client, out, conn, leaving, leaves, losses, noted>>

BuildFails(a) ==
    /\ phase[a] = "building"
    /\ phase' = [phase EXCEPT ![a] = "over"]
    /\ status' = IF Current(a) THEN "error" ELSE status
    /\ UNCHANGED <<period, genOf, heard, client, out, generation, conn, leaving, leaves, losses, noted>>

\* The main process is asked for a client, even by an attempt that was retired.
Built(a) ==
    /\ phase[a] = "building"
    /\ phase' = [phase EXCEPT ![a] = "asked"]
    /\ heard' = heard \cup {a}
    /\ client' = [client EXCEPT ![a] = "opening"]
    /\ out' = Append(out, Message(a, "connecting"))
    /\ UNCHANGED <<period, genOf, generation, conn, leaving, status, leaves, losses, noted>>

\* Events.  The subscriptions of the request would be made at "connected", by the connection
\* that is registered: that of an attempt is, only after its answer.
TakeStatus ==
    /\ out # <<>> /\ Head(out).kind \in {"connecting", "connected", "disconnecting"}
    /\ status' = IF Head(out).of \in heard /\ Current(Head(out).of) THEN Head(out).kind ELSE status
    /\ out' = Tail(out)
    /\ UNCHANGED <<period, phase, genOf, heard, client, generation, conn, leaving, leaves, losses, noted>>

TakeError ==
    /\ out # <<>> /\ Head(out).kind = "error"
    /\ out' = Tail(out)
    /\ UNCHANGED <<period, phase, genOf, heard, client, generation, conn, leaving, status, leaves, losses, noted>>

TakeDisconnected ==
    /\ out # <<>> /\ Head(out).kind = "disconnected"
    /\ LET a == Head(out).of IN
       IF a \in heard /\ Current(a)
       THEN conn' = 0 /\ status' = IF status = "error" THEN status ELSE "disconnected"
       ELSE UNCHANGED <<conn, status>>
    /\ heard' = heard \ {Head(out).of}
    /\ out' = Tail(out)
    /\ UNCHANGED <<period, phase, genOf, client, generation, leaving, leaves, losses, noted>>

\* Variant: an attempt that was retired is dropped, and its session forgotten.
MadeForNobody ==
    /\ out # <<>> /\ Head(out).kind = "made"
    /\ LET a == Head(out).of IN
       /\ phase' = [phase EXCEPT ![a] = "over"]
       /\ conn' = IF Current(a) THEN a ELSE conn
    /\ out' = Tail(out)
    /\ UNCHANGED <<period, genOf, heard, client, generation, leaving, status, leaves, losses, noted>>

\* connect() goes on: the session is registered, or closed when nobody owns it any more.
TakeMade ==
    /\ out # <<>> /\ Head(out).kind = "made"
    /\ LET a == Head(out).of IN
       /\ phase' = [phase EXCEPT ![a] = "over"]
       /\ IF Current(a)
          THEN conn' = a /\ out' = Tail(out) /\ UNCHANGED client
          ELSE /\ UNCHANGED conn
               /\ IF client[a] \in {"opening", "open", "retrying"}
                  THEN /\ client' = [client EXCEPT ![a] = "ending"]
                       /\ out' = Append(Tail(out), Message(a, "disconnecting"))
                  ELSE out' = Tail(out) /\ UNCHANGED client
    /\ UNCHANGED <<period, genOf, heard, generation, leaving, status, leaves, losses, noted>>

TakeRefused ==
    /\ out # <<>> /\ Head(out).kind = "refused"
    /\ LET a == Head(out).of IN
       /\ phase' = [phase EXCEPT ![a] = "over"]
       /\ heard' = heard \ {a}
       /\ status' = IF Current(a) THEN "error" ELSE status
    /\ out' = Tail(out)
    /\ UNCHANGED <<period, genOf, client, generation, conn, leaving, leaves, losses, noted>>

\* disconnect(), which the URL bar offers while connected.
Disconnect ==
    /\ leaves < MaxLeaves /\ status = "connected" /\ leaving = 0
    /\ leaves' = leaves + 1
    /\ IF conn = 0
       THEN status' = "disconnected" /\ hasty' = TRUE /\ UNCHANGED <<client, out, leaving>>
       ELSE /\ status' = "disconnecting" /\ leaving' = conn
            /\ EndAsked(conn, <<Message(conn, "left")>>)
            /\ UNCHANGED hasty
    /\ UNCHANGED <<period, phase, genOf, heard, generation, conn, losses, missed>>

\* disconnect() goes on, whatever was connected in the meantime.
TakeLeft ==
    /\ out # <<>> /\ Head(out).kind = "left"
    /\ leaving' = 0 /\ conn' = 0
    /\ status' = "disconnected"
    /\ hasty' = (hasty \/ ~Current(Head(out).of))
    /\ out' = Tail(out)
    /\ UNCHANGED <<period, phase, genOf, heard, client, generation, leaves, losses, missed>>

\* forget(): the tab is closed.
Forgotten ==
    /\ generation' = generation + 1
    /\ conn' = 0
    /\ EndAsked(conn, <<>>)
    /\ status' = "none"

Forget ==
    /\ leaves < MaxLeaves /\ status # "none"
    /\ leaves' = leaves + 1
    /\ Forgotten
    /\ UNCHANGED <<period, phase, genOf, heard, leaving, losses, noted>>

\* closeAll() forgets what is registered, and the records are cleared: the workspace is left.
CloseAll ==
    /\ leaves < MaxLeaves /\ status # "none"
    /\ leaves' = leaves + 1
    /\ IF conn # 0
       THEN Forgotten
       ELSE status' = "none" /\ UNCHANGED <<generation, conn, client, out>>
    /\ missed' = (missed \/ ( /\ conn = 0
                             /\ \E a \in Attempt : phase[a] \in {"building", "asked"} /\ Current(a) ))
    /\ UNCHANGED <<period, phase, genOf, heard, leaving, losses, hasty>>

Takes == TakeStatus \/ TakeError \/ TakeDisconnected \/ TakeMade \/ TakeRefused \/ TakeLeft
Leaves == Disconnect \/ Forget \/ CloseAll
Works(a) ==
    \/ Connect(a) \/ BuildFails(a) \/ Built(a)
    \/ Accepted(a) \/ Refused(a) \/ Lost(a) \/ Retries(a) \/ BackAgain(a) \/ Ended(a)

Next == Takes \/ Leaves \/ \E a \in Attempt : Works(a)

Spec == Init /\ [][Next]_vars

(* ------------------------------- properties ------------------------------ *)

TypeOK ==
    /\ period \in BOOLEAN
    /\ phase \in [Attempt -> {"new", "building", "asked", "over"}]
    /\ genOf \in [Attempt -> Nat] /\ generation \in Nat
    /\ heard \subseteq Attempt
    /\ client \in [Attempt -> {"none", "opening", "open", "retrying", "ending", "closed"}]
    /\ conn \in Attempt \cup {0} /\ leaving \in Attempt \cup {0}
    /\ status \in {"none", "connecting", "connected", "disconnecting", "disconnected", "error"}
    /\ leaves \in 0 .. MaxLeaves /\ losses \in 0 .. MaxLosses /\ {hasty, missed} \subseteq BOOLEAN

\* A client nobody ends is the registered one, or its answer is still to come; unless
\* disconnect() went on over another attempt, or closeAll() missed one.
OneSession ==
    hasty \/ missed \/ \A a \in Attempt :
        client[a] \in {"opening", "open", "retrying"} => a = conn \/ phase[a] = "asked"

AtRest ==
    /\ out = <<>> /\ leaving = 0
    /\ \A a \in Attempt : phase[a] \notin {"building", "asked"} /\ client[a] \notin {"ending", "retrying"}

\* At rest the request shows connected exactly while its session is open, unless disconnect()
\* went on over another attempt or closeAll() missed one.
ShowsWhatIs ==
    AtRest => hasty \/ missed \/ (status = "connected" <=> conn # 0 /\ client[conn] = "open")

(* -------------------------- the inductive invariant ----------------------- *)

Kinds == {"connecting", "connected", "made", "error", "disconnected", "refused", "disconnecting", "left"}
Messages == [of : Attempt, kind : Kinds]

\* What is on its way of each attempt.  Its answer is its only one, and no end of it is told
\* before the answer that it was made.
told == [a \in Attempt |-> {k \in Kinds : \E i \in DOMAIN out : out[i] = Message(a, k)}]
Never == ({"made", "refused"} \X {"made", "refused"}) \cup {<<"disconnected", "made">>}

Queued ==
    /\ out \in Seq(Messages)
    /\ \A i, j \in DOMAIN out : i < j /\ out[i].of = out[j].of => <<out[i].kind, out[j].kind>> \notin Never

\* What an attempt has come to, and what the window is still to hear of it.
Heard ==
    \A a \in Attempt :
        /\ phase[a] = "new" <=> genOf[a] = 0
        /\ client[a] = "none" => told[a] = {}
        /\ phase[a] \in {"new", "building"} => client[a] = "none"
        /\ client[a] = "opening" => phase[a] = "asked" /\ told[a] \subseteq {"connecting"}
        /\ phase[a] = "asked" => /\ client[a] \in {"opening", "open", "retrying", "closed"}
                                 /\ client[a] = "opening" \/ told[a] \cap {"made", "refused"} # {}
        /\ told[a] \cap {"made", "refused"} # {} => phase[a] = "asked"
        /\ "made" \in told[a] => client[a] # "opening"
        /\ told[a] \cap {"refused", "disconnected"} # {} => client[a] = "closed"
        /\ "left" \in told[a] => phase[a] = "over" /\ client[a] \in {"ending", "closed"}

Registered == conn # 0 => phase[conn] = "over" /\ client[conn] # "none"

\* Generations are not used twice.
Numbered ==
    \A a \in Attempt :
        /\ genOf[a] <= generation
        /\ \A b \in Attempt : genOf[a] = genOf[b] /\ genOf[a] # 0 => a = b

\* What may become, or is, the registered session is the current one, and is not given up.
Underway(a) == phase[a] = "building" \/ client[a] = "opening" \/ "made" \in told[a] \/ conn = a
Kept ==
    /\ conn # 0 => Current(conn)
    /\ \A a \in Attempt : Current(a) /\ Underway(a) => status \in {"connecting", "connected", "disconnecting"}

Inv ==
    /\ TypeOK /\ Queued /\ Heard /\ Registered /\ Numbered
    /\ hasty \/ missed \/ (Kept /\ OneSession)
=============================================================================
