----------------------------- MODULE SshTerminal -----------------------------
(* One SSH terminal tab: the manager of the main process                       *)
(* (apps/desktop/src/ssh/sessions.ts), whose attempts to connect carry a       *)
(* generation, and the hook of the window that shows the session and asks for  *)
(* it (packages/ui/src/ssh/useSsh.ts).  A request of the window is served when *)
(* it is made; events and answers reach the window later, in order.            *)
EXTENDS Naturals, Sequences

CONSTANTS
    MaxAttempts,    \* bound: times the main process is asked to connect
    Call            \* bound: the calls of open, reconnect, disconnect and close

\* Assumed of the constants.
SshAssumption == MaxAttempts \in Nat \ {0} /\ 0 \notin Call

Attempt == 1 .. MaxAttempts

VARIABLES
    phase,      \* each attempt: new, opening, shell, live, over
    startedBy,  \* the call that started it, 0 before
    genOf,      \* its generation
    generation, \* generations: the current one, 0 when the window's are dropped
    session,    \* the attempt whose session is registered, 0 for none
    client,     \* the attempts whose SSH client is open
    out,        \* events and answers on their way to the window
    call,       \* each call: new, releasing, leaving, closing, starting, done
    tab,        \* the tab: none, open, closed
    status,     \* the status it shows
    gone,       \* the window is gone
    stale,      \* history: an attempt failed after another had taken its place
    orphaned    \* history: a tab was closed under a connect that was not called off

vars == <<phase, startedBy, genOf, generation, session, client, out, call, tab, status, gone, stale,
          orphaned>>

Init ==
    /\ phase = [a \in Attempt |-> "new"]
    /\ startedBy = [a \in Attempt |-> 0]
    /\ genOf = [a \in Attempt |-> 0]
    /\ generation = 0 /\ session = 0
    /\ client = {} /\ out = <<>>
    /\ call = [c \in Call |-> "new"]
    /\ tab = "none" /\ status = "disconnected"
    /\ gone = FALSE /\ stale = FALSE /\ orphaned = FALSE

(* ---------------------------- the main process ---------------------------- *)

Status(s) == [kind |-> "status", status |-> s]
Ended == Status("disconnected")
Answer(c, ok) == [kind |-> "answer", call |-> c, ok |-> ok]

Current(a) == generation = genOf[a]

\* sendTo(): nothing is sent to a window that is gone.
Send(messages) == out' = IF gone THEN <<>> ELSE out \o messages

\* disconnect(): what is registered is closed, what is under way is retired.
LetGo(after) ==
    /\ generation' = generation + 1
    /\ session' = 0
    /\ client' = client \ {session}
    /\ Send((IF session = 0 THEN <<>> ELSE <<Status("disconnecting"), Ended>>) \o after)

\* connect(), up to the handshake.
ConnectFor(c, a) ==
    /\ phase[a] = "new" /\ \A b \in Attempt : b < a => phase[b] # "new"
    /\ phase' = [phase EXCEPT ![a] = "opening"]
    /\ startedBy' = [startedBy EXCEPT ![a] = c]
    /\ genOf' = [genOf EXCEPT ![a] = generation + 1]

\* The handshake fails, by its time limit if need be.
OpenFails(a) ==
    /\ phase[a] = "opening"
    /\ phase' = [phase EXCEPT ![a] = "over"]
    /\ Send((IF Current(a) THEN <<Status("error"), Ended>> ELSE <<>>) \o <<Answer(startedBy[a], FALSE)>>)
    /\ stale' = (stale \/ ~Current(a))
    /\ UNCHANGED <<startedBy, genOf, generation, session, client, call, tab, status, gone, orphaned>>

\* Variant: an attempt registers its session whatever happened in the meantime.
OpenedAnyway(a) ==
    /\ phase[a] = "opening"
    /\ phase' = [phase EXCEPT ![a] = "shell"]
    /\ session' = a /\ client' = client \cup {a}
    /\ UNCHANGED <<startedBy, genOf, generation, out, call, tab, status, gone, stale, orphaned>>

\* The handshake is over; an attempt that was retired is torn down.
Opened(a) ==
    /\ phase[a] = "opening"
    /\ IF Current(a)
       THEN /\ phase' = [phase EXCEPT ![a] = "shell"]
            /\ session' = a /\ client' = client \cup {a}
            /\ UNCHANGED out
       ELSE /\ phase' = [phase EXCEPT ![a] = "over"]
            /\ Send(<<Answer(startedBy[a], TRUE)>>)
            /\ UNCHANGED <<session, client>>
    /\ UNCHANGED <<startedBy, genOf, generation, call, tab, status, gone, stale, orphaned>>

ShellOpens(a) ==
    /\ phase[a] = "shell" /\ a \in client
    /\ phase' = [phase EXCEPT ![a] = "live"]
    /\ Send(<<Status("connected"), Answer(startedBy[a], TRUE)>>)
    /\ UNCHANGED <<startedBy, genOf, generation, session, client, call, tab, status, gone, stale,
                   orphaned>>

\* The server refuses the shell, or its client was closed.
ShellFails(a) ==
    /\ phase[a] = "shell"
    /\ phase' = [phase EXCEPT ![a] = "over"]
    /\ session' = IF session = a THEN 0 ELSE session
    /\ client' = client \ {a}
    /\ Send((IF Current(a) THEN <<Status("error"), Ended>> ELSE <<>>) \o <<Answer(startedBy[a], FALSE)>>)
    /\ stale' = (stale \/ ~Current(a))
    /\ UNCHANGED <<startedBy, genOf, generation, call, tab, status, gone, orphaned>>

\* teardown(): the connection or the shell ends.
Lost(a) ==
    /\ a \in client /\ session = a
    /\ phase' = [phase EXCEPT ![a] = IF @ = "live" THEN "over" ELSE @]
    /\ session' = 0 /\ client' = client \ {a}
    /\ \E first \in {Status("error"), Ended} : Send(<<first, Ended>>)
    /\ UNCHANGED <<startedBy, genOf, generation, call, tab, status, gone, stale, orphaned>>

\* disposeForSender(): the window is destroyed.
WindowGoes ==
    /\ ~gone
    /\ gone' = TRUE
    /\ session' = 0 /\ client' = client \ {session} /\ generation' = 0
    /\ out' = <<>> /\ call' = [c \in Call |-> "done"]
    /\ tab' = "closed"
    /\ UNCHANGED <<phase, startedBy, genOf, status, stale, orphaned>>

(* ------------------------------- the window ------------------------------- *)

\* Which of the calls is made next does not matter.
Next1(c) == ~gone /\ call[c] = "new" /\ \A d \in Call : d < c => call[d] # "new"

Started(c) ==
    /\ \E a \in Attempt : ConnectFor(c, a)
    /\ LetGo(<<Status("connecting")>>)
    /\ call' = [call EXCEPT ![c] = "starting"]

\* open(), for a profile without a tab.
Open(c) ==
    /\ Next1(c) /\ tab = "none"
    /\ tab' = "open" /\ status' = "connecting"
    /\ Started(c)
    /\ UNCHANGED <<gone, stale, orphaned>>

\* reconnect(), which the toolbar always offers.
Reconnect(c) ==
    /\ Next1(c) /\ tab = "open"
    /\ LetGo(<<Answer(c, TRUE)>>)
    /\ call' = [call EXCEPT ![c] = "releasing"]
    /\ UNCHANGED <<phase, startedBy, genOf, tab, status, gone, stale, orphaned>>

\* disconnect(), one at a time, as a button and as the first half of close().
Disconnects(c, as) ==
    /\ Next1(c) /\ tab = "open" /\ status # "disconnecting"
    /\ status' = "disconnecting"
    /\ LetGo(<<Answer(c, TRUE)>>)
    /\ call' = [call EXCEPT ![c] = as]
    /\ UNCHANGED <<phase, startedBy, genOf, tab, gone, stale, orphaned>>

Disconnect(c) == status \in {"connected", "connecting"} /\ Disconnects(c, "leaving")
CloseTab(c) == Disconnects(c, "closing")

\* close() while the tab is disconnecting already, if only because connect() of a second
\* reconnect closed the session of the first.
CloseAtOnce(c) ==
    /\ Next1(c) /\ tab = "open" /\ status = "disconnecting"
    /\ tab' = "closed"
    /\ call' = [call EXCEPT ![c] = "done"]
    /\ orphaned' = (orphaned \/ \E d \in Call : call[d] = "starting")
    /\ UNCHANGED <<phase, startedBy, genOf, generation, session, client, out, status, gone, stale>>

\* patchSession() of a session that is known.
Shows(s) == status' = IF tab = "open" THEN s ELSE status

TakeStatus ==
    /\ out # <<>> /\ Head(out).kind = "status"
    /\ Shows(Head(out).status)
    /\ out' = Tail(out)
    /\ UNCHANGED <<phase, startedBy, genOf, generation, session, client, call, tab, gone, stale,
                   orphaned>>

Answered(c, now) == out # <<>> /\ Head(out).kind = "answer" /\ Head(out).call = c /\ call[c] = now

\* Variant: an answer without an error is taken for a live shell.
TakenForConnected(c) ==
    /\ Answered(c, "starting")
    /\ Shows(IF Head(out).ok THEN "connected" ELSE "error")
    /\ out' = Tail(out)
    /\ call' = [call EXCEPT ![c] = "done"]
    /\ UNCHANGED <<phase, startedBy, genOf, generation, session, client, tab, gone, stale, orphaned>>

\* start() goes on: a failure is shown, whatever the tab shows by now.
TakeStarted(c) ==
    /\ Answered(c, "starting")
    /\ IF Head(out).ok THEN UNCHANGED status ELSE Shows("error")
    /\ out' = Tail(out)
    /\ call' = [call EXCEPT ![c] = "done"]
    /\ UNCHANGED <<phase, startedBy, genOf, generation, session, client, tab, gone, stale, orphaned>>

TakeLeft(c) ==
    /\ Answered(c, "leaving")
    /\ Shows("disconnected")
    /\ out' = Tail(out)
    /\ call' = [call EXCEPT ![c] = "done"]
    /\ UNCHANGED <<phase, startedBy, genOf, generation, session, client, tab, gone, stale, orphaned>>

TakeClosed(c) ==
    /\ Answered(c, "closing")
    /\ tab' = "closed"
    /\ out' = Tail(out)
    /\ call' = [call EXCEPT ![c] = "done"]
    /\ UNCHANGED <<phase, startedBy, genOf, generation, session, client, status, gone, stale, orphaned>>

\* reconnect() goes on.
TakeReleased(c) ==
    /\ Answered(c, "releasing")
    /\ Shows("connecting")
    /\ \E a \in Attempt : ConnectFor(c, a)
    /\ generation' = generation + 1
    /\ session' = 0 /\ client' = client \ {session}
    /\ out' = Tail(out) \o (IF session = 0 THEN <<>> ELSE <<Status("disconnecting"), Ended>>)
                        \o <<Status("connecting")>>
    /\ call' = [call EXCEPT ![c] = "starting"]
    /\ orphaned' = (orphaned \/ tab = "closed" \/ \E d \in Call : call[d] = "closing")
    /\ UNCHANGED <<tab, gone, stale>>

Works(a) == OpenFails(a) \/ Opened(a) \/ ShellOpens(a) \/ ShellFails(a) \/ Lost(a)

Uses(c) ==
    \/ Open(c) \/ Reconnect(c) \/ Disconnect(c) \/ CloseTab(c) \/ CloseAtOnce(c)
    \/ TakeStarted(c) \/ TakeLeft(c) \/ TakeClosed(c) \/ TakeReleased(c)

Next == (\E a \in Attempt : Works(a)) \/ (\E c \in Call : Uses(c)) \/ TakeStatus \/ WindowGoes

Spec == Init /\ [][Next]_vars

(* ------------------------------- properties ------------------------------ *)

TypeOK ==
    /\ phase \in [Attempt -> {"new", "opening", "shell", "live", "over"}]
    /\ startedBy \in [Attempt -> Call \cup {0}]
    /\ genOf \in [Attempt -> Nat] /\ generation \in Nat
    /\ session \in Attempt \cup {0} /\ client \subseteq Attempt
    /\ call \in [Call -> {"new", "releasing", "leaving", "closing", "starting", "done"}]
    /\ tab \in {"none", "open", "closed"}
    /\ status \in {"connecting", "connected", "disconnecting", "disconnected", "error"}
    /\ {gone, stale, orphaned} \subseteq BOOLEAN

\* There is one shell at most, it is the one of the last attempt, and none is left of a tab
\* that was closed or a window that is gone, unless a reconnect was under way.
OneShell ==
    /\ client = {session} \ {0}
    /\ session # 0 => Current(session) /\ \A a \in Attempt : genOf[a] <= genOf[session]
    /\ session # 0 /\ tab = "closed" => orphaned

\* Nothing is under way any more.
AtRest ==
    /\ out = <<>> /\ ~gone /\ \A c \in Call : call[c] \in {"new", "done"}
    /\ \A a \in Attempt : phase[a] \notin {"opening", "shell"}

\* At rest the tab shows connected while its shell lives and no longer, unless an attempt
\* failed after another had taken its place.
ShowsWhatIs ==
    AtRest /\ tab = "open" =>
        /\ status \in {"connected", "disconnected", "error"}
        /\ status = "connected" => session # 0
        /\ session # 0 /\ ~stale => status = "connected"

(* -------------------------- the inductive invariant ----------------------- *)

Statuses == {"connecting", "connected", "disconnecting", "disconnected", "error"}
Messages == {Status(s) : s \in Statuses} \cup {Answer(c, ok) : c \in Call, ok \in BOOLEAN}

IsAnswer(m, c) == m.kind = "answer" /\ m.call = c
Answering(q, c) == \E i \in DOMAIN q : IsAnswer(q[i], c)
Disconnecting(q) == \E i \in DOMAIN q : q[i] = Status("disconnecting")

\* The answer to c is still to come, and before it the news that its shell is there, after which
\* the tab is told of no disconnect.
Connecting(q, c) ==
    \E n \in DOMAIN q :
        /\ q[n] = Status("connected")
        /\ \A i \in DOMAIN q : i > n => q[i] # Status("disconnecting")
        /\ \A i \in DOMAIN q : i < n => ~IsAnswer(q[i], c)

\* A call is answered once.
AnsweredOnce(q) ==
    \A i, j \in DOMAIN q : i < j /\ q[i].kind = "answer" => ~IsAnswer(q[j], q[i].call)

Queued == out \in Seq(Messages) /\ AnsweredOnce(out)

\* An attempt has a call and a generation of its own.
Numbered ==
    \A a \in Attempt :
        /\ phase[a] = "new" <=> genOf[a] = 0
        /\ phase[a] = "new" <=> startedBy[a] = 0
        /\ gone \/ genOf[a] <= generation
        /\ \A b \in Attempt : genOf[a] # 0 /\ genOf[a] = genOf[b] => a = b
        /\ \A b \in Attempt : startedBy[a] # 0 /\ startedBy[a] = startedBy[b] => a = b

Registered ==
    /\ client = {session} \ {0}
    /\ session # 0 => Current(session) /\ phase[session] \in {"shell", "live"}
    /\ gone => out = <<>> /\ generation = 0 /\ session = 0

\* What a call waits for.
Awaited ==
    gone \/
    /\ \A c \in Call : /\ Answering(out, c) => call[c] \notin {"new", "done"}
                       /\ tab = "none" => call[c] = "new"
                       /\ call[c] \notin {"starting", "done"} => \A a \in Attempt : startedBy[a] # c
    /\ \A a \in Attempt : phase[a] \in {"opening", "shell"} =>
           call[startedBy[a]] = "starting" /\ ~Answering(out, startedBy[a])

\* Nothing starts under a tab that is closed, or that will be.
Closed ==
    orphaned \/ ((tab = "closed" \/ \E c \in Call : call[c] = "closing") =>
                    session = 0 /\ \A a \in Attempt : phase[a] = "opening" => ~Current(a))

\* The tab of a live shell shows that it is disconnecting only until its call is answered.
Shown ==
    tab = "open" /\ session # 0 /\ phase[session] = "live" =>
        \/ status # "disconnecting" /\ ~Disconnecting(out)
        \/ call[startedBy[session]] = "starting" /\ Connecting(out, startedBy[session])

Inv == TypeOK /\ Queued /\ Numbered /\ Registered /\ Awaited /\ Closed /\ Shown
=============================================================================
