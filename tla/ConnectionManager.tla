-------------------------- MODULE ConnectionManager --------------------------
(* The ConnectionManager of connection-manager/src/manager.ts, for one        *)
(* connection id (ids share nothing): open, acquire with its shared           *)
(* reconnect, the keep-alive ping, and close.  Each await of the code is a    *)
(* place where another call may run.                                          *)
EXTENDS Integers, FiniteSets

CONSTANTS
    Entry,      \* the entries, one for each call of open()
    Session,    \* the sessions connect() may return, each once
    Caller,     \* the calls of acquire()
    Early,      \* bound: callers that, where calls overlap, came before anything was open
    Attempts,   \* options.reconnectAttempts
    Overlap,    \* {TRUE, FALSE}, or {TRUE} if open() and close() always overlap with others
    none

\* Assumed of the constants.
ManagerAssumption ==
    /\ IsFiniteSet(Session)
    /\ Attempts \in Nat \ {0}
    /\ Overlap \subseteq BOOLEAN /\ Early \subseteq Caller
    /\ none \notin Entry \cup Session
    /\ Entry \cap {"idle", "refused", "served", "failed"} = {}

VARIABLES
    current,    \* entries.get(id)
    opening,    \* how far the open() that made each entry is
    over,       \* the entry that open() closed first, none if there was none
    redo,       \* how far the entry's shared reconnect is, "none" without one
    tries,      \* attempts that reconnect has begun
    session,    \* entry.session
    redone,     \* the session the reconnect attaches
    closing,    \* entry.closing
    ended,      \* close() of the entry has returned
    timer,      \* the keep-alive interval is on
    pinged,     \* the session a ping in flight was sent on
    state,      \* entry.status.state
    live,       \* each session: unborn, alive, dropped by the server, closed by us
    caller,     \* each caller: idle, the entry it waits for, or what it was told
    overlap     \* are open() and close() called while another call is at work?

work == <<current, opening, over, redo, tries, session, redone, closing, ended,
          timer, pinged, state, live, caller>>
vars == <<work, overlap>>

Alive(s) == s # none /\ live[s] = "alive"
AtWork(e) == opening[e] \in {"closing", "connecting", "permissions"}
             \/ redo[e] # "none" \/ (closing[e] /\ ~ended[e])
Free == overlap \/ \A e \in Entry : ~AtWork(e)

Init ==
    /\ current = none
    /\ opening = [e \in Entry |-> "new"]
    /\ over    = [e \in Entry |-> none]
    /\ redo    = [e \in Entry |-> "none"]
    /\ tries   = [e \in Entry |-> 0]
    /\ session = [e \in Entry |-> none]
    /\ redone  = [e \in Entry |-> none]
    /\ closing = [e \in Entry |-> FALSE]
    /\ ended   = [e \in Entry |-> FALSE]
    /\ timer   = [e \in Entry |-> FALSE]
    /\ pinged  = [e \in Entry |-> none]
    /\ state   = [e \in Entry |-> "new"]
    /\ live    = [s \in Session |-> "unborn"]
    /\ overlap \in Overlap
    /\ caller  = [c \in Caller |-> IF overlap /\ c \in Early THEN "refused" ELSE "idle"]

(* -------------------------------- close --------------------------------- *)

\* session.close(), which no longer counts as alive from here on.
Closed(e) == IF session[e] = none THEN live ELSE [live EXCEPT ![session[e]] = "closed"]

\* close(), up to the await of session.close(); without a session it returns.
CloseEntry(e) ==
    /\ closing' = [closing EXCEPT ![e] = TRUE]
    /\ timer' = [timer EXCEPT ![e] = FALSE]
    /\ live' = Closed(e)
    /\ ended' = [ended EXCEPT ![e] = session[e] = none]
    /\ state' = IF session[e] = none THEN [state EXCEPT ![e] = "disconnected"] ELSE state

Close ==
    /\ Free /\ current # none
    /\ CloseEntry(current)
    /\ current' = none
    /\ UNCHANGED <<opening, over, redo, tries, session, redone, pinged, caller>>

CloseEnds(e) ==
    /\ closing[e] /\ ~ended[e]
    /\ ended' = [ended EXCEPT ![e] = TRUE]
    /\ state' = [state EXCEPT ![e] = "disconnected"]
    /\ UNCHANGED <<current, opening, over, redo, tries, session, redone, closing,
                   timer, pinged, live, caller>>

(* --------------------------------- open --------------------------------- *)

\* open(), up to its await of close(): also with nothing to close it yields.
OpenFirst(e) ==
    /\ Free /\ opening[e] = "new" /\ current = none
    /\ opening' = [opening EXCEPT ![e] = "closing"]
    /\ UNCHANGED <<current, over, redo, tries, session, redone, closing, ended,
                   timer, pinged, state, live, caller>>

OpenOver(e) ==
    /\ Free /\ opening[e] = "new" /\ current # none
    /\ CloseEntry(current)
    /\ current' = none
    /\ over' = [over EXCEPT ![e] = current]
    /\ opening' = [opening EXCEPT ![e] = "closing"]
    /\ UNCHANGED <<redo, tries, session, redone, pinged, caller>>

\* close() has returned: the new entry takes the id, whatever is there by now.
OpenAfterClose(e) ==
    /\ opening[e] = "closing"
    /\ over[e] \notin {d \in Entry : ~ended[d]}
    /\ current' = e
    /\ opening' = [opening EXCEPT ![e] = "connecting"]
    /\ state' = [state EXCEPT ![e] = "connecting"]
    /\ UNCHANGED <<over, redo, tries, session, redone, closing, ended, timer,
                   pinged, live, caller>>

\* attach(), up to its await: the session is the entry's at once.
Attach(e, s) ==
    /\ live[s] = "unborn"
    /\ live' = [live EXCEPT ![s] = "alive"]
    /\ session' = [session EXCEPT ![e] = s]
    /\ state' = [state EXCEPT ![e] = "connected"]

OpenConnects(e) ==
    /\ opening[e] = "connecting"
    /\ \E s \in Session : Attach(e, s)
    /\ opening' = [opening EXCEPT ![e] = "permissions"]
    /\ UNCHANGED <<current, over, redo, tries, redone, closing, ended, timer, pinged, caller>>

OpenFails(e) ==
    /\ opening[e] = "connecting"
    /\ opening' = [opening EXCEPT ![e] = "failed"]
    /\ state' = [state EXCEPT ![e] = "failed"]
    /\ UNCHANGED <<current, over, redo, tries, session, redone, closing, ended,
                   timer, pinged, live, caller>>

\* The rest of attach(): the keep-alive starts.
OpenEnds(e) ==
    /\ opening[e] = "permissions"
    /\ opening' = [opening EXCEPT ![e] = "done"]
    /\ timer' = [timer EXCEPT ![e] = TRUE]
    /\ UNCHANGED <<current, over, redo, tries, session, redone, closing, ended,
                   pinged, state, live, caller>>

(* ------------------------------- acquire -------------------------------- *)

AcquireRefused(c) ==
    /\ caller[c] = "idle" /\ current = none
    /\ caller' = [caller EXCEPT ![c] = "refused"]
    /\ UNCHANGED <<current, opening, over, redo, tries, session, redone, closing,
                   ended, timer, pinged, state, live>>

AcquireLive(c) ==
    /\ caller[c] = "idle" /\ current # none /\ Alive(session[current])
    /\ caller' = [caller EXCEPT ![c] = "served"]
    /\ UNCHANGED <<current, opening, over, redo, tries, session, redone, closing,
                   ended, timer, pinged, state, live>>

\* reconnect(): begun by the first caller, joined by the others.
AcquireReconnects(c) ==
    /\ caller[c] = "idle" /\ current # none /\ ~Alive(session[current])
    /\ overlap \/ ~AtWork(current) \/ redo[current] # "none"
    /\ caller' = [caller EXCEPT ![c] = current]
    /\ IF redo[current] = "none"
       THEN /\ redo' = [redo EXCEPT ![current] = "connecting"]
            /\ tries' = [tries EXCEPT ![current] = 1]
            /\ state' = [state EXCEPT ![current] = "connecting"]
       ELSE UNCHANGED <<redo, tries, state>>
    /\ UNCHANGED <<current, opening, over, session, redone, closing, ended, timer, pinged, live>>

\* Variant: only the caller that began the reconnect is told.
TellOne(e, what) ==
    LET waiting == {c \in Caller : caller[c] = e} IN
    IF waiting = {} THEN caller ELSE [caller EXCEPT ![CHOOSE c \in waiting : TRUE] = what]

\* The shared promise settles for everyone who awaits it.
Tell(e, what) == [c \in Caller |-> IF caller[c] = e THEN what ELSE caller[c]]

RedoConnects(e) ==
    /\ redo[e] = "connecting"
    /\ \E s \in Session : Attach(e, s) /\ redone' = [redone EXCEPT ![e] = s]
    /\ redo' = [redo EXCEPT ![e] = "permissions"]
    /\ UNCHANGED <<current, opening, over, tries, closing, ended, timer, pinged, caller>>

\* The reconnect is over: `reconnecting` is cleared and everyone told.
RedoOver(e, what) ==
    /\ redo' = [redo EXCEPT ![e] = "none"]
    /\ caller' = Tell(e, what)

RedoEnds(e) ==
    /\ redo[e] = "permissions"
    /\ timer' = [timer EXCEPT ![e] = TRUE]
    /\ RedoOver(e, "served")
    /\ UNCHANGED <<current, opening, over, tries, session, redone, closing, ended, pinged, state, live>>

\* An attempt fails: a wrong password ends it, anything else waits and doubles.
RedoFails(e) ==
    /\ redo[e] = "connecting"
    /\ \/ /\ state' = [state EXCEPT ![e] = "failed"]
          /\ RedoOver(e, "failed")
       \/ /\ redo' = [redo EXCEPT ![e] = "sleeping"]
          /\ UNCHANGED <<state, caller>>
    /\ UNCHANGED <<current, opening, over, tries, session, redone, closing, ended, timer, pinged, live>>

MoreTries(e) == tries[e] < Attempts

\* The check at the head of the loop.
GivenUp(e) == closing[e]

RedoWakes(e) ==
    /\ redo[e] = "sleeping"
    /\ \/ /\ ~MoreTries(e)
          /\ state' = [state EXCEPT ![e] = "failed"]
          /\ RedoOver(e, "failed")
          /\ UNCHANGED tries
       \/ /\ MoreTries(e) /\ GivenUp(e)
          /\ RedoOver(e, "failed")
          /\ UNCHANGED <<tries, state>>
       \/ /\ MoreTries(e) /\ ~GivenUp(e)
          /\ redo' = [redo EXCEPT ![e] = "connecting"]
          /\ tries' = [tries EXCEPT ![e] = @ + 1]
          /\ UNCHANGED <<state, caller>>
    /\ UNCHANGED <<current, opening, over, session, redone, closing, ended, timer, pinged, live>>

(* ------------------------------ keep-alive ------------------------------ *)

Drop(s) ==
    /\ live[s] = "alive"
    /\ live' = [live EXCEPT ![s] = "dropped"]
    /\ UNCHANGED <<current, opening, over, redo, tries, session, redone, closing,
                   ended, timer, pinged, state, caller>>

\* check(), up to the await of ping().
Check(e) ==
    /\ timer[e] /\ ~closing[e] /\ pinged[e] = none
    /\ IF Alive(session[e])
       THEN pinged' = [pinged EXCEPT ![e] = session[e]] /\ UNCHANGED state
       ELSE state' = [state EXCEPT ![e] = "disconnected"] /\ UNCHANGED pinged
    /\ UNCHANGED <<current, opening, over, redo, tries, session, redone, closing,
                   ended, timer, live, caller>>

\* The ping's answer or its error: the session it was sent on is gone, or has a
\* statement at work (query() and runSimple() refuse to run beside one).
CheckEnds(e) ==
    /\ pinged[e] # none
    /\ pinged' = [pinged EXCEPT ![e] = none]
    /\ \/ Alive(pinged[e]) /\ UNCHANGED state
       \/ closing[e] /\ UNCHANGED state
       \/ /\ ~closing[e]
          /\ state' = [state EXCEPT ![e] = "disconnected"]
    /\ UNCHANGED <<current, opening, over, redo, tries, session, redone, closing,
                   ended, timer, live, caller>>

\* An open() with nothing to close goes on in a microtask: no answer of a server
\* and no timer comes between.
Microtask == \E e \in Entry : opening[e] = "closing" /\ over[e] = none

Call ==
    \/ Close
    \/ \E e \in Entry : OpenFirst(e) \/ OpenOver(e)
    \/ \E c \in Caller : AcquireRefused(c) \/ AcquireLive(c) \/ AcquireReconnects(c)

OpenStep(e) == OpenConnects(e) \/ OpenFails(e) \/ OpenEnds(e)
RedoStep(e) == RedoConnects(e) \/ RedoEnds(e) \/ RedoFails(e) \/ RedoWakes(e)

Event ==
    \/ \E e \in Entry : CloseEnds(e) \/ OpenStep(e) \/ RedoStep(e) \/ Check(e) \/ CheckEnds(e)
    \/ \E s \in Session : Drop(s)

Next ==
    /\ \/ Call
       \/ \E e \in Entry : OpenAfterClose(e)
       \/ ~Microtask /\ Event
    /\ UNCHANGED overlap

Spec == Init /\ [][Next]_vars

RedoGoesOn(e) == ~Microtask /\ RedoStep(e)

\* Every connect() and getPermissions() ends one way or the other (engines have
\* connect time limits), and so do sleeps.
FairSpec ==
    /\ Spec
    /\ \A e \in Entry :
        WF_work(OpenAfterClose(e)) /\ WF_work(RedoGoesOn(e))

(* ------------------------------- properties ----------------------------- *)

TypeOK ==
    /\ current \in Entry \cup {none}
    /\ opening \in [Entry -> {"new", "closing", "connecting", "permissions", "done", "failed"}]
    /\ over \in [Entry -> Entry \cup {none}]
    /\ redo \in [Entry -> {"none", "connecting", "permissions", "sleeping"}]
    /\ tries \in [Entry -> 0..Attempts]
    /\ session \in [Entry -> Session \cup {none}]
    /\ redone \in [Entry -> Session \cup {none}]
    /\ closing \in [Entry -> BOOLEAN]
    /\ ended \in [Entry -> BOOLEAN]
    /\ timer \in [Entry -> BOOLEAN]
    /\ pinged \in [Entry -> Session \cup {none}]
    /\ state \in [Entry -> {"new", "connecting", "connected", "disconnected", "failed"}]
    /\ live \in [Session -> {"unborn", "alive", "dropped", "closed"}]
    /\ overlap \in BOOLEAN
    /\ caller \in [Caller -> Entry \cup {"idle", "refused", "served", "failed"}]

\* While calls do not overlap, every session that is alive, and every keep-alive
\* that runs, is that of the connection in the map: whatever drops, reconnects,
\* pings, replacements and closes happened before, nothing was left open.
NothingLeftOpen ==
    overlap \/
    /\ \A s \in Session : Alive(s) => current # none /\ session[current] = s
    /\ \A e \in Entry : timer[e] => current = e

\* A caller waits only for a reconnect in progress, so it will be told.
WaitersHaveReconnect == \A c \in Caller, e \in Entry : caller[c] = e => redo[e] # "none"

\* A reconnect does not begin another attempt for a connection that was closed
\* while it slept.
NoAttemptAfterClose ==
    [][\A e \in Entry : closing[e] => tries'[e] = tries[e]]_vars

\* Everyone who asked for the connection is told.
AcquireIsAnswered == \A c \in Caller : caller[c] \in Entry ~> caller[c] \notin Entry

\* open() of e had returned when close() stopped its keep-alive.
WasOpen(e) == opening[e] = "done" /\ closing[e] /\ ~timer[e]

\* manager.ts:114: open() "Opens a connection under `id`, replacing one that was
\* already open there": once it has returned, the connection it replaced, which
\* was open, gets no session any more.
ReplacedStaysReplaced ==
    [][\A e, f \in Entry :
          over[f] = e /\ opening[f] = "done" /\ WasOpen(e) => session'[e] = session[e]]_vars

\* Every session, keep-alive and waiting caller belongs to a connection that will
\* close, clear or answer it.
Accounted == TypeOK /\ NothingLeftOpen /\ WaitersHaveReconnect
=============================================================================
