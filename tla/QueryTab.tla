------------------------------- MODULE QueryTab -------------------------------
(* One query tab of the Database Studio: the runs of its text as scripts of      *)
(* statements (packages/ui/src/dbstudio/db/useDbManager.ts and                   *)
(* statementExecution.ts), the results it shows (executionEvents.ts), and what   *)
(* the Database Host (packages/db-host/src/service.ts) does for it.  Requests    *)
(* are served from when they are made; answers and the events of the host reach  *)
(* the window later, in order.  A statement of the tab is known by its execution *)
(* and its number.                                                               *)
EXTENDS Naturals, Sequences, SequencesExt

CONSTANTS
    MaxExecs,   \* bound: executions, one for each run of the tab's text
    Length,     \* bound: statements of the text
    Scripts     \* bounds, one of which is drawn: records [execs, length, uses, pauses, doubles], of
                \* executions, the statements each has, uses of Stop and of the commands that close
                \* results or the tab, pauses, and whether an execution may begin beside another

\* Assumed of the constants.
QueryTabAssumption ==
    /\ MaxExecs \in Nat \ {0} /\ Length \in Nat \ {0}
    /\ Scripts \subseteq [execs : 1 .. MaxExecs, length : 1 .. Length, uses : Nat, pauses : Nat,
                          doubles : BOOLEAN]

Exec == 1 .. MaxExecs
Run == Exec \X (1 .. Length)
Commands == {"results", "tab"}

VARIABLES
    script,     \* the bounds that were drawn
    pc,         \* each execution: where run() and executeStatements() are
    at,         \* the statement it has come to
    old,        \* the results it found in the tab
    got,        \* the snapshot its promise was resolved with; none
    settle,     \* settled: the statements with an entry
    open,       \* the tab is there
    running,    \* tab.running
    runs,       \* tab.runs
    shown,      \* the state of each statement in its last snapshot
    command,    \* the commands that close: where each is suspended
    host,       \* each statement in the host
    held,       \* this.runs of the host
    stopped,    \* the runs that were told to stop
    enough,     \* history: the statements that have paused with the rows of the limit in
    untold,     \* history: the statements a pause of which was not told
    out,        \* answers and events on their way to the window
    uses, pauses,
    doubled,    \* history: an execution began while another was at work
    left        \* history: a command closed the tab or a result, and a statement goes on

window == <<script, pc, at, old, got, settle, open, running, runs, shown, command>>
service == <<host, held, stopped, enough, untold, out>>
vars == <<window, service, uses, pauses, doubled, left>>

resting == [at |-> "idle", of |-> {}, todo |-> {}]

Init ==
    /\ script \in Scripts
    /\ pc = [e \in Exec |-> "new"] /\ at = [e \in Exec |-> 1]
    /\ old = [e \in Exec |-> {}] /\ got = [e \in Exec |-> "none"]
    /\ settle = {} /\ open = TRUE /\ running = FALSE /\ runs = <<>>
    /\ shown = [r \in Run |-> "running"]
    /\ command = [k \in Commands |-> resting]
    /\ host = [r \in Run |-> "none"] /\ held = {} /\ stopped = {} /\ enough = {} /\ untold = {}
    /\ out = <<>>
    /\ uses = 0 /\ pauses = 0 /\ doubled = FALSE /\ left = FALSE

Message(r, kind) == [of |-> r, kind |-> kind]

Reads(r) == host[r] \in {"running", "paused", "full"}   \* its run has not ended
Current(e) == <<e, at[e]>>
AtWork(e) == pc[e] \notin {"new", "over"}

\* It waits for a snapshot that no event will hand it.
Deaf(e) == /\ pc[e] \in {"asked", "waits", "reads"} /\ got[e] = "none"
           /\ Current(e) \notin settle

(* --------------------------- requests to the host ------------------------- *)

\* query.cancel, of runs that are open.
Stopping(of) == stopped' = stopped \cup {r \in of : r \in held /\ Reads(r)}

\* closeRuns(): the entries go, and the runs that are open are stopped and disposed of.
CloseRuns(of) ==
    /\ settle' = settle \ of
    /\ held' = held \ of
    /\ Stopping(of)

\* closeRuns() is answered, after the last event of each.
Released(of) == \A r \in of : ~Reads(r) /\ \A i \in DOMAIN out : out[i].of # r

(* ------------------------------- executions ------------------------------- *)

\* run() of a tab that is not running.
Begin(e) ==
    /\ e <= script.execs /\ pc[e] = "new" /\ \A b \in 1 .. e - 1 : pc[b] # "new"
    /\ script.doubles \/ \A b \in Exec : ~AtWork(b)
    /\ open /\ ~running
    /\ pc' = [pc EXCEPT ![e] = "connects"]
    /\ old' = [old EXCEPT ![e] = ToSet(runs)]
    /\ doubled' = (doubled \/ \E b \in Exec : AtWork(b))
    /\ UNCHANGED <<script, at, got, settle, open, running, runs, shown, command, service, uses,
                   pauses, left>>

\* An execution ends, having failed before its first statement or gone as far as it goes.
Ends(e) ==
    /\ pc' = [pc EXCEPT ![e] = "over"]
    /\ running' = FALSE
    /\ UNCHANGED <<at, runs, host>>

CannotConnect(e) ==
    /\ pc[e] = "connects"
    /\ pc' = [pc EXCEPT ![e] = "over"]
    /\ UNCHANGED <<script, at, old, got, settle, open, running, runs, shown, command, service, uses,
                   pauses,
                   doubled, left>>

\* connect() and splitSql() are done: the results it found are closed.
Connected(e) ==
    /\ pc[e] = "connects"
    /\ pc' = [pc EXCEPT ![e] = "clears"]
    /\ CloseRuns(old[e])
    /\ UNCHANGED <<script, at, old, got, open, running, runs, shown, command, host, enough, untold,
                   out, uses,
                   pauses, doubled, left>>

Cleared(e) ==
    /\ pc[e] = "clears" /\ Released(old[e])
    /\ pc' = [pc EXCEPT ![e] = "prefaces"]
    /\ running' = open
    /\ runs' = <<>>
    /\ UNCHANGED <<script, at, old, got, settle, open, shown, command, service, uses, pauses,
                   doubled, left>>

\* The next statement is shown, waited for and asked for.
Starts(e, i) ==
    /\ pc' = [pc EXCEPT ![e] = "asked"]
    /\ at' = [at EXCEPT ![e] = i]
    /\ runs' = IF open THEN Append(runs, <<e, i>>) ELSE runs
    /\ host' = [host EXCEPT ![<<e, i>>] = "queued"]
    /\ UNCHANGED running

\* The database and schema of the tab were set, or could not be.
Prefaced(e) ==
    /\ pc[e] = "prefaces"
    /\ \/ Starts(e, 1) /\ settle' = settle \cup {<<e, 1>>}
       \/ Ends(e) /\ UNCHANGED settle
    /\ UNCHANGED <<script, old, got, open, shown, command, held, stopped, enough, untold, out, uses,
                   pauses,
                   doubled, left>>

\* demand() to the limit.
Demanded(r) == IF host[r] = "paused" THEN [host EXCEPT ![r] = "running"] ELSE host

\* Variant: a statement that was cancelled is not the last one.
GoesOnCancelled(e) ==
    /\ pc[e] \in {"waits", "reads"} /\ got[e] # "none"
    /\ got' = [got EXCEPT ![e] = "none"]
    /\ IF at[e] < script.length /\ got[e] # "failed"
       THEN Starts(e, at[e] + 1) /\ settle' = (settle \ {Current(e)}) \cup {<<e, at[e] + 1>>}
       ELSE Ends(e) /\ settle' = settle \ {Current(e)}
    /\ UNCHANGED <<script, old, open, shown, command, held, stopped, enough, untold, out, uses,
                   pauses, doubled, left>>

\* The promise of the current statement is resolved: an earlier one that paused is read on to the
\* limit; one that failed or was cancelled is the last.
GoesOn(e) ==
    /\ pc[e] \in {"waits", "reads"} /\ got[e] # "none"
    /\ got' = [got EXCEPT ![e] = "none"]
    /\ \/ /\ got[e] = "paused" /\ at[e] < script.length
          /\ pc' = [pc EXCEPT ![e] = "reads"]
          /\ host' = Demanded(Current(e))
          /\ UNCHANGED <<at, running, runs, settle>>
       \/ /\ got[e] \in {"full", "done"} /\ at[e] < script.length
          /\ Starts(e, at[e] + 1)
          /\ settle' = (settle \ {Current(e)}) \cup {<<e, at[e] + 1>>}
       \/ /\ got[e] \in {"failed", "cancelled"} \/ at[e] = script.length
          /\ Ends(e)
          /\ settle' = settle \ {Current(e)}
    /\ UNCHANGED <<script, old, open, shown, command, held, stopped, enough, untold, out, uses,
                   pauses, doubled, left>>

\* What has been resolved goes on before the window does anything else.
Due == \E e \in Exec : pc[e] \in {"waits", "reads"} /\ got[e] # "none"

(* --------------------------- answers and events --------------------------- *)

TakeStarted ==
    /\ out # <<>> /\ Head(out).kind = "started"
    /\ pc' = [pc EXCEPT ![Head(out).of[1]] = "waits"]
    /\ out' = Tail(out)
    /\ UNCHANGED <<script, at, old, got, settle, open, running, runs, shown, command, host, held,
                   stopped,
                   enough, untold, uses, pauses, doubled, left>>

TakeRefused ==
    /\ out # <<>> /\ Head(out).kind = "refused"
    /\ Ends(Head(out).of[1])
    /\ settle' = settle \ {Head(out).of}
    /\ shown' = [shown EXCEPT ![Head(out).of] = "failed"]
    /\ out' = Tail(out)
    /\ UNCHANGED <<script, old, got, open, command, held, stopped, enough, untold, uses, pauses,
                   doubled, left>>

\* Variant: only a statement that has ended resolves its promise.
TakeEnded ==
    /\ out # <<>> /\ Head(out).kind \notin {"started", "refused"}
    /\ LET r == Head(out).of IN
       /\ shown' = IF Head(out).kind \in {"paused", "full"} \/ r \notin ToSet(runs)
                   THEN shown ELSE [shown EXCEPT ![r] = Head(out).kind]
       /\ got' = IF r \in settle /\ got[r[1]] = "none" /\ Head(out).kind \notin {"paused", "full"}
                 THEN [got EXCEPT ![r[1]] = Head(out).kind] ELSE got
    /\ out' = Tail(out)
    /\ UNCHANGED <<script, pc, at, old, settle, open, running, runs, command, host, held, stopped,
                   enough, untold, uses, pauses, doubled, left>>

\* An event query.state: a promise is resolved once.
TakeState ==
    /\ out # <<>> /\ Head(out).kind \notin {"started", "refused"}
    /\ LET r == Head(out).of IN
       /\ shown' = IF Head(out).kind \in {"paused", "full"} \/ r \notin ToSet(runs)
                   THEN shown ELSE [shown EXCEPT ![r] = Head(out).kind]
       /\ got' = IF r \in settle /\ got[r[1]] = "none"
                 THEN [got EXCEPT ![r[1]] = Head(out).kind] ELSE got
    /\ out' = Tail(out)
    /\ UNCHANGED <<script, pc, at, old, settle, open, running, runs, command, host, held, stopped,
                   enough,
                   untold, uses, pauses, doubled, left>>

(* --------------------------------- the user ------------------------------- *)

Live == SelectSeq(runs, LAMBDA r : shown[r] = "running")    \* isRunning()

\* cancel(): Stop is for the last statement that is running.
Stop ==
    /\ uses < script.uses /\ Live # <<>>
    /\ uses' = uses + 1
    /\ Stopping({Last(Live)})
    /\ UNCHANGED <<window, host, held, enough, untold, out, pauses, doubled, left>>

\* The grid asks for more rows.
Scroll(r) ==
    /\ r \in ToSet(runs) /\ r \in held /\ host[r] \in {"paused", "full"}
    /\ host' = [host EXCEPT ![r] = "running"]
    /\ UNCHANGED <<window, held, stopped, enough, untold, out, uses, pauses, doubled, left>>

\* A command goes on with the statements it is still to stop, one at a time, then closes them all.
Commanded(k, of, todo) ==
    IF todo = {}
    THEN CloseRuns(of) /\ command' = [command EXCEPT ![k] = [at |-> "closes", of |-> of, todo |-> {}]]
    ELSE \E r \in todo :
            /\ Stopping({r})
            /\ command' = [command EXCEPT ![k] = [at |-> "stops", of |-> of, todo |-> todo \ {r}]]
            /\ UNCHANGED <<settle, held>>

\* closeResults() and, of the tab, closeQuery(), which stops the first one that is running.
Use ==
    /\ uses < script.uses /\ open
    /\ uses' = uses + 1
    /\ \/ /\ command["results"].at = "idle"
          /\ \E of \in SUBSET ToSet(runs) \ {{}} : Commanded("results", of, of \cap ToSet(Live))
       \/ /\ command["tab"].at = "idle"
          /\ Commanded("tab", ToSet(runs),
                       IF running /\ Live # <<>> THEN {Head(Live)} ELSE {})
    /\ UNCHANGED <<script, pc, at, old, got, open, running, runs, shown, host, enough, untold, out,
                   pauses, doubled, left>>

CommandGoesOn(k) ==
    /\ command[k].at = "stops"
    /\ Commanded(k, command[k].of, command[k].todo)
    /\ UNCHANGED <<script, pc, at, old, got, open, running, runs, shown, host, enough, untold, out,
                   uses, pauses,
                   doubled, left>>

\* What the results that were closed leave: results are known by the numbers of their statements.
Left == SelectSeq(runs, LAMBDA r : \A c \in command["results"].of : c[2] # r[2])
Unseen(of) == \E r \in of : (Reads(r) \/ host[r] = "queued") /\ r \notin stopped

CommandEnds(k) ==
    /\ command[k].at = "closes" /\ Released(command[k].of)
    /\ command' = [command EXCEPT ![k] = resting]
    /\ IF k = "tab"
       THEN /\ open' = FALSE /\ running' = FALSE /\ runs' = <<>>
            /\ left' = (left \/ Unseen(ToSet(runs)) \/ \E e \in Exec : AtWork(e) /\ ~Deaf(e))
       ELSE /\ runs' = Left
            /\ left' = (left \/ Unseen(ToSet(runs) \ ToSet(Left)))
            /\ UNCHANGED <<open, running>>
    /\ UNCHANGED <<script, pc, at, old, got, settle, shown, service, uses, pauses, doubled>>

(* --------------------------------- the host ------------------------------- *)

Rivals == {q \in held : Reads(q)}

\* startQuery() is refused: a statement is at work, or there is no connection.
Refuses(r) ==
    /\ host[r] = "queued"
    /\ host' = [host EXCEPT ![r] = "refused"]
    /\ out' = Append(out, Message(r, "refused"))
    /\ UNCHANGED <<window, held, stopped, enough, untold, uses, pauses, doubled, left>>

\* A run that waits for the grid is stopped to make room for a statement, of this tab or another.
MakesRoom ==
    /\ Rivals \ stopped # {}
    /\ \A q \in Rivals : host[q] \in {"paused", "full"}
    /\ Stopping(Rivals)
    /\ UNCHANGED <<window, host, held, enough, untold, out, uses, pauses, doubled, left>>

IsStarted(r) ==
    /\ host[r] = "queued" /\ Rivals = {}
    /\ host' = [host EXCEPT ![r] = "running"]
    /\ held' = held \cup {r}
    /\ out' = Append(out, Message(r, "started"))
    /\ UNCHANGED <<window, stopped, enough, untold, uses, pauses, doubled, left>>

\* The run waits to be asked for more rows: with those of the limit in, when it was asked for them.
\* What notify(false) sends at once, before `waiting` is set, does not tell it.
Pauses(r) ==
    /\ host[r] = "running" /\ r \notin stopped /\ pauses < script.pauses
    /\ pauses' = pauses + 1
    /\ \E how \in {"paused", "full"} :
          /\ pc[r[1]] = "reads" /\ at[r[1]] = r[2] => how = "full"
          /\ host' = [host EXCEPT ![r] = how]
          /\ enough' = IF how = "full" THEN enough \cup {r} ELSE enough
          /\ \/ out' = Append(out, Message(r, how)) /\ UNCHANGED untold
             \/ untold' = untold \cup {r} /\ UNCHANGED out
    /\ UNCHANGED <<window, held, stopped, uses, doubled, left>>

\* The run ends.
Settles(r) ==
    /\ host[r] = "running" \/ (Reads(r) /\ r \in stopped)
    /\ \E how \in (IF r \in stopped THEN {"failed", "cancelled"} ELSE {"done", "failed", "cancelled"}) :
          /\ host' = [host EXCEPT ![r] = how]
          /\ out' = Append(out, Message(r, how))
    /\ UNCHANGED <<window, held, stopped, enough, untold, uses, pauses, doubled, left>>

Executes(e) == Begin(e) \/ CannotConnect(e) \/ Connected(e) \/ Cleared(e) \/ Prefaced(e)
Takes == TakeStarted \/ TakeRefused \/ TakeState
Serves(r) == Refuses(r) \/ IsStarted(r) \/ Pauses(r) \/ Settles(r)

Next ==
    \/ \E e \in Exec : GoesOn(e)
    \/ ~Due /\ ( \/ Takes \/ Stop \/ Use
                 \/ \E e \in Exec : Executes(e)
                 \/ \E r \in Run : Scroll(r)
                 \/ \E k \in Commands : CommandGoesOn(k) \/ CommandEnds(k) )
    \/ MakesRoom
    \/ \E r \in Run : Serves(r)

Spec == Init /\ [][Next]_vars

(* ------------------------------- properties ------------------------------ *)

States == {"done", "failed", "cancelled"}

TypeOK ==
    /\ pc \in [Exec -> {"new", "connects", "clears", "prefaces", "asked", "waits", "reads", "over"}]
    /\ at \in [Exec -> 1 .. Length] /\ old \in [Exec -> SUBSET Run]
    /\ got \in [Exec -> {"none", "paused", "full"} \cup States]
    /\ settle \subseteq Run /\ open \in BOOLEAN /\ running \in BOOLEAN
    /\ runs \in Seq(Run) /\ IsInjective(runs)
    /\ shown \in [Run -> {"running"} \cup States]
    /\ host \in [Run -> {"none", "queued", "refused", "running", "paused", "full"} \cup States]
    /\ held \subseteq Run /\ stopped \subseteq Run /\ enough \subseteq Run /\ untold \subseteq Run
    /\ script \in Scripts /\ uses \in 0 .. script.uses /\ pauses \in 0 .. script.pauses
    /\ doubled \in BOOLEAN /\ left \in BOOLEAN

\* statementExecution.ts:61-66 and :105: a statement is asked for only when the one before it is
\* done, or has as many rows in as the limit says; after one that failed or was cancelled none is.
InOrder ==
    \A e \in Exec : \A i \in 1 .. Length - 1 :
        host[<<e, i + 1>>] # "none" => host[<<e, i>>] = "done" \/ <<e, i>> \in enough

\* useDbManager.ts:677: no statement is "left reading into a result nobody can
\* see": one that was not told to stop is in the tab; unless two executions were at work, or
\* a command closed the tab or the result while a statement of it was not yet, or no longer, the
\* one it stopped.
NothingUnseen ==
    doubled \/ left \/ \A r \in Run : Unseen({r}) => r \in ToSet(runs)

\* An execution that has asked for a statement waits for something: an answer or event on its way,
\* or a statement at work.
WaitsInVain(e) ==
    /\ pc[e] \in {"asked", "waits", "reads"} /\ got[e] = "none"
    /\ host[Current(e)] \notin {"queued", "running"}
    /\ Current(e) \in stopped => ~Reads(Current(e))
    /\ \A i \in DOMAIN out : out[i].of # Current(e)

\* An execution never waits for what nobody will tell it; unless its entry was taken with the
\* result that was closed, or a pause was not told.
WaitsForSomething == \A e \in Exec : WaitsInVain(e) => Deaf(e) \/ Current(e) \in untold

\* The tab is shown as running exactly while its execution has statements to run, unless two were.
ShownRunning ==
    doubled \/ ~open \/
    (running <=> \E e \in Exec : pc[e] \in {"prefaces", "asked", "waits", "reads"})

\* With nothing on its way, a result is shown as ended exactly when its statement has.
ShownAsItEnded ==
    out # <<>> \/ \A r \in ToSet(runs) :
        shown[r] = (IF Reads(r) \/ host[r] = "queued" THEN "running"
                    ELSE IF host[r] = "refused" THEN "failed" ELSE host[r])
=============================================================================
