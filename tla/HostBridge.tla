------------------------------ MODULE HostBridge ------------------------------
(* The main process between a window and the hosts that work for it: which      *)
(* window owns what, for the connections and background tasks of the database   *)
(* host (apps/desktop/src/dbConnections.ts) and the files of the file host      *)
(* (apps/desktop/src/dbstudio.ts), and what the window shows of them            *)
(* (packages/ui/src/dbstudio/db/useDbManager.ts, tasks/taskStore.ts).  Both      *)
(* hosts are one here; a host that stops is replaced at the next request, as    *)
(* WorkerSupervisor says.  What a window asks for main serves at once but for    *)
(* its own awaits; the other ways are queues.                                   *)
EXTENDS Naturals, Sequences, FiniteSets

CONSTANTS
    Items,      \* what the window may start, under ids it chooses or is given
    Kinds,      \* what it may be, a choice of functions from Items to Kind
    MaxOpens,   \* bound: times one is opened
    MaxCrashes  \* bound: times the host stops unexpectedly

\* Main asks for a connection once it has the password, for an export once the user chose a file,
\* and for an import or a script task at once; a file has no id before the host answers.
Kind == {"connection", "export", "import", "file"}
Tasks == {"export", "import"}

\* Assumed of the constants.
HostBridgeAssumption ==
    /\ IsFiniteSet(Items) /\ Kinds \subseteq [Items -> Kind] /\ Kinds # {}
    /\ MaxOpens \in Nat \ {0} /\ MaxCrashes \in Nat

VARIABLES
    kind,       \* what each item is
    alive,      \* whether the window is there
    opens,      \* times it was opened
    opening,    \* the request that opens it, in main: no, preparing, asked
    closing,    \* whether a request of the window to close it is in flight
    owner,      \* connectionOwner, taskOwner, owners: whether the window owns it
    toHost,     \* requests on their way to the host
    host,       \* each in the host: none, open
    shuts,      \* the connections of which the host is closing a session
    fromHost,   \* answers, events and the end of the host, on their way to main
    toWindow,   \* answers and events on their way to the window
    shown,      \* what the window shows of it: none, running, over
    crashes,
    loose,      \* history: opened for a window that was gone by then
    disowned,   \* history: opened again before the answer to its close was back
    untold      \* history: connections the host had when it stopped

vars == <<kind, alive, opens, opening, closing, owner, toHost, host, shuts, fromHost, toWindow, shown,
          crashes, loose, disowned, untold>>

Init ==
    /\ kind \in Kinds
    /\ alive = TRUE
    /\ opens = [i \in Items |-> 0]
    /\ opening = [i \in Items |-> "no"]
    /\ closing = {} /\ owner = {}
    /\ toHost = <<>> /\ fromHost = <<>> /\ toWindow = <<>>
    /\ host = [i \in Items |-> "none"]
    /\ shuts = {}
    /\ shown = [i \in Items |-> "none"]
    /\ crashes = 0
    /\ loose = {} /\ disowned = {} /\ untold = {}

Of(i, what) == [of |-> i, what |-> what]
AtHost(i) == host[i] = "open"
IsTask(i) == kind[i] \in Tasks

\* The host has stopped, and main does not know yet.
Down == \E n \in DOMAIN fromHost : fromHost[n].what = "exit"

(* ------------------------------- the window -------------------------------- *)

\* Variant: the owner is recorded when the host answers, as for a file.
AskedFirst(i) ==
    /\ opening' = [opening EXCEPT ![i] = "asked"]
    /\ owner' = owner
    /\ toHost' = Append(toHost, Of(i, "open"))

\* What the main process does once prepare() is done: the window is told about changes as soon as
\* the host reports them, so the owner is recorded before the host is asked.
Asked(i) ==
    /\ opening' = [opening EXCEPT ![i] = "asked"]
    /\ owner' = owner \cup ({i} \ {j \in Items : kind[j] = "file"})
    /\ toHost' = Append(toHost, Of(i, "open"))

\* The window waits for the answer to its last request to open it.
Busy(i) ==
    opening[i] # "no" \/ \E n \in DOMAIN toWindow : toWindow[n] \in {Of(i, "opened"), Of(i, "failed")}

Open(i) ==
    /\ alive /\ ~Busy(i) /\ shown[i] = "none" /\ opens[i] < MaxOpens
    /\ IsTask(i) => opens[i] = 0
    /\ opens' = [opens EXCEPT ![i] = @ + 1]
    /\ untold' = untold \ {i}
    /\ IF kind[i] \in {"connection", "export"}
       THEN opening' = [opening EXCEPT ![i] = "preparing"] /\ UNCHANGED <<owner, toHost>>
       ELSE Asked(i)
    /\ UNCHANGED <<kind, alive, closing, host, shuts, fromHost, toWindow, shown, crashes, loose,
                   disowned>>

\* The password is read, or a file chosen: whether the window is still there is not asked.
Prepared(i) ==
    /\ opening[i] = "preparing"
    /\ Asked(i)
    /\ loose' = IF alive THEN loose ELSE loose \cup {i}
    /\ disowned' = IF i \in closing THEN disowned \cup {i} ELSE disowned
    /\ UNCHANGED <<kind, alive, opens, closing, host, shuts, fromHost, toWindow, shown, crashes, untold>>

\* The dialog was closed, or the credentials could not be read.
Unprepared(i) ==
    /\ opening[i] = "preparing"
    /\ opening' = [opening EXCEPT ![i] = "no"]
    /\ UNCHANGED <<kind, alive, opens, closing, owner, toHost, host, shuts, fromHost, toWindow, shown,
                   crashes, loose, disowned, untold>>

\* disconnect(), also of a connection that dropped, which may be opened again before the answer; a
\* file's tab closes and its id is gone.
Close(i) ==
    /\ alive /\ i \in owner /\ ~IsTask(i) /\ ~Busy(i) /\ i \notin closing
    /\ closing' = closing \cup {i}
    /\ toHost' = Append(toHost, Of(i, "close"))
    /\ owner' = IF kind[i] = "file" THEN owner \ {i} ELSE owner
    /\ \/ UNCHANGED shown
       \/ kind[i] = "connection" /\ shown' = [shown EXCEPT ![i] = "none"]
    /\ UNCHANGED <<kind, alive, opens, opening, host, shuts, fromHost, toWindow, crashes, loose,
                   disowned, untold>>

\* Variant: the tables are cleared, and the host is not told.
ReleasedUntold == toHost' = toHost

\* releaseSender(): what the window owns is closed with it.
Released == toHost' = toHost \o [n \in 1 .. Cardinality(owner) |->
    Of(CHOOSE i \in owner : Cardinality({j \in owner : j <= i}) = n, "close")]

WindowGoes ==
    /\ alive
    /\ alive' = FALSE
    /\ Released
    /\ owner' = {}
    /\ toWindow' = <<>>
    /\ UNCHANGED <<kind, opens, opening, closing, host, shuts, fromHost, shown, crashes, loose,
                   disowned, untold>>

(* -------------------------------- the host --------------------------------- *)

HostOpens(i) ==
    \/ /\ host' = [host EXCEPT ![i] = "open"]
       /\ fromHost' = fromHost \o (IF IsTask(i) THEN <<Of(i, "running"), Of(i, "opened")>>
                                                ELSE <<Of(i, "opened")>>)
    \/ host' = host /\ fromHost' = Append(fromHost, Of(i, "failed"))

\* A close is answered at once, but for that of a connection, whose session takes its time.
HostCloses(i) ==
    /\ host' = [host EXCEPT ![i] = "none"]
    /\ IF kind[i] = "connection" /\ AtHost(i)
       THEN shuts' = shuts \cup {i} /\ UNCHANGED fromHost
       ELSE /\ fromHost' = Append(fromHost, Of(i, IF IsTask(i) THEN "over" ELSE "closed"))
            /\ UNCHANGED shuts

HostTakes ==
    /\ toHost # <<>> /\ ~Down
    /\ LET m == Head(toHost) IN
           IF m.what = "open" THEN HostOpens(m.of) /\ UNCHANGED shuts ELSE HostCloses(m.of)
    /\ toHost' = Tail(toHost)
    /\ UNCHANGED <<kind, alive, opens, opening, closing, owner, toWindow, shown, crashes, loose, disowned,
                   untold>>

Shut(i) ==
    /\ i \in shuts
    /\ shuts' = shuts \ {i}
    /\ fromHost' = Append(fromHost, Of(i, "closed"))
    /\ UNCHANGED <<kind, alive, opens, opening, closing, owner, toHost, host, toWindow, shown, crashes,
                   loose, disowned, untold>>

TaskEnds(i) ==
    /\ IsTask(i) /\ AtHost(i)
    /\ host' = [host EXCEPT ![i] = "none"]
    /\ fromHost' = Append(fromHost, Of(i, "over"))
    /\ UNCHANGED <<kind, alive, opens, opening, closing, owner, toHost, shuts, toWindow, shown, crashes,
                   loose, disowned, untold>>

\* The host stops, and with it what it had; what it is asked from then on is lost.
Crash ==
    /\ crashes < MaxCrashes /\ ~Down
    /\ crashes' = crashes + 1
    /\ host' = [i \in Items |-> "none"]
    /\ shuts' = {}
    /\ fromHost' = Append(fromHost, Of(0, "exit"))
    /\ untold' = untold \cup {i \in Items : kind[i] = "connection" /\ AtHost(i)}
    /\ UNCHANGED <<kind, alive, opens, opening, closing, owner, toHost, toWindow, shown, loose, disowned>>

(* --------------------------- answers and events ---------------------------- *)

Told(messages) == toWindow' = IF alive THEN toWindow \o messages ELSE toWindow

\* A request that opens something is answered; one that failed leaves nothing to own, but for a
\* connection.  The id of a file is known from here on.
MainOpened(i, what) ==
    /\ opening' = [opening EXCEPT ![i] = "no"]
    /\ owner' = IF what = "opened" THEN owner \cup ({i} \cap {j \in Items : kind[j] = "file"})
               ELSE IF IsTask(i) THEN owner \ {i} ELSE owner
    /\ loose' = IF what = "opened" /\ kind[i] = "file" /\ ~alive THEN loose \cup {i} ELSE loose
    /\ Told(<<Of(i, what)>>)
    /\ UNCHANGED closing

\* A request to close is answered; that of releaseSender() nobody waits for.
MainClosed(i) ==
    /\ closing' = closing \ {i}
    /\ owner' = IF i \in closing THEN owner \ {i} ELSE owner
    /\ Told(IF i \in closing THEN <<Of(i, "closed")>> ELSE <<>>)
    /\ UNCHANGED <<opening, loose>>

\* An event goes to the owner only.
MainPasses(i, what) ==
    /\ Told(IF i \in owner THEN <<Of(i, what)>> ELSE <<>>)
    /\ UNCHANGED <<opening, closing, owner, loose>>

\* Variant: nobody owns the tasks by the time their owners would be told.
MainLosesSilently ==
    /\ opening' = [i \in Items |-> IF opening[i] = "asked" THEN "no" ELSE opening[i]]
    /\ closing' = {}
    /\ owner' = owner \ {i \in Items : IsTask(i)}
    /\ UNCHANGED <<toWindow, loose>>

\* onStatus: the owners of tasks are told that they are lost, and nobody owns them any more; every
\* request in flight is rejected.
MainLoses ==
    LET rejected == {i \in Items : opening[i] = "asked"}
        told == {i \in owner : IsTask(i)}
        Each(S, what) == [n \in 1 .. Cardinality(S) |->
                              Of(CHOOSE i \in S : Cardinality({j \in S : j <= i}) = n, what)] IN
    /\ Told((IF told # {} THEN <<Of(0, "lost")>> ELSE <<>>)
            \o Each(rejected, "failed") \o Each(closing, "closed"))
    /\ opening' = [i \in Items |-> IF i \in rejected THEN "no" ELSE opening[i]]
    /\ closing' = {}
    /\ owner' = owner \ {i \in Items : IsTask(i)}
    /\ UNCHANGED loose

MainTakes ==
    /\ fromHost # <<>>
    /\ fromHost' = Tail(fromHost)
    /\ LET m == Head(fromHost) IN
           CASE m.what = "exit" -> MainLoses /\ toHost' = <<>>
             [] m.what \in {"opened", "failed"} -> MainOpened(m.of, m.what) /\ UNCHANGED toHost
             [] m.what = "closed" -> MainClosed(m.of) /\ UNCHANGED toHost
             [] OTHER -> MainPasses(m.of, m.what) /\ UNCHANGED toHost
    /\ UNCHANGED <<kind, alive, opens, host, shuts, shown, crashes, disowned, untold>>

\* What the window makes of it: a task is known by its events, the others by the answers.
Shows(m) ==
    CASE m.what = "lost" -> [i \in Items |-> IF IsTask(i) /\ shown[i] = "running" THEN "over" ELSE shown[i]]
      [] m.what = "running" -> [shown EXCEPT ![m.of] = "running"]
      [] m.what = "over" -> [shown EXCEPT ![m.of] = "over"]
      [] m.what = "opened" /\ ~IsTask(m.of) -> [shown EXCEPT ![m.of] = "running"]
      [] m.what = "closed" -> [shown EXCEPT ![m.of] = "none"]
      [] OTHER -> shown

WindowTakes ==
    /\ toWindow # <<>>
    /\ toWindow' = Tail(toWindow)
    /\ shown' = Shows(Head(toWindow))
    /\ UNCHANGED <<kind, alive, opens, opening, closing, owner, toHost, host, shuts, fromHost, crashes,
                   loose, disowned, untold>>

Next ==
    \/ WindowGoes \/ HostTakes \/ Crash \/ MainTakes \/ WindowTakes
    \/ \E i \in Items :
           Open(i) \/ Prepared(i) \/ Unprepared(i) \/ Close(i) \/ Shut(i) \/ TaskEnds(i)

Spec == Init /\ [][Next]_vars

(* ------------------------------- properties -------------------------------- *)

TypeOK ==
    /\ kind \in Kinds /\ alive \in BOOLEAN
    /\ opens \in [Items -> 0 .. MaxOpens]
    /\ opening \in [Items -> {"no", "preparing", "asked"}]
    /\ {closing, owner, shuts, loose, disowned, untold} \subseteq SUBSET Items
    /\ host \in [Items -> {"none", "open"}]
    /\ shown \in [Items -> {"none", "running", "over"}]
    /\ crashes \in 0 .. MaxCrashes

\* Nothing is on its way.
Quiet ==
    /\ toHost = <<>> /\ fromHost = <<>> /\ toWindow = <<>>
    /\ closing = {} /\ shuts = {} /\ \A i \in Items : opening[i] = "no"

\* What a window started is closed when it goes away, unless it was gone before main knew that
\* it would be its own.
ClosedWithTheWindow ==
    Quiet /\ ~alive => \A i \in Items : AtHost(i) => i \in loose \cup disowned

\* At rest the window is shown what the host has for it, all of it and no more: of what a stopped
\* host had only the connections are still shown.
ShowsWhatTheHostHas ==
    Quiet /\ alive => \A i \in Items \ disowned :
        /\ AtHost(i) => shown[i] = "running" /\ i \in owner
        /\ shown[i] = "running" /\ kind[i] # "file" => AtHost(i) \/ i \in untold
================================================================================
