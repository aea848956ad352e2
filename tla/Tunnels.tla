------------------------------- MODULE Tunnels -------------------------------
(* One port forwarding of the tunnel manager (apps/desktop/src/ssh/tunnels.ts): *)
(* every start() makes an object of its own, with its listener and its SSH      *)
(* client, while stop() and fail() act on the one the map holds for the id.     *)
(* Assumed: binding takes no time, and neither does what follows the probe.     *)
EXTENDS Naturals

CONSTANTS
    MaxStarts,  \* bound: calls of start(); each is known by its number, as is its object
    MaxStops    \* bound: calls of stop() from outside

\* Assumed of the constants.
TunnelsAssumption == MaxStarts \in Nat \ {0} /\ MaxStops \in Nat

Start == 1 .. MaxStarts

VARIABLES
    phase,      \* each start() and its object: new, clearing, probing, starting, active,
                \* stopping, error, over
    inMap,      \* the object the map holds, 0 for none
    listening,  \* the objects whose listener is bound
    client,     \* the objects whose SSH client is open
    ends,       \* each object: what the last stop() that awaits its listener will report, or none
    clears,     \* the object whose end a start() awaits, 0 for none
    shown,      \* the state published last
    stops,      \* calls of stop() made from outside
    loose       \* history: an object lost its place while it was starting or stopping

vars == <<phase, inMap, listening, client, ends, clears, shown, stops, loose>>

Init ==
    /\ phase = [s \in Start |-> "new"]
    /\ inMap = 0
    /\ listening = {} /\ client = {}
    /\ ends = [s \in Start |-> "none"]
    /\ clears = [s \in Start |-> 0]
    /\ shown = "stopped"
    /\ stops = 0 /\ loose = FALSE

\* Objects with a listener: a socket that was to be bound, whether it is or not.
HasServer(s) == phase[s] \in {"active", "stopping"}

\* stop() of what is in the map, when the objects are in phases: it is over at once unless there
\* is a listener to close.
Stops(phases, bound, result) ==
    IF inMap = 0 THEN
        /\ phase' = phases /\ listening' = bound
        /\ UNCHANGED <<inMap, ends, shown, loose>>
    ELSE IF phases[inMap] \in {"active", "stopping"} THEN
        /\ phase' = [phases EXCEPT ![inMap] = "stopping"]
        /\ listening' = bound \ {inMap}
        /\ ends' = [ends EXCEPT ![inMap] = result]
        /\ shown' = "stopping"
        /\ UNCHANGED <<inMap, loose>>
    ELSE
        /\ phase' = [phases EXCEPT ![inMap] = IF @ = "error" THEN "over" ELSE @]
        /\ listening' = bound
        /\ inMap' = 0
        /\ shown' = result
        /\ loose' = (loose \/ phases[inMap] = "starting")
        /\ UNCHANGED ends

\* start(), up to the end of its stop().
Starts(s) ==
    /\ phase[s] = "new" /\ \A r \in Start : r < s => phase[r] # "new"
    /\ LET waits == inMap # 0 /\ HasServer(inMap) IN
       /\ Stops([phase EXCEPT ![s] = IF waits THEN "clearing" ELSE "probing"], listening, "stopped")
       /\ clears' = [clears EXCEPT ![s] = IF waits THEN inMap ELSE 0]
    /\ UNCHANGED <<client, stops>>

\* stop(), from the panel or because the application quits.
StopCalled ==
    /\ stops < MaxStops /\ inMap # 0
    /\ stops' = stops + 1
    /\ Stops(phase, listening, "stopped")
    /\ UNCHANGED <<client, clears>>

\* Variant: the end of the listener is not followed by that of the client.
ClosesListener(s) ==
    /\ ends[s] # "none"
    /\ phase' = [r \in Start |-> IF r = s THEN "over" ELSE IF clears[r] = s THEN "probing" ELSE phase[r]]
    /\ inMap' = 0
    /\ shown' = ends[s]
    /\ ends' = [ends EXCEPT ![s] = "none"]
    /\ clears' = [r \in Start |-> IF clears[r] = s THEN 0 ELSE clears[r]]
    /\ UNCHANGED <<client, listening, stops, loose>>

\* The listener is closed: every stop() that awaited it goes on, whatever the map holds by now.
Closes(s) ==
    /\ ends[s] # "none"
    /\ phase' = [r \in Start |-> IF r = s THEN "over" ELSE IF clears[r] = s THEN "probing" ELSE phase[r]]
    /\ client' = client \ {s}
    /\ inMap' = 0
    /\ shown' = ends[s]
    /\ ends' = [ends EXCEPT ![s] = "none"]
    /\ clears' = [r \in Start |-> IF clears[r] = s THEN 0 ELSE clears[r]]
    /\ UNCHANGED <<listening, stops, loose>>

\* The port is taken, by a tunnel or by somebody else.
PortInUse(s) ==
    /\ phase[s] = "probing"
    /\ phase' = [phase EXCEPT ![s] = "over"]
    /\ UNCHANGED <<inMap, listening, client, ends, clears, shown, stops, loose>>

\* The port is free: the object takes its place in the map.
PortIsFree(s) ==
    /\ phase[s] = "probing" /\ listening = {}
    /\ phase' = [phase EXCEPT ![s] = "starting"]
    /\ inMap' = s
    /\ shown' = "starting"
    /\ loose' = (loose \/ (inMap # 0 /\ phase[inMap] \in {"starting", "stopping"}))
    /\ UNCHANGED <<listening, client, ends, clears, stops>>

\* openConnection() fails: the object keeps its place.
OpenFails(s) ==
    /\ phase[s] = "starting"
    /\ phase' = [phase EXCEPT ![s] = IF inMap = s THEN "error" ELSE "over"]
    /\ shown' = "error"
    /\ UNCHANGED <<inMap, listening, client, ends, clears, stops, loose>>

Opened(s) ==
    /\ phase[s] = "starting" /\ listening = {}
    /\ phase' = [phase EXCEPT ![s] = "active"]
    /\ client' = client \cup {s} /\ listening' = {s}
    /\ shown' = "active"
    /\ UNCHANGED <<inMap, ends, clears, stops, loose>>

\* The port was taken in the meantime: stop() is of what the map holds.
BindFails(s) ==
    /\ phase[s] = "starting"
    /\ client' = client \cup {s}
    /\ Stops([phase EXCEPT ![s] = IF inMap = s THEN "stopping" ELSE "over"], listening, "stopped")
    /\ UNCHANGED <<clears, stops>>

\* fail() of the id: the object in the map is stopped, and its last state is an error.
Fails(bound) == Stops(phase, bound, "error")

\* The connection is lost, with an error or closed by the server: then only what is active in
\* the map fails.
ClientLost(s) ==
    /\ s \in client
    /\ client' = client \ {s}
    /\ \/ Fails(listening)
       \/ inMap = s /\ phase[s] = "active" /\ Fails(listening)
       \/ /\ ~(inMap = s /\ phase[s] = "active")
          /\ UNCHANGED <<phase, inMap, listening, ends, shown, loose>>
    /\ UNCHANGED <<clears, stops>>

\* The listener reports an error while nobody closes it.
ListenerFails(s) ==
    /\ s \in listening
    /\ Fails(listening)
    /\ UNCHANGED <<client, clears, stops>>

\* A local connection comes or goes, which publishes the state.
Forwards(s) ==
    /\ s \in listening
    /\ shown' = "active"
    /\ UNCHANGED <<phase, inMap, listening, client, ends, clears, stops, loose>>

Next ==
    \/ StopCalled
    \/ \E s \in Start :
          \/ Starts(s) \/ Closes(s) \/ PortInUse(s) \/ PortIsFree(s) \/ OpenFails(s) \/ Opened(s)
          \/ BindFails(s) \/ ClientLost(s) \/ ListenerFails(s) \/ Forwards(s)

Spec == Init /\ [][Next]_vars

(* ------------------------------- properties ------------------------------ *)

TypeOK ==
    /\ phase \in [Start -> {"new", "clearing", "probing", "starting", "active", "stopping", "error", "over"}]
    /\ inMap \in Start \cup {0} /\ clears \in [Start -> Start \cup {0}]
    /\ listening \subseteq Start /\ client \subseteq Start
    /\ ends \in [Start -> {"none", "stopped", "error"}]
    /\ shown \in {"starting", "active", "stopping", "stopped", "error"}
    /\ stops \in 0 .. MaxStops /\ loose \in BOOLEAN

\* A listener and a client are of the tunnel in the map and go with it, and the panel shows the
\* tunnel active exactly while both are there, as long as no tunnel lost its place while it was
\* starting or stopping.
NothingLoose ==
    loose \/ ( /\ listening \cup client \subseteq {inMap} \ {0}
               /\ shown = "active" <=> inMap # 0 /\ inMap \in listening \cap client )

\* A tunnel shown starting or stopping is: something will still be reported of it.
ShownSettles ==
    /\ shown = "starting" => \E s \in Start : phase[s] = "starting"
    /\ shown = "stopping" => \E s \in Start : ends[s] # "none"

(* ------------------------- the inductive invariant ------------------------ *)

\* What is bound, closing or awaited is what the phases say, whatever the map holds.
Phases ==
    /\ listening = {s \in Start : phase[s] = "active"}
    /\ \A s \in Start : ends[s] # "none" <=> phase[s] = "stopping"
    /\ \A s \in Start : clears[s] # 0 => phase[s] = "clearing"

\* Whoever is at work has the place in the map, as long as none lost it, and whoever has it is
\* at work or failed.
Places ==
    /\ \A s \in Start : phase[s] \in {"starting", "active", "stopping"} => inMap = s
    /\ inMap # 0 => phase[inMap] \in {"starting", "active", "stopping", "error"}
    /\ \A s \in Start : s \in client => phase[s] \in {"active", "stopping"}
    /\ \A s \in Start : phase[s] = "active" => s \in client
    /\ shown = "active" <=> inMap # 0 /\ phase[inMap] = "active"

\* What is shown is reported of the object in the map, or by whoever awaits a listener.
Reported ==
    /\ shown = "starting" => inMap # 0 /\ phase[inMap] = "starting"
    /\ shown = "stopping" => \E s \in Start : ends[s] # "none"

Inv == TypeOK /\ Phases /\ (loose \/ Places) /\ Reported
=============================================================================
