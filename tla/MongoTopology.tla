---------------------------- MODULE MongoTopology ----------------------------
(* The search for the member of a replica set to talk to (connectToTopology,   *)
(* mongo-engine/src/topology.ts), while the set may elect another primary and  *)
(* its members learn of that one by one.                                       *)
EXTENDS Naturals, Sequences, Functions

CONSTANTS
    Host,       \* the servers
    Seeds,      \* the seed lists a connection may name
    Strangers,  \* servers that belong to another replica set
    MaxMoves,   \* bound: elections while the search goes on
    none

\* Assumed of the constants.
TopologyAssumption ==
    /\ Seeds \subseteq Seq(Host) /\ <<>> \notin Seeds
    /\ Strangers \subseteq Host
    /\ MaxMoves \in Nat
    /\ none \notin Host
    /\ (Host \cup {none}) \cap {"stranger", "nobody", "searching", "failed", "refused"} = {}

VARIABLES
    anyMember,  \* not wantsPrimary, or a direct connection
    queue,      \* the members to try, the next one first
    tried,      \* the members tried
    dials,      \* history: the members dialled, in order
    at,         \* the member being dialled, asked or left, or none
    hello,      \* what it said: none, "stranger", or the primary it names
    open,       \* the connections that are open
    result,     \* searching, a member, failed, refused (wrong password, or cancelled)
    lastError,  \* an error is remembered
    primary,    \* the member that is primary, or none
    sees,       \* the primary each member believes in
    reachable,  \* the members that answer
    moves       \* elections so far

search == <<anyMember, queue, tried, dials, at, hello, open, result, lastError>>
world == <<primary, sees, reachable, moves>>
vars == <<search, world>>

Members == Host \ Strangers

Init ==
    /\ anyMember \in BOOLEAN
    /\ queue \in Seeds
    /\ tried = {} /\ dials = <<>> /\ at = none /\ hello = none /\ open = {}
    /\ result = "searching" /\ lastError = FALSE
    /\ primary \in Members \cup {none}
    /\ sees = [h \in Host |-> primary]
    /\ reachable \in SUBSET Host
    /\ moves = 0

(* -------------------------------- the search ------------------------------ *)

\* The next member of the queue, unless it was tried.
Skips ==
    /\ result = "searching" /\ at = none /\ queue # <<>> /\ Head(queue) \in tried
    /\ queue' = Tail(queue)
    /\ UNCHANGED <<anyMember, tried, dials, at, hello, open, result, lastError, world>>

Dials ==
    /\ result = "searching" /\ at = none /\ queue # <<>> /\ Head(queue) \notin tried
    /\ at' = Head(queue) /\ queue' = Tail(queue)
    /\ tried' = tried \cup {Head(queue)}
    /\ dials' = Append(dials, Head(queue))
    /\ UNCHANGED <<anyMember, hello, open, result, lastError, world>>

\* The member does not answer, or not as it should.
DialFails ==
    /\ at # none /\ hello = none
    /\ at' = none
    /\ lastError' = TRUE
    /\ at \notin reachable
    /\ UNCHANGED <<anyMember, queue, tried, dials, hello, open, result, world>>

\* A wrong password, or a search that is cancelled.
Refused ==
    /\ at # none /\ hello = none
    /\ result' = "refused" /\ at' = none
    /\ UNCHANGED <<anyMember, queue, tried, dials, hello, open, lastError, world>>

\* The handshake: what the member says of itself is of this moment.
Says(h) ==
    IF h \in Strangers THEN "stranger" ELSE IF sees[h] = none THEN "nobody" ELSE sees[h]

Connects ==
    /\ at \in reachable /\ hello = none
    /\ open' = open \cup {at}
    /\ hello' = Says(at)
    /\ UNCHANGED <<anyMember, queue, tried, dials, at, result, lastError, world>>

Suits == hello # "stranger" /\ (anyMember \/ hello = at)

\* The primary a member names is the next to try.
Ahead == IF hello \in Host \ tried THEN <<hello>> \o queue ELSE queue

\* Variant: a member that is left keeps its connection.
LeavesOpen ==
    /\ hello # none /\ ~Suits
    /\ queue' = Ahead
    /\ lastError' = (lastError \/ hello \in {"stranger", "nobody"})
    /\ at' = none /\ hello' = none
    /\ UNCHANGED <<anyMember, tried, dials, open, result, world>>

\* A member that does not suit is closed, which takes the time of an await.
Leaves ==
    /\ hello # none /\ ~Suits
    /\ open' = open \ {at}
    /\ queue' = Ahead
    /\ lastError' = (lastError \/ hello \in {"stranger", "nobody"})
    /\ at' = none /\ hello' = none
    /\ UNCHANGED <<anyMember, tried, dials, result, world>>

Finds ==
    /\ hello # none /\ Suits
    /\ result' = at
    /\ at' = none /\ hello' = none
    /\ UNCHANGED <<anyMember, queue, tried, dials, open, lastError, world>>

Fails ==
    /\ result = "searching" /\ at = none /\ queue = <<>>
    /\ result' = "failed"
    /\ UNCHANGED <<anyMember, queue, tried, dials, at, hello, open, lastError, world>>

(* ----------------------------- the replica set ---------------------------- *)

\* Another primary is elected, or none is left; the members do not know it yet.
Elects ==
    /\ result = "searching" /\ moves < MaxMoves
    /\ moves' = moves + 1
    /\ \E p \in (Members \cup {none}) \ {primary} :
        /\ primary' = p
        /\ sees' = [h \in Host |-> IF h = p THEN p ELSE IF sees[h] = h THEN none ELSE sees[h]]
    /\ UNCHANGED <<search, reachable>>

Learns(h) ==
    /\ result = "searching" /\ sees[h] # primary
    /\ sees' = [sees EXCEPT ![h] = primary]
    /\ UNCHANGED <<search, primary, reachable, moves>>

Searches == Skips \/ Dials \/ DialFails \/ Refused \/ Connects \/ Leaves \/ Finds \/ Fails

Next == Searches \/ Elects \/ \E h \in Members : Learns(h)

\* A connect ends one way or the other, by its time limit if need be.
TopologySpec == Init /\ [][Next]_vars /\ WF_search(Searches)

(* ------------------------------- properties ------------------------------ *)

TypeOK ==
    /\ anyMember \in BOOLEAN /\ lastError \in BOOLEAN
    /\ queue \in Seq(Host) /\ dials \in Seq(Host)
    /\ tried \subseteq Host /\ open \subseteq Host
    /\ at \in Host \cup {none}
    /\ hello \in Host \cup {none, "stranger", "nobody"}
    /\ result \in Host \cup {"searching", "failed", "refused"}
    /\ primary \in Members \cup {none} /\ sees \in [Host -> Members \cup {none}]
    /\ reachable \subseteq Host /\ moves \in 0 .. MaxMoves

\* No member is dialled twice, whatever they say of each other, and no connection is left
\* open but the one that was found.
NothingLeftOpen ==
    /\ IsInjective(dials)
    /\ open = (IF result \in Host THEN {result} ELSE IF hello = none THEN {} ELSE {at})

\* While the set keeps its primary, a search that needs it finds it unless it does not
\* answer, or no member that was tried could name it; and a search in vain says why.
PrimaryIsFound ==
    moves = 0 /\ ~anyMember /\ result = "failed" =>
        lastError /\ (primary \in reachable => tried \cap Members \cap reachable = {})

\* The search ends.
SearchEnds == <>(result # "searching")
=============================================================================
