----------------------------- MODULE Workbench -----------------------------
(* The store behind the workbench (store.ts and its slices over tree.ts): the   *)
(* tree of collections, folders and requests, the drafts, the tabs of requests, *)
(* environments and terminals, and the connection profiles.  Every operation is *)
(* synchronous; ids are never used again.  The order of siblings, and what only *)
(* the explorer shows (expanded, renamed, revealed), are left out.              *)
EXTENDS Integers, Sequences, FiniteSets, SequencesExt

CONSTANTS
    Collections, Folders, Requests, Sockets, Environments, Sessions, Profiles, Tunnels,  \* ids
    Pools,    \* the sets of ids one of which is there to be given out
    Restarts, \* bound: how often the workspace is loaded again
    None      \* null

Containers == Collections \cup Folders
Leaves == Requests \cup Sockets
Nodes == Containers \cup Leaves

WorkbenchAssumption ==
    /\ Pools \subseteq SUBSET (Nodes \cup Environments \cup Sessions \cup Profiles \cup Tunnels)
    /\ None \notin Nodes \cup Environments \cup Sessions \cup Profiles \cup Tunnels

VARIABLES
    pool,         \* the ids that are not yet given out
    nodes, parent,  \* the ids of the tree; their parents, None for a collection and a scratch request
    content,      \* of a request: [name, body], where 0 is what a blank one has
    link,         \* the environment a collection is linked to
    drafts,       \* unsaved edits: a set of [id, name, parent, body]
    environments, activeEnvironment,
    open,         \* openRequestIds
    activeRequest, selected,
    envTabs, activeEnvTab, terminals, activeTerminal,
    profiles,     \* ids of the SSH profiles
    tunnels,      \* the tunnel profiles: a set of [id, profile, auto]
    restarts

tree == <<nodes, parent, content>>
links == <<link, environments>>
tabs == <<envTabs, activeEnvTab, terminals, activeTerminal>>
shown == <<open, activeRequest, selected, activeEnvironment>>
connections == <<profiles, tunnels>>
vars == <<pool, tree, links, drafts, shown, tabs, connections, restarts>>

blank == [name |-> 0, body |-> 0]

Init ==
    /\ pool \in Pools /\ nodes = {} /\ parent = [n \in Nodes |-> None]
    /\ content = [n \in Leaves |-> blank] /\ drafts = {}
    /\ link = [c \in Collections |-> None] /\ environments = {} /\ activeEnvironment = None
    /\ open = <<>> /\ activeRequest = None /\ selected = None
    /\ envTabs = <<>> /\ activeEnvTab = None /\ terminals = <<>> /\ activeTerminal = None
    /\ profiles = {} /\ tunnels = {} /\ restarts = 0

(* ------------------------------- the tree -------------------------------- *)

\* The containers above n (getAncestors), each the parent of the next.
Above(n) ==
    LET up[k \in 0..Cardinality(Folders) + 1] ==
          IF k = 0 THEN {parent[n]} \cap nodes
          ELSE up[k - 1] \cup ({parent[m] : m \in up[k - 1]} \cap nodes)
    IN up[Cardinality(Folders) + 1]

Subtree(n) == {m \in nodes : m = n \/ n \in Above(m)}

\* collectionIdOf(), and the environment linked to it: what n runs with.
Root(n) ==
    LET roots == (Above(n) \cup {n}) \cap Collections \cap nodes IN
    IF roots = {} THEN None ELSE CHOOSE c \in roots : TRUE

Linked(n) ==
    LET c == Root(n) IN
    IF c # None /\ link[c] \in environments THEN link[c] ELSE None

MayGo(n, to) ==
    \/ to = None /\ n \in Leaves
    \/ to \in Containers \cap nodes /\ (n \in Folders => to # n /\ n \notin Above(to))

DraftOf(r) == {d \in drafts : d.id = r}
Given(ids) == ids \subseteq pool /\ pool' = pool \ ids

(* -------------------------------- the tabs -------------------------------- *)

\* activateFor(): the environment of what is selected becomes the active one.
Follow(n) == activeEnvironment' = IF n = None THEN activeEnvironment ELSE Linked(n)'

Index(list, x) == CHOOSE i \in DOMAIN list : list[i] = x

\* The tab to activate once others are closed: the nearest to the left, else to the right.
Nearest(list, closing, active) ==
    LET at == IF active \in ToSet(list) THEN Index(list, active) ELSE 0
        left == {i \in 1..(at - 1) : list[i] \notin closing}
        right == {i \in (at + 1)..Len(list) : list[i] \notin closing}
    IN IF left # {} THEN list[CHOOSE i \in left : \A j \in left : j <= i]
       ELSE IF right # {} THEN list[CHOOSE i \in right : \A j \in right : i <= j]
       ELSE None

FirstOf(list) == IF list = <<>> THEN None ELSE list[1]
Kept(list, closing) == SelectSeq(list, LAMBDA x : x \notin closing)
AtMost(list, i) == IF list = <<>> THEN None ELSE list[IF i < Len(list) THEN i ELSE Len(list)]

\* openRequest(): a new tab goes after the active one.
Opens(n) ==
    /\ open' = IF n \in ToSet(open) THEN open
               ELSE IF activeRequest \in ToSet(open)
                    THEN InsertAt(open, Index(open, activeRequest) + 1, n)
                    ELSE Append(open, n)
    /\ activeRequest' = n /\ selected' = n /\ activeEnvTab' = None /\ Follow(n)
    /\ UNCHANGED <<envTabs, terminals, activeTerminal>>

OpenRequest(n) ==
    /\ n \in Leaves \cap nodes
    /\ UNCHANGED <<pool, tree, links, drafts, connections, restarts>>
    /\ Opens(n)

\* A blank scratch request disappears with its tab, if it has no unsaved edits.
Pristine(n) == parent[n] = None /\ content[n] = blank /\ DraftOf(n) = {}

CloseRequests(closing) ==
    LET dropped == {n \in closing : Pristine(n)}
        next == IF activeRequest \in closing THEN Nearest(open, closing, activeRequest)
                ELSE activeRequest
    IN /\ closing # {} /\ closing \subseteq ToSet(open)
       /\ open' = Kept(open, closing) /\ nodes' = nodes \ dropped
       /\ drafts' = {d \in drafts : d.id \notin closing}
       /\ activeRequest' = next
       /\ activeEnvTab' = IF activeRequest # None /\ next = None /\ activeTerminal = None
                              /\ envTabs # <<>>
                          THEN envTabs[1] ELSE activeEnvTab
       /\ UNCHANGED <<pool, parent, content, links, selected, envTabs, terminals, activeTerminal,
                      connections, restarts>>
       /\ \E n \in {next} : Follow(n)  \* the next one as it was before the step

\* setActiveRequest() and cycleRequest(); a click on a tab also leaves the terminal.
ActivateRequest(n) ==
    /\ n \in ToSet(open)
    /\ activeRequest' = n /\ selected' = n /\ activeEnvTab' = None
    /\ activeTerminal' \in {activeTerminal, None}
    /\ UNCHANGED <<pool, tree, links, drafts, open, envTabs, terminals, connections, restarts>>
    /\ Follow(n)

Moved(list, i, j) == InsertAt(RemoveAt(list, i), j, list[i])

MoveTab ==
    /\ \/ \E i, j \in DOMAIN open : open' = Moved(open, i, j) /\ UNCHANGED <<envTabs, terminals>>
       \/ \E i, j \in DOMAIN envTabs :
             envTabs' = Moved(envTabs, i, j) /\ UNCHANGED <<open, terminals>>
       \/ \E i, j \in DOMAIN terminals :
             terminals' = Moved(terminals, i, j) /\ UNCHANGED <<open, envTabs>>
    /\ UNCHANGED <<pool, tree, links, drafts, activeRequest, selected, activeEnvironment,
                   activeEnvTab, activeTerminal, connections, restarts>>

OpenEnvironmentTab(e) ==
    /\ e \in environments
    /\ envTabs' = IF e \in ToSet(envTabs) THEN envTabs ELSE Append(envTabs, e)
    /\ activeEnvTab' = e /\ activeRequest' = None /\ activeTerminal' = None
    /\ UNCHANGED <<pool, tree, links, drafts, open, selected, activeEnvironment, terminals,
                   connections, restarts>>

\* closeEnvironmentTabs(): without one left, a request takes over, or else a terminal.
ClosesEnvironmentTabs(closing) ==
    LET next == Nearest(envTabs, closing, activeEnvTab)
        last == activeEnvTab \in closing /\ next = None
    IN /\ envTabs' = Kept(envTabs, closing)
       /\ activeEnvTab' = IF activeEnvTab \in closing THEN next ELSE activeEnvTab
       /\ activeRequest' = IF last /\ open # <<>> THEN open[1] ELSE activeRequest
       /\ activeTerminal' = IF last /\ open = <<>> THEN FirstOf(terminals) ELSE activeTerminal

CloseEnvironmentTabs(closing) ==
    /\ closing # {} /\ closing \subseteq ToSet(envTabs) /\ ClosesEnvironmentTabs(closing)
    /\ UNCHANGED <<pool, tree, links, drafts, open, selected, activeEnvironment, terminals,
                   connections, restarts>>

OpenSshSession(s) ==
    /\ \/ s \in ToSet(terminals) /\ UNCHANGED <<pool, terminals>>
       \/ s \in Sessions /\ Given({s}) /\ terminals' = Append(terminals, s)
    /\ activeTerminal' = s /\ activeRequest' = None /\ activeEnvTab' = None
    /\ UNCHANGED <<tree, links, drafts, open, selected, activeEnvironment, envTabs, connections,
                   restarts>>

CloseSshSession(s) ==
    LET left == Kept(terminals, {s}) IN
    /\ s \in ToSet(terminals) /\ terminals' = left
    /\ activeTerminal' = IF activeTerminal # s THEN activeTerminal
                         ELSE AtMost(left, Index(terminals, s))
    /\ activeRequest' = IF activeTerminal = s /\ left = <<>> THEN FirstOf(open) ELSE activeRequest
    /\ UNCHANGED <<pool, tree, links, drafts, open, selected, activeEnvironment, envTabs,
                   activeEnvTab, connections, restarts>>

(* --------------------------- editing the requests ------------------------- *)

\* editRequest(): an edit back to what is saved drops the draft.  A socket has no drafts.
Edit(n, body) ==
    /\ n \in Leaves \cap nodes
    /\ IF n \in Sockets THEN content' = [content EXCEPT ![n].body = body] /\ UNCHANGED drafts
       ELSE /\ drafts' = (drafts \ DraftOf(n)) \cup
                 {[id |-> n, name |-> content[n].name, parent |-> parent[n], body |-> b] :
                    b \in {body} \ {content[n].body}}
            /\ UNCHANGED content
    /\ UNCHANGED <<pool, nodes, parent, links, shown, tabs, connections, restarts>>

DiscardDraft(n) ==
    /\ DraftOf(n) # {} /\ drafts' = drafts \ DraftOf(n)
    /\ UNCHANGED <<pool, tree, links, shown, tabs, connections, restarts>>

\* saveRequest() and commitSaved(), when nothing happens between the two (Persistence tells
\* what else may).
Save(n) ==
    \E d \in DraftOf(n) :
       /\ content' = [content EXCEPT ![n].body = d.body] /\ drafts' = drafts \ {d}
       /\ UNCHANGED <<pool, nodes, parent, links, shown, tabs, connections, restarts>>

(* ------------------------------- the explorer ----------------------------- *)

CreateCollection(c) ==
    /\ Given({c}) /\ nodes' = nodes \cup {c} /\ selected' = c
    /\ UNCHANGED <<parent, content, links, drafts, open, activeRequest, activeEnvironment, tabs,
                   connections, restarts>>

CreateFolder(f, to) ==
    /\ Given({f}) /\ to \in Containers \cap nodes
    /\ nodes' = nodes \cup {f} /\ parent' = [parent EXCEPT ![f] = to] /\ selected' = f
    /\ UNCHANGED <<content, links, drafts, open, activeRequest, activeEnvironment, tabs,
                   connections, restarts>>

\* createRequest(), createWebSocketRequest(), and the import of a request: it is opened.
CreateRequest(n, to) ==
    /\ Given({n}) /\ to \in (Containers \cap nodes) \cup {None}
    /\ nodes' = nodes \cup {n} /\ parent' = [parent EXCEPT ![n] = to]
    /\ UNCHANGED <<content, links, drafts, connections, restarts>>
    /\ Opens(n)

\* Variant: the draft keeps the name.
RenamedAlone(n) == drafts

\* The draft of a request takes its structure from what is saved.
Restructured(n) == {d \in drafts : d.id # n} \cup
    {[d EXCEPT !.name = content'[n].name, !.parent = parent'[n]] : d \in DraftOf(n)}

RenameNode(n) ==
    /\ n \in Leaves \cap nodes
    /\ content' = [content EXCEPT ![n].name = 1 - @] /\ UNCHANGED parent
    /\ drafts' = Restructured(n)
    /\ UNCHANGED <<pool, nodes, links, shown, tabs, connections, restarts>>

MoveNode(n, to) ==
    /\ n \in nodes \ Collections /\ MayGo(n, to)
    /\ parent' = [parent EXCEPT ![n] = to] /\ UNCHANGED content
    /\ drafts' = Restructured(n) /\ selected' = n
    /\ UNCHANGED <<pool, nodes, links, open, activeRequest, activeEnvironment, tabs, connections,
                   restarts>>

\* saveRequestAs(): a scratch request moves, of another a copy with its edits takes the tab.
SaveScratchAs(n, to) ==
    /\ n \in Leaves \cap nodes /\ parent[n] = None /\ to \in Containers \cap nodes
    /\ parent' = [parent EXCEPT ![n] = to] /\ content' = [content EXCEPT ![n].name = 1]
    /\ drafts' = Restructured(n) /\ selected' = n
    /\ UNCHANGED <<pool, nodes, links, open, activeRequest, activeEnvironment, tabs, connections,
                   restarts>>

Kind(n) == IF n \in Requests THEN Requests ELSE Sockets
Edited(n) == IF DraftOf(n) = {} THEN content[n].body ELSE (CHOOSE d \in DraftOf(n) : TRUE).body

SaveCopyAs(n, to, copy) ==
    /\ n \in Leaves \cap nodes /\ parent[n] # None /\ to \in Containers \cap nodes
    /\ copy \in Kind(n) /\ Given({copy})
    /\ nodes' = nodes \cup {copy} /\ parent' = [parent EXCEPT ![copy] = to]
    /\ content' = [content EXCEPT ![copy] = [name |-> 1, body |-> Edited(n)]]
    /\ open' = IF n \in ToSet(open) THEN [open EXCEPT ![Index(open, n)] = copy]
               ELSE Append(open, copy)
    /\ drafts' = drafts \ DraftOf(n)
    /\ activeRequest' = copy /\ selected' = copy /\ activeEnvTab' = None
    /\ UNCHANGED <<links, activeEnvironment, envTabs, terminals, activeTerminal, connections,
                   restarts>>

\* duplicateNode(): a copy of each node of the subtree, the root's beside the original.  The
\* copy of a request is opened.
Copies(n) ==
    {f \in [Subtree(n) -> pool] :
        /\ \A m, k \in Subtree(n) : f[m] = f[k] => m = k
        /\ \A m \in Subtree(n) : f[m] \in
              IF m \in Collections THEN Collections ELSE IF m \in Folders THEN Folders ELSE Kind(m)}

DuplicateNode(n) ==
    \E f \in Copies(n) :
       LET copied == {f[m] : m \in Subtree(n)}
           of == [x \in copied |-> CHOOSE m \in Subtree(n) : f[m] = x]
       IN /\ Given(copied) /\ nodes' = nodes \cup copied
          /\ parent' = [x \in Nodes |->
                IF x \notin copied THEN parent[x]
                ELSE IF of[x] = n THEN parent[n] ELSE f[parent[of[x]]]]
          /\ content' = [x \in Leaves |->
                IF x \notin copied THEN content[x]
                ELSE IF of[x] = n THEN [content[n] EXCEPT !.name = 1] ELSE content[of[x]]]
          /\ link' = [c \in Collections |-> IF c \in copied THEN link[of[c]] ELSE link[c]]
          /\ UNCHANGED environments
          /\ UNCHANGED <<drafts, connections, restarts>>
          /\ IF n \in Leaves THEN Opens(f[n])
             ELSE selected' = f[n] /\ UNCHANGED <<open, activeRequest, activeEnvironment, tabs>>

DeleteNode(n) ==
    LET gone == Subtree(n)
        left == Kept(open, gone)
        at == IF activeRequest \in ToSet(open) THEN Index(open, activeRequest) ELSE 0
    IN /\ n \in nodes /\ nodes' = nodes \ gone /\ drafts' = {d \in drafts : d.id \notin gone}
       /\ open' = left
       /\ activeRequest' = IF activeRequest \in gone THEN (IF at = 0 THEN None ELSE AtMost(left, at))
                           ELSE activeRequest
       /\ selected' = IF selected = n THEN None ELSE selected
       /\ UNCHANGED <<pool, parent, content, links, activeEnvironment, tabs, connections, restarts>>

\* selectNode() and revealNode().
SelectNode(n) ==
    /\ n \in nodes /\ selected' = n
    /\ UNCHANGED <<pool, tree, links, drafts, open, activeRequest, tabs, connections, restarts>>
    /\ Follow(n)

(* ----------------------------- the environments --------------------------- *)

\* createEnvironment(), duplicateEnvironment(), and the import of one.
CreateEnvironment(e) ==
    /\ e \in Environments /\ Given({e}) /\ environments' = environments \cup {e}
    /\ UNCHANGED <<tree, link, drafts, shown, tabs, connections, restarts>>

\* Variant: the links to it stay.
LinksKept(doomed) == link

Unlinked(doomed) == [c \in Collections |-> IF link[c] \in doomed THEN None ELSE link[c]]

DeleteEnvironments(doomed) ==
    /\ doomed # {} /\ doomed \subseteq environments
    /\ environments' = environments \ doomed /\ link' = Unlinked(doomed)
    /\ ClosesEnvironmentTabs(doomed)
    /\ activeEnvironment' = IF activeEnvironment \in doomed THEN None ELSE activeEnvironment
    /\ UNCHANGED <<pool, tree, drafts, open, selected, terminals, connections, restarts>>

LinkEnvironment(n, e) ==
    /\ n \in nodes /\ Root(n) # None /\ e \in environments \cup {None}
    /\ link' = [link EXCEPT ![Root(n)] = e] /\ UNCHANGED environments
    /\ UNCHANGED <<pool, tree, drafts, open, activeRequest, selected, tabs, connections, restarts>>
    /\ Follow(IF activeRequest # None THEN activeRequest ELSE selected)

(* ------------------------------- the profiles ----------------------------- *)

CreateSshProfile(p) ==  \* createSshProfile(), duplicateSshProfile()
    /\ p \in Profiles /\ Given({p}) /\ profiles' = profiles \cup {p}
    /\ UNCHANGED <<tree, links, drafts, shown, tabs, tunnels, restarts>>

\* The tunnels of a deleted profile are kept, without it.
DeleteSshProfile(p) ==
    /\ p \in profiles /\ profiles' = profiles \ {p}
    /\ tunnels' = {IF t.profile = p THEN [t EXCEPT !.profile = None, !.auto = FALSE] ELSE t :
                     t \in tunnels}
    /\ UNCHANGED <<pool, tree, links, drafts, shown, tabs, restarts>>

\* createTunnelProfile(), duplicateTunnelProfile(), updateTunnelProfile(): the dialog offers
\* the profiles there are.
CreateTunnel(t) ==
    /\ t \in Tunnels /\ Given({t})
    /\ \/ \E p \in profiles \cup {None} :
             tunnels' = tunnels \cup {[id |-> t, profile |-> p, auto |-> FALSE]}
       \/ \E u \in tunnels : tunnels' = tunnels \cup {[u EXCEPT !.id = t, !.auto = FALSE]}
    /\ UNCHANGED <<tree, links, drafts, shown, tabs, profiles, restarts>>

UpdateTunnel(t) ==
    /\ t \in tunnels
    /\ \E p \in profiles : tunnels' = (tunnels \ {t}) \cup {[t EXCEPT !.profile = p, !.auto = ~@]}
    /\ UNCHANGED <<pool, tree, links, drafts, shown, tabs, profiles, restarts>>

DeleteTunnel(t) ==
    /\ t \in tunnels /\ tunnels' = tunnels \ {t}
    /\ UNCHANGED <<pool, tree, links, drafts, shown, tabs, profiles, restarts>>

\* load(): the workspace as it was written, with its drafts; only the request tabs come back.
Load ==
    /\ restarts < Restarts /\ restarts' = restarts + 1
    /\ activeRequest' = FirstOf(open) /\ selected' = FirstOf(open)
    /\ envTabs' = <<>> /\ activeEnvTab' = None /\ terminals' = <<>> /\ activeTerminal' = None
    /\ UNCHANGED <<pool, tree, links, drafts, open, connections>>
    /\ Follow(FirstOf(open))

Next ==
    \/ \E n \in Leaves : OpenRequest(n) \/ ActivateRequest(n) \/ DiscardDraft(n) \/ Save(n)
    \/ \E closing \in SUBSET ToSet(open) : CloseRequests(closing)
    \/ \E closing \in SUBSET ToSet(envTabs) : CloseEnvironmentTabs(closing)
    \/ MoveTab \/ Load
    \/ \E e \in Environments : OpenEnvironmentTab(e) \/ CreateEnvironment(e)
    \/ \E s \in Sessions : OpenSshSession(s) \/ CloseSshSession(s)
    \/ \E n \in Leaves, body \in {0, 1} : Edit(n, body)
    \/ \E c \in Collections : CreateCollection(c)
    \/ \E f \in Folders, to \in Containers : CreateFolder(f, to)
    \/ \E n \in Leaves, to \in Containers \cup {None} : CreateRequest(n, to)
    \/ \E n \in Nodes, to \in Containers \cup {None} : MoveNode(n, to)
    \/ \E n \in Leaves, to \in Containers : SaveScratchAs(n, to)
    \/ \E n, copy \in Leaves, to \in Containers : SaveCopyAs(n, to, copy)
    \/ \E n \in nodes : RenameNode(n) \/ DuplicateNode(n) \/ DeleteNode(n) \/ SelectNode(n)
    \/ \E n \in Nodes, e \in Environments \cup {None} : LinkEnvironment(n, e)
    \/ \E doomed \in SUBSET environments : DeleteEnvironments(doomed)
    \/ \E p \in Profiles : CreateSshProfile(p) \/ DeleteSshProfile(p)
    \/ \E t \in Tunnels : CreateTunnel(t)
    \/ \E t \in tunnels : UpdateTunnel(t) \/ DeleteTunnel(t)

Spec == Init /\ [][Next]_vars

(* ------------------------------- properties ------------------------------- *)

\* Every variable has its type.
TypeOK ==
    /\ nodes \subseteq Nodes /\ parent \in [Nodes -> Containers \cup {None}]
    /\ content \in [Leaves -> [name : {0, 1}, body : {0, 1}]]
    /\ link \in [Collections -> Environments \cup {None}] /\ environments \subseteq Environments
    /\ drafts \subseteq [id : Requests, name : {0, 1}, parent : Containers \cup {None}, body : {0, 1}]
    /\ open \in Seq(Leaves) /\ envTabs \in Seq(Environments) /\ terminals \in Seq(Sessions)
    /\ selected \in Nodes \cup {None} /\ profiles \subseteq Profiles

\* Nothing refers to what is not there: the tabs, the one that is active of each kind, the
\* environments that are active or linked, and the profiles of the tunnels.
NothingDangles ==
    /\ IsInjective(open) /\ ToSet(open) \subseteq nodes
    /\ activeRequest \in ToSet(open) \cup {None}
    /\ IsInjective(envTabs) /\ ToSet(envTabs) \subseteq environments
    /\ activeEnvTab \in ToSet(envTabs) \cup {None}
    /\ activeTerminal \in ToSet(terminals) \cup {None}
    /\ activeEnvironment \in environments \cup {None}
    /\ \A c \in Collections \cap nodes : link[c] \in environments \cup {None}
    /\ \A t \in tunnels : t.profile \in profiles \/ (t.profile = None /\ ~t.auto)

\* The explorer reaches every node: each folder lies in a collection, and each request in a
\* container that is there, or among the scratch requests.
TreeIsRooted ==
    \A n \in nodes : (n \in Leaves /\ parent[n] = None) \/ Root(n) # None

\* An unsaved edit is of a request that is there, under its name and in its place.
DraftsFollow ==
    \A d \in drafts :
       /\ d.id \in nodes /\ d.name = content[d.id].name /\ d.parent = parent[d.id]
       /\ DraftOf(d.id) = {d}
=============================================================================
