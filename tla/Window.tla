-------------------------------- MODULE Window -------------------------------
(* The window, as far as it is proved about: the workspaces it keeps            *)
(* (Persistence), and what its tabs have at work elsewhere: the shell of an SSH *)
(* terminal, a tunnel, the socket of a WebSocket tab, the session of an MQTT    *)
(* request and the request a tab is sending.  MCApp adds the components that    *)
(* are only model-checked.  A behaviour is one of one component, which part     *)
(* names.  A section for each component has what is proved about it, and the    *)
(* last composes them.                                                          *)
EXTENDS Persistence, TLAPS

CONSTANTS
    OpensOfTerminal, CallsOfTerminal,  \* bounds of an SSH terminal: its attempts, its calls
    StartsOfTunnel, StopsOfTunnel,     \* bounds of a tunnel
    ConnectsOfSocket, UsesOfSocket,    \* bounds of a WebSocket tab: attempts, what the user does
    SocketRetries,                     \* whether the tab reconnects by itself
    ConnectsOfMqtt, LeavesOfMqtt, LossesOfMqtt,  \* bounds of an MQTT request
    SendsOfRequest                     \* bound of a request: how often it is sent

\* The variables of Persistence are its own; the other parts share the rest, which stand for other
\* things in each, and what a part does not need stays 0.  A state is thus one of a single
\* component.
VARIABLES part, v1, v2, v3, v4, v5, v6, v7, v8, v9, v10, v11, v12, v13, v14, v15, v16, v17, v18,
          v19, v20, v21

(* ----------------------------- the workspaces ------------------------------ *)
(* Isolated is not inductive: a write puts into a workspace what its operation  *)
(* holds, so the invariant says of everything an operation holds, and of the    *)
(* store, which workspace it is of.                                             *)

\* The fields of an operation, and the steps of a save before what it was begun for goes on.
OpFields == {"kind", "pc", "next", "w", "obj", "base", "req", "from", "reqs", "entries", "ids",
             "list", "ok", "own", "outlasted"}
Saving == {"save", "look", "batched", "indexing", "indexed"}

\* A workspace in memory, and an operation that is under way, are records of their fields.
IsObject(x) ==
    /\ DOMAIN x = {"id", "rev", "copy", "reqs"} /\ x = [f \in DOMAIN x |-> x[f]]
    /\ x.id \in Workspaces
    /\ DOMAIN x.reqs = Requests /\ x.reqs = [r \in DOMAIN x.reqs |-> x.reqs[r]]
IsOperation(o) ==
    /\ DOMAIN o = OpFields /\ o = [f \in DOMAIN o |-> o[f]]
    /\ IsObject(o.obj) /\ IsObject(o.base) /\ o.w \in Workspaces /\ o.from \in Workspaces
    /\ DOMAIN o.list = Workspaces

\* What is answered next, by what is under way.
Routed(o) ==
    /\ o.pc \in Saving => o.next \in {"left", "committed", "flushed", "made", "copied"}
    /\ o.pc \in {"read", "shell", "records"} => o.next = "got"
    /\ o.pc \in {"list", "listing"} => o.next \in {"listed", "ended"}

\* The versions of v were made in workspace w or copied into it.
Own(h, v, w) == \A r \in Requests : v[r] \in h[w] \cup {0}

\* The requests an operation holds are of the workspace it will put them into: those of its
\* object, except while the object is only the list of a shell that is being read; the drafts it
\* leaves; the records or drafts it has read; and what a save is based on.
Holds(h, o) ==
    /\ o.pc \notin {"shell", "records"} => Own(h, o.obj.reqs, o.obj.id)
    /\ Own(h, o.base.reqs, o.base.id)
    /\ o.pc \in {"records", "loading"} => Own(h, o.reqs, o.obj.id)
    /\ o.pc = "left" \/ (o.pc \in Saving /\ o.next = "left") => Own(h, o.reqs, o.from)
    /\ o.pc = "committed" \/ (o.pc \in Saving /\ o.next = "committed") =>
          o.base.id = o.obj.id /\ o.req \in Requests

\* All that is said of one operation, when h is what belongs to each workspace.
Sound(h, o) == IsOperation(o) /\ Routed(o) /\ Holds(h, o)

\* What is stored under the keys of a workspace is of that workspace: Isolated.
DiskInv ==
    /\ DOMAIN rec = Workspaces /\ DOMAIN kept = Workspaces /\ DOMAIN index = Workspaces
    /\ rec = [w \in DOMAIN rec |-> rec[w]] /\ kept = [w \in DOMAIN kept |-> kept[w]]
    /\ \A w \in Workspaces : Own(home, rec[w], w) /\ Own(home, kept[w], w)

\* What the workbench holds is of the workspace it is in.
StoreInv ==
    /\ IsObject(ws) /\ Own(home, ws.reqs, ws.id)
    /\ DOMAIN drafts = Requests /\ drafts = [r \in DOMAIN drafts |-> drafts[r]]
    /\ Own(home, drafts, ws.id)

\* Every operation under way is sound.
OperationsInv ==
    /\ DOMAIN op = Slots /\ op = [s \in DOMAIN op |-> op[s]]
    /\ \A s \in Slots : Sound(home, op[s])

\* What belongs to each workspace is a function of the workspace.
HomeInv == DOMAIN home = Workspaces /\ home = [w \in DOMAIN home |-> home[w]]

\* The inductive invariant.
Inv == DiskInv /\ StoreInv /\ OperationsInv /\ HomeInv

\* A step in which every workspace goes on holding what it held.
Grown == HomeInv /\ HomeInv' /\ \A w \in Workspaces : home[w] \subseteq home'[w]

(* -------------------------- proofs: the operators ------------------------ *)

\* What is of a workspace stays of it: versions are made in a workspace and never leave it.
LEMMA OwnGrows ==
    ASSUME Grown, NEW v, NEW w \in Workspaces, Own(home, v, w)
    PROVE  Own(home', v, w)
  BY DEF Grown, Own

\* So an operation that is sound stays sound when others make something.
LEMMA SoundGrows ==
    ASSUME Grown, NEW o, Sound(home, o)
    PROVE  Sound(home', o)
<1>1. Own(home', o.base.reqs, o.base.id)
  BY OwnGrows DEF Sound, Holds, IsOperation, IsObject
<1>2. o.pc \notin {"shell", "records"} => Own(home', o.obj.reqs, o.obj.id)
  BY OwnGrows DEF Sound, Holds, IsOperation, IsObject
<1>3. o.pc \in {"records", "loading"} => Own(home', o.reqs, o.obj.id)
  BY OwnGrows DEF Sound, Holds, IsOperation, IsObject
<1>4. o.pc = "left" \/ (o.pc \in Saving /\ o.next = "left") => Own(home', o.reqs, o.from)
  BY OwnGrows DEF Sound, Holds, IsOperation
<1> QED
  BY <1>1, <1>2, <1>3, <1>4 DEF Sound, Holds

\* A slot in which nothing is under way holds nothing.
LEMMA IdleSound == ASSUME NEW h PROVE Sound(h, idle)
<1>1. IsObject(nothing)
  BY PersistenceAssumption DEF IsObject, nothing, empty
<1>2. IsOperation(idle)
  BY <1>1, PersistenceAssumption DEF IsOperation, idle, OpFields, noList
<1>3. Routed(idle)
  BY DEF Routed, idle, Saving
<1>4. Holds(h, idle)
  BY DEF Holds, idle, Own, nothing, empty, Saving
<1> QED
  BY <1>2, <1>3, <1>4 DEF Sound

\* One operation goes on, and the others stay as they are.
LEMMA Becoming ==
    ASSUME OperationsInv, Grown, NEW s \in Slots, NEW o, Sound(home', o), op' = [op EXCEPT ![s] = o]
    PROVE  OperationsInv'
<1>1. DOMAIN op' = Slots /\ op' = [t \in DOMAIN op' |-> op'[t]]
  BY DEF OperationsInv
<1>2. ASSUME NEW t \in Slots PROVE Sound(home', op'[t])
  <2>1. op'[t] = IF t = s THEN o ELSE op[t]
    BY DEF OperationsInv
  <2> QED
    BY <2>1, SoundGrows DEF OperationsInv
<1> QED
  BY <1>1, <1>2 DEF OperationsInv

\* A step that makes nothing takes nothing away.
LEMMA SameHome == HomeInv /\ home' = home => Grown
  BY DEF Grown, HomeInv

\* A step of one operation that touches neither what is stored nor what the workbench holds.
LEMMA GrowingOperation ==
    ASSUME Inv, Grown, NEW s \in Slots, NEW o, Sound(home', o), op' = [op EXCEPT ![s] = o],
           rec' = rec, kept' = kept, ws' = ws, drafts' = drafts, DOMAIN index' = Workspaces
    PROVE  Inv'
<1>1. OperationsInv'
  BY Becoming DEF Inv
<1>2. \A w \in Workspaces : Own(home', rec'[w], w) /\ Own(home', kept'[w], w)
  BY OwnGrows DEF Inv, DiskInv
<1>3. Own(home', ws'.reqs, ws'.id) /\ Own(home', drafts', ws'.id)
  BY OwnGrows DEF Inv, StoreInv, IsObject
<1> QED
  BY <1>1, <1>2, <1>3 DEF Inv, DiskInv, StoreInv, Grown

\* The same when it makes nothing.
LEMMA OnlyOperation ==
    ASSUME Inv, NEW s \in Slots, NEW o, Sound(home, o), op' = [op EXCEPT ![s] = o],
           home' = home, rec' = rec, kept' = kept, ws' = ws, drafts' = drafts,
           DOMAIN index' = Workspaces
    PROVE  Inv'
  BY SameHome, GrowingOperation DEF Inv

\* What is made in a workspace is of it.
LEMMA MadeGrows ==
    ASSUME HomeInv, NEW w \in Workspaces, NEW v, Made(w, v)
    PROVE  Grown /\ v \subseteq home'[w]
  BY DEF Grown, HomeInv, Made

(* --------------------------- proofs: the steps --------------------------- *)

\* Requests to the store that read, and what follows the answers.
LEMMA AtStore ==
    ASSUME Inv, NEW s \in Slots,
           \/ Batched(s) \/ Indexing(s) \/ Indexed(s) \/ List(s) \/ Listing(s)
           \/ Read(s) \/ Shell(s) \/ Records(s) \/ Deleted(s) \/ Unindex(s)
    PROVE  Inv'
<1> DEFINE o == op[s]
<1>0. Sound(home, o) /\ DOMAIN index = Workspaces
  BY DEF Inv, DiskInv, OperationsInv
<1> USE DEF Becomes, Goes, To
<1>1. CASE Batched(s)
  <2>1. CASE o.ok
    <3> DEFINE p == [o EXCEPT !.pc = "indexing", !.list = index]
    <3>1. op' = [op EXCEPT ![s] = p] /\ o.pc = "batched"
      BY <1>1, <2>1 DEF Batched, At
    <3>2. Sound(home, p)
      BY <1>0, <3>1 DEF Sound, IsOperation, OpFields, Routed, Holds, Saving
    <3> QED
      BY <1>0, <1>1, <3>1, <3>2, OnlyOperation DEF Batched, records, keys, store
  <2>2. CASE ~o.ok
    <3> DEFINE p == [o EXCEPT !.pc = o.next]
    <3>1. op' = [op EXCEPT ![s] = p] /\ o.pc = "batched"
      BY <1>1, <2>2 DEF Batched, At
    <3>2. Sound(home, p)
      BY <1>0, <3>1 DEF Sound, IsOperation, OpFields, Routed, Holds, Saving
    <3> QED
      BY <1>0, <1>1, <3>1, <3>2, OnlyOperation DEF Batched, records, keys, store
  <2> QED
    BY <2>1, <2>2
<1>2. CASE Indexing(s)
  <2>1. PICK ok \in BOOLEAN :
          /\ index' = IF ok THEN [o.list EXCEPT ![o.obj.id] = o.obj.rev] ELSE index
          /\ op' = [op EXCEPT ![s] = [o EXCEPT !.pc = "indexed", !.ok = ok]]
    BY <1>2 DEF Indexing
  <2> DEFINE p == [o EXCEPT !.pc = "indexed", !.ok = ok]
  <2>2. o.pc = "indexing"
    BY <1>2 DEF Indexing, At
  <2>3. Sound(home, p)
    BY <1>0, <2>2 DEF Sound, IsOperation, OpFields, Routed, Holds, Saving
  <2>4. DOMAIN index' = Workspaces
    BY <1>0, <2>1 DEF Sound, IsOperation
  <2> QED
    BY <1>2, <2>1, <2>3, <2>4, OnlyOperation DEF Indexing, records, store
<1>3. CASE Indexed(s)
  <2> DEFINE p == [o EXCEPT !.pc = o.next]
  <2>1. op' = [op EXCEPT ![s] = p] /\ o.pc = "indexed"
    BY <1>3 DEF Indexed, At
  <2>2. Sound(home, p)
    BY <1>0, <2>1 DEF Sound, IsOperation, OpFields, Routed, Holds, Saving
  <2> QED
    BY <1>0, <1>3, <2>1, <2>2, OnlyOperation DEF Indexed, records, keys, store
<1>4. CASE List(s)
  <2> DEFINE p == [o EXCEPT !.pc = "listing", !.list = index]
  <2>1. op' = [op EXCEPT ![s] = p] /\ o.pc = "list"
    BY <1>4 DEF List, At
  <2>2. Sound(home, p)
    BY <1>0, <2>1 DEF Sound, IsOperation, OpFields, Routed, Holds, Saving
  <2> QED
    BY <1>0, <1>4, <2>1, <2>2, OnlyOperation DEF List, records, keys, store
<1>5. CASE Listing(s)
  <2> DEFINE there == {w \in Workspaces : Stored(w)}
             missing == there \ Ids(o.list)
             live == [w \in Workspaces |->
                        IF w \in missing THEN shell[w].rev ELSE IF w \in there THEN o.list[w] ELSE 0]
  <2>1. PICK ok \in BOOLEAN :
          /\ index' = IF ok /\ live # o.list THEN live ELSE index
          /\ op' = [op EXCEPT ![s] = [o EXCEPT !.pc = o.next, !.list = IF ok THEN live ELSE noList]]
    BY <1>5 DEF Listing
  <2>d. DOMAIN live = Workspaces
    OBVIOUS
  <2> HIDE DEF live
  <2> DEFINE p == [o EXCEPT !.pc = o.next, !.list = IF ok THEN live ELSE noList]
  <2>2. o.pc = "listing"
    BY <1>5 DEF Listing, At
  <2>3. Sound(home, p)
    BY <1>0, <2>1, <2>2, <2>d DEF Sound, IsOperation, OpFields, Routed, Holds, Saving, noList
  <2>4. DOMAIN index' = Workspaces
    BY <1>0, <2>1, <2>d
  <2> QED
    BY <1>5, <2>1, <2>3, <2>4, OnlyOperation DEF Listing, records, store
<1>6. CASE Read(s)
  <2> DEFINE x == [nothing EXCEPT !.id = o.w, !.rev = shell[o.w].rev,
                       !.reqs = [r \in Requests |-> IF r \in shell[o.w].reqs THEN 1 ELSE 0]]
             p == [o EXCEPT !.pc = "shell", !.obj = x]
  <2>1. op' = [op EXCEPT ![s] = p] /\ o.pc = "read"
    BY <1>6 DEF Read, At
  <2>2. IsObject(x)
    BY <1>0 DEF Sound, IsOperation, IsObject, nothing
  <2> HIDE DEF x
  <2>3. Sound(home, p)
    BY <1>0, <2>1, <2>2 DEF Sound, IsOperation, OpFields, Routed, Holds, Saving
  <2> QED
    BY <1>0, <1>6, <2>1, <2>3, OnlyOperation DEF Read, records, keys, store
<1>7. CASE Shell(s)
  <2>1. PICK ok \in BOOLEAN :
          op' = [op EXCEPT ![s] =
                   IF ok /\ o.obj.rev # 0 THEN [o EXCEPT !.pc = "records", !.reqs = rec[o.obj.id]]
                   ELSE [o EXCEPT !.pc = o.next, !.obj = nothing, !.ok = ok]]
    BY <1>7 DEF Shell
  <2>2. o.pc = "shell" /\ o.next = "got"
    BY <1>0, <1>7 DEF Shell, At, Sound, Routed
  <2>3. Own(home, rec[o.obj.id], o.obj.id)
    BY <1>0 DEF Sound, IsOperation, IsObject, Inv, DiskInv
  <2>4. Sound(home, [o EXCEPT !.pc = "records", !.reqs = rec[o.obj.id]])
    BY <1>0, <2>2, <2>3 DEF Sound, IsOperation, OpFields, Routed, Holds, Saving
  <2>5. IsObject(nothing) /\ Own(home, nothing.reqs, nothing.id)
    BY IdleSound DEF Sound, IsOperation, Holds, idle
  <2>6. Sound(home, [o EXCEPT !.pc = o.next, !.obj = nothing, !.ok = ok])
    BY <1>0, <2>2, <2>5 DEF Sound, IsOperation, OpFields, Routed, Holds, Saving
  <2> QED
    BY <1>0, <1>7, <2>1, <2>4, <2>6, OnlyOperation DEF Shell, records, keys, store
<1>8. CASE Records(s)
  <2> DEFINE read == [r \in Requests |-> IF o.obj.reqs[r] # 0 THEN o.reqs[r] ELSE 0]
             x == [o.obj EXCEPT !.copy = copies', !.reqs = read]
             p == [o EXCEPT !.pc = o.next, !.ok = TRUE, !.obj = x]
  <2>1. op' = [op EXCEPT ![s] = p] /\ o.pc = "records" /\ o.next = "got"
    BY <1>0, <1>8 DEF Records, At, Sound, Routed
  <2>2. IsObject(x) /\ x.id = o.obj.id /\ x.reqs = read
    BY <1>0 DEF Sound, IsOperation, IsObject
  <2>3. Own(home, x.reqs, x.id)
    BY <1>0, <2>1, <2>2 DEF Sound, Holds, Own
  <2> HIDE DEF x
  <2>4. Sound(home, p)
    BY <1>0, <2>1, <2>2, <2>3 DEF Sound, IsOperation, OpFields, Routed, Holds, Saving
  <2> QED
    BY <1>0, <1>8, <2>1, <2>4, OnlyOperation DEF Records, records, keys, store
<1>9. CASE Deleted(s)
  <2> DEFINE p == [o EXCEPT !.pc = "unindexing", !.list = index]
  <2>1. op' = [op EXCEPT ![s] = p] /\ o.pc = "deleted"
    BY <1>9 DEF Deleted, At
  <2>2. Sound(home, p)
    BY <1>0, <2>1 DEF Sound, IsOperation, OpFields, Routed, Holds, Saving
  <2> QED
    BY <1>0, <1>9, <2>1, <2>2, OnlyOperation DEF Deleted, records, keys, store
<1>10. CASE Unindex(s)
  <2> DEFINE p == [o EXCEPT !.pc = "list", !.next = "listed"]
  <2>1. op' = [op EXCEPT ![s] = p] /\ o.pc = "unindexing" /\ index' = [o.list EXCEPT ![o.w] = 0]
    BY <1>10 DEF Unindex, At
  <2>2. Sound(home, p)
    BY <1>0, <2>1 DEF Sound, IsOperation, OpFields, Routed, Holds, Saving
  <2>3. DOMAIN index' = Workspaces
    BY <1>0, <2>1 DEF Sound, IsOperation
  <2> QED
    BY <1>10, <2>1, <2>2, <2>3, OnlyOperation DEF Unindex, records, store
<1> QED
  BY <1>1, <1>2, <1>3, <1>4, <1>5, <1>6, <1>7, <1>8, <1>9, <1>10

\* saveWorkspace() writes the requests of its object under the object's own id.
LEMMA BatchKeeps ==
    ASSUME Inv, NEW s \in Slots, NEW same, NEW existing, Batch(s, same, existing),
           op[s].pc \in {"save", "look"}, home' = home, index' = index, kept' = kept,
           ws' = ws, drafts' = drafts
    PROVE  Inv'
<1> DEFINE o == op[s]
           x == op[s].obj
<1>0. Sound(home, o) /\ x.id \in Workspaces /\ Own(home, x.reqs, x.id)
  BY DEF Inv, OperationsInv, Sound, IsOperation, IsObject, Holds
<1>1. PICK ok \in BOOLEAN :
         /\ IF ok
            THEN rec' = [rec EXCEPT ![x.id] = [r \in Requests |->
                    IF r \in (Ids(x.reqs) \ same) \cup (existing \ Ids(x.reqs)) THEN x.reqs[r] ELSE @[r]]]
            ELSE rec' = rec
         /\ op' = [op EXCEPT ![s] = [o EXCEPT !.pc = "batched", !.ok = ok]]
  BY DEF Batch, Becomes, records
<1>2. Sound(home, [o EXCEPT !.pc = "batched", !.ok = ok])
  BY <1>0 DEF Sound, IsOperation, OpFields, Routed, Holds, Saving
<1>3. OperationsInv' /\ HomeInv'
  BY <1>1, <1>2, Becoming, SameHome DEF Inv, HomeInv
<1>4. DOMAIN rec' = Workspaces /\ rec' = [w \in DOMAIN rec' |-> rec'[w]]
  BY <1>1 DEF Inv, DiskInv
<1>5. ASSUME NEW w \in Workspaces PROVE Own(home', rec'[w], w)
  <2>1. CASE ok /\ w = x.id
    <3>1. rec'[w] = [r \in Requests |->
            IF r \in (Ids(x.reqs) \ same) \cup (existing \ Ids(x.reqs)) THEN x.reqs[r] ELSE rec[w][r]]
      BY <1>1, <2>1 DEF Inv, DiskInv
    <3>2. Own(home, rec[w], w)
      BY DEF Inv, DiskInv
    <3> QED
      BY <1>0, <2>1, <3>1, <3>2 DEF Own
  <2>2. CASE ~(ok /\ w = x.id)
    <3>1. rec'[w] = rec[w]
      BY <1>1, <2>2 DEF Inv, DiskInv
    <3> QED
      BY <3>1 DEF Inv, DiskInv
  <2> QED
    BY <2>1, <2>2
<1> QED
  BY <1>3, <1>4, <1>5 DEF Inv, DiskInv, StoreInv

\* The writes: the begin of a save, its batch, a deletion, the drafts that are left behind.
LEMMA Writes ==
    ASSUME Inv, NEW s \in Slots, BeginSave(s) \/ Look(s) \/ Delete(s) \/ Left(s)
    PROVE  Inv'
<1> DEFINE o == op[s]
<1>0. Sound(home, o) /\ DOMAIN index = Workspaces
  BY DEF Inv, DiskInv, OperationsInv
<1>1. CASE BeginSave(s)
  <2>1. o.pc = "save"
    BY <1>1 DEF BeginSave, At
  <2>2. CASE known[o.obj.id] = Unknown
    <3> DEFINE p == [o EXCEPT !.pc = "look", !.ids = Ids(rec[o.obj.id])]
    <3>1. op' = [op EXCEPT ![s] = p] /\ rec' = rec
      BY <1>1, <2>2 DEF BeginSave, Becomes, records
    <3>2. Sound(home, p)
      BY <1>0, <2>1 DEF Sound, IsOperation, OpFields, Routed, Holds, Saving
    <3> QED
      BY <1>0, <1>1, <3>1, <3>2, OnlyOperation DEF BeginSave, keys, store
  <2>3. CASE known[o.obj.id] # Unknown
    BY <1>1, <2>1, <2>3, BatchKeeps DEF BeginSave, keys, store
  <2> QED
    BY <2>2, <2>3
<1>2. CASE Look(s)
  BY <1>2, BatchKeeps DEF Look, At, keys, store
<1>3. CASE Delete(s)
  <2>1. PICK ok \in BOOLEAN :
          /\ IF ok
             THEN /\ rec' = [rec EXCEPT ![o.w] = [r \in Requests |-> IF r \in o.ids THEN 0 ELSE @[r]]]
                  /\ kept' = [kept EXCEPT ![o.w] = empty]
             ELSE rec' = rec /\ kept' = kept
          /\ op' = [op EXCEPT ![s] = [o EXCEPT !.pc = IF ok THEN "deleted" ELSE "ended"]]
    BY <1>3 DEF Delete, Becomes, records
  <2>2. o.pc = "deleting" /\ home' = home /\ index' = index /\ ws' = ws /\ drafts' = drafts
    BY <1>3 DEF Delete, At, keys, store
  <2>3. Sound(home, [o EXCEPT !.pc = IF ok THEN "deleted" ELSE "ended"])
    BY <1>0, <2>2 DEF Sound, IsOperation, OpFields, Routed, Holds, Saving
  <2>4. OperationsInv' /\ HomeInv'
    BY <2>1, <2>2, <2>3, Becoming, SameHome DEF Inv, HomeInv
  <2>5. /\ DOMAIN rec' = Workspaces /\ rec' = [w \in DOMAIN rec' |-> rec'[w]]
        /\ DOMAIN kept' = Workspaces /\ kept' = [w \in DOMAIN kept' |-> kept'[w]]
    BY <2>1 DEF Inv, DiskInv
  <2>6. ASSUME NEW w \in Workspaces PROVE Own(home', rec'[w], w) /\ Own(home', kept'[w], w)
    <3>1. Own(home, rec[w], w) /\ Own(home, kept[w], w)
      BY DEF Inv, DiskInv
    <3>2. CASE ok /\ w = o.w
      <4>1. rec'[w] = [r \in Requests |-> IF r \in o.ids THEN 0 ELSE rec[w][r]] /\ kept'[w] = empty
        BY <2>1, <3>2 DEF Inv, DiskInv
      <4> QED
        BY <2>2, <3>1, <4>1 DEF Own, empty
    <3>3. CASE ~(ok /\ w = o.w)
      <4>1. rec'[w] = rec[w] /\ kept'[w] = kept[w]
        BY <2>1, <3>3 DEF Inv, DiskInv
      <4> QED
        BY <2>2, <3>1, <4>1
    <3> QED
      BY <3>2, <3>3
  <2> QED
    BY <2>2, <2>4, <2>5, <2>6 DEF Inv, DiskInv, StoreInv
<1>4. CASE Left(s)
  <2>1. PICK ok \in BOOLEAN : kept' = IF ok THEN [kept EXCEPT ![o.from] = o.reqs] ELSE kept
    BY <1>4 DEF Left
  <2>2. /\ op' = [op EXCEPT ![s] = [o EXCEPT !.pc = "leaving"]] /\ o.pc = "left"
        /\ home' = home /\ index' = index /\ rec' = rec /\ ws' = ws /\ drafts' = drafts
    BY <1>4 DEF Left, Goes, Becomes, At, keys, store, records
  <2>3. Sound(home, [o EXCEPT !.pc = "leaving"])
    BY <1>0, <2>2 DEF Sound, IsOperation, OpFields, Routed, Holds, Saving
  <2>4. OperationsInv' /\ HomeInv'
    BY <2>2, <2>3, Becoming, SameHome DEF Inv, HomeInv
  <2>5. DOMAIN kept' = Workspaces /\ kept' = [w \in DOMAIN kept' |-> kept'[w]]
    BY <2>1 DEF Inv, DiskInv
  <2>6. ASSUME NEW w \in Workspaces PROVE Own(home', kept'[w], w)
    <3>1. Own(home, kept[w], w) /\ Own(home, o.reqs, o.from)
      BY <1>0, <2>2 DEF Inv, DiskInv, Sound, Holds
    <3>2. kept'[w] = IF ok /\ w = o.from THEN o.reqs ELSE kept[w]
      BY <2>1 DEF Inv, DiskInv
    <3> QED
      BY <2>2, <3>1, <3>2
  <2> QED
    BY <2>2, <2>4, <2>5, <2>6 DEF Inv, DiskInv, StoreInv
<1> QED
  BY <1>1, <1>2, <1>3, <1>4

\* New workspaces: a copy of one, and an empty one.
LEMMA CopyingKeeps ==
    ASSUME Inv, NEW s \in Slots, NEW source, IsObject(source), Copying(s, source),
           rec' = rec, kept' = kept, ws' = ws, drafts' = drafts, index' = index
    PROVE  Inv'
<1> DEFINE o == op[s]
<1>1. PICK w \in Workspaces :
        /\ Made(w, {source.reqs[r] : r \in Requests})
        /\ op' = [op EXCEPT ![s] = [[o EXCEPT !.pc = "save", !.next = "copied"] EXCEPT
                                      !.obj = [source EXCEPT !.id = w, !.rev = clock', !.copy = 0]]]
  BY DEF Copying, Becomes, To, Unused
<1> DEFINE x == [source EXCEPT !.id = w, !.rev = clock', !.copy = 0]
           p == [[o EXCEPT !.pc = "save", !.next = "copied"] EXCEPT !.obj = x]
<1>2. Grown /\ {source.reqs[r] : r \in Requests} \subseteq home'[w]
  BY <1>1, MadeGrows DEF Inv
<1>3. IsObject(x) /\ x.id = w /\ x.reqs = source.reqs
  BY DEF IsObject
<1>4. Own(home', x.reqs, x.id)
  BY <1>2, <1>3 DEF Own
<1>5. Sound(home', o)
  BY <1>2, SoundGrows DEF Inv, OperationsInv
<1> HIDE DEF x
<1>6. Sound(home', p)
  BY <1>3, <1>4, <1>5 DEF Sound, IsOperation, OpFields, Routed, Holds, Saving
<1> QED
  BY <1>1, <1>2, <1>6, GrowingOperation DEF Inv, DiskInv, x

\* An empty workspace under an unused id, or the starter.
LEMMA NewKeeps ==
    ASSUME Inv, NEW s \in Slots, Fresh(s) \/ Starter(s),
           rec' = rec, kept' = kept, ws' = ws, drafts' = drafts, index' = index
    PROVE  Inv'
<1> DEFINE o == op[s]
<1>1. PICK w \in Workspaces :
        /\ Made(w, {0})
        /\ op' = [op EXCEPT ![s] = [[o EXCEPT !.pc = "save", !.next = "made"] EXCEPT
                                      !.obj = [nothing EXCEPT !.id = w, !.rev = clock']]]
  BY PersistenceAssumption DEF Fresh, Starter, Becomes, To, Unused
<1> DEFINE x == [nothing EXCEPT !.id = w, !.rev = clock']
           p == [[o EXCEPT !.pc = "save", !.next = "made"] EXCEPT !.obj = x]
<1>2. Grown
  BY <1>1, MadeGrows DEF Inv
<1>3. IsObject(x) /\ Own(home', x.reqs, x.id)
  BY DEF IsObject, nothing, empty, Own
<1>5. Sound(home', o)
  BY <1>2, SoundGrows DEF Inv, OperationsInv
<1> HIDE DEF x
<1>6. Sound(home', p)
  BY <1>3, <1>5 DEF Sound, IsOperation, OpFields, Routed, Holds, Saving
<1> QED
  BY <1>1, <1>2, <1>6, GrowingOperation DEF Inv, DiskInv, x

\* At the start and after a removal: the next one is read before anything of it is written.
LEMMA NextOrNewKeeps ==
    ASSUME Inv, NEW s \in Slots, NEW list, DOMAIN list = Workspaces, NEW preferred,
           NextOrNew(s, list, preferred), op[s].pc \notin {"shell", "records"},
           rec' = rec, kept' = kept, ws' = ws, drafts' = drafts, index' = index
    PROVE  Inv'
<1> DEFINE o == op[s]
<1>0. Sound(home, o) /\ DOMAIN index' = Workspaces
  BY DEF Inv, OperationsInv, DiskInv
<1>1. CASE Fresh(s) \/ Starter(s)
  BY <1>1, NewKeeps
<1>2. CASE \E w \in IF preferred \in Ids(list) THEN {preferred} ELSE Newest(list) :
             /\ Becomes(s, [To(op[s], "read", "got") EXCEPT !.w = w, !.own = TRUE,
                                                             !.list = [list EXCEPT ![w] = 0]])
             /\ UNCHANGED <<clock, home>>
  <2>1. PICK w \in IF preferred \in Ids(list) THEN {preferred} ELSE Newest(list) :
             /\ Becomes(s, [To(op[s], "read", "got") EXCEPT !.w = w, !.own = TRUE,
                                                             !.list = [list EXCEPT ![w] = 0]])
             /\ UNCHANGED <<clock, home>>
    BY <1>2
  <2>2. w \in Workspaces
    BY DEF Ids, Newest
  <2> DEFINE l == [list EXCEPT ![w] = 0]
             p == [[o EXCEPT !.pc = "read", !.next = "got"] EXCEPT !.w = w, !.own = TRUE, !.list = l]
  <2>3. op' = [op EXCEPT ![s] = p] /\ home' = home
    BY <2>1 DEF Becomes, To
  <2>4. DOMAIN l = Workspaces
    OBVIOUS
  <2> HIDE DEF l
  <2>5. Sound(home, p)
    BY <1>0, <2>2, <2>4 DEF Sound, IsOperation, OpFields, Routed, Holds, Saving
  <2> QED
    BY <1>0, <2>3, <2>5, OnlyOperation
<1> QED
  BY <1>1, <1>2 DEF NextOrNew

\* What the switcher and the history do between two requests.
LEMMA GoesOn ==
    ASSUME Inv, NEW s \in Slots,
           \/ Flushed(s) \/ Leaving(s) \/ Listed(s) \/ Got(s) \/ MadeIt(s) \/ Copied(s)
           \/ Install(s) \/ Ended(s) \/ Logged(s) \/ Added(s)
    PROVE  Inv'
<1> DEFINE o == op[s]
<1>0. /\ Sound(home, o) /\ DOMAIN index = Workspaces
      /\ rec' = rec /\ kept' = kept /\ ws' = ws /\ drafts' = drafts /\ index' = index
  BY DEF Inv, DiskInv, OperationsInv, Flushed, Leaving, Listed, Got, MadeIt, Copied, Install, Ended,
         Logged, Added, records, keys, store
<1>i. Sound(home, idle)
  BY IdleSound
<1> USE DEF Becomes, Goes, To, At
<1>1. CASE Flushed(s)
  <2> DEFINE p == [o EXCEPT !.pc = "list", !.next = "ended"]
  <2>1. op' = [op EXCEPT ![s] = IF o.kind = "rename" THEN p ELSE idle] /\ o.pc = "flushed" /\ home' = home
    BY <1>1 DEF Flushed
  <2>2. Sound(home, p)
    BY <1>0, <2>1 DEF Sound, IsOperation, OpFields, Routed, Holds, Saving
  <2> QED
    BY <1>0, <1>i, <2>1, <2>2, OnlyOperation
<1>2. CASE Leaving(s)
  <2>0. o.pc = "leaving"
    BY <1>2 DEF Leaving
  <2>1. CASE o.kind = "duplicate" /\ o.w = ws.id /\ Copying(s, ws)
    BY <1>0, <2>1, CopyingKeeps DEF Inv, StoreInv
  <2>2. CASE home' = home /\ op' = [op EXCEPT ![s] = [o EXCEPT !.pc = "read", !.next = "got"]]
    <3>1. Sound(home, [o EXCEPT !.pc = "read", !.next = "got"])
      BY <1>0, <2>0 DEF Sound, IsOperation, OpFields, Routed, Holds, Saving
    <3> QED
      BY <1>0, <2>2, <3>1, OnlyOperation
  <2>3. CASE /\ home' = home
             /\ op' = [op EXCEPT ![s] = [[o EXCEPT !.pc = "save", !.next = "made"] EXCEPT !.obj = o.base]]
    <3>1. Sound(home, [[o EXCEPT !.pc = "save", !.next = "made"] EXCEPT !.obj = o.base])
      BY <1>0, <2>0 DEF Sound, IsOperation, OpFields, Routed, Holds, Saving
    <3> QED
      BY <1>0, <2>3, <3>1, OnlyOperation
  <2> QED
    BY <1>2, <2>1, <2>2, <2>3 DEF Leaving
<1>3. CASE Listed(s)
  <2>0. o.pc = "listed" /\ DOMAIN o.list = Workspaces
    BY <1>0, <1>3 DEF Listed, Sound, IsOperation
  <2>1. CASE NextOrNew(s, o.list, active) \/ NextOrNew(s, [o.list EXCEPT ![o.w] = 0], 0)
    BY <1>0, <2>0, <2>1, NextOrNewKeeps
  <2>2. CASE home' = home /\ op' = [op EXCEPT ![s] = [o EXCEPT !.pc = "list", !.next = "ended"]]
    <3>1. Sound(home, [o EXCEPT !.pc = "list", !.next = "ended"])
      BY <1>0, <2>0 DEF Sound, IsOperation, OpFields, Routed, Holds, Saving
    <3> QED
      BY <1>0, <2>2, <3>1, OnlyOperation
  <2> QED
    BY <1>3, <2>1, <2>2 DEF Listed
<1>4. CASE Got(s)
  <2>0. o.pc = "got" /\ DOMAIN o.list = Workspaces /\ IsObject(o.obj) /\ Own(home, o.obj.reqs, o.obj.id)
    BY <1>0, <1>4 DEF Got, Sound, IsOperation, Holds
  <2>1. CASE NextOrNew(s, o.list, 0)
    BY <1>0, <2>0, <2>1, NextOrNewKeeps
  <2>2. CASE Fresh(s)
    BY <1>0, <2>2, NewKeeps
  <2>3. CASE home' = home /\ \E pc \in {"install", "ended"} : op' = [op EXCEPT ![s] = [o EXCEPT !.pc = pc]]
    <3>1. PICK pc \in {"install", "ended"} : op' = [op EXCEPT ![s] = [o EXCEPT !.pc = pc]]
      BY <2>3
    <3>2. Sound(home, [o EXCEPT !.pc = pc])
      BY <1>0, <2>0 DEF Sound, IsOperation, OpFields, Routed, Holds, Saving
    <3> QED
      BY <1>0, <2>3, <3>1, <3>2, OnlyOperation
  <2>4. CASE home' = home /\ op' = [op EXCEPT ![s] = [o EXCEPT !.pc = "list", !.next = "ended"]]
    <3>1. Sound(home, [o EXCEPT !.pc = "list", !.next = "ended"])
      BY <1>0, <2>0 DEF Sound, IsOperation, OpFields, Routed, Holds, Saving
    <3> QED
      BY <1>0, <2>4, <3>1, OnlyOperation
  <2>5. CASE Copying(s, o.obj)
    BY <1>0, <2>0, <2>5, CopyingKeeps
  <2>6. CASE /\ home' = home
             /\ op' = [op EXCEPT ![s] = [[o EXCEPT !.pc = "save", !.next = "copied"] EXCEPT
                                           !.obj.rev = clock']]
    <3> DEFINE x == [o.obj EXCEPT !.rev = clock']
               q == [o EXCEPT !.pc = "save", !.next = "copied"]
               p == [q EXCEPT !.obj = x]
    <3>1. IsObject(x) /\ Own(home, x.reqs, x.id)
      BY <2>0 DEF IsObject
    <3>2. q.obj = o.obj
      BY <1>0 DEF Sound, IsOperation, OpFields
    <3>3. op' = [op EXCEPT ![s] = p]
      BY <2>6, <3>2
    <3> HIDE DEF x
    <3>4. Sound(home, p)
      BY <1>0, <2>0, <3>1 DEF Sound, IsOperation, OpFields, Routed, Holds, Saving
    <3> QED
      BY <1>0, <2>6, <3>3, <3>4, OnlyOperation
  <2> QED
    BY <1>4, <2>1, <2>2, <2>3, <2>4, <2>5, <2>6 DEF Got
<1>5. CASE MadeIt(s)
  <2>1. PICK pc \in {"install", "ended"} : op' = [op EXCEPT ![s] = [o EXCEPT !.pc = pc]]
    BY <1>5 DEF MadeIt
  <2>2. o.pc = "made" /\ home' = home
    BY <1>5 DEF MadeIt
  <2>3. Sound(home, [o EXCEPT !.pc = pc])
    BY <1>0, <2>2 DEF Sound, IsOperation, OpFields, Routed, Holds, Saving
  <2> QED
    BY <1>0, <2>1, <2>2, <2>3, OnlyOperation
<1>6. CASE Copied(s)
  <2>1. PICK pc \in {"list", "ended"} : op' = [op EXCEPT ![s] = [o EXCEPT !.pc = pc, !.next = "ended"]]
    BY <1>6 DEF Copied
  <2>2. o.pc = "copied" /\ home' = home
    BY <1>6 DEF Copied
  <2>3. Sound(home, [o EXCEPT !.pc = pc, !.next = "ended"])
    BY <1>0, <2>2 DEF Sound, IsOperation, OpFields, Routed, Holds, Saving
  <2> QED
    BY <1>0, <2>1, <2>2, <2>3, OnlyOperation
<1>7. CASE Install(s)
  <2> DEFINE p == [o EXCEPT !.pc = "loading", !.reqs = kept[o.obj.id], !.entries = log[o.obj.id]]
  <2>1. op' = [op EXCEPT ![s] = p] /\ o.pc = "install" /\ home' = home
    BY <1>7 DEF Install
  <2>2. Own(home, kept[o.obj.id], o.obj.id)
    BY <1>0 DEF Sound, IsOperation, IsObject, Inv, DiskInv
  <2>3. Sound(home, p)
    BY <1>0, <2>1, <2>2 DEF Sound, IsOperation, OpFields, Routed, Holds, Saving
  <2> QED
    BY <1>0, <2>1, <2>3, OnlyOperation
<1>8. CASE Ended(s)
  BY <1>0, <1>8, <1>i, OnlyOperation DEF Ended
<1>9. CASE Logged(s)
  <2> DEFINE entries == IF o.kind = "record" THEN Prepended(o.req, o.entries)
                        ELSE SelectSeq(o.entries, LAMBDA e : e # o.req)
  <2>1. PICK pc \in {"added", "ended"} :
           op' = [op EXCEPT ![s] = [o EXCEPT !.pc = pc, !.entries = entries]]
    BY <1>9 DEF Logged
  <2>2. o.pc = "logged" /\ home' = home
    BY <1>9 DEF Logged
  <2> HIDE DEF entries
  <2>3. Sound(home, [o EXCEPT !.pc = pc, !.entries = entries])
    BY <1>0, <2>2 DEF Sound, IsOperation, OpFields, Routed, Holds, Saving
  <2> QED
    BY <1>0, <2>1, <2>2, <2>3, OnlyOperation
<1>10. CASE Added(s)
  BY <1>0, <1>10, <1>i, OnlyOperation DEF Added
<1> QED
  BY <1>1, <1>2, <1>3, <1>4, <1>5, <1>6, <1>7, <1>8, <1>9, <1>10

\* What the debounced writers are told does not change what an operation holds.
LEMMA ArmsKeeps ==
    ASSUME Inv, Grown, NEW s \in Slots \cup {0}, NEW o, Sound(home', o), NEW changed, Arms(s, o, changed)
    PROVE  OperationsInv'
<1>1. PICK armed : op' = [t \in Slots |-> LET k == IF t = s THEN o ELSE op[t] IN
                             IF k = idle THEN idle ELSE [k EXCEPT !.outlasted = @ \cup armed]]
  BY DEF Arms
<1>2. ASSUME NEW t \in Slots PROVE Sound(home', op'[t])
  <2> DEFINE k == IF t = s THEN o ELSE op[t]
             y == k.outlasted \cup armed
  <2>1. op'[t] = IF k = idle THEN idle ELSE [k EXCEPT !.outlasted = y]
    BY <1>1
  <2>2. Sound(home', k)
    BY SoundGrows DEF Inv, OperationsInv
  <2> HIDE DEF k, y
  <2>3. Sound(home', [k EXCEPT !.outlasted = y])
    BY <2>2 DEF Sound, IsOperation, OpFields, Routed, Holds, Saving
  <2> QED
    BY <2>1, <2>3, IdleSound
<1> QED
  BY <1>1, <1>2 DEF OperationsInv

\* The workbench takes over a workspace with its records and its drafts.
LEMMA LoadKeeps == ASSUME Inv, NEW s \in Slots, Load(s) PROVE Inv'
<1> DEFINE o == op[s]
           p == [o EXCEPT !.pc = "list", !.next = "ended"]
<1>0. Sound(home, o) /\ o.pc = "loading"
  BY DEF Inv, OperationsInv, Load, At
<1>1. IsObject(o.obj) /\ Own(home, o.obj.reqs, o.obj.id) /\ Own(home, o.reqs, o.obj.id)
  BY <1>0 DEF Sound, IsOperation, Holds
<1>2. PICK ok \in BOOLEAN : drafts' = LoadedDrafts(o, ok)
  BY DEF Load
<1>3. /\ ws' = o.obj /\ home' = home /\ rec' = rec /\ kept' = kept /\ index' = index
      /\ Arms(s, p, {"workspace", "drafts"})
  BY DEF Load, records, To
<1>4. Sound(home, p)
  BY <1>0 DEF Sound, IsOperation, OpFields, Routed, Holds, Saving
<1>5. OperationsInv'
  BY <1>3, <1>4, ArmsKeeps, SameHome DEF Inv
<1>6. StoreInv'
  BY <1>1, <1>2, <1>3 DEF StoreInv, LoadedDrafts, Own
<1> QED
  BY <1>3, <1>5, <1>6 DEF Inv, DiskInv, HomeInv

\* commitSaved() puts what was written into the store that it was read from.
LEMMA CommittedKeeps == ASSUME Inv, NEW s \in Slots, Committed(s) PROVE Inv'
<1> DEFINE o == op[s]
           version == o.obj.reqs[o.req]
           here == ws.id = o.base.id
           x == [ws EXCEPT !.rev = clock + 1, !.reqs[o.req] = IF here /\ @ # 0 THEN version ELSE @]
<1>0. Sound(home, o) /\ o.pc = "committed" /\ StoreInv
  BY DEF Inv, OperationsInv, Committed, At
<1>1. /\ IsObject(o.obj) /\ Own(home, o.obj.reqs, o.obj.id)
      /\ o.base.id = o.obj.id /\ o.req \in Requests
  BY <1>0 DEF Sound, IsOperation, Holds
<1>2. home' = home /\ rec' = rec /\ kept' = kept /\ index' = index
  BY DEF Committed, records, keys
<1>3. Sound(home, idle)
  BY IdleSound
<1>4. CASE ~o.ok
  <2>1. ws' = ws /\ drafts' = drafts /\ op' = [op EXCEPT ![s] = idle]
    BY <1>4 DEF Committed, Becomes
  <2> QED
    BY <1>2, <1>3, <2>1, OnlyOperation DEF Inv, DiskInv
<1>5. CASE o.ok
  <2>1. /\ ws' = IF ws = o.base THEN o.obj ELSE x
        /\ drafts' = [drafts EXCEPT ![o.req] = IF here /\ @ = version THEN 0 ELSE @]
        /\ Arms(s, idle, {"workspace"} \cup (IF drafts' = drafts THEN {} ELSE {"drafts"}))
    BY <1>5 DEF Committed
  <2>2. OperationsInv'
    BY <1>2, <1>3, <2>1, ArmsKeeps, SameHome DEF Inv
  <2>3. IsObject(x) /\ x.id = ws.id /\ Own(home, x.reqs, x.id)
    <3> DEFINE y == IF here /\ ws.reqs[o.req] # 0 THEN version ELSE ws.reqs[o.req]
           q == [ws.reqs EXCEPT ![o.req] = y]
    <3>1. x = [ws EXCEPT !.rev = clock + 1, !.reqs = q]
      BY <1>0, <1>1 DEF StoreInv, IsObject
    <3>2. DOMAIN q = Requests /\ q = [r \in DOMAIN q |-> q[r]]
      BY <1>0 DEF StoreInv, IsObject
    <3>3. Own(home, q, ws.id)
      <4>1. y \in home[ws.id] \cup {0}
        BY <1>0, <1>1 DEF StoreInv, Own
      <4> QED
        BY <1>0, <1>1, <4>1 DEF StoreInv, Own, IsObject
    <3> HIDE DEF x, q
    <3>4. IsObject(x) /\ x.id = ws.id /\ x.reqs = q
      BY <1>0, <3>1, <3>2 DEF StoreInv, IsObject
    <3> QED
      BY <3>3, <3>4
  <2>4. IsObject(ws') /\ Own(home, ws'.reqs, ws'.id) /\ ws'.id = ws.id
    BY <1>0, <1>1, <2>1, <2>3
  <2>5. /\ DOMAIN drafts' = Requests /\ drafts' = [r \in DOMAIN drafts' |-> drafts'[r]]
        /\ Own(home, drafts', ws.id)
    BY <1>0, <1>1, <2>1 DEF StoreInv, Own
  <2> QED
    BY <1>2, <2>2, <2>4, <2>5 DEF Inv, DiskInv, StoreInv, HomeInv
<1> QED
  BY <1>4, <1>5

\* What an operation begins with.
LEMMA Flushes ==
    ASSUME StoreInv, NEW o, Sound(home, o), o.pc = "idle"
    PROVE  Sound(home, Flushing(o))
<1> DEFINE j == [o EXCEPT !.from = ws.id, !.reqs = drafts]
           a1 == [j EXCEPT !.pc = "left", !.next = "skip", !.obj = ws, !.ok = TRUE]
           a2 == [[j EXCEPT !.pc = "save", !.next = "left"] EXCEPT !.obj = ws]
<1>1. IsObject(ws) /\ Own(home, ws.reqs, ws.id) /\ Own(home, drafts, ws.id) /\ ws.id \in Workspaces
  BY DEF StoreInv, IsObject
<1>2. Sound(home, j) /\ j.from = ws.id /\ j.reqs = drafts /\ j.pc = "idle"
  BY <1>1 DEF Sound, IsOperation, OpFields, Routed, Holds, Saving
<1>3. Flushing(o) = IF persisted = ws THEN a1 ELSE a2
  BY DEF Flushing, Write, To
<1> HIDE DEF j
<1>4. Sound(home, a1)
  BY <1>1, <1>2 DEF Sound, IsOperation, OpFields, Routed, Holds, Saving
<1>5. Sound(home, a2)
  BY <1>1, <1>2 DEF Sound, IsOperation, OpFields, Routed, Holds, Saving
<1> QED
  BY <1>3, <1>4, <1>5

\* The begin of every operation: what it saves first is what the workbench holds.
LEMMA Begun ==
    ASSUME Inv, NEW s \in Slots,
           \/ Flush(s) \/ Start(s) \/ Create(s) \/ Clear(s)
           \/ \E r \in Requests : SaveRequest(s, r)
           \/ \E w \in Workspaces : SwitchTo(s, w) \/ Duplicate(s, w) \/ Remove(s, w)
           \/ History(s, "record") \/ History(s, "forget")
    PROVE  Inv'
<1>0. /\ rec' = rec /\ kept' = kept /\ ws' = ws /\ drafts' = drafts /\ index' = index
      /\ DOMAIN index' = Workspaces
  BY DEF Inv, DiskInv, Flush, Start, Create, Clear, SaveRequest, SwitchTo, Duplicate, Remove,
         History, records, keys, store
<1>i. Sound(home, idle) /\ idle.pc = "idle" /\ StoreInv
  BY IdleSound DEF Inv, idle
<1>w. IsObject(ws) /\ ws.id \in Workspaces /\ Own(home, ws.reqs, ws.id)
  BY DEF Inv, StoreInv, IsObject
<1> USE DEF Becomes, To
<1>1. CASE Flush(s)
  <2> DEFINE q == [[idle EXCEPT !.pc = "save", !.next = "flushed"] EXCEPT !.kind = "flush", !.obj = ws]
  <2>1. op' = [op EXCEPT ![s] = IF persisted = ws THEN idle ELSE q] /\ home' = home
    BY <1>1 DEF Flush
  <2>2. Sound(home, q)
    BY <1>i, <1>w DEF Sound, IsOperation, OpFields, Routed, Holds, Saving
  <2> QED
    BY <1>0, <1>i, <2>1, <2>2, OnlyOperation
<1>2. CASE Start(s)
  <2> DEFINE q == [[idle EXCEPT !.pc = "list", !.next = "listed"] EXCEPT !.kind = "start"]
  <2>1. op' = [op EXCEPT ![s] = q] /\ home' = home
    BY <1>2 DEF Start
  <2>2. Sound(home, q)
    BY <1>i DEF Sound, IsOperation, OpFields, Routed, Holds, Saving
  <2> QED
    BY <1>0, <2>1, <2>2, OnlyOperation
<1>3. CASE Create(s)
  <2>1. PICK w \in Unused :
          /\ Made(w, {0})
          /\ op' = [op EXCEPT ![s] = Flushing([idle EXCEPT
               !.kind = "create", !.base = [nothing EXCEPT !.id = w, !.rev = clock']])]
    BY <1>3 DEF Create
  <2> DEFINE x == [nothing EXCEPT !.id = w, !.rev = clock']
             q == [idle EXCEPT !.kind = "create", !.base = x]
  <2>2. w \in Workspaces
    BY DEF Unused
  <2>3. IsObject(x) /\ Own(home, x.reqs, x.id)
    BY <2>2 DEF IsObject, nothing, empty, Own
  <2>4. op' = [op EXCEPT ![s] = Flushing(q)]
    BY <2>1
  <2> HIDE DEF x
  <2>5. Sound(home, q) /\ q.pc = "idle"
    BY <1>i, <2>3 DEF Sound, IsOperation, OpFields, Routed, Holds, Saving
  <2>6. Grown
    BY <2>1, <2>2, MadeGrows DEF Inv
  <2>7. Sound(home', Flushing(q))
    BY <1>i, <2>5, <2>6, Flushes, SoundGrows
  <2> QED
    BY <1>0, <2>4, <2>6, <2>7, GrowingOperation
<1>4. CASE Clear(s)
  <2> DEFINE q == [idle EXCEPT !.kind = "clear", !.pc = "added"]
  <2>1. op' = [op EXCEPT ![s] = q] /\ home' = home
    BY <1>4 DEF Clear
  <2>2. Sound(home, q)
    BY <1>i DEF Sound, IsOperation, OpFields, Routed, Holds, Saving
  <2> QED
    BY <1>0, <2>1, <2>2, OnlyOperation
<1>5. ASSUME NEW r \in Requests, SaveRequest(s, r) PROVE Inv'
  <2> DEFINE x == [ws EXCEPT !.rev = clock + 1, !.reqs[r] = drafts[r]]
             q == [[idle EXCEPT !.pc = "save", !.next = "committed"] EXCEPT
                     !.kind = "save", !.obj = x, !.base = ws, !.req = r]
  <2>1. op' = [op EXCEPT ![s] = q] /\ home' = home
    BY <1>5 DEF SaveRequest
  <2>2. IsObject(x) /\ x.id = ws.id /\ Own(home, x.reqs, x.id)
    <3> DEFINE v == [ws.reqs EXCEPT ![r] = drafts[r]]
    <3>1. x = [ws EXCEPT !.rev = clock + 1, !.reqs = v]
      BY <1>w DEF IsObject
    <3>2. DOMAIN v = Requests /\ v = [y \in DOMAIN v |-> v[y]]
      BY <1>w DEF IsObject
    <3>3. Own(home, v, ws.id)
      BY <1>w, <1>i DEF StoreInv, Own, IsObject
    <3> HIDE DEF x, v
    <3>4. IsObject(x) /\ x.id = ws.id /\ x.reqs = v
      BY <1>w, <3>1, <3>2 DEF IsObject
    <3> QED
      BY <3>3, <3>4
  <2> HIDE DEF x
  <2>3. Sound(home, q)
    BY <1>i, <1>w, <2>2 DEF Sound, IsOperation, OpFields, Routed, Holds, Saving
  <2> QED
    BY <1>0, <2>1, <2>3, OnlyOperation
<1>6. ASSUME NEW w \in Workspaces, SwitchTo(s, w) \/ Duplicate(s, w) PROVE Inv'
  <2>1. PICK kind \in {"switch", "duplicate"} :
           op' = [op EXCEPT ![s] = Flushing([idle EXCEPT !.kind = kind, !.w = w])]
    BY <1>6 DEF SwitchTo, Duplicate
  <2>2. home' = home
    BY <1>6 DEF SwitchTo, Duplicate
  <2> DEFINE q == [idle EXCEPT !.kind = kind, !.w = w]
  <2>3. Sound(home, q) /\ q.pc = "idle"
    BY <1>i DEF Sound, IsOperation, OpFields, Routed, Holds, Saving
  <2>4. Sound(home, Flushing(q))
    BY <1>i, <2>3, Flushes
  <2> QED
    BY <1>0, <2>1, <2>2, <2>4, OnlyOperation
<1>7. ASSUME NEW w \in Workspaces, Remove(s, w) PROVE Inv'
  <2> DEFINE q == [idle EXCEPT !.kind = "remove", !.pc = "deleting", !.w = w, !.own = (w = ws.id),
                               !.ids = Ids(rec[w])]
  <2>1. op' = [op EXCEPT ![s] = q] /\ home' = home
    BY <1>7 DEF Remove
  <2>2. Sound(home, q)
    BY <1>i DEF Sound, IsOperation, OpFields, Routed, Holds, Saving
  <2> QED
    BY <1>0, <2>1, <2>2, OnlyOperation
<1>8. ASSUME NEW kind \in {"record", "forget"}, History(s, kind) PROVE Inv'
  <2> DEFINE n == IF kind = "record" THEN clock' ELSE hist[1]
             q == [idle EXCEPT !.kind = kind, !.pc = "logged", !.w = ws.id, !.entries = log[ws.id],
                               !.req = n]
  <2>1. op' = [op EXCEPT ![s] = q] /\ home' = home
    BY <1>8 DEF History
  <2> HIDE DEF n
  <2>2. Sound(home, q)
    BY <1>i, <1>w DEF Sound, IsOperation, OpFields, Routed, Holds, Saving
  <2> QED
    BY <1>0, <2>1, <2>2, OnlyOperation
<1> QED
  BY <1>1, <1>2, <1>3, <1>4, <1>5, <1>6, <1>7, <1>8

\* Renaming writes the workbench's workspace, or reads the other one before it is written.
LEMMA RenameKeeps ==
    ASSUME Inv, NEW s \in Slots, NEW w \in Workspaces, Rename(s, w) PROVE Inv'
<1>0. /\ rec' = rec /\ kept' = kept /\ drafts' = drafts /\ index' = index /\ home' = home
      /\ DOMAIN index' = Workspaces /\ Sound(home, idle) /\ idle.pc = "idle" /\ StoreInv
  BY IdleSound DEF Inv, DiskInv, Rename, records, keys, idle
<1> USE DEF Becomes, To
<1>1. CASE w = ws.id
  <2> DEFINE x == ws'
             q == [[idle EXCEPT !.pc = "save", !.next = "flushed"] EXCEPT !.kind = "rename", !.obj = x]
  <2>1. ws' = [ws EXCEPT !.rev = clock'] /\ Arms(s, q, {"workspace"})
    BY <1>1 DEF Rename
  <2>2. IsObject(x) /\ x.id = ws.id /\ x.reqs = ws.reqs
    BY <1>0, <2>1 DEF StoreInv, IsObject
  <2>3. StoreInv'
    BY <1>0, <2>2 DEF StoreInv
  <2>4. Own(home, x.reqs, x.id)
    BY <1>0, <2>2 DEF StoreInv
  <2> HIDE DEF x
  <2>5. Sound(home, q)
    BY <1>0, <2>2, <2>4 DEF Sound, IsOperation, OpFields, Routed, Holds, Saving
  <2>6. OperationsInv'
    BY <1>0, <2>1, <2>5, ArmsKeeps, SameHome DEF Inv, x
  <2> QED
    BY <1>0, <2>3, <2>6 DEF Inv, DiskInv, HomeInv
<1>2. CASE w # ws.id
  <2> DEFINE q == [[idle EXCEPT !.pc = "read", !.next = "got"] EXCEPT !.kind = "rename", !.w = w]
  <2>1. op' = [op EXCEPT ![s] = q] /\ ws' = ws
    BY <1>2 DEF Rename
  <2>2. Sound(home, q)
    BY <1>0 DEF Sound, IsOperation, OpFields, Routed, Holds, Saving
  <2> QED
    BY <1>0, <2>1, <2>2, OnlyOperation
<1> QED
  BY <1>1, <1>2

\* The user, the writer of drafts, and the end of a window: a request is added or removed ...
LEMMA ChangeKeeps == Inv /\ Change => Inv'
<1> SUFFICES ASSUME Inv, Change PROVE Inv'
  OBVIOUS
<1>1. PICK r \in Requests \cup {0} :
        LET v == IF r # 0 /\ ws.reqs[r] = 0 THEN clock' ELSE 0 IN
          /\ ws' = [ws EXCEPT !.rev = clock',
                              !.reqs = [q \in Requests |-> IF q = r THEN v ELSE @[q]]]
          /\ drafts' = [q \in Requests |-> IF q = r THEN 0 ELSE drafts[q]]
          /\ Made(ws.id, {v})
  BY DEF Change
<1> DEFINE v == IF r # 0 /\ ws.reqs[r] = 0 THEN clock' ELSE 0
           m == [q \in Requests |-> IF q = r THEN v ELSE ws.reqs[q]]
<1>2. /\ ws' = [ws EXCEPT !.rev = clock', !.reqs = m]
      /\ drafts' = [q \in Requests |-> IF q = r THEN 0 ELSE drafts[q]]
      /\ Made(ws.id, {v})
  BY <1>1
<1>3. PICK changed : Arms(0, idle, changed)
  BY DEF Change
<1>4. rec' = rec /\ kept' = kept /\ index' = index
  BY DEF Change, records, keys
<1>5. IsObject(ws) /\ ws.id \in Workspaces /\ Own(home, ws.reqs, ws.id) /\ Own(home, drafts, ws.id)
  BY DEF Inv, StoreInv, IsObject
<1>6. Grown /\ v \in home'[ws.id]
  BY <1>2, <1>5, MadeGrows DEF Inv
<1>7. Own(home', ws.reqs, ws.id) /\ Own(home', drafts, ws.id)
  BY <1>5, <1>6, OwnGrows
<1>8. DOMAIN m = Requests /\ m = [q \in DOMAIN m |-> m[q]] /\ Own(home', m, ws.id)
  BY <1>6, <1>7 DEF Own
<1> HIDE DEF m
<1>9. IsObject(ws') /\ ws'.id = ws.id /\ ws'.reqs = m
  BY <1>2, <1>5, <1>8 DEF IsObject
<1>10. /\ DOMAIN drafts' = Requests /\ drafts' = [q \in DOMAIN drafts' |-> drafts'[q]]
       /\ Own(home', drafts', ws.id)
  BY <1>2, <1>7 DEF Own
<1>11. OperationsInv'
  BY <1>3, <1>6, IdleSound, ArmsKeeps
<1>12. DiskInv'
  BY <1>4, <1>6, OwnGrows DEF Inv, DiskInv
<1> QED
  BY <1>6, <1>8, <1>9, <1>10, <1>11, <1>12 DEF Inv, StoreInv, Grown

\* ... an edit is a draft of the workspace that is open ...
LEMMA EditKeeps == ASSUME Inv, NEW r \in Requests, Edit(r) PROVE Inv'
<1>1. Arms(0, idle, {"drafts"}) /\ rec' = rec /\ kept' = kept /\ index' = index /\ ws' = ws
  BY DEF Edit, records, keys
<1>2. IsObject(ws) /\ ws.id \in Workspaces
  BY DEF Inv, StoreInv, IsObject
<1>3. Grown /\ \E v \in home'[ws.id] \cup {0} : drafts' = [drafts EXCEPT ![r] = v]
  <2>1. CASE Made(ws.id, {clock'}) /\ drafts' = [drafts EXCEPT ![r] = clock']
    <3>1. Grown /\ clock' \in home'[ws.id]
      BY <1>2, <2>1, MadeGrows DEF Inv
    <3> QED
      BY <2>1, <3>1
  <2>2. CASE drafts' = [drafts EXCEPT ![r] = 0] /\ home' = home
    BY <2>2, SameHome DEF Inv
  <2> QED
    BY <2>1, <2>2 DEF Edit
<1>4. Own(home', ws.reqs, ws.id) /\ Own(home', drafts, ws.id)
  BY <1>2, <1>3, OwnGrows DEF Inv, StoreInv
<1>5. /\ DOMAIN drafts' = Requests /\ drafts' = [q \in DOMAIN drafts' |-> drafts'[q]]
      /\ Own(home', drafts', ws.id)
  BY <1>3, <1>4 DEF Own, Inv, StoreInv
<1>6. OperationsInv'
  BY <1>1, <1>3, IdleSound, ArmsKeeps
<1>7. DiskInv'
  BY <1>1, <1>3, OwnGrows DEF Inv, DiskInv
<1> QED
  BY <1>1, <1>2, <1>3, <1>4, <1>5, <1>6, <1>7 DEF Inv, StoreInv, Grown

\* ... which is also where the writer of drafts puts it ...
LEMMA DraftsKeep == Inv /\ FlushDrafts => Inv'
<1> SUFFICES ASSUME Inv, FlushDrafts PROVE Inv'
  OBVIOUS
<1>1. PICK ok \in BOOLEAN : kept' = IF ok THEN [kept EXCEPT ![ws.id] = drafts] ELSE kept
  BY DEF FlushDrafts
<1>2. rec' = rec /\ index' = index /\ ws' = ws /\ drafts' = drafts /\ op' = op /\ home' = home
  BY DEF FlushDrafts, records, keys, store
<1>3. DOMAIN kept' = Workspaces /\ kept' = [w \in DOMAIN kept' |-> kept'[w]]
  BY <1>1 DEF Inv, DiskInv
<1>4. ASSUME NEW w \in Workspaces PROVE Own(home, kept'[w], w)
  <2>1. kept'[w] = IF ok /\ w = ws.id THEN drafts ELSE kept[w]
    BY <1>1 DEF Inv, DiskInv
  <2> QED
    BY <2>1 DEF Inv, DiskInv, StoreInv
<1> QED
  BY <1>2, <1>3, <1>4 DEF Inv, DiskInv, StoreInv, OperationsInv, HomeInv

\* ... and nothing in memory outlives the window.
LEMMA CrashKeeps == Inv /\ Crash => Inv'
<1> SUFFICES ASSUME Inv, Crash PROVE Inv'
  OBVIOUS
<1>1. /\ rec' = rec /\ index' = index /\ kept' = kept /\ home' = home
      /\ ws' = nothing /\ drafts' = empty /\ op' = [s \in Slots |-> idle]
  BY DEF Crash, records, keys
<1>2. OperationsInv'
  BY <1>1, IdleSound DEF OperationsInv
<1>3. IsObject(nothing) /\ Own(home, nothing.reqs, nothing.id)
  BY IdleSound DEF Sound, IsOperation, Holds, idle
<1>4. StoreInv'
  BY <1>1, <1>3 DEF StoreInv, empty, Own
<1> QED
  BY <1>1, <1>2, <1>4 DEF Inv, DiskInv, HomeInv

\* What is stored at first was made where it is stored.
LEMMA InitHolds == Init => Inv
<1> SUFFICES ASSUME Init PROVE Inv
  OBVIOUS
<1>1. ws = nothing /\ drafts = empty /\ op = [s \in Slots |-> idle]
  BY DEF Init
<1>2. OperationsInv
  BY <1>1, IdleSound DEF OperationsInv
<1>3. IsObject(nothing) /\ Own(home, nothing.reqs, nothing.id)
  BY IdleSound DEF Sound, IsOperation, Holds, idle
<1>4. StoreInv
  BY <1>1, <1>3 DEF StoreInv, empty, Own
<1>5. HomeInv
  BY DEF Init, HomeInv
<1>6. PICK there \in First :
        /\ shell = [w \in Workspaces |->
              IF w \in there THEN [rev |-> 1, reqs |-> Requests] ELSE [rev |-> 0, reqs |-> {}]]
        /\ rec = [w \in Workspaces |-> [r \in Requests |-> IF w \in there THEN 1 ELSE 0]]
        /\ index = [w \in Workspaces |-> IF w \in there THEN 1 ELSE 0]
  BY DEF Init
<1>7. home = [w \in Workspaces |-> IF Stored(w) THEN {1} ELSE {}] /\ kept = [w \in Workspaces |-> empty]
  BY DEF Init
<1>8. ASSUME NEW w \in Workspaces PROVE Own(home, rec[w], w) /\ Own(home, kept[w], w)
  <2>1. Stored(w) <=> w \in there
    BY <1>6 DEF Stored
  <2> QED
    BY <1>6, <1>7, <2>1 DEF Own, empty
<1>9. DiskInv
  BY <1>6, <1>7, <1>8 DEF DiskInv
<1> QED
  BY <1>2, <1>4, <1>5, <1>9 DEF Inv

\* Every step keeps the invariant.
LEMMA NextHolds == Inv /\ [Next]_vars => Inv'
<1> SUFFICES ASSUME Inv, [Next]_vars PROVE Inv'
  OBVIOUS
<1>1. ASSUME NEW s \in Slots, Step(s) PROVE Inv'
  BY <1>1, AtStore, Writes, GoesOn, LoadKeeps, CommittedKeeps DEF Step
<1>2. ASSUME NEW s \in Slots, Flush(s) \/ Operation(s) \/ Start(s) PROVE Inv'
  BY <1>2, Begun, RenameKeeps DEF Operation
<1>3. CASE FlushDrafts \/ Change \/ (\E r \in Requests : Edit(r)) \/ Crash
  BY <1>3, DraftsKeep, ChangeKeeps, EditKeeps, CrashKeeps
<1>4. CASE UNCHANGED vars
  BY <1>4 DEF vars, records, keys, store, Inv, DiskInv, StoreInv, OperationsInv, HomeInv
<1> QED
  BY <1>1, <1>2, <1>3, <1>4 DEF Next

\* "nothing reads across" workspaces (usePersistence.ts, repository.ts): for any workspaces, requests
\* and operations under way at once, whatever is rejected and whenever the window goes away, no
\* operation writes a request or a draft of one workspace under the keys of another.
THEOREM WorkspacesStayApart == Spec => []Isolated
<1>1. Inv => Isolated
  BY DEF Inv, DiskInv, Own, Isolated
<1> QED
  BY <1>1, InitHolds, NextHolds, PTL DEF Spec

(* --------------------- queues of messages, in general --------------------- *)
(* A queue holds messages, each of somebody and of a kind.  R is a relation of  *)
(* the kinds that may not follow one another for the same one.                  *)

Told(q, a, k) == \E i \in DOMAIN q : q[i] = [of |-> a, kind |-> k]

Ordered(q, R) ==
    \A i, j \in DOMAIN q : i < j /\ q[i].of = q[j].of => <<q[i].kind, q[j].kind>> \notin R

AreMessages(M, A, K) ==
    \A x \in M : x.of \in A /\ x.kind \in K /\ x = [of |-> x.of, kind |-> x.kind]

AllOf(m, b) == \A i \in DOMAIN m : m[i].of = b

MayFollow(m, q, b, K, R) == \A k \in K : Told(q, b, k) => \A i \in DOMAIN m : <<k, m[i].kind>> \notin R

LEMMA TailIsShorter ==
    ASSUME NEW S, NEW q \in Seq(S), q # <<>>
    PROVE  /\ Tail(q) \in Seq(S) /\ Head(q) \in S /\ Head(q) = q[1] /\ 1 \in DOMAIN q
           /\ \A i \in DOMAIN Tail(q) : i + 1 \in DOMAIN q /\ Tail(q)[i] = q[i + 1]
           /\ \A i \in DOMAIN q : i # 1 => i - 1 \in DOMAIN Tail(q) /\ Tail(q)[i - 1] = q[i]
           /\ DOMAIN q \subseteq Nat \ {0} /\ DOMAIN Tail(q) \subseteq Nat \ {0}
  OBVIOUS

LEMMA ElementOfSeq == ASSUME NEW S, NEW q \in Seq(S), NEW i \in DOMAIN q PROVE q[i] \in S
  OBVIOUS

LEMMA JoinedSeqs ==
    ASSUME NEW S, NEW q \in Seq(S), NEW m \in Seq(S)
    PROVE  /\ q \o m \in Seq(S) /\ Len(q) \in Nat /\ DOMAIN q \subseteq Nat \ {0} /\ DOMAIN m \subseteq Nat \ {0}
           /\ DOMAIN (q \o m) \subseteq Nat
           /\ \A i \in DOMAIN q : i \in DOMAIN (q \o m) /\ (q \o m)[i] = q[i] /\ i <= Len(q)
           /\ \A i \in DOMAIN m : Len(q) + i \in DOMAIN (q \o m) /\ (q \o m)[Len(q) + i] = m[i]
           /\ \A i \in DOMAIN (q \o m) : i \in DOMAIN q \/ (i > Len(q) /\ i - Len(q) \in DOMAIN m)
  OBVIOUS

LEMMA OneIsTaken ==
    ASSUME NEW A, NEW K, NEW R, NEW M, AreMessages(M, A, K),
           NEW q \in Seq(M), q # <<>>, Ordered(q, R)
    PROVE  /\ Tail(q) \in Seq(M) /\ Head(q) \in M
           /\ Ordered(Tail(q), R)
           /\ Told(q, Head(q).of, Head(q).kind)
           /\ \A a \in A, k \in K : Told(Tail(q), a, k) => Told(q, a, k)
           /\ \A k \in K : Told(Tail(q), Head(q).of, k) => <<Head(q).kind, k>> \notin R
           /\ \A a \in A, k \in K : Told(q, a, k) /\ [of |-> a, kind |-> k] # Head(q) => Told(Tail(q), a, k)
<1> DEFINE h == Head(q)
           t == Tail(q)
<1>2. /\ t \in Seq(M) /\ h \in M /\ h = q[1] /\ 1 \in DOMAIN q
      /\ \A i \in DOMAIN t : i + 1 \in DOMAIN q /\ t[i] = q[i + 1]
      /\ \A i \in DOMAIN q : i # 1 => i - 1 \in DOMAIN t /\ t[i - 1] = q[i]
      /\ DOMAIN q \subseteq Nat \ {0} /\ DOMAIN t \subseteq Nat \ {0}
  BY TailIsShorter
<1> HIDE DEF h, t
<1>3. Ordered(t, R)
  <2> SUFFICES ASSUME NEW i \in DOMAIN t, NEW j \in DOMAIN t, i < j, t[i].of = t[j].of
               PROVE  <<t[i].kind, t[j].kind>> \notin R
    BY DEF Ordered
  <2>1. i + 1 \in DOMAIN q /\ j + 1 \in DOMAIN q /\ i + 1 < j + 1 /\ t[i] = q[i + 1] /\ t[j] = q[j + 1]
    BY <1>2
  <2> QED
    BY <2>1 DEF Ordered
<1>4. h = [of |-> h.of, kind |-> h.kind]
  BY <1>2 DEF AreMessages
<1>5. Told(q, h.of, h.kind)
  BY <1>2, <1>4 DEF Told
<1>6. ASSUME NEW a \in A, NEW k \in K, Told(t, a, k)
      PROVE  Told(q, a, k) /\ (a = h.of => <<h.kind, k>> \notin R)
  <2>1. PICK i \in DOMAIN t : t[i] = [of |-> a, kind |-> k]
    BY <1>6 DEF Told
  <2>2. i + 1 \in DOMAIN q /\ q[i + 1] = [of |-> a, kind |-> k] /\ 1 < i + 1
    BY <1>2, <2>1
  <2>3. q[i + 1].of = a /\ q[i + 1].kind = k
    BY <2>2
  <2>4. a = h.of => <<h.kind, k>> \notin R
    BY <1>2, <2>2, <2>3 DEF Ordered
  <2> QED
    BY <2>2, <2>4 DEF Told
<1>7. ASSUME NEW a \in A, NEW k \in K, Told(q, a, k)
      PROVE  Told(t, a, k) \/ [of |-> a, kind |-> k] = h
  <2>1. PICK i \in DOMAIN q : q[i] = [of |-> a, kind |-> k]
    BY <1>7 DEF Told
  <2>2. CASE i = 1
    BY <1>2, <2>1, <2>2
  <2>3. CASE i # 1
    BY <1>2, <2>1, <2>3 DEF Told
  <2> QED
    BY <2>2, <2>3
<1>8. \A k \in K : Told(t, h.of, k) => <<h.kind, k>> \notin R
  BY <1>2, <1>6 DEF AreMessages
<1> QED
  BY <1>2, <1>3, <1>5, <1>6, <1>7, <1>8 DEF h, t

LEMMA SomeAreAdded ==
    ASSUME NEW A, NEW K, NEW R, NEW M, AreMessages(M, A, K),
           NEW q \in Seq(M), Ordered(q, R), NEW b \in A,
           NEW m \in Seq(M), AllOf(m, b), Ordered(m, R),
           MayFollow(m, q, b, K, R)
    PROVE  /\ q \o m \in Seq(M)
           /\ Ordered(q \o m, R)
           /\ \A a \in A, k \in K :
                Told(q \o m, a, k) <=> Told(q, a, k) \/ (a = b /\ \E i \in DOMAIN m : m[i].kind = k)
<1> DEFINE t == q \o m
<1>2. \A x \in M : x.of \in A /\ x.kind \in K /\ x = [of |-> x.of, kind |-> x.kind]
  BY DEF AreMessages
<1> USE DEF AllOf, MayFollow
<1>3. /\ t \in Seq(M) /\ Len(q) \in Nat /\ DOMAIN q \subseteq Nat \ {0} /\ DOMAIN m \subseteq Nat \ {0}
      /\ DOMAIN t \subseteq Nat
      /\ \A i \in DOMAIN q : i \in DOMAIN t /\ t[i] = q[i] /\ i <= Len(q)
      /\ \A i \in DOMAIN m : Len(q) + i \in DOMAIN t /\ t[Len(q) + i] = m[i]
      /\ \A i \in DOMAIN t : i \in DOMAIN q \/ (i > Len(q) /\ i - Len(q) \in DOMAIN m)
  BY JoinedSeqs
<1> HIDE DEF t
<1>4. ASSUME NEW i \in DOMAIN q, q[i].of = b PROVE Told(q, b, q[i].kind) /\ q[i].kind \in K
  <2>1. q[i] \in M
    BY ElementOfSeq
  <2> QED
    BY <1>2, <1>4, <2>1 DEF Told
<1>5. ASSUME NEW i \in DOMAIN t, NEW j \in DOMAIN t, i < j, t[i].of = t[j].of
      PROVE  <<t[i].kind, t[j].kind>> \notin R
  <2>1. CASE j \in DOMAIN q
    <3>1. i \in DOMAIN q
      BY <1>3, <1>5, <2>1
    <3> QED
      BY <1>3, <1>5, <2>1, <3>1 DEF Ordered
  <2>2. CASE i \in DOMAIN q /\ j \notin DOMAIN q
    <3>1. j - Len(q) \in DOMAIN m /\ t[j] = m[j - Len(q)]
      BY <1>3, <2>2
    <3>2. t[i] = q[i] /\ q[i].of = b
      BY <1>3, <1>5, <2>2, <3>1
    <3> QED
      BY <1>4, <2>2, <3>1, <3>2
  <2>3. CASE i \notin DOMAIN q /\ j \notin DOMAIN q
    <3>1. /\ i - Len(q) \in DOMAIN m /\ t[i] = m[i - Len(q)] /\ j - Len(q) \in DOMAIN m
          /\ t[j] = m[j - Len(q)] /\ i - Len(q) < j - Len(q)
      BY <1>3, <1>5, <2>3
    <3> QED
      BY <1>5, <3>1 DEF Ordered
  <2> QED
    BY <2>1, <2>2, <2>3
<1>6. ASSUME NEW a \in A, NEW k \in K, Told(t, a, k)
      PROVE  Told(q, a, k) \/ (a = b /\ \E i \in DOMAIN m : m[i].kind = k)
  <2>1. PICK i \in DOMAIN t : t[i] = [of |-> a, kind |-> k]
    BY <1>6 DEF Told
  <2>2. CASE i \in DOMAIN q
    BY <1>3, <2>1, <2>2 DEF Told
  <2>3. CASE i \notin DOMAIN q
    <3>1. i - Len(q) \in DOMAIN m /\ t[i] = m[i - Len(q)]
      BY <1>3, <2>3
    <3> QED
      BY <2>1, <3>1
  <2> QED
    BY <2>2, <2>3
<1>7. ASSUME NEW a \in A, NEW k \in K, Told(q, a, k) PROVE Told(t, a, k)
  BY <1>3, <1>7 DEF Told
<1>8. ASSUME NEW i \in DOMAIN m PROVE Told(t, b, m[i].kind)
  <2>1. m[i] \in M
    BY ElementOfSeq
  <2>2. m[i] = [of |-> b, kind |-> m[i].kind]
    BY <1>2, <2>1
  <2> QED
    BY <1>3, <2>2 DEF Told
<1> QED
  BY <1>3, <1>5, <1>6, <1>7, <1>8 DEF Ordered, t

ToldIn(q, A, K) == [a \in A |-> {k \in K : \E i \in DOMAIN q : q[i] = [of |-> a, kind |-> k]}]

Says(m, L, K) == \A k \in K : k \in L <=> \E i \in DOMAIN m : m[i].kind = k

NoneBefore(L, s, R) == \A k \in s, l \in L : <<k, l>> \notin R

\* What taking the head of a queue does to what is told of each.
IsTaken(h, t, u, A, K, R) ==
    \E b \in A, l \in K :
        /\ h.of = b /\ h.kind = l /\ l \in t[b]
        /\ \A a \in A : a # b => u[a] = t[a]
        /\ u[b] \subseteq t[b] /\ t[b] \subseteq u[b] \cup {l}
        /\ \A k \in u[b] : <<l, k>> \notin R

LEMMA HeadIsTaken ==
    ASSUME NEW A, NEW K, NEW R, NEW M, AreMessages(M, A, K), NEW q \in Seq(M), q # <<>>, Ordered(q, R)
    PROVE  /\ Tail(q) \in Seq(M) /\ Ordered(Tail(q), R)
           /\ IsTaken(Head(q), ToldIn(q, A, K), ToldIn(Tail(q), A, K), A, K, R)
<1> DEFINE t == ToldIn(q, A, K)
           u == ToldIn(Tail(q), A, K)
<1>a. Tail(q) \in Seq(M) /\ Head(q) \in M
  BY OneIsTaken
<1>b. Ordered(Tail(q), R)
  BY OneIsTaken
<1>c. Told(q, Head(q).of, Head(q).kind)
  BY OneIsTaken
<1>d. \A a \in A, k \in K : Told(Tail(q), a, k) => Told(q, a, k)
  BY OneIsTaken
<1>e. \A k \in K : Told(Tail(q), Head(q).of, k) => <<Head(q).kind, k>> \notin R
  BY <1>a, OneIsTaken DEF AreMessages
<1>f. \A a \in A, k \in K : Told(q, a, k) /\ [of |-> a, kind |-> k] # Head(q) => Told(Tail(q), a, k)
  BY OneIsTaken
<1>2. PICK b \in A, l \in K : Head(q).of = b /\ Head(q).kind = l
  BY <1>a DEF AreMessages
<1>3. \A a \in A : \A k : k \in t[a] <=> k \in K /\ Told(q, a, k)
  BY DEF ToldIn, Told
<1>4. \A a \in A : \A k : k \in u[a] <=> k \in K /\ Told(Tail(q), a, k)
  BY DEF ToldIn, Told
<1>0. \A a \in A : t[a] = {k \in K : k \in t[a]} /\ u[a] = {k \in K : k \in u[a]}
  BY DEF ToldIn
<1> HIDE DEF t, u
<1>5. ASSUME NEW a \in A, a # b PROVE u[a] = t[a]
  <2>1. \A k : k \in u[a] <=> k \in t[a]
    <3>1. \A k : [of |-> a, kind |-> k] # Head(q)
      BY <1>2, <1>5
    <3> QED
      BY <1>d, <1>f, <1>3, <1>4, <3>1
  <2> QED
    BY <1>0, <2>1
<1>6. l \in t[b] /\ u[b] \subseteq t[b] /\ t[b] \subseteq u[b] \cup {l}
  <2>1. \A k : k # l => [of |-> b, kind |-> k] # Head(q)
    BY <1>2
  <2> QED
    BY <1>c, <1>d, <1>f, <1>2, <1>3, <1>4, <2>1
<1>7. \A k \in u[b] : <<l, k>> \notin R
  BY <1>e, <1>2, <1>4
<1>8. IsTaken(Head(q), t, u, A, K, R)
  BY <1>2, <1>5, <1>6, <1>7 DEF IsTaken
<1> QED
  BY <1>a, <1>b, <1>8 DEF t, u

IsTold(L, b, t, u) == u = [t EXCEPT ![b] = t[b] \cup L]

LEMMA TheseAreTold ==
    ASSUME NEW A, NEW K, NEW R, NEW M, AreMessages(M, A, K), NEW q \in Seq(M), Ordered(q, R), NEW b \in A,
           NEW m \in Seq(M), AllOf(m, b), Ordered(m, R), NEW L \in SUBSET K, Says(m, L, K),
           NoneBefore(L, ToldIn(q, A, K)[b], R)
    PROVE  /\ q \o m \in Seq(M) /\ Ordered(q \o m, R)
           /\ IsTold(L, b, ToldIn(q, A, K), ToldIn(q \o m, A, K))
<1> DEFINE t == ToldIn(q, A, K)
           u == ToldIn(q \o m, A, K)
<1>0. NoneBefore(L, t[b], R)
  OBVIOUS
<1>1. \A a \in A : \A k : k \in t[a] <=> k \in K /\ Told(q, a, k)
  BY DEF ToldIn, Told
<1>2. \A a \in A : \A k : k \in u[a] <=> k \in K /\ Told(q \o m, a, k)
  BY DEF ToldIn, Told
<1>5. t \in [A -> SUBSET K] /\ u \in [A -> SUBSET K]
  BY DEF ToldIn
<1> HIDE DEF t, u
<1>3. MayFollow(m, q, b, K, R)
  <2> SUFFICES ASSUME NEW k \in K, Told(q, b, k), NEW i \in DOMAIN m PROVE <<k, m[i].kind>> \notin R
    BY DEF MayFollow
  <2>1. m[i] \in M
    BY ElementOfSeq
  <2>2. m[i].kind \in L
    BY <2>1 DEF AreMessages, Says
  <2> QED
    BY <1>0, <1>1, <2>2 DEF NoneBefore
<1>a. q \o m \in Seq(M)
  OBVIOUS
<1>c. Ordered(q \o m, R)
  BY <1>3, SomeAreAdded
<1>b. \A a \in A, k \in K :
        Told(q \o m, a, k) <=> Told(q, a, k) \/ (a = b /\ \E i \in DOMAIN m : m[i].kind = k)
  BY <1>3, SomeAreAdded
<1>6. ASSUME NEW a \in A, a # b PROVE u[a] = t[a]
  <2>1. \A k : k \in u[a] <=> k \in t[a]
    BY <1>1, <1>2, <1>b, <1>6
  <2> QED
    BY <1>5, <2>1
<1>7. u[b] = t[b] \cup L
  <2>1. \A k : k \in u[b] <=> k \in t[b] \/ k \in L
    BY <1>1, <1>2, <1>b DEF Says
  <2> QED
    BY <2>1
<1>8. IsTold(L, b, t, u)
  BY <1>5, <1>6, <1>7 DEF IsTold
<1> QED
  BY <1>a, <1>c, <1>8 DEF t, u

LEMMA OneIsTold ==
    ASSUME NEW A, NEW K, NEW R, NEW M, M = [of : A, kind : K], NEW q \in Seq(M), Ordered(q, R), NEW b \in A,
           NEW x \in K, NoneBefore({x}, ToldIn(q, A, K)[b], R)
    PROVE  LET m == <<[of |-> b, kind |-> x]>> IN
           /\ q \o m \in Seq(M) /\ Ordered(q \o m, R)
           /\ IsTold({x}, b, ToldIn(q, A, K), ToldIn(q \o m, A, K))
<1> DEFINE m == <<[of |-> b, kind |-> x]>>
           L == {x}
<1>1. \A k \in K : [of |-> b, kind |-> k] \in M
  OBVIOUS
<1>2. m \in Seq(M)
  BY <1>1
<1>3. DOMAIN m = 1 .. 1 /\ m[1] = [of |-> b, kind |-> x]
  OBVIOUS
<1>4. AreMessages(M, A, K)
  BY DEF AreMessages
<1> HIDE DEF m
<1>5. AllOf(m, b)
  BY <1>3 DEF AllOf
<1>6. Ordered(m, R)
  <2>1. \A i, j \in DOMAIN m : i < j => FALSE
    BY <1>3
  <2> QED
    BY <1>3, <2>1 DEF Ordered
<1>7. L \in SUBSET K /\ Says(m, L, K)
  BY <1>3 DEF Says
<1> HIDE DEF L
<1>8. NoneBefore(L, ToldIn(q, A, K)[b], R)
  BY DEF L
<1>9. Ordered(q \o m, R)
  BY <1>2, <1>4, <1>5, <1>6, <1>7, <1>8, TheseAreTold
<1>10. IsTold(L, b, ToldIn(q, A, K), ToldIn(q \o m, A, K))
  BY <1>2, <1>4, <1>5, <1>6, <1>7, <1>8, TheseAreTold
<1>11. q \o m \in Seq(M)
  BY <1>2
<1> QED
  BY <1>9, <1>10, <1>11 DEF L, m

LEMMA TwoAreTold ==
    ASSUME NEW A, NEW K, NEW R, NEW M, M = [of : A, kind : K], NEW q \in Seq(M), Ordered(q, R), NEW b \in A,
           NEW x \in K, NEW y \in K, NoneBefore({x, y}, ToldIn(q, A, K)[b], R), <<x, y>> \notin R
    PROVE  LET m == <<[of |-> b, kind |-> x], [of |-> b, kind |-> y]>> IN
           /\ q \o m \in Seq(M) /\ Ordered(q \o m, R)
           /\ IsTold({x, y}, b, ToldIn(q, A, K), ToldIn(q \o m, A, K))
<1> DEFINE m == <<[of |-> b, kind |-> x], [of |-> b, kind |-> y]>>
           L == {x, y}
<1>1. \A k \in K : [of |-> b, kind |-> k] \in M
  OBVIOUS
<1>2. m \in Seq(M)
  BY <1>1
<1>3. DOMAIN m = 1 .. 2 /\ m[1] = [of |-> b, kind |-> x] /\ m[2] = [of |-> b, kind |-> y]
  OBVIOUS
<1>4. AreMessages(M, A, K)
  BY DEF AreMessages
<1> HIDE DEF m
<1>5. AllOf(m, b)
  BY <1>3 DEF AllOf
<1>6. Ordered(m, R)
  <2>1. \A i, j \in DOMAIN m : i < j => (i = 1 /\ j = 2)
    BY <1>3
  <2> QED
    BY <1>3, <2>1 DEF Ordered
<1>7. L \in SUBSET K /\ Says(m, L, K)
  BY <1>3 DEF Says
<1> HIDE DEF L
<1>8. NoneBefore(L, ToldIn(q, A, K)[b], R)
  BY DEF L
<1>9. Ordered(q \o m, R)
  BY <1>2, <1>4, <1>5, <1>6, <1>7, <1>8, TheseAreTold
<1>10. IsTold(L, b, ToldIn(q, A, K), ToldIn(q \o m, A, K))
  BY <1>2, <1>4, <1>5, <1>6, <1>7, <1>8, TheseAreTold
<1>11. q \o m \in Seq(M)
  BY <1>2
<1> QED
  BY <1>9, <1>10, <1>11 DEF L, m

LEMMA ThreeAreTold ==
    ASSUME NEW A, NEW K, NEW R, NEW M, M = [of : A, kind : K], NEW q \in Seq(M), Ordered(q, R), NEW b \in A,
           NEW x \in K, NEW y \in K, NEW z \in K, NoneBefore({x, y, z}, ToldIn(q, A, K)[b], R), <<x, y>> \notin R, <<x, z>> \notin R, <<y, z>> \notin R
    PROVE  LET m == <<[of |-> b, kind |-> x], [of |-> b, kind |-> y], [of |-> b, kind |-> z]>> IN
           /\ q \o m \in Seq(M) /\ Ordered(q \o m, R)
           /\ IsTold({x, y, z}, b, ToldIn(q, A, K), ToldIn(q \o m, A, K))
<1> DEFINE m == <<[of |-> b, kind |-> x], [of |-> b, kind |-> y], [of |-> b, kind |-> z]>>
           L == {x, y, z}
<1>1. \A k \in K : [of |-> b, kind |-> k] \in M
  OBVIOUS
<1>2. m \in Seq(M)
  BY <1>1
<1>3. DOMAIN m = 1 .. 3 /\ m[1] = [of |-> b, kind |-> x] /\ m[2] = [of |-> b, kind |-> y] /\ m[3] = [of |-> b, kind |-> z]
  OBVIOUS
<1>4. AreMessages(M, A, K)
  BY DEF AreMessages
<1> HIDE DEF m
<1>5. AllOf(m, b)
  BY <1>3 DEF AllOf
<1>6. Ordered(m, R)
  <2>1. \A i, j \in DOMAIN m : i < j => (i = 1 /\ j = 2) \/ (i = 1 /\ j = 3) \/ (i = 2 /\ j = 3)
    BY <1>3
  <2> QED
    BY <1>3, <2>1 DEF Ordered
<1>7. L \in SUBSET K /\ Says(m, L, K)
  BY <1>3 DEF Says
<1> HIDE DEF L
<1>8. NoneBefore(L, ToldIn(q, A, K)[b], R)
  BY DEF L
<1>9. Ordered(q \o m, R)
  BY <1>2, <1>4, <1>5, <1>6, <1>7, <1>8, TheseAreTold
<1>10. IsTold(L, b, ToldIn(q, A, K), ToldIn(q \o m, A, K))
  BY <1>2, <1>4, <1>5, <1>6, <1>7, <1>8, TheseAreTold
<1>11. q \o m \in Seq(M)
  BY <1>2
<1> QED
  BY <1>9, <1>10, <1>11 DEF L, m

LEMMA AppendJoins ==
    ASSUME NEW S, NEW q \in Seq(S), NEW x \in S
    PROVE  Append(q, x) = q \o <<x>>
  OBVIOUS

LEMMA OneMore ==
    ASSUME NEW S, NEW q \in Seq(S), NEW e \in S
    PROVE  /\ q \o <<e>> = Append(q, e) /\ Append(q, e) \in Seq(S)
           /\ DOMAIN Append(q, e) = DOMAIN q \cup {Len(q) + 1} /\ Append(q, e)[Len(q) + 1] = e
           /\ \A i \in DOMAIN q : i < Len(q) + 1 /\ Append(q, e)[i] = q[i]
           /\ DOMAIN q \subseteq Nat /\ Len(q) \in Nat
  OBVIOUS

LEMMA TwoMore ==
    ASSUME NEW S, NEW q \in Seq(S), NEW d \in S, NEW e \in S
    PROVE  /\ q \o <<d, e>> \in Seq(S)
           /\ DOMAIN (q \o <<d, e>>) = DOMAIN q \cup {Len(q) + 1, Len(q) + 2}
           /\ (q \o <<d, e>>)[Len(q) + 1] = d /\ (q \o <<d, e>>)[Len(q) + 2] = e
           /\ \A i \in DOMAIN q : i < Len(q) + 1 /\ (q \o <<d, e>>)[i] = q[i]
           /\ DOMAIN q \subseteq Nat /\ Len(q) \in Nat
  OBVIOUS

(* ----------------------------- the MQTT request ---------------------------- *)
(* Mqtt!told abstracts the queue v6 to the kinds on their way of each attempt;   *)
(* with it Mqtt!Inv says what an attempt has come to, and that what may still    *)
(* become the registered session is of the current generation.                   *)
Mqtt == INSTANCE MqttTab WITH
    MaxAttempts <- ConnectsOfMqtt, MaxLeaves <- LeavesOfMqtt, MaxLosses <- LossesOfMqtt,
    period <- v1, phase <- v2, genOf <- v3, heard <- v4, client <- v5, out <- v6,
    generation <- v7, conn <- v8, leaving <- v9, status <- v10, leaves <- v11, losses <- v12,
    hasty <- v13, missed <- v14
ASSUME MqttAssumption == Mqtt!MqttTabAssumption

LEMMA MqttMessages ==
    /\ Mqtt!Messages = [of : Mqtt!Attempt, kind : Mqtt!Kinds] /\ AreMessages(Mqtt!Messages, Mqtt!Attempt, Mqtt!Kinds)
    /\ Mqtt!Queued <=> v6 \in Seq(Mqtt!Messages) /\ Ordered(v6, Mqtt!Never)
    /\ Mqtt!Queued' <=> v6' \in Seq(Mqtt!Messages) /\ Ordered(v6', Mqtt!Never)
    /\ Mqtt!told = ToldIn(v6, Mqtt!Attempt, Mqtt!Kinds) /\ Mqtt!told' = ToldIn(v6', Mqtt!Attempt, Mqtt!Kinds)
    /\ Mqtt!told \in [Mqtt!Attempt -> SUBSET Mqtt!Kinds] /\ Mqtt!told' \in [Mqtt!Attempt -> SUBSET Mqtt!Kinds]
<1>1. Mqtt!Messages = [of : Mqtt!Attempt, kind : Mqtt!Kinds] /\ AreMessages(Mqtt!Messages, Mqtt!Attempt, Mqtt!Kinds)
  BY DEF AreMessages, Mqtt!Messages
<1>2. Mqtt!Queued <=> v6 \in Seq(Mqtt!Messages) /\ Ordered(v6, Mqtt!Never)
  BY DEF Mqtt!Queued, Ordered
<1>3. Mqtt!Queued' <=> v6' \in Seq(Mqtt!Messages) /\ Ordered(v6', Mqtt!Never)
  BY DEF Mqtt!Queued, Ordered
<1>4. Mqtt!told = ToldIn(v6, Mqtt!Attempt, Mqtt!Kinds) /\ Mqtt!told' = ToldIn(v6', Mqtt!Attempt, Mqtt!Kinds)
  BY DEF Mqtt!told, ToldIn, Mqtt!Message
<1>5. Mqtt!told \in [Mqtt!Attempt -> SUBSET Mqtt!Kinds] /\ Mqtt!told' \in [Mqtt!Attempt -> SUBSET Mqtt!Kinds]
  BY DEF Mqtt!told
<1> QED
  BY <1>1, <1>2, <1>3, <1>4, <1>5

LEMMA MqttTakes ==
    ASSUME Mqtt!Queued, v6 # <<>>
    PROVE  /\ Tail(v6) \in Seq(Mqtt!Messages) /\ Ordered(Tail(v6), Mqtt!Never)
           /\ IsTaken(Head(v6), Mqtt!told, ToldIn(Tail(v6), Mqtt!Attempt, Mqtt!Kinds), Mqtt!Attempt, Mqtt!Kinds, Mqtt!Never)
<1>1. AreMessages(Mqtt!Messages, Mqtt!Attempt, Mqtt!Kinds) /\ v6 \in Seq(Mqtt!Messages) /\ Ordered(v6, Mqtt!Never)
      /\ Mqtt!told = ToldIn(v6, Mqtt!Attempt, Mqtt!Kinds)
  BY MqttMessages
<1>2. Tail(v6) \in Seq(Mqtt!Messages)
  BY <1>1, HeadIsTaken
<1>3. Ordered(Tail(v6), Mqtt!Never)
  BY <1>1, HeadIsTaken
<1>4. IsTaken(Head(v6), ToldIn(v6, Mqtt!Attempt, Mqtt!Kinds), ToldIn(Tail(v6), Mqtt!Attempt, Mqtt!Kinds), Mqtt!Attempt, Mqtt!Kinds, Mqtt!Never)
  BY <1>1, HeadIsTaken
<1> QED
  BY <1>1, <1>2, <1>3, <1>4

LEMMA MqttTellsOne ==
    ASSUME NEW q \in Seq(Mqtt!Messages), Ordered(q, Mqtt!Never), NEW a \in Mqtt!Attempt, NEW x \in Mqtt!Kinds,
           NoneBefore({x}, ToldIn(q, Mqtt!Attempt, Mqtt!Kinds)[a], Mqtt!Never),
           v6' = q \o <<Mqtt!Message(a, x)>>
    PROVE  Mqtt!Queued' /\ IsTold({x}, a, ToldIn(q, Mqtt!Attempt, Mqtt!Kinds), Mqtt!told')
<1> DEFINE m == <<[of |-> a, kind |-> x]>>
<1>1. Mqtt!Messages = [of : Mqtt!Attempt, kind : Mqtt!Kinds]
  BY MqttMessages
<1>3. v6' = q \o m
  BY DEF Mqtt!Message
<1>4. q \o m \in Seq(Mqtt!Messages)
  BY <1>1
<1>5. Ordered(q \o m, Mqtt!Never)
  BY <1>1, OneIsTold
<1>6. IsTold({x}, a, ToldIn(q, Mqtt!Attempt, Mqtt!Kinds), ToldIn(q \o m, Mqtt!Attempt, Mqtt!Kinds))
  BY <1>1, OneIsTold
<1> HIDE DEF m
<1> QED
  BY <1>3, <1>4, <1>5, <1>6, MqttMessages

LEMMA MqttTellsTwo ==
    ASSUME NEW q \in Seq(Mqtt!Messages), Ordered(q, Mqtt!Never), NEW a \in Mqtt!Attempt, NEW x \in Mqtt!Kinds, NEW y \in Mqtt!Kinds,
           NoneBefore({x, y}, ToldIn(q, Mqtt!Attempt, Mqtt!Kinds)[a], Mqtt!Never), <<x, y>> \notin Mqtt!Never,
           v6' = q \o <<Mqtt!Message(a, x), Mqtt!Message(a, y)>>
    PROVE  Mqtt!Queued' /\ IsTold({x, y}, a, ToldIn(q, Mqtt!Attempt, Mqtt!Kinds), Mqtt!told')
<1> DEFINE m == <<[of |-> a, kind |-> x], [of |-> a, kind |-> y]>>
<1>1. Mqtt!Messages = [of : Mqtt!Attempt, kind : Mqtt!Kinds]
  BY MqttMessages
<1>3. v6' = q \o m
  BY DEF Mqtt!Message
<1>4. q \o m \in Seq(Mqtt!Messages)
  BY <1>1
<1>5. Ordered(q \o m, Mqtt!Never)
  BY <1>1, TwoAreTold
<1>6. IsTold({x, y}, a, ToldIn(q, Mqtt!Attempt, Mqtt!Kinds), ToldIn(q \o m, Mqtt!Attempt, Mqtt!Kinds))
  BY <1>1, TwoAreTold
<1> HIDE DEF m
<1> QED
  BY <1>3, <1>4, <1>5, <1>6, MqttMessages

LEMMA MqttTellsThree ==
    ASSUME NEW q \in Seq(Mqtt!Messages), Ordered(q, Mqtt!Never), NEW a \in Mqtt!Attempt, NEW x \in Mqtt!Kinds, NEW y \in Mqtt!Kinds, NEW z \in Mqtt!Kinds,
           NoneBefore({x, y, z}, ToldIn(q, Mqtt!Attempt, Mqtt!Kinds)[a], Mqtt!Never), <<x, y>> \notin Mqtt!Never, <<x, z>> \notin Mqtt!Never, <<y, z>> \notin Mqtt!Never,
           v6' = q \o <<Mqtt!Message(a, x), Mqtt!Message(a, y), Mqtt!Message(a, z)>>
    PROVE  Mqtt!Queued' /\ IsTold({x, y, z}, a, ToldIn(q, Mqtt!Attempt, Mqtt!Kinds), Mqtt!told')
<1> DEFINE m == <<[of |-> a, kind |-> x], [of |-> a, kind |-> y], [of |-> a, kind |-> z]>>
<1>1. Mqtt!Messages = [of : Mqtt!Attempt, kind : Mqtt!Kinds]
  BY MqttMessages
<1>3. v6' = q \o m
  BY DEF Mqtt!Message
<1>4. q \o m \in Seq(Mqtt!Messages)
  BY <1>1
<1>5. Ordered(q \o m, Mqtt!Never)
  BY <1>1, ThreeAreTold
<1>6. IsTold({x, y, z}, a, ToldIn(q, Mqtt!Attempt, Mqtt!Kinds), ToldIn(q \o m, Mqtt!Attempt, Mqtt!Kinds))
  BY <1>1, ThreeAreTold
<1> HIDE DEF m
<1> QED
  BY <1>3, <1>4, <1>5, <1>6, MqttMessages

LEMMA MqttBegins == Mqtt!Init => Mqtt!Inv
<1> SUFFICES ASSUME Mqtt!Init PROVE Mqtt!Inv
  OBVIOUS
<1> USE MqttAssumption DEF Mqtt!MqttTabAssumption, Mqtt!Init, Mqtt!Attempt
<1>1. Mqtt!TypeOK
  <2>1. v11 \in 0 .. LeavesOfMqtt /\ v12 \in 0 .. LossesOfMqtt
    OBVIOUS
  <2>2. v8 \in Mqtt!Attempt \cup {0} /\ v7 \in Nat /\ v9 \in Mqtt!Attempt \cup {0}
    OBVIOUS
  <2>3. v1 \in BOOLEAN /\ {v13, v14} \subseteq BOOLEAN
    OBVIOUS
  <2> QED
    BY <2>1, <2>2, <2>3 DEF Mqtt!TypeOK
<1>2. Mqtt!Queued
  BY DEF Mqtt!Queued
<1>3. Mqtt!Heard /\ Mqtt!Registered /\ Mqtt!Numbered
  BY DEF Mqtt!Heard, Mqtt!Registered, Mqtt!Numbered, Mqtt!told
<1>4. Mqtt!Kept /\ Mqtt!OneSession
  BY DEF Mqtt!Kept, Mqtt!Underway, Mqtt!OneSession, Mqtt!told
<1> QED
  BY <1>1, <1>2, <1>3, <1>4 DEF Mqtt!Inv

LEMMA MqttOnConnect ==
    ASSUME Mqtt!Inv, NEW a \in Mqtt!Attempt, Mqtt!Connect(a)
    PROVE  Mqtt!Inv'
<1> USE MqttAssumption DEF Mqtt!MqttTabAssumption, Mqtt!Inv
<1>1. /\ v2[a] = "new" /\ v2' = [v2 EXCEPT ![a] = "building"]
      /\ v10 \notin {"connecting", "connected", "disconnecting"} /\ v10' = "connecting"
      /\ v7' = v7 + 1 /\ v3' = [v3 EXCEPT ![a] = v7 + 1]
      /\ v1' = v1 /\ v4' = v4 /\ v5' = v5 /\ v8' = v8 /\ v9' = v9
      /\ v11' = v11 /\ v12' = v12 /\ v13' = v13 /\ v14' = v14
  BY DEF Mqtt!Connect, Mqtt!noted
<1>q. Mqtt!Queued' /\ Mqtt!told' = Mqtt!told
  BY DEF Mqtt!Connect, Mqtt!Queued, Mqtt!told
<1>t. Mqtt!TypeOK'
  <2>1. v11' \in 0 .. LeavesOfMqtt
    BY <1>1, <1>q DEF Mqtt!TypeOK
  <2>2. v12' \in 0 .. LossesOfMqtt
    BY <1>1, <1>q DEF Mqtt!TypeOK
  <2>3. v8' \in Mqtt!Attempt \cup {0} /\ v9' \in Mqtt!Attempt \cup {0}
    BY <1>1, <1>q DEF Mqtt!TypeOK
  <2>4. v7' \in Nat
    BY <1>1, <1>q DEF Mqtt!TypeOK
  <2>5. v3' \in [Mqtt!Attempt -> Nat]
    BY <1>1, <1>q DEF Mqtt!TypeOK
  <2>6. v2' \in [Mqtt!Attempt -> {"new", "building", "asked", "over"}]
    BY <1>1, <1>q DEF Mqtt!TypeOK
  <2>7. v4' \subseteq Mqtt!Attempt
    BY <1>1, <1>q DEF Mqtt!TypeOK
  <2>8. v5' \in [Mqtt!Attempt -> {"none", "opening", "open", "retrying", "ending", "closed"}]
    BY <1>1, <1>q DEF Mqtt!TypeOK
  <2>9. v10' \in {"none", "connecting", "connected", "disconnecting", "disconnected", "error"}
    BY <1>1, <1>q DEF Mqtt!TypeOK
  <2>10. v1' \in BOOLEAN
    BY <1>1, <1>q DEF Mqtt!TypeOK
  <2>11. {v13', v14'} \subseteq BOOLEAN
    BY <1>1, <1>q DEF Mqtt!TypeOK
  <2> QED
    BY <2>1, <2>2, <2>3, <2>4, <2>5, <2>6, <2>7, <2>8, <2>9, <2>10, <2>11 DEF Mqtt!TypeOK
<1>h. Mqtt!Heard'
  <2> SUFFICES ASSUME NEW c \in Mqtt!Attempt PROVE Mqtt!Heard!(c)'
    BY DEF Mqtt!Heard
  <2>1. CASE c = a
    BY <1>1, <1>q, <2>1 DEF Mqtt!TypeOK, Mqtt!Heard, Mqtt!Registered
  <2>2. CASE c # a
    BY <1>1, <1>q, <2>2 DEF Mqtt!TypeOK, Mqtt!Heard
  <2> QED
    BY <2>1, <2>2
<1>r. Mqtt!Registered'
  BY <1>1, <1>q DEF Mqtt!TypeOK, Mqtt!Heard, Mqtt!Registered, Mqtt!Attempt
<1>n. Mqtt!Numbered'
  <2>1. \A c \in Mqtt!Attempt : v3[c] <= v7 /\ v3[c] \in Nat /\ v7 \in Nat
    BY DEF Mqtt!Numbered, Mqtt!TypeOK
  <2> QED
    BY <1>1, <2>1 DEF Mqtt!Numbered, Mqtt!TypeOK
<1>k. ASSUME ~v13', ~v14' PROVE Mqtt!Kept' /\ Mqtt!OneSession'
  <2>0. ~v13 /\ ~v14 /\ Mqtt!Kept /\ Mqtt!OneSession
    BY <1>1, <1>q, <1>k DEF Mqtt!TypeOK
  <2>1. v8' # 0 => Mqtt!Current(v8)'
    BY <1>1, <2>0 DEF Mqtt!Kept, Mqtt!Underway, Mqtt!TypeOK
  <2>2. ASSUME NEW c \in Mqtt!Attempt, Mqtt!Current(c)', Mqtt!Underway(c)'
        PROVE  v10' \in {"connecting", "connected", "disconnecting"}
    BY <1>1
  <2>3. Mqtt!OneSession'
    BY <1>1, <2>0 DEF Mqtt!OneSession, Mqtt!TypeOK, Mqtt!Heard
  <2> QED
    BY <2>1, <2>2, <2>3 DEF Mqtt!Kept
<1> QED
  BY <1>q, <1>t, <1>h, <1>r, <1>n, <1>k DEF Mqtt!TypeOK

LEMMA MqttOnBuildFails ==
    ASSUME Mqtt!Inv, NEW a \in Mqtt!Attempt, Mqtt!BuildFails(a)
    PROVE  Mqtt!Inv'
<1> USE MqttAssumption DEF Mqtt!MqttTabAssumption, Mqtt!Inv
<1>1. /\ v2[a] = "building" /\ v2' = [v2 EXCEPT ![a] = "over"]
      /\ v10' = IF Mqtt!Current(a) THEN "error" ELSE v10
      /\ v1' = v1 /\ v3' = v3 /\ v4' = v4 /\ v5' = v5 /\ v7' = v7
      /\ v8' = v8 /\ v9' = v9 /\ v11' = v11 /\ v12' = v12 /\ v13' = v13
      /\ v14' = v14
  BY DEF Mqtt!BuildFails, Mqtt!noted
<1>q. Mqtt!Queued' /\ Mqtt!told' = Mqtt!told
  BY DEF Mqtt!BuildFails, Mqtt!Queued, Mqtt!told
<1>t. Mqtt!TypeOK'
  <2>1. v11' \in 0 .. LeavesOfMqtt
    BY <1>1, <1>q DEF Mqtt!TypeOK
  <2>2. v12' \in 0 .. LossesOfMqtt
    BY <1>1, <1>q DEF Mqtt!TypeOK
  <2>3. v8' \in Mqtt!Attempt \cup {0} /\ v9' \in Mqtt!Attempt \cup {0}
    BY <1>1, <1>q DEF Mqtt!TypeOK
  <2>4. v7' \in Nat
    BY <1>1, <1>q DEF Mqtt!TypeOK
  <2>5. v3' \in [Mqtt!Attempt -> Nat]
    BY <1>1, <1>q DEF Mqtt!TypeOK
  <2>6. v2' \in [Mqtt!Attempt -> {"new", "building", "asked", "over"}]
    BY <1>1, <1>q DEF Mqtt!TypeOK
  <2>7. v4' \subseteq Mqtt!Attempt
    BY <1>1, <1>q DEF Mqtt!TypeOK
  <2>8. v5' \in [Mqtt!Attempt -> {"none", "opening", "open", "retrying", "ending", "closed"}]
    BY <1>1, <1>q DEF Mqtt!TypeOK
  <2>9. v10' \in {"none", "connecting", "connected", "disconnecting", "disconnected", "error"}
    BY <1>1, <1>q DEF Mqtt!TypeOK
  <2>10. v1' \in BOOLEAN
    BY <1>1, <1>q DEF Mqtt!TypeOK
  <2>11. {v13', v14'} \subseteq BOOLEAN
    BY <1>1, <1>q DEF Mqtt!TypeOK
  <2> QED
    BY <2>1, <2>2, <2>3, <2>4, <2>5, <2>6, <2>7, <2>8, <2>9, <2>10, <2>11 DEF Mqtt!TypeOK
<1>h. Mqtt!Heard'
  <2> SUFFICES ASSUME NEW c \in Mqtt!Attempt PROVE Mqtt!Heard!(c)'
    BY DEF Mqtt!Heard
  <2>1. CASE c = a
    BY <1>1, <1>q, <2>1 DEF Mqtt!TypeOK, Mqtt!Heard, Mqtt!Registered
  <2>2. CASE c # a
    BY <1>1, <1>q, <2>2 DEF Mqtt!TypeOK, Mqtt!Heard
  <2> QED
    BY <2>1, <2>2
<1>r. Mqtt!Registered'
  BY <1>1, <1>q DEF Mqtt!TypeOK, Mqtt!Heard, Mqtt!Registered, Mqtt!Attempt
<1>n. Mqtt!Numbered'
  BY <1>1, <1>q DEF Mqtt!TypeOK, Mqtt!Numbered
<1>k. ASSUME ~v13', ~v14' PROVE Mqtt!Kept' /\ Mqtt!OneSession'
  <2>0. ~v13 /\ ~v14 /\ Mqtt!Kept /\ Mqtt!OneSession
    BY <1>1, <1>q, <1>k DEF Mqtt!TypeOK
  <2>1. v8' # 0 => Mqtt!Current(v8)'
    BY <1>1, <1>q, <2>0 DEF Mqtt!TypeOK, Mqtt!Kept, Mqtt!Current, Mqtt!Registered, Mqtt!Heard,
       Mqtt!Attempt
  <2>2. ASSUME NEW c \in Mqtt!Attempt, Mqtt!Current(c)', Mqtt!Underway(c)'
        PROVE  v10' \in {"connecting", "connected", "disconnecting"}
    <3>0. v3[a] # 0 /\ c # a /\ Mqtt!Current(c) /\ Mqtt!Underway(c)
      BY <1>1, <1>q, <2>2 DEF Mqtt!Underway, Mqtt!Heard, Mqtt!Registered, Mqtt!Current, Mqtt!TypeOK,
         Mqtt!Attempt
    <3>1. ~Mqtt!Current(a)
      BY <3>0 DEF Mqtt!Numbered, Mqtt!Current
    <3> QED
      BY <1>1, <2>0, <2>2, <3>0, <3>1 DEF Mqtt!Kept
  <2>3. Mqtt!OneSession'
    BY <1>1, <1>q, <2>0 DEF Mqtt!TypeOK, Mqtt!OneSession, Mqtt!Heard, Mqtt!Registered, Mqtt!Kept,
       Mqtt!Numbered, Mqtt!Current, Mqtt!Attempt
  <2> QED
    BY <2>1, <2>2, <2>3 DEF Mqtt!Kept
<1> QED
  BY <1>q, <1>t, <1>h, <1>r, <1>n, <1>k DEF Mqtt!TypeOK

LEMMA MqttOnBuilt ==
    ASSUME Mqtt!Inv, NEW a \in Mqtt!Attempt, Mqtt!Built(a)
    PROVE  Mqtt!Inv'
<1> USE MqttAssumption DEF Mqtt!MqttTabAssumption, Mqtt!Inv
<1>1. /\ v4' = v4 \cup {a}
      /\ v2[a] = "building" /\ v2' = [v2 EXCEPT ![a] = "asked"]
      /\ v5' = [v5 EXCEPT ![a] = "opening"]
      /\ v1' = v1 /\ v3' = v3 /\ v7' = v7 /\ v8' = v8 /\ v9' = v9
      /\ v10' = v10 /\ v11' = v11 /\ v12' = v12 /\ v13' = v13 /\ v14' = v14
  BY DEF Mqtt!Built, Mqtt!noted
<1>2. Mqtt!told[a] = {} /\ v6' = Append(v6, Mqtt!Message(a, "connecting"))
  BY DEF Mqtt!Built, Mqtt!Heard
<1>3. v6' = v6 \o <<Mqtt!Message(a, "connecting")>>
  BY <1>2, MqttMessages
<1>4. NoneBefore({"connecting"}, ToldIn(v6, Mqtt!Attempt, Mqtt!Kinds)[a], Mqtt!Never) /\ "connecting" \in Mqtt!Kinds
  BY DEF NoneBefore, Mqtt!Never, Mqtt!Kinds
<1>5. v6 \in Seq(Mqtt!Messages) /\ Ordered(v6, Mqtt!Never)
  BY MqttMessages
<1>6. Mqtt!Queued' /\ IsTold({"connecting"}, a, ToldIn(v6, Mqtt!Attempt, Mqtt!Kinds), Mqtt!told')
  BY <1>3, <1>4, <1>5, MqttTellsOne
<1>q. Mqtt!Queued' /\ Mqtt!told' = [Mqtt!told EXCEPT ![a] = Mqtt!told[a] \cup {"connecting"}]
  BY <1>6, MqttMessages DEF IsTold
<1>t. Mqtt!TypeOK'
  <2>1. v11' \in 0 .. LeavesOfMqtt
    BY <1>1, <1>2, <1>q, MqttMessages DEF Mqtt!TypeOK
  <2>2. v12' \in 0 .. LossesOfMqtt
    BY <1>1, <1>2, <1>q, MqttMessages DEF Mqtt!TypeOK
  <2>3. v8' \in Mqtt!Attempt \cup {0} /\ v9' \in Mqtt!Attempt \cup {0}
    BY <1>1, <1>2, <1>q, MqttMessages DEF Mqtt!TypeOK
  <2>4. v7' \in Nat
    BY <1>1, <1>2, <1>q, MqttMessages DEF Mqtt!TypeOK
  <2>5. v3' \in [Mqtt!Attempt -> Nat]
    BY <1>1, <1>2, <1>q, MqttMessages DEF Mqtt!TypeOK
  <2>6. v2' \in [Mqtt!Attempt -> {"new", "building", "asked", "over"}]
    BY <1>1, <1>2, <1>q, MqttMessages DEF Mqtt!TypeOK
  <2>7. v4' \subseteq Mqtt!Attempt
    BY <1>1, <1>2, <1>q, MqttMessages DEF Mqtt!TypeOK
  <2>8. v5' \in [Mqtt!Attempt -> {"none", "opening", "open", "retrying", "ending", "closed"}]
    BY <1>1, <1>2, <1>q, MqttMessages DEF Mqtt!TypeOK
  <2>9. v10' \in {"none", "connecting", "connected", "disconnecting", "disconnected", "error"}
    BY <1>1, <1>2, <1>q, MqttMessages DEF Mqtt!TypeOK
  <2>10. v1' \in BOOLEAN
    BY <1>1, <1>2, <1>q, MqttMessages DEF Mqtt!TypeOK
  <2>11. {v13', v14'} \subseteq BOOLEAN
    BY <1>1, <1>2, <1>q, MqttMessages DEF Mqtt!TypeOK
  <2> QED
    BY <2>1, <2>2, <2>3, <2>4, <2>5, <2>6, <2>7, <2>8, <2>9, <2>10, <2>11 DEF Mqtt!TypeOK
<1>h. Mqtt!Heard'
  <2> SUFFICES ASSUME NEW c \in Mqtt!Attempt PROVE Mqtt!Heard!(c)'
    BY DEF Mqtt!Heard
  <2>1. CASE c = a
    BY <1>1, <1>2, <1>q, MqttMessages, <2>1 DEF Mqtt!TypeOK, Mqtt!Heard, Mqtt!Registered
  <2>2. CASE c # a
    BY <1>1, <1>2, <1>q, MqttMessages, <2>2 DEF Mqtt!TypeOK, Mqtt!Heard
  <2> QED
    BY <2>1, <2>2
<1>r. Mqtt!Registered'
  BY <1>1, <1>2, <1>q, MqttMessages DEF Mqtt!TypeOK, Mqtt!Heard, Mqtt!Registered, Mqtt!Attempt
<1>n. Mqtt!Numbered'
  BY <1>1, <1>2, <1>q, MqttMessages DEF Mqtt!TypeOK, Mqtt!Numbered
<1>k. ASSUME ~v13', ~v14' PROVE Mqtt!Kept' /\ Mqtt!OneSession'
  <2>0. ~v13 /\ ~v14 /\ Mqtt!Kept /\ Mqtt!OneSession
    BY <1>1, <1>2, <1>q, MqttMessages, <1>k DEF Mqtt!TypeOK
  <2>1. v8' # 0 => Mqtt!Current(v8)'
    BY <1>1, <1>2, <1>q, MqttMessages, <2>0 DEF Mqtt!TypeOK, Mqtt!Kept, Mqtt!Current,
       Mqtt!Registered, Mqtt!Heard, Mqtt!Attempt
  <2>2. ASSUME NEW c \in Mqtt!Attempt, Mqtt!Current(c)', Mqtt!Underway(c)'
        PROVE  v10' \in {"connecting", "connected", "disconnecting"}
    <3>1. Mqtt!Current(c) /\ (c = a \/ Mqtt!Underway(c))
      BY <1>1, <1>q, <2>2, MqttMessages DEF Mqtt!Underway, Mqtt!Current, Mqtt!TypeOK
    <3> QED
      BY <1>1, <2>0, <2>2, <3>1 DEF Mqtt!Kept, Mqtt!Underway
  <2>3. Mqtt!OneSession'
    BY <1>1, <1>2, <1>q, MqttMessages, <2>0 DEF Mqtt!TypeOK, Mqtt!OneSession, Mqtt!Heard,
       Mqtt!Registered, Mqtt!Kept, Mqtt!Numbered, Mqtt!Current, Mqtt!Attempt
  <2> QED
    BY <2>1, <2>2, <2>3 DEF Mqtt!Kept
<1> QED
  BY <1>q, <1>t, <1>h, <1>r, <1>n, <1>k DEF Mqtt!TypeOK

LEMMA MqttOnTakeStatus ==
    ASSUME Mqtt!Inv, Mqtt!TakeStatus
    PROVE  Mqtt!Inv'
<1> USE MqttAssumption DEF Mqtt!MqttTabAssumption, Mqtt!Inv
<1>1. /\ Tail(v6) \in Seq(Mqtt!Messages) /\ Ordered(Tail(v6), Mqtt!Never)
      /\ IsTaken(Head(v6), Mqtt!told, ToldIn(Tail(v6), Mqtt!Attempt, Mqtt!Kinds), Mqtt!Attempt, Mqtt!Kinds, Mqtt!Never)
  BY MqttTakes DEF Mqtt!TakeStatus
<1> DEFINE t == ToldIn(Tail(v6), Mqtt!Attempt, Mqtt!Kinds)
<1>2. PICK a \in Mqtt!Attempt, l \in Mqtt!Kinds :
        /\ Head(v6).of = a /\ Head(v6).kind = l /\ l \in Mqtt!told[a]
        /\ \A b \in Mqtt!Attempt : b # a => t[b] = Mqtt!told[b]
        /\ t[a] \subseteq Mqtt!told[a] /\ Mqtt!told[a] \subseteq t[a] \cup {l}
        /\ \A k \in t[a] : <<l, k>> \notin Mqtt!Never
  BY <1>1 DEF IsTaken
<1>e. t \in [Mqtt!Attempt -> SUBSET Mqtt!Kinds]
  BY DEF ToldIn
<1> HIDE DEF t
<1>3. /\ l \in {"connecting", "connected", "disconnecting"}
      /\ v10' = IF a \in v4 /\ Mqtt!Current(a) THEN l ELSE v10
      /\ v1' = v1 /\ v2' = v2 /\ v3' = v3 /\ v4' = v4 /\ v5' = v5
      /\ v7' = v7 /\ v8' = v8 /\ v9' = v9 /\ v11' = v11 /\ v12' = v12
      /\ v13' = v13 /\ v14' = v14
  BY <1>2 DEF Mqtt!TakeStatus, Mqtt!noted
<1>q. Mqtt!Queued' /\ Mqtt!told' = t
  <2>1. v6' = Tail(v6)
    BY DEF Mqtt!TakeStatus
  <2> QED
    BY <1>1, <2>1, MqttMessages DEF t
<1>t. Mqtt!TypeOK'
  <2>1. v11' \in 0 .. LeavesOfMqtt
    BY <1>2, <1>e, <1>3, <1>q DEF Mqtt!TypeOK, Mqtt!Kinds
  <2>2. v12' \in 0 .. LossesOfMqtt
    BY <1>2, <1>e, <1>3, <1>q DEF Mqtt!TypeOK, Mqtt!Kinds
  <2>3. v8' \in Mqtt!Attempt \cup {0} /\ v9' \in Mqtt!Attempt \cup {0}
    BY <1>2, <1>e, <1>3, <1>q DEF Mqtt!TypeOK, Mqtt!Kinds
  <2>4. v7' \in Nat
    BY <1>2, <1>e, <1>3, <1>q DEF Mqtt!TypeOK, Mqtt!Kinds
  <2>5. v3' \in [Mqtt!Attempt -> Nat]
    BY <1>2, <1>e, <1>3, <1>q DEF Mqtt!TypeOK, Mqtt!Kinds
  <2>6. v2' \in [Mqtt!Attempt -> {"new", "building", "asked", "over"}]
    BY <1>2, <1>e, <1>3, <1>q DEF Mqtt!TypeOK, Mqtt!Kinds
  <2>7. v4' \subseteq Mqtt!Attempt
    BY <1>2, <1>e, <1>3, <1>q DEF Mqtt!TypeOK, Mqtt!Kinds
  <2>8. v5' \in [Mqtt!Attempt -> {"none", "opening", "open", "retrying", "ending", "closed"}]
    BY <1>2, <1>e, <1>3, <1>q DEF Mqtt!TypeOK, Mqtt!Kinds
  <2>9. v10' \in {"none", "connecting", "connected", "disconnecting", "disconnected", "error"}
    BY <1>2, <1>e, <1>3, <1>q DEF Mqtt!TypeOK, Mqtt!Kinds
  <2>10. v1' \in BOOLEAN
    BY <1>2, <1>e, <1>3, <1>q DEF Mqtt!TypeOK, Mqtt!Kinds
  <2>11. {v13', v14'} \subseteq BOOLEAN
    BY <1>2, <1>e, <1>3, <1>q DEF Mqtt!TypeOK, Mqtt!Kinds
  <2> QED
    BY <2>1, <2>2, <2>3, <2>4, <2>5, <2>6, <2>7, <2>8, <2>9, <2>10, <2>11 DEF Mqtt!TypeOK
<1>h. Mqtt!Heard'
  <2> SUFFICES ASSUME NEW c \in Mqtt!Attempt PROVE Mqtt!Heard!(c)'
    BY DEF Mqtt!Heard
  <2>1. CASE c = a
    BY <1>2, <1>e, <1>3, <1>q, <2>1 DEF Mqtt!TypeOK, Mqtt!Heard, Mqtt!Registered
  <2>2. CASE c # a
    BY <1>2, <1>e, <1>3, <1>q, <2>2 DEF Mqtt!TypeOK, Mqtt!Heard
  <2> QED
    BY <2>1, <2>2
<1>r. Mqtt!Registered'
  BY <1>2, <1>e, <1>3, <1>q DEF Mqtt!TypeOK, Mqtt!Heard, Mqtt!Registered, Mqtt!Attempt
<1>n. Mqtt!Numbered'
  BY <1>2, <1>e, <1>3, <1>q DEF Mqtt!TypeOK, Mqtt!Numbered
<1>k. ASSUME ~v13', ~v14' PROVE Mqtt!Kept' /\ Mqtt!OneSession'
  <2>0. ~v13 /\ ~v14 /\ Mqtt!Kept /\ Mqtt!OneSession
    BY <1>2, <1>e, <1>3, <1>q, <1>k DEF Mqtt!TypeOK
  <2>1. v8' # 0 => Mqtt!Current(v8)'
    BY <1>2, <1>e, <1>3, <1>q, <2>0 DEF Mqtt!TypeOK, Mqtt!Kept, Mqtt!Current, Mqtt!Registered,
       Mqtt!Heard, Mqtt!Attempt
  <2>2. ASSUME NEW c \in Mqtt!Attempt, Mqtt!Current(c)', Mqtt!Underway(c)'
        PROVE  v10' \in {"connecting", "connected", "disconnecting"}
    <3>1. Mqtt!Current(c) /\ Mqtt!Underway(c)
      BY <1>2, <1>e, <1>3, <1>q, <2>2 DEF Mqtt!Underway, Mqtt!Current
    <3>2. v10 \in {"connecting", "connected", "disconnecting"}
      BY <2>0, <2>2, <3>1 DEF Mqtt!Kept
    <3> QED
      BY <1>2, <1>3, <3>2
  <2>3. Mqtt!OneSession'
    BY <1>2, <1>e, <1>3, <1>q, <2>0 DEF Mqtt!TypeOK, Mqtt!OneSession, Mqtt!Heard, Mqtt!Registered,
       Mqtt!Kept, Mqtt!Numbered, Mqtt!Current, Mqtt!Attempt
  <2> QED
    BY <2>1, <2>2, <2>3 DEF Mqtt!Kept
<1> QED
  BY <1>q, <1>t, <1>h, <1>r, <1>n, <1>k DEF Mqtt!TypeOK

LEMMA MqttOnTakeError ==
    ASSUME Mqtt!Inv, Mqtt!TakeError
    PROVE  Mqtt!Inv'
<1> USE MqttAssumption DEF Mqtt!MqttTabAssumption, Mqtt!Inv
<1>1. /\ Tail(v6) \in Seq(Mqtt!Messages) /\ Ordered(Tail(v6), Mqtt!Never)
      /\ IsTaken(Head(v6), Mqtt!told, ToldIn(Tail(v6), Mqtt!Attempt, Mqtt!Kinds), Mqtt!Attempt, Mqtt!Kinds, Mqtt!Never)
  BY MqttTakes DEF Mqtt!TakeError
<1> DEFINE t == ToldIn(Tail(v6), Mqtt!Attempt, Mqtt!Kinds)
<1>2. PICK a \in Mqtt!Attempt, l \in Mqtt!Kinds :
        /\ Head(v6).of = a /\ Head(v6).kind = l /\ l \in Mqtt!told[a]
        /\ \A b \in Mqtt!Attempt : b # a => t[b] = Mqtt!told[b]
        /\ t[a] \subseteq Mqtt!told[a] /\ Mqtt!told[a] \subseteq t[a] \cup {l}
        /\ \A k \in t[a] : <<l, k>> \notin Mqtt!Never
  BY <1>1 DEF IsTaken
<1>e. t \in [Mqtt!Attempt -> SUBSET Mqtt!Kinds]
  BY DEF ToldIn
<1> HIDE DEF t
<1>3. /\ l = "error"
      /\ v1' = v1 /\ v2' = v2 /\ v3' = v3 /\ v4' = v4 /\ v5' = v5
      /\ v7' = v7 /\ v8' = v8 /\ v9' = v9 /\ v10' = v10 /\ v11' = v11
      /\ v12' = v12 /\ v13' = v13 /\ v14' = v14
  BY <1>2 DEF Mqtt!TakeError, Mqtt!noted
<1>q. Mqtt!Queued' /\ Mqtt!told' = t
  <2>1. v6' = Tail(v6)
    BY DEF Mqtt!TakeError
  <2> QED
    BY <1>1, <2>1, MqttMessages DEF t
<1>t. Mqtt!TypeOK'
  <2>1. v11' \in 0 .. LeavesOfMqtt
    BY <1>2, <1>e, <1>3, <1>q DEF Mqtt!TypeOK, Mqtt!Kinds
  <2>2. v12' \in 0 .. LossesOfMqtt
    BY <1>2, <1>e, <1>3, <1>q DEF Mqtt!TypeOK, Mqtt!Kinds
  <2>3. v8' \in Mqtt!Attempt \cup {0} /\ v9' \in Mqtt!Attempt \cup {0}
    BY <1>2, <1>e, <1>3, <1>q DEF Mqtt!TypeOK, Mqtt!Kinds
  <2>4. v7' \in Nat
    BY <1>2, <1>e, <1>3, <1>q DEF Mqtt!TypeOK, Mqtt!Kinds
  <2>5. v3' \in [Mqtt!Attempt -> Nat]
    BY <1>2, <1>e, <1>3, <1>q DEF Mqtt!TypeOK, Mqtt!Kinds
  <2>6. v2' \in [Mqtt!Attempt -> {"new", "building", "asked", "over"}]
    BY <1>2, <1>e, <1>3, <1>q DEF Mqtt!TypeOK, Mqtt!Kinds
  <2>7. v4' \subseteq Mqtt!Attempt
    BY <1>2, <1>e, <1>3, <1>q DEF Mqtt!TypeOK, Mqtt!Kinds
  <2>8. v5' \in [Mqtt!Attempt -> {"none", "opening", "open", "retrying", "ending", "closed"}]
    BY <1>2, <1>e, <1>3, <1>q DEF Mqtt!TypeOK, Mqtt!Kinds
  <2>9. v10' \in {"none", "connecting", "connected", "disconnecting", "disconnected", "error"}
    BY <1>2, <1>e, <1>3, <1>q DEF Mqtt!TypeOK, Mqtt!Kinds
  <2>10. v1' \in BOOLEAN
    BY <1>2, <1>e, <1>3, <1>q DEF Mqtt!TypeOK, Mqtt!Kinds
  <2>11. {v13', v14'} \subseteq BOOLEAN
    BY <1>2, <1>e, <1>3, <1>q DEF Mqtt!TypeOK, Mqtt!Kinds
  <2> QED
    BY <2>1, <2>2, <2>3, <2>4, <2>5, <2>6, <2>7, <2>8, <2>9, <2>10, <2>11 DEF Mqtt!TypeOK
<1>h. Mqtt!Heard'
  <2> SUFFICES ASSUME NEW c \in Mqtt!Attempt PROVE Mqtt!Heard!(c)'
    BY DEF Mqtt!Heard
  <2>1. CASE c = a
    BY <1>2, <1>e, <1>3, <1>q, <2>1 DEF Mqtt!TypeOK, Mqtt!Heard, Mqtt!Registered
  <2>2. CASE c # a
    BY <1>2, <1>e, <1>3, <1>q, <2>2 DEF Mqtt!TypeOK, Mqtt!Heard
  <2> QED
    BY <2>1, <2>2
<1>r. Mqtt!Registered'
  BY <1>2, <1>e, <1>3, <1>q DEF Mqtt!TypeOK, Mqtt!Heard, Mqtt!Registered, Mqtt!Attempt
<1>n. Mqtt!Numbered'
  BY <1>2, <1>e, <1>3, <1>q DEF Mqtt!TypeOK, Mqtt!Numbered
<1>k. ASSUME ~v13', ~v14' PROVE Mqtt!Kept' /\ Mqtt!OneSession'
  <2>0. ~v13 /\ ~v14 /\ Mqtt!Kept /\ Mqtt!OneSession
    BY <1>2, <1>e, <1>3, <1>q, <1>k DEF Mqtt!TypeOK
  <2>1. v8' # 0 => Mqtt!Current(v8)'
    BY <1>2, <1>e, <1>3, <1>q, <2>0 DEF Mqtt!TypeOK, Mqtt!Kept, Mqtt!Current, Mqtt!Registered,
       Mqtt!Heard, Mqtt!Attempt
  <2>2. ASSUME NEW c \in Mqtt!Attempt, Mqtt!Current(c)', Mqtt!Underway(c)'
        PROVE  v10' \in {"connecting", "connected", "disconnecting"}
    <3>1. Mqtt!Current(c) /\ Mqtt!Underway(c)
      BY <1>2, <1>e, <1>3, <1>q, <2>2 DEF Mqtt!Underway, Mqtt!Current
    <3>2. v10 \in {"connecting", "connected", "disconnecting"}
      BY <2>0, <2>2, <3>1 DEF Mqtt!Kept
    <3> QED
      BY <1>2, <1>3, <3>2
  <2>3. Mqtt!OneSession'
    BY <1>2, <1>e, <1>3, <1>q, <2>0 DEF Mqtt!TypeOK, Mqtt!OneSession, Mqtt!Heard, Mqtt!Registered,
       Mqtt!Kept, Mqtt!Numbered, Mqtt!Current, Mqtt!Attempt
  <2> QED
    BY <2>1, <2>2, <2>3 DEF Mqtt!Kept
<1> QED
  BY <1>q, <1>t, <1>h, <1>r, <1>n, <1>k DEF Mqtt!TypeOK

LEMMA MqttOnTakeDisconnected ==
    ASSUME Mqtt!Inv, Mqtt!TakeDisconnected
    PROVE  Mqtt!Inv'
<1> USE MqttAssumption DEF Mqtt!MqttTabAssumption, Mqtt!Inv
<1>1. /\ Tail(v6) \in Seq(Mqtt!Messages) /\ Ordered(Tail(v6), Mqtt!Never)
      /\ IsTaken(Head(v6), Mqtt!told, ToldIn(Tail(v6), Mqtt!Attempt, Mqtt!Kinds), Mqtt!Attempt, Mqtt!Kinds, Mqtt!Never)
  BY MqttTakes DEF Mqtt!TakeDisconnected
<1> DEFINE t == ToldIn(Tail(v6), Mqtt!Attempt, Mqtt!Kinds)
<1>2. PICK a \in Mqtt!Attempt, l \in Mqtt!Kinds :
        /\ Head(v6).of = a /\ Head(v6).kind = l /\ l \in Mqtt!told[a]
        /\ \A b \in Mqtt!Attempt : b # a => t[b] = Mqtt!told[b]
        /\ t[a] \subseteq Mqtt!told[a] /\ Mqtt!told[a] \subseteq t[a] \cup {l}
        /\ \A k \in t[a] : <<l, k>> \notin Mqtt!Never
  BY <1>1 DEF IsTaken
<1>e. t \in [Mqtt!Attempt -> SUBSET Mqtt!Kinds]
  BY DEF ToldIn
<1> HIDE DEF t
<1>3. /\ l = "disconnected"
      /\ IF a \in v4 /\ Mqtt!Current(a)
         THEN v8' = 0 /\ v10' = IF v10 = "error" THEN v10 ELSE "disconnected"
         ELSE v8' = v8 /\ v10' = v10
      /\ v4' = v4 \ {a}
      /\ v1' = v1 /\ v2' = v2 /\ v3' = v3 /\ v5' = v5 /\ v7' = v7
      /\ v9' = v9 /\ v11' = v11 /\ v12' = v12 /\ v13' = v13 /\ v14' = v14
  BY <1>2 DEF Mqtt!TakeDisconnected, Mqtt!noted
<1>q. Mqtt!Queued' /\ Mqtt!told' = t
  <2>1. v6' = Tail(v6)
    BY DEF Mqtt!TakeDisconnected
  <2> QED
    BY <1>1, <2>1, MqttMessages DEF t
<1>t. Mqtt!TypeOK'
  <2>1. v11' \in 0 .. LeavesOfMqtt
    BY <1>2, <1>e, <1>3, <1>q DEF Mqtt!TypeOK, Mqtt!Kinds
  <2>2. v12' \in 0 .. LossesOfMqtt
    BY <1>2, <1>e, <1>3, <1>q DEF Mqtt!TypeOK, Mqtt!Kinds
  <2>3. v8' \in Mqtt!Attempt \cup {0} /\ v9' \in Mqtt!Attempt \cup {0}
    BY <1>2, <1>e, <1>3, <1>q DEF Mqtt!TypeOK, Mqtt!Kinds
  <2>4. v7' \in Nat
    BY <1>2, <1>e, <1>3, <1>q DEF Mqtt!TypeOK, Mqtt!Kinds
  <2>5. v3' \in [Mqtt!Attempt -> Nat]
    BY <1>2, <1>e, <1>3, <1>q DEF Mqtt!TypeOK, Mqtt!Kinds
  <2>6. v2' \in [Mqtt!Attempt -> {"new", "building", "asked", "over"}]
    BY <1>2, <1>e, <1>3, <1>q DEF Mqtt!TypeOK, Mqtt!Kinds
  <2>7. v4' \subseteq Mqtt!Attempt
    BY <1>2, <1>e, <1>3, <1>q DEF Mqtt!TypeOK, Mqtt!Kinds
  <2>8. v5' \in [Mqtt!Attempt -> {"none", "opening", "open", "retrying", "ending", "closed"}]
    BY <1>2, <1>e, <1>3, <1>q DEF Mqtt!TypeOK, Mqtt!Kinds
  <2>9. v10' \in {"none", "connecting", "connected", "disconnecting", "disconnected", "error"}
    BY <1>2, <1>e, <1>3, <1>q DEF Mqtt!TypeOK, Mqtt!Kinds
  <2>10. v1' \in BOOLEAN
    BY <1>2, <1>e, <1>3, <1>q DEF Mqtt!TypeOK, Mqtt!Kinds
  <2>11. {v13', v14'} \subseteq BOOLEAN
    BY <1>2, <1>e, <1>3, <1>q DEF Mqtt!TypeOK, Mqtt!Kinds
  <2> QED
    BY <2>1, <2>2, <2>3, <2>4, <2>5, <2>6, <2>7, <2>8, <2>9, <2>10, <2>11 DEF Mqtt!TypeOK
<1>h. Mqtt!Heard'
  <2> SUFFICES ASSUME NEW c \in Mqtt!Attempt PROVE Mqtt!Heard!(c)'
    BY DEF Mqtt!Heard
  <2>1. CASE c = a
    BY <1>2, <1>e, <1>3, <1>q, <2>1 DEF Mqtt!TypeOK, Mqtt!Heard, Mqtt!Registered
  <2>2. CASE c # a
    BY <1>2, <1>e, <1>3, <1>q, <2>2 DEF Mqtt!TypeOK, Mqtt!Heard
  <2> QED
    BY <2>1, <2>2
<1>r. Mqtt!Registered'
  BY <1>2, <1>e, <1>3, <1>q DEF Mqtt!TypeOK, Mqtt!Heard, Mqtt!Registered, Mqtt!Attempt
<1>n. Mqtt!Numbered'
  BY <1>2, <1>e, <1>3, <1>q DEF Mqtt!TypeOK, Mqtt!Numbered
<1>k. ASSUME ~v13', ~v14' PROVE Mqtt!Kept' /\ Mqtt!OneSession'
  <2>0. ~v13 /\ ~v14 /\ Mqtt!Kept /\ Mqtt!OneSession
    BY <1>2, <1>e, <1>3, <1>q, <1>k DEF Mqtt!TypeOK
  <2>1. v8' # 0 => Mqtt!Current(v8)'
    BY <1>2, <1>e, <1>3, <1>q, <2>0 DEF Mqtt!TypeOK, Mqtt!Kept, Mqtt!Current, Mqtt!Registered,
       Mqtt!Heard, Mqtt!Attempt
  <2>2. ASSUME NEW c \in Mqtt!Attempt, Mqtt!Current(c)', Mqtt!Underway(c)'
        PROVE  v10' \in {"connecting", "connected", "disconnecting"}
    <3>0. CASE a \in v4 /\ Mqtt!Current(a)
      <4>5. "made" \notin t[a]
        BY <1>2, <1>3 DEF Mqtt!Never
      <4>6. v5[a] = "closed" /\ v2[a] \notin {"new", "building"}
        BY <1>2, <1>3 DEF Mqtt!Heard
      <4>7a. Mqtt!Current(c)
        BY <1>3, <2>2 DEF Mqtt!Current
      <4>7b. v8' = 0 /\ c # 0
        BY <1>3, <3>0 DEF Mqtt!Attempt
      <4>7. v8' # c /\ Mqtt!Current(c)
        BY <4>7a, <4>7b
      <4>0. "made" \notin t[a] /\ v5[a] = "closed" /\ v2[a] # "building" /\ v8' # c /\ Mqtt!Current(c)
        BY <4>5, <4>6, <4>7
      <4>1. c # a
        BY <1>3, <1>q, <2>2, <4>0 DEF Mqtt!Underway, Mqtt!Heard
      <4>2. v3[c] # 0
        BY <1>2, <1>e, <1>3, <1>q, <2>2, <4>0, <4>1 DEF Mqtt!Underway, Mqtt!Heard, Mqtt!TypeOK
      <4> QED
        BY <3>0, <4>0, <4>1, <4>2 DEF Mqtt!Numbered, Mqtt!Current
    <3>a. CASE ~(a \in v4 /\ Mqtt!Current(a))
      <4>1. Mqtt!Current(c) /\ Mqtt!Underway(c)
        BY <3>a, <1>2, <1>e, <1>3, <1>q, <2>2 DEF Mqtt!Underway, Mqtt!Current
      <4>2. v10 \in {"connecting", "connected", "disconnecting"}
        BY <2>0, <2>2, <4>1 DEF Mqtt!Kept
      <4> QED
        BY <3>a, <1>2, <1>3, <4>2
    <3> QED
      BY <3>0, <3>a
  <2>3. Mqtt!OneSession'
    BY <1>2, <1>e, <1>3, <1>q, <2>0 DEF Mqtt!TypeOK, Mqtt!OneSession, Mqtt!Heard, Mqtt!Registered,
       Mqtt!Kept, Mqtt!Numbered, Mqtt!Current, Mqtt!Attempt
  <2> QED
    BY <2>1, <2>2, <2>3 DEF Mqtt!Kept
<1> QED
  BY <1>q, <1>t, <1>h, <1>r, <1>n, <1>k DEF Mqtt!TypeOK

LEMMA MqttOnTakeRefused ==
    ASSUME Mqtt!Inv, Mqtt!TakeRefused
    PROVE  Mqtt!Inv'
<1> USE MqttAssumption DEF Mqtt!MqttTabAssumption, Mqtt!Inv
<1>1. /\ Tail(v6) \in Seq(Mqtt!Messages) /\ Ordered(Tail(v6), Mqtt!Never)
      /\ IsTaken(Head(v6), Mqtt!told, ToldIn(Tail(v6), Mqtt!Attempt, Mqtt!Kinds), Mqtt!Attempt, Mqtt!Kinds, Mqtt!Never)
  BY MqttTakes DEF Mqtt!TakeRefused
<1> DEFINE t == ToldIn(Tail(v6), Mqtt!Attempt, Mqtt!Kinds)
<1>2. PICK a \in Mqtt!Attempt, l \in Mqtt!Kinds :
        /\ Head(v6).of = a /\ Head(v6).kind = l /\ l \in Mqtt!told[a]
        /\ \A b \in Mqtt!Attempt : b # a => t[b] = Mqtt!told[b]
        /\ t[a] \subseteq Mqtt!told[a] /\ Mqtt!told[a] \subseteq t[a] \cup {l}
        /\ \A k \in t[a] : <<l, k>> \notin Mqtt!Never
  BY <1>1 DEF IsTaken
<1>e. t \in [Mqtt!Attempt -> SUBSET Mqtt!Kinds]
  BY DEF ToldIn
<1> HIDE DEF t
<1>3. /\ l = "refused" /\ v2' = [v2 EXCEPT ![a] = "over"]
      /\ v4' = v4 \ {a} /\ v10' = IF Mqtt!Current(a) THEN "error" ELSE v10
      /\ v1' = v1 /\ v3' = v3 /\ v5' = v5 /\ v7' = v7 /\ v8' = v8
      /\ v9' = v9 /\ v11' = v11 /\ v12' = v12 /\ v13' = v13 /\ v14' = v14
  BY <1>2 DEF Mqtt!TakeRefused, Mqtt!noted
<1>m. Mqtt!told[a] \cap {"made", "refused"} # {} /\ t[a] \cap {"made", "refused"} = {}
  BY <1>2, <1>3 DEF Mqtt!Never
<1>q. Mqtt!Queued' /\ Mqtt!told' = t
  <2>1. v6' = Tail(v6)
    BY DEF Mqtt!TakeRefused
  <2> QED
    BY <1>1, <2>1, MqttMessages DEF t
<1>t. Mqtt!TypeOK'
  <2>1. v11' \in 0 .. LeavesOfMqtt
    BY <1>2, <1>e, <1>3, <1>q DEF Mqtt!TypeOK, Mqtt!Kinds
  <2>2. v12' \in 0 .. LossesOfMqtt
    BY <1>2, <1>e, <1>3, <1>q DEF Mqtt!TypeOK, Mqtt!Kinds
  <2>3. v8' \in Mqtt!Attempt \cup {0} /\ v9' \in Mqtt!Attempt \cup {0}
    BY <1>2, <1>e, <1>3, <1>q DEF Mqtt!TypeOK, Mqtt!Kinds
  <2>4. v7' \in Nat
    BY <1>2, <1>e, <1>3, <1>q DEF Mqtt!TypeOK, Mqtt!Kinds
  <2>5. v3' \in [Mqtt!Attempt -> Nat]
    BY <1>2, <1>e, <1>3, <1>q DEF Mqtt!TypeOK, Mqtt!Kinds
  <2>6. v2' \in [Mqtt!Attempt -> {"new", "building", "asked", "over"}]
    BY <1>2, <1>e, <1>3, <1>q DEF Mqtt!TypeOK, Mqtt!Kinds
  <2>7. v4' \subseteq Mqtt!Attempt
    BY <1>2, <1>e, <1>3, <1>q DEF Mqtt!TypeOK, Mqtt!Kinds
  <2>8. v5' \in [Mqtt!Attempt -> {"none", "opening", "open", "retrying", "ending", "closed"}]
    BY <1>2, <1>e, <1>3, <1>q DEF Mqtt!TypeOK, Mqtt!Kinds
  <2>9. v10' \in {"none", "connecting", "connected", "disconnecting", "disconnected", "error"}
    BY <1>2, <1>e, <1>3, <1>q DEF Mqtt!TypeOK, Mqtt!Kinds
  <2>10. v1' \in BOOLEAN
    BY <1>2, <1>e, <1>3, <1>q DEF Mqtt!TypeOK, Mqtt!Kinds
  <2>11. {v13', v14'} \subseteq BOOLEAN
    BY <1>2, <1>e, <1>3, <1>q DEF Mqtt!TypeOK, Mqtt!Kinds
  <2> QED
    BY <2>1, <2>2, <2>3, <2>4, <2>5, <2>6, <2>7, <2>8, <2>9, <2>10, <2>11 DEF Mqtt!TypeOK
<1>h. Mqtt!Heard'
  <2> SUFFICES ASSUME NEW c \in Mqtt!Attempt PROVE Mqtt!Heard!(c)'
    BY DEF Mqtt!Heard
  <2>1. CASE c = a
    BY <1>2, <1>e, <1>3, <1>m, <1>q, <2>1 DEF Mqtt!TypeOK, Mqtt!Heard, Mqtt!Registered
  <2>2. CASE c # a
    BY <1>2, <1>e, <1>3, <1>q, <2>2 DEF Mqtt!TypeOK, Mqtt!Heard
  <2> QED
    BY <2>1, <2>2
<1>r. Mqtt!Registered'
  BY <1>2, <1>e, <1>3, <1>q DEF Mqtt!TypeOK, Mqtt!Heard, Mqtt!Registered, Mqtt!Attempt
<1>n. Mqtt!Numbered'
  BY <1>2, <1>e, <1>3, <1>q DEF Mqtt!TypeOK, Mqtt!Numbered
<1>k. ASSUME ~v13', ~v14' PROVE Mqtt!Kept' /\ Mqtt!OneSession'
  <2>0. ~v13 /\ ~v14 /\ Mqtt!Kept /\ Mqtt!OneSession
    BY <1>2, <1>e, <1>3, <1>q, <1>k DEF Mqtt!TypeOK
  <2>1. v8' # 0 => Mqtt!Current(v8)'
    BY <1>2, <1>e, <1>3, <1>q, <2>0 DEF Mqtt!TypeOK, Mqtt!Kept, Mqtt!Current, Mqtt!Registered,
       Mqtt!Heard, Mqtt!Attempt
  <2>2. ASSUME NEW c \in Mqtt!Attempt, Mqtt!Current(c)', Mqtt!Underway(c)'
        PROVE  v10' \in {"connecting", "connected", "disconnecting"}
    <3>1. c # a /\ Mqtt!Current(c) /\ Mqtt!Underway(c)
      BY <1>2, <1>e, <1>3, <1>q, <2>2, <1>m DEF Mqtt!Underway, Mqtt!Current, Mqtt!Heard,
         Mqtt!Registered, Mqtt!TypeOK, Mqtt!Never, Mqtt!Attempt
    <3>2. v3[c] # 0
      BY <3>1 DEF Mqtt!Underway, Mqtt!Heard, Mqtt!Registered, Mqtt!TypeOK, Mqtt!Attempt
    <3>3. ~Mqtt!Current(a)
      BY <3>1, <3>2 DEF Mqtt!Numbered, Mqtt!Current
    <3> QED
      BY <1>2, <1>3, <2>0, <2>2, <3>1, <3>3 DEF Mqtt!Kept
  <2>3. Mqtt!OneSession'
    <3>1. v5[a] = "closed"
      BY <1>2, <1>3 DEF Mqtt!Heard
    <3> QED
      BY <1>3, <2>0, <3>1 DEF Mqtt!OneSession, Mqtt!TypeOK
  <2> QED
    BY <2>1, <2>2, <2>3 DEF Mqtt!Kept
<1> QED
  BY <1>q, <1>t, <1>h, <1>r, <1>n, <1>k DEF Mqtt!TypeOK

LEMMA MqttOnTakeLeft ==
    ASSUME Mqtt!Inv, Mqtt!TakeLeft
    PROVE  Mqtt!Inv'
<1> USE MqttAssumption DEF Mqtt!MqttTabAssumption, Mqtt!Inv
<1>1. /\ Tail(v6) \in Seq(Mqtt!Messages) /\ Ordered(Tail(v6), Mqtt!Never)
      /\ IsTaken(Head(v6), Mqtt!told, ToldIn(Tail(v6), Mqtt!Attempt, Mqtt!Kinds), Mqtt!Attempt, Mqtt!Kinds, Mqtt!Never)
  BY MqttTakes DEF Mqtt!TakeLeft
<1> DEFINE t == ToldIn(Tail(v6), Mqtt!Attempt, Mqtt!Kinds)
<1>2. PICK a \in Mqtt!Attempt, l \in Mqtt!Kinds :
        /\ Head(v6).of = a /\ Head(v6).kind = l /\ l \in Mqtt!told[a]
        /\ \A b \in Mqtt!Attempt : b # a => t[b] = Mqtt!told[b]
        /\ t[a] \subseteq Mqtt!told[a] /\ Mqtt!told[a] \subseteq t[a] \cup {l}
        /\ \A k \in t[a] : <<l, k>> \notin Mqtt!Never
  BY <1>1 DEF IsTaken
<1>e. t \in [Mqtt!Attempt -> SUBSET Mqtt!Kinds]
  BY DEF ToldIn
<1> HIDE DEF t
<1>3. /\ l = "left" /\ v9' = 0 /\ v8' = 0 /\ v10' = "disconnected"
      /\ v13' = (v13 \/ ~Mqtt!Current(a))
      /\ v1' = v1 /\ v2' = v2 /\ v3' = v3 /\ v4' = v4 /\ v5' = v5
      /\ v7' = v7 /\ v11' = v11 /\ v12' = v12 /\ v14' = v14
  BY <1>2 DEF Mqtt!TakeLeft, Mqtt!noted
<1>q. Mqtt!Queued' /\ Mqtt!told' = t
  <2>1. v6' = Tail(v6)
    BY DEF Mqtt!TakeLeft
  <2> QED
    BY <1>1, <2>1, MqttMessages DEF t
<1>t. Mqtt!TypeOK'
  <2>1. v11' \in 0 .. LeavesOfMqtt
    BY <1>2, <1>e, <1>3, <1>q DEF Mqtt!TypeOK, Mqtt!Kinds
  <2>2. v12' \in 0 .. LossesOfMqtt
    BY <1>2, <1>e, <1>3, <1>q DEF Mqtt!TypeOK, Mqtt!Kinds
  <2>3. v8' \in Mqtt!Attempt \cup {0} /\ v9' \in Mqtt!Attempt \cup {0}
    BY <1>2, <1>e, <1>3, <1>q DEF Mqtt!TypeOK, Mqtt!Kinds
  <2>4. v7' \in Nat
    BY <1>2, <1>e, <1>3, <1>q DEF Mqtt!TypeOK, Mqtt!Kinds
  <2>5. v3' \in [Mqtt!Attempt -> Nat]
    BY <1>2, <1>e, <1>3, <1>q DEF Mqtt!TypeOK, Mqtt!Kinds
  <2>6. v2' \in [Mqtt!Attempt -> {"new", "building", "asked", "over"}]
    BY <1>2, <1>e, <1>3, <1>q DEF Mqtt!TypeOK, Mqtt!Kinds
  <2>7. v4' \subseteq Mqtt!Attempt
    BY <1>2, <1>e, <1>3, <1>q DEF Mqtt!TypeOK, Mqtt!Kinds
  <2>8. v5' \in [Mqtt!Attempt -> {"none", "opening", "open", "retrying", "ending", "closed"}]
    BY <1>2, <1>e, <1>3, <1>q DEF Mqtt!TypeOK, Mqtt!Kinds
  <2>9. v10' \in {"none", "connecting", "connected", "disconnecting", "disconnected", "error"}
    BY <1>2, <1>e, <1>3, <1>q DEF Mqtt!TypeOK, Mqtt!Kinds
  <2>10. v1' \in BOOLEAN
    BY <1>2, <1>e, <1>3, <1>q DEF Mqtt!TypeOK, Mqtt!Kinds
  <2>11. {v13', v14'} \subseteq BOOLEAN
    BY <1>2, <1>e, <1>3, <1>q DEF Mqtt!TypeOK, Mqtt!Kinds
  <2> QED
    BY <2>1, <2>2, <2>3, <2>4, <2>5, <2>6, <2>7, <2>8, <2>9, <2>10, <2>11 DEF Mqtt!TypeOK
<1>h. Mqtt!Heard'
  <2> SUFFICES ASSUME NEW c \in Mqtt!Attempt PROVE Mqtt!Heard!(c)'
    BY DEF Mqtt!Heard
  <2>1. CASE c = a
    BY <1>2, <1>e, <1>3, <1>q, <2>1 DEF Mqtt!TypeOK, Mqtt!Heard, Mqtt!Registered
  <2>2. CASE c # a
    BY <1>2, <1>e, <1>3, <1>q, <2>2 DEF Mqtt!TypeOK, Mqtt!Heard
  <2> QED
    BY <2>1, <2>2
<1>r. Mqtt!Registered'
  BY <1>2, <1>e, <1>3, <1>q DEF Mqtt!TypeOK, Mqtt!Heard, Mqtt!Registered, Mqtt!Attempt
<1>n. Mqtt!Numbered'
  BY <1>2, <1>e, <1>3, <1>q DEF Mqtt!TypeOK, Mqtt!Numbered
<1>k. ASSUME ~v13', ~v14' PROVE Mqtt!Kept' /\ Mqtt!OneSession'
  <2>0. ~v13 /\ ~v14 /\ Mqtt!Kept /\ Mqtt!OneSession
    BY <1>2, <1>e, <1>3, <1>q, <1>k DEF Mqtt!TypeOK
  <2>1. v8' # 0 => Mqtt!Current(v8)'
    BY <1>2, <1>e, <1>3, <1>q, <2>0 DEF Mqtt!TypeOK, Mqtt!Kept, Mqtt!Current, Mqtt!Registered,
       Mqtt!Heard, Mqtt!Attempt
  <2>2. ASSUME NEW c \in Mqtt!Attempt, Mqtt!Current(c)', Mqtt!Underway(c)'
        PROVE  v10' \in {"connecting", "connected", "disconnecting"}
    <3>1. c # a /\ v3[c] # 0 /\ Mqtt!Current(c)
      BY <1>2, <1>e, <1>3, <1>q, <2>2 DEF Mqtt!Underway, Mqtt!Current, Mqtt!Heard, Mqtt!TypeOK,
         Mqtt!Attempt
    <3>2. Mqtt!Current(a)
      BY <1>3, <1>k DEF Mqtt!TypeOK
    <3> QED
      BY <3>1, <3>2 DEF Mqtt!Numbered, Mqtt!Current
  <2>3. Mqtt!OneSession'
    <3>a. Mqtt!Current(a)
      BY <1>3, <1>k
    <3>b. v5[a] \in {"ending", "closed"} /\ v2[a] = "over"
      BY <1>2, <1>3 DEF Mqtt!Heard
    <3>c. v3[a] # 0
      BY <3>b DEF Mqtt!Heard
    <3>1. Mqtt!Current(a) /\ v5[a] \in {"ending", "closed"} /\ v3[a] # 0
      BY <3>a, <3>b, <3>c
    <3>2. v8 # 0 => v8 = a
      BY <2>0, <3>1 DEF Mqtt!Kept, Mqtt!Numbered, Mqtt!Current, Mqtt!TypeOK
    <3> QED
      BY <1>3, <2>0, <3>1, <3>2 DEF Mqtt!OneSession
  <2> QED
    BY <2>1, <2>2, <2>3 DEF Mqtt!Kept
<1> QED
  BY <1>q, <1>t, <1>h, <1>r, <1>n, <1>k DEF Mqtt!TypeOK

LEMMA MqttOnTakeMade ==
    ASSUME Mqtt!Inv, Mqtt!TakeMade
    PROVE  Mqtt!Inv'
<1> USE MqttAssumption DEF Mqtt!MqttTabAssumption, Mqtt!Inv
<1>1. /\ Tail(v6) \in Seq(Mqtt!Messages) /\ Ordered(Tail(v6), Mqtt!Never)
      /\ IsTaken(Head(v6), Mqtt!told, ToldIn(Tail(v6), Mqtt!Attempt, Mqtt!Kinds), Mqtt!Attempt, Mqtt!Kinds, Mqtt!Never)
  BY MqttTakes DEF Mqtt!TakeMade
<1> DEFINE t == ToldIn(Tail(v6), Mqtt!Attempt, Mqtt!Kinds)
<1>2. PICK a \in Mqtt!Attempt, l \in Mqtt!Kinds :
        /\ Head(v6).of = a /\ Head(v6).kind = l /\ l \in Mqtt!told[a]
        /\ \A b \in Mqtt!Attempt : b # a => t[b] = Mqtt!told[b]
        /\ t[a] \subseteq Mqtt!told[a] /\ Mqtt!told[a] \subseteq t[a] \cup {l}
        /\ \A k \in t[a] : <<l, k>> \notin Mqtt!Never
  BY <1>1 DEF IsTaken
<1>e. t \in [Mqtt!Attempt -> SUBSET Mqtt!Kinds]
  BY DEF ToldIn
<1> HIDE DEF t
<1>3. /\ l = "made" /\ v2' = [v2 EXCEPT ![a] = "over"]
      /\ IF Mqtt!Current(a) THEN v8' = a /\ v5' = v5
         ELSE v8' = v8 /\ (v5[a] \in {"opening", "open", "retrying"} => v5' = [v5 EXCEPT ![a] = "ending"])
                       /\ (v5[a] \notin {"opening", "open", "retrying"} => v5' = v5)
      /\ v1' = v1 /\ v3' = v3 /\ v4' = v4 /\ v7' = v7 /\ v9' = v9
      /\ v10' = v10 /\ v11' = v11 /\ v12' = v12 /\ v13' = v13 /\ v14' = v14
  BY <1>2 DEF Mqtt!TakeMade, Mqtt!noted
<1>m. Mqtt!told[a] \cap {"made", "refused"} # {} /\ t[a] \cap {"made", "refused"} = {}
  BY <1>2, <1>3 DEF Mqtt!Never
<1>q. /\ Mqtt!Queued'
      /\ \/ Mqtt!told' = t /\ v5' = v5
         \/ Mqtt!told' = [t EXCEPT ![a] = t[a] \cup {"disconnecting"}] /\ v5' = [v5 EXCEPT ![a] = "ending"]
  <2>1. CASE v6' = Tail(v6) /\ v5' = v5
    BY <1>1, <2>1, MqttMessages DEF t
  <2>2. CASE /\ v6' = Append(Tail(v6), Mqtt!Message(a, "disconnecting")) /\ v5' = [v5 EXCEPT ![a] = "ending"]
    <3>1. Mqtt!Message(a, "disconnecting") \in Mqtt!Messages
      BY DEF Mqtt!Message, Mqtt!Messages, Mqtt!Kinds
    <3>2. v6' = Tail(v6) \o <<Mqtt!Message(a, "disconnecting")>>
      BY <1>1, <2>2, <3>1
    <3>3. t = ToldIn(Tail(v6), Mqtt!Attempt, Mqtt!Kinds)
      BY DEF t
    <3>4. "disconnecting" \in Mqtt!Kinds /\ NoneBefore({"disconnecting"}, ToldIn(Tail(v6), Mqtt!Attempt, Mqtt!Kinds)[a], Mqtt!Never)
      BY DEF Mqtt!Kinds, Mqtt!Never, NoneBefore
    <3>5. Mqtt!Queued' /\ IsTold({"disconnecting"}, a, ToldIn(Tail(v6), Mqtt!Attempt, Mqtt!Kinds), Mqtt!told')
      BY <1>1, <3>2, <3>4, MqttTellsOne
    <3> QED
      BY <2>2, <3>3, <3>5 DEF IsTold
  <2> QED
    BY <1>2, <2>1, <2>2 DEF Mqtt!TakeMade
<1>t. Mqtt!TypeOK'
  <2>1. v11' \in 0 .. LeavesOfMqtt
    BY <1>2, <1>e, <1>3, <1>q DEF Mqtt!TypeOK, Mqtt!Kinds
  <2>2. v12' \in 0 .. LossesOfMqtt
    BY <1>2, <1>e, <1>3, <1>q DEF Mqtt!TypeOK, Mqtt!Kinds
  <2>3. v8' \in Mqtt!Attempt \cup {0} /\ v9' \in Mqtt!Attempt \cup {0}
    BY <1>2, <1>e, <1>3, <1>q DEF Mqtt!TypeOK, Mqtt!Kinds
  <2>4. v7' \in Nat
    BY <1>2, <1>e, <1>3, <1>q DEF Mqtt!TypeOK, Mqtt!Kinds
  <2>5. v3' \in [Mqtt!Attempt -> Nat]
    BY <1>2, <1>e, <1>3, <1>q DEF Mqtt!TypeOK, Mqtt!Kinds
  <2>6. v2' \in [Mqtt!Attempt -> {"new", "building", "asked", "over"}]
    BY <1>2, <1>e, <1>3, <1>q DEF Mqtt!TypeOK, Mqtt!Kinds
  <2>7. v4' \subseteq Mqtt!Attempt
    BY <1>2, <1>e, <1>3, <1>q DEF Mqtt!TypeOK, Mqtt!Kinds
  <2>8. v5' \in [Mqtt!Attempt -> {"none", "opening", "open", "retrying", "ending", "closed"}]
    BY <1>2, <1>e, <1>3, <1>q DEF Mqtt!TypeOK, Mqtt!Kinds
  <2>9. v10' \in {"none", "connecting", "connected", "disconnecting", "disconnected", "error"}
    BY <1>2, <1>e, <1>3, <1>q DEF Mqtt!TypeOK, Mqtt!Kinds
  <2>10. v1' \in BOOLEAN
    BY <1>2, <1>e, <1>3, <1>q DEF Mqtt!TypeOK, Mqtt!Kinds
  <2>11. {v13', v14'} \subseteq BOOLEAN
    BY <1>2, <1>e, <1>3, <1>q DEF Mqtt!TypeOK, Mqtt!Kinds
  <2> QED
    BY <2>1, <2>2, <2>3, <2>4, <2>5, <2>6, <2>7, <2>8, <2>9, <2>10, <2>11 DEF Mqtt!TypeOK
<1>h. Mqtt!Heard'
  <2> SUFFICES ASSUME NEW c \in Mqtt!Attempt PROVE Mqtt!Heard!(c)'
    BY DEF Mqtt!Heard
  <2>a. /\ v2[a] = "asked" /\ v5[a] # "opening" /\ v5[a] # "none" /\ v3[a] # 0
        /\ Mqtt!told[a] \cap {"refused", "disconnected"} # {} => v5[a] = "closed"
        /\ "left" \notin t[a]
    BY <1>2, <1>3, <1>m DEF Mqtt!Heard
  <2>b. v5[a] \in {"open", "retrying", "closed"}
    BY <2>a DEF Mqtt!Heard
  <2>1. CASE c = a
    <3>1. CASE Mqtt!told' = t /\ v5' = v5
      BY <1>2, <1>e, <1>3, <1>m, <2>1, <2>a, <2>b, <3>1 DEF Mqtt!TypeOK
    <3>2. CASE Mqtt!told' = [t EXCEPT ![a] = t[a] \cup {"disconnecting"}] /\ v5' = [v5 EXCEPT ![a] = "ending"]
      BY <1>2, <1>e, <1>3, <1>m, <2>1, <2>a, <2>b, <3>2 DEF Mqtt!TypeOK
    <3> QED
      BY <1>q, <3>1, <3>2
  <2>2. CASE c # a
    BY <1>2, <1>e, <1>3, <1>q, <2>2 DEF Mqtt!TypeOK, Mqtt!Heard
  <2> QED
    BY <2>1, <2>2
<1>r. Mqtt!Registered'
  BY <1>2, <1>e, <1>3, <1>q DEF Mqtt!TypeOK, Mqtt!Heard, Mqtt!Registered, Mqtt!Attempt
<1>n. Mqtt!Numbered'
  BY <1>2, <1>e, <1>3, <1>q DEF Mqtt!TypeOK, Mqtt!Numbered
<1>k. ASSUME ~v13', ~v14' PROVE Mqtt!Kept' /\ Mqtt!OneSession'
  <2>0. ~v13 /\ ~v14 /\ Mqtt!Kept /\ Mqtt!OneSession
    BY <1>2, <1>e, <1>3, <1>q, <1>k DEF Mqtt!TypeOK
  <2>1. v8' # 0 => Mqtt!Current(v8)'
    BY <1>2, <1>e, <1>3, <1>q, <2>0 DEF Mqtt!TypeOK, Mqtt!Kept, Mqtt!Current, Mqtt!Registered,
       Mqtt!Heard, Mqtt!Attempt
  <2>2. ASSUME NEW c \in Mqtt!Attempt, Mqtt!Current(c)', Mqtt!Underway(c)'
        PROVE  v10' \in {"connecting", "connected", "disconnecting"}
    <3>0. Mqtt!Current(c)
      BY <1>3, <2>2 DEF Mqtt!Current
    <3>2. CASE c = a
      BY <1>2, <1>3, <2>0, <2>2, <3>0, <3>2 DEF Mqtt!Kept, Mqtt!Underway
    <3>3. CASE c # a
      <4>1. /\ v2'[c] = v2[c] /\ v5'[c] = v5[c] /\ Mqtt!told'[c] = Mqtt!told[c]
        BY <1>2, <1>e, <1>3, <1>q, <3>3 DEF Mqtt!TypeOK
      <4>2. v8' = c => v8 = c
        BY <1>3, <3>3
      <4> QED
        BY <1>3, <2>0, <2>2, <2>2, <3>0, <4>1, <4>2 DEF Mqtt!Kept, Mqtt!Underway
    <3> QED
      BY <3>2, <3>3
  <2>3. Mqtt!OneSession'
    <3> SUFFICES ASSUME NEW c \in Mqtt!Attempt, v5'[c] \in {"opening", "open", "retrying"}
                 PROVE  c = v8' \/ v2'[c] = "asked"
      BY DEF Mqtt!OneSession
    <3>1. v5[c] \in {"opening", "open", "retrying"}
      BY <1>q DEF Mqtt!TypeOK
    <3>2. CASE c = a
      BY <1>3, <3>1, <3>2 DEF Mqtt!TypeOK
    <3>3. CASE c # a
      <4>1. Mqtt!Current(a) => c # v8
        BY <1>m, <2>0, <3>3 DEF Mqtt!Kept, Mqtt!Current, Mqtt!Numbered, Mqtt!Heard, Mqtt!Registered,
           Mqtt!TypeOK, Mqtt!Attempt
      <4> QED
        BY <1>3, <2>0, <3>1, <3>3, <4>1 DEF Mqtt!OneSession, Mqtt!TypeOK
    <3> QED
      BY <3>2, <3>3
  <2> QED
    BY <2>1, <2>2, <2>3 DEF Mqtt!Kept
<1> QED
  BY <1>q, <1>t, <1>h, <1>r, <1>n, <1>k DEF Mqtt!TypeOK

LEMMA MqttOnAccepted ==
    ASSUME Mqtt!Inv, NEW a \in Mqtt!Attempt, Mqtt!Accepted(a)
    PROVE  Mqtt!Inv'
<1> USE MqttAssumption DEF Mqtt!MqttTabAssumption, Mqtt!Inv
<1>1. /\ v5[a] = "opening" /\ v5' = [v5 EXCEPT ![a] = "open"]
      /\ v1' = v1 /\ v2' = v2 /\ v3' = v3 /\ v4' = v4 /\ v7' = v7
      /\ v8' = v8 /\ v9' = v9 /\ v10' = v10 /\ v11' = v11 /\ v12' = v12
      /\ v13' = v13 /\ v14' = v14
  BY DEF Mqtt!Accepted, Mqtt!Client, Mqtt!noted
<1>q3. v6' = v6 \o <<Mqtt!Message(a, "connected"), Mqtt!Message(a, "made")>>
  BY DEF Mqtt!Accepted, Mqtt!Client
<1>q4. NoneBefore({"connected", "made"}, ToldIn(v6, Mqtt!Attempt, Mqtt!Kinds)[a], Mqtt!Never)
  <2>1. ToldIn(v6, Mqtt!Attempt, Mqtt!Kinds) = Mqtt!told
    BY MqttMessages
  <2> QED
    BY <2>1, <1>1 DEF NoneBefore, Mqtt!Never, Mqtt!Heard
<1>qk. "connected" \in Mqtt!Kinds /\ "made" \in Mqtt!Kinds /\ <<"connected", "made">> \notin Mqtt!Never
  BY DEF Mqtt!Kinds, Mqtt!Never
<1>q5. v6 \in Seq(Mqtt!Messages) /\ Ordered(v6, Mqtt!Never)
  BY MqttMessages
<1>q6. Mqtt!Queued' /\ IsTold({"connected", "made"}, a, ToldIn(v6, Mqtt!Attempt, Mqtt!Kinds), Mqtt!told')
  BY <1>q3, <1>q4, <1>qk, <1>q5, MqttTellsTwo
<1>q. Mqtt!Queued' /\ Mqtt!told' = [Mqtt!told EXCEPT ![a] = Mqtt!told[a] \cup {"connected", "made"}]
  BY <1>q6, MqttMessages DEF IsTold
<1>t. Mqtt!TypeOK'
  <2>1. v11' \in 0 .. LeavesOfMqtt
    BY <1>1, <1>q, MqttMessages DEF Mqtt!TypeOK
  <2>2. v12' \in 0 .. LossesOfMqtt
    BY <1>1, <1>q, MqttMessages DEF Mqtt!TypeOK
  <2>3. v8' \in Mqtt!Attempt \cup {0} /\ v9' \in Mqtt!Attempt \cup {0}
    BY <1>1, <1>q, MqttMessages DEF Mqtt!TypeOK
  <2>4. v7' \in Nat
    BY <1>1, <1>q, MqttMessages DEF Mqtt!TypeOK
  <2>5. v3' \in [Mqtt!Attempt -> Nat]
    BY <1>1, <1>q, MqttMessages DEF Mqtt!TypeOK
  <2>6. v2' \in [Mqtt!Attempt -> {"new", "building", "asked", "over"}]
    BY <1>1, <1>q, MqttMessages DEF Mqtt!TypeOK
  <2>7. v4' \subseteq Mqtt!Attempt
    BY <1>1, <1>q, MqttMessages DEF Mqtt!TypeOK
  <2>8. v5' \in [Mqtt!Attempt -> {"none", "opening", "open", "retrying", "ending", "closed"}]
    BY <1>1, <1>q, MqttMessages DEF Mqtt!TypeOK
  <2>9. v10' \in {"none", "connecting", "connected", "disconnecting", "disconnected", "error"}
    BY <1>1, <1>q, MqttMessages DEF Mqtt!TypeOK
  <2>10. v1' \in BOOLEAN
    BY <1>1, <1>q, MqttMessages DEF Mqtt!TypeOK
  <2>11. {v13', v14'} \subseteq BOOLEAN
    BY <1>1, <1>q, MqttMessages DEF Mqtt!TypeOK
  <2> QED
    BY <2>1, <2>2, <2>3, <2>4, <2>5, <2>6, <2>7, <2>8, <2>9, <2>10, <2>11 DEF Mqtt!TypeOK
<1>h. Mqtt!Heard'
  <2> SUFFICES ASSUME NEW c \in Mqtt!Attempt PROVE Mqtt!Heard!(c)'
    BY DEF Mqtt!Heard
  <2>3. Mqtt!Heard!(a)
    BY DEF Mqtt!Heard
  <2>4. Mqtt!told \in [Mqtt!Attempt -> SUBSET Mqtt!Kinds]
    BY MqttMessages
  <2>1. CASE c = a
    BY <1>1, <1>q, <2>1, <2>3, <2>4 DEF Mqtt!TypeOK
  <2>2. CASE c # a
    BY <1>1, <1>q, <2>2, <2>4 DEF Mqtt!TypeOK, Mqtt!Heard
  <2> QED
    BY <2>1, <2>2
<1>r. Mqtt!Registered'
  BY <1>1, <1>q, MqttMessages DEF Mqtt!TypeOK, Mqtt!Heard, Mqtt!Registered, Mqtt!Attempt
<1>n. Mqtt!Numbered'
  BY <1>1, <1>q, MqttMessages DEF Mqtt!TypeOK, Mqtt!Numbered
<1>k. ASSUME ~v13', ~v14' PROVE Mqtt!Kept' /\ Mqtt!OneSession'
  <2>0. ~v13 /\ ~v14 /\ Mqtt!Kept /\ Mqtt!OneSession
    BY <1>1, <1>q, MqttMessages, <1>k DEF Mqtt!TypeOK
  <2>1. v8' # 0 => Mqtt!Current(v8)'
    BY <1>1, <1>q, MqttMessages, <2>0 DEF Mqtt!TypeOK, Mqtt!Kept, Mqtt!Current, Mqtt!Registered,
       Mqtt!Heard, Mqtt!Attempt
  <2>2. ASSUME NEW c \in Mqtt!Attempt, Mqtt!Current(c)', Mqtt!Underway(c)'
        PROVE  v10' \in {"connecting", "connected", "disconnecting"}
    <3>1. Mqtt!Current(c) /\ Mqtt!Underway(c)
      <4>1. CASE c = a
        BY <1>1, <1>q, <2>2, <4>1, MqttMessages DEF Mqtt!Underway, Mqtt!Current, Mqtt!TypeOK
      <4>2. CASE c # a
        BY <1>1, <1>q, <2>2, <4>2, MqttMessages DEF Mqtt!Underway, Mqtt!Current, Mqtt!TypeOK
      <4> QED
        BY <4>1, <4>2
    <3> QED
      BY <1>1, <2>0, <2>2, <3>1 DEF Mqtt!Kept
  <2>3. Mqtt!OneSession'
    BY <1>1, <2>0 DEF Mqtt!OneSession, Mqtt!TypeOK, Mqtt!Heard
  <2> QED
    BY <2>1, <2>2, <2>3 DEF Mqtt!Kept
<1> QED
  BY <1>q, <1>t, <1>h, <1>r, <1>n, <1>k DEF Mqtt!TypeOK

LEMMA MqttOnRefused ==
    ASSUME Mqtt!Inv, NEW a \in Mqtt!Attempt, Mqtt!Refused(a)
    PROVE  Mqtt!Inv'
<1> USE MqttAssumption DEF Mqtt!MqttTabAssumption, Mqtt!Inv
<1>1. /\ v5[a] = "opening" /\ v5' = [v5 EXCEPT ![a] = "closed"]
      /\ v1' = v1 /\ v2' = v2 /\ v3' = v3 /\ v4' = v4 /\ v7' = v7
      /\ v8' = v8 /\ v9' = v9 /\ v10' = v10 /\ v11' = v11 /\ v12' = v12
      /\ v13' = v13 /\ v14' = v14
  BY DEF Mqtt!Refused, Mqtt!Client, Mqtt!noted
<1>q. Mqtt!Queued' /\ \E L \in {{"error", "disconnected", "refused"}, {"disconnected", "refused"}} :
        Mqtt!told' = [Mqtt!told EXCEPT ![a] = Mqtt!told[a] \cup L]
  <2>1. CASE v6' = v6 \o <<Mqtt!Message(a, "error"), Mqtt!Message(a, "disconnected"), Mqtt!Message(a, "refused")>>
    <3>q3. v6' = v6 \o <<Mqtt!Message(a, "error"), Mqtt!Message(a, "disconnected"), Mqtt!Message(a, "refused")>>
      BY <2>1
    <3>q4. NoneBefore({"error", "disconnected", "refused"}, ToldIn(v6, Mqtt!Attempt, Mqtt!Kinds)[a], Mqtt!Never)
      <4>1. ToldIn(v6, Mqtt!Attempt, Mqtt!Kinds) = Mqtt!told
        BY MqttMessages
      <4> QED
        BY <4>1, <1>1 DEF NoneBefore, Mqtt!Never, Mqtt!Heard
    <3>qk. "error" \in Mqtt!Kinds /\ "disconnected" \in Mqtt!Kinds /\ "refused" \in Mqtt!Kinds /\ <<"error", "disconnected">> \notin Mqtt!Never /\ <<"error", "refused">> \notin Mqtt!Never /\ <<"disconnected", "refused">> \notin Mqtt!Never
      BY DEF Mqtt!Kinds, Mqtt!Never
    <3>q5. v6 \in Seq(Mqtt!Messages) /\ Ordered(v6, Mqtt!Never)
      BY MqttMessages
    <3>q6. Mqtt!Queued' /\ IsTold({"error", "disconnected", "refused"}, a, ToldIn(v6, Mqtt!Attempt, Mqtt!Kinds), Mqtt!told')
      BY <3>q3, <3>q4, <3>qk, <3>q5, MqttTellsThree
    <3>q. Mqtt!Queued' /\ Mqtt!told' = [Mqtt!told EXCEPT ![a] = Mqtt!told[a] \cup {"error", "disconnected", "refused"}]
      BY <3>q6, MqttMessages DEF IsTold
    <3> QED
      BY <3>q
  <2>2. CASE v6' = v6 \o <<Mqtt!Message(a, "disconnected"), Mqtt!Message(a, "refused")>>
    <3>q3. v6' = v6 \o <<Mqtt!Message(a, "disconnected"), Mqtt!Message(a, "refused")>>
      BY <2>2
    <3>q4. NoneBefore({"disconnected", "refused"}, ToldIn(v6, Mqtt!Attempt, Mqtt!Kinds)[a], Mqtt!Never)
      <4>1. ToldIn(v6, Mqtt!Attempt, Mqtt!Kinds) = Mqtt!told
        BY MqttMessages
      <4> QED
        BY <4>1, <1>1 DEF NoneBefore, Mqtt!Never, Mqtt!Heard
    <3>qk. "disconnected" \in Mqtt!Kinds /\ "refused" \in Mqtt!Kinds /\ <<"disconnected", "refused">> \notin Mqtt!Never
      BY DEF Mqtt!Kinds, Mqtt!Never
    <3>q5. v6 \in Seq(Mqtt!Messages) /\ Ordered(v6, Mqtt!Never)
      BY MqttMessages
    <3>q6. Mqtt!Queued' /\ IsTold({"disconnected", "refused"}, a, ToldIn(v6, Mqtt!Attempt, Mqtt!Kinds), Mqtt!told')
      BY <3>q3, <3>q4, <3>qk, <3>q5, MqttTellsTwo
    <3>q. Mqtt!Queued' /\ Mqtt!told' = [Mqtt!told EXCEPT ![a] = Mqtt!told[a] \cup {"disconnected", "refused"}]
      BY <3>q6, MqttMessages DEF IsTold
    <3> QED
      BY <3>q
  <2> QED
    BY <2>1, <2>2 DEF Mqtt!Refused, Mqtt!Client
<1>t. Mqtt!TypeOK'
  <2>1. v11' \in 0 .. LeavesOfMqtt
    BY <1>1, <1>q, MqttMessages DEF Mqtt!TypeOK
  <2>2. v12' \in 0 .. LossesOfMqtt
    BY <1>1, <1>q, MqttMessages DEF Mqtt!TypeOK
  <2>3. v8' \in Mqtt!Attempt \cup {0} /\ v9' \in Mqtt!Attempt \cup {0}
    BY <1>1, <1>q, MqttMessages DEF Mqtt!TypeOK
  <2>4. v7' \in Nat
    BY <1>1, <1>q, MqttMessages DEF Mqtt!TypeOK
  <2>5. v3' \in [Mqtt!Attempt -> Nat]
    BY <1>1, <1>q, MqttMessages DEF Mqtt!TypeOK
  <2>6. v2' \in [Mqtt!Attempt -> {"new", "building", "asked", "over"}]
    BY <1>1, <1>q, MqttMessages DEF Mqtt!TypeOK
  <2>7. v4' \subseteq Mqtt!Attempt
    BY <1>1, <1>q, MqttMessages DEF Mqtt!TypeOK
  <2>8. v5' \in [Mqtt!Attempt -> {"none", "opening", "open", "retrying", "ending", "closed"}]
    BY <1>1, <1>q, MqttMessages DEF Mqtt!TypeOK
  <2>9. v10' \in {"none", "connecting", "connected", "disconnecting", "disconnected", "error"}
    BY <1>1, <1>q, MqttMessages DEF Mqtt!TypeOK
  <2>10. v1' \in BOOLEAN
    BY <1>1, <1>q, MqttMessages DEF Mqtt!TypeOK
  <2>11. {v13', v14'} \subseteq BOOLEAN
    BY <1>1, <1>q, MqttMessages DEF Mqtt!TypeOK
  <2> QED
    BY <2>1, <2>2, <2>3, <2>4, <2>5, <2>6, <2>7, <2>8, <2>9, <2>10, <2>11 DEF Mqtt!TypeOK
<1>h. Mqtt!Heard'
  <2> SUFFICES ASSUME NEW c \in Mqtt!Attempt PROVE Mqtt!Heard!(c)'
    BY DEF Mqtt!Heard
  <2>3. Mqtt!Heard!(a)
    BY DEF Mqtt!Heard
  <2>4. Mqtt!told \in [Mqtt!Attempt -> SUBSET Mqtt!Kinds]
    BY MqttMessages
  <2>1. CASE c = a
    <3>1. CASE Mqtt!told' = [Mqtt!told EXCEPT ![a] = Mqtt!told[a] \cup {"error", "disconnected", "refused"}]
      BY <1>1, <2>1, <2>3, <2>4, <3>1 DEF Mqtt!TypeOK
    <3>2. CASE Mqtt!told' = [Mqtt!told EXCEPT ![a] = Mqtt!told[a] \cup {"disconnected", "refused"}]
      BY <1>1, <2>1, <2>3, <2>4, <3>2 DEF Mqtt!TypeOK
    <3> QED
      BY <1>q, <3>1, <3>2
  <2>2. CASE c # a
    BY <1>1, <1>q, <2>2, <2>4 DEF Mqtt!TypeOK, Mqtt!Heard
  <2> QED
    BY <2>1, <2>2
<1>r. Mqtt!Registered'
  BY <1>1, <1>q, MqttMessages DEF Mqtt!TypeOK, Mqtt!Heard, Mqtt!Registered, Mqtt!Attempt
<1>n. Mqtt!Numbered'
  BY <1>1, <1>q, MqttMessages DEF Mqtt!TypeOK, Mqtt!Numbered
<1>k. ASSUME ~v13', ~v14' PROVE Mqtt!Kept' /\ Mqtt!OneSession'
  <2>0. ~v13 /\ ~v14 /\ Mqtt!Kept /\ Mqtt!OneSession
    BY <1>1, <1>q, MqttMessages, <1>k DEF Mqtt!TypeOK
  <2>1. v8' # 0 => Mqtt!Current(v8)'
    BY <1>1, <1>q, MqttMessages, <2>0 DEF Mqtt!TypeOK, Mqtt!Kept, Mqtt!Current, Mqtt!Registered,
       Mqtt!Heard, Mqtt!Attempt
  <2>2. ASSUME NEW c \in Mqtt!Attempt, Mqtt!Current(c)', Mqtt!Underway(c)'
        PROVE  v10' \in {"connecting", "connected", "disconnecting"}
    <3>1. Mqtt!Current(c) /\ Mqtt!Underway(c)
      <4>1. CASE c = a
        BY <1>1, <1>q, <2>2, <4>1, MqttMessages DEF Mqtt!Underway, Mqtt!Current, Mqtt!TypeOK
      <4>2. CASE c # a
        BY <1>1, <1>q, <2>2, <4>2, MqttMessages DEF Mqtt!Underway, Mqtt!Current, Mqtt!TypeOK
      <4> QED
        BY <4>1, <4>2
    <3> QED
      BY <1>1, <2>0, <2>2, <3>1 DEF Mqtt!Kept
  <2>3. Mqtt!OneSession'
    BY <1>1, <2>0 DEF Mqtt!OneSession, Mqtt!TypeOK, Mqtt!Heard
  <2> QED
    BY <2>1, <2>2, <2>3 DEF Mqtt!Kept
<1> QED
  BY <1>q, <1>t, <1>h, <1>r, <1>n, <1>k DEF Mqtt!TypeOK

LEMMA MqttOnLost ==
    ASSUME Mqtt!Inv, NEW a \in Mqtt!Attempt, Mqtt!Lost(a)
    PROVE  Mqtt!Inv'
<1> USE MqttAssumption DEF Mqtt!MqttTabAssumption, Mqtt!Inv
<1>1. /\ v5[a] = "open" /\ v12 < LossesOfMqtt /\ v12' = v12 + 1
      /\ v5' = [v5 EXCEPT ![a] = IF v1 THEN "retrying" ELSE "closed"]
      /\ v1' = v1 /\ v2' = v2 /\ v3' = v3 /\ v4' = v4 /\ v7' = v7
      /\ v8' = v8 /\ v9' = v9 /\ v10' = v10 /\ v11' = v11 /\ v13' = v13
      /\ v14' = v14
  BY DEF Mqtt!Lost, Mqtt!Client, Mqtt!noted
<1>q. /\ Mqtt!Queued'
      /\ \/ v1 /\ Mqtt!told' = Mqtt!told
         \/ ~v1 /\ Mqtt!told' = [Mqtt!told EXCEPT ![a] = Mqtt!told[a] \cup {"disconnected"}]
  <2>1. CASE v1
    <3>1. v6' = v6
      BY <2>1 DEF Mqtt!Lost, Mqtt!Client, Mqtt!Queued
    <3> QED
      BY <2>1, <3>1 DEF Mqtt!Queued, Mqtt!told
  <2>2. CASE ~v1
    <3>q3. v6' = v6 \o <<Mqtt!Message(a, "disconnected")>>
      BY <2>2 DEF Mqtt!Lost, Mqtt!Client
    <3>q4. NoneBefore({"disconnected"}, ToldIn(v6, Mqtt!Attempt, Mqtt!Kinds)[a], Mqtt!Never)
      <4>1. ToldIn(v6, Mqtt!Attempt, Mqtt!Kinds) = Mqtt!told
        BY MqttMessages
      <4> QED
        BY <4>1, <1>1 DEF NoneBefore, Mqtt!Never, Mqtt!Heard
    <3>qk. "disconnected" \in Mqtt!Kinds
      BY DEF Mqtt!Kinds, Mqtt!Never
    <3>q5. v6 \in Seq(Mqtt!Messages) /\ Ordered(v6, Mqtt!Never)
      BY MqttMessages
    <3>q6. Mqtt!Queued' /\ IsTold({"disconnected"}, a, ToldIn(v6, Mqtt!Attempt, Mqtt!Kinds), Mqtt!told')
      BY <3>q3, <3>q4, <3>qk, <3>q5, MqttTellsOne
    <3>q. Mqtt!Queued' /\ Mqtt!told' = [Mqtt!told EXCEPT ![a] = Mqtt!told[a] \cup {"disconnected"}]
      BY <3>q6, MqttMessages DEF IsTold
    <3> QED
      BY <2>2, <3>q
  <2> QED
    BY <2>1, <2>2
<1>t. Mqtt!TypeOK'
  <2>1. v11' \in 0 .. LeavesOfMqtt
    BY <1>1, <1>q, MqttMessages DEF Mqtt!TypeOK
  <2>2. v12' \in 0 .. LossesOfMqtt
    BY <1>1, <1>q, MqttMessages DEF Mqtt!TypeOK
  <2>3. v8' \in Mqtt!Attempt \cup {0} /\ v9' \in Mqtt!Attempt \cup {0}
    BY <1>1, <1>q, MqttMessages DEF Mqtt!TypeOK
  <2>4. v7' \in Nat
    BY <1>1, <1>q, MqttMessages DEF Mqtt!TypeOK
  <2>5. v3' \in [Mqtt!Attempt -> Nat]
    BY <1>1, <1>q, MqttMessages DEF Mqtt!TypeOK
  <2>6. v2' \in [Mqtt!Attempt -> {"new", "building", "asked", "over"}]
    BY <1>1, <1>q, MqttMessages DEF Mqtt!TypeOK
  <2>7. v4' \subseteq Mqtt!Attempt
    BY <1>1, <1>q, MqttMessages DEF Mqtt!TypeOK
  <2>8. v5' \in [Mqtt!Attempt -> {"none", "opening", "open", "retrying", "ending", "closed"}]
    BY <1>1, <1>q, MqttMessages DEF Mqtt!TypeOK
  <2>9. v10' \in {"none", "connecting", "connected", "disconnecting", "disconnected", "error"}
    BY <1>1, <1>q, MqttMessages DEF Mqtt!TypeOK
  <2>10. v1' \in BOOLEAN
    BY <1>1, <1>q, MqttMessages DEF Mqtt!TypeOK
  <2>11. {v13', v14'} \subseteq BOOLEAN
    BY <1>1, <1>q, MqttMessages DEF Mqtt!TypeOK
  <2> QED
    BY <2>1, <2>2, <2>3, <2>4, <2>5, <2>6, <2>7, <2>8, <2>9, <2>10, <2>11 DEF Mqtt!TypeOK
<1>h. Mqtt!Heard'
  <2> SUFFICES ASSUME NEW c \in Mqtt!Attempt PROVE Mqtt!Heard!(c)'
    BY DEF Mqtt!Heard
  <2>3. Mqtt!Heard!(a)
    BY DEF Mqtt!Heard
  <2>4. Mqtt!told \in [Mqtt!Attempt -> SUBSET Mqtt!Kinds]
    BY MqttMessages
  <2>1. CASE c = a
    <3>1. CASE v1 /\ Mqtt!told' = Mqtt!told
      BY <1>1, <2>1, <2>3, <2>4, <3>1 DEF Mqtt!TypeOK
    <3>2. CASE ~v1 /\ Mqtt!told' = [Mqtt!told EXCEPT ![a] = Mqtt!told[a] \cup {"disconnected"}]
      BY <1>1, <2>1, <2>3, <2>4, <3>2 DEF Mqtt!TypeOK
    <3> QED
      BY <1>q, <3>1, <3>2
  <2>2. CASE c # a
    BY <1>1, <1>q, <2>2, <2>4 DEF Mqtt!TypeOK, Mqtt!Heard
  <2> QED
    BY <2>1, <2>2
<1>r. Mqtt!Registered'
  BY <1>1, <1>q, MqttMessages DEF Mqtt!TypeOK, Mqtt!Heard, Mqtt!Registered, Mqtt!Attempt
<1>n. Mqtt!Numbered'
  BY <1>1, <1>q, MqttMessages DEF Mqtt!TypeOK, Mqtt!Numbered
<1>k. ASSUME ~v13', ~v14' PROVE Mqtt!Kept' /\ Mqtt!OneSession'
  <2>0. ~v13 /\ ~v14 /\ Mqtt!Kept /\ Mqtt!OneSession
    BY <1>1, <1>q, MqttMessages, <1>k DEF Mqtt!TypeOK
  <2>1. v8' # 0 => Mqtt!Current(v8)'
    BY <1>1, <1>q, MqttMessages, <2>0 DEF Mqtt!TypeOK, Mqtt!Kept, Mqtt!Current, Mqtt!Registered,
       Mqtt!Heard, Mqtt!Attempt
  <2>2. ASSUME NEW c \in Mqtt!Attempt, Mqtt!Current(c)', Mqtt!Underway(c)'
        PROVE  v10' \in {"connecting", "connected", "disconnecting"}
    <3>1. Mqtt!Current(c) /\ Mqtt!Underway(c)
      <4>1. CASE c = a
        BY <1>1, <1>q, <2>2, <4>1, MqttMessages DEF Mqtt!Underway, Mqtt!Current, Mqtt!TypeOK
      <4>2. CASE c # a
        BY <1>1, <1>q, <2>2, <4>2, MqttMessages DEF Mqtt!Underway, Mqtt!Current, Mqtt!TypeOK
      <4> QED
        BY <4>1, <4>2
    <3> QED
      BY <1>1, <2>0, <2>2, <3>1 DEF Mqtt!Kept
  <2>3. Mqtt!OneSession'
    BY <1>1, <2>0 DEF Mqtt!OneSession, Mqtt!TypeOK, Mqtt!Heard
  <2> QED
    BY <2>1, <2>2, <2>3 DEF Mqtt!Kept
<1> QED
  BY <1>q, <1>t, <1>h, <1>r, <1>n, <1>k DEF Mqtt!TypeOK

LEMMA MqttOnRetries ==
    ASSUME Mqtt!Inv, NEW a \in Mqtt!Attempt, Mqtt!Retries(a)
    PROVE  Mqtt!Inv'
<1> USE MqttAssumption DEF Mqtt!MqttTabAssumption, Mqtt!Inv
<1>1. /\ v5[a] = "retrying" /\ v5' = [v5 EXCEPT ![a] = "retrying"]
      /\ v1' = v1 /\ v2' = v2 /\ v3' = v3 /\ v4' = v4 /\ v7' = v7
      /\ v8' = v8 /\ v9' = v9 /\ v10' = v10 /\ v11' = v11 /\ v12' = v12
      /\ v13' = v13 /\ v14' = v14
  BY DEF Mqtt!Retries, Mqtt!Client, Mqtt!noted
<1>q3. v6' = v6 \o <<Mqtt!Message(a, "connecting")>>
  BY DEF Mqtt!Retries, Mqtt!Client
<1>q4. NoneBefore({"connecting"}, ToldIn(v6, Mqtt!Attempt, Mqtt!Kinds)[a], Mqtt!Never)
  <2>1. ToldIn(v6, Mqtt!Attempt, Mqtt!Kinds) = Mqtt!told
    BY MqttMessages
  <2> QED
    BY <2>1, <1>1 DEF NoneBefore, Mqtt!Never, Mqtt!Heard
<1>qk. "connecting" \in Mqtt!Kinds
  BY DEF Mqtt!Kinds, Mqtt!Never
<1>q5. v6 \in Seq(Mqtt!Messages) /\ Ordered(v6, Mqtt!Never)
  BY MqttMessages
<1>q6. Mqtt!Queued' /\ IsTold({"connecting"}, a, ToldIn(v6, Mqtt!Attempt, Mqtt!Kinds), Mqtt!told')
  BY <1>q3, <1>q4, <1>qk, <1>q5, MqttTellsOne
<1>q. Mqtt!Queued' /\ Mqtt!told' = [Mqtt!told EXCEPT ![a] = Mqtt!told[a] \cup {"connecting"}]
  BY <1>q6, MqttMessages DEF IsTold
<1>t. Mqtt!TypeOK'
  <2>1. v11' \in 0 .. LeavesOfMqtt
    BY <1>1, <1>q, MqttMessages DEF Mqtt!TypeOK
  <2>2. v12' \in 0 .. LossesOfMqtt
    BY <1>1, <1>q, MqttMessages DEF Mqtt!TypeOK
  <2>3. v8' \in Mqtt!Attempt \cup {0} /\ v9' \in Mqtt!Attempt \cup {0}
    BY <1>1, <1>q, MqttMessages DEF Mqtt!TypeOK
  <2>4. v7' \in Nat
    BY <1>1, <1>q, MqttMessages DEF Mqtt!TypeOK
  <2>5. v3' \in [Mqtt!Attempt -> Nat]
    BY <1>1, <1>q, MqttMessages DEF Mqtt!TypeOK
  <2>6. v2' \in [Mqtt!Attempt -> {"new", "building", "asked", "over"}]
    BY <1>1, <1>q, MqttMessages DEF Mqtt!TypeOK
  <2>7. v4' \subseteq Mqtt!Attempt
    BY <1>1, <1>q, MqttMessages DEF Mqtt!TypeOK
  <2>8. v5' \in [Mqtt!Attempt -> {"none", "opening", "open", "retrying", "ending", "closed"}]
    BY <1>1, <1>q, MqttMessages DEF Mqtt!TypeOK
  <2>9. v10' \in {"none", "connecting", "connected", "disconnecting", "disconnected", "error"}
    BY <1>1, <1>q, MqttMessages DEF Mqtt!TypeOK
  <2>10. v1' \in BOOLEAN
    BY <1>1, <1>q, MqttMessages DEF Mqtt!TypeOK
  <2>11. {v13', v14'} \subseteq BOOLEAN
    BY <1>1, <1>q, MqttMessages DEF Mqtt!TypeOK
  <2> QED
    BY <2>1, <2>2, <2>3, <2>4, <2>5, <2>6, <2>7, <2>8, <2>9, <2>10, <2>11 DEF Mqtt!TypeOK
<1>h. Mqtt!Heard'
  <2> SUFFICES ASSUME NEW c \in Mqtt!Attempt PROVE Mqtt!Heard!(c)'
    BY DEF Mqtt!Heard
  <2>3. Mqtt!Heard!(a)
    BY DEF Mqtt!Heard
  <2>4. Mqtt!told \in [Mqtt!Attempt -> SUBSET Mqtt!Kinds]
    BY MqttMessages
  <2>1. CASE c = a
    BY <1>1, <1>q, <2>1, <2>3, <2>4 DEF Mqtt!TypeOK
  <2>2. CASE c # a
    BY <1>1, <1>q, <2>2, <2>4 DEF Mqtt!TypeOK, Mqtt!Heard
  <2> QED
    BY <2>1, <2>2
<1>r. Mqtt!Registered'
  BY <1>1, <1>q, MqttMessages DEF Mqtt!TypeOK, Mqtt!Heard, Mqtt!Registered, Mqtt!Attempt
<1>n. Mqtt!Numbered'
  BY <1>1, <1>q, MqttMessages DEF Mqtt!TypeOK, Mqtt!Numbered
<1>k. ASSUME ~v13', ~v14' PROVE Mqtt!Kept' /\ Mqtt!OneSession'
  <2>0. ~v13 /\ ~v14 /\ Mqtt!Kept /\ Mqtt!OneSession
    BY <1>1, <1>q, MqttMessages, <1>k DEF Mqtt!TypeOK
  <2>1. v8' # 0 => Mqtt!Current(v8)'
    BY <1>1, <1>q, MqttMessages, <2>0 DEF Mqtt!TypeOK, Mqtt!Kept, Mqtt!Current, Mqtt!Registered,
       Mqtt!Heard, Mqtt!Attempt
  <2>2. ASSUME NEW c \in Mqtt!Attempt, Mqtt!Current(c)', Mqtt!Underway(c)'
        PROVE  v10' \in {"connecting", "connected", "disconnecting"}
    <3>1. Mqtt!Current(c) /\ Mqtt!Underway(c)
      <4>1. CASE c = a
        BY <1>1, <1>q, <2>2, <4>1, MqttMessages DEF Mqtt!Underway, Mqtt!Current, Mqtt!TypeOK
      <4>2. CASE c # a
        BY <1>1, <1>q, <2>2, <4>2, MqttMessages DEF Mqtt!Underway, Mqtt!Current, Mqtt!TypeOK
      <4> QED
        BY <4>1, <4>2
    <3> QED
      BY <1>1, <2>0, <2>2, <3>1 DEF Mqtt!Kept
  <2>3. Mqtt!OneSession'
    BY <1>1, <2>0 DEF Mqtt!OneSession, Mqtt!TypeOK, Mqtt!Heard
  <2> QED
    BY <2>1, <2>2, <2>3 DEF Mqtt!Kept
<1> QED
  BY <1>q, <1>t, <1>h, <1>r, <1>n, <1>k DEF Mqtt!TypeOK

LEMMA MqttOnBackAgain ==
    ASSUME Mqtt!Inv, NEW a \in Mqtt!Attempt, Mqtt!BackAgain(a)
    PROVE  Mqtt!Inv'
<1> USE MqttAssumption DEF Mqtt!MqttTabAssumption, Mqtt!Inv
<1>1. /\ v5[a] = "retrying" /\ v5' = [v5 EXCEPT ![a] = "open"]
      /\ v1' = v1 /\ v2' = v2 /\ v3' = v3 /\ v4' = v4 /\ v7' = v7
      /\ v8' = v8 /\ v9' = v9 /\ v10' = v10 /\ v11' = v11 /\ v12' = v12
      /\ v13' = v13 /\ v14' = v14
  BY DEF Mqtt!BackAgain, Mqtt!Client, Mqtt!noted
<1>q3. v6' = v6 \o <<Mqtt!Message(a, "connected")>>
  BY DEF Mqtt!BackAgain, Mqtt!Client
<1>q4. NoneBefore({"connected"}, ToldIn(v6, Mqtt!Attempt, Mqtt!Kinds)[a], Mqtt!Never)
  <2>1. ToldIn(v6, Mqtt!Attempt, Mqtt!Kinds) = Mqtt!told
    BY MqttMessages
  <2> QED
    BY <2>1, <1>1 DEF NoneBefore, Mqtt!Never, Mqtt!Heard
<1>qk. "connected" \in Mqtt!Kinds
  BY DEF Mqtt!Kinds, Mqtt!Never
<1>q5. v6 \in Seq(Mqtt!Messages) /\ Ordered(v6, Mqtt!Never)
  BY MqttMessages
<1>q6. Mqtt!Queued' /\ IsTold({"connected"}, a, ToldIn(v6, Mqtt!Attempt, Mqtt!Kinds), Mqtt!told')
  BY <1>q3, <1>q4, <1>qk, <1>q5, MqttTellsOne
<1>q. Mqtt!Queued' /\ Mqtt!told' = [Mqtt!told EXCEPT ![a] = Mqtt!told[a] \cup {"connected"}]
  BY <1>q6, MqttMessages DEF IsTold
<1>t. Mqtt!TypeOK'
  <2>1. v11' \in 0 .. LeavesOfMqtt
    BY <1>1, <1>q, MqttMessages DEF Mqtt!TypeOK
  <2>2. v12' \in 0 .. LossesOfMqtt
    BY <1>1, <1>q, MqttMessages DEF Mqtt!TypeOK
  <2>3. v8' \in Mqtt!Attempt \cup {0} /\ v9' \in Mqtt!Attempt \cup {0}
    BY <1>1, <1>q, MqttMessages DEF Mqtt!TypeOK
  <2>4. v7' \in Nat
    BY <1>1, <1>q, MqttMessages DEF Mqtt!TypeOK
  <2>5. v3' \in [Mqtt!Attempt -> Nat]
    BY <1>1, <1>q, MqttMessages DEF Mqtt!TypeOK
  <2>6. v2' \in [Mqtt!Attempt -> {"new", "building", "asked", "over"}]
    BY <1>1, <1>q, MqttMessages DEF Mqtt!TypeOK
  <2>7. v4' \subseteq Mqtt!Attempt
    BY <1>1, <1>q, MqttMessages DEF Mqtt!TypeOK
  <2>8. v5' \in [Mqtt!Attempt -> {"none", "opening", "open", "retrying", "ending", "closed"}]
    BY <1>1, <1>q, MqttMessages DEF Mqtt!TypeOK
  <2>9. v10' \in {"none", "connecting", "connected", "disconnecting", "disconnected", "error"}
    BY <1>1, <1>q, MqttMessages DEF Mqtt!TypeOK
  <2>10. v1' \in BOOLEAN
    BY <1>1, <1>q, MqttMessages DEF Mqtt!TypeOK
  <2>11. {v13', v14'} \subseteq BOOLEAN
    BY <1>1, <1>q, MqttMessages DEF Mqtt!TypeOK
  <2> QED
    BY <2>1, <2>2, <2>3, <2>4, <2>5, <2>6, <2>7, <2>8, <2>9, <2>10, <2>11 DEF Mqtt!TypeOK
<1>h. Mqtt!Heard'
  <2> SUFFICES ASSUME NEW c \in Mqtt!Attempt PROVE Mqtt!Heard!(c)'
    BY DEF Mqtt!Heard
  <2>3. Mqtt!Heard!(a)
    BY DEF Mqtt!Heard
  <2>4. Mqtt!told \in [Mqtt!Attempt -> SUBSET Mqtt!Kinds]
    BY MqttMessages
  <2>1. CASE c = a
    BY <1>1, <1>q, <2>1, <2>3, <2>4 DEF Mqtt!TypeOK
  <2>2. CASE c # a
    BY <1>1, <1>q, <2>2, <2>4 DEF Mqtt!TypeOK, Mqtt!Heard
  <2> QED
    BY <2>1, <2>2
<1>r. Mqtt!Registered'
  BY <1>1, <1>q, MqttMessages DEF Mqtt!TypeOK, Mqtt!Heard, Mqtt!Registered, Mqtt!Attempt
<1>n. Mqtt!Numbered'
  BY <1>1, <1>q, MqttMessages DEF Mqtt!TypeOK, Mqtt!Numbered
<1>k. ASSUME ~v13', ~v14' PROVE Mqtt!Kept' /\ Mqtt!OneSession'
  <2>0. ~v13 /\ ~v14 /\ Mqtt!Kept /\ Mqtt!OneSession
    BY <1>1, <1>q, MqttMessages, <1>k DEF Mqtt!TypeOK
  <2>1. v8' # 0 => Mqtt!Current(v8)'
    BY <1>1, <1>q, MqttMessages, <2>0 DEF Mqtt!TypeOK, Mqtt!Kept, Mqtt!Current, Mqtt!Registered,
       Mqtt!Heard, Mqtt!Attempt
  <2>2. ASSUME NEW c \in Mqtt!Attempt, Mqtt!Current(c)', Mqtt!Underway(c)'
        PROVE  v10' \in {"connecting", "connected", "disconnecting"}
    <3>1. Mqtt!Current(c) /\ Mqtt!Underway(c)
      <4>1. CASE c = a
        BY <1>1, <1>q, <2>2, <4>1, MqttMessages DEF Mqtt!Underway, Mqtt!Current, Mqtt!TypeOK
      <4>2. CASE c # a
        BY <1>1, <1>q, <2>2, <4>2, MqttMessages DEF Mqtt!Underway, Mqtt!Current, Mqtt!TypeOK
      <4> QED
        BY <4>1, <4>2
    <3> QED
      BY <1>1, <2>0, <2>2, <3>1 DEF Mqtt!Kept
  <2>3. Mqtt!OneSession'
    BY <1>1, <2>0 DEF Mqtt!OneSession, Mqtt!TypeOK, Mqtt!Heard
  <2> QED
    BY <2>1, <2>2, <2>3 DEF Mqtt!Kept
<1> QED
  BY <1>q, <1>t, <1>h, <1>r, <1>n, <1>k DEF Mqtt!TypeOK

LEMMA MqttOnEnded ==
    ASSUME Mqtt!Inv, NEW a \in Mqtt!Attempt, Mqtt!Ended(a)
    PROVE  Mqtt!Inv'
<1> USE MqttAssumption DEF Mqtt!MqttTabAssumption, Mqtt!Inv
<1>1. /\ v5[a] = "ending" /\ v5' = [v5 EXCEPT ![a] = "closed"]
      /\ v1' = v1 /\ v2' = v2 /\ v3' = v3 /\ v4' = v4 /\ v7' = v7
      /\ v8' = v8 /\ v9' = v9 /\ v10' = v10 /\ v11' = v11 /\ v12' = v12
      /\ v13' = v13 /\ v14' = v14
  BY DEF Mqtt!Ended, Mqtt!Client, Mqtt!noted
<1>q. /\ Mqtt!Queued'
      /\ \E L \in {{"disconnected", "left"}, {"disconnected"}} : Mqtt!told' = [Mqtt!told EXCEPT ![a] = Mqtt!told[a] \cup L]
  <2>1. CASE v9 = a
    <3>q3. v6' = v6 \o <<Mqtt!Message(a, "disconnected"), Mqtt!Message(a, "left")>>
      BY <2>1 DEF Mqtt!Ended, Mqtt!Client
    <3>q4. NoneBefore({"disconnected", "left"}, ToldIn(v6, Mqtt!Attempt, Mqtt!Kinds)[a], Mqtt!Never)
      <4>1. ToldIn(v6, Mqtt!Attempt, Mqtt!Kinds) = Mqtt!told
        BY MqttMessages
      <4> QED
        BY <4>1, <1>1 DEF NoneBefore, Mqtt!Never, Mqtt!Heard
    <3>qk. "disconnected" \in Mqtt!Kinds /\ "left" \in Mqtt!Kinds /\ <<"disconnected", "left">> \notin Mqtt!Never
      BY DEF Mqtt!Kinds, Mqtt!Never
    <3>q5. v6 \in Seq(Mqtt!Messages) /\ Ordered(v6, Mqtt!Never)
      BY MqttMessages
    <3>q6. Mqtt!Queued' /\ IsTold({"disconnected", "left"}, a, ToldIn(v6, Mqtt!Attempt, Mqtt!Kinds), Mqtt!told')
      BY <3>q3, <3>q4, <3>qk, <3>q5, MqttTellsTwo
    <3>q. Mqtt!Queued' /\ Mqtt!told' = [Mqtt!told EXCEPT ![a] = Mqtt!told[a] \cup {"disconnected", "left"}]
      BY <3>q6, MqttMessages DEF IsTold
    <3> QED
      BY <3>q
  <2>2. CASE v9 # a
    <3>q3. v6' = v6 \o <<Mqtt!Message(a, "disconnected")>>
      BY <2>2 DEF Mqtt!Ended, Mqtt!Client
    <3>q4. NoneBefore({"disconnected"}, ToldIn(v6, Mqtt!Attempt, Mqtt!Kinds)[a], Mqtt!Never)
      <4>1. ToldIn(v6, Mqtt!Attempt, Mqtt!Kinds) = Mqtt!told
        BY MqttMessages
      <4> QED
        BY <4>1, <1>1 DEF NoneBefore, Mqtt!Never, Mqtt!Heard
    <3>qk. "disconnected" \in Mqtt!Kinds
      BY DEF Mqtt!Kinds, Mqtt!Never
    <3>q5. v6 \in Seq(Mqtt!Messages) /\ Ordered(v6, Mqtt!Never)
      BY MqttMessages
    <3>q6. Mqtt!Queued' /\ IsTold({"disconnected"}, a, ToldIn(v6, Mqtt!Attempt, Mqtt!Kinds), Mqtt!told')
      BY <3>q3, <3>q4, <3>qk, <3>q5, MqttTellsOne
    <3>q. Mqtt!Queued' /\ Mqtt!told' = [Mqtt!told EXCEPT ![a] = Mqtt!told[a] \cup {"disconnected"}]
      BY <3>q6, MqttMessages DEF IsTold
    <3> QED
      BY <3>q
  <2> QED
    BY <2>1, <2>2
<1>t. Mqtt!TypeOK'
  <2>1. v11' \in 0 .. LeavesOfMqtt
    BY <1>1, <1>q, MqttMessages DEF Mqtt!TypeOK
  <2>2. v12' \in 0 .. LossesOfMqtt
    BY <1>1, <1>q, MqttMessages DEF Mqtt!TypeOK
  <2>3. v8' \in Mqtt!Attempt \cup {0} /\ v9' \in Mqtt!Attempt \cup {0}
    BY <1>1, <1>q, MqttMessages DEF Mqtt!TypeOK
  <2>4. v7' \in Nat
    BY <1>1, <1>q, MqttMessages DEF Mqtt!TypeOK
  <2>5. v3' \in [Mqtt!Attempt -> Nat]
    BY <1>1, <1>q, MqttMessages DEF Mqtt!TypeOK
  <2>6. v2' \in [Mqtt!Attempt -> {"new", "building", "asked", "over"}]
    BY <1>1, <1>q, MqttMessages DEF Mqtt!TypeOK
  <2>7. v4' \subseteq Mqtt!Attempt
    BY <1>1, <1>q, MqttMessages DEF Mqtt!TypeOK
  <2>8. v5' \in [Mqtt!Attempt -> {"none", "opening", "open", "retrying", "ending", "closed"}]
    BY <1>1, <1>q, MqttMessages DEF Mqtt!TypeOK
  <2>9. v10' \in {"none", "connecting", "connected", "disconnecting", "disconnected", "error"}
    BY <1>1, <1>q, MqttMessages DEF Mqtt!TypeOK
  <2>10. v1' \in BOOLEAN
    BY <1>1, <1>q, MqttMessages DEF Mqtt!TypeOK
  <2>11. {v13', v14'} \subseteq BOOLEAN
    BY <1>1, <1>q, MqttMessages DEF Mqtt!TypeOK
  <2> QED
    BY <2>1, <2>2, <2>3, <2>4, <2>5, <2>6, <2>7, <2>8, <2>9, <2>10, <2>11 DEF Mqtt!TypeOK
<1>h. Mqtt!Heard'
  <2> SUFFICES ASSUME NEW c \in Mqtt!Attempt PROVE Mqtt!Heard!(c)'
    BY DEF Mqtt!Heard
  <2>3. Mqtt!Heard!(a)
    BY DEF Mqtt!Heard
  <2>4. Mqtt!told \in [Mqtt!Attempt -> SUBSET Mqtt!Kinds]
    BY MqttMessages
  <2>1. CASE c = a
    <3>1. CASE Mqtt!told' = [Mqtt!told EXCEPT ![a] = Mqtt!told[a] \cup {"disconnected", "left"}]
      BY <1>1, <2>1, <2>3, <2>4, <3>1 DEF Mqtt!TypeOK
    <3>2. CASE Mqtt!told' = [Mqtt!told EXCEPT ![a] = Mqtt!told[a] \cup {"disconnected"}]
      BY <1>1, <2>1, <2>3, <2>4, <3>2 DEF Mqtt!TypeOK
    <3> QED
      BY <1>q, <3>1, <3>2
  <2>2. CASE c # a
    BY <1>1, <1>q, <2>2, <2>4 DEF Mqtt!TypeOK, Mqtt!Heard
  <2> QED
    BY <2>1, <2>2
<1>r. Mqtt!Registered'
  BY <1>1, <1>q, MqttMessages DEF Mqtt!TypeOK, Mqtt!Heard, Mqtt!Registered, Mqtt!Attempt
<1>n. Mqtt!Numbered'
  BY <1>1, <1>q, MqttMessages DEF Mqtt!TypeOK, Mqtt!Numbered
<1>k. ASSUME ~v13', ~v14' PROVE Mqtt!Kept' /\ Mqtt!OneSession'
  <2>0. ~v13 /\ ~v14 /\ Mqtt!Kept /\ Mqtt!OneSession
    BY <1>1, <1>q, MqttMessages, <1>k DEF Mqtt!TypeOK
  <2>1. v8' # 0 => Mqtt!Current(v8)'
    BY <1>1, <1>q, MqttMessages, <2>0 DEF Mqtt!TypeOK, Mqtt!Kept, Mqtt!Current, Mqtt!Registered,
       Mqtt!Heard, Mqtt!Attempt
  <2>2. ASSUME NEW c \in Mqtt!Attempt, Mqtt!Current(c)', Mqtt!Underway(c)'
        PROVE  v10' \in {"connecting", "connected", "disconnecting"}
    <3>1. Mqtt!Current(c) /\ Mqtt!Underway(c)
      <4>1. CASE c = a
        <5>1. "made" \in Mqtt!told'[a] => "made" \in Mqtt!told[a]
          BY <1>q, MqttMessages
        <5>2. v5'[a] # "opening"
          BY <1>1 DEF Mqtt!TypeOK
        <5> QED
          BY <1>1, <2>2, <4>1, <5>1, <5>2 DEF Mqtt!Underway, Mqtt!Current
      <4>2. CASE c # a
        BY <1>1, <1>q, <2>2, <4>2, MqttMessages DEF Mqtt!Underway, Mqtt!Current, Mqtt!TypeOK
      <4> QED
        BY <4>1, <4>2
    <3> QED
      BY <1>1, <2>0, <2>2, <3>1 DEF Mqtt!Kept
  <2>3. Mqtt!OneSession'
    BY <1>1, <2>0 DEF Mqtt!OneSession, Mqtt!TypeOK, Mqtt!Heard
  <2> QED
    BY <2>1, <2>2, <2>3 DEF Mqtt!Kept
<1> QED
  BY <1>q, <1>t, <1>h, <1>r, <1>n, <1>k DEF Mqtt!TypeOK

LEMMA MqttOnForgotten ==
    ASSUME Mqtt!Inv, Mqtt!Forgotten, UNCHANGED <<v1, v2, v3, v4, v9, v12, v13>>,
           v11' \in 0 .. LeavesOfMqtt, v14' \in BOOLEAN, v14 => v14'
    PROVE  Mqtt!Inv'
<1> USE MqttAssumption DEF Mqtt!MqttTabAssumption, Mqtt!Inv
<1>1. /\ v7' = v7 + 1 /\ v8' = 0 /\ v10' = "none"
      /\ v1' = v1 /\ v2' = v2 /\ v3' = v3 /\ v4' = v4 /\ v9' = v9 /\ v12' = v12 /\ v13' = v13
  BY DEF Mqtt!Forgotten
<1>q. /\ Mqtt!Queued'
      /\ \/ /\ v8 # 0 /\ v5[v8] \in {"opening", "open", "retrying"}
            /\ v5' = [v5 EXCEPT ![v8] = "ending"] /\ Mqtt!told' = [Mqtt!told EXCEPT ![v8] = Mqtt!told[v8] \cup {"disconnecting"}]
         \/ /\ v8 = 0 \/ v5[v8] \notin {"opening", "open", "retrying"}
            /\ v5' = v5 /\ Mqtt!told' = Mqtt!told
  <2>1. CASE v8 # 0 /\ v5[v8] \in {"opening", "open", "retrying"}
    <3> DEFINE a == v8
    <3>a. a \in Mqtt!Attempt
      BY <2>1 DEF Mqtt!TypeOK
    <3>b. v6' = Append(v6, Mqtt!Message(a, "disconnecting")) /\ v5' = [v5 EXCEPT ![v8] = "ending"]
      BY <2>1 DEF Mqtt!EndAsked, Mqtt!Forgotten
    <3> HIDE DEF a
    <3>q1. v6 \in Seq(Mqtt!Messages)
      BY MqttMessages
    <3>q2. Mqtt!Message(a, "disconnecting") \in Mqtt!Messages
      BY <3>a DEF Mqtt!Message, Mqtt!Messages, Mqtt!Kinds
    <3>c. v6' = v6 \o <<Mqtt!Message(a, "disconnecting")>>
      BY <3>b, <3>q1, <3>q2, AppendJoins
    <3>q3. v6' = v6 \o <<Mqtt!Message(a, "disconnecting")>>
      BY <3>c
    <3>q4. NoneBefore({"disconnecting"}, ToldIn(v6, Mqtt!Attempt, Mqtt!Kinds)[a], Mqtt!Never)
      <4>1. ToldIn(v6, Mqtt!Attempt, Mqtt!Kinds) = Mqtt!told
        BY MqttMessages
      <4> QED
        BY <4>1, <3>a DEF NoneBefore, Mqtt!Never
    <3>qk. "disconnecting" \in Mqtt!Kinds
      BY DEF Mqtt!Kinds, Mqtt!Never
    <3>q5. v6 \in Seq(Mqtt!Messages) /\ Ordered(v6, Mqtt!Never)
      BY MqttMessages
    <3>q6. Mqtt!Queued' /\ IsTold({"disconnecting"}, a, ToldIn(v6, Mqtt!Attempt, Mqtt!Kinds), Mqtt!told')
      BY <3>a, <3>q3, <3>q4, <3>qk, <3>q5, MqttTellsOne
    <3>q. Mqtt!Queued' /\ Mqtt!told' = [Mqtt!told EXCEPT ![a] = Mqtt!told[a] \cup {"disconnecting"}]
      BY <3>a, <3>q6, MqttMessages DEF IsTold
    <3> QED
      BY <2>1, <3>b, <3>q DEF a
  <2>2. CASE ~(v8 # 0 /\ v5[v8] \in {"opening", "open", "retrying"})
    <3>1. v6' = v6 /\ v5' = v5
      BY <2>2 DEF Mqtt!EndAsked, Mqtt!Queued, Mqtt!Forgotten
    <3> QED
      BY <2>2, <3>1 DEF Mqtt!Queued, Mqtt!told
  <2> QED
    BY <2>1, <2>2
<1>t. Mqtt!TypeOK'
  <2>1. v11' \in 0 .. LeavesOfMqtt
    BY <1>1, <1>q DEF Mqtt!TypeOK
  <2>2. v12' \in 0 .. LossesOfMqtt
    BY <1>1, <1>q DEF Mqtt!TypeOK
  <2>3. v8' \in Mqtt!Attempt \cup {0} /\ v9' \in Mqtt!Attempt \cup {0}
    BY <1>1, <1>q DEF Mqtt!TypeOK
  <2>4. v7' \in Nat
    BY <1>1, <1>q DEF Mqtt!TypeOK
  <2>5. v3' \in [Mqtt!Attempt -> Nat]
    BY <1>1, <1>q DEF Mqtt!TypeOK
  <2>6. v2' \in [Mqtt!Attempt -> {"new", "building", "asked", "over"}]
    BY <1>1, <1>q DEF Mqtt!TypeOK
  <2>7. v4' \subseteq Mqtt!Attempt
    BY <1>1, <1>q DEF Mqtt!TypeOK
  <2>8. v5' \in [Mqtt!Attempt -> {"none", "opening", "open", "retrying", "ending", "closed"}]
    BY <1>1, <1>q DEF Mqtt!TypeOK
  <2>9. v10' \in {"none", "connecting", "connected", "disconnecting", "disconnected", "error"}
    BY <1>1, <1>q DEF Mqtt!TypeOK
  <2>10. v1' \in BOOLEAN
    BY <1>1, <1>q DEF Mqtt!TypeOK
  <2>11. {v13', v14'} \subseteq BOOLEAN
    BY <1>1, <1>q DEF Mqtt!TypeOK
  <2> QED
    BY <2>1, <2>2, <2>3, <2>4, <2>5, <2>6, <2>7, <2>8, <2>9, <2>10, <2>11 DEF Mqtt!TypeOK
<1>h. Mqtt!Heard'
  <2> SUFFICES ASSUME NEW c \in Mqtt!Attempt PROVE Mqtt!Heard!(c)'
    BY DEF Mqtt!Heard
  <2>3. Mqtt!Heard!(c)
    BY DEF Mqtt!Heard
  <2>4. Mqtt!told \in [Mqtt!Attempt -> SUBSET Mqtt!Kinds]
    BY MqttMessages
  <2>1. CASE v8 # 0 /\ v5[v8] \in {"opening", "open", "retrying"}
    <3>1. CASE c = v8
      BY <1>1, <1>q, <2>1, <2>3, <2>4, <3>1 DEF Mqtt!TypeOK, Mqtt!Registered
    <3>2. CASE c # v8
      BY <1>1, <1>q, <2>1, <2>3, <2>4, <3>2 DEF Mqtt!TypeOK
    <3> QED
      BY <3>1, <3>2
  <2>2. CASE ~(v8 # 0 /\ v5[v8] \in {"opening", "open", "retrying"})
    BY <1>1, <1>q, <2>2, <2>3
  <2> QED
    BY <2>1, <2>2
<1>r. Mqtt!Registered'
  BY <1>1 DEF Mqtt!Registered
<1>n. Mqtt!Numbered'
  <2>1. \A c \in Mqtt!Attempt : v3[c] <= v7 /\ v3[c] \in Nat /\ v7 \in Nat
    BY DEF Mqtt!Numbered, Mqtt!TypeOK
  <2> QED
    BY <1>1, <2>1 DEF Mqtt!Numbered
<1>k. ASSUME ~v13', ~v14' PROVE Mqtt!Kept' /\ Mqtt!OneSession'
  <2>0. ~v13 /\ ~v14 /\ Mqtt!Kept /\ Mqtt!OneSession
    BY <1>1, <1>q, <1>k DEF Mqtt!TypeOK
  <2>1. v8' # 0 => Mqtt!Current(v8)'
    BY <1>1
  <2>2. ASSUME NEW c \in Mqtt!Attempt, Mqtt!Current(c)', Mqtt!Underway(c)'
        PROVE  v10' \in {"connecting", "connected", "disconnecting"}
    <3>1. v3[c] <= v7 /\ v3[c] \in Nat /\ v7 \in Nat
      BY DEF Mqtt!Numbered, Mqtt!TypeOK
    <3> QED
      BY <1>1, <2>2, <3>1 DEF Mqtt!Current
  <2>3. Mqtt!OneSession'
    <3> SUFFICES ASSUME NEW c \in Mqtt!Attempt, v5'[c] \in {"opening", "open", "retrying"}
                 PROVE  v2[c] = "asked"
      BY <1>1 DEF Mqtt!OneSession
    <3>1. v5[c] \in {"opening", "open", "retrying"} /\ c # v8
      BY <1>q DEF Mqtt!TypeOK, Mqtt!Attempt
    <3> QED
      BY <2>0, <3>1 DEF Mqtt!OneSession
  <2> QED
    BY <2>1, <2>2, <2>3 DEF Mqtt!Kept
<1> QED
  BY <1>q, <1>t, <1>h, <1>r, <1>n, <1>k DEF Mqtt!TypeOK

LEMMA MqttOnForget ==
    ASSUME Mqtt!Inv, Mqtt!Forget
    PROVE  Mqtt!Inv'
<1> USE MqttAssumption DEF Mqtt!MqttTabAssumption
<1>1. /\ Mqtt!Forgotten /\ UNCHANGED <<v1, v2, v3, v4, v9, v12, v13>>
      /\ v11 < LeavesOfMqtt /\ v11' = v11 + 1 /\ v14' = v14
  BY DEF Mqtt!Forget, Mqtt!noted
<1>2. v11 \in 0 .. LeavesOfMqtt /\ v14 \in BOOLEAN
  BY DEF Mqtt!Inv, Mqtt!TypeOK
<1>3. v11' \in 0 .. LeavesOfMqtt
  BY <1>1, <1>2
<1>4. v14' \in BOOLEAN /\ (v14 => v14')
  BY <1>1, <1>2
<1> QED
  BY <1>1, <1>3, <1>4, MqttOnForgotten

LEMMA MqttOnCloseNone ==
    ASSUME Mqtt!Inv, Mqtt!CloseAll, v8 = 0
    PROVE  Mqtt!Inv'
<1> USE MqttAssumption DEF Mqtt!MqttTabAssumption, Mqtt!Inv
<1>1. /\ v11 < LeavesOfMqtt /\ v11' = v11 + 1 /\ v10' = "none"
      /\ v14' = (v14 \/ (v8 = 0 /\ \E a \in Mqtt!Attempt : v2[a] \in {"building", "asked"} /\ Mqtt!Current(a)))
      /\ v1' = v1 /\ v2' = v2 /\ v3' = v3 /\ v4' = v4 /\ v5' = v5
      /\ v7' = v7 /\ v8' = v8 /\ v9' = v9 /\ v12' = v12 /\ v13' = v13
  BY DEF Mqtt!CloseAll, Mqtt!noted
<1>q. Mqtt!Queued' /\ Mqtt!told' = Mqtt!told
  BY DEF Mqtt!CloseAll, Mqtt!Queued, Mqtt!told
<1>t. Mqtt!TypeOK'
  <2>1. v11' \in 0 .. LeavesOfMqtt
    BY <1>1, <1>q DEF Mqtt!TypeOK
  <2>2. v12' \in 0 .. LossesOfMqtt
    BY <1>1, <1>q DEF Mqtt!TypeOK
  <2>3. v8' \in Mqtt!Attempt \cup {0} /\ v9' \in Mqtt!Attempt \cup {0}
    BY <1>1, <1>q DEF Mqtt!TypeOK
  <2>4. v7' \in Nat
    BY <1>1, <1>q DEF Mqtt!TypeOK
  <2>5. v3' \in [Mqtt!Attempt -> Nat]
    BY <1>1, <1>q DEF Mqtt!TypeOK
  <2>6. v2' \in [Mqtt!Attempt -> {"new", "building", "asked", "over"}]
    BY <1>1, <1>q DEF Mqtt!TypeOK
  <2>7. v4' \subseteq Mqtt!Attempt
    BY <1>1, <1>q DEF Mqtt!TypeOK
  <2>8. v5' \in [Mqtt!Attempt -> {"none", "opening", "open", "retrying", "ending", "closed"}]
    BY <1>1, <1>q DEF Mqtt!TypeOK
  <2>9. v10' \in {"none", "connecting", "connected", "disconnecting", "disconnected", "error"}
    BY <1>1, <1>q DEF Mqtt!TypeOK
  <2>10. v1' \in BOOLEAN
    BY <1>1, <1>q DEF Mqtt!TypeOK
  <2>11. {v13', v14'} \subseteq BOOLEAN
    BY <1>1, <1>q DEF Mqtt!TypeOK
  <2> QED
    BY <2>1, <2>2, <2>3, <2>4, <2>5, <2>6, <2>7, <2>8, <2>9, <2>10, <2>11 DEF Mqtt!TypeOK
<1>h. Mqtt!Heard'
  BY <1>1, <1>q DEF Mqtt!Heard
<1>r. Mqtt!Registered'
  BY <1>1, <1>q DEF Mqtt!TypeOK, Mqtt!Heard, Mqtt!Registered, Mqtt!Attempt
<1>n. Mqtt!Numbered'
  BY <1>1, <1>q DEF Mqtt!TypeOK, Mqtt!Numbered
<1>k. ASSUME ~v13', ~v14' PROVE Mqtt!Kept' /\ Mqtt!OneSession'
  <2>0. ~v13 /\ ~v14 /\ Mqtt!Kept /\ Mqtt!OneSession
    BY <1>1, <1>q, <1>k DEF Mqtt!TypeOK
  <2>1. v8' # 0 => Mqtt!Current(v8)'
    BY <1>1, <1>q, <2>0 DEF Mqtt!TypeOK, Mqtt!Kept, Mqtt!Current, Mqtt!Registered, Mqtt!Heard,
       Mqtt!Attempt
  <2>2. ASSUME NEW c \in Mqtt!Attempt, Mqtt!Current(c)', Mqtt!Underway(c)'
        PROVE  v10' \in {"connecting", "connected", "disconnecting"}
    <3>1. Mqtt!Current(c) /\ Mqtt!Underway(c) /\ v2[c] \notin {"building", "asked"} /\ c # v8
      <4>1. Mqtt!Current(c) /\ Mqtt!Underway(c)
        BY <1>1, <1>q, <2>2 DEF Mqtt!Underway, Mqtt!Current
      <4>2. v2[c] \notin {"building", "asked"}
        BY <1>1, <1>k, <4>1
      <4>3. c # v8
        BY DEF Mqtt!Attempt
      <4> QED
        BY <4>1, <4>2, <4>3
    <3> QED
      BY <3>1 DEF Mqtt!Underway, Mqtt!Heard
  <2>3. Mqtt!OneSession'
    BY <1>1, <2>0 DEF Mqtt!OneSession
  <2> QED
    BY <2>1, <2>2, <2>3 DEF Mqtt!Kept
<1> QED
  BY <1>q, <1>t, <1>h, <1>r, <1>n, <1>k DEF Mqtt!TypeOK

LEMMA MqttOnCloseAll ==
    ASSUME Mqtt!Inv, Mqtt!CloseAll
    PROVE  Mqtt!Inv'
<1> USE MqttAssumption DEF Mqtt!MqttTabAssumption
<1>1. CASE v8 = 0
  BY <1>1, MqttOnCloseNone
<1>2. CASE v8 # 0
  <2>1. /\ Mqtt!Forgotten /\ UNCHANGED <<v1, v2, v3, v4, v9, v12, v13>>
        /\ v11 < LeavesOfMqtt /\ v11' = v11 + 1
        /\ v14' = (v14 \/ (v8 = 0 /\ \E a \in Mqtt!Attempt : v2[a] \in {"building", "asked"} /\ Mqtt!Current(a)))
    BY <1>2 DEF Mqtt!CloseAll
  <2>2. v11 \in 0 .. LeavesOfMqtt /\ v14 \in BOOLEAN
    BY DEF Mqtt!Inv, Mqtt!TypeOK
  <2>3. v11' \in 0 .. LeavesOfMqtt
    BY <2>1, <2>2
  <2>4. v14' = v14
    BY <1>2, <2>1, <2>2
  <2>5. v14' \in BOOLEAN /\ (v14 => v14')
    BY <2>2, <2>4
  <2> QED
    BY <2>1, <2>3, <2>5, MqttOnForgotten
<1> QED
  BY <1>1, <1>2

LEMMA MqttOnDisconnectNone ==
    ASSUME Mqtt!Inv, Mqtt!Disconnect, v8 = 0
    PROVE  Mqtt!Inv'
<1> USE MqttAssumption DEF Mqtt!MqttTabAssumption, Mqtt!Inv
<1>1. /\ v11 < LeavesOfMqtt /\ v11' = v11 + 1 /\ v10' = "disconnected" /\ v13' = TRUE
      /\ v1' = v1 /\ v2' = v2 /\ v3' = v3 /\ v4' = v4 /\ v5' = v5
      /\ v7' = v7 /\ v8' = v8 /\ v9' = v9 /\ v12' = v12 /\ v14' = v14
  BY DEF Mqtt!Disconnect, Mqtt!noted
<1>q. Mqtt!Queued' /\ Mqtt!told' = Mqtt!told
  BY DEF Mqtt!Disconnect, Mqtt!Queued, Mqtt!told
<1>t. Mqtt!TypeOK'
  <2>1. v11' \in 0 .. LeavesOfMqtt
    BY <1>1, <1>q DEF Mqtt!TypeOK
  <2>2. v12' \in 0 .. LossesOfMqtt
    BY <1>1, <1>q DEF Mqtt!TypeOK
  <2>3. v8' \in Mqtt!Attempt \cup {0} /\ v9' \in Mqtt!Attempt \cup {0}
    BY <1>1, <1>q DEF Mqtt!TypeOK
  <2>4. v7' \in Nat
    BY <1>1, <1>q DEF Mqtt!TypeOK
  <2>5. v3' \in [Mqtt!Attempt -> Nat]
    BY <1>1, <1>q DEF Mqtt!TypeOK
  <2>6. v2' \in [Mqtt!Attempt -> {"new", "building", "asked", "over"}]
    BY <1>1, <1>q DEF Mqtt!TypeOK
  <2>7. v4' \subseteq Mqtt!Attempt
    BY <1>1, <1>q DEF Mqtt!TypeOK
  <2>8. v5' \in [Mqtt!Attempt -> {"none", "opening", "open", "retrying", "ending", "closed"}]
    BY <1>1, <1>q DEF Mqtt!TypeOK
  <2>9. v10' \in {"none", "connecting", "connected", "disconnecting", "disconnected", "error"}
    BY <1>1, <1>q DEF Mqtt!TypeOK
  <2>10. v1' \in BOOLEAN
    BY <1>1, <1>q DEF Mqtt!TypeOK
  <2>11. {v13', v14'} \subseteq BOOLEAN
    BY <1>1, <1>q DEF Mqtt!TypeOK
  <2> QED
    BY <2>1, <2>2, <2>3, <2>4, <2>5, <2>6, <2>7, <2>8, <2>9, <2>10, <2>11 DEF Mqtt!TypeOK
<1>h. Mqtt!Heard'
  BY <1>1, <1>q DEF Mqtt!Heard
<1>r. Mqtt!Registered'
  BY <1>1, <1>q DEF Mqtt!TypeOK, Mqtt!Heard, Mqtt!Registered, Mqtt!Attempt
<1>n. Mqtt!Numbered'
  BY <1>1, <1>q DEF Mqtt!TypeOK, Mqtt!Numbered
<1>k. ASSUME ~v13', ~v14' PROVE Mqtt!Kept' /\ Mqtt!OneSession'
  <2>0. ~v13 /\ ~v14 /\ Mqtt!Kept /\ Mqtt!OneSession
    BY <1>1, <1>q, <1>k DEF Mqtt!TypeOK
  <2>1. v8' # 0 => Mqtt!Current(v8)'
    BY <1>1, <1>k
  <2>2. ASSUME NEW c \in Mqtt!Attempt, Mqtt!Current(c)', Mqtt!Underway(c)'
        PROVE  v10' \in {"connecting", "connected", "disconnecting"}
    BY <1>1, <1>k
  <2>3. Mqtt!OneSession'
    BY <1>1, <1>k
  <2> QED
    BY <2>1, <2>2, <2>3 DEF Mqtt!Kept
<1> QED
  BY <1>q, <1>t, <1>h, <1>r, <1>n, <1>k DEF Mqtt!TypeOK

LEMMA MqttOnDisconnect ==
    ASSUME Mqtt!Inv, Mqtt!Disconnect, v8 # 0
    PROVE  Mqtt!Inv'
<1> USE MqttAssumption DEF Mqtt!MqttTabAssumption, Mqtt!Inv
<1>1. /\ v11 < LeavesOfMqtt /\ v11' = v11 + 1 /\ v10' = "disconnecting" /\ v9' = v8
      /\ v1' = v1 /\ v2' = v2 /\ v3' = v3 /\ v4' = v4 /\ v7' = v7
      /\ v8' = v8 /\ v12' = v12 /\ v13' = v13 /\ v14' = v14
  BY DEF Mqtt!Disconnect, Mqtt!noted
<1>q. /\ Mqtt!Queued'
      /\ \/ /\ v8 # 0 /\ v5[v8] \in {"opening", "open", "retrying"}
            /\ v5' = [v5 EXCEPT ![v8] = "ending"] /\ Mqtt!told' = [Mqtt!told EXCEPT ![v8] = Mqtt!told[v8] \cup {"disconnecting"}]
         \/ /\ v8 = 0 \/ v5[v8] \notin {"opening", "open", "retrying"}
            /\ v5' = v5 /\ Mqtt!told' = [Mqtt!told EXCEPT ![v8] = Mqtt!told[v8] \cup {"left"}]
  <2>1. CASE v8 # 0 /\ v5[v8] \in {"opening", "open", "retrying"}
    <3> DEFINE a == v8
    <3>a. a \in Mqtt!Attempt
      BY <2>1 DEF Mqtt!TypeOK
    <3>b. v6' = Append(v6, Mqtt!Message(a, "disconnecting")) /\ v5' = [v5 EXCEPT ![v8] = "ending"]
      BY <2>1 DEF Mqtt!EndAsked, Mqtt!Disconnect
    <3> HIDE DEF a
    <3>q1. v6 \in Seq(Mqtt!Messages)
      BY MqttMessages
    <3>q2. Mqtt!Message(a, "disconnecting") \in Mqtt!Messages
      BY <3>a DEF Mqtt!Message, Mqtt!Messages, Mqtt!Kinds
    <3>c. v6' = v6 \o <<Mqtt!Message(a, "disconnecting")>>
      BY <3>b, <3>q1, <3>q2, AppendJoins
    <3>q3. v6' = v6 \o <<Mqtt!Message(a, "disconnecting")>>
      BY <3>c
    <3>q4. NoneBefore({"disconnecting"}, ToldIn(v6, Mqtt!Attempt, Mqtt!Kinds)[a], Mqtt!Never)
      <4>1. ToldIn(v6, Mqtt!Attempt, Mqtt!Kinds) = Mqtt!told
        BY MqttMessages
      <4> QED
        BY <4>1, <3>a DEF NoneBefore, Mqtt!Never
    <3>qk. "disconnecting" \in Mqtt!Kinds
      BY DEF Mqtt!Kinds, Mqtt!Never
    <3>q5. v6 \in Seq(Mqtt!Messages) /\ Ordered(v6, Mqtt!Never)
      BY MqttMessages
    <3>q6. Mqtt!Queued' /\ IsTold({"disconnecting"}, a, ToldIn(v6, Mqtt!Attempt, Mqtt!Kinds), Mqtt!told')
      BY <3>a, <3>q3, <3>q4, <3>qk, <3>q5, MqttTellsOne
    <3>q. Mqtt!Queued' /\ Mqtt!told' = [Mqtt!told EXCEPT ![a] = Mqtt!told[a] \cup {"disconnecting"}]
      BY <3>a, <3>q6, MqttMessages DEF IsTold
    <3> QED
      BY <2>1, <3>b, <3>q DEF a
  <2>2. CASE ~(v8 # 0 /\ v5[v8] \in {"opening", "open", "retrying"})
    <3> DEFINE a == v8
    <3>a. a \in Mqtt!Attempt
      BY <2>2 DEF Mqtt!TypeOK
    <3>b. v6' = v6 \o <<Mqtt!Message(a, "left")>> /\ v5' = v5
      BY <2>2 DEF Mqtt!EndAsked, Mqtt!Disconnect
    <3> HIDE DEF a
    <3>q3. v6' = v6 \o <<Mqtt!Message(a, "left")>>
      BY <3>b
    <3>q4. NoneBefore({"left"}, ToldIn(v6, Mqtt!Attempt, Mqtt!Kinds)[a], Mqtt!Never)
      <4>1. ToldIn(v6, Mqtt!Attempt, Mqtt!Kinds) = Mqtt!told
        BY MqttMessages
      <4> QED
        BY <4>1, <3>a DEF NoneBefore, Mqtt!Never
    <3>qk. "left" \in Mqtt!Kinds
      BY DEF Mqtt!Kinds, Mqtt!Never
    <3>q5. v6 \in Seq(Mqtt!Messages) /\ Ordered(v6, Mqtt!Never)
      BY MqttMessages
    <3>q6. Mqtt!Queued' /\ IsTold({"left"}, a, ToldIn(v6, Mqtt!Attempt, Mqtt!Kinds), Mqtt!told')
      BY <3>a, <3>q3, <3>q4, <3>qk, <3>q5, MqttTellsOne
    <3>q. Mqtt!Queued' /\ Mqtt!told' = [Mqtt!told EXCEPT ![a] = Mqtt!told[a] \cup {"left"}]
      BY <3>a, <3>q6, MqttMessages DEF IsTold
    <3> QED
      BY <2>2, <3>b, <3>q DEF a
  <2> QED
    BY <2>1, <2>2
<1>t. Mqtt!TypeOK'
  <2>1. v11' \in 0 .. LeavesOfMqtt
    BY <1>1, <1>q DEF Mqtt!TypeOK
  <2>2. v12' \in 0 .. LossesOfMqtt
    BY <1>1, <1>q DEF Mqtt!TypeOK
  <2>3. v8' \in Mqtt!Attempt \cup {0} /\ v9' \in Mqtt!Attempt \cup {0}
    BY <1>1, <1>q DEF Mqtt!TypeOK
  <2>4. v7' \in Nat
    BY <1>1, <1>q DEF Mqtt!TypeOK
  <2>5. v3' \in [Mqtt!Attempt -> Nat]
    BY <1>1, <1>q DEF Mqtt!TypeOK
  <2>6. v2' \in [Mqtt!Attempt -> {"new", "building", "asked", "over"}]
    BY <1>1, <1>q DEF Mqtt!TypeOK
  <2>7. v4' \subseteq Mqtt!Attempt
    BY <1>1, <1>q DEF Mqtt!TypeOK
  <2>8. v5' \in [Mqtt!Attempt -> {"none", "opening", "open", "retrying", "ending", "closed"}]
    BY <1>1, <1>q DEF Mqtt!TypeOK
  <2>9. v10' \in {"none", "connecting", "connected", "disconnecting", "disconnected", "error"}
    BY <1>1, <1>q DEF Mqtt!TypeOK
  <2>10. v1' \in BOOLEAN
    BY <1>1, <1>q DEF Mqtt!TypeOK
  <2>11. {v13', v14'} \subseteq BOOLEAN
    BY <1>1, <1>q DEF Mqtt!TypeOK
  <2> QED
    BY <2>1, <2>2, <2>3, <2>4, <2>5, <2>6, <2>7, <2>8, <2>9, <2>10, <2>11 DEF Mqtt!TypeOK
<1>h. Mqtt!Heard'
  <2> SUFFICES ASSUME NEW c \in Mqtt!Attempt PROVE Mqtt!Heard!(c)'
    BY DEF Mqtt!Heard
  <2>3. Mqtt!Heard!(c)
    BY DEF Mqtt!Heard
  <2>4. Mqtt!told \in [Mqtt!Attempt -> SUBSET Mqtt!Kinds]
    BY MqttMessages
  <2>1. CASE v8 # 0 /\ v5[v8] \in {"opening", "open", "retrying"}
    <3>1. CASE c = v8
      BY <1>1, <1>q, <2>1, <2>3, <2>4, <3>1 DEF Mqtt!TypeOK, Mqtt!Registered
    <3>2. CASE c # v8
      BY <1>1, <1>q, <2>1, <2>3, <2>4, <3>2 DEF Mqtt!TypeOK
    <3> QED
      BY <3>1, <3>2
  <2>2. CASE ~(v8 # 0 /\ v5[v8] \in {"opening", "open", "retrying"})
    <3>1. CASE c = v8
      BY <1>1, <1>q, <2>2, <2>3, <2>4, <3>1 DEF Mqtt!TypeOK, Mqtt!Registered
    <3>2. CASE c # v8
      BY <1>1, <1>q, <2>2, <2>3, <2>4, <3>2 DEF Mqtt!TypeOK
    <3> QED
      BY <3>1, <3>2
  <2> QED
    BY <2>1, <2>2
<1>r. Mqtt!Registered'
  BY <1>1, <1>q DEF Mqtt!TypeOK, Mqtt!Heard, Mqtt!Registered, Mqtt!Attempt
<1>n. Mqtt!Numbered'
  BY <1>1, <1>q DEF Mqtt!TypeOK, Mqtt!Numbered
<1>k. ASSUME ~v13', ~v14' PROVE Mqtt!Kept' /\ Mqtt!OneSession'
  <2>0. ~v13 /\ ~v14 /\ Mqtt!Kept /\ Mqtt!OneSession
    BY <1>1, <1>q, <1>k DEF Mqtt!TypeOK
  <2>1. v8' # 0 => Mqtt!Current(v8)'
    BY <1>1, <1>q, <2>0 DEF Mqtt!TypeOK, Mqtt!Kept, Mqtt!Current, Mqtt!Registered, Mqtt!Heard,
       Mqtt!Attempt
  <2>2. ASSUME NEW c \in Mqtt!Attempt, Mqtt!Current(c)', Mqtt!Underway(c)'
        PROVE  v10' \in {"connecting", "connected", "disconnecting"}
    BY <1>1
  <2>3. Mqtt!OneSession'
    <3> SUFFICES ASSUME NEW c \in Mqtt!Attempt, v5'[c] \in {"opening", "open", "retrying"}
                 PROVE  c = v8 \/ v2[c] = "asked"
      BY <1>1 DEF Mqtt!OneSession
    <3>1. v5[c] \in {"opening", "open", "retrying"}
      BY <1>q DEF Mqtt!TypeOK
    <3> QED
      BY <2>0, <3>1 DEF Mqtt!OneSession
  <2> QED
    BY <2>1, <2>2, <2>3 DEF Mqtt!Kept
<1> QED
  BY <1>q, <1>t, <1>h, <1>r, <1>n, <1>k DEF Mqtt!TypeOK

LEMMA MqttStays == ASSUME Mqtt!Inv, UNCHANGED Mqtt!vars PROVE Mqtt!Inv'
<1>1. Mqtt!Queued' /\ Mqtt!told' = Mqtt!told
  BY DEF Mqtt!Inv, Mqtt!Queued, Mqtt!told, Mqtt!vars
<1>2. Mqtt!TypeOK'
  BY DEF Mqtt!Inv, Mqtt!TypeOK, Mqtt!vars, Mqtt!noted
<1>3. Mqtt!Heard' /\ Mqtt!Registered' /\ Mqtt!Numbered'
  BY <1>1 DEF Mqtt!Inv, Mqtt!Heard, Mqtt!Registered, Mqtt!Numbered, Mqtt!vars
<1>4. v13' \/ v14' \/ (Mqtt!Kept' /\ Mqtt!OneSession')
  <2>1. CASE v13 \/ v14
    BY <2>1 DEF Mqtt!vars, Mqtt!noted
  <2>2. CASE Mqtt!Kept /\ Mqtt!OneSession
    BY <1>1, <2>2 DEF Mqtt!Kept, Mqtt!Underway, Mqtt!Current, Mqtt!OneSession, Mqtt!vars
  <2> QED
    BY <2>1, <2>2 DEF Mqtt!Inv
<1> QED
  BY <1>1, <1>2, <1>3, <1>4 DEF Mqtt!Inv

LEMMA MqttKeeps == Mqtt!Inv /\ [Mqtt!Next]_Mqtt!vars => Mqtt!Inv'
<1> SUFFICES ASSUME Mqtt!Inv, [Mqtt!Next]_Mqtt!vars PROVE Mqtt!Inv'
  OBVIOUS
<1>1. CASE Mqtt!Takes
  BY <1>1, MqttOnTakeStatus, MqttOnTakeError, MqttOnTakeDisconnected, MqttOnTakeMade,
     MqttOnTakeRefused, MqttOnTakeLeft DEF Mqtt!Takes
<1>2. CASE Mqtt!Leaves
  BY <1>2, MqttOnDisconnectNone, MqttOnDisconnect, MqttOnForget, MqttOnCloseAll DEF Mqtt!Leaves
<1>3. ASSUME NEW a \in Mqtt!Attempt, Mqtt!Works(a) PROVE Mqtt!Inv'
  BY <1>3, MqttOnConnect, MqttOnBuildFails, MqttOnBuilt, MqttOnAccepted, MqttOnRefused, MqttOnLost,
     MqttOnRetries, MqttOnBackAgain, MqttOnEnded DEF Mqtt!Works
<1>4. CASE UNCHANGED Mqtt!vars
  BY <1>4, MqttStays
<1> QED
  BY <1>1, <1>2, <1>3, <1>4 DEF Mqtt!Next

\* useMqtt.ts, mqtt.ts: for any number of attempts, leaves and losses, a client nobody ends is the
\* registered one or its answer is still to come, unless disconnect() or closeAll() went past it.
THEOREM MqttInvariance == Mqtt!Spec => [](Mqtt!TypeOK /\ Mqtt!OneSession)
<1>2. Mqtt!Inv => Mqtt!TypeOK /\ Mqtt!OneSession
  BY DEF Mqtt!Inv, Mqtt!OneSession
<1> QED
  BY MqttKeeps, <1>2, MqttBegins, PTL DEF Mqtt!Spec

(* ----------------------------- the SSH terminal ---------------------------- *)
(* OneShell is not inductive: an attempt that opens replaces nothing only if it  *)
(* is the current one, and a closed tab stays without a shell only if no call    *)
(* under way starts another.  Ssh!Inv says what each call waits for, what the    *)
(* answers on their way are, and that each is answered once.                     *)
Ssh == INSTANCE SshTerminal WITH
    MaxAttempts <- OpensOfTerminal, Call <- CallsOfTerminal,
    phase <- v1, startedBy <- v2, genOf <- v3, generation <- v4, session <- v5, client <- v6,
    out <- v7, call <- v8, tab <- v9, status <- v10, gone <- v11, stale <- v12, orphaned <- v13
ASSUME SshAssumed == Ssh!SshAssumption

\* The answers to come in p are those in q and those to C, and p tells of no disconnect after all
\* that q told.
SshPasses(q, p, C) ==
    p \in Seq(Ssh!Messages) /\ Ssh!AnsweredOnce(p)
    /\ \A c \in CallsOfTerminal : Ssh!Answering(p, c) <=> Ssh!Answering(q, c) \/ c \in C

SshCalm(q, p) == (Ssh!Disconnecting(p) => Ssh!Disconnecting(q)) /\ \A c \in CallsOfTerminal : Ssh!Connecting(q, c) => Ssh!Connecting(p, c)

SshOnlyStatus(m) == \A i \in DOMAIN m : m[i].kind = "status"

SshOthersThan(q, m) == \A c \in CallsOfTerminal : ~(Ssh!Answering(q, c) /\ Ssh!Answering(m, c))

LEMMA SshMessages ==
    /\ \A m \in Ssh!Messages : m.kind = "answer" => m.call \in CallsOfTerminal
    /\ \A s \in Ssh!Statuses : Ssh!Status(s) \in Ssh!Messages /\ Ssh!Status(s).kind = "status"
    /\ \A c \in CallsOfTerminal, ok \in BOOLEAN :
          Ssh!Answer(c, ok) \in Ssh!Messages /\ Ssh!Answer(c, ok).kind = "answer" /\ Ssh!Answer(c, ok).call = c
    /\ \A m \in Ssh!Messages : m.kind \in {"status", "answer"}
    /\ \A m \in Ssh!Messages : m.kind = "status" => m.status \in Ssh!Statuses /\ m = Ssh!Status(m.status)
<1>1. \A m \in Ssh!Messages : \/ \E s \in Ssh!Statuses : m = Ssh!Status(s)
                              \/ \E c \in CallsOfTerminal, ok \in BOOLEAN : m = Ssh!Answer(c, ok)
  BY DEF Ssh!Messages
<1>2. \A s \in Ssh!Statuses : Ssh!Status(s) \in Ssh!Messages /\ Ssh!Status(s).kind = "status" /\ Ssh!Status(s).status = s
  BY DEF Ssh!Messages, Ssh!Status
<1>3. \A c \in CallsOfTerminal, ok \in BOOLEAN :
          Ssh!Answer(c, ok) \in Ssh!Messages /\ Ssh!Answer(c, ok).kind = "answer" /\ Ssh!Answer(c, ok).call = c
  BY DEF Ssh!Messages, Ssh!Answer
<1> QED
  BY <1>1, <1>2, <1>3

LEMMA SshJoins ==
    ASSUME NEW q \in Seq(Ssh!Messages), NEW m \in Seq(Ssh!Messages), Ssh!AnsweredOnce(q), Ssh!AnsweredOnce(m), SshOthersThan(q, m)
    PROVE  /\ q \o m \in Seq(Ssh!Messages) /\ Ssh!AnsweredOnce(q \o m)
           /\ \A c \in CallsOfTerminal : Ssh!Answering(q \o m, c) <=> Ssh!Answering(q, c) \/ Ssh!Answering(m, c)
           /\ Ssh!Disconnecting(q \o m) <=> Ssh!Disconnecting(q) \/ Ssh!Disconnecting(m)
           /\ ~Ssh!Disconnecting(m) => SshCalm(q, q \o m)
           /\ \A c \in CallsOfTerminal : Ssh!Connecting(m, c) /\ ~Ssh!Answering(q, c) => Ssh!Connecting(q \o m, c)
<1> DEFINE p == q \o m
<1>1. /\ p \in Seq(Ssh!Messages) /\ Len(q) \in Nat /\ DOMAIN q \subseteq Nat \ {0} /\ DOMAIN m \subseteq Nat \ {0}
      /\ DOMAIN p \subseteq Nat
      /\ \A i \in DOMAIN q : i \in DOMAIN p /\ p[i] = q[i] /\ i <= Len(q)
      /\ \A i \in DOMAIN m : Len(q) + i \in DOMAIN p /\ p[Len(q) + i] = m[i]
      /\ \A i \in DOMAIN p : i \in DOMAIN q \/ (i > Len(q) /\ i - Len(q) \in DOMAIN m)
  BY JoinedSeqs
<1>2. /\ \A i \in DOMAIN q : q[i] \in Ssh!Messages
      /\ \A i \in DOMAIN m : m[i] \in Ssh!Messages
  BY ElementOfSeq
<1>a. \A i \in DOMAIN p : i \notin DOMAIN q =>
          i > Len(q) /\ i - Len(q) \in DOMAIN m /\ p[i] = m[i - Len(q)]
  <2> SUFFICES ASSUME NEW i \in DOMAIN p, i \notin DOMAIN q
               PROVE  i > Len(q) /\ i - Len(q) \in DOMAIN m /\ p[i] = m[i - Len(q)]
    OBVIOUS
  <2>1. i > Len(q) /\ i - Len(q) \in DOMAIN m /\ i \in Nat
    BY <1>1
  <2>2. Len(q) + (i - Len(q)) = i
    BY <1>1, <2>1
  <2> QED
    BY <1>1, <2>1, <2>2
<1> HIDE DEF p
<1>3. \A c \in CallsOfTerminal : Ssh!Answering(p, c) <=> Ssh!Answering(q, c) \/ Ssh!Answering(m, c)
  <2> SUFFICES ASSUME NEW c \in CallsOfTerminal PROVE Ssh!Answering(p, c) <=> Ssh!Answering(q, c) \/ Ssh!Answering(m, c)
    OBVIOUS
  <2>1. Ssh!Answering(q, c) => Ssh!Answering(p, c)
    BY <1>1 DEF Ssh!Answering
  <2>2. Ssh!Answering(m, c) => Ssh!Answering(p, c)
    BY <1>1 DEF Ssh!Answering
  <2>3. Ssh!Answering(p, c) => Ssh!Answering(q, c) \/ Ssh!Answering(m, c)
    BY <1>1, <1>a DEF Ssh!Answering
  <2> QED
    BY <2>1, <2>2, <2>3
<1>4. Ssh!Disconnecting(p) <=> Ssh!Disconnecting(q) \/ Ssh!Disconnecting(m)
  <2>1. Ssh!Disconnecting(q) => Ssh!Disconnecting(p)
    BY <1>1 DEF Ssh!Disconnecting
  <2>2. Ssh!Disconnecting(m) => Ssh!Disconnecting(p)
    BY <1>1 DEF Ssh!Disconnecting
  <2>3. Ssh!Disconnecting(p) => Ssh!Disconnecting(q) \/ Ssh!Disconnecting(m)
    BY <1>1, <1>a DEF Ssh!Disconnecting
  <2> QED
    BY <2>1, <2>2, <2>3
<1>5. Ssh!AnsweredOnce(p)
  <2> SUFFICES ASSUME NEW i \in DOMAIN p, NEW j \in DOMAIN p, i < j, p[i].kind = "answer", Ssh!IsAnswer(p[j], p[i].call)
               PROVE  FALSE
    BY DEF Ssh!AnsweredOnce
  <2>1. CASE j \in DOMAIN q
    <3>1. i \in DOMAIN q
      BY <1>1, <2>1
    <3> QED
      BY <1>1, <2>1, <3>1 DEF Ssh!AnsweredOnce
  <2>2. CASE i \in DOMAIN q /\ j \notin DOMAIN q
    <3>1. Ssh!Answering(q, p[i].call)
      BY <1>1, <2>2 DEF Ssh!Answering, Ssh!IsAnswer
    <3>2. Ssh!Answering(m, p[i].call)
      BY <1>a, <2>2 DEF Ssh!Answering
    <3>3. p[i].call \in CallsOfTerminal
      BY <1>1, <1>2, <2>2, SshMessages
    <3> QED
      BY <3>1, <3>2, <3>3 DEF SshOthersThan
  <2>3. CASE i \notin DOMAIN q /\ j \notin DOMAIN q
    <3>1. i - Len(q) < j - Len(q)
      BY <1>1
    <3> QED
      BY <1>a, <2>3, <3>1 DEF Ssh!AnsweredOnce
  <2> QED
    BY <2>1, <2>2, <2>3
<1>6. ~Ssh!Disconnecting(m) => SshCalm(q, p)
  <2> SUFFICES ASSUME ~Ssh!Disconnecting(m), NEW c \in CallsOfTerminal, Ssh!Connecting(q, c) PROVE Ssh!Connecting(p, c)
    BY <1>4 DEF SshCalm
  <2>1. PICK n \in DOMAIN q : /\ q[n] = Ssh!Status("connected")
                              /\ \A i \in DOMAIN q : i > n => q[i] # Ssh!Status("disconnecting")
                              /\ \A i \in DOMAIN q : i < n => ~Ssh!IsAnswer(q[i], c)
    BY DEF Ssh!Connecting
  <2>2. n \in DOMAIN p /\ p[n] = Ssh!Status("connected")
    BY <1>1, <2>1
  <2>3. ASSUME NEW i \in DOMAIN p, i > n PROVE p[i] # Ssh!Status("disconnecting")
    BY <1>1, <1>a, <2>1, <2>3 DEF Ssh!Disconnecting
  <2>4. ASSUME NEW i \in DOMAIN p, i < n PROVE ~Ssh!IsAnswer(p[i], c)
    <3>1. i \in DOMAIN q
      BY <1>1, <2>4
    <3> QED
      BY <1>1, <2>1, <2>4, <3>1
  <2> QED
    BY <2>2, <2>3, <2>4 DEF Ssh!Connecting
<1>7. ASSUME NEW c \in CallsOfTerminal, Ssh!Connecting(m, c), ~Ssh!Answering(q, c) PROVE Ssh!Connecting(p, c)
  <2>1. PICK n \in DOMAIN m : /\ m[n] = Ssh!Status("connected")
                              /\ \A i \in DOMAIN m : i > n => m[i] # Ssh!Status("disconnecting")
                              /\ \A i \in DOMAIN m : i < n => ~Ssh!IsAnswer(m[i], c)
    BY <1>7 DEF Ssh!Connecting
  <2>2. Len(q) + n \in DOMAIN p /\ p[Len(q) + n] = Ssh!Status("connected")
    BY <1>1, <2>1
  <2>3. ASSUME NEW i \in DOMAIN p, i > Len(q) + n PROVE p[i] # Ssh!Status("disconnecting")
    <3>1. i \notin DOMAIN q
      BY <1>1, <2>3
    <3>2. i - Len(q) > n
      BY <1>1, <2>3
    <3> QED
      BY <1>a, <2>1, <3>1, <3>2
  <2>4. ASSUME NEW i \in DOMAIN p, i < Len(q) + n PROVE ~Ssh!IsAnswer(p[i], c)
    <3>1. CASE i \in DOMAIN q
      BY <1>1, <1>7, <3>1 DEF Ssh!Answering
    <3>2. CASE i \notin DOMAIN q
      <4>1. i - Len(q) < n
        BY <1>1, <2>4
      <4> QED
        BY <1>a, <2>1, <3>2, <4>1
    <3> QED
      BY <3>1, <3>2
  <2> QED
    BY <2>2, <2>3, <2>4 DEF Ssh!Connecting
<1> QED
  BY <1>1, <1>3, <1>4, <1>5, <1>6, <1>7 DEF p

LEMMA SshTakes ==
    ASSUME NEW q \in Seq(Ssh!Messages), Ssh!AnsweredOnce(q), q # <<>>
    PROVE  /\ Tail(q) \in Seq(Ssh!Messages) /\ Ssh!AnsweredOnce(Tail(q)) /\ Head(q) \in Ssh!Messages
           /\ \A c \in CallsOfTerminal : Ssh!Answering(Tail(q), c) => Ssh!Answering(q, c) /\ ~Ssh!IsAnswer(Head(q), c)
           /\ \A c \in CallsOfTerminal : Ssh!IsAnswer(Head(q), c) => Ssh!Answering(q, c)
           /\ Ssh!Disconnecting(Tail(q)) => Ssh!Disconnecting(q)
           /\ Head(q) = Ssh!Status("disconnecting") => Ssh!Disconnecting(q)
           /\ \A c \in CallsOfTerminal : Ssh!Connecting(q, c) =>
                 /\ ~Ssh!IsAnswer(Head(q), c)
                 /\ \/ Ssh!Connecting(Tail(q), c)
                    \/ Head(q) = Ssh!Status("connected") /\ ~Ssh!Disconnecting(Tail(q))
<1> DEFINE t == Tail(q)
           h == Head(q)
<1>1. /\ t \in Seq(Ssh!Messages) /\ h \in Ssh!Messages /\ h = q[1] /\ 1 \in DOMAIN q
      /\ \A i \in DOMAIN t : i + 1 \in DOMAIN q /\ t[i] = q[i + 1]
      /\ \A i \in DOMAIN q : i # 1 => i - 1 \in DOMAIN t /\ t[i - 1] = q[i]
      /\ DOMAIN q \subseteq Nat \ {0} /\ DOMAIN t \subseteq Nat \ {0}
  BY TailIsShorter
<1> HIDE DEF t, h
<1>2. Ssh!AnsweredOnce(t)
  <2> SUFFICES ASSUME NEW i \in DOMAIN t, NEW j \in DOMAIN t, i < j, t[i].kind = "answer"
               PROVE  ~Ssh!IsAnswer(t[j], t[i].call)
    BY DEF Ssh!AnsweredOnce
  <2>1. i + 1 < j + 1
    BY <1>1
  <2> QED
    BY <1>1, <2>1 DEF Ssh!AnsweredOnce
<1>3. ASSUME NEW c \in CallsOfTerminal, Ssh!Answering(t, c) PROVE Ssh!Answering(q, c) /\ ~Ssh!IsAnswer(h, c)
  <2>1. PICK i \in DOMAIN t : Ssh!IsAnswer(t[i], c)
    BY <1>3 DEF Ssh!Answering
  <2>2. i + 1 \in DOMAIN q /\ Ssh!IsAnswer(q[i + 1], c) /\ 1 < i + 1
    BY <1>1, <2>1
  <2> QED
    BY <1>1, <2>2 DEF Ssh!Answering, Ssh!AnsweredOnce, Ssh!IsAnswer
<1>4. \A c \in CallsOfTerminal : Ssh!IsAnswer(h, c) => Ssh!Answering(q, c)
  BY <1>1 DEF Ssh!Answering
<1>5. Ssh!Disconnecting(t) => Ssh!Disconnecting(q)
  BY <1>1 DEF Ssh!Disconnecting
<1>6. h = Ssh!Status("disconnecting") => Ssh!Disconnecting(q)
  BY <1>1 DEF Ssh!Disconnecting
<1>7. ASSUME NEW c \in CallsOfTerminal, Ssh!Connecting(q, c)
      PROVE  /\ ~Ssh!IsAnswer(h, c)
             /\ Ssh!Connecting(t, c) \/ (h = Ssh!Status("connected") /\ ~Ssh!Disconnecting(t))
  <2>1. PICK n \in DOMAIN q : /\ q[n] = Ssh!Status("connected")
                              /\ \A i \in DOMAIN q : i > n => q[i] # Ssh!Status("disconnecting")
                              /\ \A i \in DOMAIN q : i < n => ~Ssh!IsAnswer(q[i], c)
    BY <1>7 DEF Ssh!Connecting
  <2>2. CASE n = 1
    <3>1. ~Ssh!Disconnecting(t)
      <4>1. ASSUME NEW i \in DOMAIN t PROVE t[i] # Ssh!Status("disconnecting")
        <5>1. i + 1 > 1 /\ i + 1 \in DOMAIN q /\ t[i] = q[i + 1]
          BY <1>1
        <5> QED
          BY <2>1, <2>2, <5>1
      <4> QED
        BY <4>1 DEF Ssh!Disconnecting
    <3>2. h = Ssh!Status("connected")
      BY <1>1, <2>1, <2>2
    <3>3. ~Ssh!IsAnswer(h, c)
      BY <3>2 DEF Ssh!IsAnswer, Ssh!Status
    <3> QED
      BY <3>1, <3>2, <3>3
  <2>3. CASE n # 1
    <3>1. n > 1 /\ n - 1 \in DOMAIN t /\ t[n - 1] = Ssh!Status("connected")
      BY <1>1, <2>1, <2>3
    <3>2. ASSUME NEW i \in DOMAIN t, i > n - 1 PROVE t[i] # Ssh!Status("disconnecting")
      <4>1. i + 1 > n /\ i + 1 \in DOMAIN q /\ t[i] = q[i + 1]
        BY <1>1, <3>2
      <4> QED
        BY <2>1, <4>1
    <3>3. ASSUME NEW i \in DOMAIN t, i < n - 1 PROVE ~Ssh!IsAnswer(t[i], c)
      <4>1. i + 1 < n /\ i + 1 \in DOMAIN q /\ t[i] = q[i + 1]
        BY <1>1, <3>3
      <4> QED
        BY <2>1, <4>1
    <3>4. ~Ssh!IsAnswer(h, c)
      BY <1>1, <2>1, <3>1
    <3> QED
      BY <3>1, <3>2, <3>3, <3>4 DEF Ssh!Connecting
  <2> QED
    BY <2>2, <2>3
<1> QED
  BY <1>1, <1>2, <1>3, <1>4, <1>5, <1>6, <1>7 DEF t, h

LEMMA SshPlain ==
    ASSUME NEW m \in Seq(Ssh!Messages), SshOnlyStatus(m)
    PROVE  Ssh!AnsweredOnce(m) /\ \A c \in CallsOfTerminal : ~Ssh!Answering(m, c)
<1>1. \A i \in DOMAIN m : m[i].kind # "answer"
  BY DEF SshOnlyStatus
<1> QED
  BY <1>1 DEF Ssh!AnsweredOnce, Ssh!Answering, Ssh!IsAnswer

LEMMA SshSays ==
    ASSUME Ssh!Queued, ~v11, NEW m \in Seq(Ssh!Messages), SshOnlyStatus(m), Ssh!Send(m)
    PROVE  Ssh!Queued' /\ SshPasses(v7, v7', {}) /\ (~Ssh!Disconnecting(m) => SshCalm(v7, v7'))
<1>1. Ssh!AnsweredOnce(m) /\ \A c \in CallsOfTerminal : ~Ssh!Answering(m, c)
  BY SshPlain
<1>2. v7 \in Seq(Ssh!Messages) /\ Ssh!AnsweredOnce(v7) /\ v7' = v7 \o m
  BY DEF Ssh!Queued, Ssh!Send
<1>3. SshOthersThan(v7, m)
  BY <1>1 DEF SshOthersThan
<1> HIDE DEF Ssh!Queued, Ssh!Send
<1>4. /\ v7 \o m \in Seq(Ssh!Messages) /\ Ssh!AnsweredOnce(v7 \o m)
      /\ \A c \in CallsOfTerminal : Ssh!Answering(v7 \o m, c) <=> Ssh!Answering(v7, c) \/ Ssh!Answering(m, c)
      /\ ~Ssh!Disconnecting(m) => SshCalm(v7, v7 \o m)
  BY <1>1, <1>2, <1>3, SshJoins
<1>5. Ssh!Queued'
  BY <1>2, <1>4 DEF Ssh!Queued
<1>6. SshPasses(v7, v7', {})
  BY <1>1, <1>2, <1>4 DEF SshPasses
<1> QED
  BY <1>2, <1>4, <1>5, <1>6

LEMMA SshAnswers ==
    ASSUME Ssh!Queued, ~v11, NEW A \in Seq(Ssh!Messages), SshOnlyStatus(A), NEW c \in CallsOfTerminal, NEW ok \in BOOLEAN,
           ~Ssh!Answering(v7, c), Ssh!Send(A \o <<Ssh!Answer(c, ok)>>)
    PROVE  /\ Ssh!Queued' /\ SshPasses(v7, v7', {c}) /\ (~Ssh!Disconnecting(A) => SshCalm(v7, v7'))
           /\ Ssh!Connecting(A \o <<Ssh!Answer(c, ok)>>, c) => Ssh!Connecting(v7', c)
<1> DEFINE b == <<Ssh!Answer(c, ok)>>
           m == A \o b
<1>1. Ssh!AnsweredOnce(A) /\ \A d \in CallsOfTerminal : ~Ssh!Answering(A, d)
  BY SshPlain
<1>2. Ssh!Answer(c, ok) \in Ssh!Messages /\ Ssh!Answer(c, ok).kind = "answer" /\ Ssh!Answer(c, ok).call = c
  BY SshMessages
<1>3. /\ b \in Seq(Ssh!Messages) /\ Ssh!AnsweredOnce(b) /\ ~Ssh!Disconnecting(b)
      /\ \A d \in CallsOfTerminal : Ssh!Answering(b, d) <=> d = c
  <2>1. b \in Seq(Ssh!Messages) /\ DOMAIN b = {1} /\ b[1] = Ssh!Answer(c, ok)
    BY <1>2
  <2>2. Ssh!AnsweredOnce(b)
    BY <2>1 DEF Ssh!AnsweredOnce
  <2>3. ~Ssh!Disconnecting(b)
    BY <2>1, <1>2 DEF Ssh!Disconnecting, Ssh!Status
  <2>4. \A d \in CallsOfTerminal : Ssh!Answering(b, d) <=> d = c
    BY <2>1, <1>2 DEF Ssh!Answering, Ssh!IsAnswer
  <2> QED
    BY <2>1, <2>2, <2>3, <2>4
<1>4. SshOthersThan(A, b)
  BY <1>1 DEF SshOthersThan
<1> HIDE DEF b
<1>5. /\ m \in Seq(Ssh!Messages) /\ Ssh!AnsweredOnce(m) /\ (Ssh!Disconnecting(m) <=> Ssh!Disconnecting(A))
      /\ \A d \in CallsOfTerminal : Ssh!Answering(m, d) <=> d = c
  <2>1. /\ A \o b \in Seq(Ssh!Messages) /\ Ssh!AnsweredOnce(A \o b)
        /\ \A d \in CallsOfTerminal : Ssh!Answering(A \o b, d) <=> Ssh!Answering(A, d) \/ Ssh!Answering(b, d)
        /\ Ssh!Disconnecting(A \o b) <=> Ssh!Disconnecting(A) \/ Ssh!Disconnecting(b)
    BY <1>1, <1>3, <1>4, SshJoins
  <2> QED
    BY <1>1, <1>3, <2>1
<1>6. v7 \in Seq(Ssh!Messages) /\ Ssh!AnsweredOnce(v7) /\ v7' = v7 \o m
  BY DEF Ssh!Queued, Ssh!Send, b
<1>7. SshOthersThan(v7, m)
  BY <1>5 DEF SshOthersThan
<1>9. m = A \o <<Ssh!Answer(c, ok)>>
  BY DEF b
<1> HIDE DEF m
<1>8. /\ v7 \o m \in Seq(Ssh!Messages) /\ Ssh!AnsweredOnce(v7 \o m)
      /\ \A d \in CallsOfTerminal : Ssh!Answering(v7 \o m, d) <=> Ssh!Answering(v7, d) \/ Ssh!Answering(m, d)
      /\ ~Ssh!Disconnecting(m) => SshCalm(v7, v7 \o m)
      /\ \A d \in CallsOfTerminal : Ssh!Connecting(m, d) /\ ~Ssh!Answering(v7, d) => Ssh!Connecting(v7 \o m, d)
  BY <1>5, <1>6, <1>7, SshJoins
<1>a. Ssh!Queued'
  BY <1>6, <1>8 DEF Ssh!Queued
<1>b. SshPasses(v7, v7', {c})
  BY <1>5, <1>6, <1>8 DEF SshPasses
<1> QED
  BY <1>5, <1>6, <1>8, <1>9, <1>a, <1>b

\* What the main process says of an attempt that failed, and of one it lets go.
LEMMA SshNews ==
    /\ \A x \in {TRUE, FALSE} : LET m == IF x THEN <<Ssh!Status("error"), Ssh!Ended>> ELSE <<>> IN
          m \in Seq(Ssh!Messages) /\ SshOnlyStatus(m) /\ ~Ssh!Disconnecting(m)
    /\ \A x \in {TRUE, FALSE} : LET m == IF x THEN <<>> ELSE <<Ssh!Status("disconnecting"), Ssh!Ended>> IN
          m \in Seq(Ssh!Messages) /\ SshOnlyStatus(m)
    /\ \A x, y \in Ssh!Statuses : LET m == <<Ssh!Status(x), Ssh!Status(y)>> IN
          m \in Seq(Ssh!Messages) /\ SshOnlyStatus(m) /\ (x # "disconnecting" /\ y # "disconnecting" => ~Ssh!Disconnecting(m))
    /\ \A x \in Ssh!Statuses : LET m == <<Ssh!Status(x)>> IN m \in Seq(Ssh!Messages) /\ SshOnlyStatus(m)
<1>1. \A s \in Ssh!Statuses : Ssh!Status(s) \in Ssh!Messages /\ Ssh!Status(s).kind = "status" /\ Ssh!Status(s).status = s
  BY SshMessages DEF Ssh!Status
<1>2. Ssh!Ended = Ssh!Status("disconnected") /\ {"error", "disconnected", "disconnecting"} \subseteq Ssh!Statuses
  BY DEF Ssh!Ended, Ssh!Statuses
<1>3. ASSUME NEW x \in Ssh!Statuses, NEW y \in Ssh!Statuses
      PROVE  LET m == <<Ssh!Status(x), Ssh!Status(y)>> IN
             m \in Seq(Ssh!Messages) /\ SshOnlyStatus(m) /\ (x # "disconnecting" /\ y # "disconnecting" => ~Ssh!Disconnecting(m))
  <2> DEFINE m == <<Ssh!Status(x), Ssh!Status(y)>>
  <2>1. m \in Seq(Ssh!Messages) /\ DOMAIN m = {1, 2} /\ m[1] = Ssh!Status(x) /\ m[2] = Ssh!Status(y)
    BY <1>1
  <2> HIDE DEF m
  <2>2. SshOnlyStatus(m)
    BY <1>1, <2>1 DEF SshOnlyStatus
  <2>3. x # "disconnecting" /\ y # "disconnecting" => ~Ssh!Disconnecting(m)
    BY <1>1, <2>1 DEF Ssh!Disconnecting, Ssh!Statuses
  <2> QED
    BY <2>1, <2>2, <2>3 DEF m
<1>4. <<>> \in Seq(Ssh!Messages) /\ SshOnlyStatus(<<>>) /\ ~Ssh!Disconnecting(<<>>)
  BY DEF SshOnlyStatus, Ssh!Disconnecting
<1>5. ASSUME NEW x \in Ssh!Statuses PROVE LET m == <<Ssh!Status(x)>> IN m \in Seq(Ssh!Messages) /\ SshOnlyStatus(m)
  <2> DEFINE m == <<Ssh!Status(x)>>
  <2>1. m \in Seq(Ssh!Messages) /\ DOMAIN m = {1} /\ m[1] = Ssh!Status(x)
    BY <1>1
  <2> QED
    BY <1>1, <2>1 DEF SshOnlyStatus
<1>6. LET m == <<Ssh!Status("error"), Ssh!Ended>> IN m \in Seq(Ssh!Messages) /\ SshOnlyStatus(m) /\ ~Ssh!Disconnecting(m)
  BY <1>2, <1>3
<1>7. LET m == <<Ssh!Status("disconnecting"), Ssh!Ended>> IN m \in Seq(Ssh!Messages) /\ SshOnlyStatus(m)
  BY <1>2, <1>3
<1> QED
  BY <1>3, <1>4, <1>5, <1>6, <1>7

LEMMA SshEmptyFirst == \A x : <<>> \o <<x>> = <<x>>
  OBVIOUS

LEMMA SshOnOpenFails ==
    ASSUME Ssh!Inv, NEW a \in Ssh!Attempt, Ssh!OpenFails(a)
    PROVE  Ssh!Inv'
<1> USE SshAssumed DEF Ssh!SshAssumption, Ssh!Inv
<1>1. /\ v1[a] = "opening"
      /\ v1' = [v1 EXCEPT ![a] = "over"] /\ v12' = (v12 \/ ~Ssh!Current(a))
      /\ v2' = v2 /\ v3' = v3 /\ v4' = v4 /\ v5' = v5 /\ v6' = v6 /\ v8' = v8 /\ v9' = v9 /\ v10' = v10 /\ v11' = v11 /\ v13' = v13
  BY DEF Ssh!OpenFails
<1> DEFINE c == v2[a]
<1>2. c # 0 /\ c \in CallsOfTerminal
  BY <1>1 DEF Ssh!Numbered, Ssh!TypeOK
<1>3. v11 \/ (v8[c] = "starting" /\ ~Ssh!Answering(v7, c))
  BY <1>1 DEF Ssh!Awaited
<1>q. Ssh!Queued' /\ (v11 => v7' = <<>>) /\ (v11 \/ (SshPasses(v7, v7', {c}) /\ SshCalm(v7, v7')))
  <2>1. CASE v11
    <3>1. v7' = <<>>
      BY <2>1 DEF Ssh!OpenFails, Ssh!Send
    <3>2. Ssh!Queued'
      BY <3>1 DEF Ssh!Queued, Ssh!AnsweredOnce
    <3> QED
      BY <2>1, <3>1, <3>2
  <2>2. CASE ~v11
    <3> DEFINE A == IF Ssh!Current(a) THEN <<Ssh!Status("error"), Ssh!Ended>> ELSE <<>>
    <3>1. A \in Seq(Ssh!Messages) /\ SshOnlyStatus(A) /\ ~Ssh!Disconnecting(A)
      BY SshNews
    <3>2. Ssh!Send(A \o <<Ssh!Answer(c, FALSE)>>)
      BY DEF Ssh!OpenFails
    <3> HIDE DEF A, c
    <3>3. Ssh!Queued' /\ SshPasses(v7, v7', {c}) /\ SshCalm(v7, v7')
      BY <1>2, <1>3, <2>2, <3>1, <3>2, SshAnswers
    <3> QED
      BY <2>2, <3>3 DEF c
  <2> QED
    BY <2>1, <2>2
<1>t. Ssh!TypeOK'
  <2>1. v1' \in [Ssh!Attempt -> {"new", "opening", "shell", "live", "over"}]
    BY <1>1, <1>2, <1>3, <1>q DEF Ssh!TypeOK
  <2>2. v2' \in [Ssh!Attempt -> CallsOfTerminal \cup {0}]
    BY <1>1, <1>2, <1>3, <1>q DEF Ssh!TypeOK
  <2>3. v3' \in [Ssh!Attempt -> Nat]
    BY <1>1, <1>2, <1>3, <1>q DEF Ssh!TypeOK
  <2>4. v4' \in Nat /\ v5' \in Ssh!Attempt \cup {0} /\ v6' \subseteq Ssh!Attempt
    BY <1>1, <1>2, <1>3, <1>q DEF Ssh!TypeOK
  <2>5. v8' \in [CallsOfTerminal -> {"new", "releasing", "leaving", "closing", "starting", "done"}]
    BY <1>1, <1>2, <1>3, <1>q DEF Ssh!TypeOK
  <2>6. v9' \in {"none", "open", "closed"} /\ v10' \in {"connecting", "connected", "disconnecting", "disconnected", "error"}
    BY <1>1, <1>2, <1>3, <1>q DEF Ssh!TypeOK
  <2>7. {v11', v12', v13'} \subseteq BOOLEAN
    BY <1>1, <1>2, <1>3, <1>q DEF Ssh!TypeOK
  <2> QED
    BY <2>1, <2>2, <2>3, <2>4, <2>5, <2>6, <2>7 DEF Ssh!TypeOK
<1>n. Ssh!Numbered'
  BY <1>1, <1>2, <1>3, <1>q DEF Ssh!TypeOK, Ssh!Numbered
<1>r. Ssh!Registered'
  BY <1>1, <1>2, <1>3, <1>q DEF Ssh!TypeOK, Ssh!Registered, Ssh!Current, Ssh!Numbered, Ssh!Attempt
<1>w. Ssh!Awaited'
  <2> SUFFICES ASSUME ~v11' PROVE Ssh!Awaited'
    BY DEF Ssh!Awaited
  <2>1. ASSUME NEW d \in CallsOfTerminal
        PROVE  /\ Ssh!Answering(v7', d) => v8'[d] \notin {"new", "done"}
               /\ v9' = "none" => v8'[d] = "new"
               /\ v8'[d] \notin {"starting", "done"} => \A b \in Ssh!Attempt : v2'[b] # d
    BY <1>1, <1>2, <1>3, <1>q DEF Ssh!TypeOK, Ssh!Awaited, SshPasses
  <2>2. ASSUME NEW b \in Ssh!Attempt, v1'[b] \in {"opening", "shell"}
        PROVE  v8'[v2'[b]] = "starting" /\ ~Ssh!Answering(v7', v2'[b])
    BY <2>2, <1>1, <1>2, <1>3, <1>q DEF Ssh!TypeOK, Ssh!Awaited, SshPasses, Ssh!Numbered
  <2> QED
    BY <2>1, <2>2 DEF Ssh!Awaited
<1>c. Ssh!Closed'
  BY <1>1, <1>2, <1>3, <1>q DEF Ssh!TypeOK, Ssh!Closed, Ssh!Current
<1>s. Ssh!Shown'
  BY <1>1, <1>2, <1>3, <1>q DEF Ssh!TypeOK, Ssh!Shown, Ssh!Registered, SshCalm, Ssh!Numbered,
     Ssh!Attempt
<1> QED
  BY <1>q, <1>t, <1>n, <1>r, <1>w, <1>c, <1>s

LEMMA SshOnShellFails ==
    ASSUME Ssh!Inv, NEW a \in Ssh!Attempt, Ssh!ShellFails(a)
    PROVE  Ssh!Inv'
<1> USE SshAssumed DEF Ssh!SshAssumption, Ssh!Inv
<1>1. /\ v1[a] = "shell"
      /\ v1' = [v1 EXCEPT ![a] = "over"] /\ v12' = (v12 \/ ~Ssh!Current(a))
      /\ v5' = (IF v5 = a THEN 0 ELSE v5) /\ v6' = v6 \ {a}
      /\ v2' = v2 /\ v3' = v3 /\ v4' = v4 /\ v8' = v8 /\ v9' = v9 /\ v10' = v10 /\ v11' = v11 /\ v13' = v13
  BY DEF Ssh!ShellFails
<1> DEFINE c == v2[a]
<1>2. c # 0 /\ c \in CallsOfTerminal
  BY <1>1 DEF Ssh!Numbered, Ssh!TypeOK
<1>3. v11 \/ (v8[c] = "starting" /\ ~Ssh!Answering(v7, c))
  BY <1>1 DEF Ssh!Awaited
<1>q. Ssh!Queued' /\ (v11 => v7' = <<>>) /\ (v11 \/ (SshPasses(v7, v7', {c}) /\ SshCalm(v7, v7')))
  <2>1. CASE v11
    <3>1. v7' = <<>>
      BY <2>1 DEF Ssh!ShellFails, Ssh!Send
    <3>2. Ssh!Queued'
      BY <3>1 DEF Ssh!Queued, Ssh!AnsweredOnce
    <3> QED
      BY <2>1, <3>1, <3>2
  <2>2. CASE ~v11
    <3> DEFINE A == IF Ssh!Current(a) THEN <<Ssh!Status("error"), Ssh!Ended>> ELSE <<>>
    <3>1. A \in Seq(Ssh!Messages) /\ SshOnlyStatus(A) /\ ~Ssh!Disconnecting(A)
      BY SshNews
    <3>2. Ssh!Send(A \o <<Ssh!Answer(c, FALSE)>>)
      BY DEF Ssh!ShellFails
    <3> HIDE DEF A, c
    <3>3. Ssh!Queued' /\ SshPasses(v7, v7', {c}) /\ SshCalm(v7, v7')
      BY <1>2, <1>3, <2>2, <3>1, <3>2, SshAnswers
    <3> QED
      BY <2>2, <3>3 DEF c
  <2> QED
    BY <2>1, <2>2
<1>t. Ssh!TypeOK'
  <2>1. v1' \in [Ssh!Attempt -> {"new", "opening", "shell", "live", "over"}]
    BY <1>1, <1>2, <1>3, <1>q DEF Ssh!TypeOK
  <2>2. v2' \in [Ssh!Attempt -> CallsOfTerminal \cup {0}]
    BY <1>1, <1>2, <1>3, <1>q DEF Ssh!TypeOK
  <2>3. v3' \in [Ssh!Attempt -> Nat]
    BY <1>1, <1>2, <1>3, <1>q DEF Ssh!TypeOK
  <2>4. v4' \in Nat /\ v5' \in Ssh!Attempt \cup {0} /\ v6' \subseteq Ssh!Attempt
    BY <1>1, <1>2, <1>3, <1>q DEF Ssh!TypeOK
  <2>5. v8' \in [CallsOfTerminal -> {"new", "releasing", "leaving", "closing", "starting", "done"}]
    BY <1>1, <1>2, <1>3, <1>q DEF Ssh!TypeOK
  <2>6. v9' \in {"none", "open", "closed"} /\ v10' \in {"connecting", "connected", "disconnecting", "disconnected", "error"}
    BY <1>1, <1>2, <1>3, <1>q DEF Ssh!TypeOK
  <2>7. {v11', v12', v13'} \subseteq BOOLEAN
    BY <1>1, <1>2, <1>3, <1>q DEF Ssh!TypeOK
  <2> QED
    BY <2>1, <2>2, <2>3, <2>4, <2>5, <2>6, <2>7 DEF Ssh!TypeOK
<1>n. Ssh!Numbered'
  BY <1>1, <1>2, <1>3, <1>q DEF Ssh!TypeOK, Ssh!Numbered
<1>r. Ssh!Registered'
  BY <1>1, <1>2, <1>3, <1>q DEF Ssh!TypeOK, Ssh!Registered, Ssh!Current, Ssh!Numbered, Ssh!Attempt
<1>w. Ssh!Awaited'
  <2> SUFFICES ASSUME ~v11' PROVE Ssh!Awaited'
    BY DEF Ssh!Awaited
  <2>1. ASSUME NEW d \in CallsOfTerminal
        PROVE  /\ Ssh!Answering(v7', d) => v8'[d] \notin {"new", "done"}
               /\ v9' = "none" => v8'[d] = "new"
               /\ v8'[d] \notin {"starting", "done"} => \A b \in Ssh!Attempt : v2'[b] # d
    BY <1>1, <1>2, <1>3, <1>q DEF Ssh!TypeOK, Ssh!Awaited, SshPasses
  <2>2. ASSUME NEW b \in Ssh!Attempt, v1'[b] \in {"opening", "shell"}
        PROVE  v8'[v2'[b]] = "starting" /\ ~Ssh!Answering(v7', v2'[b])
    BY <2>2, <1>1, <1>2, <1>3, <1>q DEF Ssh!TypeOK, Ssh!Awaited, SshPasses, Ssh!Numbered
  <2> QED
    BY <2>1, <2>2 DEF Ssh!Awaited
<1>c. Ssh!Closed'
  BY <1>1, <1>2, <1>3, <1>q DEF Ssh!TypeOK, Ssh!Closed, Ssh!Current
<1>s. Ssh!Shown'
  BY <1>1, <1>2, <1>3, <1>q DEF Ssh!TypeOK, Ssh!Shown, Ssh!Registered, SshCalm, Ssh!Numbered,
     Ssh!Attempt
<1> QED
  BY <1>q, <1>t, <1>n, <1>r, <1>w, <1>c, <1>s

LEMMA SshOnRetiredOpened ==
    ASSUME Ssh!Inv, NEW a \in Ssh!Attempt, Ssh!Opened(a), ~Ssh!Current(a)
    PROVE  Ssh!Inv'
<1> USE SshAssumed DEF Ssh!SshAssumption, Ssh!Inv
<1>1. /\ v1[a] = "opening"
      /\ v1' = [v1 EXCEPT ![a] = "over"]
      /\ v2' = v2 /\ v3' = v3 /\ v4' = v4 /\ v5' = v5 /\ v6' = v6 /\ v8' = v8 /\ v9' = v9 /\ v10' = v10 /\ v11' = v11 /\ v12' = v12 /\ v13' = v13
  BY DEF Ssh!Opened
<1> DEFINE c == v2[a]
<1>2. c # 0 /\ c \in CallsOfTerminal
  BY <1>1 DEF Ssh!Numbered, Ssh!TypeOK
<1>3. v11 \/ (v8[c] = "starting" /\ ~Ssh!Answering(v7, c))
  BY <1>1 DEF Ssh!Awaited
<1>q. Ssh!Queued' /\ (v11 => v7' = <<>>) /\ (v11 \/ (SshPasses(v7, v7', {c}) /\ SshCalm(v7, v7')))
  <2>1. CASE v11
    <3>1. v7' = <<>>
      BY <2>1 DEF Ssh!Opened, Ssh!Send
    <3>2. Ssh!Queued'
      BY <3>1 DEF Ssh!Queued, Ssh!AnsweredOnce
    <3> QED
      BY <2>1, <3>1, <3>2
  <2>2. CASE ~v11
    <3> DEFINE A == <<>>
    <3>1. A \in Seq(Ssh!Messages) /\ SshOnlyStatus(A) /\ ~Ssh!Disconnecting(A)
      BY DEF SshOnlyStatus, Ssh!Disconnecting
    <3>2. Ssh!Send(A \o <<Ssh!Answer(c, TRUE)>>)
      BY SshEmptyFirst DEF Ssh!Opened
    <3> HIDE DEF A, c
    <3>3. Ssh!Queued' /\ SshPasses(v7, v7', {c}) /\ SshCalm(v7, v7')
      BY <1>2, <1>3, <2>2, <3>1, <3>2, SshAnswers
    <3> QED
      BY <2>2, <3>3 DEF c
  <2> QED
    BY <2>1, <2>2
<1>t. Ssh!TypeOK'
  <2>1. v1' \in [Ssh!Attempt -> {"new", "opening", "shell", "live", "over"}]
    BY <1>1, <1>2, <1>3, <1>q DEF Ssh!TypeOK
  <2>2. v2' \in [Ssh!Attempt -> CallsOfTerminal \cup {0}]
    BY <1>1, <1>2, <1>3, <1>q DEF Ssh!TypeOK
  <2>3. v3' \in [Ssh!Attempt -> Nat]
    BY <1>1, <1>2, <1>3, <1>q DEF Ssh!TypeOK
  <2>4. v4' \in Nat /\ v5' \in Ssh!Attempt \cup {0} /\ v6' \subseteq Ssh!Attempt
    BY <1>1, <1>2, <1>3, <1>q DEF Ssh!TypeOK
  <2>5. v8' \in [CallsOfTerminal -> {"new", "releasing", "leaving", "closing", "starting", "done"}]
    BY <1>1, <1>2, <1>3, <1>q DEF Ssh!TypeOK
  <2>6. v9' \in {"none", "open", "closed"} /\ v10' \in {"connecting", "connected", "disconnecting", "disconnected", "error"}
    BY <1>1, <1>2, <1>3, <1>q DEF Ssh!TypeOK
  <2>7. {v11', v12', v13'} \subseteq BOOLEAN
    BY <1>1, <1>2, <1>3, <1>q DEF Ssh!TypeOK
  <2> QED
    BY <2>1, <2>2, <2>3, <2>4, <2>5, <2>6, <2>7 DEF Ssh!TypeOK
<1>n. Ssh!Numbered'
  BY <1>1, <1>2, <1>3, <1>q DEF Ssh!TypeOK, Ssh!Numbered
<1>r. Ssh!Registered'
  BY <1>1, <1>2, <1>3, <1>q DEF Ssh!TypeOK, Ssh!Registered, Ssh!Current, Ssh!Numbered, Ssh!Attempt
<1>w. Ssh!Awaited'
  <2> SUFFICES ASSUME ~v11' PROVE Ssh!Awaited'
    BY DEF Ssh!Awaited
  <2>1. ASSUME NEW d \in CallsOfTerminal
        PROVE  /\ Ssh!Answering(v7', d) => v8'[d] \notin {"new", "done"}
               /\ v9' = "none" => v8'[d] = "new"
               /\ v8'[d] \notin {"starting", "done"} => \A b \in Ssh!Attempt : v2'[b] # d
    BY <1>1, <1>2, <1>3, <1>q DEF Ssh!TypeOK, Ssh!Awaited, SshPasses
  <2>2. ASSUME NEW b \in Ssh!Attempt, v1'[b] \in {"opening", "shell"}
        PROVE  v8'[v2'[b]] = "starting" /\ ~Ssh!Answering(v7', v2'[b])
    BY <2>2, <1>1, <1>2, <1>3, <1>q DEF Ssh!TypeOK, Ssh!Awaited, SshPasses, Ssh!Numbered
  <2> QED
    BY <2>1, <2>2 DEF Ssh!Awaited
<1>c. Ssh!Closed'
  BY <1>1, <1>2, <1>3, <1>q DEF Ssh!TypeOK, Ssh!Closed, Ssh!Current
<1>s. Ssh!Shown'
  BY <1>1, <1>2, <1>3, <1>q DEF Ssh!TypeOK, Ssh!Shown, Ssh!Registered, SshCalm, Ssh!Numbered,
     Ssh!Attempt
<1> QED
  BY <1>q, <1>t, <1>n, <1>r, <1>w, <1>c, <1>s

LEMMA SshOnOpened ==
    ASSUME Ssh!Inv, NEW a \in Ssh!Attempt, Ssh!Opened(a), Ssh!Current(a)
    PROVE  Ssh!Inv'
<1> USE SshAssumed DEF Ssh!SshAssumption, Ssh!Inv
<1>1. /\ v1[a] = "opening"
      /\ v1' = [v1 EXCEPT ![a] = "shell"] /\ v5' = a /\ v6' = v6 \cup {a}
      /\ v2' = v2 /\ v3' = v3 /\ v4' = v4 /\ v8' = v8 /\ v9' = v9 /\ v10' = v10 /\ v11' = v11 /\ v12' = v12 /\ v13' = v13
  BY DEF Ssh!Opened
<1> DEFINE c == v2[a]
<1>2. c # 0 /\ c \in CallsOfTerminal
  BY <1>1 DEF Ssh!Numbered, Ssh!TypeOK
<1>3. v11 \/ (v8[c] = "starting" /\ ~Ssh!Answering(v7, c))
  BY <1>1 DEF Ssh!Awaited
<1>q. v7' = v7 /\ Ssh!Queued'
  BY DEF Ssh!Opened, Ssh!Queued
<1>t. Ssh!TypeOK'
  <2>1. v1' \in [Ssh!Attempt -> {"new", "opening", "shell", "live", "over"}]
    BY <1>1, <1>2, <1>3, <1>q DEF Ssh!TypeOK
  <2>2. v2' \in [Ssh!Attempt -> CallsOfTerminal \cup {0}]
    BY <1>1, <1>2, <1>3, <1>q DEF Ssh!TypeOK
  <2>3. v3' \in [Ssh!Attempt -> Nat]
    BY <1>1, <1>2, <1>3, <1>q DEF Ssh!TypeOK
  <2>4. v4' \in Nat /\ v5' \in Ssh!Attempt \cup {0} /\ v6' \subseteq Ssh!Attempt
    BY <1>1, <1>2, <1>3, <1>q DEF Ssh!TypeOK
  <2>5. v8' \in [CallsOfTerminal -> {"new", "releasing", "leaving", "closing", "starting", "done"}]
    BY <1>1, <1>2, <1>3, <1>q DEF Ssh!TypeOK
  <2>6. v9' \in {"none", "open", "closed"} /\ v10' \in {"connecting", "connected", "disconnecting", "disconnected", "error"}
    BY <1>1, <1>2, <1>3, <1>q DEF Ssh!TypeOK
  <2>7. {v11', v12', v13'} \subseteq BOOLEAN
    BY <1>1, <1>2, <1>3, <1>q DEF Ssh!TypeOK
  <2> QED
    BY <2>1, <2>2, <2>3, <2>4, <2>5, <2>6, <2>7 DEF Ssh!TypeOK
<1>n. Ssh!Numbered'
  BY <1>1, <1>2, <1>3, <1>q DEF Ssh!TypeOK, Ssh!Numbered
<1>r. Ssh!Registered'
  BY <1>1, <1>2, <1>3, <1>q DEF Ssh!TypeOK, Ssh!Registered, Ssh!Current, Ssh!Numbered, Ssh!Attempt
<1>w. Ssh!Awaited'
  <2> SUFFICES ASSUME ~v11' PROVE Ssh!Awaited'
    BY DEF Ssh!Awaited
  <2>1. ASSUME NEW d \in CallsOfTerminal
        PROVE  /\ Ssh!Answering(v7', d) => v8'[d] \notin {"new", "done"}
               /\ v9' = "none" => v8'[d] = "new"
               /\ v8'[d] \notin {"starting", "done"} => \A b \in Ssh!Attempt : v2'[b] # d
    BY <1>1, <1>2, <1>3, <1>q DEF Ssh!TypeOK, Ssh!Awaited, SshPasses
  <2>2. ASSUME NEW b \in Ssh!Attempt, v1'[b] \in {"opening", "shell"}
        PROVE  v8'[v2'[b]] = "starting" /\ ~Ssh!Answering(v7', v2'[b])
    BY <2>2, <1>1, <1>2, <1>3, <1>q DEF Ssh!TypeOK, Ssh!Awaited, SshPasses, Ssh!Numbered
  <2> QED
    BY <2>1, <2>2 DEF Ssh!Awaited
<1>c. Ssh!Closed'
  BY <1>1, <1>2, <1>3, <1>q DEF Ssh!TypeOK, Ssh!Closed, Ssh!Current
<1>s. Ssh!Shown'
  BY <1>1, <1>2, <1>3, <1>q DEF Ssh!TypeOK, Ssh!Shown, Ssh!Registered, SshCalm, Ssh!Numbered,
     Ssh!Attempt
<1> QED
  BY <1>q, <1>t, <1>n, <1>r, <1>w, <1>c, <1>s

LEMMA SshOneThenOne ==
    ASSUME NEW x \in Ssh!Messages, NEW y \in Ssh!Messages
    PROVE  <<x>> \o <<y>> = <<x, y>>
<1>1. <<x>> \in Seq(Ssh!Messages) /\ <<y>> \in Seq(Ssh!Messages) /\ Len(<<x>>) = 1 /\ Len(<<y>>) = 1
  OBVIOUS
<1>2. <<x>> \o <<y>> = [i \in 1 .. 2 |-> IF i <= 1 THEN <<x>>[i] ELSE <<y>>[i - 1]]
  BY <1>1
<1>3. \A i \in 1 .. 2 : i = 1 \/ i = 2
  OBVIOUS
<1>4. <<x, y>> = [i \in 1 .. 2 |-> IF i <= 1 THEN <<x>>[i] ELSE <<y>>[i - 1]]
  BY <1>3
<1> QED
  BY <1>2, <1>4

LEMMA SshOnShellOpens ==
    ASSUME Ssh!Inv, NEW a \in Ssh!Attempt, Ssh!ShellOpens(a)
    PROVE  Ssh!Inv'
<1> USE SshAssumed DEF Ssh!SshAssumption, Ssh!Inv
<1>1. /\ v1[a] = "shell"
      /\ v1' = [v1 EXCEPT ![a] = "live"] /\ a \in v6
      /\ v2' = v2 /\ v3' = v3 /\ v4' = v4 /\ v5' = v5 /\ v6' = v6 /\ v8' = v8 /\ v9' = v9 /\ v10' = v10 /\ v11' = v11 /\ v12' = v12 /\ v13' = v13
  BY DEF Ssh!ShellOpens
<1> DEFINE c == v2[a]
<1>2. c # 0 /\ c \in CallsOfTerminal
  BY <1>1 DEF Ssh!Numbered, Ssh!TypeOK
<1>3. v11 \/ (v8[c] = "starting" /\ ~Ssh!Answering(v7, c))
  BY <1>1 DEF Ssh!Awaited
<1>4. a = v5 /\ ~v11
  BY <1>1 DEF Ssh!Registered, Ssh!Attempt
<1>q. Ssh!Queued' /\ SshPasses(v7, v7', {c}) /\ SshCalm(v7, v7') /\ Ssh!Connecting(v7', c)
  <2> DEFINE A == <<Ssh!Status("connected")>>
  <2>1. A \in Seq(Ssh!Messages) /\ SshOnlyStatus(A) /\ ~Ssh!Disconnecting(A) /\ DOMAIN A = {1} /\ A[1] = Ssh!Status("connected")
    BY SshMessages DEF Ssh!Statuses, SshOnlyStatus, Ssh!Disconnecting, Ssh!Status
  <2>2. Ssh!Send(A \o <<Ssh!Answer(c, TRUE)>>)
    <3>1. Ssh!Status("connected") \in Ssh!Messages /\ Ssh!Answer(c, TRUE) \in Ssh!Messages
      BY <1>2, SshMessages DEF Ssh!Statuses
    <3>2. <<Ssh!Status("connected")>> \o <<Ssh!Answer(c, TRUE)>> = <<Ssh!Status("connected"), Ssh!Answer(c, TRUE)>>
      BY <3>1, SshOneThenOne
    <3> QED
      BY <3>2 DEF Ssh!ShellOpens
  <2>3. Ssh!Connecting(A \o <<Ssh!Answer(c, TRUE)>>, c)
    <3>1. Ssh!Answer(c, TRUE) \in Ssh!Messages /\ Ssh!Answer(c, TRUE).kind = "answer"
      BY <1>2, SshMessages
    <3>2. A \o <<Ssh!Answer(c, TRUE)>> = <<Ssh!Status("connected"), Ssh!Answer(c, TRUE)>>
      <4>1. Ssh!Status("connected") \in Ssh!Messages /\ Ssh!Answer(c, TRUE) \in Ssh!Messages
        BY <1>2, SshMessages DEF Ssh!Statuses
      <4> QED
        BY <4>1, SshOneThenOne
    <3> DEFINE m == <<Ssh!Status("connected"), Ssh!Answer(c, TRUE)>>
    <3>3. DOMAIN m = {1, 2} /\ m[1] = Ssh!Status("connected") /\ m[2] = Ssh!Answer(c, TRUE)
      OBVIOUS
    <3>4. Ssh!Answer(c, TRUE) # Ssh!Status("disconnecting")
      <4>1. Ssh!Status("disconnecting").kind = "status"
        BY SshMessages DEF Ssh!Statuses
      <4> QED
        BY <3>1, <4>1
    <3> HIDE DEF m
    <3>5. Ssh!Connecting(m, c)
      <4>1. 1 \in DOMAIN m /\ m[1] = Ssh!Status("connected")
        BY <3>3
      <4>2. \A i \in DOMAIN m : i > 1 => m[i] # Ssh!Status("disconnecting")
        <5>1. \A i \in DOMAIN m : i = 1 \/ i = 2
          BY <3>3
        <5>2. m[2] # Ssh!Status("disconnecting")
          BY <3>3, <3>4
        <5> QED
          BY <5>1, <5>2
      <4>3. \A i \in DOMAIN m : i < 1 => ~Ssh!IsAnswer(m[i], c)
        BY <3>3
      <4> QED
        BY <4>1, <4>2, <4>3 DEF Ssh!Connecting
    <3> QED
      BY <3>2, <3>5 DEF m
  <2> HIDE DEF A, c
  <2>4. Ssh!Queued' /\ SshPasses(v7, v7', {c}) /\ SshCalm(v7, v7') /\ Ssh!Connecting(v7', c)
    BY <1>2, <1>3, <1>4, <2>1, <2>2, <2>3, SshAnswers
  <2> QED
    BY <2>4 DEF c
<1>t. Ssh!TypeOK'
  <2>1. v1' \in [Ssh!Attempt -> {"new", "opening", "shell", "live", "over"}]
    BY <1>1, <1>2, <1>3, <1>q, <1>4 DEF Ssh!TypeOK
  <2>2. v2' \in [Ssh!Attempt -> CallsOfTerminal \cup {0}]
    BY <1>1, <1>2, <1>3, <1>q, <1>4 DEF Ssh!TypeOK
  <2>3. v3' \in [Ssh!Attempt -> Nat]
    BY <1>1, <1>2, <1>3, <1>q, <1>4 DEF Ssh!TypeOK
  <2>4. v4' \in Nat /\ v5' \in Ssh!Attempt \cup {0} /\ v6' \subseteq Ssh!Attempt
    BY <1>1, <1>2, <1>3, <1>q, <1>4 DEF Ssh!TypeOK
  <2>5. v8' \in [CallsOfTerminal -> {"new", "releasing", "leaving", "closing", "starting", "done"}]
    BY <1>1, <1>2, <1>3, <1>q, <1>4 DEF Ssh!TypeOK
  <2>6. v9' \in {"none", "open", "closed"} /\ v10' \in {"connecting", "connected", "disconnecting", "disconnected", "error"}
    BY <1>1, <1>2, <1>3, <1>q, <1>4 DEF Ssh!TypeOK
  <2>7. {v11', v12', v13'} \subseteq BOOLEAN
    BY <1>1, <1>2, <1>3, <1>q, <1>4 DEF Ssh!TypeOK
  <2> QED
    BY <2>1, <2>2, <2>3, <2>4, <2>5, <2>6, <2>7 DEF Ssh!TypeOK
<1>n. Ssh!Numbered'
  BY <1>1, <1>2, <1>3, <1>q, <1>4 DEF Ssh!TypeOK, Ssh!Numbered
<1>r. Ssh!Registered'
  BY <1>1, <1>2, <1>3, <1>q, <1>4 DEF Ssh!TypeOK, Ssh!Registered, Ssh!Current, Ssh!Numbered,
     Ssh!Attempt
<1>w. Ssh!Awaited'
  <2> SUFFICES ASSUME ~v11' PROVE Ssh!Awaited'
    BY DEF Ssh!Awaited
  <2>1. ASSUME NEW d \in CallsOfTerminal
        PROVE  /\ Ssh!Answering(v7', d) => v8'[d] \notin {"new", "done"}
               /\ v9' = "none" => v8'[d] = "new"
               /\ v8'[d] \notin {"starting", "done"} => \A b \in Ssh!Attempt : v2'[b] # d
    BY <1>1, <1>2, <1>3, <1>q, <1>4 DEF Ssh!TypeOK, Ssh!Awaited, SshPasses
  <2>2. ASSUME NEW b \in Ssh!Attempt, v1'[b] \in {"opening", "shell"}
        PROVE  v8'[v2'[b]] = "starting" /\ ~Ssh!Answering(v7', v2'[b])
    BY <2>2, <1>1, <1>2, <1>3, <1>q, <1>4 DEF Ssh!TypeOK, Ssh!Awaited, SshPasses, Ssh!Numbered
  <2> QED
    BY <2>1, <2>2 DEF Ssh!Awaited
<1>c. Ssh!Closed'
  BY <1>1, <1>2, <1>3, <1>q, <1>4 DEF Ssh!TypeOK, Ssh!Closed, Ssh!Current
<1>s. Ssh!Shown'
  BY <1>1, <1>2, <1>3, <1>q, <1>4 DEF Ssh!TypeOK, Ssh!Shown, Ssh!Registered, SshCalm, Ssh!Numbered,
     Ssh!Attempt
<1> QED
  BY <1>q, <1>t, <1>n, <1>r, <1>w, <1>c, <1>s

LEMMA SshOnLost ==
    ASSUME Ssh!Inv, NEW a \in Ssh!Attempt, Ssh!Lost(a)
    PROVE  Ssh!Inv'
<1> USE SshAssumed DEF Ssh!SshAssumption, Ssh!Inv
<1>1. /\ a \in v6 /\ v5 = a /\ v1' = [v1 EXCEPT ![a] = IF v1[a] = "live" THEN "over" ELSE v1[a]]
      /\ v5' = 0 /\ v6' = v6 \ {a}
      /\ v2' = v2 /\ v3' = v3 /\ v4' = v4 /\ v8' = v8 /\ v9' = v9 /\ v10' = v10 /\ v11' = v11 /\ v12' = v12 /\ v13' = v13
  BY DEF Ssh!Lost
<1>2. ~v11
  BY <1>1 DEF Ssh!Registered, Ssh!Attempt
<1>q. Ssh!Queued' /\ SshPasses(v7, v7', {})
  <2>1. PICK s \in {"error", "disconnected"} : Ssh!Send(<<Ssh!Status(s), Ssh!Status("disconnected")>>)
    BY DEF Ssh!Lost, Ssh!Ended
  <2> DEFINE m == <<Ssh!Status(s), Ssh!Status("disconnected")>>
  <2>2. m \in Seq(Ssh!Messages) /\ SshOnlyStatus(m)
    BY SshNews DEF Ssh!Statuses
  <2> HIDE DEF m
  <2> QED
    BY <1>2, <2>1, <2>2, SshSays DEF m
<1>t. Ssh!TypeOK'
  <2>1. v1' \in [Ssh!Attempt -> {"new", "opening", "shell", "live", "over"}]
    BY <1>1, <1>2, <1>q DEF Ssh!TypeOK
  <2>2. v2' \in [Ssh!Attempt -> CallsOfTerminal \cup {0}]
    BY <1>1, <1>2, <1>q DEF Ssh!TypeOK
  <2>3. v3' \in [Ssh!Attempt -> Nat]
    BY <1>1, <1>2, <1>q DEF Ssh!TypeOK
  <2>4. v4' \in Nat /\ v5' \in Ssh!Attempt \cup {0} /\ v6' \subseteq Ssh!Attempt
    BY <1>1, <1>2, <1>q DEF Ssh!TypeOK
  <2>5. v8' \in [CallsOfTerminal -> {"new", "releasing", "leaving", "closing", "starting", "done"}]
    BY <1>1, <1>2, <1>q DEF Ssh!TypeOK
  <2>6. v9' \in {"none", "open", "closed"} /\ v10' \in {"connecting", "connected", "disconnecting", "disconnected", "error"}
    BY <1>1, <1>2, <1>q DEF Ssh!TypeOK
  <2>7. {v11', v12', v13'} \subseteq BOOLEAN
    BY <1>1, <1>2, <1>q DEF Ssh!TypeOK
  <2> QED
    BY <2>1, <2>2, <2>3, <2>4, <2>5, <2>6, <2>7 DEF Ssh!TypeOK
<1>n. Ssh!Numbered'
  BY <1>1, <1>2, <1>q DEF Ssh!TypeOK, Ssh!Numbered
<1>r. Ssh!Registered'
  BY <1>1, <1>2, <1>q DEF Ssh!TypeOK, Ssh!Registered, Ssh!Current, Ssh!Numbered, Ssh!Attempt
<1>w. Ssh!Awaited'
  <2> SUFFICES ASSUME ~v11' PROVE Ssh!Awaited'
    BY DEF Ssh!Awaited
  <2>1. ASSUME NEW d \in CallsOfTerminal
        PROVE  /\ Ssh!Answering(v7', d) => v8'[d] \notin {"new", "done"}
               /\ v9' = "none" => v8'[d] = "new"
               /\ v8'[d] \notin {"starting", "done"} => \A b \in Ssh!Attempt : v2'[b] # d
    BY <1>1, <1>2, <1>q DEF Ssh!TypeOK, Ssh!Awaited, SshPasses
  <2>2. ASSUME NEW b \in Ssh!Attempt, v1'[b] \in {"opening", "shell"}
        PROVE  v8'[v2'[b]] = "starting" /\ ~Ssh!Answering(v7', v2'[b])
    BY <2>2, <1>1, <1>2, <1>q DEF Ssh!TypeOK, Ssh!Awaited, SshPasses, Ssh!Numbered
  <2> QED
    BY <2>1, <2>2 DEF Ssh!Awaited
<1>c. Ssh!Closed'
  BY <1>1, <1>2, <1>q DEF Ssh!TypeOK, Ssh!Closed, Ssh!Current
<1>s. Ssh!Shown'
  BY <1>1, <1>2, <1>q DEF Ssh!TypeOK, Ssh!Shown, Ssh!Registered, SshCalm, Ssh!Numbered, Ssh!Attempt
<1> QED
  BY <1>q, <1>t, <1>n, <1>r, <1>w, <1>c, <1>s

LEMMA SshAdds ==
    ASSUME NEW q \in Seq(Ssh!Messages), Ssh!AnsweredOnce(q), NEW m \in Seq(Ssh!Messages), SshOnlyStatus(m)
    PROVE  /\ q \o m \in Seq(Ssh!Messages) /\ Ssh!AnsweredOnce(q \o m)
           /\ \A c \in CallsOfTerminal : Ssh!Answering(q \o m, c) <=> Ssh!Answering(q, c)
<1>1. Ssh!AnsweredOnce(m) /\ \A c \in CallsOfTerminal : ~Ssh!Answering(m, c)
  BY SshPlain
<1>2. SshOthersThan(q, m)
  BY <1>1 DEF SshOthersThan
<1>3. /\ q \o m \in Seq(Ssh!Messages) /\ Ssh!AnsweredOnce(q \o m)
      /\ \A c \in CallsOfTerminal : Ssh!Answering(q \o m, c) <=> Ssh!Answering(q, c) \/ Ssh!Answering(m, c)
  BY <1>1, <1>2, SshJoins
<1> QED
  BY <1>1, <1>3

LEMMA SshPlainJoins ==
    ASSUME NEW A \in Seq(Ssh!Messages), NEW B \in Seq(Ssh!Messages), SshOnlyStatus(A), SshOnlyStatus(B)
    PROVE  A \o B \in Seq(Ssh!Messages) /\ SshOnlyStatus(A \o B)
<1>1. /\ A \o B \in Seq(Ssh!Messages) /\ Len(A) \in Nat
      /\ \A i \in DOMAIN A : (A \o B)[i] = A[i]
      /\ \A i \in DOMAIN B : (A \o B)[Len(A) + i] = B[i]
      /\ \A i \in DOMAIN (A \o B) : i \in DOMAIN A \/ (i > Len(A) /\ i - Len(A) \in DOMAIN B)
      /\ DOMAIN (A \o B) \subseteq Nat
  BY JoinedSeqs
<1> DEFINE p == A \o B
<1> HIDE DEF p
<1>2. ASSUME NEW i \in DOMAIN p PROVE p[i].kind = "status"
  <2>1. CASE i \in DOMAIN A
    BY <1>1, <2>1 DEF SshOnlyStatus, p
  <2>2. CASE i \notin DOMAIN A
    <3>1. i > Len(A) /\ i - Len(A) \in DOMAIN B /\ i \in Nat
      BY <1>1, <2>2 DEF p
    <3>2. Len(A) + (i - Len(A)) = i
      BY <1>1, <3>1
    <3>3. p[i] = B[i - Len(A)]
      BY <1>1, <3>1, <3>2 DEF p
    <3> QED
      BY <3>1, <3>3 DEF SshOnlyStatus
  <2> QED
    BY <2>1, <2>2
<1> QED
  BY <1>1, <1>2 DEF SshOnlyStatus, p

LEMMA SshOnReconnect ==
    ASSUME Ssh!Inv, NEW c \in CallsOfTerminal, Ssh!Reconnect(c)
    PROVE  Ssh!Inv'
<1> USE SshAssumed DEF Ssh!SshAssumption, Ssh!Inv
<1>1. /\ ~v11 /\ v8[c] = "new" /\ v9 = "open" /\ v8' = [v8 EXCEPT ![c] = "releasing"]
      /\ v4' = v4 + 1 /\ v5' = 0 /\ v6' = v6 \ {v5}
      /\ v1' = v1 /\ v2' = v2 /\ v3' = v3 /\ v9' = v9 /\ v10' = v10 /\ v11' = v11 /\ v12' = v12 /\ v13' = v13
  BY DEF Ssh!Reconnect, Ssh!Next1, Ssh!LetGo
<1>2. /\ v6' = {} /\ v4 \in Nat
      /\ \A b \in Ssh!Attempt : v3[b] \in Nat /\ v3[b] <= v4
      /\ \A b \in Ssh!Attempt : v4' # v3[b]
  BY <1>1 DEF Ssh!Registered, Ssh!Numbered, Ssh!TypeOK
<1>q. Ssh!Queued' /\ SshPasses(v7, v7', {c})
  <2> DEFINE A == IF v5 = 0 THEN <<>> ELSE <<Ssh!Status("disconnecting"), Ssh!Ended>>
  <2>1. A \in Seq(Ssh!Messages) /\ SshOnlyStatus(A)
    BY SshNews
  <2>2. Ssh!Send(A \o <<Ssh!Answer(c, TRUE)>>)
    BY DEF Ssh!Reconnect, Ssh!LetGo
  <2>3. ~Ssh!Answering(v7, c)
    BY <1>1 DEF Ssh!Awaited
  <2> HIDE DEF A
  <2> QED
    BY <1>1, <2>1, <2>2, <2>3, SshAnswers
<1>t. Ssh!TypeOK'
  <2>1. v1' \in [Ssh!Attempt -> {"new", "opening", "shell", "live", "over"}]
    BY <1>1, <1>2, <1>q DEF Ssh!TypeOK
  <2>2. v2' \in [Ssh!Attempt -> CallsOfTerminal \cup {0}]
    BY <1>1, <1>2, <1>q DEF Ssh!TypeOK
  <2>3. v3' \in [Ssh!Attempt -> Nat]
    BY <1>1, <1>2, <1>q DEF Ssh!TypeOK
  <2>4. v4' \in Nat /\ v5' \in Ssh!Attempt \cup {0} /\ v6' \subseteq Ssh!Attempt
    BY <1>1, <1>2, <1>q DEF Ssh!TypeOK
  <2>5. v8' \in [CallsOfTerminal -> {"new", "releasing", "leaving", "closing", "starting", "done"}]
    BY <1>1, <1>2, <1>q DEF Ssh!TypeOK
  <2>6. v9' \in {"none", "open", "closed"} /\ v10' \in {"connecting", "connected", "disconnecting", "disconnected", "error"}
    BY <1>1, <1>2, <1>q DEF Ssh!TypeOK
  <2>7. {v11', v12', v13'} \subseteq BOOLEAN
    BY <1>1, <1>2, <1>q DEF Ssh!TypeOK
  <2> QED
    BY <2>1, <2>2, <2>3, <2>4, <2>5, <2>6, <2>7 DEF Ssh!TypeOK
<1>n. Ssh!Numbered'
  <2> SUFFICES ASSUME NEW b \in Ssh!Attempt PROVE Ssh!Numbered!(b)'
    BY DEF Ssh!Numbered
  <2>1. v3'[b] <= v4'
    BY <1>1, <1>2
  <2> QED
    BY <1>1, <2>1 DEF Ssh!Numbered
<1>r. Ssh!Registered'
  BY <1>1, <1>2 DEF Ssh!Registered
<1>w. Ssh!Awaited'
  <2> SUFFICES ASSUME ~v11' PROVE Ssh!Awaited'
    BY DEF Ssh!Awaited
  <2>1. ASSUME NEW d \in CallsOfTerminal
        PROVE  /\ Ssh!Answering(v7', d) => v8'[d] \notin {"new", "done"}
               /\ v9' = "none" => v8'[d] = "new"
               /\ v8'[d] \notin {"starting", "done"} => \A b \in Ssh!Attempt : v2'[b] # d
    BY <1>1, <1>2, <1>q DEF Ssh!TypeOK, Ssh!Awaited, SshPasses
  <2>2. ASSUME NEW b \in Ssh!Attempt, v1'[b] \in {"opening", "shell"}
        PROVE  v8'[v2'[b]] = "starting" /\ ~Ssh!Answering(v7', v2'[b])
    BY <2>2, <1>1, <1>2, <1>q DEF Ssh!TypeOK, Ssh!Awaited, SshPasses, Ssh!Numbered
  <2> QED
    BY <2>1, <2>2 DEF Ssh!Awaited
<1>c. Ssh!Closed'
  BY <1>1, <1>2 DEF Ssh!Closed, Ssh!Current
<1>s. Ssh!Shown'
  BY <1>1 DEF Ssh!Shown
<1> QED
  BY <1>q, <1>t, <1>n, <1>r, <1>w, <1>c, <1>s

LEMMA SshOnDisconnects ==
    ASSUME Ssh!Inv, NEW c \in CallsOfTerminal, NEW as \in {"leaving", "closing"}, Ssh!Disconnects(c, as)
    PROVE  Ssh!Inv'
<1> USE SshAssumed DEF Ssh!SshAssumption, Ssh!Inv
<1>1. /\ ~v11 /\ v8[c] = "new" /\ v9 = "open" /\ v8' = [v8 EXCEPT ![c] = as] /\ v10' = "disconnecting"
      /\ v4' = v4 + 1 /\ v5' = 0 /\ v6' = v6 \ {v5}
      /\ v1' = v1 /\ v2' = v2 /\ v3' = v3 /\ v9' = v9 /\ v11' = v11 /\ v12' = v12 /\ v13' = v13
  BY DEF Ssh!Disconnects, Ssh!Next1, Ssh!LetGo
<1>2. /\ v6' = {} /\ v4 \in Nat
      /\ \A b \in Ssh!Attempt : v3[b] \in Nat /\ v3[b] <= v4
      /\ \A b \in Ssh!Attempt : v4' # v3[b]
  BY <1>1 DEF Ssh!Registered, Ssh!Numbered, Ssh!TypeOK
<1>q. Ssh!Queued' /\ SshPasses(v7, v7', {c})
  <2> DEFINE A == IF v5 = 0 THEN <<>> ELSE <<Ssh!Status("disconnecting"), Ssh!Ended>>
  <2>1. A \in Seq(Ssh!Messages) /\ SshOnlyStatus(A)
    BY SshNews
  <2>2. Ssh!Send(A \o <<Ssh!Answer(c, TRUE)>>)
    BY DEF Ssh!Disconnects, Ssh!LetGo
  <2>3. ~Ssh!Answering(v7, c)
    BY <1>1 DEF Ssh!Awaited
  <2> HIDE DEF A
  <2> QED
    BY <1>1, <2>1, <2>2, <2>3, SshAnswers
<1>t. Ssh!TypeOK'
  <2>1. v1' \in [Ssh!Attempt -> {"new", "opening", "shell", "live", "over"}]
    BY <1>1, <1>2, <1>q DEF Ssh!TypeOK
  <2>2. v2' \in [Ssh!Attempt -> CallsOfTerminal \cup {0}]
    BY <1>1, <1>2, <1>q DEF Ssh!TypeOK
  <2>3. v3' \in [Ssh!Attempt -> Nat]
    BY <1>1, <1>2, <1>q DEF Ssh!TypeOK
  <2>4. v4' \in Nat /\ v5' \in Ssh!Attempt \cup {0} /\ v6' \subseteq Ssh!Attempt
    BY <1>1, <1>2, <1>q DEF Ssh!TypeOK
  <2>5. v8' \in [CallsOfTerminal -> {"new", "releasing", "leaving", "closing", "starting", "done"}]
    BY <1>1, <1>2, <1>q DEF Ssh!TypeOK
  <2>6. v9' \in {"none", "open", "closed"} /\ v10' \in {"connecting", "connected", "disconnecting", "disconnected", "error"}
    BY <1>1, <1>2, <1>q DEF Ssh!TypeOK
  <2>7. {v11', v12', v13'} \subseteq BOOLEAN
    BY <1>1, <1>2, <1>q DEF Ssh!TypeOK
  <2> QED
    BY <2>1, <2>2, <2>3, <2>4, <2>5, <2>6, <2>7 DEF Ssh!TypeOK
<1>n. Ssh!Numbered'
  <2> SUFFICES ASSUME NEW b \in Ssh!Attempt PROVE Ssh!Numbered!(b)'
    BY DEF Ssh!Numbered
  <2>1. v3'[b] <= v4'
    BY <1>1, <1>2
  <2> QED
    BY <1>1, <2>1 DEF Ssh!Numbered
<1>r. Ssh!Registered'
  BY <1>1, <1>2 DEF Ssh!Registered
<1>w. Ssh!Awaited'
  <2> SUFFICES ASSUME ~v11' PROVE Ssh!Awaited'
    BY DEF Ssh!Awaited
  <2>1. ASSUME NEW d \in CallsOfTerminal
        PROVE  /\ Ssh!Answering(v7', d) => v8'[d] \notin {"new", "done"}
               /\ v9' = "none" => v8'[d] = "new"
               /\ v8'[d] \notin {"starting", "done"} => \A b \in Ssh!Attempt : v2'[b] # d
    BY <1>1, <1>2, <1>q DEF Ssh!TypeOK, Ssh!Awaited, SshPasses
  <2>2. ASSUME NEW b \in Ssh!Attempt, v1'[b] \in {"opening", "shell"}
        PROVE  v8'[v2'[b]] = "starting" /\ ~Ssh!Answering(v7', v2'[b])
    BY <2>2, <1>1, <1>2, <1>q DEF Ssh!TypeOK, Ssh!Awaited, SshPasses, Ssh!Numbered
  <2> QED
    BY <2>1, <2>2 DEF Ssh!Awaited
<1>c. Ssh!Closed'
  BY <1>1, <1>2 DEF Ssh!Closed, Ssh!Current
<1>s. Ssh!Shown'
  BY <1>1 DEF Ssh!Shown
<1> QED
  BY <1>q, <1>t, <1>n, <1>r, <1>w, <1>c, <1>s

LEMMA SshOnOpen ==
    ASSUME Ssh!Inv, NEW c \in CallsOfTerminal, Ssh!Open(c)
    PROVE  Ssh!Inv'
<1> USE SshAssumed DEF Ssh!SshAssumption, Ssh!Inv
<1>1. /\ ~v11 /\ v8[c] = "new" /\ v9 = "none" /\ v8' = [v8 EXCEPT ![c] = "starting"]
      /\ v9' = "open" /\ v10' = "connecting"
      /\ v4' = v4 + 1 /\ v5' = 0 /\ v6' = v6 \ {v5}
      /\ v11' = v11 /\ v12' = v12 /\ v13' = v13
  BY DEF Ssh!Open, Ssh!Next1, Ssh!Started, Ssh!LetGo
<1>2. /\ v6' = {} /\ v4 \in Nat
      /\ \A b \in Ssh!Attempt : v3[b] \in Nat /\ v3[b] <= v4
      /\ \A b \in Ssh!Attempt : v4' # v3[b]
  BY <1>1 DEF Ssh!Registered, Ssh!Numbered, Ssh!TypeOK
<1>3. PICK a \in Ssh!Attempt : Ssh!ConnectFor(c, a)
  BY DEF Ssh!Open, Ssh!Started
<1>4. /\ v1[a] = "new" /\ v1' = [v1 EXCEPT ![a] = "opening"]
      /\ v2' = [v2 EXCEPT ![a] = c] /\ v3' = [v3 EXCEPT ![a] = v4 + 1]
  BY <1>3 DEF Ssh!ConnectFor
<1>5. c # 0 /\ \A b \in Ssh!Attempt : v2[b] # c
  BY <1>1 DEF Ssh!Awaited
<1>6. v3[a] = 0 /\ v2[a] = 0
  BY <1>4 DEF Ssh!Numbered
<1>q. Ssh!Queued' /\ SshPasses(v7, v7', {})
  <2> DEFINE A == IF v5 = 0 THEN <<>> ELSE <<Ssh!Status("disconnecting"), Ssh!Ended>>
             B == <<Ssh!Status("connecting")>>
  <2>1. A \in Seq(Ssh!Messages) /\ SshOnlyStatus(A) /\ B \in Seq(Ssh!Messages) /\ SshOnlyStatus(B)
    BY SshNews DEF Ssh!Statuses
  <2>2. Ssh!Send(A \o B)
    BY DEF Ssh!Open, Ssh!Started, Ssh!LetGo
  <2> HIDE DEF A, B
  <2>3. A \o B \in Seq(Ssh!Messages) /\ SshOnlyStatus(A \o B)
    BY <2>1, SshPlainJoins
  <2> QED
    BY <1>1, <2>2, <2>3, SshSays
<1>t. Ssh!TypeOK'
  <2>1. v1' \in [Ssh!Attempt -> {"new", "opening", "shell", "live", "over"}]
    BY <1>1, <1>2, <1>4, <1>5, <1>q DEF Ssh!TypeOK
  <2>2. v2' \in [Ssh!Attempt -> CallsOfTerminal \cup {0}]
    BY <1>1, <1>2, <1>4, <1>5, <1>q DEF Ssh!TypeOK
  <2>3. v3' \in [Ssh!Attempt -> Nat]
    BY <1>1, <1>2, <1>4, <1>5, <1>q DEF Ssh!TypeOK
  <2>4. v4' \in Nat /\ v5' \in Ssh!Attempt \cup {0} /\ v6' \subseteq Ssh!Attempt
    BY <1>1, <1>2, <1>4, <1>5, <1>q DEF Ssh!TypeOK
  <2>5. v8' \in [CallsOfTerminal -> {"new", "releasing", "leaving", "closing", "starting", "done"}]
    BY <1>1, <1>2, <1>4, <1>5, <1>q DEF Ssh!TypeOK
  <2>6. v9' \in {"none", "open", "closed"} /\ v10' \in {"connecting", "connected", "disconnecting", "disconnected", "error"}
    BY <1>1, <1>2, <1>4, <1>5, <1>q DEF Ssh!TypeOK
  <2>7. {v11', v12', v13'} \subseteq BOOLEAN
    BY <1>1, <1>2, <1>4, <1>5, <1>q DEF Ssh!TypeOK
  <2> QED
    BY <2>1, <2>2, <2>3, <2>4, <2>5, <2>6, <2>7 DEF Ssh!TypeOK
<1>n. Ssh!Numbered'
  <2> SUFFICES ASSUME NEW b \in Ssh!Attempt
               PROVE  /\ v1'[b] = "new" <=> v3'[b] = 0
                      /\ v1'[b] = "new" <=> v2'[b] = 0
                      /\ v11' \/ v3'[b] <= v4'
                      /\ \A d \in Ssh!Attempt : v3'[b] # 0 /\ v3'[b] = v3'[d] => b = d
                      /\ \A d \in Ssh!Attempt : v2'[b] # 0 /\ v2'[b] = v2'[d] => b = d
    BY DEF Ssh!Numbered
  <2>1. v3'[b] <= v4'
    BY <1>1, <1>2, <1>4 DEF Ssh!TypeOK
  <2>2. /\ v1'[b] = "new" <=> v3'[b] = 0
        /\ v1'[b] = "new" <=> v2'[b] = 0
    BY <1>2, <1>4, <1>5 DEF Ssh!TypeOK, Ssh!Numbered
  <2>3. ASSUME NEW d \in Ssh!Attempt, v3'[b] # 0, v3'[b] = v3'[d] PROVE b = d
    BY <1>2, <1>4, <2>3 DEF Ssh!TypeOK, Ssh!Numbered
  <2>4. ASSUME NEW d \in Ssh!Attempt, v2'[b] # 0, v2'[b] = v2'[d] PROVE b = d
    BY <1>4, <1>5, <2>4 DEF Ssh!TypeOK, Ssh!Numbered
  <2> QED
    BY <2>1, <2>2, <2>3, <2>4
<1>r. Ssh!Registered'
  BY <1>1, <1>2 DEF Ssh!Registered
<1>w. Ssh!Awaited'
  <2> SUFFICES ASSUME ~v11' PROVE Ssh!Awaited'
    BY DEF Ssh!Awaited
  <2>1. ASSUME NEW d \in CallsOfTerminal
        PROVE  /\ Ssh!Answering(v7', d) => v8'[d] \notin {"new", "done"}
               /\ v9' = "none" => v8'[d] = "new"
               /\ v8'[d] \notin {"starting", "done"} => \A b \in Ssh!Attempt : v2'[b] # d
    BY <1>1, <1>2, <1>4, <1>5, <1>q DEF Ssh!TypeOK, Ssh!Awaited, SshPasses
  <2>2. ASSUME NEW b \in Ssh!Attempt, v1'[b] \in {"opening", "shell"}
        PROVE  v8'[v2'[b]] = "starting" /\ ~Ssh!Answering(v7', v2'[b])
    BY <2>2, <1>1, <1>2, <1>4, <1>5, <1>q DEF Ssh!TypeOK, Ssh!Awaited, SshPasses, Ssh!Numbered
  <2> QED
    BY <2>1, <2>2 DEF Ssh!Awaited
<1>c. Ssh!Closed'
  <2>1. \A d \in CallsOfTerminal : v8'[d] # "closing"
    BY <1>1 DEF Ssh!Awaited, Ssh!TypeOK
  <2> QED
    BY <1>1, <2>1 DEF Ssh!Closed
<1>s. Ssh!Shown'
  BY <1>1 DEF Ssh!Shown
<1> QED
  BY <1>q, <1>t, <1>n, <1>r, <1>w, <1>c, <1>s

LEMMA SshOnTakeStarted ==
    ASSUME Ssh!Inv, NEW c \in CallsOfTerminal, Ssh!TakeStarted(c)
    PROVE  Ssh!Inv'
<1> USE SshAssumed DEF Ssh!SshAssumption, Ssh!Inv
<1>1. /\ v7 # <<>> /\ Ssh!IsAnswer(Head(v7), c) /\ v8[c] = "starting" /\ v8' = [v8 EXCEPT ![c] = "done"]
      /\ v10' = (IF Head(v7).ok THEN v10 ELSE IF v9 = "open" THEN "error" ELSE v10)
      /\ v1' = v1 /\ v2' = v2 /\ v3' = v3 /\ v4' = v4 /\ v5' = v5 /\ v6' = v6 /\ v9' = v9 /\ v11' = v11 /\ v12' = v12 /\ v13' = v13
  BY DEF Ssh!TakeStarted, Ssh!Answered, Ssh!IsAnswer, Ssh!Shows
<1>2. ~v11
  BY <1>1 DEF Ssh!Registered
<1>3. /\ Tail(v7) \in Seq(Ssh!Messages) /\ Ssh!AnsweredOnce(Tail(v7)) /\ Head(v7) \in Ssh!Messages
      /\ \A d \in CallsOfTerminal : Ssh!Answering(Tail(v7), d) => Ssh!Answering(v7, d) /\ ~Ssh!IsAnswer(Head(v7), d)
      /\ Ssh!Answering(v7, c) /\ Head(v7) # Ssh!Status("connected")
      /\ Ssh!Disconnecting(Tail(v7)) => Ssh!Disconnecting(v7)
      /\ \A d \in CallsOfTerminal : Ssh!Connecting(v7, d) =>
            /\ ~Ssh!IsAnswer(Head(v7), d)
            /\ \/ Ssh!Connecting(Tail(v7), d)
               \/ Head(v7) = Ssh!Status("connected") /\ ~Ssh!Disconnecting(Tail(v7))
  BY <1>1, SshTakes DEF Ssh!Queued, Ssh!IsAnswer, Ssh!Status
<1>q. Ssh!Queued' /\ v7' = Tail(v7)
  BY <1>3 DEF Ssh!TakeStarted, Ssh!Queued
<1>t. Ssh!TypeOK'
  <2>1. v1' \in [Ssh!Attempt -> {"new", "opening", "shell", "live", "over"}]
    BY <1>1, <1>2, <1>3, <1>q DEF Ssh!TypeOK
  <2>2. v2' \in [Ssh!Attempt -> CallsOfTerminal \cup {0}]
    BY <1>1, <1>2, <1>3, <1>q DEF Ssh!TypeOK
  <2>3. v3' \in [Ssh!Attempt -> Nat]
    BY <1>1, <1>2, <1>3, <1>q DEF Ssh!TypeOK
  <2>4. v4' \in Nat /\ v5' \in Ssh!Attempt \cup {0} /\ v6' \subseteq Ssh!Attempt
    BY <1>1, <1>2, <1>3, <1>q DEF Ssh!TypeOK
  <2>5. v8' \in [CallsOfTerminal -> {"new", "releasing", "leaving", "closing", "starting", "done"}]
    BY <1>1, <1>2, <1>3, <1>q DEF Ssh!TypeOK
  <2>6. v9' \in {"none", "open", "closed"} /\ v10' \in {"connecting", "connected", "disconnecting", "disconnected", "error"}
    BY <1>1, <1>2, <1>3, <1>q DEF Ssh!TypeOK
  <2>7. {v11', v12', v13'} \subseteq BOOLEAN
    BY <1>1, <1>2, <1>3, <1>q DEF Ssh!TypeOK
  <2> QED
    BY <2>1, <2>2, <2>3, <2>4, <2>5, <2>6, <2>7 DEF Ssh!TypeOK
<1>n. Ssh!Numbered'
  BY <1>1, <1>2, <1>3, <1>q DEF Ssh!Numbered
<1>r. Ssh!Registered'
  BY <1>1, <1>2, <1>3, <1>q DEF Ssh!Registered, Ssh!Current
<1>w. Ssh!Awaited'
  <2> SUFFICES ASSUME ~v11' PROVE Ssh!Awaited'
    BY DEF Ssh!Awaited
  <2>1. ASSUME NEW d \in CallsOfTerminal
        PROVE  /\ Ssh!Answering(v7', d) => v8'[d] \notin {"new", "done"}
               /\ v9' = "none" => v8'[d] = "new"
               /\ v8'[d] \notin {"starting", "done"} => \A b \in Ssh!Attempt : v2'[b] # d
    BY <1>1, <1>2, <1>3, <1>q DEF Ssh!TypeOK, Ssh!Awaited
  <2>2. ASSUME NEW b \in Ssh!Attempt, v1'[b] \in {"opening", "shell"}
        PROVE  v8'[v2'[b]] = "starting" /\ ~Ssh!Answering(v7', v2'[b])
    BY <2>2, <1>1, <1>2, <1>3, <1>q DEF Ssh!TypeOK, Ssh!Awaited, Ssh!Numbered
  <2> QED
    BY <2>1, <2>2 DEF Ssh!Awaited
<1>c. Ssh!Closed'
  BY <1>1, <1>2, <1>3, <1>q DEF Ssh!TypeOK, Ssh!Closed, Ssh!Current
<1>s. Ssh!Shown'
  <2> SUFFICES ASSUME v9' = "open", v5 # 0, v1[v5] = "live"
               PROVE  \/ v10' # "disconnecting" /\ ~Ssh!Disconnecting(v7')
                      \/ v8'[v2[v5]] = "starting" /\ Ssh!Connecting(v7', v2[v5])
    BY <1>1 DEF Ssh!Shown
  <2> DEFINE d == v2[v5]
  <2>1. v5 \in Ssh!Attempt /\ d \in CallsOfTerminal /\ v9 = "open"
    BY <1>1 DEF Ssh!TypeOK, Ssh!Numbered
  <2>2. CASE v10 # "disconnecting" /\ ~Ssh!Disconnecting(v7)
    BY <1>1, <1>3, <1>q, <2>1, <2>2
  <2>3. CASE v8[d] = "starting" /\ Ssh!Connecting(v7, d)
    <3>1. c # d /\ Ssh!Connecting(Tail(v7), d)
      BY <1>1, <1>3, <2>1, <2>3
    <3> HIDE DEF d
    <3>2. v8'[d] = "starting"
      BY <1>1, <2>1, <2>3, <3>1 DEF Ssh!TypeOK
    <3> QED
      BY <1>q, <3>1, <3>2 DEF d
  <2> QED
    BY <2>1, <2>2, <2>3 DEF Ssh!Shown
<1> QED
  BY <1>q, <1>t, <1>n, <1>r, <1>w, <1>c, <1>s

LEMMA SshOnTakeLeft ==
    ASSUME Ssh!Inv, NEW c \in CallsOfTerminal, Ssh!TakeLeft(c)
    PROVE  Ssh!Inv'
<1> USE SshAssumed DEF Ssh!SshAssumption, Ssh!Inv
<1>1. /\ v7 # <<>> /\ Ssh!IsAnswer(Head(v7), c) /\ v8[c] = "leaving" /\ v8' = [v8 EXCEPT ![c] = "done"]
      /\ v10' = (IF v9 = "open" THEN "disconnected" ELSE v10)
      /\ v1' = v1 /\ v2' = v2 /\ v3' = v3 /\ v4' = v4 /\ v5' = v5 /\ v6' = v6 /\ v9' = v9 /\ v11' = v11 /\ v12' = v12 /\ v13' = v13
  BY DEF Ssh!TakeLeft, Ssh!Answered, Ssh!IsAnswer, Ssh!Shows
<1>2. ~v11
  BY <1>1 DEF Ssh!Registered
<1>3. /\ Tail(v7) \in Seq(Ssh!Messages) /\ Ssh!AnsweredOnce(Tail(v7)) /\ Head(v7) \in Ssh!Messages
      /\ \A d \in CallsOfTerminal : Ssh!Answering(Tail(v7), d) => Ssh!Answering(v7, d) /\ ~Ssh!IsAnswer(Head(v7), d)
      /\ Ssh!Answering(v7, c) /\ Head(v7) # Ssh!Status("connected")
      /\ Ssh!Disconnecting(Tail(v7)) => Ssh!Disconnecting(v7)
      /\ \A d \in CallsOfTerminal : Ssh!Connecting(v7, d) =>
            /\ ~Ssh!IsAnswer(Head(v7), d)
            /\ \/ Ssh!Connecting(Tail(v7), d)
               \/ Head(v7) = Ssh!Status("connected") /\ ~Ssh!Disconnecting(Tail(v7))
  BY <1>1, SshTakes DEF Ssh!Queued, Ssh!IsAnswer, Ssh!Status
<1>q. Ssh!Queued' /\ v7' = Tail(v7)
  BY <1>3 DEF Ssh!TakeLeft, Ssh!Queued
<1>t. Ssh!TypeOK'
  <2>1. v1' \in [Ssh!Attempt -> {"new", "opening", "shell", "live", "over"}]
    BY <1>1, <1>2, <1>3, <1>q DEF Ssh!TypeOK
  <2>2. v2' \in [Ssh!Attempt -> CallsOfTerminal \cup {0}]
    BY <1>1, <1>2, <1>3, <1>q DEF Ssh!TypeOK
  <2>3. v3' \in [Ssh!Attempt -> Nat]
    BY <1>1, <1>2, <1>3, <1>q DEF Ssh!TypeOK
  <2>4. v4' \in Nat /\ v5' \in Ssh!Attempt \cup {0} /\ v6' \subseteq Ssh!Attempt
    BY <1>1, <1>2, <1>3, <1>q DEF Ssh!TypeOK
  <2>5. v8' \in [CallsOfTerminal -> {"new", "releasing", "leaving", "closing", "starting", "done"}]
    BY <1>1, <1>2, <1>3, <1>q DEF Ssh!TypeOK
  <2>6. v9' \in {"none", "open", "closed"} /\ v10' \in {"connecting", "connected", "disconnecting", "disconnected", "error"}
    BY <1>1, <1>2, <1>3, <1>q DEF Ssh!TypeOK
  <2>7. {v11', v12', v13'} \subseteq BOOLEAN
    BY <1>1, <1>2, <1>3, <1>q DEF Ssh!TypeOK
  <2> QED
    BY <2>1, <2>2, <2>3, <2>4, <2>5, <2>6, <2>7 DEF Ssh!TypeOK
<1>n. Ssh!Numbered'
  BY <1>1, <1>2, <1>3, <1>q DEF Ssh!Numbered
<1>r. Ssh!Registered'
  BY <1>1, <1>2, <1>3, <1>q DEF Ssh!Registered, Ssh!Current
<1>w. Ssh!Awaited'
  <2> SUFFICES ASSUME ~v11' PROVE Ssh!Awaited'
    BY DEF Ssh!Awaited
  <2>1. ASSUME NEW d \in CallsOfTerminal
        PROVE  /\ Ssh!Answering(v7', d) => v8'[d] \notin {"new", "done"}
               /\ v9' = "none" => v8'[d] = "new"
               /\ v8'[d] \notin {"starting", "done"} => \A b \in Ssh!Attempt : v2'[b] # d
    BY <1>1, <1>2, <1>3, <1>q DEF Ssh!TypeOK, Ssh!Awaited
  <2>2. ASSUME NEW b \in Ssh!Attempt, v1'[b] \in {"opening", "shell"}
        PROVE  v8'[v2'[b]] = "starting" /\ ~Ssh!Answering(v7', v2'[b])
    BY <2>2, <1>1, <1>2, <1>3, <1>q DEF Ssh!TypeOK, Ssh!Awaited, Ssh!Numbered
  <2> QED
    BY <2>1, <2>2 DEF Ssh!Awaited
<1>c. Ssh!Closed'
  BY <1>1, <1>2, <1>3, <1>q DEF Ssh!TypeOK, Ssh!Closed, Ssh!Current
<1>s. Ssh!Shown'
  <2> SUFFICES ASSUME v9' = "open", v5 # 0, v1[v5] = "live"
               PROVE  \/ v10' # "disconnecting" /\ ~Ssh!Disconnecting(v7')
                      \/ v8'[v2[v5]] = "starting" /\ Ssh!Connecting(v7', v2[v5])
    BY <1>1 DEF Ssh!Shown
  <2> DEFINE d == v2[v5]
  <2>1. v5 \in Ssh!Attempt /\ d \in CallsOfTerminal /\ v9 = "open"
    BY <1>1 DEF Ssh!TypeOK, Ssh!Numbered
  <2>2. CASE v10 # "disconnecting" /\ ~Ssh!Disconnecting(v7)
    BY <1>1, <1>3, <1>q, <2>1, <2>2
  <2>3. CASE v8[d] = "starting" /\ Ssh!Connecting(v7, d)
    <3>1. c # d /\ Ssh!Connecting(Tail(v7), d)
      BY <1>1, <1>3, <2>1, <2>3
    <3> HIDE DEF d
    <3>2. v8'[d] = "starting"
      BY <1>1, <2>1, <2>3, <3>1 DEF Ssh!TypeOK
    <3> QED
      BY <1>q, <3>1, <3>2 DEF d
  <2> QED
    BY <2>1, <2>2, <2>3 DEF Ssh!Shown
<1> QED
  BY <1>q, <1>t, <1>n, <1>r, <1>w, <1>c, <1>s

LEMMA SshOnTakeClosed ==
    ASSUME Ssh!Inv, NEW c \in CallsOfTerminal, Ssh!TakeClosed(c)
    PROVE  Ssh!Inv'
<1> USE SshAssumed DEF Ssh!SshAssumption, Ssh!Inv
<1>1. /\ v7 # <<>> /\ Ssh!IsAnswer(Head(v7), c) /\ v8[c] = "closing" /\ v8' = [v8 EXCEPT ![c] = "done"]
      /\ v9' = "closed"
      /\ v1' = v1 /\ v2' = v2 /\ v3' = v3 /\ v4' = v4 /\ v5' = v5 /\ v6' = v6 /\ v10' = v10 /\ v11' = v11 /\ v12' = v12 /\ v13' = v13
  BY DEF Ssh!TakeClosed, Ssh!Answered, Ssh!IsAnswer, Ssh!Shows
<1>2. ~v11
  BY <1>1 DEF Ssh!Registered
<1>3. /\ Tail(v7) \in Seq(Ssh!Messages) /\ Ssh!AnsweredOnce(Tail(v7)) /\ Head(v7) \in Ssh!Messages
      /\ \A d \in CallsOfTerminal : Ssh!Answering(Tail(v7), d) => Ssh!Answering(v7, d) /\ ~Ssh!IsAnswer(Head(v7), d)
      /\ Ssh!Answering(v7, c) /\ Head(v7) # Ssh!Status("connected")
      /\ Ssh!Disconnecting(Tail(v7)) => Ssh!Disconnecting(v7)
      /\ \A d \in CallsOfTerminal : Ssh!Connecting(v7, d) =>
            /\ ~Ssh!IsAnswer(Head(v7), d)
            /\ \/ Ssh!Connecting(Tail(v7), d)
               \/ Head(v7) = Ssh!Status("connected") /\ ~Ssh!Disconnecting(Tail(v7))
  BY <1>1, SshTakes DEF Ssh!Queued, Ssh!IsAnswer, Ssh!Status
<1>q. Ssh!Queued' /\ v7' = Tail(v7)
  BY <1>3 DEF Ssh!TakeClosed, Ssh!Queued
<1>t. Ssh!TypeOK'
  <2>1. v1' \in [Ssh!Attempt -> {"new", "opening", "shell", "live", "over"}]
    BY <1>1, <1>2, <1>3, <1>q DEF Ssh!TypeOK
  <2>2. v2' \in [Ssh!Attempt -> CallsOfTerminal \cup {0}]
    BY <1>1, <1>2, <1>3, <1>q DEF Ssh!TypeOK
  <2>3. v3' \in [Ssh!Attempt -> Nat]
    BY <1>1, <1>2, <1>3, <1>q DEF Ssh!TypeOK
  <2>4. v4' \in Nat /\ v5' \in Ssh!Attempt \cup {0} /\ v6' \subseteq Ssh!Attempt
    BY <1>1, <1>2, <1>3, <1>q DEF Ssh!TypeOK
  <2>5. v8' \in [CallsOfTerminal -> {"new", "releasing", "leaving", "closing", "starting", "done"}]
    BY <1>1, <1>2, <1>3, <1>q DEF Ssh!TypeOK
  <2>6. v9' \in {"none", "open", "closed"} /\ v10' \in {"connecting", "connected", "disconnecting", "disconnected", "error"}
    BY <1>1, <1>2, <1>3, <1>q DEF Ssh!TypeOK
  <2>7. {v11', v12', v13'} \subseteq BOOLEAN
    BY <1>1, <1>2, <1>3, <1>q DEF Ssh!TypeOK
  <2> QED
    BY <2>1, <2>2, <2>3, <2>4, <2>5, <2>6, <2>7 DEF Ssh!TypeOK
<1>n. Ssh!Numbered'
  BY <1>1, <1>2, <1>3, <1>q DEF Ssh!Numbered
<1>r. Ssh!Registered'
  BY <1>1, <1>2, <1>3, <1>q DEF Ssh!Registered, Ssh!Current
<1>w. Ssh!Awaited'
  <2> SUFFICES ASSUME ~v11' PROVE Ssh!Awaited'
    BY DEF Ssh!Awaited
  <2>1. ASSUME NEW d \in CallsOfTerminal
        PROVE  /\ Ssh!Answering(v7', d) => v8'[d] \notin {"new", "done"}
               /\ v9' = "none" => v8'[d] = "new"
               /\ v8'[d] \notin {"starting", "done"} => \A b \in Ssh!Attempt : v2'[b] # d
    BY <1>1, <1>2, <1>3, <1>q DEF Ssh!TypeOK, Ssh!Awaited
  <2>2. ASSUME NEW b \in Ssh!Attempt, v1'[b] \in {"opening", "shell"}
        PROVE  v8'[v2'[b]] = "starting" /\ ~Ssh!Answering(v7', v2'[b])
    BY <2>2, <1>1, <1>2, <1>3, <1>q DEF Ssh!TypeOK, Ssh!Awaited, Ssh!Numbered
  <2> QED
    BY <2>1, <2>2 DEF Ssh!Awaited
<1>c. Ssh!Closed'
  BY <1>1, <1>2, <1>3, <1>q DEF Ssh!TypeOK, Ssh!Closed, Ssh!Current
<1>s. Ssh!Shown'
  BY <1>1 DEF Ssh!Shown
<1> QED
  BY <1>q, <1>t, <1>n, <1>r, <1>w, <1>c, <1>s

LEMMA SshOnTakeReleased ==
    ASSUME Ssh!Inv, NEW c \in CallsOfTerminal, Ssh!TakeReleased(c)
    PROVE  Ssh!Inv'
<1> USE SshAssumed DEF Ssh!SshAssumption, Ssh!Inv
<1>1. /\ v7 # <<>> /\ Ssh!IsAnswer(Head(v7), c) /\ v8[c] = "releasing" /\ v8' = [v8 EXCEPT ![c] = "starting"]
      /\ v4' = v4 + 1 /\ v5' = 0 /\ v6' = v6 \ {v5}
      /\ v10' = (IF v9 = "open" THEN "connecting" ELSE v10)
      /\ v13' = (v13 \/ v9 = "closed" \/ \E d \in CallsOfTerminal : v8[d] = "closing")
      /\ v9' = v9 /\ v11' = v11 /\ v12' = v12
  BY DEF Ssh!TakeReleased, Ssh!Answered, Ssh!IsAnswer, Ssh!Shows
<1>f. ~v11
  BY <1>1 DEF Ssh!Registered
<1>g. /\ Tail(v7) \in Seq(Ssh!Messages) /\ Ssh!AnsweredOnce(Tail(v7)) /\ Head(v7) \in Ssh!Messages
      /\ \A d \in CallsOfTerminal : Ssh!Answering(Tail(v7), d) => Ssh!Answering(v7, d) /\ ~Ssh!IsAnswer(Head(v7), d)
      /\ Ssh!Answering(v7, c) /\ Head(v7) # Ssh!Status("connected")
      /\ Ssh!Disconnecting(Tail(v7)) => Ssh!Disconnecting(v7)
      /\ \A d \in CallsOfTerminal : Ssh!Connecting(v7, d) =>
            /\ ~Ssh!IsAnswer(Head(v7), d)
            /\ \/ Ssh!Connecting(Tail(v7), d)
               \/ Head(v7) = Ssh!Status("connected") /\ ~Ssh!Disconnecting(Tail(v7))
  BY <1>1, SshTakes DEF Ssh!Queued, Ssh!IsAnswer, Ssh!Status
<1>2. /\ v6' = {} /\ v4 \in Nat
      /\ \A b \in Ssh!Attempt : v3[b] \in Nat /\ v3[b] <= v4
      /\ \A b \in Ssh!Attempt : v4' # v3[b]
  BY <1>1, <1>f DEF Ssh!Registered, Ssh!Numbered, Ssh!TypeOK
<1>3. PICK a \in Ssh!Attempt : Ssh!ConnectFor(c, a)
  BY DEF Ssh!TakeReleased
<1>4. /\ v1[a] = "new" /\ v1' = [v1 EXCEPT ![a] = "opening"]
      /\ v2' = [v2 EXCEPT ![a] = c] /\ v3' = [v3 EXCEPT ![a] = v4 + 1]
  BY <1>3 DEF Ssh!ConnectFor
<1>5. c # 0 /\ \A b \in Ssh!Attempt : v2[b] # c
  BY <1>1, <1>f DEF Ssh!Awaited
<1>6. v3[a] = 0 /\ v2[a] = 0
  BY <1>4 DEF Ssh!Numbered
<1>q. Ssh!Queued' /\ \A d \in CallsOfTerminal : Ssh!Answering(v7', d) <=> Ssh!Answering(Tail(v7), d)
  <2> DEFINE A == IF v5 = 0 THEN <<>> ELSE <<Ssh!Status("disconnecting"), Ssh!Ended>>
             B == <<Ssh!Status("connecting")>>
             p == Tail(v7) \o A
  <2>1. A \in Seq(Ssh!Messages) /\ SshOnlyStatus(A) /\ B \in Seq(Ssh!Messages) /\ SshOnlyStatus(B)
    BY SshNews DEF Ssh!Statuses
  <2>2. v7' = p \o B
    BY DEF Ssh!TakeReleased
  <2> HIDE DEF A, B
  <2>3. p \in Seq(Ssh!Messages) /\ Ssh!AnsweredOnce(p) /\ \A d \in CallsOfTerminal : Ssh!Answering(p, d) <=> Ssh!Answering(Tail(v7), d)
    BY <1>g, <2>1, SshAdds
  <2> HIDE DEF p
  <2>4. p \o B \in Seq(Ssh!Messages) /\ Ssh!AnsweredOnce(p \o B) /\ \A d \in CallsOfTerminal : Ssh!Answering(p \o B, d) <=> Ssh!Answering(p, d)
    BY <2>1, <2>3, SshAdds
  <2> QED
    BY <2>2, <2>3, <2>4 DEF Ssh!Queued
<1>t. Ssh!TypeOK'
  <2>1. v1' \in [Ssh!Attempt -> {"new", "opening", "shell", "live", "over"}]
    BY <1>1, <1>2, <1>4, <1>5, <1>f, <1>g, <1>q DEF Ssh!TypeOK
  <2>2. v2' \in [Ssh!Attempt -> CallsOfTerminal \cup {0}]
    BY <1>1, <1>2, <1>4, <1>5, <1>f, <1>g, <1>q DEF Ssh!TypeOK
  <2>3. v3' \in [Ssh!Attempt -> Nat]
    BY <1>1, <1>2, <1>4, <1>5, <1>f, <1>g, <1>q DEF Ssh!TypeOK
  <2>4. v4' \in Nat /\ v5' \in Ssh!Attempt \cup {0} /\ v6' \subseteq Ssh!Attempt
    BY <1>1, <1>2, <1>4, <1>5, <1>f, <1>g, <1>q DEF Ssh!TypeOK
  <2>5. v8' \in [CallsOfTerminal -> {"new", "releasing", "leaving", "closing", "starting", "done"}]
    BY <1>1, <1>2, <1>4, <1>5, <1>f, <1>g, <1>q DEF Ssh!TypeOK
  <2>6. v9' \in {"none", "open", "closed"} /\ v10' \in {"connecting", "connected", "disconnecting", "disconnected", "error"}
    BY <1>1, <1>2, <1>4, <1>5, <1>f, <1>g, <1>q DEF Ssh!TypeOK
  <2>7. {v11', v12', v13'} \subseteq BOOLEAN
    BY <1>1, <1>2, <1>4, <1>5, <1>f, <1>g, <1>q DEF Ssh!TypeOK
  <2> QED
    BY <2>1, <2>2, <2>3, <2>4, <2>5, <2>6, <2>7 DEF Ssh!TypeOK
<1>n. Ssh!Numbered'
  <2> SUFFICES ASSUME NEW b \in Ssh!Attempt
               PROVE  /\ v1'[b] = "new" <=> v3'[b] = 0
                      /\ v1'[b] = "new" <=> v2'[b] = 0
                      /\ v11' \/ v3'[b] <= v4'
                      /\ \A d \in Ssh!Attempt : v3'[b] # 0 /\ v3'[b] = v3'[d] => b = d
                      /\ \A d \in Ssh!Attempt : v2'[b] # 0 /\ v2'[b] = v2'[d] => b = d
    BY DEF Ssh!Numbered
  <2>1. v3'[b] <= v4'
    BY <1>1, <1>2, <1>4 DEF Ssh!TypeOK
  <2>2. /\ v1'[b] = "new" <=> v3'[b] = 0
        /\ v1'[b] = "new" <=> v2'[b] = 0
    BY <1>2, <1>4, <1>5 DEF Ssh!TypeOK, Ssh!Numbered
  <2>3. ASSUME NEW d \in Ssh!Attempt, v3'[b] # 0, v3'[b] = v3'[d] PROVE b = d
    BY <1>2, <1>4, <2>3 DEF Ssh!TypeOK, Ssh!Numbered
  <2>4. ASSUME NEW d \in Ssh!Attempt, v2'[b] # 0, v2'[b] = v2'[d] PROVE b = d
    BY <1>4, <1>5, <2>4 DEF Ssh!TypeOK, Ssh!Numbered
  <2> QED
    BY <2>1, <2>2, <2>3, <2>4
<1>r. Ssh!Registered'
  BY <1>1, <1>2, <1>f DEF Ssh!Registered
<1>w. Ssh!Awaited'
  <2> SUFFICES ASSUME ~v11' PROVE Ssh!Awaited'
    BY DEF Ssh!Awaited
  <2>1. ASSUME NEW d \in CallsOfTerminal
        PROVE  /\ Ssh!Answering(v7', d) => v8'[d] \notin {"new", "done"}
               /\ v9' = "none" => v8'[d] = "new"
               /\ v8'[d] \notin {"starting", "done"} => \A b \in Ssh!Attempt : v2'[b] # d
    BY <1>1, <1>2, <1>4, <1>5, <1>f, <1>g, <1>q DEF Ssh!TypeOK, Ssh!Awaited, SshPasses
  <2>2. ASSUME NEW b \in Ssh!Attempt, v1'[b] \in {"opening", "shell"}
        PROVE  v8'[v2'[b]] = "starting" /\ ~Ssh!Answering(v7', v2'[b])
    BY <2>2, <1>1, <1>2, <1>4, <1>5, <1>f, <1>g, <1>q DEF Ssh!TypeOK, Ssh!Awaited, SshPasses,
       Ssh!Numbered
  <2> QED
    BY <2>1, <2>2 DEF Ssh!Awaited
<1>c. Ssh!Closed'
  <2>1. CASE v9 = "closed" \/ \E d \in CallsOfTerminal : v8[d] = "closing"
    BY <1>1, <2>1 DEF Ssh!Closed
  <2>2. CASE ~(v9 = "closed" \/ \E d \in CallsOfTerminal : v8[d] = "closing")
    <3>1. \A d \in CallsOfTerminal : v8'[d] # "closing"
      BY <1>1, <2>2 DEF Ssh!TypeOK
    <3> QED
      BY <1>1, <2>2, <3>1 DEF Ssh!Closed
  <2> QED
    BY <2>1, <2>2
<1>s. Ssh!Shown'
  BY <1>1 DEF Ssh!Shown
<1> QED
  BY <1>q, <1>t, <1>n, <1>r, <1>w, <1>c, <1>s

LEMMA SshOnCloseAtOnce ==
    ASSUME Ssh!Inv, NEW c \in CallsOfTerminal, Ssh!CloseAtOnce(c)
    PROVE  Ssh!Inv'
<1> USE SshAssumed DEF Ssh!SshAssumption, Ssh!Inv
<1>1. /\ ~v11 /\ v8[c] = "new" /\ v9 = "open" /\ v10 = "disconnecting" /\ v9' = "closed"
      /\ v8' = [v8 EXCEPT ![c] = "done"]
      /\ v13' = (v13 \/ \E d \in CallsOfTerminal : v8[d] = "starting")
      /\ v1' = v1 /\ v2' = v2 /\ v3' = v3 /\ v4' = v4 /\ v5' = v5 /\ v6' = v6 /\ v10' = v10 /\ v11' = v11 /\ v12' = v12
  BY DEF Ssh!CloseAtOnce, Ssh!Next1
<1>q. Ssh!Queued' /\ v7' = v7
  BY DEF Ssh!CloseAtOnce, Ssh!Queued
<1>t. Ssh!TypeOK'
  <2>1. v1' \in [Ssh!Attempt -> {"new", "opening", "shell", "live", "over"}]
    BY <1>1, <1>q DEF Ssh!TypeOK
  <2>2. v2' \in [Ssh!Attempt -> CallsOfTerminal \cup {0}]
    BY <1>1, <1>q DEF Ssh!TypeOK
  <2>3. v3' \in [Ssh!Attempt -> Nat]
    BY <1>1, <1>q DEF Ssh!TypeOK
  <2>4. v4' \in Nat /\ v5' \in Ssh!Attempt \cup {0} /\ v6' \subseteq Ssh!Attempt
    BY <1>1, <1>q DEF Ssh!TypeOK
  <2>5. v8' \in [CallsOfTerminal -> {"new", "releasing", "leaving", "closing", "starting", "done"}]
    BY <1>1, <1>q DEF Ssh!TypeOK
  <2>6. v9' \in {"none", "open", "closed"} /\ v10' \in {"connecting", "connected", "disconnecting", "disconnected", "error"}
    BY <1>1, <1>q DEF Ssh!TypeOK
  <2>7. {v11', v12', v13'} \subseteq BOOLEAN
    BY <1>1, <1>q DEF Ssh!TypeOK
  <2> QED
    BY <2>1, <2>2, <2>3, <2>4, <2>5, <2>6, <2>7 DEF Ssh!TypeOK
<1>n. Ssh!Numbered'
  BY <1>1, <1>q DEF Ssh!TypeOK, Ssh!Numbered
<1>r. Ssh!Registered'
  BY <1>1, <1>q DEF Ssh!TypeOK, Ssh!Registered, Ssh!Current, Ssh!Numbered, Ssh!Attempt
<1>w. Ssh!Awaited'
  <2> SUFFICES ASSUME ~v11' PROVE Ssh!Awaited'
    BY DEF Ssh!Awaited
  <2>1. ASSUME NEW d \in CallsOfTerminal
        PROVE  /\ Ssh!Answering(v7', d) => v8'[d] \notin {"new", "done"}
               /\ v9' = "none" => v8'[d] = "new"
               /\ v8'[d] \notin {"starting", "done"} => \A b \in Ssh!Attempt : v2'[b] # d
    BY <1>1, <1>q DEF Ssh!TypeOK, Ssh!Awaited, SshPasses
  <2>2. ASSUME NEW b \in Ssh!Attempt, v1'[b] \in {"opening", "shell"}
        PROVE  v8'[v2'[b]] = "starting" /\ ~Ssh!Answering(v7', v2'[b])
    BY <2>2, <1>1, <1>q DEF Ssh!TypeOK, Ssh!Awaited, SshPasses, Ssh!Numbered
  <2> QED
    BY <2>1, <2>2 DEF Ssh!Awaited
<1>c. Ssh!Closed'
  <2>1. CASE \E d \in CallsOfTerminal : v8[d] = "starting"
    BY <1>1, <2>1 DEF Ssh!Closed
  <2>2. CASE ~\E d \in CallsOfTerminal : v8[d] = "starting"
    <3>1. \A b \in Ssh!Attempt : v1[b] \notin {"opening", "shell"}
      <4>1. \A b \in Ssh!Attempt : v1[b] \in {"opening", "shell"} => v2[b] \in CallsOfTerminal
        BY DEF Ssh!Numbered, Ssh!TypeOK
      <4> QED
        BY <1>1, <2>2, <4>1 DEF Ssh!Awaited
    <3>2. ASSUME v5 # 0 PROVE FALSE
      <4>1. v5 \in Ssh!Attempt /\ v1[v5] = "live"
        BY <3>1, <3>2 DEF Ssh!Registered, Ssh!TypeOK
      <4>2. v2[v5] \in CallsOfTerminal
        BY <4>1 DEF Ssh!Numbered, Ssh!TypeOK
      <4> QED
        BY <1>1, <2>2, <3>2, <4>1, <4>2 DEF Ssh!Shown
    <3> QED
      BY <1>1, <3>1, <3>2 DEF Ssh!Closed
  <2> QED
    BY <2>1, <2>2
<1>s. Ssh!Shown'
  BY <1>1 DEF Ssh!Shown
<1> QED
  BY <1>q, <1>t, <1>n, <1>r, <1>w, <1>c, <1>s

LEMMA SshOnTakeStatus ==
    ASSUME Ssh!Inv, Ssh!TakeStatus
    PROVE  Ssh!Inv'
<1> USE SshAssumed DEF Ssh!SshAssumption, Ssh!Inv
<1>1. /\ v7 # <<>> /\ Head(v7).kind = "status" /\ v10' = (IF v9 = "open" THEN Head(v7).status ELSE v10)
      /\ v1' = v1 /\ v2' = v2 /\ v3' = v3 /\ v4' = v4 /\ v5' = v5 /\ v6' = v6 /\ v8' = v8 /\ v9' = v9 /\ v11' = v11 /\ v12' = v12 /\ v13' = v13
  BY DEF Ssh!TakeStatus, Ssh!Shows
<1>2. ~v11
  BY <1>1 DEF Ssh!Registered
<1>3. /\ Tail(v7) \in Seq(Ssh!Messages) /\ Ssh!AnsweredOnce(Tail(v7))
      /\ \A d \in CallsOfTerminal : Ssh!Answering(Tail(v7), d) => Ssh!Answering(v7, d)
      /\ Ssh!Disconnecting(Tail(v7)) => Ssh!Disconnecting(v7)
      /\ Head(v7) = Ssh!Status("disconnecting") => Ssh!Disconnecting(v7)
      /\ \A d \in CallsOfTerminal : Ssh!Connecting(v7, d) =>
            \/ Ssh!Connecting(Tail(v7), d)
            \/ Head(v7) = Ssh!Status("connected") /\ ~Ssh!Disconnecting(Tail(v7))
  BY <1>1, SshTakes DEF Ssh!Queued
<1>4. Head(v7).status \in Ssh!Statuses /\ Head(v7) = Ssh!Status(Head(v7).status)
  BY <1>1, SshTakes, SshMessages DEF Ssh!Queued
<1>5. Head(v7) = Ssh!Status("connected") => Head(v7).status = "connected"
  BY DEF Ssh!Status
<1>q. Ssh!Queued' /\ v7' = Tail(v7)
  BY <1>3 DEF Ssh!TakeStatus, Ssh!Queued
<1>t. Ssh!TypeOK'
  <2>1. v1' \in [Ssh!Attempt -> {"new", "opening", "shell", "live", "over"}]
    BY <1>1, <1>2, <1>3, <1>4, <1>q DEF Ssh!TypeOK
  <2>2. v2' \in [Ssh!Attempt -> CallsOfTerminal \cup {0}]
    BY <1>1, <1>2, <1>3, <1>4, <1>q DEF Ssh!TypeOK
  <2>3. v3' \in [Ssh!Attempt -> Nat]
    BY <1>1, <1>2, <1>3, <1>4, <1>q DEF Ssh!TypeOK
  <2>4. v4' \in Nat /\ v5' \in Ssh!Attempt \cup {0} /\ v6' \subseteq Ssh!Attempt
    BY <1>1, <1>2, <1>3, <1>4, <1>q DEF Ssh!TypeOK
  <2>5. v8' \in [CallsOfTerminal -> {"new", "releasing", "leaving", "closing", "starting", "done"}]
    BY <1>1, <1>2, <1>3, <1>4, <1>q DEF Ssh!TypeOK
  <2>6. v9' \in {"none", "open", "closed"} /\ v10' \in {"connecting", "connected", "disconnecting", "disconnected", "error"}
    BY <1>1, <1>4 DEF Ssh!TypeOK, Ssh!Statuses
  <2>7. {v11', v12', v13'} \subseteq BOOLEAN
    BY <1>1, <1>2, <1>3, <1>4, <1>q DEF Ssh!TypeOK
  <2> QED
    BY <2>1, <2>2, <2>3, <2>4, <2>5, <2>6, <2>7 DEF Ssh!TypeOK
<1>n. Ssh!Numbered'
  BY <1>1, <1>2, <1>3, <1>q DEF Ssh!Numbered
<1>r. Ssh!Registered'
  BY <1>1, <1>2, <1>3, <1>q DEF Ssh!Registered, Ssh!Current
<1>w. Ssh!Awaited'
  <2> SUFFICES ASSUME ~v11' PROVE Ssh!Awaited'
    BY DEF Ssh!Awaited
  <2>1. ASSUME NEW d \in CallsOfTerminal
        PROVE  /\ Ssh!Answering(v7', d) => v8'[d] \notin {"new", "done"}
               /\ v9' = "none" => v8'[d] = "new"
               /\ v8'[d] \notin {"starting", "done"} => \A b \in Ssh!Attempt : v2'[b] # d
    BY <1>1, <1>2, <1>3, <1>q DEF Ssh!TypeOK, Ssh!Awaited
  <2>2. ASSUME NEW b \in Ssh!Attempt, v1'[b] \in {"opening", "shell"}
        PROVE  v8'[v2'[b]] = "starting" /\ ~Ssh!Answering(v7', v2'[b])
    BY <2>2, <1>1, <1>2, <1>3, <1>q DEF Ssh!TypeOK, Ssh!Awaited, Ssh!Numbered
  <2> QED
    BY <2>1, <2>2 DEF Ssh!Awaited
<1>c. Ssh!Closed'
  BY <1>1, <1>2, <1>3, <1>4, <1>q DEF Ssh!TypeOK, Ssh!Closed, Ssh!Current
<1>s. Ssh!Shown'
  <2> SUFFICES ASSUME v9 = "open", v5 # 0, v1[v5] = "live"
               PROVE  \/ v10' # "disconnecting" /\ ~Ssh!Disconnecting(v7')
                      \/ v8[v2[v5]] = "starting" /\ Ssh!Connecting(v7', v2[v5])
    BY <1>1 DEF Ssh!Shown
  <2>1. v2[v5] \in CallsOfTerminal
    BY DEF Ssh!TypeOK, Ssh!Numbered
  <2>2. CASE v10 # "disconnecting" /\ ~Ssh!Disconnecting(v7)
    BY <1>1, <1>3, <1>4, <1>q, <2>2
  <2>3. CASE v8[v2[v5]] = "starting" /\ Ssh!Connecting(v7, v2[v5])
    BY <1>1, <1>3, <1>5, <1>q, <2>1, <2>3
  <2> QED
    BY <2>2, <2>3 DEF Ssh!Shown
<1> QED
  BY <1>q, <1>t, <1>n, <1>r, <1>w, <1>c, <1>s

LEMMA SshOnWindowGoes ==
    ASSUME Ssh!Inv, Ssh!WindowGoes
    PROVE  Ssh!Inv'
<1> USE SshAssumed DEF Ssh!SshAssumption, Ssh!Inv
<1>1. /\ ~v11 /\ v11' = TRUE /\ v5' = 0 /\ v6' = v6 \ {v5} /\ v4' = 0
      /\ v7' = <<>> /\ v8' = [c \in CallsOfTerminal |-> "done"] /\ v9' = "closed"
      /\ v1' = v1 /\ v2' = v2 /\ v3' = v3 /\ v10' = v10 /\ v12' = v12 /\ v13' = v13
  BY DEF Ssh!WindowGoes
<1>q. Ssh!Queued'
  BY <1>1 DEF Ssh!Queued, Ssh!AnsweredOnce
<1>t. Ssh!TypeOK'
  <2>1. v1' \in [Ssh!Attempt -> {"new", "opening", "shell", "live", "over"}]
    BY <1>1 DEF Ssh!TypeOK
  <2>2. v2' \in [Ssh!Attempt -> CallsOfTerminal \cup {0}]
    BY <1>1 DEF Ssh!TypeOK
  <2>3. v3' \in [Ssh!Attempt -> Nat]
    BY <1>1 DEF Ssh!TypeOK
  <2>4. v4' \in Nat /\ v5' \in Ssh!Attempt \cup {0} /\ v6' \subseteq Ssh!Attempt
    BY <1>1 DEF Ssh!TypeOK
  <2>5. v8' \in [CallsOfTerminal -> {"new", "releasing", "leaving", "closing", "starting", "done"}]
    BY <1>1 DEF Ssh!TypeOK
  <2>6. v9' \in {"none", "open", "closed"} /\ v10' \in {"connecting", "connected", "disconnecting", "disconnected", "error"}
    BY <1>1 DEF Ssh!TypeOK
  <2>7. {v11', v12', v13'} \subseteq BOOLEAN
    BY <1>1 DEF Ssh!TypeOK
  <2> QED
    BY <2>1, <2>2, <2>3, <2>4, <2>5, <2>6, <2>7 DEF Ssh!TypeOK
<1>n. Ssh!Numbered'
  BY <1>1 DEF Ssh!TypeOK, Ssh!Numbered
<1>r. Ssh!Registered'
  BY <1>1 DEF Ssh!TypeOK, Ssh!Registered, Ssh!Current, Ssh!Numbered, Ssh!Attempt
<1>w. Ssh!Awaited'
  <2> SUFFICES ASSUME ~v11' PROVE Ssh!Awaited'
    BY DEF Ssh!Awaited
  <2>1. ASSUME NEW d \in CallsOfTerminal
        PROVE  /\ Ssh!Answering(v7', d) => v8'[d] \notin {"new", "done"}
               /\ v9' = "none" => v8'[d] = "new"
               /\ v8'[d] \notin {"starting", "done"} => \A b \in Ssh!Attempt : v2'[b] # d
    BY <1>1 DEF Ssh!TypeOK, Ssh!Awaited, SshPasses
  <2>2. ASSUME NEW b \in Ssh!Attempt, v1'[b] \in {"opening", "shell"}
        PROVE  v8'[v2'[b]] = "starting" /\ ~Ssh!Answering(v7', v2'[b])
    BY <2>2, <1>1 DEF Ssh!TypeOK, Ssh!Awaited, SshPasses, Ssh!Numbered
  <2> QED
    BY <2>1, <2>2 DEF Ssh!Awaited
<1>c. Ssh!Closed'
  BY <1>1 DEF Ssh!Closed, Ssh!Current, Ssh!Numbered
<1>s. Ssh!Shown'
  BY <1>1 DEF Ssh!Shown
<1> QED
  BY <1>q, <1>t, <1>n, <1>r, <1>w, <1>c, <1>s

LEMMA SshBegins == Ssh!Init => Ssh!Inv
<1> SUFFICES ASSUME Ssh!Init PROVE Ssh!Inv
  OBVIOUS
<1> USE SshAssumed DEF Ssh!SshAssumption, Ssh!Init
<1>1. Ssh!TypeOK
  BY DEF Ssh!TypeOK
<1>2. Ssh!Queued
  BY DEF Ssh!Queued, Ssh!AnsweredOnce
<1>3. Ssh!Numbered /\ Ssh!Registered
  BY DEF Ssh!Numbered, Ssh!Registered
<1>4. Ssh!Awaited
  BY DEF Ssh!Awaited, Ssh!Answering
<1>5. Ssh!Closed /\ Ssh!Shown
  BY DEF Ssh!Closed, Ssh!Shown
<1> QED
  BY <1>1, <1>2, <1>3, <1>4, <1>5 DEF Ssh!Inv

LEMMA SshStays == ASSUME Ssh!Inv, UNCHANGED Ssh!vars PROVE Ssh!Inv'
<1>1. Ssh!Queued'
  BY DEF Ssh!Inv, Ssh!Queued, Ssh!vars
<1>2. Ssh!TypeOK'
  BY DEF Ssh!Inv, Ssh!TypeOK, Ssh!vars
<1>3. Ssh!Numbered' /\ Ssh!Registered'
  BY DEF Ssh!Inv, Ssh!Numbered, Ssh!Registered, Ssh!Current, Ssh!vars
<1>4. Ssh!Awaited'
  BY DEF Ssh!Inv, Ssh!Awaited, Ssh!vars
<1>5. Ssh!Closed' /\ Ssh!Shown'
  BY DEF Ssh!Inv, Ssh!Closed, Ssh!Shown, Ssh!Current, Ssh!vars
<1> QED
  BY <1>1, <1>2, <1>3, <1>4, <1>5 DEF Ssh!Inv

LEMMA SshShows == Ssh!Inv => Ssh!OneShell
<1> SUFFICES ASSUME Ssh!Inv PROVE Ssh!OneShell
  OBVIOUS
<1>1. v6 = {v5} \ {0}
  BY DEF Ssh!Inv, Ssh!Registered
<1>2. v5 # 0 => Ssh!Current(v5) /\ \A a \in Ssh!Attempt : v3[a] <= v3[v5]
  BY DEF Ssh!Inv, Ssh!Registered, Ssh!Numbered, Ssh!Current
<1>3. v5 # 0 /\ v9 = "closed" => v13
  BY DEF Ssh!Inv, Ssh!Closed
<1> QED
  BY <1>1, <1>2, <1>3 DEF Ssh!OneShell

LEMMA SshKeeps == Ssh!Inv /\ [Ssh!Next]_Ssh!vars => Ssh!Inv'
<1> SUFFICES ASSUME Ssh!Inv, [Ssh!Next]_Ssh!vars PROVE Ssh!Inv'
  OBVIOUS
<1>1. ASSUME NEW a \in Ssh!Attempt, Ssh!Works(a) PROVE Ssh!Inv'
  BY <1>1, SshOnOpenFails, SshOnOpened, SshOnRetiredOpened, SshOnShellOpens, SshOnShellFails,
     SshOnLost DEF Ssh!Works
<1>2. ASSUME NEW c \in CallsOfTerminal, Ssh!Uses(c) PROVE Ssh!Inv'
  <2>1. CASE Ssh!Disconnect(c)
    BY <2>1, SshOnDisconnects DEF Ssh!Disconnect
  <2>2. CASE Ssh!CloseTab(c)
    BY <2>2, SshOnDisconnects DEF Ssh!CloseTab
  <2> QED
    BY <1>2, <2>1, <2>2, SshOnOpen, SshOnReconnect, SshOnCloseAtOnce, SshOnTakeStarted,
       SshOnTakeLeft, SshOnTakeClosed,
       SshOnTakeReleased DEF Ssh!Uses
<1>3. CASE Ssh!TakeStatus
  BY <1>3, SshOnTakeStatus
<1>4. CASE Ssh!WindowGoes
  BY <1>4, SshOnWindowGoes
<1>5. CASE UNCHANGED Ssh!vars
  BY <1>5, SshStays
<1> QED
  BY <1>1, <1>2, <1>3, <1>4, <1>5 DEF Ssh!Next

\* sessions.ts, useSsh.ts: for any number of attempts and calls, there is one shell at
\* most, it is that of the last attempt, and none outlives its tab or window.
THEOREM SshInvariance == Ssh!Spec => [](Ssh!TypeOK /\ Ssh!OneShell)
<1>2. Ssh!Inv => Ssh!TypeOK
  BY DEF Ssh!Inv
<1> QED
  BY SshKeeps, <1>2, SshBegins, SshShows, PTL DEF Ssh!Spec

(* --------------------------- sending a request ----------------------------- *)
(* OneSend and ShowsTheSend are inductive once it is known what is on its way    *)
(* of a send (Send!OnTheWay), and that what was sent was not aborted (Send!Sent).*)
Send == INSTANCE RequestSend WITH
    MaxSends <- SendsOfRequest,
    phase <- v1, head <- v2, aborted <- v3, timedOut <- v4, challenged <- v5, native <- v6,
    out <- v7, current <- v8, pending <- v9, stream <- v10, response <- v11, answered <- v12,
    late <- v13, displaced <- v14, overtaken <- v15
ASSUME SendAssumption == Send!RequestSendAssumption

LEMMA SendMessages ==
    /\ Send!Messages = [of : Send!Sending, kind : Send!Kinds] /\ AreMessages(Send!Messages, Send!Sending, Send!Kinds)
    /\ Send!Queued <=> v7 \in Seq(Send!Messages) /\ Ordered(v7, Send!Never)
    /\ Send!Queued' <=> v7' \in Seq(Send!Messages) /\ Ordered(v7', Send!Never)
    /\ Send!told = ToldIn(v7, Send!Sending, Send!Kinds) /\ Send!told' = ToldIn(v7', Send!Sending, Send!Kinds)
    /\ Send!told \in [Send!Sending -> SUBSET Send!Kinds] /\ Send!told' \in [Send!Sending -> SUBSET Send!Kinds]
<1>1. Send!Messages = [of : Send!Sending, kind : Send!Kinds] /\ AreMessages(Send!Messages, Send!Sending, Send!Kinds)
  BY DEF AreMessages, Send!Messages
<1>2. Send!Queued <=> v7 \in Seq(Send!Messages) /\ Ordered(v7, Send!Never)
  BY DEF Send!Queued, Ordered
<1>3. Send!Queued' <=> v7' \in Seq(Send!Messages) /\ Ordered(v7', Send!Never)
  BY DEF Send!Queued, Ordered
<1>4. Send!told = ToldIn(v7, Send!Sending, Send!Kinds) /\ Send!told' = ToldIn(v7', Send!Sending, Send!Kinds)
  BY DEF Send!told, ToldIn, Send!Message
<1>5. Send!told \in [Send!Sending -> SUBSET Send!Kinds] /\ Send!told' \in [Send!Sending -> SUBSET Send!Kinds]
  BY DEF Send!told
<1> QED
  BY <1>1, <1>2, <1>3, <1>4, <1>5

LEMMA SendTakes ==
    ASSUME Send!Queued, v7 # <<>>
    PROVE  /\ Tail(v7) \in Seq(Send!Messages) /\ Ordered(Tail(v7), Send!Never)
           /\ IsTaken(Head(v7), Send!told, ToldIn(Tail(v7), Send!Sending, Send!Kinds), Send!Sending, Send!Kinds, Send!Never)
<1>1. AreMessages(Send!Messages, Send!Sending, Send!Kinds) /\ v7 \in Seq(Send!Messages) /\ Ordered(v7, Send!Never)
      /\ Send!told = ToldIn(v7, Send!Sending, Send!Kinds)
  BY SendMessages
<1>2. Tail(v7) \in Seq(Send!Messages)
  BY <1>1, HeadIsTaken
<1>3. Ordered(Tail(v7), Send!Never)
  BY <1>1, HeadIsTaken
<1>4. IsTaken(Head(v7), ToldIn(v7, Send!Sending, Send!Kinds), ToldIn(Tail(v7), Send!Sending, Send!Kinds), Send!Sending, Send!Kinds, Send!Never)
  BY <1>1, HeadIsTaken
<1> QED
  BY <1>1, <1>2, <1>3, <1>4

LEMMA SendTellsOne ==
    ASSUME NEW q \in Seq(Send!Messages), Ordered(q, Send!Never), NEW a \in Send!Sending, NEW x \in Send!Kinds,
           NoneBefore({x}, ToldIn(q, Send!Sending, Send!Kinds)[a], Send!Never),
           v7' = q \o <<Send!Message(a, x)>>
    PROVE  Send!Queued' /\ IsTold({x}, a, ToldIn(q, Send!Sending, Send!Kinds), Send!told')
<1> DEFINE m == <<[of |-> a, kind |-> x]>>
<1>1. Send!Messages = [of : Send!Sending, kind : Send!Kinds]
  BY SendMessages
<1>3. v7' = q \o m
  BY DEF Send!Message
<1>4. q \o m \in Seq(Send!Messages)
  BY <1>1
<1>5. Ordered(q \o m, Send!Never)
  BY <1>1, OneIsTold
<1>6. IsTold({x}, a, ToldIn(q, Send!Sending, Send!Kinds), ToldIn(q \o m, Send!Sending, Send!Kinds))
  BY <1>1, OneIsTold
<1> HIDE DEF m
<1> QED
  BY <1>3, <1>4, <1>5, <1>6, SendMessages

LEMMA SendMessageAdded ==
    ASSUME Send!Queued, NEW a \in Send!Sending, Send!told[a] \subseteq {"start"}, NEW k \in Send!Kinds,
           v7' = Append(v7, Send!Message(a, k))
    PROVE  Send!Queued' /\ Send!told' = [Send!told EXCEPT ![a] = Send!told[a] \cup {k}]
<1>1. v7 \in Seq(Send!Messages) /\ Ordered(v7, Send!Never)
  BY SendMessages
<1>2. NoneBefore({k}, ToldIn(v7, Send!Sending, Send!Kinds)[a], Send!Never)
  <2>1. ToldIn(v7, Send!Sending, Send!Kinds) = Send!told
    BY SendMessages
  <2> QED
    BY <2>1 DEF NoneBefore, Send!Never
<1>3. Send!Message(a, k) \in Send!Messages
  BY DEF Send!Message, Send!Messages
<1>4. v7' = v7 \o <<Send!Message(a, k)>>
  BY <1>1, <1>3, AppendJoins
<1>5. Send!Queued' /\ IsTold({k}, a, ToldIn(v7, Send!Sending, Send!Kinds), Send!told')
  BY <1>1, <1>2, <1>4, SendTellsOne
<1> QED
  BY <1>5, SendMessages DEF IsTold

LEMMA SendBegins == Send!Init => Send!Inv
<1> SUFFICES ASSUME Send!Init PROVE Send!Inv
  OBVIOUS
<1> USE SendAssumption DEF Send!RequestSendAssumption, Send!Init
<1>1. Send!TypeOK
  BY DEF Send!TypeOK
<1>2. Send!Queued /\ Send!told = [s \in Send!Sending |-> {}]
  BY DEF Send!Queued, Send!told
<1>3. Send!Sent /\ Send!OnTheWay
  BY <1>2 DEF Send!Sent, Send!OnTheWay
<1>4. Send!OneSend
  BY DEF Send!OneSend, Send!AtWork
<1>5. Send!ShowsTheSend
  BY DEF Send!ShowsTheSend
<1> QED
  BY <1>1, <1>2, <1>3, <1>4, <1>5 DEF Send!Inv

LEMMA SendEndsAlone ==
    ASSUME NEW s \in Send!Sending, Send!Ended({s}, v8), Send!StreamEnded({s}, v8)
    PROVE  /\ v8' = (IF v8 = s THEN 0 ELSE v8) /\ v9' = (v8' # 0)
           /\ v10' = 0 /\ v14' = (v14 \/ (v10 # 0 /\ v10 = v8 /\ s # v8))
<1>0. s # 0 /\ {s} # {}
  BY DEF Send!Sending
<1>1. v8' = (IF v8 = s THEN 0 ELSE v8) /\ v10' = 0
  BY <1>0 DEF Send!Ended, Send!StreamEnded
<1>2. v9' = (v8' # 0)
  <2>1. CASE v8 = s
    BY <1>1, <2>1 DEF Send!Ended
  <2>2. CASE v8 # s
    BY <1>1, <2>2 DEF Send!Ended
  <2> QED
    BY <2>1, <2>2
<1>3. v14' = (v14 \/ (v10 # 0 /\ v10 = v8 /\ s # v8))
  <2>1. {s} \cap {0, v8} = {} <=> s # v8
    BY <1>0
  <2> QED
    BY <1>0, <2>1 DEF Send!StreamEnded
<1> QED
  BY <1>1, <1>2, <1>3

LEMMA SendOnStreams ==
    ASSUME Send!Inv, NEW s \in Send!Sending, Send!Streams(s)
    PROVE  Send!Inv'
<1> USE SendAssumption DEF Send!RequestSendAssumption, Send!Inv
<1>e. Send!told \in [Send!Sending -> SUBSET Send!Kinds] /\ Send!told' \in [Send!Sending -> SUBSET Send!Kinds]
  BY SendMessages
<1>1. /\ v6[s] = "asked" /\ v6' = [v6 EXCEPT ![s] = "streaming"]
      /\ v1' = v1 /\ v2' = v2 /\ v3' = v3 /\ v4' = v4 /\ v5' = v5 /\ v8' = v8 /\ v9' = v9 /\ v10' = v10 /\ v11' = v11 /\ v12' = v12 /\ v13' = v13 /\ v14' = v14 /\ v15' = v15
  BY DEF Send!Streams, Send!Native
<1>q. Send!Queued' /\ Send!told' = [Send!told EXCEPT ![s] = Send!told[s] \cup {"start"}]
  <2>1. Send!told[s] \subseteq {"start"}
    BY <1>1 DEF Send!OnTheWay
  <2>2. v7' = Append(v7, Send!Message(s, "start"))
    BY DEF Send!Streams, Send!Native
  <2>3. "start" \in Send!Kinds
    BY DEF Send!Kinds
  <2> QED
    BY <2>1, <2>2, <2>3, SendMessageAdded
<1>t. Send!TypeOK'
  <2>1. v1' \in [Send!Sending -> {"new", "building", "sent", "answering", "over"}]
    BY <1>1, <1>q, <1>e DEF Send!TypeOK
  <2>2. {v2', v3', v4', v5', v12'} \subseteq SUBSET Send!Sending
    BY <1>1, <1>q, <1>e DEF Send!TypeOK
  <2>3. v6' \in [Send!Sending -> {"none", "asked", "streaming", "over"}]
    BY <1>1, <1>q, <1>e DEF Send!TypeOK
  <2>4. {v8', v10', v11'} \subseteq {0} \cup Send!Sending
    BY <1>1, <1>q, <1>e DEF Send!TypeOK
  <2>5. {v9', v13', v14', v15'} \subseteq BOOLEAN
    BY <1>1, <1>q, <1>e DEF Send!TypeOK
  <2> QED
    BY <2>1, <2>2, <2>3, <2>4, <2>5 DEF Send!TypeOK
<1>s. Send!Sent'
  <2> SUFFICES ASSUME NEW c \in Send!Sending
               PROVE  /\ v1'[c] = "new" => c \notin v3' /\ v6'[c] = "none"
                      /\ c \in v2' => v1'[c] \notin {"new", "building"}
                      /\ v1'[c] = "sent" => c \notin v3'
    BY DEF Send!Sent
  <2> QED
    BY <1>1, <1>q, <1>e DEF Send!TypeOK, Send!Sent, Send!OneSend, Send!AtWork
<1>w. Send!OnTheWay'
  <2> SUFFICES ASSUME NEW c \in Send!Sending PROVE Send!OnTheWay!(c)'
    BY DEF Send!OnTheWay
  <2> QED
    BY <1>1, <1>q, <1>e DEF Send!TypeOK, Send!Sent, Send!OnTheWay, Send!OneSend, Send!AtWork
<1>o. Send!OneSend'
  <2>1. ASSUME NEW c \in Send!Sending, v6'[c] \in {"asked", "streaming"} PROVE v1'[c] = "sent" /\ c \notin v3'
    BY <2>1, <1>1, <1>q, <1>e DEF Send!TypeOK, Send!Sent, Send!OnTheWay, Send!OneSend, Send!AtWork
  <2>2. ASSUME NEW c \in Send!Sending, Send!AtWork(c)', c \notin v3' PROVE v8' = c
    BY <2>2, <1>1, <1>q, <1>e DEF Send!TypeOK, Send!Sent, Send!OneSend, Send!AtWork
  <2>3. v8' # 0 => Send!AtWork(v8)'
    BY <1>1, <1>q, <1>e DEF Send!TypeOK, Send!OneSend, Send!AtWork, Send!Sending
  <2>4. v9' = (v8' # 0)
    BY <1>1, <1>q, <1>e DEF Send!TypeOK, Send!OneSend, Send!AtWork, Send!Sending
  <2> QED
    BY <2>1, <2>2, <2>3, <2>4 DEF Send!OneSend
<1>v. Send!ShowsTheSend'
  <2>1. v10' # 0 /\ ~v13' => Send!AtWork(v10)' /\ v10' \in v2'
    BY <1>1, <1>q, <1>e DEF Send!TypeOK, Send!Sent, Send!OneSend, Send!AtWork, Send!ShowsTheSend,
       Send!Sending
  <2>2. v8' # 0 /\ ~v14' /\ ~v13' => (v8' \in v2' /\ v1'[v8'] = "sent" => v10' = v8')
    BY <1>1, <1>q, <1>e DEF Send!TypeOK, Send!Sent, Send!OneSend, Send!AtWork, Send!ShowsTheSend,
       Send!Sending
  <2>3. ~v15' => \A c \in v12' : c <= v11'
    BY <1>1, <1>q, <1>e DEF Send!TypeOK, Send!ShowsTheSend, Send!Sending
  <2> QED
    BY <2>1, <2>2, <2>3 DEF Send!ShowsTheSend
<1> QED
  BY <1>q, <1>t, <1>s, <1>w, <1>o, <1>v

LEMMA SendOnStreamOver ==
    ASSUME Send!Inv, NEW s \in Send!Sending, Send!StreamOver(s)
    PROVE  Send!Inv'
<1> USE SendAssumption DEF Send!RequestSendAssumption, Send!Inv
<1>e. Send!told \in [Send!Sending -> SUBSET Send!Kinds] /\ Send!told' \in [Send!Sending -> SUBSET Send!Kinds]
  BY SendMessages
<1>1. /\ v6[s] = "streaming" /\ v6' = [v6 EXCEPT ![s] = "over"]
      /\ v1' = v1 /\ v2' = v2 /\ v3' = v3 /\ v4' = v4 /\ v5' = v5 /\ v8' = v8 /\ v9' = v9 /\ v10' = v10 /\ v11' = v11 /\ v12' = v12 /\ v13' = v13 /\ v14' = v14 /\ v15' = v15
  BY DEF Send!StreamOver, Send!Native
<1>q. Send!Queued' /\ Send!told' = [Send!told EXCEPT ![s] = Send!told[s] \cup {"answer"}]
  <2>1. Send!told[s] \subseteq {"start"}
    BY <1>1 DEF Send!OnTheWay
  <2>2. v7' = Append(v7, Send!Message(s, "answer"))
    BY DEF Send!StreamOver, Send!Native
  <2>3. "answer" \in Send!Kinds
    BY DEF Send!Kinds
  <2> QED
    BY <2>1, <2>2, <2>3, SendMessageAdded
<1>t. Send!TypeOK'
  <2>1. v1' \in [Send!Sending -> {"new", "building", "sent", "answering", "over"}]
    BY <1>1, <1>q, <1>e DEF Send!TypeOK
  <2>2. {v2', v3', v4', v5', v12'} \subseteq SUBSET Send!Sending
    BY <1>1, <1>q, <1>e DEF Send!TypeOK
  <2>3. v6' \in [Send!Sending -> {"none", "asked", "streaming", "over"}]
    BY <1>1, <1>q, <1>e DEF Send!TypeOK
  <2>4. {v8', v10', v11'} \subseteq {0} \cup Send!Sending
    BY <1>1, <1>q, <1>e DEF Send!TypeOK
  <2>5. {v9', v13', v14', v15'} \subseteq BOOLEAN
    BY <1>1, <1>q, <1>e DEF Send!TypeOK
  <2> QED
    BY <2>1, <2>2, <2>3, <2>4, <2>5 DEF Send!TypeOK
<1>s. Send!Sent'
  <2> SUFFICES ASSUME NEW c \in Send!Sending
               PROVE  /\ v1'[c] = "new" => c \notin v3' /\ v6'[c] = "none"
                      /\ c \in v2' => v1'[c] \notin {"new", "building"}
                      /\ v1'[c] = "sent" => c \notin v3'
    BY DEF Send!Sent
  <2> QED
    BY <1>1, <1>q, <1>e DEF Send!TypeOK, Send!Sent, Send!OneSend, Send!AtWork
<1>w. Send!OnTheWay'
  <2> SUFFICES ASSUME NEW c \in Send!Sending PROVE Send!OnTheWay!(c)'
    BY DEF Send!OnTheWay
  <2> QED
    BY <1>1, <1>q, <1>e DEF Send!TypeOK, Send!Sent, Send!OnTheWay, Send!OneSend, Send!AtWork
<1>o. Send!OneSend'
  <2>1. ASSUME NEW c \in Send!Sending, v6'[c] \in {"asked", "streaming"} PROVE v1'[c] = "sent" /\ c \notin v3'
    BY <2>1, <1>1, <1>q, <1>e DEF Send!TypeOK, Send!Sent, Send!OnTheWay, Send!OneSend, Send!AtWork
  <2>2. ASSUME NEW c \in Send!Sending, Send!AtWork(c)', c \notin v3' PROVE v8' = c
    BY <2>2, <1>1, <1>q, <1>e DEF Send!TypeOK, Send!Sent, Send!OneSend, Send!AtWork
  <2>3. v8' # 0 => Send!AtWork(v8)'
    BY <1>1, <1>q, <1>e DEF Send!TypeOK, Send!OneSend, Send!AtWork, Send!Sending
  <2>4. v9' = (v8' # 0)
    BY <1>1, <1>q, <1>e DEF Send!TypeOK, Send!OneSend, Send!AtWork, Send!Sending
  <2> QED
    BY <2>1, <2>2, <2>3, <2>4 DEF Send!OneSend
<1>v. Send!ShowsTheSend'
  <2>1. v10' # 0 /\ ~v13' => Send!AtWork(v10)' /\ v10' \in v2'
    BY <1>1, <1>q, <1>e DEF Send!TypeOK, Send!Sent, Send!OneSend, Send!AtWork, Send!ShowsTheSend,
       Send!Sending
  <2>2. v8' # 0 /\ ~v14' /\ ~v13' => (v8' \in v2' /\ v1'[v8'] = "sent" => v10' = v8')
    BY <1>1, <1>q, <1>e DEF Send!TypeOK, Send!Sent, Send!OneSend, Send!AtWork, Send!ShowsTheSend,
       Send!Sending
  <2>3. ~v15' => \A c \in v12' : c <= v11'
    BY <1>1, <1>q, <1>e DEF Send!TypeOK, Send!ShowsTheSend, Send!Sending
  <2> QED
    BY <2>1, <2>2, <2>3 DEF Send!ShowsTheSend
<1> QED
  BY <1>q, <1>t, <1>s, <1>w, <1>o, <1>v

LEMMA SendOnAnswers ==
    ASSUME Send!Inv, NEW s \in Send!Sending, Send!Answers(s)
    PROVE  Send!Inv'
<1> USE SendAssumption DEF Send!RequestSendAssumption, Send!Inv
<1>e. Send!told \in [Send!Sending -> SUBSET Send!Kinds] /\ Send!told' \in [Send!Sending -> SUBSET Send!Kinds]
  BY SendMessages
<1>1. /\ v6[s] = "asked" /\ v6' = [v6 EXCEPT ![s] = "over"]
      /\ v1' = v1 /\ v2' = v2 /\ v3' = v3 /\ v4' = v4 /\ v5' = v5 /\ v8' = v8 /\ v9' = v9 /\ v10' = v10 /\ v11' = v11 /\ v12' = v12 /\ v13' = v13 /\ v14' = v14 /\ v15' = v15
  BY DEF Send!Answers, Send!Native
<1>2. PICK k \in {"answer", "failure"} : v7' = Append(v7, Send!Message(s, k))
  BY DEF Send!Answers, Send!Native
<1>q. Send!Queued' /\ Send!told' = [Send!told EXCEPT ![s] = Send!told[s] \cup {k}]
  <2>1. Send!told[s] \subseteq {"start"}
    BY <1>1 DEF Send!OnTheWay
  <2>3. k \in Send!Kinds
    BY DEF Send!Kinds
  <2> QED
    BY <1>2, <2>1, <2>3, SendMessageAdded
<1>t. Send!TypeOK'
  <2>1. v1' \in [Send!Sending -> {"new", "building", "sent", "answering", "over"}]
    BY <1>1, <1>q, <1>e DEF Send!TypeOK
  <2>2. {v2', v3', v4', v5', v12'} \subseteq SUBSET Send!Sending
    BY <1>1, <1>q, <1>e DEF Send!TypeOK
  <2>3. v6' \in [Send!Sending -> {"none", "asked", "streaming", "over"}]
    BY <1>1, <1>q, <1>e DEF Send!TypeOK
  <2>4. {v8', v10', v11'} \subseteq {0} \cup Send!Sending
    BY <1>1, <1>q, <1>e DEF Send!TypeOK
  <2>5. {v9', v13', v14', v15'} \subseteq BOOLEAN
    BY <1>1, <1>q, <1>e DEF Send!TypeOK
  <2> QED
    BY <2>1, <2>2, <2>3, <2>4, <2>5 DEF Send!TypeOK
<1>s. Send!Sent'
  <2> SUFFICES ASSUME NEW c \in Send!Sending
               PROVE  /\ v1'[c] = "new" => c \notin v3' /\ v6'[c] = "none"
                      /\ c \in v2' => v1'[c] \notin {"new", "building"}
                      /\ v1'[c] = "sent" => c \notin v3'
    BY DEF Send!Sent
  <2> QED
    BY <1>1, <1>q, <1>e DEF Send!TypeOK, Send!Sent, Send!OneSend, Send!AtWork
<1>w. Send!OnTheWay'
  <2> SUFFICES ASSUME NEW c \in Send!Sending PROVE Send!OnTheWay!(c)'
    BY DEF Send!OnTheWay
  <2> QED
    BY <1>1, <1>q, <1>e DEF Send!TypeOK, Send!Sent, Send!OnTheWay, Send!OneSend, Send!AtWork
<1>o. Send!OneSend'
  <2>1. ASSUME NEW c \in Send!Sending, v6'[c] \in {"asked", "streaming"} PROVE v1'[c] = "sent" /\ c \notin v3'
    BY <2>1, <1>1, <1>q, <1>e DEF Send!TypeOK, Send!Sent, Send!OnTheWay, Send!OneSend, Send!AtWork
  <2>2. ASSUME NEW c \in Send!Sending, Send!AtWork(c)', c \notin v3' PROVE v8' = c
    BY <2>2, <1>1, <1>q, <1>e DEF Send!TypeOK, Send!Sent, Send!OneSend, Send!AtWork
  <2>3. v8' # 0 => Send!AtWork(v8)'
    BY <1>1, <1>q, <1>e DEF Send!TypeOK, Send!OneSend, Send!AtWork, Send!Sending
  <2>4. v9' = (v8' # 0)
    BY <1>1, <1>q, <1>e DEF Send!TypeOK, Send!OneSend, Send!AtWork, Send!Sending
  <2> QED
    BY <2>1, <2>2, <2>3, <2>4 DEF Send!OneSend
<1>v. Send!ShowsTheSend'
  <2>1. v10' # 0 /\ ~v13' => Send!AtWork(v10)' /\ v10' \in v2'
    BY <1>1, <1>q, <1>e DEF Send!TypeOK, Send!Sent, Send!OneSend, Send!AtWork, Send!ShowsTheSend,
       Send!Sending
  <2>2. v8' # 0 /\ ~v14' /\ ~v13' => (v8' \in v2' /\ v1'[v8'] = "sent" => v10' = v8')
    BY <1>1, <1>q, <1>e DEF Send!TypeOK, Send!Sent, Send!OneSend, Send!AtWork, Send!ShowsTheSend,
       Send!Sending
  <2>3. ~v15' => \A c \in v12' : c <= v11'
    BY <1>1, <1>q, <1>e DEF Send!TypeOK, Send!ShowsTheSend, Send!Sending
  <2> QED
    BY <2>1, <2>2, <2>3 DEF Send!ShowsTheSend
<1> QED
  BY <1>q, <1>t, <1>s, <1>w, <1>o, <1>v

LEMMA SendOnBuildFails ==
    ASSUME Send!Inv, NEW s \in Send!Sending, Send!BuildFails(s)
    PROVE  Send!Inv'
<1> USE SendAssumption DEF Send!RequestSendAssumption, Send!Inv
<1>e. Send!told \in [Send!Sending -> SUBSET Send!Kinds] /\ Send!told' \in [Send!Sending -> SUBSET Send!Kinds]
  BY SendMessages
<1>f. /\ v1[s] = "building"
      /\ v1' = [v1 EXCEPT ![s] = "over"]
      /\ v2' = v2 /\ v3' = v3 /\ v4' = v4 /\ v5' = v5 /\ v6' = v6 /\ v11' = v11 /\ v12' = v12 /\ v13' = v13 /\ v15' = v15
      /\ Send!Ended({s}, v8) /\ Send!StreamEnded({s}, v8)
  BY DEF Send!BuildFails, Send!EndWithout
<1>1. /\ v1[s] = "building"
      /\ v1' = [v1 EXCEPT ![s] = "over"]
      /\ v2' = v2 /\ v3' = v3 /\ v4' = v4 /\ v5' = v5 /\ v6' = v6 /\ v11' = v11 /\ v12' = v12 /\ v13' = v13 /\ v15' = v15
      /\ v8' = (IF v8 = s THEN 0 ELSE v8) /\ v9' = (v8' # 0)
      /\ v10' = 0 /\ v14' = (v14 \/ (v10 # 0 /\ v10 = v8 /\ s # v8))
  BY <1>f, SendEndsAlone
<1>q. Send!Queued' /\ Send!told' = Send!told
  BY DEF Send!BuildFails, Send!Queued, Send!told
<1>t. Send!TypeOK'
  <2>1. v1' \in [Send!Sending -> {"new", "building", "sent", "answering", "over"}]
    BY <1>1, <1>q, <1>e DEF Send!TypeOK
  <2>2. {v2', v3', v4', v5', v12'} \subseteq SUBSET Send!Sending
    BY <1>1, <1>q, <1>e DEF Send!TypeOK
  <2>3. v6' \in [Send!Sending -> {"none", "asked", "streaming", "over"}]
    BY <1>1, <1>q, <1>e DEF Send!TypeOK
  <2>4. {v8', v10', v11'} \subseteq {0} \cup Send!Sending
    BY <1>1, <1>q, <1>e DEF Send!TypeOK
  <2>5. {v9', v13', v14', v15'} \subseteq BOOLEAN
    BY <1>1, <1>q, <1>e DEF Send!TypeOK
  <2> QED
    BY <2>1, <2>2, <2>3, <2>4, <2>5 DEF Send!TypeOK
<1>s. Send!Sent'
  <2> SUFFICES ASSUME NEW c \in Send!Sending
               PROVE  /\ v1'[c] = "new" => c \notin v3' /\ v6'[c] = "none"
                      /\ c \in v2' => v1'[c] \notin {"new", "building"}
                      /\ v1'[c] = "sent" => c \notin v3'
    BY DEF Send!Sent
  <2> QED
    BY <1>1, <1>q, <1>e DEF Send!TypeOK, Send!Sent, Send!OneSend, Send!AtWork
<1>w. Send!OnTheWay'
  <2> SUFFICES ASSUME NEW c \in Send!Sending PROVE Send!OnTheWay!(c)'
    BY DEF Send!OnTheWay
  <2> QED
    BY <1>1, <1>q, <1>e DEF Send!TypeOK, Send!Sent, Send!OnTheWay, Send!OneSend, Send!AtWork
<1>o. Send!OneSend'
  <2>1. ASSUME NEW c \in Send!Sending, v6'[c] \in {"asked", "streaming"} PROVE v1'[c] = "sent" /\ c \notin v3'
    BY <2>1, <1>1, <1>q, <1>e DEF Send!TypeOK, Send!Sent, Send!OnTheWay, Send!OneSend, Send!AtWork
  <2>2. ASSUME NEW c \in Send!Sending, Send!AtWork(c)', c \notin v3' PROVE v8' = c
    BY <2>2, <1>1, <1>q, <1>e DEF Send!TypeOK, Send!Sent, Send!OneSend, Send!AtWork
  <2>3. v8' # 0 => Send!AtWork(v8)'
    BY <1>1, <1>q, <1>e DEF Send!TypeOK, Send!OneSend, Send!AtWork, Send!Sending
  <2>4. v9' = (v8' # 0)
    BY <1>1, <1>q, <1>e DEF Send!TypeOK, Send!OneSend, Send!AtWork, Send!Sending
  <2> QED
    BY <2>1, <2>2, <2>3, <2>4 DEF Send!OneSend
<1>v. Send!ShowsTheSend'
  <2>1. v10' # 0 /\ ~v13' => Send!AtWork(v10)' /\ v10' \in v2'
    BY <1>1, <1>q, <1>e DEF Send!TypeOK, Send!Sent, Send!OneSend, Send!AtWork, Send!ShowsTheSend,
       Send!Sending
  <2>2. v8' # 0 /\ ~v14' /\ ~v13' => (v8' \in v2' /\ v1'[v8'] = "sent" => v10' = v8')
    BY <1>1, <1>q, <1>e DEF Send!TypeOK, Send!Sent, Send!OneSend, Send!AtWork, Send!ShowsTheSend,
       Send!Sending
  <2>3. ~v15' => \A c \in v12' : c <= v11'
    BY <1>1, <1>q, <1>e DEF Send!TypeOK, Send!ShowsTheSend, Send!Sending
  <2> QED
    BY <2>1, <2>2, <2>3 DEF Send!ShowsTheSend
<1> QED
  BY <1>q, <1>t, <1>s, <1>w, <1>o, <1>v

LEMMA SendOnDone ==
    ASSUME Send!Inv, NEW s \in Send!Sending, Send!Done(s)
    PROVE  Send!Inv'
<1> USE SendAssumption DEF Send!RequestSendAssumption, Send!Inv
<1>e. Send!told \in [Send!Sending -> SUBSET Send!Kinds] /\ Send!told' \in [Send!Sending -> SUBSET Send!Kinds]
  BY SendMessages
<1>f. /\ v1[s] = "answering" /\ v11' = s /\ v12' = v12 \cup {s}
      /\ v15' = (v15 \/ \E t \in v12 : t > s)
      /\ v1' = [v1 EXCEPT ![s] = "over"]
      /\ v2' = v2 /\ v3' = v3 /\ v4' = v4 /\ v5' = v5 /\ v6' = v6 /\ v13' = v13
      /\ Send!Ended({s}, v8) /\ Send!StreamEnded({s}, v8)
  BY DEF Send!Done, Send!EndWith
<1>1. /\ v1[s] = "answering" /\ v11' = s /\ v12' = v12 \cup {s}
      /\ v15' = (v15 \/ \E t \in v12 : t > s)
      /\ v1' = [v1 EXCEPT ![s] = "over"]
      /\ v2' = v2 /\ v3' = v3 /\ v4' = v4 /\ v5' = v5 /\ v6' = v6 /\ v13' = v13
      /\ v8' = (IF v8 = s THEN 0 ELSE v8) /\ v9' = (v8' # 0)
      /\ v10' = 0 /\ v14' = (v14 \/ (v10 # 0 /\ v10 = v8 /\ s # v8))
  BY <1>f, SendEndsAlone
<1>q. Send!Queued' /\ Send!told' = Send!told
  BY DEF Send!Done, Send!Queued, Send!told
<1>t. Send!TypeOK'
  <2>1. v1' \in [Send!Sending -> {"new", "building", "sent", "answering", "over"}]
    BY <1>1, <1>q, <1>e DEF Send!TypeOK
  <2>2. {v2', v3', v4', v5', v12'} \subseteq SUBSET Send!Sending
    BY <1>1, <1>q, <1>e DEF Send!TypeOK
  <2>3. v6' \in [Send!Sending -> {"none", "asked", "streaming", "over"}]
    BY <1>1, <1>q, <1>e DEF Send!TypeOK
  <2>4. {v8', v10', v11'} \subseteq {0} \cup Send!Sending
    BY <1>1, <1>q, <1>e DEF Send!TypeOK
  <2>5. {v9', v13', v14', v15'} \subseteq BOOLEAN
    BY <1>1, <1>q, <1>e DEF Send!TypeOK
  <2> QED
    BY <2>1, <2>2, <2>3, <2>4, <2>5 DEF Send!TypeOK
<1>s. Send!Sent'
  <2> SUFFICES ASSUME NEW c \in Send!Sending
               PROVE  /\ v1'[c] = "new" => c \notin v3' /\ v6'[c] = "none"
                      /\ c \in v2' => v1'[c] \notin {"new", "building"}
                      /\ v1'[c] = "sent" => c \notin v3'
    BY DEF Send!Sent
  <2> QED
    BY <1>1, <1>q, <1>e DEF Send!TypeOK, Send!Sent, Send!OneSend, Send!AtWork
<1>w. Send!OnTheWay'
  <2> SUFFICES ASSUME NEW c \in Send!Sending PROVE Send!OnTheWay!(c)'
    BY DEF Send!OnTheWay
  <2> QED
    BY <1>1, <1>q, <1>e DEF Send!TypeOK, Send!Sent, Send!OnTheWay, Send!OneSend, Send!AtWork
<1>o. Send!OneSend'
  <2>1. ASSUME NEW c \in Send!Sending, v6'[c] \in {"asked", "streaming"} PROVE v1'[c] = "sent" /\ c \notin v3'
    BY <2>1, <1>1, <1>q, <1>e DEF Send!TypeOK, Send!Sent, Send!OnTheWay, Send!OneSend, Send!AtWork
  <2>2. ASSUME NEW c \in Send!Sending, Send!AtWork(c)', c \notin v3' PROVE v8' = c
    BY <2>2, <1>1, <1>q, <1>e DEF Send!TypeOK, Send!Sent, Send!OneSend, Send!AtWork
  <2>3. v8' # 0 => Send!AtWork(v8)'
    BY <1>1, <1>q, <1>e DEF Send!TypeOK, Send!OneSend, Send!AtWork, Send!Sending
  <2>4. v9' = (v8' # 0)
    BY <1>1, <1>q, <1>e DEF Send!TypeOK, Send!OneSend, Send!AtWork, Send!Sending
  <2> QED
    BY <2>1, <2>2, <2>3, <2>4 DEF Send!OneSend
<1>v. Send!ShowsTheSend'
  <2>1. v10' # 0 /\ ~v13' => Send!AtWork(v10)' /\ v10' \in v2'
    BY <1>1, <1>q, <1>e DEF Send!TypeOK, Send!Sent, Send!OneSend, Send!AtWork, Send!ShowsTheSend,
       Send!Sending
  <2>2. v8' # 0 /\ ~v14' /\ ~v13' => (v8' \in v2' /\ v1'[v8'] = "sent" => v10' = v8')
    BY <1>1, <1>q, <1>e DEF Send!TypeOK, Send!Sent, Send!OneSend, Send!AtWork, Send!ShowsTheSend,
       Send!Sending
  <2>3. ~v15' => \A c \in v12' : c <= v11'
    <3>1. CASE \E t \in v12 : t > s
      BY <1>1, <3>1
    <3>2. CASE ~\E t \in v12 : t > s
      <4>1. ASSUME NEW c \in v12 PROVE c <= s
        <5>1. c \in Send!Sending /\ ~(c > s)
          BY <3>2 DEF Send!TypeOK
        <5> QED
          BY <5>1 DEF Send!Sending
      <4>2. s <= s
        BY DEF Send!Sending
      <4> QED
        BY <1>1, <4>1, <4>2
    <3> QED
      BY <3>1, <3>2
  <2> QED
    BY <2>1, <2>2, <2>3 DEF Send!ShowsTheSend
<1> QED
  BY <1>q, <1>t, <1>s, <1>w, <1>o, <1>v

LEMMA SendOnBuiltAborted ==
    ASSUME Send!Inv, NEW s \in Send!Sending, Send!Built(s), s \in v3
    PROVE  Send!Inv'
<1> USE SendAssumption DEF Send!RequestSendAssumption, Send!Inv
<1>e. Send!told \in [Send!Sending -> SUBSET Send!Kinds] /\ Send!told' \in [Send!Sending -> SUBSET Send!Kinds]
  BY SendMessages
<1>f. /\ v1[s] = "building"
      /\ v1' = [v1 EXCEPT ![s] = "over"]
      /\ v2' = v2 /\ v3' = v3 /\ v4' = v4 /\ v5' = v5 /\ v6' = v6 /\ v11' = v11 /\ v12' = v12 /\ v13' = v13 /\ v15' = v15
      /\ Send!Ended({s}, v8) /\ Send!StreamEnded({s}, v8)
  BY DEF Send!Built, Send!EndWithout
<1>1. /\ v1[s] = "building"
      /\ v1' = [v1 EXCEPT ![s] = "over"]
      /\ v2' = v2 /\ v3' = v3 /\ v4' = v4 /\ v5' = v5 /\ v6' = v6 /\ v11' = v11 /\ v12' = v12 /\ v13' = v13 /\ v15' = v15
      /\ v8' = (IF v8 = s THEN 0 ELSE v8) /\ v9' = (v8' # 0)
      /\ v10' = 0 /\ v14' = (v14 \/ (v10 # 0 /\ v10 = v8 /\ s # v8))
  BY <1>f, SendEndsAlone
<1>q. Send!Queued' /\ Send!told' = Send!told
  BY DEF Send!Built, Send!Queued, Send!told
<1>t. Send!TypeOK'
  <2>1. v1' \in [Send!Sending -> {"new", "building", "sent", "answering", "over"}]
    BY <1>1, <1>q, <1>e DEF Send!TypeOK
  <2>2. {v2', v3', v4', v5', v12'} \subseteq SUBSET Send!Sending
    BY <1>1, <1>q, <1>e DEF Send!TypeOK
  <2>3. v6' \in [Send!Sending -> {"none", "asked", "streaming", "over"}]
    BY <1>1, <1>q, <1>e DEF Send!TypeOK
  <2>4. {v8', v10', v11'} \subseteq {0} \cup Send!Sending
    BY <1>1, <1>q, <1>e DEF Send!TypeOK
  <2>5. {v9', v13', v14', v15'} \subseteq BOOLEAN
    BY <1>1, <1>q, <1>e DEF Send!TypeOK
  <2> QED
    BY <2>1, <2>2, <2>3, <2>4, <2>5 DEF Send!TypeOK
<1>s. Send!Sent'
  <2> SUFFICES ASSUME NEW c \in Send!Sending
               PROVE  /\ v1'[c] = "new" => c \notin v3' /\ v6'[c] = "none"
                      /\ c \in v2' => v1'[c] \notin {"new", "building"}
                      /\ v1'[c] = "sent" => c \notin v3'
    BY DEF Send!Sent
  <2> QED
    BY <1>1, <1>q, <1>e DEF Send!TypeOK, Send!Sent, Send!OneSend, Send!AtWork
<1>w. Send!OnTheWay'
  <2> SUFFICES ASSUME NEW c \in Send!Sending PROVE Send!OnTheWay!(c)'
    BY DEF Send!OnTheWay
  <2> QED
    BY <1>1, <1>q, <1>e DEF Send!TypeOK, Send!Sent, Send!OnTheWay, Send!OneSend, Send!AtWork
<1>o. Send!OneSend'
  <2>1. ASSUME NEW c \in Send!Sending, v6'[c] \in {"asked", "streaming"} PROVE v1'[c] = "sent" /\ c \notin v3'
    BY <2>1, <1>1, <1>q, <1>e DEF Send!TypeOK, Send!Sent, Send!OnTheWay, Send!OneSend, Send!AtWork
  <2>2. ASSUME NEW c \in Send!Sending, Send!AtWork(c)', c \notin v3' PROVE v8' = c
    BY <2>2, <1>1, <1>q, <1>e DEF Send!TypeOK, Send!Sent, Send!OneSend, Send!AtWork
  <2>3. v8' # 0 => Send!AtWork(v8)'
    BY <1>1, <1>q, <1>e DEF Send!TypeOK, Send!OneSend, Send!AtWork, Send!Sending
  <2>4. v9' = (v8' # 0)
    BY <1>1, <1>q, <1>e DEF Send!TypeOK, Send!OneSend, Send!AtWork, Send!Sending
  <2> QED
    BY <2>1, <2>2, <2>3, <2>4 DEF Send!OneSend
<1>v. Send!ShowsTheSend'
  <2>1. v10' # 0 /\ ~v13' => Send!AtWork(v10)' /\ v10' \in v2'
    BY <1>1, <1>q, <1>e DEF Send!TypeOK, Send!Sent, Send!OneSend, Send!AtWork, Send!ShowsTheSend,
       Send!Sending
  <2>2. v8' # 0 /\ ~v14' /\ ~v13' => (v8' \in v2' /\ v1'[v8'] = "sent" => v10' = v8')
    BY <1>1, <1>q, <1>e DEF Send!TypeOK, Send!Sent, Send!OneSend, Send!AtWork, Send!ShowsTheSend,
       Send!Sending
  <2>3. ~v15' => \A c \in v12' : c <= v11'
    BY <1>1, <1>q, <1>e DEF Send!TypeOK, Send!ShowsTheSend, Send!Sending
  <2> QED
    BY <2>1, <2>2, <2>3 DEF Send!ShowsTheSend
<1> QED
  BY <1>q, <1>t, <1>s, <1>w, <1>o, <1>v

LEMMA SendOnChallengeAborted ==
    ASSUME Send!Inv, NEW s \in Send!Sending, Send!AnswersChallenge(s), s \in v3 \cup v4
    PROVE  Send!Inv'
<1> USE SendAssumption DEF Send!RequestSendAssumption, Send!Inv
<1>e. Send!told \in [Send!Sending -> SUBSET Send!Kinds] /\ Send!told' \in [Send!Sending -> SUBSET Send!Kinds]
  BY SendMessages
<1>f. /\ v1[s] = "answering" /\ v5' = v5 \cup {s}
      /\ v1' = [v1 EXCEPT ![s] = "over"]
      /\ v2' = v2 /\ v3' = v3 /\ v4' = v4 /\ v6' = v6 /\ v11' = v11 /\ v12' = v12 /\ v13' = v13 /\ v15' = v15
      /\ Send!Ended({s}, v8) /\ Send!StreamEnded({s}, v8)
  BY DEF Send!AnswersChallenge, Send!EndWithout
<1>1. /\ v1[s] = "answering" /\ v5' = v5 \cup {s}
      /\ v1' = [v1 EXCEPT ![s] = "over"]
      /\ v2' = v2 /\ v3' = v3 /\ v4' = v4 /\ v6' = v6 /\ v11' = v11 /\ v12' = v12 /\ v13' = v13 /\ v15' = v15
      /\ v8' = (IF v8 = s THEN 0 ELSE v8) /\ v9' = (v8' # 0)
      /\ v10' = 0 /\ v14' = (v14 \/ (v10 # 0 /\ v10 = v8 /\ s # v8))
  BY <1>f, SendEndsAlone
<1>q. Send!Queued' /\ Send!told' = Send!told
  BY DEF Send!AnswersChallenge, Send!Queued, Send!told
<1>t. Send!TypeOK'
  <2>1. v1' \in [Send!Sending -> {"new", "building", "sent", "answering", "over"}]
    BY <1>1, <1>q, <1>e DEF Send!TypeOK
  <2>2. {v2', v3', v4', v5', v12'} \subseteq SUBSET Send!Sending
    BY <1>1, <1>q, <1>e DEF Send!TypeOK
  <2>3. v6' \in [Send!Sending -> {"none", "asked", "streaming", "over"}]
    BY <1>1, <1>q, <1>e DEF Send!TypeOK
  <2>4. {v8', v10', v11'} \subseteq {0} \cup Send!Sending
    BY <1>1, <1>q, <1>e DEF Send!TypeOK
  <2>5. {v9', v13', v14', v15'} \subseteq BOOLEAN
    BY <1>1, <1>q, <1>e DEF Send!TypeOK
  <2> QED
    BY <2>1, <2>2, <2>3, <2>4, <2>5 DEF Send!TypeOK
<1>s. Send!Sent'
  <2> SUFFICES ASSUME NEW c \in Send!Sending
               PROVE  /\ v1'[c] = "new" => c \notin v3' /\ v6'[c] = "none"
                      /\ c \in v2' => v1'[c] \notin {"new", "building"}
                      /\ v1'[c] = "sent" => c \notin v3'
    BY DEF Send!Sent
  <2> QED
    BY <1>1, <1>q, <1>e DEF Send!TypeOK, Send!Sent, Send!OneSend, Send!AtWork
<1>w. Send!OnTheWay'
  <2> SUFFICES ASSUME NEW c \in Send!Sending PROVE Send!OnTheWay!(c)'
    BY DEF Send!OnTheWay
  <2> QED
    BY <1>1, <1>q, <1>e DEF Send!TypeOK, Send!Sent, Send!OnTheWay, Send!OneSend, Send!AtWork
<1>o. Send!OneSend'
  <2>1. ASSUME NEW c \in Send!Sending, v6'[c] \in {"asked", "streaming"} PROVE v1'[c] = "sent" /\ c \notin v3'
    BY <2>1, <1>1, <1>q, <1>e DEF Send!TypeOK, Send!Sent, Send!OnTheWay, Send!OneSend, Send!AtWork
  <2>2. ASSUME NEW c \in Send!Sending, Send!AtWork(c)', c \notin v3' PROVE v8' = c
    BY <2>2, <1>1, <1>q, <1>e DEF Send!TypeOK, Send!Sent, Send!OneSend, Send!AtWork
  <2>3. v8' # 0 => Send!AtWork(v8)'
    BY <1>1, <1>q, <1>e DEF Send!TypeOK, Send!OneSend, Send!AtWork, Send!Sending
  <2>4. v9' = (v8' # 0)
    BY <1>1, <1>q, <1>e DEF Send!TypeOK, Send!OneSend, Send!AtWork, Send!Sending
  <2> QED
    BY <2>1, <2>2, <2>3, <2>4 DEF Send!OneSend
<1>v. Send!ShowsTheSend'
  <2>1. v10' # 0 /\ ~v13' => Send!AtWork(v10)' /\ v10' \in v2'
    BY <1>1, <1>q, <1>e DEF Send!TypeOK, Send!Sent, Send!OneSend, Send!AtWork, Send!ShowsTheSend,
       Send!Sending
  <2>2. v8' # 0 /\ ~v14' /\ ~v13' => (v8' \in v2' /\ v1'[v8'] = "sent" => v10' = v8')
    BY <1>1, <1>q, <1>e DEF Send!TypeOK, Send!Sent, Send!OneSend, Send!AtWork, Send!ShowsTheSend,
       Send!Sending
  <2>3. ~v15' => \A c \in v12' : c <= v11'
    BY <1>1, <1>q, <1>e DEF Send!TypeOK, Send!ShowsTheSend, Send!Sending
  <2> QED
    BY <2>1, <2>2, <2>3 DEF Send!ShowsTheSend
<1> QED
  BY <1>q, <1>t, <1>s, <1>w, <1>o, <1>v

LEMMA SendOnBuilt ==
    ASSUME Send!Inv, NEW s \in Send!Sending, Send!Built(s), s \notin v3
    PROVE  Send!Inv'
<1> USE SendAssumption DEF Send!RequestSendAssumption, Send!Inv
<1>e. Send!told \in [Send!Sending -> SUBSET Send!Kinds] /\ Send!told' \in [Send!Sending -> SUBSET Send!Kinds]
  BY SendMessages
<1>1. /\ v1[s] = "building" /\ v1' = [v1 EXCEPT ![s] = "sent"] /\ v6' = [v6 EXCEPT ![s] = "asked"]
      /\ v2' = v2 /\ v3' = v3 /\ v4' = v4 /\ v5' = v5 /\ v8' = v8 /\ v9' = v9 /\ v10' = v10 /\ v11' = v11 /\ v12' = v12 /\ v13' = v13 /\ v14' = v14 /\ v15' = v15
  BY DEF Send!Built, Send!Execute
<1>q. Send!Queued' /\ Send!told' = Send!told
  BY DEF Send!Built, Send!Queued, Send!told
<1>t. Send!TypeOK'
  <2>1. v1' \in [Send!Sending -> {"new", "building", "sent", "answering", "over"}]
    BY <1>1, <1>q, <1>e DEF Send!TypeOK
  <2>2. {v2', v3', v4', v5', v12'} \subseteq SUBSET Send!Sending
    BY <1>1, <1>q, <1>e DEF Send!TypeOK
  <2>3. v6' \in [Send!Sending -> {"none", "asked", "streaming", "over"}]
    BY <1>1, <1>q, <1>e DEF Send!TypeOK
  <2>4. {v8', v10', v11'} \subseteq {0} \cup Send!Sending
    BY <1>1, <1>q, <1>e DEF Send!TypeOK
  <2>5. {v9', v13', v14', v15'} \subseteq BOOLEAN
    BY <1>1, <1>q, <1>e DEF Send!TypeOK
  <2> QED
    BY <2>1, <2>2, <2>3, <2>4, <2>5 DEF Send!TypeOK
<1>s. Send!Sent'
  <2> SUFFICES ASSUME NEW c \in Send!Sending
               PROVE  /\ v1'[c] = "new" => c \notin v3' /\ v6'[c] = "none"
                      /\ c \in v2' => v1'[c] \notin {"new", "building"}
                      /\ v1'[c] = "sent" => c \notin v3'
    BY DEF Send!Sent
  <2> QED
    BY <1>1, <1>q, <1>e DEF Send!TypeOK, Send!Sent, Send!OneSend, Send!AtWork
<1>w. Send!OnTheWay'
  <2> SUFFICES ASSUME NEW c \in Send!Sending PROVE Send!OnTheWay!(c)'
    BY DEF Send!OnTheWay
  <2> QED
    BY <1>1, <1>q, <1>e DEF Send!TypeOK, Send!Sent, Send!OnTheWay, Send!OneSend, Send!AtWork
<1>o. Send!OneSend'
  <2>1. ASSUME NEW c \in Send!Sending, v6'[c] \in {"asked", "streaming"} PROVE v1'[c] = "sent" /\ c \notin v3'
    BY <2>1, <1>1, <1>q, <1>e DEF Send!TypeOK, Send!Sent, Send!OnTheWay, Send!OneSend, Send!AtWork
  <2>2. ASSUME NEW c \in Send!Sending, Send!AtWork(c)', c \notin v3' PROVE v8' = c
    BY <2>2, <1>1, <1>q, <1>e DEF Send!TypeOK, Send!Sent, Send!OneSend, Send!AtWork
  <2>3. v8' # 0 => Send!AtWork(v8)'
    BY <1>1, <1>q, <1>e DEF Send!TypeOK, Send!OneSend, Send!AtWork, Send!Sending
  <2>4. v9' = (v8' # 0)
    BY <1>1, <1>q, <1>e DEF Send!TypeOK, Send!OneSend, Send!AtWork, Send!Sending
  <2> QED
    BY <2>1, <2>2, <2>3, <2>4 DEF Send!OneSend
<1>v. Send!ShowsTheSend'
  <2>1. v10' # 0 /\ ~v13' => Send!AtWork(v10)' /\ v10' \in v2'
    BY <1>1, <1>q, <1>e DEF Send!TypeOK, Send!Sent, Send!OneSend, Send!AtWork, Send!ShowsTheSend,
       Send!Sending
  <2>2. v8' # 0 /\ ~v14' /\ ~v13' => (v8' \in v2' /\ v1'[v8'] = "sent" => v10' = v8')
    BY <1>1, <1>q, <1>e DEF Send!TypeOK, Send!Sent, Send!OneSend, Send!AtWork, Send!ShowsTheSend,
       Send!Sending
  <2>3. ~v15' => \A c \in v12' : c <= v11'
    BY <1>1, <1>q, <1>e DEF Send!TypeOK, Send!ShowsTheSend, Send!Sending
  <2> QED
    BY <2>1, <2>2, <2>3 DEF Send!ShowsTheSend
<1> QED
  BY <1>q, <1>t, <1>s, <1>w, <1>o, <1>v

LEMMA SendOnChallenge ==
    ASSUME Send!Inv, NEW s \in Send!Sending, Send!AnswersChallenge(s), s \notin v3 \cup v4
    PROVE  Send!Inv'
<1> USE SendAssumption DEF Send!RequestSendAssumption, Send!Inv
<1>e. Send!told \in [Send!Sending -> SUBSET Send!Kinds] /\ Send!told' \in [Send!Sending -> SUBSET Send!Kinds]
  BY SendMessages
<1>1. /\ v1[s] = "answering" /\ v1' = [v1 EXCEPT ![s] = "sent"] /\ v6' = [v6 EXCEPT ![s] = "asked"]
      /\ s \notin v2 /\ v5' = v5 \cup {s}
      /\ v2' = v2 /\ v3' = v3 /\ v4' = v4 /\ v8' = v8 /\ v9' = v9 /\ v10' = v10 /\ v11' = v11 /\ v12' = v12 /\ v13' = v13 /\ v14' = v14 /\ v15' = v15
  BY DEF Send!AnswersChallenge, Send!Execute
<1>q. Send!Queued' /\ Send!told' = Send!told
  BY DEF Send!AnswersChallenge, Send!Queued, Send!told
<1>t. Send!TypeOK'
  <2>1. v1' \in [Send!Sending -> {"new", "building", "sent", "answering", "over"}]
    BY <1>1, <1>q, <1>e DEF Send!TypeOK
  <2>2. {v2', v3', v4', v5', v12'} \subseteq SUBSET Send!Sending
    BY <1>1, <1>q, <1>e DEF Send!TypeOK
  <2>3. v6' \in [Send!Sending -> {"none", "asked", "streaming", "over"}]
    BY <1>1, <1>q, <1>e DEF Send!TypeOK
  <2>4. {v8', v10', v11'} \subseteq {0} \cup Send!Sending
    BY <1>1, <1>q, <1>e DEF Send!TypeOK
  <2>5. {v9', v13', v14', v15'} \subseteq BOOLEAN
    BY <1>1, <1>q, <1>e DEF Send!TypeOK
  <2> QED
    BY <2>1, <2>2, <2>3, <2>4, <2>5 DEF Send!TypeOK
<1>s. Send!Sent'
  <2> SUFFICES ASSUME NEW c \in Send!Sending
               PROVE  /\ v1'[c] = "new" => c \notin v3' /\ v6'[c] = "none"
                      /\ c \in v2' => v1'[c] \notin {"new", "building"}
                      /\ v1'[c] = "sent" => c \notin v3'
    BY DEF Send!Sent
  <2> QED
    BY <1>1, <1>q, <1>e DEF Send!TypeOK, Send!Sent, Send!OneSend, Send!AtWork
<1>w. Send!OnTheWay'
  <2> SUFFICES ASSUME NEW c \in Send!Sending PROVE Send!OnTheWay!(c)'
    BY DEF Send!OnTheWay
  <2> QED
    BY <1>1, <1>q, <1>e DEF Send!TypeOK, Send!Sent, Send!OnTheWay, Send!OneSend, Send!AtWork
<1>o. Send!OneSend'
  <2>1. ASSUME NEW c \in Send!Sending, v6'[c] \in {"asked", "streaming"} PROVE v1'[c] = "sent" /\ c \notin v3'
    BY <2>1, <1>1, <1>q, <1>e DEF Send!TypeOK, Send!Sent, Send!OnTheWay, Send!OneSend, Send!AtWork
  <2>2. ASSUME NEW c \in Send!Sending, Send!AtWork(c)', c \notin v3' PROVE v8' = c
    BY <2>2, <1>1, <1>q, <1>e DEF Send!TypeOK, Send!Sent, Send!OneSend, Send!AtWork
  <2>3. v8' # 0 => Send!AtWork(v8)'
    BY <1>1, <1>q, <1>e DEF Send!TypeOK, Send!OneSend, Send!AtWork, Send!Sending
  <2>4. v9' = (v8' # 0)
    BY <1>1, <1>q, <1>e DEF Send!TypeOK, Send!OneSend, Send!AtWork, Send!Sending
  <2> QED
    BY <2>1, <2>2, <2>3, <2>4 DEF Send!OneSend
<1>v. Send!ShowsTheSend'
  <2>1. v10' # 0 /\ ~v13' => Send!AtWork(v10)' /\ v10' \in v2'
    BY <1>1, <1>q, <1>e DEF Send!TypeOK, Send!Sent, Send!OneSend, Send!AtWork, Send!ShowsTheSend,
       Send!Sending
  <2>2. v8' # 0 /\ ~v14' /\ ~v13' => (v8' \in v2' /\ v1'[v8'] = "sent" => v10' = v8')
    BY <1>1, <1>q, <1>e DEF Send!TypeOK, Send!Sent, Send!OneSend, Send!AtWork, Send!ShowsTheSend,
       Send!Sending
  <2>3. ~v15' => \A c \in v12' : c <= v11'
    BY <1>1, <1>q, <1>e DEF Send!TypeOK, Send!ShowsTheSend, Send!Sending
  <2> QED
    BY <2>1, <2>2, <2>3 DEF Send!ShowsTheSend
<1> QED
  BY <1>q, <1>t, <1>s, <1>w, <1>o, <1>v

LEMMA SendOnTakeStart ==
    ASSUME Send!Inv, Send!Take, Head(v7).kind = "start"
    PROVE  Send!Inv'
<1> USE SendAssumption DEF Send!RequestSendAssumption, Send!Inv
<1>e. Send!told \in [Send!Sending -> SUBSET Send!Kinds] /\ Send!told' \in [Send!Sending -> SUBSET Send!Kinds]
  BY SendMessages
<1>a. /\ Tail(v7) \in Seq(Send!Messages) /\ Ordered(Tail(v7), Send!Never)
      /\ IsTaken(Head(v7), Send!told, ToldIn(Tail(v7), Send!Sending, Send!Kinds), Send!Sending, Send!Kinds, Send!Never)
  BY SendTakes DEF Send!Take
<1> DEFINE t == ToldIn(Tail(v7), Send!Sending, Send!Kinds)
<1>b. PICK s \in Send!Sending, l \in Send!Kinds :
        /\ Head(v7).of = s /\ Head(v7).kind = l /\ l \in Send!told[s]
        /\ \A b \in Send!Sending : b # s => t[b] = Send!told[b]
        /\ t[s] \subseteq Send!told[s] /\ Send!told[s] \subseteq t[s] \cup {l}
        /\ \A k \in t[s] : <<l, k>> \notin Send!Never
  BY <1>a DEF IsTaken
<1>q. Send!Queued' /\ Send!told' = t
  <2>1. v7' = Tail(v7)
    BY DEF Send!Take
  <2> QED
    BY <1>a, <2>1, SendMessages DEF t
<1> HIDE DEF t
<1>1. /\ l = "start" /\ v2' = v2 \cup {s} /\ v10' = s
      /\ v13' = (v13 \/ v1[s] # "sent")
      /\ v1' = v1 /\ v3' = v3 /\ v4' = v4 /\ v5' = v5 /\ v6' = v6 /\ v8' = v8 /\ v9' = v9 /\ v11' = v11 /\ v12' = v12 /\ v14' = v14 /\ v15' = v15
  BY <1>b DEF Send!Take, Send!TakeStart
<1>t. Send!TypeOK'
  <2>1. v1' \in [Send!Sending -> {"new", "building", "sent", "answering", "over"}]
    BY <1>b, <1>1, <1>q, <1>e DEF Send!TypeOK
  <2>2. {v2', v3', v4', v5', v12'} \subseteq SUBSET Send!Sending
    BY <1>b, <1>1, <1>q, <1>e DEF Send!TypeOK
  <2>3. v6' \in [Send!Sending -> {"none", "asked", "streaming", "over"}]
    BY <1>b, <1>1, <1>q, <1>e DEF Send!TypeOK
  <2>4. {v8', v10', v11'} \subseteq {0} \cup Send!Sending
    BY <1>b, <1>1, <1>q, <1>e DEF Send!TypeOK
  <2>5. {v9', v13', v14', v15'} \subseteq BOOLEAN
    BY <1>b, <1>1, <1>q, <1>e DEF Send!TypeOK
  <2> QED
    BY <2>1, <2>2, <2>3, <2>4, <2>5 DEF Send!TypeOK
<1>s. Send!Sent'
  <2> SUFFICES ASSUME NEW c \in Send!Sending
               PROVE  /\ v1'[c] = "new" => c \notin v3' /\ v6'[c] = "none"
                      /\ c \in v2' => v1'[c] \notin {"new", "building"}
                      /\ v1'[c] = "sent" => c \notin v3'
    BY DEF Send!Sent
  <2> QED
    <3>1. v1[s] \in {"sent", "answering", "over"}
      BY <1>b DEF Send!OnTheWay
    <3> QED
      BY <1>b, <1>1, <3>1 DEF Send!TypeOK, Send!Sent
<1>w. Send!OnTheWay'
  <2> SUFFICES ASSUME NEW c \in Send!Sending PROVE Send!OnTheWay!(c)'
    BY DEF Send!OnTheWay
  <2> QED
    BY <1>b, <1>1, <1>q, <1>e DEF Send!TypeOK, Send!Sent, Send!OnTheWay, Send!OneSend, Send!AtWork
<1>o. Send!OneSend'
  <2>1. ASSUME NEW c \in Send!Sending, v6'[c] \in {"asked", "streaming"} PROVE v1'[c] = "sent" /\ c \notin v3'
    BY <2>1, <1>b, <1>1, <1>q, <1>e DEF Send!TypeOK, Send!Sent, Send!OnTheWay, Send!OneSend,
       Send!AtWork
  <2>2. ASSUME NEW c \in Send!Sending, Send!AtWork(c)', c \notin v3' PROVE v8' = c
    BY <2>2, <1>b, <1>1, <1>q, <1>e DEF Send!TypeOK, Send!Sent, Send!OneSend, Send!AtWork
  <2>3. v8' # 0 => Send!AtWork(v8)'
    BY <1>b, <1>1, <1>q, <1>e DEF Send!TypeOK, Send!OneSend, Send!AtWork, Send!Sending
  <2>4. v9' = (v8' # 0)
    BY <1>b, <1>1, <1>q, <1>e DEF Send!TypeOK, Send!OneSend, Send!AtWork, Send!Sending
  <2> QED
    BY <2>1, <2>2, <2>3, <2>4 DEF Send!OneSend
<1>v. Send!ShowsTheSend'
  <2>1. v10' # 0 /\ ~v13' => Send!AtWork(v10)' /\ v10' \in v2'
    BY <1>b, <1>1, <1>q, <1>e DEF Send!TypeOK, Send!Sent, Send!OneSend, Send!AtWork,
       Send!ShowsTheSend, Send!Sending
  <2>2. v8' # 0 /\ ~v14' /\ ~v13' => (v8' \in v2' /\ v1'[v8'] = "sent" => v10' = v8')
    BY <1>b, <1>1, <1>q, <1>e DEF Send!TypeOK, Send!Sent, Send!OneSend, Send!AtWork,
       Send!ShowsTheSend, Send!Sending
  <2>3. ~v15' => \A c \in v12' : c <= v11'
    BY <1>b, <1>1, <1>q, <1>e DEF Send!TypeOK, Send!ShowsTheSend, Send!Sending
  <2> QED
    BY <2>1, <2>2, <2>3 DEF Send!ShowsTheSend
<1> QED
  BY <1>q, <1>t, <1>s, <1>w, <1>o, <1>v

LEMMA SendOnTakeAnswer ==
    ASSUME Send!Inv, Send!Take, Head(v7).kind = "answer", v1[Head(v7).of] = "sent"
    PROVE  Send!Inv'
<1> USE SendAssumption DEF Send!RequestSendAssumption, Send!Inv
<1>e. Send!told \in [Send!Sending -> SUBSET Send!Kinds] /\ Send!told' \in [Send!Sending -> SUBSET Send!Kinds]
  BY SendMessages
<1>a. /\ Tail(v7) \in Seq(Send!Messages) /\ Ordered(Tail(v7), Send!Never)
      /\ IsTaken(Head(v7), Send!told, ToldIn(Tail(v7), Send!Sending, Send!Kinds), Send!Sending, Send!Kinds, Send!Never)
  BY SendTakes DEF Send!Take
<1> DEFINE t == ToldIn(Tail(v7), Send!Sending, Send!Kinds)
<1>b. PICK s \in Send!Sending, l \in Send!Kinds :
        /\ Head(v7).of = s /\ Head(v7).kind = l /\ l \in Send!told[s]
        /\ \A b \in Send!Sending : b # s => t[b] = Send!told[b]
        /\ t[s] \subseteq Send!told[s] /\ Send!told[s] \subseteq t[s] \cup {l}
        /\ \A k \in t[s] : <<l, k>> \notin Send!Never
  BY <1>a DEF IsTaken
<1>q. Send!Queued' /\ Send!told' = t
  <2>1. v7' = Tail(v7)
    BY DEF Send!Take
  <2> QED
    BY <1>a, <2>1, SendMessages DEF t
<1> HIDE DEF t
<1>1. /\ l = "answer" /\ v1[s] = "sent" /\ v1' = [v1 EXCEPT ![s] = "answering"]
      /\ v2' = v2 /\ v3' = v3 /\ v4' = v4 /\ v5' = v5 /\ v6' = v6 /\ v8' = v8 /\ v9' = v9 /\ v10' = v10 /\ v11' = v11 /\ v12' = v12 /\ v13' = v13 /\ v14' = v14 /\ v15' = v15
  BY <1>b DEF Send!Take, Send!TakeAnswer
<1>t. Send!TypeOK'
  <2>1. v1' \in [Send!Sending -> {"new", "building", "sent", "answering", "over"}]
    BY <1>b, <1>1, <1>q, <1>e DEF Send!TypeOK
  <2>2. {v2', v3', v4', v5', v12'} \subseteq SUBSET Send!Sending
    BY <1>b, <1>1, <1>q, <1>e DEF Send!TypeOK
  <2>3. v6' \in [Send!Sending -> {"none", "asked", "streaming", "over"}]
    BY <1>b, <1>1, <1>q, <1>e DEF Send!TypeOK
  <2>4. {v8', v10', v11'} \subseteq {0} \cup Send!Sending
    BY <1>b, <1>1, <1>q, <1>e DEF Send!TypeOK
  <2>5. {v9', v13', v14', v15'} \subseteq BOOLEAN
    BY <1>b, <1>1, <1>q, <1>e DEF Send!TypeOK
  <2> QED
    BY <2>1, <2>2, <2>3, <2>4, <2>5 DEF Send!TypeOK
<1>s. Send!Sent'
  <2> SUFFICES ASSUME NEW c \in Send!Sending
               PROVE  /\ v1'[c] = "new" => c \notin v3' /\ v6'[c] = "none"
                      /\ c \in v2' => v1'[c] \notin {"new", "building"}
                      /\ v1'[c] = "sent" => c \notin v3'
    BY DEF Send!Sent
  <2> QED
    BY <1>b, <1>1, <1>q, <1>e DEF Send!TypeOK, Send!Sent, Send!OneSend, Send!AtWork
<1>w. Send!OnTheWay'
  <2> SUFFICES ASSUME NEW c \in Send!Sending PROVE Send!OnTheWay!(c)'
    BY DEF Send!OnTheWay
  <2> QED
    <3>1. t[s] = {} /\ Send!told[s] \cap {"answer", "failure"} # {}
      BY <1>b, <1>e, <1>q, <1>1 DEF Send!Never
    <3>2. CASE c = s
      BY <1>b, <1>1, <1>q, <1>e, <3>1, <3>2 DEF Send!TypeOK, Send!OnTheWay
    <3>3. CASE c # s
      BY <1>b, <1>1, <1>q, <1>e, <3>3 DEF Send!TypeOK, Send!OnTheWay
    <3> QED
      BY <3>2, <3>3
<1>o. Send!OneSend'
  <2>1. ASSUME NEW c \in Send!Sending, v6'[c] \in {"asked", "streaming"} PROVE v1'[c] = "sent" /\ c \notin v3'
    BY <2>1, <1>b, <1>1, <1>q, <1>e DEF Send!TypeOK, Send!Sent, Send!OnTheWay, Send!OneSend,
       Send!AtWork
  <2>2. ASSUME NEW c \in Send!Sending, Send!AtWork(c)', c \notin v3' PROVE v8' = c
    BY <2>2, <1>b, <1>1, <1>q, <1>e DEF Send!TypeOK, Send!Sent, Send!OneSend, Send!AtWork
  <2>3. v8' # 0 => Send!AtWork(v8)'
    BY <1>b, <1>1, <1>q, <1>e DEF Send!TypeOK, Send!OneSend, Send!AtWork, Send!Sending
  <2>4. v9' = (v8' # 0)
    BY <1>b, <1>1, <1>q, <1>e DEF Send!TypeOK, Send!OneSend, Send!AtWork, Send!Sending
  <2> QED
    BY <2>1, <2>2, <2>3, <2>4 DEF Send!OneSend
<1>v. Send!ShowsTheSend'
  <2>1. v10' # 0 /\ ~v13' => Send!AtWork(v10)' /\ v10' \in v2'
    BY <1>b, <1>1, <1>q, <1>e DEF Send!TypeOK, Send!Sent, Send!OneSend, Send!AtWork,
       Send!ShowsTheSend, Send!Sending
  <2>2. v8' # 0 /\ ~v14' /\ ~v13' => (v8' \in v2' /\ v1'[v8'] = "sent" => v10' = v8')
    BY <1>b, <1>1, <1>q, <1>e DEF Send!TypeOK, Send!Sent, Send!OneSend, Send!AtWork,
       Send!ShowsTheSend, Send!Sending
  <2>3. ~v15' => \A c \in v12' : c <= v11'
    BY <1>b, <1>1, <1>q, <1>e DEF Send!TypeOK, Send!ShowsTheSend, Send!Sending
  <2> QED
    BY <2>1, <2>2, <2>3 DEF Send!ShowsTheSend
<1> QED
  BY <1>q, <1>t, <1>s, <1>w, <1>o, <1>v

LEMMA SendOnTakeOther ==
    ASSUME Send!Inv, Send!Take, Head(v7).kind # "start", v1[Head(v7).of] # "sent"
    PROVE  Send!Inv'
<1> USE SendAssumption DEF Send!RequestSendAssumption, Send!Inv
<1>e. Send!told \in [Send!Sending -> SUBSET Send!Kinds] /\ Send!told' \in [Send!Sending -> SUBSET Send!Kinds]
  BY SendMessages
<1>a. /\ Tail(v7) \in Seq(Send!Messages) /\ Ordered(Tail(v7), Send!Never)
      /\ IsTaken(Head(v7), Send!told, ToldIn(Tail(v7), Send!Sending, Send!Kinds), Send!Sending, Send!Kinds, Send!Never)
  BY SendTakes DEF Send!Take
<1> DEFINE t == ToldIn(Tail(v7), Send!Sending, Send!Kinds)
<1>b. PICK s \in Send!Sending, l \in Send!Kinds :
        /\ Head(v7).of = s /\ Head(v7).kind = l /\ l \in Send!told[s]
        /\ \A b \in Send!Sending : b # s => t[b] = Send!told[b]
        /\ t[s] \subseteq Send!told[s] /\ Send!told[s] \subseteq t[s] \cup {l}
        /\ \A k \in t[s] : <<l, k>> \notin Send!Never
  BY <1>a DEF IsTaken
<1>q. Send!Queued' /\ Send!told' = t
  <2>1. v7' = Tail(v7)
    BY DEF Send!Take
  <2> QED
    BY <1>a, <2>1, SendMessages DEF t
<1> HIDE DEF t
<1>1. l \in {"answer", "failure"}
      /\ v1' = v1 /\ v2' = v2 /\ v3' = v3 /\ v4' = v4 /\ v5' = v5 /\ v6' = v6 /\ v8' = v8 /\ v9' = v9 /\ v10' = v10 /\ v11' = v11 /\ v12' = v12 /\ v13' = v13 /\ v14' = v14 /\ v15' = v15
  BY <1>b DEF Send!Take, Send!TakeAnswer, Send!Kinds
<1>t. Send!TypeOK'
  <2>1. v1' \in [Send!Sending -> {"new", "building", "sent", "answering", "over"}]
    BY <1>b, <1>1, <1>q, <1>e DEF Send!TypeOK
  <2>2. {v2', v3', v4', v5', v12'} \subseteq SUBSET Send!Sending
    BY <1>b, <1>1, <1>q, <1>e DEF Send!TypeOK
  <2>3. v6' \in [Send!Sending -> {"none", "asked", "streaming", "over"}]
    BY <1>b, <1>1, <1>q, <1>e DEF Send!TypeOK
  <2>4. {v8', v10', v11'} \subseteq {0} \cup Send!Sending
    BY <1>b, <1>1, <1>q, <1>e DEF Send!TypeOK
  <2>5. {v9', v13', v14', v15'} \subseteq BOOLEAN
    BY <1>b, <1>1, <1>q, <1>e DEF Send!TypeOK
  <2> QED
    BY <2>1, <2>2, <2>3, <2>4, <2>5 DEF Send!TypeOK
<1>s. Send!Sent'
  <2> SUFFICES ASSUME NEW c \in Send!Sending
               PROVE  /\ v1'[c] = "new" => c \notin v3' /\ v6'[c] = "none"
                      /\ c \in v2' => v1'[c] \notin {"new", "building"}
                      /\ v1'[c] = "sent" => c \notin v3'
    BY DEF Send!Sent
  <2> QED
    BY <1>b, <1>1, <1>q, <1>e DEF Send!TypeOK, Send!Sent, Send!OneSend, Send!AtWork
<1>w. Send!OnTheWay'
  <2> SUFFICES ASSUME NEW c \in Send!Sending PROVE Send!OnTheWay!(c)'
    BY DEF Send!OnTheWay
  <2> QED
    BY <1>b, <1>1, <1>q, <1>e DEF Send!TypeOK, Send!Sent, Send!OnTheWay, Send!OneSend, Send!AtWork
<1>o. Send!OneSend'
  <2>1. ASSUME NEW c \in Send!Sending, v6'[c] \in {"asked", "streaming"} PROVE v1'[c] = "sent" /\ c \notin v3'
    BY <2>1, <1>b, <1>1, <1>q, <1>e DEF Send!TypeOK, Send!Sent, Send!OnTheWay, Send!OneSend,
       Send!AtWork
  <2>2. ASSUME NEW c \in Send!Sending, Send!AtWork(c)', c \notin v3' PROVE v8' = c
    BY <2>2, <1>b, <1>1, <1>q, <1>e DEF Send!TypeOK, Send!Sent, Send!OneSend, Send!AtWork
  <2>3. v8' # 0 => Send!AtWork(v8)'
    BY <1>b, <1>1, <1>q, <1>e DEF Send!TypeOK, Send!OneSend, Send!AtWork, Send!Sending
  <2>4. v9' = (v8' # 0)
    BY <1>b, <1>1, <1>q, <1>e DEF Send!TypeOK, Send!OneSend, Send!AtWork, Send!Sending
  <2> QED
    BY <2>1, <2>2, <2>3, <2>4 DEF Send!OneSend
<1>v. Send!ShowsTheSend'
  <2>1. v10' # 0 /\ ~v13' => Send!AtWork(v10)' /\ v10' \in v2'
    BY <1>b, <1>1, <1>q, <1>e DEF Send!TypeOK, Send!Sent, Send!OneSend, Send!AtWork,
       Send!ShowsTheSend, Send!Sending
  <2>2. v8' # 0 /\ ~v14' /\ ~v13' => (v8' \in v2' /\ v1'[v8'] = "sent" => v10' = v8')
    BY <1>b, <1>1, <1>q, <1>e DEF Send!TypeOK, Send!Sent, Send!OneSend, Send!AtWork,
       Send!ShowsTheSend, Send!Sending
  <2>3. ~v15' => \A c \in v12' : c <= v11'
    BY <1>b, <1>1, <1>q, <1>e DEF Send!TypeOK, Send!ShowsTheSend, Send!Sending
  <2> QED
    BY <2>1, <2>2, <2>3 DEF Send!ShowsTheSend
<1> QED
  BY <1>q, <1>t, <1>s, <1>w, <1>o, <1>v

LEMMA SendOnTakeFailure ==
    ASSUME Send!Inv, Send!Take, Head(v7).kind = "failure", v1[Head(v7).of] = "sent"
    PROVE  Send!Inv'
<1> USE SendAssumption DEF Send!RequestSendAssumption, Send!Inv
<1>e. Send!told \in [Send!Sending -> SUBSET Send!Kinds] /\ Send!told' \in [Send!Sending -> SUBSET Send!Kinds]
  BY SendMessages
<1>a. /\ Tail(v7) \in Seq(Send!Messages) /\ Ordered(Tail(v7), Send!Never)
      /\ IsTaken(Head(v7), Send!told, ToldIn(Tail(v7), Send!Sending, Send!Kinds), Send!Sending, Send!Kinds, Send!Never)
  BY SendTakes DEF Send!Take
<1> DEFINE t == ToldIn(Tail(v7), Send!Sending, Send!Kinds)
<1>b. PICK s \in Send!Sending, l \in Send!Kinds :
        /\ Head(v7).of = s /\ Head(v7).kind = l /\ l \in Send!told[s]
        /\ \A b \in Send!Sending : b # s => t[b] = Send!told[b]
        /\ t[s] \subseteq Send!told[s] /\ Send!told[s] \subseteq t[s] \cup {l}
        /\ \A k \in t[s] : <<l, k>> \notin Send!Never
  BY <1>a DEF IsTaken
<1>q. Send!Queued' /\ Send!told' = t
  <2>1. v7' = Tail(v7)
    BY DEF Send!Take
  <2> QED
    BY <1>a, <2>1, SendMessages DEF t
<1> HIDE DEF t
<1>f. /\ l = "failure" /\ v1[s] = "sent"
      /\ v1' = [v1 EXCEPT ![s] = "over"]
      /\ v2' = v2 /\ v3' = v3 /\ v4' = v4 /\ v5' = v5 /\ v6' = v6 /\ v11' = v11 /\ v12' = v12 /\ v13' = v13 /\ v15' = v15
      /\ Send!Ended({s}, v8) /\ Send!StreamEnded({s}, v8)
  BY <1>b DEF Send!Take, Send!TakeAnswer, Send!EndWithout
<1>1. /\ l = "failure" /\ v1[s] = "sent"
      /\ v1' = [v1 EXCEPT ![s] = "over"]
      /\ v2' = v2 /\ v3' = v3 /\ v4' = v4 /\ v5' = v5 /\ v6' = v6 /\ v11' = v11 /\ v12' = v12 /\ v13' = v13 /\ v15' = v15
      /\ v8' = (IF v8 = s THEN 0 ELSE v8) /\ v9' = (v8' # 0)
      /\ v10' = 0 /\ v14' = (v14 \/ (v10 # 0 /\ v10 = v8 /\ s # v8))
  BY <1>f, SendEndsAlone
<1>t. Send!TypeOK'
  <2>1. v1' \in [Send!Sending -> {"new", "building", "sent", "answering", "over"}]
    BY <1>b, <1>1, <1>q, <1>e DEF Send!TypeOK
  <2>2. {v2', v3', v4', v5', v12'} \subseteq SUBSET Send!Sending
    BY <1>b, <1>1, <1>q, <1>e DEF Send!TypeOK
  <2>3. v6' \in [Send!Sending -> {"none", "asked", "streaming", "over"}]
    BY <1>b, <1>1, <1>q, <1>e DEF Send!TypeOK
  <2>4. {v8', v10', v11'} \subseteq {0} \cup Send!Sending
    BY <1>b, <1>1, <1>q, <1>e DEF Send!TypeOK
  <2>5. {v9', v13', v14', v15'} \subseteq BOOLEAN
    BY <1>b, <1>1, <1>q, <1>e DEF Send!TypeOK
  <2> QED
    BY <2>1, <2>2, <2>3, <2>4, <2>5 DEF Send!TypeOK
<1>s. Send!Sent'
  <2> SUFFICES ASSUME NEW c \in Send!Sending
               PROVE  /\ v1'[c] = "new" => c \notin v3' /\ v6'[c] = "none"
                      /\ c \in v2' => v1'[c] \notin {"new", "building"}
                      /\ v1'[c] = "sent" => c \notin v3'
    BY DEF Send!Sent
  <2> QED
    BY <1>b, <1>1, <1>q, <1>e DEF Send!TypeOK, Send!Sent, Send!OneSend, Send!AtWork
<1>w. Send!OnTheWay'
  <2> SUFFICES ASSUME NEW c \in Send!Sending PROVE Send!OnTheWay!(c)'
    BY DEF Send!OnTheWay
  <2> QED
    BY <1>b, <1>1, <1>q, <1>e DEF Send!TypeOK, Send!Sent, Send!OnTheWay, Send!OneSend, Send!AtWork
<1>o. Send!OneSend'
  <2>1. ASSUME NEW c \in Send!Sending, v6'[c] \in {"asked", "streaming"} PROVE v1'[c] = "sent" /\ c \notin v3'
    BY <2>1, <1>b, <1>1, <1>q, <1>e DEF Send!TypeOK, Send!Sent, Send!OnTheWay, Send!OneSend,
       Send!AtWork
  <2>2. ASSUME NEW c \in Send!Sending, Send!AtWork(c)', c \notin v3' PROVE v8' = c
    BY <2>2, <1>b, <1>1, <1>q, <1>e DEF Send!TypeOK, Send!Sent, Send!OneSend, Send!AtWork
  <2>3. v8' # 0 => Send!AtWork(v8)'
    BY <1>b, <1>1, <1>q, <1>e DEF Send!TypeOK, Send!OneSend, Send!AtWork, Send!Sending
  <2>4. v9' = (v8' # 0)
    BY <1>b, <1>1, <1>q, <1>e DEF Send!TypeOK, Send!OneSend, Send!AtWork, Send!Sending
  <2> QED
    BY <2>1, <2>2, <2>3, <2>4 DEF Send!OneSend
<1>v. Send!ShowsTheSend'
  <2>1. v10' # 0 /\ ~v13' => Send!AtWork(v10)' /\ v10' \in v2'
    BY <1>b, <1>1, <1>q, <1>e DEF Send!TypeOK, Send!Sent, Send!OneSend, Send!AtWork,
       Send!ShowsTheSend, Send!Sending
  <2>2. v8' # 0 /\ ~v14' /\ ~v13' => (v8' \in v2' /\ v1'[v8'] = "sent" => v10' = v8')
    BY <1>b, <1>1, <1>q, <1>e DEF Send!TypeOK, Send!Sent, Send!OneSend, Send!AtWork,
       Send!ShowsTheSend, Send!Sending
  <2>3. ~v15' => \A c \in v12' : c <= v11'
    BY <1>b, <1>1, <1>q, <1>e DEF Send!TypeOK, Send!ShowsTheSend, Send!Sending
  <2> QED
    BY <2>1, <2>2, <2>3 DEF Send!ShowsTheSend
<1> QED
  BY <1>q, <1>t, <1>s, <1>w, <1>o, <1>v

LEMMA SendCancelsNative ==
    ASSUME Send!Inv, NEW s \in Send!Sending, Send!CancelNative(s)
    PROVE  /\ Send!Queued'
           /\ \/ v1[s] # "sent" /\ v6' = v6 /\ Send!told' = Send!told
              \/ v1[s] = "sent" /\ v6[s] \notin {"asked", "streaming"} /\ v6' = v6 /\ Send!told' = Send!told
              \/ /\ v1[s] = "sent" /\ v6' = [v6 EXCEPT ![s] = "over"]
                 /\ Send!told' = [Send!told EXCEPT ![s] = Send!told[s] \cup {"failure"}]
<1>0. s # 0 /\ (Send!Executing(s) <=> v1[s] = "sent")
  BY DEF Send!Executing, Send!Sending
<1>1. CASE v1[s] = "sent" /\ v6[s] \in {"asked", "streaming"}
  <2>1. v6' = [v6 EXCEPT ![s] = "over"] /\ v7' = Append(v7, Send!Message(s, "failure"))
    BY <1>0, <1>1 DEF Send!CancelNative
  <2>2. Send!told[s] \subseteq {"start"} /\ Send!Queued /\ "failure" \in Send!Kinds
    BY <1>1 DEF Send!Inv, Send!OnTheWay, Send!Kinds
  <2> QED
    BY <1>1, <2>1, <2>2, SendMessageAdded
<1>2. CASE ~(v1[s] = "sent" /\ v6[s] \in {"asked", "streaming"})
  <2>1. v6' = v6 /\ v7' = v7
    BY <1>0, <1>2 DEF Send!CancelNative
  <2>2. Send!Queued' /\ Send!told' = Send!told
    BY <2>1 DEF Send!Inv, Send!Queued, Send!told
  <2> QED
    BY <1>2, <2>1, <2>2
<1> QED
  BY <1>1, <1>2

LEMMA SendRejects ==
    ASSUME NEW s \in Send!Sending, NEW e \in Send!Sending, v14 \in BOOLEAN,
           Send!Ended(Send!Rejected(s), e), Send!StreamEnded(Send!Rejected(s), e)
    PROVE  /\ Send!Executing(s) <=> v1[s] = "sent"
           /\ v1[s] = "sent" /\ s \notin v2 =>
                      /\ v8' = (IF e = s THEN 0 ELSE e) /\ v10' = 0
                      /\ v14' = (v14 \/ (v10 # 0 /\ v10 = e /\ s # e))
           /\ ~(v1[s] = "sent" /\ s \notin v2) => v8' = e /\ v10' = v10 /\ v14' = v14
           /\ v9' = (v8' # 0)
<1>0. s # 0 /\ e # 0 /\ {s} # {} /\ (Send!Executing(s) <=> v1[s] = "sent")
  BY DEF Send!Executing, Send!Sending
<1>1. CASE v1[s] = "sent" /\ s \notin v2
  <2>1. Send!Rejected(s) = {s}
    BY <1>0, <1>1 DEF Send!Rejected
  <2>2. v8' = (IF e = s THEN 0 ELSE e) /\ v10' = 0
    BY <1>0, <2>1 DEF Send!Ended, Send!StreamEnded
  <2>3. v9' = (v8' # 0)
    <3>1. CASE e = s
      BY <2>1, <2>2, <3>1 DEF Send!Ended
    <3>2. CASE e # s
      BY <1>0, <2>1, <2>2, <3>2 DEF Send!Ended
    <3> QED
      BY <3>1, <3>2
  <2>4. v14' = (v14 \/ (v10 # 0 /\ v10 = e /\ s # e))
    <3>1. {s} \cap {0, e} = {} <=> s # e
      BY <1>0
    <3> QED
      BY <1>0, <2>1, <3>1 DEF Send!StreamEnded
  <2> QED
    BY <1>0, <1>1, <2>2, <2>3, <2>4
<1>2. CASE ~(v1[s] = "sent" /\ s \notin v2)
  <2>1. Send!Rejected(s) = {}
    BY <1>0, <1>2 DEF Send!Rejected
  <2>2. v8' = e /\ v10' = v10 /\ v9' = (e # 0)
    BY <2>1 DEF Send!Ended, Send!StreamEnded
  <2>3. v14' = v14
    BY <2>1 DEF Send!StreamEnded
  <2> QED
    BY <1>0, <1>2, <2>2, <2>3
<1> QED
  BY <1>1, <1>2

LEMMA SendOnCancel ==
    ASSUME Send!Inv, Send!Cancel
    PROVE  Send!Inv'
<1> USE SendAssumption DEF Send!RequestSendAssumption, Send!Inv
<1>e. Send!told \in [Send!Sending -> SUBSET Send!Kinds] /\ Send!told' \in [Send!Sending -> SUBSET Send!Kinds]
  BY SendMessages
<1>f. /\ v8 # 0 /\ v8 \notin v3 /\ v3' = v3 \cup {v8}
      /\ v2' = v2 /\ v4' = v4 /\ v5' = v5 /\ v11' = v11 /\ v12' = v12 /\ v13' = v13 /\ v15' = v15
      /\ Send!CancelNative(v8) /\ Send!Ended(Send!Rejected(v8), v8) /\ Send!StreamEnded(Send!Rejected(v8), v8)
      /\ v1' = Send!AbortedPhase(v8)
  BY DEF Send!Cancel
<1>g. v8 \in Send!Sending
  BY <1>f DEF Send!TypeOK, Send!OneSend, Send!Sent, Send!AtWork, Send!Sending
<1>q. /\ Send!Queued'
      /\ \/ v1[v8] # "sent" /\ v6' = v6 /\ Send!told' = Send!told
         \/ v1[v8] = "sent" /\ v6[v8] \notin {"asked", "streaming"} /\ v6' = v6 /\ Send!told' = Send!told
         \/ /\ v1[v8] = "sent" /\ v6' = [v6 EXCEPT ![v8] = "over"]
            /\ Send!told' = [Send!told EXCEPT ![v8] = Send!told[v8] \cup {"failure"}]
  BY <1>f, <1>g, SendCancelsNative
<1>r. /\ Send!Executing(v8) <=> v1[v8] = "sent"
      /\ v1[v8] = "sent" /\ v8 \notin v2 =>
            /\ v8' = (IF v8 = v8 THEN 0 ELSE v8) /\ v10' = 0
            /\ v14' = (v14 \/ (v10 # 0 /\ v10 = v8 /\ v8 # v8))
      /\ ~(v1[v8] = "sent" /\ v8 \notin v2) => v8' = v8 /\ v10' = v10 /\ v14' = v14
      /\ v9' = (v8' # 0)
  BY <1>f, <1>g, SendRejects DEF Send!TypeOK
<1>h. v1' = (IF v1[v8] # "sent" THEN v1 ELSE [v1 EXCEPT ![v8] = IF v8 \in v2 THEN "answering" ELSE "over"])
  BY <1>f, <1>r DEF Send!AbortedPhase
<1>t. Send!TypeOK'
  <2>1. v1' \in [Send!Sending -> {"new", "building", "sent", "answering", "over"}]
    BY <1>f, <1>g, <1>h, <1>q, <1>r, <1>e DEF Send!TypeOK
  <2>2. {v2', v3', v4', v5', v12'} \subseteq SUBSET Send!Sending
    BY <1>f, <1>g, <1>h, <1>q, <1>r, <1>e DEF Send!TypeOK
  <2>3. v6' \in [Send!Sending -> {"none", "asked", "streaming", "over"}]
    BY <1>f, <1>g, <1>h, <1>q, <1>r, <1>e DEF Send!TypeOK
  <2>4. {v8', v10', v11'} \subseteq {0} \cup Send!Sending
    BY <1>f, <1>g, <1>h, <1>q, <1>r, <1>e DEF Send!TypeOK
  <2>5. {v9', v13', v14', v15'} \subseteq BOOLEAN
    BY <1>f, <1>g, <1>h, <1>q, <1>r, <1>e DEF Send!TypeOK
  <2> QED
    BY <2>1, <2>2, <2>3, <2>4, <2>5 DEF Send!TypeOK
<1>s. Send!Sent'
  <2> SUFFICES ASSUME NEW c \in Send!Sending
               PROVE  /\ v1'[c] = "new" => c \notin v3' /\ v6'[c] = "none"
                      /\ c \in v2' => v1'[c] \notin {"new", "building"}
                      /\ v1'[c] = "sent" => c \notin v3'
    BY DEF Send!Sent
  <2> QED
    BY <1>f, <1>g, <1>h, <1>q, <1>r, <1>e DEF Send!TypeOK, Send!Sent, Send!OneSend, Send!AtWork
<1>w. Send!OnTheWay'
  <2> SUFFICES ASSUME NEW c \in Send!Sending PROVE Send!OnTheWay!(c)'
    BY DEF Send!OnTheWay
  <2> QED
    BY <1>f, <1>g, <1>h, <1>q, <1>r, <1>e DEF Send!TypeOK, Send!Sent, Send!OnTheWay, Send!OneSend,
       Send!AtWork
<1>o. Send!OneSend'
  <2>1. ASSUME NEW c \in Send!Sending, v6'[c] \in {"asked", "streaming"} PROVE v1'[c] = "sent" /\ c \notin v3'
    BY <2>1, <1>f, <1>g, <1>h, <1>q, <1>r, <1>e DEF Send!TypeOK, Send!Sent, Send!OnTheWay,
       Send!OneSend, Send!AtWork
  <2>2. ASSUME NEW c \in Send!Sending, Send!AtWork(c)', c \notin v3' PROVE v8' = c
    BY <2>2, <1>f, <1>g, <1>h, <1>q, <1>r, <1>e DEF Send!TypeOK, Send!Sent, Send!OneSend,
       Send!AtWork
  <2>3. v8' # 0 => Send!AtWork(v8)'
    BY <1>f, <1>g, <1>h, <1>q, <1>r, <1>e DEF Send!TypeOK, Send!OneSend, Send!AtWork, Send!Sending
  <2>4. v9' = (v8' # 0)
    BY <1>f, <1>g, <1>h, <1>q, <1>r, <1>e DEF Send!TypeOK, Send!OneSend, Send!AtWork, Send!Sending
  <2> QED
    BY <2>1, <2>2, <2>3, <2>4 DEF Send!OneSend
<1>v. Send!ShowsTheSend'
  <2>1. v10' # 0 /\ ~v13' => Send!AtWork(v10)' /\ v10' \in v2'
    BY <1>f, <1>g, <1>h, <1>q, <1>r, <1>e DEF Send!TypeOK, Send!Sent, Send!OneSend, Send!AtWork,
       Send!ShowsTheSend, Send!Sending
  <2>2. v8' # 0 /\ ~v14' /\ ~v13' => (v8' \in v2' /\ v1'[v8'] = "sent" => v10' = v8')
    BY <1>f, <1>g, <1>h, <1>q, <1>r, <1>e DEF Send!TypeOK, Send!Sent, Send!OneSend, Send!AtWork,
       Send!ShowsTheSend, Send!Sending
  <2>3. ~v15' => \A c \in v12' : c <= v11'
    BY <1>f, <1>g, <1>h, <1>q, <1>r, <1>e DEF Send!TypeOK, Send!ShowsTheSend, Send!Sending
  <2> QED
    BY <2>1, <2>2, <2>3 DEF Send!ShowsTheSend
<1> QED
  BY <1>q, <1>t, <1>s, <1>w, <1>o, <1>v

LEMMA SendOnTimesOut ==
    ASSUME Send!Inv, NEW s \in Send!Sending, Send!TimesOut(s)
    PROVE  Send!Inv'
<1> USE SendAssumption DEF Send!RequestSendAssumption, Send!Inv
<1>e. Send!told \in [Send!Sending -> SUBSET Send!Kinds] /\ Send!told' \in [Send!Sending -> SUBSET Send!Kinds]
  BY SendMessages
<1>f. /\ v1[s] \in {"sent", "answering"} /\ s \notin v2 \cup v4 \cup v3 /\ v4' = v4 \cup {s}
      /\ v2' = v2 /\ v3' = v3 /\ v5' = v5 /\ v11' = v11 /\ v12' = v12 /\ v13' = v13 /\ v15' = v15
      /\ Send!CancelNative(s) /\ Send!Ended(Send!Rejected(s), v8) /\ Send!StreamEnded(Send!Rejected(s), v8)
      /\ v1' = Send!AbortedPhase(s)
  BY DEF Send!TimesOut
<1>g. s \in Send!Sending /\ v8 = s
  BY <1>f DEF Send!OneSend, Send!AtWork
<1>q. /\ Send!Queued'
      /\ \/ v1[s] # "sent" /\ v6' = v6 /\ Send!told' = Send!told
         \/ v1[s] = "sent" /\ v6[s] \notin {"asked", "streaming"} /\ v6' = v6 /\ Send!told' = Send!told
         \/ /\ v1[s] = "sent" /\ v6' = [v6 EXCEPT ![s] = "over"]
            /\ Send!told' = [Send!told EXCEPT ![s] = Send!told[s] \cup {"failure"}]
  BY <1>f, <1>g, SendCancelsNative
<1>r. /\ Send!Executing(s) <=> v1[s] = "sent"
      /\ v1[s] = "sent" /\ s \notin v2 =>
            /\ v8' = (IF v8 = s THEN 0 ELSE v8) /\ v10' = 0
            /\ v14' = (v14 \/ (v10 # 0 /\ v10 = v8 /\ s # v8))
      /\ ~(v1[s] = "sent" /\ s \notin v2) => v8' = v8 /\ v10' = v10 /\ v14' = v14
      /\ v9' = (v8' # 0)
  BY <1>f, <1>g, SendRejects DEF Send!TypeOK
<1>h. v1' = (IF v1[s] # "sent" THEN v1 ELSE [v1 EXCEPT ![s] = IF s \in v2 THEN "answering" ELSE "over"])
  BY <1>f, <1>r DEF Send!AbortedPhase
<1>t. Send!TypeOK'
  <2>1. v1' \in [Send!Sending -> {"new", "building", "sent", "answering", "over"}]
    BY <1>f, <1>g, <1>h, <1>q, <1>r, <1>e DEF Send!TypeOK
  <2>2. {v2', v3', v4', v5', v12'} \subseteq SUBSET Send!Sending
    BY <1>f, <1>g, <1>h, <1>q, <1>r, <1>e DEF Send!TypeOK
  <2>3. v6' \in [Send!Sending -> {"none", "asked", "streaming", "over"}]
    BY <1>f, <1>g, <1>h, <1>q, <1>r, <1>e DEF Send!TypeOK
  <2>4. {v8', v10', v11'} \subseteq {0} \cup Send!Sending
    BY <1>f, <1>g, <1>h, <1>q, <1>r, <1>e DEF Send!TypeOK
  <2>5. {v9', v13', v14', v15'} \subseteq BOOLEAN
    BY <1>f, <1>g, <1>h, <1>q, <1>r, <1>e DEF Send!TypeOK
  <2> QED
    BY <2>1, <2>2, <2>3, <2>4, <2>5 DEF Send!TypeOK
<1>s. Send!Sent'
  <2> SUFFICES ASSUME NEW c \in Send!Sending
               PROVE  /\ v1'[c] = "new" => c \notin v3' /\ v6'[c] = "none"
                      /\ c \in v2' => v1'[c] \notin {"new", "building"}
                      /\ v1'[c] = "sent" => c \notin v3'
    BY DEF Send!Sent
  <2> QED
    BY <1>f, <1>g, <1>h, <1>q, <1>r, <1>e DEF Send!TypeOK, Send!Sent, Send!OneSend, Send!AtWork
<1>w. Send!OnTheWay'
  <2> SUFFICES ASSUME NEW c \in Send!Sending PROVE Send!OnTheWay!(c)'
    BY DEF Send!OnTheWay
  <2> QED
    BY <1>f, <1>g, <1>h, <1>q, <1>r, <1>e DEF Send!TypeOK, Send!Sent, Send!OnTheWay, Send!OneSend,
       Send!AtWork
<1>o. Send!OneSend'
  <2>1. ASSUME NEW c \in Send!Sending, v6'[c] \in {"asked", "streaming"} PROVE v1'[c] = "sent" /\ c \notin v3'
    BY <2>1, <1>f, <1>g, <1>h, <1>q, <1>r, <1>e DEF Send!TypeOK, Send!Sent, Send!OnTheWay,
       Send!OneSend, Send!AtWork
  <2>2. ASSUME NEW c \in Send!Sending, Send!AtWork(c)', c \notin v3' PROVE v8' = c
    BY <2>2, <1>f, <1>g, <1>h, <1>q, <1>r, <1>e DEF Send!TypeOK, Send!Sent, Send!OneSend,
       Send!AtWork
  <2>3. v8' # 0 => Send!AtWork(v8)'
    BY <1>f, <1>g, <1>h, <1>q, <1>r, <1>e DEF Send!TypeOK, Send!OneSend, Send!AtWork, Send!Sending
  <2>4. v9' = (v8' # 0)
    BY <1>f, <1>g, <1>h, <1>q, <1>r, <1>e DEF Send!TypeOK, Send!OneSend, Send!AtWork, Send!Sending
  <2> QED
    BY <2>1, <2>2, <2>3, <2>4 DEF Send!OneSend
<1>v. Send!ShowsTheSend'
  <2>1. v10' # 0 /\ ~v13' => Send!AtWork(v10)' /\ v10' \in v2'
    BY <1>f, <1>g, <1>h, <1>q, <1>r, <1>e DEF Send!TypeOK, Send!Sent, Send!OneSend, Send!AtWork,
       Send!ShowsTheSend, Send!Sending
  <2>2. v8' # 0 /\ ~v14' /\ ~v13' => (v8' \in v2' /\ v1'[v8'] = "sent" => v10' = v8')
    BY <1>f, <1>g, <1>h, <1>q, <1>r, <1>e DEF Send!TypeOK, Send!Sent, Send!OneSend, Send!AtWork,
       Send!ShowsTheSend, Send!Sending
  <2>3. ~v15' => \A c \in v12' : c <= v11'
    BY <1>f, <1>g, <1>h, <1>q, <1>r, <1>e DEF Send!TypeOK, Send!ShowsTheSend, Send!Sending
  <2> QED
    BY <2>1, <2>2, <2>3 DEF Send!ShowsTheSend
<1> QED
  BY <1>q, <1>t, <1>s, <1>w, <1>o, <1>v

LEMMA SendOnSendFirst ==
    ASSUME Send!Inv, NEW s \in Send!Sending, Send!Send(s), v8 = 0
    PROVE  Send!Inv'
<1> USE SendAssumption DEF Send!RequestSendAssumption, Send!Inv
<1>e. Send!told \in [Send!Sending -> SUBSET Send!Kinds] /\ Send!told' \in [Send!Sending -> SUBSET Send!Kinds]
  BY SendMessages
<1>f. /\ v1[s] = "new" /\ v3' = v3 \cup ({v8} \ {0})
      /\ v2' = v2 /\ v4' = v4 /\ v5' = v5 /\ v11' = v11 /\ v12' = v12 /\ v13' = v13 /\ v15' = v15
      /\ Send!CancelNative(v8) /\ Send!Ended(Send!Rejected(v8), s) /\ Send!StreamEnded(Send!Rejected(v8), s)
      /\ v1' = [Send!AbortedPhase(v8) EXCEPT ![s] = "building"]
  BY DEF Send!Send
<1>g. ~Send!Executing(v8) /\ s # 0
  BY DEF Send!Executing, Send!Sending
<1>q. Send!Queued' /\ Send!told' = Send!told /\ v6' = v6
  <2>1. v7' = v7 /\ v6' = v6
    BY <1>f, <1>g DEF Send!CancelNative
  <2> QED
    BY <2>1 DEF Send!Queued, Send!told
<1>1. /\ v1' = [v1 EXCEPT ![s] = "building"] /\ v3' = v3
      /\ v8' = s /\ v9' = TRUE /\ v10' = v10 /\ v14' = v14
  <2>1. Send!Rejected(v8) = {} /\ Send!AbortedPhase(v8) = v1
    BY <1>g DEF Send!Rejected, Send!AbortedPhase
  <2>2. v8' = s /\ v9' = (s # 0) /\ v10' = v10
    BY <1>f, <2>1 DEF Send!Ended, Send!StreamEnded
  <2>3. v14' = v14
    BY <1>f, <2>1 DEF Send!StreamEnded, Send!TypeOK
  <2> QED
    BY <1>f, <1>g, <2>1, <2>2, <2>3
<1>t. Send!TypeOK'
  <2>1. v1' \in [Send!Sending -> {"new", "building", "sent", "answering", "over"}]
    BY <1>f, <1>g, <1>1, <1>q, <1>e DEF Send!TypeOK
  <2>2. {v2', v3', v4', v5', v12'} \subseteq SUBSET Send!Sending
    BY <1>f, <1>g, <1>1, <1>q, <1>e DEF Send!TypeOK
  <2>3. v6' \in [Send!Sending -> {"none", "asked", "streaming", "over"}]
    BY <1>f, <1>g, <1>1, <1>q, <1>e DEF Send!TypeOK
  <2>4. {v8', v10', v11'} \subseteq {0} \cup Send!Sending
    BY <1>f, <1>g, <1>1, <1>q, <1>e DEF Send!TypeOK
  <2>5. {v9', v13', v14', v15'} \subseteq BOOLEAN
    BY <1>f, <1>g, <1>1, <1>q, <1>e DEF Send!TypeOK
  <2> QED
    BY <2>1, <2>2, <2>3, <2>4, <2>5 DEF Send!TypeOK
<1>s. Send!Sent'
  <2> SUFFICES ASSUME NEW c \in Send!Sending
               PROVE  /\ v1'[c] = "new" => c \notin v3' /\ v6'[c] = "none"
                      /\ c \in v2' => v1'[c] \notin {"new", "building"}
                      /\ v1'[c] = "sent" => c \notin v3'
    BY DEF Send!Sent
  <2> QED
    BY <1>f, <1>g, <1>1, <1>q, <1>e DEF Send!TypeOK, Send!Sent, Send!OneSend, Send!AtWork
<1>w. Send!OnTheWay'
  <2> SUFFICES ASSUME NEW c \in Send!Sending PROVE Send!OnTheWay!(c)'
    BY DEF Send!OnTheWay
  <2> QED
    BY <1>f, <1>g, <1>1, <1>q, <1>e DEF Send!TypeOK, Send!Sent, Send!OnTheWay, Send!OneSend,
       Send!AtWork
<1>o. Send!OneSend'
  <2>1. ASSUME NEW c \in Send!Sending, v6'[c] \in {"asked", "streaming"} PROVE v1'[c] = "sent" /\ c \notin v3'
    BY <2>1, <1>f, <1>g, <1>1, <1>q, <1>e DEF Send!TypeOK, Send!Sent, Send!OnTheWay, Send!OneSend,
       Send!AtWork
  <2>2. ASSUME NEW c \in Send!Sending, Send!AtWork(c)', c \notin v3' PROVE v8' = c
    <3>1. CASE c = s
      BY <2>2, <1>1, <3>1
    <3>2. CASE c # s
      <4>1. v1'[c] = v1[c] /\ c # 0 /\ c \notin v3
        BY <2>2, <1>1, <2>2, <3>2 DEF Send!TypeOK, Send!Sending
      <4>2. Send!AtWork(c)
        BY <2>2, <2>2, <4>1 DEF Send!AtWork
      <4>3. v8 = c
        BY <2>2, <4>1, <4>2 DEF Send!OneSend
      <4> QED
        BY <2>2, <4>1, <4>3
    <3> QED
      BY <2>2, <3>1, <3>2
  <2>3. v8' # 0 => Send!AtWork(v8)'
    BY <1>f, <1>g, <1>1, <1>q, <1>e DEF Send!TypeOK, Send!OneSend, Send!AtWork, Send!Sending
  <2>4. v9' = (v8' # 0)
    BY <1>f, <1>g, <1>1, <1>q, <1>e DEF Send!TypeOK, Send!OneSend, Send!AtWork, Send!Sending
  <2> QED
    BY <2>1, <2>2, <2>3, <2>4 DEF Send!OneSend
<1>v. Send!ShowsTheSend'
  <2>1. v10' # 0 /\ ~v13' => Send!AtWork(v10)' /\ v10' \in v2'
    BY <1>f, <1>g, <1>1, <1>q, <1>e DEF Send!TypeOK, Send!Sent, Send!OneSend, Send!AtWork,
       Send!ShowsTheSend, Send!Sending
  <2>2. v8' # 0 /\ ~v14' /\ ~v13' => (v8' \in v2' /\ v1'[v8'] = "sent" => v10' = v8')
    BY <1>f, <1>g, <1>1, <1>q, <1>e DEF Send!TypeOK, Send!Sent, Send!OneSend, Send!AtWork,
       Send!ShowsTheSend, Send!Sending
  <2>3. ~v15' => \A c \in v12' : c <= v11'
    BY <1>f, <1>g, <1>1, <1>q, <1>e DEF Send!TypeOK, Send!ShowsTheSend, Send!Sending
  <2> QED
    BY <2>1, <2>2, <2>3 DEF Send!ShowsTheSend
<1> QED
  BY <1>q, <1>t, <1>s, <1>w, <1>o, <1>v

LEMMA SendOnSendAgain ==
    ASSUME Send!Inv, NEW s \in Send!Sending, Send!Send(s), v8 # 0
    PROVE  Send!Inv'
<1> USE SendAssumption DEF Send!RequestSendAssumption, Send!Inv
<1>e. Send!told \in [Send!Sending -> SUBSET Send!Kinds] /\ Send!told' \in [Send!Sending -> SUBSET Send!Kinds]
  BY SendMessages
<1>f. /\ v1[s] = "new" /\ v3' = v3 \cup ({v8} \ {0})
      /\ v2' = v2 /\ v4' = v4 /\ v5' = v5 /\ v11' = v11 /\ v12' = v12 /\ v13' = v13 /\ v15' = v15
      /\ Send!CancelNative(v8) /\ Send!Ended(Send!Rejected(v8), s) /\ Send!StreamEnded(Send!Rejected(v8), s)
      /\ v1' = [Send!AbortedPhase(v8) EXCEPT ![s] = "building"]
  BY DEF Send!Send
<1>g. v8 \in Send!Sending /\ v8 # s /\ Send!AtWork(v8)
  BY <1>f DEF Send!TypeOK, Send!OneSend, Send!AtWork, Send!Sending
<1>q. /\ Send!Queued'
      /\ \/ v1[v8] # "sent" /\ v6' = v6 /\ Send!told' = Send!told
         \/ v1[v8] = "sent" /\ v6[v8] \notin {"asked", "streaming"} /\ v6' = v6 /\ Send!told' = Send!told
         \/ /\ v1[v8] = "sent" /\ v6' = [v6 EXCEPT ![v8] = "over"]
            /\ Send!told' = [Send!told EXCEPT ![v8] = Send!told[v8] \cup {"failure"}]
  BY <1>f, <1>g, SendCancelsNative
<1>r. /\ Send!Executing(v8) <=> v1[v8] = "sent"
      /\ v1[v8] = "sent" /\ v8 \notin v2 =>
            /\ v8' = s /\ v10' = 0
            /\ v14' = (v14 \/ (v10 # 0 /\ v10 = s /\ v8 # s))
      /\ ~(v1[v8] = "sent" /\ v8 \notin v2) => v8' = s /\ v10' = v10 /\ v14' = v14
      /\ v9' = (v8' # 0)
  BY <1>f, <1>g, SendRejects DEF Send!TypeOK
<1>h. v1' = [c \in Send!Sending |-> IF c = s THEN "building"
                                ELSE IF c = v8 /\ v1[c] = "sent"
                                     THEN IF c \in v2 THEN "answering" ELSE "over"
                                     ELSE v1[c]]
  BY <1>f, <1>r DEF Send!AbortedPhase, Send!TypeOK
<1>t. Send!TypeOK'
  <2>1. v1' \in [Send!Sending -> {"new", "building", "sent", "answering", "over"}]
    <3> SUFFICES ASSUME NEW c \in Send!Sending
                 PROVE  (IF c = s THEN "building"
                         ELSE IF c = v8 /\ v1[c] = "sent"
                              THEN IF c \in v2 THEN "answering" ELSE "over"
                              ELSE v1[c]) \in {"new", "building", "sent", "answering", "over"}
      BY <1>h
    <3> QED
      BY DEF Send!TypeOK
  <2>2. {v2', v3', v4', v5', v12'} \subseteq SUBSET Send!Sending
    BY <1>f, <1>g, <1>h, <1>q, <1>r, <1>e DEF Send!TypeOK
  <2>3. v6' \in [Send!Sending -> {"none", "asked", "streaming", "over"}]
    BY <1>f, <1>g, <1>h, <1>q, <1>r, <1>e DEF Send!TypeOK
  <2>4. {v8', v10', v11'} \subseteq {0} \cup Send!Sending
    BY <1>f, <1>g, <1>h, <1>q, <1>r, <1>e DEF Send!TypeOK
  <2>5. {v9', v13', v14', v15'} \subseteq BOOLEAN
    BY <1>f, <1>g, <1>h, <1>q, <1>r, <1>e DEF Send!TypeOK
  <2> QED
    BY <2>1, <2>2, <2>3, <2>4, <2>5 DEF Send!TypeOK
<1>s. Send!Sent'
  <2> SUFFICES ASSUME NEW c \in Send!Sending
               PROVE  /\ v1'[c] = "new" => c \notin v3' /\ v6'[c] = "none"
                      /\ c \in v2' => v1'[c] \notin {"new", "building"}
                      /\ v1'[c] = "sent" => c \notin v3'
    BY DEF Send!Sent
  <2> QED
    BY <1>f, <1>g, <1>h, <1>q, <1>r, <1>e DEF Send!TypeOK, Send!Sent, Send!OneSend, Send!AtWork
<1>w. Send!OnTheWay'
  <2> SUFFICES ASSUME NEW c \in Send!Sending PROVE Send!OnTheWay!(c)'
    BY DEF Send!OnTheWay
  <2> QED
    BY <1>f, <1>g, <1>h, <1>q, <1>r, <1>e DEF Send!TypeOK, Send!Sent, Send!OnTheWay, Send!OneSend,
       Send!AtWork
<1>o. Send!OneSend'
  <2>1. ASSUME NEW c \in Send!Sending, v6'[c] \in {"asked", "streaming"} PROVE v1'[c] = "sent" /\ c \notin v3'
    BY <2>1, <1>f, <1>g, <1>h, <1>q, <1>r, <1>e DEF Send!TypeOK, Send!Sent, Send!OnTheWay,
       Send!OneSend, Send!AtWork
  <2>2. ASSUME NEW c \in Send!Sending, Send!AtWork(c)', c \notin v3' PROVE v8' = c
    BY <2>2, <1>f, <1>g, <1>h, <1>q, <1>r, <1>e DEF Send!TypeOK, Send!Sent, Send!OneSend,
       Send!AtWork
  <2>3. v8' # 0 => Send!AtWork(v8)'
    BY <1>f, <1>g, <1>h, <1>q, <1>r, <1>e DEF Send!TypeOK, Send!OneSend, Send!AtWork, Send!Sending
  <2>4. v9' = (v8' # 0)
    BY <1>f, <1>g, <1>h, <1>q, <1>r, <1>e DEF Send!TypeOK, Send!OneSend, Send!AtWork, Send!Sending
  <2> QED
    BY <2>1, <2>2, <2>3, <2>4 DEF Send!OneSend
<1>v. Send!ShowsTheSend'
  <2>1. v10' # 0 /\ ~v13' => Send!AtWork(v10)' /\ v10' \in v2'
    BY <1>f, <1>g, <1>h, <1>q, <1>r, <1>e DEF Send!TypeOK, Send!Sent, Send!OneSend, Send!AtWork,
       Send!ShowsTheSend, Send!Sending
  <2>2. v8' # 0 /\ ~v14' /\ ~v13' => (v8' \in v2' /\ v1'[v8'] = "sent" => v10' = v8')
    BY <1>f, <1>g, <1>h, <1>q, <1>r, <1>e DEF Send!TypeOK, Send!Sent, Send!OneSend, Send!AtWork,
       Send!ShowsTheSend, Send!Sending
  <2>3. ~v15' => \A c \in v12' : c <= v11'
    BY <1>f, <1>g, <1>h, <1>q, <1>r, <1>e DEF Send!TypeOK, Send!ShowsTheSend, Send!Sending
  <2> QED
    BY <2>1, <2>2, <2>3 DEF Send!ShowsTheSend
<1> QED
  BY <1>q, <1>t, <1>s, <1>w, <1>o, <1>v

LEMMA SendStays == ASSUME Send!Inv, UNCHANGED Send!vars PROVE Send!Inv'
<1>1. Send!Queued' /\ Send!told' = Send!told
  BY DEF Send!Inv, Send!Queued, Send!told, Send!vars
<1>2. Send!TypeOK'
  BY DEF Send!Inv, Send!TypeOK, Send!vars
<1>3. Send!Sent' /\ Send!OnTheWay'
  BY <1>1 DEF Send!Inv, Send!Sent, Send!OnTheWay, Send!vars
<1>4. Send!OneSend' /\ Send!ShowsTheSend'
  BY DEF Send!Inv, Send!OneSend, Send!ShowsTheSend, Send!AtWork, Send!vars
<1> QED
  BY <1>1, <1>2, <1>3, <1>4 DEF Send!Inv

LEMMA SendOnTake ==
    ASSUME Send!Inv, Send!Take
    PROVE  Send!Inv'
<1>1. Head(v7).kind \in Send!Kinds
  <2>1. v7 \in Seq(Send!Messages) /\ v7 # <<>>
    BY DEF Send!Inv, Send!Queued, Send!Take
  <2>2. Head(v7) \in Send!Messages
    BY <2>1
  <2> QED
    BY <2>2 DEF Send!Messages
<1>2. CASE Head(v7).kind = "start"
  BY <1>2, SendOnTakeStart
<1>3. CASE Head(v7).kind # "start" /\ v1[Head(v7).of] # "sent"
  BY <1>3, SendOnTakeOther
<1>4. CASE Head(v7).kind = "answer" /\ v1[Head(v7).of] = "sent"
  BY <1>4, SendOnTakeAnswer
<1>5. CASE Head(v7).kind = "failure" /\ v1[Head(v7).of] = "sent"
  BY <1>5, SendOnTakeFailure
<1> QED
  BY <1>1, <1>2, <1>3, <1>4, <1>5 DEF Send!Kinds

LEMMA SendKeeps == Send!Inv /\ [Send!Next]_Send!vars => Send!Inv'
<1> SUFFICES ASSUME Send!Inv, [Send!Next]_Send!vars PROVE Send!Inv'
  OBVIOUS
<1>1. ASSUME NEW s \in Send!Sending, Send!Send(s) PROVE Send!Inv'
  BY <1>1, SendOnSendFirst, SendOnSendAgain
<1>2. ASSUME NEW s \in Send!Sending, Send!Built(s) PROVE Send!Inv'
  BY <1>2, SendOnBuilt, SendOnBuiltAborted
<1>3. ASSUME NEW s \in Send!Sending, Send!AnswersChallenge(s) PROVE Send!Inv'
  BY <1>3, SendOnChallenge, SendOnChallengeAborted
<1>4. ASSUME NEW s \in Send!Sending, Send!BuildFails(s) \/ Send!Done(s) \/ Send!TimesOut(s) PROVE Send!Inv'
  BY <1>4, SendOnBuildFails, SendOnDone, SendOnTimesOut
<1>5. ASSUME NEW s \in Send!Sending, Send!Answers(s) \/ Send!Streams(s) \/ Send!StreamOver(s) PROVE Send!Inv'
  BY <1>5, SendOnAnswers, SendOnStreams, SendOnStreamOver
<1>6. CASE Send!Cancel
  BY <1>6, SendOnCancel
<1>7. CASE Send!Take
  BY <1>7, SendOnTake
<1>8. CASE UNCHANGED Send!vars
  BY <1>8, SendStays
<1> QED
  BY <1>1, <1>2, <1>3, <1>4, <1>5, <1>6, <1>7, <1>8 DEF Send!Next

\* useSendRequest.ts, http.ts: for any number of sends, one is at work at most that was not
\* aborted, it is the one shown as sending, and the stream and the response shown are its own.
THEOREM SendInvariance == Send!Spec => [](Send!TypeOK /\ Send!OneSend /\ Send!ShowsTheSend)
<1>2. Send!Inv => Send!TypeOK /\ Send!OneSend /\ Send!ShowsTheSend
  BY DEF Send!Inv
<1> QED
  BY SendKeeps, <1>2, SendBegins, PTL DEF Send!Spec

(* ---------------------------- the WebSocket tab ---------------------------- *)
(* Ws!Inv says what an attempt has come to, that no two at work have a       *)
(* generation in common, and what a reconnect that is due finds.                 *)
Ws == INSTANCE SocketTab WITH
    MaxAttempts <- ConnectsOfSocket, MaxUses <- UsesOfSocket, Retries <- SocketRetries,
    phase <- v1, genOf <- v2, socket <- v3, out <- v4, generation <- v5, conn <- v6, timer <- v7,
    status <- v8, uses <- v9, confused <- v10
ASSUME SocketAssumption == Ws!SocketTabAssumption

LEMMA SocketTypeOfTold == Ws!told \in [Ws!Attempt -> SUBSET Ws!Kinds]
  BY DEF Ws!told

LEMMA SocketAtWorkIs == Ws!Queued => Ws!working = {a \in Ws!Attempt : Ws!AtWork(a)}
<1> SUFFICES ASSUME Ws!Queued, NEW a \in Ws!Attempt
             PROVE  (\E i \in DOMAIN v4 : v4[i].of = a) <=> Ws!told[a] # {}
  BY DEF Ws!AtWork, Ws!working
<1>1. ASSUME NEW i \in DOMAIN v4, v4[i].of = a PROVE v4[i].kind \in Ws!told[a]
  <2>1. v4[i] \in Ws!Messages
    BY ElementOfSeq DEF Ws!Queued
  <2>2. v4[i] = Ws!Message(a, v4[i].kind) /\ v4[i].kind \in Ws!Kinds
    BY <2>1, <1>1 DEF Ws!Message, Ws!Messages
  <2> QED
    BY <2>2 DEF Ws!told
<1>2. ASSUME NEW k \in Ws!told[a] PROVE \E i \in DOMAIN v4 : v4[i].of = a
  BY DEF Ws!told, Ws!Message
<1> QED
  BY <1>1, <1>2

LEMMA SocketTakes1 ==
    ASSUME Ws!Queued, v4 # <<>>, v4' = Tail(v4)
    PROVE  /\ Ws!Queued'
           /\ Head(v4) \in Ws!Messages
           /\ Head(v4).kind \in Ws!told[Head(v4).of]
           /\ Ws!told' \in [Ws!Attempt -> SUBSET Ws!Kinds]
           /\ \A a \in Ws!Attempt : a # Head(v4).of => Ws!told'[a] = Ws!told[a]
           /\ Ws!told'[Head(v4).of] \subseteq Ws!told[Head(v4).of] \ {"made", "refused"}
           /\ Ws!told[Head(v4).of] \subseteq Ws!told'[Head(v4).of] \cup {Head(v4).kind}
           /\ Head(v4).kind \in {"ended", "broken"} => Ws!told'[Head(v4).of] = {}
<1> DEFINE h == Head(v4)
<1>1. /\ v4 \in Seq(Ws!Messages)
      /\ \A i, j \in DOMAIN v4 : i < j /\ v4[i].of = v4[j].of =>
           v4[i].kind \notin {"ended", "broken"} /\ v4[j].kind \notin {"made", "refused"}
  BY DEF Ws!Queued
<1>2. /\ v4' \in Seq(Ws!Messages) /\ h \in Ws!Messages
      /\ h = v4[1] /\ 1 \in DOMAIN v4
      /\ \A i \in DOMAIN v4' : i + 1 \in DOMAIN v4 /\ v4'[i] = v4[i + 1]
      /\ \A i \in DOMAIN v4 : i # 1 => i - 1 \in DOMAIN v4' /\ v4'[i - 1] = v4[i]
      /\ DOMAIN v4 \subseteq Nat \ {0} /\ DOMAIN v4' \subseteq Nat \ {0}
  BY <1>1, TailIsShorter
<1> HIDE DEF h
<1>3. Ws!Queued'
  <2>1. ASSUME NEW i \in DOMAIN v4', NEW j \in DOMAIN v4', i < j, v4'[i].of = v4'[j].of
        PROVE  v4'[i].kind \notin {"ended", "broken"} /\ v4'[j].kind \notin {"made", "refused"}
    <3>1. i + 1 \in DOMAIN v4 /\ j + 1 \in DOMAIN v4 /\ i + 1 < j + 1
      BY <1>2, <2>1
    <3> QED
      BY <1>1, <1>2, <2>1, <3>1
  <2> QED
    BY <1>2, <2>1 DEF Ws!Queued
<1>4. Ws!told' \in [Ws!Attempt -> SUBSET Ws!Kinds]
  BY DEF Ws!told
<1>5. h.kind \in Ws!told[h.of] /\ h.of \in Ws!Attempt /\ h.kind \in Ws!Kinds
  <2>1. h = Ws!Message(h.of, h.kind)
    BY <1>2 DEF Ws!Message, Ws!Messages
  <2> QED
    BY <1>2, <2>1 DEF Ws!told, Ws!Messages
<1>6. ASSUME NEW a \in Ws!Attempt, NEW k \in Ws!told[a], Ws!Message(a, k) # h PROVE k \in Ws!told'[a]
  <2>1. PICK i \in DOMAIN v4 : v4[i] = Ws!Message(a, k)
    BY DEF Ws!told
  <2>2. i - 1 \in DOMAIN v4' /\ v4'[i - 1] = Ws!Message(a, k)
    BY <1>2, <1>6, <2>1
  <2>3. k \in Ws!Kinds
    BY DEF Ws!told
  <2> QED
    BY <2>2, <2>3 DEF Ws!told
<1>7. ASSUME NEW a \in Ws!Attempt, NEW k \in Ws!told'[a]
      PROVE  k \in Ws!told[a] /\ (a = h.of => k \notin {"made", "refused"} /\ h.kind \notin {"ended", "broken"})
  <2>1. PICK i \in DOMAIN v4' : v4'[i] = Ws!Message(a, k)
    BY DEF Ws!told
  <2>2. i + 1 \in DOMAIN v4 /\ v4[i + 1] = Ws!Message(a, k) /\ 1 < i + 1
    BY <1>2, <2>1
  <2>3. k \in Ws!told[a]
    BY <2>1, <2>2 DEF Ws!told
  <2>4. v4[i + 1].of = a /\ v4[i + 1].kind = k
    BY <2>2 DEF Ws!Message
  <2> QED
    BY <1>1, <1>2, <2>2, <2>3, <2>4
<1>8. ASSUME NEW a \in Ws!Attempt, a # h.of PROVE Ws!told'[a] = Ws!told[a]
  <2>1. \A k \in Ws!told[a] : Ws!Message(a, k) # h
    BY <1>8 DEF Ws!Message
  <2> QED
    BY <1>6, <1>7, <2>1
<1>9. Ws!told[h.of] \subseteq Ws!told'[h.of] \cup {h.kind}
  BY <1>5, <1>6 DEF Ws!Message
<1>10. Ws!told'[h.of] \subseteq Ws!told[h.of] \ {"made", "refused"}
  BY <1>5, <1>7
<1>11. h.kind \in {"ended", "broken"} => Ws!told'[h.of] = {}
  BY <1>5, <1>7
<1> QED
  BY <1>2, <1>3, <1>4, <1>5, <1>8, <1>9, <1>10, <1>11 DEF h

LEMMA SocketTells1 ==
    ASSUME Ws!Queued, NEW a \in Ws!Attempt, NEW k \in Ws!Kinds, v4' = Append(v4, Ws!Message(a, k)),
           Ws!told[a] \cap {"ended", "broken"} = {}, k \in {"made", "refused"} => Ws!told[a] = {}
    PROVE  Ws!Queued' /\ Ws!told' = [Ws!told EXCEPT ![a] = Ws!told[a] \cup {k}]
<1> DEFINE e == Ws!Message(a, k)
<1>1. /\ v4 \in Seq(Ws!Messages)
      /\ \A i, j \in DOMAIN v4 : i < j /\ v4[i].of = v4[j].of =>
           v4[i].kind \notin {"ended", "broken"} /\ v4[j].kind \notin {"made", "refused"}
  BY DEF Ws!Queued
<1>2. e \in Ws!Messages /\ e.of = a /\ e.kind = k
  BY DEF Ws!Message, Ws!Messages
<1> HIDE DEF e
<1>3. /\ v4' \in Seq(Ws!Messages)
      /\ DOMAIN v4' = DOMAIN v4 \cup {Len(v4) + 1} /\ v4'[Len(v4) + 1] = e
      /\ \A i \in DOMAIN v4 : i < Len(v4) + 1 /\ v4'[i] = v4[i]
      /\ DOMAIN v4 \subseteq Nat /\ Len(v4) \in Nat
  BY <1>1, <1>2, OneMore DEF e
<1>4. ASSUME NEW i \in DOMAIN v4, v4[i].of = a PROVE v4[i].kind \in Ws!told[a]
  <2>1. v4[i] \in Ws!Messages
    BY ElementOfSeq DEF Ws!Queued
  <2>2. v4[i] = Ws!Message(a, v4[i].kind) /\ v4[i].kind \in Ws!Kinds
    BY <2>1, <1>4 DEF Ws!Message, Ws!Messages
  <2> QED
    BY <2>2 DEF Ws!told
<1>5. ASSUME NEW i \in DOMAIN v4', NEW j \in DOMAIN v4', i < j, v4'[i].of = v4'[j].of
      PROVE  v4'[i].kind \notin {"ended", "broken"} /\ v4'[j].kind \notin {"made", "refused"}
  <2>1. i \in DOMAIN v4
    BY <1>3, <1>5
  <2>2. CASE j \in DOMAIN v4
    BY <1>1, <1>3, <1>5, <2>1, <2>2
  <2>3. CASE j = Len(v4) + 1
    BY <1>2, <1>3, <1>4, <1>5, <2>1, <2>3
  <2> QED
    BY <1>3, <2>2, <2>3
<1>6. Ws!Queued'
  BY <1>3, <1>5 DEF Ws!Queued
<1>7. ASSUME NEW b \in Ws!Attempt, NEW m \in Ws!Kinds
      PROVE  m \in Ws!told'[b] <=> m \in Ws!told[b] \/ (b = a /\ m = k)
  <2>1. (\E i \in DOMAIN v4' : v4'[i] = Ws!Message(b, m)) <=>
           (\E i \in DOMAIN v4 : v4[i] = Ws!Message(b, m)) \/ Ws!Message(b, m) = e
    BY <1>3
  <2>2. Ws!Message(b, m) = e <=> b = a /\ m = k
    BY DEF Ws!Message, e
  <2> QED
    BY <2>1, <2>2 DEF Ws!told
<1>8. Ws!told \in [Ws!Attempt -> SUBSET Ws!Kinds] /\ Ws!told' \in [Ws!Attempt -> SUBSET Ws!Kinds]
  BY DEF Ws!told
<1>9. ASSUME NEW b \in Ws!Attempt PROVE Ws!told'[b] = [Ws!told EXCEPT ![a] = Ws!told[a] \cup {k}][b]
  BY <1>7, <1>8
<1> QED
  BY <1>6, <1>8, <1>9

LEMMA SocketTells2 ==
    ASSUME Ws!Queued, NEW a \in Ws!Attempt, v4' = v4 \o <<Ws!Message(a, "error"), Ws!Message(a, "broken")>>,
           Ws!told[a] \cap {"ended", "broken"} = {}
    PROVE  Ws!Queued' /\ Ws!told' = [Ws!told EXCEPT ![a] = Ws!told[a] \cup {"error", "broken"}]
<1> DEFINE d == Ws!Message(a, "error")
           e == Ws!Message(a, "broken")
<1>1. /\ v4 \in Seq(Ws!Messages)
      /\ \A i, j \in DOMAIN v4 : i < j /\ v4[i].of = v4[j].of =>
           v4[i].kind \notin {"ended", "broken"} /\ v4[j].kind \notin {"made", "refused"}
  BY DEF Ws!Queued
<1>2. /\ d \in Ws!Messages /\ d.of = a /\ d.kind = "error"
      /\ e \in Ws!Messages /\ e.of = a /\ e.kind = "broken"
  BY DEF Ws!Message, Ws!Messages, Ws!Kinds
<1> HIDE DEF d, e
<1>3. /\ v4' \in Seq(Ws!Messages)
      /\ DOMAIN v4' = DOMAIN v4 \cup {Len(v4) + 1, Len(v4) + 2}
      /\ v4'[Len(v4) + 1] = d /\ v4'[Len(v4) + 2] = e
      /\ \A i \in DOMAIN v4 : i < Len(v4) + 1 /\ v4'[i] = v4[i]
      /\ DOMAIN v4 \subseteq Nat /\ Len(v4) \in Nat
  BY <1>1, <1>2, TwoMore DEF d, e
<1>4. ASSUME NEW i \in DOMAIN v4, v4[i].of = a PROVE v4[i].kind \in Ws!told[a]
  <2>1. v4[i] \in Ws!Messages
    BY ElementOfSeq DEF Ws!Queued
  <2>2. v4[i] = Ws!Message(a, v4[i].kind) /\ v4[i].kind \in Ws!Kinds
    BY <2>1, <1>4 DEF Ws!Message, Ws!Messages
  <2> QED
    BY <2>2 DEF Ws!told
<1>5. ASSUME NEW i \in DOMAIN v4', NEW j \in DOMAIN v4', i < j, v4'[i].of = v4'[j].of
      PROVE  v4'[i].kind \notin {"ended", "broken"} /\ v4'[j].kind \notin {"made", "refused"}
  <2>1. CASE j \in DOMAIN v4
    <3>1. i \in DOMAIN v4
      BY <1>3, <1>5, <2>1
    <3> QED
      BY <1>1, <1>3, <1>5, <2>1, <3>1
  <2>2. CASE j \notin DOMAIN v4
    <3>1. v4'[j] \in {d, e} /\ (i \in DOMAIN v4 \/ v4'[i] = d)
      BY <1>3, <1>5, <2>2
    <3>2. CASE v4'[i] = d
      BY <1>2, <3>1, <3>2
    <3>3. CASE i \in DOMAIN v4
      BY <1>2, <1>3, <1>4, <1>5, <3>1, <3>3
    <3> QED
      BY <3>1, <3>2, <3>3
  <2> QED
    BY <2>1, <2>2
<1>6. Ws!Queued'
  BY <1>3, <1>5 DEF Ws!Queued
<1>7. ASSUME NEW b \in Ws!Attempt, NEW m \in Ws!Kinds
      PROVE  m \in Ws!told'[b] <=> m \in Ws!told[b] \/ (b = a /\ m \in {"error", "broken"})
  <2>1. (\E i \in DOMAIN v4' : v4'[i] = Ws!Message(b, m)) <=>
           (\E i \in DOMAIN v4 : v4[i] = Ws!Message(b, m)) \/ Ws!Message(b, m) \in {d, e}
    BY <1>3
  <2>2. Ws!Message(b, m) \in {d, e} <=> b = a /\ m \in {"error", "broken"}
    BY DEF Ws!Message, d, e
  <2> QED
    BY <2>1, <2>2 DEF Ws!told
<1>8. Ws!told \in [Ws!Attempt -> SUBSET Ws!Kinds] /\ Ws!told' \in [Ws!Attempt -> SUBSET Ws!Kinds]
  BY DEF Ws!told
<1>9. ASSUME NEW b \in Ws!Attempt PROVE Ws!told'[b] = [Ws!told EXCEPT ![a] = Ws!told[a] \cup {"error", "broken"}][b]
  <2>1. Ws!told[b] \subseteq Ws!Kinds /\ Ws!told'[b] \subseteq Ws!Kinds /\ {"error", "broken"} \subseteq Ws!Kinds
    BY <1>8 DEF Ws!Kinds
  <2>2. CASE b = a
    BY <1>7, <1>8, <2>1, <2>2
  <2>3. CASE b # a
    BY <1>7, <1>8, <2>1, <2>3
  <2> QED
    BY <2>2, <2>3
<1> QED
  BY <1>6, <1>8, <1>9

LEMMA SocketBegins == Ws!Init => Ws!Inv
<1> SUFFICES ASSUME Ws!Init PROVE Ws!Inv
  OBVIOUS
<1> USE SocketAssumption DEF Ws!SocketTabAssumption, Ws!Init, Ws!Attempt
<1>1. Ws!TypeOK
  <2>1. v9 \in 0 .. UsesOfSocket
    OBVIOUS
  <2>2. v6 \in Ws!Attempt \cup {0} /\ v7 \in Nat /\ v5 \in Nat
    OBVIOUS
  <2> QED
    BY <2>1, <2>2 DEF Ws!TypeOK
<1>2. Ws!Queued
  BY DEF Ws!Queued
<1>3. Ws!Heard /\ Ws!Registered
  BY DEF Ws!Heard, Ws!Registered, Ws!told
<1>4. Ws!Apart /\ Ws!Owned /\ Ws!Armed /\ Ws!Shown /\ Ws!OneSocket
  BY DEF Ws!Apart, Ws!Owned, Ws!Armed, Ws!Shown, Ws!OneSocket, Ws!working, Ws!told
<1> QED
  BY <1>1, <1>2, <1>3, <1>4 DEF Ws!Inv

LEMMA SocketStarted ==
    ASSUME Ws!Inv, NEW n \in Nat, Ws!Attempts(n), v6' = 0, v3' = Ws!Closed(v6), v4' = v4,
           v9' \in 0 .. UsesOfSocket
    PROVE  Ws!Inv'
<1> USE SocketAssumption DEF Ws!SocketTabAssumption, Ws!Inv
<1>1. PICK a \in Ws!Attempt :
        /\ v1[a] = "new" /\ v1' = [v1 EXCEPT ![a] = "building"]
        /\ v2' = [v2 EXCEPT ![a] = n + 1] /\ v5' = n + 1
        /\ v10' = (v10 \/ \E b \in Ws!Attempt : Ws!AtWork(b) /\ v2[b] = n + 1)
        /\ v8' = "connecting" /\ v7' = 0
  BY DEF Ws!Attempts, Ws!Renumbered
<1>2. Ws!told' = Ws!told /\ Ws!Queued'
  BY DEF Ws!told, Ws!Queued
<1>3. Ws!TypeOK'
  <2>1. v9' \in 0 .. UsesOfSocket
    BY <1>1, <1>2 DEF Ws!TypeOK, Ws!Attempt, Ws!Closed
  <2>2. v6' \in Ws!Attempt \cup {0}
    BY <1>1, <1>2 DEF Ws!TypeOK, Ws!Attempt, Ws!Closed
  <2>3. v7' \in Nat /\ v5' \in Nat
    BY <1>1, <1>2 DEF Ws!TypeOK, Ws!Attempt, Ws!Closed
  <2>4. v1' \in [Ws!Attempt -> {"new", "building", "asked", "over"}]
    BY <1>1, <1>2 DEF Ws!TypeOK, Ws!Attempt, Ws!Closed
  <2>5. v2' \in [Ws!Attempt -> Nat]
    BY <1>1, <1>2 DEF Ws!TypeOK, Ws!Attempt, Ws!Closed
  <2>6. v3' \in [Ws!Attempt -> {"none", "opening", "open", "closing", "closed"}]
    BY <1>1, <1>2 DEF Ws!TypeOK, Ws!Attempt, Ws!Closed
  <2>7. v8' \in {"none", "connecting", "connected", "disconnected", "error"}
    BY <1>1, <1>2 DEF Ws!TypeOK, Ws!Attempt, Ws!Closed
  <2>8. v10' \in BOOLEAN
    BY <1>1, <1>2 DEF Ws!TypeOK, Ws!Attempt, Ws!Closed
  <2> QED
    BY <2>1, <2>2, <2>3, <2>4, <2>5, <2>6, <2>7, <2>8 DEF Ws!TypeOK
<1>4. Ws!Heard'
  <2> SUFFICES ASSUME NEW c \in Ws!Attempt PROVE Ws!Heard!(c)'
    BY DEF Ws!Heard
  <2>0. \/ v3'[c] = v3[c]
        \/ c = v6 /\ v1[c] = "over" /\ v3[c] \in {"opening", "open"} /\ v3'[c] = "closing"
    BY DEF Ws!TypeOK, Ws!Closed, Ws!Registered
  <2>1. CASE c = a
    BY <1>1, <1>2, <2>1 DEF Ws!TypeOK, Ws!Heard, Ws!Closed
  <2>2. CASE c # a
    <3>1. v1'[c] = v1[c] /\ v2'[c] = v2[c] /\ Ws!told'[c] = Ws!told[c] /\ v6' = 0 /\ c # 0
      BY <1>1, <1>2, <2>2 DEF Ws!TypeOK, Ws!Attempt
    <3> QED
      BY <2>0, <3>1 DEF Ws!Heard
  <2> QED
    BY <2>1, <2>2
<1>5. Ws!Registered'
  BY DEF Ws!Registered
<1>6. ASSUME ~v10' PROVE Ws!Apart' /\ Ws!Owned' /\ Ws!Armed' /\ Ws!Shown' /\ Ws!OneSocket'
  <2>0. ~v10 /\ Ws!Apart /\ Ws!Owned /\ Ws!Armed /\ Ws!Shown /\ Ws!OneSocket
    BY <1>1, <1>2, <1>6 DEF Ws!TypeOK
  <2>1. Ws!working' \subseteq Ws!working \cup {a} /\ \A c \in Ws!working : c # a /\ v2'[c] # n + 1 /\ v2'[c] = v2[c]
    <3>1. Ws!working' \subseteq Ws!working \cup {a}
      BY <1>1, <1>2 DEF Ws!working, Ws!TypeOK, Ws!Closed
    <3>2. a \notin Ws!working
      BY <1>1 DEF Ws!working, Ws!Heard
    <3>3. \A c \in Ws!working : v2[c] # n + 1
      BY <1>1, <1>6, SocketAtWorkIs DEF Ws!TypeOK
    <3>4. Ws!working \subseteq Ws!Attempt
      BY DEF Ws!working
    <3> QED
      BY <1>1, <3>1, <3>2, <3>3, <3>4 DEF Ws!TypeOK
  <2>2. Ws!Apart'
    <3>1. v2'[a] = n + 1
      BY <1>1 DEF Ws!TypeOK
    <3> QED
      BY <2>0, <2>1, <3>1 DEF Ws!Apart
  <2>3. Ws!Owned'
    <3>1. v1'[a] # "over"
      BY <1>1 DEF Ws!TypeOK
    <3> QED
      BY <1>1, <2>1, <3>1 DEF Ws!Owned, Ws!Current
  <2>4. Ws!Armed'
    BY <1>1 DEF Ws!Armed
  <2>5. Ws!Shown'
    BY <1>1 DEF Ws!Shown
  <2>6. Ws!OneSocket'
    BY <1>1, <2>0 DEF Ws!TypeOK, Ws!OneSocket, Ws!Closed
  <2> QED
    BY <2>2, <2>3, <2>4, <2>5, <2>6
<1> QED
  BY <1>1, <1>2, <1>3, <1>4, <1>5, <1>6 DEF Ws!TypeOK

LEMMA SocketReleased ==
    ASSUME Ws!Inv, v7' = 0, v6' = 0, v3' = Ws!Closed(v6), UNCHANGED <<v1, v2, v4>>,
           v8' \in {"disconnected", "none"}, v9' \in 0 .. UsesOfSocket,
           (v5' = 0 /\ v10' = v10) \/ Ws!Renumbered(v5 + 1)
    PROVE  Ws!Inv'
<1> USE SocketAssumption DEF Ws!SocketTabAssumption, Ws!Inv
<1>2. Ws!told' = Ws!told /\ Ws!Queued'
  BY DEF Ws!told, Ws!Queued
<1>3. Ws!TypeOK'
  <2>1. v9' \in 0 .. UsesOfSocket
    BY <1>2 DEF Ws!TypeOK, Ws!Closed, Ws!Renumbered
  <2>2. v6' \in Ws!Attempt \cup {0}
    BY <1>2 DEF Ws!TypeOK, Ws!Closed, Ws!Renumbered
  <2>3. v7' \in Nat /\ v5' \in Nat
    BY <1>2 DEF Ws!TypeOK, Ws!Closed, Ws!Renumbered
  <2>4. v1' \in [Ws!Attempt -> {"new", "building", "asked", "over"}]
    BY <1>2 DEF Ws!TypeOK, Ws!Closed, Ws!Renumbered
  <2>5. v2' \in [Ws!Attempt -> Nat]
    BY <1>2 DEF Ws!TypeOK, Ws!Closed, Ws!Renumbered
  <2>6. v3' \in [Ws!Attempt -> {"none", "opening", "open", "closing", "closed"}]
    BY <1>2 DEF Ws!TypeOK, Ws!Closed, Ws!Renumbered
  <2>7. v8' \in {"none", "connecting", "connected", "disconnected", "error"}
    BY <1>2 DEF Ws!TypeOK, Ws!Closed, Ws!Renumbered
  <2>8. v10' \in BOOLEAN
    BY <1>2 DEF Ws!TypeOK, Ws!Closed, Ws!Renumbered
  <2> QED
    BY <2>1, <2>2, <2>3, <2>4, <2>5, <2>6, <2>7, <2>8 DEF Ws!TypeOK
<1>4. Ws!Heard'
  <2> SUFFICES ASSUME NEW c \in Ws!Attempt PROVE Ws!Heard!(c)'
    BY DEF Ws!Heard
  <2>0. \/ v3'[c] = v3[c]
        \/ c = v6 /\ v1[c] = "over" /\ v3[c] \in {"opening", "open"} /\ v3'[c] = "closing"
    BY DEF Ws!TypeOK, Ws!Closed, Ws!Registered
  <2>1. v1'[c] = v1[c] /\ v2'[c] = v2[c] /\ Ws!told'[c] = Ws!told[c] /\ v6' = 0 /\ c # 0
    BY <1>2 DEF Ws!TypeOK, Ws!Attempt
  <2> QED
    BY <2>0, <2>1 DEF Ws!Heard
<1>5. Ws!Registered'
  BY DEF Ws!Registered
<1>6. ASSUME ~v10' PROVE Ws!Apart' /\ Ws!Owned' /\ Ws!Armed' /\ Ws!Shown' /\ Ws!OneSocket'
  <2>0. ~v10 /\ Ws!Apart /\ Ws!Owned /\ Ws!Armed /\ Ws!Shown /\ Ws!OneSocket
    BY <1>6 DEF Ws!TypeOK, Ws!Renumbered
  <2>1. Ws!working' \subseteq Ws!working
    BY <1>2 DEF Ws!working, Ws!TypeOK, Ws!Closed
  <2>2. Ws!Apart'
    BY <2>0, <2>1 DEF Ws!Apart
  <2>3. Ws!Owned'
    <3>1. CASE v5' = 0
      BY <1>2, <2>1, <3>1 DEF Ws!Owned, Ws!Current, Ws!Heard, Ws!working
    <3>2. CASE Ws!Renumbered(v5 + 1)
      <4>1. \A c \in Ws!working : v2[c] # v5'
        BY <1>6, <3>2, SocketAtWorkIs DEF Ws!Renumbered, Ws!TypeOK
      <4> QED
        BY <2>1, <4>1 DEF Ws!Owned, Ws!Current
    <3> QED
      BY <3>1, <3>2
  <2>4. Ws!Armed'
    BY DEF Ws!Armed
  <2>5. Ws!Shown'
    BY DEF Ws!Shown
  <2>6. Ws!OneSocket'
    BY <2>0 DEF Ws!TypeOK, Ws!OneSocket, Ws!Closed
  <2> QED
    BY <2>2, <2>3, <2>4, <2>5, <2>6
<1> QED
  BY <1>2, <1>3, <1>4, <1>5, <1>6 DEF Ws!TypeOK

LEMMA SocketOnConnect == Ws!Inv /\ Ws!Connect => Ws!Inv'
  BY SocketAssumption, SocketStarted DEF Ws!SocketTabAssumption, Ws!Connect, Ws!Closed, Ws!Inv,
     Ws!TypeOK

LEMMA SocketOnReconnect == Ws!Inv /\ Ws!Reconnect => Ws!Inv'
<1> SUFFICES ASSUME Ws!Inv, Ws!Reconnect PROVE Ws!Inv'
  OBVIOUS
<1>1. v9' \in 0 .. UsesOfSocket /\ v5 + 1 \in Nat
  BY SocketAssumption DEF Ws!SocketTabAssumption, Ws!Reconnect, Ws!Inv, Ws!TypeOK
<1> QED
  BY <1>1, SocketStarted DEF Ws!Reconnect

LEMMA SocketOnDisconnect == Ws!Inv /\ Ws!Disconnect => Ws!Inv'
<1> SUFFICES ASSUME Ws!Inv, Ws!Disconnect PROVE Ws!Inv'
  OBVIOUS
<1>1. v9' \in 0 .. UsesOfSocket
  BY SocketAssumption DEF Ws!SocketTabAssumption, Ws!Disconnect, Ws!Inv, Ws!TypeOK
<1> QED
  BY <1>1, SocketReleased DEF Ws!Disconnect

LEMMA SocketOnForget == Ws!Inv /\ Ws!Forget => Ws!Inv'
<1> SUFFICES ASSUME Ws!Inv, Ws!Forget PROVE Ws!Inv'
  OBVIOUS
<1>1. v9' \in 0 .. UsesOfSocket
  BY SocketAssumption DEF Ws!SocketTabAssumption, Ws!Forget, Ws!Inv, Ws!TypeOK
<1> QED
  BY <1>1, SocketReleased DEF Ws!Forget

LEMMA SocketOnCloseAll == Ws!Inv /\ Ws!CloseAll => Ws!Inv'
<1> SUFFICES ASSUME Ws!Inv, Ws!CloseAll PROVE Ws!Inv'
  OBVIOUS
<1>1. v9' \in 0 .. UsesOfSocket
  BY SocketAssumption DEF Ws!SocketTabAssumption, Ws!CloseAll, Ws!Inv, Ws!TypeOK
<1> QED
  BY <1>1, SocketReleased DEF Ws!CloseAll

LEMMA SocketOnTakeMade ==
    ASSUME Ws!Inv, Ws!TakeMade
    PROVE  Ws!Inv'
<1> USE SocketAssumption DEF Ws!SocketTabAssumption, Ws!Inv
<1>1. /\ Ws!Queued' /\ Head(v4) \in Ws!Messages /\ Head(v4).kind \in Ws!told[Head(v4).of]
      /\ Ws!told' \in [Ws!Attempt -> SUBSET Ws!Kinds]
      /\ \A a \in Ws!Attempt : a # Head(v4).of => Ws!told'[a] = Ws!told[a]
      /\ Ws!told'[Head(v4).of] \subseteq Ws!told[Head(v4).of] \ {"made", "refused"}
      /\ Ws!told[Head(v4).of] \subseteq Ws!told'[Head(v4).of] \cup {Head(v4).kind}
      /\ Head(v4).kind \in {"ended", "broken"} => Ws!told'[Head(v4).of] = {}
  BY SocketTakes1 DEF Ws!TakeMade
<1>2. PICK b \in Ws!Attempt, k \in Ws!Kinds : b = Head(v4).of /\ k = Head(v4).kind
  BY <1>1 DEF Ws!Messages
<1>t. /\ k \in Ws!told[b] /\ Ws!told' \in [Ws!Attempt -> SUBSET Ws!Kinds]
      /\ \A a \in Ws!Attempt : a # b => Ws!told'[a] = Ws!told[a]
      /\ Ws!told'[b] \subseteq Ws!told[b] \ {"made", "refused"}
      /\ Ws!told[b] \subseteq Ws!told'[b] \cup {k}
      /\ k \in {"ended", "broken"} => Ws!told'[b] = {}
  BY <1>1, <1>2
<1>s. /\ k = "made" /\ v1' = [v1 EXCEPT ![b] = "over"]
      /\ IF Ws!Current(b) THEN v6' = b /\ v3' = v3 ELSE v3' = Ws!Closed(b) /\ v6' = v6
      /\ v2' = v2 /\ v5' = v5 /\ v7' = v7 /\ v8' = v8
      /\ v9' = v9 /\ v10' = v10
  BY <1>2 DEF Ws!TakeMade
<1>b. b \in Ws!working
  BY <1>t DEF Ws!working
<1>3. Ws!TypeOK'
  <2>1. v9' \in 0 .. UsesOfSocket
    BY <1>1, <1>2, <1>s DEF Ws!TypeOK, Ws!Current, Ws!Closed, Ws!Kinds
  <2>2. v6' \in Ws!Attempt \cup {0}
    BY <1>1, <1>2, <1>s DEF Ws!TypeOK, Ws!Current, Ws!Closed, Ws!Kinds
  <2>3. v7' \in Nat /\ v5' \in Nat
    BY <1>1, <1>2, <1>s DEF Ws!TypeOK, Ws!Current, Ws!Closed, Ws!Kinds
  <2>4. v1' \in [Ws!Attempt -> {"new", "building", "asked", "over"}]
    BY <1>1, <1>2, <1>s DEF Ws!TypeOK, Ws!Current, Ws!Closed, Ws!Kinds
  <2>5. v2' \in [Ws!Attempt -> Nat]
    BY <1>1, <1>2, <1>s DEF Ws!TypeOK, Ws!Current, Ws!Closed, Ws!Kinds
  <2>6. v3' \in [Ws!Attempt -> {"none", "opening", "open", "closing", "closed"}]
    BY <1>1, <1>2, <1>s DEF Ws!TypeOK, Ws!Current, Ws!Closed, Ws!Kinds
  <2>7. v8' \in {"none", "connecting", "connected", "disconnected", "error"}
    BY <1>1, <1>2, <1>s DEF Ws!TypeOK, Ws!Current, Ws!Closed, Ws!Kinds
  <2>8. v10' \in BOOLEAN
    BY <1>1, <1>2, <1>s DEF Ws!TypeOK, Ws!Current, Ws!Closed, Ws!Kinds
  <2> QED
    BY <2>1, <2>2, <2>3, <2>4, <2>5, <2>6, <2>7, <2>8 DEF Ws!TypeOK
<1>4. Ws!Heard'
  <2> SUFFICES ASSUME NEW c \in Ws!Attempt PROVE Ws!Heard!(c)'
    BY DEF Ws!Heard
  <2>1. CASE c = b
    BY <1>t, <1>s, <2>1, SocketTypeOfTold DEF Ws!TypeOK, Ws!Heard, Ws!Closed, Ws!Registered,
       Ws!Kinds
  <2>2. CASE c # b
    BY <1>t, <1>s, <2>2 DEF Ws!TypeOK, Ws!Heard, Ws!Closed, Ws!Registered
  <2> QED
    BY <2>1, <2>2
<1>5. Ws!Registered'
  BY <1>t, <1>s DEF Ws!TypeOK, Ws!Registered, Ws!Heard, Ws!Current, Ws!Closed
<1>6. ASSUME ~v10' PROVE Ws!Apart' /\ Ws!Owned' /\ Ws!Armed' /\ Ws!Shown' /\ Ws!OneSocket'
  <2>0. ~v10 /\ Ws!Apart /\ Ws!Owned /\ Ws!Armed /\ Ws!Shown /\ Ws!OneSocket
    BY <1>1, <1>2, <1>s, <1>6 DEF Ws!TypeOK
  <2>1. Ws!working' \subseteq Ws!working
    BY <1>t, <1>s, <1>b DEF Ws!working, Ws!TypeOK, Ws!Closed
  <2>2. Ws!Apart'
    BY <1>s, <2>0, <2>1 DEF Ws!Apart
  <2>3. Ws!Owned'
    BY <1>t, <1>s, <1>b, <2>0, <2>1 DEF Ws!Owned, Ws!Current, Ws!Apart, Ws!TypeOK, Ws!Heard,
       Ws!working
  <2>4. Ws!Armed'
    BY <1>t, <1>s, <1>b, <2>0, <2>1 DEF Ws!Armed, Ws!Apart, Ws!Current, Ws!TypeOK, Ws!Heard
  <2>5. Ws!Shown'
    BY <1>t, <1>s, <1>b, <2>0, <2>1 DEF Ws!Shown, Ws!Armed, Ws!Owned, Ws!Apart, Ws!Current,
       Ws!TypeOK, Ws!Heard, Ws!Registered, Ws!working, Ws!Closed, Ws!Kinds
  <2>6. Ws!OneSocket'
    <3>1. ASSUME NEW c \in Ws!Attempt, v3'[c] \in {"opening", "open"} PROVE c = v6' \/ v1'[c] = "asked"
      <4>0. v3[c] \in {"opening", "open"} /\ c \in Ws!working
        BY <1>s, <3>1 DEF Ws!TypeOK, Ws!Closed, Ws!working
      <4>1. CASE c = b
        BY <1>s, <3>1, <4>1 DEF Ws!TypeOK, Ws!Closed, Ws!Attempt
      <4>2. CASE c # b
        <5>1. v1'[c] = v1[c]
          BY <1>s, <4>2
        <5>2. c = v6 /\ c # 0 => ~Ws!Current(b)
          BY <1>b, <2>0, <4>0, <4>2 DEF Ws!Registered, Ws!Apart, Ws!Current
        <5> QED
          BY <1>s, <2>0, <4>0, <5>1, <5>2 DEF Ws!OneSocket, Ws!Attempt
      <4> QED
        BY <4>1, <4>2
    <3> QED
      BY <3>1 DEF Ws!OneSocket
  <2> QED
    BY <2>2, <2>3, <2>4, <2>5, <2>6
<1> QED
  BY <1>1, <1>2, <1>s, <1>3, <1>4, <1>5, <1>6 DEF Ws!TypeOK

LEMMA SocketOnTakeRefused ==
    ASSUME Ws!Inv, Ws!TakeRefused
    PROVE  Ws!Inv'
<1> USE SocketAssumption DEF Ws!SocketTabAssumption, Ws!Inv
<1>1. /\ Ws!Queued' /\ Head(v4) \in Ws!Messages /\ Head(v4).kind \in Ws!told[Head(v4).of]
      /\ Ws!told' \in [Ws!Attempt -> SUBSET Ws!Kinds]
      /\ \A a \in Ws!Attempt : a # Head(v4).of => Ws!told'[a] = Ws!told[a]
      /\ Ws!told'[Head(v4).of] \subseteq Ws!told[Head(v4).of] \ {"made", "refused"}
      /\ Ws!told[Head(v4).of] \subseteq Ws!told'[Head(v4).of] \cup {Head(v4).kind}
      /\ Head(v4).kind \in {"ended", "broken"} => Ws!told'[Head(v4).of] = {}
  BY SocketTakes1 DEF Ws!TakeRefused
<1>2. PICK b \in Ws!Attempt, k \in Ws!Kinds : b = Head(v4).of /\ k = Head(v4).kind
  BY <1>1 DEF Ws!Messages
<1>t. /\ k \in Ws!told[b] /\ Ws!told' \in [Ws!Attempt -> SUBSET Ws!Kinds]
      /\ \A a \in Ws!Attempt : a # b => Ws!told'[a] = Ws!told[a]
      /\ Ws!told'[b] \subseteq Ws!told[b] \ {"made", "refused"}
      /\ Ws!told[b] \subseteq Ws!told'[b] \cup {k}
      /\ k \in {"ended", "broken"} => Ws!told'[b] = {}
  BY <1>1, <1>2
<1>s. /\ k = "refused" /\ v1' = [v1 EXCEPT ![b] = "over"]
      /\ v8' = IF Ws!Current(b) THEN "error" ELSE v8
      /\ v2' = v2 /\ v5' = v5 /\ v7' = v7 /\ v3' = v3
      /\ v6' = v6 /\ v9' = v9 /\ v10' = v10
  BY <1>2 DEF Ws!TakeRefused
<1>b. b \in Ws!working
  BY <1>t DEF Ws!working
<1>3. Ws!TypeOK'
  <2>1. v9' \in 0 .. UsesOfSocket
    BY <1>1, <1>2, <1>s DEF Ws!TypeOK, Ws!Current, Ws!Closed, Ws!Kinds
  <2>2. v6' \in Ws!Attempt \cup {0}
    BY <1>1, <1>2, <1>s DEF Ws!TypeOK, Ws!Current, Ws!Closed, Ws!Kinds
  <2>3. v7' \in Nat /\ v5' \in Nat
    BY <1>1, <1>2, <1>s DEF Ws!TypeOK, Ws!Current, Ws!Closed, Ws!Kinds
  <2>4. v1' \in [Ws!Attempt -> {"new", "building", "asked", "over"}]
    BY <1>1, <1>2, <1>s DEF Ws!TypeOK, Ws!Current, Ws!Closed, Ws!Kinds
  <2>5. v2' \in [Ws!Attempt -> Nat]
    BY <1>1, <1>2, <1>s DEF Ws!TypeOK, Ws!Current, Ws!Closed, Ws!Kinds
  <2>6. v3' \in [Ws!Attempt -> {"none", "opening", "open", "closing", "closed"}]
    BY <1>1, <1>2, <1>s DEF Ws!TypeOK, Ws!Current, Ws!Closed, Ws!Kinds
  <2>7. v8' \in {"none", "connecting", "connected", "disconnected", "error"}
    BY <1>1, <1>2, <1>s DEF Ws!TypeOK, Ws!Current, Ws!Closed, Ws!Kinds
  <2>8. v10' \in BOOLEAN
    BY <1>1, <1>2, <1>s DEF Ws!TypeOK, Ws!Current, Ws!Closed, Ws!Kinds
  <2> QED
    BY <2>1, <2>2, <2>3, <2>4, <2>5, <2>6, <2>7, <2>8 DEF Ws!TypeOK
<1>4. Ws!Heard'
  <2> SUFFICES ASSUME NEW c \in Ws!Attempt PROVE Ws!Heard!(c)'
    BY DEF Ws!Heard
  <2>1. CASE c = b
    BY <1>t, <1>s, <2>1, SocketTypeOfTold DEF Ws!TypeOK, Ws!Heard, Ws!Closed, Ws!Registered,
       Ws!Kinds
  <2>2. CASE c # b
    BY <1>t, <1>s, <2>2 DEF Ws!TypeOK, Ws!Heard, Ws!Closed, Ws!Registered
  <2> QED
    BY <2>1, <2>2
<1>5. Ws!Registered'
  BY <1>t, <1>s DEF Ws!TypeOK, Ws!Registered, Ws!Heard, Ws!Current, Ws!Closed
<1>6. ASSUME ~v10' PROVE Ws!Apart' /\ Ws!Owned' /\ Ws!Armed' /\ Ws!Shown' /\ Ws!OneSocket'
  <2>0. ~v10 /\ Ws!Apart /\ Ws!Owned /\ Ws!Armed /\ Ws!Shown /\ Ws!OneSocket
    BY <1>1, <1>2, <1>s, <1>6 DEF Ws!TypeOK
  <2>1. Ws!working' \subseteq Ws!working
    BY <1>t, <1>s, <1>b DEF Ws!working, Ws!TypeOK, Ws!Closed
  <2>2. Ws!Apart'
    BY <1>s, <2>0, <2>1 DEF Ws!Apart
  <2>3. Ws!Owned'
    <3>1. b \notin Ws!working'
      BY <1>t, <1>s, SocketTypeOfTold DEF Ws!working, Ws!TypeOK, Ws!Heard, Ws!Kinds
    <3> QED
      BY <1>t, <1>s, <2>0, <2>1, <3>1 DEF Ws!Owned, Ws!Current, Ws!working, Ws!TypeOK
  <2>4. Ws!Armed'
    BY <1>t, <1>s, <1>b, <2>0, <2>1 DEF Ws!Armed, Ws!Apart, Ws!Current, Ws!TypeOK, Ws!Heard
  <2>5. Ws!Shown'
    BY <1>t, <1>s, <1>b, <2>0, <2>1 DEF Ws!Shown, Ws!Armed, Ws!Owned, Ws!Apart, Ws!Current,
       Ws!TypeOK, Ws!Heard, Ws!Registered, Ws!working, Ws!Closed, Ws!Kinds
  <2>6. Ws!OneSocket'
    BY <1>t, <1>s, <1>b, <2>0, <2>1 DEF Ws!OneSocket, Ws!Apart, Ws!Current, Ws!TypeOK, Ws!Heard,
       Ws!Registered, Ws!working, Ws!Closed
  <2> QED
    BY <2>2, <2>3, <2>4, <2>5, <2>6
<1> QED
  BY <1>1, <1>2, <1>s, <1>3, <1>4, <1>5, <1>6 DEF Ws!TypeOK

LEMMA SocketOnTakeEvent ==
    ASSUME Ws!Inv, Ws!TakeEvent
    PROVE  Ws!Inv'
<1> USE SocketAssumption DEF Ws!SocketTabAssumption, Ws!Inv
<1>1. /\ Ws!Queued' /\ Head(v4) \in Ws!Messages /\ Head(v4).kind \in Ws!told[Head(v4).of]
      /\ Ws!told' \in [Ws!Attempt -> SUBSET Ws!Kinds]
      /\ \A a \in Ws!Attempt : a # Head(v4).of => Ws!told'[a] = Ws!told[a]
      /\ Ws!told'[Head(v4).of] \subseteq Ws!told[Head(v4).of] \ {"made", "refused"}
      /\ Ws!told[Head(v4).of] \subseteq Ws!told'[Head(v4).of] \cup {Head(v4).kind}
      /\ Head(v4).kind \in {"ended", "broken"} => Ws!told'[Head(v4).of] = {}
  BY SocketTakes1 DEF Ws!TakeEvent
<1>2. PICK b \in Ws!Attempt, k \in Ws!Kinds : b = Head(v4).of /\ k = Head(v4).kind
  BY <1>1 DEF Ws!Messages
<1>t. /\ k \in Ws!told[b] /\ Ws!told' \in [Ws!Attempt -> SUBSET Ws!Kinds]
      /\ \A a \in Ws!Attempt : a # b => Ws!told'[a] = Ws!told[a]
      /\ Ws!told'[b] \subseteq Ws!told[b] \ {"made", "refused"}
      /\ Ws!told[b] \subseteq Ws!told'[b] \cup {k}
      /\ k \in {"ended", "broken"} => Ws!told'[b] = {}
  BY <1>1, <1>2
<1>s. /\ k \in {"connected", "error"} /\ v1' = v1
      /\ v8' = IF Ws!Current(b) THEN k ELSE v8
      /\ v2' = v2 /\ v5' = v5 /\ v7' = v7 /\ v3' = v3
      /\ v6' = v6 /\ v9' = v9 /\ v10' = v10
  BY <1>2 DEF Ws!TakeEvent
<1>b. b \in Ws!working
  BY <1>t DEF Ws!working
<1>3. Ws!TypeOK'
  <2>1. v9' \in 0 .. UsesOfSocket
    BY <1>1, <1>2, <1>s DEF Ws!TypeOK, Ws!Current, Ws!Closed, Ws!Kinds
  <2>2. v6' \in Ws!Attempt \cup {0}
    BY <1>1, <1>2, <1>s DEF Ws!TypeOK, Ws!Current, Ws!Closed, Ws!Kinds
  <2>3. v7' \in Nat /\ v5' \in Nat
    BY <1>1, <1>2, <1>s DEF Ws!TypeOK, Ws!Current, Ws!Closed, Ws!Kinds
  <2>4. v1' \in [Ws!Attempt -> {"new", "building", "asked", "over"}]
    BY <1>1, <1>2, <1>s DEF Ws!TypeOK, Ws!Current, Ws!Closed, Ws!Kinds
  <2>5. v2' \in [Ws!Attempt -> Nat]
    BY <1>1, <1>2, <1>s DEF Ws!TypeOK, Ws!Current, Ws!Closed, Ws!Kinds
  <2>6. v3' \in [Ws!Attempt -> {"none", "opening", "open", "closing", "closed"}]
    BY <1>1, <1>2, <1>s DEF Ws!TypeOK, Ws!Current, Ws!Closed, Ws!Kinds
  <2>7. v8' \in {"none", "connecting", "connected", "disconnected", "error"}
    BY <1>1, <1>2, <1>s DEF Ws!TypeOK, Ws!Current, Ws!Closed, Ws!Kinds
  <2>8. v10' \in BOOLEAN
    BY <1>1, <1>2, <1>s DEF Ws!TypeOK, Ws!Current, Ws!Closed, Ws!Kinds
  <2> QED
    BY <2>1, <2>2, <2>3, <2>4, <2>5, <2>6, <2>7, <2>8 DEF Ws!TypeOK
<1>4. Ws!Heard'
  <2> SUFFICES ASSUME NEW c \in Ws!Attempt PROVE Ws!Heard!(c)'
    BY DEF Ws!Heard
  <2>1. CASE c = b
    BY <1>t, <1>s, <2>1, SocketTypeOfTold DEF Ws!TypeOK, Ws!Heard, Ws!Closed, Ws!Registered,
       Ws!Kinds
  <2>2. CASE c # b
    BY <1>t, <1>s, <2>2 DEF Ws!TypeOK, Ws!Heard, Ws!Closed, Ws!Registered
  <2> QED
    BY <2>1, <2>2
<1>5. Ws!Registered'
  BY <1>t, <1>s DEF Ws!TypeOK, Ws!Registered, Ws!Heard, Ws!Current, Ws!Closed
<1>6. ASSUME ~v10' PROVE Ws!Apart' /\ Ws!Owned' /\ Ws!Armed' /\ Ws!Shown' /\ Ws!OneSocket'
  <2>0. ~v10 /\ Ws!Apart /\ Ws!Owned /\ Ws!Armed /\ Ws!Shown /\ Ws!OneSocket
    BY <1>1, <1>2, <1>s, <1>6 DEF Ws!TypeOK
  <2>1. Ws!working' \subseteq Ws!working
    BY <1>t, <1>s, <1>b DEF Ws!working, Ws!TypeOK, Ws!Closed
  <2>2. Ws!Apart'
    BY <1>s, <2>0, <2>1 DEF Ws!Apart
  <2>3. Ws!Owned'
    BY <1>t, <1>s, <1>b, <2>0, <2>1 DEF Ws!Owned, Ws!Current, Ws!Apart, Ws!TypeOK, Ws!Heard,
       Ws!working
  <2>4. Ws!Armed'
    BY <1>t, <1>s, <1>b, <2>0, <2>1 DEF Ws!Armed, Ws!Apart, Ws!Current, Ws!TypeOK, Ws!Heard
  <2>5. Ws!Shown'
    <3>1. v1[b] = "over" \/ v1[b] = "asked"
      BY <1>t DEF Ws!Heard, Ws!TypeOK
    <3>2. Ws!told[b] \subseteq Ws!Kinds
      BY SocketTypeOfTold
    <3>3. CASE ~Ws!Current(b)
      <4>1. v6 # 0 => v6 # b
        BY <3>3 DEF Ws!Registered, Ws!Current
      <4> QED
        BY <1>t, <1>s, <2>0, <3>3, <4>1 DEF Ws!Shown, Ws!TypeOK
    <3>4. CASE Ws!Current(b)
      <4>1. v1[b] = "over"
        BY <1>t, <1>s, <3>1 DEF Ws!Heard
      <4>2. v6 = b /\ v6 # 0
        BY <1>b, <2>0, <3>4, <4>1 DEF Ws!Owned, Ws!Attempt
      <4>3. k = "error" => v3[b] = "closed"
        BY <1>t DEF Ws!Heard
      <4>4. k = "connected" => v3[b] # "opening"
        BY <1>t DEF Ws!Heard
      <4> QED
        BY <1>s, <3>4, <4>2, <4>3, <4>4 DEF Ws!Shown
    <3> QED
      BY <3>3, <3>4
  <2>6. Ws!OneSocket'
    BY <1>t, <1>s, <1>b, <2>0, <2>1 DEF Ws!OneSocket, Ws!Apart, Ws!Current, Ws!TypeOK, Ws!Heard,
       Ws!Registered, Ws!working, Ws!Closed
  <2> QED
    BY <2>2, <2>3, <2>4, <2>5, <2>6
<1> QED
  BY <1>1, <1>2, <1>s, <1>3, <1>4, <1>5, <1>6 DEF Ws!TypeOK

LEMMA SocketOnTakeClose ==
    ASSUME Ws!Inv, Ws!TakeClose
    PROVE  Ws!Inv'
<1> USE SocketAssumption DEF Ws!SocketTabAssumption, Ws!Inv
<1>1. /\ Ws!Queued' /\ Head(v4) \in Ws!Messages /\ Head(v4).kind \in Ws!told[Head(v4).of]
      /\ Ws!told' \in [Ws!Attempt -> SUBSET Ws!Kinds]
      /\ \A a \in Ws!Attempt : a # Head(v4).of => Ws!told'[a] = Ws!told[a]
      /\ Ws!told'[Head(v4).of] \subseteq Ws!told[Head(v4).of] \ {"made", "refused"}
      /\ Ws!told[Head(v4).of] \subseteq Ws!told'[Head(v4).of] \cup {Head(v4).kind}
      /\ Head(v4).kind \in {"ended", "broken"} => Ws!told'[Head(v4).of] = {}
  BY SocketTakes1 DEF Ws!TakeClose
<1>2. PICK b \in Ws!Attempt, k \in Ws!Kinds : b = Head(v4).of /\ k = Head(v4).kind
  BY <1>1 DEF Ws!Messages
<1>t. /\ k \in Ws!told[b] /\ Ws!told' \in [Ws!Attempt -> SUBSET Ws!Kinds]
      /\ \A a \in Ws!Attempt : a # b => Ws!told'[a] = Ws!told[a]
      /\ Ws!told'[b] \subseteq Ws!told[b] \ {"made", "refused"}
      /\ Ws!told[b] \subseteq Ws!told'[b] \cup {k}
      /\ k \in {"ended", "broken"} => Ws!told'[b] = {}
  BY <1>1, <1>2
<1>s. /\ k \in {"ended", "broken"} /\ v1' = v1
      /\ IF Ws!Current(b)
         THEN /\ v6' = 0
              /\ \/ v8' = "connecting" /\ v7' = v5
                 \/ v8' = "disconnected" /\ v7' = v7
         ELSE v6' = v6 /\ v8' = v8 /\ v7' = v7
      /\ v2' = v2 /\ v5' = v5 /\ v3' = v3
      /\ v9' = v9 /\ v10' = v10
  BY <1>2 DEF Ws!TakeClose
<1>b. b \in Ws!working
  BY <1>t DEF Ws!working
<1>3. Ws!TypeOK'
  <2>1. v9' \in 0 .. UsesOfSocket
    BY <1>1, <1>2, <1>s DEF Ws!TypeOK, Ws!Current, Ws!Closed, Ws!Kinds
  <2>2. v6' \in Ws!Attempt \cup {0}
    BY <1>1, <1>2, <1>s DEF Ws!TypeOK, Ws!Current, Ws!Closed, Ws!Kinds
  <2>3. v7' \in Nat /\ v5' \in Nat
    BY <1>1, <1>2, <1>s DEF Ws!TypeOK, Ws!Current, Ws!Closed, Ws!Kinds
  <2>4. v1' \in [Ws!Attempt -> {"new", "building", "asked", "over"}]
    BY <1>1, <1>2, <1>s DEF Ws!TypeOK, Ws!Current, Ws!Closed, Ws!Kinds
  <2>5. v2' \in [Ws!Attempt -> Nat]
    BY <1>1, <1>2, <1>s DEF Ws!TypeOK, Ws!Current, Ws!Closed, Ws!Kinds
  <2>6. v3' \in [Ws!Attempt -> {"none", "opening", "open", "closing", "closed"}]
    BY <1>1, <1>2, <1>s DEF Ws!TypeOK, Ws!Current, Ws!Closed, Ws!Kinds
  <2>7. v8' \in {"none", "connecting", "connected", "disconnected", "error"}
    BY <1>1, <1>2, <1>s DEF Ws!TypeOK, Ws!Current, Ws!Closed, Ws!Kinds
  <2>8. v10' \in BOOLEAN
    BY <1>1, <1>2, <1>s DEF Ws!TypeOK, Ws!Current, Ws!Closed, Ws!Kinds
  <2> QED
    BY <2>1, <2>2, <2>3, <2>4, <2>5, <2>6, <2>7, <2>8 DEF Ws!TypeOK
<1>4. Ws!Heard'
  <2> SUFFICES ASSUME NEW c \in Ws!Attempt PROVE Ws!Heard!(c)'
    BY DEF Ws!Heard
  <2>1. CASE c = b
    <3>1. v1[b] # "asked"
      BY <1>t, <1>s DEF Ws!Heard
    <3>2. v6 = b => v6' = 0
      BY <1>s DEF Ws!Registered, Ws!Current, Ws!Attempt
    <3>3. v6' # b
      BY <1>s, <3>2 DEF Ws!Attempt
    <3> QED
      BY <1>t, <1>s, <2>1, <3>1, <3>3 DEF Ws!Heard
  <2>2. CASE c # b
    <3>1. v6' = c => v6 = c
      BY <1>s DEF Ws!Attempt
    <3> QED
      BY <1>t, <1>s, <2>2, <3>1 DEF Ws!Heard
  <2> QED
    BY <2>1, <2>2
<1>5. Ws!Registered'
  BY <1>t, <1>s DEF Ws!TypeOK, Ws!Registered, Ws!Heard, Ws!Current, Ws!Closed
<1>6. ASSUME ~v10' PROVE Ws!Apart' /\ Ws!Owned' /\ Ws!Armed' /\ Ws!Shown' /\ Ws!OneSocket'
  <2>0. ~v10 /\ Ws!Apart /\ Ws!Owned /\ Ws!Armed /\ Ws!Shown /\ Ws!OneSocket
    BY <1>1, <1>2, <1>s, <1>6 DEF Ws!TypeOK
  <2>1. Ws!working' \subseteq Ws!working
    BY <1>t, <1>s, <1>b DEF Ws!working, Ws!TypeOK, Ws!Closed
  <2>2. Ws!Apart'
    BY <1>s, <2>0, <2>1 DEF Ws!Apart
  <2>3. Ws!Owned'
    BY <1>t, <1>s, <1>b, <2>0, <2>1 DEF Ws!Owned, Ws!Current, Ws!Apart, Ws!TypeOK, Ws!Heard,
       Ws!working
  <2>4. Ws!Armed'
    <3>1. v1[b] # "asked" /\ v3[b] = "closed" /\ Ws!told'[b] = {}
      BY <1>t, <1>s DEF Ws!Heard
    <3>2. b \notin Ws!working'
      BY <1>t, <1>s, <3>1 DEF Ws!working, Ws!Heard
    <3>3. CASE Ws!Current(b)
      <4>1. v7 = 0
        BY <1>b, <2>0, <3>3 DEF Ws!Armed, Ws!Current
      <4>2. \A c \in Ws!working' : v2[c] # v5
        BY <1>b, <2>0, <2>1, <3>2, <3>3 DEF Ws!Apart, Ws!Current
      <4> QED
        BY <1>s, <3>3, <4>1, <4>2 DEF Ws!Armed
    <3>4. CASE ~Ws!Current(b)
      BY <1>s, <2>0, <2>1, <3>4 DEF Ws!Armed
    <3> QED
      BY <3>3, <3>4
  <2>5. Ws!Shown'
    BY <1>t, <1>s, <1>b, <2>0, <2>1 DEF Ws!Shown, Ws!Armed, Ws!Owned, Ws!Apart, Ws!Current,
       Ws!TypeOK, Ws!Heard, Ws!Registered, Ws!working, Ws!Closed, Ws!Kinds
  <2>6. Ws!OneSocket'
    BY <1>t, <1>s, <1>b, <2>0, <2>1 DEF Ws!OneSocket, Ws!Apart, Ws!Current, Ws!TypeOK, Ws!Heard,
       Ws!Registered, Ws!working, Ws!Closed
  <2> QED
    BY <2>2, <2>3, <2>4, <2>5, <2>6
<1> QED
  BY <1>1, <1>2, <1>s, <1>3, <1>4, <1>5, <1>6 DEF Ws!TypeOK

LEMMA SocketOnTimerFires == Ws!Inv /\ Ws!TimerFires => Ws!Inv'
<1> SUFFICES ASSUME Ws!Inv, Ws!TimerFires PROVE Ws!Inv'
  OBVIOUS
<1>0. v9' \in 0 .. UsesOfSocket /\ v5 \in Nat /\ v4' = v4 /\ v3' = v3
  BY SocketAssumption DEF Ws!SocketTabAssumption, Ws!TimerFires, Ws!Inv, Ws!TypeOK
<1>1. CASE v5 = v7 /\ v6 = 0
  <2>1. Ws!Attempts(v5) /\ v6' = 0 /\ v3' = Ws!Closed(v6)
    BY <1>1 DEF Ws!TimerFires, Ws!Closed
  <2> QED
    BY <1>0, <2>1, SocketStarted
<1>2. CASE ~(v5 = v7 /\ v6 = 0)
  <2>1. /\ v7' = 0 /\ v1' = v1 /\ v2' = v2 /\ v5' = v5
        /\ v8' = v8 /\ v10' = v10 /\ v3' = v3 /\ v6' = v6 /\ v4' = v4
    BY <1>2 DEF Ws!TimerFires
  <2>2. Ws!TypeOK'
    BY <1>0, <2>1 DEF Ws!Inv, Ws!TypeOK
  <2>3. Ws!told' = Ws!told /\ Ws!working' = Ws!working
    BY <2>1 DEF Ws!told, Ws!working
  <2>4. Ws!Queued' /\ Ws!Heard' /\ Ws!Registered'
    BY <2>1, <2>3 DEF Ws!Inv, Ws!Queued, Ws!Heard, Ws!Registered
  <2>5. Ws!Apart /\ Ws!Owned /\ Ws!Armed /\ Ws!Shown /\ Ws!OneSocket => (Ws!Apart /\ Ws!Owned /\ Ws!Armed /\ Ws!Shown /\ Ws!OneSocket)'
    BY <2>1, <2>3 DEF Ws!Apart, Ws!Owned, Ws!Armed, Ws!Shown, Ws!OneSocket, Ws!Current
  <2> QED
    BY <2>1, <2>2, <2>4, <2>5 DEF Ws!Inv
<1> QED
  BY <1>1, <1>2

LEMMA SocketOnBuildFails ==
    ASSUME Ws!Inv, NEW a \in Ws!Attempt, Ws!BuildFails(a)
    PROVE  Ws!Inv'
<1> USE SocketAssumption DEF Ws!SocketTabAssumption, Ws!Inv
<1>1. /\ v1[a] = "building" /\ v1' = [v1 EXCEPT ![a] = "over"]
      /\ v8' = IF Ws!Current(a) THEN "error" ELSE v8
      /\ v2' = v2 /\ v3' = v3 /\ v4' = v4 /\ v5' = v5
      /\ v6' = v6 /\ v7' = v7 /\ v9' = v9 /\ v10' = v10
  BY DEF Ws!BuildFails
<1>2. Ws!told' = Ws!told /\ Ws!Queued'
  BY <1>1 DEF Ws!told, Ws!Queued
<1>a. a \in Ws!working
  BY <1>1 DEF Ws!working
<1>3. Ws!TypeOK'
  <2>1. v9' \in 0 .. UsesOfSocket
    BY <1>1, <1>2 DEF Ws!TypeOK, Ws!Current
  <2>2. v6' \in Ws!Attempt \cup {0}
    BY <1>1, <1>2 DEF Ws!TypeOK, Ws!Current
  <2>3. v7' \in Nat /\ v5' \in Nat
    BY <1>1, <1>2 DEF Ws!TypeOK, Ws!Current
  <2>4. v1' \in [Ws!Attempt -> {"new", "building", "asked", "over"}]
    BY <1>1, <1>2 DEF Ws!TypeOK, Ws!Current
  <2>5. v2' \in [Ws!Attempt -> Nat]
    BY <1>1, <1>2 DEF Ws!TypeOK, Ws!Current
  <2>6. v3' \in [Ws!Attempt -> {"none", "opening", "open", "closing", "closed"}]
    BY <1>1, <1>2 DEF Ws!TypeOK, Ws!Current
  <2>7. v8' \in {"none", "connecting", "connected", "disconnected", "error"}
    BY <1>1, <1>2 DEF Ws!TypeOK, Ws!Current
  <2>8. v10' \in BOOLEAN
    BY <1>1, <1>2 DEF Ws!TypeOK, Ws!Current
  <2> QED
    BY <2>1, <2>2, <2>3, <2>4, <2>5, <2>6, <2>7, <2>8 DEF Ws!TypeOK
<1>4. Ws!Heard'
  <2> SUFFICES ASSUME NEW c \in Ws!Attempt PROVE Ws!Heard!(c)'
    BY DEF Ws!Heard
  <2>1. CASE c = a
    BY <1>1, <1>2, <2>1 DEF Ws!TypeOK, Ws!Heard, Ws!Registered, Ws!Attempt
  <2>2. CASE c # a
    BY <1>1, <1>2, <2>2 DEF Ws!TypeOK, Ws!Heard
  <2> QED
    BY <2>1, <2>2
<1>5. Ws!Registered'
  BY <1>1, <1>2 DEF Ws!TypeOK, Ws!Heard, Ws!Registered
<1>6. ASSUME ~v10' PROVE Ws!Apart' /\ Ws!Owned' /\ Ws!Armed' /\ Ws!Shown' /\ Ws!OneSocket'
  <2>0. ~v10 /\ Ws!Apart /\ Ws!Owned /\ Ws!Armed /\ Ws!Shown /\ Ws!OneSocket
    BY <1>1, <1>2, <1>6 DEF Ws!TypeOK
  <2>1. Ws!working' \subseteq Ws!working
    BY <1>1, <1>2 DEF Ws!working, Ws!TypeOK
  <2>2. Ws!Apart'
    BY <1>1, <1>2, <2>0, <2>1 DEF Ws!TypeOK, Ws!Heard, Ws!Apart, Ws!working
  <2>3. Ws!Owned'
    <3>1. a \notin Ws!working'
      BY <1>1, <1>2 DEF Ws!working, Ws!Heard, Ws!TypeOK
    <3> QED
      BY <1>1, <1>2, <2>0, <2>1, <3>1 DEF Ws!Owned, Ws!Current, Ws!working, Ws!TypeOK
  <2>4. Ws!Armed'
    BY <1>1, <1>a, <2>0, <2>1 DEF Ws!Armed, Ws!Current
  <2>5. Ws!Shown'
    <3>1. v6 # 0 /\ v3[v6] = "open" => ~Ws!Current(a)
      BY <1>1, <1>a, <2>0 DEF Ws!Apart, Ws!Current, Ws!Registered, Ws!working, Ws!TypeOK
    <3> QED
      BY <1>1, <1>2, <2>0, <3>1 DEF Ws!Shown
  <2>6. Ws!OneSocket'
    BY <1>1, <2>0 DEF Ws!OneSocket, Ws!TypeOK
  <2> QED
    BY <2>2, <2>3, <2>4, <2>5, <2>6
<1> QED
  BY <1>1, <1>2, <1>3, <1>4, <1>5, <1>6 DEF Ws!TypeOK

LEMMA SocketOnBuilt ==
    ASSUME Ws!Inv, NEW a \in Ws!Attempt, Ws!Built(a)
    PROVE  Ws!Inv'
<1> USE SocketAssumption DEF Ws!SocketTabAssumption, Ws!Inv
<1>0. Ws!told[a] = {} /\ v3[a] = "none" /\ v1[a] = "building"
  BY DEF Ws!Built, Ws!Heard
<1>1. /\ v2' = v2 /\ v5' = v5 /\ v8' = v8
      /\ v6' = v6 /\ v7' = v7 /\ v9' = v9 /\ v10' = v10
  BY DEF Ws!Built
<1>2. /\ Ws!Queued'
      /\ \/ /\ v1' = [v1 EXCEPT ![a] = "asked"] /\ v3' = [v3 EXCEPT ![a] = "opening"]
            /\ Ws!told' = [Ws!told EXCEPT ![a] = Ws!told[a] \cup {"made"}]
         \/ /\ v1' = [v1 EXCEPT ![a] = "asked"] /\ v3' = v3
            /\ Ws!told' = [Ws!told EXCEPT ![a] = Ws!told[a] \cup {"refused"}]
         \/ v1' = [v1 EXCEPT ![a] = "over"] /\ v3' = v3 /\ Ws!told' = Ws!told
  <2>1. CASE Ws!Current(a)
    <3>1. PICK k \in {"made", "refused"} :
            /\ v4' = Append(v4, Ws!Message(a, k))
            /\ v3' = IF k = "made" THEN [v3 EXCEPT ![a] = "opening"] ELSE v3
      BY <2>1 DEF Ws!Built
    <3>2. Ws!Queued' /\ Ws!told' = [Ws!told EXCEPT ![a] = Ws!told[a] \cup {k}]
      BY <1>0, <3>1, SocketTells1 DEF Ws!Kinds
    <3> QED
      BY <2>1, <3>1, <3>2 DEF Ws!Built
  <2>2. CASE ~Ws!Current(a)
    BY <2>2 DEF Ws!Built, Ws!Queued, Ws!told
  <2> QED
    BY <2>1, <2>2
<1>a. a \in Ws!working
  BY <1>0 DEF Ws!working
<1>3. Ws!TypeOK'
  <2>1. v9' \in 0 .. UsesOfSocket
    BY <1>0, <1>1, <1>2 DEF Ws!TypeOK
  <2>2. v6' \in Ws!Attempt \cup {0}
    BY <1>0, <1>1, <1>2 DEF Ws!TypeOK
  <2>3. v7' \in Nat /\ v5' \in Nat
    BY <1>0, <1>1, <1>2 DEF Ws!TypeOK
  <2>4. v1' \in [Ws!Attempt -> {"new", "building", "asked", "over"}]
    BY <1>0, <1>1, <1>2 DEF Ws!TypeOK
  <2>5. v2' \in [Ws!Attempt -> Nat]
    BY <1>0, <1>1, <1>2 DEF Ws!TypeOK
  <2>6. v3' \in [Ws!Attempt -> {"none", "opening", "open", "closing", "closed"}]
    BY <1>0, <1>1, <1>2 DEF Ws!TypeOK
  <2>7. v8' \in {"none", "connecting", "connected", "disconnected", "error"}
    BY <1>0, <1>1, <1>2 DEF Ws!TypeOK
  <2>8. v10' \in BOOLEAN
    BY <1>0, <1>1, <1>2 DEF Ws!TypeOK
  <2> QED
    BY <2>1, <2>2, <2>3, <2>4, <2>5, <2>6, <2>7, <2>8 DEF Ws!TypeOK
<1>4. Ws!Heard'
  <2> SUFFICES ASSUME NEW c \in Ws!Attempt PROVE Ws!Heard!(c)'
    BY DEF Ws!Heard
  <2>1. CASE c = a
    <3>1. v6 # a
      BY <1>0 DEF Ws!Registered, Ws!Attempt
    <3> QED
      BY <1>0, <1>1, <1>2, <2>1, <3>1, SocketTypeOfTold DEF Ws!TypeOK, Ws!Heard
  <2>2. CASE c # a
    BY <1>1, <1>2, <2>2, SocketTypeOfTold DEF Ws!TypeOK, Ws!Heard
  <2> QED
    BY <2>1, <2>2
<1>5. Ws!Registered'
  BY <1>0, <1>1, <1>2 DEF Ws!TypeOK, Ws!Heard, Ws!Registered
<1>6. ASSUME ~v10' PROVE Ws!Apart' /\ Ws!Owned' /\ Ws!Armed' /\ Ws!Shown' /\ Ws!OneSocket'
  <2>0. ~v10 /\ Ws!Apart /\ Ws!Owned /\ Ws!Armed /\ Ws!Shown /\ Ws!OneSocket
    BY <1>0, <1>1, <1>2, <1>6 DEF Ws!TypeOK
  <2>1. Ws!working' \subseteq Ws!working
    BY <1>1, <1>2, <1>a, SocketTypeOfTold DEF Ws!working, Ws!TypeOK
  <2>2. Ws!Apart'
    BY <1>1, <2>0, <2>1 DEF Ws!Apart
  <2>3. Ws!Owned'
    <3>1. a \in Ws!working' => v1'[a] # "over"
      BY <1>0, <1>2, SocketTypeOfTold DEF Ws!working, Ws!TypeOK
    <3> QED
      BY <1>1, <1>2, <2>0, <2>1, <3>1 DEF Ws!Owned, Ws!Current, Ws!working, Ws!TypeOK
  <2>4. Ws!Armed'
    BY <1>1, <2>0, <2>1 DEF Ws!Armed
  <2>5. Ws!Shown'
    <3>1. v6 # a
      BY <1>0 DEF Ws!Registered, Ws!Attempt
    <3> QED
      BY <1>1, <1>2, <2>0, <3>1, SocketTypeOfTold DEF Ws!Shown, Ws!TypeOK
  <2>6. Ws!OneSocket'
    BY <1>0, <1>1, <1>2, <2>0, <2>1 DEF Ws!TypeOK, Ws!Heard, Ws!Apart, Ws!OneSocket, Ws!Registered,
       Ws!working
  <2> QED
    BY <2>2, <2>3, <2>4, <2>5, <2>6
<1> QED
  BY <1>0, <1>1, <1>2, <1>3, <1>4, <1>5, <1>6 DEF Ws!TypeOK

LEMMA SocketGets ==
    ASSUME Ws!Inv, NEW a \in Ws!Attempt, v3[a] = "opening", v3' = [v3 EXCEPT ![a] = "open"],
           Ws!Queued', Ws!told' = [Ws!told EXCEPT ![a] = Ws!told[a] \cup {"connected"}],
           UNCHANGED <<v1, v2, v5, v6, v7, v8, v9, v10>>
    PROVE  Ws!Inv'
<1> USE SocketAssumption DEF Ws!SocketTabAssumption, Ws!Inv
<1>1. /\ v1' = v1 /\ v2' = v2 /\ v5' = v5 /\ v8' = v8
      /\ v6' = v6 /\ v7' = v7 /\ v9' = v9 /\ v10' = v10
  OBVIOUS
<1>2. Ws!Queued' /\ Ws!told' \in [Ws!Attempt -> SUBSET Ws!Kinds]
  BY DEF Ws!told
<1>a. a \in Ws!working
  BY DEF Ws!working
<1>3. Ws!TypeOK'
  <2>1. v9' \in 0 .. UsesOfSocket
    BY <1>1, <1>2 DEF Ws!TypeOK, Ws!Attempt
  <2>2. v6' \in Ws!Attempt \cup {0}
    BY <1>1, <1>2 DEF Ws!TypeOK, Ws!Attempt
  <2>3. v7' \in Nat /\ v5' \in Nat
    BY <1>1, <1>2 DEF Ws!TypeOK, Ws!Attempt
  <2>4. v1' \in [Ws!Attempt -> {"new", "building", "asked", "over"}]
    BY <1>1, <1>2 DEF Ws!TypeOK, Ws!Attempt
  <2>5. v2' \in [Ws!Attempt -> Nat]
    BY <1>1, <1>2 DEF Ws!TypeOK, Ws!Attempt
  <2>6. v3' \in [Ws!Attempt -> {"none", "opening", "open", "closing", "closed"}]
    BY <1>1, <1>2 DEF Ws!TypeOK, Ws!Attempt
  <2>7. v8' \in {"none", "connecting", "connected", "disconnected", "error"}
    BY <1>1, <1>2 DEF Ws!TypeOK, Ws!Attempt
  <2>8. v10' \in BOOLEAN
    BY <1>1, <1>2 DEF Ws!TypeOK, Ws!Attempt
  <2> QED
    BY <2>1, <2>2, <2>3, <2>4, <2>5, <2>6, <2>7, <2>8 DEF Ws!TypeOK
<1>4. Ws!Heard'
  <2> SUFFICES ASSUME NEW c \in Ws!Attempt PROVE Ws!Heard!(c)'
    BY DEF Ws!Heard
  <2>1. CASE c = a
    BY <1>1, <1>2, <2>1, SocketTypeOfTold DEF Ws!TypeOK, Ws!Heard, Ws!Registered
  <2>2. CASE c # a
    BY <1>1, <1>2, <2>2, SocketTypeOfTold DEF Ws!TypeOK, Ws!Heard
  <2> QED
    BY <2>1, <2>2
<1>5. Ws!Registered'
  BY <1>1, <1>2 DEF Ws!Registered, Ws!TypeOK
<1>6. ASSUME ~v10' PROVE Ws!Apart' /\ Ws!Owned' /\ Ws!Armed' /\ Ws!Shown' /\ Ws!OneSocket'
  <2>0. ~v10 /\ Ws!Apart /\ Ws!Owned /\ Ws!Armed /\ Ws!Shown /\ Ws!OneSocket
    BY <1>1, <1>2, <1>6 DEF Ws!TypeOK
  <2>1. Ws!working' \subseteq Ws!working
    BY <1>1, <1>2, <1>a, SocketTypeOfTold DEF Ws!working, Ws!TypeOK
  <2>2. Ws!Apart'
    BY <1>1, <2>0, <2>1 DEF Ws!Apart
  <2>3. Ws!Owned'
    BY <1>1, <2>0, <2>1 DEF Ws!Owned, Ws!Current
  <2>4. Ws!Armed'
    BY <1>1, <2>0, <2>1 DEF Ws!Armed
  <2>5. Ws!Shown'
    BY <1>1, <1>2, <2>0, SocketTypeOfTold DEF Ws!Shown, Ws!TypeOK
  <2>6. Ws!OneSocket'
    BY <1>1, <2>0 DEF Ws!OneSocket, Ws!TypeOK
  <2> QED
    BY <2>2, <2>3, <2>4, <2>5, <2>6
<1> QED
  BY <1>1, <1>2, <1>3, <1>4, <1>5, <1>6 DEF Ws!TypeOK

LEMMA SocketLoses ==
    ASSUME Ws!Inv, NEW a \in Ws!Attempt, v3[a] \in {"opening", "open", "closing"},
           v3' = [v3 EXCEPT ![a] = "closed"], NEW K \in SUBSET {"error", "ended", "broken"},
           K \cap {"ended", "broken"} # {},
           Ws!Queued', Ws!told' = [Ws!told EXCEPT ![a] = Ws!told[a] \cup K],
           UNCHANGED <<v1, v2, v5, v6, v7, v8, v9, v10>>
    PROVE  Ws!Inv'
<1> USE SocketAssumption DEF Ws!SocketTabAssumption, Ws!Inv
<1>1. /\ v1' = v1 /\ v2' = v2 /\ v5' = v5 /\ v8' = v8
      /\ v6' = v6 /\ v7' = v7 /\ v9' = v9 /\ v10' = v10
  OBVIOUS
<1>2. Ws!Queued' /\ Ws!told' \in [Ws!Attempt -> SUBSET Ws!Kinds]
  BY DEF Ws!told
<1>a. a \in Ws!working
  BY DEF Ws!working
<1>3. Ws!TypeOK'
  <2>1. v9' \in 0 .. UsesOfSocket
    BY <1>1, <1>2 DEF Ws!TypeOK, Ws!Attempt
  <2>2. v6' \in Ws!Attempt \cup {0}
    BY <1>1, <1>2 DEF Ws!TypeOK, Ws!Attempt
  <2>3. v7' \in Nat /\ v5' \in Nat
    BY <1>1, <1>2 DEF Ws!TypeOK, Ws!Attempt
  <2>4. v1' \in [Ws!Attempt -> {"new", "building", "asked", "over"}]
    BY <1>1, <1>2 DEF Ws!TypeOK, Ws!Attempt
  <2>5. v2' \in [Ws!Attempt -> Nat]
    BY <1>1, <1>2 DEF Ws!TypeOK, Ws!Attempt
  <2>6. v3' \in [Ws!Attempt -> {"none", "opening", "open", "closing", "closed"}]
    BY <1>1, <1>2 DEF Ws!TypeOK, Ws!Attempt
  <2>7. v8' \in {"none", "connecting", "connected", "disconnected", "error"}
    BY <1>1, <1>2 DEF Ws!TypeOK, Ws!Attempt
  <2>8. v10' \in BOOLEAN
    BY <1>1, <1>2 DEF Ws!TypeOK, Ws!Attempt
  <2> QED
    BY <2>1, <2>2, <2>3, <2>4, <2>5, <2>6, <2>7, <2>8 DEF Ws!TypeOK
<1>4. Ws!Heard'
  <2> SUFFICES ASSUME NEW c \in Ws!Attempt PROVE Ws!Heard!(c)'
    BY DEF Ws!Heard
  <2>1. CASE c = a
    BY <1>1, <1>2, <2>1, SocketTypeOfTold DEF Ws!TypeOK, Ws!Heard, Ws!Registered
  <2>2. CASE c # a
    BY <1>1, <1>2, <2>2, SocketTypeOfTold DEF Ws!TypeOK, Ws!Heard
  <2> QED
    BY <2>1, <2>2
<1>5. Ws!Registered'
  BY <1>1, <1>2 DEF Ws!Registered, Ws!TypeOK
<1>6. ASSUME ~v10' PROVE Ws!Apart' /\ Ws!Owned' /\ Ws!Armed' /\ Ws!Shown' /\ Ws!OneSocket'
  <2>0. ~v10 /\ Ws!Apart /\ Ws!Owned /\ Ws!Armed /\ Ws!Shown /\ Ws!OneSocket
    BY <1>1, <1>2, <1>6 DEF Ws!TypeOK
  <2>1. Ws!working' \subseteq Ws!working
    BY <1>1, <1>2, <1>a, SocketTypeOfTold DEF Ws!working, Ws!TypeOK
  <2>2. Ws!Apart'
    BY <1>1, <2>0, <2>1 DEF Ws!Apart
  <2>3. Ws!Owned'
    BY <1>1, <2>0, <2>1 DEF Ws!Owned, Ws!Current
  <2>4. Ws!Armed'
    BY <1>1, <2>0, <2>1 DEF Ws!Armed
  <2>5. Ws!Shown'
    BY <1>1, <1>2, <2>0, SocketTypeOfTold DEF Ws!Shown, Ws!TypeOK
  <2>6. Ws!OneSocket'
    BY <1>1, <2>0 DEF Ws!OneSocket, Ws!TypeOK
  <2> QED
    BY <2>2, <2>3, <2>4, <2>5, <2>6
<1> QED
  BY <1>1, <1>2, <1>3, <1>4, <1>5, <1>6 DEF Ws!TypeOK

LEMMA SocketOnOpens ==
    ASSUME Ws!Inv, NEW a \in Ws!Attempt, Ws!Opens(a)
    PROVE  Ws!Inv'
<1>1. /\ v3[a] = "opening" /\ v3' = [v3 EXCEPT ![a] = "open"]
      /\ v4' = v4 \o <<Ws!Message(a, "connected")>>
      /\ UNCHANGED <<v1, v2, v5, v6, v7, v8, v9, v10>>
  BY DEF Ws!Opens, Ws!Socket
<1>2. Ws!told[a] \cap {"ended", "broken"} = {}
  BY <1>1 DEF Ws!Inv, Ws!Heard
<1>3. v4' = Append(v4, Ws!Message(a, "connected"))
  <2>1. Ws!Message(a, "connected") \in Ws!Messages
    BY DEF Ws!Message, Ws!Messages, Ws!Kinds
  <2> QED
    BY <1>1, <2>1, OneMore DEF Ws!Inv, Ws!Queued
<1>4. Ws!Queued' /\ Ws!told' = [Ws!told EXCEPT ![a] = Ws!told[a] \cup {"connected"}]
  BY <1>2, <1>3, SocketTells1 DEF Ws!Inv, Ws!Kinds
<1> QED
  BY <1>1, <1>4, SocketGets

LEMMA SocketOnBreaks ==
    ASSUME Ws!Inv, NEW a \in Ws!Attempt, Ws!Breaks(a)
    PROVE  Ws!Inv'
<1>1. /\ v3[a] = "open" /\ v3' = [v3 EXCEPT ![a] = "closed"]
      /\ v4' = v4 \o <<Ws!Message(a, "broken")>>
      /\ UNCHANGED <<v1, v2, v5, v6, v7, v8, v9, v10>>
  BY DEF Ws!Breaks, Ws!Socket
<1>2. Ws!told[a] \cap {"ended", "broken"} = {}
  BY <1>1 DEF Ws!Inv, Ws!Heard
<1>3. v4' = Append(v4, Ws!Message(a, "broken"))
  <2>1. Ws!Message(a, "broken") \in Ws!Messages
    BY DEF Ws!Message, Ws!Messages, Ws!Kinds
  <2> QED
    BY <1>1, <2>1, OneMore DEF Ws!Inv, Ws!Queued
<1>4. Ws!Queued' /\ Ws!told' = [Ws!told EXCEPT ![a] = Ws!told[a] \cup {"broken"}]
  BY <1>2, <1>3, SocketTells1 DEF Ws!Inv, Ws!Kinds
<1>5. {"broken"} \in SUBSET {"error", "ended", "broken"} /\ {"broken"} \cap {"ended", "broken"} # {}
  OBVIOUS
<1> QED
  BY <1>1, <1>4, <1>5, SocketLoses

LEMMA SocketOnEnds ==
    ASSUME Ws!Inv, NEW a \in Ws!Attempt, Ws!Ends(a)
    PROVE  Ws!Inv'
<1>1. /\ v3[a] \in {"open", "closing"} /\ v3' = [v3 EXCEPT ![a] = "closed"]
      /\ v4' = v4 \o <<Ws!Message(a, "ended")>>
      /\ UNCHANGED <<v1, v2, v5, v6, v7, v8, v9, v10>>
  BY DEF Ws!Ends, Ws!Socket
<1>2. Ws!told[a] \cap {"ended", "broken"} = {}
  BY <1>1 DEF Ws!Inv, Ws!Heard
<1>3. v4' = Append(v4, Ws!Message(a, "ended"))
  <2>1. Ws!Message(a, "ended") \in Ws!Messages
    BY DEF Ws!Message, Ws!Messages, Ws!Kinds
  <2> QED
    BY <1>1, <2>1, OneMore DEF Ws!Inv, Ws!Queued
<1>4. Ws!Queued' /\ Ws!told' = [Ws!told EXCEPT ![a] = Ws!told[a] \cup {"ended"}]
  BY <1>2, <1>3, SocketTells1 DEF Ws!Inv, Ws!Kinds
<1>5. {"ended"} \in SUBSET {"error", "ended", "broken"} /\ {"ended"} \cap {"ended", "broken"} # {}
  OBVIOUS
<1> QED
  BY <1>1, <1>4, <1>5, SocketLoses

LEMMA SocketOnFails ==
    ASSUME Ws!Inv, NEW a \in Ws!Attempt, Ws!Fails(a)
    PROVE  Ws!Inv'
<1>1. /\ v3[a] \in {"opening", "open", "closing"} /\ v3' = [v3 EXCEPT ![a] = "closed"]
      /\ v4' = v4 \o <<Ws!Message(a, "error"), Ws!Message(a, "broken")>>
      /\ UNCHANGED <<v1, v2, v5, v6, v7, v8, v9, v10>>
  BY DEF Ws!Fails, Ws!Socket
<1>2. Ws!told[a] \cap {"ended", "broken"} = {}
  BY <1>1 DEF Ws!Inv, Ws!Heard
<1>3. Ws!Queued' /\ Ws!told' = [Ws!told EXCEPT ![a] = Ws!told[a] \cup {"error", "broken"}]
  BY <1>1, <1>2, SocketTells2 DEF Ws!Inv
<1>4. {"error", "broken"} \in SUBSET {"error", "ended", "broken"}
      /\ {"error", "broken"} \cap {"ended", "broken"} # {}
  OBVIOUS
<1> QED
  BY <1>1, <1>3, <1>4, SocketLoses

LEMMA SocketStays == Ws!Inv /\ UNCHANGED Ws!vars => Ws!Inv'
<1> SUFFICES ASSUME Ws!Inv, UNCHANGED Ws!vars PROVE Ws!Inv'
  OBVIOUS
<1>1. Ws!told' = Ws!told /\ Ws!working' = Ws!working
  BY DEF Ws!vars, Ws!told, Ws!working
<1>2. Ws!TypeOK' /\ Ws!Queued' /\ Ws!Heard' /\ Ws!Registered'
  BY <1>1 DEF Ws!vars, Ws!Inv, Ws!TypeOK, Ws!Queued, Ws!Heard, Ws!Registered
<1>3. Ws!Apart /\ Ws!Owned /\ Ws!Armed /\ Ws!Shown /\ Ws!OneSocket => (Ws!Apart /\ Ws!Owned /\ Ws!Armed /\ Ws!Shown /\ Ws!OneSocket)'
  BY <1>1 DEF Ws!vars, Ws!Apart, Ws!Owned, Ws!Armed, Ws!Shown, Ws!OneSocket, Ws!Current
<1>4. v10' = v10
  BY DEF Ws!vars
<1> QED
  BY <1>2, <1>3, <1>4 DEF Ws!Inv

LEMMA SocketShows == Ws!Inv => Ws!TypeOK /\ Ws!OneSocket /\ Ws!RetriesItsOwn /\ Ws!ShowsWhatIs
<1> SUFFICES ASSUME Ws!Inv PROVE Ws!TypeOK /\ Ws!OneSocket /\ Ws!RetriesItsOwn /\ Ws!ShowsWhatIs
  OBVIOUS
<1>1. Ws!OneSocket
  BY DEF Ws!Inv, Ws!OneSocket
<1>2. Ws!RetriesItsOwn
  <2>1. ASSUME ~v10, v7 # 0, NEW a \in Ws!Attempt, v2[a] = v7 PROVE v3[a] \in {"none", "closed"}
    <3>1. a \notin Ws!working
      BY <2>1 DEF Ws!Inv, Ws!Armed
    <3> QED
      BY <3>1 DEF Ws!Inv, Ws!TypeOK, Ws!working
  <2> QED
    BY <2>1 DEF Ws!Inv, Ws!Armed, Ws!RetriesItsOwn
<1>3. Ws!ShowsWhatIs
  <2> SUFFICES ASSUME ~v10, v4 = <<>>,
                      \A a \in Ws!Attempt : v1[a] \notin {"building", "asked"} /\ v3[a] # "opening"
               PROVE  v8 = "connected" <=> v6 # 0 /\ v3[v6] = "open"
    BY DEF Ws!ShowsWhatIs
  <2>1. \A a \in Ws!Attempt : Ws!told[a] = {}
    BY DEF Ws!told
  <2>2. v6 # 0 => v6 \in Ws!Attempt /\ v3[v6] # "closed"
    BY <2>1 DEF Ws!Inv, Ws!Heard, Ws!TypeOK
  <2> QED
    BY <2>1, <2>2 DEF Ws!Inv, Ws!Shown, Ws!Registered
<1> QED
  BY <1>1, <1>2, <1>3 DEF Ws!Inv

LEMMA SocketKeeps == Ws!Inv /\ [Ws!Next]_Ws!vars => Ws!Inv'
  BY SocketStays, SocketOnConnect, SocketOnTimerFires, SocketOnBuildFails, SocketOnBuilt,
     SocketOnTakeMade, SocketOnTakeRefused,
     SocketOnTakeEvent, SocketOnTakeClose, SocketOnDisconnect, SocketOnReconnect, SocketOnForget, SocketOnCloseAll, SocketOnOpens, SocketOnFails,
     SocketOnBreaks, SocketOnEnds DEF Ws!Next, Ws!Takes, Ws!Uses, Ws!Works

\* useWebSockets.ts, websocket.ts: for any number of attempts and uses, a socket nobody closes is
\* the registered one, a reconnect is of the current attempt, and the tab shows what is.
THEOREM SocketInvariance == Ws!Spec => [](Ws!TypeOK /\ Ws!OneSocket /\ Ws!RetriesItsOwn /\ Ws!ShowsWhatIs)
<1> QED
  BY SocketBegins, SocketKeeps, SocketShows, PTL DEF Ws!Spec

(* -------------------------------- the tunnel ------------------------------- *)
(* v2 is the tunnel in the map, and v9 remembers that one lost its place there   *)
(* while it was starting or stopping.                                            *)
Tunnel == INSTANCE Tunnels WITH
    MaxStarts <- StartsOfTunnel, MaxStops <- StopsOfTunnel,
    phase <- v1, inMap <- v2, listening <- v3, client <- v4, ends <- v5, clears <- v6,
    shown <- v7, stops <- v8, loose <- v9
ASSUME TunnelsAssumption == Tunnel!TunnelsAssumption

LEMMA TunnelBegins == Tunnel!Init => Tunnel!Inv
<1> SUFFICES ASSUME Tunnel!Init PROVE Tunnel!Inv
  OBVIOUS
<1> USE TunnelsAssumption DEF Tunnel!TunnelsAssumption, Tunnel!Init, Tunnel!Start
<1>1. Tunnel!TypeOK
  <2>1. v8 \in 0 .. StopsOfTunnel
    OBVIOUS
  <2>2. v1 \in [1 .. StartsOfTunnel -> {"new"}] /\ v5 \in [1 .. StartsOfTunnel -> {"none"}]
        /\ v6 \in [1 .. StartsOfTunnel -> {0}]
    OBVIOUS
  <2> QED
    BY <2>1, <2>2 DEF Tunnel!TypeOK
<1>2. Tunnel!Phases
  BY DEF Tunnel!Phases
<1>3. Tunnel!Places
  BY DEF Tunnel!Places
<1>4. Tunnel!Reported
  BY DEF Tunnel!Reported
<1> QED
  BY <1>1, <1>2, <1>3, <1>4 DEF Tunnel!Inv

LEMMA TunnelOnStopCalled ==
    ASSUME Tunnel!Inv, Tunnel!StopCalled
    PROVE  Tunnel!Inv'
<1> USE TunnelsAssumption DEF Tunnel!TunnelsAssumption, Tunnel!Start, Tunnel!Inv, Tunnel!StopCalled,
   Tunnel!Stops, Tunnel!HasServer, Tunnel!Fails
<1>1. Tunnel!TypeOK'
  <2>1. v8' \in 0 .. StopsOfTunnel
    BY DEF Tunnel!TypeOK
  <2> QED
    BY <2>1 DEF Tunnel!TypeOK
<1>2. Tunnel!Phases'
  BY DEF Tunnel!TypeOK, Tunnel!Phases
<1>3. ~v9' => Tunnel!Places'
  <2> SUFFICES ASSUME ~v9' PROVE Tunnel!Places'
    OBVIOUS
  <2>0. ~v9 /\ Tunnel!Places
    BY DEF Tunnel!TypeOK, Tunnel!Phases
  <2>1. ASSUME NEW t \in Tunnel!Start, v1'[t] \in {"starting", "active", "stopping"} PROVE v2' = t
    BY <2>0, <2>1 DEF Tunnel!TypeOK, Tunnel!Phases, Tunnel!Places
  <2>2. v2' # 0 => v1'[v2'] \in {"starting", "active", "stopping", "error"}
    BY <2>0 DEF Tunnel!TypeOK, Tunnel!Phases, Tunnel!Places
  <2>3. ASSUME NEW t \in Tunnel!Start PROVE t \in v4' => v1'[t] \in {"active", "stopping"}
    BY <2>0 DEF Tunnel!TypeOK, Tunnel!Phases, Tunnel!Places
  <2>4. ASSUME NEW t \in Tunnel!Start, v1'[t] = "active" PROVE t \in v4'
    BY <2>0, <2>4 DEF Tunnel!TypeOK, Tunnel!Phases, Tunnel!Places
  <2>5. v7' = "active" <=> v2' # 0 /\ v1'[v2'] = "active"
    BY <2>0 DEF Tunnel!TypeOK, Tunnel!Phases, Tunnel!Places
  <2> QED
    BY <2>1, <2>2, <2>3, <2>4, <2>5 DEF Tunnel!Places
<1>4. Tunnel!Reported'
  BY DEF Tunnel!TypeOK, Tunnel!Phases, Tunnel!Reported
<1> QED
  BY <1>1, <1>2, <1>3, <1>4

LEMMA TunnelOnStarts ==
    ASSUME Tunnel!Inv, NEW s \in Tunnel!Start, Tunnel!Starts(s)
    PROVE  Tunnel!Inv'
<1> USE TunnelsAssumption DEF Tunnel!TunnelsAssumption, Tunnel!Start, Tunnel!Inv, Tunnel!Starts,
   Tunnel!Stops, Tunnel!HasServer, Tunnel!Fails
<1>1. Tunnel!TypeOK'
  BY DEF Tunnel!TypeOK
<1>2. Tunnel!Phases'
  BY DEF Tunnel!TypeOK, Tunnel!Phases
<1>3. ~v9' => Tunnel!Places'
  <2> SUFFICES ASSUME ~v9' PROVE Tunnel!Places'
    OBVIOUS
  <2>0. ~v9 /\ Tunnel!Places
    BY DEF Tunnel!TypeOK, Tunnel!Phases
  <2>1. ASSUME NEW t \in Tunnel!Start, v1'[t] \in {"starting", "active", "stopping"} PROVE v2' = t
    <3>1. v2 # s
      BY <2>0 DEF Tunnel!Places, Tunnel!TypeOK
    <3>2. t # s
      BY <2>1, <3>1 DEF Tunnel!TypeOK
    <3>3. v1[t] \in {"starting", "active", "stopping"} => v2 = t
      BY <2>0 DEF Tunnel!Places
    <3> QED
      BY <2>0, <2>1, <3>1, <3>2, <3>3 DEF Tunnel!TypeOK
  <2>2. v2' # 0 => v1'[v2'] \in {"starting", "active", "stopping", "error"}
    BY <2>0 DEF Tunnel!TypeOK, Tunnel!Phases, Tunnel!Places
  <2>3. ASSUME NEW t \in Tunnel!Start PROVE t \in v4' => v1'[t] \in {"active", "stopping"}
    BY <2>0 DEF Tunnel!TypeOK, Tunnel!Phases, Tunnel!Places
  <2>4. ASSUME NEW t \in Tunnel!Start, v1'[t] = "active" PROVE t \in v4'
    BY <2>0, <2>4 DEF Tunnel!TypeOK, Tunnel!Phases, Tunnel!Places
  <2>5. v7' = "active" <=> v2' # 0 /\ v1'[v2'] = "active"
    BY <2>0 DEF Tunnel!TypeOK, Tunnel!Phases, Tunnel!Places
  <2> QED
    BY <2>1, <2>2, <2>3, <2>4, <2>5 DEF Tunnel!Places
<1>4. Tunnel!Reported'
  BY DEF Tunnel!TypeOK, Tunnel!Phases, Tunnel!Reported
<1> QED
  BY <1>1, <1>2, <1>3, <1>4

LEMMA TunnelOnCloses ==
    ASSUME Tunnel!Inv, NEW s \in Tunnel!Start, Tunnel!Closes(s)
    PROVE  Tunnel!Inv'
<1> USE TunnelsAssumption DEF Tunnel!TunnelsAssumption, Tunnel!Start, Tunnel!Inv, Tunnel!Closes
<1>1. Tunnel!TypeOK'
  BY DEF Tunnel!TypeOK
<1>2. Tunnel!Phases'
  BY DEF Tunnel!TypeOK, Tunnel!Phases
<1>3. ~v9' => Tunnel!Places'
  <2> SUFFICES ASSUME ~v9' PROVE Tunnel!Places'
    OBVIOUS
  <2>0. ~v9 /\ Tunnel!Places
    BY DEF Tunnel!TypeOK, Tunnel!Phases
  <2>1. ASSUME NEW t \in Tunnel!Start, v1'[t] \in {"starting", "active", "stopping"} PROVE v2' = t
    BY <2>0, <2>1 DEF Tunnel!TypeOK, Tunnel!Phases, Tunnel!Places
  <2>2. v2' # 0 => v1'[v2'] \in {"starting", "active", "stopping", "error"}
    BY <2>0 DEF Tunnel!TypeOK, Tunnel!Phases, Tunnel!Places
  <2>3. ASSUME NEW t \in Tunnel!Start PROVE t \in v4' => v1'[t] \in {"active", "stopping"}
    BY <2>0 DEF Tunnel!TypeOK, Tunnel!Phases, Tunnel!Places
  <2>4. ASSUME NEW t \in Tunnel!Start, v1'[t] = "active" PROVE t \in v4'
    BY <2>0, <2>4 DEF Tunnel!TypeOK, Tunnel!Phases, Tunnel!Places
  <2>5. v7' = "active" <=> v2' # 0 /\ v1'[v2'] = "active"
    BY <2>0 DEF Tunnel!TypeOK, Tunnel!Phases, Tunnel!Places
  <2> QED
    BY <2>1, <2>2, <2>3, <2>4, <2>5 DEF Tunnel!Places
<1>4. Tunnel!Reported'
  BY DEF Tunnel!TypeOK, Tunnel!Phases, Tunnel!Reported
<1> QED
  BY <1>1, <1>2, <1>3, <1>4

LEMMA TunnelOnPortInUse ==
    ASSUME Tunnel!Inv, NEW s \in Tunnel!Start, Tunnel!PortInUse(s)
    PROVE  Tunnel!Inv'
<1> USE TunnelsAssumption DEF Tunnel!TunnelsAssumption, Tunnel!Start, Tunnel!Inv, Tunnel!PortInUse
<1>1. Tunnel!TypeOK'
  BY DEF Tunnel!TypeOK
<1>2. Tunnel!Phases'
  BY DEF Tunnel!TypeOK, Tunnel!Phases
<1>3. ~v9' => Tunnel!Places'
  <2> SUFFICES ASSUME ~v9' PROVE Tunnel!Places'
    OBVIOUS
  <2>0. ~v9 /\ Tunnel!Places
    BY DEF Tunnel!TypeOK, Tunnel!Phases
  <2>1. ASSUME NEW t \in Tunnel!Start, v1'[t] \in {"starting", "active", "stopping"} PROVE v2' = t
    BY <2>0, <2>1 DEF Tunnel!TypeOK, Tunnel!Phases, Tunnel!Places
  <2>2. v2' # 0 => v1'[v2'] \in {"starting", "active", "stopping", "error"}
    BY <2>0 DEF Tunnel!TypeOK, Tunnel!Phases, Tunnel!Places
  <2>3. ASSUME NEW t \in Tunnel!Start PROVE t \in v4' => v1'[t] \in {"active", "stopping"}
    BY <2>0 DEF Tunnel!TypeOK, Tunnel!Phases, Tunnel!Places
  <2>4. ASSUME NEW t \in Tunnel!Start, v1'[t] = "active" PROVE t \in v4'
    BY <2>0, <2>4 DEF Tunnel!TypeOK, Tunnel!Phases, Tunnel!Places
  <2>5. v7' = "active" <=> v2' # 0 /\ v1'[v2'] = "active"
    BY <2>0 DEF Tunnel!TypeOK, Tunnel!Phases, Tunnel!Places
  <2> QED
    BY <2>1, <2>2, <2>3, <2>4, <2>5 DEF Tunnel!Places
<1>4. Tunnel!Reported'
  BY DEF Tunnel!TypeOK, Tunnel!Phases, Tunnel!Reported
<1> QED
  BY <1>1, <1>2, <1>3, <1>4

LEMMA TunnelOnPortIsFree ==
    ASSUME Tunnel!Inv, NEW s \in Tunnel!Start, Tunnel!PortIsFree(s)
    PROVE  Tunnel!Inv'
<1> USE TunnelsAssumption DEF Tunnel!TunnelsAssumption, Tunnel!Start, Tunnel!Inv, Tunnel!PortIsFree
<1>1. Tunnel!TypeOK'
  BY DEF Tunnel!TypeOK
<1>2. Tunnel!Phases'
  BY DEF Tunnel!TypeOK, Tunnel!Phases
<1>3. ~v9' => Tunnel!Places'
  <2> SUFFICES ASSUME ~v9' PROVE Tunnel!Places'
    OBVIOUS
  <2>0. ~v9 /\ Tunnel!Places
    BY DEF Tunnel!TypeOK, Tunnel!Phases
  <2>1. ASSUME NEW t \in Tunnel!Start, v1'[t] \in {"starting", "active", "stopping"} PROVE v2' = t
    <3>1. v1[t] \in {"starting", "stopping"} => v2 = t /\ v2 # 0
      BY <2>0 DEF Tunnel!Places
    <3>2. v1[t] # "active"
      BY DEF Tunnel!Phases
    <3> QED
      BY <2>0, <2>1, <3>1, <3>2 DEF Tunnel!TypeOK
  <2>2. v2' # 0 => v1'[v2'] \in {"starting", "active", "stopping", "error"}
    BY <2>0 DEF Tunnel!TypeOK, Tunnel!Phases, Tunnel!Places
  <2>3. ASSUME NEW t \in Tunnel!Start PROVE t \in v4' => v1'[t] \in {"active", "stopping"}
    BY <2>0 DEF Tunnel!TypeOK, Tunnel!Phases, Tunnel!Places
  <2>4. ASSUME NEW t \in Tunnel!Start, v1'[t] = "active" PROVE t \in v4'
    BY <2>0, <2>4 DEF Tunnel!TypeOK, Tunnel!Phases, Tunnel!Places
  <2>5. v7' = "active" <=> v2' # 0 /\ v1'[v2'] = "active"
    BY <2>0 DEF Tunnel!TypeOK, Tunnel!Phases, Tunnel!Places
  <2> QED
    BY <2>1, <2>2, <2>3, <2>4, <2>5 DEF Tunnel!Places
<1>4. Tunnel!Reported'
  BY DEF Tunnel!TypeOK, Tunnel!Phases, Tunnel!Reported
<1> QED
  BY <1>1, <1>2, <1>3, <1>4

LEMMA TunnelOnOpenFails ==
    ASSUME Tunnel!Inv, NEW s \in Tunnel!Start, Tunnel!OpenFails(s)
    PROVE  Tunnel!Inv'
<1> USE TunnelsAssumption DEF Tunnel!TunnelsAssumption, Tunnel!Start, Tunnel!Inv, Tunnel!OpenFails
<1>1. Tunnel!TypeOK'
  BY DEF Tunnel!TypeOK
<1>2. Tunnel!Phases'
  BY DEF Tunnel!TypeOK, Tunnel!Phases
<1>3. ~v9' => Tunnel!Places'
  <2> SUFFICES ASSUME ~v9' PROVE Tunnel!Places'
    OBVIOUS
  <2>0. ~v9 /\ Tunnel!Places
    BY DEF Tunnel!TypeOK, Tunnel!Phases
  <2>1. ASSUME NEW t \in Tunnel!Start, v1'[t] \in {"starting", "active", "stopping"} PROVE v2' = t
    BY <2>0, <2>1 DEF Tunnel!TypeOK, Tunnel!Phases, Tunnel!Places
  <2>2. v2' # 0 => v1'[v2'] \in {"starting", "active", "stopping", "error"}
    BY <2>0 DEF Tunnel!TypeOK, Tunnel!Phases, Tunnel!Places
  <2>3. ASSUME NEW t \in Tunnel!Start PROVE t \in v4' => v1'[t] \in {"active", "stopping"}
    BY <2>0 DEF Tunnel!TypeOK, Tunnel!Phases, Tunnel!Places
  <2>4. ASSUME NEW t \in Tunnel!Start, v1'[t] = "active" PROVE t \in v4'
    BY <2>0, <2>4 DEF Tunnel!TypeOK, Tunnel!Phases, Tunnel!Places
  <2>5. v7' = "active" <=> v2' # 0 /\ v1'[v2'] = "active"
    BY <2>0 DEF Tunnel!TypeOK, Tunnel!Phases, Tunnel!Places
  <2> QED
    BY <2>1, <2>2, <2>3, <2>4, <2>5 DEF Tunnel!Places
<1>4. Tunnel!Reported'
  BY DEF Tunnel!TypeOK, Tunnel!Phases, Tunnel!Reported
<1> QED
  BY <1>1, <1>2, <1>3, <1>4

LEMMA TunnelOnOpened ==
    ASSUME Tunnel!Inv, NEW s \in Tunnel!Start, Tunnel!Opened(s)
    PROVE  Tunnel!Inv'
<1> USE TunnelsAssumption DEF Tunnel!TunnelsAssumption, Tunnel!Start, Tunnel!Inv, Tunnel!Opened
<1>1. Tunnel!TypeOK'
  BY DEF Tunnel!TypeOK
<1>2. Tunnel!Phases'
  BY DEF Tunnel!TypeOK, Tunnel!Phases
<1>3. ~v9' => Tunnel!Places'
  <2> SUFFICES ASSUME ~v9' PROVE Tunnel!Places'
    OBVIOUS
  <2>0. ~v9 /\ Tunnel!Places
    BY DEF Tunnel!TypeOK, Tunnel!Phases
  <2>1. ASSUME NEW t \in Tunnel!Start, v1'[t] \in {"starting", "active", "stopping"} PROVE v2' = t
    BY <2>0, <2>1 DEF Tunnel!TypeOK, Tunnel!Phases, Tunnel!Places
  <2>2. v2' # 0 => v1'[v2'] \in {"starting", "active", "stopping", "error"}
    BY <2>0 DEF Tunnel!TypeOK, Tunnel!Phases, Tunnel!Places
  <2>3. ASSUME NEW t \in Tunnel!Start PROVE t \in v4' => v1'[t] \in {"active", "stopping"}
    BY <2>0 DEF Tunnel!TypeOK, Tunnel!Phases, Tunnel!Places
  <2>4. ASSUME NEW t \in Tunnel!Start, v1'[t] = "active" PROVE t \in v4'
    BY <2>0, <2>4 DEF Tunnel!TypeOK, Tunnel!Phases, Tunnel!Places
  <2>5. v7' = "active" <=> v2' # 0 /\ v1'[v2'] = "active"
    BY <2>0 DEF Tunnel!TypeOK, Tunnel!Phases, Tunnel!Places
  <2> QED
    BY <2>1, <2>2, <2>3, <2>4, <2>5 DEF Tunnel!Places
<1>4. Tunnel!Reported'
  BY DEF Tunnel!TypeOK, Tunnel!Phases, Tunnel!Reported
<1> QED
  BY <1>1, <1>2, <1>3, <1>4

LEMMA TunnelOnBindFails ==
    ASSUME Tunnel!Inv, NEW s \in Tunnel!Start, Tunnel!BindFails(s)
    PROVE  Tunnel!Inv'
<1> USE TunnelsAssumption DEF Tunnel!TunnelsAssumption, Tunnel!Start, Tunnel!Inv, Tunnel!BindFails,
   Tunnel!Stops, Tunnel!HasServer, Tunnel!Fails
<1>1. Tunnel!TypeOK'
  BY DEF Tunnel!TypeOK
<1>2. Tunnel!Phases'
  <2>1. v3' = {x \in Tunnel!Start : v1'[x] = "active"}
    BY DEF Tunnel!TypeOK, Tunnel!Phases
  <2>2. \A x \in Tunnel!Start : v5'[x] # "none" <=> v1'[x] = "stopping"
    BY DEF Tunnel!TypeOK, Tunnel!Phases
  <2>3. \A x \in Tunnel!Start : v6'[x] # 0 => v1'[x] = "clearing"
    BY DEF Tunnel!TypeOK, Tunnel!Phases
  <2> QED
    BY <2>1, <2>2, <2>3 DEF Tunnel!Phases
<1>3. ~v9' => Tunnel!Places'
  <2> SUFFICES ASSUME ~v9' PROVE Tunnel!Places'
    OBVIOUS
  <2>0. ~v9 /\ Tunnel!Places
    BY DEF Tunnel!TypeOK, Tunnel!Phases
  <2>1. ASSUME NEW t \in Tunnel!Start, v1'[t] \in {"starting", "active", "stopping"} PROVE v2' = t
    BY <2>0, <2>1 DEF Tunnel!TypeOK, Tunnel!Phases, Tunnel!Places
  <2>2. v2' # 0 => v1'[v2'] \in {"starting", "active", "stopping", "error"}
    BY <2>0 DEF Tunnel!TypeOK, Tunnel!Phases, Tunnel!Places
  <2>3. ASSUME NEW t \in Tunnel!Start PROVE t \in v4' => v1'[t] \in {"active", "stopping"}
    BY <2>0 DEF Tunnel!TypeOK, Tunnel!Phases, Tunnel!Places
  <2>4. ASSUME NEW t \in Tunnel!Start, v1'[t] = "active" PROVE t \in v4'
    BY <2>0, <2>4 DEF Tunnel!TypeOK, Tunnel!Phases, Tunnel!Places
  <2>5. v7' = "active" <=> v2' # 0 /\ v1'[v2'] = "active"
    BY <2>0 DEF Tunnel!TypeOK, Tunnel!Phases, Tunnel!Places
  <2> QED
    BY <2>1, <2>2, <2>3, <2>4, <2>5 DEF Tunnel!Places
<1>4. Tunnel!Reported'
  BY DEF Tunnel!TypeOK, Tunnel!Phases, Tunnel!Reported
<1> QED
  BY <1>1, <1>2, <1>3, <1>4

LEMMA TunnelOnClientLost ==
    ASSUME Tunnel!Inv, NEW s \in Tunnel!Start, Tunnel!ClientLost(s)
    PROVE  Tunnel!Inv'
<1> USE TunnelsAssumption DEF Tunnel!TunnelsAssumption, Tunnel!Start, Tunnel!Inv, Tunnel!ClientLost,
   Tunnel!Stops, Tunnel!HasServer, Tunnel!Fails
<1>1. Tunnel!TypeOK'
  BY DEF Tunnel!TypeOK
<1>2. Tunnel!Phases'
  BY DEF Tunnel!TypeOK, Tunnel!Phases
<1>3. ~v9' => Tunnel!Places'
  <2> SUFFICES ASSUME ~v9' PROVE Tunnel!Places'
    OBVIOUS
  <2>0. ~v9 /\ Tunnel!Places
    BY DEF Tunnel!TypeOK, Tunnel!Phases
  <2>1. ASSUME NEW t \in Tunnel!Start, v1'[t] \in {"starting", "active", "stopping"} PROVE v2' = t
    BY <2>0, <2>1 DEF Tunnel!TypeOK, Tunnel!Phases, Tunnel!Places
  <2>2. v2' # 0 => v1'[v2'] \in {"starting", "active", "stopping", "error"}
    BY <2>0 DEF Tunnel!TypeOK, Tunnel!Phases, Tunnel!Places
  <2>3. ASSUME NEW t \in Tunnel!Start PROVE t \in v4' => v1'[t] \in {"active", "stopping"}
    BY <2>0 DEF Tunnel!TypeOK, Tunnel!Phases, Tunnel!Places
  <2>4. ASSUME NEW t \in Tunnel!Start, v1'[t] = "active" PROVE t \in v4'
    BY <2>0, <2>4 DEF Tunnel!TypeOK, Tunnel!Phases, Tunnel!Places
  <2>5. v7' = "active" <=> v2' # 0 /\ v1'[v2'] = "active"
    BY <2>0 DEF Tunnel!TypeOK, Tunnel!Phases, Tunnel!Places
  <2> QED
    BY <2>1, <2>2, <2>3, <2>4, <2>5 DEF Tunnel!Places
<1>4. Tunnel!Reported'
  BY DEF Tunnel!TypeOK, Tunnel!Phases, Tunnel!Reported
<1> QED
  BY <1>1, <1>2, <1>3, <1>4

LEMMA TunnelOnListenerFails ==
    ASSUME Tunnel!Inv, NEW s \in Tunnel!Start, Tunnel!ListenerFails(s)
    PROVE  Tunnel!Inv'
<1> USE TunnelsAssumption DEF Tunnel!TunnelsAssumption, Tunnel!Start, Tunnel!Inv,
   Tunnel!ListenerFails, Tunnel!Stops, Tunnel!HasServer, Tunnel!Fails
<1>1. Tunnel!TypeOK'
  BY DEF Tunnel!TypeOK
<1>2. Tunnel!Phases'
  BY DEF Tunnel!TypeOK, Tunnel!Phases
<1>3. ~v9' => Tunnel!Places'
  <2> SUFFICES ASSUME ~v9' PROVE Tunnel!Places'
    OBVIOUS
  <2>0. ~v9 /\ Tunnel!Places
    BY DEF Tunnel!TypeOK, Tunnel!Phases
  <2>1. ASSUME NEW t \in Tunnel!Start, v1'[t] \in {"starting", "active", "stopping"} PROVE v2' = t
    BY <2>0, <2>1 DEF Tunnel!TypeOK, Tunnel!Phases, Tunnel!Places
  <2>2. v2' # 0 => v1'[v2'] \in {"starting", "active", "stopping", "error"}
    BY <2>0 DEF Tunnel!TypeOK, Tunnel!Phases, Tunnel!Places
  <2>3. ASSUME NEW t \in Tunnel!Start PROVE t \in v4' => v1'[t] \in {"active", "stopping"}
    BY <2>0 DEF Tunnel!TypeOK, Tunnel!Phases, Tunnel!Places
  <2>4. ASSUME NEW t \in Tunnel!Start, v1'[t] = "active" PROVE t \in v4'
    BY <2>0, <2>4 DEF Tunnel!TypeOK, Tunnel!Phases, Tunnel!Places
  <2>5. v7' = "active" <=> v2' # 0 /\ v1'[v2'] = "active"
    BY <2>0 DEF Tunnel!TypeOK, Tunnel!Phases, Tunnel!Places
  <2> QED
    BY <2>1, <2>2, <2>3, <2>4, <2>5 DEF Tunnel!Places
<1>4. Tunnel!Reported'
  BY DEF Tunnel!TypeOK, Tunnel!Phases, Tunnel!Reported
<1> QED
  BY <1>1, <1>2, <1>3, <1>4

LEMMA TunnelOnForwards ==
    ASSUME Tunnel!Inv, NEW s \in Tunnel!Start, Tunnel!Forwards(s)
    PROVE  Tunnel!Inv'
<1> USE TunnelsAssumption DEF Tunnel!TunnelsAssumption, Tunnel!Start, Tunnel!Inv, Tunnel!Forwards
<1>1. Tunnel!TypeOK'
  BY DEF Tunnel!TypeOK
<1>2. Tunnel!Phases'
  BY DEF Tunnel!TypeOK, Tunnel!Phases
<1>3. ~v9' => Tunnel!Places'
  <2> SUFFICES ASSUME ~v9' PROVE Tunnel!Places'
    OBVIOUS
  <2>0. ~v9 /\ Tunnel!Places
    BY DEF Tunnel!TypeOK, Tunnel!Phases
  <2>1. ASSUME NEW t \in Tunnel!Start, v1'[t] \in {"starting", "active", "stopping"} PROVE v2' = t
    BY <2>0, <2>1 DEF Tunnel!TypeOK, Tunnel!Phases, Tunnel!Places
  <2>2. v2' # 0 => v1'[v2'] \in {"starting", "active", "stopping", "error"}
    BY <2>0 DEF Tunnel!TypeOK, Tunnel!Phases, Tunnel!Places
  <2>3. ASSUME NEW t \in Tunnel!Start PROVE t \in v4' => v1'[t] \in {"active", "stopping"}
    BY <2>0 DEF Tunnel!TypeOK, Tunnel!Phases, Tunnel!Places
  <2>4. ASSUME NEW t \in Tunnel!Start, v1'[t] = "active" PROVE t \in v4'
    BY <2>0, <2>4 DEF Tunnel!TypeOK, Tunnel!Phases, Tunnel!Places
  <2>5. v7' = "active" <=> v2' # 0 /\ v1'[v2'] = "active"
    BY <2>0 DEF Tunnel!TypeOK, Tunnel!Phases, Tunnel!Places
  <2> QED
    BY <2>1, <2>2, <2>3, <2>4, <2>5 DEF Tunnel!Places
<1>4. Tunnel!Reported'
  BY DEF Tunnel!TypeOK, Tunnel!Phases, Tunnel!Reported
<1> QED
  BY <1>1, <1>2, <1>3, <1>4

LEMMA TunnelStays == Tunnel!Inv /\ UNCHANGED Tunnel!vars => Tunnel!Inv'
  BY DEF Tunnel!Inv, Tunnel!vars, Tunnel!TypeOK, Tunnel!Phases, Tunnel!Places, Tunnel!Reported,
     Tunnel!Start

LEMMA TunnelShows == Tunnel!Inv => Tunnel!TypeOK /\ Tunnel!NothingLoose /\ Tunnel!ShownSettles
<1> SUFFICES ASSUME Tunnel!Inv PROVE Tunnel!TypeOK /\ Tunnel!NothingLoose /\ Tunnel!ShownSettles
  OBVIOUS
<1> USE TunnelsAssumption DEF Tunnel!TunnelsAssumption, Tunnel!Start, Tunnel!Inv
<1>1. ASSUME Tunnel!Places PROVE Tunnel!NothingLoose
  <2>1. ASSUME NEW t \in v3 \cup v4 PROVE t \in {v2} \ {0}
    <3>1. t \in Tunnel!Start /\ v1[t] \in {"starting", "active", "stopping"}
      BY <1>1 DEF Tunnel!TypeOK, Tunnel!Places, Tunnel!Phases
    <3> QED
      BY <1>1, <3>1 DEF Tunnel!Places
  <2>2. v2 # 0 => (v1[v2] = "active" <=> v2 \in v3 \cap v4)
    BY <1>1 DEF Tunnel!TypeOK, Tunnel!Places, Tunnel!Phases
  <2> QED
    BY <1>1, <2>1, <2>2 DEF Tunnel!NothingLoose, Tunnel!Places
<1>2. Tunnel!ShownSettles
  BY DEF Tunnel!TypeOK, Tunnel!Reported, Tunnel!ShownSettles
<1> QED
  BY <1>1, <1>2 DEF Tunnel!NothingLoose

LEMMA TunnelKeeps == Tunnel!Inv /\ [Tunnel!Next]_(Tunnel!vars) => Tunnel!Inv'
  BY TunnelStays, TunnelOnStopCalled, TunnelOnStarts, TunnelOnCloses, TunnelOnPortInUse,
     TunnelOnPortIsFree, TunnelOnOpenFails, TunnelOnOpened, TunnelOnBindFails, TunnelOnClientLost,
     TunnelOnListenerFails, TunnelOnForwards DEF Tunnel!Next

\* tunnels.ts: for any number of starts and stops, a listener and a client are of the tunnel
\* in the map, and a tunnel shown starting or stopping is.
THEOREM TunnelInvariance ==
    Tunnel!Spec => [](Tunnel!TypeOK /\ Tunnel!NothingLoose /\ Tunnel!ShownSettles)
<1> QED
  BY TunnelBegins, TunnelKeeps, TunnelShows, PTL DEF Tunnel!Spec

(* ------------------------------- the window ------------------------------- *)
from19 == <<v19, v20, v21>>
from18 == <<v18, from19>>
from16 == <<v16, v17, from18>>
from15 == <<v15, from16>>
from14 == <<v14, from15>>
from11 == <<v11, v12, v13, from14>>
from10 == <<v10, from11>>
from6 == <<v6, v7, v8, v9, from10>>
shared == <<v1, v2, v3, v4, v5, from6>>

NoneFrom19 == v19 = 0 /\ v20 = 0 /\ v21 = 0
NoneFrom18 == v18 = 0 /\ NoneFrom19
NoneFrom16 == v16 = 0 /\ v17 = 0 /\ NoneFrom18
NoneFrom15 == v15 = 0 /\ NoneFrom16
NoneFrom14 == v14 = 0 /\ NoneFrom15
NoneFrom11 == v11 = 0 /\ v12 = 0 /\ v13 = 0 /\ NoneFrom14
NoneFrom10 == v10 = 0 /\ NoneFrom11
NoneFrom6 == v6 = 0 /\ v7 = 0 /\ v8 = 0 /\ v9 = 0 /\ NoneFrom10
NoneFrom1 == v1 = 0 /\ v2 = 0 /\ v3 = 0 /\ v4 = 0 /\ v5 = 0 /\ NoneFrom6

TabParts == {"ssh", "tunnel", "socket", "mqtt", "send"}

TabBegins ==
    \/ part = "ssh" /\ Ssh!Init /\ NoneFrom14
    \/ part = "tunnel" /\ Tunnel!Init /\ NoneFrom10
    \/ part = "socket" /\ Ws!Init /\ NoneFrom11
    \/ part = "mqtt" /\ Mqtt!Init /\ NoneFrom15
    \/ part = "send" /\ Send!Init /\ NoneFrom16

TabSteps ==
    \/ part = "ssh" /\ Ssh!Next /\ UNCHANGED from14
    \/ part = "tunnel" /\ Tunnel!Next /\ UNCHANGED from10
    \/ part = "socket" /\ Ws!Next /\ UNCHANGED from11
    \/ part = "mqtt" /\ Mqtt!Next /\ UNCHANGED from15
    \/ part = "send" /\ Send!Next /\ UNCHANGED from16

\* A tab, or one of the other parts, whatever it does to the variables they share.
Tabs == (part \notin TabParts \/ TabBegins)
        /\ [][UNCHANGED part /\ (part \notin TabParts \/ TabSteps)]_<<part, shared>>

\* A shell, a listener, an SSH client, a WebSocket and an MQTT session are those of the terminal,
\* the tunnel or the tab that holds them, and go with it; a reconnect is of nobody else either,
\* and a request in flight is the one its tab is shown sending.
NothingLeftAtWork ==
    /\ part = "ssh" => Ssh!OneShell
    /\ part = "tunnel" => Tunnel!NothingLoose
    /\ part = "socket" => Ws!OneSocket /\ Ws!RetriesItsOwn
    /\ part = "mqtt" => Mqtt!OneSession
    /\ part = "send" => Send!OneSend

\* A tunnel is shown starting or stopping only while something will still be heard of it, a
\* WebSocket tab is shown connected exactly while its socket is open, and a request with the
\* stream it is reading and the response of its last send.
SettledAsItIs ==
    /\ part = "tunnel" => Tunnel!ShownSettles
    /\ part = "socket" => Ws!ShowsWhatIs
    /\ part = "send" => Send!ShowsTheSend

\* The inductive invariants, each with the types of its component.
TabsInv ==
    /\ part = "ssh" => Ssh!Inv
    /\ part = "tunnel" => Tunnel!Inv
    /\ part = "socket" => Ws!Inv
    /\ part = "mqtt" => Mqtt!Inv
    /\ part = "send" => Send!Inv

LEMMA TabsBegin == part \notin TabParts \/ TabBegins => TabsInv
  BY SshBegins, TunnelBegins, SocketBegins, MqttBegins, SendBegins DEF TabsInv, TabBegins, TabParts

LEMMA TabsKeep ==
    ASSUME TabsInv, [UNCHANGED part /\ (part \notin TabParts \/ TabSteps)]_<<part, shared>>
    PROVE  TabsInv'
<1>0. part' = part
  OBVIOUS
<1>1. part = "ssh" => Ssh!Inv'
  <2> SUFFICES ASSUME part = "ssh" PROVE Ssh!Inv'
    OBVIOUS
  <2>1. Ssh!Inv /\ [Ssh!Next]_Ssh!vars
    BY DEF TabsInv, TabSteps, TabParts, shared, from6, from10, from11, Ssh!vars
  <2> QED
    BY <2>1, SshKeeps
<1>2. part = "tunnel" => Tunnel!Inv'
  <2> SUFFICES ASSUME part = "tunnel" PROVE Tunnel!Inv'
    OBVIOUS
  <2>1. Tunnel!Inv /\ [Tunnel!Next]_(Tunnel!vars)
    BY DEF TabsInv, TabSteps, TabParts, shared, from6, Tunnel!vars
  <2> QED
    BY <2>1, TunnelKeeps
<1>3. part = "socket" => Ws!Inv'
  <2> SUFFICES ASSUME part = "socket" PROVE Ws!Inv'
    OBVIOUS
  <2>1. Ws!Inv /\ [Ws!Next]_Ws!vars
    BY DEF TabsInv, TabSteps, TabParts, shared, from6, from10, Ws!vars
  <2> QED
    BY <2>1, SocketKeeps
<1>4. part = "mqtt" => Mqtt!Inv'
  <2> SUFFICES ASSUME part = "mqtt" PROVE Mqtt!Inv'
    OBVIOUS
  <2>1. Mqtt!Inv /\ [Mqtt!Next]_Mqtt!vars
    BY DEF TabsInv, TabSteps, TabParts, shared, from6, from10, from11, from14, Mqtt!vars, Mqtt!noted
  <2> QED
    BY <2>1, MqttKeeps
<1>5. part = "send" => Send!Inv'
  <2> SUFFICES ASSUME part = "send" PROVE Send!Inv'
    OBVIOUS
  <2>1. Send!Inv /\ [Send!Next]_Send!vars
    BY DEF TabsInv, TabSteps, TabParts, shared, from6, from10, from11, from14, from15, Send!vars
  <2> QED
    BY <2>1, SendKeeps
<1> QED
  BY <1>0, <1>1, <1>2, <1>3, <1>4, <1>5 DEF TabsInv

\* Nothing is left at work that no tab holds, whatever the user does, in whatever order attempts,
\* their answers and their failures come (ssh/sessions.ts, ssh/tunnels.ts, websocket.ts, mqtt.ts,
\* useSsh.ts, useWebSockets.ts, useMqtt.ts, useSendRequest.ts), for any number of attempts.
THEOREM NothingIsLeftAtWork == Tabs => []NothingLeftAtWork
<1>1. TabsInv => NothingLeftAtWork
  BY SshShows, TunnelShows, SocketShows DEF TabsInv, NothingLeftAtWork, Mqtt!Inv, Mqtt!OneSession, Send!Inv
<1> QED
  BY <1>1, TabsBegin, TabsKeep, PTL DEF Tabs

\* What a tunnel, a WebSocket tab and a request show is so, for any number of attempts and sends.
THEOREM TabsSettle == Tabs => []SettledAsItIs
<1>1. TabsInv => SettledAsItIs
  BY TunnelShows, SocketShows DEF TabsInv, SettledAsItIs, Send!Inv
<1> QED
  BY <1>1, TabsBegin, TabsKeep, PTL DEF Tabs
==============================================================================
