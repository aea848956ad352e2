---------------------------- MODULE Persistence ----------------------------
(* Workspaces in memory and on disk: usePersistence.ts over the repositories of *)
(* repository.ts.  The store serves requests in the order of their calls, so a  *)
(* request takes effect in the step that makes it and is answered in a later    *)
(* one; between the two anything else may run.  JavaScript runs to completion:  *)
(* an operation that was answered goes on (Ready) before anything else does.    *)
EXTENDS Integers, Sequences, FiniteSets

CONSTANTS
    Workspaces,  \* ids of workspaces
    Default,     \* the fixed id of the starter workspace (DEFAULT_WORKSPACE_ID)
    Requests,    \* ids of requests; each workspace has its own of each id
    Slots,       \* bound: operations under way at once (numbers)
    First,       \* the sets of workspaces one of which is stored at first
    Limit,       \* HISTORY_LIMIT
    Clock,       \* bound: objects and entries made
    Plans        \* bounds: how many operations of each kind are begun, objects and entries
                 \* made, requests rejected, crashes; one of these

ASSUME PersistenceAssumption ==
    /\ Default \in Workspaces /\ First \subseteq SUBSET Workspaces
    /\ Workspaces \subseteq Nat \ {0} /\ Slots \subseteq Nat \ {0}
    /\ Limit \in Nat \ {0} /\ Clock \in Nat
    /\ \A p \in Plans :
          /\ p \in [{"managing", "saving", "history", "clock", "faults", "crashes"} -> Nat]
          /\ p.clock <= Clock

VARIABLES
    shell, rec,      \* per workspace: its record [rev, reqs], and its request records
    index, active,   \* the keys "workspaces" (a rev per id) and "activeWorkspace"
    kept, log,       \* per workspace: the records of its drafts and of its history
    ws, drafts, hist,  \* the workbench store: workspace, drafts, history
    persisted, known,  \* the object last written; per workspace, what is known to be on disk
    loaded, timers,  \* whether the app is up; the debounced writers that are armed
    op, queue,       \* the operations under way; those that wait for an answer, in turn
    clock, copies, plan, faults, crashes,  \* numbers given out, and what the bounds count
    home, doomed     \* history: the versions made in or copied into each workspace; those being
                     \* removed or gone

records == <<shell, rec>>
keys == <<index, active>>
store == <<ws, drafts, hist>>
writer == <<persisted, known, timers>>
counts == <<plan, crashes, doomed>>
vars == <<records, keys, kept, log, store, writer, loaded, op, queue, clock, copies, counts,
          faults, home>>

(* A version (1..Clock) stands for a request as it was edited, a rev for what   *)
(* else a workspace holds; 0 is absence.  Requests read from disk are new       *)
(* objects: copy tells the readings apart, as === does in the code.             *)
Numbers == 0..2 * Clock  \* a save that is committed to a changed store takes one, too
Versions == [Requests -> Numbers]
empty == [r \in Requests |-> 0]
nothing == [id |-> Default, rev |-> 0, copy |-> 0, reqs |-> empty]
Unknown == [copy |-> -1, reqs |-> empty]
Stored(w) == shell[w].rev # 0
Ids(map) == {x \in DOMAIN map : map[x] # 0}
Newest(list) == {w \in Ids(list) : \A v \in Ids(list) : list[v] <= list[w]}
noList == [w \in Workspaces |-> 0]

idle == [kind |-> "idle", pc |-> "idle", next |-> "idle", w |-> Default, obj |-> nothing,
         base |-> nothing, req |-> 0, from |-> Default, reqs |-> empty, entries |-> <<>>,
         ids |-> {}, list |-> noList, ok |-> TRUE, own |-> FALSE, outlasted |-> {}]

Init ==
    /\ \E there \in First :
          /\ shell = [w \in Workspaces |->
                IF w \in there THEN [rev |-> 1, reqs |-> Requests] ELSE [rev |-> 0, reqs |-> {}]]
          /\ rec = [w \in Workspaces |-> [r \in Requests |-> IF w \in there THEN 1 ELSE 0]]
          /\ index = [w \in Workspaces |-> IF w \in there THEN 1 ELSE 0]
          /\ active \in (IF there = {} THEN {0} ELSE there)
    /\ kept = [w \in Workspaces |-> empty] /\ log = [w \in Workspaces |-> <<>>]
    /\ ws = nothing /\ drafts = empty /\ hist = <<>>
    /\ persisted = nothing /\ known = [w \in Workspaces |-> Unknown] /\ timers = {}
    /\ loaded = FALSE /\ op = [s \in Slots |-> idle] /\ queue = <<>>
    /\ clock = 1 /\ copies = 0 /\ plan \in Plans /\ crashes = 0 /\ faults = 0
    /\ doomed = {}
    /\ home = [w \in Workspaces |-> IF Stored(w) THEN {1} ELSE {}]

(* ------------------------- running to completion ------------------------- *)

Ready == {"save", "read", "list", "install", "left", "got", "listed", "made", "copied",
          "flushed", "committed", "ended"}
Quiet == \A s \in Slots : op[s].pc \notin Ready

At(s, pc) == op[s].pc = pc /\ (pc \in Ready \/ (Quiet /\ Head(queue) = s))

\* The operation of s goes on: what it calls for is answered after what was called before.
Queues(s, o) ==
    queue' = SelectSeq(queue, LAMBDA t : t # s)
             \o (IF o.pc \in Ready \cup {"idle"} THEN <<>> ELSE <<s>>)
Becomes(s, o) == op' = [op EXCEPT ![s] = o] /\ Queues(s, o)
Free(s) == op[s] = idle /\ \A t \in Slots : op[t] = idle => s <= t
Goes(s, pc) == Becomes(s, [op[s] EXCEPT !.pc = pc])
To(o, pc, next) == [o EXCEPT !.pc = pc, !.next = next]

\* A request to the store is served or rejected.
Served(ok) == ok \in BOOLEAN /\ faults' = faults + (IF ok THEN 0 ELSE 1) /\ faults' <= plan.faults

(* ---------------------- KeyValueWorkspaceRepository ---------------------- *)

\* The transaction of saveWorkspace(): the records that are not the same objects, those that
\* are gone, and the shell.
Batch(s, same, existing) ==
    LET o == op[s].obj IN
    \E ok \in BOOLEAN :
       /\ Served(ok)
       /\ IF ok
          THEN /\ shell' = [shell EXCEPT ![o.id] = [rev |-> o.rev, reqs |-> Ids(o.reqs)]]
               /\ rec' = [rec EXCEPT ![o.id] = [r \in Requests |->
                     IF r \in (Ids(o.reqs) \ same) \cup (existing \ Ids(o.reqs))
                     THEN o.reqs[r] ELSE @[r]]]
          ELSE UNCHANGED records
       /\ Becomes(s, [op[s] EXCEPT !.pc = "batched", !.ok = ok])

SameAsKnown(o) == {r \in Requests : known[o.id].copy = o.copy /\ known[o.id].reqs[r] = o.reqs[r]}

BeginSave(s) ==
    LET o == op[s].obj IN
    /\ At(s, "save")
    /\ IF known[o.id] = Unknown
       THEN /\ Becomes(s, [op[s] EXCEPT !.pc = "look", !.ids = Ids(rec[o.id])])
            /\ UNCHANGED <<records, faults>>
       ELSE Batch(s, SameAsKnown(o), Ids(known[o.id].reqs))
    /\ UNCHANGED <<keys, kept, log, store, writer, loaded, clock, copies, counts, home>>

Look(s) ==
    /\ At(s, "look") /\ Batch(s, {}, op[s].ids)
    /\ UNCHANGED <<keys, kept, log, store, writer, loaded, clock, copies, counts, home>>

\* Variant: what was not written is known, too.
LearnedAnyway(o, ok) == [known EXCEPT ![o.id] = [copy |-> o.copy, reqs |-> o.reqs]]

Learned(o, ok) ==
    IF ok THEN [known EXCEPT ![o.id] = [copy |-> o.copy, reqs |-> o.reqs]] ELSE known

Batched(s) ==
    /\ At(s, "batched")
    /\ known' = Learned(op[s].obj, op[s].ok)
    /\ IF op[s].ok THEN Becomes(s, [op[s] EXCEPT !.pc = "indexing", !.list = index])
       ELSE Goes(s, op[s].next)
    /\ UNCHANGED <<records, keys, kept, log, store, persisted, timers, loaded, clock, copies,
                   counts, faults, home>>

\* updateIndex(), between its reading and its writing.
Indexing(s) ==
    /\ At(s, "indexing")
    /\ \E ok \in BOOLEAN :
          /\ Served(ok)
          /\ index' = IF ok THEN [op[s].list EXCEPT ![op[s].obj.id] = op[s].obj.rev] ELSE index
          /\ Becomes(s, [op[s] EXCEPT !.pc = "indexed", !.ok = ok])
    /\ UNCHANGED <<records, active, kept, log, store, writer, loaded, clock, copies, counts, home>>

Indexed(s) ==
    /\ At(s, "indexed") /\ Goes(s, op[s].next)
    /\ UNCHANGED <<records, keys, kept, log, store, writer, loaded, clock, copies, counts, faults,
                   home>>

\* listWorkspaces(): the index, then the keys, and the index again when they disagree.  A
\* workspace the index misses is read as it is then.
List(s) ==
    /\ At(s, "list") /\ Becomes(s, [op[s] EXCEPT !.pc = "listing", !.list = index])
    /\ UNCHANGED <<records, keys, kept, log, store, writer, loaded, clock, copies, counts, faults,
                   home>>

Listing(s) ==
    LET there == {w \in Workspaces : Stored(w)}
        missing == there \ Ids(op[s].list)
        live == [w \in Workspaces |->
                   IF w \in missing THEN shell[w].rev ELSE IF w \in there THEN op[s].list[w] ELSE 0]
    IN /\ At(s, "listing")
       /\ \E ok \in BOOLEAN :
             /\ Served(ok)
             /\ index' = IF ok /\ live # op[s].list THEN live ELSE index
             /\ known' = [w \in Workspaces |->
                   IF ok /\ w \in missing THEN [copy |-> -2, reqs |-> rec[w]] ELSE known[w]]
             /\ Becomes(s, [op[s] EXCEPT !.pc = op[s].next, !.list = IF ok THEN live ELSE noList])
       /\ UNCHANGED <<records, active, kept, log, store, persisted, timers, loaded, clock, copies,
                      counts, home>>

\* getWorkspace(): the shell, then the records it lists.
Read(s) ==
    /\ At(s, "read")
    /\ Becomes(s, [op[s] EXCEPT !.pc = "shell", !.obj = [nothing EXCEPT
          !.id = op[s].w, !.rev = shell[op[s].w].rev,
          !.reqs = [r \in Requests |-> IF r \in shell[op[s].w].reqs THEN 1 ELSE 0]]])
    /\ UNCHANGED <<records, keys, kept, log, store, writer, loaded, clock, copies, counts, faults,
                   home>>

Shell(s) ==
    LET o == op[s].obj IN
    /\ At(s, "shell")
    /\ \E ok \in BOOLEAN :
          /\ Served(ok)
          /\ known' = IF ok /\ o.rev = 0 THEN [known EXCEPT ![o.id] = Unknown] ELSE known
          /\ Becomes(s, IF ok /\ o.rev # 0 THEN [op[s] EXCEPT !.pc = "records", !.reqs = rec[o.id]]
                        ELSE [op[s] EXCEPT !.pc = op[s].next, !.obj = nothing, !.ok = ok])
    /\ UNCHANGED <<records, keys, kept, log, store, persisted, timers, loaded, clock, copies,
                   counts, home>>

\* A record that the shell does not list is known to be there, as absent.
Records(s) ==
    LET o == op[s].obj
        read == [r \in Requests |-> IF o.reqs[r] # 0 THEN op[s].reqs[r] ELSE 0]
    IN /\ At(s, "records")
       /\ copies' = copies + 1
       /\ known' = [known EXCEPT ![o.id] = [copy |-> copies', reqs |->
             [r \in Requests |-> IF read[r] = 0 /\ op[s].reqs[r] # 0 THEN -1 ELSE read[r]]]]
       /\ Becomes(s, [op[s] EXCEPT !.pc = op[s].next, !.ok = TRUE,
                                   !.obj = [o EXCEPT !.copy = copies', !.reqs = read]])
       /\ UNCHANGED <<records, keys, kept, log, store, persisted, timers, loaded, clock, counts,
                      faults, home>>

\* deleteWorkspace(): its records as they were listed, then the index and the active id.
Delete(s) ==
    LET w == op[s].w IN
    /\ At(s, "deleting")
    /\ \E ok \in BOOLEAN :
          /\ Served(ok)
          /\ IF ok
             THEN /\ shell' = [shell EXCEPT ![w] = [rev |-> 0, reqs |-> {}]]
                  /\ rec' = [rec EXCEPT ![w] = [r \in Requests |-> IF r \in op[s].ids THEN 0 ELSE @[r]]]
                  /\ kept' = [kept EXCEPT ![w] = empty] /\ log' = [log EXCEPT ![w] = <<>>]
             ELSE UNCHANGED <<records, kept, log>>
          /\ Becomes(s, [op[s] EXCEPT !.pc = IF ok THEN "deleted" ELSE "ended"])
    /\ UNCHANGED <<keys, store, writer, loaded, clock, copies, counts, home>>

Deleted(s) ==
    /\ At(s, "deleted")
    /\ known' = [known EXCEPT ![op[s].w] = Unknown]
    /\ Becomes(s, [op[s] EXCEPT !.pc = "unindexing", !.list = index])
    /\ UNCHANGED <<records, keys, kept, log, store, persisted, timers, loaded, clock, copies,
                   counts, faults, home>>

Unindex(s) ==
    /\ At(s, "unindexing")
    /\ index' = [op[s].list EXCEPT ![op[s].w] = 0]
    /\ active' = IF active = op[s].w THEN 0 ELSE active
    /\ Becomes(s, To(op[s], "list", "listed"))
    /\ UNCHANGED <<records, kept, log, store, writer, loaded, clock, copies, counts, faults, home>>

(* ----------------------------- usePersistence ---------------------------- *)

\* The store tells the debounced writers what changed, once they are set up.  A writer waits
\* 0.4 s or 1 s: longer than the operations take that are under way when it is armed.
Arms(s, o, changed) ==
    LET armed == IF loaded THEN changed ELSE {}
        after(t) == IF t = s THEN o ELSE op[t]
    IN /\ timers' = timers \cup armed
       /\ Queues(s, o)
       /\ op' = [t \in Slots |->
                   IF after(t) = idle THEN idle ELSE [after(t) EXCEPT !.outlasted = @ \cup armed]]
Fires(which) ==
    /\ Quiet /\ which \in timers /\ \A s \in Slots : which \notin op[s].outlasted
    /\ timers' = timers \ {which}
Made(w, v) == home' = [home EXCEPT ![w] = @ \cup v]
Tick == clock < plan.clock /\ clock' = clock + 1

\* writeWorkspace(): nothing when the object was the last one written.
Write(o, object, next) ==
    IF persisted = object THEN [o EXCEPT !.pc = next, !.next = "skip", !.obj = object, !.ok = TRUE]
    ELSE [To(o, "save", next) EXCEPT !.obj = object]

\* flushCurrent(): what is in memory as it is called, the drafts after the workspace.
Flushing(o) == Write([o EXCEPT !.from = ws.id, !.reqs = drafts], ws, "left")

Flush(s) ==
    /\ Fires("workspace") /\ Free(s)
    /\ Becomes(s, IF persisted = ws THEN idle
                  ELSE [To(idle, "save", "flushed") EXCEPT !.kind = "flush", !.obj = ws])
    /\ UNCHANGED <<records, keys, kept, log, store, persisted, known, loaded, clock, copies, counts,
                   faults, home>>

\* Variant: what is in memory by now counts as written.
WrittenNow(o) == IF o.ok THEN ws ELSE persisted

Written(o) == IF o.ok THEN o.obj ELSE persisted

Flushed(s) ==
    /\ At(s, "flushed") /\ persisted' = Written(op[s])
    /\ Becomes(s, IF op[s].kind = "rename" THEN To(op[s], "list", "ended") ELSE idle)
    /\ UNCHANGED <<records, keys, kept, log, store, known, timers, loaded, clock, copies, counts,
                   faults, home>>

FlushDrafts ==
    /\ Fires("drafts")
    /\ \E ok \in BOOLEAN :
          Served(ok) /\ kept' = IF ok THEN [kept EXCEPT ![ws.id] = drafts] ELSE kept
    /\ UNCHANGED <<records, keys, log, store, persisted, known, loaded, op, queue, clock, copies,
                   counts, home>>

\* The switcher is a menu that closes with each choice, and is off while one is loaded: what it
\* begins runs one at a time, beside saves, edits, the history and the debounced writers.
Managing == {"switch", "create", "duplicate", "rename", "remove"}

Begin(s, kind) ==
    LET group == CASE kind \in Managing -> "managing" [] kind = "save" -> "saving"
                   [] OTHER -> "history"
    IN /\ Quiet /\ loaded /\ Free(s)
       /\ group = "managing" => \A t \in Slots : op[t].kind \notin Managing
       /\ plan[group] > 0 /\ plan' = [plan EXCEPT ![group] = @ - 1]
       /\ kind # "remove" => UNCHANGED doomed

\* saveRequest() of a request with a draft; without one it is a flush that answers.
SaveRequest(s, r) ==
    LET written == [ws EXCEPT !.rev = clock + 1, !.reqs[r] = drafts[r]] IN
    /\ Begin(s, "save") /\ drafts[r] # 0 /\ ws.reqs[r] # 0 /\ Tick
    /\ Becomes(s, [To(idle, "save", "committed") EXCEPT
          !.kind = "save", !.obj = written, !.base = ws, !.req = r])
    /\ UNCHANGED <<records, keys, kept, log, store, writer, loaded, copies, crashes, faults, home>>

\* commitSaved(): adopts what was written if nothing else changed meanwhile.
Committed(s) ==
    LET o == op[s]
        version == o.obj.reqs[o.req]
        adopted == ws = o.base
        here == ws.id = o.base.id  \* ids of requests are unique across workspaces
        current == [ws EXCEPT !.rev = clock + 1,
                              !.reqs[o.req] = IF here /\ @ # 0 THEN version ELSE @]
    IN /\ At(s, "committed")
       /\ IF o.ok
          THEN /\ persisted' = o.obj
               /\ ws' = IF adopted THEN o.obj ELSE current
               /\ clock' = IF adopted THEN clock ELSE clock + 1
               /\ drafts' = [drafts EXCEPT ![o.req] = IF here /\ @ = version THEN 0 ELSE @]
               /\ Arms(s, idle, {"workspace"} \cup (IF drafts' = drafts THEN {} ELSE {"drafts"}))
          ELSE UNCHANGED <<persisted, ws, clock, drafts, timers>> /\ Becomes(s, idle)
       /\ UNCHANGED <<records, keys, kept, log, hist, known, loaded, copies, counts, faults, home>>

\* switchTo(), create(), duplicate(): what is open is written first.
SwitchTo(s, w) ==
    /\ Begin(s, "switch") /\ w # ws.id
    /\ Becomes(s, Flushing([idle EXCEPT !.kind = "switch", !.w = w]))
    /\ UNCHANGED <<records, keys, kept, log, store, writer, loaded, clock, copies, crashes, faults,
                   home>>

Unused == {w \in Workspaces \ {Default} : home[w] = {}}

Create(s) ==
    \E w \in Unused :
       /\ Begin(s, "create") /\ Tick /\ Made(w, {0})
       /\ Becomes(s, Flushing([idle EXCEPT
             !.kind = "create", !.base = [nothing EXCEPT !.id = w, !.rev = clock']]))
       /\ UNCHANGED <<records, keys, kept, log, store, writer, loaded, copies, crashes, faults>>

Duplicate(s, w) ==
    /\ Begin(s, "duplicate")
    /\ Becomes(s, Flushing([idle EXCEPT !.kind = "duplicate", !.w = w]))
    /\ UNCHANGED <<records, keys, kept, log, store, writer, loaded, clock, copies, crashes, faults,
                   home>>

Left(s) ==
    /\ At(s, "left") /\ persisted' = Written(op[s])
    /\ \E ok \in BOOLEAN :
          /\ Served(ok)
          /\ kept' = IF ok THEN [kept EXCEPT ![op[s].from] = op[s].reqs] ELSE kept
    /\ Goes(s, "leaving")
    /\ UNCHANGED <<records, keys, log, store, known, timers, loaded, clock, copies, counts, home>>

\* duplicateWorkspace(): a new id, no drafts.
Copying(s, source) ==
    \E w \in Unused :
       /\ Tick /\ Made(w, {source.reqs[r] : r \in Requests})
       /\ Becomes(s, [To(op[s], "save", "copied") EXCEPT
             !.obj = [source EXCEPT !.id = w, !.rev = clock', !.copy = 0]])

Leaving(s) ==
    LET o == op[s] IN
    /\ At(s, "leaving")
    /\ \/ /\ o.kind = "create"
          /\ Becomes(s, [To(o, "save", "made") EXCEPT !.obj = o.base])
          /\ UNCHANGED <<clock, home>>
       \/ /\ o.kind = "switch" \/ (o.kind = "duplicate" /\ o.w # ws.id)
          /\ Becomes(s, To(o, "read", "got"))
          /\ UNCHANGED <<clock, home>>
       \/ o.kind = "duplicate" /\ o.w = ws.id /\ Copying(s, ws)
    /\ UNCHANGED <<records, keys, kept, log, store, writer, loaded, copies, counts, faults>>

\* rename(): the open workspace in the store and at once on disk, another one on disk.
Rename(s, w) ==
    /\ Begin(s, "rename")
    /\ IF w = ws.id
       THEN /\ Tick /\ ws' = [ws EXCEPT !.rev = clock']
            /\ Arms(s, [To(idle, "save", "flushed") EXCEPT !.kind = "rename", !.obj = ws'],
                    {"workspace"})
       ELSE /\ UNCHANGED <<clock, ws, timers>>
            /\ Becomes(s, [To(idle, "read", "got") EXCEPT !.kind = "rename", !.w = w])
    /\ UNCHANGED <<records, keys, kept, log, drafts, hist, persisted, known, loaded, copies, crashes,
                   faults, home>>

Remove(s, w) ==
    /\ Begin(s, "remove") /\ Stored(w) /\ doomed' = doomed \cup {w}
    /\ Becomes(s, [idle EXCEPT !.kind = "remove", !.pc = "deleting", !.w = w, !.own = (w = ws.id),
                               !.ids = Ids(rec[w])])
    /\ UNCHANGED <<records, keys, kept, log, store, writer, loaded, clock, copies, crashes, faults,
                   home>>

\* createWorkspace(): a new, empty workspace.
Fresh(s) ==
    \E w \in Unused :
       /\ Tick /\ Made(w, {0})
       /\ Becomes(s, [To(op[s], "save", "made") EXCEPT
             !.obj = [nothing EXCEPT !.id = w, !.rev = clock']])

\* The app starts: the last active workspace, else the most recent one that can be read, else
\* a starter workspace, or a recovered one when there are others.
Start(s) ==
    /\ ~loaded /\ Free(s) /\ \A t \in Slots : op[t] = idle
    /\ Becomes(s, [To(idle, "list", "listed") EXCEPT !.kind = "start"])
    /\ UNCHANGED <<records, keys, kept, log, store, writer, loaded, clock, copies, counts, faults,
                   home>>

\* createDefaultWorkspace(): its id is fixed (its sample request is left out).
Starter(s) ==
    /\ Tick /\ Made(Default, {0})
    /\ Becomes(s, [To(op[s], "save", "made") EXCEPT
          !.obj = [nothing EXCEPT !.id = Default, !.rev = clock']])

\* The next workspace to try, of those left in list; none is left: a new one.
NextOrNew(s, list, preferred) ==
    \/ \E w \in IF preferred \in Ids(list) THEN {preferred} ELSE Newest(list) :
          /\ Becomes(s, [To(op[s], "read", "got") EXCEPT !.w = w, !.own = TRUE,
                                                          !.list = [list EXCEPT ![w] = 0]])
          /\ UNCHANGED <<clock, home>>
    \/ /\ Ids(list) = {}
       /\ IF op[s].kind = "start" /\ ~op[s].own THEN Starter(s) ELSE Fresh(s)

\* After listWorkspaces(): own says, of a start, that there were workspaces.
Listed(s) ==
    LET o == op[s] IN
    /\ At(s, "listed")
    /\ \/ /\ o.kind = "start"
          /\ NextOrNew(s, o.list, active)
       \/ /\ o.kind = "remove" /\ o.own
          /\ NextOrNew(s, [o.list EXCEPT ![o.w] = 0], 0)
       \/ /\ o.kind = "remove" /\ ~o.own
          /\ Becomes(s, To(o, "list", "ended")) /\ UNCHANGED <<clock, home>>
    /\ UNCHANGED <<records, keys, kept, log, store, writer, loaded, copies, counts, faults>>

Got(s) ==
    LET o == op[s]
        read == o.obj.rev # 0
    IN /\ At(s, "got")
       /\ \/ o.kind = "start" /\ ~read /\ NextOrNew(s, o.list, 0)
          \/ o.kind = "remove" /\ o.ok /\ ~read /\ Fresh(s)
          \/ o.kind \in {"start", "remove", "switch"} /\ read
             /\ Goes(s, "install") /\ UNCHANGED <<clock, home>>
          \/ o.kind = "switch" /\ o.ok /\ ~read
             /\ Becomes(s, To(o, "list", "ended")) /\ UNCHANGED <<clock, home>>
          \/ o.kind = "duplicate" /\ read /\ Copying(s, o.obj)
          \/ o.kind = "rename" /\ read /\ Tick /\ UNCHANGED home
             /\ Becomes(s, [To(o, "save", "copied") EXCEPT !.obj.rev = clock'])
          \/ o.kind \in {"duplicate", "rename"} /\ ~read
             /\ Goes(s, "ended") /\ UNCHANGED <<clock, home>>
          \/ o.kind \in {"remove", "switch"} /\ ~o.ok
             /\ Goes(s, "ended") /\ UNCHANGED <<clock, home>>
       /\ UNCHANGED <<records, keys, kept, log, store, writer, loaded, copies, counts, faults>>

\* A workspace that could not be written is installed only by a start.
MadeIt(s) ==
    /\ At(s, "made")
    /\ Goes(s, IF op[s].ok \/ op[s].kind = "start" THEN "install" ELSE "ended")
    /\ UNCHANGED <<records, keys, kept, log, store, writer, loaded, clock, copies, counts, faults,
                   home>>

Copied(s) ==
    /\ At(s, "copied")
    /\ Becomes(s, To(op[s], IF op[s].ok \/ op[s].kind = "rename" THEN "list" ELSE "ended", "ended"))
    /\ UNCHANGED <<records, keys, kept, log, store, writer, loaded, clock, copies, counts, faults,
                   home>>

\* install(): reads the drafts and the history; what cannot be read counts as empty.
Install(s) ==
    LET o == op[s] IN
    /\ At(s, "install")
    /\ Becomes(s, [o EXCEPT !.pc = "loading", !.reqs = kept[o.obj.id], !.entries = log[o.obj.id]])
    /\ UNCHANGED <<records, keys, kept, log, store, writer, loaded, clock, copies, counts, faults,
                   home>>

\* Variant: the drafts in memory are only overlaid.
OverlaidDrafts(o, ok) ==
    [r \in Requests |-> IF ok /\ o.obj.reqs[r] # 0 THEN o.reqs[r] ELSE drafts[r]]

\* load() replaces the whole store; drafts of requests that are gone are left out.
LoadedDrafts(o, ok) == [r \in Requests |-> IF ok /\ o.obj.reqs[r] # 0 THEN o.reqs[r] ELSE 0]

Load(s) ==
    LET o == op[s] IN
    /\ At(s, "loading")
    /\ \E ok \in BOOLEAN : Served(ok) /\ drafts' = LoadedDrafts(o, ok)
    /\ ws' = o.obj /\ persisted' = o.obj /\ hist' = o.entries
    /\ Arms(s, To(o, "list", "ended"), {"workspace", "drafts"})
    /\ active' = o.obj.id
    /\ UNCHANGED <<records, index, kept, log, known, loaded, clock, copies, counts, home>>

Ended(s) ==
    /\ At(s, "ended") /\ Becomes(s, idle)
    /\ loaded' = (loaded \/ op[s].kind = "start")
    /\ UNCHANGED <<records, keys, kept, log, store, writer, clock, copies, counts, faults, home>>

(* -------------------------------- history -------------------------------- *)

\* Variant: the oldest entry stays when the list is full.
Unbounded(e, list) == <<e>> \o list

Prepended(e, list) ==
    SubSeq(<<e>> \o list, 1, IF Len(list) < Limit THEN Len(list) + 1 ELSE Limit)

\* add(), remove(): the list is read, changed and written back.
History(s, kind) ==
    /\ Begin(s, kind) /\ kind \in {"record", "forget"} /\ Tick
    /\ kind = "forget" => hist # <<>>
    /\ Becomes(s, [idle EXCEPT !.kind = kind, !.pc = "logged", !.w = ws.id, !.entries = log[ws.id],
                               !.req = IF kind = "record" THEN clock' ELSE hist[1]])
    /\ UNCHANGED <<records, keys, kept, log, store, writer, loaded, copies, crashes, faults, home>>

Logged(s) ==
    LET o == op[s]
        entries == IF o.kind = "record" THEN Prepended(o.req, o.entries)
                   ELSE SelectSeq(o.entries, LAMBDA e : e # o.req)
    IN /\ At(s, "logged")
       /\ \E ok \in BOOLEAN :
             /\ Served(ok)
             /\ log' = IF ok THEN [log EXCEPT ![o.w] = entries] ELSE log
             /\ Becomes(s, [o EXCEPT !.pc = IF ok THEN "added" ELSE "ended", !.entries = entries])
       /\ UNCHANGED <<records, keys, kept, store, writer, loaded, clock, copies, counts, home>>

Clear(s) ==
    /\ Begin(s, "clear")
    /\ log' = [log EXCEPT ![ws.id] = <<>>]
    /\ Becomes(s, [idle EXCEPT !.kind = "clear", !.pc = "added"])
    /\ UNCHANGED <<records, keys, kept, store, writer, loaded, clock, copies, crashes, faults, home>>

Added(s) ==
    /\ At(s, "added") /\ Becomes(s, idle) /\ hist' = op[s].entries
    /\ UNCHANGED <<records, keys, kept, log, ws, drafts, writer, loaded, clock, copies, counts,
                   faults, home>>

(* ---------------------------- what the user does ------------------------- *)

\* A change of the tree adds a request, deletes one with its draft, or touches the rest.
Change ==
    \E r \in Requests \cup {0} :
       /\ Quiet /\ loaded /\ Tick
       /\ LET v == IF r # 0 /\ ws.reqs[r] = 0 THEN clock' ELSE 0 IN
          /\ ws' = [ws EXCEPT !.rev = clock',
                              !.reqs = [q \in Requests |-> IF q = r THEN v ELSE @[q]]]
          /\ drafts' = [q \in Requests |-> IF q = r THEN 0 ELSE drafts[q]]
          /\ Made(ws.id, {v})
       /\ Arms(0, idle, {"workspace"} \cup (IF drafts' = drafts THEN {} ELSE {"drafts"}))
       /\ UNCHANGED <<records, keys, kept, log, hist, persisted, known, loaded, copies, counts,
                      faults>>

\* editRequest(), discardDraft().
Edit(r) ==
    /\ Quiet /\ loaded /\ ws.reqs[r] # 0
    /\ \/ Tick /\ drafts' = [drafts EXCEPT ![r] = clock'] /\ Made(ws.id, {clock'})
       \/ drafts[r] # 0 /\ drafts' = [drafts EXCEPT ![r] = 0] /\ UNCHANGED <<clock, home>>
    /\ Arms(0, idle, {"drafts"})
    /\ UNCHANGED <<records, keys, kept, log, ws, hist, persisted, known, loaded, copies, counts,
                   faults>>

\* The window goes away: what is in memory is lost, what was called for is done.
Crash ==
    /\ Quiet /\ crashes < plan.crashes /\ crashes' = crashes + 1
    /\ ws' = nothing /\ drafts' = empty /\ hist' = <<>> /\ persisted' = nothing
    /\ known' = [w \in Workspaces |-> Unknown] /\ timers' = {} /\ loaded' = FALSE
    /\ op' = [s \in Slots |-> idle] /\ queue' = <<>>
    /\ UNCHANGED <<records, keys, kept, log, clock, copies, plan, faults, home, doomed>>

Operation(s) ==
    \/ \E r \in Requests : SaveRequest(s, r)
    \/ \E w \in Workspaces : SwitchTo(s, w) \/ Duplicate(s, w) \/ Rename(s, w) \/ Remove(s, w)
    \/ Create(s) \/ Clear(s) \/ History(s, "record") \/ History(s, "forget")

Step(s) ==
    \/ BeginSave(s) \/ Look(s) \/ Batched(s) \/ Indexing(s) \/ Indexed(s)
    \/ List(s) \/ Listing(s) \/ Read(s) \/ Shell(s) \/ Records(s)
    \/ Delete(s) \/ Deleted(s) \/ Unindex(s)
    \/ Flushed(s) \/ Committed(s) \/ Left(s) \/ Leaving(s) \/ Listed(s) \/ Got(s)
    \/ MadeIt(s) \/ Copied(s) \/ Install(s) \/ Load(s) \/ Ended(s)
    \/ Logged(s) \/ Added(s)

Next ==
    \/ \E s \in Slots : Step(s) \/ Flush(s) \/ Operation(s) \/ Start(s)
    \/ FlushDrafts \/ Change \/ (\E r \in Requests : Edit(r)) \/ Crash

Spec == Init /\ [][Next]_vars

(* ------------------------------- properties ------------------------------ *)

\* Every variable has its type.
TypeOK ==
    /\ shell \in [Workspaces -> [rev : Numbers, reqs : SUBSET Requests]]
    /\ rec \in [Workspaces -> Versions] /\ kept \in [Workspaces -> Versions]
    /\ index \in [Workspaces -> Numbers] /\ active \in Workspaces \cup {0}
    /\ log \in [Workspaces -> Seq(Numbers)] /\ hist \in Seq(Numbers)
    /\ ws.id \in Workspaces /\ ws.reqs \in Versions /\ drafts \in Versions
    /\ \A w \in Workspaces : Len(log[w]) <= Limit
    /\ timers \subseteq {"workspace", "drafts"} /\ loaded \in BOOLEAN

\* repository.ts:189: the shell never lists a request that is not there; of the workspaces that
\* nobody removes.
ListedIsThere == \A w \in Workspaces \ doomed : \A r \in shell[w].reqs : rec[w][r] # 0

\* "nothing reads across" workspaces: what is stored under the keys of a workspace, its
\* requests and drafts, was made in it or copied into it.
Isolated == \A w \in Workspaces : \A r \in Requests :
               {rec[w][r], kept[w][r]} \ {0} \subseteq home[w]

\* Once nothing is under way, the debounced writers have run and no request was rejected, the
\* disk holds what the workbench holds: its requests, its structure and its unsaved edits.
AtRestItIsWritten ==
    loaded /\ ws.id \notin doomed /\ faults = 0 /\ timers = {} /\ (\A s \in Slots : op[s] = idle) =>
        /\ shell[ws.id] = [rev |-> ws.rev, reqs |-> Ids(ws.reqs)]
        /\ \A r \in Ids(ws.reqs) : rec[ws.id][r] = ws.reqs[r]
        /\ \A r \in Ids(ws.reqs) : kept[ws.id][r] = drafts[r]
==============================================================================
