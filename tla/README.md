# Verification of HttpReq

This directory holds TLA+ models of the parts of HttpReq in which the order of events matters, the
TLC runs that check them on small instances, and TLAPS proofs about them for instances of any
size. Paths are relative to the root of the repository.

    tlc -workers 2 -config MCHosts.cfg MCHosts.tla     # one run
    tlapm TransfersProofs.tla                          # the proofs of one module

`PROJECT.json` lists the components, the runs and their properties, the lines each definition
models, the hazards, the findings and the theorems. For every checked property it also names a
mutant: a plausible bug, written as an operator marked `\* Variant:` beside the definition it
would replace, with which TLC finds the property violated. Variants are used by nothing else.

Sections: 1 the system, 2 the modules, 3 the runs, 4 the properties, 5 the proofs, 6 findings and
what else the models show, 7 what is not modelled, 8 the plan.

## 1. The system

HttpReq is a desktop (Electron) and web client for HTTP, gRPC, MQTT, WebSocket and SSH, with
Database Studio, a client for SQL and document databases and for very large files. It is written
in TypeScript. Every process is single-threaded: code runs from one `await` to the next without
interruption, and any other callback may run in between. All concurrency below is of that kind,
or between processes (windows, main process, File Host, Database Host, database servers).

    window (ui) --IPC--> main process --messages--> Database Host --sockets--> servers
      tabs, store            |                       DbHostService -> QueryRun / ScriptRun
      persistence            |                       TaskService   -> import, export, script
                             |                       ConnectionManager -> sessions -> connections
                             +--messages--> File Host (indexes, searches, edits files)
                             +--sockets---> SSH, WebSocket, MQTT (registries of sessions)

### Components

In the hosts and the drivers:

| Component | State | Operations | What is hard | Module |
|---|---|---|---|---|
| background tasks (`db-core/src/tasks.ts`) | a Map of entries with snapshot, signal, pause, grace timer, progress timer | submit, cancel, pause, resume, remove, the runner's report / issue / waitIfPaused, dispose | a task the grace timer ended still runs; trim and pump inside every finish | `BackgroundTasks` |
| worker supervisor (`db-workers/src/supervisor.ts`) | state, the running process, the start in progress, crash window, pending requests | request, abort, timeout, reset, stop; ready, answer and exit of a process | events of an old process in the life of a new one | `WorkerSupervisor` |
| connection manager (`connection-manager/src/manager.ts`) | a Map of entries, sessions, a shared reconnect, keep-alives | open, acquire, close, check | every await lets a close or another open in | `ConnectionManager` |
| MySQL (`db-protocol-mysql/src/connection.ts`, `mysql-engine/src/session.ts`) | current query, packet handler, inbox, water marks; second connection and its turn | query, next, return, ping, socket events; execute, cancel, limit, metadata | an answer is known only by its place; `KILL QUERY` strikes whatever runs | `MysqlConnection`, `MysqlSession` |
| PostgreSQL (`db-protocol-postgres/src/connection.ts`, `postgres-engine/src/session.ts`) | the statement that holds the connection, cancel requests | execute, read, walk away, cancel, limit | the drain after walking away; late cancel requests | `PostgresConnection` |
| Redis (`db-protocol-redis/src/connection.ts`, `redis-engine/src/session.ts`) | reply queue, busyWith, second connection | execute, cancel, ping, browse | replies known by their order; stops in the middle of a value | `RedisSession`, `SecondConnection` |
| MongoDB (`mongo-engine/src/session.ts`, `topology.ts`, `db-protocol-mongo/src/connection.ts`) | server cursor, operation comment, transaction flag, members | execute, cancel, next batch, connect | killOp searched before the op is there; cursors that stay; primaries that move | `MongoSession`, `SecondConnection`, `MongoTopology` |
| socket pump (`streaming-engine/src/socketPump.ts`) | buffered bytes, one waiter, paused flag | data, read, loss | water marks against a waiter | `SocketPump` |
| query run and spool (`query-engine/src/queryRun.ts`, `result-engine/src/spool.ts`) | result slots, demand, the spool file | reading loop, demand, cancel, dispose | demand or cancel between test and sleep; the disk limit | `QueryRun`, `StatementRun` |
| Database Host service (`db-host/src/service.ts`) | Maps of runs and scripts | query start / close, script start / close, disconnect | requests that interleave at each await, a loop over the live Map | `HostQueries` |
| bounded queue, credit gate (`streaming-engine`) | entries, parked producers; credit, waiters | push, next, abort, close, fail; grant, acquire, abort | wake-ups that resume later | `BoundedQueue`, `CreditGate` |
| import (`transfer-engine/src/importRun.ts`) | producer, queue, consumer, checkpoint | pipeline, cancel, pause, lost connection, resumption | ends anywhere; retries row by row | `ImportRun` |
| script file (`db-host/src/taskService.ts`, `query-engine/src/scriptRun.ts`) | progress, transaction, listener | statement loop, commit or rollback, cancel | cancel at each await | `ScriptTask` |
| export (`transfer-engine/src/exportRun.ts`, `file-engine/src/sink.ts`) | the sink's buffer and files | rows, flush, commit, abort | each file operation can fail | `ExportRun` |
| record readers and writers (`transfer-engine/src/csv.ts`, `jsonStream.ts`, `formatters.ts`) | the state of a parser between two chunks | push a chunk, end, resume behind a record | a chunk may end anywhere | `RecordReaders` |
| SQL scripts (`sql-parser/src/scanner.ts`, `lexer.ts`) | the scanner's state between chunks; the lexer | split, lex | two scanners that must agree | `SqlScripts` |
| tables and documents (`db-admin/src/tableDesign.ts`, `ui/src/dbstudio/admin/TableDesigner.tsx`, `DocumentEditor.tsx`) | model, original, draft, page | edit, apply, reload, leave; edit, save, question | awaits during which the user goes on | `TableDesign`, `DocumentEdit` |

In the window and the main process:

| Component | State | Operations | What is hard | Module |
|---|---|---|---|---|
| workspace persistence (`ui/src/usePersistence.ts`, `storage/src/repository.ts`) | the store, debounce timers, the key/value records | save, switch, create, copy, rename, remove, history, start | timers and awaits around a switch or a removal | `Persistence` |
| workbench store (`ui/src/store.ts`, `tree.ts`) | tree, drafts, tabs, environments, profiles | every operation that changes them | references across six lists | `Workbench` |
| file editor (`file-engine/src/host.ts`, `ui/src/dbstudio/useDbStudio.ts`) | handle, index, stamp, text; recovery copy | open, edit, save, save as, replace, close | other programs, failed writes, lost windows | `FileEditor` |
| editor core (`editor-core`) | pieces, undo and redo, saved point | splice, undo, redo, save, read | long edit sequences | `PieceTable`, `LineDocument` |
| SSH (`apps/desktop/src/ssh`, `ui/src/ssh/useSsh.ts`, `ui/src/tunnels/useTunnels.ts`) | generations of sessions; the shown state | open, reconnect, disconnect, close | late answers for a tab that went on | `SshTerminal`, `Tunnels` |
| WebSocket, MQTT (`apps/desktop`, `ui/src/websocket/useWebSockets.ts`, `ui/src/mqtt/useMqtt.ts`) | generations, registries, retry timers | connect, retry, disconnect, close, leave | an attempt under way when its tab closes | `SocketTab`, `MqttTab` |
| query tabs (`ui/src/dbstudio/db/useDbManager.ts`) | runs shown, settle handlers | run all, stop, scroll, close | awaits between two statements | `QueryTab` |
| sending a request (`ui/src/app/useSendRequest.ts`, `ui/src/useRequestExecution.ts`, `api-client/src/pipeline.ts`) | the controller, the pending marks, the stream | send, cancel, challenge, stream | an older send that ends after a newer one began | `RequestSend` |
| host bridge (`apps/desktop/src/dbConnections.ts`, `dbHost.ts`, `fileHost.ts`) | owners of connections, tasks, files | open, close, window gone, host gone | answers for a window that is gone | `HostBridge` |
| table rows (`ui/src/dbstudio/admin/TableBrowser.tsx`, `tableChanges.ts`, `dbOps.ts`) | staged changes, a transaction | apply, beside a query tab | two users of one session | `TableRows` |

What makes each of them correct is in section 4; what is not modelled, in section 7.

### How they interact

The window sends requests to the main process, which forwards them with `WorkerSupervisor` to the
Database Host (`HostBridge` keeps who owns what); an abort becomes a cancel message with a grace
time, after which the process is killed. In the host, `DbHostService` acquires a session from
`ConnectionManager` and starts a `QueryRun` on it; the run reads the session's statement through
the driver's back-pressure and tells the window of rows, which `QueryTab` shows. Long work (import,
export, script) is submitted to `BackgroundTaskManager`; its runner opens a session of its own,
polls `waitIfPaused()` and listens to the abort signal. An import composes a reader, `BoundedQueue`
and a writer. A host that dies takes all of this with it; the supervisor starts another. The
File Host serves `FileEditor` in the same way. What the user makes (trees, requests, connections)
lives in the store and is written by `Persistence`.

## 2. The modules

One module per component. Each begins with what it models, has its state as VARIABLES with the
name of the field they stand for, one action per callback or per stretch of code between two
awaits, and its properties at the end. Constants have a named assumption. No module declares a
RECURSIVE operator, so every one of them can be proved about.

Two modules are abstract specifications. `StatementRun` is what a run of a statement promises to
the service that owns it (it settles once, never as done after it was told to stop, and only pauses
while it runs). `QueryRun` implements it (`Promise == INSTANCE StatementRun WITH ...`; checked as
`KeepsPromise`, and proved, section 5), and `HostQueries` knows its runs only by that promise: its
`RunPauses`, `RunGoesOn`, `RunSettles` and `RunFinishes` are the steps of `StatementRun`.
`LineDocument` is a plain sequence of lines with splice, undo and redo; `PieceTable` implements it
(checked: `OfTheDocument`).

The MC modules are harnesses. They put components that share no state into one run: a variable
`part` is chosen at the start and says which of them the behaviour is of, the others stay as they
are. They name the constants of the instances, state each module's fairness for the part that runs,
and combine properties of one kind under one name. A state of a harness is a state of one component,
no more. `MCApp`, whose parts have many variables, has `v1` to `v21` for them to share. The parts of it
that are proved about are put together in `Window`, which `MCApp` extends.

| Harness | Parts | Question |
|---|---|---|
| `MCHosts` | `WorkerSupervisor`, `ConnectionManager` | does the database side stay reachable and accounted for? |
| `MCDrivers` | `PostgresConnection`, `MysqlConnection`, `MysqlSession`, `RedisSession`, `MongoSession`, `SecondConnection`, `MongoTopology`, `SocketPump` | do statements and answers stay in step? |
| `MCTransfers` | `ImportRun`, `BoundedQueue`, `CreditGate`, `ScriptTask`, `ExportRun`, `QueryRun`, `HostQueries` | is a piece of work complete, ordered, resumable, and does it tell the truth about itself? |
| `MCApp` | `Window` (`Persistence`, `SshTerminal`, `Tunnels`, `SocketTab`, `MqttTab`, `RequestSend`), `Workbench`, `FileEditor`, `QueryTab`, `PieceTable`, `HostBridge`, `TableRows` | is what the window keeps and shows what there is? |
| `MCStudio` | `RecordReaders`, `SqlScripts`, `TableDesign`, `DocumentEdit` | is what is read and applied what was written? |

### The hosts

`BackgroundTasks`: a task's `state` is its snapshot, `runner` what its promise is really doing, and
the two part ways when the grace timer ends a task. `kept` and `age` are the Map and its insertion
order. `Finish` is `finish()` with all it calls: the snapshot, the wake-up, the emit, `trim()` and
`pump()`; both of the latter pick the oldest (`Oldest`). `unseen`, `recent` and `timer` are the
throttle of `emit()`. `dispose()` is cut into the calls of its loop, during which `Idle` keeps
everything else out.

`WorkerSupervisor`: `proc` is the process as its events show it, `ready` its ready promise,
`pending` the host's map and `held` what the process itself has not answered, so that answers to
requests nobody awaits any more exist. `starting` is the start in progress. A process may become
ready with the right or wrong version, late, or never; it may exit at any time.

`ConnectionManager`: one connection id, since ids share nothing. An `Entry` is the object a call of
`open()` puts into the Map, so that an old one can live on when it has been replaced. `opening`,
`redo` and `closing` say at which await each of its calls is. `overlap` separates the two ways in
which the manager is used: `open()` and `close()` wait for other calls of theirs, or they do not.
`Microtask` keeps network events out of the gap of an `await` on nothing.

`HostQueries` has the two Maps as sequences in insertion order, because `startQuery` walks over the
live Map: `seen` are the keys its iterator has passed, and a key that is deleted and set again comes
once more. A request is a record in `calls` that says at which await it is.

### The drivers

Packets are records of the command they answer and a kind; the answer a packet belongs to is a
history the code cannot see. `Receive` hands over one packet of a `data` event; a paused socket
still delivers the rest of the event (`burst`). `HighWater` and `LowWater` are rows. In the
sessions, `struck` are the statements the server interrupted, `wanted` the reasons each was to be
stopped for. A kill or cancel request travels on another connection and strikes whatever runs when
it arrives. The code awaits it before it starts another statement in some places and not in others;
`hasty` records the statements begun while such a request was under way, and the properties are
about all others. `RedisSession` counts the replies and pieces of replies that are unread (`askew`:
a value that was too large left its rest on the wire); a consumer that walks away from the rows
(`WalksAway`) leaves the connection busy. `MongoSession` has the server's operations
and cursors beside the client's. `MongoTopology` is the search through the members of a replica set,
which may name each other and step down on the way.

### Statements and transfers

`QueryRun`: `pc` is the await `run()` is at; rows are counted: `rows` and `told` (what the window
may page through), `open` and `flushed` (the page being filled and those in the file), `sent` (what
the server gave). `ImportRun`: records are numbers; the producer and the consumer are two processes
around `queue`, the database counts how often it holds each record (`stored`, and `inTx` for the open
transaction, `unsure` for what statements stored whose answer the import did not get), and a set of
`Imports` says which options, bad records and events may come.
`ScriptTask` goes from opening the session to closing it; the server may succeed, refuse, be
interrupted, deadlock (which undoes the transaction) or lose the connection, also after it did what
it was asked; `outside` records an interruption by somebody else and a deadlock under which the script
went on, and the properties name it where they depend on it. `ExportRun` has the
temporary file and the destination as lengths in pieces and lets every file operation fail and the
host crash. `BoundedQueue` and `CreditGate` are modelled for several callers, as their interface
allows; an import uses the queue with one producer.

### The window

`Persistence`: workspaces are numbers, requests and drafts carry the `(workspace, version)` they
were last changed at, so that a value found under another workspace is seen as foreign. Every call
of the store takes a step to be sent and one to be answered, and may be rejected; the window may be
lost between any two. `Workbench` has the tree as `parent` and `content` functions over nodes.
`FileEditor` has a disk that other programs write to, a handle and an index in the host, and per tab
what it edits, under which stamp, what it believes and what its recovery copy holds; `inbox` are the
answers on their way. `SshTerminal`, `Tunnels`, `SocketTab` and `MqttTab` have the attempts of one
tab with their generations, what each holds in the main process, what is on its way to the window
(`out`) and what the window shows. `QueryTab` has the executions of one tab, each at an await of
`executeStatements`, and the host's side of the statement each of them runs. `RequestSend`,
`HostBridge` and `TableRows` follow the same pattern: what was asked, what exists elsewhere, what is
on its way, what is shown.

Where the code does not keep a property after some order of events, a variable records that this
order has happened (`loose`, `displaced`, `doomed`, `askew`, `stale`, `orphaned`, `confused`,
`missed`, `doubled`, `left`, `untold`, `late`, `overtaken`, `disowned`, `severed`, `beside` and so
on), each documented where it is declared; the property is about everything else, and section 6
tells what happens in the excepted case.

### Texts and designs

`RecordReaders` has the CSV, JSON, BSON, event-stream and search readers as automata over classes of
characters, fed with pieces cut anywhere; `SqlScripts` the scanner that splits scripts, the stream of
statements and the editor's lexer; `TableDesign` the table as the server has it, the model being
edited, the statements `designChanges` makes and their effect on the server; `DocumentEdit` the page,
the draft, the question asked before a save and the differences written.
## 3. The runs

All constants are bounds; state counts are distinct states.

| Run | Instance | States | Shows |
|---|---|---|---|
| `tasks` | 3 tasks, 1 place, 1 finished task kept, one of them reports | 62 000 | fairness of the pool, no lost wake-up, deadlines, nothing leaves a final state, everything ends |
| `hosts` | 3 processes, 2 requests, 1 crash tolerated; 2 entries, 2 sessions, 2 callers, 2 attempts | 237 000 | requests and callers are told, once; sessions belong to a connection; nothing comes after a stop or close |
| `drivers` | 2 statements, 3 cancels or limits, 2 rows; water marks 2 / 1; 2 metadata queries; 3 Redis commands; 3 users of a second connection; 3 members of a replica set | 254 000 | in step, bounded, resumed; kills strike their own statement; the primary is found or the reason told |
| `transfers` | 9 records in chunks of 5, batches of 2, a queue of 2; 3 producers, two of whom give up; credit up to 7; 4 statements of a script, 2 of its failures kept; 4 pages of an export; 5 rows and 2 results of a query; 3 tabs, 2 requests and 3 runs on one connection | 399 000 | resumes exactly, all or nothing, true counts, order, the refinement, one statement per connection |
| `app` | 3 workspaces, a history of 2, a clock of 4; a tree of few nodes; 2 file tabs; 3 reconnects, tunnels, socket attempts; 2 executions of 2 statements; 3 lines and 3 edits, undo of 2; 2 sends; 2 connections of a bridge and 1 crash; 2 rows with 1 fault and 1 drop | 888 000 | nothing lost, mixed up or resurrected; nothing left at work; what is shown is there |
| `studio` | texts of up to 9 classes cut into pieces of 1, 2 or 5; scripts of up to 4 fragments cut into 1 or 3; designs of two columns and up to 3 edits; three plans for a document | 566 000 | what is read is what was written, what is applied is what was designed |
| `supervisor_stop`, `connections_closed`, `mysql_beside`, `queryrun_drop`, `script_kill`, `editor_typed` | as small as the case allows | | one finding each (section 6) |

Why the bounds are enough: each was chosen as the least at which the interesting cases meet. Three
tasks on one place allow a running, a waiting and a third that is cancelled, forgotten or finished
between them; three processes, an old one that answers late, the one that runs and the one that
starts; two requests, one served and one abandoned on the same process; two entries, a connection
and its replacement. With water marks 2 and 1 and events of two packets the buffer can overshoot,
fill and drain. Three runs allow a tab's earlier run, a paused rival and the run that starts. Nine
records in chunks of five and batches of two leave a partly filled batch at the end of a chunk and
of the file, with bad records at the start, in the middle and in the last batch; three runs resume
a resumption. A queue of capacity 3 with weight 4 admits an item that is larger than the queue.
Two pages on disk and five rows are one page more than fits. A script of four statements can fail
more often than the two failures it keeps (`MAX_ERRORS`, 100 in the code). Three workspaces are the one left, the
one entered and one removed; two file tabs may be of the same file. Three edits over three lines
with an undo stack of two overflow the stack and reach the saved point from both sides. Pieces of
1, 2 and 5 cut every pair of characters that belong together. Two columns are what a rename, a swap
and a key over a removed column need.

Deadlock is not checked: every one of these systems may come to rest, with its work done or with
nobody asking for more. That nothing rests with work undone is what the liveness properties say.

### Fairness

Fairness is assumed only where the platform provides the step, never of a user and never of a
remote party that may hang:

- `BackgroundTasks`: timers fire and `dispose()` goes on. A runner that is not parked ends in the
  end, as the engines' waits have limits or signals, except while it is being cancelled, when it
  may ignore the signal: `StoppingEnds` rests on the grace timer alone. `PendingEnds` supposes that
  no task is left paused, since only the user ends a pause.
- `WorkerSupervisor`: timers fire and a killed process exits. No answer, readiness or exit of its
  own is assumed.
- `ConnectionManager`: connects end (they have time limits) and sleeps end.
- `MysqlConnection`: the server answers, the socket delivers and a consumer that reads goes on
  reading; one that walks away does nothing more. `MysqlSession`, `SecondConnection`: connects end and
  metadata queries are answered. `PostgresConnection`: only the client's five-second timer and the
  notice of a dead socket; the server may be silent for ever. `RedisSession`: what has arrived is
  read. `MongoTopology`: the search goes on. `SocketPump`: data or the end arrives.
- `QueryRun`: the loop's promises resolve. `HostQueries`: requests go on; a run that was told to
  stop ends, one that was not may run for ever.
- `ImportRun`: both sides go on; nobody has to end a pause. `ScriptTask`: promises and the grace
  timer go on and a kill that is under way arrives; a statement may run for ever. `ExportRun`:
  file operations answer, and a cancelled statement ends.

`MCApp` and `MCStudio` have no liveness properties and no fairness.

### What the models assume about time

Two things the code leaves to time are fixed, because every order would drown the cases of interest:

- Calls of a store or of the main process are served in the order they were made, and what one
  process sends another arrives in order, as with Electron's IPC.
- `Persistence`: the debounce outlasts the operations under way when it is set; one operation of the
  workspace switcher at a time; an orderly end of the application loses what a lost window loses.
- `FileEditor`: nobody edits or asks for a write while a text is on its way; a question before a
  dirty tab closes outlasts the journal timer; other programs replace files atomically and stamps
  differ; two tabs of one file are explored without saves.
- SSH, WebSocket, MQTT, query tabs and sends: a request is served when it is made; MQTT's
  reconnect event is delivered before the next period ends; a tunnel's binding takes no time.
- `QueryTab`: nobody disconnects and the host stays while a script runs; a demand does not fail.
- `MongoTopology`: members or strangers, no aliases; a mongos counts as writable. `RedisSession`: a
  consumer that is reading goes on or walks away at an event. `RequestSend`: a challenge is never answered by a stream.
## 4. The properties

Each is documented where it is defined. Names in brackets are the parts of a harness's property.

**tasks.** `PoolFair` (never more running than places, never a free place while one waits, started in
order), `EachIsWatched` (a parked runner is paused, a stopping task has its timer, unseen progress
has its timer), `NoWayBack` (final is final, the sweep of `dispose()` starts nothing, only finished
entries are forgotten), `EverythingEnds`.

**hosts.** `Tracked` (a waiting caller has a start, a posted request a live process, an abandoned one
its grace timer; `running` is alive; a start is its own), `ManagerAccounted` (live sessions and
keep-alives belong to the connection in the Map, waiting callers to a reconnect),
`NothingAfterTheEnd`, `EveryoneIsAnswered`.

**drivers.** `InStep` (PostgreSQL: each statement reads its own messages; a free connection has
nothing left to read), `OnlyOwnInterrupted`, `EachInStep` (the same of MySQL, Redis and MongoDB; the
pump's bounds; the primary or a reason is found), `SecondInTurn` (users of the second connection take
turns and get it back), `EveryoneIsTold` (and a closed session is left without a second connection).

**transfers.** `ResumesExactly` (nothing before the checkpoint is missing; a table that stops at the
first error holds nothing twice but what a statement stored whose answer did not come),
`BadCostsItself` (a bad record costs itself only), `AllOrNothing`, `ShownIsDone` (rows told of are
stored; a script and an export that say done are done and whole, a script unless somebody else ended
a statement of it or a deadlock undid it under way), `OneStatement` (of a connection's statements that
were not told to stop one runs; files of runs that are gone are deleted), `InOrder` (queue and credit are
first come, first served, and conserve weight), `KeepsPromise` (the refinement), `EveryoneIsHeard`.

**app.** `ListedIsThere`, `Isolated`, `AtRestItIsWritten` (every workspace listed has its
record, none shows another's data, and what is in the store at rest is on disk), `NothingDangles`
(tabs, drafts, environments and profiles refer to what exists), `TabShowsTheFile`, `DirtyIsKept`,
`NothingOverwritten` (an editor tab shows the file under its stamp; unsaved edits are in the text or
the recovery copy; nobody's content is overwritten unseen), `NothingLeftAtWork` (no shell, listener,
socket, session or request without the terminal, tunnel or tab that holds it), `ShownAsItIs` (what a
tab shows is what there is, once everything on its way has arrived; no statement runs unseen or out of
turn, and the database host keeps nothing of a window that is gone). `TypesOK` also has the inductive
invariants of the tabs (`TabsInv`).

**studio.** `WrittenIsRead` (records read from any pieces, from any resumption point, are those
written), `ReadTheSame` (scripts are cut the same way whatever the chunks, and the same way as the
lexer reads them, with the exceptions it names), `DesignIsTrue` (statements made from a design give
the design and nothing of it is lost; one is refused only where names are swapped or passed on, or an
index is made under a table name that does not exist yet), `DocumentIsKept` (a save changes what was edited and nothing else, once).

Several state the condition under which the code keeps them, because it does not keep them
otherwise: a connection manager whose calls do not overlap, MySQL without a query beside a ping,
statements that were begun before a kill was awaited, signals that fire at another moment, tables and
stop at the first error, connections that are kept. Section 6 tells what happens outside.
## 5. The proofs

All theorems are of the module's `Spec`, without fairness, for every value of its constants that the
named assumption allows. Each module proves `Init => Inv`, `Inv /\ [Next]_vars => Inv'`, one case
per action, and `Inv => the property`; `Inv` was checked with TLC on the run's instance before it
was proved. The proofs of `MysqlConnection`, `QueryRun` and `HostQueries` are at the end of the modules
themselves; those of `Persistence` and of five of the tabs are in `Window`. `HostsProofs`, `DriversProofs` and `TransfersProofs` extend the
modules TLC runs, `MCHosts`, `MCDrivers` and `MCTransfers`, whose sizes are constants: a behaviour
there is a behaviour of each component (`HostsAreBoth`, `EachIsItself`: the others only stutter), so
the properties of these runs follow from the theorems of the components, proved there through the
instance or cited from the component's module (`Query!QueryRunRowsAreTrue`,
`Mysql!MysqlInvariance`), for the values the named assumptions allow.

| Module | Theorem | States |
|---|---|---|
| `BackgroundTasksProofs` | `TypeCorrect`, `PoolIsFair`, `AllAreWatched`, `PastIsPast` | `TypeOK`, `PoolFair`, `EachIsWatched`, `NoWayBack` of the run `tasks` |
| `HostsProofs` | `TypeCorrect`, `EverythingTracked`, `SettledStaysSo` | `TypeOK`, `Tracked` of the run `hosts`, and that an outcome is never replaced and a stopped supervisor starts nothing |
| | `HostsAccounted`, `NothingComesAfter` | `ManagerAccounted` and `NothingAfterTheEnd` of `hosts` |
| | `ManagerAccounts`, `ManagerGivesUp` | the same of the connection manager alone |
| `DriversProofs` | `DriversKeepPostgres` (`PostgresTyped`, `PostgresInStep`, `PostgresInterruptsItsOwn`) | `TypeOK`, `InStep`, `OnlyOwnInterrupted` of `drivers` |
| | `DriversStayInStep` (`RedisInvariance`, `MongoInvariance`, `TopologyInvariance`, `PumpInvariance`) | `EachInStep` of `drivers` |
| | `DriversTakeTurns` (`SessionInvariance`, `SessionClosed`, `SecondInvariance`, `SecondClosed`, `MongoTakesTurns`) | `SecondInTurn` of `drivers` |
| `MysqlConnection` | `MysqlInvariance` | the part of `EachInStep` about MySQL |
| `TransfersProofs` | `ImportResumesExactly`, `ImportAllOrNothing`, `ImportBadCostsItself` | the properties of these names of `transfers` |
| | `ScriptIsAsShown`, `ExportLeavesNoHalf` | the script's and the export's part of `ShownIsDone` |
| | `TransfersShowWhatIsDone`, `TransfersTakeTurns`, `TransfersKeepThePromise` | `ShownIsDone`, `OneStatement`, `KeepsPromise` of `transfers` |
| `QueryRun` | `QueryRunRowsAreTrue`, `QueryRunKeepsPromise` | the query's part of `ShownIsDone`, and the refinement of `StatementRun` |
| `HostQueries` | `StatementsTakeTurns` | both conjuncts of `OneStatement` of `transfers` |
| `Window` | `WorkspacesStayApart` | `Isolated` of `app` |
| | `NothingIsLeftAtWork` | `NothingLeftAtWork` of `app` |
| | `TabsSettle` | `SettledAsItIs`, the first conjunct of `ShownAsItIs` of `app` |
| | `SshInvariance`, `TunnelInvariance`, `SocketInvariance`, `MqttInvariance`, `SendInvariance` | the same of each component alone, with its types |

### BackgroundTasks

For every finite set of tasks, every pool size and every length of the list of finished tasks. The
inductive invariant is `TypeOK /\ TaskInv /\ MapInv /\ PlacesInv`. The properties are not inductive
by themselves. `NoLostWake` needs that a paused flag is set only while the snapshot says PAUSED, and
that a task that has not started has no runner (`TaskInv`). `StartedInOrder` needs that a new entry
is put behind all others, so that ages are bounded by the number of tasks submitted (`MapInv`).
`WorkConserving` needs itself together with `RunningBound` (`PlacesInv`): a step that frees one
place frees exactly one, and `pump()` then fills what is free. That last fact is the lemma
`PumpFills`, about cardinalities of sets chosen by `Oldest`; `FinishInv` applies it to `finish()`
with its trim, `SubmitInv` to a submit, and `QuietStep` says that a step which moves tasks only
between running, paused and stopping disturbs neither order nor places. The bound on the list of
finished tasks is a second invariant, `ListBounded`: `TrimBounds` says what `trim()` leaves,
`FinishBounds` that every finish restores the bound.

### WorkerSupervisor

For every finite set of processes and of requests and every number of tolerated crashes. `Tracked` is
not inductive, because the events of several processes meet the same requests. `Inv` adds three
facts. `ProcessInv`: the start in progress is that of the one booting process whose `ready` promise
waits, and only a process that is up has requests; without it, a ready message could empty the map
of a process that still owes answers. `PlaceInv`: a request is with at most one process, from its
posting on. It is what makes the grace timer safe to clear: an answer or an exit clears it by
request and not by process, and no other process can still hold that request. `HeldInv`: what a
process has not answered is in its map, unless the process was killed. It is what makes the grace
timer sufficient: it looks in the map, and after `stop()` has emptied the map only the kill frees
the process. `StopEndsWorkers` is not among the theorems: it is false (section 6).

### ConnectionManager

For any number of entries, sessions, callers and attempts. That nothing is left open is not inductive:
one has to know at which await the calls for an entry that is not in the Map can be. `CalmManager`
says it: while calls do not overlap, whatever is at work is at work for the entry in the Map, except
that an entry may wait for the one before it to close; a reconnect that is past its sleep holds no
living session. `CalmStep` keeps it, and `CloseCalm` is the step that every `open()` and `close()`
share. Where calls do overlap only typing, the waiting callers (`WaitersStep`) and `ManagerGivesUp`
hold; the last needs that an entry which is closing sleeps, connects, or is done (`ClosedIsGone`).
The proofs are in `HostsProofs`, through the instance `Manager`.

### PostgresConnection

For any statements, reasons to stop them, rows and messages on their way. That each statement reads
its own messages needs to know what is on the wire: messages of the statement that holds the
connection, and nothing behind a ReadyForQuery (`WireInv`); when nobody holds the connection, nothing
at all. That only its own statement is interrupted rests on two facts about the requests under way:
an abandon request is awaited, so the connection is not given to another before it is over
(`RequestInv`), and a request in transit finds the statement it is for, none, or one begun by a
caller that did not wait (`AimInv`, where `hasty` names these).

### MysqlConnection

For any queries, pings, lengths of answers, sizes of `data` events and water marks, and for
connections on which no command is given while a ping is unanswered (`~Beside`): otherwise the
theorem is false, and the run `mysql_beside` shows how. The connection numbers nothing, so all
depends on what is on the wire. `MyModes`: it is free and the wire is empty, or a ping or a query is
asked and no other. `MyStream`: the packets on the wire are of the query that is read, each may
follow the one before it, and the last agrees with what the server has still to send; so the query is
over exactly when the last of its packets was handed over. `MyRoom` bounds the rows that wait: a
paused socket lets through the rest of the event it was paused in and no more, so the bound counts
`burst`. `MyRest` says how many entries of the queue are not rows. `MySocket`: the socket is paused
iff some query is marked so, only one is, and it has a reader or a drain that resumes it (`Watched`).

### Sessions and second connections

For any statements, metadata queries, jobs and stops. A second connection is handed on through a
chain of promises: `Lists` says of the sequence that models the chain that it holds whoever waits,
once, and `InTurn` that whoever works is at its head. `SecondPlace` adds where each job stands: a
job that reads has selected the database it is about. `MongoTakesTurns` reuses all this for the
session of MongoDB, of whose searches, kills and releases `Job` is the union. `SessionAim` (MySQL)
and `MongoAim` are about kills: only one statement runs, and a kill that is due finds its own
statement or one begun in haste. `MongoCursors` follows a cursor from the reply that told of it over
the batch in hand to the release asked for it.

### RedisSession

For any commands, replies of any number of pieces, and keep-alives. `RedisBusy` ties the connection's
`busy` to the command that reads; `RedisOwn` says that the unread pieces are those that this command
still waits for, and are none when nobody reads. A command that walked away from its rows is over and
keeps the connection busy, so what is unread is nobody's. Both hold until a reply is given up half-read
(`askew`). The model had let a second reply that was given up, of a stopped command, forget this
history; the proof showed it, TLC with its one such reply had not.

### MongoTopology

For any servers, seed lists and strangers. That the search finds the primary needs what it knows so
far: `TopoFinds` says that while nobody steps down, a reachable primary that a member tried has named
is in the queue or being dialled; `TopoSays` that a search which fails without an error has run out
of members that could name one. That nothing is left open follows from the step that leaves a server.

### SocketPump

For any mark, chunk and need. `PumpWaits`: who waits needs more than there is, and the socket is then
neither paused nor ended; and a socket that flows with nobody waiting is below the mark. The bound on
the buffer follows, because a pause is decided at every piece that arrives.

The components of `drivers` are instances with their own constants. The proofs needed assumptions
about names that the modules had not stated: no query is a ping (`MysqlAssumption`), no metadata query
a kill (`SessionAssumption`), and `none` no answer to a search for an operation (`MongoAssumption`).

### ImportRun

For files, chunks, batches and queues of any size, every set of bad records and every moment of a
cancel, loss or pause. `Inv` has one part per thing that has to be known:

- `ProducerInv`, `ConsumerInv`, `TransactionInv`: what both sides have in hand at each of their
  awaits, and when a transaction is open;
- `OrderInv`: batch, queue, batch being built, rest of the chunk and the unread file are in the
  order of the file. This makes the checkpoint mean something: it is the record behind the last of a
  written batch, and everything before it has passed through the consumer;
- `CoverInv`: every good record is in hand or dealt with. `CheckpointIsStored` follows from this
  and from `OrderInv`, and not from itself;
- `FreshInv`: of a table that stops at the first error nothing is stored beyond the checkpoint but
  the batch just written, apart from what statements stored whose answer did not come (`unsure`), so
  a resumption repeats nothing else;
- `SingleInv`: in a single transaction, what is in hand is not yet in the transaction and everything
  else is, once; nothing is committed before the end, and then once, whoever hears of it;
- `RejectedInv`: while the connection holds only bad records are rejected.

### ScriptTask and ExportRun

Files of any length, caps on the failures kept, pages and buffers of any number; statements that
somebody else ends, deadlocks and lost connections at any moment. Two things the code does not promise
are conditions in the properties themselves: what befell the script on the server (`outside`: somebody
else ended a statement, a deadlock undid the transaction of a script that went on), and for an export a
cancel before its file was made (`CutOffEarly`). Section 6 says what happens then.

That a single transaction is stored whole or not at all needs the whole history: `ScriptWhole` says
that while nothing failed and the session is open, the transaction holds exactly the statements sent so
far, that it is open wherever the loop is, and that something is stored only by a COMMIT of everything,
also of one whose answer is lost. `ScriptVerdict` orders a cancel: the run is told first, and a run
that was told is never "done"; with `ScriptCounts` (`executed` follows the place in the file, also over
an unclosed quote) a task shown as completed has sent every statement, and the failures that were made
issues are the first `MaxErrors`. For the export, `ExportPieces` accounts for every piece, in the file
or in the buffer, at every await, also when a flush fails half-way; so what is renamed is complete, and
`ExportPlace` says that the destination changes in that step only, and that the file beside it is gone
at the end unless the cancel came before it was there.

### QueryRun and StatementRun

For pages, files, events and results of any size. `PlaceInv` says what each await of `run()` implies
about the result, the server and the run's state; `SlotsInv` that rows are on disk or in the open
page and that every result but the current one is complete; `ReadInv` that the run is ahead of the
demand by the lookahead and one event at most, which depends on what `append()` adds
(`RowsAppended`). The refinement is proved from the same invariant: `Init` maps to the abstract
initial state, and each step to a step of `StatementRun` or to a stutter (a demand may end a pause, a
cancel makes the abstract `stop` true, the end of the loop settles).

### HostQueries

For any number of tabs, connections, requests and runs. That one statement runs on a connection is
not inductive: `startQuery` walks over the live Map and awaits in between, so it has to be known what
its loop has passed. `Turns` says so: a tab has one request at a time (`Alone`, what the window
does), a start has taken its tab's own run out of the Map (`Begins`), and of the entries passed none
runs on the connection without having been told to stop (`Passed`), which a resumption cannot
undo. `Kept` says that a running statement nobody stopped is in the Map, so the walk meets it;
`Distinct` that keys are. An entry deleted and set again is no longer among those passed
(`Deleted`, `DeletedOnce` say what `Map.delete` does to positions), and a step of a run only ever
takes it from running to settled (`Later`). The theorem covers the files too: a run that is in no
Map was disposed or is being disposed (`NoOrphan`), and a disposed one is finished.

### Persistence

For any sets of workspaces and requests, any number of operations under way, every plan, and with
requests rejected and windows closed at any moment. `Isolated` is about the disk alone and not
inductive: an operation that began in one workspace may write when another is open. `Inv` says of
everything that can still be written which workspace it is of. `StoreInv`: what the workbench holds
is of the workspace it is in. `OperationsInv`: every operation is `Sound`, which is `Holds` (its
object, the drafts it leaves, the records and drafts it has read, and the object its save was based
on are each of the workspace they will be put into) and `Routed` (what is answered next, so that an
answer cannot reach the continuation of another operation). While a shell is being read its object
is only a list of keys, and `Holds` says nothing of it. What is of a workspace only grows (`Grown`),
which is why what another operation makes disturbs none of this (`SoundGrows`). The argument does not
need the order in which the store serves its requests: that no two workspaces mix follows from
every write taking its key and its value from the same object.

### The tabs (`Window`)

For any number of attempts to connect, calls, starts, sends and uses. `Tabs` is a behaviour of any of
the parts; what the others do to the shared variables is left open, so `App` of `MCApp` is a `Tabs`.
The five components have one difficulty in common: an event or an answer is read long after it was
told, and means something only for the attempt it is of. Their invariants are the sections at the end
of the component modules, and `TabsInv` puts them together.

- Queues. `told` abstracts `out` to the kinds of messages that are on their way of each attempt, and
  `Queued` says which may not follow one another (an answer comes once, an end comes last). The
  lemmas `OneIsTaken` to `ThreeAreTold` do this once for any queue and any such relation, so the
  steps of the components speak of `told` alone.
- `SocketTab`: `Heard` says what an attempt has come to and what is still to be heard of it. That a
  socket is never left open needs `Apart` (no two attempts at work have a generation in common) and
  `Owned`; that a reconnect never meets a living attempt needs `Armed`. They hold until the tab was
  closed and opened again while an attempt was at work (`confused`), as the property says.
- `MqttTab`: generations are not used again (`Numbered`), and what may still become the registered
  session is the current one (`Kept`), unless disconnect() or closeAll() went past an attempt.
- `SshTerminal`: no message carries an attempt, so `Awaited` says which call each attempt answers and
  that it does so once; `Closed` that nothing current is opening under a tab that is closed or about
  to be; `Shown` that a tab whose shell lives is shown as disconnecting only until the answer.
- `Tunnels`: `Places` says that whoever is at work has the place in the map, as long as none lost it;
  `Reported` who is still to report. `ShownSettles` needs no such condition.
- `RequestSend`: `OneSend` needs that what was sent was not aborted (`Sent`) and what is on its way
  (`OnTheWay`): an answer that was read ends the send whose answer it is.

### What is only model-checked

Liveness and anything with ENABLED, which the prover does not have. `BoundedQueue` and `CreditGate`:
their weights are sums over sequences, so their bounds are inductions over data. For the same reason
two typing conjuncts are left to TLC: the weight of the import's queue (`ImportRun!TypeOK`), and the
result of `SelectSeq` in `HostQueries!TypeOK`. `Persistence!TypeOK` for the histories, which
`SelectSeq` trims, and `ListedIsThere` and `AtRestItIsWritten`, which depend on the order in which
the queue of the store answers. What terminals and MQTT requests show at rest, and query tabs, the
bridge and the grid (the rest of `ShownAsItIs`). Of the import, the export and the
parts of the window and the studio, the typing (`TypesOK`). The readers, the scripts and the lexer, whose
properties compare recursive functions with a reference on bounded inputs. Of the other components,
everything (section 8 names those worth a proof).
## 6. Findings

Each has a run in which TLC shows the code's behaviour to contradict the sentence quoted in
`PROJECT.json`.

1. `supervisor_stop` (`supervisor.ts:236`): the ready message of a process that was given up after
   its start timed out makes it `this.running`. The newer process is then known to nobody, and
   `stop()` leaves it alive.
2. `connections_closed` (`manager.ts:240`): `closing` is tested before `connect()` and not after. A
   reconnect that is connecting when `open()` replaces its connection attaches a live session and a
   keep-alive to the connection that was replaced, after `open()` returned; nobody closes them.
3. `mysql_beside` (`connection.ts:480`): a ping does not set `current`, so a query is accepted beside
   it, takes the ping's OK for its own answer, and the next statement reads the answer of this one.
4. `queryrun_drop` (`queryRun.ts:240`): the last page of a result that no longer fits in the file is
   dropped, and the result is shown as complete.
5. `script_kill` (`scriptRun.ts:150`): a statement interrupted by somebody else ends the script as
   done, and a script that was to be one transaction is committed in part.
6. `editor_typed` (`useDbStudio.ts:817`): what was typed while a file was being saved is marked as
   saved; the tab closes without asking.

### What else the models show

These are behaviours of the code outside the condition of a property, found while the model was
written or by TLC before the condition was added. Most contradict no sentence of the repository.

- Tasks: a snapshot taken by `settled()` for a waiting task says PENDING (`tasks.ts:258`);
  `dispose()` does not wait for the runner of an entry that was removed or trimmed after its grace
  (266); a task submitted during `dispose()` can be left stopping without a timer.
- Supervisor: in the state failed the start that waits in its back-off still goes on (185).
- Manager: two overlapping `open()` calls leave a session behind (120); the late answer of a ping
  marks the newer session of its entry as disconnected (218); a ping of a busy Redis connection is
  refused, and a healthy connection is shown as disconnected (212).
- MySQL session: a kill is refused while a metadata query runs (124), and a second connection that
  was lost is never replaced (460). A late kill strikes the next statement (123). A ping that waits
  when the socket fails is never settled (`connection.ts:769`).
- PostgreSQL: a cancel request that is acted on late strikes the next statement (146, 154).
- Redis: a value over the limit leaves its rest on the wire; a late cancel closes the main
  connection; a statement is refused while a ping is unanswered. A run that fails to keep its rows (an
  error of the spool, `queryRun.ts`) leaves the stream without a stop: no `done()` runs
  (`session.ts:218`), and the connection refuses every later command as busy.
- MongoDB: a kill that is searched before the operation is registered is lost; one that fails late
  closes the connection under another statement; the cursor of a lost reply stays for the server's
  time limit; a primary that moved to a member already tried is not found, and no reason is given.
- Host service: two starts for one query id would both go on (380; no window sends them); a script
  and a statement can share a connection (407, 416); a run is taken out of the Map before it has
  stopped (390), so the next statement starts beside it although every other is stopped first (357); a
  session is fetched before the awaits after which it is used (349). The session
  refuses whichever statement comes second.
- Queue: a signal that fires between the wake-up of a producer and its resumption leaves the others
  parked (`boundedQueue.ts:114`). Gate: when the waiter at the head gives up, those behind it wait
  for the next grant (`creditGate.ts:64`).
- Import: a retry that is cut short repeats rows when resumed (659), as do unordered inserts (208);
  a lost connection looks like refused rows when bad rows are skipped (661); malformed records of a
  chunk whose batches were checkpointed are never reported by a resumption (393); a COMMIT or an INSERT
  that was done and whose answer is lost, or is overtaken by the cancel, leaves rows without a
  checkpoint, and the resumption stores them again (640, `mysql-engine/src/session.ts:167`), other
  than `importRun.test.ts:369` says ("without repeating or skipping a record"); producer and consumer write the rejects file
  at the same time (311); a failure while paused shows only when the pause ends (603). A JSON array
  cannot be resumed: the reader looks for `[` again (539, `jsonStream.ts`).
- Readers: the end of a CSV record with CRLF lies between the two (`csv.ts:21`), so lines count one
  more after a resumption; a row of one empty field is written as a blank line and not read back.
- Script and export: what is opened before the `try` (the session, the temporary file) stays when a
  cancel or failure comes just then (`taskService.ts:462`, `exportRun.ts:64`); the temporary file of
  a crashed export is never removed. An export cancelled before `execute()` leaves an empty file and
  its open handle (`exportRun.ts:54` to 64), other than its line 28 says ("leaves nothing behind"). A
  deadlock under "continue" leaves the rest of the script outside its transaction. Failures beyond the
  first 100 become no issue and are in no count (`scriptRun.ts:194`, `taskService.ts:479`), although
  `errorCount` "counts all of them" (`tasks.ts:82`).
- Scripts: scanner and lexer disagree on `--` and `/*` behind an operator and on a dollar sign behind
  a name or number; a delimiter that begins with a letter is not seen at the start of a statement.
- File editor: a failed in-place save or replace reloads, and unsaved edits are gone; a switch of
  editors while a file is written leaves an old text marked clean; two tabs of a file share one
  recovery copy; a reload after a failed save takes another program's content for its own, and the
  next save overwrites it; a close during a save leaves a reader open.
- SSH: `start()` writes an error over a newer live session; one place for a pending host key question
  is shared by all tabs (`services.ts:119`); a reconnect that goes on while its tab closes leaves a
  shell. Tunnels: a second start or a stop during a connect leaves a client and a listener.
- WebSocket: `forget()` deletes the generation, so that a new tab of the same id counts from one again
  while an old attempt is under way. MQTT: the connected event comes before the answer, so saved
  subscriptions are not made at the first connect (`MqttPanel.tsx:302`); a disconnect before the
  registration changes the status only; one that goes on writes over a newer attempt.
- Tabs: sockets are forgotten before the question about unsaved changes, so a cancelled close leaves
  the tab disconnected.
- Query tabs: a second run may start while the first prepares; closing results while a script waits
  leaves it waiting; a script whose tab was closed between two statements goes on unseen; a pause is
  not told when the demand is parked (`queryRun.ts:235`), so that "run all" waits for a scroll; a
  stop between two statements is not heeded.
- Sending: a stream whose head arrives after its send was cancelled is shown as open for good; an older
  send that ends writes over a newer one's stream or response; a script's change of the method is
  validated and not used.
- Bridge: nothing tells a window that the database host ended, so that connections stay shown as
  connected; what was being opened when its window went stays without an owner; a slow close deletes
  the owner of a connection opened again.
- Table rows: a reconnect between two statements loses the grid's transaction, and what is then said to
  be written is not; a query tab's statements run inside the grid's transaction; an UPDATE that
  matches no row counts as written.
- Tables: the statements of a design that has no problems are not always valid in their order
  (`tableDesign.ts:355`): swaps and chains of renames are refused, and an index is created under the
  new name of the table before the table has it (537, 548); the comment of a column that is new in
  PostgreSQL is lost; `validateDesign` (221) overlooks two keys of one name and a column named twice in a
  key; a key left over a removed column passes to another
  that takes its name; after a partial failure the original is not read again, so the next Apply
  repeats statements; edits typed while applying are discarded. Documents: switching tabs discards an
  unsaved draft; an insert may be made twice between its outcome and the reload; an update that finds
  no document is reported as saved.
## 7. What is not modelled

Within the modelled components: logging, wording, progress figures and throttling that no property
is about; handshakes, authentication, TLS upgrades, packet framing and the decoding of values; the
texts of metadata queries; `test()` and `openDedicated()` of the manager, whose sessions it does not
track; EXPLAIN, transactions by hand and the other operations of the host service; COMMIT or DDL
inside a script; transactions of MongoDB and SRV lookups; the read-ahead jobs of the File Host; the
views of a table browser (sorting, filters, counts) and the creation of new tables.

Whole components: pure functions over text and trees (SQL parser apart from the scanner and lexer,
document engine, code generation, import formats, validators) have no order of events to check, and
their unit tests and fakes reach them well. Views, Electron glue and the updater are I/O.
Components with a note of why they are left out are listed in `PROJECT.json`.

Hazards without a property: rows of a failed batch that are stored before their retry is cut short
(`importRun.ts:659`): `insertMany` does not say which, so nothing the code keeps could be stated.

## 8. Plan

Done: the hosts, drivers, transfers, window and studio models with their runs; proofs of background
tasks, the supervisor, the connection manager, all drivers, the query run and its refinement, the host
service, the import, scripts and exports, of the persistence that workspaces stay apart, and of
terminals, tunnels, WebSocket and MQTT tabs and sends that nothing is left at work.

Next: `Persistence!ListedIsThere` and `AtRestItIsWritten`, from what the queue of the store still
owes and what the timers still have to write; then the query tabs and what is shown (`ShownAsItIs`).
