-------------------------------- MODULE MCApp --------------------------------
(* What the window keeps and shows, as TLC checks it: the parts Window has (the  *)
(* workspaces on disk and in memory, an SSH terminal, a tunnel, a WebSocket tab, *)
(* an MQTT request and the sends of a request; the configuration gives their     *)
(* constants), and beside them the store behind the workbench (Workbench), the   *)
(* files in editor tabs with the host that has them open (FileEditor), a query   *)
(* tab (QueryTab), the document of an edited file (PieceTable), what a window    *)
(* opened in the database host (HostBridge) and the rows edited in a table       *)
(* (TableRows).  A behaviour is one of one of them, which part names.            *)
EXTENDS Window

CONSTANTS c1, c2, f1, f2, r1, r2, w1, e1, e2, s1, s2, p1, p2, t1, t2, None  \* ids

\* How many operations of each kind (of the switcher, saves, of the history), objects made,
\* requests rejected and crashes.
Plan(managing, saving, history, made, rejected, crashed) ==
    [managing |-> managing, saving |-> saving, history |-> history, clock |-> made,
     faults |-> rejected, crashes |-> crashed]

MCPlans ==
    {Plan(2, 0, 0, 2, 0, 0), Plan(1, 1, 0, 3, 0, 0), Plan(0, 2, 0, 4, 0, 0), Plan(0, 0, 3, 4, 0, 0),
     Plan(1, 0, 0, 2, 1, 0), Plan(0, 1, 0, 4, 1, 0), Plan(1, 0, 0, 2, 0, 1), Plan(0, 1, 0, 3, 0, 1)}

MCFirst == {{1, 2}, {}}

\* What there is in the workbench, a few kinds of things at a time.
MCPools ==
    {{c1, r1, e1, s1}, {c1, c2, r1, e1}, {c1, r1, w1}, {r1, e1, e2, s1},
     {w1, e1, s1, s2}, {c1, c2, f1, f2, e1}, {r1, r2, s1}, {p1, p2, t1, t2}}

\* How many tabs; edits, writes asked for, writes of others, failures, losses of the window or
\* the host, and switches of the editor.
FilePlan(tabs, typed, saves, others, failures, lost, modes) ==
    [tabs |-> tabs, edits |-> typed, saves |-> saves, others |-> others, faults |-> failures,
     lost |-> lost, modes |-> modes]

MCFilePlans ==
    {FilePlan(1, 2, 1, 0, 0, 0, 0), FilePlan(1, 1, 2, 0, 1, 0, 0),
     FilePlan(1, 1, 2, 0, 0, 0, 1), FilePlan(1, 1, 1, 1, 1, 0, 0), FilePlan(1, 1, 1, 0, 0, 0, 2),
     FilePlan(2, 1, 0, 1, 0, 1, 0)}

\* How many executions of how many statements, uses of Stop and of commands, and pauses; and
\* whether executions may be at work beside one another.
ScriptPlan(execs, length, used, paused, doubles) ==
    [execs |-> execs, length |-> length, uses |-> used, pauses |-> paused, doubles |-> doubles]

MCScripts ==
    {ScriptPlan(1, 2, 2, 1, FALSE), ScriptPlan(1, 2, 0, 3, FALSE), ScriptPlan(2, 1, 2, 0, FALSE),
     ScriptPlan(2, 1, 1, 1, FALSE), ScriptPlan(2, 2, 1, 0, FALSE), ScriptPlan(2, 2, 0, 0, TRUE)}

\* What the window opens in the host: connections, and an import, an export or a file.
MCKinds == {<<"connection", "export">>, <<"connection", "file">>, <<"import", "export">>}

\* What is staged in the grid.
MCStagings == {<<"edit", "delete">>, <<"edit", "edit">>, <<"edit", "insert">>, [row \in {1} |-> "edit"]}

Bench == INSTANCE Workbench WITH
    Collections <- {c1, c2}, Folders <- {f1, f2}, Requests <- {r1, r2}, Sockets <- {w1},
    Environments <- {e1, e2}, Sessions <- {s1, s2}, Profiles <- {p1, p2}, Tunnels <- {t1, t2},
    Pools <- MCPools, Restarts <- 1,
    pool <- v1, nodes <- v2, parent <- v3, content <- v4, link <- v5, drafts <- v6,
    environments <- v7, activeEnvironment <- v8, open <- v9, activeRequest <- v10,
    selected <- v11, envTabs <- v12, activeEnvTab <- v13, terminals <- v14,
    activeTerminal <- v15, profiles <- v16, tunnels <- v17, restarts <- v18

Files == INSTANCE FileEditor WITH
    Tabs <- {1, 2}, Paths <- {t1, t2}, Plans <- MCFilePlans, Clock <- 4,
    plan <- v1, clock <- v2, disk <- v3, journal <- v4, tab <- v5, file <- v6, job <- v7,
    inbox <- v8, loose <- v9

Query == INSTANCE QueryTab WITH
    MaxExecs <- 2, Length <- 2, Scripts <- MCScripts,
    script <- v1, pc <- v2, at <- v3, old <- v4, got <- v5, settle <- v6, open <- v7,
    running <- v8, runs <- v9, shown <- v10, command <- v11, host <- v12, held <- v13,
    stopped <- v14, enough <- v15, untold <- v16, out <- v17, uses <- v18, pauses <- v19,
    doubled <- v20, left <- v21

Text == INSTANCE PieceTable WITH
    FileLines <- 3, Insertions <- {<<>>, <<8>>}, UndoLimit <- 2, MaxEdits <- 3,
    current <- v1, undoStack <- v2, redoStack <- v3, savedPoint <- v4, edits <- v5

Bridge == INSTANCE HostBridge WITH
    Items <- {1, 2}, Kinds <- MCKinds, MaxOpens <- 2, MaxCrashes <- 1,
    kind <- v1, alive <- v2, opens <- v3, opening <- v4, closing <- v5, owner <- v6, toHost <- v7,
    host <- v8, shuts <- v9, fromHost <- v10, toWindow <- v11, shown <- v12, crashes <- v13,
    loose <- v14, disowned <- v15, untold <- v16

Grid == INSTANCE TableRows WITH
    Rows <- {1, 2}, Stagings <- MCStagings, MaxFaults <- 1, MaxDrops <- 1, MaxUses <- 3,
    engine <- v1, staged <- v2, table <- v3, work <- v4, tx <- v5, broken <- v6, left <- v7,
    wrap <- v8, told <- v9, flag <- v10, open <- v11, write <- v12, before <- v13, used <- v14,
    missed <- v15, severed <- v16, beside <- v17

ASSUME Bench!WorkbenchAssumption /\ Files!FileEditorAssumption /\ Query!QueryTabAssumption
       /\ Text!PieceTableAssumption /\ Bridge!HostBridgeAssumption /\ Grid!TableRowsAssumption

Begins ==
    \/ part = "disk" /\ Init /\ NoneFrom1
    \/ /\ Init /\ plan = Plan(0, 2, 0, 4, 0, 0) /\ index[1] # 0 /\ active = 1
       /\ \/ TabBegins
          \/ part = "bench" /\ Bench!Init /\ NoneFrom19
          \/ part = "files" /\ Files!Init /\ NoneFrom10
          \/ part = "query" /\ Query!Init
          \/ part = "text" /\ Text!Init /\ NoneFrom6
          \/ part = "bridge" /\ Bridge!Init /\ v17 = 0 /\ NoneFrom18
          \/ part = "grid" /\ Grid!Init /\ NoneFrom18

Steps ==
    /\ UNCHANGED part
    /\ \/ part = "disk" /\ Next /\ UNCHANGED shared
       \/ /\ UNCHANGED vars
          /\ \/ TabSteps
             \/ part = "bench" /\ Bench!Next /\ UNCHANGED from19
             \/ part = "files" /\ Files!Next /\ UNCHANGED from10
             \/ part = "query" /\ Query!Next
             \/ part = "text" /\ Text!Next /\ UNCHANGED from6
             \/ part = "bridge" /\ Bridge!Next /\ UNCHANGED <<v17, from18>>
             \/ part = "grid" /\ Grid!Next /\ UNCHANGED from18

App == Begins /\ [][Steps]_<<part, vars, shared>>

\* Every variable has its type, in each of the modules; and what Window has keeps its inductive
\* invariants.
TypesOK ==
    /\ TypeOK /\ TabsInv
    /\ part = "bench" => Bench!TypeOK
    /\ part = "files" => Files!TypeOK
    /\ part = "query" => Query!TypeOK
    /\ part = "text" => Text!TypeOK
    /\ part = "bridge" => Bridge!TypeOK
    /\ part = "grid" => Grid!TypeOK

\* The explorer reaches every node, nothing in the workbench refers to what is not there, and
\* unsaved edits are of what is there, under its name and in its place.
NothingDangles ==
    part = "bench" => Bench!TreeIsRooted /\ Bench!NothingDangles /\ Bench!DraftsFollow

\* What a tab takes for the content on disk is what the host reads for it: edits are never
\* shown over, or written to, another content than they were made on.  Every line is shown from
\* where it is, and the document is dirty exactly when it is another than the saved one.
TabShowsTheFile ==
    /\ part = "files" => Files!TabShowsTheFile
    /\ part = "text" => Text!ReadsTheDocument /\ Text!DirtyWhenChanged

\* A save in place never takes away what somebody else put in the file before it began, and an
\* edit, undone or not, never what is elsewhere in the document: the pieces are a LineDocument.
\* When the grid of a table says that the changes are written, or that nothing was, it is so.
NothingOverwritten ==
    [][/\ part = "files" => Files!KeepsWhatIsThere
       /\ part = "text" => Text!OfTheDocument
       /\ part = "grid" => Grid!SaysWhatIs]_shared

\* Once the typing stopped, a tab with unsaved changes has them in its recovery copy, under the
\* stamp of the file it edits.
DirtyIsKept == part = "files" => Files!DirtyIsKept

\* At rest a terminal, a WebSocket tab and an MQTT request are shown connected while what they
\* show lives and no longer, and a tunnel is shown starting or stopping only while something
\* will still be heard of it.  A query tab is shown running while it has statements to run, none
\* of which is waited for in vain, and a statement as ended when it has; one at work is shown, and
\* begins only when the one before it is done.  A tab shows the stream it is reading and the
\* response of its last send, and the window what it has in the host, which goes with the window;
\* the grid leaves a query tab's transaction to the tab, whose writes are committed when it says so.
ShownAsItIs ==
    /\ SettledAsItIs
    /\ part = "ssh" => Ssh!ShowsWhatIs
    /\ part = "mqtt" => Mqtt!ShowsWhatIs
    /\ part = "query" => /\ Query!ShownRunning /\ Query!WaitsForSomething /\ Query!ShownAsItEnded
                        /\ Query!NothingUnseen /\ Query!InOrder
    /\ part = "bridge" => Bridge!ShowsWhatTheHostHas /\ Bridge!ClosedWithTheWindow
    /\ part = "grid" => Grid!LeavesTheTab
=============================================================================
