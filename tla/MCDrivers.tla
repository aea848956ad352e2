------------------------------ MODULE MCDrivers ------------------------------
(* The connections to a database server as TLC checks them: a PostgreSQL       *)
(* connection (PostgresConnection, whose constants the configuration gives), a *)
(* MySQL connection, a MySQL session with its two connections, a Redis and a   *)
(* MongoDB session, the second connection of those two, the search for a       *)
(* MongoDB server, and the buffer below them all.  They share nothing, so a    *)
(* behaviour is one of one of them, which part names.  The theorems of         *)
(* DriversProofs hold for any values of the constants.                         *)
EXTENDS PostgresConnection

CONSTANTS
    Query, Pings, HighWater, LowWater, AnswerRows, PacketsOut, PacketChunk,   \* of the MySQL connection
    Statements, Browse, Kills,                      \* of the MySQL session
    Commands, TooLarge, Pieces, keepAlive,          \* of the Redis session
    MongoStmt, Taggable, MongoStops, Batches,       \* of the MongoDB session
    Job, About,                                     \* of the second connection
    Host, Seeds, Strangers, MaxMoves,               \* of the search
    PumpHigh, PumpChunk, MaxNeed, Total,            \* of the buffer
    q1, q2, b1, b2, h1, h2, h3

MCStmt == 1 .. 2

\* The first statement may meet both a cancel and its time limit.
MCStops == {<<1, "cancel">>, <<1, "timeout">>, <<2, "timeout">>}

\* Of two MongoDB statements the first can be found by its comment; both leave cursors.
MCMongoStops == {<<1, "cancel">>, <<2, "timeout">>}
MongoJobs == MongoStops \cup {<<k, "cursor">> : k \in MongoStmt}

\* Jobs about databases 1, 0 and 1 again.
About123 == <<1, 0, 1>>

\* Two seeds, one server of another replica set, and a list that names a member twice.
SeedLists == {<<h1, h2>>, <<h3>>, <<h1, h1, h2, h3>>}

VARIABLES
    part,
    query, ping, current, handler, inbox, closed, paused, asked, sent, packets, burst,
    statement, struckDown, stopWanted, kill, browse, turn, second, user, ended, hurried,
    command, toRead, verdict, tookFrom, whyStopped, replies, busyWith, redisUp, skewed,
    asks, askTurn, mongoSecond, mongoCached, mongoChosen, mongoClosed, stage, answer, rounds,
    cursors, inHand, stopReasons, foundOp, killed, cutOff, mongoUp, eager,
    jobs, jobTurn, spare, spareDb, serverDb, shut,
    anyMember, seedQueue, tried, dials, dialling, hello, opened, searchResult, lastError,
    leader, sees, reachable, moves,
    coming, chunks, need, most, filling, pumpPaused, gone

mysql == <<query, ping, current, handler, inbox, closed, paused, asked, sent, packets, burst>>
sessions == <<statement, struckDown, stopWanted, kill, browse, turn, second, user, ended, hurried>>
redis == <<command, toRead, verdict, tookFrom, whyStopped, replies, busyWith, redisUp, skewed>>
mongo == <<asks, askTurn, mongoSecond, mongoCached, mongoChosen, mongoClosed, stage, answer, rounds,
           cursors, inHand, stopReasons, foundOp, killed, cutOff, mongoUp, eager>>
spares == <<jobs, jobTurn, spare, spareDb, serverDb, shut>>
topology == <<anyMember, seedQueue, tried, dials, dialling, hello, opened, searchResult, lastError,
              leader, sees, reachable, moves>>
pump == <<coming, chunks, need, most, filling, pumpPaused, gone>>

\* What the actions of the MySQL session, and of the search, determine: all but the history,
\* and all but the replica set.
worked == <<statement, struckDown, stopWanted, kill, browse, turn, second, user, ended>>
searched == <<anyMember, seedQueue, tried, dials, dialling, hello, opened, searchResult, lastError>>

Mysql == INSTANCE MysqlConnection WITH
    Ping <- Pings, MaxRows <- AnswerRows, Wire <- PacketsOut, Chunk <- PacketChunk,
    Beside <- FALSE, wire <- packets

Session == INSTANCE MysqlSession WITH
    Stmt <- Statements, Kill <- Kills, stmt <- statement, struck <- struckDown,
    wanted <- stopWanted, closed <- ended, hasty <- hurried

Redis == INSTANCE RedisSession WITH
    Stmt <- Commands, ping <- keepAlive, stmt <- command, left <- toRead,
    outcome <- verdict, took <- tookFrom, why <- whyStopped, unread <- replies,
    busy <- busyWith, up <- redisUp, askew <- skewed

Mongo == INSTANCE MongoSession WITH
    Stmt <- MongoStmt, Stop <- MongoStops, Job <- MongoJobs,
    About <- [j \in MongoJobs |-> none], job <- asks, turn <- askTurn, second <- mongoSecond,
    cached <- mongoCached, chosen <- mongoChosen, closed <- mongoClosed, at <- stage,
    reply <- answer, round <- rounds, cursor <- cursors, openCursor <- inHand, why <- stopReasons,
    found <- foundOp, struck <- killed, cut <- cutOff, up <- mongoUp, hasty <- eager

Second == INSTANCE SecondConnection WITH
    job <- jobs, turn <- jobTurn, second <- spare,
    cached <- spareDb, chosen <- serverDb, closed <- shut

Topology == INSTANCE MongoTopology WITH
    queue <- seedQueue, at <- dialling, open <- opened, result <- searchResult, primary <- leader

Pump == INSTANCE SocketPump WITH
    HighWater <- PumpHigh, Chunk <- PumpChunk, asked <- most, fill <- filling,
    paused <- pumpPaused, ended <- gone

ASSUME MysqlAssumption == Mysql!MysqlAssumption
ASSUME SessionAssumption == Session!SessionAssumption
ASSUME RedisAssumption == Redis!RedisAssumption
ASSUME MongoAssumption == Mongo!MongoAssumption
ASSUME SecondAssumption == Second!SecondAssumption
ASSUME TopologyAssumption == Topology!TopologyAssumption
ASSUME PumpAssumption == Pump!PumpAssumption

Begins ==
    /\ part \in {"postgres", "mysql", "session", "redis", "mongo", "second", "topology", "pump"}
    /\ Init /\ Mysql!Init /\ Session!Init /\ Redis!Init /\ Mongo!Init /\ Second!SecondInit
    /\ Topology!Init /\ Pump!Init
    /\ part = "topology" \/ (anyMember /\ seedQueue = <<h3>> /\ leader = none /\ reachable = {})

Steps ==
    /\ UNCHANGED part
    /\ \/ part = "postgres" /\ Next
          /\ UNCHANGED <<mysql, sessions, redis, mongo, spares, topology, pump>>
       \/ part = "mysql" /\ Mysql!Next
          /\ UNCHANGED <<vars, sessions, redis, mongo, spares, topology, pump>>
       \/ part = "session" /\ Session!Next
          /\ UNCHANGED <<vars, mysql, redis, mongo, spares, topology, pump>>
       \/ part = "redis" /\ Redis!Next
          /\ UNCHANGED <<vars, mysql, sessions, mongo, spares, topology, pump>>
       \/ part = "mongo" /\ Mongo!Next
          /\ UNCHANGED <<vars, mysql, sessions, redis, spares, topology, pump>>
       \/ part = "second" /\ Second!SecondNext
          /\ UNCHANGED <<vars, mysql, sessions, redis, mongo, topology, pump>>
       \/ part = "topology" /\ Topology!Next
          /\ UNCHANGED <<vars, mysql, sessions, redis, mongo, spares, pump>>
       \/ part = "pump" /\ Pump!Next
          /\ UNCHANGED <<vars, mysql, sessions, redis, mongo, spares, topology>>

\* What the fair specification of each module promises, for the one that runs.
Fair ==
    /\ \A k \in Stmt : /\ WF_connection(part = "postgres" /\ DrainTimeout(k))
                       /\ WF_connection(part = "postgres" /\ ReadFails(k))
    /\ WF_mysql(part = "mysql" /\ Mysql!ServerSends)
    /\ WF_mysql(part = "mysql" /\ Mysql!ReceiveQuery)
    /\ WF_mysql(part = "mysql" /\ Mysql!ReceivePing)
    /\ WF_mysql(part = "mysql" /\ Mysql!ReceiveNobody)
    /\ \A k \in Query : WF_mysql(part = "mysql" /\ (Mysql!Take(k) \/ Mysql!TakeLast(k)))
    /\ WF_worked(part = "session" /\ Session!SecondEnds)
    /\ \A b \in Browse : /\ WF_worked(part = "session" /\ Session!BrowseTurn(b))
                         /\ WF_worked(part = "session" /\ Session!BrowseGoes(b))
                         /\ WF_worked(part = "session" /\ Session!BrowseAnswered(b))
    /\ \A k \in Commands : WF_redis(part = "redis" /\ Redis!Reads(k))
    /\ \A j \in Job : WF_spares(part = "second" /\ Second!Goes(j))
    /\ WF_spares(part = "second" /\ Second!Connects)
    /\ WF_spares(part = "second" /\ Second!CloseEnds)
    /\ WF_searched(part = "topology" /\ Topology!Searches)
    /\ WF_pump(part = "pump" /\ \E n \in 1 .. PumpChunk : Pump!Data(n))
    /\ WF_pump(part = "pump" /\ Pump!ServerCloses)

Drivers ==
    /\ Begins
    /\ [][Steps]_<<part, vars, mysql, sessions, redis, mongo, spares, topology, pump>>
    /\ Fair

\* A MySQL connection runs one command at a time, and each query reads the packets of its
\* own answer; the replies of a Redis connection go to who asked, as long as none was given up
\* half-read, and leave it free for the next, unless somebody walked away from its rows without
\* stopping them: then it stays busy, and nobody else gets them; a MongoDB statement leaves no cursor behind, and is stopped by nobody else's stop.
\* A slow consumer costs a bounded buffer, and the socket paused for it is resumed before
\* anyone waits for it. The search for the MongoDB server leaves nothing open but what it
\* found, and finds the primary of a replica set that keeps it.
EachInStep ==
    /\ Mysql!TypeOK /\ Mysql!OwnAnswers /\ Mysql!OneCommand
    /\ Mysql!PausedHasReader /\ Mysql!BufferBounded
    /\ Redis!TypeOK /\ Redis!RepliesAreOwn /\ Redis!FreeForTheNext
    /\ Mongo!TypeOK /\ Mongo!CursorsGo /\ Mongo!OnlyOwnStopped
    /\ Topology!TypeOK /\ Topology!NothingLeftOpen /\ Topology!PrimaryIsFound
    /\ Pump!TypeOK /\ Pump!NobodyWaitsAsleep /\ Pump!BufferBounded

\* A session uses its second connection for one thing at a time, for kills that strike what
\* they were meant for and for reads of the database they are about, and makes none once it
\* was closed.
SecondInTurn ==
    /\ [](Session!TypeOK /\ Session!BrowseInTurn /\ Session!OnlyOwnInterrupted)
    /\ Session!NoSecondAfterClose
    /\ [](Second!SecondTypeOK /\ Second!JobsInTurn /\ Second!RightDatabase)
    /\ [](Mongo!JobsInTurn)
    /\ Second!NoneAfterClose

\* What is asked of the connection that runs, and what answers it: a statement whose consumer
\* walked away, a consumer that reads, a statement that keeps the connection, a metadata query,
\* a search for a server, a parser that waits for bytes.
Mine(n) == IF n \in {1, 3} THEN q1 ELSE q2
Row(n) == IF n = 1 THEN b1 ELSE b2
Asking(n) ==
    CASE part = "postgres" -> n \in Stmt /\ stmt[n] = "draining"
      [] part = "mysql" -> IF n <= 2 THEN query[Mine(n)].reader = "reading" ELSE current = Mine(n)
      [] part = "session" -> n <= 2 /\ browse[Row(n)] = "queued"
      [] part = "redis" -> n <= 3 /\ command[n] = "reading"
      [] part = "second" -> n <= 3 /\ jobs[n] = "queued"
      [] part = "topology" -> n = 1
      [] part = "pump" -> n = 1 /\ filling = "waiting"
      [] OTHER -> FALSE
Told(n) ==
    CASE part = "postgres" -> n \in Stmt /\ stmt[n] = "over"
      [] part = "mysql" -> IF n <= 2 THEN query[Mine(n)].reader # "reading" ELSE current # Mine(n)
      [] part = "session" -> n <= 2 /\ browse[Row(n)] \in {"done", "failed"}
      [] part = "redis" -> n <= 3 /\ command[n] = "over"
      [] part = "second" -> n <= 3 /\ jobs[n] \in {"done", "failed"}
      [] part = "topology" -> searchResult # "searching"
      [] part = "pump" -> filling # "waiting"
      [] OTHER -> TRUE

\* Statements, their consumers, metadata queries, the jobs of a second connection, a search
\* and a parser that waits are told how they ended, also when one walks away; and a session
\* that is closed is left without a second connection.
EveryoneIsTold == (\A n \in 1..4 : Asking(n) ~> Told(n)) /\ Second!NoneIsLeft
=============================================================================
