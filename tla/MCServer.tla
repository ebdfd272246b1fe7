------------------------------ MODULE MCServer ------------------------------
(* Instances of the parts of the server and of its tools for TLC. They share *)
(* no state here: a behaviour exercises one of them, named by part, whose    *)
(* variables are held in r1, r2, ... in the order of their declaration; the  *)
(* other registers stay 0. Live: the parts whose liveness matters. Safe: the *)
(* parts of which only safety is asked. The Fair actions join, for each part, *)
(* an action it is fair to.                                                  *)
EXTENDS Naturals, Sequences, FiniteSets, TLC

CONSTANTS NoCall, NoTimer, NoJob

VARIABLES part, r1, r2, r3, r4, r5, r6, r7, r8, r9, r10, r11, r12, r13, r14, r15, r16, r17, r18, r19,
          r20

allvars == <<part, r1, r2, r3, r4, r5, r6, r7, r8, r9, r10, r11, r12, r13, r14, r15, r16, r17, r18, r19,
             r20>>

\* Two written keys of one flattened key ("a:b" and ["a", "b"]) and two more; inverse
\* orders, and a repeated key.
MCKeys == {"a:b", "[a,b]", "c", "d"}
MCFlat == [k \in MCKeys |-> CASE k = "c" -> 2 [] k = "d" -> 3 [] OTHER -> 1]
MCCalls == {"one", "two", "three"}
MCRequest == [c \in MCCalls |->
    CASE c = "one" -> <<"a:b", "c">> [] c = "two" -> <<"c", "[a,b]">> [] c = "three" -> <<"d", "c", "d">>]

-----------------------------------------------------------------------------
\* Schemas of the migrations: table t with variants of its key, an enum or a key to itself,
\* and table u with a key to t.
Small(auto) == [type |-> "int", vals |-> <<>>, nullable |-> FALSE, auto |-> auto, def |-> "none"]
Big(auto) == [Small(auto) EXCEPT !.type = "big"]
Maybe(col) == [col EXCEPT !.nullable = TRUE]
Enum(vals, def) == [type |-> "enum", vals |-> vals, nullable |-> TRUE, auto |-> FALSE, def |-> def]
NoTable == [cols |-> <<>>, pk |-> {}, idx |-> <<>>, fks |-> <<>>]
Only(id, pk) == [cols |-> "id" :> id, pk |-> pk, idx |-> <<>>, fks |-> <<>>]
Both(id, a, pk, idx, fks) == [cols |-> "id" :> id @@ "a" :> a, pk |-> pk, idx |-> idx, fks |-> fks]
OnA(v) == "a" :> v
ToT == [table |-> "t", col |-> "id"]
MCT == {NoTable, Only(Small(TRUE), {"id"}), Only(Big(TRUE), {"id"}), Only(Big(FALSE), {"id"}), Only(Small(FALSE), {"id"}),
        Both(Small(FALSE), Small(FALSE), {"id", "a"}, <<>>, <<>>), Both(Small(FALSE), Small(TRUE), {"a"}, <<>>, <<>>),
        Both(Small(TRUE), Enum(<<1>>, "none"), {"id"}, <<>>, <<>>), Both(Small(TRUE), Enum(<<1, 2>>, "two"), {"id"}, <<>>, <<>>),
        Both(Small(FALSE), Enum(<<2>>, "two"), {"id"}, <<>>, <<>>),
        Both(Small(FALSE), Maybe(Small(FALSE)), {"id"}, <<>>, OnA(ToT)),
        Both(Small(TRUE), Maybe(Small(FALSE)), {"id"}, <<>>, OnA(ToT)),
        Both(Big(TRUE), Maybe(Big(FALSE)), {"id"}, OnA(TRUE), OnA(ToT))}
MCU == {NoTable, Both(Small(FALSE), Small(FALSE), {"id"}, <<>>, OnA(ToT)), Both(Small(FALSE), Big(FALSE), {"id"}, <<>>, OnA(ToT)),
        Both(Small(FALSE), Small(FALSE), {"id"}, OnA(TRUE), OnA(ToT)), Both(Small(FALSE), Small(FALSE), {"id"}, <<>>, <<>>)}
MCSchemas == {"t" :> t @@ "u" :> u @@ "v" :> NoTable : t \in MCT, u \in MCU}

-----------------------------------------------------------------------------
\* Texts sent to the database: all the short ones, and longer ones in which a quote is escaped.
MCTexts ==
    UNION {[1..n -> {"x", "nl", ";", "quote", "backslash", "--", "/*", "*/", "$$", "?", "$1", "$2", "ddl"}] : n \in 0..4}
    \cup [1..6 -> {"quote", "backslash", ";", "ddl"}]

-----------------------------------------------------------------------------
\* Controllers whose routes overlap: literals against parameters at each position.
Get(segments) == [method |-> "get", segments |-> segments]
MCRoutes == [a |-> <<Get(<<"a", "param">>), Get(<<"a">>), Get(<<"">>)>>,
             b |-> <<Get(<<"a", "b">>), [method |-> "post", segments |-> <<"a", "param">>]>>,
             c |-> <<Get(<<"param", "b">>), Get(<<"a", "param">>), Get(<<"param">>)>>,
             d |-> <<Get(<<"param", "param">>), Get(<<"param", "b", "a">>), Get(<<"a", "param", "param">>)>>]

\* Field names that build the same value in different shapes, and decoded JSON payloads.
Prop(k) == <<"property", k>>
Index(n) == <<"index", n>>
Push == <<"append", 0>>
MCNames == {<<Prop("a")>>, <<Prop("a"), Push>>, <<Prop("a"), Index(0)>>, <<Prop("a"), Index(1)>>, <<Prop("a"), Prop("b")>>,
            <<Prop("a"), Index(0), Prop("b")>>, <<Prop("a"), Index(3)>>, <<Prop("a"), Push, Prop("b")>>, <<Prop("c"), Push>>,
            <<Prop("a"), Prop("b"), Prop("b"), Prop("b")>>, <<<<"unsafe", "x">>>>}
Leaf(p) == [path |-> p, kind |-> "leaf"]
Obj(p) == [path |-> p, kind |-> "object"]
Arr(p) == [path |-> p, kind |-> "indexed-array"]
MCPayloads == {{}, {Leaf(<<Prop("a")>>)}, {Obj(<<Prop("a")>>)},
               {Arr(<<Prop("a")>>), Leaf(<<Prop("a"), Index(0)>>), Leaf(<<Prop("a"), Index(1)>>)},
               {Obj(<<Prop("a")>>), Leaf(<<Prop("a"), Prop("b")>>)}, {Obj(<<Prop("a")>>), Leaf(<<Prop("a"), Prop("c")>>)}}

-----------------------------------------------------------------------------
\* Wirings of three modules, 0 importing 1 importing 2: providers of every scope and kind
\* that depend on one another, and exports that hide or show them.
Needs(t) == [token |-> t, optional |-> FALSE]
Wants(t) == [token |-> t, optional |-> TRUE]
Provider(scope, kind, deps) == {[scope |-> scope, kind |-> kind, deps |-> deps]}
Plain == {{}, Provider("singleton", "class", <<>>)}
MCTokens == {"a", "b", "c"}
As == Plain \cup {Provider("singleton", "class", <<Needs("b")>>), Provider("singleton", "class", <<Needs("b"), Wants("c")>>)}
Bs == Plain \cup {Provider("transient", "existing", <<Needs("c")>>), Provider("transient", "class", <<Needs("c")>>),
                  Provider("transient", "class", <<Needs("a")>>)}
Cs == Plain \cup {Provider("request", "class", <<>>), Provider("request", "class", <<Needs("b")>>)}
ImportedBs == {{}, Provider("transient", "class", <<Needs("c")>>), Provider("singleton", "class", <<Needs("c")>>)}
MCWirings ==
    {[local |-> 0 :> ("a" :> a @@ "b" :> b @@ "c" :> c)
             @@ 1 :> ("a" :> {} @@ "b" :> b1 @@ "c" :> c1)
             @@ 2 :> ("a" :> {} @@ "b" :> {} @@ "c" :> Provider("request", "class", <<>>)),
      exports |-> 0 :> {} @@ 1 :> x1 @@ 2 :> {"c"}] :
     a \in As, b \in Bs, c \in Cs, b1 \in ImportedBs, c1 \in Plain, x1 \in {{}, {"b"}, {"c"}}}
-----------------------------------------------------------------------------

Groups == INSTANCE MutexGroup WITH
    Calls <- MCCalls, Keys <- MCKeys, Flat <- MCFlat, Request <- MCRequest, Free <- NoCall,
    holder <- r1, phase <- r2, index <- r3, aborted <- r4, didWait <- r5, failing <- r6
Recorder == INSTANCE WorkerRecorder WITH
    Timers <- {1, 2, 3, 4}, MaxStops <- 3, retentionRunning <- r1, armed <- r2,
    retentionTimer <- r3, batches <- r4, retentionTask <- r5, callbacks <- r6, stops <- r7,
    Procs <- {1, 2}, Jobs <- {3}, OptOut <- {}, MaxStarts <- 2, MaxLosses <- 1, MaxFaults <- 1,
    unfinished <- r1, terminal <- r2, db <- r3, leading <- r4, token <- r5, pending <- r6,
    observer <- r7, starts <- r8, drains <- r9, tasks <- r10, events <- r11, stopping <- r12,
    awaited <- r13, quiet <- r14, losses <- r15, faults <- r16
Database == INSTANCE BaseDatabase WITH
    Transactions <- {"t", "u", "v"}, Raws <- {"r"}, PoolSize <- 2, MaxFaults <- 3, pc <- r1,
    conn <- r2, succeeded <- r3, runs <- r4, table <- r5, faults <- r6,
    Texts <- MCTexts, text <- r1, dialect <- r2, i <- r3, mode <- r4, start <- r5, index <- r6,
    current <- r7, statements <- r8
Sessions == INSTANCE MysqlSessionManager WITH
    Suites <- {1, 2}, Frontends <- {1, 2, 3}, SuiteOf <- <<1, 1, 2>>, PoolSize <- 1,
    MaxSlots <- 2, MaxRuns <- 1, MaxFaults <- 1, slot <- r1, queue <- r2, waiters <- r3,
    slotWaiters <- r4, rows <- r5, stack <- r6, suite <- r7, mine <- r8, fe <- r9, runs <- r10,
    faults <- r11
App == INSTANCE AppLifecycle WITH
    Callers <- {"a", "b"}, MaxListens <- 2, MaxFaults <- 2, started <- r1, listen <- r2,
    server <- r3, bound <- r4, worker <- r5, cleanups <- r6, drains <- r7, ran <- r8, stop <- r9,
    full <- r10, calls <- r11, early <- r12, listens <- r13, faults <- r14
Redis == INSTANCE RedisClients WITH
    MaxClients <- 3, MaxApps <- 3, MaxLosses <- 3, clients <- r1, status <- r2, ending <- r3,
    recovering <- r4, tracked <- r5, timer <- r6, quitting <- r7, app <- r8, phase <- r9,
    cleanups <- r10, owner <- r11, held <- r12, reset <- r13, up <- r14, losses <- r15,
    Procs <- {1, 2}, MaxRuntimes <- 2, MaxCalls <- 2, runtime <- r1, made <- r2, open <- r3,
    reconnectTimer <- r4, disposed <- r5, calls <- r6, inbox <- r7, ran <- r8, Conns <- {1, 2},
    WarningAfter <- 1, AlertAfter <- 3, MaxTime <- 9, ready <- r1, now <- r2, unavailableAt <- r3,
    warningTimer <- r4, alertTimer <- r5, warned <- r6, alerted <- r7, stopped <- r8,
    outage <- r9, reported <- r10
Http == INSTANCE HttpServer WITH
    MaxChanges <- 3, MaxFaults <- 1, files <- r1, seen <- r2, closed <- r3, requested <- r4,
    inProgress <- r5, reloadTimer <- r6, reading <- r7, context <- r8, failed <- r9,
    faults <- r10, Servers <- {"v", "w"}, Sockets <- {1, 2}, MaxInstalls <- 3, count <- r1,
    users <- r2, installs <- r3, handling <- r4, onPath <- r5, socket <- r6, verifying <- r7,
    claimed <- r8, patched <- r9, timer <- r10, foreign <- r11, answers <- r12, plan <- r1,
    todo <- r2, ended <- r3, committed <- r4, destroyed <- r5, native <- r6, heads <- r7,
    owned <- r8, cleaned <- r9, log <- r10, answered <- r11, invoked <- r12
Build == INSTANCE DevBuild WITH
    Runs <- {1, 2}, Builds <- {3}, MaxEdits <- 2, MaxDeaths <- 1, Broken <- {2}, pc <- r1,
    reads <- r2, baseline <- r3, src <- r4, config <- r5, dist <- r6, built <- r7, ready <- r8,
    pids <- r9, lock <- r10, deaths <- r11, unseen <- r12
UnitOfWork == INSTANCE DatabaseSession WITH
    Objects <- {"a", "b"}, Rows <- {1, 2}, MaxOps <- 3, EditsInFlush <- FALSE, pc <- r1,
    key <- r2, rows0 <- r3, rows <- r4, value <- r5, orig <- r6, queued <- r7, managed <- r8,
    removed <- r9, touched <- r10, inserted <- r11, muts <- r12, qmuts <- r13, saved <- r14,
    fl <- r15, pend <- r16, errors <- r17, hooks <- r18, seen <- r19, ops <- r20
Migration == INSTANCE Migrations WITH
    Tables <- <<"t", "u", "v">>, Columns <- <<"id", "a">>, Schemas <- MCSchemas,
    Dialects <- {"mysql", "postgres"}, Scopes <- {{"t", "u", "v"}, {"t", "u"}, {"t"}, {"u"}},
    dialect <- r1, scope <- r2, current <- r3, entity <- r4, plan <- r5, db <- r6, refused <- r7,
    Runners <- {1, 2}, LastMigration <- 3, MaxRuns <- 4, MaxFaults <- 2, at <- r1, pending <- r2,
    recorded <- r3, applied <- r4, partial <- r5, lost <- r6, met <- r7, runs <- r8, faults <- r9
Tests == INSTANCE TestIsolation WITH
    Txs <- {"t", "u"}, Overlap <- FALSE, MaxSuites <- 2, MaxTests <- 3, MaxFaults <- 1,
    useSavepoints <- r1, suiteSeed <- r2, phase <- r3, shared <- r4, own <- r5, config <- r6,
    acquire <- r7, conn <- r8, content <- r9, transactionStack <- r10, savepointId <- r11,
    tx <- r12, order <- r13, fresh <- r14, stranded <- r15, count <- r16
Request == INSTANCE HttpRequest WITH
    Controllers <- DOMAIN MCRoutes, Methods <- {"get", "post"}, RoutesOf <- MCRoutes,
    Param <- "param", Literals <- {"a", "b", ""}, MaxSegments <- 4, routes <- r1,
    dispatchRoutes <- r2, routePatterns <- r3, restricted <- r4, tried <- r5,
    Readers <- {1, 2, 3}, MaxBodyBytes <- 2, MaxCompressedBodyBytes <- 1, MaxBytes <- 3,
    from <- r1, encoding <- r2, rawBytes <- r3, bytes <- r4, declared <- r5, body <- r6,
    bodyRead <- r7, streamAttached <- r8, bodyGuardBypass <- r9, reader <- r10
Upload == INSTANCE Multipart WITH
    Names <- MCNames, Payloads <- MCPayloads, FormFiles <- {<<Prop("a")>>, <<Prop("f")>>},
    MaxFormFields <- 4, MaxFormDepth <- 3, MaxFormArrayIndex <- 2, MaxFields <- 3, nodes <- r1,
    structureCount <- r2, formStage <- r3, error <- r4, body <- r5, added <- r6,
    Chunks <- <<3, 4, 1>>, Typed <- {1, 3}, MaxSize <- 3, SampleSize <- 2, part <- r1,
    parser <- r2, write <- r3, got <- r4, held <- r5, disk <- r6, validated <- r7,
    multipartError <- r8, stage <- r9
Runner == INSTANCE WorkerRunner WITH
    MaxJobs <- 3, MaxStarts <- 2, jobs <- r1, queue <- r2, running <- r3, timers <- r4,
    executing <- r5, drain <- r6, shutdown <- r7, starts <- r8, Seconds <- 3, Minutes <- 2,
    Days <- 3, Weekdays <- 2, MaxMinutes <- 13, Horizon <- 12, now <- r1, cron <- r2, result <- r3,
    Keys <- {"kept", "gone", "lost", "fresh", "ext"}, OldKeys <- {"kept", "gone", "lost"},
    NewKeys <- {"kept", "fresh"}, Foreign <- {"ext"}, MaxRuns <- 3, schedulers <- r1,
    pending <- r2, pc <- r3, found <- r4, stale <- r5, active <- r6, oldRuns <- r7
DI == INSTANCE Container WITH
    Tokens <- MCTokens, Modules <- 0..2, Imports <- (0 :> <<1>> @@ 1 :> <<2>> @@ 2 :> <<>>),
    Wirings <- MCWirings, MaxContexts <- 1, MaxGets <- 2, wiring <- r1, singletons <- r2,
    instances <- r3, stack <- r4, context <- r5, answer <- r6, gets <- r7
Console == INSTANCE DevConsole WITH
    Queries <- {"p", "q", "r"}, Mutexes <- {"m"}, Capacity <- 2, MaxClears <- 1, MaxCloses <- 1,
    query <- r1, mutex <- r2, installed <- r3, heap <- r4, dbQueries <- r5, dbQueriesById <- r6,
    pushed <- r7, activeMutexes <- r8, clears <- r9, closes <- r10,
    Callers <- {1, 2}, MaxSockets <- 4, sockets <- r1, armed <- r2, ws <- r3, isConnected <- r4,
    intentionalDisconnect <- r5, reconnectTimer <- r6, pingInterval <- r7, intervals <- r8,
    ready <- r9, resolved <- r10, caller <- r11, awaited <- r12,
    Runners <- {1, 2}, MaxLocks <- 4, MaxFaults <- 1, pc <- r1, op <- r2, local <- r3, mine <- r4,
    life <- r5, app <- r6, lock <- r7, file <- r8, locks <- r9, faults <- r10, stolen <- r11

\* What the proofs assume of the constants holds of the instance checked here.
ASSUME ProvedOfTheInstance == Groups!MutexAssumption

\* The registers that a part of so many variables leaves alone.
rest3 == <<r4, r5, r6, r7, r8, r9, r10, r11, r12, r13, r14, r15, r16, r17, r18, r19, r20>>
rest5 == <<r6, r7, r8, r9, r10, r11, r12, r13, r14, r15, r16, r17, r18, r19, r20>>
rest6 == <<r7, r8, r9, r10, r11, r12, r13, r14, r15, r16, r17, r18, r19, r20>>
rest7 == <<r8, r9, r10, r11, r12, r13, r14, r15, r16, r17, r18, r19, r20>>
rest8 == <<r9, r10, r11, r12, r13, r14, r15, r16, r17, r18, r19, r20>>
rest9 == <<r10, r11, r12, r13, r14, r15, r16, r17, r18, r19, r20>>
rest10 == <<r11, r12, r13, r14, r15, r16, r17, r18, r19, r20>>
rest11 == <<r12, r13, r14, r15, r16, r17, r18, r19, r20>>
rest12 == <<r13, r14, r15, r16, r17, r18, r19, r20>>
rest14 == <<r15, r16, r17, r18, r19, r20>>
rest15 == <<r16, r17, r18, r19, r20>>
rest16 == <<r17, r18, r19, r20>>

-----------------------------------------------------------------------------
InitLive ==
    \/ part = "mutexes" /\ Groups!Init
       /\ r7 = 0 /\ r8 = 0 /\ r9 = 0 /\ r10 = 0 /\ r11 = 0 /\ r12 = 0 /\ r13 = 0 /\ r14 = 0
       /\ r15 = 0 /\ r16 = 0 /\ r17 = 0 /\ r18 = 0 /\ r19 = 0 /\ r20 = 0
    \/ part = "retention" /\ Recorder!InitRetention
       /\ r8 = 0 /\ r9 = 0 /\ r10 = 0 /\ r11 = 0 /\ r12 = 0 /\ r13 = 0 /\ r14 = 0 /\ r15 = 0
       /\ r16 = 0 /\ r17 = 0 /\ r18 = 0 /\ r19 = 0 /\ r20 = 0
    \/ part = "recorder" /\ Recorder!Init
       /\ r17 = 0 /\ r18 = 0 /\ r19 = 0 /\ r20 = 0
    \/ part = "cron" /\ Runner!InitSchedulers
       /\ r8 = 0 /\ r9 = 0 /\ r10 = 0 /\ r11 = 0 /\ r12 = 0 /\ r13 = 0 /\ r14 = 0 /\ r15 = 0
       /\ r16 = 0 /\ r17 = 0 /\ r18 = 0 /\ r19 = 0 /\ r20 = 0
    \/ part = "pool" /\ Database!Init
       /\ r7 = 0 /\ r8 = 0 /\ r9 = 0 /\ r10 = 0 /\ r11 = 0 /\ r12 = 0 /\ r13 = 0 /\ r14 = 0
       /\ r15 = 0 /\ r16 = 0 /\ r17 = 0 /\ r18 = 0 /\ r19 = 0 /\ r20 = 0
    \/ part = "mysql" /\ Sessions!Init
       /\ r12 = 0 /\ r13 = 0 /\ r14 = 0 /\ r15 = 0 /\ r16 = 0 /\ r17 = 0 /\ r18 = 0 /\ r19 = 0
       /\ r20 = 0
    \/ part = "app" /\ App!Init
       /\ r15 = 0 /\ r16 = 0 /\ r17 = 0 /\ r18 = 0 /\ r19 = 0 /\ r20 = 0
    \/ part = "redis" /\ Redis!Init
       /\ r16 = 0 /\ r17 = 0 /\ r18 = 0 /\ r19 = 0 /\ r20 = 0
    \/ part = "tls" /\ Http!InitTls
       /\ r11 = 0 /\ r12 = 0 /\ r13 = 0 /\ r14 = 0 /\ r15 = 0 /\ r16 = 0 /\ r17 = 0 /\ r18 = 0
       /\ r19 = 0 /\ r20 = 0
    \/ part = "http" /\ Http!InitExchange
       /\ r13 = 0 /\ r14 = 0 /\ r15 = 0 /\ r16 = 0 /\ r17 = 0 /\ r18 = 0 /\ r19 = 0 /\ r20 = 0
    \/ part = "build" /\ Build!Init
       /\ r13 = 0 /\ r14 = 0 /\ r15 = 0 /\ r16 = 0 /\ r17 = 0 /\ r18 = 0 /\ r19 = 0 /\ r20 = 0

NextLive ==
    \/ part = "mutexes" /\ Groups!Next /\ UNCHANGED <<part, rest6>>
    \/ part = "retention" /\ Recorder!NextRetention /\ UNCHANGED <<part, rest7>>
    \/ part = "recorder" /\ Recorder!Next /\ UNCHANGED <<part, rest16>>
    \/ part = "cron" /\ Runner!NextSchedulers /\ UNCHANGED <<part, rest7>>
    \/ part = "pool" /\ Database!Next /\ UNCHANGED <<part, rest6>>
    \/ part = "mysql" /\ Sessions!Next /\ UNCHANGED <<part, rest11>>
    \/ part = "app" /\ App!Next /\ UNCHANGED <<part, rest14>>
    \/ part = "redis" /\ Redis!Next /\ UNCHANGED <<part, rest15>>
    \/ part = "tls" /\ Http!NextTls /\ UNCHANGED <<part, rest10>>
    \/ part = "http" /\ Http!NextExchange /\ UNCHANGED <<part, rest12>>
    \/ part = "build" /\ Build!Next /\ UNCHANGED <<part, rest12>>

LiveFair1 ==
    \/ part = "mutexes" /\ Groups!Progress /\ UNCHANGED <<part, rest6>>
    \/ part = "retention" /\ Recorder!ProgressRetention /\ UNCHANGED <<part, rest7>>
    \/ part = "recorder" /\ Recorder!Progress /\ UNCHANGED <<part, rest16>>
    \/ part = "cron" /\ Runner!ProgressSchedulers /\ UNCHANGED <<part, rest7>>
    \/ part = "pool" /\ Database!Next /\ UNCHANGED <<part, rest6>>
    \/ part = "mysql" /\ Sessions!Progress /\ UNCHANGED <<part, rest11>>
    \/ part = "app" /\ App!Progress /\ UNCHANGED <<part, rest14>>
    \/ part = "redis" /\ Redis!Progress /\ UNCHANGED <<part, rest15>>
    \/ part = "tls" /\ Http!ProgressTls /\ UNCHANGED <<part, rest10>>
    \/ part = "http" /\ Http!ProgressExchange /\ UNCHANGED <<part, rest12>>
    \/ part = "build" /\ Build!Progress /\ UNCHANGED <<part, rest12>>

LiveFair2 ==
    \/ part = "cron" /\ Runner!Occurrence("kept") /\ UNCHANGED <<part, rest7>>
    \/ part = "redis" /\ Redis!ServerReturns /\ UNCHANGED <<part, rest15>>

LiveFair3 ==
    \/ part = "cron" /\ Runner!Occurrence("gone") /\ UNCHANGED <<part, rest7>>

LiveFair4 ==
    \/ part = "cron" /\ Runner!Occurrence("lost") /\ UNCHANGED <<part, rest7>>

LiveFair5 ==
    \/ part = "cron" /\ Runner!Occurrence("fresh") /\ UNCHANGED <<part, rest7>>

SpecLive == /\ InitLive /\ [][NextLive]_allvars
            /\ WF_allvars(LiveFair1)
            /\ WF_allvars(LiveFair2)
            /\ WF_allvars(LiveFair3)
            /\ WF_allvars(LiveFair4)
            /\ WF_allvars(LiveFair5)


\* Whoever waits is served: grouped mutex calls settle although they name keys
\* in inverse orders, a running retention loop purges again and again, terminal
\* jobs are recorded and removed unless a call failed, every suite and frontend
\* gets its database slot, every stop() returns, and a lost Redis client is
\* connected again.
NobodyWaitsForever == []<>(
    /\ part = "mutexes" => Groups!AllSettled
    /\ part = "retention" => Recorder!Purging
    /\ part = "recorder" => Recorder!Drained
    /\ part = "mysql" => ~Sessions!SomebodyWaits
    /\ part = "app" => App!Returned
    /\ part = "redis" => Redis!Recovered)


-----------------------------------------------------------------------------
InitSafe ==
    \/ part = "session" /\ UnitOfWork!Init
    \/ part = "sql" /\ Database!InitSplit
       /\ r9 = 0 /\ r10 = 0 /\ r11 = 0 /\ r12 = 0 /\ r13 = 0 /\ r14 = 0 /\ r15 = 0 /\ r16 = 0
       /\ r17 = 0 /\ r18 = 0 /\ r19 = 0 /\ r20 = 0
    \/ part = "plan" /\ Migration!Init
       /\ r8 = 0 /\ r9 = 0 /\ r10 = 0 /\ r11 = 0 /\ r12 = 0 /\ r13 = 0 /\ r14 = 0 /\ r15 = 0
       /\ r16 = 0 /\ r17 = 0 /\ r18 = 0 /\ r19 = 0 /\ r20 = 0
    \/ part = "migrations" /\ Migration!InitRun
       /\ r10 = 0 /\ r11 = 0 /\ r12 = 0 /\ r13 = 0 /\ r14 = 0 /\ r15 = 0 /\ r16 = 0 /\ r17 = 0
       /\ r18 = 0 /\ r19 = 0 /\ r20 = 0
    \/ part = "tests" /\ Tests!Init
       /\ r17 = 0 /\ r18 = 0 /\ r19 = 0 /\ r20 = 0
    \/ part = "routes" /\ Request!InitRoutes
       /\ r6 = 0 /\ r7 = 0 /\ r8 = 0 /\ r9 = 0 /\ r10 = 0 /\ r11 = 0 /\ r12 = 0 /\ r13 = 0
       /\ r14 = 0 /\ r15 = 0 /\ r16 = 0 /\ r17 = 0 /\ r18 = 0 /\ r19 = 0 /\ r20 = 0
    \/ part = "form" /\ Upload!InitForm
       /\ r7 = 0 /\ r8 = 0 /\ r9 = 0 /\ r10 = 0 /\ r11 = 0 /\ r12 = 0 /\ r13 = 0 /\ r14 = 0
       /\ r15 = 0 /\ r16 = 0 /\ r17 = 0 /\ r18 = 0 /\ r19 = 0 /\ r20 = 0
    \/ part = "uploads" /\ Upload!Init
       /\ r10 = 0 /\ r11 = 0 /\ r12 = 0 /\ r13 = 0 /\ r14 = 0 /\ r15 = 0 /\ r16 = 0 /\ r17 = 0
       /\ r18 = 0 /\ r19 = 0 /\ r20 = 0
    \/ part = "body" /\ Request!Init
       /\ r11 = 0 /\ r12 = 0 /\ r13 = 0 /\ r14 = 0 /\ r15 = 0 /\ r16 = 0 /\ r17 = 0 /\ r18 = 0
       /\ r19 = 0 /\ r20 = 0
    \/ part = "upgrade" /\ Http!Init
       /\ r13 = 0 /\ r14 = 0 /\ r15 = 0 /\ r16 = 0 /\ r17 = 0 /\ r18 = 0 /\ r19 = 0 /\ r20 = 0
    \/ part = "runner" /\ Runner!Init
       /\ r9 = 0 /\ r10 = 0 /\ r11 = 0 /\ r12 = 0 /\ r13 = 0 /\ r14 = 0 /\ r15 = 0 /\ r16 = 0
       /\ r17 = 0 /\ r18 = 0 /\ r19 = 0 /\ r20 = 0
    \/ part = "cron" /\ Runner!InitCron
       /\ r4 = 0 /\ r5 = 0 /\ r6 = 0 /\ r7 = 0 /\ r8 = 0 /\ r9 = 0 /\ r10 = 0 /\ r11 = 0
       /\ r12 = 0 /\ r13 = 0 /\ r14 = 0 /\ r15 = 0 /\ r16 = 0 /\ r17 = 0 /\ r18 = 0 /\ r19 = 0
       /\ r20 = 0
    \/ part = "publish" /\ Redis!InitBroadcast
       /\ r9 = 0 /\ r10 = 0 /\ r11 = 0 /\ r12 = 0 /\ r13 = 0 /\ r14 = 0 /\ r15 = 0 /\ r16 = 0
       /\ r17 = 0 /\ r18 = 0 /\ r19 = 0 /\ r20 = 0
    \/ part = "alerts" /\ Redis!InitMonitor
       /\ r11 = 0 /\ r12 = 0 /\ r13 = 0 /\ r14 = 0 /\ r15 = 0 /\ r16 = 0 /\ r17 = 0 /\ r18 = 0
       /\ r19 = 0 /\ r20 = 0
    \/ part = "container" /\ DI!Init
       /\ r8 = 0 /\ r9 = 0 /\ r10 = 0 /\ r11 = 0 /\ r12 = 0 /\ r13 = 0 /\ r14 = 0 /\ r15 = 0
       /\ r16 = 0 /\ r17 = 0 /\ r18 = 0 /\ r19 = 0 /\ r20 = 0
    \/ part = "state" /\ Console!InitState
       /\ r12 = 0 /\ r13 = 0 /\ r14 = 0 /\ r15 = 0 /\ r16 = 0 /\ r17 = 0 /\ r18 = 0 /\ r19 = 0
       /\ r20 = 0
    \/ part = "console" /\ Console!Init
       /\ r11 = 0 /\ r12 = 0 /\ r13 = 0 /\ r14 = 0 /\ r15 = 0 /\ r16 = 0 /\ r17 = 0 /\ r18 = 0
       /\ r19 = 0 /\ r20 = 0
    \/ part = "browser" /\ Console!InitBrowser
       /\ r13 = 0 /\ r14 = 0 /\ r15 = 0 /\ r16 = 0 /\ r17 = 0 /\ r18 = 0 /\ r19 = 0 /\ r20 = 0

NextSafe ==
    \/ part = "session" /\ UnitOfWork!Next /\ UNCHANGED part
    \/ part = "sql" /\ Database!NextSplit /\ UNCHANGED <<part, rest8>>
    \/ part = "plan" /\ Migration!Next /\ UNCHANGED <<part, rest7>>
    \/ part = "migrations" /\ Migration!NextRun /\ UNCHANGED <<part, rest9>>
    \/ part = "tests" /\ Tests!Next /\ UNCHANGED <<part, rest16>>
    \/ part = "routes" /\ Request!NextRoutes /\ UNCHANGED <<part, rest5>>
    \/ part = "form" /\ Upload!NextForm /\ UNCHANGED <<part, rest6>>
    \/ part = "uploads" /\ Upload!Next /\ UNCHANGED <<part, rest9>>
    \/ part = "body" /\ Request!Next /\ UNCHANGED <<part, rest10>>
    \/ part = "upgrade" /\ Http!Next /\ UNCHANGED <<part, rest12>>
    \/ part = "runner" /\ Runner!Next /\ UNCHANGED <<part, rest8>>
    \/ part = "cron" /\ Runner!NextCron /\ UNCHANGED <<part, rest3>>
    \/ part = "publish" /\ Redis!NextBroadcast /\ UNCHANGED <<part, rest8>>
    \/ part = "alerts" /\ Redis!NextMonitor /\ UNCHANGED <<part, rest10>>
    \/ part = "container" /\ DI!Next /\ UNCHANGED <<part, rest7>>
    \/ part = "state" /\ Console!NextState /\ UNCHANGED <<part, rest11>>
    \/ part = "console" /\ Console!Next /\ UNCHANGED <<part, rest10>>
    \/ part = "browser" /\ Console!NextBrowser /\ UNCHANGED <<part, rest12>>

SpecSafe == /\ InitSafe /\ [][NextSafe]_allvars



=============================================================================
