---------------------------- MODULE DevConsole -----------------------------
(***************************************************************************)
(* The store of the development console (src/src/devconsole/store.ts) as   *)
(* the observers of observers.ts feed it: a ring buffer of queries with an *)
(* index by query, and a map of active mutexes beside their history.       *)
(* Queries and mutexes go on whether or not the console observes them, and *)
(* outlive their entries in the rings.                                     *)
(*                                                                         *)
(* An entry is an object: the ring and the index refer to it, and a        *)
(* completion changes it in place.  The histories of mutexes, SRPC         *)
(* messages and HTTP requests are the same ring without an index and are   *)
(* left out.                                                               *)
(*                                                                         *)
(* The end of the module is the other side: the client of the console's    *)
(* page (devconsole/src/srpc-client.ts, ws.ts), which keeps a socket.      *)
(***************************************************************************)
EXTENDS Integers, Sequences, FiniteSets

CONSTANTS
    Queries, Mutexes,
    Capacity,       \* of the ring buffer of queries
    MaxClears,      \* bound: clearDatabaseQueries() calls
    MaxCloses,      \* bound: close() calls of the runtime
    Callers,        \* of invoke() in the browser
    MaxSockets      \* bound on the sockets the browser opens

VARIABLES
    query,          \* query[q]: "idle", "running" or "finished"
    mutex,          \* mutex[m]: "idle", "pending", "held" or "ended"
    installed,      \* the observers are registered
    heap,           \* the entries ever created
    dbQueries,      \* the ring buffer: buffer, head and count
    dbQueriesById,  \* the index: an entry, or 0
    pushed,         \* entries pushed since the last clear
    activeMutexes,
    clears, closes

vars == <<query, mutex, installed, heap, dbQueries, dbQueriesById, pushed,
          activeMutexes, clears, closes>>

world == <<query, mutex>>
queries == <<heap, dbQueries, dbQueriesById, pushed>>

-----------------------------------------------------------------------------
\* RingBuffer

EmptyRing == [buffer |-> [i \in 0 .. (Capacity - 1) |-> 0], head |-> 0, count |-> 0]

EvictedBy(ring) == IF ring.count = Capacity THEN ring.buffer[ring.head] ELSE 0

Push(ring, item) ==
    [buffer |-> [ring.buffer EXCEPT ![ring.head] = item],
     head |-> (ring.head + 1) % Capacity,
     count |-> IF ring.count < Capacity THEN ring.count + 1 ELSE ring.count]

\* From the oldest to the latest.
ToArray(ring) ==
    LET first == IF ring.count < Capacity THEN 0 ELSE ring.head
    IN [i \in 1 .. ring.count |-> ring.buffer[(first + i - 1) % Capacity]]

Init ==
    /\ query = [q \in Queries |-> "idle"]
    /\ mutex = [m \in Mutexes |-> "idle"]
    /\ installed = TRUE
    /\ heap = <<>> /\ dbQueries = EmptyRing /\ pushed = <<>>
    /\ dbQueriesById = [q \in Queries |-> 0]
    /\ activeMutexes = {}
    /\ clears = 0 /\ closes = 0

-----------------------------------------------------------------------------
\* Mutant: the entry that is evicted stays in the index.
EnterKeepsEvicted(q, status) ==
    LET entry == Len(heap) + 1
    IN /\ heap' = Append(heap, [id |-> q, status |-> status])
       /\ dbQueries' = Push(dbQueries, entry)
       /\ dbQueriesById' = [dbQueriesById EXCEPT ![q] = entry]
       /\ pushed' = Append(pushed, entry)

\* A new entry enters the ring and the index; the one it evicts leaves both.
Enter(q, status) ==
    LET entry == Len(heap) + 1
        evicted == EvictedBy(dbQueries)
        kept == IF evicted = 0 THEN dbQueriesById
                ELSE [dbQueriesById EXCEPT ![heap[evicted].id] = 0]
    IN /\ heap' = Append(heap, [id |-> q, status |-> status])
       /\ dbQueries' = Push(dbQueries, entry)
       /\ dbQueriesById' = [kept EXCEPT ![q] = entry]
       /\ pushed' = Append(pushed, entry)

\* completeDatabaseQuery(): an entry no longer indexed is entered again.
CompleteDatabaseQuery(q) ==
    IF dbQueriesById[q] # 0
    THEN /\ heap' = [heap EXCEPT ![dbQueriesById[q]].status = "finished"]
         /\ UNCHANGED <<dbQueries, dbQueriesById, pushed>>
    ELSE Enter(q, "finished")

QueryStarts(q) ==
    /\ query[q] = "idle"
    /\ query' = [query EXCEPT ![q] = "running"]
    /\ IF installed THEN Enter(q, "running") ELSE UNCHANGED queries
    /\ UNCHANGED <<mutex, installed, activeMutexes, clears, closes>>

QueryFinishes(q) ==
    /\ query[q] = "running"
    /\ query' = [query EXCEPT ![q] = "finished"]
    /\ IF installed THEN CompleteDatabaseQuery(q) ELSE UNCHANGED queries
    /\ UNCHANGED <<mutex, installed, activeMutexes, clears, closes>>

ClearDatabaseQueries ==
    /\ clears < MaxClears
    /\ clears' = clears + 1
    /\ dbQueries' = EmptyRing /\ pushed' = <<>>
    /\ dbQueriesById' = [q \in Queries |-> 0]
    /\ UNCHANGED <<world, installed, heap, activeMutexes, closes>>

-----------------------------------------------------------------------------
\* recordMutexObservation()

MutexStep(m, from, to, active) ==
    /\ mutex[m] = from
    /\ mutex' = [mutex EXCEPT ![m] = to]
    /\ activeMutexes' = IF installed THEN active ELSE activeMutexes
    /\ UNCHANGED <<query, installed, queries, clears, closes>>

MutexPending(m) == MutexStep(m, "idle", "pending", activeMutexes \cup {m})

\* updateMutexAcquired() changes the entry in place.
MutexAcquired(m) == MutexStep(m, "pending", "held", activeMutexes)

\* updateMutexReleased(), updateMutexError()
MutexReleased(m) == MutexStep(m, "held", "ended", activeMutexes \ {m})

\* addMutexFailed() adds to the history only.
MutexFailed(m) == MutexStep(m, "pending", "ended", activeMutexes)

-----------------------------------------------------------------------------
\* DevConsoleRuntime: close() removes the observers and keeps the store, which
\* a later start() goes on with.

Close ==
    /\ installed /\ closes < MaxCloses
    /\ installed' = FALSE /\ closes' = closes + 1
    /\ UNCHANGED <<world, queries, activeMutexes, clears>>

Start ==
    /\ ~installed /\ installed' = TRUE
    /\ UNCHANGED <<world, queries, activeMutexes, clears, closes>>

Next ==
    \/ \E q \in Queries : QueryStarts(q) \/ QueryFinishes(q)
    \/ ClearDatabaseQueries
    \/ \E m \in Mutexes :
           MutexPending(m) \/ MutexAcquired(m) \/ MutexReleased(m) \/ MutexFailed(m)
    \/ Close \/ Start

Spec == Init /\ [][Next]_vars

-----------------------------------------------------------------------------
Shown == ToArray(dbQueries)

\* The ring shows the latest entries in order, the index names exactly the
\* entries the ring holds, no query is shown twice, and one that has ended
\* while the console observed it is not shown as running: also after its
\* entry was evicted or cleared while it ran.
HistoryIsExact ==
    LET older == IF Len(pushed) > Capacity THEN Len(pushed) - Capacity ELSE 0 IN
    /\ Shown = SubSeq(pushed, older + 1, Len(pushed))
    /\ \A q \in Queries :
         dbQueriesById[q] # 0 <=> \E i \in DOMAIN Shown : Shown[i] = dbQueriesById[q]
    /\ \A i, j \in DOMAIN Shown : heap[Shown[i]].id = heap[Shown[j]].id => i = j
    /\ closes = 0 =>
         \A i \in DOMAIN Shown : heap[Shown[i]].status = query[heap[Shown[i]].id]

\* A mutex shown as active is waited for or held. The code does not keep this:
\* an acquisition that is aborted or times out is never reported as over.
ActiveMutexesAreLive ==
    closes = 0 => \A m \in activeMutexes : mutex[m] \in {"pending", "held"}

-----------------------------------------------------------------------------
(* SrpcBrowserClient, and the promise of ws.ts its callers wait on.  The close *)
(* event of a socket comes when it likes, so that timers and newer sockets may *)
(* come first; all events of all sockets work on the same fields.              *)

VARIABLES
    sockets,        \* per socket ever opened: "connecting", "open", "active" (handshake complete), "closing", "closed"
    armed,          \* sockets whose connectTimeout is armed
    ws,             \* the socket in use, 0 for none
    isConnected, intentionalDisconnect,
    reconnectTimer,
    pingInterval,   \* the socket whose activation set it, 0 for none
    intervals,      \* the intervals that run
    ready,          \* the number of the current readyPromise
    resolved,       \* the promises that are resolved
    caller,         \* per caller: "idle", "waiting", "pending", "done"
    awaited         \* per caller: the promise it waits on, 0 for none

browserVars == <<sockets, armed, ws, isConnected, intentionalDisconnect, reconnectTimer, pingInterval, intervals, ready,
                 resolved, caller, awaited>>
lifecycle == <<armed, ws, isConnected, intentionalDisconnect, reconnectTimer, pingInterval, intervals, ready, resolved>>

InitBrowser ==
    /\ sockets = <<>> /\ armed = {} /\ ws = 0 /\ isConnected = FALSE /\ intentionalDisconnect = FALSE
    /\ reconnectTimer = FALSE /\ pingInterval = 0 /\ intervals = {} /\ ready = 1 /\ resolved = {}
    /\ caller = [c \in Callers |-> "idle"] /\ awaited = [c \in Callers |-> 0]

Closing(k) == [i \in DOMAIN sockets |-> IF i = k /\ sockets[i] # "closed" THEN "closing" ELSE sockets[i]]

\* connect(), called by the page or by the timer; a socket in use is closed.
Connect ==
    /\ Len(sockets) < MaxSockets
    /\ sockets' = Append(Closing(ws), "connecting")
    /\ ws' = Len(sockets) + 1 /\ armed' = armed \cup {ws'}
    /\ intentionalDisconnect' = FALSE

PageConnects ==
    /\ Connect
    /\ UNCHANGED <<isConnected, reconnectTimer, pingInterval, intervals, ready, resolved, caller, awaited>>

ReconnectFires ==
    /\ reconnectTimer /\ reconnectTimer' = FALSE /\ Connect
    /\ UNCHANGED <<isConnected, pingInterval, intervals, ready, resolved, caller, awaited>>

Opens(k) ==
    /\ sockets[k] = "connecting" /\ sockets' = [sockets EXCEPT ![k] = "open"]
    /\ UNCHANGED <<lifecycle, caller, awaited>>

\* The message that completes the handshake; the connection handlers resolve the promise.
Activated(k) ==
    /\ sockets[k] = "open" /\ sockets' = [sockets EXCEPT ![k] = "active"]
    /\ armed' = armed \ {k} /\ isConnected' = TRUE
    /\ pingInterval' = k /\ intervals' = intervals \cup {k}
    /\ resolved' = resolved \cup {ready}
    /\ UNCHANGED <<ws, intentionalDisconnect, reconnectTimer, ready, caller, awaited>>

ConnectTimeout(k) ==
    /\ k \in armed /\ armed' = armed \ {k}
    /\ sockets' = Closing(k) /\ reconnectTimer' = TRUE
    /\ UNCHANGED <<ws, isConnected, intentionalDisconnect, pingInterval, intervals, ready, resolved, caller, awaited>>

\* The server or the network ends a socket; its close event follows.
Drops(k) ==
    /\ sockets[k] \in {"connecting", "open", "active"} /\ sockets' = Closing(k)
    /\ UNCHANGED <<lifecycle, caller, awaited>>

\* doPingPong(): no pong for too long closes the socket in use.
PongTimeout ==
    /\ intervals # {} /\ ws # 0 /\ sockets[ws] # "closing" /\ sockets' = Closing(ws)
    /\ UNCHANGED <<lifecycle, caller, awaited>>

\* Mutant: a connection that never came up is not tried again.
HandleDisconnectOnce ==
    /\ pingInterval' = 0 /\ intervals' = intervals \ {pingInterval}
    /\ isConnected' = FALSE /\ ws' = 0
    /\ caller' = [c \in Callers |-> IF caller[c] = "pending" THEN "done" ELSE caller[c]]
    /\ ready' = IF isConnected THEN ready + 1 ELSE ready
    /\ reconnectTimer' = (reconnectTimer \/ (isConnected /\ ~intentionalDisconnect))
HandleDisconnect ==
    /\ pingInterval' = 0 /\ intervals' = intervals \ {pingInterval}
    /\ isConnected' = FALSE /\ ws' = 0
    /\ caller' = [c \in Callers |-> IF caller[c] = "pending" THEN "done" ELSE caller[c]]
    /\ ready' = IF isConnected THEN ready + 1 ELSE ready
    /\ reconnectTimer' = (reconnectTimer \/ ~intentionalDisconnect)

OnClose(k) ==
    /\ sockets[k] = "closing" /\ sockets' = [sockets EXCEPT ![k] = "closed"]
    /\ armed' = armed \ {k} /\ HandleDisconnect
    /\ UNCHANGED <<intentionalDisconnect, resolved, awaited>>

Disconnect ==
    /\ intentionalDisconnect' = TRUE /\ reconnectTimer' = FALSE
    /\ pingInterval' = 0 /\ intervals' = intervals \ {pingInterval}
    /\ sockets' = Closing(ws)
    /\ UNCHANGED <<armed, ws, isConnected, ready, resolved, caller, awaited>>

\* invoke() of the client: without an open socket it rejects at once.
Send == IF ws # 0 /\ sockets[ws] \in {"open", "active"} THEN "pending" ELSE "done"

\* invoke() of ws.ts waits until the connection is established.
Invoke(c) ==
    /\ caller[c] = "idle"
    /\ caller' = [caller EXCEPT ![c] = "waiting"] /\ awaited' = [awaited EXCEPT ![c] = ready]
    /\ UNCHANGED <<sockets, lifecycle>>

Woken(c) ==
    /\ caller[c] = "waiting" /\ awaited[c] \in resolved /\ caller' = [caller EXCEPT ![c] = Send]
    /\ UNCHANGED <<sockets, lifecycle, awaited>>

\* The reply, or the timeout of the request.
Settles(c) ==
    /\ caller[c] = "pending" /\ caller' = [caller EXCEPT ![c] = "done"]
    /\ UNCHANGED <<sockets, lifecycle, awaited>>

NextBrowser ==
    \/ PageConnects \/ ReconnectFires \/ PongTimeout \/ Disconnect
    \/ \E k \in DOMAIN sockets : Opens(k) \/ Activated(k) \/ ConnectTimeout(k) \/ Drops(k) \/ OnClose(k)
    \/ \E c \in Callers : Invoke(c) \/ Woken(c) \/ Settles(c)

\* A page that was not told to disconnect never sits there without a connection: it waits
\* for its reconnection, or uses a socket that its timeout, its ping or its close event
\* watches.  This survives close events of earlier sockets, which discard the one in use.
\* And nobody waits on a promise that was replaced before it was resolved.
PageRecovers ==
    /\ sockets # <<>> /\ ~intentionalDisconnect =>
         \/ reconnectTimer
         \/ /\ ws # 0
            /\ \/ ws \in armed \/ sockets[ws] = "closing"
               \/ sockets[ws] = "active" /\ pingInterval \in intervals
    /\ \A c \in Callers : caller[c] = "waiting" => awaited[c] \in resolved \cup {ready}
-----------------------------------------------------------------------------
(* The state file of tsf-dev (cli/dev-state.ts): every process of a project     *)
(* reads, changes and rewrites it under a lock file. A runner registers its run *)
(* and removes it when it ends; its application publishes and withdraws its     *)
(* endpoint; any command may prune what belongs to dead processes.              *)
(* The lock file is created first and its owner's PID is written into it next;  *)
(* a waiter that finds the owner dead, the file empty for long or no file at    *)
(* all unlinks whatever file is there.                                          *)

CONSTANTS Runners,  \* runners; the run of a runner has its name
          MaxLocks, \* lock files created
          MaxFaults \* deaths, stalls and timeouts

VARIABLES pc,     \* process -> where it is in updateDevState(), or "idle"
          op,     \* process -> the update it makes
          local,  \* process -> the state it read
          mine,   \* process -> the lock file it created, 0 without
          life,   \* runner -> "new", "registered" or "gone"
          app,    \* runner -> its application: "off", "up", "published"
          lock,   \* the lock file: [id, owner, filled], id = 0 without one
          file,   \* the state file: [pids, runs: runner -> "none" or "app"]
          locks,  \* lock files created so far
          faults,
          stolen  \* a lock file was removed while its owner was at work

varsState == <<pc, op, local, mine, life, app, lock, file, locks, faults, stolen>>

\* The processes: a runner, its application and one other command.
Runner(r) == <<"runner", r>>
App(r) == <<"app", r>>
Command == <<"command", 0>>
Procs == {Runner(r) : r \in Runners} \cup {App(r) : r \in Runners} \cup {Command}
IsRunner(p) == p[1] = "runner"
IsApp(p) == p[1] = "app"
NoLock == [id |-> 0, owner |-> Command, filled |-> FALSE]
Empty == [pids |-> {}, runs |-> <<>>]
Working == {"try", "fill", "read", "write", "release", "stale", "unlink"}

\* isPidAlive()
Alive(p) == pc[p] # "dead"
AppAlive(r) == app[r] # "off"

Without(runs, r) == [k \in DOMAIN runs \ {r} |-> runs[k]]
With(runs, r, v) == [k \in DOMAIN runs \cup {r} |-> IF k = r THEN v ELSE runs[k]]

-----------------------------------------------------------------------------
(* The updates.                                                               *)

LivePids(s) == {r \in s.pids : Alive(Runner(r))}
RegisterDevRun(s, r) == [pids |-> LivePids(s) \cup {r}, runs |-> With(s.runs, r, "none")]
UnregisterDevRun(s, r) == [pids |-> LivePids(s) \ {r}, runs |-> Without(s.runs, r)]
PublishDevConsoleEndpoint(s, r) == [pids |-> LivePids(s) \cup {r}, runs |-> With(s.runs, r, "app")]
\* The function publishDevConsoleEndpoint() returns.
Withdraw(s, r) == IF r \in DOMAIN s.runs /\ s.runs[r] = "app" THEN [s EXCEPT !.runs = With(@, r, "none")] ELSE s
\* Mutant: a run goes as soon as its application is down.
PruneDevStateApps(s) == [pids |-> LivePids(s), runs |-> [r \in {r \in DOMAIN s.runs : AppAlive(r)} |-> s.runs[r]]]
\* The application's entry goes with it, the run when the runner is dead too.
PruneDevState(s) ==
    [ pids |-> LivePids(s),
      runs |-> [r \in {r \in DOMAIN s.runs : Alive(Runner(r)) \/ (s.runs[r] = "app" /\ AppAlive(r))} |->
                   IF AppAlive(r) THEN s.runs[r] ELSE "none"] ]
Updated(p, s) == CASE op[p] = "register" -> RegisterDevRun(s, p[2])
                   [] op[p] = "unregister" -> UnregisterDevRun(s, p[2])
                   [] op[p] = "publish" -> PublishDevConsoleEndpoint(s, p[2])
                   [] op[p] = "withdraw" -> Withdraw(s, p[2])
                   [] OTHER -> PruneDevState(s)

InitState == /\ pc = [p \in Procs |-> "idle"] /\ op = [p \in Procs |-> "none"]
             /\ local = [p \in Procs |-> Empty] /\ mine = [p \in Procs |-> 0]
             /\ life = [r \in Runners |-> "new"] /\ app = [r \in Runners |-> "off"]
             /\ lock = NoLock /\ file = Empty /\ locks = 0 /\ faults = 0 /\ stolen = FALSE

Begins(p, o) == /\ pc[p] = "idle"
                /\ pc' = [pc EXCEPT ![p] = "try"] /\ op' = [op EXCEPT ![p] = o]
                /\ UNCHANGED <<local, mine, lock, file, locks, faults, stolen>>

\* cmdRun(): registers once, starts the application, unregisters when it closed.
Register(r) == life[r] = "new" /\ Begins(Runner(r), "register") /\ UNCHANGED <<life, app>>
StartApp(r) == /\ life[r] = "registered" /\ app[r] = "off" /\ pc[Runner(r)] = "idle" /\ pc[App(r)] = "idle"
               /\ app' = [app EXCEPT ![r] = "up"]
               /\ UNCHANGED <<pc, op, local, mine, life, lock, file, locks, faults, stolen>>
Publish(r) == app[r] = "up" /\ op[App(r)] # "withdraw" /\ Begins(App(r), "publish") /\ UNCHANGED <<life, app>>
StopApp(r) == app[r] = "published" /\ Begins(App(r), "withdraw") /\ UNCHANGED <<life, app>>
Unregister(r) == life[r] = "registered" /\ app[r] = "off" /\ Begins(Runner(r), "unregister") /\ UNCHANGED <<life, app>>
Prune == op[Command] = "none" /\ Begins(Command, "prune") /\ UNCHANGED <<life, app>>

-----------------------------------------------------------------------------
(* withStateLock()                                                            *)

Goes(p, to) == pc' = [pc EXCEPT ![p] = to]

\* writeFileSync(lockFile, flag wx): the file is created ...
TryLock(p) ==
    /\ pc[p] = "try"
    /\ \/ /\ lock.id = 0 /\ locks < MaxLocks
          /\ locks' = locks + 1 /\ lock' = [id |-> locks + 1, owner |-> p, filled |-> FALSE]
          /\ mine' = [mine EXCEPT ![p] = locks + 1] /\ Goes(p, "fill")
       \/ /\ lock.id # 0 /\ Goes(p, "stale") /\ UNCHANGED <<locks, lock, mine>>
    /\ UNCHANGED <<op, local, life, app, file, faults, stolen>>
\* ... and the PID is written into it, wherever its path is by then.
FillLock(p) ==
    /\ pc[p] = "fill" /\ Goes(p, "read")
    /\ lock' = IF lock.id = mine[p] THEN [lock EXCEPT !.filled = TRUE] ELSE lock
    /\ UNCHANGED <<op, local, mine, life, app, file, locks, faults, stolen>>

\* removeStaleLock(): the decision. An empty file is stale after 100 ms only.
RemoveStaleLock(p) ==
    /\ pc[p] = "stale"
    /\ \/ lock.id # 0 /\ (lock.filled => Alive(lock.owner)) /\ Goes(p, "try") /\ UNCHANGED faults
       \/ (lock.id = 0 \/ (lock.filled /\ ~Alive(lock.owner))) /\ Goes(p, "unlink") /\ UNCHANGED faults
       \/ /\ lock.id # 0 /\ ~lock.filled /\ Goes(p, "unlink")
          /\ IF Alive(lock.owner) THEN faults < MaxFaults /\ faults' = faults + 1 ELSE UNCHANGED faults
    /\ UNCHANGED <<op, local, mine, life, app, lock, file, locks, stolen>>
\* ... and the unlink, of the file that is there by then.
UnlinkStaleLock(p) ==
    /\ pc[p] = "unlink" /\ Goes(p, "try") /\ lock' = NoLock
    /\ stolen' = (stolen \/ (lock.id # 0 /\ Alive(lock.owner)))
    /\ UNCHANGED <<op, local, mine, life, app, file, locks, faults>>
\* The process has waited for two seconds: its update fails.
LockTimesOut(p) ==
    /\ pc[p] \in {"stale", "unlink"} /\ faults < MaxFaults
    /\ faults' = faults + 1 /\ Goes(p, "idle")
    /\ life' = IF IsRunner(p) THEN [life EXCEPT ![p[2]] = "gone"] ELSE life
    /\ app' = IF IsApp(p) THEN [app EXCEPT ![p[2]] = "off"] ELSE app
    /\ UNCHANGED <<op, local, mine, lock, file, locks, stolen>>

\* readDevState()
ReadState(p) == /\ pc[p] = "read" /\ Goes(p, "write") /\ local' = [local EXCEPT ![p] = file]
                /\ UNCHANGED <<op, mine, life, app, lock, file, locks, faults, stolen>>
\* writeDevState(): a temporary file renamed over the state file.
WriteState(p) == /\ pc[p] = "write" /\ Goes(p, "release") /\ file' = Updated(p, local[p])
                 /\ UNCHANGED <<op, local, mine, life, app, lock, locks, faults, stolen>>
\* The finally of withStateLock(): whatever lock file is there goes.
Release(p) ==
    /\ pc[p] = "release" /\ Goes(p, "idle") /\ lock' = NoLock
    /\ stolen' = (stolen \/ (lock.id # 0 /\ lock.id # mine[p] /\ Alive(lock.owner)))
    /\ mine' = [mine EXCEPT ![p] = 0] /\ local' = [local EXCEPT ![p] = Empty]
    /\ life' = IF IsRunner(p) THEN [life EXCEPT ![p[2]] = IF op[p] = "register" THEN "registered" ELSE "gone"] ELSE life
    /\ app' = IF IsApp(p) THEN [app EXCEPT ![p[2]] = IF op[p] = "publish" THEN "published" ELSE "off"] ELSE app
    /\ UNCHANGED <<op, file, locks, faults>>

\* A process is killed.
Die(p) == /\ pc[p] \in Working \cup {"idle"} /\ p # Command /\ faults < MaxFaults
          /\ faults' = faults + 1 /\ Goes(p, "dead")
          /\ life' = IF IsRunner(p) THEN [life EXCEPT ![p[2]] = "gone"] ELSE life
          /\ app' = IF IsApp(p) THEN [app EXCEPT ![p[2]] = "off"] ELSE app
          /\ UNCHANGED <<op, local, mine, lock, file, locks, stolen>>

NextState == \/ \E r \in Runners : Register(r) \/ StartApp(r) \/ Publish(r) \/ StopApp(r) \/ Unregister(r)
             \/ Prune
             \/ \E p \in Procs : \/ TryLock(p) \/ FillLock(p) \/ RemoveStaleLock(p) \/ UnlinkStaleLock(p) \/ LockTimesOut(p)
                                 \/ ReadState(p) \/ WriteState(p) \/ Release(p) \/ Die(p)

SpecState == InitState /\ [][NextState]_varsState

-----------------------------------------------------------------------------
Kept(r) == r \in file.pids /\ r \in DOMAIN file.runs

\* The test of dev-state.ts says that concurrent registrations are preserved: a
\* runner that lives and registered is in the state file until it unregisters.
\* The code keeps this only while no lock file is taken from a living process (StateSurvives).
RegistrationsKept == \A r \in Runners : (life[r] = "registered" /\ pc[Runner(r)] # "release" /\ Alive(Runner(r))) => Kept(r)

\* The same, and published applications are found, for as long as no lock file
\* is taken from a process at work: the updates of any number of processes,
\* their deaths at any point and the recovery of their locks lose nothing.
StateSurvives ==
    stolen \/ /\ RegistrationsKept
              /\ \A r \in Runners : (app[r] = "published" /\ pc[App(r)] = "idle") =>
                                        r \in DOMAIN file.runs /\ file.runs[r] = "app"
=============================================================================
