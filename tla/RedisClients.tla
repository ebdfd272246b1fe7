---------------------------- MODULE RedisClients ----------------------------
(* The Redis clients that the framework creates: each recovers from any loss   *)
(* of its connection until somebody closes it, belongs to the application that *)
(* created it, and may be held by a helper (Cache and the like) that must let  *)
(* go of it before the next application starts.                                *)
EXTENDS Integers, Sequences, FiniteSets

CONSTANTS MaxClients,  \* bound on clients created
          MaxApps,     \* bound on application lifetimes
          MaxLosses    \* bound on lost connections and refused attempts

Clients == 1..MaxClients

VARIABLES
    clients,    \* how many exist
    status,     \* ioredis: "connecting", "ready", "end"
    ending,     \* ioredis: closed clients whose end event is not emitted yet
    recovering, \* recoveringClients
    tracked,    \* allClients: a cleanup of the owner is registered
    timer,      \* clients with a retry timer
    quitting,   \* closeRedisClient() awaits QUIT
    app,        \* the number of the current application
    phase,      \* "up", "stopping", "down"
    cleanups,   \* its registered cleanups: <<kind, client>>
    owner,      \* the application of each client
    held,       \* defaultRedisConnection, 0 for none
    reset,      \* clients whose resetOnce() is still pending
    up,         \* the server accepts connections
    losses

vars == <<clients, status, ending, recovering, tracked, timer, quitting, app, phase, cleanups, owner, held, reset, up, losses>>
state_vars == <<app, phase, owner, clients>>

Init == /\ clients = 0 /\ status = [c \in Clients |-> "none"] /\ ending = {} /\ recovering = {} /\ tracked = {}
        /\ timer = {} /\ quitting = {} /\ app = 1 /\ phase = "up" /\ cleanups = <<>>
        /\ owner = [c \in Clients |-> 0] /\ held = 0 /\ reset = {} /\ up = TRUE /\ losses = 0

Loss == losses < MaxLosses /\ losses' = losses + 1
Unregistered(list, item) == SelectSeq(list, LAMBDA i : i # item)

-----------------------------------------------------------------------------
\* Mutant: only the client's end event lets go of it.
RegisteredEnd(c) == Append(cleanups, <<"close", c>>)

\* What a client and its holder register with the application: the reset runs first.
Registered(c) == cleanups \o <<<<"close", c>>, <<"reset", c>>>>

\* getDefaultRedisConnection() of a helper that is used for the first time.
Create ==
    /\ held = 0 /\ phase = "up" /\ clients < MaxClients
    /\ LET c == clients + 1
       IN  /\ clients' = c /\ held' = c /\ status' = [status EXCEPT ![c] = "connecting"]
           /\ recovering' = recovering \cup {c} /\ tracked' = tracked \cup {c} /\ owner' = [owner EXCEPT ![c] = app]
           /\ cleanups' = Registered(c) /\ reset' = reset \cup {c}
    /\ UNCHANGED <<ending, timer, quitting, app, phase, up, losses>>

Connected(c) ==
    /\ status[c] = "connecting" /\ up /\ status' = [status EXCEPT ![c] = "ready"] /\ timer' = timer \ {c}
    /\ UNCHANGED <<state_vars, ending, recovering, tracked, quitting, cleanups, held, reset, up, losses>>

\* The connection breaks and ioredis tries again by itself, or gives up.
Lost(c, to) ==
    /\ status[c] \in {"connecting", "ready"} /\ Loss /\ status' = [status EXCEPT ![c] = to]
    /\ ending' = IF to = "end" THEN ending \cup {c} ELSE ending
    /\ UNCHANGED <<state_vars, recovering, tracked, timer, quitting, cleanups, held, reset, up>>

Outage == /\ Loss /\ up' = ~up
          /\ UNCHANGED <<state_vars, status, ending, recovering, tracked, timer, quitting, cleanups, held, reset>>

ServerReturns == /\ ~up /\ up' = TRUE
                 /\ UNCHANGED <<state_vars, status, ending, recovering, tracked, timer, quitting, cleanups, held, reset, losses>>


\* Mutant: a client that ioredis gives up waits for the next command.
ScheduleRetryNever(c, rec) == timer' = timer

\* scheduleRetry(): only a client that recovers.
ScheduleRetry(c, rec) == timer' = IF rec THEN timer \cup {c} ELSE timer

\* The end event: a client that was closed leaves the registry, one that recovers is retried;
\* handleEnd() of registerRedisStateReset() resets the holder of a closed one.
End(c) ==
    /\ c \in ending /\ ending' = ending \ {c}
    /\ LET rec == c \in recovering
           letGo == ~rec /\ c \in reset
       IN  /\ ScheduleRetry(c, rec /\ status[c] = "end")
           /\ tracked' = IF rec THEN tracked ELSE tracked \ {c}
           /\ reset' = IF letGo THEN reset \ {c} ELSE reset
           /\ held' = IF letGo /\ held = c THEN 0 ELSE held
           /\ cleanups' = IF rec THEN cleanups
                          ELSE Unregistered(Unregistered(cleanups, <<"close", c>>), IF letGo THEN <<"reset", c>> ELSE <<>>)
    /\ UNCHANGED <<state_vars, status, recovering, quitting, up, losses>>

\* reconnect(), by the timer or by a command.
Reconnect(c) ==
    /\ c \in timer \/ (c = held /\ phase = "up")
    /\ c \notin ending
    /\ timer' = timer \ {c}
    /\ status' = IF c \in recovering /\ status[c] = "end" THEN [status EXCEPT ![c] = "connecting"] ELSE status
    /\ UNCHANGED <<state_vars, ending, recovering, tracked, quitting, cleanups, held, reset, up, losses>>

-----------------------------------------------------------------------------
\* stop() and disconnect(): recovery ends, the client closes.
Closed(c) ==
    /\ recovering' = recovering \ {c} /\ timer' = timer \ {c} /\ tracked' = tracked \ {c}
    /\ ending' = IF status[c] = "end" THEN ending ELSE ending \cup {c}
    /\ status' = [status EXCEPT ![c] = "end"]

\* closeRedisClient(): QUIT for a client that is ready, disconnect() for another.
Close(c) ==
    IF status[c] = "ready"
    THEN /\ quitting' = quitting \cup {c} /\ recovering' = recovering \ {c} /\ timer' = timer \ {c}
         /\ UNCHANGED <<status, ending, tracked>>
    ELSE Closed(c) /\ UNCHANGED quitting

\* The end of closeRedisClient(): QUIT is answered, fails, or takes too long.
QuitEnds(c) ==
    /\ c \in quitting /\ quitting' = quitting \ {c} /\ Closed(c)
    /\ cleanups' = Unregistered(cleanups, <<"close", c>>)
    /\ UNCHANGED <<state_vars, held, reset, up, losses>>

\* disconnectAllRedis(), or an owner that closes its client early.
DisconnectEarly(c) ==
    /\ phase = "up" /\ c \in tracked \ quitting /\ Close(c)
    /\ cleanups' = IF status[c] = "ready" THEN cleanups ELSE Unregistered(cleanups, <<"close", c>>)
    /\ UNCHANGED <<state_vars, held, reset, up, losses>>

AppStops == /\ phase = "up" /\ app < MaxApps /\ phase' = "stopping"
            /\ UNCHANGED <<clients, status, ending, recovering, tracked, timer, quitting, app, cleanups, owner, held, reset, up, losses>>

\* runRegisteredCleanups(): the latest first, and it waits for each.
Cleanup ==
    /\ phase = "stopping" /\ quitting = {}
    /\ \/ /\ cleanups = <<>> /\ phase' = "down"
          /\ UNCHANGED <<cleanups, held, reset, status, ending, recovering, tracked, timer, quitting>>
       \/ /\ cleanups # <<>> /\ UNCHANGED phase
          /\ LET item == cleanups[Len(cleanups)]
                 c == item[2]
             IN  /\ cleanups' = SubSeq(cleanups, 1, Len(cleanups) - 1)
                 /\ IF item[1] = "reset"
                    THEN /\ held' = (IF held = c THEN 0 ELSE held) /\ reset' = reset \ {c}
                         /\ UNCHANGED <<status, ending, recovering, tracked, timer, quitting>>
                    ELSE Close(c) /\ UNCHANGED <<held, reset>>
    /\ UNCHANGED <<clients, app, owner, up, losses>>

NextApp == /\ phase = "down" /\ phase' = "up" /\ app' = app + 1
           /\ UNCHANGED <<clients, status, ending, recovering, tracked, timer, quitting, cleanups, owner, held, reset, up, losses>>

Events(c) == Connected(c) \/ End(c) \/ (c \in timer /\ Reconnect(c)) \/ QuitEnds(c)

Next == \/ Create \/ Outage \/ ServerReturns \/ AppStops \/ Cleanup \/ NextApp
        \/ \E c \in Clients : \/ Connected(c) \/ \E to \in {"connecting", "end"} : Lost(c, to)
                              \/ End(c) \/ Reconnect(c) \/ QuitEnds(c) \/ DisconnectEarly(c)

\* The server comes back, ioredis emits its events and timers fire.
Progress == Cleanup \/ \E c \in Clients : Events(c)

Spec == Init /\ [][Next]_vars
FairSpec == Spec /\ WF_vars(ServerReturns) /\ WF_vars(Progress)

-----------------------------------------------------------------------------
\* A helper never holds a client of an application that is gone, although the end event of
\* that client comes late (registerRedisStateReset()).
HeldIsCurrent == (held # 0 /\ phase # "stopping") => owner[held] = app

\* An application that has stopped leaves no client: none is registered, retried or about to
\* reconnect (closeRedisClient(), stop(), scheduleRetry()).
StoppedLeavesNoClient ==
    \A c \in 1..clients : (owner[c] < app \/ (owner[c] = app /\ phase = "down")) =>
        status[c] = "end" /\ c \notin tracked \cup timer \cup recovering

\* A client that nobody closes gets its connection back once losses and outages end, even after
\* ioredis has given up.
Recovered == \A c \in recovering : status[c] = "ready"
ClientRecovers == []<>Recovered

-----------------------------------------------------------------------------
(* The broadcast channel that the processes of an application share: two       *)
(* Redis clients per process that are replaced together when either is closed, *)
(* and distributed methods, which run locally and are published to the peers.  *)

CONSTANTS Procs,
          MaxRuntimes,  \* bound on pairs of clients of a process
          MaxCalls      \* bound on calls of the distributed method

VARIABLES
    runtime,    \* activeRuntime: its number, 0 for none
    made,       \* pairs of clients made
    open,       \* clients that are not closed: <<proc, number, "pub" or "sub">>
    reconnectTimer,      \* reconnectTimer
    disposed,
    calls,      \* the callers of the calls made
    inbox,      \* messages not delivered yet: <<call, client>>
    ran         \* how often a call ran in a process

varsBroadcast == <<runtime, made, open, reconnectTimer, disposed, calls, inbox, ran>>
net_vars == <<calls, inbox, ran>>

InitBroadcast == /\ runtime = [p \in Procs |-> 1] /\ made = [p \in Procs |-> 1] /\ open = Procs \X {1} \X {"pub", "sub"}
                 /\ reconnectTimer = [p \in Procs |-> FALSE] /\ disposed = [p \in Procs |-> FALSE]
                 /\ calls = <<>> /\ inbox = {} /\ ran = [k \in (1..MaxCalls) \X Procs |-> 0]

\* connect(): the runtime there is, or a new one.
Connect(p) ==
    IF runtime[p] # 0 THEN UNCHANGED <<runtime, made, open, reconnectTimer>>
    ELSE /\ made[p] < MaxRuntimes /\ made' = [made EXCEPT ![p] = @ + 1] /\ runtime' = [runtime EXCEPT ![p] = made'[p]]
         /\ open' = open \cup {<<p, made'[p], k>> : k \in {"pub", "sub"}}
         /\ reconnectTimer' = [reconnectTimer EXCEPT ![p] = FALSE]

\* One of the clients is closed: by somebody who closes all clients, say.
ClientCloses(p, k) ==
    /\ runtime[p] # 0 /\ ~disposed[p] /\ <<p, runtime[p], k>> \in open /\ open' = open \ {<<p, runtime[p], k>>}
    /\ UNCHANGED <<runtime, made, reconnectTimer, disposed, net_vars>>

\* Mutant: the other client of the pair stays.
StateResetHalf(p) ==
    /\ runtime[p] # 0 /\ ~disposed[p] /\ \E k \in {"pub", "sub"} : <<p, runtime[p], k>> \notin open
    /\ runtime' = [runtime EXCEPT ![p] = 0] /\ reconnectTimer' = [reconnectTimer EXCEPT ![p] = TRUE]
    /\ UNCHANGED <<made, open, disposed, net_vars>>

\* The reset of registerRedisStateReset(), at the end event of either client.
StateReset(p) ==
    /\ runtime[p] # 0 /\ ~disposed[p] /\ \E k \in {"pub", "sub"} : <<p, runtime[p], k>> \notin open
    /\ runtime' = [runtime EXCEPT ![p] = 0] /\ reconnectTimer' = [reconnectTimer EXCEPT ![p] = TRUE]
    /\ open' = {c \in open : ~(c[1] = p /\ c[2] = runtime[p])}
    /\ UNCHANGED <<made, disposed, net_vars>>

\* scheduleReconnect()
ReconnectTimer(p) ==
    /\ reconnectTimer[p] /\ (disposed[p] \/ runtime[p] # 0 \/ made[p] < MaxRuntimes) /\ reconnectTimer' = [reconnectTimer EXCEPT ![p] = FALSE]
    /\ IF disposed[p] \/ runtime[p] # 0 THEN UNCHANGED <<runtime, made, open>>
       ELSE /\ made' = [made EXCEPT ![p] = @ + 1] /\ runtime' = [runtime EXCEPT ![p] = made'[p]]
            /\ open' = open \cup {<<p, made'[p], k>> : k \in {"pub", "sub"}}
    /\ UNCHANGED <<disposed, net_vars>>

\* The cleanup on shutdown, before the clients' own.
Dispose(p) ==
    /\ ~disposed[p] /\ disposed' = [disposed EXCEPT ![p] = TRUE] /\ reconnectTimer' = [reconnectTimer EXCEPT ![p] = FALSE]
    /\ runtime' = [runtime EXCEPT ![p] = 0] /\ open' = {c \in open : c[1] # p}
    /\ UNCHANGED <<made, net_vars>>

-----------------------------------------------------------------------------
\* onMessage() skips what this process has published.
LocalInstance(p, call) == p = calls[call]

\* A distributed method is called: it runs here, and is published if the client is open, to
\* every subscriber.
Call(p) ==
    /\ Len(calls) < MaxCalls /\ ~disposed[p] /\ Connect(p) /\ calls' = Append(calls, p)
    /\ ran' = [ran EXCEPT ![Len(calls'), p] = @ + 1]
    /\ inbox' = IF <<p, runtime'[p], "pub">> \in open' THEN inbox \cup ({Len(calls')} \X {c \in open' : c[3] = "sub"}) ELSE inbox
    /\ UNCHANGED disposed

\* onMessage(), unless the client is closed by now.
OnMessage(m) ==
    /\ inbox' = inbox \ {m}
    /\ LET p == m[2][1]
       IN  ran' = IF m[2] \notin open \/ LocalInstance(p, m[1]) THEN ran ELSE [ran EXCEPT ![m[1], p] = @ + 1]
    /\ UNCHANGED <<runtime, made, open, reconnectTimer, disposed, calls>>

NextBroadcast == \/ \E p \in Procs : \/ StateReset(p) \/ ReconnectTimer(p) \/ Dispose(p) \/ Call(p)
                                     \/ \E k \in {"pub", "sub"} : ClientCloses(p, k)
                 \/ \E m \in inbox : OnMessage(m)

SpecBroadcast == InitBroadcast /\ [][NextBroadcast]_varsBroadcast

-----------------------------------------------------------------------------
\* However often the pair of clients is replaced, a call runs at most once in every process and
\* exactly once in the one that makes it: a process never has two subscriptions, and does not
\* hear itself (registerRedisStateReset(), onMessage()).
CallsRunOnce ==
    \A k \in 1..Len(calls), p \in Procs : ran[k, p] <= 1 /\ ran[k, calls[k]] = 1

-----------------------------------------------------------------------------
(* createAvailabilityMonitor() as the worker runner uses it: the Redis clients *)
(* of its BullMQ workers report outages to one monitor, which warns, then      *)
(* alerts when an outage lasts, and reports the recovery.                      *)

CONSTANTS Conns,        \* the command and blocking clients of the workers
          WarningAfter, AlertAfter,
          MaxTime       \* bound on the clock

VARIABLES
    ready,          \* clients whose status is ready
    now,
    unavailableAt,  \* -1 for undefined
    warningTimer, alertTimer,   \* when they fire, -1 for none
    warned, alerted, stopped,
    outage,         \* history: since when some client has been down, -1 when none is
    reported        \* history: the outage is reported and its recovery is not

varsMonitor == <<ready, now, unavailableAt, warningTimer, alertTimer, warned, alerted, stopped, outage, reported>>

InitMonitor == /\ ready = Conns /\ now = 0 /\ unavailableAt = -1 /\ warningTimer = -1 /\ alertTimer = -1
               /\ warned = FALSE /\ alerted = FALSE /\ stopped = FALSE /\ outage = -1 /\ reported = FALSE

\* Mutant: every report starts the timers anew.
UnavailableAgain ==
    IF stopped THEN UNCHANGED <<unavailableAt, warningTimer, alertTimer>>
    ELSE unavailableAt' = now /\ warningTimer' = now + WarningAfter /\ alertTimer' = now + AlertAfter

\* unavailable(): the first report of an outage starts both timers.
Unavailable ==
    IF stopped \/ unavailableAt # -1 THEN UNCHANGED <<unavailableAt, warningTimer, alertTimer>>
    ELSE unavailableAt' = now /\ warningTimer' = now + WarningAfter /\ alertTimer' = now + AlertAfter

\* reconnecting, or an error of a worker whose clients are not ready.
OnUnavailable(c) ==
    /\ c \in ready /\ ready' = ready \ {c} /\ outage' = IF outage = -1 THEN now ELSE outage
    /\ Unavailable
    /\ UNCHANGED <<now, warned, alerted, stopped, reported>>

\* reportWarning(), by its timer or before an alert.
Warned == warned' = TRUE /\ reported' = TRUE /\ warningTimer' = -1

ReportWarning ==
    /\ warningTimer = now /\ UNCHANGED <<ready, now, unavailableAt, alertTimer, alerted, stopped, outage>>
    /\ IF stopped \/ unavailableAt = -1 \/ warned THEN warningTimer' = -1 /\ UNCHANGED <<warned, reported>> ELSE Warned

ReportUnavailable ==
    /\ alertTimer = now /\ alertTimer' = -1 /\ UNCHANGED <<ready, now, unavailableAt, stopped, outage>>
    /\ IF stopped \/ unavailableAt = -1 \/ alerted THEN UNCHANGED <<warned, alerted, warningTimer, reported>>
       ELSE alerted' = TRUE /\ Warned

\* available(): the recovery is reported when the outage was.
Available ==
    IF stopped \/ unavailableAt = -1 THEN UNCHANGED <<unavailableAt, warningTimer, alertTimer, warned, alerted, reported>>
    ELSE /\ unavailableAt' = -1 /\ warningTimer' = -1 /\ alertTimer' = -1 /\ warned' = FALSE /\ alerted' = FALSE
         /\ reported' = (reported /\ ~warned)

\* ready: the workers are available only when every client is.
OnReady(c) ==
    /\ c \notin ready /\ ready' = ready \cup {c} /\ outage' = IF ready' = Conns THEN -1 ELSE outage
    /\ IF ready' = Conns THEN Available
       ELSE UNCHANGED <<unavailableAt, warningTimer, alertTimer, warned, alerted, reported>>
    /\ UNCHANGED <<now, stopped>>

StopMonitor ==
    /\ ~stopped /\ stopped' = TRUE /\ warningTimer' = -1 /\ alertTimer' = -1
    /\ UNCHANGED <<ready, now, unavailableAt, warned, alerted, outage, reported>>

\* Timers that are due fire before the clock goes on.
Tick == /\ now < MaxTime /\ now \notin {warningTimer, alertTimer} /\ now' = now + 1
        /\ UNCHANGED <<ready, unavailableAt, warningTimer, alertTimer, warned, alerted, stopped, outage, reported>>

NextMonitor == \/ ReportWarning \/ ReportUnavailable \/ StopMonitor \/ Tick
               \/ \E c \in Conns : OnUnavailable(c) \/ OnReady(c)

SpecMonitor == InitMonitor /\ [][NextMonitor]_varsMonitor

-----------------------------------------------------------------------------
\* An alert is raised exactly for an outage that has lasted, without a moment in which
\* everything was ready, as long as the alert waits; an outage that was reported stays so until
\* its recovery is reported, and a recovery is never reported for an outage that was not
\* (createAvailabilityMonitor()).
AlertsAreEarned ==
    ~stopped => /\ alerted <=> (outage # -1 /\ (now > outage + AlertAfter \/ (now = outage + AlertAfter /\ alertTimer = -1)))
                /\ reported <=> warned
=============================================================================
