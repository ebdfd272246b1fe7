---------------------------- MODULE AppLifecycle ----------------------------
(* App.start(), stop() and HttpServerRuntime.listen() and close(): the steps   *)
(* of each, which one failure does not cut short, and any number of callers    *)
(* that stop the application at any time, shutdown callbacks included.         *)
EXTENDS Naturals, Sequences, FiniteSets

CONSTANTS Callers,     \* external callers of stop(), signals among them
          MaxListens,  \* bound on listen() calls
          MaxFaults    \* bound on steps that fail

VARIABLES
    started,
    listen,     \* listen(): "none", "bootstrap", "worker", "rollback", "bind", "after", "undo", "close", "up", "failed"
    server,     \* the socket: "none", "binding", "listening"
    bound,      \* this.server is set
    worker,     \* the worker runner runs
    cleanups,   \* registeredCleanups, the last one to run first
    drains,     \* shutdownDrains
    ran,        \* history: the cleanups of the latest stop, in order
    stop,       \* stopInternal(): "none" or the step it is in
    full,       \* stopInternal() found the application started
    calls,      \* who awaits stop(): callers, "listen", or "nested" for a shutdown callback
    early,      \* history: a stop began while listen() was starting, or its socket is still open
    listens, faults

vars == <<started, listen, server, bound, worker, cleanups, drains, ran, stop, full, calls, early, listens, faults>>
app_vars == <<started, worker, cleanups, drains, ran>>
stop_vars == <<stop, full, calls, early>>

Init == /\ started = FALSE /\ listen = "none" /\ server = "none" /\ bound = FALSE /\ worker = FALSE
        /\ cleanups = <<>> /\ drains = {} /\ ran = <<>> /\ stop = "none" /\ full = FALSE /\ calls = {} /\ early = FALSE
        /\ listens = 0 /\ faults = 0

Fault == faults < MaxFaults /\ faults' = faults + 1

-----------------------------------------------------------------------------
\* listen() on an application that is down.
Listen ==
    /\ listen \in {"none", "up", "failed"} /\ ~bound /\ ~started /\ stop = "none"
    /\ listens < MaxListens /\ listens' = listens + 1 /\ listen' = "bootstrap" /\ ran' = <<>>
    /\ early' = (server # "none") /\ UNCHANGED <<started, server, bound, worker, cleanups, drains, stop, full, calls, faults>>

\* onAppBootstrap listeners and constructors: they acquire resources, registered for cleanup,
\* and begin work that a stop must drain; an error ends the start.
Bootstrap ==
    /\ listen = "bootstrap"
    /\ \/ /\ listen' = "worker" /\ cleanups' = cleanups \o <<"first", "second">> /\ drains' = drains \cup {"work"}
          /\ UNCHANGED faults
       \/ /\ Fault /\ listen' = "failed" /\ cleanups' = Append(cleanups, "first") /\ UNCHANGED drains
    /\ UNCHANGED <<started, server, bound, worker, ran, stop_vars, listens>>

\* WorkerRunnerService.start() in startInternal(), then started.
StartWorker ==
    /\ listen = "worker"
    /\ \/ worker' = TRUE /\ started' = TRUE /\ listen' = "bind" /\ bound' = TRUE /\ server' = "binding" /\ UNCHANGED faults
       \/ Fault /\ worker' = TRUE /\ listen' = "rollback" /\ UNCHANGED <<started, bound, server>>
    /\ UNCHANGED <<cleanups, drains, ran, stop_vars, listens>>

\* The catch of startInternal(): what has started of the worker is shut down.
StartRollback ==
    /\ listen = "rollback" /\ worker' = FALSE /\ listen' = "failed"
    /\ UNCHANGED <<started, server, bound, cleanups, drains, ran, stop_vars, listens, faults>>

\* listenServer()
ListenServer ==
    /\ listen = "bind"
    /\ \/ server' = "listening" /\ listen' = "after" /\ UNCHANGED faults
       \/ Fault /\ server' = "none" /\ listen' = "undo"
    /\ UNCHANGED <<app_vars, bound, stop_vars, listens>>

\* afterListen(): signal handlers, onServerBootstrap and onServerMainBootstrapDone.
AfterListen ==
    /\ listen = "after"
    /\ \/ listen' = "up" /\ UNCHANGED faults
       \/ Fault /\ listen' = "undo"
    /\ UNCHANGED <<app_vars, server, bound, stop_vars, listens>>

\* Stopping begins unless it is under way already.
Stopping == /\ stop' = IF stop = "none" THEN "begin" ELSE stop
            /\ early' = (early \/ listen \in {"bootstrap", "worker", "rollback", "bind"}) /\ UNCHANGED full

\* Mutant: what listen() started is left to the caller.
OnListenErrorKeeps ==
    /\ listen = "undo" /\ listen' = "close" /\ UNCHANGED <<app_vars, server, bound, stop_vars, listens, faults>>

\* onListenError(): the application that this listen() started is stopped.
OnListenError ==
    /\ listen = "undo" /\ listen' = "close"
    /\ IF started THEN Stopping /\ calls' = calls \cup {"listen"} ELSE UNCHANGED stop_vars
    /\ UNCHANGED <<app_vars, server, bound, listens, faults>>

\* The rest of the catch of listen().
ListenFails ==
    /\ listen = "close" /\ "listen" \notin calls /\ listen' = "failed" /\ bound' = FALSE
    /\ server' = "none"
    /\ UNCHANGED <<app_vars, stop_vars, listens, faults>>

-----------------------------------------------------------------------------
\* stop(): everybody shares one operation.
Stop(c) ==
    /\ c \notin calls /\ calls' = calls \cup {c} /\ Stopping
    /\ UNCHANGED <<app_vars, listen, server, bound, listens, faults>>

\* A shutdown listener, drain or cleanup calls stop(), once in a shutdown.
Callbacks == {"requested", "shutdown", "drains", "cleanups"}
NestedStop ==
    /\ stop \in Callbacks /\ calls \cap {"nested", "returned"} = {} /\ calls' = calls \cup {"nested"}
    /\ UNCHANGED <<app_vars, listen, server, bound, stop, full, early, listens, faults>>

\* Mutant: a callback waits for the stop like everybody else.
NestedStopReturnsLast ==
    /\ "nested" \in calls /\ stop = "none" /\ calls' = calls \ {"nested"}
    /\ UNCHANGED <<app_vars, listen, server, bound, stop, full, early, listens, faults>>

\* It returns at once, for it runs in the shutdown's own context.
NestedStopReturns ==
    /\ "nested" \in calls /\ calls' = (calls \ {"nested"}) \cup {"returned"}
    /\ UNCHANGED <<app_vars, listen, server, bound, stop, full, early, listens, faults>>

\* The steps of stopInternal(), and those of an application that is not started.
StopOrder == [begin |-> "requested", requested |-> "worker", worker |-> "http", http |-> "shutdown",
              shutdown |-> "drains", drains |-> "cleanups", cleanups |-> "telemetry", telemetry |-> "none"]
NextStep == IF stop = "begin" /\ ~started THEN "drains" ELSE IF stop = "cleanups" /\ ~full THEN "none" ELSE StopOrder[stop]

\* runStep(): a step is done, or fails; either way the next follows.  It ends only once the
\* callbacks it awaits have returned; the last one returns to everybody.
StepEnds == /\ "nested" \notin calls /\ stop' = NextStep /\ full' = (IF stop = "begin" THEN started ELSE full)
            /\ calls' = IF NextStep = "none" THEN {} ELSE calls
            /\ UNCHANGED early

PlainStep ==
    /\ stop \in {"begin", "requested", "shutdown", "telemetry"} /\ StepEnds
    /\ started' = (started /\ stop # "telemetry")
    /\ UNCHANGED <<listen, server, bound, worker, cleanups, drains, ran, listens, faults>>

\* WorkerRunnerService.shutdown() and WorkerQueueRegistry.shutdown()
WorkerStep ==
    /\ stop = "worker" /\ StepEnds /\ worker' = FALSE
    /\ UNCHANGED <<started, listen, server, bound, cleanups, drains, ran, listens, faults>>

\* http.close(): closeServer() returns at once for a server that does not listen yet.
HttpStep ==
    /\ stop = "http" /\ StepEnds /\ bound' = FALSE
    /\ server' = IF bound /\ server = "listening" THEN "none" ELSE server
    /\ UNCHANGED <<app_vars, listen, listens, faults>>

\* runShutdownDrains(): all at once, until none is left; a drain may register another.
DrainStep ==
    /\ stop = "drains"
    /\ \/ drains = {} /\ StepEnds /\ UNCHANGED <<drains, faults>>
       \/ /\ drains # {} /\ drains' = {} /\ UNCHANGED <<stop_vars, faults>>
       \/ /\ drains # {} /\ Fault /\ drains' = {"more"} /\ UNCHANGED stop_vars
    /\ UNCHANGED <<started, listen, server, bound, worker, cleanups, ran, listens>>

\* Mutant: a cleanup that fails stays registered.
CleanupStepKeeps ==
    /\ stop = "cleanups"
    /\ \/ cleanups = <<>> /\ StepEnds /\ UNCHANGED <<cleanups, ran, faults>>
       \/ /\ cleanups # <<>> /\ ran' = Append(ran, cleanups[Len(cleanups)])
          /\ \/ cleanups' = SubSeq(cleanups, 1, Len(cleanups) - 1) /\ UNCHANGED <<stop_vars, faults>>
             \/ Fault /\ StepEnds /\ UNCHANGED cleanups
    /\ UNCHANGED <<started, listen, server, bound, worker, drains, listens>>

\* runRegisteredCleanups(): the latest first, each one once, whatever the others do.
CleanupStep ==
    /\ stop = "cleanups"
    /\ \/ cleanups = <<>> /\ StepEnds /\ UNCHANGED <<cleanups, ran>>
       \/ /\ cleanups # <<>> /\ "nested" \notin calls /\ ran' = Append(ran, cleanups[Len(cleanups)])
          /\ cleanups' = SubSeq(cleanups, 1, Len(cleanups) - 1) /\ UNCHANGED stop_vars
    /\ UNCHANGED <<started, listen, server, bound, worker, drains, listens, faults>>

StopStep == PlainStep \/ WorkerStep \/ HttpStep \/ DrainStep \/ CleanupStep

Starts == \/ Bootstrap \/ StartWorker \/ StartRollback \/ ListenServer \/ AfterListen \/ OnListenError \/ ListenFails

Next == \/ Listen \/ Starts \/ NestedStop \/ NestedStopReturns \/ StopStep
        \/ \E c \in Callers : Stop(c)

\* Listeners, drains and cleanups settle, and so does the start of the worker.
Progress == Starts \/ StopStep \/ NestedStopReturns

Spec == Init /\ [][Next]_vars
FairSpec == Spec /\ WF_vars(Progress)

-----------------------------------------------------------------------------
\* A stop() of an application that is not in the middle of starting leaves nothing behind: when
\* it is complete the worker and the socket are down and every cleanup and drain has run,
\* whatever steps failed and whoever else called stop() (stopInternal()).
StopReleasesAll ==
    (stop = "none" /\ ~early /\ listen \in {"none", "up", "failed"} /\ ran # <<>>) =>
        ~worker /\ server = "none" /\ cleanups = <<>> /\ drains = {}

\* A listen() that fails leaves neither a worker nor a socket, even if the application is stopped
\* by somebody else at the same time, once it is started (startInternal(), listen()).
FailedListenLeavesNothing ==
    (listen = "failed" /\ ~early) => server = "none" /\ (stop = "none" => ~worker)

\* Every call of stop() returns, also to the listeners, drains and cleanups that stop() awaits
\* (shutdownContext).
Returned == calls = {}
EveryStopReturns == []<>Returned
=============================================================================
