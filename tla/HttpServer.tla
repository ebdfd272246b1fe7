----------------------------- MODULE HttpServer -----------------------------
(* Upgrade requests of a shared Node server: WebSocket servers claim those of  *)
(* their path, other listeners claim by writing a 101 response, and what       *)
(* nobody claims is rejected after a second.                                   *)
EXTENDS Naturals, Sequences, FiniteSets

CONSTANTS Servers,      \* WebSocket servers that are installed on the one path
          Sockets,
          MaxInstalls   \* bound on installations

VARIABLES
    count,      \* references to the installed handler, 0 when there is none
    users,      \* servers that are installed
    installs,
    handling,   \* installUpgradeClaimHandling() is in force
    onPath,     \* sockets that ask for the path of the servers
    socket,     \* per socket: "new", "open", "upgraded", "closed"
    verifying,  \* sockets that the handler of the path is verifying
    claimed,    \* the claim mark of the socket
    patched,    \* sockets whose write() is patched
    timer,      \* sockets with a rejection timer
    foreign,    \* sockets that the other listener is dealing with
    answers     \* history: responses written to the socket

vars == <<count, users, installs, handling, onPath, socket, verifying, claimed, patched, timer, foreign, answers>>
server_vars == <<count, users, installs, handling>>

Init == /\ count = 0 /\ users = {} /\ installs = 0 /\ handling = FALSE /\ onPath \in SUBSET Sockets
        /\ socket = [s \in Sockets |-> "new"] /\ verifying = {} /\ claimed = {} /\ patched = {} /\ timer = {} /\ foreign = {}
        /\ answers = [s \in Sockets |-> 0]

-----------------------------------------------------------------------------
\* installWebSocketUpgradeHandler(): one handler per path, counted.
Install(v) ==
    /\ v \notin users /\ installs < MaxInstalls /\ installs' = installs + 1 /\ users' = users \cup {v}
    /\ count' = count + 1 /\ handling' = TRUE
    /\ UNCHANGED <<onPath, socket, verifying, claimed, patched, timer, foreign, answers>>

\* removeWebSocketUpgradeHandler(): the last one takes the claim handling with it.
Remove(v) ==
    /\ v \in users /\ users' = users \ {v} /\ count' = count - 1 /\ handling' = (count' > 0)
    /\ UNCHANGED <<installs, onPath, socket, verifying, claimed, patched, timer, foreign, answers>>

Answer(s, end) == answers' = [answers EXCEPT ![s] = @ + 1] /\ socket' = [socket EXCEPT ![s] = end]


\* The patched emit(): the listeners in order, until one has claimed the socket: the handler of
\* the path, another listener, which claims later if at all, and the fallback with its timer.
EmitUpgrade(s) ==
    LET ours == count > 0 /\ s \in onPath
    IN  /\ socket[s] = "new" /\ handling /\ UNCHANGED <<server_vars, onPath, answers>>
        /\ socket' = [socket EXCEPT ![s] = "open"] /\ verifying' = IF ours THEN verifying \cup {s} ELSE verifying
        /\ claimed' = IF ours THEN claimed \cup {s} ELSE claimed
        /\ patched' = IF ours THEN patched ELSE patched \cup {s}
        /\ \E taken \in BOOLEAN : foreign' = IF taken /\ ~ours THEN foreign \cup {s} ELSE foreign
        /\ timer' = IF ours THEN timer ELSE timer \cup {s}

\* verifyClient() calls back: the server upgrades the socket or it is refused.
Verified(s) ==
    /\ s \in verifying /\ verifying' = verifying \ {s} /\ UNCHANGED <<server_vars, onPath, claimed, patched, timer, foreign>>
    /\ IF socket[s] = "closed" THEN UNCHANGED <<answers, socket>> ELSE Answer(s, "upgraded") \/ Answer(s, "closed")

\* The other listener writes a 101 response: markUpgradeClaimed() by the patched write().
ForeignUpgrade(s) ==
    /\ s \in foreign /\ socket[s] # "closed" /\ Answer(s, "upgraded") /\ foreign' = foreign \ {s}
    /\ claimed' = (IF s \in patched THEN claimed \cup {s} ELSE claimed)
    /\ timer' = (IF s \in patched THEN timer \ {s} ELSE timer) /\ patched' = patched \ {s}
    /\ UNCHANGED <<server_vars, onPath, verifying>>

\* The other listener refuses the socket itself.
ForeignReject(s) ==
    /\ s \in foreign /\ socket[s] # "closed" /\ Answer(s, "closed") /\ foreign' = foreign \ {s}
    /\ timer' = timer \ {s} /\ patched' = patched \ {s} /\ UNCHANGED <<server_vars, onPath, verifying, claimed>>

\* The rejection timer.
Reject(s) ==
    /\ s \in timer /\ timer' = timer \ {s} /\ patched' = patched \ {s}
    /\ IF s \notin claimed /\ socket[s] # "closed" THEN Answer(s, "closed") ELSE UNCHANGED <<answers, socket>>
    /\ UNCHANGED <<server_vars, onPath, verifying, claimed, foreign>>

\* The peer closes the socket.
Closes(s) ==
    /\ socket[s] \in {"open", "upgraded"} /\ socket' = [socket EXCEPT ![s] = "closed"]
    /\ timer' = timer \ {s} /\ patched' = patched \ {s}
    /\ UNCHANGED <<server_vars, onPath, verifying, claimed, foreign, answers>>

Next == \/ \E v \in Servers : Install(v) \/ Remove(v)
        \/ \E s \in Sockets : EmitUpgrade(s) \/ Verified(s) \/ ForeignUpgrade(s) \/ ForeignReject(s) \/ Reject(s) \/ Closes(s)

Spec == Init /\ [][Next]_vars

-----------------------------------------------------------------------------
\* However verification, another listener's late upgrade, the rejection timer and the removal of
\* handlers fall together, no socket is answered twice, and none that is open is left without
\* somebody who will answer it (createWebSocketUpgradeHandler(), installUpgradeClaimHandling()).
OneAnswer ==
    \A s \in Sockets : /\ answers[s] <= 1
                       /\ socket[s] = "open" => s \in timer \cup verifying

-----------------------------------------------------------------------------
(* HttpTlsContextWatcher: certificate files that change at any time, also      *)
(* while they are being read, are loaded into the running server by a          *)
(* debounced reload, one at a time, until the watcher is closed.               *)

CONSTANTS MaxChanges,  \* bound on changes of the files
          MaxFaults    \* bound on reads that fail

VARIABLES
    files,      \* the version of the certificate files
    seen,       \* the version that the latest file event is about
    closed, requested, inProgress, reloadTimer,
    reading,    \* the version that reload() reads
    context,    \* the version the server uses
    failed,     \* history: versions that could not be read
    faults

varsTls == <<files, seen, closed, requested, inProgress, reloadTimer, reading, context, failed, faults>>

InitTls == /\ files = 0 /\ seen = 0 /\ closed = FALSE /\ requested = FALSE /\ inProgress = FALSE /\ reloadTimer = FALSE
           /\ reading = 0 /\ context = 0 /\ failed = {} /\ faults = 0

FilesChange ==
    /\ files < MaxChanges /\ files' = files + 1
    /\ UNCHANGED <<seen, closed, requested, inProgress, reloadTimer, reading, context, failed, faults>>

\* Mutant: a change during a reload is left to that reload.
ScheduleReloadIdle(busy) == IF closed \/ busy \/ reloadTimer THEN UNCHANGED <<requested, reloadTimer>>
                            ELSE requested' = TRUE /\ reloadTimer' = TRUE

\* scheduleReload(): the request is noted even when a reload is under way.
ScheduleReload(busy) == requested' = TRUE /\ reloadTimer' = (reloadTimer \/ ~(closed \/ busy))

\* The poll of watchFile() sees that the files differ.
OnFileChange ==
    /\ ~closed /\ seen < files /\ seen' = files /\ ScheduleReload(inProgress)
    /\ UNCHANGED <<files, closed, inProgress, reading, context, failed, faults>>

\* The debounce timer: reload() begins to read.
ReloadBegins ==
    /\ reloadTimer /\ reloadTimer' = FALSE
    /\ IF closed \/ ~requested THEN UNCHANGED <<requested, inProgress, reading>>
       ELSE requested' = FALSE /\ inProgress' = TRUE /\ reading' = files
    /\ UNCHANGED <<files, seen, closed, context, failed, faults>>

\* Mutant: the finally does not look at what was asked for meanwhile.
ReloadEndsOnce ==
    /\ inProgress /\ inProgress' = FALSE
    /\ context' = IF closed THEN context ELSE reading
    /\ UNCHANGED <<files, seen, closed, requested, reloadTimer, reading, failed, faults>>

\* reload() ends: the context is set unless the watcher is closed, or a read failed; then a
\* request that came meanwhile is scheduled.
ReloadEnds ==
    /\ inProgress /\ inProgress' = FALSE
    /\ \/ context' = (IF closed THEN context ELSE reading) /\ UNCHANGED <<failed, faults>>
       \/ faults < MaxFaults /\ faults' = faults + 1 /\ failed' = failed \cup {reading} /\ UNCHANGED context
    /\ IF requested THEN ScheduleReload(FALSE) ELSE UNCHANGED <<requested, reloadTimer>>
    /\ UNCHANGED <<files, seen, closed, reading>>

Close == /\ ~closed /\ closed' = TRUE /\ reloadTimer' = FALSE
         /\ UNCHANGED <<files, seen, requested, inProgress, reading, context, failed, faults>>

ProgressTls == OnFileChange \/ ReloadBegins \/ ReloadEnds
NextTls == FilesChange \/ ProgressTls \/ Close

SpecTls == InitTls /\ [][NextTls]_varsTls
FairSpecTls == SpecTls /\ WF_varsTls(ProgressTls)

-----------------------------------------------------------------------------
\* The server ends up with the latest certificate, unless that very version could not be read
\* or the server is closed: no change is missed, whenever it comes (scheduleReload(),
\* reload()).
Loaded == closed \/ context = files \/ files \in failed
LatestIsLoaded == <>[]Loaded
-----------------------------------------------------------------------------
(* One request of a Node client, from handleNodeRequest() through              *)
(* HttpServerRuntime.request() and HttpRouter.handle() to the native response: *)
(* application code runs at every stage and may answer, take the response over *)
(* or throw, and the client may go away at any moment.                         *)

VARIABLES
    plan,       \* "cors", "static", "route", "fallback" or "none": how the request is handled
    todo,       \* stages still to come
    ended,      \* writableEnded of NodeHttpResponse
    committed,  \* headersSent
    destroyed,  \* the wrapper is destroyed
    native,     \* the ServerResponse: "open", "head", "ended", "finished", "closed"
    heads,      \* history: status lines written
    owned,      \* application code has taken the response and will end it
    cleaned,    \* cleanupUploadedFiles() has run
    log,        \* the request logger: "none", "finished", "aborted"
    answered,   \* history: a stage before the controller returned a response
    invoked     \* history: the controller was invoked

varsExchange == <<plan, todo, ended, committed, destroyed, native, heads, owned, cleaned, log, answered, invoked>>
response == <<ended, committed, native, heads>>

RouteStages    == <<"onRoute", "guard", "middleware", "middleware", "onController", "parameters", "controller">>
FallbackStages == <<"onRouteNotFound", "onRoute", "middleware", "onController", "controller">>
FinallyStages  == <<"onResponse", "cleanup", "flush">>

\* HttpRouter.handle(): a route, the fallback controller, or neither.
RouterStages(p) == IF p = "route" THEN RouteStages ELSE IF p = "fallback" THEN FallbackStages ELSE <<"onRouteNotFound">>

InitExchange == /\ plan \in {"cors", "static", "route", "fallback", "none"}
                /\ todo = (IF plan \in {"cors", "static"} THEN <<plan>> ELSE RouterStages(plan))
                /\ ended = FALSE /\ committed = FALSE /\ destroyed = FALSE /\ native = "open" /\ heads = 0 /\ owned = FALSE
                /\ cleaned = FALSE /\ log = "none" /\ answered = FALSE /\ invoked = FALSE

-----------------------------------------------------------------------------
\* writeToNodeResponse() writes: the native response is neither ended nor destroyed.
Writable == native \in {"open", "head"}

\* end(): a response that is not streamed is only marked; a destroyed one refuses the chunk of
\* end(chunk) and is not even marked.
End(chunk) ==
    IF destroyed /\ chunk THEN UNCHANGED response
    ELSE /\ ended' = TRUE /\ UNCHANGED <<committed, heads>>
         /\ native' = IF committed /\ Writable THEN "ended" ELSE native

\* writeHead() of NodeHttpResponse hands the head to Node at once.
WriteHead == /\ ~committed /\ native = "open" /\ committed' = TRUE /\ native' = "head" /\ heads' = heads + 1
             /\ owned' = TRUE /\ UNCHANGED ended

\* writeHead() and end(): an answer of the framework.
WriteAnswer ==
    IF native # "open" \/ destroyed THEN UNCHANGED response
    ELSE committed' = TRUE /\ heads' = heads + 1 /\ native' = "ended" /\ ended' = TRUE

\* Mutant: an error after the head leaves the response as it is.
WriteErrorKeeps ==
    IF ended \/ committed THEN UNCHANGED response ELSE WriteAnswer

\* writeError()
WriteError ==
    IF ended THEN UNCHANGED response ELSE IF committed THEN End(FALSE) ELSE WriteAnswer

\* The catch of handle(), or of handleNodeRequest() for the stages that are not in its try.
Catch == WriteError /\ owned' = FALSE /\ todo' = FinallyStages

\* writeUnhandledNodeError()
WriteUnhandled ==
    /\ UNCHANGED <<ended, committed>>
    /\ IF ~Writable THEN UNCHANGED <<native, heads>>
       ELSE native' = "ended" /\ heads' = IF native = "open" THEN heads + 1 ELSE heads

\* After a stage: an ended response ends the handling, a fallback that did not answer is not found.
Continue(stages) ==
    todo' = IF ended' \/ (plan = "fallback" /\ stages = <<>> /\ committed') THEN FinallyStages
            ELSE IF stages # <<>> THEN stages
            ELSE IF plan = "route" THEN FinallyStages ELSE <<"notFound">>

Hook(stage) == todo # <<>> /\ Head(todo) = stage /\ UNCHANGED <<plan, destroyed, log>>

\* A workflow listener (dispatchWorkflow()) or a middleware (runMiddlewares()).
UserStage(stage) ==
    /\ Hook(stage) /\ UNCHANGED <<cleaned, invoked>>
    /\ \/ UNCHANGED <<response, owned, answered>> /\ Continue(Tail(todo))           \* returns
       \/ /\ ~committed /\ End(TRUE) /\ Continue(Tail(todo))                         \* a response result
          /\ answered' = (answered \/ stage = "middleware") /\ UNCHANGED owned
       \/ WriteHead /\ Continue(Tail(todo)) /\ UNCHANGED answered                   \* takes the response
       \/ Catch /\ UNCHANGED answered                                               \* throws

\* A stage of the router itself: it passes or throws.
CheckStage(stage) ==
    /\ Hook(stage) /\ UNCHANGED <<cleaned, answered, invoked>>
    /\ \/ UNCHANGED <<response, owned>> /\ Continue(Tail(todo))
       \/ Catch

\* guardRequestBody(): a multipart body is parsed before the middlewares run.
GuardStage == CheckStage("guard")

\* resolveParameter(): the body is read when a parameter asks for it; a value that is missing or
\* does not deserialize, an absent token and a resolver of the application throw.
ParametersStage == CheckStage("parameters")

\* writeResult(): a result may have a body.
WriteResult == \E chunk \in BOOLEAN : End(chunk)

\* The controller; writeResult() follows unless it has taken the response.
ControllerStage ==
    /\ Hook("controller") /\ invoked' = TRUE /\ UNCHANGED <<cleaned, answered>>
    /\ \/ ~committed /\ WriteResult /\ Continue(<<>>) /\ UNCHANGED owned
       \/ committed /\ UNCHANGED <<response, owned>> /\ Continue(<<>>)
       \/ WriteHead /\ Continue(<<>>)
       \/ Catch

NotFoundStage == Hook("notFound") /\ Catch /\ UNCHANGED <<cleaned, answered, invoked>>

\* The onResponse workflow; its error leaves handle() after the cleanup.
OnResponseStage ==
    /\ Hook("onResponse") /\ UNCHANGED <<cleaned, answered, invoked, response, owned>>
    /\ todo' = <<"cleanup", "flush">> \/ todo' = <<"cleanup", "unhandled">>

CleanupStage == /\ Hook("cleanup") /\ cleaned' = TRUE /\ todo' = Tail(todo) /\ UNCHANGED <<response, owned, answered, invoked>>

\* request() ends a request without the router.
EarlyAnswer == WriteAnswer /\ todo' = <<"flush">> /\ cleaned' = TRUE /\ UNCHANGED plan

\* handleCorsPreflight(): an OPTIONS request of an allowed origin.
CorsStage == todo = <<"cors">> /\ EarlyAnswer /\ UNCHANGED <<destroyed, log, answered, invoked, owned>>

\* serveStaticFile(): a file or a 400 answers, no such file leaves the request to the router,
\* which has no route for it, and any other error of the file system is thrown.
StaticStage ==
    /\ todo = <<"static">> /\ UNCHANGED <<destroyed, log, answered, invoked, owned>>
    /\ \/ EarlyAnswer
       \/ plan' \in {"fallback", "none"} /\ todo' = RouterStages(plan') /\ UNCHANGED <<response, cleaned>>
       \/ todo' = <<"unhandled">> /\ cleaned' = TRUE /\ UNCHANGED <<response, plan>>

\* flush(): what was not streamed is written now.
FlushStage ==
    /\ Hook("flush") /\ todo' = <<>> /\ UNCHANGED <<cleaned, answered, invoked, ended, owned>>
    /\ IF committed \/ native # "open" THEN UNCHANGED <<committed, native, heads>>
       ELSE committed' = TRUE /\ native' = "ended" /\ heads' = heads + 1

UnhandledStage == Hook("unhandled") /\ WriteUnhandled /\ todo' = <<>> /\ UNCHANGED <<cleaned, answered, invoked, owned>>

\* Code that took the response ends it in its own time.
StreamEnds == /\ owned /\ native = "head" /\ ~ended /\ End(FALSE)
              /\ UNCHANGED <<owned, plan, todo, destroyed, cleaned, log, answered, invoked>>

\* The finish event of the native response.
NativeFinishes == /\ native = "ended" /\ native' = "finished" /\ log' = IF log = "none" THEN "finished" ELSE log
                  /\ UNCHANGED <<plan, todo, ended, committed, heads, owned, destroyed, cleaned, answered, invoked>>

\* The client goes away: the close event destroys the wrapper, and is logged unless finished.
ClientCloses == /\ native \notin {"finished", "closed"} /\ native' = "closed" /\ destroyed' = TRUE
                /\ log' = IF log = "none" THEN "aborted" ELSE log
                /\ UNCHANGED <<plan, todo, ended, committed, heads, owned, cleaned, answered, invoked>>

ProgressExchange == \/ \E stage \in {"onRouteNotFound", "onRoute", "middleware", "onController"} : UserStage(stage)
                    \/ GuardStage \/ ParametersStage \/ CorsStage \/ StaticStage
                    \/ ControllerStage \/ NotFoundStage \/ OnResponseStage \/ CleanupStage \/ FlushStage \/ UnhandledStage
                    \/ StreamEnds \/ NativeFinishes

NextExchange == ProgressExchange \/ ClientCloses

SpecExchange == InitExchange /\ [][NextExchange]_varsExchange
FairSpecExchange == SpecExchange /\ WF_varsExchange(ProgressExchange)

-----------------------------------------------------------------------------
\* Whatever the stages do, and whenever the client goes away, a request ends with its uploads
\* removed, at most one head on the wire, and exactly one end: a finished response or an aborted
\* one (handle(), writeError(), flush(), writeUnhandledNodeError()).
Answered == cleaned /\ heads <= 1 /\ todo = <<>> /\ native \in {"finished", "closed"} /\ log # "none"
EveryRequestIsAnswered == <>[]Answered

\* "Returning a response result such as jsonResponse(...) writes and ends the response,
\* short-circuiting the remaining middleware, controller workflow, parameter resolution, and
\* handler": the controller is not invoked after a stage before it has answered. The code does
\* not keep this: end() with a body on a response whose client has gone does not set
\* writableEnded, which is what the next stage looks at.
AnswersShortCircuit == ~(answered /\ invoked)
=============================================================================
