------------------------- MODULE MeshSrpcLifecycle --------------------------
(* The lifecycle of a MeshSrpcServer: start, stop, the rollback of a start    *)
(* that was stopped, the cleanup after a lost lease and the recovery from it, *)
(* over MeshClientService, whose start and stop it awaits.  Streams and their *)
(* callbacks are in MeshClientOwnership and MeshCallbacks.                    *)
EXTENDS Naturals

CONSTANTS MaxFaults,  \* bound on operations that fail and leases that are lost
          MaxCalls    \* bound on the application's calls of meshStart() and meshStop()

Callers == {"app", "recovery"}

VARIABLES
    caller,    \* per caller of startMeshLifecycle(): "idle", "asking", the barrier it waits
               \* for, or "joined"
    start,     \* meshStartPromise: [at, current, by]; current: not cancelled
    stop,      \* stopMesh(): "none", "drain", "service"
    running, closed,
    link,      \* [up, closing]: the route, and meshPendingLinkClose
    service,   \* MeshClientService: [running, owed, fenced]; owed: registryCleanupNodeId
    deferred,  \* meshPendingStartCleanup
    rollbackFailed, cleanupFailure, \* meshStartRollbackFailure, meshCleanupFailure
    lease,     \* lease-loss cleanup: [busy, required, failure, retry]
    recovery,  \* [enabled, timer, current]
    wants,     \* history: the application's last call
    calls, faults

lifecycle == <<caller, start, stop, running, closed>>
resources == <<link, service>>
barriers == <<deferred, rollbackFailed, cleanupFailure>>
environment == <<wants, calls>>
vars == <<lifecycle, resources, barriers, lease, recovery, environment, faults>>

NoStart == [at |-> "none", current |-> TRUE, by |-> "app"]

Init == /\ caller = [c \in Callers |-> "idle"] /\ start = NoStart /\ stop = "none"
        /\ running = FALSE /\ closed = FALSE
        /\ link = [up |-> FALSE, closing |-> FALSE]
        /\ service = [running |-> FALSE, owed |-> FALSE, fenced |-> FALSE]
        /\ deferred = FALSE /\ rollbackFailed = FALSE /\ cleanupFailure = FALSE
        /\ lease = [busy |-> FALSE, required |-> FALSE, failure |-> FALSE, retry |-> FALSE]
        /\ recovery = [enabled |-> FALSE, timer |-> FALSE, current |-> FALSE]
        /\ wants = "stop" /\ calls = 0 /\ faults = 0

Outcomes == {"ok"} \cup (IF faults < MaxFaults THEN {"failed"} ELSE {})
Spend(o) == faults' = IF o = "ok" THEN faults ELSE faults + 1

\* releaseMeshLinkResources(false): the controller's close goes on by itself.
Released == [up |-> FALSE, closing |-> link.closing \/ link.up]

\* MeshClientService.stop(): the registry is swept, unless that fails.
Stopped(o) == [service EXCEPT !.running = FALSE, !.owed = @ /\ o = "failed"]

-----------------------------------------------------------------------------
(* Recovery.                                                                  *)

CanRecoverMesh == recovery.enabled /\ ~closed /\ stop = "none" /\ ~cleanupFailure /\ ~lease.required

\* scheduleMeshRecovery(), for the values the caller of this operator leaves behind.
Scheduled(r, can) == [r EXCEPT !.timer = @ \/ (can /\ ~running /\ caller["recovery"] = "idle")]

\* cancelMeshRecovery().
Cancelled(r) == [r EXCEPT !.timer = FALSE, !.current = FALSE]

\* The timer of scheduleMeshRecovery() fires: attemptMeshRecovery().
RecoveryTimer ==
    /\ recovery.timer
    /\ IF CanRecoverMesh /\ ~running /\ caller["recovery"] = "idle"
       THEN /\ recovery' = [recovery EXCEPT !.timer = FALSE, !.current = TRUE]
            /\ lease' = [lease EXCEPT !.failure = FALSE]
            /\ caller' = [caller EXCEPT !["recovery"] = "asking"]
       ELSE recovery' = [recovery EXCEPT !.timer = FALSE] /\ UNCHANGED <<lease, caller>>
    /\ UNCHANGED <<start, stop, running, closed, resources, barriers, environment, faults>>

\* startMeshLifecycle() ends for c, and attemptMeshRecovery() with it: an error is
\* kept, and the next attempt scheduled.
Returns(c, ok) ==
    /\ caller' = [caller EXCEPT ![c] = "idle"]
    /\ IF c = "app" THEN UNCHANGED <<recovery, lease>>
       ELSE LET keep == ~ok /\ recovery.current /\ CanRecoverMesh
            IN  /\ lease' = IF keep THEN [lease EXCEPT !.failure = TRUE] ELSE lease
                /\ recovery' = [recovery EXCEPT !.timer = @ \/ (CanRecoverMesh /\ ~running), !.current = FALSE]

-----------------------------------------------------------------------------
(* Start.                                                                     *)

\* meshStart(), by the application or by ready() for a client that connects.
MeshStart ==
    /\ calls < MaxCalls /\ calls' = calls + 1 /\ wants' = "start"
    /\ caller["app"] = "idle" /\ caller' = [caller EXCEPT !["app"] = "asking"]
    /\ recovery' = [recovery EXCEPT !.enabled = TRUE]
    /\ UNCHANGED <<start, stop, running, closed, resources, barriers, lease, faults>>

\* startMeshLifecycle() runs at once when it is called.
Quiet == \A c \in Callers : caller[c] # "asking"

Refused == lease.failure \/ cleanupFailure \/ closed
Barriers == {"stop", "deferred", "link", "cancelled"}
Up(b) == CASE b = "stop" -> stop # "none" [] b = "deferred" -> deferred
           [] b = "link" -> link.closing [] b = "cancelled" -> start.at # "none" /\ ~start.current
Earlier(b, d) == b = d \/ b = "stop" \/ d = "cancelled" \/ (b = "deferred" /\ d = "link")
Blocked == \E b \in Barriers : Up(b)

\* startMeshLifecycle(): throws, waits for a barrier and looks again, joins a start, or
\* begins one, which acquires the link and publishes its metadata.
StartMeshLifecycle(c) ==
    /\ \/ caller[c] = "asking"
       \/ caller[c] \in Barriers /\ ~Up(caller[c]) /\ Quiet
    /\ \/ /\ ~Refused /\ Blocked
          /\ caller' = [caller EXCEPT ![c] = CHOOSE b \in Barriers :
                           Up(b) /\ \A d \in Barriers : Up(d) => Earlier(b, d)]
          /\ UNCHANGED <<start, link, service, rollbackFailed, recovery, lease>>
       \/ Refused /\ Returns(c, FALSE) /\ UNCHANGED <<start, link, service, rollbackFailed>>
       \/ /\ ~Refused /\ ~Blocked /\ running
          /\ Returns(c, TRUE) /\ UNCHANGED <<start, link, service, rollbackFailed>>
       \/ /\ ~Refused /\ ~Blocked /\ ~running /\ caller' = [caller EXCEPT ![c] = "joined"]
          /\ IF start.at # "none" THEN UNCHANGED <<start, link, service, rollbackFailed>>
             ELSE /\ start' = [at |-> "metadata", current |-> TRUE, by |-> c]
                  /\ link' = [link EXCEPT !.up = TRUE]
                  /\ service' = [service EXCEPT !.fenced = @ /\ service.running]
                  /\ rollbackFailed' = FALSE
          /\ UNCHANGED <<recovery, lease>>
    /\ UNCHANGED <<stop, running, closed, deferred, cleanupFailure, environment, faults>>

\* assertMeshStartCurrent().
Current == start.current /\ stop = "none" /\ ~closed
Goto(at) == start' = [start EXCEPT !.at = at]

PublishMetadata ==
    /\ start.at = "metadata"
    /\ \E o \in Outcomes : Spend(o) /\ Goto(IF o = "ok" /\ Current THEN "service" ELSE "rollback")
    /\ UNCHANGED <<caller, stop, running, closed, resources, barriers, lease, recovery, environment>>

\* MeshClientService.start(): refused while an old registration is owed its cleanup;
\* undone when admission was fenced meanwhile.
StartService ==
    /\ start.at = "service"
    /\ \E o \in Outcomes :
       LET up == o = "ok" /\ ~service.owed /\ ~service.fenced
           ok == o = "ok" /\ ~(service.owed /\ ~service.running)
       IN  /\ Spend(o)
           /\ service' = IF up /\ ~service.running THEN [service EXCEPT !.running = TRUE, !.owed = TRUE] ELSE service
           /\ Goto(IF ok /\ Current THEN "backfill" ELSE "rollback")
           /\ running' = (running \/ (ok /\ Current))
    /\ UNCHANGED <<caller, stop, closed, link, barriers, lease, recovery, environment>>

\* The streams that were there before are registered; everyone who joined returns.
Settled(ok) ==
    /\ start' = NoStart
    /\ caller' = [c \in Callers |-> IF caller[c] = "joined" THEN "idle" ELSE caller[c]]
    /\ IF caller["recovery"] # "joined" THEN UNCHANGED <<lease, recovery>>
       ELSE /\ lease' = IF ~ok /\ recovery.current /\ CanRecoverMesh THEN [lease EXCEPT !.failure = TRUE] ELSE lease
            /\ recovery' = [recovery EXCEPT !.timer = @ \/ (CanRecoverMesh /\ ~running), !.current = FALSE]

Backfilled ==
    /\ start.at = "backfill"
    /\ \E o \in Outcomes :
       /\ Spend(o)
       /\ IF o = "ok" /\ Current THEN Settled(TRUE)
          ELSE Goto("rollback") /\ UNCHANGED <<caller, lease, recovery>>
    /\ UNCHANGED <<stop, running, closed, resources, barriers, environment>>

\* Mutant: the service is left running when a cancelled start is rolled back.
RollbackMeshStartHalf ==
    /\ start.at = "rollback"
    /\ running' = FALSE /\ link' = Released
    /\ Settled(FALSE)
    /\ UNCHANGED <<stop, closed, service, barriers, environment, faults>>

\* rollbackMeshStart(); a failure bars further starts, or is left to the deferred retry.
RollbackMeshStart ==
    /\ start.at = "rollback"
    /\ running' = FALSE /\ link' = Released
    /\ \E o \in Outcomes :
       /\ Spend(o) /\ service' = Stopped(o)
       /\ rollbackFailed' = (o = "failed")
       /\ cleanupFailure' = (cleanupFailure \/ (o = "failed" /\ start.current))
    /\ Settled(FALSE)
    /\ UNCHANGED <<stop, closed, deferred, environment>>

-----------------------------------------------------------------------------
(* Stop.                                                                      *)

\* beginMeshLeaseCleanup(), up to its first await.
BeginLeaseCleanup ==
    /\ lease' = [busy |-> TRUE, required |-> TRUE, failure |-> TRUE, retry |-> FALSE]
    /\ running' = FALSE

\* meshStop() and the first part of stopMesh(): joins a lease cleanup or a stop, cancels
\* a start and leaves its rollback behind, or fences admission and drains.
MeshStop(close) ==
    /\ calls < MaxCalls /\ calls' = calls + 1 /\ wants' = "stop"
    /\ closed' = (closed \/ close)
    /\ recovery' = [Cancelled(recovery) EXCEPT !.enabled = FALSE]
    /\ \/ lease.busy /\ UNCHANGED <<lease, start, stop, running, link, service, deferred>>
       \/ /\ ~lease.busy /\ lease.required /\ BeginLeaseCleanup
          /\ UNCHANGED <<start, stop, link, service, deferred>>
       \/ /\ ~lease.busy /\ ~lease.required /\ stop = "none" /\ start.at # "none"
          /\ start' = [start EXCEPT !.current = FALSE] /\ running' = FALSE
          /\ service' = [service EXCEPT !.running = FALSE, !.fenced = TRUE]
          /\ link' = Released /\ deferred' = TRUE
          /\ UNCHANGED <<lease, stop>>
       \/ /\ ~lease.busy /\ ~lease.required /\ (stop # "none" \/ (start.at = "none" /\ ~running))
          /\ UNCHANGED <<lease, start, stop, running, link, service, deferred>>
       \/ /\ ~lease.busy /\ ~lease.required /\ stop = "none" /\ start.at = "none" /\ running
          /\ running' = FALSE /\ stop' = "drain"
          /\ service' = [service EXCEPT !.fenced = TRUE]
          /\ UNCHANGED <<lease, start, link, deferred>>
    /\ UNCHANGED <<caller, rollbackFailed, cleanupFailure, faults>>

\* The registry queues are drained, and the link released.
StopDrained ==
    /\ stop = "drain" /\ stop' = "service"
    /\ link' = Released
    /\ UNCHANGED <<caller, start, running, closed, service, barriers, lease, recovery, environment, faults>>

StopService ==
    /\ stop = "service" /\ stop' = "none"
    /\ \E o \in Outcomes : /\ Spend(o) /\ service' = Stopped(o)
                           /\ cleanupFailure' = (cleanupFailure \/ o = "failed")
    /\ UNCHANGED <<caller, start, running, closed, link, deferred, rollbackFailed, lease, recovery, environment>>

\* deferPendingMeshStartRollback(): the cancelled start has settled.  Its rollback is
\* tried again if it failed; the link's close is waited for.
DeferredRollback ==
    /\ deferred /\ start.at = "none" /\ ~link.closing
    /\ IF ~rollbackFailed THEN deferred' = FALSE /\ UNCHANGED <<service, rollbackFailed, cleanupFailure, faults>>
       ELSE \E o \in Outcomes :
            /\ Spend(o) /\ service' = Stopped(o)
            /\ rollbackFailed' = (o = "failed") /\ deferred' = (o = "failed")
            /\ cleanupFailure' = (cleanupFailure \/ o = "failed")
    /\ ~(rollbackFailed /\ cleanupFailure)
    /\ UNCHANGED <<lifecycle, link, lease, recovery, environment>>

\* trackDetachedLinkClose().
LinkCloses ==
    /\ link.closing
    /\ \E o \in Outcomes : /\ Spend(o) /\ link' = [link EXCEPT !.closing = (o = "failed")]
                           /\ cleanupFailure' = (cleanupFailure \/ o = "failed")
    /\ ~cleanupFailure
    /\ UNCHANGED <<lifecycle, service, deferred, rollbackFailed, lease, recovery, environment>>

-----------------------------------------------------------------------------
(* A lost lease.                                                              *)

\* The lease-lost callback of MeshClientService, and handleMeshLeaseLost().
LeaseLost ==
    /\ service.running /\ faults < MaxFaults /\ faults' = faults + 1
    /\ service' = [service EXCEPT !.running = FALSE]
    /\ IF lease.busy THEN UNCHANGED <<lease, running, recovery>>
       ELSE BeginLeaseCleanup /\ recovery' = Cancelled(recovery)
    /\ UNCHANGED <<caller, start, stop, closed, link, barriers, environment>>

\* Mutant: the retry is not scheduled when the cleanup fails.
LeaseCleanupOnce ==
    /\ lease.busy
    /\ link' = Released
    /\ \E o \in Outcomes :
       /\ Spend(o)
       /\ service' = [service EXCEPT !.owed = @ /\ o = "failed"]
       /\ lease' = [lease EXCEPT !.busy = FALSE, !.required = (o = "failed")]
       /\ recovery' = IF o = "failed" THEN recovery
                      ELSE Scheduled(recovery, recovery.enabled /\ ~closed /\ stop = "none" /\ ~cleanupFailure)
    /\ UNCHANGED <<lifecycle, barriers, environment>>

\* The rest of handleMeshLeaseLost(): the queues settle, the registry is swept, the link
\* released; then the recovery or, after a failure, a retry is scheduled.
LeaseCleanup ==
    /\ lease.busy
    /\ link' = Released
    /\ \E o \in Outcomes :
       /\ Spend(o)
       /\ service' = [service EXCEPT !.owed = @ /\ o = "failed"]
       /\ lease' = [lease EXCEPT !.busy = FALSE, !.required = (o = "failed"), !.retry = (o = "failed" /\ ~closed)]
       /\ recovery' = IF o = "failed" THEN recovery
                      ELSE Scheduled(recovery, recovery.enabled /\ ~closed /\ stop = "none" /\ ~cleanupFailure)
    /\ UNCHANGED <<lifecycle, barriers, environment>>

LeaseCleanupRetry ==
    /\ lease.retry
    /\ BeginLeaseCleanup /\ recovery' = Cancelled(recovery)
    /\ UNCHANGED <<caller, start, stop, closed, resources, barriers, environment, faults>>

-----------------------------------------------------------------------------
Progress == \/ \E c \in Callers : StartMeshLifecycle(c)
            \/ (Quiet /\ RecoveryTimer)   \/ (Quiet /\ PublishMetadata)   \/ (Quiet /\ StartService)
            \/ (Quiet /\ Backfilled)      \/ (Quiet /\ RollbackMeshStart) \/ (Quiet /\ StopDrained)
            \/ (Quiet /\ StopService)     \/ (Quiet /\ DeferredRollback)  \/ (Quiet /\ LinkCloses)
            \/ (Quiet /\ LeaseCleanup)    \/ (Quiet /\ LeaseCleanupRetry)

Next == \/ Progress
        \/ (Quiet /\ MeshStart) \/ (Quiet /\ LeaseLost)
        \/ \E close \in BOOLEAN : Quiet /\ MeshStop(close)

\* Awaited operations return, and timers fire.
Fairness == WF_vars(Progress)

Spec == Init /\ [][Next]_vars /\ Fairness

-----------------------------------------------------------------------------
\* The link's route is never left behind, and registry entries of this process never
\* outlive the step that is to remove them (rollbackMeshStart, stopMesh,
\* handleMeshLeaseLost), whichever of start, stop and lease loss overlap: what is still
\* held belongs to a running or starting server or to a cleanup that is under way, or
\* the failure is on record and bars every start.
NothingIsLeaked ==
    /\ link.up => running \/ start.at # "none" \/ stop # "none" \/ lease.required
    /\ service.running \/ service.owed =>
           \/ running \/ start.at # "none" \/ stop # "none" \/ lease.required \/ deferred \/ cleanupFailure

\* A server that is not being stopped comes back after every lost lease, unless a cleanup
\* failed for good (scheduleMeshRecovery, scheduleMeshLeaseCleanupRetry).
LeaseIsLost == lease.required /\ stop = "none"
BackOrGivenUp == running \/ wants = "stop" \/ cleanupFailure \/ closed
RecoversFromLeaseLoss == LeaseIsLost ~> BackOrGivenUp

\* "A normal lifecycle stop must not be followed by a background recovery, even when it
\* joins lease cleanup already underway": the server does not come up by a start that the
\* recovery began when the application's last call was meshStop().
NoRecoveryAfterStop ==
    [][~running /\ running' => start.by = "app" \/ wants = "start"]_vars

\* "A new meshStart() waits for the pending cleanup and then starts fresh": once
\* operations no longer fail, a start is refused only for a failed cleanup. The code does
\* not keep this: a meshStop() after a lost lease disables the recovery, which alone clears
\* meshLeaseFailure, and every later meshStart() throws it.
RestartsFresh ==
    (caller["app"] = "asking" /\ faults = MaxFaults) ~> (running \/ wants = "stop" \/ cleanupFailure \/ closed)
=============================================================================
