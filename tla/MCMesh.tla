------------------------------- MODULE MCMesh -------------------------------
(* Instances of the parts of the mesh for TLC. They share no state here: a   *)
(* behaviour exercises one of them, named by part, whose variables are held  *)
(* in r1, r2, ... in the order of their declaration; the other registers     *)
(* stay 0. Live: the election, the membership and the cleanup of dead nodes  *)
(* with their liveness. Srpc: byte streams, admission, and of the mesh server *)
(* the lifecycle, callbacks, remote handles and orphans. Mesh: cleanup,      *)
(* registry, metadata, broadcasts, links, peer trust, pins, invocations,     *)
(* operations and senders. The Fair actions join, for each part, an action it *)
(* is fair to.                                                               *)
EXTENDS Naturals, Sequences, FiniteSets

CONSTANTS NoGeneration, NoLock, NoClaim

VARIABLES part, r1, r2, r3, r4, r5, r6, r7, r8, r9, r10, r11, r12, r13, r14, r15, r16, r17

allvars == <<part, r1, r2, r3, r4, r5, r6, r7, r8, r9, r10, r11, r12, r13, r14, r15, r16, r17>>

MCTokens == {[cid |-> 1, nonce |-> 1, ts |-> 0], [cid |-> 1, nonce |-> 2, ts |-> 1],
             [cid |-> 2, nonce |-> 1, ts |-> 1]}

Leader == INSTANCE LeaderService WITH
    Instances <- {1, 2}, RetryOnCallbackError <- TRUE, MaxGen <- 1, MaxErrors <- 0, key <- r1,
    running <- r2, isLeader <- r3, lockGen <- r4, retryTimers <- r5, renewals <- r6,
    callbacks <- r7, cmds <- r8, errors <- r9, lapsed <- r10
Member == INSTANCE MeshMembership WITH
    Nodes <- {"n"}, Disciplined <- TRUE, TTL <- 1, MaxTime <- 2, MaxId <- 2, MaxGen <- 2,
    MaxQueue <- 1, MaxFaults <- 1, None <- NoGeneration, now <- r1, nextId <- r2, members <- r3,
    score <- r4, nodes <- r5, obligations <- r6, cmds <- r7, running <- r8, leaseLost <- r9,
    generation <- r10, instanceId <- r11, leaseSafeUntil <- r12, safetyTimer <- r13,
    heartbeatGeneration <- r14, op <- r15, lifecycle <- r16, faults <- r17
OneCleaner == INSTANCE MeshCleanup WITH
    Nodes <- {"n"}, Ids <- {1, 2}, Poison <- {1}, BatchSize <- 1, MaxDrains <- 2, MaxEpoch <- 4,
    MaxFaults <- 0, expired <- r1, cleanup <- r2, processing <- r3, running <- r4, safe <- r5,
    election <- r6, leading <- r7, epoch <- r8, drains <- r9, again <- r10, late <- r11,
    died <- r12, finished <- r13, faults <- r14
Streams == INSTANCE SrpcByteStream WITH
    Ids <- {1, 3}, MaxWrites <- 2, MaxFrames <- 2, HighWater <- 2, MaxPendingOne <- 1,
    MaxPendingAll <- 2, MaxPendingIds <- 1, MaxFlagged <- 1, MaxBuffered <- 3, MaxTerminal <- 1,
    sender <- r1, terminal <- r2, written <- r3, receiver <- r4, pending <- r5, bytes <- r6,
    flagged <- r7, up <- r8, down <- r9, link <- r10, got <- r11, expired <- r12
Admission == INSTANCE SrpcAdmission WITH
    Tokens <- MCTokens, Servers <- {1, 2}, Handshakes <- {1, 2, 3}, Drift <- 1, MaxTime <- 2,
    MaxPending <- 2, MaxStreams <- 1, MaxPrincipals <- 1, MaxNonces <- 1, MaxShared <- 2,
    now <- r1, hasConsumer <- r2, hs <- r3, seen <- r4, shared <- r5, pendings <- r6,
    streams <- r7, passed <- r8
Registry == INSTANCE MeshRegistry WITH
    Dead <- {1, 2}, Drainers <- {1, 2}, MaxItems <- 1, MaxBytes <- 2, MaxFaults <- 2,
    registered <- r1, orphans <- r2, accounting <- r3, drain <- r4, safe <- r5, pending <- r6,
    pendingBytes <- r7, hasDurableOrphanBackend <- r8, faults <- r9, settled <- r10,
    Clients <- {1, 2}, Nodes <- {1, 2}, MaxClientsPerNode <- 2, Ttl <- 2, Interval <- 1,
    MaxTime <- 3, MaxWrites <- 2, now <- r1, rec <- r2, members <- r3, until <- r4, up <- r5,
    owned <- r6, conns <- r7, list <- r8
Server == INSTANCE MeshSrpcLifecycle WITH
    MaxFaults <- 2, MaxCalls <- 3, caller <- r1, start <- r2, stop <- r3, running <- r4,
    closed <- r5, link <- r6, service <- r7, deferred <- r8, rollbackFailed <- r9,
    cleanupFailure <- r10, lease <- r11, recovery <- r12, wants <- r13, calls <- r14,
    faults <- r15
Callbacks == INSTANCE MeshCallbacks WITH
    MaxStreams <- 2, MaxFaults <- 2, st <- r1, current <- r2, record <- r3, claim <- r4,
    phase <- r5, fatal <- r6, chain <- r7, cbs <- r8, metadata <- r9, published <- r10,
    pending <- r11, gated <- r12, fence <- r13, queued <- r14, log <- r15, excused <- r16,
    faults <- r17
Handles == INSTANCE MeshSrpcHandles WITH
    Handles <- {"c"}, MaxConns <- 2, MaxFaults <- 1, conn <- r1, closing <- r2, owner <- r3,
    invoking <- r4, forwards <- r5, remote <- r6, cleanup <- r7, tombstones <- r8,
    closedOwner <- r9, closed <- r10, wire <- r11, faults <- r12
TwoCleaners == INSTANCE MeshCleanup WITH
    Nodes <- {1, 2}, Ids <- {3}, Poison <- {}, BatchSize <- 1, MaxDrains <- 1, MaxEpoch <- 3,
    MaxFaults <- 1, expired <- r1, cleanup <- r2, processing <- r3, running <- r4, safe <- r5,
    election <- r6, leading <- r7, epoch <- r8, drains <- r9, again <- r10, late <- r11,
    died <- r12, finished <- r13, faults <- r14
Metadata == INSTANCE MeshMetadata WITH
    Fields <- {"x", "y"}, Updates <- {1}, MaxMutations <- 2, MaxFaults <- 1, meta <- r1,
    registry <- r2, cache <- r3, dirty <- r4, queue <- r5, wire <- r6, update <- r7,
    current <- r8, retry <- r9, mutations <- r10, faults <- r11, overlapped <- r12
Broadcasts == INSTANCE MeshBroadcast WITH
    Messages <- {1, 2}, Sizes <- {2}, maxMessageBytes <- 2, maxActiveHandlers <- 2,
    maxActiveHandlerBytes <- 3, MaxStarts <- 2, MaxStops <- 1, service <- r1, tasks <- r2,
    published <- r3, net <- r4, members <- r5, nextId <- r6, sent <- r7, heard <- r8, calls <- r9
Routing == INSTANCE MeshInvoke WITH
    Calls <- {1, 2}, Senders <- {1, 2, 3}, CallOf <- <<1, 1, 2>>, MaxTombstones <- 1,
    MaxAnnounced <- 1, TombstoneTtl <- 2, Timeout <- 1, MaxTime <- 4, now <- r1, registered <- r2,
    current <- r3, caller <- r4, deadline <- r5, ownerDeadline <- r6, owner <- r7, client <- r8,
    announced <- r9, tombstones <- r10, overflowUntil <- r11, issued <- r12, destroyed <- r13,
    ordinary <- r14, failedAt <- r15, Batch <- 2, LowWater <- 1, MaxIds <- 4, Receivers <- {1, 2},
    MaxTracked <- 1, MaxBuffered <- 2, MaxFaults <- 1, stale <- r1, pool <- r2, active <- r3,
    refill <- r4, batch <- r5, ending <- r6, returning <- r7, cleanup <- r8, routes <- r9,
    closed <- r10, rejected <- r11, nextId <- r12, buffered <- r13, pressured <- r14,
    refused <- r15, faults <- r16
Operations == INSTANCE MeshClientCalls WITH
    Nodes <- {1, 2}, Calls <- {1}, MaxConns <- 2, MaxLapses <- 1, phase <- r1, generation <- r2,
    stream <- r3, home <- r4, record <- r5, claimed <- r6, pc <- r7, task <- r8, ask <- r9,
    since <- r10, seen <- r11, target <- r12, ok <- r13, result <- r14, effects <- r15,
    lapses <- r16
Link == INSTANCE MeshLink WITH
    MaxLinks <- 3, MaxInbound <- 2, MaxOutbound <- 2, MaxFaults <- 2, from <- r1, end <- r2,
    answer <- r3, winner <- r4, cached <- r5, closed <- r6, faults <- r7, Proofs <- {1, 2},
    ClockSkew <- 2, NonceTtl <- 4, BucketMs <- 2, MaxRemembered <- 1, MaxTime <- 11,
    Owners <- {1}, Handshakes <- {1}, now <- r1, timestamp <- r2, seen <- r3, buckets <- r4,
    lastPruned <- r5, accepted <- r6, pin <- r7, held <- r8, handshake <- r9
Peer == INSTANCE MeshLinkPeer WITH
    Requests <- {1, 2, 3}, LinkOf <- <<1, 1, 2>>, MaxInFlight <- 2, MaxCompleted <- 1,
    MaxCompletedBytes <- 2, Reserve <- 1, Sizes <- {2}, MaxFaults <- 2, at <- r1, wire <- r2,
    closed <- r3, active <- r4, budget <- r5, completed <- r6, runs <- r7, forgotten <- r8,
    faults <- r9
Controller == INSTANCE MeshLinkController WITH
    Control <- {1}, Stream <- {2, 3}, Ttl <- 2, Latency <- 1, MaxTime <- 6, now <- r1,
    leftAt <- r2, lookup <- r3, verifying <- r4, verifiedAt <- r5, seenAt <- r6, frame <- r7,
    Endpoints <- {1, 2, 3, 4}, MaxEndpointPins <- 2, MaxRemoteConnections <- 3, pins <- r1,
    resolving <- r2, remote <- r3, cleanup <- r4, refused <- r5

\* What the proofs assume of the constants holds of the instances checked here.
ASSUME ProvedOfTheInstances ==
    /\ OneCleaner!CleanupAssumption /\ TwoCleaners!CleanupAssumption
    /\ Admission!AdmissionAssumption

\* The registers that a part of so many variables leaves alone.
rest5 == <<r6, r7, r8, r9, r10, r11, r12, r13, r14, r15, r16, r17>>
rest7 == <<r8, r9, r10, r11, r12, r13, r14, r15, r16, r17>>
rest8 == <<r9, r10, r11, r12, r13, r14, r15, r16, r17>>
rest9 == <<r10, r11, r12, r13, r14, r15, r16, r17>>
rest10 == <<r11, r12, r13, r14, r15, r16, r17>>
rest12 == <<r13, r14, r15, r16, r17>>
rest14 == <<r15, r16, r17>>
rest15 == <<r16, r17>>
rest16 == <<r17>>

-----------------------------------------------------------------------------
InitLive ==
    \/ part = "leader" /\ Leader!Init
       /\ r11 = 0 /\ r12 = 0 /\ r13 = 0 /\ r14 = 0 /\ r15 = 0 /\ r16 = 0 /\ r17 = 0
    \/ part = "membership" /\ Member!Init
    \/ part = "cleanup" /\ OneCleaner!Init
       /\ r15 = 0 /\ r16 = 0 /\ r17 = 0

NextLive ==
    \/ part = "leader" /\ Leader!Next /\ UNCHANGED <<part, rest10>>
    \/ part = "membership" /\ Member!Next /\ UNCHANGED part
    \/ part = "cleanup" /\ OneCleaner!Next /\ UNCHANGED <<part, rest14>>

LiveFair1 ==
    \/ part = "leader" /\ Leader!RetryFires(1) /\ UNCHANGED <<part, rest10>>
    \/ part = "membership" /\ Member!ServesLifecycle("n") /\ UNCHANGED part
    \/ part = "cleanup" /\ OneCleaner!HeartbeatCleanup("n") /\ UNCHANGED <<part, rest14>>

LiveFair2 ==
    \/ part = "leader" /\ Leader!RenewTicks(1) /\ UNCHANGED <<part, rest10>>
    \/ part = "membership" /\ Member!SafetyTimerFires("n") /\ UNCHANGED part
    \/ part = "cleanup" /\ OneCleaner!ContinuationFires("n") /\ UNCHANGED <<part, rest14>>

LiveFair3 ==
    \/ part = "leader" /\ Leader!StaleAcquires(1) /\ UNCHANGED <<part, rest10>>
    \/ part = "membership" /\ Member!Serves("n", "create") /\ UNCHANGED part
    \/ part = "cleanup" /\ OneCleaner!DrainProceeds("n") /\ UNCHANGED <<part, rest14>>

LiveFair4 ==
    \/ part = "leader" /\ Leader!AcquiresAnswered(1) /\ UNCHANGED <<part, rest10>>
    \/ part = "membership" /\ Member!Serves("n", "register") /\ UNCHANGED part

LiveFair5 ==
    \/ part = "leader" /\ Leader!RenewalsAnswered(1) /\ UNCHANGED <<part, rest10>>
    \/ part = "membership" /\ Member!Serves("n", "renew") /\ UNCHANGED part

LiveFair6 ==
    \/ part = "leader" /\ Leader!Executes(1, "acquire") /\ UNCHANGED <<part, rest10>>
    \/ part = "membership" /\ Member!Serves("n", "update") /\ UNCHANGED part

LiveFair7 ==
    \/ part = "leader" /\ Leader!Executes(1, "renew") /\ UNCHANGED <<part, rest10>>
    \/ part = "membership" /\ Member!Serves("n", "deregister") /\ UNCHANGED part

LiveFair8 ==
    \/ part = "leader" /\ Leader!RetryFires(2) /\ UNCHANGED <<part, rest10>>

LiveFair9 ==
    \/ part = "leader" /\ Leader!RenewTicks(2) /\ UNCHANGED <<part, rest10>>

LiveFair10 ==
    \/ part = "leader" /\ Leader!StaleAcquires(2) /\ UNCHANGED <<part, rest10>>

LiveFair11 ==
    \/ part = "leader" /\ Leader!AcquiresAnswered(2) /\ UNCHANGED <<part, rest10>>

LiveFair12 ==
    \/ part = "leader" /\ Leader!RenewalsAnswered(2) /\ UNCHANGED <<part, rest10>>

LiveFair13 ==
    \/ part = "leader" /\ Leader!Executes(2, "acquire") /\ UNCHANGED <<part, rest10>>

LiveFair14 ==
    \/ part = "leader" /\ Leader!Executes(2, "renew") /\ UNCHANGED <<part, rest10>>

LiveFair15 ==
    \/ part = "leader" /\ Leader!GhostsVanish /\ UNCHANGED <<part, rest10>>

LiveFair16 ==
    \/ part = "leader" /\ Leader!AbandonedLeaseLapses /\ UNCHANGED <<part, rest10>>

SpecLive == /\ InitLive /\ [][NextLive]_allvars
            /\ WF_allvars(LiveFair1)
            /\ WF_allvars(LiveFair2)
            /\ WF_allvars(LiveFair3)
            /\ WF_allvars(LiveFair4)
            /\ WF_allvars(LiveFair5)
            /\ WF_allvars(LiveFair6)
            /\ WF_allvars(LiveFair7)
            /\ WF_allvars(LiveFair8)
            /\ WF_allvars(LiveFair9)
            /\ WF_allvars(LiveFair10)
            /\ WF_allvars(LiveFair11)
            /\ WF_allvars(LiveFair12)
            /\ WF_allvars(LiveFair13)
            /\ WF_allvars(LiveFair14)
            /\ WF_allvars(LiveFair15)
            /\ WF_allvars(LiveFair16)

\* What a service sets up it also ends: a leader has one renewal interval and
\* nobody else has any, an id listed in Redis belongs to a node that still uses
\* it, is being deregistered or waits for its cleanup (without rejected calls
\* and crashes), its metadata never outlives its heartbeat, and a node keeps a
\* bounded number of cleanup drains, one per epoch.
NothingIsForgotten ==
    /\ part = "leader" => Leader!RenewalFollowsLeadership
    /\ part = "membership" => Member!NoOrphans /\ Member!MetadataHasHeartbeat
    /\ part = "cleanup" => OneCleaner!DrainsBounded

\* Work goes on: calls of start() and stop(), whatever happens to their Redis
\* calls, never leave the lifecycle chain of a node blocked; while some
\* instance takes part in the election one is leader again and again (crashed
\* and stopped leaders do not block it), and a leader that keeps its authority
\* runs the cleanup callback of every dead node whose callback can succeed,
\* however many others reject.
WorkGoesOn == []<>(
    /\ part = "leader" => Leader!Led
    /\ part = "membership" => Member!Settled("n")
    /\ part = "cleanup" => OneCleaner!CaughtUp("n"))

\* Nobody acts on a lost lease for ever: a leader whose lease is gone steps
\* down (or gets it back), and a node whose lease ran out stops running by its
\* safety timer even if Redis never answers.
LossIsNoticed == 
    /\ []<>(part = "leader" => Leader!Notices(1))
    /\ []<>(part = "leader" => Leader!Notices(2))
    /\ []<>(part = "membership" => Member!Fenced("n"))

-----------------------------------------------------------------------------
InitSrpc ==
    \/ part = "streams" /\ Streams!Init
       /\ r13 = 0 /\ r14 = 0 /\ r15 = 0 /\ r16 = 0 /\ r17 = 0
    \/ part = "admission" /\ Admission!Init
       /\ r9 = 0 /\ r10 = 0 /\ r11 = 0 /\ r12 = 0 /\ r13 = 0 /\ r14 = 0 /\ r15 = 0 /\ r16 = 0
       /\ r17 = 0
    \/ part = "orphans" /\ Registry!InitOrphans
       /\ r11 = 0 /\ r12 = 0 /\ r13 = 0 /\ r14 = 0 /\ r15 = 0 /\ r16 = 0 /\ r17 = 0
    \/ part = "lifecycle" /\ Server!Init
       /\ r16 = 0 /\ r17 = 0
    \/ part = "callbacks" /\ Callbacks!Init
    \/ part = "handles" /\ Handles!Init
       /\ r13 = 0 /\ r14 = 0 /\ r15 = 0 /\ r16 = 0 /\ r17 = 0

NextSrpc ==
    \/ part = "streams" /\ Streams!Next /\ UNCHANGED <<part, rest12>>
    \/ part = "admission" /\ Admission!Next /\ UNCHANGED <<part, rest8>>
    \/ part = "orphans" /\ Registry!NextOrphans /\ UNCHANGED <<part, rest10>>
    \/ part = "lifecycle" /\ Server!Next /\ UNCHANGED <<part, rest15>>
    \/ part = "callbacks" /\ Callbacks!Next /\ UNCHANGED part
    \/ part = "handles" /\ Handles!Next /\ UNCHANGED <<part, rest12>>

SrpcFair1 ==
    \/ part = "streams" /\ Streams!ServerReceives /\ UNCHANGED <<part, rest12>>
    \/ part = "orphans" /\ Registry!ProgressOrphans /\ UNCHANGED <<part, rest10>>
    \/ part = "lifecycle" /\ Server!Progress /\ UNCHANGED <<part, rest15>>
    \/ part = "callbacks" /\ Callbacks!Progress /\ UNCHANGED part
    \/ part = "handles" /\ Handles!Progress /\ UNCHANGED <<part, rest12>>

SrpcFair2 ==
    \/ part = "streams" /\ Streams!ClientReceives /\ UNCHANGED <<part, rest12>>
    \/ part = "handles" /\ Handles!Timers /\ UNCHANGED <<part, rest12>>

SrpcFair3 ==
    \/ part = "streams" /\ Streams!handleDisconnect /\ UNCHANGED <<part, rest12>>
    \/ part = "handles" /\ Handles!Invalidations /\ UNCHANGED <<part, rest12>>

SrpcFair4 ==
    \/ part = "streams" /\ Streams!read(1) /\ UNCHANGED <<part, rest12>>

SrpcFair5 ==
    \/ part = "streams" /\ Streams!read(3) /\ UNCHANGED <<part, rest12>>

SpecSrpc == /\ InitSrpc /\ [][NextSrpc]_allvars
            /\ WF_allvars(SrpcFair1)
            /\ WF_allvars(SrpcFair2)
            /\ WF_allvars(SrpcFair3)
            /\ WF_allvars(SrpcFair4)
            /\ WF_allvars(SrpcFair5)

\* The budgets that several paths count up and down are exact and kept: data
\* retained for byte streams without a receiver, pending and attached
\* connections across awaited lookups, and the queues of orphans that several
\* nodes fill and empty.
BudgetsAreExact ==
    /\ part = "streams" => Streams!PendingAccounting
    /\ part = "admission" => Admission!AdmissionBounded
    /\ part = "orphans" => Registry!OrphanAccounting

\* What is read of a byte stream is a prefix of what was written, however early
\* it arrived; an offline callback follows its own online callback, once, and
\* never that of a later connection.
OrderIsKept ==
    /\ part = "streams" => Streams!ReaderSeesPrefix
    /\ part = "callbacks" => Callbacks!CallbacksInOrder

\* A signed token admits at most one connection, although it is presented to
\* several servers at once and they forget.
TokenAdmitsOnce ==
    /\ part = "admission" => Admission!TokenAdmitsOnce

\* Nothing outlives what it belongs to: the link and the registry entries of a
\* server that is down, and the routes, senders and receivers of a remote
\* handle that has ended, are removed or about to be.
NothingIsLeaked ==
    /\ part = "lifecycle" => Server!NothingIsLeaked
    /\ part = "handles" => Handles!NothingOutlivesItsHandle

\* Every end is told: receivers whose sender is done are released, the clients
\* of every dead node are reported, every announced connection that is gone
\* gets its offline callback, and the two ends of a handle agree.
EverybodyIsTold == []<>(
    /\ part = "streams" => Streams!LetGo(1) /\ Streams!LetGo(3)
    /\ part = "orphans" => Registry!AllSettled
    /\ part = "callbacks" => Callbacks!AllEnded
    /\ part = "handles" => ~Handles!Disagree("c"))

\* A mesh server that is not being stopped comes back after every lost lease,
\* unless a cleanup failed for good.
RecoversFromLeaseLoss == 
    (part = "lifecycle" /\ Server!LeaseIsLost) ~> (part = "lifecycle" /\ Server!BackOrGivenUp)

-----------------------------------------------------------------------------
InitMesh ==
    \/ part = "cleanup" /\ TwoCleaners!Init
       /\ r15 = 0 /\ r16 = 0 /\ r17 = 0
    \/ part = "registry" /\ Registry!Init
       /\ r9 = 0 /\ r10 = 0 /\ r11 = 0 /\ r12 = 0 /\ r13 = 0 /\ r14 = 0 /\ r15 = 0 /\ r16 = 0
       /\ r17 = 0
    \/ part = "metadata" /\ Metadata!Init
       /\ r13 = 0 /\ r14 = 0 /\ r15 = 0 /\ r16 = 0 /\ r17 = 0
    \/ part = "broadcast" /\ Broadcasts!Init
       /\ r10 = 0 /\ r11 = 0 /\ r12 = 0 /\ r13 = 0 /\ r14 = 0 /\ r15 = 0 /\ r16 = 0 /\ r17 = 0
    \/ part = "invoke" /\ Routing!Init
       /\ r16 = 0 /\ r17 = 0
    \/ part = "senders" /\ Routing!InitSenders
       /\ r17 = 0
    \/ part = "operations" /\ Operations!Init
       /\ r17 = 0
    \/ part = "link" /\ Link!Init
       /\ r8 = 0 /\ r9 = 0 /\ r10 = 0 /\ r11 = 0 /\ r12 = 0 /\ r13 = 0 /\ r14 = 0 /\ r15 = 0
       /\ r16 = 0 /\ r17 = 0
    \/ part = "peer" /\ Peer!Init
       /\ r10 = 0 /\ r11 = 0 /\ r12 = 0 /\ r13 = 0 /\ r14 = 0 /\ r15 = 0 /\ r16 = 0 /\ r17 = 0
    \/ part = "auth" /\ Link!InitAuth
       /\ r10 = 0 /\ r11 = 0 /\ r12 = 0 /\ r13 = 0 /\ r14 = 0 /\ r15 = 0 /\ r16 = 0 /\ r17 = 0
    \/ part = "trust" /\ Controller!Init
       /\ r8 = 0 /\ r9 = 0 /\ r10 = 0 /\ r11 = 0 /\ r12 = 0 /\ r13 = 0 /\ r14 = 0 /\ r15 = 0
       /\ r16 = 0 /\ r17 = 0
    \/ part = "pins" /\ Controller!InitPins
       /\ r6 = 0 /\ r7 = 0 /\ r8 = 0 /\ r9 = 0 /\ r10 = 0 /\ r11 = 0 /\ r12 = 0 /\ r13 = 0
       /\ r14 = 0 /\ r15 = 0 /\ r16 = 0 /\ r17 = 0

NextMesh ==
    \/ part = "cleanup" /\ TwoCleaners!Next /\ UNCHANGED <<part, rest14>>
    \/ part = "registry" /\ Registry!Next /\ UNCHANGED <<part, rest8>>
    \/ part = "metadata" /\ Metadata!Next /\ UNCHANGED <<part, rest12>>
    \/ part = "broadcast" /\ Broadcasts!Next /\ UNCHANGED <<part, rest9>>
    \/ part = "invoke" /\ Routing!Next /\ UNCHANGED <<part, rest15>>
    \/ part = "senders" /\ Routing!NextSenders /\ UNCHANGED <<part, rest16>>
    \/ part = "operations" /\ Operations!Next /\ UNCHANGED <<part, rest16>>
    \/ part = "link" /\ Link!Next /\ UNCHANGED <<part, rest7>>
    \/ part = "peer" /\ Peer!Next /\ UNCHANGED <<part, rest9>>
    \/ part = "auth" /\ Link!NextAuth /\ UNCHANGED <<part, rest9>>
    \/ part = "trust" /\ Controller!Next /\ UNCHANGED <<part, rest7>>
    \/ part = "pins" /\ Controller!NextPins /\ UNCHANGED <<part, rest5>>

SpecMesh == /\ InitMesh /\ [][NextMesh]_allvars

\* What Redis says of the mesh is right whatever is lost, late or resent: the
\* cleanup obligation of a dead node stays in exactly one list until its
\* callback has succeeded; a running node's record never expires, and a listing
\* names every client that stayed registered and no client twice; every
\* metadata mutation of a live stream is written or still due.
RedisHoldsTheTruth ==
    /\ part = "cleanup" => TwoCleaners!NoObligationLost /\ TwoCleaners!NoObligationCopied
    /\ part = "registry" => Registry!ListingIsExact /\ Registry!RunningNodesKeepRecords
    /\ part = "metadata" => Metadata!MutationsReachRegistry

\* Two nodes use one link and run each request once: of simultaneous links at
\* most one survives at both ends, a request resent on another link is answered
\* from the first run, a proof is accepted once and every remembered one is
\* found again when it is due to be forgotten, frames are accepted only from a
\* peer that was a member recently, and endpoint pins follow the connections
\* that need them.
LinksAreSound ==
    /\ part = "link" => Link!OneLink
    /\ part = "peer" => Peer!RunsOnce
    /\ part = "auth" => Link!AcceptedOnce /\ Link!NothingIsStranded
    /\ part = "trust" => Controller!FramesAreTrusted
    /\ part = "pins" => Controller!PinsFollowObligations

=============================================================================
