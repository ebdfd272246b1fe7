----------------------------- MODULE MeshInvoke -----------------------------
(* Invocations of a client routed over the mesh to the node that owns it, and  *)
(* the byte-stream senders the client announces while it handles them.  The    *)
(* caller reads the registry and asks the owner; the owner invokes the client   *)
(* under a request ID, collects the announced senders, checks that the stream   *)
(* is still the registered one, and answers.  The client may be slow: its       *)
(* announcements and its answer can arrive after the owner gave up.             *)
EXTENDS Naturals, FiniteSets, FiniteSetsExt

CONSTANTS Calls,         \* mesh invocations
          Senders,       \* byte-stream senders the client may announce
          CallOf,        \* [Senders -> Calls]
          MaxTombstones, \* failed invocations remembered exactly
          MaxAnnounced,  \* senders collected per invocation
          TombstoneTtl,
          Timeout,       \* the caller's budget
          MaxTime        \* bound on the clock

VARIABLES
    now,
    registered,    \* the registry names the stream of this owner
    current,       \* the stream is in streamsByClientId and connected
    caller,        \* per call, at the caller: "idle", "asked", "ok", "failed"
    deadline, ownerDeadline,
    owner,         \* per call, at the owner: "none", "pending", "checking", "ok", "failed"
    client,        \* per call, at the client: "none", "running", "answered"
    announced,     \* announcedSenderIds
    tombstones,    \* failedMeshInvocationTombstones: expiry, 0 when absent
    overflowUntil, \* failedMeshInvocationOverflowUntil
    issued,        \* senders granted to the caller with the result
    destroyed,     \* senders the owner told the client to destroy
    ordinary,      \* announcements left to SrpcServer's own handling
    failedAt       \* history: when the owner gave the invocation up

vars == <<now, registered, current, caller, deadline, ownerDeadline, owner, client, announced, tombstones, overflowUntil,
          issued, destroyed, ordinary, failedAt>>

Init == /\ now = 1 /\ registered = TRUE /\ current = TRUE
        /\ caller = [c \in Calls |-> "idle"] /\ deadline = [c \in Calls |-> 0] /\ ownerDeadline = deadline
        /\ owner = [c \in Calls |-> "none"] /\ client = [c \in Calls |-> "none"]
        /\ announced = [c \in Calls |-> {}]
        /\ tombstones = [c \in Calls |-> 0] /\ overflowUntil = 0
        /\ issued = {} /\ destroyed = {} /\ ordinary = {}
        /\ failedAt = [c \in Calls |-> 0]

-----------------------------------------------------------------------------
(* The caller.                                                                *)

\* invoke(): the registry names the owner and the connection to ask for.
Invoke(c) ==
    /\ caller[c] = "idle" /\ registered
    /\ caller' = [caller EXCEPT ![c] = "asked"]
    /\ deadline' = [deadline EXCEPT ![c] = now + Timeout]
    /\ UNCHANGED <<now, registered, current, ownerDeadline, owner, client, announced, tombstones, overflowUntil,
                   issued, destroyed, ordinary, failedAt>>

\* withinDeadline(): the caller stops waiting, the owner goes on.
CallerTimeout(c) ==
    /\ caller[c] = "asked" /\ now >= deadline[c]
    /\ caller' = [caller EXCEPT ![c] = "failed"]
    /\ UNCHANGED <<now, registered, current, deadline, ownerDeadline, owner, client, announced, tombstones, overflowUntil,
                   issued, destroyed, ordinary, failedAt>>

\* The owner's answer reaches a caller that still waits.
Result(c) ==
    /\ caller[c] = "asked" /\ owner[c] \in {"ok", "failed"} /\ now < deadline[c]
    /\ caller' = [caller EXCEPT ![c] = owner[c]]
    /\ UNCHANGED <<now, registered, current, deadline, ownerDeadline, owner, client, announced, tombstones, overflowUntil,
                   issued, destroyed, ordinary, failedAt>>

-----------------------------------------------------------------------------
(* The owner.                                                                 *)

\* pruneFailedMeshInvocationTombstones(), on every byte-stream operation.
Pruned == [c \in Calls |-> IF tombstones[c] > now THEN tombstones[c] ELSE 0]
PrunedOverflow == IF overflowUntil > now THEN overflowUntil ELSE 0

\* The invoke frame, and invokeLocal.  The residual budget runs from its arrival.
InvokeLocal(c) ==
    /\ owner[c] = "none" /\ caller[c] # "idle" /\ current
    /\ owner' = [owner EXCEPT ![c] = "pending"]
    /\ client' = [client EXCEPT ![c] = "running"]
    /\ ownerDeadline' = [ownerDeadline EXCEPT ![c] = now + Timeout]
    /\ UNCHANGED <<now, registered, current, caller, deadline, announced, tombstones, overflowUntil,
                   issued, destroyed, ordinary, failedAt>>

\* route() refuses a frame: its stream is gone, the lease is not safe, or the
\* peer is no longer a member.
Refuse(c) ==
    /\ owner[c] = "none" /\ caller[c] # "idle"
    /\ owner' = [owner EXCEPT ![c] = "failed"]
    /\ UNCHANGED <<now, registered, current, caller, deadline, ownerDeadline, client, announced, tombstones, overflowUntil,
                   issued, destroyed, ordinary, failedAt>>

\* Mutant: a full list of tombstones drops the failed invocation.
RememberUnlessFull(c) ==
    /\ tombstones' = IF Cardinality({d \in Calls : Pruned[d] # 0}) < MaxTombstones
                     THEN [Pruned EXCEPT ![c] = now + TombstoneTtl] ELSE Pruned
    /\ overflowUntil' = PrunedOverflow

\* rememberFailedMeshInvocation(): when full, one fence for every late announcement.
RememberFailedMeshInvocation(c) ==
    IF Pruned[c] = 0 /\ Cardinality({d \in Calls : Pruned[d] # 0}) >= MaxTombstones
    THEN /\ overflowUntil' = IF PrunedOverflow > now + TombstoneTtl THEN PrunedOverflow ELSE now + TombstoneTtl
         /\ tombstones' = Pruned
    ELSE /\ tombstones' = [Pruned EXCEPT ![c] = now + TombstoneTtl]
         /\ overflowUntil' = PrunedOverflow

\* The catch and finally of invokeLocal.
Fails(c) ==
    /\ owner' = [owner EXCEPT ![c] = "failed"]
    /\ RememberFailedMeshInvocation(c)
    /\ destroyed' = destroyed \cup announced[c]
    /\ announced' = [announced EXCEPT ![c] = {}]
    /\ failedAt' = [failedAt EXCEPT ![c] = now]

\* The client's answer: its announced senders are collected, then the registry is read.
ClientAnswers(c) ==
    /\ client[c] = "running"
    /\ client' = [client EXCEPT ![c] = "answered"]
    /\ owner' = IF owner[c] = "pending" THEN [owner EXCEPT ![c] = "checking"] ELSE owner
    /\ UNCHANGED <<now, registered, current, caller, deadline, ownerDeadline, announced, tombstones, overflowUntil,
                   issued, destroyed, ordinary, failedAt>>

\* The invocation times out, the client reports an error, or its stream ends.
InvokeFails(c) ==
    /\ owner[c] = "pending"
    /\ \/ now >= ownerDeadline[c] /\ UNCHANGED client
       \/ ~current /\ UNCHANGED client
       \/ client' = [client EXCEPT ![c] = "answered"]
    /\ Fails(c)
    /\ UNCHANGED <<now, registered, current, caller, deadline, ownerDeadline, issued, ordinary>>

\* assertCurrentMeshStream(), then the result with its sender grants.
AssertCurrentMeshStream(c) ==
    /\ owner[c] = "checking"
    /\ \/ /\ registered /\ current
          /\ owner' = [owner EXCEPT ![c] = "ok"]
          /\ issued' = issued \cup announced[c]
          /\ announced' = [announced EXCEPT ![c] = {}]
          /\ UNCHANGED <<tombstones, overflowUntil, destroyed, failedAt>>
       \/ /\ ~registered \/ ~current
          /\ Fails(c) /\ UNCHANGED issued
    /\ UNCHANGED <<now, registered, current, caller, deadline, ownerDeadline, client, ordinary>>

\* handleByteSubstreamOperation() for the empty write that announces a sender.
Announce(s) ==
    LET c == CallOf[s]
        pending == owner[c] \in {"pending", "checking"}
    IN /\ client[c] = "running" /\ current
       /\ s \notin announced[c] \cup destroyed \cup ordinary
       /\ tombstones' = Pruned /\ overflowUntil' = PrunedOverflow
       /\ IF Pruned[c] # 0 \/ (~pending /\ PrunedOverflow > now)
          THEN destroyed' = destroyed \cup {s} /\ UNCHANGED <<announced, ordinary>>
          ELSE IF pending
          THEN IF Cardinality(announced[c]) >= MaxAnnounced
               THEN destroyed' = destroyed \cup {s} /\ UNCHANGED <<announced, ordinary>>
               ELSE announced' = [announced EXCEPT ![c] = @ \cup {s}] /\ UNCHANGED <<destroyed, ordinary>>
          ELSE ordinary' = ordinary \cup {s} /\ UNCHANGED <<announced, destroyed>>
       /\ UNCHANGED <<now, registered, current, caller, deadline, ownerDeadline, owner, client, issued, failedAt>>

-----------------------------------------------------------------------------
\* The client moves to another node, and this stream is fenced.
Supersede == /\ registered /\ registered' = FALSE
             /\ UNCHANGED <<now, current, caller, deadline, ownerDeadline, owner, client, announced, tombstones, overflowUntil,
                            issued, destroyed, ordinary, failedAt>>
Fence == /\ ~registered /\ current /\ current' = FALSE
         /\ UNCHANGED <<now, registered, caller, deadline, ownerDeadline, owner, client, announced, tombstones, overflowUntil,
                        issued, destroyed, ordinary, failedAt>>
Tick == /\ now < MaxTime /\ now' = now + 1
        /\ UNCHANGED <<registered, current, caller, deadline, ownerDeadline, owner, client, announced, tombstones, overflowUntil,
                       issued, destroyed, ordinary, failedAt>>

Next == \/ \E c \in Calls : \/ Invoke(c) \/ CallerTimeout(c) \/ Result(c) \/ InvokeLocal(c) \/ Refuse(c)
                            \/ ClientAnswers(c) \/ InvokeFails(c) \/ AssertCurrentMeshStream(c)
        \/ \E s \in Senders : Announce(s)
        \/ Supersede \/ Fence \/ Tick

Spec == Init /\ [][Next]_vars

-----------------------------------------------------------------------------
\* Every sender a client announces for a mesh invocation is handed to the
\* caller with the result or destroyed, however late it comes and however many
\* invocations failed: it is left to ordinary handling only when the
\* invocation failed longer ago than failures are remembered.
SendersAreSettled ==
    /\ \A s \in ordinary : now >= failedAt[CallOf[s]] + TombstoneTtl
    /\ issued \cap destroyed = {}
    /\ \A c \in Calls : owner[c] \notin {"pending", "checking"} => announced[c] = {}
    /\ \A s \in issued : owner[CallOf[s]] = "ok"

-----------------------------------------------------------------------------
(* Sender IDs and receivers of one MeshRemoteSrpcConnection, a handle on a      *)
(* client that another node owns.  The owner reserves IDs for the handle in      *)
(* batches; the handle gives them to its byte streams, asks for more when few    *)
(* are left, and returns them when it goes stale.  The controller gives a stale  *)
(* handle up by closing its capability at the owner, which ends all its routes.  *)
(* Requests may fail, with or without effect at the owner.                       *)

CONSTANTS Batch,        \* IDs per reservation
          LowWater,     \* a refill is asked for at this many
          MaxIds,       \* bound on the IDs the owner hands out
          Receivers,    \* byte streams the client sends
          MaxTracked,   \* receivers with buffered bytes
          MaxBuffered,  \* bytes over all receivers
          MaxFaults

VARIABLES
    stale,
    pool,       \* senderIds
    active,     \* activeSenderIds
    refill,     \* refillPending: "none", "asked", "reserved", "confirmed"
    batch,      \* IDs of the refill under way
    ending,     \* senders whose finish or destroy is under way
    returning,  \* releases under way, each a set of IDs
    cleanup,    \* the controller has a cleanup marker for the handle
    routes,     \* routes confirmed at the owner
    closed,     \* the handle's capability is closed at the owner
    rejected,   \* history: the owner refused a release
    nextId,
    buffered,   \* receiverBufferedBytes
    pressured,  \* backpressuredReceivers
    refused,    \* receivers the owner was told to destroy
    faults

receiving == <<buffered, pressured, refused>>
routing == <<routes, closed, rejected>>
varsSenders == <<stale, pool, active, refill, batch, ending, returning, cleanup, routing, nextId, receiving, faults>>

None == [r \in Receivers |-> 0]
InitSenders == /\ stale = FALSE /\ pool = 1 .. Batch /\ active = {} /\ refill = "none" /\ batch = {}
               /\ ending = {} /\ returning = {} /\ cleanup = FALSE /\ nextId = Batch + 1
               /\ routes = 1 .. Batch /\ closed = FALSE /\ rejected = FALSE
               /\ buffered = None /\ pressured = {} /\ refused = {} /\ faults = 0

Fault == faults < MaxFaults /\ faults' = faults + 1

-----------------------------------------------------------------------------
(* Senders.                                                                   *)

\* refillSenderIds(): at most one at a time, and never for a stale handle.
RefillSenderIds == refill' = IF refill = "none" /\ ~stale THEN "asked" ELSE refill

\* allocateSenderId(): with an empty pool it throws, but asks for more.
AllocateSenderId ==
    /\ ~stale
    /\ IF pool = {}
       THEN UNCHANGED <<pool, active>> /\ RefillSenderIds
       ELSE LET id == Min(pool)
            IN /\ pool' = pool \ {id} /\ active' = active \cup {id}
               /\ IF Cardinality(pool') <= LowWater THEN RefillSenderIds ELSE UNCHANGED refill
    /\ UNCHANGED <<stale, batch, ending, returning, cleanup, routing, nextId, receiving, faults>>

\* reserveAndConfirm() at the owner: a reservation that is not confirmed expires there.
Reserve ==
    /\ refill = "asked" /\ nextId + Batch <= MaxIds + 1
    /\ \/ /\ ~closed /\ batch' = nextId .. nextId + Batch - 1 /\ nextId' = nextId + Batch
          /\ refill' = "reserved" /\ UNCHANGED faults
       \/ closed /\ refill' = "none" /\ UNCHANGED <<batch, nextId, faults>>
       \/ Fault /\ refill' = "none" /\ UNCHANGED <<batch, nextId>>
    /\ UNCHANGED <<stale, pool, active, ending, returning, cleanup, routing, receiving>>

Drop == pool' = {} /\ active' = {} /\ stale' = TRUE /\ buffered' = None /\ pressured' = {}

\* markStale(): every ID, used or not, goes back to the owner.
MarkStale == /\ Drop
             /\ returning' = returning \cup ({pool \cup active} \ {{}})
             /\ UNCHANGED cleanup

\* releaseAndMarkStale() of the controller: the cleanup takes the IDs' place.
Invalidate == Drop /\ cleanup' = TRUE /\ UNCHANGED returning

\* The confirmation: when its outcome is unknown the handle is given up.
Confirm ==
    /\ refill = "reserved"
    /\ \/ /\ ~closed /\ routes' = routes \cup batch /\ refill' = "confirmed"
          /\ UNCHANGED <<stale, pool, active, batch, returning, cleanup, buffered, pressured, faults>>
       \/ /\ refill' = "none" /\ batch' = {} /\ Invalidate
          /\ \/ closed /\ UNCHANGED <<routes, faults>>
             \/ Fault /\ routes' \in {routes} \cup (IF closed THEN {} ELSE {routes \cup batch})
    /\ UNCHANGED <<ending, closed, rejected, nextId, refused>>

\* Mutant: the answer is added to the pool whatever became of the handle.
RefilledIds == /\ pool' = pool \cup batch /\ UNCHANGED returning
\* The answer of a refill: a handle that went stale meanwhile returns the IDs.
Refilled == IF ~stale THEN pool' = pool \cup batch /\ UNCHANGED returning
            ELSE returning' = returning \cup {batch} /\ UNCHANGED pool

RefillEnds ==
    /\ refill = "confirmed" /\ refill' = "none" /\ batch' = {}
    /\ Refilled
    /\ UNCHANGED <<stale, active, ending, cleanup, routing, nextId, receiving, faults>>

\* finishStream() and destroyStream(): the ID is dropped once the owner answered.
EndStream(id) ==
    /\ id \in active \ ending /\ ending' = ending \cup {id}
    /\ UNCHANGED <<stale, pool, active, refill, batch, returning, cleanup, routing, nextId, receiving, faults>>
StreamEnded(id) ==
    /\ id \in ending /\ ending' = ending \ {id}
    /\ \/ routes' = routes \ {id} /\ active' = active \ {id} /\ UNCHANGED faults
       \/ Fault /\ routes' \in {routes, routes \ {id}} /\ UNCHANGED active
    /\ UNCHANGED <<stale, pool, refill, batch, returning, cleanup, closed, rejected, nextId, receiving>>

\* releaseSenderIds(), not awaited and not repeated.  The owner takes all of
\* the IDs back or, when one of them has no route any more, none.
ReleaseArrives(ids) ==
    /\ ids \in returning /\ returning' = returning \ {ids}
    /\ IF ids \subseteq routes THEN routes' = routes \ ids /\ UNCHANGED rejected
                              ELSE rejected' = TRUE /\ UNCHANGED routes
    /\ UNCHANGED <<stale, pool, active, refill, batch, ending, cleanup, closed, nextId, receiving, faults>>

\* receiveFinish() and receiveDestroy() of the client for one of our senders.
ClientEnds(id) ==
    /\ id \in active \cap routes
    /\ routes' = routes \ {id} /\ active' = active \ {id}
    /\ UNCHANGED <<stale, pool, refill, batch, ending, returning, cleanup, closed, rejected, nextId, receiving, faults>>

\* The cleanup marker is worked off: closeHandleCapability() at the owner.
CloseCapability ==
    /\ cleanup /\ ~closed /\ closed' = TRUE /\ routes' = {}
    /\ UNCHANGED <<stale, pool, active, refill, batch, ending, returning, cleanup, rejected, nextId, receiving, faults>>

-----------------------------------------------------------------------------
(* Receivers.                                                                 *)

Total(b) == MapThenSumSet(LAMBDA r : b[r], Receivers)
Tracked(b) == {r \in Receivers : b[r] > 0}

\* receiveWrite() of one byte: over capacity, the stream is destroyed on both sides.
ReceiveWrite(r) ==
    /\ ~stale /\ r \notin refused
    /\ LET b == [buffered EXCEPT ![r] = @ + 1]
       IN IF Cardinality(Tracked(b)) > MaxTracked \/ Total(b) > MaxBuffered
          THEN /\ buffered' = [b EXCEPT ![r] = 0]
               /\ pressured' = pressured \ {r} /\ refused' = refused \cup {r}
          ELSE /\ buffered' = b
               /\ pressured' \in {pressured, pressured \cup {r}}
               /\ UNCHANGED refused
    /\ UNCHANGED <<stale, pool, active, refill, batch, ending, returning, cleanup, routing, nextId, faults>>

\* receiverBufferChanged: the reader takes what is buffered.
Drain(r) ==
    /\ ~stale /\ buffered[r] > 0
    /\ buffered' = [buffered EXCEPT ![r] = 0] /\ pressured' = pressured \ {r}
    /\ UNCHANGED <<stale, pool, active, refill, batch, ending, returning, cleanup, routing, nextId, refused, faults>>

\* receiveWrite(), receiveFinish() or receiveDestroy() throws.
ReceiverFails == /\ ~stale /\ MarkStale
                 /\ UNCHANGED <<refill, batch, ending, routing, nextId, refused, faults>>

\* close(), a failed activation, or pruneRemoteConnections() of a stale handle.
Discard == /\ ~cleanup /\ Invalidate
           /\ UNCHANGED <<refill, batch, ending, routing, nextId, refused, faults>>

NextSenders == \/ AllocateSenderId \/ Reserve \/ Confirm \/ RefillEnds
               \/ ReceiverFails \/ Discard \/ CloseCapability
               \/ \E id \in 1 .. MaxIds : EndStream(id) \/ StreamEnded(id) \/ ClientEnds(id)
               \/ \E ids \in returning : ReleaseArrives(ids)
               \/ \E r \in Receivers : ReceiveWrite(r) \/ Drain(r)

SpecSenders == InitSenders /\ [][NextSenders]_varsSenders

-----------------------------------------------------------------------------
\* No route at the owner is forgotten by the handle: each one is in the pool,
\* in use, on its way in or on its way back, also when the handle goes stale
\* while a refill is under way, until the owner ends them all with the
\* capability; after that none is left.
RoutesAreRemembered ==
    /\ faults = 0 /\ ~rejected /\ ~cleanup => routes \subseteq pool \cup active \cup batch \cup UNION returning
    /\ closed => routes = {}
    /\ stale => pool \cup active = {}
    /\ pool \cap active = {} /\ Total(buffered) <= MaxBuffered
=============================================================================
