--------------------------- MODULE MeshBroadcast ---------------------------
(***************************************************************************)
(* The broadcasts of MeshService (src/src/services/mesh.ts): a message is  *)
(* handed to the sender's own handler and published on a Redis channel;    *)
(* every subscriber validates the sender's membership and runs its         *)
(* handler.  Work in flight is counted twice: incoming envelopes per       *)
(* service, handlers per broadcast generation.  A stop or a lost lease     *)
(* discards the generation and aborts its signal at once, while the work   *)
(* it started goes on and ends later.  Membership itself is the subject of *)
(* MeshMembership: here one process is followed, its lease is safe or has  *)
(* lapsed, and a peer is an instance that is a member or no longer one.    *)
(***************************************************************************)
EXTENDS Integers, Sequences, FiniteSets, FiniteSetsExt

CONSTANTS
    Messages,           \* the broadcasts, each sent at most once
    Sizes,              \* possible sizes of an envelope
    maxMessageBytes,
    maxActiveHandlers,
    maxActiveHandlerBytes,
    MaxStarts,          \* bound: calls of start(), in all
    MaxStops            \* bound: stops, lapses and failed starts, together

VARIABLES
    service,    \* the fields of the process's MeshService
    tasks,      \* incoming envelopes and handlers in flight
    published,  \* PUBLISH commands sent and not executed
    net,        \* messages on their way to the process, with the generation
                \* of the subscriber they were passed to
    members,    \* the instance IDs with a heartbeat at Redis
    nextId,     \* the next_id counter
    sent,       \* history: messages broadcast
    heard,      \* history: how often a handler was started for a message
    calls       \* bound: starts, and what ends a generation

vars == <<service, tasks, published, net, members, nextId, sent, heard, calls>>

\* The instance ID of a peer; those of this process follow.
Peer == 1

\* createBroadcastGeneration(): an object with its own counters and signal.
Fresh == [count |-> 0, bytes |-> 0, aborted |-> FALSE]

WithGeneration(r) == [r EXCEPT !.objs = Append(@, Fresh), !.cur = Len(r.objs) + 1]

\* discardBroadcastGeneration()
Discard(r) ==
    LET next == WithGeneration(r) IN
    [next EXCEPT !.objs[r.cur] = [Fresh EXCEPT !.aborted = TRUE]]

\* fenceLeaseLoss(): synchronously revokes, and queues the physical stop.
Fenced(r) ==
    IF r.lost THEN r
    ELSE [Discard(r) EXCEPT !.lost = TRUE, !.running = FALSE, !.pend = Append(@, "stop")]

\* assertLeaseSafe() returns, or throws after fencing.
Safe(r) == r.running /\ ~r.lost /\ r.safe
AfterAssert(r) == IF r.running /\ ~r.lost /\ ~r.safe THEN Fenced(r) ELSE r

Stopped == [running |-> FALSE, lost |-> FALSE, safe |-> FALSE, gen |-> 0, id |-> 0,
            op |-> "idle", pend |-> <<>>, sub |-> FALSE, inN |-> 0, inB |-> 0,
            objs |-> <<Fresh>>, cur |-> 1]

Init ==
    /\ service = Stopped
    /\ tasks = {}
    /\ published = {}
    /\ net = {}
    /\ members = {Peer}
    /\ nextId = Peer + 1
    /\ sent = {}
    /\ heard = [m \in Messages |-> 0]
    /\ calls = [start |-> 0, stop |-> 0]

\* The bound on what ends a generation.
Ends == calls.stop < MaxStops /\ calls' = [calls EXCEPT !.stop = @ + 1]

-----------------------------------------------------------------------------
\* The lifecycle, serialized by runLifecycle().

\* start() queues startImpl().
Start ==
    /\ calls.start < MaxStarts
    /\ calls' = [calls EXCEPT !.start = @ + 1]
    /\ service' = [service EXCEPT !.pend = Append(@, "start")]
    /\ UNCHANGED <<tasks, published, net, members, nextId, sent, heard>>

\* stop() revokes at once and queues stopImpl().
Stop ==
    /\ Ends
    /\ service' = [Discard(service) EXCEPT !.running = FALSE, !.pend = Append(@, "stop")]
    /\ UNCHANGED <<tasks, published, net, members, nextId, sent, heard>>

\* startImpl() up to its subscription: a running service rejects the call.
\* INCR is answered after every PUBLISH the process sent before it, on the
\* same connection.
StartBegins ==
    LET r == service IN
    /\ r.op = "idle" /\ r.pend # <<>> /\ Head(r.pend) = "start"
    /\ published = {}
    /\ IF r.running
       THEN /\ service' = [r EXCEPT !.pend = Tail(@)]
            /\ UNCHANGED <<nextId, members>>
       ELSE /\ service' = [WithGeneration(r) EXCEPT
                             !.pend = Tail(@), !.gen = @ + 1, !.id = nextId,
                             !.op = "starting", !.sub = TRUE]
            /\ nextId' = nextId + 1
            /\ members' = members \union {nextId}
    /\ UNCHANGED <<tasks, published, net, sent, heard, calls>>

\* The heartbeat and the metadata are written: the service runs.
StartSucceeds ==
    /\ service.op = "starting"
    /\ service' = [service EXCEPT !.op = "idle", !.running = TRUE, !.lost = FALSE,
                                  !.safe = TRUE]
    /\ UNCHANGED <<tasks, published, net, members, nextId, sent, heard, calls>>

\* The catch of startImpl(); DEREGISTER may be lost.
StartFails ==
    LET r == service IN
    /\ r.op = "starting" /\ Ends
    /\ service' = [WithGeneration(r) EXCEPT !.objs[r.cur].aborted = TRUE,
                     !.op = "idle", !.sub = FALSE, !.id = 0]
    /\ net' = {}
    /\ members' \in {members, members \ {r.id}}
    /\ UNCHANGED <<tasks, published, nextId, sent, heard>>

\* stopImpl(): a new generation number, the subscriber closed, DEREGISTER.
StopImpl ==
    LET r == service IN
    /\ r.op = "idle" /\ r.pend # <<>> /\ Head(r.pend) = "stop"
    /\ service' = [Discard(r) EXCEPT !.pend = Tail(@), !.running = FALSE,
                     !.gen = @ + 1, !.sub = FALSE, !.id = 0]
    /\ net' = {}
    /\ members' \in {members, members \ {r.id}}
    /\ UNCHANGED <<tasks, published, nextId, sent, heard, calls>>

\* The lease lapses by the process's own clock.
Lapse ==
    /\ service.running /\ service.safe /\ Ends
    /\ service' = [service EXCEPT !.safe = FALSE]
    /\ UNCHANGED <<tasks, published, net, members, nextId, sent, heard>>

\* The safety timer, a failed heartbeat or a caller finds it lapsed.
LapseIsSeen ==
    /\ service.running /\ ~service.lost /\ ~service.safe
    /\ service' = Fenced(service)
    /\ UNCHANGED <<tasks, published, net, members, nextId, sent, heard, calls>>

\* The peer leaves, or its heartbeat expires.
PeerLeaves ==
    /\ Peer \in members
    /\ members' = members \ {Peer}
    /\ UNCHANGED <<service, tasks, published, net, nextId, sent, heard, calls>>

-----------------------------------------------------------------------------
\* Handlers.

\* handleBroadcastMessage() refuses a message over the generation's capacity.
HasRoom(r, m) ==
    /\ r.objs[r.cur].count < maxActiveHandlers
    /\ r.objs[r.cur].bytes + m.size <= maxActiveHandlerBytes

Counted(r, m) ==
    [r EXCEPT !.objs[r.cur].count = @ + 1, !.objs[r.cur].bytes = @ + m.size]

HandlerTask(r, m) == [kind |-> "handler", stage |-> "queued", pin |-> r.cur, msg |-> m]

\* broadcast(): delivered locally unless skipSelf, then published.
Broadcast(id, size, skipSelf) ==
    LET r == service
        m == [id |-> id, sender |-> r.id, size |-> size]
    IN
    /\ id \notin sent /\ Safe(r) /\ size <= maxMessageBytes
    /\ sent' = sent \union {id}
    /\ published' = published \union {m}
    /\ IF skipSelf \/ ~HasRoom(r, m)
       THEN UNCHANGED <<service, tasks>>
       ELSE /\ service' = Counted(r, m)
            /\ tasks' = tasks \union {HandlerTask(r, m)}
    /\ UNCHANGED <<net, members, nextId, heard, calls>>

\* Redis passes a message to the subscriber of the moment.
Passed(m) == {p \in {[gen |-> service.gen, msg |-> m]} : service.sub}

\* A command that is lost leaves the caller with
\* MeshBroadcastIndeterminateDeliveryError.
Publish(m) ==
    /\ published' = published \ {m}
    /\ net' \in {net, net \union Passed(m)}
    /\ UNCHANGED <<service, tasks, members, nextId, sent, heard, calls>>

\* The peer broadcasts; it may have left by the time the message is read.
PeerBroadcast(id, size) ==
    /\ id \notin sent /\ Peer \in members
    /\ sent' = sent \union {id}
    /\ net' = net \union Passed([id |-> id, sender |-> Peer, size |-> size])
    /\ UNCHANGED <<service, tasks, published, members, nextId, heard, calls>>

\* scheduleIncomingMessage() drops what exceeds the incoming capacity.
Admits(r, m) ==
    /\ m.size <= maxMessageBytes
    /\ r.inN < maxActiveHandlers
    /\ r.inB + m.size <= maxActiveHandlerBytes

\* handleBroadcastIncoming() skips what broadcast() delivered locally.
Foreign(r, m) == m.sender # r.id

\* The subscriber's message event, up to the read of the sender's heartbeat.
Receive(p) ==
    LET r == service
        m == p.msg
        stage == IF Safe(r) /\ Foreign(r, m) THEN "validate" ELSE "done"
    IN
    /\ net' = net \ {p}
    /\ IF p.gen # r.gen \/ ~Admits(r, m)
       THEN UNCHANGED <<service, tasks>>
       ELSE /\ service' = AfterAssert([r EXCEPT !.inN = @ + 1, !.inB = @ + m.size])
            /\ tasks' = tasks \union
                          {[kind |-> "incoming", stage |-> stage, pin |-> r.gen, msg |-> m]}
    /\ UNCHANGED <<published, members, nextId, sent, heard, calls>>

\* validateIncomingSender() answers: the read may fail, the lease may have
\* lapsed and the generation may have changed meanwhile.
Validated(t) ==
    LET r == service
        active == t.msg.sender \in members /\ Safe(r) /\ r.gen = t.pin
        done == (tasks \ {t}) \union {[t EXCEPT !.stage = "done"]}
    IN
    /\ t.kind = "incoming" /\ t.stage = "validate"
    /\ \/ /\ active /\ HasRoom(r, t.msg)
          /\ service' = Counted(r, t.msg)
          /\ tasks' = done \union {HandlerTask(r, t.msg)}
       \/ /\ service' = AfterAssert(r)
          /\ tasks' = done
    /\ UNCHANGED <<published, net, members, nextId, sent, heard, calls>>

\* The microtask of handleBroadcastMessage(): the generation and the lease
\* are checked again before the handler is called.
Microtask(t) ==
    LET r == service
        current == t.pin = r.cur /\ ~r.objs[t.pin].aborted
        starts == current /\ Safe(r)
    IN
    /\ t.kind = "handler" /\ t.stage = "queued"
    /\ tasks' = (tasks \ {t}) \union
                  {[t EXCEPT !.stage = IF starts THEN "running" ELSE "done"]}
    /\ heard' = IF starts THEN [heard EXCEPT ![t.msg.id] = @ + 1] ELSE heard
    /\ service' = IF current THEN AfterAssert(r) ELSE r
    /\ UNCHANGED <<published, net, members, nextId, sent, calls>>

\* The handler returns or throws.
HandlerEnds(t) ==
    /\ t.kind = "handler" /\ t.stage = "running"
    /\ tasks' = (tasks \ {t}) \union {[t EXCEPT !.stage = "done"]}
    /\ UNCHANGED <<service, published, net, members, nextId, sent, heard, calls>>

AtLeast0(x) == IF x < 0 THEN 0 ELSE x

\* Mutant: the counters of the service's present generation are decremented.
ReleasedCurrent(r, t) ==
    [r EXCEPT !.objs[r.cur].count = AtLeast0(@ - 1),
              !.objs[r.cur].bytes = AtLeast0(@ - t.msg.size)]

\* The finally of a handler: the counters of the generation it was counted in.
Released(r, t) ==
    [r EXCEPT !.objs[t.pin].count = AtLeast0(@ - 1),
              !.objs[t.pin].bytes = AtLeast0(@ - t.msg.size)]

\* The finally of an incoming envelope: the counters of the service.
ReleasedIncoming(r, t) ==
    [r EXCEPT !.inN = AtLeast0(@ - 1), !.inB = AtLeast0(@ - t.msg.size)]

Settle(t) ==
    /\ t.stage = "done"
    /\ tasks' = tasks \ {t}
    /\ service' = IF t.kind = "handler" THEN Released(service, t)
                  ELSE ReleasedIncoming(service, t)
    /\ UNCHANGED <<published, net, members, nextId, sent, heard, calls>>

-----------------------------------------------------------------------------
Next ==
    \/ Start \/ Stop
    \/ StartBegins \/ StartSucceeds \/ StartFails \/ StopImpl
    \/ Lapse \/ LapseIsSeen \/ PeerLeaves
    \/ \E id \in Messages, size \in Sizes :
         PeerBroadcast(id, size) \/ \E skip \in BOOLEAN : Broadcast(id, size, skip)
    \/ \E m \in published : Publish(m)
    \/ \E p \in net : Receive(p)
    \/ \E t \in tasks : Validated(t) \/ Microtask(t) \/ HandlerEnds(t) \/ Settle(t)

Spec == Init /\ [][Next]_vars

-----------------------------------------------------------------------------
SizeOf(ts) == MapThenSumSet(LAMBDA t : t.msg.size, ts)

\* The counters that admit work equal the work that is in flight, through
\* every stop, fence and restart: capacity is neither leaked nor given twice.
CountersMatch ==
    LET r == service
        incoming == {t \in tasks : t.kind = "incoming"}
        handlers == {t \in tasks : t.kind = "handler" /\ t.pin = r.cur}
    IN
    /\ r.inN = Cardinality(incoming) /\ r.inB = SizeOf(incoming)
    /\ r.objs[r.cur].count = Cardinality(handlers)
    /\ r.objs[r.cur].bytes = SizeOf(handlers)

\* A handler that runs with a signal not aborted belongs to the generation of
\* a service that runs: stop(), a lost lease and a failed start all reach it.
HandlersAreFenced ==
    \A t \in tasks :
        t.kind = "handler" /\ t.stage = "running" /\ ~service.objs[t.pin].aborted
            => service.running /\ t.pin = service.cur

\* No process hears a broadcast twice, its own included.
HeardOnce == \A m \in Messages : heard[m] <= 1

\* A broadcast runs at most once in a process, within its capacity, and no
\* longer than the generation that admitted it.
BroadcastsAreContained == CountersMatch /\ HandlersAreFenced /\ HeardOnce
=============================================================================
