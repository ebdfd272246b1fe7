----------------------------- MODULE MeshMetadata ---------------------------
(* Client metadata of MeshSrpcServer.  A client's stream.meta is a proxy whose *)
(* mutations are copied to the registry by a microtask and a per-client queue;  *)
(* updateClientMetadata() and a routed update write the registry first and the   *)
(* stream afterwards.  Both write by compare-and-set on the connection, over     *)
(* one Redis connection that executes and answers in order.  Another node may    *)
(* take the client over at any time.                                             *)
EXTENDS Naturals, Sequences

CONSTANTS Fields,       \* properties of the metadata
          Updates,      \* calls of updateClientMetadata(), numbered from 1
          MaxMutations, \* bound on direct mutations of stream.meta
          MaxFaults     \* bound on failed Redis commands

VARIABLES
    meta,       \* stream.meta
    registry,   \* the client's record: [conn, meta]
    cache,      \* clientRegistryMetadata: what the registry is believed to hold
    dirty,      \* pendingSyncs: a microtask is scheduled
    queue,      \* snapshots waiting in enqueueClientRegistry(); the head is on the wire
    wire,       \* commands on the Redis connection: [kind, id, value, done]
    update,     \* state of each call: [at, field, value, projected]
    current,    \* isCurrentStream()
    retry,      \* the timer after a failed write is set
    mutations, faults,
    overlapped  \* history: an update was under way together with a queued write

vars == <<meta, registry, cache, dirty, queue, wire, update, current, retry, mutations, faults, overlapped>>

\* Connection 1 is the stream of this node, 2 the one that takes the client over.
Initial == [f \in Fields |-> 0]
Idle == [at |-> "idle", field |-> CHOOSE f \in Fields : TRUE, value |-> 0, projected |-> Initial]
Taken == [conn |-> 2, meta |-> Initial]

Init == /\ meta = Initial /\ registry = [conn |-> 1, meta |-> Initial] /\ cache = Initial
        /\ dirty = FALSE /\ queue = <<>> /\ wire = <<>> /\ current = TRUE /\ retry = FALSE
        /\ update = [u \in Updates |-> Idle]
        /\ mutations = 0 /\ faults = 0 /\ overlapped = FALSE

Updating(s) == \E u \in Updates : s[u].at \in {"writing", "checking"}
Overlap == overlapped' = (overlapped \/ (queue' # <<>> /\ Updating(update')))

Command(kind, id, value) == [kind |-> kind, id |-> id, value |-> value, done |-> "no"]
\* A queued write is sent when it reaches the head of the client's queue.
SendHead(w, q) == IF q = <<>> THEN w ELSE Append(w, Command("sync", 0, Head(q)))

-----------------------------------------------------------------------------
(* Mutations and their microtask.  No Redis reply is handled between the two. *)

\* The proxy's set and deleteProperty, and scheduleSyncStreamMeta().
Mutate(f) ==
    /\ mutations < MaxMutations /\ mutations' = mutations + 1
    /\ meta' = [meta EXCEPT ![f] = mutations + 1]
    /\ dirty' = TRUE
    /\ UNCHANGED <<registry, cache, queue, wire, update, current, retry, faults, overlapped>>

\* syncStreamMeta(): nothing to do when the registry is believed to be equal.
SyncStreamMeta ==
    IF current /\ meta # cache
    THEN /\ queue' = Append(queue, meta)
         /\ wire' = IF queue = <<>> THEN SendHead(wire, queue') ELSE wire
    ELSE UNCHANGED <<queue, wire>>

Microtask ==
    /\ dirty /\ dirty' = FALSE
    /\ SyncStreamMeta
    /\ UNCHANGED <<meta, registry, cache, update, current, retry, mutations, faults>>
    /\ Overlap

\* The retry timer of a failed write.
RetryTimer ==
    /\ retry /\ ~dirty /\ retry' = FALSE
    /\ SyncStreamMeta
    /\ UNCHANGED <<meta, registry, cache, dirty, update, current, mutations, faults>>
    /\ Overlap

-----------------------------------------------------------------------------
(* Redis executes the commands of the connection in order.                    *)

\* The compare-and-set of updateMetadata(), and the read of getClient().
Outcome(command) == IF registry.conn = 1 THEN "ok" ELSE "stale"
\* Mutant: the registry does not compare the connection.
WriteAny(command) == IF command.kind = "get" THEN registry ELSE [registry EXCEPT !.meta = command.value]
Write(command) == IF command.kind = "get" \/ registry.conn # 1 THEN registry
                  ELSE [registry EXCEPT !.meta = command.value]

Execute ==
    \E k \in DOMAIN wire :
        /\ wire[k].done = "no" /\ \A j \in 1 .. k - 1 : wire[j].done # "no"
        /\ \/ /\ wire' = [wire EXCEPT ![k].done = Outcome(wire[k])]
              /\ registry' = Write(wire[k])
              /\ UNCHANGED faults
           \/ /\ faults < MaxFaults /\ faults' = faults + 1
              /\ wire' = [wire EXCEPT ![k].done = "failed"]
              /\ registry' \in {registry, Write(wire[k])}
        /\ UNCHANGED <<meta, cache, dirty, queue, update, current, retry, mutations, overlapped>>

Answered(kind) == wire # <<>> /\ Head(wire).kind = kind /\ Head(wire).done # "no" /\ ~dirty

\* The catch of syncStreamMeta(): the metadata stays dirty and is tried again.
SyncFails(snapshot) == retry' = (retry \/ current) /\ UNCHANGED cache

\* The queued task after its write was answered; the next one is sent.
SyncAnswered ==
    /\ Answered("sync")
    /\ queue' = Tail(queue) /\ wire' = SendHead(Tail(wire), queue')
    /\ IF Head(wire).done = "ok"
       THEN /\ cache' = IF current THEN Head(wire).value ELSE cache
            /\ UNCHANGED retry
       ELSE SyncFails(Head(wire).value)
    /\ UNCHANGED <<meta, registry, dirty, update, current, mutations, faults, overlapped>>

-----------------------------------------------------------------------------
(* updateClientMetadata(), and updateLocalMetadata for a routed one.          *)

\* projectMetadataWithoutMutation() and the compare-and-set, outside the queue.
StartUpdate(u, f) ==
    /\ update[u].at = "idle" /\ current /\ ~dirty
    /\ LET value == MaxMutations + u
           projected == [meta EXCEPT ![f] = value]
       IN /\ update' = [update EXCEPT ![u] = [at |-> "writing", field |-> f, value |-> value, projected |-> projected]]
          /\ wire' = Append(wire, Command("update", u, projected))
    /\ UNCHANGED <<meta, registry, cache, dirty, queue, current, retry, mutations, faults>>
    /\ Overlap

\* The answer of the compare-and-set; then the read of assertCurrentMeshStream().
UpdateAnswered ==
    /\ Answered("update")
    /\ LET u == Head(wire).id
       IN IF Head(wire).done = "ok"
          THEN /\ wire' = Append(Tail(wire), Command("get", u, Initial))
               /\ update' = [update EXCEPT ![u].at = "checking"]
          ELSE /\ wire' = Tail(wire)
               /\ update' = [update EXCEPT ![u].at = "rejected"]
    /\ UNCHANGED <<meta, registry, cache, dirty, queue, current, retry, mutations, faults, overlapped>>

\* applyMetadataToLocalStream(): through the proxy, so a microtask follows.
ApplyUpdate ==
    /\ Answered("get")
    /\ LET u == Head(wire).id
       IN IF Head(wire).done = "ok" /\ current
          THEN /\ meta' = [meta EXCEPT ![update[u].field] = update[u].value]
               /\ dirty' = TRUE
               /\ cache' = update[u].projected
               /\ update' = [update EXCEPT ![u].at = "done"]
          ELSE /\ update' = [update EXCEPT ![u].at = "rejected"]
               /\ UNCHANGED <<meta, dirty, cache>>
    /\ wire' = Tail(wire)
    /\ UNCHANGED <<registry, queue, current, retry, mutations, faults, overlapped>>

-----------------------------------------------------------------------------
\* Another node takes the client over, and then fences this stream.
Supersede == /\ registry.conn = 1 /\ registry' = Taken
             /\ UNCHANGED <<meta, cache, dirty, queue, wire, update, current, retry, mutations, faults, overlapped>>

Fence == /\ registry.conn = 2 /\ current /\ ~dirty /\ current' = FALSE
         /\ UNCHANGED <<meta, registry, cache, dirty, queue, wire, update, retry, mutations, faults, overlapped>>

Next == \/ \E f \in Fields : Mutate(f)
        \/ Microtask \/ RetryTimer
        \/ Execute \/ SyncAnswered \/ UpdateAnswered \/ ApplyUpdate
        \/ \E u \in Updates, f \in Fields : StartUpdate(u, f)
        \/ Supersede \/ Fence

Spec == Init /\ [][Next]_vars

-----------------------------------------------------------------------------
Quiet == ~dirty /\ ~retry /\ queue = <<>> /\ wire = <<>>
Rejected == \E u \in Updates : update[u].at = "rejected"

\* installMetaProxy() says that the registry stays in sync with stream.meta
\* without further calls: once nothing is under way, it holds what the stream
\* holds, for as long as this node owns the client.
RegistryInSync == Quiet /\ registry.conn = 1 /\ faults = 0 => registry.meta = meta

\* The same, failed commands included, for updates that found no queued write
\* and that were not themselves cut off: a failed write stays dirty and is
\* tried again, a mutation during a write is not lost, and the write of a
\* superseded stream never reaches the record of the connection that replaced it.
MutationsReachRegistry ==
    /\ Quiet /\ registry.conn = 1 /\ ~overlapped /\ ~Rejected => registry.meta = meta
    /\ registry.conn = 2 => registry = Taken
=============================================================================
