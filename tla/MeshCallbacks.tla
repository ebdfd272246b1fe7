---------------------------- MODULE MeshCallbacks ---------------------------
(* The connected and disconnected callbacks that a MeshSrpcServer runs for    *)
(* one client: its streams one after another, another node that takes the     *)
(* client over, and the cleanup after a lost lease or a cancelled start, which *)
(* hold an offline callback back until the registry shows who owns the client. *)
EXTENDS Naturals, Sequences, FiniteSets

CONSTANTS MaxStreams, \* bound on the connections of the client, numbered in order
          MaxFaults   \* bound on fences, conflicts and failing lookups

Streams == 1..MaxStreams
Remote == MaxStreams + 1

VARIABLES
    st,        \* per stream: "new", "pending", "reserved", "activating", "active", "gone"
    current,   \* getCurrentStreamByClientId(), 0 when there is none
    record,    \* the client's registry record: [owner, active]; owner 0: none
    claim,     \* the stream the other node's claim has fenced, or 0
    phase,     \* "up", "drain", "dispatch", "down" (cleaned up) or "failed"
    fatal,     \* meshCleanupFailure
    chain,     \* clientRegistryChains: the client's queue of registry operations
    cbs,       \* clientCallbackChains: the client's queue of callbacks
    metadata,  \* clientRegistryMetadata.has(clientId)
    published, \* lifecycleConnectedStreams
    pending, gated, \* pendingStartDisconnects, rollbackGatedDisconnects
    fence,     \* pendingStartDisconnectFenceDeadlines: "none", "open", "past"
    queued,    \* pendingStartDisconnectCallbackQueued
    log,       \* history: callbacks in the order they ran, <<"on" | "off", stream>>
    excused,   \* history: streams replaced locally or elsewhere, or fenced while unregistering
    faults

deferral == <<pending, gated, fence, queued>>
history == <<log, excused>>
vars == <<st, current, record, claim, phase, fatal, chain, cbs, metadata, published, deferral, history, faults>>

NoRecord == [owner |-> 0, active |-> FALSE]

Init == /\ st = [s \in Streams |-> "new"] /\ current = 0
        /\ record = NoRecord /\ claim = 0 /\ phase = "up" /\ fatal = FALSE
        /\ chain = <<>> /\ cbs = <<>> /\ metadata = FALSE /\ published = {}
        /\ pending = {} /\ gated = {} /\ fence = [s \in Streams |-> "none"] /\ queued = {}
        /\ log = <<>> /\ excused = {} /\ faults = 0

Fault == faults < MaxFaults /\ faults' = faults + 1

-----------------------------------------------------------------------------
(* Streams.                                                                   *)

Job(op, s) == [op |-> op, s |-> s, cause |-> "none", pub |-> FALSE, def |-> FALSE, sent |-> FALSE, removed |-> FALSE, meta |-> FALSE]

\* Mutant: it is not asked whether the stream was announced.
UnregisterUnpublished(s, cause, ps) ==
    [Job("unregister", s) EXCEPT !.cause = cause, !.pub = TRUE, !.def = s \in ps]

\* cleanupStream() and onStreamDisconnected(), for the snapshots ps held by then.
Unregister(s, cause, ps) ==
    [Job("unregister", s) EXCEPT !.cause = cause, !.pub = s \in published, !.def = s \in ps]
Close(s) == st' = [st EXCEPT ![s] = "gone"] /\ published' = published \ {s}

\* handleStreamEstablished() and postEstablishCheck(): the replaced stream is closed, the
\* new one's reservation queued.
Connect(s) ==
    /\ phase = "up" /\ st[s] = "new" /\ \A r \in 1..(s - 1) : st[r] # "new"
    /\ st' = [r \in Streams |-> IF r = s THEN "pending" ELSE IF r = current THEN "gone" ELSE st[r]]
    /\ published' = published \ {current}
    /\ chain' = chain \o (IF current = 0 THEN <<>> ELSE <<Unregister(current, "supersede", pending)>>)
                      \o <<Job("reserve", s)>>
    /\ excused' = IF current = 0 THEN excused ELSE excused \cup {current}
    /\ current' = s /\ metadata' = TRUE
    /\ UNCHANGED <<record, claim, phase, fatal, cbs, deferral, log, faults>>

\* The client closes its connection.
Disconnect(s) ==
    /\ current = s /\ Close(s) /\ current' = 0
    /\ chain' = Append(chain, Unregister(s, "disconnect", pending))
    /\ UNCHANGED <<record, claim, phase, fatal, cbs, metadata, deferral, history, faults>>

\* reserveClient(), at the head of the chain: nothing for a stream that is gone; a conflict
\* with the other node, or a service that stopped, closes the stream.
Reserve ==
    /\ chain # <<>> /\ Head(chain).op = "reserve"
    /\ LET s == Head(chain).s
           ok == phase = "up"
       IN  IF current # s THEN chain' = Tail(chain) /\ UNCHANGED <<st, current, record, published, excused, faults>>
           ELSE \/ /\ ok /\ record' = [owner |-> s, active |-> FALSE]
                   /\ st' = [st EXCEPT ![s] = "reserved"]
                   /\ chain' = Append(Tail(chain), Job("activate", s))
                   /\ UNCHANGED <<current, published, excused, faults>>
                \/ /\ IF ok THEN Fault ELSE UNCHANGED faults
                   /\ Close(s) /\ current' = 0 /\ chain' = Append(Tail(chain), Unregister(s, "conflict", pending))
                   /\ UNCHANGED <<record, excused>>
    /\ UNCHANGED <<claim, phase, fatal, cbs, metadata, deferral, log>>

\* onStreamWillActivate(): the record is made active, or the stream closed.
WillActivate ==
    /\ chain # <<>> /\ Head(chain).op = "activate"
    /\ LET s == Head(chain).s
       IN  IF current = s /\ phase = "up" /\ record.owner = s
           THEN /\ record' = [record EXCEPT !.active = TRUE] /\ metadata' = TRUE
                /\ st' = [st EXCEPT ![s] = "activating"]
                /\ chain' = Tail(chain) /\ UNCHANGED <<current, published>>
           ELSE IF current = s
           THEN /\ Close(s) /\ current' = 0
                /\ chain' = Append(Tail(chain), Unregister(s, "disconnect", pending))
                /\ UNCHANGED <<record, metadata>>
           ELSE chain' = Tail(chain) /\ UNCHANGED <<record, metadata, st, current, published>>
    /\ UNCHANGED <<claim, phase, fatal, cbs, deferral, history, faults>>

\* onStreamActivated(): the connected callback is queued.
Activated(s) ==
    /\ st[s] = "activating" /\ current = s
    /\ st' = [st EXCEPT ![s] = "active"]
    /\ cbs' = Append(cbs, [op |-> "online", s |-> s, poll |-> FALSE])
    /\ UNCHANGED <<current, record, claim, phase, fatal, chain, metadata, published, deferral, history, faults>>

\* Mutant: the callback is not checked again when its turn comes.
OnlineUnchecked ==
    /\ cbs # <<>> /\ Head(cbs).op = "online" /\ cbs' = Tail(cbs)
    /\ log' = Append(log, <<"on", Head(cbs).s>>) /\ published' = published \cup {Head(cbs).s}
    /\ UNCHANGED <<st, current, record, claim, phase, fatal, chain, metadata, deferral, excused, faults>>

\* The connected callback's turn: skipped for a stream that is no longer current.
Online ==
    /\ cbs # <<>> /\ Head(cbs).op = "online" /\ cbs' = Tail(cbs)
    /\ LET s == Head(cbs).s
       IN  IF current = s /\ metadata
           THEN log' = Append(log, <<"on", s>>) /\ published' = published \cup {s}
           ELSE UNCHANGED <<log, published>>
    /\ UNCHANGED <<st, current, record, claim, phase, fatal, chain, metadata, deferral, excused, faults>>

-----------------------------------------------------------------------------
(* Disconnects.                                                               *)

\* onStreamDisconnected() at the head of the chain, to unregisterClient(): the exact
\* record is removed unless the service has stopped.
SendUnregister ==
    /\ chain # <<>> /\ Head(chain).op = "unregister" /\ ~Head(chain).sent
    /\ LET j == Head(chain)
       IN  /\ chain' = [chain EXCEPT ![1] = [j EXCEPT !.sent = TRUE, !.removed = phase = "up", !.meta = metadata]]
           /\ record' = IF phase = "up" /\ record.owner = j.s THEN NoRecord ELSE record
    /\ UNCHANGED <<st, current, claim, phase, fatal, cbs, metadata, published, deferral, history, faults>>

\* queuePendingStartDisconnectCallback().
QueueReconcile(s, poll) ==
    IF s \in queued THEN UNCHANGED <<queued, cbs>>
    ELSE queued' = queued \cup {s} /\ cbs' = Append(cbs, [op |-> "reconcile", s |-> s, poll |-> poll])

\* The rest of onStreamDisconnected(): a replacement, a takeover and a snapshot each keep
\* the offline callback from being queued here.
Unregistered ==
    /\ chain # <<>> /\ Head(chain).op = "unregister" /\ Head(chain).sent /\ chain' = Tail(chain)
    /\ LET j == Head(chain)
           now == j.def /\ j.s \notin gated /\ fence[j.s] # "none" /\ j.s \in pending
       IN  IF current # 0 \/ j.cause = "supersede"
           THEN /\ pending' = IF now \/ ~j.def \/ current = 0 THEN pending \ {j.s} ELSE pending
                /\ IF now THEN QueueReconcile(j.s, TRUE) ELSE UNCHANGED <<queued, cbs>>
                /\ metadata' = (metadata /\ current # 0)
                /\ excused' = IF current # 0 THEN excused \cup {j.s} ELSE excused
           ELSE /\ metadata' = FALSE
                /\ cbs' = IF ~j.def /\ j.removed /\ j.meta /\ j.pub
                          THEN Append(cbs, [op |-> "offline", s |-> j.s, poll |-> FALSE]) ELSE cbs
                /\ excused' = IF ~j.def /\ ~j.removed THEN excused \cup {j.s} ELSE excused
                /\ UNCHANGED <<pending, queued>>
    /\ UNCHANGED <<st, current, record, claim, phase, fatal, published, gated, fence, log, faults>>

Offline ==
    /\ cbs # <<>> /\ Head(cbs).op = "offline" /\ cbs' = Tail(cbs)
    /\ log' = Append(log, <<"off", Head(cbs).s>>)
    /\ UNCHANGED <<st, current, record, claim, phase, fatal, chain, metadata, published, deferral, excused, faults>>

-----------------------------------------------------------------------------
(* The other node takes the client over.                                      *)

\* handleClientSuperseded() for an exact takeover fence: the offline callback's place in
\* the queue is taken before the stream is closed.
HandleClientSuperseded ==
    /\ phase \in {"up", "drain", "dispatch"} /\ claim = 0 /\ record.owner \in Streams /\ Fault
    /\ LET s == record.owner
           ps == IF s \in published /\ metadata THEN pending \cup {s} ELSE pending
       IN  /\ claim' = s
           /\ fence' = [fence EXCEPT ![s] = IF s \in ps THEN "open" ELSE @]
           /\ IF st[s] = "gone" THEN UNCHANGED <<pending, queued, cbs, st, current, published, chain>>
              ELSE /\ IF s \in ps THEN QueueReconcile(s, TRUE) ELSE UNCHANGED <<queued, cbs>>
                   /\ pending' = pending \ {s}
                   /\ Close(s) /\ current' = IF current = s THEN 0 ELSE current
                   /\ chain' = Append(chain, Unregister(s, "supersede", {}))
    /\ UNCHANGED <<record, phase, fatal, metadata, gated, history>>

\* The claim is committed unless a new local reservation came first, or is aborted.
ClaimEnds ==
    /\ claim # 0 /\ claim' = 0
    /\ record' \in {record} \cup (IF record.owner \in {0, claim} THEN {[owner |-> Remote, active |-> TRUE]} ELSE {})
    /\ UNCHANGED <<st, current, phase, fatal, chain, cbs, metadata, published, deferral, history, faults>>

\* The claim window of a fence is over.
Deadline(s) ==
    /\ fence[s] = "open" /\ claim = 0 /\ fence' = [fence EXCEPT ![s] = "past"]
    /\ UNCHANGED <<st, current, record, claim, phase, fatal, chain, cbs, metadata, published, pending, gated, queued, history, faults>>

-----------------------------------------------------------------------------
(* Fences of this node, and the reconciliation of held-back callbacks.        *)

\* capturePendingStartDisconnects() and the closing of the current stream.
FenceStreams ==
    LET ps == IF current \in published /\ metadata THEN pending \cup {current} ELSE pending
    IN  /\ pending' = ps /\ gated' = gated \cup (ps \cap {current})
        /\ current' = 0 /\ phase' = "drain"
        /\ IF current = 0 THEN UNCHANGED <<st, published, chain>>
           ELSE Close(current) /\ chain' = Append(chain, Unregister(current, "disconnect", ps))

\* A lost lease, or the cancellation of a start.
LeaseLost ==
    /\ phase = "up" /\ Fault /\ FenceStreams
    /\ UNCHANGED <<record, claim, fatal, cbs, metadata, fence, queued, history>>

\* handleMeshLeaseLost(): the queue settles, then this node's record is removed.
Sweep ==
    /\ phase = "drain" /\ chain = <<>> /\ phase' = "dispatch"
    /\ record' = IF record.owner \in Streams THEN NoRecord ELSE record
    /\ UNCHANGED <<st, current, claim, fatal, chain, cbs, metadata, published, deferral, history, faults>>

\* dispatchPendingStartDisconnects(): a snapshot whose client is active elsewhere is
\* dropped, another waits for one full claim window.
DispatchPendingStartDisconnects ==
    /\ phase = "dispatch" /\ metadata' = FALSE /\ pending' = {}
    /\ phase' = IF fatal THEN "failed" ELSE "down"
    /\ IF record.active
       THEN /\ fence' = [s \in Streams |-> IF s \in pending THEN "none" ELSE fence[s]]
            /\ excused' = excused \cup pending /\ UNCHANGED <<queued, cbs>>
       ELSE /\ fence' = [s \in Streams |-> IF s \in pending /\ fence[s] = "none" THEN "open" ELSE fence[s]]
            /\ IF pending = {} THEN UNCHANGED <<queued, cbs>> ELSE QueueReconcile(CHOOSE s \in pending : TRUE, FALSE)
            /\ UNCHANGED excused
    /\ UNCHANGED <<st, current, record, claim, fatal, chain, published, gated, log, faults>>

\* The mesh is started again.
Restart ==
    /\ phase = "down" /\ phase' = "up"
    /\ UNCHANGED <<st, current, record, claim, fatal, chain, cbs, metadata, published, deferral, history, faults>>

\* The callback of queuePendingStartDisconnectCallback(): a poll ends early when another
\* owner is active; at the deadline the client's absence lets the callback run, and
\* another owner suppresses it.
Reconcile ==
    /\ cbs # <<>> /\ Head(cbs).op = "reconcile" /\ cbs' = Tail(cbs)
    /\ LET s == Head(cbs).s
           elsewhere == record.active /\ record.owner # s
       IN  /\ fence[s] # "open" \/ (Head(cbs).poll /\ elsewhere)
           /\ ~(record.active /\ record.owner = s)
           /\ fence' = [fence EXCEPT ![s] = "none"] /\ queued' = queued \ {s}
           /\ log' = IF elsewhere THEN log ELSE Append(log, <<"off", s>>)
           /\ excused' = IF elsewhere THEN excused \cup {s} ELSE excused
    /\ UNCHANGED <<st, current, record, claim, phase, fatal, chain, metadata, published, pending, gated, faults>>

\* failDeferredDisconnectReconciliation(): the lookups fail, or the exact old record is
\* still there.  The mesh is fenced for good.
FailDeferredDisconnectReconciliation ==
    /\ cbs # <<>> /\ Head(cbs).op = "reconcile" /\ cbs' = Tail(cbs)
    /\ LET s == Head(cbs).s
       IN  /\ fence[s] = "past"
           /\ IF record.active /\ record.owner = s THEN UNCHANGED faults ELSE Fault
           /\ fence' = [fence EXCEPT ![s] = "none"] /\ queued' = queued \ {s}
           /\ excused' = excused \cup {s}
    /\ fatal' = TRUE
    /\ IF phase = "up" THEN FenceStreams
       ELSE /\ phase' = IF phase = "down" THEN "failed" ELSE phase
            /\ UNCHANGED <<st, current, chain, published, pending, gated>>
    /\ UNCHANGED <<record, claim, metadata, log>>

-----------------------------------------------------------------------------
Progress == \/ Reserve \/ WillActivate \/ Online \/ SendUnregister \/ Unregistered \/ Offline \/ ClaimEnds
            \/ Sweep \/ DispatchPendingStartDisconnects \/ Restart \/ Reconcile \/ FailDeferredDisconnectReconciliation
            \/ \E s \in Streams : Activated(s) \/ Deadline(s)

Next == \/ Progress \/ HandleClientSuperseded \/ LeaseLost
        \/ \E s \in Streams : Connect(s) \/ Disconnect(s)

\* Awaited operations return, and timers fire.
Fairness == WF_vars(Progress)

Spec == Init /\ [][Next]_vars /\ Fairness

-----------------------------------------------------------------------------
\* "Offline callbacks run once": the offline callback of a connection follows its own
\* online callback, runs at most once, and never after the online callback of a later
\* connection, whose presence it would erase (enqueueClientCallback,
\* queuePendingStartDisconnectCallback).
CallbacksInOrder ==
    \A j \in 1..Len(log) : log[j][1] = "off" =>
        /\ \E i \in 1..(j - 1) : log[i] = <<"on", log[j][2]>>
        /\ \A i \in 1..(j - 1) : log[i][2] <= log[j][2] /\ log[i] # log[j]

\* Every connection that was announced and is gone gets its offline callback, however
\* takeovers, aborted takeovers, lost leases and reconnects overlap: unless it was replaced
\* here or elsewhere, its node was fenced while it was being unregistered (then
\* unregisterClient() answers false), or the reconciliation failed.
Announced(s) == st[s] = "gone" /\ \E i \in 1..Len(log) : log[i] = <<"on", s>>
Ended(s) == s \in excused \/ \E i \in 1..Len(log) : log[i] = <<"off", s>>
AllEnded == \A s \in Streams : Announced(s) => Ended(s)
EveryOnlineEnds == []<>AllEnded
=============================================================================
