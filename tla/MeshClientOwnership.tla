------------------------ MODULE MeshClientOwnership -------------------------
(* Which mesh node owns a client: the Lua scripts of MeshClientRedisRegistry, *)
(* the takeover protocol of MeshClientService (claim, fence the previous      *)
(* owner, commit) and the per-client queue in which MeshSrpcServer runs them. *)
(* One client ID; a node stands for one mesh instance, which never comes back *)
(* under the same ID.  Every connection claims once, so its ID stands for the *)
(* claim, operation and generation IDs as well.                               *)
EXTENDS Naturals, Sequences

CONSTANTS Nodes, Conns,
          MaxAttempts,   \* tries of one registry operation (3 in the code)
          MaxFaults,     \* bound on registry and link calls that fail
          MaxMeta        \* bound on metadata changes

\* Numbers stand for the ids of nodes and connections, and 0 for none.
ASSUME OwnershipAssumption ==
    /\ Nodes \subseteq Nat \ {0} /\ Conns \subseteq Nat \ {0}
    /\ MaxAttempts \in Nat /\ MaxFaults \in Nat /\ MaxMeta \in Nat

VARIABLES
    db,       \* Redis: [rec, members, claim]
    status,   \* per node: "safe", "lapsed" (lease over, not yet noticed), "fenced", "crashed"
    stream,   \* per connection: [st, node]
    chain,    \* per node: clientRegistryChains, a queue of [job, conn, supersede]
    op,       \* per node: progress of the job at the head of the queue
    faults, metas

vars == <<db, status, stream, chain, op, faults, metas>>

None == 0
NoRec == [node |-> None, conn |-> None, state |-> "none", meta |-> 0]
NoClaim == [node |-> None, conn |-> None, prev |-> NoRec, live |-> FALSE]
Idle == [at |-> "idle", att |-> 0, prev |-> NoRec, fenced |-> FALSE, ok |-> FALSE]

Init == /\ db = [rec |-> NoRec, members |-> {}, claim |-> NoClaim]
        /\ status = [n \in Nodes |-> "safe"]
        /\ stream = [c \in Conns |-> [st |-> "new", node |-> None]]
        /\ chain = [n \in Nodes |-> <<>>] /\ op = [n \in Nodes |-> Idle]
        /\ faults = 0 /\ metas = 0

-----------------------------------------------------------------------------
(* The scripts: what Redis holds afterwards, and what the caller is told.     *)

Reply(d, r) == [db |-> d, res |-> r]
SameGeneration(r, q) == r.node = q.node /\ r.conn = q.conn

\* CLAIM: the active owner stays; a live claim of another connection is a conflict.
CLAIM(d, n, c, allowSupersede) ==
    IF d.claim.live /\ d.claim.conn = c THEN Reply(d, [ok |-> TRUE, prev |-> d.claim.prev])
    ELSE IF d.claim.live \/ (d.rec # NoRec /\ d.rec.node # n /\ ~allowSupersede)
    THEN Reply([d EXCEPT !.claim = IF @.live THEN @ ELSE NoClaim], [ok |-> FALSE, prev |-> NoRec])
    ELSE Reply([d EXCEPT !.claim = [node |-> n, conn |-> c, prev |-> d.rec, live |-> TRUE]],
               [ok |-> TRUE, prev |-> d.rec])

\* Mutant: the set of the new owner's node is not extended.
COMMITUnindexed(d, n, c) ==
    IF d.claim.conn = c /\ d.claim.live
    THEN Reply([rec |-> [node |-> n, conn |-> c, state |-> "pending", meta |-> 0],
                members |-> d.members \ {d.claim.prev.node}, claim |-> NoClaim], 1)
    ELSE Reply(d, 0)

\* COMMIT_CLAIM: 1 published, 0 refused, 2 the fenced generation changed its record.
COMMIT(d, n, c) ==
    LET was == d.claim.prev
        moved == [rec |-> [node |-> n, conn |-> c, state |-> "pending", meta |-> 0],
                  members |-> (d.members \ {was.node}) \cup {n}, claim |-> NoClaim]
    IN  IF d.claim.conn # c THEN Reply(d, IF d.rec.node = n /\ d.rec.conn = c THEN 1 ELSE 0)
        ELSE IF ~d.claim.live THEN Reply([d EXCEPT !.claim = NoClaim], 0)
        ELSE IF d.rec # NoRec /\ d.rec # was
        THEN Reply(d, IF was # NoRec /\ SameGeneration(d.rec, was) THEN 2 ELSE 0)
        ELSE Reply(moved, 1)

\* REMOVE_CLAIM_PREVIOUS.
REMOVE_PREVIOUS(d, n, c) ==
    LET was == d.claim.prev IN
    IF d.claim.conn # c \/ was = NoRec THEN Reply(d, FALSE)
    ELSE IF d.rec = NoRec THEN Reply(d, TRUE)
    ELSE IF ~SameGeneration(d.rec, was) THEN Reply(d, FALSE)
    ELSE Reply([d EXCEPT !.rec = NoRec, !.members = @ \ {was.node}], TRUE)

\* ABORT_CLAIM.
ABORT(d, c) == [d EXCEPT !.claim = IF @.conn = c THEN NoClaim ELSE @]

\* REMOVE_CLAIM_RESULT.
REMOVE_RESULT(d, n, c) ==
    LET mine == d.rec.node = n /\ d.rec.conn = c
    IN  Reply([ABORT(d, c) EXCEPT !.rec = IF mine THEN NoRec ELSE @,
                                  !.members = IF mine THEN @ \ {n} ELSE @],
              mine \/ d.claim.conn = c)

\* ACTIVATE and UPDATE_METADATA: only the exact generation.
ACTIVATE(d, n, c) ==
    IF d.rec.node = n /\ d.rec.conn = c
    THEN Reply([d EXCEPT !.rec.state = "active", !.members = @ \cup {n}], TRUE) ELSE Reply(d, FALSE)

UPDATE_METADATA(d, n, c) ==
    IF d.rec.node = n /\ d.rec.conn = c THEN Reply([d EXCEPT !.rec.meta = 1 - @], TRUE) ELSE Reply(d, FALSE)

\* UNREGISTER.
UNREGISTER(d, n, c) ==
    IF d.rec.node = n /\ d.rec.conn = c
    THEN Reply([ABORT(d, c) EXCEPT !.rec = NoRec, !.members = @ \ {n}], TRUE) ELSE Reply(d, FALSE)

\* CLEANUP_NODE, which finds the client through the node's set.
CLEANUP(d, n) ==
    [rec |-> IF n \in d.members /\ d.rec.node = n THEN NoRec ELSE d.rec,
     members |-> d.members \ {n},
     claim |-> IF d.claim.node = n THEN NoClaim ELSE d.claim]

\* CLAIM_TTL_MS is over.
ClaimExpires ==
    /\ db.claim.live
    /\ db' = [db EXCEPT !.claim.live = FALSE]
    /\ UNCHANGED <<status, stream, chain, op, faults, metas>>

-----------------------------------------------------------------------------
(* The queue of a node, and calls that may fail before or after they apply.   *)

Outcomes == {"ok"} \cup (IF faults < MaxFaults THEN {"lost", "failed"} ELSE {})
Spend(o) == faults' = IF o = "ok" THEN faults ELSE faults + 1
Apply(o, d) == db' = IF o = "failed" THEN db ELSE d

Job(n) == Head(chain[n])
At(n, j, at) == chain[n] # <<>> /\ Job(n).job = j /\ op[n].at = at
Goto(n, at) == op' = [op EXCEPT ![n].at = at]
Conn(n) == Job(n).conn
CanCommit(n) == status[n] = "safe"
Open(c) == stream[c].st \in {"pending", "ready", "active"}

\* cleanupStream(): a node's stream ends (it has at most one of the client), and
\* onStreamDisconnected() queues its unregister.
Task(j, c) == [job |-> j, conn |-> c, supersede |-> FALSE]
Unregisters(q, cs) == IF cs = {} THEN q ELSE Append(q, Task("unregister", CHOOSE c \in cs : TRUE))
Closed(cs) == [c \in Conns |-> IF c \in cs THEN [st |-> "closed", node |-> None] ELSE stream[c]]

\* The job at the head of n's queue ends; closing says whether its stream ends with it.
Finish(n, closing) ==
    LET cs == IF closing /\ Open(Conn(n)) THEN {Conn(n)} ELSE {}
    IN  /\ op' = [op EXCEPT ![n] = Idle]
        /\ chain' = [chain EXCEPT ![n] = Unregisters(Tail(@), cs)]
        /\ stream' = Closed(cs)

\* fenceClaimAmbiguity() and a lost lease: the node stops, and its streams end.
Fence(n) ==
    LET cs == {c \in Conns : Open(c) /\ stream[c].node = n}
        q == IF chain[n] # <<>> /\ op[n].at \in {"ambiguous"} THEN Tail(chain[n]) ELSE chain[n]
    IN  /\ status' = [status EXCEPT ![n] = "fenced"]
        /\ stream' = Closed(cs)
        /\ chain' = [chain EXCEPT ![n] = Unregisters(q, cs)]
        /\ op' = IF q = chain[n] THEN op ELSE [op EXCEPT ![n] = Idle]

Ambiguous(n) ==
    /\ chain[n] # <<>> /\ op[n].at = "ambiguous"
    /\ Fence(n)
    /\ UNCHANGED <<db, faults, metas>>

-----------------------------------------------------------------------------
(* Connections.                                                               *)

\* A client connects (connections are numbered as they arrive); the node's own stream of
\* that client, if any, is superseded.
Connect(c, n, supersede) ==
    /\ stream[c].st = "new" /\ status[n] = "safe"
    /\ \A d \in Conns : d < c => stream[d].st # "new"
    /\ LET cs == {d \in Conns : Open(d) /\ stream[d].node = n}
       IN  /\ cs = {} \/ supersede
           /\ stream' = [Closed(cs) EXCEPT ![c] = [st |-> "pending", node |-> n]]
           /\ chain' = [chain EXCEPT ![n] = Append(Unregisters(@, cs),
                                                    [Task("reserve", c) EXCEPT !.supersede = supersede])]
    /\ UNCHANGED <<db, status, op, faults, metas>>

\* The connection handlers have run: onStreamWillActivate() queues the activation.
WillActivate(c) ==
    /\ stream[c].st = "ready"
    /\ ~ \E k \in 1..Len(chain[stream[c].node]) : chain[stream[c].node][k] = Task("activate", c)
    /\ chain' = [chain EXCEPT ![stream[c].node] = Append(@, Task("activate", c))]
    /\ UNCHANGED <<db, status, stream, op, faults, metas>>

\* onStreamDisconnected().
Disconnect(c) ==
    /\ Open(c)
    /\ stream' = Closed({c})
    /\ chain' = [chain EXCEPT ![stream[c].node] = Unregisters(@, {c})]
    /\ UNCHANGED <<db, status, op, faults, metas>>

\* The meta proxy queues syncStreamMeta().
SyncStreamMeta(c) ==
    /\ stream[c].st \in {"ready", "active"} /\ metas < MaxMeta
    /\ metas' = metas + 1
    /\ chain' = [chain EXCEPT ![stream[c].node] = Append(@, Task("meta", c))]
    /\ UNCHANGED <<db, status, stream, op, faults>>

-----------------------------------------------------------------------------
(* postEstablishCheck() and takeOwnership().                                  *)

\* The stream may be gone, and the service may have stopped, when its turn comes.
ReserveStarts(n) ==
    /\ At(n, "reserve", "idle")
    /\ IF Open(Conn(n)) /\ CanCommit(n) THEN Goto(n, "claim") /\ UNCHANGED <<chain, stream>>
       ELSE Finish(n, TRUE)
    /\ UNCHANGED <<db, status, faults, metas>>

\* createOwnershipClaim(): retried until its deadline, under one operation ID.
CreateClaim(n) ==
    /\ At(n, "reserve", "claim")
    /\ \E o \in Outcomes, late \in BOOLEAN :
       LET r == CLAIM(db, n, Conn(n), Job(n).supersede) IN
       /\ late => o # "ok"
       /\ Apply(o, r.db) /\ Spend(o)
       /\ IF o # "ok" THEN Goto(n, IF late THEN "ambiguous" ELSE "claim") /\ UNCHANGED <<chain, stream>>
          ELSE IF ~r.res.ok THEN Finish(n, TRUE)
          ELSE /\ op' = [op EXCEPT ![n] = [Idle EXCEPT !.prev = r.res.prev,
                             !.at = IF ~CanCommit(n) THEN "finally"
                                    ELSE IF r.res.prev # NoRec THEN "fence" ELSE "commit"]]
               /\ UNCHANGED <<chain, stream>>
    /\ UNCHANGED <<status, metas>>

\* handleClientSuperseded() on the previous owner's node m: the exact stream ends.
Superseded(n, m) ==
    LET cs == {c \in {op[n].prev.conn} : Open(c)}
    IN  /\ stream' = Closed(cs)
        /\ chain' = [chain EXCEPT ![m] = Unregisters(@, cs)]

\* Mutant: the owner is taken to be gone when the fence cannot be delivered.
FencePreviousOwnerOptimistic(n) ==
    LET m == op[n].prev.node IN
    /\ At(n, "reserve", "fence")
    /\ Goto(n, "commit")
    /\ \/ status[m] = "safe" /\ Superseded(n, m) /\ UNCHANGED faults
       \/ faults < MaxFaults /\ faults' = faults + 1 /\ UNCHANGED <<stream, chain>>
    /\ UNCHANGED <<db, status, metas>>

\* fencePreviousOwner(): on this node, or through the mesh link, where the answer may
\* be lost (indeterminate) or the owner definitely unreachable.
FencePreviousOwner(n) ==
    LET m == op[n].prev.node IN
    /\ At(n, "reserve", "fence")
    /\ \/ /\ status[m] = "safe"
          /\ Superseded(n, m)
          /\ op' = [op EXCEPT ![n].at = "commit", ![n].fenced = TRUE] /\ UNCHANGED faults
       \/ /\ status[m] # "safe" \/ (m # n /\ faults < MaxFaults)
          /\ faults' = IF status[m] = "safe" THEN faults + 1 ELSE faults
          /\ Goto(n, "finally") /\ UNCHANGED <<stream, chain>>
       \/ /\ m # n /\ faults < MaxFaults
          /\ faults' = faults + 1 /\ Goto(n, "reconcile")
          /\ UNCHANGED <<stream, chain>> \/ (status[m] = "safe" /\ Superseded(n, m))
    /\ UNCHANGED <<db, status, metas>>

\* After an indeterminate fence the registry decides: the owner is gone, or try again
\* until the deadline.
ReconcileFence(n) ==
    /\ At(n, "reserve", "reconcile")
    /\ \/ /\ ~SameGeneration(db.rec, op[n].prev)
          /\ op' = [op EXCEPT ![n].at = "commit", ![n].fenced = TRUE]
       \/ SameGeneration(db.rec, op[n].prev) /\ Goto(n, "fence")
       \/ Goto(n, "finally")
    /\ UNCHANGED <<db, status, stream, chain, faults, metas>>

\* commitOwnershipClaim(), one attempt; the lease is checked before the first one.
CommitClaim(n) ==
    /\ At(n, "reserve", "commit")
    /\ IF op[n].att = 0 /\ ~CanCommit(n) THEN Goto(n, "finally") /\ UNCHANGED <<db, faults>>
       ELSE \E o \in Outcomes :
            LET r == COMMIT(db, n, Conn(n)) IN
            /\ Apply(o, r.db) /\ Spend(o)
            /\ op' = [op EXCEPT ![n].at = IF o # "ok" \/ r.res = 0 THEN "check"
                                          ELSE IF r.res = 1 THEN "committed"
                                          ELSE IF op[n].fenced THEN "removePrevious" ELSE "finally"]
    /\ UNCHANGED <<status, stream, chain, metas>>

\* The predecessor's record changed after the claim: it is fenced, so it is removed.
RemoveChangedPrevious(n) ==
    /\ At(n, "reserve", "removePrevious")
    /\ \E o \in Outcomes :
       /\ Apply(o, REMOVE_PREVIOUS(db, n, Conn(n)).db) /\ Spend(o)
       /\ IF o = "ok" THEN Goto(n, "check")
          ELSE op' = [op EXCEPT ![n].at = IF op[n].att + 1 < MaxAttempts THEN "commit" ELSE "removeFenced",
                                ![n].att = IF @ + 1 < MaxAttempts THEN @ + 1 ELSE 0]
    /\ UNCHANGED <<status, stream, chain, metas>>

IsCommittedClaim(n) == db.rec.node = n /\ db.rec.conn = Conn(n) /\ db.rec.state = "pending"

\* The registry is read after a refused or unanswered commit.
CheckCommit(n) ==
    /\ At(n, "reserve", "check")
    /\ \E o \in Outcomes \ {"lost"} :
       /\ Spend(o)
       /\ op' = [op EXCEPT ![n] =
             IF o = "ok" /\ IsCommittedClaim(n) THEN [@ EXCEPT !.at = "committed"]
             ELSE IF @.att + 1 < MaxAttempts THEN [@ EXCEPT !.at = "commit", !.att = op[n].att + 1]
             ELSE [@ EXCEPT !.at = IF op[n].fenced THEN "removeFenced" ELSE "removeResult", !.att = 0]]
    /\ UNCHANGED <<db, status, stream, chain, metas>>

\* removeFencedClaimPrevious(), one attempt with its read.
RemoveFencedPrevious(n) ==
    /\ At(n, "reserve", "removeFenced")
    /\ \E o \in Outcomes, read \in Outcomes \ {"lost"} :
       LET r == REMOVE_PREVIOUS(db, n, Conn(n))
           gone == \/ o = "ok" /\ r.res
                   \/ read = "ok" /\ ~SameGeneration(IF o = "failed" THEN db.rec ELSE r.db.rec, op[n].prev)
       IN  /\ Apply(o, r.db)
           /\ faults' = faults + (IF o = "ok" THEN 0 ELSE 1) + (IF read = "ok" THEN 0 ELSE 1)
           /\ op' = [op EXCEPT ![n] = IF gone THEN [@ EXCEPT !.at = "removeResult", !.att = 0]
                                      ELSE IF @.att + 1 < MaxAttempts THEN [@ EXCEPT !.att = op[n].att + 1]
                                      ELSE [@ EXCEPT !.at = "ambiguous"]]
    /\ UNCHANGED <<status, stream, chain, metas>>

\* The exact result of the claim is removed or disproved before failure is reported.
RemoveResult(n) ==
    /\ At(n, "reserve", "removeResult")
    /\ \E o \in Outcomes, read \in Outcomes \ {"lost"} :
       LET r == REMOVE_RESULT(db, n, Conn(n))
           d == IF o = "failed" THEN db ELSE r.db
           gone == \/ o = "ok" /\ r.res
                   \/ read = "ok" /\ ~(d.rec.node = n /\ d.rec.conn = Conn(n) /\ d.rec.state = "pending")
       IN  /\ Apply(o, r.db)
           /\ faults' = faults + (IF o = "ok" THEN 0 ELSE 1) + (IF read = "ok" THEN 0 ELSE 1)
           /\ op' = [op EXCEPT ![n] = IF gone THEN [@ EXCEPT !.at = "finally"]
                                      ELSE IF @.att + 1 < MaxAttempts THEN [@ EXCEPT !.att = op[n].att + 1]
                                      ELSE [@ EXCEPT !.at = "ambiguous"]]
    /\ UNCHANGED <<status, stream, chain, metas>>

\* A commit that raced the loss of the lease is taken back.
Committed(n) ==
    /\ At(n, "reserve", "committed")
    /\ IF CanCommit(n) THEN op' = [op EXCEPT ![n].at = "finally", ![n].ok = TRUE] /\ UNCHANGED <<db, faults>>
       ELSE \E o \in Outcomes : /\ Apply(o, REMOVE_RESULT(db, n, Conn(n)).db) /\ Spend(o)
                                /\ Goto(n, "finally")
    /\ UNCHANGED <<status, stream, chain, metas>>

\* The finally block of takeOwnership(); then postEstablishCheck() keeps or ends the
\* stream.
FinallyReserve(n) ==
    /\ At(n, "reserve", "finally")
    /\ \E o, p \in Outcomes :
       LET c == Conn(n)
           d == IF op[n].fenced /\ ~CanCommit(n) /\ p # "failed" THEN REMOVE_PREVIOUS(db, n, c).db ELSE db
       IN  /\ db' = IF o = "failed" THEN d ELSE ABORT(d, c)
           /\ faults' = faults + (IF o = "ok" THEN 0 ELSE 1) + (IF p = "ok" THEN 0 ELSE 1)
           /\ IF op[n].ok /\ Open(c)
              THEN /\ op' = [op EXCEPT ![n] = Idle] /\ chain' = [chain EXCEPT ![n] = Tail(@)]
                   /\ stream' = [stream EXCEPT ![c].st = "ready"]
              ELSE Finish(n, TRUE)
    /\ UNCHANGED <<status, metas>>

-----------------------------------------------------------------------------
(* activateClient(), unregisterClient() and metadata.                         *)

ActivateClient(n) ==
    /\ At(n, "activate", "idle")
    /\ IF ~Open(Conn(n)) \/ ~CanCommit(n) THEN Finish(n, TRUE) /\ UNCHANGED <<db, faults>>
       ELSE \E o \in Outcomes :
            LET r == ACTIVATE(db, n, Conn(n)) IN
            /\ Apply(o, r.db) /\ Spend(o)
            /\ IF o = "ok" /\ r.res THEN Goto(n, "activated") /\ UNCHANGED <<chain, stream>>
               ELSE Finish(n, TRUE)
    /\ UNCHANGED <<status, metas>>

\* Mutant: the stream is not looked at again after the registry has answered.
ActivatedUnchecked(n) ==
    LET c == Conn(n) IN
    /\ At(n, "activate", "activated") /\ CanCommit(n)
    /\ op' = [op EXCEPT ![n] = Idle] /\ chain' = [chain EXCEPT ![n] = Tail(@)]
    /\ stream' = [stream EXCEPT ![c] = [st |-> "active", node |-> n]]
    /\ UNCHANGED <<db, status, faults, metas>>

\* An activation that raced the loss of the lease is undone; one whose stream ended
\* meanwhile is left to its unregister.
Activated(n) ==
    LET c == Conn(n) IN
    /\ At(n, "activate", "activated")
    /\ IF CanCommit(n) /\ Open(c)
       THEN /\ op' = [op EXCEPT ![n] = Idle] /\ chain' = [chain EXCEPT ![n] = Tail(@)]
            /\ stream' = [stream EXCEPT ![c].st = "active"] /\ UNCHANGED <<db, faults>>
       ELSE /\ Finish(n, TRUE)
            /\ \E o \in Outcomes : /\ db' = IF CanCommit(n) \/ o = "failed" THEN db ELSE UNREGISTER(db, n, c).db
                                   /\ Spend(o)
    /\ UNCHANGED <<status, metas>>

\* Mutant: an unanswered unregister is taken to have been applied.
RetryExactUnregisterOnce(n) ==
    /\ At(n, "unregister", "idle")
    /\ \E o \in Outcomes : /\ Apply(o, UNREGISTER(db, n, Conn(n)).db) /\ Spend(o)
                           /\ Finish(n, FALSE)
    /\ UNCHANGED <<status, metas>>

\* retryExactUnregister(): until it is confirmed, disproved, or the deadline passes.
RetryExactUnregister(n) ==
    /\ At(n, "unregister", "idle")
    /\ IF ~CanCommit(n) THEN Finish(n, FALSE) /\ UNCHANGED <<db, faults>>
       ELSE \E o \in Outcomes, read \in Outcomes \ {"lost"}, late \in BOOLEAN :
            LET r == UNREGISTER(db, n, Conn(n))
                d == IF o = "failed" THEN db ELSE r.db
                done == \/ o = "ok" /\ r.res
                        \/ read = "ok" /\ ~(d.rec.node = n /\ d.rec.conn = Conn(n))
            IN  /\ db' = d
                /\ faults' = faults + (IF o = "ok" THEN 0 ELSE 1) + (IF read = "ok" THEN 0 ELSE 1)
                /\ IF done THEN Finish(n, FALSE)
                   ELSE Goto(n, IF late THEN "ambiguous" ELSE "idle") /\ UNCHANGED <<chain, stream>>
    /\ UNCHANGED <<status, metas>>

\* The registry write of syncStreamMeta(); a failure is retried from the stream.
UpdateMetadata(n) ==
    /\ At(n, "meta", "idle")
    /\ \E o \in Outcomes : Apply(o, UPDATE_METADATA(db, n, Conn(n)).db) /\ Spend(o)
    /\ Finish(n, FALSE)
    /\ UNCHANGED <<status, metas>>

-----------------------------------------------------------------------------
(* Leases and nodes.                                                          *)

LeaseLapses(n) ==
    /\ status[n] = "safe"
    /\ status' = [status EXCEPT ![n] = "lapsed"]
    /\ UNCHANGED <<db, stream, chain, op, faults, metas>>

\* The lease-lost callback: handleMeshLeaseLost().
LeaseLost(n) ==
    /\ status[n] = "lapsed"
    /\ Fence(n)
    /\ UNCHANGED <<db, faults, metas>>

Crash(n) ==
    /\ status[n] \in {"safe", "lapsed"}
    /\ status' = [status EXCEPT ![n] = "crashed"]
    /\ stream' = Closed({c \in Conns : Open(c) /\ stream[c].node = n})
    /\ chain' = [chain EXCEPT ![n] = <<>>] /\ op' = [op EXCEPT ![n] = Idle]
    /\ UNCHANGED <<db, faults, metas>>

\* cleanupRegistryOwnership() of a fenced node, and the cleanup of an expired one by
\* its peers.
CleanupNode(n) ==
    /\ status[n] # "safe" /\ CLEANUP(db, n) # db
    /\ db' = CLEANUP(db, n)
    /\ UNCHANGED <<status, stream, chain, op, faults, metas>>

-----------------------------------------------------------------------------
Work(n) == \/ ReserveStarts(n) \/ CreateClaim(n) \/ FencePreviousOwner(n) \/ ReconcileFence(n)
           \/ CommitClaim(n) \/ RemoveChangedPrevious(n) \/ CheckCommit(n)
           \/ RemoveFencedPrevious(n) \/ RemoveResult(n) \/ Committed(n) \/ FinallyReserve(n)
           \/ ActivateClient(n) \/ Activated(n) \/ RetryExactUnregister(n) \/ UpdateMetadata(n)
           \/ Ambiguous(n)

Next == \/ ClaimExpires
        \/ \E n \in Nodes : Work(n) \/ LeaseLapses(n) \/ LeaseLost(n) \/ Crash(n) \/ CleanupNode(n)
        \/ \E c \in Conns : \/ WillActivate(c) \/ Disconnect(c) \/ SyncStreamMeta(c)
                            \/ \E n \in Nodes, s \in BOOLEAN : Connect(c, n, s)

\* Queues are served, expired nodes are noticed and cleaned, handlers return.
Fairness == /\ \A n \in Nodes : WF_vars(Work(n))
            /\ WF_vars(\E n \in Nodes : LeaseLost(n))
            /\ WF_vars(\E n \in Nodes : CleanupNode(n))
            /\ WF_vars(\E c \in Conns : WillActivate(c))

Spec == Init /\ [][Next]_vars /\ Fairness

\* The nodes are alike, so the first connection may be taken to reach node 1.
FirstAtNode1 == stream'[1].st = "pending" => stream'[1].node = 1
MCSpec == Init /\ [][Next /\ FirstAtNode1]_vars /\ Fairness

-----------------------------------------------------------------------------
\* A stream that a node with a valid lease serves is the one the registry names, so
\* two nodes never both deliver to a client (takeOwnership, activateClient): no lost
\* reply, expired claim, late activation or indeterminate fence breaks this.
OwnerIsRecorded ==
    \A c \in Conns : stream[c].st = "active" /\ status[stream[c].node] = "safe" =>
        db.rec.conn = c /\ db.rec.state = "active"

\* Ownership passes from one connection to another only when the first can no longer
\* deliver: its stream has ended or its node has lost its lease (fencePreviousOwner).
HandoffIsFenced ==
    [][db.rec # NoRec /\ db'.rec # NoRec /\ db'.rec.conn # db.rec.conn =>
           ~Open(db.rec.conn) \/ status[db.rec.node] # "safe"]_vars

\* The registry's own index finds every record: the cleanup of a node looks only in
\* the node's set (CLEANUP_NODE, COMMIT_CLAIM).
RecordIsIndexed == db.rec # NoRec => db.rec.node \in db.members

\* Once no more connections come, the registry forgets a connection that ended
\* (retryExactUnregister, cleanupNode) and every connection that asked for admission
\* has been admitted or ended (postEstablishCheck, takeOwnership).
RegistrySettles ==
    []<>(\A c \in Conns : stream[c].st # "pending" /\ ~(db.rec.conn = c /\ stream[c].st = "closed"))
=============================================================================
