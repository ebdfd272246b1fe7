---------------------------- MODULE MeshRegistry ----------------------------
(* The client registry in Redis as its readers and its clock see it: a hash   *)
(* of client records, a set of client IDs per node, the safety-net expiry of  *)
(* both, and the listings that page through them while records come and go.   *)
(* Takeover of a client is in MeshClientOwnership; here a client is           *)
(* registered directly, which never takes one over.                           *)
EXTENDS Naturals, FiniteSets, Sequences, SequencesExt

CONSTANTS Clients, Nodes,
          MaxClientsPerNode,
          Ttl,        \* KEY_TTL_SECONDS
          Interval,   \* registryRefreshIntervalMs, and what a refresh may be late
          MaxTime,    \* bound on the clock
          MaxWrites   \* bound on registrations

VARIABLES
    now,
    rec,      \* the clients hash: [node, conn, state] per client; node 0: no field
    members,  \* the set of each node
    until,    \* when the hash ("hash") and each node's set expire
    up,       \* nodes that run, with the time of their last refresh; Down: it does not
    owned,    \* per node: the client IDs it has registered and not given up
    conns,    \* connection IDs used
    list      \* one listing: where it is, what it still has to visit, what it has read

vars == <<now, rec, members, until, up, owned, conns, list>>

NoRec == [node |-> 0, conn |-> 0, state |-> "none"]
NoList == [at |-> "idle", node |-> 0, due |-> {}, page |-> {}, out |-> <<>>, was |-> {}, steady |-> {}]
Down == MaxTime + 1

Init == /\ now = 0
        /\ rec = [c \in Clients |-> NoRec] /\ members = [n \in Nodes |-> {}]
        /\ until = [k \in Nodes \cup {0} |-> 0]
        /\ up = [n \in Nodes |-> 0] /\ owned = [n \in Nodes |-> {}]
        /\ conns = 0 /\ list = NoList

-----------------------------------------------------------------------------
(* What a listing may and must report is kept while it runs.                  *)

\* toRegisteredClient(): only an active record is seen, and only its own node lists it.
Visible(c, r, n) == r[c].state = "active" /\ (n = 0 \/ r[c].node = n)

\* What the scan is sure to come by: an element that stays.
Certain(c, r, m, n) == Visible(c, r, n) /\ (n = 0 \/ c \in m[n])

Watched(r, m) ==
    IF list.at = "idle" THEN list
    ELSE [list EXCEPT !.was = @ \cup {c \in Clients : Visible(c, r, list.node)},
                      !.steady = {c \in @ : Certain(c, r, m, list.node)}]

Write(r, m) == rec' = r /\ members' = m /\ list' = Watched(r, m)

\* expire of the hash and of a node's set.
Renewed(n) == [until EXCEPT ![0] = now + Ttl, ![n] = now + Ttl]

-----------------------------------------------------------------------------
(* The scripts.                                                               *)

\* REGISTER_SCRIPT: never over another generation, and not beyond the node's limit.
Registrable(c, n) ==
    rec[c] = NoRec /\ (c \in members[n] \/ Cardinality(members[n]) < MaxClientsPerNode)

\* register() and reserve().
Register(c, n, state) ==
    /\ conns < MaxWrites /\ up[n] # Down /\ Registrable(c, n)
    /\ conns' = conns + 1
    /\ Write([rec EXCEPT ![c] = [node |-> n, conn |-> conns + 1, state |-> state]],
             [members EXCEPT ![n] = @ \cup {c}])
    /\ until' = Renewed(n) /\ owned' = [owned EXCEPT ![n] = @ \cup {c}]
    /\ UNCHANGED <<now, up>>

\* MC_ACTIVATE of a reservation.
Activate(c, n) ==
    /\ up[n] # Down /\ rec[c].node = n /\ rec[c].state = "pending"
    /\ Write([rec EXCEPT ![c].state = "active"], [members EXCEPT ![n] = @ \cup {c}])
    /\ until' = Renewed(n)
    /\ UNCHANGED <<now, up, owned, conns>>

\* MC_UNREGISTER of the exact connection.
Unregister(c, n) ==
    /\ up[n] # Down /\ c \in owned[n]
    /\ IF rec[c].node = n THEN Write([rec EXCEPT ![c] = NoRec], [members EXCEPT ![n] = @ \ {c}])
       ELSE UNCHANGED <<rec, members, list>>
    /\ owned' = [owned EXCEPT ![n] = @ \ {c}]
    /\ UNCHANGED <<now, until, up, conns>>

\* Mutant: only the node's own set is kept alive.
RefreshNodeSet(n) ==
    /\ up[n] # Down /\ up' = [up EXCEPT ![n] = now]
    /\ until' = IF members[n] # {} THEN [until EXCEPT ![n] = now + Ttl] ELSE until
    /\ UNCHANGED <<now, rec, members, owned, conns, list>>

\* MC_REFRESH_NODE: a set that does not exist has nothing to keep.
RefreshNode(n) ==
    /\ up[n] # Down /\ up[n] # now /\ up' = [up EXCEPT ![n] = now]
    /\ until' = IF members[n] # {} THEN Renewed(n) ELSE until
    /\ UNCHANGED <<now, rec, members, owned, conns, list>>

\* The node's process ends.
Crash(n) ==
    /\ up[n] # Down /\ up' = [up EXCEPT ![n] = Down] /\ owned' = [owned EXCEPT ![n] = {}]
    /\ UNCHANGED <<now, rec, members, until, conns, list>>

\* cleanupNode() by a survivor: batches of the dead node's set.
CleanupNode(n) ==
    /\ up[n] = Down /\ members[n] # {}
    /\ \E c \in members[n] :
       Write(IF rec[c].node = n THEN [rec EXCEPT ![c] = NoRec] ELSE rec, [members EXCEPT ![n] = @ \ {c}])
    /\ UNCHANGED <<now, until, up, owned, conns>>

\* Keys expire, and time goes on; a node that runs is never late with its refresh.
Tick ==
    /\ now < MaxTime /\ \A n \in Nodes : up[n] # Down => now - up[n] < Interval
    /\ now' = now + 1
    /\ Write(IF until[0] <= now + 1 THEN [c \in Clients |-> NoRec] ELSE rec,
             [n \in Nodes |-> IF until[n] <= now + 1 THEN {} ELSE members[n]])
    /\ UNCHANGED <<until, up, owned, conns>>

-----------------------------------------------------------------------------
(* listClients() and listClientsForNode(): pages of HSCAN or SSCAN.           *)

Keys(n) == IF n = 0 THEN {c \in Clients : rec[c] # NoRec} ELSE members[n]

StartListing(n) ==
    /\ list.at = "idle"
    /\ list' = [at |-> "scan", node |-> n, due |-> Keys(n), page |-> {}, out |-> <<>>,
                was |-> {c \in Clients : Visible(c, rec, n)},
                steady |-> {c \in Clients : Certain(c, rec, members, n)}]
    /\ UNCHANGED <<now, rec, members, until, up, owned, conns>>

\* Mutant: a client that an earlier page had is listed again.
PageAgain(page, n, out) == {c \in page : Visible(c, rec, n)}

\* What of a page is a client, and was not on an earlier page.
Page(page, n, out) == {c \in page : Visible(c, rec, n)} \ ToSet(out)

\* The page is taken up; the last one ends the listing.
Taken(page, due) ==
    LET new == Page(page, list.node, list.out)
    IN  \E s \in [1..Cardinality(new) -> new] :
        /\ \A i, j \in DOMAIN s : i < j => s[i] # s[j]
        /\ list' = [list EXCEPT !.out = @ \o s, !.page = {}, !.due = due,
                               !.at = IF due = {} THEN "done" ELSE "scan"]

\* A page of the scan.  Redis returns every element that stays from the first call to the
\* last, others perhaps, and any of them perhaps again.  HSCAN answers with the records.
ListClientsPage ==
    /\ list.at = "scan" /\ list.node = 0
    /\ \E page \in SUBSET Keys(0) : Taken(page, (list.due \cap Keys(0)) \ page)
    /\ UNCHANGED <<now, rec, members, until, up, owned, conns>>

\* SSCAN answers with IDs ...
ListClientsForNodePage ==
    /\ list.at = "scan" /\ list.node # 0
    /\ \E page \in SUBSET Keys(list.node) :
       list' = [list EXCEPT !.at = "read", !.page = page, !.due = (@ \cap Keys(list.node)) \ page]
    /\ UNCHANGED <<now, rec, members, until, up, owned, conns>>

\* ... whose records are read by a second command.
ReadNodePage ==
    /\ list.at = "read" /\ Taken(list.page, list.due)
    /\ UNCHANGED <<now, rec, members, until, up, owned, conns>>

EndListing ==
    /\ list.at = "done" /\ list' = NoList
    /\ UNCHANGED <<now, rec, members, until, up, owned, conns>>

-----------------------------------------------------------------------------
Next == \/ \E c \in Clients, n \in Nodes :
              \/ \E state \in {"pending", "active"} : Register(c, n, state)
              \/ Activate(c, n) \/ Unregister(c, n)
        \/ \E n \in Nodes : RefreshNode(n) \/ Crash(n) \/ CleanupNode(n)
        \/ \E n \in Nodes \cup {0} : StartListing(n)
        \/ ListClientsPage \/ ListClientsForNodePage \/ ReadNodePage \/ EndListing \/ Tick

Spec == Init /\ [][Next]_vars

-----------------------------------------------------------------------------
\* A listing that returns has every client that was registered all along, none twice, and
\* none that was not an active client (of that node) at some moment of the listing, although
\* records move while it pages through them (listClients, listClientsForNode).
ListingIsExact ==
    list.at = "done" =>
        /\ list.steady \subseteq ToSet(list.out) /\ ToSet(list.out) \subseteq list.was
        /\ Cardinality(ToSet(list.out)) = Len(list.out)

\* The safety-net expiry never takes a client from a node that runs: its record stays, and
\* stays in the set by which a survivor would find it (REFRESH_NODE_SCRIPT).
RunningNodesKeepRecords ==
    \A n \in Nodes : up[n] # Down => \A c \in owned[n] : rec[c].node = n /\ c \in members[n]

-----------------------------------------------------------------------------
(* What becomes of the clients of a dead mesh node: the durable queue of      *)
(* MeshClientRedisRegistry, from which every node drains, and the in-memory   *)
(* fallback queue of a MeshClientService whose backend has no durable queue.  *)
(* A dead node stands for the snapshot of its active clients, and its number  *)
(* for the snapshot's size in bytes.                                          *)

CONSTANTS Dead,                \* dead nodes
          Drainers,            \* live nodes
          MaxItems, MaxBytes,  \* maxOrphanItems, maxOrphanBytes (and the fallback's limits)
          MaxFaults            \* bound on failing calls, callbacks and lost leases

VARIABLES
    registered,  \* dead nodes whose clients are still in the registry
    orphans,     \* the queue: dead node -> [in, token, claimed, old]; the drainer stands
                 \* for its claim token, for it has one claim at a time
    accounting,  \* the accounting hash: [exists, items, bytes]
    drain,       \* per drainer: [at, item]
    safe,        \* drainers whose lease is safe
    pending,     \* pendingOrphanCallbacks of the fallback service, [at, old] per dead node
    pendingBytes, \* pendingOrphanBytes
    hasDurableOrphanBackend, \* which of the two queues the backend calls for
    faults,
    settled      \* history: snapshots whose callbacks have all run, or whose time was over

varsOrphans == <<registered, orphans, accounting, drain, safe, pending, pendingBytes, hasDurableOrphanBackend, faults, settled>>
durable == <<orphans, accounting, drain, safe, hasDurableOrphanBackend>>
fallback == <<pending, pendingBytes, hasDurableOrphanBackend>>

Absent == [in |-> FALSE, token |-> 0, claimed |-> FALSE, old |-> FALSE]
Resting == [at |-> "idle", item |-> 0]
Nothing == [at |-> "none", old |-> FALSE]
NoAccounting == [exists |-> FALSE, items |-> 0, bytes |-> 0]

InitOrphans == /\ registered = Dead
               /\ orphans = [d \in Dead |-> Absent] /\ accounting = NoAccounting
               /\ drain = [n \in Drainers |-> Resting] /\ safe = Drainers
               /\ pending = [d \in Dead |-> Nothing] /\ pendingBytes = 0
               /\ hasDurableOrphanBackend \in BOOLEAN /\ faults = 0 /\ settled = {}

Outcomes == {"ok"} \cup (IF faults < MaxFaults THEN {"lost", "failed"} ELSE {})
Spend(o) == faults' = IF o = "ok" THEN faults ELSE faults + 1

-----------------------------------------------------------------------------
(* The durable queue.                                                         *)

Queued(q) == {d \in Dead : q[d].in}
Swept(q) == [d \in Dead |-> IF q[d].in /\ q[d].old THEN Absent ELSE q[d]]
Gone == {d \in Dead : orphans[d].in /\ orphans[d].old}
Less(a, ds) == [a EXCEPT !.items = @ - Cardinality(ds), !.bytes = @ - SumSet(ds)]

\* Mutant: what the sweep removes stays on the account.
CleanupNodeUnswept(d, o) ==
    /\ d \in registered
    /\ registered' = registered \ {d}
    /\ orphans' = [Swept(orphans) EXCEPT ![d] = [Absent EXCEPT !.in = TRUE]]
    /\ accounting' = [exists |-> TRUE, items |-> accounting.items + 1, bytes |-> accounting.bytes + d]
    /\ settled' = settled \cup Gone
    /\ Spend(o)
    /\ UNCHANGED <<drain, safe, fallback>>

\* CLEANUP_NODE_AND_ORPHAN: old items are swept; a full queue refuses, and the node's
\* clients stay registered for the retry of MeshService.
CleanupNodeAndOrphan(d, o) ==
    LET a == Less(accounting, Gone)
        full == a.items + 1 > MaxItems \/ a.bytes + d > MaxBytes
    IN  /\ d \in registered
        /\ Spend(o)
        /\ IF o = "failed" THEN UNCHANGED <<registered, orphans, accounting, settled>>
           ELSE /\ settled' = settled \cup Gone
                /\ IF full
                   THEN /\ orphans' = Swept(orphans) /\ accounting' = [a EXCEPT !.exists = TRUE]
                        /\ UNCHANGED registered
                   ELSE /\ orphans' = [Swept(orphans) EXCEPT ![d] = [Absent EXCEPT !.in = TRUE]]
                        /\ accounting' = [exists |-> TRUE, items |-> a.items + 1, bytes |-> a.bytes + d]
                        /\ registered' = registered \ {d}
        /\ UNCHANGED <<drain, safe, fallback>>

\* ORPHAN_TTL_SECONDS after it was queued.
ItemGrowsOld(d) ==
    /\ orphans[d].in /\ ~orphans[d].old /\ faults < MaxFaults /\ faults' = faults + 1
    /\ orphans' = [orphans EXCEPT ![d].old = TRUE]
    /\ UNCHANGED <<registered, accounting, drain, safe, fallback, settled>>

Holds(n) == drain[n].item # 0 /\ orphans[drain[n].item].in /\ orphans[drain[n].item].token = n

\* ORPHAN_CLAIM_MS after it was claimed, by a drainer that is gone or slow.
ClaimLapses(d) ==
    /\ orphans[d].claimed
    /\ IF \E n \in Drainers : drain[n].item = d /\ Holds(n)
       THEN faults < MaxFaults /\ faults' = faults + 1 ELSE UNCHANGED faults
    /\ orphans' = [orphans EXCEPT ![d].claimed = FALSE]
    /\ UNCHANGED <<registered, accounting, drain, safe, fallback, settled>>

\* CLAIM_ORPHAN, the head of the loop of drainDurableOrphans().
ClaimOrphaned(n) ==
    LET free == {d \in Queued(Swept(orphans)) : ~orphans[d].claimed}
        empty == Queued(Swept(orphans)) = {}
        a == IF empty THEN NoAccounting ELSE Less(accounting, Gone)
    IN  /\ n \in safe /\ drain[n].at = "idle" /\ accounting.exists
        /\ settled' = settled \cup Gone
        /\ accounting' = a
        /\ \/ /\ free = {} /\ <<orphans, accounting>> # <<Swept(orphans), a>>
              /\ orphans' = Swept(orphans) /\ UNCHANGED <<drain, faults>>
           \/ \E d \in free, o \in Outcomes \ {"failed"} :
              /\ Spend(o)
              /\ orphans' = [Swept(orphans) EXCEPT ![d].token = n, ![d].claimed = TRUE]
              /\ drain' = [drain EXCEPT ![n] = IF o = "lost" THEN Resting ELSE [at |-> "claimed", item |-> d]]
        /\ UNCHANGED <<registered, safe, fallback>>

\* The callbacks run, or one fails; canContinue() is asked before and after.
RunCallbacks(n) ==
    LET d == drain[n].item IN
    /\ drain[n].at = "claimed"
    /\ \/ n \in safe /\ settled' = settled \cup {d} /\ drain' = [drain EXCEPT ![n].at = "ack"] /\ UNCHANGED faults
       \/ n \in safe /\ faults < MaxFaults /\ faults' = faults + 1
          /\ drain' = [drain EXCEPT ![n].at = "nack"] /\ UNCHANGED settled
       \/ n \notin safe /\ drain' = [drain EXCEPT ![n].at = "nack"] /\ UNCHANGED <<faults, settled>>
    /\ UNCHANGED <<registered, orphans, accounting, safe, fallback>>

Removed(d) ==
    /\ orphans' = [orphans EXCEPT ![d] = Absent]
    /\ accounting' = IF Queued(orphans) = {d} THEN NoAccounting ELSE Less(accounting, {d})

\* ACK_ORPHAN.
AckOrphaned(n) ==
    /\ drain[n].at = "ack"
    /\ IF n \notin safe THEN drain' = [drain EXCEPT ![n].at = "nack"] /\ UNCHANGED <<orphans, accounting, faults>>
       ELSE \E o \in Outcomes :
            /\ Spend(o)
            /\ IF o # "failed" /\ Holds(n) THEN Removed(drain[n].item) ELSE UNCHANGED <<orphans, accounting>>
            /\ drain' = [drain EXCEPT ![n] = IF o = "ok" /\ Holds(n) THEN Resting ELSE [@ EXCEPT !.at = "nack"]]
    /\ UNCHANGED <<registered, safe, fallback, settled>>

\* Mutant: the item is taken off the queue when its delivery failed.
NackOrphanedDrops(n) ==
    /\ drain[n].at = "nack" /\ drain' = [drain EXCEPT ![n] = Resting]
    /\ IF Holds(n) THEN Removed(drain[n].item) ELSE UNCHANGED <<orphans, accounting>>
    /\ UNCHANGED <<registered, safe, fallback, faults, settled>>

\* NACK_ORPHAN: frees the item for the next claim, if this claim is still its last.
NackOrphaned(n) ==
    /\ drain[n].at = "nack" /\ drain' = [drain EXCEPT ![n] = Resting]
    /\ \E o \in Outcomes :
       /\ Spend(o)
       /\ orphans' = IF o = "failed" \/ ~Holds(n) THEN orphans
                     ELSE [orphans EXCEPT ![drain[n].item].token = 0, ![drain[n].item].claimed = FALSE]
    /\ UNCHANGED <<registered, accounting, safe, fallback, settled>>

\* The lease is lost or the service stops: what it delivers is released at once.
Fenced(n) ==
    /\ n \in safe /\ faults < MaxFaults /\ faults' = faults + 1
    /\ Cardinality(safe) > 1
    /\ safe' = safe \ {n}
    /\ orphans' = IF drain[n].at \notin {"claimed", "ack"} \/ ~Holds(n) THEN orphans
                  ELSE [orphans EXCEPT ![drain[n].item].token = 0, ![drain[n].item].claimed = FALSE]
    /\ UNCHANGED <<registered, accounting, drain, fallback, settled>>

-----------------------------------------------------------------------------
(* The fallback queue, in the memory of one service.                          *)

Kept(ds) == {d \in Dead : pending[d].at # "none"} \ ds

\* pruneFallbackOrphans() drops what is older than pendingOrphanTtlMs.
OldPending == {d \in Kept({}) : pending[d].old}
Pruned == [d \in Dead |-> IF d \in OldPending THEN Nothing ELSE pending[d]]

\* cleanupNodeForFallback() and enqueueFallbackOrphan(): the backend removes no more
\* than what the queue has room for; its delivery starts at once.
CleanupNodeForFallback(d) ==
    LET kept == Kept(OldPending)
        bytes == pendingBytes - SumSet(OldPending)
    IN  /\ d \in registered
        /\ IF d \notin kept /\ Cardinality(kept) < MaxItems /\ bytes + d <= MaxBytes
           THEN /\ pending' = [Pruned EXCEPT ![d] = [at |-> "calling", old |-> FALSE]]
                /\ pendingBytes' = bytes + d /\ registered' = registered \ {d}
           ELSE OldPending # {} /\ pending' = Pruned /\ pendingBytes' = bytes /\ UNCHANGED registered
        /\ settled' = settled \cup OldPending
        /\ UNCHANGED <<durable, faults>>

PendingGrowsOld(d) ==
    /\ d \in Kept({}) /\ ~pending[d].old /\ faults < MaxFaults /\ faults' = faults + 1
    /\ pending' = [pending EXCEPT ![d].old = TRUE]
    /\ UNCHANGED <<registered, durable, pendingBytes, settled>>

\* retryOrphanCallbacks(), on a timer: prunes, then delivers what is not being delivered.
RetryOrphanCallbacks ==
    /\ \E d \in Dead : pending[d].at = "queued" \/ pending[d].old
    /\ pending' = [d \in Dead |-> IF Pruned[d].at = "queued" THEN [Pruned[d] EXCEPT !.at = "calling"] ELSE Pruned[d]]
    /\ pendingBytes' = pendingBytes - SumSet(OldPending) /\ settled' = settled \cup OldPending
    /\ UNCHANGED <<registered, durable, faults>>

\* doDeliverOrphanCallbacks() has called back: the snapshot goes, unless it was pruned meanwhile.
OrphanCallbacksReturn(d) ==
    /\ pending[d].at = "calling"
    /\ \/ /\ pending' = [pending EXCEPT ![d] = Nothing]
          /\ pendingBytes' = pendingBytes - d /\ settled' = settled \cup {d} /\ UNCHANGED faults
       \/ /\ faults < MaxFaults /\ faults' = faults + 1
          /\ pending' = [pending EXCEPT ![d].at = "queued"] /\ UNCHANGED <<pendingBytes, settled>>
    /\ UNCHANGED <<registered, durable>>

-----------------------------------------------------------------------------
NextDurable == \/ \E d \in Dead : ItemGrowsOld(d) \/ ClaimLapses(d) \/ \E o \in Outcomes : CleanupNodeAndOrphan(d, o)
               \/ \E n \in Drainers : \/ ClaimOrphaned(n) \/ RunCallbacks(n) \/ AckOrphaned(n)
                                      \/ NackOrphaned(n) \/ Fenced(n)
NextFallback == \/ RetryOrphanCallbacks
                \/ \E d \in Dead : CleanupNodeForFallback(d) \/ PendingGrowsOld(d) \/ OrphanCallbacksReturn(d)

NextOrphans == (hasDurableOrphanBackend /\ NextDurable) \/ (~hasDurableOrphanBackend /\ NextFallback)

\* Timers retry cleanups and drains, claims lapse, callbacks return.
ProgressOrphans == \/ hasDurableOrphanBackend /\ \E d \in Dead : ClaimLapses(d) \/ CleanupNodeAndOrphan(d, "ok")
                   \/ \E n \in Drainers : ClaimOrphaned(n) \/ RunCallbacks(n) \/ AckOrphaned(n) \/ NackOrphaned(n)
                   \/ RetryOrphanCallbacks
                   \/ ~hasDurableOrphanBackend /\ \E d \in Dead : OrphanCallbacksReturn(d) \/ CleanupNodeForFallback(d)

FairnessOrphans == WF_varsOrphans(ProgressOrphans)

SpecOrphans == InitOrphans /\ [][NextOrphans]_varsOrphans /\ FairnessOrphans

-----------------------------------------------------------------------------
\* The counters that bound the orphan queues say what the queues hold, and never more
\* than their limits: the scripts update them by increments, from sweeps, claims and
\* acknowledgements of several nodes (CLEANUP_NODE_AND_ORPHAN, ACK_ORPHAN), and the
\* fallback queue around callbacks that outlive their snapshot.
OrphanAccounting ==
    /\ accounting.items = Cardinality(Queued(orphans)) /\ accounting.bytes = SumSet(Queued(orphans))
    /\ accounting.items <= MaxItems /\ accounting.bytes <= MaxBytes
    /\ Queued(orphans) # {} => accounting.exists
    /\ pendingBytes = SumSet(Kept({})) /\ pendingBytes <= MaxBytes /\ Cardinality(Kept({})) <= MaxItems

\* Every dead node's clients are reported to the callbacks or reach their time limit,
\* whatever call fails, whichever node loses its lease and however full the queue is
\* (drainDurableOrphans, NACK_ORPHAN, cleanupNodeForFallback).
AllSettled == settled = Dead
OrphansSettle == []<>AllSettled
=============================================================================
