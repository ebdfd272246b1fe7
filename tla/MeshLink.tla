------------------------------ MODULE MeshLink ------------------------------
(* MeshLinkRuntime: two processes open links to each other whenever they need *)
(* one, each end notices a close in its own time, and duplicates are resolved *)
(* at each end alone: the link that the endpoint with the smaller ID opened   *)
(* is preferred.  How handshakes are authenticated follows; requests over     *)
(* a link are in MeshLinkPeer.                                                *)
EXTENDS Naturals, FiniteSets

CONSTANTS MaxLinks,                 \* bound on connections
          MaxInbound, MaxOutbound,  \* peer limits of a runtime
          MaxFaults                 \* bound on failed handshakes and closed links

Ends == {"A", "B"}  \* "A" has the smaller endpoint ID
Other(n) == CHOOSE m \in Ends : m # n
Links == 1..MaxLinks

VARIABLES
    from,     \* per link: who opened it, or "none"
    end,      \* per link and end: "none", "connecting", "verifying", "open", "closing" (the
              \* socket, before its close event), "gone"
    answer,   \* per link: what the server made of the handshake
    winner,   \* peersByIdentity: per end, the link in use or 0
    cached,   \* peersByUrl: per end, the link or attempt for the other's URL, or 0
    closed,   \* runtimes that are closed
    faults

vars == <<from, end, answer, winner, cached, closed, faults>>

Init == /\ from = [k \in Links |-> "none"] /\ end = [k \in Links |-> [n \in Ends |-> "none"]]
        /\ answer = [k \in Links |-> "none"] /\ winner = [n \in Ends |-> 0]
        /\ cached = [n \in Ends |-> 0] /\ closed = {} /\ faults = 0

Fault == faults < MaxFaults /\ faults' = faults + 1
Direction(k, n) == IF from[k] = n THEN "outbound" ELSE "inbound"
Peers(n, d) == {k \in Links : end[k][n] \in {"open", "closing"} /\ Direction(k, n) = d}
PendingHandshakes(n) == Cardinality({k \in Links : end[k][n] = "verifying"})
ConnectingSockets(n) == Cardinality({k \in Links : end[k][n] = "connecting"})

CanCreatePeer(n, d, pending) ==
    LET matching == Cardinality(Peers(n, d)) + pending + (IF d = "outbound" THEN ConnectingSockets(n) ELSE 0)
        all == Cardinality(Peers(n, "inbound") \cup Peers(n, "outbound")) + ConnectingSockets(n) + pending
    IN  /\ all < MaxInbound + MaxOutbound
        /\ matching < (IF d = "inbound" THEN MaxInbound ELSE MaxOutbound)

\* The close handler of createPeer().
Drop(k, n) == winner' = [winner EXCEPT ![n] = IF @ = k THEN 0 ELSE @]

\* Mutant: each end prefers the link it opened itself.
ResolveDuplicatePeerOwn(k, n, d) ==
    LET old == winner[n]
    IN  IF old = 0 \/ end[old][n] # "open" THEN [win |-> k, close |-> 0]
        ELSE IF d = "outbound" /\ Direction(old, n) # "outbound" THEN [win |-> k, close |-> old]
        ELSE [win |-> old, close |-> k]

\* resolveDuplicatePeer(): which of the two links stays, and which is closed.
ResolveDuplicatePeer(k, n, d) ==
    LET old == winner[n]
        preferred == IF n = "A" THEN "outbound" ELSE "inbound"
    IN  IF old = 0 \/ end[old][n] # "open" THEN [win |-> k, close |-> 0]
        ELSE IF d = preferred /\ Direction(old, n) # preferred THEN [win |-> k, close |-> old]
        ELSE [win |-> old, close |-> k]

\* createPeer() and the close of the duplicate.
Open(k, n) ==
    LET r == ResolveDuplicatePeer(k, n, Direction(k, n))
    IN  /\ end' = [l \in Links |-> [end[l] EXCEPT ![n] = IF l = r.close THEN "gone" ELSE IF l = k THEN "open" ELSE @]]
        /\ winner' = [winner EXCEPT ![n] = r.win]

-----------------------------------------------------------------------------
\* getPeer() and connect(), for a request that finds no usable link in the URL cache.
Connect(n) ==
    /\ n \notin closed /\ \E k \in Links : from[k] = "none"
    /\ cached[n] # 0 => end[cached[n]][n] \notin {"connecting", "open"}
    /\ CanCreatePeer(n, "outbound", 0)
    /\ LET k == CHOOSE k \in Links : from[k] = "none" /\ \A l \in Links : from[l] = "none" => k <= l
       IN  /\ from' = [from EXCEPT ![k] = n] /\ end' = [end EXCEPT ![k][n] = "connecting"]
           /\ cached' = [cached EXCEPT ![n] = k]
    /\ UNCHANGED <<answer, winner, closed, faults>>

\* verifyClient(): the peer limits, before the proof is looked at.
VerifyClient(k) ==
    /\ from[k] # "none" /\ answer[k] = "none"
    /\ LET n == Other(from[k])
           ok == n \notin closed /\ PendingHandshakes(n) < MaxInbound /\ CanCreatePeer(n, "inbound", PendingHandshakes(n))
       IN  /\ end[k][n] = "none" /\ end' = [end EXCEPT ![k][n] = IF ok THEN "verifying" ELSE "gone"]
           /\ answer' = [answer EXCEPT ![k] = IF ok THEN "none" ELSE "refused"]
    /\ UNCHANGED <<from, winner, cached, closed, faults>>

\* verifyIncomingClient() returns: acceptPeer().
AcceptPeer(k) ==
    /\ from[k] # "none"
    /\ LET n == Other(from[k])
       IN  /\ end[k][n] = "verifying"
           /\ \/ /\ n \notin closed /\ answer' = [answer EXCEPT ![k] = "ok"] /\ UNCHANGED faults
                 /\ IF CanCreatePeer(n, "inbound", 0) THEN Open(k, n)
                    ELSE end' = [end EXCEPT ![k][n] = "gone"] /\ UNCHANGED winner
              \/ /\ IF n \in closed THEN UNCHANGED faults ELSE Fault
                 /\ answer' = [answer EXCEPT ![k] = "refused"]
                 /\ end' = [end EXCEPT ![k][n] = "gone"] /\ UNCHANGED winner
    /\ UNCHANGED <<from, cached, closed>>

\* The socket of connect() opens.  The URL's promise resolves to the link that stays.
Opened(k) ==
    /\ answer[k] = "ok"
    /\ LET n == from[k]
       IN  /\ end[k][n] = "connecting" /\ n \notin closed /\ Open(k, n)
           /\ cached' = IF cached[n] = k THEN [cached EXCEPT ![n] = winner'[n]] ELSE cached
    /\ UNCHANGED <<from, answer, closed, faults>>

\* connect() fails: it was refused, timed out, or the proof was wrong.
ConnectFails(k) ==
    /\ from[k] # "none"
    /\ LET n == from[k]
       IN  /\ end[k][n] = "connecting"
           /\ IF answer[k] = "refused" \/ n \in closed THEN UNCHANGED faults ELSE Fault
           /\ end' = [end EXCEPT ![k][n] = "gone"]
           /\ cached' = IF cached[n] = k THEN [cached EXCEPT ![n] = 0] ELSE cached
    /\ UNCHANGED <<from, answer, winner, closed>>

\* The other end's close reaches this end's socket, and later its close event.
SocketCloses(k, n) ==
    /\ \/ /\ end[k][n] = "open" /\ end[k][Other(n)] = "gone"
          /\ end' = [end EXCEPT ![k][n] = "closing"] /\ UNCHANGED winner
       \/ end[k][n] = "closing" /\ end' = [end EXCEPT ![k][n] = "gone"] /\ Drop(k, n)
    /\ UNCHANGED <<from, answer, cached, closed, faults>>

\* closeIdlePeers(), closePeer(), or a peer that closes itself after a failed send.
ClosePeer(k, n) ==
    /\ end[k][n] = "open" /\ Fault
    /\ end' = [end EXCEPT ![k][n] = "gone"] /\ Drop(k, n)
    /\ UNCHANGED <<from, answer, cached, closed>>

\* close(): every peer is closed and every connecting socket terminated.
Close(n) ==
    /\ n \notin closed /\ Fault /\ closed' = closed \cup {n}
    /\ end' = [k \in Links |-> [end[k] EXCEPT ![n] = IF @ \in {"open", "closing"} THEN "gone" ELSE @]]
    /\ winner' = [winner EXCEPT ![n] = 0] /\ cached' = [cached EXCEPT ![n] = 0]
    /\ UNCHANGED <<from, answer>>

Next == \/ \E n \in Ends : Connect(n) \/ Close(n) \/ \E k \in Links : SocketCloses(k, n) \/ ClosePeer(k, n)
        \/ \E k \in Links : VerifyClient(k) \/ AcceptPeer(k) \/ Opened(k) \/ ConnectFails(k)

Spec == Init /\ [][Next]_vars

-----------------------------------------------------------------------------
Used == {k \in Links : from[k] # "none"}
OpenAt(n) == {k \in Links : end[k][n] = "open"}
Quiescent == \A k \in Used : /\ end[k]["A"] \in {"open", "gone"} /\ end[k]["B"] \in {"open", "gone"}
                             /\ (end[k]["A"] = "gone") = (end[k]["B"] = "gone")

\* When nothing is under way the two ends have the same link and no other, although each
\* resolves duplicates by itself and learns of a close late; and when no link failed, the
\* two have not closed each other's link (resolveDuplicatePeer).
OneLink ==
    Quiescent => /\ OpenAt("A") = OpenAt("B") /\ Cardinality(OpenAt("A")) <= 1
                 /\ \A n \in Ends : OpenAt(n) = {winner[n]} \ {0}
                 /\ Used # {} /\ faults = 0 => OpenAt("A") # {}

-----------------------------------------------------------------------------
(* How a mesh link decides whom to accept: MeshLinkAuthenticator remembers    *)
(* the nonces of the proofs it has accepted in a timing wheel, and the        *)
(* runtime's endpoint pins say which key an endpoint has.  Signatures are     *)
(* taken as valid; what is modelled is time, capacity and the order of steps. *)

CONSTANTS Proofs,        \* identities, each with its own nonce
          ClockSkew, NonceTtl, BucketMs, MaxRemembered,
          MaxTime,       \* bound on the clock
          Owners,        \* callers of pinEndpoint()
          Handshakes     \* incoming connections of the one endpoint that is pinned

VARIABLES
    now, timestamp,      \* the clock, and when each proof was made
    seen,                \* seenNonces: per proof its expiry, 0 when absent
    buckets,             \* nonceBuckets
    lastPruned,          \* lastPrunedBucket
    accepted,            \* history: how often a proof was accepted
    pin,                 \* the endpoint's pin: [in, owners, expired]
    held,                \* callers that hold the pin
    handshake            \* per incoming connection: "new", "resolving", "done"

nonces == <<timestamp, seen, buckets, lastPruned, accepted>>
pins == <<pin, held, handshake>>
varsAuth == <<now, nonces, pins>>

NonceBucketCount == ((NonceTtl + BucketMs - 1) \div BucketMs) + 1
NoPin == [in |-> FALSE, owners |-> {}, expired |-> FALSE]

InitAuth == /\ now = 0 /\ timestamp \in [Proofs -> 0..(2 * ClockSkew)]
            /\ seen = [i \in Proofs |-> 0] /\ buckets = [b \in 0..(NonceBucketCount - 1) |-> {}]
            /\ lastPruned = 0 /\ accepted = [i \in Proofs |-> 0]
            /\ pin = NoPin /\ held = {} /\ handshake = [h \in Handshakes |-> "new"]

Tick == now < MaxTime /\ now' = now + 1 /\ UNCHANGED <<nonces, pins>>

-----------------------------------------------------------------------------
(* The nonces.                                                                *)

\* Mutant: the bucket of the current moment is pruned too.
PrunedBucketsThrough(bucket) ==
    {(lastPruned + k) % NonceBucketCount : k \in {j \in 0..NonceBucketCount : bucket > lastPruned /\ j <= bucket - lastPruned}}

\* The buckets pruneNonces() visits: each one at most once, however far the clock jumped.
PrunedBuckets(bucket) ==
    {(lastPruned + k) % NonceBucketCount : k \in {j \in 0..(NonceBucketCount - 1) : j < bucket - lastPruned}}


\* The bucket of verify().
BucketOf(expiresAt) == (expiresAt \div BucketMs) % NonceBucketCount

\* Mutant: the window is taken twice as wide as the nonces are kept for.
InWindowTwice(i) == now <= timestamp[i] + 2 * ClockSkew /\ timestamp[i] <= now + 2 * ClockSkew

\* The timestamp is within the allowed clock skew.
InWindow(i) == now <= timestamp[i] + ClockSkew /\ timestamp[i] <= now + ClockSkew

\* verify(), with pruneNonces(): stale and repeated proofs are refused, and every new one
\* while the cache is full.
Verify(i) ==
    LET bucket == now \div BucketMs
        visited == PrunedBuckets(bucket)
        expired == {j \in UNION {buckets[b] : b \in visited} : seen[j] # 0 /\ seen[j] <= now}
        left == [j \in Proofs |-> IF j \in expired THEN 0 ELSE seen[j]]
        wheel == [b \in DOMAIN buckets |-> IF b \in visited THEN {} ELSE buckets[b]]
        ok == InWindow(i) /\ left[i] = 0 /\ Cardinality({j \in Proofs : left[j] # 0}) < MaxRemembered
        expiresAt == now + NonceTtl
    IN  /\ lastPruned' = IF bucket > lastPruned THEN bucket ELSE lastPruned
        /\ seen' = IF ok THEN [left EXCEPT ![i] = expiresAt] ELSE left
        /\ buckets' = IF ok THEN [wheel EXCEPT ![BucketOf(expiresAt)] = @ \cup {i}] ELSE wheel
        /\ accepted' = IF ok THEN [accepted EXCEPT ![i] = @ + 1] ELSE accepted
        /\ UNCHANGED <<now, timestamp, pins>>

-----------------------------------------------------------------------------
(* The pins.                                                                  *)

\* pruneEndpointPins().
Prune(p) == IF p.owners = {} /\ p.expired THEN NoPin ELSE p

\* pinEndpoint(), by a controller that holds no pin yet.
PinEndpoint(o) ==
    /\ o \notin held /\ held' = held \cup {o}
    /\ pin' = [in |-> TRUE, owners |-> Prune(pin).owners \cup {o}, expired |-> FALSE]
    /\ UNCHANGED <<now, nonces, handshake>>

\* The function pinEndpoint() returned: the last owner takes the pin with it.
UnpinEndpoint(o) ==
    /\ o \in held /\ held' = held \ {o}
    /\ pin' = IF ~pin.in \/ pin.owners \subseteq {o} THEN NoPin ELSE [pin EXCEPT !.owners = @ \ {o}]
    /\ UNCHANGED <<now, nonces, handshake>>

PinExpires ==
    /\ pin.in /\ ~pin.expired /\ pin' = [pin EXCEPT !.expired = TRUE]
    /\ UNCHANGED <<now, nonces, held, handshake>>

\* getEndpointPin() and closeIdlePeers().
GetEndpointPin ==
    /\ Prune(pin) # pin /\ pin' = Prune(pin)
    /\ UNCHANGED <<now, nonces, held, handshake>>

\* authorizeEndpointPin(): a pin that is there decides; otherwise membership is asked.
AuthorizeEndpointPin(h) ==
    /\ handshake[h] = "new" /\ pin' = Prune(pin)
    /\ handshake' = [handshake EXCEPT ![h] = IF pin'.in THEN "done" ELSE "resolving"]
    /\ UNCHANGED <<now, nonces, held>>

\* The resolver has answered: its key is pinned, without an owner, or the answer is no.
EndpointResolved(h) ==
    /\ handshake[h] = "resolving" /\ handshake' = [handshake EXCEPT ![h] = "done"]
    /\ \/ pin' = [in |-> TRUE, owners |-> {}, expired |-> FALSE]
       \/ UNCHANGED pin
    /\ UNCHANGED <<now, nonces, held>>

NextAuth == \/ Tick \/ PinExpires \/ GetEndpointPin
            \/ \E i \in Proofs : Verify(i)
            \/ \E o \in Owners : PinEndpoint(o) \/ UnpinEndpoint(o)
            \/ \E h \in Handshakes : AuthorizeEndpointPin(h) \/ EndpointResolved(h)

SpecAuth == InitAuth /\ [][NextAuth]_varsAuth

-----------------------------------------------------------------------------
\* A proof is accepted once: its nonce is remembered for as long as its timestamp is in
\* the window, to the last moment of both (verify, pruneNonces).
AcceptedOnce == \A i \in Proofs : accepted[i] <= 1

\* Every nonce that is remembered is in a bucket that will be visited when it has expired,
\* so the cache cannot fill up for good (pruneNonces, NonceBucketCount).
NothingIsStranded == \A i \in Proofs : seen[i] # 0 => i \in buckets[(seen[i] \div BucketMs) % NonceBucketCount]

\* "keeps owner-held endpoint pins valid past TTL and releases the last reference": while
\* somebody holds the pin, the endpoint is pinned. The code does not keep this: a handshake
\* that resolved the endpoint before it was pinned replaces the pin by one without owners.
OwnedPinIsValid == held # {} => pin.in
=============================================================================
