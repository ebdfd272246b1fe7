--------------------------- MODULE SrpcAdmission ----------------------------
(* Admission of SRPC clients: the handshake and stream limits that are        *)
(* checked on both sides of an asynchronous authentication, and the replay    *)
(* check of signed tokens, local to a server or shared by several.  A token   *)
(* is [cid, nonce, ts]; its signature is taken to be valid.                   *)
EXTENDS Naturals, FiniteSets, FiniteSetsExt

CONSTANTS Servers,
          Handshakes,     \* connection attempts
          Tokens,         \* tokens that clients signed
          Drift,          \* SRPC_AUTH_CLOCK_DRIFT_MS
          MaxTime,        \* bound on the clock
          MaxPending,     \* maxPendingHandshakes
          MaxStreams,     \* maxActiveStreams
          MaxPrincipals,  \* maxAuthReplayPrincipals
          MaxNonces,      \* MaxAuthReplayNoncesPerPrincipal
          MaxShared       \* the limits of the shared consumer

\* What the constants are.
AdmissionAssumption ==
    /\ IsFiniteSet(Handshakes) /\ Tokens \subseteq [cid : Nat, nonce : Nat, ts : Nat]
    /\ {Drift, MaxTime, MaxPending, MaxStreams, MaxPrincipals, MaxNonces, MaxShared} \subseteq Nat

VARIABLES now,
          hasConsumer,  \* an authNonceConsumer is configured
          hs,        \* per attempt: [at, server, token]
          seen,      \* per server: authReplayNoncesByPrincipal, [token, turn] with turns in order
                     \* of consumption
          shared,    \* tokens the shared consumer accepted
          pendings,  \* per server: pendingHandshakeCount
          streams,   \* per server: streamsById
          passed     \* <<attempt, server, token>> that passed the replay check

vars == <<now, hasConsumer, hs, seen, shared, pendings, streams, passed>>

None == 0
NoToken == [cid |-> 0, nonce |-> 0, ts |-> 0]

Init == /\ now = 0
        /\ hasConsumer \in BOOLEAN
        /\ hs = [h \in Handshakes |-> [at |-> "new", server |-> None, token |-> NoToken]]
        /\ seen = [s \in Servers |-> {}] /\ shared = {}
        /\ pendings = [s \in Servers |-> 0] /\ streams = [s \in Servers |-> {}] /\ passed = {}

ExpiresAt(t) == t.ts + Drift
Live(s) == {e \in seen[s] : ExpiresAt(e.token) > now}
Remembered(q) == {e.token : e \in q}
Goto(h, at) == hs' = [hs EXCEPT ![h].at = at]

\* finally(): the handshake is no longer pending.
Settle(h, at) ==
    /\ Goto(h, at)
    /\ pendings' = [pendings EXCEPT ![hs[h].server] = @ - 1]

\* verifyClient(): limits first; then validateClientAuth() up to the key look-up,
\* where the timestamp is checked.
verifyClient(h) ==
    /\ hs[h].at = "new"
    /\ \E s \in Servers, t \in Tokens :
       IF \/ pendings[s] >= MaxPending \/ Cardinality(streams[s]) >= MaxStreams
          \/ now > ExpiresAt(t) \/ t.ts > now + Drift
       THEN Goto(h, "refused") /\ UNCHANGED pendings
       ELSE /\ hs' = [hs EXCEPT ![h] = [at |-> "key", server |-> s, token |-> t]]
            /\ pendings' = [pendings EXCEPT ![s] = @ + 1]
    /\ UNCHANGED <<now, hasConsumer, seen, shared, streams, passed>>

\* isLocalAuthNonceReplay(), which prunes.
isLocalAuthNonceReplay(h) == hs[h].token \in Remembered(Live(hs[h].server))

Principals(q) == {e.token.cid : e \in q}
OfPrincipal(q, c) == {e \in q : e.token.cid = c}

\* The principal whose last consumption is the oldest.
OldestPrincipal(q) ==
    CHOOSE c \in Principals(q) : \A d \in Principals(q) \ {c} :
        \E f \in OfPrincipal(q, d) : \A e \in OfPrincipal(q, c) : e.turn < f.turn

\* What consumeLocalAuthNonce() has left, after its evictions, when it records t.
Evicted(q, t) ==
    LET p == IF t.cid \notin Principals(q) /\ Cardinality(Principals(q)) >= MaxPrincipals
             THEN q \ OfPrincipal(q, OldestPrincipal(q)) ELSE q
        nonces == OfPrincipal(p, t.cid)
    IN  IF Cardinality(nonces) >= MaxNonces
        THEN p \ {e \in nonces : \A f \in nonces : e.turn <= f.turn} ELSE p

\* The entry of t behind those of q.
Recorded(q, t) == q \cup {[token |-> t, turn |-> 1 + Max({0} \cup {e.turn : e \in q})]}

\* Mutant: the local cache evicts although no shared consumer backs it.
ConsumableAlways(s, t, allowEviction) == ExpiresAt(t) > now /\ t \notin Remembered(Live(s))

\* consumeLocalAuthNonce() succeeds.
Consumable(s, t, allowEviction) ==
    /\ ExpiresAt(t) > now
    /\ t \notin Remembered(Live(s))
    /\ \/ allowEviction
       \/ /\ t.cid \in Principals(Live(s)) \/ Cardinality(Principals(Live(s))) < MaxPrincipals
          /\ Cardinality(OfPrincipal(Live(s), t.cid)) < MaxNonces

consumeLocalAuthNonce(h, allowEviction) ==
    LET s == hs[h].server
        t == hs[h].token
    IN  IF Consumable(s, t, allowEviction)
        THEN /\ seen' = [seen EXCEPT ![s] = Recorded(Evicted(Live(s), t), t)]
             /\ passed' = passed \cup {<<h, s, t>>}
             /\ Goto(h, "admit") /\ UNCHANGED pendings
        ELSE /\ seen' = [seen EXCEPT ![s] = Live(s)]
             /\ Settle(h, "refused") /\ UNCHANGED passed

\* fetchClientKey() answered: the signature is verified and consumeAuthReplayToken()
\* begins.
ConsumeAuthReplayToken(h) ==
    /\ hs[h].at = "key"
    /\ IF isLocalAuthNonceReplay(h) THEN Settle(h, "refused") /\ UNCHANGED <<seen, passed>>
       ELSE IF hasConsumer THEN Goto(h, "shared") /\ UNCHANGED <<seen, passed, pendings>>
       ELSE consumeLocalAuthNonce(h, FALSE)
    /\ UNCHANGED <<now, hasConsumer, shared, streams>>

\* CONSUME_AUTH_NONCE, the shared consumer of MeshClientRedisRegistry: what expired is
\* no longer counted, and a limit refuses instead of evicting.
authNonceConsumer(h) ==
    LET t == hs[h].token
        live == {u \in shared : ExpiresAt(u) > now}
        ofCid == {u \in live : u.cid = t.cid}
        refuse == \/ ExpiresAt(t) <= now \/ t \in live \/ Cardinality(ofCid) >= MaxShared
                  \/ ofCid = {} /\ Cardinality({u.cid : u \in live}) >= MaxShared
    IN  /\ hs[h].at = "shared"
        /\ IF refuse THEN Settle(h, "refused") /\ UNCHANGED shared
           ELSE shared' = live \cup {t} /\ Goto(h, "local") /\ UNCHANGED pendings
        /\ UNCHANGED <<now, hasConsumer, seen, streams, passed>>

AfterSharedConsumer(h) ==
    /\ hs[h].at = "local"
    /\ consumeLocalAuthNonce(h, TRUE)
    /\ UNCHANGED <<now, hasConsumer, shared, streams>>

\* The key look-up, the consumer or beforeClientAdmission() fails.
HandshakeFails(h) ==
    /\ hs[h].at \in {"key", "shared", "admit"}
    /\ Settle(h, "refused")
    /\ UNCHANGED <<now, hasConsumer, seen, shared, streams, passed>>

\* beforeClientAdmission() returned and the upgrade is accepted.
AcceptHandshake(h) ==
    /\ hs[h].at = "admit"
    /\ Settle(h, "upgrading")
    /\ UNCHANGED <<now, hasConsumer, seen, shared, streams, passed>>

\* Mutant: the limit is not checked again after the handshake.
attachConnectionUnchecked(h) ==
    LET s == hs[h].server IN
    /\ hs[h].at = "upgrading"
    /\ Goto(h, "open") /\ streams' = [streams EXCEPT ![s] = @ \cup {h}]
    /\ UNCHANGED <<now, hasConsumer, seen, shared, pendings, passed>>

\* attachConnection() after the WebSocket upgrade.
attachConnection(h) ==
    LET s == hs[h].server IN
    /\ hs[h].at = "upgrading"
    /\ IF Cardinality(streams[s]) >= MaxStreams THEN Goto(h, "refused") /\ UNCHANGED streams
       ELSE Goto(h, "open") /\ streams' = [streams EXCEPT ![s] = @ \cup {h}]
    /\ UNCHANGED <<now, hasConsumer, seen, shared, pendings, passed>>

StreamEnds(h) ==
    /\ hs[h].at = "open"
    /\ Goto(h, "closed")
    /\ streams' = [streams EXCEPT ![hs[h].server] = @ \ {h}]
    /\ UNCHANGED <<now, hasConsumer, seen, shared, pendings, passed>>

Tick == now < MaxTime /\ now' = now + 1 /\ UNCHANGED <<hasConsumer, hs, seen, shared, pendings, streams, passed>>

Next == Tick \/ \E h \in Handshakes :
        \/ verifyClient(h) \/ ConsumeAuthReplayToken(h) \/ authNonceConsumer(h) \/ AfterSharedConsumer(h)
        \/ HandshakeFails(h) \/ AcceptHandshake(h) \/ attachConnection(h) \/ StreamEnds(h)

Spec == Init /\ [][Next]_vars

-----------------------------------------------------------------------------
\* A signed token admits one connection: per server when the replay cache is local
\* (validateClientAuth, consumeLocalAuthNonce), across servers when it is shared,
\* in spite of expiry, pruning, eviction and concurrent handshakes.
TokenAdmitsOnce ==
    \A p, q \in passed : p[3] = q[3] /\ (hasConsumer \/ p[2] = q[2]) => p[1] = q[1]

\* Concurrent handshakes cannot push a server past its limits, and every handshake
\* that ended gave its place back (verifyClient, attachConnection).
AdmissionBounded ==
    \A s \in Servers :
        /\ Cardinality(streams[s]) <= MaxStreams /\ pendings[s] <= MaxPending
        /\ pendings[s] = Cardinality({h \in Handshakes :
                              hs[h].server = s /\ hs[h].at \in {"key", "shared", "local", "admit"}})
=============================================================================
