------------------------- MODULE SrpcAdmissionProofs -------------------------
(* Proofs about SrpcAdmission for every set of servers, handshakes and tokens, *)
(* every clock drift and all limits: the limits hold on both sides of the      *)
(* asynchronous authentication, and a token passes the replay check once.      *)
EXTENDS SrpcAdmission, FiniteSetTheorems, TLAPS

Stages == {"new", "key", "shared", "local", "admit", "upgrading", "open", "closed", "refused"}

\* The stages in which a handshake holds a place of pendingHandshakeCount.
PendingStages == {"key", "shared", "local", "admit"}

\* The types, as far as the arguments need them: what the replay cache holds does not matter,
\* only that there is finitely much of it.
Typed ==
    /\ now \in Nat /\ hasConsumer \in BOOLEAN
    /\ hs \in [Handshakes -> [at : Stages, server : Servers \cup {None}, token : Tokens \cup {NoToken}]]
    /\ \A h \in Handshakes : hs[h].at \in PendingStages \cup {"upgrading", "open"} =>
                                 hs[h].server \in Servers /\ hs[h].token \in Tokens
    /\ seen = [s \in Servers |-> seen[s]] /\ \A s \in Servers : IsFiniteSet(seen[s])
    /\ shared \subseteq Tokens
    /\ pendings \in [Servers -> Nat] /\ streams \in [Servers -> SUBSET Handshakes]
    /\ passed \subseteq Handshakes \X Servers \X Tokens

\* The handshakes that pendingHandshakeCount of s counts.
Waiting(s) == {h \in Handshakes : hs[h].server = s /\ hs[h].at \in PendingStages}

Spent(t) == ExpiresAt(t) <= now

\* Without a shared consumer a server remembers what passed until it has expired.
LocalSound ==
    ~hasConsumer =>
        /\ \A h \in Handshakes : hs[h].at \notin {"shared", "local"}
        /\ \A p \in passed : p[3] \in Remembered(seen[p[2]]) \/ Spent(p[3])

\* The shared consumer has accepted the token of h.
Owned(h) ==
    /\ hs[h].token \in shared \/ Spent(hs[h].token)
    /\ \A p \in passed : p[3] # hs[h].token
    /\ \A g \in Handshakes \ {h} : hs[g].at = "local" => hs[g].token # hs[h].token

\* With one, it remembers what passed and what is about to be recorded locally, and has accepted
\* each of them for one handshake only.
SharedSound ==
    hasConsumer =>
        /\ \A p \in passed : p[3] \in shared \/ Spent(p[3])
        /\ \A h \in Handshakes : hs[h].at = "local" => Owned(h)

AdmissionInv == Typed /\ AdmissionBounded /\ LocalSound /\ SharedSound /\ TokenAdmitsOnce

TokenInv == LocalSound /\ SharedSound /\ TokenAdmitsOnce

-----------------------------------------------------------------------------
\* Init, which gives every server an empty cache and no places taken, satisfies the invariant.
LEMMA AdmissionStarts == ASSUME AdmissionAssumption, Init PROVE AdmissionInv
<1>1. Typed
  BY FS_EmptySet DEF Typed, Init, Stages, PendingStages, None, NoToken
<1>2. AdmissionBounded
  <2> SUFFICES ASSUME NEW s \in Servers
               PROVE /\ Cardinality(streams[s]) <= MaxStreams /\ pendings[s] <= MaxPending
                     /\ pendings[s] = Cardinality({h \in Handshakes :
                          hs[h].server = s /\ hs[h].at \in {"key", "shared", "local", "admit"}})
    BY DEF AdmissionBounded
  <2>1. {h \in Handshakes : hs[h].server = s /\ hs[h].at \in {"key", "shared", "local", "admit"}} = {}
    BY DEF Init
  <2>2. Cardinality(streams[s]) = 0 /\ pendings[s] = 0
    BY FS_EmptySet DEF Init
  <2> QED BY <2>1, <2>2, FS_EmptySet DEF AdmissionAssumption
<1>3. TokenInv
  BY DEF TokenInv, LocalSound, SharedSound, TokenAdmitsOnce, Init
<1> QED BY <1>1, <1>2, <1>3 DEF AdmissionInv, TokenInv

-----------------------------------------------------------------------------
(* Places.                                                                    *)

\* The count of verifyClient() is the number of handshakes in the pending stages.
LEMMA PlacesAreWaiting ==
    ASSUME AdmissionAssumption, Typed, NEW s \in Servers
    PROVE /\ IsFiniteSet(Waiting(s)) /\ IsFiniteSet(streams[s])
          /\ AdmissionBounded => /\ pendings[s] = Cardinality(Waiting(s))
                                 /\ pendings[s] <= MaxPending /\ Cardinality(streams[s]) <= MaxStreams
<1>1. Waiting(s) \subseteq Handshakes /\ streams[s] \subseteq Handshakes
  BY DEF Waiting, Typed
<1>2. IsFiniteSet(Waiting(s)) /\ IsFiniteSet(streams[s])
  BY <1>1, FS_Subset DEF AdmissionAssumption
<1> QED BY <1>2 DEF AdmissionBounded, Waiting, PendingStages

\* The bound from what the next state counts.
LEMMA PlacesBounded ==
    ASSUME \A s \in Servers : /\ Cardinality(streams'[s]) <= MaxStreams
                              /\ pendings'[s] <= MaxPending /\ pendings'[s] = Cardinality(Waiting(s)')
    PROVE AdmissionBounded'
BY DEF AdmissionBounded, Waiting, PendingStages

\* finally() gives the place of a pending handshake back.
LEMMA PlaceGivenBack ==
    ASSUME AdmissionAssumption, Typed, AdmissionBounded, NEW h \in Handshakes, NEW at \in Stages \ PendingStages,
           hs[h].at \in PendingStages, Settle(h, at), UNCHANGED streams
    PROVE AdmissionBounded' /\ pendings' \in [Servers -> Nat]
<1>0. hs[h].server \in Servers
  BY DEF Typed
<1>1. ASSUME NEW s \in Servers
      PROVE /\ Cardinality(streams'[s]) <= MaxStreams
            /\ pendings'[s] <= MaxPending /\ pendings'[s] = Cardinality(Waiting(s)') /\ pendings'[s] \in Nat
  <2>0. /\ IsFiniteSet(Waiting(s)) /\ pendings[s] = Cardinality(Waiting(s)) /\ pendings[s] \in Nat
        /\ pendings[s] <= MaxPending /\ Cardinality(streams[s]) <= MaxStreams /\ MaxPending \in Nat
    BY PlacesAreWaiting DEF Typed, AdmissionAssumption
  <2>1. CASE s = hs[h].server
    <3>1. h \in Waiting(s)
      BY <2>1 DEF Waiting
    <3>2. Waiting(s)' = Waiting(s) \ {h}
      BY <2>1 DEF Waiting, Settle, Goto, Typed, PendingStages, Stages
    <3>3. Cardinality(Waiting(s)') = Cardinality(Waiting(s)) - 1 /\ Cardinality(Waiting(s)') \in Nat
      BY <3>1, <3>2, <2>0, FS_RemoveElement, FS_CardinalityType
    <3>4. pendings'[s] = pendings[s] - 1
      BY <2>1 DEF Settle, Typed
    <3> QED BY <3>3, <3>4, <2>0
  <2>2. CASE s # hs[h].server
    <3>1. Waiting(s)' = Waiting(s)
      BY <2>2 DEF Waiting, Settle, Goto, Typed
    <3>2. pendings'[s] = pendings[s]
      BY <2>2 DEF Settle, Typed
    <3> QED BY <3>1, <3>2, <2>0
  <2> QED BY <2>1, <2>2
<1>2. pendings' \in [Servers -> Nat]
  <2>1. DOMAIN pendings' = Servers /\ pendings' = [s \in Servers |-> pendings'[s]]
    BY DEF Settle, Typed
  <2> QED BY <2>1, <1>1
<1> QED BY <1>1, <1>2, PlacesBounded

\* A step that leaves every handshake pending or not, as it was, keeps the count.
LEMMA PlacesKept ==
    ASSUME AdmissionAssumption, Typed, AdmissionBounded, UNCHANGED pendings,
           \A h \in Handshakes : /\ hs'[h].server = hs[h].server
                                 /\ hs'[h].at \in PendingStages <=> hs[h].at \in PendingStages,
           \A s \in Servers : Cardinality(streams'[s]) <= MaxStreams
    PROVE AdmissionBounded'
<1>1. ASSUME NEW s \in Servers PROVE Waiting(s)' = Waiting(s)
  BY DEF Waiting
<1>2. ASSUME NEW s \in Servers
      PROVE pendings[s] = Cardinality(Waiting(s)) /\ pendings[s] <= MaxPending
  BY PlacesAreWaiting
<1> QED BY <1>1, <1>2, PlacesBounded

-----------------------------------------------------------------------------
(* Tokens.                                                                    *)

\* A step that records nothing, and takes no handshake to the shared consumer or past it, keeps
\* what is known of the tokens; time only spends them.
LEMMA TokensKept ==
    ASSUME AdmissionAssumption, Typed, TokenInv, now' \in Nat, now <= now', UNCHANGED <<hasConsumer, seen, shared, passed>>,
           \A h \in Handshakes : hs'[h].at \in {"shared", "local"} =>
               hs'[h].at = hs[h].at /\ hs'[h].token = hs[h].token
    PROVE TokenInv'
<1>1. ASSUME NEW t \in Tokens, Spent(t) PROVE Spent(t)'
  <2>1. t.ts \in Nat /\ Drift \in Nat /\ now \in Nat
    BY DEF AdmissionAssumption, Typed
  <2> QED BY <1>1, <2>1 DEF Spent, ExpiresAt
<1>2. ASSUME NEW p \in passed PROVE p[3] \in Tokens
  BY DEF Typed
<1>3. LocalSound'
  BY <1>1, <1>2 DEF LocalSound, TokenInv
<1>4. SharedSound'
  <2>1. ASSUME hasConsumer, NEW h \in Handshakes, hs'[h].at = "local" PROVE Owned(h)'
    <3>1. hs[h].at = "local" /\ hs'[h].token = hs[h].token /\ Owned(h) /\ hs[h].token \in Tokens
      BY <2>1 DEF TokenInv, SharedSound, Typed, PendingStages
    <3>2. ASSUME NEW g \in Handshakes \ {h}, hs'[g].at = "local" PROVE hs'[g].token # hs'[h].token
      BY <3>1, <3>2 DEF Owned
    <3> QED BY <3>1, <3>2, <1>1 DEF Owned
  <2>2. ASSUME hasConsumer, NEW p \in passed PROVE p[3] \in shared \/ Spent(p[3])'
    BY <2>2, <1>1, <1>2 DEF TokenInv, SharedSound
  <2> QED BY <2>1, <2>2 DEF SharedSound
<1>5. TokenAdmitsOnce'
  BY DEF TokenInv, TokenAdmitsOnce
<1> QED BY <1>3, <1>4, <1>5 DEF TokenInv
\* consumeLocalAuthNonce() without allowEviction evicts nothing: at a limit it refuses.
LEMMA NothingEvicted ==
    ASSUME AdmissionAssumption, Typed, NEW s \in Servers, NEW t, Consumable(s, t, FALSE)
    PROVE Evicted(Live(s), t) = Live(s)
<1>1. IsFiniteSet(Live(s))
  BY FS_Subset DEF Live, Typed
<1>2. IsFiniteSet(Principals(Live(s))) /\ IsFiniteSet(OfPrincipal(Live(s), t.cid))
  <2>1. IsFiniteSet({e.token.cid : e \in Live(s)})
    <3> DEFINE f == [e \in Live(s) |-> e.token.cid]
    <3>1. f \in Surjection(Live(s), {e.token.cid : e \in Live(s)})
      BY DEF Surjection
    <3> QED BY <3>1, <1>1, FS_Surjection
  <2> QED BY <2>1, <1>1, FS_Subset DEF Principals, OfPrincipal
<1>3. Cardinality(Principals(Live(s))) \in Nat /\ Cardinality(OfPrincipal(Live(s), t.cid)) \in Nat
  BY <1>2, FS_CardinalityType
<1>4. MaxPrincipals \in Nat /\ MaxNonces \in Nat
  BY DEF AdmissionAssumption
<1> QED BY <1>3, <1>4 DEF Evicted, Consumable

\* What is recorded is remembered, and what was remembered before and not evicted is too.
LEMMA RecordedIsRemembered ==
    ASSUME NEW q, NEW t
    PROVE Remembered(Recorded(q, t)) = Remembered(q) \cup {t}
<1> DEFINE new == [token |-> t, turn |-> 1 + Max({0} \cup {e.turn : e \in q})]
<1>1. Recorded(q, t) = q \cup {new} /\ new.token = t
  BY DEF Recorded
<1> HIDE DEF new
<1> QED BY <1>1 DEF Remembered

\* consumeLocalAuthNonce() ends in one of two stages.
LEMMA ConsumptionMoves ==
    ASSUME NEW h \in Handshakes, NEW ev, consumeLocalAuthNonce(h, ev)
    PROVE hs' = [hs EXCEPT ![h].at = "admit"] \/ hs' = [hs EXCEPT ![h].at = "refused"]
BY DEF consumeLocalAuthNonce, Settle, Goto

\* A token that passes the local check of a server without a shared consumer has not passed
\* there before: what passed is remembered while it could pass again, and nothing is evicted.
LEMMA PassesLocally ==
    ASSUME AdmissionAssumption, Typed, TokenInv, NEW h \in Handshakes, hs[h].at = "key", ~hasConsumer,
           consumeLocalAuthNonce(h, FALSE), UNCHANGED <<now, hasConsumer, shared>>
    PROVE TokenInv'
<1> DEFINE s == hs[h].server
           t == hs[h].token
<1>0. s \in Servers /\ t \in Tokens
  BY DEF Typed, PendingStages
<1>1. ASSUME NEW g \in Handshakes PROVE hs'[g].at \notin {"shared", "local"}
  BY ConsumptionMoves DEF Typed, TokenInv, LocalSound
<1>2. ASSUME NEW p \in passed PROVE p[3] \in Remembered(seen[p[2]]) \/ Spent(p[3])
  BY DEF TokenInv, LocalSound
<1>t. ASSUME NEW u \in Tokens PROVE ExpiresAt(u) \in Nat
  BY DEF AdmissionAssumption, ExpiresAt
<1>3. ASSUME NEW p \in passed, p[2] = s, ~Spent(p[3]) PROVE p[3] \in Remembered(Live(s))
  <2>1. p[3] \in Remembered(seen[s]) /\ p[3] \in Tokens
    BY <1>2, <1>3 DEF Typed
  <2>2. ExpiresAt(p[3]) > now
    BY <2>1, <1>3, <1>t DEF Spent, Typed
  <2> QED BY <2>1, <2>2 DEF Remembered, Live
<1>4. CASE Consumable(s, t, FALSE)
  <2>1. seen' = [seen EXCEPT ![s] = Recorded(Live(s), t)] /\ passed' = passed \cup {<<h, s, t>>}
    BY <1>4, <1>0, NothingEvicted DEF consumeLocalAuthNonce
  <2>2. ~Spent(t) /\ t \notin Remembered(Live(s))
    BY <1>4, <1>0, <1>t DEF Consumable, Spent, Typed
  <2>3. ASSUME NEW p \in passed', NEW r \in passed', p[3] = r[3], p[2] = r[2] PROVE p[1] = r[1]
    <3>1. ASSUME NEW o \in passed, o[2] = s PROVE o[3] # t
      BY <3>1, <2>2, <1>3
    <3>2. CASE p \in passed /\ r \in passed
      BY <2>3, <3>2 DEF TokenInv, TokenAdmitsOnce
    <3> QED BY <2>1, <2>3, <3>1, <3>2
  <2>4. ASSUME NEW p \in passed' PROVE p[3] \in Remembered(seen'[p[2]]) \/ Spent(p[3])
    <3>1. seen'[s] = Recorded(Live(s), t) /\ \A r \in Servers \ {s} : seen'[r] = seen[r]
      BY <2>1, <1>0 DEF Typed
    <3>2. Remembered(seen'[s]) = Remembered(Live(s)) \cup {t}
      BY <3>1, RecordedIsRemembered
    <3>3. CASE p = <<h, s, t>>
      BY <3>3, <3>2
    <3>4. CASE p \in passed /\ p[2] = s
      BY <3>4, <3>2, <1>3
    <3>5. CASE p \in passed /\ p[2] # s
      <4>1. p[2] \in Servers
        BY <3>5 DEF Typed
      <4> QED BY <4>1, <3>5, <3>1, <1>2
    <3> QED BY <2>1, <3>3, <3>4, <3>5
  <2> QED BY <1>1, <2>3, <2>4 DEF TokenInv, LocalSound, SharedSound, TokenAdmitsOnce, Spent
<1>5. CASE ~Consumable(s, t, FALSE)
  <2>1. seen' = [seen EXCEPT ![s] = Live(s)] /\ passed' = passed
    BY <1>5 DEF consumeLocalAuthNonce
  <2>2. ASSUME NEW p \in passed PROVE p[3] \in Remembered(seen'[p[2]]) \/ Spent(p[3])
    <3>1. p[2] \in Servers /\ seen'[s] = Live(s) /\ \A r \in Servers \ {s} : seen'[r] = seen[r]
      BY <2>1, <1>0 DEF Typed
    <3> QED BY <3>1, <1>2, <1>3
  <2> QED BY <1>1, <2>1, <2>2 DEF TokenInv, LocalSound, SharedSound, TokenAdmitsOnce, Spent
<1> QED BY <1>4, <1>5

\* With a shared consumer the local cache may evict: what passes has been accepted for this one
\* handshake by the consumer.
LEMMA PassesShared ==
    ASSUME AdmissionAssumption, Typed, TokenInv, NEW h \in Handshakes, hs[h].at = "local",
           consumeLocalAuthNonce(h, TRUE), UNCHANGED <<now, hasConsumer, shared>>
    PROVE TokenInv'
<1> DEFINE s == hs[h].server
           t == hs[h].token
<1>1. hasConsumer /\ Owned(h) /\ s \in Servers /\ t \in Tokens
  BY DEF TokenInv, LocalSound, SharedSound, Typed, PendingStages
<1>2. /\ hs'[h].at # "local"
      /\ \A g \in Handshakes : hs'[g].token = hs[g].token /\ (hs'[g].at = "local" => g # h /\ hs[g].at = "local")
  <2> DEFINE Moved(at) == hs' = [hs EXCEPT ![h].at = at]
  <2>1. ASSUME NEW at \in {"admit", "refused"}, Moved(at), NEW g \in Handshakes
        PROVE /\ hs'[g].token = hs[g].token
              /\ g # h => hs'[g].at = hs[g].at
              /\ g = h => hs'[g].at = at
    BY <2>1 DEF Typed
  <2>2. \E at \in {"admit", "refused"} : Moved(at)
    BY ConsumptionMoves
  <2> HIDE DEF Moved
  <2> QED BY <2>1, <2>2
<1>3. passed' \subseteq passed \cup {<<h, s, t>>}
  BY DEF consumeLocalAuthNonce
<1>4. ASSUME NEW p \in passed', NEW r \in passed', p[3] = r[3] PROVE p[1] = r[1]
  <2>1. \A o \in passed : o[3] # t
    BY <1>1 DEF Owned
  <2>2. CASE p \in passed /\ r \in passed
    BY <1>1, <1>4, <2>2 DEF TokenInv, TokenAdmitsOnce
  <2> QED BY <1>3, <1>4, <2>1, <2>2
<1>5. ASSUME NEW p \in passed' PROVE p[3] \in shared \/ Spent(p[3])
  BY <1>1, <1>3 DEF TokenInv, SharedSound, Owned
<1>6. ASSUME NEW g \in Handshakes, hs'[g].at = "local" PROVE Owned(g)'
  <2>1. hs[g].at = "local" /\ g # h /\ hs'[g].token = hs[g].token /\ Owned(g)
    BY <1>1, <1>2, <1>6 DEF TokenInv, SharedSound
  <2>2. hs[g].token # t
    BY <2>1, <1>1 DEF Owned
  <2>3. \A p \in passed' : p[3] # hs[g].token
    BY <2>1, <2>2, <1>3 DEF Owned
  <2>4. \A k \in Handshakes \ {g} : hs'[k].at = "local" => hs'[k].token # hs'[g].token
    BY <2>1, <1>2 DEF Owned
  <2> QED BY <2>1, <2>3, <2>4 DEF Owned, Spent
<1> QED BY <1>1, <1>4, <1>5, <1>6 DEF TokenInv, LocalSound, SharedSound, TokenAdmitsOnce, Spent

\* CONSUME_AUTH_NONCE accepts a token only if it has neither passed nor been accepted for
\* another handshake, and forgets only what has expired.
LEMMA AcceptedOnce ==
    ASSUME AdmissionAssumption, Typed, TokenInv, NEW h \in Handshakes, authNonceConsumer(h)
    PROVE TokenInv'
<1> DEFINE t == hs[h].token
           live == {u \in shared : ExpiresAt(u) > now}
<1>0. hasConsumer /\ hs[h].at = "shared" /\ t \in Tokens
  BY DEF authNonceConsumer, TokenInv, LocalSound, Typed, PendingStages
<1>t. ASSUME NEW u \in Tokens PROVE ExpiresAt(u) \in Nat /\ now \in Nat
  BY DEF AdmissionAssumption, ExpiresAt, Typed
<1>1. CASE Settle(h, "refused") /\ UNCHANGED shared
  <2>1. \A g \in Handshakes : hs'[g].at \in {"shared", "local"} => hs'[g].at = hs[g].at /\ hs'[g].token = hs[g].token
    BY <1>1 DEF Settle, Goto, Typed
  <2> QED BY <1>1, <1>t, <1>0, <2>1, TokensKept DEF authNonceConsumer
<1>2. CASE /\ ExpiresAt(t) > now /\ t \notin live
           /\ shared' = live \cup {t} /\ Goto(h, "local")
  <2>0. UNCHANGED <<now, hasConsumer, seen, streams, passed>>
    BY DEF authNonceConsumer
  <2>1. \A u \in Tokens : u \in shared /\ u \notin shared' => Spent(u)
    BY <1>2, <1>t DEF Spent
  <2>2. t \notin shared /\ ~Spent(t)
    BY <1>2, <1>0, <1>t DEF Spent
  <2>3. ASSUME NEW p \in passed PROVE p[3] # t /\ (p[3] \in shared' \/ Spent(p[3]))
    <3>1. p[3] \in Tokens /\ (p[3] \in shared \/ Spent(p[3]))
      BY <1>0 DEF TokenInv, SharedSound, Typed
    <3> QED BY <3>1, <2>1, <2>2
  <2>4. ASSUME NEW g \in Handshakes \ {h}, hs'[g].at = "local" PROVE hs[g].at = "local" /\ hs[g].token # t
    <3>1. hs[g].at = "local" /\ Owned(g)
      BY <1>0, <1>2, <2>4 DEF TokenInv, SharedSound, Goto, Typed
    <3> QED BY <3>1, <2>2 DEF Owned
  <2>5. \A g \in Handshakes : hs'[g].token = hs[g].token
    BY <1>2 DEF Goto, Typed
  <2>6. Owned(h)'
    BY <2>0, <2>3, <2>4, <2>5, <1>2 DEF Owned
  <2>7. ASSUME NEW g \in Handshakes \ {h}, hs'[g].at = "local" PROVE Owned(g)'
    <3>1. hs[g].at = "local" /\ hs[g].token # t /\ Owned(g) /\ hs[g].token \in Tokens
      BY <1>0, <2>4, <2>7 DEF TokenInv, SharedSound, Typed, PendingStages
    <3>2. \A k \in Handshakes \ {g} : hs'[k].at = "local" => hs'[k].token # hs'[g].token
      BY <3>1, <2>4, <2>5 DEF Owned
    <3> QED BY <3>1, <3>2, <2>0, <2>1, <2>5 DEF Owned, Spent
  <2> QED BY <2>0, <2>3, <2>6, <2>7, <1>0 DEF TokenInv, LocalSound, SharedSound, TokenAdmitsOnce, Spent
<1>3. ~(ExpiresAt(t) <= now) => ExpiresAt(t) > now
  BY <1>0, <1>t
<1> QED BY <1>1, <1>2, <1>3 DEF authNonceConsumer
-----------------------------------------------------------------------------
(* Types.                                                                     *)

\* A handshake that moves on keeps its server and token, so it stays typed.
LEMMA MovedIsTyped ==
    ASSUME Typed, NEW h \in Handshakes, NEW at \in Stages, Goto(h, at),
           at \in PendingStages \cup {"upgrading", "open"} => hs[h].at \in PendingStages \cup {"upgrading"}
    PROVE /\ hs' \in [Handshakes -> [at : Stages, server : Servers \cup {None}, token : Tokens \cup {NoToken}]]
          /\ \A g \in Handshakes : hs'[g].at \in PendingStages \cup {"upgrading", "open"} =>
                                      hs'[g].server \in Servers /\ hs'[g].token \in Tokens
          /\ \A g \in Handshakes : /\ hs'[g].server = hs[g].server /\ hs'[g].token = hs[g].token
                                   /\ hs'[g].at = IF g = h THEN at ELSE hs[g].at
<1>1. hs' \in [Handshakes -> [at : Stages, server : Servers \cup {None}, token : Tokens \cup {NoToken}]]
  BY DEF Typed, Goto
<1>2. \A g \in Handshakes : /\ hs'[g].server = hs[g].server /\ hs'[g].token = hs[g].token
                            /\ hs'[g].at = IF g = h THEN at ELSE hs[g].at
  BY DEF Typed, Goto
<1> QED BY <1>1, <1>2 DEF Typed

\* The replay cache stays finite whatever is pruned, evicted and recorded.
LEMMA CacheStaysFinite ==
    ASSUME Typed, NEW h \in Handshakes, hs[h].at \in PendingStages, NEW ev, consumeLocalAuthNonce(h, ev)
    PROVE /\ seen' = [s \in Servers |-> seen'[s]] /\ \A s \in Servers : IsFiniteSet(seen'[s])
          /\ passed' \subseteq Handshakes \X Servers \X Tokens
<1> DEFINE s == hs[h].server
           t == hs[h].token
<1>0. s \in Servers /\ t \in Tokens
  BY DEF Typed
<1>1. IsFiniteSet(Live(s))
  BY <1>0, FS_Subset DEF Live, Typed
<1>2. IsFiniteSet(Evicted(Live(s), t))
  <2>1. Evicted(Live(s), t) \subseteq Live(s)
    BY DEF Evicted
  <2> QED BY <2>1, <1>1, FS_Subset
<1>3. IsFiniteSet(Recorded(Evicted(Live(s), t), t))
  BY <1>2, FS_AddElement DEF Recorded
<1>4. \E q : IsFiniteSet(q) /\ seen' = [seen EXCEPT ![s] = q]
  BY <1>1, <1>3 DEF consumeLocalAuthNonce
<1>5. PICK q : IsFiniteSet(q) /\ seen' = [seen EXCEPT ![s] = q]
  BY <1>4
<1>6. seen' = [r \in Servers |-> seen'[r]] /\ \A r \in Servers : IsFiniteSet(seen'[r])
  BY <1>5 DEF Typed
<1>7. passed' \subseteq Handshakes \X Servers \X Tokens
  BY <1>0 DEF consumeLocalAuthNonce, Typed
<1> QED BY <1>6, <1>7

\* consumeLocalAuthNonce() as a whole, in both modes: it stays pending or gives its place back.
LEMMA ConsumptionSound ==
    ASSUME AdmissionAssumption, AdmissionInv, NEW h \in Handshakes, hs[h].at \in {"key", "local"}, NEW ev \in BOOLEAN,
           consumeLocalAuthNonce(h, ev), UNCHANGED <<now, hasConsumer, shared, streams>>
    PROVE Typed' /\ AdmissionBounded'
<1>0. Typed /\ AdmissionBounded /\ hs[h].at \in PendingStages
  BY DEF AdmissionInv, PendingStages
<1>1. /\ seen' = [s \in Servers |-> seen'[s]] /\ \A s \in Servers : IsFiniteSet(seen'[s])
      /\ passed' \subseteq Handshakes \X Servers \X Tokens
  BY <1>0, CacheStaysFinite
<1>2. CASE Goto(h, "admit") /\ UNCHANGED pendings
  <2>1. AdmissionBounded'
    <3>1. \A g \in Handshakes : /\ hs'[g].server = hs[g].server
                                /\ hs'[g].at = IF g = h THEN "admit" ELSE hs[g].at
      BY <1>0, <1>2, MovedIsTyped DEF Stages
    <3>2. \A s \in Servers : Cardinality(streams'[s]) <= MaxStreams
      BY <1>0 DEF AdmissionBounded
    <3>3. \A g \in Handshakes : hs'[g].at \in PendingStages <=> hs[g].at \in PendingStages
      BY <1>0, <3>1 DEF PendingStages
    <3> QED BY <1>0, <1>2, <3>1, <3>2, <3>3, PlacesKept
  <2> QED BY <1>0, <1>1, <1>2, <2>1, MovedIsTyped DEF Typed, Stages
<1>3. CASE Settle(h, "refused")
  <2>1. AdmissionBounded' /\ pendings' \in [Servers -> Nat]
    BY <1>0, <1>3, PlaceGivenBack DEF Stages, PendingStages
  <2>2. Goto(h, "refused") /\ "refused" \in Stages /\ "refused" \notin PendingStages \cup {"upgrading", "open"}
    BY <1>3 DEF Settle, Stages, PendingStages
  <2> QED BY <1>0, <1>1, <2>1, <2>2, MovedIsTyped DEF Typed
<1> QED BY <1>2, <1>3 DEF consumeLocalAuthNonce
-----------------------------------------------------------------------------
(* One lemma per action.                                                      *)

\* Tick: only the clock moves.
LEMMA TickSound == ASSUME AdmissionAssumption, AdmissionInv, Tick PROVE AdmissionInv'
<1>0. Typed /\ TokenInv /\ now \in Nat /\ UNCHANGED <<hasConsumer, hs, seen, shared, pendings, streams, passed>>
  BY DEF AdmissionInv, TokenInv, Typed, Tick
<1>1. now' \in Nat /\ now <= now'
  BY <1>0 DEF Tick
<1>2. Typed'
  BY <1>0, <1>1 DEF Typed
<1>3. AdmissionBounded'
  BY <1>0 DEF AdmissionInv, AdmissionBounded
<1>4. TokenInv'
  BY <1>0, <1>1, TokensKept
<1> QED BY <1>2, <1>3, <1>4 DEF AdmissionInv, TokenInv

\* Every way a pending handshake ends: refused, or on to the upgrade.
LEMMA SettlesSound ==
    ASSUME AdmissionAssumption, AdmissionInv, NEW h \in Handshakes, hs[h].at \in PendingStages,
           NEW at \in {"refused", "upgrading"}, Settle(h, at),
           UNCHANGED <<now, hasConsumer, seen, shared, streams, passed>>
    PROVE AdmissionInv'
<1>0. Typed /\ AdmissionBounded /\ TokenInv /\ at \in Stages \ PendingStages /\ Goto(h, at) /\ now \in Nat
  BY DEF AdmissionInv, TokenInv, Stages, PendingStages, Settle, Typed
<1>1. AdmissionBounded' /\ pendings' \in [Servers -> Nat]
  BY <1>0, PlaceGivenBack
<1>2. Typed' /\ \A g \in Handshakes : hs'[g].token = hs[g].token /\ hs'[g].at = IF g = h THEN at ELSE hs[g].at
  BY <1>0, <1>1, MovedIsTyped DEF Typed
<1>3. \A g \in Handshakes : hs'[g].at \in {"shared", "local"} => hs'[g].at = hs[g].at /\ hs'[g].token = hs[g].token
  BY <1>2
<1>4. TokenInv'
  <2>1. now' \in Nat /\ now <= now'
    BY <1>0
  <2> QED BY <1>0, <1>3, <2>1, TokensKept
<1> QED BY <1>1, <1>2, <1>4 DEF AdmissionInv, TokenInv

\* verifyClient(): a place is taken below the limit only.
LEMMA VerifySound ==
    ASSUME AdmissionAssumption, AdmissionInv, NEW h \in Handshakes, verifyClient(h) PROVE AdmissionInv'
<1>0. /\ Typed /\ AdmissionBounded /\ TokenInv /\ now \in Nat /\ hs[h].at = "new"
      /\ UNCHANGED <<now, hasConsumer, seen, shared, streams, passed>>
  BY DEF AdmissionInv, TokenInv, Typed, verifyClient
<1>1. CASE Goto(h, "refused") /\ UNCHANGED pendings
  <2>1. /\ Typed'
        /\ \A g \in Handshakes : /\ hs'[g].server = hs[g].server /\ hs'[g].token = hs[g].token
                                 /\ hs'[g].at = IF g = h THEN "refused" ELSE hs[g].at
    BY <1>0, <1>1, MovedIsTyped DEF Typed, Stages, PendingStages
  <2>2. \A g \in Handshakes : hs'[g].at \in PendingStages <=> hs[g].at \in PendingStages
    BY <1>0, <2>1 DEF PendingStages
  <2>3. \A s \in Servers : Cardinality(streams'[s]) <= MaxStreams
    BY <1>0 DEF AdmissionBounded
  <2>4. AdmissionBounded'
    BY <1>0, <1>1, <2>1, <2>2, <2>3, PlacesKept
  <2>5. \A g \in Handshakes : hs'[g].at \in {"shared", "local"} => hs'[g].at = hs[g].at /\ hs'[g].token = hs[g].token
    BY <2>1
  <2>6. now' \in Nat /\ now <= now'
    BY <1>0
  <2> QED BY <1>0, <2>1, <2>4, <2>5, <2>6, TokensKept DEF AdmissionInv, TokenInv
<1>2. ASSUME NEW s \in Servers, NEW t \in Tokens, ~(pendings[s] >= MaxPending),
             hs' = [hs EXCEPT ![h] = [at |-> "key", server |-> s, token |-> t]],
             pendings' = [pendings EXCEPT ![s] = @ + 1]
      PROVE AdmissionInv'
  <2>1. /\ hs' \in [Handshakes -> [at : Stages, server : Servers \cup {None}, token : Tokens \cup {NoToken}]]
        /\ hs'[h].at = "key" /\ hs'[h].server = s /\ hs'[h].token = t
        /\ \A g \in Handshakes \ {h} : hs'[g] = hs[g]
    BY <1>0, <1>2 DEF Typed, Stages
  <2>2. pendings' \in [Servers -> Nat] /\ pendings'[s] = pendings[s] + 1 /\ \A r \in Servers \ {s} : pendings'[r] = pendings[r]
    BY <1>0, <1>2 DEF Typed
  <2>3. Typed'
    BY <1>0, <2>1, <2>2 DEF Typed
  <2>4. ASSUME NEW r \in Servers
        PROVE /\ Cardinality(streams'[r]) <= MaxStreams
              /\ pendings'[r] <= MaxPending /\ pendings'[r] = Cardinality(Waiting(r)')
    <3>0. /\ IsFiniteSet(Waiting(r)) /\ pendings[r] = Cardinality(Waiting(r)) /\ pendings[r] \in Nat
          /\ pendings[r] <= MaxPending /\ Cardinality(streams[r]) <= MaxStreams /\ MaxPending \in Nat
      BY <1>0, PlacesAreWaiting DEF Typed, AdmissionAssumption
    <3>1. CASE r = s
      <4>1. h \notin Waiting(r) /\ Waiting(r)' = Waiting(r) \cup {h}
        BY <1>0, <2>1, <3>1 DEF Waiting, PendingStages
      <4>2. Cardinality(Waiting(r)') = Cardinality(Waiting(r)) + 1
        BY <4>1, <3>0, FS_AddElement
      <4> QED BY <4>2, <3>0, <3>1, <2>2, <1>2, <1>0
    <3>2. CASE r # s
      <4>1. Waiting(r)' = Waiting(r)
        BY <1>0, <2>1, <3>2 DEF Waiting, PendingStages
      <4> QED BY <4>1, <3>0, <3>2, <2>2, <1>0
    <3> QED BY <3>1, <3>2
  <2>5. AdmissionBounded'
    BY <2>4, PlacesBounded
  <2>6. \A g \in Handshakes : hs'[g].at \in {"shared", "local"} => hs'[g].at = hs[g].at /\ hs'[g].token = hs[g].token
    BY <2>1
  <2>7. now' \in Nat /\ now <= now'
    BY <1>0
  <2> QED BY <1>0, <2>3, <2>5, <2>6, <2>7, TokensKept DEF AdmissionInv, TokenInv
<1> QED BY <1>1, <1>2 DEF verifyClient

\* consumeAuthReplayToken() after the key look-up.
LEMMA ConsumeSound ==
    ASSUME AdmissionAssumption, AdmissionInv, NEW h \in Handshakes, ConsumeAuthReplayToken(h) PROVE AdmissionInv'
<1>0. /\ Typed /\ AdmissionBounded /\ TokenInv /\ now \in Nat /\ hs[h].at = "key" /\ hs[h].at \in PendingStages
      /\ UNCHANGED <<now, hasConsumer, shared, streams>>
  BY DEF AdmissionInv, TokenInv, Typed, ConsumeAuthReplayToken, PendingStages
<1>1. CASE Settle(h, "refused") /\ UNCHANGED <<seen, passed>>
  BY <1>0, <1>1, SettlesSound
<1>2. CASE hasConsumer /\ Goto(h, "shared") /\ UNCHANGED <<seen, passed, pendings>>
  <2>1. /\ Typed'
        /\ \A g \in Handshakes : /\ hs'[g].server = hs[g].server /\ hs'[g].token = hs[g].token
                                 /\ hs'[g].at = IF g = h THEN "shared" ELSE hs[g].at
    BY <1>0, <1>2, MovedIsTyped DEF Typed, Stages
  <2>2. \A g \in Handshakes : hs'[g].at \in PendingStages <=> hs[g].at \in PendingStages
    BY <1>0, <2>1 DEF PendingStages
  <2>3. \A s \in Servers : Cardinality(streams'[s]) <= MaxStreams
    BY <1>0 DEF AdmissionBounded
  <2>4. AdmissionBounded'
    BY <1>0, <1>2, <2>1, <2>2, <2>3, PlacesKept
  <2>5. TokenInv'
    <3>1. ASSUME NEW g \in Handshakes, hs'[g].at = "local" PROVE Owned(g)'
      <4>1. hs[g].at = "local" /\ Owned(g) /\ \A k \in Handshakes : hs'[k].at = "local" => hs[k].at = "local"
        BY <1>0, <1>2, <2>1, <3>1 DEF TokenInv, SharedSound
      <4> QED BY <4>1, <2>1, <1>0, <1>2 DEF Owned, Spent
    <3> QED BY <1>0, <1>2, <3>1 DEF TokenInv, LocalSound, SharedSound, TokenAdmitsOnce, Spent
  <2> QED BY <2>1, <2>4, <2>5 DEF AdmissionInv, TokenInv
<1>3. CASE ~hasConsumer /\ consumeLocalAuthNonce(h, FALSE)
  <2>1. Typed' /\ AdmissionBounded'
    BY <1>0, <1>3, ConsumptionSound
  <2>2. TokenInv'
    BY <1>0, <1>3, PassesLocally
  <2> QED BY <2>1, <2>2 DEF AdmissionInv, TokenInv
<1> QED BY <1>1, <1>2, <1>3 DEF ConsumeAuthReplayToken

\* The shared consumer answers.
LEMMA ConsumerSound ==
    ASSUME AdmissionAssumption, AdmissionInv, NEW h \in Handshakes, authNonceConsumer(h) PROVE AdmissionInv'
<1>0. /\ Typed /\ AdmissionBounded /\ TokenInv /\ hs[h].at = "shared" /\ hs[h].at \in PendingStages
      /\ UNCHANGED <<now, hasConsumer, seen, streams, passed>>
  BY DEF AdmissionInv, TokenInv, authNonceConsumer, PendingStages
<1>1. CASE Settle(h, "refused") /\ UNCHANGED shared
  BY <1>0, <1>1, SettlesSound
<1>2. CASE /\ shared' = {u \in shared : ExpiresAt(u) > now} \cup {hs[h].token}
           /\ Goto(h, "local") /\ UNCHANGED pendings
  <2>0. shared' \subseteq Tokens
    BY <1>0, <1>2 DEF Typed
  <2>1. /\ Typed'
        /\ \A g \in Handshakes : /\ hs'[g].server = hs[g].server
                                 /\ hs'[g].at = IF g = h THEN "local" ELSE hs[g].at
    BY <1>0, <1>2, <2>0, MovedIsTyped DEF Typed, Stages
  <2>2. \A g \in Handshakes : hs'[g].at \in PendingStages <=> hs[g].at \in PendingStages
    BY <1>0, <2>1 DEF PendingStages
  <2>3. \A s \in Servers : Cardinality(streams'[s]) <= MaxStreams
    BY <1>0 DEF AdmissionBounded
  <2>4. AdmissionBounded'
    BY <1>0, <1>2, <2>1, <2>2, <2>3, PlacesKept
  <2>5. TokenInv'
    BY <1>0, AcceptedOnce
  <2> QED BY <2>1, <2>4, <2>5 DEF AdmissionInv, TokenInv
<1> QED BY <1>1, <1>2 DEF authNonceConsumer

\* consumeLocalAuthNonce() after the shared consumer accepted.
LEMMA AfterConsumerSound ==
    ASSUME AdmissionAssumption, AdmissionInv, NEW h \in Handshakes, AfterSharedConsumer(h) PROVE AdmissionInv'
<1>0. /\ Typed /\ TokenInv /\ hs[h].at = "local" /\ consumeLocalAuthNonce(h, TRUE)
      /\ UNCHANGED <<now, hasConsumer, shared, streams>>
  BY DEF AdmissionInv, TokenInv, AfterSharedConsumer
<1>1. Typed' /\ AdmissionBounded'
  BY <1>0, ConsumptionSound
<1>2. TokenInv'
  BY <1>0, PassesShared
<1> QED BY <1>1, <1>2 DEF AdmissionInv, TokenInv

\* attachConnection(): the limit is checked again where the stream is added.
LEMMA AttachSound ==
    ASSUME AdmissionAssumption, AdmissionInv, NEW h \in Handshakes, attachConnection(h) PROVE AdmissionInv'
<1> DEFINE s == hs[h].server
<1>0. /\ Typed /\ AdmissionBounded /\ TokenInv /\ now \in Nat /\ hs[h].at = "upgrading" /\ s \in Servers
      /\ UNCHANGED <<now, hasConsumer, seen, shared, pendings, passed>>
  BY DEF AdmissionInv, TokenInv, Typed, attachConnection
<1>1. PICK at \in {"refused", "open"} : Goto(h, at)
  BY DEF attachConnection
<1>2. streams' \in [Servers -> SUBSET Handshakes] /\ \A r \in Servers : Cardinality(streams'[r]) <= MaxStreams
  <2>1. CASE UNCHANGED streams
    BY <1>0, <2>1 DEF Typed, AdmissionBounded
  <2>2. CASE ~(Cardinality(streams[s]) >= MaxStreams) /\ streams' = [streams EXCEPT ![s] = @ \cup {h}]
    <3>1. streams'[s] = streams[s] \cup {h} /\ \A r \in Servers \ {s} : streams'[r] = streams[r]
      BY <1>0, <2>2 DEF Typed
    <3>2. IsFiniteSet(streams[s]) /\ Cardinality(streams[s]) \in Nat /\ MaxStreams \in Nat
      BY <1>0, PlacesAreWaiting, FS_CardinalityType DEF AdmissionAssumption
    <3>3. Cardinality(streams[s] \cup {h}) = Cardinality(streams[s]) \/ Cardinality(streams[s] \cup {h}) = Cardinality(streams[s]) + 1
      BY <3>2, FS_AddElement
    <3>4. Cardinality(streams'[s]) <= MaxStreams
      BY <3>1, <3>2, <3>3, <2>2
    <3>5. \A r \in Servers : Cardinality(streams[r]) <= MaxStreams
      BY <1>0 DEF AdmissionBounded
    <3>6. streams' \in [Servers -> SUBSET Handshakes]
      BY <1>0, <2>2 DEF Typed
    <3> QED BY <3>1, <3>4, <3>5, <3>6
  <2> QED BY <2>1, <2>2 DEF attachConnection
<1>3. /\ Typed'
      /\ \A g \in Handshakes : /\ hs'[g].server = hs[g].server /\ hs'[g].token = hs[g].token
                               /\ hs'[g].at = IF g = h THEN at ELSE hs[g].at
  BY <1>0, <1>1, <1>2, MovedIsTyped DEF Typed, Stages
<1>4. \A g \in Handshakes : hs'[g].at \in PendingStages <=> hs[g].at \in PendingStages
  BY <1>0, <1>1, <1>3 DEF PendingStages
<1>5. AdmissionBounded'
  BY <1>0, <1>2, <1>3, <1>4, PlacesKept
<1>6. \A g \in Handshakes : hs'[g].at \in {"shared", "local"} => hs'[g].at = hs[g].at /\ hs'[g].token = hs[g].token
  BY <1>1, <1>3
<1>7. now' \in Nat /\ now <= now'
  BY <1>0
<1> QED BY <1>0, <1>3, <1>5, <1>6, <1>7, TokensKept DEF AdmissionInv, TokenInv

\* cleanupStream() takes a stream out.
LEMMA StreamEndsSound ==
    ASSUME AdmissionAssumption, AdmissionInv, NEW h \in Handshakes, StreamEnds(h) PROVE AdmissionInv'
<1> DEFINE s == hs[h].server
<1>0. /\ Typed /\ AdmissionBounded /\ TokenInv /\ now \in Nat /\ hs[h].at = "open" /\ s \in Servers /\ Goto(h, "closed")
      /\ UNCHANGED <<now, hasConsumer, seen, shared, pendings, passed>>
  BY DEF AdmissionInv, TokenInv, Typed, StreamEnds
<1>2. streams' \in [Servers -> SUBSET Handshakes] /\ \A r \in Servers : Cardinality(streams'[r]) <= MaxStreams
  <2>1. streams' \in [Servers -> SUBSET Handshakes] /\ \A r \in Servers : streams'[r] \subseteq streams[r]
    BY <1>0 DEF Typed, StreamEnds
  <2>2. ASSUME NEW r \in Servers PROVE Cardinality(streams'[r]) <= MaxStreams
    <3>1. IsFiniteSet(streams[r]) /\ Cardinality(streams[r]) <= MaxStreams /\ MaxStreams \in Nat
      BY <1>0, PlacesAreWaiting DEF AdmissionAssumption
    <3>2. Cardinality(streams'[r]) <= Cardinality(streams[r]) /\ IsFiniteSet(streams'[r])
      BY <3>1, <2>1, FS_Subset
    <3>3. Cardinality(streams'[r]) \in Nat /\ Cardinality(streams[r]) \in Nat
      BY <3>1, <3>2, FS_CardinalityType
    <3> QED BY <3>1, <3>2, <3>3
  <2> QED BY <2>1, <2>2
<1>3. /\ Typed'
      /\ \A g \in Handshakes : /\ hs'[g].server = hs[g].server /\ hs'[g].token = hs[g].token
                               /\ hs'[g].at = IF g = h THEN "closed" ELSE hs[g].at
  BY <1>0, <1>2, MovedIsTyped DEF Typed, Stages, PendingStages
<1>4. \A g \in Handshakes : hs'[g].at \in PendingStages <=> hs[g].at \in PendingStages
  BY <1>0, <1>3 DEF PendingStages
<1>5. AdmissionBounded'
  BY <1>0, <1>2, <1>3, <1>4, PlacesKept
<1>6. \A g \in Handshakes : hs'[g].at \in {"shared", "local"} => hs'[g].at = hs[g].at /\ hs'[g].token = hs[g].token
  BY <1>3
<1>7. now' \in Nat /\ now <= now'
  BY <1>0
<1> QED BY <1>0, <1>3, <1>5, <1>6, <1>7, TokensKept DEF AdmissionInv, TokenInv

-----------------------------------------------------------------------------
\* The invariant holds throughout, for every interleaving of handshakes.
THEOREM AdmissionInvariance == ASSUME AdmissionAssumption PROVE Spec => []AdmissionInv
<1>1. Init => AdmissionInv
  BY AdmissionStarts
<1>2. AdmissionInv /\ [Next]_vars => AdmissionInv'
  <2> SUFFICES ASSUME AdmissionInv, [Next]_vars PROVE AdmissionInv'
    OBVIOUS
  <2>1. CASE Tick
    BY <2>1, TickSound
  <2>2. ASSUME NEW h \in Handshakes, verifyClient(h) PROVE AdmissionInv'
    BY <2>2, VerifySound
  <2>3. ASSUME NEW h \in Handshakes, ConsumeAuthReplayToken(h) PROVE AdmissionInv'
    BY <2>3, ConsumeSound
  <2>4. ASSUME NEW h \in Handshakes, authNonceConsumer(h) PROVE AdmissionInv'
    BY <2>4, ConsumerSound
  <2>5. ASSUME NEW h \in Handshakes, AfterSharedConsumer(h) PROVE AdmissionInv'
    BY <2>5, AfterConsumerSound
  <2>6. ASSUME NEW h \in Handshakes, HandshakeFails(h) PROVE AdmissionInv'
    BY <2>6, SettlesSound DEF HandshakeFails, PendingStages
  <2>7. ASSUME NEW h \in Handshakes, AcceptHandshake(h) PROVE AdmissionInv'
    BY <2>7, SettlesSound DEF AcceptHandshake, PendingStages
  <2>8. ASSUME NEW h \in Handshakes, attachConnection(h) PROVE AdmissionInv'
    BY <2>8, AttachSound
  <2>9. ASSUME NEW h \in Handshakes, StreamEnds(h) PROVE AdmissionInv'
    BY <2>9, StreamEndsSound
  <2>10. CASE UNCHANGED vars
    <3>1. Typed' /\ AdmissionBounded'
      BY <2>10 DEF vars, AdmissionInv, Typed, AdmissionBounded
    <3>2. TokenInv'
      BY <2>10 DEF vars, AdmissionInv, TokenInv, LocalSound, SharedSound, Owned, Spent, TokenAdmitsOnce
    <3> QED BY <3>1, <3>2 DEF AdmissionInv, TokenInv
  <2> QED BY <2>1, <2>2, <2>3, <2>4, <2>5, <2>6, <2>7, <2>8, <2>9, <2>10 DEF Next
<1> QED BY <1>1, <1>2, PTL DEF Spec

\* A signed token admits one connection, per server with the local cache (consumeLocalAuthNonce())
\* and across all servers with the shared one, for every number of tokens, servers and concurrent
\* handshakes, whatever expires and whatever the local caches evict.
THEOREM TokenPassesOnce == ASSUME AdmissionAssumption PROVE Spec => []TokenAdmitsOnce
<1>1. AdmissionInv => TokenAdmitsOnce
  BY DEF AdmissionInv
<1> QED BY <1>1, AdmissionInvariance, PTL

\* Handshakes that authenticate concurrently never push a server past maxPendingHandshakes or
\* maxActiveStreams, and pendingHandshakeCount is exact (verifyClient(), attachConnection()).
THEOREM LimitsHold == ASSUME AdmissionAssumption PROVE Spec => []AdmissionBounded
<1>1. AdmissionInv => AdmissionBounded
  BY DEF AdmissionInv
<1> QED BY <1>1, AdmissionInvariance, PTL
=============================================================================
