-------------------------- MODULE MutexGroupProofs ---------------------------
(* Proofs about MutexGroup for every set of calls, every list of keys each of  *)
(* them names and every flattening: what the sorted, deduplicated list of keys *)
(* is, that groups exclude each other, that the lock map is exact, and that    *)
(* calls never wait in a circle.                                               *)
EXTENDS MutexGroup, FiniteSetTheorems, TLAPS

\* The flattened keys that a call needs.
Wanted(c) == {FlatRequest(c)[i] : i \in DOMAIN Request[c]}

\* How far a call is, by its phase.
IndexSound ==
  \A c \in Calls :
    /\ index[c] \in 0..Len(orderMutexKeys(c))
    /\ phase[c] \in {"idle", "settled"} => index[c] = 0
    /\ phase[c] = "acquire" => index[c] < Len(orderMutexKeys(c))
    /\ phase[c] = "inside" => index[c] = Len(orderMutexKeys(c))

GroupInv == TypeOK /\ IndexSound /\ HeldExactly

-----------------------------------------------------------------------------
(* Ascending(): sorting without recursion.  A member's rank, the number of     *)
(* members that are not larger, is a bijection from the set to 1..Cardinality. *)

Rank(S, k) == Cardinality({l \in S : l <= k})

\* Ranks lie in 1..Cardinality(S) and grow strictly.
LEMMA RanksGrow ==
  ASSUME NEW S \in SUBSET Nat, IsFiniteSet(S)
  PROVE /\ \A k \in S : Rank(S, k) \in 1..Cardinality(S)
        /\ \A k, l \in S : k < l => Rank(S, k) < Rank(S, l)
<1> DEFINE Below(k) == {l \in S : l <= k}
<1>1. ASSUME NEW k \in S PROVE /\ IsFiniteSet(Below(k)) /\ Rank(S, k) \in Nat /\ Rank(S, k) <= Cardinality(S)
                               /\ Rank(S, k) = Cardinality(Below(k))
  <2>1. IsFiniteSet(Below(k)) /\ Cardinality(Below(k)) <= Cardinality(S)
    BY FS_Subset
  <2> QED BY <2>1, FS_CardinalityType DEF Rank
<1>2. ASSUME NEW k \in S PROVE Rank(S, k) # 0
  <2>1. k \in Below(k)
    <3>1. k \in Nat
      OBVIOUS
    <3> QED BY <3>1
  <2>2. Below(k) # {}
    BY <2>1
  <2> QED BY <1>1, <2>2, FS_EmptySet DEF Rank
<1>3. ASSUME NEW k \in S, NEW l \in S, k < l PROVE Rank(S, k) < Rank(S, l)
  <2>1. Below(k) \subseteq Below(l) /\ l \in Below(l) /\ l \notin Below(k)
    <3>1. k \in Nat /\ l \in Nat /\ S \subseteq Nat
      OBVIOUS
    <3>2. ASSUME NEW j \in S, j <= k PROVE j <= l
      BY <3>1, <3>2, <1>3
    <3>3. l <= l /\ ~(l <= k)
      BY <3>1, <1>3
    <3> QED BY <3>2, <3>3
  <2>2. Cardinality(Below(k)) <= Cardinality(Below(l)) /\ Cardinality(Below(k)) # Cardinality(Below(l))
    <3> HIDE DEF Below
    <3> QED BY <2>1, <1>1, FS_Subset
  <2> QED BY <2>2, <1>1
<1>4. Cardinality(S) \in Nat
  BY FS_CardinalityType
<1>5. ASSUME NEW k \in S PROVE Rank(S, k) \in 1..Cardinality(S)
  <2>1. Rank(S, k) \in Nat /\ Rank(S, k) <= Cardinality(S) /\ Rank(S, k) # 0
    BY <1>1, <1>2
  <2> QED BY <2>1, <1>4
<1> QED BY <1>3, <1>5

\* Every position has a member: the ranks are as many as the members.
LEMMA EveryRankIsTaken ==
  ASSUME NEW S \in SUBSET Nat, IsFiniteSet(S), NEW n \in 1..Cardinality(S)
  PROVE \E k \in S : Rank(S, k) = n
<1> DEFINE r == [k \in S |-> Rank(S, k)]
           T == {Rank(S, k) : k \in S}
           N == 1..Cardinality(S)
<1>0. Cardinality(S) \in Nat
  BY FS_CardinalityType
<1>1. r \in Surjection(S, T)
  BY DEF Surjection
<1>2. r \in Injection(S, T)
  <2>1. ASSUME NEW k \in S, NEW l \in S, r[k] = r[l] PROVE k = l
    <3>1. Rank(S, k) = Rank(S, l) /\ Rank(S, k) \in 1..Cardinality(S) /\ k \in Nat /\ l \in Nat
      BY <2>1, RanksGrow
    <3>2. ~(k < l) /\ ~(l < k)
      BY <3>1, <1>0, RanksGrow
    <3> QED BY <3>1, <3>2
  <2>2. r \in [S -> T]
    OBVIOUS
  <2> HIDE DEF r, T
  <2> QED BY <2>1, <2>2 DEF Injection, IsInjective
<1>3. Cardinality(T) = Cardinality(S)
  BY <1>1, <1>2, FS_Surjection
<1>4. T \subseteq N
  BY RanksGrow
<1>5. IsFiniteSet(N) /\ Cardinality(N) = Cardinality(S)
  BY <1>0, FS_Interval
<1>6. T = N
  <2> HIDE DEF T, N
  <2> QED BY <1>3, <1>4, <1>5, FS_Subset
<1> QED BY <1>6

\* The list that Ascending() makes of a finite set has its members, each once, in order.
LEMMA AscendingSorts ==
  ASSUME NEW S \in SUBSET Nat, IsFiniteSet(S)
  PROVE /\ Ascending(S) \in Seq(S) /\ Len(Ascending(S)) = Cardinality(S) /\ Cardinality(S) \in Nat
        /\ \A m, n \in 1..Len(Ascending(S)) : m < n => Ascending(S)[m] < Ascending(S)[n]
        /\ \A k \in S : \E n \in 1..Len(Ascending(S)) : Ascending(S)[n] = k
<1> DEFINE q == Ascending(S)
<1>0. Cardinality(S) \in Nat
  BY FS_CardinalityType
<1>1. ASSUME NEW n \in 1..Cardinality(S) PROVE q[n] \in S /\ Rank(S, q[n]) = n
  <2>1. q[n] = CHOOSE k \in S : Rank(S, k) = n
    BY DEF Ascending, Rank
  <2>2. \E k \in S : Rank(S, k) = n
    BY EveryRankIsTaken
  <2> HIDE DEF q
  <2> QED BY <2>1, <2>2
<1>2. q \in Seq(S) /\ Len(q) = Cardinality(S)
  <2>1. q = [n \in 1..Cardinality(S) |-> q[n]]
    BY DEF Ascending
  <2>2. q \in [1..Cardinality(S) -> S]
    <3> HIDE DEF q
    <3> QED BY <1>1, <2>1
  <2> HIDE DEF q
  <2> QED BY <2>2, <1>0
<1>3. ASSUME NEW m \in 1..Len(q), NEW n \in 1..Len(q), m < n PROVE q[m] < q[n]
  <2>1. q[m] \in S /\ q[n] \in S /\ Rank(S, q[m]) = m /\ Rank(S, q[n]) = n
    BY <1>1, <1>2
  <2>2. q[n] < q[m] => n < m
    BY <2>1, RanksGrow
  <2>3. q[n] # q[m]
    BY <2>1, <1>3
  <2>4. q[m] \in Nat /\ q[n] \in Nat /\ m \in Nat /\ n \in Nat
    <3>1. m \in 1..Cardinality(S) /\ n \in 1..Cardinality(S)
      BY <1>2
    <3>2. m \in Nat /\ n \in Nat
      BY <1>0, <3>1
    <3>3. S \subseteq Nat
      OBVIOUS
    <3> HIDE DEF q
    <3>4. q[m] \in Nat /\ q[n] \in Nat
      BY <2>1, <3>3, Zenon
    <3> QED BY <3>2, <3>4
  <2> HIDE DEF q
  <2> QED BY <2>2, <2>3, <2>4, <1>3
<1>4. ASSUME NEW k \in S PROVE \E n \in 1..Len(q) : q[n] = k
  <2> DEFINE n == Rank(S, k)
  <2>1. n \in 1..Cardinality(S)
    BY RanksGrow
  <2>2. q[n] \in S /\ Rank(S, q[n]) = n
    BY <2>1, <1>1
  <2>3. ~(q[n] < k) /\ ~(k < q[n])
    <3>1. q[n] < k => Rank(S, q[n]) < Rank(S, k)
      BY <2>2, RanksGrow
    <3>2. k < q[n] => Rank(S, k) < Rank(S, q[n])
      BY <2>2, RanksGrow
    <3>3. n \in Nat
      BY <2>1, <1>0
    <3> HIDE DEF q
    <3> QED BY <3>1, <3>2, <3>3, <2>2
  <2>4. q[n] = k
    <3>1. q[n] \in Nat /\ k \in Nat
      BY <2>2
    <3> HIDE DEF q, n
    <3> QED BY <2>3, <3>1
  <2> QED BY <2>1, <2>4, <1>2
<1> QED BY <1>0, <1>2, <1>3, <1>4

\* orderMutexKeys(): the flattened keys of the call, each once, in ascending order; not more of
\* them than keys were named.
LEMMA KeysAreOrdered ==
  ASSUME MutexAssumption, NEW c \in Calls
  PROVE /\ Len(orderMutexKeys(c)) \in Nat /\ Len(orderMutexKeys(c)) <= Len(Request[c]) /\ Len(Request[c]) \in Nat
        /\ \A i \in 1..Len(orderMutexKeys(c)) : orderMutexKeys(c)[i] \in FlatKeys /\ orderMutexKeys(c)[i] \in Nat
        /\ \A i, j \in 1..Len(orderMutexKeys(c)) : i < j => orderMutexKeys(c)[i] < orderMutexKeys(c)[j]
        /\ \A i \in DOMAIN Request[c] : \E n \in 1..Len(orderMutexKeys(c)) : orderMutexKeys(c)[n] = Flat[Request[c][i]]
<1> DEFINE W == Wanted(c)
           D == DOMAIN Request[c]
           f == [i \in D |-> FlatRequest(c)[i]]
<1>1. /\ Request[c] \in Seq(Keys) /\ D = 1..Len(Request[c]) /\ Len(Request[c]) \in Nat
      /\ \A i \in D : Request[c][i] \in Keys /\ FlatRequest(c)[i] = Flat[Request[c][i]]
  BY DEF MutexAssumption, FlatRequest
<1>2. \A i \in D : FlatRequest(c)[i] \in FlatKeys /\ FlatRequest(c)[i] \in Nat
  BY <1>1 DEF MutexAssumption, FlatKeys
<1>3. W \subseteq Nat /\ W \subseteq FlatKeys
  BY <1>2 DEF Wanted
<1>4. IsFiniteSet(D) /\ Cardinality(D) = Len(Request[c])
  BY <1>1, FS_Interval
<1>5. f \in Surjection(D, W)
  BY DEF Surjection, Wanted
<1>6. IsFiniteSet(W) /\ Cardinality(W) <= Len(Request[c])
  BY <1>4, <1>5, FS_Surjection
<1>7. orderMutexKeys(c) = Ascending(W)
  BY DEF orderMutexKeys, Wanted
<1>8. /\ Ascending(W) \in Seq(W) /\ Len(Ascending(W)) = Cardinality(W) /\ Cardinality(W) \in Nat
      /\ \A m, n \in 1..Len(Ascending(W)) : m < n => Ascending(W)[m] < Ascending(W)[n]
      /\ \A k \in W : \E n \in 1..Len(Ascending(W)) : Ascending(W)[n] = k
  <2> HIDE DEF W
  <2> QED BY <1>3, <1>6, AscendingSorts
<1>9. \A i \in 1..Len(Ascending(W)) : Ascending(W)[i] \in W
  <2> HIDE DEF W
  <2> QED BY <1>8
<1>10. \A i \in D : Flat[Request[c][i]] \in W
  BY <1>1 DEF Wanted
<1> HIDE DEF W, D, f
<1>11. \A i \in 1..Len(orderMutexKeys(c)) : orderMutexKeys(c)[i] \in FlatKeys /\ orderMutexKeys(c)[i] \in Nat
  BY <1>3, <1>7, <1>9
<1>12. \A i \in DOMAIN Request[c] : \E n \in 1..Len(orderMutexKeys(c)) : orderMutexKeys(c)[n] = Flat[Request[c][i]]
  BY <1>7, <1>8, <1>10 DEF D
<1> QED BY <1>1, <1>6, <1>7, <1>8, <1>11, <1>12

-----------------------------------------------------------------------------
(* The invariant.                                                              *)

\* Before any call begins nothing is held.
LEMMA GroupStarts == ASSUME MutexAssumption, Init PROVE GroupInv
<1>1. TypeOK
  <2>1. \A c \in Calls : Len(Request[c]) \in Nat
    BY KeysAreOrdered
  <2> QED BY <2>1 DEF Init, TypeOK, Phases
<1>2. IndexSound
  <2>1. \A c \in Calls : Len(orderMutexKeys(c)) \in Nat
    BY KeysAreOrdered
  <2> QED BY <2>1 DEF Init, IndexSound
<1>3. HeldExactly
  BY DEF Init, HeldExactly, MutexAssumption
<1> QED BY <1>1, <1>2, <1>3 DEF GroupInv

\* A step of one call that leaves the locks and what it holds alone.
LEMMA NothingMoves ==
  ASSUME MutexAssumption, GroupInv, NEW c \in Calls, UNCHANGED <<holder, index>>,
         NEW p \in Phases, phase' = [phase EXCEPT ![c] = p],
         p \in {"idle", "settled"} => index[c] = 0,
         p = "acquire" => index[c] < Len(orderMutexKeys(c)),
         p = "inside" => index[c] = Len(orderMutexKeys(c)),
         aborted' \in [Calls -> BOOLEAN], didWait' \in [Calls -> BOOLEAN], failing' \in [Calls -> BOOLEAN]
  PROVE GroupInv'
<1>1. phase' \in [Calls -> Phases] /\ \A d \in Calls : phase'[d] = IF d = c THEN p ELSE phase[d]
  BY DEF GroupInv, TypeOK
<1>2. TypeOK'
  BY <1>1 DEF GroupInv, TypeOK
<1>3. IndexSound'
  <2> SUFFICES ASSUME NEW d \in Calls
               PROVE /\ index[d] \in 0..Len(orderMutexKeys(d))
                     /\ phase'[d] \in {"idle", "settled"} => index[d] = 0
                     /\ phase'[d] = "acquire" => index[d] < Len(orderMutexKeys(d))
                     /\ phase'[d] = "inside" => index[d] = Len(orderMutexKeys(d))
    BY DEF IndexSound
  <2>1. CASE d = c
    BY <1>1, <2>1 DEF GroupInv, IndexSound
  <2>2. CASE d # c
    BY <1>1, <2>2 DEF GroupInv, IndexSound
  <2> QED BY <2>1, <2>2
<1>4. HeldExactly'
  BY DEF GroupInv, HeldExactly, orderMutexKeys, FlatRequest
<1> QED BY <1>2, <1>3, <1>4 DEF GroupInv

\* withMutexes() begins.
LEMMA BeginSound ==
  ASSUME MutexAssumption, GroupInv, NEW c \in Calls, withMutexes(c) PROVE GroupInv'
<1>1. /\ index[c] = 0 /\ Len(orderMutexKeys(c)) \in Nat /\ failing' \in [Calls -> BOOLEAN]
      /\ UNCHANGED <<holder, index, aborted, didWait>>
  BY KeysAreOrdered DEF withMutexes, GroupInv, IndexSound, TypeOK
<1>2. PICK p \in {"unwind", "inside", "acquire"} :
        /\ phase' = [phase EXCEPT ![c] = p]
        /\ p = "inside" => index[c] = Len(orderMutexKeys(c))
        /\ p = "acquire" => index[c] # Len(orderMutexKeys(c))
  <2>1. phase' = [phase EXCEPT ![c] = IF aborted[c] THEN "unwind"
                                      ELSE IF index[c] = Len(orderMutexKeys(c)) THEN "inside" ELSE "acquire"]
    BY <1>1 DEF withMutexes, NextLevel
  <2> QED BY <2>1
<1>3. p = "acquire" => index[c] < Len(orderMutexKeys(c))
  BY <1>1, <1>2
<1>4. aborted' \in [Calls -> BOOLEAN] /\ didWait' \in [Calls -> BOOLEAN]
  BY <1>1 DEF GroupInv, TypeOK
<1> QED BY <1>1, <1>2, <1>3, <1>4, NothingMoves DEF Phases

\* Every step of a call that moves neither its index nor a lock: it waits, gives up, is aborted
\* or its callback settles.
LEMMA PauseSound ==
  ASSUME MutexAssumption, GroupInv, NEW c \in Calls,
         \/ Wait(c) \/ DeadlinePassed(c) \/ Abort(c)
         \/ \E ok \in BOOLEAN : fnSettles(c, ok)
  PROVE GroupInv'
<1>0. /\ phase \in [Calls -> Phases] /\ aborted \in [Calls -> BOOLEAN] /\ didWait \in [Calls -> BOOLEAN]
      /\ failing \in [Calls -> BOOLEAN] /\ phase = [phase EXCEPT ![c] = phase[c]]
  BY DEF GroupInv, TypeOK
<1>1. UNCHANGED <<holder, index>>
  BY DEF Wait, DeadlinePassed, Abort, fnSettles
<1>2. aborted' \in [Calls -> BOOLEAN] /\ didWait' \in [Calls -> BOOLEAN]
  BY <1>0 DEF Wait, DeadlinePassed, Abort, fnSettles
<1>3. failing' \in [Calls -> BOOLEAN]
  BY <1>0 DEF Wait, DeadlinePassed, Abort, fnSettles, Reject
<1>4. CASE phase' = [phase EXCEPT ![c] = "unwind"]
  BY <1>1, <1>2, <1>3, <1>4, NothingMoves DEF Phases
<1>5. CASE phase' = phase
  <2>1. /\ phase[c] \in {"idle", "settled"} => index[c] = 0
        /\ phase[c] = "acquire" => index[c] < Len(orderMutexKeys(c))
        /\ phase[c] = "inside" => index[c] = Len(orderMutexKeys(c))
        /\ phase[c] \in Phases
    BY <1>0 DEF GroupInv, IndexSound
  <2> QED BY <1>0, <1>1, <1>2, <1>3, <1>5, <2>1, NothingMoves
<1> QED BY <1>4, <1>5 DEF Wait, DeadlinePassed, Abort, fnSettles, Reject
\* localMutexExec() takes the next key: nobody held it, so the map stays exact.
LEMMA TakeSound ==
  ASSUME MutexAssumption, GroupInv, NEW c \in Calls, Take(c) PROVE GroupInv'
<1> DEFINE k == orderMutexKeys(c)[index[c] + 1]
           len == Len(orderMutexKeys(c))
<1>0. /\ TypeOK /\ IndexSound /\ HeldExactly /\ phase[c] = "acquire" /\ holder[k] = Free
      /\ holder' = [holder EXCEPT ![k] = c] /\ index' = [index EXCEPT ![c] = @ + 1]
      /\ UNCHANGED <<aborted, didWait, failing>>
  BY DEF GroupInv, Take, NextKey
<1>1. /\ len \in Nat /\ len <= Len(Request[c]) /\ Len(Request[c]) \in Nat
      /\ index[c] \in Nat /\ index[c] < len
  BY <1>0, KeysAreOrdered DEF IndexSound, TypeOK
<1>2. index[c] + 1 \in 1..len /\ k \in FlatKeys
  BY <1>1, KeysAreOrdered
<1>3. index' \in [Calls -> Nat] /\ index'[c] = index[c] + 1 /\ \A d \in Calls \ {c} : index'[d] = index[d]
  BY <1>0 DEF TypeOK
<1>4. PICK p \in {"unwind", "inside", "acquire"} :
        /\ phase' = [phase EXCEPT ![c] = p]
        /\ p = "inside" => index'[c] = len
        /\ p = "acquire" => index'[c] # len
  <2>1. phase' = [phase EXCEPT ![c] = IF aborted[c] THEN "unwind"
                                      ELSE IF index'[c] = len THEN "inside" ELSE "acquire"]
    BY DEF Take, NextLevel
  <2> HIDE DEF len
  <2> QED BY <2>1
<1>5. phase' \in [Calls -> Phases] /\ phase'[c] = p /\ \A d \in Calls \ {c} : phase'[d] = phase[d]
  BY <1>0, <1>4 DEF TypeOK, Phases
<1>6. holder' \in [FlatKeys -> Calls \cup {Free}] /\ holder'[k] = c /\ \A l \in FlatKeys \ {k} : holder'[l] = holder[l]
  <2> HIDE DEF k
  <2> QED BY <1>0, <1>2 DEF TypeOK
<1>7. TypeOK'
  <2>1. \A d \in Calls : index'[d] <= Len(Request[d])
    <3>1. index'[c] <= Len(Request[c])
      BY <1>1, <1>3
    <3> QED BY <1>0, <1>3, <3>1 DEF TypeOK
  <2> QED BY <1>0, <1>3, <1>5, <1>6, <2>1 DEF TypeOK
<1>8. IndexSound'
  <2> SUFFICES ASSUME NEW d \in Calls
               PROVE /\ index'[d] \in 0..Len(orderMutexKeys(d))
                     /\ phase'[d] \in {"idle", "settled"} => index'[d] = 0
                     /\ phase'[d] = "acquire" => index'[d] < Len(orderMutexKeys(d))
                     /\ phase'[d] = "inside" => index'[d] = Len(orderMutexKeys(d))
    BY DEF IndexSound
  <2>1. CASE d = c
    BY <1>1, <1>3, <1>4, <1>5, <2>1
  <2>2. CASE d # c
    BY <1>0, <1>3, <1>5, <2>2 DEF IndexSound
  <2> QED BY <2>1, <2>2
<1>9. HeldExactly'
  <2> SUFFICES ASSUME NEW l \in FlatKeys, NEW d \in Calls
               PROVE holder'[l] = d <=> \E i \in 1..index'[d] : orderMutexKeys(d)[i] = l
    BY DEF HeldExactly
  <2>0. holder[l] = d <=> \E i \in 1..index[d] : orderMutexKeys(d)[i] = l
    BY <1>0 DEF HeldExactly
  <2>1. CASE d # c
    <3>1. index'[d] = index[d] /\ (holder'[l] = d <=> holder[l] = d)
      BY <1>0, <1>3, <1>6, <2>1 DEF MutexAssumption
    <3> QED BY <3>1, <2>0
  <2>2. CASE d = c
    <3>1. \A i : i \in 1..index'[c] <=> (i \in 1..index[c] \/ i = index[c] + 1)
      BY <1>1, <1>3
    <3>2. CASE l = k
      BY <1>6, <2>2, <3>1, <3>2
    <3>3. CASE l # k
      <4>1. holder'[l] = holder[l]
        BY <1>6, <3>3
      <4> QED BY <4>1, <2>0, <2>2, <3>1, <3>3
    <3> QED BY <3>2, <3>3
  <2> QED BY <2>1, <2>2
<1> QED BY <1>7, <1>8, <1>9 DEF GroupInv

\* A finally block gives the innermost key back; the keys are distinct, so it holds the others
\* still.
LEMMA UnwindSound ==
  ASSUME MutexAssumption, GroupInv, NEW c \in Calls, Unwind(c) PROVE GroupInv'
<1>0. TypeOK /\ IndexSound /\ HeldExactly /\ phase[c] = "unwind" /\ UNCHANGED <<aborted, didWait, failing>>
  BY DEF GroupInv, Unwind
<1>1. CASE index[c] = 0
  <2>1. UNCHANGED <<holder, index>> /\ phase' = [phase EXCEPT ![c] = "settled"]
    BY <1>1 DEF Unwind
  <2>2. aborted' \in [Calls -> BOOLEAN] /\ didWait' \in [Calls -> BOOLEAN] /\ failing' \in [Calls -> BOOLEAN]
    BY <1>0 DEF TypeOK
  <2> QED BY <1>1, <2>1, <2>2, NothingMoves DEF Phases
<1>2. CASE index[c] # 0
  <2> DEFINE k == orderMutexKeys(c)[index[c]]
             len == Len(orderMutexKeys(c))
  <2>1. /\ holder' = [holder EXCEPT ![k] = IF @ = c THEN Free ELSE @]
        /\ index' = [index EXCEPT ![c] = @ - 1] /\ UNCHANGED phase
    BY <1>2 DEF Unwind, Innermost
  <2>2. len \in Nat /\ index[c] \in 1..len /\ index[c] \in Nat
    BY <1>0, <1>2, KeysAreOrdered DEF IndexSound, TypeOK
  <2>3. k \in FlatKeys
    BY <2>2, KeysAreOrdered
  <2>4. holder[k] = c
    <3>1. index[c] \in 1..index[c]
      BY <2>2
    <3> QED BY <1>0, <2>3, <3>1 DEF HeldExactly
  <2>5. index' \in [Calls -> Nat] /\ index'[c] = index[c] - 1 /\ \A d \in Calls \ {c} : index'[d] = index[d]
    BY <1>0, <2>1, <2>2 DEF TypeOK
  <2>6. holder' \in [FlatKeys -> Calls \cup {Free}] /\ holder'[k] = Free /\ \A l \in FlatKeys \ {k} : holder'[l] = holder[l]
    <3> HIDE DEF k
    <3> QED BY <1>0, <2>1, <2>3, <2>4 DEF TypeOK
  <2>7. TypeOK'
    <3>1. index'[c] <= Len(Request[c])
      BY <1>0, <2>2, <2>5, KeysAreOrdered DEF TypeOK
    <3>2. \A d \in Calls : index'[d] <= Len(Request[d])
      BY <1>0, <2>5, <3>1 DEF TypeOK
    <3> QED BY <1>0, <2>1, <2>5, <2>6, <3>2 DEF TypeOK
  <2>8. IndexSound'
    <3> SUFFICES ASSUME NEW d \in Calls
                 PROVE /\ index'[d] \in 0..Len(orderMutexKeys(d))
                       /\ phase[d] \in {"idle", "settled"} => index'[d] = 0
                       /\ phase[d] = "acquire" => index'[d] < Len(orderMutexKeys(d))
                       /\ phase[d] = "inside" => index'[d] = Len(orderMutexKeys(d))
      BY <2>1 DEF IndexSound
    <3>1. CASE d = c
      BY <1>0, <2>2, <2>5, <3>1
    <3>2. CASE d # c
      BY <1>0, <2>5, <3>2 DEF IndexSound
    <3> QED BY <3>1, <3>2
  <2>9. HeldExactly'
    <3> SUFFICES ASSUME NEW l \in FlatKeys, NEW d \in Calls
                 PROVE holder'[l] = d <=> \E i \in 1..index'[d] : orderMutexKeys(d)[i] = l
      BY DEF HeldExactly
    <3>0. holder[l] = d <=> \E i \in 1..index[d] : orderMutexKeys(d)[i] = l
      BY <1>0 DEF HeldExactly
    <3>1. CASE d # c
      <4>1. index'[d] = index[d] /\ (holder'[l] = d <=> holder[l] = d)
        BY <2>4, <2>5, <2>6, <3>1 DEF MutexAssumption
      <4> QED BY <4>1, <3>0
    <3>2. CASE d = c
      <4>1. \A i : i \in 1..index[c] <=> (i \in 1..index'[c] \/ i = index[c])
        BY <2>2, <2>5
      <4>2. CASE l = k
        <5>1. ASSUME NEW i \in 1..index'[c] PROVE orderMutexKeys(c)[i] # k
          <6>1. i \in 1..len /\ i < index[c]
            BY <2>2, <2>5
          <6>2. orderMutexKeys(c)[i] < k /\ k \in Nat /\ orderMutexKeys(c)[i] \in Nat
            BY <6>1, <2>2, KeysAreOrdered
          <6> HIDE DEF k
          <6> QED BY <6>2
        <5> QED BY <2>6, <3>2, <4>2, <5>1 DEF MutexAssumption
      <4>3. CASE l # k
        <5>1. holder'[l] = holder[l]
          BY <2>6, <4>3
        <5> QED BY <5>1, <3>0, <3>2, <4>1, <4>3
      <4> QED BY <4>2, <4>3
    <3> QED BY <3>1, <3>2
  <2> QED BY <2>7, <2>8, <2>9 DEF GroupInv
<1> QED BY <1>1, <1>2

\* The invariant holds throughout.
THEOREM GroupInvariance == ASSUME MutexAssumption PROVE Spec => []GroupInv
<1>1. Init => GroupInv
  BY GroupStarts
<1>2. GroupInv /\ [Next]_vars => GroupInv'
  <2> SUFFICES ASSUME GroupInv, [Next]_vars PROVE GroupInv'
    OBVIOUS
  <2>1. ASSUME NEW c \in Calls, withMutexes(c) PROVE GroupInv'
    BY <2>1, BeginSound
  <2>2. ASSUME NEW c \in Calls, Take(c) PROVE GroupInv'
    BY <2>2, TakeSound
  <2>3. ASSUME NEW c \in Calls, Wait(c) \/ DeadlinePassed(c) \/ Abort(c) \/ \E ok \in BOOLEAN : fnSettles(c, ok)
        PROVE GroupInv'
    BY <2>3, PauseSound
  <2>4. ASSUME NEW c \in Calls, Unwind(c) PROVE GroupInv'
    BY <2>4, UnwindSound
  <2>5. CASE UNCHANGED vars
    <3>1. TypeOK' /\ HeldExactly'
      BY <2>5 DEF vars, GroupInv, TypeOK, HeldExactly
    <3>2. IndexSound'
      BY <2>5 DEF vars, GroupInv, IndexSound
    <3> QED BY <3>1, <3>2 DEF GroupInv
  <2> QED BY <2>1, <2>2, <2>3, <2>4, <2>5 DEF Next
<1> QED BY <1>1, <1>2, PTL DEF Spec

\* The types of withMutexes() and the lock map hold.
THEOREM TypeCorrect == ASSUME MutexAssumption PROVE Spec => []TypeOK
<1>1. GroupInv => TypeOK
  BY DEF GroupInv
<1> QED BY <1>1, GroupInvariance, PTL

\* localMutexes names exactly the calls that have taken and not yet released a key: no failure,
\* abort or deadline strands a lock, for any number of calls and keys.
THEOREM LocksAreExact == ASSUME MutexAssumption PROVE Spec => []HeldExactly
<1>1. GroupInv => HeldExactly
  BY DEF GroupInv
<1> QED BY <1>1, GroupInvariance, PTL

-----------------------------------------------------------------------------
\* Two groups that share a flattened key never run at once, whatever keys they name, in whatever
\* order and spelling (withMutexes()).
THEOREM GroupsNeverOverlap == ASSUME MutexAssumption PROVE Spec => []GroupsExclude
<1>1. GroupInv => GroupsExclude
  <2> SUFFICES ASSUME GroupInv, NEW c \in Calls, NEW d \in Calls, phase[c] = "inside", phase[d] = "inside", c # d,
                      NEW i \in DOMAIN Request[c], NEW j \in DOMAIN Request[d], Flat[Request[c][i]] = Flat[Request[d][j]]
               PROVE FALSE
    BY DEF GroupsExclude
  <2> DEFINE k == Flat[Request[c][i]]
  <2>1. ASSUME NEW e \in Calls, phase[e] = "inside", NEW n \in DOMAIN Request[e], Flat[Request[e][n]] = k
        PROVE k \in FlatKeys /\ holder[k] = e
    <3>1. PICK m \in 1..Len(orderMutexKeys(e)) : orderMutexKeys(e)[m] = Flat[Request[e][n]]
      BY KeysAreOrdered
    <3>2. index[e] = Len(orderMutexKeys(e))
      BY <2>1 DEF GroupInv, IndexSound
    <3>3. orderMutexKeys(e)[m] \in FlatKeys
      BY KeysAreOrdered
    <3> HIDE DEF k
    <3> QED BY <2>1, <3>1, <3>2, <3>3 DEF GroupInv, HeldExactly
  <2>2. holder[k] = c /\ holder[k] = d
    BY <2>1
  <2> QED BY <2>2
<1> QED BY <1>1, GroupInvariance, PTL

\* Calls never wait in a circle: of the calls that wait, one wants the largest key; whoever holds
\* that key wants none that is larger, so it is not waiting.
THEOREM NobodyWaitsInACircle == ASSUME MutexAssumption PROVE Spec => []NoCircularWait
<1>1. GroupInv => NoCircularWait
  <2> SUFFICES ASSUME GroupInv, NEW a \in Calls, phase[a] = "acquire", \A c \in Calls : ~Moves(c)
               PROVE FALSE
    BY DEF NoCircularWait
  <2> DEFINE W == {c \in Calls : phase[c] = "acquire"}
             K == {NextKey(c) : c \in W}
             f == [c \in W |-> NextKey(c)]
             n == Cardinality(K)
  <2>1. ASSUME NEW c \in W
        PROVE /\ index[c] + 1 \in 1..Len(orderMutexKeys(c)) /\ NextKey(c) \in FlatKeys /\ NextKey(c) \in Nat
    <3>1. index[c] \in Nat /\ index[c] < Len(orderMutexKeys(c)) /\ Len(orderMutexKeys(c)) \in Nat
      BY KeysAreOrdered DEF GroupInv, TypeOK, IndexSound
    <3>2. index[c] + 1 \in 1..Len(orderMutexKeys(c))
      BY <3>1
    <3> QED BY <3>2, KeysAreOrdered DEF NextKey
  <2>2. IsFiniteSet(W)
    BY FS_Subset DEF MutexAssumption
  <2>3. f \in Surjection(W, K)
    BY DEF Surjection
  <2>4. IsFiniteSet(K)
    BY <2>2, <2>3, FS_Surjection
  <2>5. K \subseteq Nat /\ K # {}
    BY <2>1
  <2>6. n \in Nat /\ n # 0
    <3> HIDE DEF K
    <3> QED BY <2>4, <2>5, FS_CardinalityType, FS_EmptySet
  <2>7. PICK m \in K : Rank(K, m) = n
    <3>1. n \in 1..Cardinality(K)
      BY <2>6
    <3> HIDE DEF K, n
    <3> QED BY <2>4, <2>5, <3>1, EveryRankIsTaken
  <2>8. \A l \in K : ~(m < l)
    <3>1. ASSUME NEW l \in K, m < l PROVE FALSE
      <4>1. Rank(K, m) < Rank(K, l) /\ Rank(K, l) \in 1..Cardinality(K)
        <5> HIDE DEF K
        <5> QED BY <2>4, <2>5, <3>1, RanksGrow
      <4>2. Rank(K, l) <= n /\ Rank(K, l) \in Int
        BY <4>1, <2>6
      <4> HIDE DEF K, n
      <4> QED BY <4>1, <4>2, <2>6, <2>7
    <3> QED BY <3>1
  <2>9. PICK c \in W : NextKey(c) = m
    OBVIOUS
  <2>10. holder[m] # Free /\ m \in FlatKeys
    BY <2>1, <2>9 DEF Moves
  <2>11. PICK d \in Calls : holder[m] = d
    <3> HIDE DEF K, W
    <3> QED BY <2>10 DEF GroupInv, TypeOK
  <2>12. PICK i \in 1..index[d] : orderMutexKeys(d)[i] = m
    <3> HIDE DEF K, W
    <3> QED BY <2>10, <2>11 DEF GroupInv, HeldExactly
  <2>13. d \in W
    <3>1. index[d] # 0
      BY <2>12 DEF GroupInv, TypeOK
    <3>2. phase[d] \in Phases /\ phase[d] \notin {"idle", "settled"}
      BY <3>1 DEF GroupInv, TypeOK, IndexSound
    <3>3. phase[d] \notin {"inside", "unwind"}
      BY DEF Moves
    <3> QED BY <3>2, <3>3 DEF Phases
  <2>14. NextKey(d) \in K /\ m < NextKey(d)
    <3>1. index[d] + 1 \in 1..Len(orderMutexKeys(d)) /\ index[d] \in Nat /\ Len(orderMutexKeys(d)) \in Nat
      BY <2>1, <2>13, KeysAreOrdered DEF GroupInv, TypeOK
    <3>2. i \in 1..Len(orderMutexKeys(d)) /\ i < index[d] + 1
      BY <3>1
    <3>3. orderMutexKeys(d)[i] < orderMutexKeys(d)[index[d] + 1]
      BY <3>1, <3>2, KeysAreOrdered
    <3> QED BY <2>12, <2>13, <3>3 DEF NextKey
  <2> QED BY <2>8, <2>14
<1> QED BY <1>1, GroupInvariance, PTL
=============================================================================
