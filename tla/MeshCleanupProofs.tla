------------------------- MODULE MeshCleanupProofs -------------------------
(***************************************************************************)
(* Cleanup obligations are neither lost nor copied, and a node retains a   *)
(* bounded number of drains, for any number of nodes, expiring ids, leader *)
(* changes, crashes and lost calls.                                        *)
(***************************************************************************)
EXTENDS MeshCleanup, FiniteSetTheorems, WellFoundedInduction, TLAPS

\* A set of natural numbers that is not empty has a least element.
LEMMA LeastNumber ==
  ASSUME NEW T \in SUBSET Nat, T # {}
  PROVE  \E x \in T : \A y \in T : x <= y
  <1> DEFINE R == OpToRel(<, Nat)
  <1>1. IsWellFoundedOn(R, Nat)
    BY NatLessThanWellFounded
  <1>2. \A x, y \in Nat : y < x => <<y, x>> \in R
    BY DEF OpToRel
  <1> HIDE DEF R
  <1>3. PICK x \in T : \A y \in T : ~(<<y, x>> \in R)
    BY <1>1, WFMin
  <1>4. ASSUME NEW y \in T PROVE x <= y
    <2>1. x \in Nat /\ y \in Nat /\ ~(y < x)
      BY <1>2, <1>3
    <2> QED BY <2>1
  <1> QED BY <1>4

-----------------------------------------------------------------------------
(***************************************************************************)
(* Lists.                                                                  *)
(***************************************************************************)
Distinct(s) == \A j, k \in 1..Len(s) : s[j] = s[k] => j = k

\* The elements of a list, by position.
LEMMA ElementsAt ==
  ASSUME NEW s
  PROVE  \A x : x \in Elements(s) <=> \E k \in 1..Len(s) : s[k] = x
  BY DEF Elements

\* A concatenation has the elements of both lists, and no duplicate when
\* neither has one and they share none.
LEMMA ConcatLists ==
  ASSUME NEW S, NEW s \in Seq(S), NEW t \in Seq(S)
  PROVE  /\ s \o t \in Seq(S)
         /\ \A x : x \in Elements(s \o t) <=> x \in Elements(s) \/ x \in Elements(t)
         /\ Distinct(s) /\ Distinct(t) /\ (\A x : ~(x \in Elements(s) /\ x \in Elements(t)))
              => Distinct(s \o t)
  <1>1. /\ s \o t \in Seq(S) /\ Len(s \o t) = Len(s) + Len(t)
        /\ Len(s) \in Nat /\ Len(t) \in Nat
    OBVIOUS
  <1>2. \A k \in 1..(Len(s) + Len(t)) :
          (s \o t)[k] = IF k <= Len(s) THEN s[k] ELSE t[k - Len(s)]
    OBVIOUS
  <1>3. ASSUME NEW x, x \in Elements(s) \/ x \in Elements(t) PROVE x \in Elements(s \o t)
    <2>1. CASE x \in Elements(s)
      <3>1. PICK k \in 1..Len(s) : s[k] = x
        BY <2>1, ElementsAt
      <3>2. k \in 1..(Len(s) + Len(t)) /\ (s \o t)[k] = x
        BY <1>1, <1>2, <3>1
      <3> QED BY <1>1, <3>2, ElementsAt
    <2>2. CASE x \in Elements(t)
      <3>1. PICK k \in 1..Len(t) : t[k] = x
        BY <2>2, ElementsAt
      <3>2. (k + Len(s)) \in 1..(Len(s) + Len(t)) /\ (s \o t)[k + Len(s)] = x
        BY <1>1, <1>2, <3>1
      <3> QED BY <1>1, <3>2, ElementsAt
    <2> QED BY <1>3, <2>1, <2>2
  <1>4. ASSUME NEW x, x \in Elements(s \o t) PROVE x \in Elements(s) \/ x \in Elements(t)
    <2>1. PICK k \in 1..(Len(s) + Len(t)) : (s \o t)[k] = x
      BY <1>1, <1>4, ElementsAt
    <2>2. CASE k <= Len(s)
      <3>1. k \in 1..Len(s) /\ s[k] = x
        BY <1>1, <1>2, <2>1, <2>2
      <3> QED BY <3>1, ElementsAt
    <2>3. CASE k > Len(s)
      <3>1. (k - Len(s)) \in 1..Len(t) /\ t[k - Len(s)] = x
        BY <1>1, <1>2, <2>1, <2>3
      <3> QED BY <3>1, ElementsAt
    <2> QED BY <1>1, <2>2, <2>3
  <1>5. ASSUME Distinct(s), Distinct(t), \A x : ~(x \in Elements(s) /\ x \in Elements(t)),
               NEW j \in 1..(Len(s) + Len(t)), NEW k \in 1..(Len(s) + Len(t)),
               (s \o t)[j] = (s \o t)[k]
        PROVE  j = k
    <2>1. CASE j <= Len(s) /\ k <= Len(s)
      BY <1>1, <1>2, <1>5, <2>1 DEF Distinct
    <2>2. CASE j > Len(s) /\ k > Len(s)
      <3>1. /\ (j - Len(s)) \in 1..Len(t) /\ (k - Len(s)) \in 1..Len(t)
            /\ t[j - Len(s)] = t[k - Len(s)]
        BY <1>1, <1>2, <1>5, <2>2
      <3> QED BY <1>1, <1>5, <3>1 DEF Distinct
    <2>3. CASE j <= Len(s) /\ k > Len(s)
      <3>1. j \in 1..Len(s) /\ (k - Len(s)) \in 1..Len(t) /\ s[j] = t[k - Len(s)]
        BY <1>1, <1>2, <1>5, <2>3
      <3>2. s[j] \in Elements(s) /\ s[j] \in Elements(t)
        BY <3>1, ElementsAt
      <3> QED BY <1>5, <3>2
    <2>4. CASE j > Len(s) /\ k <= Len(s)
      <3>1. k \in 1..Len(s) /\ (j - Len(s)) \in 1..Len(t) /\ s[k] = t[j - Len(s)]
        BY <1>1, <1>2, <1>5, <2>4
      <3>2. s[k] \in Elements(s) /\ s[k] \in Elements(t)
        BY <3>1, ElementsAt
      <3> QED BY <1>5, <3>2
    <2> QED BY <1>1, <2>1, <2>2, <2>3, <2>4
  <1>6. Distinct(s) /\ Distinct(t) /\ (\A x : ~(x \in Elements(s) /\ x \in Elements(t)))
          => Distinct(s \o t)
    BY <1>1, <1>5 DEF Distinct
  <1> QED BY <1>1, <1>3, <1>4, <1>6

\* A list cut in two: both parts together have its elements, and they share
\* none when it has no duplicate.
LEMMA CutList ==
  ASSUME NEW S, NEW s \in Seq(S), NEW k \in 0..Len(s)
  PROVE  /\ SubSeq(s, 1, k) \in Seq(S) /\ SubSeq(s, k + 1, Len(s)) \in Seq(S)
         /\ Len(SubSeq(s, 1, k)) = k /\ Len(SubSeq(s, k + 1, Len(s))) = Len(s) - k
         /\ \A x : x \in Elements(s) <=> \/ x \in Elements(SubSeq(s, 1, k))
                                         \/ x \in Elements(SubSeq(s, k + 1, Len(s)))
         /\ Distinct(s) =>
              /\ Distinct(SubSeq(s, 1, k)) /\ Distinct(SubSeq(s, k + 1, Len(s)))
              /\ \A x : ~(/\ x \in Elements(SubSeq(s, 1, k))
                          /\ x \in Elements(SubSeq(s, k + 1, Len(s))))
  <1> DEFINE a == SubSeq(s, 1, k)
             b == SubSeq(s, k + 1, Len(s))
  <1>1. /\ a \in Seq(S) /\ b \in Seq(S) /\ Len(a) = k /\ Len(b) = Len(s) - k
        /\ Len(s) \in Nat /\ k \in Nat /\ k <= Len(s)
    OBVIOUS
  <1>2. /\ \A j \in 1..k : a[j] = s[j]
        /\ \A j \in 1..(Len(s) - k) : b[j] = s[j + k]
    OBVIOUS
  <1> HIDE DEF a, b
  <1>3. ASSUME NEW x, x \in Elements(a) PROVE \E j \in 1..k : s[j] = x
    BY <1>1, <1>2, <1>3, ElementsAt
  <1>4. ASSUME NEW x, x \in Elements(b) PROVE \E j \in (k + 1)..Len(s) : s[j] = x
    <2>1. PICK j \in 1..(Len(s) - k) : b[j] = x
      BY <1>1, <1>4, ElementsAt
    <2>2. (j + k) \in (k + 1)..Len(s) /\ s[j + k] = x
      BY <1>1, <1>2, <2>1
    <2> QED BY <2>2
  <1>5. ASSUME NEW x PROVE x \in Elements(s) <=> x \in Elements(a) \/ x \in Elements(b)
    <2>1. ASSUME x \in Elements(s) PROVE x \in Elements(a) \/ x \in Elements(b)
      <3>1. PICK j \in 1..Len(s) : s[j] = x
        BY <2>1, ElementsAt
      <3>2. CASE j <= k
        <4>1. j \in 1..Len(a) /\ a[j] = x
          BY <1>1, <1>2, <3>1, <3>2
        <4> QED BY <4>1, ElementsAt
      <3>3. CASE j > k
        <4>1. (j - k) \in 1..Len(b) /\ b[j - k] = x
          BY <1>1, <1>2, <3>1, <3>3
        <4> QED BY <4>1, ElementsAt
      <3> QED BY <1>1, <3>2, <3>3
    <2>2. ASSUME x \in Elements(a) \/ x \in Elements(b) PROVE \E j \in 1..Len(s) : s[j] = x
      <3>1. CASE x \in Elements(a)
        BY <1>1, <1>3, <3>1
      <3>2. CASE x \in Elements(b)
        BY <1>1, <1>4, <3>2
      <3> QED BY <2>2, <3>1, <3>2
    <2> QED BY <2>1, <2>2, ElementsAt
  <1>6. ASSUME Distinct(s)
        PROVE  /\ Distinct(a) /\ Distinct(b)
               /\ \A x : ~(x \in Elements(a) /\ x \in Elements(b))
    <2>1. Distinct(a)
      BY <1>1, <1>2, <1>6 DEF Distinct
    <2>2. ASSUME NEW i \in 1..Len(b), NEW j \in 1..Len(b), b[i] = b[j] PROVE i = j
      <3>1. (i + k) \in 1..Len(s) /\ (j + k) \in 1..Len(s) /\ s[i + k] = s[j + k]
        BY <1>1, <1>2, <2>2
      <3> QED BY <1>1, <1>6, <3>1 DEF Distinct
    <2>3. ASSUME NEW x, x \in Elements(a), x \in Elements(b) PROVE FALSE
      <3>1. PICK i \in 1..k : s[i] = x
        BY <1>3, <2>3
      <3>2. PICK j \in (k + 1)..Len(s) : s[j] = x
        BY <1>4, <2>3
      <3> QED BY <1>1, <1>6, <3>1, <3>2 DEF Distinct
    <2> QED BY <2>1, <2>2, <2>3 DEF Distinct
  <1> QED BY <1>1, <1>5, <1>6 DEF a, b
\* The first elements of a list in reverse, as LPUSH stores them one by one.
Reversed(s, k) == [i \in 1..k |-> s[k + 1 - i]]

\* A prefix turned round has the same elements, each as often: once if it was once.
LEMMA ReversedList ==
  ASSUME NEW S, NEW s \in Seq(S), NEW k \in 0..Len(s)
  PROVE  /\ Reversed(s, k) \in Seq(S)
         /\ \A x : x \in Elements(Reversed(s, k)) <=> x \in Elements(SubSeq(s, 1, k))
         /\ Distinct(s) => Distinct(Reversed(s, k))
  <1> DEFINE r == Reversed(s, k)
  <1>1. k \in Nat /\ Len(s) \in Nat /\ k <= Len(s)
    OBVIOUS
  <1>2. \A i \in 1..k : (k + 1 - i) \in 1..k /\ (k + 1 - i) \in 1..Len(s)
    BY <1>1
  <1>3. \A i \in 1..Len(s) : s[i] \in S
    OBVIOUS
  <1>4. r \in [1..k -> S] /\ \A i \in 1..k : r[i] = s[k + 1 - i]
    BY <1>2, <1>3 DEF Reversed
  <1> HIDE DEF r
  <1>5. r \in Seq(S) /\ Len(r) = k
    BY <1>1, <1>4
  <1>6. Len(SubSeq(s, 1, k)) = k /\ \A j \in 1..k : SubSeq(s, 1, k)[j] = s[j]
    BY <1>1
  <1>7. ASSUME NEW x, x \in Elements(r) PROVE x \in Elements(SubSeq(s, 1, k))
    <2>1. PICK i \in 1..k : r[i] = x
      BY <1>5, <1>7, ElementsAt
    <2>2. (k + 1 - i) \in 1..k /\ SubSeq(s, 1, k)[k + 1 - i] = x
      BY <1>2, <1>4, <1>6, <2>1
    <2> QED BY <1>6, <2>2, ElementsAt
  <1>8. ASSUME NEW x, x \in Elements(SubSeq(s, 1, k)) PROVE x \in Elements(r)
    <2>0. PICK i \in 1..Len(SubSeq(s, 1, k)) : SubSeq(s, 1, k)[i] = x
      BY <1>8, ElementsAt
    <2>1. i \in 1..k /\ s[i] = x
      BY <1>6, <2>0
    <2>2. (k + 1 - i) \in 1..k /\ k + 1 - (k + 1 - i) = i
      BY <1>1, <1>2
    <2>3. r[k + 1 - i] = x
      BY <1>4, <2>1, <2>2
    <2> QED BY <1>5, <2>2, <2>3, ElementsAt
  <1>9. ASSUME Distinct(s), NEW i \in 1..k, NEW j \in 1..k, r[i] = r[j] PROVE i = j
    <2>1. k + 1 - i = k + 1 - j
      BY <1>2, <1>4, <1>9 DEF Distinct
    <2> QED BY <1>1, <2>1
  <1>10. Distinct(s) => Distinct(r)
    BY <1>5, <1>9 DEF Distinct
  <1> QED BY <1>5, <1>7, <1>8, <1>10 DEF r

\* The ids of a list of claims.
IdsOf(p) == [k \in 1..Len(p) |-> p[k].id]

\* The ids of a list of claims, as claimed from the processing list.
LEMMA IdsOfClaims ==
  ASSUME NEW p \in Seq(Claims)
  PROVE  /\ IdsOf(p) \in Seq(Ids) /\ Len(IdsOf(p)) = Len(p)
         /\ \A k \in 1..Len(p) : IdsOf(p)[k] = p[k].id
  <1>1. Len(p) \in Nat /\ \A k \in 1..Len(p) : p[k] \in Claims
    OBVIOUS
  <1>2. \A k \in 1..Len(p) : p[k].id \in Ids
    BY <1>1 DEF Claims
  <1>3. IdsOf(p) \in [1..Len(p) -> Ids]
    BY <1>2 DEF IdsOf
  <1>4. IdsOf(p) \in Seq(Ids) /\ Len(IdsOf(p)) = Len(p)
    BY <1>1, <1>3
  <1> QED BY <1>4 DEF IdsOf

\* Taking the ids goes with cutting and joining lists.
LEMMA IdsOfParts ==
  ASSUME NEW p \in Seq(Claims), NEW k \in 0..Len(p)
  PROVE  /\ SubSeq(p, 1, k) \in Seq(Claims) /\ SubSeq(p, k + 1, Len(p)) \in Seq(Claims)
         /\ IdsOf(SubSeq(p, 1, k)) = SubSeq(IdsOf(p), 1, k)
         /\ IdsOf(SubSeq(p, k + 1, Len(p))) = SubSeq(IdsOf(p), k + 1, Len(p))
  <1> DEFINE a == SubSeq(p, 1, k)
             b == SubSeq(p, k + 1, Len(p))
             q == IdsOf(p)
  <1>1. /\ a \in Seq(Claims) /\ b \in Seq(Claims) /\ Len(a) = k /\ Len(b) = Len(p) - k
        /\ Len(p) \in Nat /\ k \in Nat /\ k <= Len(p)
    OBVIOUS
  <1>2. /\ \A j \in 1..k : a[j] = p[j]
        /\ \A j \in 1..(Len(p) - k) : b[j] = p[j + k] /\ j + k \in 1..Len(p)
    OBVIOUS
  <1>3. q \in Seq(Ids) /\ Len(q) = Len(p) /\ \A j \in 1..Len(p) : q[j] = p[j].id
    BY IdsOfClaims
  <1>4. /\ IdsOf(a) \in Seq(Ids) /\ Len(IdsOf(a)) = k /\ \A j \in 1..k : IdsOf(a)[j] = a[j].id
        /\ IdsOf(b) \in Seq(Ids) /\ Len(IdsOf(b)) = Len(p) - k
        /\ \A j \in 1..(Len(p) - k) : IdsOf(b)[j] = b[j].id
    BY <1>1, IdsOfClaims
  <1> HIDE DEF a, b, q
  <1>5. /\ SubSeq(q, 1, k) \in Seq(Ids) /\ Len(SubSeq(q, 1, k)) = k
        /\ SubSeq(q, k + 1, Len(p)) \in Seq(Ids)
        /\ Len(SubSeq(q, k + 1, Len(p))) = Len(p) - k
        /\ \A j \in 1..k : SubSeq(q, 1, k)[j] = q[j]
        /\ \A j \in 1..(Len(p) - k) : SubSeq(q, k + 1, Len(p))[j] = q[j + k]
    BY <1>1, <1>3
  <1>6. ASSUME NEW j \in 1..k PROVE IdsOf(a)[j] = SubSeq(q, 1, k)[j]
    <2>1. j \in 1..Len(p)
      BY <1>1
    <2> QED BY <1>2, <1>3, <1>4, <1>5, <2>1
  <1>7. \A j \in 1..(Len(p) - k) : IdsOf(b)[j] = SubSeq(q, k + 1, Len(p))[j]
    BY <1>1, <1>2, <1>3, <1>4, <1>5
  <1>8. IdsOf(a) = SubSeq(q, 1, k)
    BY <1>4, <1>5, <1>6
  <1>9. IdsOf(b) = SubSeq(q, k + 1, Len(p))
    BY <1>4, <1>5, <1>7
  <1> QED BY <1>1, <1>8, <1>9 DEF a, b, q

\* The ids of an appended list are the ids of the two, appended.
LEMMA IdsOfConcat ==
  ASSUME NEW p \in Seq(Claims), NEW q \in Seq(Claims)
  PROVE  IdsOf(p \o q) = IdsOf(p) \o IdsOf(q)
  <1>1. /\ p \o q \in Seq(Claims) /\ Len(p \o q) = Len(p) + Len(q)
        /\ Len(p) \in Nat /\ Len(q) \in Nat
    OBVIOUS
  <1>2. /\ IdsOf(p) \in Seq(Ids) /\ Len(IdsOf(p)) = Len(p)
        /\ \A j \in 1..Len(p) : IdsOf(p)[j] = p[j].id
        /\ IdsOf(q) \in Seq(Ids) /\ Len(IdsOf(q)) = Len(q)
        /\ \A j \in 1..Len(q) : IdsOf(q)[j] = q[j].id
    BY IdsOfClaims
  <1>3. /\ IdsOf(p \o q) \in Seq(Ids) /\ Len(IdsOf(p \o q)) = Len(p) + Len(q)
        /\ \A j \in 1..(Len(p) + Len(q)) : IdsOf(p \o q)[j] = (p \o q)[j].id
    BY <1>1, IdsOfClaims
  <1>4. \A j \in 1..(Len(p) + Len(q)) :
          (p \o q)[j] = IF j <= Len(p) THEN p[j] ELSE q[j - Len(p)]
    OBVIOUS
  <1>5. /\ IdsOf(p) \o IdsOf(q) \in Seq(Ids)
        /\ Len(IdsOf(p) \o IdsOf(q)) = Len(p) + Len(q)
        /\ \A j \in 1..(Len(p) + Len(q)) : (IdsOf(p) \o IdsOf(q))[j] =
             IF j <= Len(p) THEN IdsOf(p)[j] ELSE IdsOf(q)[j - Len(p)]
    <2> DEFINE a == IdsOf(p)
               b == IdsOf(q)
    <2>1. a \in Seq(Ids) /\ b \in Seq(Ids) /\ Len(a) = Len(p) /\ Len(b) = Len(q)
      BY <1>2
    <2> HIDE DEF a, b
    <2>2. /\ a \o b \in Seq(Ids) /\ Len(a \o b) = Len(a) + Len(b)
          /\ \A j \in 1..(Len(a) + Len(b)) :
               (a \o b)[j] = IF j <= Len(a) THEN a[j] ELSE b[j - Len(a)]
      BY <2>1
    <2> QED BY <2>1, <2>2 DEF a, b
  <1>6. ASSUME NEW j \in 1..(Len(p) + Len(q)) PROVE IdsOf(p \o q)[j] = (IdsOf(p) \o IdsOf(q))[j]
    <2>1. CASE j <= Len(p)
      <3>1. j \in 1..Len(p)
        BY <1>1, <2>1
      <3> QED BY <1>2, <1>3, <1>4, <1>5, <2>1, <3>1
    <2>2. CASE j > Len(p)
      <3>1. (j - Len(p)) \in 1..Len(q) /\ ~(j <= Len(p))
        BY <1>1, <2>2
      <3> QED BY <1>2, <1>3, <1>4, <1>5, <3>1
    <2>3. j <= Len(p) \/ j > Len(p)
      BY <1>1
    <2> QED BY <2>1, <2>2, <2>3
  <1>7. \A r, t \in Seq(Ids) :
          Len(r) = Len(t) /\ (\A j \in 1..Len(t) : r[j] = t[j]) => r = t
    OBVIOUS
  <1> QED BY <1>3, <1>5, <1>6, <1>7
\* Removing a claim from a list without duplicate ids takes its id, and no
\* other, out of the list.
LEMMA WithoutClaim ==
  ASSUME NEW p \in Seq(Claims), Distinct(IdsOf(p)), NEW e \in Claims, e \in Elements(p)
  PROVE  /\ Without(p, e) \in Seq(Claims) /\ Distinct(IdsOf(Without(p, e)))
         /\ \A x : x \in Elements(IdsOf(Without(p, e))) <=> x \in Elements(IdsOf(p)) /\ x # e.id
         /\ e.id \in Elements(IdsOf(p))
  <1> DEFINE at == {k \in 1..Len(p) : p[k] = e}
             k == First(p, e)
             q == IdsOf(p)
             a == SubSeq(p, 1, k - 1)
             b == SubSeq(p, k + 1, Len(p))
  <1>0. Len(p) \in Nat
    OBVIOUS
  <1>1. k \in 1..Len(p) /\ p[k] = e
    <2>1. at \in SUBSET Nat /\ at # {}
      BY <1>0, ElementsAt
    <2>2. PICK x \in at : \A y \in at : x <= y
      BY <2>1, LeastNumber
    <2>3. x \in 1..Len(p) /\ p[x] = e /\ \A j \in 1..(x - 1) : p[j] # e
      BY <1>0, <2>2
    <2> QED BY <2>3 DEF First
  <1>2. q \in Seq(Ids) /\ Len(q) = Len(p) /\ q[k] = e.id
    BY <1>1, IdsOfClaims
  <1> HIDE DEF k
  <1>3. (k - 1) \in 0..Len(p) /\ k \in 0..Len(p) /\ k - 1 + 1 = k
    BY <1>0, <1>1
  <1>4. /\ a \in Seq(Claims) /\ b \in Seq(Claims)
        /\ IdsOf(a) = SubSeq(q, 1, k - 1) /\ IdsOf(b) = SubSeq(q, k + 1, Len(q))
    BY <1>2, <1>3, IdsOfParts
  <1>5. Without(p, e) = a \o b
    BY DEF Without, k
  <1> HIDE DEF q, a, b
  <1>6. IdsOf(Without(p, e)) = IdsOf(a) \o IdsOf(b) /\ Without(p, e) \in Seq(Claims)
    <2>1. IdsOf(a \o b) = IdsOf(a) \o IdsOf(b)
      BY <1>4, IdsOfConcat
    <2>2. a \o b \in Seq(Claims)
      BY <1>4
    <2> QED BY <1>5, <2>1, <2>2, Zenon
  <1>7. IdsOf(a) \in Seq(Ids) /\ IdsOf(b) \in Seq(Ids)
    BY <1>4, IdsOfClaims
  <1>8. ASSUME NEW x PROVE x \in Elements(IdsOf(a)) <=> \E j \in 1..(k - 1) : q[j] = x
    <2>1. Len(SubSeq(q, 1, k - 1)) = k - 1 /\ \A j \in 1..(k - 1) : SubSeq(q, 1, k - 1)[j] = q[j]
      BY <1>2, <1>3
    <2>2. x \in Elements(IdsOf(a)) <=> \E j \in 1..Len(IdsOf(a)) : IdsOf(a)[j] = x
      BY ElementsAt
    <2> QED BY <1>4, <2>1, <2>2
  <1>9. ASSUME NEW x PROVE x \in Elements(IdsOf(b)) <=> \E j \in (k + 1)..Len(q) : q[j] = x
    <2>1. /\ Len(SubSeq(q, k + 1, Len(q))) = Len(q) - k
          /\ \A j \in 1..(Len(q) - k) : SubSeq(q, k + 1, Len(q))[j] = q[j + k]
      BY <1>0, <1>2, <1>3
    <2>2. x \in Elements(IdsOf(b)) <=> \E j \in 1..(Len(q) - k) : q[j + k] = x
      <3>1. x \in Elements(IdsOf(b)) <=> \E j \in 1..Len(IdsOf(b)) : IdsOf(b)[j] = x
        BY ElementsAt
      <3> QED BY <1>4, <2>1, <3>1
    <2>3. ASSUME NEW j \in 1..(Len(q) - k), q[j + k] = x PROVE \E i \in (k + 1)..Len(q) : q[i] = x
      <3>1. (j + k) \in (k + 1)..Len(q)
        BY <1>0, <1>2, <1>3
      <3> QED BY <2>3, <3>1
    <2>4. ASSUME NEW i \in (k + 1)..Len(q), q[i] = x PROVE \E j \in 1..(Len(q) - k) : q[j + k] = x
      <3>1. (i - k) \in 1..(Len(q) - k) /\ (i - k) + k = i
        BY <1>0, <1>2, <1>3
      <3> QED BY <2>4, <3>1
    <2> QED BY <2>2, <2>3, <2>4
  <1>10. Distinct(q) /\ k \in 1..Len(q) /\ Len(q) \in Nat
    BY <1>0, <1>1, <1>2 DEF q
  <1>11. ASSUME NEW x
         PROVE  x \in Elements(IdsOf(a)) \/ x \in Elements(IdsOf(b))
                  <=> x \in Elements(q) /\ x # e.id
    <2>1. ASSUME NEW j \in 1..(k - 1), q[j] = x PROVE x \in Elements(q) /\ x # e.id
      <3>1. j \in 1..Len(q) /\ j # k
        BY <1>10
      <3> QED BY <1>2, <1>10, <2>1, <3>1, ElementsAt DEF Distinct
    <2>2. ASSUME NEW j \in (k + 1)..Len(q), q[j] = x PROVE x \in Elements(q) /\ x # e.id
      <3>1. j \in 1..Len(q) /\ j # k
        BY <1>10
      <3> QED BY <1>2, <1>10, <2>2, <3>1, ElementsAt DEF Distinct
    <2>3. ASSUME x \in Elements(q), x # e.id
          PROVE  \/ \E j \in 1..(k - 1) : q[j] = x
                 \/ \E j \in (k + 1)..Len(q) : q[j] = x
      <3>1. PICK j \in 1..Len(q) : q[j] = x
        BY <2>3, ElementsAt
      <3>2. j # k
        BY <1>2, <2>3, <3>1
      <3>3. j \in 1..(k - 1) \/ j \in (k + 1)..Len(q)
        BY <1>10, <3>2
      <3> QED BY <3>1, <3>3
    <2> QED BY <1>8, <1>9, <2>1, <2>2, <2>3
  <1>12. Distinct(IdsOf(a)) /\ Distinct(IdsOf(b))
    BY <1>2, <1>3, <1>4, <1>10, CutList
  <1>13. \A x : ~(x \in Elements(IdsOf(a)) /\ x \in Elements(IdsOf(b)))
    <2> SUFFICES ASSUME NEW x, NEW i \in 1..(k - 1), q[i] = x, NEW j \in (k + 1)..Len(q), q[j] = x
                 PROVE  FALSE
      BY <1>8, <1>9
    <2>1. i \in 1..Len(q) /\ j \in 1..Len(q) /\ i # j
      BY <1>10
    <2> QED BY <1>10, <2>1 DEF Distinct
  <1>14. /\ Distinct(IdsOf(Without(p, e)))
         /\ \A x : x \in Elements(IdsOf(Without(p, e)))
                     <=> x \in Elements(IdsOf(a)) \/ x \in Elements(IdsOf(b))
    BY <1>6, <1>7, <1>12, <1>13, ConcatLists
  <1>15. e.id \in Elements(q)
    BY <1>2, <1>10, ElementsAt
  <1> QED BY <1>6, <1>11, <1>14, <1>15 DEF q

-----------------------------------------------------------------------------
(***************************************************************************)
(* The scripts move obligations between the three lists. An obligation     *)
(* waits in one place of one list.                                         *)
(***************************************************************************)
Held == IdsOf(processing)

ListsTyped == expired \in Seq(Ids) /\ cleanup \in Seq(Ids) /\ processing \in Seq(Claims)

Waits(id) == id \in Elements(expired) \/ id \in Elements(cleanup) \/ id \in Elements(Held)

Once ==
  /\ Distinct(expired) /\ Distinct(cleanup) /\ Distinct(Held)
  /\ \A id : /\ ~(id \in Elements(expired) /\ id \in Elements(cleanup))
             /\ ~(id \in Elements(expired) /\ id \in Elements(Held))
             /\ ~(id \in Elements(cleanup) /\ id \in Elements(Held))

\* RECOVER_CLEANUP moves claims back to the cleanup list.
LEMMA RecoverMoves ==
  ASSUME CleanupAssumption, ListsTyped, Once, RECOVER_CLEANUP
  PROVE  ListsTyped' /\ Once' /\ \A id : Waits(id)' <=> Waits(id)
  <1> DEFINE n == Len(processing)
             k == Least(BatchSize, n)
             back == SubSeq(processing, n - k + 1, n)
             rest == SubSeq(processing, 1, n - k)
  <1>1. n \in Nat /\ k \in Nat /\ k <= n /\ (n - k) \in 0..n
    <2>1. n \in Nat /\ BatchSize \in Nat
      BY DEF ListsTyped, CleanupAssumption
    <2> QED BY <2>1 DEF Least
  <1>2. /\ back \in Seq(Claims) /\ rest \in Seq(Claims)
        /\ IdsOf(rest) = SubSeq(Held, 1, n - k) /\ IdsOf(back) = SubSeq(Held, n - k + 1, n)
        /\ Held \in Seq(Ids) /\ Len(Held) = n
    BY <1>1, IdsOfParts, IdsOfClaims DEF ListsTyped, Held
  <1>3. Len(back) = k
    BY <1>1 DEF ListsTyped
  <1>4. cleanup' = IdsOf(back) \o cleanup /\ processing' = rest /\ expired' = expired
    BY <1>3 DEF RECOVER_CLEANUP, Suffix, IdsOf
  <1>5. Held' = IdsOf(rest)
    BY <1>4 DEF Held, IdsOf
  <1>6. IdsOf(back) \in Seq(Ids) /\ IdsOf(rest) \in Seq(Ids)
    BY <1>2, IdsOfClaims
  <1> HIDE DEF n, k, back, rest
  <1>7. /\ \A x : x \in Elements(Held) <=> x \in Elements(IdsOf(rest)) \/ x \in Elements(IdsOf(back))
        /\ Distinct(IdsOf(rest)) /\ Distinct(IdsOf(back))
        /\ \A x : ~(x \in Elements(IdsOf(rest)) /\ x \in Elements(IdsOf(back)))
    BY <1>1, <1>2, CutList DEF Once
  <1>8. /\ cleanup' \in Seq(Ids)
        /\ \A x : x \in Elements(cleanup') <=> x \in Elements(IdsOf(back)) \/ x \in Elements(cleanup)
        /\ Distinct(cleanup')
    <2>1. \A x : ~(x \in Elements(IdsOf(back)) /\ x \in Elements(cleanup))
      BY <1>7 DEF Once
    <2> QED BY <1>4, <1>6, <1>7, <2>1, ConcatLists DEF Once, ListsTyped
  <1>9. ListsTyped'
    BY <1>2, <1>4, <1>8 DEF ListsTyped
  <1>10. Once'
    BY <1>4, <1>5, <1>7, <1>8 DEF Once
  <1>11. \A id : Waits(id)' <=> Waits(id)
    BY <1>4, <1>5, <1>7, <1>8 DEF Waits
  <1> QED BY <1>9, <1>10, <1>11
\* A list of one element.
LEMMA SingleList ==
  ASSUME NEW s, NEW x, Len(s) = 1, s[1] = x
  PROVE  Distinct(s) /\ \A y : y \in Elements(s) <=> y = x
  <1>1. \A k \in 1..1 : k = 1
    OBVIOUS
  <1>2. 1 \in 1..1
    OBVIOUS
  <1>3. Distinct(s)
    BY <1>1 DEF Distinct
  <1>4. \A y : y \in Elements(s) <=> \E k \in 1..1 : s[k] = y
    BY ElementsAt
  <1> QED BY <1>1, <1>2, <1>3, <1>4

\* CLEANUP moves the oldest expired members to the cleanup list.
LEMMA CleanupMoves ==
  ASSUME CleanupAssumption, ListsTyped, Once, CLEANUP
  PROVE  ListsTyped' /\ Once' /\ \A id : Waits(id)' <=> Waits(id)
  <1> DEFINE n == Len(expired)
             k == Least(BatchSize, n)
             moved == Reversed(expired, k)
             front == SubSeq(expired, 1, k)
             rest == SubSeq(expired, k + 1, n)
  <1>1. n \in Nat /\ k \in 0..n
    <2>1. n \in Nat /\ BatchSize \in Nat
      BY DEF ListsTyped, CleanupAssumption
    <2> QED BY <2>1 DEF Least
  <1>2. cleanup' = moved \o cleanup /\ expired' = rest /\ processing' = processing
    BY DEF CLEANUP, Reversed
  <1>3. Held' = Held
    BY <1>2 DEF Held, IdsOf
  <1>4. expired \in Seq(Ids) /\ cleanup \in Seq(Ids) /\ processing \in Seq(Claims)
    BY DEF ListsTyped
  <1> HIDE DEF k
  <1>5. /\ moved \in Seq(Ids) /\ Distinct(moved)
        /\ \A x : x \in Elements(moved) <=> x \in Elements(front)
    <2>1. expired \in Seq(Ids) /\ k \in 0..Len(expired) /\ Distinct(expired)
      BY <1>1, <1>4 DEF Once
    <2>2. /\ moved \in Seq(Ids)
          /\ \A x : x \in Elements(moved) <=> x \in Elements(SubSeq(expired, 1, k))
          /\ Distinct(expired) => Distinct(moved)
      BY <2>1, ReversedList
    <2> QED BY <2>1, <2>2
  <1>6. /\ rest \in Seq(Ids) /\ Distinct(rest)
        /\ \A x : x \in Elements(expired) <=> x \in Elements(front) \/ x \in Elements(rest)
        /\ \A x : ~(x \in Elements(front) /\ x \in Elements(rest))
    BY <1>1, <1>4, CutList DEF Once
  <1> HIDE DEF n, moved, front, rest
  <1>7. /\ cleanup' \in Seq(Ids) /\ Distinct(cleanup')
        /\ \A x : x \in Elements(cleanup') <=> x \in Elements(moved) \/ x \in Elements(cleanup)
    <2>1. \A x : ~(x \in Elements(moved) /\ x \in Elements(cleanup))
      BY <1>5, <1>6 DEF Once
    <2> QED BY <1>2, <1>4, <1>5, <2>1, ConcatLists DEF Once
  <1>8. ListsTyped'
    BY <1>2, <1>4, <1>6, <1>7 DEF ListsTyped
  <1>9. Once'
    BY <1>2, <1>3, <1>5, <1>6, <1>7 DEF Once
  <1>10. \A id : Waits(id)' <=> Waits(id)
    BY <1>2, <1>3, <1>5, <1>6, <1>7 DEF Waits
  <1> QED BY <1>8, <1>9, <1>10

\* A token that no claim carries exists: finitely many are in use.
LEMMA TokenIsFresh ==
  ASSUME ListsTyped, IsFiniteSet(drains), IsFiniteSet(late)
  PROVE  \E t \in 0..Cardinality(UsedTokens) : t \notin UsedTokens
  <1> DEFINE E == Elements(processing)
             D == drains \cup late
             C == {d.claim : d \in D}
             A == E \cup (C \ {NoClaim})
  <1>1. IsFiniteSet(E)
    <2> DEFINE f == [k \in 1..Len(processing) |-> processing[k]]
    <2>1. Len(processing) \in Nat
      BY DEF ListsTyped
    <2>2. IsFiniteSet(1..Len(processing))
      BY <2>1, FS_Interval
    <2>3. f \in Surjection(1..Len(processing), E)
      BY DEF Surjection, Elements
    <2> QED BY <2>2, <2>3, FS_Surjection
  <1>2. IsFiniteSet(C)
    <2> DEFINE f == [d \in D |-> d.claim]
    <2>1. IsFiniteSet(D)
      BY FS_Union
    <2>2. f \in Surjection(D, C)
      BY DEF Surjection
    <2> QED BY <2>1, <2>2, FS_Surjection
  <1>3. IsFiniteSet(A)
    <2>1. IsFiniteSet(C \ {NoClaim})
      BY <1>2, FS_RemoveElement
    <2> QED BY <1>1, <2>1, FS_Union
  <1>4. IsFiniteSet(UsedTokens) /\ Cardinality(UsedTokens) \in Nat
    <2> DEFINE f == [c \in A |-> c.token]
    <2>1. f \in Surjection(A, UsedTokens)
      BY DEF Surjection, UsedTokens
    <2> QED BY <1>3, <2>1, FS_Surjection, FS_CardinalityType
  <1>5. SUFFICES ASSUME 0..Cardinality(UsedTokens) \subseteq UsedTokens PROVE FALSE
    OBVIOUS
  <1>6. Cardinality(0..Cardinality(UsedTokens)) <= Cardinality(UsedTokens)
    BY <1>4, <1>5, FS_Subset
  <1>7. Cardinality(0..Cardinality(UsedTokens)) = Cardinality(UsedTokens) + 1
    BY <1>4, FS_Interval
  <1> QED BY <1>4, <1>6, <1>7

\* What CLAIM_CLEANUP hands out of a list that is not empty.
LEMMA NextClaimType ==
  ASSUME ListsTyped, IsFiniteSet(drains), IsFiniteSet(late), cleanup # <<>>
  PROVE  /\ NextClaim \in Claims /\ NextClaim.id = cleanup[Len(cleanup)]
         /\ Len(cleanup) \in 1..Len(cleanup)
  <1> DEFINE t == CHOOSE t \in 0..Cardinality(UsedTokens) : t \notin UsedTokens
  <1>1. t \in 0..Cardinality(UsedTokens)
    BY TokenIsFresh
  <1>2. t \in Nat
    BY <1>1
  <1>3. cleanup \in Seq(Ids) /\ Len(cleanup) \in Nat /\ Len(cleanup) # 0
    BY DEF ListsTyped
  <1>4. Len(cleanup) \in 1..Len(cleanup) /\ cleanup[Len(cleanup)] \in Ids
    BY <1>3
  <1>5. NextClaim = [id |-> cleanup[Len(cleanup)], token |-> t]
    BY DEF NextClaim
  <1> HIDE DEF t
  <1> QED BY <1>2, <1>4, <1>5 DEF Claims

\* CLAIM_CLEANUP moves the obligation on the right end to the processing list.
LEMMA ClaimMoves ==
  ASSUME ListsTyped, Once, IsFiniteSet(drains), IsFiniteSet(late), CLAIM_CLEANUP
  PROVE  ListsTyped' /\ Once' /\ \A id : Waits(id)' <=> Waits(id)
  <1>1. CASE cleanup = <<>>
    <2>1. expired' = expired /\ cleanup' = cleanup /\ processing' = processing
      BY <1>1 DEF CLAIM_CLEANUP, redisVars
    <2> QED BY <2>1 DEF ListsTyped, Once, Waits, Held, IdsOf
  <1>2. CASE cleanup # <<>>
    <2> DEFINE n == Len(cleanup)
               one == <<NextClaim>>
               front == SubSeq(cleanup, 1, n - 1)
               last == SubSeq(cleanup, n, n)
               x == cleanup[n]
    <2>1. NextClaim \in Claims /\ NextClaim.id = x /\ n \in 1..n
      BY <1>2, NextClaimType
    <2>2. cleanup' = front /\ processing' = one \o processing /\ expired' = expired
      BY <1>2 DEF CLAIM_CLEANUP
    <2>3. n \in Nat /\ (n - 1) \in 0..n /\ n - 1 + 1 = n
      BY <2>1 DEF ListsTyped
    <2>4. expired \in Seq(Ids) /\ cleanup \in Seq(Ids) /\ processing \in Seq(Claims)
      BY DEF ListsTyped
    <2>5. /\ front \in Seq(Ids) /\ Distinct(front)
          /\ \A y : y \in Elements(cleanup) <=> y \in Elements(front) \/ y \in Elements(last)
          /\ \A y : ~(y \in Elements(front) /\ y \in Elements(last))
      BY <2>3, <2>4, CutList DEF Once
    <2>6. \A y : y \in Elements(last) <=> y = x
      <3>1. Len(last) = 1 /\ last[1] = x
        BY <2>1, <2>3, <2>4
      <3> HIDE DEF last, x
      <3> QED BY <3>1, SingleList
    <2> HIDE DEF n, front, last, x
    <2>7. /\ one \in Seq(Claims) /\ IdsOf(one) \in Seq(Ids) /\ Distinct(IdsOf(one))
          /\ \A y : y \in Elements(IdsOf(one)) <=> y = x
      <3>1. one \in Seq(Claims) /\ Len(one) = 1 /\ one[1] = NextClaim
        BY <2>1
      <3> HIDE DEF one
      <3>2. /\ IdsOf(one) \in Seq(Ids) /\ Len(IdsOf(one)) = Len(one)
            /\ \A k \in 1..Len(one) : IdsOf(one)[k] = one[k].id
        BY <3>1, IdsOfClaims
      <3>3. Len(IdsOf(one)) = 1 /\ IdsOf(one)[1] = x
        BY <2>1, <3>1, <3>2
      <3> QED BY <3>1, <3>2, <3>3, SingleList
    <2> HIDE DEF one
    <2>8. processing' \in Seq(Claims) /\ Held' = IdsOf(one) \o Held /\ Held \in Seq(Ids)
      <3>1. IdsOf(one \o processing) = IdsOf(one) \o Held /\ Held \in Seq(Ids)
        BY <2>4, <2>7, IdsOfConcat, IdsOfClaims DEF Held
      <3>2. Held' = IdsOf(one \o processing)
        BY <2>2 DEF Held, IdsOf
      <3> QED BY <2>2, <2>4, <2>7, <3>1, <3>2
    <2>9. /\ Distinct(Held')
          /\ \A y : y \in Elements(Held') <=> y = x \/ y \in Elements(Held)
      <3>1. \A y : ~(y \in Elements(IdsOf(one)) /\ y \in Elements(Held))
        BY <2>5, <2>6, <2>7 DEF Once
      <3>2. Distinct(Held)
        BY DEF Once
      <3> QED BY <2>7, <2>8, <3>1, <3>2, ConcatLists
    <2>10. ListsTyped'
      BY <2>2, <2>4, <2>5, <2>8 DEF ListsTyped
    <2>11. Once'
      BY <2>2, <2>5, <2>6, <2>9 DEF Once
    <2>12. \A id : Waits(id)' <=> Waits(id)
      BY <2>2, <2>5, <2>6, <2>9 DEF Waits
    <2> QED BY <2>10, <2>11, <2>12
  <1> QED BY <1>1, <1>2

\* ACK_CLEANUP removes at most the obligation of the acknowledged claim.
LEMMA AckRemoves ==
  ASSUME ListsTyped, Once, NEW c \in Claims, ACK_CLEANUP(c)
  PROVE  /\ ListsTyped' /\ Once' /\ \A id : Waits(id)' => Waits(id)
         /\ \A id : Waits(id) => Waits(id)' \/ id = c.id
  <1>1. expired' = expired /\ cleanup' = cleanup /\ processing' = Without(processing, c)
    BY DEF ACK_CLEANUP
  <1>2. expired \in Seq(Ids) /\ cleanup \in Seq(Ids) /\ processing \in Seq(Claims)
    BY DEF ListsTyped
  <1>3. Held' = IdsOf(processing')
    BY DEF Held, IdsOf
  <1>4. CASE c \in Elements(processing)
    <2>1. /\ processing' \in Seq(Claims) /\ Distinct(Held')
          /\ \A x : x \in Elements(Held') <=> x \in Elements(Held) /\ x # c.id
      BY <1>1, <1>2, <1>3, <1>4, WithoutClaim DEF Once, Held
    <2> QED BY <1>1, <1>2, <2>1 DEF ListsTyped, Once, Waits
  <1>5. CASE c \notin Elements(processing)
    <2>1. processing' = processing /\ Held' = Held
      BY <1>1, <1>3, <1>5 DEF Without, Held
    <2> QED BY <1>1, <1>2, <2>1 DEF ListsTyped, Once, Waits
  <1> QED BY <1>4, <1>5

\* NACK_CLEANUP moves the obligation of a claim that is still held back.
LEMMA NackMoves ==
  ASSUME ListsTyped, Once, NEW c \in Claims, NACK_CLEANUP(c)
  PROVE  ListsTyped' /\ Once' /\ \A id : Waits(id)' <=> Waits(id)
  <1>1. expired' = expired
    BY DEF NACK_CLEANUP
  <1>2. expired \in Seq(Ids) /\ cleanup \in Seq(Ids) /\ processing \in Seq(Claims)
    BY DEF ListsTyped
  <1>3. Held' = IdsOf(processing')
    BY DEF Held, IdsOf
  <1>4. CASE c \in Elements(processing)
    <2>0. processing' = Without(processing, c) /\ cleanup' = <<c.id>> \o cleanup
      BY <1>4 DEF NACK_CLEANUP
    <2>1. /\ processing' \in Seq(Claims) /\ Distinct(Held')
          /\ \A x : x \in Elements(Held') <=> x \in Elements(Held) /\ x # c.id
          /\ c.id \in Elements(Held)
      BY <1>2, <1>3, <1>4, <2>0, WithoutClaim DEF Once, Held
    <2>2. /\ <<c.id>> \in Seq(Ids) /\ Distinct(<<c.id>>)
          /\ \A x : x \in Elements(<<c.id>>) <=> x = c.id
      <3>1. c.id \in Ids
        BY DEF Claims
      <3>2. <<c.id>> \in Seq(Ids) /\ Len(<<c.id>>) = 1 /\ <<c.id>>[1] = c.id
        BY <3>1
      <3> QED BY <3>2, SingleList
    <2>3. /\ cleanup' \in Seq(Ids) /\ Distinct(cleanup')
          /\ \A x : x \in Elements(cleanup') <=> x = c.id \/ x \in Elements(cleanup)
      <3>1. \A x : ~(x \in Elements(<<c.id>>) /\ x \in Elements(cleanup))
        BY <2>1, <2>2 DEF Once
      <3>2. Distinct(cleanup)
        BY DEF Once
      <3> QED BY <1>2, <2>0, <2>2, <3>1, <3>2, ConcatLists
    <2>4. ListsTyped'
      BY <1>1, <1>2, <2>1, <2>3 DEF ListsTyped
    <2>5. Once'
      BY <1>1, <2>1, <2>3 DEF Once
    <2>6. \A id : Waits(id)' <=> Waits(id)
      BY <1>1, <2>1, <2>3 DEF Waits
    <2> QED BY <2>4, <2>5, <2>6
  <1>5. CASE c \notin Elements(processing)
    <2>1. processing' = processing /\ Held' = Held /\ cleanup' = cleanup
      BY <1>3, <1>5 DEF NACK_CLEANUP, Held
    <2> QED BY <1>1, <1>2, <2>1 DEF ListsTyped, Once, Waits
  <1> QED BY <1>4, <1>5
-----------------------------------------------------------------------------
(***************************************************************************)
(* The drains a node retains: one per epoch, and no more than MaxDrains.   *)
(***************************************************************************)
At(D, n) == {d \in D : d.node = n}

Retained(D) ==
  /\ IsFiniteSet(D)
  /\ \A n \in Nodes : Cardinality(At(D, n)) <= MaxDrains
  /\ \A d, e \in D : d.node = e.node /\ d.epoch = e.epoch => d = e

\* Drains that end leave room.
LEMMA RetainedLess ==
  ASSUME CleanupAssumption, NEW D, Retained(D), NEW E \in SUBSET D
  PROVE  Retained(E)
  <1>1. IsFiniteSet(E) /\ IsFiniteSet(D)
    BY FS_Subset DEF Retained
  <1>2. ASSUME NEW n \in Nodes PROVE Cardinality(At(E, n)) <= MaxDrains
    <2>1. At(E, n) \in SUBSET At(D, n) /\ At(D, n) \in SUBSET D
      BY DEF At
    <2>2. IsFiniteSet(At(D, n)) /\ IsFiniteSet(At(E, n))
      BY <1>1, <2>1, FS_Subset
    <2>3. Cardinality(At(E, n)) \in Nat /\ Cardinality(At(D, n)) \in Nat
      BY <2>2, FS_CardinalityType
    <2>4. Cardinality(At(E, n)) <= Cardinality(At(D, n)) /\ Cardinality(At(D, n)) <= MaxDrains
      BY <2>1, <2>2, FS_Subset DEF Retained
    <2> QED BY <2>3, <2>4 DEF CleanupAssumption
  <1> QED BY <1>1, <1>2 DEF Retained

\* A drain that goes on takes the place of what it was.
LEMMA RetainedReplaced ==
  ASSUME CleanupAssumption, NEW D, Retained(D), NEW d \in D, NEW e,
         e.node = d.node, e.epoch = d.epoch
  PROVE  Retained((D \ {d}) \cup {e})
  <1> DEFINE F == (D \ {d}) \cup {e}
  <1>1. IsFiniteSet(D) /\ IsFiniteSet(F)
    BY FS_RemoveElement, FS_AddElement DEF Retained
  <1>2. ASSUME NEW n \in Nodes PROVE Cardinality(At(F, n)) <= MaxDrains
    <2>1. IsFiniteSet(At(D, n)) /\ Cardinality(At(D, n)) \in Nat /\ Cardinality(At(D, n)) <= MaxDrains
      <3>1. At(D, n) \in SUBSET D
        BY DEF At
      <3> QED BY <1>1, <3>1, FS_Subset, FS_CardinalityType DEF Retained
    <2>2. CASE n = d.node
      <3>1. d \in At(D, n) /\ At(F, n) = (At(D, n) \ {d}) \cup {e}
        BY <2>2 DEF At
      <3>2. /\ IsFiniteSet(At(D, n) \ {d})
            /\ Cardinality(At(D, n) \ {d}) = Cardinality(At(D, n)) - 1
        BY <2>1, <3>1, FS_RemoveElement
      <3>3. Cardinality(At(F, n)) \in {Cardinality(At(D, n)) - 1, Cardinality(At(D, n)) - 1 + 1}
        BY <3>1, <3>2, FS_AddElement
      <3> QED BY <2>1, <3>3 DEF CleanupAssumption
    <2>3. CASE n # d.node
      <3>1. At(F, n) = At(D, n)
        BY <2>3 DEF At
      <3> QED BY <2>1, <3>1
    <2> QED BY <2>2, <2>3
  <1>3. \A f, g \in F : f.node = g.node /\ f.epoch = g.epoch => f = g
    BY DEF Retained
  <1> QED BY <1>1, <1>2, <1>3 DEF Retained

\* startCleanup() adds a drain only when the node has room and none of its
\* drains is of that epoch.
LEMMA RetainedMore ==
  ASSUME CleanupAssumption, NEW D, Retained(D), NEW e,
         ~(Cardinality(At(D, e.node)) >= MaxDrains), \A d \in At(D, e.node) : d.epoch # e.epoch
  PROVE  Retained(D \cup {e})
  <1> DEFINE F == D \cup {e}
  <1>1. IsFiniteSet(D) /\ IsFiniteSet(F)
    BY FS_AddElement DEF Retained
  <1>2. ASSUME NEW n \in Nodes PROVE Cardinality(At(F, n)) <= MaxDrains
    <2>1. IsFiniteSet(At(D, n)) /\ Cardinality(At(D, n)) \in Nat /\ Cardinality(At(D, n)) <= MaxDrains
      <3>1. At(D, n) \in SUBSET D
        BY DEF At
      <3> QED BY <1>1, <3>1, FS_Subset, FS_CardinalityType DEF Retained
    <2>2. CASE n = e.node
      <3>1. At(F, n) = At(D, n) \cup {e}
        BY <2>2 DEF At
      <3>2. Cardinality(At(F, n)) \in {Cardinality(At(D, n)), Cardinality(At(D, n)) + 1}
        BY <2>1, <3>1, FS_AddElement
      <3> QED BY <2>1, <2>2, <3>2 DEF CleanupAssumption
    <2>3. CASE n # e.node
      <3>1. At(F, n) = At(D, n)
        BY <2>3 DEF At
      <3> QED BY <2>1, <3>1
    <2> QED BY <2>2, <2>3
  <1>3. \A f, g \in F : f.node = g.node /\ f.epoch = g.epoch => f = g
    BY DEF Retained, At
  <1> QED BY <1>1, <1>2, <1>3 DEF Retained

-----------------------------------------------------------------------------
(***************************************************************************)
(* The inductive invariant. A drain that runs a callback, acknowledges or  *)
(* hands back has a claim, and acknowledges only what has finished; the    *)
(* same holds of commands on the wire whose sender is gone.                *)
(***************************************************************************)
Sound(d, done) ==
  /\ d \in Drains
  /\ d.call \in {"callback", "ACK", "NACK"} => d.claim \in Claims
  /\ d.call = "ACK" => d.claim.id \in done

DrainsSound == Retained(drains) /\ \A d \in drains : Sound(d, finished)

LateSound == IsFiniteSet(late) /\ \A d \in late : Sound(d, finished) /\ OnRedis(d)

\* Every obligation is of an id that has died, and is there until it is done.
Accounted ==
  \A id : /\ Waits(id) => id \in died
          /\ id \in died => Waits(id) \/ id \in finished

CleanupInv == TypeOK /\ Once /\ Accounted /\ DrainsSound /\ LateSound

\* What a script does to the lists is sound for a sound caller.
LEMMA ScriptIsSound ==
  ASSUME CleanupAssumption, CleanupInv, NEW d, Sound(d, finished), OnRedis(d), Executes(d),
         UNCHANGED <<died, finished>>
  PROVE  ListsTyped' /\ Once' /\ Accounted'
  <1>0. ListsTyped /\ Once /\ IsFiniteSet(drains) /\ IsFiniteSet(late)
    BY DEF CleanupInv, TypeOK, ListsTyped, DrainsSound, LateSound, Retained
  <1>1. SUFFICES /\ ListsTyped' /\ Once'
                 /\ \A id : Waits(id)' => Waits(id)
                 /\ \A id : Waits(id) => Waits(id)' \/ id \in finished
    BY DEF CleanupInv, Accounted
  <1>2. d.call \in {"RECOVER", "CLEANUP", "CLAIM", "ACK", "NACK"}
    BY DEF Sound, Drains, Calls, OnRedis
  <1>3. CASE d.call = "RECOVER"
    <2>1. RECOVER_CLEANUP
      BY <1>3 DEF Executes
    <2> QED BY <1>0, <2>1, RecoverMoves
  <1>4. CASE d.call = "CLEANUP"
    <2>1. CLEANUP
      BY <1>4 DEF Executes
    <2> QED BY <1>0, <2>1, CleanupMoves
  <1>5. CASE d.call = "CLAIM"
    <2>1. CLAIM_CLEANUP
      BY <1>5 DEF Executes
    <2> QED BY <1>0, <2>1, ClaimMoves
  <1>6. CASE d.call = "ACK"
    <2>1. ACK_CLEANUP(d.claim) /\ d.claim \in Claims /\ d.claim.id \in finished
      BY <1>6 DEF Executes, Sound
    <2>2. /\ ListsTyped' /\ Once' /\ \A id : Waits(id)' => Waits(id)
          /\ \A id : Waits(id) => Waits(id)' \/ id = d.claim.id
      BY <1>0, <2>1, AckRemoves
    <2> QED BY <2>1, <2>2
  <1>7. CASE d.call = "NACK"
    <2>1. NACK_CLEANUP(d.claim) /\ d.claim \in Claims
      BY <1>7 DEF Executes, Sound
    <2> QED BY <1>0, <2>1, NackMoves
  <1> QED BY <1>2, <1>3, <1>4, <1>5, <1>6, <1>7
\* The fields of a drain that sends a call.
LEMMA SendsFields ==
  ASSUME NEW d \in Drains, NEW c \in Calls
  PROVE  /\ Sends(d, c) \in Drains /\ Sends(d, c).call = c /\ Sends(d, c).claim = d.claim
         /\ Sends(d, c).node = d.node /\ Sends(d, c).epoch = d.epoch
         /\ Sends(d, c).count = d.count
  BY DEF Sends, Drains

NodesTyped ==
  /\ running \in [Nodes -> BOOLEAN] /\ safe \in [Nodes -> BOOLEAN]
  /\ election \in [Nodes -> BOOLEAN] /\ leading \in [Nodes -> BOOLEAN]
  /\ again \in [Nodes -> BOOLEAN] /\ epoch \in [Nodes -> Nat]

\* The parts of the invariant make up the whole, after a step.
LEMMA Assembled ==
  ASSUME ListsTyped', NodesTyped', DrainsSound', LateSound', Once', Accounted',
         died' \in SUBSET Ids, finished' \in SUBSET Ids, faults' \in Nat
  PROVE  CleanupInv'
  <1>1. drains' \in SUBSET Drains /\ late' \in SUBSET Drains
    BY DEF DrainsSound, LateSound, Sound
  <1> QED BY <1>1 DEF ListsTyped, NodesTyped, TypeOK, CleanupInv

\* And it has these parts.
LEMMA Parts ==
  ASSUME CleanupInv
  PROVE  /\ ListsTyped /\ NodesTyped /\ DrainsSound /\ LateSound /\ Once /\ Accounted
         /\ died \in SUBSET Ids /\ finished \in SUBSET Ids /\ faults \in Nat
  BY DEF ListsTyped, NodesTyped, TypeOK, CleanupInv

\* Steps that do not touch Redis keep what is said of its lists.
LEMMA ListsKept ==
  ASSUME CleanupInv, UNCHANGED <<redisVars, died>>, finished \in SUBSET finished'
  PROVE  ListsTyped' /\ Once' /\ Accounted'
  <1>1. expired' = expired /\ cleanup' = cleanup /\ processing' = processing /\ died' = died
    BY DEF redisVars
  <1>2. Held' = Held
    BY <1>1 DEF Held, IdsOf
  <1>3. \A id : Waits(id)' <=> Waits(id)
    BY <1>1, <1>2 DEF Waits
  <1> QED BY <1>1, <1>2, <1>3 DEF CleanupInv, TypeOK, ListsTyped, Once, Accounted

\* A callback that finishes makes no caller unsound.
LEMMA SoundKept ==
  ASSUME NEW d, NEW A, NEW B, Sound(d, A), A \in SUBSET B
  PROVE  Sound(d, B)
  BY DEF Sound

\* Late drains that stay, or end, leave the set sound while finished ids only grow.
LEMMA LateKept ==
  ASSUME CleanupInv, late' \in SUBSET late, finished \in SUBSET finished'
  PROVE  LateSound'
  <1>1. IsFiniteSet(late')
    BY FS_Subset DEF CleanupInv, LateSound
  <1>2. ASSUME NEW d \in late' PROVE Sound(d, finished') /\ OnRedis(d)
    BY SoundKept DEF CleanupInv, LateSound
  <1> QED BY <1>1, <1>2 DEF LateSound, OnRedis

\* A drain goes on, or ends because it has lost its authority.
LEMMA GoesOn ==
  ASSUME CleanupAssumption, CleanupInv, NEW d \in drains, NEW e, Sound(e, finished'),
         e.node = d.node, e.epoch = d.epoch, finished \in SUBSET finished', Proceeds(d, e)
  PROVE  DrainsSound' /\ again' = again
  <1>1. CASE canContinue(d)
    <2>1. drains' = (drains \ {d}) \cup {e} /\ again' = again
      BY <1>1 DEF Proceeds
    <2>2. Retained(drains')
      BY <2>1, RetainedReplaced DEF CleanupInv, DrainsSound
    <2>3. \A f \in drains' : Sound(f, finished')
      BY <2>1, SoundKept DEF CleanupInv, DrainsSound
    <2> QED BY <2>1, <2>2, <2>3 DEF DrainsSound, Retained, At
  <1>2. CASE ~canContinue(d)
    <2>1. drains' = drains \ {d} /\ again' = again
      BY <1>2 DEF Proceeds
    <2>2. Retained(drains')
      BY <2>1, RetainedLess DEF CleanupInv, DrainsSound
    <2>3. \A f \in drains' : Sound(f, finished')
      BY <2>1, SoundKept DEF CleanupInv, DrainsSound
    <2> QED BY <2>1, <2>2, <2>3 DEF DrainsSound, Retained, At
  <1> QED BY <1>1, <1>2

\* A drain ends.
LEMMA EndsWell ==
  ASSUME CleanupAssumption, CleanupInv, NEW d \in drains, NEW more, Ends(d, more), finished' = finished
  PROVE  DrainsSound' /\ again' \in [Nodes -> BOOLEAN]
  <1>1. drains' = drains \ {d}
    BY DEF Ends
  <1>2. Retained(drains')
    BY <1>1, RetainedLess DEF CleanupInv, DrainsSound
  <1>3. DrainsSound'
    BY <1>1, <1>2 DEF CleanupInv, DrainsSound, Retained, At
  <1>4. again \in [Nodes -> BOOLEAN]
    BY Parts DEF NodesTyped
  <1>5. again' \in [Nodes -> BOOLEAN]
    BY <1>4 DEF Ends
  <1> QED BY <1>3, <1>5

\* startCleanup() of a node, which may also give up its leadership.
LEMMA Starts ==
  ASSUME CleanupAssumption, CleanupInv, NEW n \in Nodes, NEW e \in Nat, startCleanup(n, e),
         finished' = finished
  PROVE  /\ DrainsSound' /\ running' \in [Nodes -> BOOLEAN] /\ election' \in [Nodes -> BOOLEAN]
         /\ leading' \in [Nodes -> BOOLEAN] /\ epoch' \in [Nodes -> Nat]
  <1> DEFINE new == doCleanup(n, e)
             full == /\ \A d \in DrainsOf(n) : d.epoch # e
                     /\ Cardinality(DrainsOf(n)) >= MaxDrains
  <1>0. NodesTyped
    BY Parts
  <1>1. full \in BOOLEAN
    OBVIOUS
  <1>2. /\ running' = [running EXCEPT ![n] = @ /\ ~full]
        /\ election' = [election EXCEPT ![n] = @ /\ ~full]
        /\ leading' = [leading EXCEPT ![n] = ~full]
        /\ epoch' = [epoch EXCEPT ![n] = IF full THEN e + 1 ELSE e]
        /\ drains' = IF full \/ ~safe[n] \/ \E d \in DrainsOf(n) : d.epoch = e
                     THEN drains ELSE drains \cup {new}
    BY DEF startCleanup
  <1> HIDE DEF full
  <1>3. /\ running' \in [Nodes -> BOOLEAN] /\ election' \in [Nodes -> BOOLEAN]
        /\ leading' \in [Nodes -> BOOLEAN]
    <2>1. /\ running' = [running EXCEPT ![n] = running[n] /\ ~full]
          /\ election' = [election EXCEPT ![n] = election[n] /\ ~full]
      BY <1>2
    <2>2. \A f \in [Nodes -> BOOLEAN], b \in BOOLEAN : [f EXCEPT ![n] = b] \in [Nodes -> BOOLEAN]
      OBVIOUS
    <2>3. (running[n] /\ ~full) \in BOOLEAN /\ (election[n] /\ ~full) \in BOOLEAN /\ (~full) \in BOOLEAN
      OBVIOUS
    <2> QED BY <1>0, <1>2, <2>1, <2>2, <2>3, Zenon DEF NodesTyped
  <1>4. epoch' \in [Nodes -> Nat]
    BY <1>0, <1>2 DEF NodesTyped
  <1>5. ASSUME drains' = drains PROVE DrainsSound'
    BY <1>5 DEF CleanupInv, DrainsSound, Retained, At
  <1>6. ASSUME drains' # drains PROVE DrainsSound'
    <2>1. drains' = drains \cup {new} /\ ~full /\ \A d \in DrainsOf(n) : d.epoch # e
      BY <1>2, <1>6
    <2>2. ~(Cardinality(DrainsOf(n)) >= MaxDrains)
      BY <2>1 DEF full
    <2>3. /\ new \in Drains /\ new.node = n /\ new.epoch = e /\ new.call = "RECOVER"
      BY DEF doCleanup, Drains, Calls
    <2>4. DrainsOf(n) = At(drains, n)
      BY DEF DrainsOf, At
    <2> HIDE DEF new
    <2>5. Retained(drains')
      BY <2>1, <2>2, <2>3, <2>4, RetainedMore DEF CleanupInv, DrainsSound
    <2>6. \A d \in drains' : Sound(d, finished')
      BY <2>1, <2>3 DEF CleanupInv, DrainsSound, Sound
    <2> QED BY <2>5, <2>6 DEF DrainsSound, Retained, At
  <1> QED BY <1>3, <1>4, <1>5, <1>6
\* A node's part of the type invariant, when one of its switches is set.
LEMMA SwitchTyped ==
  ASSUME NEW f \in [Nodes -> BOOLEAN], NEW n \in Nodes, NEW b \in BOOLEAN
  PROVE  [f EXCEPT ![n] = b] \in [Nodes -> BOOLEAN]
  OBVIOUS

\* Commands that their sender leaves on the wire are as sound as it was.
LEMMA LateMore ==
  ASSUME CleanupInv, NEW D \in SUBSET drains, \A d \in D : OnRedis(d),
         late' = late \cup D, finished' = finished
  PROVE  LateSound'
  <1>1. IsFiniteSet(drains) /\ IsFiniteSet(late)
    BY DEF CleanupInv, DrainsSound, Retained, LateSound
  <1>2. IsFiniteSet(D)
    BY <1>1, FS_Subset
  <1>3. IsFiniteSet(late')
    BY <1>1, <1>2, FS_Union
  <1>4. ASSUME NEW d \in late' PROVE Sound(d, finished') /\ OnRedis(d)
    BY DEF CleanupInv, DrainsSound, LateSound
  <1> QED BY <1>3, <1>4 DEF LateSound, OnRedis

\* Drains that die with their process.
LEMMA DrainsLess ==
  ASSUME CleanupAssumption, CleanupInv, drains' \in SUBSET drains, finished' = finished
  PROVE  DrainsSound'
  <1>1. Retained(drains')
    BY RetainedLess DEF CleanupInv, DrainsSound
  <1> QED BY <1>1 DEF CleanupInv, DrainsSound, Retained, At

\* What happens to a node keeps the invariant.
LEMMA AuthorityStep ==
  ASSUME CleanupAssumption, CleanupInv, NEW n \in Nodes, Authority(n)
  PROVE  CleanupInv'
  <1>0. /\ NodesTyped /\ died \in SUBSET Ids /\ finished \in SUBSET Ids /\ faults \in Nat
    BY Parts
  <1>1. UNCHANGED <<redisVars, died, finished>> /\ faults' \in Nat
    <2>1. UNCHANGED <<redisVars, died, finished>>
      BY DEF Authority, start, stopImpl, fenceLeaseLoss, LeaseDoubted, LeaseExtended, BecameLeader,
             LostLeader, HeartbeatCleanup, ContinuationFires, Crash
    <2>2. faults' \in {faults, faults + 1}
      BY DEF Authority, start, stopImpl, fenceLeaseLoss, LeaseDoubted, LeaseExtended, BecameLeader,
             LostLeader, HeartbeatCleanup, ContinuationFires, Crash
    <2> QED BY <1>0, <2>1, <2>2
  <1>2. ListsTyped' /\ Once' /\ Accounted'
    BY <1>1, ListsKept
  <1>3. died' \in SUBSET Ids /\ finished' \in SUBSET Ids /\ finished' = finished
    BY <1>0, <1>1
  <1>4. SUFFICES NodesTyped' /\ DrainsSound' /\ LateSound'
    <2>1. /\ ListsTyped' /\ Once' /\ Accounted' /\ died' \in SUBSET Ids
          /\ finished' \in SUBSET Ids /\ faults' \in Nat
      BY <1>1, <1>2, <1>3
    <2> QED BY <2>1, Assembled
  <1>5. ASSUME UNCHANGED <<drains, late>> PROVE DrainsSound' /\ LateSound'
    BY <1>3, <1>5, DrainsLess, LateKept
  <1>6. CASE start(n)
    <2>1. NodesTyped'
      BY <1>0, <1>6 DEF start, NodesTyped
    <2> QED BY <1>5, <1>6, <2>1 DEF start
  <1>7. CASE stopImpl(n)
    <2>1. NodesTyped'
      BY <1>0, <1>7 DEF stopImpl, NodesTyped
    <2> QED BY <1>5, <1>7, <2>1 DEF stopImpl
  <1>8. CASE fenceLeaseLoss(n)
    <2>1. NodesTyped'
      BY <1>0, <1>8 DEF fenceLeaseLoss, NodesTyped
    <2> QED BY <1>5, <1>8, <2>1 DEF fenceLeaseLoss
  <1>9. CASE LeaseDoubted(n)
    <2>1. NodesTyped'
      BY <1>0, <1>9 DEF LeaseDoubted, NodesTyped
    <2> QED BY <1>5, <1>9, <2>1 DEF LeaseDoubted
  <1>10. CASE LeaseExtended(n)
    <2>1. NodesTyped'
      BY <1>0, <1>10 DEF LeaseExtended, NodesTyped
    <2> QED BY <1>5, <1>10, <2>1 DEF LeaseExtended
  <1>11. CASE BecameLeader(n)
    <2>1. late' = late /\ UNCHANGED <<safe, again>>
      BY <1>11 DEF BecameLeader
    <2>2. LateSound'
      BY <1>3, <2>1, LateKept
    <2>3. CASE running[n]
      <3>1. startCleanup(n, epoch[n] + 1) /\ epoch[n] + 1 \in Nat
        BY <1>0, <1>11, <2>3 DEF BecameLeader, NodesTyped
      <3>2. /\ DrainsSound' /\ running' \in [Nodes -> BOOLEAN] /\ election' \in [Nodes -> BOOLEAN]
            /\ leading' \in [Nodes -> BOOLEAN] /\ epoch' \in [Nodes -> Nat]
        BY <1>3, <3>1, Starts
      <3> QED BY <1>0, <2>1, <2>2, <3>2 DEF NodesTyped
    <2>4. CASE ~running[n]
      <3>1. /\ leading' = [leading EXCEPT ![n] = TRUE] /\ epoch' = [epoch EXCEPT ![n] = @ + 1]
            /\ UNCHANGED <<running, election, drains>>
        BY <1>11, <2>4 DEF BecameLeader
      <3>2. NodesTyped'
        BY <1>0, <2>1, <3>1 DEF NodesTyped
      <3> QED BY <1>5, <2>1, <3>1, <3>2
    <2> QED BY <2>3, <2>4
  <1>12. CASE LostLeader(n)
    <2>1. NodesTyped'
      BY <1>0, <1>12 DEF LostLeader, NodesTyped
    <2> QED BY <1>5, <1>12, <2>1 DEF LostLeader
  <1>13. CASE HeartbeatCleanup(n)
    <2>1. startCleanup(n, epoch[n]) /\ epoch[n] \in Nat /\ late' = late /\ UNCHANGED <<safe, again>>
      BY <1>0, <1>13 DEF HeartbeatCleanup, NodesTyped
    <2>2. /\ DrainsSound' /\ running' \in [Nodes -> BOOLEAN] /\ election' \in [Nodes -> BOOLEAN]
          /\ leading' \in [Nodes -> BOOLEAN] /\ epoch' \in [Nodes -> Nat]
      BY <1>3, <2>1, Starts
    <2>3. LateSound'
      BY <1>3, <2>1, LateKept
    <2> QED BY <1>0, <2>1, <2>2, <2>3 DEF NodesTyped
  <1>14. CASE ContinuationFires(n)
    <2>1. /\ late' = late /\ UNCHANGED safe /\ again' = [again EXCEPT ![n] = FALSE]
          /\ again' \in [Nodes -> BOOLEAN]
      BY <1>0, <1>14 DEF ContinuationFires, NodesTyped
    <2>2. LateSound'
      BY <1>3, <2>1, LateKept
    <2>3. CASE running[n] /\ leading[n]
      <3>1. startCleanup(n, epoch[n]) /\ epoch[n] \in Nat
        BY <1>0, <1>14, <2>3 DEF ContinuationFires, NodesTyped
      <3>2. /\ DrainsSound' /\ running' \in [Nodes -> BOOLEAN] /\ election' \in [Nodes -> BOOLEAN]
            /\ leading' \in [Nodes -> BOOLEAN] /\ epoch' \in [Nodes -> Nat]
        BY <1>3, <3>1, Starts
      <3> QED BY <1>0, <2>1, <2>2, <3>2 DEF NodesTyped
    <2>4. CASE ~(running[n] /\ leading[n])
      <3>1. UNCHANGED <<running, election, leading, epoch, drains>>
        BY <1>14, <2>4 DEF ContinuationFires
      <3>2. NodesTyped'
        BY <1>0, <2>1, <3>1 DEF NodesTyped
      <3> QED BY <1>5, <2>1, <3>1, <3>2
    <2> QED BY <2>3, <2>4
  <1>15. CASE Crash(n)
    <2> DEFINE D == {d \in DrainsOf(n) : d.stage = "sent" /\ OnRedis(d)}
    <2>1. NodesTyped'
      BY <1>0, <1>15 DEF Crash, NodesTyped
    <2>2. drains' \in SUBSET drains
      BY <1>15 DEF Crash
    <2>3. late' = late \cup D /\ D \in SUBSET drains /\ \A d \in D : OnRedis(d)
      BY <1>15 DEF Crash, DrainsOf
    <2> HIDE DEF D
    <2>4. LateSound'
      BY <1>3, <2>3, LateMore
    <2> QED BY <1>3, <2>1, <2>2, <2>4, DrainsLess
  <1> QED BY <1>6, <1>7, <1>8, <1>9, <1>10, <1>11, <1>12, <1>13, <1>14, <1>15 DEF Authority
\* The steps of a drain keep the invariant.
LEMMA DrainKeeps ==
  ASSUME CleanupAssumption, CleanupInv, NEW d \in drains, DrainStep(d)
  PROVE  CleanupInv'
  <1>0. /\ NodesTyped /\ died \in SUBSET Ids /\ finished \in SUBSET Ids /\ faults \in Nat
        /\ Sound(d, finished) /\ d \in Drains /\ d.claim \in Claims \cup {NoClaim}
    BY Parts DEF DrainsSound, Sound, Drains
  <1>1. /\ UNCHANGED <<redisVars, died, running, safe, election, leading, epoch, late>>
        /\ finished' \in {finished, finished \cup {d.claim.id}}
        /\ d.call # "callback" => finished' = finished
        /\ faults' \in {faults, faults + 1}
    BY DEF DrainStep, RecoverAnswered, CleanupAnswered, ClaimAnswered, CallbackResolves,
           CallbackRejects, AckAnswered, NackAnswered, CallFailed, DrainUnchanged, Answered
  <1>2. finished' \in SUBSET Ids /\ finished \in SUBSET finished' /\ faults' \in Nat
        /\ died' \in SUBSET Ids
    <2>1. d.call = "callback" => d.claim.id \in Ids
      BY <1>0 DEF Sound, Claims
    <2> QED BY <1>0, <1>1, <2>1
  <1>3. ListsTyped' /\ Once' /\ Accounted' /\ LateSound'
    BY <1>1, <1>2, ListsKept, LateKept
  <1>4. SUFFICES DrainsSound' /\ again' \in [Nodes -> BOOLEAN]
    <2>1. NodesTyped'
      BY <1>0, <1>1, <1>4 DEF NodesTyped
    <2> QED BY <1>2, <1>3, <1>4, <2>1, Assembled
  <1>5. again \in [Nodes -> BOOLEAN]
    BY <1>0 DEF NodesTyped
  <1>6. ASSUME NEW c \in Calls, Proceeds(d, Sends(d, c)), Sound(Sends(d, c), finished')
        PROVE  DrainsSound' /\ again' \in [Nodes -> BOOLEAN]
    <2>1. Sends(d, c).node = d.node /\ Sends(d, c).epoch = d.epoch
      BY <1>0, SendsFields
    <2> QED BY <1>2, <1>5, <1>6, <2>1, GoesOn
  <1>7. ASSUME NEW more, Ends(d, more), finished' = finished
        PROVE  DrainsSound' /\ again' \in [Nodes -> BOOLEAN]
    BY <1>7, EndsWell
  <1>8. ASSUME NEW c \in Calls, c \in {"CLEANUP", "CLAIM"} PROVE Sound(Sends(d, c), finished')
    <2>1. Sends(d, c) \in Drains /\ Sends(d, c).call = c
      BY <1>0, SendsFields
    <2> QED BY <1>8, <2>1 DEF Sound
  <1>9. ASSUME NEW c \in {"callback", "NACK"}, d.claim \in Claims PROVE Sound(Sends(d, c), finished')
    <2>0. c \in Calls
      BY DEF Calls
    <2>1. Sends(d, c) \in Drains /\ Sends(d, c).call = c /\ Sends(d, c).claim = d.claim
      BY <1>0, <2>0, SendsFields
    <2> QED BY <1>9, <2>1 DEF Sound
  <1>10. {"CLEANUP", "CLAIM", "callback", "ACK", "NACK"} \subseteq Calls
    BY DEF Calls
  <1>11. CASE RecoverAnswered(d)
    <2>1. Proceeds(d, Sends(d, "CLEANUP"))
      BY <1>11 DEF RecoverAnswered
    <2> QED BY <1>6, <1>8, <1>10, <2>1
  <1>12. CASE CleanupAnswered(d)
    <2>1. Proceeds(d, Sends(d, "CLAIM"))
      BY <1>12 DEF CleanupAnswered
    <2> QED BY <1>6, <1>8, <1>10, <2>1
  <1>13. CASE ClaimAnswered(d)
    <2>0. finished' = finished
      BY <1>1, <1>13 DEF ClaimAnswered, Answered
    <2>1. CASE d.claim = NoClaim /\ canContinue(d)
      <3>1. Ends(d, d.more)
        BY <1>13, <2>1 DEF ClaimAnswered
      <3> QED BY <1>7, <2>0, <3>1
    <2>2. CASE d.claim # NoClaim
      <3>1. Proceeds(d, Sends(d, "callback")) /\ d.claim \in Claims
        BY <1>0, <1>13, <2>2 DEF ClaimAnswered
      <3> QED BY <1>6, <1>9, <1>10, <3>1
    <2>3. CASE ~canContinue(d)
      <3>1. Proceeds(d, Sends(d, "callback"))
        BY <1>13, <2>3 DEF ClaimAnswered
      <3>2. drains' = drains \ {d} /\ again' = again
        BY <2>3, <3>1 DEF Proceeds
      <3> QED BY <1>5, <2>0, <3>2, DrainsLess
    <2> QED BY <2>1, <2>2, <2>3
  <1>14. CASE CallbackResolves(d)
    <2>1. /\ Proceeds(d, Sends(d, "ACK")) /\ finished' = finished \cup {d.claim.id}
          /\ d.call = "callback" /\ d.claim \in Claims
      BY <1>0, <1>14 DEF CallbackResolves, Sound
    <2>2. /\ Sends(d, "ACK") \in Drains /\ Sends(d, "ACK").call = "ACK"
          /\ Sends(d, "ACK").claim = d.claim
      BY <1>0, <1>10, SendsFields
    <2>3. Sound(Sends(d, "ACK"), finished')
      BY <2>1, <2>2 DEF Sound
    <2> QED BY <1>6, <1>10, <2>1, <2>3
  <1>15. CASE CallbackRejects(d)
    <2>1. Proceeds(d, Sends(d, "NACK")) /\ d.claim \in Claims
      BY <1>0, <1>15 DEF CallbackRejects, Sound
    <2> QED BY <1>6, <1>9, <1>10, <2>1
  <1>16. CASE AckAnswered(d)
    <2>0. finished' = finished
      BY <1>1, <1>16 DEF AckAnswered, Answered
    <2>1. CASE d.count + 1 = BatchSize /\ canContinue(d)
      <3>1. Ends(d, TRUE)
        BY <1>16, <2>1 DEF AckAnswered
      <3> QED BY <1>7, <2>0, <3>1
    <2>2. CASE ~(d.count + 1 = BatchSize /\ canContinue(d))
      <3> DEFINE e == [Sends(d, "CLAIM") EXCEPT !.count = @ + 1, !.claim = NoClaim]
      <3>1. Proceeds(d, e)
        BY <1>16, <2>2 DEF AckAnswered
      <3>2. e \in Drains /\ e.node = d.node /\ e.epoch = d.epoch /\ e.call = "CLAIM"
        <4> DEFINE f == Sends(d, "CLAIM")
        <4>1. f \in Drains /\ f.call = "CLAIM" /\ f.node = d.node /\ f.epoch = d.epoch
          BY <1>0, <1>10, SendsFields
        <4> HIDE DEF f
        <4> DEFINE c == f.count + 1
        <4>2. c \in Nat /\ NoClaim \in Claims \cup {NoClaim}
          BY <4>1 DEF Drains
        <4>3. e = [f EXCEPT !.count = c, !.claim = NoClaim]
          BY DEF f
        <4> HIDE DEF e, c
        <4>4. e \in Drains
          BY <4>1, <4>2, <4>3 DEF Drains
        <4>5. e.node = f.node /\ e.epoch = f.epoch /\ e.call = f.call
          BY <4>1, <4>3 DEF Drains
        <4> QED BY <4>1, <4>4, <4>5
      <3> HIDE DEF e
      <3>3. Sound(e, finished')
        BY <3>2 DEF Sound
      <3> QED BY <1>2, <1>5, <3>1, <3>2, <3>3, GoesOn
    <2> QED BY <2>1, <2>2
  <1>17. CASE NackAnswered(d)
    <2>1. Ends(d, d.more) /\ finished' = finished
      BY <1>1, <1>17 DEF NackAnswered, Answered
    <2> QED BY <1>7, <2>1
  <1>18. CASE CallFailed(d)
    <2>1. CASE d.call = "ACK"
      <3>1. Proceeds(d, Sends(d, "NACK")) /\ d.claim \in Claims
        BY <1>0, <1>18, <2>1 DEF CallFailed, Sound
      <3> QED BY <1>6, <1>9, <1>10, <3>1
    <2>2. CASE d.call # "ACK"
      <3>1. Ends(d, d.more) /\ finished' = finished
        BY <1>18, <2>2 DEF CallFailed, DrainUnchanged
      <3> QED BY <1>7, <3>1
    <2> QED BY <2>1, <2>2
  <1> QED BY <1>11, <1>12, <1>13, <1>14, <1>15, <1>16, <1>17, <1>18 DEF DrainStep

\* Redis executes the call of a drain.
LEMMA RedisKeeps ==
  ASSUME CleanupAssumption, CleanupInv, NEW d \in drains, RedisExecutes(d)
  PROVE  CleanupInv'
  <1> DEFINE e == WithAnswer(d)
  <1>0. /\ NodesTyped /\ died \in SUBSET Ids /\ finished \in SUBSET Ids /\ faults \in Nat
        /\ Sound(d, finished) /\ d \in Drains /\ ListsTyped
        /\ IsFiniteSet(drains) /\ IsFiniteSet(late)
    BY Parts DEF DrainsSound, LateSound, Sound, Retained
  <1>1. /\ UNCHANGED <<nodeVars, died, late, finished, faults>> /\ Executes(d) /\ OnRedis(d)
        /\ drains' = (drains \ {d}) \cup {e}
    BY DEF RedisExecutes
  <1>2. ListsTyped' /\ Once' /\ Accounted'
    BY <1>0, <1>1, ScriptIsSound
  <1>3. NodesTyped'
    BY <1>0, <1>1 DEF NodesTyped, nodeVars
  <1>4. LateSound'
    BY <1>1, LateKept
  <1>5. (IF d.call = "CLAIM" THEN NextClaim ELSE d.claim) \in Claims \cup {NoClaim}
    <2>1. CASE d.call = "CLAIM" /\ cleanup # <<>>
      BY <1>0, <2>1, NextClaimType
    <2>2. CASE d.call = "CLAIM" /\ cleanup = <<>>
      BY <2>2 DEF NextClaim
    <2>3. CASE d.call # "CLAIM"
      BY <1>0, <2>3 DEF Drains
    <2> QED BY <2>1, <2>2, <2>3
  <1>6. /\ e \in Drains /\ e.node = d.node /\ e.epoch = d.epoch /\ e.call = d.call
        /\ d.call # "CLAIM" => e.claim = d.claim
    <2> DEFINE c == IF d.call = "CLAIM" THEN NextClaim ELSE d.claim
               m == \/ d.more
                    \/ d.call = "RECOVER" /\ Len(processing) >= BatchSize
                    \/ d.call = "CLEANUP" /\ Len(expired) >= BatchSize
    <2>1. e = [d EXCEPT !.stage = "answered", !.claim = c, !.more = m]
      BY DEF WithAnswer
    <2>2. m \in BOOLEAN
      OBVIOUS
    <2>3. c \in Claims \cup {NoClaim} /\ (d.call # "CLAIM" => c = d.claim)
      BY <1>5
    <2> HIDE DEF c, m, e
    <2> QED BY <1>0, <2>1, <2>2, <2>3 DEF Drains
  <1> HIDE DEF e
  <1>7. Sound(e, finished)
    BY <1>0, <1>6 DEF Sound
  <1>8. DrainsSound'
    <2>1. Retained(drains')
      BY <1>1, <1>6, RetainedReplaced DEF CleanupInv, DrainsSound
    <2>2. \A f \in drains' : Sound(f, finished')
      BY <1>1, <1>7 DEF CleanupInv, DrainsSound
    <2> QED BY <2>1, <2>2 DEF DrainsSound, Retained, At
  <1> QED BY <1>0, <1>1, <1>2, <1>3, <1>4, <1>8, Assembled

\* A call of a drain rejects.
LEMMA RejectKeeps ==
  ASSUME CleanupAssumption, CleanupInv, NEW d \in drains, CallRejects(d)
  PROVE  CleanupInv'
  <1> DEFINE e == [d EXCEPT !.stage = "failed"]
  <1>0. /\ NodesTyped /\ died \in SUBSET Ids /\ finished \in SUBSET Ids /\ faults \in Nat
        /\ Sound(d, finished) /\ d \in Drains
    BY Parts DEF DrainsSound, Sound
  <1>1. /\ UNCHANGED <<redisVars, nodeVars, died, finished>> /\ faults' = faults + 1
        /\ drains' = (drains \ {d}) \cup {e} /\ OnRedis(d)
        /\ late' = late \/ late' = late \cup {d}
    BY DEF CallRejects
  <1>2. ListsTyped' /\ Once' /\ Accounted'
    BY <1>1, ListsKept
  <1>3. NodesTyped' /\ faults' \in Nat
    BY <1>0, <1>1 DEF NodesTyped, nodeVars
  <1>4. LateSound'
    <2>1. CASE late' = late
      BY <1>1, <2>1, LateKept
    <2>2. CASE late' = late \cup {d}
      <3>1. {d} \in SUBSET drains /\ \A f \in {d} : OnRedis(f)
        BY <1>1
      <3> QED BY <1>1, <2>2, <3>1, LateMore
    <2> QED BY <1>1, <2>1, <2>2
  <1>5. /\ e \in Drains /\ e.node = d.node /\ e.epoch = d.epoch /\ e.call = d.call
        /\ e.claim = d.claim
    BY <1>0 DEF Drains
  <1> HIDE DEF e
  <1>6. Sound(e, finished)
    BY <1>0, <1>5 DEF Sound
  <1>7. DrainsSound'
    <2>1. Retained(drains')
      BY <1>1, <1>5, RetainedReplaced DEF CleanupInv, DrainsSound
    <2>2. \A f \in drains' : Sound(f, finished')
      BY <1>1, <1>6 DEF CleanupInv, DrainsSound
    <2> QED BY <2>1, <2>2 DEF DrainsSound, Retained, At
  <1> QED BY <1>0, <1>1, <1>2, <1>3, <1>4, <1>7, Assembled
\* A command on the wire reaches Redis after all, or never does.
LEMMA LateStep ==
  ASSUME CleanupAssumption, CleanupInv, NEW d \in late, LateExecutes(d) \/ LateVanishes(d)
  PROVE  CleanupInv'
  <1>0. /\ NodesTyped /\ died \in SUBSET Ids /\ finished \in SUBSET Ids /\ faults \in Nat
        /\ Sound(d, finished) /\ OnRedis(d)
    BY Parts DEF LateSound
  <1>1. /\ UNCHANGED <<nodeVars, died, drains, finished, faults>>
        /\ late' = late \ {d}
    BY DEF LateExecutes, LateVanishes
  <1>2. ListsTyped' /\ Once' /\ Accounted'
    <2>1. CASE LateExecutes(d)
      <3>1. Executes(d)
        BY <2>1 DEF LateExecutes
      <3> QED BY <1>0, <1>1, <3>1, ScriptIsSound
    <2>2. CASE LateVanishes(d)
      <3>1. UNCHANGED redisVars
        BY <2>2 DEF LateVanishes
      <3> QED BY <1>1, <3>1, ListsKept
    <2> QED BY <2>1, <2>2
  <1>3. NodesTyped'
    BY <1>0, <1>1 DEF NodesTyped, nodeVars
  <1>4. DrainsSound' /\ LateSound'
    BY <1>1, DrainsLess, LateKept
  <1> QED BY <1>0, <1>1, <1>2, <1>3, <1>4, Assembled

\* A member expires: its obligation is new, for no id expires twice.
LEMMA ExpiryStep ==
  ASSUME CleanupAssumption, CleanupInv, NEW id \in Ids, NodeExpires(id)
  PROVE  CleanupInv'
  <1> DEFINE one == <<id>>
  <1>0. /\ ListsTyped /\ NodesTyped /\ Once /\ Accounted
        /\ died \in SUBSET Ids /\ finished \in SUBSET Ids /\ faults \in Nat
    BY Parts
  <1>1. /\ UNCHANGED <<cleanup, processing, nodeVars, drains, late, finished, faults>>
        /\ died' = died \cup {id} /\ id \notin died
    BY DEF NodeExpires
  <1>2. expired \in Seq(Ids) /\ expired' = expired \o one
    BY <1>0 DEF NodeExpires, ListsTyped
  <1>3. one \in Seq(Ids) /\ Distinct(one) /\ \A x : x \in Elements(one) <=> x = id
    <2>1. one \in Seq(Ids) /\ Len(one) = 1 /\ one[1] = id
      OBVIOUS
    <2> HIDE DEF one
    <2> QED BY <2>1, SingleList
  <1> HIDE DEF one
  <1>4. ~Waits(id)
    BY <1>0, <1>1 DEF Accounted
  <1>5. /\ expired' \in Seq(Ids) /\ Distinct(expired')
        /\ \A x : x \in Elements(expired') <=> x \in Elements(expired) \/ x = id
    <2>1. Distinct(expired) /\ \A x : ~(x \in Elements(expired) /\ x \in Elements(one))
      BY <1>0, <1>3, <1>4 DEF Once, Waits
    <2> QED BY <1>2, <1>3, <2>1, ConcatLists
  <1>6. Held' = Held
    BY <1>1 DEF Held, IdsOf
  <1>7. ListsTyped'
    BY <1>0, <1>1, <1>5 DEF ListsTyped
  <1>8. Once'
    BY <1>0, <1>1, <1>4, <1>5, <1>6 DEF Once, Waits
  <1>9. Accounted'
    <2>1. \A x : Waits(x)' <=> Waits(x) \/ x = id
      BY <1>1, <1>5, <1>6 DEF Waits
    <2> QED BY <1>0, <1>1, <2>1 DEF Accounted
  <1>10. NodesTyped' /\ died' \in SUBSET Ids
    BY <1>0, <1>1 DEF NodesTyped, nodeVars
  <1>11. DrainsSound' /\ LateSound'
    BY <1>1, DrainsLess, LateKept
  <1> QED BY <1>0, <1>1, <1>7, <1>8, <1>9, <1>10, <1>11, Assembled

\* The invariant holds at first: no obligation, no drain.
LEMMA CleanupStarts ==
  ASSUME CleanupAssumption, Init
  PROVE  CleanupInv
  <1>1. TypeOK
    BY DEF Init, TypeOK
  <1>2. \A k \in 1..0 : FALSE
    OBVIOUS
  <1>3. Elements(<<>>) = {} /\ Distinct(<<>>) /\ IdsOf(<<>>) = <<>>
    <2>1. Len(<<>>) = 0
      OBVIOUS
    <2> QED BY <1>2, <2>1 DEF Elements, Distinct, IdsOf
  <1>4. expired = <<>> /\ cleanup = <<>> /\ Held = <<>>
    BY <1>3 DEF Init, Held
  <1>5. Once /\ Accounted
    BY <1>3, <1>4 DEF Init, Once, Accounted, Waits
  <1>6. DrainsSound /\ LateSound
    <2>1. \A n : At({}, n) = {}
      BY DEF At
    <2>2. Retained({})
      BY <2>1, FS_EmptySet DEF Retained, CleanupAssumption
    <2> QED BY <2>2, FS_EmptySet DEF Init, DrainsSound, LateSound
  <1> QED BY <1>1, <1>5, <1>6 DEF CleanupInv

\* Every step keeps it.
LEMMA CleanupStep ==
  ASSUME CleanupAssumption, CleanupInv, [Next]_vars
  PROVE  CleanupInv'
  <1>1. ASSUME NEW n \in Nodes, Authority(n) PROVE CleanupInv'
    BY <1>1, AuthorityStep
  <1>2. ASSUME NEW d \in drains, DrainStep(d) \/ RedisExecutes(d) \/ CallRejects(d)
        PROVE  CleanupInv'
    BY <1>2, DrainKeeps, RedisKeeps, RejectKeeps
  <1>3. ASSUME NEW d \in late, LateExecutes(d) \/ LateVanishes(d) PROVE CleanupInv'
    BY <1>3, LateStep
  <1>4. ASSUME NEW id \in Ids, NodeExpires(id) PROVE CleanupInv'
    BY <1>4, ExpiryStep
  <1>5. CASE UNCHANGED vars
    <2>1. /\ UNCHANGED <<redisVars, died, nodeVars, drains, late, finished, faults>>
      BY <1>5 DEF vars
    <2>2. ListsTyped' /\ Once' /\ Accounted' /\ DrainsSound' /\ LateSound'
      BY <2>1, ListsKept, DrainsLess, LateKept
    <2>3. NodesTyped' /\ died' \in SUBSET Ids /\ finished' \in SUBSET Ids /\ faults' \in Nat
      BY <2>1, Parts DEF NodesTyped, nodeVars
    <2> QED BY <2>2, <2>3, Assembled
  <1> QED BY <1>1, <1>2, <1>3, <1>4, <1>5 DEF Next

\* The invariant holds of every behaviour.
LEMMA CleanupInvariant ==
  ASSUME CleanupAssumption
  PROVE  Spec => []CleanupInv
  BY CleanupStarts, CleanupStep, PTL DEF Spec

-----------------------------------------------------------------------------
(***************************************************************************)
(* What follows for the counts.                                            *)
(***************************************************************************)
PlacesOf(s, x) == {k \in 1..Len(s) : s[k] = x}

\* A list without repetitions holds an element once or not at all.
LEMMA CountedOnce ==
  ASSUME NEW S, NEW s \in Seq(S), Distinct(s), NEW x
  PROVE  /\ x \in Elements(s) => Cardinality(PlacesOf(s, x)) = 1
         /\ x \notin Elements(s) => Cardinality(PlacesOf(s, x)) = 0
  <1>1. ASSUME x \in Elements(s) PROVE Cardinality(PlacesOf(s, x)) = 1
    <2>1. PICK k \in 1..Len(s) : s[k] = x
      BY <1>1, ElementsAt
    <2>2. PlacesOf(s, x) = {k}
      BY <2>1 DEF PlacesOf, Distinct
    <2> QED BY <2>2, FS_Singleton
  <1>2. ASSUME x \notin Elements(s) PROVE Cardinality(PlacesOf(s, x)) = 0
    <2>1. PlacesOf(s, x) = {}
      BY <1>2, ElementsAt DEF PlacesOf
    <2> QED BY <2>1, FS_EmptySet
  <1> QED BY <1>1, <1>2

\* The number of times an obligation is in Redis.
LEMMA Counted ==
  ASSUME CleanupInv, NEW id
  PROVE  /\ Waits(id) => Occurrences(id) = 1
         /\ ~Waits(id) => Occurrences(id) = 0
  <1>0. ListsTyped /\ Once
    BY Parts
  <1>1. expired \in Seq(Ids) /\ cleanup \in Seq(Ids) /\ processing \in Seq(Claims)
    BY <1>0 DEF ListsTyped
  <1>2. /\ Held \in Seq(Ids) /\ Len(Held) = Len(processing)
        /\ \A k \in 1..Len(processing) : Held[k] = processing[k].id
    BY <1>1, IdsOfClaims DEF Held
  <1>3. Occurrences(id) = Cardinality(PlacesOf(cleanup, id)) + Cardinality(PlacesOf(Held, id))
                          + Cardinality(PlacesOf(expired, id))
    <2>1. PlacesOf(Held, id) = {k \in 1..Len(processing) : processing[k].id = id}
      BY <1>2 DEF PlacesOf
    <2> QED BY <2>1 DEF Occurrences, PlacesOf
  <1>4. /\ id \in Elements(cleanup) => Cardinality(PlacesOf(cleanup, id)) = 1
        /\ id \notin Elements(cleanup) => Cardinality(PlacesOf(cleanup, id)) = 0
    BY <1>0, <1>1, CountedOnce DEF Once
  <1>5. /\ id \in Elements(Held) => Cardinality(PlacesOf(Held, id)) = 1
        /\ id \notin Elements(Held) => Cardinality(PlacesOf(Held, id)) = 0
    BY <1>0, <1>2, CountedOnce DEF Once
  <1>6. /\ id \in Elements(expired) => Cardinality(PlacesOf(expired, id)) = 1
        /\ id \notin Elements(expired) => Cardinality(PlacesOf(expired, id)) = 0
    BY <1>0, <1>1, CountedOnce DEF Once
  <1>7. /\ ~(id \in Elements(expired) /\ id \in Elements(cleanup))
        /\ ~(id \in Elements(expired) /\ id \in Elements(Held))
        /\ ~(id \in Elements(cleanup) /\ id \in Elements(Held))
    BY <1>0 DEF Once
  <1> QED BY <1>3, <1>4, <1>5, <1>6, <1>7 DEF Waits

\* The state of the nodes, of their drains and of the lists in Redis is what
\* the code takes it for, whatever dies, rejects or arrives late.
THEOREM TypeCorrect ==
  ASSUME CleanupAssumption
  PROVE  Spec => []TypeOK
  <1>1. CleanupInv => TypeOK
    BY DEF CleanupInv
  <1> QED BY <1>1, CleanupInvariant, PTL

\* The obligation to clean up after a dead node stays in Redis until its
\* callback has succeeded: RECOVER, CLEANUP, CLAIM and NACK move it, and only
\* an ACK that follows the callback removes it, be it executed late, twice or
\* for a drain whose node no longer leads.
THEOREM ObligationsKept ==
  ASSUME CleanupAssumption
  PROVE  Spec => []NoObligationLost
  <1>1. CleanupInv => NoObligationLost
    BY Counted DEF NoObligationLost, CleanupInv, Accounted
  <1> QED BY <1>1, CleanupInvariant, PTL

\* No script copies an obligation, however many leaders overlap.
THEOREM ObligationsUnique ==
  ASSUME CleanupAssumption
  PROVE  Spec => []NoObligationCopied
  <1>1. CleanupInv => NoObligationCopied
    BY Counted DEF NoObligationCopied
  <1> QED BY <1>1, CleanupInvariant, PTL

\* A node never retains more than MaxDrains drains, nor two of an epoch.
THEOREM DrainsAreBounded ==
  ASSUME CleanupAssumption
  PROVE  Spec => []DrainsBounded
  <1>1. CleanupInv => DrainsBounded
    BY DEF CleanupInv, DrainsSound, Retained, DrainsBounded, DrainsOf, At
  <1> QED BY <1>1, CleanupInvariant, PTL
=============================================================================
