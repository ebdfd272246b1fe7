--------------------- MODULE MeshClientOwnershipProofs ----------------------
(* Proofs about MeshClientOwnership: a stream that a node with a valid lease  *)
(* serves is the one the registry names, ownership passes on only when the    *)
(* previous owner is fenced, and the index of the registry is complete.  A     *)
(* record alone does not tell whether its owner was fenced: the invariant has *)
(* to follow the takeover, from the claim that remembers the predecessor over  *)
(* the fence to the commit, and to know that a record once replaced never      *)
(* comes back (a connection reserves once).                                    *)
EXTENDS MeshClientOwnership, TLAPS

-----------------------------------------------------------------------------
(* Types.                                                                     *)

Recs == [node : Nodes, conn : Conns, state : {"pending", "active"}, meta : {0, 1}] \cup {NoRec}
Claims == [node : Nodes \cup {None}, conn : Conns \cup {None}, prev : Recs, live : BOOLEAN]
Registries == [rec : Recs, members : SUBSET Nodes, claim : Claims]
Statuses == {"safe", "lapsed", "fenced", "crashed"}
Streams == [st : {"new", "pending", "ready", "active", "closed"}, node : Nodes \cup {None}]
Tasks == [job : {"reserve", "activate", "unregister", "meta"}, conn : Conns, supersede : BOOLEAN]

\* The stages of takeOwnership() after its claim.
PastClaim == {"fence", "reconcile", "commit", "removePrevious", "check", "removeFenced", "removeResult",
              "committed", "finally"}
Stages == {"idle", "claim", "ambiguous", "activated"} \cup PastClaim
Ops == [at : Stages, att : Nat, prev : Recs, fenced : BOOLEAN, ok : BOOLEAN]

TypeInv ==
  /\ db \in Registries
  /\ status \in [Nodes -> Statuses]
  /\ stream \in [Conns -> Streams] /\ \A c \in Conns : Open(c) => stream[c].node \in Nodes
  /\ chain \in [Nodes -> Seq(Tasks)]
  /\ op \in [Nodes -> Ops]
  /\ faults \in Nat /\ metas \in Nat

-----------------------------------------------------------------------------
(* The queues: where a stream has to be for a job that is queued for it, and  *)
(* a connection asks for its reservation once.                                *)

Fits(s, n, t) ==
  /\ s[t.conn].st # "new"
  /\ s[t.conn].st \in {"pending", "ready", "active"} => s[t.conn].node = n
  /\ t.job = "reserve" => s[t.conn].st \in {"pending", "closed"}
  /\ t.job = "unregister" => s[t.conn].st = "closed"
  /\ t.job \in {"activate", "meta"} => s[t.conn].st \in {"ready", "active", "closed"}

Queued == \A n \in Nodes : \A i \in DOMAIN chain[n] : Fits(stream, n, chain[n][i])

Reserves(n, i, c) == i \in DOMAIN chain[n] /\ chain[n][i].job = "reserve" /\ chain[n][i].conn = c

ReservedOnce ==
  \A c \in Conns : \A n, m \in Nodes, i, j \in Nat :
     Reserves(n, i, c) /\ Reserves(m, j, c) => n = m /\ i = j

QueueInv == Queued /\ ReservedOnce

-----------------------------------------------------------------------------
(* The takeover.                                                              *)

\* A connection that can no longer claim: a record of it that is gone stays gone.
Past(d) ==
  /\ stream[d].st # "new" /\ db.claim.conn # d
  /\ \A n \in Nodes, i \in Nat : Reserves(n, i, d) => i = 1 /\ op[n].at \notin {"idle", "claim"}

\* The predecessor r cannot deliver any more, or the registry does not name it.
Gone(r) == ~Open(r.conn) \/ ~SameGeneration(db.rec, r)

\* What a node has found out about its predecessor at each stage.
Staged(o) ==
  /\ o.ok => o.at = "finally"
  /\ o.at \in {"fence", "reconcile"} => o.prev # NoRec
  /\ o.at \in {"commit", "check"} /\ o.prev # NoRec => o.fenced
  /\ o.at \in {"removePrevious", "removeFenced"} => o.fenced
  /\ o.fenced /\ o.at \in PastClaim => o.prev # NoRec

Progress(n) ==
  /\ Staged(op[n])
  /\ op[n].at # "idle" => chain[n] # <<>>
  /\ op[n].at \in PastClaim \cup {"claim"} => Job(n).job = "reserve"
  /\ op[n].at = "activated" => Job(n).job = "activate"
  /\ op[n].prev # NoRec => Past(op[n].prev.conn)
  /\ op[n].fenced /\ op[n].at \in PastClaim => Gone(op[n].prev)
  /\ op[n].at \in PastClaim /\ db.claim.conn = Conn(n) => db.claim.prev = op[n].prev

\* The predecessors the registry remembers.
Registered ==
  /\ db.rec # NoRec => Past(db.rec.conn)
  /\ db.claim.prev # NoRec => Past(db.claim.prev.conn)

\* Node n counts on being the owner, for connection c, and delivers to it.
Engaged(n, c) ==
  /\ Open(c) /\ stream[c].node = n /\ status[n] = "safe"
  /\ \/ stream[c].st \in {"ready", "active"}
     \/ op[n].at \in PastClaim /\ Conn(n) = c /\ (op[n].at = "committed" \/ op[n].ok)
Serves(n, c) == stream[c].st = "active" \/ (op[n].at = "activated" /\ Conn(n) = c)

Names(n, c) == db.rec.conn = c /\ db.rec.node = n
Ownership ==
  \A n \in Nodes, c \in Conns :
     Engaged(n, c) => Names(n, c) /\ (Serves(n, c) => db.rec.state = "active")

IInv ==
  /\ TypeInv
  /\ QueueInv
  /\ \A n \in Nodes : Progress(n)
  /\ Registered
  /\ Ownership
  /\ RecordIsIndexed

-----------------------------------------------------------------------------
(* Elementary facts.                                                          *)

\* 0 names neither a node nor a connection.
LEMMA Ids == None = 0 /\ None \notin Nodes /\ None \notin Conns /\ NoRec.node = None /\ NoRec.conn = None
  BY OwnershipAssumption DEF None, NoRec

\* Constants of the model have their types.
LEMMA Constants == NoRec \in Recs /\ NoClaim \in Claims /\ Idle \in Ops
  <1>1. NoRec \in Recs
    BY DEF Recs
  <1>2. NoClaim \in Claims
    BY <1>1 DEF NoClaim, Claims
  <1>3. Idle \in Ops
    BY <1>1 DEF Idle, Ops, Stages
  <1> QED BY <1>1, <1>2, <1>3

\* What the type of the registry says of its parts.
LEMMA RegistryType ==
  ASSUME NEW d \in Registries
  PROVE  /\ d.rec \in Recs /\ d.members \in SUBSET Nodes /\ d.claim \in Claims
         /\ d.claim.prev \in Recs /\ d.claim.live \in BOOLEAN
         /\ d.claim.conn \in Conns \cup {None} /\ d.claim.node \in Nodes \cup {None}
  <1>1. d.rec \in Recs /\ d.members \in SUBSET Nodes /\ d.claim \in Claims
    BY DEF Registries
  <1> QED BY <1>1 DEF Claims

\* A record that is there names a node and a connection.
LEMMA RecType ==
  ASSUME NEW r \in Recs
  PROVE  /\ r # NoRec => r.node \in Nodes /\ r.conn \in Conns /\ r.state \in {"pending", "active"}
                         /\ r.meta \in {0, 1}
         /\ r.conn \in Conns \/ r.node \in Nodes => r # NoRec
  BY Ids DEF Recs

-----------------------------------------------------------------------------
(* The scripts: what they make of a registry d.                               *)

Indexed(d) == d.rec # NoRec => d.rec.node \in d.members

\* The same owner is recorded, and a record that is active stays so.
RecKept(d, e) == /\ SameGeneration(e.rec, d.rec)
                 /\ d.rec.state = "active" => e.rec.state = "active"
                 /\ d.rec = NoRec <=> e.rec = NoRec

\* The claim stays what it is, or is dropped.
ClaimKept(d, e) == \/ e.claim.conn = d.claim.conn /\ e.claim.prev = d.claim.prev
                   \/ e.claim = NoClaim

\* A registry, from its parts.
LEMMA RegistryOf ==
  ASSUME NEW r \in Recs, NEW m \in SUBSET Nodes, NEW k \in Claims
  PROVE  [rec |-> r, members |-> m, claim |-> k] \in Registries
  BY DEF Registries

\* Changing a part of a registry.
LEMMA RegistryField ==
  ASSUME NEW d \in Registries
  PROVE  /\ \A k \in Claims : /\ [d EXCEPT !.claim = k] \in Registries
                              /\ [d EXCEPT !.claim = k].rec = d.rec
                              /\ [d EXCEPT !.claim = k].members = d.members
                              /\ [d EXCEPT !.claim = k].claim = k
  BY DEF Registries

\* CLAIM keeps the record; what it grants is the claim that Redis holds.
LEMMA ClaimScript ==
  ASSUME NEW d \in Registries, NEW n \in Nodes, NEW c \in Conns, NEW s \in BOOLEAN
  PROVE  /\ CLAIM(d, n, c, s).db \in Registries
         /\ CLAIM(d, n, c, s).db.rec = d.rec /\ CLAIM(d, n, c, s).db.members = d.members
         /\ \/ ClaimKept(d, CLAIM(d, n, c, s).db)
            \/ CLAIM(d, n, c, s).db.claim.conn = c /\ CLAIM(d, n, c, s).db.claim.prev = d.rec
         /\ CLAIM(d, n, c, s).res.ok \in BOOLEAN /\ CLAIM(d, n, c, s).res.prev \in Recs
         /\ CLAIM(d, n, c, s).res.ok => /\ CLAIM(d, n, c, s).db.claim.conn = c
                                        /\ CLAIM(d, n, c, s).db.claim.prev = CLAIM(d, n, c, s).res.prev
  <1> DEFINE k == IF d.claim.live THEN d.claim ELSE NoClaim
             own == [node |-> n, conn |-> c, prev |-> d.rec, live |-> TRUE]
  <1>1. /\ d.rec \in Recs /\ d.claim \in Claims /\ d.claim.prev \in Recs /\ d.claim.live \in BOOLEAN
        /\ NoRec \in Recs /\ NoClaim \in Claims
    BY RegistryType, Constants
  <1>2. k \in Claims /\ (k = d.claim \/ k = NoClaim)
    BY <1>1
  <1>3. own \in Claims /\ own.conn = c /\ own.prev = d.rec
    BY <1>1 DEF Claims
  <1>4. CASE d.claim.live /\ d.claim.conn = c
    <2>1. CLAIM(d, n, c, s) = Reply(d, [ok |-> TRUE, prev |-> d.claim.prev])
      BY <1>4, Zenon DEF CLAIM
    <2>2. /\ CLAIM(d, n, c, s).db = d /\ CLAIM(d, n, c, s).res.ok = TRUE
          /\ CLAIM(d, n, c, s).res.prev = d.claim.prev
      BY <2>1 DEF Reply
    <2> QED BY <1>1, <1>4, <2>2, Zenon DEF ClaimKept
  <1>5. CASE ~(d.claim.live /\ d.claim.conn = c) /\ (d.claim.live \/ (d.rec # NoRec /\ d.rec.node # n /\ ~s))
    <2>1. CLAIM(d, n, c, s) = Reply([d EXCEPT !.claim = k], [ok |-> FALSE, prev |-> NoRec])
      BY <1>5, Zenon DEF CLAIM
    <2> HIDE DEF k
    <2>2. /\ [d EXCEPT !.claim = k] \in Registries
          /\ [d EXCEPT !.claim = k].rec = d.rec
          /\ [d EXCEPT !.claim = k].members = d.members
          /\ [d EXCEPT !.claim = k].claim = k
      BY <1>2, RegistryField
    <2>3. /\ CLAIM(d, n, c, s).db = [d EXCEPT !.claim = k] /\ CLAIM(d, n, c, s).res.ok = FALSE
          /\ CLAIM(d, n, c, s).res.prev = NoRec
      BY <2>1 DEF Reply
    <2> QED BY <1>1, <1>2, <2>2, <2>3, Zenon DEF ClaimKept
  <1>6. CASE ~(d.claim.live /\ d.claim.conn = c) /\ ~(d.claim.live \/ (d.rec # NoRec /\ d.rec.node # n /\ ~s))
    <2>1. CLAIM(d, n, c, s) = Reply([d EXCEPT !.claim = own], [ok |-> TRUE, prev |-> d.rec])
      BY <1>6, Zenon DEF CLAIM
    <2> HIDE DEF own
    <2>2. /\ [d EXCEPT !.claim = own] \in Registries
          /\ [d EXCEPT !.claim = own].rec = d.rec
          /\ [d EXCEPT !.claim = own].members = d.members
          /\ [d EXCEPT !.claim = own].claim = own
      BY <1>3, RegistryField
    <2>3. /\ CLAIM(d, n, c, s).db = [d EXCEPT !.claim = own] /\ CLAIM(d, n, c, s).res.ok = TRUE
          /\ CLAIM(d, n, c, s).res.prev = d.rec
      BY <2>1 DEF Reply
    <2> QED BY <1>1, <1>3, <2>2, <2>3, Zenon
  <1> QED BY <1>4, <1>5, <1>6

\* COMMIT_CLAIM changes the record only for the connection that holds the claim,
\* and only if the record is still the predecessor's, or gone.
LEMMA CommitScript ==
  ASSUME NEW d \in Registries, NEW n \in Nodes, NEW c \in Conns, Indexed(d)
  PROVE  /\ COMMIT(d, n, c).db \in Registries /\ Indexed(COMMIT(d, n, c).db)
         /\ COMMIT(d, n, c).res \in {0, 1, 2}
         /\ \/ COMMIT(d, n, c).db.rec = d.rec /\ ClaimKept(d, COMMIT(d, n, c).db)
            \/ /\ d.claim.conn = c /\ (d.rec = NoRec \/ d.rec = d.claim.prev)
               /\ COMMIT(d, n, c).db.rec = [node |-> n, conn |-> c, state |-> "pending", meta |-> 0]
               /\ COMMIT(d, n, c).db.claim = NoClaim
         /\ COMMIT(d, n, c).res = 1 => COMMIT(d, n, c).db.rec.node = n /\ COMMIT(d, n, c).db.rec.conn = c
  <1> DEFINE r == [node |-> n, conn |-> c, state |-> "pending", meta |-> 0]
             m == (d.members \ {d.claim.prev.node}) \cup {n}
             moved == [rec |-> r, members |-> m, claim |-> NoClaim]
  <1>1. /\ d.members \in SUBSET Nodes /\ d.claim \in Claims /\ NoClaim \in Claims
    BY RegistryType, Constants
  <1>2. r \in Recs /\ m \in SUBSET Nodes /\ n \in m
    BY <1>1 DEF Recs
  <1>3. moved \in Registries /\ Indexed(moved) /\ moved.rec = r /\ moved.claim = NoClaim
    BY <1>1, <1>2, RegistryOf DEF Indexed
  <1>4. CASE d.claim.conn # c
    <2>1. COMMIT(d, n, c) = Reply(d, IF d.rec.node = n /\ d.rec.conn = c THEN 1 ELSE 0)
      BY <1>4, Zenon DEF COMMIT
    <2> QED BY <2>1 DEF Reply, ClaimKept
  <1>5. CASE d.claim.conn = c /\ ~d.claim.live
    <2>1. COMMIT(d, n, c) = Reply([d EXCEPT !.claim = NoClaim], 0)
      BY <1>5, Zenon DEF COMMIT
    <2>2. /\ [d EXCEPT !.claim = NoClaim] \in Registries
          /\ [d EXCEPT !.claim = NoClaim].rec = d.rec
          /\ [d EXCEPT !.claim = NoClaim].members = d.members
          /\ [d EXCEPT !.claim = NoClaim].claim = NoClaim
      BY <1>1, RegistryField
    <2>3. COMMIT(d, n, c).db = [d EXCEPT !.claim = NoClaim] /\ COMMIT(d, n, c).res = 0
      BY <2>1 DEF Reply
    <2>4. Indexed([d EXCEPT !.claim = NoClaim])
      BY <2>2 DEF Indexed
    <2> QED BY <2>2, <2>3, <2>4 DEF ClaimKept
  <1>6. CASE d.claim.conn = c /\ d.claim.live /\ d.rec # NoRec /\ d.rec # d.claim.prev
    <2>1. COMMIT(d, n, c) = Reply(d, IF d.claim.prev # NoRec /\ SameGeneration(d.rec, d.claim.prev) THEN 2 ELSE 0)
      BY <1>6, Zenon DEF COMMIT
    <2> QED BY <2>1 DEF Reply, ClaimKept
  <1>7. CASE d.claim.conn = c /\ d.claim.live /\ (d.rec = NoRec \/ d.rec = d.claim.prev)
    <2>1. COMMIT(d, n, c) = Reply(moved, 1)
      BY <1>7, Zenon DEF COMMIT
    <2> HIDE DEF moved, m
    <2> QED BY <1>3, <1>7, <2>1 DEF Reply
  <1> QED BY <1>1, <1>4, <1>5, <1>6, <1>7

\* REMOVE_CLAIM_PREVIOUS removes nothing but the predecessor of the caller's claim.
LEMMA RemovePreviousScript ==
  ASSUME NEW d \in Registries, NEW n \in Nodes, NEW c \in Conns, Indexed(d)
  PROVE  /\ REMOVE_PREVIOUS(d, n, c).db \in Registries /\ Indexed(REMOVE_PREVIOUS(d, n, c).db)
         /\ REMOVE_PREVIOUS(d, n, c).db.claim = d.claim
         /\ \/ REMOVE_PREVIOUS(d, n, c).db.rec = d.rec
            \/ /\ REMOVE_PREVIOUS(d, n, c).db.rec = NoRec /\ d.claim.conn = c
               /\ SameGeneration(d.rec, d.claim.prev)
  <1> DEFINE m == d.members \ {d.claim.prev.node}
             e == [d EXCEPT !.rec = NoRec, !.members = m]
  <1>1. m \in SUBSET Nodes /\ NoRec \in Recs
    BY RegistryType, Constants
  <1> HIDE DEF m
  <1>2. e \in Registries /\ e.rec = NoRec /\ e.claim = d.claim
    BY <1>1 DEF Registries
  <1> HIDE DEF e
  <1>3. \/ REMOVE_PREVIOUS(d, n, c).db = d
        \/ REMOVE_PREVIOUS(d, n, c).db = e /\ d.claim.conn = c /\ SameGeneration(d.rec, d.claim.prev)
    BY DEF REMOVE_PREVIOUS, Reply, e, m
  <1> QED BY <1>2, <1>3 DEF Indexed

\* ABORT_CLAIM keeps the record.
LEMMA AbortScript ==
  ASSUME NEW d \in Registries, NEW c \in Conns
  PROVE  /\ ABORT(d, c) \in Registries /\ ABORT(d, c).rec = d.rec /\ ABORT(d, c).members = d.members
         /\ ABORT(d, c).claim = d.claim \/ ABORT(d, c).claim = NoClaim
  <1> DEFINE k == IF d.claim.conn = c THEN NoClaim ELSE d.claim
  <1>1. k \in Claims /\ (k = d.claim \/ k = NoClaim)
    BY RegistryType, Constants
  <1>2. ABORT(d, c) = [d EXCEPT !.claim = k]
    BY DEF ABORT
  <1> HIDE DEF k
  <1> QED BY <1>1, <1>2 DEF Registries

\* A removal takes nothing but the record of the caller's own generation.
RemovesOwn(d, e, n, c) == \/ e.rec = d.rec
                          \/ e.rec = NoRec /\ d.rec.node = n /\ d.rec.conn = c

\* REMOVE_CLAIM_RESULT.
LEMMA RemoveResultScript ==
  ASSUME NEW d \in Registries, NEW n \in Nodes, NEW c \in Conns, Indexed(d)
  PROVE  /\ REMOVE_RESULT(d, n, c).db \in Registries /\ Indexed(REMOVE_RESULT(d, n, c).db)
         /\ ClaimKept(d, REMOVE_RESULT(d, n, c).db)
         /\ RemovesOwn(d, REMOVE_RESULT(d, n, c).db, n, c)
  <1> DEFINE a == ABORT(d, c)
             mine == d.rec.node = n /\ d.rec.conn = c
             r == IF mine THEN NoRec ELSE a.rec
             m == IF mine THEN a.members \ {n} ELSE a.members
  <1>1. /\ a \in Registries /\ a.rec = d.rec /\ a.members = d.members
        /\ a.claim = d.claim \/ a.claim = NoClaim
    BY AbortScript
  <1> HIDE DEF a
  <1>2. r \in Recs /\ m \in SUBSET Nodes /\ (r # NoRec => r.node \in m)
        /\ (r = d.rec \/ (r = NoRec /\ mine))
    BY <1>1, RegistryType, Constants DEF Indexed
  <1>3. REMOVE_RESULT(d, n, c).db = [a EXCEPT !.rec = r, !.members = m]
    BY DEF REMOVE_RESULT, Reply, a
  <1> HIDE DEF r, m
  <1>4. /\ [a EXCEPT !.rec = r, !.members = m] \in Registries
        /\ [a EXCEPT !.rec = r, !.members = m].rec = r
        /\ [a EXCEPT !.rec = r, !.members = m].members = m
        /\ [a EXCEPT !.rec = r, !.members = m].claim = a.claim
    BY <1>1, <1>2 DEF Registries
  <1> QED BY <1>1, <1>2, <1>3, <1>4 DEF Indexed, ClaimKept, RemovesOwn

\* UNREGISTER.
LEMMA UnregisterScript ==
  ASSUME NEW d \in Registries, NEW n \in Nodes, NEW c \in Conns, Indexed(d)
  PROVE  /\ UNREGISTER(d, n, c).db \in Registries /\ Indexed(UNREGISTER(d, n, c).db)
         /\ ClaimKept(d, UNREGISTER(d, n, c).db)
         /\ RemovesOwn(d, UNREGISTER(d, n, c).db, n, c)
  <1> DEFINE a == ABORT(d, c)
             m == a.members \ {n}
             e == [a EXCEPT !.rec = NoRec, !.members = m]
  <1>1. /\ a \in Registries /\ a.members = d.members
        /\ a.claim = d.claim \/ a.claim = NoClaim
    BY AbortScript
  <1> HIDE DEF a
  <1>2. m \in SUBSET Nodes /\ NoRec \in Recs
    BY <1>1, RegistryType, Constants
  <1>3. \/ UNREGISTER(d, n, c).db = d
        \/ UNREGISTER(d, n, c).db = e /\ d.rec.node = n /\ d.rec.conn = c
    BY DEF UNREGISTER, Reply, a
  <1> HIDE DEF m
  <1>4. e \in Registries /\ e.rec = NoRec /\ e.claim = a.claim
    BY <1>1, <1>2 DEF Registries
  <1> HIDE DEF e
  <1> QED BY <1>1, <1>3, <1>4 DEF Indexed, ClaimKept, RemovesOwn

\* ACTIVATE keeps the owner; an activation that was granted
\* leaves the caller's record active.
LEMMA ActivateScript ==
  ASSUME NEW d \in Registries, NEW n \in Nodes, NEW c \in Conns, Indexed(d)
  PROVE  /\ ACTIVATE(d, n, c).db \in Registries /\ Indexed(ACTIVATE(d, n, c).db)
         /\ ACTIVATE(d, n, c).db.claim = d.claim
         /\ RecKept(d, ACTIVATE(d, n, c).db)
         /\ ACTIVATE(d, n, c).res => ACTIVATE(d, n, c).db.rec.state = "active"
  <1>1. d.rec \in Recs /\ d.members \in SUBSET Nodes
    BY RegistryType
  <1>2. CASE d.rec.node = n /\ d.rec.conn = c
    <2> DEFINE r == [d.rec EXCEPT !.state = "active"]
               m == d.members \cup {n}
    <2>1. d.rec # NoRec
      BY <1>1, <1>2, RecType
    <2>2. /\ r \in Recs /\ r.node = n /\ r.conn = c /\ r.state = "active" /\ m \in SUBSET Nodes /\ n \in m
      BY <1>1, <1>2, <2>1 DEF Recs
    <2>3. ACTIVATE(d, n, c) = Reply([d EXCEPT !.rec = r, !.members = m], TRUE)
      BY <1>1, <1>2 DEF ACTIVATE, Registries
    <2>4. r # NoRec
      BY <2>2, RecType
    <2> HIDE DEF r, m
    <2>5. /\ [d EXCEPT !.rec = r, !.members = m] \in Registries
          /\ [d EXCEPT !.rec = r, !.members = m].rec = r
          /\ [d EXCEPT !.rec = r, !.members = m].members = m
          /\ [d EXCEPT !.rec = r, !.members = m].claim = d.claim
      BY <2>2 DEF Registries
    <2>6. ACTIVATE(d, n, c).db = [d EXCEPT !.rec = r, !.members = m]
      BY <2>3 DEF Reply
    <2> QED BY <1>2, <2>1, <2>2, <2>4, <2>5, <2>6 DEF Indexed, RecKept, SameGeneration
  <1>3. CASE ~(d.rec.node = n /\ d.rec.conn = c)
    <2>1. ACTIVATE(d, n, c).db = d /\ ACTIVATE(d, n, c).res = FALSE
      BY <1>3 DEF ACTIVATE, Reply
    <2> QED BY <2>1 DEF RecKept, SameGeneration
  <1> QED BY <1>2, <1>3

\* UPDATE_METADATA keeps the owner and the state of its record.
LEMMA MetadataScript ==
  ASSUME NEW d \in Registries, NEW n \in Nodes, NEW c \in Conns, Indexed(d)
  PROVE  /\ UPDATE_METADATA(d, n, c).db \in Registries /\ Indexed(UPDATE_METADATA(d, n, c).db)
         /\ UPDATE_METADATA(d, n, c).db.claim = d.claim
         /\ RecKept(d, UPDATE_METADATA(d, n, c).db)
  <1>1. d.rec \in Recs /\ d.members \in SUBSET Nodes
    BY RegistryType
  <1>2. CASE d.rec.node = n /\ d.rec.conn = c
    <2> DEFINE r == [d.rec EXCEPT !.meta = 1 - d.rec.meta]
               m == d.members
    <2>1. d.rec # NoRec /\ 1 - d.rec.meta \in {0, 1}
      BY <1>1, <1>2, RecType
    <2>2. /\ r \in Recs /\ r.node = n /\ r.conn = c /\ r.state = d.rec.state /\ m \in SUBSET Nodes
      BY <1>1, <1>2, <2>1 DEF Recs
    <2>3. UPDATE_METADATA(d, n, c) = Reply([d EXCEPT !.rec = r, !.members = m], TRUE)
      BY <1>1, <1>2 DEF UPDATE_METADATA, Registries
    <2>4. r # NoRec
      BY <2>2, RecType
    <2>5. n \in m
      BY <1>2, <2>1 DEF Indexed
    <2> HIDE DEF r, m
    <2>6. /\ [d EXCEPT !.rec = r, !.members = m] \in Registries
          /\ [d EXCEPT !.rec = r, !.members = m].rec = r
          /\ [d EXCEPT !.rec = r, !.members = m].members = m
          /\ [d EXCEPT !.rec = r, !.members = m].claim = d.claim
      BY <2>2 DEF Registries
    <2>7. UPDATE_METADATA(d, n, c).db = [d EXCEPT !.rec = r, !.members = m]
      BY <2>3 DEF Reply
    <2> QED BY <1>2, <2>1, <2>2, <2>4, <2>5, <2>6, <2>7 DEF Indexed, RecKept, SameGeneration
  <1>3. CASE ~(d.rec.node = n /\ d.rec.conn = c)
    <2>1. UPDATE_METADATA(d, n, c).db = d
      BY <1>3 DEF UPDATE_METADATA, Reply
    <2> QED BY <2>1 DEF RecKept, SameGeneration
  <1> QED BY <1>2, <1>3

\* CLEANUP_NODE takes no record but that of the node.
LEMMA CleanupScript ==
  ASSUME NEW d \in Registries, NEW n \in Nodes, Indexed(d)
  PROVE  /\ CLEANUP(d, n) \in Registries /\ Indexed(CLEANUP(d, n)) /\ ClaimKept(d, CLEANUP(d, n))
         /\ CLEANUP(d, n).rec = d.rec \/ (CLEANUP(d, n).rec = NoRec /\ d.rec.node = n)
  <1> DEFINE r == IF n \in d.members /\ d.rec.node = n THEN NoRec ELSE d.rec
             m == d.members \ {n}
             k == IF d.claim.node = n THEN NoClaim ELSE d.claim
  <1>1. /\ r \in Recs /\ m \in SUBSET Nodes /\ k \in Claims /\ (k = d.claim \/ k = NoClaim)
        /\ r # NoRec => r.node \in m
        /\ r = d.rec \/ (r = NoRec /\ d.rec.node = n)
    BY RegistryType, Constants DEF Indexed
  <1>2. CLEANUP(d, n) = [rec |-> r, members |-> m, claim |-> k]
    BY DEF CLEANUP
  <1> HIDE DEF r, m, k
  <1> QED BY <1>1, <1>2, RegistryOf DEF Indexed, ClaimKept

-----------------------------------------------------------------------------
(* What a step does, to the streams, to the queues and to the registry.       *)

\* A stream ends, or goes on once nothing reserves for it any more.
StreamStep(c) ==
  \/ stream'[c] = stream[c]
  \/ Open(c) /\ stream'[c].st = "closed"
  \/ /\ Open(c) /\ stream'[c].node = stream[c].node /\ stream'[c].st \in {"ready", "active"}
     /\ \A n \in Nodes, i \in Nat : ~Reserves(n, i, c)'

\* The queue of node m loses k jobs at its head and gains jobs other than reservations.
Moved(m, k) ==
  /\ \A j \in DOMAIN chain'[m] :
       \/ j + k \in DOMAIN chain[m] /\ chain'[m][j] = chain[m][j + k]
       \/ chain'[m][j].job # "reserve" /\ Fits(stream', m, chain'[m][j])
  /\ k = 0 => /\ chain[m] # <<>> => chain'[m] # <<>> /\ chain'[m][1] = chain[m][1]
              /\ op[m].at \notin {"idle", "claim"} => op'[m].at \notin {"idle", "claim"}
QueueStep == \A m \in Nodes : Moved(m, 0) \/ Moved(m, 1)

\* A lease that is gone does not come back.
StatusStep == \A n \in Nodes : status'[n] = status[n] \/ status'[n] # "safe"

\* Nobody counts on the record that is in the registry.
Free == db.rec = NoRec \/ ~Engaged(db.rec.node, db.rec.conn)

\* COMMIT_CLAIM publishes the claim of node n.
Takes(n) ==
  /\ op[n].at = "commit" /\ op'[n].at \notin {"idle", "claim"} /\ chain' = chain
  /\ db.claim.conn = Conn(n)
  /\ db.rec = NoRec \/ ~Open(db.rec.conn)
  /\ db'.rec = [node |-> n, conn |-> Conn(n), state |-> "pending", meta |-> 0]
  /\ db'.claim = NoClaim

\* CLAIM grants a claim to node n.
Asks(n) ==
  /\ op[n].at = "claim" /\ db'.rec = db.rec
  /\ db'.claim.conn = Conn(n) /\ db'.claim.prev = db.rec

RegistryStep ==
  /\ db' \in Registries /\ Indexed(db')
  /\ \/ ClaimKept(db, db') /\ (RecKept(db, db') \/ (db'.rec = NoRec /\ Free))
     \/ \E n \in Nodes : Takes(n) \/ Asks(n)

SafeStep == TypeInv' /\ StatusStep /\ (\A c \in Conns : StreamStep(c)) /\ QueueStep /\ RegistryStep

-----------------------------------------------------------------------------
(* Such steps keep the invariant.                                             *)

\* The head of a queue.
LEMMA HeadJob ==
  ASSUME TypeInv, NEW n \in Nodes, chain[n] # <<>>
  PROVE  /\ chain[n] \in Seq(Tasks) /\ 1 \in DOMAIN chain[n] /\ Job(n) = chain[n][1] /\ Job(n) \in Tasks
         /\ Conn(n) = chain[n][1].conn /\ Conn(n) \in Conns
         /\ Job(n).job = "reserve" => Reserves(n, 1, Conn(n))
  <1>1. chain[n] \in Seq(Tasks)
    BY DEF TypeInv
  <1>2. 1 \in DOMAIN chain[n] /\ Job(n) = chain[n][1] /\ Job(n) \in Tasks
    BY <1>1 DEF Job
  <1> QED BY <1>1, <1>2 DEF Conn, Reserves, Tasks

\* Jobs still fit, and reservations stay unique.
LEMMA QueueKept ==
  ASSUME TypeInv, QueueInv, TypeInv', \A c \in Conns : StreamStep(c), QueueStep
  PROVE  QueueInv'
  <1>1. ASSUME NEW n \in Nodes, NEW i \in DOMAIN chain'[n] PROVE Fits(stream', n, chain'[n][i])
    <2> DEFINE t == chain'[n][i]
    <2>a. chain'[n] \in Seq(Tasks)
      BY DEF TypeInv
    <2>0. i \in Nat /\ t \in Tasks
      BY <2>a
    <2> HIDE DEF t
    <2>1. t \in Tasks /\ t.conn \in Conns
      BY <2>0 DEF Tasks
    <2>2. CASE \E k \in {0, 1} : i + k \in DOMAIN chain[n] /\ chain'[n][i] = chain[n][i + k]
      <3>a. PICK k \in {0, 1} : i + k \in DOMAIN chain[n] /\ chain'[n][i] = chain[n][i + k]
        BY <2>2
      <3>b. Fits(stream, n, chain[n][i + k])
        BY <3>a DEF QueueInv, Queued
      <3>c. chain[n][i + k] = t
        BY <3>a DEF t
      <3>1. Fits(stream, n, t)
        BY <3>b, <3>c
      <3>d. PICK c \in Conns : c = t.conn
        BY <2>1
      <3>2. t.job = "reserve" => Reserves(n, i, c)'
        BY <3>d DEF Reserves, t
      <3>3. StreamStep(c)
        OBVIOUS
      <3>4. ~(t.job = "reserve" /\ \A m \in Nodes, j \in Nat : ~Reserves(m, j, c)')
        BY <2>0, <3>2
      <3>5. stream[c] \in Streams /\ stream'[c] \in Streams
        BY DEF TypeInv
      <3>6. t.job \in {"reserve", "activate", "unregister", "meta"}
        BY <2>1 DEF Tasks
      <3>7. Fits(stream', n, t)
        BY <3>1, <3>3, <3>4, <3>5, <3>6, <3>d DEF Fits, StreamStep, Open
      <3> QED BY <3>7 DEF t
    <2> QED BY <2>2 DEF QueueStep, Moved
  <1>2. ASSUME NEW c \in Conns, NEW n \in Nodes, NEW i \in Nat, NEW k \in {0, 1}, Moved(n, k), Reserves(n, i, c)'
        PROVE  Reserves(n, i + k, c)
    BY <1>2 DEF Reserves, Moved
  <1>3. ASSUME NEW c \in Conns, NEW n \in Nodes, NEW m \in Nodes, NEW i \in Nat, NEW j \in Nat,
               Reserves(n, i, c)', Reserves(m, j, c)'
        PROVE  n = m /\ i = j
    <2>1. PICK k \in {0, 1} : Moved(n, k)
      BY DEF QueueStep
    <2>2. PICK l \in {0, 1} : Moved(m, l)
      BY DEF QueueStep
    <2>3. Reserves(n, i + k, c) /\ Reserves(m, j + l, c) /\ i + k \in Nat /\ j + l \in Nat
      BY <1>2, <1>3, <2>1, <2>2
    <2>4. n = m
      BY <2>3 DEF QueueInv, ReservedOnce
    <2>5. Reserves(n, j + k, c) /\ j + k \in Nat
      BY <1>2, <1>3, <2>1, <2>4
    <2>6. i + k = j + k
      BY <2>3, <2>5 DEF QueueInv, ReservedOnce
    <2> QED BY <2>4, <2>6
  <1>4. Queued'
    BY <1>1 DEF Queued
  <1>5. ReservedOnce'
    BY <1>3 DEF ReservedOnce
  <1> QED BY <1>4, <1>5 DEF QueueInv

\* A connection that can no longer claim never can again.
LEMMA PastKept ==
  ASSUME IInv, SafeStep, NEW d \in Conns, Past(d)
  PROVE  Past(d)'
  <1>1. stream'[d].st # "new"
    <2>1. StreamStep(d) /\ stream[d].st # "new"
      BY DEF SafeStep, Past
    <2> QED BY <2>1 DEF StreamStep
  <1>2. db'.claim.conn # d
    <2>1. CASE ClaimKept(db, db') \/ \E n \in Nodes : Takes(n)
      <3>1. NoClaim.conn # d
        BY Ids DEF NoClaim
      <3> QED BY <2>1, <3>1 DEF ClaimKept, Takes, Past
    <2>2. CASE \E n \in Nodes : Asks(n)
      <3>1. PICK n \in Nodes : Asks(n)
        BY <2>2
      <3>2. op[n].at = "claim" /\ db'.claim.conn = Conn(n)
        BY <3>1 DEF Asks
      <3>3. chain[n] # <<>> /\ Job(n).job = "reserve"
        BY <3>2 DEF IInv, Progress
      <3>4. Reserves(n, 1, Conn(n))
        BY <3>3, HeadJob DEF IInv
      <3> QED BY <3>2, <3>4 DEF Past
    <2> QED BY <2>1, <2>2 DEF SafeStep, RegistryStep
  <1>3. ASSUME NEW n \in Nodes, NEW i \in Nat, Reserves(n, i, d)'
        PROVE  i = 1 /\ op'[n].at \notin {"idle", "claim"}
    <2>1. CASE Moved(n, 0)
      <3>1. Reserves(n, i + 0, d)
        BY <1>3, <2>1 DEF Reserves, Moved
      <3>2. Reserves(n, i, d)
        BY <3>1
      <3>3. i = 1 /\ op[n].at \notin {"idle", "claim"}
        BY <3>2 DEF Past
      <3> QED BY <2>1, <3>3 DEF Moved
    <2>2. CASE Moved(n, 1)
      <3>1. Reserves(n, i + 1, d)
        BY <1>3, <2>2 DEF Reserves, Moved
      <3>2. i + 1 = 1
        BY <3>1 DEF Past
      <3>3. i \in DOMAIN chain'[n] /\ chain'[n] \in Seq(Tasks)
        BY <1>3 DEF Reserves, SafeStep, TypeInv
      <3> QED BY <3>2, <3>3
    <2> QED BY <2>1, <2>2 DEF SafeStep, QueueStep
  <1> QED BY <1>1, <1>2, <1>3 DEF Past

\* A predecessor that is gone stays gone: only its own connection could bring its
\* record back.
LEMMA GoneKept ==
  ASSUME IInv, SafeStep, NEW r \in Recs, r # NoRec, Past(r.conn), Gone(r)
  PROVE  Gone(r)'
  <1>0. r.conn \in Conns /\ r.node \in Nodes /\ r.conn # None /\ r.node # None
    BY RecType, Ids
  <1>1. CASE ~Open(r.conn)
    <2>1. StreamStep(r.conn) /\ stream[r.conn].st # "new"
      BY <1>0 DEF SafeStep, Past
    <2>2. ~Open(r.conn)'
      BY <1>1, <2>1 DEF StreamStep, Open
    <2> QED BY <2>2 DEF Gone
  <1>2. CASE ~SameGeneration(db.rec, r)
    <2>1. CASE RecKept(db, db')
      BY <1>2, <2>1 DEF RecKept, SameGeneration, Gone
    <2>2. CASE db'.rec = NoRec
      BY <1>0, <2>2, Ids DEF SameGeneration, Gone
    <2>3. CASE \E n \in Nodes : Takes(n)
      BY <2>3 DEF Takes, Past, SameGeneration, Gone
    <2>4. CASE \E n \in Nodes : Asks(n)
      BY <1>2, <2>4 DEF Asks, SameGeneration, Gone
    <2> QED BY <2>1, <2>2, <2>3, <2>4 DEF SafeStep, RegistryStep
  <1> QED BY <1>1, <1>2 DEF Gone

\* The registry remembers only connections that cannot claim again.
LEMMA RegisteredKept ==
  ASSUME IInv, SafeStep
  PROVE  Registered'
  <1>0. /\ db \in Registries /\ db' \in Registries /\ Registered
        /\ db.rec \in Recs /\ db.claim.prev \in Recs /\ db'.rec \in Recs /\ db'.claim.prev \in Recs
        /\ NoClaim.prev = NoRec /\ NoClaim.conn = None
    BY RegistryType DEF SafeStep, RegistryStep, IInv, TypeInv, NoClaim
  <1>1. ASSUME NEW r \in Recs, r # NoRec, Past(r.conn) PROVE Past(r.conn)'
    <2>1. r.conn \in Conns
      BY <1>1, RecType
    <2> QED BY <1>1, <2>1, PastKept
  <1>3. ASSUME NEW n \in Nodes, Takes(n), NEW c \in Conns, c = Conn(n)
        PROVE  Past(c)'
    <2>1. op[n].at = "commit" /\ op'[n].at \notin {"idle", "claim"} /\ chain' = chain /\ db'.claim = NoClaim
      BY <1>3 DEF Takes
    <2>2. chain[n] # <<>> /\ Job(n).job = "reserve"
      BY <2>1 DEF IInv, Progress, PastClaim
    <2>3. Reserves(n, 1, c) /\ 1 \in DOMAIN chain[n] /\ chain[n][1].conn = c
      BY <1>3, <2>2, HeadJob DEF IInv
    <2>4. Fits(stream, n, chain[n][1]) /\ StreamStep(c)
      BY <2>3 DEF IInv, QueueInv, Queued, SafeStep
    <2>5. stream'[c].st # "new"
      BY <2>3, <2>4 DEF Fits, StreamStep
    <2>6. ASSUME NEW m \in Nodes, NEW i \in Nat, Reserves(m, i, c)' PROVE m = n /\ i = 1
      <3>1. Reserves(m, i, c)
        BY <2>1, <2>6 DEF Reserves
      <3> QED BY <2>3, <3>1 DEF IInv, QueueInv, ReservedOnce
    <2>7. db'.claim.conn # c
      BY <1>0, <2>1, Ids
    <2> QED BY <2>1, <2>5, <2>6, <2>7 DEF Past
  <1>4. ASSUME NEW r \in Recs, r # NoRec, r = db'.rec PROVE Past(r.conn)'
    <2>1. CASE RecKept(db, db')
      <3>1. PICK s \in Recs : s = db.rec
        BY <1>0
      <3>2. s # NoRec /\ s.conn = r.conn /\ Past(s.conn)
        BY <1>0, <1>4, <2>1, <3>1 DEF RecKept, SameGeneration, Registered
      <3> QED BY <1>1, <1>4, <3>2
    <2>2. CASE \E n \in Nodes : Takes(n)
      <3>1. PICK n \in Nodes : Takes(n)
        BY <2>2
      <3>2. r.conn = Conn(n) /\ r.conn \in Conns
        BY <1>4, <3>1, RecType DEF Takes
      <3> QED BY <1>3, <3>1, <3>2
    <2>3. CASE \E n \in Nodes : Asks(n)
      <3>1. r = db.rec
        BY <1>4, <2>3 DEF Asks
      <3>2. Past(r.conn)
        BY <1>0, <1>4, <3>1 DEF Registered
      <3> QED BY <1>1, <1>4, <3>2
    <2> QED BY <1>4, <2>1, <2>2, <2>3 DEF SafeStep, RegistryStep
  <1>5. ASSUME NEW r \in Recs, r # NoRec, r = db'.claim.prev PROVE Past(r.conn)'
    <2>1. CASE ClaimKept(db, db') \/ \E n \in Nodes : Takes(n)
      <3>1. r = db.claim.prev
        BY <1>0, <1>5, <2>1 DEF ClaimKept, Takes
      <3>2. Past(r.conn)
        BY <1>0, <1>5, <3>1 DEF Registered
      <3> QED BY <1>1, <1>5, <3>2
    <2>2. CASE \E n \in Nodes : Asks(n)
      <3>1. r = db.rec
        BY <1>5, <2>2 DEF Asks
      <3>2. Past(r.conn)
        BY <1>0, <1>5, <3>1 DEF Registered
      <3> QED BY <1>1, <1>5, <3>2
    <2> QED BY <2>1, <2>2 DEF SafeStep, RegistryStep
  <1>6. PICK r \in Recs, p \in Recs : r = db'.rec /\ p = db'.claim.prev
    BY <1>0
  <1>7. (r # NoRec => Past(r.conn)') /\ (p # NoRec => Past(p.conn)')
    BY <1>4, <1>5, <1>6
  <1> QED BY <1>6, <1>7 DEF Registered, Past, Reserves

\* A node that takes part in the step only by what is appended to its queue.
LEMMA BystanderKept ==
  ASSUME IInv, SafeStep, NEW m \in Nodes, op'[m] = op[m], Moved(m, 0)
  PROVE  Progress(m)'
  <1>0. /\ TypeInv /\ TypeInv' /\ Progress(m) /\ op[m] \in Ops /\ op[m].prev \in Recs
    BY DEF IInv, SafeStep, TypeInv, Ops
  <1>1. op[m].at # "idle" => /\ chain[m] # <<>> /\ chain'[m] # <<>>
                             /\ Job(m)' = Job(m) /\ Conn(m)' = Conn(m)
    <2>1. ASSUME op[m].at # "idle" PROVE chain[m] # <<>> /\ chain'[m] # <<>> /\ chain'[m][1] = chain[m][1]
      BY <1>0, <2>1 DEF Progress, Moved
    <2>2. ASSUME chain[m] # <<>> /\ chain'[m] # <<>> PROVE Job(m) = chain[m][1] /\ Job(m)' = chain'[m][1]
      BY <1>0, <2>2 DEF TypeInv, Job
    <2> QED BY <2>1, <2>2 DEF Conn
  <1>2. Staged(op'[m])
    BY <1>0 DEF Progress
  <1>3. PICK p \in Recs : p = op[m].prev
    BY <1>0
  <1>4. p # NoRec => Past(p.conn) /\ Past(p.conn)'
    <2>1. p # NoRec => p.conn \in Conns /\ Past(p.conn)
      BY <1>0, <1>3, RecType DEF Progress
    <2> QED BY <2>1, PastKept
  <1>5. op[m].fenced /\ op[m].at \in PastClaim => Gone(p)'
    <2>1. op[m].fenced /\ op[m].at \in PastClaim => Gone(p) /\ p # NoRec
      BY <1>0, <1>3 DEF Progress, Staged
    <2> QED BY <1>4, <2>1, GoneKept
  <1>6. ASSUME op[m].at \in PastClaim, db'.claim.conn = Conn(m) PROVE db'.claim.prev = op[m].prev
    <2>1. chain[m] # <<>> /\ Job(m).job = "reserve"
      BY <1>0, <1>1, <1>6 DEF Progress, PastClaim
    <2>2. Reserves(m, 1, Conn(m)) /\ Conn(m) \in Conns
      BY <1>0, <2>1, HeadJob
    <2>3. CASE ClaimKept(db, db') \/ \E n \in Nodes : Takes(n)
      <3>1. NoClaim.conn # Conn(m)
        BY <2>2, Ids DEF NoClaim
      <3>2. db.claim.conn = Conn(m) /\ db'.claim.prev = db.claim.prev
        BY <1>6, <2>3, <3>1 DEF ClaimKept, Takes
      <3> QED BY <1>0, <1>6, <3>2 DEF Progress
    <2>4. CASE \E n \in Nodes : Asks(n)
      <3>1. PICK n \in Nodes : Asks(n)
        BY <2>4
      <3>2. op[n].at = "claim" /\ Conn(n) = Conn(m) /\ Progress(n)
        BY <1>6, <3>1 DEF Asks, IInv
      <3>3. chain[n] # <<>> /\ Job(n).job = "reserve"
        BY <3>2 DEF Progress
      <3>4. Reserves(n, 1, Conn(m))
        BY <1>0, <3>2, <3>3, HeadJob
      <3>5. n = m
        BY <2>2, <3>4 DEF IInv, QueueInv, ReservedOnce
      <3> QED BY <1>6, <3>2, <3>5 DEF PastClaim
    <2> QED BY <2>3, <2>4 DEF SafeStep, RegistryStep
  <1>7. op'[m].prev # NoRec => Past(op[m].prev.conn)'
    BY <1>3, <1>4 DEF Past, Reserves
  <1>8. op'[m].fenced /\ op'[m].at \in PastClaim => Gone(op[m].prev)'
    BY <1>3, <1>5 DEF Gone, SameGeneration, Open
  <1> QED BY <1>0, <1>1, <1>2, <1>6, <1>7, <1>8 DEF Progress, PastClaim

\* A node that does not come to count on a connection in this step.
Quiet(n) ==
  \A c \in Conns : Engaged(n, c)' => Engaged(n, c) /\ (Serves(n, c)' => Serves(n, c))

\* A record that somebody counts on is kept.
LEMMA OwnershipKept ==
  ASSUME IInv, SafeStep,
         \A n \in Nodes : \A c \in Conns :
            Engaged(n, c)' => /\ Engaged(n, c) \/ Names(n, c)'
                              /\ Serves(n, c)' => (Engaged(n, c) /\ Serves(n, c)) \/ db'.rec.state = "active"
  PROVE  Ownership'
  <1>1. ASSUME NEW n \in Nodes, NEW c \in Conns, Engaged(n, c)'
        PROVE  Names(n, c)' /\ (Serves(n, c)' => db'.rec.state = "active")
    <2>1. CASE Engaged(n, c)
      <3>1. Names(n, c) /\ (Serves(n, c) => db.rec.state = "active")
        BY <2>1 DEF IInv, Ownership
      <3>2. ~Free /\ db.rec # NoRec /\ Open(db.rec.conn)
        <4>1. db.rec.node = n /\ db.rec.conn = c /\ Open(c) /\ db.rec \in Recs
          BY <2>1, <3>1, RegistryType DEF Names, Engaged, IInv, TypeInv
        <4> QED BY <2>1, <4>1, RecType DEF Free
      <3>3. RecKept(db, db') \/ db'.rec = db.rec
        BY <3>2 DEF SafeStep, RegistryStep, Takes, Asks
      <3>4. db'.rec.conn = c /\ db'.rec.node = n /\ (db.rec.state = "active" => db'.rec.state = "active")
        BY <3>1, <3>3 DEF RecKept, SameGeneration, Names
      <3> QED BY <1>1, <3>1, <3>4 DEF Names
    <2>2. CASE ~Engaged(n, c)
      BY <1>1, <2>2
    <2> QED BY <2>1, <2>2
  <1> QED BY <1>1 DEF Ownership

\* Nobody comes to count on a connection by standing by, or by leaving a job.
LEMMA QuietKept ==
  ASSUME IInv, SafeStep, NEW n \in Nodes,
         \A c \in Conns : stream'[c] = stream[c] \/ (Open(c) /\ stream'[c].st = "closed"),
         (op'[n] = op[n] /\ Moved(n, 0)) \/ op'[n] = Idle
  PROVE  Quiet(n)
  <1>0. TypeInv /\ TypeInv' /\ Progress(n) /\ (status'[n] = "safe" => status[n] = "safe")
    BY DEF IInv, SafeStep, StatusStep
  <1>1. ASSUME op'[n] = op[n], Moved(n, 0), op[n].at # "idle" PROVE Conn(n)' = Conn(n)
    <2>1. chain[n] # <<>> /\ chain'[n] # <<>> /\ chain'[n][1] = chain[n][1]
      BY <1>0, <1>1 DEF Progress, Moved
    <2>2. Job(n) = chain[n][1] /\ Job(n)' = chain'[n][1]
      BY <1>0, <2>1 DEF TypeInv, Job
    <2> QED BY <2>1, <2>2 DEF Conn
  <1>2. ASSUME NEW c \in Conns, Engaged(n, c)'
        PROVE  Engaged(n, c) /\ (Serves(n, c)' => Serves(n, c))
    <2>1. stream'[c] = stream[c] /\ Open(c)
      BY <1>2 DEF Engaged, Open
    <2>2. CASE op'[n] = op[n] /\ Moved(n, 0)
      BY <1>0, <1>1, <1>2, <2>1, <2>2 DEF Engaged, Serves, Open, PastClaim
    <2>3. CASE op'[n] = Idle
      <3>1. op'[n].at = "idle" /\ op'[n].at \notin PastClaim
        BY <2>3 DEF Idle, PastClaim
      <3> QED BY <1>0, <1>2, <2>1, <3>1 DEF Engaged, Serves, Open
    <2> QED BY <2>2, <2>3
  <1> QED BY <1>2 DEF Quiet

\* A node between two jobs.
LEMMA IdleKept ==
  ASSUME NEW n \in Nodes, op'[n] = Idle
  PROVE  Progress(n)'
  <1>1. /\ op'[n].at = "idle" /\ op'[n].prev = NoRec /\ op'[n].ok = FALSE /\ op'[n].fenced = FALSE
        /\ op'[n].at \notin PastClaim
    BY DEF Idle, PastClaim
  <1> QED BY <1>1 DEF Progress, Staged

\* A step of node n, whose own part is shown apart.
LEMMA Compose ==
  ASSUME IInv, SafeStep, NEW n \in Nodes,
         \A m \in Nodes \ {n} : op'[m] = op[m] /\ Moved(m, 0) /\ Quiet(m),
         Progress(n)',
         \A c \in Conns :
            Engaged(n, c)' => /\ Engaged(n, c) \/ Names(n, c)'
                              /\ Serves(n, c)' => (Engaged(n, c) /\ Serves(n, c)) \/ db'.rec.state = "active"
  PROVE  IInv'
  <1>1. TypeInv'
    BY DEF SafeStep
  <1>2. QueueInv'
    BY <1>1, QueueKept DEF IInv, SafeStep
  <1>3. ASSUME NEW m \in Nodes PROVE Progress(m)'
    BY BystanderKept
  <1>4. Registered'
    BY RegisteredKept
  <1>5. \A m \in Nodes : \A c \in Conns :
            Engaged(m, c)' => /\ Engaged(m, c) \/ Names(m, c)'
                              /\ Serves(m, c)' => (Engaged(m, c) /\ Serves(m, c)) \/ db'.rec.state = "active"
    BY DEF Quiet
  <1>6. Ownership'
    BY <1>5, OwnershipKept
  <1>7. RecordIsIndexed'
    BY DEF SafeStep, RegistryStep, Indexed, RecordIsIndexed
  <1> QED BY <1>1, <1>2, <1>3, <1>4, <1>6, <1>7 DEF IInv

\* A step in which streams at most end, and node n at most leaves its job.
LEMMA CalmKept ==
  ASSUME IInv, SafeStep, NEW n \in Nodes,
         \A m \in Nodes \ {n} : op'[m] = op[m] /\ Moved(m, 0),
         (op'[n] = op[n] /\ Moved(n, 0)) \/ op'[n] = Idle,
         \A c \in Conns : stream'[c] = stream[c] \/ (Open(c) /\ stream'[c].st = "closed")
  PROVE  IInv'
  <1>1. \A m \in Nodes : Quiet(m)
    BY QuietKept
  <1>2. Progress(n)'
    BY BystanderKept, IdleKept
  <1>3. \A c \in Conns :
            Engaged(n, c)' => /\ Engaged(n, c) \/ Names(n, c)'
                              /\ Serves(n, c)' => (Engaged(n, c) /\ Serves(n, c)) \/ db'.rec.state = "active"
    BY <1>1 DEF Quiet
  <1> QED BY <1>1, <1>2, <1>3, Compose

\* A step of node n within its job: it goes on with what it knows of its predecessor.
LEMMA WorkKept ==
  ASSUME IInv, SafeStep, NEW n \in Nodes,
         \A m \in Nodes \ {n} : op'[m] = op[m] /\ Moved(m, 0) /\ Quiet(m),
         chain'[n] # <<>>, chain[n] # <<>>, chain'[n][1] = chain[n][1],
         \A c \in Conns : stream'[c] = stream[c] \/ (Open(c) /\ stream'[c].st = "closed"),
         Staged(op'[n]), op'[n].prev = op[n].prev,
         op'[n].at \in PastClaim => op[n].at \in PastClaim,
         op'[n].at \in PastClaim \cup {"claim"} => Job(n).job = "reserve",
         op'[n].at = "activated" => Job(n).job = "activate" /\ db'.rec.state = "active",
         op'[n].fenced /\ op'[n].at \in PastClaim => (op[n].fenced /\ op[n].at \in PastClaim) \/ Gone(op[n].prev)',
         (op'[n].at = "committed" \/ op'[n].ok) =>
            op[n].at = "committed" \/ op[n].ok \/ (\A c \in Conns : c = Conn(n) => Names(n, c)')
  PROVE  IInv'
  <1>0. /\ TypeInv /\ TypeInv' /\ Progress(n) /\ op[n] \in Ops /\ op[n].prev \in Recs
        /\ status'[n] = "safe" => status[n] = "safe"
    BY DEF IInv, SafeStep, TypeInv, Ops, StatusStep
  <1>1. /\ Job(n) = chain[n][1] /\ Job(n)' = chain[n][1] /\ Conn(n)' = Conn(n) /\ Conn(n) \in Conns
    <2>1. Job(n) = chain[n][1] /\ Job(n)' = chain'[n][1] /\ Conn(n) \in Conns
      BY <1>0, HeadJob DEF TypeInv, Job
    <2> QED BY <2>1 DEF Conn
  <1>2. PICK p \in Recs : p = op[n].prev
    BY <1>0
  <1>3. p # NoRec => Past(p.conn) /\ Past(p.conn)'
    <2>1. p # NoRec => p.conn \in Conns /\ Past(p.conn)
      BY <1>0, <1>2, RecType DEF Progress
    <2> QED BY <2>1, PastKept
  <1>4. op'[n].fenced /\ op'[n].at \in PastClaim => Gone(p)'
    <2>1. op[n].fenced /\ op[n].at \in PastClaim => Gone(p) /\ p # NoRec
      BY <1>0, <1>2 DEF Progress, Staged
    <2>2. op[n].fenced /\ op[n].at \in PastClaim => Gone(p)'
      BY <1>3, <2>1, GoneKept
    <2>3. Gone(op[n].prev)' => Gone(p)'
      BY <1>2, <1>0 DEF Gone, SameGeneration, Open
    <2> QED BY <2>2, <2>3
  <1>5. ASSUME op'[n].at \in PastClaim, db'.claim.conn = Conn(n) PROVE db'.claim.prev = op[n].prev
    <2>0. op[n].at \in PastClaim
      BY <1>5
    <2>1. Job(n).job = "reserve" /\ Reserves(n, 1, Conn(n))
      BY <1>0, <1>5, HeadJob DEF Progress, PastClaim
    <2>3. CASE ClaimKept(db, db') \/ \E m \in Nodes : Takes(m)
      <3>1. NoClaim.conn # Conn(n)
        BY <1>1, Ids DEF NoClaim
      <3>2. db.claim.conn = Conn(n) /\ db'.claim.prev = db.claim.prev
        BY <1>5, <2>3, <3>1 DEF ClaimKept, Takes
      <3> QED BY <1>0, <2>0, <3>2 DEF Progress
    <2>4. CASE \E m \in Nodes : Asks(m)
      <3>1. PICK m \in Nodes : Asks(m)
        BY <2>4
      <3>2. op[m].at = "claim" /\ Conn(m) = Conn(n) /\ Progress(m)
        BY <1>5, <3>1 DEF Asks, IInv
      <3>3. chain[m] # <<>> /\ Job(m).job = "reserve"
        BY <3>2 DEF Progress
      <3>4. Reserves(m, 1, Conn(n))
        BY <1>0, <3>2, <3>3, HeadJob
      <3>5. n = m
        BY <1>1, <2>1, <3>4 DEF IInv, QueueInv, ReservedOnce
      <3> QED BY <2>0, <3>2, <3>5 DEF PastClaim
    <2> QED BY <2>3, <2>4 DEF SafeStep, RegistryStep
  <1>6. op'[n].prev # NoRec => Past(op[n].prev.conn)'
    BY <1>2, <1>3 DEF Past, Reserves
  <1>7. op'[n].fenced /\ op'[n].at \in PastClaim => Gone(op[n].prev)'
    BY <1>2, <1>4 DEF Gone, SameGeneration, Open
  <1>8. Progress(n)'
    BY <1>0, <1>1, <1>5, <1>6, <1>7 DEF Progress
  <1>9. ASSUME NEW c \in Conns, Engaged(n, c)'
        PROVE  /\ Engaged(n, c) \/ Names(n, c)'
               /\ Serves(n, c)' => (Engaged(n, c) /\ Serves(n, c)) \/ db'.rec.state = "active"
    <2>1. stream'[c] = stream[c] /\ Open(c) /\ stream[c].node = n /\ status[n] = "safe"
      BY <1>0, <1>9 DEF Engaged, Open
    <2>2. CASE stream[c].st \in {"ready", "active"}
      BY <1>9, <2>1, <2>2 DEF Engaged, Serves
    <2>3. CASE stream[c].st \notin {"ready", "active"}
      <3>1. op'[n].at \in PastClaim /\ Conn(n) = c /\ (op'[n].at = "committed" \/ op'[n].ok)
        BY <1>1, <1>9, <2>1, <2>3 DEF Engaged
      <3>2. Engaged(n, c) \/ Names(n, c)'
        BY <2>1, <3>1 DEF Engaged
      <3>3. ~Serves(n, c)'
        BY <2>1, <2>3, <3>1 DEF Serves, PastClaim
      <3> QED BY <3>2, <3>3
    <2> QED BY <2>2, <2>3
  <1> QED BY <1>8, <1>9, Compose

-----------------------------------------------------------------------------
(* The parts of the actions.                                                  *)

\* Appending a job.
LEMMA AppendJob ==
  ASSUME NEW q \in Seq(Tasks), NEW t \in Tasks
  PROVE  /\ Append(q, t) \in Seq(Tasks) /\ Append(q, t) # <<>>
         /\ \A j \in DOMAIN Append(q, t) : (j \in DOMAIN q /\ Append(q, t)[j] = q[j])
                                             \/ (j = Len(q) + 1 /\ Append(q, t)[j] = t)
         /\ \A j \in DOMAIN q : j \in DOMAIN Append(q, t) /\ Append(q, t)[j] = q[j]
         /\ q # <<>> => Append(q, t)[1] = q[1]
  <1>1. /\ Append(q, t) \in Seq(Tasks) /\ Len(Append(q, t)) = Len(q) + 1 /\ Len(q) \in Nat
        /\ DOMAIN q = 1..Len(q) /\ DOMAIN Append(q, t) = 1..(Len(q) + 1)
    OBVIOUS
  <1>2. /\ \A j \in 1..Len(q) : Append(q, t)[j] = q[j]
        /\ Append(q, t)[Len(q) + 1] = t
    OBVIOUS
  <1>3. Append(q, t) # <<>>
    BY <1>1
  <1>4. q # <<>> => 1 \in 1..Len(q)
    OBVIOUS
  <1> QED BY <1>1, <1>2, <1>3, <1>4

\* A queue without its head.
LEMMA TailJobs ==
  ASSUME NEW q \in Seq(Tasks), q # <<>>
  PROVE  /\ Tail(q) \in Seq(Tasks)
         /\ \A j \in DOMAIN Tail(q) : j + 1 \in DOMAIN q /\ Tail(q)[j] = q[j + 1]
  OBVIOUS

\* The job that cleanupStream() queues.
LEMMA UnregistersType ==
  ASSUME NEW q \in Seq(Tasks), NEW cs \in SUBSET Conns
  PROVE  /\ Unregisters(q, cs) \in Seq(Tasks)
         /\ \A j \in DOMAIN Unregisters(q, cs) :
               \/ j \in DOMAIN q /\ Unregisters(q, cs)[j] = q[j]
               \/ \E c \in cs : Unregisters(q, cs)[j] = Task("unregister", c)
         /\ \A j \in DOMAIN q : j \in DOMAIN Unregisters(q, cs) /\ Unregisters(q, cs)[j] = q[j]
         /\ q # <<>> => Unregisters(q, cs) # <<>> /\ Unregisters(q, cs)[1] = q[1]
  <1>1. CASE cs = {}
    <2>1. Unregisters(q, cs) = q
      BY <1>1 DEF Unregisters
    <2> QED BY <2>1
  <1>2. CASE cs # {}
    <2> DEFINE c == CHOOSE c \in cs : TRUE
               t == Task("unregister", c)
    <2>1. c \in cs
      BY <1>2
    <2> HIDE DEF c
    <2>2. t \in Tasks
      BY <2>1 DEF Task, Tasks
    <2>3. Unregisters(q, cs) = Append(q, t)
      BY <1>2 DEF Unregisters, c
    <2> HIDE DEF t
    <2>4. \A j \in DOMAIN Append(q, t) : (j \in DOMAIN q /\ Append(q, t)[j] = q[j]) \/ Append(q, t)[j] = t
      BY <2>2, AppendJob
    <2>5. Append(q, t) \in Seq(Tasks) /\ Append(q, t) # <<>> /\ (q # <<>> => Append(q, t)[1] = q[1])
          /\ \A j \in DOMAIN q : j \in DOMAIN Append(q, t) /\ Append(q, t)[j] = q[j]
      BY <2>2, AppendJob
    <2> QED BY <2>1, <2>3, <2>4, <2>5 DEF t
  <1> QED BY <1>1, <1>2

\* Streams that end.
LEMMA ClosedType ==
  ASSUME TypeInv, NEW cs \in SUBSET Conns, \A c \in cs : Open(c), stream' = Closed(cs)
  PROVE  /\ stream' \in [Conns -> Streams]
         /\ \A c \in Conns : stream'[c] = stream[c] \/ (Open(c) /\ stream'[c].st = "closed")
         /\ \A c \in Conns : Open(c)' => stream'[c].node \in Nodes
         /\ \A c \in cs : stream'[c].st = "closed"
         /\ \A c \in Conns : StreamStep(c)
  <1>1. \A c \in Conns : /\ c \in cs => stream'[c] = [st |-> "closed", node |-> None]
                         /\ c \notin cs => stream'[c] = stream[c]
    BY DEF Closed
  <1>2. [st |-> "closed", node |-> None] \in Streams
    BY DEF Streams
  <1>3. stream' \in [Conns -> Streams]
    <2>1. \A c \in Conns : stream'[c] \in Streams
      BY <1>1, <1>2 DEF TypeInv
    <2> QED BY <2>1 DEF Closed
  <1>4. \A c \in Conns : stream'[c] = stream[c] \/ (Open(c) /\ stream'[c].st = "closed")
    BY <1>1
  <1>5. \A c \in Conns : Open(c)' => stream'[c].node \in Nodes
    BY <1>4 DEF TypeInv, Open
  <1> QED BY <1>1, <1>3, <1>4, <1>5 DEF StreamStep

\* A node the step does not touch.
LEMMA Untouched ==
  ASSUME TypeInv, NEW m \in Nodes, chain'[m] = chain[m], op'[m] = op[m]
  PROVE  Moved(m, 0)
  <1>1. chain[m] \in Seq(Tasks)
    BY DEF TypeInv
  <1>2. \A j \in DOMAIN chain'[m] : j + 0 \in DOMAIN chain[m] /\ chain'[m][j] = chain[m][j + 0]
    BY <1>1
  <1> QED BY <1>2 DEF Moved

\* A queue to which unregistrations of ended streams are appended.
LEMMA UnregisterMoves ==
  ASSUME TypeInv, NEW m \in Nodes, NEW cs \in SUBSET Conns, \A c \in cs : stream'[c].st = "closed",
         NEW q \in Seq(Tasks), chain'[m] = Unregisters(q, cs)
  PROVE  /\ q = chain[m] /\ (op[m].at \notin {"idle", "claim"} => op'[m].at \notin {"idle", "claim"}) => Moved(m, 0)
         /\ chain[m] # <<>> /\ q = Tail(chain[m]) => Moved(m, 1)
         /\ chain'[m] \in Seq(Tasks)
  <1>1. ASSUME NEW c \in cs PROVE /\ Task("unregister", c).job # "reserve"
                                  /\ Fits(stream', m, Task("unregister", c))
    <2>1. Task("unregister", c).job = "unregister" /\ Task("unregister", c).conn = c
      BY DEF Task
    <2> QED BY <2>1 DEF Fits
  <1>2. \A j \in DOMAIN chain'[m] : \/ j \in DOMAIN q /\ chain'[m][j] = q[j]
                                    \/ chain'[m][j].job # "reserve" /\ Fits(stream', m, chain'[m][j])
    BY <1>1, UnregistersType
  <1>3. chain'[m] \in Seq(Tasks) /\ (q # <<>> => chain'[m] # <<>> /\ chain'[m][1] = q[1])
    BY UnregistersType
  <1>4. ASSUME q = chain[m] PROVE \A j \in DOMAIN chain'[m] :
               \/ j + 0 \in DOMAIN chain[m] /\ chain'[m][j] = chain[m][j + 0]
               \/ chain'[m][j].job # "reserve" /\ Fits(stream', m, chain'[m][j])
    <2>1. \A j \in DOMAIN chain'[m] : j + 0 = j
      BY <1>3
    <2> QED BY <1>2, <1>4, <2>1
  <1>5. ASSUME chain[m] # <<>>, q = Tail(chain[m]) PROVE \A j \in DOMAIN chain'[m] :
               \/ j + 1 \in DOMAIN chain[m] /\ chain'[m][j] = chain[m][j + 1]
               \/ chain'[m][j].job # "reserve" /\ Fits(stream', m, chain'[m][j])
    <2>1. chain[m] \in Seq(Tasks)
      BY DEF TypeInv
    <2>2. \A j \in DOMAIN q : j + 1 \in DOMAIN chain[m] /\ q[j] = chain[m][j + 1]
      BY <1>5, <2>1, TailJobs
    <2> QED BY <1>2, <2>2
  <1> QED BY <1>3, <1>4, <1>5 DEF Moved

\* The node's progress is replaced.
LEMMA OpSet ==
  ASSUME TypeInv, NEW n \in Nodes, NEW o \in Ops, op' = [op EXCEPT ![n] = o]
  PROVE  op' \in [Nodes -> Ops] /\ op'[n] = o /\ \A m \in Nodes \ {n} : op'[m] = op[m]
  BY DEF TypeInv

\* The next stage.
LEMMA GotoStep ==
  ASSUME TypeInv, NEW n \in Nodes, NEW x \in Stages, Goto(n, x)
  PROVE  /\ op' \in [Nodes -> Ops] /\ \A m \in Nodes \ {n} : op'[m] = op[m]
         /\ op'[n].at = x /\ op'[n].att = op[n].att /\ op'[n].prev = op[n].prev
         /\ op'[n].fenced = op[n].fenced /\ op'[n].ok = op[n].ok
  <1> DEFINE o == [op[n] EXCEPT !.at = x]
  <1>1. op[n] \in Ops
    BY DEF TypeInv
  <1>2. /\ o \in Ops /\ o.at = x /\ o.att = op[n].att /\ o.prev = op[n].prev
        /\ o.fenced = op[n].fenced /\ o.ok = op[n].ok
    BY <1>1 DEF Ops
  <1>3. op' = [op EXCEPT ![n] = o]
    BY DEF Goto, TypeInv
  <1> HIDE DEF o
  <1> QED BY <1>2, <1>3, OpSet

\* A fault is counted.
LEMMA SpendType ==
  ASSUME TypeInv, NEW o, Spend(o)
  PROVE  faults' \in Nat
  BY DEF Spend, TypeInv

\* The registry is left alone, or loses its claim, its metadata or a free record.
LEMMA RegistryMoves ==
  ASSUME db' \in Registries, Indexed(db'), ClaimKept(db, db'),
         db'.rec = db.rec \/ RecKept(db, db') \/ (db'.rec = NoRec /\ Free)
  PROVE  RegistryStep
  BY DEF RegistryStep, RecKept, SameGeneration

\* The registry does not change.
LEMMA RegistrySame ==
  ASSUME IInv, db' = db
  PROVE  RegistryStep
  <1>1. db' \in Registries /\ Indexed(db')
    BY DEF IInv, TypeInv, RecordIsIndexed, Indexed
  <1> QED BY <1>1, RegistryMoves DEF ClaimKept

\* Nobody counts on a record whose stream has ended or whose node has no lease.
LEMMA FreeWhen ==
  ASSUME ~Open(db.rec.conn) \/ status[db.rec.node] # "safe"
  PROVE  Free
  BY DEF Free, Engaged

\* A job ends.
LEMMA FinishKept ==
  ASSUME IInv, NEW n \in Nodes, chain[n] # <<>>, NEW closing \in BOOLEAN, Finish(n, closing),
         RegistryStep, UNCHANGED status, faults' \in Nat, metas' \in Nat
  PROVE  IInv'
  <1>0. TypeInv /\ chain[n] \in Seq(Tasks) /\ Conn(n) \in Conns
    BY HeadJob DEF IInv
  <1> DEFINE cs == IF closing /\ Open(Conn(n)) THEN {Conn(n)} ELSE {}
             q == Unregisters(Tail(chain[n]), cs)
  <1>1. cs \in SUBSET Conns /\ \A c \in cs : Open(c)
    BY <1>0
  <1>2. op' = [op EXCEPT ![n] = Idle] /\ chain' = [chain EXCEPT ![n] = q] /\ stream' = Closed(cs)
    BY DEF Finish
  <1> HIDE DEF cs
  <1>3. op' \in [Nodes -> Ops] /\ op'[n] = Idle /\ \A m \in Nodes \ {n} : op'[m] = op[m]
    BY <1>0, <1>2, OpSet, Constants
  <1>4. /\ stream' \in [Conns -> Streams]
        /\ \A c \in Conns : stream'[c] = stream[c] \/ (Open(c) /\ stream'[c].st = "closed")
        /\ \A c \in Conns : Open(c)' => stream'[c].node \in Nodes
        /\ \A c \in cs : stream'[c].st = "closed"
        /\ \A c \in Conns : StreamStep(c)
    BY <1>0, <1>1, <1>2, ClosedType
  <1>5. Tail(chain[n]) \in Seq(Tasks)
    BY <1>0, TailJobs
  <1>6. q \in Seq(Tasks)
    BY <1>1, <1>5, UnregistersType
  <1>7. chain'[n] = q /\ \A m \in Nodes \ {n} : chain'[m] = chain[m]
    BY <1>0, <1>2 DEF TypeInv
  <1>8. Moved(n, 1)
    BY <1>0, <1>1, <1>4, <1>5, <1>7, UnregisterMoves
  <1>9. chain' \in [Nodes -> Seq(Tasks)]
    BY <1>0, <1>2, <1>6 DEF TypeInv
  <1>10. \A m \in Nodes \ {n} : Moved(m, 0)
    BY <1>0, <1>3, <1>7, Untouched
  <1>11. TypeInv'
    BY <1>0, <1>3, <1>4, <1>9 DEF TypeInv, RegistryStep
  <1>12. SafeStep
    BY <1>4, <1>8, <1>10, <1>11 DEF SafeStep, StatusStep, QueueStep
  <1> QED BY <1>3, <1>4, <1>10, <1>12, CalmKept

\* A step within a job that leaves queues and streams alone.
LEMMA StayKept ==
  ASSUME IInv, NEW n \in Nodes, chain[n] # <<>>, UNCHANGED <<chain, stream, status>>,
         RegistryStep, faults' \in Nat, metas' \in Nat,
         op' \in [Nodes -> Ops], \A m \in Nodes \ {n} : op'[m] = op[m],
         op[n].at \notin {"idle", "claim"} => op'[n].at \notin {"idle", "claim"},
         Staged(op'[n]), op'[n].prev = op[n].prev,
         op'[n].at \in PastClaim => op[n].at \in PastClaim,
         op'[n].at \in PastClaim \cup {"claim"} => Job(n).job = "reserve",
         op'[n].at = "activated" => Job(n).job = "activate" /\ db'.rec.state = "active",
         op'[n].fenced /\ op'[n].at \in PastClaim => (op[n].fenced /\ op[n].at \in PastClaim) \/ Gone(op[n].prev)',
         (op'[n].at = "committed" \/ op'[n].ok) =>
            op[n].at = "committed" \/ op[n].ok \/ (\A c \in Conns : c = Conn(n) => Names(n, c)')
  PROVE  IInv'
  <1>0. TypeInv
    BY DEF IInv
  <1>1. TypeInv'
    BY <1>0 DEF TypeInv, RegistryStep, Open
  <1>2. \A m \in Nodes \ {n} : Moved(m, 0)
    BY <1>0, Untouched
  <1>3. Moved(n, 0)
    <2>1. chain[n] \in Seq(Tasks)
      BY <1>0 DEF TypeInv
    <2>2. \A j \in DOMAIN chain'[n] : j + 0 \in DOMAIN chain[n] /\ chain'[n][j] = chain[n][j + 0]
      BY <2>1
    <2> QED BY <2>2 DEF Moved
  <1>4. SafeStep
    BY <1>1, <1>2, <1>3 DEF SafeStep, StatusStep, StreamStep, QueueStep
  <1>5. \A m \in Nodes \ {n} : Quiet(m)
    BY <1>2, <1>4, QuietKept
  <1> QED BY <1>2, <1>4, <1>5, WorkKept

-----------------------------------------------------------------------------
(* takeOwnership().                                                           *)

\* The job at hand.
LEMMA AtStage ==
  ASSUME IInv, NEW n \in Nodes, NEW j, NEW x, At(n, j, x)
  PROVE  /\ TypeInv /\ Progress(n) /\ chain[n] # <<>> /\ Job(n).job = j /\ op[n].at = x /\ op[n] \in Ops
         /\ Conn(n) \in Conns /\ op[n].prev \in Recs /\ Fits(stream, n, Job(n)) /\ Job(n).conn = Conn(n)
         /\ db \in Registries /\ Indexed(db) /\ Job(n) \in Tasks
  <1>1. TypeInv /\ Progress(n) /\ chain[n] # <<>> /\ Job(n).job = j /\ op[n].at = x
    BY DEF IInv, At
  <1>2. op[n] \in Ops /\ op[n].prev \in Recs /\ db \in Registries
    BY <1>1 DEF TypeInv, Ops
  <1>3. Conn(n) \in Conns /\ Job(n) = chain[n][1] /\ 1 \in DOMAIN chain[n] /\ Job(n) \in Tasks
    BY <1>1, HeadJob
  <1>4. Fits(stream, n, Job(n))
    BY <1>3 DEF IInv, QueueInv, Queued
  <1>5. Indexed(db)
    BY DEF IInv, RecordIsIndexed, Indexed
  <1> QED BY <1>1, <1>2, <1>3, <1>4, <1>5 DEF Conn

\* postEstablishCheck() begins.
LEMMA ReserveStartsKept ==
  ASSUME IInv, NEW n \in Nodes, ReserveStarts(n)
  PROVE  IInv'
  <1>1. At(n, "reserve", "idle") /\ UNCHANGED <<db, status, faults, metas>>
    BY DEF ReserveStarts
  <1>2. /\ TypeInv /\ Progress(n) /\ chain[n] # <<>> /\ Job(n).job = "reserve" /\ op[n].at = "idle"
    BY <1>1, AtStage
  <1>3. RegistryStep /\ faults' \in Nat /\ metas' \in Nat
    BY <1>1, <1>2, RegistrySame DEF TypeInv
  <1>4. CASE Goto(n, "claim") /\ UNCHANGED <<chain, stream>>
    <2>1. /\ op' \in [Nodes -> Ops] /\ \A m \in Nodes \ {n} : op'[m] = op[m]
          /\ op'[n].at = "claim" /\ op'[n].prev = op[n].prev /\ op'[n].ok = op[n].ok
      BY <1>2, <1>4, GotoStep DEF Stages
    <2>2. ~op[n].ok
      BY <1>2 DEF Progress, Staged
    <2>3. Staged(op'[n]) /\ ~op'[n].ok
      BY <2>1, <2>2 DEF Staged, PastClaim
    <2> QED BY <1>1, <1>2, <1>3, <1>4, <2>1, <2>3, StayKept DEF PastClaim
  <1>5. CASE Finish(n, TRUE)
    BY <1>1, <1>2, <1>3, <1>5, FinishKept
  <1> QED BY <1>4, <1>5 DEF ReserveStarts

\* A claim that is granted: its holder knows the predecessor that Redis remembers.
LEMMA GrantedKept ==
  ASSUME IInv, NEW n \in Nodes, chain[n] # <<>>, Job(n).job = "reserve", op[n].at = "claim",
         UNCHANGED <<chain, stream, status>>, RegistryStep, faults' \in Nat, metas' \in Nat,
         NEW x \in {"finally", "fence", "commit"}, NEW r \in Recs,
         x = "fence" => r # NoRec, x = "commit" => r = NoRec,
         op' = [op EXCEPT ![n] = [Idle EXCEPT !.prev = r, !.at = x]],
         db'.claim.conn = Conn(n), db'.claim.prev = r
  PROVE  IInv'
  <1> DEFINE o == [Idle EXCEPT !.prev = r, !.at = x]
  <1>0. TypeInv /\ x \in Stages /\ x \in PastClaim
    BY DEF IInv, Stages, PastClaim
  <1>1. o \in Ops /\ o.at = x /\ o.prev = r /\ o.fenced = FALSE /\ o.ok = FALSE
    BY <1>0 DEF Ops, Idle
  <1>2. op' = [op EXCEPT ![n] = o]
    OBVIOUS
  <1> HIDE DEF o
  <1>3. op' \in [Nodes -> Ops] /\ op'[n] = o /\ \A m \in Nodes \ {n} : op'[m] = op[m]
    BY <1>0, <1>1, <1>2, OpSet
  <1>4. TypeInv'
    BY <1>0, <1>3 DEF TypeInv, RegistryStep, Open
  <1>5. \A m \in Nodes \ {n} : Moved(m, 0)
    BY <1>0, <1>3, Untouched
  <1>6. Moved(n, 0)
    <2>1. chain[n] \in Seq(Tasks)
      BY <1>0 DEF TypeInv
    <2>2. \A j \in DOMAIN chain'[n] : j + 0 \in DOMAIN chain[n] /\ chain'[n][j] = chain[n][j + 0]
      BY <2>1
    <2> QED BY <2>2 DEF Moved
  <1>7. SafeStep
    BY <1>4, <1>5, <1>6 DEF SafeStep, StatusStep, StreamStep, QueueStep
  <1>8. \A m \in Nodes \ {n} : Quiet(m)
    BY <1>3, <1>5, <1>7, QuietKept
  <1>9. Progress(n)'
    <2>1. Registered'
      BY <1>7, RegisteredKept
    <2>2. Staged(o)
      BY <1>1 DEF Staged
    <2>3. r # NoRec => Past(db.claim.prev.conn)'
      BY <2>1 DEF Registered
    <2>4. r # NoRec => Past(op[n].prev.conn)'
      BY <1>1, <1>3, <2>3 DEF Past, Reserves
    <2> QED BY <1>0, <1>1, <1>3, <2>2, <2>4 DEF Progress, Job, Conn, PastClaim
  <1>10. ASSUME NEW c \in Conns, Engaged(n, c)'
         PROVE  Engaged(n, c) /\ (Serves(n, c)' => Serves(n, c))
    BY <1>0, <1>1, <1>3, <1>10 DEF Engaged, Serves, Open, PastClaim
  <1> QED BY <1>3, <1>5, <1>7, <1>8, <1>9, <1>10, Compose

\* createOwnershipClaim().
LEMMA CreateClaimKept ==
  ASSUME IInv, NEW n \in Nodes, CreateClaim(n)
  PROVE  IInv'
  <1>1. At(n, "reserve", "claim") /\ UNCHANGED <<status, metas>>
    BY DEF CreateClaim
  <1>2. /\ TypeInv /\ Progress(n) /\ chain[n] # <<>> /\ Job(n).job = "reserve" /\ op[n].at = "claim"
        /\ Conn(n) \in Conns /\ db \in Registries /\ Indexed(db) /\ Job(n) \in Tasks
    BY <1>1, AtStage
  <1> DEFINE r == CLAIM(db, n, Conn(n), Job(n).supersede)
  <1>3. PICK o \in Outcomes, late \in BOOLEAN :
          /\ Apply(o, r.db) /\ Spend(o)
          /\ IF o # "ok" THEN Goto(n, IF late THEN "ambiguous" ELSE "claim") /\ UNCHANGED <<chain, stream>>
             ELSE IF ~r.res.ok THEN Finish(n, TRUE)
             ELSE /\ op' = [op EXCEPT ![n] = [Idle EXCEPT !.prev = r.res.prev,
                                !.at = IF ~CanCommit(n) THEN "finally"
                                       ELSE IF r.res.prev # NoRec THEN "fence" ELSE "commit"]]
                  /\ UNCHANGED <<chain, stream>>
    BY DEF CreateClaim
  <1>4. /\ r.db \in Registries /\ r.db.rec = db.rec /\ r.db.members = db.members
        /\ ClaimKept(db, r.db) \/ (r.db.claim.conn = Conn(n) /\ r.db.claim.prev = db.rec)
        /\ r.res.ok \in BOOLEAN /\ r.res.prev \in Recs
        /\ r.res.ok => r.db.claim.conn = Conn(n) /\ r.db.claim.prev = r.res.prev
    <2>1. Job(n).supersede \in BOOLEAN
      BY <1>2 DEF Tasks
    <2> QED BY <1>2, <2>1, ClaimScript
  <1> HIDE DEF r
  <1>5. RegistryStep
    <2>1. CASE db' = db
      BY <2>1, RegistrySame
    <2>2. CASE db' = r.db
      <3>1. db' \in Registries /\ Indexed(db')
        BY <1>2, <1>4, <2>2 DEF Indexed
      <3> QED BY <1>2, <1>4, <2>2, <3>1, RegistryMoves DEF RegistryStep, Asks
    <2> QED BY <1>3, <2>1, <2>2 DEF Apply
  <1>6. faults' \in Nat /\ metas' \in Nat
    BY <1>1, <1>2, <1>3, SpendType DEF TypeInv
  <1>7. CASE o # "ok"
    <2> DEFINE x == IF late THEN "ambiguous" ELSE "claim"
    <2>1. x \in Stages /\ x \in {"ambiguous", "claim"}
      BY DEF Stages
    <2>2. Goto(n, x) /\ UNCHANGED <<chain, stream>>
      BY <1>3, <1>7
    <2> HIDE DEF x
    <2>3. /\ op' \in [Nodes -> Ops] /\ \A m \in Nodes \ {n} : op'[m] = op[m]
          /\ op'[n].at = x /\ op'[n].prev = op[n].prev /\ op'[n].ok = op[n].ok
      BY <1>2, <2>1, <2>2, GotoStep
    <2>4. ~op[n].ok
      BY <1>2 DEF Progress, Staged
    <2>5. Staged(op'[n]) /\ ~op'[n].ok
      BY <2>1, <2>3, <2>4 DEF Staged, PastClaim
    <2> QED BY <1>1, <1>2, <1>5, <1>6, <2>1, <2>2, <2>3, <2>5, StayKept DEF PastClaim
  <1>8. CASE o = "ok" /\ ~r.res.ok
    <2>1. Finish(n, TRUE)
      BY <1>3, <1>8
    <2> QED BY <1>1, <1>2, <1>5, <1>6, <2>1, FinishKept
  <1>9. CASE o = "ok" /\ r.res.ok
    <2> DEFINE x == IF ~CanCommit(n) THEN "finally" ELSE IF r.res.prev # NoRec THEN "fence" ELSE "commit"
    <2>1. x \in {"finally", "fence", "commit"} /\ (x = "fence" => r.res.prev # NoRec)
          /\ (x = "commit" => r.res.prev = NoRec)
      OBVIOUS
    <2>2. op' = [op EXCEPT ![n] = [Idle EXCEPT !.prev = r.res.prev, !.at = x]] /\ UNCHANGED <<chain, stream>>
      BY <1>3, <1>9
    <2> HIDE DEF x
    <2>3. db'.claim.conn = Conn(n) /\ db'.claim.prev = r.res.prev
      BY <1>3, <1>4, <1>9 DEF Apply
    <2> QED BY <1>1, <1>2, <1>4, <1>5, <1>6, <2>1, <2>2, <2>3, GrantedKept
  <1> QED BY <1>7, <1>8, <1>9

\* handleClientSuperseded() on the predecessor's node: the predecessor cannot deliver
\* any more, and the node goes on.
LEMMA SupersededKept ==
  ASSUME IInv, NEW n \in Nodes, At(n, "reserve", "fence"), Superseded(n, op[n].prev.node),
         UNCHANGED <<db, status, metas>>, faults' \in Nat,
         op' \in [Nodes -> Ops], \A m \in Nodes \ {n} : op'[m] = op[m],
         op'[n].at \in {"commit", "reconcile"}, op'[n].prev = op[n].prev, op'[n].ok = op[n].ok,
         op'[n].at = "commit" => op'[n].fenced
  PROVE  IInv'
  <1>1. /\ TypeInv /\ Progress(n) /\ chain[n] # <<>> /\ Job(n).job = "reserve" /\ op[n].at = "fence"
        /\ op[n].prev \in Recs
    BY AtStage
  <1>2. op[n].prev # NoRec /\ ~op[n].ok
    BY <1>1 DEF Progress, Staged
  <1>3. PICK m \in Nodes, d \in Conns : m = op[n].prev.node /\ d = op[n].prev.conn
    BY <1>1, <1>2, RecType
  <1> DEFINE cs == {c \in {d} : Open(c)}
  <1>4. stream' = Closed(cs) /\ chain' = [chain EXCEPT ![m] = Unregisters(chain[m], cs)]
    BY <1>3 DEF Superseded
  <1>5. cs \in SUBSET Conns /\ (\A c \in cs : Open(c)) /\ (Open(d) => d \in cs)
    OBVIOUS
  <1> HIDE DEF cs
  <1>6. /\ stream' \in [Conns -> Streams]
        /\ \A c \in Conns : stream'[c] = stream[c] \/ (Open(c) /\ stream'[c].st = "closed")
        /\ \A c \in Conns : Open(c)' => stream'[c].node \in Nodes
        /\ \A c \in cs : stream'[c].st = "closed"
        /\ \A c \in Conns : StreamStep(c)
    BY <1>1, <1>4, <1>5, ClosedType
  <1>7. ~Open(d)'
    BY <1>5, <1>6 DEF Open
  <1>8. chain[m] \in Seq(Tasks) /\ chain \in [Nodes -> Seq(Tasks)]
    BY <1>1 DEF TypeInv
  <1>9. /\ chain'[m] = Unregisters(chain[m], cs) /\ \A i \in Nodes \ {m} : chain'[i] = chain[i]
    BY <1>4, <1>8
  <1>10. chain'[m] \in Seq(Tasks) /\ (chain[m] # <<>> => chain'[m] # <<>> /\ chain'[m][1] = chain[m][1])
    BY <1>5, <1>8, <1>9, UnregistersType
  <1>11. \A i \in Nodes : op[i].at \notin {"idle", "claim"} => op'[i].at \notin {"idle", "claim"}
    BY <1>1
  <1>12. Moved(m, 0)
    BY <1>1, <1>5, <1>6, <1>8, <1>9, <1>11, UnregisterMoves
  <1>13. ASSUME NEW i \in Nodes, i # m PROVE Moved(i, 0)
    <2>1. chain[i] \in Seq(Tasks) /\ chain'[i] = chain[i]
      BY <1>8, <1>9, <1>13
    <2>2. \A j \in DOMAIN chain'[i] : j + 0 \in DOMAIN chain[i] /\ chain'[i][j] = chain[i][j + 0]
      BY <2>1
    <2> QED BY <1>11, <2>1, <2>2 DEF Moved
  <1>14. \A i \in Nodes : Moved(i, 0)
    BY <1>12, <1>13
  <1>15. chain' \in [Nodes -> Seq(Tasks)]
    BY <1>4, <1>8, <1>9, <1>10
  <1>16. TypeInv' /\ RegistryStep
    BY <1>1, <1>6, <1>15, RegistrySame DEF TypeInv
  <1>17. SafeStep
    BY <1>6, <1>14, <1>16 DEF SafeStep, StatusStep, QueueStep
  <1>18. \A i \in Nodes \ {n} : Quiet(i)
    BY <1>6, <1>14, <1>17, QuietKept
  <1>19. Staged(op'[n]) /\ ~op'[n].ok
    BY <1>2 DEF Staged, PastClaim
  <1>20. Gone(op[n].prev)'
    BY <1>3, <1>7 DEF Gone, Open
  <1>21. chain'[n] # <<>> /\ chain'[n][1] = chain[n][1]
    BY <1>1, <1>9, <1>10
  <1>22. op'[n].at # "committed" /\ op'[n].at # "activated" /\ op[n].at \in PastClaim
    BY <1>1 DEF PastClaim
  <1> QED BY <1>1, <1>6, <1>14, <1>17, <1>18, <1>19, <1>20, <1>21, <1>22, WorkKept

\* A step of takeOwnership() that does no more than go on, with its own record or none.
LEMMA ReserveGoes ==
  ASSUME IInv, NEW n \in Nodes, NEW y \in PastClaim, At(n, "reserve", y),
         UNCHANGED <<status, stream, chain, metas>>, RegistryStep, faults' \in Nat,
         NEW o \in Ops, op' = [op EXCEPT ![n] = o], o.prev = op[n].prev, Staged(o),
         o.at \in PastClaim \cup {"ambiguous"},
         o.fenced => op[n].fenced \/ Gone(op[n].prev)',
         (o.at = "committed" \/ o.ok) => y = "committed" \/ \A c \in Conns : c = Conn(n) => Names(n, c)'
  PROVE  IInv'
  <1>1. /\ TypeInv /\ Progress(n) /\ chain[n] # <<>> /\ Job(n).job = "reserve" /\ op[n].at = y
    BY AtStage
  <1>2. op' \in [Nodes -> Ops] /\ op'[n] = o /\ \A m \in Nodes \ {n} : op'[m] = op[m]
    BY <1>1, OpSet
  <1>3. metas' \in Nat /\ o.at \notin {"idle", "claim", "activated"}
    BY <1>1 DEF TypeInv, PastClaim
  <1> QED BY <1>1, <1>2, <1>3, StayKept

\* The same for Goto().
LEMMA ReserveGoto ==
  ASSUME IInv, NEW n \in Nodes, NEW y \in PastClaim, At(n, "reserve", y),
         UNCHANGED <<status, stream, chain, metas>>, RegistryStep, faults' \in Nat,
         NEW x \in {"finally", "fence", "reconcile"}, Goto(n, x), x # "finally" => y \in {"fence", "reconcile"},
         y # "finally"
  PROVE  IInv'
  <1>1. /\ TypeInv /\ Progress(n) /\ chain[n] # <<>> /\ Job(n).job = "reserve" /\ op[n].at = y
    BY AtStage
  <1>2. x \in Stages /\ x \in PastClaim /\ x # "committed"
    BY DEF Stages, PastClaim
  <1>3. /\ op' \in [Nodes -> Ops] /\ \A m \in Nodes \ {n} : op'[m] = op[m]
        /\ op'[n].at = x /\ op'[n].prev = op[n].prev
        /\ op'[n].fenced = op[n].fenced /\ op'[n].ok = op[n].ok
    BY <1>1, <1>2, GotoStep
  <1>4. Staged(op'[n]) /\ ~op'[n].ok
    BY <1>1, <1>2, <1>3 DEF Progress, Staged
  <1>5. metas' \in Nat /\ x \notin {"idle", "claim", "activated"}
    BY <1>1 DEF TypeInv
  <1> QED BY <1>1, <1>2, <1>3, <1>4, <1>5, StayKept

\* fencePreviousOwner().
LEMMA FencePreviousOwnerKept ==
  ASSUME IInv, NEW n \in Nodes, FencePreviousOwner(n)
  PROVE  IInv'
  <1>1. At(n, "reserve", "fence") /\ UNCHANGED <<db, status, metas>>
    BY DEF FencePreviousOwner
  <1>2. /\ TypeInv /\ Progress(n) /\ chain[n] # <<>> /\ Job(n).job = "reserve" /\ op[n].at = "fence"
        /\ op[n] \in Ops
    BY <1>1, AtStage
  <1>3. RegistryStep /\ "fence" \in PastClaim /\ faults \in Nat
    BY <1>1, <1>2, RegistrySame DEF PastClaim, TypeInv
  <1>4. CASE /\ Superseded(n, op[n].prev.node)
             /\ op' = [op EXCEPT ![n].at = "commit", ![n].fenced = TRUE] /\ UNCHANGED faults
    <2> DEFINE o == [op[n] EXCEPT !.at = "commit", !.fenced = TRUE]
    <2>1. o \in Ops /\ o.at = "commit" /\ o.fenced = TRUE /\ o.prev = op[n].prev /\ o.ok = op[n].ok
      BY <1>2 DEF Ops, Stages, PastClaim
    <2>2. op' = [op EXCEPT ![n] = o]
      BY <1>2, <1>4 DEF TypeInv
    <2> HIDE DEF o
    <2>3. op' \in [Nodes -> Ops] /\ op'[n] = o /\ \A m \in Nodes \ {n} : op'[m] = op[m]
      BY <1>2, <2>1, <2>2, OpSet
    <2> QED BY <1>1, <1>3, <1>4, <2>1, <2>3, SupersededKept
  <1>5. CASE Goto(n, "finally") /\ UNCHANGED <<stream, chain>> /\ faults' \in Nat
    BY <1>1, <1>3, <1>5, ReserveGoto
  <1>6. CASE Goto(n, "reconcile") /\ UNCHANGED <<stream, chain>> /\ faults' \in Nat
    BY <1>1, <1>3, <1>6, ReserveGoto
  <1>7. CASE Goto(n, "reconcile") /\ Superseded(n, op[n].prev.node) /\ faults' \in Nat
    <2>1. /\ op' \in [Nodes -> Ops] /\ \A m \in Nodes \ {n} : op'[m] = op[m]
          /\ op'[n].at = "reconcile" /\ op'[n].prev = op[n].prev /\ op'[n].ok = op[n].ok
      BY <1>2, <1>7, GotoStep DEF Stages, PastClaim
    <2> QED BY <1>1, <1>7, <2>1, SupersededKept
  <1>8. faults + 1 \in Nat
    BY <1>3
  <1> QED BY <1>3, <1>4, <1>5, <1>6, <1>7, <1>8 DEF FencePreviousOwner

\* The read after an indeterminate fence.
LEMMA ReconcileFenceKept ==
  ASSUME IInv, NEW n \in Nodes, ReconcileFence(n)
  PROVE  IInv'
  <1>1. At(n, "reserve", "reconcile") /\ UNCHANGED <<db, status, stream, chain, faults, metas>>
    BY DEF ReconcileFence
  <1>2. /\ TypeInv /\ Progress(n) /\ chain[n] # <<>> /\ Job(n).job = "reserve" /\ op[n].at = "reconcile"
        /\ op[n] \in Ops
    BY <1>1, AtStage
  <1>3. RegistryStep /\ "reconcile" \in PastClaim /\ faults' \in Nat
    BY <1>1, <1>2, RegistrySame DEF PastClaim, TypeInv
  <1>4. CASE /\ ~SameGeneration(db.rec, op[n].prev)
             /\ op' = [op EXCEPT ![n].at = "commit", ![n].fenced = TRUE]
    <2> DEFINE o == [op[n] EXCEPT !.at = "commit", !.fenced = TRUE]
    <2>1. o \in Ops /\ o.at = "commit" /\ o.fenced = TRUE /\ o.prev = op[n].prev /\ o.ok = op[n].ok
      BY <1>2 DEF Ops, Stages, PastClaim
    <2>2. op' = [op EXCEPT ![n] = o]
      BY <1>2, <1>4 DEF TypeInv
    <2> HIDE DEF o
    <2>3. op'[n] = o
      BY <1>2, <2>1, <2>2, OpSet
    <2>4. Gone(op[n].prev)'
      BY <1>1, <1>4, <2>1, <2>3 DEF Gone, SameGeneration
    <2>5. Staged(o) /\ ~o.ok
      BY <1>2, <2>1 DEF Progress, Staged
    <2>6. o.at \in PastClaim \cup {"ambiguous"}
      BY <2>1 DEF PastClaim
    <2> QED BY <1>1, <1>3, <2>1, <2>2, <2>4, <2>5, <2>6, ReserveGoes
  <1>5. CASE Goto(n, "fence") \/ Goto(n, "finally")
    BY <1>1, <1>3, <1>5, ReserveGoto
  <1> QED BY <1>4, <1>5 DEF ReconcileFence

\* A further stage of takeOwnership(), whatever the count of its attempts.
LEMMA ReserveNext ==
  ASSUME IInv, NEW n \in Nodes, NEW y \in PastClaim, y # "finally", At(n, "reserve", y),
         UNCHANGED <<status, stream, chain, metas>>, RegistryStep, faults' \in Nat,
         NEW x \in PastClaim \cup {"ambiguous"}, NEW a \in Nat, NEW k \in BOOLEAN,
         op' = [op EXCEPT ![n] = [op[n] EXCEPT !.at = x, !.att = a, !.ok = k]],
         k => x = "finally",
         x \notin {"fence", "reconcile"},
         x \in {"commit", "check"} => y \in {"commit", "check"} \/ op[n].fenced,
         x \in {"removePrevious", "removeFenced"} => op[n].fenced,
         (x = "committed" \/ k) => y = "committed" \/ \A c \in Conns : c = Conn(n) => Names(n, c)'
  PROVE  IInv'
  <1> DEFINE o == [op[n] EXCEPT !.at = x, !.att = a, !.ok = k]
  <1>1. TypeInv /\ Progress(n) /\ op[n].at = y /\ op[n] \in Ops
    BY AtStage
  <1>2. x \in Stages
    BY DEF Stages
  <1>3. o \in Ops /\ o.at = x /\ o.prev = op[n].prev /\ o.fenced = op[n].fenced /\ o.ok = k
    BY <1>1, <1>2 DEF Ops
  <1>4. op' = [op EXCEPT ![n] = o]
    OBVIOUS
  <1> HIDE DEF o
  <1>5. op[n].fenced => op[n].prev # NoRec
    BY <1>1 DEF Progress, Staged
  <1>6. y \in {"commit", "check"} /\ op[n].prev # NoRec => op[n].fenced
    BY <1>1 DEF Progress, Staged
  <1>7. Staged(o)
    BY <1>3, <1>5, <1>6, Zenon DEF Staged
  <1> QED BY <1>3, <1>4, <1>7, ReserveGoes

\* REMOVE_CLAIM_PREVIOUS after the fence takes a record nobody counts on.
LEMMA RemovesPrevious ==
  ASSUME IInv, NEW n \in Nodes, NEW y \in PastClaim, At(n, "reserve", y), op[n].fenced
  PROVE  /\ REMOVE_PREVIOUS(db, n, Conn(n)).db \in Registries
         /\ Indexed(REMOVE_PREVIOUS(db, n, Conn(n)).db)
         /\ REMOVE_PREVIOUS(db, n, Conn(n)).db.claim = db.claim
         /\ \/ REMOVE_PREVIOUS(db, n, Conn(n)).db.rec = db.rec
            \/ REMOVE_PREVIOUS(db, n, Conn(n)).db.rec = NoRec /\ Free
  <1>1. /\ TypeInv /\ Progress(n) /\ op[n].at = y /\ db \in Registries /\ Indexed(db) /\ Conn(n) \in Conns
    BY AtStage
  <1> DEFINE e == REMOVE_PREVIOUS(db, n, Conn(n)).db
  <1>2. /\ e \in Registries /\ Indexed(e) /\ e.claim = db.claim
        /\ e.rec = db.rec \/ (e.rec = NoRec /\ db.claim.conn = Conn(n) /\ SameGeneration(db.rec, db.claim.prev))
    BY <1>1, RemovePreviousScript
  <1> HIDE DEF e
  <1>3. ASSUME db.claim.conn = Conn(n), SameGeneration(db.rec, db.claim.prev) PROVE Free
    <2>1. db.claim.prev = op[n].prev /\ Gone(op[n].prev)
      BY <1>1, <1>3 DEF Progress
    <2>2. ~Open(db.rec.conn)
      BY <1>3, <2>1 DEF Gone, SameGeneration
    <2> QED BY <2>2, FreeWhen
  <1> QED BY <1>2, <1>3 DEF e

\* The same for a call that may fail before or after it applies.
LEMMA RemovesPreviousStep ==
  ASSUME IInv, NEW n \in Nodes, NEW y \in PastClaim, At(n, "reserve", y), op[n].fenced,
         NEW o, Apply(o, REMOVE_PREVIOUS(db, n, Conn(n)).db)
  PROVE  RegistryStep
  <1>1. CASE db' = db
    BY <1>1, RegistrySame
  <1>2. CASE db' = REMOVE_PREVIOUS(db, n, Conn(n)).db
    BY <1>2, RemovesPrevious, RegistryMoves DEF ClaimKept
  <1> QED BY <1>1, <1>2 DEF Apply

\* commitOwnershipClaim().
LEMMA CommitClaimKept ==
  ASSUME IInv, NEW n \in Nodes, CommitClaim(n)
  PROVE  IInv'
  <1>1. At(n, "reserve", "commit") /\ UNCHANGED <<status, stream, chain, metas>>
    BY DEF CommitClaim
  <1>2. /\ TypeInv /\ Progress(n) /\ chain[n] # <<>> /\ Job(n).job = "reserve" /\ op[n].at = "commit"
        /\ op[n] \in Ops /\ Conn(n) \in Conns /\ db \in Registries /\ Indexed(db) /\ "commit" \in PastClaim
    BY <1>1, AtStage DEF PastClaim
  <1>3. CASE Goto(n, "finally") /\ UNCHANGED <<db, faults>>
    <2>1. RegistryStep /\ faults' \in Nat
      BY <1>2, <1>3, RegistrySame DEF TypeInv
    <2> QED BY <1>1, <1>2, <1>3, <2>1, ReserveGoto
  <1> DEFINE r == COMMIT(db, n, Conn(n))
  <1>4. ASSUME NEW o \in Outcomes, Apply(o, r.db), Spend(o),
               op' = [op EXCEPT ![n].at = IF o # "ok" \/ r.res = 0 THEN "check"
                                          ELSE IF r.res = 1 THEN "committed"
                                          ELSE IF op[n].fenced THEN "removePrevious" ELSE "finally"]
        PROVE  IInv'
    <2> DEFINE x == IF o # "ok" \/ r.res = 0 THEN "check"
                    ELSE IF r.res = 1 THEN "committed"
                    ELSE IF op[n].fenced THEN "removePrevious" ELSE "finally"
    <2>1. /\ r.db \in Registries /\ Indexed(r.db) /\ r.res \in {0, 1, 2}
          /\ \/ r.db.rec = db.rec /\ ClaimKept(db, r.db)
             \/ /\ db.claim.conn = Conn(n) /\ (db.rec = NoRec \/ db.rec = db.claim.prev)
                /\ r.db.rec = [node |-> n, conn |-> Conn(n), state |-> "pending", meta |-> 0]
                /\ r.db.claim = NoClaim
          /\ r.res = 1 => r.db.rec.node = n /\ r.db.rec.conn = Conn(n)
      BY <1>2, CommitScript
    <2> HIDE DEF r
    <2>2. /\ x \in {"check", "committed", "removePrevious", "finally"}
          /\ x = "removePrevious" => op[n].fenced
          /\ x = "committed" => o = "ok" /\ r.res = 1
      OBVIOUS
    <2>3. op' = [op EXCEPT ![n] = [op[n] EXCEPT !.at = x]]
      BY <1>2, <1>4 DEF TypeInv
    <2>4. [op[n] EXCEPT !.at = x] = [op[n] EXCEPT !.at = x, !.att = op[n].att, !.ok = op[n].ok]
      BY <1>2 DEF Ops
    <2> HIDE DEF x
    <2>5. x \in PastClaim /\ x \in Stages
      BY <2>2 DEF PastClaim, Stages
    <2>6. op[n].att \in Nat /\ op[n].ok \in BOOLEAN /\ ~op[n].ok
      BY <1>2 DEF Ops, Progress, Staged
    <2>7. op'[n].at = x
      BY <1>2, <2>3, <2>5 DEF TypeInv, Ops
    <2>8. ASSUME db.claim.conn = Conn(n), db.rec = db.claim.prev, db.rec # NoRec PROVE ~Open(db.rec.conn)
      <3>1. db.claim.prev = op[n].prev
        BY <1>2, <2>8 DEF Progress
      <3>2. Gone(op[n].prev)
        BY <1>2, <2>8, <3>1 DEF Progress, Staged
      <3> QED BY <2>8, <3>1, <3>2 DEF Gone, SameGeneration
    <2>9. RegistryStep
      <3>1. CASE db' = db
        BY <3>1, RegistrySame
      <3>2. CASE db' = r.db /\ r.db.rec = db.rec /\ ClaimKept(db, r.db)
        BY <2>1, <3>2, RegistryMoves
      <3>3. CASE /\ db' = r.db
                 /\ db.claim.conn = Conn(n) /\ (db.rec = NoRec \/ db.rec = db.claim.prev)
                 /\ r.db.rec = [node |-> n, conn |-> Conn(n), state |-> "pending", meta |-> 0]
                 /\ r.db.claim = NoClaim
        <4>1. db.rec = NoRec \/ ~Open(db.rec.conn)
          BY <2>8, <3>3
        <4>2. op'[n].at \notin {"idle", "claim"}
          BY <2>2, <2>7
        <4>3. Takes(n)
          BY <1>1, <1>2, <3>3, <4>1, <4>2 DEF Takes
        <4> QED BY <2>1, <3>3, <4>3 DEF RegistryStep
      <3> QED BY <1>4, <2>1, <3>1, <3>2, <3>3 DEF Apply
    <2>10. faults' \in Nat
      BY <1>2, <1>4, SpendType
    <2>11. x = "committed" => \A c \in Conns : c = Conn(n) => Names(n, c)'
      BY <1>4, <2>1, <2>2 DEF Apply, Names
    <2>12. PICK z \in PastClaim, a \in Nat, k \in BOOLEAN : z = x /\ a = op[n].att /\ k = op[n].ok
      BY <2>5, <2>6
    <2>13. op' = [op EXCEPT ![n] = [op[n] EXCEPT !.at = z, !.att = a, !.ok = k]]
      BY <2>3, <2>4, <2>12
    <2>14. /\ z \notin {"fence", "reconcile", "removeFenced"} /\ ~k
           /\ z = "removePrevious" => op[n].fenced
           /\ z = "committed" => \A c \in Conns : c = Conn(n) => Names(n, c)'
      BY <2>2, <2>6, <2>11, <2>12
    <2> HIDE DEF x
    <2> QED BY <1>1, <1>2, <2>9, <2>10, <2>13, <2>14, ReserveNext
  <1> QED BY <1>3, <1>4 DEF CommitClaim

\* The predecessor's changed record is removed.
LEMMA RemoveChangedPreviousKept ==
  ASSUME IInv, NEW n \in Nodes, RemoveChangedPrevious(n)
  PROVE  IInv'
  <1>1. At(n, "reserve", "removePrevious") /\ UNCHANGED <<status, stream, chain, metas>>
    BY DEF RemoveChangedPrevious
  <1>2. /\ TypeInv /\ Progress(n) /\ op[n].at = "removePrevious" /\ op[n] \in Ops
        /\ "removePrevious" \in PastClaim /\ op[n].att \in Nat /\ op[n].ok \in BOOLEAN
    BY <1>1, AtStage DEF PastClaim, Ops
  <1>3. op[n].fenced /\ ~op[n].ok
    BY <1>2 DEF Progress, Staged
  <1>4. PICK o \in Outcomes :
       /\ Apply(o, REMOVE_PREVIOUS(db, n, Conn(n)).db) /\ Spend(o)
       /\ IF o = "ok" THEN Goto(n, "check")
          ELSE op' = [op EXCEPT ![n].at = IF op[n].att + 1 < MaxAttempts THEN "commit" ELSE "removeFenced",
                                ![n].att = IF op[n].att + 1 < MaxAttempts THEN op[n].att + 1 ELSE 0]
    BY <1>2 DEF RemoveChangedPrevious, TypeInv, Ops
  <1>5. RegistryStep /\ faults' \in Nat
    BY <1>1, <1>2, <1>3, <1>4, RemovesPreviousStep, SpendType
  <1>6. \E x \in {"check", "commit", "removeFenced"}, a \in Nat :
           op' = [op EXCEPT ![n] = [op[n] EXCEPT !.at = x, !.att = a, !.ok = op[n].ok]]
    <2>1. CASE o = "ok"
      <3>1. op' = [op EXCEPT ![n] = [op[n] EXCEPT !.at = "check"]]
        BY <1>2, <1>4, <2>1 DEF Goto, TypeInv
      <3>2. [op[n] EXCEPT !.at = "check"] = [op[n] EXCEPT !.at = "check", !.att = op[n].att, !.ok = op[n].ok]
        BY <1>2 DEF Ops
      <3> QED BY <1>2, <3>1, <3>2
    <2>2. CASE o # "ok"
      <3> DEFINE x == IF op[n].att + 1 < MaxAttempts THEN "commit" ELSE "removeFenced"
                 a == IF op[n].att + 1 < MaxAttempts THEN op[n].att + 1 ELSE 0
      <3>1. x \in {"check", "commit", "removeFenced"} /\ a \in Nat
        BY <1>2
      <3>2. op' = [op EXCEPT ![n].at = x, ![n].att = a]
        BY <1>4, <2>2
      <3> HIDE DEF x, a
      <3>3. op' = [op EXCEPT ![n] = [op[n] EXCEPT !.at = x, !.att = a]]
        BY <1>2, <3>2 DEF TypeInv
      <3>4. [op[n] EXCEPT !.at = x, !.att = a] = [op[n] EXCEPT !.at = x, !.att = a, !.ok = op[n].ok]
        BY <1>2 DEF Ops
      <3> QED BY <3>1, <3>3, <3>4
    <2> QED BY <2>1, <2>2
  <1>7. PICK x \in {"check", "commit", "removeFenced"}, a \in Nat :
           op' = [op EXCEPT ![n] = [op[n] EXCEPT !.at = x, !.att = a, !.ok = op[n].ok]]
    BY <1>6
  <1>8. x \in PastClaim \cup {"ambiguous"} /\ x # "committed"
    BY DEF PastClaim
  <1> QED BY <1>1, <1>2, <1>3, <1>5, <1>7, <1>8, ReserveNext

\* The registry is read after a refused or unanswered commit.
LEMMA CheckCommitKept ==
  ASSUME IInv, NEW n \in Nodes, CheckCommit(n)
  PROVE  IInv'
  <1>1. At(n, "reserve", "check") /\ UNCHANGED <<db, status, stream, chain, metas>>
    BY DEF CheckCommit
  <1>2. /\ TypeInv /\ Progress(n) /\ op[n].at = "check" /\ op[n] \in Ops
        /\ "check" \in PastClaim /\ op[n].att \in Nat /\ op[n].ok \in BOOLEAN /\ Conn(n) \in Conns
    BY <1>1, AtStage DEF PastClaim, Ops
  <1>3. ~op[n].ok
    BY <1>2 DEF Progress, Staged
  <1>4. PICK o \in Outcomes \ {"lost"} :
       /\ Spend(o)
       /\ op' = [op EXCEPT ![n] =
             IF o = "ok" /\ IsCommittedClaim(n) THEN [op[n] EXCEPT !.at = "committed"]
             ELSE IF op[n].att + 1 < MaxAttempts THEN [op[n] EXCEPT !.at = "commit", !.att = op[n].att + 1]
             ELSE [op[n] EXCEPT !.at = IF op[n].fenced THEN "removeFenced" ELSE "removeResult", !.att = 0]]
    BY Zenon DEF CheckCommit
  <1>5. RegistryStep /\ faults' \in Nat
    BY <1>1, <1>2, <1>4, RegistrySame, SpendType, SMTT(30)
  <1>6. PICK x \in {"committed", "commit", "removeFenced", "removeResult"}, a \in Nat, k \in BOOLEAN :
          /\ op' = [op EXCEPT ![n] = [op[n] EXCEPT !.at = x, !.att = a, !.ok = k]]
          /\ x = "removeFenced" => op[n].fenced
          /\ x = "committed" => IsCommittedClaim(n)
          /\ ~k
    <2>1. CASE o = "ok" /\ IsCommittedClaim(n)
      <3>1. op' = [op EXCEPT ![n] = [op[n] EXCEPT !.at = "committed"]]
        BY <1>4, <2>1
      <3>2. [op[n] EXCEPT !.at = "committed"] = [op[n] EXCEPT !.at = "committed", !.att = op[n].att, !.ok = op[n].ok]
        BY <1>2 DEF Ops
      <3> QED BY <1>2, <1>3, <2>1, <3>1, <3>2
    <2>2. CASE ~(o = "ok" /\ IsCommittedClaim(n)) /\ op[n].att + 1 < MaxAttempts
      <3>1. op' = [op EXCEPT ![n] = [op[n] EXCEPT !.at = "commit", !.att = op[n].att + 1]]
        BY <1>4, <2>2
      <3>2. [op[n] EXCEPT !.at = "commit", !.att = op[n].att + 1]
              = [op[n] EXCEPT !.at = "commit", !.att = op[n].att + 1, !.ok = op[n].ok]
        BY <1>2 DEF Ops
      <3>3. op[n].att + 1 \in Nat
        BY <1>2
      <3> QED BY <1>2, <1>3, <3>1, <3>2, <3>3
    <2>3. CASE ~(o = "ok" /\ IsCommittedClaim(n)) /\ ~(op[n].att + 1 < MaxAttempts)
      <3> DEFINE x == IF op[n].fenced THEN "removeFenced" ELSE "removeResult"
      <3>0. x \in {"removeFenced", "removeResult"} /\ (x = "removeFenced" => op[n].fenced)
        OBVIOUS
      <3>1. op' = [op EXCEPT ![n] = [op[n] EXCEPT !.at = x, !.att = 0]]
        BY <1>4, <2>3
      <3> HIDE DEF x
      <3>2. [op[n] EXCEPT !.at = x, !.att = 0] = [op[n] EXCEPT !.at = x, !.att = 0, !.ok = op[n].ok]
        BY <1>2 DEF Ops
      <3> QED BY <1>2, <1>3, <3>0, <3>1, <3>2
    <2> QED BY <2>1, <2>2, <2>3
  <1>7. x \in PastClaim \cup {"ambiguous"} /\ x \notin {"fence", "reconcile", "check", "removePrevious"}
    BY DEF PastClaim
  <1>8. x = "committed" => \A c \in Conns : c = Conn(n) => Names(n, c)'
    BY <1>1, <1>6 DEF IsCommittedClaim, Names
  <1> QED BY <1>1, <1>2, <1>5, <1>6, <1>7, <1>8, ReserveNext

\* The two loops that remove what the takeover may have left in the registry.
LEMMA RemovalLoop ==
  ASSUME IInv, NEW n \in Nodes, NEW y \in {"removeFenced", "removeResult"}, At(n, "reserve", y),
         UNCHANGED <<status, stream, chain, metas>>, RegistryStep, faults' \in Nat,
         NEW gone \in BOOLEAN, NEW x \in {"removeResult", "finally"}, NEW reset \in BOOLEAN,
         op' = [op EXCEPT ![n] = IF gone THEN (IF reset THEN [op[n] EXCEPT !.at = x, !.att = 0]
                                               ELSE [op[n] EXCEPT !.at = x])
                                 ELSE IF op[n].att + 1 < MaxAttempts THEN [op[n] EXCEPT !.att = op[n].att + 1]
                                 ELSE [op[n] EXCEPT !.at = "ambiguous"]]
  PROVE  IInv'
  <1>1. y \in PastClaim /\ x \in PastClaim
    BY DEF PastClaim
  <1>2. /\ TypeInv /\ Progress(n) /\ op[n].at = y /\ op[n] \in Ops
        /\ op[n].att \in Nat /\ op[n].ok \in BOOLEAN
    BY <1>1, AtStage DEF Ops
  <1>3. ~op[n].ok /\ (y = "removeFenced" => op[n].fenced)
    BY <1>2 DEF Progress, Staged
  <1>4. PICK z \in {x, y, "ambiguous"}, a \in Nat, k \in BOOLEAN :
           op' = [op EXCEPT ![n] = [op[n] EXCEPT !.at = z, !.att = a, !.ok = k]] /\ ~k
    <2>0. 0 \in Nat
      OBVIOUS
    <2>1. CASE gone /\ reset
      <3>1. op' = [op EXCEPT ![n] = [op[n] EXCEPT !.at = x, !.att = 0]]
        BY <2>1
      <3>2. [op[n] EXCEPT !.at = x, !.att = 0] = [op[n] EXCEPT !.at = x, !.att = 0, !.ok = op[n].ok]
        BY <1>2 DEF Ops
      <3>3. op' = [op EXCEPT ![n] = [op[n] EXCEPT !.at = x, !.att = 0, !.ok = op[n].ok]] /\ ~op[n].ok
        BY <1>3, <3>1, <3>2
      <3> QED BY <1>2, <2>0, <3>3, Zenon
    <2>2. CASE gone /\ ~reset
      <3>1. op' = [op EXCEPT ![n] = [op[n] EXCEPT !.at = x]]
        BY <2>2
      <3>2. [op[n] EXCEPT !.at = x] = [op[n] EXCEPT !.at = x, !.att = op[n].att, !.ok = op[n].ok]
        BY <1>2 DEF Ops
      <3>3. op' = [op EXCEPT ![n] = [op[n] EXCEPT !.at = x, !.att = op[n].att, !.ok = op[n].ok]] /\ ~op[n].ok
        BY <1>3, <3>1, <3>2
      <3> QED BY <1>2, <2>0, <3>3, Zenon
    <2>3. CASE ~gone /\ op[n].att + 1 < MaxAttempts
      <3>1. op' = [op EXCEPT ![n] = [op[n] EXCEPT !.att = op[n].att + 1]]
        BY <2>3
      <3>2. [op[n] EXCEPT !.att = op[n].att + 1]
              = [op[n] EXCEPT !.at = y, !.att = op[n].att + 1, !.ok = op[n].ok]
        BY <1>2 DEF Ops
      <3>3. op[n].att + 1 \in Nat
        BY <1>2
      <3>4. op' = [op EXCEPT ![n] = [op[n] EXCEPT !.at = y, !.att = op[n].att + 1, !.ok = op[n].ok]] /\ ~op[n].ok
        BY <1>3, <3>1, <3>2
      <3> QED BY <1>2, <3>3, <3>4, Zenon
    <2>4. CASE ~gone /\ ~(op[n].att + 1 < MaxAttempts)
      <3>1. op' = [op EXCEPT ![n] = [op[n] EXCEPT !.at = "ambiguous"]]
        BY <2>4
      <3>2. [op[n] EXCEPT !.at = "ambiguous"]
              = [op[n] EXCEPT !.at = "ambiguous", !.att = op[n].att, !.ok = op[n].ok]
        BY <1>2 DEF Ops
      <3>3. op' = [op EXCEPT ![n] = [op[n] EXCEPT !.at = "ambiguous", !.att = op[n].att, !.ok = op[n].ok]] /\ ~op[n].ok
        BY <1>3, <3>1, <3>2
      <3> QED BY <1>2, <2>0, <3>3, Zenon
    <2> QED BY <2>1, <2>2, <2>3, <2>4
  <1>5. /\ z \in PastClaim \cup {"ambiguous"}
        /\ z \notin {"fence", "reconcile", "check", "commit", "removePrevious", "committed"}
        /\ z = "removeFenced" => op[n].fenced
    BY <1>1, <1>3
  <1> QED BY <1>1, <1>4, <1>5, ReserveNext, ZenonT(60)

\* removeFencedClaimPrevious().
LEMMA RemoveFencedPreviousKept ==
  ASSUME IInv, NEW n \in Nodes, RemoveFencedPrevious(n)
  PROVE  IInv'
  <1>1. At(n, "reserve", "removeFenced") /\ UNCHANGED <<status, stream, chain, metas>> /\ "removeFenced" \in PastClaim
    BY DEF RemoveFencedPrevious, PastClaim
  <1>2. /\ TypeInv /\ Progress(n) /\ op[n].at = "removeFenced"
    BY <1>1, AtStage
  <1>3. op[n].fenced /\ faults \in Nat
    BY <1>2 DEF Progress, Staged, TypeInv
  <1> DEFINE Absent(o, read) ==
               \/ o = "ok" /\ REMOVE_PREVIOUS(db, n, Conn(n)).res
               \/ /\ read = "ok"
                  /\ ~SameGeneration(IF o = "failed" THEN db.rec ELSE REMOVE_PREVIOUS(db, n, Conn(n)).db.rec, op[n].prev)
  <1>4. PICK o \in Outcomes, read \in Outcomes \ {"lost"} :
          /\ Apply(o, REMOVE_PREVIOUS(db, n, Conn(n)).db)
          /\ faults' = faults + (IF o = "ok" THEN 0 ELSE 1) + (IF read = "ok" THEN 0 ELSE 1)
          /\ op' = [op EXCEPT ![n] = IF Absent(o, read) THEN [op[n] EXCEPT !.at = "removeResult", !.att = 0]
                                     ELSE IF op[n].att + 1 < MaxAttempts THEN [op[n] EXCEPT !.att = op[n].att + 1]
                                     ELSE [op[n] EXCEPT !.at = "ambiguous"]]
    BY Zenon DEF RemoveFencedPrevious
  <1>g. PICK gone \in BOOLEAN : gone <=> Absent(o, read)
    OBVIOUS
  <1> HIDE DEF Absent
  <1>5. RegistryStep /\ faults' \in Nat
    BY <1>1, <1>3, <1>4, RemovesPreviousStep
  <1>6. op' = [op EXCEPT ![n] = IF gone THEN (IF TRUE THEN [op[n] EXCEPT !.at = "removeResult", !.att = 0]
                                              ELSE [op[n] EXCEPT !.at = "removeResult"])
                                ELSE IF op[n].att + 1 < MaxAttempts THEN [op[n] EXCEPT !.att = op[n].att + 1]
                                ELSE [op[n] EXCEPT !.at = "ambiguous"]]
    BY <1>4, <1>g
  <1> QED BY <1>1, <1>5, <1>6, RemovalLoop

\* REMOVE_CLAIM_RESULT takes a record that the node does not count on: while the
\* reservation is not decided, or after the lease is lost.
LEMMA RemovesResultStep ==
  ASSUME IInv, NEW n \in Nodes, NEW y \in PastClaim, At(n, "reserve", y),
         y \notin {"committed", "finally"} \/ status[n] # "safe",
         NEW o, Apply(o, REMOVE_RESULT(db, n, Conn(n)).db)
  PROVE  RegistryStep
  <1>1. /\ TypeInv /\ Progress(n) /\ op[n].at = y /\ db \in Registries /\ Indexed(db) /\ Conn(n) \in Conns
        /\ Fits(stream, n, Job(n)) /\ Job(n).job = "reserve" /\ Job(n).conn = Conn(n)
    BY AtStage
  <1> DEFINE e == REMOVE_RESULT(db, n, Conn(n)).db
  <1>2. e \in Registries /\ Indexed(e) /\ ClaimKept(db, e) /\ RemovesOwn(db, e, n, Conn(n))
    BY <1>1, RemoveResultScript
  <1>3. ASSUME db.rec.node = n, db.rec.conn = Conn(n) PROVE Free
    <2>1. stream[Conn(n)].st \notin {"ready", "active"}
      BY <1>1 DEF Fits
    <2>2. y \notin {"committed", "finally"} => op[n].at # "committed" /\ ~op[n].ok
      BY <1>1 DEF Progress, Staged
    <2> QED BY <1>3, <2>1, <2>2 DEF Free, Engaged
  <1> HIDE DEF e
  <1>4. CASE db' = db
    BY <1>4, RegistrySame
  <1>5. CASE db' = e
    BY <1>2, <1>3, <1>5, RegistryMoves DEF RemovesOwn
  <1> QED BY <1>4, <1>5 DEF Apply, e

\* The result of a failed claim is removed or disproved.
LEMMA RemoveResultKept ==
  ASSUME IInv, NEW n \in Nodes, RemoveResult(n)
  PROVE  IInv'
  <1>1. At(n, "reserve", "removeResult") /\ UNCHANGED <<status, stream, chain, metas>> /\ "removeResult" \in PastClaim
    BY DEF RemoveResult, PastClaim
  <1>2. /\ TypeInv /\ Progress(n) /\ op[n].at = "removeResult"
    BY <1>1, AtStage
  <1>3. faults \in Nat
    BY <1>2 DEF TypeInv
  <1> DEFINE Left(o) == IF o = "failed" THEN db ELSE REMOVE_RESULT(db, n, Conn(n)).db
             Absent(o, read) ==
               \/ o = "ok" /\ REMOVE_RESULT(db, n, Conn(n)).res
               \/ /\ read = "ok"
                  /\ ~(Left(o).rec.node = n /\ Left(o).rec.conn = Conn(n) /\ Left(o).rec.state = "pending")
  <1>4. PICK o \in Outcomes, read \in Outcomes \ {"lost"} :
          /\ Apply(o, REMOVE_RESULT(db, n, Conn(n)).db)
          /\ faults' = faults + (IF o = "ok" THEN 0 ELSE 1) + (IF read = "ok" THEN 0 ELSE 1)
          /\ op' = [op EXCEPT ![n] = IF Absent(o, read) THEN [op[n] EXCEPT !.at = "finally"]
                                     ELSE IF op[n].att + 1 < MaxAttempts THEN [op[n] EXCEPT !.att = op[n].att + 1]
                                     ELSE [op[n] EXCEPT !.at = "ambiguous"]]
    BY Zenon DEF RemoveResult
  <1>g. PICK gone \in BOOLEAN : gone <=> Absent(o, read)
    OBVIOUS
  <1> HIDE DEF Absent
  <1>5. RegistryStep /\ faults' \in Nat
    BY <1>1, <1>3, <1>4, RemovesResultStep
  <1>6. op' = [op EXCEPT ![n] = IF gone THEN (IF FALSE THEN [op[n] EXCEPT !.at = "finally", !.att = 0]
                                              ELSE [op[n] EXCEPT !.at = "finally"])
                                ELSE IF op[n].att + 1 < MaxAttempts THEN [op[n] EXCEPT !.att = op[n].att + 1]
                                ELSE [op[n] EXCEPT !.at = "ambiguous"]]
    BY <1>4, <1>g
  <1> QED BY <1>1, <1>5, <1>6, RemovalLoop

\* A commit is kept, or taken back after the loss of the lease.
LEMMA CommittedKept ==
  ASSUME IInv, NEW n \in Nodes, Committed(n)
  PROVE  IInv'
  <1>1. At(n, "reserve", "committed") /\ UNCHANGED <<status, stream, chain, metas>> /\ "committed" \in PastClaim
    BY DEF Committed, PastClaim
  <1>2. /\ TypeInv /\ Progress(n) /\ op[n].at = "committed" /\ op[n] \in Ops /\ op[n].att \in Nat
    BY <1>1, AtStage DEF Ops
  <1>3. CASE op' = [op EXCEPT ![n].at = "finally", ![n].ok = TRUE] /\ UNCHANGED <<db, faults>>
    <2>1. op' = [op EXCEPT ![n] = [op[n] EXCEPT !.at = "finally", !.ok = TRUE]]
      BY <1>2, <1>3 DEF TypeInv
    <2>2. [op[n] EXCEPT !.at = "finally", !.ok = TRUE] = [op[n] EXCEPT !.at = "finally", !.att = op[n].att, !.ok = TRUE]
      BY <1>2 DEF Ops
    <2>3. op' = [op EXCEPT ![n] = [op[n] EXCEPT !.at = "finally", !.att = op[n].att, !.ok = TRUE]]
      BY <2>1, <2>2
    <2>4. RegistryStep /\ faults' \in Nat /\ "finally" \in PastClaim
      BY <1>2, <1>3, RegistrySame DEF TypeInv, PastClaim
    <2>5. PICK a \in Nat : a = op[n].att
      BY <1>2
    <2> QED BY <1>1, <2>3, <2>4, <2>5, ReserveNext
  <1>4. ASSUME ~CanCommit(n), NEW o \in Outcomes, Apply(o, REMOVE_RESULT(db, n, Conn(n)).db), Spend(o),
               Goto(n, "finally")
        PROVE  IInv'
    <2>1. status[n] # "safe"
      BY <1>4 DEF CanCommit
    <2>2. RegistryStep /\ faults' \in Nat
      BY <1>1, <1>2, <1>4, <2>1, RemovesResultStep, SpendType
    <2> QED BY <1>1, <1>4, <2>2, ReserveGoto
  <1> QED BY <1>3, <1>4 DEF Committed

-----------------------------------------------------------------------------
(* The end of a reservation, activateClient(), unregisterClient(), metadata.  *)

\* A job ends by letting its stream go on.
LEMMA PromotedKept ==
  ASSUME IInv, NEW n \in Nodes, chain[n] # <<>>, NEW c \in Conns, Open(c), stream[c].node = n,
         NEW x \in {"ready", "active"}, stream' = [stream EXCEPT ![c].st = x],
         op' = [op EXCEPT ![n] = Idle], chain' = [chain EXCEPT ![n] = Tail(chain[n])],
         RegistryStep, UNCHANGED status, faults' \in Nat, metas' \in Nat,
         \A m \in Nodes, i \in Nat : Reserves(m, i, c) => m = n /\ i = 1,
         status[n] = "safe" => Engaged(n, c) /\ (x = "active" => Serves(n, c))
  PROVE  IInv'
  <1>0. /\ TypeInv /\ chain[n] \in Seq(Tasks) /\ chain \in [Nodes -> Seq(Tasks)]
        /\ stream \in [Conns -> Streams] /\ stream[c] \in Streams
    BY DEF IInv, TypeInv
  <1> DEFINE s == [stream[c] EXCEPT !.st = x]
  <1>1. s \in Streams /\ s.st = x /\ s.node = n
    BY <1>0 DEF Streams
  <1>2. stream' = [stream EXCEPT ![c] = s]
    BY <1>0
  <1> HIDE DEF s
  <1>3. stream' \in [Conns -> Streams] /\ stream'[c] = s /\ \A d \in Conns : d # c => stream'[d] = stream[d]
    BY <1>0, <1>1, <1>2
  <1>4. \A d \in Conns : Open(d)' => stream'[d].node \in Nodes
    BY <1>0, <1>1, <1>3 DEF TypeInv, Open
  <1>5. op' \in [Nodes -> Ops] /\ op'[n] = Idle /\ \A m \in Nodes \ {n} : op'[m] = op[m]
    BY <1>0, OpSet, Constants
  <1>6. /\ Tail(chain[n]) \in Seq(Tasks)
        /\ \A j \in DOMAIN Tail(chain[n]) : j + 1 \in DOMAIN chain[n] /\ Tail(chain[n])[j] = chain[n][j + 1]
    BY <1>0, TailJobs
  <1>7. chain'[n] = Tail(chain[n]) /\ chain' \in [Nodes -> Seq(Tasks)] /\ \A m \in Nodes \ {n} : chain'[m] = chain[m]
    BY <1>0, <1>6
  <1>8. Moved(n, 1)
    BY <1>6, <1>7 DEF Moved
  <1>9. \A m \in Nodes \ {n} : Moved(m, 0)
    BY <1>0, <1>5, <1>7, Untouched
  <1>10. TypeInv'
    BY <1>0, <1>3, <1>4, <1>5, <1>7 DEF TypeInv, RegistryStep
  <1>11. ASSUME NEW m \in Nodes, NEW i \in Nat, Reserves(m, i, c)' PROVE FALSE
    <2>1. CASE m # n
      BY <1>7, <1>11, <2>1 DEF Reserves
    <2>2. CASE m = n
      <3>1. i \in DOMAIN Tail(chain[n]) /\ Reserves(n, i + 1, c) /\ i + 1 \in Nat
        BY <1>6, <1>7, <1>11, <2>2 DEF Reserves
      <3>2. i + 1 = 1
        BY <3>1
      <3> QED BY <1>6, <3>1, <3>2
    <2> QED BY <2>1, <2>2
  <1>12. \A d \in Conns : StreamStep(d)
    <2>1. StreamStep(c)
      BY <1>1, <1>3, <1>11 DEF StreamStep
    <2> QED BY <1>3, <2>1 DEF StreamStep
  <1>13. SafeStep
    BY <1>8, <1>9, <1>10, <1>12 DEF SafeStep, StatusStep, QueueStep
  <1>14. ASSUME NEW m \in Nodes \ {n} PROVE Quiet(m)
    <2>1. ASSUME op[m].at # "idle" PROVE Conn(m)' = Conn(m)
      BY <1>7 DEF Conn, Job
    <2>2. ASSUME NEW d \in Conns, Engaged(m, d)' PROVE Engaged(m, d) /\ (Serves(m, d)' => Serves(m, d))
      <3>1. d # c
        BY <1>1, <1>3, <2>2 DEF Engaged
      <3>2. stream'[d] = stream[d] /\ op'[m] = op[m]
        BY <1>3, <1>5, <3>1
      <3> QED BY <2>1, <2>2, <3>2 DEF Engaged, Serves, Open, PastClaim
    <2> QED BY <2>2 DEF Quiet
  <1>15. Progress(n)'
    BY <1>5, IdleKept
  <1>16. ASSUME NEW d \in Conns, Engaged(n, d)'
         PROVE  Engaged(n, d) /\ (Serves(n, d)' => Serves(n, d))
    <2>1. op'[n].at = "idle" /\ op'[n].at \notin PastClaim
      BY <1>5 DEF Idle, PastClaim
    <2>2. CASE d = c
      BY <1>1, <1>3, <1>16, <2>1, <2>2 DEF Engaged, Serves
    <2>3. CASE d # c
      BY <1>3, <1>16, <2>1, <2>3 DEF Engaged, Serves, Open
    <2> QED BY <2>2, <2>3
  <1> QED BY <1>5, <1>9, <1>13, <1>14, <1>15, <1>16, Compose

\* The finally block of takeOwnership() and the end of postEstablishCheck().
LEMMA FinallyReserveKept ==
  ASSUME IInv, NEW n \in Nodes, FinallyReserve(n)
  PROVE  IInv'
  <1>1. At(n, "reserve", "finally") /\ UNCHANGED <<status, metas>> /\ "finally" \in PastClaim
    BY DEF FinallyReserve, PastClaim
  <1>2. /\ TypeInv /\ Progress(n) /\ chain[n] # <<>> /\ Job(n).job = "reserve" /\ op[n].at = "finally"
        /\ Conn(n) \in Conns /\ Fits(stream, n, Job(n)) /\ Job(n).conn = Conn(n)
        /\ db \in Registries /\ Indexed(db)
    BY <1>1, AtStage
  <1> DEFINE Without(p) == IF op[n].fenced /\ ~CanCommit(n) /\ p # "failed"
                           THEN REMOVE_PREVIOUS(db, n, Conn(n)).db ELSE db
  <1>3. PICK o \in Outcomes, p \in Outcomes :
          /\ db' = IF o = "failed" THEN Without(p) ELSE ABORT(Without(p), Conn(n))
          /\ faults' = faults + (IF o = "ok" THEN 0 ELSE 1) + (IF p = "ok" THEN 0 ELSE 1)
          /\ IF op[n].ok /\ Open(Conn(n))
             THEN /\ op' = [op EXCEPT ![n] = Idle] /\ chain' = [chain EXCEPT ![n] = Tail(chain[n])]
                  /\ stream' = [stream EXCEPT ![Conn(n)].st = "ready"]
             ELSE Finish(n, TRUE)
    BY Zenon DEF FinallyReserve
  <1>4. /\ Without(p) \in Registries /\ Indexed(Without(p)) /\ Without(p).claim = db.claim
        /\ Without(p).rec = db.rec \/ (Without(p).rec = NoRec /\ Free)
    <2>1. CASE op[n].fenced
      BY <1>1, <1>2, <2>1, RemovesPrevious
    <2>2. CASE ~op[n].fenced
      BY <1>2, <2>2
    <2> QED BY <2>1, <2>2
  <1> HIDE DEF Without
  <1>5. RegistryStep
    <2>1. PICK d \in Registries : d = Without(p)
      BY <1>4
    <2>2. /\ ABORT(d, Conn(n)) \in Registries /\ ABORT(d, Conn(n)).rec = d.rec
          /\ ABORT(d, Conn(n)).members = d.members
          /\ ABORT(d, Conn(n)).claim = d.claim \/ ABORT(d, Conn(n)).claim = NoClaim
      BY <1>2, AbortScript
    <2>3. /\ db' \in Registries /\ db'.rec = d.rec /\ (db'.claim = d.claim \/ db'.claim = NoClaim)
          /\ db'.members = d.members
      BY <1>3, <2>1, <2>2
    <2>4. Indexed(db') /\ ClaimKept(db, db')
      BY <1>4, <2>1, <2>3 DEF Indexed, ClaimKept
    <2> QED BY <1>4, <2>1, <2>3, <2>4, RegistryMoves
  <1>6. faults' \in Nat /\ metas' \in Nat
    BY <1>1, <1>2, <1>3 DEF TypeInv
  <1>7. CASE ~(op[n].ok /\ Open(Conn(n)))
    <2>1. Finish(n, TRUE)
      BY <1>3, <1>7
    <2> QED BY <1>1, <1>2, <1>5, <1>6, <2>1, FinishKept
  <1>8. CASE op[n].ok /\ Open(Conn(n))
    <2>1. PICK c \in Conns : c = Conn(n)
      BY <1>2
    <2>2. stream[c].node = n
      BY <1>2, <1>8, <2>1 DEF Fits, Open
    <2>3. Reserves(n, 1, c)
      BY <1>2, <2>1, HeadJob
    <2>4. \A m \in Nodes, i \in Nat : Reserves(m, i, c) => m = n /\ i = 1
      BY <2>3 DEF IInv, QueueInv, ReservedOnce
    <2>5. status[n] = "safe" => Engaged(n, c)
      BY <1>1, <1>2, <1>8, <2>1, <2>2 DEF Engaged
    <2>6. /\ op' = [op EXCEPT ![n] = Idle] /\ chain' = [chain EXCEPT ![n] = Tail(chain[n])]
          /\ stream' = [stream EXCEPT ![c].st = "ready"]
      BY <1>3, <1>8, <2>1
    <2> QED BY <1>1, <1>2, <1>5, <1>6, <1>8, <2>1, <2>2, <2>4, <2>5, <2>6, PromotedKept
  <1> QED BY <1>7, <1>8

\* activateClient() asks the registry.
LEMMA ActivateClientKept ==
  ASSUME IInv, NEW n \in Nodes, ActivateClient(n)
  PROVE  IInv'
  <1>1. At(n, "activate", "idle") /\ UNCHANGED <<status, metas>>
    BY DEF ActivateClient
  <1>2. /\ TypeInv /\ Progress(n) /\ chain[n] # <<>> /\ Job(n).job = "activate" /\ op[n].at = "idle"
        /\ Conn(n) \in Conns /\ db \in Registries /\ Indexed(db)
    BY <1>1, AtStage
  <1>3. metas' \in Nat /\ faults \in Nat
    BY <1>1, <1>2 DEF TypeInv
  <1>4. CASE Finish(n, TRUE) /\ UNCHANGED <<db, faults>>
    BY <1>1, <1>2, <1>3, <1>4, RegistrySame, FinishKept
  <1> DEFINE r == ACTIVATE(db, n, Conn(n))
  <1>5. ASSUME NEW o \in Outcomes, Apply(o, r.db), Spend(o),
               IF o = "ok" /\ r.res THEN Goto(n, "activated") /\ UNCHANGED <<chain, stream>>
               ELSE Finish(n, TRUE)
        PROVE  IInv'
    <2>1. /\ r.db \in Registries /\ Indexed(r.db) /\ r.db.claim = db.claim /\ RecKept(db, r.db)
          /\ r.res => r.db.rec.state = "active"
      BY <1>2, ActivateScript
    <2> HIDE DEF r
    <2>2. RegistryStep
      <3>1. CASE db' = db
        BY <3>1, RegistrySame
      <3>2. CASE db' = r.db
        BY <2>1, <3>2, RegistryMoves DEF ClaimKept
      <3> QED BY <1>5, <3>1, <3>2 DEF Apply
    <2>3. faults' \in Nat
      BY <1>2, <1>5, SpendType
    <2>4. CASE Finish(n, TRUE)
      BY <1>1, <1>2, <1>3, <2>2, <2>3, <2>4, FinishKept
    <2>5. CASE o = "ok" /\ r.res /\ Goto(n, "activated") /\ UNCHANGED <<chain, stream>>
      <3>1. /\ op' \in [Nodes -> Ops] /\ \A m \in Nodes \ {n} : op'[m] = op[m]
            /\ op'[n].at = "activated" /\ op'[n].prev = op[n].prev /\ op'[n].ok = op[n].ok
        BY <1>2, <2>5, GotoStep DEF Stages
      <3>2. ~op[n].ok
        BY <1>2 DEF Progress, Staged
      <3>3. Staged(op'[n]) /\ ~op'[n].ok
        BY <3>1, <3>2 DEF Staged, PastClaim
      <3>4. db'.rec.state = "active"
        BY <1>5, <2>1, <2>5 DEF Apply
      <3> QED BY <1>1, <1>2, <1>3, <2>2, <2>3, <2>5, <3>1, <3>3, <3>4, StayKept DEF PastClaim
    <2> QED BY <1>5, <2>4, <2>5
  <1> QED BY <1>4, <1>5 DEF ActivateClient

\* UNREGISTER takes a record nobody counts on when the stream has ended or the node has
\* no lease any more.
LEMMA UnregistersStep ==
  ASSUME IInv, NEW n \in Nodes, NEW c \in Conns, ~Open(c) \/ status[n] # "safe",
         db' = db \/ db' = UNREGISTER(db, n, c).db
  PROVE  RegistryStep
  <1> DEFINE e == UNREGISTER(db, n, c).db
  <1>1. db \in Registries /\ Indexed(db)
    BY DEF IInv, TypeInv, RecordIsIndexed, Indexed
  <1>2. e \in Registries /\ Indexed(e) /\ ClaimKept(db, e) /\ RemovesOwn(db, e, n, c)
    BY <1>1, UnregisterScript
  <1>3. db.rec.node = n /\ db.rec.conn = c => Free
    BY FreeWhen
  <1> HIDE DEF e
  <1>4. CASE db' = db
    BY <1>4, RegistrySame
  <1>5. CASE db' = e
    BY <1>2, <1>3, <1>5, RegistryMoves DEF RemovesOwn
  <1> QED BY <1>4, <1>5 DEF e

\* The registry has answered activateClient().
LEMMA ActivatedKept ==
  ASSUME IInv, NEW n \in Nodes, Activated(n)
  PROVE  IInv'
  <1>1. At(n, "activate", "activated") /\ UNCHANGED <<status, metas>>
    BY DEF Activated
  <1>2. /\ TypeInv /\ Progress(n) /\ chain[n] # <<>> /\ Job(n).job = "activate" /\ op[n].at = "activated"
        /\ Conn(n) \in Conns /\ Fits(stream, n, Job(n)) /\ Job(n).conn = Conn(n)
    BY <1>1, AtStage
  <1>3. metas' \in Nat /\ faults \in Nat
    BY <1>1, <1>2 DEF TypeInv
  <1>4. PICK c \in Conns : c = Conn(n)
    BY <1>2
  <1>5. CASE CanCommit(n) /\ Open(c)
    <2>1. /\ op' = [op EXCEPT ![n] = Idle] /\ chain' = [chain EXCEPT ![n] = Tail(chain[n])]
          /\ stream' = [stream EXCEPT ![c].st = "active"] /\ UNCHANGED <<db, faults>>
      BY <1>4, <1>5, Zenon DEF Activated
    <2>2. stream[c].node = n /\ stream[c].st \in {"ready", "active"}
      BY <1>2, <1>4, <1>5 DEF Fits, Open
    <2>3. ASSUME NEW m \in Nodes, NEW i \in Nat, Reserves(m, i, c) PROVE FALSE
      <3>1. i \in DOMAIN chain[m] /\ chain[m][i].job = "reserve" /\ chain[m][i].conn = c
        BY <2>3 DEF Reserves
      <3>2. Fits(stream, m, chain[m][i])
        BY <3>1 DEF IInv, QueueInv, Queued
      <3> QED BY <2>2, <3>1, <3>2 DEF Fits
    <2>4. Engaged(n, c) /\ Serves(n, c)
      BY <1>2, <1>4, <1>5, <2>2 DEF Engaged, Serves, CanCommit
    <2>5. RegistryStep /\ faults' \in Nat
      BY <1>3, <2>1, RegistrySame
    <2> QED BY <1>1, <1>2, <1>3, <1>5, <2>1, <2>2, <2>3, <2>4, <2>5, PromotedKept
  <1>6. CASE ~(CanCommit(n) /\ Open(c))
    <2>1. PICK o \in Outcomes : Finish(n, TRUE) /\ Spend(o)
                                /\ db' = IF CanCommit(n) \/ o = "failed" THEN db ELSE UNREGISTER(db, n, c).db
      BY <1>4, <1>6, Zenon DEF Activated
    <2>2. db' = db \/ (status[n] # "safe" /\ db' = UNREGISTER(db, n, c).db)
      BY <2>1 DEF CanCommit
    <2>3. RegistryStep
      BY <2>2, RegistrySame, UnregistersStep
    <2>4. faults' \in Nat
      BY <1>2, <2>1, SpendType
    <2> QED BY <1>1, <1>2, <1>3, <2>1, <2>3, <2>4, FinishKept
  <1> QED BY <1>5, <1>6

\* retryExactUnregister().
LEMMA RetryExactUnregisterKept ==
  ASSUME IInv, NEW n \in Nodes, RetryExactUnregister(n)
  PROVE  IInv'
  <1>1. At(n, "unregister", "idle") /\ UNCHANGED <<status, metas>>
    BY DEF RetryExactUnregister
  <1>2. /\ TypeInv /\ Progress(n) /\ chain[n] # <<>> /\ Job(n).job = "unregister" /\ op[n].at = "idle"
        /\ Conn(n) \in Conns /\ Fits(stream, n, Job(n)) /\ Job(n).conn = Conn(n)
    BY <1>1, AtStage
  <1>3. metas' \in Nat /\ faults \in Nat
    BY <1>1, <1>2 DEF TypeInv
  <1>4. CASE Finish(n, FALSE) /\ UNCHANGED <<db, faults>>
    BY <1>1, <1>2, <1>3, <1>4, RegistrySame, FinishKept
  <1>5. ~Open(Conn(n))
    BY <1>2 DEF Fits, Open
  <1>6. ASSUME NEW o \in Outcomes, NEW read \in Outcomes \ {"lost"}, NEW late \in BOOLEAN,
               db' = IF o = "failed" THEN db ELSE UNREGISTER(db, n, Conn(n)).db,
               faults' = faults + (IF o = "ok" THEN 0 ELSE 1) + (IF read = "ok" THEN 0 ELSE 1),
               \/ Finish(n, FALSE)
               \/ Goto(n, IF late THEN "ambiguous" ELSE "idle") /\ UNCHANGED <<chain, stream>>
        PROVE  IInv'
    <2>1. db' = db \/ db' = UNREGISTER(db, n, Conn(n)).db
      BY <1>6
    <2>2. RegistryStep
      BY <1>2, <1>5, <2>1, UnregistersStep
    <2>3. faults' \in Nat
      BY <1>3, <1>6
    <2>4. CASE Finish(n, FALSE)
      BY <1>1, <1>2, <1>3, <2>2, <2>3, <2>4, FinishKept
    <2>5. CASE Goto(n, IF late THEN "ambiguous" ELSE "idle") /\ UNCHANGED <<chain, stream>>
      <3> DEFINE x == IF late THEN "ambiguous" ELSE "idle"
      <3>1. x \in Stages /\ x \in {"ambiguous", "idle"} /\ Goto(n, x)
        BY <2>5 DEF Stages
      <3> HIDE DEF x
      <3>2. /\ op' \in [Nodes -> Ops] /\ \A m \in Nodes \ {n} : op'[m] = op[m]
            /\ op'[n].at = x /\ op'[n].prev = op[n].prev /\ op'[n].ok = op[n].ok
        BY <1>2, <3>1, GotoStep
      <3>3. ~op[n].ok
        BY <1>2 DEF Progress, Staged
      <3>4. Staged(op'[n]) /\ ~op'[n].ok
        BY <3>1, <3>2, <3>3 DEF Staged, PastClaim
      <3> QED BY <1>1, <1>2, <1>3, <2>2, <2>3, <2>5, <3>1, <3>2, <3>4, StayKept DEF PastClaim
    <2> QED BY <1>6, <2>4, <2>5
  <1>7. CASE ~CanCommit(n)
    BY <1>4, <1>7 DEF RetryExactUnregister
  <1>8. CASE CanCommit(n)
    <2> DEFINE Left(o) == IF o = "failed" THEN db ELSE UNREGISTER(db, n, Conn(n)).db
               Done(o, read) == \/ o = "ok" /\ UNREGISTER(db, n, Conn(n)).res
                                \/ read = "ok" /\ ~(Left(o).rec.node = n /\ Left(o).rec.conn = Conn(n))
    <2>1. PICK o \in Outcomes, read \in Outcomes \ {"lost"}, late \in BOOLEAN :
            /\ db' = Left(o)
            /\ faults' = faults + (IF o = "ok" THEN 0 ELSE 1) + (IF read = "ok" THEN 0 ELSE 1)
            /\ IF Done(o, read) THEN Finish(n, FALSE)
               ELSE Goto(n, IF late THEN "ambiguous" ELSE "idle") /\ UNCHANGED <<chain, stream>>
      BY <1>8, Zenon DEF RetryExactUnregister
    <2>2. \/ Finish(n, FALSE)
          \/ Goto(n, IF late THEN "ambiguous" ELSE "idle") /\ UNCHANGED <<chain, stream>>
      BY <2>1, Zenon
    <2> QED BY <1>6, <2>1, <2>2, Zenon
  <1> QED BY <1>7, <1>8

\* The registry write of syncStreamMeta().
LEMMA UpdateMetadataKept ==
  ASSUME IInv, NEW n \in Nodes, UpdateMetadata(n)
  PROVE  IInv'
  <1>1. At(n, "meta", "idle") /\ UNCHANGED <<status, metas>> /\ Finish(n, FALSE)
    BY DEF UpdateMetadata
  <1>2. /\ TypeInv /\ chain[n] # <<>> /\ Conn(n) \in Conns /\ db \in Registries /\ Indexed(db)
    BY <1>1, AtStage
  <1>3. PICK o \in Outcomes : Apply(o, UPDATE_METADATA(db, n, Conn(n)).db) /\ Spend(o)
    BY DEF UpdateMetadata
  <1>4. metas' \in Nat /\ faults' \in Nat
    BY <1>1, <1>2, <1>3, SpendType DEF TypeInv
  <1> DEFINE e == UPDATE_METADATA(db, n, Conn(n)).db
  <1>5. e \in Registries /\ Indexed(e) /\ e.claim = db.claim /\ RecKept(db, e)
    BY <1>2, MetadataScript
  <1> HIDE DEF e
  <1>6. CASE db' = db
    BY <1>1, <1>2, <1>4, <1>6, RegistrySame, FinishKept
  <1>7. CASE db' = e
    <2>1. RegistryStep
      BY <1>5, <1>7, RegistryMoves DEF ClaimKept
    <2> QED BY <1>1, <1>2, <1>4, <2>1, FinishKept
  <1> QED BY <1>3, <1>6, <1>7 DEF Apply, e

-----------------------------------------------------------------------------
(* Connections, leases and nodes.                                             *)

\* A step in which streams at most end, and jobs at most join the queues.
LEMMA AsideKept ==
  ASSUME IInv, SafeStep,
         \A m \in Nodes : op'[m] = op[m] /\ Moved(m, 0),
         \A c \in Conns : stream'[c] = stream[c] \/ (Open(c) /\ stream'[c].st = "closed")
  PROVE  IInv'
  <1>1. TypeInv'
    BY DEF SafeStep
  <1>2. QueueInv'
    BY <1>1, QueueKept DEF IInv, SafeStep
  <1>3. \A m \in Nodes : Progress(m)'
    BY BystanderKept
  <1>4. Registered'
    BY RegisteredKept
  <1>5. \A m \in Nodes : Quiet(m)
    BY QuietKept
  <1>6. Ownership'
    BY <1>5, OwnershipKept DEF Quiet
  <1>7. RecordIsIndexed'
    BY DEF SafeStep, RegistryStep, Indexed, RecordIsIndexed
  <1> QED BY <1>1, <1>2, <1>3, <1>4, <1>6, <1>7 DEF IInv

\* A step of the registry or of a lease alone.
LEMMA AloneKept ==
  ASSUME IInv, UNCHANGED <<stream, chain, op, faults, metas>>, RegistryStep,
         status' \in [Nodes -> Statuses], StatusStep
  PROVE  IInv'
  <1>1. TypeInv /\ TypeInv'
    BY DEF IInv, TypeInv, RegistryStep, Open
  <1>2. \A m \in Nodes : Moved(m, 0)
    BY <1>1, Untouched
  <1>3. SafeStep
    BY <1>1, <1>2 DEF SafeStep, StreamStep, QueueStep
  <1> QED BY <1>2, <1>3, AsideKept

\* The status of a node becomes s.
LEMMA StatusSet ==
  ASSUME TypeInv, NEW n \in Nodes, NEW s \in Statuses \ {"safe"}, status' = [status EXCEPT ![n] = s]
  PROVE  status' \in [Nodes -> Statuses] /\ StatusStep
  <1>1. status \in [Nodes -> Statuses]
    BY DEF TypeInv
  <1> QED BY <1>1 DEF StatusStep

\* A claim expires.
LEMMA ClaimExpiresKept ==
  ASSUME IInv, ClaimExpires
  PROVE  IInv'
  <1> DEFINE k == [db.claim EXCEPT !.live = FALSE]
  <1>1. TypeInv /\ db \in Registries /\ db.claim \in Claims /\ Indexed(db)
    BY RegistryType DEF IInv, TypeInv, RecordIsIndexed, Indexed
  <1>2. k \in Claims /\ k.conn = db.claim.conn /\ k.prev = db.claim.prev
    BY <1>1 DEF Claims
  <1>3. db' = [db EXCEPT !.claim = k] /\ UNCHANGED <<status, stream, chain, op, faults, metas>>
    BY <1>1 DEF ClaimExpires, Registries
  <1> HIDE DEF k
  <1>4. db' \in Registries /\ db'.rec = db.rec /\ db'.members = db.members /\ db'.claim = k
    BY <1>1, <1>2, <1>3 DEF Registries
  <1>5. Indexed(db') /\ ClaimKept(db, db')
    BY <1>1, <1>2, <1>4 DEF Indexed, ClaimKept
  <1>6. RegistryStep
    BY <1>4, <1>5, RegistryMoves
  <1>7. status' \in [Nodes -> Statuses] /\ StatusStep
    BY <1>1, <1>3 DEF TypeInv, StatusStep
  <1> QED BY <1>3, <1>6, <1>7, AloneKept

\* A lease lapses.
LEMMA LeaseLapsesKept ==
  ASSUME IInv, NEW n \in Nodes, LeaseLapses(n)
  PROVE  IInv'
  <1>1. /\ status' = [status EXCEPT ![n] = "lapsed"] /\ UNCHANGED <<db, stream, chain, op, faults, metas>>
        /\ TypeInv /\ "lapsed" \in Statuses \ {"safe"}
    BY DEF LeaseLapses, IInv, Statuses
  <1>2. status' \in [Nodes -> Statuses] /\ StatusStep
    BY <1>1, StatusSet
  <1> QED BY <1>1, <1>2, RegistrySame, AloneKept

\* A node without lease is cleaned up.
LEMMA CleanupNodeKept ==
  ASSUME IInv, NEW n \in Nodes, CleanupNode(n)
  PROVE  IInv'
  <1>1. /\ status[n] # "safe" /\ db' = CLEANUP(db, n) /\ UNCHANGED <<status, stream, chain, op, faults, metas>>
        /\ TypeInv /\ db \in Registries /\ Indexed(db)
    BY DEF CleanupNode, IInv, TypeInv, RecordIsIndexed, Indexed
  <1>2. /\ db' \in Registries /\ Indexed(db') /\ ClaimKept(db, db')
        /\ db'.rec = db.rec \/ (db'.rec = NoRec /\ db.rec.node = n)
    BY <1>1, CleanupScript
  <1>3. db.rec.node = n => Free
    BY <1>1, FreeWhen
  <1>4. RegistryStep
    BY <1>2, <1>3, RegistryMoves
  <1>5. status' \in [Nodes -> Statuses] /\ StatusStep
    BY <1>1 DEF TypeInv, StatusStep
  <1> QED BY <1>1, <1>4, <1>5, AloneKept

\* A job other than a reservation joins the queue of its stream's node.
LEMMA JoinsKept ==
  ASSUME IInv, NEW c \in Conns, NEW j \in {"activate", "meta"}, stream[c].st \in {"ready", "active"},
         chain' = [chain EXCEPT ![stream[c].node] = Append(chain[stream[c].node], Task(j, c))],
         UNCHANGED <<db, status, stream, op, faults>>, metas' \in Nat
  PROVE  IInv'
  <1>1. PICK n \in Nodes : n = stream[c].node
    BY DEF IInv, TypeInv, Open
  <1> DEFINE t == Task(j, c)
  <1>2. t \in Tasks /\ t.job # "reserve" /\ Fits(stream, n, t)
    <2>1. t \in Tasks /\ t.job = j /\ t.conn = c
      BY DEF Task, Tasks
    <2> HIDE DEF t
    <2> QED BY <1>1, <2>1 DEF Fits
  <1>3. TypeInv /\ chain \in [Nodes -> Seq(Tasks)] /\ chain[n] \in Seq(Tasks)
    BY DEF IInv, TypeInv
  <1>4. chain' = [chain EXCEPT ![n] = Append(chain[n], t)]
    BY <1>1
  <1> HIDE DEF t
  <1>5. /\ Append(chain[n], t) \in Seq(Tasks) /\ Append(chain[n], t) # <<>>
        /\ \A i \in DOMAIN Append(chain[n], t) : (i \in DOMAIN chain[n] /\ Append(chain[n], t)[i] = chain[n][i])
                                                  \/ Append(chain[n], t)[i] = t
        /\ chain[n] # <<>> => Append(chain[n], t)[1] = chain[n][1]
    BY <1>2, <1>3, AppendJob
  <1>6. /\ chain'[n] = Append(chain[n], t) /\ chain' \in [Nodes -> Seq(Tasks)]
        /\ \A m \in Nodes \ {n} : chain'[m] = chain[m]
    BY <1>3, <1>4, <1>5
  <1>7. \A m \in Nodes \ {n} : Moved(m, 0)
    BY <1>3, <1>6, Untouched
  <1>8. Moved(n, 0)
    <2>1. \A i \in DOMAIN chain'[n] : i + 0 = i
      BY <1>5, <1>6
    <2>2. \A i \in DOMAIN chain'[n] :
             \/ i + 0 \in DOMAIN chain[n] /\ chain'[n][i] = chain[n][i + 0]
             \/ chain'[n][i].job # "reserve" /\ Fits(stream', n, chain'[n][i])
      BY <1>2, <1>5, <1>6, <2>1
    <2> QED BY <1>5, <1>6, <2>2 DEF Moved
  <1>9. TypeInv' /\ RegistryStep
    BY <1>3, <1>6, RegistrySame DEF TypeInv, Open
  <1>10. SafeStep
    BY <1>7, <1>8, <1>9 DEF SafeStep, StatusStep, StreamStep, QueueStep
  <1> QED BY <1>7, <1>8, <1>10, AsideKept

\* onStreamWillActivate().
LEMMA WillActivateKept ==
  ASSUME IInv, NEW c \in Conns, WillActivate(c)
  PROVE  IInv'
  <1>1. /\ stream[c].st = "ready" /\ UNCHANGED <<db, status, stream, op, faults, metas>>
        /\ chain' = [chain EXCEPT ![stream[c].node] = Append(chain[stream[c].node], Task("activate", c))]
    BY DEF WillActivate
  <1>2. metas' \in Nat
    BY <1>1 DEF IInv, TypeInv
  <1> QED BY <1>1, <1>2, JoinsKept

\* syncStreamMeta() is queued.
LEMMA SyncStreamMetaKept ==
  ASSUME IInv, NEW c \in Conns, SyncStreamMeta(c)
  PROVE  IInv'
  <1>1. /\ stream[c].st \in {"ready", "active"} /\ UNCHANGED <<db, status, stream, op, faults>>
        /\ chain' = [chain EXCEPT ![stream[c].node] = Append(chain[stream[c].node], Task("meta", c))]
        /\ metas' = metas + 1
    BY DEF SyncStreamMeta
  <1>2. metas' \in Nat
    BY <1>1 DEF IInv, TypeInv
  <1> QED BY <1>1, <1>2, JoinsKept

\* Streams of a node end, and their unregistration joins its queue.
LEMMA EndsKept ==
  ASSUME IInv, NEW n \in Nodes, NEW cs \in SUBSET Conns, \A c \in cs : Open(c), stream' = Closed(cs),
         chain' = [chain EXCEPT ![n] = Unregisters(chain[n], cs)],
         UNCHANGED <<db, op, faults, metas>>, status' \in [Nodes -> Statuses], StatusStep
  PROVE  IInv'
  <1>1. TypeInv /\ chain \in [Nodes -> Seq(Tasks)] /\ chain[n] \in Seq(Tasks)
    BY DEF IInv, TypeInv
  <1>2. /\ stream' \in [Conns -> Streams]
        /\ \A c \in Conns : stream'[c] = stream[c] \/ (Open(c) /\ stream'[c].st = "closed")
        /\ \A c \in Conns : Open(c)' => stream'[c].node \in Nodes
        /\ \A c \in cs : stream'[c].st = "closed"
        /\ \A c \in Conns : StreamStep(c)
    BY <1>1, ClosedType
  <1>3. Unregisters(chain[n], cs) \in Seq(Tasks)
    BY <1>1, UnregistersType
  <1>4. /\ chain'[n] = Unregisters(chain[n], cs) /\ chain' \in [Nodes -> Seq(Tasks)]
        /\ \A m \in Nodes \ {n} : chain'[m] = chain[m]
    BY <1>1, <1>3
  <1>5. Moved(n, 0)
    BY <1>1, <1>2, <1>4, UnregisterMoves
  <1>6. \A m \in Nodes \ {n} : Moved(m, 0)
    BY <1>1, <1>4, Untouched
  <1>7. TypeInv' /\ RegistryStep
    BY <1>1, <1>2, <1>4, RegistrySame DEF TypeInv
  <1>8. SafeStep
    BY <1>2, <1>5, <1>6, <1>7 DEF SafeStep, QueueStep
  <1> QED BY <1>2, <1>5, <1>6, <1>8, AsideKept

\* onStreamDisconnected().
LEMMA DisconnectKept ==
  ASSUME IInv, NEW c \in Conns, Disconnect(c)
  PROVE  IInv'
  <1>1. PICK n \in Nodes : n = stream[c].node
    BY DEF IInv, TypeInv, Disconnect
  <1>2. /\ Open(c) /\ stream' = Closed({c}) /\ chain' = [chain EXCEPT ![n] = Unregisters(chain[n], {c})]
        /\ UNCHANGED <<db, status, op, faults, metas>>
    BY <1>1 DEF Disconnect
  <1>3. status' \in [Nodes -> Statuses] /\ StatusStep
    BY <1>2 DEF IInv, TypeInv, StatusStep
  <1>4. PICK cs \in SUBSET Conns : cs = {c}
    OBVIOUS
  <1> QED BY <1>2, <1>3, <1>4, EndsKept

\* A node is fenced.
LEMMA FenceKept ==
  ASSUME IInv, NEW n \in Nodes, Fence(n), UNCHANGED <<db, faults, metas>>
  PROVE  IInv'
  <1> DEFINE cs == {c \in Conns : Open(c) /\ stream[c].node = n}
  <1>1. TypeInv /\ chain \in [Nodes -> Seq(Tasks)] /\ chain[n] \in Seq(Tasks)
    BY DEF IInv, TypeInv
  <1>2. cs \in SUBSET Conns /\ \A c \in cs : Open(c)
    OBVIOUS
  <1>3. status' = [status EXCEPT ![n] = "fenced"] /\ stream' = Closed(cs)
    BY DEF Fence
  <1>4. status' \in [Nodes -> Statuses] /\ StatusStep
    BY <1>1, <1>3, StatusSet DEF Statuses
  <1>5. CASE ~(chain[n] # <<>> /\ op[n].at = "ambiguous")
    <2>1. chain' = [chain EXCEPT ![n] = Unregisters(chain[n], cs)] /\ op' = op
      BY <1>5 DEF Fence
    <2> HIDE DEF cs
    <2> QED BY <1>2, <1>3, <1>4, <2>1, EndsKept
  <1>6. CASE chain[n] # <<>> /\ op[n].at = "ambiguous"
    <2>1. Tail(chain[n]) # chain[n]
      <3>1. Len(Tail(chain[n])) = Len(chain[n]) - 1 /\ Len(chain[n]) \in Nat
        BY <1>1, <1>6
      <3>2. Len(Tail(chain[n])) # Len(chain[n])
        BY <3>1
      <3> QED BY <3>2, Zenon
    <2>2. chain' = [chain EXCEPT ![n] = Unregisters(Tail(chain[n]), cs)] /\ op' = [op EXCEPT ![n] = Idle]
      BY <1>6, <2>1 DEF Fence
    <2> HIDE DEF cs
    <2>3. op' \in [Nodes -> Ops] /\ op'[n] = Idle /\ \A m \in Nodes \ {n} : op'[m] = op[m]
      BY <1>1, <2>2, OpSet, Constants
    <2>4. /\ stream' \in [Conns -> Streams]
          /\ \A c \in Conns : stream'[c] = stream[c] \/ (Open(c) /\ stream'[c].st = "closed")
          /\ \A c \in Conns : Open(c)' => stream'[c].node \in Nodes
          /\ \A c \in cs : stream'[c].st = "closed"
          /\ \A c \in Conns : StreamStep(c)
      BY <1>1, <1>2, <1>3, ClosedType
    <2>5. Tail(chain[n]) \in Seq(Tasks)
      BY <1>1, <1>6, TailJobs
    <2>6. Unregisters(Tail(chain[n]), cs) \in Seq(Tasks)
      BY <1>2, <2>5, UnregistersType
    <2>7. /\ chain'[n] = Unregisters(Tail(chain[n]), cs) /\ \A m \in Nodes \ {n} : chain'[m] = chain[m]
          /\ chain' \in [Nodes -> Seq(Tasks)]
      BY <1>1, <2>2, <2>6
    <2>8. Moved(n, 1)
      BY <1>1, <1>2, <1>6, <2>4, <2>5, <2>7, UnregisterMoves
    <2>9. \A m \in Nodes \ {n} : Moved(m, 0)
      BY <1>1, <2>3, <2>7, Untouched
    <2>10. TypeInv' /\ RegistryStep
      BY <1>1, <1>4, <2>3, <2>4, <2>7, RegistrySame DEF TypeInv
    <2>11. SafeStep
      BY <1>4, <2>4, <2>8, <2>9, <2>10 DEF SafeStep, QueueStep
    <2> QED BY <2>3, <2>4, <2>9, <2>11, CalmKept
  <1> QED BY <1>5, <1>6

\* A node crashes.
LEMMA CrashKept ==
  ASSUME IInv, NEW n \in Nodes, Crash(n)
  PROVE  IInv'
  <1> DEFINE cs == {c \in Conns : Open(c) /\ stream[c].node = n}
  <1>1. TypeInv /\ chain \in [Nodes -> Seq(Tasks)]
    BY DEF IInv, TypeInv
  <1>2. cs \in SUBSET Conns /\ \A c \in cs : Open(c)
    OBVIOUS
  <1>3. /\ status' = [status EXCEPT ![n] = "crashed"] /\ stream' = Closed(cs)
        /\ chain' = [chain EXCEPT ![n] = <<>>] /\ op' = [op EXCEPT ![n] = Idle]
        /\ UNCHANGED <<db, faults, metas>>
    BY DEF Crash
  <1> HIDE DEF cs
  <1>4. status' \in [Nodes -> Statuses] /\ StatusStep
    BY <1>1, <1>3, StatusSet DEF Statuses
  <1>5. op' \in [Nodes -> Ops] /\ op'[n] = Idle /\ \A m \in Nodes \ {n} : op'[m] = op[m]
    BY <1>1, <1>3, OpSet, Constants
  <1>6. /\ stream' \in [Conns -> Streams]
        /\ \A c \in Conns : stream'[c] = stream[c] \/ (Open(c) /\ stream'[c].st = "closed")
        /\ \A c \in Conns : Open(c)' => stream'[c].node \in Nodes
        /\ \A c \in Conns : StreamStep(c)
    BY <1>1, <1>2, <1>3, ClosedType
  <1>7. <<>> \in Seq(Tasks) /\ DOMAIN <<>> = {}
    OBVIOUS
  <1>8. chain'[n] = <<>> /\ chain' \in [Nodes -> Seq(Tasks)] /\ \A m \in Nodes \ {n} : chain'[m] = chain[m]
    BY <1>1, <1>3, <1>7
  <1>9. Moved(n, 1)
    BY <1>7, <1>8 DEF Moved
  <1>10. \A m \in Nodes \ {n} : Moved(m, 0)
    BY <1>1, <1>5, <1>8, Untouched
  <1>11. TypeInv' /\ RegistryStep
    BY <1>1, <1>3, <1>4, <1>5, <1>6, <1>8, RegistrySame DEF TypeInv
  <1>12. SafeStep
    BY <1>4, <1>6, <1>9, <1>10, <1>11 DEF SafeStep, QueueStep
  <1> QED BY <1>5, <1>6, <1>10, <1>12, CalmKept

\* A client connects: the new connection joins the queue of its node with its only
\* reservation.
LEMMA ConnectKept ==
  ASSUME IInv, NEW c \in Conns, NEW n \in Nodes, NEW supersede \in BOOLEAN, Connect(c, n, supersede)
  PROVE  IInv'
  <1> DEFINE cs == {d \in Conns : Open(d) /\ stream[d].node = n}
             t == [Task("reserve", c) EXCEPT !.supersede = supersede]
             q == Unregisters(chain[n], cs)
             s == [st |-> "pending", node |-> n]
  <1>1. /\ TypeInv /\ chain \in [Nodes -> Seq(Tasks)] /\ chain[n] \in Seq(Tasks)
        /\ stream \in [Conns -> Streams] /\ op \in [Nodes -> Ops]
    BY DEF IInv, TypeInv
  <1>2. /\ stream[c].st = "new" /\ UNCHANGED <<db, status, op, faults, metas>>
        /\ stream' = [Closed(cs) EXCEPT ![c] = s] /\ chain' = [chain EXCEPT ![n] = Append(q, t)]
    BY DEF Connect
  <1>3. cs \in SUBSET Conns /\ (\A d \in cs : Open(d)) /\ c \notin cs
    BY <1>2 DEF Open
  <1>4. t \in Tasks /\ t.job = "reserve" /\ t.conn = c
    BY DEF Task, Tasks
  <1>5. s \in Streams /\ s.st = "pending" /\ s.node = n
    BY DEF Streams
  <1> HIDE DEF cs, t, s
  \* The streams.
  <1>6. [st |-> "closed", node |-> None] \in Streams
    BY DEF Streams
  <1>7. Closed(cs) \in [Conns -> Streams]
    <2>1. \A d \in Conns : Closed(cs)[d] \in Streams
      BY <1>1, <1>6 DEF Closed
    <2> QED BY <2>1 DEF Closed
  <1>8. /\ stream' \in [Conns -> Streams] /\ stream'[c] = s
        /\ \A d \in Conns : d # c => stream'[d] = stream[d] \/ (Open(d) /\ stream'[d].st = "closed")
    <2>1. \A d \in Conns : d # c => stream'[d] = Closed(cs)[d]
      BY <1>2, <1>7
    <2>2. \A d \in Conns : Closed(cs)[d] = stream[d] \/ (Open(d) /\ Closed(cs)[d].st = "closed")
      BY <1>3 DEF Closed
    <2> QED BY <1>2, <1>5, <1>7, <2>1, <2>2
  <1>9. \A d \in cs : stream'[d].st = "closed"
    <2>1. \A d \in cs : stream'[d] = Closed(cs)[d] /\ Closed(cs)[d].st = "closed"
      BY <1>2, <1>3, <1>7 DEF Closed
    <2> QED BY <2>1
  \* The queues.
  <1>10. /\ q \in Seq(Tasks)
         /\ \A j \in DOMAIN q : \/ j \in DOMAIN chain[n] /\ q[j] = chain[n][j]
                                \/ \E d \in cs : q[j] = Task("unregister", d)
         /\ chain[n] # <<>> => q # <<>> /\ q[1] = chain[n][1]
    BY <1>1, <1>3, UnregistersType
  <1> HIDE DEF q
  <1>11. /\ Append(q, t) \in Seq(Tasks) /\ Append(q, t) # <<>>
         /\ \A j \in DOMAIN Append(q, t) : (j \in DOMAIN q /\ Append(q, t)[j] = q[j])
                                             \/ (j = Len(q) + 1 /\ Append(q, t)[j] = t)
         /\ q # <<>> => Append(q, t)[1] = q[1]
    BY <1>4, <1>10, AppendJob
  <1>12. /\ chain'[n] = Append(q, t) /\ chain' \in [Nodes -> Seq(Tasks)]
         /\ \A m \in Nodes \ {n} : chain'[m] = chain[m]
    BY <1>1, <1>2, <1>11
  <1>13. ASSUME NEW m \in Nodes, NEW j \in DOMAIN chain'[m]
         PROVE  \/ j \in DOMAIN chain[m] /\ chain'[m][j] = chain[m][j]
                \/ m = n /\ \E d \in cs : chain'[m][j] = Task("unregister", d)
                \/ m = n /\ j = Len(q) + 1 /\ chain'[m][j] = t
    <2>1. CASE m = n
      BY <1>10, <1>11, <1>12, <1>13, <2>1
    <2>2. CASE m # n
      BY <1>12, <1>13, <2>2
    <2> QED BY <2>1, <2>2
  <1>14. ASSUME NEW m \in Nodes, NEW j \in DOMAIN chain[m]
         PROVE  chain[m][j] \in Tasks /\ chain[m][j].conn \in Conns \ {c} /\ Fits(stream, m, chain[m][j])
    <2>1. chain[m] \in Seq(Tasks)
      BY <1>1
    <2>2. chain[m][j] \in Tasks
      BY <2>1
    <2>3. Fits(stream, m, chain[m][j])
      BY DEF IInv, QueueInv, Queued
    <2> QED BY <1>2, <2>2, <2>3 DEF Fits, Tasks
  <1>15. ASSUME NEW m \in Nodes, chain[m] # <<>> PROVE chain'[m] # <<>> /\ chain'[m][1] = chain[m][1]
    BY <1>10, <1>11, <1>12, <1>15
  <1>16. TypeInv'
    <2>1. \A d \in Conns : Open(d)' => stream'[d].node \in Nodes
      BY <1>1, <1>5, <1>8 DEF TypeInv, Open
    <2> QED BY <1>1, <1>2, <1>8, <1>12, <2>1 DEF TypeInv
  <1>17. ASSUME NEW m \in Nodes, NEW j \in DOMAIN chain'[m] PROVE Fits(stream', m, chain'[m][j])
    <2>1. CASE j \in DOMAIN chain[m] /\ chain'[m][j] = chain[m][j]
      <3>1. PICK u \in Tasks : u = chain[m][j]
        BY <1>14, <2>1
      <3>2. u.conn \in Conns \ {c} /\ Fits(stream, m, u)
        BY <1>14, <2>1, <3>1
      <3>3. stream'[u.conn] = stream[u.conn] \/ (Open(u.conn) /\ stream'[u.conn].st = "closed")
        BY <1>8, <3>2
      <3>4. Fits(stream', m, u)
        BY <3>2, <3>3 DEF Fits, Open
      <3> QED BY <2>1, <3>1, <3>4
    <2>2. CASE m = n /\ \E d \in cs : chain'[m][j] = Task("unregister", d)
      <3>1. PICK d \in cs : chain'[m][j] = Task("unregister", d)
        BY <2>2
      <3>2. Task("unregister", d).job = "unregister" /\ Task("unregister", d).conn = d
        BY DEF Task
      <3>3. Fits(stream', m, Task("unregister", d))
        BY <1>9, <3>2 DEF Fits
      <3> QED BY <3>1, <3>3
    <2>3. CASE m = n /\ j = Len(q) + 1 /\ chain'[m][j] = t
      BY <1>4, <1>5, <1>8, <2>3 DEF Fits
    <2> QED BY <1>13, <2>1, <2>2, <2>3
  <1>18. ASSUME NEW d \in Conns, NEW m \in Nodes, NEW j \in Nat, Reserves(m, j, d)'
         PROVE  IF d = c THEN m = n /\ j = Len(q) + 1 ELSE Reserves(m, j, d)
    <2>1. j \in DOMAIN chain'[m] /\ chain'[m][j].job = "reserve" /\ chain'[m][j].conn = d
      BY <1>18 DEF Reserves
    <2>2. \A e \in cs : Task("unregister", e).job # "reserve"
      BY DEF Task
    <2>3. \/ j \in DOMAIN chain[m] /\ chain'[m][j] = chain[m][j]
          \/ m = n /\ j = Len(q) + 1 /\ chain'[m][j] = t
      BY <1>13, <2>1, <2>2
    <2> QED BY <1>4, <1>14, <2>1, <2>3 DEF Reserves
  <1>19. Queued'
    BY <1>17 DEF Queued
  <1>20. ReservedOnce'
    <2>1. ASSUME NEW d \in Conns, NEW m \in Nodes, NEW k \in Nodes, NEW i \in Nat, NEW j \in Nat,
                 Reserves(m, i, d)', Reserves(k, j, d)'
          PROVE  m = k /\ i = j
      <3>1. CASE d = c
        BY <1>18, <2>1, <3>1
      <3>2. CASE d # c
        <4>1. Reserves(m, i, d) /\ Reserves(k, j, d)
          BY <1>18, <2>1, <3>2
        <4> QED BY <4>1 DEF IInv, QueueInv, ReservedOnce
      <3> QED BY <3>1, <3>2
    <2> QED BY <2>1 DEF ReservedOnce
  \* The takeover.
  <1>21. ASSUME NEW d \in Conns, Past(d) PROVE Past(d)' /\ (~Open(d) => ~Open(d)')
    <2>1. d # c /\ stream[d].st # "new" /\ db.claim.conn # d
      BY <1>2, <1>21 DEF Past
    <2>2. stream'[d].st # "new" /\ (~Open(d) => ~Open(d)')
      BY <1>8, <2>1 DEF Open
    <2>3. \A m \in Nodes, j \in Nat : Reserves(m, j, d)' => Reserves(m, j, d)
      BY <1>18, <2>1
    <2> QED BY <1>2, <1>21, <2>1, <2>2, <2>3 DEF Past
  <1>22. ASSUME NEW r \in Recs, r # NoRec, Past(r.conn) PROVE Past(r.conn)' /\ (Gone(r) => Gone(r)')
    <2>1. r.conn \in Conns
      BY <1>22, RecType
    <2>2. Past(r.conn)' /\ (~Open(r.conn) => ~Open(r.conn)')
      BY <1>21, <1>22, <2>1
    <2> QED BY <1>2, <2>2 DEF Gone
  <1>23. ASSUME NEW m \in Nodes, op[m].at # "idle"
         PROVE  chain[m] # <<>> /\ chain'[m] # <<>> /\ Job(m)' = Job(m) /\ Conn(m)' = Conn(m) /\ Conn(m) # c
    <2>1. chain[m] # <<>>
      BY <1>23 DEF IInv, Progress
    <2>2. chain'[m] # <<>> /\ chain'[m][1] = chain[m][1]
      BY <1>15, <2>1
    <2>3. Job(m) = chain[m][1] /\ 1 \in DOMAIN chain[m] /\ Job(m)' = chain'[m][1]
      BY <1>1, <1>16, <2>1, <2>2, HeadJob DEF TypeInv, Job
    <2>4. chain[m][1].conn # c
      BY <1>14, <2>3
    <2> QED BY <2>1, <2>2, <2>3, <2>4 DEF Conn
  <1>24. ASSUME NEW m \in Nodes PROVE Progress(m)'
    <2>1. Progress(m) /\ op'[m] = op[m] /\ op[m].prev \in Recs /\ Staged(op'[m])
      BY <1>1, <1>2 DEF IInv, Progress, Ops
    <2>2. PICK p \in Recs : p = op[m].prev
      BY <2>1
    <2>3. p # NoRec => Past(p.conn)' /\ (Gone(p) => Gone(p)')
      BY <1>22, <2>1, <2>2 DEF Progress
    <2>4. op[m].prev # NoRec => Past(op[m].prev.conn)'
      BY <1>2, <2>2, <2>3 DEF Past, Reserves
    <2>5. op[m].fenced /\ op[m].at \in PastClaim => Gone(p) /\ p # NoRec
      BY <2>1, <2>2 DEF Progress, Staged
    <2>6. op[m].fenced /\ op[m].at \in PastClaim => Gone(op[m].prev)'
      BY <1>2, <2>2, <2>3, <2>5 DEF Gone, SameGeneration, Open
    <2> QED BY <1>2, <1>23, <2>1, <2>4, <2>6 DEF Progress, PastClaim
  <1>25. Registered'
    <2>1. /\ Registered /\ db.rec \in Recs /\ db.claim.prev \in Recs
      BY RegistryType DEF IInv, TypeInv
    <2>2. PICK r \in Recs, p \in Recs : r = db.rec /\ p = db.claim.prev
      BY <2>1
    <2>3. (r # NoRec => Past(r.conn)') /\ (p # NoRec => Past(p.conn)')
      BY <1>22, <2>1, <2>2 DEF Registered
    <2> QED BY <1>2, <2>2, <2>3 DEF Registered, Past, Reserves
  <1>26. Ownership'
    <2>1. ASSUME NEW m \in Nodes, NEW d \in Conns, Engaged(m, d)'
          PROVE  Names(m, d)' /\ (Serves(m, d)' => db'.rec.state = "active")
      <3>1. d # c
        BY <1>2, <1>5, <1>8, <1>23, <2>1 DEF Engaged, PastClaim
      <3>2. stream'[d] = stream[d]
        BY <1>8, <2>1, <3>1 DEF Engaged, Open
      <3>3. Engaged(m, d) /\ (Serves(m, d)' => Serves(m, d))
        BY <1>2, <1>23, <2>1, <3>2 DEF Engaged, Serves, Open, PastClaim
      <3>4. Names(m, d) /\ (Serves(m, d) => db.rec.state = "active")
        BY <3>3 DEF IInv, Ownership
      <3> QED BY <1>2, <3>3, <3>4 DEF Names
    <2> QED BY <2>1 DEF Ownership
  <1>27. RecordIsIndexed'
    BY <1>2 DEF IInv, RecordIsIndexed
  <1> QED BY <1>16, <1>19, <1>20, <1>24, <1>25, <1>26, <1>27 DEF IInv, QueueInv

-----------------------------------------------------------------------------
(* The invariant.                                                             *)

\* No client is connected, and the registry is empty.
LEMMA InitHolds == Init => IInv
  <1> SUFFICES ASSUME Init PROVE IInv
    OBVIOUS
  <1> USE DEF Init
  <1>1. /\ NoRec \in Recs /\ NoClaim \in Claims /\ Idle \in Ops /\ {} \in SUBSET Nodes /\ <<>> \in Seq(Tasks)
        /\ [st |-> "new", node |-> None] \in Streams
    BY Constants DEF Streams
  <1>2. db.rec = NoRec /\ db.claim = NoClaim /\ db \in Registries
    BY <1>1, RegistryOf
  <1>3. \A c \in Conns : stream[c].st = "new" /\ ~Open(c)
    BY DEF Open
  <1>4. TypeInv
    BY <1>1, <1>2, <1>3 DEF TypeInv, Statuses
  <1>5. \A n \in Nodes : chain[n] = <<>> /\ DOMAIN chain[n] = {} /\ op[n] = Idle
    <2>1. DOMAIN <<>> = {}
      OBVIOUS
    <2>2. \A n \in Nodes : chain[n] = <<>> /\ op[n] = Idle
      BY Zenon
    <2> QED BY <2>1, <2>2, Zenon
  <1>6. QueueInv
    BY <1>5 DEF QueueInv, Queued, ReservedOnce, Reserves
  <1>7. \A n \in Nodes : Progress(n)
    <2>1. /\ Idle.at = "idle" /\ Idle.prev = NoRec /\ Idle.ok = FALSE /\ Idle.fenced = FALSE
          /\ Idle.at \notin PastClaim
      BY DEF Idle, PastClaim
    <2> QED BY <1>5, <2>1 DEF Progress, Staged
  <1>8. Registered
    BY <1>2 DEF Registered, NoClaim
  <1>9. Ownership
    BY <1>3 DEF Ownership, Engaged
  <1>10. RecordIsIndexed
    BY <1>2 DEF RecordIsIndexed
  <1> QED BY <1>4, <1>6, <1>7, <1>8, <1>9, <1>10 DEF IInv

\* Nothing happens.
LEMMA StutterKept ==
  ASSUME IInv, UNCHANGED vars
  PROVE  IInv'
  <1>1. TypeInv /\ RegistryStep
    BY RegistrySame DEF IInv, vars
  <1>2. status' \in [Nodes -> Statuses] /\ StatusStep
    BY <1>1 DEF TypeInv, StatusStep, vars
  <1> QED BY <1>1, <1>2, AloneKept DEF vars

\* Every step keeps the invariant.
LEMMA NextKept == IInv /\ [Next]_vars => IInv'
  <1> SUFFICES ASSUME IInv, [Next]_vars PROVE IInv'
    OBVIOUS
  <1>1. ASSUME NEW n \in Nodes, Work(n) PROVE IInv'
    <2>1. CASE ReserveStarts(n) \/ CreateClaim(n) \/ FencePreviousOwner(n) \/ ReconcileFence(n)
      BY <2>1, ReserveStartsKept, CreateClaimKept, FencePreviousOwnerKept, ReconcileFenceKept
    <2>2. CASE CommitClaim(n) \/ RemoveChangedPrevious(n) \/ CheckCommit(n)
      BY <2>2, CommitClaimKept, RemoveChangedPreviousKept, CheckCommitKept
    <2>3. CASE RemoveFencedPrevious(n) \/ RemoveResult(n) \/ Committed(n) \/ FinallyReserve(n)
      BY <2>3, RemoveFencedPreviousKept, RemoveResultKept, CommittedKept, FinallyReserveKept
    <2>4. CASE ActivateClient(n) \/ Activated(n) \/ RetryExactUnregister(n) \/ UpdateMetadata(n)
      BY <2>4, ActivateClientKept, ActivatedKept, RetryExactUnregisterKept, UpdateMetadataKept
    <2>5. CASE Ambiguous(n)
      BY <2>5, FenceKept DEF Ambiguous
    <2> QED BY <1>1, <2>1, <2>2, <2>3, <2>4, <2>5 DEF Work
  <1>2. ASSUME NEW n \in Nodes, LeaseLapses(n) \/ LeaseLost(n) \/ Crash(n) \/ CleanupNode(n) PROVE IInv'
    <2>1. CASE LeaseLost(n)
      BY <2>1, FenceKept DEF LeaseLost
    <2> QED BY <1>2, <2>1, LeaseLapsesKept, CrashKept, CleanupNodeKept
  <1>3. ASSUME NEW c \in Conns,
               \/ WillActivate(c) \/ Disconnect(c) \/ SyncStreamMeta(c)
               \/ \E n \in Nodes, s \in BOOLEAN : Connect(c, n, s)
        PROVE  IInv'
    BY <1>3, WillActivateKept, DisconnectKept, SyncStreamMetaKept, ConnectKept
  <1>4. CASE ClaimExpires
    BY <1>4, ClaimExpiresKept
  <1>5. CASE UNCHANGED vars
    BY <1>5, StutterKept
  <1> QED BY <1>1, <1>2, <1>3, <1>4, <1>5 DEF Next

\* The invariant holds throughout: what the queues, the takeover of each node, the
\* registry and the streams know of each other.
THEOREM Invariance == Spec => []IInv
  <1>1. Init => IInv
    BY InitHolds
  <1>2. IInv /\ [Next]_vars => IInv'
    BY NextKept
  <1> QED BY <1>1, <1>2, PTL DEF Spec

\* A stream that a node with a valid lease serves is the one the registry names, and its
\* record is active: the claim, the fence of the predecessor, the commit and the
\* activation (takeOwnership, activateClient) lose no owner and admit no second one,
\* whatever replies are lost and whichever nodes lose their leases or crash meanwhile.
THEOREM OwnerAlwaysRecorded == Spec => []OwnerIsRecorded
  <1>1. IInv => OwnerIsRecorded
    <2> SUFFICES ASSUME IInv, NEW c \in Conns, stream[c].st = "active", status[stream[c].node] = "safe"
                 PROVE  db.rec.conn = c /\ db.rec.state = "active"
      BY DEF OwnerIsRecorded
    <2>1. Open(c)
      BY DEF Open
    <2>2. PICK n \in Nodes : n = stream[c].node
      BY <2>1 DEF IInv, TypeInv
    <2>3. Engaged(n, c) /\ Serves(n, c)
      BY <2>1, <2>2 DEF Engaged, Serves
    <2> QED BY <2>3 DEF IInv, Ownership, Names
  <1> QED BY <1>1, Invariance, PTL

\* The registry's own index finds every record, so CLEANUP_NODE, which looks only in the
\* set of a dead node, forgets none (COMMIT_CLAIM, ACTIVATE).
THEOREM RecordsAreIndexed == Spec => []RecordIsIndexed
  <1>1. IInv => RecordIsIndexed
    BY DEF IInv
  <1> QED BY <1>1, Invariance, PTL

-----------------------------------------------------------------------------
(* Handing over.                                                              *)

\* What a step may make of the owner.
Passes ==
  db.rec # NoRec /\ db'.rec # NoRec /\ db'.rec.conn # db.rec.conn =>
     ~Open(db.rec.conn) \/ status[db.rec.node] # "safe"

\* The record stays, keeps its owner or goes.
LEMMA NoHandoff ==
  ASSUME db'.rec = db.rec \/ RecKept(db, db') \/ db'.rec = NoRec
  PROVE  Passes
  BY DEF Passes, RecKept, SameGeneration

\* A commit replaces the record of a predecessor that was fenced.
LEMMA CommitPasses ==
  ASSUME IInv, NEW n \in Nodes, CommitClaim(n)
  PROVE  Passes
  <1>1. At(n, "reserve", "commit") /\ "commit" \in PastClaim
    BY DEF CommitClaim, PastClaim
  <1>2. Progress(n) /\ op[n].at = "commit" /\ Conn(n) \in Conns /\ db \in Registries /\ Indexed(db)
    BY <1>1, AtStage
  <1> DEFINE e == COMMIT(db, n, Conn(n)).db
  <1>3. \/ e.rec = db.rec
        \/ db.claim.conn = Conn(n) /\ (db.rec = NoRec \/ db.rec = db.claim.prev)
    BY <1>2, CommitScript
  <1>4. db' = db \/ db' = e
    BY DEF CommitClaim, Apply
  <1> HIDE DEF e
  <1>5. ASSUME db.claim.conn = Conn(n), db.rec = db.claim.prev, db.rec # NoRec PROVE ~Open(db.rec.conn)
    <2>1. db.claim.prev = op[n].prev
      BY <1>1, <1>2, <1>5 DEF Progress
    <2>2. Gone(op[n].prev)
      BY <1>1, <1>2, <1>5, <2>1 DEF Progress, Staged
    <2> QED BY <1>5, <2>1, <2>2 DEF Gone, SameGeneration
  <1> QED BY <1>3, <1>4, <1>5 DEF Passes

\* No other step of takeOwnership() replaces the record.
LEMMA TakeoverPasses ==
  ASSUME IInv, NEW n \in Nodes,
         CreateClaim(n) \/ RemoveChangedPrevious(n) \/ RemoveFencedPrevious(n) \/ RemoveResult(n)
           \/ Committed(n) \/ FinallyReserve(n)
  PROVE  Passes
  <1>1. PICK y \in {"claim", "removePrevious", "removeFenced", "removeResult", "committed", "finally"} :
          At(n, "reserve", y)
    BY DEF CreateClaim, RemoveChangedPrevious, RemoveFencedPrevious, RemoveResult, Committed, FinallyReserve
  <1>2. Conn(n) \in Conns /\ db \in Registries /\ Indexed(db) /\ Job(n) \in Tasks
    BY <1>1, AtStage
  <1> DEFINE a == CLAIM(db, n, Conn(n), Job(n).supersede).db
             p == REMOVE_PREVIOUS(db, n, Conn(n)).db
             r == REMOVE_RESULT(db, n, Conn(n)).db
  <1>3. a.rec = db.rec
    <2>1. Job(n).supersede \in BOOLEAN
      BY <1>2 DEF Tasks
    <2> QED BY <1>2, <2>1, ClaimScript
  <1>4. p \in Registries /\ (p.rec = db.rec \/ p.rec = NoRec)
    BY <1>2, RemovePreviousScript
  <1>5. r.rec = db.rec \/ r.rec = NoRec
    BY <1>2, RemoveResultScript DEF RemovesOwn
  <1>6. CASE CreateClaim(n)
    <2>1. db' = db \/ db' = a
      BY <1>6 DEF CreateClaim, Apply
    <2> HIDE DEF a
    <2> QED BY <1>3, <2>1, NoHandoff
  <1>7. CASE RemoveChangedPrevious(n) \/ RemoveFencedPrevious(n)
    <2>1. db' = db \/ db' = p
      BY <1>7 DEF RemoveChangedPrevious, RemoveFencedPrevious, Apply
    <2> HIDE DEF p
    <2> QED BY <1>4, <2>1, NoHandoff
  <1>8. CASE RemoveResult(n) \/ Committed(n)
    <2>1. db' = db \/ db' = r
      BY <1>8 DEF RemoveResult, Committed, Apply
    <2> HIDE DEF r
    <2> QED BY <1>5, <2>1, NoHandoff
  <1>9. CASE FinallyReserve(n)
    <2>1. \E d \in {db, p} : db' = d \/ db' = ABORT(d, Conn(n))
      BY <1>9 DEF FinallyReserve
    <2> HIDE DEF p
    <2>2. PICK d \in {db, p} : db' = d \/ db' = ABORT(d, Conn(n))
      BY <2>1
    <2>3. d \in Registries /\ (d.rec = db.rec \/ d.rec = NoRec)
      BY <1>2, <1>4
    <2>4. db'.rec = d.rec
      BY <1>2, <2>2, <2>3, AbortScript
    <2> QED BY <2>3, <2>4, NoHandoff
  <1> QED BY <1>6, <1>7, <1>8, <1>9

\* Nor does any other job.
LEMMA JobPasses ==
  ASSUME IInv, NEW n \in Nodes,
         ActivateClient(n) \/ Activated(n) \/ RetryExactUnregister(n) \/ UpdateMetadata(n)
  PROVE  Passes
  <1>1. PICK j \in {"activate", "unregister", "meta"}, y \in {"idle", "activated"} : At(n, j, y)
    BY DEF ActivateClient, Activated, RetryExactUnregister, UpdateMetadata
  <1>2. Conn(n) \in Conns /\ db \in Registries /\ Indexed(db)
    BY <1>1, AtStage
  <1> DEFINE a == ACTIVATE(db, n, Conn(n)).db
             u == UNREGISTER(db, n, Conn(n)).db
             m == UPDATE_METADATA(db, n, Conn(n)).db
  <1>3. RecKept(db, a)
    BY <1>2, ActivateScript
  <1>4. u.rec = db.rec \/ u.rec = NoRec
    BY <1>2, UnregisterScript DEF RemovesOwn
  <1>5. RecKept(db, m)
    BY <1>2, MetadataScript
  <1>6. CASE ActivateClient(n)
    <2>1. db' = db \/ db' = a
      BY <1>6 DEF ActivateClient, Apply
    <2> HIDE DEF a
    <2> QED BY <1>3, <2>1, NoHandoff
  <1>7. CASE Activated(n) \/ RetryExactUnregister(n)
    <2>1. db' = db \/ db' = u
      BY <1>7 DEF Activated, RetryExactUnregister
    <2> HIDE DEF u
    <2> QED BY <1>4, <2>1, NoHandoff
  <1>8. CASE UpdateMetadata(n)
    <2>1. db' = db \/ db' = m
      BY <1>8 DEF UpdateMetadata, Apply
    <2> HIDE DEF m
    <2> QED BY <1>5, <2>1, NoHandoff
  <1> QED BY <1>6, <1>7, <1>8

\* Ownership passes from one connection to another only when the first can no longer
\* deliver: fencePreviousOwner() has ended its stream, the registry has disproved it, or
\* its node has lost its lease, before COMMIT_CLAIM publishes the next owner.
THEOREM HandoffAlwaysFenced == Spec => HandoffIsFenced
  <1>1. IInv /\ [Next]_vars => [Passes]_vars
    <2> SUFFICES ASSUME IInv, Next PROVE Passes
      OBVIOUS
    <2>1. ASSUME NEW n \in Nodes, Work(n) PROVE Passes
      <3>1. CASE ReserveStarts(n) \/ FencePreviousOwner(n) \/ ReconcileFence(n) \/ CheckCommit(n) \/ Ambiguous(n)
        <4>1. db' = db
          BY <3>1 DEF ReserveStarts, FencePreviousOwner, ReconcileFence, CheckCommit, Ambiguous
        <4> QED BY <4>1, NoHandoff
      <3> QED BY <2>1, <3>1, CommitPasses, TakeoverPasses, JobPasses DEF Work
    <2>2. ASSUME NEW n \in Nodes, LeaseLapses(n) \/ LeaseLost(n) \/ Crash(n) PROVE Passes
      <3>1. db' = db
        BY <2>2 DEF LeaseLapses, LeaseLost, Crash
      <3> QED BY <3>1, NoHandoff
    <2>3. ASSUME NEW n \in Nodes, CleanupNode(n) PROVE Passes
      <3>1. db' = CLEANUP(db, n) /\ db \in Registries /\ Indexed(db)
        BY <2>3 DEF CleanupNode, IInv, TypeInv, RecordIsIndexed, Indexed
      <3>2. db'.rec = db.rec \/ db'.rec = NoRec
        BY <3>1, CleanupScript
      <3> QED BY <3>2, NoHandoff
    <2>4. ASSUME NEW c \in Conns,
                 \/ WillActivate(c) \/ Disconnect(c) \/ SyncStreamMeta(c)
                 \/ \E n \in Nodes, s \in BOOLEAN : Connect(c, n, s)
          PROVE  Passes
      <3>1. db' = db
        BY <2>4 DEF WillActivate, Disconnect, SyncStreamMeta, Connect
      <3> QED BY <3>1, NoHandoff
    <2>5. CASE ClaimExpires
      <3>1. db'.rec = db.rec
        BY <2>5 DEF ClaimExpires, IInv, TypeInv, Registries
      <3> QED BY <3>1, NoHandoff
    <2> QED BY <2>1, <2>2, <2>3, <2>4, <2>5 DEF Next
  <1>2. [Passes]_vars => [db.rec # NoRec /\ db'.rec # NoRec /\ db'.rec.conn # db.rec.conn =>
                            ~Open(db.rec.conn) \/ status[db.rec.node] # "safe"]_vars
    BY DEF Passes
  <1> QED BY <1>1, <1>2, Invariance, PTL DEF Spec, HandoffIsFenced
=============================================================================
