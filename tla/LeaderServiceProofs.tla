------------------------ MODULE LeaderServiceProofs ------------------------
(***************************************************************************)
(* Safety of the Redis lease election for any number of instances, lock    *)
(* identifiers and rejected calls.                                         *)
(***************************************************************************)
EXTENDS LeaderService, TLAPS

\* The record operators of a command, for every kind and stage.
LEMMA CmdType ==
  ASSUME NEW k \in Kinds, NEW i \in Instances, NEW g \in Nat, NEW s \in Stages
  PROVE  /\ Cmd(k, i, g, s) \in Commands
         /\ Cmd(k, i, g, s).kind = k
         /\ Cmd(k, i, g, s).owner = i
         /\ Cmd(k, i, g, s).gen = g
         /\ Cmd(k, i, g, s).stage = s
  BY DEF Cmd, Commands

\* The literals the actions use are kinds and stages.
LEMMA Literals ==
  /\ "acquire" \in Kinds /\ "renew" \in Kinds /\ "release" \in Kinds
  /\ "sent" \in Stages /\ "granted" \in Stages /\ "denied" \in Stages
  /\ "failed" \in Stages /\ "ghost" \in Stages
  BY DEF Kinds, Stages

\* What an executed script leaves in the key and answers.
LEMMA ScriptType ==
  ASSUME TypeOK, NEW c \in cmds
  PROVE  /\ c \in Commands
         /\ Lock(c) \in Locks
         /\ KeyAfter(c) \in Locks \cup {NoLock}
         /\ Result(c) \in {"granted", "denied"}
  <1>1. c \in Commands
    BY DEF TypeOK
  <1>2. Lock(c) \in Locks
    BY <1>1 DEF Commands, Lock, Locks
  <1>3. c.kind \in {"acquire", "renew", "release"}
    BY <1>1 DEF Commands, Kinds
  <1>4. KeyAfter(c) \in Locks \cup {NoLock}
    BY <1>2, <1>3 DEF KeyAfter, TypeOK
  <1>5. Result(c) \in {"granted", "denied"}
    BY <1>3 DEF Result
  <1> QED BY <1>1, <1>2, <1>4, <1>5

\* handleLostLeadership() leaves well-typed timers, intervals and identifiers.
LEMMA LostType ==
  ASSUME TypeOK, NEW i \in Instances, handleLostLeadership(i)
  PROVE  /\ isLeader' \in [Instances -> BOOLEAN]
         /\ renewals' \in [Instances -> SUBSET Nat]
         /\ lockGen' \in [Instances -> Nat]
         /\ retryTimers' \in [Instances -> Nat]
  BY DEF TypeOK, handleLostLeadership, FreshLockId

-----------------------------------------------------------------------------
\* Every step keeps the state well typed.
LEMMA TypeStep == TypeOK /\ [Next]_vars => TypeOK'
  <1> SUFFICES ASSUME TypeOK, [Next]_vars PROVE TypeOK'
    OBVIOUS
  <1> USE CmdType, Literals
  <1>1. ASSUME NEW i \in Instances, start(i) PROVE TypeOK'
    BY <1>1 DEF TypeOK, start, tryAcquire
  <1>2. ASSUME NEW i \in Instances, stop(i) PROVE TypeOK'
    BY <1>2 DEF TypeOK, stop, FreshLockId
  <1>3. ASSUME NEW i \in Instances, RetryFires(i) PROVE TypeOK'
    BY <1>3 DEF TypeOK, RetryFires, tryAcquire
  <1>4. ASSUME NEW i \in Instances, NEW g \in 0..MaxGen, RenewTick(i, g)
        PROVE TypeOK'
    <2>1. g \in Nat
      BY LeaderAssumption
    <2> QED BY <1>4, <2>1 DEF TypeOK, RenewTick
  <1>5. ASSUME NEW i \in Instances, NEW g \in 0..MaxGen, CallbackResolves(i, g)
        PROVE TypeOK'
    BY <1>5 DEF TypeOK, CallbackResolves
  <1>6. ASSUME NEW i \in Instances, NEW g \in 0..MaxGen, CallbackRejects(i, g)
        PROVE TypeOK'
    <2>1. g \in Nat
      BY LeaderAssumption
    <2>2. CASE RetryOnCallbackError /\ isLeader[i] /\ lockGen[i] = g
      <3>1. handleLostLeadership(i)
        BY <1>6, <2>2, Zenon DEF CallbackRejects
      <3> QED BY <1>6, <2>1, <2>2, <3>1, LostType DEF TypeOK, CallbackRejects
    <2>3. CASE ~(RetryOnCallbackError /\ isLeader[i] /\ lockGen[i] = g)
      BY <1>6, <2>3 DEF TypeOK, CallbackRejects
    <2> QED BY <2>2, <2>3
  <1>7. ASSUME NEW i \in Instances, Crash(i) PROVE TypeOK'
    <2>1. cmds' \in SUBSET Commands
      <3>1. \A c \in cmds : c.kind \in Kinds /\ c.gen \in Nat
        BY DEF TypeOK, Commands
      <3> QED BY <1>7, <3>1 DEF TypeOK, Crash
    <2> QED BY <1>7, <2>1 DEF TypeOK, Crash, FreshLockId
  <1>8. ASSUME NEW c \in cmds, AcquireStale(c) PROVE TypeOK'
    <2>1. c.owner \in Instances /\ c.gen \in Nat
      BY DEF TypeOK, Commands
    <2> QED BY <1>8, <2>1 DEF TypeOK, AcquireStale
  <1>9. ASSUME NEW c \in cmds, AcquireAdopted(c) PROVE TypeOK'
    <2>1. c.owner \in Instances /\ c.gen \in Nat
      BY DEF TypeOK, Commands
    <2> QED BY <1>9, <2>1 DEF TypeOK, AcquireAdopted
  <1>10. ASSUME NEW c \in cmds, AcquireMissed(c) PROVE TypeOK'
    <2>1. c.owner \in Instances
      BY DEF TypeOK, Commands
    <2> QED BY <1>10, <2>1 DEF TypeOK, AcquireMissed
  <1>11. ASSUME NEW c \in cmds, RenewReply(c) PROVE TypeOK'
    <2>1. c.owner \in Instances
      BY DEF TypeOK, Commands
    <2>2. CASE c.stage # "granted" /\ lockGen[c.owner] = c.gen /\ isLeader[c.owner]
      <3>1. handleLostLeadership(c.owner)
        BY <1>11, <2>2 DEF RenewReply
      <3> QED BY <1>11, <2>1, <3>1, LostType DEF TypeOK, RenewReply
    <2>3. CASE ~(c.stage # "granted" /\ lockGen[c.owner] = c.gen /\ isLeader[c.owner])
      BY <1>11, <2>3 DEF TypeOK, RenewReply
    <2> QED BY <2>2, <2>3
  <1>12. ASSUME NEW c \in cmds, RedisExecutes(c) PROVE TypeOK'
    <2>1. c.kind \in Kinds /\ c.owner \in Instances /\ c.gen \in Nat
      BY DEF TypeOK, Commands
    <2>2. Result(c) \in Stages
      BY ScriptType DEF Stages
    <2>3. Cmd(c.kind, c.owner, c.gen, Result(c)) \in Commands
      BY <2>1, <2>2
    <2> QED BY <1>12, <2>3, ScriptType DEF TypeOK, RedisExecutes
  <1>13. ASSUME NEW c \in cmds, CallRejects(c) PROVE TypeOK'
    <2>1. c.kind \in Kinds /\ c.owner \in Instances /\ c.gen \in Nat
      BY DEF TypeOK, Commands
    <2> QED BY <1>13, <2>1, SMTT(30) DEF TypeOK, CallRejects
  <1>r. ASSUME NEW c \in cmds, Resent(c) PROVE TypeOK'
    <2>1. c.kind \in Kinds /\ c.owner \in Instances /\ c.gen \in Nat
      BY DEF TypeOK, Commands
    <2> QED BY <1>r, <2>1, SMTT(30) DEF TypeOK, Resent
  <1>14. ASSUME NEW c \in cmds, GhostExecutes(c) PROVE TypeOK'
    BY <1>14, ScriptType DEF TypeOK, GhostExecutes
  <1>15. ASSUME NEW c \in cmds, GhostVanishes(c) PROVE TypeOK'
    BY <1>15 DEF TypeOK, GhostVanishes
  <1>16. CASE LeaseLapses
    BY <1>16 DEF TypeOK, LeaseLapses
  <1>17. CASE UNCHANGED vars
    BY <1>17 DEF TypeOK, vars
  <1> QED
    BY <1>1, <1>2, <1>3, <1>4, <1>5, <1>6, <1>7, <1>8, <1>9, <1>10, <1>11,
       <1>12, <1>13, <1>r, <1>14, <1>15, <1>16, <1>17
       DEF Next, Service, Handlers, Network

\* Type correctness of the election.
THEOREM TypeCorrect == Spec => []TypeOK
  <1>1. Init => TypeOK
    BY DEF Init, TypeOK
  <1> QED BY <1>1, TypeStep, PTL DEF Spec

-----------------------------------------------------------------------------
(***************************************************************************)
(* Lease safety. LeaseNeverStolen is not inductive: a RELEASE must be known *)
(* to carry an abandoned lock identifier, and a granted ACQUIRE that may   *)
(* still be adopted must be known to own the key.                          *)
(***************************************************************************)

\* Every lock identifier in flight or in Redis has been drawn.
GensDrawn == \A c \in cmds : c.gen <= lockGen[c.owner]

\* A stopped service has no outstanding ACQUIRE with its current identifier.
StoppedElectionOver ==
  \A c \in cmds :
    c.kind = "acquire" /\ c.stage # "ghost" /\ c.gen = lockGen[c.owner]
      => running[c.owner]

\* Only abandoned lock identifiers are released.
ReleasesAreOld ==
  \A c \in cmds : c.kind = "release" => c.gen # lockGen[c.owner]

\* A granted acquisition that can still be adopted owns the key.
GrantIsLive ==
  \A c \in cmds :
    c.kind = "acquire" /\ c.stage = "granted" /\ c.gen = lockGen[c.owner]
      => key = Lock(c) \/ Lock(c) \in lapsed

LeaseInv ==
  /\ TypeOK
  /\ GensDrawn
  /\ StoppedElectionOver
  /\ ReleasesAreOld
  /\ GrantIsLive
  /\ LeaseNeverStolen

\* A script never takes the key from a live acquisition: ACQUIRE needs the key
\* to be free, and no RELEASE carries a current lock identifier.
LEMMA KeyKept ==
  ASSUME LeaseInv, NEW c \in cmds, NEW i \in Instances, key = lockId(i)
  PROVE  KeyAfter(c) = key
  <1>1. key # NoLock
    BY LeaderAssumption DEF LeaseInv, TypeOK, lockId, Locks
  <1>2. c \in Commands /\ c.kind \in {"acquire", "renew", "release"}
    BY DEF LeaseInv, TypeOK, Commands, Kinds
  <1>3. c.kind = "release" => key # Lock(c)
    BY <1>2 DEF LeaseInv, ReleasesAreOld, lockId, Lock, Commands
  <1> QED BY <1>1, <1>2, <1>3 DEF KeyAfter

\* Sending, answering or dropping commands keeps the invariant as long as no
\* acquisition is granted and no current lock identifier is released.
LEMMA CommandsOnly ==
  ASSUME LeaseInv, TypeOK',
         UNCHANGED <<key, isLeader, lockGen, lapsed>>,
         \A i \in Instances : running[i] => running'[i],
         \A c \in cmds' :
           \/ c \in cmds
           \/ /\ c.gen <= lockGen[c.owner]
              /\ c.kind = "acquire" =>
                   /\ c.stage # "granted"
                   /\ c.stage # "ghost" /\ c.gen = lockGen[c.owner] => running'[c.owner]
              /\ c.kind = "release" => c.gen # lockGen[c.owner]
  PROVE  LeaseInv'
  <1>1. \A c \in cmds : c.owner \in Instances
    BY DEF LeaseInv, TypeOK, Commands
  <1>2. GensDrawn'
    BY DEF GensDrawn, LeaseInv
  <1>3. StoppedElectionOver'
    BY <1>1 DEF StoppedElectionOver, LeaseInv
  <1>4. ReleasesAreOld' /\ GrantIsLive'
    BY DEF ReleasesAreOld, GrantIsLive, LeaseInv, Lock
  <1>5. LeaseNeverStolen'
    BY DEF LeaseNeverStolen, LeaseInv, lockId
  <1> QED BY <1>2, <1>3, <1>4, <1>5 DEF LeaseInv

\* Abandoning a lock identifier keeps the invariant: whatever is still in
\* flight for the instance carries an identifier it no longer uses.
LEMMA Abandon ==
  ASSUME LeaseInv, TypeOK', NEW i \in Instances,
         UNCHANGED <<key, lapsed>>,
         FreshLockId(i),
         isLeader' = [isLeader EXCEPT ![i] = FALSE],
         \A j \in Instances \ {i} : running'[j] = running[j],
         \A c \in cmds' : c \in cmds \/ (c.owner = i /\ c.gen <= lockGen[i])
  PROVE  LeaseInv'
  <1>1. \A c \in cmds' : c.owner \in Instances /\ c.gen \in Nat
    BY DEF TypeOK, Commands
  <1>2. lockGen \in [Instances -> Nat] /\ isLeader \in [Instances -> BOOLEAN]
    BY DEF LeaseInv, TypeOK
  <1>3. lockGen'[i] = lockGen[i] + 1 /\ \A j \in Instances \ {i} : lockGen'[j] = lockGen[j]
    BY <1>2 DEF FreshLockId
  <1>4. \A c \in cmds' : c.owner = i => c.gen <= lockGen[i]
    BY DEF LeaseInv, GensDrawn
  <1>5. \A c \in cmds' : c.owner = i => c.gen < lockGen'[i]
    BY <1>1, <1>2, <1>3, <1>4
  <1>6. \A c \in cmds' : c.owner # i => c \in cmds /\ lockGen'[c.owner] = lockGen[c.owner]
    BY <1>1, <1>3
  <1>7. GensDrawn'
    BY <1>1, <1>2, <1>3, <1>5, <1>6 DEF GensDrawn, LeaseInv
  <1>8. \A c \in cmds' : c.gen = lockGen'[c.owner] => c.owner # i
    BY <1>1, <1>2, <1>3, <1>5
  <1>9. StoppedElectionOver'
    BY <1>1, <1>6, <1>8 DEF StoppedElectionOver, LeaseInv
  <1>10. ReleasesAreOld'
    BY <1>1, <1>6, <1>5 DEF ReleasesAreOld, LeaseInv
  <1>11. GrantIsLive'
    BY <1>6, <1>8 DEF GrantIsLive, LeaseInv, Lock
  <1>12. LeaseNeverStolen'
    BY <1>2, <1>3 DEF LeaseNeverStolen, LeaseInv, lockId
  <1> QED BY <1>7, <1>9, <1>10, <1>11, <1>12 DEF LeaseInv

\* A script execution keeps the invariant: the key of a live acquisition stays
\* and a granted ACQUIRE owns the key.
LEMMA ScriptExecutes ==
  ASSUME LeaseInv, TypeOK', NEW c \in cmds,
         key' = KeyAfter(c),
         UNCHANGED <<isLeader, lockGen, running, lapsed>>,
         \A d \in cmds' :
           \/ d \in cmds
           \/ /\ d.kind = c.kind /\ d.owner = c.owner /\ d.gen = c.gen
              /\ d.kind # "release" /\ c.stage = "sent" /\ d.stage = Result(c)
  PROVE  LeaseInv'
  <1>1. \A d \in cmds : d.owner \in Instances /\ d.gen \in Nat
    BY DEF LeaseInv, TypeOK, Commands
  <1>2. \A i \in Instances : key = lockId(i) => key' = key
    BY KeyKept
  <1>3. GensDrawn'
    BY DEF GensDrawn, LeaseInv
  <1>4. StoppedElectionOver'
    BY DEF StoppedElectionOver, LeaseInv
  <1>5. ReleasesAreOld'
    BY DEF ReleasesAreOld, LeaseInv
  <1>6. LeaseNeverStolen'
    BY <1>2 DEF LeaseNeverStolen, LeaseInv, lockId
  <1>7. ASSUME NEW d \in cmds', d.kind = "acquire", d.stage = "granted",
               d.gen = lockGen[d.owner]
        PROVE  key' = Lock(d) \/ Lock(d) \in lapsed
    <2>1. CASE d \in cmds
      <3>1. key = Lock(d) => key = lockId(d.owner)
        BY <1>7 DEF Lock, lockId
      <3> QED BY <1>1, <1>2, <1>7, <2>1, <3>1 DEF GrantIsLive, LeaseInv
    <2>2. CASE d \notin cmds
      <3>1. c.kind = "acquire" /\ Result(c) = "granted" /\ Lock(d) = Lock(c)
        BY <1>7, <2>2 DEF Lock
      <3>2. KeyAfter(c) = Lock(c)
        BY <3>1 DEF Result, KeyAfter
      <3> QED BY <3>1, <3>2
    <2> QED BY <2>1, <2>2
  <1>8. GrantIsLive'
    BY <1>7 DEF GrantIsLive, Lock
  <1> QED BY <1>3, <1>4, <1>5, <1>6, <1>8 DEF LeaseInv

\* Every step keeps the lease invariant.
LEMMA LeaseStep == LeaseInv /\ [Next]_vars => LeaseInv'
  <1> SUFFICES ASSUME LeaseInv, [Next]_vars PROVE LeaseInv'
    OBVIOUS
  <1> USE CmdType, Literals
  <1>0. TypeOK /\ TypeOK'
    BY TypeStep DEF LeaseInv
  <1>a. \A c \in cmds : c \in Commands /\ c.kind \in Kinds /\ c.owner \in Instances
                        /\ c.gen \in Nat /\ c.stage \in Stages
    BY <1>0 DEF TypeOK, Commands
  <1>b. \A c \in cmds : c.gen <= lockGen[c.owner]
    BY DEF LeaseInv, GensDrawn
  <1>c. \A i \in Instances : lockGen[i] \in Nat /\ lockGen[i] <= lockGen[i]
    BY <1>0 DEF TypeOK
  <1>1. ASSUME NEW i \in Instances, start(i) PROVE LeaseInv'
    <2>1. \A j \in Instances : running[j] => running'[j]
      BY <1>0, <1>1 DEF start, TypeOK
    <2>2. running'[i]
      BY <1>0, <1>1 DEF start, TypeOK
    <2> QED BY <1>0, <1>1, <1>c, <2>1, <2>2, CommandsOnly DEF start, tryAcquire
  <1>2. ASSUME NEW i \in Instances, stop(i) PROVE LeaseInv'
    <2>1. \A j \in Instances \ {i} : running'[j] = running[j]
      BY <1>0, <1>2 DEF stop, TypeOK
    <2>2. \A c \in cmds' : c \in cmds \/ (c.owner = i /\ c.gen <= lockGen[i])
      BY <1>2, <1>c DEF stop
    <2> QED BY <1>0, <1>2, <2>1, <2>2, Abandon DEF stop
  <1>3. ASSUME NEW i \in Instances, RetryFires(i) PROVE LeaseInv'
    BY <1>0, <1>3, <1>c, CommandsOnly DEF RetryFires, tryAcquire
  <1>4. ASSUME NEW i \in Instances, NEW g \in 0..MaxGen, RenewTick(i, g)
        PROVE LeaseInv'
    BY <1>0, <1>4, <1>c, CommandsOnly DEF RenewTick
  <1>5. ASSUME NEW i \in Instances, NEW g \in 0..MaxGen, CallbackResolves(i, g)
        PROVE LeaseInv'
    BY <1>0, <1>5, CommandsOnly DEF CallbackResolves
  <1>6. ASSUME NEW i \in Instances, NEW g \in 0..MaxGen, CallbackRejects(i, g)
        PROVE LeaseInv'
    <2>1. CASE RetryOnCallbackError /\ isLeader[i] /\ lockGen[i] = g
      <3>1. handleLostLeadership(i) /\ cmds' = cmds \cup {Cmd("release", i, g, "sent")}
        BY <1>6, <2>1, Zenon DEF CallbackRejects
      <3>2. UNCHANGED <<key, running, lapsed>>
        BY <1>6 DEF CallbackRejects
      <3>3. \A c \in cmds' : c \in cmds \/ (c.owner = i /\ c.gen <= lockGen[i])
        BY <1>c, <2>1, <3>1
      <3> QED BY <1>0, <3>1, <3>2, <3>3, Abandon DEF handleLostLeadership
    <2>2. CASE ~(RetryOnCallbackError /\ isLeader[i] /\ lockGen[i] = g)
      <3>1. UNCHANGED <<isLeader, lockGen, cmds>>
        BY <1>6, <2>2, Zenon DEF CallbackRejects
      <3> QED BY <1>0, <1>6, <3>1, CommandsOnly DEF CallbackRejects
    <2> QED BY <2>1, <2>2
  <1>7. ASSUME NEW i \in Instances, Crash(i) PROVE LeaseInv'
    <2>1. \A j \in Instances \ {i} : running'[j] = running[j]
      BY <1>0, <1>7 DEF Crash, TypeOK
    <2>2. \A c \in cmds' : c \in cmds \/ (c.owner = i /\ c.gen <= lockGen[i])
      BY <1>7, <1>a, <1>b DEF Crash
    <2> QED BY <1>0, <1>7, <2>1, <2>2, Abandon DEF Crash
  <1>8. ASSUME NEW c \in cmds, AcquireStale(c) PROVE LeaseInv'
    <2>1. c.gen # lockGen[c.owner]
      BY <1>8 DEF AcquireStale, LeaseInv, StoppedElectionOver
    <2> QED BY <1>0, <1>8, <1>a, <1>b, <2>1, CommandsOnly DEF AcquireStale
  <1>9. ASSUME NEW c \in cmds, AcquireAdopted(c) PROVE LeaseInv'
    <2>1. c.owner \in Instances /\ lockId(c.owner) = Lock(c)
      BY <1>9, <1>a DEF AcquireAdopted, lockId, Lock
    <2>2. key = Lock(c) \/ Lock(c) \in lapsed
      BY <1>9 DEF AcquireAdopted, LeaseInv, GrantIsLive
    <2>a. \A i \in Instances \ {c.owner} : isLeader'[i] = isLeader[i]
      <3>1. isLeader' = [isLeader EXCEPT ![c.owner] = TRUE]
        BY <1>9 DEF AcquireAdopted
      <3>2. isLeader \in [Instances -> BOOLEAN]
        BY <1>0 DEF TypeOK
      <3> QED BY <3>1, <3>2, Zenon
    <2>b. UNCHANGED <<key, lapsed, lockGen>>
      BY <1>9 DEF AcquireAdopted
    <2>3. LeaseNeverStolen'
      BY <2>1, <2>2, <2>a, <2>b DEF LeaseInv, LeaseNeverStolen, lockId
    <2>4. GensDrawn' /\ StoppedElectionOver' /\ ReleasesAreOld' /\ GrantIsLive'
      BY <1>9 DEF AcquireAdopted, LeaseInv, GensDrawn, StoppedElectionOver,
                  ReleasesAreOld, GrantIsLive, Lock
    <2> QED BY <1>0, <2>3, <2>4 DEF LeaseInv
  <1>10. ASSUME NEW c \in cmds, AcquireMissed(c) PROVE LeaseInv'
    BY <1>0, <1>10, CommandsOnly DEF AcquireMissed
  <1>11. ASSUME NEW c \in cmds, RenewReply(c) PROVE LeaseInv'
    <2>1. CASE c.stage # "granted" /\ lockGen[c.owner] = c.gen /\ isLeader[c.owner]
      <3>1. handleLostLeadership(c.owner)
        BY <1>11, <2>1 DEF RenewReply
      <3> QED BY <1>0, <1>11, <1>a, <3>1, Abandon DEF RenewReply, handleLostLeadership
    <2>2. CASE ~(c.stage # "granted" /\ lockGen[c.owner] = c.gen /\ isLeader[c.owner])
      BY <1>0, <1>11, <2>2, CommandsOnly DEF RenewReply
    <2> QED BY <2>1, <2>2
  <1>12. ASSUME NEW c \in cmds, RedisExecutes(c) PROVE LeaseInv'
    <2>1. Result(c) \in Stages
      BY <1>0, ScriptType DEF Stages
    <2> QED BY <1>0, <1>12, <1>a, <2>1, ScriptExecutes DEF RedisExecutes
  <1>13. ASSUME NEW c \in cmds, CallRejects(c) PROVE LeaseInv'
    <2>1. c.kind = "release" => c.gen # lockGen[c.owner]
      BY DEF LeaseInv, ReleasesAreOld
    <2>2. \A d \in cmds' :
            \/ d \in cmds
            \/ /\ d.kind = c.kind /\ d.owner = c.owner /\ d.gen = c.gen
               /\ d.stage = "ghost" \/ (d.stage = "failed" /\ c.stage # "ghost")
      BY <1>13, <1>a DEF CallRejects
    <2>3. c.kind = "acquire" /\ c.stage # "ghost" /\ c.gen = lockGen[c.owner]
            => running[c.owner]
      BY DEF LeaseInv, StoppedElectionOver
    <2> QED BY <1>0, <1>13, <1>a, <1>b, <2>1, <2>2, <2>3, CommandsOnly DEF CallRejects
  <1>r. ASSUME NEW c \in cmds, Resent(c) PROVE LeaseInv'
    <2>1. c.kind = "release" => c.gen # lockGen[c.owner]
      BY DEF LeaseInv, ReleasesAreOld
    <2>2. c.kind = "acquire" /\ c.gen = lockGen[c.owner] => running[c.owner]
      BY <1>r DEF Resent, LeaseInv, StoppedElectionOver
    <2> QED BY <1>0, <1>r, <1>a, <1>b, <2>1, <2>2, CommandsOnly DEF Resent
  <1>14. ASSUME NEW c \in cmds, GhostExecutes(c) PROVE LeaseInv'
    BY <1>0, <1>14, ScriptExecutes DEF GhostExecutes
  <1>15. ASSUME NEW c \in cmds, GhostVanishes(c) PROVE LeaseInv'
    BY <1>0, <1>15, CommandsOnly DEF GhostVanishes
  <1>16. CASE LeaseLapses
    <2>1. \A l : key = l \/ l \in lapsed => l \in lapsed'
      BY <1>16 DEF LeaseLapses
    <2>2. GrantIsLive' /\ LeaseNeverStolen'
      BY <1>16, <2>1 DEF LeaseLapses, LeaseInv, GrantIsLive, LeaseNeverStolen, lockId, Lock
    <2>3. GensDrawn' /\ StoppedElectionOver' /\ ReleasesAreOld'
      BY <1>16 DEF LeaseLapses, LeaseInv, GensDrawn, StoppedElectionOver, ReleasesAreOld
    <2> QED BY <1>0, <2>2, <2>3 DEF LeaseInv
  <1>17. CASE UNCHANGED vars
    BY <1>0, <1>17, CommandsOnly DEF vars
  <1> QED
    BY <1>1, <1>2, <1>3, <1>4, <1>5, <1>6, <1>7, <1>8, <1>9, <1>10, <1>11,
       <1>12, <1>13, <1>r, <1>14, <1>15, <1>16, <1>17
       DEF Next, Service, Handlers, Network

\* No command, however late, ends the lease of an instance that leads.
THEOREM LeaseSafe == Spec => []LeaseNeverStolen
  <1>1. Init => LeaseInv
    BY DEF Init, LeaseInv, TypeOK, GensDrawn, StoppedElectionOver,
           ReleasesAreOld, GrantIsLive, LeaseNeverStolen
  <1>2. LeaseInv => LeaseNeverStolen
    BY DEF LeaseInv
  <1> QED BY <1>1, <1>2, LeaseStep, PTL DEF Spec

\* At most one of the instances that lead still has its lease.
THEOREM UniqueLeader == Spec => []OneUnlapsedLeader
  <1>1. LeaseNeverStolen => OneUnlapsedLeader
    BY DEF LeaseNeverStolen, OneUnlapsedLeader, lockId
  <1> QED BY <1>1, LeaseSafe, PTL

-----------------------------------------------------------------------------
(***************************************************************************)
(* The election chain. OneElectionChain needs the lease invariant (what is *)
(* in flight carries an identifier already drawn, so that a fresh one      *)
(* starts with no ACQUIRE) and the fact that only running instances lead   *)
(* (so that start() and lost leadership find the timer count they expect). *)
(***************************************************************************)

\* What OneElectionChain says of one instance.
Chain(i) ==
  IF running[i] /\ ~isLeader[i]
  THEN \/ retryTimers[i] = 1 /\ LiveAcquires(i) = {}
       \/ retryTimers[i] = 0 /\ \E c \in cmds : LiveAcquires(i) = {c}
  ELSE retryTimers[i] = 0 /\ LiveAcquires(i) = {}

\* stop() and a crash end leadership together with the election.
LeadersRun == \A i \in Instances : isLeader[i] => running[i]

ChainInv ==
  /\ LeaseInv
  /\ LeadersRun
  /\ \A i \in Instances : Chain(i)

\* The outstanding ACQUIREs of an instance after a step, by membership.
LEMMA LivePrime ==
  ASSUME NEW i \in Instances
  PROVE  \A c : c \in LiveAcquires(i)' <=>
           /\ c \in cmds' /\ c.kind = "acquire" /\ c.owner = i
           /\ c.gen = lockGen'[i] /\ c.stage # "ghost"
  BY DEF LiveAcquires

\* A step that touches neither the flags nor the outstanding ACQUIREs of an
\* instance keeps its chain.
LEMMA ChainKept ==
  ASSUME NEW i \in Instances, Chain(i),
         running'[i] = running[i], isLeader'[i] = isLeader[i],
         retryTimers'[i] = retryTimers[i], lockGen'[i] = lockGen[i],
         \A c : c.owner = i /\ c.kind = "acquire" /\ c.gen = lockGen[i] /\ c.stage # "ghost"
                  => (c \in cmds' <=> c \in cmds)
  PROVE  Chain(i)'
  <1>1. LiveAcquires(i)' = LiveAcquires(i)
    BY LivePrime DEF LiveAcquires
  <1>2. \A c \in cmds : LiveAcquires(i) = {c} => c \in cmds'
    BY <1>1 DEF LiveAcquires
  <1> QED BY <1>1, <1>2 DEF Chain

\* A fresh lock identifier starts with no ACQUIRE of its own.
LEMMA FreshIsQuiet ==
  ASSUME LeaseInv, NEW i \in Instances, FreshLockId(i), TypeOK',
         \A c \in cmds' : c \in cmds \/ c.owner # i \/ c.gen <= lockGen[i]
  PROVE  LiveAcquires(i)' = {}
  <1>1. lockGen'[i] = lockGen[i] + 1 /\ lockGen[i] \in Nat
    BY DEF LeaseInv, TypeOK, FreshLockId
  <1>2. \A c \in cmds' : c.owner = i => c.gen <= lockGen[i] /\ c.gen \in Nat
    BY DEF LeaseInv, GensDrawn, TypeOK, Commands
  <1>3. \A c \in cmds' : c.owner = i => c.gen # lockGen'[i]
    BY <1>1, <1>2
  <1> QED BY <1>3, LivePrime

\* While an ACQUIRE of the current election is outstanding it is the only one,
\* and no retry timer is armed.
LEMMA LiveIsOnly ==
  ASSUME ChainInv, NEW c \in cmds, c.kind = "acquire", c.stage # "ghost",
         c.gen = lockGen[c.owner]
  PROVE  /\ running[c.owner] /\ ~isLeader[c.owner] /\ retryTimers[c.owner] = 0
         /\ LiveAcquires(c.owner) = {c}
  <1>1. c.owner \in Instances
    BY DEF ChainInv, LeaseInv, TypeOK, Commands
  <1>2. c \in LiveAcquires(c.owner)
    BY DEF LiveAcquires
  <1>3. Chain(c.owner)
    BY <1>1 DEF ChainInv
  <1> QED BY <1>2, <1>3 DEF Chain

\* Commands change stage without a handler of the service running: an ACQUIRE
\* of the current election is replaced by exactly one other.
LEMMA ChainReplaced ==
  ASSUME ChainInv, NEW c \in cmds, NEW d \in Commands, c.stage # "ghost",
         UNCHANGED <<running, isLeader, retryTimers, lockGen>>,
         d.kind = c.kind, d.owner = c.owner, d.gen = c.gen, d.stage # "ghost",
         \A e : e.kind = "acquire" /\ e.stage # "ghost" =>
                  (e \in cmds' <=> e = d \/ (e \in cmds /\ e # c))
  PROVE  \A i \in Instances : Chain(i)'
  <1> SUFFICES ASSUME NEW i \in Instances PROVE Chain(i)'
    OBVIOUS
  <1>1. CASE c.kind = "acquire" /\ c.owner = i /\ c.gen = lockGen[i]
    <2>1. running[i] /\ ~isLeader[i] /\ retryTimers[i] = 0 /\ LiveAcquires(i) = {c}
      BY <1>1, LiveIsOnly
    <2>2. \A e : e \in cmds /\ e.kind = "acquire" /\ e.owner = i /\ e.gen = lockGen[i]
                   /\ e.stage # "ghost" <=> e = c
      BY <2>1 DEF LiveAcquires
    <2>3. LiveAcquires(i)' = {d}
      BY <1>1, <2>2, LivePrime
    <2>4. d \in cmds'
      BY <1>1
    <2> QED BY <2>1, <2>3, <2>4 DEF Chain
  <1>2. CASE ~(c.kind = "acquire" /\ c.owner = i /\ c.gen = lockGen[i])
    <2>1. Chain(i)
      BY DEF ChainInv
    <2>2. \A e : e.owner = i /\ e.kind = "acquire" /\ e.gen = lockGen[i] /\ e.stage # "ghost"
                  => (e \in cmds' <=> e \in cmds)
      BY <1>2
    <2> QED BY <2>1, <2>2, ChainKept
  <1> QED BY <1>1, <1>2

\* An instance that draws a fresh identifier keeps the chain when it is left
\* stopped without a timer, or running with exactly one.
LEMMA ChainFresh ==
  ASSUME ChainInv, TypeOK', NEW i \in Instances, FreshLockId(i),
         ~isLeader'[i], retryTimers'[i] = IF running'[i] THEN 1 ELSE 0,
         \A j \in Instances \ {i} :
           /\ running'[j] = running[j] /\ isLeader'[j] = isLeader[j]
           /\ retryTimers'[j] = retryTimers[j],
         \A c \in cmds' : c \in cmds \/ (c.owner = i /\ c.gen <= lockGen[i]),
         \A c \in cmds : c \in cmds' \/ c.owner = i
  PROVE  LeadersRun' /\ \A j \in Instances : Chain(j)'
  <1>1. LiveAcquires(i)' = {}
    BY FreshIsQuiet DEF ChainInv
  <1>2. Chain(i)'
    BY <1>1 DEF Chain
  <1>3. ASSUME NEW j \in Instances \ {i} PROVE Chain(j)'
    <2>1. lockGen'[j] = lockGen[j]
      BY DEF FreshLockId, ChainInv, LeaseInv, TypeOK
    <2>2. Chain(j)
      BY DEF ChainInv
    <2> QED BY <2>1, <2>2, ChainKept
  <1>4. LeadersRun'
    BY DEF LeadersRun, ChainInv
  <1> QED BY <1>2, <1>3, <1>4

\* Every step keeps every instance's chain.
LEMMA ChainStep == ChainInv /\ [Next]_vars => ChainInv'
  <1> SUFFICES ASSUME ChainInv, [Next]_vars PROVE LeadersRun' /\ \A j \in Instances : Chain(j)'
    BY LeaseStep DEF ChainInv
  <1> USE CmdType, Literals
  <1>0. TypeOK /\ TypeOK' /\ LeaseInv /\ LeadersRun /\ \A j \in Instances : Chain(j)
    BY TypeStep DEF ChainInv, LeaseInv
  <1>a. \A c \in cmds : c \in Commands /\ c.kind \in Kinds /\ c.owner \in Instances
                        /\ c.gen \in Nat /\ c.stage \in Stages
    BY <1>0 DEF TypeOK, Commands
  <1>b. \A c \in cmds : c.gen <= lockGen[c.owner]
    BY <1>0 DEF LeaseInv, GensDrawn
  <1>c. /\ \A i \in Instances : lockGen[i] \in Nat /\ lockGen[i] <= lockGen[i]
        /\ running \in [Instances -> BOOLEAN] /\ isLeader \in [Instances -> BOOLEAN]
        /\ retryTimers \in [Instances -> Nat]
    BY <1>0 DEF TypeOK
  <1>d. \A i \in Instances : retryTimers[i] \in {0, 1}
    BY <1>0 DEF Chain
  <1>s. ASSUME UNCHANGED <<running, isLeader, retryTimers, lockGen>>,
               \A c : c.kind = "acquire" /\ c.stage # "ghost" => (c \in cmds' <=> c \in cmds)
        PROVE LeadersRun' /\ \A j \in Instances : Chain(j)'
    BY <1>0, <1>s, ChainKept DEF LeadersRun
  <1>t. ASSUME NEW i \in Instances, running[i], ~isLeader'[i], FreshLockId(i), isLeader[i],
               retryTimers' = [retryTimers EXCEPT ![i] = IF running[i] THEN @ + 1 ELSE @],
               isLeader' = [isLeader EXCEPT ![i] = FALSE], UNCHANGED running,
               \A c \in cmds' : c \in cmds \/ (c.owner = i /\ c.gen <= lockGen[i]),
               \A c \in cmds : c \in cmds' \/ c.owner = i
        PROVE LeadersRun' /\ \A j \in Instances : Chain(j)'
    <2>1. retryTimers[i] = 0
      BY <1>0, <1>t DEF Chain
    <2>2. /\ retryTimers'[i] = IF running'[i] THEN 1 ELSE 0
          /\ \A j \in Instances \ {i} :
               /\ running'[j] = running[j] /\ isLeader'[j] = isLeader[j]
               /\ retryTimers'[j] = retryTimers[j]
      BY <1>c, <1>t, <2>1
    <2> QED BY <1>0, <1>t, <2>2, ChainFresh
  <1>1. ASSUME NEW i \in Instances, start(i) PROVE LeadersRun' /\ \A j \in Instances : Chain(j)'
    <2> DEFINE new == tryAcquire(i)
    <2>1. /\ new.kind = "acquire" /\ new.owner = i /\ new.gen = lockGen[i] /\ new.stage = "sent"
      BY <1>c DEF tryAcquire
    <2>2. /\ cmds' = cmds \cup {new} /\ ~running[i] /\ running'[i]
          /\ \A j \in Instances \ {i} : running'[j] = running[j]
          /\ UNCHANGED <<isLeader, retryTimers, lockGen>>
      BY <1>1, <1>c DEF start
    <2> HIDE DEF new
    <2>3. ~isLeader[i] /\ retryTimers[i] = 0 /\ LiveAcquires(i) = {}
      BY <1>0, <2>2 DEF LeadersRun, Chain
    <2>4. LiveAcquires(i)' = {new}
      BY <2>1, <2>2, <2>3, LivePrime DEF LiveAcquires
    <2>5. Chain(i)'
      BY <2>2, <2>3, <2>4 DEF Chain
    <2>6. ASSUME NEW j \in Instances \ {i} PROVE Chain(j)'
      BY <1>0, <2>1, <2>2, ChainKept
    <2> QED BY <1>0, <2>2, <2>5, <2>6 DEF LeadersRun
  <1>2. ASSUME NEW i \in Instances, stop(i) PROVE LeadersRun' /\ \A j \in Instances : Chain(j)'
    <2>1. /\ ~running'[i] /\ ~isLeader'[i] /\ retryTimers'[i] = 0
          /\ \A j \in Instances \ {i} :
               /\ running'[j] = running[j] /\ isLeader'[j] = isLeader[j]
               /\ retryTimers'[j] = retryTimers[j]
      BY <1>2, <1>c, <1>d DEF stop
    <2>2. \A c \in cmds' : c \in cmds \/ (c.owner = i /\ c.gen <= lockGen[i])
      BY <1>2, <1>c DEF stop
    <2>3. FreshLockId(i) /\ \A c \in cmds : c \in cmds'
      BY <1>2 DEF stop
    <2> QED BY <1>0, <2>1, <2>2, <2>3, ChainFresh
  <1>3. ASSUME NEW i \in Instances, RetryFires(i) PROVE LeadersRun' /\ \A j \in Instances : Chain(j)'
    <2> DEFINE new == tryAcquire(i)
    <2>1. /\ new.kind = "acquire" /\ new.owner = i /\ new.gen = lockGen[i] /\ new.stage = "sent"
      BY <1>c DEF tryAcquire
    <2>2. running[i] /\ ~isLeader[i] /\ retryTimers[i] = 1 /\ LiveAcquires(i) = {}
      BY <1>0, <1>3 DEF RetryFires, Chain
    <2>3. /\ cmds' = cmds \cup {new} /\ retryTimers'[i] = 0
          /\ \A j \in Instances \ {i} : retryTimers'[j] = retryTimers[j]
          /\ UNCHANGED <<isLeader, running, lockGen>>
      BY <1>3, <1>c, <2>2 DEF RetryFires
    <2> HIDE DEF new
    <2>4. LiveAcquires(i)' = {new}
      BY <2>1, <2>2, <2>3, LivePrime DEF LiveAcquires
    <2>5. Chain(i)'
      BY <2>2, <2>3, <2>4 DEF Chain
    <2>6. ASSUME NEW j \in Instances \ {i} PROVE Chain(j)'
      BY <1>0, <2>1, <2>3, ChainKept
    <2> QED BY <1>0, <2>3, <2>5, <2>6 DEF LeadersRun
  <1>4. ASSUME NEW i \in Instances, NEW g \in 0..MaxGen, RenewTick(i, g)
        PROVE LeadersRun' /\ \A j \in Instances : Chain(j)'
    <2>1. g \in Nat
      BY LeaderAssumption
    <2> QED BY <1>4, <1>s, <2>1 DEF RenewTick
  <1>5. ASSUME NEW i \in Instances, NEW g \in 0..MaxGen, CallbackResolves(i, g)
        PROVE LeadersRun' /\ \A j \in Instances : Chain(j)'
    BY <1>5, <1>s DEF CallbackResolves
  <1>6. ASSUME NEW i \in Instances, NEW g \in 0..MaxGen, CallbackRejects(i, g)
        PROVE LeadersRun' /\ \A j \in Instances : Chain(j)'
    <2>1. CASE RetryOnCallbackError /\ isLeader[i] /\ lockGen[i] = g
      <3>1. handleLostLeadership(i) /\ cmds' = cmds \cup {Cmd("release", i, g, "sent")}
        BY <1>6, <2>1, Zenon DEF CallbackRejects
      <3>2. UNCHANGED running /\ running[i]
        BY <1>0, <1>6, <2>1 DEF CallbackRejects, LeadersRun
      <3>3. ~isLeader'[i]
        BY <1>c, <3>1 DEF handleLostLeadership
      <3>4. /\ FreshLockId(i) /\ isLeader' = [isLeader EXCEPT ![i] = FALSE]
            /\ retryTimers' = [retryTimers EXCEPT ![i] = IF running[i] THEN @ + 1 ELSE @]
        BY <3>1 DEF handleLostLeadership
      <3>5. /\ \A c \in cmds' : c \in cmds \/ (c.owner = i /\ c.gen <= lockGen[i])
            /\ \A c \in cmds : c \in cmds'
        BY <1>c, <2>1, <3>1
      <3> QED BY <1>t, <2>1, <3>2, <3>3, <3>4, <3>5
    <2>2. CASE ~(RetryOnCallbackError /\ isLeader[i] /\ lockGen[i] = g)
      <3>1. UNCHANGED <<isLeader, retryTimers, lockGen, cmds>>
        BY <1>6, <2>2, Zenon DEF CallbackRejects
      <3>2. UNCHANGED running
        BY <1>6 DEF CallbackRejects
      <3> QED BY <1>s, <3>1, <3>2
    <2> QED BY <2>1, <2>2
  <1>7. ASSUME NEW i \in Instances, Crash(i) PROVE LeadersRun' /\ \A j \in Instances : Chain(j)'
    <2>1. /\ ~running'[i] /\ ~isLeader'[i] /\ retryTimers'[i] = 0
          /\ \A j \in Instances \ {i} :
               /\ running'[j] = running[j] /\ isLeader'[j] = isLeader[j]
               /\ retryTimers'[j] = retryTimers[j]
      BY <1>7, <1>c DEF Crash
    <2>2. \A c \in cmds' : c \in cmds \/ (c.owner = i /\ c.gen <= lockGen[i])
      BY <1>7, <1>a, <1>b DEF Crash
    <2>3. FreshLockId(i) /\ \A c \in cmds : c \in cmds' \/ c.owner = i
      BY <1>7 DEF Crash
    <2> QED BY <1>0, <2>1, <2>2, <2>3, ChainFresh
  <1>8. ASSUME NEW c \in cmds, AcquireStale(c) PROVE LeadersRun' /\ \A j \in Instances : Chain(j)'
    <2> DEFINE new == Cmd("release", c.owner, c.gen, "sent")
    <2>1. c.kind = "acquire" /\ c.stage = "granted" /\ c.gen # lockGen[c.owner]
      BY <1>8, LiveIsOnly DEF AcquireStale
    <2>2. new.kind = "release"
      BY <1>a
    <2>3. cmds' = (cmds \ {c}) \cup {new} /\ UNCHANGED <<running, isLeader, retryTimers, lockGen>>
      BY <1>8 DEF AcquireStale
    <2> HIDE DEF new
    <2>4. ASSUME NEW j \in Instances PROVE Chain(j)'
      <3>1. \A e : e.owner = j /\ e.kind = "acquire" /\ e.gen = lockGen[j] /\ e.stage # "ghost"
                     => (e \in cmds' <=> e \in cmds)
        BY <2>1, <2>2, <2>3
      <3> QED BY <1>0, <2>3, <3>1, ChainKept
    <2> QED BY <1>0, <2>3, <2>4 DEF LeadersRun
  <1>9. ASSUME NEW c \in cmds, AcquireAdopted(c) PROVE LeadersRun' /\ \A j \in Instances : Chain(j)'
    <2>1. /\ c.kind = "acquire" /\ c.stage = "granted" /\ c.gen = lockGen[c.owner] /\ running[c.owner]
          /\ cmds' = cmds \ {c} /\ UNCHANGED <<running, retryTimers, lockGen>>
      BY <1>9 DEF AcquireAdopted
    <2>2. isLeader'[c.owner] /\ \A j \in Instances \ {c.owner} : isLeader'[j] = isLeader[j]
      <3>1. isLeader' = [isLeader EXCEPT ![c.owner] = TRUE] /\ c.owner \in Instances
        BY <1>9, <1>a DEF AcquireAdopted
      <3>2. isLeader'[c.owner]
        BY <1>c, <3>1
      <3>3. \A j \in Instances \ {c.owner} : isLeader'[j] = isLeader[j]
        BY <1>c, <3>1, Zenon
      <3> QED BY <3>2, <3>3
    <2>3. retryTimers[c.owner] = 0 /\ LiveAcquires(c.owner) = {c}
      BY <2>1, LiveIsOnly
    <2>4. LiveAcquires(c.owner)' = {}
      BY <1>a, <2>1, <2>3, LivePrime DEF LiveAcquires
    <2>5. Chain(c.owner)'
      BY <2>1, <2>2, <2>3, <2>4 DEF Chain
    <2>6. ASSUME NEW j \in Instances \ {c.owner} PROVE Chain(j)'
      BY <1>0, <2>1, <2>2, ChainKept
    <2> QED BY <1>0, <1>a, <2>1, <2>2, <2>5, <2>6 DEF LeadersRun
  <1>10. ASSUME NEW c \in cmds, AcquireMissed(c) PROVE LeadersRun' /\ \A j \in Instances : Chain(j)'
    <2>1. /\ c.kind = "acquire" /\ c.stage # "ghost" /\ cmds' = cmds \ {c}
          /\ UNCHANGED <<running, isLeader, lockGen>>
      BY <1>10 DEF AcquireMissed
    <2>2. \A j \in Instances \ {c.owner} : retryTimers'[j] = retryTimers[j]
      BY <1>10, <1>c DEF AcquireMissed
    <2>3. ASSUME NEW j \in Instances \ {c.owner} PROVE Chain(j)'
      BY <1>0, <2>1, <2>2, ChainKept
    <2>4. CASE c.gen = lockGen[c.owner]
      <3>1. /\ running[c.owner] /\ ~isLeader[c.owner] /\ retryTimers[c.owner] = 0
            /\ LiveAcquires(c.owner) = {c}
        BY <2>1, <2>4, LiveIsOnly
      <3>2. LiveAcquires(c.owner)' = {}
        BY <1>a, <2>1, <3>1, LivePrime DEF LiveAcquires
      <3>3. retryTimers'[c.owner] = 1
        BY <1>10, <1>a, <1>c, <2>4, <3>1 DEF AcquireMissed
      <3>4. Chain(c.owner)'
        BY <2>1, <3>1, <3>2, <3>3 DEF Chain
      <3> QED BY <1>0, <2>1, <2>3, <3>4 DEF LeadersRun
    <2>5. CASE c.gen # lockGen[c.owner]
      <3>1. retryTimers'[c.owner] = retryTimers[c.owner]
        BY <1>10, <1>a, <1>c, <2>5 DEF AcquireMissed
      <3>2. Chain(c.owner)'
        BY <1>0, <1>a, <2>1, <2>5, <3>1, ChainKept
      <3> QED BY <1>0, <2>1, <2>3, <3>2 DEF LeadersRun
    <2> QED BY <2>4, <2>5
  <1>11. ASSUME NEW c \in cmds, RenewReply(c) PROVE LeadersRun' /\ \A j \in Instances : Chain(j)'
    <2>0. cmds' = cmds \ {c} /\ c.kind = "renew" /\ UNCHANGED running
      BY <1>11 DEF RenewReply
    <2>1. CASE c.stage # "granted" /\ lockGen[c.owner] = c.gen /\ isLeader[c.owner]
      <3>1. handleLostLeadership(c.owner)
        BY <1>11, <2>1 DEF RenewReply
      <3>2. running[c.owner]
        BY <1>0, <1>a, <2>1 DEF LeadersRun
      <3>3. ~isLeader'[c.owner]
        BY <1>a, <1>c, <3>1 DEF handleLostLeadership
      <3> QED BY <1>a, <1>t, <2>0, <2>1, <3>1, <3>2, <3>3 DEF handleLostLeadership
    <2>2. CASE ~(c.stage # "granted" /\ lockGen[c.owner] = c.gen /\ isLeader[c.owner])
      <3>1. UNCHANGED <<isLeader, retryTimers, lockGen>>
        BY <1>11, <2>2 DEF RenewReply
      <3> QED BY <1>s, <2>0, <3>1
    <2> QED BY <2>1, <2>2
  <1>12. ASSUME NEW c \in cmds, RedisExecutes(c) PROVE LeadersRun' /\ \A j \in Instances : Chain(j)'
    <2> DEFINE new == Cmd(c.kind, c.owner, c.gen, Result(c))
    <2>0. UNCHANGED <<running, isLeader, retryTimers, lockGen>> /\ c.stage = "sent"
      BY <1>12 DEF RedisExecutes
    <2>1. CASE c.kind = "release"
      <3>1. cmds' = cmds \ {c}
        BY <1>12, <2>1 DEF RedisExecutes
      <3> QED BY <1>s, <2>0, <2>1, <3>1
    <2>2. CASE c.kind # "release"
      <3>1. Result(c) \in Stages /\ Result(c) # "ghost"
        BY <1>0, ScriptType DEF Stages
      <3>2. /\ new \in Commands /\ new.kind = c.kind /\ new.owner = c.owner
            /\ new.gen = c.gen /\ new.stage # "ghost"
        BY <1>a, <3>1
      <3>3. cmds' = (cmds \ {c}) \cup {new}
        BY <1>12, <2>2 DEF RedisExecutes
      <3> HIDE DEF new
      <3>4. \A j \in Instances : Chain(j)'
        BY <2>0, <3>2, <3>3, ChainReplaced
      <3> QED BY <1>0, <2>0, <3>4 DEF LeadersRun
    <2> QED BY <2>1, <2>2
  <1>13. ASSUME NEW c \in cmds, CallRejects(c) PROVE LeadersRun' /\ \A j \in Instances : Chain(j)'
    <2> DEFINE new == Cmd(c.kind, c.owner, c.gen, "failed")
    <2> DEFINE old == Cmd(c.kind, c.owner, c.gen, "ghost")
    <2>0. UNCHANGED <<running, isLeader, retryTimers, lockGen>> /\ c.stage # "ghost"
      BY <1>13 DEF CallRejects
    <2>1. /\ new \in Commands /\ new.kind = c.kind /\ new.owner = c.owner
          /\ new.gen = c.gen /\ new.stage = "failed" /\ old.stage = "ghost"
      BY <1>a
    <2>2. CASE c.kind = "release"
      <3>1. \A e : e # old => (e \in cmds' <=> e \in cmds /\ e # c)
        BY <1>13, <2>2 DEF CallRejects
      <3> HIDE DEF new, old
      <3> QED BY <1>s, <2>0, <2>1, <2>2, <3>1
    <2>3. CASE c.kind # "release"
      <3>1. \A e : e # old => (e \in cmds' <=> e = new \/ (e \in cmds /\ e # c))
        BY <1>13, <2>3 DEF CallRejects
      <3> HIDE DEF new, old
      <3>2. \A e : e.kind = "acquire" /\ e.stage # "ghost" =>
                     (e \in cmds' <=> e = new \/ (e \in cmds /\ e # c))
        BY <2>1, <3>1
      <3>3. \A j \in Instances : Chain(j)'
        BY <2>0, <2>1, <3>2, ChainReplaced
      <3> QED BY <1>0, <2>0, <3>3 DEF LeadersRun
    <2> QED BY <2>2, <2>3
  <1>r. ASSUME NEW c \in cmds, Resent(c) PROVE LeadersRun' /\ \A j \in Instances : Chain(j)'
    <2> DEFINE new == Cmd(c.kind, c.owner, c.gen, "sent")
    <2>0. /\ UNCHANGED <<running, isLeader, retryTimers, lockGen>> /\ c.stage # "ghost"
          /\ cmds' = (cmds \ {c}) \cup {new}
      BY <1>r DEF Resent
    <2>1. /\ new \in Commands /\ new.kind = c.kind /\ new.owner = c.owner
          /\ new.gen = c.gen /\ new.stage # "ghost"
      BY <1>a
    <2> HIDE DEF new
    <2>2. \A j \in Instances : Chain(j)'
      BY <2>0, <2>1, ChainReplaced
    <2> QED BY <1>0, <2>0, <2>2 DEF LeadersRun
  <1>14. ASSUME NEW c \in cmds, GhostExecutes(c) PROVE LeadersRun' /\ \A j \in Instances : Chain(j)'
    BY <1>14, <1>s DEF GhostExecutes
  <1>15. ASSUME NEW c \in cmds, GhostVanishes(c) PROVE LeadersRun' /\ \A j \in Instances : Chain(j)'
    BY <1>15, <1>s DEF GhostVanishes
  <1>16. CASE LeaseLapses
    BY <1>16, <1>s DEF LeaseLapses
  <1>17. CASE UNCHANGED vars
    BY <1>17, <1>s DEF vars
  <1> QED
    BY <1>1, <1>2, <1>3, <1>4, <1>5, <1>6, <1>7, <1>8, <1>9, <1>10, <1>11,
       <1>12, <1>13, <1>r, <1>14, <1>15, <1>16, <1>17
       DEF Next, Service, Handlers, Network

\* Before the first start() there is no election.
LEMMA ChainStarts == Init => ChainInv
  <1> SUFFICES ASSUME Init PROVE ChainInv
    OBVIOUS
  <1>1. LeaseInv
    BY DEF Init, LeaseInv, TypeOK, GensDrawn, StoppedElectionOver,
           ReleasesAreOld, GrantIsLive, LeaseNeverStolen
  <1>2. LeadersRun /\ \A i \in Instances : Chain(i)
    BY DEF Init, LeadersRun, Chain, LiveAcquires
  <1> QED BY <1>1, <1>2 DEF ChainInv

\* A running instance that does not lead has exactly one attempt under way, and
\* a leader or a stopped instance has none, however late the answers arrive.
THEOREM SingleElection == Spec => []OneElectionChain
  <1>1. Init => ChainInv
    BY ChainStarts
  <1>2. ChainInv => OneElectionChain
    BY DEF ChainInv, Chain, OneElectionChain
  <1> QED BY <1>1, <1>2, ChainStep, PTL DEF Spec
-----------------------------------------------------------------------------
(***************************************************************************)
(* Renewal intervals. An answered ACQUIRE is adopted only by an instance   *)
(* that is not leader yet, hence has no interval.                          *)
(***************************************************************************)
RenewalInv == ChainInv /\ RenewalFollowsLeadership

\* A step that gives up the lock identifier of i also clears its interval.
LEMMA IntervalCleared ==
  ASSUME TypeOK, RenewalFollowsLeadership, NEW i \in Instances,
         isLeader' = [isLeader EXCEPT ![i] = FALSE], FreshLockId(i),
         renewals' = [renewals EXCEPT ![i] = renewals[i] \ {lockGen[i]}]
  PROVE  RenewalFollowsLeadership'
  <1> SUFFICES ASSUME NEW j \in Instances
               PROVE  renewals'[j] = IF isLeader'[j] THEN {lockGen'[j]} ELSE {}
    BY DEF RenewalFollowsLeadership
  <1>1. CASE j = i
    BY <1>1 DEF TypeOK, RenewalFollowsLeadership, FreshLockId
  <1>2. CASE j # i
    BY <1>2 DEF TypeOK, RenewalFollowsLeadership, FreshLockId
  <1> QED BY <1>1, <1>2

\* The intervals follow leadership through every step.
LEMMA RenewalStep == RenewalInv /\ [Next]_vars => RenewalInv'
  <1> SUFFICES ASSUME RenewalInv, [Next]_vars PROVE RenewalFollowsLeadership'
    BY ChainStep DEF RenewalInv
  <1>0. TypeOK /\ ChainInv /\ RenewalFollowsLeadership
    BY DEF RenewalInv, ChainInv, LeaseInv
  <1>k. ASSUME UNCHANGED <<isLeader, lockGen, renewals>> PROVE RenewalFollowsLeadership'
    BY <1>0, <1>k DEF RenewalFollowsLeadership
  <1>1. ASSUME NEW i \in Instances, start(i) \/ RetryFires(i) PROVE RenewalFollowsLeadership'
    BY <1>1, <1>k DEF start, RetryFires
  <1>2. ASSUME NEW i \in Instances, stop(i) PROVE RenewalFollowsLeadership'
    <2>1. renewals' = [renewals EXCEPT ![i] = renewals[i] \ {lockGen[i]}]
      BY <1>2 DEF stop
    <2> QED BY <1>0, <1>2, <2>1, IntervalCleared DEF stop
  <1>3. ASSUME NEW i \in Instances, NEW g, RenewTick(i, g) \/ CallbackResolves(i, g)
        PROVE  RenewalFollowsLeadership'
    BY <1>3, <1>k DEF RenewTick, CallbackResolves
  <1>l. ASSUME NEW i \in Instances, handleLostLeadership(i) PROVE RenewalFollowsLeadership'
    <2>1. renewals' = [renewals EXCEPT ![i] = renewals[i] \ {lockGen[i]}]
      BY <1>l DEF handleLostLeadership
    <2> QED BY <1>0, <1>l, <2>1, IntervalCleared DEF handleLostLeadership
  <1>4. ASSUME NEW i \in Instances, NEW g, CallbackRejects(i, g) PROVE RenewalFollowsLeadership'
    <2>1. handleLostLeadership(i) \/ UNCHANGED <<isLeader, lockGen, renewals>>
      BY <1>4 DEF CallbackRejects
    <2> QED BY <1>k, <1>l, <2>1
  <1>5. ASSUME NEW i \in Instances, Crash(i) PROVE RenewalFollowsLeadership'
    <2>1. /\ isLeader' = [isLeader EXCEPT ![i] = FALSE] /\ renewals' = [renewals EXCEPT ![i] = {}]
          /\ lockGen' = [lockGen EXCEPT ![i] = @ + 1]
      BY <1>5 DEF Crash, FreshLockId
    <2> SUFFICES ASSUME NEW j \in Instances
                 PROVE  renewals'[j] = IF isLeader'[j] THEN {lockGen'[j]} ELSE {}
      BY DEF RenewalFollowsLeadership
    <2>2. CASE j = i
      BY <1>0, <2>1, <2>2 DEF TypeOK
    <2>3. CASE j # i
      BY <1>0, <2>1, <2>3 DEF TypeOK, RenewalFollowsLeadership
    <2> QED BY <2>2, <2>3
  <1>6. ASSUME NEW c \in cmds, AcquireStale(c) \/ AcquireMissed(c) PROVE RenewalFollowsLeadership'
    BY <1>6, <1>k DEF AcquireStale, AcquireMissed
  <1>7. ASSUME NEW c \in cmds, AcquireAdopted(c) PROVE RenewalFollowsLeadership'
    <2> DEFINE i == c.owner
    <2>1. /\ i \in Instances /\ lockGen[i] = c.gen /\ lockGen' = lockGen
          /\ isLeader' = [isLeader EXCEPT ![i] = TRUE]
          /\ renewals' = [renewals EXCEPT ![i] = @ \cup {c.gen}]
      BY <1>0, <1>7 DEF AcquireAdopted, TypeOK, Commands
    <2>2. ~isLeader[i]
      BY <1>0, <1>7, LiveIsOnly DEF AcquireAdopted
    <2> HIDE DEF i
    <2>3. renewals[i] = {}
      BY <1>0, <2>1, <2>2 DEF RenewalFollowsLeadership
    <2> SUFFICES ASSUME NEW j \in Instances
                 PROVE  renewals'[j] = IF isLeader'[j] THEN {lockGen'[j]} ELSE {}
      BY DEF RenewalFollowsLeadership
    <2>4. CASE j = i
      BY <1>0, <2>1, <2>3, <2>4 DEF TypeOK
    <2>5. CASE j # i
      BY <1>0, <2>1, <2>5 DEF TypeOK, RenewalFollowsLeadership
    <2> QED BY <2>4, <2>5
  <1>8. ASSUME NEW c \in cmds, RenewReply(c) PROVE RenewalFollowsLeadership'
    <2>1. c.owner \in Instances
      BY <1>0 DEF TypeOK, Commands
    <2>2. handleLostLeadership(c.owner) \/ UNCHANGED <<isLeader, lockGen, renewals>>
      BY <1>8 DEF RenewReply
    <2> QED BY <1>k, <1>l, <2>1, <2>2
  <1>9. ASSUME NEW c \in cmds, Network(c) PROVE RenewalFollowsLeadership'
    <2>1. UNCHANGED <<isLeader, lockGen, renewals>>
      BY <1>9 DEF Network, RedisExecutes, CallRejects, Resent, GhostExecutes, GhostVanishes
    <2> QED BY <1>k, <2>1
  <1>10. CASE LeaseLapses
    BY <1>k, <1>10 DEF LeaseLapses
  <1>11. CASE UNCHANGED vars
    BY <1>k, <1>11 DEF vars
  <1> QED BY <1>1, <1>2, <1>3, <1>4, <1>5, <1>6, <1>7, <1>8, <1>9, <1>10, <1>11
             DEF Next, Service, Handlers

\* A leader has exactly one renewal interval, of its own acquisition, and
\* nobody else has any: stop(), lost leadership, a rejected becameLeader
\* callback and late answers leave no interval behind and start no second one.
THEOREM RenewalIsExact == Spec => []RenewalFollowsLeadership
  <1>1. Init => RenewalInv
    <2>1. Init => RenewalFollowsLeadership
      BY DEF Init, RenewalFollowsLeadership
    <2> QED BY <2>1, ChainStarts DEF RenewalInv
  <1>2. RenewalInv => RenewalFollowsLeadership
    BY DEF RenewalInv
  <1> QED BY <1>1, <1>2, RenewalStep, PTL DEF Spec
=============================================================================
