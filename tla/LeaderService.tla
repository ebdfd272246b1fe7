--------------------------- MODULE LeaderService ---------------------------
(***************************************************************************)
(* Redis lease election, src/src/services/leader.ts.                       *)
(*                                                                         *)
(* Every instance is one LeaderService object of one process competing for *)
(* the same Redis key. A lock identifier (a fresh randomUUID in the code)  *)
(* is the pair <<instance, generation>>, and `lockGen[i]` is the           *)
(* generation this.lockId currently holds. Redis runs each Lua script      *)
(* atomically; the call that carries it is asynchronous, so a command is a *)
(* record that is sent, executed, and answered in three separate steps.    *)
(*                                                                         *)
(* Time is abstracted: a lease may lapse at any moment, because a process  *)
(* pause or a slow Redis can outlast any TTL.                              *)
(***************************************************************************)
EXTENDS Naturals, FiniteSets, TLC

CONSTANTS
  Instances,             \* the competing LeaderService objects
  NoLock,                \* the Redis key does not exist
  RetryOnCallbackError,  \* options.retryOnCallbackError
  MaxGen,                \* bound: lock identifiers an instance may draw
  MaxErrors              \* bound: Redis calls that may reject or be resent

Locks == Instances \X Nat

ASSUME LeaderAssumption ==
  /\ NoLock \notin Locks
  /\ RetryOnCallbackError \in BOOLEAN
  /\ MaxGen \in Nat
  /\ MaxErrors \in Nat

VARIABLES
  key,          \* Redis: owner of the lease key, or NoLock
  running,      \* this.running
  isLeader,     \* this._isLeader
  lockGen,      \* generation of this.lockId
  retryTimers,  \* number of armed retry timeouts
  renewals,     \* generations with a live renewal interval
  callbacks,    \* generations whose becameLeader callback is pending
  cmds,         \* Redis commands in flight
  errors,       \* rejected or resent calls so far
  lapsed        \* history: locks whose lease ran out in Redis

vars == <<key, running, isLeader, lockGen, retryTimers, renewals, callbacks,
          cmds, errors, lapsed>>

Kinds == {"acquire", "renew", "release"}

(***************************************************************************)
(* "sent" has not reached Redis; "granted" and "denied" executed with      *)
(* result 1 and 0; "failed" rejected; "ghost" rejected at the client while *)
(* its bytes may still be executed by Redis.                               *)
(***************************************************************************)
Stages == {"sent", "granted", "denied", "failed", "ghost"}

Commands == [kind : Kinds, owner : Instances, gen : Nat, stage : Stages]

Cmd(k, i, g, s) == [kind |-> k, owner |-> i, gen |-> g, stage |-> s]

Lock(c) == <<c.owner, c.gen>>

\* The lock an instance currently competes with: this.lockId.
lockId(i) == <<i, lockGen[i]>>

TypeOK ==
  /\ key \in Locks \cup {NoLock}
  /\ running \in [Instances -> BOOLEAN]
  /\ isLeader \in [Instances -> BOOLEAN]
  /\ lockGen \in [Instances -> Nat]
  /\ retryTimers \in [Instances -> Nat]
  /\ renewals \in [Instances -> SUBSET Nat]
  /\ callbacks \in [Instances -> SUBSET Nat]
  /\ cmds \in SUBSET Commands
  /\ errors \in Nat
  /\ lapsed \in SUBSET Locks

Init ==
  /\ key = NoLock
  /\ running = [i \in Instances |-> FALSE]
  /\ isLeader = [i \in Instances |-> FALSE]
  /\ lockGen = [i \in Instances |-> 0]
  /\ retryTimers = [i \in Instances |-> 0]
  /\ renewals = [i \in Instances |-> {}]
  /\ callbacks = [i \in Instances |-> {}]
  /\ cmds = {}
  /\ errors = 0
  /\ lapsed = {}

-----------------------------------------------------------------------------
(***************************************************************************)
(* Pieces shared by the handlers.                                          *)
(***************************************************************************)

\* tryAcquire() up to its first await: the ACQUIRE command goes out.
tryAcquire(i) == Cmd("acquire", i, lockGen[i], "sent")

CanDrawLockId(i) == lockGen[i] < MaxGen

\* this.lockId = randomUUID()
FreshLockId(i) == lockGen' = [lockGen EXCEPT ![i] = @ + 1]

\* Mutant: the retry timer is not armed.
handleLostLeadershipNoRetry(i) ==
  /\ isLeader' = [isLeader EXCEPT ![i] = FALSE]
  /\ renewals' = [renewals EXCEPT ![i] = @ \ {lockGen[i]}]
  /\ FreshLockId(i)
  /\ retryTimers' = retryTimers

\* handleLostLeadership(): step down, stop renewing, draw a fresh lock
\* identifier and, while running, arm the retry timer.
handleLostLeadership(i) ==
  /\ isLeader' = [isLeader EXCEPT ![i] = FALSE]
  /\ renewals' = [renewals EXCEPT ![i] = @ \ {lockGen[i]}]
  /\ FreshLockId(i)
  /\ retryTimers' = [retryTimers EXCEPT ![i] = IF running[i] THEN @ + 1 ELSE @]

-----------------------------------------------------------------------------
(***************************************************************************)
(* Operations of the service.                                              *)
(***************************************************************************)

start(i) ==
  /\ ~running[i]
  /\ running' = [running EXCEPT ![i] = TRUE]
  /\ cmds' = cmds \cup {tryAcquire(i)}
  /\ UNCHANGED <<key, isLeader, lockGen, retryTimers, renewals, callbacks,
                 errors, lapsed>>

\* Mutant: stop() counts a retry timer as cleared that was never armed.
stopUnguarded(i) ==
  /\ CanDrawLockId(i)
  /\ running' = [running EXCEPT ![i] = FALSE]
  /\ isLeader' = [isLeader EXCEPT ![i] = FALSE]
  /\ FreshLockId(i)
  /\ renewals' = [renewals EXCEPT ![i] = @ \ {lockGen[i]}]
  /\ retryTimers' = [retryTimers EXCEPT ![i] = @ - 1]
  /\ cmds' = IF isLeader[i]
             THEN cmds \cup {Cmd("release", i, lockGen[i], "sent")}
             ELSE cmds
  /\ UNCHANGED <<key, callbacks, errors, lapsed>>

\* stop() clears both timers, abandons its lock identifier and releases the
\* lease it held. The result of RELEASE is ignored.
stop(i) ==
  /\ CanDrawLockId(i)
  /\ running' = [running EXCEPT ![i] = FALSE]
  /\ isLeader' = [isLeader EXCEPT ![i] = FALSE]
  /\ FreshLockId(i)
  /\ renewals' = [renewals EXCEPT ![i] = @ \ {lockGen[i]}]
  /\ retryTimers' = [retryTimers EXCEPT ![i] = IF @ > 0 THEN @ - 1 ELSE @]
  /\ cmds' = IF isLeader[i]
             THEN cmds \cup {Cmd("release", i, lockGen[i], "sent")}
             ELSE cmds
  /\ UNCHANGED <<key, callbacks, errors, lapsed>>

\* The retry timeout fires and calls tryAcquire(), which returns at once when
\* the service no longer runs.
RetryFires(i) ==
  /\ retryTimers[i] > 0
  /\ retryTimers' = [retryTimers EXCEPT ![i] = @ - 1]
  /\ cmds' = IF running[i] THEN cmds \cup {tryAcquire(i)} ELSE cmds
  /\ UNCHANGED <<key, running, isLeader, lockGen, renewals, callbacks, errors,
                 lapsed>>

\* ACQUIRE returned 1 to an election that was stopped or restarted meanwhile:
\* the acquisition is not adopted, it is released.
AcquireStale(c) ==
  /\ c.kind = "acquire" /\ c.stage = "granted"
  /\ ~running[c.owner] \/ lockGen[c.owner] # c.gen
  /\ cmds' = (cmds \ {c}) \cup {Cmd("release", c.owner, c.gen, "sent")}
  /\ UNCHANGED <<key, running, isLeader, lockGen, retryTimers, renewals,
                 callbacks, errors, lapsed>>

\* ACQUIRE returned 1: become leader, start the renewal interval and invoke
\* the becameLeader callback.
AcquireAdopted(c) ==
  /\ c.kind = "acquire" /\ c.stage = "granted"
  /\ running[c.owner] /\ lockGen[c.owner] = c.gen
  /\ isLeader' = [isLeader EXCEPT ![c.owner] = TRUE]
  /\ renewals' = [renewals EXCEPT ![c.owner] = @ \cup {c.gen}]
  /\ callbacks' = [callbacks EXCEPT ![c.owner] = @ \cup {c.gen}]
  /\ cmds' = cmds \ {c}
  /\ UNCHANGED <<key, running, lockGen, retryTimers, errors, lapsed>>

\* Mutant: a late answer retries whichever election is current.
AcquireMissedAnyElection(c) ==
  /\ c.kind = "acquire" /\ c.stage \in {"denied", "failed"}
  /\ cmds' = cmds \ {c}
  /\ retryTimers' =
       [retryTimers EXCEPT ![c.owner] = IF running[c.owner] THEN @ + 1 ELSE @]
  /\ UNCHANGED <<key, running, isLeader, lockGen, renewals, callbacks, errors,
                 lapsed>>

\* ACQUIRE returned 0 or rejected: try again later, unless the election this
\* call belonged to is over.
AcquireMissed(c) ==
  /\ c.kind = "acquire" /\ c.stage \in {"denied", "failed"}
  /\ cmds' = cmds \ {c}
  /\ retryTimers' =
       [retryTimers EXCEPT ![c.owner] =
          IF running[c.owner] /\ lockGen[c.owner] = c.gen THEN @ + 1 ELSE @]
  /\ UNCHANGED <<key, running, isLeader, lockGen, renewals, callbacks, errors,
                 lapsed>>

\* The renewal interval of generation g fires.
RenewTick(i, g) ==
  /\ g \in renewals[i]
  /\ running[i] /\ isLeader[i] /\ lockGen[i] = g
  /\ cmds' = cmds \cup {Cmd("renew", i, g, "sent")}
  /\ UNCHANGED <<key, running, isLeader, lockGen, retryTimers, renewals,
                 callbacks, errors, lapsed>>

\* RENEW answered. A 0 or a rejection for the current lock identifier means
\* leadership is lost; handleLostLeadership() returns early for a non-leader.
RenewReply(c) ==
  /\ c.kind = "renew" /\ c.stage \in {"granted", "denied", "failed"}
  /\ cmds' = cmds \ {c}
  /\ IF c.stage # "granted" /\ lockGen[c.owner] = c.gen /\ isLeader[c.owner]
       THEN /\ CanDrawLockId(c.owner)
            /\ handleLostLeadership(c.owner)
       ELSE UNCHANGED <<isLeader, renewals, lockGen, retryTimers>>
  /\ UNCHANGED <<key, running, callbacks, errors, lapsed>>

CallbackResolves(i, g) ==
  /\ g \in callbacks[i]
  /\ callbacks' = [callbacks EXCEPT ![i] = @ \ {g}]
  /\ UNCHANGED <<key, running, isLeader, lockGen, retryTimers, renewals, cmds,
                 errors, lapsed>>

\* The becameLeader callback rejects. With retryOnCallbackError the instance
\* steps down and releases, but only for the acquisition the callback is of.
CallbackRejects(i, g) ==
  /\ g \in callbacks[i]
  /\ callbacks' = [callbacks EXCEPT ![i] = @ \ {g}]
  /\ IF RetryOnCallbackError /\ isLeader[i] /\ lockGen[i] = g
       THEN /\ CanDrawLockId(i)
            /\ handleLostLeadership(i)
            /\ cmds' = cmds \cup {Cmd("release", i, g, "sent")}
       ELSE UNCHANGED <<isLeader, renewals, lockGen, retryTimers, cmds>>
  /\ UNCHANGED <<key, running, errors, lapsed>>

-----------------------------------------------------------------------------
(***************************************************************************)
(* Redis and the environment.                                              *)
(***************************************************************************)

\* Result of a script: 1 ("granted") or 0 ("denied").
Result(c) ==
  CASE c.kind = "acquire" -> IF key = NoLock THEN "granted" ELSE "denied"
    [] OTHER -> IF key = Lock(c) THEN "granted" ELSE "denied"

\* Mutant: RELEASE deletes the key without comparing its owner.
KeyAfterBlindRelease(c) ==
  CASE c.kind = "acquire" -> IF key = NoLock THEN Lock(c) ELSE key
    [] c.kind = "renew" -> key
    [] c.kind = "release" -> NoLock

\* ACQUIRE_SCRIPT, RENEW_SCRIPT and RELEASE_SCRIPT on the lease key.
KeyAfter(c) ==
  CASE c.kind = "acquire" -> IF key = NoLock THEN Lock(c) ELSE key
    [] c.kind = "renew" -> key
    [] c.kind = "release" -> IF key = Lock(c) THEN NoLock ELSE key

\* Redis executes a command and the answer travels back. Nobody looks at the
\* answer of a RELEASE.
RedisExecutes(c) ==
  /\ c.stage = "sent"
  /\ key' = KeyAfter(c)
  /\ cmds' = (cmds \ {c}) \cup
               IF c.kind = "release"
               THEN {} ELSE {Cmd(c.kind, c.owner, c.gen, Result(c))}
  /\ UNCHANGED <<running, isLeader, lockGen, retryTimers, renewals, callbacks,
                 errors, lapsed>>

\* A call rejects at the client: its request was lost, or it executed and the
\* answer was lost, or it is still on its way to Redis. A rejected renewal of
\* the last lock identifier is cut off by the bound.
CallRejects(c) ==
  /\ errors < MaxErrors
  /\ c.stage \in {"sent", "granted", "denied"}
  /\ c.kind = "renew" => c.gen < MaxGen
  /\ errors' = errors + 1
  /\ cmds' = (cmds \ {c}) \cup
               (IF c.kind = "release"
                THEN {} ELSE {Cmd(c.kind, c.owner, c.gen, "failed")}) \cup
               (IF c.stage = "sent"
                THEN {Cmd(c.kind, c.owner, c.gen, "ghost")} ELSE {})
  /\ UNCHANGED <<key, running, isLeader, lockGen, retryTimers, renewals,
                 callbacks, lapsed>>

\* The connection drops before an answer arrives and the client, once it has
\* reconnected, sends the unfulfilled command again.
Resent(c) ==
  /\ errors < MaxErrors
  /\ c.stage \in {"granted", "denied"}
  /\ c.kind = "renew" => c.gen < MaxGen
  /\ errors' = errors + 1
  /\ cmds' = (cmds \ {c}) \cup {Cmd(c.kind, c.owner, c.gen, "sent")}
  /\ UNCHANGED <<key, running, isLeader, lockGen, retryTimers, renewals,
                 callbacks, lapsed>>

\* A rejected request reaches Redis late, once or, after several rejections
\* with the same lock identifier, repeatedly.
GhostExecutes(c) ==
  /\ c.stage = "ghost"
  /\ key' = KeyAfter(c)
  /\ UNCHANGED <<running, isLeader, lockGen, retryTimers, renewals, callbacks,
                 cmds, errors, lapsed>>

GhostVanishes(c) ==
  /\ c.stage = "ghost"
  /\ cmds' = cmds \ {c}
  /\ UNCHANGED <<key, running, isLeader, lockGen, retryTimers, renewals,
                 callbacks, errors, lapsed>>

\* An instance holds, or is about to adopt, the lease Redis has granted it.
HeldByService(l) ==
  \/ \E i \in Instances : isLeader[i] /\ lockId(i) = l
  \/ \E c \in cmds : c.kind = "acquire" /\ c.stage = "granted" /\ Lock(c) = l

\* The TTL of the lease runs out. The lease of the last lock identifier the
\* bound allows only lapses once nobody holds it.
LeaseLapses ==
  /\ key # NoLock
  /\ key[2] < MaxGen \/ ~HeldByService(key)
  /\ lapsed' = lapsed \cup {key}
  /\ key' = NoLock
  /\ UNCHANGED <<running, isLeader, lockGen, retryTimers, renewals, callbacks,
                 cmds, errors>>

\* The process dies: its timers and pending promises are gone, requests it
\* has sent may still execute.
Crash(i) ==
  /\ CanDrawLockId(i)
  /\ running' = [running EXCEPT ![i] = FALSE]
  /\ isLeader' = [isLeader EXCEPT ![i] = FALSE]
  /\ FreshLockId(i)
  /\ retryTimers' = [retryTimers EXCEPT ![i] = 0]
  /\ renewals' = [renewals EXCEPT ![i] = {}]
  /\ callbacks' = [callbacks EXCEPT ![i] = {}]
  /\ cmds' = {c \in cmds : c.owner # i \/ c.stage = "ghost"} \cup
             {Cmd(c.kind, i, c.gen, "ghost") :
                c \in {d \in cmds : d.owner = i /\ d.stage = "sent"}}
  /\ UNCHANGED <<key, errors, lapsed>>

-----------------------------------------------------------------------------
Service(i) ==
  \/ start(i)
  \/ stop(i)
  \/ RetryFires(i)
  \/ \E g \in 0..MaxGen : RenewTick(i, g)
  \/ \E g \in 0..MaxGen : CallbackResolves(i, g)
  \/ \E g \in 0..MaxGen : CallbackRejects(i, g)
  \/ Crash(i)

Handlers(c) ==
  \/ AcquireStale(c)
  \/ AcquireAdopted(c)
  \/ AcquireMissed(c)
  \/ RenewReply(c)

Network(c) ==
  \/ RedisExecutes(c)
  \/ CallRejects(c)
  \/ Resent(c)
  \/ GhostExecutes(c)
  \/ GhostVanishes(c)

Next ==
  \/ \E i \in Instances : Service(i)
  \/ \E c \in cmds : Handlers(c) \/ Network(c)
  \/ LeaseLapses

Spec == Init /\ [][Next]_vars

(***************************************************************************)
(* Fairness. Redis answers every command, Node fires every armed timer and *)
(* runs every settled promise's continuation, no request stays on the wire *)
(* for ever, and Redis expires a lease nobody renews.                      *)
(* Starting, stopping, crashing and failing are not fair.                  *)
(***************************************************************************)
AbandonedLeaseLapses == key # NoLock /\ ~HeldByService(key) /\ LeaseLapses

RenewTicks(i) == \E g \in 0..MaxGen : RenewTick(i, g)
StaleAcquires(i) == \E c \in cmds : c.owner = i /\ AcquireStale(c)
AcquiresAnswered(i) == \E c \in cmds : c.owner = i /\ (AcquireAdopted(c) \/ AcquireMissed(c))
RenewalsAnswered(i) == \E c \in cmds : c.owner = i /\ c.stage # "granted" /\ RenewReply(c)
Executes(i, k) == \E c \in cmds : c.owner = i /\ c.kind = k /\ RedisExecutes(c)
GhostsVanish == \E c \in cmds : GhostVanishes(c)

Fairness ==
  /\ \A i \in Instances :
       /\ WF_vars(RetryFires(i)) /\ WF_vars(RenewTicks(i))
       /\ WF_vars(StaleAcquires(i)) /\ WF_vars(AcquiresAnswered(i)) /\ WF_vars(RenewalsAnswered(i))
       /\ WF_vars(Executes(i, "acquire")) /\ WF_vars(Executes(i, "renew"))
  /\ WF_vars(GhostsVanish)
  /\ WF_vars(AbandonedLeaseLapses)

FairSpec == Spec /\ Fairness

-----------------------------------------------------------------------------
(***************************************************************************)
(* Properties.                                                             *)
(***************************************************************************)

\* ACQUIRE calls of the current election whose continuation is outstanding.
LiveAcquires(i) ==
  {c \in cmds : c.kind = "acquire" /\ c.owner = i /\ c.gen = lockGen[i]
                                   /\ c.stage # "ghost"}

\* A running instance that is not leader has exactly one pending attempt to
\* become leader: one armed retry timer or one outstanding ACQUIRE. A leader
\* or a stopped instance has none. Restarting, losing a lease and late answers
\* neither strand an election nor start a second one beside it.
OneElectionChain ==
  \A i \in Instances :
    IF running[i] /\ ~isLeader[i]
    THEN \/ retryTimers[i] = 1 /\ LiveAcquires(i) = {}
         \/ retryTimers[i] = 0 /\ \E c \in cmds : LiveAcquires(i) = {c}
    ELSE retryTimers[i] = 0 /\ LiveAcquires(i) = {}

\* The renewal interval runs exactly while its own acquisition is leader: no
\* interval is leaked by stop(), lost leadership or a late ACQUIRE answer.
RenewalFollowsLeadership ==
  \A i \in Instances :
    renewals[i] = IF isLeader[i] THEN {lockGen[i]} ELSE {}

\* A leader's lease ends only by running out: no command of this or another
\* instance, however late it executes, deletes or takes over a live lease.
LeaseNeverStolen ==
  \A i \in Instances :
    isLeader[i] => key = lockId(i) \/ lockId(i) \in lapsed

\* Two instances report leadership together only if the lease of at least one
\* of them ran out in Redis before its renewal could notice.
OneUnlapsedLeader ==
  \A i, j \in Instances :
    /\ isLeader[i] /\ lockId(i) \notin lapsed
    /\ isLeader[j] /\ lockId(j) \notin lapsed
    => i = j

Led == (\E i \in Instances : running[i]) => \E i \in Instances : isLeader[i]
Notices(i) == isLeader[i] => key = lockId(i)

\* Crashed or stopped leaders do not block the group: while some instance
\* stays in the election, leadership is held again and again.
Failover == []<>Led

\* An instance whose lease is gone stops reporting leadership, because its
\* next renewal is denied (unless a late ACQUIRE of its own restores it).
LossDetected == \A i \in Instances : []<>Notices(i)

\* The instances are interchangeable: TLC checks the safety properties up to their
\* permutations.
Symmetry == Permutations(Instances)
=============================================================================
