--------------------------- MODULE MeshMembership ---------------------------
(***************************************************************************)
(* Mesh membership as a lease, src/src/services/mesh.ts.                   *)
(*                                                                         *)
(* Every node is one MeshService object of one process. It draws an        *)
(* instance id, registers a heartbeat (a sorted-set member scored with     *)
(* Redis time) and metadata, renews the heartbeat, and fences itself once  *)
(* the last lease it can prove may have expired. The cleanup leader moves  *)
(* expired ids to the list of cleanup obligations (module MeshCleanup      *)
(* models how that list is drained).                                       *)
(*                                                                         *)
(* `now` is both Redis time and performance.now(): the code only compares  *)
(* differences of the local clock with TTLs counted by Redis, so what is   *)
(* assumed is that both advance at the same rate.                          *)
(***************************************************************************)
EXTENDS Naturals, Sequences, FiniteSets

CONSTANTS
  Nodes,      \* MeshService objects
  TTL,        \* nodeTtlMs
  Disciplined, \* callers start() only a service they have not already started
  None,       \* no timer, no heartbeat in flight
  MaxTime,    \* bound: the clock
  MaxId,      \* bound: instance ids drawn
  MaxGen,     \* bound: lifecycle generations of a node
  MaxQueue,   \* bound: lifecycle calls waiting
  MaxFaults   \* bound: rejected calls, resent calls and crashes

ASSUME MeshAssumption ==
  /\ TTL \in Nat \ {0}
  /\ None \notin Nat
  /\ Disciplined \in BOOLEAN
  /\ MaxTime \in Nat /\ MaxId \in Nat /\ MaxGen \in Nat
  /\ MaxQueue \in Nat /\ MaxFaults \in Nat

Ids == 1..MaxId

VARIABLES
  now,          \* the clock
  nextId,       \* Redis: instance id counter
  members,      \* Redis: ids in the heartbeats sorted set
  score,        \* Redis: heartbeat scores (meaningful for members)
  nodes,        \* Redis: ids in the metadata hash
  obligations,  \* Redis: ids CLEANUP has pushed on the cleanup list
  cmds,         \* Redis commands in flight
  running,      \* this.running
  leaseLost,    \* this.leaseLost
  generation,   \* this.generation
  instanceId,   \* this._instanceId, 0 when there is none
  leaseSafeUntil,
  safetyTimer,  \* generation of the armed safety timer, or None
  heartbeatGeneration,
  op,           \* where the running lifecycle operation waits
  lifecycle,    \* lifecycle operations queued behind it
  faults        \* rejected calls, resent calls and crashes so far

redisVars == <<nextId, members, score, nodes, obligations>>
leaseVars == <<running, leaseLost, leaseSafeUntil, safetyTimer>>
idVars    == <<generation, instanceId>>
lifeVars  == <<op, lifecycle>>
vars == <<now, redisVars, cmds, leaseVars, idVars, heartbeatGeneration, lifeVars,
          faults>>

\* "register" is the UPDATE_METADATA of start(), "update" the one of
\* updateNodeMetadata().
Kinds == {"create", "register", "renew", "update", "deregister"}

\* As in LeaderService: sent, executed with result 1 or 0, rejected, and
\* rejected at the client while Redis may still execute the request.
Stages == {"sent", "granted", "denied", "failed", "ghost"}

\* `at` is heartbeatStartedAt, the local time just before HEARTBEAT was sent.
Commands == [kind : Kinds, node : Nodes, id : Ids, gen : Nat, at : Nat,
             stage : Stages]

Cmd(k, n, id, at) ==
  [kind |-> k, node |-> n, id |-> id, gen |-> generation[n], at |-> at,
   stage |-> "sent"]

\* The same command in another stage.
At(c, s) ==
  [kind |-> c.kind, node |-> c.node, id |-> c.id, gen |-> c.gen, at |-> c.at,
   stage |-> s]

Steps == {"idle", "incr", "subscribe", "create", "register", "leaving",
          "deregister"}

TypeOK ==
  /\ now \in Nat /\ nextId \in Nat /\ faults \in Nat
  /\ members \in SUBSET Ids /\ score \in [Ids -> Nat]
  /\ nodes \in SUBSET Ids /\ obligations \in SUBSET Ids
  /\ cmds \in SUBSET Commands
  /\ running \in [Nodes -> BOOLEAN] /\ leaseLost \in [Nodes -> BOOLEAN]
  /\ generation \in [Nodes -> Nat] /\ instanceId \in [Nodes -> Ids \cup {0}]
  /\ leaseSafeUntil \in [Nodes -> Nat]
  /\ safetyTimer \in [Nodes -> Nat \cup {None}]
  /\ heartbeatGeneration \in [Nodes -> Nat \cup {None}]
  /\ op \in [Nodes -> Steps]
  /\ lifecycle \in [Nodes -> Seq({"start", "stop"})]

Init ==
  /\ now = 0 /\ nextId = 0 /\ faults = 0
  /\ members = {} /\ score = [id \in Ids |-> 0]
  /\ nodes = {} /\ obligations = {}
  /\ cmds = {}
  /\ running = [n \in Nodes |-> FALSE] /\ leaseLost = [n \in Nodes |-> FALSE]
  /\ generation = [n \in Nodes |-> 0] /\ instanceId = [n \in Nodes |-> 0]
  /\ leaseSafeUntil = [n \in Nodes |-> 0]
  /\ safetyTimer = [n \in Nodes |-> None]
  /\ heartbeatGeneration = [n \in Nodes |-> None]
  /\ op = [n \in Nodes |-> "idle"]
  /\ lifecycle = [n \in Nodes |-> <<>>]

-----------------------------------------------------------------------------
(***************************************************************************)
(* Redis scripts.                                                          *)
(***************************************************************************)

\* ACTIVE_SCORE and the liveness test of HEARTBEAT and UPDATE_METADATA.
Active(id) == id \in members /\ now < score[id] + TTL

\* The ids CLEANUP_SCRIPT selects.
Expired == {id \in members : score[id] + TTL <= now}

Result(c) ==
  IF c.kind \in {"create", "deregister"} \/ Active(c.id)
  THEN "granted" ELSE "denied"

\* A member that is removed loses its score (shown as 0).
MembersAfter(c) ==
  IF c.kind = "create" THEN members \cup {c.id}
  ELSE IF c.kind = "deregister" THEN members \ {c.id} ELSE members

\* A new heartbeat is added once (NX); a renewal needs a live one.
ScoreAfter(c) ==
  IF \/ c.kind = "create" /\ c.id \notin members
     \/ c.kind = "renew" /\ Active(c.id)
  THEN [score EXCEPT ![c.id] = now]
  ELSE IF c.kind = "deregister" THEN [score EXCEPT ![c.id] = 0] ELSE score

NodesAfter(c) ==
  IF c.kind \in {"register", "update"} /\ Active(c.id) THEN nodes \cup {c.id}
  ELSE IF c.kind = "deregister" THEN nodes \ {c.id} ELSE nodes

Executes(c) ==
  /\ members' = MembersAfter(c)
  /\ score' = ScoreAfter(c)
  /\ nodes' = NodesAfter(c)
  /\ UNCHANGED <<nextId, obligations>>

-----------------------------------------------------------------------------
(***************************************************************************)
(* Pieces shared by the handlers.                                          *)
(***************************************************************************)

\* fenceLeaseLoss(): give up membership at once, invoke the lease-loss
\* callback and queue the physical shutdown. Only the first call acts.
fenceLeaseLoss(n) ==
  IF leaseLost[n]
  THEN UNCHANGED <<leaseVars, lifecycle>>
  ELSE /\ leaseLost' = [leaseLost EXCEPT ![n] = TRUE]
       /\ running' = [running EXCEPT ![n] = FALSE]
       /\ safetyTimer' = [safetyTimer EXCEPT ![n] = None]
       /\ lifecycle' = [lifecycle EXCEPT ![n] = Append(@, "stop")]
       /\ UNCHANGED leaseSafeUntil

\* Mutant: the id is forgotten without deregistering it.
failStartLeavesMember(n, rest) ==
  /\ instanceId' = [instanceId EXCEPT ![n] = 0]
  /\ op' = [op EXCEPT ![n] = "idle"]
  /\ cmds' = rest

\* The catch block of startImpl(): forget the id and deregister it.
failStart(n, rest) ==
  /\ instanceId' = [instanceId EXCEPT ![n] = 0]
  /\ op' = [op EXCEPT ![n] = "deregister"]
  /\ cmds' = rest \cup {Cmd("deregister", n, instanceId[n], 0)}

\* assertLeaseSafe() would return normally.
LeaseSafe(n) == running[n] /\ ~leaseLost[n] /\ now < leaseSafeUntil[n]

\* One client sends a node's commands down one connection, so Redis executes
\* and answers them in the order sent. A DEREGISTER is the only command that
\* is sent while others of its node are under way.
InOrder(c) ==
  c.kind = "deregister" =>
    \A d \in cmds : d = c \/ d.node # c.node \/ d.stage = "ghost"
                          \/ (c.stage = "sent" /\ d.stage # "sent")

-----------------------------------------------------------------------------
(***************************************************************************)
(* Lifecycle.                                                              *)
(***************************************************************************)

\* A start() is under way or queued, or the service runs.
Started(n) ==
  \/ running[n]
  \/ op[n] \in {"incr", "subscribe", "create", "register"}
  \/ \E k \in 1..Len(lifecycle[n]) : lifecycle[n][k] = "start"

start(n) ==
  /\ Len(lifecycle[n]) < MaxQueue
  /\ Disciplined => ~Started(n)
  /\ lifecycle' = [lifecycle EXCEPT ![n] = Append(@, "start")]
  /\ UNCHANGED <<now, redisVars, cmds, leaseVars, idVars, heartbeatGeneration,
                 op, faults>>

\* stop() revokes authority at once and queues stopImpl().
stop(n) ==
  /\ Len(lifecycle[n]) < MaxQueue
  /\ running' = [running EXCEPT ![n] = FALSE]
  /\ lifecycle' = [lifecycle EXCEPT ![n] = Append(@, "stop")]
  /\ UNCHANGED <<now, redisVars, cmds, leaseLost, leaseSafeUntil, safetyTimer,
                 idVars, heartbeatGeneration, op, faults>>

\* startImpl() up to the INCR; it throws when the service already runs.
StartBegins(n) ==
  /\ op[n] = "idle" /\ lifecycle[n] # <<>> /\ Head(lifecycle[n]) = "start"
  /\ lifecycle' = [lifecycle EXCEPT ![n] = Tail(@)]
  /\ IF running[n]
       THEN UNCHANGED <<generation, op>>
       ELSE /\ generation[n] < MaxGen
            /\ nextId + Cardinality({m \in Nodes : op[m] = "incr"}) < MaxId
            /\ generation' = [generation EXCEPT ![n] = @ + 1]
            /\ op' = [op EXCEPT ![n] = "incr"]
  /\ UNCHANGED <<now, redisVars, cmds, leaseVars, instanceId,
                 heartbeatGeneration, faults>>

IncrReplies(n) ==
  /\ op[n] = "incr" /\ nextId < MaxId
  /\ nextId' = nextId + 1
  /\ instanceId' = [instanceId EXCEPT ![n] = nextId + 1]
  /\ op' = [op EXCEPT ![n] = "subscribe"]
  /\ UNCHANGED <<now, members, score, nodes, obligations, cmds, leaseVars,
                 generation, heartbeatGeneration, lifecycle, faults>>

\* INCR rejects: startImpl() ends, the id may have been drawn in Redis.
IncrRejects(n) ==
  /\ op[n] = "incr" /\ faults < MaxFaults
  /\ faults' = faults + 1
  /\ nextId' \in {nextId, nextId + 1}
  /\ op' = [op EXCEPT ![n] = "idle"]
  /\ UNCHANGED <<now, members, score, nodes, obligations, cmds, leaseVars,
                 idVars, heartbeatGeneration, lifecycle>>

\* The subscriber is ready; HEARTBEAT create goes out.
Subscribed(n) ==
  /\ op[n] = "subscribe"
  /\ op' = [op EXCEPT ![n] = "create"]
  /\ cmds' = cmds \cup {Cmd("create", n, instanceId[n], now)}
  /\ UNCHANGED <<now, redisVars, leaseVars, idVars, heartbeatGeneration,
                 lifecycle, faults>>

SubscribeRejects(n) ==
  /\ op[n] = "subscribe" /\ faults < MaxFaults
  /\ faults' = faults + 1
  /\ failStart(n, cmds)
  /\ UNCHANGED <<now, redisVars, leaseVars, generation, heartbeatGeneration,
                 lifecycle>>

CreateReply(c) ==
  /\ c.kind = "create" /\ c.stage \in {"granted", "failed"}
  /\ IF c.stage = "granted"
       THEN /\ op' = [op EXCEPT ![c.node] = "register"]
            /\ cmds' = (cmds \ {c}) \cup {Cmd("register", c.node, c.id, c.at)}
            /\ UNCHANGED instanceId
       ELSE failStart(c.node, cmds \ {c})
  /\ UNCHANGED <<now, redisVars, leaseVars, generation, heartbeatGeneration,
                 lifecycle, faults>>

\* Mutant: the lease is counted from the answer, not from the request.
RegisterReplyFromAnswer(c) ==
  /\ c.kind = "register" /\ c.stage \in {"granted", "denied", "failed"}
  /\ IF c.stage = "granted"
       THEN /\ leaseSafeUntil' = [leaseSafeUntil EXCEPT ![c.node] = now + TTL]
            /\ leaseLost' = [leaseLost EXCEPT ![c.node] = FALSE]
            /\ running' = [running EXCEPT ![c.node] = TRUE]
            /\ safetyTimer' = [safetyTimer EXCEPT ![c.node] = generation[c.node]]
            /\ op' = [op EXCEPT ![c.node] = "idle"]
            /\ cmds' = cmds \ {c}
            /\ UNCHANGED instanceId
       ELSE /\ failStart(c.node, cmds \ {c})
            /\ UNCHANGED <<leaseSafeUntil, leaseLost, running, safetyTimer>>
  /\ UNCHANGED <<now, redisVars, generation, heartbeatGeneration, lifecycle,
                 faults>>

\* The node is a member, unless starting took longer than the lease.
RegisterReply(c) ==
  /\ c.kind = "register" /\ c.stage \in {"granted", "denied", "failed"}
  /\ leaseSafeUntil' = IF c.stage = "granted"
                       THEN [leaseSafeUntil EXCEPT ![c.node] = c.at + TTL]
                       ELSE leaseSafeUntil
  /\ IF c.stage = "granted" /\ now < c.at + TTL
       THEN /\ leaseLost' = [leaseLost EXCEPT ![c.node] = FALSE]
            /\ running' = [running EXCEPT ![c.node] = TRUE]
            /\ safetyTimer' = [safetyTimer EXCEPT ![c.node] = generation[c.node]]
            /\ op' = [op EXCEPT ![c.node] = "idle"]
            /\ cmds' = cmds \ {c}
            /\ UNCHANGED instanceId
       ELSE /\ failStart(c.node, cmds \ {c})
            /\ UNCHANGED <<leaseLost, running, safetyTimer>>
  /\ UNCHANGED <<now, redisVars, generation, heartbeatGeneration, lifecycle,
                 faults>>

\* stopImpl() up to its first await: cleanup drains and the leader service
\* are wound down.
StopBegins(n) ==
  /\ op[n] = "idle" /\ lifecycle[n] # <<>> /\ Head(lifecycle[n]) = "stop"
  /\ generation[n] < MaxGen
  /\ lifecycle' = [lifecycle EXCEPT ![n] = Tail(@)]
  /\ running' = [running EXCEPT ![n] = FALSE]
  /\ generation' = [generation EXCEPT ![n] = @ + 1]
  /\ op' = [op EXCEPT ![n] = "leaving"]
  /\ UNCHANGED <<now, redisVars, cmds, leaseLost, leaseSafeUntil, safetyTimer,
                 instanceId, heartbeatGeneration, faults>>

\* Mutant: stopImpl() deregisters even when there is no id.
StopLeavesUnguarded(n) ==
  /\ op[n] = "leaving"
  /\ safetyTimer' = [safetyTimer EXCEPT ![n] = None]
  /\ failStart(n, cmds)
  /\ UNCHANGED <<now, redisVars, running, leaseLost, leaseSafeUntil, generation,
                 heartbeatGeneration, lifecycle, faults>>

\* The rest of stopImpl(): clear the timers and deregister the id, if any.
StopLeaves(n) ==
  /\ op[n] = "leaving"
  /\ safetyTimer' = [safetyTimer EXCEPT ![n] = None]
  /\ IF instanceId[n] # 0
       THEN failStart(n, cmds)
       ELSE op' = [op EXCEPT ![n] = "idle"] /\ UNCHANGED <<instanceId, cmds>>
  /\ UNCHANGED <<now, redisVars, running, leaseLost, leaseSafeUntil, generation,
                 heartbeatGeneration, lifecycle, faults>>

\* Mutant: a rejected DEREGISTER leaves the lifecycle chain waiting.
DeregisterReplyOnlySuccess(c) ==
  /\ c.kind = "deregister" /\ c.stage = "granted"
  /\ InOrder(c)
  /\ op' = [op EXCEPT ![c.node] = "idle"]
  /\ cmds' = cmds \ {c}
  /\ UNCHANGED <<now, redisVars, leaseVars, idVars, heartbeatGeneration,
                 lifecycle, faults>>

\* DEREGISTER answered or rejected; either way the lifecycle operation ends.
DeregisterReply(c) ==
  /\ c.kind = "deregister" /\ c.stage \in {"granted", "failed"}
  /\ InOrder(c)
  /\ op' = [op EXCEPT ![c.node] = "idle"]
  /\ cmds' = cmds \ {c}
  /\ UNCHANGED <<now, redisVars, leaseVars, idVars, heartbeatGeneration,
                 lifecycle, faults>>

-----------------------------------------------------------------------------
(***************************************************************************)
(* Renewal and fencing.                                                    *)
(***************************************************************************)

doHeartbeat(n) ==
  /\ running[n] /\ heartbeatGeneration[n] # generation[n]
  /\ heartbeatGeneration' = [heartbeatGeneration EXCEPT ![n] = generation[n]]
  /\ cmds' = cmds \cup {Cmd("renew", n, instanceId[n], now)}
  /\ UNCHANGED <<now, redisVars, leaseVars, idVars, lifeVars, faults>>

\* The answer to a renewal of the current generation that fences: a 0, or a rejection
\* once the lease has run out.
MissesRenewal(c) ==
  /\ generation[c.node] = c.gen
  /\ \/ c.stage = "denied"
     \/ c.stage = "failed" /\ running[c.node] /\ now >= leaseSafeUntil[c.node]

\* Mutant: the renewed lease is counted from the answer.
HeartbeatReplyFromAnswer(c) ==
  /\ c.kind = "renew" /\ c.stage \in {"granted", "denied", "failed"}
  /\ cmds' = cmds \ {c}
  /\ heartbeatGeneration' =
       [heartbeatGeneration EXCEPT ![c.node] = IF @ = c.gen THEN None ELSE @]
  /\ IF MissesRenewal(c) THEN fenceLeaseLoss(c.node)
     ELSE IF c.stage = "granted" /\ generation[c.node] = c.gen /\ running[c.node]
     THEN /\ leaseSafeUntil' = [leaseSafeUntil EXCEPT ![c.node] = now + TTL]
          /\ safetyTimer' = [safetyTimer EXCEPT ![c.node] = c.gen]
          /\ UNCHANGED <<running, leaseLost, lifecycle>>
     ELSE UNCHANGED <<leaseVars, lifecycle>>
  /\ UNCHANGED <<now, redisVars, idVars, op, faults>>

\* Mutant: the safety timer is cleared and not armed again.
HeartbeatReplyDropsTimer(c) ==
  /\ c.kind = "renew" /\ c.stage \in {"granted", "denied", "failed"}
  /\ cmds' = cmds \ {c}
  /\ heartbeatGeneration' =
       [heartbeatGeneration EXCEPT ![c.node] = IF @ = c.gen THEN None ELSE @]
  /\ IF MissesRenewal(c) THEN fenceLeaseLoss(c.node)
     ELSE IF c.stage = "granted" /\ generation[c.node] = c.gen /\ running[c.node]
     THEN /\ leaseSafeUntil' = [leaseSafeUntil EXCEPT ![c.node] = c.at + TTL]
          /\ safetyTimer' = [safetyTimer EXCEPT ![c.node] = None]
          /\ UNCHANGED <<running, leaseLost, lifecycle>>
     ELSE UNCHANGED <<leaseVars, lifecycle>>
  /\ UNCHANGED <<now, redisVars, idVars, op, faults>>

\* HEARTBEAT renew answered. A 0 fences, a 1 extends the lease counted from
\* the time the renewal was sent, a rejection fences once the lease has run out.
HeartbeatReply(c) ==
  /\ c.kind = "renew" /\ c.stage \in {"granted", "denied", "failed"}
  /\ cmds' = cmds \ {c}
  /\ heartbeatGeneration' =
       [heartbeatGeneration EXCEPT ![c.node] = IF @ = c.gen THEN None ELSE @]
  /\ IF MissesRenewal(c) THEN fenceLeaseLoss(c.node)
     ELSE IF c.stage = "granted" /\ generation[c.node] = c.gen /\ running[c.node]
     THEN /\ leaseSafeUntil' = [leaseSafeUntil EXCEPT ![c.node] = c.at + TTL]
          /\ safetyTimer' = [safetyTimer EXCEPT ![c.node] = c.gen]
          /\ UNCHANGED <<running, leaseLost, lifecycle>>
     ELSE UNCHANGED <<leaseVars, lifecycle>>
  /\ UNCHANGED <<now, redisVars, idVars, op, faults>>

updateNodeMetadata(n) ==
  /\ LeaseSafe(n)
  /\ \A c \in cmds : c.kind # "update" \/ c.node # n
  /\ cmds' = cmds \cup {Cmd("update", n, instanceId[n], 0)}
  /\ UNCHANGED <<now, redisVars, leaseVars, idVars, heartbeatGeneration, lifeVars,
                 faults>>

\* A missing membership fences; otherwise assertLeaseSafe() runs once more.
UpdateReply(c) ==
  /\ c.kind = "update" /\ c.stage \in {"granted", "denied", "failed"}
  /\ cmds' = cmds \ {c}
  /\ IF \/ c.stage = "denied"
        \/ c.stage = "granted" /\ running[c.node] /\ now >= leaseSafeUntil[c.node]
       THEN fenceLeaseLoss(c.node)
       ELSE UNCHANGED <<leaseVars, lifecycle>>
  /\ UNCHANGED <<now, redisVars, idVars, heartbeatGeneration, op, faults>>

\* The lease safety timer fires.
SafetyTimerFires(n) ==
  /\ safetyTimer[n] # None /\ now >= leaseSafeUntil[n]
  /\ IF running[n] /\ generation[n] = safetyTimer[n]
       THEN fenceLeaseLoss(n)
       ELSE /\ safetyTimer' = [safetyTimer EXCEPT ![n] = None]
            /\ UNCHANGED <<running, leaseLost, leaseSafeUntil, lifecycle>>
  /\ UNCHANGED <<now, redisVars, cmds, idVars, heartbeatGeneration, op, faults>>

\* assertLeaseSafe() finds the lease over before the timer does, or a
\* dependant revokes the membership with fence().
assertLeaseSafe(n) ==
  /\ running[n] /\ ~leaseLost[n] /\ now >= leaseSafeUntil[n]
  /\ fenceLeaseLoss(n)
  /\ UNCHANGED <<now, redisVars, cmds, idVars, heartbeatGeneration, op, faults>>

fence(n) ==
  /\ ~leaseLost[n]
  /\ fenceLeaseLoss(n)
  /\ UNCHANGED <<now, redisVars, cmds, idVars, heartbeatGeneration, op, faults>>

-----------------------------------------------------------------------------
(***************************************************************************)
(* Redis, the network and the environment.                                 *)
(***************************************************************************)

RedisExecutes(c) ==
  /\ c.stage = "sent" /\ InOrder(c)
  /\ Executes(c)
  /\ cmds' = (cmds \ {c}) \cup {At(c, Result(c))}
  /\ UNCHANGED <<now, leaseVars, idVars, heartbeatGeneration, lifeVars, faults>>

\* A call rejects at the client, before or after Redis executed it.
CallRejects(c) ==
  /\ faults < MaxFaults
  /\ c.stage \in {"sent", "granted", "denied"}
  /\ faults' = faults + 1
  /\ cmds' = (cmds \ {c}) \cup {At(c, "failed")} \cup
               (IF c.stage = "sent" THEN {At(c, "ghost")} ELSE {})
  /\ UNCHANGED <<now, redisVars, leaseVars, idVars, heartbeatGeneration, lifeVars>>

\* The connection drops before the answer arrives and the client sends the
\* unfulfilled command again.
Resent(c) ==
  /\ faults < MaxFaults
  /\ c.stage \in {"granted", "denied"}
  /\ faults' = faults + 1
  /\ cmds' = (cmds \ {c}) \cup {At(c, "sent")}
  /\ UNCHANGED <<now, redisVars, leaseVars, idVars, heartbeatGeneration, lifeVars>>

GhostExecutes(c) ==
  /\ c.stage = "ghost"
  /\ Executes(c)
  /\ cmds' = cmds \ {c}
  /\ UNCHANGED <<now, leaseVars, idVars, heartbeatGeneration, lifeVars, faults>>

GhostVanishes(c) ==
  /\ c.stage = "ghost"
  /\ cmds' = cmds \ {c}
  /\ UNCHANGED <<now, redisVars, leaseVars, idVars, heartbeatGeneration, lifeVars,
                 faults>>

\* Some leader runs CLEANUP_SCRIPT: a batch of expired ids moves to the list
\* of obligations.
Cleanup ==
  \E batch \in (SUBSET Expired) \ {{}} :
    /\ members' = members \ batch
    /\ nodes' = nodes \ batch
    /\ score' = [id \in Ids |-> IF id \in batch THEN 0 ELSE score[id]]
    /\ obligations' = obligations \cup batch
    /\ UNCHANGED <<now, nextId, cmds, leaseVars, idVars,
                   heartbeatGeneration, lifeVars, faults>>

Tick ==
  /\ now < MaxTime
  /\ now' = now + 1
  /\ UNCHANGED <<redisVars, cmds, leaseVars, idVars, heartbeatGeneration, lifeVars,
                 faults>>

\* The process dies and a new one takes its place; requests already sent may
\* still execute.
Crash(n) ==
  /\ faults < MaxFaults
  /\ faults' = faults + 1
  /\ running' = [running EXCEPT ![n] = FALSE]
  /\ leaseLost' = [leaseLost EXCEPT ![n] = FALSE]
  /\ generation' = [generation EXCEPT ![n] = 0]
  /\ instanceId' = [instanceId EXCEPT ![n] = 0]
  /\ leaseSafeUntil' = [leaseSafeUntil EXCEPT ![n] = 0]
  /\ safetyTimer' = [safetyTimer EXCEPT ![n] = None]
  /\ heartbeatGeneration' = [heartbeatGeneration EXCEPT ![n] = None]
  /\ op' = [op EXCEPT ![n] = "idle"]
  /\ lifecycle' = [lifecycle EXCEPT ![n] = <<>>]
  /\ cmds' = {c \in cmds : c.node # n \/ c.stage = "ghost"} \cup
             {At(c, "ghost") :
                c \in {d \in cmds : d.node = n /\ d.stage = "sent"}}
  /\ UNCHANGED <<now, redisVars>>

-----------------------------------------------------------------------------
Lifecycle(n) ==
  \/ start(n) \/ stop(n)
  \/ StartBegins(n) \/ IncrReplies(n) \/ IncrRejects(n)
  \/ Subscribed(n) \/ SubscribeRejects(n)
  \/ StopBegins(n) \/ StopLeaves(n)

Lease(n) ==
  \/ doHeartbeat(n) \/ updateNodeMetadata(n)
  \/ SafetyTimerFires(n) \/ assertLeaseSafe(n) \/ fence(n)
  \/ Crash(n)

Handlers(c) ==
  \/ CreateReply(c) \/ RegisterReply(c) \/ DeregisterReply(c)
  \/ HeartbeatReply(c) \/ UpdateReply(c)

Network(c) ==
  \/ RedisExecutes(c) \/ CallRejects(c) \/ Resent(c)
  \/ GhostExecutes(c) \/ GhostVanishes(c)

Next ==
  \/ \E n \in Nodes : Lifecycle(n) \/ Lease(n)
  \/ \E c \in cmds : Handlers(c) \/ Network(c)
  \/ Cleanup
  \/ Tick

Spec == Init /\ [][Next]_vars

(***************************************************************************)
(* Fairness: Redis answers, continuations run, the lifecycle queue is      *)
(* served and an expired safety timer fires.                               *)
(***************************************************************************)
ServesLifecycle(n) ==
  \/ StartBegins(n) \/ IncrReplies(n) \/ IncrRejects(n) \/ Subscribed(n)
  \/ StopBegins(n) \/ StopLeaves(n)
Serves(n, k) == \E c \in cmds : c.kind = k /\ c.node = n /\ (RedisExecutes(c) \/ Handlers(c))

Fairness ==
  \A n \in Nodes :
    /\ WF_vars(ServesLifecycle(n)) /\ WF_vars(SafetyTimerFires(n))
    /\ \A k \in Kinds : WF_vars(Serves(n, k))

FairSpec == Spec /\ Fairness

-----------------------------------------------------------------------------
(***************************************************************************)
(* Properties.                                                             *)
(***************************************************************************)

\* Whenever assertLeaseSafe() lets work proceed, Redis still lists the node as
\* a live member with its metadata: the local deadline, counted from before
\* each renewal was sent, never outlives the lease.
SafeIsMember ==
  \A n \in Nodes :
    LeaseSafe(n) => Active(instanceId[n]) /\ instanceId[n] \in nodes

\* No node works on while the cleanup callback for its instance id may run:
\* an id that CLEANUP has handed over belongs to no lease-safe node, not even
\* after a resent or late HEARTBEAT recreates the sorted-set member.
CleanedIsFenced ==
  \A n \in Nodes : LeaseSafe(n) => instanceId[n] \notin obligations

\* Metadata never survives its heartbeat: a late UPDATE_METADATA cannot bring
\* back a node that was deregistered or cleaned up.
MetadataHasHeartbeat == nodes \subseteq members

\* Without rejected calls and crashes, an id listed in Redis belongs to a node
\* that still uses it, is being deregistered, or waits for its cleanup.
NoOrphans ==
  faults = 0 =>
    \A id \in members :
      \/ \E n \in Nodes : instanceId[n] = id
      \/ \E c \in cmds : c.id = id /\ c.kind = "deregister"
      \/ id \in Expired

Fenced(n) == running[n] => now < leaseSafeUntil[n]
Settled(n) == op[n] = "idle"

\* A node whose lease ran out stops running even if Redis never answers, by
\* its safety timer.
ExpiryFences == \A n \in Nodes : []<>Fenced(n)

\* start() and stop() calls, whatever happens to their Redis calls, never
\* leave the lifecycle chain blocked.
LifecycleSettles == \A n \in Nodes : []<>Settled(n)
=============================================================================
