------------------------ MODULE MeshMembershipProofs ------------------------
(***************************************************************************)
(* Mesh membership for any number of nodes, instance ids, lifecycle calls, *)
(* late and resent commands and crashes: a node that may work is a live    *)
(* member whose id nobody cleans up.                                       *)
(***************************************************************************)
EXTENDS MeshMembership, SequenceTheorems, TLAPS

-----------------------------------------------------------------------------
(***************************************************************************)
(* The inductive invariant: who owns which id, what the commands in flight *)
(* stand for, and what a lease that is being acquired, renewed or held     *)
(* says about Redis.                                                       *)
(***************************************************************************)

\* The client still waits for the command.
Awaited(c) == c.stage # "ghost"
\* A command that a lifecycle operation waits for.
OfLifecycle(c) == c.kind \in {"create", "register", "deregister"} /\ Awaited(c)
\* A command that startImpl() waits for.
OfStart(c) == c.kind \in {"create", "register"} /\ Awaited(c)
\* A renewal whose answer can still extend the lease.
Current(c) == c.kind = "renew" /\ Awaited(c) /\ c.gen = generation[c.node]

\* Every id in use was drawn.
IdsAreDrawn ==
  /\ \A n \in Nodes : instanceId[n] <= nextId
  /\ \A id \in members \cup nodes \cup obligations : id <= nextId
  /\ \A c \in cmds : c.id <= nextId

\* No id belongs to two nodes.
OwnersDiffer ==
  \A n, m \in Nodes : instanceId[n] = instanceId[m] /\ instanceId[n] # 0 => n = m

\* A node that runs, or starts beyond the INCR, has an id; a node that runs
\* is in no lifecycle operation.
HasId ==
  \A n \in Nodes :
    /\ op[n] \in {"subscribe", "create", "register"} => instanceId[n] # 0
    /\ running[n] => instanceId[n] # 0 /\ op[n] = "idle"

\* The lifecycle operation of the node waits for the command, and only for it.
LifecycleWaits ==
  /\ \A c \in cmds : OfLifecycle(c) => op[c.node] = c.kind
  /\ \A c \in cmds : OfStart(c) => c.id = instanceId[c.node]
  /\ \A c, d \in cmds : OfLifecycle(c) /\ OfLifecycle(d) /\ c.node = d.node => c = d

\* A HEARTBEAT create, even a late one, is about an id in use only while its
\* owner waits for it; the owner of a late one is about to give the id up.
CreatesAreOwn ==
  /\ \A c \in cmds : \A n \in Nodes :
       c.kind = "create" /\ c.id = instanceId[n] => op[n] = "create"
  /\ \A c, d \in cmds :
       c.kind = "create" /\ d.kind = "create" /\ c.id = d.id
         /\ Awaited(c) /\ ~Awaited(d) => c.stage = "failed"

\* A DEREGISTER is about an id nobody uses any more.
DeregistersAreForgotten ==
  \A c \in cmds : \A n \in Nodes : c.kind = "deregister" => c.id # instanceId[n]

\* A command belongs to this generation of its node or to an earlier one; a
\* renewal of this generation is about the node's id.
GenerationsGrow ==
  /\ \A c \in cmds : Awaited(c) => c.gen <= generation[c.node]
  /\ \A c \in cmds : Current(c) => op[c.node] = "idle" /\ c.id = instanceId[c.node]

Control ==
  /\ IdsAreDrawn /\ OwnersDiffer /\ HasId /\ LifecycleWaits /\ CreatesAreOwn
  /\ DeregistersAreForgotten /\ GenerationsGrow

\* No time is in the future.
TimesArePast ==
  /\ \A c \in cmds : c.at <= now
  /\ \A id \in Ids : score[id] <= now

\* An id that has just been drawn is not in Redis.
NewIdsAreFresh ==
  \A n \in Nodes : op[n] = "subscribe" => instanceId[n] \notin members \cup obligations

\* While a start waits, what it has achieved still stands, or its lease, counted
\* from before the heartbeat was sent, is over.
Over(c) == now >= c.at + TTL
StartsHold ==
  \A c \in cmds : OfStart(c) =>
    /\ c.id \in members => score[c.id] >= c.at
    /\ c.id \in obligations => Over(c)
    /\ c.kind = "register" \/ c.stage = "granted" => Over(c) \/ c.id \in members
    /\ c.kind = "register" /\ c.stage = "granted" => Over(c) \/ c.id \in nodes

\* A granted renewal stands, or the lease it grants is over.
RenewalsHold ==
  \A c \in cmds : Current(c) /\ c.stage = "granted" =>
    Over(c) \/ (c.id \in members /\ score[c.id] >= c.at)

\* The lease of a running node stands, or its deadline has passed; a member's
\* metadata is there and nobody cleans it up.
LeasesHold ==
  \A n \in Nodes : running[n] =>
    /\ instanceId[n] \in members =>
         instanceId[n] \in nodes /\ instanceId[n] \notin obligations
    /\ \/ now >= leaseSafeUntil[n]
       \/ instanceId[n] \in members /\ score[instanceId[n]] + TTL >= leaseSafeUntil[n]

LeaseInv ==
  /\ TimesArePast /\ NewIdsAreFresh /\ StartsHold /\ RenewalsHold /\ LeasesHold
  /\ MetadataHasHeartbeat

IInv == TypeOK /\ Control /\ LeaseInv

-----------------------------------------------------------------------------
(***************************************************************************)
(* Facts about commands.                                                   *)
(***************************************************************************)

\* The literals the actions use.
LEMMA Literals ==
  /\ "create" \in Kinds /\ "register" \in Kinds /\ "renew" \in Kinds
  /\ "update" \in Kinds /\ "deregister" \in Kinds
  /\ "sent" \in Stages /\ "granted" \in Stages /\ "denied" \in Stages
  /\ "failed" \in Stages /\ "ghost" \in Stages
  /\ "idle" \in Steps /\ "incr" \in Steps /\ "subscribe" \in Steps
  /\ "create" \in Steps /\ "register" \in Steps /\ "leaving" \in Steps
  /\ "deregister" \in Steps
  BY DEF Kinds, Stages, Steps

\* The fields of a command in flight.
LEMMA Fields ==
  ASSUME TypeOK, NEW c \in cmds
  PROVE  /\ c \in Commands /\ c.kind \in Kinds /\ c.node \in Nodes
         /\ c.id \in Ids /\ c.gen \in Nat /\ c.at \in Nat /\ c.stage \in Stages
  BY DEF TypeOK, Commands

\* Instance ids are positive numbers.
LEMMA IdsArePositive == \A id \in Ids : id \in Nat /\ id # 0
  BY MeshAssumption DEF Ids

\* A command that is sent.
LEMMA SentFields ==
  ASSUME TypeOK, NEW k \in Kinds, NEW n \in Nodes, NEW id \in Ids, NEW at \in Nat
  PROVE  /\ Cmd(k, n, id, at) \in Commands /\ Cmd(k, n, id, at).kind = k
         /\ Cmd(k, n, id, at).node = n /\ Cmd(k, n, id, at).id = id
         /\ Cmd(k, n, id, at).gen = generation[n] /\ Cmd(k, n, id, at).at = at
         /\ Cmd(k, n, id, at).stage = "sent"
  BY Literals DEF Cmd, Commands, TypeOK

\* A command in another stage is otherwise the same command.
LEMMA AtFields ==
  ASSUME TypeOK, NEW c \in cmds, NEW s \in Stages
  PROVE  /\ At(c, s) \in Commands /\ At(c, s).kind = c.kind
         /\ At(c, s).node = c.node /\ At(c, s).id = c.id
         /\ At(c, s).gen = c.gen /\ At(c, s).at = c.at /\ At(c, s).stage = s
  BY Fields DEF At, Commands

\* A script answers and leaves Redis well typed.
LEMMA ScriptType ==
  ASSUME TypeOK, NEW c \in cmds
  PROVE  /\ Result(c) \in {"granted", "denied"} /\ Result(c) \in Stages
         /\ MembersAfter(c) \in SUBSET Ids /\ NodesAfter(c) \in SUBSET Ids
         /\ ScoreAfter(c) \in [Ids -> Nat]
  BY Fields, Literals DEF Result, MembersAfter, NodesAfter, ScoreAfter, TypeOK

-----------------------------------------------------------------------------
(***************************************************************************)
(* Type correctness.                                                       *)
(***************************************************************************)

\* failStart() leaves well-typed ids, operations and commands.
LEMMA FailStartType ==
  ASSUME TypeOK, NEW n \in Nodes, instanceId[n] # 0, NEW rest \in SUBSET Commands,
         failStart(n, rest)
  PROVE  /\ instanceId' \in [Nodes -> Ids \cup {0}]
         /\ op' \in [Nodes -> Steps] /\ cmds' \in SUBSET Commands
  <1>1. instanceId[n] \in Ids
    BY DEF TypeOK
  <1>2. Cmd("deregister", n, instanceId[n], 0) \in Commands
    BY <1>1, SentFields, Literals
  <1> QED BY <1>2, Literals DEF failStart, TypeOK

\* fenceLeaseLoss() leaves a well-typed lease and queue.
LEMMA FenceType ==
  ASSUME TypeOK, NEW n \in Nodes, fenceLeaseLoss(n)
  PROVE  /\ running' \in [Nodes -> BOOLEAN] /\ leaseLost' \in [Nodes -> BOOLEAN]
         /\ leaseSafeUntil' \in [Nodes -> Nat]
         /\ safetyTimer' \in [Nodes -> Nat \cup {None}]
         /\ lifecycle' \in [Nodes -> Seq({"start", "stop"})]
  <1>1. CASE leaseLost[n]
    BY <1>1 DEF fenceLeaseLoss, TypeOK, leaseVars
  <1>2. CASE ~leaseLost[n]
    <2>1. Append(lifecycle[n], "stop") \in Seq({"start", "stop"})
      BY DEF TypeOK
    <2> QED BY <1>2, <2>1 DEF fenceLeaseLoss, TypeOK
  <1> QED BY <1>1, <1>2

\* Every step keeps the state well typed.
LEMMA TypeStep == TypeOK /\ Control /\ [Next]_vars => TypeOK'
  <1> SUFFICES ASSUME TypeOK, Control, [Next]_vars PROVE TypeOK'
    OBVIOUS
  <1> USE Literals DEF redisVars, leaseVars, idVars, lifeVars
  <1>id. ASSUME NEW n \in Nodes, running[n] \/ op[n] \in {"subscribe", "create", "register"}
         PROVE  instanceId[n] \in Ids /\ instanceId[n] # 0
    BY <1>id DEF Control, HasId, TypeOK
  <1>c. \A c \in cmds : c \in Commands /\ c.node \in Nodes /\ c.at \in Nat /\ c.gen \in Nat
    BY Fields
  <1>q. cmds \in SUBSET Commands /\ \A c \in cmds : cmds \ {c} \in SUBSET Commands
    BY DEF TypeOK
  <1>1. ASSUME NEW n \in Nodes, start(n) PROVE TypeOK'
    BY <1>1 DEF TypeOK, start
  <1>2. ASSUME NEW n \in Nodes, stop(n) PROVE TypeOK'
    BY <1>2 DEF TypeOK, stop
  <1>3. ASSUME NEW n \in Nodes, StartBegins(n) PROVE TypeOK'
    <2>1. Tail(lifecycle[n]) \in Seq({"start", "stop"})
      BY <1>3 DEF TypeOK, StartBegins
    <2>2. CASE running[n]
      BY <1>3, <2>1, <2>2 DEF TypeOK, StartBegins
    <2>3. CASE ~running[n]
      <3>1. generation' \in [Nodes -> Nat] /\ op' \in [Nodes -> Steps]
        <4>1. /\ generation' = [generation EXCEPT ![n] = generation[n] + 1]
              /\ op' = [op EXCEPT ![n] = "incr"]
          BY <1>3, <2>3, Zenon DEF StartBegins
        <4> QED BY <4>1 DEF TypeOK
      <3> QED BY <1>3, <2>1, <3>1 DEF TypeOK, StartBegins
    <2> QED BY <2>2, <2>3
  <1>4. ASSUME NEW n \in Nodes, IncrReplies(n) PROVE TypeOK'
    <2>1. nextId + 1 \in Ids /\ nextId + 1 \in Nat
      BY <1>4, MeshAssumption DEF TypeOK, IncrReplies, Ids
    <2> QED BY <1>4, <2>1 DEF TypeOK, IncrReplies
  <1>5. ASSUME NEW n \in Nodes, IncrRejects(n) PROVE TypeOK'
    BY <1>5 DEF TypeOK, IncrRejects
  <1>6. ASSUME NEW n \in Nodes, Subscribed(n) PROVE TypeOK'
    <2>1. Cmd("create", n, instanceId[n], now) \in Commands
      BY <1>6, <1>id, SentFields DEF Subscribed, TypeOK
    <2> QED BY <1>6, <2>1 DEF TypeOK, Subscribed
  <1>7. ASSUME NEW n \in Nodes, SubscribeRejects(n) PROVE TypeOK'
    BY <1>7, <1>id, <1>q, FailStartType DEF TypeOK, SubscribeRejects
  <1>8. ASSUME NEW n \in Nodes, StopBegins(n) PROVE TypeOK'
    <2>1. Tail(lifecycle[n]) \in Seq({"start", "stop"})
      BY <1>8 DEF TypeOK, StopBegins
    <2> QED BY <1>8, <2>1 DEF TypeOK, StopBegins
  <1>9. ASSUME NEW n \in Nodes, StopLeaves(n) PROVE TypeOK'
    <2>1. CASE instanceId[n] # 0
      BY <1>9, <2>1, <1>q, FailStartType DEF TypeOK, StopLeaves
    <2>2. CASE instanceId[n] = 0
      BY <1>9, <2>2 DEF TypeOK, StopLeaves
    <2> QED BY <2>1, <2>2
  <1>10. ASSUME NEW n \in Nodes, doHeartbeat(n) PROVE TypeOK'
    <2>1. Cmd("renew", n, instanceId[n], now) \in Commands
      BY <1>10, <1>id, SentFields DEF doHeartbeat, TypeOK
    <2> QED BY <1>10, <2>1 DEF TypeOK, doHeartbeat
  <1>11. ASSUME NEW n \in Nodes, updateNodeMetadata(n) PROVE TypeOK'
    <2>1. Cmd("update", n, instanceId[n], 0) \in Commands
      BY <1>11, <1>id, SentFields DEF updateNodeMetadata, LeaseSafe, TypeOK
    <2> QED BY <1>11, <2>1 DEF TypeOK, updateNodeMetadata
  <1>12. ASSUME NEW n \in Nodes, SafetyTimerFires(n) PROVE TypeOK'
    <2>1. CASE running[n] /\ generation[n] = safetyTimer[n]
      BY <1>12, <2>1, FenceType DEF TypeOK, SafetyTimerFires
    <2>2. CASE ~(running[n] /\ generation[n] = safetyTimer[n])
      BY <1>12, <2>2 DEF TypeOK, SafetyTimerFires
    <2> QED BY <2>1, <2>2
  <1>13. ASSUME NEW n \in Nodes, assertLeaseSafe(n) PROVE TypeOK'
    BY <1>13, FenceType DEF TypeOK, assertLeaseSafe
  <1>14. ASSUME NEW n \in Nodes, fence(n) PROVE TypeOK'
    BY <1>14, FenceType DEF TypeOK, fence
  <1>15. ASSUME NEW n \in Nodes, Crash(n) PROVE TypeOK'
    <2>1. cmds' \in SUBSET Commands
      <3>1. \A c \in cmds : At(c, "ghost") \in Commands
        BY AtFields
      <3> QED BY <1>15, <1>q, <3>1 DEF Crash
    <2>2. <<>> \in Seq({"start", "stop"})
      OBVIOUS
    <2> QED BY <1>15, <2>1, <2>2 DEF TypeOK, Crash
  <1>16. ASSUME NEW c \in cmds, CreateReply(c) PROVE TypeOK'
    <2>0. c.node \in Nodes /\ c.id \in Ids /\ c.at \in Nat
      BY Fields
    <2>1. instanceId[c.node] # 0
      BY <1>16, <1>id, <2>0 DEF CreateReply, Control, LifecycleWaits, OfLifecycle, Awaited
    <2>2. CASE c.stage = "granted"
      <3>1. Cmd("register", c.node, c.id, c.at) \in Commands
        BY <2>0, SentFields
      <3> QED BY <1>16, <1>q, <2>0, <2>2, <3>1 DEF TypeOK, CreateReply
    <2>3. CASE c.stage # "granted"
      BY <1>16, <1>q, <2>0, <2>1, <2>3, FailStartType DEF TypeOK, CreateReply
    <2> QED BY <2>2, <2>3
  <1>17. ASSUME NEW c \in cmds, RegisterReply(c) PROVE TypeOK'
    <2>0. c.node \in Nodes /\ c.id \in Ids /\ c.at \in Nat
      BY Fields
    <2>1. instanceId[c.node] # 0
      BY <1>17, <1>id, <2>0 DEF RegisterReply, Control, LifecycleWaits, OfLifecycle, Awaited
    <2>2. leaseSafeUntil' \in [Nodes -> Nat]
      <3>1. c.at + TTL \in Nat
        BY <2>0, MeshAssumption
      <3>2. CASE c.stage = "granted"
        BY <1>17, <2>0, <3>1, <3>2 DEF RegisterReply, TypeOK
      <3>3. CASE c.stage # "granted"
        BY <1>17, <3>3 DEF RegisterReply, TypeOK
      <3> QED BY <3>2, <3>3
    <2>3. CASE c.stage = "granted" /\ now < c.at + TTL
      BY <1>17, <1>q, <2>0, <2>2, <2>3, ZenonT(60) DEF TypeOK, RegisterReply
    <2>4. CASE ~(c.stage = "granted" /\ now < c.at + TTL)
      BY <1>17, <1>q, <2>0, <2>1, <2>2, <2>4, FailStartType DEF TypeOK, RegisterReply
    <2> QED BY <2>3, <2>4
  <1>18. ASSUME NEW c \in cmds, DeregisterReply(c) PROVE TypeOK'
    BY <1>18, <1>c DEF TypeOK, DeregisterReply
  <1>19. ASSUME NEW c \in cmds, HeartbeatReply(c) PROVE TypeOK'
    <2>1. heartbeatGeneration' \in [Nodes -> Nat \cup {None}]
      BY <1>19 DEF TypeOK, HeartbeatReply
    <2>2. CASE MissesRenewal(c)
      BY <1>19, <1>c, <2>1, <2>2, FenceType DEF TypeOK, HeartbeatReply
    <2>3. CASE ~MissesRenewal(c) /\ c.stage = "granted" /\ generation[c.node] = c.gen /\ running[c.node]
      <3>1. c.at + TTL \in Nat
        BY <1>c, MeshAssumption
      <3>2. /\ leaseSafeUntil' = [leaseSafeUntil EXCEPT ![c.node] = c.at + TTL]
            /\ safetyTimer' = [safetyTimer EXCEPT ![c.node] = c.gen]
            /\ UNCHANGED <<running, leaseLost, lifecycle>>
        BY <1>19, <2>3, Zenon DEF HeartbeatReply
      <3> QED BY <1>19, <1>c, <2>1, <3>1, <3>2 DEF TypeOK, HeartbeatReply
    <2>4. CASE ~MissesRenewal(c) /\ ~(c.stage = "granted" /\ generation[c.node] = c.gen /\ running[c.node])
      BY <1>19, <1>c, <2>1, <2>4 DEF TypeOK, HeartbeatReply
    <2> QED BY <2>2, <2>3, <2>4
  <1>20. ASSUME NEW c \in cmds, UpdateReply(c) PROVE TypeOK'
    <2>1. CASE c.stage = "denied" \/ (c.stage = "granted" /\ running[c.node] /\ now >= leaseSafeUntil[c.node])
      BY <1>20, <1>c, <2>1, FenceType DEF TypeOK, UpdateReply
    <2>2. CASE ~(c.stage = "denied" \/ (c.stage = "granted" /\ running[c.node] /\ now >= leaseSafeUntil[c.node]))
      BY <1>20, <1>c, <2>2 DEF TypeOK, UpdateReply
    <2> QED BY <2>1, <2>2
  <1>21. ASSUME NEW c \in cmds, RedisExecutes(c) PROVE TypeOK'
    <2>1. At(c, Result(c)) \in Commands
      BY AtFields, ScriptType
    <2> QED BY <1>21, <1>q, <2>1, ScriptType DEF TypeOK, RedisExecutes, Executes
  <1>22. ASSUME NEW c \in cmds, CallRejects(c) PROVE TypeOK'
    <2>1. At(c, "failed") \in Commands /\ At(c, "ghost") \in Commands
      BY AtFields
    <2> QED BY <1>22, <1>q, <2>1 DEF TypeOK, CallRejects
  <1>23. ASSUME NEW c \in cmds, Resent(c) PROVE TypeOK'
    <2>1. At(c, "sent") \in Commands
      BY AtFields
    <2> QED BY <1>23, <1>q, <2>1 DEF TypeOK, Resent
  <1>24. ASSUME NEW c \in cmds, GhostExecutes(c) PROVE TypeOK'
    BY <1>24, <1>q, ScriptType DEF TypeOK, GhostExecutes, Executes
  <1>25. ASSUME NEW c \in cmds, GhostVanishes(c) PROVE TypeOK'
    BY <1>25, <1>q DEF TypeOK, GhostVanishes
  <1>26. CASE Cleanup
    <2>1. PICK batch \in (SUBSET Expired) \ {{}} :
            /\ members' = members \ batch /\ nodes' = nodes \ batch
            /\ score' = [id \in Ids |-> IF id \in batch THEN 0 ELSE score[id]]
            /\ obligations' = obligations \cup batch
      BY <1>26 DEF Cleanup
    <2>2. batch \subseteq Ids
      BY DEF Expired, TypeOK
    <2>3. score' \in [Ids -> Nat]
      BY <2>1 DEF TypeOK
    <2> QED BY <1>26, <2>1, <2>2, <2>3 DEF TypeOK, Cleanup
  <1>27. CASE Tick
    BY <1>27 DEF TypeOK, Tick
  <1>28. CASE UNCHANGED vars
    BY <1>28 DEF TypeOK, vars
  <1> QED
    BY <1>1, <1>2, <1>3, <1>4, <1>5, <1>6, <1>7, <1>8, <1>9, <1>10, <1>11, <1>12,
       <1>13, <1>14, <1>15, <1>16, <1>17, <1>18, <1>19, <1>20, <1>21, <1>22, <1>23,
       <1>24, <1>25, <1>26, <1>27, <1>28 DEF Next, Lifecycle, Lease, Handlers, Network

-----------------------------------------------------------------------------
(***************************************************************************)
(* Who owns which id, and what the commands in flight stand for.           *)
(***************************************************************************)

\* Only Redis, the clock, answers and the end of leases: ids, generations and
\* operations stay, and no command is added.
LEMMA ControlQuiet ==
  ASSUME Control, cmds' \subseteq cmds, UNCHANGED <<nextId, generation, instanceId, op>>,
         \A id \in members' \cup nodes' \cup obligations' : id <= nextId,
         \A n \in Nodes : running'[n] => running[n]
  PROVE  Control'
  <1>1. IdsAreDrawn' /\ OwnersDiffer' /\ HasId'
    BY DEF Control, IdsAreDrawn, OwnersDiffer, HasId
  <1>2. LifecycleWaits' /\ CreatesAreOwn' /\ DeregistersAreForgotten'
    BY DEF Control, LifecycleWaits, CreatesAreOwn, DeregistersAreForgotten, OfLifecycle,
           OfStart, Awaited
  <1>3. GenerationsGrow'
    BY DEF Control, GenerationsGrow, Current, Awaited
  <1> QED BY <1>1, <1>2, <1>3 DEF Control

\* A command changes its stage, and a late copy of it may remain if it failed.
LEMMA ControlRestaged ==
  ASSUME TypeOK, Control, UNCHANGED <<nextId, generation, instanceId, op, running>>,
         \A id \in members' \cup nodes' \cup obligations' : id <= nextId,
         NEW c \in cmds, c.stage \in {"sent", "granted", "denied"},
         NEW s \in Stages, s # "ghost",
         cmds' \subseteq (cmds \ {c}) \cup {At(c, s)} \cup {At(c, "ghost")},
         At(c, "ghost") \in cmds' /\ c.kind = "create" => s = "failed" \/ At(c, "ghost") \in cmds \ {c}
  PROVE  Control'
  <1> USE Literals
  <1>1. \A d \in cmds' : (d \in cmds /\ d # c) \/ d = At(c, s) \/ d = At(c, "ghost")
    OBVIOUS
  <1>2. /\ At(c, s).kind = c.kind /\ At(c, s).node = c.node /\ At(c, s).id = c.id
        /\ At(c, s).gen = c.gen /\ At(c, s).stage = s
    BY AtFields
  <1>3. /\ At(c, "ghost").kind = c.kind /\ At(c, "ghost").node = c.node
        /\ At(c, "ghost").id = c.id /\ At(c, "ghost").gen = c.gen
        /\ At(c, "ghost").stage = "ghost"
    BY AtFields
  <1>4. c.node \in Nodes /\ c.id \in Ids /\ \A d \in cmds : d.node \in Nodes /\ d.id \in Ids
    BY Fields
  <1>5. IdsAreDrawn' /\ OwnersDiffer' /\ HasId'
    BY <1>1, <1>2, <1>3 DEF Control, IdsAreDrawn, OwnersDiffer, HasId
  <1>6. LifecycleWaits'
    BY <1>1, <1>2, <1>3 DEF Control, LifecycleWaits, OfLifecycle, OfStart, Awaited
  <1>7. CreatesAreOwn'
    <2>1. ASSUME NEW d \in cmds, c.kind = "create", d.kind = "create", d.id = c.id
          PROVE  d = c /\ Awaited(d)
      <3>1. Awaited(c) /\ c.stage # "failed"
        BY DEF Awaited
      <3>2. Awaited(d)
        BY <2>1, <3>1 DEF Control, CreatesAreOwn
      <3>3. c.id = instanceId[c.node] /\ d.id = instanceId[d.node] /\ c.id # 0
        BY <2>1, <3>1, <3>2, <1>4, IdsArePositive DEF Control, LifecycleWaits, OfStart
      <3>4. c.node = d.node
        BY <2>1, <3>3, <1>4 DEF Control, OwnersDiffer
      <3> QED BY <2>1, <3>1, <3>2, <3>4 DEF Control, LifecycleWaits, OfLifecycle
    <2>2. \A d \in cmds' : \A n \in Nodes :
            d.kind = "create" /\ d.id = instanceId[n] => op[n] = "create"
      BY <1>1, <1>2, <1>3 DEF Control, CreatesAreOwn
    <2>3. ASSUME NEW d \in cmds', NEW e \in cmds', d.kind = "create", e.kind = "create",
                 d.id = e.id, Awaited(d), ~Awaited(e)
          PROVE  d.stage = "failed"
      <3>1. CASE c.kind = "create" /\ d.id = c.id
        <4>1. d = At(c, s) /\ e = At(c, "ghost")
          BY <1>1, <1>2, <1>3, <2>1, <2>3, <3>1 DEF Awaited
        <4>2. At(c, "ghost") \notin cmds \ {c}
          BY <1>3, <2>1, <3>1 DEF Awaited
        <4> QED BY <1>2, <2>3, <3>1, <4>1, <4>2
      <3>2. CASE ~(c.kind = "create" /\ d.id = c.id)
        BY <1>1, <1>2, <1>3, <2>3, <3>2 DEF Control, CreatesAreOwn
      <3> QED BY <3>1, <3>2
    <2> QED BY <2>2, <2>3 DEF CreatesAreOwn, Awaited
  <1>8. DeregistersAreForgotten'
    BY <1>1, <1>2, <1>3 DEF Control, DeregistersAreForgotten
  <1>9. GenerationsGrow'
    BY <1>1, <1>2, <1>3 DEF Control, GenerationsGrow, Current, Awaited
  <1> QED BY <1>5, <1>6, <1>7, <1>8, <1>9 DEF Control

\* A lifecycle operation that gives its id up and deregisters it.
LEMMA ControlForgets ==
  ASSUME TypeOK, Control, NEW n \in Nodes, instanceId[n] # 0, op[n] # "idle",
         NEW rest \in SUBSET cmds, \A c \in rest : OfLifecycle(c) => c.node # n,
         failStart(n, rest), UNCHANGED <<nextId, generation, members, nodes, obligations>>,
         \A m \in Nodes : running'[m] => running[m]
  PROVE  Control'
  <1> USE Literals
  <1> DEFINE new == Cmd("deregister", n, instanceId[n], 0)
  <1>1. /\ new.kind = "deregister" /\ new.node = n /\ new.id = instanceId[n]
        /\ new.gen = generation[n] /\ new.stage = "sent"
    BY SentFields DEF TypeOK
  <1> HIDE DEF new
  <1>2. \A d \in cmds' : d \in rest \/ d = new
    BY DEF failStart, new
  <1>3. /\ instanceId' \in [Nodes -> Ids \cup {0}]
        /\ \A m \in Nodes : instanceId'[m] = IF m = n THEN 0 ELSE instanceId[m]
        /\ \A m \in Nodes : op'[m] = IF m = n THEN "deregister" ELSE op[m]
    BY DEF failStart, TypeOK
  <1>4. \A d \in cmds : d.node \in Nodes /\ d.id # 0 /\ d.gen \in Nat
    BY Fields, IdsArePositive
  <1>g. generation \in [Nodes -> Nat] /\ nextId \in Nat
    BY DEF TypeOK
  <1>5. IdsAreDrawn'
    BY <1>1, <1>2, <1>3, <1>g DEF Control, IdsAreDrawn
  <1>6. OwnersDiffer' /\ HasId'
    BY <1>3 DEF Control, OwnersDiffer, HasId
  <1>7. LifecycleWaits'
    BY <1>1, <1>2, <1>3, <1>4 DEF Control, LifecycleWaits, OfLifecycle, OfStart, Awaited
  <1>8. CreatesAreOwn'
    BY <1>1, <1>2, <1>3, <1>4 DEF Control, CreatesAreOwn, Awaited
  <1>9. DeregistersAreForgotten'
    BY <1>1, <1>2, <1>3, <1>4 DEF Control, DeregistersAreForgotten, OwnersDiffer
  <1>10. GenerationsGrow'
    BY <1>1, <1>2, <1>3, <1>4, <1>g DEF Control, GenerationsGrow, Current, Awaited
  <1> QED BY <1>5, <1>6, <1>7, <1>8, <1>9, <1>10 DEF Control

\* Every step keeps the ownership of ids and the meaning of the commands.
LEMMA ControlStep == TypeOK /\ Control /\ [Next]_vars => Control'
  <1> SUFFICES ASSUME TypeOK, Control, [Next]_vars PROVE Control'
    OBVIOUS
  <1> USE Literals DEF redisVars, leaseVars, idVars, lifeVars
  <1>c. \A c \in cmds : /\ c.kind \in Kinds /\ c.node \in Nodes /\ c.id \in Ids /\ c.id # 0
                        /\ c.gen \in Nat /\ c.stage \in Stages
    BY Fields, IdsArePositive
  <1>r. \A id \in members \cup nodes \cup obligations : id <= nextId
    BY DEF Control, IdsAreDrawn
  <1>t. /\ generation \in [Nodes -> Nat] /\ nextId \in Nat /\ op \in [Nodes -> Steps]
        /\ instanceId \in [Nodes -> Ids \cup {0}]
        /\ members \cup nodes \cup obligations \subseteq Nat
    BY IdsArePositive DEF TypeOK
  <1>f. ASSUME NEW n \in Nodes, fenceLeaseLoss(n)
        PROVE  \A m \in Nodes : running'[m] => running[m]
    BY <1>f DEF fenceLeaseLoss, TypeOK
  <1>e. ASSUME NEW c \in cmds, Executes(c)
        PROVE  \A id \in members' \cup nodes' \cup obligations' : id <= nextId
    BY <1>e, <1>r DEF Executes, MembersAfter, NodesAfter, Control, IdsAreDrawn
  <1>1. ASSUME NEW n \in Nodes, start(n) PROVE Control'
    BY <1>1, <1>r, ControlQuiet DEF start
  <1>2. ASSUME NEW n \in Nodes, stop(n) PROVE Control'
    <2>1. \A m \in Nodes : running'[m] => running[m]
      BY <1>2 DEF stop, TypeOK
    <2> QED BY <1>2, <1>r, <2>1, ControlQuiet DEF stop
  <1>3. ASSUME NEW n \in Nodes, StartBegins(n) PROVE Control'
    <2>1. CASE running[n]
      BY <1>3, <1>r, <2>1, ControlQuiet DEF StartBegins
    <2>2. CASE ~running[n]
      <3>1. /\ generation' = [generation EXCEPT ![n] = generation[n] + 1]
            /\ op' = [op EXCEPT ![n] = "incr"] /\ op[n] = "idle"
            /\ UNCHANGED <<cmds, instanceId, running, nextId, members, nodes, obligations>>
        BY <1>3, <2>2, Zenon DEF StartBegins
      <3>2. IdsAreDrawn' /\ OwnersDiffer' /\ HasId' /\ CreatesAreOwn' /\ DeregistersAreForgotten'
        BY <2>2, <3>1, <1>t DEF Control, IdsAreDrawn, OwnersDiffer, HasId, CreatesAreOwn,
             DeregistersAreForgotten, Awaited
      <3>3. LifecycleWaits'
        BY <3>1, <1>c, <1>t DEF Control, LifecycleWaits, OfLifecycle, OfStart, Awaited
      <3>4. GenerationsGrow'
        BY <3>1, <1>c, <1>t DEF Control, GenerationsGrow, Current, Awaited
      <3> QED BY <3>2, <3>3, <3>4 DEF Control
    <2> QED BY <2>1, <2>2
  <1>4. ASSUME NEW n \in Nodes, IncrReplies(n) PROVE Control'
    <2>1. /\ nextId' = nextId + 1 /\ op[n] = "incr"
          /\ \A m \in Nodes : instanceId'[m] = IF m = n THEN nextId + 1 ELSE instanceId[m]
          /\ \A m \in Nodes : op'[m] = IF m = n THEN "subscribe" ELSE op[m]
          /\ UNCHANGED <<cmds, generation, running, members, nodes, obligations>>
      BY <1>4, <1>t DEF IncrReplies
    <2>2. \A m \in Nodes : instanceId[m] \in Nat /\ instanceId[m] <= nextId
      BY <1>t, IdsArePositive DEF Control, IdsAreDrawn
    <2>3. \A c \in cmds : c.id \in Nat /\ c.id <= nextId
      BY <1>c, IdsArePositive DEF Control, IdsAreDrawn
    <2>4. IdsAreDrawn' /\ OwnersDiffer' /\ HasId'
      BY <1>t, <2>1, <2>2, <2>3 DEF Control, IdsAreDrawn, OwnersDiffer, HasId
    <2>5. LifecycleWaits'
      BY <1>c, <1>t, <2>1 DEF Control, LifecycleWaits, OfLifecycle, OfStart, Awaited
    <2>6. CreatesAreOwn' /\ DeregistersAreForgotten'
      BY <1>c, <1>t, <2>1, <2>2, <2>3 DEF Control, CreatesAreOwn, DeregistersAreForgotten, Awaited
    <2>7. GenerationsGrow'
      BY <1>c, <1>t, <2>1 DEF Control, GenerationsGrow, Current, Awaited
    <2> QED BY <2>4, <2>5, <2>6, <2>7 DEF Control
  <1>5. ASSUME NEW n \in Nodes, IncrRejects(n) PROVE Control'
    <2>1. /\ nextId' \in {nextId, nextId + 1} /\ op[n] = "incr"
          /\ \A m \in Nodes : op'[m] = IF m = n THEN "idle" ELSE op[m]
          /\ UNCHANGED <<cmds, generation, instanceId, running, members, nodes, obligations>>
      BY <1>5, <1>t DEF IncrRejects
    <2>2. nextId <= nextId' /\ nextId' \in Nat
      BY <2>1, <1>t
    <2>3. IdsAreDrawn'
      <3>1. /\ \A m \in Nodes : instanceId[m] \in Nat
            /\ \A c \in cmds : c.id \in Nat
        BY <1>c, <1>t, IdsArePositive
      <3> QED BY <1>t, <2>1, <2>2, <3>1 DEF Control, IdsAreDrawn
    <2>4. OwnersDiffer' /\ HasId' /\ DeregistersAreForgotten'
      BY <1>t, <2>1 DEF Control, OwnersDiffer, HasId, DeregistersAreForgotten
    <2>5. LifecycleWaits'
      BY <1>c, <1>t, <2>1 DEF Control, LifecycleWaits, OfLifecycle, OfStart, Awaited
    <2>6. CreatesAreOwn' /\ GenerationsGrow'
      BY <1>c, <1>t, <2>1 DEF Control, CreatesAreOwn, GenerationsGrow, Current, Awaited
    <2> QED BY <2>3, <2>4, <2>5, <2>6 DEF Control
  <1>6. ASSUME NEW n \in Nodes, Subscribed(n) PROVE Control'
    <2> DEFINE new == Cmd("create", n, instanceId[n], now)
    <2>1. op[n] = "subscribe" /\ instanceId[n] \in Ids /\ instanceId[n] # 0 /\ now \in Nat
      BY <1>6 DEF Subscribed, Control, HasId, TypeOK
    <2>2. /\ new.kind = "create" /\ new.node = n /\ new.id = instanceId[n]
          /\ new.gen = generation[n] /\ new.stage = "sent"
      BY <2>1, SentFields
    <2>3. cmds' = cmds \cup {new}
      BY <1>6 DEF Subscribed
    <2> HIDE DEF new
    <2>4. /\ \A m \in Nodes : op'[m] = IF m = n THEN "create" ELSE op[m]
          /\ UNCHANGED <<nextId, generation, instanceId, running, members, nodes, obligations>>
      BY <1>6, <1>t DEF Subscribed
    <2>5. IdsAreDrawn' /\ OwnersDiffer' /\ HasId'
      BY <2>1, <2>2, <2>3, <2>4 DEF Control, IdsAreDrawn, OwnersDiffer, HasId
    <2>6. LifecycleWaits'
      BY <1>c, <2>1, <2>2, <2>3, <2>4 DEF Control, LifecycleWaits, OfLifecycle, OfStart, Awaited
    <2>7. CreatesAreOwn'
      BY <1>c, <2>1, <2>2, <2>3, <2>4 DEF Control, CreatesAreOwn, OwnersDiffer, Awaited
    <2>8. DeregistersAreForgotten' /\ GenerationsGrow'
      BY <1>c, <1>t, <2>1, <2>2, <2>3, <2>4
         DEF Control, DeregistersAreForgotten, GenerationsGrow, Current, Awaited
    <2> QED BY <2>5, <2>6, <2>7, <2>8 DEF Control
  <1>7. ASSUME NEW n \in Nodes, SubscribeRejects(n) PROVE Control'
    <2>1. op[n] = "subscribe" /\ instanceId[n] # 0
      BY <1>7 DEF SubscribeRejects, Control, HasId
    <2>2. \A c \in cmds : OfLifecycle(c) => c.node # n
      BY <2>1 DEF Control, LifecycleWaits, OfLifecycle
    <2> QED BY <1>7, <2>1, <2>2, ControlForgets DEF SubscribeRejects
  <1>8. ASSUME NEW n \in Nodes, StopBegins(n) PROVE Control'
    <2>1. /\ \A m \in Nodes : generation'[m] = IF m = n THEN generation[n] + 1 ELSE generation[m]
          /\ \A m \in Nodes : op'[m] = IF m = n THEN "leaving" ELSE op[m]
          /\ op[n] = "idle" /\ ~running'[n] /\ \A m \in Nodes : running'[m] => running[m]
          /\ UNCHANGED <<cmds, instanceId, nextId, members, nodes, obligations>>
      BY <1>8, <1>t DEF StopBegins, TypeOK
    <2>2. IdsAreDrawn' /\ OwnersDiffer' /\ DeregistersAreForgotten'
      BY <2>1 DEF Control, IdsAreDrawn, OwnersDiffer, DeregistersAreForgotten
    <2>3. HasId' /\ CreatesAreOwn'
      BY <2>1, <1>t DEF Control, HasId, CreatesAreOwn, Awaited
    <2>4. LifecycleWaits'
      BY <2>1, <1>c, <1>t DEF Control, LifecycleWaits, OfLifecycle, OfStart, Awaited
    <2>5. GenerationsGrow'
      BY <2>1, <1>c, <1>t DEF Control, GenerationsGrow, Current, Awaited
    <2> QED BY <2>2, <2>3, <2>4, <2>5 DEF Control
  <1>9. ASSUME NEW n \in Nodes, StopLeaves(n) PROVE Control'
    <2>1. op[n] = "leaving" /\ UNCHANGED <<nextId, generation, members, nodes, obligations, running>>
      BY <1>9 DEF StopLeaves
    <2>2. \A c \in cmds : OfLifecycle(c) => c.node # n
      BY <2>1 DEF Control, LifecycleWaits, OfLifecycle
    <2>3. CASE instanceId[n] # 0
      BY <1>9, <2>1, <2>2, <2>3, ControlForgets DEF StopLeaves
    <2>4. CASE instanceId[n] = 0
      <3>1. /\ \A m \in Nodes : op'[m] = IF m = n THEN "idle" ELSE op[m]
            /\ UNCHANGED <<cmds, instanceId>>
        BY <1>9, <1>t, <2>4 DEF StopLeaves
      <3>2. IdsAreDrawn' /\ OwnersDiffer' /\ DeregistersAreForgotten'
        BY <2>1, <3>1 DEF Control, IdsAreDrawn, OwnersDiffer, DeregistersAreForgotten
      <3>3. HasId' /\ CreatesAreOwn'
        BY <1>c, <2>1, <2>4, <3>1 DEF Control, HasId, CreatesAreOwn, Awaited
      <3>4. LifecycleWaits'
        BY <1>c, <2>1, <2>2, <3>1 DEF Control, LifecycleWaits, OfLifecycle, OfStart, Awaited
      <3>5. GenerationsGrow'
        BY <1>c, <2>1, <3>1 DEF Control, GenerationsGrow, Current, Awaited
      <3> QED BY <3>2, <3>3, <3>4, <3>5 DEF Control
    <2> QED BY <2>3, <2>4
  <1>10. ASSUME NEW n \in Nodes, doHeartbeat(n) PROVE Control'
    <2> DEFINE new == Cmd("renew", n, instanceId[n], now)
    <2>1. running[n] /\ op[n] = "idle" /\ instanceId[n] \in Ids /\ now \in Nat
      BY <1>10 DEF doHeartbeat, Control, HasId, TypeOK
    <2>2. /\ new.kind = "renew" /\ new.node = n /\ new.id = instanceId[n]
          /\ new.gen = generation[n] /\ new.stage = "sent"
      BY <2>1, SentFields
    <2>3. cmds' = cmds \cup {new}
      BY <1>10 DEF doHeartbeat
    <2> HIDE DEF new
    <2>4. UNCHANGED <<nextId, generation, instanceId, op, running, members, nodes, obligations>>
      BY <1>10 DEF doHeartbeat
    <2>5. IdsAreDrawn' /\ OwnersDiffer' /\ HasId'
      BY <2>2, <2>3, <2>4 DEF Control, IdsAreDrawn, OwnersDiffer, HasId
    <2>6. LifecycleWaits' /\ CreatesAreOwn' /\ DeregistersAreForgotten'
      BY <2>2, <2>3, <2>4 DEF Control, LifecycleWaits, CreatesAreOwn, DeregistersAreForgotten,
           OfLifecycle, OfStart, Awaited
    <2>7. GenerationsGrow'
      BY <1>t, <2>1, <2>2, <2>3, <2>4 DEF Control, GenerationsGrow, Current, Awaited
    <2> QED BY <2>5, <2>6, <2>7 DEF Control
  <1>11. ASSUME NEW n \in Nodes, updateNodeMetadata(n) PROVE Control'
    <2> DEFINE new == Cmd("update", n, instanceId[n], 0)
    <2>1. running[n] /\ instanceId[n] \in Ids
      BY <1>11 DEF updateNodeMetadata, LeaseSafe, Control, HasId, TypeOK
    <2>2. /\ new.kind = "update" /\ new.node = n /\ new.id = instanceId[n]
          /\ new.gen = generation[n] /\ new.stage = "sent"
      BY <2>1, SentFields
    <2>3. cmds' = cmds \cup {new}
      BY <1>11 DEF updateNodeMetadata
    <2> HIDE DEF new
    <2>4. UNCHANGED <<nextId, generation, instanceId, op, running, members, nodes, obligations>>
      BY <1>11 DEF updateNodeMetadata
    <2>5. IdsAreDrawn' /\ OwnersDiffer' /\ HasId'
      BY <2>2, <2>3, <2>4 DEF Control, IdsAreDrawn, OwnersDiffer, HasId
    <2>6. LifecycleWaits' /\ CreatesAreOwn' /\ DeregistersAreForgotten'
      BY <2>2, <2>3, <2>4 DEF Control, LifecycleWaits, CreatesAreOwn, DeregistersAreForgotten,
           OfLifecycle, OfStart, Awaited
    <2>7. GenerationsGrow'
      BY <1>t, <2>2, <2>3, <2>4 DEF Control, GenerationsGrow, Current, Awaited
    <2> QED BY <2>5, <2>6, <2>7 DEF Control
  <1>12. ASSUME NEW n \in Nodes, SafetyTimerFires(n) PROVE Control'
    <2>1. \A m \in Nodes : running'[m] => running[m]
      BY <1>12, <1>f DEF SafetyTimerFires
    <2> QED BY <1>12, <1>r, <2>1, ControlQuiet DEF SafetyTimerFires
  <1>13. ASSUME NEW n \in Nodes, assertLeaseSafe(n) PROVE Control'
    BY <1>13, <1>f, <1>r, ControlQuiet DEF assertLeaseSafe
  <1>14. ASSUME NEW n \in Nodes, fence(n) PROVE Control'
    BY <1>14, <1>f, <1>r, ControlQuiet DEF fence
  <1>15. ASSUME NEW n \in Nodes, Crash(n) PROVE Control'
    <2>1. /\ \A m \in Nodes : instanceId'[m] = IF m = n THEN 0 ELSE instanceId[m]
          /\ \A m \in Nodes : generation'[m] = IF m = n THEN 0 ELSE generation[m]
          /\ \A m \in Nodes : op'[m] = IF m = n THEN "idle" ELSE op[m]
          /\ ~running'[n] /\ \A m \in Nodes : running'[m] => running[m]
          /\ UNCHANGED <<nextId, members, nodes, obligations>>
      BY <1>15, <1>t DEF Crash, TypeOK
    <2>2. ASSUME NEW d \in cmds'
          PROVE  \/ d \in cmds /\ (d.node # n \/ d.stage = "ghost")
                 \/ /\ d.stage = "ghost"
                    /\ \E c \in cmds : /\ c.node = n /\ c.stage = "sent" /\ d.node = n
                                       /\ d.kind = c.kind /\ d.id = c.id
      <3>1. CASE d \in cmds /\ (d.node # n \/ d.stage = "ghost")
        BY <3>1
      <3>2. CASE ~(d \in cmds /\ (d.node # n \/ d.stage = "ghost"))
        <4>1. PICK c \in cmds : c.node = n /\ c.stage = "sent" /\ d = At(c, "ghost")
          BY <1>15, <2>2, <3>2 DEF Crash
        <4> QED BY <4>1, AtFields
      <3> QED BY <3>1, <3>2
    <2>3. IdsAreDrawn' /\ OwnersDiffer' /\ HasId'
      BY <1>t, <2>1, <2>2 DEF Control, IdsAreDrawn, OwnersDiffer, HasId
    <2>4. LifecycleWaits'
      BY <1>c, <2>1, <2>2 DEF Control, LifecycleWaits, OfLifecycle, OfStart, Awaited
    <2>5. CreatesAreOwn'
      <3>1. ASSUME NEW c \in cmds, NEW d \in cmds, c.kind = "create", d.kind = "create",
                   c.id = d.id, d.node = n, d.stage = "sent", c.node # n
            PROVE  ~Awaited(c)
        <4>1. d.id = instanceId[n]
          BY <3>1 DEF Control, LifecycleWaits, OfStart, Awaited
        <4>2. Awaited(c) => c.id = instanceId[c.node]
          BY <3>1 DEF Control, LifecycleWaits, OfStart
        <4> QED BY <1>c, <3>1, <4>1, <4>2 DEF Control, OwnersDiffer
      <3>2. \A d \in cmds' : \A m \in Nodes :
              d.kind = "create" /\ d.id = instanceId'[m] => op'[m] = "create"
        BY <1>c, <2>1, <2>2 DEF Control, CreatesAreOwn
      <3>3. \A c, d \in cmds' :
              c.kind = "create" /\ d.kind = "create" /\ c.id = d.id
                /\ c.stage # "ghost" /\ d.stage = "ghost" => c.stage = "failed"
        BY <2>2, <3>1 DEF Control, CreatesAreOwn, Awaited
      <3> QED BY <3>2, <3>3 DEF CreatesAreOwn, Awaited
    <2>6. DeregistersAreForgotten'
      BY <1>c, <2>1, <2>2 DEF Control, DeregistersAreForgotten
    <2>7. GenerationsGrow'
      BY <1>c, <2>1, <2>2 DEF Control, GenerationsGrow, Current, Awaited
    <2> QED BY <2>3, <2>4, <2>5, <2>6, <2>7 DEF Control
  <1>o. ASSUME NEW c \in cmds, OfLifecycle(c)
        PROVE  /\ op[c.node] = c.kind
               /\ \A d \in cmds \ {c} : OfLifecycle(d) => d.node # c.node
    BY <1>o DEF Control, LifecycleWaits
  <1>16. ASSUME NEW c \in cmds, CreateReply(c) PROVE Control'
    <2>1. OfLifecycle(c) /\ c.kind = "create" /\ op[c.node] = "create" /\ c.id = instanceId[c.node]
      BY <1>16, <1>o DEF CreateReply, OfLifecycle, OfStart, Awaited, Control, LifecycleWaits
    <2>u. UNCHANGED <<nextId, generation, members, nodes, obligations, running>>
      BY <1>16 DEF CreateReply
    <2>2. CASE c.stage = "granted"
      <3> DEFINE new == Cmd("register", c.node, c.id, c.at)
      <3>1. /\ new.kind = "register" /\ new.node = c.node /\ new.id = c.id
            /\ new.gen = generation[c.node] /\ new.stage = "sent"
        BY SentFields, Fields
      <3>2. /\ cmds' = (cmds \ {c}) \cup {new} /\ UNCHANGED instanceId
            /\ op' = [op EXCEPT ![c.node] = "register"]
        BY <1>16, <2>2 DEF CreateReply
      <3> HIDE DEF new
      <3>3. \A d \in cmds' : d = new \/ (d \in cmds /\ d # c)
        BY <3>2
      <3>4. \A m \in Nodes : op'[m] = IF m = c.node THEN "register" ELSE op[m]
        BY <3>2, <1>t
      <3>5. IdsAreDrawn' /\ OwnersDiffer' /\ HasId'
        BY <1>c, <2>1, <2>u, <3>1, <3>2, <3>3, <3>4 DEF Control, IdsAreDrawn, OwnersDiffer, HasId
      <3>6. LifecycleWaits'
        BY <1>c, <1>o, <2>1, <3>1, <3>2, <3>3, <3>4
           DEF Control, LifecycleWaits, OfLifecycle, OfStart, Awaited
      <3>7. CreatesAreOwn'
        <4>1. \A d \in cmds : d.kind = "create" /\ d.id = c.id => d = c
          <5>1. ASSUME NEW d \in cmds, d.kind = "create", d.id = c.id PROVE d = c
            <6>1. Awaited(d)
              BY <2>1, <2>2, <5>1 DEF Control, CreatesAreOwn, OfLifecycle
            <6>2. d.id = instanceId[d.node]
              BY <5>1, <6>1 DEF Control, LifecycleWaits, OfStart
            <6>3. d.node = c.node
              BY <1>c, <2>1, <5>1, <6>2 DEF Control, OwnersDiffer
            <6> QED BY <1>o, <2>1, <5>1, <6>1, <6>3 DEF OfLifecycle
          <5> QED BY <5>1
        <4> QED BY <2>1, <3>1, <3>2, <3>3, <3>4, <4>1 DEF Control, CreatesAreOwn, Awaited
      <3>8. DeregistersAreForgotten'
        BY <3>1, <3>2, <3>3 DEF Control, DeregistersAreForgotten
      <3>9. GenerationsGrow'
        BY <1>c, <1>t, <2>1, <2>u, <3>1, <3>2, <3>3, <3>4 DEF Control, GenerationsGrow, Current, Awaited
      <3> QED BY <3>5, <3>6, <3>7, <3>8, <3>9 DEF Control
    <2>3. CASE c.stage # "granted"
      <3>1. failStart(c.node, cmds \ {c})
        BY <1>16, <2>3 DEF CreateReply
      <3>2. instanceId[c.node] # 0
        BY <1>c, <2>1
      <3> QED BY <1>c, <1>o, <2>1, <2>u, <3>1, <3>2, ControlForgets
    <2> QED BY <2>2, <2>3
  <1>17. ASSUME NEW c \in cmds, RegisterReply(c) PROVE Control'
    <2>1. OfLifecycle(c) /\ c.kind = "register" /\ op[c.node] = "register" /\ c.id = instanceId[c.node]
      BY <1>17, <1>o DEF RegisterReply, OfLifecycle, OfStart, Awaited, Control, LifecycleWaits
    <2>u. UNCHANGED <<nextId, generation, members, nodes, obligations>>
      BY <1>17 DEF RegisterReply
    <2>2. CASE c.stage = "granted" /\ now < c.at + TTL
      <3>1. /\ cmds' = cmds \ {c} /\ UNCHANGED instanceId
            /\ \A m \in Nodes : op'[m] = IF m = c.node THEN "idle" ELSE op[m]
            /\ \A m \in Nodes : m # c.node => running'[m] = running[m]
        BY <1>17, <1>t, <2>2 DEF RegisterReply, TypeOK
      <3>2. IdsAreDrawn' /\ OwnersDiffer' /\ HasId'
        BY <1>c, <2>1, <2>u, <3>1 DEF Control, IdsAreDrawn, OwnersDiffer, HasId
      <3>3. LifecycleWaits'
        BY <1>c, <1>o, <2>1, <3>1 DEF Control, LifecycleWaits, OfLifecycle, OfStart, Awaited
      <3>4. CreatesAreOwn' /\ DeregistersAreForgotten'
        BY <1>c, <2>1, <3>1 DEF Control, CreatesAreOwn, DeregistersAreForgotten, Awaited
      <3>5. GenerationsGrow'
        BY <1>c, <2>1, <2>u, <3>1 DEF Control, GenerationsGrow, Current, Awaited
      <3> QED BY <3>2, <3>3, <3>4, <3>5 DEF Control
    <2>3. CASE ~(c.stage = "granted" /\ now < c.at + TTL)
      <3>1. failStart(c.node, cmds \ {c}) /\ UNCHANGED running
        BY <1>17, <2>3 DEF RegisterReply
      <3>2. instanceId[c.node] # 0
        BY <1>c, <2>1
      <3> QED BY <1>c, <1>o, <2>1, <2>u, <3>1, <3>2, ControlForgets
    <2> QED BY <2>2, <2>3
  <1>18. ASSUME NEW c \in cmds, DeregisterReply(c) PROVE Control'
    <2>1. OfLifecycle(c) /\ c.kind = "deregister" /\ op[c.node] = "deregister"
      BY <1>18, <1>o DEF DeregisterReply, OfLifecycle, Awaited
    <2>2. /\ cmds' = cmds \ {c}
          /\ \A m \in Nodes : op'[m] = IF m = c.node THEN "idle" ELSE op[m]
          /\ UNCHANGED <<nextId, generation, instanceId, members, nodes, obligations, running>>
      BY <1>18, <1>t DEF DeregisterReply
    <2>3. IdsAreDrawn' /\ OwnersDiffer' /\ HasId'
      BY <1>c, <2>1, <2>2 DEF Control, IdsAreDrawn, OwnersDiffer, HasId
    <2>4. LifecycleWaits'
      BY <1>c, <1>o, <2>1, <2>2 DEF Control, LifecycleWaits, OfLifecycle, OfStart, Awaited
    <2>5. CreatesAreOwn' /\ DeregistersAreForgotten'
      BY <1>c, <2>1, <2>2 DEF Control, CreatesAreOwn, DeregistersAreForgotten, Awaited
    <2>6. GenerationsGrow'
      BY <1>c, <2>1, <2>2 DEF Control, GenerationsGrow, Current, Awaited
    <2> QED BY <2>3, <2>4, <2>5, <2>6 DEF Control
  <1>19. ASSUME NEW c \in cmds, HeartbeatReply(c) PROVE Control'
    <2>1. \A m \in Nodes : running'[m] => running[m]
      BY <1>19, <1>c, <1>f DEF HeartbeatReply
    <2> QED BY <1>19, <1>r, <2>1, ControlQuiet DEF HeartbeatReply
  <1>20. ASSUME NEW c \in cmds, UpdateReply(c) PROVE Control'
    <2>1. \A m \in Nodes : running'[m] => running[m]
      BY <1>20, <1>c, <1>f DEF UpdateReply
    <2> QED BY <1>20, <1>r, <2>1, ControlQuiet DEF UpdateReply
  <1>21. ASSUME NEW c \in cmds, RedisExecutes(c) PROVE Control'
    <2>1. Result(c) \in {"granted", "denied"}
      BY ScriptType
    <2>2. /\ cmds' = (cmds \ {c}) \cup {At(c, Result(c))} /\ c.stage = "sent"
          /\ UNCHANGED <<nextId, generation, instanceId, op, running>>
      BY <1>21 DEF RedisExecutes, Executes
    <2>3. \A id \in members' \cup nodes' \cup obligations' : id <= nextId
      BY <1>21, <1>e DEF RedisExecutes
    <2>4. At(c, "ghost") \in cmds' => At(c, "ghost") \in cmds \ {c}
      BY <2>1, <2>2, AtFields
    <2> QED BY <2>1, <2>2, <2>3, <2>4, ControlRestaged
  <1>22. ASSUME NEW c \in cmds, CallRejects(c) PROVE Control'
    <2>1. /\ cmds' \subseteq (cmds \ {c}) \cup {At(c, "failed")} \cup {At(c, "ghost")}
          /\ c.stage \in {"sent", "granted", "denied"}
          /\ UNCHANGED <<nextId, generation, instanceId, op, running, members, nodes, obligations>>
      BY <1>22 DEF CallRejects
    <2> QED BY <1>r, <2>1, ControlRestaged
  <1>23. ASSUME NEW c \in cmds, Resent(c) PROVE Control'
    <2>1. /\ cmds' = (cmds \ {c}) \cup {At(c, "sent")} /\ c.stage \in {"sent", "granted", "denied"}
          /\ UNCHANGED <<nextId, generation, instanceId, op, running, members, nodes, obligations>>
      BY <1>23 DEF Resent
    <2>2. At(c, "ghost") \in cmds' => At(c, "ghost") \in cmds \ {c}
      BY <2>1, AtFields
    <2> QED BY <1>r, <2>1, <2>2, ControlRestaged
  <1>24. ASSUME NEW c \in cmds, GhostExecutes(c) PROVE Control'
    BY <1>24, <1>e, ControlQuiet DEF GhostExecutes, Executes
  <1>25. ASSUME NEW c \in cmds, GhostVanishes(c) PROVE Control'
    BY <1>25, <1>r, ControlQuiet DEF GhostVanishes
  <1>26. CASE Cleanup
    <2>1. \A id \in members' \cup nodes' \cup obligations' : id \in members \cup nodes \cup obligations
      BY <1>26 DEF Cleanup, Expired
    <2> QED BY <1>26, <1>r, <2>1, ControlQuiet DEF Cleanup
  <1>27. CASE Tick
    BY <1>27, <1>r, ControlQuiet DEF Tick
  <1>28. CASE UNCHANGED vars
    BY <1>28, <1>r, ControlQuiet DEF vars
  <1> QED
    BY <1>1, <1>2, <1>3, <1>4, <1>5, <1>6, <1>7, <1>8, <1>9, <1>10, <1>11, <1>12,
       <1>13, <1>14, <1>15, <1>16, <1>17, <1>18, <1>19, <1>20, <1>21, <1>22, <1>23,
       <1>24, <1>25, <1>26, <1>27, <1>28 DEF Next, Lifecycle, Lease, Handlers, Network

-----------------------------------------------------------------------------
(***************************************************************************)
(* What a lease says about Redis.                                          *)
(***************************************************************************)

\* A step that leaves Redis and the clock alone keeps every lease, if it starts
\* and renews none: what waits was waiting before, at most in a weaker stage.
LEMMA LeaseKept ==
  ASSUME LeaseInv, UNCHANGED <<now, members, score, nodes, obligations>>,
         \A c \in cmds' : c.at <= now,
         \A c \in cmds' : OfStart(c) =>
           \E d \in cmds : /\ OfStart(d) /\ d.kind = c.kind /\ d.id = c.id /\ d.at = c.at
                           /\ c.stage = "granted" => d.stage = "granted",
         \A c \in cmds' : Current(c)' /\ c.stage = "granted" => c \in cmds /\ Current(c),
         \A n \in Nodes : op'[n] = "subscribe" => op[n] = "subscribe" /\ instanceId'[n] = instanceId[n],
         \A n \in Nodes : running'[n] =>
           running[n] /\ instanceId'[n] = instanceId[n] /\ leaseSafeUntil'[n] = leaseSafeUntil[n]
  PROVE  LeaseInv'
  <1>1. TimesArePast' /\ NewIdsAreFresh' /\ MetadataHasHeartbeat'
    BY DEF LeaseInv, TimesArePast, NewIdsAreFresh, MetadataHasHeartbeat
  <1>2. StartsHold'
    <2>1. ASSUME NEW c \in cmds', OfStart(c)
          PROVE  /\ c.id \in members => score[c.id] >= c.at
                 /\ c.id \in obligations => Over(c)
                 /\ c.kind = "register" \/ c.stage = "granted" => Over(c) \/ c.id \in members
                 /\ c.kind = "register" /\ c.stage = "granted" => Over(c) \/ c.id \in nodes
      <3>1. PICK d \in cmds : /\ OfStart(d) /\ d.kind = c.kind /\ d.id = c.id /\ d.at = c.at
                              /\ c.stage = "granted" => d.stage = "granted"
        BY <2>1
      <3> QED BY <3>1 DEF LeaseInv, StartsHold, Over
    <2> QED BY <2>1 DEF StartsHold, OfStart, Awaited, Over
  <1>3. RenewalsHold'
    BY DEF LeaseInv, RenewalsHold, Over
  <1>4. LeasesHold'
    BY DEF LeaseInv, LeasesHold
  <1> QED BY <1>1, <1>2, <1>3, <1>4 DEF LeaseInv

\* What a script does to an id in use: it takes nothing from it, and brings it
\* back only by a HEARTBEAT create that its owner waits for.
LEMMA ScriptOnOwned ==
  ASSUME TypeOK, Control, LeaseInv, NEW c \in cmds, Executes(c)
  PROVE  /\ \A id \in Ids : score'[id] <= now /\ score'[id] \in Nat
         /\ \A n \in Nodes :
              /\ instanceId[n] \in members =>
                   instanceId[n] \in members' /\ score'[instanceId[n]] >= score[instanceId[n]]
              /\ instanceId[n] \in nodes => instanceId[n] \in nodes'
              /\ instanceId[n] \in members' /\ instanceId[n] \notin members =>
                   op[n] = "create" /\ c.id = instanceId[n] /\ score'[instanceId[n]] = now
         /\ MetadataHasHeartbeat'
         /\ c.kind = "create" => c.id \in members'
         /\ c.kind = "renew" /\ Result(c) = "granted" => c.id \in members' /\ score'[c.id] = now
         /\ c.kind = "register" /\ Result(c) = "granted" => c.id \in nodes'
         /\ UNCHANGED obligations
  <1>1. /\ c.kind \in Kinds /\ c.id \in Ids /\ now \in Nat /\ score \in [Ids -> Nat]
        /\ members \subseteq Ids /\ nodes \subseteq members
    BY Fields DEF TypeOK, LeaseInv, MetadataHasHeartbeat
  <1>2. members' = MembersAfter(c) /\ score' = ScoreAfter(c) /\ nodes' = NodesAfter(c) /\ UNCHANGED obligations
    BY DEF Executes
  <1>3. \A id \in Ids : score[id] <= now
    BY DEF LeaseInv, TimesArePast
  <1>4. \A id \in Ids : score'[id] <= now /\ score'[id] \in Nat
    BY <1>1, <1>2, <1>3 DEF ScoreAfter
  <1>5. ASSUME NEW n \in Nodes
        PROVE  /\ instanceId[n] \in members =>
                    instanceId[n] \in members' /\ score'[instanceId[n]] >= score[instanceId[n]]
               /\ instanceId[n] \in nodes => instanceId[n] \in nodes'
               /\ instanceId[n] \in members' /\ instanceId[n] \notin members =>
                    op[n] = "create" /\ c.id = instanceId[n] /\ score'[instanceId[n]] = now
    <2>1. c.kind = "deregister" => c.id # instanceId[n]
      BY DEF Control, DeregistersAreForgotten
    <2>2. c.kind = "create" /\ c.id = instanceId[n] => op[n] = "create"
      BY DEF Control, CreatesAreOwn
    <2> QED BY <1>1, <1>2, <1>3, <2>1, <2>2 DEF MembersAfter, ScoreAfter, NodesAfter
  <1>6. MetadataHasHeartbeat'
    BY <1>1, <1>2 DEF MetadataHasHeartbeat, MembersAfter, NodesAfter, Active
  <1>7. /\ c.kind = "create" => c.id \in members'
        /\ c.kind = "renew" /\ Result(c) = "granted" => c.id \in members' /\ score'[c.id] = now
        /\ c.kind = "register" /\ Result(c) = "granted" => c.id \in nodes'
    BY <1>1, <1>2 DEF MembersAfter, ScoreAfter, NodesAfter, Result, Active
  <1> QED BY <1>2, <1>4, <1>5, <1>6, <1>7

\* A script, awaited or late, keeps every lease.
LEMMA LeaseExecuted ==
  ASSUME TypeOK, Control, LeaseInv, NEW c \in cmds, Executes(c),
         UNCHANGED <<now, generation, instanceId, op, running, leaseSafeUntil>>,
         \A d \in cmds' : d \in cmds \/ (Awaited(c) /\ d = At(c, Result(c)))
  PROVE  LeaseInv'
  <1>s. Result(c) \in {"granted", "denied"} /\ Result(c) \in Stages
    BY ScriptType
  <1> DEFINE done == At(c, Result(c))
  <1>a. /\ done.kind = c.kind /\ done.node = c.node /\ done.id = c.id
        /\ done.gen = c.gen /\ done.at = c.at /\ done.stage = Result(c)
    BY <1>s, AtFields
  <1>b. \A d \in cmds' : d \in cmds \/ (Awaited(c) /\ d = done)
    OBVIOUS
  <1> HIDE DEF done
  <1>c. \A d \in cmds : d.node \in Nodes /\ d.at \in Nat /\ d.id \in Ids
    BY Fields
  <1>t. now \in Nat /\ TTL \in Nat /\ score \in [Ids -> Nat] /\ leaseSafeUntil \in [Nodes -> Nat]
        /\ members \subseteq Ids /\ instanceId \in [Nodes -> Ids \cup {0}]
    BY MeshAssumption DEF TypeOK
  <1>1. TimesArePast'
    BY <1>a, <1>b, ScriptOnOwned DEF LeaseInv, TimesArePast
  <1>2. NewIdsAreFresh'
    BY ScriptOnOwned DEF LeaseInv, NewIdsAreFresh
  <1>3. StartsHold'
    <2>1. ASSUME NEW d \in cmds', OfStart(d)
          PROVE  /\ d.id \in members' => score'[d.id] >= d.at
                 /\ d.id \in obligations' => Over(d)
                 /\ d.kind = "register" \/ d.stage = "granted" => Over(d) \/ d.id \in members'
                 /\ d.kind = "register" /\ d.stage = "granted" => Over(d) \/ d.id \in nodes'
      <3>1. PICK e \in cmds : /\ OfStart(e) /\ e.kind = d.kind /\ e.id = d.id /\ e.at = d.at
                              /\ e.node = d.node /\ (e = d \/ (e = c /\ d = done))
        BY <1>a, <1>b, <2>1 DEF OfStart
      <3>2. e.id = instanceId[e.node] /\ e.node \in Nodes /\ e.at \in Nat /\ e.id \in Ids /\ e.at <= now
        BY <1>c, <3>1 DEF Control, LifecycleWaits, LeaseInv, TimesArePast
      <3>3. /\ e.id \in members => score[e.id] >= e.at
            /\ e.id \in obligations => Over(e)
            /\ e.kind = "register" \/ e.stage = "granted" => Over(e) \/ e.id \in members
            /\ e.kind = "register" /\ e.stage = "granted" => Over(e) \/ e.id \in nodes
        BY <3>1 DEF LeaseInv, StartsHold
      <3>4. Over(d) = Over(e)
        BY <3>1 DEF Over
      <3>5. d.id \in members' => score'[d.id] >= d.at
        BY <1>t, <3>1, <3>2, <3>3, ScriptOnOwned
      <3>6. d.id \in obligations' => Over(d)
        BY <3>1, <3>3, <3>4, ScriptOnOwned
      <3>7. d.kind = "register" \/ d.stage = "granted" => Over(d) \/ d.id \in members'
        <4>1. CASE e = d \/ d.kind = "register"
          BY <3>1, <3>2, <3>3, <3>4, <4>1, ScriptOnOwned
        <4>2. CASE e = c /\ d = done /\ d.kind # "register"
          BY <1>a, <2>1, <4>2, ScriptOnOwned DEF OfStart
        <4> QED BY <3>1, <4>1, <4>2
      <3>8. d.kind = "register" /\ d.stage = "granted" => Over(d) \/ d.id \in nodes'
        <4>1. CASE e = d
          BY <3>1, <3>2, <3>3, <3>4, <4>1, ScriptOnOwned
        <4>2. CASE e = c /\ d = done
          BY <1>a, <4>2, ScriptOnOwned
        <4> QED BY <3>1, <4>1, <4>2
      <3> QED BY <3>5, <3>6, <3>7, <3>8
    <2> QED BY <2>1 DEF StartsHold, OfStart, Awaited, Over
  <1>4. RenewalsHold'
    <2>1. ASSUME NEW d \in cmds', Current(d), d.stage = "granted"
          PROVE  Over(d) \/ (d.id \in members' /\ score'[d.id] >= d.at)
      <3>1. CASE d \in cmds
        <4>1. d.id = instanceId[d.node] /\ d.node \in Nodes /\ d.id \in Ids /\ d.at \in Nat
          BY <1>c, <2>1, <3>1 DEF Control, GenerationsGrow
        <4>2. Over(d) \/ (d.id \in members /\ score[d.id] >= d.at)
          BY <2>1, <3>1 DEF LeaseInv, RenewalsHold
        <4> QED BY <1>t, <4>1, <4>2, ScriptOnOwned
      <3>2. CASE d = done /\ d \notin cmds
        BY <1>a, <1>c, <2>1, <3>2, ScriptOnOwned DEF Current, LeaseInv, TimesArePast
      <3> QED BY <1>b, <3>1, <3>2
    <2> QED BY <2>1 DEF RenewalsHold, Current, Awaited, Over
  <1>5. LeasesHold'
    <2>1. ASSUME NEW n \in Nodes, running[n]
          PROVE  /\ instanceId[n] \in members' =>
                      instanceId[n] \in nodes' /\ instanceId[n] \notin obligations'
                 /\ \/ now >= leaseSafeUntil[n]
                    \/ instanceId[n] \in members' /\ score'[instanceId[n]] + TTL >= leaseSafeUntil[n]
      <3>1. op[n] = "idle" /\ instanceId[n] \in Ids
        BY <1>t, <2>1 DEF Control, HasId
      <3>2. instanceId[n] \in members' => instanceId[n] \in members
        BY <3>1, ScriptOnOwned
      <3> QED BY <1>t, <2>1, <3>1, <3>2, ScriptOnOwned DEF LeaseInv, LeasesHold
    <2> QED BY <2>1 DEF LeasesHold
  <1> QED BY <1>1, <1>2, <1>3, <1>4, <1>5, ScriptOnOwned DEF LeaseInv

\* Every step keeps what the leases say about Redis.
LEMMA LeaseStep == TypeOK /\ Control /\ LeaseInv /\ [Next]_vars => LeaseInv'
  <1> SUFFICES ASSUME TypeOK, Control, LeaseInv, [Next]_vars PROVE LeaseInv'
    OBVIOUS
  <1> USE Literals DEF redisVars, leaseVars, idVars, lifeVars
  <1>c. \A c \in cmds : /\ c.kind \in Kinds /\ c.node \in Nodes /\ c.id \in Ids /\ c.id # 0
                        /\ c.gen \in Nat /\ c.at \in Nat /\ c.stage \in Stages
    BY Fields, IdsArePositive
  <1>t. /\ generation \in [Nodes -> Nat] /\ op \in [Nodes -> Steps] /\ now \in Nat
        /\ instanceId \in [Nodes -> Ids \cup {0}] /\ TTL \in Nat /\ score \in [Ids -> Nat]
        /\ leaseSafeUntil \in [Nodes -> Nat] /\ running \in [Nodes -> BOOLEAN]
        /\ members \subseteq Ids /\ nodes \subseteq Ids /\ obligations \subseteq Ids /\ nextId \in Nat
    BY MeshAssumption DEF TypeOK
  <1>a. \A c \in cmds : c.at <= now
    BY DEF LeaseInv, TimesArePast
  <1>g. \A c \in cmds : Awaited(c) => c.gen <= generation[c.node]
    BY DEF Control, GenerationsGrow
  <1>f. ASSUME NEW n \in Nodes, fenceLeaseLoss(n)
        PROVE  (\A m \in Nodes : running'[m] => running[m]) /\ UNCHANGED leaseSafeUntil
    BY <1>f DEF fenceLeaseLoss, TypeOK
  \* Nothing but the end of leases and answers that grant nothing.
  <1>q. ASSUME cmds' \subseteq cmds, UNCHANGED <<now, members, score, nodes, obligations,
                 generation, instanceId, op, leaseSafeUntil>>,
               \A n \in Nodes : running'[n] => running[n]
        PROVE  LeaseInv'
    BY <1>q, <1>a, LeaseKept DEF Current, Awaited
  \* An id is given up.
  <1>n. ASSUME NEW n \in Nodes, NEW rest \in SUBSET cmds, failStart(n, rest), ~running'[n],
               instanceId[n] # 0,
               UNCHANGED <<now, members, score, nodes, obligations, generation>>,
               \A m \in Nodes : m # n /\ running'[m] => running[m] /\ leaseSafeUntil'[m] = leaseSafeUntil[m]
        PROVE  LeaseInv'
    <2> DEFINE new == Cmd("deregister", n, instanceId[n], 0)
    <2>1. new.kind = "deregister" /\ new.at = 0 /\ new.stage = "sent"
      BY <1>n, <1>t, SentFields
    <2>2. \A d \in cmds' : d \in cmds \/ d = new
      BY <1>n DEF failStart
    <2> HIDE DEF new
    <2>3. \A m \in Nodes : /\ instanceId'[m] = IF m = n THEN 0 ELSE instanceId[m]
                           /\ op'[m] = IF m = n THEN "deregister" ELSE op[m]
      BY <1>n, <1>t DEF failStart
    <2>4. \A c \in cmds' : c.at <= now
      BY <1>a, <1>t, <2>1, <2>2
    <2>5. \A c \in cmds' : OfStart(c) => c \in cmds
      BY <2>1, <2>2 DEF OfStart
    <2>6. \A c \in cmds' : Current(c)' /\ c.stage = "granted" => c \in cmds /\ Current(c)
      BY <1>n, <2>1, <2>2 DEF Current, Awaited
    <2>7. /\ \A m \in Nodes : op'[m] = "subscribe" => op[m] = "subscribe" /\ instanceId'[m] = instanceId[m]
          /\ \A m \in Nodes : running'[m] => running[m] /\ instanceId'[m] = instanceId[m]
                                              /\ leaseSafeUntil'[m] = leaseSafeUntil[m]
      BY <1>n, <2>3
    <2> QED BY <1>n, <2>4, <2>5, <2>6, <2>7, LeaseKept
  \* A command changes to a stage that grants nothing.
  <1>w. ASSUME NEW c \in cmds, c.stage # "ghost", NEW s \in {"failed", "sent"},
               cmds' \subseteq (cmds \ {c}) \cup {At(c, s)} \cup {At(c, "ghost")},
               UNCHANGED <<now, members, score, nodes, obligations, generation, instanceId,
                           op, running, leaseSafeUntil>>
        PROVE  LeaseInv'
    <2>1. /\ At(c, s).kind = c.kind /\ At(c, s).id = c.id /\ At(c, s).at = c.at /\ At(c, s).stage = s
          /\ At(c, "ghost").at = c.at /\ At(c, "ghost").stage = "ghost"
      BY <1>w, AtFields
    <2>2. \A d \in cmds' : d \in cmds \/ d = At(c, s) \/ d = At(c, "ghost")
      BY <1>w
    <2>3. \A d \in cmds' : d.at <= now
      BY <1>a, <2>1, <2>2
    <2>4. ASSUME NEW d \in cmds', OfStart(d)
          PROVE  \E e \in cmds : /\ OfStart(e) /\ e.kind = d.kind /\ e.id = d.id /\ e.at = d.at
                                 /\ d.stage = "granted" => e.stage = "granted"
      BY <1>w, <2>1, <2>2, <2>4 DEF OfStart, Awaited
    <2>5. \A d \in cmds' : Current(d)' /\ d.stage = "granted" => d \in cmds /\ Current(d)
      BY <1>w, <2>1, <2>2 DEF Current, Awaited
    <2> QED BY <1>w, <2>3, <2>4, <2>5, LeaseKept
  <1>1. ASSUME NEW n \in Nodes, start(n) PROVE LeaseInv'
    BY <1>1, <1>q DEF start
  <1>2. ASSUME NEW n \in Nodes, stop(n) PROVE LeaseInv'
    <2>1. \A m \in Nodes : running'[m] => running[m]
      BY <1>2, <1>t DEF stop
    <2> QED BY <1>2, <1>q, <2>1 DEF stop
  <1>3. ASSUME NEW n \in Nodes, StartBegins(n) PROVE LeaseInv'
    <2>1. CASE running[n]
      BY <1>3, <1>q, <2>1 DEF StartBegins
    <2>2. CASE ~running[n]
      <3>1. /\ generation' = [generation EXCEPT ![n] = generation[n] + 1]
            /\ op' = [op EXCEPT ![n] = "incr"]
            /\ UNCHANGED <<cmds, instanceId, running, leaseSafeUntil, now, members, score, nodes, obligations>>
        BY <1>3, <2>2, Zenon DEF StartBegins
      <3>2. \A c \in cmds' : Current(c)' /\ c.stage = "granted" => c \in cmds /\ Current(c)
        BY <1>c, <1>g, <1>t, <3>1 DEF Current, Awaited
      <3>3. \A m \in Nodes : op'[m] = "subscribe" => op[m] = "subscribe" /\ instanceId'[m] = instanceId[m]
        BY <1>t, <3>1
      <3> QED BY <1>a, <3>1, <3>2, <3>3, LeaseKept
    <2> QED BY <2>1, <2>2
  <1>4. ASSUME NEW n \in Nodes, IncrReplies(n) PROVE LeaseInv'
    <2>1. /\ \A m \in Nodes : instanceId'[m] = IF m = n THEN nextId + 1 ELSE instanceId[m]
          /\ \A m \in Nodes : op'[m] = IF m = n THEN "subscribe" ELSE op[m]
          /\ op[n] = "incr"
          /\ UNCHANGED <<now, members, score, nodes, obligations, cmds, generation, running, leaseSafeUntil>>
      BY <1>4, <1>t DEF IncrReplies
    <2>2. nextId + 1 \notin members \cup obligations
      BY <1>t, IdsArePositive DEF Control, IdsAreDrawn
    <2>3. TimesArePast' /\ StartsHold' /\ RenewalsHold' /\ MetadataHasHeartbeat'
      BY <2>1 DEF LeaseInv, TimesArePast, StartsHold, RenewalsHold, MetadataHasHeartbeat, Over,
           OfStart, Current, Awaited
    <2>4. NewIdsAreFresh'
      BY <2>1, <2>2 DEF LeaseInv, NewIdsAreFresh
    <2>5. LeasesHold'
      BY <2>1 DEF LeaseInv, LeasesHold, Control, HasId
    <2> QED BY <2>3, <2>4, <2>5 DEF LeaseInv
  <1>5. ASSUME NEW n \in Nodes, IncrRejects(n) PROVE LeaseInv'
    <2>1. /\ \A m \in Nodes : op'[m] = IF m = n THEN "idle" ELSE op[m]
          /\ UNCHANGED <<now, members, score, nodes, obligations, cmds, generation, instanceId,
                         running, leaseSafeUntil>>
      BY <1>5, <1>t DEF IncrRejects
    <2>2. \A c \in cmds' : Current(c)' /\ c.stage = "granted" => c \in cmds /\ Current(c)
      BY <2>1 DEF Current, Awaited
    <2> QED BY <1>a, <2>1, <2>2, LeaseKept
  <1>6. ASSUME NEW n \in Nodes, Subscribed(n) PROVE LeaseInv'
    <2> DEFINE new == Cmd("create", n, instanceId[n], now)
    <2>1. op[n] = "subscribe" /\ instanceId[n] \in Ids /\ instanceId[n] \notin members \cup obligations
      BY <1>6, <1>t DEF Subscribed, Control, HasId, LeaseInv, NewIdsAreFresh
    <2>2. /\ new.kind = "create" /\ new.node = n /\ new.id = instanceId[n]
          /\ new.at = now /\ new.stage = "sent"
      BY <1>t, <2>1, SentFields
    <2>3. cmds' = cmds \cup {new}
      BY <1>6 DEF Subscribed
    <2> HIDE DEF new
    <2>4. /\ \A m \in Nodes : op'[m] = IF m = n THEN "create" ELSE op[m]
          /\ UNCHANGED <<now, members, score, nodes, obligations, generation, instanceId, running,
                         leaseSafeUntil>>
      BY <1>6, <1>t DEF Subscribed
    <2>5. TimesArePast' /\ MetadataHasHeartbeat' /\ LeasesHold' /\ NewIdsAreFresh'
      BY <1>t, <2>2, <2>3, <2>4
         DEF LeaseInv, TimesArePast, MetadataHasHeartbeat, LeasesHold, NewIdsAreFresh
    <2>6. StartsHold'
      BY <2>1, <2>2, <2>3, <2>4 DEF LeaseInv, StartsHold, OfStart, Awaited, Over
    <2>7. RenewalsHold'
      BY <2>2, <2>3, <2>4 DEF LeaseInv, RenewalsHold, Current, Awaited, Over
    <2> QED BY <2>5, <2>6, <2>7 DEF LeaseInv
  <1>7. ASSUME NEW n \in Nodes, SubscribeRejects(n) PROVE LeaseInv'
    <2>1. instanceId[n] # 0 /\ ~running[n]
      BY <1>7 DEF SubscribeRejects, Control, HasId
    <2> QED BY <1>7, <1>n, <2>1 DEF SubscribeRejects
  <1>8. ASSUME NEW n \in Nodes, StopBegins(n) PROVE LeaseInv'
    <2>1. /\ \A m \in Nodes : generation'[m] = IF m = n THEN generation[n] + 1 ELSE generation[m]
          /\ \A m \in Nodes : op'[m] = IF m = n THEN "leaving" ELSE op[m]
          /\ \A m \in Nodes : running'[m] => running[m]
          /\ UNCHANGED <<cmds, instanceId, leaseSafeUntil, now, members, score, nodes, obligations>>
      BY <1>8, <1>t DEF StopBegins
    <2>2. \A c \in cmds' : Current(c)' /\ c.stage = "granted" => c \in cmds /\ Current(c)
      BY <1>c, <1>g, <1>t, <2>1 DEF Current, Awaited
    <2> QED BY <1>a, <2>1, <2>2, LeaseKept
  <1>9. ASSUME NEW n \in Nodes, StopLeaves(n) PROVE LeaseInv'
    <2>1. ~running[n] /\ UNCHANGED <<now, members, score, nodes, obligations, generation, running, leaseSafeUntil>>
      BY <1>9 DEF StopLeaves, Control, HasId
    <2>2. CASE instanceId[n] # 0
      BY <1>9, <1>n, <2>1, <2>2 DEF StopLeaves
    <2>3. CASE instanceId[n] = 0
      <3>1. /\ \A m \in Nodes : op'[m] = IF m = n THEN "idle" ELSE op[m]
            /\ UNCHANGED <<cmds, instanceId>>
        BY <1>9, <1>t, <2>3 DEF StopLeaves
      <3>2. \A c \in cmds' : Current(c)' /\ c.stage = "granted" => c \in cmds /\ Current(c)
        BY <2>1, <3>1 DEF Current, Awaited
      <3> QED BY <1>a, <2>1, <3>1, <3>2, LeaseKept
    <2> QED BY <2>2, <2>3
  <1>10. ASSUME NEW n \in Nodes, doHeartbeat(n) PROVE LeaseInv'
    <2> DEFINE new == Cmd("renew", n, instanceId[n], now)
    <2>1. running[n] /\ instanceId[n] \in Ids
      BY <1>10, <1>t DEF doHeartbeat, Control, HasId
    <2>2. new.kind = "renew" /\ new.at = now /\ new.stage = "sent"
      BY <1>t, <2>1, SentFields
    <2>3. /\ cmds' = cmds \cup {new}
          /\ UNCHANGED <<now, members, score, nodes, obligations, generation, instanceId, op,
                         running, leaseSafeUntil>>
      BY <1>10 DEF doHeartbeat
    <2> HIDE DEF new
    <2>4. \A c \in cmds' : /\ c.at <= now
                           /\ OfStart(c) => c \in cmds
                           /\ Current(c)' /\ c.stage = "granted" => c \in cmds /\ Current(c)
      BY <1>a, <1>t, <2>2, <2>3 DEF OfStart, Current, Awaited
    <2> QED BY <2>3, <2>4, LeaseKept
  <1>11. ASSUME NEW n \in Nodes, updateNodeMetadata(n) PROVE LeaseInv'
    <2> DEFINE new == Cmd("update", n, instanceId[n], 0)
    <2>1. running[n] /\ instanceId[n] \in Ids
      BY <1>11, <1>t DEF updateNodeMetadata, LeaseSafe, Control, HasId
    <2>2. new.kind = "update" /\ new.at = 0 /\ new.stage = "sent"
      BY <1>t, <2>1, SentFields
    <2>3. /\ cmds' = cmds \cup {new}
          /\ UNCHANGED <<now, members, score, nodes, obligations, generation, instanceId, op,
                         running, leaseSafeUntil>>
      BY <1>11 DEF updateNodeMetadata
    <2> HIDE DEF new
    <2>4. \A c \in cmds' : /\ c.at <= now
                           /\ OfStart(c) => c \in cmds
                           /\ Current(c)' /\ c.stage = "granted" => c \in cmds /\ Current(c)
      BY <1>a, <1>t, <2>2, <2>3 DEF OfStart, Current, Awaited
    <2> QED BY <2>3, <2>4, LeaseKept
  <1>12. ASSUME NEW n \in Nodes, SafetyTimerFires(n) PROVE LeaseInv'
    <2>1. (\A m \in Nodes : running'[m] => running[m]) /\ UNCHANGED leaseSafeUntil
      BY <1>12, <1>f DEF SafetyTimerFires
    <2> QED BY <1>12, <1>q, <2>1 DEF SafetyTimerFires
  <1>13. ASSUME NEW n \in Nodes, assertLeaseSafe(n) PROVE LeaseInv'
    BY <1>13, <1>f, <1>q DEF assertLeaseSafe
  <1>14. ASSUME NEW n \in Nodes, fence(n) PROVE LeaseInv'
    BY <1>14, <1>f, <1>q DEF fence
  <1>15. ASSUME NEW n \in Nodes, Crash(n) PROVE LeaseInv'
    <2>1. /\ \A m \in Nodes : instanceId'[m] = IF m = n THEN 0 ELSE instanceId[m]
          /\ \A m \in Nodes : generation'[m] = IF m = n THEN 0 ELSE generation[m]
          /\ \A m \in Nodes : op'[m] = IF m = n THEN "idle" ELSE op[m]
          /\ \A m \in Nodes : leaseSafeUntil'[m] = IF m = n THEN 0 ELSE leaseSafeUntil[m]
          /\ ~running'[n] /\ \A m \in Nodes : running'[m] => running[m]
          /\ UNCHANGED <<now, members, score, nodes, obligations>>
      BY <1>15, <1>t DEF Crash
    <2>2. ASSUME NEW d \in cmds'
          PROVE  /\ d.at <= now
                 /\ (d \in cmds /\ d.node # n) \/ d.stage = "ghost"
      <3>1. CASE d \in cmds /\ (d.node # n \/ d.stage = "ghost")
        BY <1>a, <3>1
      <3>2. CASE ~(d \in cmds /\ (d.node # n \/ d.stage = "ghost"))
        <4>1. PICK c \in cmds : c.node = n /\ c.stage = "sent" /\ d = At(c, "ghost")
          BY <1>15, <2>2, <3>2 DEF Crash
        <4> QED BY <1>a, <4>1, AtFields
      <3> QED BY <3>1, <3>2
    <2>3. \A c \in cmds' : /\ OfStart(c) => c \in cmds
                           /\ Current(c)' /\ c.stage = "granted" => c \in cmds /\ Current(c)
      BY <1>c, <2>1, <2>2 DEF OfStart, Current, Awaited
    <2> QED BY <2>1, <2>2, <2>3, LeaseKept
  <1>16. ASSUME NEW c \in cmds, CreateReply(c) PROVE LeaseInv'
    <2>1. OfStart(c) /\ c.kind = "create" /\ op[c.node] = "create" /\ c.id = instanceId[c.node]
      BY <1>16 DEF CreateReply, OfLifecycle, OfStart, Awaited, Control, LifecycleWaits
    <2>u. UNCHANGED <<now, members, score, nodes, obligations, generation, running, leaseSafeUntil>>
      BY <1>16 DEF CreateReply
    <2>2. CASE c.stage = "granted"
      <3> DEFINE new == Cmd("register", c.node, c.id, c.at)
      <3>1. /\ new.kind = "register" /\ new.node = c.node /\ new.id = c.id
            /\ new.at = c.at /\ new.stage = "sent"
        BY SentFields, Fields
      <3>2. /\ cmds' = (cmds \ {c}) \cup {new} /\ UNCHANGED instanceId
            /\ op' = [op EXCEPT ![c.node] = "register"]
        BY <1>16, <2>2 DEF CreateReply
      <3> HIDE DEF new
      <3>3. \A m \in Nodes : op'[m] = IF m = c.node THEN "register" ELSE op[m]
        BY <3>2, <1>t
      <3>4. TimesArePast' /\ MetadataHasHeartbeat' /\ LeasesHold' /\ NewIdsAreFresh'
        BY <2>u, <3>1, <3>2, <3>3
           DEF LeaseInv, TimesArePast, MetadataHasHeartbeat, LeasesHold, NewIdsAreFresh
      <3>5. StartsHold'
        BY <2>1, <2>2, <2>u, <3>1, <3>2 DEF LeaseInv, StartsHold, OfStart, Awaited, Over
      <3>6. RenewalsHold'
        BY <2>u, <3>1, <3>2 DEF LeaseInv, RenewalsHold, Current, Awaited, Over
      <3> QED BY <3>4, <3>5, <3>6 DEF LeaseInv
    <2>3. CASE c.stage # "granted"
      <3>1. failStart(c.node, cmds \ {c})
        BY <1>16, <2>3 DEF CreateReply
      <3>2. instanceId[c.node] # 0 /\ ~running[c.node]
        BY <1>c, <2>1 DEF Control, HasId
      <3> QED BY <1>c, <1>n, <2>u, <3>1, <3>2
    <2> QED BY <2>2, <2>3
  <1>17. ASSUME NEW c \in cmds, RegisterReply(c) PROVE LeaseInv'
    <2>1. OfStart(c) /\ c.kind = "register" /\ op[c.node] = "register" /\ c.id = instanceId[c.node]
      BY <1>17 DEF RegisterReply, OfLifecycle, OfStart, Awaited, Control, LifecycleWaits
    <2>u. /\ UNCHANGED <<now, members, score, nodes, obligations, generation>>
          /\ \A m \in Nodes : m # c.node => leaseSafeUntil'[m] = leaseSafeUntil[m]
      BY <1>17, <1>t DEF RegisterReply
    <2>2. CASE c.stage = "granted" /\ now < c.at + TTL
      <3>1. /\ cmds' = cmds \ {c} /\ UNCHANGED instanceId
            /\ \A m \in Nodes : op'[m] = IF m = c.node THEN "idle" ELSE op[m]
            /\ \A m \in Nodes : m # c.node => running'[m] = running[m]
            /\ leaseSafeUntil'[c.node] = c.at + TTL
        BY <1>17, <1>c, <1>t, <2>2 DEF RegisterReply
      <3>2. /\ c.id \in members /\ score[c.id] >= c.at /\ c.id \in nodes /\ c.id \notin obligations
        BY <1>c, <1>t, <2>1, <2>2 DEF LeaseInv, StartsHold, Over
      <3>3. TimesArePast' /\ MetadataHasHeartbeat' /\ NewIdsAreFresh' /\ StartsHold' /\ RenewalsHold'
        BY <2>u, <3>1 DEF LeaseInv, TimesArePast, MetadataHasHeartbeat, NewIdsAreFresh, StartsHold,
             RenewalsHold, OfStart, Current, Awaited, Over
      <3>4. LeasesHold'
        <4>1. score[c.id] + TTL >= c.at + TTL
          BY <1>c, <1>t, <3>2
        <4> QED BY <1>c, <2>1, <2>u, <3>1, <3>2, <4>1 DEF LeaseInv, LeasesHold
      <3> QED BY <3>3, <3>4 DEF LeaseInv
    <2>3. CASE ~(c.stage = "granted" /\ now < c.at + TTL)
      <3>1. failStart(c.node, cmds \ {c}) /\ UNCHANGED running
        BY <1>17, <2>3 DEF RegisterReply
      <3>2. instanceId[c.node] # 0 /\ ~running[c.node]
        BY <1>c, <2>1 DEF Control, HasId
      <3> QED BY <1>c, <1>n, <2>u, <3>1, <3>2
    <2> QED BY <2>2, <2>3
  <1>18. ASSUME NEW c \in cmds, DeregisterReply(c) PROVE LeaseInv'
    <2>1. /\ cmds' = cmds \ {c}
          /\ \A m \in Nodes : op'[m] = IF m = c.node THEN "idle" ELSE op[m]
          /\ UNCHANGED <<now, members, score, nodes, obligations, generation, instanceId, running,
                         leaseSafeUntil>>
      BY <1>18, <1>t DEF DeregisterReply
    <2>2. \A d \in cmds' : Current(d)' /\ d.stage = "granted" => d \in cmds /\ Current(d)
      BY <2>1 DEF Current, Awaited
    <2> QED BY <1>a, <2>1, <2>2, LeaseKept
  <1>19. ASSUME NEW c \in cmds, HeartbeatReply(c) PROVE LeaseInv'
    <2>u. /\ cmds' = cmds \ {c} /\ c.kind = "renew" /\ c.stage # "ghost"
          /\ UNCHANGED <<now, members, score, nodes, obligations, generation, instanceId, op>>
      BY <1>19 DEF HeartbeatReply
    <2>1. CASE MissesRenewal(c)
      <3>1. fenceLeaseLoss(c.node)
        BY <1>19, <2>1 DEF HeartbeatReply
      <3> QED BY <1>c, <1>f, <1>q, <2>u, <3>1
    <2>2. CASE ~MissesRenewal(c) /\ c.stage = "granted" /\ generation[c.node] = c.gen /\ running[c.node]
      <3>1. /\ leaseSafeUntil' = [leaseSafeUntil EXCEPT ![c.node] = c.at + TTL]
            /\ UNCHANGED running
        BY <1>19, <2>2, Zenon DEF HeartbeatReply
      <3>2. /\ Over(c) \/ (c.id \in members /\ score[c.id] >= c.at)
            /\ c.id = instanceId[c.node]
        BY <2>u, <2>2 DEF LeaseInv, RenewalsHold, Control, GenerationsGrow, Current, Awaited
      <3>3. TimesArePast' /\ MetadataHasHeartbeat' /\ NewIdsAreFresh' /\ StartsHold' /\ RenewalsHold'
        BY <2>u, <3>1 DEF LeaseInv, TimesArePast, MetadataHasHeartbeat, NewIdsAreFresh, StartsHold,
             RenewalsHold, OfStart, Current, Awaited, Over
      <3>4. LeasesHold'
        <4>1. /\ leaseSafeUntil'[c.node] = c.at + TTL
              /\ \A m \in Nodes : m # c.node => leaseSafeUntil'[m] = leaseSafeUntil[m]
          BY <1>c, <1>t, <3>1
        <4>2. \/ now >= c.at + TTL
              \/ c.id \in members /\ score[c.id] + TTL >= c.at + TTL
          BY <1>c, <1>t, <3>2 DEF Over
        <4> QED BY <1>c, <2>u, <3>1, <3>2, <4>1, <4>2 DEF LeaseInv, LeasesHold
      <3> QED BY <3>3, <3>4 DEF LeaseInv
    <2>3. CASE ~MissesRenewal(c) /\ ~(c.stage = "granted" /\ generation[c.node] = c.gen /\ running[c.node])
      BY <1>19, <1>q, <2>u, <2>3 DEF HeartbeatReply
    <2> QED BY <2>1, <2>2, <2>3
  <1>20. ASSUME NEW c \in cmds, UpdateReply(c) PROVE LeaseInv'
    <2>1. (\A m \in Nodes : running'[m] => running[m]) /\ UNCHANGED leaseSafeUntil
      BY <1>20, <1>c, <1>f DEF UpdateReply
    <2> QED BY <1>20, <1>q, <2>1 DEF UpdateReply
  <1>21. ASSUME NEW c \in cmds, RedisExecutes(c) PROVE LeaseInv'
    <2>1. \A d \in cmds' : d \in cmds \/ (Awaited(c) /\ d = At(c, Result(c)))
      BY <1>21 DEF RedisExecutes, Awaited
    <2> QED BY <1>21, <2>1, LeaseExecuted DEF RedisExecutes
  <1>22. ASSUME NEW c \in cmds, CallRejects(c) PROVE LeaseInv'
    <2>1. cmds' \subseteq (cmds \ {c}) \cup {At(c, "failed")} \cup {At(c, "ghost")}
      BY <1>22 DEF CallRejects
    <2> QED BY <1>22, <1>w, <2>1 DEF CallRejects
  <1>23. ASSUME NEW c \in cmds, Resent(c) PROVE LeaseInv'
    <2>1. cmds' \subseteq (cmds \ {c}) \cup {At(c, "sent")} \cup {At(c, "ghost")}
      BY <1>23 DEF Resent
    <2> QED BY <1>23, <1>w, <2>1 DEF Resent
  <1>24. ASSUME NEW c \in cmds, GhostExecutes(c) PROVE LeaseInv'
    <2>1. \A d \in cmds' : d \in cmds
      BY <1>24 DEF GhostExecutes
    <2> QED BY <1>24, <2>1, LeaseExecuted DEF GhostExecutes
  <1>25. ASSUME NEW c \in cmds, GhostVanishes(c) PROVE LeaseInv'
    BY <1>25, <1>q DEF GhostVanishes
  <1>26. CASE Cleanup
    <2>1. PICK batch \in (SUBSET Expired) \ {{}} :
            /\ members' = members \ batch /\ nodes' = nodes \ batch
            /\ score' = [id \in Ids |-> IF id \in batch THEN 0 ELSE score[id]]
            /\ obligations' = obligations \cup batch
      BY <1>26 DEF Cleanup
    <2>2. \A id \in batch : id \in members /\ score[id] + TTL <= now
      BY DEF Expired
    <2>3. UNCHANGED <<now, cmds, generation, instanceId, op, running, leaseSafeUntil>>
      BY <1>26 DEF Cleanup
    <2>4. \A id \in Ids : score'[id] = IF id \in batch THEN 0 ELSE score[id]
      BY <2>1
    <2>5. TimesArePast' /\ MetadataHasHeartbeat' /\ NewIdsAreFresh'
      BY <1>t, <2>1, <2>2, <2>3, <2>4 DEF LeaseInv, TimesArePast, MetadataHasHeartbeat, NewIdsAreFresh
    <2>6. StartsHold'
      BY <1>c, <1>t, <2>1, <2>2, <2>3, <2>4 DEF LeaseInv, StartsHold, OfStart, Awaited, Over
    <2>7. RenewalsHold'
      BY <1>c, <1>t, <2>1, <2>2, <2>3, <2>4 DEF LeaseInv, RenewalsHold, Current, Awaited, Over
    <2>8. LeasesHold'
      BY <1>t, <2>1, <2>2, <2>3, <2>4 DEF LeaseInv, LeasesHold
    <2> QED BY <2>5, <2>6, <2>7, <2>8 DEF LeaseInv
  <1>27. CASE Tick
    <2>1. /\ now' = now + 1
          /\ UNCHANGED <<members, score, nodes, obligations, cmds, generation, instanceId, op,
                         running, leaseSafeUntil>>
      BY <1>27 DEF Tick
    <2>2. TimesArePast' /\ MetadataHasHeartbeat' /\ NewIdsAreFresh'
      BY <1>c, <1>t, <2>1 DEF LeaseInv, TimesArePast, MetadataHasHeartbeat, NewIdsAreFresh
    <2>3. StartsHold' /\ RenewalsHold'
      BY <1>c, <1>t, <2>1 DEF LeaseInv, StartsHold, RenewalsHold, OfStart, Current, Awaited, Over
    <2>4. LeasesHold'
      BY <1>t, <2>1 DEF LeaseInv, LeasesHold
    <2> QED BY <2>2, <2>3, <2>4 DEF LeaseInv
  <1>28. CASE UNCHANGED vars
    BY <1>28, <1>q DEF vars
  <1> QED
    BY <1>1, <1>2, <1>3, <1>4, <1>5, <1>6, <1>7, <1>8, <1>9, <1>10, <1>11, <1>12,
       <1>13, <1>14, <1>15, <1>16, <1>17, <1>18, <1>19, <1>20, <1>21, <1>22, <1>23,
       <1>24, <1>25, <1>26, <1>27, <1>28 DEF Next, Lifecycle, Lease, Handlers, Network

-----------------------------------------------------------------------------
\* Before the first start() nobody has an id and Redis is empty.
LEMMA MembershipStarts == Init => IInv
  <1> SUFFICES ASSUME Init PROVE IInv
    OBVIOUS
  <1> USE DEF Init
  <1>1. TypeOK
    BY Literals DEF TypeOK
  <1>2. Control
    BY DEF Control, IdsAreDrawn, OwnersDiffer, HasId, LifecycleWaits, CreatesAreOwn,
           DeregistersAreForgotten, GenerationsGrow
  <1>3. LeaseInv
    BY DEF LeaseInv, TimesArePast, NewIdsAreFresh, StartsHold, RenewalsHold, LeasesHold,
           MetadataHasHeartbeat
  <1> QED BY <1>1, <1>2, <1>3 DEF IInv

\* The invariant holds from the start and forever.
LEMMA Invariance == Spec => []IInv
  <1>1. Init => IInv
    BY MembershipStarts
  <1>2. IInv /\ [Next]_vars => IInv'
    BY TypeStep, ControlStep, LeaseStep DEF IInv
  <1> QED BY <1>1, <1>2, PTL DEF Spec

\* The state of the mesh is well typed (mesh.ts, start(), stop() and every
\* Redis script): no command is ever sent for a node without an instance id.
THEOREM TypeCorrect == Spec => []TypeOK
  <1>1. IInv => TypeOK
    BY DEF IInv
  <1> QED BY <1>1, Invariance, PTL

\* Whenever assertLeaseSafe() lets work proceed, Redis lists the node as a live
\* member with its metadata: for any number of nodes, any TTL, and any late,
\* resent or rejected HEARTBEAT, UPDATE_METADATA and DEREGISTER.
THEOREM LeaseSafeIsMember == Spec => []SafeIsMember
  <1>1. IInv => SafeIsMember
    <2> SUFFICES ASSUME IInv, NEW n \in Nodes, LeaseSafe(n)
                 PROVE  Active(instanceId[n]) /\ instanceId[n] \in nodes
      BY DEF SafeIsMember
    <2>1. /\ now \in Nat /\ TTL \in Nat /\ leaseSafeUntil[n] \in Nat
          /\ members \subseteq Ids /\ score \in [Ids -> Nat]
      BY MeshAssumption DEF IInv, TypeOK
    <2> QED BY <2>1 DEF IInv, LeaseInv, LeasesHold, LeaseSafe, Active
  <1> QED BY <1>1, Invariance, PTL

\* No node works on while its instance id is among the cleanup obligations.
THEOREM LeaseSafeIsNotCleaned == Spec => []CleanedIsFenced
  <1>1. IInv => CleanedIsFenced
    <2> SUFFICES ASSUME IInv, NEW n \in Nodes, LeaseSafe(n)
                 PROVE  instanceId[n] \notin obligations
      BY DEF CleanedIsFenced
    <2>1. now \in Nat /\ leaseSafeUntil[n] \in Nat
      BY DEF IInv, TypeOK
    <2> QED BY <2>1 DEF IInv, LeaseInv, LeasesHold, LeaseSafe
  <1> QED BY <1>1, Invariance, PTL

\* Metadata never survives its heartbeat, whatever UPDATE_METADATA arrives late.
THEOREM MetadataIsCovered == Spec => []MetadataHasHeartbeat
  <1>1. IInv => MetadataHasHeartbeat
    BY DEF IInv, LeaseInv
  <1> QED BY <1>1, Invariance, PTL
-----------------------------------------------------------------------------
(***************************************************************************)
(* No orphans. A node that no longer runs but still has an id stops before *)
(* it can start again, provided its callers never start() what they have   *)
(* already started; hence an id is never replaced by the next one, and     *)
(* every id is deregistered once it is given up.                           *)
(***************************************************************************)
Starting == {"incr", "subscribe", "create", "register"}

QueuedStart(q, k) == k \in 1..Len(q) /\ q[k] = "start"

Queue(n) ==
  /\ running[n] \/ op[n] \in Starting => \A k : ~QueuedStart(lifecycle[n], k)
  /\ \A j, k : QueuedStart(lifecycle[n], j) /\ QueuedStart(lifecycle[n], k) => j = k
  /\ op[n] \in {"incr", "deregister"} => instanceId[n] = 0
  /\ instanceId[n] # 0 /\ ~running[n] /\ op[n] = "idle" =>
       lifecycle[n] # <<>> /\ Head(lifecycle[n]) = "stop"

QueueInv == \A n \in Nodes : Queue(n)

\* What a queue holds after a call is appended to it.
LEMMA Appended ==
  ASSUME NEW q \in Seq({"start", "stop"}), NEW x \in {"start", "stop"}
  PROVE  /\ Append(q, x) # <<>>
         /\ q # <<>> => Head(Append(q, x)) = Head(q)
         /\ q = <<>> => Head(Append(q, x)) = x
         /\ \A k : QueuedStart(Append(q, x), k)
                     <=> QueuedStart(q, k) \/ (x = "start" /\ k = Len(q) + 1)
         /\ q # <<>> /\ (\A k : ~QueuedStart(q, k)) => Head(q) = "stop"
  <1>1. Len(q) \in Nat /\ Len(Append(q, x)) = Len(q) + 1
    OBVIOUS
  <1>2. \A k \in 1..Len(q) : Append(q, x)[k] = q[k]
    OBVIOUS
  <1>3. Append(q, x)[Len(q) + 1] = x
    OBVIOUS
  <1>4. \A k : k \in 1..(Len(q) + 1) <=> k \in 1..Len(q) \/ k = Len(q) + 1
    BY <1>1
  <1>5. \A k : QueuedStart(Append(q, x), k)
                     <=> QueuedStart(q, k) \/ (x = "start" /\ k = Len(q) + 1)
    <2>1. Len(q) + 1 \notin 1..Len(q)
      BY <1>1
    <2> QED BY <1>1, <1>2, <1>3, <1>4, <2>1 DEF QueuedStart
  <1>6. ASSUME q # <<>>
        PROVE  /\ Head(Append(q, x)) = Head(q) /\ Head(q) = q[1] /\ 1 \in 1..Len(q)
               /\ q[1] \in {"start", "stop"}
    BY <1>1, <1>2, <1>6
  <1>7. q = <<>> => Head(Append(q, x)) = x
    OBVIOUS
  <1> QED BY <1>1, <1>5, <1>6, <1>7 DEF QueuedStart

\* What is left of a queue once its first call is served.
LEMMA Served ==
  ASSUME NEW q \in Seq({"start", "stop"}), q # <<>>
  PROVE  /\ \A k : QueuedStart(Tail(q), k) => k \in Nat /\ QueuedStart(q, k + 1)
         /\ Head(q) = "start" => QueuedStart(q, 1)
  BY DEF QueuedStart

\* A node nothing happens to.
LEMMA QueueKept ==
  ASSUME NEW n \in Nodes, Queue(n), lifecycle'[n] = lifecycle[n], running'[n] = running[n],
         op'[n] = op[n], instanceId'[n] = instanceId[n]
  PROVE  Queue(n)'
  BY DEF Queue, QueuedStart

\* stop() and fenceLeaseLoss() revoke authority and queue the shutdown.
LEMMA QueueStopped ==
  ASSUME TypeOK, NEW n \in Nodes, Queue(n), lifecycle'[n] = Append(lifecycle[n], "stop"),
         ~running'[n], op'[n] = op[n], instanceId'[n] = instanceId[n]
  PROVE  Queue(n)'
  <1> DEFINE q == lifecycle[n]
             r == Append(q, "stop")
  <1>0. q \in Seq({"start", "stop"})
    BY DEF TypeOK
  <1> HIDE DEF q
  <1>1. /\ r # <<>> /\ (q # <<>> => Head(r) = Head(q)) /\ (q = <<>> => Head(r) = "stop")
        /\ \A k : QueuedStart(r, k) <=> QueuedStart(q, k)
        /\ q # <<>> /\ (\A k : ~QueuedStart(q, k)) => Head(q) = "stop"
    BY <1>0, Appended
  <1> HIDE DEF r
  <1>2. lifecycle'[n] = r
    BY DEF q, r
  <1>3. \A k : QueuedStart(lifecycle[n], k)' <=> QueuedStart(q, k)
    BY <1>1, <1>2 DEF QueuedStart
  <1> QED BY <1>1, <1>2, <1>3 DEF Queue, q

\* A lifecycle operation that has given up the id.
LEMMA QueueForgets ==
  ASSUME NEW n \in Nodes, Queue(n), lifecycle'[n] = lifecycle[n], ~running'[n],
         op'[n] \notin Starting, instanceId'[n] = 0
  PROVE  Queue(n)'
  BY DEF Queue, QueuedStart
\* fenceLeaseLoss() queues a stop, or has already done so.
LEMMA QueueFenced ==
  ASSUME TypeOK, QueueInv, NEW n \in Nodes, fenceLeaseLoss(n), UNCHANGED <<op, instanceId>>
  PROVE  QueueInv'
  <1>1. CASE leaseLost[n]
    <2>1. UNCHANGED <<running, lifecycle>>
      BY <1>1 DEF fenceLeaseLoss, leaseVars
    <2> QED BY <2>1, QueueKept DEF QueueInv
  <1>2. CASE ~leaseLost[n]
    <2>1. /\ lifecycle'[n] = Append(lifecycle[n], "stop") /\ ~running'[n]
          /\ \A m \in Nodes \ {n} : lifecycle'[m] = lifecycle[m] /\ running'[m] = running[m]
      BY <1>2 DEF fenceLeaseLoss, TypeOK
    <2>2. Queue(n)'
      BY <2>1, QueueStopped DEF QueueInv
    <2>3. \A m \in Nodes \ {n} : Queue(m)'
      BY <2>1, QueueKept DEF QueueInv
    <2> QED BY <2>2, <2>3 DEF QueueInv
  <1> QED BY <1>1, <1>2

\* failStart(), of a start that failed or of a stop.
LEMMA QueueFailed ==
  ASSUME TypeOK, QueueInv, NEW n \in Nodes, NEW rest, failStart(n, rest), ~running[n],
         UNCHANGED <<running, lifecycle>>
  PROVE  QueueInv'
  <1>1. /\ op'[n] = "deregister" /\ instanceId'[n] = 0
        /\ \A m \in Nodes \ {n} : op'[m] = op[m] /\ instanceId'[m] = instanceId[m]
    BY DEF failStart, TypeOK
  <1>2. Queue(n)'
    BY <1>1, QueueForgets DEF QueueInv, Starting
  <1>3. \A m \in Nodes \ {n} : Queue(m)'
    BY <1>1, QueueKept DEF QueueInv
  <1> QED BY <1>2, <1>3 DEF QueueInv

\* The lifecycle operations serve their queue in turn.
LEMMA QueueStep ==
  ASSUME Disciplined, TypeOK, Control, QueueInv, [Next]_vars
  PROVE  QueueInv'
  <1> USE DEF redisVars, leaseVars, idVars, lifeVars
  <1>k. ASSUME UNCHANGED <<running, lifecycle, op, instanceId>> PROVE QueueInv'
    BY <1>k, QueueKept DEF QueueInv
  <1>o. ASSUME NEW n \in Nodes, Queue(n)',
               \A m \in Nodes \ {n} : /\ lifecycle'[m] = lifecycle[m] /\ running'[m] = running[m]
                                      /\ op'[m] = op[m] /\ instanceId'[m] = instanceId[m]
        PROVE  QueueInv'
    BY <1>o, QueueKept DEF QueueInv
  <1>r. ASSUME NEW n \in Nodes, op[n] # "idle" PROVE ~running[n]
    BY <1>r DEF Control, HasId
  <1>c. ASSUME NEW c \in cmds, OfLifecycle(c)
        PROVE  c.node \in Nodes /\ op[c.node] = c.kind /\ ~running[c.node]
    <2>1. c.node \in Nodes /\ op[c.node] = c.kind /\ c.kind \in {"create", "register", "deregister"}
      BY <1>c, Fields DEF Control, LifecycleWaits, OfLifecycle
    <2> QED BY <1>r, <2>1
  <1>1. ASSUME NEW n \in Nodes, start(n) PROVE QueueInv'
    <2> DEFINE q == lifecycle[n]
               r == Append(q, "start")
    <2>1. /\ q \in Seq({"start", "stop"}) /\ ~running[n] /\ op[n] \notin Starting
          /\ \A k : ~QueuedStart(q, k)
      BY <1>1 DEF TypeOK, start, Started, QueuedStart, Starting
    <2>2. /\ lifecycle'[n] = r /\ UNCHANGED <<running, op, instanceId>>
          /\ \A m \in Nodes \ {n} : lifecycle'[m] = lifecycle[m]
      BY <1>1 DEF start, TypeOK
    <2>3. Queue(n)
      BY DEF QueueInv
    <2> HIDE DEF q
    <2>4. /\ r # <<>> /\ (q # <<>> => Head(r) = Head(q))
          /\ \A k : QueuedStart(r, k) <=> QueuedStart(q, k) \/ k = Len(q) + 1
      BY <2>1, Appended
    <2> HIDE DEF r
    <2>5. \A k : QueuedStart(lifecycle[n], k)' <=> k = Len(q) + 1
      BY <2>1, <2>2, <2>4 DEF QueuedStart
    <2>6. Queue(n)'
      BY <2>1, <2>2, <2>3, <2>4, <2>5 DEF Queue, q
    <2> QED BY <1>o, <2>2, <2>6
  <1>2. ASSUME NEW n \in Nodes, stop(n) PROVE QueueInv'
    <2>1. /\ lifecycle'[n] = Append(lifecycle[n], "stop") /\ ~running'[n] /\ UNCHANGED <<op, instanceId>>
          /\ \A m \in Nodes \ {n} : lifecycle'[m] = lifecycle[m] /\ running'[m] = running[m]
      BY <1>2 DEF stop, TypeOK
    <2>2. Queue(n)'
      BY <2>1, QueueStopped DEF QueueInv
    <2> QED BY <1>o, <2>1, <2>2
  <1>s. ASSUME NEW n \in Nodes, lifecycle[n] # <<>>
        PROVE  /\ \A k : QueuedStart(Tail(lifecycle[n]), k) => k \in Nat /\ QueuedStart(lifecycle[n], k + 1)
               /\ Head(lifecycle[n]) = "start" => QueuedStart(lifecycle[n], 1)
    <2>1. lifecycle[n] \in Seq({"start", "stop"})
      BY DEF TypeOK
    <2> QED BY <1>s, <2>1, Served
  <1>3. ASSUME NEW n \in Nodes, StartBegins(n) PROVE QueueInv'
    <2>1. /\ op[n] = "idle" /\ lifecycle[n] # <<>> /\ Head(lifecycle[n]) = "start"
          /\ lifecycle'[n] = Tail(lifecycle[n]) /\ UNCHANGED <<running, instanceId>>
          /\ \A m \in Nodes \ {n} : lifecycle'[m] = lifecycle[m] /\ op'[m] = op[m]
          /\ ~running[n] => op'[n] = "incr"
      BY <1>3 DEF StartBegins, TypeOK
    <2>2. QueuedStart(lifecycle[n], 1) /\ Queue(n)
      BY <1>s, <2>1 DEF QueueInv
    <2>3. ~running[n] /\ instanceId[n] = 0
      BY <2>1, <2>2 DEF Queue
    <2>4. \A k : ~QueuedStart(Tail(lifecycle[n]), k)
      <3>1. ASSUME NEW k, QueuedStart(Tail(lifecycle[n]), k) PROVE FALSE
        <4>1. k \in Nat /\ QueuedStart(lifecycle[n], k + 1)
          BY <1>s, <2>1, <3>1
        <4>2. k + 1 = 1
          BY <2>2, <4>1 DEF Queue
        <4>3. k # 0
          BY <3>1 DEF QueuedStart
        <4> QED BY <4>1, <4>2, <4>3
      <3> QED BY <3>1
    <2>5. \A k : ~QueuedStart(lifecycle[n], k)'
      BY <2>1, <2>4 DEF QueuedStart
    <2>6. Queue(n)'
      BY <2>1, <2>3, <2>5 DEF Queue
    <2> QED BY <1>o, <2>1, <2>6
  <1>4. ASSUME NEW n \in Nodes, IncrReplies(n) PROVE QueueInv'
    <2>1. /\ op[n] = "incr" /\ op'[n] = "subscribe" /\ UNCHANGED <<running, lifecycle>>
          /\ \A m \in Nodes \ {n} : op'[m] = op[m] /\ instanceId'[m] = instanceId[m]
      BY <1>4 DEF IncrReplies, TypeOK
    <2>2. Queue(n)'
      BY <2>1 DEF QueueInv, Queue, Starting, QueuedStart
    <2> QED BY <1>o, <2>1, <2>2
  <1>5. ASSUME NEW n \in Nodes, IncrRejects(n) PROVE QueueInv'
    <2>1. /\ op[n] = "incr" /\ op'[n] = "idle" /\ UNCHANGED <<running, lifecycle, instanceId>>
          /\ \A m \in Nodes \ {n} : op'[m] = op[m]
      BY <1>5 DEF IncrRejects, TypeOK
    <2>2. Queue(n)'
      BY <2>1 DEF QueueInv, Queue, Starting, QueuedStart
    <2> QED BY <1>o, <2>1, <2>2
  <1>6. ASSUME NEW n \in Nodes, Subscribed(n) PROVE QueueInv'
    <2>1. /\ op[n] = "subscribe" /\ op'[n] = "create" /\ UNCHANGED <<running, lifecycle, instanceId>>
          /\ \A m \in Nodes \ {n} : op'[m] = op[m]
      BY <1>6 DEF Subscribed, TypeOK
    <2>2. Queue(n)'
      BY <2>1 DEF QueueInv, Queue, Starting, QueuedStart
    <2> QED BY <1>o, <2>1, <2>2
  <1>7. ASSUME NEW n \in Nodes, SubscribeRejects(n) PROVE QueueInv'
    <2>1. failStart(n, cmds) /\ op[n] = "subscribe" /\ UNCHANGED <<running, lifecycle>>
      BY <1>7 DEF SubscribeRejects
    <2> QED BY <1>r, <2>1, QueueFailed
  <1>8. ASSUME NEW c \in cmds, CreateReply(c) PROVE QueueInv'
    <2>1. c.kind = "create" /\ OfLifecycle(c) /\ UNCHANGED <<running, lifecycle>>
      BY <1>8 DEF CreateReply, OfLifecycle, Awaited
    <2>2. c.node \in Nodes /\ op[c.node] = "create" /\ ~running[c.node]
      BY <1>c, <2>1
    <2>3. CASE c.stage = "granted"
      <3>1. /\ op'[c.node] = "register" /\ UNCHANGED instanceId
            /\ \A m \in Nodes \ {c.node} : op'[m] = op[m]
        BY <1>8, <2>2, <2>3 DEF CreateReply, TypeOK
      <3>2. Queue(c.node)'
        BY <2>1, <2>2, <3>1 DEF QueueInv, Queue, Starting, QueuedStart
      <3> QED BY <1>o, <2>1, <2>2, <3>1, <3>2
    <2>4. CASE c.stage # "granted"
      <3>1. failStart(c.node, cmds \ {c})
        BY <1>8, <2>4 DEF CreateReply
      <3> QED BY <2>1, <2>2, <3>1, QueueFailed
    <2> QED BY <2>3, <2>4
  <1>9. ASSUME NEW c \in cmds, RegisterReply(c) PROVE QueueInv'
    <2>1. c.kind = "register" /\ OfLifecycle(c) /\ UNCHANGED lifecycle
      BY <1>9 DEF RegisterReply, OfLifecycle, Awaited
    <2>2. c.node \in Nodes /\ op[c.node] = "register" /\ ~running[c.node]
      BY <1>c, <2>1
    <2>3. CASE c.stage = "granted" /\ now < c.at + TTL
      <3>1. /\ op'[c.node] = "idle" /\ running'[c.node] = TRUE /\ UNCHANGED instanceId
            /\ \A m \in Nodes \ {c.node} : op'[m] = op[m] /\ running'[m] = running[m]
        BY <1>9, <2>2, <2>3 DEF RegisterReply, TypeOK
      <3>2. Queue(c.node)'
        BY <2>1, <2>2, <3>1 DEF QueueInv, Queue, Starting, QueuedStart
      <3> QED BY <1>o, <2>1, <2>2, <3>1, <3>2
    <2>4. CASE ~(c.stage = "granted" /\ now < c.at + TTL)
      <3>1. failStart(c.node, cmds \ {c}) /\ UNCHANGED running
        BY <1>9, <2>4 DEF RegisterReply
      <3> QED BY <2>1, <2>2, <3>1, QueueFailed
    <2> QED BY <2>3, <2>4
  <1>10. ASSUME NEW n \in Nodes, StopBegins(n) PROVE QueueInv'
    <2>1. /\ lifecycle[n] # <<>> /\ lifecycle'[n] = Tail(lifecycle[n]) /\ ~running'[n]
          /\ op'[n] = "leaving" /\ UNCHANGED instanceId
          /\ \A m \in Nodes \ {n} : /\ lifecycle'[m] = lifecycle[m] /\ op'[m] = op[m]
                                    /\ running'[m] = running[m]
      BY <1>10 DEF StopBegins, TypeOK
    <2>2. \A k : QueuedStart(lifecycle[n], k)' => k \in Nat /\ QueuedStart(lifecycle[n], k + 1)
      <3>1. \A k : QueuedStart(lifecycle[n], k)' <=> QueuedStart(Tail(lifecycle[n]), k)
        BY <2>1 DEF QueuedStart
      <3> QED BY <1>s, <2>1, <3>1
    <2>3. ASSUME NEW j, NEW k, QueuedStart(lifecycle[n], j)', QueuedStart(lifecycle[n], k)'
          PROVE  j = k
      <3>1. /\ j \in Nat /\ QueuedStart(lifecycle[n], j + 1)
            /\ k \in Nat /\ QueuedStart(lifecycle[n], k + 1)
        BY <2>2, <2>3
      <3>2. j + 1 = k + 1
        BY <3>1, Zenon DEF QueueInv, Queue
      <3> QED BY <3>1, <3>2
    <2>4. Queue(n)'
      BY <2>1, <2>3 DEF Queue, Starting
    <2> QED BY <1>o, <2>1, <2>4
  <1>11. ASSUME NEW n \in Nodes, StopLeaves(n) PROVE QueueInv'
    <2>1. op[n] = "leaving" /\ UNCHANGED <<running, lifecycle>>
      BY <1>11 DEF StopLeaves
    <2>2. ~running[n]
      BY <1>r, <2>1
    <2>3. CASE instanceId[n] # 0
      <3>1. failStart(n, cmds)
        BY <1>11, <2>3 DEF StopLeaves
      <3> QED BY <2>1, <2>2, <3>1, QueueFailed
    <2>4. CASE instanceId[n] = 0
      <3>1. /\ op'[n] = "idle" /\ UNCHANGED instanceId /\ \A m \in Nodes \ {n} : op'[m] = op[m]
        BY <1>11, <2>4 DEF StopLeaves, TypeOK
      <3>2. Queue(n)'
        BY <2>1, <2>2, <2>4, <3>1, QueueForgets DEF QueueInv, Starting
      <3> QED BY <1>o, <2>1, <3>1, <3>2
    <2> QED BY <2>3, <2>4
  <1>12. ASSUME NEW c \in cmds, DeregisterReply(c) PROVE QueueInv'
    <2>1. c.kind = "deregister" /\ OfLifecycle(c) /\ UNCHANGED <<running, lifecycle, instanceId>>
      BY <1>12 DEF DeregisterReply, OfLifecycle, Awaited
    <2>2. c.node \in Nodes /\ op[c.node] = "deregister" /\ ~running[c.node]
      BY <1>c, <2>1
    <2>3. op'[c.node] = "idle" /\ \A m \in Nodes \ {c.node} : op'[m] = op[m]
      BY <1>12, <2>2 DEF DeregisterReply, TypeOK
    <2>4. instanceId[c.node] = 0
      BY <2>2 DEF QueueInv, Queue
    <2>5. Queue(c.node)'
      BY <2>1, <2>2, <2>3, <2>4, QueueForgets DEF QueueInv, Starting
    <2> QED BY <1>o, <2>1, <2>2, <2>3, <2>5
  <1>13. ASSUME NEW c \in cmds, HeartbeatReply(c) \/ UpdateReply(c) PROVE QueueInv'
    <2>1. c.node \in Nodes /\ UNCHANGED <<op, instanceId>>
      BY <1>13, Fields DEF HeartbeatReply, UpdateReply
    <2>2. fenceLeaseLoss(c.node) \/ UNCHANGED <<running, lifecycle>>
      BY <1>13 DEF HeartbeatReply, UpdateReply
    <2> QED BY <1>k, <2>1, <2>2, QueueFenced
  <1>14. ASSUME NEW n \in Nodes, SafetyTimerFires(n) \/ assertLeaseSafe(n) \/ fence(n) PROVE QueueInv'
    <2>1. UNCHANGED <<op, instanceId>> /\ (fenceLeaseLoss(n) \/ UNCHANGED <<running, lifecycle>>)
      BY <1>14 DEF SafetyTimerFires, assertLeaseSafe, fence
    <2> QED BY <1>k, <2>1, QueueFenced
  <1>15. ASSUME NEW n \in Nodes, doHeartbeat(n) \/ updateNodeMetadata(n) PROVE QueueInv'
    BY <1>k, <1>15 DEF doHeartbeat, updateNodeMetadata
  <1>16. ASSUME NEW n \in Nodes, Crash(n) PROVE QueueInv'
    <2>1. /\ lifecycle'[n] = <<>> /\ ~running'[n] /\ op'[n] = "idle" /\ instanceId'[n] = 0
          /\ \A m \in Nodes \ {n} : /\ lifecycle'[m] = lifecycle[m] /\ op'[m] = op[m]
                                    /\ running'[m] = running[m] /\ instanceId'[m] = instanceId[m]
      BY <1>16 DEF Crash, TypeOK
    <2>2. Queue(n)'
      <3>1. \A k : ~QueuedStart(lifecycle[n], k)'
        BY <2>1 DEF QueuedStart
      <3> QED BY <2>1, <3>1 DEF Queue
    <2> QED BY <1>o, <2>1, <2>2
  <1>17. ASSUME NEW c \in cmds, Network(c) PROVE QueueInv'
    <2>1. UNCHANGED <<running, lifecycle, op, instanceId>>
      BY <1>17 DEF Network, RedisExecutes, CallRejects, Resent, GhostExecutes, GhostVanishes
    <2> QED BY <1>k, <2>1
  <1>18. CASE Cleanup \/ Tick \/ UNCHANGED vars
    <2>1. UNCHANGED <<running, lifecycle, op, instanceId>>
      BY <1>18 DEF Cleanup, Tick, vars
    <2> QED BY <1>k, <2>1
  <1> QED BY <1>1, <1>2, <1>3, <1>4, <1>5, <1>6, <1>7, <1>8, <1>9, <1>10, <1>11, <1>12, <1>13,
             <1>14, <1>15, <1>16, <1>17, <1>18 DEF Next, Lifecycle, Lease, Handlers
Owned(id) == \E n \in Nodes : instanceId[n] = id
Leaves(id) == \E c \in cmds : c.id = id /\ c.kind = "deregister"

\* As long as no call was rejected, an answered DEREGISTER has removed its id.
OrphanInv ==
  faults = 0 =>
    /\ \A c \in cmds : c.stage \in {"sent", "granted", "denied"}
    /\ \A c \in cmds : c.kind = "deregister" /\ c.stage = "granted" => c.id \notin members
    /\ \A id \in members : Owned(id) \/ Leaves(id) \/ id \in Expired

\* The steps of the nodes: an id is given up only with a DEREGISTER under way.
LEMMA OrphansKept ==
  ASSUME TypeOK, OrphanInv, UNCHANGED <<members, score>>, now' \in Nat, now <= now', faults' = faults,
         \A c \in cmds' : c \in cmds \/ c.stage = "sent",
         faults = 0 => \A c \in cmds : c.kind = "deregister" => c \in cmds' \/ c.id \notin members,
         \A n \in Nodes : \/ instanceId'[n] = instanceId[n] \/ instanceId[n] = 0
                          \/ \E c \in cmds' : c.id = instanceId[n] /\ c.kind = "deregister"
  PROVE  OrphanInv'
  <1> SUFFICES ASSUME faults = 0
               PROVE  /\ \A c \in cmds' : c.stage \in {"sent", "granted", "denied"}
                      /\ \A c \in cmds' : c.kind = "deregister" /\ c.stage = "granted" => c.id \notin members
                      /\ \A id \in members : Owned(id)' \/ Leaves(id)' \/ id \in Expired'
    BY DEF OrphanInv
  <1>1. /\ \A c \in cmds : c.stage \in {"sent", "granted", "denied"}
        /\ \A c \in cmds : c.kind = "deregister" /\ c.stage = "granted" => c.id \notin members
        /\ \A id \in members : Owned(id) \/ Leaves(id) \/ id \in Expired
    BY DEF OrphanInv
  <1>2. ASSUME NEW id \in members PROVE Owned(id)' \/ Leaves(id)' \/ id \in Expired'
    <2>1. id \in Ids /\ id # 0 /\ score[id] \in Nat /\ TTL \in Nat /\ now \in Nat
      BY IdsArePositive, MeshAssumption DEF TypeOK
    <2>2. CASE Owned(id)
      <3>1. PICK n \in Nodes : instanceId[n] = id
        BY <2>2 DEF Owned
      <3> QED BY <2>1, <3>1 DEF Owned, Leaves
    <2>3. CASE Leaves(id)
      BY <2>3 DEF Leaves
    <2>4. CASE id \in Expired
      BY <2>1, <2>4 DEF Expired
    <2> QED BY <1>1, <2>2, <2>3, <2>4
  <1> QED BY <1>1, <1>2

\* failStart() gives an id up and sends its DEREGISTER.
LEMMA OrphansForgotten ==
  ASSUME TypeOK, OrphanInv, NEW n \in Nodes, instanceId[n] # 0, NEW rest \in SUBSET cmds,
         \A c \in cmds : c.kind = "deregister" => c \in rest,
         failStart(n, rest), UNCHANGED <<members, score, now, faults>>
  PROVE  OrphanInv'
  <1> DEFINE new == Cmd("deregister", n, instanceId[n], 0)
  <1>1. new.kind = "deregister" /\ new.id = instanceId[n] /\ new.stage = "sent"
    BY DEF Cmd
  <1>2. /\ cmds' = rest \cup {new}
        /\ \A m \in Nodes \ {n} : instanceId'[m] = instanceId[m]
    BY DEF failStart, TypeOK
  <1> HIDE DEF new
  <1>3. /\ \A c \in cmds' : c \in cmds \/ c.stage = "sent"
        /\ \A c \in cmds : c.kind = "deregister" => c \in cmds' \/ c.id \notin members
    BY <1>1, <1>2
  <1>4. \A m \in Nodes : \/ instanceId'[m] = instanceId[m] \/ instanceId[m] = 0
                         \/ \E c \in cmds' : c.id = instanceId[m] /\ c.kind = "deregister"
    BY <1>1, <1>2
  <1>5. now' \in Nat /\ now <= now'
    BY DEF TypeOK
  <1> QED BY <1>3, <1>4, <1>5, OrphansKept

\* Redis executes a command that is still awaited.
LEMMA OrphansExecuted ==
  ASSUME TypeOK, Control, OrphanInv, NEW c \in cmds, RedisExecutes(c)
  PROVE  OrphanInv'
  <1> DEFINE d == At(c, Result(c))
  <1>0. /\ c.stage = "sent" /\ cmds' = (cmds \ {c}) \cup {d}
        /\ members' = MembersAfter(c) /\ score' = ScoreAfter(c)
        /\ UNCHANGED <<now, faults, instanceId>>
    BY DEF RedisExecutes, Executes, idVars
  <1>1. /\ c.kind \in Kinds /\ c.node \in Nodes /\ c.id \in Ids /\ score \in [Ids -> Nat]
        /\ members \in SUBSET Ids /\ now \in Nat /\ TTL \in Nat
    BY Fields, MeshAssumption DEF TypeOK
  <1>2. Result(c) \in {"granted", "denied"} /\ Result(c) \in Stages
    BY ScriptType
  <1>3. d.kind = c.kind /\ d.id = c.id /\ d.stage = Result(c)
    BY <1>2, AtFields
  <1>4. c.kind = "deregister" => d.stage = "granted"
    BY <1>3 DEF Result
  <1> HIDE DEF d
  <1> SUFFICES ASSUME faults = 0
               PROVE  /\ \A e \in cmds' : e.stage \in {"sent", "granted", "denied"}
                      /\ \A e \in cmds' : e.kind = "deregister" /\ e.stage = "granted" => e.id \notin members'
                      /\ \A id \in members' : Owned(id)' \/ Leaves(id)' \/ id \in Expired'
    BY <1>0 DEF OrphanInv
  <1>5. /\ \A e \in cmds : e.stage \in {"sent", "granted", "denied"}
        /\ \A e \in cmds : e.kind = "deregister" /\ e.stage = "granted" => e.id \notin members
        /\ \A id \in members : Owned(id) \/ Leaves(id) \/ id \in Expired
    BY DEF OrphanInv
  <1>6. \A e \in cmds' : e.stage \in {"sent", "granted", "denied"}
    BY <1>0, <1>2, <1>3, <1>5
  <1>7. c.kind = "create" => instanceId[c.node] = c.id
    BY <1>0 DEF Control, LifecycleWaits, OfStart, Awaited
  <1>8. \A id : /\ Owned(id)' <=> Owned(id)
                /\ Leaves(id)' <=> Leaves(id)
    BY <1>0, <1>3 DEF Owned, Leaves
  <1>9. ASSUME NEW e \in cmds', e.kind = "deregister", e.stage = "granted" PROVE e.id \notin members'
    <2>1. CASE e = d
      BY <1>0, <1>3, <1>9, <2>1 DEF MembersAfter
    <2>2. CASE e \in cmds
      <3>1. e.id \notin members
        BY <1>5, <1>9, <2>2
      <3>2. c.kind = "create" => e.id # c.id
        BY <1>1, <1>7, <1>9, <2>2 DEF Control, DeregistersAreForgotten
      <3> QED BY <1>0, <3>1, <3>2 DEF MembersAfter
    <2> QED BY <1>0, <2>1, <2>2
  <1>10. ASSUME NEW id \in members' PROVE Owned(id)' \/ Leaves(id)' \/ id \in Expired'
    <2>1. CASE c.kind = "create" /\ id = c.id
      BY <1>1, <1>7, <1>8, <2>1 DEF Owned
    <2>2. CASE ~(c.kind = "create" /\ id = c.id)
      <3>1. id \in members /\ ~(c.kind = "deregister" /\ id = c.id)
        BY <1>0, <2>2 DEF MembersAfter
      <3>2. ASSUME id \in Expired PROVE id \in Expired'
        <4>1. id \in Ids /\ score[id] + TTL <= now
          BY <1>1, <3>1, <3>2 DEF Expired
        <4>2. ~Active(id)
          BY <1>1, <4>1 DEF Active
        <4>3. score'[id] = score[id]
          BY <1>0, <1>1, <2>2, <3>1, <4>1, <4>2 DEF ScoreAfter
        <4> QED BY <1>0, <4>1, <4>3 DEF Expired
      <3> QED BY <1>5, <1>8, <3>1, <3>2
    <2> QED BY <2>1, <2>2
  <1> QED BY <1>6, <1>9, <1>10
\* Every step accounts for the ids listed in Redis.
LEMMA OrphanStep ==
  ASSUME TypeOK, Control, QueueInv, OrphanInv, [Next]_vars
  PROVE  OrphanInv'
  <1> USE DEF redisVars, leaseVars, idVars, lifeVars
  <1>f. ASSUME faults' = faults + 1 PROVE OrphanInv'
    <2>1. faults' # 0
      BY <1>f DEF TypeOK
    <2> QED BY <2>1 DEF OrphanInv
  <1>n. now \in Nat /\ now <= now
    BY DEF TypeOK
  <1>k. ASSUME UNCHANGED <<members, score, now, faults, instanceId>>,
               \A c \in cmds' : c \in cmds \/ c.stage = "sent",
               \A c \in cmds : c.kind = "deregister" => c \in cmds'
        PROVE  OrphanInv'
    BY <1>k, <1>n, OrphansKept
  <1>id. ASSUME NEW n \in Nodes, op[n] \in {"subscribe", "create", "register"} PROVE instanceId[n] # 0
    BY <1>id DEF Control, HasId
  <1>c. ASSUME NEW c \in cmds, OfLifecycle(c) PROVE c.node \in Nodes /\ op[c.node] = c.kind
    BY <1>c, Fields DEF Control, LifecycleWaits
  <1>s. ASSUME NEW k, NEW n, NEW id, NEW at PROVE Cmd(k, n, id, at).stage = "sent"
    BY DEF Cmd
  <1>1. ASSUME NEW n \in Nodes, start(n) \/ stop(n) \/ StartBegins(n) \/ StopBegins(n) PROVE OrphanInv'
    <2>1. UNCHANGED <<members, score, now, faults, instanceId, cmds>>
      BY <1>1 DEF start, stop, StartBegins, StopBegins
    <2> QED BY <1>k, <2>1
  <1>2. ASSUME NEW n \in Nodes, IncrReplies(n) PROVE OrphanInv'
    <2>1. /\ UNCHANGED <<members, score, now, faults, cmds>> /\ op[n] = "incr"
          /\ \A m \in Nodes \ {n} : instanceId'[m] = instanceId[m]
      BY <1>2 DEF IncrReplies, TypeOK
    <2>2. instanceId[n] = 0
      BY <2>1 DEF QueueInv, Queue
    <2> QED BY <1>n, <2>1, <2>2, OrphansKept
  <1>3. ASSUME NEW n \in Nodes, IncrRejects(n) \/ SubscribeRejects(n) \/ Crash(n) PROVE OrphanInv'
    BY <1>3, <1>f DEF IncrRejects, SubscribeRejects, Crash
  <1>4. ASSUME NEW n \in Nodes, Subscribed(n) \/ doHeartbeat(n) \/ updateNodeMetadata(n) PROVE OrphanInv'
    <2>1. /\ UNCHANGED <<members, score, now, faults, instanceId>>
          /\ \E k, at : cmds' = cmds \cup {Cmd(k, n, instanceId[n], at)}
      BY <1>4 DEF Subscribed, doHeartbeat, updateNodeMetadata
    <2> QED BY <1>k, <1>s, <2>1
  <1>5. ASSUME NEW n \in Nodes, StopLeaves(n) PROVE OrphanInv'
    <2>1. UNCHANGED <<members, score, now, faults>>
      BY <1>5 DEF StopLeaves
    <2>2. CASE instanceId[n] # 0
      <3>1. failStart(n, cmds)
        BY <1>5, <2>2 DEF StopLeaves
      <3> QED BY <2>1, <2>2, <3>1, OrphansForgotten
    <2>3. CASE instanceId[n] = 0
      BY <1>5, <1>k, <2>1, <2>3 DEF StopLeaves
    <2> QED BY <2>2, <2>3
  <1>6. ASSUME NEW n \in Nodes, SafetyTimerFires(n) \/ assertLeaseSafe(n) \/ fence(n) PROVE OrphanInv'
    <2>1. UNCHANGED <<members, score, now, faults, instanceId, cmds>>
      BY <1>6 DEF SafetyTimerFires, assertLeaseSafe, fence
    <2> QED BY <1>k, <2>1
  <1>g. ASSUME NEW c \in cmds, OfLifecycle(c), c.kind # "deregister", failStart(c.node, cmds \ {c}),
               UNCHANGED <<members, score, now, faults>>
        PROVE  OrphanInv'
    <2>1. c.node \in Nodes /\ instanceId[c.node] # 0
      BY <1>c, <1>g, <1>id DEF OfLifecycle
    <2>2. \A d \in cmds : d.kind = "deregister" => d \in cmds \ {c}
      BY <1>g
    <2> QED BY <1>g, <2>1, <2>2, OrphansForgotten
  <1>7. ASSUME NEW c \in cmds, CreateReply(c) PROVE OrphanInv'
    <2>1. /\ c.kind = "create" /\ OfLifecycle(c) /\ UNCHANGED <<members, score, now, faults>>
      BY <1>7 DEF CreateReply, OfLifecycle, Awaited
    <2>2. CASE c.stage = "granted"
      <3>1. /\ cmds' = (cmds \ {c}) \cup {Cmd("register", c.node, c.id, c.at)}
            /\ UNCHANGED instanceId
        BY <1>7, <2>2 DEF CreateReply
      <3> QED BY <1>k, <1>s, <2>1, <3>1
    <2>3. CASE c.stage # "granted"
      <3>1. failStart(c.node, cmds \ {c})
        BY <1>7, <2>3 DEF CreateReply
      <3> QED BY <1>g, <2>1, <3>1
    <2> QED BY <2>2, <2>3
  <1>8. ASSUME NEW c \in cmds, RegisterReply(c) PROVE OrphanInv'
    <2>1. /\ c.kind = "register" /\ OfLifecycle(c) /\ UNCHANGED <<members, score, now, faults>>
      BY <1>8 DEF RegisterReply, OfLifecycle, Awaited
    <2>2. CASE c.stage = "granted" /\ now < c.at + TTL
      <3>1. cmds' = cmds \ {c} /\ UNCHANGED instanceId
        BY <1>8, <2>2 DEF RegisterReply
      <3> QED BY <1>k, <2>1, <3>1
    <2>3. CASE ~(c.stage = "granted" /\ now < c.at + TTL)
      <3>1. failStart(c.node, cmds \ {c})
        BY <1>8, <2>3 DEF RegisterReply
      <3> QED BY <1>g, <2>1, <3>1
    <2> QED BY <2>2, <2>3
  <1>9. ASSUME NEW c \in cmds, DeregisterReply(c) PROVE OrphanInv'
    <2>1. /\ UNCHANGED <<members, score, now, faults, instanceId>> /\ cmds' = cmds \ {c}
          /\ c.kind = "deregister" /\ c.stage \in {"granted", "failed"}
      BY <1>9 DEF DeregisterReply
    <2>2. faults = 0 => c.id \notin members
      BY <2>1 DEF OrphanInv
    <2> QED BY <1>n, <2>1, <2>2, OrphansKept
  <1>10. ASSUME NEW c \in cmds, HeartbeatReply(c) \/ UpdateReply(c) PROVE OrphanInv'
    <2>1. /\ UNCHANGED <<members, score, now, faults, instanceId>> /\ cmds' = cmds \ {c}
          /\ c.kind # "deregister"
      BY <1>10 DEF HeartbeatReply, UpdateReply
    <2> QED BY <1>k, <2>1
  <1>11. ASSUME NEW c \in cmds, CallRejects(c) \/ Resent(c) PROVE OrphanInv'
    BY <1>11, <1>f DEF CallRejects, Resent
  <1>12. ASSUME NEW c \in cmds, GhostExecutes(c) \/ GhostVanishes(c) PROVE OrphanInv'
    <2>1. c.stage = "ghost" /\ faults' = faults
      BY <1>12 DEF GhostExecutes, GhostVanishes
    <2>2. faults # 0
      BY <2>1 DEF OrphanInv
    <2> QED BY <2>1, <2>2 DEF OrphanInv
  <1>13. CASE Cleanup
    <2>1. PICK batch \in SUBSET Expired :
            /\ members' = members \ batch
            /\ score' = [id \in Ids |-> IF id \in batch THEN 0 ELSE score[id]]
            /\ UNCHANGED <<now, cmds, instanceId, faults>>
      BY <1>13 DEF Cleanup
    <2>2. \A id \in members' : id \in members /\ (id \in Expired => id \in Expired')
      BY <2>1 DEF Expired, TypeOK
    <2>3. \A id : /\ Owned(id)' <=> Owned(id)
                  /\ Leaves(id)' <=> Leaves(id)
      BY <2>1 DEF Owned, Leaves
    <2> QED BY <2>1, <2>2, <2>3 DEF OrphanInv
  <1>14. CASE Tick
    <2>1. UNCHANGED <<members, score, faults, cmds, instanceId>> /\ now' = now + 1
      BY <1>14 DEF Tick
    <2>2. now' \in Nat /\ now <= now'
      BY <1>n, <2>1
    <2> QED BY <2>1, <2>2, OrphansKept
  <1>15. CASE UNCHANGED vars
    BY <1>k, <1>15 DEF vars
  <1> QED BY <1>1, <1>2, <1>3, <1>4, <1>5, <1>6, <1>7, <1>8, <1>9, <1>10, <1>11, <1>12, <1>13,
             <1>14, <1>15, OrphansExecuted DEF Next, Lifecycle, Lease, Handlers, Network

\* Without rejected calls and crashes, an id listed in Redis belongs to a node
\* that still uses it, is being deregistered, or has expired and waits for its
\* cleanup: a service that is fenced, stopped and started again in any order
\* never draws a new id over one it still has.
THEOREM NoIdIsOrphaned ==
  ASSUME Disciplined
  PROVE  Spec => []NoOrphans
  <1> DEFINE Inv == IInv /\ QueueInv /\ OrphanInv
  <1>1. Init => Inv
    <2>1. Init => IInv
      BY MembershipStarts
    <2>2. Init => QueueInv
      BY DEF Init, QueueInv, Queue, QueuedStart
    <2>3. Init => OrphanInv
      BY DEF Init, OrphanInv
    <2> QED BY <2>1, <2>2, <2>3
  <1>2. Inv /\ [Next]_vars => Inv'
    BY TypeStep, ControlStep, LeaseStep, QueueStep, OrphanStep DEF IInv
  <1>3. Inv => NoOrphans
    BY DEF OrphanInv, NoOrphans, Owned, Leaves
  <1> QED BY <1>1, <1>2, <1>3, PTL DEF Spec
=============================================================================
