----------------------------- MODULE MeshCleanup -----------------------------
(***************************************************************************)
(* Draining of cleanup obligations by the mesh leader,                     *)
(* src/src/services/mesh.ts.                                               *)
(*                                                                         *)
(* CLEANUP_SCRIPT moves an expired instance id from the membership to the  *)
(* cleanup list; a drain of the current leader claims it (into the         *)
(* processing list), runs the user's callback and acknowledges it. A drain *)
(* that has lost its authority may finish the callback it is in but must   *)
(* do nothing else. Membership is module MeshMembership, the election      *)
(* LeaderService: here a node becomes or stops being leader, gets fenced,  *)
(* stopped or killed at any moment, and several nodes may lead at once.    *)
(***************************************************************************)
EXTENDS Naturals, Sequences, FiniteSets

CONSTANTS
  Nodes,      \* MeshService objects
  Ids,        \* instance ids that expire
  Poison,     \* ids whose cleanup callback always rejects
  BatchSize,  \* cleanupBatchSize
  MaxDrains,  \* the limit of retained drains (8 in the code)
  NoClaim,    \* CLAIM_CLEANUP found the list empty
  MaxEpoch,   \* bound: epochs of a node
  MaxFaults   \* bound: rejected calls and crashes

Claims == [id : Ids, token : Nat]

\* The answer "no claim" is not a claim, the limits are numbers.
CleanupAssumption ==
  /\ NoClaim \notin Claims
  /\ BatchSize \in Nat /\ MaxDrains \in Nat

VARIABLES
  expired,     \* Redis: expired members, oldest heartbeat first
  cleanup,     \* Redis: cleanup list, left end first
  processing,  \* Redis: processing list of claims, left end first
  running,     \* this.running
  safe,        \* performance.now() < this.leaseSafeUntil
  election,    \* this.leaderService is set
  leading,     \* this.leaderService.isLeader
  epoch,       \* this.generation and this.leaderEpoch, as one counter
  drains,      \* this.cleanupDrains of all nodes
  again,       \* a cleanup continuation timer is armed
  late,        \* commands whose sender died or gave up, still on the wire
  died,        \* history: ids that have expired
  finished,    \* history: ids whose callback has succeeded
  faults       \* rejected calls and crashes so far

redisVars == <<expired, cleanup, processing>>
nodeVars  == <<running, safe, election, leading, epoch, again>>
vars == <<redisVars, nodeVars, drains, late, died, finished, faults>>

\* A pass of doCleanup(): the call it waits for, whether Redis or the callback
\* has answered, the claims handled, the claim in hand, continueCleanup.
Calls  == {"RECOVER", "CLEANUP", "CLAIM", "callback", "ACK", "NACK"}
Drains == [node : Nodes, epoch : Nat, call : Calls,
           stage : {"sent", "answered", "failed"}, count : Nat,
           claim : Claims \cup {NoClaim}, more : BOOLEAN]

TypeOK ==
  /\ expired \in Seq(Ids) /\ cleanup \in Seq(Ids)
  /\ processing \in Seq(Claims)
  /\ \A v \in {running, safe, election, leading, again} : v \in [Nodes -> BOOLEAN]
  /\ epoch \in [Nodes -> Nat]
  /\ drains \in SUBSET Drains /\ late \in SUBSET Drains
  /\ died \in SUBSET Ids /\ finished \in SUBSET Ids /\ faults \in Nat

Init ==
  /\ expired = <<>> /\ cleanup = <<>> /\ processing = <<>>
  /\ running = [n \in Nodes |-> FALSE] /\ safe = [n \in Nodes |-> FALSE]
  /\ election = [n \in Nodes |-> FALSE] /\ leading = [n \in Nodes |-> FALSE]
  /\ again = [n \in Nodes |-> FALSE] /\ epoch = [n \in Nodes |-> 0]
  /\ drains = {} /\ late = {} /\ died = {} /\ finished = {} /\ faults = 0

-----------------------------------------------------------------------------
(***************************************************************************)
(* Redis scripts, as executed for drain d.                                 *)
(***************************************************************************)
Elements(s) == {s[k] : k \in 1..Len(s)}
Least(a, b) == IF a < b THEN a ELSE b
Suffix(s, k) == SubSeq(s, Len(s) - k + 1, Len(s))

\* LREM with count 1: the first occurrence goes, if there is one.
First(s, e) == CHOOSE k \in 1..Len(s) : s[k] = e /\ \A j \in 1..(k - 1) : s[j] # e
Without(s, e) ==
  IF e \in Elements(s)
  THEN SubSeq(s, 1, First(s, e) - 1) \o SubSeq(s, First(s, e) + 1, Len(s))
  ELSE s

RECOVER_CLEANUP ==
  LET k == Least(BatchSize, Len(processing))
      back == Suffix(processing, k)
  IN /\ cleanup' = [i \in 1..k |-> back[i].id] \o cleanup
     /\ processing' = SubSeq(processing, 1, Len(processing) - k)
     /\ UNCHANGED expired

CLEANUP ==
  LET k == Least(BatchSize, Len(expired))
  IN /\ cleanup' = [i \in 1..k |-> expired[k + 1 - i]] \o cleanup
     /\ expired' = SubSeq(expired, k + 1, Len(expired))
     /\ UNCHANGED processing

\* The obligation on the right end, tagged with a fresh token: a randomUUID()
\* that no claim still referred to anywhere carries.
UsedTokens ==
  {c.token : c \in Elements(processing) \cup
                   ({d.claim : d \in drains \cup late} \ {NoClaim})}

NextClaim ==
  IF cleanup = <<>> THEN NoClaim
  ELSE [id    |-> cleanup[Len(cleanup)],
        token |-> CHOOSE t \in 0..Cardinality(UsedTokens) : t \notin UsedTokens]

\* Mutant: a claim is handed out without being kept in the processing list.
CLAIM_CLEANUPForgets ==
  IF cleanup = <<>>
  THEN UNCHANGED redisVars
  ELSE /\ cleanup' = SubSeq(cleanup, 1, Len(cleanup) - 1)
       /\ UNCHANGED <<expired, processing>>

CLAIM_CLEANUP ==
  IF cleanup = <<>>
  THEN UNCHANGED redisVars
  ELSE /\ cleanup' = SubSeq(cleanup, 1, Len(cleanup) - 1)
       /\ processing' = <<NextClaim>> \o processing
       /\ UNCHANGED expired

ACK_CLEANUP(claim) ==
  /\ processing' = Without(processing, claim)
  /\ UNCHANGED <<expired, cleanup>>

\* Only a claim that is still in the processing list goes back, on the left
\* end, behind the obligations already waiting.
NACK_CLEANUP(claim) ==
  /\ IF claim \in Elements(processing)
       THEN /\ processing' = Without(processing, claim)
            /\ cleanup' = <<claim.id>> \o cleanup
       ELSE UNCHANGED <<processing, cleanup>>
  /\ UNCHANGED expired

Executes(d) ==
  CASE d.call = "RECOVER" -> RECOVER_CLEANUP
    [] d.call = "CLEANUP" -> CLEANUP
    [] d.call = "CLAIM"   -> CLAIM_CLEANUP
    [] d.call = "ACK"     -> ACK_CLEANUP(d.claim)
    [] d.call = "NACK"    -> NACK_CLEANUP(d.claim)

\* What the drain learns from the answer. A full batch asks for another pass.
WithAnswer(d) ==
  [d EXCEPT !.stage = "answered",
            !.claim = IF d.call = "CLAIM" THEN NextClaim ELSE @,
            !.more = \/ @
                     \/ d.call = "RECOVER" /\ Len(processing) >= BatchSize
                     \/ d.call = "CLEANUP" /\ Len(expired) >= BatchSize]

-----------------------------------------------------------------------------
(***************************************************************************)
(* Starting a drain.                                                       *)
(***************************************************************************)
DrainsOf(n) == {d \in drains : d.node = n}

\* doCleanup() up to its first await.
doCleanup(n, e) ==
  [node |-> n, epoch |-> e, call |-> "RECOVER", stage |-> "sent", count |-> 0,
   claim |-> NoClaim, more |-> FALSE]

\* startCleanup() of leader n in epoch e. One drain per epoch; with the limit
\* of retained drains reached, leadership and membership are given up instead.
startCleanup(n, e) ==
  LET saturated == /\ \A d \in DrainsOf(n) : d.epoch # e
                   /\ Cardinality(DrainsOf(n)) >= MaxDrains
  IN /\ drains' = IF saturated \/ ~safe[n] \/ \E d \in DrainsOf(n) : d.epoch = e
                  THEN drains ELSE drains \cup {doCleanup(n, e)}
     /\ leading' = [leading EXCEPT ![n] = ~saturated]
     /\ epoch' = [epoch EXCEPT ![n] = IF saturated THEN e + 1 ELSE e]
     /\ election' = [election EXCEPT ![n] = @ /\ ~saturated]
     /\ running' = [running EXCEPT ![n] = @ /\ ~saturated]

CanDraw(n, k) == epoch[n] + k <= MaxEpoch

\* startImpl() has joined the mesh and started the election.
start(n) ==
  /\ ~running[n] /\ ~election[n] /\ CanDraw(n, 1)
  /\ running' = [running EXCEPT ![n] = TRUE]
  /\ safe' = [safe EXCEPT ![n] = TRUE]
  /\ election' = [election EXCEPT ![n] = TRUE]
  /\ epoch' = [epoch EXCEPT ![n] = @ + 1]
  /\ UNCHANGED <<redisVars, died, leading, again, drains, late, finished, faults>>

\* stopImpl(): generation and leaderEpoch move on, the election is left.
stopImpl(n) ==
  /\ election[n] /\ CanDraw(n, 1)
  /\ running' = [running EXCEPT ![n] = FALSE]
  /\ election' = [election EXCEPT ![n] = FALSE]
  /\ leading' = [leading EXCEPT ![n] = FALSE]
  /\ epoch' = [epoch EXCEPT ![n] = @ + 1]
  /\ UNCHANGED <<redisVars, died, safe, again, drains, late, finished, faults>>

\* fenceLeaseLoss(), for whatever reason.
fenceLeaseLoss(n) ==
  /\ running[n]
  /\ running' = [running EXCEPT ![n] = FALSE]
  /\ UNCHANGED <<redisVars, died, safe, election, leading, epoch, again, drains, late,
                 finished, faults>>

\* The provable lease runs out before anyone has noticed, or a late renewal
\* extends it again.
LeaseDoubted(n) ==
  /\ running[n] /\ safe[n] /\ faults < MaxFaults
  /\ faults' = faults + 1
  /\ safe' = [safe EXCEPT ![n] = FALSE]
  /\ UNCHANGED <<redisVars, died, running, election, leading, epoch, again, drains,
                 late, finished>>

LeaseExtended(n) ==
  /\ running[n] /\ ~safe[n]
  /\ safe' = [safe EXCEPT ![n] = TRUE]
  /\ UNCHANGED <<redisVars, died, running, election, leading, epoch, again, drains,
                 late, finished, faults>>

\* The becameLeader callback: a new epoch and, while running, a drain.
BecameLeader(n) ==
  /\ election[n] /\ ~leading[n] /\ CanDraw(n, 1)
  /\ IF running[n]
       THEN startCleanup(n, epoch[n] + 1)
       ELSE /\ leading' = [leading EXCEPT ![n] = TRUE]
            /\ epoch' = [epoch EXCEPT ![n] = @ + 1]
            /\ UNCHANGED <<running, election, drains>>
  /\ UNCHANGED <<redisVars, died, safe, again, late, finished, faults>>

\* The lostLeader callback.
LostLeader(n) ==
  /\ leading[n] /\ CanDraw(n, 1)
  /\ leading' = [leading EXCEPT ![n] = FALSE]
  /\ epoch' = [epoch EXCEPT ![n] = @ + 1]
  /\ UNCHANGED <<redisVars, died, running, safe, election, again, drains, late, finished,
                 faults>>

\* After a heartbeat of the leader, or when the continuation timer fires.
HeartbeatCleanup(n) ==
  /\ running[n] /\ leading[n]
  /\ startCleanup(n, epoch[n])
  /\ UNCHANGED <<redisVars, died, safe, again, late, finished, faults>>

ContinuationFires(n) ==
  /\ again[n]
  /\ again' = [again EXCEPT ![n] = FALSE]
  /\ IF running[n] /\ leading[n]
       THEN startCleanup(n, epoch[n])
       ELSE UNCHANGED <<running, election, leading, epoch, drains>>
  /\ UNCHANGED <<redisVars, died, safe, late, finished, faults>>

-----------------------------------------------------------------------------
(***************************************************************************)
(* One drain.                                                              *)
(***************************************************************************)
canContinue(d) ==
  /\ running[d.node] /\ leading[d.node] /\ safe[d.node]
  /\ epoch[d.node] = d.epoch

\* The drain ends; a continuation is scheduled when there may be more to do.
Ends(d, more) ==
  /\ drains' = drains \ {d}
  /\ again' = [again EXCEPT ![d.node] = @ \/ (more /\ canContinue(d))]

\* The drain goes on with the next call, or returns when it may not.
Proceeds(d, next) ==
  /\ drains' = (drains \ {d}) \cup (IF canContinue(d) THEN {next} ELSE {})
  /\ UNCHANGED again

Sends(d, call) == [d EXCEPT !.call = call, !.stage = "sent"]

Answered(d, call) == d.call = call /\ d.stage = "answered"

DrainUnchanged ==
  UNCHANGED <<redisVars, died, running, safe, election, leading, epoch, late, finished,
              faults>>

RecoverAnswered(d) ==
  /\ Answered(d, "RECOVER") /\ Proceeds(d, Sends(d, "CLEANUP"))
  /\ DrainUnchanged

CleanupAnswered(d) ==
  /\ Answered(d, "CLEANUP") /\ Proceeds(d, Sends(d, "CLAIM"))
  /\ DrainUnchanged

\* An empty list ends the pass; otherwise the user's callback is invoked.
ClaimAnswered(d) ==
  /\ Answered(d, "CLAIM")
  /\ IF d.claim = NoClaim /\ canContinue(d)
       THEN Ends(d, d.more)
       ELSE Proceeds(d, Sends(d, "callback"))
  /\ DrainUnchanged

CallbackResolves(d) ==
  /\ d.call = "callback" /\ d.claim.id \notin Poison
  /\ finished' = finished \cup {d.claim.id}
  /\ Proceeds(d, Sends(d, "ACK"))
  /\ UNCHANGED <<redisVars, died, running, safe, election, leading, epoch, late, faults>>

CallbackRejects(d) ==
  /\ d.call = "callback"
  /\ d.claim.id \in Poison \/ faults < MaxFaults
  /\ faults' = IF d.claim.id \in Poison THEN faults ELSE faults + 1
  /\ Proceeds(d, Sends(d, "NACK"))
  /\ UNCHANGED <<redisVars, died, running, safe, election, leading, epoch, late, finished>>

\* After the last claim of the batch the pass ends and asks for another one.
AckAnswered(d) ==
  /\ Answered(d, "ACK")
  /\ IF d.count + 1 = BatchSize /\ canContinue(d)
       THEN Ends(d, TRUE)
       ELSE Proceeds(d, [Sends(d, "CLAIM") EXCEPT !.count = @ + 1,
                                                  !.claim = NoClaim])
  /\ DrainUnchanged

\* A failed callback ends the pass; its obligation waits for a later one.
NackAnswered(d) ==
  /\ Answered(d, "NACK") /\ Ends(d, d.more)
  /\ DrainUnchanged

\* A rejected call ends the pass, except that a rejected ACK is nacked.
CallFailed(d) ==
  /\ d.stage = "failed"
  /\ IF d.call = "ACK" THEN Proceeds(d, Sends(d, "NACK")) ELSE Ends(d, d.more)
  /\ DrainUnchanged

-----------------------------------------------------------------------------
(***************************************************************************)
(* Redis and the environment.                                              *)
(***************************************************************************)
OnRedis(d) == d.call # "callback"

RedisExecutes(d) ==
  /\ d.stage = "sent" /\ OnRedis(d)
  /\ Executes(d)
  /\ drains' = (drains \ {d}) \cup {WithAnswer(d)}
  /\ UNCHANGED <<nodeVars, died, late, finished, faults>>

\* A call rejects, before or after Redis executed it.
CallRejects(d) ==
  /\ d.stage \in {"sent", "answered"} /\ OnRedis(d) /\ faults < MaxFaults
  /\ faults' = faults + 1
  /\ drains' = (drains \ {d}) \cup {[d EXCEPT !.stage = "failed"]}
  /\ late' = IF d.stage = "sent" THEN late \cup {d} ELSE late
  /\ UNCHANGED <<redisVars, died, nodeVars, finished>>

LateExecutes(d) ==
  /\ Executes(d)
  /\ late' = late \ {d}
  /\ UNCHANGED <<nodeVars, died, drains, finished, faults>>

LateVanishes(d) ==
  /\ late' = late \ {d}
  /\ UNCHANGED <<redisVars, died, nodeVars, drains, finished, faults>>

\* The process dies in the middle of whatever its drains are doing.
Crash(n) ==
  /\ faults < MaxFaults /\ CanDraw(n, 1)
  /\ faults' = faults + 1
  /\ running' = [running EXCEPT ![n] = FALSE]
  /\ election' = [election EXCEPT ![n] = FALSE]
  /\ leading' = [leading EXCEPT ![n] = FALSE]
  /\ again' = [again EXCEPT ![n] = FALSE]
  /\ epoch' = [epoch EXCEPT ![n] = @ + 1]
  /\ drains' = drains \ DrainsOf(n)
  /\ late' = late \cup {d \in DrainsOf(n) : d.stage = "sent" /\ OnRedis(d)}
  /\ UNCHANGED <<redisVars, died, safe, finished>>

\* A member's heartbeat expires.
NodeExpires(id) ==
  /\ id \notin died
  /\ died' = died \cup {id}
  /\ expired' = Append(expired, id)
  /\ UNCHANGED <<cleanup, processing, nodeVars, drains, late, finished,
                 faults>>

-----------------------------------------------------------------------------
Authority(n) ==
  \/ start(n) \/ stopImpl(n) \/ fenceLeaseLoss(n)
  \/ LeaseDoubted(n) \/ LeaseExtended(n)
  \/ BecameLeader(n) \/ LostLeader(n)
  \/ HeartbeatCleanup(n) \/ ContinuationFires(n)
  \/ Crash(n)

DrainStep(d) ==
  \/ RecoverAnswered(d) \/ CleanupAnswered(d) \/ ClaimAnswered(d)
  \/ CallbackResolves(d) \/ CallbackRejects(d)
  \/ AckAnswered(d) \/ NackAnswered(d) \/ CallFailed(d)

Next ==
  \/ \E n \in Nodes : Authority(n)
  \/ \E d \in drains : DrainStep(d) \/ RedisExecutes(d) \/ CallRejects(d)
  \/ \E d \in late : LateExecutes(d) \/ LateVanishes(d)
  \/ \E id \in Ids : NodeExpires(id)

Spec == Init /\ [][Next]_vars

(***************************************************************************)
(* Fairness: Redis answers, continuations run, the leader's heartbeat      *)
(* keeps calling startCleanup(), and callbacks settle.                     *)
(***************************************************************************)
DrainProceeds(n) == \E d \in drains : d.node = n /\ (DrainStep(d) \/ RedisExecutes(d))

Fairness ==
  \A n \in Nodes :
    WF_vars(HeartbeatCleanup(n)) /\ WF_vars(ContinuationFires(n)) /\ WF_vars(DrainProceeds(n))

FairSpec == Spec /\ Fairness

-----------------------------------------------------------------------------
(***************************************************************************)
(* Properties.                                                             *)
(***************************************************************************)

Occurrences(id) ==
  Cardinality({k \in 1..Len(cleanup) : cleanup[k] = id}) +
  Cardinality({k \in 1..Len(processing) : processing[k].id = id}) +
  Cardinality({k \in 1..Len(expired) : expired[k] = id})

\* The callback obligation of a dead node remains in Redis until its callback
\* has succeeded, whatever leaders, crashes and lost calls do.
NoObligationLost ==
  \A id \in died : Occurrences(id) = 0 => id \in finished

\* An obligation is never duplicated: recovering, nacking and claiming by
\* overlapping leaders move it between the lists but never copy it.
NoObligationCopied == \A id \in Ids : Occurrences(id) <= 1

\* A node retains at most MaxDrains drains, one per epoch, however often
\* leadership changes while user callbacks hang.
DrainsBounded ==
  /\ \A n \in Nodes : Cardinality(DrainsOf(n)) <= MaxDrains
  /\ \A d, e \in drains : d.node = e.node /\ d.epoch = e.epoch => d = e

\* While a leader keeps its authority, every dead node whose callback can
\* succeed is cleaned up: obligations whose callback always rejects, stranded
\* claims of earlier leaders and overlapping leaders do not starve it.
CaughtUp(n) == running[n] /\ leading[n] /\ safe[n] => died \ Poison \subseteq finished
HealthyAreCleaned == \A n \in Nodes : []<>CaughtUp(n)
=============================================================================
