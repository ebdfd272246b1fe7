----------------------------- MODULE RedisMutex -----------------------------
(***************************************************************************)
(* The Redis mode of withMutex(), src/src/helpers/redis/mutex.ts.          *)
(*                                                                         *)
(* A member of Calls is one call of withMutex() on one key, together with  *)
(* the lock identifier it draws (a randomUUID per call), so `key` holds    *)
(* the call whose identifier the Redis key stores. `pipe[c]` is the        *)
(* connection the call uses: a queue of commands that Redis executes, and  *)
(* the client answers, in order.                                           *)
(*                                                                         *)
(* Time is abstracted: a lease may lapse at any moment, because a process  *)
(* pause or a slow connection can outlast lockTtl.                         *)
(***************************************************************************)
EXTENDS Integers, Sequences, FiniteSets

CONSTANTS
  Calls,       \* the calls of withMutex() that compete for the key
  NoLock,      \* the Redis key does not exist
  RetryCount,  \* options.retryCount
  MaxRenewals, \* bound: renewals one call may have in flight
  MaxFaults    \* bound: connections that may be lost

ASSUME MutexAssumption ==
  /\ NoLock \notin Calls
  /\ RetryCount \in Nat
  /\ MaxRenewals \in Nat
  /\ MaxFaults \in Nat

VARIABLES
  key,         \* Redis: the lock identifier stored under the key
  phase,       \* where the call is
  attempts,    \* attempts of redisMutexExec
  aborted,     \* options.signal.aborted
  lockFailed,  \* lockFailed of runWithRedisLock
  failing,     \* errorToThrow !== undefined
  pipe,        \* commands of the call that are not answered yet
  ghosts,      \* commands rejected at the client that Redis may still run
  faults,      \* connections lost so far
  lapsed       \* history: calls whose lease ran out in Redis

vars == <<key, phase, attempts, aborted, lockFailed, failing, pipe, ghosts,
          faults, lapsed>>

(***************************************************************************)
(* "acquire" awaits ACQUIRE_SCRIPT, "wait" sleeps between attempts,        *)
(* "enter" has the callback scheduled, "inside" runs options.fn, "release" *)
(* awaits RELEASE_SCRIPT; "returned" and "threw" are settled calls.        *)
(***************************************************************************)
Phases == {"idle", "acquire", "wait", "enter", "inside", "release",
           "returned", "threw"}

Kinds == {"acquire", "renew", "release"}

(***************************************************************************)
(* "sent" has not been executed; "granted" and "denied" executed with      *)
(* result 1 and 0; "closed" rejected with "Connection is closed."; and     *)
(* "failed" rejected with any other error.                                 *)
(***************************************************************************)
Stages == {"sent", "granted", "denied", "closed", "failed"}

Commands == [kind : Kinds, stage : Stages]

Sent(k) == [kind |-> k, stage |-> "sent"]

TypeOK ==
  /\ key \in Calls \cup {NoLock}
  /\ phase \in [Calls -> Phases]
  /\ attempts \in [Calls -> Nat]
  /\ aborted \in [Calls -> BOOLEAN]
  /\ lockFailed \in [Calls -> BOOLEAN]
  /\ failing \in [Calls -> BOOLEAN]
  /\ pipe \in [Calls -> Seq(Commands)]
  /\ ghosts \in SUBSET (Kinds \X Calls)
  /\ faults \in Nat
  /\ lapsed \in SUBSET Calls

Init ==
  /\ key = NoLock
  /\ phase = [c \in Calls |-> "idle"]
  /\ attempts = [c \in Calls |-> 0]
  /\ aborted = [c \in Calls |-> FALSE]
  /\ lockFailed = [c \in Calls |-> FALSE]
  /\ failing = [c \in Calls |-> FALSE]
  /\ pipe = [c \in Calls |-> <<>>]
  /\ ghosts = {}
  /\ faults = 0
  /\ lapsed = {}

Settled(c) == phase[c] \in {"returned", "threw"}

maxAttempts == IF RetryCount > 1 THEN RetryCount ELSE 1

-----------------------------------------------------------------------------
(***************************************************************************)
(* The three scripts, as Redis runs them for the identifier c.             *)
(***************************************************************************)

Granted(kind, c) == IF kind = "acquire" THEN key = NoLock ELSE key = c

\* Mutant: the owner is not compared before the key is deleted.
KeyAfterBlindRelease(kind, c) ==
  IF kind = "release" THEN NoLock
  ELSE IF kind = "acquire" /\ Granted(kind, c) THEN c ELSE key

KeyAfter(kind, c) ==
  IF ~Granted(kind, c) \/ kind = "renew" THEN key
  ELSE IF kind = "acquire" THEN c ELSE NoLock

-----------------------------------------------------------------------------
(***************************************************************************)
(* redisMutexExec: the acquisition loop.                                   *)
(***************************************************************************)

\* Mutant: the attempts are counted down from their initial 0.
AttemptCountsDown(c) ==
  /\ phase' = [phase EXCEPT ![c] = IF aborted[c] THEN "threw" ELSE "acquire"]
  /\ attempts' = [attempts EXCEPT ![c] = @ - 1]
  /\ pipe' = [pipe EXCEPT ![c] = IF aborted[c] THEN @
                                 ELSE Append(@, Sent("acquire"))]
  /\ UNCHANGED <<key, aborted, lockFailed, failing, ghosts, faults, lapsed>>

\* One pass of the loop: throwIfSignalAborted(), then ACQUIRE goes out.
Attempt(c) ==
  /\ phase' = [phase EXCEPT ![c] = IF aborted[c] THEN "threw" ELSE "acquire"]
  /\ attempts' = [attempts EXCEPT ![c] = @ + 1]
  /\ pipe' = [pipe EXCEPT ![c] = IF aborted[c] THEN @
                                 ELSE Append(@, Sent("acquire"))]
  /\ UNCHANGED <<key, aborted, lockFailed, failing, ghosts, faults, lapsed>>

withMutex(c) == phase[c] = "idle" /\ Attempt(c)

\* sleepOrAbort() has slept its retryDelay.
RetryDelayOver(c) == phase[c] = "wait" /\ Attempt(c)

Answer(c, kind) ==
  /\ pipe[c] # <<>>
  /\ Head(pipe[c]).kind = kind
  /\ Head(pipe[c]).stage # "sent"
  /\ pipe' = [pipe EXCEPT ![c] = Tail(@)]

\* Mutant: a denied call goes on as if it held the lock on its last attempt.
AfterAcquireProceeds(c, stage) ==
  IF aborted[c] \/ stage = "failed" THEN "threw"
  ELSE IF stage = "granted" \/ attempts[c] = maxAttempts THEN "enter"
  ELSE "wait"

\* Where the answer to ACQUIRE leads: runWithRedisLock() begins by throwing
\* on an aborted signal; an error other than a closed connection is thrown;
\* the last attempt throws; otherwise sleepOrAbort() rejects or sleeps.
AfterAcquire(c, stage) ==
  IF aborted[c] THEN "threw"
  ELSE IF stage = "granted" THEN "enter"
  ELSE IF stage = "failed" \/ attempts[c] = maxAttempts THEN "threw"
  ELSE "wait"

AcquireReply(c) ==
  /\ Answer(c, "acquire")
  /\ phase' = [phase EXCEPT ![c] = AfterAcquire(c, Head(pipe[c]).stage)]
  /\ UNCHANGED <<key, attempts, aborted, lockFailed, failing, ghosts, faults,
                 lapsed>>

-----------------------------------------------------------------------------
(***************************************************************************)
(* runWithRedisLock: the callback under the lock.                          *)
(***************************************************************************)

\* The finally block: the interval is cleared and RELEASE goes out.
Finally(c, error) ==
  /\ phase' = [phase EXCEPT ![c] = "release"]
  /\ failing' = [failing EXCEPT ![c] = error]
  /\ pipe' = [pipe EXCEPT ![c] = Append(@, Sent("release"))]

\* Mutant: after failLock() the callback is neither run nor rejected.
callbackHeldBack(c) ==
  /\ phase[c] = "enter"
  /\ ~lockFailed[c]
  /\ phase' = [phase EXCEPT ![c] = "inside"]
  /\ UNCHANGED <<key, attempts, aborted, lockFailed, failing, pipe, ghosts,
                 faults, lapsed>>

\* The microtask that runs context.assertNotAborted() and calls options.fn.
callback(c) ==
  /\ phase[c] = "enter"
  /\ IF lockFailed[c]
     THEN Finally(c, TRUE)
     ELSE /\ phase' = [phase EXCEPT ![c] = "inside"]
          /\ UNCHANGED <<failing, pipe>>
  /\ UNCHANGED <<key, attempts, aborted, lockFailed, ghosts, faults, lapsed>>

\* Mutant: a callback that rejects leaves the lock behind.
fnSettlesReleasesOnSuccess(c, ok) ==
  /\ phase[c] = "inside"
  /\ IF ok THEN Finally(c, lockFailed[c])
     ELSE /\ phase' = [phase EXCEPT ![c] = "threw"]
          /\ UNCHANGED <<failing, pipe>>
  /\ UNCHANGED <<key, attempts, aborted, lockFailed, ghosts, faults, lapsed>>

\* options.fn settles. It is awaited even when the lock failed before, and
\* then the lock's error is the one to throw.
fnSettles(c, ok) ==
  /\ phase[c] = "inside"
  /\ Finally(c, ~ok \/ lockFailed[c])
  /\ UNCHANGED <<key, attempts, aborted, lockFailed, ghosts, faults, lapsed>>

RenewalsInFlight(c) == Len(pipe[c])

\* The renewal interval fires; failLock() and the finally block clear it.
RenewTick(c) ==
  /\ phase[c] = "inside"
  /\ ~lockFailed[c]
  /\ RenewalsInFlight(c) < MaxRenewals
  /\ pipe' = [pipe EXCEPT ![c] = Append(@, Sent("renew"))]
  /\ UNCHANGED <<key, phase, attempts, aborted, lockFailed, failing, ghosts,
                 faults, lapsed>>

\* A renewal that is denied or rejected calls failLock(), at any later time.
RenewReply(c) ==
  /\ Answer(c, "renew")
  /\ lockFailed' = [lockFailed EXCEPT ![c] =
                      @ \/ Head(pipe[c]).stage # "granted"]
  /\ UNCHANGED <<key, phase, attempts, aborted, failing, ghosts, faults,
                 lapsed>>

\* The end of the finally block: RELEASE answered 0 is an error unless the
\* lock already failed; a RELEASE that rejects is only logged.
AfterRelease(c, stage) ==
  IF failing[c] \/ (stage = "denied" /\ ~lockFailed[c])
  THEN "threw" ELSE "returned"

ReleaseReply(c) ==
  /\ Answer(c, "release")
  /\ phase' = [phase EXCEPT ![c] = AfterRelease(c, Head(pipe[c]).stage)]
  /\ UNCHANGED <<key, attempts, aborted, lockFailed, failing, ghosts, faults,
                 lapsed>>

\* The caller's signal aborts. A sleeping call rejects at once; under the
\* lock abortFromParent() calls failLock(); the finally block has removed
\* that listener; elsewhere the flag is only seen at the next check.
Abort(c) ==
  /\ ~aborted[c]
  /\ ~Settled(c)
  /\ aborted' = [aborted EXCEPT ![c] = TRUE]
  /\ phase' = [phase EXCEPT ![c] = IF @ = "wait" THEN "threw" ELSE @]
  /\ lockFailed' = [lockFailed EXCEPT ![c] =
                      @ \/ phase[c] \in {"enter", "inside"}]
  /\ UNCHANGED <<key, attempts, failing, pipe, ghosts, faults, lapsed>>

-----------------------------------------------------------------------------
(***************************************************************************)
(* Redis and the connections to it (external).                             *)
(***************************************************************************)

Executed(c, command) ==
  [kind  |-> command.kind,
   stage |-> IF Granted(command.kind, c) THEN "granted" ELSE "denied"]

\* Redis executes the oldest command of the connection it has not run.
Execute(c) ==
  /\ \E i \in 1..Len(pipe[c]) :
       /\ pipe[c][i].stage = "sent"
       /\ \A j \in 1..(i - 1) : pipe[c][j].stage # "sent"
       /\ pipe' = [pipe EXCEPT ![c] =
                     [pipe[c] EXCEPT ![i] = Executed(c, pipe[c][i])]]
       /\ key' = KeyAfter(pipe[c][i].kind, c)
  /\ UNCHANGED <<phase, attempts, aborted, lockFailed, failing, ghosts, faults,
                 lapsed>>

\* The connection ends: everything unanswered is rejected, and what Redis
\* had not run by then it may still run.
ConnectionLost(c, error) ==
  /\ pipe[c] # <<>>
  /\ faults < MaxFaults
  /\ faults' = faults + 1
  /\ pipe' = [pipe EXCEPT ![c] =
                [i \in DOMAIN @ |-> [kind |-> @[i].kind, stage |-> error]]]
  /\ ghosts' = ghosts \cup {<<pipe[c][i].kind, c>> :
                              i \in {j \in DOMAIN pipe[c] :
                                       pipe[c][j].stage = "sent"}}
  /\ UNCHANGED <<key, phase, attempts, aborted, lockFailed, failing, lapsed>>

GhostExecute(c, kind) ==
  /\ <<kind, c>> \in ghosts
  /\ ghosts' = ghosts \ {<<kind, c>>}
  /\ key' = KeyAfter(kind, c)
  /\ UNCHANGED <<phase, attempts, aborted, lockFailed, failing, pipe, faults,
                 lapsed>>

\* The connection is re-established and resends what was not answered.
Resent(c) ==
  /\ pipe[c] # <<>>
  /\ faults < MaxFaults
  /\ faults' = faults + 1
  /\ pipe' = [pipe EXCEPT ![c] = [i \in DOMAIN @ |-> Sent(@[i].kind)]]
  /\ UNCHANGED <<key, phase, attempts, aborted, lockFailed, failing, ghosts,
                 lapsed>>

\* The key's TTL runs out.
Lapse ==
  /\ key # NoLock
  /\ key' = NoLock
  /\ lapsed' = lapsed \cup {key}
  /\ UNCHANGED <<phase, attempts, aborted, lockFailed, failing, pipe, ghosts,
                 faults>>

-----------------------------------------------------------------------------
Client(c) ==
  \/ withMutex(c)
  \/ RetryDelayOver(c)
  \/ AcquireReply(c)
  \/ callback(c)
  \/ \E ok \in BOOLEAN : fnSettles(c, ok)
  \/ RenewTick(c)
  \/ RenewReply(c)
  \/ ReleaseReply(c)
  \/ Abort(c)

Network(c) ==
  \/ Execute(c)
  \/ \E error \in {"closed", "failed"} : ConnectionLost(c, error)
  \/ \E kind \in Kinds : GhostExecute(c, kind)
  \/ Resent(c)

Next ==
  \/ \E c \in Calls : Client(c) \/ Network(c)
  \/ Lapse

Spec == Init /\ [][Next]_vars

(***************************************************************************)
(* Timers fire, Redis answers or the client rejects, and options.fn        *)
(* settles; nothing forces a caller to call, to abort or to renew.         *)
(***************************************************************************)
Fairness ==
  \A c \in Calls :
    /\ WF_vars(RetryDelayOver(c))
    /\ WF_vars(Execute(c))
    /\ WF_vars(AcquireReply(c) \/ RenewReply(c) \/ ReleaseReply(c))
    /\ WF_vars(callback(c))
    /\ WF_vars(\E ok \in BOOLEAN : fnSettles(c, ok))

FairSpec == Spec /\ Fairness

-----------------------------------------------------------------------------
(***************************************************************************)
(* Properties.                                                             *)
(***************************************************************************)

\* Two callbacks overlap only when the lease of one of them has lapsed: no
\* order of acquisitions, retries of a closed connection, late commands and
\* releases lets a second call in while the first one's lease lives.
ExclusiveUnlessLapsed ==
  \A c, d \in Calls :
    phase[c] = "inside" /\ phase[d] = "inside" /\ c # d
      => c \in lapsed \/ d \in lapsed

\* While a callback runs, its key leaves Redis only by the TTL: no RELEASE,
\* of this call or of another, late or resent, removes the lock under it.
HeldWhileInside ==
  [][\A c \in Calls :
       key = c /\ phase[c] \in {"enter", "inside"} /\ key' # c
         => c \in lapsed']_vars

\* A lock outlives its call only after an abort or a connection fault: on
\* every other path, the failed ones included, runWithRedisLock releases it.
\* (An abort seen on entry to runWithRedisLock throws before the try block,
\* and leaves the lock to its TTL.)
ReleasedOnEveryPath ==
  \A c \in Calls :
    Settled(c) /\ key = c => aborted[c] \/ faults > 0

\* Without connection faults, a call that returns normally although its
\* lease had lapsed was at least told so: its context has been aborted.
LossIsSignalled ==
  \A c \in Calls :
    phase[c] = "returned" /\ faults = 0 /\ c \in lapsed => lockFailed[c]

\* A call leaves as it should: it releases its lock on every path but the two
\* above, and does not return after a lapse that nobody was told of.
LeavesCleanly == ReleasedOnEveryPath /\ LossIsSignalled

\* A call that lost its lock rejects, on connections without faults. The
\* test "rejects Redis mutexes that lose ownership before normal release"
\* says so; a renewal answered while RELEASE is in flight sets lockFailed
\* and so suppresses the very error RELEASE's result 0 would raise.
LostLockRejects ==
  \A c \in Calls :
    phase[c] = "returned" /\ faults = 0 => c \notin lapsed

\* Every call of withMutex() settles: its attempts are bounded, and a failed
\* lock does not leave it waiting on anything but its own callback.
CallsSettle ==
  \A c \in Calls : phase[c] # "idle" ~> Settled(c)
=============================================================================
