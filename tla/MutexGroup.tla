----------------------------- MODULE MutexGroup -----------------------------
(***************************************************************************)
(* withMutexes() over the in-process mutexes of withMutex(),               *)
(* src/src/helpers/redis/mutex.ts.                                         *)
(*                                                                         *)
(* A member of Calls is one call of withMutexes() (a call of withMutex()   *)
(* is the case of one key). Keys are what callers write; flattenMutexKey() *)
(* is modelled by Flat, which may give two written keys one flattened key, *)
(* and the natural numbers are the flattened keys in localeCompare order.  *)
(***************************************************************************)
EXTENDS Integers, Sequences, FiniteSets

CONSTANTS
  Calls,     \* the calls of withMutexes()
  Keys,      \* the keys callers write
  Flat,      \* flattenMutexKey, from keys to naturals
  Request,   \* options.keys of each call
  Free       \* localMutexes has no entry for a key

\* What the constants are.
MutexAssumption ==
  /\ IsFiniteSet(Calls) /\ Free \notin Calls
  /\ Flat \in [Keys -> Nat] /\ Request \in [Calls -> Seq(Keys)]

FlatKeys == {Flat[k] : k \in Keys}

VARIABLES
  holder,   \* localMutexes: the call whose lock a flattened key maps to
  phase,    \* where the call is
  index,    \* keys acquired and not yet released, in order
  aborted,  \* options.signal.aborted
  didWait,  \* didAnyWait
  failing   \* the call will reject

vars == <<holder, phase, index, aborted, didWait, failing>>

\* "acquire" loops in localMutexExec for key index + 1, "inside" runs
\* options.fn under all keys, "unwind" runs the finally blocks.
Phases == {"idle", "acquire", "inside", "unwind", "settled"}

TypeOK ==
  /\ holder \in [FlatKeys -> Calls \cup {Free}]
  /\ phase \in [Calls -> Phases]
  /\ index \in [Calls -> Nat]
  /\ \A c \in Calls : index[c] <= Len(Request[c])
  /\ aborted \in [Calls -> BOOLEAN]
  /\ didWait \in [Calls -> BOOLEAN]
  /\ failing \in [Calls -> BOOLEAN]

Init ==
  /\ holder = [k \in FlatKeys |-> Free]
  /\ phase = [c \in Calls |-> "idle"]
  /\ index = [c \in Calls |-> 0]
  /\ aborted = [c \in Calls |-> FALSE]
  /\ didWait = [c \in Calls |-> FALSE]
  /\ failing = [c \in Calls |-> FALSE]

-----------------------------------------------------------------------------
FlatRequest(c) == [i \in DOMAIN Request[c] |-> Flat[Request[c][i]]]

\* The members of a finite set of naturals, from the smallest to the largest.
Ascending(S) == [n \in 1..Cardinality(S) |-> CHOOSE k \in S : Cardinality({l \in S : l <= k}) = n]

\* Mutant: the keys are deduplicated and taken in the order they are given.
orderMutexKeysUnsorted(c) ==
  LET f == FlatRequest(c)
      first == {i \in DOMAIN f : \A j \in 1..(i - 1) : f[j] # f[i]}
      at == Ascending(first)
  IN [n \in DOMAIN at |-> f[at[n]]]

\* orderMutexKeys(): flatten, sort, and keep one of each flattened key.
orderMutexKeys(c) == Ascending({FlatRequest(c)[i] : i \in DOMAIN Request[c]})

NextKey(c) == orderMutexKeys(c)[index[c] + 1]

\* withMutexesInternal() begins the next level: parentContext.
\* assertNotAborted() throws, or the next key is tried, or options.fn runs.
NextLevel(c) ==
  phase' = [phase EXCEPT ![c] =
    IF aborted[c] THEN "unwind"
    ELSE IF index'[c] = Len(orderMutexKeys(c)) THEN "inside" ELSE "acquire"]

withMutexes(c) ==
  /\ phase[c] = "idle"
  /\ UNCHANGED index
  /\ NextLevel(c)
  /\ failing' = [failing EXCEPT ![c] = aborted[c]]
  /\ UNCHANGED <<holder, aborted, didWait>>

\* The loop finds the key free: localMutexes.set(), then the next level.
Take(c) ==
  /\ phase[c] = "acquire"
  /\ holder[NextKey(c)] = Free
  /\ holder' = [holder EXCEPT ![NextKey(c)] = c]
  /\ index' = [index EXCEPT ![c] = @ + 1]
  /\ NextLevel(c)
  /\ UNCHANGED <<aborted, didWait, failing>>

\* The loop finds the key held, the first time.
Wait(c) ==
  /\ phase[c] = "acquire"
  /\ holder[NextKey(c)] # Free
  /\ ~didWait[c]
  /\ didWait' = [didWait EXCEPT ![c] = TRUE]
  /\ UNCHANGED <<holder, phase, index, aborted, failing>>

Reject(c) ==
  /\ phase' = [phase EXCEPT ![c] = "unwind"]
  /\ failing' = [failing EXCEPT ![c] = TRUE]

\* The loop finds the key still held after the deadline.
DeadlinePassed(c) ==
  /\ phase[c] = "acquire"
  /\ holder[NextKey(c)] # Free
  /\ Reject(c)
  /\ UNCHANGED <<holder, index, aborted, didWait>>

\* The caller's signal aborts: sleepOrAbort() rejects a waiting call; a
\* running callback is only told through its context.
Abort(c) ==
  /\ ~aborted[c]
  /\ phase[c] \in {"idle", "acquire", "inside"}
  /\ aborted' = [aborted EXCEPT ![c] = TRUE]
  /\ IF phase[c] = "acquire" THEN Reject(c) ELSE UNCHANGED <<phase, failing>>
  /\ UNCHANGED <<holder, index, didWait>>

\* options.fn settles.
fnSettles(c, ok) ==
  /\ phase[c] = "inside"
  /\ phase' = [phase EXCEPT ![c] = "unwind"]
  /\ failing' = [failing EXCEPT ![c] = ~ok]
  /\ UNCHANGED <<holder, index, aborted, didWait>>

Innermost(c) == orderMutexKeys(c)[index[c]]

\* Mutant: a level that fails leaves its lock behind.
UnwindOnlySuccess(c) ==
  /\ phase[c] = "unwind"
  /\ IF index[c] = 0
     THEN phase' = [phase EXCEPT ![c] = "settled"] /\ UNCHANGED <<holder, index>>
     ELSE /\ holder' = [holder EXCEPT ![Innermost(c)] = IF failing[c] THEN @ ELSE Free]
          /\ index' = [index EXCEPT ![c] = @ - 1]
          /\ UNCHANGED phase
  /\ UNCHANGED <<aborted, didWait, failing>>

\* The finally block of the innermost level: the lock is deleted if it is
\* still this call's, and the outer level resumes; then the call settles.
Unwind(c) ==
  /\ phase[c] = "unwind"
  /\ IF index[c] = 0
     THEN phase' = [phase EXCEPT ![c] = "settled"] /\ UNCHANGED <<holder, index>>
     ELSE /\ holder' = [holder EXCEPT ![Innermost(c)] = IF @ = c THEN Free ELSE @]
          /\ index' = [index EXCEPT ![c] = @ - 1]
          /\ UNCHANGED phase
  /\ UNCHANGED <<aborted, didWait, failing>>

Next ==
  \E c \in Calls :
    \/ withMutexes(c)
    \/ Take(c)
    \/ Wait(c)
    \/ DeadlinePassed(c)
    \/ Abort(c)
    \/ \E ok \in BOOLEAN : fnSettles(c, ok)
    \/ Unwind(c)

Spec == Init /\ [][Next]_vars

(***************************************************************************)
(* A waiter polls and is woken by each release, options.fn settles, and a  *)
(* finally block runs. Another call may take a freed key first, but only   *)
(* once per call. Neither aborts nor deadlines are relied upon.            *)
(***************************************************************************)
Progress == \E c \in Calls : Take(c) \/ (\E ok \in BOOLEAN : fnSettles(c, ok)) \/ Unwind(c)

FairSpec == Spec /\ WF_vars(Progress)

-----------------------------------------------------------------------------
(***************************************************************************)
(* Properties.                                                             *)
(***************************************************************************)

\* The keys of the calls whose callback runs are disjoint: two groups that
\* share any flattened key never run at once, whatever order and spelling
\* their keys are written in.
GroupsExclude ==
  \A c, d \in Calls :
    phase[c] = "inside" /\ phase[d] = "inside" /\ c # d
      => \A i \in DOMAIN Request[c], j \in DOMAIN Request[d] :
           Flat[Request[c][i]] # Flat[Request[d][j]]

\* The lock map and the calls agree: a flattened key is held exactly by the
\* call that has acquired and not yet released it, so that no failed level,
\* abort or deadline strands a lock in the map.
HeldExactly ==
  \A k \in FlatKeys, c \in Calls :
    holder[k] = c <=> \E i \in 1..index[c] : orderMutexKeys(c)[i] = k

\* Nobody waits in a circle: while a call waits for a key, some call can take the key it wants,
\* runs its callback or gives its keys back, whatever keys the calls name and in whatever order
\* (orderMutexKeys(), withMutexesInternal()).
Moves(c) ==
  \/ phase[c] \in {"inside", "unwind"}
  \/ phase[c] = "acquire" /\ holder[NextKey(c)] = Free
NoCircularWait == (\E c \in Calls : phase[c] = "acquire") => \E c \in Calls : Moves(c)

\* Every call settles, without the help of deadlines or aborts: calls that
\* name the same keys in inverse orders, or one key twice, do not wait for
\* each other or for themselves.
AllSettled == \A c \in Calls : phase[c] \in {"idle", "settled"}
GroupsSettle == []<>AllSettled
=============================================================================
