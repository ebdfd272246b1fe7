-------------------------- MODULE RedisMutexProofs --------------------------
(***************************************************************************)
(* Mutual exclusion of withMutex() in Redis mode, for any number of calls, *)
(* attempts, renewals in flight and lost connections.                      *)
(***************************************************************************)
EXTENDS RedisMutex, SequenceTheorems, TLAPS

\* A sent command is a command, of the kind it was sent with.
LEMMA SentType ==
  ASSUME NEW k \in Kinds
  PROVE  Sent(k) \in Commands /\ Sent(k).kind = k /\ Sent(k).stage = "sent"
  BY DEF Sent, Commands, Stages

\* The literals the actions use are kinds, phases and stages.
LEMMA Literals ==
  /\ "acquire" \in Kinds /\ "renew" \in Kinds /\ "release" \in Kinds
  /\ "acquire" \in Phases /\ "wait" \in Phases /\ "enter" \in Phases
  /\ "inside" \in Phases /\ "release" \in Phases /\ "returned" \in Phases
  /\ "threw" \in Phases
  /\ "granted" \in Stages /\ "denied" \in Stages /\ "closed" \in Stages
  /\ "failed" \in Stages /\ "sent" \in Stages
  BY DEF Kinds, Phases, Stages

\* Answering takes the oldest command off the connection.
LEMMA AnswerType ==
  ASSUME TypeOK, NEW c \in Calls, NEW k \in Kinds, Answer(c, k)
  PROVE  /\ pipe' \in [Calls -> Seq(Commands)]
         /\ Head(pipe[c]) \in Commands
         /\ Head(pipe[c]) = pipe[c][1]
         /\ Len(pipe[c]) > 0
  BY DEF TypeOK, Answer

\* Sending puts a command at the end of the connection.
LEMMA SendType ==
  ASSUME TypeOK, NEW c \in Calls, NEW k \in Kinds
  PROVE  Append(pipe[c], Sent(k)) \in Seq(Commands)
  BY SentType DEF TypeOK

\* A script leaves the key free or held by a call.
LEMMA KeyType ==
  ASSUME TypeOK, NEW c \in Calls, NEW k \in Kinds
  PROVE  KeyAfter(k, c) \in Calls \cup {NoLock}
  BY DEF TypeOK, KeyAfter, Granted, Kinds

\* Replacing every command of a connection leaves a connection.
LEMMA ReplaceAll ==
  ASSUME NEW q \in Seq(Commands), NEW f \in [DOMAIN q -> Commands]
  PROVE  f \in Seq(Commands)
  <1>1. Len(q) \in Nat /\ DOMAIN q = 1..Len(q)
    OBVIOUS
  <1>2. f \in [1..Len(q) -> Commands]
    BY <1>1
  <1> QED BY <1>1, <1>2, SeqDef

-----------------------------------------------------------------------------
\* Every step keeps the state well typed.
LEMMA TypeStep == TypeOK /\ [Next]_vars => TypeOK'
  <1> SUFFICES ASSUME TypeOK, [Next]_vars PROVE TypeOK'
    OBVIOUS
  <1> USE Literals
  <1>a. ASSUME NEW c \in Calls, Attempt(c) PROVE TypeOK'
    <2>1. pipe' \in [Calls -> Seq(Commands)]
      BY <1>a, SendType DEF TypeOK, Attempt
    <2> QED BY <1>a, <2>1 DEF TypeOK, Attempt
  <1>1. ASSUME NEW c \in Calls, withMutex(c) PROVE TypeOK'
    BY <1>1, <1>a DEF withMutex
  <1>2. ASSUME NEW c \in Calls, RetryDelayOver(c) PROVE TypeOK'
    BY <1>2, <1>a DEF RetryDelayOver
  <1>3. ASSUME NEW c \in Calls, AcquireReply(c) PROVE TypeOK'
    <2>1. AfterAcquire(c, Head(pipe[c]).stage) \in Phases
      BY DEF AfterAcquire
    <2> QED BY <1>3, <2>1, AnswerType DEF TypeOK, AcquireReply
  <1>b. ASSUME NEW c \in Calls, NEW e \in BOOLEAN, Finally(c, e)
        PROVE  /\ phase' \in [Calls -> Phases]
               /\ failing' \in [Calls -> BOOLEAN]
               /\ pipe' \in [Calls -> Seq(Commands)]
    BY <1>b, SendType DEF TypeOK, Finally
  <1>4. ASSUME NEW c \in Calls, callback(c) PROVE TypeOK'
    <2>1. CASE lockFailed[c]
      BY <1>4, <1>b, <2>1 DEF TypeOK, callback
    <2>2. CASE ~lockFailed[c]
      BY <1>4, <2>2 DEF TypeOK, callback
    <2> QED BY <2>1, <2>2
  <1>5. ASSUME NEW c \in Calls, NEW ok \in BOOLEAN, fnSettles(c, ok) PROVE TypeOK'
    BY <1>5, <1>b DEF TypeOK, fnSettles
  <1>6. ASSUME NEW c \in Calls, RenewTick(c) PROVE TypeOK'
    <2>1. pipe' \in [Calls -> Seq(Commands)]
      BY <1>6, SendType DEF TypeOK, RenewTick
    <2> QED BY <1>6, <2>1 DEF TypeOK, RenewTick
  <1>7. ASSUME NEW c \in Calls, RenewReply(c) PROVE TypeOK'
    <2>1. lockFailed' \in [Calls -> BOOLEAN]
      BY <1>7 DEF TypeOK, RenewReply
    <2> QED BY <1>7, <2>1, AnswerType DEF TypeOK, RenewReply
  <1>8. ASSUME NEW c \in Calls, ReleaseReply(c) PROVE TypeOK'
    <2>1. AfterRelease(c, Head(pipe[c]).stage) \in Phases
      BY DEF AfterRelease
    <2> QED BY <1>8, <2>1, AnswerType DEF TypeOK, ReleaseReply
  <1>9. ASSUME NEW c \in Calls, Abort(c) PROVE TypeOK'
    BY <1>9 DEF TypeOK, Abort
  <1>10. ASSUME NEW c \in Calls, Execute(c) PROVE TypeOK'
    <2>1. PICK i \in 1..Len(pipe[c]) :
            /\ pipe' = [pipe EXCEPT ![c] =
                          [pipe[c] EXCEPT ![i] = Executed(c, pipe[c][i])]]
            /\ key' = KeyAfter(pipe[c][i].kind, c)
      BY <1>10 DEF Execute
    <2>2. pipe[c][i] \in Commands
      BY DEF TypeOK
    <2>3. pipe' \in [Calls -> Seq(Commands)]
      <3>1. Executed(c, pipe[c][i]) \in Commands
        BY <2>2 DEF Commands, Executed
      <3>2. [pipe[c] EXCEPT ![i] = Executed(c, pipe[c][i])] \in Seq(Commands)
        BY <3>1 DEF TypeOK
      <3> QED BY <2>1, <3>2 DEF TypeOK
    <2>4. key' \in Calls \cup {NoLock}
      BY <2>1, <2>2, KeyType DEF Commands
    <2> QED BY <1>10, <2>3, <2>4 DEF TypeOK, Execute
  <1>11. ASSUME NEW c \in Calls, NEW e \in {"closed", "failed"}, ConnectionLost(c, e)
         PROVE TypeOK'
    <2>1. \A i \in DOMAIN pipe[c] : pipe[c][i] \in Commands
      BY DEF TypeOK
    <2>2. [i \in DOMAIN pipe[c] |-> [kind |-> pipe[c][i].kind, stage |-> e]]
            \in Seq(Commands)
      <3>1. [i \in DOMAIN pipe[c] |-> [kind |-> pipe[c][i].kind, stage |-> e]]
              \in [DOMAIN pipe[c] -> Commands]
        BY <2>1 DEF Commands
      <3> QED BY <3>1, ReplaceAll DEF TypeOK
    <2>3. pipe' \in [Calls -> Seq(Commands)]
      BY <1>11, <2>2 DEF TypeOK, ConnectionLost
    <2>4. ghosts' \in SUBSET (Kinds \X Calls)
      BY <1>11, <2>1 DEF TypeOK, ConnectionLost, Commands
    <2> QED BY <1>11, <2>3, <2>4 DEF TypeOK, ConnectionLost
  <1>12. ASSUME NEW c \in Calls, NEW k \in Kinds, GhostExecute(c, k) PROVE TypeOK'
    BY <1>12, KeyType DEF TypeOK, GhostExecute
  <1>13. ASSUME NEW c \in Calls, Resent(c) PROVE TypeOK'
    <2>1. \A i \in DOMAIN pipe[c] : pipe[c][i] \in Commands
      BY DEF TypeOK
    <2>2. [i \in DOMAIN pipe[c] |-> Sent(pipe[c][i].kind)] \in Seq(Commands)
      <3>1. [i \in DOMAIN pipe[c] |-> Sent(pipe[c][i].kind)]
              \in [DOMAIN pipe[c] -> Commands]
        BY <2>1 DEF Commands, Sent
      <3> QED BY <3>1, ReplaceAll DEF TypeOK
    <2>3. pipe' \in [Calls -> Seq(Commands)]
      BY <1>13, <2>2 DEF TypeOK, Resent
    <2> QED BY <1>13, <2>3 DEF TypeOK, Resent
  <1>14. CASE Lapse
    BY <1>14 DEF TypeOK, Lapse
  <1>15. CASE UNCHANGED vars
    BY <1>15 DEF TypeOK, vars
  <1> QED
    BY <1>1, <1>2, <1>3, <1>4, <1>5, <1>6, <1>7, <1>8, <1>9, <1>10, <1>11,
       <1>12, <1>13, <1>14, <1>15 DEF Next, Client, Network

\* The state of a call of withMutex() is always well typed.
THEOREM TypeCorrect == Spec => []TypeOK
  <1>1. Init => TypeOK
    BY MutexAssumption DEF Init, TypeOK, Phases
  <1> QED BY <1>1, TypeStep, PTL DEF Spec

-----------------------------------------------------------------------------
(***************************************************************************)
(* The inductive invariant. A call that runs its callback, or whose ACQUIRE*)
(* was granted and not yet answered, holds the key unless its lease lapsed *)
(* (Holds); this is kept because RELEASE is the only command that takes a  *)
(* key from its owner, and a call sends it, and Redis runs it however      *)
(* late, only after the callback is over (Ordered, GhostsOver).            *)
(***************************************************************************)
Over(c) == phase[c] \in {"release", "returned", "threw"}

Ordered(c) ==
  /\ phase[c] = "acquire" => Len(pipe[c]) = 1 /\ pipe[c][1].kind = "acquire"
  /\ phase[c] \in {"idle", "wait", "enter"} => Len(pipe[c]) = 0
  /\ \A i \in 1..Len(pipe[c]) :
       /\ pipe[c][i].kind = "acquire" => phase[c] = "acquire"
       /\ pipe[c][i].kind = "release" => Over(c)

GhostsOver(c) == <<"release", c>> \in ghosts => Over(c)

Owns(c) ==
  \/ phase[c] \in {"enter", "inside"}
  \/ \E i \in 1..Len(pipe[c]) :
       pipe[c][i].kind = "acquire" /\ pipe[c][i].stage = "granted"

Holds(c) == Owns(c) => key = c \/ c \in lapsed

MutexInv ==
  /\ TypeOK
  /\ \A c \in Calls : Ordered(c) /\ GhostsOver(c) /\ Holds(c)

\* A script takes the key from a call only if it is that call's RELEASE.
LEMMA KeyKept ==
  ASSUME NEW c \in Calls, NEW d \in Calls, NEW k \in Kinds,
         key = d, KeyAfter(k, c) # d
  PROVE  k = "release" /\ c = d
  BY MutexAssumption DEF KeyAfter, Granted, Kinds

\* A step that leaves a call, its connection and its key alone keeps what
\* the invariant says of it.
LEMMA Untouched ==
  ASSUME MutexInv, NEW d \in Calls,
         pipe'[d] = pipe[d], phase'[d] = phase[d],
         <<"release", d>> \in ghosts' => <<"release", d>> \in ghosts,
         lapsed \subseteq lapsed',
         key = d => key' = d \/ d \in lapsed'
  PROVE  Ordered(d)' /\ GhostsOver(d)' /\ Holds(d)'
  BY DEF MutexInv, Ordered, GhostsOver, Holds, Owns, Over

\* A step of c that leaves Redis alone need only be checked for c.
LEMMA OwnStep ==
  ASSUME MutexInv, TypeOK', NEW c \in Calls,
         \A d \in Calls \ {c} : pipe'[d] = pipe[d] /\ phase'[d] = phase[d],
         ghosts' = ghosts, lapsed' = lapsed, key' = key,
         Ordered(c)', GhostsOver(c)', Holds(c)'
  PROVE  MutexInv'
  <1>1. ASSUME NEW d \in Calls PROVE Ordered(d)' /\ GhostsOver(d)' /\ Holds(d)'
    <2>1. CASE d = c
      BY <2>1
    <2>2. CASE d # c
      BY <2>2, Untouched
    <2> QED BY <2>1, <2>2
  <1> QED BY <1>1 DEF MutexInv

\* The queue operations the steps of a call use.
LEMMA Queue ==
  ASSUME NEW q \in Seq(Commands), NEW k \in Kinds
  PROVE  /\ Len(q) \in Nat
         /\ Len(Append(q, Sent(k))) = Len(q) + 1
         /\ \A i \in 1..Len(q) : Append(q, Sent(k))[i] = q[i]
         /\ Append(q, Sent(k))[Len(q) + 1] = Sent(k)
         /\ q # <<>> => /\ Len(q) > 0
                        /\ Len(Tail(q)) = Len(q) - 1
                        /\ \A i \in 1..Len(Tail(q)) : Tail(q)[i] = q[i + 1]
                        /\ Head(q) = q[1]
  BY SentType

\* Sending a command of kind k, from a phase to a phase that may have it.
LEMMA SendKeeps ==
  ASSUME MutexInv, NEW c \in Calls, NEW k \in {"renew", "release"},
         pipe' = [pipe EXCEPT ![c] = Append(@, Sent(k))],
         phase[c] \in {"enter", "inside"},
         IF k = "renew" THEN phase' = phase /\ phase[c] = "inside"
         ELSE phase' = [phase EXCEPT ![c] = "release"],
         ghosts' = ghosts, lapsed' = lapsed, key' = key
  PROVE  Ordered(c)' /\ GhostsOver(c)' /\ Holds(c)'
  <1>1. pipe[c] \in Seq(Commands) /\ pipe'[c] = Append(pipe[c], Sent(k))
    BY DEF MutexInv, TypeOK
  <1>2. k \in Kinds
    BY DEF Kinds
  <1>3. Len(pipe'[c]) = Len(pipe[c]) + 1
    BY <1>1, <1>2, Queue
  <1>4. \A j \in 1..Len(pipe'[c]) :
          \/ j \in 1..Len(pipe[c]) /\ pipe'[c][j] = pipe[c][j]
          \/ pipe'[c][j].kind = k
    BY <1>1, <1>2, <1>3, Queue, SentType
  <1>5. \A j \in 1..Len(pipe[c]) : pipe[c][j].kind \notin {"acquire", "release"}
    BY DEF MutexInv, Ordered, Over
  <1>6. phase'[c] \in {"inside", "release"} /\ (k = "release" => phase'[c] = "release")
    BY DEF MutexInv, TypeOK
  <1>7. Ordered(c)'
    BY <1>4, <1>5, <1>6 DEF Ordered, Over
  <1>8. GhostsOver(c)'
    BY DEF MutexInv, GhostsOver, Over
  <1>9. Holds(c)'
    BY <1>4, <1>5, <1>6 DEF MutexInv, Holds, Owns
  <1> QED BY <1>7, <1>8, <1>9

\* Taking the oldest command off, in a phase that keeps the rest in order.
LEMMA AnswerKeeps ==
  ASSUME MutexInv, NEW c \in Calls, NEW k \in Kinds, Answer(c, k)
  PROVE  /\ pipe'[c] = Tail(pipe[c])
         /\ Len(pipe'[c]) = Len(pipe[c]) - 1
         /\ Len(pipe[c]) \in Nat /\ Len(pipe[c]) > 0
         /\ pipe[c][1].kind = k
         /\ \A j \in 1..Len(pipe'[c]) : pipe'[c][j] = pipe[c][j + 1]
         /\ \A d \in Calls \ {c} : pipe'[d] = pipe[d]
  BY Queue DEF MutexInv, TypeOK, Answer


\* A call whose callback is over owns nothing any more.
LEMMA OverOwnsNothing ==
  ASSUME MutexInv, NEW c \in Calls, Over(c)
  PROVE  ~Owns(c)
  BY DEF MutexInv, Ordered, Over, Owns

-----------------------------------------------------------------------------
\* Every step keeps the inductive invariant.
LEMMA InvStep == MutexInv /\ [Next]_vars => MutexInv'
  <1> SUFFICES ASSUME MutexInv, [Next]_vars PROVE MutexInv'
    OBVIOUS
  <1>t. TypeOK /\ TypeOK'
    BY TypeStep DEF MutexInv
  <1> USE Literals
  <1>a. ASSUME NEW c \in Calls, Attempt(c), phase[c] \in {"idle", "wait"} PROVE MutexInv'
    <2>1. \A d \in Calls \ {c} : pipe'[d] = pipe[d] /\ phase'[d] = phase[d]
      BY <1>a, <1>t DEF Attempt, TypeOK
    <2>2. Len(pipe[c]) = 0 /\ pipe[c] \in Seq(Commands)
      BY <1>a, <1>t DEF MutexInv, Ordered, TypeOK
    <2>3. CASE aborted[c]
      <3>1. pipe'[c] = pipe[c] /\ phase'[c] = "threw"
        BY <1>a, <1>t, <2>3 DEF Attempt, TypeOK
      <3>2. Ordered(c)' /\ GhostsOver(c)' /\ Holds(c)'
        BY <2>2, <3>1 DEF Ordered, GhostsOver, Holds, Owns, Over
      <3> QED BY <1>a, <1>t, <2>1, <3>2, OwnStep DEF Attempt
    <2>4. CASE ~aborted[c]
      <3>1. pipe'[c] = Append(pipe[c], Sent("acquire")) /\ phase'[c] = "acquire"
        BY <1>a, <1>t, <2>4 DEF Attempt, TypeOK
      <3>2. Len(pipe'[c]) = 1 /\ pipe'[c][1] = Sent("acquire")
        BY <2>2, <3>1, Queue
      <3>3. pipe'[c][1].kind = "acquire" /\ pipe'[c][1].stage = "sent"
        BY <3>2, SentType
      <3>4. ~(<<"release", c>> \in ghosts)
        BY <1>a DEF MutexInv, GhostsOver, Over
      <3>5. Ordered(c)' /\ GhostsOver(c)' /\ Holds(c)'
        BY <1>a, <3>1, <3>2, <3>3, <3>4 DEF Attempt, Ordered, GhostsOver, Holds, Owns, Over
      <3> QED BY <1>a, <1>t, <2>1, <3>5, OwnStep DEF Attempt
    <2> QED BY <2>3, <2>4
  <1>1. ASSUME NEW c \in Calls, withMutex(c) PROVE MutexInv'
    BY <1>1, <1>a DEF withMutex
  <1>2. ASSUME NEW c \in Calls, RetryDelayOver(c) PROVE MutexInv'
    BY <1>2, <1>a DEF RetryDelayOver
  <1>3. ASSUME NEW c \in Calls, AcquireReply(c) PROVE MutexInv'
    <2>1. Answer(c, "acquire")
      BY <1>3 DEF AcquireReply
    <2>a. /\ Len(pipe'[c]) = Len(pipe[c]) - 1
          /\ Len(pipe[c]) \in Nat /\ Len(pipe[c]) > 0
          /\ pipe[c][1].kind = "acquire"
          /\ \A j \in 1..Len(pipe'[c]) : pipe'[c][j] = pipe[c][j + 1]
          /\ \A d \in Calls \ {c} : pipe'[d] = pipe[d]
      BY <2>1, AnswerKeeps
    <2>b. 1 \in 1..Len(pipe[c])
      BY <2>a
    <2>c. \A j \in 1..Len(pipe'[c]) : j + 1 \in 1..Len(pipe[c])
      BY <2>a
    <2>2. phase[c] = "acquire" /\ Len(pipe[c]) = 1 /\ Head(pipe[c]) = pipe[c][1]
      BY <1>t, <2>1, <2>a, <2>b, AnswerType DEF MutexInv, Ordered
    <2>3. Len(pipe'[c]) = 0
      BY <2>a, <2>2
    <2>4. /\ phase'[c] \in {"enter", "wait", "threw"}
          /\ phase'[c] = "enter" => pipe[c][1].stage = "granted"
      BY <1>3, <1>t, <2>2 DEF AcquireReply, AfterAcquire, TypeOK
    <2>5. phase'[c] = "enter" => key = c \/ c \in lapsed
      BY <2>a, <2>b, <2>2, <2>4 DEF MutexInv, Holds, Owns
    <2>6. ~(<<"release", c>> \in ghosts)
      BY <2>2 DEF MutexInv, GhostsOver, Over
    <2>7. Ordered(c)' /\ GhostsOver(c)' /\ Holds(c)'
      BY <1>3, <2>3, <2>4, <2>5, <2>6 DEF AcquireReply, Ordered, GhostsOver, Holds, Owns, Over
    <2>8. \A d \in Calls \ {c} : pipe'[d] = pipe[d] /\ phase'[d] = phase[d]
      BY <1>3, <1>t, <2>a DEF AcquireReply, TypeOK
    <2> QED BY <1>3, <1>t, <2>7, <2>8, OwnStep DEF AcquireReply
  <1>b. ASSUME NEW c \in Calls, NEW e, Finally(c, e), phase[c] \in {"enter", "inside"},
               ghosts' = ghosts, lapsed' = lapsed, key' = key
        PROVE MutexInv'
    <2>1. Ordered(c)' /\ GhostsOver(c)' /\ Holds(c)'
      BY <1>b, SendKeeps DEF Finally
    <2>2. \A d \in Calls \ {c} : pipe'[d] = pipe[d] /\ phase'[d] = phase[d]
      BY <1>b, <1>t DEF Finally, TypeOK
    <2> QED BY <1>b, <1>t, <2>1, <2>2, OwnStep
  <1>4. ASSUME NEW c \in Calls, callback(c) PROVE MutexInv'
    <2>1. CASE lockFailed[c]
      BY <1>4, <1>b, <2>1 DEF callback
    <2>2. CASE ~lockFailed[c]
      <3>1. /\ pipe' = pipe /\ phase[c] = "enter" /\ phase'[c] = "inside"
            /\ \A d \in Calls \ {c} : phase'[d] = phase[d]
        BY <1>4, <1>t, <2>2 DEF callback, TypeOK
      <3>2. Ordered(c)' /\ GhostsOver(c)' /\ Holds(c)'
        BY <1>4, <3>1 DEF callback, MutexInv, Ordered, GhostsOver, Holds, Owns, Over
      <3> QED BY <1>4, <1>t, <3>1, <3>2, OwnStep DEF callback
    <2> QED BY <2>1, <2>2
  <1>5. ASSUME NEW c \in Calls, NEW ok \in BOOLEAN, fnSettles(c, ok) PROVE MutexInv'
    BY <1>5, <1>b DEF fnSettles
  <1>6. ASSUME NEW c \in Calls, RenewTick(c) PROVE MutexInv'
    <2>1. Ordered(c)' /\ GhostsOver(c)' /\ Holds(c)'
      BY <1>6, SendKeeps DEF RenewTick
    <2>2. \A d \in Calls \ {c} : pipe'[d] = pipe[d] /\ phase'[d] = phase[d]
      BY <1>6, <1>t DEF RenewTick, TypeOK
    <2> QED BY <1>6, <1>t, <2>1, <2>2, OwnStep DEF RenewTick
  <1>7. ASSUME NEW c \in Calls, RenewReply(c) PROVE MutexInv'
    <2>1. Answer(c, "renew") /\ phase' = phase
      BY <1>7 DEF RenewReply
    <2>a. /\ Len(pipe'[c]) = Len(pipe[c]) - 1
          /\ Len(pipe[c]) \in Nat /\ Len(pipe[c]) > 0
          /\ pipe[c][1].kind = "renew"
          /\ \A j \in 1..Len(pipe'[c]) : pipe'[c][j] = pipe[c][j + 1]
          /\ \A d \in Calls \ {c} : pipe'[d] = pipe[d]
      BY <2>1, AnswerKeeps
    <2>b. 1 \in 1..Len(pipe[c])
      BY <2>a
    <2>c. \A j \in 1..Len(pipe'[c]) : j + 1 \in 1..Len(pipe[c])
      BY <2>a
    <2>2. phase[c] \notin {"acquire", "idle", "wait", "enter"}
      BY <2>a DEF MutexInv, Ordered
    <2>3. \A j \in 1..Len(pipe'[c]) :
            /\ pipe'[c][j].kind # "acquire"
            /\ pipe'[c][j].kind = "release" => Over(c)
      BY <2>a, <2>c, <2>2 DEF MutexInv, Ordered
    <2>4. Ordered(c)' /\ GhostsOver(c)' /\ Holds(c)'
      BY <1>7, <2>1, <2>2, <2>3 DEF RenewReply, MutexInv, Ordered, GhostsOver, Holds, Owns, Over
    <2> QED BY <1>7, <1>t, <2>1, <2>a, <2>4, OwnStep DEF RenewReply
  <1>8. ASSUME NEW c \in Calls, ReleaseReply(c) PROVE MutexInv'
    <2>1. Answer(c, "release")
      BY <1>8 DEF ReleaseReply
    <2>a. /\ Len(pipe'[c]) = Len(pipe[c]) - 1
          /\ Len(pipe[c]) \in Nat /\ Len(pipe[c]) > 0
          /\ pipe[c][1].kind = "release"
          /\ \A j \in 1..Len(pipe'[c]) : pipe'[c][j] = pipe[c][j + 1]
          /\ \A d \in Calls \ {c} : pipe'[d] = pipe[d]
      BY <2>1, AnswerKeeps
    <2>b. 1 \in 1..Len(pipe[c])
      BY <2>a
    <2>c. \A j \in 1..Len(pipe'[c]) : j + 1 \in 1..Len(pipe[c])
      BY <2>a
    <2>2. phase'[c] \in {"threw", "returned"} /\ \A d \in Calls \ {c} : phase'[d] = phase[d]
      BY <1>8, <1>t DEF ReleaseReply, AfterRelease, TypeOK
    <2>3. Over(c)
      BY <2>a, <2>b DEF MutexInv, Ordered
    <2>4. \A j \in 1..Len(pipe'[c]) : pipe'[c][j].kind # "acquire"
      BY <2>a, <2>c, <2>3 DEF MutexInv, Ordered, Over
    <2>5. Ordered(c)' /\ GhostsOver(c)' /\ Holds(c)'
      BY <2>2, <2>4 DEF Ordered, GhostsOver, Holds, Owns, Over
    <2> QED BY <1>8, <1>t, <2>a, <2>2, <2>5, OwnStep DEF ReleaseReply
  <1>9. ASSUME NEW c \in Calls, Abort(c) PROVE MutexInv'
    <2>1. /\ pipe' = pipe
          /\ phase'[c] = IF phase[c] = "wait" THEN "threw" ELSE phase[c]
          /\ \A d \in Calls \ {c} : phase'[d] = phase[d]
      BY <1>9, <1>t DEF Abort, TypeOK
    <2>2. Ordered(c)' /\ GhostsOver(c)' /\ Holds(c)'
      BY <1>9, <2>1 DEF Abort, MutexInv, Ordered, GhostsOver, Holds, Owns, Over
    <2> QED BY <1>9, <1>t, <2>1, <2>2, OwnStep DEF Abort
  <1>10. ASSUME NEW c \in Calls, Execute(c) PROVE MutexInv'
    <2>1. PICK i \in 1..Len(pipe[c]) :
            /\ pipe' = [pipe EXCEPT ![c] =
                          [pipe[c] EXCEPT ![i] = Executed(c, pipe[c][i])]]
            /\ key' = KeyAfter(pipe[c][i].kind, c)
      BY <1>10 DEF Execute
    <2>2. pipe[c] \in Seq(Commands) /\ pipe[c][i].kind \in Kinds
      <3>1. pipe[c] \in Seq(Commands)
        BY <1>t DEF TypeOK
      <3>2. pipe[c][i] \in Commands
        BY <3>1
      <3> QED BY <3>1, <3>2 DEF Commands
    <2>3. phase' = phase /\ ghosts' = ghosts /\ lapsed' = lapsed
      BY <1>10 DEF Execute
    <2>4. Len(pipe'[c]) = Len(pipe[c]) /\ \A d \in Calls \ {c} : pipe'[d] = pipe[d]
      BY <1>t, <2>1, <2>2 DEF TypeOK
    <2>5. \A j \in 1..Len(pipe[c]) :
            /\ pipe'[c][j].kind = pipe[c][j].kind
            /\ j # i => pipe'[c][j] = pipe[c][j]
      BY <1>t, <2>1, <2>2 DEF TypeOK, Executed
    <2>6. /\ pipe'[c][i].stage = "granted" <=> Granted(pipe[c][i].kind, c)
      BY <1>t, <2>1, <2>2 DEF TypeOK, Executed
    <2>7. Ordered(c)' /\ GhostsOver(c)'
      BY <2>3, <2>4, <2>5 DEF MutexInv, Ordered, GhostsOver, Over
    <2>8. Holds(c)'
      <3>1. CASE pipe[c][i].kind = "acquire"
        <4>1. Len(pipe[c]) = 1 /\ phase[c] = "acquire"
          BY <3>1 DEF MutexInv, Ordered
        <4>2. Granted(pipe[c][i].kind, c) => key' = c
          BY <2>1, <3>1 DEF KeyAfter
        <4> QED BY <2>3, <2>4, <2>6, <4>1, <4>2 DEF Holds, Owns
      <3>2. CASE pipe[c][i].kind = "renew"
        <4>1. key' = key
          BY <2>1, <3>2 DEF KeyAfter
        <4> QED BY <2>3, <2>4, <2>5, <3>2, <4>1 DEF MutexInv, Holds, Owns
      <3>3. CASE pipe[c][i].kind = "release"
        <4>1. Over(c)
          BY <3>3 DEF MutexInv, Ordered
        <4>2. \A j \in 1..Len(pipe[c]) : pipe[c][j].kind # "acquire"
          BY <4>1 DEF MutexInv, Ordered, Over
        <4> QED BY <2>3, <2>4, <2>5, <4>1, <4>2 DEF Holds, Owns, Over
      <3> QED BY <2>2, <3>1, <3>2, <3>3 DEF Kinds
    <2>9. ASSUME NEW d \in Calls, d # c PROVE Ordered(d)' /\ GhostsOver(d)' /\ Holds(d)'
      <3>1. key = d => key' = d
        BY <2>1, <2>2, <2>9, KeyKept
      <3> QED BY <2>3, <2>4, <2>9, <3>1, Untouched
    <2> QED BY <1>t, <2>7, <2>8, <2>9 DEF MutexInv
  <1>11. ASSUME NEW c \in Calls, NEW e \in {"closed", "failed"}, ConnectionLost(c, e)
         PROVE MutexInv'
    <2>1. /\ pipe'[c] = [i \in DOMAIN pipe[c] |-> [kind |-> pipe[c][i].kind, stage |-> e]]
          /\ \A d \in Calls \ {c} : pipe'[d] = pipe[d]
      BY <1>11, <1>t DEF ConnectionLost, TypeOK
    <2>2. phase' = phase /\ lapsed' = lapsed /\ key' = key
      BY <1>11 DEF ConnectionLost
    <2>3. pipe[c] \in Seq(Commands) /\ pipe'[c] \in Seq(Commands)
      BY <1>t DEF TypeOK
    <2>4. /\ Len(pipe'[c]) = Len(pipe[c])
          /\ \A j \in 1..Len(pipe[c]) :
               pipe'[c][j].kind = pipe[c][j].kind /\ pipe'[c][j].stage = e
      BY <2>1, <2>3
    <2>5. /\ \A d \in Calls \ {c} : <<"release", d>> \in ghosts' => <<"release", d>> \in ghosts
          /\ <<"release", c>> \in ghosts' =>
               \/ <<"release", c>> \in ghosts
               \/ \E j \in 1..Len(pipe[c]) : pipe[c][j].kind = "release"
      <3>1. DOMAIN pipe[c] = 1..Len(pipe[c])
        BY <2>3
      <3>2. \A g \in ghosts' : \/ g \in ghosts
                               \/ \E j \in DOMAIN pipe[c] : g = <<pipe[c][j].kind, c>>
        BY <1>11, Zenon DEF ConnectionLost
      <3> QED BY <3>1, <3>2
    <2>6. Ordered(c)' /\ GhostsOver(c)' /\ Holds(c)'
      BY <2>2, <2>4, <2>5 DEF MutexInv, Ordered, GhostsOver, Holds, Owns, Over
    <2>7. ASSUME NEW d \in Calls, d # c PROVE Ordered(d)' /\ GhostsOver(d)' /\ Holds(d)'
      BY <2>1, <2>2, <2>5, <2>7, Untouched
    <2> QED BY <1>t, <2>6, <2>7 DEF MutexInv
  <1>12. ASSUME NEW c \in Calls, NEW k \in Kinds, GhostExecute(c, k) PROVE MutexInv'
    <2>1. /\ pipe' = pipe /\ phase' = phase /\ lapsed' = lapsed
          /\ key' = KeyAfter(k, c) /\ <<k, c>> \in ghosts /\ ghosts' \subseteq ghosts
      BY <1>12 DEF GhostExecute
    <2>2. ASSUME NEW d \in Calls, ~(k = "release" /\ c = d)
          PROVE Ordered(d)' /\ GhostsOver(d)' /\ Holds(d)'
      BY <2>1, <2>2, KeyKept, Untouched
    <2>3. CASE k = "release"
      <3>1. Over(c)
        BY <2>1, <2>3 DEF MutexInv, GhostsOver
      <3>2. ~Owns(c)
        BY <3>1, OverOwnsNothing
      <3>3. Ordered(c)' /\ GhostsOver(c)' /\ Holds(c)'
        BY <2>1, <3>1, <3>2 DEF MutexInv, Ordered, GhostsOver, Holds, Owns, Over
      <3> QED BY <1>t, <2>2, <3>3 DEF MutexInv
    <2>4. CASE k # "release"
      BY <1>t, <2>2, <2>4 DEF MutexInv
    <2> QED BY <2>3, <2>4
  <1>13. ASSUME NEW c \in Calls, Resent(c) PROVE MutexInv'
    <2>1. /\ pipe'[c] = [i \in DOMAIN pipe[c] |-> Sent(pipe[c][i].kind)]
          /\ \A d \in Calls \ {c} : pipe'[d] = pipe[d] /\ phase'[d] = phase[d]
      BY <1>13, <1>t DEF Resent, TypeOK
    <2>2. pipe[c] \in Seq(Commands) /\ pipe'[c] \in Seq(Commands)
      BY <1>t DEF TypeOK
    <2>3. /\ Len(pipe'[c]) = Len(pipe[c])
          /\ \A j \in 1..Len(pipe[c]) :
               pipe'[c][j].kind = pipe[c][j].kind /\ pipe'[c][j].stage = "sent"
      BY <2>1, <2>2 DEF Sent
    <2>4. phase' = phase /\ ghosts' = ghosts /\ lapsed' = lapsed /\ key' = key
      BY <1>13 DEF Resent
    <2>5. Ordered(c)'
      BY <2>3, <2>4 DEF MutexInv, Ordered, Over
    <2>6. GhostsOver(c)' /\ Holds(c)'
      BY <2>3, <2>4 DEF MutexInv, GhostsOver, Holds, Owns, Over
    <2> QED BY <1>t, <2>1, <2>4, <2>5, <2>6, OwnStep
  <1>14. CASE Lapse
    <2>1. ASSUME NEW d \in Calls PROVE Ordered(d)' /\ GhostsOver(d)' /\ Holds(d)'
      BY <1>14, Untouched DEF Lapse
    <2> QED BY <1>t, <2>1 DEF MutexInv
  <1>15. CASE UNCHANGED vars
    <2>1. ASSUME NEW d \in Calls PROVE Ordered(d)' /\ GhostsOver(d)' /\ Holds(d)'
      BY <1>15, Untouched DEF vars
    <2> QED BY <1>t, <2>1 DEF MutexInv
  <1> QED
    BY <1>1, <1>2, <1>3, <1>4, <1>5, <1>6, <1>7, <1>8, <1>9, <1>10, <1>11,
       <1>12, <1>13, <1>14, <1>15 DEF Next, Client, Network

\* The invariant holds in every reachable state.
LEMMA Invariant == Spec => []MutexInv
  <1>1. Init => MutexInv
    <2> SUFFICES ASSUME Init PROVE MutexInv
      OBVIOUS
    <2>1. TypeOK
      BY MutexAssumption DEF Init, TypeOK, Phases
    <2>2. \A c \in Calls : Len(pipe[c]) = 0 /\ phase[c] = "idle" /\ ghosts = {}
      BY DEF Init
    <2> QED BY <2>1, <2>2 DEF MutexInv, Ordered, GhostsOver, Holds, Owns, Over
  <1> QED BY <1>1, InvStep, PTL DEF Spec

\* Two callbacks overlap only when the lease of one of them has lapsed.
THEOREM MutualExclusion == Spec => []ExclusiveUnlessLapsed
  <1>1. MutexInv => ExclusiveUnlessLapsed
    BY DEF MutexInv, Holds, Owns, ExclusiveUnlessLapsed
  <1> QED BY <1>1, Invariant, PTL

\* While a callback runs, its key leaves Redis only by the TTL.
THEOREM LockKept == Spec => HeldWhileInside
  <1>1. MutexInv /\ MutexInv' /\ [Next]_vars =>
          [\A c \in Calls :
             key = c /\ phase[c] \in {"enter", "inside"} /\ key' # c
               => c \in lapsed']_vars
    <2> SUFFICES ASSUME MutexInv, MutexInv', [Next]_vars, NEW c \in Calls,
                        key = c, phase[c] \in {"enter", "inside"}, key' # c
                 PROVE  c \in lapsed'
      OBVIOUS
    <2>1. ~Over(c) /\ ~(<<"release", c>> \in ghosts)
      BY DEF MutexInv, GhostsOver, Over
    <2>2. ASSUME NEW d \in Calls, Execute(d) PROVE FALSE
      <3>1. PICK i \in 1..Len(pipe[d]) : key' = KeyAfter(pipe[d][i].kind, d)
        BY <2>2 DEF Execute
      <3>2. pipe[d][i].kind \in Kinds
        <4>1. pipe[d] \in Seq(Commands)
          BY DEF MutexInv, TypeOK
        <4>2. pipe[d][i] \in Commands
          BY <4>1
        <4> QED BY <4>2 DEF Commands
      <3>3. pipe[d][i].kind = "release" /\ d = c
        BY <3>1, <3>2, KeyKept
      <3> QED BY <2>1, <3>3 DEF MutexInv, Ordered
    <2>3. ASSUME NEW d \in Calls, NEW k \in Kinds, GhostExecute(d, k) PROVE FALSE
      BY <2>1, <2>3, KeyKept DEF GhostExecute
    <2>4. key' = key \/ Lapse \/ \E d \in Calls : Execute(d) \/ \E k \in Kinds : GhostExecute(d, k)
      BY DEF Next, Client, Network, vars, withMutex, RetryDelayOver, Attempt,
             AcquireReply, callback, fnSettles, RenewTick, RenewReply,
             ReleaseReply, Abort, ConnectionLost, Resent
    <2>5. CASE Lapse
      BY <2>5 DEF Lapse
    <2> QED BY <2>2, <2>3, <2>4, <2>5
  <1> QED BY <1>1, Invariant, PTL DEF Spec, HeldWhileInside

-----------------------------------------------------------------------------
(***************************************************************************)
(* LeavesCleanly. While no connection has been lost, a call takes the lock *)
(* at most once and Redis runs its RELEASE at most once, so the place of   *)
(* the call tells whether the key can still be its own (Located), whether  *)
(* its lease can have lapsed yet (Fresh), and what a granted RELEASE means *)
(* (ReleaseIsLast). MutexInv orders the commands of a call.                *)
(***************************************************************************)

\* Nothing has been rejected and nothing is left to run late.
Unrejected(c) ==
  /\ \A i \in 1..Len(pipe[c]) : pipe[c][i].stage \in {"sent", "granted", "denied"}
  /\ \A k \in Kinds : <<k, c>> \notin ghosts

\* The key can be the call's only where RELEASE is still to come, or where the
\* call threw on an abort.
Located(c) ==
  key = c =>
    \/ phase[c] = "acquire" /\ pipe[c][1].stage = "granted"
    \/ phase[c] \in {"enter", "inside"}
    \/ phase[c] = "release" /\ \E i \in 1..Len(pipe[c]) : pipe[c][i] = Sent("release")
    \/ phase[c] = "threw" /\ aborted[c]

\* A call that was not granted the lock does not hold it and never did.
Fresh(c) ==
  \/ phase[c] \in {"idle", "wait"}
  \/ phase[c] = "acquire" /\ pipe[c][1].stage # "granted"
  => c \notin lapsed /\ key # c

\* RELEASE is the last command, and awaited; granted, it ended a lease that had
\* not lapsed.
ReleaseIsLast(c) ==
  \A i \in 1..Len(pipe[c]) :
    pipe[c][i].kind = "release" =>
      /\ i = Len(pipe[c]) /\ phase[c] = "release"
      /\ pipe[c][i].stage = "granted" => c \notin lapsed /\ key # c

\* The lock is not taken again after a lapse, and the lapse is known on return.
LapseIsFinal(c) ==
  c \in lapsed => key # c /\ (phase[c] = "returned" => lockFailed[c])

CleanCall(c) ==
  faults = 0 => Unrejected(c) /\ Located(c) /\ Fresh(c) /\ ReleaseIsLast(c) /\ LapseIsFinal(c)

CleanInv == MutexInv /\ \A c \in Calls : CleanCall(c)

\* A step that leaves a call and its connection alone, and neither gives it the
\* key nor lets its lease lapse, keeps what the invariant says of it.
LEMMA CleanUntouched ==
  ASSUME NEW d \in Calls, CleanCall(d), faults' = 0 => faults = 0,
         pipe'[d] = pipe[d], phase'[d] = phase[d], aborted'[d] = aborted[d],
         lockFailed'[d] = lockFailed[d],
         \A k \in Kinds : <<k, d>> \in ghosts' => <<k, d>> \in ghosts,
         d \in lapsed' => d \in lapsed,
         key' = d => key = d
  PROVE  CleanCall(d)'
  BY DEF CleanCall, Unrejected, Located, Fresh, ReleaseIsLast, LapseIsFinal

\* A step of c alone that leaves Redis alone need only be checked for c.
LEMMA CleanOwn ==
  ASSUME CleanInv, NEW c \in Calls, UNCHANGED <<key, ghosts, faults, lapsed>>,
         \A d \in Calls \ {c} :
           /\ pipe'[d] = pipe[d] /\ phase'[d] = phase[d]
           /\ aborted'[d] = aborted[d] /\ lockFailed'[d] = lockFailed[d],
         faults = 0 => CleanCall(c)'
  PROVE  \A d \in Calls : CleanCall(d)'
  <1>1. CleanCall(c)'
    BY DEF CleanCall
  <1>2. ASSUME NEW d \in Calls \ {c} PROVE CleanCall(d)'
    BY CleanUntouched DEF CleanInv
  <1> QED BY <1>1, <1>2

\* The finally block keeps the call clean: RELEASE joins the end of a
\* connection that carries only renewals.
LEMMA CleanFinally ==
  ASSUME CleanInv, NEW c \in Calls, NEW e, Finally(c, e),
         phase[c] \in {"enter", "inside"}, faults = 0,
         UNCHANGED <<key, ghosts, faults, lapsed, aborted, lockFailed>>
  PROVE  CleanCall(c)'
  <1>1. /\ pipe[c] \in Seq(Commands) /\ pipe'[c] = Append(pipe[c], Sent("release"))
        /\ phase'[c] = "release"
    BY DEF CleanInv, MutexInv, TypeOK, Finally
  <1>2. /\ Len(pipe[c]) \in Nat /\ Len(pipe'[c]) = Len(pipe[c]) + 1
        /\ \A i \in 1..Len(pipe[c]) : pipe'[c][i] = pipe[c][i]
        /\ pipe'[c][Len(pipe'[c])] = Sent("release")
    BY <1>1, Queue DEF Kinds
  <1>3. \A i \in 1..Len(pipe'[c]) : i = Len(pipe'[c]) \/ i \in 1..Len(pipe[c])
    BY <1>2
  <1>4. \A i \in 1..Len(pipe[c]) : pipe[c][i].kind # "release"
    BY DEF CleanInv, MutexInv, Ordered, Over
  <1>5. Sent("release").kind = "release" /\ Sent("release").stage = "sent"
    BY SentType DEF Kinds
  <1>6. Len(pipe'[c]) \in 1..Len(pipe'[c])
    BY <1>2
  <1>7. CleanCall(c)
    BY DEF CleanInv
  <1>8. Unrejected(c)'
    BY <1>2, <1>3, <1>5, <1>7 DEF CleanCall, Unrejected
  <1>9. Located(c)' /\ Fresh(c)'
    BY <1>1, <1>2, <1>6 DEF Located, Fresh
  <1>10. ReleaseIsLast(c)'
    BY <1>1, <1>2, <1>3, <1>4, <1>5 DEF ReleaseIsLast
  <1>11. LapseIsFinal(c)'
    BY <1>1, <1>7 DEF CleanCall, LapseIsFinal
  <1> QED BY <1>8, <1>9, <1>10, <1>11 DEF CleanCall

\* Every step keeps every call clean.
LEMMA CleanStep == CleanInv /\ [Next]_vars => CleanInv'
  <1> SUFFICES ASSUME CleanInv, [Next]_vars PROVE \A d \in Calls : CleanCall(d)'
    BY InvStep DEF CleanInv
  <1>t. TypeOK /\ TypeOK' /\ MutexInv /\ MutexInv' /\ \A d \in Calls : CleanCall(d)
    BY InvStep DEF CleanInv, MutexInv
  <1>o. \A d \in Calls : Ordered(d) /\ Ordered(d)'
    BY <1>t DEF MutexInv
  <1> USE Literals
  <1>a. ASSUME NEW c \in Calls, Attempt(c), phase[c] \in {"idle", "wait"}
        PROVE \A d \in Calls : CleanCall(d)'
    <2>1. \A d \in Calls \ {c} : pipe'[d] = pipe[d] /\ phase'[d] = phase[d]
      BY <1>a, <1>t DEF Attempt, TypeOK
    <2>2. Len(pipe[c]) = 0 /\ pipe[c] \in Seq(Commands)
      BY <1>a, <1>o, <1>t DEF Ordered, TypeOK
    <2>3. UNCHANGED <<key, aborted, lockFailed, ghosts, faults, lapsed>>
      BY <1>a DEF Attempt
    <2>4. ASSUME faults = 0 PROVE CleanCall(c)'
      <3>0. Unrejected(c) /\ c \notin lapsed /\ key # c
        BY <1>a, <1>t, <2>4 DEF CleanCall, Fresh
      <3>1. CASE aborted[c]
        <4>1. pipe'[c] = pipe[c] /\ phase'[c] = "threw"
          BY <1>a, <1>t, <3>1 DEF Attempt, TypeOK
        <4> QED BY <2>2, <2>3, <3>0, <4>1
                DEF CleanCall, Unrejected, Located, Fresh, ReleaseIsLast, LapseIsFinal
      <3>2. CASE ~aborted[c]
        <4>1. pipe'[c] = Append(pipe[c], Sent("acquire")) /\ phase'[c] = "acquire"
          BY <1>a, <1>t, <3>2 DEF Attempt, TypeOK
        <4>2. Len(pipe'[c]) = 1 /\ pipe'[c][1] = Sent("acquire")
          BY <2>2, <4>1, Queue
        <4>3. pipe'[c][1].kind = "acquire" /\ pipe'[c][1].stage = "sent"
          BY <4>2, SentType
        <4>4. \A i \in 1..Len(pipe'[c]) : i = 1
          BY <4>2
        <4> QED BY <2>3, <3>0, <4>1, <4>3, <4>4
                DEF CleanCall, Unrejected, Located, Fresh, ReleaseIsLast, LapseIsFinal
      <3> QED BY <3>1, <3>2
    <2> QED BY <2>1, <2>3, <2>4, CleanOwn
  <1>1. ASSUME NEW c \in Calls, withMutex(c) PROVE \A d \in Calls : CleanCall(d)'
    BY <1>1, <1>a DEF withMutex
  <1>2. ASSUME NEW c \in Calls, RetryDelayOver(c) PROVE \A d \in Calls : CleanCall(d)'
    BY <1>2, <1>a DEF RetryDelayOver
  <1>3. ASSUME NEW c \in Calls, AcquireReply(c) PROVE \A d \in Calls : CleanCall(d)'
    <2>1. Answer(c, "acquire") /\ UNCHANGED <<key, aborted, lockFailed, ghosts, faults, lapsed>>
      BY <1>3 DEF AcquireReply
    <2>2. /\ Len(pipe'[c]) = Len(pipe[c]) - 1 /\ Len(pipe[c]) \in Nat /\ Len(pipe[c]) > 0
          /\ pipe[c][1].kind = "acquire"
          /\ \A d \in Calls \ {c} : pipe'[d] = pipe[d]
      BY <1>t, <2>1, AnswerKeeps
    <2>3. 1 \in 1..Len(pipe[c])
      BY <2>2
    <2>4. phase[c] = "acquire" /\ Len(pipe[c]) = 1 /\ Head(pipe[c]) = pipe[c][1]
      BY <1>o, <1>t, <2>1, <2>2, <2>3, AnswerType DEF Ordered
    <2>5. Len(pipe'[c]) = 0 /\ \A i \in 1..Len(pipe'[c]) : FALSE
      BY <2>2, <2>4
    <2>6. /\ phase'[c] = AfterAcquire(c, pipe[c][1].stage)
          /\ \A d \in Calls \ {c} : phase'[d] = phase[d]
      BY <1>3, <1>t, <2>4 DEF AcquireReply, TypeOK
    <2>7. ASSUME faults = 0 PROVE CleanCall(c)'
      <3>1. Unrejected(c) /\ Fresh(c) /\ LapseIsFinal(c) /\ pipe[c][1].stage # "failed"
        BY <1>t, <2>3, <2>7 DEF CleanCall, Unrejected
      <3>2. Unrejected(c)' /\ ReleaseIsLast(c)'
        BY <2>1, <2>5, <3>1 DEF Unrejected, ReleaseIsLast
      <3>3. CASE pipe[c][1].stage = "granted"
        BY <2>1, <2>6, <3>1, <3>2, <3>3
           DEF AfterAcquire, CleanCall, Located, Fresh, LapseIsFinal
      <3>4. CASE pipe[c][1].stage # "granted"
        BY <2>1, <2>4, <2>6, <3>1, <3>2, <3>4
           DEF AfterAcquire, CleanCall, Located, Fresh, LapseIsFinal
      <3> QED BY <3>3, <3>4
    <2> QED BY <2>1, <2>2, <2>6, <2>7, CleanOwn
  <1>b. ASSUME NEW c \in Calls, NEW e, Finally(c, e), phase[c] \in {"enter", "inside"},
               UNCHANGED <<key, ghosts, faults, lapsed, aborted, lockFailed>>
        PROVE \A d \in Calls : CleanCall(d)'
    <2>1. \A d \in Calls \ {c} : pipe'[d] = pipe[d] /\ phase'[d] = phase[d]
      BY <1>b, <1>t DEF Finally, TypeOK
    <2> QED BY <1>b, <2>1, CleanFinally, CleanOwn
  <1>4. ASSUME NEW c \in Calls, callback(c) PROVE \A d \in Calls : CleanCall(d)'
    <2>1. CASE lockFailed[c]
      BY <1>4, <1>b, <2>1 DEF callback
    <2>2. CASE ~lockFailed[c]
      <3>1. /\ pipe' = pipe /\ phase[c] = "enter" /\ phase'[c] = "inside"
            /\ \A d \in Calls \ {c} : phase'[d] = phase[d]
            /\ UNCHANGED <<key, ghosts, faults, lapsed, aborted, lockFailed>>
        BY <1>4, <1>t, <2>2 DEF callback, TypeOK
      <3>2. CleanCall(c)'
        BY <1>t, <3>1 DEF CleanCall, Unrejected, Located, Fresh, ReleaseIsLast, LapseIsFinal
      <3> QED BY <3>1, <3>2, CleanOwn
    <2> QED BY <2>1, <2>2
  <1>5. ASSUME NEW c \in Calls, NEW ok \in BOOLEAN, fnSettles(c, ok)
        PROVE \A d \in Calls : CleanCall(d)'
    BY <1>5, <1>b DEF fnSettles
  <1>6. ASSUME NEW c \in Calls, RenewTick(c) PROVE \A d \in Calls : CleanCall(d)'
    <2>1. /\ phase[c] = "inside" /\ pipe[c] \in Seq(Commands)
          /\ pipe'[c] = Append(pipe[c], Sent("renew"))
          /\ \A d \in Calls \ {c} : pipe'[d] = pipe[d]
          /\ UNCHANGED <<key, ghosts, faults, lapsed, aborted, lockFailed, phase>>
      BY <1>6, <1>t DEF RenewTick, TypeOK
    <2>2. /\ Len(pipe[c]) \in Nat /\ Len(pipe'[c]) = Len(pipe[c]) + 1
          /\ \A i \in 1..Len(pipe[c]) : pipe'[c][i] = pipe[c][i]
          /\ pipe'[c][Len(pipe'[c])] = Sent("renew")
      BY <2>1, Queue
    <2>3. \A i \in 1..Len(pipe'[c]) : i = Len(pipe'[c]) \/ i \in 1..Len(pipe[c])
      BY <2>2
    <2>4. \A i \in 1..Len(pipe'[c]) : pipe'[c][i].kind # "release"
      BY <1>o, <2>1 DEF Ordered, Over
    <2>5. Sent("renew").stage = "sent"
      BY SentType
    <2>6. CleanCall(c)'
      BY <1>t, <2>1, <2>2, <2>3, <2>4, <2>5
         DEF CleanCall, Unrejected, Located, Fresh, ReleaseIsLast, LapseIsFinal
    <2> QED BY <2>1, <2>6, CleanOwn
  <1>7. ASSUME NEW c \in Calls, RenewReply(c) PROVE \A d \in Calls : CleanCall(d)'
    <2>1. Answer(c, "renew") /\ UNCHANGED <<key, phase, aborted, ghosts, faults, lapsed>>
      BY <1>7 DEF RenewReply
    <2>2. /\ Len(pipe'[c]) = Len(pipe[c]) - 1 /\ Len(pipe[c]) \in Nat /\ Len(pipe[c]) > 0
          /\ pipe[c][1].kind = "renew"
          /\ \A j \in 1..Len(pipe'[c]) : pipe'[c][j] = pipe[c][j + 1]
          /\ \A d \in Calls \ {c} : pipe'[d] = pipe[d]
      BY <1>t, <2>1, AnswerKeeps
    <2>3. /\ \A j \in 1..Len(pipe'[c]) : j + 1 \in 1..Len(pipe[c])
          /\ \A j \in 1..Len(pipe[c]) : j # 1 => /\ j - 1 \in 1..Len(pipe'[c])
                                                 /\ pipe'[c][j - 1] = pipe[c][j]
      BY <2>2
    <2>4. phase[c] \notin {"acquire", "idle", "wait", "enter"}
      BY <1>o, <2>2 DEF Ordered
    <2>5. /\ lockFailed[c] => lockFailed'[c]
          /\ \A d \in Calls \ {c} : lockFailed'[d] = lockFailed[d]
      BY <1>7, <1>t DEF RenewReply, TypeOK
    <2>6. ASSUME faults = 0 PROVE CleanCall(c)'
      <3>1. Unrejected(c) /\ Located(c) /\ ReleaseIsLast(c) /\ LapseIsFinal(c)
        BY <1>t, <2>6 DEF CleanCall
      <3>2. Unrejected(c)'
        BY <2>1, <2>2, <2>3, <3>1 DEF Unrejected
      <3>3. Located(c)'
        <4>1. ASSUME NEW i \in 1..Len(pipe[c]), pipe[c][i] = Sent("release")
              PROVE  \E j \in 1..Len(pipe'[c]) : pipe'[c][j] = Sent("release")
          <5>1. i # 1
            BY <2>2, <4>1, SentType
          <5> QED BY <2>3, <4>1, <5>1
        <4> QED BY <2>1, <2>4, <3>1, <4>1 DEF Located
      <3>4. Fresh(c)' /\ LapseIsFinal(c)'
        BY <2>1, <2>4, <2>5, <3>1 DEF Fresh, LapseIsFinal
      <3>5. ReleaseIsLast(c)'
        <4>1. ASSUME NEW j \in 1..Len(pipe'[c]), pipe'[c][j].kind = "release"
              PROVE  /\ j = Len(pipe'[c]) /\ phase[c] = "release"
                     /\ pipe'[c][j].stage = "granted" => c \notin lapsed /\ key # c
          <5>1. /\ j + 1 = Len(pipe[c]) /\ phase[c] = "release"
                /\ pipe[c][j + 1].stage = "granted" => c \notin lapsed /\ key # c
            BY <2>2, <2>3, <3>1, <4>1 DEF ReleaseIsLast
          <5> QED BY <2>2, <5>1
        <4> QED BY <2>1, <4>1 DEF ReleaseIsLast
      <3> QED BY <3>2, <3>3, <3>4, <3>5 DEF CleanCall
    <2> QED BY <2>1, <2>2, <2>5, <2>6, CleanOwn
  <1>8. ASSUME NEW c \in Calls, ReleaseReply(c) PROVE \A d \in Calls : CleanCall(d)'
    <2>1. Answer(c, "release") /\ UNCHANGED <<key, aborted, lockFailed, ghosts, faults, lapsed>>
      BY <1>8 DEF ReleaseReply
    <2>2. /\ Len(pipe'[c]) = Len(pipe[c]) - 1 /\ Len(pipe[c]) \in Nat /\ Len(pipe[c]) > 0
          /\ pipe[c][1].kind = "release"
          /\ \A d \in Calls \ {c} : pipe'[d] = pipe[d]
      BY <1>t, <2>1, AnswerKeeps
    <2>3. 1 \in 1..Len(pipe[c]) /\ Head(pipe[c]) = pipe[c][1] /\ pipe[c][1].stage # "sent"
      BY <1>t, <2>1, <2>2, AnswerType DEF Answer
    <2>4. /\ phase'[c] = AfterRelease(c, pipe[c][1].stage)
          /\ \A d \in Calls \ {c} : phase'[d] = phase[d]
      BY <1>8, <1>t, <2>3 DEF ReleaseReply, TypeOK
    <2>5. Over(c)
      BY <1>o, <2>2, <2>3 DEF Ordered
    <2>6. ASSUME faults = 0 PROVE CleanCall(c)'
      <3>1. Unrejected(c) /\ Located(c) /\ ReleaseIsLast(c) /\ LapseIsFinal(c)
        BY <1>t, <2>6 DEF CleanCall
      <3>2. Len(pipe[c]) = 1 /\ pipe[c][1].stage \in {"granted", "denied"}
        BY <2>2, <2>3, <3>1 DEF ReleaseIsLast, Unrejected
      <3>3. (\A i \in 1..Len(pipe'[c]) : FALSE) /\ \A i \in 1..Len(pipe[c]) : i = 1
        BY <2>2, <3>2
      <3>4. phase[c] = "release"
        BY <2>2, <2>3, <3>1 DEF ReleaseIsLast
      <3>5. key # c
        BY <2>3, <3>1, <3>3, <3>4, SentType DEF Located
      <3>6. Unrejected(c)' /\ ReleaseIsLast(c)'
        BY <2>1, <3>1, <3>3 DEF Unrejected, ReleaseIsLast
      <3>7. phase'[c] \in {"threw", "returned"}
        BY <2>4 DEF AfterRelease
      <3>8. Located(c)' /\ Fresh(c)'
        BY <2>1, <3>5, <3>7 DEF Located, Fresh
      <3>9. LapseIsFinal(c)'
        <4>1. pipe[c][1].stage = "granted" => c \notin lapsed
          BY <2>2, <2>3, <3>1 DEF ReleaseIsLast
        <4> QED BY <2>1, <2>4, <3>2, <3>5, <4>1 DEF LapseIsFinal, AfterRelease
      <3> QED BY <3>6, <3>8, <3>9 DEF CleanCall
    <2> QED BY <2>1, <2>2, <2>4, <2>6, CleanOwn
  <1>9. ASSUME NEW c \in Calls, Abort(c) PROVE \A d \in Calls : CleanCall(d)'
    <2>1. /\ UNCHANGED <<key, ghosts, faults, lapsed, pipe>> /\ aborted'[c]
          /\ phase'[c] = IF phase[c] = "wait" THEN "threw" ELSE phase[c]
          /\ \A d \in Calls \ {c} : phase'[d] = phase[d] /\ aborted'[d] = aborted[d]
      BY <1>9, <1>t DEF Abort, TypeOK
    <2>2. /\ lockFailed[c] => lockFailed'[c]
          /\ \A d \in Calls \ {c} : lockFailed'[d] = lockFailed[d]
      BY <1>9, <1>t DEF Abort, TypeOK
    <2>3. CleanCall(c)'
      BY <1>t, <2>1, <2>2 DEF CleanCall, Unrejected, Located, Fresh, ReleaseIsLast, LapseIsFinal
    <2> QED BY <2>1, <2>2, <2>3, CleanOwn
  <1>10. ASSUME NEW c \in Calls, Execute(c) PROVE \A d \in Calls : CleanCall(d)'
    <2>1. PICK i \in 1..Len(pipe[c]) :
            /\ pipe[c][i].stage = "sent"
            /\ pipe' = [pipe EXCEPT ![c] =
                          [pipe[c] EXCEPT ![i] = Executed(c, pipe[c][i])]]
            /\ key' = KeyAfter(pipe[c][i].kind, c)
      BY <1>10 DEF Execute
    <2>2. pipe[c] \in Seq(Commands) /\ pipe[c][i].kind \in Kinds
      <3>1. pipe[c] \in Seq(Commands)
        BY <1>t DEF TypeOK
      <3>2. pipe[c][i] \in Commands
        BY <3>1
      <3> QED BY <3>1, <3>2 DEF Commands
    <2>3. UNCHANGED <<phase, ghosts, faults, lapsed, aborted, lockFailed>>
      BY <1>10 DEF Execute
    <2>4. Len(pipe'[c]) = Len(pipe[c]) /\ \A d \in Calls \ {c} : pipe'[d] = pipe[d]
      BY <1>t, <2>1, <2>2 DEF TypeOK
    <2>5. /\ \A j \in 1..Len(pipe[c]) : j # i => pipe'[c][j] = pipe[c][j]
          /\ pipe'[c][i] = Executed(c, pipe[c][i])
      BY <1>t, <2>1, <2>2 DEF TypeOK
    <2>6. /\ pipe'[c][i].kind = pipe[c][i].kind
          /\ pipe'[c][i].stage = IF Granted(pipe[c][i].kind, c) THEN "granted" ELSE "denied"
      BY <2>5 DEF Executed
    <2>7. ASSUME NEW d \in Calls \ {c} PROVE CleanCall(d)'
      <3>1. key' = d => key = d
        BY <2>1, <2>2, MutexAssumption DEF KeyAfter, Kinds
      <3> QED BY <1>t, <2>3, <2>4, <3>1, CleanUntouched
    <2>8. ASSUME faults = 0 PROVE CleanCall(c)'
      <3>1. Unrejected(c) /\ Located(c) /\ Fresh(c) /\ ReleaseIsLast(c) /\ LapseIsFinal(c)
        BY <1>t, <2>8 DEF CleanCall
      <3>2. Unrejected(c)'
        BY <2>3, <2>4, <2>5, <2>6, <3>1 DEF Unrejected
      <3>3. CASE pipe[c][i].kind = "acquire"
        <4>1. phase[c] = "acquire" /\ Len(pipe[c]) = 1 /\ i = 1
          BY <1>o, <3>3 DEF Ordered
        <4>2. c \notin lapsed /\ key # c
          BY <2>1, <3>1, <4>1 DEF Fresh
        <4>3. key' = IF Granted("acquire", c) THEN c ELSE key
          BY <2>1, <3>3 DEF KeyAfter
        <4>4. \A j \in 1..Len(pipe'[c]) : pipe'[c][j].kind = "acquire"
          BY <2>4, <2>6, <3>3, <4>1
        <4> QED BY <2>3, <2>6, <3>2, <3>3, <4>1, <4>2, <4>3, <4>4
                DEF CleanCall, Located, Fresh, ReleaseIsLast, LapseIsFinal
      <3>4. CASE pipe[c][i].kind = "renew"
        <4>1. key' = key
          BY <2>1, <3>4 DEF KeyAfter
        <4>2. phase[c] \notin {"acquire", "idle", "wait"}
          BY <1>o, <3>4 DEF Ordered
        <4>3. \A j \in 1..Len(pipe[c]) : pipe[c][j] = Sent("release") => pipe'[c][j] = pipe[c][j]
          BY <2>5, <3>4, SentType
        <4>4. \A j \in 1..Len(pipe[c]) : pipe'[c][j].kind = "release" => pipe'[c][j] = pipe[c][j]
          BY <2>5, <2>6, <3>4
        <4> QED BY <2>3, <2>4, <3>1, <3>2, <4>1, <4>2, <4>3, <4>4
                DEF CleanCall, Located, Fresh, ReleaseIsLast, LapseIsFinal
      <3>5. CASE pipe[c][i].kind = "release"
        <4>1. i = Len(pipe[c]) /\ phase[c] = "release"
          BY <3>1, <3>5 DEF ReleaseIsLast
        <4>2. key' # c /\ (Granted("release", c) => key = c)
          BY <2>1, <3>5, MutexAssumption DEF KeyAfter, Granted
        <4>3. pipe'[c][i].stage = "granted" => c \notin lapsed
          BY <2>6, <3>1, <3>5, <4>2 DEF LapseIsFinal
        <4>4. \A j \in 1..Len(pipe'[c]) : pipe'[c][j].kind = "release" => j = i
          BY <2>4, <2>5, <3>1, <4>1 DEF ReleaseIsLast
        <4> QED BY <2>3, <2>4, <3>1, <3>2, <4>1, <4>2, <4>3, <4>4
                DEF CleanCall, Located, Fresh, ReleaseIsLast, LapseIsFinal
      <3> QED BY <2>2, <3>3, <3>4, <3>5 DEF Kinds
    <2>9. CleanCall(c)'
      BY <2>3, <2>8 DEF CleanCall
    <2> QED BY <2>7, <2>9
  <1>11. ASSUME NEW c \in Calls, NEW e \in {"closed", "failed"}, ConnectionLost(c, e)
         PROVE \A d \in Calls : CleanCall(d)'
    <2>1. faults' # 0
      BY <1>11, <1>t DEF ConnectionLost, TypeOK
    <2> QED BY <2>1 DEF CleanCall
  <1>12. ASSUME NEW c \in Calls, NEW k \in Kinds, GhostExecute(c, k)
         PROVE \A d \in Calls : CleanCall(d)'
    <2>1. faults # 0 /\ faults' = faults
      BY <1>12, <1>t DEF GhostExecute, CleanCall, Unrejected
    <2> QED BY <2>1 DEF CleanCall
  <1>13. ASSUME NEW c \in Calls, Resent(c) PROVE \A d \in Calls : CleanCall(d)'
    <2>1. faults' # 0
      BY <1>13, <1>t DEF Resent, TypeOK
    <2> QED BY <2>1 DEF CleanCall
  <1>14. CASE Lapse
    <2>1. /\ key' = NoLock /\ lapsed' = lapsed \cup {key} /\ key # NoLock
          /\ UNCHANGED <<phase, aborted, lockFailed, pipe, ghosts, faults>>
      BY <1>14 DEF Lapse
    <2>2. ASSUME NEW d \in Calls PROVE CleanCall(d)'
      <3>1. key' # d
        BY <2>1, MutexAssumption
      <3>2. CASE key # d
        BY <1>t, <2>1, <3>1, <3>2, CleanUntouched
      <3>3. CASE key = d
        <4>1. ASSUME faults = 0, NEW i \in 1..Len(pipe[d]), pipe[d][i].kind = "release"
              PROVE  pipe[d][i].stage # "granted" /\ phase[d] = "release" /\ i = Len(pipe[d])
          BY <1>t, <3>3, <4>1 DEF CleanCall, ReleaseIsLast
        <4>2. ASSUME faults = 0
              PROVE  /\ phase[d] \notin {"idle", "wait", "returned"}
                     /\ phase[d] = "acquire" => pipe[d][1].stage = "granted"
          BY <1>t, <3>3, <4>2 DEF CleanCall, Located
        <4> QED BY <1>t, <2>1, <3>1, <4>1, <4>2
                DEF CleanCall, Unrejected, Located, Fresh, ReleaseIsLast, LapseIsFinal
      <3> QED BY <3>2, <3>3
    <2> QED BY <2>2
  <1>15. CASE UNCHANGED vars
    BY <1>15, <1>t, CleanUntouched DEF vars
  <1> QED
    BY <1>1, <1>2, <1>3, <1>4, <1>5, <1>6, <1>7, <1>8, <1>9, <1>10, <1>11,
       <1>12, <1>13, <1>14, <1>15 DEF Next, Client, Network

\* A call releases its lock on every path but an abort or a lost connection,
\* and does not return after a lapse that its context was not told of.
THEOREM CleanExit == Spec => []LeavesCleanly
  <1>1. Init => CleanInv
    <2> SUFFICES ASSUME Init PROVE CleanInv
      OBVIOUS
    <2>1. TypeOK
      BY MutexAssumption DEF Init, TypeOK, Phases
    <2>2. \A c \in Calls : Len(pipe[c]) = 0 /\ phase[c] = "idle" /\ ghosts = {}
      BY DEF Init
    <2>3. \A c \in Calls : key # c /\ c \notin lapsed
      BY MutexAssumption DEF Init
    <2>4. MutexInv
      BY <2>1, <2>2 DEF MutexInv, Ordered, GhostsOver, Holds, Owns, Over
    <2>5. \A c \in Calls : CleanCall(c)
      BY <2>2, <2>3 DEF CleanCall, Unrejected, Located, Fresh, ReleaseIsLast, LapseIsFinal
    <2> QED BY <2>4, <2>5 DEF CleanInv
  <1>2. CleanInv => LeavesCleanly
    <2> SUFFICES ASSUME CleanInv PROVE LeavesCleanly
      OBVIOUS
    <2>1. ReleasedOnEveryPath
      <3>1. faults \in Nat
        BY DEF CleanInv, MutexInv, TypeOK
      <3> QED BY <3>1 DEF CleanInv, CleanCall, Located, ReleasedOnEveryPath, Settled
    <2>2. LossIsSignalled
      BY DEF CleanInv, CleanCall, LapseIsFinal, LossIsSignalled
    <2> QED BY <2>1, <2>2 DEF LeavesCleanly
  <1> QED BY <1>1, <1>2, CleanStep, PTL DEF Spec
=============================================================================
