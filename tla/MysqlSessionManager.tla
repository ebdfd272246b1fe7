------------------------- MODULE MysqlSessionManager -------------------------
(* The shared MySQL session manager of the test harness.  A suite reserves a  *)
(* slot (a database with one backend connection), prepares its schema once,   *)
(* and its frontend connections take turns on the slot inside one persistent  *)
(* transaction that is rolled back to a baseline between them.  What runs on  *)
(* a slot's connection is queued per slot.  One database key; SQL is a row    *)
(* written, or a begin, commit or rollback.                                   *)
EXTENDS Naturals, Sequences, FiniteSets

CONSTANTS Suites, Frontends,
          SuiteOf,    \* the suite of a frontend connection
          PoolSize,
          MaxSlots,   \* bound on slots ever created
          MaxRuns,    \* bound on statements
          MaxFaults   \* bound on failures, timeouts and disconnects

SlotIds == 1..MaxSlots

VARIABLES
    slot,        \* per slot: [made, in, by, ready, preparing, lease, conn, tx]; in: in group.slots,
                 \* by: reservation, ready: schemaReady, tx: transactionReady; 0 is nobody
    queue,       \* per slot: the tasks of enqueueSlot(), <<kind, who>>
    waiters,     \* per slot: frontends waiting for the lease
    slotWaiters, \* suites waiting for a slot
    rows,        \* per slot: frontends whose uncommitted rows the connection sees
    stack,       \* transactionStack: what rows was at each savepoint
    suite,       \* "new", "waiting", "creating", "holds", "preparing", "completing", "releasing",
                 \* "released", "failed", "lost"
    mine,        \* the slot of a suite
    fe,          \* per frontend: "idle", "waiting", "woken", "acquiring", "held", "releasing",
                 \* "done", "failed"
    runs, faults

backend == <<rows, stack>>
clients == <<suite, mine, fe>>
vars == <<slot, queue, waiters, slotWaiters, backend, clients, runs, faults>>

Unmade == [made |-> FALSE, in |-> FALSE, by |-> 0, ready |-> FALSE, preparing |-> 0, lease |-> 0,
           conn |-> FALSE, tx |-> FALSE]

Init == /\ slot = [k \in SlotIds |-> Unmade] /\ queue = [k \in SlotIds |-> <<>>]
        /\ waiters = [k \in SlotIds |-> <<>>] /\ slotWaiters = <<>>
        /\ rows = [k \in SlotIds |-> {}] /\ stack = [k \in SlotIds |-> <<>>]
        /\ suite = [s \in Suites |-> "new"] /\ mine = [s \in Suites |-> 0]
        /\ fe = [f \in Frontends |-> "idle"] /\ runs = 0 /\ faults = 0

Fault == faults < MaxFaults /\ faults' = faults + 1
Named(q) == {q[i] : i \in DOMAIN q}
Without(q, x) == SelectSeq(q, LAMBDA y : y # x)

-----------------------------------------------------------------------------
(* Slots and their reservations.                                              *)

\* createSlot(): an unused slot, when the pool may still grow.
Creatable(sl) == IF Cardinality({k \in SlotIds : sl[k].in}) < PoolSize
                 THEN {k \in SlotIds : ~sl[k].made /\ \A l \in SlotIds : ~sl[l].made => k <= l} ELSE {}

\* reserveAvailableSlot(): the first free slot, or a new one.
Available(sl) == LET free == {k \in SlotIds : sl[k].in /\ sl[k].by = 0}
                 IN  IF free # {} THEN {k \in free : \A l \in free : k <= l} ELSE Creatable(sl)

Reserved(sl, k, s) == [sl EXCEPT ![k] = [@ EXCEPT !.made = TRUE, !.in = TRUE, !.by = s]]

\* Mutant: a slot that was destroyed is not replaced for those who wait.
WakeSlotWaiterReuse(sl, su) ==
    IF slotWaiters # <<>> /\ \E k \in SlotIds : sl[k].in /\ sl[k].by = 0
    THEN LET k == CHOOSE k \in Available(sl) : TRUE
             s == Head(slotWaiters)
         IN  /\ slot' = Reserved(sl, k, s) /\ slotWaiters' = Tail(slotWaiters)
             /\ suite' = [su EXCEPT ![s] = "creating"] /\ mine' = [mine EXCEPT ![s] = k]
    ELSE slot' = sl /\ suite' = su /\ UNCHANGED <<slotWaiters, mine>>

\* wakeSlotWaiter(): the slot that has become free goes to the first waiting suite.
WakeSlotWaiter(sl, su) ==
    IF slotWaiters # <<>> /\ Available(sl) # {}
    THEN LET k == CHOOSE k \in Available(sl) : TRUE
             s == Head(slotWaiters)
         IN  /\ slot' = Reserved(sl, k, s) /\ slotWaiters' = Tail(slotWaiters)
             /\ suite' = [su EXCEPT ![s] = "creating"] /\ mine' = [mine EXCEPT ![s] = k]
    ELSE slot' = sl /\ suite' = su /\ UNCHANGED <<slotWaiters, mine>>

\* ensureDatabase() and reserveSlot().
EnsureDatabase(s) ==
    /\ suite[s] = "new"
    /\ IF Available(slot) # {}
       THEN \E k \in Available(slot) : /\ slot' = Reserved(slot, k, s) /\ suite' = [suite EXCEPT ![s] = "creating"]
                                       /\ mine' = [mine EXCEPT ![s] = k] /\ UNCHANGED slotWaiters
       ELSE /\ suite' = [suite EXCEPT ![s] = "waiting"] /\ slotWaiters' = Append(slotWaiters, s)
            /\ UNCHANGED <<slot, mine>>
    /\ UNCHANGED <<queue, waiters, backend, fe, runs, faults>>

\* A waiting suite's connection closes.
SlotWaitCancelled(s) ==
    /\ suite[s] = "waiting" /\ Fault /\ suite' = [suite EXCEPT ![s] = "failed"]
    /\ slotWaiters' = Without(slotWaiters, s)
    /\ UNCHANGED <<slot, queue, waiters, backend, mine, fe, runs>>

\* destroySlot(): it leaves the pool at once; the queue is let run dry by those who wait.
Destroyed(k) == [slot EXCEPT ![k] = [Unmade EXCEPT !.made = TRUE]]
DestroySlot(k, s) ==
    /\ queue[k] = <<>> /\ WakeSlotWaiter(Destroyed(k), [suite EXCEPT ![s] = "failed"])
    /\ fe' = [f \in Frontends |-> IF f \in Named(waiters[k]) THEN "failed" ELSE fe[f]]
    /\ waiters' = [waiters EXCEPT ![k] = <<>>]
    /\ rows' = [rows EXCEPT ![k] = {}] /\ stack' = [stack EXCEPT ![k] = <<>>] /\ UNCHANGED queue

\* databaseReady settles; a database that exists already has no way to fail.
DatabaseReady(s) ==
    /\ suite[s] = "creating"
    /\ \/ /\ suite' = [suite EXCEPT ![s] = "holds"]
          /\ UNCHANGED <<slot, queue, waiters, slotWaiters, backend, mine, fe, faults>>
       \/ ~slot[mine[s]].ready /\ ~slot[mine[s]].conn /\ Fault /\ DestroySlot(mine[s], s)
    /\ UNCHANGED runs

\* releaseDatabase(): who waits is refused, then the backend connection is closed in turn.
ReleaseDatabase(s) ==
    /\ suite[s] = "holds" /\ suite' = [suite EXCEPT ![s] = "releasing"]
    /\ LET k == mine[s]
       IN  /\ fe' = [f \in Frontends |-> IF f \in Named(waiters[k]) THEN "failed" ELSE fe[f]]
           /\ waiters' = [waiters EXCEPT ![k] = <<>>] /\ queue' = [queue EXCEPT ![k] = Append(@, <<"close", s>>)]
    /\ UNCHANGED <<slot, slotWaiters, backend, mine, runs, faults>>

\* A suite's process dies: its frontends' connections close, nobody gives the slot back.
SuiteDies(s) ==
    /\ suite[s] \in {"creating", "holds", "preparing"} /\ Fault /\ suite' = [suite EXCEPT ![s] = "lost"]
    /\ LET k == mine[s]
           its == {f \in Frontends : SuiteOf[f] = s}
       IN  /\ waiters' = [waiters EXCEPT ![k] = SelectSeq(@, LAMBDA f : f \notin its)]
           /\ queue' = IF slot[k].lease \in its THEN [queue EXCEPT ![k] = Append(@, <<"reset", slot[k].lease>>)] ELSE queue
           /\ fe' = [f \in Frontends |-> IF f \in its /\ fe[f] \notin {"acquiring", "woken"} THEN "done" ELSE fe[f]]
    /\ UNCHANGED <<slot, slotWaiters, backend, mine, runs>>

-----------------------------------------------------------------------------
(* The schema.                                                                *)

PrepareSchema(s) ==
    /\ suite[s] = "holds" /\ ~slot[mine[s]].ready /\ slot[mine[s]].preparing = 0
    /\ slot' = [slot EXCEPT ![mine[s]].preparing = s] /\ suite' = [suite EXCEPT ![s] = "preparing"]
    /\ UNCHANGED <<queue, waiters, slotWaiters, backend, mine, fe, runs, faults>>

\* completeSchema(): the persistent transaction starts in turn, or the slot is destroyed.
CompleteSchema(s) ==
    /\ suite[s] = "preparing"
    /\ LET k == mine[s]
       IN  \/ /\ slot' = [slot EXCEPT ![k].preparing = 0, ![k].ready = TRUE]
              /\ queue' = [queue EXCEPT ![k] = Append(@, <<"restart", s>>)]
              /\ suite' = [suite EXCEPT ![s] = "completing"]
              /\ UNCHANGED <<waiters, slotWaiters, backend, mine, fe, faults>>
           \/ Fault /\ DestroySlot(k, s)
    /\ UNCHANGED runs

\* failSchemaPreparation(), 180 s after it began.
FailSchemaPreparation(k) ==
    /\ slot[k].preparing # 0 /\ (suite[slot[k].preparing] = "lost" \/ faults < MaxFaults)
    /\ faults' = IF suite[slot[k].preparing] = "lost" THEN faults ELSE faults + 1
    /\ WakeSlotWaiter([slot EXCEPT ![k] = [@ EXCEPT !.in = FALSE, !.by = 0, !.preparing = 0, !.tx = FALSE]],
                      [suite EXCEPT ![slot[k].preparing] = "failed"])
    /\ stack' = [stack EXCEPT ![k] = <<>>] /\ UNCHANGED <<queue, waiters, rows, fe, runs>>

-----------------------------------------------------------------------------
(* Frontend connections.                                                      *)

Lease(k, f) == /\ slot' = [slot EXCEPT ![k].lease = f] /\ queue' = [queue EXCEPT ![k] = Append(@, <<"open", f>>)]
               /\ fe' = [fe EXCEPT ![f] = "acquiring"] /\ UNCHANGED waiters

Wait(k, f) == /\ fe' = [fe EXCEPT ![f] = "waiting"] /\ waiters' = [waiters EXCEPT ![k] = Append(@, f)]
              /\ UNCHANGED <<slot, queue>>

\* acquire(): the first call, and the loop's next turn after the waiter was resolved.
Acquire(f) ==
    LET s == SuiteOf[f]
        k == mine[s]
    IN  /\ \/ fe[f] = "idle" /\ suite[s] \in {"holds", "preparing", "completing"} /\ slot[k].in /\ slot[k].by = s
           \/ fe[f] = "woken"
        /\ IF slot[k].lease = 0 THEN Lease(k, f) ELSE Wait(k, f)
        /\ UNCHANGED <<slotWaiters, backend, suite, mine, runs, faults>>

\* A frontend that waits disconnects.
WaitCancelled(f) ==
    /\ fe[f] = "waiting" /\ Fault /\ fe' = [fe EXCEPT ![f] = "done"]
    /\ waiters' = [waiters EXCEPT ![mine[SuiteOf[f]]] = Without(@, f)]
    /\ UNCHANGED <<slot, queue, slotWaiters, backend, suite, mine, runs>>

\* findSlotByOwner().
OwnerSlot(f) == {k \in SlotIds : slot[k].in /\ slot[k].lease = f}

\* run(), until its turn comes.
Run(f, kind) ==
    /\ fe[f] \in {"held", "releasing"} /\ runs < MaxRuns /\ runs' = runs + 1
    /\ \E k \in OwnerSlot(f) : queue' = [queue EXCEPT ![k] = Append(@, <<kind, f>>)]
    /\ UNCHANGED <<slot, waiters, slotWaiters, backend, clients, faults>>

\* release(), by the client or because it disconnected; it may be called again before it
\* has taken effect.
Release(f) ==
    /\ \/ fe[f] = "held" /\ UNCHANGED faults
       \/ fe[f] = "releasing" /\ Fault
    /\ LET k == mine[SuiteOf[f]]
       IN  IF k \in OwnerSlot(f)
           THEN fe' = [fe EXCEPT ![f] = "releasing"] /\ queue' = [queue EXCEPT ![k] = Append(@, <<"reset", f>>)]
           ELSE fe' = [fe EXCEPT ![f] = "done"] /\ UNCHANGED queue
    /\ UNCHANGED <<slot, waiters, slotWaiters, backend, suite, mine, runs>>

-----------------------------------------------------------------------------
(* The tasks of a slot.                                                       *)

\* ensurePersistentTransaction(): a transaction that has to be restarted loses its rows.
Ensured(k) == [slot[k] EXCEPT !.conn = TRUE, !.tx = slot[k].ready]
RowsEnsured(k) == IF slot[k].tx THEN rows[k] ELSE {}
StackEnsured(k) == IF slot[k].tx THEN stack[k] ELSE <<>>

\* The next waiter is resolved.
WakeNext(k, fes) ==
    IF waiters[k] = <<>> THEN fe' = fes /\ UNCHANGED waiters
    ELSE fe' = [fes EXCEPT ![Head(waiters[k])] = "woken"] /\ waiters' = [waiters EXCEPT ![k] = Tail(@)]

Unleased(sl, f) == IF sl.lease = f THEN [sl EXCEPT !.lease = 0] ELSE sl

\* The rest of acquire(): the connection is opened and is at the baseline.
OpenTask(k, f) ==
    \/ /\ slot' = [slot EXCEPT ![k] = Ensured(k)]
       /\ rows' = [rows EXCEPT ![k] = IF slot[k].ready THEN RowsEnsured(k) ELSE {}]
       /\ stack' = [stack EXCEPT ![k] = StackEnsured(k)]
       /\ fe' = [fe EXCEPT ![f] = IF suite[SuiteOf[f]] = "lost" THEN "done" ELSE "held"] /\ UNCHANGED <<waiters, faults>>
    \/ /\ Fault /\ slot' = [slot EXCEPT ![k] = Unleased(@, f)]
       /\ IF slot[k].lease = f THEN WakeNext(k, [fe EXCEPT ![f] = "failed"])
          ELSE fe' = [fe EXCEPT ![f] = "failed"] /\ UNCHANGED waiters
       /\ UNCHANGED backend

\* A statement; one of a frontend that lost the lease meanwhile is refused.
RunTask(k, f, kind) ==
    /\ IF slot[k].lease # f THEN UNCHANGED <<slot, backend>>
       ELSE LET r == RowsEnsured(k)
                st == StackEnsured(k)
                top == st[Len(st)]
                popped == SubSeq(st, 1, Len(st) - 1)
            IN  /\ slot' = [slot EXCEPT ![k] = Ensured(k)]
                /\ rows' = [rows EXCEPT ![k] =
                       IF kind = "write" THEN IF slot[k].ready THEN r \cup {f} ELSE r
                       ELSE IF kind = "rollback" THEN IF st = <<>> THEN {} ELSE top ELSE r]
                /\ stack' = [stack EXCEPT ![k] =
                       IF kind = "begin" THEN Append(st, r)
                       ELSE IF kind \in {"commit", "rollback"} /\ st # <<>> THEN popped ELSE st]
    /\ UNCHANGED <<waiters, fe, faults>>

\* Mutant: what is rolled back is the frontend's own transaction.
ResetConnectionAfterLeaseOwn(k) ==
    /\ stack' = [stack EXCEPT ![k] = <<>>]
    /\ rows' = [rows EXCEPT ![k] = IF stack[k] = <<>> THEN @ ELSE stack[k][1]]

\* resetConnectionAfterLease(): back to the baseline savepoint, or a new transaction.
ResetConnectionAfterLease(k) ==
    rows' = [rows EXCEPT ![k] = {}] /\ stack' = [stack EXCEPT ![k] = <<>>]

\* The rest of release(), whether the reset succeeds or the connection is lost with its
\* transaction.
ResetTask(k, f) ==
    /\ ResetConnectionAfterLease(k)
    /\ \/ slot' = [slot EXCEPT ![k] = Unleased([@ EXCEPT !.tx = @ \/ (slot[k].conn /\ slot[k].ready)], f)] /\ UNCHANGED faults
       \/ Fault /\ slot' = [slot EXCEPT ![k] = Unleased([@ EXCEPT !.tx = FALSE], f)]
    /\ WakeNext(k, [fe EXCEPT ![f] = IF @ = "releasing" THEN "done" ELSE @])

RestartTask(k, s) ==
    /\ rows' = [rows EXCEPT ![k] = {}] /\ stack' = [stack EXCEPT ![k] = <<>>]
    /\ \/ slot' = [slot EXCEPT ![k] = [@ EXCEPT !.conn = TRUE, !.tx = TRUE]] /\ UNCHANGED faults
       \/ Fault /\ slot' = [slot EXCEPT ![k] = [@ EXCEPT !.ready = FALSE, !.tx = FALSE]]
    /\ suite' = [suite EXCEPT ![s] = IF @ = "completing" THEN "holds" ELSE @]
    /\ UNCHANGED <<waiters, slotWaiters, mine, fe>>

\* closeBackendConnection() and the rest of releaseDatabase().
CloseTask(k, s) ==
    /\ rows' = [rows EXCEPT ![k] = {}] /\ stack' = [stack EXCEPT ![k] = <<>>]
    /\ WakeSlotWaiter([slot EXCEPT ![k] = [@ EXCEPT !.conn = FALSE, !.tx = FALSE, !.lease = 0, !.by = 0]],
                      [suite EXCEPT ![s] = "released"])
    /\ fe' = [f \in Frontends |-> IF f \in Named(waiters[k]) THEN "failed" ELSE fe[f]]
    /\ waiters' = [waiters EXCEPT ![k] = <<>>] /\ UNCHANGED faults

\* enqueueSlot(): one task at a time, in order, whatever became of the earlier ones.
Task(k) ==
    /\ queue[k] # <<>> /\ queue' = [queue EXCEPT ![k] = Tail(@)]
    /\ LET kind == Head(queue[k])[1]
           who == Head(queue[k])[2]
       IN  \/ kind = "open" /\ OpenTask(k, who) /\ UNCHANGED <<slotWaiters, suite, mine>>
           \/ kind \in {"write", "begin", "commit", "rollback"} /\ RunTask(k, who, kind) /\ UNCHANGED <<slotWaiters, suite, mine>>
           \/ kind = "reset" /\ ResetTask(k, who) /\ UNCHANGED <<slotWaiters, suite, mine>>
           \/ kind = "restart" /\ RestartTask(k, who)
           \/ kind = "close" /\ CloseTask(k, who)
    /\ UNCHANGED runs

Next == \/ \E s \in Suites : \/ EnsureDatabase(s) \/ SlotWaitCancelled(s) \/ DatabaseReady(s) \/ ReleaseDatabase(s)
                             \/ SuiteDies(s) \/ PrepareSchema(s) \/ CompleteSchema(s)
        \/ \E k \in SlotIds : FailSchemaPreparation(k) \/ Task(k)
        \/ \E f \in Frontends : Acquire(f) \/ WaitCancelled(f) \/ Release(f)
        \/ \E f \in Frontends, kind \in {"write", "begin", "commit", "rollback"} : Run(f, kind)

\* The manager's own steps, and what a test run does sooner or later: a frontend releases,
\* a suite finishes its preparation and gives its slot back.
Progress == \/ \E s \in Suites : DatabaseReady(s) \/ ReleaseDatabase(s) \/ CompleteSchema(s)
            \/ \E k \in SlotIds : Task(k) \/ (slot[k].preparing # 0 /\ suite[slot[k].preparing] = "lost" /\ FailSchemaPreparation(k))
            \/ \E f \in Frontends : (fe[f] = "woken" /\ Acquire(f)) \/ (fe[f] = "held" /\ Release(f))

Spec == Init /\ [][Next]_vars
FairSpec == Spec /\ WF_vars(Progress)

-----------------------------------------------------------------------------
\* A frontend that holds a slot sees no row of another one, of its own suite or of an earlier
\* one, whatever was left open, failed or disconnected before (resetConnectionAfterLease,
\* ensurePersistentTransaction, the lease check of run()).
StartsAtBaseline == \A k \in SlotIds : rows[k] # {} /\ slot[k].lease # 0 => rows[k] \subseteq {slot[k].lease}

\* Somebody waits: a suite for a slot, or a frontend for a slot that is still in the pool.
Waiting(s) == suite[s] = "waiting" /\ \A p \in Suites : suite[p] # "lost"
Queued(f) == fe[f] = "waiting" /\ slot[mine[SuiteOf[f]]].in
SomebodyWaits == (\E s \in Suites : Waiting(s)) \/ (\E f \in Frontends : Queued(f))

\* Every suite gets a slot or an error, unless a suite died with its slot, and every frontend
\* its turn or an error, unless its slot was taken out of the pool by the timeout of its
\* preparation (wakeSlotWaiter, release, acquire).
NobodyIsForgotten == []<>~SomebodyWaits
=============================================================================
