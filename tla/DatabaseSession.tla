--------------------------- MODULE DatabaseSession --------------------------
(* One database transaction: DatabaseSession's unit of work, savepoints and    *)
(* commit hooks inside BaseDatabase.transaction(), with query mutations that   *)
(* the callback does not wait for.  Entities have one observed field and an    *)
(* assigned primary key.  A value 0 stands for no row, or no snapshot.         *)
EXTENDS Naturals, FiniteSets, Sequences

CONSTANTS Objects,      \* entity instances
          Rows,         \* primary keys
          MaxOps,       \* bound on what the callback and its hooks do
          EditsInFlush  \* whether instances change while a flush is under way

VARIABLES
    pc,       \* where transaction() is
    key,      \* the primary key of each instance
    rows0,    \* the rows when the transaction began
    rows,     \* the rows as the connection sees them
    value,    \* the instance's field
    orig,     \* OriginalSnapshot
    queued, managed, removed,
    touched,  \* touchedEntities
    inserted, \* insertedEntities
    muts,     \* the accumulator's entityMutations: [in, before, after]
    qmuts,    \* the accumulator's queryMutations: keys
    saved,    \* the savepoint's checkpoint, <<>> before there is one
    fl,       \* flush() under way: [by, phase, done, obj, now, before]
    pend,     \* pendingOperations: [k, v, at]
    errors,   \* pendingOperationErrors is not empty
    hooks,    \* pre-commit hooks left to run
    seen,     \* what the interceptors were shown
    ops

session == <<queued, managed, removed, touched, inserted, muts, qmuts>>
instances == <<value, orig>>
flow == <<pc, saved, hooks, seen, ops>>
vars == <<flow, key, rows0, rows, instances, session, fl, pend, errors>>

Values == 1..2
None == [in |-> FALSE, before |-> 0, after |-> 0]
Idle == [by |-> "none", phase |-> "idle", done |-> {}, obj |-> "none", now |-> 0, before |-> 0]

Init == /\ pc = "worker" /\ key \in [Objects -> Rows] /\ (\E o \in Objects : key[o] = 1)
        /\ rows0 \in [Rows -> 0..1] /\ rows = rows0
        /\ orig \in {f \in [Objects -> 0..1] : \A o \in Objects : f[o] <= rows0[key[o]]}
        /\ value = [o \in Objects |-> 1] /\ managed = {o \in Objects : orig[o] # 0}
        /\ queued = {} /\ removed = {} /\ touched = {} /\ inserted = {}
        /\ muts = [o \in Objects |-> None] /\ qmuts = {} /\ saved = <<>> /\ fl = Idle
        /\ pend = {} /\ errors = FALSE /\ hooks = 0 /\ seen = {} /\ ops = 0

-----------------------------------------------------------------------------
(* The mutation accumulator.                                                  *)

Same(o) == {p \in Objects : key[p] = key[o]}

\* getMutations(): the net changes, <<instance, before, after>>.
Mutations == {<<o, muts[o].before, muts[o].after>> :
                  o \in {p \in Objects : muts[p].in /\ muts[p].before # muts[p].after}}

\* recordEntity(): one entry per row; it keeps the first image and moves to the last instance.
RecordEntity(o, before, after) ==
    LET earlier == {p \in Same(o) : muts[p].in}
        first == IF earlier = {} THEN before ELSE muts[CHOOSE p \in earlier : TRUE].before
    IN  muts' = [p \in Objects |->
                    IF p = o THEN IF first = 0 /\ after = 0 THEN None ELSE [in |-> TRUE, before |-> first, after |-> after]
                    ELSE IF p \in earlier THEN None ELSE muts[p]]

\* loadEntitySnapshotForUpdate(): what this transaction wrote last, or the row.
LoadForUpdate(o) ==
    LET pending == {m \in Mutations : m[1] \in Same(o) /\ m[3] # 0}
    IN  IF pending = {} THEN rows[key[o]] ELSE (CHOOSE m \in pending : TRUE)[3]

-----------------------------------------------------------------------------
(* flush(), saveEntity() and deleteEntity().                                  *)

\* A flush is under way already: the second one returns at once.
StartFlush(by) == fl' = IF fl.phase = "idle" THEN [Idle EXCEPT !.by = by, !.phase = "queued"] ELSE fl

ToSave == IF fl.phase = "queued" THEN queued
          ELSE IF fl.phase = "managed" THEN managed \ (fl.done \cup queued \cup removed)
          ELSE removed

NextPhase == /\ fl.phase # "idle" /\ fl.obj = "none" /\ ToSave = {}
             /\ fl' = IF fl.phase = "removed" THEN Idle
                      ELSE [fl EXCEPT !.phase = IF @ = "queued" THEN "managed" ELSE "removed", !.done = {}]
             /\ UNCHANGED <<flow, key, rows0, rows, instances, session, pend, errors>>

\* The instance is done with: it is managed from now on.
Saved(o) == /\ queued' = queued \ {o} /\ UNCHANGED removed
            /\ managed' = IF fl.phase = "queued" THEN managed \cup {o} ELSE managed
            /\ fl' = [fl EXCEPT !.done = @ \cup {o}, !.obj = "none"]

\* saveEntity() until its statement: an instance that is not dirty, or whose row is gone,
\* is only marked clean.
BeginSave(o) ==
    /\ fl.phase \in {"queued", "managed"} /\ fl.obj = "none" /\ o \in ToSave
    /\ IF orig[o] = 0 \/ (value[o] # orig[o] /\ LoadForUpdate(o) # 0)
       THEN /\ fl' = [fl EXCEPT !.obj = o, !.now = value[o], !.before = IF orig[o] = 0 THEN 0 ELSE LoadForUpdate(o)]
            /\ UNCHANGED <<orig, session>>
       ELSE orig' = [orig EXCEPT ![o] = value[o]] /\ Saved(o) /\ UNCHANGED <<touched, inserted, muts, qmuts>>
    /\ UNCHANGED <<flow, key, rows0, rows, value, pend, errors>>

\* The INSERT has succeeded.
Insert(o) ==
    /\ fl.obj = o /\ fl.phase # "removed" /\ orig[o] = 0 /\ rows[key[o]] = 0
    /\ rows' = [rows EXCEPT ![key[o]] = fl.now]
    /\ touched' = touched \cup {o} /\ inserted' = inserted \cup {o}
    /\ RecordEntity(o, 0, value[o]) /\ orig' = [orig EXCEPT ![o] = value[o]]
    /\ Saved(o) /\ UNCHANGED <<flow, key, rows0, value, qmuts, pend, errors>>

\* The UPDATE has returned; the instance gets what was read and written.
Update(o) ==
    /\ fl.obj = o /\ fl.phase # "removed" /\ orig[o] # 0
    /\ value' = [value EXCEPT ![o] = fl.now] /\ orig' = [orig EXCEPT ![o] = fl.now]
    /\ IF rows[key[o]] # 0
       THEN /\ rows' = [rows EXCEPT ![key[o]] = fl.now] /\ touched' = touched \cup {o}
            /\ RecordEntity(o, fl.before, fl.now)
       ELSE UNCHANGED <<rows, touched, muts>>
    /\ Saved(o) /\ UNCHANGED <<flow, key, rows0, inserted, qmuts, pend, errors>>

\* deleteEntity(), then unmanage().
Delete(o) ==
    /\ fl.phase = "removed" /\ o \in removed
    /\ IF rows[key[o]] # 0
       THEN /\ rows' = [rows EXCEPT ![key[o]] = 0] /\ touched' = touched \cup {o}
            /\ RecordEntity(o, LoadForUpdate(o), 0)
       ELSE UNCHANGED <<rows, touched, muts>>
    /\ queued' = queued \ {o} /\ managed' = managed \ {o} /\ removed' = removed \ {o}
    /\ UNCHANGED <<flow, key, rows0, instances, inserted, qmuts, fl, pend, errors>>

-----------------------------------------------------------------------------
(* The callback and the hooks.                                                *)

UserRuns == pc \in {"worker", "hook"} /\ fl.by # "main"
Act == UserRuns /\ ops < MaxOps /\ ops' = ops + 1 /\ (EditsInFlush \/ fl.phase = "idle")

Set(o, v) == /\ Act /\ value[o] # v /\ value' = [value EXCEPT ![o] = v]
             /\ UNCHANGED <<pc, saved, hooks, seen, key, rows0, rows, orig, session, fl, pend, errors>>

\* add(): the caller does not add an instance whose row it has seen deleted.
Add(o) == /\ Act /\ o \notin queued /\ (orig[o] # 0 => rows[key[o]] # 0)
          /\ queued' = queued \cup {o} /\ removed' = removed \ {o}
          /\ UNCHANGED <<pc, saved, hooks, seen, key, rows0, rows, instances, managed, touched, inserted, muts, qmuts, fl, pend, errors>>

\* persistEntities(): add() and flush().
Persist(o) == /\ Act /\ (orig[o] # 0 => rows[key[o]] # 0) /\ StartFlush("main")
              /\ queued' = queued \cup {o} /\ removed' = removed \ {o}
              /\ UNCHANGED <<pc, saved, hooks, seen, key, rows0, rows, instances, managed, touched, inserted, muts, qmuts, pend, errors>>

Remove(o) == /\ Act /\ o \notin removed /\ queued' = queued \ {o} /\ managed' = managed \ {o}
             /\ removed' = IF o \notin queued \/ o \in managed \/ orig[o] # 0 THEN removed \cup {o} ELSE removed
             /\ UNCHANGED <<pc, saved, hooks, seen, key, rows0, rows, instances, touched, inserted, muts, qmuts, fl, pend, errors>>

\* patchOne() or deleteOne(), not awaited: trackOperation().
Track(k, v) == /\ Act /\ pend = {} /\ pend' = {[k |-> k, v |-> v, at |-> "flush"]}
               /\ UNCHANGED <<pc, saved, hooks, seen, key, rows0, rows, instances, session, fl, errors>>

\* rawFind() of the targets flushes first.
TrackedFlush(p) == /\ p \in pend /\ p.at = "flush" /\ StartFlush("op")
                   /\ pend' = {[p EXCEPT !.at = "write"]}
                   /\ UNCHANGED <<flow, key, rows0, rows, instances, session, errors>>

TrackedWrite(p) ==
    /\ p \in pend /\ p.at = "write" /\ fl.by # "op" /\ pend' = {}
    /\ IF rows[p.k] # 0 THEN rows' = [rows EXCEPT ![p.k] = p.v] /\ qmuts' = qmuts \cup {p.k}
       ELSE UNCHANGED <<rows, qmuts>>
    /\ UNCHANGED <<flow, key, rows0, instances, queued, managed, removed, touched, inserted, muts, fl, errors>>

TrackedFails(p) == /\ p \in pend /\ p.at = "write" /\ fl.by # "op" /\ pend' = {} /\ errors' = TRUE
                   /\ UNCHANGED <<flow, key, rows0, rows, instances, session, fl>>

\* addPreCommitHook().
AddHook == /\ Act /\ pc = "worker" /\ hooks = 0 /\ hooks' = 1
           /\ UNCHANGED <<pc, saved, seen, key, rows0, rows, instances, session, fl, pend, errors>>

\* savepoint(): waits, flushes, and takes the checkpoint.
Savepoint == /\ Act /\ saved = <<>> /\ pend = {} /\ ~errors /\ StartFlush("main")
             /\ pc' = IF pc = "worker" THEN "savepoint" ELSE "hookSavepoint"
             /\ UNCHANGED <<saved, hooks, seen, key, rows0, rows, instances, session, pend, errors>>

\* createCheckpoint().
Checkpoint ==
    /\ pc \in {"savepoint", "hookSavepoint"} /\ fl.phase = "idle"
    /\ pc' = IF pc = "savepoint" THEN "worker" ELSE "hook"
    /\ saved' = <<[rows |-> rows, value |-> value, orig |-> orig, queued |-> queued, managed |-> managed,
                   removed |-> removed, touched |-> touched, inserted |-> inserted, muts |-> muts,
                   qmuts |-> qmuts, hooks |-> hooks, mutations |-> Mutations]>>
    /\ UNCHANGED <<hooks, seen, ops, key, rows0, rows, instances, session, fl, pend, errors>>

\* What restoreCheckpoint() knows of o's row: <<its image at the savepoint>>, or nothing.
Directives(o, c) ==
    {<<IF \E s \in c.mutations : s[1] \in Same(m[1]) THEN (CHOOSE s \in c.mutations : s[1] \in Same(m[1]))[3] ELSE m[2]>> :
         m \in {n \in Mutations : n[1] \in Same(o)}}
Directive(o, c) ==
    IF Directives(o, c) # {} THEN Directives(o, c)
    ELSE IF \E p \in Same(o) : p \in inserted \ c.inserted THEN {<<0>>} ELSE {}

\* Mutant: an instance inserted since the savepoint stays as it is.
RestoredKeepsInserts(o, c) ==
    IF o \in c.managed \/ o \in c.touched THEN [value |-> c.value[o], orig |-> IF c.orig[o] = 0 THEN 0 ELSE c.value[o]]
    ELSE IF o \in touched /\ Directive(o, c) # {} /\ Directive(o, c) # {<<0>>}
         THEN LET image == (CHOOSE d \in Directive(o, c) : TRUE)[1] IN [value |-> image, orig |-> image]
    ELSE [value |-> value[o], orig |-> orig[o]]

\* restoreCheckpoint() of an instance.
Restored(o, c) ==
    IF o \in c.managed \/ o \in c.touched THEN [value |-> c.value[o], orig |-> IF c.orig[o] = 0 THEN 0 ELSE c.value[o]]
    ELSE IF o \in touched /\ Directive(o, c) # {}
         THEN LET image == (CHOOSE d \in Directive(o, c) : TRUE)[1]
              IN  [value |-> IF image = 0 THEN value[o] ELSE image, orig |-> image]
    ELSE [value |-> value[o], orig |-> orig[o]]

\* rollbackToSavepoint(): settles what is tracked, and leaves the savepoint in place.
RollbackToSavepoint ==
    /\ Act /\ saved # <<>> /\ pend = {}
    /\ LET c == saved[1]
       IN  /\ rows' = c.rows
           /\ value' = [o \in Objects |-> Restored(o, c).value] /\ orig' = [o \in Objects |-> Restored(o, c).orig]
           /\ queued' = c.queued /\ managed' = c.managed /\ removed' = c.removed /\ inserted' = c.inserted
           /\ muts' = c.muts /\ qmuts' = c.qmuts
           /\ hooks' = IF pc = "worker" THEN c.hooks ELSE hooks
           /\ errors' = FALSE
    /\ UNCHANGED <<pc, saved, seen, key, rows0, touched, fl, pend>>

-----------------------------------------------------------------------------
(* transaction().                                                             *)

\* The callback or a hook returns; a hook of the same weight may follow at once.
Returns == /\ UserRuns /\ pc' = "drain"
           /\ UNCHANGED <<saved, hooks, seen, ops, key, rows0, rows, instances, session, fl, pend, errors>>

\* Mutant: nothing is waited for or flushed after a hook.
DrainOnce == /\ pc = "drain" /\ fl.phase = "idle" /\ (hooks = 1 => pend = {} /\ ~errors)
             /\ StartFlush("main") /\ pc' = IF hooks = 1 THEN "drained" ELSE "intercept"
             /\ UNCHANGED <<saved, hooks, seen, ops, key, rows0, rows, instances, session, pend, errors>>

\* waitForPendingOperations() and flush(), before the hooks, between weights and at the end.
Drain == /\ pc = "drain" /\ pend = {} /\ ~errors /\ StartFlush("main") /\ pc' = "drained"
         /\ UNCHANGED <<saved, hooks, seen, ops, key, rows0, rows, instances, session, pend, errors>>

\* CommitHookQueue.run(): the next hook, or none is left.
NextHook == /\ pc = "drained" /\ fl.phase = "idle"
            /\ IF hooks = 1 THEN pc' = "hook" /\ hooks' = 2 ELSE pc' = "intercept" /\ UNCHANGED hooks
            /\ UNCHANGED <<saved, seen, ops, key, rows0, rows, instances, session, fl, pend, errors>>

\* runMutationInterceptors(), which may add rows of other entities.
RunMutationInterceptors ==
    /\ pc = "intercept" /\ pc' = "last" /\ seen' = Mutations
    /\ UNCHANGED <<saved, hooks, ops, key, rows0, rows, instances, session, fl, pend, errors>>

LastFlush == /\ pc = "last" /\ pend = {} /\ ~errors /\ fl.phase = "idle" /\ StartFlush("main") /\ pc' = "commit"
             /\ UNCHANGED <<saved, hooks, seen, ops, key, rows0, rows, instances, session, pend, errors>>

\* The session is dropped, unless a tracked operation still runs with it.
Dropped == IF pend = {}
           THEN /\ queued' = {} /\ managed' = {} /\ removed' = {} /\ touched' = {} /\ inserted' = {}
                /\ muts' = [o \in Objects |-> None] /\ saved' = <<>> /\ UNCHANGED qmuts
           ELSE UNCHANGED <<session, saved>>

Commit == /\ pc = "commit" /\ fl.phase = "idle" /\ pc' = "committed" /\ Dropped
          /\ UNCHANGED <<hooks, seen, ops, key, rows0, rows, instances, fl, pend, errors>>

\* A statement, a hook, an interceptor or the callback itself fails.  Only what fails in
\* runPreCommitHooks() settles the tracked operations before the rollback.
Fail == /\ pc \notin {"committed", "rolledBack"} /\ fl.by # "op"
        /\ pc \in {"hook", "hookSavepoint", "drain", "drained", "intercept", "last", "commit"} => pend = {}
        /\ pc' = "rolledBack" /\ rows' = rows0 /\ fl' = Idle /\ Dropped
        /\ UNCHANGED <<hooks, seen, ops, key, rows0, instances, pend, errors>>

\* A duplicate key fails the flush of a tracked operation, and so the operation.
FlushFails(o) == /\ fl.by = "op" /\ fl.obj = o /\ orig[o] = 0 /\ rows[key[o]] # 0 /\ fl' = Idle
                 /\ pend' = {} /\ errors' = TRUE
                 /\ UNCHANGED <<flow, key, rows0, rows, instances, session>>

Next == \/ NextPhase \/ AddHook \/ Savepoint \/ Checkpoint \/ RollbackToSavepoint
        \/ Returns \/ Drain \/ NextHook \/ RunMutationInterceptors \/ LastFlush \/ Commit \/ Fail
        \/ \E o \in Objects : \/ BeginSave(o) \/ Insert(o) \/ Update(o) \/ Delete(o) \/ FlushFails(o)
                              \/ Add(o) \/ Persist(o) \/ Remove(o) \/ \E v \in Values : Set(o, v)
        \/ \E p \in pend : TrackedFlush(p) \/ TrackedWrite(p) \/ TrackedFails(p)
        \/ \E k \in Rows, v \in {0, 2} : Track(k, v)

Spec == Init /\ [][Next]_vars

-----------------------------------------------------------------------------
\* The interceptors see the net change of every row that was not changed by a query mutation
\* (those are reported apart): whatever instances, hooks, savepoints and flushes produced the
\* rows that are committed, the image at the start and the image at the end are the ones
\* reported, once per row (recordEntity, CommitHookQueue.run, restoreCheckpoint).
InterceptorsSeeEveryChange ==
    pc = "committed" =>
        \A k \in Rows \ qmuts : {<<m[2], m[3]>> : m \in {n \in seen : key[n[1]] = k}}
                                = IF rows[k] = rows0[k] THEN {} ELSE {<<rows0[k], rows[k]>>}

\* Between flushes a managed instance that is its row's only one was read or written as the
\* row is now, and one that was inserted and is new again has no row: a rollback to a
\* savepoint leaves no instance on the wrong side of it (restoreCheckpoint, markEntityNew).
InstancesMatchRows ==
    fl.phase = "idle" /\ pc # "rolledBack" =>
        \A o \in Objects : Same(o) = {o} /\ key[o] \notin qmuts =>
            /\ o \in managed => rows[key[o]] = orig[o]
            /\ o \in touched \ inserted /\ rows0[key[o]] = 0 => orig[o] = 0

\* transaction() rolls back on error: nothing that the callback started is written after it.
\* The code does not keep this: a tracked operation that the callback did not await goes on
\* after the rollback, which settles tracked operations only on the way to a commit.
RollsBackOnError == pc = "rolledBack" => rows = rows0
=============================================================================
