--------------------------- MODULE TestIsolation ---------------------------
(***************************************************************************)
(* TestingFacade (src/src/testing/index.ts): a suite creates or joins a    *)
(* test database, prepares its schema, seeds it and resets it before every *)
(* test.  In savepoint mode one connection with an open transaction stands *)
(* for the whole pool: the transactions of the code under test become      *)
(* savepoints of it, kept on one stack, and a reset rolls back to a named  *)
(* one.  Without savepoints the suite owns its database and a reset        *)
(* truncates and seeds it.                                                 *)
(*                                                                         *)
(* The content of the database is a sequence of rows, each named for what  *)
(* wrote it; in savepoint mode the savepoints stand between them.          *)
(***************************************************************************)
EXTENDS Integers, Sequences, SequencesExt

CONSTANTS
    Txs,        \* transactions of the code under test
    Overlap,    \* whether they may end in another order than they nest
    MaxSuites,  \* bound: suites of the process
    MaxTests,   \* bound: tests of the process
    MaxFaults   \* bound: operations that fail

VARIABLES
    useSavepoints, suiteSeed,   \* options of the facade and of its hooks
    phase,      \* where the suite is
    shared,     \* the shared database: "none", "empty" or "ready" (has a schema)
    own,        \* the suite has created a database of its own
    config,     \* whose database the configuration names
    acquire,    \* what driver.acquire returns: a pooled or the one connection
    conn,       \* the one connection: "none", "open", or "stray" in the pool
    content,    \* rows and savepoints of the suite's database
    transactionStack, savepointId,
    tx,         \* tx[t]: state and, without savepoints, rows not committed
    order,      \* the transactions the test has open, the innermost last
    fresh,      \* nothing has been written since the test began
    stranded,   \* a cleanup call failed
    count       \* bounds: suites, tests, faults

vars == <<useSavepoints, suiteSeed, phase, shared, own, config, acquire, conn, content,
          transactionStack, savepointId, tx, order, fresh, stranded, count>>

suite == <<useSavepoints, suiteSeed, shared, own, config, acquire, conn>>

Row(by) == [kind |-> "row", name |-> by]
Savepoint(name) == [kind |-> "savepoint", name |-> name]
IsRow(entry) == entry.kind = "row"
Rows == SelectSeq(content, IsRow)

IdleTxs == [t \in Txs |-> [state |-> "idle", rows |-> <<>>]]

Init ==
    /\ useSavepoints = FALSE /\ suiteSeed = FALSE
    /\ phase = "stopped"
    /\ shared = "none" /\ own = FALSE /\ config = "app" /\ acquire = "pool" /\ conn = "none"
    /\ content = <<>>
    /\ transactionStack = <<>> /\ savepointId = 0
    /\ tx = IdleTxs /\ order = <<>>
    /\ fresh = FALSE /\ stranded = FALSE
    /\ count = [suites |-> 0, tests |-> 0, faults |-> 0]

Fault == count.faults < MaxFaults /\ count' = [count EXCEPT !.faults = @ + 1]

-----------------------------------------------------------------------------
\* start()

\* A suite begins; a shared database of an earlier suite is still there.
Begin(savepoints, seeded) ==
    /\ phase = "stopped" /\ count.suites < MaxSuites
    /\ count' = [count EXCEPT !.suites = @ + 1]
    /\ useSavepoints' = savepoints /\ suiteSeed' = seeded
    /\ phase' = "create"
    /\ UNCHANGED <<shared, own, config, acquire, conn, content, transactionStack, savepointId,
                   tx, order, fresh, stranded>>

\* createSharedDatabase(): the first suite creates it, the others join.
CreateSharedDatabase == shared' = IF shared = "none" THEN "empty" ELSE shared

\* applyDatabaseConfig(), restoreDatabaseConfig()
ApplyDatabaseConfig == config' = "test"
RestoreDatabaseConfig == config' = "app"

CreateDatabase ==
    /\ phase = "create"
    /\ IF useSavepoints
       THEN CreateSharedDatabase /\ UNCHANGED own
       ELSE own' = TRUE /\ UNCHANGED shared
    /\ ApplyDatabaseConfig
    /\ phase' = "schema"
    /\ UNCHANGED <<useSavepoints, suiteSeed, acquire, conn, content, transactionStack,
                   savepointId, tx, order, fresh, stranded, count>>

\* truncateTables(): every table but that of the migrations.
Truncated == <<>>

\* seed()
Seeded(rows) == Append(rows, Row("seed"))

\* prepareDatabaseSchema(): once for a shared database; truncates.
PrepareDatabaseSchema ==
    /\ phase = "schema"
    /\ shared' = IF useSavepoints THEN "ready" ELSE shared
    /\ content' = IF useSavepoints /\ shared = "ready" THEN content ELSE Truncated
    /\ phase' = IF useSavepoints THEN "isolate" ELSE "app"
    /\ UNCHANGED <<useSavepoints, suiteSeed, own, config, acquire, conn, transactionStack,
                   savepointId, tx, order, fresh, stranded, count>>

\* initSavepointIsolation(): one connection for all, with an open transaction;
\* the seed, then the savepoint every reset returns to.
InitSavepointIsolation ==
    /\ phase = "isolate"
    /\ acquire' = "one" /\ conn' = "open"
    /\ content' = Append(Seeded(content), Savepoint("after_seed"))
    /\ transactionStack' = <<>> /\ savepointId' = 0
    /\ phase' = "app"
    /\ UNCHANGED <<useSavepoints, suiteSeed, shared, own, config, tx, order, fresh, stranded, count>>

\* createSeedSavepoint(): the rows of the suite and a savepoint after them.
WithSuiteSeed(rows) == rows \o <<Row("suite"), Savepoint("after_suite_seed")>>

\* The application starts; without savepoints autoSeedData seeds here.  The
\* before hook then adds the rows of the suite, in savepoint mode only.
StartApp ==
    /\ phase = "app"
    /\ content' =
         IF ~useSavepoints THEN Seeded(content)
         ELSE IF suiteSeed THEN WithSuiteSeed(content) ELSE content
    /\ phase' = "between"
    /\ UNCHANGED <<useSavepoints, suiteSeed, shared, own, config, acquire, conn, transactionStack,
                   savepointId, tx, order, fresh, stranded, count>>

-----------------------------------------------------------------------------
\* stop(), and the catch of start()

\* Mutant: a failed rollback leaves the one connection in place of the pool.
TeardownOnSuccess(rolledBack) ==
    /\ acquire' = IF rolledBack THEN "pool" ELSE acquire
    /\ content' = IF conn = "open" \/ own THEN <<>> ELSE content

\* teardownSavepointIsolation() restores the driver before it rolls back, and
\* the transaction of the suite goes with its connection.
Teardown(rolledBack) ==
    /\ acquire' = "pool"
    /\ content' = IF conn = "open" \/ own THEN <<>> ELSE content

\* dropDatabase() failed.
Undropped(dropped) == own /\ ~dropped

\* destroyDatabase(): a shared database is released, the suite's own dropped.
DestroyDatabase(dropped) ==
    /\ own' = FALSE
    /\ stranded' = (stranded \/ Undropped(dropped))

\* closeDatabaseProvider() ends the connections of the pool.
CleanupDatabase(rolledBack, closed, dropped) ==
    /\ Teardown(rolledBack)
    /\ conn' = IF closed \/ rolledBack \/ conn = "none" THEN "none" ELSE "stray"
    /\ IF closed THEN DestroyDatabase(dropped) ELSE own' = FALSE /\ stranded' = TRUE
    /\ RestoreDatabaseConfig
    /\ phase' = "stopped"
    /\ tx' = IdleTxs /\ order' = <<>> /\ fresh' = FALSE
    /\ UNCHANGED <<useSavepoints, suiteSeed, transactionStack, savepointId>>

\* stop() goes on after a failing step; only DROP DATABASE can leave something.
Stop ==
    /\ phase = "between"
    /\ \/ CleanupDatabase(TRUE, TRUE, TRUE) /\ UNCHANGED count
       \/ Fault /\ \E r, d \in BOOLEAN : CleanupDatabase(r, TRUE, d)
    /\ UNCHANGED shared

\* A step of start() fails.  A failed schema preparation forgets and destroys
\* the shared database; a rollback that fails as well skips the rest of
\* cleanupDatabase() but not the configuration.
StartFails ==
    /\ phase \in {"create", "schema", "isolate", "app"}
    /\ Fault
    /\ shared' = IF phase = "schema" /\ useSavepoints /\ shared = "empty" THEN "none" ELSE shared
    /\ \/ CleanupDatabase(TRUE, TRUE, TRUE)
       \/ CleanupDatabase(TRUE, TRUE, FALSE)
       \/ conn = "open" /\ CleanupDatabase(FALSE, FALSE, FALSE)

-----------------------------------------------------------------------------
\* The hooks around a test.

Position(name) ==
    SelectLastInSeq(content, LAMBDA entry : entry = Savepoint(name))

\* ROLLBACK TO SAVEPOINT keeps the savepoint and drops what follows it.
RolledBackTo(name) == SubSeq(content, 1, Position(name))

\* The savepoint a test returns to.
ResetTarget == IF suiteSeed THEN "after_suite_seed" ELSE "after_seed"

\* resetToSeedSavepoint(), and resetToSeed() in savepoint mode
ResetToSavepoint ==
    Position(ResetTarget) > 0 /\ content' = RolledBackTo(ResetTarget)

\* resetToSeed() without savepoints, and then suiteSeedData()
ResetToSeed ==
    content' = IF suiteSeed THEN Append(Seeded(Truncated), Row("suite")) ELSE Seeded(Truncated)

\* The beforeEach hook.
BeforeEach ==
    /\ phase = "between" /\ count.tests < MaxTests
    /\ count' = [count EXCEPT !.tests = @ + 1]
    /\ IF useSavepoints THEN ResetToSavepoint ELSE ResetToSeed
    /\ phase' = "testing" /\ fresh' = TRUE
    /\ tx' = IdleTxs /\ order' = <<>>
    /\ UNCHANGED <<suite, transactionStack, savepointId, stranded>>

\* A test may end with transactions it never finished.
TestEnds ==
    /\ phase = "testing"
    /\ phase' = "between"
    /\ fresh' = FALSE
    /\ UNCHANGED <<suite, content, transactionStack, savepointId, tx, order, stranded, count>>

-----------------------------------------------------------------------------
\* The code under test.

\* A statement outside a transaction.
Write ==
    /\ phase = "testing" /\ fresh
    /\ content' = Append(content, Row("write"))
    /\ fresh' = FALSE
    /\ UNCHANGED <<suite, phase, transactionStack, savepointId, tx, order, stranded, count>>

\* connection.begin(): a savepoint with a name of its own.
TxBegin(t) ==
    /\ phase = "testing" /\ tx[t].state = "idle"
    /\ tx' = [tx EXCEPT ![t].state = "open"]
    /\ order' = Append(order, t)
    /\ IF useSavepoints
       THEN /\ savepointId' = savepointId + 1
            /\ transactionStack' = Append(transactionStack, savepointId + 1)
            /\ content' = Append(content, Savepoint(ToString(savepointId + 1)))
       ELSE UNCHANGED <<savepointId, transactionStack, content>>
    /\ fresh' = FALSE
    /\ UNCHANGED <<suite, phase, stranded, count>>

\* A statement of a transaction.
TxWrite(t) ==
    /\ phase = "testing" /\ tx[t].state = "open" /\ tx[t].rows = <<>>
    /\ tx' = [tx EXCEPT ![t].rows = <<Row(t)>>]
    /\ content' = IF useSavepoints THEN Append(content, Row(t)) ELSE content
    /\ UNCHANGED <<suite, phase, transactionStack, savepointId, order, fresh, stranded, count>>

Innermost(t) == Overlap \/ order[Len(order)] = t

\* connection.commit(): the innermost savepoint is forgotten.
TxCommit(t) ==
    /\ phase = "testing" /\ tx[t].state = "open" /\ Innermost(t)
    /\ tx' = [tx EXCEPT ![t].state = "committed"]
    /\ order' = SelectSeq(order, LAMBDA u : u # t)
    /\ IF useSavepoints
       THEN /\ transactionStack' = Front(transactionStack)
            /\ UNCHANGED content
       ELSE /\ content' = content \o tx[t].rows
            /\ UNCHANGED transactionStack
    /\ UNCHANGED <<suite, phase, savepointId, fresh, stranded, count>>

\* connection.rollback(): back to the innermost savepoint.
TxRollback(t) ==
    /\ phase = "testing" /\ tx[t].state = "open" /\ Innermost(t)
    /\ tx' = [tx EXCEPT ![t].state = "rolledback"]
    /\ order' = SelectSeq(order, LAMBDA u : u # t)
    /\ IF useSavepoints
       THEN /\ content' = RolledBackTo(ToString(Last(transactionStack)))
            /\ transactionStack' = Front(transactionStack)
       ELSE UNCHANGED <<content, transactionStack>>
    /\ UNCHANGED <<suite, phase, savepointId, fresh, stranded, count>>

-----------------------------------------------------------------------------
Next ==
    \/ \E savepoints, seeded \in BOOLEAN : Begin(savepoints, seeded)
    \/ CreateDatabase \/ PrepareDatabaseSchema \/ InitSavepointIsolation \/ StartApp
    \/ Stop \/ StartFails
    \/ BeforeEach \/ TestEnds
    \/ Write
    \/ \E t \in Txs : TxBegin(t) \/ TxWrite(t) \/ TxCommit(t) \/ TxRollback(t)

Spec == Init /\ [][Next]_vars

-----------------------------------------------------------------------------
\* What a test may rely on.
Baseline == IF suiteSeed THEN <<Row("seed"), Row("suite")>> ELSE <<Row("seed")>>

\* Every test finds the seed and the rows of its suite and nothing else,
\* whatever earlier tests wrote, committed or left unfinished.
TestsStartAtBaseline == phase = "testing" /\ fresh => Rows = Baseline

\* The rows of a transaction that was rolled back are gone, and those of a
\* committed one are there unless a transaction around it was rolled back.
TransactionsAreAtomic ==
    phase = "testing" =>
        \A t \in Txs :
            LET present == \E i \in DOMAIN content : content[i] = Row(t) IN
            /\ tx[t].state = "rolledback" => ~present
            /\ (tx[t].state = "committed" /\ \A u \in Txs : tx[u].state # "rolledback")
                 => (present <=> tx[t].rows # <<>>)

\* After stop() or a failed start() the pool and the configuration are the
\* application's again, what the suite wrote is gone, and unless a cleanup call failed
\* no connection is left with an open transaction.
StoppedIsClean ==
    phase = "stopped" =>
        /\ acquire = "pool" /\ config = "app"
        /\ ~stranded => conn = "none"
        /\ content = <<>>

\* Tests and suites do not see each other.
SuitesAreIsolated == TestsStartAtBaseline /\ TransactionsAreAtomic /\ StoppedIsClean
=============================================================================
