---------------------------- MODULE BaseDatabase ----------------------------
(* How BaseDatabase uses a bounded MySQL pool: transactions and raw statements *)
(* take a connection each, the table for session locks is created once for    *)
(* everybody on a connection of its own, and a statement that a cluster node  *)
(* refuses because it is not ready is tried again on another connection.      *)
EXTENDS Naturals, Sequences, FiniteSets

CONSTANTS Transactions, Raws,  \* callers of transaction() and of rawQuery() or rawExecute()
          PoolSize,
          MaxFaults            \* bound on refused, failed and lost statements and connections

Creator == "locks"             \* ensureMySQLLocksTable()'s own statement
Actors == Transactions \cup Raws \cup {Creator}

VARIABLES
    pc,         \* "idle", "ensure", "wait", "acquire", "first", "body", "locking", "end",
                \* "release", "done", "failed"
    conn,       \* who has a connection
    succeeded,  \* statementSucceeded: whose connection has run a statement
    runs,       \* how often the caller's first statement may have taken effect
    table,      \* mysqlLocksTableInit: "none", "running", "made"
    faults

vars == <<pc, conn, succeeded, runs, table, faults>>

Init == /\ pc = [a \in Actors |-> "idle"] /\ conn = {} /\ succeeded = {} /\ runs = [a \in Actors |-> 0]
        /\ table = "none" /\ faults = 0

Fault == faults < MaxFaults /\ faults' = faults + 1
Free == Cardinality(conn) < PoolSize
Goto(a, l) == pc' = [pc EXCEPT ![a] = l]

-----------------------------------------------------------------------------
\* Mutant: the connection is taken first.
StartAcquires(a) ==
    /\ pc[a] = "idle" /\ a # Creator /\ Goto(a, "acquire")
    /\ UNCHANGED <<conn, succeeded, runs, table, faults>>

\* transaction() makes sure of the lock table before it takes a connection.
Start(a) ==
    /\ pc[a] = "idle" /\ a # Creator /\ Goto(a, IF a \in Transactions THEN "ensure" ELSE "acquire")
    /\ UNCHANGED <<conn, succeeded, runs, table, faults>>

\* What follows once the table is there: the connection, or the lock itself.
Ensured(a) == IF a \in conn THEN "end" ELSE "acquire"

\* ensureMySQLLocksTable(): made, being made by somebody, or to be made now.
EnsureMySQLLocksTable(a) ==
    /\ pc[a] \in {"ensure", "locking"}
    /\ IF table = "made" THEN Goto(a, Ensured(a)) /\ UNCHANGED table
       ELSE /\ table' = "running"
            /\ pc' = [pc EXCEPT ![a] = "wait", ![Creator] = IF table = "none" THEN "acquire" ELSE @]
    /\ UNCHANGED <<conn, succeeded, runs, faults>>

\* The initializer settles: everybody who waits goes on, or fails and the next call tries again.
LocksTableSettles ==
    /\ table = "running" /\ pc[Creator] \in {"done", "failed"}
    /\ LET ok == pc[Creator] = "done"
       IN  /\ table' = IF ok THEN "made" ELSE "none"
           /\ pc' = [a \in Actors |-> IF a = Creator THEN "idle"
                                      ELSE IF pc[a] = "wait" THEN IF ok THEN Ensured(a) ELSE IF a \in conn THEN "release" ELSE "failed"
                                      ELSE pc[a]]
    /\ UNCHANGED <<conn, succeeded, runs, faults>>

-----------------------------------------------------------------------------
(* MySQLDriver and MySQLConnection.                                           *)

\* acquire(): a wrapper starts without a successful statement.
Acquire(a) ==
    /\ pc[a] = "acquire"
    /\ \/ Free /\ conn' = conn \cup {a} /\ succeeded' = succeeded \ {a} /\ Goto(a, "first") /\ UNCHANGED faults
       \/ Fault /\ Goto(a, "failed") /\ UNCHANGED <<conn, succeeded>>
    /\ UNCHANGED <<runs, table>>

Ran(a) == runs' = [runs EXCEPT ![a] = @ + 1]

\* Mutant: a lost connection is retried like a refusal.
RetryableLost(a) == {"refused", "lost"}

\* What runStatement() tries again: only an explicit refusal, and only before anything has
\* succeeded on the connection.
Retryable(a) == IF a \in succeeded THEN {} ELSE {"refused"}

\* The first statement: START TRANSACTION, or the statement of a raw call.  "refused" is a
\* node that is not ready, "lost" a connection that breaks before or after it took effect.
FirstStatement(a) ==
    /\ pc[a] = "first"
    /\ \/ a \in conn /\ Ran(a) /\ succeeded' = succeeded \cup {a} /\ UNCHANGED <<conn, faults>>
          /\ Goto(a, IF a \in Transactions THEN "body" ELSE "release")
       \/ \E error \in {"refused", "lost"} :
             /\ a \in conn /\ Fault /\ UNCHANGED succeeded
             /\ IF error = "lost" THEN Ran(a) ELSE UNCHANGED runs
             /\ IF error \in Retryable(a) THEN conn' = conn \ {a} /\ UNCHANGED pc
                ELSE Goto(a, "release") /\ UNCHANGED conn
       \/ /\ a \notin conn /\ Free /\ conn' = conn \cup {a} /\ UNCHANGED <<pc, succeeded, runs, faults>>
       \/ /\ a \notin conn /\ Fault /\ Goto(a, "release") /\ UNCHANGED <<conn, succeeded, runs>>
    /\ UNCHANGED table

\* The callback of a transaction, which may ask for a session lock.
Body(a) ==
    /\ pc[a] = "body" /\ \E l \in {"locking", "end"} : Goto(a, l)
    /\ UNCHANGED <<conn, succeeded, runs, table, faults>>

\* commit(), or rollback() after an error; either may fail.
Ends(a) ==
    /\ pc[a] = "end" /\ Goto(a, "release")
    /\ UNCHANGED <<conn, succeeded, runs, table, faults>>

\* The finally of transaction(), rawQuery() and rawExecute().
Release(a) ==
    /\ pc[a] = "release" /\ conn' = conn \ {a} /\ Goto(a, IF a \in succeeded THEN "done" ELSE "failed")
    /\ UNCHANGED <<succeeded, runs, table, faults>>

Next == \/ LocksTableSettles
        \/ \E a \in Actors : \/ Start(a) \/ EnsureMySQLLocksTable(a) \/ Acquire(a) \/ FirstStatement(a)
                             \/ Body(a) \/ Ends(a) \/ Release(a)

Spec == Init /\ [][Next]_vars
FairSpec == Spec /\ WF_vars(Next)

-----------------------------------------------------------------------------
\* Nothing takes effect twice: a statement is tried again only when it was refused.
NothingRunsTwice == \A a \in Transactions \cup Raws : runs[a] <= 1

Finished == \A a \in Transactions \cup Raws : pc[a] \in {"done", "failed"}

\* Every call ends and gives its connection back, however many transactions use the database
\* for the first time at once and however small the pool is: nobody waits for the lock table
\* with a connection that its creation needs (transaction(), ensureMySQLLocksTable()).
Ended == Finished /\ conn = {}
EveryCallEnds == <>[]Ended

-----------------------------------------------------------------------------
(* How BaseDatabase splits raw SQL into statements: a scanner that skips       *)
(* quotes, comments and dollar quotes, collects each statement's placeholders *)
(* and gives every statement its own bindings.  The text is a sequence of     *)
(* symbols; binding k has the value k.                                        *)

CONSTANT Texts   \* of characters, and "--", "/*", "*/", "$$", "$1", "$2", "ddl" as one symbol each

VARIABLES text, dialect,
          i,            \* the next symbol
          mode,         \* "code", "line", "block", "dollar", or the quote that is open
          start,        \* statementStart
          index,        \* mysqlBindingIndex
          current,      \* currentPlaceholders: <<position, binding>>
          statements    \* [from, to, placeholders]

varsSplit == <<text, dialect, i, mode, start, index, current, statements>>
Quotes == {"quote", "tick"}
Numbered == {"$1", "$2"}

InitSplit == /\ text \in Texts /\ dialect \in {"mysql", "postgres"}
             /\ i = 1 /\ mode = "code" /\ start = 1 /\ index = 1 /\ current = <<>> /\ statements = <<>>

\* trimStartIndex() and trimEndIndex(): the part of a range that is not blank.
Trimmed(from, to) ==
    LET solid == {p \in from..to : text[p] \notin {" ", "nl"}}
    IN  [from |-> IF solid = {} THEN to + 1 ELSE CHOOSE p \in solid : \A q \in solid : p <= q,
         to |-> IF solid = {} THEN to ELSE CHOOSE p \in solid : \A q \in solid : q <= p]

\* A statement ends before position p; one that is blank is dropped.
Closed(p) ==
    LET t == Trimmed(start, p - 1)
    IN  IF t.from > t.to THEN statements
        ELSE Append(statements, [from |-> t.from, to |-> t.to,
                                 placeholders |-> SelectSeq(current, LAMBDA h : h[1] >= t.from /\ h[1] <= t.to)])

Skip(n, m) == i' = i + n /\ mode' = m /\ UNCHANGED <<text, dialect, start, index, current, statements>>

\* Inside a comment, a dollar quote or a quote.
Inside ==
    /\ i <= Len(text) /\ mode # "code"
    /\ LET c == text[i]
           next == IF i < Len(text) THEN text[i + 1] ELSE "end"
       IN  \/ mode = "line" /\ Skip(1, IF c = "nl" THEN "code" ELSE mode)
           \/ mode = "block" /\ Skip(1, IF c = "*/" THEN "code" ELSE mode)
           \/ mode = "dollar" /\ Skip(1, IF c = "$$" THEN "code" ELSE mode)
           \/ /\ mode \in Quotes
              /\ IF mode = "quote" /\ c = "backslash" THEN Skip(2, mode)
                 ELSE IF c = mode /\ next = mode THEN Skip(2, mode)
                 ELSE Skip(1, IF c = mode THEN "code" ELSE mode)

\* Something is opened.
Opens ==
    /\ i <= Len(text) /\ mode = "code"
    /\ LET c == text[i]
       IN  \/ c \in {"--", "#"} /\ Skip(1, "line")
           \/ c = "/*" /\ Skip(1, "block")
           \/ c = "$$" /\ Skip(1, "dollar")
           \/ c \in Quotes /\ Skip(1, c)

\* A placeholder of the dialect; MySQL's are numbered through the whole text.
Placeholder ==
    /\ i <= Len(text) /\ mode = "code"
    /\ \/ /\ dialect = "mysql" /\ text[i] = "?"
          /\ current' = Append(current, <<i, index>>) /\ index' = index + 1
       \/ /\ dialect = "postgres" /\ text[i] \in Numbered /\ UNCHANGED index
          /\ current' = Append(current, <<i, IF text[i] = "$1" THEN 1 ELSE 2>>)
    /\ i' = i + 1 /\ UNCHANGED <<text, dialect, mode, start, statements>>

\* Mutant: numbering starts again with every statement.
SemicolonRenumbers ==
    /\ i <= Len(text) /\ mode = "code" /\ text[i] = ";"
    /\ statements' = Closed(i) /\ start' = i + 1 /\ current' = <<>> /\ i' = i + 1 /\ index' = 1
    /\ UNCHANGED <<text, dialect, mode>>

Semicolon ==
    /\ i <= Len(text) /\ mode = "code" /\ text[i] = ";"
    /\ statements' = Closed(i) /\ start' = i + 1 /\ current' = <<>> /\ i' = i + 1
    /\ UNCHANGED <<text, dialect, mode, index>>

Other == /\ i <= Len(text) /\ mode = "code"
         /\ text[i] \notin {"--", "#", "/*", "$$", ";"} \cup Quotes
         /\ ~(dialect = "mysql" /\ text[i] = "?") /\ ~(dialect = "postgres" /\ text[i] \in Numbered)
         /\ Skip(1, mode)

\* The rest of the text is the last statement.
Last == /\ i > Len(text) /\ i # Len(text) + 3 /\ i' = Len(text) + 3
        /\ statements' = Closed(Len(text) + 1) /\ current' = <<>>
        /\ UNCHANGED <<text, dialect, mode, start, index>>

NextSplit == Inside \/ Opens \/ Placeholder \/ Semicolon \/ Other \/ Last
SpecSplit == InitSplit /\ [][NextSplit]_varsSplit

-----------------------------------------------------------------------------
Done == i = Len(text) + 3

\* renderBoundStatement(): the bindings of a statement, a repeated $n only once, and the
\* number each placeholder has in the statement's own text.
FirstUse(ph, k) == \A j \in 1..(k - 1) : ph[j][2] # ph[k][2]
StatementBindings(s) ==
    LET ph == s.placeholders
        kept == IF dialect = "mysql" THEN DOMAIN ph ELSE {k \in DOMAIN ph : FirstUse(ph, k)}
    IN  [n \in 1..Cardinality(kept) |-> ph[CHOOSE k \in kept : Cardinality({j \in kept : j <= k}) = n][2]]
Number(s, k) ==
    LET ph == s.placeholders
    IN  IF dialect = "mysql" THEN k
        ELSE Cardinality({j \in DOMAIN ph : FirstUse(ph, j) /\ j <= (CHOOSE f \in DOMAIN ph : FirstUse(ph, f) /\ ph[f][2] = ph[k][2])})

\* splitSqlStatements(): the same scanner for a text without bindings.
SplitSqlStatements == [s \in DOMAIN statements |-> SubSeq(text, statements[s].from, statements[s].to)]

\* splitRenderedSql(): a text of one statement is left as it is.
SplitRenderedSql == IF Len(statements) <= 1 THEN <<text>> ELSE SplitSqlStatements

\* The placeholders of the text that are neither quoted nor commented out, with what each is
\* bound to: the k-th one of MySQL to binding k, $n to binding n.
BoundTo(p) == IF dialect = "postgres" THEN IF text[p] = "$1" THEN 1 ELSE 2
              ELSE Cardinality({q \in 1..p : text[q] = "?" /\ \E s \in DOMAIN statements :
                                                 \E k \in DOMAIN statements[s].placeholders : statements[s].placeholders[k][1] = q})

\* Split or not, every placeholder gets the value it had in the whole text: statements, in
\* order, have no code between them but semicolons, and each one's own numbering leads to the
\* binding that the whole text's numbering meant (findBoundSqlStatements, renderBoundStatement).
BindingsFollowPlaceholders ==
    Done => /\ \A s \in DOMAIN statements : \A k \in DOMAIN statements[s].placeholders :
                   StatementBindings(statements[s])[Number(statements[s], k)] = BoundTo(statements[s].placeholders[k][1])
            /\ \A p \in DOMAIN text : text[p] \in {"x", "?"} => \E s \in DOMAIN SplitRenderedSql :
                   \E q \in DOMAIN SplitRenderedSql[s] : SplitRenderedSql[s][q] = text[p]

-----------------------------------------------------------------------------
(* What the session manager of tests makes of each statement it is sent: it   *)
(* refuses one that would change the schema under its open transaction.  The  *)
(* symbol "ddl" is CREATE, ALTER, DROP, TRUNCATE or RENAME.                    *)

Blank == {" ", "nl"}

Escapes(m, c) == m = "quote" /\ c = "backslash"

\* splitSqlStatementsForInspection(): where it cuts.
CutsForInspection(t) ==
    LET f[p \in 1..(Len(t) + 2), m \in {"code", "line", "block"} \cup Quotes] ==
          IF p > Len(t) THEN {}
          ELSE IF m = "line" THEN f[p + 1, IF t[p] = "nl" THEN "code" ELSE m]
          ELSE IF m = "block" THEN f[p + 1, IF t[p] = "*/" THEN "code" ELSE m]
          ELSE IF m \in Quotes
               THEN IF Escapes(m, t[p]) \/ (t[p] = m /\ p < Len(t) /\ t[p + 1] = m) THEN f[p + 2, m]
                    ELSE f[p + 1, IF t[p] = m THEN "code" ELSE m]
          ELSE (IF t[p] = ";" THEN {p} ELSE {})
               \cup f[p + 1, IF t[p] \in {"--", "#"} THEN "line" ELSE IF t[p] = "/*" THEN "block"
                             ELSE IF t[p] \in Quotes THEN t[p] ELSE m]
    IN  f[1, "code"]

\* stripLeadingSqlComments(): where the code begins; past the end when there is none.
StripLeadingSqlComments(t) ==
    LET After(p, c) == LET later == {q \in p..Len(t) : t[q] = c}
                       IN  IF later = {} THEN Len(t) + 1 ELSE (CHOOSE q \in later : \A r \in later : q <= r) + 1
        f[p \in 1..(Len(t) + 1)] ==
          IF p > Len(t) THEN p
          ELSE IF t[p] \in Blank THEN f[p + 1]
          ELSE IF t[p] \in {"--", "#"} THEN f[After(p, "nl")]
          ELSE IF t[p] = "/*" THEN f[After(p, "*/")]
          ELSE p
    IN  f[1]

ReadDdlCommand(t) == t # <<>> /\ Head(t) = "ddl"

\* summarizeSqlStatements(): the statements without their leading comments.
SummarizeSqlStatements(t) ==
    LET cuts == CutsForInspection(t) \cup {0, Len(t) + 1}
        Rest(a) == LET b == CHOOSE b \in cuts : b > a /\ \A c \in cuts : c > a => b <= c
                       u == SubSeq(t, a + 1, b - 1)
                   IN  SubSeq(u, StripLeadingSqlComments(u), Len(u))
    IN  {Rest(a) : a \in cuts \ {Len(t) + 1}}

ReadRuntimeDdlSignal(t) == \E u \in SummarizeSqlStatements(t) : ReadDdlCommand(u)

\* The reference: a quote is open from one quote to the next that is not escaped, so that a
\* doubled one closes and opens; lexed[p] is what symbol p is part of.
Lexed(t) ==
    LET after(m, c) == IF m = "line" THEN IF c = "nl" THEN "code" ELSE m
                       ELSE IF m = "block" THEN IF c = "*/" THEN "code" ELSE m
                       ELSE IF m = "escaped" THEN "quote"
                       ELSE IF m \in Quotes THEN IF c = m THEN "code" ELSE IF m = "quote" /\ c = "backslash" THEN "escaped" ELSE m
                       ELSE IF c \in {"--", "#"} THEN "line" ELSE IF c = "/*" THEN "block"
                       ELSE IF c \in Quotes THEN c ELSE m
        f[p \in 1..(Len(t) + 1)] == IF p = 1 THEN "code" ELSE after(f[p - 1], t[p - 1])
    IN  f
ChangesSchema(t) ==
    LET m == Lexed(t)
        Silent(q) == m[q] \in {"line", "block"} \/ t[q] \in Blank \cup {"--", "#", "/*"}
    IN  \E p \in DOMAIN t : /\ t[p] = "ddl" /\ m[p] = "code"
                            /\ \E a \in 0..(p - 1) : /\ a = 0 \/ (t[a] = ";" /\ m[a] = "code")
                                                     /\ \A q \in (a + 1)..(p - 1) : Silent(q)

\* The manager refuses exactly the statements that change the schema, whatever quotes and
\* comments stand around them: none slips through to commit the transaction that isolates the
\* tests, and no ordinary one is refused (readRuntimeDdlSignal).  Dollar quotes, which only the
\* splitter of BaseDatabase knows, are left aside.
InspectionIsExact ==
    Done /\ dialect = "mysql" /\ (\A p \in DOMAIN text : text[p] # "$$") =>
        \A s \in DOMAIN SplitRenderedSql : ReadRuntimeDdlSignal(SplitRenderedSql[s]) <=> ChangesSchema(SplitRenderedSql[s])
=============================================================================
