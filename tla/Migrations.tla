----------------------------- MODULE Migrations -----------------------------
(* tsf-migrate create: the schema of the entities is compared with the one of  *)
(* the database (comparator.ts), the difference becomes a list of statements    *)
(* (ddl-generator.ts), and the statements are executed one after the other.     *)
(* The plan is computed by the operators below; what a statement does and when  *)
(* the database refuses it is the model of MySQL and PostgreSQL at the end.     *)
(* An index or a foreign key has one column and is named after it; a foreign    *)
(* key refers to the primary key of its table; a PostgreSQL enum type belongs   *)
(* to one column.                                                               *)
EXTENDS Integers, SequencesExt

CONSTANTS Tables,   \* sequence of table names
          Columns,  \* sequence of column names
          Schemas,  \* schemas: [Range(Tables) -> tables and NoTable]
          Dialects, \* subset of {"mysql", "postgres"}
          Scopes    \* sets of tables a plan is restricted to; all tables: no restriction

VARIABLES dialect, scope,
          current, \* the database when the plan is made
          entity,  \* the schema of the entities in the scope
          plan,    \* statements still to execute
          db,      \* the database: [tab, types, uses]
          refused  \* the database refused a statement

vars == <<dialect, scope, current, entity, plan, db, refused>>

Names == Range(Tables)
NoTable == [cols |-> <<>>, pk |-> {}, idx |-> <<>>, fks |-> <<>>]
\* A table: cols, idx (column -> unique) and fks (column -> [table, col]) are functions.
Exists(s, t) == s[t] # NoTable
Restricted(f, S) == [c \in S |-> f[c]]
For(seq, Test(_), Emit(_)) == FlattenSeq([i \in DOMAIN seq |-> IF Test(seq[i]) THEN Emit(seq[i]) ELSE <<>>])
Statement(op, t, c, v) == [op |-> op, t |-> t, c |-> c, v |-> v]

-----------------------------------------------------------------------------
(* comparator.ts                                                              *)

\* compareSchemas(), in the tables of the plan's scope.
AddedTables(e, d, sc) == {t \in sc : Exists(e, t) /\ ~Exists(d, t)}
RemovedTables(e, d, sc) == {t \in sc : ~Exists(e, t) /\ Exists(d, t)}
CommonTables(e, d, sc) == {t \in sc : Exists(e, t) /\ Exists(d, t)}

\* findMatchingIndex(), findMatchingForeignKey(): by the column, whatever generated name the key carries; columns by name.
Matched(e, d) == DOMAIN e \cap DOMAIN d
Compare(e, d, Same(_, _)) ==
    LET both == Matched(e, d)
    IN [ added |-> DOMAIN e \ DOMAIN d, removed |-> DOMAIN d \ DOMAIN e,
         modified |-> {k \in both : ~Same(e[k], d[k])}, unchanged |-> {k \in both : Same(e[k], d[k])} ]
Equal(a, b) == a = b
TypesMatch(a, b) == a.type = b.type /\ a.vals = b.vals
DefaultsMatch(a, b) == a.auto \/ b.auto \/ a.def = b.def
ColumnsMatch(a, b) == TypesMatch(a, b) /\ a.nullable = b.nullable /\ DefaultsMatch(a, b) /\ a.auto = b.auto
CompareIndexes(e, d) == Compare(e.idx, d.idx, Equal)
CompareForeignKeys(e, d) == Compare(e.fks, d.fks, Equal)

\* Mutant: a column that stays is not affected.
AffectedColumnsGone(cols, e, d) == cols.removed \cup (IF e.pk # d.pk THEN e.pk \cup d.pk ELSE {})
\* getExternallyReferencedAffectedColumns(), and the same set in getPreservedForeignKeys().
AffectedColumns(cols, e, d) == cols.removed \cup cols.modified \cup (IF e.pk # d.pk THEN e.pk \cup d.pk ELSE {})

\* getPreservedForeignKeys(): unchanged keys on a column that changes.
PreservedForeignKeys(fks, affected) == fks.unchanged \cap affected

CompareTable(e, d) ==
    LET cols == Compare(e.cols, d.cols, ColumnsMatch)
        fks == CompareForeignKeys(e, d)
        affected == AffectedColumns(cols, e, d)
    IN [ cols |-> cols, idx |-> CompareIndexes(e, d), fks |-> fks, affected |-> affected,
         preserved |-> PreservedForeignKeys(fks, affected), pkChanged |-> e.pk # d.pk ]

-----------------------------------------------------------------------------
(* create/index.ts: keys of other tables on what changes.                     *)

\* readEntitiesSchema(): a key brings an index when its column has none.
EnsureForeignKeyIndex(t) ==
    [t EXCEPT !.idx = [c \in DOMAIN t.idx \cup DOMAIN t.fks |-> IF c \in DOMAIN t.idx THEN t.idx[c] ELSE FALSE]]
ReadEntitiesSchema(s, sc) == [t \in Names |-> IF t \in sc THEN EnsureForeignKeyIndex(s[t]) ELSE NoTable]

\* <<table, column>> of the keys that refer to a table.
InboundForeignKeys(d, S) ==
    {k \in Names \X Range(Columns) : k[2] \in DOMAIN d[k[1]].fks /\ d[k[1]].fks[k[2]].table \in S}

\* externalForeignKeyDrops: the inbound keys affected.
ExternalDrops(e, d, sc) ==
    LET removed == RemovedTables(e, d, sc)  common == CommonTables(e, d, sc)
    IN {k \in InboundForeignKeys(d, removed \cup common) :
            LET f == d[k[1]].fks[k[2]]
            IN f.table \in removed \/ f.col \in CompareTable(e[f.table], d[f.table]).affected}

TableDiffHandlesForeignKey(e, d, k) ==
    /\ Exists(e, k[1])
    /\ LET D == CompareTable(e[k[1]], d[k[1]]) IN k[2] \in D.fks.removed \cup D.fks.modified \cup D.preserved

\* externalForeignKeyAdds: not within the scope of a restricted plan.
ExternalAdds(e, d, sc) ==
    {k \in ExternalDrops(e, d, sc) :
        LET f == d[k[1]].fks[k[2]]
        IN /\ {f.table, k[1]} \cap RemovedTables(e, d, sc) = {}
           /\ sc # Names => k[1] \notin sc
           /\ sc = Names => ~TableDiffHandlesForeignKey(e, d, k)
           /\ f.col \in DOMAIN e[f.table].cols
           /\ sc = Names => k[2] \in DOMAIN e[k[1]].fks /\ e[k[1]].fks[k[2]] = f}

-----------------------------------------------------------------------------
(* ddl-generator.ts                                                           *)

DropForeignKeys(t, cs) == For(Columns, LAMBDA c : c \in cs, LAMBDA c : <<Statement("drop fk", t, c, 0)>>)
AddForeignKeys(t, cs, fks) == For(Columns, LAMBDA c : c \in cs, LAMBDA c : <<Statement("add fk", t, c, fks[c])>>)

\* dropForeignKeyOnce()
Once(s) == FoldLeft(LAMBDA done, x : IF x \in Range(done) THEN done ELSE Append(done, x), <<>>, s)

\* columnDefinition() without AUTO_INCREMENT.
Plain(col) == [col EXCEPT !.auto = FALSE]

\* createEnumTypes() and dropOwnedEnumTypes(): the type is named after its column.
IsEnum(col) == col.type = "enum"
TypeOf(t, c) == <<t, c>>
NextType(t, c) == <<t, c, "next">>
CreateEnumTypes(d, t, cols, cs) ==
    For(Columns, LAMBDA c : d = "postgres" /\ c \in cs /\ IsEnum(cols[c]),
                 LAMBDA c : <<Statement("create type", t, TypeOf(t, c), cols[c].vals)>>)
DropOwnedEnumTypes(d, t, cols, cs) ==
    For(Columns, LAMBDA c : d = "postgres" /\ c \in cs /\ IsEnum(cols[c]),
                 LAMBDA c : <<Statement("drop type", t, TypeOf(t, c), 0)>>)

CreateTable(d, t, e) ==
    CreateEnumTypes(d, t, e.cols, DOMAIN e.cols)
    \o <<Statement("create table", t, "", [e EXCEPT !.idx = <<>>, !.fks = <<>>])>>
    \o For(Columns, LAMBDA c : c \in DOMAIN e.idx, LAMBDA c : <<Statement("create index", t, c, e.idx[c])>>)

\* isAppendOnlyEnumChange(), and collectPostgresEnumRewrites() for one column.
AppendOnly(old, new) == IsPrefix(old, new)
Rewritten(old, new) == IsEnum(old) /\ IsEnum(new) /\ ~AppendOnly(old.vals, new.vals)

\* postgresEnumRewriteStatements()
RewriteEnum(t, c, vals) ==
    << Statement("drop default", t, c, 0), Statement("drop type", t, NextType(t, c), 0),
       Statement("create type", t, NextType(t, c), vals), Statement("set type", t, c, NextType(t, c)),
       Statement("drop type", t, TypeOf(t, c), 0), Statement("rename type", t, c, 0) >>

\* postgresColumnTypeStatements() and postgresEnumEvolutionStatements().
PostgresColumnType(t, c, old, new) ==
    IF ~IsEnum(old) \/ ~IsEnum(new)
    THEN <<Statement("set type", t, c, IF IsEnum(new) THEN TypeOf(t, c) ELSE <<new.type>>)>>
    ELSE [i \in 1 .. Len(new.vals) - Len(old.vals) |->
             Statement("add value", t, TypeOf(t, c), new.vals[Len(old.vals) + i])]

\* alterPostgresColumn()
AlterPostgresColumn(t, c, old, new) ==
    (IF Rewritten(old, new) THEN <<>> ELSE PostgresColumnType(t, c, old, new))
    \o (IF old.auto /\ ~new.auto THEN <<Statement("drop identity", t, c, 0)>> ELSE <<>>)
    \o <<Statement("set nullable", t, c, new.nullable)>>
    \o (IF new.auto /\ ~old.auto
        THEN <<Statement("drop default", t, c, 0), Statement("add identity", t, c, 0)>>
        ELSE IF new.def # "none" THEN <<Statement("set default", t, c, new.def)>>
        ELSE <<Statement("drop default", t, c, 0)>>)
    \o (IF IsEnum(old) /\ ~IsEnum(new) THEN <<Statement("drop type", t, TypeOf(t, c), 0)>> ELSE <<>>)

\* alterTable(): in MySQL, AUTO_INCREMENT needs a key, so it comes off before
\* the primary key changes and goes on again after it.
AlterTable(d, t, e, o) ==
    LET D == CompareTable(e, o)
        deferred == d = "mysql" /\ D.pkChanged
        definition(col) == IF deferred THEN Plain(col) ELSE col
    IN  For(Columns, LAMBDA c : d = "postgres" /\ c \in D.cols.modified /\ Rewritten(o.cols[c], e.cols[c]),
                     LAMBDA c : RewriteEnum(t, c, e.cols[c].vals))
        \o CreateEnumTypes(d, t, e.cols, D.cols.added)
        \o CreateEnumTypes(d, t, e.cols, {c \in D.cols.modified : ~IsEnum(o.cols[c])})
        \o For(Columns, LAMBDA c : c \in D.idx.removed \cup D.idx.modified, LAMBDA c : <<Statement("drop index", t, c, 0)>>)
        \o For(Columns, LAMBDA c : deferred /\ c \in o.pk /\ o.cols[c].auto,
                        LAMBDA c : <<Statement("modify column", t, c, Plain(o.cols[c]))>>)
        \o (IF D.pkChanged /\ o.pk # {} THEN <<Statement("drop pk", t, "", 0)>> ELSE <<>>)
        \o For(Columns, LAMBDA c : c \in D.cols.removed,
                        LAMBDA c : <<Statement("drop column", t, c, 0)>> \o DropOwnedEnumTypes(d, t, o.cols, {c}))
        \o For(Columns, LAMBDA c : c \in D.cols.added, LAMBDA c : <<Statement("add column", t, c, definition(e.cols[c]))>>)
        \o For(Columns, LAMBDA c : c \in D.cols.modified,
                        LAMBDA c : IF d = "postgres" THEN AlterPostgresColumn(t, c, o.cols[c], e.cols[c])
                                   ELSE <<Statement("modify column", t, c, definition(e.cols[c]))>>)
        \o (IF D.pkChanged /\ e.pk # {} THEN <<Statement("add pk", t, "", e.pk)>> ELSE <<>>)
        \o For(Columns, LAMBDA c : c \in D.idx.modified \cup D.idx.added, LAMBDA c : <<Statement("create index", t, c, e.idx[c])>>)
        \o For(Columns, LAMBDA c : deferred /\ c \in DOMAIN e.cols /\ e.cols[c].auto,
                        LAMBDA c : <<Statement("modify column", t, c, e.cols[c])>>)

\* generateDDL(): keys come off first and go on last.
ForeignKeyDrops(e, o, sc) ==
    LET external == ExternalDrops(e, o, sc)
        changed(t) == LET D == CompareTable(e[t], o[t]) IN D.fks.removed \cup D.fks.modified \cup D.preserved
    IN Once(For(Tables, LAMBDA t : TRUE, LAMBDA t : DropForeignKeys(t, {c \in Range(Columns) : <<t, c>> \in external}))
            \o For(Tables, LAMBDA t : t \in RemovedTables(e, o, sc), LAMBDA t : DropForeignKeys(t, DOMAIN o[t].fks))
            \o For(Tables, LAMBDA t : t \in CommonTables(e, o, sc), LAMBDA t : DropForeignKeys(t, changed(t))))
ForeignKeyAdds(e, o, sc) ==
    LET again == ExternalAdds(e, o, sc)
        changed(t) == LET D == CompareTable(e[t], o[t]) IN D.fks.added \cup D.fks.modified \cup D.preserved
    IN For(Tables, LAMBDA t : t \in AddedTables(e, o, sc), LAMBDA t : AddForeignKeys(t, DOMAIN e[t].fks, e[t].fks))
       \o For(Tables, LAMBDA t : t \in CommonTables(e, o, sc), LAMBDA t : AddForeignKeys(t, changed(t), e[t].fks))
       \o For(Tables, LAMBDA t : TRUE, LAMBDA t : AddForeignKeys(t, {c \in Range(Columns) : <<t, c>> \in again}, o[t].fks))
GenerateDDL(d, e, o, sc) ==
    ForeignKeyDrops(e, o, sc)
    \o For(Tables, LAMBDA t : t \in AddedTables(e, o, sc), LAMBDA t : CreateTable(d, t, e[t]))
    \o For(Tables, LAMBDA t : t \in CommonTables(e, o, sc), LAMBDA t : AlterTable(d, t, e[t], o[t]))
    \o For(Tables, LAMBDA t : t \in RemovedTables(e, o, sc),
                   LAMBDA t : <<Statement("drop table", t, "", 0)>> \o DropOwnedEnumTypes(d, t, o[t].cols, DOMAIN o[t].cols))
    \o ForeignKeyAdds(e, o, sc)

-----------------------------------------------------------------------------
(* The database.                                                              *)

\* A column is keyed when AUTO_INCREMENT may use it.
Keyed(T, c) == c \in T.pk \cup DOMAIN T.idx
Inbound(tab, t, c) == \E u \in Names : \E k \in DOMAIN tab[u].fks : tab[u].fks[k] = [table |-> t, col |-> c]
Bound(tab, t, c) == c \in DOMAIN tab[t].fks \/ Inbound(tab, t, c)
TypeExists(n) == n \in DOMAIN db.types

Accepts(s) ==
    LET tab == db.tab  T == tab[s.t]
    IN CASE s.op = "drop fk" -> s.c \in DOMAIN T.fks
         [] s.op = "add fk" -> /\ s.c \in DOMAIN T.cols \ DOMAIN T.fks
                               /\ tab[s.v.table].pk = {s.v.col}
                               /\ tab[s.v.table].cols[s.v.col].type = T.cols[s.c].type
         [] s.op = "create type" -> ~TypeExists(s.c)
         [] s.op = "drop type" -> s.c \notin Range(db.uses)
         [] s.op = "rename type" -> ~TypeExists(TypeOf(s.t, s.c)) /\ TypeExists(NextType(s.t, s.c))
         [] s.op = "add value" -> TypeExists(s.c)
         [] s.op = "create table" ->
                /\ T = NoTable
                /\ \A c \in DOMAIN s.v.cols : /\ dialect = "postgres" /\ IsEnum(s.v.cols[c]) => TypeExists(TypeOf(s.t, c))
                                              /\ dialect = "mysql" /\ s.v.cols[c].auto => c \in s.v.pk
         [] s.op = "drop table" -> T # NoTable /\ \A c \in DOMAIN T.cols : ~Inbound([tab EXCEPT ![s.t] = NoTable], s.t, c)
         [] s.op = "create index" -> s.c \in DOMAIN T.cols \ DOMAIN T.idx
         [] s.op = "drop index" -> /\ s.c \in DOMAIN T.idx
                                   /\ dialect = "mysql" => s.c \notin DOMAIN T.fks \ T.pk
                                   /\ dialect = "mysql" => s.c \in T.pk \/ s.c \notin DOMAIN T.cols \/ ~T.cols[s.c].auto
         [] s.op = "drop pk" -> /\ T.pk # {} /\ \A c \in T.pk : ~Inbound(tab, s.t, c)
                                /\ dialect = "mysql" => \A c \in T.pk : T.cols[c].auto => c \in DOMAIN T.idx
         [] s.op = "add pk" -> T.pk = {} /\ s.v \subseteq DOMAIN T.cols
         [] s.op = "drop column" -> s.c \in DOMAIN T.cols /\ ~Bound(tab, s.t, s.c)
         [] s.op = "add column" -> /\ s.c \notin DOMAIN T.cols
                                   /\ dialect = "postgres" /\ IsEnum(s.v) => TypeExists(TypeOf(s.t, s.c))
                                   /\ dialect = "mysql" => ~s.v.auto
         [] s.op = "modify column" -> /\ s.c \in DOMAIN T.cols
                                      /\ s.v.type # T.cols[s.c].type => ~Bound(tab, s.t, s.c)
                                      /\ s.v.auto => Keyed(T, s.c)
         [] s.op = "set type" -> /\ s.c \in DOMAIN T.cols
                                 /\ IF Len(s.v) > 1 THEN TypeExists(s.v) /\ IsEnum(T.cols[s.c]) ELSE ~IsEnum(T.cols[s.c])
         [] s.op = "set nullable" -> s.v => s.c \notin T.pk /\ ~T.cols[s.c].auto
         [] s.op = "add identity" -> ~T.cols[s.c].nullable /\ T.cols[s.c].def = "none"
         [] s.op = "drop identity" -> s.c \in DOMAIN T.cols
         [] s.op \in {"set default", "drop default"} -> ~T.cols[s.c].auto

\* The effect of a statement on its table.
Without(f, c) == Restricted(f, DOMAIN f \ {c})
With(f, c, v) == [k \in DOMAIN f \cup {c} |-> IF k = c THEN v ELSE f[k]]
TableAfter(s) ==
    LET T == db.tab[s.t]
        column(field, v) == [T EXCEPT !.cols = [@ EXCEPT ![s.c] = [@ EXCEPT ![field] = v]]]
    IN CASE s.op = "drop fk" -> [T EXCEPT !.fks = Without(@, s.c)]
         [] s.op = "add fk" -> [T EXCEPT !.fks = With(@, s.c, s.v)]
         [] s.op = "create table" -> s.v
         [] s.op = "drop table" -> NoTable
         [] s.op = "create index" -> [T EXCEPT !.idx = With(@, s.c, s.v)]
         [] s.op = "drop index" -> [T EXCEPT !.idx = Without(@, s.c)]
         [] s.op = "drop pk" -> [T EXCEPT !.pk = {}]
         [] s.op = "add pk" -> [T EXCEPT !.pk = s.v]
         [] s.op = "drop column" -> [T EXCEPT !.cols = Without(@, s.c), !.idx = Without(@, s.c), !.pk = @ \ {s.c}]
         [] s.op \in {"add column", "modify column"} -> [T EXCEPT !.cols = With(@, s.c, s.v)]
         [] s.op = "set type" -> [T EXCEPT !.cols = [@ EXCEPT ![s.c] =
                IF Len(s.v) = 1 THEN [@ EXCEPT !.type = s.v[1], !.vals = <<>>]
                ELSE [@ EXCEPT !.type = "enum", !.vals = db.types[s.v]]]]
         [] s.op = "add value" -> [T EXCEPT !.cols = [@ EXCEPT ![s.c[2]] = [@ EXCEPT !.vals = Append(@, s.v)]]]
         [] s.op = "set nullable" -> column("nullable", s.v)
         [] s.op = "add identity" -> column("auto", TRUE)
         [] s.op = "drop identity" -> column("auto", FALSE)
         [] s.op = "set default" -> column("def", s.v)
         [] s.op = "drop default" -> column("def", "none")
         [] OTHER -> T

TypesAfter(s) ==
    CASE s.op = "create type" -> With(db.types, s.c, s.v)
      [] s.op = "drop type" -> Without(db.types, s.c)
      [] s.op = "add value" -> With(db.types, s.c, Append(db.types[s.c], s.v))
      [] s.op = "rename type" -> With(Without(db.types, NextType(s.t, s.c)), TypeOf(s.t, s.c), db.types[NextType(s.t, s.c)])
      [] OTHER -> db.types

\* Which enum type a PostgreSQL column uses, given what its table became.
Uses(tab, s) ==
    [k \in {k \in Names \X Range(Columns) : dialect = "postgres" /\ k[2] \in DOMAIN tab[k[1]].cols /\ IsEnum(tab[k[1]].cols[k[2]])} |->
        IF s.op = "set type" /\ k = <<s.t, s.c>> THEN s.v
        ELSE IF s.op = "rename type" /\ k = <<s.t, s.c>> THEN TypeOf(s.t, s.c)
        ELSE IF k \in DOMAIN db.uses THEN db.uses[k] ELSE TypeOf(k[1], k[2])]

After(s) == LET tab == [db.tab EXCEPT ![s.t] = TableAfter(s)]
            IN [tab |-> tab, types |-> TypesAfter(s), uses |-> Uses(tab, s)]

-----------------------------------------------------------------------------
EnumColumns(s) == {k \in Names \X Range(Columns) : k[2] \in DOMAIN s[k[1]].cols /\ IsEnum(s[k[1]].cols[k[2]])}
Loaded(d, s) ==
    LET owned == IF d = "postgres" THEN EnumColumns(s) ELSE {}
    IN [tab |-> s, types |-> [k \in owned |-> s[k[1]].cols[k[2]].vals], uses |-> [k \in owned |-> k]]

\* What the plan is for: the scope as the entities want it, the rest as it is,
\* but for keys on what the entities no longer have.
Wanted == [t \in Names |->
    IF t \in scope THEN entity[t]
    ELSE [current[t] EXCEPT !.fks = Restricted(@, {c \in DOMAIN @ : @[c].table \notin scope \/
                                                     @[c].col \in DOMAIN entity[@[c].table].cols})]]
\* Every key of a schema refers to a primary key of its own type.
Consistent(s) == \A t \in Names : \A c \in DOMAIN s[t].fks :
    LET f == s[t].fks[c] IN s[f.table].pk = {f.col} /\ s[f.table].cols[f.col].type = s[t].cols[c].type

\* createMigrationPlan()
Init == /\ dialect \in Dialects /\ scope \in Scopes
        /\ current \in {ReadEntitiesSchema(s, Names) : s \in Schemas}
        /\ entity \in {ReadEntitiesSchema(s, scope) : s \in Schemas}
        /\ Consistent(current) /\ Consistent(Wanted)
        /\ plan = GenerateDDL(dialect, entity, current, scope)
        /\ db = Loaded(dialect, current) /\ refused = FALSE

\* The migration runs its statements; a refused one ends it.
Execute == /\ plan # <<>> /\ ~refused
           /\ IF Accepts(Head(plan)) THEN db' = After(Head(plan)) /\ plan' = Tail(plan) /\ UNCHANGED refused
                                     ELSE refused' = TRUE /\ UNCHANGED <<db, plan>>
           /\ UNCHANGED <<dialect, scope, current, entity>>

Next == Execute
Spec == Init /\ [][Next]_vars

-----------------------------------------------------------------------------
\* The integration test of migrations says of its plan that it applies cleanly
\* and converges: no statement is refused, and at the end the database is what
\* the entities describe. The code keeps this but for the cases PlansApply names.
AppliesAndConverges == ~refused /\ (plan = <<>> => db.tab = Wanted)

\* A restricted plan drops a key between two of its tables for a change of the
\* referenced column alone, and does not add it again.
LosesKey == \E k \in ExternalDrops(entity, current, scope) :
                /\ scope # Names /\ k[1] \in scope
                /\ k[2] \in DOMAIN entity[k[1]].fks /\ ~TableDiffHandlesForeignKey(entity, current, k)
Changed(t) == CompareTable(entity[t], current[t])
\* MySQL keeps the index of a key that stays.
ReplacesKeyIndex == dialect = "mysql" /\ \E t \in CommonTables(entity, current, scope) :
    DOMAIN current[t].fks \cap DOMAIN entity[t].fks \cap (Changed(t).idx.modified \cup Changed(t).idx.removed) # {}
\* PostgreSQL has no default to drop from a column that stays an identity.
ChangesIdentity == dialect = "postgres" /\ \E t \in CommonTables(entity, current, scope) :
    \E c \in Changed(t).cols.modified : current[t].cols[c].auto /\ entity[t].cols[c].auto
\* PostgreSQL wants a cast between an enum and another type.
CastsEnum == dialect = "postgres" /\ \E t \in CommonTables(entity, current, scope) :
    \E c \in Changed(t).cols.modified : IsEnum(current[t].cols[c]) # IsEnum(entity[t].cols[c])

\* The same for every other pair of schemas: primary keys that gain, lose or
\* change columns, AUTO_INCREMENT moved between keys, enum types extended or
\* rewritten, and keys that refer to a table while it changes.
PlansApply == LosesKey \/ ReplacesKeyIndex \/ ChangesIdentity \/ CastsEnum \/ AppliesAndConverges

-----------------------------------------------------------------------------
(***************************************************************************)
(* MigrationRunner.run() (src/src/database/migration/index.ts): it reads   *)
(* the names recorded in _migrations once, runs the missing ones in order  *)
(* of their names and records each one after its up() has succeeded.       *)
(* Neither a lock nor a transaction surrounds a migration: a process may   *)
(* die between up() and the record, an up() may fail half way, and two     *)
(* releases may run their migrations at the same time.                     *)
(***************************************************************************)

CONSTANTS
    Runners,        \* processes that run the migrations
    LastMigration,           \* the migrations are 1 .. Last, in order of their names
    MaxRuns,        \* bound: run() calls
    MaxFaults       \* bound: statements that fail, processes that die

VARIABLES
    at,             \* at[r]: "idle", "read", "next", "up" or "record"
    pending,        \* pending[r]: migrations the run has still to execute
    recorded,       \* the names in _migrations
    applied,        \* applied[m]: how often up() has succeeded
    partial,        \* up() of these has failed half way since it last succeeded
    lost,           \* up() succeeded and the record did not follow
    met,            \* two runs have been under way at the same time
    runs, faults

varsRun == <<at, pending, recorded, applied, partial, lost, met, runs, faults>>

Migrations == 1 .. LastMigration

InitRun ==
    /\ at = [r \in Runners |-> "idle"] /\ pending = [r \in Runners |-> <<>>]
    /\ recorded = {} /\ applied = [m \in Migrations |-> 0]
    /\ partial = {} /\ lost = {} /\ met = FALSE
    /\ runs = 0 /\ faults = 0

\* run(): the connection, beforeRun() and the table of the migrations.
Begin(r) ==
    /\ at[r] = "idle" /\ runs < MaxRuns
    /\ runs' = runs + 1
    /\ at' = [at EXCEPT ![r] = "read"]
    /\ met' = (met \/ \E q \in Runners \ {r} : at[q] # "idle")
    /\ UNCHANGED <<pending, recorded, applied, partial, lost, faults>>

\* getExecutedMigrationNames(): what is pending is decided once.
ReadExecuted(r) ==
    /\ at[r] = "read"
    /\ pending' = [pending EXCEPT ![r] =
                     SelectSeq([i \in 1 .. LastMigration |-> i], LAMBDA m : m \notin recorded)]
    /\ at' = [at EXCEPT ![r] = "next"]
    /\ UNCHANGED <<recorded, applied, partial, lost, met, runs, faults>>

\* Mutant: the loop records the migration before it runs it.
TakeNextRecords(r) ==
    /\ at[r] = "next"
    /\ at' = [at EXCEPT ![r] = IF pending[r] = <<>> THEN "idle" ELSE "up"]
    /\ recorded' = IF pending[r] = <<>> THEN recorded ELSE recorded \cup {Head(pending[r])}
    /\ UNCHANGED <<pending, applied, partial, lost, met, runs, faults>>

\* The loop takes the next migration, or run() returns.
TakeNext(r) ==
    /\ at[r] = "next"
    /\ at' = [at EXCEPT ![r] = IF pending[r] = <<>> THEN "idle" ELSE "up"]
    /\ UNCHANGED <<pending, recorded, applied, partial, lost, met, runs, faults>>

UpSucceeds(r) ==
    /\ at[r] = "up"
    /\ LET m == Head(pending[r]) IN
       /\ applied' = [applied EXCEPT ![m] = @ + 1]
       /\ partial' = partial \ {m}
    /\ at' = [at EXCEPT ![r] = "record"]
    /\ UNCHANGED <<pending, recorded, lost, met, runs, faults>>

Quits(r) ==
    /\ at' = [at EXCEPT ![r] = "idle"]
    /\ pending' = [pending EXCEPT ![r] = <<>>]

\* A failing up() ends the run and is not recorded.
UpFails(r) ==
    /\ at[r] = "up" /\ faults < MaxFaults
    /\ faults' = faults + 1
    /\ partial' = partial \cup {Head(pending[r])}
    /\ Quits(r)
    /\ UNCHANGED <<recorded, applied, lost, met, runs>>

\* recordMigration(): the name is the primary key, so the second INSERT of two
\* overlapping runs fails and ends its run.
RecordMigration(r) ==
    /\ at[r] = "record"
    /\ LET m == Head(pending[r]) IN
       IF m \in recorded
       THEN Quits(r) /\ UNCHANGED recorded
       ELSE /\ recorded' = recorded \cup {m}
            /\ pending' = [pending EXCEPT ![r] = Tail(@)]
            /\ at' = [at EXCEPT ![r] = "next"]
    /\ UNCHANGED <<applied, partial, lost, met, runs, faults>>

\* The process dies, or the record fails.
Dies(r) ==
    /\ at[r] # "idle" /\ faults < MaxFaults
    /\ faults' = faults + 1
    /\ Quits(r)
    /\ partial' = IF at[r] = "up" THEN partial \cup {Head(pending[r])} ELSE partial
    /\ lost' = IF at[r] = "record" THEN lost \cup {Head(pending[r])} ELSE lost
    /\ UNCHANGED <<recorded, applied, met, runs>>

NextRun ==
    \E r \in Runners :
        \/ Begin(r) \/ ReadExecuted(r) \/ TakeNext(r)
        \/ UpSucceeds(r) \/ UpFails(r) \/ RecordMigration(r) \/ Dies(r)

SpecRun == InitRun /\ [][NextRun]_varsRun

-----------------------------------------------------------------------------
\* A recorded migration has succeeded, and a migration runs again after it
\* succeeded only if its record was lost or two runs overlapped.
\* While runs do not overlap, a migration that failed half way is not recorded
\* and none after it has run since, and what is recorded has no gap.
MigrationsRunInOrder ==
    /\ \A m \in recorded : applied[m] > 0
    /\ \A m \in Migrations : applied[m] > 1 => met \/ m \in lost
    /\ ~met =>
         /\ partial \cap recorded = {}
         /\ \A m \in Migrations, k \in recorded : m < k => m \in recorded
         /\ \A m \in partial, k \in Migrations : k > m => applied[k] = 0
=============================================================================
