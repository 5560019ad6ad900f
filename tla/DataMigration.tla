----------------------------- MODULE DataMigration -----------------------------
(***************************************************************************)
(* POST /database/migrate (handlers/database.go) and the migrator          *)
(* (internal/database/migrator.go): the live SQLite database is copied row *)
(* by row into a PostgreSQL target while the dashboard goes on writing to  *)
(* it.  No transaction spans the copy: a failure is answered by deleting   *)
(* what the finished tables received.                                      *)
(***************************************************************************)
EXTENDS Naturals, Sequences, FiniteSets

CONSTANTS
  Requests,      \* requests that may migrate together, to one target
  Tables,        \* tables of the schema but schema_migrations
  Rows,          \* rows that may exist, each of one table
  TableOf,       \* row -> its table
  Parent,        \* row -> the row its foreign key names, or itself
  Seeds,         \* rows that migrations 002 and 006 insert, in either dialect
  MaxEdits,      \* bound on writes to the live database
  MaxTroubles    \* bound on cancelled requests and failing statements

VARIABLES
  source,        \* rows of the live database
  schema,        \* the target has its tables
  target,        \* rows of the target
  enforced,      \* foreign keys bind in the target: disabling them takes a superuser
  pc,            \* request -> where it stands
  cancelled,     \* request -> its context is done: client gone or ten minutes over
  remaining,     \* request -> tables not yet begun
  table, todo,   \* request -> the table being copied, its rows still to insert
  migrated,      \* request -> migratedTables
  before, steady,\* history: request -> the target's rows, the source's rows, at the start;
                 \* steady loses what the source loses
  disturbed,     \* history: request -> another overlapped, a statement failed, a write
                 \* came in or the context was done
  edits, troubles

copying == <<remaining, table, todo, migrated>>
vars == <<source, schema, target, enforced, pc, cancelled, copying, before, steady,
          disturbed, edits, troubles>>

NoTable == "none"
Of(t, rows) == {r \in rows : TableOf[r] = t}
Whole(rows) == \A r \in rows : Parent[r] \in rows
Children(rows) == {r \in Rows : Parent[r] \in rows}
Running(m) == pc[m] \notin {"idle", "ok", "failed", "refused"}

\* getFKDependencies: the tables a table refers to.
Dependencies(t) == {TableOf[Parent[r]] : r \in Of(t, Rows)} \ {t}

Init ==
  /\ source \in {s \in SUBSET Rows : Seeds \subseteq s /\ Whole(s)}
  /\ schema \in BOOLEAN
  /\ target \in IF schema THEN {{}, Seeds, source} ELSE {{}}
  /\ enforced \in BOOLEAN
  /\ pc = [m \in Requests |-> "idle"] /\ cancelled = [m \in Requests |-> FALSE]
  /\ remaining = [m \in Requests |-> {}] /\ table = [m \in Requests |-> NoTable]
  /\ todo = [m \in Requests |-> {}] /\ migrated = [m \in Requests |-> <<>>]
  /\ before = [m \in Requests |-> {}] /\ steady = [m \in Requests |-> {}]
  /\ disturbed = [m \in Requests |-> FALSE]
  /\ edits = 0 /\ troubles = 0

Trouble == troubles < MaxTroubles /\ troubles' = troubles + 1
Goto(m, from, to) == pc[m] = from /\ pc' = [pc EXCEPT ![m] = to]

-----------------------------------------------------------------------------
\* The dashboard inserts a row, or deletes one and what refers to it.
Edit(r) ==
  /\ edits < MaxEdits /\ edits' = edits + 1
  /\ source' = IF r \in source THEN source \ (Children({r}) \union {r}) ELSE source \union {r}
  /\ r \notin Seeds /\ Whole(source')
  /\ steady' = [m \in Requests |-> steady[m] \intersect source']
  /\ disturbed' = [m \in Requests |-> disturbed[m] \/ Running(m)]
  /\ UNCHANGED <<schema, target, enforced, pc, cancelled, copying, before, troubles>>

Cancel(m) ==
  /\ Running(m) /\ ~cancelled[m] /\ Trouble
  /\ cancelled' = [cancelled EXCEPT ![m] = TRUE]
  /\ disturbed' = [disturbed EXCEPT ![m] = TRUE]
  /\ UNCHANGED <<source, schema, target, enforced, pc, copying, before, steady, edits>>

-----------------------------------------------------------------------------
\* RunMigrations brings the schema up to date and seeds a target that had none.
RunMigrations == schema' = TRUE /\ target' = IF schema THEN target ELSE Seeds

\* getTables: what the source has, whatever is in it.
GetTables(m) == remaining' = [remaining EXCEPT ![m] = Tables]

\* migrate: the target is connected, its schema migrated, the tables are listed.
Begin(m) ==
  /\ Goto(m, "idle", "copying") /\ RunMigrations /\ GetTables(m)
  /\ before' = [before EXCEPT ![m] = target']
  /\ steady' = [steady EXCEPT ![m] = source]
  /\ disturbed' = [n \in Requests |->
                     IF n = m THEN \E k \in Requests \ {m} : Running(k)
                     ELSE disturbed[n] \/ pc[n] # "idle"]
  /\ UNCHANGED <<source, enforced, cancelled, table, todo, migrated, edits, troubles>>

\* Bad parameters, no connection or a failing migration of the schema.
Refuse(m) ==
  /\ Goto(m, "idle", "refused")
  /\ UNCHANGED <<source, schema, target, enforced, cancelled, copying, before, steady,
                 disturbed, edits, troubles>>

\* Slip: the tables in any order, whatever they refer to.
NextUnordered(tables) == tables

\* orderTablesByDependencies: a table none of whose references remains; the
\* iteration of a map leaves the rest of the order open, a cycle all of it.
NextTable(tables) ==
  LET free == {t \in tables : Dependencies(t) \intersect tables = {}}
  IN IF free = {} THEN tables ELSE free

\* migrateTable: one SELECT of the whole table.
StartTable(m, t) ==
  /\ pc[m] = "copying" /\ table[m] = NoTable /\ t \in NextTable(remaining[m])
  /\ ~cancelled[m]
  /\ table' = [table EXCEPT ![m] = t]
  /\ remaining' = [remaining EXCEPT ![m] = @ \ {t}]
  /\ todo' = [todo EXCEPT ![m] = Of(t, source)]
  /\ UNCHANGED <<source, schema, target, enforced, pc, cancelled, migrated, before, steady,
                 disturbed, edits, troubles>>

\* The target takes a row that is new to it and whose parent it has, where
\* foreign keys bind.
Takes(r) == r \notin target /\ (enforced => Parent[r] \in target \union {r})

\* insertBatch: row after row, each a statement of its own.
InsertRow(m, r) ==
  /\ pc[m] = "copying" /\ r \in todo[m] /\ Takes(r) /\ ~cancelled[m]
  /\ target' = target \union {r}
  /\ todo' = [todo EXCEPT ![m] = @ \ {r}]
  /\ UNCHANGED <<source, schema, enforced, pc, cancelled, remaining, table, migrated,
                 before, steady, disturbed, edits, troubles>>

\* Slip: a cursor that breaks off is taken for the end of the table.
FinishTableAnyway(m) ==
  /\ pc[m] = "copying" /\ table[m] # NoTable
  /\ table' = [table EXCEPT ![m] = NoTable] /\ todo' = [todo EXCEPT ![m] = {}]
  /\ migrated' = [migrated EXCEPT ![m] = Append(@, table[m])]
  /\ UNCHANGED <<source, schema, target, enforced, pc, cancelled, remaining, before, steady,
                 disturbed, edits, troubles>>

FinishTable(m) ==
  /\ pc[m] = "copying" /\ table[m] # NoTable /\ todo[m] = {}
  /\ table' = [table EXCEPT ![m] = NoTable]
  /\ migrated' = [migrated EXCEPT ![m] = Append(@, table[m])]
  /\ UNCHANGED <<source, schema, target, enforced, pc, cancelled, remaining, todo, before,
                 steady, disturbed, edits, troubles>>

Settle(m, to) ==
  /\ pc' = [pc EXCEPT ![m] = to]
  /\ remaining' = [remaining EXCEPT ![m] = {}] /\ todo' = [todo EXCEPT ![m] = {}]
  /\ migrated' = [migrated EXCEPT ![m] = <<>>]

Succeed(m) ==
  /\ pc[m] = "copying" /\ remaining[m] = {} /\ table[m] = NoTable
  /\ Settle(m, "ok")
  /\ UNCHANGED <<source, schema, target, enforced, cancelled, table, before, steady,
                 disturbed, edits, troubles>>

\* A statement is refused by the target, or fails, or its context is done.
Fail(m) ==
  /\ Goto(m, "copying", "rollback")
  /\ \/ \E r \in todo[m] : ~Takes(r)
        /\ UNCHANGED <<disturbed, troubles>>
     \/ /\ cancelled[m] /\ (table[m] # NoTable \/ remaining[m] # {})
        /\ UNCHANGED <<disturbed, troubles>>
     \/ /\ table[m] # NoTable /\ Trouble
        /\ disturbed' = [disturbed EXCEPT ![m] = TRUE]
  /\ UNCHANGED <<source, schema, target, enforced, cancelled, copying, before, steady, edits>>

\* Slip: the loop stops before the first table.
RollbackSkipsFirst(m) ==
  /\ pc[m] = "rollback" /\ migrated[m] # <<>>
  /\ migrated' = [migrated EXCEPT ![m] = SubSeq(@, 1, Len(@) - 1)]
  /\ LET gone == Of(migrated[m][Len(migrated[m])], target)
     IN target' = IF cancelled[m] \/ Len(migrated[m]) = 1 THEN target ELSE target \ gone
  /\ UNCHANGED <<source, schema, enforced, pc, cancelled, remaining, table, todo, before,
                 steady, disturbed, edits, troubles>>

\* rollback: DELETE FROM the tables that were copied, the last one first, with
\* the request's own context; an error is dropped.  Where foreign keys bind the
\* rows that refer to a deleted one go with it.
Rollback(m) ==
  /\ pc[m] = "rollback" /\ migrated[m] # <<>>
  /\ migrated' = [migrated EXCEPT ![m] = SubSeq(@, 1, Len(@) - 1)]
  /\ LET gone == Of(migrated[m][Len(migrated[m])], target)
     IN \/ /\ ~cancelled[m]
           /\ target' = target \ (gone \union (IF enforced THEN Children(gone) ELSE {}))
           /\ UNCHANGED <<disturbed, troubles>>
        \/ cancelled[m] /\ UNCHANGED <<target, disturbed, troubles>>
        \/ /\ ~cancelled[m] /\ Trouble /\ UNCHANGED target
           /\ disturbed' = [disturbed EXCEPT ![m] = TRUE]
  /\ UNCHANGED <<source, schema, enforced, pc, cancelled, remaining, table, todo, before,
                 steady, edits>>

\* The answer names the table that failed, "(target rolled back, source untouched)".
Answer(m) ==
  /\ pc[m] = "rollback" /\ migrated[m] = <<>>
  /\ Settle(m, "failed")
  /\ UNCHANGED <<source, schema, target, enforced, cancelled, table, before, steady,
                 disturbed, edits, troubles>>

Next ==
  \/ \E r \in Rows : Edit(r)
  \/ \E m \in Requests :
       \/ Begin(m) \/ Refuse(m) \/ Cancel(m)
       \/ \E t \in Tables : StartTable(m, t)
       \/ \E r \in Rows : InsertRow(m, r)
       \/ FinishTable(m) \/ Succeed(m) \/ Fail(m) \/ Rollback(m) \/ Answer(m)

Spec == Init /\ [][Next]_vars

-----------------------------------------------------------------------------
(* Properties.                                                             *)

\* Every variable has its type.
TypeOK ==
  /\ source \subseteq Rows /\ target \subseteq Rows /\ schema \in BOOLEAN /\ enforced \in BOOLEAN
  /\ pc \in [Requests -> {"idle", "copying", "rollback", "ok", "failed", "refused"}]
  /\ cancelled \in [Requests -> BOOLEAN] /\ disturbed \in [Requests -> BOOLEAN]
  /\ remaining \in [Requests -> SUBSET Tables]
  /\ table \in [Requests -> Tables \union {NoTable}] /\ todo \in [Requests -> SUBSET Rows]
  /\ \A m \in Requests : migrated[m] \in Seq(Tables)
  /\ before \in [Requests -> SUBSET Rows] /\ steady \in [Requests -> SUBSET Rows]
  /\ edits \in 0..MaxEdits /\ troubles \in 0..MaxTroubles

Alone(m) == \A n \in Requests \ {m} : pc[n] \in {"idle", "refused"}

\* An "ok" means what it says: every row the source had throughout is in the
\* target, unless another migration shared the target.
OkMeansCopied == \A m \in Requests : pc[m] = "ok" /\ Alone(m) => steady[m] \subseteq target

\* A migration that nothing disturbs fails for one cause only, that the target
\* held rows already: the order of the tables never lets it down.
QuietFailsOnlyOnRows ==
  \A m \in Requests : pc[m] = "failed" /\ ~disturbed[m] => before[m] # {}

\* What an undisturbed failure leaves behind of its own is in one table, the
\* one that failed.
FailureLeavesOneTable ==
  \A m \in Requests :
    pc[m] = "failed" /\ ~disturbed[m] => target \subseteq before[m] \union Of(table[m], Rows)

\* migrator.go: on failure the target is cleaned up "so the source remains
\* authoritative and the user can retry safely": nothing the migration put in
\* is left.
RolledBack ==
  \A m \in Requests : pc[m] = "failed" /\ Alone(m) => target \subseteq before[m]

\* database.go: "The target schema is created first via migrations, then all
\* tables are copied": a fresh target can be filled.
FreshTargetIsFilled ==
  \A m \in Requests : ~(pc[m] = "failed" /\ ~disturbed[m] /\ before[m] = Seeds)

=============================================================================
