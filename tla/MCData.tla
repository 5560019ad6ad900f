------------------------------- MODULE MCData -------------------------------
(* Small instances of what keeps the dashboard's data: the output column   *)
(* this module extends, the data migration, the rows of projects, and the  *)
(* webhooks.  A behaviour is one of a single part, the one in focus; parts *)
(* share the variables whose names they share, and the output column rests *)
(* in its initial state.                                                   *)
EXTENDS OutputColumn, TLC

CONSTANTS Things, Names, Handlers, NoRow, MaxSecrets, MaxPushes, MaxRuns,
          MaxEdits, MaxTroubles, Tables, Rows, Seeds, TableOf, Parent

VARIABLES
  focus, source, schema, target, enforced, pc, cancelled, remaining, table,
  todo, migrated, before, steady, disturbed, edits, troubles, row, unborn,
  op, id, copy, fresh, secrets, meant, blurred, head, hook, sent, project,
  req, locked, run, count, deployed, missed, answers

Migration == INSTANCE DataMigration WITH
  Requests <- Handlers

Project == INSTANCE ProjectRows WITH
  Projects <- Things

Hook == INSTANCE Webhooks

\* Variables of one part alone, and those several parts have.
outputOnly == <<column, printed>>
migrationOnly == <<source, schema, target, enforced, cancelled, remaining,
                     table, todo, migrated, before, steady, disturbed>>
projectOnly == <<row, unborn, op, id, copy, fresh, secrets, meant, blurred>>
webhookOnly == <<head, hook, sent, project, req, locked, run, count,
                   deployed, missed, answers>>
sumVars == <<focus, outputOnly, migrationOnly, projectOnly, webhookOnly, pc,
             edits, troubles>>

\* The variables of the parts out of focus.
Unused == "unused"
migrationRests ==
  /\ source = Unused /\ schema = Unused /\ target = Unused /\ enforced = Unused
  /\ cancelled = Unused /\ remaining = Unused /\ table = Unused /\ todo = Unused
  /\ migrated = Unused /\ before = Unused /\ steady = Unused /\ disturbed = Unused
projectRests ==
  /\ row = Unused /\ unborn = Unused /\ op = Unused /\ id = Unused
  /\ copy = Unused /\ fresh = Unused /\ secrets = Unused /\ meant = Unused
  /\ blurred = Unused
webhookRests ==
  /\ head = Unused /\ hook = Unused /\ sent = Unused /\ project = Unused
  /\ req = Unused /\ locked = Unused /\ run = Unused /\ count = Unused
  /\ deployed = Unused /\ missed = Unused /\ answers = Unused

SumInit ==
  \/ /\ focus = "output" /\ Init
     /\ migrationRests /\ projectRests /\ webhookRests
     /\ pc = Unused /\ edits = Unused /\ troubles = Unused
  \/ /\ focus = "migration" /\ Migration!Init
     /\ Init /\ projectRests /\ webhookRests
  \/ /\ focus = "project" /\ Project!Init
     /\ Init /\ migrationRests /\ webhookRests
     /\ edits = Unused
  \/ /\ focus = "webhook" /\ Hook!Init
     /\ Init /\ migrationRests /\ projectRests

SumNext ==
  \/ /\ focus = "output" /\ Next
     /\ UNCHANGED <<focus, migrationOnly, projectOnly, webhookOnly, pc,
                     edits, troubles>>
  \/ /\ focus = "migration" /\ Migration!Next
     /\ UNCHANGED <<focus, outputOnly, projectOnly, webhookOnly>>
  \/ /\ focus = "project" /\ Project!Next
     /\ UNCHANGED <<focus, outputOnly, migrationOnly, webhookOnly, edits>>
  \/ /\ focus = "webhook" /\ Hook!Next
     /\ UNCHANGED <<focus, outputOnly, migrationOnly, projectOnly>>

SumSpec == SumInit /\ [][SumNext]_sumVars

-----------------------------------------------------------------------------
(* Stated in the modules, checked here.                                    *)

\* What an ok migration found throughout is in the target, an undisturbed
\* migration fails only for rows the target held, and what an undisturbed
\* failure leaves is in one table.
MigrationIsWhole ==
  focus = "migration" =>
    /\ Migration!TypeOK
    /\ Migration!OkMeansCopied
    /\ Migration!QuietFailsOnlyOnRows
    /\ Migration!FailureLeavesOneTable

\* database.go: "The target schema is created first via migrations, then all
\* tables are copied": a fresh target is filled.
FreshTargetIsFilled == focus = "migration" => Migration!FreshTargetIsFilled

\* The columns of a project are what its answered edits made them.
ProjectEditsStand ==
  focus = "project" =>
    /\ Project!TypeOK
    /\ Project!EditsStand

\* A commit that was accepted is deployed when its run succeeds, the machine
\* has the head of the branch when every delivery succeeded, and a request that
\* waits is answered the end of its own run.
PushesAreDeployed ==
  focus = "webhook" =>
    /\ Hook!TypeOK
    /\ Hook!AcceptedIsDeployed
    /\ Hook!LatestIsDeployed
    /\ Hook!WaitedIsFinal

\* The tables the runs migrate: a project, a channel of it, a migrated row.
SmallTableOf == "p1" :> "p" @@ "c1" :> "c" @@ "m1" :> "m"
SmallParent == "p1" :> "p1" @@ "c1" :> "p1" @@ "m1" :> "m1"

Symmetry == Permutations(Things) \union Permutations(Names) \union Permutations(Handlers)

=============================================================================
