------------------------------- MODULE Backup -------------------------------
(***************************************************************************)
(* The backup service (internal/backup/backup.go) and its handlers:        *)
(* RunOnce, started by the daily scheduler and by POST /backups/run, the   *)
(* pruning that ends it, and Delete.  Nothing serialises them: every run   *)
(* and every delete request is a goroutine of its own that goes from one   *)
(* statement or file operation to the next.                                *)
(***************************************************************************)
EXTENDS Naturals, FiniteSets

CONSTANTS
  Backups,      \* backup ids; each is drawn by at most one RunOnce
  NoBackup,     \* the target of an idle delete request
  Deleters,     \* delete requests that may be in progress together
  Keep,         \* Service.Keep, which Run normalises to a positive number
  MaxCrashes,   \* bound on process crashes and restarts
  MaxFaults     \* bound on failing statements and file operations

ASSUME BackupAssumption ==
  /\ IsFiniteSet(Backups)
  /\ NoBackup \notin Backups
  /\ Keep \in Nat \ {0}
  /\ MaxCrashes \in Nat
  /\ MaxFaults \in Nat

VARIABLES
  row,      \* backup -> its row in the backups table: "none", "ok" or "failed"
  ts,       \* backup -> its timestamp
  files,    \* backups with a file in Dir
  run,      \* backup -> where its RunOnce stands
  doomed,   \* backup -> rows its pruneKeep has still to delete
  del,      \* delete request -> where it stands
  target,   \* delete request -> the backup it deletes
  clock,
  created,  \* history: backups whose successful row was ever inserted
  removed,  \* history: backups whose row a delete request removed
  crashes, faults

vars == <<row, ts, files, run, doomed, del, target, clock,
          created, removed, crashes, faults>>
runVars == <<run, doomed>>
delVars == <<del, target>>

OkRows == {b \in Backups : row[b] = "ok"}
Newer(S, b) == {c \in S : ts[c] > ts[b]}

Fault == faults < MaxFaults /\ faults' = faults + 1
NoFault == UNCHANGED faults

Init ==
  /\ row = [b \in Backups |-> "none"]
  /\ ts = [b \in Backups |-> 0]
  /\ files = {} /\ created = {} /\ removed = {}
  /\ run = [b \in Backups |-> "idle"]
  /\ doomed = [b \in Backups |-> {}]
  /\ del = [r \in Deleters |-> "idle"]
  /\ target = [r \in Deleters |-> NoBackup]
  /\ clock = 0 /\ crashes = 0 /\ faults = 0

-----------------------------------------------------------------------------
(* RunOnce.                                                                *)

Step(b, from, to) == run[b] = from /\ run' = [run EXCEPT ![b] = to]

\* VACUUM INTO writes the file; the timestamp is taken when it returns.
Copy(b) ==
  /\ Step(b, "idle", "copied")
  /\ files' = files \union {b}
  /\ clock' = clock + 1
  /\ ts' = [ts EXCEPT ![b] = clock + 1]
  /\ UNCHANGED <<row, doomed, delVars, created, removed, crashes, faults>>

\* VACUUM INTO (or the Stat of its file) fails, perhaps with part of the
\* file written.  A failed row is inserted if the table can take it.
CopyFails(b) ==
  /\ Step(b, "idle", "done")
  /\ files' \in {files, files \union {b}}
  /\ clock' = clock + 1
  /\ ts' = [ts EXCEPT ![b] = clock + 1]
  /\ \E s \in {"none", "failed"} : row' = [row EXCEPT ![b] = s]
  /\ Fault
  /\ UNCHANGED <<doomed, delVars, created, removed, crashes>>

Insert(b) ==
  /\ Step(b, "copied", "inserted")
  /\ row' = [row EXCEPT ![b] = "ok"]
  /\ created' = created \union {b}
  /\ UNCHANGED <<ts, files, doomed, delVars, clock, removed, crashes, faults>>

\* Create returns an error, from its INSERT or from reading the row back:
\* RunOnce returns, the file stays, nothing is pruned.
InsertFails(b) ==
  /\ Step(b, "copied", "done")
  /\ \/ UNCHANGED <<row, created>>
     \/ row' = [row EXCEPT ![b] = "ok"] /\ created' = created \union {b}
  /\ Fault
  /\ UNCHANGED <<ts, files, doomed, delVars, clock, removed, crashes>>

\* Slip: one row too few stays.
PruneQueryTooMany(b) ==
  /\ Step(b, "inserted", "pruning")
  /\ doomed' = [doomed EXCEPT ![b] =
                  {d \in OkRows : Cardinality(Newer(OkRows, d)) >= Keep - 1}]
  /\ UNCHANGED <<row, ts, files, delVars, clock, created, removed, crashes, faults>>

\* Slip: one row too many stays.
PruneQueryTooFew(b) ==
  /\ Step(b, "inserted", "pruning")
  /\ doomed' = [doomed EXCEPT ![b] =
                  {d \in OkRows : Cardinality(Newer(OkRows, d)) > Keep}]
  /\ UNCHANGED <<row, ts, files, delVars, clock, created, removed, crashes, faults>>

\* pruneKeep reads the successful rows, newest first, keeps Keep of them
\* and dooms the rest.
PruneQuery(b) ==
  /\ Step(b, "inserted", "pruning")
  /\ doomed' = [doomed EXCEPT ![b] =
                  {d \in OkRows : Cardinality(Newer(OkRows, d)) >= Keep}]
  /\ UNCHANGED <<row, ts, files, delVars, clock, created, removed, crashes, faults>>

\* The doomed are taken newest first.
NextDoomed(b) == {d \in doomed[b] : Newer(doomed[b], d) = {}}

\* os.Remove; a failure is logged and the row is deleted all the same.
PruneUnlink(b) ==
  /\ Step(b, "pruning", "dropping")
  /\ \E d \in NextDoomed(b) :
       \/ NoFault /\ files' = files \ {d}
       \/ Fault /\ UNCHANGED files
  /\ UNCHANGED <<row, ts, doomed, delVars, clock, created, removed, crashes>>

\* Slip: a soft delete the rest of the service knows nothing of.
PruneDropSoft(b) ==
  /\ Step(b, "dropping", "pruning")
  /\ \E d \in NextDoomed(b) :
       /\ doomed' = [doomed EXCEPT ![b] = @ \ {d}]
       /\ row' = [row EXCEPT ![d] = "deleted"]
  /\ UNCHANGED <<ts, files, delVars, clock, created, removed, crashes, faults>>

\* DELETE of the row; a failure is logged and the loop goes on.
PruneDrop(b) ==
  /\ Step(b, "dropping", "pruning")
  /\ \E d \in NextDoomed(b) :
       /\ doomed' = [doomed EXCEPT ![b] = @ \ {d}]
       /\ \/ NoFault /\ row' = [row EXCEPT ![d] = "none"]
          \/ Fault /\ UNCHANGED row
  /\ UNCHANGED <<ts, files, delVars, clock, created, removed, crashes>>

\* The loop is over (or the query failed) and the event is appended.
Finish(b) ==
  /\ \/ Step(b, "pruning", "done") /\ doomed[b] = {} /\ NoFault
     \/ Step(b, "inserted", "done") /\ Fault
  /\ UNCHANGED <<row, ts, files, doomed, delVars, clock, created, removed, crashes>>

-----------------------------------------------------------------------------
(* Delete.                                                                 *)

DeleteStep(r, from, to) ==
  /\ del[r] = from
  /\ del' = [del EXCEPT ![r] = to]

\* The request answers.
DeleteReply(r) == target' = [target EXCEPT ![r] = NoBackup]

\* A missing row answers 404 and a failing SELECT 500: nothing changes.
DeleteGet(r, b) ==
  /\ row[b] # "none"
  /\ DeleteStep(r, "idle", IF row[b] = "ok" THEN "counting" ELSE "unlinking")
  /\ target' = [target EXCEPT ![r] = b]
  /\ UNCHANGED <<row, ts, files, runVars, clock, created, removed, crashes, faults>>

\* Slip: the guard against deleting the last backup, off by one.
DeleteCountLoose(r) ==
  /\ \/ Cardinality(OkRows) < 1 /\ DeleteStep(r, "counting", "idle") /\ DeleteReply(r)
     \/ Cardinality(OkRows) >= 1 /\ DeleteStep(r, "counting", "unlinking") /\ UNCHANGED target
  /\ UNCHANGED <<row, ts, files, runVars, clock, created, removed, crashes, faults>>

\* CountOK; with one successful row left, ErrLastBackup.
DeleteCount(r) ==
  /\ \/ Cardinality(OkRows) <= 1 /\ DeleteStep(r, "counting", "idle") /\ DeleteReply(r)
     \/ Cardinality(OkRows) > 1 /\ DeleteStep(r, "counting", "unlinking") /\ UNCHANGED target
  /\ UNCHANGED <<row, ts, files, runVars, clock, created, removed, crashes, faults>>

\* Slip: an unlink whose request ends there.
DeleteUnlinkOnly(r) ==
  /\ DeleteStep(r, "unlinking", "idle") /\ DeleteReply(r)
  /\ files' = files \ {target[r]}
  /\ UNCHANGED <<row, ts, runVars, clock, created, removed, crashes, faults>>

\* os.Remove; a failure is logged and the row is deleted all the same.
DeleteUnlink(r) ==
  /\ DeleteStep(r, "unlinking", "dropping")
  /\ \/ NoFault /\ files' = files \ {target[r]}
     \/ Fault /\ UNCHANGED files
  /\ UNCHANGED <<row, ts, runVars, target, clock, created, removed, crashes>>

\* Repo.Delete: 204, 404 when another request was faster, 500.
DeleteDrop(r) ==
  /\ DeleteStep(r, "dropping", "idle") /\ DeleteReply(r)
  /\ \/ /\ NoFault
        /\ row' = [row EXCEPT ![target[r]] = "none"]
        /\ removed' = IF row[target[r]] = "ok" THEN removed \union {target[r]} ELSE removed
     \/ Fault /\ UNCHANGED <<row, removed>>
  /\ UNCHANGED <<ts, files, runVars, clock, created, crashes>>

-----------------------------------------------------------------------------
\* The dashboard stops in the middle of everything and starts again; no one
\* takes up what was left.
Crash ==
  /\ crashes < MaxCrashes
  /\ crashes' = crashes + 1
  /\ run' = [b \in Backups |-> IF run[b] = "idle" THEN "idle" ELSE "done"]
  /\ doomed' = [b \in Backups |-> {}]
  /\ del' = [r \in Deleters |-> "idle"]
  /\ target' = [r \in Deleters |-> NoBackup]
  /\ UNCHANGED <<row, ts, files, clock, created, removed, faults>>

RunStep(b) ==
  \/ Copy(b) \/ CopyFails(b) \/ Insert(b) \/ InsertFails(b)
  \/ PruneQuery(b) \/ PruneUnlink(b) \/ PruneDrop(b) \/ Finish(b)

Next ==
  \/ \E b \in Backups : RunStep(b)
  \/ \E r \in Deleters, b \in Backups : DeleteGet(r, b)
  \/ \E r \in Deleters : DeleteCount(r) \/ DeleteUnlink(r) \/ DeleteDrop(r)
  \/ Crash

Spec == Init /\ [][Next]_vars

-----------------------------------------------------------------------------
(* Properties.                                                             *)

\* Every variable has its type.
TypeOK ==
  /\ row \in [Backups -> {"none", "ok", "failed"}]
  /\ ts \in [Backups -> Nat]
  /\ files \subseteq Backups
  /\ run \in [Backups -> {"idle", "copied", "inserted", "pruning", "dropping", "done"}]
  /\ doomed \in [Backups -> SUBSET Backups]
  /\ del \in [Deleters -> {"idle", "counting", "unlinking", "dropping"}]
  /\ target \in [Deleters -> Backups \union {NoBackup}]
  /\ clock \in Nat
  /\ created \subseteq Backups
  /\ removed \subseteq Backups
  /\ crashes \in 0..MaxCrashes
  /\ faults \in 0..MaxFaults

\* pruneKeep "retains the keep newest successful backup rows": whatever the
\* runs, deletes and crashes around it, one of the Keep newest backups ever
\* recorded is missing only if a delete request removed it.
NewestRetained ==
  \A b \in created :
    Cardinality(Newer(created, b)) < Keep => row[b] = "ok" \/ b \in removed

\* The table does not grow: once the runs have ended, whatever their order,
\* at most Keep successful backups are left.
PrunedWhenQuiet ==
  (/\ \A b \in Backups : run[b] \in {"idle", "done"}
   /\ crashes = 0 /\ faults = 0) => Cardinality(OkRows) <= Keep

\* A row that says ok has its file to download: it is missing only while
\* the goroutine that removed it is about to delete the row, or after a
\* crash or a failed statement in between.
OkRowHasFile ==
  \A b \in OkRows \ files :
    \/ \E r \in Deleters : del[r] = "dropping" /\ target[r] = b
    \/ \E c \in Backups : run[c] = "dropping" /\ b \in NextDoomed(c)
    \/ crashes > 0 \/ faults > 0

\* backup.go: "It refuses to delete the last successful backup so the user
\* always retains a fallback".
FallbackRetained == [][OkRows # {} => OkRows' # {}]_vars

=============================================================================
