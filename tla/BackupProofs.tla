---------------------------- MODULE BackupProofs ----------------------------
(***************************************************************************)
(* The pruning of Backup never costs one of the Keep newest backups, for   *)
(* any number of backups, runs, delete requests, crashes and faults.       *)
(***************************************************************************)
EXTENDS Backup, FiniteSetTheorems, TLAPS

-----------------------------------------------------------------------------
\* TypeOK with what it needs to be inductive: a delete request past its
\* lookup has a target.
Targeted == \A r \in Deleters : del[r] # "idle" => target[r] \in Backups

TypeInv == TypeOK /\ Targeted

\* Every step keeps TypeInv.
LEMMA TypeInvStep == ASSUME TypeInv, [Next]_vars PROVE TypeInv'
<1> USE BackupAssumption
        DEF TypeInv, TypeOK, Targeted, Step, DeleteStep, DeleteReply, OkRows, Newer,
            NextDoomed, Fault, NoFault, runVars, delVars
<1>1. ASSUME NEW b \in Backups, Copy(b) \/ CopyFails(b) \/ Insert(b) \/ InsertFails(b)
      PROVE  TypeInv'
  BY <1>1 DEF Copy, CopyFails, Insert, InsertFails
<1>2. ASSUME NEW b \in Backups, Finish(b) PROVE TypeInv'
  BY <1>2 DEF Finish
<1>9. ASSUME NEW b \in Backups, PruneQuery(b) PROVE TypeInv'
  <2>1. PICK D \in SUBSET Backups : doomed' = [doomed EXCEPT ![b] = D]
    <3> HIDE DEF Newer
    <3> QED
      BY <1>9 DEF PruneQuery
  <2> QED
    BY <1>9, <2>1 DEF PruneQuery
<1>7. ASSUME NEW b \in Backups, PruneUnlink(b) PROVE TypeInv'
  BY <1>7 DEF PruneUnlink
<1>8. ASSUME NEW b \in Backups, PruneDrop(b) PROVE TypeInv'
  <2>1. PICK d \in doomed[b] :
             /\ doomed' = [doomed EXCEPT ![b] = @ \ {d}]
             /\ row' \in {row, [row EXCEPT ![d] = "none"]}
    BY <1>8 DEF PruneDrop
  <2> QED
    BY <1>8, <2>1 DEF PruneDrop
<1>3. ASSUME NEW r \in Deleters, NEW b \in Backups, DeleteGet(r, b) PROVE TypeInv'
  BY <1>3 DEF DeleteGet
<1>4. ASSUME NEW r \in Deleters, DeleteCount(r) \/ DeleteUnlink(r) \/ DeleteDrop(r)
      PROVE  TypeInv'
  BY <1>4 DEF DeleteCount, DeleteUnlink, DeleteDrop
<1>5. ASSUME Crash PROVE TypeInv'
  BY <1>5 DEF Crash
<1>6. ASSUME UNCHANGED vars PROVE TypeInv'
  BY <1>6 DEF vars
<1> QED
  BY <1>1, <1>2, <1>3, <1>4, <1>5, <1>6, <1>7, <1>8, <1>9 DEF Next, RunStep

-----------------------------------------------------------------------------
\* The timestamp of a recorded backup is final.
Recorded == \A b \in created : run[b] \notin {"idle", "copied"}

\* A doomed row was one of many: Keep recorded backups are newer than it.
\* The list pruneKeep works from is stale, but it can only become more true.
DoomedAreOld ==
  \A b \in Backups : \A d \in doomed[b] :
    d \in created /\ Cardinality(Newer(created, d)) >= Keep

PruneInv == OkRows \subseteq created /\ Recorded /\ DoomedAreOld /\ NewestRetained

\* More recorded backups, more newer ones.
LEMMA NewerGrows ==
  ASSUME TypeOK, NEW S \in SUBSET Backups, NEW T \in SUBSET S, NEW b \in Backups
  PROVE  /\ Cardinality(Newer(T, b)) \in Nat
         /\ Cardinality(Newer(S, b)) \in Nat
         /\ Cardinality(Newer(T, b)) <= Cardinality(Newer(S, b))
<1>1. IsFiniteSet(Newer(S, b))
  BY BackupAssumption, FS_Subset DEF Newer
<1>2. Newer(T, b) \subseteq Newer(S, b)
  BY DEF Newer
<1> QED
  BY <1>1, <1>2, FS_Subset, FS_CardinalityType

\* Every step keeps PruneInv.
LEMMA PruneInvStep == ASSUME TypeInv, TypeInv', PruneInv, [Next]_vars PROVE PruneInv'
<1> USE BackupAssumption DEF TypeInv, PruneInv
<1>0. \A b \in Backups : Cardinality(Newer(created, b)) \in Nat
  BY NewerGrows DEF TypeOK
<1> DEFINE Same == /\ created' = created
                   /\ \A b \in created : ts'[b] = ts[b]
<1>1. ASSUME Same PROVE \A b \in created : Newer(created, b)' = Newer(created, b)
  BY <1>1 DEF Newer
<1>2. ASSUME NEW b \in Backups, Copy(b) \/ CopyFails(b) PROVE PruneInv'
  <2>1. /\ b \notin created /\ run[b] = "idle" /\ Same /\ removed' = removed /\ doomed' = doomed
        /\ \A c \in Backups \ {b} : run'[c] = run[c] /\ row'[c] = row[c]
        /\ row'[b] # "ok" \/ row'[b] = row[b]
    BY <1>2 DEF Copy, CopyFails, Step, Recorded, TypeOK
  <2>2. (OkRows \subseteq created)' /\ Recorded'
    BY <2>1 DEF OkRows, Recorded, TypeOK
  <2>3. DoomedAreOld'
    BY <1>1, <2>1 DEF DoomedAreOld
  <2>4. NewestRetained'
    BY <1>1, <2>1 DEF NewestRetained, TypeOK
  <2> QED
    BY <2>2, <2>3, <2>4
<1>3. ASSUME NEW b \in Backups, Insert(b) \/ InsertFails(b) PROVE PruneInv'
  <2>1. /\ run[b] = "copied" /\ run'[b] \in {"inserted", "done"}
        /\ ts' = ts /\ removed' = removed /\ doomed' = doomed
        /\ \A c \in Backups \ {b} : run'[c] = run[c] /\ row'[c] = row[c]
        /\ \/ created' = created /\ row' = row
           \/ created' = created \union {b} /\ row'[b] = "ok"
    BY <1>3 DEF Insert, InsertFails, Step, TypeOK
  <2>2. (OkRows \subseteq created)' /\ Recorded'
    BY <2>1 DEF OkRows, Recorded, TypeOK
  <2>3. \A c \in Backups : Cardinality(Newer(created, c)) <= Cardinality(Newer(created, c)')
                           /\ Cardinality(Newer(created, c)') \in Nat
    <3>1. created' \in SUBSET Backups /\ created \subseteq created'
      BY <2>1 DEF TypeOK
    <3>2. \A c \in Backups : Newer(created, c)' = Newer(created', c)
      BY <2>1 DEF Newer
    <3> QED
      BY <3>1, <3>2, NewerGrows
  <2>4. DoomedAreOld'
    BY <1>0, <2>1, <2>3 DEF DoomedAreOld, TypeOK
  <2>5. NewestRetained'
    BY <1>0, <2>1, <2>3 DEF NewestRetained, TypeOK
  <2> QED
    BY <2>2, <2>4, <2>5
<1>4. ASSUME NEW b \in Backups, PruneQuery(b) PROVE PruneInv'
  <2>1. /\ Same /\ row' = row /\ removed' = removed
        /\ \A c \in Backups : run[c] \in {"idle", "copied"} <=> run'[c] \in {"idle", "copied"}
        /\ \A c \in Backups \ {b} : doomed'[c] = doomed[c]
        /\ \A d \in doomed'[b] : d \in OkRows /\ Cardinality(Newer(OkRows, d)) >= Keep
    <3> HIDE DEF Newer
    <3> QED
      BY <1>4 DEF PruneQuery, Step, TypeOK
  <2>2. \A d \in doomed'[b] : d \in created /\ Cardinality(Newer(created, d)) >= Keep
    <3>1. OkRows \in SUBSET created /\ created \in SUBSET Backups
      BY DEF TypeOK
    <3>2. \A d \in Backups : /\ Cardinality(Newer(OkRows, d)) \in Nat
                             /\ Cardinality(Newer(OkRows, d)) <= Cardinality(Newer(created, d))
      BY <3>1, NewerGrows
    <3> QED
      BY <1>0, <2>1, <3>1, <3>2
  <2>3. DoomedAreOld'
    BY <1>1, <2>1, <2>2 DEF DoomedAreOld, TypeOK
  <2>4. NewestRetained'
    BY <1>1, <2>1 DEF NewestRetained
  <2> QED
    BY <2>1, <2>3, <2>4 DEF OkRows, Recorded, TypeOK
<1>5. ASSUME NEW b \in Backups, PruneDrop(b) PROVE PruneInv'
  <2>1. PICK d \in doomed[b] :
             /\ doomed' = [doomed EXCEPT ![b] = @ \ {d}]
             /\ row' = [row EXCEPT ![d] = "none"] \/ row' = row
    BY <1>5 DEF PruneDrop, NextDoomed
  <2>2. /\ Same /\ removed' = removed /\ d \in created
        /\ Cardinality(Newer(created, d)) >= Keep
        /\ \A c \in Backups : run[c] \in {"idle", "copied"} <=> run'[c] \in {"idle", "copied"}
    BY <1>5 DEF PruneDrop, Step, TypeOK, DoomedAreOld
  <2>3. (OkRows \subseteq created)' /\ Recorded'
    BY <2>1, <2>2 DEF OkRows, Recorded, TypeOK
  <2>4. DoomedAreOld'
    BY <1>1, <2>1, <2>2 DEF DoomedAreOld, TypeOK
  <2>5. NewestRetained'
    BY <1>0, <1>1, <2>1, <2>2 DEF NewestRetained, TypeOK
  <2> QED
    BY <2>3, <2>4, <2>5
<1>6. ASSUME NEW r \in Deleters, DeleteDrop(r) PROVE PruneInv'
  <2>1. /\ Same /\ run' = run /\ doomed' = doomed /\ target[r] \in Backups
        /\ \A c \in Backups \ {target[r]} : row'[c] = row[c]
        /\ \/ row' = row /\ removed' = removed
           \/ /\ row'[target[r]] = "none"
              /\ removed' = IF row[target[r]] = "ok" THEN removed \union {target[r]}
                            ELSE removed
    BY <1>6 DEF DeleteDrop, DeleteStep, Targeted, TypeOK, runVars
  <2>2. (OkRows \subseteq created)' /\ Recorded'
    BY <2>1 DEF OkRows, Recorded, TypeOK
  <2>3. DoomedAreOld'
    BY <1>1, <2>1 DEF DoomedAreOld
  <2>4. NewestRetained'
    BY <1>1, <2>1 DEF NewestRetained, TypeOK
  <2> QED
    BY <2>2, <2>3, <2>4
<1>7. ASSUME /\ UNCHANGED <<row, ts, created, removed>>
             /\ \A c \in Backups : /\ doomed'[c] \subseteq doomed[c]
                                   /\ run[c] \notin {"idle", "copied"}
                                        => run'[c] \notin {"idle", "copied"}
      PROVE  PruneInv'
  BY <1>1, <1>7 DEF OkRows, Recorded, DoomedAreOld, NewestRetained, TypeOK
<1>8. ASSUME NEW b \in Backups, PruneUnlink(b) \/ Finish(b) PROVE PruneInv'
  BY <1>7, <1>8 DEF PruneUnlink, Finish, Step, TypeOK
<1>9. ASSUME NEW r \in Deleters,
             DeleteCount(r) \/ DeleteUnlink(r) \/ \E b \in Backups : DeleteGet(r, b)
      PROVE  PruneInv'
  BY <1>7, <1>9 DEF DeleteCount, DeleteUnlink, DeleteGet, runVars
<1>10. ASSUME Crash PROVE PruneInv'
  BY <1>7, <1>10 DEF Crash, TypeOK
<1>11. ASSUME UNCHANGED vars PROVE PruneInv'
  BY <1>7, <1>11 DEF vars
<1> QED
  BY <1>2, <1>3, <1>4, <1>5, <1>6, <1>8, <1>9, <1>10, <1>11 DEF Next, RunStep

\* The inductive invariant holds for ever.
LEMMA PruneInvHolds == Spec => [](TypeInv /\ PruneInv)
<1>1. Init => TypeInv /\ PruneInv
  BY BackupAssumption
  DEF Init, TypeInv, TypeOK, Targeted, PruneInv, OkRows, Recorded, DoomedAreOld, NewestRetained
<1>2. TypeInv /\ PruneInv /\ [Next]_vars => (TypeInv /\ PruneInv)'
  BY TypeInvStep, PruneInvStep
<1> QED
  BY <1>1, <1>2, PTL DEF Spec

\* Every variable keeps its type.
THEOREM BackupTypes == Spec => []TypeOK
BY PruneInvHolds, PTL DEF TypeInv

\* pruneKeep "retains the keep newest successful backup rows", whatever
\* runs, deletes and crashes its stale list has outlived.
THEOREM NewestKept == Spec => []NewestRetained
BY PruneInvHolds, PTL DEF PruneInv

-----------------------------------------------------------------------------
\* A row, a doomed row and the target of a delete request are of a backup that
\* is past its INSERT; a copy that waits for its INSERT has its file; and no
\* two copies bear one timestamp, so a prune has one next row to delete.
Settled(b) == run[b] \notin {"idle", "copied"}

FileInv ==
  /\ \A b \in Backups : row[b] # "none" => Settled(b)
  /\ \A r \in Deleters : del[r] # "idle" => Settled(target[r])
  /\ \A b \in Backups : run[b] = "copied" => b \in files
  /\ \A b \in Backups : run[b] # "idle" => ts[b] <= clock
  /\ \A b, c \in Backups : run[b] # "idle" /\ run[c] # "idle" /\ ts[b] = ts[c] => b = c

\* Every step keeps FileInv.
LEMMA FileInvStep ==
  ASSUME TypeInv, PruneInv, FileInv, [Next]_vars PROVE FileInv'
<1> USE DEF TypeInv, TypeOK, Targeted, FileInv, Settled, Step, DeleteStep, DeleteReply,
            runVars, delVars
<1>1. ASSUME NEW b \in Backups, Copy(b) \/ CopyFails(b) PROVE FileInv'
  BY <1>1 DEF Copy, CopyFails
<1>2. ASSUME NEW b \in Backups, Insert(b) \/ InsertFails(b) PROVE FileInv'
  BY <1>2 DEF Insert, InsertFails
<1>3. ASSUME NEW b \in Backups, PruneQuery(b) \/ Finish(b) PROVE FileInv'
  BY <1>3 DEF PruneQuery, Finish
<1>4. ASSUME NEW b \in Backups, PruneUnlink(b) PROVE FileInv'
  <2>1. PICK d \in doomed[b] : files' \in {files, files \ {d}}
    BY <1>4 DEF PruneUnlink, NextDoomed
  <2>2. Settled(d) /\ d \in Backups
    BY DEF PruneInv, DoomedAreOld, Recorded
  <2> QED
    BY <1>4, <2>1, <2>2 DEF PruneUnlink
<1>5. ASSUME NEW b \in Backups, PruneDrop(b) PROVE FileInv'
  <2>1. PICK d \in doomed[b] : row' \in {row, [row EXCEPT ![d] = "none"]}
    BY <1>5 DEF PruneDrop, NextDoomed
  <2> QED
    BY <1>5, <2>1 DEF PruneDrop
<1>6. ASSUME NEW r \in Deleters, NEW b \in Backups, DeleteGet(r, b) PROVE FileInv'
  BY <1>6 DEF DeleteGet
<1>7. ASSUME NEW r \in Deleters, DeleteCount(r) \/ DeleteUnlink(r) \/ DeleteDrop(r)
      PROVE  FileInv'
  BY <1>7 DEF DeleteCount, DeleteUnlink, DeleteDrop
<1>8. ASSUME Crash PROVE FileInv'
  BY <1>8 DEF Crash
<1>9. ASSUME UNCHANGED vars PROVE FileInv'
  BY <1>9 DEF vars
<1> QED
  BY <1>1, <1>2, <1>3, <1>4, <1>5, <1>6, <1>7, <1>8, <1>9 DEF Next, RunStep

\* The next row of a prune is one.
LEMMA NextDoomedIsOne ==
  ASSUME TypeOK, PruneInv, FileInv, NEW c \in Backups,
         NEW d \in NextDoomed(c), NEW e \in NextDoomed(c)
  PROVE  d = e
<1>1. d \in doomed[c] /\ e \in doomed[c] /\ ~(ts[e] > ts[d]) /\ ~(ts[d] > ts[e])
  BY DEF NextDoomed, Newer
<1>2. d \in Backups /\ e \in Backups /\ ts[d] = ts[e]
  BY <1>1 DEF TypeOK
<1>3. run[d] # "idle" /\ run[e] # "idle"
  BY <1>1 DEF PruneInv, DoomedAreOld, Recorded
<1> QED
  BY <1>2, <1>3 DEF FileInv

\* Somebody is about to delete the row of b.
Leaving(b) ==
  \/ \E r \in Deleters : del[r] = "dropping" /\ target[r] = b
  \/ \E c \in Backups : run[c] = "dropping" /\ b \in NextDoomed(c)

\* Every step keeps OkRowHasFile.
LEMMA OkRowStep ==
  ASSUME TypeInv, TypeInv', PruneInv, FileInv, OkRowHasFile, [Next]_vars
  PROVE  OkRowHasFile'
<1> USE DEF TypeInv, TypeOK, Step, DeleteStep, DeleteReply, runVars, delVars
<1>1. CASE crashes' > 0 \/ faults' > 0
  BY <1>1 DEF OkRowHasFile
<1>2. CASE crashes' = 0 /\ faults' = 0
  <2>1. ~Crash /\ faults = 0 /\ crashes = 0
    BY <1>2, BackupAssumption
    DEF Crash, Next, vars, RunStep, Copy, CopyFails, Insert, InsertFails, PruneQuery,
        PruneUnlink, PruneDrop, Finish, DeleteGet, DeleteCount, DeleteUnlink, DeleteDrop,
        Fault, NoFault
  <2>2. \A b \in OkRows \ files : Leaving(b)
    BY <2>1 DEF OkRowHasFile, Leaving
  <2>3. ASSUME \A b \in OkRows' \ files' : Leaving(b)' PROVE OkRowHasFile'
    BY <2>3 DEF OkRowHasFile, Leaving
  <2>4. ASSUME ts' = ts \/ \E b \in Backups : /\ \A c \in Backups : b \notin doomed[c]
                                             /\ \A c \in Backups \ {b} : ts'[c] = ts[c],
               NEW c \in Backups, doomed'[c] = doomed[c]
        PROVE  NextDoomed(c)' = NextDoomed(c)
    BY <2>4 DEF NextDoomed, Newer
  <2>5. ASSUME NEW b \in Backups, Copy(b) PROVE OkRowHasFile'
    <3>1. \A c \in Backups : b \notin doomed[c]
      BY <2>5 DEF Copy, PruneInv, DoomedAreOld, Recorded
    <3>2. \A c \in Backups : NextDoomed(c)' = NextDoomed(c)
      BY <2>4, <2>5, <3>1 DEF Copy
    <3>3. \A c \in Backups : run[c] = "dropping" => run'[c] = "dropping"
      BY <2>5 DEF Copy
    <3>4. \A d \in Backups : Leaving(d) => Leaving(d)'
      BY <2>5, <3>2, <3>3 DEF Copy, Leaving
    <3> QED
      BY <2>2, <2>3, <2>5, <3>4 DEF Copy, OkRows
  <2>6. ASSUME NEW b \in Backups, Insert(b) \/ PruneQuery(b) \/ Finish(b) PROVE OkRowHasFile'
    <3>1. /\ \A c \in Backups : run[c] = "dropping" => run'[c] = "dropping" /\ c # b
          /\ UNCHANGED <<ts, files, delVars>>
          /\ \A c \in Backups \ {b} : doomed'[c] = doomed[c]
      BY <2>6 DEF Insert, PruneQuery, Finish
    <3>2. \A c \in Backups \ {b} : NextDoomed(c)' = NextDoomed(c)
      BY <2>4, <3>1
    <3>3. \A d \in Backups : Leaving(d) => Leaving(d)'
      BY <3>1, <3>2 DEF Leaving
    <3>4. \A d \in OkRows' \ files' : d \in OkRows \ files
      BY <2>6, <3>1 DEF Insert, PruneQuery, Finish, OkRows, FileInv
    <3> QED
      BY <2>2, <2>3, <3>3, <3>4 DEF OkRows
  <2>7. ASSUME NEW b \in Backups, PruneUnlink(b) PROVE OkRowHasFile'
    <3>1. PICK d \in NextDoomed(b) : files' \in {files, files \ {d}}
      BY <2>7 DEF PruneUnlink
    <3>2. \A c \in Backups : NextDoomed(c)' = NextDoomed(c)
      BY <2>4, <2>7 DEF PruneUnlink
    <3>3. /\ run'[b] = "dropping" /\ UNCHANGED <<row, delVars>>
          /\ \A c \in Backups : run[c] = "dropping" => run'[c] = "dropping"
      BY <2>7 DEF PruneUnlink
    <3>4. \A e \in Backups : Leaving(e) => Leaving(e)'
      BY <3>2, <3>3 DEF Leaving
    <3>5. Leaving(d)'
      BY <3>1, <3>2, <3>3 DEF Leaving
    <3> QED
      BY <2>2, <2>3, <3>1, <3>3, <3>4, <3>5 DEF OkRows
  <2>8. ASSUME NEW b \in Backups, PruneDrop(b) PROVE OkRowHasFile'
    <3>1. PICK d \in NextDoomed(b) : row' = [row EXCEPT ![d] = "none"]
      BY <1>2, <2>1, <2>8 DEF PruneDrop, Fault
    <3>2. \A c \in Backups \ {b} : NextDoomed(c)' = NextDoomed(c)
      BY <2>4, <2>8 DEF PruneDrop
    <3>3. /\ run[b] = "dropping" /\ UNCHANGED <<files, delVars>>
          /\ \A c \in Backups \ {b} : run'[c] = run[c]
      BY <2>8 DEF PruneDrop
    <3>4. d \in Backups /\ \A e \in NextDoomed(b) : e = d
      BY NextDoomedIsOne DEF NextDoomed
    <3>5. \A e \in Backups \ {d} : Leaving(e) => Leaving(e)'
      BY <3>2, <3>3, <3>4 DEF Leaving
    <3>6. d \notin OkRows' /\ \A e \in OkRows' : e \in OkRows
      BY <3>1, <3>4 DEF OkRows
    <3> QED
      BY <2>2, <2>3, <3>3, <3>5, <3>6 DEF OkRows
  <2>9. ASSUME NEW r \in Deleters,
               DeleteCount(r) \/ DeleteUnlink(r) \/ \E b \in Backups : DeleteGet(r, b)
        PROVE  OkRowHasFile'
    <3>1. UNCHANGED <<row, ts, runVars>>
      BY <2>9 DEF DeleteCount, DeleteUnlink, DeleteGet
    <3>2. \A c \in Backups : NextDoomed(c)' = NextDoomed(c)
      BY <2>4, <3>1
    <3>3. \A q \in Deleters : del[q] = "dropping" => del'[q] = "dropping" /\ target'[q] = target[q]
      BY <2>9 DEF DeleteCount, DeleteUnlink, DeleteGet
    <3>4. \A e \in Backups : Leaving(e) => Leaving(e)'
      BY <3>1, <3>2, <3>3 DEF Leaving
    <3>5. \/ files' = files
          \/ /\ files' = files \ {target[r]} /\ del'[r] = "dropping" /\ target'[r] = target[r]
      BY <2>9 DEF DeleteCount, DeleteUnlink, DeleteGet
    <3>6. \A e \in Backups : e \in files \ files' => Leaving(e)'
      BY <3>5 DEF Leaving
    <3> QED
      BY <2>2, <2>3, <3>1, <3>4, <3>6 DEF OkRows
  <2>10. ASSUME NEW r \in Deleters, DeleteDrop(r) PROVE OkRowHasFile'
    <3>1. /\ row' = [row EXCEPT ![target[r]] = "none"] /\ target[r] \in Backups
          /\ UNCHANGED <<ts, files, runVars>>
      BY <1>2, <2>1, <2>10 DEF DeleteDrop, Fault, Targeted
    <3>2. \A c \in Backups : NextDoomed(c)' = NextDoomed(c)
      BY <2>4, <3>1
    <3>3. \A q \in Deleters \ {r} : del'[q] = del[q] /\ target'[q] = target[q]
      BY <2>10 DEF DeleteDrop
    <3>4. \A e \in Backups \ {target[r]} : Leaving(e) => Leaving(e)'
      BY <3>1, <3>2, <3>3 DEF Leaving
    <3> QED
      BY <2>2, <2>3, <3>1, <3>4 DEF OkRows
  <2>11. ASSUME UNCHANGED vars PROVE OkRowHasFile'
    BY <2>11 DEF vars, OkRowHasFile, OkRows, NextDoomed, Newer
  <2>12. \A b \in Backups : ~CopyFails(b) /\ ~InsertFails(b)
    BY <1>2, <2>1 DEF CopyFails, InsertFails, Fault
  <2> QED
    BY <2>1, <2>5, <2>6, <2>7, <2>8, <2>9, <2>10, <2>11, <2>12 DEF Next, RunStep
<1> QED
  BY <1>1, <1>2, BackupAssumption

\* A row that says ok has its file, unless the one who removed the file is
\* about to delete the row or was stopped in between.
THEOREM OkRowsHaveFiles == Spec => []OkRowHasFile
<1>1. Init => FileInv /\ OkRowHasFile
  BY DEF Init, FileInv, Settled, OkRowHasFile, OkRows
<1>2. TypeInv /\ PruneInv /\ FileInv /\ [Next]_vars => FileInv'
  BY FileInvStep
<1>3. TypeInv /\ TypeInv' /\ PruneInv /\ FileInv /\ OkRowHasFile /\ [Next]_vars
        => OkRowHasFile'
  BY OkRowStep
<1> QED
  BY <1>1, <1>2, <1>3, PruneInvHolds, PTL DEF Spec

-----------------------------------------------------------------------------
\* The rows no prune is about to delete.
Lasting == {d \in OkRows : \A c \in Backups : d \notin doomed[c]}

\* Only a prune has doomed rows; and as long as nothing crashed or failed, a
\* run between its INSERT and its query is the only reason for more than Keep
\* rows that nobody is about to delete: the last query to run dooms the rest,
\* those whose prune another run has begun included.
PrunedInv ==
  /\ \A c \in Backups : doomed[c] # {} => run[c] \in {"pruning", "dropping"}
  /\ crashes = 0 /\ faults = 0 =>
       \/ \E b \in Backups : run[b] = "inserted"
       \/ Cardinality(Lasting) <= Keep

\* At most k backups of a set have fewer than k newer ones in it.
LEMMA FewAreNewest ==
  ASSUME TypeOK, NEW S \in SUBSET Backups, NEW k \in Nat,
         \A b, c \in S : ts[b] = ts[c] => b = c
  PROVE  Cardinality({d \in S : Cardinality(Newer(S, d)) < k}) <= k
<1> DEFINE T == {d \in S : Cardinality(Newer(S, d)) < k}
           f == [d \in T |-> Cardinality(Newer(S, d))]
<1>1. \A d \in S : IsFiniteSet(Newer(S, d)) /\ Cardinality(Newer(S, d)) \in Nat
  BY BackupAssumption, FS_Subset, FS_CardinalityType DEF Newer
<1>2. ASSUME NEW d \in S, NEW e \in S, ts[d] > ts[e]
      PROVE  Cardinality(Newer(S, d)) < Cardinality(Newer(S, e))
  <2>1. Newer(S, d) \subseteq Newer(S, e) /\ d \in Newer(S, e) /\ d \notin Newer(S, d)
    BY <1>2 DEF Newer, TypeOK
  <2>2. /\ Cardinality(Newer(S, d)) <= Cardinality(Newer(S, e))
        /\ Cardinality(Newer(S, e)) = Cardinality(Newer(S, d)) => Newer(S, e) = Newer(S, d)
    BY <1>1, <2>1, FS_Subset
  <2> QED
    BY <1>1, <2>1, <2>2
<1>3. f \in [T -> 0..(k - 1)]
  BY <1>1
<1>4. ASSUME NEW d \in T, NEW e \in T, f[d] = f[e] PROVE d = e
  <2>1. ts[d] \in Nat /\ ts[e] \in Nat /\ ts[d] = ts[e]
    BY <1>1, <1>2, <1>4 DEF TypeOK
  <2> QED
    BY <2>1
<1>5. f \in Injection(T, 0..(k - 1))
  BY <1>3, <1>4 DEF Injection, IsInjective
<1>6. IsFiniteSet(0..(k - 1)) /\ Cardinality(0..(k - 1)) = k
  BY FS_Interval
<1> QED
  BY <1>5, <1>6, FS_Injection

\* Once as many rows last as before or fewer, PrunedInv goes on.
LEMMA FewerLast ==
  ASSUME TypeOK, TypeOK', PrunedInv,
         \A c \in Backups : doomed'[c] # {} => run'[c] \in {"pruning", "dropping"},
         crashes' = 0 /\ faults' = 0 =>
           /\ crashes = 0 /\ faults = 0
           /\ \A b \in Backups : run[b] = "inserted" => \E c \in Backups : run'[c] = "inserted"
           /\ Lasting' \subseteq Lasting
  PROVE  PrunedInv'
<1>1. IsFiniteSet(Lasting)
  BY BackupAssumption, FS_Subset DEF Lasting, OkRows
<1>2. Cardinality(Lasting) \in Nat
  BY <1>1, FS_CardinalityType
<1>3. ASSUME Lasting' \subseteq Lasting
      PROVE  Cardinality(Lasting') \in Nat /\ Cardinality(Lasting') <= Cardinality(Lasting)
  BY <1>1, <1>3, FS_Subset, FS_CardinalityType
<1>4. Cardinality(Lasting)' = Cardinality(Lasting')
  BY DEF Lasting, OkRows
<1> QED
  BY <1>2, <1>3, <1>4, BackupAssumption DEF PrunedInv

\* Every step keeps PrunedInv.
LEMMA PrunedInvStep ==
  ASSUME TypeInv, TypeInv', PruneInv, FileInv, PrunedInv, [Next]_vars
  PROVE  PrunedInv'
<1> USE DEF TypeInv, TypeOK, Step, DeleteStep, DeleteReply, runVars, delVars
<1>1. ASSUME NEW b \in Backups, PruneQuery(b) PROVE PrunedInv'
  <2>1. /\ run[b] = "inserted" /\ run' = [run EXCEPT ![b] = "pruning"]
        /\ UNCHANGED <<row, ts, crashes, faults>>
        /\ \A c \in Backups \ {b} : doomed'[c] = doomed[c]
        /\ doomed'[b] = {d \in OkRows : Cardinality(Newer(OkRows, d)) >= Keep}
    <3> HIDE DEF Newer, OkRows
    <3>1. {d \in OkRows : Cardinality(Newer(OkRows, d)) >= Keep} \in SUBSET Backups
      BY DEF OkRows
    <3> QED
      BY <1>1, <3>1 DEF PruneQuery
  <2> DEFINE T == {d \in OkRows : Cardinality(Newer(OkRows, d)) < Keep}
  <2>2. Lasting' \subseteq T
    <3>1. \A d \in OkRows : Cardinality(Newer(OkRows, d)) \in Nat
      BY NewerGrows DEF OkRows
    <3>2. OkRows' = OkRows
      BY <2>1 DEF OkRows
    <3>3. \A d \in Lasting' : d \in OkRows /\ d \notin doomed'[b]
      BY <3>2 DEF Lasting
    <3> QED
      BY <2>1, <3>1, <3>3, BackupAssumption
  <2>3. Cardinality(T) <= Keep
    <3>1. \A c, d \in OkRows : ts[c] = ts[d] => c = d
      BY DEF OkRows, FileInv, Settled
    <3>2. OkRows \in SUBSET Backups
      BY DEF OkRows
    <3> HIDE DEF TypeInv, TypeOK
    <3> QED
      BY <3>1, <3>2, FewAreNewest, BackupAssumption DEF TypeInv
  <2>4. Cardinality(Lasting)' <= Keep
    <3>1. IsFiniteSet(T)
      BY BackupAssumption, FS_Subset DEF OkRows
    <3>2. /\ Cardinality(Lasting') <= Cardinality(T)
          /\ Cardinality(Lasting') \in Nat /\ Cardinality(T) \in Nat
      BY <2>2, <3>1, FS_Subset, FS_CardinalityType
    <3>3. Cardinality(Lasting)' = Cardinality(Lasting')
      BY DEF Lasting, OkRows
    <3> QED
      BY <2>3, <3>2, <3>3, BackupAssumption
  <2>5. \A c \in Backups : doomed'[c] # {} => run'[c] \in {"pruning", "dropping"}
    BY <2>1 DEF PrunedInv
  <2> QED
    BY <2>4, <2>5 DEF PrunedInv
<1>2. ASSUME NEW b \in Backups, Insert(b) PROVE PrunedInv'
  <2>1. run'[b] = "inserted" /\ run[b] = "copied" /\ doomed' = doomed
        /\ \A c \in Backups \ {b} : run'[c] = run[c]
    BY <1>2 DEF Insert
  <2> QED
    BY <2>1 DEF PrunedInv
<1>3. ASSUME NEW b \in Backups, Copy(b) PROVE PrunedInv'
  <2>1. /\ run[b] = "idle" /\ run'[b] = "copied" /\ \A c \in Backups \ {b} : run'[c] = run[c]
        /\ UNCHANGED <<row, doomed, crashes, faults>>
    BY <1>3 DEF Copy
  <2>2. Lasting' = Lasting
    BY <2>1 DEF Lasting, OkRows
  <2> QED
    BY <2>1, <2>2, FewerLast DEF PrunedInv
<1>4. ASSUME NEW b \in Backups, CopyFails(b) \/ InsertFails(b) PROVE PrunedInv'
  <2>1. faults' > 0 /\ doomed' = doomed /\ run[b] \in {"idle", "copied"}
        /\ \A c \in Backups \ {b} : run'[c] = run[c]
    BY <1>4 DEF CopyFails, InsertFails, Fault
  <2> QED
    BY <2>1 DEF PrunedInv
<1>5. ASSUME NEW b \in Backups, PruneUnlink(b) PROVE PrunedInv'
  <2>1. /\ run[b] = "pruning" /\ run'[b] = "dropping"
        /\ \A c \in Backups \ {b} : run'[c] = run[c]
        /\ UNCHANGED <<row, doomed, crashes>> /\ (faults' = 0 => faults = 0)
    BY <1>5 DEF PruneUnlink, Fault, NoFault
  <2>2. Lasting' = Lasting
    BY <2>1 DEF Lasting, OkRows
  <2> QED
    BY <2>1, <2>2, FewerLast DEF PrunedInv
<1>6. ASSUME NEW b \in Backups, PruneDrop(b) PROVE PrunedInv'
  <2>1. PICK d \in doomed[b] :
             /\ doomed' = [doomed EXCEPT ![b] = @ \ {d}]
             /\ \/ faults' = faults /\ row' = [row EXCEPT ![d] = "none"]
                \/ faults' = faults + 1
    <3> HIDE DEF TypeInv, TypeOK, Step
    <3> QED
      BY <1>6 DEF PruneDrop, NextDoomed, Fault, NoFault
  <2>2. /\ run[b] = "dropping" /\ run'[b] = "pruning" /\ crashes' = crashes
        /\ \A c \in Backups \ {b} : run'[c] = run[c]
    BY <1>6 DEF PruneDrop
  <2>3. faults' = 0 => Lasting' \subseteq Lasting
    BY <2>1 DEF Lasting, OkRows
  <2>4. \A c \in Backups : doomed'[c] # {} => run'[c] \in {"pruning", "dropping"}
    BY <2>1, <2>2 DEF PrunedInv
  <2> QED
    BY <2>1, <2>2, <2>3, <2>4, FewerLast
<1>7. ASSUME NEW b \in Backups, Finish(b) PROVE PrunedInv'
  <2>1. /\ run[b] \in {"pruning", "inserted"}
        /\ \A c \in Backups \ {b} : run'[c] = run[c]
        /\ run[b] = "pruning" => doomed[b] = {} /\ faults' = faults
        /\ run[b] = "inserted" => faults' > 0
        /\ UNCHANGED <<row, doomed, crashes>>
    BY <1>7 DEF Finish, Fault, NoFault
  <2>2. Lasting' = Lasting
    BY <2>1 DEF Lasting, OkRows
  <2> QED
    BY <2>1, <2>2, FewerLast DEF PrunedInv
<1>8. ASSUME UNCHANGED runVars, crashes' = crashes, faults' = 0 => faults = 0,
             \A b \in Backups : row'[b] = row[b] \/ row'[b] = "none"
      PROVE  PrunedInv'
  <2>1. Lasting' \subseteq Lasting
    BY <1>8 DEF Lasting, OkRows
  <2> QED
    BY <1>8, <2>1, FewerLast DEF PrunedInv
<1>9. ASSUME NEW r \in Deleters,
             DeleteCount(r) \/ DeleteUnlink(r) \/ DeleteDrop(r) \/ \E b \in Backups : DeleteGet(r, b)
      PROVE  PrunedInv'
  BY <1>8, <1>9 DEF DeleteCount, DeleteUnlink, DeleteDrop, DeleteGet, Fault, NoFault
<1>10. ASSUME Crash PROVE PrunedInv'
  BY <1>10 DEF Crash, PrunedInv
<1>11. ASSUME UNCHANGED vars PROVE PrunedInv'
  BY <1>8, <1>11 DEF vars
<1> QED
  BY <1>1, <1>2, <1>3, <1>4, <1>5, <1>6, <1>7, <1>9, <1>10, <1>11 DEF Next, RunStep

\* The table does not grow: however the runs, their prunes and the delete
\* requests interleave, at most Keep successful rows are left when the runs
\* have ended.
THEOREM TableIsPruned == Spec => []PrunedWhenQuiet
<1>1. Init => FileInv /\ PrunedInv
  <2>1. Init => Lasting = {}
    BY DEF Init, Lasting, OkRows
  <2> QED
    BY <2>1, FS_EmptySet, BackupAssumption DEF Init, FileInv, Settled, PrunedInv
<1>2. TypeInv /\ PruneInv /\ FileInv /\ [Next]_vars => FileInv'
  BY FileInvStep
<1>3. TypeInv /\ TypeInv' /\ PruneInv /\ FileInv /\ PrunedInv /\ [Next]_vars => PrunedInv'
  BY PrunedInvStep
<1>4. PrunedInv => PrunedWhenQuiet
  <2>1. ASSUME \A c \in Backups : doomed[c] = {} PROVE Lasting = OkRows
    BY <2>1 DEF Lasting
  <2> QED
    BY <2>1 DEF PrunedInv, PrunedWhenQuiet
<1> QED
  BY <1>1, <1>2, <1>3, <1>4, PruneInvHolds, PTL DEF Spec

=============================================================================
