------------------------------ MODULE ProjectRows ------------------------------
(***************************************************************************)
(* The projects and those who write them: the project handlers             *)
(* (handlers/projects.go), the repository (models/project.go) and its      *)
(* validation (models/project_validate.go).  A write replaces every column *)
(* of the row by those of a copy that was read in a statement of its own.  *)
(***************************************************************************)
EXTENDS Naturals

CONSTANTS
  Projects,     \* project ids, each used once
  Names,        \* what a project may be called
  Handlers,     \* requests that may be served together
  NoRow,        \* no project: not created yet, or deleted
  MaxSecrets,   \* bound on the secrets that are ever generated
  MaxTroubles   \* bound on failing statements and lost requests

VARIABLES
  row,          \* project -> its columns
  unborn,       \* project ids not used yet
  pc, op, id,   \* handler -> where it stands, what it serves, for which project
  copy,         \* handler -> the project as it read it, with its own changes
  fresh,        \* handler -> nobody wrote the row since it was read
  secrets,      \* secrets generated so far
  meant,        \* history: project -> its columns by the last answers that named them
  blurred,      \* history: projects a stale copy was written to, or of which a
                \* write was answered with an error all the same
  troubles

handler == <<pc, op, id, copy, fresh>>
history == <<meant, blurred>>
vars == <<row, unborn, handler, secrets, history, troubles>>

\* name is the unique column, deploy stands for the others, say
\* deploy_enabled with its deploy_command; secret is webhook_secret, 0 unset.
Columns == [name : Names, deploy : BOOLEAN, secret : 0..MaxSecrets]

Exists(p) == row[p] # NoRow
Trouble == troubles < MaxTroubles /\ troubles' = troubles + 1
Goto(h, from, to) == pc[h] = from /\ pc' = [pc EXCEPT ![h] = to]

Idle(h) ==
  /\ pc' = [pc EXCEPT ![h] = "idle"] /\ op' = [op EXCEPT ![h] = "none"]
  /\ id' = [id EXCEPT ![h] = NoRow] /\ copy' = [copy EXCEPT ![h] = NoRow]

Init ==
  /\ row = [p \in Projects |-> NoRow] /\ unborn = Projects
  /\ pc = [h \in Handlers |-> "idle"] /\ op = [h \in Handlers |-> "none"]
  /\ id = [h \in Handlers |-> NoRow] /\ copy = [h \in Handlers |-> NoRow]
  /\ fresh = [h \in Handlers |-> TRUE]
  /\ secrets = 0 /\ troubles = 0
  /\ meant = [p \in Projects |-> NoRow] /\ blurred = {}

-----------------------------------------------------------------------------
(* The repository.                                                         *)

\* The unique index on name: Create and Update answer ErrDuplicateName.
NameFree(p, name) == \A q \in Projects \ {p} : Exists(q) => row[q].name # name

\* Project.Validate: nothing deploys without a command, which deploy stands for.
Validate(new) == new \in Columns

Written(p, new, g) ==
  /\ row' = [row EXCEPT ![p] = new]
  /\ fresh' = [h \in Handlers |->
                 IF h = g \/ id[h] = NoRow THEN TRUE ELSE fresh[h] /\ id[h] # p]

\* ProjectRepo.Create, and the history it starts.
Insert(p, new, g) ==
  /\ p \in unborn /\ NameFree(p, new.name)
  /\ Written(p, new, g)
  /\ unborn' = unborn \ {p}
  /\ meant' = [meant EXCEPT ![p] = new]

\* ProjectRepo.Update: every column, whatever the row has become.
Update(p, new, g) == Exists(p) /\ NameFree(p, new.name) /\ Written(p, new, g)

\* Slip: the row stays, without a name.
EraseSoft(p, g) == Exists(p) /\ Written(p, [row[p] EXCEPT !.name = ""], g)

\* ProjectRepo.Delete: ErrNotFound if it is gone already.
Erase(p, g) == Exists(p) /\ Written(p, NoRow, g)

-----------------------------------------------------------------------------
(* The handlers.                                                           *)

\* toProject: a whole project but for the secret; apply: one column changed.
ToProject == {new \in Columns : new.secret = 0}
Apply(p, column) == {new \in Columns : \A c \in DOMAIN p \ {column} : new[c] = p[c]}

\* create, and adoptOne of the discovery handlers.
Create(p, new) ==
  /\ new \in ToProject /\ Validate(new)
  /\ Insert(p, new, "none")
  /\ UNCHANGED <<pc, op, id, copy, secrets, blurred, troubles>>

\* Create ends with a Get, too: where that fails the answer is an error, and the row
\* is there.
CreateLost(p, new) ==
  /\ new \in ToProject /\ Validate(new) /\ Trouble
  /\ Insert(p, new, "none")
  /\ blurred' = blurred \union {p}
  /\ UNCHANGED <<pc, op, id, copy, secrets>>

\* put, patch and regenerateWebhookSecret read the row first.  What a handler
\* serves is named by the columns it is about: all, or one.
Get(h, what, p) ==
  /\ Exists(p) /\ Goto(h, "idle", "read")
  /\ op' = [op EXCEPT ![h] = what] /\ id' = [id EXCEPT ![h] = p]
  /\ copy' = [copy EXCEPT ![h] = row[p]] /\ fresh' = [fresh EXCEPT ![h] = TRUE]
  /\ UNCHANGED <<row, unborn, secrets, history, troubles>>

\* Slip: what the body leaves out is cleared, the secret with it.
PutPlain(h, new) ==
  /\ op[h] = "put" /\ Goto(h, "read", "edited") /\ new \in ToProject
  /\ copy' = [copy EXCEPT ![h] = new]
  /\ UNCHANGED <<row, unborn, op, id, fresh, secrets, history, troubles>>

\* put: every column is the body's, but the secret the copy's.
Put(h, new) ==
  /\ op[h] = "put" /\ Goto(h, "read", "edited")
  /\ new \in ToProject /\ Validate(new)
  /\ copy' = [copy EXCEPT ![h] = [new EXCEPT !.secret = copy[h].secret]]
  /\ UNCHANGED <<row, unborn, op, id, fresh, secrets, history, troubles>>

\* patch: the column the body has.
Patch(h, new) ==
  /\ op[h] \in {"name", "deploy"} /\ Goto(h, "read", "edited")
  /\ new \in Apply(copy[h], op[h]) /\ Validate(new)
  /\ copy' = [copy EXCEPT ![h] = new]
  /\ UNCHANGED <<row, unborn, op, id, fresh, secrets, history, troubles>>

\* regenerateWebhookSecret
Generate(h) ==
  /\ op[h] = "secret" /\ Goto(h, "read", "edited") /\ secrets < MaxSecrets
  /\ secrets' = secrets + 1
  /\ copy' = [copy EXCEPT ![h].secret = secrets + 1]
  /\ UNCHANGED <<row, unborn, op, id, fresh, history, troubles>>

\* The body is refused, the name is taken, the row is gone, the UPDATE fails.
Refuse(h) ==
  /\ pc[h] \in {"read", "edited"}
  /\ \/ pc[h] = "read" /\ UNCHANGED troubles
     \/ /\ pc[h] = "edited" /\ UNCHANGED troubles
        /\ ~(Exists(id[h]) /\ NameFree(id[h], copy[h].name))
     \/ Trouble
  /\ Idle(h)
  /\ fresh' = [fresh EXCEPT ![h] = TRUE]
  /\ UNCHANGED <<row, unborn, secrets, history>>

\* Update, and the answer.
Answer(h) ==
  LET p == id[h]
  IN  /\ pc[h] = "edited" /\ Update(p, copy[h], h) /\ Idle(h)
      /\ meant' = [meant EXCEPT ![p] =
                     IF op[h] = "put" THEN [copy[h] EXCEPT !.secret = meant[p].secret]
                     ELSE [meant[p] EXCEPT ![op[h]] = copy[h][op[h]]]]
      /\ blurred' = IF fresh[h] THEN blurred ELSE blurred \union {p}
      /\ UNCHANGED <<unborn, secrets, troubles>>

\* Update ends with a Get: where that fails the answer is an error, a new
\* secret is never shown, and the row is written.
AnswerLost(h) ==
  /\ pc[h] = "edited" /\ Trouble /\ Update(id[h], copy[h], h) /\ Idle(h)
  /\ blurred' = blurred \union {id[h]}
  /\ UNCHANGED <<unborn, secrets, meant>>

\* delete
Delete(p) ==
  /\ Erase(p, "none")
  /\ meant' = [meant EXCEPT ![p] = NoRow]
  /\ UNCHANGED <<unborn, pc, op, id, copy, secrets, blurred, troubles>>

Next ==
  \/ \E p \in Projects : Delete(p) \/ \E new \in Columns : Create(p, new) \/ CreateLost(p, new)
  \/ \E h \in Handlers :
       \/ \E p \in Projects, what \in {"put", "name", "deploy", "secret"} :
            Get(h, what, p)
       \/ \E new \in Columns : Put(h, new) \/ Patch(h, new)
       \/ Generate(h) \/ Refuse(h) \/ Answer(h) \/ AnswerLost(h)

Spec == Init /\ [][Next]_vars

-----------------------------------------------------------------------------
(* Properties.                                                             *)

\* Every variable has its type.
TypeOK ==
  /\ row \in [Projects -> Columns \union {NoRow}] /\ unborn \subseteq Projects
  /\ pc \in [Handlers -> {"idle", "read", "edited"}]
  /\ op \in [Handlers -> {"none", "put", "name", "deploy", "secret"}]
  /\ \A h \in Handlers : /\ id[h] = NoRow <=> pc[h] = "idle"
                         /\ copy[h] = NoRow <=> pc[h] = "idle"
  /\ fresh \in [Handlers -> BOOLEAN]
  /\ secrets \in 0..MaxSecrets
  /\ meant \in [Projects -> Columns \union {NoRow}]
  /\ blurred \subseteq Projects /\ troubles \in 0..MaxTroubles

\* A row is what its edits were answered with, column by column, whatever was
\* refused, failed or overlapped, until a copy read before somebody else's
\* write is written or the read that follows a write fails.
EditsStand == \A p \in Projects \ blurred : row[p] = meant[p]

\* projects.go: "Preserve the existing webhook secret across PUTs (the
\* regenerate endpoint is the only place it can be set)".  The secret that was
\* shown last, exactly once, is the one webhooks are checked against.
ShownSecretWorks ==
  \A p \in Projects : Exists(p) => row[p].secret = meant[p].secret

=============================================================================
