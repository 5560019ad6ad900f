---------------------------- MODULE ServerRegistry ----------------------------
(***************************************************************************)
(* The servers and those who write them: the registry's handlers           *)
(* (handlers/servers.go) and repository (models/server.go), beside the     *)
(* monitoring pipeline that writes the status and what it has detected.    *)
(* An edit reads the row in one statement and writes every editable column *)
(* in another; the audit event follows as a third.                         *)
(***************************************************************************)
EXTENDS Naturals

CONSTANTS
  Servers,      \* server ids, each used once
  Names,        \* what a server may be called
  Handlers,     \* requests that may be served together
  NoRow,        \* no server: not created yet, or deleted
  MaxTroubles   \* bound on failing statements and restarts

VARIABLES
  row,          \* server -> its columns
  unborn,       \* server ids not used yet
  pc, op, id,   \* handler -> where it stands, what it serves, for which server
  copy,         \* handler -> the server as it read it, with its own changes
  fresh,        \* handler -> nobody wrote an editable column since it was read
  audits,       \* server -> how many events tell of its creation, its deletion
  meant,        \* history: server -> its columns by the last answers that named them
  seen,         \* history: server -> the status the monitoring stored last
  blurred,      \* history: servers a stale copy was written to, or of which a
                \* write was not answered
  troubles

handler == <<pc, op, id, copy, fresh>>
history == <<meant, seen, blurred>>
vars == <<row, unborn, handler, audits, history, troubles>>

\* name is the unique column; password stands for the credential, system for
\* what is detected, and either for the columns that are edited like it.
Editable == [name : Names, password : BOOLEAN, system : BOOLEAN]
Statuses == {"unknown", "online"}
Columns == [name : Names, password : BOOLEAN, system : BOOLEAN, status : Statuses]

Exists(s) == row[s] # NoRow
Trouble == troubles < MaxTroubles /\ troubles' = troubles + 1
Goto(h, from, to) == pc[h] = from /\ pc' = [pc EXCEPT ![h] = to]

Idle(h) ==
  /\ pc' = [pc EXCEPT ![h] = "idle"] /\ op' = [op EXCEPT ![h] = "none"]
  /\ id' = [id EXCEPT ![h] = NoRow] /\ copy' = [copy EXCEPT ![h] = NoRow]

Init ==
  /\ row = [s \in Servers |-> NoRow] /\ unborn = Servers
  /\ pc = [h \in Handlers |-> "idle"] /\ op = [h \in Handlers |-> "none"]
  /\ id = [h \in Handlers |-> NoRow] /\ copy = [h \in Handlers |-> NoRow]
  /\ fresh = [h \in Handlers |-> TRUE]
  /\ audits = [s \in Servers |-> [create |-> 0, delete |-> 0]]
  /\ meant = [s \in Servers |-> NoRow] /\ seen = [s \in Servers |-> "unknown"]
  /\ blurred = {} /\ troubles = 0

-----------------------------------------------------------------------------
(* The repository.                                                         *)

\* The unique index on name: Create and Update answer ErrServerDuplicateName.
NameFree(s, name) == \A t \in Servers \ {s} : Exists(t) => row[t].name # name

\* Server.Validate, NormalizeServerTags: by now the columns are in range.
Validate(new) == new \in Columns

Stale(s, g) == fresh' = [h \in Handlers |-> IF h = g THEN TRUE
                                            ELSE fresh[h] /\ id[h] # s]

\* ServerRepo.Create: the row and its tags in one transaction.
Insert(s, new) ==
  /\ s \in unborn /\ NameFree(s, new.name)
  /\ row' = [row EXCEPT ![s] = new] /\ unborn' = unborn \ {s}

\* Slip: every column of the copy is written.
UpdateEvery(s, new) ==
  /\ Exists(s) /\ NameFree(s, new.name) /\ row' = [row EXCEPT ![s] = new]

\* ServerRepo.Update: the editable columns and the tags, in one transaction;
\* the status and last_seen_at are not among them.
Update(s, new) ==
  /\ Exists(s) /\ NameFree(s, new.name)
  /\ row' = [row EXCEPT ![s] = [new EXCEPT !.status = row[s].status]]

\* Slip: the rows that were deleted are not counted.
EraseAnyway(s) == row' = [row EXCEPT ![s] = NoRow]

\* ServerRepo.Delete: ErrServerNotFound if it is gone already.
Erase(s) == Exists(s) /\ row' = [row EXCEPT ![s] = NoRow]

\* ServerRepo.Get: ErrServerNotFound, or the row with its tags.
Read(s) == row[s]

\* ServerRepo.SetStatus, for the monitoring and for the test of a server.
SetStatus(s, status) ==
  /\ Exists(s) /\ row' = [row EXCEPT ![s].status = status]
  /\ seen' = [seen EXCEPT ![s] = status]
  /\ UNCHANGED <<unborn, handler, audits, meant, blurred, troubles>>

\* ServerRepo.UpdateSystemInfo: that column alone, after the first metrics.
UpdateSystemInfo(s) ==
  /\ Exists(s) /\ row' = [row EXCEPT ![s].system = TRUE] /\ Stale(s, "none")
  /\ meant' = [meant EXCEPT ![s].system = TRUE]
  /\ UNCHANGED <<unborn, pc, op, id, copy, audits, seen, blurred, troubles>>

-----------------------------------------------------------------------------
(* The handlers.                                                           *)

\* serverDTO.toServer: every column of the body, the password as well, be it
\* left out.
ToServer(body) == [name |-> body.name, password |-> body.password,
                   system |-> body.system, status |-> "unknown"]

\* Slip: the password the body leaves out is cleared.
ApplyClears(server, column, body) ==
  [server EXCEPT ![column] = body[column], !.password = column = "password" /\ body.password]

\* serverPatchDTO.apply: the column the body has; an empty password is passed over.
Apply(server, column, body) ==
  [server EXCEPT ![column] = IF column = "password" THEN @ \/ body.password
                             ELSE body[column]]

\* create, up to the committed row ...
Create(h, s, body) ==
  LET new == ToServer(body)
  IN  /\ pc[h] = "idle" /\ Validate(new) /\ Insert(s, new)
      /\ meant' = [meant EXCEPT ![s] = new]
      /\ \/ /\ pc' = [pc EXCEPT ![h] = "audit"] /\ op' = [op EXCEPT ![h] = "create"]
            /\ id' = [id EXCEPT ![h] = s] /\ UNCHANGED <<copy, blurred, troubles>>
         \* ... where the Get that follows fails: an error, and the name is taken.
         \/ Trouble /\ blurred' = blurred \union {s} /\ UNCHANGED <<pc, op, id, copy>>
      /\ UNCHANGED <<fresh, audits, seen>>

\* put, patch and delete read the row first.  A patch is named by the column
\* its body has.
Get(h, what, s) ==
  /\ Exists(s) /\ Goto(h, "idle", "read")
  /\ op' = [op EXCEPT ![h] = what] /\ id' = [id EXCEPT ![h] = s]
  /\ copy' = [copy EXCEPT ![h] = Read(s)] /\ fresh' = [fresh EXCEPT ![h] = TRUE]
  /\ UNCHANGED <<row, unborn, audits, history, troubles>>

Edit(h, new) ==
  /\ Goto(h, "read", "edited") /\ Validate(new)
  /\ copy' = [copy EXCEPT ![h] = new]
  /\ UNCHANGED <<row, unborn, op, id, fresh, audits, history, troubles>>

\* put: the body's columns, and the status that was read.
Put(h, body) ==
  op[h] = "put" /\ Edit(h, [ToServer(body) EXCEPT !.status = copy[h].status])

Patch(h, body) ==
  op[h] \in {"name", "password", "system"} /\ Edit(h, Apply(copy[h], op[h], body))

\* The body is refused, the name is taken, the row is gone, a statement fails.
Refuse(h) ==
  /\ pc[h] \in {"read", "edited"} /\ Idle(h)
  /\ \/ pc[h] = "read" /\ UNCHANGED troubles
     \/ pc[h] = "edited" /\ ~(Exists(id[h]) /\ NameFree(id[h], copy[h].name))
        /\ UNCHANGED troubles
     \/ Trouble
  /\ fresh' = [fresh EXCEPT ![h] = TRUE]
  /\ UNCHANGED <<row, unborn, audits, history>>

\* Update is committed; its Get may fail, and the answer is then an error.
Store(h) ==
  LET s == id[h]
      named == IF op[h] = "put" THEN copy[h]
               ELSE [meant[s] EXCEPT ![op[h]] = copy[h][op[h]]]
  IN  /\ pc[h] = "edited" /\ Update(s, copy[h]) /\ Stale(s, h)
      /\ meant' = [meant EXCEPT ![s] = [named EXCEPT !.status = "unknown"]]
      /\ \/ /\ pc' = [pc EXCEPT ![h] = "audit"] /\ op' = [op EXCEPT ![h] = "update"]
            /\ copy' = [copy EXCEPT ![h] = NoRow]
            /\ blurred' = IF fresh[h] THEN blurred ELSE blurred \union {s}
            /\ UNCHANGED <<id, troubles>>
         \/ Trouble /\ Idle(h) /\ blurred' = blurred \union {s}
      /\ UNCHANGED <<unborn, audits, seen>>

\* delete, after the look-up that is for the audit event.
Delete(h) ==
  /\ op[h] = "delete" /\ Goto(h, "read", "audit")
  /\ Erase(id[h]) /\ Stale(id[h], h)
  /\ meant' = [meant EXCEPT ![id[h]] = NoRow]
  /\ copy' = [copy EXCEPT ![h] = NoRow]
  /\ UNCHANGED <<unborn, op, id, audits, seen, blurred, troubles>>

\* auditServerChange: a failing Append is ignored.  The events of updates are
\* not counted.
Audit(h) ==
  /\ pc[h] = "audit" /\ Idle(h)
  /\ \/ /\ audits' = IF op[h] = "update" THEN audits
                       ELSE [audits EXCEPT ![id[h]][op[h]] = @ + 1]
        /\ UNCHANGED troubles
     \/ Trouble /\ UNCHANGED audits
  /\ UNCHANGED <<row, unborn, fresh, history>>

\* The process ends and starts: what was served is not answered.
Restart ==
  /\ Trouble
  /\ pc' = [h \in Handlers |-> "idle"] /\ op' = [h \in Handlers |-> "none"]
  /\ id' = [h \in Handlers |-> NoRow] /\ copy' = [h \in Handlers |-> NoRow]
  /\ fresh' = [h \in Handlers |-> TRUE]
  /\ UNCHANGED <<row, unborn, audits, history>>

Next ==
  \/ Restart
  \/ \E s \in Servers : \/ UpdateSystemInfo(s)
                        \/ \E status \in Statuses : SetStatus(s, status)
  \/ \E h \in Handlers :
       \/ \E s \in Servers, body \in Editable : Create(h, s, body)
       \/ \E s \in Servers, what \in {"put", "name", "password", "system", "delete"} :
            Get(h, what, s)
       \/ \E body \in Editable : Put(h, body) \/ Patch(h, body)
       \/ Refuse(h) \/ Store(h) \/ Delete(h) \/ Audit(h)

Spec == Init /\ [][Next]_vars

-----------------------------------------------------------------------------
(* Properties.                                                             *)

\* Every variable has its type.
TypeOK ==
  /\ row \in [Servers -> Columns \union {NoRow}] /\ unborn \subseteq Servers
  /\ pc \in [Handlers -> {"idle", "read", "edited", "audit"}]
  /\ \A h \in Handlers : /\ id[h] = NoRow <=> pc[h] = "idle"
                         /\ copy[h] = NoRow <=> pc[h] \in {"idle", "audit"}
                         /\ op[h] = "none" <=> pc[h] = "idle"
  /\ fresh \in [Handlers -> BOOLEAN]
  /\ audits \in [Servers -> [create : Nat, delete : Nat]]
  /\ meant \in [Servers -> Columns \union {NoRow}]
  /\ seen \in [Servers -> Statuses]
  /\ blurred \subseteq Servers /\ troubles \in 0..MaxTroubles

\* The status is the one the monitoring stored last, however an edit that read
\* the row before overlaps it: status and last_seen_at "are owned by the
\* monitoring pipeline".
StatusIsMonitored ==
  \A s \in Servers : Exists(s) => row[s].status = seen[s]

\* Every other column is what it was last edited to, or detected as, until a
\* copy read before somebody else's write is written or a write is not
\* answered.  A patch without a password keeps the password.
EditsStand ==
  \A s \in Servers \ blurred :
    IF Exists(s) THEN \A c \in {"name", "password", "system"} : row[s][c] = meant[s][c]
    ELSE meant[s] = NoRow

\* Of two that delete one server together one alone succeeds: its deletion is
\* told once, when the server is gone, and its creation once.
ToldOnce ==
  \A s \in Servers : /\ audits[s].create <= 1 /\ audits[s].delete <= 1
                     /\ audits[s].delete = 1 => ~Exists(s)
                     /\ s \in unborn => audits[s].create = 0

=============================================================================
