-------------------------------- MODULE Accounts --------------------------------
(***************************************************************************)
(* Users, their roles and their sessions: the user and auth handlers       *)
(* (handlers/users.go, handlers/auth.go), the rows (models/user.go), the   *)
(* tokens (auth/jwt.go), the gates in front of the handlers                *)
(* (middleware/auth.go) and the first user (auth/bootstrap.go).            *)
(*                                                                         *)
(* The last administrator is protected by a count taken before the write;  *)
(* a role is carried by a token that nobody revokes.  Password hashes are  *)
(* not modelled: whether a login knows the password is its own choice.     *)
(***************************************************************************)
EXTENDS FiniteSets, Integers

CONSTANTS
  Users,        \* user ids, each used once
  Nobody,       \* the target of a handler at rest
  Handlers,     \* requests that may be served together
  TTL,          \* life of a token, in ticks; a request takes less than one
  MaxTroubles   \* bound on failing statements and restarts

Roles == {"admin", "viewer"}

VARIABLES
  up,           \* the process serves requests
  role,         \* user -> role of its row, or why it has none
  token,        \* user, role -> ticks its newest token with that role is good for
  lost,         \* history: user -> ticks since it was an administrator, capped
  pc, op,       \* handler -> where it stands, what it serves
  target,       \* handler -> the user it is about
  found,        \* handler -> the role it read of that user
  wanted,       \* handler -> the role it is to write
  raced,        \* history: requests that take an administrator away overlapped
  troubles

handler == <<pc, op, target, found, wanted>>
vars == <<up, role, token, lost, handler, raced, troubles>>

Exists(u) == role[u] \in Roles
Admins == {u \in Users : role[u] = "admin"}
Trouble == troubles < MaxTroubles /\ troubles' = troubles + 1
Goto(h, from, to) == pc[h] = from /\ pc' = [pc EXCEPT ![h] = to]

Idle(h) ==
  /\ pc' = [pc EXCEPT ![h] = "idle"] /\ op' = [op EXCEPT ![h] = "none"]
  /\ target' = [target EXCEPT ![h] = Nobody]
  /\ found' = [found EXCEPT ![h] = "none"] /\ wanted' = [wanted EXCEPT ![h] = "none"]

Init ==
  /\ up = FALSE
  /\ role = [u \in Users |-> "unborn"]
  /\ token = [u \in Users |-> [r \in Roles |-> 0]]
  /\ lost = [u \in Users |-> TTL + 1]
  /\ pc = [h \in Handlers |-> "idle"] /\ op = [h \in Handlers |-> "none"]
  /\ target = [h \in Handlers |-> Nobody]
  /\ found = [h \in Handlers |-> "none"] /\ wanted = [h \in Handlers |-> "none"]
  /\ raced = FALSE /\ troubles = 0

\* Who stops being an administrator starts to count.
Became(u, r) ==
  /\ role' = [role EXCEPT ![u] = r]
  /\ lost' = IF r = "admin" \/ role[u] = "admin" THEN [lost EXCEPT ![u] = 0] ELSE lost

-----------------------------------------------------------------------------
(* The process and the clock.                                              *)

\* EnsureAdmin: only an empty table gets its first administrator.
EnsureAdmin(u) ==
  IF \E v \in Users : Exists(v) THEN UNCHANGED <<role, lost>>
  ELSE role[u] = "unborn" /\ Became(u, "admin")

Boot(u) ==
  /\ ~up /\ up' = TRUE
  /\ EnsureAdmin(u)
  /\ UNCHANGED <<token, handler, raced, troubles>>

Stop ==
  /\ up /\ Trouble /\ up' = FALSE
  /\ pc' = [h \in Handlers |-> "idle"] /\ op' = [h \in Handlers |-> "none"]
  /\ target' = [h \in Handlers |-> Nobody]
  /\ found' = [h \in Handlers |-> "none"] /\ wanted' = [h \in Handlers |-> "none"]
  /\ UNCHANGED <<role, token, lost, raced>>

Tick ==
  /\ \A h \in Handlers : op[h] \in {"none", "patch", "delete"}
  /\ token' = [u \in Users |-> [r \in Roles |-> IF token[u][r] > 0 THEN token[u][r] - 1 ELSE 0]]
  /\ lost' = [u \in Users |-> IF role[u] # "admin" /\ lost[u] <= TTL THEN lost[u] + 1 ELSE lost[u]]
  /\ UNCHANGED <<up, role, handler, raced, troubles>>

-----------------------------------------------------------------------------
(* Sessions.                                                               *)

\* auth.Issue: the claims are good for TTL, whatever becomes of the row.
Issue(u, r) == token' = [token EXCEPT ![u][r] = TTL]

\* auth.Parse: the claims of a token that has not run out.
Parse(u, r) == token[u][r] > 0

\* RequireAuth: any token of the user; RequireRole: the role is the token's.
RequireAuth(u) == \E r \in Roles : Parse(u, r)
RequireRole(u, r) == Parse(u, r)

\* login: the row and its hash are read, the password is then verified ...
BeginLogin(h, u) ==
  /\ up /\ Exists(u) /\ Goto(h, "idle", "verifying")
  /\ op' = [op EXCEPT ![h] = "login"] /\ target' = [target EXCEPT ![h] = u]
  /\ found' = [found EXCEPT ![h] = role[u]]
  /\ UNCHANGED <<up, role, token, lost, wanted, raced, troubles>>

\* ... and a token issued for the role that was read.
Login(h) ==
  /\ op[h] = "login"
  /\ Issue(target[h], found[h]) \/ UNCHANGED token
  /\ Idle(h)
  /\ UNCHANGED <<up, role, lost, raced, troubles>>

\* Slip: the new token repeats the claims of the old one.
RefreshClaims(h, u) ==
  /\ up /\ pc[h] = "idle" /\ RequireAuth(u) /\ Exists(u)
  /\ pc' = [pc EXCEPT ![h] = "verifying"]
  /\ op' = [op EXCEPT ![h] = "refresh"] /\ target' = [target EXCEPT ![h] = u]
  /\ \E r \in Roles : token[u][r] > 0 /\ found' = [found EXCEPT ![h] = r]
  /\ UNCHANGED <<up, role, token, lost, wanted, raced, troubles>>

\* refresh: any good token, but the role is read again; a user that is gone
\* gets none.
BeginRefresh(h, u) ==
  /\ up /\ RequireAuth(u) /\ Exists(u) /\ Goto(h, "idle", "verifying")
  /\ op' = [op EXCEPT ![h] = "refresh"] /\ target' = [target EXCEPT ![h] = u]
  /\ found' = [found EXCEPT ![h] = role[u]]
  /\ UNCHANGED <<up, role, token, lost, wanted, raced, troubles>>

Refresh(h) ==
  /\ op[h] = "refresh"
  /\ Issue(target[h], found[h]) /\ Idle(h)
  /\ UNCHANGED <<up, role, lost, raced, troubles>>

-----------------------------------------------------------------------------
(* The administrator's handlers.                                           *)

\* UserRepo.Create knows two roles; CountByRole; UpdateRole; Delete.
Insert(u, r) == role[u] = "unborn" /\ r \in Roles /\ Became(u, r)
CountByRole(r) == Cardinality({u \in Users : role[u] = r})
UpdateRole(u, r) == IF Exists(u) THEN Became(u, r) ELSE UNCHANGED <<role, lost>>
Delete(u) == IF Exists(u) THEN Became(u, "gone") ELSE UNCHANGED <<role, lost>>

\* create
Create(actor, u, r) ==
  /\ up /\ RequireRole(actor, "admin")
  /\ Insert(u, r)
  /\ UNCHANGED <<up, token, handler, raced, troubles>>

\* A request that takes an administrator away, if its target is one.
Removes(what, r) == what = "delete" \/ r = "viewer"
Removing == {h \in Handlers : op[h] # "none" /\ Removes(op[h], wanted[h])}

\* patch, delete: the target is read once.
Begin(h, actor, what, u, r) ==
  /\ up /\ RequireRole(actor, "admin") /\ Exists(u)
  /\ Goto(h, "idle", "looked")
  /\ op' = [op EXCEPT ![h] = what]
  /\ target' = [target EXCEPT ![h] = u]
  /\ found' = [found EXCEPT ![h] = role[u]]
  /\ wanted' = [wanted EXCEPT ![h] = r]
  /\ raced' = (raced \/ (Removing # {} /\ Removes(what, r)))
  /\ UNCHANGED <<up, role, token, lost, troubles>>

\* A patch of the password alone ("none") writes no role.
BeginPatch(h, actor, u, r) == Begin(h, actor, "patch", u, r)

\* Who asks must not delete himself.
BeginDelete(h, actor, u) == actor # u /\ Begin(h, actor, "delete", u, "none")

\* Slip: the last administrator may go.
GuardOff(h) == TRUE

\* The guard of both: an administrator may go while there are two.
Guard(h) ==
  found[h] = "admin" /\ Removes(op[h], wanted[h]) => CountByRole("admin") > 1

Judge(h) ==
  /\ pc[h] = "looked"
  /\ \/ Guard(h) /\ pc' = [pc EXCEPT ![h] = "judged"] /\ UNCHANGED <<op, target, found, wanted>>
     \/ ~Guard(h) /\ Idle(h)
  /\ UNCHANGED <<up, role, token, lost, raced, troubles>>

\* patch: the role, if one was sent; the hash of the password comes after.
WriteRole(h) ==
  /\ op[h] = "patch" /\ Goto(h, "judged", "roled")
  /\ \/ /\ UNCHANGED troubles
        /\ IF wanted[h] = "none" THEN UNCHANGED <<role, lost>>
           ELSE UpdateRole(target[h], wanted[h])
     \/ Trouble /\ UNCHANGED <<role, lost>>
  /\ UNCHANGED <<up, token, op, target, found, wanted, raced>>

\* UpdatePassword and the reload: nothing the model keeps changes.
EndPatch(h) ==
  /\ op[h] = "patch" /\ pc[h] = "roled" /\ Idle(h)
  /\ UNCHANGED <<up, role, token, lost, raced, troubles>>

EndDelete(h) ==
  /\ op[h] = "delete" /\ pc[h] = "judged" /\ Idle(h)
  /\ \/ Delete(target[h]) /\ UNCHANGED troubles
     \/ Trouble /\ UNCHANGED <<role, lost>>
  /\ UNCHANGED <<up, token, raced>>

Next ==
  \/ \E u \in Users : Boot(u)
  \/ Stop \/ Tick
  \/ \E h \in Handlers, u \in Users : BeginLogin(h, u) \/ BeginRefresh(h, u)
  \/ \E actor \in Users, u \in Users, r \in Roles : Create(actor, u, r)
  \/ \E h \in Handlers, actor \in Users, u \in Users :
       \/ \E r \in Roles \union {"none"} : BeginPatch(h, actor, u, r)
       \/ BeginDelete(h, actor, u)
  \/ \E h \in Handlers :
       Login(h) \/ Refresh(h) \/ Judge(h) \/ WriteRole(h) \/ EndPatch(h) \/ EndDelete(h)

Spec == Init /\ [][Next]_vars

-----------------------------------------------------------------------------
(* Properties.                                                             *)

\* Every variable has its type.
TypeOK ==
  /\ up \in BOOLEAN /\ raced \in BOOLEAN /\ troubles \in 0..MaxTroubles
  /\ role \in [Users -> Roles \union {"unborn", "gone"}]
  /\ token \in [Users -> [Roles -> 0..TTL]] /\ lost \in [Users -> 0..TTL + 1]
  /\ pc \in [Handlers -> {"idle", "verifying", "looked", "judged", "roled"}]
  /\ op \in [Handlers -> {"none", "login", "refresh", "patch", "delete"}]
  /\ \A h \in Handlers : target[h] = Nobody <=> pc[h] = "idle"
  /\ found \in [Handlers -> Roles \union {"none"}]
  /\ wanted \in [Handlers -> Roles \union {"none"}]

\* users.go: "Refuse to demote the last admin."  While the process serves
\* there is an administrator, through restarts, failing statements and every
\* order of demotions, deletions and promotions of which no two that take an
\* administrator away overlapped.
AdminUnlessRaced == up /\ ~raced => Admins # {}

\* The same, whatever overlaps: the count is stale when the write comes.
AlwaysAnAdmin == up => Admins # {}

\* Nobody revokes a token, and every request is judged by the token's role: a
\* user who is an administrator no more is served as one until the token it
\* got as one has run out, but never longer, however often it refreshes.
RightsRunOut ==
  \A u \in Users :
    RequireRole(u, "admin") /\ role[u] # "admin" => lost[u] + token[u]["admin"] <= TTL

\* The two together, of states that have their types.
RightsAreKept == TypeOK /\ AdminUnlessRaced /\ RightsRunOut

=============================================================================
