---------------------------- MODULE AccessProofs ----------------------------
(* Theorems about what gives access to other machines, for any number of   *)
(* users, hosts, keys, tunnels and requests: each part on its own, then    *)
(* the same of the composition the runs check.                             *)
EXTENDS MCServers, Sequences, SequenceTheorems, FiniteSetTheorems, TLAPS

\* Finitely many users, none of them the mark of a handler at rest.
Bounded ==
  /\ IsFiniteSet(Users) /\ Nobody \notin Users
  /\ TTL \in Nat /\ MaxTroubles \in Nat

-----------------------------------------------------------------------------
\* What a request is about fits where it stands.
RequestFits ==
  /\ target \in [Handlers -> Users \union {Nobody}]
  /\ \A h \in Handlers :
       /\ op[h] = "none" <=> pc[h] = "idle"
       /\ op[h] \in {"login", "refresh"} <=> pc[h] = "verifying"
       /\ op[h] \in {"none", "login", "refresh"} => wanted[h] = "none"
       /\ pc[h] # "idle" => target[h] \in Users /\ found[h] \in Roles

TypeInv == TypeOK /\ RequestFits

\* A token an administrator got runs out in time, and one that is about to be
\* issued for a role that is gone is issued before the clock moves.
TokensRunOut ==
  /\ \A u \in Users : role[u] # "admin" =>
       token[u]["admin"] = 0 \/ lost[u] + token[u]["admin"] <= TTL
  /\ \A h \in Handlers :
       op[h] \in {"login", "refresh"} /\ found[h] = "admin" /\ role[target[h]] # "admin" =>
         lost[target[h]] = 0

\* A request that takes an administrator away and has passed the guard, or
\* that the guard will let pass, leaves another one.
Passed(h) ==
  /\ op[h] # "none" /\ Removes(op[h], wanted[h])
  /\ pc[h] = "judged" \/ (pc[h] = "looked" /\ found[h] # "admin")

LeavesAnother(h) == \E a \in Users : role[a] = "admin" /\ a # target[h]

\* What holds until two of them overlap.
Unraced ==
  /\ up \/ (\E u \in Users : Exists(u)) => \E a \in Users : role[a] = "admin"
  /\ \A g, h \in Removing : g = h
  /\ \A h \in Handlers : Passed(h) => LeavesAnother(h)

AccountInv == TypeInv /\ TokensRunOut /\ (~raced => Unraced)

-----------------------------------------------------------------------------
\* A change of a role keeps the types.
LEMMA BecameTypes ==
  ASSUME Bounded, TypeOK, NEW u \in Users, NEW r \in Roles \union {"gone"}, Became(u, r)
  PROVE  role' \in [Users -> Roles \union {"unborn", "gone"}] /\ lost' \in [Users -> 0..TTL + 1]
BY DEF Bounded, TypeOK, Became

\* ... and never leaves a token longer than it has to run: who is an
\* administrator no more starts to count, and nobody else's count changes.
LEMMA BecameCounts ==
  ASSUME Bounded, TypeOK, NEW u \in Users, NEW r \in Roles \union {"gone"}, Became(u, r)
  PROVE  \A v \in Users : role'[v] # "admin" =>
           lost'[v] = 0 \/ (role[v] # "admin" /\ lost'[v] = lost[v])
BY DEF Bounded, TypeOK, Became

\* The count sees a second administrator.
LEMMA CountSeesTwo ==
  ASSUME Bounded, NEW u, CountByRole("admin") > 1
  PROVE  \E a \in Users : role[a] = "admin" /\ a # u
<1> DEFINE A == {v \in Users : role[v] = "admin"}
<1>1. IsFiniteSet(A) /\ Cardinality(A) \in Nat
  BY FS_Subset, FS_CardinalityType DEF Bounded
<1>2. IsFiniteSet(A \ {u}) /\ Cardinality(A \ {u}) >= Cardinality(A) - 1
  BY <1>1, FS_RemoveElement
<1>3. Cardinality(A) > 1
  BY DEF CountByRole
<1>4. A \ {u} # {}
  <2>1. Cardinality(A \ {u}) # 0
    BY <1>1, <1>2, <1>3
  <2> QED
    BY <2>1, FS_EmptySet
<1> QED
  BY <1>4

-----------------------------------------------------------------------------
(* Every step is one of these, and keeps the three parts of the invariant. *)

\* A step that leaves the rows, or one that makes of u an r.
LEMMA RowSteps ==
  ASSUME TypeInv, [Next]_vars
  PROVE  \/ UNCHANGED <<role, lost>>
         \/ Tick
         \/ \E u \in Users, r \in Roles \union {"gone"} : Became(u, r)
<1> USE DEF TypeInv, TypeOK, RequestFits, Roles
<1>1. ASSUME NEW h \in Handlers, WriteRole(h) PROVE
         \/ UNCHANGED <<role, lost>>
         \/ \E u \in Users, r \in Roles \union {"gone"} : Became(u, r)
  <2>1. target[h] \in Users /\ wanted[h] \in Roles \union {"none"}
    BY <1>1 DEF WriteRole, Goto
  <2> QED
    BY <1>1, <2>1 DEF WriteRole, UpdateRole
<1>2. ASSUME NEW h \in Handlers, EndDelete(h) PROVE
         \/ UNCHANGED <<role, lost>>
         \/ \E u \in Users, r \in Roles \union {"gone"} : Became(u, r)
  <2>1. target[h] \in Users
    BY <1>2 DEF EndDelete
  <2> QED
    BY <1>2, <2>1 DEF EndDelete, Delete
<1>3. ASSUME NEW u \in Users, Boot(u) PROVE
         UNCHANGED <<role, lost>> \/ Became(u, "admin")
  BY <1>3 DEF Boot, EnsureAdmin
<1>4. ASSUME NEW actor \in Users, NEW u \in Users, NEW r \in Roles, Create(actor, u, r) PROVE
         Became(u, r)
  BY <1>4 DEF Create, Insert
<1>5. ASSUME NEW h \in Handlers,
             \/ \E u \in Users : BeginLogin(h, u) \/ BeginRefresh(h, u)
             \/ \E actor \in Users, u \in Users :
                  (\E r \in Roles \union {"none"} : BeginPatch(h, actor, u, r))
                  \/ BeginDelete(h, actor, u)
             \/ Login(h) \/ Refresh(h) \/ Judge(h) \/ EndPatch(h)
      PROVE  UNCHANGED <<role, lost>>
  BY <1>5 DEF BeginLogin, BeginRefresh, BeginPatch, BeginDelete, Begin, Login, Refresh,
     Judge,
              EndPatch
<1>6. CASE Stop \/ UNCHANGED vars
  BY <1>6 DEF Stop, vars
<1> QED
  BY <1>1, <1>2, <1>3, <1>4, <1>5, <1>6 DEF Next

\* A step keeps the types of the rows ...
LEMMA RowTypes ==
  ASSUME Bounded, TypeInv, [Next]_vars
  PROVE  role' \in [Users -> Roles \union {"unborn", "gone"}] /\ lost' \in [Users -> 0..TTL + 1]
<1>1. CASE UNCHANGED <<role, lost>>
  BY <1>1 DEF TypeInv, TypeOK
<1>2. CASE Tick
  BY <1>2 DEF Tick, TypeInv, TypeOK, Bounded
<1>3. ASSUME NEW u \in Users, NEW r \in Roles \union {"gone"}, Became(u, r)
      PROVE  /\ role' \in [Users -> Roles \union {"unborn", "gone"}]
             /\ lost' \in [Users -> 0..TTL + 1]
  BY <1>3, BecameTypes DEF TypeInv
<1> QED
  BY <1>1, <1>2, <1>3, RowSteps

\* ... of the tokens and of the process ...
LEMMA TokenTypes ==
  ASSUME Bounded, TypeInv, [Next]_vars
  PROVE  /\ token' \in [Users -> [Roles -> 0..TTL]]
         /\ up' \in BOOLEAN /\ raced' \in BOOLEAN /\ troubles' \in 0..MaxTroubles
<1> USE DEF TypeInv, TypeOK, RequestFits, Bounded, Trouble, Issue, handler
<1>1. ASSUME NEW u \in Users, Boot(u) PROVE
        UNCHANGED <<token, raced, troubles>> /\ up' \in BOOLEAN
  BY <1>1 DEF Boot
<1>2. ASSUME Stop PROVE
        /\ UNCHANGED <<token, raced>> /\ up' \in BOOLEAN /\ troubles' \in 0..MaxTroubles
  <2>1. up' = FALSE /\ UNCHANGED <<token, raced>>
    BY <1>2 DEF Stop
  <2>2. troubles' \in 0..MaxTroubles
    BY <1>2 DEF Stop
  <2> QED
    BY <2>1, <2>2
<1>3. ASSUME Tick PROVE
        UNCHANGED <<up, raced, troubles>> /\ token' \in [Users -> [Roles -> 0..TTL]]
  BY <1>3 DEF Tick
<1>4. ASSUME NEW h \in Handlers, Login(h) \/ Refresh(h) PROVE
        UNCHANGED <<up, raced, troubles>> /\ token' \in [Users -> [Roles -> 0..TTL]]
  <2>1. target[h] \in Users /\ found[h] \in Roles
    BY <1>4 DEF Login, Refresh
  <2>2. token' = token \/ token' = [token EXCEPT ![target[h]][found[h]] = TTL]
    BY <1>4 DEF Login, Refresh
  <2>3. token' \in [Users -> [Roles -> 0..TTL]]
    <3>1. [token[target[h]] EXCEPT ![found[h]] = TTL] \in [Roles -> 0..TTL]
      BY <2>1
    <3> QED
      BY <2>1, <2>2, <3>1
  <2>4. UNCHANGED <<up, raced, troubles>>
    BY <1>4 DEF Login, Refresh
  <2> QED
    BY <2>3, <2>4
<1>5. ASSUME NEW h \in Handlers, NEW actor \in Users, NEW u \in Users,
             NEW r \in Roles \union {"none"}, NEW what, Begin(h, actor, what, u, r)
      PROVE  UNCHANGED <<up, token, troubles>> /\ raced' \in BOOLEAN
  BY <1>5 DEF Begin
<1>6. ASSUME NEW h \in Handlers, WriteRole(h) \/ EndDelete(h) PROVE
        UNCHANGED <<up, raced, token>> /\ troubles' \in 0..MaxTroubles
  BY <1>6 DEF WriteRole, EndDelete
<1>7. ASSUME \/ \E h \in Handlers : Judge(h) \/ EndPatch(h)
             \/ \E h \in Handlers, u \in Users : BeginLogin(h, u) \/ BeginRefresh(h, u)
             \/ \E actor \in Users, u \in Users, r \in Roles : Create(actor, u, r)
             \/ UNCHANGED vars
      PROVE  UNCHANGED <<up, token, raced, troubles>>
  BY <1>7 DEF Judge, EndPatch, BeginLogin, BeginRefresh, Create, vars
<1> QED
  <2>1. ASSUME NEW h \in Handlers, NEW actor \in Users, NEW u \in Users,
               (\E r \in Roles \union {"none"} : BeginPatch(h, actor, u, r))
               \/ BeginDelete(h, actor, u)
        PROVE  UNCHANGED <<up, token, troubles>> /\ raced' \in BOOLEAN
    BY <2>1, <1>5 DEF BeginPatch, BeginDelete
  <2> QED
    BY <1>1, <1>2, <1>3, <1>4, <1>6, <1>7, <2>1 DEF Next

\* What a step does to the requests: one begins, moves on or ends.
Begins(h) ==
  /\ pc[h] = "idle"
  /\ \E u \in Users, what \in {"login", "refresh", "patch", "delete"} :
       /\ op' = [op EXCEPT ![h] = what] /\ target' = [target EXCEPT ![h] = u]
       /\ found' = [found EXCEPT ![h] = role[u]] /\ Exists(u)
       /\ \/ /\ what \in {"login", "refresh"} /\ UNCHANGED wanted
             /\ pc' = [pc EXCEPT ![h] = "verifying"]
          \/ /\ what \in {"patch", "delete"} /\ pc' = [pc EXCEPT ![h] = "looked"]
             /\ \E r \in Roles \union {"none"} : wanted' = [wanted EXCEPT ![h] = r]

MovesOn(h) ==
  /\ op[h] \in {"patch", "delete"} /\ UNCHANGED <<op, target, found, wanted>>
  /\ \/ pc[h] = "looked" /\ pc' = [pc EXCEPT ![h] = "judged"]
     \/ pc[h] = "judged" /\ pc' = [pc EXCEPT ![h] = "roled"]

\* The steps are of one of five kinds.
LEMMA HandlerSteps ==
  ASSUME TypeInv, [Next]_vars
  PROVE  \/ UNCHANGED handler
         \/ Stop
         \/ \E h \in Handlers : Begins(h) \/ MovesOn(h) \/ Idle(h)
<1> USE DEF TypeInv, TypeOK, RequestFits, Goto, Begins, MovesOn
<1>1. ASSUME NEW h \in Handlers, NEW u \in Users, BeginLogin(h, u) \/ BeginRefresh(h, u)
      PROVE  Begins(h)
  BY <1>1 DEF BeginLogin, BeginRefresh
<1>2. ASSUME NEW h \in Handlers, NEW actor \in Users, NEW u \in Users,
             NEW r \in Roles \union {"none"}, NEW what \in {"patch", "delete"},
             Begin(h, actor, what, u, r)
      PROVE  Begins(h)
  BY <1>2 DEF Begin
<1>3. ASSUME NEW h \in Handlers, NEW actor \in Users, NEW u \in Users,
             (\E r \in Roles \union {"none"} : BeginPatch(h, actor, u, r))
             \/ BeginDelete(h, actor, u)
      PROVE  Begins(h)
  BY <1>2, <1>3 DEF BeginPatch, BeginDelete
<1>4. ASSUME NEW h \in Handlers, Login(h) \/ Refresh(h) \/ EndPatch(h) \/ EndDelete(h)
      PROVE  Idle(h)
  BY <1>4 DEF Login, Refresh, EndPatch, EndDelete
<1>5. ASSUME NEW h \in Handlers, WriteRole(h) PROVE MovesOn(h)
  BY <1>5 DEF WriteRole
<1>6. ASSUME NEW h \in Handlers, Judge(h) PROVE MovesOn(h) \/ Idle(h)
  <2>1. op[h] \in {"patch", "delete"}
    BY <1>6 DEF Judge
  <2> QED
    BY <1>6, <2>1 DEF Judge
<1>7. ASSUME \/ \E u \in Users : Boot(u)
             \/ \E actor \in Users, u \in Users, r \in Roles : Create(actor, u, r)
             \/ Tick \/ UNCHANGED vars
      PROVE  UNCHANGED handler
  BY <1>7 DEF Boot, Create, Tick, vars, handler
<1> QED
  BY <1>1, <1>3, <1>4, <1>5, <1>6, <1>7 DEF Next

\* ... and of the requests.
RequestTypes ==
  /\ RequestFits
  /\ pc \in [Handlers -> {"idle", "verifying", "looked", "judged", "roled"}]
  /\ op \in [Handlers -> {"none", "login", "refresh", "patch", "delete"}]
  /\ found \in [Handlers -> Roles \union {"none"}]
  /\ wanted \in [Handlers -> Roles \union {"none"}]
  /\ \A h \in Handlers : target[h] = Nobody <=> pc[h] = "idle"

LEMMA RequestStep == ASSUME Bounded, TypeInv, [Next]_vars PROVE RequestTypes'
<1> USE DEF TypeInv, TypeOK, RequestFits, RequestTypes, Bounded
<1>1. CASE UNCHANGED handler
  BY <1>1 DEF handler
<1>2. CASE Stop
  BY <1>2 DEF Stop
<1>3. ASSUME NEW h \in Handlers, Begins(h) PROVE RequestTypes'
  <2>1. PICK u \in Users, what \in {"login", "refresh", "patch", "delete"} :
          /\ op' = [op EXCEPT ![h] = what] /\ target' = [target EXCEPT ![h] = u]
          /\ found' = [found EXCEPT ![h] = role[u]] /\ role[u] \in Roles
          /\ \/ /\ what \in {"login", "refresh"} /\ UNCHANGED wanted
                /\ pc' = [pc EXCEPT ![h] = "verifying"]
             \/ /\ what \in {"patch", "delete"} /\ pc' = [pc EXCEPT ![h] = "looked"]
                /\ \E r \in Roles \union {"none"} : wanted' = [wanted EXCEPT ![h] = r]
    BY <1>3 DEF Begins, Exists
  <2>2. CASE what \in {"login", "refresh"}
    <3>1. UNCHANGED wanted /\ pc' = [pc EXCEPT ![h] = "verifying"] /\ wanted[h] = "none"
      BY <1>3, <2>1, <2>2 DEF Begins
    <3> QED
      BY <2>1, <2>2, <3>1
  <2>3. CASE what \in {"patch", "delete"}
    <3>1. PICK r \in Roles \union {"none"} : wanted' = [wanted EXCEPT ![h] = r]
      BY <2>1, <2>3
    <3>2. pc' = [pc EXCEPT ![h] = "looked"]
      BY <2>1, <2>3
    <3> QED
      BY <2>1, <2>3, <3>1, <3>2
  <2> QED
    BY <2>2, <2>3
<1>4. ASSUME NEW h \in Handlers, MovesOn(h) PROVE RequestTypes'
  BY <1>4 DEF MovesOn
<1>5. ASSUME NEW h \in Handlers, Idle(h) PROVE RequestTypes'
  BY <1>5 DEF Idle
<1> QED
  BY <1>1, <1>2, <1>3, <1>4, <1>5, HandlerSteps

\* Every step keeps the types.
LEMMA TypeStep == ASSUME Bounded, TypeInv, [Next]_vars PROVE TypeInv'
BY RowTypes, TokenTypes, RequestStep DEF RequestTypes, TypeInv, TypeOK

-----------------------------------------------------------------------------
\* A step that issues no token and does not move the clock keeps what the
\* tokens have to run.
LEMMA TokensKept ==
  ASSUME Bounded, TypeInv, TypeInv', TokensRunOut, [Next]_vars, UNCHANGED token, ~Tick
  PROVE  TokensRunOut'
<1> USE DEF TypeInv, TypeOK, RequestFits, Bounded
<1>1. \A v \in Users : role'[v] # "admin" =>
        lost'[v] = 0 \/ (role[v] # "admin" /\ lost'[v] = lost[v])
  BY RowSteps, BecameCounts
<1>2. ASSUME NEW u \in Users, role'[u] # "admin" PROVE
        token'[u]["admin"] = 0 \/ lost'[u] + token'[u]["admin"] <= TTL
  <2>1. token'[u]["admin"] \in 0..TTL /\ token'[u] = token[u]
    BY DEF Roles
  <2> QED
    BY <1>1, <1>2, <2>1 DEF TokensRunOut
<1>3. ASSUME NEW h \in Handlers, op'[h] \in {"login", "refresh"}, found'[h] = "admin",
             role'[target'[h]] # "admin"
      PROVE  lost'[target'[h]] = 0
  <2>1. target'[h] \in Users
    BY <1>3
  <2>2. CASE op[h] = op'[h] /\ found[h] = found'[h] /\ target[h] = target'[h]
    BY <1>1, <1>3, <2>1, <2>2 DEF TokensRunOut
  <2>3. CASE Begins(h)
    <3>1. role[target'[h]] = "admin"
      BY <1>3, <2>3 DEF Begins
    <3> QED
      BY <1>1, <1>3, <2>1, <3>1
  <2>4. \/ op[h] = op'[h] /\ found[h] = found'[h] /\ target[h] = target'[h]
        \/ Begins(h)
    <3>1. CASE UNCHANGED handler
      BY <3>1 DEF handler
    <3>2. CASE Stop
      BY <1>3, <3>2 DEF Stop
    <3>3. ASSUME NEW g \in Handlers, Begins(g) \/ MovesOn(g) \/ Idle(g) PROVE
            \/ op[h] = op'[h] /\ found[h] = found'[h] /\ target[h] = target'[h]
            \/ Begins(h)
      <4>1. CASE g = h
        BY <1>3, <3>3, <4>1 DEF MovesOn, Idle
      <4>2. CASE g # h
        BY <3>3, <4>2 DEF Begins, MovesOn, Idle
      <4> QED
        BY <4>1, <4>2
    <3> QED
      BY <3>1, <3>2, <3>3, HandlerSteps
  <2> QED
    BY <2>2, <2>3, <2>4
<1> QED
  BY <1>2, <1>3 DEF TokensRunOut

\* The clock takes as much from the token as it adds to the count; no request
\* that will issue one is under way.
LEMMA TokensTick ==
  ASSUME Bounded, TypeInv, TokensRunOut, Tick PROVE TokensRunOut'
<1> USE DEF TypeInv, TypeOK, RequestFits, Bounded
<1>1. ASSUME NEW u \in Users, role'[u] # "admin" PROVE
        token'[u]["admin"] = 0 \/ lost'[u] + token'[u]["admin"] <= TTL
  <2>1. /\ role[u] # "admin" /\ "admin" \in Roles
        /\ token[u]["admin"] \in 0..TTL /\ lost[u] \in 0..TTL + 1
    BY <1>1 DEF Tick, Roles
  <2>2. token'[u]["admin"] = IF token[u]["admin"] > 0 THEN token[u]["admin"] - 1 ELSE 0
    BY <2>1 DEF Tick
  <2>3. lost'[u] = IF lost[u] <= TTL THEN lost[u] + 1 ELSE lost[u]
    BY <2>1 DEF Tick
  <2>4. token[u]["admin"] = 0 \/ lost[u] + token[u]["admin"] <= TTL
    BY <2>1 DEF TokensRunOut
  <2> QED
    BY <2>1, <2>2, <2>3, <2>4
<1>2. \A h \in Handlers : op'[h] \notin {"login", "refresh"}
  BY DEF Tick, handler
<1> QED
  BY <1>1, <1>2 DEF TokensRunOut

\* A token is issued for a role that is the user's, or was until just now.
LEMMA TokensIssued ==
  ASSUME Bounded, TypeInv, TypeInv', TokensRunOut, NEW h \in Handlers, Login(h) \/ Refresh(h)
  PROVE  TokensRunOut'
<1> USE DEF TypeInv, TypeOK, RequestFits, Bounded
<1>1. UNCHANGED <<role, lost>> /\ op[h] \in {"login", "refresh"} /\ Idle(h)
  BY DEF Login, Refresh
<1>2. target[h] \in Users /\ found[h] \in Roles
  BY <1>1
<1>3. token' = token \/ token' = [token EXCEPT ![target[h]][found[h]] = TTL]
  BY DEF Login, Refresh, Issue
<1>4. ASSUME NEW u \in Users, role'[u] # "admin" PROVE
        token'[u]["admin"] = 0 \/ lost'[u] + token'[u]["admin"] <= TTL
  <2>1. role[u] # "admin" /\ lost'[u] = lost[u]
    BY <1>1, <1>4
  <2>2. token[u]["admin"] = 0 \/ lost[u] + token[u]["admin"] <= TTL
    BY <2>1 DEF TokensRunOut
  <2>3. CASE u = target[h] /\ found[h] = "admin"
    <3>1. lost[u] = 0
      BY <1>1, <2>1, <2>3 DEF TokensRunOut
    <3>2. token'[u]["admin"] \in 0..TTL
      BY DEF Roles
    <3> QED
      BY <2>1, <3>1, <3>2
  <2>4. CASE u # target[h] \/ found[h] # "admin"
    <3>1. token'[u]["admin"] = token[u]["admin"]
      BY <1>2, <1>3, <2>4 DEF Roles
    <3> QED
      BY <2>1, <2>2, <3>1
  <2> QED
    BY <2>3, <2>4
<1>5. ASSUME NEW g \in Handlers, op'[g] \in {"login", "refresh"}, found'[g] = "admin",
             role'[target'[g]] # "admin"
      PROVE  lost'[target'[g]] = 0
  <2>1. g # h
    BY <1>1, <1>5 DEF Idle
  <2>2. op[g] = op'[g] /\ found[g] = found'[g] /\ target[g] = target'[g]
    BY <1>1, <2>1 DEF Idle
  <2> QED
    BY <1>1, <1>5, <2>2 DEF TokensRunOut
<1> QED
  BY <1>4, <1>5 DEF TokensRunOut

\* Every step keeps TokensRunOut.
LEMMA TokensStep ==
  ASSUME Bounded, TypeInv, TypeInv', TokensRunOut, [Next]_vars PROVE TokensRunOut'
<1>1. CASE Tick
  BY <1>1, TokensTick
<1>2. ASSUME NEW h \in Handlers, Login(h) \/ Refresh(h) PROVE TokensRunOut'
  BY <1>2, TokensIssued
<1>3. CASE UNCHANGED token /\ ~Tick
  BY <1>3, TokensKept
<1>4. \/ UNCHANGED token \/ Tick
      \/ \E h \in Handlers : Login(h) \/ Refresh(h)
  <2>1. ASSUME NEW h \in Handlers, NEW actor \in Users, NEW u \in Users,
               (\E r \in Roles \union {"none"} : BeginPatch(h, actor, u, r))
               \/ BeginDelete(h, actor, u)
        PROVE  UNCHANGED token
    BY <2>1 DEF BeginPatch, BeginDelete, Begin
  <2>2. ASSUME \/ \E h \in Handlers : Judge(h) \/ WriteRole(h) \/ EndPatch(h) \/ EndDelete(h)
               \/ \E h \in Handlers, u \in Users : BeginLogin(h, u) \/ BeginRefresh(h, u)
               \/ \E actor \in Users, u \in Users, r \in Roles : Create(actor, u, r)
               \/ \E u \in Users : Boot(u)
               \/ Stop \/ UNCHANGED vars
        PROVE  UNCHANGED token
    BY <2>2 DEF Judge, WriteRole, EndPatch, EndDelete, BeginLogin, BeginRefresh,
       Create, Boot,
                Stop, vars
  <2> QED
    BY <2>1, <2>2 DEF Next
<1> QED
  BY <1>1, <1>2, <1>3, <1>4

-----------------------------------------------------------------------------
\* A step after which no more requests take an administrator away, and no
\* more of them have passed, keeps Unraced if it keeps the administrators.
LEMMA AdminsKept ==
  ASSUME Unraced,
         \A a \in Users : role[a] = "admin" => role'[a] = "admin",
         (up \/ \E u \in Users : Exists(u)) \/ \E a \in Users : role'[a] = "admin",
         Removing' \subseteq Removing,
         \A h \in Handlers : Passed(h)' => Passed(h) /\ target'[h] = target[h]
  PROVE  Unraced'
BY DEF Unraced, LeavesAnother

\* A request that has passed may take its target away.
LEMMA AdminTaken ==
  ASSUME TypeInv, Unraced, NEW h \in Removing, Passed(h), ~Passed(h)',
         \A a \in Users \ {target[h]} : role'[a] = role[a],
         Removing' \subseteq Removing,
         \A g \in Handlers : Passed(g)' => g \in Removing
  PROVE  Unraced'
<1>1. h \in Handlers
  BY DEF Removing
<1>2. PICK a \in Users : role[a] = "admin" /\ a # target[h]
  BY <1>1 DEF Unraced, LeavesAnother
<1>3. role'[a] = "admin"
  BY <1>2
<1>4. \A g \in Handlers : ~Passed(g)'
  BY DEF Unraced
<1> QED
  BY <1>2, <1>3, <1>4 DEF Unraced

\* The steps that no request takes, and the sessions.
LEMMA UnracedAround ==
  ASSUME TypeInv, TypeInv', Unraced,
         \/ \E u \in Users : Boot(u)
         \/ Stop \/ Tick
         \/ \E h \in Handlers, u \in Users : BeginLogin(h, u) \/ BeginRefresh(h, u)
         \/ \E actor \in Users, u \in Users, r \in Roles : Create(actor, u, r)
         \/ \E h \in Handlers : Login(h) \/ Refresh(h) \/ EndPatch(h)
         \/ UNCHANGED vars
  PROVE  Unraced'
<1> USE DEF TypeInv, TypeOK, RequestFits, Removing, Passed, Removes
<1>1. ASSUME NEW u \in Users, Boot(u) PROVE Unraced'
  <2>1. UNCHANGED <<pc, op, target, found, wanted>>
    BY <1>1 DEF Boot, handler
  <2>2. \A a \in Users : role[a] = "admin" => role'[a] = "admin"
    BY <1>1 DEF Boot, EnsureAdmin, Became
  <2>3. (\E v \in Users : Exists(v)) \/ role'[u] = "admin"
    BY <1>1 DEF Boot, EnsureAdmin, Became
  <2> QED
    BY <2>1, <2>2, <2>3, AdminsKept
<1>2. CASE Stop
  <2>1. role' = role /\ up /\ \A h \in Handlers : op'[h] = "none"
    BY <1>2 DEF Stop
  <2> QED
    BY <2>1, AdminsKept
<1>3. CASE Tick \/ UNCHANGED vars
  <2>1. UNCHANGED <<up, role, pc, op, target, found, wanted>>
    BY <1>3 DEF Tick, vars, handler
  <2> QED
    BY <2>1 DEF Unraced, LeavesAnother, Exists
<1>4. ASSUME NEW h \in Handlers, NEW u \in Users, BeginLogin(h, u) \/ BeginRefresh(h, u)
      PROVE  Unraced'
  <2>1. /\ role' = role /\ up /\ op'[h] \in {"login", "refresh"} /\ wanted'[h] = "none"
        /\ \A g \in Handlers \ {h} : /\ op'[g] = op[g] /\ wanted'[g] = wanted[g]
                                     /\ pc'[g] = pc[g] /\ found'[g] = found[g]
                                     /\ target'[g] = target[g]
    BY <1>4 DEF BeginLogin, BeginRefresh, Goto
  <2>2. Removing' \subseteq Removing
    BY <2>1
  <2>3. \A g \in Handlers : Passed(g)' => Passed(g) /\ target'[g] = target[g]
    BY <2>1
  <2> QED
    BY <2>1, <2>2, <2>3, AdminsKept
<1>5. ASSUME NEW actor \in Users, NEW u \in Users, NEW r \in Roles, Create(actor, u, r)
      PROVE  Unraced'
  <2>1. up /\ UNCHANGED <<pc, op, target, found, wanted>>
    BY <1>5 DEF Create, handler
  <2>2. \A a \in Users : role[a] = "admin" => role'[a] = "admin"
    BY <1>5 DEF Create, Insert, Became
  <2> QED
    BY <2>1, <2>2, AdminsKept
<1>6. ASSUME NEW h \in Handlers, Login(h) \/ Refresh(h) \/ EndPatch(h) PROVE Unraced'
  <2>1. /\ role' = role /\ up' = up /\ op'[h] = "none"
        /\ \A g \in Handlers \ {h} : /\ op'[g] = op[g] /\ wanted'[g] = wanted[g]
                                     /\ pc'[g] = pc[g] /\ found'[g] = found[g]
                                     /\ target'[g] = target[g]
    BY <1>6 DEF Login, Refresh, EndPatch, Idle
  <2>2. Removing' \subseteq Removing
    BY <2>1
  <2>3. \A g \in Handlers : Passed(g)' => Passed(g) /\ target'[g] = target[g]
    BY <2>1
  <2>4. up' \/ (\E v \in Users : Exists(v))' => up \/ \E v \in Users : Exists(v)
    BY <2>1 DEF Exists
  <2> QED
    BY <2>1, <2>2, <2>3, <2>4 DEF Unraced, LeavesAnother
<1> QED
  BY <1>1, <1>2, <1>3, <1>4, <1>5, <1>6

\* A request begins: while it is judged nothing else takes an administrator
\* away, or they overlap.
LEMMA UnracedBegin ==
  ASSUME TypeInv, TypeInv', Unraced, ~raced', NEW h \in Handlers, NEW actor \in Users,
         NEW what \in {"patch", "delete"}, NEW u \in Users, NEW r \in Roles \union {"none"},
         Begin(h, actor, what, u, r)
  PROVE  Unraced'
<1> USE DEF TypeInv, TypeOK, RequestFits
<1>1. /\ up /\ role' = role /\ up' = up /\ role[u] \in Roles
      /\ op'[h] = what /\ target'[h] = u /\ found'[h] = role[u] /\ wanted'[h] = r
      /\ pc'[h] = "looked" /\ op[h] = "none"
      /\ \A g \in Handlers \ {h} : /\ op'[g] = op[g] /\ wanted'[g] = wanted[g]
                                   /\ pc'[g] = pc[g] /\ found'[g] = found[g]
                                   /\ target'[g] = target[g]
  BY DEF Begin, Goto, Exists
<1>2. Removes(what, r) => Removing = {}
  BY DEF Begin
<1>3. \E a \in Users : role[a] = "admin"
  BY <1>1 DEF Unraced
<1>4. \A g \in Removing' : g \in Removing \/ (g = h /\ Removes(what, r))
  BY <1>1 DEF Removing
<1>5. \A f, g \in Removing' : f = g
  BY <1>2, <1>4 DEF Unraced
<1>6. ASSUME NEW g \in Handlers, Passed(g)' PROVE LeavesAnother(g)'
  <2>1. CASE g = h
    BY <1>1, <1>3, <1>6, <2>1 DEF Passed, LeavesAnother
  <2>2. CASE g # h
    BY <1>1, <1>6, <2>2 DEF Passed, LeavesAnother, Unraced
  <2> QED
    BY <2>1, <2>2
<1> QED
  BY <1>1, <1>3, <1>5, <1>6 DEF Unraced

\* The guard lets pass who leaves another.
LEMMA UnracedJudge ==
  ASSUME Bounded, TypeInv, TypeInv', Unraced, NEW h \in Handlers, Judge(h)
  PROVE  Unraced'
<1> USE DEF TypeInv, TypeOK, RequestFits
<1>1. /\ role' = role /\ up' = up /\ pc[h] = "looked" /\ op[h] \in {"patch", "delete"}
      /\ \A g \in Handlers \ {h} : /\ op'[g] = op[g] /\ wanted'[g] = wanted[g]
                                   /\ pc'[g] = pc[g] /\ found'[g] = found[g]
                                   /\ target'[g] = target[g]
  BY DEF Judge, Idle
<1>2. \/ /\ Guard(h) /\ pc'[h] = "judged" /\ op'[h] = op[h] /\ wanted'[h] = wanted[h]
         /\ target'[h] = target[h]
      \/ op'[h] = "none"
  BY DEF Judge, Idle
<1>3. Removing' \subseteq Removing
  BY <1>1, <1>2 DEF Removing, Removes
<1>4. ASSUME NEW g \in Handlers, Passed(g)' PROVE LeavesAnother(g)'
  <2>1. CASE g = h
    <3>1. /\ Guard(h) /\ Removes(op[h], wanted[h]) /\ target'[h] = target[h]
      BY <1>2, <1>4, <2>1 DEF Passed, Removes
    <3>2. CASE found[h] = "admin"
      <4>1. CountByRole("admin") > 1
        BY <3>1, <3>2 DEF Guard
      <4>2. PICK a \in Users : role[a] = "admin" /\ a # target[h]
        BY <4>1, CountSeesTwo
      <4> QED
        BY <1>1, <2>1, <3>1, <4>2 DEF LeavesAnother
    <3>3. CASE found[h] # "admin"
      BY <1>1, <2>1, <3>1, <3>3 DEF Unraced, Passed, LeavesAnother
    <3> QED
      BY <3>2, <3>3
  <2>2. CASE g # h
    BY <1>1, <1>4, <2>2 DEF Passed, LeavesAnother, Unraced
  <2> QED
    BY <2>1, <2>2
<1> QED
  BY <1>1, <1>3, <1>4 DEF Unraced, Exists

\* The write: a promotion keeps every administrator, a removal has passed.
LEMMA UnracedWrite ==
  ASSUME Bounded, TypeInv, TypeInv', Unraced, NEW h \in Handlers, WriteRole(h) \/ EndDelete(h)
  PROVE  Unraced'
<1> USE DEF TypeInv, TypeOK, RequestFits
<1>1. /\ pc[h] = "judged" /\ target[h] \in Users /\ up' = up
      /\ \/ op[h] = "patch" /\ WriteRole(h)
         \/ op[h] = "delete" /\ EndDelete(h)
  BY DEF WriteRole, EndDelete, Goto
<1>2. /\ \A g \in Handlers \ {h} : /\ op'[g] = op[g] /\ wanted'[g] = wanted[g]
                                   /\ pc'[g] = pc[g] /\ found'[g] = found[g]
                                   /\ target'[g] = target[g]
      /\ \/ op'[h] = "none"
         \/ pc'[h] = "roled" /\ op'[h] = op[h] /\ wanted'[h] = wanted[h]
  BY <1>1 DEF WriteRole, EndDelete, Goto, Idle
<1>3. Removing' \subseteq Removing
  BY <1>2 DEF Removing
<1>4. ~Passed(h)' /\ \A g \in Handlers : Passed(g)' => Passed(g) /\ target'[g] = target[g]
  BY <1>2 DEF Passed
<1>5. CASE Removes(op[h], wanted[h])
  <2>1. h \in Removing /\ Passed(h)
    BY <1>1, <1>5 DEF Removing, Passed
  <2>2. \A a \in Users \ {target[h]} : role'[a] = role[a]
    BY <1>1 DEF WriteRole, EndDelete, UpdateRole, Delete, Became
  <2>3. \A g \in Handlers : Passed(g)' => g \in Removing
    BY <1>4 DEF Passed, Removing
  <2> QED
    BY <1>3, <1>4, <2>1, <2>2, <2>3, AdminTaken
<1>6. CASE ~Removes(op[h], wanted[h])
  <2>1. op[h] = "patch" /\ wanted[h] \in {"none", "admin"} /\ WriteRole(h)
    BY <1>1, <1>6 DEF Removes, Roles
  <2>2. \/ role' = role
        \/ Exists(target[h]) /\ role' = [role EXCEPT ![target[h]] = "admin"]
    BY <2>1 DEF WriteRole, UpdateRole, Became
  <2>3. \A a \in Users : role[a] = "admin" => role'[a] = "admin"
    BY <1>1, <2>2
  <2>4. up' \/ (\E v \in Users : Exists(v))' => up \/ \E v \in Users : Exists(v)
    BY <1>1, <2>2 DEF Exists
  <2> QED
    BY <1>3, <1>4, <2>3, <2>4 DEF Unraced, LeavesAnother
<1> QED
  BY <1>5, <1>6

\* Every step keeps AccountInv.
LEMMA AccountStep == ASSUME Bounded, AccountInv, [Next]_vars PROVE AccountInv'
<1>1. TypeInv' /\ TokensRunOut'
  BY TypeStep, TokensStep DEF AccountInv
<1>2. ASSUME ~raced' PROVE Unraced'
  <2>1. ASSUME NEW h \in Handlers, NEW actor \in Users, NEW u \in Users,
               NEW r \in Roles \union {"none"}, NEW what \in {"patch", "delete"},
               Begin(h, actor, what, u, r)
        PROVE  Unraced'
    <3>1. ~raced
      BY <1>2, <2>1 DEF Begin
    <3> QED
      BY <1>1, <1>2, <2>1, <3>1, UnracedBegin DEF AccountInv
  <2>2. ASSUME NEW h \in Handlers, NEW actor \in Users, NEW u \in Users,
               (\E r \in Roles \union {"none"} : BeginPatch(h, actor, u, r))
               \/ BeginDelete(h, actor, u)
        PROVE  Unraced'
    BY <2>1, <2>2 DEF BeginPatch, BeginDelete
  <2>3. ASSUME NEW h \in Handlers, Judge(h) PROVE Unraced'
    <3>1. raced' = raced
      BY <2>3 DEF Judge
    <3> QED
      BY <1>1, <1>2, <2>3, <3>1, UnracedJudge DEF AccountInv
  <2>4. ASSUME NEW h \in Handlers, WriteRole(h) \/ EndDelete(h) PROVE Unraced'
    <3>1. raced' = raced
      BY <2>4 DEF WriteRole, EndDelete
    <3> QED
      BY <1>1, <1>2, <2>4, <3>1, UnracedWrite DEF AccountInv
  <2>5. ASSUME \/ \E u \in Users : Boot(u)
               \/ Stop \/ Tick
               \/ \E h \in Handlers, u \in Users : BeginLogin(h, u) \/ BeginRefresh(h, u)
               \/ \E actor \in Users, u \in Users, r \in Roles : Create(actor, u, r)
               \/ \E h \in Handlers : Login(h) \/ Refresh(h) \/ EndPatch(h)
               \/ UNCHANGED vars
        PROVE  Unraced'
    <3>1. raced' = raced
      BY <2>5 DEF Boot, Stop, Tick, BeginLogin, BeginRefresh, Create, Login, Refresh,
         EndPatch,
                  vars
    <3> QED
      BY <1>1, <1>2, <2>5, <3>1, UnracedAround DEF AccountInv
  <2> QED
    BY <2>2, <2>3, <2>4, <2>5 DEF Next
<1> QED
  BY <1>1, <1>2 DEF AccountInv

\* The initial states: no user, no token.
LEMMA AccountStart == ASSUME Bounded, Init PROVE AccountInv
<1> USE DEF Bounded, Init
<1>1. /\ up = FALSE /\ raced = FALSE /\ troubles = 0
      /\ \A u \in Users : role[u] = "unborn"
      /\ \A u \in Users : token[u] = [r \in Roles |-> 0]
      /\ \A h \in Handlers : /\ pc[h] = "idle" /\ op[h] = "none" /\ target[h] = Nobody
                             /\ found[h] = "none" /\ wanted[h] = "none"
  OBVIOUS
<1>2. /\ role \in [Users -> Roles \union {"unborn", "gone"}]
      /\ token \in [Users -> [Roles -> 0..TTL]] /\ lost \in [Users -> 0..TTL + 1]
  OBVIOUS
<1>3. /\ pc \in [Handlers -> {"idle", "verifying", "looked", "judged", "roled"}]
      /\ op \in [Handlers -> {"none", "login", "refresh", "patch", "delete"}]
      /\ found \in [Handlers -> Roles \union {"none"}]
      /\ wanted \in [Handlers -> Roles \union {"none"}]
      /\ target \in [Handlers -> Users \union {Nobody}]
  OBVIOUS
<1>4. TypeInv
  <2>1. TypeOK
    <3>1. up \in BOOLEAN /\ raced \in BOOLEAN
      BY <1>1
    <3>2. troubles \in 0..MaxTroubles
      BY <1>1
    <3>3. \A h \in Handlers : target[h] = Nobody <=> pc[h] = "idle"
      BY <1>1
    <3> QED
      BY <1>2, <1>3, <3>1, <3>2, <3>3 DEF TypeOK
  <2>2. RequestFits
    BY <1>1, <1>3 DEF RequestFits
  <2> QED
    BY <2>1, <2>2 DEF TypeInv
<1>5. TokensRunOut
  BY <1>1 DEF TokensRunOut, Roles
<1>6. Unraced
  BY <1>1 DEF Unraced, Removing, Passed, Exists, Roles
<1> QED
  BY <1>4, <1>5, <1>6 DEF AccountInv

\* An administrator is left unless two requests that take one away overlapped
\* (users.go: "Refuse to demote the last admin."), and who is an administrator
\* no more is served as one at most until the token it got as one runs out.
THEOREM RightsHold == ASSUME Bounded PROVE Spec => []RightsAreKept
<1>1. Init => AccountInv
  BY AccountStart
<1>2. AccountInv /\ [Next]_vars => AccountInv'
  BY AccountStep
<1>3. AccountInv => RightsAreKept
  <2>1. ASSUME TokensRunOut, TypeOK PROVE RightsRunOut
    BY <2>1 DEF TokensRunOut, TypeOK, RightsRunOut, RequireRole, Parse, Roles
  <2>2. ASSUME Unraced PROVE AdminUnlessRaced
    BY <2>2 DEF Unraced, AdminUnlessRaced, Admins
  <2> QED
    BY <2>1, <2>2 DEF AccountInv, TypeInv, RightsAreKept, AdminUnlessRaced
<1> QED
  BY <1>1, <1>2, <1>3, PTL DEF Spec

\* The same of what the runs check.
THEOREM RightsHoldThroughout == ASSUME Bounded PROVE SumSpec => []RightsStand
<1>1. SumInit /\ focus = "account" => Init
  BY DEF SumInit
<1>2. focus = "account" /\ [SumNext]_sumVars
        => [Next]_vars /\ (focus = "account")'
  BY DEF SumNext, accountOnly, knownOnly, keyOnly, tunnelOnly, fleetOnly, remoteOnly,
         commandOnly, containerOnly, serverOnly, filesOnly, sumVars, handler, vars
<1>3. ~(focus = "account") /\ [SumNext]_sumVars => (~(focus = "account"))'
  BY DEF SumNext, sumVars
<1>4. (focus = "account" => RightsAreKept) => RightsStand
  BY DEF RightsStand
<1>5. Spec => []RightsAreKept
  BY RightsHold
<1> QED
  BY <1>1, <1>2, <1>3, <1>4, <1>5, PTL DEF SumSpec, Spec

\* A fingerprint is neither of the two marks; the bound is a number.
KnownBounded ==
  /\ Known!Nothing \notin SshKeys /\ Known!Torn \notin SshKeys /\ Known!Nothing \notin Things
  /\ MoreTroubles \in Nat

-----------------------------------------------------------------------------
\* A dial under way has a host and a key.
Dialing == \A d \in Handlers : pc[d] # "idle" => host[d] \in Things /\ offered[d] \in SshKeys

KnownTypeInv == Known!TypeOK /\ Dialing

\* There is one first use at a time, and it finds no entry of its host until
\* it makes one; the copy it writes is what memory has.
OneWriter ==
  /\ \A d, e \in Handlers : Known!FirstUse(d) /\ Known!FirstUse(e) => d = e
  /\ \A d \in Handlers :
       /\ pc[d] = "unknown" => knownHosts[host[d]] = Known!Nothing
       /\ pc[d] \in {"remembered", "copied", "truncated", "unlinked"}
            => knownHosts[host[d]] = offered[d]
       /\ pc[d] \in {"copied", "truncated", "unlinked"} => hosts[d] = knownHosts
       /\ pc[d] = "truncated" => file = Known!Empty
       /\ pc[d] = "unlinked" => wiped = "file"
  /\ adding = "opened" => wiped = "file"

\* No entry is torn, and whatever was accepted is what memory has.
MemoryIsTrusted ==
  \A h \in Things :
    /\ knownHosts[h] # Known!Torn
    /\ accepted[h] \subseteq {knownHosts[h]} \ {Known!Nothing}

\* What holds until something is disturbed, or memory has lost what a key
\* request took from the file.
Quiet == OneWriter /\ MemoryIsTrusted /\ Known!FileIsMemory
Trusted == ~disturbed /\ wiped # "memory"

KeyInv == KnownTypeInv /\ (Trusted => Quiet)

-----------------------------------------------------------------------------
\* The steps of a dial keep the types.
LEMMA TypeDialStep ==
  ASSUME KnownBounded, KnownTypeInv, NEW d \in Handlers,
         \/ \E h \in Things : Known!Dial(d, h)
         \/ Known!Lookup(d) \/ Known!Remember(d) \/ Known!Copy(d)
         \/ Known!Truncate(d) \/ Known!Fill(d) \/ Known!FillUnlinked(d)
         \/ Known!SaveFails(d)
  PROVE  KnownTypeInv'
<1> USE DEF KnownBounded, KnownTypeInv, Known!TypeOK, Dialing, Known!Goto, Known!Empty,
            Known!dialer, Known!history, Known!disk, Known!Trouble
<1>1. ASSUME NEW h \in Things, Known!Dial(d, h) PROVE KnownTypeInv'
  BY <1>1 DEF Known!Dial
<1>2. CASE Known!Lookup(d)
  <2>1. disturbed' \in BOOLEAN
    BY <1>2 DEF Known!Lookup
  <2>2. accepted' \in [Things -> SUBSET SshKeys]
    BY <1>2 DEF Known!Lookup, Known!Accept
  <2>3. /\ pc[d] = "shown"
        /\ UNCHANGED <<presents, knownHosts, file, onDisk, adding, wiped, troubles>>
        /\ \/ pc' = [pc EXCEPT ![d] = "unknown"] /\ UNCHANGED <<host, offered, hosts>>
           \/ Known!Settle(d)
    BY <1>2 DEF Known!Lookup, Known!Accept
  <2>4. Dialing'
    BY <2>3 DEF Known!Settle
  <2>5. /\ pc' \in [Handlers -> {"idle", "shown", "unknown", "remembered", "copied", "truncated",
                                "unlinked"}]
        /\ host' \in [Handlers -> Things \union {Known!Nothing}]
        /\ offered' \in [Handlers -> SshKeys \union {Known!Nothing}]
        /\ hosts' \in [Handlers -> [Things -> SshKeys \union {Known!Nothing, Known!Torn}]]
    <3>1. CASE Known!Settle(d)
      BY <3>1 DEF Known!Settle
    <3>2. CASE pc' = [pc EXCEPT ![d] = "unknown"] /\ UNCHANGED <<host, offered, hosts>>
      BY <3>2
    <3> QED
      BY <2>3, <3>1, <3>2
  <2> QED
    BY <2>1, <2>2, <2>3, <2>4, <2>5
<1>3. CASE Known!Remember(d)
  BY <1>3 DEF Known!Remember
<1>4. CASE Known!Copy(d)
  BY <1>4 DEF Known!Copy
<1>5. CASE Known!Truncate(d)
  BY <1>5 DEF Known!Truncate
<1>6. CASE Known!Fill(d)
  <2>1. file' \in [Things -> SshKeys \union {Known!Nothing, Known!Torn}]
    BY <1>6 DEF Known!Fill
  <2> QED
    BY <1>6, <2>1 DEF Known!Fill, Known!Accept, Known!Settle
<1>7. CASE Known!SaveFails(d)
  BY <1>7 DEF Known!SaveFails, Known!Accept, Known!Settle
<1>8. CASE Known!FillUnlinked(d)
  BY <1>8 DEF Known!FillUnlinked, Known!Accept, Known!Settle
<1> QED
  BY <1>1, <1>2, <1>3, <1>4, <1>5, <1>6, <1>7, <1>8

\* The steps of the key store keep the types.
LEMMA TypeKeyStep ==
  ASSUME KnownBounded, KnownTypeInv,
         Known!LookForFile \/ Known!OpenForKey \/ Known!WriteKey \/ Known!RemoveKey
  PROVE  KnownTypeInv'
<1> USE DEF KnownBounded, KnownTypeInv, Known!TypeOK, Dialing, Known!Empty, Known!dialer,
            Known!history, Known!Wipe
<1>1. CASE Known!LookForFile
  BY <1>1 DEF Known!LookForFile
<1>2. CASE Known!OpenForKey
  BY <1>2 DEF Known!OpenForKey
<1>3. CASE Known!WriteKey
  BY <1>3 DEF Known!WriteKey, Known!UnderKey
<1>4. CASE Known!RemoveKey
  BY <1>4 DEF Known!RemoveKey
<1> QED
  BY <1>1, <1>2, <1>3, <1>4

\* What a killed process leaves has the type of the file.
LEMMA TypeRestartStep == ASSUME KnownBounded, KnownTypeInv, Known!Restart PROVE KnownTypeInv'
<1> USE DEF KnownBounded, KnownTypeInv, Known!TypeOK, Dialing, Known!Empty, Known!Trouble
<1>1. \A d \in Handlers :
        Known!CutShort(d) \subseteq [Things -> SshKeys \union {Known!Nothing, Known!Torn}]
  BY DEF Known!CutShort
<1>2. Known!UnderKey \subseteq [Things -> SshKeys \union {Known!Nothing, Known!Torn}]
  BY DEF Known!UnderKey
<1>3. file' \in [Things -> SshKeys \union {Known!Nothing, Known!Torn}] /\ knownHosts' = file'
  BY <1>1, <1>2 DEF Known!Restart, Known!Leftovers
<1>4. disturbed' \in BOOLEAN
  <2>1. disturbed' = (disturbed \/ \E d \in Handlers : Known!FirstUse(d))
    BY DEF Known!Restart
  <2> QED
    BY <2>1
<1>5. /\ wiped' \in {"no", "file", "memory"} /\ adding' = "no" /\ troubles' \in 0..MoreTroubles
      /\ UNCHANGED <<presents, onDisk, accepted>>
  BY DEF Known!Restart
<1>6. /\ pc' = [d \in Handlers |-> "idle"] /\ host' = [d \in Handlers |-> Known!Nothing]
      /\ offered' = [d \in Handlers |-> Known!Nothing]
      /\ hosts' = [d \in Handlers |-> Known!Empty]
  BY DEF Known!Restart
<1> QED
  BY <1>3, <1>4, <1>5, <1>6

\* Every step keeps the types.
LEMMA KnownTypeStep ==
  ASSUME KnownBounded, KnownTypeInv, [Known!Next]_Known!vars PROVE KnownTypeInv'
<1>1. ASSUME NEW h \in Things, NEW k \in SshKeys, Known!Rekey(h, k) PROVE KnownTypeInv'
  BY <1>1
     DEF Known!Rekey, KnownBounded, KnownTypeInv, Known!TypeOK, Dialing, Known!dialer,
         Known!history, Known!disk, Known!Trouble
<1>2. CASE UNCHANGED Known!vars
  BY <1>2
     DEF Known!vars, KnownTypeInv, Known!TypeOK, Dialing, Known!dialer, Known!history,
         Known!disk
<1> QED
  BY <1>1, <1>2, TypeDialStep, TypeKeyStep, TypeRestartStep DEF Known!Next

-----------------------------------------------------------------------------
\* Until something is disturbed, the steps of a dial keep Quiet: a lookup
\* that overlaps a first use, and a write that fails, disturb.
LEMMA QuietDialStep ==
  ASSUME KnownBounded, KnownTypeInv, KnownTypeInv', Quiet, Trusted', NEW d \in Handlers,
         \/ \E h \in Things : Known!Dial(d, h)
         \/ Known!Lookup(d) \/ Known!Remember(d) \/ Known!Copy(d)
         \/ Known!Truncate(d) \/ Known!Fill(d) \/ Known!FillUnlinked(d)
         \/ Known!SaveFails(d)
  PROVE  Quiet'
<1> USE DEF Quiet, OneWriter, MemoryIsTrusted, Known!FileIsMemory, Known!FirstUse,
            Known!Goto, KnownTypeInv, Known!TypeOK, Dialing, KnownBounded, Known!Nothing,
            Known!Torn, Trusted, Known!disk
<1>1. ASSUME NEW h \in Things, Known!Dial(d, h) PROVE Quiet'
  BY <1>1 DEF Known!Dial, Known!history
<1>2. CASE Known!Lookup(d)
  <2>1. CASE knownHosts[host[d]] = Known!Nothing
    <3>1. /\ pc' = [pc EXCEPT ![d] = "unknown"]
          /\ UNCHANGED <<host, offered, hosts, accepted, knownHosts, file, adding, wiped>>
      BY <1>2, <2>1 DEF Known!Lookup
    <3>2. \A e \in Handlers : ~Known!FirstUse(e)
      BY <1>2, <2>1 DEF Known!Lookup
    <3> QED
      BY <2>1, <3>1, <3>2
  <2>2. CASE knownHosts[host[d]] # Known!Nothing
    <3>1. /\ pc' = [pc EXCEPT ![d] = "idle"]
          /\ pc[d] = "shown"
          /\ UNCHANGED <<knownHosts, file, adding, wiped>>
      BY <1>2, <2>2 DEF Known!Lookup, Known!Accept, Known!Settle
    <3>2. \A e \in Handlers \ {d} :
            host'[e] = host[e] /\ offered'[e] = offered[e] /\ hosts'[e] = hosts[e]
      BY <1>2, <2>2 DEF Known!Lookup, Known!Accept, Known!Settle
    <3>3. \/ accepted' = accepted
          \/ /\ knownHosts[host[d]] = offered[d]
             /\ accepted' = [accepted EXCEPT ![host[d]] = @ \union {offered[d]}]
      BY <1>2, <2>2 DEF Known!Lookup, Known!Accept
    <3>4. host[d] \in Things /\ accepted[host[d]] \subseteq {knownHosts[host[d]]} \ {Known!Nothing}
      BY <3>1
    <3>5. ASSUME NEW h \in Things
          PROVE  /\ knownHosts'[h] # Known!Torn
                 /\ accepted'[h] \subseteq {knownHosts'[h]} \ {Known!Nothing}
      <4>1. CASE accepted' = accepted
        BY <3>1, <4>1
      <4>2. CASE h # host[d]
        BY <3>1, <3>3, <4>2
      <4>3. CASE accepted'[h] = accepted[h] \union {offered[d]} /\ h = host[d]
                   /\ knownHosts[h] = offered[d]
        BY <2>2, <3>1, <4>3
      <4> QED
        BY <3>3, <3>4, <4>1, <4>2, <4>3
    <3>6. OneWriter'
      BY <3>1, <3>2
    <3>7. Known!FileIsMemory'
      BY <1>2, <2>2, <3>1 DEF Known!Lookup
    <3> QED
      BY <3>5, <3>6, <3>7
  <2> QED
    BY <2>1, <2>2
<1>3. CASE Known!Remember(d)
  BY <1>3 DEF Known!Remember, Known!history
<1>4. CASE Known!Copy(d)
  BY <1>4 DEF Known!Copy, Known!history
<1>5. CASE Known!Truncate(d)
  BY <1>5 DEF Known!Truncate, Known!history
<1>6. CASE Known!Fill(d)
  <2>1. \A h \in Things : file[h] = Known!Nothing
    BY <1>6 DEF Known!Fill, Known!Empty
  <2>2. file' = hosts[d]
    BY <1>6, <2>1 DEF Known!Fill
  <2>3. hosts[d] = knownHosts /\ knownHosts' = knownHosts
    BY <1>6 DEF Known!Fill
  <2>4. \A e \in Handlers :
          pc'[e] \in {"remembered", "copied", "truncated", "unlinked", "unknown"} => FALSE
    BY <1>6 DEF Known!Fill, Known!Accept, Known!Settle
  <2>5. MemoryIsTrusted'
    BY <1>6, <2>3 DEF Known!Fill, Known!Accept
  <2>6. adding' = "opened" => wiped' = "file"
    BY <1>6 DEF Known!Fill
  <2> QED
    BY <2>2, <2>3, <2>4, <2>5, <2>6
<1>7. CASE Known!SaveFails(d)
  BY <1>7 DEF Known!SaveFails
<1>8. CASE Known!FillUnlinked(d)
  <2>1. /\ \A e \in Handlers : ~(pc'[e] \in {"remembered", "copied", "truncated", "unlinked",
                                            "unknown"})
        /\ UNCHANGED <<knownHosts, file, wiped>>
    BY <1>8 DEF Known!FillUnlinked, Known!Accept, Known!Settle
  <2>2. MemoryIsTrusted'
    BY <1>8 DEF Known!FillUnlinked, Known!Accept
  <2>3. wiped = "file" /\ UNCHANGED adding
    BY <1>8 DEF Known!FillUnlinked
  <2> QED
    BY <2>1, <2>2, <2>3
<1> QED
  BY <1>1, <1>2, <1>3, <1>4, <1>5, <1>6, <1>7, <1>8

\* So do the steps of the key store: what they take from the file memory has
\* until the next restart.
LEMMA QuietKeyStep ==
  ASSUME KnownTypeInv, Quiet, Trusted',
         Known!LookForFile \/ Known!OpenForKey \/ Known!WriteKey \/ Known!RemoveKey
  PROVE  Quiet'
<1> USE DEF Quiet, OneWriter, MemoryIsTrusted, Known!FileIsMemory, Known!FirstUse, Trusted,
            KnownTypeInv, Known!TypeOK, Known!dialer, Known!history, Known!Wipe
<1>1. CASE Known!LookForFile
  BY <1>1 DEF Known!LookForFile
<1>2. CASE Known!OpenForKey
  BY <1>2 DEF Known!OpenForKey
<1>3. CASE Known!WriteKey
  <2>1. \A d \in Handlers : pc[d] = "truncated" => file' = Known!Empty
    BY <1>3 DEF Known!WriteKey, Known!UnderKey, Known!Empty
  <2>2. UNCHANGED <<presents, knownHosts, onDisk, pc, host, offered, hosts, accepted, disturbed>>
    BY <1>3 DEF Known!WriteKey
  <2>3. wiped' = "file"
    BY <1>3 DEF Known!WriteKey
  <2> QED
    BY <2>1, <2>2, <2>3
<1>4. CASE Known!RemoveKey
  <2>1. \A d \in Handlers :
          pc'[d] = IF pc[d] = "truncated" THEN "unlinked" ELSE pc[d]
    BY <1>4 DEF Known!RemoveKey
  <2>2. UNCHANGED <<presents, knownHosts, host, offered, hosts, accepted, disturbed>>
    BY <1>4 DEF Known!RemoveKey
  <2>3. wiped' = "file"
    BY <1>4 DEF Known!RemoveKey
  <2> QED
    BY <2>1, <2>2, <2>3
<1> QED
  BY <1>1, <1>2, <1>3, <1>4

\* A restart that cuts no first use short reads the file memory agrees with.
LEMMA QuietRestartStep ==
  ASSUME KnownTypeInv, Quiet, Known!Restart, Trusted' PROVE Quiet'
<1> USE DEF Quiet, OneWriter, MemoryIsTrusted, Known!FileIsMemory, Known!FirstUse, Trusted
<1>1. ~disturbed /\ \A d \in Handlers : ~Known!FirstUse(d)
  BY DEF Known!Restart
<1>0. wiped = "no"
  BY DEF Known!Restart, KnownTypeInv, Known!TypeOK
<1>2. file = knownHosts /\ adding # "opened"
  BY <1>1, <1>0
<1>3. file' = file /\ knownHosts' = file
  BY <1>1, <1>2 DEF Known!Restart, Known!Leftovers
<1>4. (\A d \in Handlers : pc'[d] = "idle") /\ accepted' = accepted /\ adding' = "no"
  BY DEF Known!Restart
<1> QED
  BY <1>2, <1>3, <1>4

\* What was disturbed stays so.
LEMMA Disturbed == ASSUME Known!TypeOK, [Known!Next]_Known!vars, disturbed PROVE disturbed'
<1>1. ASSUME NEW d \in Handlers, Known!Lookup(d) PROVE disturbed'
  <2>1. disturbed' = disturbed \/ disturbed' = (disturbed \/ \E e \in Handlers : Known!FirstUse(e))
    BY <1>1 DEF Known!Lookup
  <2> QED
    BY <2>1
<1>2. ASSUME NEW d \in Handlers,
             Known!Fill(d) \/ Known!FillUnlinked(d) \/ Known!SaveFails(d)
      PROVE  disturbed'
  <2>1. CASE Known!Fill(d)
    BY <2>1 DEF Known!Fill
  <2>2. CASE Known!SaveFails(d)
    BY <2>2 DEF Known!SaveFails
  <2>3. CASE Known!FillUnlinked(d)
    BY <2>3 DEF Known!FillUnlinked
  <2> QED
    BY <1>2, <2>1, <2>2, <2>3
<1>3. CASE Known!Restart
  <2>1. disturbed' = (disturbed \/ \E d \in Handlers : Known!FirstUse(d))
    BY <1>3 DEF Known!Restart
  <2> QED
    BY <2>1
<1>4. ASSUME NEW d \in Handlers,
             (\E h \in Things : Known!Dial(d, h)) \/ Known!Remember(d)
             \/ Known!Copy(d) \/ Known!Truncate(d)
      PROVE  disturbed'
  BY <1>4 DEF Known!Dial, Known!Remember, Known!Copy, Known!Truncate, Known!history
<1>5. ASSUME NEW h \in Things, NEW k \in SshKeys, Known!Rekey(h, k) PROVE disturbed'
  BY <1>5 DEF Known!Rekey, Known!history
<1>6. CASE UNCHANGED Known!vars
  BY <1>6 DEF Known!vars, Known!history
<1>7. CASE Known!LookForFile \/ Known!OpenForKey \/ Known!WriteKey \/ Known!RemoveKey
  BY <1>7
     DEF Known!LookForFile, Known!OpenForKey, Known!WriteKey, Known!RemoveKey, Known!history
<1> QED
  BY <1>1, <1>2, <1>3, <1>4, <1>5, <1>6, <1>7 DEF Known!Next

\* What memory has lost is not given back.
LEMMA MemoryLost ==
  ASSUME Known!TypeOK, [Known!Next]_Known!vars, wiped = "memory" PROVE wiped' = "memory"
<1> USE DEF Known!history
<1>1. ASSUME NEW d \in Handlers,
             \/ \E h \in Things : Known!Dial(d, h)
             \/ Known!Lookup(d) \/ Known!Remember(d) \/ Known!Copy(d) \/ Known!Truncate(d)
      PROVE  wiped' = "memory"
  BY <1>1 DEF Known!Dial, Known!Lookup, Known!Remember, Known!Copy, Known!Truncate
<1>2. ASSUME NEW d \in Handlers,
             Known!Fill(d) \/ Known!FillUnlinked(d) \/ Known!SaveFails(d)
      PROVE  wiped' = "memory"
  <2>1. CASE Known!Fill(d)
    <3>1. wiped' = IF wiped = "file" /\ adding # "opened" THEN "no" ELSE wiped
      BY <2>1 DEF Known!Fill
    <3> QED
      BY <3>1
  <2>2. CASE Known!FillUnlinked(d) \/ Known!SaveFails(d)
    BY <2>2 DEF Known!FillUnlinked, Known!SaveFails
  <2> QED
    BY <1>2, <2>1, <2>2
<1>3. CASE Known!LookForFile \/ Known!OpenForKey \/ Known!WriteKey \/ Known!RemoveKey
  BY <1>3
     DEF Known!LookForFile, Known!OpenForKey, Known!WriteKey, Known!RemoveKey, Known!Wipe
<1>4. CASE Known!Restart
  <2>1. wiped' = IF wiped = "file" THEN "memory" ELSE wiped
    BY <1>4 DEF Known!Restart
  <2> QED
    BY <2>1
<1>5. ASSUME NEW h \in Things, NEW k \in SshKeys, Known!Rekey(h, k) PROVE wiped' = "memory"
  BY <1>5 DEF Known!Rekey
<1>6. CASE UNCHANGED Known!vars
  BY <1>6 DEF Known!vars
<1> QED
  BY <1>1, <1>2, <1>3, <1>4, <1>5, <1>6 DEF Known!Next

\* Every step keeps KeyInv.
LEMMA KeyStep == ASSUME KnownBounded, KeyInv, [Known!Next]_Known!vars PROVE KeyInv'
<1>1. KnownTypeInv'
  BY KnownTypeStep DEF KeyInv
<1>2. ASSUME Trusted' PROVE Quiet'
  <2>1. Trusted
    <3>1. ~disturbed
      BY <1>2, Disturbed DEF Trusted, KeyInv, KnownTypeInv
    <3>2. wiped # "memory"
      BY <1>2, MemoryLost DEF Trusted, KeyInv, KnownTypeInv
    <3> QED
      BY <3>1, <3>2 DEF Trusted
  <2>2. Quiet
    BY <2>1 DEF KeyInv
  <2>3. ASSUME NEW h \in Things, NEW k \in SshKeys, Known!Rekey(h, k) PROVE Quiet'
    BY <2>2, <2>3
       DEF Known!Rekey, Quiet, OneWriter, MemoryIsTrusted, Known!FileIsMemory,
           Known!FirstUse, Known!Empty, Known!dialer, Known!history, Known!disk
  <2>4. CASE UNCHANGED Known!vars
    BY <2>2, <2>4
       DEF Known!vars, Quiet, OneWriter, MemoryIsTrusted, Known!FileIsMemory,
           Known!FirstUse, Known!Empty, Known!dialer, Known!history, Known!disk
  <2> QED
    BY <1>1, <1>2, <2>2, <2>3, <2>4, QuietDialStep, QuietKeyStep, QuietRestartStep
       DEF Known!Next, KeyInv
<1> QED
  BY <1>1, <1>2 DEF KeyInv

\* The initial states.
LEMMA KeyStart == ASSUME KnownBounded, Known!Init PROVE KeyInv
<1> USE DEF KnownBounded, Known!Init, Known!Empty
<1>1. KnownTypeInv
  <2>1. presents \in [Things -> SshKeys] /\ Dialing
    BY DEF Dialing
  <2>2. /\ knownHosts \in [Things -> SshKeys \union {Known!Nothing, Known!Torn}]
        /\ file \in [Things -> SshKeys \union {Known!Nothing, Known!Torn}]
    OBVIOUS
  <2>3. /\ host \in [Handlers -> Things \union {Known!Nothing}]
        /\ offered \in [Handlers -> SshKeys \union {Known!Nothing}]
        /\ hosts \in [Handlers -> [Things -> SshKeys \union {Known!Nothing, Known!Torn}]]
    OBVIOUS
  <2>4. accepted \in [Things -> SUBSET SshKeys] /\ disturbed \in BOOLEAN
    OBVIOUS
  <2>6. /\ onDisk \in {"absent", "present"} /\ adding \in {"no", "looked", "opened"}
        /\ wiped \in {"no", "file", "memory"}
    OBVIOUS
  <2>5. pc \in [Handlers -> {"idle", "shown", "unknown", "remembered", "copied", "truncated",
                             "unlinked"}]
        /\ troubles \in 0..MoreTroubles
    OBVIOUS
  <2> QED
    BY <2>1, <2>2, <2>3, <2>4, <2>5, <2>6 DEF KnownTypeInv, Known!TypeOK
<1>2. /\ \A d \in Handlers : pc[d] = "idle"
      /\ \A h \in Things : accepted[h] = {} /\ knownHosts[h] = Known!Nothing
      /\ file = knownHosts /\ adding = "no"
  BY DEF Known!Init, Known!Empty
<1>3. Quiet
  BY <1>2
     DEF Quiet, OneWriter, MemoryIsTrusted, Known!FileIsMemory, Known!FirstUse,
         Known!Nothing, Known!Torn
<1> QED
  BY <1>1, <1>3 DEF KeyInv

\* What is accepted is within the one key memory has.
LEMMA KeyInvSaysIt == ASSUME KeyInv PROVE Known!OneKeyTrusted
<1>1. ASSUME Trusted, NEW h \in Things, NEW k \in accepted[h] PROVE k = knownHosts[h]
  BY <1>1 DEF KeyInv, Quiet, MemoryIsTrusted
<1>2. Known!OneKeyUnlessDisturbed
  BY <1>1
     DEF Known!OneKeyUnlessDisturbed, Known!HostKeysSurvive, Known!OneKeyPerHost, Trusted
<1> QED
  BY <1>2 DEF KeyInv, KnownTypeInv, Quiet, Trusted, Known!OneKeyTrusted, Known!FileIsMemory

\* Trust on first use: no host is ever trusted with two keys, and the file
\* says what memory says, unless first uses overlapped, a write of the file
\* failed, a restart cut a first use short or came after a key request that
\* took the file away.
THEOREM OneKeyHolds == ASSUME KnownBounded PROVE Known!Spec => []Known!OneKeyTrusted
<1>1. Known!Init => KeyInv
  BY KeyStart
<1>2. KeyInv /\ [Known!Next]_Known!vars => KeyInv'
  BY KeyStep
<1>3. KeyInv => Known!OneKeyTrusted
  BY KeyInvSaysIt
<1> QED
  BY <1>1, <1>2, <1>3, PTL DEF Known!Spec

\* The same of what the runs check.
THEOREM OneKeyStands == ASSUME KnownBounded PROVE SumSpec => []OneKeyTrusted
<1>1. SumInit /\ focus = "known" => Known!Init
  BY DEF SumInit
<1>2. focus = "known" /\ [SumNext]_sumVars
        => [Known!Next]_Known!vars /\ (focus = "known")'
  BY DEF SumNext, accountOnly, knownOnly, keyOnly, tunnelOnly, fleetOnly, remoteOnly,
         commandOnly, containerOnly, serverOnly, filesOnly, sumVars, Known!dialer,
         Known!disk, Known!history, Known!vars
<1>3. ~(focus = "known") /\ [SumNext]_sumVars => (~(focus = "known"))'
  BY DEF SumNext, sumVars
<1>4. (focus = "known" => Known!OneKeyTrusted) => OneKeyTrusted
  BY DEF OneKeyTrusted
<1>5. Known!Spec => []Known!OneKeyTrusted
  BY OneKeyHolds
<1> QED
  BY <1>1, <1>2, <1>3, <1>4, <1>5, PTL DEF SumSpec, Known!Spec

-----------------------------------------------------------------------------
\* The bound is a number, and the signs of a missing and of a torn file are no
\* keys.
StoreBounded ==
  /\ MaxTroubles \in Nat
  /\ Key!Nothing \notin SshKeys /\ Key!Torn \notin SshKeys /\ Key!Nothing \notin Handlers

\* A request to add a key knows its name and its key.
Adding ==
  \A c \in Handlers : pc[c] \in {"adding", "checked", "writing"}
                        => name[c] \in KeyNames /\ key[c] \in SshKeys

\* The mutex is held by the request that writes, which has found no file (only
\* known_hosts may have come since); what is there before it is done is torn.
Writing ==
  \A c \in Handlers :
    /\ pc[c] \in {"checked", "writing"} <=> mu = c
    /\ pc[c] = "checked" /\ name[c] # TrustFile => files[name[c]] = Key!Nothing
    /\ pc[c] = "writing" => files[name[c]] = Key!Torn

\* A listing has read, or has still to read, every key that stands, but one
\* called as known_hosts is.
Reading ==
  \A c \in Handlers : pc[c] = "listing" =>
    \A n \in standing[c] \ {TrustFile} :
      stored[n] # Key!Nothing /\ (n \in entries[c] \/ out[c][n] = stored[n])

StoreInv == Key!TypeOK /\ Adding /\ Writing /\ Key!KeyKept /\ Reading

\* Every step keeps the types, and what a request to add knows.
LEMMA StoreTypeStep ==
  ASSUME StoreBounded, Key!TypeOK, Adding, [Key!Next]_Key!vars
  PROVE  Key!TypeOK' /\ Adding'
<1> USE DEF StoreBounded, Key!TypeOK, Adding, Key!Trouble, Key!Goto, Key!Settle, Key!None,
            Key!request, Key!listing
<1>1. ASSUME NEW c \in Handlers, NEW n \in KeyNames, NEW k \in SshKeys,
             Key!AddKey(c, n, k) \/ Key!GenerateKey(c, n, k)
      PROVE  Key!TypeOK' /\ Adding'
  <2>1. /\ pc' = [pc EXCEPT ![c] = "adding"] /\ name' = [name EXCEPT ![c] = n]
        /\ key' = [key EXCEPT ![c] = k]
        /\ UNCHANGED <<files, mu, entries, out, standing, stored, troubles>>
    BY <1>1 DEF Key!AddKey, Key!GenerateKey, Key!Request
  <2> QED
    BY <2>1
<1>2. ASSUME NEW c \in Handlers, Key!Check(c) PROVE Key!TypeOK' /\ Adding'
  BY <1>2 DEF Key!Check
<1>3. ASSUME NEW c \in Handlers, Key!Create(c) PROVE Key!TypeOK' /\ Adding'
  BY <1>3 DEF Key!Create
<1>4. ASSUME NEW c \in Handlers, Key!Fill(c) \/ Key!WriteFails(c)
      PROVE  Key!TypeOK' /\ Adding'
  <2>1. CASE Key!Fill(c)
    BY <2>1 DEF Key!Fill
  <2>2. CASE Key!WriteFails(c)
    BY <2>2 DEF Key!WriteFails
  <2> QED
    BY <1>4, <2>1, <2>2
<1>5. ASSUME NEW c \in Handlers, NEW n \in KeyNames, Key!DeleteKey(c, n)
      PROVE  Key!TypeOK' /\ Adding'
  BY <1>5 DEF Key!DeleteKey, Key!Remove
<1>6. ASSUME NEW c \in Handlers, NEW n \in KeyNames, Key!ReadFile(c, n)
      PROVE  Key!TypeOK' /\ Adding'
  <2>1. out' \in [Handlers -> [KeyNames -> SshKeys \union {Key!Nothing}]]
    BY <1>6 DEF Key!ReadFile, Key!Parses
  <2> QED
    BY <1>6, <2>1 DEF Key!ReadFile
<1>7. ASSUME NEW c \in Handlers, Key!ReadDir(c) \/ Key!Answer(c)
      PROVE  Key!TypeOK' /\ Adding'
  <2>1. CASE Key!ReadDir(c)
    BY <2>1 DEF Key!ReadDir
  <2>2. CASE Key!Answer(c)
    BY <2>2 DEF Key!Answer
  <2> QED
    BY <1>7, <2>1, <2>2
<1>8. ASSUME Key!Restart PROVE Key!TypeOK' /\ Adding'
  BY <1>8 DEF Key!Restart
<1>9. ASSUME UNCHANGED Key!vars PROVE Key!TypeOK' /\ Adding'
  BY <1>9 DEF Key!vars
<1>10. ASSUME Key!SaveKnownHosts PROVE Key!TypeOK' /\ Adding'
  BY <1>10 DEF Key!SaveKnownHosts
<1> QED
  BY <1>1, <1>2, <1>3, <1>4, <1>5, <1>6, <1>7, <1>8, <1>9, <1>10 DEF Key!Next

\* Every step keeps the mutex and the keys that were stored.
LEMMA StoreKeptStep ==
  ASSUME StoreBounded, StoreInv, [Key!Next]_Key!vars
  PROVE  Writing' /\ Key!KeyKept'
<1> USE DEF StoreBounded, StoreInv, Key!TypeOK, Adding, Writing, Key!KeyKept, Key!Goto,
            Key!Settle, Key!Nothing, Key!Torn, Key!request, Key!listing
<1>1. ASSUME NEW c \in Handlers, NEW n \in KeyNames, NEW k \in SshKeys,
             Key!AddKey(c, n, k) \/ Key!GenerateKey(c, n, k)
      PROVE  Writing' /\ Key!KeyKept'
  BY <1>1 DEF Key!AddKey, Key!GenerateKey, Key!Request
<1>2. ASSUME NEW c \in Handlers, Key!Check(c) PROVE Writing' /\ Key!KeyKept'
  BY <1>2 DEF Key!Check
<1>3. ASSUME NEW c \in Handlers, Key!Create(c) PROVE Writing' /\ Key!KeyKept'
  BY <1>3 DEF Key!Create
<1>4. ASSUME NEW c \in Handlers, Key!Fill(c) PROVE Writing' /\ Key!KeyKept'
  BY <1>4 DEF Key!Fill
<1>5. ASSUME NEW c \in Handlers, Key!WriteFails(c) PROVE Writing' /\ Key!KeyKept'
  BY <1>5 DEF Key!WriteFails
<1>6. ASSUME NEW c \in Handlers, NEW n \in KeyNames, Key!DeleteKey(c, n)
      PROVE  Writing' /\ Key!KeyKept'
  BY <1>6 DEF Key!DeleteKey, Key!Remove
<1>7. ASSUME NEW c \in Handlers,
             Key!ReadDir(c) \/ Key!Answer(c) \/ \E n \in KeyNames : Key!ReadFile(c, n)
      PROVE  Writing' /\ Key!KeyKept'
  BY <1>7 DEF Key!ReadDir, Key!Answer, Key!ReadFile
<1>8. ASSUME Key!Restart PROVE Writing' /\ Key!KeyKept'
  BY <1>8 DEF Key!Restart
<1>9. ASSUME UNCHANGED Key!vars PROVE Writing' /\ Key!KeyKept'
  BY <1>9 DEF Key!vars
<1>10. ASSUME Key!SaveKnownHosts PROVE Writing' /\ Key!KeyKept'
  BY <1>10 DEF Key!SaveKnownHosts
<1> QED
  BY <1>1, <1>2, <1>3, <1>4, <1>5, <1>6, <1>7, <1>8, <1>9, <1>10 DEF Key!Next

\* Every step keeps what the listings have read.
LEMMA ReadingStep ==
  ASSUME StoreBounded, StoreInv, [Key!Next]_Key!vars
  PROVE  Reading'
<1> USE DEF StoreBounded, StoreInv, Key!TypeOK, Reading, Key!Goto, Key!Settle, Key!request,
            Key!listing
<1>1. ASSUME UNCHANGED <<Key!listing, stored>>,
             \A c \in Handlers : pc'[c] = "listing" => pc[c] = "listing"
      PROVE  Reading'
  BY <1>1
<1>2. ASSUME NEW c \in Handlers, NEW n \in KeyNames, NEW k \in SshKeys,
             Key!AddKey(c, n, k) \/ Key!GenerateKey(c, n, k)
      PROVE  Reading'
  BY <1>2 DEF Key!AddKey, Key!GenerateKey, Key!Request
<1>3. ASSUME NEW c \in Handlers, Key!Check(c) \/ Key!Create(c) \/ Key!WriteFails(c)
      PROVE  Reading'
  BY <1>3 DEF Key!Check, Key!Create, Key!WriteFails
<1>4. ASSUME NEW c \in Handlers, Key!Fill(c) PROVE Reading'
  <2>1. name[c] # TrustFile => stored[name[c]] = Key!Nothing
    BY <1>4 DEF Key!Fill, Adding, Writing, Key!KeyKept, Key!Nothing, Key!Torn
  <2>2. /\ stored' = [stored EXCEPT ![name[c]] = key[c]] /\ UNCHANGED Key!listing
        /\ pc' = [pc EXCEPT ![c] = "idle"]
    BY <1>4 DEF Key!Fill
  <2> QED
    BY <2>1, <2>2
<1>5. ASSUME NEW c \in Handlers, NEW n \in KeyNames, Key!DeleteKey(c, n) PROVE Reading'
  BY <1>5 DEF Key!DeleteKey
<1>6. ASSUME NEW c \in Handlers, Key!ReadDir(c) PROVE Reading'
  BY <1>6 DEF Key!ReadDir, Key!KeyKept
<1>7. ASSUME NEW c \in Handlers, NEW n \in KeyNames, Key!ReadFile(c, n) PROVE Reading'
  <2>1. /\ entries' = [entries EXCEPT ![c] = @ \ {n}] /\ UNCHANGED <<pc, standing, stored>>
        /\ out' = [out EXCEPT ![c] = [@ EXCEPT ![n] = IF Key!Parses(n) THEN files[n]
                                                      ELSE Key!Nothing]]
    BY <1>7 DEF Key!ReadFile
  <2>2. n \in standing[c] \ {TrustFile} /\ pc[c] = "listing"
          => Key!Parses(n) /\ files[n] = stored[n]
    BY DEF Key!KeyKept, Key!Parses, Key!Nothing
  <2>3. ASSUME NEW d \in Handlers, NEW m \in standing'[d] \ {TrustFile}, pc'[d] = "listing"
        PROVE  stored'[m] # Key!Nothing /\ (m \in entries'[d] \/ out'[d][m] = stored'[m])
    <3>1. CASE d = c /\ m = n
      BY <2>1, <2>2, <2>3, <3>1
    <3>2. CASE d # c \/ m # n
      BY <2>1, <2>3, <3>2
    <3> QED
      BY <3>1, <3>2
  <2> QED
    BY <2>3
<1>8. ASSUME NEW c \in Handlers, Key!Answer(c) PROVE Reading'
  BY <1>8 DEF Key!Answer
<1>9. ASSUME Key!Restart PROVE Reading'
  BY <1>9 DEF Key!Restart
<1>10. ASSUME UNCHANGED Key!vars PROVE Reading'
  BY <1>10 DEF Key!vars
<1>11. ASSUME Key!SaveKnownHosts PROVE Reading'
  BY <1>11 DEF Key!SaveKnownHosts
<1> QED
  BY <1>2, <1>3, <1>4, <1>5, <1>6, <1>7, <1>8, <1>9, <1>10, <1>11 DEF Key!Next

\* A stored key is kept, and a listing that runs beside uploads, deletions and
\* the writing of known_hosts misses none but one of that name: of ssh/keystore.go, for any requests and restarts.
THEOREM KeyHolds ==
  ASSUME StoreBounded
  PROVE  Key!Spec => [](Key!TypeOK /\ Key!KeyKept /\ Key!ListingIsComplete)
<1>1. Key!Init => StoreInv
  BY DEF StoreBounded, Key!Init, StoreInv, Key!TypeOK, Adding, Writing, Key!KeyKept,
     Reading,
         Key!None, Key!Nothing, Key!Torn
<1>2. StoreInv /\ [Key!Next]_Key!vars => StoreInv'
  BY StoreTypeStep, StoreKeptStep, ReadingStep DEF StoreInv
<1>3. StoreInv => Key!TypeOK /\ Key!KeyKept /\ Key!ListingIsComplete
  BY DEF StoreInv, Reading, Key!ListingIsComplete
<1> QED
  BY <1>1, <1>2, <1>3, PTL DEF Key!Spec

\* The same of what the runs check.
THEOREM KeysAreKeptThroughout == ASSUME StoreBounded PROVE SumSpec => []KeysAreKept
<1>1. SumInit /\ focus = "key" => Key!Init
  BY DEF SumInit
<1>2. focus = "key" /\ [SumNext]_sumVars
        => [Key!Next]_Key!vars /\ (focus = "key")'
  BY DEF SumNext, accountOnly, knownOnly, keyOnly, tunnelOnly, fleetOnly, remoteOnly,
         commandOnly, containerOnly, serverOnly, filesOnly, sumVars, Key!request,
         Key!listing, Key!vars
<1>3. ~(focus = "key") /\ [SumNext]_sumVars => (~(focus = "key"))'
  BY DEF SumNext, sumVars
<1>4. (focus = "key" => Key!TypeOK /\ Key!KeyKept /\ Key!ListingIsComplete)
        => KeysAreKept
  BY DEF KeysAreKept
<1>5. Key!Spec => [](Key!TypeOK /\ Key!KeyKept /\ Key!ListingIsComplete)
  BY KeyHolds, PTL
<1> QED
  BY <1>1, <1>2, <1>3, <1>4, <1>5, PTL DEF SumSpec, Key!Spec

-----------------------------------------------------------------------------
\* There is a definition and an address to listen on, and what TLC bounds is bounded.
TunnelBounded == Ids # {} /\ Addrs # {} /\ MaxLive \in Nat /\ MaxTroubles \in Nat

\* What a handler has in hand follows from where it stands.
Stands(h) ==
  /\ op[h] = "none" <=> pc[h] = "idle"
  /\ pc[h] \in {"marked", "dialing", "started", "entered", "active", "failed"}
       => op[h] = "connect"
  /\ pc[h] = "stopped" => op[h] # "connect"
  /\ mine[h] # 0 <=> pc[h] \in {"closing", "waiting", "started", "entered", "active"}
  /\ mine[h] # 0 => mine[h] \in DOMAIN live /\ live[mine[h]].of = id[h]
  /\ pc[h] = "waiting" => ~live[mine[h]].listening
  /\ pc[h] # "idle" => row[id[h]] # "unborn"

\* The map holds tunnels of this process, each under its own id.
Maps(i) ==
  tunnels[i] # 0 => tunnels[i] \in DOMAIN live /\ live[tunnels[i]].of = i /\ row[i] # "unborn"

\* A connect that did not race has its tunnel to itself.
Lone ==
  \A h, g \in Handlers :
    h # g /\ op[h] = "connect" /\ op[g] # "none" /\ id[g] = id[h] => id[h] \in raced

\* What a handler that did not race knows of the map.
OnCourse(h) ==
  id[h] \notin raced =>
    /\ op[h] = "connect" =>
         /\ pc[h] \in {"closing", "waiting", "entered", "active"} => tunnels[id[h]] = mine[h]
         /\ pc[h] \in {"dialing", "started", "failed"} /\ tunnels[id[h]] # 0
              => ~live[tunnels[id[h]]].listening
         /\ Tunnel!Exists(id[h]) \/ id[h] \in blind
    /\ op[h] \in {"disconnect", "delete"} /\ pc[h] # "begun" => tunnels[id[h]] = 0

\* With the server go the rows, for good.
WithServer == ~server => blind = Ids /\ \A i \in Ids : ~Tunnel!Exists(i)

\* Tunnel!NothingRunsUnseen of one LiveTunnel, and Tunnel!RowFitsManager of one tunnel.
Seen(n) ==
  live[n].listening /\ live[n].of \notin raced =>
    tunnels[live[n].of] = n \/ \E h \in Handlers : mine[h] = n
Fits(i) ==
  i \notin raced /\ i \notin blind /\ (\A h \in Handlers : op[h] = "none" \/ id[h] # i) =>
    /\ row[i] # "connecting"
    /\ row[i] = "active" => tunnels[i] # 0
    /\ row[i] = "stopped" => tunnels[i] = 0
    /\ tunnels[i] # 0 /\ live[tunnels[i]].listening => row[i] = "active"

\* What keeps the two, beyond the types.
Sound ==
  /\ \A h \in Handlers : Stands(h) /\ OnCourse(h)
  /\ \A i \in Ids : Maps(i) /\ Fits(i)
  /\ \A n \in DOMAIN live : Seen(n)
  /\ Lone /\ WithServer

TunnelInv == Tunnel!TypeOK /\ live \in Seq(Tunnel!LiveTunnels) /\ Sound

Phases == {"idle", "begun", "marked", "closing", "waiting", "dialing", "started", "entered",
           "active", "failed", "stopped"}

LEMMA TunnelPlaces ==
  ASSUME TunnelInv
  PROVE  /\ row \in [Ids -> {"unborn", "gone", "stopped", "connecting", "active", "error"}]
         /\ listen \in [Ids -> Addrs] /\ tunnels \in [Ids -> 0..MaxLive]
         /\ pc \in [Handlers -> Phases] /\ id \in [Handlers -> Ids]
         /\ op \in [Handlers -> {"none", "connect", "disconnect", "delete"}]
         /\ addr \in [Handlers -> Addrs] /\ mine \in [Handlers -> 0..MaxLive]
         /\ server \in BOOLEAN /\ raced \subseteq Ids /\ blind \subseteq Ids
         /\ troubles \in 0..MaxTroubles
         /\ live \in Seq(Tunnel!LiveTunnels) /\ Len(live) <= MaxLive /\ Len(live) \in Nat
         /\ DOMAIN live = 1..Len(live) /\ 0 \notin DOMAIN live
         /\ \A n \in DOMAIN live : live[n] \in Tunnel!LiveTunnels
BY DEF TunnelInv, Tunnel!TypeOK, Phases

\* LiveTunnels change, and none listens again that did not.
Dimmed ==
  /\ live' \in Seq(Tunnel!LiveTunnels) /\ DOMAIN live' = DOMAIN live /\ Len(live') = Len(live)
  /\ \A n \in DOMAIN live : /\ live'[n].of = live[n].of
                            /\ live'[n].listening => live[n].listening

LEMMA DimmedByOne ==
  ASSUME live \in Seq(Tunnel!LiveTunnels), NEW n \in DOMAIN live, NEW e \in Tunnel!LiveTunnels,
         e.of = live[n].of, e.listening => live[n].listening,
         live' = [live EXCEPT ![n] = e]
  PROVE  Dimmed
<1>1. n \in 1..Len(live)
  OBVIOUS
<1>2. /\ live' \in Seq(Tunnel!LiveTunnels) /\ Len(live') = Len(live)
      /\ \A j \in 1..Len(live) : live'[j] = IF j = n THEN e ELSE live[j]
  BY <1>1, ExceptSeq
<1>3. DOMAIN live = 1..Len(live) /\ DOMAIN live' = 1..Len(live)
  BY <1>2
<1> QED
  BY <1>2, <1>3 DEF Dimmed

\* What closes a LiveTunnel, and what its goroutines do.
LEMMA ClosingDims ==
  ASSUME TunnelBounded, TunnelInv, NEW h \in Handlers, Tunnel!Close(h)
  PROVE  /\ pc[h] = "closing" /\ pc' = [pc EXCEPT ![h] = "waiting"]
         /\ Dimmed /\ mine[h] \in DOMAIN live /\ ~live'[mine[h]].listening
         /\ UNCHANGED <<server, row, listen, tunnels, op, id, addr, mine, raced, blind, troubles>>
<1> USE TunnelPlaces
<1>1. pc[h] = "closing" /\ mine[h] \in DOMAIN live
  BY DEF Tunnel!Close, Tunnel!Goto, TunnelInv, Sound, Stands
<1> DEFINE e == [live[mine[h]] EXCEPT !.status = "stopped", !.keepalive = FALSE,
                                      !.listening = FALSE, !.client = "closed"]
<1>2. live[mine[h]] \in Tunnel!LiveTunnels
  BY <1>1
<1>3. e \in Tunnel!LiveTunnels /\ e.of = live[mine[h]].of /\ ~e.listening
  BY <1>2 DEF Tunnel!LiveTunnels
<1>4. live' = [live EXCEPT ![mine[h]] = e]
  BY DEF Tunnel!Close
<1> HIDE DEF e
<1>5. Dimmed /\ ~live'[mine[h]].listening
  BY <1>1, <1>3, <1>4, DimmedByOne
<1> QED
  BY <1>1, <1>5 DEF Tunnel!Close, Tunnel!Goto, Tunnel!rows

LEMMA GoroutineDims ==
  ASSUME TunnelBounded, TunnelInv, NEW n \in Tunnel!Objects,
         Tunnel!LiveEnds(n) \/ Tunnel!ForwardFails(n) \/ Tunnel!PeerDies(n)
  PROVE  /\ Dimmed
         /\ UNCHANGED <<server, row, listen, tunnels, pc, op, id, addr, mine, raced, blind>>
         /\ troubles' = troubles \/ (troubles < MaxTroubles /\ troubles' = troubles + 1)
<1> USE TunnelPlaces DEF Tunnel!Goroutine, Tunnel!rows, Tunnel!handler, Tunnel!LiveEnds,
        Tunnel!Trouble
<1>1. n \in DOMAIN live
  BY DEF Tunnel!AcceptEnds, Tunnel!TransportEnds, Tunnel!KeepaliveFails, Tunnel!ForwardFails,
     Tunnel!PeerDies
<1>2. live[n] \in Tunnel!LiveTunnels
  BY <1>1
<1>3. \E e \in Tunnel!LiveTunnels :
        /\ e.of = live[n].of /\ live' = [live EXCEPT ![n] = e]
        /\ e.listening => live[n].listening
  <2>1. CASE Tunnel!AcceptEnds(n)
    <3> DEFINE e == [live[n] EXCEPT !.loop = FALSE, !.status = "disconnected"]
    <3>1. e \in Tunnel!LiveTunnels /\ e.of = live[n].of /\ (e.listening => live[n].listening)
      BY <1>2 DEF Tunnel!LiveTunnels
    <3>2. live' = [live EXCEPT ![n] = e]
      BY <2>1 DEF Tunnel!AcceptEnds
    <3> QED
      BY <3>1, <3>2
  <2>2. CASE Tunnel!ForwardFails(n)
    <3> DEFINE e == [live[n] EXCEPT !.status = "error"]
    <3>1. e \in Tunnel!LiveTunnels /\ e.of = live[n].of /\ (e.listening => live[n].listening)
      BY <1>2 DEF Tunnel!LiveTunnels
    <3>2. live' = [live EXCEPT ![n] = e]
      BY <2>2 DEF Tunnel!ForwardFails
    <3> QED
      BY <3>1, <3>2
  <2>3. CASE Tunnel!PeerDies(n)
    <3> DEFINE e == [live[n] EXCEPT !.client = "dead"]
    <3>1. e \in Tunnel!LiveTunnels /\ e.of = live[n].of /\ (e.listening => live[n].listening)
      BY <1>2 DEF Tunnel!LiveTunnels
    <3>2. live' = [live EXCEPT ![n] = e]
      BY <2>3 DEF Tunnel!PeerDies
    <3> QED
      BY <3>1, <3>2
  <2>4. CASE Tunnel!TransportEnds(n)
    <3> DEFINE e == [live[n] EXCEPT !.client = "closed",
                                 !.listening = @ /\ live[n].addr \notin Remote]
    <3>1. e \in Tunnel!LiveTunnels /\ e.of = live[n].of /\ (e.listening => live[n].listening)
      BY <1>2 DEF Tunnel!LiveTunnels
    <3>2. live' = [live EXCEPT ![n] = e]
      BY <2>4 DEF Tunnel!TransportEnds
    <3> QED
      BY <3>1, <3>2
  <2>5. CASE Tunnel!KeepaliveFails(n)
    <3> DEFINE e == [live[n] EXCEPT !.status = "disconnected", !.listening = FALSE,
                                 !.client = "closed", !.keepalive = FALSE]
    <3>1. e \in Tunnel!LiveTunnels /\ e.of = live[n].of /\ (e.listening => live[n].listening)
      BY <1>2 DEF Tunnel!LiveTunnels
    <3>2. live' = [live EXCEPT ![n] = e]
      BY <2>5 DEF Tunnel!KeepaliveFails
    <3> QED
      BY <3>1, <3>2
  <2> QED
    BY <2>1, <2>2, <2>3, <2>4, <2>5
<1>4. Dimmed
  BY <1>1, <1>3, DimmedByOne
<1> QED
  BY <1>4 DEF Tunnel!AcceptEnds, Tunnel!TransportEnds, Tunnel!KeepaliveFails,
     Tunnel!ForwardFails, Tunnel!PeerDies

\* A LiveTunnel that is launched is the last, and listens.
LEMMA LaunchEffect ==
  ASSUME TunnelBounded, TunnelInv, NEW h \in Handlers,
         Tunnel!StartLocal(h) \/ Tunnel!StartRemote(h)
  PROVE  /\ pc[h] = "dialing" /\ pc' = [pc EXCEPT ![h] = "started"]
         /\ mine' = [mine EXCEPT ![h] = Len(live) + 1]
         /\ addr' \in [Handlers -> Addrs]
         /\ live' \in Seq(Tunnel!LiveTunnels) /\ Len(live') = Len(live) + 1
         /\ Len(live) + 1 <= MaxLive /\ Len(live) + 1 # 0
         /\ DOMAIN live' = DOMAIN live \union {Len(live) + 1}
         /\ \A n \in DOMAIN live : live'[n] = live[n] /\ n # Len(live) + 1
         /\ live'[Len(live) + 1].of = id[h]
         /\ UNCHANGED <<server, row, listen, tunnels, op, id, raced, blind, troubles>>
<1> USE TunnelPlaces
<1>1. Tunnel!Launch(h)
  BY DEF Tunnel!StartLocal, Tunnel!StartRemote
<1> DEFINE e == [of |-> id[h], addr |-> addr[h], status |-> "", listening |-> TRUE,
                 client |-> "up", loop |-> TRUE, keepalive |-> TRUE]
<1>2. e \in Tunnel!LiveTunnels /\ e.of = id[h]
  BY DEF Tunnel!LiveTunnels
<1>3. live' = Append(live, e)
  BY <1>1 DEF Tunnel!Launch
<1> HIDE DEF e
<1>4. /\ live' \in Seq(Tunnel!LiveTunnels) /\ Len(live') = Len(live) + 1
      /\ \A n \in 1..Len(live) : live'[n] = live[n]
      /\ live'[Len(live) + 1] = e
  BY <1>2, <1>3, AppendProperties
<1>5. Len(live) + 1 <= MaxLive
  <2>1. Len(live) < MaxLive /\ Len(live) \in Nat /\ MaxLive \in Nat
    BY <1>1 DEF Tunnel!Launch, TunnelBounded
  <2> QED
    BY <2>1
<1>6. /\ DOMAIN live' = DOMAIN live \union {Len(live) + 1} /\ Len(live) + 1 # 0
      /\ \A n \in DOMAIN live : n # Len(live) + 1
  BY <1>4
<1>7. /\ pc[h] = "dialing" /\ pc' = [pc EXCEPT ![h] = "started"]
      /\ mine' = [mine EXCEPT ![h] = Len(live) + 1]
      /\ UNCHANGED <<server, row, listen, tunnels, op, id, raced, blind, troubles>>
  BY <1>1 DEF Tunnel!Launch, Tunnel!Goto, Tunnel!rows
<1>8. addr' \in [Handlers -> Addrs]
  <2>1. addr' = [addr EXCEPT ![h] = Tunnel!AnyAddr]
    BY <1>1 DEF Tunnel!Launch
  <2>2. Tunnel!AnyAddr \in Addrs
    BY DEF Tunnel!AnyAddr, TunnelBounded
  <2> QED
    BY <2>1, <2>2
<1> QED
  BY <1>2, <1>4, <1>5, <1>6, <1>7, <1>8

\* The status of a tunnel that runs.
LEMMA ActivateEffect ==
  ASSUME TunnelBounded, TunnelInv, NEW h \in Handlers, Tunnel!Activate(h)
  PROVE  /\ pc[h] = "entered" /\ pc' = [pc EXCEPT ![h] = "active"] /\ Dimmed
         /\ UNCHANGED <<server, row, listen, tunnels, op, id, addr, mine, raced, blind, troubles>>
<1> USE TunnelPlaces
<1>1. pc[h] = "entered" /\ mine[h] \in DOMAIN live
  BY DEF Tunnel!Activate, Tunnel!Goto, TunnelInv, Sound, Stands
<1> DEFINE e == [live[mine[h]] EXCEPT !.status = "active"]
<1>2. live[mine[h]] \in Tunnel!LiveTunnels
  BY <1>1
<1>3. /\ e \in Tunnel!LiveTunnels /\ e.of = live[mine[h]].of
      /\ e.listening => live[mine[h]].listening
  BY <1>2 DEF Tunnel!LiveTunnels
<1>4. live' = [live EXCEPT ![mine[h]] = e]
  BY DEF Tunnel!Activate
<1> HIDE DEF e
<1>5. Dimmed
  BY <1>1, <1>3, <1>4, DimmedByOne
<1> QED
  BY <1>1, <1>5 DEF Tunnel!Activate, Tunnel!Goto, Tunnel!rows

\* A handler that returns leaves its outcome in the row, or a row nobody may trust.
LEMMA ReturnEffect ==
  ASSUME TunnelBounded, TunnelInv, NEW h \in Handlers, Tunnel!Return(h)
  PROVE  /\ pc[h] \in {"active", "failed", "stopped"}
         /\ pc' = [pc EXCEPT ![h] = "idle"] /\ op' = [op EXCEPT ![h] = "none"]
         /\ mine' = [mine EXCEPT ![h] = 0] /\ addr' \in [Handlers -> Addrs] /\ Dimmed
         /\ UNCHANGED <<server, listen, tunnels, id, raced>>
         /\ \/ /\ \/ op[h] = "delete" /\ row' = [row EXCEPT ![id[h]] = "gone"]
                  \/ /\ op[h] # "delete" /\ Tunnel!Exists(id[h])
                     /\ row' = [row EXCEPT ![id[h]] = Tunnel!Outcome(h)]
                  \/ op[h] # "delete" /\ ~Tunnel!Exists(id[h]) /\ row' = row
               /\ blind' = IF Tunnel!Exists(id[h]) THEN blind \ {id[h]} ELSE blind
               /\ troubles' = troubles
            \/ /\ row' = row /\ blind' = blind \union {id[h]}
               /\ troubles < MaxTroubles /\ troubles' = troubles + 1
<1> USE TunnelPlaces DEF Tunnel!Return
<1>1. pc[h] \in {"active", "failed", "stopped"} /\ (pc[h] = "active" => mine[h] \in DOMAIN live)
  BY DEF TunnelInv, Sound, Stands
<1>2. Dimmed
  <2>1. CASE pc[h] = "active"
    <3> DEFINE e == [live[mine[h]] EXCEPT !.keepalive = FALSE]
    <3>1. live[mine[h]] \in Tunnel!LiveTunnels
      BY <1>1, <2>1
    <3>2. /\ e \in Tunnel!LiveTunnels /\ e.of = live[mine[h]].of
          /\ e.listening => live[mine[h]].listening
      BY <3>1 DEF Tunnel!LiveTunnels
    <3>3. live' = [live EXCEPT ![mine[h]] = e]
      BY <2>1
    <3> HIDE DEF e, Tunnel!Return
    <3> QED
      BY <1>1, <2>1, <3>2, <3>3, DimmedByOne
  <2>2. CASE pc[h] # "active"
    BY <2>2 DEF Dimmed
  <2> QED
    BY <2>1, <2>2
<1>3. addr' \in [Handlers -> Addrs]
  <2>1. addr' = [addr EXCEPT ![h] = Tunnel!AnyAddr]
    OBVIOUS
  <2>2. Tunnel!AnyAddr \in Addrs
    BY DEF Tunnel!AnyAddr, TunnelBounded
  <2> QED
    BY <2>1, <2>2
<1> QED
  BY <1>1, <1>2, <1>3 DEF Tunnel!Record, Tunnel!SetStatus, Tunnel!Erase, Tunnel!Trouble

\* Every step keeps the types.
LEMMA TunnelTypeStep ==
  ASSUME TunnelBounded, TunnelInv, [Tunnel!Next]_Tunnel!vars
  PROVE  Tunnel!TypeOK' /\ live' \in Seq(Tunnel!LiveTunnels)
<1> USE TunnelPlaces DEF Tunnel!rows, Tunnel!manager, Tunnel!handler, Tunnel!Goto
<1> DEFINE Typed ==
      /\ row \in [Ids -> {"unborn", "gone", "stopped", "connecting", "active", "error"}]
      /\ listen \in [Ids -> Addrs] /\ tunnels \in [Ids -> 0..MaxLive]
      /\ pc \in [Handlers -> Phases] /\ id \in [Handlers -> Ids]
      /\ op \in [Handlers -> {"none", "connect", "disconnect", "delete"}]
      /\ addr \in [Handlers -> Addrs] /\ mine \in [Handlers -> 0..MaxLive]
      /\ server \in BOOLEAN /\ raced \subseteq Ids /\ blind \subseteq Ids
<1>a. Typed /\ MaxLive \in Nat /\ 0 \in 0..MaxLive
  BY DEF TunnelBounded
<1>b. Tunnel!AnyAddr \in Addrs
  BY DEF Tunnel!AnyAddr, TunnelBounded
<1>c. ASSUME Typed', troubles' \in 0..MaxTroubles, live' \in Seq(Tunnel!LiveTunnels),
             Len(live') <= MaxLive
      PROVE  Tunnel!TypeOK'
  <2>1. \A n \in DOMAIN live' : live'[n] \in Tunnel!LiveTunnels
    BY <1>c
  <2> QED
    BY <1>c, <2>1 DEF Tunnel!TypeOK, Phases
<1>t. ASSUME troubles' = troubles \/ (troubles < MaxTroubles /\ troubles' = troubles + 1)
      PROVE  troubles' \in 0..MaxTroubles
  <2>1. troubles \in 0..MaxTroubles /\ MaxTroubles \in Nat
    BY DEF TunnelBounded
  <2> QED
    BY <1>t, <2>1
<1>d. Dimmed => live' \in Seq(Tunnel!LiveTunnels) /\ Len(live') <= MaxLive
  BY DEF Dimmed
<1>1. ASSUME NEW i \in Ids, NEW a \in Addrs, Tunnel!Create(i, a) \/ Tunnel!Update(i, a)
      PROVE  Tunnel!TypeOK' /\ live' \in Seq(Tunnel!LiveTunnels)
  <2>1. /\ row' = row \/ row' = [row EXCEPT ![i] = "stopped"]
        /\ listen' = [listen EXCEPT ![i] = a]
        /\ UNCHANGED <<server, tunnels, live, pc, op, id, addr, mine, raced, blind, troubles>>
    BY <1>1 DEF Tunnel!Create, Tunnel!Update, Tunnel!Insert, Tunnel!Replace
  <2>2. Typed'
    BY <1>a, <2>1
  <2> QED
    BY <1>c, <1>t, <2>1, <2>2
<1>2. ASSUME NEW h \in Handlers, NEW i \in Ids,
             NEW what \in {"connect", "disconnect", "delete"}, Tunnel!Begin(h, i, what)
      PROVE  Tunnel!TypeOK' /\ live' \in Seq(Tunnel!LiveTunnels)
  <2>1. /\ pc' = [pc EXCEPT ![h] = "begun"] /\ op' = [op EXCEPT ![h] = what]
        /\ id' = [id EXCEPT ![h] = i] /\ addr' \in [Handlers -> Addrs]
        /\ raced' = raced \/ raced' = raced \union {i}
        /\ UNCHANGED <<server, row, listen, tunnels, live, mine, blind, troubles>>
    BY <1>2 DEF Tunnel!Begin
  <2>2. Typed'
    BY <1>a, <2>1 DEF Phases
  <2> QED
    BY <1>c, <1>t, <2>1, <2>2
<1>3. ASSUME NEW h \in Handlers,
             \/ Tunnel!MarkConnecting(h) \/ Tunnel!ServerNotFound(h) \/ Tunnel!FindExisting(h)
             \/ Tunnel!Remove(h) \/ Tunnel!Closed(h) \/ Tunnel!ConnectFails(h)
             \/ Tunnel!Enter(h)
      PROVE  Tunnel!TypeOK' /\ live' \in Seq(Tunnel!LiveTunnels)
  <2>1. /\ \E to \in Phases : pc' = [pc EXCEPT ![h] = to]
        /\ op' \in {op, [op EXCEPT ![h] = "none"]}
        /\ addr' \in {addr, [addr EXCEPT ![h] = Tunnel!AnyAddr]}
        /\ mine' = mine \/ \E n \in 0..MaxLive : mine' = [mine EXCEPT ![h] = n]
        /\ tunnels' = tunnels \/ \E n \in 0..MaxLive : tunnels' = [tunnels EXCEPT ![id[h]] = n]
        /\ row' \in {row, [row EXCEPT ![id[h]] = "connecting"]}
        /\ UNCHANGED <<server, listen, live, id, raced, blind, troubles>>
    BY <1>a, <1>3 DEF Phases, Tunnel!MarkConnecting, Tunnel!ServerNotFound, Tunnel!FindExisting,
       Tunnel!Remove, Tunnel!Closed, Tunnel!ConnectFails, Tunnel!Enter, Tunnel!SetStatus
  <2>2. pc' \in [Handlers -> Phases]
    <3>1. PICK to \in Phases : pc' = [pc EXCEPT ![h] = to]
      BY <2>1
    <3> QED
      BY <1>a, <3>1
  <2>3. op' \in [Handlers -> {"none", "connect", "disconnect", "delete"}]
    <3>1. CASE op' = op
      BY <1>a, <3>1
    <3>2. CASE op' = [op EXCEPT ![h] = "none"]
      BY <1>a, <3>2
    <3> QED
      BY <2>1, <3>1, <3>2
  <2>4. addr' \in [Handlers -> Addrs]
    <3>1. CASE addr' = addr
      BY <1>a, <3>1
    <3>2. CASE addr' = [addr EXCEPT ![h] = Tunnel!AnyAddr]
      BY <1>a, <1>b, <3>2
    <3> QED
      BY <2>1, <3>1, <3>2
  <2>5. mine' \in [Handlers -> 0..MaxLive]
    <3>1. CASE mine' = mine
      BY <1>a, <3>1
    <3>2. ASSUME NEW n \in 0..MaxLive, mine' = [mine EXCEPT ![h] = n]
          PROVE  mine' \in [Handlers -> 0..MaxLive]
      BY <1>a, <3>2
    <3> QED
      BY <2>1, <3>1, <3>2
  <2>6. tunnels' \in [Ids -> 0..MaxLive]
    <3>1. CASE tunnels' = tunnels
      BY <1>a, <3>1
    <3>2. ASSUME NEW n \in 0..MaxLive, tunnels' = [tunnels EXCEPT ![id[h]] = n]
          PROVE  tunnels' \in [Ids -> 0..MaxLive]
      BY <1>a, <3>2
    <3> QED
      BY <2>1, <3>1, <3>2
  <2>7. row' \in [Ids -> {"unborn", "gone", "stopped", "connecting", "active", "error"}]
    BY <1>a, <2>1
  <2>8. Typed'
    BY <1>a, <2>1, <2>2, <2>3, <2>4, <2>5, <2>6, <2>7
  <2> QED
    BY <1>c, <1>t, <2>1, <2>8
<1>4. ASSUME NEW h \in Handlers, Tunnel!StartLocal(h) \/ Tunnel!StartRemote(h)
      PROVE  Tunnel!TypeOK' /\ live' \in Seq(Tunnel!LiveTunnels)
  <2>1. Len(live) + 1 \in 0..MaxLive
    BY <1>4, LaunchEffect DEF TunnelBounded
  <2>2. Typed'
    <3>1. /\ pc' = [pc EXCEPT ![h] = "started"] /\ addr' \in [Handlers -> Addrs]
          /\ mine' = [mine EXCEPT ![h] = Len(live) + 1]
          /\ UNCHANGED <<server, row, listen, tunnels, op, id, raced, blind>>
      BY <1>4, LaunchEffect
    <3>2. PICK n \in 0..MaxLive : mine' = [mine EXCEPT ![h] = n]
      BY <2>1, <3>1
    <3> QED
      BY <1>a, <3>1, <3>2 DEF Phases
  <2>3. live' \in Seq(Tunnel!LiveTunnels) /\ Len(live') <= MaxLive /\ troubles' = troubles
    BY <1>4, LaunchEffect
  <2> QED
    BY <1>c, <1>t, <2>2, <2>3
<1>5. ASSUME NEW h \in Handlers, Tunnel!Close(h) \/ Tunnel!Activate(h)
      PROVE  Tunnel!TypeOK' /\ live' \in Seq(Tunnel!LiveTunnels)
  <2>1. /\ \E to \in Phases : pc' = [pc EXCEPT ![h] = to]
        /\ UNCHANGED <<server, row, listen, tunnels, op, id, addr, mine, raced, blind, troubles>>
        /\ Dimmed
    BY <1>5, ClosingDims, ActivateEffect DEF Phases
  <2>2. Typed'
    BY <1>a, <2>1
  <2> QED
    BY <1>c, <1>d, <1>t, <2>1, <2>2
<1>6. ASSUME NEW h \in Handlers, Tunnel!Return(h)
      PROVE  Tunnel!TypeOK' /\ live' \in Seq(Tunnel!LiveTunnels)
  <2>1. /\ pc' = [pc EXCEPT ![h] = "idle"] /\ op' = [op EXCEPT ![h] = "none"]
        /\ mine' = [mine EXCEPT ![h] = 0] /\ addr' \in [Handlers -> Addrs] /\ Dimmed
        /\ UNCHANGED <<server, listen, tunnels, id, raced>>
        /\ row' = row \/ \E s \in {"gone", "stopped", "active", "error"} :
                           row' = [row EXCEPT ![id[h]] = s]
        /\ blind' \subseteq Ids
        /\ troubles' = troubles \/ (troubles < MaxTroubles /\ troubles' = troubles + 1)
    BY <1>6, ReturnEffect DEF Tunnel!Outcome
  <2>2. Typed'
    BY <1>a, <2>1 DEF Phases
  <2> QED
    BY <1>c, <1>d, <1>t, <2>1, <2>2
<1>7. ASSUME NEW n \in Tunnel!Objects,
             Tunnel!LiveEnds(n) \/ Tunnel!ForwardFails(n) \/ Tunnel!PeerDies(n)
      PROVE  Tunnel!TypeOK' /\ live' \in Seq(Tunnel!LiveTunnels)
  <2>1. /\ Dimmed
        /\ UNCHANGED <<server, row, listen, tunnels, pc, op, id, addr, mine, raced, blind>>
        /\ troubles' = troubles \/ (troubles < MaxTroubles /\ troubles' = troubles + 1)
    BY <1>7, GoroutineDims
  <2>2. Typed'
    BY <1>a, <2>1
  <2> QED
    BY <1>c, <1>d, <1>t, <2>1, <2>2
<1>8. CASE Tunnel!DeleteServer \/ Tunnel!Restart
  <2>1. /\ server' \in BOOLEAN /\ blind' = Ids /\ raced' \subseteq Ids
        /\ UNCHANGED <<listen, id>> /\ tunnels' \in [Ids -> 0..MaxLive]
        /\ row' = row \/ row' = [i \in Ids |-> IF Tunnel!Exists(i) THEN "gone" ELSE row[i]]
        /\ live' = live \/ live' = <<>>
        /\ troubles' = troubles \/ (troubles < MaxTroubles /\ troubles' = troubles + 1)
    BY <1>a, <1>8 DEF Tunnel!DeleteServer, Tunnel!Restart, Tunnel!Trouble
  <2>2. /\ pc' \in [Handlers -> Phases] /\ mine' \in [Handlers -> 0..MaxLive]
        /\ op' \in [Handlers -> {"none", "connect", "disconnect", "delete"}]
        /\ addr' \in [Handlers -> Addrs]
    BY <1>a, <1>b, <1>8 DEF Tunnel!DeleteServer, Tunnel!Restart, Phases
  <2>3. row' \in [Ids -> {"unborn", "gone", "stopped", "connecting", "active", "error"}]
    BY <1>a, <2>1
  <2>4. Typed'
    BY <1>a, <2>1, <2>2, <2>3
  <2>5. live' \in Seq(Tunnel!LiveTunnels) /\ Len(live') <= MaxLive
    <3>1. CASE live' = live
      BY <3>1
    <3>2. CASE live' = <<>>
      <4>1. Len(<<>>) = 0 /\ <<>> \in Seq(Tunnel!LiveTunnels) /\ 0 <= MaxLive
        BY <1>a
      <4> QED
        BY <3>2, <4>1
    <3> QED
      BY <2>1, <3>1, <3>2
  <2> QED
    BY <1>c, <1>t, <2>1, <2>4, <2>5
<1>9. CASE UNCHANGED Tunnel!vars
  BY <1>9 DEF Tunnel!vars, TunnelInv, Tunnel!TypeOK
<1> QED
  BY <1>1, <1>2, <1>3, <1>4, <1>5, <1>6, <1>7, <1>8, <1>9 DEF Tunnel!Next, Tunnel!Handle

\* LiveTunnels keep their place and their id, and none listens again that did not.
Grown ==
  /\ DOMAIN live \subseteq DOMAIN live'
  /\ \A n \in DOMAIN live : /\ live'[n].of = live[n].of
                            /\ live'[n].listening => live[n].listening

\* What nobody touches stays sound.
LEMMA SameStands ==
  ASSUME NEW g \in Handlers, Stands(g), Grown, pc'[g] = pc[g], op'[g] = op[g],
         id'[g] = id[g], mine'[g] = mine[g],
         row[id[g]] # "unborn" => row'[id[g]] # "unborn"
  PROVE  Stands(g)'
BY DEF Stands, Grown

LEMMA SameCourse ==
  ASSUME NEW g \in Handlers, OnCourse(g), Grown, Maps(id[g]), pc'[g] = pc[g], op'[g] = op[g],
         id'[g] = id[g], mine'[g] = mine[g], raced \subseteq raced',
         tunnels'[id[g]] = tunnels[id[g]],
         Tunnel!Exists(id[g]) \/ id[g] \in blind => Tunnel!Exists(id[g])' \/ id[g] \in blind'
  PROVE  OnCourse(g)'
BY DEF OnCourse, Grown, Maps

LEMMA SameMaps ==
  ASSUME NEW i \in Ids, Maps(i), Grown, tunnels'[i] = tunnels[i] \/ tunnels'[i] = 0,
         row[i] # "unborn" => row'[i] # "unborn"
  PROVE  Maps(i)'
BY DEF Maps, Grown

LEMMA SameFits ==
  ASSUME NEW i \in Ids, Fits(i), Maps(i), Grown, tunnels'[i] = tunnels[i], row'[i] = row[i],
         i \in raced => i \in raced', i \in blind => i \in blind',
         (\A g \in Handlers : op'[g] = "none" \/ id'[g] # i) =>
           (\A g \in Handlers : op[g] = "none" \/ id[g] # i)
  PROVE  Fits(i)'
BY DEF Fits, Maps, Grown

LEMMA SameSeen ==
  ASSUME NEW n \in DOMAIN live, Seen(n), Grown, raced \subseteq raced',
         tunnels[live[n].of] = n => tunnels'[live[n].of] = n \/ \E g \in Handlers : mine'[g] = n,
         \A h \in Handlers : mine[h] = n =>
           tunnels'[live[n].of] = n \/ \E g \in Handlers : mine'[g] = n
  PROVE  Seen(n)'
BY DEF Seen, Grown

\* A handler's step, seen from the others: it has to keep itself and its tunnel sound.
LEMMA Apart ==
  ASSUME TunnelBounded, TunnelInv, NEW h \in Handlers, Grown,
         \A g \in Handlers \ {h} : /\ pc'[g] = pc[g] /\ op'[g] = op[g] /\ mine'[g] = mine[g],
         id' = id, raced' = raced, server' = server, op'[h] \in {op[h], "none"},
         \A j \in Ids \ {id[h]} : /\ tunnels'[j] = tunnels[j] /\ row'[j] = row[j]
                                  /\ j \in blind' <=> j \in blind,
         row[id[h]] # "unborn" => row'[id[h]] # "unborn",
         op[h] # "connect" /\ tunnels[id[h]] = 0 => tunnels'[id[h]] = 0,
         ~server => /\ row' = row \/ ~Tunnel!Exists(id[h])'
                    /\ blind \subseteq blind' /\ blind' \subseteq Ids,
         op[h] # "none",
         Stands(h)', OnCourse(h)', Maps(id[h])', Fits(id[h])', \A n \in DOMAIN live' : Seen(n)'
  PROVE  Sound'
<1>0. Sound /\ id \in [Handlers -> Ids]
  BY TunnelPlaces DEF TunnelInv
<1>1. ASSUME NEW g \in Handlers \ {h} PROVE Stands(g)'
  BY <1>0, <1>1, SameStands DEF Sound
<1>2. ASSUME NEW g \in Handlers \ {h} PROVE OnCourse(g)'
  <2>1. CASE id[g] # id[h]
    BY <1>0, <1>2, <2>1, SameCourse DEF Sound, Tunnel!Exists
  <2>2. CASE id[g] = id[h]
    <3>1. id[g] \in raced \/ op[g] = "none" \/ (op[h] # "connect" /\ op[g] # "connect")
      BY <1>0, <1>2, <2>2 DEF Sound, Lone
    <3>2. OnCourse(g) /\ op'[g] = op[g] /\ id'[g] = id[g] /\ pc'[g] = pc[g]
      BY <1>0, <1>2 DEF Sound
    <3> QED
      BY <2>2, <3>1, <3>2 DEF OnCourse
  <2> QED
    BY <2>1, <2>2
<1>3. ASSUME NEW j \in Ids \ {id[h]} PROVE Maps(j)' /\ Fits(j)'
  <2>1. (\A g \in Handlers : op'[g] = "none" \/ id'[g] # j) =>
          (\A g \in Handlers : op[g] = "none" \/ id[g] # j)
    OBVIOUS
  <2> QED
    BY <1>0, <1>3, <2>1, SameMaps, SameFits DEF Sound
<1>4. Lone'
  BY <1>0 DEF Sound, Lone
<1>5. WithServer'
  <2>1. ASSUME ~server PROVE blind' = Ids /\ \A i \in Ids : ~Tunnel!Exists(i)'
    <3>1. blind = Ids /\ \A i \in Ids : ~Tunnel!Exists(i)
      BY <1>0, <2>1 DEF Sound, WithServer
    <3> QED
      BY <1>0, <2>1, <3>1 DEF Tunnel!Exists
  <2> QED
    BY <2>1 DEF WithServer
<1>6. \A g \in Handlers : Stands(g)' /\ OnCourse(g)'
  BY <1>1, <1>2
<1>7. \A i \in Ids : Maps(i)' /\ Fits(i)'
  BY <1>3
<1> QED
  BY <1>4, <1>5, <1>6, <1>7 DEF Sound

\* The steps of a handler, one by one.
LEMMA HandlerSound ==
  ASSUME TunnelBounded, TunnelInv, NEW h \in Handlers, Tunnel!Handle(h)
  PROVE  Sound'
<1> USE TunnelPlaces DEF Phases
<1>0. /\ Stands(h) /\ OnCourse(h) /\ Maps(id[h]) /\ Fits(id[h]) /\ Lone /\ WithServer
      /\ \A n \in DOMAIN live : Seen(n) /\ live[n].of \in Ids
      /\ \A g \in Handlers : Stands(g)
      /\ id[h] \in Ids
  <2>1. \A n \in DOMAIN live : live[n].of \in Ids
    BY DEF Tunnel!LiveTunnels
  <2> QED
    BY <2>1 DEF TunnelInv, Sound
<1> DEFINE Others == \A g \in Handlers \ {h} : /\ pc'[g] = pc[g] /\ op'[g] = op[g]
                                               /\ mine'[g] = mine[g]
           Elsewhere == \A j \in Ids \ {id[h]} : /\ tunnels'[j] = tunnels[j] /\ row'[j] = row[j]
                                                 /\ j \in blind' <=> j \in blind
\* Where no LiveTunnel and no map entry changes, nor what a handler has in hand.
<1>s. ASSUME Grown, DOMAIN live' = DOMAIN live, tunnels' = tunnels, mine' = mine, raced' = raced
      PROVE  \A n \in DOMAIN live' : Seen(n)'
  BY <1>0, <1>s, SameSeen
<1>m. ASSUME live' = live PROVE Grown /\ DOMAIN live' = DOMAIN live
  BY <1>m DEF Grown
<1>f. ASSUME op'[h] # "none", id' = id PROVE Fits(id[h])'
  BY <1>f DEF Fits
<1>1. CASE Tunnel!MarkConnecting(h)
  <2>1. /\ pc[h] = "begun" /\ op[h] = "connect" /\ server
        /\ pc' = [pc EXCEPT ![h] = "marked"]
        /\ row' = IF Tunnel!Exists(id[h]) THEN [row EXCEPT ![id[h]] = "connecting"] ELSE row
        /\ UNCHANGED <<server, tunnels, live, op, id, mine, raced, blind>>
    BY <1>1 DEF Tunnel!MarkConnecting, Tunnel!SetStatus, Tunnel!Goto, Tunnel!manager
  <2>2. pc'[h] = "marked" /\ Others /\ Elsewhere
    BY <2>1
  <2>3. Grown /\ (\A n \in DOMAIN live' : Seen(n)') /\ Fits(id[h])'
    BY <1>f, <1>m, <1>s, <1>0, <2>1
  <2>4. row'[id[h]] = row[id[h]] \/ (Tunnel!Exists(id[h]) /\ row'[id[h]] = "connecting")
    BY <2>1
  <2>5. Stands(h)' /\ Maps(id[h])'
    BY <1>0, <2>1, <2>2, <2>4 DEF Stands, Maps, Tunnel!Exists
  <2>6. OnCourse(h)'
    BY <1>0, <2>1, <2>2, <2>4 DEF OnCourse, Tunnel!Exists
  <2> QED
    BY <1>0, <2>1, <2>2, <2>3, <2>4, <2>5, <2>6, Apart
<1>2. CASE Tunnel!ServerNotFound(h)
  <2>1. /\ pc[h] = "begun" /\ op[h] = "connect" /\ ~server
        /\ pc' = [pc EXCEPT ![h] = "idle"] /\ op' = [op EXCEPT ![h] = "none"]
        /\ UNCHANGED <<server, row, tunnels, live, id, mine, raced, blind>>
    BY <1>2 DEF Tunnel!ServerNotFound, Tunnel!Goto, Tunnel!manager, Tunnel!rows
  <2>2. pc'[h] = "idle" /\ op'[h] = "none" /\ Others /\ Elsewhere
    BY <2>1
  <2>3. Grown /\ (\A n \in DOMAIN live' : Seen(n)')
    BY <1>m, <1>s, <2>1
  <2>4. Fits(id[h])'
    BY <1>0, <2>1 DEF WithServer, Fits
  <2>5. Stands(h)' /\ OnCourse(h)' /\ Maps(id[h])'
    BY <1>0, <2>1, <2>2 DEF Stands, Maps, OnCourse
  <2> QED
    BY <1>0, <2>1, <2>2, <2>3, <2>4, <2>5, Apart
<1>3. CASE Tunnel!FindExisting(h)
  <2>1. /\ pc[h] = "marked" /\ op[h] = "connect"
        /\ pc' = [pc EXCEPT ![h] = IF tunnels[id[h]] = 0 THEN "dialing" ELSE "closing"]
        /\ mine' = [mine EXCEPT ![h] = tunnels[id[h]]]
        /\ UNCHANGED <<server, row, tunnels, live, op, id, raced, blind>>
    BY <1>3 DEF Tunnel!FindExisting, Tunnel!Goto, Tunnel!manager, Tunnel!rows
  <2>2. /\ pc'[h] = (IF tunnels[id[h]] = 0 THEN "dialing" ELSE "closing")
        /\ mine'[h] = tunnels[id[h]] /\ Others /\ Elsewhere
    BY <2>1
  <2>3. Grown /\ Fits(id[h])'
    BY <1>f, <1>m, <2>1
  <2>4. \A n \in DOMAIN live' : Seen(n)'
    <3>1. \A n \in DOMAIN live, g \in Handlers : mine[g] = n => g # h
      BY <1>0, <2>1 DEF Stands
    <3> QED
      BY <1>0, <2>1, <2>2, <2>3, <3>1, SameSeen
  <2>5. Stands(h)' /\ OnCourse(h)' /\ Maps(id[h])'
    BY <1>0, <2>1, <2>2 DEF Stands, Maps, OnCourse, Tunnel!Exists
  <2> QED
    BY <1>0, <2>1, <2>2, <2>3, <2>4, <2>5, Apart
<1>4. CASE Tunnel!Remove(h)
  <2>1. /\ pc[h] = "begun" /\ op[h] \in {"disconnect", "delete"}
        /\ pc' = [pc EXCEPT ![h] = IF tunnels[id[h]] = 0 THEN "stopped" ELSE "closing"]
        /\ mine' = [mine EXCEPT ![h] = tunnels[id[h]]]
        /\ tunnels' = [tunnels EXCEPT ![id[h]] = 0]
        /\ UNCHANGED <<server, row, live, op, id, raced, blind>>
    BY <1>4 DEF Tunnel!Remove, Tunnel!Goto, Tunnel!rows
  <2>2. /\ pc'[h] = (IF tunnels[id[h]] = 0 THEN "stopped" ELSE "closing")
        /\ mine'[h] = tunnels[id[h]] /\ tunnels'[id[h]] = 0 /\ Others /\ Elsewhere
    BY <2>1
  <2>3. Grown /\ Fits(id[h])'
    BY <1>f, <1>m, <2>1
  <2>4. ASSUME NEW n \in DOMAIN live PROVE Seen(n)'
    <3>1. \A g \in Handlers : mine[g] = n => mine'[g] = n
      BY <1>0, <2>1, <2>2 DEF Stands
    <3>2. tunnels[live[n].of] = n => tunnels'[live[n].of] = n \/ mine'[h] = n
      BY <1>0, <2>2
    <3> QED
      BY <1>0, <2>1, <2>3, <3>1, <3>2, SameSeen
  <2>5. Stands(h)' /\ Maps(id[h])'
    BY <1>0, <2>1, <2>2 DEF Stands, Maps
  <2>6. OnCourse(h)'
    BY <2>1, <2>2 DEF OnCourse
  <2> QED
    BY <1>0, <2>1, <2>2, <2>3, <2>4, <2>5, <2>6, Apart
<1>5. CASE Tunnel!Close(h)
  <2>1. /\ pc[h] = "closing" /\ pc' = [pc EXCEPT ![h] = "waiting"]
        /\ Grown /\ DOMAIN live' = DOMAIN live
        /\ mine[h] \in DOMAIN live /\ ~live'[mine[h]].listening
        /\ UNCHANGED <<server, row, tunnels, op, id, mine, raced, blind>>
    BY <1>5, ClosingDims DEF Dimmed, Grown
  <2>2. pc'[h] = "waiting" /\ Others /\ Elsewhere
    BY <2>1
  <2>3. (\A n \in DOMAIN live' : Seen(n)') /\ Fits(id[h])'
    BY <1>0, <1>f, <1>s, <2>1 DEF Stands
  <2>4. Stands(h)'
    BY <1>0, <2>1, <2>2 DEF Stands, Grown
  <2>5. OnCourse(h)' /\ Maps(id[h])'
    BY <1>0, <2>1, <2>2 DEF Maps, OnCourse, Grown, Tunnel!Exists
  <2> QED
    BY <1>0, <2>1, <2>2, <2>3, <2>4, <2>5, Apart DEF Stands
<1>6. CASE Tunnel!Closed(h)
  <2>1. /\ pc[h] = "waiting"
        /\ pc' = [pc EXCEPT ![h] = IF op[h] = "connect" THEN "dialing" ELSE "stopped"]
        /\ mine' = [mine EXCEPT ![h] = 0]
        /\ UNCHANGED <<server, row, tunnels, live, op, id, raced, blind>>
    BY <1>6 DEF Tunnel!Closed, Tunnel!Goto, Tunnel!manager, Tunnel!rows
  <2>2. /\ pc'[h] = (IF op[h] = "connect" THEN "dialing" ELSE "stopped")
        /\ mine'[h] = 0 /\ Others /\ Elsewhere
    BY <2>1
  <2>3. Grown /\ Fits(id[h])' /\ op[h] # "none"
    BY <1>0, <1>f, <1>m, <2>1 DEF Stands
  <2>4. ASSUME NEW n \in DOMAIN live PROVE Seen(n)'
    <3>1. CASE n = mine[h]
      BY <1>0, <2>1, <3>1 DEF Stands, Seen
    <3>2. CASE n # mine[h]
      BY <1>0, <2>1, <2>2, <2>3, <3>2, SameSeen
    <3> QED
      BY <3>1, <3>2
  <2>5. Stands(h)' /\ Maps(id[h])'
    BY <1>0, <2>1, <2>2, <2>3 DEF Stands, Maps
  <2>6. OnCourse(h)'
    BY <1>0, <2>1, <2>2 DEF Stands, OnCourse, Tunnel!Exists
  <2> QED
    BY <1>0, <2>1, <2>2, <2>3, <2>4, <2>5, <2>6, Apart
<1>7. CASE Tunnel!ConnectFails(h)
  <2>1. /\ pc[h] = "dialing" /\ pc' = [pc EXCEPT ![h] = "failed"]
        /\ UNCHANGED <<server, row, tunnels, live, op, id, mine, raced, blind>>
    BY <1>7 DEF Tunnel!ConnectFails, Tunnel!Goto, Tunnel!manager, Tunnel!rows
  <2>2. pc'[h] = "failed" /\ Others /\ Elsewhere
    BY <2>1
  <2>3. op[h] = "connect"
    BY <1>0, <2>1 DEF Stands
  <2>4. Grown /\ (\A n \in DOMAIN live' : Seen(n)') /\ Fits(id[h])'
    BY <1>f, <1>m, <1>s, <2>1, <2>3
  <2>5. Stands(h)' /\ OnCourse(h)' /\ Maps(id[h])'
    BY <1>0, <2>1, <2>2, <2>3 DEF Stands, Maps, OnCourse, Tunnel!Exists
  <2> QED
    BY <1>0, <2>1, <2>2, <2>3, <2>4, <2>5, Apart
<1>8. CASE Tunnel!StartLocal(h) \/ Tunnel!StartRemote(h)
  <2>1. /\ pc[h] = "dialing" /\ pc' = [pc EXCEPT ![h] = "started"]
        /\ mine' = [mine EXCEPT ![h] = Len(live) + 1] /\ Len(live) + 1 # 0
        /\ DOMAIN live' = DOMAIN live \union {Len(live) + 1}
        /\ \A n \in DOMAIN live : live'[n] = live[n]
        /\ live'[Len(live) + 1].of = id[h]
        /\ UNCHANGED <<server, row, tunnels, op, id, raced, blind>>
    BY <1>8, LaunchEffect
  <2>2. PICK new \in DOMAIN live' : /\ mine' = [mine EXCEPT ![h] = new] /\ new # 0
                                    /\ DOMAIN live' = DOMAIN live \union {new}
                                    /\ live'[new].of = id[h]
    BY <2>1
  <2>3. pc'[h] = "started" /\ mine'[h] = new /\ Others /\ Elsewhere
    BY <2>1, <2>2
  <2>4. op[h] = "connect" /\ mine[h] = 0 /\ Grown
    BY <1>0, <2>1 DEF Stands, Grown
  <2>5. Fits(id[h])'
    BY <1>f, <2>1, <2>4
  <2>6. ASSUME NEW n \in DOMAIN live' PROVE Seen(n)'
    <3>1. CASE n = new
      BY <2>3, <3>1 DEF Seen
    <3>2. CASE n \in DOMAIN live
      <4>1. \A g \in Handlers : mine[g] = n => mine'[g] = n
        BY <2>3, <2>4, <3>2
      <4> QED
        BY <1>0, <2>1, <2>4, <3>2, <4>1, SameSeen
    <3> QED
      BY <2>2, <3>1, <3>2
  <2>7. Stands(h)'
    BY <1>0, <2>1, <2>2, <2>3, <2>4 DEF Stands
  <2>8. OnCourse(h)' /\ Maps(id[h])'
    BY <1>0, <2>1, <2>3, <2>4 DEF Maps, OnCourse, Grown, Tunnel!Exists
  <2> QED
    BY <1>0, <2>1, <2>3, <2>4, <2>5, <2>6, <2>7, <2>8, Apart
<1>9. CASE Tunnel!Enter(h)
  <2>1. /\ pc[h] = "started" /\ pc' = [pc EXCEPT ![h] = "entered"]
        /\ tunnels' = [tunnels EXCEPT ![id[h]] = mine[h]]
        /\ UNCHANGED <<server, row, live, op, id, mine, raced, blind>>
    BY <1>9 DEF Tunnel!Enter, Tunnel!Goto, Tunnel!rows
  <2>2. pc'[h] = "entered" /\ tunnels'[id[h]] = mine[h] /\ Others /\ Elsewhere
    BY <2>1
  <2>3. op[h] = "connect" /\ Grown /\ Fits(id[h])'
    BY <1>0, <1>f, <1>m, <2>1 DEF Stands
  <2>4. ASSUME NEW n \in DOMAIN live PROVE Seen(n)'
    <3>1. CASE live[n].of = id[h] /\ tunnels[id[h]] = n
      BY <1>0, <2>1, <2>3, <3>1 DEF Seen, OnCourse
    <3>2. CASE ~(live[n].of = id[h] /\ tunnels[id[h]] = n)
      BY <1>0, <2>1, <2>2, <2>3, <3>2, SameSeen
    <3> QED
      BY <3>1, <3>2
  <2>5. Stands(h)' /\ OnCourse(h)' /\ Maps(id[h])'
    BY <1>0, <2>1, <2>2, <2>3 DEF Stands, Maps, OnCourse, Tunnel!Exists
  <2> QED
    BY <1>0, <2>1, <2>2, <2>3, <2>4, <2>5, Apart
<1>10. CASE Tunnel!Activate(h)
  <2>1. /\ pc[h] = "entered" /\ pc' = [pc EXCEPT ![h] = "active"]
        /\ Grown /\ DOMAIN live' = DOMAIN live
        /\ UNCHANGED <<server, row, tunnels, op, id, mine, raced, blind>>
    BY <1>10, ActivateEffect DEF Dimmed, Grown
  <2>2. pc'[h] = "active" /\ Others /\ Elsewhere
    BY <2>1
  <2>3. op[h] = "connect"
    BY <1>0, <2>1 DEF Stands
  <2>4. (\A n \in DOMAIN live' : Seen(n)') /\ Fits(id[h])'
    BY <1>f, <1>s, <2>1, <2>3
  <2>5. Stands(h)' /\ OnCourse(h)' /\ Maps(id[h])'
    BY <1>0, <2>1, <2>2, <2>3 DEF Stands, Maps, OnCourse, Grown, Tunnel!Exists
  <2> QED
    BY <1>0, <2>1, <2>2, <2>3, <2>4, <2>5, Apart
<1>11. CASE Tunnel!Return(h)
  <2>1. /\ pc[h] \in {"active", "failed", "stopped"}
        /\ pc' = [pc EXCEPT ![h] = "idle"] /\ op' = [op EXCEPT ![h] = "none"]
        /\ mine' = [mine EXCEPT ![h] = 0] /\ Grown /\ DOMAIN live' = DOMAIN live
        /\ UNCHANGED <<server, tunnels, id, raced>>
    BY <1>11, ReturnEffect DEF Dimmed, Grown
  <2>2. \/ /\ \/ op[h] = "delete" /\ row' = [row EXCEPT ![id[h]] = "gone"]
              \/ /\ op[h] # "delete" /\ Tunnel!Exists(id[h])
                 /\ row' = [row EXCEPT ![id[h]] = Tunnel!Outcome(h)]
              \/ op[h] # "delete" /\ ~Tunnel!Exists(id[h]) /\ row' = row
           /\ blind' = IF Tunnel!Exists(id[h]) THEN blind \ {id[h]} ELSE blind
        \/ row' = row /\ blind' = blind \union {id[h]}
    BY <1>11, ReturnEffect
  <2>3. pc'[h] = "idle" /\ op'[h] = "none" /\ mine'[h] = 0 /\ Others
    BY <2>1
  <2>4. Elsewhere
    BY <2>1, <2>2
  <2>5. /\ op[h] # "none" /\ row[id[h]] # "unborn"
        /\ pc[h] \in {"active", "failed"} => op[h] = "connect"
        /\ pc[h] = "stopped" => op[h] \in {"disconnect", "delete"}
    BY <1>0, <2>1 DEF Stands
  <2>6. \/ id[h] \in blind'
        \/ /\ op[h] = "delete" /\ row'[id[h]] = "gone"
        \/ /\ op[h] # "delete" /\ row'[id[h]] = Tunnel!Outcome(h)
        \/ /\ op[h] # "delete" /\ ~Tunnel!Exists(id[h]) /\ row' = row /\ blind' = blind
    BY <1>0, <2>2
  <2>7. row'[id[h]] # "unborn"
    BY <1>0, <2>2, <2>5 DEF Tunnel!Outcome
  <2>8. Stands(h)' /\ OnCourse(h)' /\ Maps(id[h])'
    BY <1>0, <2>1, <2>3, <2>7 DEF Stands, Maps, OnCourse, Grown
  <2>9. Fits(id[h])'
    <3>1. CASE pc[h] = "active"
      BY <1>0, <2>1, <2>5, <2>6, <3>1 DEF Stands, OnCourse, Fits, Tunnel!Outcome
    <3>2. CASE pc[h] = "failed"
      BY <1>0, <2>1, <2>5, <2>6, <3>2 DEF OnCourse, Fits, Tunnel!Outcome, Maps, Grown
    <3>3. CASE pc[h] = "stopped"
      BY <1>0, <2>1, <2>5, <2>6, <3>3 DEF OnCourse, Fits, Tunnel!Outcome, Tunnel!Exists
    <3> QED
      BY <2>1, <3>1, <3>2, <3>3
  <2>10. ASSUME NEW n \in DOMAIN live PROVE Seen(n)'
    <3>1. CASE n = mine[h]
      <4>1. pc[h] = "active" /\ op[h] = "connect" /\ live[n].of = id[h]
        BY <1>0, <2>1, <2>5, <3>1 DEF Stands
      <4>2. id[h] \notin raced => tunnels[id[h]] = n
        BY <1>0, <3>1, <4>1 DEF OnCourse
      <4> QED
        BY <2>1, <4>1, <4>2 DEF Seen, Grown
    <3>2. CASE n # mine[h]
      BY <1>0, <2>1, <2>3, <3>2, SameSeen
    <3> QED
      BY <3>1, <3>2
  <2>11. ASSUME ~server
         PROVE  /\ row' = row \/ ~Tunnel!Exists(id[h])'
                /\ blind \subseteq blind' /\ blind' \subseteq Ids
    <3>1. ~Tunnel!Exists(id[h])
      BY <1>0, <2>11 DEF WithServer
    <3>2. blind' = blind \/ blind' = blind \union {id[h]}
      BY <2>2, <3>1
    <3>3. row' = row \/ row' = [row EXCEPT ![id[h]] = "gone"]
      BY <2>2, <3>1
    <3>4. row' = row \/ ~Tunnel!Exists(id[h])'
      BY <1>0, <2>1, <3>3 DEF Tunnel!Exists
    <3> QED
      BY <1>0, <3>2, <3>4
  <2> QED
    BY <1>0, <2>1, <2>3, <2>4, <2>5, <2>7, <2>8, <2>9, <2>10, <2>11, Apart
<1> QED
  BY <1>1, <1>2, <1>3, <1>4, <1>5, <1>6, <1>7, <1>8, <1>9, <1>10, <1>11 DEF Tunnel!Handle

\* Every step keeps what keeps the two properties.
LEMMA SoundStep ==
  ASSUME TunnelBounded, TunnelInv, [Tunnel!Next]_Tunnel!vars
  PROVE  Sound'
<1> USE TunnelPlaces DEF Tunnel!rows, Tunnel!manager, Tunnel!handler
<1>0. /\ \A h \in Handlers : Stands(h) /\ OnCourse(h)
      /\ \A i \in Ids : Maps(i) /\ Fits(i)
      /\ \A n \in DOMAIN live : Seen(n) /\ live[n].of \in Ids
      /\ Lone /\ WithServer
  <2>1. \A n \in DOMAIN live : live[n].of \in Ids
    BY DEF Tunnel!LiveTunnels
  <2> QED
    BY <2>1 DEF TunnelInv, Sound
\* No handler moves.
<1>1. ASSUME UNCHANGED <<server, tunnels, pc, op, id, mine, raced, blind>>, Grown,
             DOMAIN live' = DOMAIN live, \A i \in Ids : Fits(i)',
             \A i \in Ids : /\ row[i] # "unborn" => row'[i] # "unborn"
                            /\ Tunnel!Exists(i) => Tunnel!Exists(i)',
             row' = row \/ server
      PROVE  Sound'
  <2>1. \A h \in Handlers : Stands(h)' /\ OnCourse(h)'
    BY <1>0, <1>1, SameStands, SameCourse
  <2>2. \A i \in Ids : Maps(i)'
    BY <1>0, <1>1, SameMaps
  <2>3. \A n \in DOMAIN live' : Seen(n)'
    BY <1>0, <1>1, SameSeen
  <2>4. Lone' /\ WithServer'
    BY <1>0, <1>1 DEF Lone, WithServer, Tunnel!Exists
  <2> QED
    BY <1>1, <2>1, <2>2, <2>3, <2>4 DEF Sound
<1>2. ASSUME NEW i \in Ids, NEW a \in Addrs, Tunnel!Create(i, a) PROVE Sound'
  <2>1. /\ server /\ row[i] = "unborn" /\ row' = [row EXCEPT ![i] = "stopped"]
        /\ UNCHANGED <<server, tunnels, live, pc, op, id, mine, raced, blind>>
    BY <1>2 DEF Tunnel!Create, Tunnel!Insert
  <2>2. Grown /\ DOMAIN live' = DOMAIN live
    BY <2>1 DEF Grown
  <2>3. tunnels[i] = 0
    BY <1>0, <2>1 DEF Maps
  <2>4. Fits(i)'
    BY <2>1, <2>3 DEF Fits
  <2>5. \A j \in Ids \ {i} : Fits(j)'
    BY <1>0, <2>1, <2>2, SameFits
  <2> QED
    BY <1>1, <2>1, <2>2, <2>4, <2>5 DEF Tunnel!Exists
<1>3. ASSUME NEW i \in Ids, NEW a \in Addrs, Tunnel!Update(i, a) PROVE Sound'
  <2>1. UNCHANGED <<server, row, tunnels, live, pc, op, id, mine, raced, blind>>
    BY <1>3 DEF Tunnel!Update, Tunnel!Replace
  <2>2. Grown /\ DOMAIN live' = DOMAIN live
    BY <2>1 DEF Grown
  <2> QED
    BY <1>0, <1>1, <2>1, <2>2, SameFits DEF Tunnel!Exists
<1>4. ASSUME NEW n \in Tunnel!Objects,
             Tunnel!LiveEnds(n) \/ Tunnel!ForwardFails(n) \/ Tunnel!PeerDies(n)
      PROVE  Sound'
  <2>1. /\ UNCHANGED <<server, row, tunnels, pc, op, id, mine, raced, blind>>
        /\ Grown /\ DOMAIN live' = DOMAIN live
    BY <1>4, GoroutineDims DEF Dimmed, Grown
  <2> QED
    BY <1>0, <1>1, <2>1, SameFits DEF Tunnel!Exists
<1>5. ASSUME NEW h \in Handlers, NEW i \in Ids,
             NEW what \in {"connect", "disconnect", "delete"}, Tunnel!Begin(h, i, what)
      PROVE  Sound'
  <2>1. /\ pc[h] = "idle" /\ Tunnel!Exists(i)
        /\ pc' = [pc EXCEPT ![h] = "begun"] /\ op' = [op EXCEPT ![h] = what]
        /\ id' = [id EXCEPT ![h] = i]
        /\ raced' = IF \E g \in Tunnel!InFlight(i) : "connect" \in {what, op[g]}
                    THEN raced \union {i} ELSE raced
        /\ UNCHANGED <<server, row, tunnels, live, mine, blind>>
    BY <1>5 DEF Tunnel!Begin, Tunnel!Goto
  <2>2. pc'[h] = "begun" /\ op'[h] = what /\ id'[h] = i /\ mine[h] = 0 /\ op[h] = "none"
    BY <1>0, <2>1 DEF Stands
  <2>3. \A g \in Handlers \ {h} : /\ pc'[g] = pc[g] /\ op'[g] = op[g] /\ id'[g] = id[g]
                                  /\ mine'[g] = mine[g]
    BY <2>1
  <2>4. Grown /\ raced \subseteq raced' /\ raced' \subseteq raced \union {i}
    BY <2>1 DEF Grown
  <2>5. Stands(h)' /\ OnCourse(h)'
    BY <2>1, <2>2 DEF Stands, OnCourse, Tunnel!Exists
  <2>6. ASSUME NEW g \in Handlers \ {h} PROVE Stands(g)' /\ OnCourse(g)'
    BY <1>0, <2>1, <2>3, <2>4, <2>6, SameStands, SameCourse DEF Tunnel!Exists
  <2>7. \A j \in Ids : Maps(j)'
    BY <1>0, <2>1, <2>4, SameMaps
  <2>8. ASSUME NEW j \in Ids PROVE Fits(j)'
    <3>1. CASE j = i
      BY <2>2, <3>1 DEF Fits
    <3>2. CASE j # i
      <4>1. (\A g \in Handlers : op'[g] = "none" \/ id'[g] # j) =>
              (\A g \in Handlers : op[g] = "none" \/ id[g] # j)
        BY <2>2, <2>3
      <4> QED
        BY <1>0, <2>1, <2>4, <4>1, SameFits
    <3> QED
      BY <3>1, <3>2
  <2>9. \A n \in DOMAIN live' : Seen(n)'
    BY <1>0, <2>1, <2>4, SameSeen
  <2>10. Lone'
    <3>1. ASSUME NEW g \in Handlers \ {h}, op[g] # "none", id[g] = i,
                 op[g] = "connect" \/ what = "connect"
          PROVE  i \in raced'
      <4>1. pc[g] # "idle"
        BY <1>0, <3>1 DEF Stands
      <4>2. g \in Tunnel!InFlight(i)
        BY <3>1, <4>1 DEF Tunnel!InFlight
      <4> QED
        BY <2>1, <3>1, <4>2
    <3>2. ASSUME NEW f \in Handlers, NEW g \in Handlers, f # g, op'[f] = "connect",
                 op'[g] # "none", id'[g] = id'[f]
          PROVE  id'[f] \in raced'
      <4>1. CASE f = h
        BY <2>2, <2>3, <3>1, <3>2, <4>1
      <4>2. CASE g = h
        BY <2>2, <2>3, <3>1, <3>2, <4>2
      <4>3. CASE f # h /\ g # h
        BY <1>0, <2>3, <2>4, <3>2, <4>3 DEF Lone
      <4> QED
        BY <4>1, <4>2, <4>3
    <3> QED
      BY <3>2 DEF Lone
  <2>11. WithServer'
    BY <1>0, <2>1 DEF WithServer, Tunnel!Exists
  <2> QED
    BY <2>1, <2>5, <2>6, <2>7, <2>8, <2>9, <2>10, <2>11 DEF Sound
<1>6. CASE Tunnel!DeleteServer
  <2>1. /\ server' = FALSE /\ blind' = Ids
        /\ \A i \in Ids : row'[i] = IF Tunnel!Exists(i) THEN "gone" ELSE row[i]
        /\ UNCHANGED <<tunnels, live, pc, op, id, mine, raced>>
    BY <1>6 DEF Tunnel!DeleteServer
  <2>2. /\ \A i \in Ids : row[i] # "unborn" => row'[i] # "unborn"
        /\ \A i \in Ids : ~Tunnel!Exists(i)' /\ i \in blind'
        /\ Grown
    BY <2>1 DEF Grown, Tunnel!Exists
  <2>3. \A h \in Handlers : Stands(h)' /\ OnCourse(h)'
    BY <1>0, <2>1, <2>2, SameStands, SameCourse
  <2>4. \A i \in Ids : Maps(i)' /\ Fits(i)'
    BY <1>0, <2>1, <2>2, SameMaps DEF Fits
  <2>5. \A n \in DOMAIN live' : Seen(n)'
    BY <1>0, <2>1, <2>2, SameSeen
  <2>6. Lone' /\ WithServer'
    BY <1>0, <2>1, <2>2 DEF Lone, WithServer
  <2> QED
    BY <2>3, <2>4, <2>5, <2>6 DEF Sound
<1>7. CASE Tunnel!Restart
  <2>1. /\ \A h \in Handlers : pc'[h] = "idle" /\ op'[h] = "none" /\ mine'[h] = 0
        /\ \A i \in Ids : tunnels'[i] = 0
        /\ live' = <<>> /\ blind' = Ids /\ raced' = {} /\ UNCHANGED <<server, row, id>>
    BY <1>7 DEF Tunnel!Restart
  <2>2. DOMAIN live' = {}
    BY <2>1
  <2>3. \A h \in Handlers : Stands(h)' /\ OnCourse(h)'
    BY <2>1 DEF Stands, OnCourse
  <2>4. \A i \in Ids : Maps(i)' /\ Fits(i)'
    BY <2>1 DEF Maps, Fits
  <2>5. Lone' /\ WithServer'
    BY <1>0, <2>1 DEF Lone, WithServer, Tunnel!Exists
  <2> QED
    BY <2>2, <2>3, <2>4, <2>5 DEF Sound
<1>8. CASE UNCHANGED Tunnel!vars
  <2>1. UNCHANGED <<server, row, tunnels, live, pc, op, id, mine, raced, blind>>
    BY <1>8 DEF Tunnel!vars
  <2>2. Grown /\ DOMAIN live' = DOMAIN live
    BY <2>1 DEF Grown
  <2> QED
    BY <1>0, <1>1, <2>1, <2>2, SameFits DEF Tunnel!Exists
<1> QED
  BY <1>2, <1>3, <1>4, <1>5, <1>6, <1>7, <1>8, HandlerSound DEF Tunnel!Next

\* The manager keeps its types; what listens can be closed, unless a connect of its tunnel
\* overlapped another handler, and between undisturbed requests the row says whether the
\* tunnel runs, whatever the tunnels and handlers and however they interleave.
THEOREM TunnelHolds ==
  ASSUME TunnelBounded
  PROVE  Tunnel!Spec => [](Tunnel!TypeOK /\ Tunnel!NothingRunsUnseen /\ Tunnel!RowFitsManager)
<1>1. Tunnel!Init => TunnelInv
  <2> SUFFICES ASSUME Tunnel!Init PROVE TunnelInv
    OBVIOUS
  <2> USE DEF Tunnel!Init
  <2>1. Tunnel!AnyAddr \in Addrs /\ (CHOOSE i \in Ids : TRUE) \in Ids
    BY DEF Tunnel!AnyAddr, TunnelBounded
  <2>2. 0 \in 0..MaxLive /\ 0 \in 0..MaxTroubles
    BY DEF TunnelBounded
  <2>3. Len(live) = 0 /\ DOMAIN live = {} /\ live \in Seq(Tunnel!LiveTunnels)
    OBVIOUS
  <2>4. Len(live) <= MaxLive
    BY <2>3 DEF TunnelBounded
  <2>5. Tunnel!TypeOK
    BY <2>1, <2>2, <2>3, <2>4 DEF Tunnel!TypeOK
  <2>6. Sound
    BY <2>3 DEF Sound, Stands, OnCourse, Maps, Fits, Lone, WithServer
  <2> QED
    BY <2>3, <2>5, <2>6 DEF TunnelInv
<1>2. TunnelInv /\ [Tunnel!Next]_Tunnel!vars => TunnelInv'
  <2> SUFFICES ASSUME TunnelInv, [Tunnel!Next]_Tunnel!vars PROVE TunnelInv'
    OBVIOUS
  <2> QED
    BY TunnelTypeStep, SoundStep DEF TunnelInv
<1>3. TunnelInv => Tunnel!TypeOK /\ Tunnel!NothingRunsUnseen /\ Tunnel!RowFitsManager
  <2> SUFFICES ASSUME TunnelInv PROVE Tunnel!NothingRunsUnseen /\ Tunnel!RowFitsManager
    BY DEF TunnelInv
  <2> USE TunnelPlaces
  <2>1. Tunnel!NothingRunsUnseen
    BY DEF TunnelInv, Sound, Seen, Tunnel!NothingRunsUnseen, Tunnel!Listens
  <2>2. ASSUME NEW i \in Ids \ (raced \union blind), Tunnel!InFlight(i) = {}
        PROVE  /\ Tunnel!Exists(i) => /\ row[i] # "connecting"
                                      /\ row[i] = "active" => tunnels[i] # 0
                                      /\ row[i] = "stopped" => tunnels[i] = 0
               /\ tunnels[i] # 0 /\ Tunnel!Listens(tunnels[i])
                    => Tunnel!Exists(i) /\ row[i] = "active"
    <3>1. \A h \in Handlers : op[h] = "none" \/ id[h] # i
      BY <2>2 DEF Tunnel!InFlight, TunnelInv, Sound, Stands
    <3>2. Fits(i)
      BY DEF TunnelInv, Sound
    <3> QED
      BY <2>2, <3>1, <3>2 DEF Fits, Tunnel!Exists, Tunnel!Listens
  <2> QED
    BY <2>1, <2>2 DEF Tunnel!RowFitsManager
<1> QED
  BY <1>1, <1>2, <1>3, PTL DEF Tunnel!Spec

\* The same of what the runs check.
THEOREM TunnelHoldsThroughout == ASSUME TunnelBounded PROVE SumSpec => []TunnelsAreSeen
<1>1. SumInit /\ focus = "tunnel" => Tunnel!Init
  BY DEF SumInit
<1>2. focus = "tunnel" /\ [SumNext]_sumVars
        => [Tunnel!Next]_Tunnel!vars /\ (focus = "tunnel")'
  BY DEF SumNext, accountOnly, knownOnly, keyOnly, tunnelOnly, fleetOnly, remoteOnly,
         commandOnly, containerOnly, serverOnly, filesOnly, sumVars, Tunnel!rows,
         Tunnel!manager, Tunnel!handler, Tunnel!vars
<1>3. ~(focus = "tunnel") /\ [SumNext]_sumVars => (~(focus = "tunnel"))'
  BY DEF SumNext, sumVars
<1>4. (focus = "tunnel" => /\ Tunnel!TypeOK /\ Tunnel!NothingRunsUnseen
                           /\ Tunnel!RowFitsManager) => TunnelsAreSeen
  BY DEF TunnelsAreSeen
<1>5. Tunnel!Spec => [](/\ Tunnel!TypeOK /\ Tunnel!NothingRunsUnseen
                        /\ Tunnel!RowFitsManager)
  BY TunnelHolds, PTL
<1> QED
  BY <1>1, <1>2, <1>3, <1>4, <1>5, PTL DEF SumSpec, Tunnel!Spec

=============================================================================
