---------------------------- MODULE DeployLedger ----------------------------
(***************************************************************************)
(* What the deploy service promises the users of the deployments table: a  *)
(* project has at most one deployment in progress, a row is written only   *)
(* by the deployment in progress, it moves pending -> running -> outcome   *)
(* and an outcome, once written, stays.                                    *)
(***************************************************************************)
CONSTANTS Projects, Deployments, NoProject

VARIABLES
  owner,    \* deployment -> its project, once its row exists
  status,   \* deployment -> its row's status
  active    \* deployments in progress

vars == <<owner, status, active>>

Outcomes == {"success", "failed", "timeout"}

Init ==
  /\ owner = [d \in Deployments |-> NoProject]
  /\ status = [d \in Deployments |-> "absent"]
  /\ active = {}

\* A row is inserted while its project is free; the caller may already have
\* gone away, in which case the row is all that ever happens.
Accept(d, p) ==
  /\ status[d] = "absent"
  /\ \A e \in active : owner[e] # p
  /\ owner' = [owner EXCEPT ![d] = p]
  /\ status' = [status EXCEPT ![d] = "pending"]
  /\ active' \in {active, active \union {d}}

Begin(d) ==
  /\ d \in active /\ status[d] = "pending"
  /\ status' = [status EXCEPT ![d] = "running"]
  /\ UNCHANGED <<owner, active>>

Settle(d) ==
  /\ d \in active /\ status[d] \in {"pending", "running"}
  /\ \E s \in Outcomes : status' = [status EXCEPT ![d] = s]
  /\ UNCHANGED <<owner, active>>

Yield(d) ==
  /\ d \in active
  /\ active' = active \ {d}
  /\ UNCHANGED <<owner, status>>

Restart ==
  /\ active' = {}
  /\ UNCHANGED <<owner, status>>

Next ==
  \/ \E d \in Deployments, p \in Projects : Accept(d, p)
  \/ \E d \in Deployments : Begin(d) \/ Settle(d) \/ Yield(d)
  \/ Restart

Spec == Init /\ [][Next]_vars

=============================================================================
