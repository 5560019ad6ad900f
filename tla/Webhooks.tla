------------------------------- MODULE Webhooks -------------------------------
(***************************************************************************)
(* From a push to the deployment: the webhook receiver                     *)
(* (handlers/webhooks.go) and the deploy endpoint (triggerDeploy of        *)
(* handlers/projects.go, with Service.WaitFor of deploy/service.go), over  *)
(* the deploy service as its callers see it: a lock, and a row per run.    *)
(* A script pulls the branch's head while it runs.  The forge may deliver  *)
(* late, out of order and again; it does not try again by itself.          *)
(***************************************************************************)
EXTENDS Integers

CONSTANTS
  Handlers,     \* requests that may be served together
  MaxPushes,    \* commits: 0..MaxPushes
  MaxRuns,      \* deployments: 1..MaxRuns
  MaxEdits,     \* bound on edits of the project
  MaxTroubles   \* bound on what fails and what is delivered again

VARIABLES
  head,        \* the branch's last commit
  hook,        \* the secret the forge signs with
  sent,        \* the deliveries on their way
  project,     \* its row: enabled with a command, secret
  pc, req,     \* handler -> where it stands, and for which request
  locked,      \* the project's deploy lock
  run,         \* deployment -> its row, and the commit its script has pulled
  count,       \* deployments so far
  deployed,    \* the commit on the machine
  missed,      \* history: a delivery was refused or lost, or a run failed
  answers,     \* history: what a waiting request was answered
  edits, troubles

vars == <<head, hook, sent, project, pc, req, locked, run, count, deployed, missed,
          answers, edits, troubles>>

Commits == 0..MaxPushes
Nothing == -1
Secrets == 0..MaxEdits    \* 0 is the empty one
Events == {"push", "none", "ping", "other"}
Deliveries == [commit : Commits, signed : Secrets, event : Events]
NoRequest == [commit |-> 0, wait |-> FALSE, id |-> 0]
IsTerminal(status) == status \in {"success", "failed"}
Trouble == troubles < MaxTroubles /\ troubles' = troubles + 1
Goto(h, from, to) == pc[h] = from /\ pc' = [pc EXCEPT ![h] = to]

Init ==
  /\ head = 0 /\ hook = 1 /\ sent = {} /\ project = [enabled |-> TRUE, secret |-> 1]
  /\ pc = [h \in Handlers |-> "idle"] /\ req = [h \in Handlers |-> NoRequest]
  /\ locked = FALSE /\ count = 0 /\ deployed = 0
  /\ run = [i \in 1..MaxRuns |-> [status |-> "absent", need |-> 0, pulled |-> Nothing]]
  /\ missed = FALSE /\ answers = {} /\ edits = 0 /\ troubles = 0

-----------------------------------------------------------------------------
(* The forge and the operator.                                             *)

\* A push; the header that names the event may be missing.
Push(event) ==
  /\ head < MaxPushes /\ event \in {"push", "none"} /\ head' = head + 1
  /\ sent' = sent \union {[commit |-> head + 1, signed |-> hook, event |-> event]}
  /\ UNCHANGED <<hook, project, pc, req, locked, run, count, deployed, missed, answers,
                 edits, troubles>>

\* Anything else the forge tells.
Tell(event) ==
  /\ event \in {"ping", "other"} /\ Trouble
  /\ sent' = sent \union {[commit |-> 0, signed |-> hook, event |-> event]}
  /\ UNCHANGED <<head, hook, project, pc, req, locked, run, count, deployed, missed,
                 answers, edits>>

\* The project is enabled or disabled, or its secret regenerated; the forge is
\* told of the new secret later.
Edit ==
  /\ edits < MaxEdits /\ edits' = edits + 1
  /\ \/ project' = [project EXCEPT !.enabled = ~@]
     \/ \E secret \in Secrets \ {project.secret} : project' = [project EXCEPT !.secret = secret]
  /\ UNCHANGED <<head, hook, sent, pc, req, locked, run, count, deployed, missed,
                 answers, troubles>>

SetHook ==
  /\ hook # project.secret /\ hook' = project.secret
  /\ UNCHANGED <<head, sent, project, pc, req, locked, run, count, deployed, missed,
                 answers, edits, troubles>>

-----------------------------------------------------------------------------
(* The webhook receiver.                                                   *)

\* A delivery is taken once, or again.
Taken(d) ==
  d \in sent /\ \/ sent' = sent \ {d} /\ UNCHANGED troubles
                \/ Trouble /\ UNCHANGED sent

\* isGitHubPing, and the header: a pong, whatever the signature.
Ping(d) ==
  /\ d.event = "ping" /\ Taken(d)
  /\ UNCHANGED <<head, hook, project, pc, req, locked, run, count, deployed, missed,
                 answers, edits>>

\* verifySignature: the secret of the row that was just read.
VerifySignature(d) == d.signed = project.secret

Admits(d) == project.enabled /\ project.secret # 0 /\ VerifySignature(d)

\* Slip: only an event that calls itself a push is one.
IsPushStrictly(d) == d.event = "push"

IsPush(d) == d.event \notin {"ping", "other"}

\* extractRemoteRef: the commit of the payload, for the row.
RemoteRef(d) == d.commit

\* deploy, up to the trigger ...
Receive(h, d) ==
  /\ d.event # "ping" /\ Admits(d) /\ IsPush(d) /\ Taken(d)
  /\ Goto(h, "idle", "trigger")
  /\ req' = [req EXCEPT ![h] = [commit |-> RemoteRef(d), wait |-> FALSE, id |-> 0]]
  /\ UNCHANGED <<head, hook, project, locked, run, count, deployed, missed, answers, edits>>

\* ... and its refusals: 403, 412, 401, 404 or 500.  What is ignored is a success.
Refuse(d) ==
  /\ d.event # "ping"
  /\ \/ ~Admits(d) /\ Taken(d) /\ missed' = (missed \/ d.event # "other")
     \/ Admits(d) /\ ~IsPush(d) /\ Taken(d) /\ UNCHANGED missed
     \/ Trouble /\ sent' = sent \ {d} /\ missed' = (missed \/ d.event # "other")
  /\ UNCHANGED <<head, hook, project, pc, req, locked, run, count, deployed, answers, edits>>

\* triggerDeploy, up to the trigger.
BeginManual(h, wait) ==
  /\ project.enabled /\ Goto(h, "idle", "trigger")
  /\ req' = [req EXCEPT ![h] = [commit |-> 0, wait |-> wait, id |-> 0]]
  /\ UNCHANGED <<head, hook, sent, project, locked, run, count, deployed, missed, answers,
                 edits, troubles>>

-----------------------------------------------------------------------------
(* The deploy service.                                                     *)

Ends(h) == pc' = [pc EXCEPT ![h] = "idle"] /\ req' = [req EXCEPT ![h] = NoRequest]

\* Service.Trigger, and 202 or the wait.
Trigger(h) ==
  LET new == count + 1
      need == req[h].commit
  IN  /\ pc[h] = "trigger" /\ ~locked /\ count < MaxRuns
      /\ locked' = TRUE /\ count' = new
      /\ run' = [run EXCEPT ![new] = [status |-> "running", need |-> need, pulled |-> Nothing]]
      /\ IF req[h].wait
         THEN pc' = [pc EXCEPT ![h] = "wait"] /\ req' = [req EXCEPT ![h].id = new]
         ELSE Ends(h)
      /\ UNCHANGED <<head, hook, sent, project, deployed, missed, answers, edits, troubles>>

\* Slip: ErrAlreadyRunning is answered 202, for the run under way.
AlreadyRunningJoins(h) ==
  /\ pc[h] = "trigger" /\ locked /\ Ends(h)
  /\ run' = [run EXCEPT ![count].need = IF req[h].commit > @ THEN req[h].commit ELSE @]
  /\ UNCHANGED <<head, hook, sent, project, locked, count, deployed, missed, answers,
                 edits, troubles>>

\* ErrAlreadyRunning: 429, and the push is not remembered.
AlreadyRunning(h) ==
  /\ pc[h] = "trigger" /\ locked /\ Ends(h)
  /\ missed' = (missed \/ req[h].commit > 0)
  /\ UNCHANGED <<head, hook, sent, project, locked, run, count, deployed, answers, edits,
                 troubles>>

\* A statement fails, or the caller has gone: 500.
TriggerFails(h) ==
  /\ pc[h] = "trigger" /\ Trouble /\ Ends(h) /\ missed' = (missed \/ req[h].commit > 0)
  /\ UNCHANGED <<head, hook, sent, project, locked, run, count, deployed, answers, edits>>

\* The script pulls ...
Pull(i) ==
  /\ run[i].status = "running" /\ locked /\ i = count
  /\ run' = [run EXCEPT ![i].pulled = head] /\ deployed' = head
  /\ UNCHANGED <<head, hook, sent, project, pc, req, locked, count, missed, answers, edits,
                 troubles>>

\* ... and ends, in success or not; the row may not be written.
Finish(i, status) ==
  /\ run[i].status = "running" /\ locked /\ i = count
  /\ status = "success" => run[i].pulled # Nothing
  /\ \/ run' = [run EXCEPT ![i].status = status] /\ UNCHANGED troubles
     \/ Trouble /\ run' = [run EXCEPT ![i].status = "unknown"]
  /\ missed' = (missed \/ status # "success")
  /\ UNCHANGED <<head, hook, sent, project, pc, req, locked, count, deployed, answers, edits>>

\* Its deferred release.
Release ==
  /\ locked /\ run[count].status # "running" /\ locked' = FALSE
  /\ UNCHANGED <<head, hook, sent, project, pc, req, run, count, deployed, missed, answers,
                 edits, troubles>>

\* Slip: WaitFor waits for the lock instead.
DoneReleased(h) == ~locked

\* WaitFor asks for the row every 250 ms ...
Done(h) == IsTerminal(run[req[h].id].status)

Waited(h) ==
  /\ pc[h] = "wait" /\ Done(h) /\ Ends(h)
  /\ answers' = answers \union {[id |-> req[h].id, status |-> run[req[h].id].status]}
  /\ UNCHANGED <<head, hook, sent, project, locked, run, count, deployed, missed, edits,
                 troubles>>

\* ... until 504, or until the caller has gone.
WaitTimesOut(h) ==
  /\ pc[h] = "wait" /\ Ends(h)
  /\ UNCHANGED <<head, hook, sent, project, locked, run, count, deployed, missed, answers,
                 edits, troubles>>

\* The process ends and starts: its run goes on without it or is killed, the
\* requests have no answer.
Crash ==
  /\ Trouble /\ locked' = FALSE /\ missed' = TRUE
  /\ pc' = [h \in Handlers |-> "idle"] /\ req' = [h \in Handlers |-> NoRequest]
  /\ run' = [i \in 1..MaxRuns |-> IF run[i].status = "running"
                                  THEN [run[i] EXCEPT !.status = "unknown"] ELSE run[i]]
  /\ UNCHANGED <<head, hook, sent, project, count, deployed, answers, edits>>

Next ==
  \/ \E event \in Events : Push(event) \/ Tell(event)
  \/ Edit \/ SetHook \/ Release \/ Crash
  \/ \E d \in sent : Ping(d) \/ Refuse(d) \/ \E h \in Handlers : Receive(h, d)
  \/ \E h \in Handlers :
       \/ \E wait \in BOOLEAN : BeginManual(h, wait)
       \/ Trigger(h) \/ AlreadyRunning(h) \/ TriggerFails(h) \/ Waited(h) \/ WaitTimesOut(h)
  \/ \E i \in 1..MaxRuns : \/ Pull(i)
                           \/ \E status \in {"success", "failed"} : Finish(i, status)

Spec == Init /\ [][Next]_vars

-----------------------------------------------------------------------------
(* Properties.                                                             *)

\* Every variable has its type.
TypeOK ==
  /\ head \in Commits /\ hook \in Secrets /\ sent \subseteq Deliveries
  /\ project \in [enabled : BOOLEAN, secret : Secrets]
  /\ pc \in [Handlers -> {"idle", "trigger", "wait"}]
  /\ req \in [Handlers -> [commit : Commits, wait : BOOLEAN, id : 0..MaxRuns]]
  /\ locked \in BOOLEAN /\ count \in 0..MaxRuns /\ deployed \in Commits
  /\ run \in [1..MaxRuns -> [status : {"absent", "running", "success", "failed", "unknown"},
                             need : Commits, pulled : Commits \union {Nothing}]]
  /\ missed \in BOOLEAN /\ edits \in 0..MaxEdits /\ troubles \in 0..MaxTroubles

\* A deployment whose trigger was answered 202 for a commit has deployed that
\* commit or a later one when it ends in success, in whatever order the
\* deliveries came: a run that pulled before the push is not answered for it.
AcceptedIsDeployed ==
  \A i \in 1..MaxRuns : run[i].status = "success" => run[i].pulled >= run[i].need

\* When every delivery is answered, none of them with an error, and no run
\* failed, the machine has the branch's head.
LatestIsDeployed ==
  ~missed /\ sent = {} /\ (\A h \in Handlers : pc[h] = "idle") /\ ~locked
    => deployed = head

\* What a request that waits is answered 200 is the terminal status of the run
\* it triggered, also where the end of that run could not be written.
WaitedIsFinal ==
  \A a \in answers : IsTerminal(a.status) /\ run[a.id].status = a.status

\* A push is deployed in the end, or superseded by a later one.  (Not so: it is
\* answered 429 while a run is under way that may have pulled already.)
NoPushIsMissed ==
  sent = {} /\ (\A h \in Handlers : pc[h] = "idle") /\ ~locked /\ troubles = 0 /\ edits = 0
    /\ (\A i \in 1..MaxRuns : run[i].status # "failed") => deployed = head

=============================================================================
