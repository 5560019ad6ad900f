------------------------------- MODULE Deploy -------------------------------
(***************************************************************************)
(* The deploy service: internal/deploy (service.go, repo.go, types.go) and *)
(* the two handlers that trigger it.  A deployment is a row of the         *)
(* deployments table (row), a goroutine of the dashboard process that      *)
(* executes Trigger and then run (pc), a `bash -c` process and whatever    *)
(* that process leaves behind (bash, helper).  The table and the operating *)
(* system's processes survive a crash of the dashboard; its locks,         *)
(* channels and goroutines do not.                                         *)
(***************************************************************************)
EXTENDS Naturals, FiniteSets

CONSTANTS
  Projects,      \* project ids
  Configured,    \* projects with DeployEnabled and a DeployCommand
  Deployments,   \* uuids a Trigger can draw
  NoProject,     \* the project of a uuid nobody has drawn yet
  MaxCrashes,    \* bound on process crashes and restarts
  MaxFaults      \* bound on failing database writes

ASSUME DeployAssumption ==
  /\ Configured \subseteq Projects
  /\ NoProject \notin Projects
  /\ MaxCrashes \in Nat
  /\ MaxFaults \in Nat

VARIABLES
  lock,      \* projects whose projectLock is held
  doneCh,    \* projects with a channel in Service.doneCh
  proj,      \* deployment -> the project it was triggered for
  row,       \* deployment -> its status column, "absent" before the INSERT
  events,    \* deployment -> the deploy events appended for it
  pc,        \* deployment -> where its goroutine stands, "none" without one
  expired,   \* deployments whose run context has passed its deadline
  verdict,   \* deployment -> the status run has computed
  bash,      \* deployment -> its bash process
  helper,    \* deployment -> a process its script started
  reading,   \* deployment -> output streams still read by streamInto
  crashes, faults

vars == <<lock, doneCh, proj, row, events, pc, expired, verdict,
          bash, helper, reading, crashes, faults>>

StatusTerminal == {"success", "failed", "timeout"}
Status == {"pending", "running"} \union StatusTerminal
Streams == {"stdout", "stderr"}

\* The processes of a script: a command bash waits for, a daemon it leaves in
\* the background, each with bash's output or with output of its own.
Foreground == {"command", "quietCommand"}
Background == {"daemon", "quietDaemon"}
Holding == {"command", "daemon"}
Started == "started"

IsTerminal(status) == status \in StatusTerminal

\* Slip: finalize given the run context on every path.
CtxDeadAlways(d) == d \in expired

(***************************************************************************)
(* Where the context of the row's next write has expired: finalize and     *)
(* fireEvent are given the run context on the paths that never started     *)
(* bash, and context.Background() once it has run.                         *)
(***************************************************************************)
CtxDead(d) == bash[d] = "none" /\ d \in expired

Fault == faults < MaxFaults /\ faults' = faults + 1
NoFault == UNCHANGED faults

\* A statement that fails: its context has expired, or the database fails.
WriteFails(ctxDead) == (ctxDead /\ NoFault) \/ Fault
WriteWorks(ctxDead) == ~ctxDead /\ NoFault

Goto(d, from, to) == pc[d] = from /\ pc' = [pc EXCEPT ![d] = to]

\* Slip: a release that keeps the closed channel in the map.
ReleaseKeepsChannel(d) == lock' = lock \ {proj[d]} /\ UNCHANGED doneCh

\* run's deferred release: forget the channel, unlock, close the channel.
ReleaseLock(d) ==
  /\ lock' = lock \ {proj[d]}
  /\ doneCh' = doneCh \ {proj[d]}

osVars == <<bash, helper, reading>>

Init ==
  /\ lock = {} /\ doneCh = {} /\ expired = {}
  /\ proj = [d \in Deployments |-> NoProject]
  /\ row = [d \in Deployments |-> "absent"]
  /\ events = [d \in Deployments |-> {}]
  /\ pc = [d \in Deployments |-> "none"]
  /\ verdict = [d \in Deployments |-> "none"]
  /\ bash = [d \in Deployments |-> "none"]
  /\ helper = [d \in Deployments |-> "none"]
  /\ reading = [d \in Deployments |-> {}]
  /\ crashes = 0 /\ faults = 0

-----------------------------------------------------------------------------
(* Trigger.  A trigger for a project that is not configured                *)
(* (ErrNotConfigured) or whose lock is held (ErrAlreadyRunning) returns    *)
(* without changing anything.                                              *)

\* Slip: a trigger that never tries the lock.
TriggerUnlocked(d, p) ==
  /\ p \in Configured
  /\ proj[d] = NoProject
  /\ lock' = lock \union {p}
  /\ proj' = [proj EXCEPT ![d] = p]
  /\ Goto(d, "none", "acquired")
  /\ UNCHANGED <<doneCh, row, events, expired, verdict, osVars, crashes, faults>>

Trigger(d, p) ==
  /\ p \in Configured
  /\ proj[d] = NoProject
  /\ p \notin lock
  /\ lock' = lock \union {p}
  /\ proj' = [proj EXCEPT ![d] = p]
  /\ Goto(d, "none", "acquired")
  /\ UNCHANGED <<doneCh, row, events, expired, verdict, osVars, crashes, faults>>

Create(d) ==
  /\ Goto(d, "acquired", "created")
  /\ row' = [row EXCEPT ![d] = "pending"]
  /\ UNCHANGED <<lock, doneCh, proj, events, expired, verdict, osVars, crashes, faults>>

\* Slip: the early return of a failed Create without its release.
CreateFailsLeaks(d) ==
  /\ Goto(d, "acquired", "none")
  /\ UNCHANGED <<lock, doneCh, proj, row, events, expired, verdict, osVars, crashes, faults>>

\* Repo.Create runs under the request's context: a caller that went away
\* fails the INSERT, or the SELECT that reads the inserted row back.
CreateFails(d) ==
  /\ Goto(d, "acquired", "none")
  /\ \E s \in {"absent", "pending"} : row' = [row EXCEPT ![d] = s]
  /\ ReleaseLock(d)
  /\ UNCHANGED <<proj, events, expired, verdict, osVars, crashes, faults>>

\* Register the channel, append the "started" event (its error is dropped,
\* and the request's context may be gone) and start the goroutine of run.
Launch(d) ==
  /\ Goto(d, "created", "marking")
  /\ doneCh' = doneCh \union {proj[d]}
  /\ \/ events' = [events EXCEPT ![d] = @ \union {Started}]
     \/ UNCHANGED events
  /\ UNCHANGED <<lock, proj, row, expired, verdict, osVars, crashes, faults>>

-----------------------------------------------------------------------------
(* run.                                                                    *)

\* Slip: a status the schema does not know.
MarkRunningUnknown(d) ==
  /\ Goto(d, "marking", "starting")
  /\ row' = [row EXCEPT ![d] = Started]
  /\ UNCHANGED <<lock, doneCh, proj, events, expired, verdict, osVars, crashes, faults>>

MarkRunning(d) ==
  /\ Goto(d, "marking", "starting")
  /\ \/ WriteWorks(d \in expired) /\ row' = [row EXCEPT ![d] = "running"]
     \/ WriteFails(d \in expired) /\ UNCHANGED row
  /\ UNCHANGED <<lock, doneCh, proj, events, expired, verdict, osVars, crashes>>

\* cmd.Start refuses an expired context.
Start(d) ==
  /\ d \notin expired
  /\ Goto(d, "starting", "streaming")
  /\ bash' = [bash EXCEPT ![d] = "running"]
  /\ reading' = [reading EXCEPT ![d] = Streams]
  /\ UNCHANGED <<lock, doneCh, proj, row, events, expired, verdict, helper, crashes, faults>>

\* A pipe cannot be made, or bash cannot be started: no working directory,
\* no bash, no processes left, or the context has expired.
StartFails(d) ==
  /\ Goto(d, "starting", "finalizing")
  /\ verdict' = [verdict EXCEPT ![d] = "failed"]
  /\ UNCHANGED <<lock, doneCh, proj, row, events, expired, osVars, crashes, faults>>

\* A scanner reaches the end of its pipe: every process that had the
\* write end is gone, or has redirected its output elsewhere.
StreamEOF(d, s) ==
  /\ s \in reading[d]
  /\ bash[d] # "running" /\ helper[d] \notin Holding
  /\ reading' = [reading EXCEPT ![d] = @ \ {s}]
  /\ UNCHANGED <<lock, doneCh, proj, row, events, pc, expired, verdict,
                 bash, helper, crashes, faults>>

\* A line arrives and streamInto gives up on the stream: the append fails
\* (always after the deadline) or the line is longer than the scanner takes.
StreamAbort(d, s) ==
  /\ s \in reading[d]
  /\ bash[d] = "running" \/ helper[d] \in Holding
  /\ reading' = [reading EXCEPT ![d] = @ \ {s}]
  /\ UNCHANGED <<lock, doneCh, proj, row, events, pc, expired, verdict,
                 bash, helper, crashes, faults>>

\* Slip: the verdict taken from the end of the output, before cmd.Wait.
ReapUnwaited(d) ==
  /\ reading[d] = {}
  /\ Goto(d, "streaming", "finalizing")
  /\ verdict' = [verdict EXCEPT ![d] = IF d \in expired THEN "timeout" ELSE "success"]
  /\ UNCHANGED <<lock, doneCh, proj, row, events, expired, osVars, crashes, faults>>

\* Both readers are done (wg.Wait) and bash has exited (cmd.Wait).  Wait
\* may report the context's error for a bash that exited with 0 after it.
Reap(d) ==
  /\ reading[d] = {}
  /\ bash[d] \in {"ok", "bad"}
  /\ Goto(d, "streaming", "finalizing")
  /\ \E runErr \in BOOLEAN :
       /\ bash[d] = "bad" => runErr
       /\ bash[d] = "ok" /\ d \notin expired => ~runErr
       /\ verdict' = [verdict EXCEPT ![d] =
                        IF ~runErr THEN "success"
                        ELSE IF d \in expired THEN "timeout" ELSE "failed"]
  /\ UNCHANGED <<lock, doneCh, proj, row, events, expired, osVars, crashes, faults>>

Finalize(d) ==
  /\ Goto(d, "finalizing", "reporting")
  /\ \/ WriteWorks(CtxDead(d)) /\ row' = [row EXCEPT ![d] = verdict[d]]
     \/ WriteFails(CtxDead(d)) /\ UNCHANGED row
  /\ UNCHANGED <<lock, doneCh, proj, events, expired, verdict, osVars, crashes>>

\* Slip: an event that folds the timeout into failed.
FireEventFolded(d) ==
  /\ Goto(d, "reporting", "releasing")
  /\ events' = [events EXCEPT ![d] = @ \union
                  {IF verdict[d] = "timeout" THEN "failed" ELSE verdict[d]}]
  /\ UNCHANGED <<lock, doneCh, proj, row, expired, verdict, osVars, crashes, faults>>

FireEvent(d) ==
  /\ Goto(d, "reporting", "releasing")
  /\ \/ WriteWorks(CtxDead(d)) /\ events' = [events EXCEPT ![d] = @ \union {verdict[d]}]
     \/ WriteFails(CtxDead(d)) /\ UNCHANGED events
  /\ UNCHANGED <<lock, doneCh, proj, row, expired, verdict, osVars, crashes>>

Release(d) ==
  /\ Goto(d, "releasing", "none")
  /\ ReleaseLock(d)
  /\ UNCHANGED <<proj, row, events, expired, verdict, osVars, crashes, faults>>

-----------------------------------------------------------------------------
(* The environment: timers, processes, crashes.                            *)

\* The deadline of run's context; a run that has computed its verdict from
\* a started bash no longer looks at it.
Expire(d) ==
  /\ \/ pc[d] \in {"marking", "starting", "streaming"}
     \/ pc[d] \in {"finalizing", "reporting"} /\ bash[d] = "none"
  /\ d \notin expired
  /\ expired' = expired \union {d}
  /\ UNCHANGED <<lock, doneCh, proj, row, events, pc, verdict, osVars, crashes, faults>>

\* Slip: exec.Command in place of exec.CommandContext.
KillNever(d) == FALSE /\ UNCHANGED vars

\* exec.CommandContext kills bash, and only bash, once the deadline passes.
Kill(d) ==
  /\ pc[d] = "streaming" /\ d \in expired
  /\ bash[d] = "running"
  /\ bash' = [bash EXCEPT ![d] = "bad"]
  /\ UNCHANGED <<lock, doneCh, proj, row, events, pc, expired, verdict,
                 helper, reading, crashes, faults>>

BashExits(d) ==
  /\ bash[d] = "running" /\ helper[d] \notin Foreground
  /\ \E code \in {"ok", "bad"} : bash' = [bash EXCEPT ![d] = code]
  /\ UNCHANGED <<lock, doneCh, proj, row, events, pc, expired, verdict,
                 helper, reading, crashes, faults>>

Fork(d) ==
  /\ bash[d] = "running" /\ helper[d] = "none"
  /\ \E h \in Foreground \union Background : helper' = [helper EXCEPT ![d] = h]
  /\ UNCHANGED <<lock, doneCh, proj, row, events, pc, expired, verdict,
                 bash, reading, crashes, faults>>

HelperExits(d) ==
  /\ helper[d] \in Foreground \union Background
  /\ helper' = [helper EXCEPT ![d] = "gone"]
  /\ UNCHANGED <<lock, doneCh, proj, row, events, pc, expired, verdict,
                 bash, reading, crashes, faults>>

\* Slip: a startup sweep that fails rows of processes still running.
CrashSweeps ==
  /\ crashes < MaxCrashes
  /\ crashes' = crashes + 1
  /\ lock' = {} /\ doneCh' = {} /\ expired' = {}
  /\ pc' = [d \in Deployments |-> "none"]
  /\ row' = [d \in Deployments |-> IF row[d] \in Status THEN "failed" ELSE row[d]]
  /\ reading' = [d \in Deployments |-> {}]
  /\ UNCHANGED <<proj, events, verdict, bash, helper, faults>>

\* The dashboard stops (a crash, or the shutdown of main, which waits for
\* no deploy) and starts again.  Nothing reconciles the deployments table.
Crash ==
  /\ crashes < MaxCrashes
  /\ crashes' = crashes + 1
  /\ lock' = {} /\ doneCh' = {} /\ expired' = {}
  /\ pc' = [d \in Deployments |-> "none"]
  /\ reading' = [d \in Deployments |-> {}]
  /\ UNCHANGED <<proj, row, events, verdict, bash, helper, faults>>

-----------------------------------------------------------------------------
Service(d) ==
  \/ Create(d) \/ CreateFails(d) \/ Launch(d) \/ MarkRunning(d)
  \/ Start(d) \/ StartFails(d)
  \/ \E s \in Streams : StreamEOF(d, s)
  \/ Reap(d) \/ Finalize(d) \/ FireEvent(d) \/ Release(d)

Environment(d) ==
  \/ \E s \in Streams : StreamAbort(d, s)
  \/ Expire(d) \/ Kill(d) \/ BashExits(d) \/ Fork(d) \/ HelperExits(d)

Next ==
  \/ \E d \in Deployments, p \in Projects : Trigger(d, p)
  \/ \E d \in Deployments : Service(d) \/ Environment(d)
  \/ Crash

Spec == Init /\ [][Next]_vars

\* Goroutines are scheduled, deadlines fire and the kill they cause lands.
Progress ==
  \A d \in Deployments :
    WF_vars(Service(d)) /\ WF_vars(Expire(d)) /\ WF_vars(Kill(d))

FairSpec == Spec /\ Progress

\* The commands an operator writes leave no process behind for ever.
HelpersFinish == \A d \in Deployments : WF_vars(HelperExits(d))

FairSpecHelpersFinish == FairSpec /\ HelpersFinish

-----------------------------------------------------------------------------
(* Properties.                                                             *)

Live(d) == pc[d] # "none"

\* Every variable has its type.
TypeOK ==
  /\ lock \in SUBSET Projects
  /\ doneCh \in SUBSET Projects
  /\ proj \in [Deployments -> Projects \union {NoProject}]
  /\ row \in [Deployments -> Status \union {"absent"}]
  /\ events \in [Deployments -> SUBSET (StatusTerminal \union {Started})]
  /\ pc \in [Deployments -> {"none", "acquired", "created", "marking", "starting",
                             "streaming", "finalizing", "reporting", "releasing"}]
  /\ expired \in SUBSET Deployments
  /\ verdict \in [Deployments -> StatusTerminal \union {"none"}]
  /\ bash \in [Deployments -> {"none", "running", "ok", "bad"}]
  /\ helper \in [Deployments -> {"none", "gone"} \union Foreground \union Background]
  /\ reading \in [Deployments -> SUBSET Streams]
  /\ crashes \in 0..MaxCrashes
  /\ faults \in 0..MaxFaults

\* "Only one deployment may run per project at any time": no two goroutines
\* of one dashboard process are inside Trigger..release for one project.
OneRunPerProject ==
  \A d, e \in Deployments : Live(d) /\ Live(e) /\ proj[d] = proj[e] => d = e

\* A project answers ErrAlreadyRunning only while some goroutine is there
\* to release its lock: no error path leaves a lock behind, and no running
\* deployment ever runs without it.
LockIsOwned ==
  lock = {proj[d] : d \in {e \in Deployments : Live(e)}}

\* A channel is registered only for the deployment that holds the lock, so
\* release closes each channel once (a second close would panic) and never
\* closes the channel of a later deployment.
ChannelIsOwned ==
  doneCh = {proj[d] : d \in {e \in Deployments :
              pc[e] \in {"marking", "starting", "streaming", "finalizing",
                         "reporting", "releasing"}}}

\* The event log and the deployments table never tell different stories: a
\* deployment has at most one terminal event, and it names the row's status
\* whenever the row is terminal.
EventAgreesWithRow ==
  \A d \in Deployments :
    LET outcome == events[d] \intersect StatusTerminal
    IN  /\ Cardinality(outcome) <= 1
        /\ outcome # {} /\ IsTerminal(row[d]) => row[d] \in outcome

\* A run that ends with the process up, the database up and its deadline
\* ahead has recorded its outcome: the only rows left pending or running
\* without a goroutine are those of a cancelled INSERT, of a crash, of a
\* failed write or of a deadline that passed before bash was started.
FinishedRunIsRecorded ==
  \A d \in Deployments :
    (/\ ~Live(d) /\ bash[d] # "none"
     /\ crashes = 0 /\ faults = 0) => IsTerminal(row[d])

\* What is recorded of a run agrees with itself and is not lost.
RunsAreRecorded == EventAgreesWithRow /\ FinishedRunIsRecorded

\* A recorded outcome is the outcome of the process: whoever WaitFor told
\* "success" finds that bash has exited with 0, no outcome is recorded while
\* bash still runs or its output is still read, and a bash that was killed
\* or failed is never a success.
OutcomeFitsProcess ==
  \A d \in Deployments :
    /\ row[d] = "success" => bash[d] = "ok"
    /\ row[d] = "timeout" => bash[d] \in {"ok", "bad"}
    /\ row[d] = "failed" => bash[d] \in {"none", "bad"}
    /\ IsTerminal(row[d]) => reading[d] = {}

\* The service keeps the promise of DeployLedger: a deployment is in
\* progress from its INSERT to the release of its lock.
InProgress == {d \in Deployments : Live(d) /\ pc[d] # "acquired"}

Ledger == INSTANCE DeployLedger WITH
  owner <- [d \in Deployments |-> IF row[d] = "absent" THEN NoProject ELSE proj[d]],
  status <- row,
  active <- InProgress

LedgerSpec == Ledger!Spec

\* Every deployment that starts bash gives its project back, given that the
\* processes it leaves behind end: no wait of run is for ever.
LockEventuallyReleased ==
  \A p \in Projects : p \in lock ~> p \notin lock

\* types.go: "Every invocation is bounded by a hard timeout": a run whose
\* deadline has passed ends.
HardTimeout == \A d \in Deployments : d \in expired ~> ~Live(d)

\* types.go: IsTerminal tells "the deployment has finished": once a deploy
\* that was announced has released its project, its status is terminal.
FinishedIsTerminal ==
  \A d \in Deployments : ~Live(d) /\ Started \in events[d] => IsTerminal(row[d])

\* service.go: "only one deployment may run per project at any time": no two
\* scripts of one project are executing, bash or a command it waited for.
OneScriptPerProject ==
  LET executing == {d \in Deployments : bash[d] = "running" \/ helper[d] \in Foreground}
  IN  \A d, e \in executing : proj[d] = proj[e] => d = e

=============================================================================
