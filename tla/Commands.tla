-------------------------------- MODULE Commands --------------------------------
(***************************************************************************)
(* One command on several servers: the handlers (handlers/commands.go,     *)
(* runCommand of handlers/ssh.go), the service that bounds how many run    *)
(* together (commands/service.go), the SSH engine's RunCommand             *)
(* (ssh/service.go) and the audit rows (models/command.go).                *)
(*                                                                         *)
(* Every host has a goroutine.  They share a semaphore, which is a         *)
(* channel, and two counters, which nothing protects.                      *)
(***************************************************************************)
EXTENDS FiniteSets, Integers

CONSTANTS
  Hosts,        \* the servers of the request
  MaxParallel,  \* MaxParallel
  MaxTroubles   \* bound on failing statements and crashes

VARIABLES
  via,          \* "execute", "run" of a single host, or "none" before the request
  phase,        \* where the request stands
  ctx,          \* its context is not done
  event,        \* the event that audits it: "due", "written" or "failed"
  pc,           \* host -> where its goroutine stands
  remote,       \* host -> what became of the command over there
  heard,        \* host -> the exit status that came back, or that none can
  result,       \* host -> HostResult.Status, "" before
  runs,         \* host -> the statuses of its rows in command_runs
  loaded,       \* host -> the counter as its goroutine read it
  success, failed,
  troubles

request == <<via, phase, ctx, event>>
counters == <<loaded, success, failed>>
overThere == <<remote, heard>>
vars == <<request, pc, overThere, result, runs, counters, troubles>>

Statuses == {"success", "failed", "timeout", "error"}
Targets == IF via = "run" THEN {h \in Hosts : pc[h] # "absent"} ELSE Hosts
Holding == {h \in Hosts : pc[h] \notin {"absent", "queued", "ended"}}
Trouble == troubles < MaxTroubles /\ troubles' = troubles + 1
Goto(h, from, to) == pc[h] = from /\ pc' = [pc EXCEPT ![h] = to]

Init ==
  /\ via = "none" /\ phase = "idle" /\ ctx = TRUE /\ event = "due"
  /\ pc = [h \in Hosts |-> "absent"] /\ remote = [h \in Hosts |-> "none"]
  /\ heard = [h \in Hosts |-> "nothing"]
  /\ result = [h \in Hosts |-> ""] /\ runs = [h \in Hosts |-> {}]
  /\ loaded = [h \in Hosts |-> 0] /\ success = 0 /\ failed = 0
  /\ troubles = 0

-----------------------------------------------------------------------------
(* The requests.                                                           *)

\* EventRepo.Append
InsertEvent ==
  \/ event' = "written" /\ UNCHANGED troubles
  \/ event' = "failed" /\ Trouble

\* Of a run and of an execution; both drop the error.
AppendEvent == InsertEvent
AppendCommandEvent == InsertEvent

\* Slip: the event is left for the end.
BeginUnaudited ==
  /\ phase = "idle" /\ phase' = "running" /\ via' = "execute"
  /\ pc' = [h \in Hosts |-> "queued"]
  /\ UNCHANGED <<ctx, event, overThere, result, runs, counters, troubles>>

\* execute: every server is resolved, the event written, ...
BeginExecute ==
  /\ phase = "idle" /\ phase' = "running" /\ via' = "execute"
  /\ AppendCommandEvent
  /\ pc' = [h \in Hosts |-> "queued"]
  /\ UNCHANGED <<ctx, overThere, result, runs, counters>>

\* runCommand: no semaphore, and the event comes after the command.
BeginRun(h) ==
  /\ phase = "idle" /\ phase' = "running" /\ via' = "run"
  /\ pc' = [pc EXCEPT ![h] = "connecting"]
  /\ UNCHANGED <<ctx, event, overThere, result, runs, counters, troubles>>

\* The client leaves, or commandTimeout passes.
ContextEnds ==
  /\ phase = "running" /\ ctx /\ ctx' = FALSE
  /\ UNCHANGED <<via, phase, event, pc, overThere, result, runs, counters, troubles>>

\* wg.Wait, and the answer.
AnswerExecute ==
  /\ via = "execute" /\ phase = "running" /\ phase' = "answered"
  /\ \A h \in Hosts : pc[h] = "ended"
  /\ UNCHANGED <<via, ctx, event, pc, overThere, result, runs, counters, troubles>>

AnswerRun ==
  /\ via = "run" /\ phase = "running" /\ phase' = "answered"
  /\ \A h \in Targets : pc[h] = "ended"
  /\ AppendEvent
  /\ UNCHANGED <<via, ctx, pc, overThere, result, runs, counters>>

\* The process dies with its goroutines; what runs over there runs on.
Crash ==
  /\ phase = "running" /\ Trouble /\ phase' = "crashed"
  /\ pc' = [h \in Hosts |-> "absent"]
  /\ UNCHANGED <<via, ctx, event, overThere, result, runs, counters>>

-----------------------------------------------------------------------------
(* Service.RunCommand, once per host.                                      *)

\* The semaphore, which does not look at the context.
Acquire(h) ==
  /\ Cardinality(Holding) < MaxParallel
  /\ Goto(h, "queued", "connecting")
  /\ UNCHANGED <<request, overThere, result, runs, counters, troubles>>

\* executeOnHost classifies the error by its text; how "run" answers is its own.
Finish(h, status) ==
  /\ pc' = [pc EXCEPT ![h] = IF via = "execute" THEN "audit" ELSE "ended"]
  /\ result' = [result EXCEPT ![h] = status]

\* dial: nothing answers within ConnectTimeout, or no credential is there.
DialFails(h) ==
  /\ pc[h] = "connecting"
  /\ \E status \in {"error", "failed", "timeout"} : Finish(h, status)
  /\ UNCHANGED <<request, overThere, runs, counters, troubles>>

Connect(h) ==
  /\ Goto(h, "connecting", "handshake")
  /\ UNCHANGED <<request, overThere, result, runs, counters, troubles>>

\* The handshake, the session and the start of the command wait for the peer,
\* under no deadline.
Refused(h) ==
  /\ pc[h] = "handshake"
  /\ \E status \in {"error", "failed"} : Finish(h, status)
  /\ UNCHANGED <<request, overThere, runs, counters, troubles>>

\* session.Start sends the command ...
StartCommand(h) ==
  /\ Goto(h, "handshake", "starting")
  /\ remote' = [remote EXCEPT ![h] = "running"]
  /\ UNCHANGED <<request, heard, result, runs, counters, troubles>>

\* ... and waits for the reply,
Started(h) ==
  /\ Goto(h, "starting", "waiting")
  /\ UNCHANGED <<request, overThere, result, runs, counters, troubles>>

\* which the end of the connection takes with it.
StartFails(h) ==
  /\ pc[h] = "starting" /\ heard[h] = "lost"
  /\ \E status \in {"failed", "timeout"} : Finish(h, status)
  /\ UNCHANGED <<request, overThere, runs, counters, troubles>>

\* What the command comes to, if ever; its exit status may not come through.
RemoteEnds(h, end) ==
  /\ remote[h] = "running" /\ remote' = [remote EXCEPT ![h] = end]
  /\ \E status \in {end, "lost"} :
       heard' = [heard EXCEPT ![h] = IF @ = "nothing" THEN status ELSE @]
  /\ UNCHANGED <<request, pc, result, runs, counters, troubles>>

\* The connection or the session breaks; what runs over there may run on.
ConnectionBreaks(h) ==
  /\ remote[h] = "running" /\ heard[h] = "nothing"
  /\ heard' = [heard EXCEPT ![h] = "lost"]
  /\ UNCHANGED <<request, pc, remote, result, runs, counters, troubles>>

\* Slip: an exit status that is not zero is taken for none.
ByErrorOnly(end) == IF end = "lost" THEN "failed" ELSE "success"

\* Slip: no exit status is taken for a zero.
ByStatusOnly(end) == IF end = "nonzero" THEN "failed" ELSE "success"

\* What Wait returns: without a zero the command failed.
ByExit(end) == IF end = "zero" THEN "success" ELSE "failed"

WaitReturns(h) ==
  /\ pc[h] = "waiting" /\ heard[h] # "nothing"
  /\ Finish(h, ByExit(heard[h]))
  /\ UNCHANGED <<request, overThere, runs, counters, troubles>>

\* Slip: the end of the command that was killed is awaited.
KillsAndWaits(h) ==
  /\ pc[h] = "waiting" /\ remote[h] # "running"
  /\ Finish(h, "timeout")
  /\ UNCHANGED <<request, overThere, runs, counters, troubles>>

\* The timer, or the context: the command is sent a SIGKILL nobody awaits.
TimesOut(h) ==
  /\ pc[h] = "waiting"
  /\ Finish(h, "timeout")
  /\ UNCHANGED <<request, overThere, runs, counters, troubles>>

-----------------------------------------------------------------------------
(* The end of executeOnHost and of its goroutine.                          *)

\* CommandRunRepo.Append
InsertRun(h) ==
  \/ runs' = [runs EXCEPT ![h] = @ \union {result[h]}] /\ UNCHANGED troubles
  \/ UNCHANGED runs /\ Trouble

\* Its error is dropped.
AppendRun(h) ==
  /\ Goto(h, "audit", "load") /\ InsertRun(h)
  /\ UNCHANGED <<request, overThere, result, counters>>

\* successCount++ or failedCount++ is a read ...
Load(h) ==
  /\ Goto(h, "load", "count")
  /\ loaded' = [loaded EXCEPT ![h] = IF result[h] = "success" THEN success ELSE failed]
  /\ UNCHANGED <<request, overThere, result, runs, success, failed, troubles>>

\* Slip: both counters are written.
CountsBoth(h) ==
  /\ Goto(h, "count", "ended")
  /\ loaded' = [loaded EXCEPT ![h] = 0]
  /\ success' = loaded[h] + 1 /\ failed' = failed + 1
  /\ UNCHANGED <<request, overThere, result, runs, troubles>>

\* ... and a write, then the slot is free.
Count(h) ==
  /\ Goto(h, "count", "ended")
  /\ loaded' = [loaded EXCEPT ![h] = 0]
  /\ IF result[h] = "success" THEN success' = loaded[h] + 1 /\ UNCHANGED failed
                              ELSE failed' = loaded[h] + 1 /\ UNCHANGED success
  /\ UNCHANGED <<request, overThere, result, runs, troubles>>

Goroutine(h) ==
  \/ Acquire(h) \/ DialFails(h) \/ Connect(h) \/ WaitReturns(h) \/ TimesOut(h)
  \/ AppendRun(h) \/ Load(h) \/ Count(h)

Peer(h) ==
  \/ Refused(h) \/ StartCommand(h) \/ Started(h) \/ StartFails(h)

Next ==
  \/ BeginExecute \/ ContextEnds \/ AnswerExecute \/ AnswerRun \/ Crash
  \/ \E h \in Hosts :
       \/ BeginRun(h) \/ Goroutine(h) \/ Peer(h) \/ ConnectionBreaks(h)
       \/ \E end \in {"zero", "nonzero"} : RemoteEnds(h, end)

Spec == Init /\ [][Next]_vars

\* The goroutines run, and their wait for the command is bounded by a timer.
OwnSteps ==
  /\ WF_vars(AnswerExecute) /\ WF_vars(AnswerRun) /\ \A h \in Hosts : WF_vars(Goroutine(h))

\* Their wait for the handshake, the session and the reply to the start is not:
\* that peers answer there, or break off, is assumed; not that they end a
\* command.
PeersAnswer == \A h \in Hosts : WF_vars(Peer(h))

FairSpec == Spec /\ OwnSteps /\ PeersAnswer

-----------------------------------------------------------------------------
(* Properties.                                                             *)

\* Every variable has its type.
TypeOK ==
  /\ via \in {"none", "execute", "run"} /\ ctx \in BOOLEAN
  /\ phase \in {"idle", "running", "answered", "crashed"}
  /\ event \in {"due", "written", "failed"}
  /\ pc \in [Hosts -> {"absent", "queued", "connecting", "handshake", "starting", "waiting",
                       "audit", "load", "count", "ended"}]
  /\ remote \in [Hosts -> {"none", "running", "zero", "nonzero"}]
  /\ heard \in [Hosts -> {"nothing", "zero", "nonzero", "lost"}]
  /\ result \in [Hosts -> Statuses \union {""}]
  /\ runs \in [Hosts -> SUBSET Statuses]
  /\ loaded \in [Hosts -> Int] /\ success \in Int /\ failed \in Int
  /\ troubles \in 0..MaxTroubles

\* service.go: "A failure on one server must not automatically terminate
\* execution on other servers."  An answer has an outcome for every host;
\* success means the command ended there with zero; "failed" hides such an
\* end, or a command that still runs, only where the connection was lost; each
\* outcome is in command_runs, if its row could be written.
AnswerTellsHosts ==
  phase = "answered" => \A h \in Targets :
    /\ result[h] \in Statuses
    /\ result[h] = "success" => remote[h] = "zero"
    /\ result[h] = "failed" => remote[h] \notin {"zero", "running"} \/ heard[h] = "lost"
    /\ via = "execute" /\ troubles = 0 => runs[h] = {result[h]}

\* The counters may miss a host, but never count one twice or on both sides.
NeverOvercounted ==
  phase = "answered" /\ via = "execute" =>
    /\ success <= Cardinality({h \in Hosts : result[h] = "success"})
    /\ failed <= Cardinality({h \in Hosts : result[h] # "success"})
    /\ success + failed > 0

\* ExecuteResult, "the aggregate response of a multi-host execution": its
\* counts are the counts of its results.
CountsAddUp ==
  phase = "answered" /\ via = "execute" =>
    success = Cardinality({h \in Hosts : result[h] = "success"})

\* Several servers are audited before the first is touched: what a crash
\* leaves running has its event, unless that could not be written.
NothingRunsUnaudited ==
  via = "execute" /\ (\E h \in Hosts : remote[h] # "none") => event # "due"

\* ssh.go: "so a runaway remote command cannot block forever".  A request is
\* answered, whether its commands end or not, when every peer completes the
\* handshake or breaks it off.
ExecuteEnds == phase = "running" ~> phase # "running"

=============================================================================
