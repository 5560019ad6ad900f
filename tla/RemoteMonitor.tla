---------------------------- MODULE RemoteMonitor ----------------------------
(***************************************************************************)
(* The SSH monitoring engine (internal/remote/engine.go) and the handlers  *)
(* that write the same rows of the servers table: POST /servers/:id/test,  *)
(* create, PUT, PATCH and DELETE of /servers.  The engine runs one round   *)
(* at a time, a sweep or a retry of the servers that are offline; a round  *)
(* lists the rows once and gives every server of the list a worker, which  *)
(* works from the listed status while tests write newer ones.              *)
(***************************************************************************)
EXTENDS Naturals, FiniteSets

CONSTANTS
  Servers,       \* a finite set
  MaxParallel,   \* EngineConfig.MaxParallel, NewEngine makes it positive
  MaxFailures,   \* EngineConfig.MaxFailures, NewEngine makes it positive
  Testers,       \* test requests that may be in progress together
  NoTest,        \* an idle tester
  MaxCrashes,    \* bound on restarts
  MaxFaults      \* bound on failing statements

VARIABLES
  status,      \* server -> its status column, "absent" or "deleted" without a row
  enabled,     \* servers whose row is enabled
  up,          \* servers whose collection over SSH would succeed now
  pc,          \* server -> where its worker stands
  listed,      \* server -> the status its worker's round has listed
  fails,       \* Engine.failCount, counted up to MaxFailures
  lastEvent,   \* server -> its last server_offline or server_recovered event
  test,        \* test request -> its server and whether the probe succeeded
  streak,      \* history: collections that failed since one succeeded
  tested,      \* history: servers whose status a test has written
  crashes, faults

vars == <<status, enabled, up, pc, listed, fails, lastEvent, test,
          streak, tested, crashes, faults>>
workers == <<pc, listed, fails, lastEvent, streak>>
bounds == <<crashes, faults>>

Online == "online"
Offline == "offline"
Degraded == "degraded"
Present == {s \in Servers : status[s] \notin {"absent", "deleted"}}

UpTo(n, max) == IF n < max THEN n + 1 ELSE max

Goto(s, from, to) == pc[s] = from /\ pc' = [pc EXCEPT ![s] = to]

Fault == faults < MaxFaults /\ faults' = faults + 1
NoFault == UNCHANGED faults

Init ==
  /\ status = [s \in Servers |-> "absent"]
  /\ enabled = {} /\ tested = {}
  /\ up \in SUBSET Servers
  /\ pc = [s \in Servers |-> "none"]
  /\ listed = [s \in Servers |-> "absent"]
  /\ fails = [s \in Servers |-> 0]
  /\ streak = [s \in Servers |-> 0]
  /\ lastEvent = [s \in Servers |-> "none"]
  /\ test = [r \in Testers |-> NoTest]
  /\ crashes = 0 /\ faults = 0

-----------------------------------------------------------------------------
(* The engine.                                                             *)

\* The previous round has waited for all its workers.
EngineIdle == \A s \in Servers : pc[s] = "none"

StartRound(servers) ==
  /\ EngineIdle
  /\ pc' = [s \in Servers |-> IF s \in servers THEN "queued" ELSE "none"]
  /\ listed' = [s \in Servers |-> IF s \in servers THEN status[s] ELSE "absent"]
  /\ UNCHANGED <<status, enabled, up, fails, lastEvent, test, streak, tested, bounds>>

\* Slip: a sweep of the servers that a poll or a test has met before.
StartSweepKnown == StartRound({s \in enabled : status[s] # "unknown"})

StartSweep == StartRound(enabled)

StartRetry == StartRound({s \in enabled : status[s] \in {Offline, Degraded}})

\* The semaphore of the round.
Acquire(s) ==
  /\ Goto(s, "queued", "collecting")
  /\ Cardinality({t \in Servers : pc[t] \notin {"none", "queued"}}) < MaxParallel
  /\ UNCHANGED <<status, enabled, up, listed, fails, lastEvent, test, streak, tested, bounds>>

\* Collector.Collect, and the discovery after it with a connection of its own:
\* each under a timeout that leaves out the handshake, which the peer may never
\* complete.  The rows of both, and the system's name, are nothing of this module.
Collect(s) ==
  /\ Goto(s, "collecting", IF s \in up THEN "answered" ELSE "failed")
  /\ streak' = [streak EXCEPT ![s] = IF s \in up THEN 0 ELSE UpTo(@, MaxFailures)]
  /\ UNCHANGED <<status, enabled, up, listed, fails, lastEvent, test, tested, bounds>>

\* SetStatus: a deleted row stays deleted, an error is only logged.
SetStatus(s, new) ==
  \/ NoFault /\ status' = [status EXCEPT ![s] = IF s \in Present THEN new ELSE @]
  \/ Fault /\ UNCHANGED status

\* Slip: offline one failure too early.
JudgeEarly(s, n) ==
  IF pc[s] = "answered" THEN Online
  ELSE IF n + 1 >= MaxFailures THEN Offline
  ELSE IF listed[s] = Online THEN Degraded ELSE listed[s]

\* The status after a success and after the n-th failure in a row.
Judge(s, n) ==
  IF pc[s] = "answered" THEN Online
  ELSE IF n >= MaxFailures THEN Offline
  ELSE IF listed[s] = Online THEN Degraded ELSE listed[s]

\* Slip: only a server that was online can go offline.
AnnounceFromOnline(s, new) ==
  IF (new = Offline /\ listed[s] = Online) \/ (new = Online /\ listed[s] # Online)
  THEN new ELSE "nothing"

\* Which event, if any, announces the transition from what was listed.
Announce(s, new) ==
  IF new # listed[s] /\ new \in {Online, Offline} THEN new ELSE "nothing"

\* Slip: a counter that never adds up.
RecordForgets(s) ==
  LET n == IF pc[s] = "answered" THEN 0 ELSE 1
      new == Judge(s, n)
  IN  /\ pc[s] \in {"answered", "failed"}
      /\ fails' = [fails EXCEPT ![s] = n]
      /\ SetStatus(s, new)
      /\ pc' = [pc EXCEPT ![s] = Announce(s, new)]
      /\ UNCHANGED <<enabled, up, listed, lastEvent, test, streak, tested, crashes>>

\* failCount and SetStatus.
Record(s) ==
  LET n == IF pc[s] = "answered" THEN 0 ELSE UpTo(fails[s], MaxFailures)
      new == Judge(s, n)
  IN  /\ pc[s] \in {"answered", "failed"}
      /\ fails' = [fails EXCEPT ![s] = n]
      /\ SetStatus(s, new)
      /\ pc' = [pc EXCEPT ![s] = Announce(s, new)]
      /\ UNCHANGED <<enabled, up, listed, lastEvent, test, streak, tested, crashes>>

\* emitEvent drops its error; the worker frees its slot of the semaphore.
Report(s) ==
  /\ pc[s] \in {Online, Offline, "nothing"}
  /\ pc' = [pc EXCEPT ![s] = "none"]
  /\ listed' = [listed EXCEPT ![s] = "absent"]
  /\ \/ NoFault /\ lastEvent' = [lastEvent EXCEPT ![s] = IF pc[s] = "nothing" THEN @ ELSE pc[s]]
     \/ pc[s] # "nothing" /\ Fault /\ UNCHANGED lastEvent
  /\ UNCHANGED <<status, enabled, up, fails, test, streak, tested, crashes>>

-----------------------------------------------------------------------------
(* The handlers.                                                           *)

Create(s) ==
  /\ status[s] = "absent"
  /\ status' = [status EXCEPT ![s] = "unknown"]
  /\ enabled' \in {enabled, enabled \union {s}}
  /\ UNCHANGED <<up, workers, test, tested, bounds>>

\* PUT and PATCH write every column but the status.  The value of enabled
\* is the client's, or the one of a Get that another edit has outdated.
Edit(s) ==
  /\ s \in Present
  /\ \E e \in {enabled \ {s}, enabled \union {s}} : enabled' = e
  /\ UNCHANGED <<status, up, workers, test, tested, bounds>>

\* Slip: a delete that keeps the server on the list of the sweeps.
DeleteKeepsEnabled(s) ==
  /\ s \in Present
  /\ status' = [status EXCEPT ![s] = "deleted"]
  /\ UNCHANGED <<enabled, up, workers, test, tested, bounds>>

\* failCount keeps its entry, a worker of the round its server.
Delete(s) ==
  /\ s \in Present
  /\ status' = [status EXCEPT ![s] = "deleted"]
  /\ enabled' = enabled \ {s}
  /\ UNCHANGED <<up, workers, test, tested, bounds>>

\* testServer finds the row and probes the server ...
TestProbe(r, s) ==
  /\ s \in Present /\ test[r] = NoTest
  /\ test' = [test EXCEPT ![r] = [server |-> s, ok |-> s \in up]]
  /\ UNCHANGED <<status, enabled, up, workers, tested, bounds>>

\* ... and records the outcome, whatever happened to the row meanwhile.
TestRecord(r) ==
  /\ test[r] # NoTest
  /\ SetStatus(test[r].server, IF test[r].ok THEN Online ELSE Offline)
  /\ tested' = tested \union {test[r].server}
  /\ test' = [test EXCEPT ![r] = NoTest]
  /\ UNCHANGED <<enabled, up, workers, crashes>>

-----------------------------------------------------------------------------
\* A server, its network or its sshd goes down or comes back.
Flip(s) ==
  /\ up' \in {up \ {s}, up \union {s}}
  /\ UNCHANGED <<status, enabled, workers, test, tested, bounds>>

\* The dashboard restarts: workers, counters and requests are gone.
Crash ==
  /\ crashes < MaxCrashes
  /\ crashes' = crashes + 1
  /\ pc' = [s \in Servers |-> "none"]
  /\ listed' = [s \in Servers |-> "absent"]
  /\ fails' = [s \in Servers |-> 0]
  /\ test' = [r \in Testers |-> NoTest]
  /\ UNCHANGED <<status, enabled, up, lastEvent, streak, tested, faults>>

Worker(s) == Acquire(s) \/ Collect(s) \/ Record(s) \/ Report(s)

Next ==
  \/ StartSweep \/ StartRetry
  \/ \E s \in Servers :
       \/ Worker(s) \/ Create(s) \/ Edit(s) \/ Delete(s) \/ Flip(s)
       \/ \E r \in Testers : TestProbe(r, s)
  \/ \E r \in Testers : TestRecord(r)
  \/ Crash

Spec == Init /\ [][Next]_vars

\* The engine's select picks among ready tickers at random, so a sweep that is
\* due again and again is run; what a worker does of its own comes to an end.
OwnSteps ==
  /\ SF_vars(StartSweep)
  /\ \A s \in Servers : WF_vars(Acquire(s) \/ Record(s) \/ Report(s))

\* Assumed of the servers: a handshake is completed or broken off.
PeersAnswer == \A s \in Servers : WF_vars(Collect(s))

FairSpec == Spec /\ OwnSteps /\ PeersAnswer

-----------------------------------------------------------------------------
(* Properties.                                                             *)

\* Every variable has its type.
TypeOK ==
  /\ status \in [Servers -> {"absent", "deleted", "unknown", Online, Degraded, Offline}]
  /\ enabled \subseteq Present
  /\ up \subseteq Servers
  /\ pc \in [Servers -> {"none", "queued", "collecting", "answered", "failed",
                         Online, Offline, "nothing"}]
  /\ listed \in [Servers -> {"absent", "unknown", Online, Degraded, Offline}]
  /\ fails \in [Servers -> 0..MaxFailures]
  /\ streak \in [Servers -> 0..MaxFailures]
  /\ lastEvent \in [Servers -> {"none", Online, Offline}]
  /\ test \in [Testers -> [server : Servers, ok : BOOLEAN] \union {NoTest}]
  /\ tested \subseteq Servers
  /\ crashes \in 0..MaxCrashes
  /\ faults \in 0..MaxFaults

\* A worker's write that turns a row offline.
TurnsOffline(s) ==
  pc[s] = "failed" /\ pc'[s] # pc[s] /\ status[s] # Offline /\ status'[s] = Offline

\* engine.go: "only mark offline after maxFailures consecutive failures".
OfflineIsEarned ==
  [][\A s \in Servers : TurnsOffline(s) => streak[s] >= MaxFailures]_vars

\* The same where no test writes beside the engine: restarts, faults, edits
\* and slow workers never let the engine turn a row offline too early.
OfflineIsEarnedUntested ==
  [][\A s \in Servers :
       TurnsOffline(s) /\ tested = {} => streak[s] >= MaxFailures]_vars

\* The event log follows the table: with the database up and nobody testing,
\* a server between two polls is offline exactly when the last event said so.
EventsTellStatus ==
  \A s \in Present \ tested :
    pc[s] \notin {Online, Offline} /\ crashes = 0 /\ faults = 0
      => (status[s] = Offline <=> lastEvent[s] = Offline)

\* A monitored server.
Watched(s) == s \in Present /\ s \in enabled

\* A server that stays reachable is online in the end and stays so, whatever
\* tests, stale rounds, edits of other servers and restarts came before.
UpIsSeen ==
  \A s \in Servers : <>[](Watched(s) /\ s \in up) => <>[](status[s] = Online)

\* The same, without PeersAnswer, of a server whose own collections end: another
\* one that stalls does it no harm.
StalledHarmsNoOther ==
  \A s \in Servers :
    <>[](Watched(s) /\ s \in up) /\ []<>(pc[s] # "collecting") => <>[](status[s] = Online)

\* A server that stays unreachable is offline in the end and stays so.
DownIsSeen ==
  \A s \in Servers : <>[](Watched(s) /\ s \notin up) => <>[](status[s] = Offline)

=============================================================================
