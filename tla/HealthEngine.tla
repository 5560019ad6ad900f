---------------------------- MODULE HealthEngine ----------------------------
(***************************************************************************)
(* The health-check engine (internal/healthcheck/engine.go) with the rows  *)
(* it reads back (models/health.go), the events it appends and the purge   *)
(* of old rows (internal/maintenance/purger.go).  One goroutine serves the *)
(* ticker; a round lists the projects, probes those whose interval is over *)
(* with at most Limit workers and waits for all of them.  Time is counted  *)
(* in units, as ages: what is older than anybody asks stops ageing.        *)
(***************************************************************************)
EXTENDS Naturals, FiniteSets

CONSTANTS
  Projects,
  Effective,   \* project -> Interval times its environment's multiplier
  Interval,    \* Engine.Interval
  Jitter,      \* how late an idle engine may serve a tick
  MaxRound,    \* how long a round may take, probes being bounded by a timeout
  Limit,       \* concurrency
  MaxTroubles  \* bound on failing statements, shutdowns and crashes

VARIABLES
  eligible,    \* enabled projects with a valid health_url
  phase, due,  \* the ticker: its age since the last tick, a tick not served
  wait,        \* age of the round, or of the tick an idle engine has not served
  lastTick,    \* Engine.lastTick as ages up to Effective, which no entry counts as
  pc,          \* project -> where its worker stands
  previous,    \* project -> what its worker read of the row before
  got,         \* project -> what its worker's probe came to
  overtaken,   \* projects with a row stamped later than their worker's probe
  result,      \* project -> its newest row of health_results
  event,       \* project -> its newest health event
  stopping,    \* the context of the engine is cancelled
  blind,       \* history: projects of which an observation or event was lost
               \* since an event and the row it announces were written
  since,       \* history: age of a project's last probe or eligibility
  troubles

ticker == <<phase, due, wait, lastTick>>
worker == <<pc, previous, got, overtaken>>
table == <<result, event, blind>>
vars == <<eligible, ticker, worker, table, stopping, since, troubles>>

Idle == \A p \in Projects : pc[p] = "idle"

\* Rounds of at most Interval - Jitter leave every tick a round.  A probe is
\* then followed by another at the first tick its interval is over for sure.
GapBound(p) == Interval * ((Effective[p] + Jitter + Interval - 1) \div Interval) + Jitter

Older(age, most) == IF age < most THEN age + 1 ELSE age

Trouble == troubles < MaxTroubles /\ troubles' = troubles + 1
Works == ~stopping /\ UNCHANGED troubles
Fails == Trouble \/ (stopping /\ UNCHANGED troubles)

Init ==
  /\ eligible \in SUBSET Projects
  /\ phase = 0 /\ due = FALSE /\ wait = 0
  /\ lastTick = [p \in Projects |-> Effective[p]]
  /\ pc = [p \in Projects |-> "idle"]
  /\ previous = [p \in Projects |-> "none"]
  /\ got = [p \in Projects |-> "nothing"]
  /\ overtaken = {}
  /\ result = [p \in Projects |-> "none"]
  /\ event = [p \in Projects |-> "none"]
  /\ since = [p \in Projects |-> 0]
  /\ blind = {} /\ stopping = FALSE /\ troubles = 0

-----------------------------------------------------------------------------
\* Time: the ticker's channel holds one tick, a second one is dropped.
Advance ==
  LET tick == phase + 1 = Interval
  IN  /\ ~stopping
      /\ (due \/ ~Idle) => wait < (IF Idle THEN Jitter ELSE MaxRound)
      /\ phase' = IF tick THEN 0 ELSE phase + 1
      /\ due' = (due \/ tick)
      /\ wait' = IF due \/ ~Idle THEN wait + 1 ELSE 0
      /\ lastTick' = [p \in Projects |-> Older(lastTick[p], Effective[p])]
      /\ since' = [p \in Projects |->
           IF p \in eligible THEN Older(since[p], GapBound(p) + 1) ELSE 0]
      /\ UNCHANGED <<eligible, worker, table, stopping, troubles>>

\* shouldProbe
ShouldProbe(p) == lastTick[p] >= Effective[p]

\* Slip: what is not due is counted as probed all the same.
RunOnceMarksAll ==
  LET chosen == {p \in eligible : ShouldProbe(p)}
  IN  /\ due /\ Idle /\ Works
      /\ due' = FALSE /\ wait' = 0
      /\ lastTick' = [p \in Projects |-> 0]
      /\ since' = [p \in Projects |-> IF p \in chosen THEN 0 ELSE since[p]]
      /\ pc' = [p \in Projects |-> IF p \in chosen THEN "queued" ELSE "idle"]
      /\ UNCHANGED <<eligible, phase, previous, got, overtaken, table, stopping>>

\* runOnce lists the projects, takes the time and queues what should be
\* probed.
RunOnce ==
  LET chosen == {p \in eligible : ShouldProbe(p)}
  IN  /\ due /\ Idle /\ Works
      /\ due' = FALSE /\ wait' = 0
      /\ lastTick' = [p \in Projects |-> IF p \in chosen THEN 0 ELSE lastTick[p]]
      /\ since' = [p \in Projects |-> IF p \in chosen THEN 0 ELSE since[p]]
      /\ pc' = [p \in Projects |-> IF p \in chosen THEN "queued" ELSE "idle"]
      /\ UNCHANGED <<eligible, phase, previous, got, overtaken, table, stopping>>

\* A round whose list fails is skipped.
RunOnceFails ==
  /\ due /\ Idle /\ Fails
  /\ due' = FALSE /\ wait' = 0
  /\ since' = [p \in Projects |-> 0]
  /\ UNCHANGED <<eligible, phase, lastTick, worker, table, stopping>>

\* errgroup's limit, then LatestByProject; any error reads as no row.
ReadPrevious(p) ==
  /\ pc[p] = "queued"
  /\ Cardinality({q \in Projects : pc[q] \notin {"idle", "queued"}}) < Limit
  /\ pc' = [pc EXCEPT ![p] = "probing"]
  /\ \/ Works /\ previous' = [previous EXCEPT ![p] = result[p]] /\ UNCHANGED blind
     \/ Fails /\ previous' = [previous EXCEPT ![p] = "none"] /\ blind' = blind \union {p}
  /\ UNCHANGED <<eligible, ticker, got, overtaken, result, event, stopping, since>>

\* probe: a request whose context is cancelled fails as an unanswered one does.
Probe(p) ==
  /\ pc[p] = "probing"
  /\ pc' = [pc EXCEPT ![p] = "probed"]
  /\ \E answer \in IF stopping THEN {"cancelled"} ELSE {"ok", "fail"} :
       got' = [got EXCEPT ![p] = answer]
  /\ UNCHANGED <<eligible, ticker, previous, overtaken, table, stopping, since, troubles>>

Outcome(p) == IF got[p] = "ok" THEN "ok" ELSE "fail"

\* Slip: the row is written under a context of its own.
AppendDetached(p) ==
  /\ pc[p] = "probed"
  /\ pc' = [pc EXCEPT ![p] = "stored"]
  /\ result' = [result EXCEPT ![p] = Outcome(p)]
  /\ UNCHANGED <<eligible, ticker, previous, got, overtaken, event, blind, stopping, since, troubles>>

\* Slip: and with the cancellation for a status.
AppendRaw(p) ==
  /\ pc[p] = "probed"
  /\ pc' = [pc EXCEPT ![p] = "stored"] /\ result' = [result EXCEPT ![p] = got[p]]
  /\ UNCHANGED <<eligible, ticker, previous, got, overtaken, event, blind, stopping, since, troubles>>

\* HealthRepo.Append: an error is logged and the worker goes on.  The newest
\* row is the one stamped last, not the one inserted last.
Append(p) ==
  /\ pc[p] = "probed"
  /\ pc' = [pc EXCEPT ![p] = "stored"]
  /\ \/ /\ p \notin overtaken /\ Works
        /\ result' = [result EXCEPT ![p] = Outcome(p)] /\ UNCHANGED blind
     \/ /\ (p \in overtaken /\ UNCHANGED troubles) \/ Fails
        /\ blind' = blind \union {p} /\ UNCHANGED result
  /\ UNCHANGED <<eligible, ticker, previous, got, overtaken, event, stopping, since>>

\* Slip: a project whose first observation is down is not announced.
TransitionKnown(p) == previous[p] # "none" /\ previous[p] # Outcome(p)

\* A first observation is announced only where it is down.
Transition(p) ==
  IF previous[p] = "none" THEN Outcome(p) = "fail" ELSE previous[p] # Outcome(p)

\* The event of a transition, then the signal to the evaluator, whose return
\* ends the worker.
Announce(p) ==
  /\ pc[p] = "stored"
  /\ pc' = [pc EXCEPT ![p] = "idle"]
  /\ IF Transition(p)
     THEN \/ /\ Works /\ event' = [event EXCEPT ![p] = Outcome(p)]
             /\ blind' = IF result[p] = Outcome(p) THEN blind \ {p} ELSE blind
          \/ Fails /\ blind' = blind \union {p} /\ UNCHANGED event
     ELSE UNCHANGED <<event, blind, troubles>>
  /\ previous' = [previous EXCEPT ![p] = "none"]
  /\ got' = [got EXCEPT ![p] = "nothing"]
  /\ overtaken' = overtaken \ {p}
  /\ wait' = IF \A q \in Projects \ {p} : pc[q] = "idle" THEN 0 ELSE wait
  /\ UNCHANGED <<eligible, phase, due, lastTick, result, stopping, since>>

Worker(p) == ReadPrevious(p) \/ Probe(p) \/ Append(p) \/ Announce(p)

\* probeHealth, as the engine's probe does.
ProbeHealth == {"ok", "fail"}

\* ProjectHandler.health: an operator's own probe is stored among the engine's
\* rows, which the engine takes for what it saw last; no event is appended.
Health(p) ==
  /\ \E answer \in ProbeHealth :
       /\ result' = [result EXCEPT ![p] = answer]
       /\ blind' = IF result[p] # answer THEN blind \union {p} ELSE blind
  /\ \/ UNCHANGED overtaken
     \/ pc[p] \in {"probing", "probed"} /\ overtaken' = overtaken \union {p}
  /\ UNCHANGED <<eligible, ticker, pc, previous, got, event, stopping, since, troubles>>

-----------------------------------------------------------------------------
\* A project is created, edited, enabled, disabled or deleted.
Edit(p) ==
  /\ eligible' \in {eligible \ {p}, eligible \union {p}}
  /\ since' = [since EXCEPT ![p] = 0]
  /\ UNCHANGED <<ticker, worker, table, stopping, troubles>>

\* EventRepo.Purge: an event older than KeepEventsFor, though nothing has
\* happened to its project since.
PurgeEvents(p) ==
  /\ event[p] # "none" /\ pc[p] = "idle" /\ ~stopping
  /\ event' = [event EXCEPT ![p] = "none"]
  /\ blind' = blind \union {p}
  /\ UNCHANGED <<eligible, ticker, worker, result, stopping, since, troubles>>

\* HealthRepo.Purge: the rows of a project that nobody has probed for KeepHealthFor.
PurgeHealth(p) ==
  /\ p \notin eligible /\ pc[p] = "idle" /\ result[p] # "none" /\ ~stopping
  /\ result' = [result EXCEPT ![p] = "none"]
  /\ blind' = blind \union {p}
  /\ UNCHANGED <<eligible, ticker, worker, event, stopping, since, troubles>>

\* Purger.tick
Purge(p) == PurgeEvents(p) \/ PurgeHealth(p)

\* The process is asked to stop: the context of every component is cancelled.
Shutdown ==
  /\ ~stopping /\ Trouble
  /\ stopping' = TRUE
  /\ since' = [p \in Projects |-> 0]
  /\ UNCHANGED <<eligible, ticker, worker, table>>

\* The process ends, asked or not, and is started again.
Restart ==
  /\ Trouble \/ (stopping /\ UNCHANGED troubles)
  /\ stopping' = FALSE
  /\ phase' = 0 /\ due' = FALSE /\ wait' = 0
  /\ lastTick' = [p \in Projects |-> Effective[p]]
  /\ pc' = [p \in Projects |-> "idle"]
  /\ previous' = [p \in Projects |-> "none"]
  /\ got' = [p \in Projects |-> "nothing"]
  /\ overtaken' = {}
  /\ since' = [p \in Projects |-> 0]
  /\ blind' = blind \union {p \in Projects : pc[p] = "stored"}
  /\ UNCHANGED <<eligible, result, event>>

Next ==
  \/ Advance \/ RunOnce \/ RunOnceFails
  \/ \E p \in Projects : Worker(p) \/ Health(p) \/ Edit(p) \/ Purge(p)
  \/ Shutdown \/ Restart

Spec == Init /\ [][Next]_vars

-----------------------------------------------------------------------------
(* Properties.                                                             *)

\* Every variable has its type.
TypeOK ==
  /\ eligible \subseteq Projects
  /\ phase \in 0..(Interval - 1) /\ due \in BOOLEAN /\ wait \in 0..(MaxRound + Jitter)
  /\ \A p \in Projects : lastTick[p] \in 0..Effective[p]
  /\ pc \in [Projects -> {"idle", "queued", "probing", "probed", "stored"}]
  /\ previous \in [Projects -> {"none", "ok", "fail"}]
  /\ got \in [Projects -> {"nothing", "ok", "fail", "cancelled"}]
  /\ result \in [Projects -> {"none", "ok", "fail"}]
  /\ event \in [Projects -> {"none", "ok", "fail"}]
  /\ overtaken \subseteq Projects
  /\ blind \subseteq Projects /\ stopping \in BOOLEAN
  /\ troubles \in 0..MaxTroubles

\* A project that stays eligible is probed at the first tick its interval is
\* over for sure: a tick served early after one served late costs a whole
\* interval, never two, however many rounds, edits and projects there are.
ProbedInTime == \A p \in eligible : ~stopping => since[p] <= GapBound(p)

\* A shutdown in the middle of a round never leaves a row saying that a
\* project was down.
DownWasProbed ==
  \A p \in Projects :
    pc'[p] # pc[p] /\ result'[p] = "fail" /\ result[p] # "fail" => got[p] = "fail"

NoFalseDown == [][DownWasProbed]_vars

\* The event log tells the truth: the newest event of a project says down
\* exactly where its newest row does, unless a statement failed, the process
\* ended between row and event, the row or the event was purged or an operator's own probe
\* saw the change first.
EventsTellHealth ==
  \A p \in Projects \ blind :
    pc[p] # "stored" => (event[p] = "fail" <=> result[p] = "fail")

=============================================================================
