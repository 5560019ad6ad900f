-------------------------- MODULE MonitoringProofs --------------------------
(* Theorems about what watches, for any number of projects and any         *)
(* intervals: each part on its own, then the same of the composition the   *)
(* runs check.                                                             *)
EXTENDS MCMonitoring, Sequences, FiniteSetTheorems, TLAPS

-----------------------------------------------------------------------------
\* The bounds are numbers, a tick is served before the next, and rounds are
\* short enough to leave every tick one.
HealthBounded ==
  /\ Interval \in Nat \ {0} /\ Jitter \in Nat /\ MaxRound \in Nat /\ MaxTroubles \in Nat
  /\ Jitter < Interval /\ MaxRound + Jitter <= Interval
  /\ \A p \in Projects : Effective[p] \in Nat \ {0}

\* The tick that waits for an idle engine is as old as the engine has waited;
\* one that waits for a round to end has just come.
Ticks ==
  /\ due /\ Health!Idle => wait = phase /\ wait <= Jitter
  /\ due /\ ~Health!Idle => phase = 0 /\ wait = MaxRound
  /\ ~due /\ ~Health!Idle => wait <= MaxRound /\ phase <= Jitter + wait

HealthTypeInv == Health!TypeOK /\ since \in [Projects -> Nat] /\ Ticks

\* It holds at the start.
LEMMA HealthStart == ASSUME HealthBounded, Health!Init PROVE HealthTypeInv
<1>1. \A p \in Projects : lastTick[p] = Effective[p]
  BY DEF Health!Init
<1>2. ASSUME NEW p \in Projects PROVE lastTick[p] \in 0..Effective[p]
  <2>1. Effective[p] \in Nat
    BY DEF HealthBounded
  <2> QED
    BY <1>1, <2>1
<1>3. since \in [Projects -> Nat] /\ ~due /\ Health!Idle
  BY DEF Health!Init, Health!Idle
<1>4. Ticks
  BY <1>3 DEF Ticks
<1>5. /\ phase \in 0..(Interval - 1) /\ wait \in 0..(MaxRound + Jitter)
      /\ troubles \in 0..MaxTroubles
  BY DEF HealthBounded, Health!Init
<1>6. due \in BOOLEAN /\ stopping \in BOOLEAN
  BY DEF Health!Init
<1> QED
  BY <1>2, <1>3, <1>4, <1>5, <1>6 DEF Health!Init, HealthTypeInv, Health!TypeOK

\* Workers, operators and the purger leave the ticker alone, but for the end of
\* a round.
LEMMA WorkersLeaveTicker ==
  ASSUME HealthBounded, HealthTypeInv, NEW p \in Projects,
         Health!Worker(p) \/ Health!Health(p) \/ Health!Purge(p)
  PROVE  HealthTypeInv' /\ UNCHANGED <<eligible, phase, due, lastTick, since, stopping>>
<1> USE DEF HealthBounded, HealthTypeInv, Health!TypeOK, Ticks, Health!Idle, Health!Works,
            Health!Fails, Health!Trouble, Health!ticker, Health!worker, Health!table
<1>1. CASE Health!ReadPrevious(p)
  BY <1>1 DEF Health!ReadPrevious
<1>2. CASE Health!Probe(p)
  BY <1>2 DEF Health!Probe
<1>3. CASE Health!Append(p)
  <2>1. Health!Outcome(p) \in {"ok", "fail"}
    BY DEF Health!Outcome
  <2> QED
    BY <1>3, <2>1 DEF Health!Append
<1>4. CASE Health!Announce(p)
  <2>1. Health!Outcome(p) \in {"ok", "fail"}
    BY DEF Health!Outcome
  <2>2. /\ pc[p] = "stored" /\ pc' = [pc EXCEPT ![p] = "idle"]
        /\ wait' = IF \A q \in Projects \ {p} : pc[q] = "idle" THEN 0 ELSE wait
        /\ previous' = [previous EXCEPT ![p] = "none"]
        /\ got' = [got EXCEPT ![p] = "nothing"]
        /\ overtaken' = overtaken \ {p}
        /\ UNCHANGED <<eligible, phase, due, lastTick, result, stopping, since>>
    BY <1>4 DEF Health!Announce
  <2>3. /\ event' \in [Projects -> {"none", "ok", "fail"}] /\ blind' \in SUBSET Projects
        /\ troubles' \in 0..MaxTroubles
    BY <1>4, <2>1 DEF Health!Announce
  <2>4. /\ Health!Idle' <=> \A q \in Projects \ {p} : pc[q] = "idle"
        /\ ~Health!Idle
    BY <2>2
  <2>5. Ticks'
    BY <2>2, <2>4
  <2>6. wait' \in 0..(MaxRound + Jitter)
    BY <2>2
  <2>7. /\ pc' \in [Projects -> {"idle", "queued", "probing", "probed", "stored"}]
        /\ previous' \in [Projects -> {"none", "ok", "fail"}]
        /\ got' \in [Projects -> {"nothing", "ok", "fail", "cancelled"}]
        /\ overtaken' \in SUBSET Projects
    BY <2>2
  <2> QED
    BY <2>2, <2>3, <2>5, <2>6, <2>7
<1>5. CASE Health!Health(p)
  BY <1>5 DEF Health!Health, Health!ProbeHealth
<1>6. CASE Health!Purge(p)
  BY <1>6 DEF Health!Purge, Health!PurgeEvents, Health!PurgeHealth
<1> QED
  BY <1>1, <1>2, <1>3, <1>4, <1>5, <1>6 DEF Health!Worker

\* Every step keeps HealthTypeInv.
LEMMA HealthTypeStep ==
  ASSUME HealthBounded, HealthTypeInv, [Health!Next]_Health!vars
  PROVE  HealthTypeInv'
<1> USE DEF HealthBounded, HealthTypeInv, Health!TypeOK, Ticks, Health!Idle, Health!Works,
            Health!Fails, Health!Trouble, Health!ticker, Health!worker, Health!table
<1>1. CASE Health!Advance
  <2>1. /\ phase' = IF phase + 1 = Interval THEN 0 ELSE phase + 1
        /\ due' = (due \/ phase + 1 = Interval)
        /\ wait' = IF due \/ ~Health!Idle THEN wait + 1 ELSE 0
        /\ (due \/ ~Health!Idle) => wait < (IF Health!Idle THEN Jitter ELSE MaxRound)
        /\ UNCHANGED <<eligible, pc, previous, got, overtaken, result, event, blind, stopping,
                       troubles>>
    BY <1>1 DEF Health!Advance
  <2>2. \A p \in Projects : lastTick'[p] \in 0..Effective[p]
    BY <1>1 DEF Health!Advance, Health!Older
  <2>3. \A p \in Projects : Health!Older(since[p], Health!GapBound(p) + 1) \in Nat
    BY DEF Health!Older
  <2>4. since' \in [Projects -> Nat]
    <3>1. since' = [p \in Projects |->
              IF p \in eligible THEN Health!Older(since[p], Health!GapBound(p) + 1) ELSE 0]
      BY <1>1 DEF Health!Advance
    <3> HIDE DEF Health!GapBound
    <3> QED
      BY <2>3, <3>1
  <2>5. Health!Idle' <=> Health!Idle
    BY <2>1
  <2>6. due' \in BOOLEAN /\ phase' \in 0..(Interval - 1) /\ wait' \in 0..(MaxRound + Jitter)
    BY <2>1
  <2>7. Ticks'
    <3> HIDE DEF Health!Idle
    <3>1. CASE Health!Idle
      BY <2>1, <2>5, <3>1
    <3>2. CASE ~Health!Idle
      BY <2>1, <2>5, <3>2
    <3> QED
      BY <3>1, <3>2
  <2> QED
    BY <2>1, <2>2, <2>4, <2>6, <2>7
<1>2. CASE Health!RunOnce
  <2> DEFINE chosen == {p \in eligible : Health!ShouldProbe(p)}
  <2>1. /\ due /\ Health!Idle /\ due' = FALSE /\ wait' = 0
        /\ lastTick' = [p \in Projects |-> IF p \in chosen THEN 0 ELSE lastTick[p]]
        /\ since' = [p \in Projects |-> IF p \in chosen THEN 0 ELSE since[p]]
        /\ pc' = [p \in Projects |-> IF p \in chosen THEN "queued" ELSE "idle"]
        /\ UNCHANGED <<eligible, phase, previous, got, overtaken, result, event, blind,
                       stopping, troubles>>
    BY <1>2 DEF Health!RunOnce
  <2> HIDE DEF chosen
  <2>2. /\ pc' \in [Projects -> {"idle", "queued", "probing", "probed", "stored"}]
        /\ since' \in [Projects -> Nat]
    BY <2>1
  <2>3. \A p \in Projects : lastTick'[p] \in 0..Effective[p]
    BY <2>1
  <2>4. Ticks'
    BY <2>1
  <2>5. due' \in BOOLEAN
    BY <2>1
  <2>6. wait' \in 0..(MaxRound + Jitter)
    BY <2>1
  <2> HIDE DEF Ticks, Health!Idle
  <2> QED
    BY <2>1, <2>2, <2>3, <2>4, <2>5, <2>6
<1>3. CASE Health!RunOnceFails
  <2>1. /\ due /\ Health!Idle /\ due' = FALSE /\ wait' = 0
        /\ since' = [p \in Projects |-> 0] /\ troubles' \in 0..MaxTroubles
        /\ UNCHANGED <<eligible, phase, lastTick, pc, previous, got, overtaken, result, event,
                       blind, stopping>>
    BY <1>3 DEF Health!RunOnceFails
  <2>2. Ticks'
    BY <2>1
  <2>3. due' \in BOOLEAN /\ since' \in [Projects -> Nat]
    BY <2>1
  <2>4. wait' \in 0..(MaxRound + Jitter)
    BY <2>1
  <2> HIDE DEF Ticks, Health!Idle
  <2> QED
    BY <2>1, <2>2, <2>3, <2>4
<1>4. ASSUME NEW p \in Projects, Health!Edit(p) PROVE HealthTypeInv'
  BY <1>4 DEF Health!Edit
<1>5. CASE Health!Shutdown
  BY <1>5 DEF Health!Shutdown
<1>6. CASE Health!Restart
  <2>1. /\ due' = FALSE /\ wait' = 0 /\ phase' = 0 /\ stopping' = FALSE
        /\ lastTick' = [p \in Projects |-> Effective[p]]
        /\ pc' = [p \in Projects |-> "idle"] /\ previous' = [p \in Projects |-> "none"]
        /\ got' = [p \in Projects |-> "nothing"] /\ overtaken' = {}
        /\ since' = [p \in Projects |-> 0] /\ blind' \in SUBSET Projects
        /\ UNCHANGED <<eligible, result, event>>
    BY <1>6 DEF Health!Restart
  <2>2. troubles' \in 0..MaxTroubles
    BY <1>6 DEF Health!Restart
  <2>3. \A p \in Projects : lastTick'[p] \in 0..Effective[p]
    BY <2>1
  <2>4. Ticks'
    BY <2>1
  <2>5. due' \in BOOLEAN /\ stopping' \in BOOLEAN /\ since' \in [Projects -> Nat]
    BY <2>1
  <2>6. /\ pc' \in [Projects -> {"idle", "queued", "probing", "probed", "stored"}]
        /\ previous' \in [Projects -> {"none", "ok", "fail"}]
        /\ got' \in [Projects -> {"nothing", "ok", "fail", "cancelled"}]
        /\ overtaken' \in SUBSET Projects
    BY <2>1
  <2>7. wait' \in 0..(MaxRound + Jitter) /\ phase' \in 0..(Interval - 1)
    BY <2>1
  <2> HIDE DEF Ticks, Health!Idle
  <2> QED
    BY <2>1, <2>2, <2>3, <2>4, <2>5, <2>6, <2>7
<1>7. CASE UNCHANGED Health!vars
  BY <1>7 DEF Health!vars
<1> QED
  BY <1>1, <1>2, <1>3, <1>4, <1>5, <1>6, <1>7, WorkersLeaveTicker DEF Health!Next

-----------------------------------------------------------------------------
\* A probe that a shutdown cancelled is told from one that failed until the
\* process has ended.
Answered ==
  \A p \in Projects :
    /\ pc[p] \in {"probed", "stored"} => got[p] # "nothing"
    /\ got[p] = "cancelled" => stopping

\* Every step keeps Answered, and stores down only for a probe that failed.
LEMMA AnsweredStep ==
  ASSUME HealthTypeInv, Answered, [Health!Next]_Health!vars
  PROVE  Answered' /\ Health!DownWasProbed
<1> USE DEF HealthTypeInv, Health!TypeOK, Answered, Health!DownWasProbed, Health!ticker,
            Health!worker, Health!table
<1>1. CASE Health!Advance \/ Health!RunOnce \/ Health!RunOnceFails \/ Health!Shutdown
  BY <1>1 DEF Health!Advance, Health!RunOnce, Health!RunOnceFails, Health!Shutdown
<1>2. ASSUME NEW p \in Projects, Health!Health(p) \/ Health!Edit(p) \/ Health!Purge(p)
      PROVE  Answered' /\ Health!DownWasProbed
  BY <1>2 DEF Health!Health, Health!Edit, Health!Purge, Health!PurgeEvents,
              Health!PurgeHealth
<1>3. ASSUME NEW p \in Projects, Health!ReadPrevious(p) \/ Health!Announce(p)
      PROVE  Answered' /\ Health!DownWasProbed
  BY <1>3 DEF Health!ReadPrevious, Health!Announce
<1>4. ASSUME NEW p \in Projects, Health!Probe(p) PROVE Answered' /\ Health!DownWasProbed
  BY <1>4 DEF Health!Probe
<1>5. ASSUME NEW p \in Projects, Health!Append(p) PROVE Answered' /\ Health!DownWasProbed
  <2>1. /\ pc[p] = "probed" /\ pc' = [pc EXCEPT ![p] = "stored"]
        /\ result' = result \/ (result' = [result EXCEPT ![p] = Health!Outcome(p)] /\ ~stopping)
        /\ UNCHANGED <<got, stopping>>
    BY <1>5 DEF Health!Append, Health!Works
  <2>2. Health!Outcome(p) = "fail" /\ ~stopping => got[p] = "fail"
    BY <2>1 DEF Health!Outcome
  <2> QED
    BY <2>1, <2>2
<1>6. CASE Health!Restart
  BY <1>6 DEF Health!Restart
<1>7. CASE UNCHANGED Health!vars
  BY <1>7 DEF Health!vars
<1> QED
  BY <1>1, <1>2, <1>3, <1>4, <1>5, <1>6, <1>7 DEF Health!Next, Health!Worker

\* health/engine.go: a shutdown in the middle of a round leaves no row that
\* says down.
THEOREM DownIsProbed ==
  ASSUME HealthBounded
  PROVE  Health!Spec => [](Health!TypeOK) /\ Health!NoFalseDown
<1>1. Health!Init => HealthTypeInv
  BY HealthStart
<1>2. Health!Init => Answered
  BY DEF Health!Init, Answered
<1>3. HealthTypeInv /\ [Health!Next]_Health!vars => HealthTypeInv'
  BY HealthTypeStep
<1>4. HealthTypeInv /\ Answered /\ [Health!Next]_Health!vars
        => Answered' /\ [Health!DownWasProbed]_Health!vars
  BY AnsweredStep
<1>5. HealthTypeInv => Health!TypeOK
  BY DEF HealthTypeInv
<1> QED
  BY <1>1, <1>2, <1>3, <1>4, <1>5, PTL DEF Health!Spec, Health!NoFalseDown

-----------------------------------------------------------------------------
\* What is known of p while `n` ticks have been served since its last probe:
\* lastTick counts from a service at most Jitter after its tick.
TicksSince(p, n) ==
  n * Interval + phase - Jitter <= lastTick[p] /\ lastTick[p] <= n * Interval + phase

\* lastTick counts from the service of a tick, unless it has reached what
\* Effective asks for; since is no older; and a project that is not probed has
\* waited for less than the ticks its GapBound spans.
Paced ==
  \A p \in Projects :
    /\ lastTick[p] < Effective[p] => \E n \in Nat : TicksSince(p, n)
    /\ lastTick[p] = Effective[p] \/ since[p] <= lastTick[p]
    /\ p \in eligible =>
         since[p] + Interval + Jitter
           <= Health!GapBound(p) + phase + (IF due THEN Interval ELSE 0)

\* GapBound is a whole number of ticks, at least one, that Effective and the
\* Jitter fit into, and the Jitter.
LEMMA GapIsWhole ==
  ASSUME HealthBounded, NEW p \in Projects
  PROVE  \E k \in Nat \ {0} : /\ Health!GapBound(p) = k * Interval + Jitter
                              /\ Effective[p] + Jitter <= k * Interval
<1> DEFINE sum == Effective[p] + Jitter + Interval - 1
           k == sum \div Interval
<1>1. /\ Interval \in Nat \ {0} /\ Jitter \in Nat /\ Effective[p] \in Nat \ {0}
      /\ sum \in Nat /\ sum >= Interval
  BY DEF HealthBounded
<1>2. Health!GapBound(p) = Interval * k + Jitter
  BY DEF Health!GapBound
<1> HIDE DEF sum
<1>3. k \in Nat /\ Interval * k <= sum /\ sum < Interval * k + Interval
  BY <1>1, SMTT(30)
<1> HIDE DEF k
<1>4. k # 0
  BY <1>1, <1>3
<1>5. Interval * k = k * Interval
  BY <1>1, <1>3
<1>6. Effective[p] + Jitter <= Interval * k
  BY <1>1, <1>3 DEF sum
<1> QED
  BY <1>2, <1>3, <1>4, <1>5, <1>6

\* A project whose interval is not over has seen fewer ticks than its GapBound
\* spans.
LEMMA NotYetDue ==
  ASSUME HealthBounded, HealthTypeInv, NEW p \in Projects, NEW n \in Nat,
         TicksSince(p, n), lastTick[p] < Effective[p]
  PROVE  lastTick[p] + Interval + Jitter <= Health!GapBound(p) + phase
<1>1. PICK k \in Nat \ {0} : /\ Health!GapBound(p) = k * Interval + Jitter
                             /\ Effective[p] + Jitter <= k * Interval
  BY GapIsWhole
<1>2. /\ Interval \in Nat \ {0} /\ Jitter \in Nat /\ Effective[p] \in Nat
      /\ phase \in Nat /\ lastTick[p] \in Int
  BY DEF HealthBounded, HealthTypeInv, Health!TypeOK
<1> DEFINE a == n * Interval
           b == k * Interval
<1>3. a \in Nat /\ b \in Nat
  BY <1>1, <1>2
<1>4. a < b
  BY <1>1, <1>2, <1>3 DEF TicksSince
<1>5. n < k
  <2> SUFFICES ASSUME k <= n PROVE FALSE
    BY <1>1
  <2>1. PICK d \in Nat : n = k + d
    BY <1>1
  <2>2. a = b + d * Interval /\ d * Interval \in Nat
    BY <1>1, <1>2, <2>1
  <2> QED
    BY <1>3, <1>4, <2>2
<1>6. a + Interval <= b
  <2>1. PICK d \in Nat : k = n + 1 + d
    BY <1>1, <1>5
  <2>2. b = a + Interval + d * Interval /\ d * Interval \in Nat
    BY <1>1, <1>2, <2>1
  <2> QED
    BY <1>2, <1>3, <2>2
<1> QED
  BY <1>1, <1>2, <1>3, <1>6 DEF TicksSince

\* What leaves the ticker alone keeps Paced.
LEMMA PacedUnchanged ==
  ASSUME HealthBounded, HealthTypeInv, Paced,
         UNCHANGED <<eligible, phase, due, lastTick, since>>
  PROVE  Paced'
BY DEF Paced, TicksSince, Health!GapBound

\* A project that has just been edited, probed, or restarted with.
LEMMA PacedAfresh ==
  ASSUME HealthBounded, HealthTypeInv, NEW p \in Projects
  PROVE  Interval + Jitter <= Health!GapBound(p)
<1>1. PICK k \in Nat \ {0} : /\ Health!GapBound(p) = k * Interval + Jitter
                             /\ Effective[p] + Jitter <= k * Interval
  BY GapIsWhole
<1>2. Interval \in Nat /\ Jitter \in Nat
  BY DEF HealthBounded
<1>3. PICK d \in Nat : k = d + 1
  BY <1>1
<1>4. k * Interval = d * Interval + Interval /\ d * Interval \in Nat
  BY <1>2, <1>3
<1> QED
  BY <1>1, <1>2, <1>4

\* The passing of time keeps Paced.
LEMMA PacedAdvance ==
  ASSUME HealthBounded, HealthTypeInv, Paced, Health!Advance
  PROVE  Paced'
<1> SUFFICES ASSUME NEW p \in Projects
             PROVE  /\ lastTick'[p] < Effective[p] => \E n \in Nat : TicksSince(p, n)'
                    /\ lastTick'[p] = Effective[p] \/ since'[p] <= lastTick'[p]
                    /\ p \in eligible' =>
                         since'[p] + Interval + Jitter
                           <= Health!GapBound(p) + phase' + (IF due' THEN Interval ELSE 0)
  BY DEF Paced, Health!GapBound
<1>1. /\ Interval \in Nat \ {0} /\ Jitter \in Nat /\ Effective[p] \in Nat /\ MaxRound \in Nat
      /\ Jitter < Interval /\ MaxRound + Jitter <= Interval
      /\ phase \in 0..(Interval - 1) /\ lastTick[p] \in 0..Effective[p] /\ since[p] \in Nat
      /\ wait \in Nat
  BY DEF HealthBounded, HealthTypeInv, Health!TypeOK
<1>2. PICK k \in Nat \ {0} : Health!GapBound(p) = k * Interval + Jitter
  BY GapIsWhole
<1>3. Health!GapBound(p) \in Nat
  <2>1. k * Interval \in Nat
    BY <1>1
  <2> QED
    BY <1>1, <1>2, <2>1
<1>4. /\ phase' = IF phase + 1 = Interval THEN 0 ELSE phase + 1
      /\ due' = (due \/ phase + 1 = Interval)
      /\ lastTick'[p] = Health!Older(lastTick[p], Effective[p])
      /\ since'[p] = IF p \in eligible THEN Health!Older(since[p], Health!GapBound(p) + 1)
                      ELSE 0
      /\ eligible' = eligible
  BY DEF Health!Advance
<1>5. /\ lastTick'[p] = IF lastTick[p] < Effective[p] THEN lastTick[p] + 1 ELSE lastTick[p]
      /\ since'[p] \in {0, since[p], since[p] + 1}
  BY <1>4 DEF Health!Older
<1>6. lastTick'[p] < Effective[p] => \E n \in Nat : TicksSince(p, n)'
  <2> SUFFICES ASSUME lastTick'[p] < Effective[p]
               PROVE  \E n \in Nat : TicksSince(p, n)'
    OBVIOUS
  <2>1. lastTick[p] < Effective[p] /\ lastTick'[p] = lastTick[p] + 1
    BY <1>1, <1>5
  <2>2. PICK n \in Nat : TicksSince(p, n)
    BY <2>1 DEF Paced
  <2>3. n * Interval \in Nat /\ (n + 1) * Interval = n * Interval + Interval
    BY <1>1
  <2>4. CASE phase + 1 = Interval
    <3>1. TicksSince(p, n + 1)'
      BY <1>1, <1>4, <2>1, <2>2, <2>3, <2>4 DEF TicksSince
    <3> QED
      BY <3>1
  <2>5. CASE phase + 1 # Interval
    <3>1. TicksSince(p, n)'
      BY <1>1, <1>4, <2>1, <2>2, <2>3, <2>5 DEF TicksSince
    <3> QED
      BY <3>1
  <2> QED
    BY <2>4, <2>5
<1>7. lastTick'[p] = Effective[p] \/ since'[p] <= lastTick'[p]
  <2>1. lastTick[p] = Effective[p] \/ since[p] <= lastTick[p]
    BY DEF Paced
  <2> QED
    BY <1>1, <1>3, <1>5, <2>1
<1>8. ASSUME p \in eligible'
      PROVE  since'[p] + Interval + Jitter
               <= Health!GapBound(p) + phase' + (IF due' THEN Interval ELSE 0)
  <2>1. since[p] + Interval + Jitter
          <= Health!GapBound(p) + phase + (IF due THEN Interval ELSE 0)
    BY <1>4, <1>8 DEF Paced
  <2>2. since'[p] <= since[p] + 1 /\ since'[p] \in Nat
    BY <1>1, <1>3, <1>5
  <2>3. due => phase + 1 # Interval
    <3>1. CASE Health!Idle
      BY <1>1, <3>1 DEF Health!Advance, HealthTypeInv, Ticks
    <3>2. CASE ~Health!Idle
      BY <1>1, <3>2 DEF Health!Advance, HealthTypeInv, Ticks
    <3> QED
      BY <3>1, <3>2
  <2>4. CASE due
    <3>1. due' /\ phase' = phase + 1
      BY <1>1, <1>4, <2>3, <2>4
    <3> QED
      BY <1>1, <1>3, <2>1, <2>2, <2>4, <3>1
  <2>5. CASE ~due /\ phase + 1 = Interval
    <3>1. due' /\ phase' = 0
      BY <1>4, <2>5
    <3> QED
      BY <1>1, <1>3, <2>1, <2>2, <2>5, <3>1
  <2>6. CASE ~due /\ phase + 1 # Interval
    <3>1. ~due' /\ phase' = phase + 1
      BY <1>4, <2>6
    <3> QED
      BY <1>1, <1>3, <2>1, <2>2, <2>6, <3>1
  <2> QED
    BY <2>4, <2>5, <2>6
<1> QED
  BY <1>6, <1>7, <1>8

\* A round keeps Paced: it probes what is due, and what is not has still fewer
\* ticks to wait for.
LEMMA PacedRound ==
  ASSUME HealthBounded, HealthTypeInv, Paced, Health!RunOnce \/ Health!RunOnceFails
  PROVE  Paced'
<1> SUFFICES ASSUME NEW p \in Projects
             PROVE  /\ lastTick'[p] < Effective[p] => \E n \in Nat : TicksSince(p, n)'
                    /\ lastTick'[p] = Effective[p] \/ since'[p] <= lastTick'[p]
                    /\ p \in eligible' =>
                         since'[p] + Interval + Jitter
                           <= Health!GapBound(p) + phase' + (IF due' THEN Interval ELSE 0)
  BY DEF Paced, Health!GapBound
<1>1. /\ Interval \in Nat \ {0} /\ Jitter \in Nat /\ Effective[p] \in Nat \ {0}
      /\ phase \in 0..(Interval - 1) /\ lastTick[p] \in 0..Effective[p] /\ since[p] \in Nat
  BY DEF HealthBounded, HealthTypeInv, Health!TypeOK
<1>2. /\ Health!GapBound(p) \in Nat /\ Interval + Jitter <= Health!GapBound(p)
  <2>1. PICK k \in Nat \ {0} : Health!GapBound(p) = k * Interval + Jitter
    BY GapIsWhole
  <2>2. k * Interval \in Nat
    BY <1>1
  <2> QED
    BY <1>1, <2>1, <2>2, PacedAfresh
<1>3. due /\ phase <= Jitter /\ ~due' /\ UNCHANGED <<eligible, phase>>
  BY <1>1 DEF Health!RunOnce, Health!RunOnceFails, HealthTypeInv, Ticks
<1>4. CASE lastTick'[p] = 0 /\ since'[p] = 0
  <2>1. 0 * Interval = 0
    BY <1>1
  <2>2. TicksSince(p, 0)'
    BY <1>1, <1>3, <1>4, <2>1 DEF TicksSince
  <2>3. \E n \in Nat : TicksSince(p, n)'
    BY <2>2
  <2> QED
    BY <1>1, <1>2, <1>3, <1>4, <2>3
<1>5. CASE /\ lastTick'[p] = lastTick[p] /\ since'[p] \in {0, since[p]}
           /\ p \in eligible => since'[p] = 0 \/ lastTick[p] < Effective[p]
  <2>1. ASSUME lastTick'[p] < Effective[p] PROVE \E n \in Nat : TicksSince(p, n)'
    <3>1. PICK n \in Nat : TicksSince(p, n)
      BY <1>5, <2>1 DEF Paced
    <3>2. TicksSince(p, n)'
      BY <1>3, <1>5, <3>1 DEF TicksSince
    <3> QED
      BY <3>2
  <2>2. lastTick'[p] = Effective[p] \/ since'[p] <= lastTick'[p]
    BY <1>1, <1>5 DEF Paced
  <2>3. ASSUME p \in eligible
        PROVE  since'[p] + Interval + Jitter <= Health!GapBound(p) + phase
    <3>1. CASE since'[p] = 0
      BY <1>1, <1>2, <3>1
    <3>2. CASE since'[p] # 0
      <4>1. lastTick[p] < Effective[p] /\ since'[p] = since[p] /\ since[p] <= lastTick[p]
        BY <1>1, <1>5, <2>3, <3>2 DEF Paced
      <4>2. PICK n \in Nat : TicksSince(p, n)
        BY <4>1 DEF Paced
      <4>3. lastTick[p] + Interval + Jitter <= Health!GapBound(p) + phase
        BY <4>1, <4>2, NotYetDue
      <4> QED
        BY <1>1, <1>2, <4>1, <4>3
    <3> QED
      BY <3>1, <3>2
  <2> QED
    BY <1>1, <1>2, <1>3, <2>1, <2>2, <2>3
<1>6. CASE Health!RunOnce
  <2>1. /\ lastTick'[p] = IF p \in eligible /\ Health!ShouldProbe(p) THEN 0 ELSE lastTick[p]
        /\ since'[p] = IF p \in eligible /\ Health!ShouldProbe(p) THEN 0 ELSE since[p]
    BY <1>6 DEF Health!RunOnce
  <2>2. CASE p \in eligible /\ Health!ShouldProbe(p)
    BY <1>4, <2>1, <2>2
  <2>3. CASE ~(p \in eligible /\ Health!ShouldProbe(p))
    <3>1. p \in eligible => lastTick[p] < Effective[p]
      BY <1>1, <2>3 DEF Health!ShouldProbe
    <3> QED
      BY <1>5, <2>1, <2>3, <3>1
  <2> QED
    BY <2>2, <2>3
<1>7. CASE Health!RunOnceFails
  <2>1. lastTick'[p] = lastTick[p] /\ since'[p] = 0
    BY <1>7 DEF Health!RunOnceFails
  <2> QED
    BY <1>5, <2>1
<1> QED
  BY <1>6, <1>7

\* Every step keeps Paced.
LEMMA PacedStep ==
  ASSUME HealthBounded, HealthTypeInv, Paced, [Health!Next]_Health!vars
  PROVE  Paced'
<1>1. \A p \in Projects : /\ Health!GapBound(p) \in Nat
                          /\ Interval + Jitter <= Health!GapBound(p)
  <2> SUFFICES ASSUME NEW p \in Projects
               PROVE  Health!GapBound(p) \in Nat /\ Interval + Jitter <= Health!GapBound(p)
    OBVIOUS
  <2>1. PICK k \in Nat \ {0} : Health!GapBound(p) = k * Interval + Jitter
    BY GapIsWhole
  <2>2. k * Interval \in Nat
    BY DEF HealthBounded
  <2> QED
    BY <2>1, <2>2, PacedAfresh DEF HealthBounded
<1>2. /\ Interval \in Nat \ {0} /\ Jitter \in Nat /\ phase \in 0..(Interval - 1)
      /\ since \in [Projects -> Nat]
      /\ \A p \in Projects : Effective[p] \in Nat /\ lastTick[p] \in 0..Effective[p]
  BY DEF HealthBounded, HealthTypeInv, Health!TypeOK
<1>3. CASE Health!Advance
  BY <1>3, PacedAdvance
<1>4. CASE Health!RunOnce \/ Health!RunOnceFails
  BY <1>4, PacedRound
<1>5. ASSUME NEW q \in Projects, Health!Worker(q) \/ Health!Health(q) \/ Health!Purge(q)
      PROVE  Paced'
  BY <1>5, WorkersLeaveTicker, PacedUnchanged
<1>6. ASSUME NEW q \in Projects, Health!Edit(q) PROVE Paced'
  <2>1. /\ eligible' \ {q} = eligible \ {q} /\ since' = [since EXCEPT ![q] = 0]
        /\ UNCHANGED <<phase, due, lastTick>>
    BY <1>6 DEF Health!Edit, Health!ticker
  <2> SUFFICES ASSUME NEW p \in Projects
               PROVE  /\ lastTick[p] < Effective[p] => \E n \in Nat : TicksSince(p, n)'
                      /\ lastTick[p] = Effective[p] \/ since'[p] <= lastTick[p]
                      /\ p \in eligible' =>
                           since'[p] + Interval + Jitter
                             <= Health!GapBound(p) + phase + (IF due THEN Interval ELSE 0)
    BY <2>1 DEF Paced, Health!GapBound
  <2>2. \A n \in Nat : TicksSince(p, n) => TicksSince(p, n)'
    BY <2>1 DEF TicksSince
  <2>3. CASE p = q
    <3>1. since'[p] = 0
      BY <1>2, <2>1, <2>3
    <3>2. 0 + Interval + Jitter <= Health!GapBound(p) + phase + (IF due THEN Interval ELSE 0)
      BY <1>1, <1>2
    <3> QED
      BY <1>2, <2>2, <3>1, <3>2 DEF Paced
  <2>4. CASE p # q
    BY <1>2, <2>1, <2>2, <2>4 DEF Paced
  <2> QED
    BY <2>3, <2>4
<1>7. CASE Health!Restart
  <2>1. /\ ~due' /\ phase' = 0 /\ eligible' = eligible
        /\ \A p \in Projects : lastTick'[p] = Effective[p] /\ since'[p] = 0
    BY <1>7 DEF Health!Restart
  <2> SUFFICES ASSUME NEW p \in Projects
               PROVE  /\ lastTick'[p] < Effective[p] => \E n \in Nat : TicksSince(p, n)'
                      /\ lastTick'[p] = Effective[p] \/ since'[p] <= lastTick'[p]
                      /\ p \in eligible' =>
                           since'[p] + Interval + Jitter
                             <= Health!GapBound(p) + phase' + (IF due' THEN Interval ELSE 0)
    BY DEF Paced, Health!GapBound
  <2> QED
    BY <1>1, <1>2, <2>1
<1>8. CASE Health!Shutdown
  <2>1. /\ UNCHANGED <<eligible, phase, due, lastTick>>
        /\ \A p \in Projects : since'[p] = 0
    BY <1>8 DEF Health!Shutdown, Health!ticker
  <2> SUFFICES ASSUME NEW p \in Projects
               PROVE  /\ lastTick[p] < Effective[p] => \E n \in Nat : TicksSince(p, n)'
                      /\ lastTick[p] = Effective[p] \/ since'[p] <= lastTick[p]
                      /\ p \in eligible =>
                           since'[p] + Interval + Jitter
                             <= Health!GapBound(p) + phase + (IF due THEN Interval ELSE 0)
    BY <2>1 DEF Paced, Health!GapBound
  <2>2. lastTick[p] < Effective[p] => \E n \in Nat : TicksSince(p, n)'
    BY <2>1 DEF Paced, TicksSince
  <2>3. since'[p] = 0 /\ lastTick[p] \in Nat /\ Health!GapBound(p) \in Int
    BY <1>1, <2>1 DEF HealthTypeInv, Health!TypeOK
  <2>4. /\ Interval + Jitter <= Health!GapBound(p) /\ phase \in Nat
        /\ Interval \in Nat /\ Jitter \in Nat
    BY <1>1, PacedAfresh DEF HealthTypeInv, Health!TypeOK, HealthBounded
  <2> QED
    BY <2>2, <2>3, <2>4
<1>9. CASE UNCHANGED Health!vars
  BY <1>9, PacedUnchanged DEF Health!vars, Health!ticker
<1> QED
  BY <1>3, <1>4, <1>5, <1>6, <1>7, <1>8, <1>9 DEF Health!Next

-----------------------------------------------------------------------------
\* Where nothing was lost, the newest event says what the newest row says; a
\* worker knows the row it follows; and one that has stored its own has still
\* to announce it.
Told ==
  \A p \in Projects \ blind :
    /\ pc[p] # "stored" => (event[p] = "fail" <=> result[p] = "fail")
    /\ pc[p] \in {"probing", "probed"} => previous[p] = result[p]
    /\ pc[p] = "stored" => /\ result[p] = Health!Outcome(p)
                           /\ event[p] = "fail" <=> previous[p] = "fail"

\* Every step keeps Told.
LEMMA ToldStep ==
  ASSUME HealthTypeInv, Told, [Health!Next]_Health!vars
  PROVE  Told'
<1> USE DEF HealthTypeInv, Health!TypeOK, Health!ticker, Health!worker, Health!table
<1>1. ASSUME UNCHANGED <<pc, previous, got, event, result>>, blind \subseteq blind'
      PROVE  Told'
  BY <1>1 DEF Told, Health!Outcome
<1>2. CASE Health!RunOnce
  BY <1>2 DEF Health!RunOnce, Health!Idle, Told
<1>3. CASE Health!Advance \/ Health!RunOnceFails \/ Health!Shutdown
  BY <1>1, <1>3 DEF Health!Advance, Health!RunOnceFails, Health!Shutdown
<1>4. CASE Health!Restart
  <2>1. /\ blind' = blind \union {p \in Projects : pc[p] = "stored"}
        /\ pc' = [p \in Projects |-> "idle"] /\ UNCHANGED <<result, event>>
    BY <1>4 DEF Health!Restart
  <2> QED
    BY <2>1 DEF Told
<1>5. ASSUME NEW q \in Projects, Health!Edit(q) PROVE Told'
  BY <1>1, <1>5 DEF Health!Edit
<1>6. ASSUME NEW q \in Projects, Health!ReadPrevious(q) PROVE Told'
  <2>1. /\ pc[q] = "queued" /\ pc' = [pc EXCEPT ![q] = "probing"]
        /\ UNCHANGED <<got, result, event>>
        /\ \/ previous' = [previous EXCEPT ![q] = result[q]] /\ blind' = blind
           \/ previous' = [previous EXCEPT ![q] = "none"] /\ blind' = blind \union {q}
    BY <1>6 DEF Health!ReadPrevious
  <2> QED
    BY <2>1 DEF Told, Health!Outcome
<1>7. ASSUME NEW q \in Projects, Health!Probe(q) PROVE Told'
  <2>1. /\ pc[q] = "probing" /\ pc' = [pc EXCEPT ![q] = "probed"]
        /\ \A p \in Projects \ {q} : got'[p] = got[p]
        /\ UNCHANGED <<previous, result, event, blind>>
    BY <1>7 DEF Health!Probe
  <2> QED
    BY <2>1 DEF Told, Health!Outcome
<1>8. ASSUME NEW q \in Projects, Health!Append(q) PROVE Told'
  <2>1. /\ pc[q] = "probed" /\ pc' = [pc EXCEPT ![q] = "stored"]
        /\ UNCHANGED <<previous, got, event>>
        /\ \/ result' = [result EXCEPT ![q] = Health!Outcome(q)] /\ blind' = blind
           \/ result' = result /\ blind' = blind \union {q}
    BY <1>8 DEF Health!Append
  <2>2. \A p \in Projects : Health!Outcome(p)' = Health!Outcome(p)
    BY <2>1 DEF Health!Outcome
  <2>3. ASSUME NEW p \in Projects \ blind', p # q
        PROVE  /\ pc'[p] = pc[p] /\ result'[p] = result[p] /\ p \notin blind
    BY <2>1, <2>3
  <2>4. ASSUME q \notin blind'
        PROVE  /\ result'[q] = Health!Outcome(q) /\ pc'[q] = "stored"
               /\ event[q] = "fail" <=> previous[q] = "fail"
    <3>1. result'[q] = Health!Outcome(q) /\ pc'[q] = "stored" /\ q \notin blind
      BY <2>1, <2>4
    <3>2. (event[q] = "fail" <=> result[q] = "fail") /\ previous[q] = result[q]
      BY <2>1, <3>1 DEF Told
    <3> QED
      BY <3>1, <3>2
  <2> QED
    BY <2>1, <2>2, <2>3, <2>4 DEF Told
<1>9. ASSUME NEW q \in Projects, Health!Announce(q) PROVE Told'
  <2>1. /\ pc[q] = "stored" /\ pc' = [pc EXCEPT ![q] = "idle"] /\ result' = result
        /\ \A p \in Projects \ {q} :
             /\ previous'[p] = previous[p] /\ got'[p] = got[p] /\ event'[p] = event[p]
             /\ p \in blind' <=> p \in blind
    BY <1>9 DEF Health!Announce
  <2>2. Health!Outcome(q) \in {"ok", "fail"}
    BY DEF Health!Outcome
  <2>3. ASSUME q \notin blind'
        PROVE  event'[q] = "fail" <=> result[q] = "fail"
    <3>1. CASE Health!Transition(q)
      <4>1. \/ /\ event' = [event EXCEPT ![q] = Health!Outcome(q)]
               /\ blind' = IF result[q] = Health!Outcome(q) THEN blind \ {q} ELSE blind
            \/ blind' = blind \union {q}
        BY <1>9, <3>1 DEF Health!Announce
      <4>2. event'[q] = Health!Outcome(q)
        BY <2>3, <4>1
      <4>3. result[q] = Health!Outcome(q)
        BY <2>1, <2>3, <4>1 DEF Told
      <4> QED
        BY <4>2, <4>3
    <3>2. CASE ~Health!Transition(q)
      <4>1. UNCHANGED <<event, blind>>
        BY <1>9, <3>2 DEF Health!Announce
      <4>2. result[q] = Health!Outcome(q) /\ (event[q] = "fail" <=> previous[q] = "fail")
        BY <2>1, <2>3, <4>1 DEF Told
      <4> QED
        BY <2>2, <3>2, <4>1, <4>2 DEF Health!Transition
    <3> QED
      BY <3>1, <3>2
  <2> QED
    BY <2>1, <2>3 DEF Told, Health!Outcome
<1>10. ASSUME NEW q \in Projects, Health!Health(q) PROVE Told'
  <2>1. PICK answer \in {"ok", "fail"} :
             /\ result' = [result EXCEPT ![q] = answer]
             /\ blind' = IF result[q] # answer THEN blind \union {q} ELSE blind
             /\ UNCHANGED <<pc, previous, got, event>>
    BY <1>10 DEF Health!Health, Health!ProbeHealth
  <2>2. \A p \in Projects \ blind' : result'[p] = result[p] /\ p \notin blind
    BY <2>1
  <2> QED
    BY <2>1, <2>2 DEF Told, Health!Outcome
<1>11. ASSUME NEW q \in Projects, Health!Purge(q) PROVE Told'
  <2>1. /\ blind' = blind \union {q} /\ UNCHANGED <<pc, previous, got>>
        /\ \A p \in Projects \ {q} : event'[p] = event[p] /\ result'[p] = result[p]
    BY <1>11 DEF Health!Purge, Health!PurgeEvents, Health!PurgeHealth
  <2> QED
    BY <2>1 DEF Told, Health!Outcome
<1>12. CASE UNCHANGED Health!vars
  BY <1>1, <1>12 DEF Health!vars
<1> QED
  BY <1>2, <1>3, <1>4, <1>5, <1>6, <1>7, <1>8, <1>9, <1>10, <1>11, <1>12
     DEF Health!Next, Health!Worker

\* health/engine.go: every project that stays eligible is probed at the first
\* tick its interval is over for sure, and the event log tells the health of
\* each: for any number of projects, any intervals and any interleaving.
THEOREM HealthHolds ==
  ASSUME HealthBounded
  PROVE  Health!Spec => [](/\ Health!TypeOK /\ Health!ProbedInTime
                           /\ Health!EventsTellHealth)
<1>1. Health!Init => HealthTypeInv
  BY HealthStart
<1>2. Health!Init => Paced
  <2> SUFFICES ASSUME Health!Init, NEW p \in Projects
               PROVE  /\ lastTick[p] < Effective[p] => \E n \in Nat : TicksSince(p, n)
                      /\ lastTick[p] = Effective[p] \/ since[p] <= lastTick[p]
                      /\ since[p] + Interval + Jitter
                           <= Health!GapBound(p) + phase + (IF due THEN Interval ELSE 0)
    BY DEF Paced
  <2>1. Interval + Jitter <= Health!GapBound(p)
    BY HealthStart, PacedAfresh
  <2>2. /\ lastTick[p] = Effective[p] /\ since[p] = 0 /\ ~due /\ phase = 0
    BY DEF Health!Init
  <2>3. PICK k \in Nat \ {0} : Health!GapBound(p) = k * Interval + Jitter
    BY GapIsWhole
  <2>4. /\ Health!GapBound(p) \in Nat /\ Effective[p] \in Nat
        /\ Interval \in Nat /\ Jitter \in Nat
    BY <2>3 DEF HealthBounded
  <2>5. since[p] + Interval + Jitter
          <= Health!GapBound(p) + phase + (IF due THEN Interval ELSE 0)
    BY <2>1, <2>2, <2>4
  <2> QED
    BY <2>2, <2>4, <2>5
<1>3. Health!Init => Told
  BY DEF Health!Init, Told
<1>4. HealthTypeInv /\ [Health!Next]_Health!vars => HealthTypeInv'
  BY HealthTypeStep
<1>5. HealthTypeInv /\ Paced /\ [Health!Next]_Health!vars => Paced'
  BY PacedStep
<1>6. HealthTypeInv /\ Told /\ [Health!Next]_Health!vars => Told'
  BY ToldStep
<1>7. HealthTypeInv /\ Paced => Health!ProbedInTime
  <2> SUFFICES ASSUME HealthTypeInv, Paced, NEW p \in eligible
               PROVE  since[p] <= Health!GapBound(p)
    BY DEF Health!ProbedInTime
  <2>1. p \in Projects /\ since[p] \in Nat /\ phase \in 0..(Interval - 1)
    BY DEF HealthTypeInv, Health!TypeOK
  <2>2. since[p] + Interval + Jitter
          <= Health!GapBound(p) + phase + (IF due THEN Interval ELSE 0)
    BY <2>1 DEF Paced
  <2>3. due => phase <= Jitter
    BY DEF HealthTypeInv, Ticks, HealthBounded
  <2>4. PICK k \in Nat \ {0} : Health!GapBound(p) = k * Interval + Jitter
    BY <2>1, GapIsWhole
  <2>5. Health!GapBound(p) \in Nat /\ Interval \in Nat /\ Jitter \in Nat
    BY <2>4 DEF HealthBounded
  <2>6. CASE due
    BY <2>1, <2>2, <2>3, <2>5, <2>6
  <2>7. CASE ~due
    BY <2>1, <2>2, <2>5, <2>7
  <2> QED
    BY <2>6, <2>7
<1>8. Told => Health!EventsTellHealth
  BY DEF Told, Health!EventsTellHealth
<1>9. HealthTypeInv => Health!TypeOK
  BY DEF HealthTypeInv
<1> QED
  BY <1>1, <1>2, <1>3, <1>4, <1>5, <1>6, <1>7, <1>8, <1>9, PTL DEF Health!Spec

\* The same of what the runs check.
THEOREM HealthHoldsThroughout == ASSUME HealthBounded PROVE SumSpec => []HealthIsTrue
<1>1. SumInit /\ focus = "health" => Health!Init
  BY DEF SumInit
<1>2. focus = "health" /\ [SumNext]_sumVars
        => [Health!Next]_Health!vars /\ (focus = "health")'
  BY DEF SumNext, healthOnly, discoveryOnly, recorderOnly, alertOnly, floorOnly,
         notifyOnly, sumVars, Health!ticker, Health!worker, Health!table, Health!vars
<1>3. ~(focus = "health") /\ [SumNext]_sumVars => (~(focus = "health"))'
  BY DEF SumNext, sumVars
<1>4. (focus = "health" => /\ Health!TypeOK /\ Health!ProbedInTime
                           /\ Health!EventsTellHealth) => HealthIsTrue
  BY DEF HealthIsTrue
<1>5. Health!Spec => [](Health!TypeOK /\ Health!ProbedInTime /\ Health!EventsTellHealth)
  BY HealthHolds, PTL
<1> QED
  BY <1>1, <1>2, <1>3, <1>4, <1>5, PTL DEF SumSpec, Health!Spec

\* No shutdown leaves a row that says down, in what the runs check.
THEOREM DownIsProbedThroughout == ASSUME HealthBounded PROVE SumSpec => NoFalseDown
<1>1. SumInit /\ focus = "health" => Health!Init
  BY DEF SumInit
<1>2. focus = "health" /\ [SumNext]_sumVars
        => [Health!Next]_Health!vars /\ (focus = "health")'
  BY DEF SumNext, healthOnly, discoveryOnly, recorderOnly, alertOnly, floorOnly,
         notifyOnly, sumVars, Health!ticker,
         Health!worker, Health!table, Health!vars
<1>3. ~(focus = "health") /\ [SumNext]_sumVars => (~(focus = "health"))'
  BY DEF SumNext, sumVars
<1>4. Health!Init => HealthTypeInv /\ Answered
  BY HealthStart DEF Health!Init, Answered
<1>5. HealthTypeInv /\ Answered /\ [Health!Next]_Health!vars
        => HealthTypeInv' /\ Answered' /\ Health!DownWasProbed
  BY HealthTypeStep, AnsweredStep
<1>6. /\ (focus = "health" => HealthTypeInv /\ Answered)
      /\ [SumNext]_sumVars
      => /\ (focus = "health" => HealthTypeInv /\ Answered)'
         /\ [focus = "health" => Health!DownWasProbed]_sumVars
  BY <1>2, <1>3, <1>5
<1> QED
  BY <1>1, <1>4, <1>6, PTL DEF SumSpec, NoFalseDown

-----------------------------------------------------------------------------
\* The bounds are numbers, and a ring has room for a sample.
RecordBounded ==
  /\ Capacity \in Nat \ {0} /\ TickEvery \in Nat /\ CaptureMax \in Nat
  /\ EmitEvery \in Nat \ {0} /\ MaxNow \in Nat /\ MoreTroubles \in Nat

Sample == [at : 0..MaxNow, measured : BOOLEAN]

\* The ticks of which every ring has a sample.
Done == IF capturing = Record!Nothing THEN Len(taken) ELSE Len(taken) - 1

RecordTypeInv ==
  /\ now \in 0..MaxNow /\ tickAt \in Nat /\ emitAt \in Nat /\ judged \in 0..now
  /\ capturing \in {Record!Nothing} \union 0..now
  /\ ring \in [Record!Metrics -> Seq(Sample)]
  /\ snapshot \in [Record!Metrics -> Seq(Sample)]
  /\ told \in [Record!Metrics -> Seq(Sample)]
  /\ todo \in Seq(Record!Metrics)
  /\ taken \in Seq(Nat) /\ Len(taken) >= 1
  /\ \A i \in 1..Len(taken) : taken[i] <= now
  /\ capturing # Record!Nothing => capturing = taken[Len(taken)]
  /\ slow \in BOOLEAN /\ troubles \in 0..MoreTroubles

\* new is the ring buf with x at its end, the oldest sample shifted out of a full one.
GrownBy(new, buf, x) ==
  /\ new \in Seq(Sample)
  /\ Len(buf) < Capacity =>
       /\ Len(new) = Len(buf) + 1 /\ new[Len(buf) + 1] = x
       /\ \A i \in 1..Len(buf) : new[i] = buf[i]
  /\ Len(buf) = Capacity =>
       /\ Len(new) = Capacity /\ new[Capacity] = x
       /\ \A i \in 1..(Capacity - 1) : new[i] = buf[i + 1]

\* A ring after one more sample.
LEMMA BufferGrows ==
  ASSUME RecordBounded, NEW buf \in Seq(Sample), NEW x \in Sample
  PROVE  GrownBy(Record!AppendBounded(buf, x), buf, x)
<1> USE DEF RecordBounded, GrownBy
<1>1. CASE Len(buf) < Capacity
  <2>1. Record!AppendBounded(buf, x) = Append(buf, x)
    BY <1>1 DEF Record!AppendBounded
  <2> QED
    BY <1>1, <2>1
<1>2. CASE Len(buf) >= Capacity
  <2>1. Record!AppendBounded(buf, x) = Append(Tail(buf), x)
    BY <1>2 DEF Record!AppendBounded
  <2>2. buf # <<>> /\ Tail(buf) \in Seq(Sample) /\ Len(Tail(buf)) = Len(buf) - 1
    BY <1>2
  <2>3. \A i \in 1..(Len(buf) - 1) : Tail(buf)[i] = buf[i + 1]
    BY <2>2
  <2> DEFINE t == Tail(buf)
  <2> HIDE DEF t
  <2>4. /\ t \in Seq(Sample) /\ Len(t) = Len(buf) - 1
        /\ \A i \in 1..(Len(buf) - 1) : t[i] = buf[i + 1]
    BY <2>2, <2>3 DEF t
  <2>5. /\ Append(t, x) \in Seq(Sample) /\ Len(Append(t, x)) = Len(buf)
        /\ Append(t, x)[Len(buf)] = x
        /\ \A i \in 1..(Len(buf) - 1) : Append(t, x)[i] = t[i]
    BY <2>4
  <2>6. Record!AppendBounded(buf, x) = Append(t, x)
    BY <2>1 DEF t
  <2> QED
    BY <1>2, <2>4, <2>5, <2>6
<1> QED
  BY <1>1, <1>2

\* A quotient of numbers is a number.
LEMMA QuotientIsNat == ASSUME NEW a \in Nat, NEW b \in Nat \ {0} PROVE a \div b \in Nat
OBVIOUS

\* Every step keeps RecordTypeInv.
LEMMA RecordTypeStep ==
  ASSUME RecordBounded, RecordTypeInv, [Record!Next]_Record!vars
  PROVE  RecordTypeInv'
<1> USE DEF RecordBounded, RecordTypeInv, Record!Trouble, Record!recorder, Record!emitter,
            Record!Nothing
<1>1. CASE Record!Advance
  <2>1. /\ now < MaxNow /\ now' = now + 1
        /\ UNCHANGED <<tickAt, capturing, ring, taken, emitAt, snapshot, judged, todo, told,
                       round>>
    BY <1>1 DEF Record!Advance
  <2>2. slow' \in BOOLEAN
    BY <1>1 DEF Record!Advance
  <2>3. troubles' \in 0..MoreTroubles
    BY <1>1 DEF Record!Advance
  <2> QED
    BY <2>1, <2>2, <2>3
<1>2. CASE Record!BeginTick
  <2>1. /\ taken' = Append(taken, now) /\ capturing' = now /\ tickAt' = tickAt + TickEvery
        /\ UNCHANGED <<now, ring, emitAt, snapshot, judged, todo, told, round, slow, troubles>>
    BY <1>2 DEF Record!BeginTick
  <2>2. /\ taken' \in Seq(Nat) /\ Len(taken') = Len(taken) + 1
        /\ taken'[Len(taken) + 1] = now
        /\ \A i \in 1..Len(taken) : taken'[i] = taken[i]
    BY <2>1
  <2> QED
    BY <2>1, <2>2
<1>3. CASE Record!EndTick
  <2>1. PICK unread \in {{}} \union {{m} : m \in Record!Metrics} :
             /\ ring' = [m \in Record!Metrics |->
                           Record!AppendBounded(ring[m], Record!Capture(m, unread))]
             /\ IF unread = {} THEN UNCHANGED troubles ELSE Record!Trouble
    BY <1>3 DEF Record!EndTick
  <2>2. /\ capturing \in 0..now /\ capturing' = Record!Nothing
        /\ UNCHANGED <<now, tickAt, taken, emitAt, snapshot, judged, todo, told, round, slow>>
    BY <1>3 DEF Record!EndTick
  <2>3. ASSUME NEW m \in Record!Metrics
        PROVE  Record!AppendBounded(ring[m], Record!Capture(m, unread)) \in Seq(Sample)
    <3>1. Record!Capture(m, unread) \in Sample
      BY <2>2 DEF Record!Capture, Sample
    <3>2. ring[m] \in Seq(Sample)
      OBVIOUS
    <3> QED
      BY <3>1, <3>2, BufferGrows DEF GrownBy
  <2>4. ring' \in [Record!Metrics -> Seq(Sample)]
    BY <2>1, <2>3
  <2>5. troubles' \in 0..MoreTroubles
    <3>1. CASE unread = {}
      BY <2>1, <3>1
    <3>2. CASE unread # {}
      BY <2>1, <3>2
    <3> QED
      BY <3>1, <3>2
  <2> QED
    BY <2>2, <2>4, <2>5
<1>4. CASE Record!BeginEmit
  <2>1. /\ snapshot' = ring /\ judged' = now /\ todo' = Record!Forwarded
        /\ now >= emitAt
        /\ emitAt' = emitAt + EmitEvery * (1 + (now - emitAt) \div EmitEvery)
        /\ UNCHANGED <<now, tickAt, capturing, ring, taken, told, slow, troubles>>
    BY <1>4 DEF Record!BeginEmit
  <2>2. Record!Forwarded \in Seq(Record!Metrics)
    BY DEF Record!Forwarded, Record!Metrics
  <2>3. (now - emitAt) \div EmitEvery \in Nat
    <3>1. now - emitAt \in Nat /\ EmitEvery \in Nat \ {0}
      BY <2>1
    <3> QED
      BY <3>1, QuotientIsNat
  <2>4. emitAt' \in Nat
    BY <2>1, <2>3
  <2> QED
    BY <2>1, <2>2, <2>4
<1>5. CASE Record!Emit
  <2>1. /\ todo # <<>> /\ todo' = Tail(todo)
        /\ UNCHANGED <<now, tickAt, capturing, ring, taken, emitAt, snapshot, judged, slow,
                       troubles>>
        /\ \/ told' = told
           \/ /\ Record!Fresh(Head(todo))
              /\ told' = [told EXCEPT ![Head(todo)] = Append(@, Record!Latest(Head(todo)))]
    BY <1>5 DEF Record!Emit
  <2>2. todo' \in Seq(Record!Metrics) /\ Head(todo) \in Record!Metrics
    BY <2>1
  <2>3. Record!Fresh(Head(todo)) => Record!Latest(Head(todo)) \in Sample
    <3>1. snapshot[Head(todo)] \in Seq(Sample)
      BY <2>2
    <3> QED
      BY <3>1 DEF Record!Fresh, Record!Latest
  <2>4. told' \in [Record!Metrics -> Seq(Sample)]
    <3>1. CASE told' = told
      BY <3>1
    <3>2. CASE told' # told
      <4> DEFINE longer == Append(told[Head(todo)], Record!Latest(Head(todo)))
      <4>1. longer \in Seq(Sample)
        BY <2>1, <2>2, <2>3, <3>2
      <4>2. told' = [told EXCEPT ![Head(todo)] = longer]
        BY <2>1, <3>2
      <4> HIDE DEF longer
      <4> QED
        BY <2>2, <4>1, <4>2
    <3> QED
      BY <3>1, <3>2
  <2> QED
    BY <2>1, <2>2, <2>4
<1>6. CASE UNCHANGED Record!vars
  BY <1>6 DEF Record!vars
<1> QED
  BY <1>1, <1>2, <1>3, <1>4, <1>5, <1>6 DEF Record!Next

-----------------------------------------------------------------------------
\* The rings of two metrics, or two copies of them, have samples of the same
\* ticks.
Level(r) ==
  \A m, n \in Record!Metrics :
    Len(r[m]) = Len(r[n]) /\ \A i \in 1..Len(r[m]) : r[m][i].at = r[n][i].at

\* What the emission under way has forwarded is of the last tick it copied.
RoundIsLatest ==
  \A t \in round : \E m \in Record!Metrics :
    Len(snapshot[m]) >= 1 /\ t = snapshot[m][Len(snapshot[m])].at

RingsInv == Record!RingIsLatest /\ Level(snapshot) /\ RoundIsLatest

\* The number of samples of d ticks that are kept, and rings with the last ones.
Kept(d) == IF d < Capacity THEN d ELSE Capacity
HasLast(samples, d) ==
  /\ Len(samples) = Kept(d)
  /\ \A i \in 1..Kept(d) : samples[i].at = taken[d - Kept(d) + i]

\* RingIsLatest in these terms.
LEMMA LatestForm ==
  Record!RingIsLatest <=> \A m \in Record!Metrics : HasLast(ring[m], Done)
BY DEF Record!RingIsLatest, HasLast, Kept, Done

\* A ring that has the last of d ticks has the last of d + 1 after one more.
LEMMA RingGrows ==
  ASSUME RecordBounded, NEW d \in Nat, NEW buf \in Seq(Sample), NEW x \in Sample,
         HasLast(buf, d), x.at = taken[d + 1]
  PROVE  HasLast(Record!AppendBounded(buf, x), d + 1)
<1> DEFINE new == Record!AppendBounded(buf, x)
<1> SUFFICES HasLast(new, d + 1)
  OBVIOUS
<1>1. GrownBy(new, buf, x)
  BY BufferGrows
<1> HIDE DEF new
<1>0. /\ new \in Seq(Sample)
      /\ Len(buf) < Capacity =>
           /\ Len(new) = Len(buf) + 1 /\ new[Len(buf) + 1] = x
           /\ \A i \in 1..Len(buf) : new[i] = buf[i]
      /\ Len(buf) = Capacity =>
           /\ Len(new) = Capacity /\ new[Capacity] = x
           /\ \A i \in 1..(Capacity - 1) : new[i] = buf[i + 1]
  BY <1>1 DEF GrownBy
<1> USE DEF RecordBounded
<1>2. CASE d < Capacity
  <2>1. Kept(d) = d /\ Kept(d + 1) = d + 1
    BY <1>0, <1>2 DEF Kept
  <2>2. Len(buf) = d /\ \A i \in 1..d : buf[i].at = taken[d - d + i]
    BY <2>1 DEF HasLast
  <2>3. ASSUME NEW i \in 1..(d + 1) PROVE new[i].at = taken[(d + 1) - (d + 1) + i]
    <3>1. (d + 1) - (d + 1) + i = i /\ d - d + i = i
      OBVIOUS
    <3>2. CASE i = d + 1
      BY <1>0, <1>2, <2>2, <3>1, <3>2
    <3>3. CASE i \in 1..d
      BY <1>0, <1>2, <2>2, <3>1, <3>3
    <3> QED
      BY <3>2, <3>3
  <2> QED
    BY <1>0, <1>2, <2>1, <2>2, <2>3 DEF HasLast
<1>3. CASE d >= Capacity
  <2>1. Kept(d) = Capacity /\ Kept(d + 1) = Capacity
    BY <1>0, <1>3 DEF Kept
  <2>2. Len(buf) = Capacity /\ \A i \in 1..Capacity : buf[i].at = taken[d - Capacity + i]
    BY <2>1 DEF HasLast
  <2>3. ASSUME NEW i \in 1..Capacity PROVE new[i].at = taken[(d + 1) - Capacity + i]
    <3>1. CASE i = Capacity
      <4>1. (d + 1) - Capacity + i = d + 1
        BY <1>0, <3>1
      <4> QED
        BY <1>0, <2>2, <3>1, <4>1
    <3>2. CASE i \in 1..(Capacity - 1)
      <4>1. new[i] = buf[i + 1] /\ i + 1 \in 1..Capacity
        BY <1>0, <2>2, <3>2
      <4>2. buf[i + 1].at = taken[d - Capacity + (i + 1)]
        BY <2>2, <4>1
      <4>3. d - Capacity + (i + 1) = (d + 1) - Capacity + i
        BY <1>0
      <4> QED
        BY <4>1, <4>2, <4>3
    <3> QED
      BY <1>0, <3>1, <3>2
  <2> QED
    BY <1>0, <2>1, <2>2, <2>3 DEF HasLast
<1> QED
  BY <1>0, <1>2, <1>3

\* The end of a capture keeps RingIsLatest.
LEMMA RingStep ==
  ASSUME RecordBounded, RecordTypeInv, Record!RingIsLatest, Record!EndTick
  PROVE  Record!RingIsLatest'
<1>1. /\ Done \in Nat /\ Done' = Done + 1 /\ taken' = taken
      /\ capturing = taken[Done + 1] /\ capturing \in 0..MaxNow
  BY DEF Record!EndTick, RecordTypeInv, RecordBounded, Done, Record!Nothing
<1>2. PICK unread \in {{}} \union {{m} : m \in Record!Metrics} :
           ring' = [m \in Record!Metrics |->
                      Record!AppendBounded(ring[m], Record!Capture(m, unread))]
  BY DEF Record!EndTick
<1>3. ASSUME NEW m \in Record!Metrics PROVE HasLast(ring'[m], Done + 1)
  <2> DEFINE x == Record!Capture(m, unread)
  <2>1. x \in Sample /\ x.at = capturing
    BY <1>1 DEF Record!Capture, Sample
  <2>2. ring[m] \in Seq(Sample) /\ ring'[m] = Record!AppendBounded(ring[m], x)
    BY <1>2 DEF RecordTypeInv
  <2> HIDE DEF x
  <2>3. HasLast(ring[m], Done)
    BY LatestForm
  <2> QED
    BY <1>1, <2>1, <2>2, <2>3, RingGrows
<1>4. ASSUME NEW m \in Record!Metrics PROVE HasLast(ring[m], Done)'
  BY <1>1, <1>3 DEF HasLast, Kept
<1>5. Record!RingIsLatest' <=> \A m \in Record!Metrics : HasLast(ring[m], Done)'
  BY DEF Record!RingIsLatest, HasLast, Kept, Done
<1> QED
  BY <1>4, <1>5

\* Rings that have the last ticks have the same ones.
LEMMA RingsAreLevel ==
  ASSUME RecordBounded, RecordTypeInv, Record!RingIsLatest
  PROVE  Level(ring)
BY DEF RecordTypeInv, Record!RingIsLatest, Level

\* Every step keeps RingsInv.
LEMMA RingsStep ==
  ASSUME RecordBounded, RecordTypeInv, RingsInv, [Record!Next]_Record!vars
  PROVE  RingsInv'
<1> USE DEF RingsInv, Record!recorder, Record!emitter
<1>1. CASE Record!Advance
  BY <1>1 DEF Record!Advance, Record!RingIsLatest, Level, RoundIsLatest
<1>2. CASE Record!BeginTick
  <2>1. /\ taken' = Append(taken, now) /\ capturing = Record!Nothing /\ capturing' = now
        /\ UNCHANGED <<ring, snapshot, round>>
    BY <1>2 DEF Record!BeginTick
  <2>2. /\ Len(taken') = Len(taken) + 1 /\ Len(taken) \in Nat
        /\ \A i \in 1..Len(taken) : taken'[i] = taken[i]
    BY <2>1 DEF RecordTypeInv
  <2>3. Done = Len(taken) /\ Done' = Done
    BY <2>1, <2>2 DEF Done, RecordTypeInv, Record!Nothing
  <2>4. ASSUME NEW m \in Record!Metrics PROVE HasLast(ring[m], Done)'
    <3>1. HasLast(ring[m], Done) /\ Kept(Done)' = Kept(Done) /\ Done \in Nat
      BY <2>2, <2>3, LatestForm DEF Kept
    <3>2. ASSUME NEW i \in 1..Kept(Done)
          PROVE  taken'[Done - Kept(Done) + i] = taken[Done - Kept(Done) + i]
      <4>1. Kept(Done) \in Nat /\ Kept(Done) <= Done
        BY <3>1 DEF Kept, RecordBounded
      <4>2. Done - Kept(Done) + i \in 1..Len(taken)
        BY <2>2, <2>3, <3>1, <4>1
      <4> QED
        BY <2>2, <4>2
    <3> QED
      BY <2>1, <2>3, <3>1, <3>2 DEF HasLast
  <2>5. Record!RingIsLatest' <=> \A m \in Record!Metrics : HasLast(ring[m], Done)'
    BY DEF Record!RingIsLatest, HasLast, Kept, Done
  <2> QED
    BY <2>1, <2>4, <2>5 DEF Level, RoundIsLatest
<1>3. CASE Record!EndTick
  <2>1. UNCHANGED <<snapshot, round>>
    BY <1>3 DEF Record!EndTick
  <2> QED
    BY <1>3, <2>1, RingStep DEF Level, RoundIsLatest
<1>4. CASE Record!BeginEmit
  <2>1. snapshot' = ring /\ round' = {} /\ UNCHANGED <<ring, taken, capturing>>
    BY <1>4 DEF Record!BeginEmit
  <2> QED
    BY <2>1, RingsAreLevel DEF Level, RoundIsLatest, Record!RingIsLatest
<1>5. CASE Record!Emit
  <2>1. /\ todo # <<>> /\ UNCHANGED <<ring, taken, capturing, snapshot>>
        /\ \/ round' = round
           \/ /\ Record!Fresh(Head(todo))
              /\ round' = round \union {Record!Latest(Head(todo)).at}
    BY <1>5 DEF Record!Emit
  <2>2. Head(todo) \in Record!Metrics /\ snapshot[Head(todo)] \in Seq(Sample)
    BY <2>1 DEF RecordTypeInv
  <2>3. Record!Fresh(Head(todo)) => /\ Len(snapshot[Head(todo)]) >= 1
                                    /\ Record!Latest(Head(todo))
                                         = snapshot[Head(todo)][Len(snapshot[Head(todo)])]
    BY <2>2 DEF Record!Fresh, Record!Latest
  <2>4. RoundIsLatest'
    BY <2>1, <2>2, <2>3 DEF RoundIsLatest
  <2> QED
    BY <2>1, <2>4 DEF Level, Record!RingIsLatest
<1>6. CASE UNCHANGED Record!vars
  BY <1>6 DEF Record!vars, Record!RingIsLatest, Level, RoundIsLatest
<1> QED
  BY <1>1, <1>2, <1>3, <1>4, <1>5, <1>6 DEF Record!Next

\* The signals of an emission are of one tick.
LEMMA OneTick ==
  ASSUME RecordTypeInv, RingsInv
  PROVE  Record!OneTickPerRound
<1> SUFFICES ASSUME NEW s \in round, NEW t \in round PROVE s = t
  BY DEF Record!OneTickPerRound
<1>1. PICK m \in Record!Metrics :
           Len(snapshot[m]) >= 1 /\ s = snapshot[m][Len(snapshot[m])].at
  BY DEF RingsInv, RoundIsLatest
<1>2. PICK n \in Record!Metrics :
           Len(snapshot[n]) >= 1 /\ t = snapshot[n][Len(snapshot[n])].at
  BY DEF RingsInv, RoundIsLatest
<1>3. Len(snapshot[m]) = Len(snapshot[n]) /\ Len(snapshot[m]) \in Nat
  BY DEF RingsInv, Level, RecordTypeInv
<1> QED
  BY <1>1, <1>2, <1>3 DEF RingsInv, Level

-----------------------------------------------------------------------------
\* What EverySampleIsTold needs of the intervals: an emission between the end of
\* a capture and the next tick, and samples that are not old by then.
RecordPaced ==
  /\ RecordBounded
  /\ EmitEvery + CaptureMax < TickEvery /\ CaptureMax <= EmitEvery

\* The tickers fire in time, ticks are an interval apart, and a capture ends by
\* its deadline; the emitter's ticks are not late where no evaluation took time.
InStep ==
  /\ now <= tickAt /\ taken[Len(taken)] + TickEvery <= tickAt
  /\ \A i \in 1..(Len(taken) - 1) : taken[i] + TickEvery <= taken[i + 1]
  /\ capturing # Record!Nothing => now <= capturing + CaptureMax
  /\ ~slow => now <= emitAt /\ emitAt <= now + EmitEvery

\* The sample of tick i has been forwarded, or the emission under way will.
WasTold(i, m) == \E j \in 1..Len(told[m]) : told[m][j].at = taken[i]
IsDue(i, m) ==
  /\ \E k \in 1..Len(todo) : todo[k] = m
  /\ Record!Fresh(m) /\ Record!Latest(m).at = taken[i]

\* By when an emission must have copied the sample of tick i.
DueBy(i) == taken[i] + CaptureMax + EmitEvery

\* A sample that no emission has forwarded is in the one under way, or it is the
\* last and the next emission is in time for it.
Wanted(i, m) ==
  \/ WasTold(i, m)
  \/ IsDue(i, m) /\ now <= DueBy(i)
  \/ i = Done /\ emitAt <= DueBy(i)

NoneIsLost == ~slow => \A i \in 1..Done, m \in Record!Metrics : Wanted(i, m)

\* Every step keeps InStep.
LEMMA InStepStep ==
  ASSUME RecordPaced, RecordTypeInv, InStep, [Record!Next]_Record!vars
  PROVE  InStep'
<1> USE DEF RecordPaced, RecordBounded, RecordTypeInv, InStep, Record!recorder,
            Record!emitter, Record!Nothing
<1>1. CASE Record!Advance
  <2>1. /\ now' = now + 1
        /\ capturing = Record!Nothing => now < tickAt
        /\ capturing # Record!Nothing => now < capturing + CaptureMax
        /\ UNCHANGED <<tickAt, capturing, taken, emitAt, todo>>
    BY <1>1 DEF Record!Advance
  <2>2. ~slow' => ~slow /\ now < emitAt
    <3>1. CASE todo = <<>>
      BY <1>1, <3>1 DEF Record!Advance
    <3>2. CASE todo # <<>>
      BY <1>1, <3>2 DEF Record!Advance
    <3> QED
      BY <3>1, <3>2
  <2>3. now' <= tickAt
    <3>1. CASE capturing = Record!Nothing
      BY <2>1, <3>1
    <3>2. CASE capturing # Record!Nothing
      <4>1. capturing = taken[Len(taken)] /\ capturing \in Nat
        BY <3>2
      <4> QED
        BY <2>1, <3>2, <4>1
    <3> QED
      BY <3>1, <3>2
  <2>4. ~slow' => now' <= emitAt' /\ emitAt' <= now' + EmitEvery
    BY <2>1, <2>2
  <2>5. capturing' # Record!Nothing => now' <= capturing' + CaptureMax
    BY <2>1
  <2> QED
    BY <2>1, <2>3, <2>4, <2>5
<1>2. CASE Record!BeginTick
  <2>1. /\ taken' = Append(taken, now) /\ capturing' = now /\ tickAt' = tickAt + TickEvery
        /\ now = tickAt
        /\ UNCHANGED <<now, emitAt, slow>>
    BY <1>2 DEF Record!BeginTick
  <2>2. /\ Len(taken) \in Nat \ {0} /\ Len(taken') = Len(taken) + 1
        /\ taken'[Len(taken) + 1] = now
        /\ \A i \in 1..Len(taken) : taken'[i] = taken[i]
    BY <2>1
  <2>3. ASSUME NEW i \in 1..Len(taken) PROVE taken'[i] + TickEvery <= taken'[i + 1]
    <3>1. CASE i = Len(taken)
      BY <2>1, <2>2, <3>1
    <3>2. CASE i \in 1..(Len(taken) - 1)
      <4>1. i + 1 \in 1..Len(taken) /\ i \in 1..Len(taken)
        BY <2>2, <3>2
      <4>2. taken'[i] = taken[i] /\ taken'[i + 1] = taken[i + 1]
        BY <2>2, <4>1
      <4> QED
        BY <3>2, <4>2
    <3> QED
      BY <2>2, <3>1, <3>2
  <2>4. taken'[Len(taken')] = now /\ Len(taken') - 1 = Len(taken) /\ tickAt' = now + TickEvery
    BY <2>1, <2>2
  <2>5. \A i \in 1..(Len(taken') - 1) : taken'[i] + TickEvery <= taken'[i + 1]
    BY <2>3, <2>4
  <2>6. /\ now' <= tickAt' /\ taken'[Len(taken')] + TickEvery <= tickAt'
        /\ now' <= capturing' + CaptureMax
    BY <2>1, <2>4
  <2> QED
    BY <2>1, <2>5, <2>6
<1>3. CASE Record!EndTick
  BY <1>3 DEF Record!EndTick
<1>4. CASE Record!BeginEmit
  <2>1. /\ UNCHANGED <<now, tickAt, capturing, taken, slow>>
        /\ now >= emitAt
        /\ emitAt' = emitAt + EmitEvery * (1 + (now - emitAt) \div EmitEvery)
    BY <1>4 DEF Record!BeginEmit
  <2>2. ~slow => emitAt' = now + EmitEvery
    <3> SUFFICES ASSUME ~slow PROVE emitAt' = now + EmitEvery
      OBVIOUS
    <3>1. now = emitAt
      BY <2>1
    <3>2. (now - emitAt) \div EmitEvery = 0
      BY <3>1
    <3>3. EmitEvery * (1 + 0) = EmitEvery
      OBVIOUS
    <3> QED
      BY <2>1, <3>1, <3>2, <3>3
  <2> QED
    BY <2>1, <2>2
<1>5. CASE Record!Emit
  BY <1>5 DEF Record!Emit
<1>6. CASE UNCHANGED Record!vars
  BY <1>6 DEF Record!vars
<1> QED
  BY <1>1, <1>2, <1>3, <1>4, <1>5, <1>6 DEF Record!Next

\* The end of a capture: the sample before was forwarded, the next emission is
\* in time for the new one.
LEMMA EndTickLosesNone ==
  ASSUME RecordPaced, RecordTypeInv, InStep, NoneIsLost, Record!EndTick
  PROVE  NoneIsLost'
<1> USE DEF RecordPaced, RecordBounded
<1> SUFFICES ASSUME ~slow', NEW i \in 1..Done', NEW m \in Record!Metrics
             PROVE  Wanted(i, m)'
  BY DEF NoneIsLost
<1>1. /\ capturing \in 0..now /\ capturing = taken[Len(taken)] /\ Done = Len(taken) - 1
      /\ Done' = Done + 1 /\ Done \in Nat /\ now \in Nat /\ emitAt \in Nat
      /\ UNCHANGED <<now, taken, emitAt, snapshot, judged, todo, told, slow>>
  BY DEF Record!EndTick, RecordTypeInv, Done, Record!Nothing, Record!emitter
<1>2. emitAt <= DueBy(Done + 1)
  BY <1>1 DEF InStep, DueBy, Record!Nothing
<1>3. CASE i = Done + 1
  BY <1>1, <1>2, <1>3 DEF Wanted, DueBy
<1>4. CASE i \in 1..Done
  <2>1. Wanted(i, m)
    BY <1>1, <1>4 DEF NoneIsLost
  <2>2. WasTold(i, m)' = WasTold(i, m) /\ IsDue(i, m)' = IsDue(i, m)
    BY <1>1 DEF WasTold, IsDue, Record!Fresh, Record!Latest
  <2>3. ~(i = Done /\ emitAt <= DueBy(i))
    <3> SUFFICES ASSUME i = Done, emitAt <= DueBy(i) PROVE FALSE
      OBVIOUS
    <3>0. i \in 1..(Len(taken) - 1) /\ i \in 1..Len(taken) /\ i + 1 \in 1..Len(taken)
          /\ Len(taken) \in Nat /\ i + 1 = Len(taken)
      BY <1>1, <1>4 DEF RecordTypeInv
    <3>1. taken[i] \in Nat /\ taken[i + 1] \in Nat /\ taken[i] + TickEvery <= taken[i + 1]
      BY <3>0 DEF InStep, RecordTypeInv
    <3>2. taken[i + 1] <= now /\ now <= emitAt
      BY <1>1, <3>0 DEF InStep
    <3> QED
      BY <1>1, <3>1, <3>2 DEF DueBy
  <2>4. WasTold(i, m) \/ (IsDue(i, m) /\ now <= DueBy(i))
    BY <2>1, <2>3 DEF Wanted
  <2>5. DueBy(i)' = DueBy(i)
    BY <1>1 DEF DueBy
  <2> QED
    BY <1>1, <2>2, <2>4, <2>5 DEF Wanted
<1> QED
  BY <1>1, <1>3, <1>4

\* An emission that begins copies the last sample in time.
LEMMA BeginEmitLosesNone ==
  ASSUME RecordPaced, RecordTypeInv, RingsInv, InStep, NoneIsLost, Record!BeginEmit
  PROVE  NoneIsLost'
<1> USE DEF RecordPaced, RecordBounded
<1> SUFFICES ASSUME ~slow', NEW i \in 1..Done', NEW m \in Record!Metrics
             PROVE  Wanted(i, m)'
  BY DEF NoneIsLost
<1>1. /\ todo = <<>> /\ now >= emitAt /\ snapshot' = ring /\ judged' = now
      /\ todo' = Record!Forwarded
      /\ UNCHANGED <<now, capturing, taken, told, slow>>
  BY DEF Record!BeginEmit, Record!recorder
<1>2. /\ Done' = Done /\ Done \in Nat /\ i \in 1..Done /\ i \in 1..Len(taken) /\ ~slow
      /\ now \in Nat /\ emitAt \in Nat /\ taken[i] \in Nat
  BY <1>1 DEF Done, RecordTypeInv
<1>3. Wanted(i, m)
  BY <1>2 DEF NoneIsLost
<1>4. WasTold(i, m)' = WasTold(i, m) /\ ~IsDue(i, m) /\ DueBy(i)' = DueBy(i)
  BY <1>1 DEF WasTold, IsDue, DueBy
<1>5. CASE WasTold(i, m)
  BY <1>4, <1>5 DEF Wanted
<1>6. CASE i = Done /\ emitAt <= DueBy(i)
  <2>1. now <= DueBy(i) /\ now - taken[i] <= Record!MaxSampleAge
    BY <1>1, <1>2, <1>6 DEF DueBy, Record!MaxSampleAge, InStep
  <2>2. \E k \in 1..Len(todo') : todo'[k] = m
    <3>1. todo' = <<"cpu", "memory", "disk">> /\ m \in {"cpu", "memory", "disk"}
      BY <1>1 DEF Record!Forwarded, Record!Metrics
    <3>2. Len(todo') = 3 /\ todo'[1] = "cpu" /\ todo'[2] = "memory" /\ todo'[3] = "disk"
      BY <3>1
    <3> QED
      BY <3>1, <3>2
  <2>3. ring[m] \in Seq(Sample) /\ HasLast(ring[m], i)
    BY <1>2, <1>6, LatestForm DEF RingsInv, RecordTypeInv
  <2>4. Kept(i) \in 1..i /\ Len(ring[m]) = Kept(i)
    BY <1>2, <2>3 DEF Kept, HasLast
  <2>5. ring[m][Kept(i)].at = taken[i - Kept(i) + Kept(i)] /\ i - Kept(i) + Kept(i) = i
    BY <1>2, <2>3, <2>4 DEF HasLast
  <2>6. ring[m] # <<>> /\ ring[m][Len(ring[m])].at = taken[i]
    BY <2>3, <2>4, <2>5
  <2>7. IsDue(i, m)'
    BY <1>1, <2>1, <2>2, <2>6 DEF IsDue, Record!Fresh, Record!Latest, Record!MaxSampleAge
  <2> QED
    BY <1>1, <1>4, <2>1, <2>7 DEF Wanted
<1> QED
  BY <1>3, <1>4, <1>5, <1>6 DEF Wanted

\* A signal is forwarded, and the others of the emission are still to come.
LEMMA EmitLosesNone ==
  ASSUME RecordPaced, RecordTypeInv, NoneIsLost, Record!Emit
  PROVE  NoneIsLost'
<1> SUFFICES ASSUME ~slow', NEW i \in 1..Done', NEW m \in Record!Metrics
             PROVE  Wanted(i, m)'
  BY DEF NoneIsLost
<1> DEFINE h == Head(todo)
<1>1. /\ todo # <<>> /\ todo' = Tail(todo) /\ todo \in Seq(Record!Metrics)
      /\ UNCHANGED <<now, capturing, taken, emitAt, snapshot, judged, slow>>
      /\ ~Record!Fresh(h) => told' = told
      /\ Record!Fresh(h) => told' = [told EXCEPT ![h] = Append(@, Record!Latest(h))]
  BY DEF Record!Emit, Record!recorder, RecordTypeInv
<1>2. Done' = Done /\ DueBy(i)' = DueBy(i) /\ Wanted(i, m)
  BY <1>1 DEF Done, DueBy, NoneIsLost
<1>3. h \in Record!Metrics /\ told \in [Record!Metrics -> Seq(Sample)]
  BY <1>1 DEF RecordTypeInv
<1>4. CASE WasTold(i, m)
  <2>1. PICK j \in 1..Len(told[m]) : told[m][j].at = taken[i]
    BY <1>4 DEF WasTold
  <2>2. told'[m] = told[m] \/ told'[m] = Append(told[m], Record!Latest(h))
    BY <1>1, <1>3
  <2>3. j \in 1..Len(told'[m]) /\ told'[m][j] = told[m][j]
    <3>1. CASE told'[m] = told[m]
      BY <3>1
    <3>2. CASE told'[m] = Append(told[m], Record!Latest(h))
      BY <1>3, <3>2
    <3> QED
      BY <2>2, <3>1, <3>2
  <2>4. WasTold(i, m)'
    BY <1>1, <2>1, <2>3 DEF WasTold
  <2> QED
    BY <2>4 DEF Wanted
<1>5. CASE IsDue(i, m) /\ now <= DueBy(i)
  <2>1. PICK k \in 1..Len(todo) : todo[k] = m
    BY <1>5 DEF IsDue
  <2>2. CASE m = h
    <3>1. told'[m] = Append(told[m], Record!Latest(m)) /\ Record!Latest(m).at = taken[i]
      BY <1>1, <1>3, <1>5, <2>2 DEF IsDue
    <3>2. /\ Len(told'[m]) = Len(told[m]) + 1 /\ Len(told[m]) \in Nat
          /\ told'[m][Len(told[m]) + 1] = Record!Latest(m)
      BY <1>3, <3>1
    <3>3. Len(told[m]) + 1 \in 1..Len(told'[m]) /\ taken'[i] = taken[i]
      BY <1>1, <3>2
    <3>4. WasTold(i, m)'
      BY <3>1, <3>2, <3>3 DEF WasTold
    <3> QED
      BY <3>4 DEF Wanted
  <2>3. CASE m # h
    <3>1. k # 1 /\ Len(todo) \in Nat
      BY <1>1, <2>1, <2>3
    <3>2. k - 1 \in 1..Len(todo') /\ todo'[k - 1] = todo[k]
      BY <1>1, <2>1, <3>1
    <3>3. IsDue(i, m)'
      BY <1>1, <1>5, <2>1, <3>2 DEF IsDue, Record!Fresh, Record!Latest
    <3> QED
      BY <1>1, <1>2, <1>5, <3>3 DEF Wanted
  <2> QED
    BY <2>2, <2>3
<1>6. CASE i = Done /\ emitAt <= DueBy(i)
  BY <1>1, <1>2, <1>6 DEF Wanted
<1> QED
  BY <1>2, <1>4, <1>5, <1>6 DEF Wanted

\* Every step keeps NoneIsLost.
LEMMA NoneIsLostStep ==
  ASSUME RecordPaced, RecordTypeInv, RingsInv, InStep, NoneIsLost,
         [Record!Next]_Record!vars
  PROVE  NoneIsLost'
<1>1. CASE Record!Advance
  <2>1. UNCHANGED <<capturing, taken, emitAt, todo, snapshot, judged, told>>
    BY <1>1 DEF Record!Advance, Record!recorder, Record!emitter
  <2>2. ~slow' => ~slow /\ todo = <<>>
    BY <1>1 DEF Record!Advance
  <2> SUFFICES ASSUME ~slow', NEW i \in 1..Done', NEW m \in Record!Metrics
               PROVE  Wanted(i, m)'
    BY DEF NoneIsLost
  <2>3. Done' = Done /\ DueBy(i)' = DueBy(i) /\ WasTold(i, m)' = WasTold(i, m)
    BY <2>1 DEF Done, DueBy, WasTold
  <2>4. Wanted(i, m) /\ ~IsDue(i, m)
    BY <2>2, <2>3 DEF NoneIsLost, IsDue
  <2> QED
    BY <2>1, <2>3, <2>4 DEF Wanted
<1>2. CASE Record!BeginTick
  <2>1. /\ taken' = Append(taken, now) /\ capturing = Record!Nothing /\ capturing' = now
        /\ UNCHANGED <<now, emitAt, todo, snapshot, judged, told, slow>>
    BY <1>2 DEF Record!BeginTick, Record!emitter
  <2>2. /\ Len(taken) \in Nat /\ Len(taken') = Len(taken) + 1 /\ now \in Nat
        /\ \A i \in 1..Len(taken) : taken'[i] = taken[i]
    BY <2>1 DEF RecordTypeInv
  <2>3. Done = Len(taken) /\ Done' = Done
    BY <2>1, <2>2 DEF Done, Record!Nothing
  <2> SUFFICES ASSUME ~slow', NEW i \in 1..Done', NEW m \in Record!Metrics
               PROVE  Wanted(i, m)'
    BY DEF NoneIsLost
  <2>4. Wanted(i, m) /\ taken'[i] = taken[i]
    BY <2>1, <2>2, <2>3 DEF NoneIsLost
  <2>5. /\ DueBy(i)' = DueBy(i) /\ WasTold(i, m)' = WasTold(i, m)
        /\ IsDue(i, m)' = IsDue(i, m)
    BY <2>1, <2>4 DEF DueBy, WasTold, IsDue, Record!Fresh, Record!Latest
  <2> QED
    BY <2>1, <2>3, <2>4, <2>5 DEF Wanted
<1>3. CASE Record!EndTick
  BY <1>3, EndTickLosesNone
<1>4. CASE Record!BeginEmit
  BY <1>4, BeginEmitLosesNone
<1>5. CASE Record!Emit
  BY <1>5, EmitLosesNone
<1>6. CASE UNCHANGED Record!vars
  BY <1>6 DEF Record!vars, Record!recorder, Record!emitter, NoneIsLost, Wanted, WasTold,
              IsDue, DueBy, Done, Record!Fresh, Record!Latest
<1> QED
  BY <1>1, <1>2, <1>3, <1>4, <1>5, <1>6 DEF Record!Next

\* A sample that is not lost was forwarded before the next tick is over.
LEMMA NoneIsLostTells ==
  ASSUME RecordPaced, RecordTypeInv, InStep, NoneIsLost
  PROVE  Record!EverySampleIsTold
<1> USE DEF RecordPaced, RecordBounded
<1> SUFFICES ASSUME ~slow, NEW i \in 1..(Len(taken) - 1), NEW m \in Record!Metrics,
                    now > taken[i + 1]
             PROVE  \E j \in DOMAIN told[m] : told[m][j].at = taken[i]
  BY DEF Record!EverySampleIsTold, RecordTypeInv
<1>1. /\ taken[i] \in Nat /\ taken[i + 1] \in Nat /\ taken[i] + TickEvery <= taken[i + 1]
      /\ i \in 1..Done /\ now \in Nat /\ emitAt \in Nat /\ now <= emitAt
  BY DEF RecordTypeInv, InStep, Done
<1>2. ~(now <= DueBy(i)) /\ ~(emitAt <= DueBy(i))
  BY <1>1 DEF DueBy
<1>3. WasTold(i, m)
  BY <1>1, <1>2 DEF NoneIsLost, Wanted
<1>4. DOMAIN told[m] = 1..Len(told[m])
  BY DEF RecordTypeInv
<1> QED
  BY <1>3, <1>4 DEF WasTold

\* RecordTypeInv says what TypeOK does.
LEMMA RecordTypesOk ==
  ASSUME RecordTypeInv PROVE Record!TypeOK
<1> DEFINE Ok(seq) == \A i \in DOMAIN seq : seq[i] \in Sample
<1>1. ASSUME NEW seq \in Seq(Sample) PROVE Ok(seq)
  OBVIOUS
<1>2. \A m \in Record!Metrics : Ok(ring[m]) /\ Ok(snapshot[m]) /\ Ok(told[m])
  <2>1. \A m \in Record!Metrics : /\ ring[m] \in Seq(Sample) /\ snapshot[m] \in Seq(Sample)
                                  /\ told[m] \in Seq(Sample)
    BY DEF RecordTypeInv
  <2> QED
    BY <1>1, <2>1
<1>3. \A i \in DOMAIN taken : taken[i] \in 0..now
  BY DEF RecordTypeInv
<1>4. /\ now \in 0..MaxNow /\ tickAt \in Nat /\ emitAt \in Nat /\ judged \in 0..now
      /\ capturing \in {Record!Nothing} \union 0..now
      /\ slow \in BOOLEAN /\ troubles \in 0..MoreTroubles
  BY DEF RecordTypeInv
<1> QED
  BY <1>2, <1>3, <1>4 DEF Record!TypeOK, Sample

\* A started recorder has one capture under way and nothing else.
LEMMA RecordStart ==
  ASSUME RecordPaced, Record!Init
  PROVE  RecordTypeInv /\ RingsInv /\ InStep /\ NoneIsLost
<1> USE DEF RecordPaced, RecordBounded, Record!Init, Record!Nothing
<1>1. /\ now = 0 /\ capturing = 0 /\ taken = <<0>> /\ Len(taken) = 1 /\ taken[1] = 0
      /\ ring = [m \in Record!Metrics |-> <<>>] /\ snapshot = ring /\ told = ring
      /\ judged = 0 /\ todo = <<>> /\ round = {} /\ slow = FALSE /\ troubles = 0
      /\ tickAt \in TickEvery..(TickEvery + CaptureMax) /\ emitAt \in 1..EmitEvery
  OBVIOUS
<1>2. Done = 0 /\ Kept(Done) = 0
  BY <1>1 DEF Done, Kept
<1>3. RecordTypeInv
  <2>1. /\ ring \in [Record!Metrics -> Seq(Sample)] /\ snapshot \in [Record!Metrics -> Seq(Sample)]
        /\ told \in [Record!Metrics -> Seq(Sample)] /\ todo \in Seq(Record!Metrics)
    BY <1>1
  <2>2. taken \in Seq(Nat) /\ Len(taken) >= 1 /\ \A i \in 1..Len(taken) : taken[i] <= now
    BY <1>1
  <2>3. slow \in BOOLEAN
    BY <1>1
  <2>4. /\ now \in 0..MaxNow /\ tickAt \in Nat /\ emitAt \in Nat /\ judged \in 0..now
        /\ capturing \in {Record!Nothing} \union 0..now
        /\ (capturing # Record!Nothing => capturing = taken[Len(taken)])
        /\ troubles \in 0..MoreTroubles
    BY <1>1
  <2> QED
    BY <2>1, <2>2, <2>3, <2>4 DEF RecordTypeInv
<1>4. Record!RingIsLatest
  <2>1. \A m \in Record!Metrics : HasLast(ring[m], Done)
    BY <1>1, <1>2 DEF HasLast
  <2> QED
    BY <2>1, LatestForm
<1>5. RingsInv
  BY <1>1, <1>4 DEF RingsInv, Level, RoundIsLatest
<1>6. InStep
  BY <1>1 DEF InStep
<1>7. NoneIsLost
  BY <1>2 DEF NoneIsLost
<1> QED
  BY <1>3, <1>5, <1>6, <1>7

\* Rings are the last ticks without a gap, an emission is of one tick, and no
\* sample is passed over between two emissions: runRecorder and RunSystemTick
\* share nothing but the rings, and whatever their phases the tick forwards all
\* there is.
THEOREM RecordHolds ==
  ASSUME RecordPaced
  PROVE  Record!Spec => [](/\ Record!TypeOK /\ Record!RingIsLatest
                           /\ Record!OneTickPerRound /\ Record!EverySampleIsTold)
<1> DEFINE Inv == RecordTypeInv /\ RingsInv /\ InStep /\ NoneIsLost
<1>1. Record!Init => Inv
  BY RecordStart
<1>2. Inv /\ [Record!Next]_Record!vars => Inv'
  BY RecordTypeStep, RingsStep, InStepStep, NoneIsLostStep DEF RecordPaced
<1>3. Inv => /\ Record!TypeOK /\ Record!RingIsLatest
             /\ Record!OneTickPerRound /\ Record!EverySampleIsTold
  BY RecordTypesOk, OneTick, NoneIsLostTells DEF RingsInv
<1> QED
  BY <1>1, <1>2, <1>3, PTL DEF Record!Spec

\* The same of what the runs check.
THEOREM RecordHoldsThroughout == ASSUME RecordPaced PROVE SumSpec => []SamplesAreWhole
<1>1. SumInit /\ focus = "recorder" => Record!Init
  BY DEF SumInit
<1>2. focus = "recorder" /\ [SumNext]_sumVars
        => [Record!Next]_Record!vars /\ (focus = "recorder")'
  BY DEF SumNext, healthOnly, discoveryOnly, recorderOnly, alertOnly, floorOnly,
         notifyOnly, sumVars, Record!recorder, Record!emitter, Record!vars,
         Record!Forwarded
<1>3. ~(focus = "recorder") /\ [SumNext]_sumVars => (~(focus = "recorder"))'
  BY DEF SumNext, sumVars
<1>4. (focus = "recorder" => /\ Record!TypeOK /\ Record!RingIsLatest
                             /\ Record!OneTickPerRound /\ Record!EverySampleIsTold)
        => SamplesAreWhole
  BY DEF SamplesAreWhole
<1>5. Record!Spec => [](/\ Record!TypeOK /\ Record!RingIsLatest
                        /\ Record!OneTickPerRound /\ Record!EverySampleIsTold)
  BY RecordHolds, PTL
<1> QED
  BY <1>1, <1>2, <1>3, <1>4, <1>5, PTL DEF SumSpec, Record!Spec

-----------------------------------------------------------------------------
\* What correlation rests on: things that run have names, a rule has a host, and
\* the slug of a rule is that of its host.
Named ==
  /\ \A r \in Ingress : r.host # NoRow
  /\ \A r, s \in Ingress : r.host = s.host => r.slug = s.slug
  /\ \A c \in Containers : c.name # NoRow
  /\ \A a \in Apps : a.name # NoRow

DiscoverTypeInv ==
  /\ rules \subseteq Ingress /\ containers \in Discover!ContainerSets /\ apps \subseteq Apps
  /\ goroutine \in [Discover!Source -> {"idle", "listing", "append", "done"}]
  /\ DOMAIN lists = Discover!Source
  /\ lists["tunnel"] \in SUBSET Ingress /\ lists["docker"] \in SUBSET Containers
  /\ lists["pm2"] \in SUBSET Apps
  /\ errs \subseteq Discover!Source /\ loaded \in [Discover!Source -> SUBSET Discover!Source]
  /\ lost \subseteq Discover!Source
  /\ phase \in {"rest", "capture", "adopt"} /\ settled \in BOOLEAN /\ raced \in BOOLEAN
  /\ phase # "adopt" => left = {}
  /\ phase # "capture" => goroutine = [s \in Discover!Source |-> "idle"]
  /\ \A p \in projects : DOMAIN p = {"name", "domain", "container", "app", "tunnel"}

\* A source that failed is about to append an error, or there is one.
FailureTold ==
  /\ phase = "rest" => lost = {}
  /\ \A s \in lost : goroutine[s] = "append" \/ errs # {}

\* Every step keeps DiscoverTypeInv.
LEMMA DiscoverTypeStep ==
  ASSUME DiscoverTypeInv, [Discover!Next]_Discover!vars
  PROVE  DiscoverTypeInv'
<1> USE DEF DiscoverTypeInv, Discover!world, Discover!sources, Discover!page
<1>1. CASE Discover!Begin
  BY <1>1 DEF Discover!Begin
<1>2. CASE Discover!Correlate
  <2>1. /\ lists' = [s \in Discover!Source |-> {}] /\ phase' = "adopt"
        /\ goroutine' = [s \in Discover!Source |-> "idle"]
        /\ UNCHANGED <<rules, containers, apps, projects, errs, loaded, lost, raced, settled>>
    BY <1>2 DEF Discover!Correlate
  <2>2. /\ DOMAIN lists' = Discover!Source
        /\ lists'["tunnel"] = {} /\ lists'["docker"] = {} /\ lists'["pm2"] = {}
    BY <2>1 DEF Discover!Source
  <2> QED
    BY <2>1, <2>2
<1>3. CASE Discover!Show
  BY <1>3 DEF Discover!Show
<1>4. CASE Discover!AdoptEnds
  BY <1>4 DEF Discover!AdoptEnds
<1>5. CASE Discover!Change
  BY <1>5 DEF Discover!Change
<1>6. ASSUME NEW s \in Discover!Source, Discover!List(s) PROVE DiscoverTypeInv'
  <2>1. /\ lists' = [lists EXCEPT ![s] = Discover!What(s)]
        /\ UNCHANGED <<rules, containers, apps, projects, errs, loaded, lost, left, shown,
                       raced, phase, settled>>
        /\ goroutine' = [goroutine EXCEPT ![s] = "done"] /\ goroutine[s] = "listing"
    BY <1>6 DEF Discover!List
  <2>2. /\ DOMAIN lists' = Discover!Source
        /\ lists'["tunnel"] \in SUBSET Ingress /\ lists'["docker"] \in SUBSET Containers
        /\ lists'["pm2"] \in SUBSET Apps
    <3>1. /\ s = "tunnel" => Discover!What(s) \in SUBSET Ingress
          /\ s = "docker" => Discover!What(s) \in SUBSET Containers
          /\ s = "pm2" => Discover!What(s) \in SUBSET Apps
      BY DEF Discover!What, Discover!ContainerSets
    <3> QED
      BY <2>1, <3>1 DEF Discover!Source
  <2>3. /\ goroutine' \in [Discover!Source -> {"idle", "listing", "append", "done"}]
        /\ phase' # "capture" => goroutine' = [t \in Discover!Source |-> "idle"]
    BY <2>1
  <2> QED
    BY <2>1, <2>2, <2>3
<1>7. ASSUME NEW s \in Discover!Source, Discover!ListFails(s) PROVE DiscoverTypeInv'
  BY <1>7 DEF Discover!ListFails
<1>8. ASSUME NEW s \in Discover!Source, Discover!AppendError(s) PROVE DiscoverTypeInv'
  BY <1>8 DEF Discover!AppendError
<1>9. ASSUME NEW c \in left, Discover!Adopt(c) PROVE DiscoverTypeInv'
  BY <1>9 DEF Discover!Adopt, Discover!Insert, Discover!Project
<1>10. ASSUME NEW c \in shown, Discover!AdoptShown(c) PROVE DiscoverTypeInv'
  <2>1. raced' \in BOOLEAN
    BY <1>10 DEF Discover!AdoptShown
  <2> QED
    BY <1>10, <2>1 DEF Discover!AdoptShown, Discover!Insert, Discover!Project
<1>11. ASSUME NEW p \in projects, Discover!Delete(p) PROVE DiscoverTypeInv'
  BY <1>11 DEF Discover!Delete
<1>12. CASE UNCHANGED Discover!vars
  BY <1>12 DEF Discover!vars
<1> QED
  BY <1>1, <1>2, <1>3, <1>4, <1>5, <1>6, <1>7, <1>8, <1>9, <1>10, <1>11, <1>12
     DEF Discover!Next

\* Every step keeps FailureTold.
LEMMA FailureToldStep ==
  ASSUME DiscoverTypeInv, FailureTold, [Discover!Next]_Discover!vars
  PROVE  FailureTold'
<1> USE DEF DiscoverTypeInv, FailureTold, Discover!world, Discover!sources, Discover!page
<1>1. CASE Discover!Begin
  BY <1>1 DEF Discover!Begin
<1>2. CASE Discover!Correlate
  BY <1>2 DEF Discover!Correlate
<1>3. CASE Discover!Show
  BY <1>3 DEF Discover!Show
<1>4. CASE Discover!AdoptEnds
  BY <1>4 DEF Discover!AdoptEnds
<1>5. CASE Discover!Change
  BY <1>5 DEF Discover!Change
<1>6. ASSUME NEW s \in Discover!Source, Discover!List(s) PROVE FailureTold'
  BY <1>6 DEF Discover!List
<1>7. ASSUME NEW s \in Discover!Source, Discover!ListFails(s) PROVE FailureTold'
  BY <1>7 DEF Discover!ListFails
<1>8. ASSUME NEW s \in Discover!Source, Discover!AppendError(s) PROVE FailureTold'
  BY <1>8 DEF Discover!AppendError
<1>9. ASSUME NEW c \in left, Discover!Adopt(c) PROVE FailureTold'
  BY <1>9 DEF Discover!Adopt
<1>10. ASSUME NEW c \in shown, Discover!AdoptShown(c) PROVE FailureTold'
  BY <1>10 DEF Discover!AdoptShown
<1>11. ASSUME NEW p \in projects, Discover!Delete(p) PROVE FailureTold'
  BY <1>11 DEF Discover!Delete
<1>12. CASE UNCHANGED Discover!vars
  BY <1>12 DEF Discover!vars
<1> QED
  BY <1>1, <1>2, <1>3, <1>4, <1>5, <1>6, <1>7, <1>8, <1>9, <1>10, <1>11, <1>12
     DEF Discover!Next

-----------------------------------------------------------------------------
\* t is a candidate of rule r: it has the rule's name and host, and what it is
\* matched with runs at the rule's port or has its name.
OfRule(t, r, cs) ==
  /\ t.name = r.slug /\ t.domain = r.host /\ t.tunnel = r.tunnel
  /\ t.container # NoRow => \E c \in cs : t.container = c.name /\ c.port = r.port
  /\ t.app # NoRow => t.app = r.slug

\* t is the candidate of a container, or of an app, that no rule leads to.
OfContainer(t, c) ==
  /\ t.name = c.name /\ t.container = c.name
  /\ t.domain = NoRow /\ t.tunnel = NoRow /\ t.app = NoRow
OfApp(t, a) ==
  /\ t.name = a.name /\ t.app = a.name
  /\ t.domain = NoRow /\ t.tunnel = NoRow /\ t.container = NoRow

\* A host has one name.
HostNames(c) == c.domain # NoRow => \E r \in Ingress : c.domain = r.host /\ c.name = r.slug

\* y has nothing of what x, that is not published, consists of.
Apart(x, y) ==
  x.domain = NoRow => /\ x.container # NoRow => x.container # y.container
                      /\ x.app # NoRow => x.app # y.app

\* Nothing of rs, cs and as is without a candidate, its own or that of a rule.
RulesFound(all, rs, cs) == \A r \in rs : \E t \in all : OfRule(t, r, cs)
ContainersFound(all, rs, cs) ==
  \A c \in cs : c.running /\ c.port # 0 =>
    \/ \E t \in all : OfContainer(t, c)
    \/ \E r \in rs, d \in cs : d.name = c.name /\ d.port = r.port
AppsFound(all, rs, as) ==
  \A a \in as : a.online =>
    \/ \E t \in all : OfApp(t, a)
    \/ \E r \in rs : r.slug = a.name

\* What phase 1 makes of a rule.
LEMMA RuleCandidate ==
  ASSUME NEW cs, NEW as, NEW r, NEW t \in Discover!ByRule(r, cs, as)
  PROVE  OfRule(t, r, cs)
<1> USE DEF OfRule
<1>1. CASE r.port = 0
  BY <1>1 DEF Discover!ByRule
<1>2. CASE r.port # 0
  <2> DEFINE score(c, a) == Discover!Score(Discover!Kinds(c, a))
  <2> HIDE DEF score
  <2>1. PICK c \in Discover!OneOf(Discover!MatchContainerByPort(cs, r.port)),
             a \in Discover!OneOf(Discover!MatchPM2BySlug(as, r.slug)) :
          t = [name |-> r.slug, domain |-> r.host, tunnel |-> r.tunnel,
               container |-> c, app |-> a, score |-> score(c, a)]
    BY <1>2 DEF Discover!ByRule, score
  <2>2. c # NoRow => \E d \in cs : c = d.name /\ d.port = r.port
    BY DEF Discover!OneOf, Discover!MatchContainerByPort
  <2>3. a # NoRow => a = r.slug
    BY DEF Discover!OneOf, Discover!MatchPM2BySlug
  <2> QED
    BY <2>1, <2>2, <2>3
<1> QED
  BY <1>1, <1>2

\* The candidates of a snapshot: where each is from, that none is made of what
\* another has, and that nothing is without one.
LEMMA CandidatesAre ==
  ASSUME Named, NEW rs \in SUBSET Ingress, NEW cs \in SUBSET Containers,
         NEW as \in SUBSET Apps, NEW all \in Discover!Candidates(rs, cs, as)
  PROVE  /\ \A t \in all : HostNames(t)
         /\ \A t, u \in all : t # u => Apart(t, u)
         /\ RulesFound(all, rs, cs) /\ ContainersFound(all, rs, cs) /\ AppsFound(all, rs, as)
<1>1. PICK pick \in [rs -> UNION {Discover!ByRule(r, cs, as) : r \in rs}] :
        /\ \A r \in rs : pick[r] \in Discover!ByRule(r, cs, as)
        /\ all = Discover!Range(pick)
                   \union Discover!OrphanContainers(Discover!Range(pick), cs)
                   \union Discover!OrphanApps(Discover!Range(pick), as)
  BY DEF Discover!Candidates
<1> DEFINE taken1 == Discover!Range(pick)
           boxes == Discover!OrphanContainers(taken1, cs)
           programs == Discover!OrphanApps(taken1, as)
<1>2. all = taken1 \union boxes \union programs
  BY <1>1
<1>3. /\ \A t \in taken1 : \E r \in rs : OfRule(t, r, cs)
      /\ \A r \in rs : \E t \in taken1 : OfRule(t, r, cs)
  <2>1. \A r \in rs : OfRule(pick[r], r, cs)
    BY <1>1, RuleCandidate
  <2>2. taken1 = {pick[r] : r \in rs}
    BY <1>1 DEF Discover!Range
  <2> HIDE DEF taken1
  <2> QED
    BY <2>1, <2>2
<1> HIDE DEF taken1
<1>4. \A t : t \in boxes <=>
               \E c \in cs : /\ c.running /\ c.port # 0 /\ \A u \in taken1 : u.container # c.name
                             /\ t = [name |-> c.name, domain |-> NoRow, tunnel |-> NoRow,
                                     container |-> c.name, app |-> NoRow, score |-> 40]
  BY DEF Discover!OrphanContainers
<1>5. \A t : t \in programs <=>
               \E a \in as : /\ a.online /\ \A u \in taken1 : u.app # a.name
                             /\ t = [name |-> a.name, domain |-> NoRow, tunnel |-> NoRow,
                                     container |-> NoRow, app |-> a.name, score |-> 40]
  BY DEF Discover!OrphanApps
<1> HIDE DEF boxes, programs
<1>6. \A t \in boxes : \E c \in cs : OfContainer(t, c) /\ \A u \in taken1 : u.container # c.name
  BY <1>4 DEF OfContainer
<1>7. \A t \in programs : \E a \in as : OfApp(t, a) /\ \A u \in taken1 : u.app # a.name
  <2> SUFFICES ASSUME NEW t \in programs
               PROVE  \E a \in as : OfApp(t, a) /\ \A u \in taken1 : u.app # a.name
    OBVIOUS
  <2>1. PICK a \in as : /\ \A u \in taken1 : u.app # a.name
                        /\ t = [name |-> a.name, domain |-> NoRow, tunnel |-> NoRow,
                                container |-> NoRow, app |-> a.name, score |-> 40]
    BY <1>5
  <2>2. OfApp(t, a)
    BY <2>1 DEF OfApp
  <2> QED
    BY <2>1, <2>2
<1>8. ASSUME NEW t \in boxes, NEW u \in boxes, t.container = u.container PROVE t = u
  BY <1>4, <1>8
<1>9. ASSUME NEW t \in programs, NEW u \in programs, t.app = u.app PROVE t = u
  <2>1. PICK a \in as :
          t = [name |-> a.name, domain |-> NoRow, tunnel |-> NoRow,
               container |-> NoRow, app |-> a.name, score |-> 40]
    BY <1>5
  <2>2. PICK b \in as :
          u = [name |-> b.name, domain |-> NoRow, tunnel |-> NoRow,
               container |-> NoRow, app |-> b.name, score |-> 40]
    BY <1>5
  <2>3. a.name = b.name
    BY <1>9, <2>1, <2>2
  <2> QED
    BY <2>1, <2>2, <2>3
<1>10. \A t \in taken1 : HostNames(t) /\ t.domain # NoRow
  <2> SUFFICES ASSUME NEW t \in taken1 PROVE HostNames(t) /\ t.domain # NoRow
    OBVIOUS
  <2>1. PICK r \in rs : OfRule(t, r, cs)
    BY <1>3
  <2>2. r \in Ingress
    OBVIOUS
  <2> QED
    BY <2>1, <2>2 DEF HostNames, OfRule, Named
<1>11. \A t \in boxes : HostNames(t) /\ t.app = NoRow /\ t.container # NoRow
  BY <1>6 DEF HostNames, OfContainer, Named
<1>12. \A t \in programs : HostNames(t) /\ t.container = NoRow /\ t.app # NoRow
  BY <1>7 DEF HostNames, OfApp, Named
<1>13. ASSUME NEW t \in all, NEW u \in all, t # u PROVE Apart(t, u)
  <2>1. CASE t \in taken1
    BY <1>10, <2>1 DEF Apart
  <2>2. CASE t \in boxes
    <3>1. CASE u \in taken1
      BY <1>6, <1>11, <2>2, <3>1 DEF Apart, OfContainer
    <3>2. CASE u \in boxes
      BY <1>8, <1>11, <1>13, <2>2, <3>2 DEF Apart
    <3>3. CASE u \in programs
      BY <1>11, <1>12, <2>2, <3>3 DEF Apart
    <3> QED
      BY <1>2, <3>1, <3>2, <3>3
  <2>3. CASE t \in programs
    <3>1. CASE u \in taken1
      BY <1>7, <1>12, <2>3, <3>1 DEF Apart, OfApp
    <3>2. CASE u \in boxes
      BY <1>11, <1>12, <2>3, <3>2 DEF Apart
    <3>3. CASE u \in programs
      BY <1>9, <1>12, <1>13, <2>3, <3>3 DEF Apart
    <3> QED
      BY <1>2, <3>1, <3>2, <3>3
  <2> QED
    BY <1>2, <2>1, <2>2, <2>3
<1>14. ASSUME NEW c \in cs, c.running, c.port # 0
       PROVE  \/ \E t \in all : OfContainer(t, c)
              \/ \E r \in rs, d \in cs : d.name = c.name /\ d.port = r.port
  <2>1. CASE \E u \in taken1 : u.container = c.name
    <3>1. PICK u \in taken1 : u.container = c.name
      BY <2>1
    <3>2. PICK r \in rs : OfRule(u, r, cs)
      BY <1>3
    <3>3. u.container # NoRow
      BY <3>1 DEF Named
    <3> QED
      BY <3>1, <3>2, <3>3 DEF OfRule
  <2>2. CASE \A u \in taken1 : u.container # c.name
    <3> DEFINE t == [name |-> c.name, domain |-> NoRow, tunnel |-> NoRow,
                     container |-> c.name, app |-> NoRow, score |-> 40]
    <3>1. t \in boxes
      BY <1>4, <1>14, <2>2
    <3>2. OfContainer(t, c)
      BY DEF OfContainer
    <3> QED
      BY <1>2, <3>1, <3>2
  <2> QED
    BY <2>1, <2>2
<1>15. ASSUME NEW a \in as, a.online
       PROVE  \/ \E t \in all : OfApp(t, a)
              \/ \E r \in rs : r.slug = a.name
  <2>1. CASE \E u \in taken1 : u.app = a.name
    <3>1. PICK u \in taken1 : u.app = a.name
      BY <2>1
    <3>2. PICK r \in rs : OfRule(u, r, cs)
      BY <1>3
    <3>3. u.app # NoRow
      BY <3>1 DEF Named
    <3> QED
      BY <3>1, <3>2, <3>3 DEF OfRule
  <2>2. CASE \A u \in taken1 : u.app # a.name
    <3> DEFINE t == [name |-> a.name, domain |-> NoRow, tunnel |-> NoRow,
                     container |-> NoRow, app |-> a.name, score |-> 40]
    <3>1. t \in programs
      BY <1>5, <1>15, <2>2
    <3>2. OfApp(t, a)
      BY DEF OfApp
    <3> QED
      BY <1>2, <3>1, <3>2
  <2> QED
    BY <2>1, <2>2
<1>16. RulesFound(all, rs, cs)
  BY <1>2, <1>3 DEF RulesFound
<1>17. ContainersFound(all, rs, cs)
  BY <1>14 DEF ContainersFound
<1>18. AppsFound(all, rs, as)
  BY <1>15 DEF AppsFound
<1> QED
  BY <1>2, <1>10, <1>11, <1>12, <1>13, <1>16, <1>17, <1>18

-----------------------------------------------------------------------------
\* A host has one name everywhere, a name has one project, and what is still to
\* be adopted has nothing that is adopted, nor anything in common.
AdoptionInv ==
  /\ \A c \in left \union shown \union projects : HostNames(c)
  /\ \A p, q \in projects : p.name = q.name => p = q
  /\ \A c, d \in left : c # d => Apart(c, d)
  /\ \A c \in left, p \in projects : ~raced => Apart(c, p) /\ Apart(p, c)
  /\ \A p, q \in projects : ~raced /\ p # q => Apart(p, q)

\* A project for what a candidate is made of leaves the candidate out.
LEMMA NotAdoptedIsApart ==
  ASSUME NEW c, NEW p \in projects, ~Discover!MarkAdopted(c, projects)
  PROVE  Apart(c, p) /\ Apart(p, c)
BY DEF Discover!MarkAdopted, Apart

\* The insertion of candidate c, of which no project has a part.
LEMMA InsertKeepsApart ==
  ASSUME AdoptionInv, NEW c, HostNames(c), Discover!Insert(c),
         \A p \in projects : ~raced' => ~raced /\ Apart(c, p) /\ Apart(p, c)
  PROVE  /\ \A p \in projects' : HostNames(p)
         /\ \A p, q \in projects' : p.name = q.name => p = q
         /\ \A p, q \in projects' : ~raced' /\ p # q => Apart(p, q)
<1> DEFINE new == Discover!Project(c)
<1>1. /\ new.name = c.name /\ new.domain = c.domain
      /\ new.container = c.container /\ new.app = c.app
  BY DEF Discover!Project
<1>2. CASE \E p \in projects : p.name = c.name
  <2>1. projects' = projects
    BY <1>2 DEF Discover!Insert
  <2> QED
    BY <2>1 DEF AdoptionInv
<1>3. CASE ~ \E p \in projects : p.name = c.name
  <2>1. projects' = projects \union {new}
    BY <1>3 DEF Discover!Insert
  <2> HIDE DEF new
  <2>2. HostNames(new)
    BY <1>1 DEF HostNames
  <2>3. \A p \in projects : ~raced' => ~raced /\ Apart(new, p) /\ Apart(p, new)
    BY <1>1 DEF Apart
  <2> QED
    BY <1>1, <1>3, <2>1, <2>2, <2>3 DEF AdoptionInv
<1> QED
  BY <1>2, <1>3

\* Every step keeps AdoptionInv.
LEMMA AdoptionStep ==
  ASSUME Named, DiscoverTypeInv, AdoptionInv, [Discover!Next]_Discover!vars
  PROVE  AdoptionInv'
<1> USE DEF Discover!world, Discover!sources, Discover!page
<1>1. CASE UNCHANGED <<projects, left, shown, raced>>
  BY <1>1 DEF AdoptionInv, HostNames, Apart
<1>2. CASE Discover!Correlate
  <2>1. UNCHANGED <<projects, shown, raced>>
    BY <1>2 DEF Discover!Correlate
  <2>2. PICK all \in Discover!Candidates(lists["tunnel"], lists["docker"], lists["pm2"]) :
             left' = {c \in all : ~Discover!MarkAdopted(c, projects)}
    BY <1>2 DEF Discover!Correlate
  <2>3. /\ lists["tunnel"] \in SUBSET Ingress /\ lists["docker"] \in SUBSET Containers
        /\ lists["pm2"] \in SUBSET Apps
    BY DEF DiscoverTypeInv
  <2>4. (\A t \in all : HostNames(t)) /\ (\A t, u \in all : t # u => Apart(t, u))
    BY <2>2, <2>3, CandidatesAre
  <2>5. \A c \in left', p \in projects : Apart(c, p) /\ Apart(p, c)
    BY <2>2, NotAdoptedIsApart
  <2> QED
    BY <2>1, <2>2, <2>4, <2>5 DEF AdoptionInv, HostNames, Apart
<1>3. CASE Discover!Show \/ Discover!AdoptEnds
  <2>1. /\ left' = {} /\ UNCHANGED <<projects, raced>>
        /\ shown' = shown \/ \E c \in left : shown' = {c}
    BY <1>3 DEF Discover!Show, Discover!AdoptEnds
  <2> QED
    BY <2>1 DEF AdoptionInv, HostNames, Apart
<1>4. ASSUME NEW c \in left, Discover!Adopt(c) PROVE AdoptionInv'
  <2>1. Discover!Insert(c) /\ left' = left \ {c} /\ UNCHANGED <<shown, raced>>
    BY <1>4 DEF Discover!Adopt
  <2>2. HostNames(c) /\ \A p \in projects : ~raced' => ~raced /\ Apart(c, p) /\ Apart(p, c)
    BY <2>1 DEF AdoptionInv
  <2>3. /\ \A p \in projects' : HostNames(p)
        /\ \A p, q \in projects' : p.name = q.name => p = q
        /\ \A p, q \in projects' : ~raced' /\ p # q => Apart(p, q)
    BY <2>1, <2>2, InsertKeepsApart
  <2>4. ASSUME NEW d \in left', NEW p \in projects', ~raced'
        PROVE  Apart(d, p) /\ Apart(p, d)
    <3>1. CASE p \in projects
      BY <2>1, <2>4, <3>1 DEF AdoptionInv
    <3>2. CASE p = Discover!Project(c)
      <4>1. Apart(d, c) /\ Apart(c, d)
        BY <2>1 DEF AdoptionInv
      <4>2. p.domain = c.domain /\ p.container = c.container /\ p.app = c.app
        BY <3>2 DEF Discover!Project
      <4> QED
        BY <4>1, <4>2 DEF Apart
    <3> QED
      BY <2>1, <3>1, <3>2 DEF Discover!Insert
  <2>5. /\ \A d \in left' \union shown' : HostNames(d)
        /\ \A d, e \in left' : d # e => Apart(d, e)
    BY <2>1 DEF AdoptionInv
  <2>6. /\ \A d \in left' \union shown' \union projects' : HostNames(d)'
        /\ \A d, e \in left' : d # e => Apart(d, e)'
        /\ \A d \in left', p \in projects' : ~raced' => Apart(d, p)' /\ Apart(p, d)'
        /\ \A p, q \in projects' : ~raced' /\ p # q => Apart(p, q)'
    BY <2>3, <2>4, <2>5 DEF HostNames, Apart
  <2> QED
    BY <2>3, <2>6 DEF AdoptionInv
<1>5. ASSUME NEW c \in shown, Discover!AdoptShown(c) PROVE AdoptionInv'
  <2>1. /\ Discover!Insert(c) /\ left' = {} /\ shown' = shown \ {c}
        /\ ~raced' => ~raced /\ ~Discover!MarkAdopted(c, projects)
    BY <1>5 DEF Discover!AdoptShown, DiscoverTypeInv
  <2>2. HostNames(c) /\ \A p \in projects : ~raced' => ~raced /\ Apart(c, p) /\ Apart(p, c)
    BY <2>1, NotAdoptedIsApart DEF AdoptionInv
  <2>3. /\ \A p \in projects' : HostNames(p)
        /\ \A p, q \in projects' : p.name = q.name => p = q
        /\ \A p, q \in projects' : ~raced' /\ p # q => Apart(p, q)
    BY <2>1, <2>2, InsertKeepsApart
  <2>4. /\ \A d \in left' \union shown' \union projects' : HostNames(d)'
        /\ \A p, q \in projects' : ~raced' /\ p # q => Apart(p, q)'
    BY <2>1, <2>3 DEF AdoptionInv, HostNames, Apart
  <2> QED
    BY <2>1, <2>3, <2>4 DEF AdoptionInv
<1>6. ASSUME NEW p \in projects, Discover!Delete(p) PROVE AdoptionInv'
  BY <1>6 DEF Discover!Delete, AdoptionInv, HostNames, Apart
<1>7. CASE Discover!Begin \/ Discover!Change
  BY <1>1, <1>7 DEF Discover!Begin, Discover!Change
<1>8. ASSUME NEW s \in Discover!Source,
             Discover!List(s) \/ Discover!ListFails(s) \/ Discover!AppendError(s)
      PROVE  AdoptionInv'
  BY <1>1, <1>8 DEF Discover!List, Discover!ListFails, Discover!AppendError
<1>9. CASE UNCHANGED Discover!vars
  BY <1>1, <1>9 DEF Discover!vars
<1> QED
  BY <1>2, <1>3, <1>4, <1>5, <1>6, <1>7, <1>8, <1>9 DEF Discover!Next

\* Nothing is adopted twice.
LEMMA AdoptionIsOnce ==
  ASSUME Named, AdoptionInv PROVE Discover!AdoptedOnce
<1> SUFFICES ASSUME ~raced, NEW p \in projects, NEW q \in projects, p # q
             PROVE  /\ p.domain # NoRow => p.domain # q.domain
                    /\ Apart(p, q)
  BY DEF Discover!AdoptedOnce, Apart
<1>1. p.domain # NoRow /\ p.domain = q.domain => p.name = q.name
  BY DEF AdoptionInv, HostNames, Named
<1> QED
  BY <1>1 DEF AdoptionInv

-----------------------------------------------------------------------------
\* What there is of a rule, a container or an app: a project, a candidate still
\* to be adopted, or a rule that leads to it.
RuleCovered(r) ==
  \/ \E p \in projects : Discover!Shares(p, r)
  \/ \E c \in left : c.name = r.slug
ContainerCovered(c) ==
  \/ \E p \in projects : p.container = c.name \/ p.name = c.name
  \/ \E d \in left : d.name = c.name
  \/ \E r \in rules : r.port = c.port
AppCovered(a) ==
  \/ \E p \in projects : p.app = a.name \/ p.name = a.name
  \/ \E d \in left : d.name = a.name
  \/ \E r \in rules : r.slug = a.name

AllCovered ==
  /\ \A r \in rules : RuleCovered(r)
  /\ \A c \in containers : c.running /\ c.port # 0 => ContainerCovered(c)
  /\ \A a \in apps : a.online => AppCovered(a)

\* A source that did not fail has listed what there is, all of which is covered
\* from the moment the lists are correlated.
CoverInv ==
  /\ \A s \in Discover!Source : /\ goroutine[s] = "append" => s \in lost
                                /\ goroutine[s] = "listing" => s \notin lost
                                /\ goroutine[s] = "done" /\ s \notin lost
                                     => lists[s] = Discover!What(s)
  /\ phase = "adopt" /\ lost = {} => AllCovered

\* The lists of what there is, correlated, cover it.
LEMMA CorrelateCovers ==
  ASSUME Named, DiscoverTypeInv, AdoptionInv, CoverInv, Discover!Correlate, lost = {}
  PROVE  AllCovered'
<1>1. /\ lists["tunnel"] = rules /\ lists["docker"] = containers /\ lists["pm2"] = apps
      /\ UNCHANGED <<rules, containers, apps, projects>>
  BY DEF Discover!Correlate, CoverInv, Discover!What, Discover!Source, Discover!world
<1>2. PICK all \in Discover!Candidates(rules, containers, apps) :
           left' = {c \in all : ~Discover!MarkAdopted(c, projects)}
  BY <1>1 DEF Discover!Correlate
<1>3. /\ rules \in SUBSET Ingress /\ containers \in SUBSET Containers /\ apps \in SUBSET Apps
      /\ \A c, d \in containers : c.name = d.name => c = d
  BY DEF DiscoverTypeInv, Discover!ContainerSets
<1>4. /\ RulesFound(all, rules, containers) /\ ContainersFound(all, rules, containers)
      /\ AppsFound(all, rules, apps)
  BY <1>2, <1>3, CandidatesAre
<1>5. ASSUME NEW r \in rules PROVE RuleCovered(r)'
  <2>1. PICK t \in all : OfRule(t, r, containers)
    BY <1>4 DEF RulesFound
  <2>2. CASE Discover!MarkAdopted(t, projects)
    <3>1. PICK p \in projects : \/ t.container # NoRow /\ p.container = t.container
                                \/ t.app # NoRow /\ p.app = t.app
                                \/ t.tunnel # NoRow /\ p.tunnel = t.tunnel
                                \/ t.domain # NoRow /\ p.domain = t.domain
      BY <2>2 DEF Discover!MarkAdopted
    <3>2. p.domain = r.host => p.name = r.slug
      BY <1>3 DEF AdoptionInv, HostNames, Named
    <3>3. Discover!Shares(p, r)
      BY <2>1, <3>1, <3>2 DEF OfRule, Discover!Shares
    <3> QED
      BY <1>1, <3>3 DEF RuleCovered, Discover!Shares
  <2>3. CASE ~Discover!MarkAdopted(t, projects)
    BY <1>2, <2>1, <2>3 DEF RuleCovered, OfRule
  <2> QED
    BY <2>2, <2>3
<1>6. ASSUME NEW c \in containers, c.running, c.port # 0 PROVE ContainerCovered(c)'
  <2>1. CASE \E t \in all : OfContainer(t, c)
    <3>1. PICK t \in all : OfContainer(t, c)
      BY <2>1
    <3>2. Discover!MarkAdopted(t, projects) => \E p \in projects : p.container = c.name
      BY <3>1 DEF Discover!MarkAdopted, OfContainer
    <3> QED
      BY <1>1, <1>2, <3>1, <3>2 DEF ContainerCovered, OfContainer
  <2>2. CASE \E r \in rules, d \in containers : d.name = c.name /\ d.port = r.port
    BY <1>1, <1>3, <2>2 DEF ContainerCovered
  <2> QED
    BY <1>4, <1>6, <2>1, <2>2 DEF ContainersFound
<1>7. ASSUME NEW a \in apps, a.online PROVE AppCovered(a)'
  <2>1. CASE \E t \in all : OfApp(t, a)
    <3>1. PICK t \in all : OfApp(t, a)
      BY <2>1
    <3>2. Discover!MarkAdopted(t, projects) => \E p \in projects : p.app = a.name
      BY <3>1 DEF Discover!MarkAdopted, OfApp
    <3> QED
      BY <1>1, <1>2, <3>1, <3>2 DEF AppCovered, OfApp
  <2>2. CASE \E r \in rules : r.slug = a.name
    BY <1>1, <2>2 DEF AppCovered
  <2> QED
    BY <1>4, <1>7, <2>1, <2>2 DEF AppsFound
<1> QED
  BY <1>1, <1>5, <1>6, <1>7 DEF AllCovered

\* A row of a name there is after every insertion of it.
LEMMA InsertNames ==
  ASSUME NEW c, Discover!Insert(c)
  PROVE  projects \subseteq projects' /\ \E p \in projects' : p.name = c.name
<1>1. CASE \E p \in projects : p.name = c.name
  BY <1>1 DEF Discover!Insert
<1>2. CASE ~ \E p \in projects : p.name = c.name
  <2>1. Discover!Project(c) \in projects' /\ Discover!Project(c).name = c.name
    BY <1>2 DEF Discover!Insert, Discover!Project
  <2> QED
    BY <1>2, <2>1 DEF Discover!Insert
<1> QED
  BY <1>1, <1>2

\* A candidate that leaves for a project of its name leaves nothing uncovered.
LEMMA AdoptCovers ==
  ASSUME AllCovered, NEW c \in left, Discover!Insert(c), left' = left \ {c},
         UNCHANGED <<rules, containers, apps>>
  PROVE  AllCovered'
<1>1. PICK q \in projects' : q.name = c.name
  BY InsertNames
<1>2. projects \subseteq projects'
  BY InsertNames
<1>3. ASSUME NEW r \in rules PROVE RuleCovered(r)'
  <2>1. \A p \in projects' : Discover!Shares(p, r)' = Discover!Shares(p, r)
    BY DEF Discover!Shares
  <2>2. c.name = r.slug => Discover!Shares(q, r)
    BY <1>1 DEF Discover!Shares
  <2>3. RuleCovered(r)
    BY DEF AllCovered
  <2> QED
    BY <1>1, <1>2, <2>1, <2>2, <2>3 DEF RuleCovered
<1>4. ASSUME NEW d \in containers, d.running, d.port # 0 PROVE ContainerCovered(d)'
  <2>1. ContainerCovered(d)
    BY <1>4 DEF AllCovered
  <2> QED
    BY <1>1, <1>2, <2>1 DEF ContainerCovered
<1>5. ASSUME NEW a \in apps, a.online PROVE AppCovered(a)'
  <2>1. AppCovered(a)
    BY <1>5 DEF AllCovered
  <2> QED
    BY <1>1, <1>2, <2>1 DEF AppCovered
<1> QED
  BY <1>3, <1>4, <1>5 DEF AllCovered

\* Every step keeps CoverInv.
LEMMA CoverStep ==
  ASSUME Named, DiscoverTypeInv, FailureTold, AdoptionInv, CoverInv,
         [Discover!Next]_Discover!vars
  PROVE  CoverInv'
<1> USE DEF Discover!world, Discover!sources, Discover!page
<1>1. CASE Discover!Begin
  <2>1. /\ phase = "rest" /\ phase' = "capture"
        /\ goroutine' = [s \in Discover!Source |-> "listing"] /\ lost' = lost
    BY <1>1 DEF Discover!Begin
  <2>2. lost = {}
    BY <2>1 DEF FailureTold
  <2> QED
    BY <2>1, <2>2 DEF CoverInv
<1>2. CASE Discover!Correlate
  <2>1. goroutine' = [s \in Discover!Source |-> "idle"] /\ lost' = lost
    BY <1>2 DEF Discover!Correlate
  <2>2. lost = {} => AllCovered'
    BY <1>2, CorrelateCovers
  <2> QED
    BY <2>1, <2>2 DEF CoverInv
<1>3. CASE Discover!Show \/ Discover!AdoptEnds
  <2>1. /\ phase = "adopt" /\ phase' = "rest" /\ UNCHANGED <<goroutine, lists>>
        /\ lost' = {}
    BY <1>3 DEF Discover!Show, Discover!AdoptEnds
  <2>2. goroutine = [s \in Discover!Source |-> "idle"]
    BY <2>1 DEF DiscoverTypeInv
  <2> QED
    BY <2>1, <2>2 DEF CoverInv
<1>4. ASSUME NEW c \in left, Discover!Adopt(c) PROVE CoverInv'
  <2>1. /\ Discover!Insert(c) /\ left' = left \ {c} /\ phase' = phase
        /\ UNCHANGED <<rules, containers, apps, goroutine, lists, lost>>
    BY <1>4 DEF Discover!Adopt
  <2>2. AllCovered => AllCovered'
    BY <2>1, AdoptCovers
  <2> QED
    BY <2>1, <2>2 DEF CoverInv, Discover!What
<1>5. ASSUME NEW c \in shown, Discover!AdoptShown(c) PROVE CoverInv'
  BY <1>5 DEF Discover!AdoptShown, CoverInv, Discover!What
<1>6. ASSUME NEW p \in projects, Discover!Delete(p) PROVE CoverInv'
  BY <1>6 DEF Discover!Delete, CoverInv, Discover!What
<1>7. CASE Discover!Change
  <2>1. phase = "rest" /\ UNCHANGED <<phase, goroutine, lists, lost>>
    BY <1>7 DEF Discover!Change
  <2>2. goroutine = [s \in Discover!Source |-> "idle"]
    BY <2>1 DEF DiscoverTypeInv
  <2> QED
    BY <2>1, <2>2 DEF CoverInv
<1>8. ASSUME NEW s \in Discover!Source, \/ Discover!List(s) \/ Discover!ListFails(s)
                                        \/ Discover!AppendError(s)
      PROVE  CoverInv'
  <2>1. /\ goroutine[s] \in {"listing", "append"}
        /\ UNCHANGED <<rules, containers, apps, projects, left, phase>>
    BY <1>8 DEF Discover!List, Discover!ListFails, Discover!AppendError
  <2>2. phase = "capture"
    BY <2>1 DEF DiscoverTypeInv
  <2>3. ASSUME NEW t \in Discover!Source
        PROVE  /\ goroutine'[t] = "append" => t \in lost'
               /\ goroutine'[t] = "listing" => t \notin lost'
               /\ goroutine'[t] = "done" /\ t \notin lost' => lists'[t] = Discover!What(t)'
    <3>1. Discover!What(t)' = Discover!What(t)
      BY <2>1 DEF Discover!What
    <3>2. /\ goroutine \in [Discover!Source -> {"idle", "listing", "append", "done"}]
          /\ DOMAIN lists = Discover!Source
      BY DEF DiscoverTypeInv
    <3>3. CASE Discover!List(s)
      BY <3>1, <3>2, <3>3 DEF Discover!List, CoverInv
    <3>4. CASE Discover!ListFails(s)
      BY <3>1, <3>2, <3>4 DEF Discover!ListFails, CoverInv
    <3>5. CASE Discover!AppendError(s)
      BY <3>1, <3>2, <3>5 DEF Discover!AppendError, CoverInv
    <3> QED
      BY <1>8, <3>3, <3>4, <3>5
  <2> QED
    BY <2>1, <2>2, <2>3 DEF CoverInv
<1>9. CASE UNCHANGED Discover!vars
  BY <1>9 DEF Discover!vars, CoverInv, Discover!What, AllCovered, RuleCovered,
              ContainerCovered, AppCovered, Discover!Shares
<1> QED
  BY <1>1, <1>2, <1>3, <1>4, <1>5, <1>6, <1>7, <1>8, <1>9 DEF Discover!Next

\* Every step keeps AllAdopted.
LEMMA AllAdoptedStep ==
  ASSUME DiscoverTypeInv, CoverInv, Discover!AllAdopted, [Discover!Next]_Discover!vars
  PROVE  Discover!AllAdopted'
<1> USE DEF Discover!world, Discover!sources, Discover!page
<1>1. ASSUME settled' => settled, UNCHANGED <<rules, containers, apps>>,
             projects \subseteq projects'
      PROVE  Discover!AllAdopted'
  <2>1. \A p, r : Discover!Shares(p, r)' = Discover!Shares(p, r)
    BY <1>1 DEF Discover!Shares
  <2> QED
    BY <1>1, <2>1 DEF Discover!AllAdopted
<1>2. CASE Discover!AdoptEnds
  <2>1. /\ phase = "adopt" /\ UNCHANGED <<rules, containers, apps, projects>>
        /\ settled' => left = {} /\ lost = {}
    BY <1>2 DEF Discover!AdoptEnds
  <2> SUFFICES ASSUME settled' PROVE Discover!AllAdopted'
    BY DEF Discover!AllAdopted
  <2>2. left = {} /\ AllCovered
    BY <2>1 DEF CoverInv
  <2>3. \A r \in rules : \E p \in projects : Discover!Shares(p, r)
    BY <2>2 DEF AllCovered, RuleCovered
  <2>4. \A c \in containers : c.running /\ c.port # 0 =>
          \E p \in projects : \/ p.container = c.name \/ p.name = c.name
                              \/ \E r \in rules : r.port = c.port /\ Discover!Shares(p, r)
    BY <2>2, <2>3 DEF AllCovered, ContainerCovered
  <2>5. \A a \in apps : a.online =>
          \E p \in projects : \/ p.app = a.name \/ p.name = a.name
                              \/ \E r \in rules : r.slug = a.name /\ Discover!Shares(p, r)
    BY <2>2, <2>3 DEF AllCovered, AppCovered
  <2>6. \A p, r : Discover!Shares(p, r)' = Discover!Shares(p, r)
    BY <2>1 DEF Discover!Shares
  <2> QED
    BY <2>1, <2>3, <2>4, <2>5, <2>6 DEF Discover!AllAdopted
<1>3. CASE Discover!Show \/ Discover!Change
  <2>1. ~settled'
    BY <1>3 DEF Discover!Show, Discover!Change
  <2> QED
    BY <2>1 DEF Discover!AllAdopted
<1>4. ASSUME NEW p \in projects, Discover!Delete(p) PROVE Discover!AllAdopted'
  BY <1>4 DEF Discover!Delete, Discover!AllAdopted
<1>5. CASE Discover!Begin \/ Discover!Correlate
  BY <1>1, <1>5 DEF Discover!Begin, Discover!Correlate
<1>6. ASSUME NEW c, Discover!Adopt(c) \/ Discover!AdoptShown(c)
      PROVE  Discover!AllAdopted'
  BY <1>1, <1>6, InsertNames DEF Discover!Adopt, Discover!AdoptShown
<1>7. ASSUME NEW s \in Discover!Source, \/ Discover!List(s) \/ Discover!ListFails(s)
                                        \/ Discover!AppendError(s)
      PROVE  Discover!AllAdopted'
  BY <1>1, <1>7 DEF Discover!List, Discover!ListFails, Discover!AppendError
<1>8. CASE UNCHANGED Discover!vars
  BY <1>1, <1>8 DEF Discover!vars
<1> QED
  BY <1>2, <1>3, <1>4, <1>5, <1>6, <1>7, <1>8 DEF Discover!Next

\* Whatever the rules, containers and apps: what a finished batch of answered
\* sources leaves is adopted, nothing is adopted twice from pages that are not
\* stale, and no source fails in silence, though errors may overwrite each other.
THEOREM DiscoverHolds ==
  ASSUME Named
  PROVE  Discover!Spec => [](/\ Discover!TypeOK /\ Discover!AllAdopted
                             /\ Discover!AdoptedOnce /\ Discover!FailureIsTold)
<1> DEFINE Inv == /\ DiscoverTypeInv /\ FailureTold /\ AdoptionInv /\ CoverInv
                  /\ Discover!AllAdopted
<1>1. Discover!Init => Inv
  <2> SUFFICES ASSUME Discover!Init PROVE Inv
    OBVIOUS
  <2> USE DEF Discover!Init
  <2>1. DiscoverTypeInv
    BY DEF DiscoverTypeInv, Discover!Source
  <2>2. FailureTold /\ AdoptionInv /\ CoverInv /\ Discover!AllAdopted
    BY DEF FailureTold, AdoptionInv, CoverInv, Discover!AllAdopted
  <2> QED
    BY <2>1, <2>2
<1>2. Inv /\ [Discover!Next]_Discover!vars => Inv'
  BY DiscoverTypeStep, FailureToldStep, AdoptionStep, CoverStep, AllAdoptedStep
<1>3. Inv => /\ Discover!TypeOK /\ Discover!AllAdopted
             /\ Discover!AdoptedOnce /\ Discover!FailureIsTold
  <2> SUFFICES ASSUME Inv
       PROVE Discover!TypeOK /\ Discover!AdoptedOnce /\ Discover!FailureIsTold
    OBVIOUS
  <2>1. Discover!TypeOK
    BY DEF DiscoverTypeInv, Discover!TypeOK, Discover!ContainerSets
  <2>2. Discover!FailureIsTold
    BY DEF DiscoverTypeInv, FailureTold, Discover!FailureIsTold
  <2> QED
    BY <2>1, <2>2, AdoptionIsOnce
<1> QED
  BY <1>1, <1>2, <1>3, PTL DEF Discover!Spec

\* The same of what the runs check.
THEOREM DiscoverHoldsThroughout == ASSUME Named PROVE SumSpec => []DiscoveryIsExact
<1>1. SumInit /\ focus = "discovery" => Discover!Init
  BY DEF SumInit
<1>2. focus = "discovery" /\ [SumNext]_sumVars
        => [Discover!Next]_Discover!vars /\ (focus = "discovery")'
  BY DEF SumNext, healthOnly, discoveryOnly, recorderOnly, alertOnly, floorOnly,
         notifyOnly, sumVars, Discover!sources, Discover!world, Discover!page,
         Discover!vars
<1>3. ~(focus = "discovery") /\ [SumNext]_sumVars => (~(focus = "discovery"))'
  BY DEF SumNext, sumVars
<1>4. (focus = "discovery" => /\ Discover!TypeOK /\ Discover!AllAdopted
                              /\ Discover!AdoptedOnce /\ Discover!FailureIsTold)
        => DiscoveryIsExact
  BY DEF DiscoveryIsExact
<1>5. Discover!Spec => [](/\ Discover!TypeOK /\ Discover!AllAdopted
                          /\ Discover!AdoptedOnce /\ Discover!FailureIsTold)
  BY DiscoverHolds, PTL
<1> QED
  BY <1>1, <1>2, <1>3, <1>4, <1>5, PTL DEF SumSpec, Discover!Spec

=============================================================================
