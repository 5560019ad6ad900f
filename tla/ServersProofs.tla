--------------------------- MODULE ServersProofs ----------------------------
(* Theorems about what is done on other machines, for any number of        *)
(* servers and requests: each part on its own, then the same of the        *)
(* composition the runs check.                                             *)
EXTENDS MCServers, FiniteSetTheorems, TLAPS

\* Finitely many servers, and bounds that are numbers.
FleetBounded == IsFiniteSet(Servers) /\ Parallel \in Nat /\ MaxTroubles \in Nat

\* The listing counts as every module does.
LEMMA ListingCounts == ASSUME NEW S PROVE Listing!Cardinality(S) = Cardinality(S)
BY DEF Listing!Cardinality, Cardinality

-----------------------------------------------------------------------------
\* A goroutine fills its slot once, after its probe; an idle handler has
\* taken no token.
Unfilled ==
  /\ phase = "idle" => drained = 0
  /\ \A s \in Servers :
       pc[s] \in {"none", "probing", "probed", "failed"} => result[s] = Listing!Blank

SlotInv == Listing!TypeOK /\ Unfilled /\ Listing!SlotIsOwn

\* A slot that is of s and says what its probe saw.
Own(s, names, r) ==
  /\ r \in [engine : BOOLEAN, error : BOOLEAN, names : SUBSET Containers, of : SUBSET Servers]
  /\ r.of = {s} /\ (r.engine => r.names = names) /\ (~r.engine => r.names = {})

\* A goroutine stores such a slot, whether its probe succeeds or not.
LEMMA SlotIsFilled ==
  ASSUME NEW s \in Servers, NEW names \in SUBSET Containers,
         NEW r \in {Listing!ParseListOutput(s, names), Listing!Failed(s)}
  PROVE  Own(s, names, r)
<1> USE DEF Own
<1>1. CASE r = Listing!Failed(s)
  <2>1. r = [engine |-> FALSE, error |-> TRUE, names |-> {}, of |-> {s}]
    BY <1>1 DEF Listing!Failed, Listing!Blank
  <2> QED
    BY <2>1
<1>2. CASE r = Listing!ParseListOutput(s, names)
  <2>1. r = [engine |-> s \in runtime, error |-> FALSE,
             names |-> IF s \in runtime THEN names ELSE {}, of |-> {s}]
    BY <1>2 DEF Listing!ParseListOutput, Listing!Found
  <2>2. CASE s \in runtime
    <3>1. (s \in runtime) = TRUE
      BY <2>2
    <3>2. r = [engine |-> TRUE, error |-> FALSE, names |-> names, of |-> {s}]
      BY <2>1, <2>2, <3>1
    <3> QED
      BY <3>2
  <2>3. CASE s \notin runtime
    <3>1. (s \in runtime) = FALSE
      BY <2>3
    <3>2. r = [engine |-> FALSE, error |-> FALSE, names |-> {}, of |-> {s}]
      BY <2>1, <2>3, <3>1
    <3> QED
      BY <3>2
  <2> QED
    BY <2>2, <2>3
<1> QED
  BY <1>1, <1>2

\* Every step keeps SlotInv.
LEMMA SlotStep == ASSUME FleetBounded, SlotInv, [Listing!Next]_Listing!vars PROVE SlotInv'
<1> USE DEF FleetBounded, SlotInv, Listing!TypeOK, Unfilled, Listing!SlotIsOwn, Listing!Goto, Listing!hosts, Listing!channel, Listing!Trouble
<1>0. \A S \in SUBSET Servers : Cardinality(S) \in Nat
  BY FS_Subset, FS_CardinalityType
<1>1. ASSUME NEW s \in Servers, Listing!Change(s) PROVE SlotInv'
  BY <1>1 DEF Listing!Change
<1>2. CASE Listing!List
  BY <1>0, <1>2, ListingCounts DEF Listing!List
<1>3. CASE Listing!Drain \/ Listing!Answer
  <2>1. Cardinality(listed) \in Nat
    BY <1>0
  <2>2. CASE Listing!Drain
    BY <2>1, <2>2, ListingCounts DEF Listing!Drain
  <2>3. CASE Listing!Answer
    BY <2>1, <2>3 DEF Listing!Answer
  <2> QED
    BY <1>3, <2>2, <2>3
<1>4. ASSUME NEW s \in Servers, Listing!Launch(s) PROVE SlotInv'
  BY <1>4 DEF Listing!Launch
<1>5. ASSUME NEW s \in Servers, Listing!Probe(s) \/ Listing!ProbeCancelled(s) PROVE SlotInv'
  <2>1. /\ pc[s] = "probing" /\ result[s] = Listing!Blank
        /\ UNCHANGED <<Listing!hosts, phase, listed, unsent, Listing!channel, result, answer>>
    BY <1>5 DEF Listing!Probe, Listing!ProbeCancelled
  <2>2. /\ list' \in [Servers -> SUBSET Containers]
        /\ \A t \in Servers \ {s} : list'[t] = list[t]
        /\ pc' \in {[pc EXCEPT ![s] = "probed"], [pc EXCEPT ![s] = "failed"]}
    BY <1>5 DEF Listing!Probe, Listing!ProbeCancelled
  <2>3. troubles' \in 0..MaxTroubles
    BY <1>5 DEF Listing!Probe, Listing!ProbeCancelled
  <2> QED
    BY <2>1, <2>2, <2>3
<1>6. ASSUME NEW s \in Servers, Listing!Store(s) PROVE SlotInv'
  <2>1. PICK r \in {Listing!ParseListOutput(s, list[s]), Listing!Failed(s)} :
             result' = [result EXCEPT ![s] = r]
    BY <1>6 DEF Listing!Store
  <2>2. list[s] \in SUBSET Containers
    OBVIOUS
  <2>3. Own(s, list[s], r)
    BY <2>2, SlotIsFilled
  <2>4. /\ pc' = [pc EXCEPT ![s] = "releasing"]
        /\ UNCHANGED <<Listing!hosts, phase, listed, unsent, Listing!channel, list, answer, troubles>>
    BY <1>6 DEF Listing!Store
  <2>5. Listing!TypeOK'
    BY <2>1, <2>4, <2>3 DEF Own
  <2>6. Unfilled' /\ Listing!SlotIsOwn'
    BY <2>1, <2>4, <2>3 DEF Own
  <2> QED
    BY <2>5, <2>6
<1>7. ASSUME NEW s \in Servers, Listing!Release(s) PROVE SlotInv'
  BY <1>7 DEF Listing!Release
<1>8. CASE UNCHANGED Listing!vars
  BY <1>8 DEF Listing!vars
<1> QED
  BY <1>1, <1>2, <1>3, <1>4, <1>5, <1>6, <1>7, <1>8 DEF Listing!Next

-----------------------------------------------------------------------------
\* The goroutines that were started and have not given their token back.
Active == {s \in Servers : pc[s] \in {"probing", "probed", "failed", "releasing"}}

\* Until the handler takes tokens, the channel counts the goroutines; when it
\* does, it starts no more of them.
TokenInv ==
  /\ Cardinality(Active) <= Parallel
  /\ drained = 0 => tokens = Cardinality(Active)
  /\ drained > 0 => unsent = {}

\* Every step keeps TokenInv.
LEMMA TokenStep == ASSUME FleetBounded, SlotInv, TokenInv, [Listing!Next]_Listing!vars PROVE TokenInv'
<1> USE DEF FleetBounded, SlotInv, Listing!TypeOK, TokenInv, Listing!Goto, Listing!hosts, Listing!channel
<1>0. IsFiniteSet(Active) /\ Cardinality(Active) \in Nat
  BY FS_Subset, FS_CardinalityType DEF Active
<1>1. ASSUME Active' = Active, tokens' = tokens, drained' = drained, unsent' \subseteq unsent
      PROVE  TokenInv'
  BY <1>1
<1>2. ASSUME NEW s \in Servers,
             Listing!Change(s) \/ Listing!Probe(s) \/ Listing!ProbeCancelled(s) \/ Listing!Store(s)
      PROVE  TokenInv'
  BY <1>1, <1>2 DEF Listing!Change, Listing!Probe, Listing!ProbeCancelled,
     Listing!Store, Active
<1>3. CASE Listing!List
  BY <1>0, <1>3 DEF Listing!List, Active, Unfilled
<1>4. CASE Listing!Drain \/ Listing!Answer
  <2>1. Active' = Active /\ unsent' = unsent /\ Cardinality(listed) \in Nat
    BY <1>4, FS_Subset, FS_CardinalityType DEF Listing!Drain, Listing!Answer, Active
  <2>2. \/ tokens' = tokens /\ drained' = drained
        \/ drained' = drained + 1 /\ unsent = {}
    BY <1>4 DEF Listing!Drain, Listing!Answer
  <2> QED
    BY <1>0, <2>1, <2>2
<1>5. ASSUME NEW s \in Servers, Listing!Launch(s) PROVE TokenInv'
  <2>1. s \notin Active /\ Active' = Active \union {s}
    BY <1>5 DEF Listing!Launch, Active
  <2>2. Cardinality(Active') = Cardinality(Active) + 1
    BY <1>0, <2>1, FS_AddElement
  <2> QED
    BY <1>0, <1>5, <2>2 DEF Listing!Launch, Listing!Send
<1>6. ASSUME NEW s \in Servers, Listing!Release(s) PROVE TokenInv'
  <2>1. s \in Active /\ Active' = Active \ {s}
    BY <1>6 DEF Listing!Release, Active
  <2>2. Cardinality(Active') = Cardinality(Active) - 1
    BY <1>0, <2>1, FS_RemoveElement
  <2> QED
    BY <1>0, <1>6, <2>2 DEF Listing!Release
<1>7. CASE UNCHANGED Listing!vars
  BY <1>1, <1>7 DEF Listing!vars, Active
<1> QED
  BY <1>2, <1>3, <1>4, <1>5, <1>6, <1>7 DEF Listing!Next

\* containers.go: "Bounded concurrency: at most 4 parallel SSH probes", and
\* the slots are right, although the wait at the end is not.
THEOREM FleetHolds == ASSUME FleetBounded PROVE Listing!Spec => []Listing!FleetIsTrue
<1>1. Listing!Init => SlotInv
  BY FS_EmptySet, ListingCounts DEF FleetBounded, Listing!Init, SlotInv,
     Listing!TypeOK, Unfilled,
     Listing!SlotIsOwn, Listing!Blank, Listing!hosts
<1>2. Listing!Init => TokenInv
  <2> SUFFICES ASSUME Listing!Init PROVE TokenInv
    OBVIOUS
  <2>1. Active = {}
    BY DEF Listing!Init, Active
  <2> QED
    BY <2>1, FS_EmptySet DEF FleetBounded, Listing!Init, TokenInv
<1>3. SlotInv /\ [Listing!Next]_Listing!vars => SlotInv'
  BY SlotStep
<1>4. SlotInv /\ TokenInv /\ [Listing!Next]_Listing!vars => TokenInv'
  BY TokenStep
<1>5. SlotInv /\ TokenInv => Listing!FleetIsTrue
  <2> SUFFICES ASSUME SlotInv, TokenInv PROVE Listing!AtMostParallel
    BY DEF SlotInv, Listing!FleetIsTrue
  <2>1. Listing!Probing \subseteq Active /\ IsFiniteSet(Active)
    BY FS_Subset DEF FleetBounded, Listing!Probing, Active
  <2> QED
    BY <2>1, FS_Subset, FS_CardinalityType, ListingCounts DEF FleetBounded, TokenInv,
       Listing!AtMostParallel
<1> QED
  BY <1>1, <1>2, <1>3, <1>4, <1>5, PTL DEF Listing!Spec

\* The same of what the runs check.
THEOREM FleetHoldsThroughout == ASSUME FleetBounded PROVE SumSpec => []FleetStands
<1>1. SumInit /\ focus = "fleet" => Listing!Init
  BY DEF SumInit
<1>2. focus = "fleet" /\ [SumNext]_sumVars
        => [Listing!Next]_Listing!vars /\ (focus = "fleet")'
  BY DEF SumNext, accountOnly, knownOnly, keyOnly, tunnelOnly, fleetOnly, remoteOnly,
         commandOnly, containerOnly, serverOnly, filesOnly, sumVars, Listing!hosts,
         Listing!channel, Listing!vars
<1>3. ~(focus = "fleet") /\ [SumNext]_sumVars => (~(focus = "fleet"))'
  BY DEF SumNext, sumVars
<1>4. (focus = "fleet" => Listing!FleetIsTrue) => FleetStands
  BY DEF FleetStands
<1>5. Listing!Spec => []Listing!FleetIsTrue
  BY FleetHolds
<1> QED
  BY <1>1, <1>2, <1>3, <1>4, <1>5, PTL DEF SumSpec, Listing!Spec

-----------------------------------------------------------------------------
\* The bounds are numbers.
RemoteBounded == MaxFailures \in Nat /\ MaxCrashes \in Nat /\ MaxFaults \in Nat

\* A server without a row has no worker yet, and a worker that has started
\* knows a status that a row may have.
Worked ==
  \A s \in Monitored :
    /\ status[s] = "absent" => pc[s] = "none" /\ lastEvent[s] = "none"
    /\ pc[s] \in {"queued", "collecting", "answered", "failed"} => listed[s] # "absent"

RemoteTypeInv == Monitor!TypeOK /\ Worked

\* Every step keeps RemoteTypeInv.
LEMMA RemoteTypeStep ==
  ASSUME RemoteBounded, RemoteTypeInv, [Monitor!Next]_Monitor!vars
  PROVE  RemoteTypeInv'
<1> USE DEF RemoteBounded, RemoteTypeInv, Monitor!TypeOK, Worked, Monitor!Present,
            Monitor!Online, Monitor!Offline, Monitor!Degraded, Monitor!Goto, Monitor!Fault,
            Monitor!NoFault, Monitor!bounds, Monitor!workers
<1>1. ASSUME NEW S \in SUBSET enabled, Monitor!StartRound(S) PROVE RemoteTypeInv'
  BY <1>1 DEF Monitor!StartRound, Monitor!EngineIdle
<1>2. ASSUME NEW s \in Monitored, Monitor!Acquire(s) \/ Monitor!Collect(s) PROVE RemoteTypeInv'
  BY <1>2 DEF Monitor!Acquire, Monitor!Collect, Monitor!UpTo
<1>3. ASSUME NEW s \in Monitored, Monitor!Record(s) PROVE RemoteTypeInv'
  <2> DEFINE n == IF pc[s] = "answered" THEN 0 ELSE Monitor!UpTo(fails[s], MaxFailures)
  <2>1. /\ n \in 0..MaxFailures
        /\ fails' = [fails EXCEPT ![s] = n]
        /\ Monitor!SetStatus(s, Monitor!Judge(s, n))
        /\ pc' = [pc EXCEPT ![s] = Monitor!Announce(s, Monitor!Judge(s, n))]
    BY <1>3 DEF Monitor!Record, Monitor!UpTo
  <2> HIDE DEF n
  <2>2. /\ pc[s] \in {"answered", "failed"}
        /\ Monitor!Judge(s, n) \in {"unknown", Monitor!Online, Monitor!Degraded, Monitor!Offline}
    BY <1>3 DEF Monitor!Record, Monitor!Judge
  <2>3. Monitor!Announce(s, Monitor!Judge(s, n)) \in {Monitor!Online, Monitor!Offline, "nothing"}
    BY DEF Monitor!Announce
  <2>4. /\ status' \in {status, [status EXCEPT ![s] = Monitor!Judge(s, n)]}
        /\ Monitor!Present' = Monitor!Present
        /\ faults' \in 0..MaxFaults
    BY <2>1, <2>2 DEF Monitor!SetStatus
  <2> QED
    BY <1>3, <2>1, <2>2, <2>3, <2>4 DEF Monitor!Record
<1>4. ASSUME NEW s \in Monitored, Monitor!Report(s) PROVE RemoteTypeInv'
  BY <1>4 DEF Monitor!Report
<1>5. ASSUME NEW s \in Monitored, Monitor!Create(s) \/ Monitor!Edit(s) \/ Monitor!Delete(s) \/ Monitor!Flip(s)
     PROVE RemoteTypeInv'
  BY <1>5 DEF Monitor!Create, Monitor!Edit, Monitor!Delete, Monitor!Flip
<1>6. ASSUME NEW s \in Monitored, NEW r \in Testers, Monitor!TestProbe(r, s) PROVE RemoteTypeInv'
  BY <1>6 DEF Monitor!TestProbe
<1>7. ASSUME NEW r \in Testers, Monitor!TestRecord(r) PROVE RemoteTypeInv'
  BY <1>7 DEF Monitor!TestRecord, Monitor!SetStatus
<1>8. ASSUME Monitor!Crash PROVE RemoteTypeInv'
  BY <1>8 DEF Monitor!Crash
<1>9. ASSUME UNCHANGED Monitor!vars PROVE RemoteTypeInv'
  BY <1>9 DEF Monitor!vars
<1> QED
  BY <1>1, <1>2, <1>3, <1>4, <1>5, <1>6, <1>7, <1>8, <1>9
     DEF Monitor!Next, Monitor!Worker, Monitor!StartSweep, Monitor!StartRetry

\* TypeInv holds for ever.
LEMMA TypeInvHolds == ASSUME RemoteBounded PROVE Monitor!Spec => []RemoteTypeInv
<1>1. Monitor!Init => RemoteTypeInv
  BY DEF RemoteBounded, Monitor!Init, RemoteTypeInv, Monitor!TypeOK, Worked,
         Monitor!Present, Monitor!Online, Monitor!Offline, Monitor!Degraded
<1>2. RemoteTypeInv /\ [Monitor!Next]_Monitor!vars => RemoteTypeInv'
  BY RemoteTypeStep
<1> QED
  BY <1>1, <1>2, PTL DEF Monitor!Spec

\* Every variable keeps its type: whatever workers, tests and handlers write,
\* an enabled server has a row.
THEOREM RemoteTypes == ASSUME RemoteBounded PROVE Monitor!Spec => []Monitor!TypeOK
<1>1. RemoteTypeInv => Monitor!TypeOK
  BY DEF RemoteTypeInv
<1> QED
  BY <1>1, TypeInvHolds, PTL

-----------------------------------------------------------------------------
\* A worker of a server no test has touched works from the status the row
\* still has: the engine alone writes it, and one round at a time.
ListedIsCurrent ==
  \A s \in Monitor!Present \ tested :
    pc[s] \in {"queued", "collecting", "answered", "failed"} => listed[s] = status[s]

\* Between its write and its event a worker announces what it has written.
AnnouncedIsWritten ==
  \A s \in Monitor!Present \ tested :
    pc[s] \in {Monitor!Online, Monitor!Offline} /\ crashes = 0 /\ faults = 0 => status[s] = pc[s]

StatusInv == ListedIsCurrent /\ AnnouncedIsWritten /\ Monitor!EventsTellStatus

\* What a step leaves alone keeps StatusInv.
LEMMA StatusFrame ==
  ASSUME RemoteTypeInv, StatusInv,
         UNCHANGED <<status, listed, lastEvent, tested, crashes, faults>>,
         \A s \in Monitored :
           \/ pc'[s] = pc[s]
           \/ /\ pc[s] \notin {Monitor!Online, Monitor!Offline} /\ pc'[s] \notin {Monitor!Online, Monitor!Offline}
              /\ pc'[s] \in {"collecting", "answered", "failed"} =>
                   pc[s] \in {"queued", "collecting", "answered", "failed"}
              /\ pc'[s] # "queued"
  PROVE  StatusInv'
BY DEF StatusInv, ListedIsCurrent, AnnouncedIsWritten, Monitor!EventsTellStatus,
       Monitor!Present

\* Every step keeps StatusInv.
LEMMA StatusInvStep ==
  ASSUME RemoteTypeInv, RemoteTypeInv', StatusInv, [Monitor!Next]_Monitor!vars PROVE StatusInv'
<1> USE DEF RemoteTypeInv, Monitor!TypeOK, Worked, Monitor!Present, Monitor!Online,
            Monitor!Offline, Monitor!Degraded, Monitor!Goto, Monitor!bounds, Monitor!workers
<1> USE DEF StatusInv, ListedIsCurrent, AnnouncedIsWritten, Monitor!EventsTellStatus
<1>1. ASSUME NEW S \in SUBSET enabled, Monitor!StartRound(S) PROVE StatusInv'
  BY <1>1 DEF Monitor!StartRound, Monitor!EngineIdle
<1>2. ASSUME NEW s \in Monitored, Monitor!Acquire(s) \/ Monitor!Collect(s) PROVE StatusInv'
  BY <1>2, StatusFrame DEF Monitor!Acquire, Monitor!Collect
<1>3. ASSUME NEW s \in Monitored, Monitor!Record(s) PROVE StatusInv'
  <2>1. PICK n : /\ Monitor!SetStatus(s, Monitor!Judge(s, n))
                 /\ pc' = [pc EXCEPT ![s] = Monitor!Announce(s, Monitor!Judge(s, n))]
    BY <1>3 DEF Monitor!Record
  <2>2. /\ pc[s] \in {"answered", "failed"}
        /\ UNCHANGED <<listed, lastEvent, tested, crashes>>
    BY <1>3 DEF Monitor!Record
  <2>3. \A t \in Monitored \ {s} : status'[t] = status[t] /\ pc'[t] = pc[t]
    BY <2>1 DEF Monitor!SetStatus
  <2>4. faults' = 0 => faults = 0
    BY <2>1 DEF Monitor!SetStatus, Monitor!Fault, Monitor!NoFault
  <2>5. ASSUME s \in Monitor!Present', s \notin tested, crashes = 0, faults' = 0
        PROVE  /\ pc'[s] \in {Monitor!Online, Monitor!Offline} => status'[s] = pc'[s]
               /\ pc'[s] \notin {Monitor!Online, Monitor!Offline} =>
                    (status'[s] = Monitor!Offline <=> lastEvent[s] = Monitor!Offline)
    <3>1. /\ s \in Monitor!Present /\ listed[s] = status[s]
          /\ status[s] = Monitor!Offline <=> lastEvent[s] = Monitor!Offline
      BY <2>1, <2>2, <2>4, <2>5 DEF Monitor!SetStatus
    <3>2. status'[s] = Monitor!Judge(s, n)
      BY <2>1, <2>5, <3>1 DEF Monitor!SetStatus, Monitor!Fault
    <3>3. Monitor!Judge(s, n) \in {Monitor!Online, Monitor!Offline, Monitor!Degraded, listed[s]}
          /\ (Monitor!Judge(s, n) = Monitor!Degraded => listed[s] \in {Monitor!Online, Monitor!Degraded})
      BY DEF Monitor!Judge
    <3> QED
      BY <2>1, <3>1, <3>2, <3>3 DEF Monitor!Announce
  <2>6. pc'[s] \notin {"queued", "collecting", "answered", "failed"}
    BY <2>1 DEF Monitor!Announce
  <2> QED
    BY <2>2, <2>3, <2>4, <2>5, <2>6
<1>4. ASSUME NEW s \in Monitored, Monitor!Report(s) PROVE StatusInv'
  <2>1. /\ pc[s] \in {Monitor!Online, Monitor!Offline, "nothing"} /\ pc' = [pc EXCEPT ![s] = "none"]
        /\ \A t \in Monitored \ {s} : listed'[t] = listed[t] /\ lastEvent'[t] = lastEvent[t]
        /\ UNCHANGED <<status, tested, crashes>>
        /\ faults' = 0 => /\ faults = 0
                          /\ lastEvent'[s] = IF pc[s] = "nothing" THEN lastEvent[s] ELSE pc[s]
    BY <1>4 DEF Monitor!Report, Monitor!Fault, Monitor!NoFault
  <2> QED
    BY <2>1
<1>5. ASSUME NEW s \in Monitored, Monitor!Create(s) \/ Monitor!Edit(s) \/ Monitor!Delete(s) \/ Monitor!Flip(s)
      PROVE  StatusInv'
  BY <1>5 DEF Monitor!Create, Monitor!Edit, Monitor!Delete, Monitor!Flip
<1>6. ASSUME NEW s \in Monitored, NEW r \in Testers, Monitor!TestProbe(r, s) PROVE StatusInv'
  BY <1>6, StatusFrame DEF Monitor!TestProbe
<1>7. ASSUME NEW r \in Testers, Monitor!TestRecord(r) PROVE StatusInv'
  <2>1. PICK t : /\ t = test[r].server /\ tested' = tested \union {t}
                 /\ \A s \in Monitored \ {t} : status'[s] = status[s]
    BY <1>7 DEF Monitor!TestRecord, Monitor!SetStatus
  <2>2. UNCHANGED <<pc, listed, lastEvent, crashes>> /\ (faults' = 0 => faults = 0)
    BY <1>7 DEF Monitor!TestRecord, Monitor!SetStatus, Monitor!Fault, Monitor!NoFault
  <2> QED
    BY <2>1, <2>2
<1>8. ASSUME Monitor!Crash PROVE StatusInv'
  BY <1>8 DEF Monitor!Crash
<1>9. ASSUME UNCHANGED Monitor!vars PROVE StatusInv'
  BY <1>9, StatusFrame DEF Monitor!vars
<1> QED
  BY <1>1, <1>2, <1>3, <1>4, <1>5, <1>6, <1>7, <1>8, <1>9
     DEF Monitor!Next, Monitor!Worker, Monitor!StartSweep, Monitor!StartRetry

\* StatusInv holds for ever.
LEMMA StatusInvHolds ==
  ASSUME RemoteBounded
  PROVE  Monitor!Spec => [](RemoteTypeInv /\ StatusInv)
<1>1. Monitor!Init => StatusInv
  BY DEF Monitor!Init, StatusInv, ListedIsCurrent, AnnouncedIsWritten,
         Monitor!EventsTellStatus, Monitor!Present, Monitor!Online, Monitor!Offline
<1>2. RemoteTypeInv /\ RemoteTypeInv' /\ StatusInv /\ [Monitor!Next]_Monitor!vars => StatusInv'
  BY StatusInvStep
<1> QED
  BY <1>1, <1>2, TypeInvHolds, PTL DEF Monitor!Spec

\* The server_offline and server_recovered events say what the table says,
\* although a worker judges by a status it listed long before.
THEOREM EventsTold == ASSUME RemoteBounded PROVE Monitor!Spec => []Monitor!EventsTellStatus
<1>1. StatusInv => Monitor!EventsTellStatus
  BY DEF StatusInv
<1> QED
  BY <1>1, StatusInvHolds, PTL

-----------------------------------------------------------------------------
\* The counter in memory never runs ahead of the failures in a row, which
\* only a restart makes it forget; a worker that has just seen a failure has
\* it counted by Collect and not yet by Record.
CountIsHonest ==
  \A s \in Monitored :
    /\ pc[s] \notin {"answered", "failed"} => fails[s] <= streak[s]
    /\ pc[s] = "failed" => Monitor!UpTo(fails[s], MaxFailures) <= streak[s]

\* Every step keeps the counter honest.
LEMMA CountStep ==
  ASSUME RemoteBounded, RemoteTypeInv, CountIsHonest, [Monitor!Next]_Monitor!vars
       PROVE CountIsHonest'
<1> USE DEF RemoteBounded, RemoteTypeInv, Monitor!TypeOK, CountIsHonest, Monitor!UpTo,
            Monitor!Goto, Monitor!bounds, Monitor!workers, Monitor!Online, Monitor!Offline
<1>1. ASSUME NEW S \in SUBSET enabled, Monitor!StartRound(S) PROVE CountIsHonest'
  BY <1>1 DEF Monitor!StartRound, Monitor!EngineIdle
<1>2. ASSUME NEW s \in Monitored, Monitor!Acquire(s) \/ Monitor!Collect(s) PROVE CountIsHonest'
  BY <1>2 DEF Monitor!Acquire, Monitor!Collect
<1>3. ASSUME NEW s \in Monitored, Monitor!Record(s) PROVE CountIsHonest'
  <2>1. PICK new \in {Monitor!Online, Monitor!Offline, "nothing"} : pc' = [pc EXCEPT ![s] = new]
    BY <1>3 DEF Monitor!Record, Monitor!Announce
  <2> QED
    BY <1>3, <2>1 DEF Monitor!Record
<1>4. ASSUME NEW s \in Monitored, Monitor!Report(s) PROVE CountIsHonest'
  BY <1>4 DEF Monitor!Report
<1>5. ASSUME NEW s \in Monitored, Monitor!Create(s) \/ Monitor!Edit(s) \/ Monitor!Delete(s) \/ Monitor!Flip(s)
      PROVE  CountIsHonest'
  BY <1>5 DEF Monitor!Create, Monitor!Edit, Monitor!Delete, Monitor!Flip
<1>6. ASSUME NEW r \in Testers, Monitor!TestRecord(r) \/ \E s \in Monitored : Monitor!TestProbe(r, s)
      PROVE  CountIsHonest'
  BY <1>6 DEF Monitor!TestRecord, Monitor!TestProbe
<1>7. ASSUME Monitor!Crash PROVE CountIsHonest'
  BY <1>7 DEF Monitor!Crash
<1>8. ASSUME UNCHANGED Monitor!vars PROVE CountIsHonest'
  BY <1>8 DEF Monitor!vars
<1> QED
  BY <1>1, <1>2, <1>3, <1>4, <1>5, <1>6, <1>7, <1>8
     DEF Monitor!Next, Monitor!Worker, Monitor!StartSweep, Monitor!StartRetry

\* A step of the engine alone that turns a row offline comes after
\* MaxFailures failures in a row.
LEMMA EarnedStep ==
  ASSUME RemoteBounded, RemoteTypeInv, StatusInv, CountIsHonest, [Monitor!Next]_Monitor!vars,
         NEW s \in Monitored, Monitor!TurnsOffline(s), tested = {}
  PROVE  streak[s] >= MaxFailures
<1> USE DEF RemoteBounded, RemoteTypeInv, Monitor!TypeOK, Monitor!Goto,
            Monitor!TurnsOffline, Monitor!Offline, Monitor!Online, Monitor!Degraded
<1>1. Monitor!Record(s)
  <2>1. status' # status /\ pc' # pc /\ pc[s] = "failed" /\ pc'[s] # "failed"
    OBVIOUS
  <2>2. ~Monitor!Crash /\ ~Monitor!StartSweep /\ ~Monitor!StartRetry
    BY <2>1 DEF Monitor!Crash, Monitor!StartSweep, Monitor!StartRetry, Monitor!StartRound
  <2>3. \A t \in Monitored : ~(Monitor!Acquire(t) \/ Monitor!Collect(t) \/ Monitor!Report(t))
    BY <2>1 DEF Monitor!Acquire, Monitor!Collect, Monitor!Report
  <2>4. \A t \in Monitored : ~(Monitor!Create(t) \/ Monitor!Edit(t) \/ Monitor!Delete(t) \/ Monitor!Flip(t))
    BY <2>1 DEF Monitor!Create, Monitor!Edit, Monitor!Delete, Monitor!Flip, Monitor!workers
  <2>5. \A r \in Testers : ~Monitor!TestRecord(r) /\ \A t \in Monitored : ~Monitor!TestProbe(r, t)
    BY <2>1 DEF Monitor!TestRecord, Monitor!TestProbe, Monitor!workers
  <2>6. PICK t \in Monitored : Monitor!Record(t)
    BY <2>1, <2>2, <2>3, <2>4, <2>5 DEF Monitor!Next, Monitor!Worker, Monitor!vars
  <2>7. t = s
    BY <2>1, <2>6 DEF Monitor!Record
  <2> QED
    BY <2>6, <2>7
<1> DEFINE n == Monitor!UpTo(fails[s], MaxFailures)
<1>2. /\ s \in Monitor!Present /\ status'[s] = Monitor!Judge(s, n)
  BY <1>1 DEF Monitor!Record, Monitor!SetStatus
<1>3. listed[s] # Monitor!Offline
  BY <1>2 DEF StatusInv, ListedIsCurrent
<1>4. n >= MaxFailures
  BY <1>2, <1>3 DEF Monitor!Judge
<1> QED
  BY <1>4 DEF CountIsHonest, Monitor!UpTo

\* engine.go: "only mark offline after maxFailures consecutive failures",
\* where no test of a server writes beside the engine.
THEOREM OfflineEarned ==
  ASSUME RemoteBounded
  PROVE  Monitor!Spec => Monitor!OfflineIsEarnedUntested
<1>1. Monitor!Init => CountIsHonest
  BY DEF RemoteBounded, Monitor!Init, CountIsHonest
<1>2. RemoteTypeInv /\ CountIsHonest /\ [Monitor!Next]_Monitor!vars => CountIsHonest'
  BY CountStep
<1>3. RemoteTypeInv /\ StatusInv /\ CountIsHonest /\ [Monitor!Next]_Monitor!vars
        => \A s \in Monitored : Monitor!TurnsOffline(s) /\ tested = {} => streak[s] >= MaxFailures
  BY EarnedStep
<1> QED
  BY <1>1, <1>2, <1>3, StatusInvHolds, PTL DEF Monitor!Spec, Monitor!OfflineIsEarnedUntested

\* The same of what the runs check.
THEOREM EventsToldThroughout == ASSUME RemoteBounded PROVE SumSpec => []EventsTellStatus
<1>1. SumInit /\ focus = "remote" => Monitor!Init
  BY DEF SumInit
<1>2. focus = "remote" /\ [SumNext]_sumVars
        => [Monitor!Next]_Monitor!vars /\ (focus = "remote")'
  BY DEF SumNext, accountOnly, knownOnly, keyOnly, tunnelOnly, fleetOnly, remoteOnly,
         commandOnly, containerOnly, serverOnly, filesOnly, sumVars, Monitor!vars,
         Monitor!workers, Monitor!bounds
<1>3. ~(focus = "remote") /\ [SumNext]_sumVars => (~(focus = "remote"))'
  BY DEF SumNext, sumVars
<1>4. (focus = "remote" => Monitor!TypeOK /\ Monitor!EventsTellStatus)
        => EventsTellStatus
  BY DEF EventsTellStatus
<1>5. Monitor!Spec => [](Monitor!TypeOK /\ Monitor!EventsTellStatus)
  BY RemoteTypes, EventsTold, PTL
<1> QED
  BY <1>1, <1>2, <1>3, <1>4, <1>5, PTL DEF SumSpec, Monitor!Spec

-----------------------------------------------------------------------------
\* The bound is a number.
ContainerBounded == MaxTroubles \in Nat

\* Every step keeps the types.
LEMMA ContainerTypeStep ==
  ASSUME ContainerBounded, Container!TypeOK, [Container!Next]_Container!vars
  PROVE  Container!TypeOK'
<1> USE DEF ContainerBounded, Container!TypeOK, Container!Trouble, Container!history,
            Container!Actions
<1>1. ASSUME NEW h \in Machines, Container!Change(h) PROVE Container!TypeOK'
  BY <1>1 DEF Container!Change
<1>2. ASSUME NEW r \in Requests, Container!Begin(r) \/ Container!BeginLocal(r)
      PROVE  Container!TypeOK'
  BY <1>2 DEF Container!Begin, Container!BeginLocal, Container!Send
<1>3. ASSUME NEW r \in Requests, Container!Unreachable(r) PROVE Container!TypeOK'
  BY <1>3 DEF Container!Unreachable
<1>4. ASSUME NEW r \in Requests, Container!Carry(r) \/ Container!HalfRestart(r)
      PROVE  Container!TypeOK'
  BY <1>4 DEF Container!Carry, Container!HalfRestart, Container!After
<1>5. ASSUME NEW r \in Requests, Container!Reject(r) PROVE Container!TypeOK'
  BY <1>5 DEF Container!Reject
<1>6. ASSUME NEW r \in Requests, Container!Respond(r) PROVE Container!TypeOK'
  <2>1. Container!Answer(r) \in {"ok", "noruntime", "unavailable", "error"}
    BY DEF Container!Answer, Container!LocalAnswer
  <2>2. /\ audited' \in SUBSET Requests /\ unlogged' \in SUBSET Requests
        /\ troubles' \in 0..MaxTroubles
    BY <1>6 DEF Container!Respond, Container!Append
  <2>3. promised' \in [Machines -> {"running", "stopped", "gone"}]
    BY <1>6 DEF Container!Respond, Container!After
  <2> QED
    BY <1>6, <2>1, <2>2, <2>3 DEF Container!Respond
<1>7. ASSUME NEW r \in Requests, Container!TimesOut(r) PROVE Container!TypeOK'
  BY <1>7 DEF Container!TimesOut
<1>8. CASE UNCHANGED Container!vars
  BY <1>8 DEF Container!vars
<1> QED
  BY <1>1, <1>2, <1>3, <1>4, <1>5, <1>6, <1>7, <1>8 DEF Container!Next

\* What a request has asked for, and how far its engine is with it; a host
\* where a request was given up on is disturbed.
Asked ==
  \A r \in Requests :
    /\ pc[r] = "new" => engine[r] = "idle"
    /\ pc[r] = "waiting" => engine[r] # "idle"
    /\ engine[r] = "working" => pc[r] \in {"waiting", "timeout"}
    /\ pc[r] = "timeout" => req[r].host \in disturbed

\* One request at a time waits for an undisturbed host.
Alone ==
  \A r, q \in Requests :
    /\ pc[r] = "waiting" /\ pc[q] = "waiting"
    /\ req[r].host = req[q].host /\ req[r].host \notin disturbed
    => r = q

\* The container of an undisturbed host is as the request that waits for it
\* has left it, or else as the last success said.
DoneBy(r) == pc[r] = "waiting" /\ engine[r] = "done"
Follows ==
  \A h \in Machines \ disturbed :
    /\ \A r \in Requests :
         DoneBy(r) /\ req[r].host = h => state[h] = Container!After(req[r].action)
    /\ (\A r \in Requests : DoneBy(r) => req[r].host # h) => state[h] = promised[h]

ContainerInv == Container!TypeOK /\ Asked /\ Alone /\ Follows /\ Container!ChangesAreAudited

\* Every step keeps Asked.
LEMMA AskedStep ==
  ASSUME Container!TypeOK, Asked, [Container!Next]_Container!vars
  PROVE  Asked'
<1> USE DEF Asked, Container!TypeOK, Container!Trouble, Container!history
<1>1. ASSUME NEW h \in Machines, Container!Change(h) PROVE Asked'
  BY <1>1 DEF Container!Change
<1>2. ASSUME NEW r \in Requests, Container!Begin(r) \/ Container!BeginLocal(r) PROVE Asked'
  BY <1>2 DEF Container!Begin, Container!BeginLocal, Container!Send
<1>3. ASSUME NEW r \in Requests, Container!Unreachable(r) PROVE Asked'
  BY <1>3 DEF Container!Unreachable
<1>4. ASSUME NEW r \in Requests, Container!Carry(r) \/ Container!HalfRestart(r) PROVE Asked'
  BY <1>4 DEF Container!Carry, Container!HalfRestart
<1>5. ASSUME NEW r \in Requests, Container!Reject(r) PROVE Asked'
  BY <1>5 DEF Container!Reject
<1>6. ASSUME NEW r \in Requests, Container!Respond(r) PROVE Asked'
  <2>1. Container!Answer(r) \in {"ok", "noruntime", "unavailable", "error"}
    BY DEF Container!Answer, Container!LocalAnswer
  <2> QED
    BY <1>6, <2>1 DEF Container!Respond
<1>7. ASSUME NEW r \in Requests, Container!TimesOut(r) PROVE Asked'
  BY <1>7 DEF Container!TimesOut
<1>8. CASE UNCHANGED Container!vars
  BY <1>8 DEF Container!vars
<1> QED
  BY <1>1, <1>2, <1>3, <1>4, <1>5, <1>6, <1>7, <1>8 DEF Container!Next

\* Every step keeps Alone: a request that is sent while another waits disturbs
\* the host.
LEMMA AloneStep ==
  ASSUME Container!TypeOK, Alone, [Container!Next]_Container!vars
  PROVE  Alone'
<1> USE DEF Alone, Container!TypeOK, Container!history
<1>1. ASSUME disturbed \subseteq disturbed', req' = req,
             \A r \in Requests : pc'[r] = "waiting" => pc[r] = "waiting"
      PROVE  Alone'
  BY <1>1
<1>2. ASSUME NEW r \in Requests, Container!Begin(r) \/ Container!BeginLocal(r) PROVE Alone'
  <2>1. /\ pc' = [pc EXCEPT ![r] = "waiting"] /\ req' = req
        /\ disturbed' = IF Container!Others(r) = {} THEN disturbed
                        ELSE disturbed \union {req[r].host}
    BY <1>2 DEF Container!Begin, Container!BeginLocal, Container!Send
  <2>2. ASSUME NEW q \in Requests, q # r, pc[q] = "waiting", req[q].host = req[r].host
        PROVE  req[r].host \in disturbed'
    BY <2>1, <2>2 DEF Container!Others
  <2>3. disturbed \subseteq disturbed'
    BY <2>1
  <2> QED
    BY <2>1, <2>2, <2>3
<1>3. ASSUME NEW r \in Requests, Container!Respond(r) PROVE Alone'
  <2>1. Container!Answer(r) \in {"ok", "noruntime", "unavailable", "error"}
    BY DEF Container!Answer, Container!LocalAnswer
  <2> QED
    BY <1>1, <1>3, <2>1 DEF Container!Respond
<1>4. ASSUME NEW h \in Machines, Container!Change(h) PROVE Alone'
  BY <1>1, <1>4 DEF Container!Change
<1>5. ASSUME NEW r \in Requests,
             \/ Container!Unreachable(r) \/ Container!Carry(r) \/ Container!Reject(r)
             \/ Container!HalfRestart(r) \/ Container!TimesOut(r)
      PROVE  Alone'
  BY <1>1, <1>5 DEF Container!Unreachable, Container!Carry, Container!Reject,
                    Container!HalfRestart, Container!TimesOut
<1>6. CASE UNCHANGED Container!vars
  BY <1>1, <1>6 DEF Container!vars
<1> QED
  BY <1>2, <1>3, <1>4, <1>5, <1>6 DEF Container!Next

\* An answer is a success only of what the engine has done: over SSH a failure
\* always leaves its marker.
LEMMA SuccessIsDone ==
  ASSUME NEW r \in Requests, Container!TypeOK, Asked, pc[r] = "waiting",
         engine[r] # "working"
  PROVE  (Container!Answer(r) = "ok") <=> (engine[r] = "done")
BY DEF Container!TypeOK, Asked, Container!Answer, Container!LocalAnswer, Container!Marker

\* Every step keeps Follows.
LEMMA FollowsStep ==
  ASSUME Container!TypeOK, Asked, Alone, Follows, [Container!Next]_Container!vars
  PROVE  Follows'
<1> USE DEF Container!TypeOK, Container!Trouble, Container!history, DoneBy
<1>1. ASSUME NEW h \in Machines, Container!Change(h) PROVE Follows'
  BY <1>1 DEF Container!Change, Follows
<1>2. ASSUME NEW r \in Requests, Container!Begin(r) \/ Container!BeginLocal(r) PROVE Follows'
  <2>1. /\ pc' = [pc EXCEPT ![r] = "waiting"] /\ engine' = [engine EXCEPT ![r] = "working"]
        /\ pc[r] = "new" /\ disturbed \subseteq disturbed'
        /\ UNCHANGED <<state, req, promised>>
    BY <1>2 DEF Container!Begin, Container!BeginLocal, Container!Send
  <2>2. \A q \in Requests : DoneBy(q)' <=> DoneBy(q)
    BY <2>1
  <2> QED
    BY <2>1, <2>2 DEF Follows
<1>3. ASSUME NEW r \in Requests, Container!Unreachable(r) PROVE Follows'
  <2>1. \A q \in Requests : DoneBy(q)' <=> DoneBy(q)
    BY <1>3 DEF Container!Unreachable
  <2> QED
    BY <1>3, <2>1 DEF Container!Unreachable, Follows
<1>4. ASSUME NEW r \in Requests, Container!Carry(r) PROVE Follows'
  <2>1. /\ engine[r] = "working" /\ engine' = [engine EXCEPT ![r] = "done"]
        /\ state' = [state EXCEPT ![req[r].host] = Container!After(req[r].action)]
        /\ UNCHANGED <<pc, req, disturbed, promised>>
    BY <1>4 DEF Container!Carry
  <2>2. ASSUME NEW h \in Machines \ disturbed, h # req[r].host
        PROVE  /\ \A q \in Requests : DoneBy(q)' /\ req[q].host = h => DoneBy(q)
               /\ \A q \in Requests : DoneBy(q) /\ req[q].host = h => DoneBy(q)'
               /\ state'[h] = state[h]
    BY <2>1, <2>2
  <2>3. ASSUME req[r].host \notin disturbed
        PROVE  /\ DoneBy(r)' /\ state'[req[r].host] = Container!After(req[r].action)
               /\ \A q \in Requests : DoneBy(q)' /\ req[q].host = req[r].host => q = r
    BY <2>1, <2>3 DEF Asked, Alone
  <2> QED
    BY <2>1, <2>2, <2>3 DEF Follows
<1>5. ASSUME NEW r \in Requests, Container!Reject(r) PROVE Follows'
  <2>1. /\ engine[r] = "working" /\ UNCHANGED <<state, pc, req, disturbed, promised>>
        /\ engine' \in {[engine EXCEPT ![r] = "missing"], [engine EXCEPT ![r] = "failed"]}
    BY <1>5 DEF Container!Reject
  <2>2. \A q \in Requests : DoneBy(q)' <=> DoneBy(q)
    BY <2>1
  <2> QED
    BY <2>1, <2>2 DEF Follows
<1>6. ASSUME NEW r \in Requests, Container!HalfRestart(r) PROVE Follows'
  <2>1. /\ engine[r] = "working" /\ engine' = [engine EXCEPT ![r] = "failed"]
        /\ state' = [state EXCEPT ![req[r].host] = "stopped"]
        /\ disturbed' = disturbed \union {req[r].host}
        /\ UNCHANGED <<pc, req, promised>>
    BY <1>6 DEF Container!HalfRestart
  <2>2. \A q \in Requests : DoneBy(q)' <=> DoneBy(q)
    BY <2>1
  <2> QED
    BY <2>1, <2>2 DEF Follows
<1>7. ASSUME NEW r \in Requests, Container!Respond(r) PROVE Follows'
  <2>1. /\ pc[r] = "waiting" /\ engine[r] # "working"
        /\ pc' = [pc EXCEPT ![r] = Container!Answer(r)]
        /\ promised' = IF Container!Answer(r) = "ok"
                       THEN [promised EXCEPT ![req[r].host] = Container!After(req[r].action)]
                       ELSE promised
        /\ UNCHANGED <<state, req, engine, disturbed>>
    BY <1>7 DEF Container!Respond
  <2>2. /\ Container!Answer(r) # "waiting"
        /\ (Container!Answer(r) = "ok") <=> (engine[r] = "done")
    BY <2>1, SuccessIsDone DEF Container!Answer, Container!LocalAnswer
  <2>3. /\ ~DoneBy(r)'
        /\ \A q \in Requests \ {r} : DoneBy(q)' <=> DoneBy(q)
    BY <2>1, <2>2
  <2>4. ASSUME NEW h \in Machines \ disturbed, h # req[r].host
        PROVE  /\ promised'[h] = promised[h] /\ state'[h] = state[h]
               /\ \A q \in Requests : req[q].host = h => (DoneBy(q)' <=> DoneBy(q))
    BY <2>1, <2>3, <2>4
  <2>5. CASE engine[r] = "done"
    <3>1. ASSUME req[r].host \notin disturbed
          PROVE  state'[req[r].host] = promised'[req[r].host]
      BY <2>1, <2>2, <2>5, <3>1 DEF Follows
    <3>2. ASSUME NEW q \in Requests, DoneBy(q)', req[q].host = req[r].host,
                 req[r].host \notin disturbed
          PROVE  FALSE
      BY <2>1, <2>3, <3>2 DEF Alone
    <3> QED
      BY <2>1, <2>4, <3>1, <3>2 DEF Follows
  <2>6. CASE engine[r] # "done"
    <3>1. \A q \in Requests : DoneBy(q)' <=> DoneBy(q)
      BY <2>3, <2>6
    <3> QED
      BY <2>1, <2>2, <2>6, <3>1 DEF Follows
  <2> QED
    BY <2>5, <2>6
<1>8. ASSUME NEW r \in Requests, Container!TimesOut(r) PROVE Follows'
  <2>1. /\ disturbed' = disturbed \union {req[r].host}
        /\ UNCHANGED <<state, req, promised>>
        /\ \A q \in Requests : req[q].host # req[r].host => (DoneBy(q)' <=> DoneBy(q))
    BY <1>8 DEF Container!TimesOut
  <2> QED
    BY <2>1 DEF Follows
<1>9. CASE UNCHANGED Container!vars
  BY <1>9 DEF Container!vars, Follows
<1> QED
  BY <1>1, <1>2, <1>3, <1>4, <1>5, <1>6, <1>7, <1>8, <1>9 DEF Container!Next

\* Every step keeps the audit.
LEMMA AuditStep ==
  ASSUME Container!TypeOK, Asked, Container!ChangesAreAudited,
         [Container!Next]_Container!vars
  PROVE  Container!ChangesAreAudited'
<1> USE DEF Container!TypeOK, Container!ChangesAreAudited, Container!history
<1>1. ASSUME NEW h \in Machines, Container!Change(h) PROVE Container!ChangesAreAudited'
  BY <1>1 DEF Container!Change
<1>2. ASSUME NEW r \in Requests, Container!Begin(r) \/ Container!BeginLocal(r)
      PROVE  Container!ChangesAreAudited'
  BY <1>2 DEF Container!Begin, Container!BeginLocal, Container!Send
<1>3. ASSUME NEW r \in Requests, Container!Unreachable(r)
      PROVE  Container!ChangesAreAudited'
  BY <1>3 DEF Container!Unreachable, Asked
<1>4. ASSUME NEW r \in Requests,
             Container!Carry(r) \/ Container!Reject(r) \/ Container!HalfRestart(r)
      PROVE  Container!ChangesAreAudited'
  BY <1>4 DEF Container!Carry, Container!Reject, Container!HalfRestart, Asked
<1>5. ASSUME NEW r \in Requests, Container!Respond(r) PROVE Container!ChangesAreAudited'
  <2>1. /\ pc[r] = "waiting" /\ engine[r] # "working" /\ UNCHANGED <<engine, req>>
        /\ audited \subseteq audited' /\ unlogged \subseteq unlogged'
        /\ Container!Answer(r) = "ok" /\ Container!Audits(r)
             => r \in audited' \union unlogged'
        /\ \A q \in Requests \ {r} : pc'[q] = pc[q]
    BY <1>5 DEF Container!Respond, Container!Append
  <2>2. engine[r] = "done" => Container!Answer(r) = "ok"
    BY <2>1, SuccessIsDone
  <2>3. engine[r] = "done" /\ req[r].host # Local => r \in audited' \union unlogged'
    BY <2>1, <2>2 DEF Container!Audits
  <2>4. \A q \in Requests \ {r} :
          q \in audited \union unlogged => q \in audited' \union unlogged'
    BY <2>1
  <2> QED
    BY <2>1, <2>3, <2>4
<1>6. ASSUME NEW r \in Requests, Container!TimesOut(r)
      PROVE  Container!ChangesAreAudited'
  BY <1>6 DEF Container!TimesOut
<1>7. CASE UNCHANGED Container!vars
  BY <1>7 DEF Container!vars
<1> QED
  BY <1>1, <1>2, <1>3, <1>4, <1>5, <1>6, <1>7 DEF Container!Next

\* The container is as the last success said, where nothing disturbed it, and
\* every change on a server has its event: of containers/service.go, whatever
\* overlaps, times out or is refused.
THEOREM ContainerHolds ==
  ASSUME ContainerBounded
  PROVE  Container!Spec => [](/\ Container!TypeOK /\ Container!LastSuccessStands
                              /\ Container!ChangesAreAudited)
<1>1. Container!Init => ContainerInv
  BY DEF ContainerBounded, Container!Init, ContainerInv, Container!TypeOK, Asked, Alone,
         Follows, DoneBy, Container!ChangesAreAudited, Container!Actions
<1>2. ContainerInv /\ [Container!Next]_Container!vars => ContainerInv'
  BY ContainerTypeStep, AskedStep, AloneStep, FollowsStep, AuditStep DEF ContainerInv
<1>3. ContainerInv => /\ Container!TypeOK /\ Container!LastSuccessStands
                      /\ Container!ChangesAreAudited
  BY DEF ContainerInv, Container!TypeOK, Container!LastSuccessStands, Follows, DoneBy
<1> QED
  BY <1>1, <1>2, <1>3, PTL DEF Container!Spec

\* The same of what the runs check.
THEOREM ContainerHoldsThroughout == ASSUME ContainerBounded PROVE SumSpec => []ContainerFollows
<1>1. SumInit /\ focus = "container" => Container!Init
  BY DEF SumInit
<1>2. focus = "container" /\ [SumNext]_sumVars
        => [Container!Next]_Container!vars /\ (focus = "container")'
  BY DEF SumNext, accountOnly, knownOnly, keyOnly, tunnelOnly, fleetOnly, remoteOnly,
         commandOnly, containerOnly, serverOnly, filesOnly, sumVars, Container!history,
         Container!vars
<1>3. ~(focus = "container") /\ [SumNext]_sumVars => (~(focus = "container"))'
  BY DEF SumNext, sumVars
<1>4. (focus = "container" => /\ Container!TypeOK /\ Container!LastSuccessStands
                              /\ Container!ChangesAreAudited) => ContainerFollows
  BY DEF ContainerFollows
<1>5. Container!Spec => [](/\ Container!TypeOK /\ Container!LastSuccessStands
                           /\ Container!ChangesAreAudited)
  BY ContainerHolds, PTL
<1> QED
  BY <1>1, <1>2, <1>3, <1>4, <1>5, PTL DEF SumSpec, Container!Spec

-----------------------------------------------------------------------------
\* The bounds are numbers, an upload has a part, and no upload is the file that
\* was there at first or none.
FilesBounded ==
  /\ Parts \in Nat \ {0} /\ MaxMoves \in Nat /\ MaxCuts \in Nat
  /\ NoFile \notin File!Files /\ File!Old \notin Requests

\* A file exists from the first Create of its upload on, at a path without one.
Born(f) == f = File!Old \/ (f \in Requests /\ pc[f] # "new" /\ open[f] = f)

\* A path names what exists, an upload writes what exists, and what it does not
\* write alone it has emptied under another.  What nobody removed has a name.
Opened ==
  /\ \A p \in Paths : at[p] # NoFile => Born(at[p])
  /\ \A u \in Requests : pc[u] = "new" => written[u] = 0
  /\ \A u \in Requests : pc[u] = "copy" =>
       Born(open[u]) /\ (open[u] = u \/ open[u] \in given)
  /\ \A u \in Requests : Born(u) /\ u \notin given => \E p \in Paths : at[p] = u

\* A file no error was answered for has at most one writer, and the parts that
\* one has written so far, or else all parts of one upload.
Begun(u) == [i \in 1..Parts |-> IF i <= written[u] THEN u ELSE NoFile]
WholeFile(f) ==
  \/ \E u \in Requests : content[f] = File!Whole(u)
  \/ content[f] = [i \in 1..Parts |-> File!Old]
Held ==
  /\ \A u \in Requests : pc[u] = "copy" /\ open[u] \notin told =>
       /\ content[open[u]] = Begun(u)
       /\ \A v \in Requests : pc[v] = "copy" /\ open[v] = open[u] => v = u
  /\ \A f \in File!Files \ told : Born(f) =>
       WholeFile(f) \/ \E u \in Requests : pc[u] = "copy" /\ open[u] = f

\* What was answered and left alone has what was uploaded.
Answered ==
  \A u \in Requests :
    pc[u] = "done" /\ open[u] = u /\ u \notin told \union given
      => content[u] = File!Whole(u)

FilesInv == File!TypeOK /\ Opened /\ Held /\ Answered

\* The types of what the steps of an upload write.
LEMMA FilesTypeStep ==
  ASSUME FilesBounded, File!TypeOK, Opened, [File!Next]_File!vars
  PROVE  File!TypeOK'
<1> USE DEF FilesBounded, File!TypeOK, File!Files, File!Cut, File!Move, File!Audit, File!upload
<1>1. ASSUME NEW u \in Requests, NEW p \in Paths, File!Create(u, p) PROVE File!TypeOK'
  BY <1>1 DEF File!Create, File!Blank
<1>2. ASSUME NEW u \in Requests, File!Write(u) PROVE File!TypeOK'
  <2>1. /\ open[u] \in File!Files /\ written[u] + 1 \in 1..Parts
        /\ written[u] + 1 \in 0..Parts
    BY <1>2 DEF File!Write, Opened, Born
  <2>2. content' \in [File!Files -> [1..Parts -> File!Files \union {NoFile}]]
    BY <1>2, <2>1 DEF File!Write
  <2> QED
    BY <1>2, <2>1, <2>2 DEF File!Write
<1>3. ASSUME NEW u \in Requests, File!UploadFails(u) PROVE File!TypeOK'
  BY <1>3 DEF File!UploadFails, Opened, Born
<1>4. ASSUME NEW u \in Requests, File!Uploaded(u) PROVE File!TypeOK'
  BY <1>4 DEF File!Uploaded
<1>5. ASSUME NEW p \in Paths, File!Remove(p) PROVE File!TypeOK'
  BY <1>5 DEF File!Remove
<1>7. ASSUME NEW p \in Paths, NEW q \in Paths, File!Rename(p, q) PROVE File!TypeOK'
  BY <1>7 DEF File!Rename
<1>6. CASE UNCHANGED File!vars
  BY <1>6 DEF File!vars
<1> QED
  BY <1>1, <1>2, <1>3, <1>4, <1>5, <1>6, <1>7 DEF File!Next

\* Every step keeps Opened.
LEMMA OpenedStep ==
  ASSUME FilesBounded, File!TypeOK, Opened, [File!Next]_File!vars
  PROVE  Opened'
<1> USE DEF FilesBounded, File!TypeOK, File!Files, Opened, Born, File!upload
<1>1. ASSUME NEW u \in Requests, NEW p \in Paths, File!Create(u, p) PROVE Opened'
  <2>0. PICK f \in File!Files : f = IF at[p] = NoFile THEN u ELSE at[p]
    OBVIOUS
  <2>1. /\ pc[u] = "new" /\ pc' = [pc EXCEPT ![u] = "copy"]
        /\ open' = [open EXCEPT ![u] = f] /\ at' = [at EXCEPT ![p] = f]
        /\ given' = IF f = u THEN given ELSE given \union {f}
        /\ written' = written
    BY <1>1, <2>0 DEF File!Create
  <2>2. at[p] # u /\ (f = u <=> at[p] = NoFile) /\ f \in File!Files
    BY <2>0, <2>1
  <2>3. \A g \in File!Files : Born(g) => Born(g)'
    BY <2>1
  <2>4. Born(f)'
    <3>1. CASE f = u
      BY <2>1, <3>1
    <3>2. CASE f # u
      <4>1. Born(f)
        BY <2>0, <2>2, <3>2 DEF Born
      <4> QED
        BY <2>3, <4>1
    <3> QED
      BY <3>1, <3>2
  <2>5. \A g \in File!Files : Born(g)' => Born(g) \/ g = f
    BY <2>1, <2>2
  <2> HIDE DEF Born
  <2>6. ASSUME NEW q \in Paths, at'[q] # NoFile PROVE Born(at[q])'
    <3>1. CASE q = p
      BY <2>1, <2>4, <3>1
    <3>2. CASE q # p
      <4>1. at'[q] = at[q] /\ at[q] \in File!Files /\ Born(at[q])
        BY <2>1, <2>6, <3>2
      <4> QED
        BY <2>3, <4>1
    <3> QED
      BY <3>1, <3>2
  <2>7. ASSUME NEW v \in Requests, pc'[v] = "copy"
        PROVE  Born(open[v])' /\ (open'[v] = v \/ open'[v] \in given')
    <3>1. CASE v = u
      BY <2>1, <2>4, <3>1
    <3>2. CASE v # u
      <4>1. open'[v] = open[v] /\ Born(open[v]) /\ (open[v] = v \/ open[v] \in given)
        BY <2>1, <2>7, <3>2
      <4>2. open[v] \in File!Files
        BY <4>1 DEF Born
      <4> QED
        BY <2>1, <2>3, <4>1, <4>2
    <3> QED
      BY <3>1, <3>2
  <2>8. \A v \in Requests : Born(v)' /\ v \notin given' => \E q \in Paths : at'[q] = v
    <3> SUFFICES ASSUME NEW v \in Requests, Born(v)', v \notin given'
                 PROVE  \E q \in Paths : at'[q] = v
      OBVIOUS
    <3>1. CASE v = f
      BY <2>1, <3>1
    <3>2. CASE v # f
      <4>1. Born(v) /\ v \notin given
        BY <2>1, <2>5, <3>2
      <4>2. PICK q \in Paths : at[q] = v
        BY <4>1
      <4>3. q # p
        BY <2>0, <2>2, <3>2, <4>2
      <4> QED
        BY <2>1, <4>2, <4>3
    <3> QED
      BY <3>1, <3>2
  <2>9. \A v \in Requests : pc'[v] = "new" => written'[v] = 0
    BY <2>1
  <2> QED
    BY <2>1, <2>6, <2>7, <2>8, <2>9
<1>2. ASSUME NEW u \in Requests, File!Write(u) PROVE Opened'
  BY <1>2 DEF File!Write
<1>3. ASSUME NEW u \in Requests, File!UploadFails(u) \/ File!Uploaded(u) PROVE Opened'
  <2>1. /\ pc[u] = "copy" /\ pc' \in {[pc EXCEPT ![u] = "done"], [pc EXCEPT ![u] = "failed"]}
        /\ UNCHANGED <<at, open, written, given>>
    BY <1>3 DEF File!UploadFails, File!Uploaded, File!Copied
  <2>2. \A g : Born(g)' <=> Born(g)
    BY <2>1
  <2>3. \A v \in Requests : pc'[v] \in {"new", "copy"} => pc[v] = pc'[v]
    BY <2>1
  <2> HIDE DEF Born
  <2> QED
    BY <2>1, <2>2, <2>3
<1>4. ASSUME NEW p \in Paths, File!Remove(p) PROVE Opened'
  BY <1>4 DEF File!Remove
<1>5. ASSUME NEW p \in Paths, NEW q \in Paths, File!Rename(p, q) PROVE Opened'
  <2>1. /\ at[p] # NoFile /\ at[q] = NoFile /\ p # q
        /\ at' = [at EXCEPT ![p] = NoFile, ![q] = at[p]]
        /\ UNCHANGED <<pc, open, written, given>>
    BY <1>5 DEF File!Rename
  <2>2. at'[q] = at[p] /\ at'[p] = NoFile /\ \A t \in Paths \ {p, q} : at'[t] = at[t]
    BY <2>1
  <2>3. \A g : Born(g)' <=> Born(g)
    BY <2>1
  <2>4. \A v \in Requests : (\E t \in Paths : at[t] = v) => \E t \in Paths : at'[t] = v
    BY <2>1, <2>2
  <2> HIDE DEF Born
  <2>5. \A t \in Paths : at'[t] # NoFile => Born(at[t])'
    BY <2>1, <2>2, <2>3
  <2> QED
    BY <2>1, <2>3, <2>4, <2>5
<1>6. CASE UNCHANGED File!vars
  BY <1>6 DEF File!vars
<1> QED
  BY <1>1, <1>2, <1>3, <1>4, <1>5, <1>6 DEF File!Next

\* A writer of a file that is not disturbed continues what it has begun.
LEMMA HeldStep ==
  ASSUME FilesBounded, FilesInv, [File!Next]_File!vars
  PROVE  Held' /\ Answered'
<1> USE DEF FilesBounded, File!TypeOK, File!Files, FilesInv, File!upload
<1>1. ASSUME NEW u \in Requests, NEW p \in Paths, File!Create(u, p)
      PROVE  Held' /\ Answered'
  <2>0. PICK f \in File!Files : f = IF at[p] = NoFile THEN u ELSE at[p]
    OBVIOUS
  <2>1. /\ pc[u] = "new" /\ pc' = [pc EXCEPT ![u] = "copy"] /\ written[u] = 0
        /\ open' = [open EXCEPT ![u] = f]
        /\ content' = [content EXCEPT ![f] = File!Blank]
        /\ told' = IF File!Writing(f) = {} THEN told ELSE told \union {f}
        /\ given' = IF f = u THEN given ELSE given \union {f}
        /\ UNCHANGED <<written, parts>> /\ f \in File!Files
    BY <1>1, <2>0 DEF File!Create, Opened
  <2>2. Begun(u)' = File!Blank
    BY <2>1 DEF Begun, File!Blank
  <2>3. \A v \in Requests : Begun(v)' = Begun(v) /\ File!Whole(v)' = File!Whole(v)
    BY <2>1 DEF Begun, File!Whole
  <2>4. ASSUME f \notin told', NEW v \in Requests, pc[v] = "copy" PROVE open[v] # f
    BY <2>1, <2>4 DEF File!Writing
  <2>5. ASSUME NEW v \in Requests, pc'[v] = "copy", open'[v] \notin told'
        PROVE  /\ content'[open'[v]] = Begun(v)'
               /\ \A w \in Requests : pc'[w] = "copy" /\ open'[w] = open'[v] => w = v
    <3>1. CASE v = u
      BY <2>1, <2>2, <2>4, <2>5, <3>1
    <3>2. CASE v # u
      <4>1. pc[v] = "copy" /\ open'[v] = open[v] /\ open[v] \notin told /\ open[v] # f
        BY <2>1, <2>4, <2>5, <3>2
      <4>2. content'[open[v]] = content[open[v]]
        BY <2>1, <4>1 DEF Opened, Born
      <4> QED
        BY <2>1, <2>3, <4>1, <4>2 DEF Held
    <3> QED
      BY <3>1, <3>2
  <2>6. ASSUME NEW g \in File!Files, g \notin told', Born(g)'
        PROVE  WholeFile(g)' \/ \E v \in Requests : pc'[v] = "copy" /\ open'[v] = g
    <3>1. CASE g = f
      BY <2>1, <3>1
    <3>2. CASE g # f
      <4>1. Born(g) /\ g \notin told /\ content'[g] = content[g]
        BY <2>1, <2>6, <3>2 DEF Born
      <4>2. WholeFile(g) => WholeFile(g)'
        BY <2>3, <4>1 DEF WholeFile
      <4>3. \A v \in Requests : pc[v] = "copy" => pc'[v] = "copy" /\ open'[v] = open[v]
        BY <2>1
      <4> QED
        BY <4>1, <4>2, <4>3 DEF Held
    <3> QED
      BY <3>1, <3>2
  <2>7. Held'
    BY <2>5, <2>6 DEF Held
  <2>8. Answered'
    BY <2>1, <2>3 DEF Answered
  <2> QED
    BY <2>7, <2>8
<1>2. ASSUME NEW u \in Requests, File!Write(u) PROVE Held' /\ Answered'
  <2>1. /\ pc[u] = "copy" /\ open[u] \in File!Files
        /\ written' = [written EXCEPT ![u] = written[u] + 1]
        /\ content' = [content EXCEPT ![open[u]] =
                         [content[open[u]] EXCEPT ![written[u] + 1] = u]]
        /\ UNCHANGED <<pc, open, told, given, parts>>
    BY <1>2 DEF File!Write, Opened, Born
  <2>2. ASSUME content[open[u]] = Begun(u) PROVE content'[open[u]] = Begun(u)'
    <3>1. content'[open[u]] = [Begun(u) EXCEPT ![written[u] + 1] = u]
      BY <2>1, <2>2
    <3>2. written'[u] = written[u] + 1 /\ written[u] \in Nat
      BY <2>1
    <3>3. \A i \in 1..Parts : [Begun(u) EXCEPT ![written[u] + 1] = u][i]
                                = IF i <= written[u] + 1 THEN u ELSE NoFile
      BY <3>2 DEF Begun
    <3>4. [Begun(u) EXCEPT ![written[u] + 1] = u]
            = [i \in 1..Parts |-> [Begun(u) EXCEPT ![written[u] + 1] = u][i]]
      BY DEF Begun
    <3>5. Begun(u)' = [i \in 1..Parts |-> IF i <= written[u] + 1 THEN u ELSE NoFile]
      BY <3>2 DEF Begun
    <3> QED
      BY <3>1, <3>3, <3>4, <3>5
  <2>3. \A v \in Requests \ {u} : Begun(v)' = Begun(v)
    BY <2>1 DEF Begun
  <2>4. \A v \in Requests : File!Whole(v)' = File!Whole(v)
    BY <2>1 DEF File!Whole
  <2>5. ASSUME NEW v \in Requests, pc[v] = "copy", open[v] \notin told
        PROVE  /\ content'[open[v]] = Begun(v)'
               /\ \A w \in Requests : pc[w] = "copy" /\ open[w] = open[v] => w = v
    <3>1. \A w \in Requests : pc[w] = "copy" /\ open[w] = open[v] => w = v
      BY <2>5 DEF Held
    <3>2. content[open[v]] = Begun(v)
      BY <2>5 DEF Held
    <3>3. CASE v = u
      BY <2>2, <3>1, <3>2, <3>3
    <3>4. CASE v # u
      <4>1. open[v] # open[u]
        BY <2>1, <3>1, <3>4
      <4> QED
        BY <2>1, <2>3, <3>1, <3>2, <3>4, <4>1
    <3> QED
      BY <3>3, <3>4
  <2>6. ASSUME NEW g \in File!Files, g \notin told, Born(g)
        PROVE  WholeFile(g)' \/ \E v \in Requests : pc[v] = "copy" /\ open[v] = g
    <3>1. CASE g = open[u]
      BY <2>1, <3>1
    <3>2. CASE g # open[u]
      <4>1. content'[g] = content[g]
        BY <2>1, <3>2
      <4>2. WholeFile(g) => WholeFile(g)'
        BY <2>4, <4>1 DEF WholeFile
      <4> QED
        BY <2>6, <4>2 DEF Held
    <3> QED
      BY <3>1, <3>2
  <2>7. Held'
    <3>1. \A g \in File!Files : Born(g)' <=> Born(g)
      BY <2>1 DEF Born
    <3> QED
      BY <2>1, <2>5, <2>6, <3>1 DEF Held
  <2>8. ASSUME NEW v \in Requests, pc[v] = "done", open[v] = v, v \notin told \union given
        PROVE  content'[v] = File!Whole(v)'
    <3>1. open[u] # v
      BY <2>1, <2>8 DEF Opened
    <3> QED
      BY <2>1, <2>4, <2>8, <3>1 DEF Answered
  <2>9. Answered'
    BY <2>1, <2>8 DEF Answered
  <2> QED
    BY <2>7, <2>9
<1>3. ASSUME NEW u \in Requests, File!UploadFails(u) PROVE Held' /\ Answered'
  <2>1. /\ pc[u] = "copy" /\ pc' = [pc EXCEPT ![u] = "failed"]
        /\ told' = told \union {open[u]}
        /\ UNCHANGED <<content, parts, open, written, given>>
    BY <1>3 DEF File!UploadFails
  <2>2. \A v \in Requests : Begun(v)' = Begun(v) /\ File!Whole(v)' = File!Whole(v)
    BY <2>1 DEF Begun, File!Whole
  <2>3. \A g \in File!Files : /\ Born(g)' <=> Born(g)
                              /\ WholeFile(g)' <=> WholeFile(g)
    BY <2>1, <2>2 DEF Born, WholeFile
  <2> QED
    BY <2>1, <2>2, <2>3 DEF Held, Answered
<1>4. ASSUME NEW u \in Requests, File!Uploaded(u) PROVE Held' /\ Answered'
  <2>1. /\ pc[u] = "copy" /\ pc' = [pc EXCEPT ![u] = "done"] /\ written[u] = parts[u]
        /\ UNCHANGED <<content, parts, open, written, told, given>>
    BY <1>4 DEF File!Uploaded, File!Copied
  <2>2. \A v \in Requests : Begun(v)' = Begun(v) /\ File!Whole(v)' = File!Whole(v)
    BY <2>1 DEF Begun, File!Whole
  <2>3. \A g \in File!Files : /\ Born(g)' <=> Born(g)
                              /\ WholeFile(g)' <=> WholeFile(g)
    BY <2>1, <2>2 DEF Born, WholeFile
  <2>4. open[u] \notin told => content[open[u]] = File!Whole(u)
    BY <2>1 DEF Held, Begun, File!Whole
  <2>5. Held'
    <3>1. ASSUME NEW g \in File!Files, g \notin told, Born(g)
          PROVE  WholeFile(g) \/ \E v \in Requests : pc'[v] = "copy" /\ open[v] = g
      <4>1. CASE g = open[u]
        BY <2>4, <3>1, <4>1 DEF WholeFile
      <4>2. CASE g # open[u]
        BY <2>1, <3>1, <4>2 DEF Held
      <4> QED
        BY <4>1, <4>2
    <3> QED
      BY <2>1, <2>2, <2>3, <3>1 DEF Held
  <2>6. Answered'
    BY <2>1, <2>2, <2>4 DEF Answered
  <2> QED
    BY <2>5, <2>6
<1>5. ASSUME UNCHANGED <<content, File!upload, told>>, given \subseteq given'
      PROVE  Held' /\ Answered'
  <2>1. \A v \in Requests : Begun(v)' = Begun(v) /\ File!Whole(v)' = File!Whole(v)
    BY <1>5 DEF Begun, File!Whole
  <2>2. \A g \in File!Files : /\ Born(g)' <=> Born(g)
                              /\ WholeFile(g)' <=> WholeFile(g)
    BY <1>5, <2>1 DEF Born, WholeFile
  <2> QED
    BY <1>5, <2>1, <2>2 DEF Held, Answered
<1>6. ASSUME NEW p \in Paths, File!Remove(p) \/ \E q \in Paths : File!Rename(p, q)
      PROVE  Held' /\ Answered'
  BY <1>5, <1>6 DEF File!Remove, File!Rename
<1>7. CASE UNCHANGED File!vars
  BY <1>5, <1>7 DEF File!vars
<1> QED
  BY <1>1, <1>2, <1>3, <1>4, <1>6, <1>7 DEF File!Next

\* A file nobody writes is one upload as it was sent, and an upload that was
\* answered is kept until it is removed, whatever uploads, renames and removals
\* overlap.
THEOREM FilesHold ==
  ASSUME FilesBounded
  PROVE  File!Spec => [](File!TypeOK /\ File!QuietFileIsWhole /\ File!AnsweredIsKept)
<1>1. File!Init => FilesInv
  <2> SUFFICES ASSUME File!Init PROVE FilesInv
    OBVIOUS
  <2>1. File!TypeOK
    BY DEF File!Init, File!TypeOK, FilesBounded, File!Files
  <2>2. \A f \in File!Files : Born(f) => f = File!Old
    BY DEF File!Init, Born
  <2>3. Opened
    <3>1. \A u \in Requests : ~Born(u)
      BY DEF File!Init, Born, FilesBounded
    <3>2. \A p \in Paths : at[p] \in {File!Old, NoFile}
      BY DEF File!Init
    <3>3. Born(File!Old)
      BY DEF Born
    <3> QED
      BY <3>1, <3>2, <3>3 DEF File!Init, Opened
  <2>4. content[File!Old] = [i \in 1..Parts |-> File!Old]
    BY DEF File!Init, File!Files
  <2> QED
    BY <2>1, <2>2, <2>3, <2>4 DEF File!Init, FilesInv, Held, Answered, WholeFile
<1>2. FilesInv /\ [File!Next]_File!vars => FilesInv'
  BY FilesTypeStep, OpenedStep, HeldStep DEF FilesInv
<1>3. FilesInv => File!TypeOK /\ File!QuietFileIsWhole /\ File!AnsweredIsKept
  <2> SUFFICES ASSUME FilesInv PROVE File!QuietFileIsWhole /\ File!AnsweredIsKept
    BY DEF FilesInv
  <2> USE DEF FilesInv, File!Named, FilesBounded
  <2>1. \A p \in Paths : at[p] # NoFile => at[p] \in File!Files /\ Born(at[p])
    BY DEF Opened, File!TypeOK
  <2>2. File!QuietFileIsWhole
    BY <2>1 DEF File!QuietFileIsWhole, Held, WholeFile, File!Writing
  <2>3. File!AnsweredIsKept
    BY DEF File!AnsweredIsKept, Answered, Opened, Born, File!Files
  <2> QED
    BY <2>2, <2>3
<1> QED
  BY <1>1, <1>2, <1>3, PTL DEF File!Spec

\* The same of what the runs check.
THEOREM FilesHoldThroughout == ASSUME FilesBounded PROVE SumSpec => []FilesAreWhole
<1>1. SumInit /\ focus = "files" => File!Init
  BY DEF SumInit
<1>2. focus = "files" /\ [SumNext]_sumVars
        => [File!Next]_File!vars /\ (focus = "files")'
  BY DEF SumNext, accountOnly, knownOnly, keyOnly, tunnelOnly, fleetOnly, remoteOnly,
         commandOnly, containerOnly, serverOnly, filesOnly, sumVars, File!upload,
         File!vars
<1>3. ~(focus = "files") /\ [SumNext]_sumVars => (~(focus = "files"))'
  BY DEF SumNext, sumVars
<1>4. (focus = "files" => File!TypeOK /\ File!QuietFileIsWhole /\ File!AnsweredIsKept)
        => FilesAreWhole
  BY DEF FilesAreWhole
<1>5. File!Spec => [](File!TypeOK /\ File!QuietFileIsWhole /\ File!AnsweredIsKept)
  BY FilesHold, PTL
<1> QED
  BY <1>1, <1>2, <1>3, <1>4, <1>5, PTL DEF SumSpec, File!Spec

-----------------------------------------------------------------------------
\* The bound is a number, and what is not a server is no id and no row.
RegistryBounded ==
  /\ MaxTroubles \in Nat /\ NoFile \notin Registered
  /\ NoFile \notin Registry!Columns /\ "none" \notin Requests

\* Types of what a request has read, and what it may be doing where it stands.
Fields == {"name", "password", "system"}
Requested ==
  /\ id \in [Requests -> Registered \union {NoFile}]
  /\ copy \in [Requests -> Registry!Columns \union {NoFile}]
  /\ op \in [Requests -> Fields \union {"none", "put", "create", "update", "delete"}]
  /\ \A h \in Requests :
       /\ pc[h] = "read" => op[h] \in Fields \union {"put", "delete"}
       /\ pc[h] = "edited" => op[h] \in Fields \union {"put"}
       /\ pc[h] = "audit" => op[h] \in {"create", "update", "delete"}

\* A server that is there is meant to be; of one not created yet nobody knows.
Unborn ==
  /\ \A s \in Registered : Registry!Exists(s) <=> meant[s] # NoFile
  /\ \A s \in unborn : /\ ~Registry!Exists(s) /\ seen[s] = "unknown"
                       /\ audits[s].create = 0 /\ audits[s].delete = 0
                       /\ \A h \in Requests : id[h] # s

\* A copy nobody wrote behind is the row, but for the columns of its own body.
Copied ==
  \A h \in Requests : pc[h] \in {"read", "edited"} /\ fresh[h] =>
    /\ Registry!Exists(id[h])
    /\ \A f \in Fields :
         copy[h][f] = row[id[h]][f] \/ (pc[h] = "edited" /\ op[h] \in {"put", f})

\* Of a creation or deletion that waits for its event nothing was told yet, and
\* one request alone waits with it.
Announcing ==
  \A h \in Requests : pc[h] = "audit" /\ op[h] # "update" =>
    /\ audits[id[h]][op[h]] = 0
    /\ op[h] = "delete" => ~Registry!Exists(id[h])
    /\ \A g \in Requests :
         pc[g] = "audit" /\ op[g] = op[h] /\ id[g] = id[h] => g = h

RegistryInv ==
  /\ Registry!TypeOK /\ Requested /\ Unborn
  /\ Registry!StatusIsMonitored /\ Copied /\ Registry!EditsStand
  /\ Announcing /\ Registry!ToldOnce

\* The columns of a row.
LEMMA ColumnsOf ==
  ASSUME NEW r \in Registry!Columns
  PROVE  /\ r.name \in Names /\ r.password \in BOOLEAN /\ r.system \in BOOLEAN
         /\ r.status \in Registry!Statuses
         /\ r = [name |-> r.name, password |-> r.password, system |-> r.system,
                 status |-> r.status]
BY DEF Registry!Columns

\* A row with one column of another row.
LEMMA ColumnTaken ==
  ASSUME NEW r \in Registry!Columns, NEW t \in Registry!Columns, NEW f \in Fields \union {"status"}
  PROVE  /\ [r EXCEPT ![f] = t[f]] \in Registry!Columns
         /\ \A g \in (Fields \union {"status"}) \ {f} : [r EXCEPT ![f] = t[f]][g] = r[g]
         /\ [r EXCEPT ![f] = t[f]][f] = t[f]
<1>1. CASE f = "name"
  BY <1>1 DEF Registry!Columns, Fields
<1>2. CASE f = "password"
  BY <1>2 DEF Registry!Columns, Fields
<1>3. CASE f = "system"
  BY <1>3 DEF Registry!Columns, Fields
<1>4. CASE f = "status"
  BY <1>4 DEF Registry!Columns, Fields
<1> QED
  BY <1>1, <1>2, <1>3, <1>4 DEF Fields

\* A row with another status, or detected: its other columns are the same.
LEMMA ColumnSet ==
  ASSUME NEW r \in Registry!Columns, NEW x \in Registry!Statuses
  PROVE  /\ [r EXCEPT !.status = x] \in Registry!Columns
         /\ [r EXCEPT !.status = x].status = x
         /\ \A f \in Fields : [r EXCEPT !.status = x][f] = r[f]
         /\ [r EXCEPT !.system = TRUE] \in Registry!Columns
         /\ [r EXCEPT !.system = TRUE].status = r.status
         /\ [r EXCEPT !.system = TRUE].system = TRUE
         /\ \A f \in Fields \ {"system"} : [r EXCEPT !.system = TRUE][f] = r[f]
BY DEF Registry!Columns, Fields

\* What the monitoring does to a row.
LEMMA StatusEffect ==
  ASSUME RegistryBounded, Registry!TypeOK, NEW s \in Registered, NEW x \in Registry!Statuses,
         Registry!SetStatus(s, x)
  PROVE  \E r \in Registry!Columns :
           /\ Registry!Exists(s) /\ row' = [row EXCEPT ![s] = r]
           /\ r.status = x /\ \A f \in Fields : r[f] = row[s][f]
           /\ seen' = [seen EXCEPT ![s] = x]
           /\ UNCHANGED <<unborn, pc, op, id, copy, fresh, audits, meant, blurred, troubles>>
<1> DEFINE r == [row[s] EXCEPT !.status = x]
<1>1. row[s] \in Registry!Columns
  BY DEF Registry!SetStatus, Registry!Exists, Registry!TypeOK
<1>2. row' = [row EXCEPT ![s] = r]
  BY DEF Registry!SetStatus
<1>3. r \in Registry!Columns /\ r.status = x /\ \A f \in Fields : r[f] = row[s][f]
  BY <1>1, ColumnSet
<1>4. /\ Registry!Exists(s) /\ seen' = [seen EXCEPT ![s] = x]
      /\ UNCHANGED <<unborn, pc, op, id, copy, fresh, audits, meant, blurred, troubles>>
  BY DEF Registry!SetStatus, Registry!handler
<1> HIDE DEF r
<1> QED
  BY <1>2, <1>3, <1>4

LEMMA SystemEffect ==
  ASSUME RegistryBounded, Registry!TypeOK, Unborn, NEW s \in Registered,
         Registry!UpdateSystemInfo(s)
  PROVE  \E r, m \in Registry!Columns :
           /\ Registry!Exists(s) /\ row' = [row EXCEPT ![s] = r]
           /\ meant' = [meant EXCEPT ![s] = m]
           /\ r.status = row[s].status /\ r.system = m.system
           /\ \A f \in Fields \ {"system"} : r[f] = row[s][f] /\ m[f] = meant[s][f]
           /\ fresh' \in [Requests -> BOOLEAN]
           /\ \A h \in Requests : fresh'[h] = (fresh[h] /\ id[h] # s)
           /\ UNCHANGED <<unborn, pc, op, id, copy, audits, seen, blurred, troubles>>
<1>1. row[s] \in Registry!Columns /\ meant[s] \in Registry!Columns /\ Registry!Exists(s)
  BY DEF Registry!UpdateSystemInfo, Registry!Exists, Registry!TypeOK, Unborn
<1>2. /\ row' = [row EXCEPT ![s] = [row[s] EXCEPT !.system = TRUE]]
      /\ meant' = [meant EXCEPT ![s] = [meant[s] EXCEPT !.system = TRUE]]
      /\ UNCHANGED <<unborn, pc, op, id, copy, audits, seen, blurred, troubles>>
  BY DEF Registry!UpdateSystemInfo
<1>3. fresh' = [h \in Requests |-> IF h = "none" THEN TRUE ELSE fresh[h] /\ id[h] # s]
  BY DEF Registry!UpdateSystemInfo, Registry!Stale
<1>4. \A h \in Requests : fresh'[h] = (fresh[h] /\ id[h] # s)
  BY <1>3, Zenon DEF RegistryBounded
<1>5. fresh' \in [Requests -> BOOLEAN]
  BY <1>3 DEF Registry!TypeOK
<1>6. /\ [row[s] EXCEPT !.system = TRUE] \in Registry!Columns
      /\ [row[s] EXCEPT !.system = TRUE].status = row[s].status
      /\ [row[s] EXCEPT !.system = TRUE].system = TRUE
      /\ \A f \in Fields \ {"system"} : [row[s] EXCEPT !.system = TRUE][f] = row[s][f]
  BY <1>1, ColumnSet DEF Registry!Statuses
<1>7. /\ [meant[s] EXCEPT !.system = TRUE] \in Registry!Columns
      /\ [meant[s] EXCEPT !.system = TRUE].system = TRUE
      /\ \A f \in Fields \ {"system"} : [meant[s] EXCEPT !.system = TRUE][f] = meant[s][f]
  BY <1>1, ColumnSet DEF Registry!Statuses
<1> DEFINE r == [row[s] EXCEPT !.system = TRUE]
           m == [meant[s] EXCEPT !.system = TRUE]
<1>8. r \in Registry!Columns /\ m \in Registry!Columns
  BY <1>6, <1>7
<1>9. /\ row' = [row EXCEPT ![s] = r] /\ meant' = [meant EXCEPT ![s] = m]
      /\ r.status = row[s].status /\ r.system = m.system
      /\ \A f \in Fields \ {"system"} : r[f] = row[s][f] /\ m[f] = meant[s][f]
  BY <1>2, <1>6, <1>7
<1> HIDE DEF r, m
<1> QED
  BY <1>1, <1>2, <1>4, <1>5, <1>8, <1>9

\* What a creation does, up to the committed row.
LEMMA CreateEffect ==
  ASSUME NEW h \in Requests, NEW s \in Registered, NEW body \in Registry!Editable,
         Registry!Create(h, s, body)
  PROVE  \E r \in Registry!Columns :
           /\ pc[h] = "idle" /\ s \in unborn /\ unborn' = unborn \ {s}
           /\ row' = [row EXCEPT ![s] = r] /\ meant' = [meant EXCEPT ![s] = r]
           /\ r.status = "unknown" /\ UNCHANGED <<fresh, audits, seen>>
           /\ \/ /\ pc' = [pc EXCEPT ![h] = "audit"] /\ op' = [op EXCEPT ![h] = "create"]
                 /\ id' = [id EXCEPT ![h] = s] /\ UNCHANGED <<copy, blurred, troubles>>
              \/ /\ Registry!Trouble /\ blurred' = blurred \union {s}
                 /\ UNCHANGED <<pc, op, id, copy>>
<1>1. Registry!ToServer(body).status = "unknown"
  BY DEF Registry!ToServer
<1> QED
  BY <1>1 DEF Registry!Create, Registry!Insert, Registry!Validate

\* What a body does to the copy.
LEMMA EditEffect ==
  ASSUME Registry!TypeOK, Requested, NEW h \in Requests, NEW body \in Registry!Editable,
         Registry!Put(h, body) \/ Registry!Patch(h, body)
  PROVE  \E r \in Registry!Columns :
           /\ pc[h] = "read" /\ pc' = [pc EXCEPT ![h] = "edited"]
           /\ copy' = [copy EXCEPT ![h] = r] /\ op[h] \in Fields \union {"put"}
           /\ op[h] \in Fields => \A f \in Fields \ {op[h]} : r[f] = copy[h][f]
           /\ UNCHANGED <<row, unborn, op, id, fresh, audits, meant, seen, blurred, troubles>>
<1>1. CASE Registry!Put(h, body)
  <2>1. PICK r \in Registry!Columns : Registry!Edit(h, r)
    BY <1>1 DEF Registry!Put, Registry!Edit, Registry!Validate
  <2>2. op[h] = "put"
    BY <1>1 DEF Registry!Put
  <2> QED
    BY <2>1, <2>2 DEF Registry!Edit, Registry!Goto, Registry!history, Fields
<1>2. CASE Registry!Patch(h, body)
  <2>1. PICK r \in Registry!Columns : Registry!Edit(h, r) /\ r = Registry!Apply(copy[h], op[h], body)
    BY <1>2 DEF Registry!Patch, Registry!Edit, Registry!Validate
  <2>2. op[h] \in Fields /\ pc[h] = "read"
    BY <1>2 DEF Registry!Patch, Registry!Edit, Registry!Goto, Fields
  <2>3. copy[h] \in Registry!Columns
    BY <2>2 DEF Registry!TypeOK, Requested
  <2>4. \A f \in Fields \ {op[h]} : r[f] = copy[h][f]
    <3>1. \A x, f : f # op[h] /\ f \in Fields /\ op[h] \in Fields
                      => [copy[h] EXCEPT ![op[h]] = x][f] = copy[h][f]
      BY <2>3 DEF Registry!Columns, Fields
    <3> QED
      BY <2>1, <2>2, <3>1 DEF Registry!Apply
  <2> QED
    BY <2>1, <2>2, <2>4 DEF Registry!Edit, Registry!Goto, Registry!history
<1> QED
  BY <1>1, <1>2

\* What the committed Update does: the columns of the copy, and the status
\* that was there.
LEMMA StoreEffect ==
  ASSUME RegistryBounded, Registry!TypeOK, Requested, Unborn, NEW h \in Requests,
         Registry!Store(h)
  PROVE  /\ pc[h] = "edited" /\ id[h] \in Registered /\ Registry!Exists(id[h])
         /\ op[h] \in Fields \union {"put"} /\ UNCHANGED <<unborn, audits, seen>>
         /\ \E r, m \in Registry!Columns :
              /\ row' = [row EXCEPT ![id[h]] = r] /\ meant' = [meant EXCEPT ![id[h]] = m]
              /\ r.status = row[id[h]].status /\ \A f \in Fields : r[f] = copy[h][f]
              /\ \A f \in Fields : m[f] = IF op[h] \in {"put", f} THEN copy[h][f]
                                          ELSE meant[id[h]][f]
         /\ fresh' \in [Requests -> BOOLEAN] /\ fresh'[h] = TRUE
         /\ \A g \in Requests \ {h} : fresh'[g] = (fresh[g] /\ id[g] # id[h])
         /\ \/ /\ pc' = [pc EXCEPT ![h] = "audit"] /\ op' = [op EXCEPT ![h] = "update"]
               /\ copy' = [copy EXCEPT ![h] = NoFile]
               /\ blurred' = IF fresh[h] THEN blurred ELSE blurred \union {id[h]}
               /\ UNCHANGED <<id, troubles>>
            \/ Registry!Trouble /\ Registry!Idle(h) /\ blurred' = blurred \union {id[h]}
<1> DEFINE s == id[h]
           named == IF op[h] = "put" THEN copy[h]
                    ELSE [meant[s] EXCEPT ![op[h]] = copy[h][op[h]]]
           r == [copy[h] EXCEPT !.status = row[s].status]
           m == [named EXCEPT !.status = "unknown"]
<1>1. /\ pc[h] = "edited" /\ Registry!Exists(s) /\ UNCHANGED <<unborn, audits, seen>>
      /\ row' = [row EXCEPT ![s] = r] /\ meant' = [meant EXCEPT ![s] = m]
      /\ \/ /\ pc' = [pc EXCEPT ![h] = "audit"] /\ op' = [op EXCEPT ![h] = "update"]
            /\ copy' = [copy EXCEPT ![h] = NoFile]
            /\ blurred' = IF fresh[h] THEN blurred ELSE blurred \union {s}
            /\ UNCHANGED <<id, troubles>>
         \/ Registry!Trouble /\ Registry!Idle(h) /\ blurred' = blurred \union {s}
  BY DEF Registry!Store, Registry!Update
<1>2. s \in Registered /\ op[h] \in Fields \union {"put"} /\ copy[h] \in Registry!Columns
  BY <1>1 DEF Registry!TypeOK, Requested
<1>3. row[s] \in Registry!Columns /\ meant[s] \in Registry!Columns
  BY <1>1, <1>2 DEF Registry!TypeOK, Unborn, Registry!Exists
<1>4. row[s].status \in Registry!Statuses
  BY <1>3, ColumnsOf
<1>5. /\ r \in Registry!Columns /\ r.status = row[s].status
      /\ \A f \in Fields : r[f] = copy[h][f]
  <2>1. \A c \in Registry!Columns, x \in Registry!Statuses :
          /\ [c EXCEPT !.status = x] \in Registry!Columns
          /\ [c EXCEPT !.status = x].status = x
          /\ \A f \in Fields : [c EXCEPT !.status = x][f] = c[f]
    BY ColumnSet
  <2> QED
    BY <1>2, <1>4, <2>1
<1>6. /\ named \in Registry!Columns
      /\ \A f \in Fields : named[f] = IF op[h] \in {"put", f} THEN copy[h][f] ELSE meant[s][f]
  <2>1. CASE op[h] = "put"
    BY <1>2, <2>1
  <2>2. CASE op[h] # "put"
    <3>1. op[h] \in Fields
      BY <1>2, <2>2
    <3>2. /\ [meant[s] EXCEPT ![op[h]] = copy[h][op[h]]] \in Registry!Columns
          /\ \A f \in Fields \ {op[h]} :
               [meant[s] EXCEPT ![op[h]] = copy[h][op[h]]][f] = meant[s][f]
          /\ [meant[s] EXCEPT ![op[h]] = copy[h][op[h]]][op[h]] = copy[h][op[h]]
      <4>1. PICK c \in Registry!Columns : c = meant[s]
        BY <1>3
      <4>2. PICK d \in Registry!Columns : d = copy[h]
        BY <1>2
      <4>3. PICK g \in Fields : g = op[h]
        BY <3>1
      <4>4. /\ [c EXCEPT ![g] = d[g]] \in Registry!Columns
            /\ \A f \in Fields \ {g} : [c EXCEPT ![g] = d[g]][f] = c[f]
            /\ [c EXCEPT ![g] = d[g]][g] = d[g]
        BY ColumnTaken
      <4> QED
        BY <4>1, <4>2, <4>3, <4>4
    <3> QED
      BY <2>2, <3>1, <3>2
  <2> QED
    BY <2>1, <2>2
<1> HIDE DEF named
<1>7. /\ m \in Registry!Columns /\ \A f \in Fields : m[f] = named[f]
  BY <1>6, ColumnSet DEF Registry!Statuses
<1>8. fresh' = [g \in Requests |-> IF g = h THEN TRUE ELSE fresh[g] /\ id[g] # s]
  BY DEF Registry!Store, Registry!Stale
<1>9. fresh' \in [Requests -> BOOLEAN]
  BY <1>8 DEF Registry!TypeOK
<1>10. fresh'[h] = TRUE /\ \A g \in Requests \ {h} : fresh'[g] = (fresh[g] /\ id[g] # s)
  BY <1>8, Zenon
<1>11. \A f \in Fields : m[f] = IF op[h] \in {"put", f} THEN copy[h][f] ELSE meant[s][f]
  BY <1>6, <1>7
<1> HIDE DEF r, m
<1> QED
  BY <1>1, <1>2, <1>5, <1>7, <1>9, <1>10, <1>11

\* What the event of a change does to the counts.
LEMMA AuditEffect ==
  ASSUME Registry!TypeOK, Requested, NEW h \in Requests, Registry!Audit(h)
  PROVE  /\ pc[h] = "audit" /\ id[h] \in Registered
         /\ Registry!Idle(h) /\ UNCHANGED <<row, unborn, fresh, meant, seen, blurred>>
         /\ \/ audits' = audits /\ (troubles' = troubles \/ Registry!Trouble)
            \/ /\ op[h] \in {"create", "delete"} /\ troubles' = troubles
               /\ \E a \in [create : Nat, delete : Nat] :
                    /\ audits' = [audits EXCEPT ![id[h]] = a]
                    /\ a[op[h]] = audits[id[h]][op[h]] + 1
                    /\ \A o \in {"create", "delete"} \ {op[h]} : a[o] = audits[id[h]][o]
<1>1. pc[h] = "audit" /\ id[h] \in Registered /\ op[h] \in {"create", "update", "delete"}
  BY DEF Registry!Audit, Registry!TypeOK, Requested
<1>2. Registry!Idle(h) /\ UNCHANGED <<row, unborn, fresh, meant, seen, blurred>>
  BY DEF Registry!Audit, Registry!history
<1>3. audits[id[h]] \in [create : Nat, delete : Nat]
  BY <1>1 DEF Registry!TypeOK
<1>4. CASE audits' = audits /\ (troubles' = troubles \/ Registry!Trouble)
  BY <1>1, <1>2, <1>4
<1>5. CASE /\ audits' = [audits EXCEPT ![id[h]][op[h]] = @ + 1]
           /\ op[h] # "update" /\ troubles' = troubles
  <2>1. CASE op[h] = "create"
    <3>1. audits' = [audits EXCEPT ![id[h]] = [audits[id[h]] EXCEPT !.create = audits[id[h]].create + 1]]
      BY <1>5, <2>1
    <3> DEFINE a == [audits[id[h]] EXCEPT !.create = audits[id[h]].create + 1]
    <3>2. a \in [create : Nat, delete : Nat] /\ a.create = audits[id[h]].create + 1
          /\ a.delete = audits[id[h]].delete
      BY <1>3
    <3> HIDE DEF a
    <3>3. audits' = [audits EXCEPT ![id[h]] = a]
      BY <3>1 DEF a
    <3> QED
      BY <1>1, <1>2, <1>5, <2>1, <3>2, <3>3
  <2>2. CASE op[h] = "delete"
    <3>1. audits' = [audits EXCEPT ![id[h]] = [audits[id[h]] EXCEPT !.delete = audits[id[h]].delete + 1]]
      BY <1>5, <2>2
    <3> DEFINE a == [audits[id[h]] EXCEPT !.delete = audits[id[h]].delete + 1]
    <3>2. a \in [create : Nat, delete : Nat] /\ a.delete = audits[id[h]].delete + 1
          /\ a.create = audits[id[h]].create
      BY <1>3
    <3> HIDE DEF a
    <3>3. audits' = [audits EXCEPT ![id[h]] = a]
      BY <3>1 DEF a
    <3> QED
      BY <1>1, <1>2, <1>5, <2>2, <3>2, <3>3
  <2> QED
    BY <1>1, <1>5, <2>1, <2>2
<1> QED
  BY <1>4, <1>5 DEF Registry!Audit

\* Every step keeps the types.
LEMMA RegistryTypeStep ==
  ASSUME RegistryBounded, Registry!TypeOK, Requested, Unborn, [Registry!Next]_Registry!vars
  PROVE  Registry!TypeOK' /\ Requested'
<1> USE DEF RegistryBounded, Registry!TypeOK, Requested, Registry!Trouble, Registry!Goto,
            Registry!Idle, Registry!handler, Registry!history, Fields
<1>1. ASSUME NEW s \in Registered, NEW x \in Registry!Statuses, Registry!SetStatus(s, x)
      PROVE  Registry!TypeOK' /\ Requested'
  <2>1. PICK r \in Registry!Columns :
           /\ row' = [row EXCEPT ![s] = r] /\ seen' = [seen EXCEPT ![s] = x]
           /\ UNCHANGED <<unborn, pc, op, id, copy, fresh, audits, meant, blurred, troubles>>
    BY <1>1, StatusEffect
  <2> QED
    BY <2>1
<1>2. ASSUME NEW s \in Registered, Registry!UpdateSystemInfo(s)
      PROVE  Registry!TypeOK' /\ Requested'
  <2>1. PICK r \in Registry!Columns, m \in Registry!Columns :
           /\ row' = [row EXCEPT ![s] = r] /\ meant' = [meant EXCEPT ![s] = m]
           /\ fresh' \in [Requests -> BOOLEAN]
           /\ UNCHANGED <<unborn, pc, op, id, copy, audits, seen, blurred, troubles>>
    BY <1>2, SystemEffect
  <2> QED
    BY <2>1
<1>3. ASSUME NEW h \in Requests, NEW s \in Registered, NEW body \in Registry!Editable,
             Registry!Create(h, s, body)
      PROVE  Registry!TypeOK' /\ Requested'
  <2>1. PICK r \in Registry!Columns :
           /\ pc[h] = "idle" /\ unborn' = unborn \ {s}
           /\ row' = [row EXCEPT ![s] = r] /\ meant' = [meant EXCEPT ![s] = r]
           /\ UNCHANGED <<fresh, audits, seen>>
           /\ \/ /\ pc' = [pc EXCEPT ![h] = "audit"] /\ op' = [op EXCEPT ![h] = "create"]
                 /\ id' = [id EXCEPT ![h] = s] /\ UNCHANGED <<copy, blurred, troubles>>
              \/ /\ Registry!Trouble /\ blurred' = blurred \union {s}
                 /\ UNCHANGED <<pc, op, id, copy>>
    BY <1>3, CreateEffect
  <2>2. CASE UNCHANGED <<pc, op, id, copy>>
    BY <2>1, <2>2
  <2>3. CASE /\ pc' = [pc EXCEPT ![h] = "audit"] /\ op' = [op EXCEPT ![h] = "create"]
             /\ id' = [id EXCEPT ![h] = s] /\ UNCHANGED <<copy, blurred, troubles>>
    BY <2>1, <2>3
  <2> QED
    BY <2>1, <2>2, <2>3
<1>4. ASSUME NEW h \in Requests, NEW s \in Registered,
             NEW o \in {"put", "name", "password", "system", "delete"}, Registry!Get(h, o, s)
      PROVE  Registry!TypeOK' /\ Requested'
  BY <1>4 DEF Registry!Get, Registry!Read, Registry!Exists
<1>5. ASSUME NEW h \in Requests, NEW body \in Registry!Editable,
             Registry!Put(h, body) \/ Registry!Patch(h, body)
      PROVE  Registry!TypeOK' /\ Requested'
  <2>1. PICK r \in Registry!Columns :
           /\ pc[h] = "read" /\ pc' = [pc EXCEPT ![h] = "edited"]
           /\ copy' = [copy EXCEPT ![h] = r] /\ op[h] \in Fields \union {"put"}
           /\ UNCHANGED <<row, unborn, op, id, fresh, audits, meant, seen, blurred, troubles>>
    BY <1>5, EditEffect
  <2> QED
    BY <2>1
<1>6. ASSUME NEW h \in Requests, Registry!Refuse(h) PROVE Registry!TypeOK' /\ Requested'
  BY <1>6 DEF Registry!Refuse
<1>7. ASSUME NEW h \in Requests, Registry!Store(h) PROVE Registry!TypeOK' /\ Requested'
  <2>1. /\ pc[h] = "edited" /\ id[h] \in Registered /\ UNCHANGED <<unborn, audits, seen>>
        /\ fresh' \in [Requests -> BOOLEAN]
        /\ \/ /\ pc' = [pc EXCEPT ![h] = "audit"] /\ op' = [op EXCEPT ![h] = "update"]
              /\ copy' = [copy EXCEPT ![h] = NoFile]
              /\ blurred' = IF fresh[h] THEN blurred ELSE blurred \union {id[h]}
              /\ UNCHANGED <<id, troubles>>
           \/ Registry!Trouble /\ Registry!Idle(h) /\ blurred' = blurred \union {id[h]}
    BY <1>7, StoreEffect
  <2>2. PICK r \in Registry!Columns, m \in Registry!Columns :
           /\ row' = [row EXCEPT ![id[h]] = r] /\ meant' = [meant EXCEPT ![id[h]] = m]
           /\ r.status = row[id[h]].status /\ \A f \in Fields : r[f] = copy[h][f]
           /\ \A f \in Fields : m[f] = IF op[h] \in {"put", f} THEN copy[h][f]
                                       ELSE meant[id[h]][f]
    <3> HIDE DEF Registry!TypeOK, Requested, Fields
    <3> QED
      BY <1>7, StoreEffect
  <2>3. row' \in [Registered -> Registry!Columns \union {NoFile}]
        /\ meant' \in [Registered -> Registry!Columns \union {NoFile}]
    BY <2>1, <2>2
  <2>4. CASE pc' = [pc EXCEPT ![h] = "audit"]
    BY <2>1, <2>3, <2>4
  <2>5. CASE Registry!Trouble /\ Registry!Idle(h)
    BY <2>1, <2>3, <2>5
  <2> QED
    BY <2>1, <2>4, <2>5
<1>8. ASSUME NEW h \in Requests, Registry!Delete(h) PROVE Registry!TypeOK' /\ Requested'
  <2>1. fresh' \in [Requests -> BOOLEAN]
    BY <1>8 DEF Registry!Delete, Registry!Stale
  <2> QED
    BY <1>8, <2>1 DEF Registry!Delete, Registry!Erase, Registry!Exists
<1>9. ASSUME NEW h \in Requests, Registry!Audit(h) PROVE Registry!TypeOK' /\ Requested'
  <2>1. /\ pc[h] = "audit" /\ Registry!Idle(h)
        /\ UNCHANGED <<row, unborn, fresh, meant, seen, blurred>>
        /\ troubles' = troubles \/ Registry!Trouble
    BY <1>9, AuditEffect
  <2>2. \/ audits' = audits
        \/ \E a \in [create : Nat, delete : Nat] : audits' = [audits EXCEPT ![id[h]] = a]
    BY <1>9, AuditEffect
  <2>3. audits' \in [Registered -> [create : Nat, delete : Nat]]
    BY <2>2
  <2> QED
    BY <2>1, <2>3
<1>10. ASSUME Registry!Restart PROVE Registry!TypeOK' /\ Requested'
  BY <1>10 DEF Registry!Restart
<1>11. CASE UNCHANGED Registry!vars
  BY <1>11 DEF Registry!vars
<1> QED
  BY <1>1, <1>2, <1>3, <1>4, <1>5, <1>6, <1>7, <1>8, <1>9, <1>10, <1>11 DEF Registry!Next

\* Every step keeps what is known of servers not created yet, and the status.
LEMMA UnbornStep ==
  ASSUME RegistryBounded, RegistryInv, [Registry!Next]_Registry!vars
  PROVE  Unborn' /\ Registry!StatusIsMonitored'
<1> USE DEF RegistryBounded, RegistryInv, Registry!TypeOK, Requested, Unborn,
            Registry!StatusIsMonitored, Registry!Exists, Registry!Goto, Registry!Idle,
            Registry!handler, Registry!history
<1>1. ASSUME NEW s \in Registered, NEW x \in Registry!Statuses, Registry!SetStatus(s, x)
      PROVE  Unborn' /\ Registry!StatusIsMonitored'
  <2>1. PICK r \in Registry!Columns :
           /\ row[s] # NoFile /\ row' = [row EXCEPT ![s] = r] /\ r.status = x
           /\ seen' = [seen EXCEPT ![s] = x]
           /\ UNCHANGED <<unborn, id, audits, meant>>
    BY <1>1, StatusEffect
  <2> QED
    BY <2>1
<1>2. ASSUME NEW s \in Registered, Registry!UpdateSystemInfo(s)
      PROVE  Unborn' /\ Registry!StatusIsMonitored'
  <2>1. PICK r \in Registry!Columns, m \in Registry!Columns :
           /\ row[s] # NoFile /\ row' = [row EXCEPT ![s] = r] /\ meant' = [meant EXCEPT ![s] = m]
           /\ r.status = row[s].status /\ UNCHANGED <<unborn, id, audits, seen>>
    BY <1>2, SystemEffect
  <2> QED
    BY <2>1
<1>3. ASSUME NEW h \in Requests, NEW s \in Registered, NEW body \in Registry!Editable,
             Registry!Create(h, s, body)
      PROVE  Unborn' /\ Registry!StatusIsMonitored'
  <2>1. PICK r \in Registry!Columns :
           /\ s \in unborn /\ unborn' = unborn \ {s}
           /\ row' = [row EXCEPT ![s] = r] /\ meant' = [meant EXCEPT ![s] = r]
           /\ r.status = "unknown" /\ UNCHANGED <<audits, seen>>
           /\ id' = [id EXCEPT ![h] = s] \/ id' = id
    <3> HIDE DEF RegistryInv, Registry!TypeOK, Requested, Unborn, Registry!StatusIsMonitored
    <3> QED
      BY <1>3, CreateEffect
  <2>2. seen[s] = "unknown" /\ r # NoFile
    BY <2>1
  <2>3. \A t \in Registered : row'[t] # NoFile <=> meant'[t] # NoFile
    BY <2>1, <2>2
  <2>4. \A t \in unborn' : /\ row'[t] = NoFile /\ seen'[t] = "unknown"
                           /\ audits'[t].create = 0 /\ audits'[t].delete = 0
                           /\ \A g \in Requests : id'[g] # t
    BY <2>1
  <2>5. \A t \in Registered : row'[t] # NoFile => row'[t].status = seen'[t]
    BY <2>1, <2>2
  <2> QED
    BY <2>3, <2>4, <2>5
<1>4. ASSUME UNCHANGED <<row, unborn, meant, seen, audits>>,
             \A g \in Requests : id'[g] = id[g] \/ id'[g] \notin unborn
      PROVE  Unborn' /\ Registry!StatusIsMonitored'
  BY <1>4
<1>5. ASSUME NEW h \in Requests, NEW s \in Registered,
             NEW o \in {"put", "name", "password", "system", "delete"}, Registry!Get(h, o, s)
      PROVE  Unborn' /\ Registry!StatusIsMonitored'
  BY <1>4, <1>5 DEF Registry!Get
<1>6. ASSUME NEW h \in Requests, NEW body \in Registry!Editable,
             Registry!Put(h, body) \/ Registry!Patch(h, body)
      PROVE  Unborn' /\ Registry!StatusIsMonitored'
  BY <1>4, <1>6 DEF Registry!Put, Registry!Patch, Registry!Edit
<1>7. ASSUME NEW h \in Requests, Registry!Refuse(h)
      PROVE  Unborn' /\ Registry!StatusIsMonitored'
  BY <1>4, <1>7 DEF Registry!Refuse
<1>8. ASSUME NEW h \in Requests, Registry!Store(h)
      PROVE  Unborn' /\ Registry!StatusIsMonitored'
  <2>1. /\ id[h] \in Registered /\ row[id[h]] # NoFile /\ UNCHANGED <<unborn, audits, seen>>
        /\ id' = id \/ id' = [id EXCEPT ![h] = NoFile]
    BY <1>8, StoreEffect
  <2>2. PICK r \in Registry!Columns, m \in Registry!Columns :
           /\ row' = [row EXCEPT ![id[h]] = r] /\ meant' = [meant EXCEPT ![id[h]] = m]
           /\ r.status = row[id[h]].status /\ \A f \in Fields : r[f] = copy[h][f]
           /\ \A f \in Fields : m[f] = IF op[h] \in {"put", f} THEN copy[h][f]
                                       ELSE meant[id[h]][f]
    <3> HIDE DEF Registry!TypeOK, Requested, Unborn
    <3> QED
      BY <1>8, StoreEffect
  <2>3. id[h] \notin unborn /\ r # NoFile /\ m # NoFile
    BY <2>1
  <2> QED
    BY <2>1, <2>2, <2>3
<1>9. ASSUME NEW h \in Requests, Registry!Delete(h)
      PROVE  Unborn' /\ Registry!StatusIsMonitored'
  BY <1>9 DEF Registry!Delete, Registry!Erase
<1>10. ASSUME NEW h \in Requests, Registry!Audit(h)
       PROVE  Unborn' /\ Registry!StatusIsMonitored'
  <2>1. /\ id[h] \in Registered /\ Registry!Idle(h) /\ UNCHANGED <<row, unborn, meant, seen>>
        /\ \A t \in Registered \ {id[h]} : audits'[t] = audits[t]
    BY <1>10, AuditEffect
  <2>2. id[h] \notin unborn
    OBVIOUS
  <2> QED
    BY <2>1, <2>2
<1>11. ASSUME Registry!Restart PROVE Unborn' /\ Registry!StatusIsMonitored'
  BY <1>4, <1>11 DEF Registry!Restart
<1>12. CASE UNCHANGED Registry!vars
  BY <1>4, <1>12 DEF Registry!vars
<1> QED
  BY <1>1, <1>2, <1>3, <1>5, <1>6, <1>7, <1>8, <1>9, <1>10, <1>11, <1>12 DEF Registry!Next

\* Every step keeps what a fresh copy has of its row, and the columns.
LEMMA CopiedStep ==
  ASSUME RegistryBounded, RegistryInv, [Registry!Next]_Registry!vars
  PROVE  Copied' /\ Registry!EditsStand'
<1> USE DEF RegistryBounded, RegistryInv, Registry!TypeOK, Requested, Unborn, Copied,
            Registry!EditsStand, Registry!Exists, Registry!Goto, Registry!Idle,
            Registry!handler, Registry!history
<1>0. \A s \in Registered \ blurred :
        /\ row[s] = NoFile => meant[s] = NoFile
        /\ row[s] # NoFile => \A f \in Fields : row[s][f] = meant[s][f]
  BY DEF Fields
<1>00. ASSUME \A s \in Registered \ blurred' :
                /\ row'[s] = NoFile => meant'[s] = NoFile
                /\ row'[s] # NoFile => \A f \in Fields : row'[s][f] = meant'[s][f]
       PROVE  Registry!EditsStand'
  BY <1>00 DEF Fields
<1> HIDE DEF Registry!EditsStand
<1>1. ASSUME NEW s \in Registered, NEW x \in Registry!Statuses, Registry!SetStatus(s, x)
      PROVE  Copied' /\ Registry!EditsStand'
  <2>1. PICK r \in Registry!Columns :
           /\ row[s] # NoFile /\ row' = [row EXCEPT ![s] = r]
           /\ \A f \in Fields : r[f] = row[s][f]
           /\ UNCHANGED <<pc, op, id, copy, fresh, meant, blurred>>
    BY <1>1, StatusEffect
  <2>2. Registry!EditsStand'
    BY <1>0, <1>00, <2>1
  <2>3. Copied'
    BY <2>1
  <2> QED
    BY <2>2, <2>3
<1>2. ASSUME NEW s \in Registered, Registry!UpdateSystemInfo(s)
      PROVE  Copied' /\ Registry!EditsStand'
  <2>1. PICK r \in Registry!Columns, m \in Registry!Columns :
           /\ row[s] # NoFile /\ row' = [row EXCEPT ![s] = r] /\ meant' = [meant EXCEPT ![s] = m]
           /\ r.status = row[s].status /\ r.system = m.system
           /\ \A f \in Fields \ {"system"} : r[f] = row[s][f] /\ m[f] = meant[s][f]
           /\ \A h \in Requests : fresh'[h] = (fresh[h] /\ id[h] # s)
           /\ UNCHANGED <<pc, op, id, copy, blurred>>
    BY <1>2, SystemEffect
  <2>2. s \notin blurred => \A f \in Fields : r[f] = m[f]
    BY <1>0, <2>1
  <2>3. Registry!EditsStand'
    BY <1>0, <1>00, <2>1, <2>2
  <2>4. Copied'
    <3>1. \A h \in Requests : fresh'[h] => fresh[h] /\ id[h] # s
      BY <2>1
    <3>2. \A t \in Registered \ {s} : row'[t] = row[t]
      BY <2>1
    <3> QED
      BY <2>1, <3>1, <3>2
  <2> QED
    BY <2>3, <2>4
<1>3. ASSUME NEW h \in Requests, NEW s \in Registered, NEW body \in Registry!Editable,
             Registry!Create(h, s, body)
      PROVE  Copied' /\ Registry!EditsStand'
  <2>1. PICK r \in Registry!Columns :
           /\ pc[h] = "idle" /\ s \in unborn
           /\ row' = [row EXCEPT ![s] = r] /\ meant' = [meant EXCEPT ![s] = r]
           /\ fresh' = fresh /\ copy' = copy
           /\ \/ /\ pc' = [pc EXCEPT ![h] = "audit"] /\ op' = [op EXCEPT ![h] = "create"]
                 /\ id' = [id EXCEPT ![h] = s] /\ blurred' = blurred
              \/ UNCHANGED <<pc, op, id>> /\ blurred' = blurred \union {s}
    <3> HIDE DEF RegistryInv, Registry!TypeOK, Requested, Unborn, Copied
    <3> QED
      BY <1>3, CreateEffect
  <2>2. Registry!EditsStand'
    BY <1>0, <1>00, <2>1
  <2>3. ASSUME NEW g \in Requests, pc'[g] \in {"read", "edited"}, fresh'[g]
        PROVE  /\ row'[id'[g]] # NoFile
               /\ \A f \in Fields :
                    copy'[g][f] = row'[id'[g]][f] \/ (pc'[g] = "edited" /\ op'[g] \in {"put", f})
    <3>1. pc'[g] = pc[g] /\ op'[g] = op[g] /\ id'[g] = id[g] /\ id[g] # s /\ fresh[g]
      BY <2>1, <2>3
    <3>2. row'[id[g]] = row[id[g]]
      BY <2>1, <2>3, <3>1
    <3> QED
      BY <2>1, <2>3, <3>1, <3>2
  <2> QED
    BY <2>2, <2>3
<1>4. ASSUME UNCHANGED <<row, meant, blurred>>,
             \A g \in Requests : pc'[g] \in {"read", "edited"} =>
               /\ pc'[g] = pc[g] /\ op'[g] = op[g] /\ id'[g] = id[g]
               /\ copy'[g] = copy[g] /\ fresh'[g] = fresh[g]
      PROVE  Copied' /\ Registry!EditsStand'
  BY <1>0, <1>00, <1>4
<1>5. ASSUME NEW h \in Requests, NEW s \in Registered,
             NEW o \in {"put", "name", "password", "system", "delete"}, Registry!Get(h, o, s)
      PROVE  Copied' /\ Registry!EditsStand'
  <2>1. /\ row[s] # NoFile /\ pc' = [pc EXCEPT ![h] = "read"] /\ op' = [op EXCEPT ![h] = o]
        /\ id' = [id EXCEPT ![h] = s] /\ copy' = [copy EXCEPT ![h] = row[s]]
        /\ \A g \in Requests \ {h} : fresh'[g] = fresh[g]
        /\ UNCHANGED <<row, meant, blurred>>
    BY <1>5 DEF Registry!Get, Registry!Read
  <2>2. Registry!EditsStand'
    BY <1>0, <1>00, <2>1
  <2>3. Copied'
    BY <2>1
  <2> QED
    BY <2>2, <2>3
<1>6. ASSUME NEW h \in Requests, NEW body \in Registry!Editable,
             Registry!Put(h, body) \/ Registry!Patch(h, body)
      PROVE  Copied' /\ Registry!EditsStand'
  <2>1. PICK r \in Registry!Columns :
           /\ pc[h] = "read" /\ pc' = [pc EXCEPT ![h] = "edited"]
           /\ copy' = [copy EXCEPT ![h] = r] /\ op[h] \in Fields \union {"put"}
           /\ op[h] \in Fields => \A f \in Fields \ {op[h]} : r[f] = copy[h][f]
           /\ UNCHANGED <<row, op, id, fresh, meant, blurred>>
    BY <1>6, EditEffect
  <2>2. Registry!EditsStand'
    BY <1>0, <1>00, <2>1
  <2>3. Copied'
    BY <2>1
  <2> QED
    BY <2>2, <2>3
<1>7. ASSUME NEW h \in Requests, Registry!Refuse(h)
      PROVE  Copied' /\ Registry!EditsStand'
  <2>1. /\ \A g \in Requests \ {h} : fresh'[g] = fresh[g]
        /\ pc' = [pc EXCEPT ![h] = "idle"] /\ op' = [op EXCEPT ![h] = "none"]
        /\ id' = [id EXCEPT ![h] = NoFile] /\ copy' = [copy EXCEPT ![h] = NoFile]
        /\ UNCHANGED <<row, meant, blurred>>
    BY <1>7 DEF Registry!Refuse
  <2> QED
    BY <1>4, <2>1
<1>8. ASSUME NEW h \in Requests, Registry!Store(h)
      PROVE  Copied' /\ Registry!EditsStand'
  <2>0. /\ pc[h] = "edited" /\ id[h] \in Registered /\ Registry!Exists(id[h])
        /\ op[h] \in Fields \union {"put"}
        /\ \A g \in Requests \ {h} : fresh'[g] = (fresh[g] /\ id[g] # id[h])
        /\ \/ /\ pc' = [pc EXCEPT ![h] = "audit"] /\ op' = [op EXCEPT ![h] = "update"]
              /\ copy' = [copy EXCEPT ![h] = NoFile] /\ id' = id
              /\ blurred' = IF fresh[h] THEN blurred ELSE blurred \union {id[h]}
           \/ Registry!Idle(h) /\ blurred' = blurred \union {id[h]}
    <3> HIDE DEF Registry!TypeOK, Requested, Unborn, Copied, Registry!Idle, Registry!Exists
    <3> QED
      BY <1>8, StoreEffect
  <2>1. /\ pc[h] = "edited" /\ id[h] \in Registered /\ row[id[h]] # NoFile
        /\ op[h] \in Fields \union {"put"}
        /\ \A g \in Requests \ {h} : fresh'[g] = (fresh[g] /\ id[g] # id[h])
        /\ pc' \in {[pc EXCEPT ![h] = "audit"], [pc EXCEPT ![h] = "idle"]}
        /\ \A g \in Requests \ {h} : /\ op'[g] = op[g] /\ id'[g] = id[g]
                                     /\ copy'[g] = copy[g]
        /\ blurred \subseteq blurred'
    <3>1. CASE Registry!Idle(h) /\ blurred' = blurred \union {id[h]}
      BY <2>0, <3>1
    <3>2. CASE /\ pc' = [pc EXCEPT ![h] = "audit"] /\ op' = [op EXCEPT ![h] = "update"]
               /\ copy' = [copy EXCEPT ![h] = NoFile] /\ id' = id
               /\ blurred' = IF fresh[h] THEN blurred ELSE blurred \union {id[h]}
      BY <2>0, <3>2
    <3> QED
      BY <2>0, <3>1, <3>2
  <2>2. PICK r \in Registry!Columns, m \in Registry!Columns :
           /\ row' = [row EXCEPT ![id[h]] = r] /\ meant' = [meant EXCEPT ![id[h]] = m]
           /\ r.status = row[id[h]].status /\ \A f \in Fields : r[f] = copy[h][f]
           /\ \A f \in Fields : m[f] = IF op[h] \in {"put", f} THEN copy[h][f]
                                       ELSE meant[id[h]][f]
    <3> HIDE DEF Registry!TypeOK, Requested, Unborn
    <3> QED
      BY <1>8, StoreEffect
  <2>3. id[h] \notin blurred' => fresh[h]
    BY <2>0
  <2>4. id[h] \notin blurred' => \A f \in Fields : r[f] = m[f]
    <3>1. SUFFICES ASSUME id[h] \notin blurred', NEW f \in Fields PROVE r[f] = m[f]
      OBVIOUS
    <3>2. fresh[h] /\ row[id[h]][f] = meant[id[h]][f]
      BY <1>0, <2>1, <2>3, <3>1
    <3>3. copy[h][f] = row[id[h]][f] \/ op[h] \in {"put", f}
      BY <2>1, <3>2
    <3> QED
      BY <2>2, <3>2, <3>3
  <2>5. Registry!EditsStand'
    BY <1>0, <1>00, <2>1, <2>2, <2>4
  <2>6. Copied'
    <3>1. \A g \in Requests : pc'[g] \in {"read", "edited"} => g # h /\ pc'[g] = pc[g]
      BY <2>1
    <3>2. \A g \in Requests \ {h} : fresh'[g] => fresh[g] /\ id[g] # id[h]
      BY <2>1
    <3>3. \A t \in Registered \ {id[h]} : row'[t] = row[t]
      BY <2>2
    <3>4. \A g \in Requests : pc[g] \in {"read", "edited"} => id[g] \in Registered
      OBVIOUS
    <3> QED
      BY <2>1, <3>1, <3>2, <3>3, <3>4
  <2> QED
    BY <2>5, <2>6
<1>9. ASSUME NEW h \in Requests, Registry!Delete(h)
      PROVE  Copied' /\ Registry!EditsStand'
  <2>1. /\ pc[h] = "read" /\ id[h] \in Registered
        /\ pc' = [pc EXCEPT ![h] = "audit"] /\ copy' = [copy EXCEPT ![h] = NoFile]
        /\ row' = [row EXCEPT ![id[h]] = NoFile] /\ meant' = [meant EXCEPT ![id[h]] = NoFile]
        /\ UNCHANGED <<op, id, blurred>>
    BY <1>9 DEF Registry!Delete, Registry!Erase
  <2>2. fresh' = [g \in Requests |-> IF g = h THEN TRUE ELSE fresh[g] /\ id[g] # id[h]]
    BY <1>9 DEF Registry!Delete, Registry!Stale
  <2>3. \A g \in Requests \ {h} : fresh'[g] => fresh[g] /\ id[g] # id[h]
    BY <2>2, Zenon
  <2>4. Registry!EditsStand'
    BY <1>0, <1>00, <2>1
  <2>5. Copied'
    <3>1. \A t \in Registered \ {id[h]} : row'[t] = row[t]
      BY <2>1
    <3>2. \A g \in Requests : pc[g] \in {"read", "edited"} => id[g] \in Registered
      OBVIOUS
    <3>3. \A g \in Requests \ {h} : pc'[g] = pc[g] /\ copy'[g] = copy[g]
      BY <2>1
    <3>4. pc'[h] = "audit"
      BY <2>1
    <3> QED
      BY <2>1, <2>3, <3>1, <3>2, <3>3, <3>4
  <2> QED
    BY <2>4, <2>5
<1>10. ASSUME NEW h \in Requests, Registry!Audit(h)
       PROVE  Copied' /\ Registry!EditsStand'
  BY <1>4, <1>10 DEF Registry!Audit
<1>11. ASSUME Registry!Restart PROVE Copied' /\ Registry!EditsStand'
  BY <1>4, <1>11 DEF Registry!Restart
<1>12. CASE UNCHANGED Registry!vars
  BY <1>4, <1>12 DEF Registry!vars
<1> QED
  BY <1>1, <1>2, <1>3, <1>5, <1>6, <1>7, <1>8, <1>9, <1>10, <1>11, <1>12 DEF Registry!Next

\* Every step keeps that a creation and a deletion are told once.
LEMMA AnnouncingStep ==
  ASSUME RegistryBounded, RegistryInv, [Registry!Next]_Registry!vars
  PROVE  Announcing' /\ Registry!ToldOnce'
<1> USE DEF RegistryBounded, RegistryInv, Registry!TypeOK, Requested, Unborn, Announcing,
            Registry!ToldOnce, Registry!Exists, Registry!Goto, Registry!Idle,
            Registry!handler, Registry!history
<1>0. \A h \in Requests : pc[h] = "audit" => id[h] \in Registered
  OBVIOUS
<1>4. ASSUME UNCHANGED <<unborn, audits>>,
             \A s \in Registered : row[s] = NoFile <=> row'[s] = NoFile,
             \A g \in Requests : pc'[g] = "audit" /\ op'[g] # "update" =>
               pc[g] = "audit" /\ op'[g] = op[g] /\ id'[g] = id[g]
      PROVE  Announcing' /\ Registry!ToldOnce'
  BY <1>0, <1>4
<1>1. ASSUME NEW s \in Registered, NEW x \in Registry!Statuses, Registry!SetStatus(s, x)
      PROVE  Announcing' /\ Registry!ToldOnce'
  <2>1. PICK r \in Registry!Columns :
           /\ row[s] # NoFile /\ row' = [row EXCEPT ![s] = r]
           /\ UNCHANGED <<unborn, pc, op, id, audits>>
    BY <1>1, StatusEffect
  <2> QED
    BY <1>4, <2>1
<1>2. ASSUME NEW s \in Registered, Registry!UpdateSystemInfo(s)
      PROVE  Announcing' /\ Registry!ToldOnce'
  <2>1. PICK r \in Registry!Columns, m \in Registry!Columns :
           /\ row[s] # NoFile /\ row' = [row EXCEPT ![s] = r] /\ meant' = [meant EXCEPT ![s] = m]
           /\ UNCHANGED <<unborn, pc, op, id, audits>>
    BY <1>2, SystemEffect
  <2> QED
    BY <1>4, <2>1
<1>3. ASSUME NEW h \in Requests, NEW s \in Registered, NEW body \in Registry!Editable,
             Registry!Create(h, s, body)
      PROVE  Announcing' /\ Registry!ToldOnce'
  <2>1. PICK r \in Registry!Columns :
           /\ pc[h] = "idle" /\ s \in unborn /\ unborn' = unborn \ {s}
           /\ row' = [row EXCEPT ![s] = r] /\ audits' = audits
           /\ \/ /\ pc' = [pc EXCEPT ![h] = "audit"] /\ op' = [op EXCEPT ![h] = "create"]
                 /\ id' = [id EXCEPT ![h] = s]
              \/ UNCHANGED <<pc, op, id>>
    <3> HIDE DEF RegistryInv, Registry!TypeOK, Requested, Unborn, Announcing, Registry!ToldOnce
    <3> QED
      BY <1>3, CreateEffect
  <2>2. /\ audits[s].create = 0 /\ audits[s].delete = 0
        /\ \A g \in Requests : id[g] # s
    BY <2>1
  <2>3. Registry!ToldOnce'
    BY <2>1, <2>2
  <2>4. CASE UNCHANGED <<pc, op, id>>
    BY <1>0, <2>1, <2>2, <2>4
  <2>5. CASE /\ pc' = [pc EXCEPT ![h] = "audit"] /\ op' = [op EXCEPT ![h] = "create"]
             /\ id' = [id EXCEPT ![h] = s]
    <3>1. pc'[h] = "audit" /\ op'[h] = "create" /\ id'[h] = s
      BY <2>5
    <3>2. \A g \in Requests \ {h} : pc'[g] = pc[g] /\ op'[g] = op[g] /\ id'[g] = id[g]
      BY <2>5
    <3>3. \A t \in Registered \ {s} : row'[t] = row[t]
      BY <2>1
    <3>4. ASSUME NEW g \in Requests, pc'[g] = "audit", op'[g] # "update"
          PROVE  /\ audits'[id'[g]][op'[g]] = 0
                 /\ op'[g] = "delete" => row'[id'[g]] = NoFile
                 /\ \A k \in Requests :
                      pc'[k] = "audit" /\ op'[k] = op'[g] /\ id'[k] = id'[g] => k = g
      <4>1. CASE g = h
        BY <2>1, <2>2, <3>1, <3>2, <4>1
      <4>2. CASE g # h
        BY <1>0, <2>1, <2>2, <3>1, <3>2, <3>3, <3>4, <4>2
      <4> QED
        BY <4>1, <4>2
    <3> QED
      BY <2>3, <3>4
  <2> QED
    BY <2>1, <2>3, <2>4, <2>5
<1>5. ASSUME NEW h \in Requests, NEW s \in Registered,
             NEW o \in {"put", "name", "password", "system", "delete"}, Registry!Get(h, o, s)
      PROVE  Announcing' /\ Registry!ToldOnce'
  BY <1>4, <1>5 DEF Registry!Get
<1>6. ASSUME NEW h \in Requests, NEW body \in Registry!Editable,
             Registry!Put(h, body) \/ Registry!Patch(h, body)
      PROVE  Announcing' /\ Registry!ToldOnce'
  BY <1>4, <1>6 DEF Registry!Put, Registry!Patch, Registry!Edit
<1>7. ASSUME NEW h \in Requests, Registry!Refuse(h)
      PROVE  Announcing' /\ Registry!ToldOnce'
  BY <1>4, <1>7 DEF Registry!Refuse
<1>8. ASSUME NEW h \in Requests, Registry!Store(h)
      PROVE  Announcing' /\ Registry!ToldOnce'
  <2>1. /\ id[h] \in Registered /\ Registry!Exists(id[h]) /\ UNCHANGED <<unborn, audits>>
        /\ \/ /\ pc' = [pc EXCEPT ![h] = "audit"] /\ op' = [op EXCEPT ![h] = "update"]
              /\ id' = id
           \/ Registry!Idle(h)
    <3> HIDE DEF Registry!TypeOK, Requested, Unborn, Registry!Idle, Registry!Exists
    <3> QED
      BY <1>8, StoreEffect
  <2>2. PICK r \in Registry!Columns, m \in Registry!Columns :
           /\ row' = [row EXCEPT ![id[h]] = r] /\ meant' = [meant EXCEPT ![id[h]] = m]
           /\ r.status = row[id[h]].status /\ \A f \in Fields : r[f] = copy[h][f]
           /\ \A f \in Fields : m[f] = IF op[h] \in {"put", f} THEN copy[h][f]
                                       ELSE meant[id[h]][f]
    <3> HIDE DEF Registry!TypeOK, Requested, Unborn
    <3> QED
      BY <1>8, StoreEffect
  <2>3. \A s \in Registered : row[s] = NoFile <=> row'[s] = NoFile
    BY <2>1, <2>2
  <2>4. \A g \in Requests : pc'[g] = "audit" /\ op'[g] # "update" =>
          pc[g] = "audit" /\ op'[g] = op[g] /\ id'[g] = id[g]
    BY <2>1
  <2> QED
    BY <1>4, <2>1, <2>3, <2>4
<1>9. ASSUME NEW h \in Requests, Registry!Delete(h)
      PROVE  Announcing' /\ Registry!ToldOnce'
  <2>1. /\ op[h] = "delete" /\ pc[h] = "read" /\ pc' = [pc EXCEPT ![h] = "audit"]
        /\ row[id[h]] # NoFile /\ row' = [row EXCEPT ![id[h]] = NoFile]
        /\ UNCHANGED <<unborn, op, id, audits>>
    BY <1>9 DEF Registry!Delete, Registry!Erase
  <2>2. id[h] \in Registered /\ audits[id[h]].delete = 0
    <3>1. id[h] \in Registered
      BY <2>1
    <3>2. PICK n \in Nat : n = audits[id[h]].delete
      BY <3>1
    <3>3. n <= 1 /\ n # 1
      BY <2>1, <3>1, <3>2
    <3> HIDE DEF RegistryInv, Registry!TypeOK
    <3> QED
      BY <3>1, <3>2, <3>3
  <2>3. Registry!ToldOnce'
    BY <2>1, <2>2
  <2>4. \A g \in Requests : pc[g] = "audit" /\ op[g] = "delete" => id[g] # id[h]
    BY <2>1
  <2>5. \A g \in Requests \ {h} : pc'[g] = pc[g]
    BY <2>1
  <2>6. \A t \in Registered : row[t] = NoFile => row'[t] = NoFile
    BY <2>1
  <2>7. ASSUME NEW g \in Requests, pc'[g] = "audit", op[g] # "update"
        PROVE  /\ audits[id[g]][op[g]] = 0
               /\ op[g] = "delete" => row'[id[g]] = NoFile
               /\ \A k \in Requests :
                    pc'[k] = "audit" /\ op[k] = op[g] /\ id[k] = id[g] => k = g
    <3>1. CASE g = h
      BY <2>1, <2>2, <2>4, <2>5, <3>1
    <3>2. CASE g # h
      BY <1>0, <2>1, <2>4, <2>5, <2>6, <2>7, <3>2
    <3> QED
      BY <3>1, <3>2
  <2> QED
    BY <2>1, <2>3, <2>7
<1>10. ASSUME NEW h \in Requests, Registry!Audit(h)
       PROVE  Announcing' /\ Registry!ToldOnce'
  <2>1. /\ pc[h] = "audit" /\ id[h] \in Registered /\ Registry!Idle(h)
        /\ UNCHANGED <<row, unborn>>
    BY <1>10, AuditEffect
  <2>2. CASE audits' = audits
    BY <1>4, <2>1, <2>2
  <2>3. CASE /\ op[h] \in {"create", "delete"}
             /\ \E a \in [create : Nat, delete : Nat] :
                  /\ audits' = [audits EXCEPT ![id[h]] = a]
                  /\ a[op[h]] = audits[id[h]][op[h]] + 1
                  /\ \A o \in {"create", "delete"} \ {op[h]} : a[o] = audits[id[h]][o]
    <3>1. PICK a \in [create : Nat, delete : Nat] :
                  /\ audits' = [audits EXCEPT ![id[h]] = a]
                  /\ a[op[h]] = audits[id[h]][op[h]] + 1
                  /\ \A o \in {"create", "delete"} \ {op[h]} : a[o] = audits[id[h]][o]
      BY <2>3
    <3>2. /\ a[op[h]] = 1 /\ id[h] \notin unborn
          /\ op[h] = "delete" => row[id[h]] = NoFile
      BY <2>1, <2>3, <3>1
    <3>3. Registry!ToldOnce'
      <4>1. CASE op[h] = "create"
        BY <2>1, <3>1, <3>2, <4>1
      <4>2. CASE op[h] = "delete"
        BY <2>1, <3>1, <3>2, <4>2
      <4> QED
        BY <2>3, <4>1, <4>2
    <3>4. /\ \A g \in Requests \ {h} : pc'[g] = pc[g] /\ op'[g] = op[g] /\ id'[g] = id[g]
          /\ pc'[h] = "idle"
      BY <2>1
    <3>5. ASSUME NEW g \in Requests, pc'[g] = "audit", op'[g] # "update"
          PROVE  audits'[id'[g]][op'[g]] = 0
      <4>1. /\ g # h /\ pc[g] = "audit" /\ op'[g] = op[g] /\ id'[g] = id[g]
            /\ op[g] \in {"create", "delete"} /\ id[g] \in Registered
        BY <3>4, <3>5
      <4>2. audits[id[g]][op[g]] = 0 /\ ~(op[g] = op[h] /\ id[g] = id[h])
        BY <2>1, <3>5, <4>1
      <4>3. CASE id[g] = id[h]
        BY <3>1, <4>1, <4>2, <4>3
      <4>4. CASE id[g] # id[h]
        BY <3>1, <4>1, <4>2, <4>4
      <4> QED
        BY <4>3, <4>4
    <3> QED
      BY <2>1, <3>3, <3>4, <3>5
  <2> QED
    BY <1>10, <2>2, <2>3, AuditEffect
<1>11. ASSUME Registry!Restart PROVE Announcing' /\ Registry!ToldOnce'
  BY <1>4, <1>11 DEF Registry!Restart
<1>12. CASE UNCHANGED Registry!vars
  BY <1>4, <1>12 DEF Registry!vars
<1> QED
  BY <1>1, <1>2, <1>3, <1>5, <1>6, <1>7, <1>8, <1>9, <1>10, <1>11, <1>12 DEF Registry!Next

\* No edit writes over what the monitoring stored, the columns of a server are
\* what its answered edits made them, and creation and deletion are told once,
\* whatever requests, sweeps and restarts overlap.
THEOREM RegistryHolds ==
  ASSUME RegistryBounded
  PROVE  Registry!Spec => [](/\ Registry!TypeOK /\ Registry!StatusIsMonitored
                             /\ Registry!EditsStand /\ Registry!ToldOnce)
<1>1. Registry!Init => RegistryInv
  BY DEF Registry!Init, RegistryBounded, RegistryInv, Registry!TypeOK, Requested, Unborn,
         Copied, Announcing, Registry!StatusIsMonitored, Registry!EditsStand,
         Registry!ToldOnce, Registry!Exists, Registry!Statuses
<1>2. RegistryInv /\ [Registry!Next]_Registry!vars => RegistryInv'
  BY RegistryTypeStep, UnbornStep, CopiedStep, AnnouncingStep DEF RegistryInv
<1> QED
  BY <1>1, <1>2, PTL DEF Registry!Spec, RegistryInv

\* The same of what the runs check.
THEOREM RegistryHoldsThroughout == ASSUME RegistryBounded PROVE SumSpec => []ServerEditsStand
<1>1. SumInit /\ focus = "server" => Registry!Init
  BY DEF SumInit
<1>2. focus = "server" /\ [SumNext]_sumVars
        => [Registry!Next]_Registry!vars /\ (focus = "server")'
  BY DEF SumNext, accountOnly, knownOnly, keyOnly, tunnelOnly, fleetOnly, remoteOnly,
         commandOnly, containerOnly, serverOnly, filesOnly, sumVars, Registry!handler,
         Registry!history, Registry!vars
<1>3. ~(focus = "server") /\ [SumNext]_sumVars => (~(focus = "server"))'
  BY DEF SumNext, sumVars
<1>4. (focus = "server" => /\ Registry!TypeOK /\ Registry!StatusIsMonitored
                           /\ Registry!EditsStand /\ Registry!ToldOnce)
        => ServerEditsStand
  BY DEF ServerEditsStand
<1>5. Registry!Spec => [](/\ Registry!TypeOK /\ Registry!StatusIsMonitored
                          /\ Registry!EditsStand /\ Registry!ToldOnce)
  BY RegistryHolds, PTL
<1> QED
  BY <1>1, <1>2, <1>3, <1>4, <1>5, PTL DEF SumSpec, Registry!Spec

-----------------------------------------------------------------------------
\* A request names some servers, and finitely many.
CommandBounded == IsFiniteSet(Servers) /\ Servers # {} /\ MaxTroubles \in Nat

\* Commands are counted as every module counts.
LEMMA CommandCounts == ASSUME NEW S PROVE Command!Cardinality(S) = Cardinality(S)
BY DEF Command!Cardinality, Cardinality

\* Somebody is counted when either counter has somebody.
LEMMA SomeCounted == ASSUME NEW m \in Nat, NEW n \in Nat, m > 0 \/ n > 0 PROVE m + n > 0
OBVIOUS

\* Where the goroutines of a request may stand, and that several servers are
\* audited before they are touched.
Phased ==
  /\ via = "none" <=> phase = "idle"
  /\ phase = "idle" => \A h \in Servers : pc[h] = "absent" /\ remote[h] = "none" /\ runs[h] = {}
  /\ phase = "crashed" => \A h \in Servers : pc[h] = "absent"
  /\ via = "execute" /\ phase = "running" => \A h \in Servers : pc[h] # "absent"
  /\ via = "execute" /\ phase = "answered" => \A h \in Servers : pc[h] = "ended"
  /\ via = "execute" => event # "due"
  /\ via = "run" => \A h \in Servers : pc[h] \notin {"queued", "audit", "load", "count"}
  /\ via = "run" /\ phase = "answered" => \A h \in Servers : pc[h] \in {"absent", "ended"}

\* A goroutine that has an outcome has the true one, and has written it.
Outcomes ==
  \A h \in Servers :
    /\ pc[h] \in {"queued", "connecting", "handshake"} => remote[h] = "none"
    /\ heard[h] \in {"zero", "nonzero"} => remote[h] = heard[h]
    /\ pc[h] \in {"audit", "load", "count", "ended"} =>
         /\ result[h] \in Command!Statuses
         /\ result[h] = "success" => remote[h] = "zero"
         /\ result[h] = "failed" => remote[h] \notin {"zero", "running"} \/ heard[h] = "lost"
    /\ via = "execute" /\ troubles = 0 =>
         /\ pc[h] \in {"queued", "connecting", "handshake", "starting", "waiting", "audit"} => runs[h] = {}
         /\ pc[h] \in {"load", "count", "ended"} => runs[h] = {result[h]}

\* A counter is no more than the hosts that have ended on its side, and so is
\* what a goroutine has read of it: an increment that is lost counts nobody.
Succeeded == {h \in Servers : pc[h] = "ended" /\ result[h] = "success"}
Unsucceeded == {h \in Servers : pc[h] = "ended" /\ result[h] # "success"}
Counted ==
  /\ success \in Nat /\ success <= Cardinality(Succeeded)
  /\ failed \in Nat /\ failed <= Cardinality(Unsucceeded)
  /\ \A h \in Servers : pc[h] = "count" =>
       /\ loaded[h] \in Nat
       /\ result[h] = "success" => loaded[h] <= Cardinality(Succeeded)
       /\ result[h] # "success" => loaded[h] <= Cardinality(Unsucceeded)
  /\ via = "execute" /\ (\E h \in Servers : pc[h] = "ended") => success + failed > 0

CommandInv == Command!TypeOK /\ Phased /\ Outcomes /\ (phase # "crashed" => Counted)

\* A goroutine that comes to an outcome comes to a true one.
LEMMA OutcomeEffect ==
  ASSUME CommandBounded, CommandInv, NEW h \in Servers,
         \/ Command!DialFails(h) \/ Command!Refused(h) \/ Command!StartFails(h)
         \/ Command!WaitReturns(h) \/ Command!TimesOut(h)
  PROVE  /\ pc[h] \in {"connecting", "handshake", "starting", "waiting"}
         /\ pc' = [pc EXCEPT ![h] = IF via = "execute" THEN "audit" ELSE "ended"]
         /\ \E outcome \in Command!Statuses :
              /\ result' = [result EXCEPT ![h] = outcome]
              /\ outcome = "success" => remote[h] = "zero"
              /\ outcome = "failed" => remote[h] \notin {"zero", "running"} \/ heard[h] = "lost"
         /\ UNCHANGED <<via, phase, ctx, event, remote, heard, runs, loaded, success, failed, troubles>>
<1> USE DEF Command!Finish, Command!Statuses, Command!request, Command!counters,
            Command!overThere
<1>1. CASE Command!DialFails(h) \/ Command!Refused(h)
  <2>1. remote[h] = "none"
    BY <1>1 DEF Command!DialFails, Command!Refused, CommandInv, Outcomes
  <2> QED
    BY <1>1, <2>1 DEF Command!DialFails, Command!Refused
<1>2. CASE Command!WaitReturns(h)
  <2>1. heard[h] \in {"nothing", "lost", "zero", "nonzero"}
        /\ (heard[h] \in {"zero", "nonzero"} => remote[h] = heard[h])
    BY DEF CommandInv, Outcomes, Command!TypeOK
  <2> QED
    BY <1>2, <2>1 DEF Command!WaitReturns, Command!ByExit
<1>3. CASE Command!TimesOut(h)
  BY <1>3 DEF Command!TimesOut
<1>4. CASE Command!StartFails(h)
  BY <1>4 DEF Command!StartFails
<1> QED
  BY <1>1, <1>2, <1>3, <1>4

\* Every step keeps the types.
LEMMA CommandTypeStep ==
  ASSUME CommandBounded, CommandInv, [Command!Next]_Command!vars
  PROVE  Command!TypeOK'
<1> USE DEF CommandBounded, Command!TypeOK, Command!Statuses, Command!Trouble, Command!Goto,
            Command!request, Command!counters, Command!overThere
<1>0. Command!TypeOK
  BY DEF CommandInv
<1>1. CASE Command!BeginExecute \/ Command!AnswerRun
  <2>1. event' \in {"written", "failed"} /\ troubles' \in 0..MaxTroubles
    <3>1. Command!InsertEvent
      BY <1>1 DEF Command!BeginExecute, Command!AnswerRun, Command!AppendEvent,
         Command!AppendCommandEvent
    <3>2. event' \in {"written", "failed"}
      BY <3>1 DEF Command!InsertEvent
    <3>3. troubles' = troubles \/ (troubles < MaxTroubles /\ troubles' = troubles + 1)
      BY <3>1 DEF Command!InsertEvent
    <3>4. troubles' \in 0..MaxTroubles
      <4>1. troubles \in 0..MaxTroubles
        BY <1>0
      <4> HIDE DEF Command!TypeOK
      <4> QED
        BY <3>3, <4>1
    <3> QED
      BY <3>2, <3>4
  <2>2. /\ via' \in {via, "execute"} /\ phase' \in {"running", "answered"}
        /\ pc' \in {pc, [h \in Servers |-> "queued"]}
        /\ UNCHANGED <<ctx, remote, heard, result, runs, loaded, success, failed>>
    BY <1>1 DEF Command!BeginExecute, Command!AnswerRun
  <2>3. pc' \in [Servers -> {"absent", "queued", "connecting", "handshake", "starting", "waiting",
                            "audit", "load", "count", "ended"}]
    BY <1>0, <2>2
  <2> QED
    BY <1>0, <2>1, <2>2, <2>3
<1>2. CASE Command!ContextEnds \/ Command!AnswerExecute \/ Command!Crash
  <2>1. /\ ctx' \in {ctx, FALSE} /\ phase' \in {phase, "answered", "crashed"}
        /\ pc' \in {pc, [h \in Servers |-> "absent"]}
        /\ UNCHANGED <<via, event, remote, heard, result, runs, loaded, success, failed>>
    BY <1>2 DEF Command!ContextEnds, Command!AnswerExecute, Command!Crash
  <2>2. pc' \in [Servers -> {"absent", "queued", "connecting", "handshake", "starting", "waiting",
                            "audit", "load", "count", "ended"}]
    BY <1>0, <2>1
  <2>3. troubles' = troubles \/ (troubles < MaxTroubles /\ troubles' = troubles + 1)
    BY <1>2 DEF Command!ContextEnds, Command!AnswerExecute, Command!Crash
  <2>4. troubles' \in 0..MaxTroubles
    <3>1. troubles \in 0..MaxTroubles
      BY <1>0
    <3> HIDE DEF Command!TypeOK
    <3> QED
      BY <2>3, <3>1
  <2>5. ctx' \in BOOLEAN
    BY <1>0, <2>1
  <2> QED
    BY <1>0, <2>1, <2>2, <2>4, <2>5
<1>3. ASSUME NEW h \in Servers,
             \/ Command!BeginRun(h) \/ Command!Acquire(h) \/ Command!Connect(h)
             \/ Command!StartCommand(h) \/ Command!Started(h)
      PROVE  Command!TypeOK'
  BY <1>0, <1>3 DEF Command!BeginRun, Command!Acquire, Command!Connect, Command!StartCommand,
     Command!Started
<1>4. ASSUME NEW h \in Servers,
             \/ Command!DialFails(h) \/ Command!Refused(h) \/ Command!StartFails(h)
             \/ Command!WaitReturns(h) \/ Command!TimesOut(h)
      PROVE  Command!TypeOK'
  <2> HIDE DEF Command!TypeOK
  <2>1. PICK outcome \in Command!Statuses : result' = [result EXCEPT ![h] = outcome]
    BY <1>4, OutcomeEffect
  <2>2. /\ pc' = [pc EXCEPT ![h] = IF via = "execute" THEN "audit" ELSE "ended"]
        /\ UNCHANGED <<via, phase, ctx, event, remote, heard, runs, loaded, success, failed, troubles>>
    BY <1>4, OutcomeEffect
  <2> QED
    BY <1>0, <2>1, <2>2 DEF Command!TypeOK
<1>5. ASSUME NEW h \in Servers, Command!AppendRun(h) PROVE Command!TypeOK'
  <2>1. result[h] \in Command!Statuses
    BY <1>5 DEF CommandInv, Outcomes, Command!AppendRun
  <2>2. runs' \in [Servers -> SUBSET Command!Statuses] /\ troubles' \in 0..MaxTroubles
    <3>1. \/ runs' = [runs EXCEPT ![h] = @ \union {result[h]}] /\ troubles' = troubles
          \/ runs' = runs /\ troubles < MaxTroubles /\ troubles' = troubles + 1
      BY <1>5 DEF Command!AppendRun, Command!InsertRun
    <3>2. troubles \in 0..MaxTroubles
      BY <1>0
    <3>3. troubles' \in 0..MaxTroubles
      <4> HIDE DEF Command!TypeOK
      <4> QED
        BY <3>1, <3>2
    <3>4. runs[h] \union {result[h]} \in SUBSET Command!Statuses
      BY <1>0, <2>1
    <3>5. runs' \in [Servers -> SUBSET Command!Statuses]
      BY <1>0, <3>1, <3>4
    <3> QED
      BY <3>3, <3>5
  <2> QED
    BY <1>0, <1>5, <2>2 DEF Command!AppendRun
<1>6. ASSUME NEW h \in Servers, Command!Load(h) \/ Command!Count(h) PROVE Command!TypeOK'
  <2>1. loaded[h] + 1 \in Int /\ failed \in Int /\ success \in Int
    <3>1. loaded \in [Servers -> Int] /\ failed \in Int /\ success \in Int
      BY <1>0
    <3> HIDE DEF Command!TypeOK
    <3> QED
      BY <3>1
  <2>2. \E v \in Int, place \in {"count", "ended"} :
          loaded' = [loaded EXCEPT ![h] = v] /\ pc' = [pc EXCEPT ![h] = place]
    BY <1>6, <2>1 DEF Command!Load, Command!Count
  <2>3. success' \in {success, loaded[h] + 1} /\ failed' \in {failed, loaded[h] + 1}
    BY <1>6 DEF Command!Load, Command!Count
  <2>4. UNCHANGED <<via, phase, ctx, event, remote, heard, result, runs, troubles>>
    BY <1>6 DEF Command!Load, Command!Count
  <2>5. pc' \in [Servers -> {"absent", "queued", "connecting", "handshake", "starting", "waiting",
                             "audit", "load", "count", "ended"}]
    BY <1>0, <2>2
  <2>6. loaded' \in [Servers -> Int] /\ success' \in Int /\ failed' \in Int
    <3>1. loaded \in [Servers -> Int]
      BY <1>0
    <3> HIDE DEF Command!TypeOK
    <3> QED
      BY <2>1, <2>2, <2>3, <3>1
  <2> QED
    BY <1>0, <2>4, <2>5, <2>6
<1>7. ASSUME NEW h \in Servers, NEW end \in {"zero", "nonzero"},
             Command!RemoteEnds(h, end) \/ Command!ConnectionBreaks(h)
      PROVE  Command!TypeOK'
  <2>1. remote' \in [Servers -> {"none", "running", "zero", "nonzero"}]
    BY <1>0, <1>7 DEF Command!RemoteEnds, Command!ConnectionBreaks
  <2>2. \E reply \in {"nothing", "zero", "nonzero", "lost"} : heard' = [heard EXCEPT ![h] = reply]
    <3>1. heard[h] \in {"nothing", "zero", "nonzero", "lost"}
      BY <1>0
    <3> HIDE DEF Command!TypeOK
    <3> QED
      BY <1>7, <3>1 DEF Command!RemoteEnds, Command!ConnectionBreaks
  <2>3. UNCHANGED <<via, phase, ctx, event, pc, result, runs, loaded, success, failed, troubles>>
    BY <1>7 DEF Command!RemoteEnds, Command!ConnectionBreaks
  <2>4. heard' \in [Servers -> {"nothing", "zero", "nonzero", "lost"}]
    <3>1. heard \in [Servers -> {"nothing", "zero", "nonzero", "lost"}]
      BY <1>0
    <3> HIDE DEF Command!TypeOK
    <3> QED
      BY <2>2, <3>1
  <2> QED
    BY <1>0, <2>1, <2>3, <2>4
<1>8. CASE UNCHANGED Command!vars
  BY <1>0, <1>8 DEF Command!vars
<1> QED
  BY <1>1, <1>2, <1>3, <1>4, <1>5, <1>6, <1>7, <1>8
     DEF Command!Next, Command!Goroutine, Command!Peer

\* Every step keeps where the goroutines may stand.
LEMMA PhasedStep ==
  ASSUME CommandBounded, CommandInv, [Command!Next]_Command!vars
  PROVE  Phased'
<1> USE DEF Phased, Command!Goto, Command!request, Command!counters,
            Command!overThere
<1>0. Phased /\ pc \in [Servers -> {"absent", "queued", "connecting", "handshake", "starting", "waiting",
                                    "audit", "load", "count", "ended"}]
      /\ via \in {"none", "execute", "run"}
      /\ phase \in {"idle", "running", "answered", "crashed"}
  BY DEF CommandInv, Command!TypeOK
\* A goroutine that goes on.
<1>1. ASSUME NEW h \in Servers, NEW to \in {"connecting", "handshake", "starting", "waiting", "audit",
                                           "load", "count", "ended"},
             pc' = [pc EXCEPT ![h] = to], pc[h] \notin {"absent", "ended"},
             via = "run" => to \notin {"audit", "load", "count"},
             UNCHANGED <<via, phase, event>>
      PROVE  Phased'
  BY <1>0, <1>1
<1>2. CASE Command!BeginExecute
  BY <1>0, <1>2 DEF Command!BeginExecute, Command!AppendCommandEvent, Command!InsertEvent
<1>3. ASSUME NEW h \in Servers, Command!BeginRun(h) PROVE Phased'
  BY <1>0, <1>3 DEF Command!BeginRun
<1>4. CASE Command!ContextEnds \/ Command!Crash
  BY <1>0, <1>4 DEF Command!ContextEnds, Command!Crash
<1>5. CASE Command!AnswerExecute
  BY <1>0, <1>5 DEF Command!AnswerExecute
<1>6. CASE Command!AnswerRun
  <2>1. \A h \in Servers : pc[h] \in {"absent", "ended"}
    BY <1>6 DEF Command!AnswerRun, Command!Targets
  <2> QED
    BY <1>0, <1>6, <2>1 DEF Command!AnswerRun
<1>7. ASSUME NEW h \in Servers,
             \/ Command!Acquire(h) \/ Command!Connect(h) \/ Command!StartCommand(h)
             \/ Command!Started(h)
      PROVE  Phased'
  <2>1. /\ pc[h] \in {"queued", "connecting", "handshake", "starting"} /\ UNCHANGED <<via, phase, event, runs>>
        /\ \E to \in {"connecting", "handshake", "starting", "waiting"} : pc' = [pc EXCEPT ![h] = to]
    BY <1>7 DEF Command!Acquire, Command!Connect, Command!StartCommand,
       Command!Started
  <2> QED
    BY <1>1, <2>1
<1>8. ASSUME NEW h \in Servers,
             \/ Command!DialFails(h) \/ Command!Refused(h) \/ Command!StartFails(h)
             \/ Command!WaitReturns(h) \/ Command!TimesOut(h)
      PROVE  Phased'
  <2>1. /\ pc[h] \in {"connecting", "handshake", "starting", "waiting"} /\ UNCHANGED <<via, phase, event>>
        /\ pc' = [pc EXCEPT ![h] = IF via = "execute" THEN "audit" ELSE "ended"]
    <3> HIDE DEF Phased
    <3> QED
      BY <1>8, OutcomeEffect
  <2> QED
    BY <1>1, <2>1
<1>9. ASSUME NEW h \in Servers, Command!AppendRun(h) \/ Command!Load(h) \/ Command!Count(h)
      PROVE  Phased'
  <2>1. /\ pc[h] \in {"audit", "load", "count"} /\ UNCHANGED <<via, phase, event>>
        /\ \E to \in {"load", "count", "ended"} : pc' = [pc EXCEPT ![h] = to]
    BY <1>9 DEF Command!AppendRun, Command!Load, Command!Count
  <2>2. via # "run"
    BY <1>0, <2>1
  <2> QED
    BY <1>1, <2>1, <2>2
<1>10. ASSUME NEW h \in Servers, NEW end \in {"zero", "nonzero"},
              Command!RemoteEnds(h, end) \/ Command!ConnectionBreaks(h)
       PROVE  Phased'
  BY <1>0, <1>10 DEF Command!RemoteEnds, Command!ConnectionBreaks
<1>11. CASE UNCHANGED Command!vars
  BY <1>0, <1>11 DEF Command!vars
<1> QED
  BY <1>2, <1>3, <1>4, <1>5, <1>6, <1>7, <1>8, <1>9, <1>10, <1>11
     DEF Command!Next, Command!Goroutine, Command!Peer

\* Every step keeps the outcomes true and written.
LEMMA OutcomesStep ==
  ASSUME CommandBounded, CommandInv, [Command!Next]_Command!vars
  PROVE  Outcomes'
<1> USE DEF Outcomes, Command!Trouble, Command!Goto, Command!request, Command!counters,
            Command!overThere
<1>0. /\ Outcomes /\ Phased
      /\ pc \in [Servers -> {"absent", "queued", "connecting", "handshake", "starting", "waiting",
                             "audit", "load", "count", "ended"}]
      /\ remote \in [Servers -> {"none", "running", "zero", "nonzero"}]
      /\ heard \in [Servers -> {"nothing", "zero", "nonzero", "lost"}]
      /\ result \in [Servers -> Command!Statuses \union {""}]
      /\ runs \in [Servers -> SUBSET Command!Statuses]
  BY DEF CommandInv, Command!TypeOK
<1>20. troubles \in Nat
  <2>1. troubles \in 0..MaxTroubles
    BY DEF CommandInv, Command!TypeOK
  <2> QED
    BY <2>1 DEF CommandBounded
<1>1. CASE Command!BeginExecute
  BY <1>0, <1>1 DEF Command!BeginExecute, Phased
<1>2. ASSUME NEW h \in Servers, Command!BeginRun(h) PROVE Outcomes'
  BY <1>0, <1>2 DEF Command!BeginRun, Phased
<1>3. CASE Command!ContextEnds \/ Command!AnswerExecute \/ UNCHANGED Command!vars
  BY <1>0, <1>3 DEF Command!ContextEnds, Command!AnswerExecute, Command!vars
<1>4. CASE Command!Crash
  BY <1>0, <1>4 DEF Command!Crash
<1>5. CASE Command!AnswerRun
  BY <1>0, <1>5 DEF Command!AnswerRun
<1>6. ASSUME NEW h \in Servers,
             \/ Command!Acquire(h) \/ Command!Connect(h) \/ Command!StartCommand(h)
             \/ Command!Started(h)
      PROVE  Outcomes'
  <2>1. CASE Command!Acquire(h) \/ Command!Connect(h) \/ Command!Started(h)
    <3>1. UNCHANGED <<via, remote, heard, result, runs, troubles>>
      BY <2>1 DEF Command!Acquire, Command!Connect, Command!Started
    <3>2. \/ pc[h] \in {"queued", "connecting"}
             /\ \E to \in {"connecting", "handshake"} : pc' = [pc EXCEPT ![h] = to]
          \/ pc[h] = "starting" /\ pc' = [pc EXCEPT ![h] = "waiting"]
      BY <2>1 DEF Command!Acquire, Command!Connect, Command!Started
    <3> QED
      BY <1>0, <3>1, <3>2
  <2>2. CASE Command!StartCommand(h)
    <3>1. /\ UNCHANGED <<via, heard, result, runs, troubles>>
          /\ pc[h] = "handshake" /\ pc' = [pc EXCEPT ![h] = "starting"]
          /\ remote' = [remote EXCEPT ![h] = "running"]
      BY <2>2 DEF Command!StartCommand
    <3>2. heard[h] \notin {"zero", "nonzero"}
      BY <1>0, <3>1
    <3> QED
      BY <1>0, <3>1, <3>2
  <2> QED
    BY <1>6, <2>1, <2>2
<1>7. ASSUME NEW h \in Servers,
             \/ Command!DialFails(h) \/ Command!Refused(h) \/ Command!StartFails(h)
             \/ Command!WaitReturns(h) \/ Command!TimesOut(h)
      PROVE  Outcomes'
  <2> HIDE DEF Outcomes
  <2>1. PICK outcome \in Command!Statuses :
              /\ result' = [result EXCEPT ![h] = outcome]
              /\ outcome = "success" => remote[h] = "zero"
              /\ outcome = "failed" => remote[h] \notin {"zero", "running"} \/ heard[h] = "lost"
    BY <1>7, OutcomeEffect
  <2>2. /\ pc[h] \in {"connecting", "handshake", "starting", "waiting"}
        /\ pc' = [pc EXCEPT ![h] = IF via = "execute" THEN "audit" ELSE "ended"]
        /\ UNCHANGED <<via, remote, heard, runs, troubles>>
    BY <1>7, OutcomeEffect
  <2> QED
    BY <1>0, <2>1, <2>2 DEF Outcomes
<1>8. ASSUME NEW h \in Servers, Command!AppendRun(h) PROVE Outcomes'
  <2>1. /\ pc[h] = "audit" /\ pc' = [pc EXCEPT ![h] = "load"] /\ UNCHANGED <<via, remote, heard, result>>
        /\ \/ runs' = [runs EXCEPT ![h] = @ \union {result[h]}] /\ troubles' = troubles
           \/ runs' = runs /\ troubles' = troubles + 1
    BY <1>8 DEF Command!AppendRun, Command!InsertRun
  <2>2. CASE runs' = [runs EXCEPT ![h] = @ \union {result[h]}] /\ troubles' = troubles
    BY <1>0, <2>1, <2>2
  <2>3. CASE runs' = runs /\ troubles' = troubles + 1
    <3>1. troubles' # 0
      BY <1>20, <2>3
    <3> QED
      BY <1>0, <2>1, <2>3, <3>1
  <2> QED
    BY <2>1, <2>2, <2>3
<1>9. ASSUME NEW h \in Servers, Command!Load(h) \/ Command!Count(h) PROVE Outcomes'
  <2>1. /\ UNCHANGED <<via, remote, heard, result, runs, troubles>> /\ pc[h] \in {"load", "count"}
        /\ \E to \in {"count", "ended"} : pc' = [pc EXCEPT ![h] = to]
    BY <1>9 DEF Command!Load, Command!Count
  <2> QED
    BY <1>0, <2>1
<1>10. ASSUME NEW h \in Servers, NEW end \in {"zero", "nonzero"},
              Command!RemoteEnds(h, end) \/ Command!ConnectionBreaks(h)
       PROVE  Outcomes'
  <2>1. /\ UNCHANGED <<via, pc, result, runs, troubles>> /\ remote[h] = "running"
        /\ remote' = [remote EXCEPT ![h] = remote'[h]]
        /\ heard' = [heard EXCEPT ![h] = heard'[h]]
    BY <1>0, <1>10 DEF Command!RemoteEnds, Command!ConnectionBreaks
  <2>2. heard'[h] \in {"zero", "nonzero"} => remote'[h] = heard'[h]
    BY <1>0, <1>10 DEF Command!RemoteEnds, Command!ConnectionBreaks
  <2>3. heard[h] = "lost" => heard'[h] = "lost"
    BY <1>0, <1>10 DEF Command!RemoteEnds, Command!ConnectionBreaks
  <2>4. \A g \in Servers : g # h => remote'[g] = remote[g] /\ heard'[g] = heard[g]
    BY <1>0, <2>1
  <2>5. pc[h] \notin {"queued", "connecting", "handshake"}
        /\ (pc[h] \in {"audit", "load", "count", "ended"} => result[h] # "success"
              /\ (result[h] = "failed" => heard[h] = "lost"))
    BY <1>0, <2>1
  <2> QED
    BY <1>0, <2>1, <2>2, <2>3, <2>4, <2>5
<1> QED
  BY <1>1, <1>2, <1>3, <1>4, <1>5, <1>6, <1>7, <1>8, <1>9, <1>10
     DEF Command!Next, Command!Goroutine, Command!Peer

\* Every step of a process that lives keeps the counters no more than the hosts.
LEMMA CountedStep ==
  ASSUME CommandBounded, CommandInv, [Command!Next]_Command!vars, phase' # "crashed"
  PROVE  Counted'
<1> USE DEF Counted, Command!Goto, Command!request, Command!counters,
            Command!overThere
<1>0. /\ pc \in [Servers -> {"absent", "queued", "connecting", "handshake", "starting", "waiting",
                             "audit", "load", "count", "ended"}]
      /\ result \in [Servers -> Command!Statuses \union {""}]
      /\ loaded \in [Servers -> Int]
      /\ Phased
  BY DEF CommandInv, Command!TypeOK
<1>1. Counted
  <2>1. phase # "crashed"
    BY DEF Command!Next, Command!vars, Command!BeginExecute, Command!ContextEnds,
       Command!AnswerExecute, Command!AnswerRun, Command!Crash, Command!BeginRun,
       Command!Goroutine, Command!Acquire, Command!DialFails, Command!Connect,
       Command!WaitReturns, Command!TimesOut, Command!AppendRun, Command!Load,
       Command!Count, Command!Peer, Command!Refused, Command!StartCommand, Command!RemoteEnds,
       Command!Started, Command!StartFails, Command!ConnectionBreaks
  <2> QED
    BY <2>1 DEF CommandInv
<1>2. /\ IsFiniteSet(Succeeded) /\ IsFiniteSet(Unsucceeded)
      /\ Cardinality(Succeeded) \in Nat /\ Cardinality(Unsucceeded) \in Nat
      /\ IsFiniteSet(Succeeded') /\ IsFiniteSet(Unsucceeded')
      /\ Cardinality(Succeeded') \in Nat /\ Cardinality(Unsucceeded') \in Nat
  <2>1. /\ Succeeded \in SUBSET Servers /\ Unsucceeded \in SUBSET Servers
        /\ Succeeded' \in SUBSET Servers /\ Unsucceeded' \in SUBSET Servers
    BY DEF Succeeded, Unsucceeded
  <2> QED
    BY <2>1, FS_Subset, FS_CardinalityType DEF CommandBounded
\* Hosts that have ended stay so.
<1>3. ASSUME \A h \in Servers : pc[h] = "ended" => pc'[h] = "ended" /\ result'[h] = result[h]
      PROVE  /\ Succeeded \subseteq Succeeded' /\ Unsucceeded \subseteq Unsucceeded'
             /\ Cardinality(Succeeded) <= Cardinality(Succeeded')
             /\ Cardinality(Unsucceeded) <= Cardinality(Unsucceeded')
  <2>1. Succeeded \subseteq Succeeded' /\ Unsucceeded \subseteq Unsucceeded'
    BY <1>3 DEF Succeeded, Unsucceeded
  <2> QED
    BY <1>2, <2>1, FS_Subset
\* What leaves the counters alone, and has nobody about to count or ended.
<1>4. ASSUME UNCHANGED <<success, failed, loaded>>,
             \A h \in Servers : pc[h] = "ended" => pc'[h] = "ended" /\ result'[h] = result[h],
             \A h \in Servers : pc'[h] = "count" => pc[h] = "count" /\ result'[h] = result[h],
             via' # "execute" \/ \A h \in Servers : pc'[h] = "ended" => pc[h] = "ended" /\ via = via'
      PROVE  Counted'
  <2>1. /\ Cardinality(Succeeded) <= Cardinality(Succeeded')
        /\ Cardinality(Unsucceeded) <= Cardinality(Unsucceeded')
    BY <1>3, <1>4
  <2>2. success <= Cardinality(Succeeded') /\ failed <= Cardinality(Unsucceeded')
    BY <1>1, <1>2, <2>1
  <2>3. \A h \in Servers : pc'[h] = "count" =>
          /\ loaded[h] \in Nat
          /\ result'[h] = "success" => loaded[h] <= Cardinality(Succeeded')
          /\ result'[h] # "success" => loaded[h] <= Cardinality(Unsucceeded')
    BY <1>1, <1>2, <1>4, <2>1
  <2> QED
    BY <1>1, <1>4, <2>2, <2>3
<1>5. CASE Command!BeginExecute
  BY <1>0, <1>4, <1>5 DEF Command!BeginExecute, Phased
<1>6. ASSUME NEW h \in Servers, Command!BeginRun(h) PROVE Counted'
  BY <1>0, <1>4, <1>6 DEF Command!BeginRun, Phased
<1>7. CASE \/ Command!ContextEnds \/ Command!AnswerExecute \/ Command!AnswerRun
           \/ (\E h \in Servers : Command!ConnectionBreaks(h))
           \/ (\E h \in Servers, end \in {"zero", "nonzero"} : Command!RemoteEnds(h, end))
           \/ UNCHANGED Command!vars
  <2>1. UNCHANGED <<success, failed, loaded, pc, result, via>>
    BY <1>7 DEF Command!ContextEnds, Command!AnswerExecute, Command!AnswerRun,
       Command!RemoteEnds, Command!ConnectionBreaks, Command!vars
  <2> QED
    BY <1>4, <2>1
<1>8. CASE Command!Crash
  BY <1>8 DEF Command!Crash
<1>9. ASSUME NEW h \in Servers,
             \/ Command!Acquire(h) \/ Command!Connect(h) \/ Command!StartCommand(h)
             \/ Command!Started(h) \/ Command!AppendRun(h)
      PROVE  Counted'
  <2>1. /\ UNCHANGED <<success, failed, loaded, result, via>> /\ pc[h] # "ended"
        /\ \E to \in {"connecting", "handshake", "starting", "waiting", "load"} : pc' = [pc EXCEPT ![h] = to]
    BY <1>9 DEF Command!Acquire, Command!Connect, Command!StartCommand, Command!Started,
       Command!AppendRun
  <2>2. \A g \in Servers : /\ pc[g] = "ended" <=> pc'[g] = "ended"
                           /\ pc'[g] = "count" => pc[g] = "count"
    BY <1>0, <2>1
  <2> QED
    BY <1>4, <2>1, <2>2
<1>10. ASSUME NEW h \in Servers,
              \/ Command!DialFails(h) \/ Command!Refused(h) \/ Command!StartFails(h)
              \/ Command!WaitReturns(h) \/ Command!TimesOut(h)
       PROVE  Counted'
  <2>1. /\ pc[h] \in {"connecting", "handshake", "starting", "waiting"}
        /\ pc' = [pc EXCEPT ![h] = IF via = "execute" THEN "audit" ELSE "ended"]
        /\ UNCHANGED <<via, loaded, success, failed>>
    BY <1>10, OutcomeEffect
  <2>2. \E outcome \in Command!Statuses : result' = [result EXCEPT ![h] = outcome]
    BY <1>10, OutcomeEffect
  <2>3. \A g \in Servers : /\ pc[g] = "ended" => pc'[g] = "ended" /\ result'[g] = result[g]
                           /\ pc'[g] = "count" => pc[g] = "count" /\ result'[g] = result[g]
                           /\ via = "execute" => (pc'[g] = "ended" => pc[g] = "ended")
    BY <1>0, <2>1, <2>2
  <2> QED
    BY <1>4, <2>1, <2>3
<1>11. ASSUME NEW h \in Servers, Command!Load(h) PROVE Counted'
  <2>1. /\ pc[h] = "load" /\ pc' = [pc EXCEPT ![h] = "count"]
        /\ loaded' = [loaded EXCEPT ![h] = IF result[h] = "success" THEN success ELSE failed]
        /\ UNCHANGED <<result, success, failed, via>>
    BY <1>11 DEF Command!Load
  <2>2. \A g \in Servers : /\ pc[g] = "ended" <=> pc'[g] = "ended"
                           /\ pc'[g] = "count" => g = h \/ pc[g] = "count"
                           /\ loaded'[g] = IF g # h THEN loaded[g]
                                           ELSE IF result[h] = "success" THEN success ELSE failed
    BY <1>0, <2>1
  <2>3. Succeeded' = Succeeded /\ Unsucceeded' = Unsucceeded
    BY <2>1, <2>2 DEF Succeeded, Unsucceeded
  <2> QED
    BY <1>1, <2>1, <2>2, <2>3
<1>12. ASSUME NEW h \in Servers, Command!Count(h) PROVE Counted'
  <2>1. /\ pc[h] = "count" /\ pc' = [pc EXCEPT ![h] = "ended"]
        /\ loaded' = [loaded EXCEPT ![h] = 0]
        /\ UNCHANGED <<result, via>>
    BY <1>12 DEF Command!Count
  <2>2. \A g \in Servers : /\ pc[g] = "ended" => pc'[g] = "ended"
                           /\ pc'[g] = "count" => g # h /\ pc[g] = "count"
                           /\ g # h => loaded'[g] = loaded[g]
    BY <1>0, <2>1
  <2>3. /\ Succeeded \subseteq Succeeded' /\ Unsucceeded \subseteq Unsucceeded'
        /\ Cardinality(Succeeded) <= Cardinality(Succeeded')
        /\ Cardinality(Unsucceeded) <= Cardinality(Unsucceeded')
    BY <1>3, <2>1, <2>2
  <2>4. \A g \in Servers : pc'[g] = "count" =>
          /\ loaded'[g] \in Nat
          /\ result'[g] = "success" => loaded'[g] <= Cardinality(Succeeded')
          /\ result'[g] # "success" => loaded'[g] <= Cardinality(Unsucceeded')
    BY <1>1, <1>2, <2>1, <2>2, <2>3
  <2>5. CASE result[h] = "success"
    <3>1. success' = loaded[h] + 1 /\ failed' = failed
      BY <1>12, <2>5 DEF Command!Count
    <3>2. h \notin Succeeded /\ Succeeded' = Succeeded \union {h}
      BY <1>0, <2>1, <2>5 DEF Succeeded
    <3>3. Cardinality(Succeeded') = Cardinality(Succeeded) + 1
      BY <1>2, <3>2, FS_AddElement
    <3>4. loaded[h] \in Nat /\ loaded[h] <= Cardinality(Succeeded)
      BY <1>1, <2>1, <2>5
    <3>5. success' \in Nat /\ success' <= Cardinality(Succeeded') /\ success' > 0
      BY <1>2, <3>1, <3>3, <3>4
    <3>6. failed' \in Nat /\ failed' <= Cardinality(Unsucceeded')
      BY <1>1, <1>2, <2>3, <3>1
    <3>7. success' + failed' > 0
      BY <3>5, <3>6, SomeCounted
    <3> HIDE DEF Command!Goto
    <3> QED
      BY <2>4, <3>5, <3>6, <3>7
  <2>6. CASE result[h] # "success"
    <3>1. failed' = loaded[h] + 1 /\ success' = success
      BY <1>12, <2>6 DEF Command!Count
    <3>2. h \notin Unsucceeded /\ Unsucceeded' = Unsucceeded \union {h}
      BY <1>0, <2>1, <2>6 DEF Unsucceeded
    <3>3. Cardinality(Unsucceeded') = Cardinality(Unsucceeded) + 1
      BY <1>2, <3>2, FS_AddElement
    <3>4. loaded[h] \in Nat /\ loaded[h] <= Cardinality(Unsucceeded)
      BY <1>1, <2>1, <2>6
    <3>5. failed' \in Nat /\ failed' <= Cardinality(Unsucceeded') /\ failed' > 0
      BY <1>2, <3>1, <3>3, <3>4
    <3>6. success' \in Nat /\ success' <= Cardinality(Succeeded')
      BY <1>1, <1>2, <2>3, <3>1
    <3>7. success' + failed' > 0
      BY <3>5, <3>6, SomeCounted
    <3> HIDE DEF Command!Goto
    <3> QED
      BY <2>4, <3>5, <3>6, <3>7
  <2> QED
    BY <2>5, <2>6
<1> QED
  BY <1>5, <1>6, <1>7, <1>8, <1>9, <1>10, <1>11, <1>12
     DEF Command!Next, Command!Goroutine, Command!Peer

\* The answer to a command on several servers has an outcome for each, and the true
\* one; none is counted twice, and none runs without its event.
THEOREM CommandHolds ==
  ASSUME CommandBounded
  PROVE  Command!Spec => [](/\ Command!TypeOK /\ Command!AnswerTellsHosts
                            /\ Command!NeverOvercounted /\ Command!NothingRunsUnaudited)
<1>1. Command!Init => CommandInv
  <2> SUFFICES ASSUME Command!Init PROVE CommandInv
    OBVIOUS
  <2> USE DEF Command!Init
  <2>1. Command!TypeOK
    <3>1. /\ troubles = 0 /\ success = 0 /\ failed = 0 /\ loaded = [h \in Servers |-> 0]
          /\ via = "none" /\ phase = "idle" /\ event = "due"
          /\ pc = [h \in Servers |-> "absent"] /\ remote = [h \in Servers |-> "none"]
          /\ heard = [h \in Servers |-> "nothing"]
          /\ result = [h \in Servers |-> ""] /\ runs = [h \in Servers |-> {}]
      OBVIOUS
    <3>2. ctx \in BOOLEAN
      OBVIOUS
    <3> HIDE DEF Command!Init
    <3>3. /\ troubles \in 0..MaxTroubles /\ success \in Int /\ failed \in Int
          /\ loaded \in [Servers -> Int]
      <4>1. MaxTroubles \in Nat
        BY DEF CommandBounded
      <4>2. troubles = 0 /\ success = 0 /\ failed = 0
        BY <3>1
      <4>3. loaded \in [Servers -> Int]
        <5>1. loaded = [h \in Servers |-> 0]
          BY <3>1
        <5> QED
          BY <5>1
      <4> QED
        BY <4>1, <4>2, <4>3
    <3> QED
      BY <3>1, <3>2, <3>3 DEF Command!TypeOK
  <2>2. Phased /\ Outcomes
    BY DEF Phased, Outcomes
  <2>3. Counted
    <3>1. Succeeded \in SUBSET Servers /\ Unsucceeded \in SUBSET Servers
      BY DEF Succeeded, Unsucceeded
    <3>2. Cardinality(Succeeded) \in Nat /\ Cardinality(Unsucceeded) \in Nat
      BY <3>1, FS_Subset, FS_CardinalityType DEF CommandBounded
    <3>3. success = 0 /\ failed = 0 /\ via = "none" /\ \A h \in Servers : pc[h] = "absent"
      OBVIOUS
    <3> HIDE DEF Command!Init
    <3> QED
      BY <3>2, <3>3 DEF Counted
  <2> QED
    BY <2>1, <2>2, <2>3 DEF CommandInv
<1>2. CommandInv /\ [Command!Next]_Command!vars => CommandInv'
  <2> SUFFICES ASSUME CommandInv, [Command!Next]_Command!vars PROVE CommandInv'
    OBVIOUS
  <2>1. Command!TypeOK' /\ Phased' /\ Outcomes'
    BY CommandTypeStep, PhasedStep, OutcomesStep
  <2>2. phase' # "crashed" => Counted'
    BY CountedStep
  <2> QED
    BY <2>1, <2>2 DEF CommandInv
<1>3. CommandInv => /\ Command!TypeOK /\ Command!AnswerTellsHosts
                    /\ Command!NeverOvercounted /\ Command!NothingRunsUnaudited
  <2> SUFFICES ASSUME CommandInv
               PROVE  /\ Command!AnswerTellsHosts
                      /\ Command!NeverOvercounted /\ Command!NothingRunsUnaudited
    BY DEF CommandInv
  <2>0. Phased /\ Outcomes /\ via \in {"none", "execute", "run"}
    BY DEF CommandInv, Command!TypeOK
  <2>1. Command!NothingRunsUnaudited
    BY <2>0 DEF Phased, Command!NothingRunsUnaudited
  <2>2. Command!AnswerTellsHosts
    <3> SUFFICES ASSUME phase = "answered", NEW h \in Command!Targets
                 PROVE  /\ h \in Servers /\ pc[h] = "ended"
      BY <2>0 DEF Command!AnswerTellsHosts, Outcomes
    <3>1. h \in Servers /\ (via = "run" => pc[h] # "absent")
      BY DEF Command!Targets
    <3> QED
      BY <2>0, <3>1 DEF Phased
  <2>3. Command!NeverOvercounted
    <3> SUFFICES ASSUME phase = "answered", via = "execute"
                 PROVE  /\ success <= Cardinality({h \in Servers : result[h] = "success"})
                        /\ failed <= Cardinality({h \in Servers : result[h] # "success"})
                        /\ success + failed > 0
      BY CommandCounts DEF Command!NeverOvercounted
    <3>1. \A h \in Servers : pc[h] = "ended"
      BY <2>0 DEF Phased
    <3>2. /\ Succeeded = {h \in Servers : result[h] = "success"}
          /\ Unsucceeded = {h \in Servers : result[h] # "success"}
      BY <3>1 DEF Succeeded, Unsucceeded
    <3>3. Counted
      BY DEF CommandInv
    <3>4. success + failed > 0
      BY <3>1, <3>3 DEF Counted, CommandBounded
    <3> QED
      BY <3>2, <3>3, <3>4 DEF Counted
  <2> QED
    BY <2>1, <2>2, <2>3
<1> QED
  BY <1>1, <1>2, <1>3, PTL DEF Command!Spec

\* The same of what the runs check.
THEOREM CommandHoldsThroughout == ASSUME CommandBounded PROVE SumSpec => []CommandsAreTold
<1>1. SumInit /\ focus = "command" => Command!Init
  BY DEF SumInit
<1>2. focus = "command" /\ [SumNext]_sumVars
        => [Command!Next]_Command!vars /\ (focus = "command")'
  BY DEF SumNext, accountOnly, knownOnly, keyOnly, tunnelOnly, fleetOnly, remoteOnly,
         commandOnly, containerOnly, serverOnly, filesOnly, sumVars, Command!request,
         Command!counters, Command!overThere, Command!vars
<1>3. ~(focus = "command") /\ [SumNext]_sumVars => (~(focus = "command"))'
  BY DEF SumNext, sumVars
<1>4. (focus = "command" => /\ Command!TypeOK /\ Command!AnswerTellsHosts
                            /\ Command!NeverOvercounted /\ Command!NothingRunsUnaudited)
        => CommandsAreTold
  BY DEF CommandsAreTold
<1>5. Command!Spec => [](/\ Command!TypeOK /\ Command!AnswerTellsHosts
                         /\ Command!NeverOvercounted /\ Command!NothingRunsUnaudited)
  BY CommandHolds, PTL
<1> QED
  BY <1>1, <1>2, <1>3, <1>4, <1>5, PTL DEF SumSpec, Command!Spec

=============================================================================
