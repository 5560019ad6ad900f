---------------------------- MODULE DeployProofs ----------------------------
(***************************************************************************)
(* Theorems about Deploy, for any projects, deployments, crashes and       *)
(* failing writes: type correctness, and the lock discipline of the        *)
(* service with the inductive invariant it rests on.                       *)
(***************************************************************************)
EXTENDS Deploy, FiniteSetTheorems, TLAPS

-----------------------------------------------------------------------------
\* A goroutine belongs to a configured project.
Claimed == \A d \in Deployments : Live(d) => proj[d] \in Configured

\* run writes an outcome only after it has computed one.
Judged ==
  \A d \in Deployments :
    pc[d] \in {"finalizing", "reporting"} => verdict[d] \in StatusTerminal

\* TypeOK alone is not inductive: a channel is registered for proj[d] and
\* verdict[d] is written to the row, so both must be meaningful by then.
TypeInv == TypeOK /\ Claimed /\ Judged

\* Every step keeps TypeInv.
LEMMA TypeInvStep == ASSUME TypeInv, [Next]_vars PROVE TypeInv'
<1> USE DeployAssumption
<1> USE DEF TypeInv, TypeOK, Claimed, Judged, Live, Goto, Status, StatusTerminal,
            Streams, Foreground, Background, Started, osVars, Fault, NoFault,
            WriteFails, WriteWorks
<1>1. ASSUME NEW d \in Deployments, NEW p \in Projects, Trigger(d, p) PROVE TypeInv'
  BY <1>1 DEF Trigger
<1>2. ASSUME NEW d \in Deployments, Create(d) PROVE TypeInv'
  BY <1>2 DEF Create
<1>3. ASSUME NEW d \in Deployments, CreateFails(d) PROVE TypeInv'
  BY <1>3 DEF CreateFails, ReleaseLock
<1>4. ASSUME NEW d \in Deployments, Launch(d) PROVE TypeInv'
  BY <1>4 DEF Launch
<1>5. ASSUME NEW d \in Deployments, MarkRunning(d) PROVE TypeInv'
  BY <1>5 DEF MarkRunning
<1>6. ASSUME NEW d \in Deployments, Start(d) PROVE TypeInv'
  BY <1>6 DEF Start
<1>7. ASSUME NEW d \in Deployments, StartFails(d) PROVE TypeInv'
  BY <1>7 DEF StartFails
<1>8. ASSUME NEW d \in Deployments, NEW s \in Streams,
             StreamEOF(d, s) \/ StreamAbort(d, s)
      PROVE TypeInv'
  BY <1>8 DEF StreamEOF, StreamAbort
<1>9. ASSUME NEW d \in Deployments, Reap(d) PROVE TypeInv'
  BY <1>9 DEF Reap
<1>10. ASSUME NEW d \in Deployments, Finalize(d) PROVE TypeInv'
  BY <1>10 DEF Finalize
<1>11. ASSUME NEW d \in Deployments, FireEvent(d) PROVE TypeInv'
  BY <1>11 DEF FireEvent
<1>12. ASSUME NEW d \in Deployments, Release(d) PROVE TypeInv'
  BY <1>12 DEF Release, ReleaseLock
<1>13. ASSUME NEW d \in Deployments, Expire(d) \/ Kill(d) PROVE TypeInv'
  BY <1>13 DEF Expire, Kill
<1>14. ASSUME NEW d \in Deployments, BashExits(d) \/ Fork(d) \/ HelperExits(d)
      PROVE TypeInv'
  BY <1>14 DEF BashExits, Fork, HelperExits
<1>15. ASSUME Crash PROVE TypeInv'
  BY <1>15 DEF Crash
<1>16. ASSUME UNCHANGED vars PROVE TypeInv'
  BY <1>16 DEF vars
<1> QED
  BY <1>1, <1>2, <1>3, <1>4, <1>5, <1>6, <1>7, <1>8, <1>9, <1>10, <1>11,
     <1>12, <1>13, <1>14, <1>15, <1>16 DEF Next, Service, Environment

\* Every variable keeps its type: each status, event and verdict the code
\* writes is one its readers know.
THEOREM TypeCorrect == Spec => []TypeOK
<1>1. Init => TypeInv
  BY DeployAssumption
  DEF Init, TypeInv, TypeOK, Claimed, Judged, Live, Status, StatusTerminal
<1>2. TypeInv /\ [Next]_vars => TypeInv'
  BY TypeInvStep
<1>3. TypeInv => TypeOK
  BY DEF TypeInv
<1> QED
  BY <1>1, <1>2, <1>3, PTL DEF Spec

-----------------------------------------------------------------------------
\* The lock discipline.  Each of the three needs the others: a release may
\* drop the project from lock and doneCh only because no second goroutine
\* of the project is there, and a trigger may add one only because a free
\* lock means that no goroutine is.
LockDiscipline == OneRunPerProject /\ LockIsOwned /\ ChannelIsOwned

Registered(d) ==
  pc[d] \in {"marking", "starting", "streaming", "finalizing", "reporting", "releasing"}

\* The set equations of LockDiscipline, element by element.
LEMMA LockPointwise ==
  /\ LockIsOwned <=>
       /\ \A p \in lock : \E d \in Deployments : Live(d) /\ proj[d] = p
       /\ \A d \in Deployments : Live(d) => proj[d] \in lock
  /\ ChannelIsOwned <=>
       /\ \A p \in doneCh : \E d \in Deployments : Registered(d) /\ proj[d] = p
       /\ \A d \in Deployments : Registered(d) => proj[d] \in doneCh
BY DEF LockIsOwned, ChannelIsOwned, Registered

\* A step that moves goroutines only between states with a channel, and
\* leaves locks, channels and projects alone, keeps the discipline.
LEMMA LockFrame ==
  ASSUME LockDiscipline, UNCHANGED <<lock, doneCh, proj>>,
         \A d \in Deployments : Live(d)' <=> Live(d),
         \A d \in Deployments : Registered(d)' <=> Registered(d)
  PROVE  LockDiscipline'
<1>1. OneRunPerProject'
  BY DEF LockDiscipline, OneRunPerProject
<1>2. {d \in Deployments : Live(d)}' = {d \in Deployments : Live(d)}
  OBVIOUS
<1>3. {d \in Deployments : Registered(d)}' = {d \in Deployments : Registered(d)}
  OBVIOUS
<1>4. LockIsOwned'
  BY <1>2 DEF LockDiscipline, LockIsOwned
<1>5. ChannelIsOwned'
  BY <1>3 DEF LockDiscipline, ChannelIsOwned, Registered
<1> QED
  BY <1>1, <1>4, <1>5 DEF LockDiscipline

\* Every step keeps the discipline.
LEMMA LockStep == ASSUME TypeInv, LockDiscipline, [Next]_vars PROVE LockDiscipline'
<1> USE DEF TypeInv, TypeOK, Live, Registered, Goto
<1>1. ASSUME NEW d \in Deployments, NEW p \in Projects, Trigger(d, p)
      PROVE  LockDiscipline'
  <2>1. /\ ~Live(d) /\ Live(d)' /\ ~Registered(d)' /\ proj'[d] = p
        /\ \A e \in Deployments \ {d} : pc'[e] = pc[e] /\ proj'[e] = proj[e]
        /\ lock' = lock \union {p} /\ p \notin lock /\ doneCh' = doneCh
    BY <1>1 DEF Trigger
  <2>2. \A e \in Deployments : Live(e) => proj[e] # p
    BY <2>1, LockPointwise DEF LockDiscipline
  <2>3. OneRunPerProject'
    BY <2>1, <2>2 DEF LockDiscipline, OneRunPerProject
  <2>4. LockIsOwned'
    BY <2>1, LockPointwise DEF LockDiscipline, LockIsOwned
  <2>5. ChannelIsOwned'
    BY <2>1, LockPointwise DEF LockDiscipline, ChannelIsOwned
  <2> QED
    BY <2>3, <2>4, <2>5 DEF LockDiscipline
<1>2. ASSUME NEW d \in Deployments, CreateFails(d) \/ Release(d)
      PROVE  LockDiscipline'
  <2>1. /\ Live(d) /\ ~Live(d)' /\ ~Registered(d)' /\ proj' = proj
        /\ \A e \in Deployments \ {d} : pc'[e] = pc[e]
        /\ lock' = lock \ {proj[d]} /\ doneCh' = doneCh \ {proj[d]}
    BY <1>2 DEF CreateFails, Release, ReleaseLock
  <2>2. \A e \in Deployments \ {d} : Live(e) => proj[e] # proj[d]
    BY <2>1 DEF LockDiscipline, OneRunPerProject
  <2>3. OneRunPerProject'
    BY <2>1 DEF LockDiscipline, OneRunPerProject
  <2>4. LockIsOwned'
    BY <2>1, <2>2, LockPointwise DEF LockDiscipline, LockIsOwned
  <2>5. ChannelIsOwned'
    BY <2>1, <2>2, LockPointwise DEF LockDiscipline, ChannelIsOwned
  <2> QED
    BY <2>3, <2>4, <2>5 DEF LockDiscipline
<1>3. ASSUME NEW d \in Deployments, Launch(d) PROVE LockDiscipline'
  <2>1. /\ Live(d) /\ Live(d)' /\ Registered(d)' /\ proj' = proj /\ lock' = lock
        /\ \A e \in Deployments \ {d} : pc'[e] = pc[e]
        /\ doneCh' = doneCh \union {proj[d]}
    BY <1>3 DEF Launch
  <2>2. OneRunPerProject'
    BY <2>1 DEF LockDiscipline, OneRunPerProject
  <2>3. LockIsOwned'
    BY <2>1 DEF LockDiscipline, LockIsOwned
  <2>4. ChannelIsOwned'
    BY <2>1, LockPointwise DEF LockDiscipline, ChannelIsOwned
  <2> QED
    BY <2>2, <2>3, <2>4 DEF LockDiscipline
<1>4. ASSUME NEW d \in Deployments,
             Create(d) \/ MarkRunning(d) \/ Start(d) \/ StartFails(d)
               \/ Reap(d) \/ Finalize(d) \/ FireEvent(d)
      PROVE  LockDiscipline'
  BY <1>4, LockFrame
  DEF Create, MarkRunning, Start, StartFails, Reap, Finalize, FireEvent
<1>5. ASSUME NEW d \in Deployments,
             Environment(d) \/ \E s \in Streams : StreamEOF(d, s)
      PROVE  LockDiscipline'
  BY <1>5, LockFrame
  DEF Environment, StreamAbort, Expire, Kill, BashExits, Fork, HelperExits, StreamEOF
<1>6. ASSUME Crash PROVE LockDiscipline'
  BY <1>6 DEF Crash, LockDiscipline, OneRunPerProject, LockIsOwned, ChannelIsOwned
<1>7. ASSUME UNCHANGED vars PROVE LockDiscipline'
  BY <1>7, LockFrame DEF vars
<1> QED
  BY <1>1, <1>2, <1>3, <1>4, <1>5, <1>6, <1>7 DEF Next, Service

\* TypeInv and LockDiscipline hold for ever.
LEMMA DisciplineHolds == Spec => [](TypeInv /\ LockDiscipline)
<1>1. Init => TypeInv /\ LockDiscipline
  BY DeployAssumption
  DEF Init, TypeInv, TypeOK, Claimed, Judged, Live, Status, StatusTerminal,
      LockDiscipline, OneRunPerProject, LockIsOwned, ChannelIsOwned
<1>2. TypeInv /\ LockDiscipline /\ [Next]_vars => (TypeInv /\ LockDiscipline)'
  BY TypeInvStep, LockStep
<1> QED
  BY <1>1, <1>2, PTL DEF Spec

\* "Only one deployment may run per project at any time", as far as the
\* goroutines of one dashboard process go.
THEOREM OneRun == Spec => []OneRunPerProject
BY DisciplineHolds, PTL DEF LockDiscipline

\* No path through Trigger and run leaks a lock or runs without one.
THEOREM NoLeakedLock == Spec => []LockIsOwned
BY DisciplineHolds, PTL DEF LockDiscipline

\* A channel is closed by the deployment that registered it, once.
THEOREM OneChannelPerRun == Spec => []ChannelIsOwned
BY DisciplineHolds, PTL DEF LockDiscipline

-----------------------------------------------------------------------------
\* How far a row may be behind its goroutine.  A goroutine that reaches
\* finalize still finds its row without an outcome, which is why an outcome
\* is never overwritten although no statement of repo.go checks for one.
RowFits(d) ==
  /\ pc[d] = "acquired" => row[d] = "absent"
  /\ pc[d] \in {"created", "marking"} => row[d] = "pending"
  /\ pc[d] \in {"starting", "streaming", "finalizing"} => row[d] \in {"pending", "running"}
  /\ pc[d] \in {"reporting", "releasing"} => row[d] # "absent"
  /\ proj[d] = NoProject => row[d] = "absent" /\ pc[d] = "none"

RowsFit == \A d \in Deployments : RowFits(d)

\* Every step keeps RowsFit.
LEMMA RowsFitStep == ASSUME TypeInv, RowsFit, [Next]_vars PROVE RowsFit'
<1> USE DeployAssumption
        DEF TypeInv, TypeOK, Claimed, Live, RowsFit, RowFits, Goto, osVars
<1>1. ASSUME NEW d \in Deployments, NEW p \in Projects, Trigger(d, p) PROVE RowsFit'
  BY <1>1 DEF Trigger
<1>2. ASSUME NEW d \in Deployments, Create(d) \/ CreateFails(d) \/ Launch(d)
      PROVE  RowsFit'
  BY <1>2 DEF Create, CreateFails, Launch, ReleaseLock
<1>3. ASSUME NEW d \in Deployments, MarkRunning(d) \/ Start(d) \/ StartFails(d)
      PROVE  RowsFit'
  BY <1>3 DEF MarkRunning, Start, StartFails
<1>4. ASSUME NEW d \in Deployments, Reap(d) \/ FireEvent(d) \/ Release(d)
      PROVE  RowsFit'
  BY <1>4 DEF Reap, FireEvent, Release, ReleaseLock
<1>5. ASSUME NEW d \in Deployments, Finalize(d) PROVE RowsFit'
  BY <1>5 DEF Finalize, Judged, StatusTerminal
<1>6. ASSUME NEW d \in Deployments,
             Environment(d) \/ \E s \in Streams : StreamEOF(d, s)
      PROVE  RowsFit'
  BY <1>6
  DEF Environment, StreamAbort, Expire, Kill, BashExits, Fork, HelperExits, StreamEOF
<1>7. ASSUME Crash PROVE RowsFit'
  BY <1>7 DEF Crash
<1>8. ASSUME UNCHANGED vars PROVE RowsFit'
  BY <1>8 DEF vars
<1> QED
  BY <1>1, <1>2, <1>3, <1>4, <1>5, <1>6, <1>7, <1>8 DEF Next, Service

\* A step that changes neither rows nor goroutines' progress stutters.
LEMMA LedgerStutter ==
  ASSUME UNCHANGED <<row, InProgress>>,
         \A d \in Deployments : row[d] # "absent" => proj'[d] = proj[d]
  PROVE  UNCHANGED Ledger!vars
BY DEF Ledger!vars

\* Every step of the service is a step of the ledger or a stutter.
LEMMA LedgerStep ==
  ASSUME TypeInv, LockDiscipline, RowsFit, RowsFit', [Next]_vars
  PROVE  [Ledger!Next]_(Ledger!vars)
<1> DEFINE owner == [d \in Deployments |-> IF row[d] = "absent" THEN NoProject ELSE proj[d]]
<1> USE DeployAssumption
        DEF TypeInv, TypeOK, Claimed, Live, RowsFit, RowFits, Goto, osVars, InProgress
<1>1. ASSUME NEW d \in Deployments, NEW p \in Projects, Trigger(d, p)
      PROVE  UNCHANGED Ledger!vars
  BY <1>1, LedgerStutter DEF Trigger
<1>2. ASSUME NEW d \in Deployments, Create(d) \/ CreateFails(d)
      PROVE  [Ledger!Next]_(Ledger!vars)
  <2>1. /\ pc[d] = "acquired" /\ row[d] = "absent" /\ proj' = proj
        /\ proj[d] \in Projects
        /\ row' \in {row, [row EXCEPT ![d] = "pending"]}
        /\ \A e \in Deployments \ {d} : pc'[e] = pc[e]
        /\ pc'[d] = "none" \/ (pc'[d] = "created" /\ row'[d] = "pending")
    BY <1>2 DEF Create, CreateFails
  <2>2. InProgress' \in {InProgress, InProgress \union {d}}
    BY <2>1
  <2>3. CASE row' = row
    <3>1. pc'[d] = "none"
      BY <2>1, <2>3
    <3>2. InProgress' = InProgress
      BY <2>1, <3>1
    <3> QED
      BY <2>1, <2>3, <3>2, LedgerStutter
  <2>4. CASE row' = [row EXCEPT ![d] = "pending"]
    <3>1. PICK p \in Projects : proj[d] = p
      BY <2>1
    <3>2. \A e \in InProgress : owner[e] # p
      BY <2>1, <3>1 DEF LockDiscipline, OneRunPerProject
    <3>3. owner' = [owner EXCEPT ![d] = p]
      BY <2>1, <2>4, <3>1
    <3>4. Ledger!Accept(d, p)
      BY <2>1, <2>2, <2>4, <3>2, <3>3 DEF Ledger!Accept
    <3> QED
      BY <3>4 DEF Ledger!Next
  <2> QED
    BY <2>1, <2>3, <2>4
<1>3. ASSUME NEW d \in Deployments, MarkRunning(d) \/ Finalize(d)
      PROVE  [Ledger!Next]_(Ledger!vars)
  <2>1. /\ d \in InProgress /\ row[d] # "absent" /\ proj' = proj /\ InProgress' = InProgress
    BY <1>3 DEF MarkRunning, Finalize
  <2>2. CASE row' = row
    BY <2>1, <2>2, LedgerStutter
  <2>3. CASE MarkRunning(d) /\ row' = [row EXCEPT ![d] = "running"]
    <3>1. Ledger!Begin(d)
      BY <2>1, <2>3 DEF MarkRunning, Ledger!Begin
    <3> QED
      BY <3>1 DEF Ledger!Next
  <2>4. CASE Finalize(d) /\ row' = [row EXCEPT ![d] = verdict[d]]
    <3>1. verdict[d] \in Ledger!Outcomes /\ row[d] \in {"pending", "running"}
      BY <2>4 DEF Finalize, Judged, StatusTerminal, Ledger!Outcomes
    <3>2. owner' = owner
      BY <2>1, <2>4, <3>1 DEF Ledger!Outcomes
    <3>3. Ledger!Settle(d)
      BY <2>1, <2>4, <3>1, <3>2 DEF Ledger!Settle
    <3> QED
      BY <3>3 DEF Ledger!Next
  <2> QED
    BY <1>3, <2>2, <2>3, <2>4 DEF MarkRunning, Finalize
<1>4. ASSUME NEW d \in Deployments, Release(d) PROVE [Ledger!Next]_(Ledger!vars)
  <2>1. Ledger!Yield(d)
    BY <1>4 DEF Release, ReleaseLock, Ledger!Yield
  <2> QED
    BY <2>1 DEF Ledger!Next
<1>5. ASSUME NEW d \in Deployments,
             Launch(d) \/ Start(d) \/ StartFails(d) \/ Reap(d) \/ FireEvent(d)
      PROVE  UNCHANGED Ledger!vars
  <2>1. UNCHANGED <<row, proj, InProgress>>
    BY <1>5 DEF Launch, Start, StartFails, Reap, FireEvent
  <2> QED
    BY <2>1, LedgerStutter
<1>6. ASSUME NEW d \in Deployments,
             Environment(d) \/ \E s \in Streams : StreamEOF(d, s)
      PROVE  UNCHANGED Ledger!vars
  <2>1. UNCHANGED <<row, proj, InProgress>>
    BY <1>6
    DEF Environment, StreamAbort, Expire, Kill, BashExits, Fork, HelperExits, StreamEOF
  <2> QED
    BY <2>1, LedgerStutter
<1>7. ASSUME Crash PROVE [Ledger!Next]_(Ledger!vars)
  <2>1. Ledger!Restart
    BY <1>7 DEF Crash, Ledger!Restart
  <2> QED
    BY <2>1 DEF Ledger!Next
<1>8. ASSUME UNCHANGED vars PROVE UNCHANGED Ledger!vars
  BY <1>8, LedgerStutter DEF vars
<1> QED
  BY <1>1, <1>2, <1>3, <1>4, <1>5, <1>6, <1>7, <1>8 DEF Next, Service

\* The service implements DeployLedger: rows are written only by the
\* deployment in progress, of which a project has at most one, and an
\* outcome once written stays, whatever fails or crashes.
THEOREM LedgerImplemented == Spec => LedgerSpec
<1>1. Init => Ledger!Init /\ RowsFit
  BY DEF Init, Ledger!Init, InProgress, Live, RowsFit, RowFits
<1>2. TypeInv /\ RowsFit /\ [Next]_vars => RowsFit'
  BY RowsFitStep
<1>3. TypeInv /\ LockDiscipline /\ RowsFit /\ RowsFit' /\ [Next]_vars
        => [Ledger!Next]_(Ledger!vars)
  BY LedgerStep
<1> QED
  BY <1>1, <1>2, <1>3, DisciplineHolds, PTL DEF Spec, LedgerSpec, Ledger!Spec

-----------------------------------------------------------------------------
\* Whether a status is one that bash's end allows.
Fits(outcome, d) ==
  /\ outcome = "success" => bash[d] = "ok"
  /\ outcome = "timeout" => bash[d] \in {"ok", "bad"}
  /\ outcome = "failed" => bash[d] \in {"none", "bad"}

\* Before bash is started nothing has come to an end, while it is read it is
\* there, and from the verdict on nothing about the process changes.
ProcessFits(d) ==
  /\ proj[d] = NoProject \/ pc[d] \in {"acquired", "created", "marking", "starting"} =>
       bash[d] = "none" /\ reading[d] = {}
  /\ pc[d] = "streaming" => bash[d] # "none"
  /\ pc[d] \in {"finalizing", "reporting"} => reading[d] = {} /\ Fits(verdict[d], d)
  /\ IsTerminal(row[d]) => reading[d] = {} /\ Fits(row[d], d)

ProcessesFit == \A d \in Deployments : ProcessFits(d)

\* Every step keeps ProcessesFit.
LEMMA ProcessesFitStep ==
  ASSUME TypeInv, RowsFit, ProcessesFit, [Next]_vars PROVE ProcessesFit'
<1> USE DeployAssumption
        DEF TypeInv, TypeOK, Claimed, Judged, Live, RowsFit, RowFits, ProcessesFit, ProcessFits,
            Fits, IsTerminal, StatusTerminal, Goto, osVars
<1>1. ASSUME NEW d \in Deployments, NEW p \in Projects, Trigger(d, p) PROVE ProcessesFit'
  BY <1>1 DEF Trigger
<1>2. ASSUME NEW d \in Deployments, Create(d) \/ CreateFails(d) \/ Launch(d)
      PROVE  ProcessesFit'
  BY <1>2 DEF Create, CreateFails, Launch, ReleaseLock
<1>3. ASSUME NEW d \in Deployments, MarkRunning(d) \/ Start(d) \/ StartFails(d)
      PROVE  ProcessesFit'
  BY <1>3 DEF MarkRunning, Start, StartFails
<1>4. ASSUME NEW d \in Deployments, Reap(d) PROVE ProcessesFit'
  BY <1>4 DEF Reap
<1>5. ASSUME NEW d \in Deployments, Finalize(d) \/ FireEvent(d) \/ Release(d)
      PROVE  ProcessesFit'
  BY <1>5 DEF Finalize, FireEvent, Release, ReleaseLock
<1>6. ASSUME NEW d \in Deployments,
             Environment(d) \/ \E s \in Streams : StreamEOF(d, s)
      PROVE  ProcessesFit'
  BY <1>6
  DEF Environment, StreamAbort, Expire, Kill, BashExits, Fork, HelperExits, StreamEOF
<1>7. ASSUME Crash PROVE ProcessesFit'
  BY <1>7 DEF Crash
<1>8. ASSUME UNCHANGED vars PROVE ProcessesFit'
  BY <1>8 DEF vars
<1> QED
  BY <1>1, <1>2, <1>3, <1>4, <1>5, <1>6, <1>7, <1>8 DEF Next, Service

\* A recorded outcome is the outcome of the process, however the deadline,
\* the kill, the end of the pipes and the exit of bash were ordered.
THEOREM OutcomeFits == Spec => []OutcomeFitsProcess
<1>1. Init => RowsFit /\ ProcessesFit
  BY DEF Init, RowsFit, RowFits, ProcessesFit, ProcessFits, Fits, IsTerminal, StatusTerminal
<1>2. TypeInv /\ RowsFit /\ [Next]_vars => RowsFit'
  BY RowsFitStep
<1>3. TypeInv /\ RowsFit /\ ProcessesFit /\ [Next]_vars => ProcessesFit'
  BY ProcessesFitStep
<1>4. ProcessesFit => OutcomeFitsProcess
  BY DEF ProcessesFit, ProcessFits, Fits, OutcomeFitsProcess, IsTerminal, StatusTerminal
<1> QED
  BY <1>1, <1>2, <1>3, <1>4, DisciplineHolds, PTL DEF Spec

-----------------------------------------------------------------------------
\* What a goroutine leaves behind: row and event come from one verdict, and
\* an outcome is missing only where the write of it has failed.
Told(d) ==
  /\ proj[d] = NoProject \/ pc[d] \notin {"none", "releasing"} =>
       events[d] \intersect StatusTerminal = {}
  /\ events[d] \intersect StatusTerminal \subseteq {verdict[d]}
  /\ IsTerminal(row[d]) => row[d] = verdict[d]
  /\ (/\ pc[d] \in {"none", "reporting", "releasing"} /\ bash[d] # "none"
      /\ crashes = 0 /\ faults = 0) => IsTerminal(row[d])

AllTold == \A d \in Deployments : Told(d)

\* Every step keeps AllTold.
LEMMA AllToldStep ==
  ASSUME TypeInv, RowsFit, ProcessesFit, AllTold, [Next]_vars PROVE AllTold'
<1> USE DeployAssumption
        DEF TypeInv, TypeOK, Claimed, Judged, Live, RowsFit, RowFits, ProcessesFit, ProcessFits,
            AllTold, Told, IsTerminal, StatusTerminal, Started, Goto, osVars, Fault, NoFault
<1>1. ASSUME NEW d \in Deployments, NEW p \in Projects, Trigger(d, p) PROVE AllTold'
  BY <1>1 DEF Trigger
<1>2. ASSUME NEW d \in Deployments, Create(d) \/ CreateFails(d) \/ Launch(d)
      PROVE  AllTold'
  BY <1>2 DEF Create, CreateFails, Launch, ReleaseLock
<1>3. ASSUME NEW d \in Deployments, MarkRunning(d) \/ Start(d) \/ StartFails(d)
      PROVE  AllTold'
  BY <1>3 DEF MarkRunning, Start, StartFails, WriteFails, WriteWorks
<1>4. ASSUME NEW d \in Deployments, Reap(d) \/ Release(d) PROVE AllTold'
  BY <1>4 DEF Reap, Release, ReleaseLock
<1>5. ASSUME NEW d \in Deployments, Finalize(d) PROVE AllTold'
  BY <1>5 DEF Finalize, WriteFails, WriteWorks, CtxDead
<1>6. ASSUME NEW d \in Deployments, FireEvent(d) PROVE AllTold'
  BY <1>6 DEF FireEvent, WriteFails, WriteWorks
<1>7. ASSUME NEW d \in Deployments,
             Environment(d) \/ \E s \in Streams : StreamEOF(d, s)
      PROVE  AllTold'
  BY <1>7
  DEF Environment, StreamAbort, Expire, Kill, BashExits, Fork, HelperExits, StreamEOF
<1>8. ASSUME Crash PROVE AllTold'
  BY <1>8 DEF Crash
<1>9. ASSUME UNCHANGED vars PROVE AllTold'
  BY <1>9 DEF vars
<1> QED
  BY <1>1, <1>2, <1>3, <1>4, <1>5, <1>6, <1>7, <1>8, <1>9 DEF Next, Service

\* Event log and table tell one story, and a run that was neither cut off
\* nor refused by the database has told its end.
THEOREM RunsRecorded == Spec => []RunsAreRecorded
<1>1. Init => RowsFit /\ ProcessesFit
  BY DEF Init, RowsFit, RowFits, ProcessesFit, ProcessFits, Fits, IsTerminal, StatusTerminal
<1>6. Init => AllTold
  <2> SUFFICES ASSUME Init, NEW d \in Deployments PROVE Told(d)
    BY DEF AllTold
  <2>1. events[d] = {} /\ row[d] = "absent" /\ bash[d] = "none"
    BY DEF Init
  <2>2. ~IsTerminal(row[d])
    BY <2>1 DEF IsTerminal, StatusTerminal
  <2> QED
    BY <2>1, <2>2 DEF Told
<1>2. TypeInv /\ RowsFit /\ [Next]_vars => RowsFit'
  BY RowsFitStep
<1>3. TypeInv /\ RowsFit /\ ProcessesFit /\ [Next]_vars => ProcessesFit'
  BY ProcessesFitStep
<1>4. TypeInv /\ RowsFit /\ ProcessesFit /\ AllTold /\ [Next]_vars => AllTold'
  BY AllToldStep
<1>5. AllTold => RunsAreRecorded
  <2> SUFFICES ASSUME AllTold PROVE RunsAreRecorded
    OBVIOUS
  <2>1. FinishedRunIsRecorded
    BY DEF AllTold, Told, FinishedRunIsRecorded, Live
  <2>2. ASSUME NEW d \in Deployments
        PROVE  /\ Cardinality(events[d] \intersect StatusTerminal) <= 1
               /\ events[d] \intersect StatusTerminal # {} /\ IsTerminal(row[d])
                    => row[d] \in events[d] \intersect StatusTerminal
    <3> DEFINE outcome == events[d] \intersect StatusTerminal
    <3>1. outcome = {} \/ outcome = {verdict[d]}
      BY DEF AllTold, Told
    <3>2. IsTerminal(row[d]) => row[d] = verdict[d]
      BY DEF AllTold, Told
    <3>3. Cardinality({}) = 0 /\ Cardinality({verdict[d]}) = 1
      BY FS_EmptySet, FS_Singleton
    <3> HIDE DEF outcome
    <3>4. Cardinality(outcome) <= 1 /\ (outcome # {} /\ IsTerminal(row[d]) => row[d] \in outcome)
      BY <3>1, <3>2, <3>3
    <3> QED
      BY <3>4 DEF outcome
  <2> QED
    BY <2>1, <2>2 DEF RunsAreRecorded, EventAgreesWithRow
<1> QED
  BY <1>1, <1>2, <1>3, <1>4, <1>5, <1>6, DisciplineHolds, PTL DEF Spec

=============================================================================
