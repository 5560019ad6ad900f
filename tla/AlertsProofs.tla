---------------------------- MODULE AlertsProofs ----------------------------
(* Theorems about what tells of an outage, for any number of projects,     *)
(* rules and channels: each part on its own, then the same of the          *)
(* composition the runs check.                                             *)
EXTENDS MCMonitoring, Sequences, FiniteSetTheorems, TLAPS

-----------------------------------------------------------------------------
\* The order of the rules is that of their names, times are numbers, and of a
\* finite number of rules one has the longest for_seconds.
AlertBounded ==
  /\ Rules \subseteq Int /\ For \in [Rules -> Nat] /\ Cooldown \in [Rules -> Nat]
  /\ MaxLag \in Nat /\ MaxTroubles \in Nat
  /\ \E r \in Rules : \A q \in Rules : For[q] <= For[r]

AlertTypeInv ==
  /\ rule \in [Rules -> {"absent", "on", "off", "deleted"}]
  /\ triggered \in [Rules -> Int] /\ \A r \in Rules : triggered[r] \in 0..Alert!Never(r)
  /\ breach \in [Alert!Keys -> Int]
  /\ \A r \in Rules, p \in Projects : breach[<<r, p>>] \in {Alert!None} \union 0..Alert!Most(r)
  /\ pc \in [Projects -> {"idle", "observed", "rules", "firing", "fired"}]
  /\ down \in [Projects -> BOOLEAN] /\ lag \in [Projects -> 0..MaxLag]
  /\ todo \in [Projects -> SUBSET Rules]
  /\ listed \in [Projects -> [Rules -> Int]]
  /\ \A p \in Projects, r \in Rules : listed[p][r] \in 0..Alert!Never(r)
  /\ fired \in [Alert!Keys -> Int]
  /\ \A r \in Rules, p \in Projects : fired[<<r, p>>] \in 0..Alert!Never(r)
  /\ healthy \in [Projects -> Int] /\ \A p \in Projects : healthy[p] \in 0..Alert!LongAgo(p)
  /\ skipped \subseteq Alert!Keys /\ troubles \in 0..MaxTroubles
  /\ \A p \in Projects : pc[p] \in {"idle", "observed"} => todo[p] = {}

\* A call has rules only that were there, and nothing is known of one that never
\* was.
Unheard ==
  \A r \in Rules, p \in Projects :
    rule[r] = "absent" => breach[<<r, p>>] = Alert!None /\ r \notin todo[p]

\* The observation under way is up and has not come to rule r.
Healing(p, r) ==
  /\ ~down[p]
  /\ pc[p] = "observed" \/ (pc[p] = "rules" /\ r \in todo[p])

\* A breach that was never passed by is of a project that has been down since it
\* began, or is about to end: no observation that was up is younger than it.
BreachIsDown ==
  /\ \A p \in Projects : lag[p] <= healthy[p] /\ (pc[p] = "idle" => lag[p] = 0)
  /\ \A r \in Rules, p \in Projects :
       /\ breach[<<r, p>>] # Alert!None /\ <<r, p>> \notin skipped
       /\ rule[r] # "deleted" \/ r \in todo[p]
       => breach[<<r, p>>] <= healthy[p] \/ Healing(p, r)

\* Neither the row nor what a call has listed is older than the last firing by
\* more than two observations of one round are apart.
StampsAreClose ==
  \A r \in Rules, p \in Projects :
    /\ rule[r] # "deleted" => triggered[r] <= fired[<<r, p>>] + MaxLag
    /\ r \in todo[p] => listed[p][r] <= fired[<<r, p>>] + MaxLag

\* LongAgo is the longest for_seconds with the lag.
LEMMA LongAgoIs ==
  ASSUME AlertBounded, NEW p
  PROVE  /\ Alert!LongAgo(p) \in Nat
         /\ \A r \in Rules : Alert!Most(r) \in Nat /\ Alert!Most(r) <= Alert!LongAgo(p)
         /\ MaxLag <= Alert!LongAgo(p)
<1> USE DEF AlertBounded
<1>1. \A r \in Rules : Alert!Most(r) = For[r] + MaxLag /\ For[r] \in Nat
  BY DEF Alert!Most
<1>2. PICK r \in Rules : \A q \in Rules : For[q] <= For[r]
  OBVIOUS
<1>3. /\ Alert!Most(r) \in {Alert!Most(q) : q \in Rules}
      /\ \A q \in Rules : Alert!Most(q) <= Alert!Most(r)
  BY <1>1, <1>2
<1>4. /\ Alert!LongAgo(p) \in {Alert!Most(q) : q \in Rules}
      /\ \A q \in Rules : Alert!Most(q) <= Alert!LongAgo(p)
  BY <1>3, Zenon DEF Alert!LongAgo
<1> QED
  BY <1>1, <1>2, <1>4

\* The bounds of the ages that gate a rule.
LEMMA NeverIs ==
  ASSUME AlertBounded, NEW r \in Rules
  PROVE  /\ Alert!Never(r) \in Nat /\ Alert!Never(r) = Cooldown[r] + MaxLag
         /\ Alert!Most(r) \in Nat /\ Alert!Most(r) = For[r] + MaxLag
         /\ Cooldown[r] \in Nat /\ For[r] \in Nat /\ MaxLag \in Nat
BY DEF AlertBounded, Alert!Never, Alert!Most

\* A key is a rule and a project.
LEMMA KeyIs ==
  /\ \A k \in Alert!Keys : \E r \in Rules, p \in Projects : k = <<r, p>>
  /\ \A r \in Rules, p \in Projects : <<r, p>> \in Alert!Keys /\ <<r, p>>[1] = r /\ <<r, p>>[2] = p
BY DEF Alert!Keys

\* An age that grows stays within its bound.
LEMMA OlderIs ==
  ASSUME NEW most \in Nat, NEW age \in {Alert!None} \union 0..most
  PROVE  /\ Alert!Older(age, most) \in {Alert!None} \union 0..most
         /\ age \in 0..most => Alert!Older(age, most) \in 0..most
BY DEF Alert!Older, Alert!None

\* Time passes.
LEMMA AlertTypeAdvance ==
  ASSUME AlertBounded, AlertTypeInv, Alert!Advance
  PROVE  AlertTypeInv'
<1> USE DEF AlertBounded, AlertTypeInv
<1>1. /\ \A p \in Projects : pc[p] # "idle" => lag[p] < MaxLag
      /\ triggered' = [r \in Rules |-> Alert!Older(triggered[r], Alert!Never(r))]
      /\ listed' = [p \in Projects |-> [r \in Rules |->
           IF r \in todo[p] THEN Alert!Older(listed[p][r], Alert!Never(r)) ELSE Alert!Never(r)]]
      /\ breach' = [k \in Alert!Keys |-> Alert!Older(breach[k], Alert!Most(k[1]))]
      /\ lag' = [p \in Projects |-> IF pc[p] = "idle" THEN 0 ELSE lag[p] + 1]
      /\ fired' = [k \in Alert!Keys |-> Alert!Older(fired[k], Alert!Never(k[1]))]
      /\ healthy' = [p \in Projects |-> Alert!Older(healthy[p], Alert!LongAgo(p))]
      /\ UNCHANGED <<rule, pc, down, todo, skipped, troubles>>
  BY DEF Alert!Advance
<1>2. \A r \in Rules : Alert!Never(r) \in Nat /\ Alert!Most(r) \in Nat
  BY NeverIs
<1>3. \A r \in Rules, p \in Projects : <<r, p>> \in Alert!Keys /\ <<r, p>>[1] = r
  BY KeyIs
<1>4. triggered' \in [Rules -> Int] /\ \A r \in Rules : triggered'[r] \in 0..Alert!Never(r)
  BY <1>1, <1>2, OlderIs
<1>5. /\ listed' \in [Projects -> [Rules -> Int]]
      /\ \A p \in Projects, r \in Rules : listed'[p][r] \in 0..Alert!Never(r)
  <2>1. ASSUME NEW p \in Projects, NEW r \in Rules
        PROVE  (IF r \in todo[p] THEN Alert!Older(listed[p][r], Alert!Never(r))
                                 ELSE Alert!Never(r)) \in 0..Alert!Never(r)
    BY <1>2, OlderIs
  <2> QED
    BY <1>1, <1>2, <2>1
<1>6. ASSUME NEW k \in Alert!Keys
      PROVE  /\ Alert!Older(breach[k], Alert!Most(k[1])) \in {Alert!None} \union 0..Alert!Most(k[1])
             /\ Alert!Older(fired[k], Alert!Never(k[1])) \in 0..Alert!Never(k[1])
             /\ Alert!Most(k[1]) \in Nat /\ Alert!Never(k[1]) \in Nat
  <2>1. PICK r \in Rules, p \in Projects : k = <<r, p>>
    BY KeyIs
  <2> QED
    BY <1>2, <1>3, <2>1, OlderIs
<1>7. /\ breach' \in [Alert!Keys -> Int]
      /\ \A r \in Rules, p \in Projects : breach'[<<r, p>>] \in {Alert!None} \union 0..Alert!Most(r)
  BY <1>1, <1>3, <1>6 DEF Alert!None
<1>8. /\ fired' \in [Alert!Keys -> Int]
      /\ \A r \in Rules, p \in Projects : fired'[<<r, p>>] \in 0..Alert!Never(r)
  BY <1>1, <1>3, <1>6
<1>9. lag' \in [Projects -> 0..MaxLag]
  BY <1>1
<1>10. healthy' \in [Projects -> Int] /\ \A p \in Projects : healthy'[p] \in 0..Alert!LongAgo(p)
  BY <1>1, LongAgoIs, OlderIs
<1>11. /\ \A r \in Rules : Alert!Never(r)' = Alert!Never(r) /\ Alert!Most(r)' = Alert!Most(r)
       /\ \A p \in Projects : Alert!LongAgo(p)' = Alert!LongAgo(p)
  BY DEF Alert!Never, Alert!Most, Alert!LongAgo
<1>12. down' \in [Projects -> BOOLEAN]
  BY <1>1
<1>13. /\ rule' \in [Rules -> {"absent", "on", "off", "deleted"}]
       /\ pc' \in [Projects -> {"idle", "observed", "rules", "firing", "fired"}]
       /\ todo' \in [Projects -> SUBSET Rules]
       /\ skipped' \subseteq Alert!Keys /\ troubles' \in 0..MaxTroubles
       /\ \A p \in Projects : pc'[p] \in {"idle", "observed"} => todo'[p] = {}
  BY <1>1
<1> HIDE DEF AlertTypeInv
<1> QED
  BY <1>4, <1>5, <1>7, <1>8, <1>9, <1>10, <1>11, <1>12, <1>13 DEF AlertTypeInv

-----------------------------------------------------------------------------
\* The ages, apart from the rest.
LEMMA AlertAges ==
  ASSUME AlertTypeInv
  PROVE  /\ triggered \in [Rules -> Int] /\ \A r \in Rules : triggered[r] \in 0..Alert!Never(r)
         /\ breach \in [Alert!Keys -> Int]
         /\ \A r \in Rules, p \in Projects :
              breach[<<r, p>>] \in {Alert!None} \union 0..Alert!Most(r)
         /\ lag \in [Projects -> 0..MaxLag]
         /\ fired \in [Alert!Keys -> Int]
         /\ \A r \in Rules, p \in Projects : fired[<<r, p>>] \in 0..Alert!Never(r)
BY DEF AlertTypeInv

\* A call takes a step.
LEMMA AlertTypeCall ==
  ASSUME AlertBounded, AlertTypeInv, NEW p \in Projects,
         \/ \E d \in BOOLEAN : Alert!Observe(p, d)
         \/ Alert!Evaluate(p)
  PROVE  AlertTypeInv'
<1> USE DEF Alert!tables, Alert!call, Alert!history
<1>0. /\ \A r \in Rules : /\ Alert!Never(r)' = Alert!Never(r) /\ Alert!Most(r)' = Alert!Most(r)
                          /\ Alert!Never(r) \in Nat /\ Alert!Most(r) \in Nat
                          /\ MaxLag <= Alert!Never(r) /\ MaxLag <= Alert!Most(r)
      /\ \A q \in Projects : /\ Alert!LongAgo(q)' = Alert!LongAgo(q)
                             /\ Alert!LongAgo(q) \in Nat /\ MaxLag <= Alert!LongAgo(q)
  <2>1. \A r \in Rules : Alert!Never(r)' = Alert!Never(r) /\ Alert!Most(r)' = Alert!Most(r)
    BY DEF Alert!Never, Alert!Most
  <2>2. \A q \in Projects : Alert!LongAgo(q)' = Alert!LongAgo(q)
    BY DEF Alert!LongAgo, Alert!Most
  <2>3. \A r \in Rules : /\ Alert!Never(r) \in Nat /\ Alert!Most(r) \in Nat
                         /\ MaxLag <= Alert!Never(r) /\ MaxLag <= Alert!Most(r)
    BY NeverIs
  <2> QED
    BY <2>1, <2>2, <2>3, LongAgoIs
<1>1. ASSUME NEW d \in BOOLEAN, Alert!Observe(p, d) PROVE AlertTypeInv'
  <2>1. /\ down' = [down EXCEPT ![p] = d]
        /\ healthy' = [healthy EXCEPT ![p] = IF d THEN @ ELSE 0]
        /\ pc' = [pc EXCEPT ![p] = "observed"] /\ pc[p] = "idle"
        /\ UNCHANGED <<rule, triggered, breach, lag, todo, listed, fired, skipped, troubles>>
    BY <1>1 DEF Alert!Observe, Alert!Goto
  <2>2. down' \in [Projects -> BOOLEAN]
    BY <2>1 DEF AlertTypeInv
  <2>3. healthy'[p] = healthy[p] \/ healthy'[p] = 0
    BY <2>1 DEF AlertTypeInv
  <2>4. healthy' \in [Projects -> Int] /\ \A q \in Projects : healthy'[q] \in 0..Alert!LongAgo(q)
    BY <1>0, <2>1, <2>3 DEF AlertTypeInv
  <2>5. /\ pc' \in [Projects -> {"idle", "observed", "rules", "firing", "fired"}]
        /\ \A q \in Projects : pc'[q] \in {"idle", "observed"} => todo'[q] = {}
    BY <2>1 DEF AlertTypeInv
  <2> QED
    BY <1>0, <2>1, <2>2, <2>4, <2>5 DEF AlertTypeInv
<1>2. ASSUME Alert!ListRules(p) \/ Alert!ListFails(p) PROVE AlertTypeInv'
  <2>1. /\ pc' = [pc EXCEPT ![p] = "rules"] /\ pc[p] = "observed"
        /\ \/ todo' = [todo EXCEPT ![p] = {r \in Alert!List : rule[r] = "on"}] \/ todo' = todo
        /\ listed' = [listed EXCEPT ![p] = triggered] \/ listed' = listed
        /\ skipped' \subseteq skipped \union Alert!Keys
        /\ troubles' = troubles \/ (troubles < MaxTroubles /\ troubles' = troubles + 1)
        /\ UNCHANGED <<rule, triggered, breach, down, lag, fired, healthy>>
    BY <1>2 DEF Alert!ListRules, Alert!ListFails, Alert!Goto, Alert!Trouble
  <2>2. /\ listed' \in [Projects -> [Rules -> Int]]
        /\ \A q \in Projects, r \in Rules : listed'[q][r] \in 0..Alert!Never(r)
    BY <2>1 DEF AlertTypeInv
  <2>3. todo' \in [Projects -> SUBSET Rules] /\ \A q \in Projects \ {p} : todo'[q] = todo[q]
    BY <2>1 DEF Alert!List, AlertTypeInv
  <2>4. /\ pc' \in [Projects -> {"idle", "observed", "rules", "firing", "fired"}]
        /\ \A q \in Projects : pc'[q] \in {"idle", "observed"} => todo'[q] = {}
    BY <2>1, <2>3 DEF AlertTypeInv
  <2>5. troubles' \in 0..MaxTroubles /\ skipped' \subseteq Alert!Keys
    BY <2>1 DEF AlertBounded, AlertTypeInv
  <2> QED
    BY <1>0, <2>1, <2>2, <2>3, <2>4, <2>5 DEF AlertTypeInv
<1>3. ASSUME NEW r \in Rules, Alert!Suppress(p, r) \/ Alert!Recover(p, r) PROVE AlertTypeInv'
  <2>1. /\ todo' = [todo EXCEPT ![p] = todo[p] \ {r}] /\ pc[p] = "rules"
        /\ breach' = breach \/ breach' = [breach EXCEPT ![<<r, p>>] = Alert!None]
        /\ skipped' \subseteq skipped \union {<<r, p>>}
        /\ UNCHANGED <<rule, triggered, pc, down, lag, listed, fired, healthy, troubles>>
    BY <1>3 DEF Alert!Suppress, Alert!Recover, Alert!AtHand, Alert!Pass, Alert!Clear,
                Alert!StateKey
  <2>2. /\ breach' \in [Alert!Keys -> Int]
        /\ \A q \in Rules, t \in Projects : breach'[<<q, t>>] \in {Alert!None} \union 0..Alert!Most(q)
    <3>1. /\ breach' \in [Alert!Keys -> Int]
          /\ \A k \in Alert!Keys : breach'[k] = breach[k] \/ breach'[k] = Alert!None
      BY <2>1, AlertAges DEF Alert!None
    <3> QED
      BY <3>1, KeyIs, AlertAges
  <2>3. todo' \in [Projects -> SUBSET Rules] /\ skipped' \subseteq Alert!Keys
    BY <2>1, KeyIs DEF AlertTypeInv
  <2>4. \A q \in Projects : pc'[q] \in {"idle", "observed"} => todo'[q] = {}
    BY <2>1 DEF AlertTypeInv
  <2> QED
    BY <1>0, <2>1, <2>2, <2>3, <2>4 DEF AlertTypeInv
<1>4. ASSUME NEW r \in Rules, Alert!Breached(p, r) PROVE AlertTypeInv'
  <2>1. /\ breach' = [breach EXCEPT ![<<r, p>>] = Alert!FirstOrSet(r, p, lag[p])]
        /\ \/ pc' = [pc EXCEPT ![p] = "firing"] /\ todo' = todo
           \/ pc' = pc /\ todo' = [todo EXCEPT ![p] = todo[p] \ {r}]
        /\ UNCHANGED <<rule, triggered, down, lag, listed, fired, healthy, skipped, troubles>>
        /\ pc[p] = "rules"
    BY <1>4 DEF Alert!Breached, Alert!AtHand, Alert!Pass, Alert!StateKey
  <2>2. Alert!FirstOrSet(r, p, lag[p]) \in 0..Alert!Most(r)
    BY <1>0, AlertAges DEF Alert!FirstOrSet, Alert!StateKey, AlertBounded
  <2>3. /\ breach' \in [Alert!Keys -> Int]
        /\ \A q \in Rules, t \in Projects : breach'[<<q, t>>] \in {Alert!None} \union 0..Alert!Most(q)
    BY <2>1, <2>2, KeyIs DEF Alert!None, AlertTypeInv
  <2>4. /\ pc' \in [Projects -> {"idle", "observed", "rules", "firing", "fired"}]
        /\ todo' \in [Projects -> SUBSET Rules]
        /\ \A q \in Projects : pc'[q] \in {"idle", "observed"} => todo'[q] = {}
    BY <2>1 DEF AlertTypeInv
  <2> QED
    BY <1>0, <2>1, <2>3, <2>4 DEF AlertTypeInv
<1>5. ASSUME NEW r \in Rules, Alert!Stamp(p, r) PROVE AlertTypeInv'
  <2>1. /\ breach' = [breach EXCEPT ![<<r, p>>] = Alert!None]
        /\ pc' = [pc EXCEPT ![p] = "rules"] /\ todo' = [todo EXCEPT ![p] = todo[p] \ {r}]
        /\ skipped' = skipped \ {<<r, p>>}
        /\ triggered' = triggered \/ triggered' = [triggered EXCEPT ![r] = lag[p]]
        /\ fired' = fired \/ fired' = [fired EXCEPT ![<<r, p>>] = lag[p]]
        /\ troubles' = troubles \/ (troubles < MaxTroubles /\ troubles' = troubles + 1)
        /\ UNCHANGED <<rule, down, lag, listed, healthy>>
    BY <1>5 DEF Alert!Stamp, Alert!Pass, Alert!Clear, Alert!StateKey,
                Alert!UpdateLastTriggered, Alert!Trouble
  <2>2. /\ breach' \in [Alert!Keys -> Int]
        /\ \A q \in Rules, t \in Projects : breach'[<<q, t>>] \in {Alert!None} \union 0..Alert!Most(q)
    BY <2>1, KeyIs, AlertAges DEF Alert!None
  <2>3. lag[p] \in 0..Alert!Never(r)
    BY <1>0, AlertAges DEF AlertBounded
  <2>4. /\ fired' \in [Alert!Keys -> Int]
        /\ \A q \in Rules, t \in Projects : fired'[<<q, t>>] \in 0..Alert!Never(q)
    <3>1. /\ fired' \in [Alert!Keys -> Int]
          /\ \A k \in Alert!Keys : fired'[k] = fired[k] \/ (k = <<r, p>> /\ fired'[k] = lag[p])
      BY <2>1, AlertAges
    <3>2. \A q \in Rules, t \in Projects : <<q, t>> = <<r, p>> => q = r
      OBVIOUS
    <3> QED
      BY <2>3, <3>1, <3>2, KeyIs, AlertAges
  <2>5. triggered' \in [Rules -> Int] /\ \A q \in Rules : triggered'[q] \in 0..Alert!Never(q)
    BY <2>1, <2>3 DEF AlertTypeInv
  <2>6. /\ pc' \in [Projects -> {"idle", "observed", "rules", "firing", "fired"}]
        /\ todo' \in [Projects -> SUBSET Rules]
        /\ \A q \in Projects : pc'[q] \in {"idle", "observed"} => todo'[q] = {}
    BY <2>1 DEF AlertTypeInv
  <2>7. troubles' \in 0..MaxTroubles /\ skipped' \subseteq Alert!Keys
    BY <2>1 DEF AlertBounded, AlertTypeInv
  <2> QED
    BY <1>0, <2>1, <2>2, <2>4, <2>5, <2>6, <2>7 DEF AlertTypeInv
<1>6. ASSUME Alert!Return(p) PROVE AlertTypeInv'
  <2>1. /\ down' = [down EXCEPT ![p] = FALSE] /\ lag' = [lag EXCEPT ![p] = 0]
        /\ listed' = [listed EXCEPT ![p] = [r \in Rules |-> Alert!Never(r)]]
        /\ pc' = [pc EXCEPT ![p] = "idle"] /\ todo[p] = {}
        /\ UNCHANGED <<rule, triggered, breach, todo, fired, healthy, skipped, troubles>>
    BY <1>6 DEF Alert!Return, Alert!Goto
  <2>2. down' \in [Projects -> BOOLEAN]
    BY <2>1 DEF AlertTypeInv
  <2>3. /\ listed' \in [Projects -> [Rules -> Int]]
        /\ \A q \in Projects, r \in Rules : listed'[q][r] \in 0..Alert!Never(r)
    BY <1>0, <2>1 DEF AlertTypeInv
  <2>4. lag' \in [Projects -> 0..MaxLag]
    BY <2>1 DEF AlertBounded, AlertTypeInv
  <2>5. /\ pc' \in [Projects -> {"idle", "observed", "rules", "firing", "fired"}]
        /\ \A q \in Projects : pc'[q] \in {"idle", "observed"} => todo'[q] = {}
    BY <2>1 DEF AlertTypeInv
  <2> QED
    BY <1>0, <2>1, <2>2, <2>3, <2>4, <2>5 DEF AlertTypeInv
<1>7. ASSUME Alert!Deliver(p) \/ Alert!NotifyFails(p) PROVE AlertTypeInv'
  <2>1. /\ pc' = [pc EXCEPT ![p] = "fired"] /\ pc[p] = "firing"
        /\ troubles' = troubles \/ (troubles < MaxTroubles /\ troubles' = troubles + 1)
        /\ UNCHANGED <<rule, triggered, breach, down, lag, todo, listed, fired, healthy, skipped>>
    BY <1>7 DEF Alert!Deliver, Alert!NotifyFails, Alert!Goto, Alert!Trouble
  <2>2. troubles' \in 0..MaxTroubles
    BY <2>1 DEF AlertBounded, AlertTypeInv
  <2>3. /\ pc' \in [Projects -> {"idle", "observed", "rules", "firing", "fired"}]
        /\ \A q \in Projects : pc'[q] \in {"idle", "observed"} => todo'[q] = {}
    BY <2>1 DEF AlertTypeInv
  <2> QED
    BY <1>0, <2>1, <2>2, <2>3 DEF AlertTypeInv
<1> QED
  BY <1>1, <1>2, <1>3, <1>4, <1>5, <1>6, <1>7 DEF Alert!Evaluate, Alert!Consider

\* Every step keeps AlertTypeInv.
LEMMA AlertTypeStep ==
  ASSUME AlertBounded, AlertTypeInv, [Alert!Next]_Alert!vars
  PROVE  AlertTypeInv'
<1>0. /\ \A r \in Rules : Alert!Never(r)' = Alert!Never(r) /\ Alert!Most(r)' = Alert!Most(r)
      /\ \A q \in Projects : Alert!LongAgo(q)' = Alert!LongAgo(q)
  BY DEF Alert!Never, Alert!Most, Alert!LongAgo
<1>1. CASE Alert!Restart
  <2> USE DEF AlertTypeInv
  <2>1. /\ breach' = [k \in Alert!Keys |-> Alert!None] /\ pc' = [p \in Projects |-> "idle"]
        /\ down' = [p \in Projects |-> FALSE] /\ lag' = [p \in Projects |-> 0]
        /\ todo' = [p \in Projects |-> {}] /\ skipped' = {}
        /\ listed' = [p \in Projects |-> [r \in Rules |-> Alert!Never(r)]]
        /\ troubles < MaxTroubles /\ troubles' = troubles + 1
        /\ UNCHANGED <<rule, triggered, fired, healthy>>
    BY <1>1 DEF Alert!Restart, Alert!Trouble, Alert!tables
  <2>2. down' \in [Projects -> BOOLEAN]
    BY <2>1
  <2>3. /\ listed' \in [Projects -> [Rules -> Int]]
        /\ \A q \in Projects, r \in Rules : listed'[q][r] \in 0..Alert!Never(r)
    BY <2>1, NeverIs
  <2>4. /\ breach' \in [Alert!Keys -> Int]
        /\ \A q \in Rules, t \in Projects : breach'[<<q, t>>] \in {Alert!None} \union 0..Alert!Most(q)
    BY <2>1, KeyIs DEF Alert!None
  <2>5. lag' \in [Projects -> 0..MaxLag] /\ troubles' \in 0..MaxTroubles
    BY <2>1 DEF AlertBounded
  <2>6. /\ pc' \in [Projects -> {"idle", "observed", "rules", "firing", "fired"}]
        /\ todo' \in [Projects -> SUBSET Rules] /\ skipped' \subseteq Alert!Keys
        /\ \A q \in Projects : pc'[q] \in {"idle", "observed"} => todo'[q] = {}
    BY <2>1
  <2> QED
    BY <1>0, <2>1, <2>2, <2>3, <2>4, <2>5, <2>6
<1>2. ASSUME NEW r \in Rules, Alert!Handler(r) PROVE AlertTypeInv'
  <2>1. /\ \E state \in {"on", "off", "deleted"} : rule' = [rule EXCEPT ![r] = state]
        /\ UNCHANGED <<triggered, breach, pc, down, lag, todo, listed, fired, healthy, skipped,
                       troubles>>
    BY <1>2 DEF Alert!Handler, Alert!CreateRule, Alert!PatchRule, Alert!DeleteRule,
                Alert!InsertRow, Alert!UpdateRow, Alert!EraseRow, Alert!call, Alert!history
  <2>2. rule' \in [Rules -> {"absent", "on", "off", "deleted"}]
    BY <2>1 DEF AlertTypeInv
  <2> QED
    BY <1>0, <2>1, <2>2 DEF AlertTypeInv
<1>3. CASE UNCHANGED Alert!vars
  BY <1>0, <1>3 DEF Alert!vars, Alert!tables, Alert!call, Alert!history, AlertTypeInv
<1> QED
  BY <1>1, <1>2, <1>3, AlertTypeAdvance, AlertTypeCall DEF Alert!Next

-----------------------------------------------------------------------------
\* Every step keeps Unheard.
LEMMA UnheardStep ==
  ASSUME AlertTypeInv, Unheard, [Alert!Next]_Alert!vars
  PROVE  Unheard'
<1> USE DEF Alert!tables, Alert!call, Alert!history
<1> SUFFICES ASSUME NEW r \in Rules, NEW p \in Projects, rule'[r] = "absent"
             PROVE  breach'[<<r, p>>] = Alert!None /\ r \notin todo'[p]
  BY DEF Unheard
<1>1. /\ rule \in [Rules -> {"absent", "on", "off", "deleted"}]
      /\ todo \in [Projects -> SUBSET Rules] /\ DOMAIN breach = Alert!Keys
      /\ DOMAIN triggered = Rules
  BY DEF AlertTypeInv
<1>2. rule[r] = "absent"
  <2>1. CASE rule' = rule
    BY <2>1
  <2>2. ASSUME NEW q \in Rules, Alert!Handler(q) PROVE rule[r] = "absent"
    BY <1>1, <2>2 DEF Alert!Handler, Alert!CreateRule, Alert!PatchRule, Alert!DeleteRule,
                Alert!InsertRow, Alert!UpdateRow, Alert!EraseRow
  <2> QED
    BY <2>1, <2>2 DEF Alert!Next, Alert!vars, Alert!Advance, Alert!Restart, Alert!Observe,
       Alert!Evaluate, Alert!ListRules, Alert!ListFails, Alert!Deliver, Alert!NotifyFails,
       Alert!Return, Alert!Consider, Alert!Suppress, Alert!Recover, Alert!Breached, Alert!Stamp
<1>3. breach[<<r, p>>] = Alert!None /\ r \notin todo[p] /\ <<r, p>> \in Alert!Keys
  BY <1>2, KeyIs DEF Unheard
<1>4. CASE Alert!Advance
  BY <1>3, <1>4 DEF Alert!Advance, Alert!Older
<1>5. CASE Alert!Restart
  BY <1>1, <1>3, <1>5 DEF Alert!Restart
<1>6. ASSUME NEW q \in Projects, \E d \in BOOLEAN : Alert!Observe(q, d)
      PROVE  breach'[<<r, p>>] = Alert!None /\ r \notin todo'[p]
  BY <1>3, <1>6 DEF Alert!Observe
<1>7. ASSUME NEW q \in Rules, Alert!Handler(q)
      PROVE  breach'[<<r, p>>] = Alert!None /\ r \notin todo'[p]
  BY <1>3, <1>7 DEF Alert!Handler, Alert!CreateRule, Alert!PatchRule, Alert!DeleteRule
<1>8. ASSUME NEW q \in Projects, Alert!ListRules(q) \/ Alert!ListFails(q)
      PROVE  breach'[<<r, p>>] = Alert!None /\ r \notin todo'[p]
  BY <1>1, <1>2, <1>3, <1>8 DEF Alert!ListRules, Alert!ListFails, Alert!List
<1>9. ASSUME NEW q \in Projects, Alert!Deliver(q) \/ Alert!NotifyFails(q) \/ Alert!Return(q)
      PROVE  breach'[<<r, p>>] = Alert!None /\ r \notin todo'[p]
  BY <1>3, <1>9 DEF Alert!Deliver, Alert!NotifyFails, Alert!Return
<1>10. ASSUME NEW q \in Projects, NEW s \in Rules, Alert!Consider(q, s)
       PROVE  breach'[<<r, p>>] = Alert!None /\ r \notin todo'[p]
  <2>1. /\ s \in todo[q]
        /\ todo' = todo \/ todo' = [todo EXCEPT ![q] = todo[q] \ {s}]
        /\ breach' = breach \/ \E first : breach' = [breach EXCEPT ![<<s, q>>] = first]
    BY <1>10 DEF Alert!Consider, Alert!Suppress, Alert!Recover, Alert!Breached, Alert!Stamp,
                 Alert!AtHand, Alert!Pass, Alert!Clear, Alert!StateKey
  <2>2. <<s, q>> # <<r, p>>
    BY <1>3, <2>1
  <2> QED
    BY <1>1, <1>3, <2>1, <2>2
<1>11. CASE UNCHANGED Alert!vars
  BY <1>3, <1>11 DEF Alert!vars
<1> QED
  BY <1>4, <1>5, <1>6, <1>7, <1>8, <1>9, <1>10, <1>11 DEF Alert!Next, Alert!Evaluate

\* What BreachIsDown says of one rule and one project.
BreachOf(r, p) ==
  /\ breach[<<r, p>>] # Alert!None /\ <<r, p>> \notin skipped
  /\ rule[r] # "deleted" \/ r \in todo[p]
  => breach[<<r, p>>] <= healthy[p] \/ Healing(p, r)

\* The observation of a project is not older than the last that was up.
LEMMA HealthyStep ==
  ASSUME AlertBounded, AlertTypeInv, BreachIsDown, [Alert!Next]_Alert!vars,
         NEW p \in Projects
  PROVE  lag'[p] <= healthy'[p] /\ (pc'[p] = "idle" => lag'[p] = 0)
<1> USE DEF Alert!tables, Alert!call, Alert!history
<1>1. /\ lag[p] <= healthy[p] /\ (pc[p] = "idle" => lag[p] = 0) /\ lag \in [Projects -> 0..MaxLag] /\ MaxLag \in Nat
      /\ pc \in [Projects -> {"idle", "observed", "rules", "firing", "fired"}]
      /\ healthy \in [Projects -> Int] /\ healthy[p] \in 0..Alert!LongAgo(p)
  BY DEF AlertTypeInv, BreachIsDown, AlertBounded
<1>2. CASE Alert!Advance
  <2>1. /\ lag'[p] = (IF pc[p] = "idle" THEN 0 ELSE lag[p] + 1)
        /\ healthy'[p] = Alert!Older(healthy[p], Alert!LongAgo(p))
        /\ (pc[p] # "idle" => lag[p] < MaxLag) /\ pc' = pc
    BY <1>2 DEF Alert!Advance
  <2>2. MaxLag <= Alert!LongAgo(p) /\ Alert!LongAgo(p) \in Nat
    BY LongAgoIs
  <2> QED
    BY <1>1, <2>1, <2>2 DEF Alert!Older, Alert!None
<1>3. CASE Alert!Restart
  BY <1>1, <1>3 DEF Alert!Restart
<1>4. ASSUME NEW q \in Projects, NEW d \in BOOLEAN, Alert!Observe(q, d)
      PROVE  lag'[p] <= healthy'[p] /\ (pc'[p] = "idle" => lag'[p] = 0)
  <2>1. /\ lag' = lag /\ pc[q] = "idle" /\ pc' = [pc EXCEPT ![q] = "observed"]
        /\ healthy' = [healthy EXCEPT ![q] = IF d THEN @ ELSE 0]
    BY <1>4 DEF Alert!Observe, Alert!Goto
  <2> QED
    BY <1>1, <2>1 DEF BreachIsDown
<1>5. CASE UNCHANGED <<lag, healthy>> /\ (pc'[p] = "idle" => pc[p] = "idle")
  BY <1>1, <1>5
<1>6. ASSUME NEW q \in Rules, Alert!Handler(q)
      PROVE  lag'[p] <= healthy'[p] /\ (pc'[p] = "idle" => lag'[p] = 0)
  BY <1>5, <1>6 DEF Alert!Handler, Alert!CreateRule, Alert!PatchRule, Alert!DeleteRule
<1>7. ASSUME NEW q \in Projects, Alert!Return(q)
      PROVE  lag'[p] <= healthy'[p] /\ (pc'[p] = "idle" => lag'[p] = 0)
  BY <1>1, <1>7 DEF Alert!Return, Alert!Goto
<1>8. ASSUME NEW q \in Projects, Alert!Evaluate(q), ~Alert!Return(q)
      PROVE  lag'[p] <= healthy'[p] /\ (pc'[p] = "idle" => lag'[p] = 0)
  BY <1>1, <1>5, <1>8 DEF Alert!Goto, Alert!Evaluate, Alert!ListRules, Alert!ListFails,
     Alert!Deliver,
     Alert!NotifyFails, Alert!Consider, Alert!Suppress, Alert!Recover, Alert!Breached, Alert!Stamp
<1>9. CASE UNCHANGED Alert!vars
  BY <1>5, <1>9 DEF Alert!vars
<1> QED
  BY <1>2, <1>3, <1>4, <1>6, <1>7, <1>8, <1>9 DEF Alert!Next

\* Every step keeps what BreachIsDown says of one rule and one project.
LEMMA BreachOfStep ==
  ASSUME AlertBounded, AlertTypeInv, Unheard, BreachIsDown, [Alert!Next]_Alert!vars,
         NEW r \in Rules, NEW p \in Projects
  PROVE  BreachOf(r, p)'
<1> USE DEF Alert!tables, Alert!call, Alert!history
<1> DEFINE k == <<r, p>>
<1>1. /\ k \in Alert!Keys /\ breach \in [Alert!Keys -> Int] /\ DOMAIN lag = Projects
      /\ healthy \in [Projects -> Int] /\ healthy[p] \in 0..Alert!LongAgo(p)
      /\ breach[k] \in {Alert!None} \union 0..Alert!Most(r)
      /\ pc \in [Projects -> {"idle", "observed", "rules", "firing", "fired"}]
      /\ todo \in [Projects -> SUBSET Rules]
      /\ lag[p] <= healthy[p] /\ lag[p] \in Int
      /\ pc[p] \in {"idle", "observed"} => todo[p] = {}
  BY KeyIs DEF AlertTypeInv, BreachIsDown
<1>2. DOMAIN down = Projects /\ DOMAIN rule = Rules
  BY DEF AlertTypeInv
<1>3. BreachOf(r, p)
  BY DEF BreachIsDown, BreachOf
<1>4. rule[r] = "absent" => breach[k] = Alert!None /\ r \notin todo[p]
  BY DEF Unheard
<1> HIDE DEF k
<1> USE DEF BreachOf, Healing
<1> DEFINE Goal == BreachOf(r, p)'
<1>5. CASE Alert!Advance
  <2>1. /\ breach'[k] = Alert!Older(breach[k], Alert!Most(r))
        /\ healthy'[p] = Alert!Older(healthy[p], Alert!LongAgo(p))
        /\ UNCHANGED <<rule, pc, down, todo, skipped>>
    BY <1>1, <1>5, KeyIs DEF Alert!Advance, k
  <2>2. /\ Alert!Most(r) \in Nat /\ Alert!LongAgo(p) \in Nat
        /\ Alert!Most(r) <= Alert!LongAgo(p)
    BY LongAgoIs
  <2>3. /\ breach'[k] # Alert!None => breach[k] # Alert!None
        /\ breach[k] # Alert!None /\ breach[k] <= healthy[p] => breach'[k] <= healthy'[p]
    BY <1>1, <2>1, <2>2 DEF Alert!Older, Alert!None
  <2> QED
    BY <1>3, <2>1, <2>3 DEF k
<1>6. CASE Alert!Restart
  BY <1>1, <1>6 DEF Alert!Restart, k
<1>7. ASSUME NEW q \in Projects, NEW d \in BOOLEAN, Alert!Observe(q, d) PROVE Goal
  <2>1. /\ pc[q] = "idle" /\ pc' = [pc EXCEPT ![q] = "observed"]
        /\ down' = [down EXCEPT ![q] = d]
        /\ healthy' = [healthy EXCEPT ![q] = IF d THEN @ ELSE 0]
        /\ UNCHANGED <<rule, breach, todo, skipped>>
    BY <1>7 DEF Alert!Observe, Alert!Goto
  <2>2. CASE q = p /\ ~d
    <3>1. Healing(p, r)'
      BY <1>1, <1>2, <2>1, <2>2
    <3> QED
      BY <3>1
  <2>3. CASE q = p /\ d
    <3>1. healthy'[p] = healthy[p] /\ ~Healing(p, r)
      BY <1>1, <2>1, <2>3
    <3> QED
      BY <1>3, <2>1, <3>1
  <2>4. CASE q # p
    <3>1. healthy'[p] = healthy[p] /\ pc'[p] = pc[p] /\ down'[p] = down[p]
      BY <1>1, <1>2, <2>1, <2>4
    <3> QED
      BY <1>3, <2>1, <3>1
  <2> QED
    BY <2>2, <2>3, <2>4
<1>8. ASSUME NEW q \in Rules, Alert!Handler(q) PROVE Goal
  <2>1. /\ UNCHANGED <<breach, pc, down, todo, healthy, skipped>>
        /\ rule'[r] = "deleted" \/ rule[r] # "deleted"
    BY <1>2, <1>8 DEF Alert!Handler, Alert!CreateRule, Alert!PatchRule, Alert!DeleteRule,
       Alert!InsertRow, Alert!UpdateRow, Alert!EraseRow, Alert!List
  <2> QED
    BY <1>3, <2>1
<1>9. ASSUME NEW q \in Projects, Alert!ListRules(q) PROVE Goal
  <2>1. /\ pc[q] = "observed" /\ pc' = [pc EXCEPT ![q] = "rules"]
        /\ todo' = [todo EXCEPT ![q] = {s \in Alert!List : rule[s] = "on"}]
        /\ skipped' = skipped \union {j \in Alert!Keys :
                                        j[2] = q /\ rule[j[1]] = "off" /\ breach[j] # Alert!None}
        /\ UNCHANGED <<rule, breach, down, healthy>>
    BY <1>9 DEF Alert!ListRules, Alert!Goto
  <2>2. CASE q = p
    <3>1. k \notin skipped' => k \notin skipped /\ ~(rule[r] = "off" /\ breach[k] # Alert!None)
      BY <1>1, <2>1, <2>2, KeyIs DEF k
    <3>2. r \in todo'[p] <=> rule[r] = "on"
      BY <1>1, <2>1, <2>2 DEF Alert!List
    <3>3. rule[r] \in {"absent", "on", "off", "deleted"} /\ todo[p] = {}
      BY <1>1, <2>1, <2>2 DEF AlertTypeInv
    <3>4. pc'[p] = "rules"
      BY <1>1, <2>1, <2>2
    <3> QED
      BY <1>3, <1>4, <2>1, <3>1, <3>2, <3>3, <3>4 DEF k
  <2>3. CASE q # p
    <3>1. pc'[p] = pc[p] /\ todo'[p] = todo[p] /\ (k \notin skipped' => k \notin skipped)
      BY <1>1, <2>1, <2>3
    <3> QED
      BY <1>3, <2>1, <3>1 DEF k
  <2> QED
    BY <2>2, <2>3
<1>10. ASSUME NEW q \in Projects, Alert!ListFails(q) PROVE Goal
  <2>1. /\ pc' = [pc EXCEPT ![q] = "rules"] /\ todo' = todo
        /\ skipped' = skipped \union {j \in Alert!Keys : j[2] = q /\ breach[j] # Alert!None}
        /\ UNCHANGED <<rule, breach, down, healthy>>
    BY <1>10 DEF Alert!ListFails, Alert!Goto
  <2>2. CASE q = p
    <3>1. breach[k] # Alert!None => k \in skipped'
      BY <1>1, <2>1, <2>2, KeyIs DEF k
    <3> QED
      BY <2>1, <3>1 DEF k
  <2>3. CASE q # p
    <3>1. pc'[p] = pc[p] /\ (k \notin skipped' => k \notin skipped)
      BY <1>1, <2>1, <2>3
    <3> QED
      BY <1>3, <2>1, <3>1 DEF k
  <2> QED
    BY <2>2, <2>3
<1>11. ASSUME NEW q \in Projects, NEW s \in Rules, Alert!Consider(q, s), <<s, q>> # k PROVE Goal
  <2>1. /\ pc' = pc \/ (down[q] /\ pc[q] = "rules" /\ pc' = [pc EXCEPT ![q] = "firing"])
                    \/ (pc[q] = "fired" /\ pc' = [pc EXCEPT ![q] = "rules"])
        /\ todo' = todo \/ todo' = [todo EXCEPT ![q] = todo[q] \ {s}]
        /\ breach' = breach \/ \E first : breach' = [breach EXCEPT ![<<s, q>>] = first]
        /\ k \in skipped' <=> k \in skipped
        /\ UNCHANGED <<rule, down, healthy>>
    BY <1>11 DEF Alert!Consider, Alert!Suppress, Alert!Recover, Alert!Breached, Alert!Stamp,
                 Alert!AtHand, Alert!Pass, Alert!Clear, Alert!StateKey
  <2>2. breach'[k] = breach[k] /\ (r \in todo'[p] <=> r \in todo[p])
    BY <1>1, <1>11, <2>1 DEF k
  <2>3. Healing(p, r) => Healing(p, r)'
    BY <1>1, <2>1, <2>2
  <2> QED
    BY <1>3, <2>1, <2>2, <2>3 DEF k
<1>12. ASSUME Alert!Suppress(p, r) PROVE Goal
  <2>1. breach' = breach /\ (breach[k] # Alert!None => k \in skipped')
    BY <1>12 DEF Alert!Suppress, Alert!StateKey, k
  <2> QED
    BY <2>1 DEF k
<1>13. ASSUME Alert!Recover(p, r) \/ Alert!Stamp(p, r) PROVE Goal
  <2>1. breach'[k] = Alert!None
    BY <1>1, <1>13 DEF Alert!Recover, Alert!Stamp, Alert!Clear, Alert!StateKey, k
  <2> QED
    BY <2>1 DEF k
<1>14. ASSUME Alert!Breached(p, r) PROVE Goal
  <2>1. /\ down[p] /\ r \in todo[p] /\ UNCHANGED <<rule, healthy, skipped>>
        /\ breach'[k] = IF breach[k] = Alert!None THEN lag[p] ELSE breach[k]
    BY <1>1, <1>14 DEF Alert!Breached, Alert!AtHand, Alert!FirstOrSet, Alert!StateKey, k
  <2>2. ~Healing(p, r)
    BY <2>1
  <2> QED
    BY <1>1, <1>3, <2>1, <2>2 DEF k
<1>15. ASSUME NEW q \in Projects, Alert!Deliver(q) \/ Alert!NotifyFails(q) PROVE Goal
  <2>1. /\ pc[q] = "firing" /\ pc' = [pc EXCEPT ![q] = "fired"]
        /\ UNCHANGED <<rule, breach, down, todo, healthy, skipped>>
    BY <1>15 DEF Alert!Deliver, Alert!NotifyFails, Alert!Goto
  <2>2. Healing(p, r) => Healing(p, r)'
    BY <1>1, <2>1
  <2> QED
    BY <1>3, <2>1, <2>2
<1>16. ASSUME NEW q \in Projects, Alert!Return(q) PROVE Goal
  <2>1. /\ pc[q] = "rules" /\ todo[q] = {} /\ pc' = [pc EXCEPT ![q] = "idle"]
        /\ down' = [down EXCEPT ![q] = FALSE]
        /\ UNCHANGED <<rule, breach, todo, healthy, skipped>>
    BY <1>16 DEF Alert!Return, Alert!Goto
  <2>2. Healing(p, r) => Healing(p, r)'
    BY <1>1, <1>2, <2>1
  <2> QED
    BY <1>3, <2>1, <2>2
<1>17. CASE UNCHANGED Alert!vars
  BY <1>3, <1>17 DEF Alert!vars
<1>18. ASSUME NEW q \in Projects, NEW s \in Rules, Alert!Consider(q, s) PROVE Goal
  <2>1. CASE <<s, q>> = k
    BY <1>12, <1>13, <1>14, <1>18, <2>1 DEF Alert!Consider, k
  <2> QED
    BY <1>11, <1>18, <2>1
<1> HIDE DEF Goal
<1>19. Goal
  BY <1>5, <1>6, <1>7, <1>8, <1>9, <1>10, <1>15, <1>16, <1>17, <1>18
     DEF Alert!Next, Alert!Evaluate, Goal
<1> QED
  BY <1>19 DEF Goal

-----------------------------------------------------------------------------
\* Every step keeps StampsAreClose.
LEMMA StampsStep ==
  ASSUME AlertBounded, AlertTypeInv, Unheard, StampsAreClose, [Alert!Next]_Alert!vars,
         NEW r \in Rules, NEW p \in Projects
  PROVE  /\ rule'[r] # "deleted" => triggered'[r] <= fired'[<<r, p>>] + MaxLag
         /\ r \in todo'[p] => listed'[p][r] <= fired'[<<r, p>>] + MaxLag
<1> USE DEF Alert!tables, Alert!call, Alert!history
<1> DEFINE k == <<r, p>>
           Goal == /\ rule'[r] # "deleted" => triggered'[r] <= fired'[k] + MaxLag
                   /\ r \in todo'[p] => listed'[p][r] <= fired'[k] + MaxLag
<1>1. /\ k \in Alert!Keys /\ fired \in [Alert!Keys -> Int] /\ triggered \in [Rules -> Int]
      /\ fired[k] \in 0..Alert!Never(r) /\ triggered[r] \in 0..Alert!Never(r)
      /\ listed \in [Projects -> [Rules -> Int]] /\ listed[p][r] \in 0..Alert!Never(r)
      /\ todo \in [Projects -> SUBSET Rules] /\ lag \in [Projects -> 0..MaxLag]
  BY KeyIs DEF AlertTypeInv
<1>2. DOMAIN rule = Rules /\ Alert!Never(r) \in Nat /\ MaxLag \in Nat
  BY NeverIs DEF AlertTypeInv
<1>3. /\ rule[r] # "deleted" => triggered[r] <= fired[k] + MaxLag
      /\ r \in todo[p] => listed[p][r] <= fired[k] + MaxLag
  BY DEF StampsAreClose
<1>4. \A q \in Projects : lag[q] \in 0..MaxLag
  BY <1>1
<1> HIDE DEF k
<1>5. ASSUME Alert!Advance PROVE Goal
  <2>1. /\ triggered'[r] = Alert!Older(triggered[r], Alert!Never(r))
        /\ fired'[k] = Alert!Older(fired[k], Alert!Never(r))
        /\ r \in todo[p] => listed'[p][r] = Alert!Older(listed[p][r], Alert!Never(r))
        /\ UNCHANGED <<rule, todo>>
    BY <1>1, <1>5, KeyIs DEF Alert!Advance, k
  <2> QED
    BY <1>1, <1>2, <1>3, <2>1 DEF Alert!Older, Alert!None
<1>6. ASSUME Alert!Restart PROVE Goal
  <2>1. UNCHANGED <<rule, triggered, fired>> /\ todo'[p] = {}
    BY <1>6 DEF Alert!Restart
  <2> QED
    BY <1>3, <2>1
<1>7. ASSUME NEW q \in Projects, NEW d \in BOOLEAN, Alert!Observe(q, d) PROVE Goal
  BY <1>3, <1>7 DEF Alert!Observe
<1>8. ASSUME NEW q \in Rules, Alert!Handler(q) PROVE Goal
  <2>1. /\ UNCHANGED <<triggered, fired, todo, listed>>
        /\ rule'[r] = "deleted" \/ rule[r] # "deleted"
    BY <1>2, <1>8 DEF Alert!Handler, Alert!CreateRule, Alert!PatchRule, Alert!DeleteRule,
       Alert!InsertRow, Alert!UpdateRow, Alert!EraseRow, Alert!List
  <2> QED
    BY <1>3, <2>1
<1>9. ASSUME NEW q \in Projects, Alert!ListRules(q) PROVE Goal
  <2>1. /\ todo' = [todo EXCEPT ![q] = {s \in Alert!List : rule[s] = "on"}]
        /\ listed' = [listed EXCEPT ![q] = triggered]
        /\ UNCHANGED <<rule, triggered, fired>>
    BY <1>9 DEF Alert!ListRules
  <2>2. CASE q = p
    <3>1. listed'[p] = triggered /\ (r \in todo'[p] => rule[r] = "on")
      BY <1>1, <2>1, <2>2
    <3> QED
      BY <1>3, <2>1, <3>1
  <2>3. CASE q # p
    <3>1. listed'[p] = listed[p] /\ todo'[p] = todo[p]
      BY <1>1, <2>1, <2>3
    <3> QED
      BY <1>3, <2>1, <3>1
  <2> QED
    BY <2>2, <2>3
<1>10. ASSUME NEW q \in Projects,
              Alert!ListFails(q) \/ Alert!Deliver(q) \/ Alert!NotifyFails(q)
       PROVE  Goal
  BY <1>3, <1>10 DEF Alert!ListFails, Alert!Deliver, Alert!NotifyFails
<1>11. ASSUME NEW q \in Projects, NEW s \in Rules,
              Alert!Suppress(q, s) \/ Alert!Recover(q, s) \/ Alert!Breached(q, s)
       PROVE  Goal
  <2>1. /\ UNCHANGED <<rule, triggered, fired, listed>>
        /\ todo' = todo \/ todo' = [todo EXCEPT ![q] = todo[q] \ {s}]
    BY <1>11 DEF Alert!Suppress, Alert!Recover, Alert!Breached, Alert!Pass
  <2>2. r \in todo'[p] => r \in todo[p]
    BY <1>1, <2>1
  <2> QED
    BY <1>3, <2>1, <2>2
<1>12. ASSUME NEW q \in Projects, NEW s \in Rules, Alert!Stamp(q, s) PROVE Goal
  <2>1. /\ s \in todo[q] /\ todo' = [todo EXCEPT ![q] = todo[q] \ {s}]
        /\ \/ triggered' = triggered /\ fired' = fired
           \/ /\ fired' = [fired EXCEPT ![<<s, q>>] = lag[q]]
              /\ IF s \in Alert!List THEN triggered' = [triggered EXCEPT ![s] = lag[q]]
                                     ELSE triggered' = triggered
        /\ UNCHANGED <<rule, listed>>
    BY <1>12 DEF Alert!Stamp, Alert!Pass, Alert!UpdateLastTriggered, Alert!StateKey
  <2>2. CASE <<s, q>> = k
    <3>1. s = r /\ q = p /\ r \notin todo'[p]
      BY <1>1, <2>1, <2>2 DEF k
    <3>2. CASE fired' = fired /\ triggered' = triggered
      BY <1>3, <2>1, <3>1, <3>2
    <3>3. CASE /\ fired' = [fired EXCEPT ![<<s, q>>] = lag[q]]
               /\ IF s \in Alert!List THEN triggered' = [triggered EXCEPT ![s] = lag[q]]
                                      ELSE triggered' = triggered
      <4>1. fired'[k] = lag[p]
        BY <1>1, <2>2, <3>1, <3>3
      <4>2. rule[r] \in {"absent", "on", "off", "deleted"}
        BY DEF AlertTypeInv
      <4>3. rule[r] # "absent"
        BY <2>1, <3>1 DEF Unheard
      <4>4. s \in Alert!List => triggered'[r] = lag[p]
        BY <1>1, <3>1, <3>3
      <4>5. rule[r] # "deleted" => s \in Alert!List
        BY <3>1, <4>2, <4>3 DEF Alert!List
      <4> QED
        BY <1>2, <1>4, <2>1, <3>1, <4>1, <4>4, <4>5
    <3> QED
      BY <2>1, <3>2, <3>3
  <2>3. CASE <<s, q>> # k
    <3>1. fired'[k] = fired[k] /\ (r \in todo'[p] => r \in todo[p])
      BY <1>1, <2>1, <2>3 DEF k
    <3>2. triggered'[r] = triggered[r] \/ triggered'[r] = lag[q]
      BY <1>1, <2>1
    <3> QED
      BY <1>1, <1>2, <1>3, <1>4, <2>1, <3>1, <3>2
  <2> QED
    BY <2>2, <2>3
<1>13. ASSUME NEW q \in Projects, Alert!Return(q) PROVE Goal
  <2>1. /\ todo[q] = {} /\ listed' = [listed EXCEPT ![q] = [s \in Rules |-> Alert!Never(s)]]
        /\ UNCHANGED <<rule, triggered, fired, todo>>
    BY <1>13 DEF Alert!Return
  <2>2. r \in todo[p] => listed'[p][r] = listed[p][r]
    BY <1>1, <2>1
  <2> QED
    BY <1>3, <2>1, <2>2
<1>14. ASSUME UNCHANGED Alert!vars PROVE Goal
  BY <1>3, <1>14 DEF Alert!vars
<1> HIDE DEF Goal
<1>15. Goal
  BY <1>5, <1>6, <1>7, <1>8, <1>9, <1>10, <1>11, <1>12, <1>13, <1>14
     DEF Alert!Next, Alert!Evaluate, Alert!Consider
<1> QED
  BY <1>15 DEF Goal, k

\* A call that goes from the rules to a firing fires the rule at hand.
LEMMA FiringIsBreach ==
  ASSUME AlertBounded, AlertTypeInv, [Alert!Next]_Alert!vars,
         NEW p \in Projects, NEW r \in Rules, Alert!Fires(p, r)
  PROVE  /\ down[p] /\ Alert!Sustained(p, r, Alert!FirstOrSet(r, p, lag[p]))
         /\ Alert!Cooled(p, r)
<1> USE DEF Alert!tables, Alert!call, Alert!history
<1>1. /\ r \in todo[p] /\ (\A q \in todo[p] : r <= q) /\ pc[p] = "rules" /\ pc'[p] = "firing"
      /\ pc \in [Projects -> {"idle", "observed", "rules", "firing", "fired"}]
      /\ todo[p] \in SUBSET Rules
  BY DEF Alert!Fires, AlertTypeInv
<1>2. \E s \in Rules : Alert!Breached(p, s) /\ pc' = [pc EXCEPT ![p] = "firing"]
  <2>1. CASE UNCHANGED pc
    BY <1>1, <2>1
  <2>2. CASE Alert!Restart
    BY <1>1, <2>2 DEF Alert!Restart
  <2>3. ASSUME NEW q \in Projects, NEW to \in {"idle", "observed", "rules", "fired"},
               pc' = [pc EXCEPT ![q] = to]
        PROVE  FALSE
    BY <1>1, <2>3
  <2>4. ASSUME NEW q \in Projects, NEW d \in BOOLEAN, Alert!Observe(q, d) PROVE FALSE
    BY <2>3, <2>4 DEF Alert!Observe, Alert!Goto
  <2>5. ASSUME NEW q \in Projects,
               \/ Alert!ListRules(q) \/ Alert!ListFails(q) \/ Alert!Deliver(q)
               \/ Alert!NotifyFails(q) \/ Alert!Return(q)
        PROVE  FALSE
    BY <2>3, <2>5 DEF Alert!ListRules, Alert!ListFails, Alert!Deliver, Alert!NotifyFails,
                      Alert!Return, Alert!Goto
  <2>6. ASSUME NEW q \in Projects, NEW s \in Rules, Alert!Stamp(q, s) PROVE FALSE
    BY <2>3, <2>6 DEF Alert!Stamp
  <2>7. ASSUME NEW q \in Projects, NEW s \in Rules, Alert!Suppress(q, s) \/ Alert!Recover(q, s)
        PROVE  FALSE
    BY <2>1, <1>1, <2>7 DEF Alert!Suppress, Alert!Recover
  <2>8. ASSUME NEW q \in Projects, NEW s \in Rules, Alert!Breached(q, s)
        PROVE  q = p /\ pc' = [pc EXCEPT ![p] = "firing"]
    BY <1>1, <2>8 DEF Alert!Breached
  <2>9. ASSUME NEW q \in Rules, Alert!Handler(q) PROVE FALSE
    BY <1>1, <2>9 DEF Alert!Handler, Alert!CreateRule, Alert!PatchRule, Alert!DeleteRule
  <2>10. ~Alert!Advance /\ ~UNCHANGED Alert!vars
    BY <1>1 DEF Alert!Advance, Alert!vars
  <2> QED
    BY <1>1, <2>2, <2>4, <2>5, <2>6, <2>7, <2>8, <2>9, <2>10
       DEF Alert!Next, Alert!Evaluate, Alert!Consider
<1>3. PICK s \in Rules : Alert!Breached(p, s) /\ pc' = [pc EXCEPT ![p] = "firing"]
  BY <1>2
<1>4. s = r
  <2>1. s \in todo[p] /\ \A q \in todo[p] : s <= q
    BY <1>3 DEF Alert!Breached, Alert!AtHand
  <2>2. r <= s /\ s <= r /\ r \in Int /\ s \in Int
    BY <1>1, <2>1 DEF AlertBounded
  <2> QED
    BY <2>2
<1> QED
  BY <1>1, <1>3, <1>4 DEF Alert!Breached, Alert!AtHand, Alert!Pass

\* Both gates, of every step.
LEMMA GatesHold ==
  ASSUME AlertBounded, AlertTypeInv, BreachIsDown, StampsAreClose, [Alert!Next]_Alert!vars
  PROVE  Alert!FiresSustained /\ Alert!FiresCooled
<1> SUFFICES ASSUME NEW p \in Projects, NEW r \in Rules, Alert!Fires(p, r)
             PROVE  /\ <<r, p>> \notin skipped => healthy[p] - lag[p] >= For[r]
                    /\ fired[<<r, p>>] - lag[p] >= Cooldown[r] - MaxLag
  BY DEF Alert!FiresSustained, Alert!FiresCooled, Alert!StateKey
<1>1. /\ down[p] /\ Alert!Sustained(p, r, Alert!FirstOrSet(r, p, lag[p])) /\ Alert!Cooled(p, r)
  BY FiringIsBreach
<1>2. r \in todo[p]
  BY DEF Alert!Fires
<1>3. /\ lag[p] \in Int /\ healthy[p] \in Int /\ breach[<<r, p>>] \in Int
      /\ fired[<<r, p>>] \in Int /\ listed[p][r] \in Int
      /\ For[r] \in Int /\ Cooldown[r] \in Int /\ MaxLag \in Int
  BY KeyIs, NeverIs DEF AlertTypeInv
<1>4. <<r, p>> \notin skipped => healthy[p] - lag[p] >= For[r]
  <2> SUFFICES ASSUME <<r, p>> \notin skipped PROVE healthy[p] - lag[p] >= For[r]
    OBVIOUS
  <2>1. CASE breach[<<r, p>>] = Alert!None
    BY <1>1, <1>3, <2>1 DEF BreachIsDown, Alert!Sustained, Alert!FirstOrSet, Alert!StateKey
  <2>2. CASE breach[<<r, p>>] # Alert!None
    <3>1. breach[<<r, p>>] <= healthy[p]
      BY <1>1, <1>2, <2>2 DEF BreachIsDown, Healing
    <3> QED
      BY <1>1, <1>3, <2>2, <3>1 DEF Alert!Sustained, Alert!FirstOrSet, Alert!StateKey
  <2> QED
    BY <2>1, <2>2
<1>5. fired[<<r, p>>] - lag[p] >= Cooldown[r] - MaxLag
  BY <1>1, <1>2, <1>3 DEF StampsAreClose, Alert!Cooled
<1> QED
  BY <1>4, <1>5

-----------------------------------------------------------------------------
\* What every gate of the evaluator rests on.
AlertInv == AlertTypeInv /\ Unheard /\ BreachIsDown /\ StampsAreClose

\* AlertTypeInv says what TypeOK does.
LEMMA AlertTypesOk == ASSUME AlertTypeInv PROVE Alert!TypeOK
<1>1. \A j \in Alert!Keys : /\ breach[j] \in {Alert!None} \union 0..Alert!Most(j[1])
                            /\ fired[j] \in 0..Alert!Never(j[1])
  <2> SUFFICES ASSUME NEW j \in Alert!Keys
               PROVE  /\ breach[j] \in {Alert!None} \union 0..Alert!Most(j[1])
                      /\ fired[j] \in 0..Alert!Never(j[1])
    OBVIOUS
  <2>1. PICK r \in Rules, p \in Projects : j = <<r, p>>
    BY KeyIs
  <2> QED
    BY <2>1, KeyIs, AlertAges
<1>2. down \in [Projects -> BOOLEAN]
  BY DEF AlertTypeInv
<1> QED
  BY <1>1, <1>2 DEF AlertTypeInv, Alert!TypeOK

\* An evaluator that has just started has seen nothing.
LEMMA AlertStart ==
  ASSUME AlertBounded, Alert!Init PROVE AlertInv
<1> USE DEF Alert!Init
<1>1. \A r \in Rules : Alert!Never(r) \in Nat /\ Alert!Most(r) \in Nat
  BY NeverIs
<1>2. \A p \in Projects : Alert!LongAgo(p) \in Nat
  BY LongAgoIs
<1>3. MaxLag \in Nat /\ MaxTroubles \in Nat
  BY DEF AlertBounded
<1>4. \A r \in Rules, p \in Projects : /\ breach[<<r, p>>] = Alert!None
                                       /\ fired[<<r, p>>] = Alert!Never(r)
                                       /\ triggered[r] = Alert!Never(r) /\ todo[p] = {}
                                       /\ listed[p][r] = Alert!Never(r)
                                       /\ healthy[p] = 0 /\ lag[p] = 0
  BY KeyIs
<1>5. AlertTypeInv
  <2>1. \A j \in Alert!Keys : Alert!Never(j[1]) \in Int
    BY <1>1, KeyIs
  <2>2. breach \in [Alert!Keys -> Int] /\ fired \in [Alert!Keys -> Int]
    BY <2>1 DEF Alert!None
  <2>3. triggered \in [Rules -> Int] /\ listed \in [Projects -> [Rules -> Int]]
    BY <1>1
  <2>4. down \in [Projects -> BOOLEAN]
    OBVIOUS
  <2>5. /\ rule \in [Rules -> {"absent", "on", "off", "deleted"}]
        /\ pc \in [Projects -> {"idle", "observed", "rules", "firing", "fired"}]
        /\ todo \in [Projects -> SUBSET Rules]
        /\ lag \in [Projects -> 0..MaxLag] /\ healthy \in [Projects -> Int]
        /\ skipped \subseteq Alert!Keys /\ troubles \in 0..MaxTroubles
    BY <1>3
  <2>6. /\ \A r \in Rules : triggered[r] \in 0..Alert!Never(r)
        /\ \A p \in Projects, r \in Rules : listed[p][r] \in 0..Alert!Never(r)
        /\ \A r \in Rules, p \in Projects : fired[<<r, p>>] \in 0..Alert!Never(r)
    <3> HIDE DEF Alert!Init
    <3>1. \A r \in Rules : triggered[r] = Alert!Never(r)
      BY DEF Alert!Init
    <3>2. \A r \in Rules : triggered[r] \in 0..Alert!Never(r)
      BY <1>1, <3>1
    <3>3. ASSUME NEW r \in Rules, NEW p \in Projects
          PROVE  listed[p][r] \in 0..Alert!Never(r) /\ fired[<<r, p>>] \in 0..Alert!Never(r)
      <4>1. /\ fired[<<r, p>>] = Alert!Never(r) /\ listed[p][r] = Alert!Never(r)
            /\ Alert!Never(r) \in Nat
        BY <1>1, <1>4
      <4> QED
        BY <4>1
    <3> QED
      BY <3>2, <3>3
  <2>7. /\ \A r \in Rules, p \in Projects : breach[<<r, p>>] \in {Alert!None} \union 0..Alert!Most(r)
        /\ \A p \in Projects : healthy[p] \in 0..Alert!LongAgo(p)
        /\ \A p \in Projects : pc[p] \in {"idle", "observed"} => todo[p] = {}
    <3> HIDE DEF Alert!Init
    <3> QED
      <4>1. \A r \in Rules, p \in Projects : breach[<<r, p>>] = Alert!None
        BY <1>4
      <4>2. \A p \in Projects : healthy[p] = 0 /\ todo[p] = {}
        BY DEF Alert!Init
      <4> QED
        BY <1>2, <4>1, <4>2
  <2> HIDE DEF Alert!Init
  <2> QED
    BY <2>2, <2>3, <2>4, <2>5, <2>6, <2>7 DEF AlertTypeInv
<1>6. Unheard
  BY <1>4 DEF Unheard
<1>7. BreachIsDown /\ StampsAreClose
  <2>1. \A p \in Projects : lag[p] = 0 /\ healthy[p] = 0
    OBVIOUS
  <2> HIDE DEF Alert!Init
  <2>2. BreachIsDown
    BY <1>4, <2>1 DEF BreachIsDown
  <2>3. StampsAreClose
    <3> SUFFICES ASSUME NEW r \in Rules, NEW p \in Projects
                 PROVE  /\ triggered[r] <= fired[<<r, p>>] + MaxLag
                        /\ r \notin todo[p]
      BY DEF StampsAreClose
    <3>1. /\ fired[<<r, p>>] = Alert!Never(r) /\ triggered[r] = Alert!Never(r) /\ todo[p] = {}
          /\ Alert!Never(r) \in Nat
      BY <1>1, <1>4
    <3> QED
      BY <1>3, <3>1
  <2> QED
    BY <2>2, <2>3
<1> QED
  BY <1>5, <1>6, <1>7 DEF AlertInv

\* Every step keeps AlertInv.
LEMMA AlertStep ==
  ASSUME AlertBounded, AlertInv, [Alert!Next]_Alert!vars
  PROVE  AlertInv'
<1> USE DEF AlertInv
<1>1. AlertTypeInv'
  BY AlertTypeStep
<1>2. Unheard'
  BY UnheardStep
<1>3. \A r \in Rules, p \in Projects : BreachOf(r, p)'
  BY BreachOfStep
<1>4. \A p \in Projects : lag'[p] <= healthy'[p] /\ (pc'[p] = "idle" => lag'[p] = 0)
  BY HealthyStep
<1>5. BreachIsDown'
  BY <1>3, <1>4 DEF BreachIsDown, BreachOf
<1>6. StampsAreClose'
  BY StampsStep DEF StampsAreClose
<1> QED
  BY <1>1, <1>2, <1>5, <1>6

\* Whatever the probes of different projects do to the rules they share: a rule
\* fires for a project only when no observation of the last for_seconds was up,
\* if none passed the rule by, and two firings of it for one project are a
\* cooldown apart but for the lag of a round.
THEOREM AlertHolds ==
  ASSUME AlertBounded
  PROVE  Alert!Spec => []Alert!TypeOK /\ Alert!SustainedUnlessSkipped /\ Alert!CooldownKept
<1>1. Alert!Init => AlertInv
  BY AlertStart
<1>2. AlertInv /\ [Alert!Next]_Alert!vars => AlertInv'
  BY AlertStep
<1>3. AlertInv => Alert!TypeOK
  BY AlertTypesOk DEF AlertInv
<1>4. AlertInv /\ [Alert!Next]_Alert!vars
        => [Alert!FiresSustained]_Alert!vars /\ [Alert!FiresCooled]_Alert!vars
  BY GatesHold DEF AlertInv
<1> QED
  BY <1>1, <1>2, <1>3, <1>4, PTL
     DEF Alert!Spec, Alert!SustainedUnlessSkipped, Alert!CooldownKept

\* The same of what the runs check.
THEOREM AlertHoldsThroughout == ASSUME AlertBounded PROVE SumSpec => AlertsAreEarned
<1>1. SumInit /\ focus = "alert" => Alert!Init
  BY DEF SumInit
<1>2. focus = "alert" /\ [SumNext]_sumVars => [Alert!Next]_Alert!vars /\ (focus = "alert")'
  BY DEF SumNext, healthOnly, discoveryOnly, recorderOnly, alertOnly, floorOnly,
         notifyOnly, sumVars, Alert!tables, Alert!call,
         Alert!history, Alert!vars
<1>3. ~(focus = "alert") /\ [SumNext]_sumVars => (~(focus = "alert"))'
  BY DEF SumNext, sumVars
<1>4. Alert!Init => AlertInv
  BY AlertStart
<1>5. AlertInv /\ [Alert!Next]_Alert!vars
        => AlertInv' /\ Alert!FiresSustained /\ Alert!FiresCooled
  BY AlertStep, GatesHold DEF AlertInv
<1>6. (focus = "alert" => AlertInv) => (focus = "alert" => Alert!TypeOK)
  BY AlertTypesOk DEF AlertInv
<1>7. /\ (focus = "alert" => AlertInv)
      /\ [SumNext]_sumVars
      => /\ (focus = "alert" => AlertInv)'
         /\ [focus = "alert" => Alert!FiresSustained]_sumVars
         /\ [focus = "alert" => Alert!FiresCooled]_sumVars
  BY <1>2, <1>3, <1>5
<1> QED
  BY <1>1, <1>4, <1>6, <1>7, PTL DEF SumSpec, AlertsAreEarned

-----------------------------------------------------------------------------
\* Times are numbers, and every environment has a default floor.
FloorBounded ==
  /\ Refresh \in Nat /\ MaxCall \in Nat
  /\ Severities \subseteq Nat \ {0} /\ Default \in [Envs -> Severities]
  /\ Floor!Unknown \notin Envs /\ Floor!Unknown \notin Placed

FloorTypeInv ==
  /\ environment \in [Placed -> Envs]
  /\ override \in [Envs -> Severities \union {0}]
  /\ projectEnv \in [Placed -> Envs \union {Floor!Unknown}]
  /\ floors \in [Envs -> Severities \union {0}] /\ loaded \in 0..(Refresh + 1)
  /\ pc \in [Projects ->
               {"idle", "missed", "got", "known", "listing", "storing", "ready"}]
  /\ project \in [Projects -> Placed \union {Floor!Unknown}]
  /\ env \in [Projects -> Envs \union {Floor!Unknown}]
  /\ rows \in [Projects -> [Envs -> Severities \union {0}]]
  /\ began \in [Projects -> 0..MaxCall]
  /\ floorAge \in [Envs \X Severities -> 0..(Floor!Window + 1)]

\* What a call has learnt: a project while it looks for its environment, and an
\* environment once it has found it.
Learnt ==
  /\ \A c \in Projects : pc[c] \in {"missed", "got"} => project[c] \in Placed
  /\ \A c \in Projects :
       pc[c] \in {"got", "known", "listing", "storing", "ready"} => env[c] \in Envs

\* How long ago the floor of a table was in force.
FloorAge(table, e) == floorAge[<<e, Floor!Floor(table, e)>>]

\* What is in the table is in force; what was listed was so since the call
\* began; what is cached was listed no earlier than MaxCall before it was
\* stored; and what a call will judge by was fresh enough when it looked.
Aging ==
  /\ \A e \in Envs : FloorAge(override, e) = 0
  /\ \A c \in Projects, e \in Envs :
       pc[c] = "storing" => FloorAge(rows[c], e) <= began[c]
  /\ ~failing /\ loaded <= Refresh => \A e \in Envs : FloorAge(floors, e) <= MaxCall + loaded
  /\ ~failing => \A c \in Projects, e \in Envs :
       pc[c] = "ready" => FloorAge(floors, e) <= MaxCall + Refresh + began[c]

FloorInv == FloorTypeInv /\ Learnt /\ Aging

\* Every table has a floor for every environment.
LEMMA FloorIsThere ==
  ASSUME FloorBounded, NEW e \in Envs, NEW table \in [Envs -> Severities \union {0}]
  PROVE  /\ Floor!Floor(table, e) \in Severities
         /\ <<e, Floor!Floor(table, e)>> \in Envs \X Severities
<1>1. table[e] \in Severities \union {0} /\ Default[e] \in Severities /\ 0 \notin Severities
  BY DEF FloorBounded
<1>2. Floor!Floor(table, e) \in Severities
  BY <1>1 DEF Floor!Floor
<1> QED
  BY <1>2

LEMMA FloorStart == ASSUME FloorBounded, Floor!Init PROVE FloorInv
<1>1. Refresh + 1 \in 0..(Refresh + 1) /\ 0 \in 0..MaxCall /\ Floor!Window + 1 \in Nat
  BY DEF FloorBounded, Floor!Window
<1>2. floorAge \in [Envs \X Severities -> 0..(Floor!Window + 1)]
  BY <1>1 DEF Floor!Init
<1>3. FloorTypeInv
  BY <1>1, <1>2 DEF FloorTypeInv, Floor!Init, Floor!NoRows
<1>4. Learnt
  BY DEF Learnt, Floor!Init
<1>5. ASSUME NEW e \in Envs PROVE FloorAge(override, e) = 0
  <2>1. <<e, Floor!Floor(override, e)>> \in Envs \X Severities
    BY <1>3, FloorIsThere DEF FloorTypeInv
  <2> QED
    BY <2>1 DEF FloorAge, Floor!Init
<1>6. Aging
  BY <1>5 DEF Aging, Floor!Init, FloorBounded
<1> QED
  BY <1>3, <1>4, <1>6 DEF FloorInv

\* Time passes: a floor grows older by no more than the calls do.
LEMMA FloorsAge == ASSUME FloorBounded, FloorInv, Floor!Advance PROVE FloorInv'
<1>1. Refresh \in Nat /\ MaxCall \in Nat /\ Floor!Window + 1 \in Nat
  BY DEF FloorBounded, Floor!Window
<1>2. loaded' \in 0..(Refresh + 1) /\ (loaded' <= Refresh => loaded' = loaded + 1)
  BY <1>1 DEF FloorInv, FloorTypeInv, Floor!Advance, Floor!Older
<1>3. /\ began' \in [Projects -> 0..MaxCall]
      /\ \A c \in Projects : pc[c] # "idle" => began'[c] = began[c] + 1
  BY <1>1 DEF FloorInv, FloorTypeInv, Floor!Advance
<1>4. \A k \in Envs \X Severities :
        floorAge'[k] \in 0..(Floor!Window + 1) /\ floorAge'[k] <= floorAge[k] + 1
  BY <1>1 DEF FloorInv, FloorTypeInv, Floor!Advance, Floor!Older
<1>5. floorAge' \in [Envs \X Severities -> 0..(Floor!Window + 1)]
  BY <1>4 DEF Floor!Advance
<1>6. FloorTypeInv'
  BY <1>2, <1>3, <1>5 DEF FloorInv, FloorTypeInv, Floor!Advance, Floor!table, Floor!Window
<1>7. Learnt'
  BY DEF FloorInv, Learnt, Floor!Advance
<1>8. \A e \in Envs : \A t \in [Envs -> Severities \union {0}] :
        /\ FloorAge(t, e)' <= FloorAge(t, e) + 1
        /\ FloorAge(t, e) \in Nat /\ FloorAge(t, e)' \in Nat
  <2> SUFFICES ASSUME NEW e \in Envs, NEW t \in [Envs -> Severities \union {0}]
      PROVE /\ FloorAge(t, e)' <= FloorAge(t, e) + 1
            /\ FloorAge(t, e) \in Nat /\ FloorAge(t, e)' \in Nat
    OBVIOUS
  <2>1. <<e, Floor!Floor(t, e)>> \in Envs \X Severities
    BY FloorIsThere
  <2>2. floorAge[<<e, Floor!Floor(t, e)>>] \in 0..(Floor!Window + 1)
    BY <2>1 DEF FloorInv, FloorTypeInv
  <2> QED
    BY <1>1, <1>4, <2>1, <2>2 DEF FloorAge
<1>9. ASSUME NEW e \in Envs PROVE FloorAge(override, e)' = 0
  <2>1. /\ <<e, Floor!Floor(override, e)>> \in Envs \X Severities
        /\ override' = override
    BY FloorIsThere DEF FloorInv, FloorTypeInv, Floor!Advance, Floor!table
  <2> QED
    BY <2>1 DEF FloorAge, Floor!Advance
<1>10. Aging'
  <2>1. UNCHANGED <<rows, floors, pc, failing>>
    BY DEF Floor!Advance
  <2>3. ASSUME NEW c \in Projects, NEW e \in Envs, pc[c] = "storing"
        PROVE  FloorAge(rows[c], e)' <= began'[c]
    <3>1. rows[c] \in [Envs -> Severities \union {0}] /\ rows'[c] = rows[c]
      BY <2>1 DEF FloorInv, FloorTypeInv
    <3>2. FloorAge(rows[c], e) <= began[c] /\ began'[c] = began[c] + 1 /\ began[c] \in Nat
      BY <1>3, <2>3 DEF FloorInv, Aging, FloorTypeInv
    <3>3. FloorAge(rows[c], e)' = floorAge'[<<e, Floor!Floor(rows[c], e)>>]
      BY <3>1 DEF FloorAge, Floor!Floor
    <3> QED
      BY <1>8, <3>1, <3>2, <3>3
  <2> QED
    BY <1>1, <1>2, <1>3, <1>8, <1>9, <2>1, <2>3 DEF FloorInv, FloorTypeInv, Aging
<1> QED
  BY <1>6, <1>7, <1>10 DEF FloorInv

\* What a call does of its own leaves the tables and their ages as they are.
LEMMA CallsKeepTypes ==
  ASSUME FloorBounded, FloorTypeInv, Learnt, NEW c \in Projects, Floor!Allow(c)
  PROVE  FloorTypeInv' /\ Learnt' /\ UNCHANGED <<environment, override, began, floorAge>>
<1> USE DEF FloorTypeInv, Learnt, Floor!Goto, Floor!table, Floor!cache, Floor!ages
<1>0. Refresh \in Nat /\ 0 \in 0..(Refresh + 1) /\ Floor!Unknown \notin Envs
  BY DEF FloorBounded
<1>1. ASSUME NEW p \in Placed, Floor!LookupEnv(c, p)
      PROVE  FloorTypeInv' /\ Learnt' /\ UNCHANGED <<environment, override, began, floorAge>>
  BY <1>0, <1>1 DEF Floor!LookupEnv
<1>2. CASE Floor!GetProject(c)
  BY <1>0, <1>2 DEF Floor!GetProject
<1>3. CASE Floor!GetFails(c)
  BY <1>0, <1>3 DEF Floor!GetFails
<1>4. CASE Floor!StoreEnv(c)
  BY <1>0, <1>4 DEF Floor!StoreEnv
<1>5. CASE Floor!LookupFloor(c)
  BY <1>0, <1>5 DEF Floor!LookupFloor
<1>6. CASE Floor!ListOverrides(c)
  BY <1>0, <1>6 DEF Floor!ListOverrides
<1>7. CASE Floor!ListFails(c)
  BY <1>0, <1>7 DEF Floor!ListFails
<1>8. CASE Floor!StoreFloors(c)
  <2>1. Floor!NoRows \in [Envs -> Severities \union {0}]
    BY DEF Floor!NoRows
  <2> QED
    BY <1>0, <1>8, <2>1 DEF Floor!StoreFloors
<1>9. CASE Floor!Answer(c)
  BY <1>0, <1>9 DEF Floor!Answer
<1> QED
  BY <1>1, <1>2, <1>3, <1>4, <1>5, <1>6, <1>7, <1>8, <1>9 DEF Floor!Allow

\* A call that looks at the cache, loads it or gives up keeps what it judges by
\* fresh.
LEMMA CallsKeepAging ==
  ASSUME FloorBounded, FloorInv, NEW c \in Projects, Floor!Allow(c) PROVE Aging'
<1>1. FloorTypeInv' /\ UNCHANGED <<environment, override, began, floorAge>>
  BY CallsKeepTypes DEF FloorInv
<1>2. \A e \in Envs : \A t \in [Envs -> Severities \union {0}] : FloorAge(t, e) \in Nat
  <2> SUFFICES ASSUME NEW e \in Envs, NEW t \in [Envs -> Severities \union {0}]
      PROVE FloorAge(t, e) \in Nat
    OBVIOUS
  <2> QED
    BY FloorIsThere DEF FloorInv, FloorTypeInv, FloorAge, FloorBounded, Floor!Window
<1>3. /\ began \in [Projects -> Nat] /\ \A d \in Projects : began[d] <= MaxCall
      /\ loaded \in Nat /\ MaxCall \in Nat /\ Refresh \in Nat
      /\ floors \in [Envs -> Severities \union {0}]
      /\ rows \in [Projects -> [Envs -> Severities \union {0}]]
      /\ override \in [Envs -> Severities \union {0}]
  BY DEF FloorInv, FloorTypeInv, FloorBounded
<1>4. \A e \in Envs : FloorAge(override, e)' = 0
  BY <1>1 DEF FloorInv, Aging, FloorAge, Floor!Floor
<1>5. CASE Floor!StoreFloors(c)
  <2>1. /\ pc[c] = "storing" /\ pc' = [pc EXCEPT ![c] = "ready"] /\ loaded' = 0
        /\ floors' = rows[c] /\ rows' = [rows EXCEPT ![c] = Floor!NoRows]
    BY <1>5 DEF Floor!StoreFloors, Floor!Goto
  <2>2. ASSUME NEW e \in Envs PROVE FloorAge(floors, e)' <= MaxCall
    <3>1. FloorAge(rows[c], e) <= began[c]
      BY <2>1 DEF FloorInv, Aging
    <3>2. FloorAge(floors, e)' = FloorAge(rows[c], e)
      BY <1>1, <2>1 DEF FloorAge, Floor!Floor
    <3> QED
      BY <1>2, <1>3, <3>1, <3>2
  <2>3. \A e \in Envs : FloorAge(floors, e)' \in Nat
    BY <1>1, <1>2, <1>3, <2>1 DEF FloorAge, Floor!Floor
  <2>4. ASSUME NEW d \in Projects, NEW e \in Envs, pc'[d] = "storing"
        PROVE  FloorAge(rows[d], e)' <= began'[d]
    <3>1. d # c /\ pc[d] = "storing" /\ rows'[d] = rows[d]
      BY <1>3, <2>1, <2>4 DEF FloorInv, FloorTypeInv
    <3>2. FloorAge(rows[d], e)' = FloorAge(rows[d], e)
      BY <1>1, <3>1 DEF FloorAge, Floor!Floor
    <3> QED
      BY <1>1, <3>1, <3>2 DEF FloorInv, Aging
  <2> QED
    BY <1>1, <1>3, <1>4, <2>1, <2>2, <2>3, <2>4 DEF Aging
<1>6. CASE Floor!ListOverrides(c)
  <2>1. /\ pc[c] = "listing" /\ pc' = [pc EXCEPT ![c] = "storing"]
        /\ rows' = [rows EXCEPT ![c] = override]
        /\ UNCHANGED <<floors, loaded, failing>>
    BY <1>6 DEF Floor!ListOverrides, Floor!Goto, Floor!cache, Floor!ages
  <2>2. ASSUME NEW d \in Projects, NEW e \in Envs, pc'[d] = "storing"
        PROVE  FloorAge(rows[d], e)' <= began'[d]
    <3>1. CASE d = c
      <4>1. FloorAge(rows[d], e)' = FloorAge(override, e)
        BY <1>1, <1>3, <2>1, <3>1 DEF FloorAge, Floor!Floor
      <4> QED
        BY <1>1, <1>3, <4>1 DEF FloorInv, Aging
    <3>2. CASE d # c
      <4>1. pc[d] = "storing" /\ rows'[d] = rows[d]
        BY <1>3, <2>1, <2>2, <3>2 DEF FloorInv, FloorTypeInv
      <4>2. FloorAge(rows[d], e)' = FloorAge(rows[d], e)
        BY <1>1, <4>1 DEF FloorAge, Floor!Floor
      <4> QED
        BY <1>1, <4>1, <4>2 DEF FloorInv, Aging
    <3> QED
      BY <3>1, <3>2
  <2>3. \A e \in Envs : FloorAge(floors, e)' = FloorAge(floors, e)
    BY <1>1, <2>1 DEF FloorAge, Floor!Floor
  <2>4. \A d \in Projects : pc'[d] = "ready" => pc[d] = "ready"
    BY <2>1 DEF FloorInv, FloorTypeInv
  <2> QED
    BY <1>1, <1>4, <2>1, <2>2, <2>3, <2>4 DEF FloorInv, Aging
<1>7. CASE ~Floor!StoreFloors(c) /\ ~Floor!ListOverrides(c)
  <2>1. /\ UNCHANGED <<floors, loaded, rows>>
        /\ \A d \in Projects : pc'[d] = "storing" => pc[d] = "storing"
        /\ failing' \in {failing, TRUE}
        /\ \A d \in Projects : pc'[d] = "ready" /\ ~failing' => pc[d] = "ready" \/ loaded <= Refresh
    <3>1. ASSUME NEW p \in Placed, Floor!LookupEnv(c, p)
          PROVE  /\ UNCHANGED <<floors, loaded, rows, failing>>
                 /\ pc' = [pc EXCEPT ![c] = IF projectEnv[p] = Floor!Unknown THEN "missed" ELSE "known"]
      BY <3>1 DEF Floor!LookupEnv, Floor!Goto, Floor!cache, Floor!ages
    <3>2. CASE Floor!LookupFloor(c)
      <4>1. /\ UNCHANGED <<floors, loaded, rows, failing>>
            /\ pc' = [pc EXCEPT ![c] = IF Floor!Stale THEN "listing" ELSE "ready"]
        BY <3>2 DEF Floor!LookupFloor, Floor!Goto, Floor!cache, Floor!ages
      <4> QED
        BY <1>3, <4>1 DEF FloorInv, FloorTypeInv, Floor!Stale
    <3>3. CASE Floor!ListFails(c)
      BY <3>3 DEF FloorInv, FloorTypeInv, Floor!ListFails, Floor!Goto, Floor!cache
    <3>4. CASE Floor!GetProject(c) \/ Floor!GetFails(c) \/ Floor!StoreEnv(c) \/ Floor!Answer(c)
      <4>1. /\ UNCHANGED <<floors, loaded, rows, failing>>
            /\ \E to \in {"got", "idle", "known"} : pc' = [pc EXCEPT ![c] = to]
        BY <3>4 DEF Floor!GetProject, Floor!GetFails, Floor!StoreEnv, Floor!Answer,
           Floor!Goto, Floor!cache, Floor!ages
      <4> QED
        BY <4>1 DEF FloorInv, FloorTypeInv
    <3>5. ASSUME NEW p \in Placed, Floor!LookupEnv(c, p)
          PROVE  \A d \in Projects : pc'[d] \in {"storing", "ready"} => pc'[d] = pc[d]
      BY <3>1, <3>5 DEF FloorInv, FloorTypeInv
    <3> QED
      BY <1>7, <3>1, <3>2, <3>3, <3>4, <3>5 DEF Floor!Allow
  <2>2. \A e \in Envs : FloorAge(floors, e)' = FloorAge(floors, e)
    BY <1>1, <2>1 DEF FloorAge, Floor!Floor
  <2>3. \A d \in Projects, e \in Envs : FloorAge(rows[d], e)' = FloorAge(rows[d], e)
    BY <1>1, <2>1 DEF FloorAge, Floor!Floor
  <2>4. ASSUME NEW d \in Projects, NEW e \in Envs, ~failing', pc'[d] = "ready"
        PROVE  FloorAge(floors, e) <= MaxCall + Refresh + began[d]
    <3>1. ~failing /\ (pc[d] = "ready" \/ loaded <= Refresh)
      <4>1. failing' = failing \/ failing' = TRUE
        BY <2>1
      <4>2. ~failing
        BY <2>4, <4>1
      <4> QED
        BY <2>1, <2>4, <4>2
    <3>2. CASE pc[d] = "ready"
      BY <3>1, <3>2 DEF FloorInv, Aging
    <3>3. CASE loaded <= Refresh
      <4>1. FloorAge(floors, e) <= MaxCall + loaded
        BY <3>1, <3>3 DEF FloorInv, Aging
      <4> QED
        BY <1>2, <1>3, <3>3, <4>1
    <3> QED
      BY <3>1, <3>2, <3>3
  <2>5. \A d \in Projects, e \in Envs :
          pc'[d] = "storing" => FloorAge(rows[d], e)' <= began'[d]
    BY <1>1, <2>1, <2>3 DEF FloorInv, Aging
  <2>6. \A d \in Projects, e \in Envs :
          ~failing' /\ pc'[d] = "ready" => FloorAge(floors, e)' <= MaxCall + Refresh + began'[d]
    BY <1>1, <2>2, <2>4
  <2>7. ~failing' => ~failing
    <3>1. failing' = failing \/ failing' = TRUE
      BY <2>1
    <3> QED
      BY <3>1
  <2>8. ~failing' /\ loaded' <= Refresh => \A e \in Envs : FloorAge(floors, e)' <= MaxCall + loaded'
    BY <2>1, <2>2, <2>7 DEF FloorInv, Aging
  <2> QED
    BY <1>4, <2>5, <2>6, <2>8 DEF Aging
<1> QED
  BY <1>5, <1>6, <1>7

\* An edit of the overrides makes one floor young, and none older.
LEMMA UpsertKeeps ==
  ASSUME FloorBounded, FloorInv, NEW x \in Envs, NEW f \in Severities \union {0},
         Floor!Upsert(x, f)
  PROVE  FloorInv'
<1>1. /\ override' = [override EXCEPT ![x] = f]
      /\ floorAge' = [floorAge EXCEPT ![<<x, Floor!Floor(override', x)>>] = 0]
      /\ UNCHANGED <<environment, projectEnv, floors, loaded, pc, project, env, rows,
                     began, failing>>
  BY DEF Floor!Upsert, Floor!UpsertRow, Floor!cache, Floor!call
<1>2. override' \in [Envs -> Severities \union {0}]
  BY <1>1 DEF FloorInv, FloorTypeInv
<1>3. /\ floorAge' \in [Envs \X Severities -> 0..(Floor!Window + 1)]
      /\ \A k \in Envs \X Severities :
           floorAge'[k] = IF k = <<x, Floor!Floor(override', x)>> THEN 0 ELSE floorAge[k]
  <2>1. floorAge \in [Envs \X Severities -> 0..(Floor!Window + 1)] /\ 0 \in 0..(Floor!Window + 1)
    BY DEF FloorInv, FloorTypeInv, FloorBounded, Floor!Window
  <2> QED
    BY <1>1, <2>1
<1>4. FloorTypeInv' /\ Learnt'
  BY <1>1, <1>2, <1>3 DEF FloorInv, FloorTypeInv, Learnt, Floor!Window
<1>5. \A e \in Envs : \A t \in [Envs -> Severities \union {0}] :
        /\ FloorAge(t, e)' <= FloorAge(t, e)
        /\ FloorAge(t, e) \in Nat /\ FloorAge(t, e)' \in Nat
  <2> SUFFICES ASSUME NEW e \in Envs, NEW t \in [Envs -> Severities \union {0}]
      PROVE /\ FloorAge(t, e)' <= FloorAge(t, e)
            /\ FloorAge(t, e) \in Nat /\ FloorAge(t, e)' \in Nat
    OBVIOUS
  <2>1. <<e, Floor!Floor(t, e)>> \in Envs \X Severities
    BY FloorIsThere
  <2>2. floorAge[<<e, Floor!Floor(t, e)>>] \in Nat
    BY <2>1 DEF FloorInv, FloorTypeInv
  <2> QED
    BY <1>3, <2>1, <2>2 DEF FloorAge
<1>6. ASSUME NEW e \in Envs PROVE FloorAge(override, e)' = 0
  <2>1. <<e, Floor!Floor(override', e)>> \in Envs \X Severities
    BY <1>2, FloorIsThere
  <2>2. CASE e = x
    BY <1>3, <2>1, <2>2 DEF FloorAge
  <2>3. CASE e # x
    <3>1. override \in [Envs -> Severities \union {0}] /\ override'[e] = override[e]
      BY <1>1, <2>3 DEF FloorInv, FloorTypeInv
    <3>2. Floor!Floor(override', e) = Floor!Floor(override, e)
      BY <3>1 DEF Floor!Floor
    <3>3. <<e, Floor!Floor(override, e)>> # <<x, Floor!Floor(override', x)>>
      BY <2>3
    <3>4. FloorAge(override, e) = 0
      BY DEF FloorInv, Aging
    <3> QED
      BY <1>3, <2>1, <3>2, <3>3, <3>4 DEF FloorAge
  <2> QED
    BY <2>2, <2>3
<1>7. /\ \A e \in Envs : FloorAge(floors, e)' <= FloorAge(floors, e)
      /\ \A e \in Envs : FloorAge(floors, e) \in Nat /\ FloorAge(floors, e)' \in Nat
  BY <1>1, <1>5 DEF FloorInv, FloorTypeInv, FloorAge, Floor!Floor
<1>8. \A c \in Projects, e \in Envs :
        /\ FloorAge(rows[c], e)' <= FloorAge(rows[c], e)
        /\ FloorAge(rows[c], e) \in Nat /\ FloorAge(rows[c], e)' \in Nat
  <2> SUFFICES ASSUME NEW c \in Projects, NEW e \in Envs
      PROVE /\ FloorAge(rows[c], e)' <= FloorAge(rows[c], e)
            /\ FloorAge(rows[c], e) \in Nat /\ FloorAge(rows[c], e)' \in Nat
    OBVIOUS
  <2>1. rows[c] \in [Envs -> Severities \union {0}] /\ rows'[c] = rows[c]
    BY <1>1 DEF FloorInv, FloorTypeInv
  <2> QED
    BY <1>5, <2>1 DEF FloorAge, Floor!Floor
<1>9. began \in [Projects -> Nat] /\ MaxCall \in Nat /\ Refresh \in Nat /\ loaded \in Nat
  BY DEF FloorInv, FloorTypeInv, FloorBounded
<1>10. \A c \in Projects, e \in Envs : pc'[c] = "storing" => FloorAge(rows[c], e)' <= began'[c]
  BY <1>1, <1>8, <1>9 DEF FloorInv, Aging
<1>11. ~failing' /\ loaded' <= Refresh => \A e \in Envs : FloorAge(floors, e)' <= MaxCall + loaded'
  BY <1>1, <1>7, <1>9 DEF FloorInv, Aging
<1>12. ~failing' => \A c \in Projects, e \in Envs :
         pc'[c] = "ready" => FloorAge(floors, e)' <= MaxCall + Refresh + began'[c]
  BY <1>1, <1>7, <1>9 DEF FloorInv, Aging
<1> QED
  BY <1>4, <1>6, <1>10, <1>11, <1>12 DEF FloorInv, Aging

\* Every step keeps FloorInv.
LEMMA FloorStep == ASSUME FloorBounded, FloorInv, [Floor!Next]_Floor!vars PROVE FloorInv'
<1>1. CASE Floor!Advance
  BY <1>1, FloorsAge
<1>2. ASSUME NEW c \in Projects, Floor!Allow(c) PROVE FloorInv'
  BY <1>2, CallsKeepTypes, CallsKeepAging DEF FloorInv
<1>3. ASSUME NEW p \in Placed, NEW e \in Envs, Floor!EditProject(p, e) PROVE FloorInv'
  BY <1>3 DEF FloorInv, FloorTypeInv, Learnt, Aging, FloorAge, Floor!EditProject, Floor!cache,
     Floor!call, Floor!Window, Floor!Floor
<1>4. ASSUME NEW e \in Envs, NEW f \in Severities \union {0}, Floor!Upsert(e, f)
      PROVE  FloorInv'
  BY <1>4, UpsertKeeps
<1>5. CASE UNCHANGED Floor!vars
  BY <1>5 DEF FloorInv, FloorTypeInv, Learnt, Aging, FloorAge, Floor!vars, Floor!table,
     Floor!cache, Floor!call, Floor!ages, Floor!Window, Floor!Floor
<1> QED
  BY <1>1, <1>2, <1>3, <1>4, <1>5 DEF Floor!Next

\* A call that answers does so by floors that were in force lately.
LEMMA FloorAnswers == ASSUME FloorBounded, FloorInv PROVE Floor!AnswersRecent
<1> SUFFICES ASSUME ~failing, NEW c \in Projects, pc[c] = "ready"
    PROVE floorAge[<<env[c], Floor!Floor(floors, env[c])>>] <= Floor!Window
  BY DEF Floor!AnswersRecent, Floor!Answers
<1>1. env[c] \in Envs
  BY DEF FloorInv, Learnt
<1>2. FloorAge(floors, env[c]) <= MaxCall + Refresh + began[c]
  BY <1>1 DEF FloorInv, Aging
<1>3. <<env[c], Floor!Floor(floors, env[c])>> \in Envs \X Severities
  BY <1>1, FloorIsThere DEF FloorInv, FloorTypeInv
<1>4. FloorAge(floors, env[c]) \in Nat /\ began[c] \in 0..MaxCall
  BY <1>3 DEF FloorInv, FloorTypeInv, FloorAge
<1> QED
  BY <1>2, <1>4 DEF FloorAge, FloorBounded, Floor!Window

\* The types of the floors, which need failing to be a Boolean too.
LEMMA FloorTypes == ASSUME FloorBounded, FloorInv, failing \in BOOLEAN PROVE Floor!TypeOK
BY DEF FloorInv, FloorTypeInv, Floor!TypeOK

LEMMA FailingIsBoolean ==
  ASSUME failing \in BOOLEAN, [Floor!Next]_Floor!vars PROVE failing' \in BOOLEAN
<1>1. failing' \in {failing, TRUE, FALSE}
  BY DEF Floor!Next, Floor!Advance, Floor!Allow, Floor!LookupEnv, Floor!GetProject,
     Floor!GetFails, Floor!StoreEnv, Floor!LookupFloor, Floor!ListOverrides,
     Floor!ListFails, Floor!StoreFloors, Floor!Answer, Floor!EditProject, Floor!Upsert,
     Floor!ages, Floor!vars
<1> QED
  BY <1>1

\* env.go: "rules with a severity below the project's environment floor are
\* suppressed".  Whatever calls of Allow and edits overlap, a severity is held
\* against a floor that was in force no longer than Refresh + 2 * MaxCall ago,
\* unless a refresh has failed since.
THEOREM FloorHolds ==
  ASSUME FloorBounded
  PROVE  Floor!Spec => []Floor!TypeOK /\ Floor!FloorIsRecent
<1> DEFINE I == FloorInv /\ failing \in BOOLEAN
<1>1. Floor!Init => I
  BY FloorStart DEF Floor!Init
<1>2. I /\ [Floor!Next]_Floor!vars => I' /\ Floor!AnswersRecent
  BY FloorStep, FailingIsBoolean, FloorAnswers
<1>3. I => Floor!TypeOK
  BY FloorTypes
<1> QED
  <2> HIDE DEF I
  <2> QED
    BY <1>1, <1>2, <1>3, PTL DEF Floor!Spec, Floor!FloorIsRecent

\* The same of what the runs check.
THEOREM FloorHoldsThroughout == ASSUME FloorBounded PROVE SumSpec => FloorIsRecent
<1> DEFINE I == FloorInv /\ failing \in BOOLEAN
<1>1. SumInit => (focus = "floor" => I)
  <2>1. SumInit /\ focus = "floor" => Floor!Init
    BY DEF SumInit
  <2> QED
    BY <2>1, FloorStart DEF Floor!Init
<1>2. focus = "floor" /\ [SumNext]_sumVars => [Floor!Next]_Floor!vars /\ (focus = "floor")'
  BY DEF SumNext, healthOnly, discoveryOnly, recorderOnly, alertOnly, floorOnly,
         notifyOnly, sumVars, Floor!table, Floor!cache, Floor!call, Floor!ages, Floor!vars
<1>3. ~(focus = "floor") /\ [SumNext]_sumVars => (~(focus = "floor"))'
  BY DEF SumNext, sumVars
<1>4. I /\ [Floor!Next]_Floor!vars => I' /\ Floor!AnswersRecent
  BY FloorStep, FailingIsBoolean, FloorAnswers
<1>5. I => Floor!TypeOK
  BY FloorTypes
<1> HIDE DEF I
<1>6. (focus = "floor" => I) => (focus = "floor" => Floor!TypeOK)
  BY <1>5
<1>7. (focus = "floor" => I) /\ [SumNext]_sumVars
        => (focus = "floor" => I)' /\ [focus = "floor" => Floor!AnswersRecent]_sumVars
  BY <1>2, <1>3, <1>4
<1> QED
  BY <1>1, <1>6, <1>7, PTL DEF SumSpec, FloorIsRecent

-----------------------------------------------------------------------------
\* Callers are finitely many, a limiter holds a token, and no channel is the
\* absent one.
NotifyBounded ==
  /\ IsFiniteSet(Callers) /\ Burst \in Nat \ {0}
  /\ MaxTokens \in Nat /\ MaxTroubles \in Nat
  /\ NoRow \notin Channels /\ NoRow \notin [enabled : BOOLEAN, token : 0..MaxTokens]

\* What is stored has a token that was given, and what PATCH carries has one or
\* none.
RowsInv ==
  /\ unborn \subseteq Channels /\ edits \in 0..MaxTokens
  /\ row \in [Channels -> [enabled : BOOLEAN, token : 1..edits] \union {NoRow}]
  /\ patching \in [enabled : BOOLEAN, token : 0..edits] \union {NoRow}
  /\ patched \in Channels \union {NoRow}
  /\ patched = NoRow <=> patching = NoRow

\* A channel with a token is no absent one, and stays typed as tokens are given.
LEMMA RowsGrow ==
  ASSUME NotifyBounded, NEW m \in 0..MaxTokens, NEW n \in 0..MaxTokens, m <= n
  PROVE  /\ [enabled : BOOLEAN, token : 1..m] \subseteq [enabled : BOOLEAN, token : 1..n]
         /\ [enabled : BOOLEAN, token : 0..m] \subseteq [enabled : BOOLEAN, token : 0..n]
         /\ [enabled : BOOLEAN, token : 1..m] \subseteq [enabled : BOOLEAN, token : 0..m]
         /\ NoRow \notin [enabled : BOOLEAN, token : 0..n]
<1>1. 1..m \subseteq 1..n /\ 0..m \subseteq 0..n /\ 1..m \subseteq 0..m
  BY DEF NotifyBounded
<1>2. 0..n \subseteq 0..MaxTokens
  BY DEF NotifyBounded
<1>3. [enabled : BOOLEAN, token : 0..n] \subseteq [enabled : BOOLEAN, token : 0..MaxTokens]
  BY <1>2
<1> QED
  BY <1>1, <1>3 DEF NotifyBounded

LEMMA RowsCreated ==
  ASSUME NotifyBounded, RowsInv, NEW x \in Channels, Notify!CreateChannel(x)
  PROVE  RowsInv'
<1>1. PICK enabled \in BOOLEAN :
        row' = [row EXCEPT ![x] = [enabled |-> enabled, token |-> edits + 1]]
  BY DEF Notify!CreateChannel, Notify!InsertRow
<1>2. /\ edits' = edits + 1 /\ edits < MaxTokens /\ unborn' = unborn \ {x}
      /\ UNCHANGED <<patching, patched>>
  BY DEF Notify!CreateChannel
<1>3. edits \in 0..MaxTokens /\ edits' \in 0..MaxTokens /\ edits <= edits'
  BY <1>2 DEF RowsInv, NotifyBounded
<1>4. edits + 1 \in 1..edits'
  BY <1>2, <1>3 DEF NotifyBounded
<1>5. [enabled |-> enabled, token |-> edits + 1] \in [enabled : BOOLEAN, token : 1..edits']
  BY <1>4
<1>6. row' \in [Channels -> [enabled : BOOLEAN, token : 1..edits'] \union {NoRow}]
  BY <1>1, <1>3, <1>5, RowsGrow DEF RowsInv
<1>7. patching' \in [enabled : BOOLEAN, token : 0..edits'] \union {NoRow}
  BY <1>2, <1>3, RowsGrow DEF RowsInv
<1> QED
  BY <1>2, <1>3, <1>6, <1>7 DEF RowsInv

LEMMA RowsPatched ==
  ASSUME NotifyBounded, RowsInv, NEW x \in Channels, Notify!PatchChannel(x)
  PROVE  RowsInv'
<1>1. PICK ch \in Notify!MergeConfig(row[x]), enabled \in BOOLEAN :
        /\ patching' = [ch EXCEPT !.enabled = enabled]
        /\ edits' = IF ch.token > edits THEN edits + 1 ELSE edits
  BY DEF Notify!PatchChannel
<1>2. row[x] # NoRow /\ patched' = x /\ UNCHANGED <<row, unborn>>
  BY DEF Notify!PatchChannel
<1>3. row[x] \in [enabled : BOOLEAN, token : 1..edits] /\ edits \in 0..MaxTokens
  BY <1>2 DEF RowsInv
<1>4. /\ ch \in [enabled : BOOLEAN, token : 0..edits']
      /\ edits' \in 0..MaxTokens /\ edits <= edits'
  <2>1. row[x].token \in 1..edits /\ row[x].enabled \in BOOLEAN /\ edits \in Nat
    BY <1>3
  <2>2. row[x] = [enabled |-> row[x].enabled, token |-> row[x].token]
    BY <1>3
  <2>3. CASE ch = row[x]
    <3>1. edits' = edits /\ 1..edits \subseteq 0..edits
      BY <1>1, <2>1, <2>3
    <3> QED
      BY <1>3, <2>3, <3>1
  <2>4. CASE ch = [row[x] EXCEPT !.token = 0]
    <3>1. ch = [enabled |-> row[x].enabled, token |-> 0]
      BY <2>2, <2>4
    <3>2. edits' = edits
      BY <1>1, <2>1, <3>1
    <3> QED
      BY <1>3, <2>1, <3>1, <3>2
  <2>5. CASE ch \in {[row[x] EXCEPT !.token = edits + 1] : e \in {edits} \cap 0..MaxTokens - 1}
    <3>1. edits \in 0..MaxTokens - 1 /\ ch = [row[x] EXCEPT !.token = edits + 1]
      BY <2>5
    <3>2. ch = [enabled |-> row[x].enabled, token |-> edits + 1]
      BY <2>2, <3>1
    <3>3. edits' = edits + 1
      BY <1>1, <2>1, <3>2
    <3>4. edits' \in 0..MaxTokens /\ edits + 1 \in 0..edits'
      BY <2>1, <3>1, <3>3 DEF NotifyBounded
    <3> QED
      BY <2>1, <3>2, <3>3, <3>4
  <2> QED
    BY <1>1, <2>3, <2>4, <2>5 DEF Notify!MergeConfig
<1>5. patching' \in [enabled : BOOLEAN, token : 0..edits']
  BY <1>1, <1>4
<1>6. patching' # NoRow /\ patched' # NoRow
  BY <1>2, <1>4, <1>5, RowsGrow DEF NotifyBounded
<1>7. row' \in [Channels -> [enabled : BOOLEAN, token : 1..edits'] \union {NoRow}]
  BY <1>2, <1>3, <1>4, RowsGrow DEF RowsInv
<1> QED
  BY <1>2, <1>4, <1>5, <1>6, <1>7 DEF RowsInv

\* Every step keeps what is stored: whole, with a token.
LEMMA RowsStep == ASSUME NotifyBounded, RowsInv, [Notify!Next]_Notify!vars PROVE RowsInv'
<1>1. ASSUME NEW x \in Channels, Notify!CreateChannel(x) PROVE RowsInv'
  BY <1>1, RowsCreated
<1>2. ASSUME NEW x \in Channels, Notify!PatchChannel(x) PROVE RowsInv'
  BY <1>2, RowsPatched
<1>3. CASE Notify!UpdateChannel
  <2>1. /\ patched' = NoRow /\ patching' = NoRow /\ UNCHANGED <<unborn, edits>>
        /\ row' = IF row[patched] # NoRow /\ Notify!Validate(patching)
                  THEN [row EXCEPT ![patched] = patching] ELSE row
    BY <1>3 DEF Notify!UpdateChannel, Notify!UpdateRow
  <2>2. /\ patched \in Channels /\ edits \in Nat
        /\ patching \in [enabled : BOOLEAN, token : 0..edits]
    BY <1>3 DEF RowsInv, Notify!UpdateChannel
  <2>3. patching.token # 0 => patching \in [enabled : BOOLEAN, token : 1..edits]
    <3>1. patching.token \in 0..edits /\ patching.enabled \in BOOLEAN
      BY <2>2
    <3>2. patching = [enabled |-> patching.enabled, token |-> patching.token]
      BY <2>2
    <3>3. patching.token # 0 => patching.token \in 1..edits
      BY <2>2, <3>1
    <3> QED
      BY <3>1, <3>2, <3>3
  <2> QED
    BY <2>1, <2>2, <2>3 DEF RowsInv, Notify!Validate
<1>4. ASSUME NEW x \in Channels, Notify!DeleteChannel(x) PROVE RowsInv'
  BY <1>4 DEF RowsInv, Notify!DeleteChannel, Notify!EraseRow
<1>5. CASE UNCHANGED <<row, unborn, edits, patching, patched>>
  BY <1>5 DEF RowsInv
<1>6. CASE Notify!Tick \/ \E g \in Callers : Notify!Step(g)
  BY <1>5, <1>6 DEF Notify!Tick, Notify!Step, Notify!Go, Notify!Send, Notify!Return,
     Notify!Skip, Notify!Take, Notify!TooLate, Notify!rows
<1>7. ASSUME NEW g \in Callers,
             (\E ids \in SUBSET Channels \ {{}} : Notify!Notify(g, ids))
               \/ (\E x \in Channels : Notify!TestChannel(g, x))
      PROVE  RowsInv'
  BY <1>5, <1>7 DEF Notify!Notify, Notify!TestChannel, Notify!rows
<1>8. CASE UNCHANGED Notify!vars
  BY <1>5, <1>8 DEF Notify!vars, Notify!rows
<1> QED
  BY <1>1, <1>2, <1>3, <1>4, <1>6, <1>7, <1>8 DEF Notify!Next

-----------------------------------------------------------------------------
\* Where a call stands, and what it has of the channels it was called with.
CallsInv ==
  /\ pc \in [Callers -> {"idle", "next", "wait", "send"}]
  /\ todo \in [Callers -> SUBSET Channels] /\ asked \in [Callers -> SUBSET Channels]
  /\ delivered \in [Callers -> SUBSET Channels] /\ failed \in [Callers -> SUBSET Channels]
  /\ at \in [Callers -> Channels \union {NoRow}]
  /\ \A g \in Callers : at[g] # NoRow <=> pc[g] \in {"wait", "send"}
  /\ \A g \in Callers : at[g] # NoRow => at[g] \in todo[g]
  /\ \A g \in Callers :
       pc[g] = "idle" => todo[g] = {} /\ delivered[g] = {} /\ failed[g] = {} /\ asked[g] = {}
  /\ Notify!EachAccounted

\* The same of one call.
CallInv(g) ==
  /\ pc[g] \in {"idle", "next", "wait", "send"}
  /\ todo[g] \subseteq Channels /\ asked[g] \subseteq Channels
  /\ delivered[g] \subseteq Channels /\ failed[g] \subseteq Channels
  /\ at[g] \in Channels \union {NoRow}
  /\ at[g] # NoRow <=> pc[g] \in {"wait", "send"}
  /\ at[g] # NoRow => at[g] \in todo[g]
  /\ pc[g] = "idle" => todo[g] = {} /\ delivered[g] = {} /\ failed[g] = {} /\ asked[g] = {}
  /\ asked[g] = delivered[g] \union failed[g] \union todo[g]
  /\ delivered[g] \cap failed[g] = {} /\ (delivered[g] \union failed[g]) \cap todo[g] = {}

\* The calls are functions, which differ between a state and the next in one
\* caller at most.
CallsAre ==
  /\ DOMAIN pc = Callers /\ DOMAIN todo = Callers /\ DOMAIN asked = Callers
  /\ DOMAIN delivered = Callers /\ DOMAIN failed = Callers /\ DOMAIN at = Callers
  /\ pc = [g \in Callers |-> pc[g]] /\ todo = [g \in Callers |-> todo[g]]
  /\ asked = [g \in Callers |-> asked[g]] /\ delivered = [g \in Callers |-> delivered[g]]
  /\ failed = [g \in Callers |-> failed[g]] /\ at = [g \in Callers |-> at[g]]

LEMMA CallsAreCalls == CallsInv <=> CallsAre /\ \A g \in Callers : CallInv(g)
<1>1. CallsInv => CallsAre
  BY DEF CallsInv, CallsAre
<1>2. CallsInv => \A g \in Callers : CallInv(g)
  BY DEF CallsInv, CallInv, Notify!EachAccounted
<1>3. CallsAre /\ (\A g \in Callers : CallInv(g)) => CallsInv
  BY DEF CallsInv, CallsAre, CallInv, Notify!EachAccounted
<1> QED
  BY <1>1, <1>2, <1>3

\* A channel at hand is passed on to one of the two answers, none of the two
\* before.
LEMMA CallPasses ==
  ASSUME NotifyBounded, NEW g \in Callers, NEW x \in todo[g], CallsAre, CallInv(g),
         pc[g] # "idle", Notify!Pass(g, x), UNCHANGED asked,
         \/ failed' = [failed EXCEPT ![g] = @ \union {x}] /\ UNCHANGED delivered
         \/ delivered' = [delivered EXCEPT ![g] = @ \union {x}] /\ UNCHANGED failed
  PROVE  CallsAre' /\ CallInv(g)'
<1>1. /\ pc' = [pc EXCEPT ![g] = "next"] /\ todo' = [todo EXCEPT ![g] = @ \ {x}]
      /\ at' = [at EXCEPT ![g] = NoRow]
  BY DEF Notify!Pass
<1>2. CallsAre'
  BY <1>1 DEF CallsAre
<1>3. pc'[g] = "next" /\ todo'[g] = todo[g] \ {x} /\ at'[g] = NoRow /\ asked'[g] = asked[g]
  BY <1>1 DEF CallsAre
<1>4. \/ failed'[g] = failed[g] \union {x} /\ delivered'[g] = delivered[g]
      \/ delivered'[g] = delivered[g] \union {x} /\ failed'[g] = failed[g]
  BY DEF CallsAre
<1>5. /\ x \in Channels /\ x \notin delivered[g] /\ x \notin failed[g]
      /\ asked[g] = delivered[g] \union failed[g] \union todo[g]
  BY DEF CallInv
<1> QED
  BY <1>2, <1>3, <1>4, <1>5 DEF CallInv

\* A step of one call keeps it accounted for.
LEMMA CallSteps ==
  ASSUME NotifyBounded, NEW g \in Callers, CallsAre, CallInv(g), Notify!Step(g)
  PROVE  CallsAre' /\ CallInv(g)'
<1>1. CASE Notify!Go(g)
  <2>1. /\ pc[g] = "wait" /\ pc' = [pc EXCEPT ![g] = "send"]
        /\ UNCHANGED <<todo, at, delivered, failed, asked>>
    BY <1>1 DEF Notify!Go
  <2> QED
    BY <2>1 DEF CallsAre, CallInv
<1>2. CASE Notify!Send(g)
  <2>1. pc[g] = "send" /\ at[g] \in todo[g] /\ pc[g] # "idle" /\ asked' = asked
    BY <1>2 DEF CallInv, Notify!Send
  <2>2. /\ Notify!Pass(g, at[g])
        /\ \/ failed' = [failed EXCEPT ![g] = @ \union {at[g]}] /\ UNCHANGED delivered
           \/ delivered' = [delivered EXCEPT ![g] = @ \union {at[g]}] /\ UNCHANGED failed
    BY <1>2 DEF Notify!Send, Notify!Fail
  <2> QED
    BY <2>1, <2>2, CallPasses
<1>3. CASE Notify!Return(g)
  <2>1. /\ pc[g] = "next" /\ todo[g] = {} /\ pc' = [pc EXCEPT ![g] = "idle"]
        /\ delivered' = [delivered EXCEPT ![g] = {}] /\ failed' = [failed EXCEPT ![g] = {}]
        /\ asked' = [asked EXCEPT ![g] = {}] /\ UNCHANGED <<todo, at>>
    BY <1>3 DEF Notify!Return
  <2> QED
    BY <2>1 DEF CallsAre, CallInv
<1>4. ASSUME NEW x \in Channels, Notify!Skip(g, x) \/ Notify!TooLate(g, x)
      PROVE  CallsAre' /\ CallInv(g)'
  <2>1. /\ pc[g] = "next" /\ x \in todo[g] /\ pc[g] # "idle" /\ Notify!Pass(g, x)
        /\ failed' = [failed EXCEPT ![g] = @ \union {x}] /\ UNCHANGED <<delivered, asked>>
    BY <1>4 DEF Notify!Skip, Notify!TooLate, Notify!Fail
  <2> QED
    BY <2>1, CallPasses
<1>5. ASSUME NEW x \in Channels, Notify!Take(g, x)
      PROVE  CallsAre' /\ CallInv(g)'
  <2>1. /\ x \in todo[g] /\ pc' = [pc EXCEPT ![g] = "wait"]
        /\ at' = [at EXCEPT ![g] = x] /\ UNCHANGED <<todo, delivered, failed, asked>>
    BY <1>5 DEF Notify!Take
  <2>2. x # NoRow
    BY DEF NotifyBounded
  <2> QED
    BY <2>1, <2>2 DEF CallsAre, CallInv
<1> QED
  BY <1>1, <1>2, <1>3, <1>4, <1>5 DEF Notify!Step

LEMMA CallBegins ==
  ASSUME NotifyBounded, NEW g \in Callers, CallsAre, CallInv(g), NEW ids \in SUBSET Channels,
         Notify!Notify(g, ids)
  PROVE  CallsAre' /\ CallInv(g)'
<1>1. /\ pc[g] = "idle" /\ pc' = [pc EXCEPT ![g] = "next"]
      /\ todo' = [todo EXCEPT ![g] = ids] /\ asked' = [asked EXCEPT ![g] = ids]
      /\ UNCHANGED <<at, delivered, failed>>
  BY DEF Notify!Notify
<1> QED
  BY <1>1 DEF CallsAre, CallInv

\* A call that nobody moves stays as it is.
LEMMA CallRests ==
  ASSUME NEW h \in Callers, CallInv(h), pc'[h] = pc[h], todo'[h] = todo[h],
         asked'[h] = asked[h], delivered'[h] = delivered[h], failed'[h] = failed[h],
         at'[h] = at[h]
  PROVE  CallInv(h)'
BY DEF CallInv

\* The step of a call is its own alone.
LEMMA CallsApart ==
  ASSUME NEW g \in Callers, CallsAre, NEW h \in Callers, h # g,
         Notify!Step(g) \/ \E ids \in SUBSET Channels : Notify!Notify(g, ids)
  PROVE  /\ pc'[h] = pc[h] /\ todo'[h] = todo[h] /\ asked'[h] = asked[h]
         /\ delivered'[h] = delivered[h] /\ failed'[h] = failed[h] /\ at'[h] = at[h]
BY DEF CallsAre, Notify!Step, Notify!Go, Notify!Send, Notify!Return, Notify!Skip,
   Notify!Take, Notify!TooLate, Notify!Fail, Notify!Pass, Notify!Reserve, Notify!Notify

\* Every step keeps every call accounted for.
LEMMA CallsStep == ASSUME NotifyBounded, CallsInv, [Notify!Next]_Notify!vars PROVE CallsInv'
<1>1. CallsAre /\ \A g \in Callers : CallInv(g)
  BY CallsAreCalls
<1>2. ASSUME NEW g \in Callers,
             Notify!Step(g) \/ \E ids \in SUBSET Channels : Notify!Notify(g, ids)
      PROVE  CallsInv'
  <2>1. CallsAre' /\ CallInv(g)'
    BY <1>1, <1>2, CallSteps, CallBegins
  <2>2. ASSUME NEW h \in Callers PROVE CallInv(h)'
    <3>1. CASE h = g
      BY <2>1, <3>1
    <3>2. CASE h # g
      <4>1. /\ pc'[h] = pc[h] /\ todo'[h] = todo[h] /\ asked'[h] = asked[h]
            /\ delivered'[h] = delivered[h] /\ failed'[h] = failed[h] /\ at'[h] = at[h]
        BY <1>1, <1>2, <3>2, CallsApart
      <4> QED
        BY <1>1, <4>1, CallRests
    <3> QED
      BY <3>1, <3>2
  <2>3. CallsAre' /\ (\A h \in Callers : CallInv(h)') => CallsInv'
    BY DEF CallsInv, CallsAre, CallInv, Notify!EachAccounted
  <2> QED
    BY <2>1, <2>2, <2>3
<1>3. CASE UNCHANGED <<pc, todo, at, delivered, failed, asked>>
  BY <1>3 DEF CallsInv, Notify!EachAccounted
<1>4. CASE Notify!Tick \/ Notify!UpdateChannel \/ UNCHANGED Notify!vars
  BY <1>3, <1>4 DEF Notify!Tick, Notify!UpdateChannel, Notify!call, Notify!vars
<1>5. ASSUME NEW x \in Channels,
             Notify!CreateChannel(x) \/ Notify!PatchChannel(x) \/ Notify!DeleteChannel(x)
      PROVE  CallsInv'
  BY <1>3, <1>5 DEF Notify!CreateChannel, Notify!PatchChannel, Notify!DeleteChannel, Notify!call
<1> QED
  BY <1>2, <1>4, <1>5 DEF Notify!Next, Notify!TestChannel

-----------------------------------------------------------------------------
\* The module instantiates its own Cardinality, the same as that of the facts.
LEMMA NotifyCounts == ASSUME NEW S PROVE Notify!Cardinality(S) = Cardinality(S)
BY DEF Notify!Cardinality, Cardinality

Waiting(x) == {g \in Callers : pc[g] = "wait" /\ at[g] = x}
Debt(x) == IF limiter[x] < 0 THEN -limiter[x] ELSE 0

\* A token is in the limiter, promised to a caller that waits, or spent in a
\* message that still counts.  Tokens of the future are promised one a tick,
\* each to one caller.
RateInv ==
  /\ limiter \in [Channels -> Int] /\ level \in [Channels -> Nat] /\ due \in [Callers -> Nat]
  /\ \A x \in Channels : limiter[x] <= Burst
  /\ \A x \in Channels : level[x] + limiter[x] + Cardinality(Waiting(x)) <= Burst
  /\ \A x \in Channels : \A g \in Waiting(x) : due[g] <= Debt(x)
  /\ \A x \in Channels : \A g, h \in Waiting(x) : due[g] = due[h] /\ due[g] # 0 => g = h
  /\ \A x \in Channels : \A n \in 1..Debt(x) : \E g \in Waiting(x) : due[g] = n

NotifyInv == RowsInv /\ CallsInv /\ RateInv

LEMMA WaitersAreFew ==
  ASSUME NotifyBounded, NEW x
  PROVE  /\ IsFiniteSet(Waiting(x)) /\ Cardinality(Waiting(x)) \in Nat
         /\ Cardinality(Waiting(x)) <= Cardinality(Callers) /\ Cardinality(Callers) \in Nat
<1>1. Waiting(x) \in SUBSET Callers
  BY DEF Waiting
<1> QED
  BY <1>1, FS_Subset, FS_CardinalityType DEF NotifyBounded

\* A token of the future for each caller that still waits.
LEMMA WaitersHaveTurns ==
  ASSUME NotifyBounded, RateInv, NEW x \in Channels, \A g \in Waiting(x) : due[g] > 0
  PROVE  Cardinality(Waiting(x)) <= Debt(x)
<1> DEFINE f == [g \in Waiting(x) |-> due[g]]
<1>1. Debt(x) \in Nat
  BY DEF RateInv, Debt
<1>2. f \in [Waiting(x) -> 1..Debt(x)]
  <2> SUFFICES ASSUME NEW g \in Waiting(x) PROVE due[g] \in 1..Debt(x)
    OBVIOUS
  <2>1. due[g] \in Nat /\ due[g] <= Debt(x) /\ due[g] > 0
    BY DEF RateInv, Waiting
  <2> QED
    BY <1>1, <2>1
<1>3. \A g, h \in Waiting(x) : f[g] = f[h] => g = h
  BY DEF RateInv
<1>4. f \in Injection(Waiting(x), 1..Debt(x))
  BY <1>2, <1>3 DEF Injection, IsInjective
<1>5. IsFiniteSet(1..Debt(x)) /\ Cardinality(1..Debt(x)) = Debt(x)
  BY <1>1, FS_Interval
<1> HIDE DEF f
<1>6. Cardinality(Waiting(x)) <= Cardinality(1..Debt(x))
  BY <1>4, <1>5, FS_Injection
<1> QED
  BY <1>5, <1>6

\* A caller that waits for each token of the future.
LEMMA TurnsHaveWaiters ==
  ASSUME NotifyBounded, RateInv, NEW x \in Channels
  PROVE  Debt(x) <= Cardinality(Waiting(x))
<1> DEFINE f == [n \in 1..Debt(x) |-> CHOOSE g \in Waiting(x) : due[g] = n]
<1>1. Debt(x) \in Nat
  BY DEF RateInv, Debt
<1>2. \A n \in 1..Debt(x) : f[n] \in Waiting(x) /\ due[f[n]] = n
  BY DEF RateInv
<1>3. f \in [1..Debt(x) -> Waiting(x)]
  BY <1>2
<1> HIDE DEF f
<1>4. f \in Injection(1..Debt(x), Waiting(x))
  BY <1>2, <1>3 DEF Injection, IsInjective
<1>5. Cardinality(1..Debt(x)) <= Cardinality(Waiting(x))
  BY <1>4, FS_Injection, WaitersAreFew
<1> QED
  BY <1>1, <1>5, FS_Interval

\* A caller takes a token, of the future if there is none.
LEMMA RateTakes ==
  ASSUME NotifyBounded, CallsInv, RateInv, NEW g \in Callers, NEW x \in Channels,
         Notify!Take(g, x)
  PROVE  RateInv'
<1>1. /\ pc[g] = "next" /\ pc' = [pc EXCEPT ![g] = "wait"] /\ at' = [at EXCEPT ![g] = x]
      /\ due' = [due EXCEPT ![g] = IF limiter[x] >= 1 THEN 0 ELSE 1 - limiter[x]]
      /\ limiter' = [limiter EXCEPT ![x] = limiter[x] - 1] /\ level' = level
  BY DEF Notify!Take, Notify!Reserve, Notify!Turn
<1>2. /\ limiter \in [Channels -> Int] /\ level \in [Channels -> Nat]
      /\ due \in [Callers -> Nat] /\ Burst \in Nat
      /\ DOMAIN pc = Callers /\ DOMAIN at = Callers
  BY DEF RateInv, CallsInv, NotifyBounded
<1>3. Waiting(x)' = Waiting(x) \union {g} /\ g \notin Waiting(x)
  BY <1>1, <1>2 DEF Waiting
<1>4. \A y \in Channels : y # x => Waiting(y)' = Waiting(y) /\ limiter'[y] = limiter[y]
  BY <1>1, <1>2 DEF Waiting
<1>5. /\ limiter'[x] = limiter[x] - 1
      /\ due'[g] = IF limiter[x] >= 1 THEN 0 ELSE 1 - limiter[x]
      /\ \A h \in Callers : h # g => due'[h] = due[h]
  BY <1>1, <1>2
<1>6. limiter' \in [Channels -> Int] /\ due' \in [Callers -> Nat]
  <2>1. (IF limiter[x] >= 1 THEN 0 ELSE 1 - limiter[x]) \in Nat /\ limiter[x] - 1 \in Int
    BY <1>2
  <2> QED
    BY <1>1, <1>2, <2>1
<1>7. \A y \in Channels : g \notin Waiting(y) /\ Waiting(y) \subseteq Callers
  BY <1>1 DEF Waiting
<1>8. /\ Debt(x) = IF limiter[x] < 0 THEN -limiter[x] ELSE 0
      /\ Debt(x)' = IF limiter[x] < 1 THEN 1 - limiter[x] ELSE 0
      /\ \A y \in Channels : y # x => Debt(y)' = Debt(y)
  BY <1>2, <1>4, <1>5 DEF Debt
<1>9. ASSUME NEW y \in Channels PROVE limiter'[y] <= Burst
  BY <1>2, <1>4, <1>5, <1>9 DEF RateInv
<1>10. ASSUME NEW y \in Channels
       PROVE  level'[y] + limiter'[y] + Cardinality(Waiting(y)') <= Burst
  <2>1. CASE y = x
    <3>1. Cardinality(Waiting(x)') = Cardinality(Waiting(x)) + 1
      BY <1>3, FS_AddElement, WaitersAreFew
    <3>2. level[x] + limiter[x] + Cardinality(Waiting(x)) <= Burst
      BY DEF RateInv
    <3> QED
      BY <1>1, <1>2, <1>5, <2>1, <3>1, <3>2, WaitersAreFew
  <2>2. CASE y # x
    BY <1>1, <1>4, <2>2 DEF RateInv
  <2> QED
    BY <2>1, <2>2
<1>11. ASSUME NEW y \in Channels, NEW h \in Waiting(y)' PROVE due'[h] <= Debt(y)'
  <2>1. CASE h = g
    BY <1>2, <1>4, <1>5, <1>7, <1>8, <1>11, <2>1
  <2>2. CASE h # g
    <3>1. h \in Waiting(y) /\ due'[h] = due[h] /\ due[h] \in Nat
      BY <1>2, <1>3, <1>4, <1>5, <1>7, <1>11, <2>2
    <3>2. due[h] <= Debt(y)
      BY <3>1 DEF RateInv
    <3>3. Debt(y) \in Nat /\ Debt(y)' \in Nat /\ Debt(y) <= Debt(y)'
      BY <1>2, <1>4, <1>8 DEF Debt
    <3> QED
      BY <3>1, <3>2, <3>3
  <2> QED
    BY <2>1, <2>2
<1>12. ASSUME NEW y \in Channels, NEW h \in Waiting(y)', h # g, g \in Waiting(y)'
       PROVE  due'[h] # due'[g] \/ due'[g] = 0
  <2>1. y = x
    BY <1>4, <1>7, <1>12
  <2>2. h \in Waiting(x) /\ due'[h] = due[h] /\ due[h] \in Nat
    BY <1>2, <1>3, <1>5, <1>7, <1>12, <2>1
  <2>3. due[h] <= Debt(x)
    BY <2>2 DEF RateInv
  <2> QED
    BY <1>2, <1>5, <1>8, <2>2, <2>3
<1>13. ASSUME NEW y \in Channels, NEW h \in Waiting(y)', NEW k \in Waiting(y)',
              due'[h] = due'[k], due'[h] # 0
       PROVE  h = k
  <2>1. CASE h # g /\ k # g
    <3>1. h \in Waiting(y) /\ k \in Waiting(y) /\ due'[h] = due[h] /\ due'[k] = due[k]
      BY <1>3, <1>4, <1>5, <1>7, <1>13, <2>1
    <3> QED
      BY <1>13, <3>1 DEF RateInv
  <2> QED
    BY <1>12, <1>13, <2>1
<1>14. ASSUME NEW y \in Channels, NEW n \in 1..Debt(y)'
       PROVE  \E h \in Waiting(y)' : due'[h] = n
  <2>1. CASE n \in 1..Debt(y)
    <3>1. PICK h \in Waiting(y) : due[h] = n
      BY <2>1 DEF RateInv
    <3>2. h \in Waiting(y)' /\ due'[h] = due[h]
      BY <1>3, <1>4, <1>5, <1>7
    <3> QED
      BY <3>1, <3>2
  <2>2. CASE n \notin 1..Debt(y)
    <3>1. y = x /\ due'[g] = n
      BY <1>2, <1>5, <1>8, <1>14, <2>2
    <3> QED
      BY <1>3, <3>1
  <2> QED
    BY <2>1, <2>2
<1>15. level' \in [Channels -> Nat]
  BY <1>1, <1>2
<1> QED
  BY <1>6, <1>9, <1>10, <1>11, <1>13, <1>14, <1>15 DEF RateInv

\* A wait is over: the token becomes a message.
LEMMA RateGoes ==
  ASSUME NotifyBounded, CallsInv, RateInv, NEW g \in Callers, Notify!Go(g)
  PROVE  RateInv'
<1> DEFINE x == at[g]
<1>1. /\ pc[g] = "wait" /\ due[g] = 0 /\ pc' = [pc EXCEPT ![g] = "send"]
      /\ level' = [level EXCEPT ![x] = level[x] + 1]
      /\ at' = at /\ due' = due /\ limiter' = limiter
  BY DEF Notify!Go
<1>2. /\ limiter \in [Channels -> Int] /\ level \in [Channels -> Nat]
      /\ due \in [Callers -> Nat] /\ Burst \in Nat /\ DOMAIN pc = Callers
  BY DEF RateInv, CallsInv, NotifyBounded
<1>3. x \in Channels
  BY <1>1 DEF CallsInv
<1>4. \A y \in Channels : Waiting(y)' = Waiting(y) \ {g}
  BY <1>1, <1>2 DEF Waiting
<1>5. g \in Waiting(x) /\ \A y \in Channels : y # x => g \notin Waiting(y)
  BY <1>1 DEF Waiting
<1> HIDE DEF x
<1>6. \A y \in Channels : Debt(y)' = Debt(y)
  BY <1>1 DEF Debt
<1>7. ASSUME NEW y \in Channels
      PROVE  level'[y] + limiter'[y] + Cardinality(Waiting(y)') <= Burst
  <2>1. /\ level[y] + limiter[y] + Cardinality(Waiting(y)) <= Burst
        /\ Cardinality(Waiting(y)) \in Nat /\ level[y] \in Nat /\ limiter[y] \in Int
    BY <1>2, WaitersAreFew DEF RateInv
  <2>2. CASE y = x
    <3>1. Cardinality(Waiting(y)') = Cardinality(Waiting(y)) - 1
      <4>1. Waiting(y)' = Waiting(y) \ {g} /\ g \in Waiting(y)
        BY <1>4, <1>5, <2>2
      <4> QED
        BY <4>1, FS_RemoveElement, WaitersAreFew
    <3>2. level'[y] = level[y] + 1 /\ limiter'[y] = limiter[y]
      BY <1>1, <1>2, <1>3, <2>2
    <3> QED
      BY <1>2, <2>1, <3>1, <3>2
  <2>3. CASE y # x
    <3>1. Waiting(y)' = Waiting(y) /\ level'[y] = level[y]
      BY <1>1, <1>2, <1>4, <1>5, <2>3
    <3> QED
      BY <1>1, <2>1, <3>1
  <2> QED
    BY <2>2, <2>3
<1>8. ASSUME NEW y \in Channels, NEW n \in 1..Debt(y)'
      PROVE  \E h \in Waiting(y)' : due'[h] = n
  <2>1. PICK h \in Waiting(y) : due[h] = n
    BY <1>6 DEF RateInv
  <2>2. n # 0
    BY <1>6, <1>2 DEF Debt
  <2> QED
    BY <1>1, <1>4, <2>1, <2>2
<1>9. level' \in [Channels -> Nat]
  BY <1>1, <1>2, <1>3
<1> QED
  BY <1>1, <1>4, <1>6, <1>7, <1>8, <1>9 DEF RateInv

\* A tick: the tokens of the future come one nearer, each with its caller.
LEMMA RateTicks ==
  ASSUME NotifyBounded, CallsInv, RateInv, Notify!Tick
  PROVE  RateInv'
<1>1. /\ \A g \in Callers : pc[g] = "wait" => due[g] > 0
      /\ \A x \in Channels : limiter'[x] = IF limiter[x] < Burst THEN limiter[x] + 1 ELSE Burst
      /\ \A x \in Channels : level'[x] = IF level[x] = 0 THEN 0 ELSE level[x] - 1
      /\ \A g \in Callers : due'[g] = IF due[g] = 0 THEN 0 ELSE due[g] - 1
      /\ UNCHANGED <<pc, at>>
  BY DEF Notify!Tick, Notify!Down
<1>2. /\ limiter \in [Channels -> Int] /\ level \in [Channels -> Nat]
      /\ due \in [Callers -> Nat] /\ Burst \in Nat \ {0}
      /\ \A x \in Channels : limiter[x] <= Burst
  BY DEF RateInv, NotifyBounded
<1>3. limiter' \in [Channels -> Int] /\ \A x \in Channels : limiter'[x] <= Burst
  <2>1. \A x \in Channels : limiter'[x] \in Int /\ limiter'[x] <= Burst
    BY <1>1, <1>2
  <2> QED
    BY <2>1 DEF Notify!Tick
<1>4. level' \in [Channels -> Nat]
  <2>1. \A x \in Channels : level'[x] \in Nat
    BY <1>1, <1>2
  <2> QED
    BY <2>1 DEF Notify!Tick
<1>5. due' \in [Callers -> Nat]
  <2>1. \A g \in Callers : due'[g] \in Nat
    BY <1>1, <1>2
  <2> QED
    BY <2>1 DEF Notify!Tick
<1>6. \A x \in Channels : Waiting(x)' = Waiting(x) /\ Waiting(x) \subseteq Callers
  BY <1>1 DEF Waiting
<1>7. \A x \in Channels : \A g \in Waiting(x) : due[g] > 0 /\ due'[g] = due[g] - 1
  BY <1>1, <1>2 DEF Waiting
<1>8. \A x \in Channels : Debt(x) \in Nat /\ Debt(x)' = IF Debt(x) = 0 THEN 0 ELSE Debt(x) - 1
  BY <1>1, <1>2 DEF Debt
<1>9. ASSUME NEW x \in Channels
      PROVE  level'[x] + limiter'[x] + Cardinality(Waiting(x)') <= Burst
  <2>1. /\ level[x] + limiter[x] + Cardinality(Waiting(x)) <= Burst
        /\ Cardinality(Waiting(x)) <= Debt(x)
        /\ Cardinality(Waiting(x)) \in Nat
    BY <1>7, WaitersHaveTurns, WaitersAreFew DEF RateInv
  <2>2. Waiting(x)' = Waiting(x) /\ level[x] \in Nat /\ limiter[x] \in Int /\ limiter[x] <= Burst
    BY <1>2, <1>6
  <2>3. Debt(x) = IF limiter[x] < 0 THEN -limiter[x] ELSE 0
    BY DEF Debt
  <2>4. CASE level[x] = 0
    BY <1>1, <1>2, <2>1, <2>2, <2>3, <2>4
  <2>5. CASE level[x] # 0
    BY <1>1, <1>2, <2>1, <2>2, <2>5
  <2> QED
    BY <2>4, <2>5
<1>10. ASSUME NEW x \in Channels, NEW g \in Waiting(x)' PROVE due'[g] <= Debt(x)'
  <2>1. g \in Waiting(x) /\ g \in Callers /\ due[g] <= Debt(x) /\ due[g] > 0
    BY <1>6, <1>7, <1>10 DEF RateInv
  <2> QED
    BY <1>2, <1>7, <1>8, <2>1
<1>11. ASSUME NEW x \in Channels, NEW g \in Waiting(x)', NEW h \in Waiting(x)',
              due'[g] = due'[h]
       PROVE  g = h
  <2>1. /\ g \in Waiting(x) /\ h \in Waiting(x) /\ g \in Callers /\ h \in Callers
        /\ due[g] > 0 /\ due'[g] = due[g] - 1 /\ due'[h] = due[h] - 1
    BY <1>6, <1>7, <1>11
  <2>2. due[g] = due[h] /\ due[g] # 0
    <3>1. due[g] \in Nat /\ due[h] \in Nat
      BY <1>2, <2>1
    <3>2. due'[g] = due'[h]
      BY <1>11
    <3> QED
      BY <2>1, <3>1, <3>2
  <2> QED
    BY <2>1, <2>2 DEF RateInv
<1>12. ASSUME NEW x \in Channels, NEW n \in 1..Debt(x)'
       PROVE  \E g \in Waiting(x)' : due'[g] = n
  <2>1. n \in Nat /\ n + 1 \in 1..Debt(x)
    BY <1>8, <1>12
  <2>2. PICK g \in Waiting(x) : due[g] = n + 1
    BY <2>1 DEF RateInv
  <2> QED
    BY <1>6, <1>7, <2>1, <2>2
<1> QED
  BY <1>3, <1>4, <1>5, <1>9, <1>10, <1>11, <1>12 DEF RateInv

\* What leaves the limiters and those who wait alone.
LEMMA RateUnmoved ==
  ASSUME NotifyBounded, RateInv, UNCHANGED <<limiter, level>>, due' \in [Callers -> Nat],
         \A g \in Callers : pc'[g] = "wait" <=> pc[g] = "wait",
         \A g \in Callers : pc[g] = "wait" => at'[g] = at[g] /\ due'[g] = due[g]
  PROVE  RateInv'
<1>1. \A x \in Channels : Waiting(x)' = Waiting(x)
  BY DEF Waiting
<1>2. \A x \in Channels : \A g \in Waiting(x) : due'[g] = due[g]
  BY DEF Waiting
<1>3. \A x \in Channels : Debt(x)' = Debt(x)
  BY DEF Debt
<1> QED
  BY <1>1, <1>2, <1>3 DEF RateInv

LEMMA RateStep ==
  ASSUME NotifyBounded, CallsInv, RateInv, [Notify!Next]_Notify!vars
  PROVE  RateInv'
<1>0. due \in [Callers -> Nat] /\ DOMAIN pc = Callers /\ DOMAIN at = Callers
  BY DEF RateInv, CallsInv
<1>1. CASE UNCHANGED <<pc, at, due, limiter, level>>
  BY <1>0, <1>1, RateUnmoved
<1>2. ASSUME NEW g \in Callers, NEW x, pc[g] \in {"next", "send"}, Notify!Pass(g, x),
             UNCHANGED <<limiter, level>>
      PROVE  RateInv'
  <2>1. /\ pc' = [pc EXCEPT ![g] = "next"] /\ at' = [at EXCEPT ![g] = NoRow]
        /\ due' = [due EXCEPT ![g] = 0]
    BY <1>2 DEF Notify!Pass
  <2> QED
    BY <1>0, <1>2, <2>1, RateUnmoved
<1>3. ASSUME NEW g \in Callers, Notify!Step(g) PROVE RateInv'
  <2>1. CASE Notify!Go(g)
    BY <2>1, RateGoes
  <2>2. CASE Notify!Send(g)
    BY <1>2, <2>2 DEF Notify!Send, Notify!Fail
  <2>3. CASE Notify!Return(g)
    <3>1. /\ pc[g] = "next" /\ pc' = [pc EXCEPT ![g] = "idle"]
          /\ UNCHANGED <<at, due, limiter, level>>
      BY <2>3 DEF Notify!Return
    <3> QED
      BY <1>0, <3>1, RateUnmoved
  <2>4. ASSUME NEW x \in Channels, Notify!Skip(g, x) \/ Notify!TooLate(g, x) PROVE RateInv'
    BY <1>2, <2>4 DEF Notify!Skip, Notify!TooLate, Notify!Fail
  <2>5. ASSUME NEW x \in Channels, Notify!Take(g, x) PROVE RateInv'
    BY <2>5, RateTakes
  <2> QED
    BY <1>3, <2>1, <2>2, <2>3, <2>4, <2>5 DEF Notify!Step
<1>4. ASSUME NEW g \in Callers, NEW ids \in SUBSET Channels, Notify!Notify(g, ids)
      PROVE  RateInv'
  <2>1. /\ pc[g] = "idle" /\ pc' = [pc EXCEPT ![g] = "next"]
        /\ UNCHANGED <<at, due, limiter, level>>
    BY <1>4 DEF Notify!Notify
  <2> QED
    BY <1>0, <2>1, RateUnmoved
<1>5. CASE Notify!Tick
  BY <1>5, RateTicks
<1>6. CASE Notify!UpdateChannel \/ UNCHANGED Notify!vars
  BY <1>1, <1>6 DEF Notify!UpdateChannel, Notify!call, Notify!vars
<1>7. ASSUME NEW x \in Channels,
             Notify!CreateChannel(x) \/ Notify!PatchChannel(x) \/ Notify!DeleteChannel(x)
      PROVE  RateInv'
  BY <1>1, <1>7 DEF Notify!CreateChannel, Notify!PatchChannel, Notify!DeleteChannel, Notify!call
<1> QED
  BY <1>3, <1>4, <1>5, <1>6, <1>7 DEF Notify!Next, Notify!TestChannel

-----------------------------------------------------------------------------
LEMMA NotifyStart == ASSUME NotifyBounded, Notify!Init PROVE NotifyInv
<1>1. RowsInv
  <2>1. 0 \in 0..MaxTokens
    BY DEF NotifyBounded
  <2> QED
    BY <2>1 DEF RowsInv, Notify!Init
<1>2. CallsInv
  BY DEF CallsInv, Notify!Init, Notify!EachAccounted
<1>3. \A x \in Channels : Waiting(x) = {} /\ Debt(x) = 0
  BY DEF Waiting, Debt, Notify!Init, NotifyBounded
<1>4. RateInv
  BY <1>3, FS_EmptySet DEF RateInv, Notify!Init, NotifyBounded
<1> QED
  BY <1>1, <1>2, <1>4 DEF NotifyInv

LEMMA NotifyStep ==
  ASSUME NotifyBounded, NotifyInv, [Notify!Next]_Notify!vars PROVE NotifyInv'
BY RowsStep, CallsStep, RateStep DEF NotifyInv

LEMMA TroublesCounted ==
  ASSUME NotifyBounded, troubles \in 0..MaxTroubles, [Notify!Next]_Notify!vars
  PROVE  troubles' \in 0..MaxTroubles
<1>1. troubles' = troubles \/ Notify!Trouble
  BY DEF Notify!Next, Notify!Tick, Notify!UpdateChannel, Notify!CreateChannel,
     Notify!PatchChannel, Notify!DeleteChannel, Notify!Step, Notify!Go, Notify!Send,
     Notify!Return, Notify!Skip, Notify!Take, Notify!TooLate, Notify!Notify,
     Notify!TestChannel, Notify!vars
<1> QED
  BY <1>1 DEF Notify!Trouble, NotifyBounded

LEMMA NotifyKept ==
  ASSUME NotifyBounded, NotifyInv, troubles \in 0..MaxTroubles
  PROVE  /\ Notify!TypeOK /\ Notify!RateKept /\ Notify!AlwaysSendable
         /\ Notify!EachAccounted
<1>1. Notify!RateKept
  <2> SUFFICES ASSUME NEW x \in Channels PROVE level[x] <= Burst
    BY DEF Notify!RateKept
  <2>1. /\ level[x] + limiter[x] + Cardinality(Waiting(x)) <= Burst
        /\ level[x] \in Nat /\ limiter[x] \in Int
        /\ Cardinality(Waiting(x)) \in Nat
    BY WaitersAreFew DEF NotifyInv, RateInv
  <2>2. Debt(x) <= Cardinality(Waiting(x))
    BY TurnsHaveWaiters DEF NotifyInv
  <2>3. Burst \in Nat
    BY DEF NotifyBounded
  <2> QED
    BY <2>1, <2>2, <2>3 DEF Debt
<1>2. Notify!AlwaysSendable
  <2> SUFFICES ASSUME NEW x \in Channels, row[x] # NoRow PROVE row[x].token # 0
    BY DEF Notify!AlwaysSendable
  <2>1. row[x] \in [enabled : BOOLEAN, token : 1..edits] /\ edits \in 0..MaxTokens
    BY DEF NotifyInv, RowsInv
  <2> QED
    BY <2>1 DEF NotifyBounded
<1>3. Notify!EachAccounted
  BY DEF NotifyInv, CallsInv
<1>4. \A x \in Channels : limiter[x] \in -Notify!Cardinality(Callers)..Burst
  <2> SUFFICES ASSUME NEW x \in Channels
      PROVE limiter[x] \in -Notify!Cardinality(Callers)..Burst
    OBVIOUS
  <2>1. Notify!Cardinality(Callers) = Cardinality(Callers) /\ Cardinality(Callers) \in Nat
    BY NotifyCounts, WaitersAreFew
  <2>2. Debt(x) <= Cardinality(Callers)
    <3>1. Debt(x) <= Cardinality(Waiting(x)) /\ Cardinality(Waiting(x)) <= Cardinality(Callers)
      BY TurnsHaveWaiters, WaitersAreFew DEF NotifyInv
    <3>2. Debt(x) \in Nat /\ Cardinality(Waiting(x)) \in Nat /\ Cardinality(Callers) \in Nat
      BY WaitersAreFew DEF NotifyInv, RateInv, Debt
    <3> QED
      BY <3>1, <3>2
  <2>3. limiter[x] \in Int /\ limiter[x] <= Burst /\ Burst \in Nat
    BY DEF NotifyInv, RateInv, NotifyBounded
  <2> QED
    BY <2>1, <2>2, <2>3 DEF Debt
<1>5. \A x \in Channels :
        row[x] # NoRow => row[x] \in [enabled : BOOLEAN, token : 0..MaxTokens]
  <2>1. [enabled : BOOLEAN, token : 1..edits] \subseteq [enabled : BOOLEAN, token : 0..MaxTokens]
    <3>1. 1..edits \subseteq 0..MaxTokens
      BY DEF NotifyBounded, NotifyInv, RowsInv
    <3> QED
      BY <3>1
  <2> QED
    BY <2>1 DEF NotifyInv, RowsInv
<1>6. Notify!TypeOK
  BY <1>4, <1>5 DEF NotifyInv, RowsInv, CallsInv, Notify!TypeOK
<1> QED
  BY <1>1, <1>2, <1>3, <1>6

\* notifier.go: one limiter for a channel, whoever sends; channel.go and
\* notifications.go: what a merge leaves out stays.  A channel gets no more
\* than its burst beyond one message a tick, none is stored without its
\* secret, and every channel of a call ends in one of the two answers, for any
\* number of channels and callers.
THEOREM NotifyHolds ==
  ASSUME NotifyBounded
  PROVE  Notify!Spec => [](Notify!TypeOK /\ Notify!RateKept /\ Notify!AlwaysSendable
                           /\ Notify!EachAccounted)
<1> DEFINE I == NotifyInv /\ troubles \in 0..MaxTroubles
<1>1. Notify!Init => I
  BY NotifyStart DEF Notify!Init, NotifyBounded
<1>2. I /\ [Notify!Next]_Notify!vars => I'
  BY NotifyStep, TroublesCounted
<1>3. I => /\ Notify!TypeOK /\ Notify!RateKept /\ Notify!AlwaysSendable
           /\ Notify!EachAccounted
  BY NotifyKept
<1> QED
  <2> HIDE DEF I
  <2> QED
    BY <1>1, <1>2, <1>3, PTL DEF Notify!Spec

\* The same of what the runs check.
THEOREM NotifyHoldsThroughout == ASSUME NotifyBounded PROVE SumSpec => []ChannelsAreKept
<1>1. SumInit /\ focus = "notify" => Notify!Init
  BY DEF SumInit
<1>2. focus = "notify" /\ [SumNext]_sumVars
        => [Notify!Next]_Notify!vars /\ (focus = "notify")'
  BY DEF SumNext, healthOnly, discoveryOnly, recorderOnly, alertOnly, floorOnly,
         notifyOnly, sumVars, Notify!rows, Notify!call, Notify!vars
<1>3. ~(focus = "notify") /\ [SumNext]_sumVars => (~(focus = "notify"))'
  BY DEF SumNext, sumVars
<1>4. (focus = "notify" => /\ Notify!TypeOK /\ Notify!RateKept /\ Notify!AlwaysSendable
                           /\ Notify!EachAccounted) => ChannelsAreKept
  BY DEF ChannelsAreKept
<1>5. Notify!Spec => [](/\ Notify!TypeOK /\ Notify!RateKept /\ Notify!AlwaysSendable
                        /\ Notify!EachAccounted)
  BY NotifyHolds, PTL
<1> QED
  BY <1>1, <1>2, <1>3, <1>4, <1>5, PTL DEF SumSpec, Notify!Spec

=============================================================================
