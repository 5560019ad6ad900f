----------------------------- MODULE LiveProofs -----------------------------
(* Theorems about the backup schedule, the log stream and the start-up,    *)
(* which the runs check together.                                          *)
EXTENDS MCLive, Sequences, FiniteSetTheorems, TLAPS

\* A midnight is as many hours away as the days between have, and a day has at least 23.
LEMMA HoursOf ==
  ASSUME ScheduleAssumption, NEW c \in Nat, NEW d \in Nat, c <= d
  PROVE  /\ Midnight(c) \in Int /\ Midnight(d) \in Int
         /\ Midnight(d) - Midnight(c) >= 23 * (d - c)
<1> DEFINE Before(S, n) == {e \in S : e < n}
<1> DEFINE Between(S) == {e \in S : c <= e /\ e < d}
<1>0. Days \in Nat
  BY DEF ScheduleAssumption
<1>1. ASSUME NEW S \in SUBSET (0..Days)
      PROVE  /\ IsFiniteSet(Before(S, c)) /\ IsFiniteSet(Before(S, d)) /\ IsFiniteSet(Between(S))
             /\ Cardinality(Before(S, c)) \in Nat /\ Cardinality(Before(S, d)) \in Nat
             /\ Cardinality(Between(S)) \in Nat /\ Cardinality(Between(S)) <= d - c
             /\ Cardinality(Before(S, d)) = Cardinality(Before(S, c)) + Cardinality(Between(S))
  <2>1. IsFiniteSet(0..Days) /\ IsFiniteSet(c..(d - 1))
    BY <1>0, FS_Interval
  <2>0. \A e \in S : e \in 0..Days /\ e \in Int
    BY <1>0
  <2>2. /\ Before(S, c) \subseteq 0..Days /\ Before(S, d) \subseteq 0..Days
        /\ Between(S) \subseteq 0..Days /\ Between(S) \subseteq c..(d - 1)
    <3>1. Before(S, c) \subseteq S /\ Before(S, d) \subseteq S /\ Between(S) \subseteq S
      BY Zenon
    <3>2. \A e \in Between(S) : e \in c..(d - 1)
      BY <2>0
    <3> HIDE DEF Before, Between
    <3> QED
      BY <3>1, <3>2, Zenon
  <2>3. IsFiniteSet(Before(S, c)) /\ IsFiniteSet(Before(S, d)) /\ IsFiniteSet(Between(S))
    BY <2>1, <2>2, FS_Subset
  <2>4. /\ Cardinality(Before(S, c)) \in Nat /\ Cardinality(Before(S, d)) \in Nat
        /\ Cardinality(Between(S)) \in Nat
    BY <2>3, FS_CardinalityType
  <2>5. Cardinality(Between(S)) <= d - c
    <3>1. Cardinality(c..(d - 1)) = IF c > d - 1 THEN 0 ELSE (d - 1) - c + 1
      BY FS_Interval
    <3>2. Cardinality(Between(S)) <= Cardinality(c..(d - 1))
      BY <2>1, <2>2, FS_Subset
    <3> QED
      BY <3>1, <3>2
  <2>6. Before(S, d) = Before(S, c) \union Between(S) /\ Before(S, c) \intersect Between(S) = {}
    <3>1. \A e \in S : /\ e < d <=> e < c \/ (c <= e /\ e < d)
                       /\ ~(e < c /\ c <= e)
      BY <2>0
    <3> QED
      BY <3>1, Zenon
  <2>7. Cardinality(Before(S, d))
          = Cardinality(Before(S, c)) + Cardinality(Between(S)) - Cardinality({})
    BY <2>3, <2>6, FS_Union
  <2> QED
    BY <2>3, <2>4, <2>5, <2>7, FS_EmptySet
<1>2. ShortDays \in SUBSET (0..Days) /\ LongDays \in SUBSET (0..Days)
  BY DEF ScheduleAssumption
<1>3. /\ Shift(c) = Cardinality(Before(ShortDays, c)) - Cardinality(Before(LongDays, c))
      /\ Shift(d) = Cardinality(Before(ShortDays, d)) - Cardinality(Before(LongDays, d))
  BY DEF Shift
<1>4. Shift(c) \in Int /\ Shift(d) \in Int /\ Shift(d) - Shift(c) <= d - c
  <2> HIDE DEF Before, Between
  <2> QED
    BY <1>1, <1>2, <1>3
<1> QED
  BY <1>4 DEF Midnight

\* What a single day adds.
LEMMA HoursOfADay ==
  ASSUME ScheduleAssumption, NEW d \in Nat
  PROVE  /\ Midnight(d) \in Int /\ Midnight(d + 1) \in Int
         /\ Midnight(d + 1) = Midnight(d) + 24
              - (IF d \in ShortDays THEN 1 ELSE 0) + (IF d \in LongDays THEN 1 ELSE 0)
<1>1. ASSUME NEW S \in SUBSET (0..Days)
      PROVE  /\ Cardinality({e \in S : e < d}) \in Nat
             /\ Cardinality({e \in S : e < d + 1})
                  = Cardinality({e \in S : e < d}) + (IF d \in S THEN 1 ELSE 0)
  <2>1. IsFiniteSet({e \in S : e < d})
    <3>1. IsFiniteSet(0..Days)
      BY FS_Interval DEF ScheduleAssumption
    <3>2. {e \in S : e < d} \subseteq 0..Days
      OBVIOUS
    <3> QED
      BY <3>1, <3>2, FS_Subset
  <2>2. \A e \in S : e \in Int
    OBVIOUS
  <2>3. d \notin {e \in S : e < d}
    OBVIOUS
  <2>4. CASE d \in S
    <3>1. {e \in S : e < d + 1} = {e \in S : e < d} \union {d}
      <4>1. \A e \in S : e < d + 1 <=> e < d \/ e = d
        BY <2>2
      <4> QED
        BY <2>4, <4>1, Zenon
    <3>2. Cardinality({e \in S : e < d + 1}) = Cardinality({e \in S : e < d}) + 1
      BY <2>1, <2>3, <3>1, FS_AddElement
    <3>3. Cardinality({e \in S : e < d}) \in Nat
      BY <2>1, FS_CardinalityType
    <3> QED
      BY <2>4, <3>2, <3>3
  <2>5. CASE d \notin S
    <3>1. {e \in S : e < d + 1} = {e \in S : e < d}
      <4>1. \A e \in S : e # d => (e < d + 1 <=> e < d)
        BY <2>2
      <4> QED
        BY <2>5, <4>1, Zenon
    <3>2. Cardinality({e \in S : e < d}) \in Nat
      BY <2>1, FS_CardinalityType
    <3> QED
      BY <2>5, <3>1, <3>2
  <2> QED
    BY <2>4, <2>5
<1>2. ShortDays \in SUBSET (0..Days) /\ LongDays \in SUBSET (0..Days)
  BY DEF ScheduleAssumption
<1> DEFINE Past(S, n) == Cardinality({e \in S : e < n})
<1>3. /\ Past(ShortDays, d) \in Nat /\ Past(LongDays, d) \in Nat
      /\ Past(ShortDays, d + 1) = Past(ShortDays, d) + (IF d \in ShortDays THEN 1 ELSE 0)
      /\ Past(LongDays, d + 1) = Past(LongDays, d) + (IF d \in LongDays THEN 1 ELSE 0)
  BY <1>1, <1>2
<1>4. /\ Midnight(d) = 24 * d - (Past(ShortDays, d) - Past(LongDays, d))
      /\ Midnight(d + 1) = 24 * (d + 1) - (Past(ShortDays, d + 1) - Past(LongDays, d + 1))
  BY DEF Midnight, Shift
<1> HIDE DEF Past
<1> QED
  BY <1>3, <1>4

\* A day begins the watch at zero.
LEMMA DawnIsZero == ASSUME ScheduleAssumption PROVE Midnight(0) = 0
<1>1. {e \in ShortDays : e < 0} = {} /\ {e \in LongDays : e < 0} = {}
  <2>1. \A e \in ShortDays \union LongDays : e \in 0..Days
    BY DEF ScheduleAssumption
  <2>2. \A e \in ShortDays \union LongDays : ~(e < 0)
    BY <2>1 DEF ScheduleAssumption
  <2> QED
    BY <2>2, Zenon
<1> QED
  BY <1>1, FS_EmptySet DEF Midnight, Shift

\* The hour of a day, between its midnights; the timer that was set the day before
\* comes at that hour, or an hour late or early where the clock has changed.
LEMMA HourOfADay ==
  ASSUME ScheduleAssumption, NEW d \in Nat
  PROVE  /\ Midnight(d) \in Int /\ Midnight(d + 1) \in Int /\ Candidate(d) \in Int
         /\ Midnight(d) <= Candidate(d) /\ Candidate(d) < Midnight(d + 1)
         /\ Midnight(d) + Hour < Midnight(d + 1)
         /\ d \in ShortDays => Midnight(d) + Hour = Candidate(d) + 1
         /\ d \in LongDays => Midnight(d) + Hour = Candidate(d) - 1
         /\ d \notin ShortDays \union LongDays => Midnight(d) + Hour = Candidate(d)
         /\ Candidate(d) + 24 = Midnight(d + 1) + Hour
<1>1. Hour \in 0..23 /\ (d \in ShortDays \union LongDays => Hour \in 3..22)
      /\ ~(d \in ShortDays /\ d \in LongDays)
  BY DEF ScheduleAssumption
<1>2. Candidate(d) = Midnight(d + 1) - 24 + Hour
  BY DEF Candidate
<1> QED
  BY <1>1, <1>2, HoursOfADay

\* The day of a time is the one it lies in.
LEMMA DayOfIs ==
  ASSUME ScheduleAssumption, NEW d \in 0..Days, NEW t \in Int,
         Midnight(d) <= t, t < Midnight(d + 1)
  PROVE  DayOf(t) = d
<1> DEFINE P(e) == Midnight(e) <= t /\ t < Midnight(e + 1)
<1>1. P(d)
  OBVIOUS
<1>2. \A e \in 0..Days : P(e) => e = d
  <2> SUFFICES ASSUME NEW e \in 0..Days, P(e), e # d PROVE FALSE
    OBVIOUS
  <2>0. d \in Nat /\ e \in Nat /\ d + 1 \in Nat /\ e + 1 \in Nat
    BY DEF ScheduleAssumption
  <2>1. CASE e < d
    <3>1. Midnight(e + 1) <= Midnight(d) /\ Midnight(d) \in Int /\ Midnight(e + 1) \in Int
      <4>1. e + 1 <= d
        BY <2>0, <2>1
      <4>2. Midnight(d) - Midnight(e + 1) >= 23 * (d - (e + 1))
            /\ Midnight(d) \in Int /\ Midnight(e + 1) \in Int
        BY <2>0, <4>1, HoursOf
      <4> QED
        BY <2>0, <4>1, <4>2
    <3> QED
      BY <3>1
  <2>2. CASE d < e
    <3>1. Midnight(d + 1) <= Midnight(e) /\ Midnight(e) \in Int /\ Midnight(d + 1) \in Int
      <4>1. d + 1 <= e
        BY <2>0, <2>2
      <4>2. Midnight(e) - Midnight(d + 1) >= 23 * (e - (d + 1))
            /\ Midnight(e) \in Int /\ Midnight(d + 1) \in Int
        BY <2>0, <4>1, HoursOf
      <4> QED
        BY <2>0, <4>1, <4>2
    <3> QED
      BY <3>1
  <2> QED
    BY <2>0, <2>1, <2>2
<1> HIDE DEF P
<1>3. (CHOOSE e \in 0..Days : P(e)) = d
  BY <1>1, <1>2
<1> QED
  BY <1>3 DEF P, DayOf

\* The next slot is today's until its hour has come, then 24 hours later.
LEMMA NextRunIs ==
  ASSUME ScheduleAssumption, NEW d \in 0..Days, NEW t \in Int,
         Midnight(d) <= t, t < Midnight(d + 1)
  PROVE  NextRun(t) = IF t < Candidate(d) THEN Candidate(d) ELSE Candidate(d) + 24
<1>1. DayOf(t) = d
  BY DayOfIs
<1>2. Candidate(d) \in Int
  BY HourOfADay DEF ScheduleAssumption
<1> QED
  BY <1>1, <1>2 DEF NextRun

-----------------------------------------------------------------------------
\* What has become of a day that is over, and of the present day d: the timer is
\* set for its hour, or for what was its hour the day before, or for the day after;
\* a day that is past its hour has its backup, or the process was away.
Over(e) ==
  /\ runs[e] = 0 => e \in away
  /\ runs[e] <= IF e \in LongDays THEN 2 ELSE 1

Present(d) ==
  /\ Midnight(d) <= now /\ now < Midnight(d + 1)
  /\ \A e \in 1..Days : e < d => Over(e)
  /\ \A e \in 0..Days : e > d => runs[e] = 0

Awaited(d) ==
  \/ /\ next = Candidate(d) /\ now <= next
     /\ runs[d] <= IF d \in LongDays THEN 1 ELSE 0
  \/ next = Midnight(d) + Hour /\ now <= next /\ runs[d] = 0
  \/ /\ next = Candidate(d) + 24 /\ now >= Candidate(d)
     /\ d > 0 => Over(d)

Absent(d) ==
  /\ now < Candidate(d) => runs[d] <= IF d \in LongDays THEN 1 ELSE 0
  /\ now \in Window(d) => d \in away
  /\ now >= Candidate(d) /\ d > 0 => Over(d)

On(d) == Present(d) /\ IF up THEN Awaited(d) ELSE Absent(d)

ScheduleInv ==
  /\ now \in Int /\ up \in BOOLEAN /\ next \in Int
  /\ runs \in [0..Days -> Nat] /\ away \in SUBSET (0..Days)
  /\ \E d \in 0..Days : On(d)

\* An hour passes within a day, or across a midnight.
LEMMA TickOn ==
  ASSUME ScheduleAssumption, ScheduleInv, Tick PROVE ScheduleInv'
<1>1. PICK d \in 0..Days : On(d)
  BY DEF ScheduleInv
<1>2. /\ now \in Int /\ up \in BOOLEAN /\ next \in Int
      /\ runs \in [0..Days -> Nat] /\ away \in SUBSET (0..Days)
  BY DEF ScheduleInv
<1>3. /\ now' = now + 1 /\ up' = up /\ next' = next /\ runs' = runs
      /\ now + 1 < Midnight(Days + 1) /\ (up => now < next)
  BY DEF Tick
<1>4. /\ away \subseteq away' /\ away' \in SUBSET (0..Days)
      /\ ~up => \A e \in 0..Days : now + 1 \in Window(e) => e \in away'
  BY <1>2 DEF Tick, Missed
<1>5. d \in Nat /\ Days \in Nat
  BY DEF ScheduleAssumption
<1>6. \A e \in 0..Days : Over(e) => Over(e)'
  BY <1>3, <1>4 DEF Over
<1>7. Present(d)
  BY <1>1 DEF On
<1>8. CASE now + 1 < Midnight(d + 1)
  <2>1. Present(d)'
    <3>1. Midnight(d) <= now + 1
      <4>1. Midnight(d) \in Int /\ Midnight(d) <= now
        BY <1>5, <1>7, HourOfADay DEF Present
      <4> QED
        BY <1>2, <4>1
    <3> QED
      BY <1>3, <1>6, <1>7, <1>8, <3>1 DEF Present
  <2>2. CASE up
    <3>1. Awaited(d)
      BY <1>1, <2>2 DEF On
    <3>2. Candidate(d) \in Int
      BY <1>5, HourOfADay
    <3>3. Awaited(d)'
      BY <1>2, <1>3, <1>6, <2>2, <3>1, <3>2 DEF Awaited
    <3> QED
      BY <1>2, <1>3, <1>4, <2>1, <2>2, <3>3 DEF On, ScheduleInv
  <2>3. CASE ~up
    <3>1. Absent(d)
      BY <1>1, <2>3 DEF On
    <3>2. Candidate(d) \in Int
      BY <1>5, HourOfADay
    <3>3. now + 1 \in Window(d) => d \in away'
      BY <1>4, <2>3
    <3>4. now + 1 >= Candidate(d) /\ d > 0 => Over(d)'
      <4>1. CASE now >= Candidate(d)
        BY <1>6, <3>1, <4>1 DEF Absent
      <4>2. CASE now < Candidate(d) /\ now + 1 >= Candidate(d)
        <5>1. now + 1 = Candidate(d)
          BY <1>2, <3>2, <4>2
        <5>2. d \in away'
          BY <3>3, <5>1 DEF Window
        <5>3. runs[d] <= IF d \in LongDays THEN 2 ELSE 1
          BY <1>2, <3>1, <4>2 DEF Absent
        <5> QED
          BY <1>3, <5>2, <5>3 DEF Over
      <4> QED
        BY <1>2, <3>2, <4>1, <4>2
    <3>5. now + 1 < Candidate(d) => runs[d] <= IF d \in LongDays THEN 1 ELSE 0
      BY <1>2, <3>1, <3>2 DEF Absent
    <3>6. Absent(d)'
      BY <1>3, <3>3, <3>4, <3>5 DEF Absent
    <3> QED
      BY <1>2, <1>3, <1>4, <2>1, <2>3, <3>6 DEF On, ScheduleInv
  <2> QED
    BY <2>2, <2>3
<1>9. CASE now + 1 = Midnight(d + 1)
  <2>1. d + 1 \in 0..Days /\ d + 1 \in Nat
    BY <1>3, <1>5, <1>9, HourOfADay
  <2>2. /\ Midnight(d + 1) \in Int /\ Candidate(d) \in Int /\ Candidate(d + 1) \in Int
        /\ Midnight(d + 1) <= Candidate(d + 1) /\ Midnight(d + 1) < Midnight(d + 1 + 1)
        /\ Midnight(d) + Hour < Midnight(d + 1) /\ Candidate(d) < Midnight(d + 1)
        /\ Candidate(d) + 24 = Midnight(d + 1) + Hour /\ Midnight(d) + Hour \in Int
    <3>1. Hour \in Int
      BY DEF ScheduleAssumption
    <3>2. Midnight(d) \in Int /\ Midnight(d + 1 + 1) \in Int
      BY <1>5, <2>1, HourOfADay
    <3>3. /\ Midnight(d + 1) \in Int /\ Candidate(d) \in Int /\ Candidate(d + 1) \in Int
          /\ Midnight(d + 1) <= Candidate(d + 1) /\ Candidate(d + 1) < Midnight(d + 1 + 1)
          /\ Midnight(d) + Hour < Midnight(d + 1) /\ Candidate(d) < Midnight(d + 1)
          /\ Candidate(d) + 24 = Midnight(d + 1) + Hour
      BY <1>5, <2>1, HourOfADay
    <3> QED
      BY <3>1, <3>2, <3>3
  <2>3. d > 0 => Over(d)
    <3>1. CASE up
      <4>1. now < next /\ Awaited(d)
        BY <1>1, <1>3, <3>1 DEF On
      <4>2. ~(next = Candidate(d)) /\ ~(next = Midnight(d) + Hour)
        BY <1>2, <1>9, <2>2, <4>1
      <4> QED
        BY <4>1, <4>2 DEF Awaited
    <3>2. CASE ~up
      <4>1. now >= Candidate(d)
        BY <1>2, <1>9, <2>2
      <4> QED
        BY <1>1, <3>2, <4>1 DEF On, Absent
    <3> QED
      BY <3>1, <3>2
  <2>4. runs[d + 1] = 0
    BY <1>5, <1>7, <2>1 DEF Present
  <2>5. Present(d + 1)'
    <3>1. \A e \in 1..Days : e < d + 1 => Over(e)'
      <4> SUFFICES ASSUME NEW e \in 1..Days, e < d + 1 PROVE Over(e)'
        OBVIOUS
      <4>1. e \in 0..Days /\ (e < d \/ (e = d /\ d > 0))
        BY <1>5
      <4>2. Over(e)
        BY <1>7, <2>3, <4>1 DEF Present
      <4> QED
        BY <1>6, <4>1, <4>2
    <3>2. \A e \in 0..Days : e > d + 1 => runs[e] = 0
      BY <1>5, <1>7 DEF Present
    <3> QED
      BY <1>3, <1>9, <2>2, <3>1, <3>2 DEF Present
  <2>6. CASE up
    <3>1. next = Candidate(d) + 24 /\ now < next
      <4>1. now < next /\ Awaited(d)
        BY <1>1, <1>3, <2>6 DEF On
      <4>2. ~(next = Candidate(d)) /\ ~(next = Midnight(d) + Hour)
        BY <1>2, <1>9, <2>2, <4>1
      <4> QED
        BY <4>1, <4>2 DEF Awaited
    <3>2. next = Midnight(d + 1) + Hour /\ now + 1 <= next
      BY <1>2, <2>2, <3>1
    <3>3. Awaited(d + 1)'
      BY <1>3, <2>4, <3>2 DEF Awaited
    <3> QED
      BY <1>2, <1>3, <1>4, <2>1, <2>5, <2>6, <3>3 DEF On, ScheduleInv
  <2>7. CASE ~up
    <3>1. now + 1 \in Window(d + 1) => d + 1 \in away'
      BY <1>4, <2>1, <2>7
    <3>2. now + 1 >= Candidate(d + 1) => d + 1 \in away'
      <4>1. now + 1 >= Candidate(d + 1) => now + 1 = Candidate(d + 1)
        BY <1>9, <2>2
      <4> QED
        BY <3>1, <4>1 DEF Window
    <3>3. now + 1 >= Candidate(d + 1) /\ d + 1 > 0 => Over(d + 1)'
      BY <1>3, <2>4, <3>2 DEF Over
    <3>4. Absent(d + 1)'
      BY <1>3, <2>4, <3>1, <3>3 DEF Absent
    <3> QED
      BY <1>2, <1>3, <1>4, <2>1, <2>5, <2>7, <3>4 DEF On, ScheduleInv
  <2> QED
    BY <2>6, <2>7
<1> QED
  <2>1. Midnight(d + 1) \in Int /\ now < Midnight(d + 1)
    BY <1>5, <1>7, HourOfADay DEF Present
  <2> QED
    BY <1>2, <1>8, <1>9, <2>1

\* The timer fires.
LEMMA RunOn ==
  ASSUME ScheduleAssumption, ScheduleInv, RunOnce PROVE ScheduleInv'
<1>1. PICK d \in 0..Days : On(d)
  BY DEF ScheduleInv
<1>2. /\ now \in Int /\ up \in BOOLEAN /\ next \in Int
      /\ runs \in [0..Days -> Nat] /\ away \in SUBSET (0..Days)
  BY DEF ScheduleInv
<1>3. d \in Nat /\ d \in 0..Days /\ Candidate(d) \in Int /\ Midnight(d) + Hour \in Int
  BY HourOfADay DEF ScheduleAssumption
<1>4. Present(d) /\ Awaited(d) /\ Midnight(d) <= now /\ now < Midnight(d + 1)
  BY <1>1 DEF RunOnce, On, Present
<1>5. /\ up' = up /\ now' = now /\ away' = away /\ now = next /\ up
      /\ runs' = [runs EXCEPT ![d] = @ + 1]
      /\ next' = IF now < Candidate(d) THEN Candidate(d) ELSE Candidate(d) + 24
  BY <1>2, <1>4, DayOfIs, NextRunIs DEF RunOnce
<1>6. runs'[d] = runs[d] + 1 /\ runs[d] \in Nat /\ \A e \in 0..Days : e # d => runs'[e] = runs[e]
  BY <1>2, <1>5
<1>7. Present(d)'
  <2>1. \A e \in 1..Days : e < d => Over(e)'
    BY <1>3, <1>4, <1>5, <1>6 DEF Present, Over
  <2>2. \A e \in 0..Days : e > d => runs'[e] = 0
    BY <1>3, <1>4, <1>6 DEF Present
  <2> QED
    BY <1>4, <1>5, <2>1, <2>2 DEF Present
<1>8. now >= Candidate(d) \/ (d \in LongDays /\ runs[d] = 0 /\ now < Candidate(d))
  <2>1. Midnight(d) + Hour >= Candidate(d) \/ d \in LongDays
    BY <1>3, HourOfADay
  <2> QED
    BY <1>2, <1>3, <1>4, <1>5, <2>1 DEF Awaited
<1>9. runs[d] <= IF d \in LongDays THEN 1 ELSE 0
  <2>1. Candidate(d) + 24 # now \/ ~(now >= Candidate(d) /\ next = Candidate(d) + 24)
    <3>1. Candidate(d) + 24 = Midnight(d + 1) + Hour /\ Midnight(d + 1) \in Int /\ Hour \in Nat
      BY <1>3, HourOfADay DEF ScheduleAssumption
    <3> QED
      BY <1>2, <1>3, <1>4, <1>5, <3>1
  <2> QED
    BY <1>4, <1>5, <1>6, <2>1 DEF Awaited
<1>10. Awaited(d)'
  <2>1. CASE now >= Candidate(d)
    <3>1. next' = Candidate(d) + 24
      BY <1>2, <1>3, <1>5, <2>1
    <3>2. Over(d)'
      BY <1>6, <1>9 DEF Over
    <3> QED
      BY <1>5, <2>1, <3>1, <3>2 DEF Awaited
  <2>2. CASE d \in LongDays /\ runs[d] = 0 /\ now < Candidate(d)
    <3>1. next' = Candidate(d) /\ now <= next' /\ runs'[d] = 1
      BY <1>2, <1>3, <1>5, <1>6, <2>2
    <3> QED
      BY <1>5, <2>2, <3>1 DEF Awaited
  <2> QED
    BY <1>8, <2>1, <2>2
<1>11. next' \in Int /\ runs' \in [0..Days -> Nat]
  BY <1>2, <1>3, <1>5
<1> QED
  BY <1>2, <1>3, <1>5, <1>7, <1>10, <1>11 DEF On, ScheduleInv

\* The process ends, and starts.
LEMMA RestartOn ==
  ASSUME ScheduleAssumption, ScheduleInv, ProcessEnds \/ ProcessStarts PROVE ScheduleInv'
<1>1. PICK d \in 0..Days : On(d)
  BY DEF ScheduleInv
<1>2. /\ now \in Int /\ up \in BOOLEAN /\ next \in Int
      /\ runs \in [0..Days -> Nat] /\ away \in SUBSET (0..Days)
  BY DEF ScheduleInv
<1>3. d \in Nat /\ d \in 0..Days /\ Candidate(d) \in Int /\ Midnight(d) + Hour \in Int
  BY HourOfADay DEF ScheduleAssumption
<1>4. Present(d) /\ Midnight(d) <= now /\ now < Midnight(d + 1)
  BY <1>1 DEF On, Present
<1>5. CASE ProcessEnds
  <2>1. /\ up /\ up' = FALSE /\ now' = now /\ next' = next /\ runs' = runs
        /\ away' = away \union Missed(now)
    BY <1>5 DEF ProcessEnds
  <2>2. /\ away \subseteq away' /\ away' \in SUBSET (0..Days)
        /\ now \in Window(d) => d \in away'
    BY <1>2, <1>3, <2>1 DEF Missed
  <2>3. \A e \in 0..Days : Over(e) => Over(e)'
    BY <2>1, <2>2 DEF Over
  <2>4. Present(d)'
    BY <1>4, <2>1, <2>3 DEF Present
  <2>5. Awaited(d) /\ runs[d] \in Nat
    BY <1>1, <1>2, <2>1 DEF On
  <2>6. Absent(d)'
    <3>1. CASE next = Candidate(d) /\ now <= next /\ runs[d] <= IF d \in LongDays THEN 1 ELSE 0
      <4>1. now >= Candidate(d) => now \in Window(d)
        BY <1>2, <1>3, <3>1 DEF Window
      <4>2. now >= Candidate(d) => Over(d)'
        BY <2>1, <2>2, <2>5, <3>1, <4>1 DEF Over
      <4> QED
        BY <2>1, <2>2, <3>1, <4>2 DEF Absent
    <3>2. CASE next = Midnight(d) + Hour /\ now <= next /\ runs[d] = 0
      <4>1. now >= Candidate(d) => now \in Window(d)
        <5>1. now <= Candidate(d) \/ (now = Candidate(d) + 1 /\ d \in ShortDays)
          <6>1. Midnight(d) + Hour <= Candidate(d)
                  \/ (d \in ShortDays /\ Midnight(d) + Hour = Candidate(d) + 1)
            BY <1>3, HourOfADay
          <6> QED
            BY <1>2, <1>3, <3>2, <6>1
        <5> QED
          BY <1>2, <1>3, <5>1 DEF Window
      <4>2. now >= Candidate(d) => Over(d)'
        BY <2>1, <2>2, <3>2, <4>1 DEF Over
      <4> QED
        BY <2>1, <2>2, <3>2, <4>2 DEF Absent
    <3>3. CASE next = Candidate(d) + 24 /\ now >= Candidate(d) /\ (d > 0 => Over(d))
      <4>1. ~(now < Candidate(d))
        BY <1>2, <1>3, <3>3
      <4> QED
        BY <1>3, <2>1, <2>2, <2>3, <3>3, <4>1 DEF Absent
    <3> QED
      BY <2>5, <3>1, <3>2, <3>3 DEF Awaited
  <2> QED
    BY <1>2, <1>3, <2>1, <2>2, <2>4, <2>6 DEF On, ScheduleInv
<1>6. CASE ProcessStarts
  <2>1. /\ ~up /\ up' = TRUE /\ now' = now /\ runs' = runs /\ away' = away
        /\ next' = IF now < Candidate(d) THEN Candidate(d) ELSE Candidate(d) + 24
    BY <1>2, <1>3, <1>4, <1>6, NextRunIs DEF ProcessStarts
  <2>2. Present(d)'
    BY <1>4, <2>1 DEF Present, Over
  <2>3. Awaited(d)'
    <3>1. Absent(d)
      BY <1>1, <2>1 DEF On
    <3>2. CASE now < Candidate(d)
      BY <2>1, <3>1, <3>2, <1>2, <1>3 DEF Awaited, Absent
    <3>3. CASE now >= Candidate(d)
      BY <2>1, <3>1, <3>3, <1>2, <1>3 DEF Awaited, Absent, Over
    <3> QED
      BY <1>2, <1>3, <3>2, <3>3
  <2> QED
    BY <1>2, <1>3, <2>1, <2>2, <2>3 DEF On, ScheduleInv
<1> QED
  BY <1>5, <1>6

\* backup.go: "executing one backup at the configured local hour each day": no day
\* passes without one unless the process was away at its hour, and none has a second
\* but a long one; whatever days are short or long, and whatever restarts there are.
THEOREM OneADay == ASSUME ScheduleAssumption PROVE Spec => []OncePerDay
<1>1. Init => ScheduleInv
  <2> SUFFICES ASSUME Init PROVE ScheduleInv
    OBVIOUS
  <2>1. /\ now \in Int /\ Midnight(0) <= now /\ now < Midnight(0 + 1)
        /\ up = TRUE /\ runs = [e \in 0..Days |-> 0] /\ away = {} /\ next = NextRun(now)
    <3>1. Midnight(0) = 0 /\ Midnight(0 + 1) = Midnight(1) /\ Midnight(1) \in Int
      BY DawnIsZero, HoursOfADay
    <3> QED
      BY <3>1 DEF Init
  <2>2. 0 \in 0..Days /\ Candidate(0) \in Int
    BY HourOfADay DEF ScheduleAssumption
  <2>3. next = IF now < Candidate(0) THEN Candidate(0) ELSE Candidate(0) + 24
    BY <2>1, <2>2, NextRunIs
  <2>4. Present(0) /\ Awaited(0)
    <3>1. Present(0)
      BY <2>1 DEF Present
    <3>2. Awaited(0)
      BY <2>1, <2>2, <2>3 DEF Awaited
    <3> QED
      BY <3>1, <3>2
  <2> QED
    BY <2>1, <2>2, <2>3, <2>4 DEF On, ScheduleInv
<1>2. ScheduleInv /\ [Next]_vars => ScheduleInv'
  <2> SUFFICES ASSUME ScheduleInv, [Next]_vars PROVE ScheduleInv'
    OBVIOUS
  <2>1. CASE UNCHANGED vars
    BY <2>1 DEF vars, ScheduleInv, On, Present, Awaited, Absent, Over
  <2> QED
    BY <2>1, TickOn, RunOn, RestartOn DEF Next
<1>3. ScheduleInv => OncePerDay
  <2> SUFFICES ASSUME ScheduleInv PROVE OncePerDay
    OBVIOUS
  <2>1. PICK d \in 0..Days : On(d)
    BY DEF ScheduleInv
  <2>2. DayOf(now) = d /\ Present(d)
    BY <2>1, DayOfIs DEF ScheduleInv, On, Present
  <2> QED
    BY <2>2 DEF OncePerDay, Present, Over
<1> QED
  BY <1>1, <1>2, <1>3, PTL DEF Spec

\* What the runs check implements the schedule, whatever part is in focus.
THEOREM ScheduleImplemented == SumSpec => Spec
<1>1. SumInit => Init
  BY DEF SumInit
<1>2. [SumNext]_sumVars => [Next]_vars
  BY DEF SumNext, sumVars, scheduleVars, vars
<1> QED
  BY <1>1, <1>2, PTL DEF SumSpec, Spec

\* One backup a day, in what the runs check.
THEOREM OneADayThroughout == ASSUME ScheduleAssumption PROVE SumSpec => []OncePerDay
BY OneADay, ScheduleImplemented, PTL

-----------------------------------------------------------------------------
\* The channel has room for a line or more, and the bound is a number.
StreamBounded == Size \in Nat /\ MaxLines \in Nat

\* The lines the goroutines have handed over: those that were shown, then those in
\* the channel.
Handed == Len(shown) + Len(events)
Line(i) == IF i <= Len(shown) THEN shown[i] ELSE events[i - Len(shown)]

\* Each output was handed over from its beginning, in its order.
InOrder ==
  /\ \A i \in 1..Handed :
       /\ Line(i) \in Stream!Outputs \X (1..MaxLines)
       /\ Line(i)[2] <= offered[Line(i)[1]]
       /\ Line(i)[2] = 1 \/ \E j \in 1..i - 1 : Line(j) = <<Line(i)[1], Line(i)[2] - 1>>
       /\ \A j \in 1..i - 1 : Line(j)[1] = Line(i)[1] => Line(j)[2] < Line(i)[2]
  /\ \A o \in Stream!Outputs : offered[o] = 0 \/ \E i \in 1..Handed : Line(i) = <<o, offered[o]>>

\* A process that was killed had lost its context, and what its end is known as is
\* how it ended.
Ending ==
  /\ streamHandler \in {"new", "refused"} => docker = "none" /\ reason = "none" /\ exitCh = "none"
  /\ docker = "none" => streamHandler \in {"new", "refused"}
  /\ exitCh \in {"exited", "killed", "signalled"} => docker = exitCh
  /\ docker = "killed" => context # "live"
  /\ Stream!EndTellsTheTruth

StreamInv == Stream!TypeOK /\ InOrder /\ Ending

\* Every step keeps the types.
LEMMA StreamTypeStep ==
  ASSUME StreamBounded, StreamInv, [Stream!Next]_Stream!vars
  PROVE  Stream!TypeOK'
<1> USE DEF StreamBounded, Stream!TypeOK, Stream!process, Stream!pumps, Stream!None,
            Stream!Cancelled
<1>0. Stream!TypeOK
  BY DEF StreamInv
<1>1. CASE Stream!Begin
  <2>1. streamPump' = streamPump \/ streamPump' = [o \in Stream!Outputs |-> "reading"]
    BY <1>1 DEF Stream!Begin
  <2>2. /\ streamHandler' \in {"streaming", "refused"} /\ docker' \in {docker, "running"}
        /\ UNCHANGED <<printed, fetched, offered, events, streamDone, exitCh, context, gone,
                       reason, shown>>
    BY <1>1 DEF Stream!Begin
  <2> QED
    BY <1>0, <2>1, <2>2
<1>2. ASSUME NEW o \in Stream!Outputs, Stream!WriteLine(o) PROVE Stream!TypeOK'
  BY <1>0, <1>2 DEF Stream!WriteLine
<1>3. CASE Stream!Exit \/ Stream!Signal \/ Stream!Leave \/ Stream!Deadline
           \/ Stream!KillByContext \/ Stream!Wait
  <2>1. gone' \in BOOLEAN
    BY <1>0, <1>3 DEF Stream!Exit, Stream!Signal, Stream!Leave, Stream!Deadline,
       Stream!KillByContext, Stream!Wait
  <2>2. /\ docker' \in {docker, "exited", "killed", "signalled"}
        /\ exitCh' \in {exitCh, "exited", "killed", "signalled"}
        /\ context' \in {context, "cancelled", "deadline"}
        /\ UNCHANGED <<printed, fetched, offered, streamPump, events, streamDone, streamHandler,
                       reason, shown>>
    BY <1>0, <1>3 DEF Stream!Exit, Stream!Signal, Stream!Leave, Stream!Deadline,
       Stream!KillByContext, Stream!Wait
  <2> QED
    BY <1>0, <2>1, <2>2
<1>4. ASSUME NEW o \in Stream!Outputs, Stream!Fetch(o) PROVE Stream!TypeOK'
  BY <1>0, <1>4 DEF Stream!Fetch
<1>5. ASSUME NEW o \in Stream!Outputs, Stream!Offer(o) PROVE Stream!TypeOK'
  <2>1. /\ offered[o] < fetched[o] /\ Len(events) < Size
        /\ events' = Append(events, <<o, offered[o] + 1>>)
        /\ offered' = [offered EXCEPT ![o] = @ + 1]
        /\ UNCHANGED <<docker, printed, fetched, streamPump, streamDone, exitCh, context, gone,
                       streamHandler, reason, shown>>
    BY <1>5 DEF Stream!Offer
  <2>2. offered[o] \in 0..MaxLines /\ fetched[o] \in 0..MaxLines
    BY <1>0
  <2>3. offered[o] + 1 \in 1..MaxLines
    BY <2>1, <2>2
  <2>4. events' \in Seq(Stream!Outputs \X (1..MaxLines)) /\ Len(events') <= Size
    BY <1>0, <2>1, <2>3
  <2>5. offered' \in [Stream!Outputs -> 0..MaxLines]
    BY <1>0, <2>1, <2>3
  <2> QED
    BY <1>0, <2>1, <2>4, <2>5
<1>6. ASSUME NEW o \in Stream!Outputs, Stream!PumpEnds(o) \/ Stream!ScanFails(o)
      PROVE  Stream!TypeOK'
  <2>1. /\ streamPump' = [streamPump EXCEPT ![o] = "ended"]
        /\ UNCHANGED <<docker, printed, fetched, offered, events, streamDone, exitCh, context,
                       gone, streamHandler, reason, shown>>
    BY <1>6 DEF Stream!PumpEnds, Stream!ScanFails, Stream!Ends
  <2> QED
    BY <1>0, <2>1
<1>7. CASE Stream!Show
  <2>1. /\ events # <<>> /\ shown' = Append(shown, Head(events)) /\ events' = Tail(events)
        /\ UNCHANGED <<docker, printed, fetched, offered, streamPump, streamDone, exitCh, context,
                       gone, streamHandler, reason>>
    BY <1>7 DEF Stream!Show
  <2>2. /\ shown' \in Seq(Stream!Outputs \X (1..MaxLines))
        /\ events' \in Seq(Stream!Outputs \X (1..MaxLines)) /\ Len(events') <= Size
    BY <1>0, <2>1
  <2> QED
    BY <1>0, <2>1, <2>2
<1>8. CASE Stream!Exited \/ Stream!Drained \/ Stream!Finish \/ Stream!Return
  BY <1>0, <1>8 DEF Stream!Exited, Stream!Drained, Stream!Finish, Stream!Cleanup, Stream!Return,
     Stream!ExitReason
<1>9. CASE UNCHANGED Stream!vars
  BY <1>0, <1>9 DEF Stream!vars
<1> QED
  BY <1>1, <1>2, <1>3, <1>4, <1>5, <1>6, <1>7, <1>8, <1>9 DEF Stream!Next

\* Every step keeps the order of what was handed over: the channel takes a line at
\* its end and gives one at its beginning.
LEMMA InOrderStep ==
  ASSUME StreamBounded, StreamInv, Stream!TypeOK', [Stream!Next]_Stream!vars
  PROVE  InOrder'
<1> USE DEF Stream!process, Stream!pumps
<1> DEFINE Lines == Stream!Outputs \X (1..MaxLines)
<1>0. /\ InOrder /\ offered \in [Stream!Outputs -> 0..MaxLines]
      /\ shown \in Seq(Lines) /\ events \in Seq(Lines)
      /\ Len(shown) \in Nat /\ Len(events) \in Nat
  BY DEF StreamInv, Stream!TypeOK
<1>1. ASSUME UNCHANGED <<shown, events, offered>> PROVE InOrder'
  BY <1>0, <1>1 DEF InOrder, Handed, Line
<1>2. CASE Stream!Show
  <2>1. /\ events # <<>> /\ shown' = Append(shown, Head(events)) /\ events' = Tail(events)
        /\ offered' = offered
    BY <1>2 DEF Stream!Show
  <2>2. Len(shown') = Len(shown) + 1 /\ Len(events') = Len(events) - 1 /\ Len(events) > 0
    BY <1>0, <2>1
  <2>3. Handed' = Handed
    BY <1>0, <2>2 DEF Handed
  <2>4. ASSUME NEW i \in 1..Handed PROVE Line(i)' = Line(i)
    <3>1. CASE i <= Len(shown)
      BY <1>0, <2>1, <2>2, <3>1 DEF Line, Handed
    <3>2. CASE i = Len(shown) + 1
      BY <1>0, <2>1, <2>2, <3>2 DEF Line, Handed
    <3>3. CASE i > Len(shown) + 1
      BY <1>0, <2>1, <2>2, <3>3 DEF Line, Handed
    <3> QED
      BY <1>0, <3>1, <3>2, <3>3 DEF Handed
  <2>5. Handed \in Nat /\ \A i \in 1..Handed : \A j \in 1..i - 1 : j \in 1..Handed
    BY <1>0 DEF Handed
  <2> QED
    BY <1>0, <2>1, <2>3, <2>4, <2>5 DEF InOrder
<1>3. ASSUME NEW o \in Stream!Outputs, Stream!Offer(o) PROVE InOrder'
  <2>1. /\ events' = Append(events, <<o, offered[o] + 1>>)
        /\ offered' = [offered EXCEPT ![o] = @ + 1] /\ shown' = shown
    BY <1>3 DEF Stream!Offer
  <2>2. PICK n \in Nat : n = Handed
    BY <1>0 DEF Handed
  <2>3. Len(events') = Len(events) + 1 /\ Handed' = n + 1
    BY <1>0, <2>1, <2>2 DEF Handed
  <2>4. ASSUME NEW i \in 1..n PROVE Line(i)' = Line(i)
    BY <1>0, <2>1, <2>2 DEF Line, Handed
  <2>5. Line(n + 1)' = <<o, offered[o] + 1>>
    <3>1. n + 1 > Len(shown) /\ n + 1 - Len(shown) = Len(events) + 1
      BY <1>0, <2>2 DEF Handed
    <3>2. events'[Len(events) + 1] = <<o, offered[o] + 1>>
      BY <1>0, <2>1
    <3> QED
      BY <2>1, <3>1, <3>2 DEF Line
  <2>6. /\ \A i \in 1..n : \A j \in 1..i - 1 : j \in 1..n
        /\ \A i \in 1..n + 1 : i \in 1..n \/ i = n + 1
        /\ 1..n + 1 - 1 = 1..n /\ n + 1 \in 1..n + 1 /\ 1..n \subseteq 1..n + 1
    OBVIOUS
  <2>7. offered[o] \in 0..MaxLines /\ offered[o] + 1 \in 1..MaxLines
    <3>1. offered[o] \in Nat /\ offered'[o] \in 0..MaxLines /\ offered'[o] = offered[o] + 1
      BY <1>0, <2>1 DEF Stream!TypeOK
    <3> QED
      BY <1>0, <3>1
  <2>8. \A i \in 1..n : offered'[Line(i)[1]] >= offered[Line(i)[1]]
    <3>1. \A p \in Stream!Outputs : offered[p] \in Nat /\ offered'[p] >= offered[p]
      BY <1>0, <2>1
    <3>2. \A i \in 1..n : Line(i)[1] \in Stream!Outputs
      BY <1>0, <2>2 DEF InOrder
    <3> QED
      BY <3>1, <3>2
  <2>9. \A i \in 1..n : Line(i)' \in Lines /\ Line(i)'[2] <= offered'[Line(i)'[1]]
    <3>1. \A i \in 1..n : /\ Line(i)[2] \in Int /\ offered[Line(i)[1]] \in Int
                          /\ offered'[Line(i)[1]] \in Int
                          /\ Line(i)[2] <= offered[Line(i)[1]]
      BY <1>0, <2>1, <2>2 DEF InOrder
    <3> QED
      BY <1>0, <2>2, <2>4, <2>8, <3>1 DEF InOrder
  <2>10. \A i \in 1..n :
           /\ Line(i)'[2] = 1 \/ \E j \in 1..i - 1 : Line(j)' = <<Line(i)'[1], Line(i)'[2] - 1>>
           /\ \A j \in 1..i - 1 : Line(j)'[1] = Line(i)'[1] => Line(j)'[2] < Line(i)'[2]
    BY <1>0, <2>2, <2>4, <2>6 DEF InOrder
  <2>11. /\ Line(n + 1)' \in Lines
         /\ Line(n + 1)'[1] = o /\ Line(n + 1)'[2] = offered[o] + 1 /\ offered'[o] = offered[o] + 1
    BY <1>0, <2>1, <2>5, <2>7
  <2>12. offered[o] + 1 = 1 \/ \E j \in 1..n : Line(j)' = <<o, offered[o] + 1 - 1>>
    <3>1. offered[o] = 0 \/ \E j \in 1..n : Line(j) = <<o, offered[o]>>
      BY <1>0, <2>2 DEF InOrder
    <3>2. offered[o] \in Int /\ offered[o] + 1 - 1 = offered[o]
      BY <2>7
    <3> QED
      BY <2>4, <3>1, <3>2
  <2>13. \A j \in 1..n : Line(j)'[1] = o => Line(j)'[2] < offered[o] + 1
    <3>1. \A j \in 1..n : Line(j)[1] = o => Line(j)[2] \in Int /\ Line(j)[2] <= offered[o]
      BY <1>0, <2>2 DEF InOrder
    <3> QED
      BY <2>4, <2>7, <3>1
  <2>14. \A p \in Stream!Outputs :
           offered'[p] = 0 \/ \E i \in 1..n + 1 : Line(i)' = <<p, offered'[p]>>
    <3>1. \A p \in Stream!Outputs \ {o} : offered'[p] = offered[p]
      BY <1>0, <2>1
    <3> QED
      BY <1>0, <2>2, <2>4, <2>5, <2>6, <2>11, <3>1 DEF InOrder
  <2>15. ASSUME NEW i \in 1..n + 1
         PROVE  /\ Line(i)' \in Lines /\ Line(i)'[2] <= offered'[Line(i)'[1]]
                /\ Line(i)'[2] = 1 \/ \E j \in 1..i - 1 : Line(j)' = <<Line(i)'[1], Line(i)'[2] - 1>>
                /\ \A j \in 1..i - 1 : Line(j)'[1] = Line(i)'[1] => Line(j)'[2] < Line(i)'[2]
    <3>1. CASE i \in 1..n
      BY <2>9, <2>10, <3>1
    <3>2. CASE i = n + 1
      <4>1. offered'[Line(i)'[1]] = Line(i)'[2] /\ Line(i)'[2] \in Int
        BY <2>7, <2>11, <3>2
      <4>2. i - 1 = n /\ Line(i)'[1] = o /\ Line(i)'[2] = offered[o] + 1 /\ Line(i)' \in Lines
        BY <2>11, <3>2
      <4>3. Line(i)'[2] <= offered'[Line(i)'[1]]
        BY <4>1
      <4>4. Line(i)'[2] = 1 \/ \E j \in 1..i - 1 : Line(j)' = <<Line(i)'[1], Line(i)'[2] - 1>>
        <5>1. <<Line(i)'[1], Line(i)'[2] - 1>> = <<o, offered[o] + 1 - 1>>
          <6>1. \A x \in Int : x = offered[o] + 1 => <<o, x - 1>> = <<o, offered[o] + 1 - 1>>
            BY <2>7
          <6> QED
            BY <4>1, <4>2, <6>1
        <5>2. CASE offered[o] + 1 = 1
          BY <4>2, <5>2
        <5>3. ASSUME NEW j \in 1..n, Line(j)' = <<o, offered[o] + 1 - 1>>
              PROVE  \E k \in 1..i - 1 : Line(k)' = <<Line(i)'[1], Line(i)'[2] - 1>>
          BY <4>2, <5>1, <5>3
        <5> QED
          BY <2>12, <5>2, <5>3
      <4>5. \A j \in 1..i - 1 : Line(j)'[1] = Line(i)'[1] => Line(j)'[2] < Line(i)'[2]
        BY <2>13, <4>2
      <4> QED
        BY <4>2, <4>3, <4>4, <4>5
    <3> QED
      BY <2>6, <3>1, <3>2
  <2> QED
    BY <2>3, <2>14, <2>15 DEF InOrder
<1>4. CASE ~Stream!Show /\ ~(\E o \in Stream!Outputs : Stream!Offer(o))
  <2>1. UNCHANGED <<shown, events, offered>>
    BY <1>4 DEF Stream!Next, Stream!vars, Stream!Begin, Stream!Exit, Stream!Signal, Stream!Leave,
       Stream!Deadline, Stream!KillByContext, Stream!Wait, Stream!WriteLine, Stream!Fetch,
       Stream!PumpEnds, Stream!ScanFails, Stream!Exited, Stream!Drained, Stream!Finish,
       Stream!Cleanup, Stream!Return
  <2> QED
    BY <1>1, <2>1
<1> QED
  BY <1>2, <1>3, <1>4

\* Every step keeps the end frame true.
LEMMA EndingStep ==
  ASSUME StreamInv, [Stream!Next]_Stream!vars
  PROVE  Ending'
<1> USE DEF Ending, Stream!EndTellsTheTruth, Stream!process, Stream!pumps, Stream!None,
            Stream!Cancelled
<1>0. /\ Ending /\ docker \in {"none", "running", "exited", "killed", "signalled"}
      /\ exitCh \in {"none", "exited", "killed", "signalled", "taken"}
      /\ context \in {"live", "cancelled", "deadline"}
  BY DEF StreamInv, Stream!TypeOK
<1>1. ASSUME NEW o \in Stream!Outputs,
             \/ Stream!WriteLine(o) \/ Stream!Fetch(o) \/ Stream!Offer(o)
             \/ Stream!PumpEnds(o) \/ Stream!ScanFails(o)
      PROVE  Ending'
  <2>1. UNCHANGED <<docker, exitCh, context, gone, streamHandler, reason>>
    BY <1>1 DEF Stream!WriteLine, Stream!Fetch, Stream!Offer, Stream!PumpEnds, Stream!ScanFails
  <2> QED
    BY <1>0, <2>1
<1>2. CASE Stream!Begin
  BY <1>0, <1>2 DEF Stream!Begin
<1>3. CASE Stream!Exit \/ Stream!Signal \/ Stream!Wait
  BY <1>0, <1>3 DEF Stream!Exit, Stream!Signal, Stream!Wait
<1>4. CASE Stream!Leave \/ Stream!Deadline \/ Stream!KillByContext
  BY <1>0, <1>4 DEF Stream!Leave, Stream!Deadline, Stream!KillByContext
<1>5. CASE Stream!Show \/ UNCHANGED Stream!vars
  BY <1>0, <1>5 DEF Stream!Show, Stream!vars
<1>6. CASE Stream!Exited \/ Stream!Drained
  BY <1>0, <1>6 DEF Stream!Exited, Stream!Drained, Stream!ExitReason
<1>7. CASE Stream!Finish \/ Stream!Return
  BY <1>0, <1>7 DEF Stream!Finish, Stream!Cleanup, Stream!Return
<1> QED
  BY <1>1, <1>2, <1>3, <1>4, <1>5, <1>6, <1>7 DEF Stream!Next

\* A browser sees the beginning of each output without a gap, and the end frame says
\* why the stream ended; for a channel of any size.
THEOREM StreamHolds ==
  ASSUME StreamBounded
  PROVE  Stream!Spec => [](Stream!TypeOK /\ Stream!NoGap /\ Stream!EndTellsTheTruth)
<1>1. Stream!Init => StreamInv
  <2> SUFFICES ASSUME Stream!Init PROVE StreamInv
    OBVIOUS
  <2>1. Stream!TypeOK
    <3> USE DEF Stream!Init, Stream!None, StreamBounded
    <3>1. /\ printed = [o \in Stream!Outputs |-> 0] /\ fetched = printed /\ offered = printed
          /\ streamPump = [o \in Stream!Outputs |-> "none"]
      OBVIOUS
    <3>2. streamDone \in BOOLEAN /\ gone \in BOOLEAN
      OBVIOUS
    <3>3. printed \in [Stream!Outputs -> 0..MaxLines]
      <4>1. 0 \in 0..MaxLines
        BY DEF StreamBounded
      <4> QED
        BY <3>1, <4>1
    <3>4. /\ events = <<>> /\ shown = <<>> /\ docker = "none" /\ exitCh = "none"
          /\ context = "live" /\ streamHandler = "new" /\ reason = "none" /\ Size \in Nat
      OBVIOUS
    <3> HIDE DEF Stream!Init
    <3>5. events \in Seq(Stream!Outputs \X (1..MaxLines)) /\ Len(events) <= Size
      BY <3>4
    <3> QED
      BY <3>1, <3>2, <3>3, <3>4, <3>5 DEF Stream!TypeOK
  <2>2. InOrder
    BY DEF Stream!Init, InOrder, Handed, Line
  <2>3. Ending
    BY DEF Stream!Init, Ending, Stream!EndTellsTheTruth, Stream!None
  <2> QED
    BY <2>1, <2>2, <2>3 DEF StreamInv
<1>2. StreamInv /\ [Stream!Next]_Stream!vars => StreamInv'
  <2> SUFFICES ASSUME StreamInv, [Stream!Next]_Stream!vars PROVE StreamInv'
    OBVIOUS
  <2>1. Stream!TypeOK'
    BY StreamTypeStep
  <2> QED
    BY <2>1, InOrderStep, EndingStep DEF StreamInv
<1>3. StreamInv => Stream!TypeOK /\ Stream!NoGap /\ Stream!EndTellsTheTruth
  <2> SUFFICES ASSUME StreamInv PROVE Stream!NoGap
    BY DEF StreamInv, Ending
  <2>1. /\ shown \in Seq(Stream!Outputs \X (1..MaxLines)) /\ Len(shown) \in Nat
        /\ Len(events) \in Nat /\ InOrder
    BY DEF StreamInv, Stream!TypeOK
  <2>2. \A i \in DOMAIN shown : i \in 1..Handed /\ Line(i) = shown[i]
    BY <2>1 DEF Handed, Line
  <2>3. \A i \in DOMAIN shown : \A j \in 1..i - 1 : j \in DOMAIN shown
    BY <2>1
  <2>4. ASSUME NEW i \in DOMAIN shown
        PROVE  /\ shown[i][2] = 1 \/ \E j \in 1..i - 1 : shown[j] = <<shown[i][1], shown[i][2] - 1>>
               /\ \A j \in 1..i - 1 : shown[j][1] = shown[i][1] => shown[j][2] < shown[i][2]
    <3>1. /\ Line(i)[2] = 1 \/ \E j \in 1..i - 1 : Line(j) = <<Line(i)[1], Line(i)[2] - 1>>
          /\ \A j \in 1..i - 1 : Line(j)[1] = Line(i)[1] => Line(j)[2] < Line(i)[2]
      BY <2>1, <2>2 DEF InOrder
    <3>2. Line(i) = shown[i] /\ \A j \in 1..i - 1 : Line(j) = shown[j]
      BY <2>2, <2>3
    <3> QED
      BY <3>1, <3>2
  <2> QED
    BY <2>4 DEF Stream!NoGap
<1> QED
  BY <1>1, <1>2, <1>3, PTL DEF Stream!Spec

\* The same of what the runs check.
THEOREM StreamHoldsThroughout == ASSUME StreamBounded PROVE SumSpec => []StreamIsTrue
<1>1. SumInit => Stream!Init
  BY DEF SumInit
<1>2. [SumNext]_sumVars => [Stream!Next]_Stream!vars
  BY DEF SumNext, sumVars, streamVars, Stream!vars, Stream!process, Stream!pumps
<1>3. Stream!TypeOK /\ Stream!NoGap /\ Stream!EndTellsTheTruth => StreamIsTrue
  BY DEF StreamIsTrue
<1>4. Stream!Spec => [](Stream!TypeOK /\ Stream!NoGap /\ Stream!EndTellsTheTruth)
  BY StreamHolds, PTL
<1> QED
  BY <1>1, <1>2, <1>3, <1>4, PTL DEF SumSpec, Stream!Spec

-----------------------------------------------------------------------------
\* The bound is a number, and an attempt to connect is made.
StartBounded == Attempts \in Nat \ {0} /\ MaxTroubles \in Nat

\* No request to configure is under way.
Quiet == \A r \in Requests : saving[r] = "none"

\* A version is recorded with its statements or not at all; and only a store that
\* does not understand the first administrator has refused a start, and refuses the
\* next until somebody else has filled it.
Resumed ==
  /\ applied = schema
  /\ ended = "refused" =>
       /\ store = "postgres" /\ file = "postgres" /\ startPc # "serving"
       /\ ~users["postgres"] /\ startPc # "seed"
  /\ startPc \in {"connect", "migrate", "admin", "seed"} /\ store = "postgres"
       => file = "postgres"

\* Configurations are written while the process serves; one that no other has
\* overlapped is alone, and has the file as it should be.
Written ==
  /\ startPc # "serving" => Quiet
  /\ \A r \in written : saving[r] # "none"
  /\ \A r \in clean :
       /\ saving[r] # "none" /\ \A q \in Requests \ {r} : saving[q] = "none"
       /\ file = IF r \in written THEN saving[r] ELSE "empty"
  /\ ~mixed => \A r \in Requests : saving[r] # "none" => r \in clean

\* Otherwise the file names what was wanted, or nobody has wanted anything yet; and so
\* does a start that has read it.
Configured ==
  /\ Written
  /\ ~cut /\ ~mixed /\ Quiet => file = wanted \/ (file = "absent" /\ wanted = "db_path")
  /\ Start!OpensTheConfigured

StartInv == Start!TypeOK /\ Resumed /\ Configured

\* A fresh machine.
LEMMA StartBegins == ASSUME StartBounded, Start!Init PROVE StartInv
<1>1. users \in [Start!Stores -> BOOLEAN]
  BY DEF Start!Init
<1>2. applied \in [Start!Stores -> SUBSET Versions] /\ schema = applied
  BY DEF Start!Init
<1>3. seeded \in [Start!Stores -> BOOLEAN]
  BY DEF Start!Init
<1>4. /\ file = "absent" /\ saving = [r \in Requests |-> "none"] /\ written = {}
      /\ startPc = "down" /\ store = "db_path" /\ clean = {}
      /\ attempt = 0 /\ startUp = TRUE /\ ended = "signal"
      /\ wanted = "db_path" /\ cut = FALSE /\ mixed = FALSE /\ startTroubles = 0
  BY DEF Start!Init
<1>5. Start!TypeOK
  <2>1. startUp \in BOOLEAN /\ cut \in BOOLEAN /\ mixed \in BOOLEAN
    BY <1>4
  <2> QED
    BY <1>1, <1>2, <1>3, <1>4, <2>1 DEF StartBounded, Start!TypeOK, Start!Stores
<1>6. Resumed
  BY <1>2, <1>4 DEF Resumed
<1>7. Configured
  BY <1>4 DEF Configured, Written, Quiet, Start!OpensTheConfigured
<1> QED
  BY <1>5, <1>6, <1>7 DEF StartInv

\* Every step keeps the types.
LEMMA StartTypeStep ==
  ASSUME StartBounded, StartInv, [Start!Next]_Start!vars
  PROVE  Start!TypeOK'
<1> USE DEF StartBounded, StartInv, Start!TypeOK, Start!Stores, Start!data, Start!requests, Start!history,
            Start!Trouble, Start!Goto, Start!End
<1>1. CASE Start!Boot \/ Start!SaveDefault \/ Start!Load
  BY <1>1 DEF Start!Boot, Start!SaveDefault, Start!Load
<1>2. CASE Start!Connect \/ Start!ConnectFails \/ Start!Migrated \/ Start!Serve
  BY <1>2 DEF Start!Connect, Start!ConnectFails, Start!Migrated, Start!Serve
<1>3. ASSUME NEW v \in Versions, Start!ApplyMigration(v) PROVE Start!TypeOK'
  BY <1>3 DEF Start!ApplyMigration
<1>4. ASSUME NEW v \in Versions, Start!MigrationRefused(v) PROVE Start!TypeOK'
  BY <1>4 DEF Start!MigrationRefused
<1>5. CASE Start!EnsureAdmin
  <2>1. users' \in [Start!Stores -> BOOLEAN]
    BY <1>5 DEF Start!EnsureAdmin
  <2>2. /\ startPc' \in {"seed", "down"} /\ saving' \in {saving, [r \in Requests |-> "none"]}
        /\ written' \in {written, {}} /\ clean' \in {clean, {}}
        /\ attempt' \in {attempt, 0} /\ ended' \in {ended, "refused"}
        /\ UNCHANGED <<file, store, startUp, applied, schema, seeded, wanted, cut, mixed,
                       startTroubles>>
    BY <1>5 DEF Start!EnsureAdmin
  <2> QED
    BY <2>1, <2>2
<1>6. CASE Start!Seed \/ Start!DeleteProjects
  <2>1. seeded' \in [Start!Stores -> BOOLEAN]
    BY <1>6 DEF Start!Seed, Start!DeleteProjects
  <2>2. startTroubles' \in 0..MaxTroubles
    BY <1>6 DEF Start!Seed, Start!DeleteProjects
  <2>3. UNCHANGED <<file, saving, written, clean, startPc, store, attempt, startUp, applied,
                    schema, users, ended, wanted, cut, mixed>>
    BY <1>6 DEF Start!Seed, Start!DeleteProjects
  <2> QED
    BY <2>1, <2>2, <2>3
<1>7. CASE Start!Stop
  BY <1>7 DEF Start!Stop
<1>8. CASE Start!FallBack \/ Start!Crash
  <2>1. cut' \in BOOLEAN
    BY <1>8 DEF Start!FallBack, Start!Crash
  <2>2. startTroubles' \in 0..MaxTroubles
    BY <1>8 DEF Start!FallBack, Start!Crash
  <2>3. /\ file' \in {file, "absent", "empty", "torn"}
        /\ saving' \in {saving, [r \in Requests |-> "none"]}
        /\ written' \in {written, {}} /\ clean' \in {clean, {}}
        /\ startPc' \in {startPc, "migrate", "down"} /\ store' \in {store, "db_path"}
        /\ attempt' \in {attempt, 0} /\ ended' \in {ended, "fault"}
        /\ UNCHANGED <<startUp, applied, schema, users, seeded, wanted, mixed>>
    BY <1>8 DEF Start!FallBack, Start!Crash
  <2> QED
    BY <2>1, <2>2, <2>3
<1>9. CASE Start!Outage \/ Start!Recover
  <2>1. startUp' \in BOOLEAN
    BY <1>9 DEF Start!Outage, Start!Recover
  <2>2. startTroubles' \in 0..MaxTroubles
    BY <1>9 DEF Start!Outage, Start!Recover
  <2>3. UNCHANGED <<file, saving, written, clean, startPc, store, attempt, applied, schema, users,
                    seeded, ended, wanted, cut, mixed>>
    BY <1>9 DEF Start!Outage, Start!Recover
  <2> QED
    BY <2>1, <2>2, <2>3
<1>10. ASSUME NEW r \in Requests, NEW type \in {"sqlite", "postgres", "supabase"},
              Start!Configure(r, type)
       PROVE  Start!TypeOK'
  <2>1. mixed' \in BOOLEAN
    BY <1>10 DEF Start!Configure
  <2>2. /\ saving' \in [Requests -> Start!Stores \union {"none"}] /\ file' = "empty"
        /\ clean' \in SUBSET Requests
        /\ UNCHANGED <<written, startPc, store, attempt, startUp, applied, schema, users, seeded,
                       ended, wanted, cut, startTroubles>>
    BY <1>10 DEF Start!Configure, Start!ToConfig
  <2> QED
    BY <2>1, <2>2
<1>11. ASSUME NEW r \in Requests, Start!WriteConfig(r) PROVE Start!TypeOK'
  BY <1>11 DEF Start!WriteConfig
<1>12. ASSUME NEW r \in Requests, Start!Saved(r) PROVE Start!TypeOK'
  <2>1. cut' \in BOOLEAN /\ mixed' \in BOOLEAN
    BY <1>12 DEF Start!Saved
  <2>2. /\ saving' \in [Requests -> Start!Stores \union {"none"}]
        /\ written' \in SUBSET Requests /\ clean' \in SUBSET Requests
        /\ UNCHANGED <<file, startPc, store, attempt, startUp, applied, schema, users, seeded,
                       ended, startTroubles>>
    BY <1>12 DEF Start!Saved
  <2>3. wanted' \in Start!Stores
    BY <1>12 DEF Start!Saved, Configured, Written
  <2> QED
    BY <2>1, <2>2, <2>3
<1>13. ASSUME NEW r \in Requests, Start!SaveFails(r) PROVE Start!TypeOK'
  BY <1>13 DEF Start!SaveFails
<1>14. CASE UNCHANGED Start!vars
  BY <1>14 DEF Start!vars
<1> QED
  BY <1>1, <1>2, <1>3, <1>4, <1>5, <1>6, <1>7, <1>8, <1>9, <1>10, <1>11, <1>12, <1>13, <1>14
  DEF Start!Next, Start!Starting

\* Every step keeps what a killed start leaves behind fit for the next.
LEMMA ResumedStep ==
  ASSUME StartInv, [Start!Next]_Start!vars
  PROVE  Resumed'
<1> USE DEF StartInv, Start!TypeOK, Start!Stores, Resumed, Start!data, Start!requests,
            Start!history, Start!Trouble, Start!Goto, Start!End
<1>1. CASE Start!Boot \/ Start!SaveDefault \/ Start!Load \/ Start!FallBack
  BY <1>1 DEF Start!Boot, Start!SaveDefault, Start!Load, Start!FallBack
<1>2. CASE Start!Connect \/ Start!ConnectFails \/ Start!Migrated \/ Start!Serve
  BY <1>2 DEF Start!Connect, Start!ConnectFails, Start!Migrated, Start!Serve
<1>3. ASSUME NEW v \in Versions, Start!ApplyMigration(v) PROVE Resumed'
  BY <1>3 DEF Start!ApplyMigration
<1>4. ASSUME NEW v \in Versions, Start!MigrationRefused(v) PROVE FALSE
  BY <1>4 DEF Start!MigrationRefused, Start!NextVersion, Start!Fits
<1>5. CASE Start!EnsureAdmin
  <2>1. CASE users[store] \/ Start!Understands(store)
    <3>1. ended # "refused"
      BY <1>5, <2>1 DEF Start!EnsureAdmin, Start!Understands
    <3> QED
      BY <1>5, <2>1, <3>1 DEF Start!EnsureAdmin
  <2>2. CASE ~(users[store] \/ Start!Understands(store))
    <3>1. store = "postgres" /\ startPc = "admin" /\ UNCHANGED <<store, file, users>>
      BY <1>5, <2>2 DEF Start!EnsureAdmin, Start!Understands
    <3>2. file = "postgres"
      BY <3>1
    <3> QED
      BY <1>5, <2>2, <3>1, <3>2 DEF Start!EnsureAdmin
  <2> QED
    BY <2>1, <2>2
<1>6. CASE Start!Seed \/ Start!DeleteProjects
  BY <1>6 DEF Start!Seed, Start!DeleteProjects
<1>7. CASE Start!Stop \/ Start!Crash
  BY <1>7 DEF Start!Stop, Start!Crash
<1>8. CASE Start!Outage \/ Start!Recover
  BY <1>8 DEF Start!Outage, Start!Recover
<1>9. ASSUME NEW r \in Requests, NEW type \in {"sqlite", "postgres", "supabase"},
             Start!Configure(r, type)
      PROVE  Resumed'
  BY <1>9 DEF Start!Configure
<1>10. ASSUME NEW r \in Requests, Start!WriteConfig(r) \/ Start!Saved(r) \/ Start!SaveFails(r)
       PROVE  Resumed'
  <2>1. startPc = "serving"
    BY <1>10 DEF Configured, Written, Quiet, Start!WriteConfig, Start!Saved, Start!SaveFails
  <2>2. UNCHANGED <<startPc, store, applied, schema, users, ended>>
    BY <1>10 DEF Start!WriteConfig, Start!Saved, Start!SaveFails
  <2> QED
    BY <2>1, <2>2
<1>11. CASE UNCHANGED Start!vars
  BY <1>11 DEF Start!vars
<1> QED
  BY <1>1, <1>2, <1>3, <1>4, <1>5, <1>6, <1>7, <1>8, <1>9, <1>10, <1>11
  DEF Start!Next, Start!Starting

\* Where nothing is under way, nothing is marked written or alone.
LEMMA QuietIsBare == ASSUME StartInv, Quiet PROVE written = {} /\ clean = {}
BY DEF StartInv, Start!TypeOK, Configured, Written, Quiet

\* A crash in the middle of a write cuts it short.
LEMMA CrashCuts == ASSUME Start!Crash, ~cut' PROVE ~cut /\ file' = file /\ Quiet
BY Zenon DEF Start!Crash, Quiet

\* Every step keeps the account of who writes the file.
LEMMA WrittenStep ==
  ASSUME StartInv, [Start!Next]_Start!vars
  PROVE  Written'
<1> USE DEF StartInv, Start!TypeOK, Start!Stores, Configured, Written, Quiet, Start!data,
            Start!requests, Start!history, Start!Trouble, Start!Goto, Start!End
<1>1. CASE Start!Boot \/ Start!SaveDefault \/ Start!Load \/ Start!FallBack \/ Start!Connect
  BY <1>1 DEF Start!Boot, Start!SaveDefault, Start!Load, Start!FallBack, Start!Connect
<1>2. CASE Start!ConnectFails \/ Start!Migrated \/ Start!Serve \/ Start!EnsureAdmin
  BY <1>2 DEF Start!ConnectFails, Start!Migrated, Start!Serve, Start!EnsureAdmin
<1>3. ASSUME NEW v \in Versions, Start!ApplyMigration(v) \/ Start!MigrationRefused(v)
      PROVE  Written'
  BY <1>3 DEF Start!ApplyMigration, Start!MigrationRefused, Start!NextVersion
<1>4. CASE Start!Seed \/ Start!DeleteProjects \/ Start!Outage \/ Start!Recover
  BY <1>4 DEF Start!Seed, Start!DeleteProjects, Start!Outage, Start!Recover
<1>5. CASE Start!Stop \/ Start!Crash
  BY <1>5 DEF Start!Stop, Start!Crash
<1>6. ASSUME NEW r \in Requests, NEW type \in {"sqlite", "postgres", "supabase"},
             Start!Configure(r, type)
      PROVE  Written'
  <2>1. /\ startPc = "serving" /\ startPc' = startPc /\ saving[r] = "none" /\ r \notin written
        /\ file' = "empty" /\ written' = written
        /\ saving'[r] # "none" /\ \A q \in Requests \ {r} : saving'[q] = saving[q]
    BY <1>6 DEF Start!Configure, Start!ToConfig
  <2>2. CASE Quiet
    <3>1. clean' = {r}
      BY <1>6, <2>2 DEF Start!Configure
    <3> QED
      BY <2>1, <2>2, <3>1
  <2>3. CASE ~Quiet
    <3>1. clean' = {} /\ mixed'
      BY <1>6, <2>3 DEF Start!Configure
    <3> QED
      BY <2>1, <3>1
  <2> QED
    BY <2>2, <2>3
<1>7. ASSUME NEW r \in Requests, Start!WriteConfig(r) PROVE Written'
  <2>1. /\ saving[r] # "none" /\ r \notin written /\ written' = written \union {r}
        /\ UNCHANGED <<saving, clean, startPc, mixed>>
    BY <1>7 DEF Start!WriteConfig
  <2>2. r \in clean => file' = saving[r]
    BY <1>7 DEF Start!WriteConfig
  <2> QED
    BY <2>1, <2>2
<1>8. ASSUME NEW r \in Requests, Start!Saved(r) PROVE Written'
  <2>1. /\ saving[r] # "none" /\ saving'[r] = "none" /\ written' = written \ {r}
        /\ clean' = clean \ {r} /\ \A q \in Requests \ {r} : saving'[q] = saving[q]
        /\ UNCHANGED <<file, startPc>>
    BY <1>8 DEF Start!Saved
  <2>2. CASE r \in clean
    BY <2>1, <2>2
  <2>3. CASE r \notin clean
    <3>1. mixed'
      BY <1>8, <2>1, <2>3 DEF Start!Saved
    <3> QED
      BY <2>1, <2>3, <3>1
  <2> QED
    BY <2>2, <2>3
<1>9. ASSUME NEW r \in Requests, Start!SaveFails(r) PROVE Written'
  <2>1. /\ saving[r] # "none" /\ saving'[r] = "none" /\ r \notin written /\ clean' = clean \ {r}
        /\ \A q \in Requests \ {r} : saving'[q] = saving[q]
        /\ UNCHANGED <<written, startPc, mixed>>
    BY <1>9 DEF Start!SaveFails
  <2>2. clean' = {}
    BY <2>1
  <2> QED
    BY <2>1, <2>2
<1>10. CASE UNCHANGED Start!vars
  BY <1>10 DEF Start!vars
<1> QED
  BY <1>1, <1>2, <1>3, <1>4, <1>5, <1>6, <1>7, <1>8, <1>9, <1>10 DEF Start!Next, Start!Starting

\* Every step keeps the store that was configured the one that is opened.
LEMMA ConfiguredStep ==
  ASSUME StartInv, [Start!Next]_Start!vars
  PROVE  Configured'
<1> USE DEF StartInv, Start!TypeOK, Start!Stores, Configured, Start!OpensTheConfigured,
            Quiet, Start!data, Start!requests, Start!history, Start!Trouble, Start!Goto, Start!End
<1>w. Written'
  BY WrittenStep
<1>1. CASE Start!Boot \/ Start!SaveDefault \/ Start!Load \/ Start!FallBack
  BY <1>1, <1>w DEF Start!Boot, Start!SaveDefault, Start!Load, Start!FallBack, Written
<1>2. CASE Start!Connect \/ Start!ConnectFails \/ Start!Migrated \/ Start!Serve
  BY <1>2, <1>w DEF Start!Connect, Start!ConnectFails, Start!Migrated, Start!Serve, Written
<1>3. ASSUME NEW v \in Versions, Start!ApplyMigration(v) \/ Start!MigrationRefused(v)
      PROVE  Configured'
  BY <1>3, <1>w DEF Start!ApplyMigration, Start!MigrationRefused, Start!NextVersion, Written
<1>4. CASE Start!EnsureAdmin \/ Start!Seed \/ Start!DeleteProjects
  BY <1>4, <1>w DEF Start!EnsureAdmin, Start!Seed, Start!DeleteProjects, Written
<1>5. CASE Start!Stop
  BY <1>5, <1>w DEF Start!Stop
<1>6. CASE Start!Crash
  <2>1. startPc' = "down" /\ UNCHANGED <<wanted, mixed>>
    BY <1>6 DEF Start!Crash
  <2>2. ~cut' => ~cut /\ file' = file /\ Quiet
    BY <1>6, CrashCuts
  <2> QED
    BY <1>w, <2>1, <2>2
<1>7. CASE Start!Outage \/ Start!Recover
  BY <1>7, <1>w DEF Start!Outage, Start!Recover
<1>8. ASSUME NEW r \in Requests, NEW type \in {"sqlite", "postgres", "supabase"},
             Start!Configure(r, type)
      PROVE  Configured'
  BY <1>8, <1>w DEF Start!Configure, Start!ToConfig
<1>9. ASSUME NEW r \in Requests, Start!WriteConfig(r) PROVE Configured'
  BY <1>9, <1>w DEF Start!WriteConfig, Written
<1>10. ASSUME NEW r \in Requests, Start!Saved(r) PROVE Configured'
  <2>1. startPc = "serving" /\ UNCHANGED <<startPc, file>> /\ wanted' = saving[r]
    BY <1>10 DEF Start!Saved, Written
  <2>2. ~mixed' => file' = wanted'
    <3>1. CASE r \in clean
      BY <1>10, <2>1, <3>1 DEF Written, Start!Saved
    <3>2. CASE r \notin clean
      BY <1>10, <3>2 DEF Written, Start!Saved
    <3> QED
      BY <3>1, <3>2
  <2> QED
    BY <1>w, <2>1, <2>2
<1>11. ASSUME NEW r \in Requests, Start!SaveFails(r) PROVE Configured'
  BY <1>11, <1>w DEF Start!SaveFails, Written
<1>12. CASE UNCHANGED Start!vars
  BY <1>12, <1>w DEF Start!vars
<1> QED
  BY <1>1, <1>2, <1>3, <1>4, <1>5, <1>6, <1>7, <1>8, <1>9, <1>10, <1>11, <1>12
  DEF Start!Next, Start!Starting

\* Types, that no killed start refuses a later one on its file, and that a start opens the
\* store that was configured last: unless requests to configure overlapped or a write of the
\* file was cut short, and none was alone with it since.
THEOREM StartHolds ==
  ASSUME StartBounded
  PROVE  Start!Spec => []Start!TypeOK /\ []Start!ResumesAnywhere /\ []Start!OpensTheConfigured
<1>1. Start!Init => StartInv
  BY StartBegins
<1>2. StartInv /\ [Start!Next]_Start!vars => StartInv'
  BY StartTypeStep, ResumedStep, ConfiguredStep DEF StartInv
<1>3. StartInv => Start!TypeOK /\ Start!ResumesAnywhere /\ Start!OpensTheConfigured
  BY DEF StartInv, Resumed, Configured, Start!ResumesAnywhere
<1> QED
  BY <1>1, <1>2, <1>3, PTL DEF Start!Spec

\* The same of what the runs check.
THEOREM StartHoldsThroughout == ASSUME StartBounded PROVE SumSpec => []StartRecovers
<1>1. SumInit => Start!Init
  BY DEF SumInit
<1>2. [SumNext]_sumVars => [Start!Next]_Start!vars
  BY DEF SumNext, sumVars, startVars, Start!vars, Start!data, Start!requests, Start!history
<1>3. Start!TypeOK /\ Start!ResumesAnywhere /\ Start!OpensTheConfigured => StartRecovers
  BY DEF StartRecovers
<1> QED
  BY <1>1, <1>2, <1>3, StartHolds, PTL DEF SumSpec, Start!Spec

=============================================================================
