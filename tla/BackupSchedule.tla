--------------------------- MODULE BackupSchedule ---------------------------
(***************************************************************************)
(* When the backup scheduler runs (backup.go, Run and nextRun).  Time is   *)
(* counted in hours of elapsed time, as time.Add counts it; a local day    *)
(* has 24 of them, or 23 or 25 where daylight saving begins or ends during *)
(* its night.  A backup is shorter than the hour.                          *)
(***************************************************************************)
EXTENDS Integers, FiniteSets

CONSTANTS
  Days,       \* local days watched: 0..Days
  ShortDays,  \* those of 23 hours
  LongDays,   \* others, of 25 hours
  Hour        \* Service.HourLocal, as Run normalises it

\* Where the clock changes, an hour that every day has once, and not the last.
ASSUME ScheduleAssumption ==
  /\ Days \in Nat /\ Hour \in 0..23
  /\ ShortDays \subseteq 0..Days /\ LongDays \subseteq (0..Days) \ ShortDays
  /\ ShortDays \union LongDays # {} => Hour \in 3..22

VARIABLES
  now,     \* elapsed hours
  up,      \* the process runs
  next,    \* when the scheduler's timer fires
  runs,    \* history: local day -> backups started on it
  away     \* history: days at whose hour the process was down, or went down

vars == <<now, up, next, runs, away>>

\* How far the clock on the wall is ahead of 24-hour days when day d begins.
Shift(d) ==
  Cardinality({e \in ShortDays : e < d}) - Cardinality({e \in LongDays : e < d})

\* Midnight of day d, and the hour `Hour` of day d.
Midnight(d) == 24 * d - Shift(d)
Candidate(d) == Midnight(d + 1) - 24 + Hour

\* The local day of t.
DayOf(t) == CHOOSE d \in 0..Days : Midnight(d) <= t /\ t < Midnight(d + 1)

\* Slip: tomorrow's slot, without a look at today's.
NextRunTomorrow(t) == Candidate(DayOf(t)) + 24

\* Today's slot, or 24 hours after it.
NextRun(t) ==
  LET candidate == Candidate(DayOf(t))
  IN  IF candidate > t THEN candidate ELSE candidate + 24

\* The hour of day d, and the one after it where an hour is left out: a timer that
\* was set the day before comes an hour late.
Window(d) == {Candidate(d)} \union {t \in {Candidate(d) + 1} : d \in ShortDays}
Missed(t) == {d \in 0..Days : t \in Window(d)}

Init ==
  /\ now \in 0..(Midnight(1) - 1)
  /\ up = TRUE /\ next = NextRun(now)
  /\ runs = [d \in 0..Days |-> 0]
  /\ away = {}

\* An hour passes.
Tick ==
  /\ (up => now < next) /\ now + 1 < Midnight(Days + 1)
  /\ now' = now + 1
  /\ away' = IF up THEN away ELSE away \union Missed(now + 1)
  /\ UNCHANGED <<up, next, runs>>

RunOnce ==
  /\ up /\ now = next
  /\ runs' = [runs EXCEPT ![DayOf(now)] = @ + 1]
  /\ next' = NextRun(now)
  /\ UNCHANGED <<now, up, away>>

\* The dashboard ends at any time, and stays down for any time.
ProcessEnds ==
  /\ up /\ up' = FALSE
  /\ away' = away \union Missed(now)
  /\ UNCHANGED <<now, next, runs>>

ProcessStarts ==
  /\ ~up /\ up' = TRUE
  /\ next' = NextRun(now)
  /\ UNCHANGED <<now, runs, away>>

Next == Tick \/ RunOnce \/ ProcessEnds \/ ProcessStarts

Spec == Init /\ [][Next]_vars

-----------------------------------------------------------------------------
\* backup.go: "executing one backup at the configured local hour each day": of
\* the local days that have ended, one that began with the scheduler set saw
\* a backup unless the process was down or went down at its hour, whatever
\* restarts there were before and after; and none saw a second but a day of 25
\* hours, which can see two.
OncePerDay ==
  \A d \in 1..Days : d < DayOf(now) =>
    /\ runs[d] = 0 => d \in away
    /\ runs[d] <= IF d \in LongDays THEN 2 ELSE 1

\* The same words taken by themselves: a process that is there at the hour backs
\* up once.  (Not so on a day of 25 hours.)
ExactlyOnce == \A d \in 1..Days : d < DayOf(now) /\ d \notin away => runs[d] = 1

=============================================================================
