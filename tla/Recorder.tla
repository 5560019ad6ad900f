------------------------------ MODULE Recorder ------------------------------
(***************************************************************************)
(* What is measured on the dashboard's own machine, from the sample to the *)
(* signal: the rings of the recorder (sysinfo/history.go), its loop        *)
(* (runRecorder of cmd/api/main.go), and the loop that forwards the latest *)
(* sample of each ring to the alert evaluator (alerts/system_tick.go).     *)
(* The two loops share the rings and nothing else, each with a ticker of   *)
(* its own.                                                                *)
(***************************************************************************)
EXTENDS Integers, Sequences

CONSTANTS
  Capacity,     \* samples a ring keeps
  TickEvery,    \* tickInterval of runRecorder
  CaptureMax,   \* the deadline of one capture
  EmitEvery,    \* SystemTickConfig.Interval
  MaxNow,       \* bound on the clock
  MaxTroubles   \* bound on captures that fail and evaluations that take time

VARIABLES
  now,
  tickAt, emitAt,  \* when the tickers fire next
  capturing,       \* the stamp of the capture under way, or Nothing
  ring,            \* metric -> its samples, the oldest first
  snapshot,        \* what the emission under way works on
  judged,          \* the clock it judges ages by
  todo,            \* the metrics it has still to look at
  told,            \* history: metric -> the samples forwarded, in order
  taken,           \* history: the stamps of all ticks, in order
  round,           \* history: what the emission under way has forwarded
  slow,            \* history: an evaluation took time
  troubles

recorder == <<tickAt, capturing, ring, taken>>
emitter == <<emitAt, snapshot, judged, todo, told, round>>
vars == <<now, recorder, emitter, slow, troubles>>

Nothing == -1

\* The order in which they are forwarded.  The network's ring is not.
Forwarded == <<"cpu", "memory", "disk">>
Metrics == {"cpu", "memory", "disk"}

\* cfg.MaxSampleAge, as RunSystemTick sets it.
MaxSampleAge == 2 * EmitEvery

Trouble == troubles < MaxTroubles /\ troubles' = troubles + 1

\* The first capture is under way at once; the two tickers have any phase.
Init ==
  /\ now = 0 /\ capturing = 0 /\ taken = <<0>>
  /\ tickAt \in TickEvery..TickEvery + CaptureMax /\ emitAt \in 1..EmitEvery
  /\ ring = [m \in Metrics |-> <<>>] /\ snapshot = ring
  /\ judged = 0 /\ todo = <<>> /\ round = {}
  /\ told = [m \in Metrics |-> <<>>] /\ slow = FALSE /\ troubles = 0

\* The tickers are prompt, a capture is ended by its deadline.  What an
\* evaluation waits for is not bounded.
Advance ==
  /\ now < MaxNow /\ now' = now + 1
  /\ IF capturing = Nothing THEN now < tickAt ELSE now < capturing + CaptureMax
  /\ IF todo = <<>> THEN now < emitAt /\ UNCHANGED <<slow, troubles>>
                    ELSE Trouble /\ slow' = TRUE
  /\ UNCHANGED <<recorder, emitter>>

-----------------------------------------------------------------------------
(* The recorder.                                                           *)

\* Slip: a full ring makes room at its end.
AppendInPlace(buf, s) ==
  IF Len(buf) >= Capacity THEN [buf EXCEPT ![Len(buf)] = s] ELSE Append(buf, s)

\* appendBounded: the oldest sample is shifted out.
AppendBounded(buf, s) == Append(IF Len(buf) >= Capacity THEN Tail(buf) ELSE buf, s)

\* runRecorder starts a tick: the stamp is taken before anything is measured.
BeginTick ==
  /\ capturing = Nothing /\ now >= tickAt
  /\ capturing' = now /\ tickAt' = tickAt + TickEvery /\ taken' = Append(taken, now)
  /\ UNCHANGED <<now, ring, emitter, slow, troubles>>

\* defaultCapture: what cannot be measured is a zero with the stamp.
Capture(m, failed) == [at |-> capturing, measured |-> m \notin failed]

\* Tick, under the recorder's lock: a sample to every ring.
EndTick ==
  /\ capturing # Nothing
  /\ \E failed \in {{}} \union {{m} : m \in Metrics} :
       /\ IF failed = {} THEN UNCHANGED troubles ELSE Trouble
       /\ ring' = [m \in Metrics |-> AppendBounded(ring[m], Capture(m, failed))]
  /\ capturing' = Nothing
  /\ UNCHANGED <<now, tickAt, taken, emitter, slow>>

-----------------------------------------------------------------------------
(* The system tick.                                                        *)

\* RunSystemTick, and Snapshot under the recorder's lock: a copy of every ring.
\* A tick that fires during an emission is kept, a second one is dropped.
BeginEmit ==
  /\ todo = <<>> /\ now >= emitAt
  /\ emitAt' = emitAt + EmitEvery * (1 + (now - emitAt) \div EmitEvery)
  /\ snapshot' = ring /\ judged' = now /\ todo' = Forwarded /\ round' = {}
  /\ UNCHANGED <<now, recorder, told, slow, troubles>>

\* Slip: the snapshot holds the rings themselves.
LatestOfRing(m) == ring[m][Len(ring[m])]

\* The last sample of a ring, as the snapshot has it.
Latest(m) == snapshot[m][Len(snapshot[m])]

\* Slip: half the age.
FreshShort(m) == snapshot[m] # <<>> /\ judged - Latest(m).at <= EmitEvery

Fresh(m) == snapshot[m] # <<>> /\ judged - Latest(m).at <= MaxSampleAge

\* emitFromRecorder: one signal after the other.
Emit ==
  /\ todo # <<>> /\ todo' = Tail(todo)
  /\ LET m == Head(todo)
     IN  IF Fresh(m)
         THEN /\ told' = [told EXCEPT ![m] = Append(@, Latest(m))]
              /\ round' = round \union {Latest(m).at}
         ELSE UNCHANGED <<told, round>>
  /\ UNCHANGED <<now, recorder, emitAt, snapshot, judged, slow, troubles>>

Next == Advance \/ BeginTick \/ EndTick \/ BeginEmit \/ Emit

Spec == Init /\ [][Next]_vars

-----------------------------------------------------------------------------
(* Properties.                                                             *)

\* Every variable has its type.
TypeOK ==
  LET samples == [at : 0..MaxNow, measured : BOOLEAN]
      Ok(seq) == \A i \in DOMAIN seq : seq[i] \in samples
  IN  /\ now \in 0..MaxNow /\ tickAt \in Nat /\ emitAt \in Nat /\ judged \in 0..now
      /\ capturing \in {Nothing} \union 0..now
      /\ \A m \in Metrics : Ok(ring[m]) /\ Ok(snapshot[m]) /\ Ok(told[m])
      /\ \A i \in DOMAIN taken : taken[i] \in 0..now
      /\ slow \in BOOLEAN /\ troubles \in 0..MaxTroubles

\* A ring holds the last ticks without a gap, in their order, as many as it has
\* room for: what the history endpoint charts and what is forwarded.
RingIsLatest ==
  LET done == IF capturing = Nothing THEN Len(taken) ELSE Len(taken) - 1
      kept == IF done < Capacity THEN done ELSE Capacity
  IN  \A m \in Metrics :
        /\ Len(ring[m]) = kept
        /\ \A i \in 1..kept : ring[m][i].at = taken[done - kept + i]

\* The signals of one emission are of one tick, however long the evaluation of
\* the first took: the rings are copied together before any is evaluated.
OneTickPerRound == \A s, t \in round : s = t

\* Every sample is forwarded, before the next is taken, where no evaluation
\* took time: no measured breach goes unseen.  It needs EmitEvery < TickEvery
\* - CaptureMax and CaptureMax <= EmitEvery.
EverySampleIsTold ==
  slow \/ \A i \in 1..Len(taken) - 1, m \in Metrics :
            now > taken[i + 1] => \E j \in DOMAIN told[m] : told[m][j].at = taken[i]

\* history.go calls a failed sub-call best-effort: what could not be measured is
\* not evaluated as a measurement.  (Not so: it is evaluated as zero.)
ZeroIsMeasured == \A m \in Metrics : \A j \in DOMAIN told[m] : told[m][j].measured

=============================================================================
