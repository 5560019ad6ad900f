------------------------------ MODULE LogStream ------------------------------
(***************************************************************************)
(* GET /docker/containers/:name/logs/stream (logsStream and pumpLogLines   *)
(* of handlers/docker.go, StreamLogs of docker/docker.go): docker logs -f, *)
(* a goroutine for each of its two outputs, one that waits for it, and the *)
(* handler, which shows lines until the process, the browser or the time   *)
(* ends the stream.                                                        *)
(***************************************************************************)
EXTENDS Naturals, Sequences

CONSTANTS
  Size,       \* lines the channel holds, 32
  MaxLines    \* bound on the lines of an output

Outputs == {"stdout", "stderr"}

VARIABLES
  docker,     \* the process
  printed,    \* output -> lines docker has written
  fetched,    \* output -> lines the goroutine has read from the pipe
  offered,    \* output -> lines it has handed over
  pump,       \* output -> whether its goroutine still reads
  events,     \* the channel of lines
  done,       \* whether the channel that stops the goroutines is closed
  exitCh,     \* what the waiting goroutine has sent; it closes the pipes first
  context,    \* the context of the stream
  gone,       \* whether the browser has left
  handler,    \* where the handler stands
  reason,     \* what the end frame says
  shown       \* lines that were written to the browser

process == <<docker, printed>>
pumps == <<fetched, offered, pump>>
vars == <<process, pumps, events, done, exitCh, context, gone, handler, reason, shown>>

None == "none"
Cancelled == IF context = "live" THEN "cancelled" ELSE context

Init ==
  /\ docker = None /\ printed = [o \in Outputs |-> 0]
  /\ fetched = printed /\ offered = printed /\ pump = [o \in Outputs |-> None]
  /\ events = <<>> /\ done = FALSE /\ exitCh = None
  /\ context = "live" /\ gone = FALSE /\ handler = "new" /\ reason = None /\ shown = <<>>

\* StreamLogs starts docker, or there is none.
Begin ==
  /\ handler = "new"
  /\ \/ /\ handler' = "streaming" /\ docker' = "running"
        /\ pump' = [o \in Outputs |-> "reading"]
     \/ handler' = "refused" /\ UNCHANGED <<docker, pump>>
  /\ UNCHANGED <<printed, fetched, offered, events, done, exitCh, context, gone, reason, shown>>

-----------------------------------------------------------------------------
(* docker logs, the browser and the clock.                                 *)

WriteLine(o) ==
  /\ docker = "running" /\ printed[o] < MaxLines
  /\ printed' = [printed EXCEPT ![o] = @ + 1]
  /\ UNCHANGED <<docker, pumps, events, done, exitCh, context, gone, handler, reason, shown>>

Exit ==
  /\ docker = "running" /\ docker' = "exited"
  /\ UNCHANGED <<printed, pumps, events, done, exitCh, context, gone, handler, reason, shown>>

\* Somebody else kills the process.
Signal ==
  /\ docker = "running" /\ docker' = "signalled"
  /\ UNCHANGED <<printed, pumps, events, done, exitCh, context, gone, handler, reason, shown>>

\* The request's context ends with the connection.
Leave ==
  /\ handler = "streaming" /\ ~gone /\ gone' = TRUE /\ context' = Cancelled
  /\ UNCHANGED <<process, pumps, events, done, exitCh, handler, reason, shown>>

\* dockerStreamCap
Deadline ==
  /\ handler = "streaming" /\ context = "live" /\ context' = "deadline"
  /\ UNCHANGED <<process, pumps, events, done, exitCh, gone, handler, reason, shown>>

\* Slip: exec.Command in place of exec.CommandContext, whose process is left alone.
KillNever ==
  /\ docker # "running" /\ context # "live" /\ docker' = "killed"
  /\ UNCHANGED <<printed, pumps, events, done, exitCh, context, gone, handler, reason, shown>>

\* exec.CommandContext: the process does not outlive its context.
KillByContext ==
  /\ docker = "running" /\ context # "live" /\ docker' = "killed"
  /\ UNCHANGED <<printed, pumps, events, done, exitCh, context, gone, handler, reason, shown>>

\* cmd.Wait closes the pipes, whatever is still in them.
Wait ==
  /\ docker \in {"exited", "killed", "signalled"} /\ exitCh = None /\ exitCh' = docker
  /\ UNCHANGED <<process, pumps, events, done, context, gone, handler, reason, shown>>

-----------------------------------------------------------------------------
(* The goroutines, pumpLogLines.                                           *)

\* The scanner fills its buffer.
Fetch(o) ==
  /\ pump[o] = "reading" /\ offered[o] = fetched[o] /\ exitCh = None
  /\ \E n \in fetched[o] + 1..printed[o] : fetched' = [fetched EXCEPT ![o] = n]
  /\ UNCHANGED <<process, offered, pump, events, done, exitCh, context, gone, handler,
                 reason, shown>>

\* Slip: a line is dropped when the channel is full.
OfferOrDrop(o) ==
  /\ pump[o] = "reading" /\ offered[o] < fetched[o]
  /\ events' = IF Len(events) < Size THEN Append(events, <<o, offered[o] + 1>>) ELSE events
  /\ offered' = [offered EXCEPT ![o] = @ + 1]
  /\ UNCHANGED <<process, fetched, pump, done, exitCh, context, gone, handler, reason, shown>>

Offer(o) ==
  /\ pump[o] = "reading" /\ offered[o] < fetched[o] /\ Len(events) < Size
  /\ events' = Append(events, <<o, offered[o] + 1>>)
  /\ offered' = [offered EXCEPT ![o] = @ + 1]
  /\ UNCHANGED <<process, fetched, pump, done, exitCh, context, gone, handler, reason, shown>>

Ends(o) == pump[o] = "reading" /\ pump' = [pump EXCEPT ![o] = "ended"]

\* The output has ended, its pipe is closed, or done is.
PumpEnds(o) ==
  /\ Ends(o)
  /\ IF offered[o] < fetched[o] THEN done
     ELSE exitCh # None \/ (docker # "running" /\ fetched[o] = printed[o])
  /\ UNCHANGED <<process, fetched, offered, events, done, exitCh, context, gone, handler,
                 reason, shown>>

\* The next line is longer than the scanner's 8 KiB.
ScanFails(o) ==
  /\ Ends(o) /\ offered[o] < fetched[o]
  /\ UNCHANGED <<process, fetched, offered, events, done, exitCh, context, gone, handler,
                 reason, shown>>

-----------------------------------------------------------------------------
(* The handler: the select, in any order where several are ready.          *)

Show ==
  /\ events # <<>> /\ shown' = Append(shown, Head(events)) /\ events' = Tail(events)
  /\ handler \in {"streaming", "draining"}
  /\ UNCHANGED <<process, pumps, done, exitCh, context, gone, handler, reason>>

\* Slip: an exit is an exit.
ExitReasonPlain == "exit"

\* A killed process has no exit code.
ExitReason == IF exitCh = "exited" THEN "exit" ELSE "error"

\* drainSSEEvents shows what the channel holds, then the end frame follows.
Exited ==
  /\ handler = "streaming" /\ exitCh \in {"exited", "killed", "signalled"}
  /\ handler' = "draining" /\ reason' = ExitReason /\ exitCh' = "taken"
  /\ UNCHANGED <<process, pumps, events, done, context, gone, shown>>

Drained ==
  /\ handler = "draining" /\ events = <<>>
  /\ handler' = "ended" /\ done' = TRUE /\ context' = Cancelled
  /\ UNCHANGED <<process, pumps, events, exitCh, gone, reason, shown>>

\* cleanup, with the deferred cancel.
Cleanup(why) ==
  /\ handler = "streaming" /\ handler' = "ended" /\ reason' = why
  /\ done' = TRUE /\ context' = Cancelled
  /\ docker' = IF docker = "running" THEN "killed" ELSE docker
  /\ UNCHANGED <<printed, pumps, events, exitCh, gone, shown>>

Finish ==
  \/ gone /\ Cleanup("close")
  \/ context = "deadline" /\ Cleanup("timeout")

\* Between two steps gin's Stream sees for itself that the browser has left, and
\* returns: without the cleanup.
Return ==
  /\ handler = "streaming" /\ gone /\ handler' = "ended" /\ context' = Cancelled
  /\ UNCHANGED <<process, pumps, events, done, exitCh, gone, reason, shown>>

Next ==
  \/ Begin \/ Exit \/ Signal \/ Leave \/ Deadline \/ KillByContext \/ Wait
  \/ \E o \in Outputs : WriteLine(o) \/ Fetch(o) \/ Offer(o) \/ PumpEnds(o) \/ ScanFails(o)
  \/ Show \/ Exited \/ Drained \/ Finish \/ Return

Spec == Init /\ [][Next]_vars

\* The cap passes, a killed process ends, and so do the handler's own steps.
FairSpec ==
  /\ Spec
  /\ WF_vars(Deadline) /\ WF_vars(KillByContext) /\ WF_vars(Wait)
  /\ WF_vars(Finish) /\ WF_vars(Show \/ Drained)
  /\ \A o \in Outputs : WF_vars(PumpEnds(o))

-----------------------------------------------------------------------------
(* Properties.                                                             *)

\* Every variable has its type.
TypeOK ==
  LET counts == [Outputs -> 0..MaxLines]
      lines == Outputs \X (1..MaxLines)
  IN  /\ docker \in {None, "running", "exited", "killed", "signalled"}
      /\ printed \in counts /\ fetched \in counts /\ offered \in counts
      /\ pump \in [Outputs -> {None, "reading", "ended"}]
      /\ events \in Seq(lines) /\ Len(events) <= Size /\ shown \in Seq(lines)
      /\ done \in BOOLEAN /\ gone \in BOOLEAN
      /\ exitCh \in {None, "exited", "killed", "signalled", "taken"}
      /\ context \in {"live", "cancelled", "deadline"}
      /\ handler \in {"new", "refused", "streaming", "draining", "ended"}
      /\ reason \in {None, "exit", "error", "close", "timeout"}

\* The browser sees the beginning of each output, without a gap: a slow browser
\* makes docker wait, it loses no line in between.
NoGap ==
  \A i \in DOMAIN shown :
    LET o == shown[i][1]
        n == shown[i][2]
    IN  /\ n = 1 \/ \E j \in 1..i - 1 : shown[j] = <<o, n - 1>>
        /\ \A j \in 1..i - 1 : shown[j][1] = o => shown[j][2] < n

\* The end frame says why the stream ended: a process that was killed, by the end of
\* its own context or by somebody else, has not exited.
EndTellsTheTruth ==
  /\ reason = "exit" => docker = "exited"
  /\ reason = "error" => docker = "signalled" \/ (docker = "killed" /\ context # "live")
  /\ reason = "close" => gone
  /\ reason = "timeout" => context = "deadline"

\* docker.go: "killing the process (e.g. on client disconnect) is also the
\* caller's responsibility": every stream ends and leaves no process behind,
\* also where gin returns before the cleanup.
StreamIsReaped == handler = "streaming" ~> (handler = "ended" /\ docker # "running")

\* docker.go: "the goroutines exit when the caller cancels this context or the
\* cmd finishes on its own."  (Not so: where gin returns first, done stays open
\* and a goroutine waits for ever to hand over a line to a full channel.)
PumpsEnd == handler = "ended" ~> \A o \in Outputs : pump[o] = "ended"

\* docker.go, of drainSSEEvents: "flushes any buffered events on the channel before
\* the final end frame": what docker has written is shown.  (Not so: cmd.Wait
\* closes the pipes with lines in them, and the draining waits for nobody.)
EveryLineIsShown ==
  handler = "ended" /\ reason = "exit" =>
    \A o \in Outputs : printed[o] > 0 => \E i \in DOMAIN shown : shown[i] = <<o, printed[o]>>

=============================================================================
