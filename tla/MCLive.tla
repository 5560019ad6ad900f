-------------------------------- MODULE MCLive --------------------------------
(* Small instances of the parts that have to come to an end, each with the *)
(* fairness its module states, and the backup schedule, which this module  *)
(* extends.  A behaviour is one of a single part, the one in focus; the    *)
(* others rest.                                                            *)
EXTENDS BackupSchedule, TLC

CONSTANTS
  Polled, Handlers, NoTest, Size, MaxLines, Requests, Versions, Attempts, MaxTroubles

VARIABLES
  focus, status, enabled, remoteUp, remotePc, remoteListed, fails,
  lastEvent, test, streak, tested, crashes, faults, rule, triggered, breach,
  alertPc, down, lag, todo, alertListed, fired, healthy, skipped,
  alertTroubles, server, row, listen, tunnels, live, tunnelPc, op, id, addr,
  mine, raced, blind, tunnelTroubles, browser, socket, shell, draining,
  client, output, mu, closed, terminalDone, terminalHandler, terminalPump,
  reader, via, phase, ctx, event, commandPc, remote, heard, result, commandRuns,
  loaded, success, failed, commandTroubles, docker, printed, fetched,
  offered, streamPump, events, streamDone, exitCh, context, gone,
  streamHandler, reason, shown, file, saving, written, startPc, store, attempt,
  startUp, applied, schema, users, seeded, ended, wanted, cut, clean, mixed,
  startTroubles

Monitor == INSTANCE RemoteMonitor WITH
  Servers <- Polled, MaxParallel <- 1, MaxFailures <- 3, Testers <- {"r"},
  MaxCrashes <- 1, MaxFaults <- 1, up <- remoteUp, pc <- remotePc,
  listed <- remoteListed

Alert == INSTANCE Alerting WITH
  Projects <- {"p"}, Rules <- {1}, For <- <<1>>, Cooldown <- <<2>>,
  MaxLag <- 1, MaxTroubles <- 1, pc <- alertPc, listed <- alertListed,
  troubles <- alertTroubles

Tunnel == INSTANCE Tunnels WITH
  Ids <- {"t"}, Addrs <- {"local"}, Remote <- {}, MaxLive <- 2,
  MaxTroubles <- 0, pc <- tunnelPc, troubles <- tunnelTroubles

Term == INSTANCE Terminal WITH
  MaxOutput <- 2, done <- terminalDone, handler <- terminalHandler,
  pump <- terminalPump

Command == INSTANCE Commands WITH
  Hosts <- {"a", "b"}, MaxParallel <- 1, MaxTroubles <- 1, pc <- commandPc,
  runs <- commandRuns, troubles <- commandTroubles

Stream == INSTANCE LogStream WITH
  pump <- streamPump, done <- streamDone, handler <- streamHandler

Start == INSTANCE Startup WITH
  pc <- startPc, up <- startUp, troubles <- startTroubles

remoteVars == <<status, enabled, remoteUp, remotePc, remoteListed, fails,
                lastEvent, test, streak, tested, crashes, faults>>
alertVars == <<rule, triggered, breach, alertPc, down, lag, todo,
               alertListed, fired, healthy, skipped, alertTroubles>>
tunnelVars == <<server, row, listen, tunnels, live, tunnelPc, op, id, addr,
                mine, raced, blind, tunnelTroubles>>
terminalVars == <<browser, socket, shell, draining, client, output, mu,
                  closed, terminalDone, terminalHandler, terminalPump,
                  reader>>
commandVars == <<via, phase, ctx, event, commandPc, remote, heard, result,
                 commandRuns, loaded, success, failed, commandTroubles>>
streamVars == <<docker, printed, fetched, offered, streamPump, events,
                streamDone, exitCh, context, gone, streamHandler, reason,
                shown>>
startVars == <<file, saving, written, clean, startPc, store, attempt, startUp,
               applied, schema, users, seeded, ended, wanted, cut, mixed,
               startTroubles>>
scheduleVars == <<now, up, next, runs, away>>
sumVars == <<focus, remoteVars, alertVars, tunnelVars, terminalVars,
          commandVars, streamVars, startVars, scheduleVars>>

SumInit ==
  /\ focus \in {"remote", "alert", "tunnel", "terminal", "command",
              "stream", "start", "schedule"}
  /\ Monitor!Init /\ Alert!Init /\ Tunnel!Init /\ Term!Init
  /\ Command!Init /\ Stream!Init /\ Start!Init /\ Init
  /\ focus # "remote" => remoteUp = {}
  /\ focus # "start" => users = [s \in Start!Stores |-> FALSE]
  /\ focus # "schedule" => now = 0

SumNext ==
  /\ UNCHANGED focus
  /\ \/ /\ focus = "remote" /\ Monitor!Next
        /\ UNCHANGED <<alertVars, tunnelVars, terminalVars, commandVars,
                       streamVars, startVars, scheduleVars>>
     \/ /\ focus = "alert" /\ Alert!Next
        /\ UNCHANGED <<remoteVars, tunnelVars, terminalVars, commandVars,
                       streamVars, startVars, scheduleVars>>
     \/ /\ focus = "tunnel" /\ Tunnel!Next
        /\ UNCHANGED <<remoteVars, alertVars, terminalVars, commandVars,
                       streamVars, startVars, scheduleVars>>
     \/ /\ focus = "terminal" /\ Term!Next
        /\ UNCHANGED <<remoteVars, alertVars, tunnelVars, commandVars,
                       streamVars, startVars, scheduleVars>>
     \/ /\ focus = "command" /\ Command!Next
        /\ UNCHANGED <<remoteVars, alertVars, tunnelVars, terminalVars,
                       streamVars, startVars, scheduleVars>>
     \/ /\ focus = "stream" /\ Stream!Next
        /\ UNCHANGED <<remoteVars, alertVars, tunnelVars, terminalVars,
                       commandVars, startVars, scheduleVars>>
     \/ /\ focus = "start" /\ Start!Next
        /\ UNCHANGED <<remoteVars, alertVars, tunnelVars, terminalVars,
                       commandVars, streamVars, scheduleVars>>
     \/ /\ focus = "schedule" /\ Next
        /\ UNCHANGED <<remoteVars, alertVars, tunnelVars, terminalVars,
                       commandVars, streamVars, startVars>>

SumSpec == SumInit /\ [][SumNext]_sumVars

\* What each of them does of its own.  The first conjunct is two, of the monitor
\* and of the terminal: a behaviour is of one of them, the other rests.
OwnSteps ==
  /\ SF_<<remoteVars, terminalVars>>(
       \/ /\ focus = "remote" /\ Monitor!StartSweep
          /\ UNCHANGED terminalVars
       \/ /\ focus = "terminal" /\ (Term!Await \/ Term!Say \/ Term!Leave)
          /\ UNCHANGED remoteVars)
  /\ \A s \in Polled :
       WF_remoteVars(focus = "remote" /\ (Monitor!Acquire(s) \/ Monitor!Record(s) \/ Monitor!Report(s)))
  /\ WF_alertVars(focus = "alert" /\ Alert!Advance)
  /\ WF_alertVars(focus = "alert" /\ Alert!Evaluate("p"))
  /\ WF_alertVars(focus = "alert" /\ (\E d \in BOOLEAN : Alert!Observe("p", d)))
  /\ \A h \in Handlers :
       WF_tunnelVars(focus = "tunnel" /\ Tunnel!Handle(h) /\ ~Tunnel!AsksServer(h))
  /\ \A n \in Tunnel!Objects : WF_tunnelVars(focus = "tunnel" /\ Tunnel!LiveEnds(n))
  /\ WF_terminalVars(focus = "terminal" /\ Term!Pump)
  /\ WF_terminalVars(focus = "terminal" /\ Term!Waited)
  /\ SF_terminalVars(focus = "terminal" /\ Term!Unread)
  /\ WF_commandVars(focus = "command" /\ Command!AnswerExecute)
  /\ WF_commandVars(focus = "command" /\ Command!AnswerRun)
  /\ \A h \in {"a", "b"} : WF_commandVars(focus = "command" /\ Command!Goroutine(h))
  /\ WF_streamVars(focus = "stream" /\ Stream!Deadline)
  /\ WF_streamVars(focus = "stream" /\ Stream!KillByContext)
  /\ WF_streamVars(focus = "stream" /\ Stream!Wait)
  /\ WF_streamVars(focus = "stream" /\ Stream!Finish)
  /\ WF_streamVars(focus = "stream" /\ (Stream!Show \/ Stream!Drained))
  /\ \A o \in Stream!Outputs : WF_streamVars(focus = "stream" /\ Stream!PumpEnds(o))
  /\ WF_startVars(focus = "start" /\ Start!Starting /\ ~Start!AsksPostgres)

\* Assumed of the servers they ask without a deadline.
PeersAnswer ==
  /\ \A s \in Polled : WF_remoteVars(focus = "remote" /\ Monitor!Collect(s))
  /\ \A h \in Handlers :
       WF_tunnelVars(focus = "tunnel" /\ Tunnel!Handle(h) /\ Tunnel!AsksServer(h))
  /\ WF_terminalVars(focus = "terminal" /\ (Term!Open \/ Term!OpenFails))
  /\ \A h \in {"a", "b"} : WF_commandVars(focus = "command" /\ Command!Peer(h))
  /\ WF_startVars(focus = "start" /\ Start!Starting /\ Start!AsksPostgres)

OwnSpec == SumSpec /\ OwnSteps
FairSpec == OwnSpec /\ PeersAnswer

-----------------------------------------------------------------------------
(* Stated in the modules, checked here.                                    *)

\* The engine alone turns nothing offline before three failures, a server that
\* stays reachable is online in the end, and one that stays unreachable is
\* offline in the end.
ServersAreWatched ==
  /\ []Monitor!TypeOK
  /\ Monitor!OfflineIsEarnedUntested
  /\ Monitor!UpIsSeen
  /\ Monitor!DownIsSeen

\* A lasting outage is announced again and again.
LastingOutageIsDelivered == Alert!LastingOutageIsDelivered

\* A browser sees the beginning of each output without a gap, and the end frame
\* says why the stream ended.
StreamIsTrue ==
  /\ Stream!TypeOK
  /\ Stream!NoGap
  /\ Stream!EndTellsTheTruth

\* What a killed start left behind refuses no later one, and a start opens the
\* store that was configured.
StartRecovers ==
  /\ Start!TypeOK
  /\ Start!ResumesAnywhere
  /\ Start!OpensTheConfigured

\* service.go: "DefaultConnectTimeout bounds the TCP + SSH handshake", checked where
\* nothing is assumed of the servers: one of them that stalls keeps no other, whose
\* own collections end, from being seen.
StalledHarmsNoOther == Monitor!StalledHarmsNoOther

\* No request hangs, if the servers it asks answer: closing a tunnel returns, a terminal session ends when
\* either side has gone, a request to run a command is answered, a log stream
\* ends and leaves no process behind, and a start ends.
NothingHangs ==
  /\ []Term!TypeOK
  /\ Tunnel!CloseReturns /\ Term!EitherSideEnds
  /\ Command!ExecuteEnds /\ Stream!StreamIsReaped /\ Start!BootEnds

=============================================================================
