------------------------------- MODULE Terminal -------------------------------
(***************************************************************************)
(* One interactive terminal: the session (internal/ssh/terminal.go) and    *)
(* the handler (handlers/terminal.go) that pipes it to a WebSocket with    *)
(* two goroutines of its own, a third awaiting the end of the shell.       *)
(* Write, Resize and Close of the session exclude each other by its mutex, *)
(* which a Write holds for as long as the remote end takes no input.       *)
(***************************************************************************)
EXTENDS Naturals

CONSTANT MaxOutput   \* bound on chunks of output not yet read

VARIABLES
  browser,     \* the other end of the WebSocket is there
  socket,      \* ours is open
  shell,       \* the remote shell runs
  draining,    \* it takes input
  client,      \* the SSH connection is open
  output,      \* chunks the shell has put out and nobody has read
  mu,          \* TerminalSession.mu: who holds it
  closed,      \* TerminalSession.closed
  done,        \* TerminalSession.done is closed
  handler,     \* connect: where it stands
  pump,        \* PTY -> WebSocket: where it stands
  reader       \* WebSocket -> PTY: where it stands

remote == <<browser, shell, draining, output>>
session == <<client, mu, closed, done>>
vars == <<remote, socket, session, handler, pump, reader>>

Init ==
  /\ browser = TRUE /\ socket = TRUE
  /\ shell = FALSE /\ draining = TRUE /\ client = FALSE /\ output = 0
  /\ mu = "free" /\ closed = FALSE /\ done = FALSE
  /\ handler = "upgraded" /\ pump = "unborn" /\ reader = "unborn"

-----------------------------------------------------------------------------
(* The two far ends.                                                       *)

BrowserLeaves ==
  /\ browser /\ browser' = FALSE
  /\ UNCHANGED <<shell, draining, output, socket, session, handler, pump, reader>>

ShellPrints ==
  /\ shell /\ output < MaxOutput /\ output' = output + 1
  /\ UNCHANGED <<browser, shell, draining, socket, session, handler, pump, reader>>

\* The shell exits, or its connection is closed under it.
ShellExits ==
  /\ shell /\ shell' = FALSE /\ draining' = TRUE
  /\ UNCHANGED <<browser, output, socket, session, handler, pump, reader>>

\* What runs in the shell stops reading, or reads on.
Drain(takes) ==
  /\ shell /\ draining # takes /\ draining' = takes
  /\ UNCHANGED <<browser, shell, output, socket, session, handler, pump, reader>>

-----------------------------------------------------------------------------
(* connect.                                                                *)

\* The server is dialled, a PTY requested, the shell started, each for as long as the
\* server takes.
NewTerminalSession == shell' = TRUE /\ client' = TRUE

Open ==
  /\ handler = "upgraded" /\ NewTerminalSession
  /\ handler' = "waiting" /\ pump' = "reading" /\ reader' = "reading"
  /\ UNCHANGED <<browser, draining, output, socket, mu, closed, done>>

\* No row, no connection, no PTY or no shell: what was opened is closed.
OpenFails ==
  /\ handler = "upgraded" /\ handler' = "returned" /\ socket' = FALSE
  /\ UNCHANGED <<remote, session, pump, reader>>

\* sess.Wait returns.
Waited ==
  /\ handler # "upgraded" /\ handler # "returned" /\ ~shell /\ ~done
  /\ done' = TRUE
  /\ UNCHANGED <<remote, socket, client, mu, closed, handler, pump, reader>>

\* The pump has ended or the shell has, whichever select sees.
Await ==
  /\ handler = "waiting" /\ (pump = "ended" \/ done) /\ handler' = "saying"
  /\ UNCHANGED <<remote, socket, session, pump, reader>>

\* "Session closed" is written, or cannot be; deferred: the session ...
Say ==
  /\ handler = "saying" /\ handler' = "closing"
  /\ UNCHANGED <<remote, socket, session, pump, reader>>

\* ... whose Close takes the mutex, and then the WebSocket.
CloseSession ==
  /\ closed' = TRUE /\ client' = FALSE
  /\ shell' = FALSE /\ draining' = TRUE

Leave ==
  /\ handler = "closing" /\ mu = "free"
  /\ CloseSession /\ socket' = FALSE /\ handler' = "returned"
  /\ UNCHANGED <<browser, output, mu, done, pump, reader>>

-----------------------------------------------------------------------------
(* The pumps.                                                              *)

\* TerminalSession.Write, Resize: the session is locked ...
Lock ==
  /\ mu = "free"
  /\ IF closed THEN UNCHANGED <<reader, mu>> ELSE reader' = "writing" /\ mu' = "reader"

PumpReads ==
  /\ pump = "reading" /\ output > 0 /\ pump' = "writing" /\ output' = output - 1
  /\ UNCHANGED <<browser, shell, draining, socket, session, handler, reader>>

PumpEOF ==
  /\ pump = "reading" /\ output = 0 /\ ~shell /\ pump' = "ended"
  /\ UNCHANGED <<remote, socket, session, handler, reader>>

\* WriteMessage: bounded by a deadline, it fails once either end is gone.
PumpWrites ==
  /\ pump = "writing" /\ pump' = IF browser /\ socket THEN "reading" ELSE "ended"
  /\ UNCHANGED <<remote, socket, session, handler, reader>>

\* ReadMessage: input or a resize, ...
ReaderGets ==
  /\ reader = "reading" /\ browser /\ socket /\ Lock
  /\ UNCHANGED <<remote, socket, client, closed, done, handler, pump>>

\* ... for which the session stays locked until the far end has taken it or is
\* gone.
ReaderWrites ==
  /\ reader = "writing" /\ (draining \/ ~client)
  /\ reader' = "reading" /\ mu' = "free"
  /\ UNCHANGED <<remote, socket, client, closed, done, handler, pump>>

\* Slip: a read that fails ends the goroutine and nothing else.
ReaderQuits ==
  /\ reader = "reading" /\ (~browser \/ ~socket) /\ reader' = "ended"
  /\ UNCHANGED <<remote, socket, session, handler, pump>>

\* A read that fails, at the latest at the read deadline, or a close message
\* closes the session and ends the goroutine.
ReaderEnds ==
  /\ reader = "reading" /\ mu = "free"
  /\ CloseSession /\ reader' = "ended"
  /\ UNCHANGED <<browser, output, socket, mu, done, handler, pump>>

Handle == Open \/ OpenFails \/ Await \/ Say \/ Leave
Pump == PumpReads \/ PumpEOF \/ PumpWrites

\* What the reader does when nothing more comes from the browser.
Unread == ReaderWrites \/ ((~browser \/ ~socket) /\ ReaderEnds)

Next ==
  \/ BrowserLeaves \/ ShellPrints \/ ShellExits \/ \E takes \in BOOLEAN : Drain(takes)
  \/ Handle \/ Pump \/ Waited \/ ReaderGets \/ ReaderWrites \/ ReaderEnds

Spec == Init /\ [][Next]_vars

\* Goroutines run on, a failing read is seen, a mutex that others take again and
\* again is had in the end (sync.Mutex starves nobody); nothing is assumed of the
\* browser, the shell or what reads its input.
OwnSteps ==
  /\ SF_vars(Await \/ Say \/ Leave) /\ WF_vars(Pump) /\ WF_vars(Waited) /\ SF_vars(Unread)

\* Of the server it is assumed that the handshake, the session, the PTY and the
\* shell, all requested without a deadline, are answered or broken off.
PeersAnswer == WF_vars(Open \/ OpenFails)

FairSpec == Spec /\ OwnSteps /\ PeersAnswer

-----------------------------------------------------------------------------
(* Properties.                                                             *)

\* Every variable has its type.
TypeOK ==
  /\ {browser, socket, shell, draining, client, closed, done} \subseteq BOOLEAN
  /\ output \in 0..MaxOutput /\ mu \in {"free", "reader"}
  /\ handler \in {"upgraded", "waiting", "saying", "closing", "returned"}
  /\ pump \in {"unborn", "reading", "writing", "ended"}
  /\ reader \in {"unborn", "reading", "writing", "ended"}

Over ==
  /\ ~client /\ ~socket /\ handler = "returned"
  /\ pump \in {"unborn", "ended"} /\ reader \in {"unborn", "ended"}

\* terminal.go: "Either side closing ends the session": once the browser has
\* gone, or the shell, the connection is closed and every goroutine ends, as
\* long as input is not held up for ever by what runs in the shell.
EitherSideEnds ==
  []<>(reader # "writing" \/ draining) =>
    /\ ~browser ~> Over
    /\ (handler = "waiting" /\ ~shell) ~> Over

=============================================================================
