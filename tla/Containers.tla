------------------------------ MODULE Containers ------------------------------
(***************************************************************************)
(* Starting, stopping and restarting a container: on a registered server   *)
(* over SSH (handlers/containers.go, containers/service.go), and on the    *)
(* dashboard's own machine through the docker command (handlers/docker.go, *)
(* docker/docker.go).  Every host of the model has one container.  A       *)
(* request stops waiting at its deadline; what it has asked the engine for *)
(* goes on.                                                                *)
(***************************************************************************)
EXTENDS Naturals

CONSTANTS
  Hosts,        \* registered servers, and the dashboard's own machine
  Local,        \* that machine
  Requests,     \* each once
  MaxTroubles   \* bound on what fails and on what others do

VARIABLES
  runtime,    \* hosts that have an engine
  state,      \* host -> its container: "running", "stopped" or "gone"
  pc,         \* request -> "new", "waiting" or how it was answered
  req,        \* request -> its host and action
  engine,     \* request -> what the engine makes of it
  audited,    \* requests with an event
  promised,   \* history: host -> the state the last success spoke of
  disturbed,  \* history: hosts where that may have been undone
  unlogged,   \* history: requests whose event could not be written
  troubles

history == <<promised, disturbed, unlogged>>
vars == <<runtime, state, pc, req, engine, audited, history, troubles>>

Actions == {"start", "stop", "restart"}
After(action) == IF action = "stop" THEN "stopped" ELSE "running"
Trouble == troubles < MaxTroubles /\ troubles' = troubles + 1
Others(r) == {q \in Requests \ {r} : req[q].host = req[r].host
                                    /\ (engine[q] = "working" \/ pc[q] = "waiting")}

Init ==
  /\ runtime \in SUBSET Hosts /\ state \in [Hosts -> {"running", "stopped", "gone"}]
  /\ pc = [r \in Requests |-> "new"]
  /\ req \in [Requests -> [host : Hosts, action : Actions]]
  /\ engine = [r \in Requests |-> "idle"] /\ audited = {}
  /\ promised = state /\ disturbed = {} /\ unlogged = {} /\ troubles = 0

\* Somebody on the host starts, stops or removes the container.
Change(host) ==
  /\ Trouble /\ disturbed' = disturbed \union {host}
  /\ \E now \in {"running", "stopped", "gone"} : state' = [state EXCEPT ![host] = now]
  /\ UNCHANGED <<runtime, pc, req, engine, audited, promised, unlogged>>

-----------------------------------------------------------------------------
(* The engine.                                                             *)

\* docker or podman carries a command out, whoever still waits for it.  What is
\* running may be started, what is stopped may be stopped.
Carry(r) ==
  /\ engine[r] = "working" /\ req[r].host \in runtime /\ state[req[r].host] # "gone"
  /\ state' = [state EXCEPT ![req[r].host] = After(req[r].action)]
  /\ engine' = [engine EXCEPT ![r] = "done"]
  /\ UNCHANGED <<runtime, pc, req, audited, history, troubles>>

\* There is no engine, or no such container, or it refuses.
Reject(r) ==
  /\ engine[r] = "working"
  /\ \/ /\ req[r].host \notin runtime
        /\ engine' = [engine EXCEPT ![r] = "missing"] /\ UNCHANGED troubles
     \/ /\ req[r].host \in runtime /\ state[req[r].host] = "gone"
        /\ engine' = [engine EXCEPT ![r] = "failed"] /\ UNCHANGED troubles
     \/ /\ req[r].host \in runtime /\ Trouble
        /\ engine' = [engine EXCEPT ![r] = "failed"]
  /\ UNCHANGED <<runtime, state, pc, req, audited, history>>

\* It stops the container and cannot start it again.
HalfRestart(r) ==
  /\ engine[r] = "working" /\ req[r].action = "restart" /\ Trouble
  /\ req[r].host \in runtime /\ state[req[r].host] # "gone"
  /\ state' = [state EXCEPT ![req[r].host] = "stopped"]
  /\ engine' = [engine EXCEPT ![r] = "failed"]
  /\ disturbed' = disturbed \union {req[r].host}
  /\ UNCHANGED <<runtime, pc, req, audited, promised, unlogged>>

-----------------------------------------------------------------------------
(* The requests.                                                           *)

\* The command is on its way.
Send(r) ==
  /\ pc[r] = "new" /\ pc' = [pc EXCEPT ![r] = "waiting"]
  /\ engine' = [engine EXCEPT ![r] = "working"]
  /\ disturbed' = IF Others(r) = {} THEN disturbed ELSE disturbed \union {req[r].host}
  /\ UNCHANGED <<runtime, state, req, audited, promised, unlogged, troubles>>

\* mutateByServer
Begin(r) == req[r].host # Local /\ Send(r)

\* runStart, runStop, runRestart
BeginLocal(r) == req[r].host = Local /\ Send(r)

\* Nothing answers there, or nothing lets the dashboard in.
Unreachable(r) ==
  /\ pc[r] = "new" /\ req[r].host # Local /\ Trouble
  /\ pc' = [pc EXCEPT ![r] = "error"]
  /\ UNCHANGED <<runtime, state, req, engine, audited, history>>

\* Slip: the marker is printed only where there is no engine.
MarkerNone(r) == engine[r] = "missing"

\* actionCommand: [ -n "$r" ] && $r ... || echo marker.
Marker(r) == engine[r] \in {"missing", "failed"}

\* Here the exit status decides.
LocalAnswer(r) ==
  CASE engine[r] = "done" -> "ok"
    [] engine[r] = "missing" -> "unavailable"
    [] OTHER -> "error"

\* Over SSH the marker does, the exit status does not.
Answer(r) ==
  IF req[r].host = Local THEN LocalAnswer(r) ELSE IF Marker(r) THEN "noruntime" ELSE "ok"

\* Slip: a restart is no change.
AuditsChange(r) == req[r].action # "restart"

\* The dashboard's own containers have no event.
Audits(r) == req[r].host # Local

\* appendContainerEvent, whose error is dropped.
Append(r) ==
  IF Answer(r) # "ok" \/ ~Audits(r) THEN UNCHANGED <<audited, unlogged, troubles>>
  ELSE \/ audited' = audited \union {r} /\ UNCHANGED <<unlogged, troubles>>
       \/ unlogged' = unlogged \union {r} /\ Trouble /\ UNCHANGED audited

\* The command has ended in time.
Respond(r) ==
  /\ pc[r] = "waiting" /\ engine[r] # "working"
  /\ pc' = [pc EXCEPT ![r] = Answer(r)] /\ Append(r)
  /\ promised' = IF Answer(r) = "ok"
                 THEN [promised EXCEPT ![req[r].host] = After(req[r].action)] ELSE promised
  /\ UNCHANGED <<runtime, state, req, engine, disturbed>>

\* containerTimeout or dockerMutateTimeout passes, or the browser leaves, at any
\* time: the engine may never have got the command, or it may still carry it out.
TimesOut(r) ==
  /\ pc[r] = "waiting" /\ pc' = [pc EXCEPT ![r] = "timeout"]
  /\ \/ UNCHANGED engine
     \/ engine[r] = "working" /\ engine' = [engine EXCEPT ![r] = "idle"]
  /\ disturbed' = disturbed \union {req[r].host}
  /\ UNCHANGED <<runtime, state, req, audited, promised, unlogged, troubles>>

Next ==
  \/ \E host \in Hosts : Change(host)
  \/ \E r \in Requests : \/ Begin(r) \/ BeginLocal(r) \/ Unreachable(r)
                         \/ Carry(r) \/ Reject(r) \/ HalfRestart(r) \/ Respond(r) \/ TimesOut(r)

Spec == Init /\ [][Next]_vars

-----------------------------------------------------------------------------
(* Properties.                                                             *)

\* Every variable has its type.
TypeOK ==
  LET states == {"running", "stopped", "gone"}
  IN  /\ runtime \subseteq Hosts /\ state \in [Hosts -> states]
      /\ pc \in [Requests -> {"new", "waiting", "ok", "noruntime", "unavailable", "error",
                              "timeout"}]
      /\ req \in [Requests -> [host : Hosts, action : Actions]]
      /\ engine \in [Requests -> {"idle", "working", "done", "failed", "missing"}]
      /\ audited \subseteq Requests /\ unlogged \subseteq Requests
      /\ promised \in [Hosts -> states] /\ disturbed \subseteq Hosts
      /\ troubles \in 0..MaxTroubles

\* What the last success spoke of is so, where no request was given up on, no
\* two overlapped, no restart was left half done and nobody else touched the
\* container: a failure of the engine, which over SSH only a marker tells, is
\* never taken for a success.
LastSuccessStands ==
  \A host \in Hosts \ disturbed :
    (\A r \in Requests : req[r].host = host => engine[r] # "working" /\ pc[r] # "waiting")
      => state[host] = promised[host]

\* A change on a registered server has its event, unless its request was given
\* up on or the event could not be written.
ChangesAreAudited ==
  \A r \in Requests :
    engine[r] = "done" /\ req[r].host # Local /\ pc[r] \notin {"waiting", "timeout"}
      => r \in audited \union unlogged

\* service.go: "ErrNoContainerRuntime is returned when neither docker nor podman
\* is installed on the remote host."  (Not so: it is also returned when the
\* engine refuses.)
NoRuntimeMeansNone ==
  \A r \in Requests : pc[r] = "noruntime" => req[r].host \notin runtime

=============================================================================
