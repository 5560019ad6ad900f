-------------------------------- MODULE Fleet --------------------------------
(***************************************************************************)
(* GET /containers: the container lists of all enabled servers in one call *)
(* (fleet of handlers/containers.go, ListByServer of                       *)
(* containers/service.go).  Every server has a goroutine.  A channel of    *)
(* tokens bounds how many run together, and the handler takes from the     *)
(* same channel to wait for them.                                          *)
(***************************************************************************)
EXTENDS FiniteSets, Naturals

CONSTANTS
  Servers,       \* registered servers
  Parallel,      \* tokens the channel holds, 4
  Containers,    \* what a list may name
  MaxTroubles    \* bound on probes that fail

VARIABLES
  runtime,    \* servers docker or podman is installed on
  running,    \* server -> the containers it has
  phase,      \* where the request stands
  listed,     \* the enabled servers as they were listed
  unsent,     \* those of them whose goroutine is still to be started
  tokens,     \* tokens in the channel
  drained,    \* tokens the handler has taken
  pc,         \* server -> where its goroutine stands
  list,       \* server -> what its probe found
  result,     \* server -> its slot in the response
  answer,     \* the response as it was encoded
  troubles

hosts == <<runtime, running>>
channel == <<tokens, drained>>
vars == <<hosts, phase, listed, unsent, channel, pc, list, result, answer, troubles>>

\* Results: an empty slot, an error, or an engine and its containers.
Blank == [engine |-> FALSE, error |-> FALSE, names |-> {}, of |-> {}]
Failed(s) == [Blank EXCEPT !.error = TRUE, !.of = {s}]
Found(s, names) == [engine |-> s \in runtime, error |-> FALSE, names |-> names, of |-> {s}]
Probing == {s \in Servers : pc[s] = "probing"}

Trouble == troubles < MaxTroubles /\ troubles' = troubles + 1
Goto(s, from, to) == pc[s] = from /\ pc' = [pc EXCEPT ![s] = to]

Init ==
  /\ runtime \in SUBSET Servers /\ running \in [Servers -> SUBSET Containers]
  /\ phase = "idle" /\ listed = {} /\ unsent = {} /\ tokens = 0 /\ drained = 0
  /\ pc = [s \in Servers |-> "none"] /\ list = [s \in Servers |-> {}]
  /\ result = [s \in Servers |-> Blank] /\ answer = [s \in Servers |-> Blank]
  /\ troubles = 0

\* Containers come and go meanwhile.
Change(s) ==
  /\ phase = "launching" /\ \E now \in SUBSET Containers : running' = [running EXCEPT ![s] = now]
  /\ UNCHANGED <<runtime, phase, listed, unsent, channel, pc, list, result, answer, troubles>>

-----------------------------------------------------------------------------
(* The handler.                                                            *)

\* Repo.List.
List ==
  /\ phase = "idle" /\ phase' = "launching"
  /\ \E enabled \in SUBSET Servers : listed' = enabled /\ unsent' = enabled
  /\ UNCHANGED <<hosts, channel, pc, list, result, answer, troubles>>

\* Slip: the token is taken inside the goroutine.
SendInside == TRUE

\* sem <- struct{}{}, which does not look at the context.
Send == tokens < Parallel

Launch(s) ==
  /\ phase = "launching" /\ s \in unsent /\ Send
  /\ unsent' = unsent \ {s} /\ tokens' = tokens + 1 /\ Goto(s, "none", "probing")
  /\ UNCHANGED <<hosts, phase, listed, drained, list, result, answer, troubles>>

\* The loop that is to wait: as many tokens as there are servers.
Drain ==
  /\ phase = "launching" /\ unsent = {} /\ drained < Cardinality(listed) /\ tokens > 0
  /\ tokens' = tokens - 1 /\ drained' = drained + 1
  /\ UNCHANGED <<hosts, phase, listed, unsent, pc, list, result, answer, troubles>>

\* The answer; the deferred cancel ends the probes still under way.
Answer ==
  /\ phase = "launching" /\ unsent = {} /\ drained = Cardinality(listed)
  /\ phase' = "answered" /\ answer' = result
  /\ UNCHANGED <<hosts, listed, unsent, channel, pc, list, result, troubles>>

-----------------------------------------------------------------------------
(* The goroutines.                                                         *)

\* Slip: a banner that looks like a container is one.
ParseBanner(s, lines) == Found(s, lines)

\* ParseListOutput: without a runtime nothing is a container.
ParseListOutput(s, lines) == Found(s, IF s \in runtime THEN lines ELSE {})

\* ListByServer: the host is reached or is not.  Of the command only the output
\* is looked at: an engine that fails has printed no container.
Probe(s) ==
  /\ pc[s] = "probing" /\ phase = "launching"
  /\ \/ /\ Goto(s, "probing", "probed") /\ UNCHANGED troubles
        /\ list' = [list EXCEPT ![s] = running[s]]
     \/ /\ Goto(s, "probing", "probed") /\ Trouble
        /\ list' = [list EXCEPT ![s] = {}]
     \/ /\ Goto(s, "probing", "failed") /\ Trouble
        /\ UNCHANGED list
  /\ UNCHANGED <<hosts, phase, listed, unsent, channel, result, answer>>

\* After the answer the context is done.
ProbeCancelled(s) ==
  /\ phase = "answered" /\ Goto(s, "probing", "failed")
  /\ UNCHANGED <<hosts, phase, listed, unsent, channel, list, result, answer, troubles>>

\* results[idx] = res
Store(s) ==
  /\ \/ /\ Goto(s, "probed", "releasing")
        /\ result' = [result EXCEPT ![s] = ParseListOutput(s, list[s])]
     \/ /\ Goto(s, "failed", "releasing")
        /\ result' = [result EXCEPT ![s] = Failed(s)]
  /\ UNCHANGED <<hosts, phase, listed, unsent, channel, list, answer, troubles>>

\* The deferred receive.
Release(s) ==
  /\ tokens > 0 /\ tokens' = tokens - 1 /\ Goto(s, "releasing", "ended")
  /\ UNCHANGED <<hosts, phase, listed, unsent, drained, list, result, answer, troubles>>

Next ==
  \/ List \/ Drain \/ Answer
  \/ \E s \in Servers : \/ Change(s) \/ Launch(s) \/ Probe(s) \/ ProbeCancelled(s)
                        \/ Store(s) \/ Release(s)

Spec == Init /\ [][Next]_vars

-----------------------------------------------------------------------------
(* Properties.                                                             *)

\* Every variable has its type.
TypeOK ==
  LET results == [engine : BOOLEAN, error : BOOLEAN, names : SUBSET Containers,
                  of : SUBSET Servers]
  IN  /\ runtime \subseteq Servers /\ running \in [Servers -> SUBSET Containers]
      /\ phase \in {"idle", "launching", "answered"}
      /\ unsent \subseteq listed /\ listed \subseteq Servers
      /\ tokens \in Nat /\ drained \in 0..Cardinality(listed)
      /\ pc \in [Servers -> {"none", "probing", "probed", "failed", "releasing", "ended"}]
      /\ list \in [Servers -> SUBSET Containers]
      /\ result \in [Servers -> results] /\ answer \in [Servers -> results]
      /\ troubles \in 0..MaxTroubles

\* containers.go: "Bounded concurrency: at most 4 parallel SSH probes", although
\* the handler takes tokens out while probes still run.
AtMostParallel == Cardinality(Probing) <= Parallel

\* A slot is of its own server and says what its probe saw: a server without
\* a runtime has no containers.
SlotIsOwn ==
  \A s \in Servers :
    result[s] # Blank => /\ result[s].of = {s}
                         /\ result[s].engine => result[s].names = list[s]
                         /\ ~result[s].engine => result[s].names = {}

\* The answer is made under the bound, of slots that are each server's own.
FleetIsTrue == TypeOK /\ AtMostParallel /\ SlotIsOwn

\* containers.go: "Drain the semaphore so all goroutines finish before
\* returning."  (Not so: the tokens it takes are those of the goroutines that
\* still run, which then wait for ever for a token of their own; and where one
\* took its own, the handler waits for ever.)
FleetWaits == phase = "answered" => \A s \in listed : pc[s] \in {"releasing", "ended"}

=============================================================================
