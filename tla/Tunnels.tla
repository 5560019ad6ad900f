-------------------------------- MODULE Tunnels --------------------------------
(***************************************************************************)
(* SSH port forwarding: the tunnel manager (internal/ssh/tunnels.go), the  *)
(* handlers that drive it (handlers/ssh_tunnels.go) and the rows they keep *)
(* (models/tunnel.go).  A LiveTunnel is a listener, an SSH client, an      *)
(* accept loop and a keepalive; only the manager's map can find it again.  *)
(* Handlers of one tunnel overlap freely: nothing is locked across a dial  *)
(* or a close.                                                             *)
(***************************************************************************)
EXTENDS Naturals, Sequences

CONSTANTS
  Ids,          \* tunnel definitions
  Addrs,        \* addresses a definition may listen on
  Remote,       \* those of them the SSH server listens on
  Handlers,     \* requests that may be served together
  MaxLive,      \* bound on LiveTunnels of one process
  MaxTroubles   \* bound on failing statements and restarts

VARIABLES
  server,       \* the row of the server exists
  row, listen,  \* tunnel -> its row's status, or why it has none, and address
  tunnels,      \* TunnelManager.tunnels, 0 without an entry
  live,         \* the LiveTunnels of this process, in the order of their starts
  pc, op, id,   \* handler -> where it stands, what it serves, for which tunnel
  addr,         \* handler -> the address it read from the row
  mine,         \* handler -> the LiveTunnel it closes or has started
  raced,        \* history: tunnels a connect of which overlapped another handler
  blind,        \* history: tunnels whose row was not written when it should
  troubles

rows == <<row, listen>>
manager == <<tunnels, live>>
handler == <<pc, op, id, addr, mine>>
vars == <<server, rows, manager, handler, raced, blind, troubles>>

Exists(i) == row[i] \notin {"unborn", "gone"}
Objects == 1..MaxLive
AnyAddr == CHOOSE a \in Addrs : TRUE
InFlight(i) == {h \in Handlers : pc[h] # "idle" /\ id[h] = i}
Listens(n) == n \in DOMAIN live /\ live[n].listening
Trouble == troubles < MaxTroubles /\ troubles' = troubles + 1

Goto(h, from, to) == pc[h] = from /\ pc' = [pc EXCEPT ![h] = to]

Init ==
  /\ server = TRUE
  /\ row = [i \in Ids |-> "unborn"] /\ listen = [i \in Ids |-> AnyAddr]
  /\ tunnels = [i \in Ids |-> 0]
  /\ live = <<>>
  /\ pc = [h \in Handlers |-> "idle"] /\ op = [h \in Handlers |-> "none"]
  /\ id = [h \in Handlers |-> CHOOSE i \in Ids : TRUE]
  /\ addr = [h \in Handlers |-> AnyAddr]
  /\ mine = [h \in Handlers |-> 0]
  /\ raced = {} /\ blind = {} /\ troubles = 0

-----------------------------------------------------------------------------
(* The definitions.                                                        *)

\* TunnelRepo.Create, under a fresh id: the server must exist.
Insert(i, a) ==
  /\ server /\ row[i] = "unborn"
  /\ row' = [row EXCEPT ![i] = "stopped"] /\ listen' = [listen EXCEPT ![i] = a]

\* TunnelRepo.Update: every column but the status.
Replace(i, a) == Exists(i) /\ listen' = [listen EXCEPT ![i] = a] /\ UNCHANGED row

\* TunnelRepo.Delete
Erase(i) == row' = [row EXCEPT ![i] = "gone"]

\* TunnelRepo.SetStatus: a row that is gone is not an error anybody reads.
SetStatus(i, status) ==
  row' = IF Exists(i) THEN [row EXCEPT ![i] = status] ELSE row

\* tunnelCreate
Create(i, a) ==
  /\ Insert(i, a)
  /\ UNCHANGED <<server, manager, handler, raced, blind, troubles>>

\* tunnelUpdate, which a running tunnel does not notice.
Update(i, a) ==
  /\ Replace(i, a)
  /\ UNCHANGED <<server, manager, handler, raced, blind, troubles>>

\* DELETE of the server takes the rows of its tunnels with it, and no tunnel.
DeleteServer ==
  /\ server /\ server' = FALSE
  /\ row' = [i \in Ids |-> IF Exists(i) THEN "gone" ELSE row[i]]
  /\ blind' = Ids
  /\ UNCHANGED <<listen, manager, handler, raced, troubles>>

\* tunnelList, tunnelGet: what is in the map overrides what is in the row.
Shown(i) == IF tunnels[i] # 0 THEN live[tunnels[i]].status ELSE row[i]

-----------------------------------------------------------------------------
(* The handlers that start and stop tunnels.                               *)

\* Get: the definition is read once, at the beginning.
Begin(h, i, what) ==
  /\ Exists(i) /\ Goto(h, "idle", "begun")
  /\ op' = [op EXCEPT ![h] = what]
  /\ id' = [id EXCEPT ![h] = i]
  /\ addr' = [addr EXCEPT ![h] = IF what = "connect" THEN listen[i] ELSE @]
  /\ raced' = IF \E g \in InFlight(i) : "connect" \in {what, op[g]}
              THEN raced \union {i} ELSE raced
  /\ UNCHANGED <<server, rows, manager, mine, blind, troubles>>

\* tunnelConnect: the server row, then "connecting".
MarkConnecting(h) ==
  /\ op[h] = "connect" /\ server /\ Goto(h, "begun", "marked")
  /\ SetStatus(id[h], "connecting")
  /\ UNCHANGED <<server, listen, manager, op, id, addr, mine, raced, blind, troubles>>

ServerNotFound(h) ==
  /\ op[h] = "connect" /\ ~server /\ Goto(h, "begun", "idle")
  /\ op' = [op EXCEPT ![h] = "none"] /\ addr' = [addr EXCEPT ![h] = AnyAddr]
  /\ UNCHANGED <<server, rows, manager, id, mine, raced, blind, troubles>>

\* Slip: a second tunnel is started beside the first.
FindExistingNever(h) ==
  /\ op[h] = "connect" /\ Goto(h, "marked", "dialing")
  /\ UNCHANGED <<server, rows, manager, op, id, addr, mine, raced, blind, troubles>>

\* ConnectByServer: a tunnel of the same id is closed, and left in the map.
FindExisting(h) ==
  /\ op[h] = "connect"
  /\ Goto(h, "marked", IF tunnels[id[h]] = 0 THEN "dialing" ELSE "closing")
  /\ mine' = [mine EXCEPT ![h] = tunnels[id[h]]]
  /\ UNCHANGED <<server, rows, manager, op, id, addr, raced, blind, troubles>>

\* TunnelManager.Disconnect takes the tunnel out of the map before it closes it.
Remove(h) ==
  /\ op[h] \in {"disconnect", "delete"}
  /\ Goto(h, "begun", IF tunnels[id[h]] = 0 THEN "stopped" ELSE "closing")
  /\ mine' = [mine EXCEPT ![h] = tunnels[id[h]]]
  /\ tunnels' = [tunnels EXCEPT ![id[h]] = 0]
  /\ UNCHANGED <<server, rows, live, op, id, addr, raced, blind, troubles>>

\* Slip: the listener stays open.
CloseClientOnly(h) ==
  /\ Goto(h, "closing", "waiting")
  /\ live' = [live EXCEPT ![mine[h]].status = "stopped", ![mine[h]].keepalive = FALSE,
                          ![mine[h]].client = "closed"]
  /\ UNCHANGED <<server, rows, tunnels, op, id, addr, mine, raced, blind, troubles>>

\* LiveTunnel.Close: everything is closed ...
Close(h) ==
  /\ Goto(h, "closing", "waiting")
  /\ live' = [live EXCEPT ![mine[h]].status = "stopped", ![mine[h]].keepalive = FALSE,
                          ![mine[h]].listening = FALSE, ![mine[h]].client = "closed"]
  /\ UNCHANGED <<server, rows, tunnels, op, id, addr, mine, raced, blind, troubles>>

\* ... and the end of the accept loop awaited.
Closed(h) ==
  /\ Goto(h, "waiting", IF op[h] = "connect" THEN "dialing" ELSE "stopped")
  /\ ~live[mine[h]].loop
  /\ mine' = [mine EXCEPT ![h] = 0]
  /\ UNCHANGED <<server, rows, manager, op, id, addr, raced, blind, troubles>>

\* DialClient fails, or the address is taken and the client is closed again;
\* an address that was used is not kept here either.
ConnectFails(h) ==
  /\ Goto(h, "dialing", "failed")
  /\ addr' = [addr EXCEPT ![h] = AnyAddr]
  /\ UNCHANGED <<server, rows, manager, op, id, mine, raced, blind, troubles>>

\* ConnectByServer has a client and builds the LiveTunnel: listener, keepalive
\* and accept loop.
Launch(h) ==
  /\ Len(live) < MaxLive
  /\ \A m \in Objects : Listens(m) => live[m].addr # addr[h]
  /\ Goto(h, "dialing", "started")
  /\ live' = Append(live, [of |-> id[h], addr |-> addr[h], status |-> "",
                listening |-> TRUE, client |-> "up", loop |-> TRUE, keepalive |-> TRUE])
  /\ mine' = [mine EXCEPT ![h] = Len(live) + 1]
  /\ addr' = [addr EXCEPT ![h] = AnyAddr]
  /\ UNCHANGED <<server, rows, tunnels, op, id, raced, blind, troubles>>

\* startLocal, and startSocks, listen here; startRemote has the server listen.
StartLocal(h) == addr[h] \notin Remote /\ Launch(h)
StartRemote(h) == addr[h] \in Remote /\ Launch(h)

\* The map entry, whatever it was before, ...
Enter(h) ==
  /\ Goto(h, "started", "entered")
  /\ tunnels' = [tunnels EXCEPT ![id[h]] = mine[h]]
  /\ UNCHANGED <<server, rows, live, op, id, addr, mine, raced, blind, troubles>>

\* ... and the status, whatever the goroutines have set by now.
Activate(h) ==
  /\ Goto(h, "entered", "active")
  /\ live' = [live EXCEPT ![mine[h]].status = "active"]
  /\ UNCHANGED <<server, rows, tunnels, op, id, addr, mine, raced, blind, troubles>>

Outcome(h) == CASE pc[h] = "active" -> "active" [] pc[h] = "failed" -> "error"
                [] OTHER -> "stopped"

\* Slip: a tunnel that could not be opened is left as it was marked.
RecordSuccess(h) ==
  IF pc[h] = "failed" THEN UNCHANGED row ELSE SetStatus(id[h], Outcome(h))

\* The last statement of the handler ...
Record(h) ==
  IF op[h] = "delete" THEN Erase(id[h])
                      ELSE SetStatus(id[h], Outcome(h))

\* ... whose error nobody reads, and the end of the request, whose context
\* is the parent of the keepalive's: the keepalive ends with it.
Return(h) ==
  /\ pc[h] \in {"active", "failed", "stopped"}
  /\ pc' = [pc EXCEPT ![h] = "idle"] /\ op' = [op EXCEPT ![h] = "none"]
  /\ mine' = [mine EXCEPT ![h] = 0] /\ addr' = [addr EXCEPT ![h] = AnyAddr]
  /\ live' = IF pc[h] = "active" THEN [live EXCEPT ![mine[h]].keepalive = FALSE]
              ELSE live
  /\ \/ /\ Record(h) /\ UNCHANGED troubles
        /\ blind' = IF Exists(id[h]) THEN blind \ {id[h]} ELSE blind
     \/ Trouble /\ UNCHANGED row /\ blind' = blind \union {id[h]}
  /\ UNCHANGED <<server, listen, tunnels, id, raced>>

Handle(h) ==
  \/ MarkConnecting(h) \/ ServerNotFound(h) \/ FindExisting(h) \/ Remove(h) \/ Close(h)
  \/ Closed(h) \/ ConnectFails(h) \/ StartLocal(h)
  \/ StartRemote(h) \/ Enter(h) \/ Activate(h) \/ Return(h)

-----------------------------------------------------------------------------
(* The goroutines of a LiveTunnel and its peer.                            *)

Goroutine(n) == n \in DOMAIN live /\ UNCHANGED <<server, rows, tunnels, handler, raced, blind>>

\* Accept fails once the listener is closed.
AcceptEnds(n) ==
  /\ Goroutine(n) /\ live[n].loop /\ ~live[n].listening
  /\ live' = [live EXCEPT ![n].loop = FALSE, ![n].status = "disconnected"]
  /\ UNCHANGED troubles

\* What an accepted connection is to be forwarded to cannot be reached: the
\* status of the whole tunnel is an error.  (A dial that outlives the accept
\* loop is left out: it would turn one way of not being active into another.)
ForwardFails(n) ==
  /\ Goroutine(n) /\ live[n].loop
  /\ live' = [live EXCEPT ![n].status = "error"]
  /\ UNCHANGED troubles

\* The SSH server vanishes ...
PeerDies(n) ==
  /\ Goroutine(n) /\ live[n].client = "up" /\ Trouble
  /\ live' = [live EXCEPT ![n].client = "dead"]

\* ... which the client's transport finds out: what listens over there ends.
TransportEnds(n) ==
  /\ Goroutine(n) /\ live[n].client = "dead"
  /\ live' = [live EXCEPT ![n].client = "closed",
                          ![n].listening = @ /\ live[n].addr \notin Remote]
  /\ UNCHANGED troubles

\* keepalive: a request that fails closes the tunnel.
KeepaliveFails(n) ==
  /\ Goroutine(n) /\ live[n].keepalive /\ live[n].client # "up"
  /\ live' = [live EXCEPT ![n].status = "disconnected", ![n].listening = FALSE,
                          ![n].client = "closed", ![n].keepalive = FALSE]
  /\ UNCHANGED troubles

\* The process ends and is started again; no tunnel is, auto_start or not.
Restart ==
  /\ Trouble
  /\ tunnels' = [i \in Ids |-> 0] /\ live' = <<>>
  /\ pc' = [h \in Handlers |-> "idle"] /\ op' = [h \in Handlers |-> "none"]
  /\ mine' = [h \in Handlers |-> 0] /\ addr' = [h \in Handlers |-> AnyAddr]
  /\ blind' = Ids /\ raced' = {}
  /\ UNCHANGED <<server, rows, id>>

\* What the goroutines of a LiveTunnel do of their own.
LiveEnds(n) == AcceptEnds(n) \/ TransportEnds(n) \/ KeepaliveFails(n)

Next ==
  \/ \E i \in Ids, a \in Addrs : Create(i, a) \/ Update(i, a)
  \/ \E h \in Handlers, i \in Ids, what \in {"connect", "disconnect", "delete"} :
       Begin(h, i, what)
  \/ \E h \in Handlers : Handle(h)
  \/ \E n \in Objects : LiveEnds(n) \/ ForwardFails(n) \/ PeerDies(n)
  \/ DeleteServer \/ Restart

Spec == Init /\ [][Next]_vars

\* A handler waits for the SSH server without a deadline: to complete a handshake
\* and to listen, and to confirm that it has stopped listening.
AsksServer(h) ==
  \/ pc[h] = "dialing"
  \/ pc[h] = "closing" /\ live[mine[h]].addr \in Remote

\* Goroutines and handlers get on.
OwnSteps ==
  /\ \A h \in Handlers : WF_vars(Handle(h) /\ ~AsksServer(h))
  /\ \A n \in Objects : WF_vars(LiveEnds(n))

\* Assumed: a server that is asked answers, or its connection breaks off.
PeersAnswer == \A h \in Handlers : WF_vars(Handle(h) /\ AsksServer(h))

FairSpec == Spec /\ OwnSteps /\ PeersAnswer

-----------------------------------------------------------------------------
(* Properties.                                                             *)

LiveTunnels ==
  [of : Ids, addr : Addrs, status : {"", "active", "stopped", "disconnected", "error"},
   listening : BOOLEAN, client : {"up", "dead", "closed"}, loop : BOOLEAN, keepalive : BOOLEAN]

\* Every variable has its type.
TypeOK ==
  /\ server \in BOOLEAN
  /\ row \in [Ids -> {"unborn", "gone", "stopped", "connecting", "active", "error"}]
  /\ listen \in [Ids -> Addrs]
  /\ tunnels \in [Ids -> 0..MaxLive]
  /\ Len(live) <= MaxLive /\ \A n \in DOMAIN live : live[n] \in LiveTunnels
  /\ pc \in [Handlers -> {"idle", "begun", "marked", "closing", "waiting", "dialing",
                          "started", "entered", "active", "failed", "stopped"}]
  /\ op \in [Handlers -> {"none", "connect", "disconnect", "delete"}]
  /\ id \in [Handlers -> Ids] /\ addr \in [Handlers -> Addrs]
  /\ mine \in [Handlers -> 0..MaxLive]
  /\ raced \subseteq Ids /\ blind \subseteq Ids /\ troubles \in 0..MaxTroubles

\* tunnels.go: "Close any existing tunnel with the same ID".  A tunnel that
\* listens can be found in the map and so be closed, or a handler still has
\* it; only a connect that overlapped another handler of the same tunnel can
\* leave one behind that nobody can stop.
NothingRunsUnseen ==
  \A n \in Objects :
    Listens(n) /\ live[n].of \notin raced =>
      tunnels[live[n].of] = n \/ \E h \in Handlers : mine[h] = n

\* Between requests the row tells whether the manager has the tunnel, unless
\* a statement failed, the process restarted or handlers overlapped.
RowFitsManager ==
  \A i \in Ids \ (raced \union blind) :
    InFlight(i) = {} =>
      /\ Exists(i) => /\ row[i] # "connecting"
                      /\ row[i] = "active" => tunnels[i] # 0
                      /\ row[i] = "stopped" => tunnels[i] = 0
      /\ tunnels[i] # 0 /\ Listens(tunnels[i]) => Exists(i) /\ row[i] = "active"

\* Nobody waits for ever to close a tunnel: whatever its accept loop, the keepalive
\* and other handlers of the same tunnel do, Close returns, if the server confirms
\* that it no longer listens.
CloseReturns ==
  \A h \in Handlers : pc[h] \in {"closing", "waiting"} ~> pc[h] \notin {"closing", "waiting"}

\* tunnels.go: keepalive is there to "detect dead connections (network drop,
\* server restart). On failure, sets tunnel status to "disconnected" and
\* closes the tunnel".
DeadPeerIsNoticed ==
  \A i \in Ids, n \in Objects :
    (InFlight(i) = {} /\ tunnels[i] = n /\ n \in DOMAIN live /\ live[n].client = "dead")
      ~> (tunnels[i] # n \/ Shown(i) # "active")

=============================================================================
