----------------------------- MODULE MCServers ------------------------------
(* Small instances of what is done on other machines, and of what gives    *)
(* access to them: accounts, known hosts, keys and tunnels; the fleet      *)
(* listing, the monitoring of servers, commands, containers, files, and    *)
(* the registry itself.  A behaviour is one of a single part, the one in   *)
(* focus; parts share the variables whose names they share.                *)
EXTENDS Accounts, TLC

CONSTANTS Things, SshKeys, KeyNames, TrustFile, MoreTroubles, Ids, Addrs,
          Remote, MaxLive, Servers, Parallel, Containers, Monitored,
          MaxParallel, MaxFailures, Testers, NoTest, MaxCrashes, MaxFaults,
          Registered, Names, Machines, Local, Requests, Paths, NoFile,
          Parts, MaxMoves, MaxCuts

VARIABLES
  focus, presents, knownHosts, file, onDisk, adding, host, offered, hosts,
  accepted, disturbed, wiped, files, mu, name, key, entries, out, stored,
  standing, server, row, listen, tunnels, live, id, addr, mine, blind,
  runtime, running, phase, listed, unsent, tokens, drained, list, result,
  answer, status, enabled, fails, lastEvent, test, streak, tested, crashes,
  faults, via, ctx, event, remote, heard, runs, loaded, success, failed,
  state, req, engine, audited, promised, unlogged, unborn, copy, fresh,
  audits, meant, seen, blurred, at, content, parts, open, written, told,
  given, moves, cuts

Known == INSTANCE KnownHosts WITH
  Hosts <- Things, Keys <- SshKeys, Dialers <- Handlers,
  MaxTroubles <- MoreTroubles

Key == INSTANCE KeyStore WITH
  Names <- KeyNames, Keys <- SshKeys, Callers <- Handlers

Tunnel == INSTANCE Tunnels

Listing == INSTANCE Fleet

Monitor == INSTANCE RemoteMonitor WITH
  Servers <- Monitored

Command == INSTANCE Commands WITH
  Hosts <- Servers, MaxParallel <- Parallel

Container == INSTANCE Containers WITH
  Hosts <- Machines

Registry == INSTANCE ServerRegistry WITH
  Servers <- Registered, Handlers <- Requests, NoRow <- NoFile

File == INSTANCE RemoteFiles WITH
  Uploads <- Requests, None <- NoFile

\* Variables of one part alone, and those several parts have.
accountOnly == <<role, token, lost, target, found, wanted>>
knownOnly == <<presents, knownHosts, file, onDisk, adding, host, offered,
                 hosts, accepted, wiped>>
keyOnly == <<files, mu, name, key, entries, out, stored, standing>>
tunnelOnly == <<server, listen, tunnels, live, addr, mine, blind>>
fleetOnly == <<running, unsent, tokens, drained, list, answer>>
remoteOnly == <<status, enabled, fails, lastEvent, test, streak, tested,
                  crashes, faults>>
commandOnly == <<via, ctx, event, remote, heard, runs, loaded, success,
                   failed>>
containerOnly == <<state, req, engine, audited, promised, unlogged>>
serverOnly == <<unborn, copy, fresh, meant, seen, blurred>>
filesOnly == <<at, content, parts, open, written, told, given, moves, cuts>>
sumVars == <<focus, accountOnly, knownOnly, keyOnly, tunnelOnly, fleetOnly,
             remoteOnly, commandOnly, containerOnly, serverOnly, filesOnly,
             up, pc, op, raced, troubles, disturbed, row, id, runtime,
             phase, listed, result, audits>>

\* The variables of the parts out of focus.
Unused == "unused"
accountRests ==
  /\ role = Unused /\ token = Unused /\ lost = Unused /\ target = Unused
  /\ found = Unused /\ wanted = Unused
knownRests ==
  /\ presents = Unused /\ knownHosts = Unused /\ file = Unused /\ onDisk = Unused
  /\ adding = Unused /\ host = Unused /\ offered = Unused /\ hosts = Unused
  /\ accepted = Unused /\ wiped = Unused
keyRests ==
  /\ files = Unused /\ mu = Unused /\ name = Unused /\ key = Unused
  /\ entries = Unused /\ out = Unused /\ stored = Unused /\ standing = Unused
tunnelRests ==
  /\ server = Unused /\ listen = Unused /\ tunnels = Unused /\ live = Unused
  /\ addr = Unused /\ mine = Unused /\ blind = Unused
fleetRests ==
  /\ running = Unused /\ unsent = Unused /\ tokens = Unused /\ drained = Unused
  /\ list = Unused /\ answer = Unused
remoteRests ==
  /\ status = Unused /\ enabled = Unused /\ fails = Unused /\ lastEvent = Unused
  /\ test = Unused /\ streak = Unused /\ tested = Unused /\ crashes = Unused
  /\ faults = Unused
commandRests ==
  /\ via = Unused /\ ctx = Unused /\ event = Unused /\ remote = Unused
  /\ heard = Unused /\ runs = Unused /\ loaded = Unused /\ success = Unused
  /\ failed = Unused
containerRests ==
  /\ state = Unused /\ req = Unused /\ engine = Unused /\ audited = Unused
  /\ promised = Unused /\ unlogged = Unused
serverRests ==
  /\ unborn = Unused /\ copy = Unused /\ fresh = Unused /\ meant = Unused
  /\ seen = Unused /\ blurred = Unused
filesRests ==
  /\ at = Unused /\ content = Unused /\ parts = Unused /\ open = Unused
  /\ written = Unused /\ told = Unused /\ given = Unused /\ moves = Unused
  /\ cuts = Unused

SumInit ==
  \/ /\ focus = "account" /\ Init
     /\ knownRests /\ keyRests /\ tunnelRests /\ fleetRests
     /\ remoteRests /\ commandRests /\ containerRests /\ serverRests
     /\ filesRests
     /\ disturbed = Unused /\ row = Unused /\ id = Unused /\ runtime = Unused
     /\ phase = Unused /\ listed = Unused /\ result = Unused /\ audits = Unused
  \/ /\ focus = "known" /\ Known!Init
     /\ accountRests /\ keyRests /\ tunnelRests /\ fleetRests
     /\ remoteRests /\ commandRests /\ containerRests /\ serverRests
     /\ filesRests
     /\ up = Unused /\ op = Unused /\ raced = Unused /\ row = Unused
     /\ id = Unused /\ runtime = Unused /\ phase = Unused /\ listed = Unused
     /\ result = Unused /\ audits = Unused
  \/ /\ focus = "key" /\ Key!Init
     /\ accountRests /\ knownRests /\ tunnelRests /\ fleetRests
     /\ remoteRests /\ commandRests /\ containerRests /\ serverRests
     /\ filesRests
     /\ up = Unused /\ op = Unused /\ raced = Unused /\ disturbed = Unused
     /\ row = Unused /\ id = Unused /\ runtime = Unused /\ phase = Unused
     /\ listed = Unused /\ result = Unused /\ audits = Unused
  \/ /\ focus = "tunnel" /\ Tunnel!Init
     /\ accountRests /\ knownRests /\ keyRests /\ fleetRests
     /\ remoteRests /\ commandRests /\ containerRests /\ serverRests
     /\ filesRests
     /\ up = Unused /\ disturbed = Unused /\ runtime = Unused /\ phase = Unused
     /\ listed = Unused /\ result = Unused /\ audits = Unused
  \/ /\ focus = "fleet" /\ Listing!Init
     /\ accountRests /\ knownRests /\ keyRests /\ tunnelRests
     /\ remoteRests /\ commandRests /\ containerRests /\ serverRests
     /\ filesRests
     /\ up = Unused /\ op = Unused /\ raced = Unused /\ disturbed = Unused
     /\ row = Unused /\ id = Unused /\ audits = Unused
  \/ /\ focus = "remote" /\ Monitor!Init
     /\ accountRests /\ knownRests /\ keyRests /\ tunnelRests
     /\ fleetRests /\ commandRests /\ containerRests /\ serverRests
     /\ filesRests
     /\ op = Unused /\ raced = Unused /\ troubles = Unused /\ disturbed = Unused
     /\ row = Unused /\ id = Unused /\ runtime = Unused /\ phase = Unused
     /\ result = Unused /\ audits = Unused
  \/ /\ focus = "command" /\ Command!Init
     /\ accountRests /\ knownRests /\ keyRests /\ tunnelRests
     /\ fleetRests /\ remoteRests /\ containerRests /\ serverRests
     /\ filesRests
     /\ up = Unused /\ op = Unused /\ raced = Unused /\ disturbed = Unused
     /\ row = Unused /\ id = Unused /\ runtime = Unused /\ listed = Unused
     /\ audits = Unused
  \/ /\ focus = "container" /\ Container!Init
     /\ accountRests /\ knownRests /\ keyRests /\ tunnelRests
     /\ fleetRests /\ remoteRests /\ commandRests /\ serverRests
     /\ filesRests
     /\ up = Unused /\ op = Unused /\ raced = Unused /\ row = Unused
     /\ id = Unused /\ phase = Unused /\ listed = Unused /\ result = Unused
     /\ audits = Unused
  \/ /\ focus = "server" /\ Registry!Init
     /\ accountRests /\ knownRests /\ keyRests /\ tunnelRests
     /\ fleetRests /\ remoteRests /\ commandRests /\ containerRests
     /\ filesRests
     /\ up = Unused /\ raced = Unused /\ disturbed = Unused /\ runtime = Unused
     /\ phase = Unused /\ listed = Unused /\ result = Unused
  \/ /\ focus = "files" /\ File!Init
     /\ accountRests /\ knownRests /\ keyRests /\ tunnelRests
     /\ fleetRests /\ remoteRests /\ commandRests /\ containerRests
     /\ serverRests
     /\ up = Unused /\ op = Unused /\ raced = Unused /\ troubles = Unused
     /\ disturbed = Unused /\ row = Unused /\ id = Unused /\ runtime = Unused
     /\ phase = Unused /\ listed = Unused /\ result = Unused

SumNext ==
  \/ /\ focus = "account" /\ Next
     /\ UNCHANGED <<focus, knownOnly, keyOnly, tunnelOnly, fleetOnly,
                     remoteOnly, commandOnly, containerOnly, serverOnly,
                     filesOnly, disturbed, row, id, runtime, phase, listed,
                     result, audits>>
  \/ /\ focus = "known" /\ Known!Next
     /\ UNCHANGED <<focus, accountOnly, keyOnly, tunnelOnly, fleetOnly,
                     remoteOnly, commandOnly, containerOnly, serverOnly,
                     filesOnly, up, op, raced, row, id, runtime, phase,
                     listed, result, audits>>
  \/ /\ focus = "key" /\ Key!Next
     /\ UNCHANGED <<focus, accountOnly, knownOnly, tunnelOnly, fleetOnly,
                     remoteOnly, commandOnly, containerOnly, serverOnly,
                     filesOnly, up, op, raced, disturbed, row, id, runtime,
                     phase, listed, result, audits>>
  \/ /\ focus = "tunnel" /\ Tunnel!Next
     /\ UNCHANGED <<focus, accountOnly, knownOnly, keyOnly, fleetOnly,
                     remoteOnly, commandOnly, containerOnly, serverOnly,
                     filesOnly, up, disturbed, runtime, phase, listed,
                     result, audits>>
  \/ /\ focus = "fleet" /\ Listing!Next
     /\ UNCHANGED <<focus, accountOnly, knownOnly, keyOnly, tunnelOnly,
                     remoteOnly, commandOnly, containerOnly, serverOnly,
                     filesOnly, up, op, raced, disturbed, row, id, audits>>
  \/ /\ focus = "remote" /\ Monitor!Next
     /\ UNCHANGED <<focus, accountOnly, knownOnly, keyOnly, tunnelOnly,
                     fleetOnly, commandOnly, containerOnly, serverOnly,
                     filesOnly, op, raced, troubles, disturbed, row, id,
                     runtime, phase, result, audits>>
  \/ /\ focus = "command" /\ Command!Next
     /\ UNCHANGED <<focus, accountOnly, knownOnly, keyOnly, tunnelOnly,
                     fleetOnly, remoteOnly, containerOnly, serverOnly,
                     filesOnly, up, op, raced, disturbed, row, id, runtime,
                     listed, audits>>
  \/ /\ focus = "container" /\ Container!Next
     /\ UNCHANGED <<focus, accountOnly, knownOnly, keyOnly, tunnelOnly,
                     fleetOnly, remoteOnly, commandOnly, serverOnly,
                     filesOnly, up, op, raced, row, id, phase, listed,
                     result, audits>>
  \/ /\ focus = "server" /\ Registry!Next
     /\ UNCHANGED <<focus, accountOnly, knownOnly, keyOnly, tunnelOnly,
                     fleetOnly, remoteOnly, commandOnly, containerOnly,
                     filesOnly, up, raced, disturbed, runtime, phase,
                     listed, result>>
  \/ /\ focus = "files" /\ File!Next
     /\ UNCHANGED <<focus, accountOnly, knownOnly, keyOnly, tunnelOnly,
                     fleetOnly, remoteOnly, commandOnly, containerOnly,
                     serverOnly, up, op, raced, troubles, disturbed, row,
                     id, runtime, phase, listed, result>>

SumSpec == SumInit /\ [][SumNext]_sumVars

-----------------------------------------------------------------------------
(* Stated in the modules, checked here.                                    *)

\* There is an administrator, unless two demotions overlapped, and rights that
\* were taken away end with the token that had them.
RightsStand == focus = "account" => RightsAreKept

\* No host is trusted with two keys, unless its first uses overlapped, the file
\* was not written or a key request had taken it away at a restart, and an
\* undisturbed known_hosts file says what memory says.
OneKeyTrusted == focus = "known" => Known!OneKeyTrusted

\* A stored key stays in its file until it is deleted, and a listing has every
\* key that was there throughout, but for one called known_hosts.
KeysAreKept ==
  focus = "key" =>
    /\ Key!TypeOK
    /\ Key!KeyKept
    /\ Key!ListingIsComplete

\* A tunnel that listens can be closed, unless a connect of it overlapped
\* another handler, and between undisturbed requests the row says whether the
\* tunnel runs.
TunnelsAreSeen ==
  focus = "tunnel" =>
    /\ Tunnel!TypeOK
    /\ Tunnel!NothingRunsUnseen
    /\ Tunnel!RowFitsManager

\* No more than the bound of probes run together, and the slot of a server has
\* what its own probe saw.
FleetStands == focus = "fleet" => Listing!FleetIsTrue

\* handlers/containers.go: "Drain the semaphore so all goroutines finish before
\* returning."
FleetAnswersLast == focus = "fleet" => Listing!FleetWaits

\* The event log follows the servers table, whatever order the sweeps and the
\* restarts take.
EventsTellStatus ==
  focus = "remote" =>
    /\ Monitor!TypeOK
    /\ Monitor!EventsTellStatus

\* The answer has the true outcome of every host, no host is counted twice, and
\* no command runs on several hosts without its event.
CommandsAreTold ==
  focus = "command" =>
    /\ Command!TypeOK
    /\ Command!AnswerTellsHosts
    /\ Command!NeverOvercounted
    /\ Command!NothingRunsUnaudited

\* The counts of an aggregate response are the counts of its results.
CountsAddUp == focus = "command" => Command!CountsAddUp

\* The container is as the last success said, unless it was disturbed, and a
\* change on a server has its event.
ContainerFollows ==
  focus = "container" =>
    /\ Container!TypeOK
    /\ Container!LastSuccessStands
    /\ Container!ChangesAreAudited

\* No edit writes over what the monitoring stored, the columns of a server are
\* what its answered edits made them, and its creation and deletion are told
\* once.
ServerEditsStand ==
  focus = "server" =>
    /\ Registry!TypeOK
    /\ Registry!StatusIsMonitored
    /\ Registry!EditsStand
    /\ Registry!ToldOnce

\* A file nobody writes is one upload as it was sent, and an upload that was
\* answered is kept until it is removed.
FilesAreWhole ==
  focus = "files" =>
    /\ File!TypeOK
    /\ File!QuietFileIsWhole
    /\ File!AnsweredIsKept

\* Bound: what follows once a connect has overlapped another request of its
\* tunnel, of which nothing is promised, is left to MCLive.
NoOverlap == focus = "tunnel" => raced = {}

Symmetry == Permutations(Things) \union Permutations(Handlers)

=============================================================================
