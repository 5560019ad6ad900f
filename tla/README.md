# ServerMonitoring: TLA+ models, checks and proofs

The repository is a self-hosted dashboard: a Go API (`vps-dashboard/backend-go`),
a React frontend and scripts that install them. The API process keeps a SQL
database and runs, beside its HTTP handlers, a number of goroutines that watch
hosts and projects, take backups and execute deployments. These modules model the
parts of the API whose correctness depends on the order of steps of several
actors.

Paths below are relative to `vps-dashboard/backend-go/internal` unless they start
with `cmd/`.

## 1. Inventory

| Component | State | Operations | Interacts through | What is hard | What makes it correct |
|---|---|---|---|---|---|
| **Deploy service** (`deploy/`) | a mutex and a done channel per project; `deployments` rows; a bash process and its children | `Trigger`, `run` (goroutine), `WaitFor`, `Repo.*` | triggered by `handlers/projects.go` and `handlers/webhooks.go`; writes rows and `events`; the OS runs the script | triggers race releases; every error path must release; the deadline, the two pipes and the exit of bash come in any order; a crash leaves rows and processes | one run per project; no leaked lock; row, event and process tell one story; a run ends |
| **Webhook receiver** (`handlers/webhooks.go`) | none of its own; reads the project's secret and switch | `receive`, beside `triggerDeploy` | a forge delivers late, out of order, again; triggers deployments | a delivery that meets a run is refused; the secret changes between two deliveries | what was accepted is deployed |
| **Project registry** (`handlers/projects.go`, `models/project.go`) | `projects` rows | create, PUT, PATCH, delete, webhook secret, probe on demand | read by health engine, deploy, discovery | read and write are two statements | an answered edit stands |
| **Backup service** (`backup/`) | `backups` rows, files in `Dir`, a timer | `RunOnce` (vacuum, insert, prune), `Delete`, `Run` | scheduler goroutine and `handlers/backups.go` call it concurrently, nothing serialises them | prunes work from stale lists; check-then-act in `Delete`; file and row go one after the other; days of 23 and 25 hours | the newest `Keep` stay; the rest goes; one fallback stays; an ok row has its file; one backup a day |
| **Remote monitor** (`remote/engine.go`) | `servers.status`, failure counters in memory, metric and discovery rows | `sweep`, `retryOffline`, `collectOne`, `Purge` | handlers edit, delete and test the same rows; workers share a semaphore | a worker acts on a status listed before its turn; restarts forget counters | offline only after `MaxFailures` failures; events follow the table; a lasting condition is seen |
| **Server registry** (`handlers/servers.go`, `models/server.go`) | `servers` rows, audit events | create, PUT, PATCH, delete | the monitor writes status and detected facts into the same rows | an edit writes back what it read | no edit undoes the monitoring; told once |
| **Health engine** (`healthcheck/`, `models/health.go`) | last probe per project in memory, result rows | ticker, round of workers, probe on demand | reads projects, appends results and events, calls `Evaluate` | the previous state is read from the last stored row; shutdown cuts probes | probed in time; events agree with results; no false outage |
| **Alert evaluator** (`alerts/evaluator.go`) | breach start per rule and subject, `alert_rules.last_triggered_at` | `Evaluate`, `Force`, handlers of rules | called by health workers and the system tick; calls the notifier | overlapping evaluations work from rules they listed | a firing is preceded by a sustained breach; firings a cooldown apart; a lasting outage is announced |
| **Environment floors** (`alerts/env.go`) | two caches | `Allow`, handlers of overrides | called by the evaluator | caches refreshed by overlapping callers | the floor was in force lately |
| **Recorder, system tick** (`sysinfo/history.go`, `alerts/system_tick.go`) | bounded rings of samples | `Tick`, `Snapshot`, `RunSystemTick` | two loops share the rings | two tickers with phases of their own; ring at its limit | the newest samples, in order; every sample forwarded |
| **Notifier, channels** (`notifier/`, `models/channel.go`) | a token bucket per channel; channel rows | `Notify`, `TestChannel`, handlers | called by alerts | messages wait while channels are edited | bounded rate; every channel accounted for |
| **SSH tunnels** (`ssh/tunnels.go`) | map of live tunnels, `ssh_tunnels` rows | connect, disconnect, delete; accept loop, keepalive | handlers call it concurrently | connects overwrite each other; closing waits for loops | what listens can be closed; rows say what runs; `Close` returns |
| **SSH engine** (`ssh/service.go`) | known hosts file and map | host key callback, `saveKnownHosts`, `RunCommand` | used by monitor, tests, terminal, commands | lookup and store are two steps; the file is written outside the mutex, in the directory of the key store | one trusted key per host, also after restarts; the file says what memory says |
| **SSH key store** (`ssh/keystore.go`) | a directory of files | add, generate, list, delete | handlers | listing overlaps writing; a write is cut short; one name is the trust file's | a stored key stays; a listing is complete |
| **Commands** (`commands/`) | counters, event and log rows | `Execute`, run on one server | handlers, SSH engine | counters without a lock; deadline; an exit status that is lost | the answer is true; audited before anything runs |
| **Terminal** (`ssh/terminal.go`, `handlers/terminal.go`) | session, WebSocket, three goroutines | open, input, output, resize, close | browser and shell | `Close` needs the mutex a blocked `Write` holds | either side closing ends all |
| **Remote files** (`files/`) | files of a server | upload, rename, remove | handlers, each with its own connection | a path is emptied, written and renamed in separate calls | an answered upload is whole and kept |
| **Containers, docker** (`containers/`, `docker/`) | containers of servers and of the own machine | fleet listing; start, stop, restart; log stream | SSH engine, `docker` command | a channel is semaphore and barrier at once; the engine goes on after the deadline; a slow browser | slots are their server's; the last success stands; a stream shows no gap and ends |
| **Users and sessions** (`auth/`, `handlers/users.go`) | `users` rows, tokens | bootstrap, login, refresh, create, patch, delete | gates in front of all handlers | the last admin is counted, then removed; tokens outlive roles | an admin remains; rights run out |
| **Discovery** (`discovery/`) | none; adopts into `projects` | `Capture`, adopt one, adopt all | three sources listed in parallel | a shown page is adopted later | everything adopted once; failures told |
| **Data migrator** (`database/migrator.go`) | source and target databases | `Migrate`, rollback | settings handler, while the dashboard writes on | no transaction spans the copy | ok means copied; what a failure leaves |
| **Database manager, start-up** (`database/`, `db/`, `cmd/api/main.go`) | configuration file, `schema_migrations` | connect with retries, migrate, first admin, seed, configure | every start | a start is killed anywhere; requests to configure overlap; a file is torn; a ping has no deadline | a start resumes; opens the configured store; ends |
| **Maintenance** (`maintenance/`) | none | DELETEs by age | ticker | purges what others read back | part of `HealthEngine` |
| Wiring, other handlers and repositories, pm2, cloudflared, generator, cloud, search, mcp, safeexec, crypto, config; schema; frontend; scripts | none between calls, or one SQL statement | | | | |

The event log (`models/event.go`) is a table that most components append to;
appends are best effort everywhere.

## 2. Modules

| Module | Models | Checked by | Composition |
|---|---|---|---|
| `Deploy` | `deploy/service.go`, the row writes of `deploy/repo.go` | `MCDeploy` | implements `DeployLedger` |
| `DeployLedger` | what users of the `deployments` table may rely on | `MCDeploy` | abstract |
| `OutputColumn` | `DeploymentRepo.appendOutput` | `MCData` | the column one `streamInto` of `Deploy` fills |
| `Webhooks` | `handlers/webhooks.go`, `triggerDeploy`, `WaitFor` | `MCData` | the callers of `Deploy`, over its lock and rows |
| `Backup` | `RunOnce`, `pruneKeep`, `Delete` of `backup/backup.go` | `MCBackup` | |
| `BackupSchedule` | `Run`, `nextRun` of `backup/backup.go` | `MCLive` | decides when a `Copy` of `Backup` begins |
| `RemoteMonitor` | `remote/engine.go` and the handlers that write its rows | `MCServers`, `MCLive` | |
| `ServerRegistry` | `handlers/servers.go`, `models/server.go` | `MCServers` | the other writers of the rows of `RemoteMonitor` |
| `ProjectRows` | `handlers/projects.go`, `models/project.go` | `MCData` | |
| `HealthEngine` | `healthcheck/engine.go`, `models/health.go`, the purge | `MCMonitoring` | its workers call `Alerting` |
| `Alerting` | `alerts/evaluator.go`, the handlers of rules | `MCMonitoring`, `MCLive` | |
| `EnvFloor` | `alerts/env.go`, the handlers of overrides | `MCMonitoring` | the gate `Alerting` leaves open |
| `Recorder` | `sysinfo/history.go`, `alerts/system_tick.go` | `MCMonitoring` | |
| `Discovery` | `discovery/`, `handlers/discovery.go` | `MCMonitoring` | |
| `Notifying` | `notifier/`, `models/channel.go`, `handlers/notifications.go` | `MCMonitoring` | what `Alerting` calls |
| `Tunnels` | `ssh/tunnels.go`, `handlers/ssh_tunnels.go`, `models/tunnel.go` | `MCServers`, `MCLive` | |
| `KnownHosts` | trust on first use in `ssh/service.go` | `MCServers` | |
| `KeyStore` | `ssh/keystore.go`, `handlers/ssh.go` | `MCServers` | |
| `Commands` | `commands/service.go`, `handlers/commands.go`, `RunCommand` | `MCServers`, `MCLive` | |
| `Accounts` | `auth/`, `handlers/users.go`, `handlers/auth.go`, `models/user.go`, `middleware/auth.go` | `MCServers` | the gates in front of the other handlers |
| `Fleet` | `fleet` of `handlers/containers.go` | `MCServers` | |
| `Containers` | start, stop, restart in `containers/`, `docker/` | `MCServers` | |
| `LogStream` | `logsStream` of `handlers/docker.go`, `StreamLogs` | `MCLive` | |
| `Terminal` | `ssh/terminal.go`, `handlers/terminal.go` | `MCLive` | |
| `RemoteFiles` | `files/service.go`, `handlers/files.go` | `MCServers` | |
| `DataMigration` | `database/migrator.go`, `handlers/database.go` | `MCData` | |
| `Startup` | `cmd/api/main.go`, `database/`, `db/migrate.go` | `MCLive` | |
| `MCDeploy`, `MCBackup` | symmetry sets for TLC | | extend the module they are named after |
| `MCMonitoring`, `MCServers`, `MCData`, `MCLive` | small instances of several modules | | INSTANCE each part, and EXTEND one that has few variables; a sum of the parts (section 4) |
| `DeployProofs`, `BackupProofs` | theorems (section 6) | | extend `Deploy`, `Backup` |
| `MonitoringProofs`, `AlertsProofs` | theorems about the parts of `MCMonitoring` | | extend it |
| `AccessProofs`, `ServersProofs` | theorems about the parts of `MCServers` | | extend it |
| `DataProofs`, `LiveProofs` | theorems about the parts of `MCData`, `MCLive` | | extend it |

Definitions whose comment starts with `Slip:` are not part of a specification. Each
is a plausible mistake in the definition that follows or precedes it, kept to show
that the property it is listed with notices it.

Conventions all modules share. A handler or goroutine is a program counter; every
statement of the database, every look or store under a mutex and every message is
one step, and between two steps everybody else may move. `Trouble` (or `Fault`) is
a failing statement, write or command, or an end of the process, counted against
`MaxTroubles`. Variables commented `history` exist for the properties alone. An
age that nobody asks beyond a bound stops at the bound (`Older`), which keeps time
finite without stopping it.

### Deploy

A goroutine of `Trigger`, and of the `run` it starts, is one program counter per
deployment:

| `pc` | where the goroutine stands | actions that leave it |
|---|---|---|
| `none` | not begun, or returned | `Trigger` (lock taken) |
| `acquired` | before `Repo.Create` | `Create`, `CreateFails` (releases and returns) |
| `created` | before the channel is registered | `Launch` (channel, started event, `go run`) |
| `marking` | before `MarkStatus(running)` | `MarkRunning` (its error is only logged) |
| `starting` | before `cmd.Start` | `Start`, `StartFails` |
| `streaming` | in `wg.Wait`, then `cmd.Wait` | `Reap`, once both readers are done and bash has exited |
| `finalizing` | before `finalize` | `Finalize` |
| `reporting` | before `fireEvent` | `FireEvent` |
| `releasing` | the deferred `release` | `Release` |

`bash`, `helper` and `reading` are the operating system's: whether bash runs and
how it ended; one process the script started, which bash waits for
(`command`) or not (`daemon`), and which holds bash's output or has redirected it
(`quiet...`); and the pipes that `streamInto` still reads. A pipe ends when nobody
holds its other end (`StreamEOF`); a reader may give up before (`StreamAbort`).
`Kill` is what `exec.CommandContext` does at the deadline: it reaches bash and
nothing else. `CtxDead` says where a write uses the run's context and where
`context.Background()`. The database may fail any write (`Fault`, at most
`MaxFaults` times), and the process may stop and start again (`Crash`): locks,
channels and goroutines are gone, rows and processes stay. `lockFor`, `tryAcquire`
and `release` each hold `Service.mu` and are one step with the lock they concern.

### OutputColumn

A column is how many bytes it keeps and whether it ends with the marker. The
program could print the marker itself, which then stops the column early; that is
left out.

### Webhooks

Commits are numbers and a push moves `head`. A delivery carries the secret it was
signed with, so `VerifySignature` compares it with the secret the project has when
it arrives. `Receive` is the handler up to the trigger, `Trigger` takes the lock
and creates a run, `Pull` is the script fetching the branch at some moment of its
run, `Finish` writes the row and `Release` closes the done channel, so that
`Waited` reads the row after `Done`. `BeginManual` is the deploy endpoint, with or
without `wait`. A forge does not retry by itself.

### Backup

A `RunOnce` is a `run` counter per backup: `Copy` (VACUUM INTO), `Insert`,
`PruneQuery`, then `PruneUnlink` and `PruneDrop` for each doomed row, newest first,
then `Finish`. A delete request is `DeleteGet`, `DeleteCount`, `DeleteUnlink`,
`DeleteDrop`. Between any two of them everyone else may move. A missing file is not
an error of `os.Remove`, and a row deleted twice is not an error of the prune.
`created` and `removed` are history variables. Two copies never bear the same
timestamp, and the text in which SQL compares them is taken to sort like the time.

### BackupSchedule

Time in hours, as `time.Add` counts it, against local days of 23, 24 or 25 hours.
`Candidate` is `time.Date(..., hour, ...)` of the day of `now`, `NextRun` is
`nextRun`. Between `Tick`s the process may end (`ProcessEnds`), stay down for any time,
and compute its slot anew (`ProcessStarts`). `away` remembers the days at whose hour it
was not there: such a day may have no backup, because `nextRun` then goes on to the
next. Where the clock changes, the hour is taken to be one that every day has once
(`ScheduleAssumption`): not between 0 and 2, where the change happens, and not 23, at
which a day of 23 hours is passed over: the timer set the day before fires at the
midnight after it.

### RemoteMonitor

`EngineIdle` is the single loop of `Run`: a round, of `sweep` or of `retryOffline`,
ends (`wg.Wait`) before the next begins. `StartRound` lists the rows once. A
worker is `queued` at the semaphore, `collecting`, then `answered` or `failed`;
`Record` counts the failure, judges and writes the status; `Report` appends the
event that `Announce` chose from the *listed* status. The handlers write the same
rows: `TestProbe` and `TestRecord` are two steps with the network between them;
`Edit` writes `enabled`; `Delete` removes the row, and a late `SetStatus` does
not bring it back. `up` is the world: whether a collection would succeed now.
`streak` (failures since the last success, restarts included) and `tested` are
history variables.

### ServerRegistry, ProjectRows

A PUT or PATCH is `Get` (the row is copied), the body applied to the copy, and
`Store` or `Answer` (every editable column written from the copy); `Validate` and
the unique name may refuse in between. In `ServerRegistry` the monitoring's
`SetStatus` and `UpdateSystemInfo` come at any time, and `Audit` is a statement
after the answer is settled. In `ProjectRows` the webhook secret is one column that
only `Generate` sets, and the read that follows every write can fail (`AnswerLost`,
`CreateLost`): the answer is an error and the row is there.
`meant` is what the answers said the row is; `blurred` marks rows that were
written from a copy older than somebody else's write.

### HealthEngine

One goroutine serves the ticker: `Advance` moves time, `RunOnce` lists the due
projects (`ShouldProbe`) and no further round begins before its workers are idle.
A worker is `queued` (at the limit), `probing`, `probed`, `stored`: `ReadPrevious`
takes the newest stored result, `Probe` the outcome, `Append` writes the row and
`Announce` the event if `Transition` says so. `Health` is the handler that probes
on demand and stores a row without an event; `Purge` deletes old rows and old
events in two statements; `Shutdown` cancels probes under way.

### Alerting

`Observe` is a health worker that calls `Evaluate` with what it saw, `lag` units
ago; `ListRules`, then one turn for each listed rule: `Pass` (disabled or not of
this project), `Suppress` (held back by the floor), `Recover`, or `Breached`, which
fires if the breach is `Sustained` and the rule `Cooled` by the copy that was
listed. Firing is `Deliver` or `NotifyFails`, then `Stamp` writes
`last_triggered_at` and `Clear` forgets the breach, so the rule starts anew.
Handlers create, patch and delete rules meanwhile; `Restart` empties the state
in memory and keeps the rows.

### EnvFloor

`Allow` is `LookupEnv`, `GetProject`, `StoreEnv`, then `LookupFloor`,
`ListOverrides`, `StoreFloors`, `Answer`: the mutex is held for a look or a store,
never across the statement between. `envAge` and `floorAge` remember how long ago
each value was in force.

### Recorder

`BeginTick`, one `Capture` for each metric, `EndTick` are one round of
`runRecorder`; `BeginEmit` copies the rings and `Emit` forwards one signal at a
time if it is `Fresh`. The tickers have phases of their own, and an evaluation may
take time.

### Discovery

Three goroutines `List` their sources; a failing one appends its error to a slice
they share, in two steps (`loaded` then written), so an error can be lost.
`Correlate` builds the candidates: a rule with the container on its port or the
app of its slug, then containers and apps nobody took. `Adopt` inserts them one by one
as `AdoptAll` does; `Show` and `AdoptShown` are the page and the button on it.

### Notifying

`Notify` lists its channels; each is read (`Take`), reserves its place in the
bucket (`Reserve`), waits there and is sent (`Send`) with the copy that was read.
`Tick` refills. `Hurried` callers have a deadline and get `TooLate`. `MergeConfig` puts
the stored token where a patch sends the mask.

### Tunnels

Live tunnels are a sequence of objects; `tunnels` is the manager's map into it. A
connect is `MarkConnecting`, `FindExisting`/`Remove`, `Close` of the old one,
the dial (`ConnectFails` or `Launch`), `Enter` into the map and `Activate`, and
`Record` writes the outcome to the row. `AcceptEnds`, `ForwardFails`,
`TransportEnds` and `KeepaliveFails` are the goroutines of an object, `PeerDies`
the network. `raced` marks tunnels of which a connect overlapped another handler.

### KnownHosts

A dial is `shown` the key, looks its host up (`Lookup`), and on first use
`Remember`s, copies the map (`Copy`) and rewrites the file, emptied
(`Truncate`) and filled (`Fill`) in two steps outside the mutex, over whatever
another wrote in between. `Restart` may cut a write short, and reads what there is.
`disturbed` becomes true when first uses overlap, a write fails or a restart cuts
one short.

The file is `known_hosts` in the directory of the key store (`cmd/api/main.go:232`),
and `known_hosts` has the form of a key's name (`ssh/keystore.go:51`). `RemoveKey` is
a request to delete that key, `LookForFile`, `OpenForKey` and `WriteKey` one to add
it: both take lines from the file while memory keeps them (`wiped` becomes `"file"`),
and a restart before the next first use, which writes all of them again, makes every
host a stranger (`"memory"`). `OneKeyTrusted` holds until then and not beyond
(`HostKeysSurvive`, section 5).

### KeyStore

A key is a file. `Check`, `Create`, `Fill` hold the mutex; `ReadDir` and `ReadFile`
do not. A failing write or a restart leaves a `Torn` file under the name.
`SaveKnownHosts` is the first use of a server, which rewrites the file called
`TrustFile` without the mutex at any time. A key that is stored under that very name is
overwritten by it, so `KeyKept` is stated of the other names; what a listing says of
them is not disturbed.

### Commands

Every host has a goroutine: `Acquire` the semaphore, connect, `StartCommand` and
`Started` or `StartFails`, `WaitReturns` or `TimesOut`, `InsertRun`, then `Load` and `Count`, the two halves
of an increment nothing protects: what a data race can do to a counter here is lose
an increment. `BeginExecute` appends the event before any goroutine runs;
`BeginRun` is the handler for one server. `remote` is what became of the command over
there, `heard` what came back of it: the connection may break before, while or after it
ends (`ConnectionBreaks`, or `RemoteEnds` with its status lost), and then Start or Wait
returns an error and the host is told `failed`, whatever the command came to.

### Accounts

A request is `idle`, `looked` (its target is read once), `judged` (the count of
administrators allows it), `roled` (a patch has written the role). `token` is how
long the newest token of a user with a role is good; `RequireRole` asks the token,
`BeginRefresh` reads the row again. `lost` counts since a user stopped being an
administrator. A request takes less than a tick, so a token that is about to be
issued is issued before the clock moves.

### Fleet

`Send` puts a token into the channel before a goroutine is started, `Release` takes
one when it ends, and `Drain` is the handler taking as many as there are servers: from
the same channel. `answer` is what the response had.

### Containers

`Send` hands an action to the engine, which may carry it out (`Carry`), refuse it
(`Reject`) or do half of a restart (`HalfRestart`) whether the request still waits
or has timed out. Over SSH the answer is only a marker (`Marker`), locally an exit
code.

### LogStream

`docker logs -f`, a goroutine per output that offers lines to a bounded channel, one
that waits for the process, and the handler that shows lines until exit,
disconnect or deadline. When several are ready, `select` takes any. Somebody else may
kill the process (`Signal`): the end is then `error` although nobody left.

### Terminal

`Await` is the handler waiting for whichever of three goroutines ends first, `Say`
and `CloseSession` what follows. A `ReaderWrites` holds the session's mutex until
the remote end takes the input (`Drain`); `CloseSession` needs that mutex.

### RemoteFiles

A path points to a file object, and a file that is open stays what it is wherever
its name goes. An upload empties the path (`Create`), writes part by part and is
answered (`Uploaded`); `Rename` and `Remove` move names meanwhile.

### DataMigration

Tables are copied in the order of their foreign keys (`NextTable`), row by row
(`InsertRow`), while `Edit` changes the source; `RunMigrations` makes the target's
schema with the rows it seeds. `Fail` starts the `Rollback`, which covers the
tables finished so far. `before` and `steady` remember what the target held and
what the source held throughout.

### Startup

One start is `Boot`, `Load` (or `FallBack` to SQLite where there is no readable
file), `Connect` with its attempts, one `ApplyMigration` for each version,
`EnsureAdmin`, `Seed`, `Serve`. A request to configure is `Configure` (the file is
emptied), `WriteConfig` (its configuration is written from the beginning) and `Saved`
(the answer), or `SaveFails`; nothing keeps requests apart, and one that writes over
what another has just written may leave the end of a longer configuration behind
its own (`"torn"`). `Crash` and `Outage` may come anywhere, a crash also between the
steps of a write. `mixed` and `cut` say that requests overlapped and that a write
failed or died, until one that had the file to itself has been answered (`clean`).

## 3. Fairness

- `Deploy.Progress`: goroutines are scheduled, timers fire, and the kill they cause
  lands (WF of `Service`, `Expire`, `Kill`). Nothing obliges a script to end.
- `Deploy.HelpersFinish`: the processes a script leaves behind end. The code
  does not ensure this; it is an assumption on the operator's scripts, and
  `MCDeployHardTimeout` shows what happens without it.
- `MCLive` states, for each part, two kinds of fairness apart. `OwnSteps` is what the
  process does by itself: its goroutines are scheduled and its timers fire. `PeersAnswer`
  is an assumption on what it waits for without a deadline: the handshake of a dial,
  the session, the reply to a request, a ping. The code does not ensure it:
  the `Timeout` of `ssh.Dial` bounds the TCP connection alone and the context is not
  looked at (`ssh/service.go:292`), and the first ping of PostgreSQL has the process's
  own context (`database/postgres.go:83`). `OwnSpec` has the first alone, `FairSpec` both;
  the run `MCLivePeers` shows under `OwnSpec` what one server that stalls does to the
  monitoring of the others.
  - `RemoteMonitor`: own are the semaphore, the records and the events (WF), and
    `StartSweep` (SF: between rounds the loop selects between two tickers, and
    `select` picks among ready ones at random, so a sweep that is due again and
    again is eventually chosen although retries may come in between). That a
    collection ends (WF of `Collect`) is the peers': `CommandTimeout` bounds the command,
    not the handshake before it.
  - `Alerting`: time passes, a project goes on being observed (the ticker of the
    health engine) and an evaluation goes on (WF each). Neither edits nor restarts
    are fair.
  - `Tunnels`: a handler takes its next step, and the goroutines of a tunnel
    whose listener or client has ended end (WF each). Where a handler dials, or closes
    a listener on the other side (`AsksServer`), the step is the peer's. A dead peer
    obliges nobody.
  - `Terminal`: WF of the goroutine that copies output and of the wait for the shell; SF of
    `Handle` and `Unread`, whose steps need a mutex or a socket that another goroutine
    takes and gives back again and again. That the dial, the session and the pty come to
    an end (`Open`, `OpenFails`) is the peer's. `EitherSideEnds` assumes besides
    that input is not held up for ever by what runs in the shell, and says so in its
    formula.
  - `Commands`: WF of the answers and of each host's goroutine; the handshake, the
    session and the reply to the start (`Peer`) are the peer's. Nothing obliges a command
    to end: the wait for it has a timer.
  - `LogStream`: WF of the deadline, the kill it causes, the wait, the cleanup, the
    handler's loop and the end of a goroutine whose pipe has ended.
  - `Startup`: a start goes on (WF); what it asks PostgreSQL (`AsksPostgres`) is
    answered or refused (`PostgresAnswers`).
- Everything else is checked for safety alone.

## 4. Runs

TLC spends most of its time on the interleavings of one component, and the
components share little but rows whose other writers are actions of the module. The
four larger MC modules therefore are sums: a variable `focus` says which part a
behaviour is of, and every property reads `focus = ... => ...`. In `MCMonitoring`,
`MCServers` and `MCData` the parts share the variables whose names they share, and
what belongs to the other parts is `Unused`, so that a state is no larger than
that of the largest part. `MCServers` EXTENDS `Accounts`, `MCData` EXTENDS
`OutputColumn` and `MCLive` EXTENDS `BackupSchedule`; the other parts are instances. In
`MCLive`, where fairness is stated part by part, each part has its own variables and
those not in focus rest. A property of a run may be the conjunction of several
properties of one module, among them its type invariant; the MC module lists them.
Constants that are functions or sets of records are defined in the MC module
(`SmallEffective`, `SmallCooldown`, ...) and given with `<-`. Several constants have
the same members (`Projects` and `Channels`, `Handlers` and `Requests`, `Things` and
`Paths`), so that one symmetry set serves the parts that use either.

| Run | Instance | Shows |
|---|---|---|
| `MCDeploy` | 2 deployments of one project beside one that is not configured, 1 crash, 1 failing write | the invariants of `Deploy` (`OneRunPerProject`, `LockIsOwned`, `ChannelIsOwned`, `RunsAreRecorded`, `OutcomeFitsProcess`), `LedgerSpec`, `LockEventuallyReleased` |
| `MCDeployHardTimeout` | 1 deployment | violates `HardTimeout` |
| `MCBackup` | 3 runs, 2 delete requests, `Keep` 1, 1 crash, 1 fault | `NewestRetained`, `PrunedWhenQuiet`, `OkRowHasFile` |
| `MCBackupFallback` | 3 runs, 2 delete requests, `Keep` 3: nothing to prune | violates `FallbackRetained` |
| `MCMonitoring` | 2 projects (2 channels), 1 rule, 1 environment with 2 severities, 2 callers, 1 failing statement or restart; 2 published hosts, 1 container, 1 app; rings of 2 samples and 20 units of time; buckets of 1 | `HealthIsTrue`, `NoFalseDown`, `AlertsAreEarned`, `FloorIsRecent`, `DiscoveryIsExact`, `SamplesAreWhole`, `ChannelsAreKept` |
| `MCServers` | 2 of a kind (users, hosts, keys, paths, uploads of 2 parts; of the two names of keys one is `known_hosts`), 3 servers and 2 slots for commands and the fleet listing; 1 tunnel with 2 addresses, at most 3 live ones; 1 server to register; 2 requests; 1 failing statement, write or restart (`KnownHosts`: 2); `RemoteMonitor` with 2 servers, 1 slot, `MaxFailures` 3, no tests, restarts or failing writes | `RightsStand`, `OneKeyTrusted`, `KeysAreKept`, `TunnelsAreSeen`, `FleetStands`, `EventsTellStatus`, `CommandsAreTold`, `ContainerFollows`, `ServerEditsStand`, `FilesAreWhole` |
| `MCServersCounts`, `MCServersFleet` | the same | violate `CountsAddUp`, `FleetAnswersLast` |
| `MCData` | an output of 90 bytes in lines of 1 to 45 under a cap of 40; 3 tables of one row each, one of them seeded; 2 projects; 2 pushes and 2 runs; 2 requests, 1 trouble | `KeepsThePrefix`, `MarkerMeansLoss`, `MigrationIsWhole`, `ProjectEditsStand`, `PushesAreDeployed` |
| `MCDataFresh` | the same | violates `FreshTargetIsFilled` |
| `MCLive` | 1 server with tests, 1 restart and 1 fault; 1 rule; 1 tunnel; 1 terminal with 2 outputs; 2 commands through 1 slot; 2 lines through a channel of 1; 3 versions, 3 attempts, 2 requests to configure, 2 troubles; days 0 to 3, day 1 of 23 and day 2 of 25 hours | `StreamIsTrue`, `OncePerDay`, `StartRecovers`, and under `FairSpec` `ServersAreWatched`, `LastingOutageIsDelivered`, `NothingHangs` |
| `MCLivePeers` | 2 servers, under `OwnSpec` | violates `StalledHarmsNoOther` |

Why the bounds are enough. Deployments meet only through a project's lock, so two
on one project show every meeting; a third would be refused like the second, and
deployments of different projects share nothing but the two maps, which the proofs
cover for any number of them. One crash at any point, and one failing write at any
point, reach each window between two writes; a second crash finds a state of the
same form, since a crash leaves only rows and processes. Three backups with `Keep` 1 give a
prune a doomed list of two while another run inserts or prunes; two delete requests
are what it takes to count at once. Two servers behind one slot make one worker wait for
the other; three failures tell the counter from its neighbours at both
sides. A cap of 40 with lines of 1, 2, 3, 7, 11 and 45 reaches the cap exactly, one below and one
above it, and beyond it in one line. The schedule remembers one timer, set at most a day before: a short
day, a long one after it, and an ordinary day before and after show the ways to come to each.

For the other parts the races the code can have are of two requests about one thing,
or of a request and a goroutine, so two handlers and two things show each of them, and
two things are what it takes to mix one up with another. Three hosts with two
slots make one wait while two hold the semaphore. Three tables with one foreign key
give the copy an order to get wrong and a table done, one under way and one to come.
Three versions and two troubles let a start be killed in the middle of the
migrations and the next one find a torn file or meet an outage; two requests to
configure overlap in every order. One server
and one name suffice for `ServerRegistry`, as a taken name refuses an edit like an
invalid body; `ProjectRows` has two rows to take each other's name. Two
signs of too small a bound were looked for: every action of every part is taken in
some run, and each property has a mistake (`Slip:`) that this instance notices.

`NoOverlap` is a constraint of the `MCServers` runs: once a connect has overlapped another
request of its tunnel nothing is promised of that tunnel, and such behaviours are cut
there; `MCLive` follows them.

Deadlock checking is off in the configurations because these systems may stop:
all bounded triggers, backups or troubles have been used up, or the watched days
are over.

## 5. Where the code and its documentation disagree

Six are runs that TLC is expected to refute.

- `HardTimeout` (`deploy/types.go:11-12`, "Every invocation is bounded by a hard
  timeout"): `wg.Wait` waits for the pipes before `cmd.Wait`; a background process
  that inherited bash's output keeps the run and its project's lock for ever.
- `FallbackRetained` (`backup/backup.go:371-372`): two requests remove the last two backups.
- `CountsAddUp` (`commands/service.go:36`, "the aggregate response of a multi-host
  execution"): two goroutines increment an unprotected counter together.
- `FleetAnswersLast` (`Fleet.FleetWaits`; `httpx/handlers/containers.go:109`, "Drain the semaphore so all
  goroutines finish before returning"): the goroutines take from the channel that
  the handler drains. It answers with slots still empty, or waits for ever.
- `FreshTargetIsFilled` (`httpx/handlers/database.go:333-336`): the target's own
  migrations seed rows that the copied ones collide with.
- `StalledHarmsNoOther` (`ssh/service.go:45`, "DefaultConnectTimeout bounds the TCP + SSH
  handshake"): a server that accepts and says nothing holds the round of all others.

Others are stated as properties of the modules, with the line they come from, and do
not hold; no run repeats them.

| Property | What the code does instead |
|---|---|
| `Deploy.FinishedIsTerminal` | a deadline before bash is started makes `finalize` write under an expired context: the row stays `pending` or `running` |
| `Deploy.OneScriptPerProject` | the kill reaches bash, not the command bash waits for; the next deployment starts beside it |
| `RemoteMonitor.OfflineIsEarned` | a stale round undoes a successful test |
| `ProjectRows.ShownSecretWorks` | a PUT that read the row before a regeneration writes the old secret back |
| `Discovery.EveryFailureIsTold` | errors appended to a shared slice without a lock overwrite each other |
| `Alerting.SustainedMeansSustained` | an evaluation whose floor or listing skips a rule leaves its breach standing through a recovery |
| `EnvFloor.EnvironmentIsRecent` | a project's environment is cached until the process ends |
| `Tunnels.DeadPeerIsNoticed` | the keepalive's context is a child of the request's and ends when the connect is answered: nobody notices that the peer of a local tunnel is dead, which stays `active` |
| `KnownHosts.OneKeyPerHost` | two overlapping first uses trust a key each; a line that was lost makes a host a stranger again, whose next key is trusted (a torn line locks it out) |
| `KeyStore.KeyKept` of a key called `known_hosts` (excepted by the formula) | the next first use of a server writes the trust file over it |
| `KnownHosts.HostKeysSurvive` (`cmd/api/main.go:231`, "Persist TOFU host keys to disk so they survive restarts") | the file can be deleted or replaced by a key request that names it; a restart before the next first use has no keys |
| `BackupSchedule.ExactlyOnce` (`backup/backup.go:329-330`, "executing one backup at the configured local hour each day") | `nextRun` adds 24 hours, which on a day of 25 is an hour too early, and the slot itself is still to come. The shipped zone (`Asia/Jakarta`) has no such day |
| `Startup.SavedIsReadable` (`httpx/handlers/database.go:171`, "Configuration saved. Restart the server to apply.") | two requests write over each other, both are answered saved, and the next start cannot read the file and uses `DB_PATH` |
| `Startup.EveryStoreBoots` (`README.md:412`, PostgreSQL "is also supported") | the first administrator is inserted with `?` placeholders, which PostgreSQL refuses (`auth/bootstrap.go:45`) |
| `Accounts.AlwaysAnAdmin` | two demotions or deletions count two administrators each |
| `Notifying.SentAsItIs` | a message that waited goes to a channel disabled or changed since |
| `DataMigration.RolledBack` | the table that failed half way, and a rollback that fails, leave rows |
| `Recorder.ZeroIsMeasured` | what could not be measured is evaluated as zero |
| `Webhooks.NoPushIsMissed` | a push during a run that has pulled already is answered 429 (as documented at `webhooks.go:65`) |
| `Containers.NoRuntimeMeansNone` | "no container runtime" is also the answer to a refusal by the engine |
| `LogStream.PumpsEnd`, `LogStream.EveryLineIsShown` | where gin returns first a goroutine waits on a full channel for ever; `cmd.Wait` closes pipes with lines in them |

Met while reading, without a property:

- `deploy/repo.go:127-128` promises a marker "once the cap is exceeded", but output
  that fills the column exactly takes the early return for every later line
  (so `MarkerMeansLoss` holds and its converse does not).
- `remote/engine.go:231` gives a default of 3 failures where the code has 5;
  `backup/backup.go:331-332` says the scheduler may run shortly after start if the
  hour has passed, where `nextRun` goes on to tomorrow: a day at whose hour the
  dashboard was down has no backup (`away` in `BackupSchedule`); the comment at
  `alerts/evaluator.go:164` says a rule re-arms only after the metric recovers, while
  clearing the breach on firing re-arms it after `For` in any case.
- `cmd/api/main.go:366-372`: the server's write timeout (30 s) and read timeout
  (10 s) are shorter than what handlers wait for (a deployment with `wait`, an
  upload of five minutes, a command, a log stream).
- The semaphores at `commands/service.go:103` and
  `httpx/handlers/containers.go:89` are waited for without the request's context.
- `httpx/handlers/containers.go:200-205`: the timeout a request asks for may exceed
  the deadline it runs under.
- The uniqueness of a name is recognised by SQLite's message only; on PostgreSQL a
  conflict is an internal error.
- `httpx/handlers/servers.go:225-231` clears the password before it computes
  `credential_present`.
- A failing `docker ps` over SSH reads as a server without containers; a failed
  upload leaves an emptied file and no audit event (`httpx/handlers/files.go:202-208`).
- A torn `database.json` makes the next start use SQLite without a word.
- Channels that are deleted stay named in alert rules; a backup whose INSERT fails
  leaves its file (`backup/backup.go:294`); timestamps of RFC3339Nano do not sort as
  text within a second (`backup/backup.go:79`).

## 6. Proofs

Every invariant of a passing run, every action property and the refinement are theorems; so is
the safety half of `ServersAreWatched`. All hold for every value of the constants, under
the assumptions named in the modules (`DeployAssumption`, `OutputAssumption`,
`BackupAssumption`, `ScheduleAssumption`) or under a hypothesis of the theorem, listed at the end of this
section. A theorem about a component is stated of the component's own
`Spec`; one named `...Throughout` (for the known hosts, `OneKeyStands`) carries it to `SumSpec`,
which is what the run checks: the part in focus steps as its own specification does,
and no other part is in focus ever after.

**Deploy** (`DeployProofs`). `TypeCorrect` is `[]TypeOK`, through `TypeInv`: types
alone are not inductive, because a step writes `proj[d]` into the lock set and
`verdict[d]` into the row, so the invariant adds that a live goroutine has a
configured project (`Claimed`) and that a goroutine about to write an outcome has
one (`Judged`). `OneRun`, `NoLeakedLock` and `OneChannelPerRun` come from one
inductive invariant, `LockDiscipline`, which is their conjunction: none is
inductive alone. A release may take a project out of the lock set only because no
other goroutine of that project is live; a trigger may put one in only because a
free lock means nobody is. `LockPointwise` turns the set equations into
statements about elements, and `LockFrame` covers every step that moves a
goroutine between states with a channel. `LedgerImplemented` is the refinement of
`DeployLedger`: `RowsFit` says which row a goroutine finds at each program
counter, which makes every write of a row a `Begin` or a `Settle` of the ledger,
and `LockDiscipline` makes every INSERT an `Accept`. `OutcomeFits` adds what bash and
its pipes have come to at each program counter (`ProcessesFit`): a verdict is computed
after both readers are done and bash has been reaped, so the outcome of the row is the
outcome of the process. `RunsRecorded` rests on `AllTold`, which follows a run from
its verdict to its row and its event and gives up where a write fails.

**Backup** (`BackupProofs`). `BackupTypes` is `[]TypeOK`. `NewestKept` is
`[]NewestRetained` for any number of concurrent runs and delete requests and any
`Keep`. Its invariant `PruneInv` has: every ok row was recorded (`OkRows \subseteq
created`); a recorded backup is past the step that stamps it, so its timestamp is
final (`Recorded`); whatever is on a doomed list has at least `Keep` newer backups
among those ever recorded (`DoomedAreOld`); and `NewestRetained` itself. `DoomedAreOld`
is stable because that set only grows (`NewerGrows`), which is why a stale list
does no harm although the rows it was read from have changed. `OkRowsHaveFiles`
needs that timestamps are distinct, so that the row a prune drops is the one whose
file it removed (`NextDoomedIsOne`), and that a copy has its file before its row.
`TableIsPruned` is the other direction, `[]PrunedWhenQuiet`: as long as nothing
crashed or failed, either some run has still to query, or the rows on nobody's
doomed list (`Lasting`) are at most `Keep` (`PrunedInv`). The last query to run, whoever's
it is, dooms all but `Keep`; no count of what each prune has left to drop is needed.

### What watches (`MonitoringProofs`)

**HealthEngine**. `HealthHolds`. `ProbedInTime` is a bound on a sum of ages that
nobody keeps, so `Paced` says where they come from: `lastTick` of a project counts
from the service of some tick (`TicksSince`), up to the jitter, and what a
project has waited beyond that is less than the ticks its `GapBound` spans.
`Ticks` bounds how late the tick under way is served. `EventsTellHealth` rests on
`Told`: a worker knows the row that the one it will write follows. `DownIsProbed` is the
action property, from `Answered`: only a shutdown cancels a probe, and its row goes
through the same dead context.

**Recorder**. `RecordHolds`. `RingsInv` has the rings and the snapshot at the length
of the ticks seen. `EverySampleIsTold` is about two tickers with phases of
their own: `InStep` bounds both clocks, and `NoneIsLost` says of every tick and metric that it
was forwarded, or is next in the emission under way, or is the latest and the next
emission is in time for it.

**Discovery**. `DiscoverHolds`. `AdoptionInv` says that what is still to be adopted has
neither a name nor anything it is made of in common with what is there; `CoverInv` that a
source which did not fail has listed all there is, and that the candidates cover it.
`FailureTold` follows a failure to its append.

### What tells of an outage (`AlertsProofs`)

**Alerting**. `AlertHolds` has `FiresSustained` and `FiresCooled` as action
properties. A breach that no pass skipped began after the last observation that was
up (`BreachIsDown`), unless that observation has still to come to the rule (`Healing`).
Neither a row nor a listed copy of it is older than the last firing by more than
observations of one round lie apart (`StampsAreClose`): an evaluation with a stale copy
cannot fire early. `Unheard` keeps out rules that nobody has created.

**EnvFloor**. `FloorHolds`. Two caches and a call in seven steps: `Aging` bounds, for every
place a floor may be, how long ago it was in force (the table: now; a listing: since the
call began; the cache: `MaxCall` before it was stored; a call about to answer: the sum), and
`Learnt` what a call knows at each step.

**Notifying**. `NotifyHolds`. `RateInv` counts tokens: what the limiter has, what was
promised to callers that wait, and what messages have used lately add up to no more than
the burst. That needs that a debt of the limiter is a queue without gaps: each token of the
future is due to one caller. `CallsInv` partitions the channels of a call, `RowsInv` says that
every stored secret was given.

### What gives access (`AccessProofs`)

**Accounts**. `RightsHold`. A role that was read may be stale in
both directions, so the invariant (`Unraced`) does not speak of the count: a request
that takes an administrator away and has passed the guard, *or that the guard will let
pass because it read another role*, leaves another administrator. `CountSeesTwo` is
the step from the count to that. `TokensRunOut` says that a token an administrator got
and the time since it was one add up to no more than `TTL`, and that a token about to
be issued for a role that is gone is issued before the clock moves.

**KnownHosts**. `OneKeyHolds`: until something is `disturbed`, or a restart has lost
what a key request took from the file (`wiped = "memory"`),
there is one first use at a time and the copy it writes is what memory has
(`OneWriter`), no entry is torn, and whatever was accepted is the key memory has
(`MemoryIsTrusted`): a key request alone does no harm, because memory has all the
lines and the next first use writes them again. The file agrees with memory between
first uses unless such a request came since, which is what carries trust over a restart.

**KeyStore**. `KeyHolds`. Whoever writes holds the mutex and has found no file
(`Writing`), so no stored key is written over, but by the first use of a server under
the one name it writes, which all three statements leave out. A listing works without the mutex from names
it read before; `Reading` says that a key that was there throughout is in what it
has still to read or in what it has read.

**Tunnels**. `TunnelHolds`, the longest: five statements of the map, the objects and the rows
stand between a connect and its answer, and the goroutines of an object end by themselves.
`Stands` says what a handler has in hand where it stands; `Maps` that the map has tunnels of
this process under their own ids; `Lone` that a connect that did not race has
its tunnel to itself, which is what `raced` means; `OnCourse` what such a handler knows of the
map, which nobody else changes; `WithServer` that a deleted server's rows are gone for good.
`NothingRunsUnseen` and `RowFitsManager` are kept pointwise (`Seen`, `Fits`), and `Apart`
is the frame: a step of one handler disturbs only tunnels of its id.

### What is done on other machines (`ServersProofs`)

**Fleet**. `FleetHolds`: although the handler takes tokens that are
not its own, the goroutines that have been started and not given one back are never
more than the channel has seen go in (`TokenInv`), and slots are filled once, by
their own goroutine (`SlotInv`).

**RemoteMonitor**. `RemoteTypes`; `EventsTold` is
`[]EventsTellStatus`: a worker judges by a status it listed long before, and
`StatusInv` says why that is the current one (`ListedIsCurrent`: nobody else writes a status
while a round has it listed, as long as nobody tests) and that what is about to be announced has
been written (`AnnouncedIsWritten`). `OfflineEarned` bounds the counter in memory by
the failures there were (`CountIsHonest`), through restarts that forget it.

**Containers**. `ContainerHolds`. The engine goes on after a request has been given up:
its host is `disturbed` from then on (`Asked`), and on any other one request at a time waits
(`Alone`), whose engine has left the container as it was asked to, or not touched it
since the last success (`Follows`).

**RemoteFiles**. `FilesHold`. A file is followed rather than a name: what a path names
exists (`Opened`); an upload that has its file to itself has put there what it has written so
far, and a file nobody writes is one upload from end to end (`Held`).

**ServerRegistry**. `RegistryHolds`. A copy behind which nobody wrote is the row, but for the
columns of its own body (`Copied`), so that the write of a whole row
changes what the body says alone. `Announcing` is `ToldOnce`: of what waits for its event nothing
was told, and one request alone waits with it. `Unborn` is about servers not created yet.

**Commands**. `CommandHolds`, for any finite set of servers, not empty. `Phased` ties
the goroutines to the request; `Outcomes` that whoever has an outcome has the true one, and that what came back over the connection
is what the command came to unless the connection was lost; `Counted`
that a counter, and what a goroutine has loaded of it, is at most the number of hosts that
have ended on its side: the race loses increments and never invents one.

### What keeps data (`DataProofs`)

**OutputColumn**. `PrefixKept` and `MarkerIsHonest` from one
invariant, `ColumnInv`, for every cap and every set of line sizes. (The cap the run
uses is only there to be small.)

**ProjectRows**. `ProjectHolds`, by the same argument as `ServerRegistry` (`Current`), with one
column that no edit of a row writes.

**Webhooks**. `HookHolds`. `OneUnderWay` relates the lock to the rows and the run's commit to
what is on the machine; `HeadOnItsWay` follows a commit from the push through the delivery, the
request and the run to the machine, unless something was missed.

**DataMigration**. `MigrationHolds`. An undisturbed migration has the target to itself
(`Exclusive`). What the source had throughout is in the target as soon as the migration is past
it (`Copied`). Into an empty target exactly the rows it is past have gone (`Exact`), whose
parents therefore are there: the order of the tables never fails it. On failure
`Accounted` says where each row lies: in the table under way or in one still to be rolled
back, so that one table at most keeps rows. `WithoutLast` and `WithAnother` are the lemmas
about the sequence of tables.

### What comes to an end (`LiveProofs`)

**BackupSchedule**. `OneADay`, for any number of days, any of them short or long, any hour
`ScheduleAssumption` admits and any restarts and downtime. `ScheduleInv` says of the day
it is what the timer waits for (`Awaited`): its own slot; the hour that 24 hours
after yesterday's slot are on a day of another length; or, once the slot is past, 24 hours
after it. While the process is down the day at whose hour it was away is remembered
(`Absent`), and days before are settled (`Over`). `HoursOf`, `HoursOfADay` and `DayOfIs` are
the arithmetic of days of 23, 24 and 25 hours. `TickOn`, `RunOn` and `RestartOn` are the steps.

**LogStream**. `StreamHolds`, for any size of the channel and any output. `InOrder` speaks of
the lines shown followed by those in the channel: each output was handed over from its
beginning and in its order. `Ending` relates the end frame to how the process ended.

**Startup**. `StartHolds`, for any migrations and any number of attempts. `Resumed` says
why what a killed start left behind is fit for the next: versions and statements were
recorded together, so no migration is refused; and a store that did refuse the first
administrator is still the configured one and still empty. `Written` follows requests
to configure through their steps: one that no other has overlapped (`clean`) is alone with the
file, which is empty or says what it wants; requests are under way only while the process serves.
`Configured` is what follows between requests: unless requests overlapped or a write was
cut, and none was clean since, the file names what was wanted.

### Hypotheses

Most are typing: bounds are numbers, some sets are finite, marks such as `NoRow` are no
members. These say more, and why the code justifies them:

| Hypothesis | Says | Because |
|---|---|---|
| `HealthBounded` | a round and the jitter fit into the interval | a probe ends after 8 s and 8 run at once (`healthcheck/engine.go:24,27`): within the 60 s of the default for 56 projects that all hang. With more the ticker drops ticks and the bound on the gap does not hold |
| `RecordPaced` | an emission falls between the end of a capture and the next tick | 60 s, at most 8 s and 30 s (`cmd/api/main.go:442,459`, `alerts/system_tick.go:25`) |
| `Named` | hosts, containers and apps have names, and the slug of a rule is that of its host | they are keyed by them; the slug is computed from the host |
| `AlertBounded` | there is a longest `for_seconds` | rules are finitely many |
| `FloorBounded` | every environment has a default floor | the defaults in `models` |
| `NotifyBounded` | the burst is at least 1 | `notifier/notifier.go:114` |
| `CommandBounded` | a command goes to a server at least | `httpx/handlers/commands.go:224` refuses an empty list |
| `TunnelBounded` | there is a tunnel and an address | otherwise nothing happens |
| `FilesBounded` | an upload is written in at least one part | a write of nothing is a part that may be empty |
| `MigrationBounded` | among any tables one refers to none of the others; rows refer to other tables | the migrations' foreign keys refer to `servers` and `tags` |
| `ScheduleAssumption` | where there are short or long days, the hour is one of 3 to 22 | the clock changes between 0 and 3, where `time.Date` has to choose; the default hour is 3. An hour of 23 is passed over on a short day (section 2) |

TLC evaluates each of these hypotheses as true for the constants of the runs.

### Model-checked only

- Liveness: `LockEventuallyReleased`, `UpIsSeen` and `DownIsSeen` of `ServersAreWatched`,
  `LastingOutageIsDelivered`, `NothingHangs`. The prover does not reach fairness.
- The types of `Terminal`. (Those of `RemoteMonitor`, and `OfflineEarned`, are proved for
  any instance, tests, restarts and failing writes included.)
- The properties expected to be violated.

## 7. Not modelled

- The contents of rows beyond what a property tells apart: exit codes, error texts,
  sizes, tags, metrics; what is typed, shown or forwarded.
- Listings, downloads and statistics: they read and change nothing.
- An edit of a project between the look-up in the handler and the lock in
  `Trigger`: the run uses the command it was given.
- Handlers and repositories around one SQL statement or one command (`search`,
  `cloud`, `mcp`, pm2, cloudflared, snippets, mkdir, chmod): no state between calls
  and no order to get wrong.
- Parsing and formatting: ingress rules, `docker ps`, metrics, signatures, hashes. What
  they yield is an input of the modules, or succeeds or fails.
- The wiring, the frontend, the schema's SQL, the database cluster's configuration
  and the installation scripts.

## 8. Plan

What is left, in order of worth:

1. A composition of `Webhooks` over `Deploy` instead of over the lock and the
   rows that `Webhooks` has of its own.
2. `HealthEngine` and `Alerting` in one instance, to check that an outage is
   announced within the interval plus `For`.
