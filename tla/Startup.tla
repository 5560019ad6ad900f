-------------------------------- MODULE Startup --------------------------------
(***************************************************************************)
(* From one start of the process to the next: run (cmd/api/main.go) with   *)
(* the database configuration file (database/config.go, the configure      *)
(* handler of handlers/database.go), the connection with its retries       *)
(* (database/manager.go, database/retry.go), the schema migrations         *)
(* (db/migrate.go), the first admin (auth/bootstrap.go) and the automatic  *)
(* seed.                                                                   *)
(***************************************************************************)
EXTENDS Naturals, FiniteSets

CONSTANTS
  Requests,     \* the requests to configure that may be under way together
  Versions,     \* the migrations, applied in the order of their numbers
  Attempts,     \* maxAttempts of ConnectWithRetry
  MaxTroubles   \* bound on crashes, failing writes and outages

VARIABLES
  file,         \* database.json: the store it names, "absent", "empty" or "torn"
  saving,       \* request -> the store it writes to the file, or "none"
  written,      \* the requests that have written it and not answered
  pc,           \* where run stands
  store,        \* the store of this process
  attempt,
  up,           \* PostgreSQL answers
  applied,      \* store -> versions in schema_migrations
  schema,       \* store -> versions whose statements were executed
  users,        \* store -> there are users
  seeded,       \* store -> there are projects
  ended,        \* why the process ended last: "signal", "fault" or "refused"
  wanted,       \* history: the store configure was last answered for
  cut,          \* history: a write of the file failed or died
  clean,        \* history: the requests no other has overlapped
  mixed,        \* history: requests have overlapped
  troubles

data == <<applied, schema, users, seeded>>
requests == <<saving, written, clean>>
history == <<wanted, cut, mixed>>
vars == <<file, requests, pc, store, attempt, up, data, ended, history, troubles>>

\* DB_PATH, and the path that toConfig gives a "sqlite" configuration.
Stores == {"db_path", "data", "postgres"}

Trouble == troubles < MaxTroubles /\ troubles' = troubles + 1
Goto(from, to) == pc = from /\ pc' = to

\* A fresh machine; PostgreSQL may have been filled by whoever runs it.
Init ==
  /\ file = "absent" /\ saving = [r \in Requests |-> "none"] /\ written = {} /\ clean = {}
  /\ pc = "down" /\ store = "db_path"
  /\ attempt = 0 /\ up = TRUE /\ ended = "signal"
  /\ users \in {[s \in Stores |-> FALSE], [s \in Stores |-> s = "postgres"]}
  /\ applied = [s \in Stores |-> IF users[s] THEN Versions ELSE {}] /\ schema = applied
  /\ seeded = [s \in Stores |-> FALSE]
  /\ wanted = "db_path" /\ cut = FALSE /\ mixed = FALSE /\ troubles = 0

-----------------------------------------------------------------------------
(* The stores.                                                             *)

Answers(s) == s = "postgres" => up

\* pq numbers its placeholders, $1: a statement with a "?" is refused.
Understands(s) == s # "postgres"

\* What a migration creates cannot be created twice.
Fits(s, v) == v \notin schema[s]

-----------------------------------------------------------------------------
(* The start.                                                              *)

End(why) ==
  /\ pc' = "down" /\ attempt' = 0 /\ ended' = why
  /\ saving' = [r \in Requests |-> "none"] /\ written' = {} /\ clean' = {}

Boot ==
  /\ Goto("down", "config")
  /\ UNCHANGED <<file, requests, store, attempt, up, data, ended, history, troubles>>

\* A missing file is created; the failure to do so is only logged.
SaveDefault ==
  /\ pc = "config" /\ file = "absent" /\ file' = "db_path"
  /\ UNCHANGED <<requests, pc, store, attempt, up, data, ended, history, troubles>>

\* NewManagerFromFile, and the fallback to DB_PATH where that fails.
Load ==
  /\ pc = "config" /\ file \in Stores
  /\ store' = file /\ pc' = "connect" /\ attempt' = 1
  /\ UNCHANGED <<file, requests, up, data, ended, history, troubles>>

FallBack ==
  /\ Goto("config", "migrate") /\ store' = "db_path"
  /\ \/ file \in {"empty", "torn"} /\ UNCHANGED <<file, cut, troubles>>
     \/ /\ file = "absent" /\ Trouble /\ file' \in {"absent", "empty", "torn"}
        /\ cut' = (cut \/ file' # "absent")
  /\ UNCHANGED <<requests, attempt, up, data, ended, wanted, mixed>>

Connect ==
  /\ Goto("connect", "migrate") /\ Answers(store) /\ attempt' = 0
  /\ UNCHANGED <<file, requests, store, up, data, ended, history, troubles>>

\* Slip: the attempts are not counted.
RetriesForEver ==
  /\ pc = "connect" /\ ~Answers(store)
  /\ UNCHANGED vars

\* Slip: a database that does not answer is replaced by the one of DB_PATH.
FallsBackToo ==
  /\ pc = "connect" /\ ~Answers(store)
  /\ IF attempt < Attempts
     THEN attempt' = attempt + 1 /\ UNCHANGED <<pc, store>>
     ELSE attempt' = 0 /\ pc' = "migrate" /\ store' = "db_path"
  /\ UNCHANGED <<file, requests, up, data, ended, history, troubles>>

\* ConnectWithRetry sleeps and tries again, and gives up after the last.
ConnectFails ==
  /\ pc = "connect" /\ ~Answers(store)
  /\ IF attempt < Attempts
     THEN attempt' = attempt + 1 /\ UNCHANGED <<requests, pc, ended>>
     ELSE End("fault")
  /\ UNCHANGED <<file, store, up, data, history, troubles>>

\* Migrate: the first file that loadAppliedVersions does not list.
NextVersion(v) ==
  /\ pc = "migrate" /\ v \in Versions \ applied[store]
  /\ \A w \in Versions \ applied[store] : v <= w

\* Slip: the version is recorded outside the transaction.
ApplyMigrationApart(v) ==
  /\ NextVersion(v) /\ Fits(store, v)
  /\ schema' = [schema EXCEPT ![store] = @ \union {v}]
  /\ \/ /\ applied' = [applied EXCEPT ![store] = @ \union {v}]
        /\ UNCHANGED <<requests, pc, attempt, ended, troubles>>
     \/ Trouble /\ End("fault") /\ UNCHANGED applied
  /\ UNCHANGED <<file, store, up, users, seeded, history>>

\* applyMigration: the statements and the version in one transaction.
ApplyMigration(v) ==
  /\ NextVersion(v) /\ Fits(store, v)
  /\ schema' = [schema EXCEPT ![store] = @ \union {v}]
  /\ applied' = [applied EXCEPT ![store] = @ \union {v}]
  /\ UNCHANGED <<file, requests, pc, store, attempt, up, users, seeded, ended, history,
                 troubles>>

MigrationRefused(v) ==
  /\ NextVersion(v) /\ ~Fits(store, v) /\ End("refused")
  /\ UNCHANGED <<file, store, up, data, history, troubles>>

Migrated ==
  /\ Goto("migrate", "admin") /\ applied[store] = Versions
  /\ UNCHANGED <<file, requests, store, attempt, up, data, ended, history, troubles>>

\* EnsureAdmin, with a bootstrap password given: the first user is inserted.
EnsureAdmin ==
  /\ pc = "admin"
  /\ IF users[store] \/ Understands(store)
     THEN /\ users' = [users EXCEPT ![store] = TRUE] /\ pc' = "seed"
          /\ UNCHANGED <<requests, attempt, ended>>
     ELSE End("refused") /\ UNCHANGED users
  /\ UNCHANGED <<file, store, up, applied, schema, seeded, history, troubles>>

\* autoSeedProjects, if there were none: the first of its rows; the others change
\* nothing here, and nothing that goes wrong is fatal, so the seed may end anywhere.
Seed ==
  /\ pc = "seed" /\ ~seeded[store] /\ Understands(store)
  /\ seeded' = [seeded EXCEPT ![store] = TRUE]
  /\ UNCHANGED <<file, requests, pc, store, attempt, up, applied, schema, users, ended,
                 history, troubles>>

Serve ==
  /\ Goto("seed", "serving")
  /\ UNCHANGED <<file, requests, store, attempt, up, data, ended, history, troubles>>

-----------------------------------------------------------------------------
(* While it serves.                                                        *)

\* toConfig: "sqlite" names a path of its own, which is not DB_PATH.
ToConfig(type) == IF type = "sqlite" THEN "data" ELSE "postgres"

\* configure, up to where os.WriteFile has emptied the file: nothing keeps two
\* requests apart.
Configure(r, type) ==
  /\ pc = "serving" /\ saving[r] = "none"
  /\ saving' = [saving EXCEPT ![r] = ToConfig(type)] /\ file' = "empty"
  /\ LET alone == \A other \in Requests : saving[other] = "none"
     IN  clean' = (IF alone THEN {r} ELSE {}) /\ mixed' = (mixed \/ ~alone)
  /\ UNCHANGED <<written, pc, store, attempt, up, data, ended, wanted, cut, troubles>>

\* Slip: the old configuration stays in front.
AppendsConfig(r) ==
  /\ saving[r] # "none" /\ r \notin written /\ written' = written \union {r}
  /\ file' = IF wanted = saving[r] THEN saving[r] ELSE "torn"
  /\ UNCHANGED <<saving, clean, pc, store, attempt, up, data, ended, history, troubles>>

\* It is written from the beginning: over another's, of which an end may stay.
WriteConfig(r) ==
  /\ saving[r] # "none" /\ r \notin written /\ written' = written \union {r}
  /\ file' \in {saving[r]} \union {end \in {"torn"} : file # "empty"}
  /\ UNCHANGED <<saving, clean, pc, store, attempt, up, data, ended, history, troubles>>

\* "Configuration saved.  Restart the server to apply."
Saved(r) ==
  /\ r \in written
  /\ saving' = [saving EXCEPT ![r] = "none"] /\ written' = written \ {r}
  /\ clean' = clean \ {r} /\ wanted' = saving[r]
  /\ cut' = (cut /\ r \notin clean) /\ mixed' = (mixed /\ r \notin clean)
  /\ UNCHANGED <<file, pc, store, attempt, up, data, ended, troubles>>

\* A disk that is full: the answer is an error.
SaveFails(r) ==
  /\ saving[r] # "none" /\ r \notin written /\ Trouble
  /\ saving' = [saving EXCEPT ![r] = "none"] /\ clean' = clean \ {r}
  /\ file' \in {file, "torn"} /\ cut' = TRUE
  /\ UNCHANGED <<written, pc, store, attempt, up, data, ended, wanted, mixed>>

\* All projects are deleted: the next start seeds again.
DeleteProjects ==
  /\ pc = "serving" /\ seeded[store] /\ Trouble
  /\ seeded' = [seeded EXCEPT ![store] = FALSE]
  /\ UNCHANGED <<file, requests, pc, store, attempt, up, applied, schema, users, ended,
                 history>>

\* SIGTERM: requests are given time to finish; the retries sleep on.
Stop ==
  /\ pc = "serving" /\ (\A r \in Requests : saving[r] = "none") /\ End("signal")
  /\ UNCHANGED <<file, store, up, data, history, troubles>>

\* Any statement of the start may fail, and the process may be killed: also in the
\* middle of a write of the file.
Crash ==
  /\ pc # "down" /\ Trouble /\ End("fault")
  /\ file' \in {file} \union {left \in {"empty", "torn"} :
                               \/ pc = "config" /\ file = "absent"
                               \/ \E r \in Requests \ written : saving[r] # "none"}
  /\ cut' = (cut \/ file' # file \/ \E r \in Requests : saving[r] # "none")
  /\ UNCHANGED <<store, up, data, wanted, mixed>>

Outage == up /\ Trouble /\ up' = FALSE
          /\ UNCHANGED <<file, requests, pc, store, attempt, data, ended, history>>

Recover == ~up /\ up' = TRUE
           /\ UNCHANGED <<file, requests, pc, store, attempt, data, ended, history, troubles>>

Starting ==
  \/ SaveDefault \/ Load \/ FallBack \/ Connect \/ ConnectFails
  \/ Migrated \/ EnsureAdmin \/ Serve
  \/ \E v \in Versions : ApplyMigration(v) \/ MigrationRefused(v)

Next ==
  \/ Boot \/ Starting \/ Seed \/ DeleteProjects \/ Stop
  \/ Crash \/ Outage \/ Recover
  \/ \E r \in Requests :
       \/ \E type \in {"sqlite", "postgres", "supabase"} : Configure(r, type)
       \/ WriteConfig(r) \/ Saved(r) \/ SaveFails(r)

Spec == Init /\ [][Next]_vars

\* What a start waits for without a deadline, from the first ping on.
AsksPostgres == store = "postgres" /\ pc \in {"connect", "migrate", "admin", "seed"}

\* A start that is not killed goes on by itself; that PostgreSQL answers or
\* refuses whatever it is asked is assumed.
OwnSteps == WF_vars(Starting /\ ~AsksPostgres)
PostgresAnswers == WF_vars(Starting /\ AsksPostgres)
FairSpec == Spec /\ OwnSteps /\ PostgresAnswers

-----------------------------------------------------------------------------
(* Properties.                                                             *)

\* Every variable has its type.
TypeOK ==
  /\ file \in Stores \union {"absent", "empty", "torn"}
  /\ saving \in [Requests -> Stores \union {"none"}]
  /\ written \in SUBSET Requests /\ clean \in SUBSET Requests
  /\ pc \in {"down", "config", "connect", "migrate", "admin", "seed", "serving"}
  /\ store \in Stores /\ attempt \in 0..Attempts /\ up \in BOOLEAN
  /\ applied \in [Stores -> SUBSET Versions] /\ schema \in [Stores -> SUBSET Versions]
  /\ users \in [Stores -> BOOLEAN] /\ seeded \in [Stores -> BOOLEAN]
  /\ ended \in {"signal", "fault", "refused"}
  /\ wanted \in Stores /\ cut \in BOOLEAN /\ mixed \in BOOLEAN /\ troubles \in 0..MaxTroubles

\* Wherever a start was killed, the next one on that SQLite file goes through:
\* what a killed start left behind never refuses a later one.
ResumesAnywhere == ended = "refused" => store = "postgres"

\* The store that is opened is the one configure was last answered for, whether
\* it answers or not: unless requests have overlapped, or a write of the file has
\* failed or died, and no request has been alone with the file since.
OpensTheConfigured ==
  ~cut /\ ~mixed /\ pc \in {"connect", "migrate", "admin", "seed"} => store = wanted

\* handlers/database.go: "Configuration saved. Restart the server to apply.": what
\* every request was told of the file can be read.  (Not so where requests overlap.)
SavedIsReadable ==
  pc = "config" /\ ~cut => file \notin {"empty", "torn"}

\* README.md: "PostgreSQL is also supported for deployments that require an
\* external database backend".  No start ends for want of something else than
\* an answer.  (Not so: PostgreSQL refuses the first administrator.)
EveryStoreBoots == ended # "refused"

\* A start ends, with the service or without, when PostgreSQL answers or refuses.
BootEnds == pc = "connect" ~> pc \in {"serving", "down"}

=============================================================================
