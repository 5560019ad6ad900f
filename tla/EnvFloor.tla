------------------------------ MODULE EnvFloor ------------------------------
(***************************************************************************)
(* The severity floors of the environments (internal/alerts/env.go): two   *)
(* caches in front of the tables projects and environment_overrides, read  *)
(* and filled by the Allow calls of concurrent probes while handlers edit  *)
(* the tables.  The mutex is held for one look or one store at a time.     *)
(* Time is counted in units, as ages.                                      *)
(***************************************************************************)
EXTENDS Naturals, FiniteSets

CONSTANTS
  Callers,     \* probes that may be inside Allow together
  Projects,
  Envs,
  Severities,  \* ranks of the severities a floor may name, from 1
  Default,     \* environment -> the floor of DefaultEnvOverrideFor
  Refresh,     \* envOverrideRefresh
  MaxCall      \* how long a call of Allow may take

VARIABLES
  environment,   \* project -> its environment column
  override,      \* environment -> the floor its row names, 0 where none
  projectEnv,    \* EnvFloor.projectEnvCache, Unknown without an entry
  floors,        \* EnvFloor.envFloors, 0 without an entry
  loaded,        \* age of loadedAt, the greatest where it is zero
  pc,            \* caller -> where its Allow stands
  project, env,  \* caller -> what it asks for and what it has learnt
  rows,          \* caller -> the overrides it listed
  began,         \* caller -> age of its call
  failing,       \* history: a refresh has failed since floors were last stored
  envAge,        \* history: project, environment -> age of its last use as the column
  floorAge       \* history: environment, floor -> age of the time it was in force

cache == <<projectEnv, floors, loaded>>
call == <<pc, project, env, rows, began>>
table == <<environment, override>>
ages == <<failing, envAge, floorAge>>
vars == <<table, cache, call, ages>>

Unknown == "unknown"
NoRows == [e \in Envs |-> 0]

\* An answer may stem from a list read MaxCall before it was stored, looked
\* at when Refresh old, and used MaxCall later.
Window == Refresh + 2 * MaxCall
Older(age, most) == IF age < most THEN age + 1 ELSE age

\* A missing or empty floor falls back to the default of the environment.
Floor(table_, e) == IF table_[e] # 0 THEN table_[e] ELSE Default[e]

Goto(c, from, to) == pc[c] = from /\ pc' = [pc EXCEPT ![c] = to]

Init ==
  /\ environment \in [Projects -> Envs]
  /\ override \in [Envs -> Severities \union {0}]
  /\ projectEnv = [p \in Projects |-> Unknown]
  /\ floors = NoRows /\ loaded = Refresh + 1
  /\ pc = [c \in Callers |-> "idle"]
  /\ project = [c \in Callers |-> Unknown] /\ env = [c \in Callers |-> Unknown]
  /\ rows = [c \in Callers |-> NoRows] /\ began = [c \in Callers |-> 0]
  /\ failing = FALSE
  /\ envAge = [k \in Projects \X Envs |-> IF environment[k[1]] = k[2] THEN 0 ELSE Window + 1]
  /\ floorAge = [k \in Envs \X Severities |->
                   IF Floor(override, k[1]) = k[2] THEN 0 ELSE Window + 1]

-----------------------------------------------------------------------------
Advance ==
  /\ \A c \in Callers : pc[c] # "idle" => began[c] < MaxCall
  /\ loaded' = Older(loaded, Refresh + 1)
  /\ began' = [c \in Callers |-> IF pc[c] = "idle" THEN 0 ELSE began[c] + 1]
  /\ envAge' = [k \in Projects \X Envs |->
       IF environment[k[1]] = k[2] THEN 0 ELSE Older(envAge[k], Window + 1)]
  /\ floorAge' = [k \in Envs \X Severities |->
       IF Floor(override, k[1]) = k[2] THEN 0 ELSE Older(floorAge[k], Window + 1)]
  /\ UNCHANGED <<table, projectEnv, floors, pc, project, env, rows, failing>>

\* lookupEnv looks into its cache ...
LookupEnv(c, p) ==
  /\ Goto(c, "idle", IF projectEnv[p] = Unknown THEN "missed" ELSE "known")
  /\ project' = [project EXCEPT ![c] = p]
  /\ env' = [env EXCEPT ![c] = projectEnv[p]]
  /\ UNCHANGED <<table, cache, rows, began, ages>>

\* ... and on a miss reads the row,
GetProject(c) ==
  /\ Goto(c, "missed", "got")
  /\ env' = [env EXCEPT ![c] = environment[project[c]]]
  /\ UNCHANGED <<table, cache, project, rows, began, ages>>

\* (without a row, or with the database failing, every severity is allowed)
GetFails(c) ==
  /\ Goto(c, "missed", "idle")
  /\ project' = [project EXCEPT ![c] = Unknown]
  /\ UNCHANGED <<table, cache, env, rows, began, ages>>

\* and keeps it, for ever.
StoreEnv(c) ==
  /\ Goto(c, "got", "known")
  /\ projectEnv' = [projectEnv EXCEPT ![project[c]] = env[c]]
  /\ UNCHANGED <<table, floors, loaded, project, env, rows, began, ages>>

\* Slip: only an empty cache is loaded.
StaleEmpty == floors = NoRows

Stale == loaded > Refresh \/ floors = NoRows

\* lookupFloor decides whether to load the overrides again ...
LookupFloor(c) ==
  /\ Goto(c, "known", IF Stale THEN "listing" ELSE "ready")
  /\ UNCHANGED <<table, cache, project, env, rows, began, ages>>

\* ... lists them ...
ListOverrides(c) ==
  /\ Goto(c, "listing", "storing")
  /\ rows' = [rows EXCEPT ![c] = override]
  /\ UNCHANGED <<table, cache, project, env, began, ages>>

\* (or fails to, and judges by what it has) ...
ListFails(c) ==
  /\ Goto(c, "listing", "ready")
  /\ failing' = TRUE
  /\ UNCHANGED <<table, cache, project, env, rows, began, envAge, floorAge>>

\* ... and replaces the cache, perhaps after a caller that listed later.
StoreFloors(c) ==
  /\ Goto(c, "storing", "ready")
  /\ floors' = rows[c] /\ loaded' = 0
  /\ rows' = [rows EXCEPT ![c] = NoRows]
  /\ failing' = FALSE
  /\ UNCHANGED <<table, projectEnv, project, env, began, envAge, floorAge>>

\* Allow compares the rule's severity with the floor.
Answer(c) ==
  /\ Goto(c, "ready", "idle")
  /\ project' = [project EXCEPT ![c] = Unknown]
  /\ env' = [env EXCEPT ![c] = Unknown]
  /\ UNCHANGED <<table, cache, rows, began, ages>>

Allow(c) ==
  \/ \E p \in Projects : LookupEnv(c, p)
  \/ GetProject(c) \/ GetFails(c) \/ StoreEnv(c)
  \/ LookupFloor(c) \/ ListOverrides(c) \/ ListFails(c) \/ StoreFloors(c) \/ Answer(c)

-----------------------------------------------------------------------------
\* PATCH of a project.
EditProject(p, e) ==
  /\ environment' = [environment EXCEPT ![p] = e]
  /\ envAge' = [envAge EXCEPT ![<<p, e>>] = 0]
  /\ UNCHANGED <<override, cache, call, failing, floorAge>>

\* validateEnvConfig lets the standard severities pass, or none at all.
ValidFloors == Severities \union {0}

UpsertRow(e, f) == override' = [override EXCEPT ![e] = f]

\* PUT /environments/:env replaces the whole config, with a floor or without.
Upsert(e, f) ==
  /\ f \in ValidFloors /\ UpsertRow(e, f)
  /\ floorAge' = [floorAge EXCEPT ![<<e, Floor(override', e)>>] = 0]
  /\ UNCHANGED <<environment, cache, call, failing, envAge>>

Next ==
  \/ Advance
  \/ \E c \in Callers : Allow(c)
  \/ \E p \in Projects, e \in Envs : EditProject(p, e)
  \/ \E e \in Envs, f \in Severities \union {0} : Upsert(e, f)

Spec == Init /\ [][Next]_vars

-----------------------------------------------------------------------------
(* Properties.                                                             *)

\* Every variable has its type.
TypeOK ==
  /\ environment \in [Projects -> Envs]
  /\ override \in [Envs -> Severities \union {0}]
  /\ projectEnv \in [Projects -> Envs \union {Unknown}]
  /\ floors \in [Envs -> Severities \union {0}] /\ loaded \in 0..(Refresh + 1)
  /\ pc \in [Callers -> {"idle", "missed", "got", "known", "listing", "storing", "ready"}]
  /\ project \in [Callers -> Projects \union {Unknown}]
  /\ env \in [Callers -> Envs \union {Unknown}]
  /\ rows \in [Callers -> [Envs -> Severities \union {0}]]
  /\ began \in [Callers -> 0..MaxCall] /\ failing \in BOOLEAN

Answers(c) == pc[c] = "ready" /\ pc'[c] = "idle"

\* A rule is held against a floor that was in force lately: callers that load
\* the overrides at the same time and store them in the wrong order do not
\* bring back a floor for longer than Window, as long as the lists succeed.
AnswersRecent ==
  ~failing => \A c \in Callers : Answers(c) => floorAge[<<env[c], Floor(floors, env[c])>>] <= Window

FloorIsRecent == [][AnswersRecent]_vars

\* env.go: "rules with a severity below the project's environment floor are
\* suppressed": the environment is one the project had lately.
EnvironmentIsRecent ==
  [][\A c \in Callers : Answers(c) => envAge[<<project[c], env[c]>>] <= Window]_vars

=============================================================================
