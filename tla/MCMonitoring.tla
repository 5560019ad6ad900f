---------------------------- MODULE MCMonitoring ----------------------------
(* Small instances of what watches, and of what tells of an outage: the    *)
(* health engine, discovery, the recorder of the dashboard's own machine,  *)
(* the alert evaluator, the environment floors and the notifier.  A        *)
(* behaviour is one of a single part, the one in focus; parts share the    *)
(* variables whose names they share.                                       *)
EXTENDS Naturals, TLC

CONSTANTS Projects, Effective, Interval, Jitter, MaxRound, Limit,
          MaxTroubles, Ingress, Containers, Apps, NoRow, Capacity,
          TickEvery, CaptureMax, EmitEvery, MaxNow, MoreTroubles, Rules,
          For, Cooldown, MaxLag, Placed, Envs, Severities, Default, Refresh,
          MaxCall, Channels, Callers, Hurried, Deadline, Burst, MaxTokens

VARIABLES
  focus, eligible, phase, due, wait, lastTick, pc, previous, got, overtaken,
  result, event, stopping, blind, since, troubles, rules, containers, apps,
  projects, goroutine, lists, errs, loaded, lost, left, shown, raced,
  settled, now, tickAt, emitAt, capturing, ring, snapshot, judged, todo,
  told, taken, round, slow, rule, triggered, breach, down, lag, listed,
  fired, healthy, skipped, environment, override, projectEnv, floors,
  project, env, rows, began, failing, envAge, floorAge, row, unborn, edits,
  patching, patched, at, copy, delivered, failed, asked, limiter, level

Health == INSTANCE HealthEngine

Discover == INSTANCE Discovery WITH
  Rules <- Ingress, None <- NoRow

Record == INSTANCE Recorder WITH
  MaxTroubles <- MoreTroubles

Alert == INSTANCE Alerting

Floor == INSTANCE EnvFloor WITH
  Projects <- Placed, Callers <- Projects

Notify == INSTANCE Notifying

\* Variables of one part alone, and those several parts have.
healthOnly == <<eligible, wait, lastTick, previous, got, overtaken, result,
                  event, stopping, blind, since>>
discoveryOnly == <<rules, containers, apps, projects, goroutine, lists,
                     errs, lost, shown, raced, settled>>
recorderOnly == <<now, tickAt, emitAt, capturing, ring, snapshot, judged,
                    told, taken, round, slow>>
alertOnly == <<rule, triggered, breach, down, lag, listed, fired, healthy,
                 skipped>>
floorOnly == <<environment, override, projectEnv, floors, project, env,
                 rows, began, failing, envAge, floorAge>>
notifyOnly == <<row, unborn, edits, patching, patched, at, copy, delivered,
                  failed, asked, limiter, level>>
sumVars == <<focus, healthOnly, discoveryOnly, recorderOnly, alertOnly,
             floorOnly, notifyOnly, phase, due, pc, troubles, loaded, left,
             todo>>

\* The variables of the parts out of focus.
Unused == "unused"
healthRests ==
  /\ eligible = Unused /\ wait = Unused /\ lastTick = Unused /\ previous = Unused
  /\ got = Unused /\ overtaken = Unused /\ result = Unused /\ event = Unused
  /\ stopping = Unused /\ blind = Unused /\ since = Unused
discoveryRests ==
  /\ rules = Unused /\ containers = Unused /\ apps = Unused /\ projects = Unused
  /\ goroutine = Unused /\ lists = Unused /\ errs = Unused /\ lost = Unused
  /\ shown = Unused /\ raced = Unused /\ settled = Unused
recorderRests ==
  /\ now = Unused /\ tickAt = Unused /\ emitAt = Unused /\ capturing = Unused
  /\ ring = Unused /\ snapshot = Unused /\ judged = Unused /\ told = Unused
  /\ taken = Unused /\ round = Unused /\ slow = Unused
alertRests ==
  /\ rule = Unused /\ triggered = Unused /\ breach = Unused /\ down = Unused
  /\ lag = Unused /\ listed = Unused /\ fired = Unused /\ healthy = Unused
  /\ skipped = Unused
floorRests ==
  /\ environment = Unused /\ override = Unused /\ projectEnv = Unused /\ floors = Unused
  /\ project = Unused /\ env = Unused /\ rows = Unused /\ began = Unused
  /\ failing = Unused /\ envAge = Unused /\ floorAge = Unused
notifyRests ==
  /\ row = Unused /\ unborn = Unused /\ edits = Unused /\ patching = Unused
  /\ patched = Unused /\ at = Unused /\ copy = Unused /\ delivered = Unused
  /\ failed = Unused /\ asked = Unused /\ limiter = Unused /\ level = Unused

SumInit ==
  \/ /\ focus = "health" /\ Health!Init
     /\ discoveryRests /\ recorderRests /\ alertRests /\ floorRests
     /\ notifyRests
     /\ loaded = Unused /\ left = Unused /\ todo = Unused
  \/ /\ focus = "discovery" /\ Discover!Init
     /\ healthRests /\ recorderRests /\ alertRests /\ floorRests
     /\ notifyRests
     /\ due = Unused /\ pc = Unused /\ troubles = Unused /\ todo = Unused
  \/ /\ focus = "recorder" /\ Record!Init
     /\ healthRests /\ discoveryRests /\ alertRests /\ floorRests
     /\ notifyRests
     /\ phase = Unused /\ due = Unused /\ pc = Unused /\ loaded = Unused
     /\ left = Unused
  \/ /\ focus = "alert" /\ Alert!Init
     /\ healthRests /\ discoveryRests /\ recorderRests /\ floorRests
     /\ notifyRests
     /\ phase = Unused /\ due = Unused /\ loaded = Unused /\ left = Unused
  \/ /\ focus = "floor" /\ Floor!Init
     /\ healthRests /\ discoveryRests /\ recorderRests /\ alertRests
     /\ notifyRests
     /\ phase = Unused /\ due = Unused /\ troubles = Unused /\ left = Unused
     /\ todo = Unused
  \/ /\ focus = "notify" /\ Notify!Init
     /\ healthRests /\ discoveryRests /\ recorderRests /\ alertRests
     /\ floorRests
     /\ phase = Unused /\ loaded = Unused

SumNext ==
  \/ /\ focus = "health" /\ Health!Next
     /\ UNCHANGED <<focus, discoveryOnly, recorderOnly, alertOnly,
                     floorOnly, notifyOnly, loaded, left, todo>>
  \/ /\ focus = "discovery" /\ Discover!Next
     /\ UNCHANGED <<focus, healthOnly, recorderOnly, alertOnly, floorOnly,
                     notifyOnly, due, pc, troubles, todo>>
  \/ /\ focus = "recorder" /\ Record!Next
     /\ UNCHANGED <<focus, healthOnly, discoveryOnly, alertOnly, floorOnly,
                     notifyOnly, phase, due, pc, loaded, left>>
  \/ /\ focus = "alert" /\ Alert!Next
     /\ UNCHANGED <<focus, healthOnly, discoveryOnly, recorderOnly,
                     floorOnly, notifyOnly, phase, due, loaded, left>>
  \/ /\ focus = "floor" /\ Floor!Next
     /\ UNCHANGED <<focus, healthOnly, discoveryOnly, recorderOnly,
                     alertOnly, notifyOnly, phase, due, troubles, left, todo>>
  \/ /\ focus = "notify" /\ Notify!Next
     /\ UNCHANGED <<focus, healthOnly, discoveryOnly, recorderOnly,
                     alertOnly, floorOnly, phase, loaded>>

SumSpec == SumInit /\ [][SumNext]_sumVars

-----------------------------------------------------------------------------
(* Stated in the modules, checked here.                                    *)

\* No eligible project waits for its probe longer than the ticker and the
\* multiplier of its environment explain, and the newest health event of a
\* project agrees with its newest result.
HealthIsTrue ==
  focus = "health" =>
    /\ Health!TypeOK
    /\ Health!ProbedInTime
    /\ Health!EventsTellHealth

\* No shutdown leaves a row that says down.
NoFalseDown == [][focus = "health" => Health!DownWasProbed]_sumVars

\* An adopted batch leaves nothing that runs without a project, no two projects
\* of fresh pages are of one thing, and no source fails without an error.
DiscoveryIsExact ==
  focus = "discovery" =>
    /\ Discover!TypeOK
    /\ Discover!AllAdopted
    /\ Discover!AdoptedOnce
    /\ Discover!FailureIsTold

\* A ring holds the last ticks without a gap, the signals of one emission are
\* of one tick, and every sample is forwarded before the next, unless an
\* evaluation was slow.
SamplesAreWhole ==
  focus = "recorder" =>
    /\ Record!TypeOK
    /\ Record!RingIsLatest
    /\ Record!OneTickPerRound
    /\ Record!EverySampleIsTold

\* A rule fires only for an outage of its whole for_seconds, where no pass
\* skipped the rule, and two firings of a rule for one project are a cooldown
\* apart.
AlertsAreEarned ==
  /\ [](focus = "alert" => Alert!TypeOK)
  /\ [][focus = "alert" => Alert!FiresSustained]_sumVars
  /\ [][focus = "alert" => Alert!FiresCooled]_sumVars

\* A severity is held against a floor that was in force lately.
FloorIsRecent ==
  /\ [](focus = "floor" => Floor!TypeOK)
  /\ [][focus = "floor" => Floor!AnswersRecent]_sumVars

\* A channel never gets more than its burst beyond the rate, no channel loses
\* its secret to a merge, and every channel of a call ends in one of the two
\* answers.
ChannelsAreKept ==
  focus = "notify" =>
    /\ Notify!TypeOK
    /\ Notify!RateKept
    /\ Notify!AlwaysSendable
    /\ Notify!EachAccounted

\* The intervals of the projects, and what runs.
SmallEffective == [p \in Projects |-> 2]
SmallIngress ==
  [host : {"a.x"}, slug : {"a"}, tunnel : {"t"}, port : {1}]
  \union [host : {"b.x"}, slug : {"b"}, tunnel : {"t"}, port : {0}]
SmallContainers == [name : {"c"}, port : {1}, running : {TRUE}]
SmallApps == [name : {"a"}, online : {TRUE}]
\* Sustained times and cooldowns, and the floors.
SmallFor == [r \in Rules |-> 1]
SmallCooldown == [r \in Rules |-> 3]
SmallDefault == [e \in Envs |-> 1]

Symmetry == Permutations(Projects)

=============================================================================
