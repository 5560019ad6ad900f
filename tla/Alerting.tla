------------------------------ MODULE Alerting ------------------------------
(***************************************************************************)
(* The alert evaluator (internal/alerts/evaluator.go), the notifier it     *)
(* sends through, and the handlers of alert rules.  Every project's health *)
(* worker calls Evaluate with what it observed; the calls of different     *)
(* projects overlap, and each works from the rules it listed.  Time is     *)
(* counted in units, as ages: what is older than anybody asks stops        *)
(* ageing.  Which signals the floor of an environment holds back is        *)
(* EnvFloor's subject: here any may be.                                    *)
(***************************************************************************)
EXTENDS Integers, FiniteSets

CONSTANTS
  Projects,
  Rules,        \* ids of rules, in the order of their names
  For,          \* rule -> for_seconds
  Cooldown,     \* rule -> cooldown_seconds
  MaxLag,       \* how long after its observation an Evaluate may still run
  MaxTroubles   \* bound on failing statements and restarts

VARIABLES
  rule,        \* rule -> its row: "absent", "on", "off" or "deleted"
  triggered,   \* rule -> age of last_triggered_at, the greatest without one
  breach,      \* State.firstBreach: rule and project -> age, None without one
  pc,          \* project -> where its Evaluate stands
  down, lag,   \* project -> what was observed, and the age of the observation
  todo,        \* project -> listed rules its Evaluate still has to consider
  listed,      \* project -> triggered as its Evaluate listed it
  fired,       \* history: rule and project -> age of the last recorded firing
  healthy,     \* history: project -> age of the last observation that was up
  skipped,     \* history: rules and projects skipped while a breach was kept
  troubles

tables == <<rule, triggered>>
call == <<pc, down, lag, todo, listed>>
history == <<fired, healthy, skipped>>
vars == <<tables, breach, call, history, troubles>>

None == -1
Keys == Rules \X Projects
Never(r) == Cooldown[r] + MaxLag
Most(r) == For[r] + MaxLag
LongAgo(p) == CHOOSE m \in {Most(r) : r \in Rules} : \A r \in Rules : Most(r) <= m

Older(age, most) == IF age = None THEN None ELSE IF age < most THEN age + 1 ELSE age
Trouble == troubles < MaxTroubles /\ troubles' = troubles + 1

\* stateKey, and the map under the evaluator's lock.
StateKey(r, p) == <<r, p>>
FirstOrSet(r, p, now) == IF breach[StateKey(r, p)] = None THEN now ELSE breach[StateKey(r, p)]
Clear(r, p) == breach' = [breach EXCEPT ![StateKey(r, p)] = None]

Goto(p, from, to) == pc[p] = from /\ pc' = [pc EXCEPT ![p] = to]

Init ==
  /\ rule = [r \in Rules |-> "absent"]
  /\ triggered = [r \in Rules |-> Never(r)]
  /\ breach = [k \in Keys |-> None]
  /\ pc = [p \in Projects |-> "idle"]
  /\ down = [p \in Projects |-> FALSE]
  /\ lag = [p \in Projects |-> 0]
  /\ todo = [p \in Projects |-> {}]
  /\ listed = [p \in Projects |-> triggered]
  /\ fired = [k \in Keys |-> Never(k[1])]
  /\ healthy = [p \in Projects |-> 0]
  /\ skipped = {} /\ troubles = 0

-----------------------------------------------------------------------------
Advance ==
  /\ \A p \in Projects : pc[p] # "idle" => lag[p] < MaxLag
  /\ triggered' = [r \in Rules |-> Older(triggered[r], Never(r))]
  /\ listed' = [p \in Projects |-> [r \in Rules |->
       IF r \in todo[p] THEN Older(listed[p][r], Never(r)) ELSE Never(r)]]
  /\ breach' = [k \in Keys |-> Older(breach[k], Most(k[1]))]
  /\ lag' = [p \in Projects |-> IF pc[p] = "idle" THEN 0 ELSE lag[p] + 1]
  /\ fired' = [k \in Keys |-> Older(fired[k], Never(k[1]))]
  /\ healthy' = [p \in Projects |-> Older(healthy[p], LongAgo(p))]
  /\ UNCHANGED <<rule, pc, down, todo, skipped, troubles>>

\* A probe of project p takes its timestamp and comes to an outcome.
Observe(p, d) ==
  /\ Goto(p, "idle", "observed")
  /\ down' = [down EXCEPT ![p] = d]
  /\ healthy' = [healthy EXCEPT ![p] = IF d THEN @ ELSE 0]
  /\ UNCHANGED <<tables, breach, lag, todo, listed, fired, skipped, troubles>>

\* AlertRepo: the rows in the order of their names, and what writes them.
List == {r \in Rules : rule[r] \in {"on", "off"}}
InsertRow(r, state) == rule[r] = "absent" /\ rule' = [rule EXCEPT ![r] = state]
UpdateRow(r, state) == r \in List /\ rule' = [rule EXCEPT ![r] = state]
EraseRow(r) == r \in List /\ rule' = [rule EXCEPT ![r] = "deleted"]
UpdateLastTriggered(p, r) ==
  IF r \in List THEN triggered' = [triggered EXCEPT ![r] = lag[p]] ELSE UNCHANGED triggered

\* Evaluate lists the rules; those that are disabled are passed over.
ListRules(p) ==
  /\ Goto(p, "observed", "rules")
  /\ todo' = [todo EXCEPT ![p] = {r \in List : rule[r] = "on"}]
  /\ listed' = [listed EXCEPT ![p] = triggered]
  /\ skipped' = skipped \union {k \in Keys : k[2] = p /\ rule[k[1]] = "off" /\ breach[k] # None}
  /\ UNCHANGED <<tables, breach, down, lag, fired, healthy, troubles>>

ListFails(p) ==
  /\ Goto(p, "observed", "rules") /\ Trouble
  /\ skipped' = skipped \union {k \in Keys : k[2] = p /\ breach[k] # None}
  /\ UNCHANGED <<tables, breach, down, lag, todo, listed, fired, healthy>>

\* The rule at hand, in the order of the names.
AtHand(p, r) == pc[p] = "rules" /\ r \in todo[p] /\ \A q \in todo[p] : r <= q
Pass(p, r) == todo' = [todo EXCEPT ![p] = @ \ {r}]

\* EnvFloor.Allow refuses: whatever was observed, the breach stays as it is.
Suppress(p, r) ==
  /\ AtHand(p, r) /\ Pass(p, r)
  /\ skipped' = IF breach[StateKey(r, p)] # None THEN skipped \union {StateKey(r, p)} ELSE skipped
  /\ UNCHANGED <<tables, breach, pc, down, lag, listed, fired, healthy, troubles>>

\* Slip: a recovery that is not the end of the breach.
RecoverKeeps(p, r) ==
  /\ AtHand(p, r) /\ ~down[p] /\ Pass(p, r)
  /\ UNCHANGED <<tables, breach, pc, down, lag, listed, history, troubles>>

\* evaluateRule: not breached.
Recover(p, r) ==
  /\ AtHand(p, r) /\ ~down[p] /\ Pass(p, r)
  /\ Clear(r, p)
  /\ skipped' = skipped \ {StateKey(r, p)}
  /\ UNCHANGED <<tables, pc, down, lag, listed, fired, healthy, troubles>>

\* Slip: a cooldown that never holds.
CooledEarly(p, r) == listed[p][r] + lag[p] >= For[r]

\* Both gates measure up to the timestamp of the observation.
Sustained(p, r, first) == first - lag[p] >= For[r]
Cooled(p, r) == listed[p][r] - lag[p] >= Cooldown[r]

\* Slip: every observation that is down begins the breach anew.
BreachedAnew(p, r) ==
  LET fire == Sustained(p, r, lag[p]) /\ Cooled(p, r)
  IN  /\ AtHand(p, r) /\ down[p]
      /\ breach' = [breach EXCEPT ![StateKey(r, p)] = lag[p]]
      /\ IF fire THEN pc' = [pc EXCEPT ![p] = "firing"] /\ UNCHANGED todo
                 ELSE Pass(p, r) /\ UNCHANGED pc
      /\ UNCHANGED <<tables, down, lag, listed, history, troubles>>

\* evaluateRule: breached, up to the decision to notify.
Breached(p, r) ==
  LET first == FirstOrSet(r, p, lag[p])
      fire == Sustained(p, r, first) /\ Cooled(p, r)
  IN  /\ AtHand(p, r) /\ down[p]
      /\ breach' = [breach EXCEPT ![StateKey(r, p)] = first]
      /\ IF fire THEN pc' = [pc EXCEPT ![p] = "firing"] /\ UNCHANGED todo
                 ELSE Pass(p, r) /\ UNCHANGED pc
      /\ UNCHANGED <<tables, down, lag, listed, history, troubles>>

\* Notify: some channel of the rule is enabled and its sender succeeds ...
Deliver(p) ==
  /\ Goto(p, "firing", "fired")
  /\ UNCHANGED <<tables, breach, down, lag, todo, listed, history, troubles>>

\* ... or none: disabled, deleted, at its rate limit or unreachable.  The
\* firing is recorded and cools down all the same.
NotifyFails(p) ==
  /\ Goto(p, "firing", "fired") /\ Trouble
  /\ UNCHANGED <<tables, breach, down, lag, todo, listed, history>>

\* The event, UpdateLastTriggered (which may fail) and the end of the breach.
Stamp(p, r) ==
  /\ pc[p] = "fired" /\ r \in todo[p] /\ \A q \in todo[p] : r <= q
  /\ pc' = [pc EXCEPT ![p] = "rules"] /\ Pass(p, r)
  /\ \/ /\ UpdateLastTriggered(p, r)
        /\ fired' = [fired EXCEPT ![StateKey(r, p)] = lag[p]]
        /\ UNCHANGED troubles
     \/ Trouble /\ UNCHANGED <<triggered, fired>>
  /\ Clear(r, p)
  /\ skipped' = skipped \ {StateKey(r, p)}
  /\ UNCHANGED <<rule, down, lag, listed, healthy>>

Return(p) ==
  /\ todo[p] = {} /\ Goto(p, "rules", "idle")
  /\ down' = [down EXCEPT ![p] = FALSE]
  /\ lag' = [lag EXCEPT ![p] = 0]
  /\ listed' = [listed EXCEPT ![p] = [r \in Rules |-> Never(r)]]
  /\ UNCHANGED <<tables, breach, todo, history, troubles>>

Consider(p, r) == Suppress(p, r) \/ Recover(p, r) \/ Breached(p, r) \/ Stamp(p, r)

Evaluate(p) ==
  \/ ListRules(p) \/ ListFails(p) \/ Deliver(p) \/ NotifyFails(p) \/ Return(p)
  \/ \E r \in Rules : Consider(p, r)

-----------------------------------------------------------------------------
(* The handlers.  PATCH reads the row and writes every column but          *)
(* last_triggered_at, so what it writes to enabled may be what another     *)
(* PATCH has changed since.                                                *)

CreateRule(r) ==
  /\ \E state \in {"on", "off"} : InsertRow(r, state)
  /\ UNCHANGED <<triggered, breach, call, history, troubles>>

PatchRule(r) ==
  /\ \E state \in {"on", "off"} : UpdateRow(r, state)
  /\ UNCHANGED <<triggered, breach, call, history, troubles>>

DeleteRule(r) ==
  /\ EraseRow(r)
  /\ UNCHANGED <<triggered, breach, call, history, troubles>>

Handler(r) == CreateRule(r) \/ PatchRule(r) \/ DeleteRule(r)

\* The evaluator's memory is gone, the rows stay.
Restart ==
  /\ Trouble
  /\ breach' = [k \in Keys |-> None]
  /\ pc' = [p \in Projects |-> "idle"]
  /\ down' = [p \in Projects |-> FALSE]
  /\ lag' = [p \in Projects |-> 0]
  /\ todo' = [p \in Projects |-> {}]
  /\ listed' = [p \in Projects |-> [r \in Rules |-> Never(r)]]
  /\ skipped' = {}
  /\ UNCHANGED <<tables, fired, healthy>>

Next ==
  \/ Advance \/ Restart
  \/ \E r \in Rules : Handler(r)
  \/ \E p \in Projects : Evaluate(p) \/ \E d \in BOOLEAN : Observe(p, d)

Spec == Init /\ [][Next]_vars

\* The engine probes again and again, an Evaluate runs to its end.
FairSpec ==
  /\ Spec
  /\ WF_vars(Advance)
  /\ \A p \in Projects :
       /\ WF_vars(Evaluate(p))
       /\ WF_vars(\E d \in BOOLEAN : Observe(p, d))

-----------------------------------------------------------------------------
(* Properties.                                                             *)

\* Every variable has its type.
TypeOK ==
  /\ rule \in [Rules -> {"absent", "on", "off", "deleted"}]
  /\ \A r \in Rules : triggered[r] \in 0..Never(r)
  /\ \A k \in Keys : breach[k] \in {None} \union 0..Most(k[1])
  /\ pc \in [Projects -> {"idle", "observed", "rules", "firing", "fired"}]
  /\ down \in [Projects -> BOOLEAN] /\ lag \in [Projects -> 0..MaxLag]
  /\ todo \in [Projects -> SUBSET Rules]
  /\ \A p \in Projects, r \in Rules : listed[p][r] \in 0..Never(r)
  /\ \A k \in Keys : fired[k] \in 0..Never(k[1])
  /\ \A p \in Projects : healthy[p] \in 0..LongAgo(p)
  /\ skipped \subseteq Keys /\ troubles \in 0..MaxTroubles

Fires(p, r) == r \in todo[p] /\ (\A q \in todo[p] : r <= q) /\ pc[p] = "rules" /\ pc'[p] = "firing"

\* evaluator.go: State tracks "when each rule first crossed its threshold so a
\* sustained-duration check can fire correctly": a rule fires for a project
\* that was down at every observation of the last for_seconds.
SustainedMeansSustained ==
  [][\A p \in Projects, r \in Rules : Fires(p, r) => healthy[p] - lag[p] >= For[r]]_vars

\* The same where no observation since the breach began passed the rule by.
FiresSustained ==
  \A p \in Projects, r \in Rules :
    Fires(p, r) /\ StateKey(r, p) \notin skipped => healthy[p] - lag[p] >= For[r]

SustainedUnlessSkipped == [][FiresSustained]_vars

\* Two recorded firings of a rule for one project are a cooldown apart.  The
\* row is shared by all projects and stamped in any order, which may cost as
\* much as two observations of one round are apart.
FiresCooled ==
  \A p \in Projects, r \in Rules :
    Fires(p, r) => fired[StateKey(r, p)] - lag[p] >= Cooldown[r] - MaxLag

CooldownKept == [][FiresCooled]_vars

\* A project that stays down while a rule is enabled is announced again and
\* again, whatever edits, restarts and failures came before, unless the floor
\* of its environment holds the rule back for ever.
LastingOutageIsDelivered ==
  \A p \in Projects, r \in Rules :
    <>[](rule[r] = "on" /\ (pc[p] = "rules" => down[p]))
      => []<><<Deliver(p)>>_vars \/ []<><<Suppress(p, r)>>_vars

=============================================================================
