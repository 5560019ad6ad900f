------------------------------- MODULE Discovery -------------------------------
(***************************************************************************)
(* What runs on the machine, correlated into candidates and adopted as     *)
(* projects: Capture and buildCandidates (internal/discovery/discovery.go),*)
(* AdoptAll (internal/discovery/adopt.go) and the adopt handlers           *)
(* (handlers/discovery.go).                                                *)
(*                                                                         *)
(* Three goroutines list the sources together, into one slice of errors.   *)
(* Names are compared by what the code compares: a rule has a host and the *)
(* slug of it, an app and a container have a name.                         *)
(***************************************************************************)
EXTENDS FiniteSets, Naturals, Functions

CONSTANTS
  Rules,        \* ingress rules: [host, slug, tunnel, port], port 0 for none
  Containers,   \* containers: [name, port, running], port 0 for none published
  Apps,         \* pm2 apps: [name, online]
  None          \* an empty column

VARIABLES
  rules, containers, apps,  \* what there is
  projects,                 \* the rows: [name, domain, container, app, tunnel]
  goroutine,                \* source -> where its goroutine stands
  lists,                    \* source -> what it listed, or has not
  errs, loaded,             \* Capture's errs, source -> errs as its append read it
  lost,                     \* history: sources that failed in this capture
  left,                     \* candidates of the snapshot still to be adopted
  shown,                    \* candidates on a page that was left open
  raced,                    \* history: one was adopted that no longer was to be
  phase,                    \* "rest", "capture" or "adopt"
  settled                   \* history: since the last adoption nothing changed

sources == <<goroutine, lists, errs, loaded, lost>>
world == <<rules, containers, apps>>
page == <<shown, raced>>
vars == <<world, projects, sources, left, page, phase, settled>>

Source == {"docker", "pm2", "tunnel"}

\* What Docker may have: no two containers have one name.
ContainerSets ==
  {cs \in SUBSET Containers : \A c, d \in cs : c.name = d.name => c = d}

Init ==
  /\ rules \in SUBSET Rules /\ containers \in ContainerSets /\ apps \in SUBSET Apps
  /\ projects = {}
  /\ goroutine = [s \in Source |-> "idle"] /\ lists = [s \in Source |-> {}]
  /\ errs = {} /\ loaded = [s \in Source |-> {}] /\ lost = {}
  /\ left = {} /\ shown = {} /\ raced = FALSE /\ phase = "rest" /\ settled = FALSE

-----------------------------------------------------------------------------
(* buildCandidates.                                                        *)

\* matchContainerByPort, matchPM2BySlug: the first in the order they are
\* listed in, which is any.
MatchContainerByPort(cs, port) == {c \in cs : port # 0 /\ c.port = port}
MatchPM2BySlug(as, slug) == {a \in as : a.name = slug}

\* A set with one of the names in it, or with the empty column.
OneOf(found) == IF found = {} THEN {None} ELSE {x.name : x \in found}

\* scoreSources: by how many sources there are.
Score(found) == CASE Cardinality(found) = 3 -> 100 [] Cardinality(found) = 2 -> 75
                  [] OTHER -> 50

Kinds(container, app) ==
  {"tunnel"} \union (IF container = None THEN {} ELSE {"docker"})
             \union (IF app = None THEN {} ELSE {"pm2"})

\* Phase 1: the candidates a rule may give; one that forwards to no port is
\* matched with nothing.
ByRule(r, cs, as) ==
  IF r.port = 0
  THEN {[name |-> r.slug, domain |-> r.host, tunnel |-> r.tunnel,
         container |-> None, app |-> None, score |-> 25]}
  ELSE UNION {{[name |-> r.slug, domain |-> r.host, tunnel |-> r.tunnel,
                container |-> c, app |-> a, score |-> Score(Kinds(c, a))] :
                   a \in OneOf(MatchPM2BySlug(as, r.slug))} :
                c \in OneOf(MatchContainerByPort(cs, r.port))}

\* Phase 2: running containers with a port, phase 3: online apps, that no rule
\* has taken.
OrphanContainers(taken, cs) ==
  {[name |-> c.name, domain |-> None, tunnel |-> None, container |-> c.name,
    app |-> None, score |-> 40] :
       c \in {d \in cs : d.running /\ d.port # 0 /\ \A t \in taken : t.container # d.name}}

OrphanApps(taken, as) ==
  {[name |-> a.name, domain |-> None, tunnel |-> None, container |-> None,
    app |-> a.name, score |-> 40] :
       a \in {b \in as : b.online /\ \A t \in taken : t.app # b.name}}

\* One candidate per rule, and the orphans.
Candidates(rs, cs, as) ==
  {Range(pick) \union OrphanContainers(Range(pick), cs) \union OrphanApps(Range(pick), as) :
     pick \in {f \in [rs -> UNION {ByRule(r, cs, as) : r \in rs}] :
                 \A r \in rs : f[r] \in ByRule(r, cs, as)}}

\* Slip: only what is published is looked at.
MarkAdoptedPublished(c, ps) ==
  \E p \in ps : \/ c.tunnel # None /\ p.tunnel = c.tunnel
                \/ c.domain # None /\ p.domain = c.domain

\* Slip: an empty column equals an empty column.
MarkAdoptedEmpty(c, ps) ==
  \E p \in ps : \/ p.container = c.container \/ p.app = c.app
                \/ p.tunnel = c.tunnel \/ p.domain = c.domain

\* Phase 4, markAdopted: any identifier in common, be it the tunnel alone.
MarkAdopted(c, ps) ==
  \E p \in ps : \/ c.container # None /\ p.container = c.container
                \/ c.app # None /\ p.app = c.app
                \/ c.tunnel # None /\ p.tunnel = c.tunnel
                \/ c.domain # None /\ p.domain = c.domain

-----------------------------------------------------------------------------
(* Capture.                                                                *)

Begin ==
  /\ phase = "rest" /\ phase' = "capture"
  /\ goroutine' = [s \in Source |-> "listing"]
  /\ UNCHANGED <<world, projects, lists, errs, loaded, lost, left, page, settled>>

What(s) == CASE s = "docker" -> containers [] s = "pm2" -> apps [] s = "tunnel" -> rules

List(s) ==
  /\ goroutine[s] = "listing" /\ goroutine' = [goroutine EXCEPT ![s] = "done"]
  /\ lists' = [lists EXCEPT ![s] = What(s)]
  /\ UNCHANGED <<world, projects, errs, loaded, lost, left, page, phase, settled>>

\* The error of a source is appended to errs: that is a read ...
ListFails(s) ==
  /\ goroutine[s] = "listing" /\ goroutine' = [goroutine EXCEPT ![s] = "append"]
  /\ loaded' = [loaded EXCEPT ![s] = errs]
  /\ lost' = lost \union {s}
  /\ UNCHANGED <<world, projects, lists, errs, left, page, phase, settled>>

\* Slip: the error is logged only.
AppendForgotten(s) ==
  /\ goroutine[s] = "append" /\ goroutine' = [goroutine EXCEPT ![s] = "done"]
  /\ loaded' = [loaded EXCEPT ![s] = {}]
  /\ UNCHANGED <<world, projects, lists, errs, lost, left, page, phase, settled>>

\* ... and a write, with nothing between the goroutines to order them.
AppendError(s) ==
  /\ goroutine[s] = "append" /\ goroutine' = [goroutine EXCEPT ![s] = "done"]
  /\ errs' = loaded[s] \union {s} /\ loaded' = [loaded EXCEPT ![s] = {}]
  /\ UNCHANGED <<world, projects, lists, lost, left, page, phase, settled>>

\* g.Wait, the projects, the candidates of which the adopted are passed over.
Correlate ==
  /\ phase = "capture" /\ \A s \in Source : goroutine[s] = "done"
  /\ phase' = "adopt"
  /\ \E all \in Candidates(lists["tunnel"], lists["docker"], lists["pm2"]) :
       left' = {c \in all : ~MarkAdopted(c, projects)}
  /\ goroutine' = [s \in Source |-> "idle"] /\ lists' = [s \in Source |-> {}]
  /\ UNCHANGED <<world, projects, errs, loaded, lost, page, settled>>

-----------------------------------------------------------------------------
(* Adoption.                                                               *)

\* Capture sorts by confidence.
First(c) == \A d \in left : c.score >= d.score

\* candidateToProject, adoptOne; Create refuses a name that is taken.
Project(c) ==
  [name |-> c.name, domain |-> c.domain, container |-> c.container, app |-> c.app,
   tunnel |-> c.tunnel]

Insert(c) ==
  projects' = IF \E p \in projects : p.name = c.name THEN projects
              ELSE projects \union {Project(c)}

\* AdoptAll, and adoptMany of a snapshot just taken: one after the other, whatever becomes of the others.
Adopt(c) ==
  /\ phase = "adopt" /\ c \in left /\ First(c)
  /\ Insert(c) /\ left' = left \ {c}
  /\ UNCHANGED <<world, sources, page, phase, settled>>

\* A candidate of a snapshot stays on a page (one at a time is the bound).
\* adopt and adoptMany take it as the page sends it, with AlreadyAdopted as it
\* was when the snapshot was taken.
Show ==
  /\ phase = "adopt" /\ shown = {} /\ \E c \in left : shown' = {c}
  /\ left' = {} /\ phase' = "rest" /\ errs' = {} /\ lost' = {} /\ settled' = FALSE
  /\ UNCHANGED <<world, projects, goroutine, lists, loaded, raced>>

AdoptShown(c) ==
  /\ phase = "rest" /\ c \in shown
  /\ Insert(c) /\ shown' = shown \ {c}
  /\ raced' = (raced \/ MarkAdopted(c, projects))
  /\ UNCHANGED <<world, sources, left, phase, settled>>

\* The end of the batch; or adopt, adoptMany leave the rest of the snapshot.
AdoptEnds ==
  /\ phase = "adopt" /\ phase' = "rest"
  /\ settled' = (left = {} /\ lost = {}) /\ left' = {}
  /\ errs' = {} /\ lost' = {}
  /\ UNCHANGED <<world, projects, goroutine, lists, loaded, page>>

\* Between two captures a project is deleted, or what runs changes.
Delete(p) ==
  /\ phase = "rest" /\ projects' = projects \ {p} /\ settled' = FALSE
  /\ UNCHANGED <<world, sources, left, page, phase>>

Change ==
  /\ phase = "rest" /\ settled' = FALSE
  /\ \/ rules' \in SUBSET Rules /\ UNCHANGED <<containers, apps>>
     \/ containers' \in ContainerSets /\ UNCHANGED <<rules, apps>>
     \/ apps' \in SUBSET Apps /\ UNCHANGED <<rules, containers>>
  /\ UNCHANGED <<projects, sources, left, page, phase>>

Next ==
  \/ Begin \/ Correlate \/ Show \/ AdoptEnds \/ Change
  \/ \E s \in Source : List(s) \/ ListFails(s) \/ AppendError(s)
  \/ \E c \in left : Adopt(c)
  \/ \E c \in shown : AdoptShown(c)
  \/ \E p \in projects : Delete(p)

Spec == Init /\ [][Next]_vars

-----------------------------------------------------------------------------
(* Properties.                                                             *)

\* Every variable has its type.
TypeOK ==
  /\ rules \subseteq Rules /\ containers \subseteq Containers /\ apps \subseteq Apps
  /\ goroutine \in [Source -> {"idle", "listing", "append", "done"}]
  /\ errs \subseteq Source /\ loaded \in [Source -> SUBSET Source] /\ lost \subseteq Source
  /\ phase \in {"rest", "capture", "adopt"} /\ settled \in BOOLEAN /\ raced \in BOOLEAN
  /\ \A p \in projects : DOMAIN p = {"name", "domain", "container", "app", "tunnel"}

\* A project that has something of what rule r leads to.
Shares(p, r) ==
  \/ p.name = r.slug \/ p.tunnel = r.tunnel \/ p.app = r.slug
  \/ \E c \in containers : c.port = r.port /\ p.container = c.name

\* Once a batch whose sources all answered was adopted to its end, whatever runs
\* and whatever is published has a project, its own or one it shares a part
\* with: nothing was taken by a candidate that was then not adopted.
AllAdopted ==
  settled =>
    /\ \A r \in rules : \E p \in projects : Shares(p, r)
    /\ \A c \in containers : c.running /\ c.port # 0 =>
         \E p \in projects : \/ p.container = c.name \/ p.name = c.name
                            \/ \E r \in rules : r.port = c.port /\ Shares(p, r)
    /\ \A a \in apps : a.online =>
         \E p \in projects : \/ p.app = a.name \/ p.name = a.name
                            \/ \E r \in rules : r.slug = a.name /\ Shares(p, r)

\* As long as no page adopts what was adopted since it was shown, all is adopted
\* once: no two of them are of one host, or run nothing
\* but the same container or app.
AdoptedOnce ==
  ~raced => \A p, q \in projects : p # q =>
    /\ p.domain # None => p.domain # q.domain
    /\ p.domain = None /\ p.container # None => p.container # q.container
    /\ p.domain = None /\ p.app # None => p.app # q.app

\* A source that failed leaves an error, if not always its own: what is shown
\* as the whole machine is never half of it without a word.
FailureIsTold == phase = "adopt" /\ lost # {} => errs # {}

\* discovery.go: "folds the results into candidates and an aggregate error
\* list.  Per-source failures degrade gracefully into errs entries".
EveryFailureIsTold == phase = "adopt" => errs = lost

=============================================================================
