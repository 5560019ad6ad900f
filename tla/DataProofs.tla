----------------------------- MODULE DataProofs -----------------------------
(* Theorems about what keeps the dashboard's data, for any bounds: each    *)
(* part on its own, then the same of the composition the runs check.       *)
EXTENDS MCData, Sequences, SequenceTheorems, FiniteSetTheorems, TLAPS

\* What the two properties rest on: the marker stands only on a full column,
\* so a marked column and a full one alike refuse every further line.
ColumnInv ==
  /\ column \in [kept : Nat, marked : BOOLEAN]
  /\ printed \in Nat
  /\ KeepsThePrefix
  /\ MarkerMeansLoss

\* The inductive invariant.
LEMMA ColumnInvHolds == Spec => []ColumnInv
<1> USE OutputAssumption
        DEF ColumnInv, KeepsThePrefix, MarkerMeansLoss, Column
<1>1. Init => ColumnInv
  BY DEF Init
<1>2. ColumnInv /\ [Next]_vars => ColumnInv'
  <2> SUFFICES ASSUME ColumnInv, [Next]_vars PROVE ColumnInv'
    OBVIOUS
  <2>1. ASSUME NEW n \in LineSizes, Arrive(n) PROVE ColumnInv'
    <3>1. n \in Nat \ {0} /\ printed' = printed + n
      BY <2>1 DEF Arrive
    <3>2. CASE column.marked \/ column.kept >= OutputCap
      BY <2>1, <3>1, <3>2 DEF Arrive, AppendOutput
    <3>3. CASE ~column.marked /\ column.kept < OutputCap
      BY <2>1, <3>1, <3>3 DEF Arrive, AppendOutput
    <3> QED
      BY <3>2, <3>3
  <2>2. ASSUME UNCHANGED vars PROVE ColumnInv'
    BY <2>2 DEF vars
  <2> QED
    BY <2>1, <2>2 DEF Next
<1> QED
  BY <1>1, <1>2, PTL DEF Spec

\* The column is the first outputCap bytes of the output.
THEOREM PrefixKept == Spec => []KeepsThePrefix
BY ColumnInvHolds, PTL DEF ColumnInv

\* A column with the truncation marker has lost output.
THEOREM MarkerIsHonest == Spec => []MarkerMeansLoss
BY ColumnInvHolds, PTL DEF ColumnInv

\* What the runs check implements the column: in every part's behaviours it
\* grows as OutputColumn says, or stays as it is.
THEOREM ColumnImplemented == SumSpec => Spec
<1>1. SumInit => Init
  BY DEF SumInit
<1>2. [SumNext]_sumVars => [Next]_vars
  BY DEF SumNext, sumVars, outputOnly, vars
<1> QED
  BY <1>1, <1>2, PTL DEF SumSpec, Spec

\* Both properties of what the runs check.
THEOREM ColumnHoldsThroughout == SumSpec => [](KeepsThePrefix /\ MarkerMeansLoss)
BY ColumnImplemented, PrefixKept, MarkerIsHonest, PTL

-----------------------------------------------------------------------------
\* The bounds are numbers, and what is not a project is no id and no row.
ProjectBounded ==
  /\ MaxTroubles \in Nat /\ MaxSecrets \in Nat /\ NoRow \notin Things
  /\ NoRow \notin Project!Columns /\ "none" \notin Handlers

\* Types of what a request has read.
ColumnNames == {"name", "deploy", "secret"}
Asked ==
  /\ id \in [Handlers -> Things \union {NoRow}]
  /\ copy \in [Handlers -> Project!Columns \union {NoRow}]
  /\ \A h \in Handlers : pc[h] # "idle" => op[h] # "none"

\* A project that is there is meant to be.
Meant == \A p \in Things : Project!Exists(p) <=> meant[p] # NoRow

\* A copy nobody wrote behind is the row, but for the columns of its own body.
\* The body of a put has all but the secret.
Changed(h) == IF op[h] = "put" THEN {"name", "deploy"} ELSE {op[h]}
Current ==
  \A h \in Handlers : pc[h] # "idle" /\ fresh[h] =>
    /\ Project!Exists(id[h])
    /\ \A c \in ColumnNames :
         copy[h][c] = row[id[h]][c] \/ (pc[h] = "edited" /\ c \in Changed(h))

ProjectInv == Project!TypeOK /\ Asked /\ Meant /\ Current /\ Project!EditsStand

\* A row with one column of another row.
LEMMA ColumnOfAnother ==
  ASSUME NEW r \in Project!Columns, NEW t \in Project!Columns, NEW c \in ColumnNames
  PROVE  /\ [r EXCEPT ![c] = t[c]] \in Project!Columns
         /\ \A d \in ColumnNames \ {c} : [r EXCEPT ![c] = t[c]][d] = r[d]
         /\ [r EXCEPT ![c] = t[c]][c] = t[c]
<1>1. CASE c = "name"
  BY <1>1 DEF Project!Columns, ColumnNames
<1>2. CASE c = "deploy"
  BY <1>2 DEF Project!Columns, ColumnNames
<1>3. CASE c = "secret"
  BY <1>3 DEF Project!Columns, ColumnNames
<1> QED
  BY <1>1, <1>2, <1>3 DEF ColumnNames

\* Two rows with the same columns are the same.
LEMMA SameColumns ==
  ASSUME NEW r \in Project!Columns, NEW t \in Project!Columns,
         \A c \in ColumnNames : r[c] = t[c]
  PROVE  r = t
<1>1. r.name = t.name /\ r.deploy = t.deploy /\ r.secret = t.secret
  BY DEF ColumnNames
<1> QED
  BY <1>1 DEF Project!Columns

\* What every write of a row makes of the copies.
LEMMA WrittenEffect ==
  ASSUME Project!TypeOK, NEW p, NEW new, NEW g, Project!Written(p, new, g)
  PROVE  /\ row' = [row EXCEPT ![p] = new]
         /\ fresh' \in [Handlers -> BOOLEAN]
         /\ \A h \in Handlers : h # g /\ id[h] # NoRow /\ fresh'[h] => fresh[h] /\ id[h] # p
<1>1. fresh' = [h \in Handlers |-> IF h = g \/ id[h] = NoRow THEN TRUE ELSE fresh[h] /\ id[h] # p]
  BY DEF Project!Written
<1>2. fresh' \in [Handlers -> BOOLEAN]
  BY <1>1 DEF Project!TypeOK
<1>3. \A h \in Handlers : h # g /\ id[h] # NoRow /\ fresh'[h] => fresh[h] /\ id[h] # p
  BY <1>1, Zenon
<1> QED
  BY <1>2, <1>3 DEF Project!Written

\* What a body, or a new secret, does to the copy.
LEMMA BodyEffect ==
  ASSUME ProjectBounded, Project!TypeOK, Asked, NEW h \in Handlers,
         \/ Project!Generate(h)
         \/ \E new \in Project!Columns : Project!Put(h, new) \/ Project!Patch(h, new)
  PROVE  \E r \in Project!Columns :
           /\ pc[h] = "read" /\ pc' = [pc EXCEPT ![h] = "edited"]
           /\ copy' = [copy EXCEPT ![h] = r]
           /\ \A c \in ColumnNames \ Changed(h) : r[c] = copy[h][c]
           /\ UNCHANGED <<row, unborn, op, id, fresh, meant, blurred, troubles>>
           /\ secrets' \in 0..MaxSecrets
<1>1. CASE Project!Generate(h)
  <2>1. /\ pc[h] = "read" /\ op[h] = "secret" /\ secrets' \in 0..MaxSecrets
        /\ copy' = [copy EXCEPT ![h] = [copy[h] EXCEPT !.secret = secrets + 1]]
        /\ pc' = [pc EXCEPT ![h] = "edited"]
        /\ UNCHANGED <<row, unborn, op, id, fresh, meant, blurred, troubles>>
    BY <1>1 DEF Project!Generate, Project!Goto, Project!history, Project!TypeOK, ProjectBounded
  <2>2. copy[h] \in Project!Columns /\ secrets + 1 \in 0..MaxSecrets
    BY <1>1, <2>1 DEF Project!TypeOK, Asked, Project!Generate, ProjectBounded
  <2> DEFINE r == [copy[h] EXCEPT !.secret = secrets + 1]
  <2>3. r \in Project!Columns /\ \A c \in {"name", "deploy"} : r[c] = copy[h][c]
    BY <2>2 DEF Project!Columns
  <2>4. Changed(h) = {"secret"}
    BY <2>1 DEF Changed
  <2>5. copy' = [copy EXCEPT ![h] = r]
    BY <2>1
  <2> HIDE DEF r
  <2> QED
    BY <2>1, <2>3, <2>4, <2>5 DEF ColumnNames
<1>2. ASSUME NEW new \in Project!Columns, Project!Put(h, new)
      PROVE  \E r \in Project!Columns :
               /\ pc[h] = "read" /\ pc' = [pc EXCEPT ![h] = "edited"]
               /\ copy' = [copy EXCEPT ![h] = r]
               /\ \A c \in ColumnNames \ Changed(h) : r[c] = copy[h][c]
               /\ UNCHANGED <<row, unborn, op, id, fresh, meant, blurred, troubles>>
               /\ secrets' \in 0..MaxSecrets
  <2> DEFINE r == [new EXCEPT !.secret = copy[h].secret]
  <2>1. /\ pc[h] = "read" /\ op[h] = "put" /\ secrets' \in 0..MaxSecrets
        /\ copy' = [copy EXCEPT ![h] = r] /\ pc' = [pc EXCEPT ![h] = "edited"]
        /\ UNCHANGED <<row, unborn, op, id, fresh, meant, blurred, troubles>>
    BY <1>2 DEF Project!Put, Project!Goto, Project!history, Project!TypeOK
  <2>2. copy[h] \in Project!Columns
    BY <2>1 DEF Project!TypeOK, Asked
  <2>3. r \in Project!Columns /\ r.secret = copy[h].secret
    BY <2>2 DEF Project!Columns
  <2>4. Changed(h) = {"name", "deploy"}
    BY <2>1 DEF Changed
  <2> HIDE DEF r
  <2> QED
    BY <2>1, <2>3, <2>4 DEF ColumnNames
<1>3. ASSUME NEW new \in Project!Columns, Project!Patch(h, new)
      PROVE  \E r \in Project!Columns :
               /\ pc[h] = "read" /\ pc' = [pc EXCEPT ![h] = "edited"]
               /\ copy' = [copy EXCEPT ![h] = r]
               /\ \A c \in ColumnNames \ Changed(h) : r[c] = copy[h][c]
               /\ UNCHANGED <<row, unborn, op, id, fresh, meant, blurred, troubles>>
               /\ secrets' \in 0..MaxSecrets
  <2>1. /\ pc[h] = "read" /\ op[h] \in {"name", "deploy"} /\ secrets' \in 0..MaxSecrets
        /\ copy' = [copy EXCEPT ![h] = new] /\ pc' = [pc EXCEPT ![h] = "edited"]
        /\ new \in Project!Apply(copy[h], op[h])
        /\ UNCHANGED <<row, unborn, op, id, fresh, meant, blurred, troubles>>
    BY <1>3 DEF Project!Patch, Project!Goto, Project!history, Project!TypeOK
  <2>2. copy[h] \in Project!Columns
    BY <2>1 DEF Project!TypeOK, Asked
  <2>3. DOMAIN copy[h] = ColumnNames
    BY <2>2 DEF Project!Columns, ColumnNames
  <2>4. \A c \in ColumnNames \ {op[h]} : new[c] = copy[h][c]
    BY <2>1, <2>3 DEF Project!Apply
  <2>5. Changed(h) = {op[h]}
    BY <2>1 DEF Changed
  <2> QED
    BY <2>1, <2>4, <2>5
<1> QED
  BY <1>1, <1>2, <1>3

\* What an answered Update leaves the columns meant to be.
LEMMA AnswerEffect ==
  ASSUME ProjectBounded, Project!TypeOK, Asked, Meant, NEW h \in Handlers,
         Project!Answer(h)
  PROVE  /\ pc[h] = "edited" /\ id[h] \in Things /\ Project!Exists(id[h])
         /\ copy[h] \in Project!Columns
         /\ Project!Written(id[h], copy[h], h) /\ Project!Idle(h)
         /\ \E m \in Project!Columns :
              /\ meant' = [meant EXCEPT ![id[h]] = m]
              /\ \A c \in ColumnNames : m[c] = IF c \in Changed(h) THEN copy[h][c]
                                               ELSE meant[id[h]][c]
         /\ blurred' = IF fresh[h] THEN blurred ELSE blurred \union {id[h]}
         /\ UNCHANGED <<unborn, secrets, troubles>>
<1> DEFINE m == IF op[h] = "put" THEN [copy[h] EXCEPT !.secret = meant[id[h]].secret]
                ELSE [meant[id[h]] EXCEPT ![op[h]] = copy[h][op[h]]]
<1>1. /\ pc[h] = "edited" /\ Project!Exists(id[h])
      /\ Project!Written(id[h], copy[h], h) /\ Project!Idle(h)
      /\ meant' = [meant EXCEPT ![id[h]] = m]
      /\ blurred' = IF fresh[h] THEN blurred ELSE blurred \union {id[h]}
      /\ UNCHANGED <<unborn, secrets, troubles>>
  BY DEF Project!Answer, Project!Update
<1>2. id[h] \in Things /\ copy[h] \in Project!Columns /\ op[h] \in ColumnNames \union {"put"}
  BY <1>1 DEF Project!TypeOK, Asked, ColumnNames
<1>3. meant[id[h]] \in Project!Columns
  BY <1>1, <1>2 DEF Meant, Project!TypeOK
<1>4. /\ m \in Project!Columns
      /\ \A c \in ColumnNames : m[c] = IF c \in Changed(h) THEN copy[h][c] ELSE meant[id[h]][c]
  <2>1. PICK r \in Project!Columns : r = copy[h]
    BY <1>2
  <2>2. PICK t \in Project!Columns : t = meant[id[h]]
    BY <1>3
  <2>3. CASE op[h] = "put"
    <3>1. m = [r EXCEPT !.secret = t.secret]
      BY <2>1, <2>2, <2>3
    <3>2. /\ [r EXCEPT !["secret"] = t["secret"]] \in Project!Columns
          /\ \A d \in ColumnNames \ {"secret"} : [r EXCEPT !["secret"] = t["secret"]][d] = r[d]
          /\ [r EXCEPT !["secret"] = t["secret"]]["secret"] = t["secret"]
      BY ColumnOfAnother DEF ColumnNames
    <3> QED
      BY <2>1, <2>2, <2>3, <3>1, <3>2 DEF ColumnNames, Changed
  <2>4. CASE op[h] # "put"
    <3>1. PICK c \in ColumnNames : c = op[h]
      BY <1>2, <2>4
    <3>2. m = [t EXCEPT ![c] = r[c]]
      BY <2>1, <2>2, <2>4, <3>1
    <3>3. /\ [t EXCEPT ![c] = r[c]] \in Project!Columns
          /\ \A d \in ColumnNames \ {c} : [t EXCEPT ![c] = r[c]][d] = t[d]
          /\ [t EXCEPT ![c] = r[c]][c] = r[c]
      BY ColumnOfAnother
    <3> QED
      BY <2>1, <2>2, <2>4, <3>1, <3>2, <3>3 DEF Changed
  <2> QED
    BY <2>3, <2>4
<1> HIDE DEF m
<1> QED
  BY <1>1, <1>2, <1>4

\* Every step keeps the types, and which projects are meant to be.
LEMMA ProjectTypeStep ==
  ASSUME ProjectBounded, Project!TypeOK, Asked, Meant, [Project!Next]_Project!vars
  PROVE  Project!TypeOK' /\ Asked' /\ Meant'
<1> USE DEF ProjectBounded, Project!TypeOK, Asked, Meant, Project!Exists, Project!Trouble,
            Project!Goto, Project!Idle, Project!handler, Project!history
<1>1. ASSUME NEW p \in Things, Project!Delete(p) PROVE Project!TypeOK' /\ Asked' /\ Meant'
  <2>1. row' = [row EXCEPT ![p] = NoRow] /\ fresh' \in [Handlers -> BOOLEAN]
    BY <1>1, WrittenEffect DEF Project!Delete, Project!Erase
  <2> QED
    BY <1>1, <2>1 DEF Project!Delete
<1>2. ASSUME NEW p \in Things, NEW new \in Project!Columns,
             Project!Create(p, new) \/ Project!CreateLost(p, new)
      PROVE  Project!TypeOK' /\ Asked' /\ Meant'
  <2>1. row' = [row EXCEPT ![p] = new] /\ fresh' \in [Handlers -> BOOLEAN]
    BY <1>2, WrittenEffect DEF Project!Create, Project!CreateLost, Project!Insert
  <2> QED
    BY <1>2, <2>1 DEF Project!Create, Project!CreateLost, Project!Insert
<1>3. ASSUME NEW h \in Handlers, NEW p \in Things,
             NEW o \in {"put", "name", "deploy", "secret"}, Project!Get(h, o, p)
      PROVE  Project!TypeOK' /\ Asked' /\ Meant'
  BY <1>3 DEF Project!Get
<1>4. ASSUME NEW h \in Handlers,
             \/ Project!Generate(h)
             \/ \E new \in Project!Columns : Project!Put(h, new) \/ Project!Patch(h, new)
      PROVE  Project!TypeOK' /\ Asked' /\ Meant'
  <2>1. PICK r \in Project!Columns :
           /\ pc[h] = "read" /\ pc' = [pc EXCEPT ![h] = "edited"]
           /\ copy' = [copy EXCEPT ![h] = r]
           /\ \A c \in ColumnNames \ Changed(h) : r[c] = copy[h][c]
           /\ UNCHANGED <<row, unborn, op, id, fresh, meant, blurred, troubles>>
           /\ secrets' \in 0..MaxSecrets
    <3> HIDE DEF Project!TypeOK, Asked, ProjectBounded
    <3> QED
      BY <1>4, BodyEffect
  <2> QED
    BY <2>1
<1>5. ASSUME NEW h \in Handlers, Project!Refuse(h) PROVE Project!TypeOK' /\ Asked' /\ Meant'
  BY <1>5 DEF Project!Refuse
<1>6. ASSUME NEW h \in Handlers, Project!Answer(h) PROVE Project!TypeOK' /\ Asked' /\ Meant'
  <2>1. /\ id[h] \in Things /\ copy[h] \in Project!Columns /\ row[id[h]] # NoRow
        /\ Project!Written(id[h], copy[h], h) /\ Project!Idle(h)
        /\ blurred' = IF fresh[h] THEN blurred ELSE blurred \union {id[h]}
        /\ UNCHANGED <<unborn, secrets, troubles>>
    BY <1>6, AnswerEffect
  <2>2. PICK m \in Project!Columns :
           /\ meant' = [meant EXCEPT ![id[h]] = m]
           /\ \A c \in ColumnNames : m[c] = IF c \in Changed(h) THEN copy[h][c]
                                            ELSE meant[id[h]][c]
    <3> HIDE DEF Project!TypeOK, Asked, ProjectBounded, Meant
    <3> QED
      BY <1>6, AnswerEffect
  <2>3. row' = [row EXCEPT ![id[h]] = copy[h]] /\ fresh' \in [Handlers -> BOOLEAN]
    BY <2>1, WrittenEffect
  <2> QED
    BY <2>1, <2>2, <2>3
<1>7. ASSUME NEW h \in Handlers, Project!AnswerLost(h) PROVE Project!TypeOK' /\ Asked' /\ Meant'
  <2>1. row' = [row EXCEPT ![id[h]] = copy[h]] /\ fresh' \in [Handlers -> BOOLEAN]
        /\ id[h] \in Things /\ copy[h] \in Project!Columns /\ row[id[h]] # NoRow
    BY <1>7, WrittenEffect DEF Project!AnswerLost, Project!Update
  <2>2. /\ Project!Trouble /\ Project!Idle(h) /\ blurred' = blurred \union {id[h]}
        /\ UNCHANGED <<unborn, secrets, meant>>
    BY <1>7 DEF Project!AnswerLost
  <2>3. /\ row' \in [Things -> Project!Columns \union {NoRow}]
        /\ \A p \in Things : row'[p] # NoRow <=> row[p] # NoRow
    BY <2>1
  <2>4. Asked' /\ troubles' \in 0..MaxTroubles
    BY <2>2
  <2> QED
    BY <2>1, <2>2, <2>3, <2>4
<1>8. CASE UNCHANGED Project!vars
  BY <1>8 DEF Project!vars
<1> QED
  BY <1>1, <1>2, <1>3, <1>4, <1>5, <1>6, <1>7, <1>8 DEF Project!Next

\* Every step keeps what a fresh copy has of its row, and the columns.
LEMMA CurrentStep ==
  ASSUME ProjectBounded, ProjectInv, [Project!Next]_Project!vars
  PROVE  Current' /\ Project!EditsStand'
<1> USE DEF ProjectBounded, ProjectInv, Project!TypeOK, Asked, Project!Exists, Project!Goto,
            Project!Idle, Project!handler, Project!history, Project!EditsStand, Current
<1>0. \A g \in Handlers : pc[g] # "idle" => id[g] \in Things /\ copy[g] \in Project!Columns
  OBVIOUS
\* A write to p, by a request that is idle then or by none.
<1>1. ASSUME NEW p \in Things, NEW new, NEW g,
             Project!Written(p, new, g),
             \A h \in Handlers : pc'[h] # "idle" =>
               /\ h # g /\ pc'[h] = pc[h] /\ op'[h] = op[h] /\ id'[h] = id[h]
               /\ copy'[h] = copy[h]
      PROVE  Current'
  <2>1. /\ row' = [row EXCEPT ![p] = new]
        /\ \A h \in Handlers : h # g /\ id[h] # NoRow /\ fresh'[h] => fresh[h] /\ id[h] # p
    BY <1>1, WrittenEffect
  <2>2. ASSUME NEW h \in Handlers, pc'[h] # "idle", fresh'[h]
        PROVE  /\ row'[id'[h]] # NoRow
               /\ \A c \in ColumnNames : copy'[h][c] = row'[id'[h]][c]
                                         \/ (pc'[h] = "edited" /\ c \in Changed(h)')
    <3>1. /\ h # g /\ pc'[h] = pc[h] /\ op'[h] = op[h] /\ id'[h] = id[h] /\ copy'[h] = copy[h]
      BY <1>1, <2>2
    <3>2. fresh[h] /\ id[h] # p /\ id[h] \in Things
      BY <1>0, <2>1, <2>2, <3>1
    <3>3. row'[id[h]] = row[id[h]] /\ Changed(h)' = Changed(h)
      BY <2>1, <3>1, <3>2 DEF Changed
    <3> QED
      BY <2>2, <3>1, <3>2, <3>3
  <2> QED
    BY <2>2
<1>2. ASSUME NEW p \in Things, Project!Delete(p) PROVE Current' /\ Project!EditsStand'
  <2>1. /\ Project!Written(p, NoRow, "none") /\ meant' = [meant EXCEPT ![p] = NoRow]
        /\ UNCHANGED <<pc, op, id, copy, blurred>>
    BY <1>2 DEF Project!Delete, Project!Erase
  <2>2. Current'
    BY <1>1, <2>1
  <2>3. row' = [row EXCEPT ![p] = NoRow]
    BY <2>1 DEF Project!Written
  <2> QED
    BY <2>1, <2>2, <2>3
<1>3. ASSUME NEW p \in Things, NEW new \in Project!Columns,
             Project!Create(p, new) \/ Project!CreateLost(p, new)
      PROVE  Current' /\ Project!EditsStand'
  <2>1. /\ Project!Written(p, new, "none") /\ meant' = [meant EXCEPT ![p] = new]
        /\ blurred \subseteq blurred' /\ UNCHANGED <<pc, op, id, copy>>
    BY <1>3 DEF Project!Create, Project!CreateLost, Project!Insert
  <2>2. Current'
    BY <1>1, <2>1
  <2>3. row' = [row EXCEPT ![p] = new]
    BY <2>1 DEF Project!Written
  <2> QED
    BY <2>1, <2>2, <2>3
<1>4. ASSUME NEW h \in Handlers, NEW p \in Things,
             NEW o \in {"put", "name", "deploy", "secret"}, Project!Get(h, o, p)
      PROVE  Current' /\ Project!EditsStand'
  <2>1. /\ row[p] # NoRow /\ pc' = [pc EXCEPT ![h] = "read"] /\ op' = [op EXCEPT ![h] = o]
        /\ id' = [id EXCEPT ![h] = p] /\ copy' = [copy EXCEPT ![h] = row[p]]
        /\ \A g \in Handlers \ {h} : fresh'[g] = fresh[g]
        /\ UNCHANGED <<row, meant, blurred>>
    BY <1>4 DEF Project!Get
  <2>2. \A g \in Handlers \ {h} : Changed(g)' = Changed(g)
    BY <2>1 DEF Changed
  <2>3. Current'
    BY <2>1, <2>2
  <2> QED
    BY <2>1, <2>3
<1>5. ASSUME NEW h \in Handlers,
             \/ Project!Generate(h)
             \/ \E new \in Project!Columns : Project!Put(h, new) \/ Project!Patch(h, new)
      PROVE  Current' /\ Project!EditsStand'
  <2>1. PICK r \in Project!Columns :
           /\ pc[h] = "read" /\ pc' = [pc EXCEPT ![h] = "edited"]
           /\ copy' = [copy EXCEPT ![h] = r]
           /\ \A c \in ColumnNames \ Changed(h) : r[c] = copy[h][c]
           /\ UNCHANGED <<row, unborn, op, id, fresh, meant, blurred, troubles>>
           /\ secrets' \in 0..MaxSecrets
    <3> HIDE DEF ProjectInv, Project!TypeOK, Asked, ProjectBounded, Current
    <3> QED
      BY <1>5, BodyEffect DEF ProjectInv
  <2>2. \A g \in Handlers : Changed(g)' = Changed(g)
    BY <2>1 DEF Changed
  <2>3. Current'
    BY <2>1, <2>2
  <2> QED
    BY <2>1, <2>3
<1>6. ASSUME NEW h \in Handlers, Project!Refuse(h) PROVE Current' /\ Project!EditsStand'
  <2>1. /\ pc' = [pc EXCEPT ![h] = "idle"] /\ op' = [op EXCEPT ![h] = "none"]
        /\ id' = [id EXCEPT ![h] = NoRow] /\ copy' = [copy EXCEPT ![h] = NoRow]
        /\ \A g \in Handlers \ {h} : fresh'[g] = fresh[g]
        /\ UNCHANGED <<row, meant, blurred>>
    BY <1>6 DEF Project!Refuse
  <2>2. \A g \in Handlers \ {h} : Changed(g)' = Changed(g)
    BY <2>1 DEF Changed
  <2>3. Current'
    BY <2>1, <2>2
  <2> QED
    BY <2>1, <2>3
<1>7. ASSUME NEW h \in Handlers, Project!Answer(h) PROVE Current' /\ Project!EditsStand'
  <2>1. /\ pc[h] = "edited" /\ id[h] \in Things /\ row[id[h]] # NoRow
        /\ copy[h] \in Project!Columns
        /\ Project!Written(id[h], copy[h], h) /\ Project!Idle(h)
        /\ blurred' = IF fresh[h] THEN blurred ELSE blurred \union {id[h]}
    BY <1>7, AnswerEffect
  <2>2. PICK m \in Project!Columns :
           /\ meant' = [meant EXCEPT ![id[h]] = m]
           /\ \A c \in ColumnNames : m[c] = IF c \in Changed(h) THEN copy[h][c]
                                            ELSE meant[id[h]][c]
    <3> HIDE DEF ProjectInv, Project!TypeOK, Asked, ProjectBounded, Meant
    <3> QED
      BY <1>7, AnswerEffect DEF ProjectInv
  <2>3. row' = [row EXCEPT ![id[h]] = copy[h]]
    BY <2>1 DEF Project!Written
  <2>4. Current'
    BY <1>1, <2>1
  <2>5. ASSUME id[h] \notin blurred' PROVE copy[h] = m
    <3>1. fresh[h] /\ row[id[h]] = meant[id[h]]
      BY <2>1, <2>5
    <3>2. \A c \in ColumnNames : copy[h][c] = m[c]
      BY <2>1, <2>2, <3>1
    <3> QED
      BY <2>1, <3>2, SameColumns
  <2>6. Project!EditsStand'
    <3>1. \A p \in Things \ {id[h]} : row'[p] = row[p] /\ meant'[p] = meant[p]
      BY <2>2, <2>3
    <3>2. row'[id[h]] = copy[h] /\ meant'[id[h]] = m /\ blurred \subseteq blurred'
      BY <2>1, <2>2, <2>3
    <3> QED
      BY <2>5, <3>1, <3>2
  <2> QED
    BY <2>4, <2>6
<1>8. ASSUME NEW h \in Handlers, Project!AnswerLost(h) PROVE Current' /\ Project!EditsStand'
  <2>1. /\ Project!Written(id[h], copy[h], h) /\ Project!Idle(h) /\ id[h] \in Things
        /\ meant' = meant /\ blurred' = blurred \union {id[h]}
    BY <1>8 DEF Project!AnswerLost, Project!Update
  <2>2. Current'
    BY <1>1, <2>1
  <2>3. row' = [row EXCEPT ![id[h]] = copy[h]]
    BY <2>1 DEF Project!Written
  <2> QED
    BY <2>1, <2>2, <2>3
<1>9. CASE UNCHANGED Project!vars
  BY <1>9 DEF Project!vars, Changed
<1> QED
  BY <1>2, <1>3, <1>4, <1>5, <1>6, <1>7, <1>8, <1>9 DEF Project!Next

\* The columns of a project are what its answered edits made them, whatever
\* requests overlap, until a stale copy is written or a write is not answered.
THEOREM ProjectHolds ==
  ASSUME ProjectBounded PROVE Project!Spec => [](Project!TypeOK /\ Project!EditsStand)
<1>1. Project!Init => ProjectInv
  BY DEF Project!Init, ProjectBounded, ProjectInv, Project!TypeOK, Asked, Meant, Current,
         Project!EditsStand, Project!Exists
<1>2. ProjectInv /\ [Project!Next]_Project!vars => ProjectInv'
  BY ProjectTypeStep, CurrentStep DEF ProjectInv
<1> QED
  BY <1>1, <1>2, PTL DEF Project!Spec, ProjectInv

\* The same of what the runs check.
THEOREM ProjectHoldsThroughout == ASSUME ProjectBounded PROVE SumSpec => []ProjectEditsStand
<1>1. SumInit /\ focus = "project" => Project!Init
  BY DEF SumInit
<1>2. focus = "project" /\ [SumNext]_sumVars
        => [Project!Next]_Project!vars /\ (focus = "project")'
  BY DEF SumNext, outputOnly, migrationOnly, projectOnly, webhookOnly, sumVars,
         Project!handler, Project!history, Project!vars
<1>3. ~(focus = "project") /\ [SumNext]_sumVars => (~(focus = "project"))'
  BY DEF SumNext, sumVars
<1>4. (focus = "project" => Project!TypeOK /\ Project!EditsStand) => ProjectEditsStand
  BY DEF ProjectEditsStand
<1>5. Project!Spec => [](Project!TypeOK /\ Project!EditsStand)
  BY ProjectHolds, PTL
<1> QED
  BY <1>1, <1>2, <1>3, <1>4, <1>5, PTL DEF SumSpec, Project!Spec

-----------------------------------------------------------------------------
\* The bounds are numbers, and there is a secret beside the empty one.
HookBounded ==
  /\ MaxPushes \in Nat /\ MaxRuns \in Nat /\ MaxTroubles \in Nat /\ MaxEdits \in Nat \ {0}

\* Nobody knows of a commit that was not pushed.
Pushed ==
  /\ deployed <= head
  /\ \A d \in sent : d.commit <= head
  /\ \A h \in Handlers : req[h].commit <= head
  /\ \A i \in 1..MaxRuns : run[i].need <= head /\ run[i].pulled <= head

\* One run at a time is under way, the last; what it has pulled is what is on
\* the machine, and no older than what it was asked for.
OneUnderWay ==
  /\ \A i \in 1..MaxRuns :
       /\ run[i].status = "running" => i = count /\ locked
       /\ i > count => run[i].status = "absent"
       /\ run[i].status = "running" /\ run[i].pulled # Hook!Nothing
            => run[i].pulled >= run[i].need /\ deployed = run[i].pulled
       /\ run[i].status = "success" => run[i].pulled >= run[i].need
  /\ \A h \in Handlers : pc[h] = "wait" => req[h].id \in 1..MaxRuns
  /\ \A a \in answers : a.id \in 1..MaxRuns

\* The branch's head is on the machine, or it is on its way in a delivery, a
\* request or a run, or something was missed.
HeadOnItsWay ==
  \/ missed
  \/ deployed = head
  \/ \E d \in sent : d.commit = head /\ d.event \in {"push", "none"}
  \/ \E h \in Handlers : pc[h] = "trigger" /\ req[h].commit = head
  \/ \E i \in 1..MaxRuns : run[i].status = "running" /\ run[i].need = head

HookInv == Hook!TypeOK /\ Pushed /\ OneUnderWay /\ Hook!WaitedIsFinal /\ HeadOnItsWay

\* A request that ends leaves its handler as it began, the others as they are.
LEMMA HookEnds ==
  ASSUME HookBounded, Hook!TypeOK, NEW h \in Handlers, Hook!Ends(h)
  PROVE  /\ pc' \in [Handlers -> {"idle", "trigger", "wait"}]
         /\ req' \in [Handlers -> [commit : Hook!Commits, wait : BOOLEAN, id : 0..MaxRuns]]
         /\ pc'[h] = "idle" /\ req'[h].commit = 0 /\ 0 \in 0..MaxRuns
         /\ \A g \in Handlers \ {h} : pc'[g] = pc[g] /\ req'[g] = req[g]
<1>1. Hook!NoRequest \in [commit : Hook!Commits, wait : BOOLEAN, id : 0..MaxRuns]
  BY DEF Hook!NoRequest, Hook!Commits, HookBounded
<1>2. Hook!NoRequest.commit = 0 /\ 0 \in 0..MaxRuns
  BY DEF Hook!NoRequest, HookBounded
<1> QED
  BY <1>1, <1>2 DEF Hook!Ends, Hook!TypeOK

\* Every step keeps the types.
LEMMA HookTypeStep ==
  ASSUME HookBounded, HookInv, [Hook!Next]_Hook!vars
  PROVE  Hook!TypeOK'
<1> USE DEF HookBounded, Hook!TypeOK, Hook!Commits, Hook!Secrets, Hook!Nothing, Hook!Trouble,
            Hook!Goto, Hook!Ends, Hook!NoRequest
<1>0. Hook!TypeOK
  BY DEF HookInv
<1>1. ASSUME NEW event \in Hook!Events, Hook!Push(event) \/ Hook!Tell(event) PROVE Hook!TypeOK'
  BY <1>0, <1>1 DEF Hook!Push, Hook!Tell, Hook!Deliveries, Hook!Events
<1>2. ASSUME Hook!Edit PROVE Hook!TypeOK'
  <2>1. UNCHANGED <<head, hook, sent, pc, req, locked, run, count, deployed, missed,
                    answers, troubles>>
    BY <1>2 DEF Hook!Edit
  <2>2. edits' \in 0..MaxEdits
    BY <1>0, <1>2 DEF Hook!Edit
  <2>3. project' \in [enabled : BOOLEAN, secret : Hook!Secrets]
    BY <1>0, <1>2 DEF Hook!Edit
  <2> QED
    BY <1>0, <2>1, <2>2, <2>3
<1>3. ASSUME Hook!SetHook PROVE Hook!TypeOK'
  BY <1>0, <1>3 DEF Hook!SetHook
<1>4. ASSUME Hook!Release PROVE Hook!TypeOK'
  BY <1>0, <1>4 DEF Hook!Release
<1>5. ASSUME Hook!Crash PROVE Hook!TypeOK'
  <2>1. /\ UNCHANGED <<head, hook, sent, project, count, deployed, answers, edits>>
        /\ locked' = FALSE /\ missed' = TRUE /\ troubles' \in 0..MaxTroubles
    BY <1>0, <1>5 DEF Hook!Crash
  <2>2. /\ pc' \in [Handlers -> {"idle", "trigger", "wait"}]
        /\ req' \in [Handlers -> [commit : Hook!Commits, wait : BOOLEAN, id : 0..MaxRuns]]
    BY <1>5 DEF Hook!Crash
  <2>3. run' \in [1..MaxRuns -> [status : {"absent", "running", "success", "failed", "unknown"},
                                need : Hook!Commits, pulled : Hook!Commits \union {Hook!Nothing}]]
    BY <1>0, <1>5 DEF Hook!Crash
  <2> QED
    BY <1>0, <2>1, <2>2, <2>3
<1>6. ASSUME NEW d \in sent, Hook!Ping(d) PROVE Hook!TypeOK'
  BY <1>0, <1>6 DEF Hook!Ping, Hook!Taken
<1>7. ASSUME NEW d \in sent, Hook!Refuse(d) PROVE Hook!TypeOK'
  <2>1. /\ UNCHANGED <<head, hook, project, pc, req, locked, run, count, deployed, answers, edits>>
        /\ sent' \subseteq sent /\ troubles' \in 0..MaxTroubles
    BY <1>0, <1>7 DEF Hook!Refuse, Hook!Taken
  <2>2. missed' = missed \/ missed' = (missed \/ d.event # "other")
    BY <1>7 DEF Hook!Refuse
  <2>3. missed' \in BOOLEAN
    BY <1>0, <2>2
  <2> QED
    BY <1>0, <2>1, <2>3
<1>8. ASSUME NEW d \in sent, NEW h \in Handlers, Hook!Receive(h, d) PROVE Hook!TypeOK'
  BY <1>0, <1>8 DEF Hook!Receive, Hook!Taken, Hook!RemoteRef, Hook!Deliveries
<1>9. ASSUME NEW h \in Handlers, NEW wait \in BOOLEAN, Hook!BeginManual(h, wait)
      PROVE  Hook!TypeOK'
  BY <1>0, <1>9 DEF Hook!BeginManual
<1>10. ASSUME NEW h \in Handlers, Hook!Trigger(h) PROVE Hook!TypeOK'
  <2>1. /\ UNCHANGED <<head, hook, sent, project, deployed, missed, answers, edits, troubles>>
        /\ locked' = TRUE /\ count + 1 \in 1..MaxRuns /\ count' = count + 1
    BY <1>0, <1>10 DEF Hook!Trigger
  <2>2. run' = [run EXCEPT ![count + 1] = [status |-> "running", need |-> req[h].commit,
                                           pulled |-> Hook!Nothing]]
    BY <1>10 DEF Hook!Trigger
  <2>3. run' \in [1..MaxRuns -> [status : {"absent", "running", "success", "failed", "unknown"},
                                need : Hook!Commits, pulled : Hook!Commits \union {Hook!Nothing}]]
    BY <1>0, <2>1, <2>2
  <2>4. /\ pc' \in [Handlers -> {"idle", "trigger", "wait"}]
        /\ req' \in [Handlers -> [commit : Hook!Commits, wait : BOOLEAN, id : 0..MaxRuns]]
    <3>1. CASE pc' = [pc EXCEPT ![h] = "wait"] /\ req' = [req EXCEPT ![h].id = count + 1]
      <4>1. [req[h] EXCEPT !.id = count + 1]
              \in [commit : Hook!Commits, wait : BOOLEAN, id : 0..MaxRuns]
        <5>1. req[h] \in [commit : Hook!Commits, wait : BOOLEAN, id : 0..MaxRuns]
          BY <1>0
        <5>2. count + 1 \in 0..MaxRuns
          BY <1>0, <2>1
        <5> HIDE DEF Hook!Commits
        <5> QED
          BY <5>1, <5>2
      <4>2. req' = [req EXCEPT ![h] = [req[h] EXCEPT !.id = count + 1]]
        BY <3>1
      <4> QED
        BY <1>0, <3>1, <4>1, <4>2
    <3>2. CASE Hook!Ends(h)
      BY <1>0, <3>2, HookEnds
    <3> QED
      BY <1>10, <3>1, <3>2 DEF Hook!Trigger
  <2> QED
    BY <1>0, <2>1, <2>3, <2>4
<1>11. ASSUME NEW h \in Handlers, Hook!AlreadyRunning(h) \/ Hook!TriggerFails(h)
       PROVE  Hook!TypeOK'
  <2>1. /\ UNCHANGED <<head, hook, sent, project, locked, run, count, deployed, answers, edits>>
        /\ troubles' \in 0..MaxTroubles
    BY <1>0, <1>11 DEF Hook!AlreadyRunning, Hook!TriggerFails
  <2>2. /\ pc' \in [Handlers -> {"idle", "trigger", "wait"}]
        /\ req' \in [Handlers -> [commit : Hook!Commits, wait : BOOLEAN, id : 0..MaxRuns]]
    <3>1. Hook!Ends(h)
      BY <1>11 DEF Hook!AlreadyRunning, Hook!TriggerFails
    <3> QED
      BY <1>0, <3>1, HookEnds
  <2>3. missed' = (missed \/ req[h].commit > 0)
    BY <1>11 DEF Hook!AlreadyRunning, Hook!TriggerFails
  <2>4. missed' \in BOOLEAN
    BY <1>0, <2>3
  <2> QED
    BY <1>0, <2>1, <2>2, <2>4
<1>12. ASSUME NEW h \in Handlers, Hook!Waited(h) \/ Hook!WaitTimesOut(h) PROVE Hook!TypeOK'
  <2>1. UNCHANGED <<head, hook, sent, project, locked, run, count, deployed, missed, edits,
                    troubles>>
    BY <1>12 DEF Hook!Waited, Hook!WaitTimesOut
  <2>2. /\ pc' \in [Handlers -> {"idle", "trigger", "wait"}]
        /\ req' \in [Handlers -> [commit : Hook!Commits, wait : BOOLEAN, id : 0..MaxRuns]]
    <3>1. Hook!Ends(h)
      BY <1>12 DEF Hook!Waited, Hook!WaitTimesOut
    <3> QED
      BY <1>0, <3>1, HookEnds
  <2> QED
    BY <1>0, <2>1, <2>2
<1>13. ASSUME NEW i \in 1..MaxRuns, Hook!Pull(i) PROVE Hook!TypeOK'
  BY <1>0, <1>13 DEF Hook!Pull
<1>14. ASSUME NEW i \in 1..MaxRuns, NEW status \in {"success", "failed"}, Hook!Finish(i, status)
       PROVE  Hook!TypeOK'
  <2>1. /\ UNCHANGED <<head, hook, sent, project, pc, req, locked, count, deployed, answers, edits>>
        /\ troubles' \in 0..MaxTroubles
    BY <1>0, <1>14 DEF Hook!Finish
  <2>2. PICK x \in {"success", "failed", "unknown"} : run' = [run EXCEPT ![i].status = x]
    BY <1>14 DEF Hook!Finish
  <2>3. run' \in [1..MaxRuns -> [status : {"absent", "running", "success", "failed", "unknown"},
                                need : Hook!Commits, pulled : Hook!Commits \union {Hook!Nothing}]]
    BY <1>0, <2>2
  <2>4. missed' = (missed \/ status # "success")
    BY <1>14 DEF Hook!Finish
  <2>5. missed' \in BOOLEAN
    BY <1>0, <2>4
  <2> QED
    BY <1>0, <2>1, <2>3, <2>5
<1>15. CASE UNCHANGED Hook!vars
  BY <1>0, <1>15 DEF Hook!vars
<1> QED
  BY <1>1, <1>2, <1>3, <1>4, <1>5, <1>6, <1>7, <1>8, <1>9, <1>10, <1>11, <1>12, <1>13, <1>14,
     <1>15 DEF Hook!Next

\* Every step leaves every commit that is known of pushed.
LEMMA PushedStep ==
  ASSUME HookBounded, HookInv, Hook!TypeOK', [Hook!Next]_Hook!vars
  PROVE  Pushed'
<1> USE DEF Hook!Trouble, Hook!Goto, Hook!Nothing
<1>0. Hook!TypeOK /\ Pushed /\ head \in Nat /\ deployed \in Nat
  BY DEF HookInv, HookBounded, Hook!TypeOK, Hook!Commits
<1>1. ASSUME NEW event \in Hook!Events, Hook!Push(event) PROVE Pushed'
  <2>1. /\ head' = head + 1
        /\ sent' = sent \union {[commit |-> head + 1, signed |-> hook, event |-> event]}
        /\ UNCHANGED <<req, run, deployed>>
    BY <1>1 DEF Hook!Push
  <2>2. \A d \in sent : d.commit \in Nat
    BY <1>0 DEF HookBounded, Hook!TypeOK, Hook!Deliveries, Hook!Commits
  <2>3. \A h \in Handlers : req[h].commit \in Nat
    BY <1>0 DEF HookBounded, Hook!TypeOK, Hook!Commits
  <2>4. \A i \in 1..MaxRuns : run[i].need \in Int /\ run[i].pulled \in Int
    BY <1>0 DEF HookBounded, Hook!TypeOK, Hook!Commits
  <2>5. \A d \in sent' : d.commit <= head'
    BY <1>0, <2>1, <2>2 DEF Pushed
  <2>6. \A h \in Handlers : req'[h].commit <= head'
    BY <1>0, <2>1, <2>3 DEF Pushed
  <2>7. \A i \in 1..MaxRuns : run'[i].need <= head' /\ run'[i].pulled <= head'
    BY <1>0, <2>1, <2>4 DEF Pushed
  <2>8. deployed' <= head'
    BY <1>0, <2>1 DEF Pushed
  <2> QED
    BY <2>5, <2>6, <2>7, <2>8 DEF Pushed
<1>2. ASSUME NEW event \in Hook!Events, Hook!Tell(event) PROVE Pushed'
  BY <1>0, <1>2 DEF Hook!Tell, Pushed
<1>3. CASE Hook!Edit \/ Hook!SetHook \/ Hook!Release \/ UNCHANGED Hook!vars
  <2>1. UNCHANGED <<head, sent, req, run, deployed>>
    BY <1>3 DEF Hook!Edit, Hook!SetHook, Hook!Release, Hook!vars
  <2> QED
    BY <1>0, <2>1 DEF Pushed
<1>4. CASE Hook!Crash
  <2>1. /\ UNCHANGED <<head, sent, deployed>>
        /\ \A h \in Handlers : req'[h].commit = 0
    BY <1>4 DEF Hook!Crash, Hook!NoRequest
  <2>2. \A i \in 1..MaxRuns : run'[i].need = run[i].need /\ run'[i].pulled = run[i].pulled
    BY <1>0, <1>4 DEF Hook!Crash, Hook!TypeOK
  <2> QED
    BY <1>0, <2>1, <2>2 DEF Pushed
<1>5. ASSUME NEW d \in sent, Hook!Ping(d) \/ Hook!Refuse(d) PROVE Pushed'
  <2>1. sent' \subseteq sent /\ UNCHANGED <<head, req, run, deployed>>
    BY <1>5 DEF Hook!Ping, Hook!Refuse, Hook!Taken
  <2> QED
    BY <1>0, <2>1 DEF Pushed
<1>6. ASSUME NEW d \in sent, NEW h \in Handlers, Hook!Receive(h, d) PROVE Pushed'
  <2>1. /\ sent' \subseteq sent /\ UNCHANGED <<head, run, deployed>>
        /\ req' = [req EXCEPT ![h] = [commit |-> d.commit, wait |-> FALSE, id |-> 0]]
    BY <1>6 DEF Hook!Receive, Hook!Taken, Hook!RemoteRef
  <2>2. \A g \in Handlers : req'[g].commit <= head
    BY <1>0, <2>1 DEF Pushed, Hook!TypeOK
  <2> QED
    BY <1>0, <2>1, <2>2 DEF Pushed
<1>7. ASSUME NEW h \in Handlers, NEW wait \in BOOLEAN, Hook!BeginManual(h, wait) PROVE Pushed'
  <2>1. /\ UNCHANGED <<head, sent, run, deployed>>
        /\ req' = [req EXCEPT ![h] = [commit |-> 0, wait |-> wait, id |-> 0]]
    BY <1>7 DEF Hook!BeginManual
  <2>2. \A g \in Handlers : req'[g].commit <= head
    BY <1>0, <2>1 DEF Pushed, Hook!TypeOK
  <2> QED
    BY <1>0, <2>1, <2>2 DEF Pushed
<1>8. ASSUME NEW h \in Handlers, Hook!Trigger(h) PROVE Pushed'
  <2>1. /\ UNCHANGED <<head, sent, deployed>> /\ count + 1 \in 1..MaxRuns
        /\ run' = [run EXCEPT ![count + 1] = [status |-> "running", need |-> req[h].commit,
                                             pulled |-> -1]]
    BY <1>0, <1>8 DEF Hook!Trigger, HookBounded, Hook!TypeOK
  <2>2. \A g \in Handlers : req'[g].commit \in {req[g].commit, 0}
    <3>1. CASE req' = [req EXCEPT ![h].id = count + 1]
      BY <1>0, <3>1 DEF Hook!TypeOK
    <3>2. CASE Hook!Ends(h)
      BY <1>0, <3>2 DEF Hook!TypeOK, Hook!Ends, Hook!NoRequest
    <3> QED
      BY <1>8, <3>1, <3>2 DEF Hook!Trigger
  <2>3. \A g \in Handlers : req'[g].commit <= head'
    BY <1>0, <2>1, <2>2 DEF Pushed
  <2>4. \A i \in 1..MaxRuns : run'[i].need <= head' /\ run'[i].pulled <= head'
    BY <1>0, <2>1 DEF Pushed, Hook!TypeOK
  <2> QED
    BY <1>0, <2>1, <2>3, <2>4 DEF Pushed
<1>9. ASSUME NEW h \in Handlers,
             \/ Hook!AlreadyRunning(h) \/ Hook!TriggerFails(h)
             \/ Hook!Waited(h) \/ Hook!WaitTimesOut(h)
      PROVE  Pushed'
  <2>1. Hook!Ends(h) /\ UNCHANGED <<head, sent, run, deployed>>
    BY <1>9 DEF Hook!AlreadyRunning, Hook!TriggerFails, Hook!Waited, Hook!WaitTimesOut
  <2>2. \A g \in Handlers : req'[g].commit <= head
    BY <1>0, <2>1, HookEnds DEF Pushed
  <2> QED
    BY <1>0, <2>1, <2>2 DEF Pushed
<1>10. ASSUME NEW i \in 1..MaxRuns, Hook!Pull(i) PROVE Pushed'
  BY <1>0, <1>10 DEF Hook!Pull, Pushed, Hook!TypeOK
<1>11. ASSUME NEW i \in 1..MaxRuns, NEW status \in {"success", "failed"}, Hook!Finish(i, status)
       PROVE  Pushed'
  <2>1. PICK x \in {"success", "failed", "unknown"} : run' = [run EXCEPT ![i].status = x]
    BY <1>11 DEF Hook!Finish
  <2>2. UNCHANGED <<head, sent, req, deployed>>
    BY <1>11 DEF Hook!Finish
  <2> QED
    BY <1>0, <2>1, <2>2 DEF Pushed, Hook!TypeOK
<1> QED
  BY <1>1, <1>2, <1>3, <1>4, <1>5, <1>6, <1>7, <1>8, <1>9, <1>10, <1>11 DEF Hook!Next

\* Every step keeps one run under way, and what a run has pulled.
LEMMA OneUnderWayStep ==
  ASSUME HookBounded, HookInv, Hook!TypeOK', [Hook!Next]_Hook!vars
  PROVE  OneUnderWay' /\ Hook!WaitedIsFinal'
<1> USE DEF Hook!Trouble, Hook!Goto, Hook!Nothing
<1>0. /\ Hook!TypeOK /\ Pushed /\ OneUnderWay /\ Hook!WaitedIsFinal
      /\ count \in 0..MaxRuns /\ MaxRuns \in Nat
  BY DEF HookInv, HookBounded, Hook!TypeOK
\* What leaves the runs and the answers alone, and makes nobody wait.
<1>1. ASSUME UNCHANGED <<run, count, deployed, answers>>, locked => locked',
             \A h \in Handlers : pc'[h] = "wait" => pc[h] = "wait" /\ req'[h] = req[h]
      PROVE  OneUnderWay' /\ Hook!WaitedIsFinal'
  BY <1>0, <1>1 DEF OneUnderWay, Hook!WaitedIsFinal
<1>2. CASE \/ \E event \in Hook!Events : Hook!Push(event) \/ Hook!Tell(event)
           \/ \E d \in sent : Hook!Ping(d) \/ Hook!Refuse(d)
           \/ Hook!Edit \/ Hook!SetHook \/ UNCHANGED Hook!vars
  <2>1. UNCHANGED <<run, count, deployed, answers, locked, pc, req>>
    BY <1>2 DEF Hook!Push, Hook!Tell, Hook!Ping, Hook!Refuse, Hook!Edit, Hook!SetHook, Hook!vars
  <2> QED
    BY <1>1, <2>1
<1>3. ASSUME NEW h \in Handlers,
             \/ \E d \in sent : Hook!Receive(h, d)
             \/ \E wait \in BOOLEAN : Hook!BeginManual(h, wait)
      PROVE  OneUnderWay' /\ Hook!WaitedIsFinal'
  <2>1. /\ UNCHANGED <<run, count, deployed, answers, locked>>
        /\ pc' = [pc EXCEPT ![h] = "trigger"]
        /\ \E r : req' = [req EXCEPT ![h] = r]
    BY <1>3 DEF Hook!Receive, Hook!BeginManual
  <2>2. \A g \in Handlers : pc'[g] = "wait" => pc[g] = "wait" /\ req'[g] = req[g]
    BY <1>0, <2>1 DEF Hook!TypeOK
  <2> QED
    BY <1>1, <2>1, <2>2
<1>4. ASSUME NEW h \in Handlers,
             Hook!AlreadyRunning(h) \/ Hook!TriggerFails(h) \/ Hook!WaitTimesOut(h)
      PROVE  OneUnderWay' /\ Hook!WaitedIsFinal'
  <2>1. Hook!Ends(h) /\ UNCHANGED <<run, count, deployed, answers, locked>>
    BY <1>4 DEF Hook!AlreadyRunning, Hook!TriggerFails, Hook!WaitTimesOut
  <2>2. \A g \in Handlers : pc'[g] = "wait" => pc[g] = "wait" /\ req'[g] = req[g]
    BY <1>0, <2>1, HookEnds
  <2> QED
    BY <1>1, <2>1, <2>2
<1>5. ASSUME NEW h \in Handlers, Hook!Waited(h) PROVE OneUnderWay' /\ Hook!WaitedIsFinal'
  <2>1. /\ Hook!Ends(h) /\ UNCHANGED <<run, count, deployed, locked>> /\ pc[h] = "wait"
        /\ answers' = answers \union {[id |-> req[h].id, status |-> run[req[h].id].status]}
        /\ Hook!IsTerminal(run[req[h].id].status)
    BY <1>5 DEF Hook!Waited, Hook!Done
  <2>2. \A g \in Handlers : pc'[g] = "wait" => pc[g] = "wait" /\ req'[g] = req[g]
    BY <1>0, <2>1, HookEnds
  <2>3. OneUnderWay'
    BY <1>0, <2>1, <2>2 DEF OneUnderWay
  <2>4. Hook!WaitedIsFinal'
    BY <1>0, <2>1 DEF Hook!WaitedIsFinal
  <2> QED
    BY <2>3, <2>4
<1>6. ASSUME NEW h \in Handlers, Hook!Trigger(h) PROVE OneUnderWay' /\ Hook!WaitedIsFinal'
  <2>1. /\ ~locked /\ locked' /\ count' = count + 1 /\ count + 1 \in 1..MaxRuns
        /\ run' = [run EXCEPT ![count + 1] = [status |-> "running", need |-> req[h].commit,
                                             pulled |-> -1]]
        /\ UNCHANGED <<deployed, answers>>
    BY <1>0, <1>6 DEF Hook!Trigger
  <2>2. \A i \in 1..MaxRuns : /\ run[i].status # "running"
                              /\ i # count + 1 => run'[i] = run[i]
    BY <1>0, <2>1 DEF OneUnderWay, Hook!TypeOK
  <2>3. run'[count + 1].status = "running" /\ run'[count + 1].pulled = -1
        /\ run[count + 1].status = "absent"
    BY <1>0, <2>1 DEF OneUnderWay, Hook!TypeOK
  <2>4. \A g \in Handlers : pc'[g] = "wait" => req'[g].id \in 1..MaxRuns
    <3>1. CASE pc' = [pc EXCEPT ![h] = "wait"] /\ req' = [req EXCEPT ![h].id = count + 1]
      BY <1>0, <2>1, <3>1 DEF OneUnderWay, Hook!TypeOK
    <3>2. CASE Hook!Ends(h)
      BY <1>0, <3>2, HookEnds DEF OneUnderWay
    <3> QED
      BY <1>6, <3>1, <3>2 DEF Hook!Trigger
  <2>5. \A i \in 1..MaxRuns :
          /\ run'[i].status = "running" => i = count' /\ locked'
          /\ i > count' => run'[i].status = "absent"
          /\ run'[i].status = "running" /\ run'[i].pulled # -1
               => run'[i].pulled >= run'[i].need /\ deployed' = run'[i].pulled
          /\ run'[i].status = "success" => run'[i].pulled >= run'[i].need
    BY <1>0, <2>1, <2>2, <2>3 DEF OneUnderWay
  <2>6. OneUnderWay'
    BY <1>0, <2>1, <2>4, <2>5 DEF OneUnderWay
  <2>7. \A a \in answers : run'[a.id].status = run[a.id].status
    <3>1. \A a \in answers : a.id \in 1..MaxRuns /\ run[a.id].status # "absent"
      BY <1>0 DEF OneUnderWay, Hook!WaitedIsFinal, Hook!IsTerminal
    <3> QED
      BY <2>2, <2>3, <3>1
  <2> QED
    BY <1>0, <2>1, <2>6, <2>7 DEF Hook!WaitedIsFinal
<1>7. ASSUME NEW i \in 1..MaxRuns, Hook!Pull(i) PROVE OneUnderWay' /\ Hook!WaitedIsFinal'
  <2>1. /\ run[i].status = "running" /\ locked /\ i = count /\ deployed' = head
        /\ run' = [run EXCEPT ![i].pulled = head]
        /\ UNCHANGED <<pc, req, locked, count, answers>>
    BY <1>7 DEF Hook!Pull
  <2>2. \A j \in 1..MaxRuns : /\ run'[j].status = run[j].status /\ run'[j].need = run[j].need
                              /\ run'[j].pulled = IF j = i THEN head ELSE run[j].pulled
    BY <1>0, <2>1 DEF Hook!TypeOK
  <2>3. head >= run[i].need
    BY <1>0 DEF Pushed, Hook!TypeOK, Hook!Commits, HookBounded
  <2>4. OneUnderWay'
    BY <1>0, <2>1, <2>2, <2>3 DEF OneUnderWay
  <2>5. Hook!WaitedIsFinal'
    BY <1>0, <2>1, <2>2 DEF OneUnderWay, Hook!WaitedIsFinal
  <2> QED
    BY <2>4, <2>5
<1>8. ASSUME NEW i \in 1..MaxRuns, NEW status \in {"success", "failed"}, Hook!Finish(i, status)
      PROVE  OneUnderWay' /\ Hook!WaitedIsFinal'
  <2>1. /\ run[i].status = "running" /\ locked /\ i = count
        /\ status = "success" => run[i].pulled # -1
        /\ UNCHANGED <<pc, req, locked, count, answers, deployed>>
    BY <1>8 DEF Hook!Finish
  <2>2. PICK x \in {status, "unknown"} : run' = [run EXCEPT ![i].status = x]
    BY <1>8 DEF Hook!Finish
  <2>3. \A j \in 1..MaxRuns : /\ run'[j].status = IF j = i THEN x ELSE run[j].status
                              /\ run'[j].need = run[j].need
                              /\ run'[j].pulled = run[j].pulled
    BY <1>0, <2>2 DEF Hook!TypeOK
  <2>4. x # "running" /\ (x = "success" => status = "success")
    BY <2>2
  <2>5. OneUnderWay'
    BY <1>0, <2>1, <2>3, <2>4 DEF OneUnderWay
  <2>6. \A a \in answers : a.id \in 1..MaxRuns /\ a.id # i
    BY <1>0, <2>1 DEF OneUnderWay, Hook!WaitedIsFinal, Hook!IsTerminal
  <2>7. Hook!WaitedIsFinal'
    BY <1>0, <2>1, <2>3, <2>6 DEF Hook!WaitedIsFinal
  <2> QED
    BY <2>5, <2>7
<1>9. ASSUME Hook!Release PROVE OneUnderWay' /\ Hook!WaitedIsFinal'
  <2>1. run[count].status # "running" /\ UNCHANGED <<run, count, deployed, answers, pc, req>>
    BY <1>9 DEF Hook!Release
  <2> QED
    BY <1>0, <2>1 DEF OneUnderWay, Hook!WaitedIsFinal
<1>10. ASSUME Hook!Crash PROVE OneUnderWay' /\ Hook!WaitedIsFinal'
  <2>1. /\ UNCHANGED <<count, deployed, answers>>
        /\ \A h \in Handlers : pc'[h] = "idle"
    BY <1>10 DEF Hook!Crash
  <2>2. \A i \in 1..MaxRuns :
          /\ run'[i].status = IF run[i].status = "running" THEN "unknown" ELSE run[i].status
          /\ run'[i].need = run[i].need /\ run'[i].pulled = run[i].pulled
    BY <1>0, <1>10 DEF Hook!Crash, Hook!TypeOK
  <2>3. OneUnderWay'
    BY <1>0, <2>1, <2>2 DEF OneUnderWay
  <2>4. \A a \in answers : a.id \in 1..MaxRuns /\ run[a.id].status # "running"
    BY <1>0 DEF OneUnderWay, Hook!WaitedIsFinal, Hook!IsTerminal
  <2>5. Hook!WaitedIsFinal'
    BY <1>0, <2>1, <2>2, <2>4 DEF Hook!WaitedIsFinal
  <2> QED
    BY <2>3, <2>5
<1> QED
  BY <1>2, <1>3, <1>4, <1>5, <1>6, <1>7, <1>8, <1>9, <1>10 DEF Hook!Next

\* Every step leaves the head on its way: a push puts it there, and who lets go of
\* it has handed it on or remembers that it was missed.
LEMMA HeadOnItsWayStep ==
  ASSUME HookBounded, HookInv, Hook!TypeOK', [Hook!Next]_Hook!vars
  PROVE  HeadOnItsWay'
<1> USE DEF Hook!Trouble, Hook!Goto, Hook!Nothing
<1>0. Hook!TypeOK /\ Pushed /\ OneUnderWay /\ HeadOnItsWay
  BY DEF HookInv
<1>1. missed \in BOOLEAN /\ missed' \in BOOLEAN
  BY <1>0 DEF Hook!TypeOK
\* What leaves the head, the runs and the requests alone, and takes no push.
<1>2. ASSUME UNCHANGED <<head, deployed, run, pc, req>>, missed => missed',
             missed' \/ \A d \in sent : d.event \in {"push", "none"} => d \in sent'
      PROVE  HeadOnItsWay'
  BY <1>0, <1>2 DEF HeadOnItsWay
<1>3. ASSUME NEW event \in Hook!Events, Hook!Push(event) PROVE HeadOnItsWay'
  <2>1. /\ event \in {"push", "none"} /\ head' = head + 1
        /\ [commit |-> head + 1, signed |-> hook, event |-> event] \in sent'
    BY <1>3 DEF Hook!Push
  <2> QED
    BY <2>1 DEF HeadOnItsWay
<1>4. CASE \/ \E event \in Hook!Events : Hook!Tell(event)
           \/ Hook!Edit \/ Hook!SetHook \/ Hook!Release \/ UNCHANGED Hook!vars
  <2>1. UNCHANGED <<head, deployed, run, pc, req, missed>> /\ sent \subseteq sent'
    BY <1>4 DEF Hook!Tell, Hook!Edit, Hook!SetHook, Hook!Release, Hook!vars
  <2> QED
    BY <1>2, <2>1
<1>5. CASE Hook!Crash
  BY <1>5 DEF Hook!Crash, HeadOnItsWay
<1>6. ASSUME NEW d \in sent, Hook!Ping(d) PROVE HeadOnItsWay'
  <2>1. /\ UNCHANGED <<head, deployed, run, pc, req, missed>>
        /\ d.event = "ping" /\ (sent' = sent \ {d} \/ sent' = sent)
    BY <1>6 DEF Hook!Ping, Hook!Taken
  <2> QED
    BY <1>2, <2>1
<1>7. ASSUME NEW d \in sent, Hook!Refuse(d) PROVE HeadOnItsWay'
  <2>1. /\ UNCHANGED <<head, deployed, run, pc, req>>
        /\ sent' = sent \ {d} \/ sent' = sent
    BY <1>7 DEF Hook!Refuse, Hook!Taken
  <2>2. \/ missed' = missed /\ d.event \in {"ping", "other"}
        \/ missed' = (missed \/ d.event # "other")
    BY <1>7 DEF Hook!Refuse, Hook!IsPush
  <2>3. missed => missed'
    BY <2>2
  <2>4. missed' \/ d.event \in {"ping", "other"}
    BY <2>2
  <2> QED
    BY <1>2, <2>1, <2>3, <2>4
<1>8. ASSUME NEW d \in sent, NEW h \in Handlers, Hook!Receive(h, d) PROVE HeadOnItsWay'
  <2>1. /\ UNCHANGED <<head, deployed, run, missed>> /\ pc[h] = "idle"
        /\ sent' = sent \ {d} \/ sent' = sent
        /\ pc' = [pc EXCEPT ![h] = "trigger"]
        /\ req' = [req EXCEPT ![h] = [commit |-> d.commit, wait |-> FALSE, id |-> 0]]
    BY <1>8 DEF Hook!Receive, Hook!Taken, Hook!RemoteRef
  <2>2. pc'[h] = "trigger" /\ req'[h].commit = d.commit
    BY <1>0, <2>1 DEF Hook!TypeOK
  <2>3. \A g \in Handlers : pc[g] = "trigger" => pc'[g] = pc[g] /\ req'[g] = req[g]
    BY <1>0, <2>1 DEF Hook!TypeOK
  <2> QED
    BY <1>0, <2>1, <2>2, <2>3 DEF HeadOnItsWay
<1>9. ASSUME NEW h \in Handlers, NEW wait \in BOOLEAN, Hook!BeginManual(h, wait)
      PROVE  HeadOnItsWay'
  <2>1. /\ UNCHANGED <<head, deployed, run, missed, sent>> /\ pc[h] = "idle"
        /\ pc' = [pc EXCEPT ![h] = "trigger"]
        /\ \E r : req' = [req EXCEPT ![h] = r]
    BY <1>9 DEF Hook!BeginManual
  <2>2. \A g \in Handlers : pc[g] = "trigger" => pc'[g] = pc[g] /\ req'[g] = req[g]
    BY <1>0, <2>1 DEF Hook!TypeOK
  <2> QED
    BY <1>0, <2>1, <2>2 DEF HeadOnItsWay
<1>10. ASSUME NEW h \in Handlers, Hook!Trigger(h) PROVE HeadOnItsWay'
  <2>1. /\ UNCHANGED <<head, deployed, missed, sent>> /\ ~locked /\ count + 1 \in 1..MaxRuns
        /\ run' = [run EXCEPT ![count + 1] = [status |-> "running", need |-> req[h].commit,
                                             pulled |-> -1]]
    BY <1>0, <1>10 DEF Hook!Trigger, HookBounded, Hook!TypeOK
  <2>2. run'[count + 1].status = "running" /\ run'[count + 1].need = req[h].commit
    BY <1>0, <2>1 DEF Hook!TypeOK
  <2>3. \A i \in 1..MaxRuns : run[i].status # "running"
    BY <1>0, <2>1 DEF OneUnderWay
  <2>4. \A g \in Handlers \ {h} : pc'[g] = pc[g] /\ req'[g] = req[g]
    <3>1. CASE pc' = [pc EXCEPT ![h] = "wait"] /\ req' = [req EXCEPT ![h].id = count + 1]
      BY <1>0, <3>1 DEF Hook!TypeOK
    <3>2. CASE Hook!Ends(h)
      BY <1>0, <3>2, HookEnds
    <3> QED
      BY <1>10, <3>1, <3>2 DEF Hook!Trigger
  <2> QED
    BY <1>0, <2>1, <2>2, <2>3, <2>4 DEF HeadOnItsWay
<1>11. ASSUME NEW h \in Handlers, Hook!AlreadyRunning(h) \/ Hook!TriggerFails(h)
       PROVE  HeadOnItsWay'
  <2>1. /\ Hook!Ends(h) /\ UNCHANGED <<head, deployed, run, sent>>
        /\ missed' = (missed \/ req[h].commit > 0)
    BY <1>11 DEF Hook!AlreadyRunning, Hook!TriggerFails
  <2>2. \A g \in Handlers \ {h} : pc'[g] = pc[g] /\ req'[g] = req[g]
    BY <1>0, <2>1, HookEnds
  <2>3. head \in Nat /\ deployed \in Nat /\ deployed <= head
    BY <1>0 DEF HookBounded, Hook!TypeOK, Hook!Commits, Pushed
  <2>4. req[h].commit = head => missed' \/ deployed = head
    <3>1. head > 0 \/ deployed = head
      BY <2>3
    <3> QED
      BY <2>1, <3>1
  <2>5. missed => missed'
    BY <2>1
  <2> QED
    BY <1>0, <2>1, <2>2, <2>4, <2>5 DEF HeadOnItsWay
<1>12. ASSUME NEW h \in Handlers, Hook!Waited(h) \/ Hook!WaitTimesOut(h) PROVE HeadOnItsWay'
  <2>1. Hook!Ends(h) /\ pc[h] = "wait" /\ UNCHANGED <<head, deployed, run, sent, missed>>
    BY <1>12 DEF Hook!Waited, Hook!WaitTimesOut
  <2>2. \A g \in Handlers \ {h} : pc'[g] = pc[g] /\ req'[g] = req[g]
    BY <1>0, <2>1, HookEnds
  <2> QED
    BY <1>0, <2>1, <2>2 DEF HeadOnItsWay
<1>13. ASSUME NEW i \in 1..MaxRuns, Hook!Pull(i) PROVE HeadOnItsWay'
  BY <1>13 DEF Hook!Pull, HeadOnItsWay
<1>14. ASSUME NEW i \in 1..MaxRuns, NEW status \in {"success", "failed"}, Hook!Finish(i, status)
       PROVE  HeadOnItsWay'
  <2>1. /\ UNCHANGED <<head, deployed, sent, pc, req>> /\ run[i].status = "running"
        /\ status = "success" => run[i].pulled # -1
        /\ missed' = (missed \/ status # "success")
        /\ \E x : run' = [run EXCEPT ![i].status = x]
    BY <1>14 DEF Hook!Finish
  <2>2. CASE status = "success"
    <3>1. run[i].pulled >= run[i].need /\ deployed = run[i].pulled
      BY <1>0, <2>1, <2>2 DEF OneUnderWay
    <3>2. run[i].need = head => deployed = head
      BY <1>0, <3>1 DEF Pushed, Hook!TypeOK, Hook!Commits, HookBounded
    <3>3. \A j \in 1..MaxRuns : j # i => run'[j] = run[j]
      BY <1>0, <2>1 DEF Hook!TypeOK
    <3>4. missed => missed'
      BY <2>1
    <3> QED
      BY <1>0, <2>1, <3>2, <3>3, <3>4 DEF HeadOnItsWay
  <2>3. CASE status # "success"
    BY <2>1, <2>3 DEF HeadOnItsWay
  <2> QED
    BY <2>2, <2>3
<1> QED
  BY <1>3, <1>4, <1>5, <1>6, <1>7, <1>8, <1>9, <1>10, <1>11, <1>12, <1>13, <1>14
     DEF Hook!Next

\* What was accepted is deployed when its run ends in success, what is pushed is
\* deployed once nothing is under way and nothing was missed, and an answer to who
\* waits is what became of the run; for any number of requests, pushes and runs.
THEOREM HookHolds ==
  ASSUME HookBounded
  PROVE  Hook!Spec => [](/\ Hook!TypeOK /\ Hook!AcceptedIsDeployed /\ Hook!LatestIsDeployed
                         /\ Hook!WaitedIsFinal)
<1>1. Hook!Init => HookInv
  <2> SUFFICES ASSUME Hook!Init PROVE HookInv
    OBVIOUS
  <2> USE DEF Hook!Init, HookBounded
  <2>1. Hook!TypeOK
    <3>1. Hook!NoRequest \in [commit : Hook!Commits, wait : BOOLEAN, id : 0..MaxRuns]
      BY DEF Hook!NoRequest, Hook!Commits
    <3>2. req \in [Handlers -> [commit : Hook!Commits, wait : BOOLEAN, id : 0..MaxRuns]]
      BY <3>1
    <3>3. run \in [1..MaxRuns -> [status : {"absent", "running", "success", "failed", "unknown"},
                                 need : Hook!Commits, pulled : Hook!Commits \union {Hook!Nothing}]]
      BY DEF Hook!Commits
    <3>4. project \in [enabled : BOOLEAN, secret : Hook!Secrets] /\ hook \in Hook!Secrets
      BY DEF Hook!Secrets
    <3>5. head \in Hook!Commits /\ deployed \in Hook!Commits
      BY DEF Hook!Commits
    <3>6. pc \in [Handlers -> {"idle", "trigger", "wait"}] /\ sent \subseteq Hook!Deliveries
      OBVIOUS
    <3>7. count \in 0..MaxRuns /\ edits \in 0..MaxEdits /\ troubles \in 0..MaxTroubles
      OBVIOUS
    <3>8. locked \in BOOLEAN /\ missed \in BOOLEAN
      OBVIOUS
    <3> QED
      BY <3>2, <3>3, <3>4, <3>5, <3>6, <3>7, <3>8 DEF Hook!TypeOK
  <2>2. Pushed
    BY DEF Pushed, Hook!NoRequest, Hook!Nothing
  <2>3. OneUnderWay
    BY DEF OneUnderWay
  <2>4. Hook!WaitedIsFinal /\ HeadOnItsWay
    BY DEF Hook!WaitedIsFinal, HeadOnItsWay
  <2> QED
    BY <2>1, <2>2, <2>3, <2>4 DEF HookInv
<1>2. HookInv /\ [Hook!Next]_Hook!vars => HookInv'
  <2> SUFFICES ASSUME HookInv, [Hook!Next]_Hook!vars PROVE HookInv'
    OBVIOUS
  <2>1. Hook!TypeOK'
    BY HookTypeStep
  <2> QED
    BY <2>1, PushedStep, OneUnderWayStep, HeadOnItsWayStep DEF HookInv
<1>3. HookInv => /\ Hook!TypeOK /\ Hook!AcceptedIsDeployed /\ Hook!LatestIsDeployed
                 /\ Hook!WaitedIsFinal
  <2> SUFFICES ASSUME HookInv PROVE Hook!AcceptedIsDeployed /\ Hook!LatestIsDeployed
    BY DEF HookInv
  <2>1. Hook!AcceptedIsDeployed
    BY DEF HookInv, OneUnderWay, Hook!AcceptedIsDeployed
  <2>2. Hook!LatestIsDeployed
    BY DEF HookInv, OneUnderWay, HeadOnItsWay, Hook!LatestIsDeployed
  <2> QED
    BY <2>1, <2>2
<1> QED
  BY <1>1, <1>2, <1>3, PTL DEF Hook!Spec

\* The same of what the runs check.
THEOREM HookHoldsThroughout == ASSUME HookBounded PROVE SumSpec => []PushesAreDeployed
<1>1. SumInit /\ focus = "webhook" => Hook!Init
  BY DEF SumInit
<1>2. focus = "webhook" /\ [SumNext]_sumVars
        => [Hook!Next]_Hook!vars /\ (focus = "webhook")'
  BY DEF SumNext, outputOnly, migrationOnly, projectOnly, webhookOnly, sumVars, Hook!vars
<1>3. ~(focus = "webhook") /\ [SumNext]_sumVars => (~(focus = "webhook"))'
  BY DEF SumNext, sumVars
<1>4. (focus = "webhook" => /\ Hook!TypeOK /\ Hook!AcceptedIsDeployed
                            /\ Hook!LatestIsDeployed /\ Hook!WaitedIsFinal)
        => PushesAreDeployed
  BY DEF PushesAreDeployed
<1>5. Hook!Spec => [](/\ Hook!TypeOK /\ Hook!AcceptedIsDeployed
                      /\ Hook!LatestIsDeployed /\ Hook!WaitedIsFinal)
  BY HookHolds, PTL
<1> QED
  BY <1>1, <1>2, <1>3, <1>4, <1>5, PTL DEF SumSpec, Hook!Spec

-----------------------------------------------------------------------------
\* A row is of a table and has one parent, itself or a row of another table; among
\* tables there is always one that refers to none of the others: the migrations of the
\* repository refer to servers and tags alone, which refer to nothing.
MigrationBounded ==
  /\ TableOf \in [Rows -> Tables] /\ Parent \in [Rows -> Rows] /\ Seeds \subseteq Rows
  /\ \A r \in Rows : Parent[r] = r \/ TableOf[Parent[r]] # TableOf[r]
  /\ \A T \in SUBSET Tables :
       T # {} => \E t \in T : Migration!Dependencies(t) \intersect T = {}
  /\ "none" \notin Tables
  /\ MaxEdits \in Nat /\ MaxTroubles \in Nat

\* What a request keeps to itself.
Kept ==
  /\ migrated \in [Handlers -> Seq(Tables)] /\ Migration!Whole(source)
  /\ \A m \in Handlers :
       /\ steady[m] \subseteq source
       /\ cancelled[m] => disturbed[m] /\ pc[m] # "idle"
       /\ pc[m] = "idle" => table[m] = "none"
       /\ \A r \in todo[m] : TableOf[r] = table[m]
       /\ table[m] \notin remaining[m]
       /\ pc[m] = "copying" /\ table[m] # "none" =>
            Migration!Dependencies(table[m]) \intersect remaining[m] = {}

\* A migration nothing has disturbed has the target to itself.
Undisturbed(m) == ~disturbed[m] /\ pc[m] \in {"copying", "rollback", "failed"}
Exclusive ==
  \A m \in Handlers : Undisturbed(m) =>
    \A n \in Handlers \ {m} : pc[n] \notin {"copying", "rollback"}

\* Rows m found when it began, and still finds, are in the target once it is past them.
Copied ==
  \A m \in Handlers : pc[m] \in {"copying", "ok"} /\ Migration!Alone(m) =>
    \A r \in steady[m] : TableOf[r] \notin remaining[m] /\ r \notin todo[m] => r \in target

\* Into an empty target an undisturbed migration copies exactly the rows it is past,
\* and does not fail.
Exact ==
  \A m \in Handlers : Undisturbed(m) /\ before[m] = {} =>
    /\ pc[m] = "copying" /\ todo[m] \subseteq source
    /\ target = {r \in source : TableOf[r] \notin remaining[m] /\ r \notin todo[m]}

\* What an undisturbed migration has put into the target is in the table it copies or in
\* one it has yet to roll back.
Accounted ==
  \A m \in Handlers : Undisturbed(m) =>
    \A r \in target : \/ r \in before[m] \/ TableOf[r] = table[m]
                      \/ \E i \in 1..Len(migrated[m]) : migrated[m][i] = TableOf[r]

\* A migration that is over has nothing left to do, nor to undo.
Over ==
  \A m \in Handlers : pc[m] \in {"ok", "failed"} =>
    remaining[m] = {} /\ todo[m] = {} /\ migrated[m] = <<>>

MigrationInv ==
  Migration!TypeOK /\ Kept /\ Over /\ Exclusive /\ Copied /\ Exact /\ Accounted

\* What is next is what refers to no table that remains.
LEMMA NextIsFree ==
  ASSUME MigrationBounded, NEW T \in SUBSET Tables, NEW t \in Migration!NextTable(T)
  PROVE  t \in T /\ Migration!Dependencies(t) \intersect T = {}
<1> DEFINE free == {u \in T : Migration!Dependencies(u) \intersect T = {}}
<1>1. CASE T = {}
  BY <1>1 DEF Migration!NextTable
<1>2. CASE T # {}
  <2>1. free # {}
    BY <1>2 DEF MigrationBounded
  <2>2. t \in free
    BY <2>1 DEF Migration!NextTable
  <2> QED
    BY <2>2
<1> QED
  BY <1>1, <1>2

\* Every step keeps the types.
LEMMA MigrationTypeStep ==
  ASSUME MigrationBounded, MigrationInv, [Migration!Next]_Migration!vars
  PROVE  Migration!TypeOK' /\ migrated' \in [Handlers -> Seq(Tables)]
<1> USE DEF Migration!Trouble, Migration!Goto, Migration!copying, Migration!Settle
<1>0. Migration!TypeOK /\ migrated \in [Handlers -> Seq(Tables)]
  BY DEF MigrationInv, Kept
\* Bounds and Booleans by themselves.
<1>1. edits' \in 0..MaxEdits /\ troubles' \in 0..MaxTroubles
  <2>1. edits \in 0..MaxEdits /\ troubles \in 0..MaxTroubles
    BY <1>0 DEF Migration!TypeOK
  <2>2. /\ edits' = edits \/ (edits < MaxEdits /\ edits' = edits + 1)
        /\ troubles' = troubles \/ (troubles < MaxTroubles /\ troubles' = troubles + 1)
    BY DEF Migration!Next, Migration!vars, Migration!Edit, Migration!Cancel, Migration!Begin,
       Migration!Refuse, Migration!StartTable, Migration!InsertRow, Migration!FinishTable,
       Migration!Succeed, Migration!Fail, Migration!Rollback, Migration!Answer
  <2>3. MaxEdits \in Nat /\ MaxTroubles \in Nat
    BY DEF MigrationBounded
  <2> QED
    BY <2>1, <2>2, <2>3
<1>2. ASSUME NEW r \in Rows, Migration!Edit(r) PROVE Migration!TypeOK' /\ migrated' = migrated
  <2>1. /\ source' \subseteq Rows /\ steady' = [m \in Handlers |-> steady[m] \intersect source']
        /\ disturbed' = [m \in Handlers |-> disturbed[m] \/ Migration!Running(m)]
        /\ UNCHANGED <<schema, target, enforced, pc, cancelled, remaining, table, todo,
                       migrated, before>>
    BY <1>0, <1>2 DEF Migration!Edit, Migration!TypeOK, Migration!Children
  <2>2. disturbed' \in [Handlers -> BOOLEAN]
    <3>1. \A m \in Handlers : (disturbed[m] \/ Migration!Running(m)) \in BOOLEAN
      BY DEF Migration!Running
    <3> QED
      BY <2>1, <3>1
  <2>3. steady' \in [Handlers -> SUBSET Rows]
    BY <1>0, <2>1 DEF Migration!TypeOK
  <2> QED
    BY <1>0, <1>1, <2>1, <2>2, <2>3 DEF Migration!TypeOK
<1>3. ASSUME NEW m \in Handlers, Migration!Begin(m)
      PROVE  Migration!TypeOK' /\ migrated' = migrated
  <2>1. /\ schema' = TRUE /\ target' \in {target, Seeds}
        /\ remaining' = [remaining EXCEPT ![m] = Tables]
        /\ before' = [before EXCEPT ![m] = target']
        /\ steady' = [steady EXCEPT ![m] = source]
        /\ pc' = [pc EXCEPT ![m] = "copying"]
        /\ UNCHANGED <<source, enforced, cancelled, table, todo, migrated>>
    BY <1>3 DEF Migration!Begin, Migration!RunMigrations, Migration!GetTables
  <2>2. disturbed' \in [Handlers -> BOOLEAN]
    <3>1. disturbed' = [n \in Handlers |->
                         IF n = m THEN \E k \in Handlers \ {m} : Migration!Running(k)
                         ELSE disturbed[n] \/ pc[n] # "idle"]
      BY <1>3 DEF Migration!Begin
    <3>2. \A n \in Handlers : (IF n = m THEN \E k \in Handlers \ {m} : Migration!Running(k)
                               ELSE disturbed[n] \/ pc[n] # "idle") \in BOOLEAN
      BY DEF Migration!Running
    <3> QED
      BY <3>1, <3>2
  <2> QED
    BY <1>0, <1>1, <2>1, <2>2 DEF Migration!TypeOK, MigrationBounded
<1>4. ASSUME NEW m \in Handlers, Migration!Refuse(m) \/ Migration!Cancel(m)
      PROVE  Migration!TypeOK' /\ migrated' = migrated
  BY <1>0, <1>1, <1>4 DEF Migration!Refuse, Migration!Cancel, Migration!TypeOK
<1>5. ASSUME NEW m \in Handlers, NEW t \in Tables, Migration!StartTable(m, t)
      PROVE  Migration!TypeOK' /\ migrated' = migrated
  BY <1>0, <1>1, <1>5 DEF Migration!StartTable, Migration!TypeOK, Migration!Of
<1>6. ASSUME NEW m \in Handlers, NEW r \in Rows, Migration!InsertRow(m, r)
      PROVE  Migration!TypeOK' /\ migrated' = migrated
  BY <1>0, <1>1, <1>6 DEF Migration!InsertRow, Migration!TypeOK
<1>7. ASSUME NEW m \in Handlers, Migration!FinishTable(m)
      PROVE  Migration!TypeOK' /\ migrated' \in [Handlers -> Seq(Tables)]
  <2>1. table[m] \in Tables
    BY <1>0, <1>7 DEF Migration!FinishTable, Migration!TypeOK, Migration!NoTable
  <2>2. migrated' \in [Handlers -> Seq(Tables)]
    BY <1>0, <1>7, <2>1 DEF Migration!FinishTable
  <2> QED
    BY <1>0, <1>1, <1>7, <2>2 DEF Migration!FinishTable, Migration!TypeOK
<1>8. ASSUME NEW m \in Handlers, Migration!Succeed(m) \/ Migration!Answer(m)
      PROVE  Migration!TypeOK' /\ migrated' \in [Handlers -> Seq(Tables)]
  <2>1. /\ \E to \in {"ok", "failed"} : pc' = [pc EXCEPT ![m] = to]
        /\ remaining' = [remaining EXCEPT ![m] = {}] /\ todo' = [todo EXCEPT ![m] = {}]
        /\ migrated' = [migrated EXCEPT ![m] = <<>>]
        /\ UNCHANGED <<source, schema, target, enforced, cancelled, table, before, steady,
                       disturbed>>
    BY <1>8 DEF Migration!Succeed, Migration!Answer
  <2>2. migrated' \in [Handlers -> Seq(Tables)]
    BY <1>0, <2>1
  <2> QED
    BY <1>0, <1>1, <2>1, <2>2 DEF Migration!TypeOK
<1>9. ASSUME NEW m \in Handlers, Migration!Fail(m)
      PROVE  Migration!TypeOK' /\ migrated' = migrated
  <2>1. /\ pc' = [pc EXCEPT ![m] = "rollback"]
        /\ disturbed' = disturbed \/ disturbed' = [disturbed EXCEPT ![m] = TRUE]
        /\ UNCHANGED <<source, schema, target, enforced, cancelled, remaining, table, todo,
                       migrated, before, steady>>
    BY <1>9 DEF Migration!Fail
  <2> QED
    BY <1>0, <1>1, <2>1 DEF Migration!TypeOK
<1>10. ASSUME NEW m \in Handlers, Migration!Rollback(m)
       PROVE  Migration!TypeOK' /\ migrated' \in [Handlers -> Seq(Tables)]
  <2>1. /\ migrated[m] # <<>>
        /\ migrated' = [migrated EXCEPT ![m] = SubSeq(@, 1, Len(@) - 1)]
        /\ target' \subseteq target
        /\ disturbed' = disturbed \/ disturbed' = [disturbed EXCEPT ![m] = TRUE]
        /\ UNCHANGED <<source, schema, enforced, pc, cancelled, remaining, table, todo,
                       before, steady>>
    BY <1>10 DEF Migration!Rollback
  <2>2. SubSeq(migrated[m], 1, Len(migrated[m]) - 1) \in Seq(Tables)
    BY <1>0, <2>1
  <2>3. migrated' \in [Handlers -> Seq(Tables)]
    BY <1>0, <2>1, <2>2
  <2> QED
    BY <1>0, <1>1, <2>1, <2>3 DEF Migration!TypeOK
<1>11. CASE UNCHANGED Migration!vars
  BY <1>0, <1>11 DEF Migration!vars, Migration!TypeOK
<1> QED
  BY <1>0, <1>2, <1>3, <1>4, <1>5, <1>6, <1>7, <1>8, <1>9, <1>10, <1>11 DEF Migration!Next

\* A request moves from place to place, and the others stay where they are.
LEMMA MigrationPlaces ==
  ASSUME MigrationBounded, MigrationInv
  PROVE  /\ pc \in [Handlers -> {"idle", "copying", "rollback", "ok", "failed", "refused"}]
         /\ cancelled \in [Handlers -> BOOLEAN] /\ disturbed \in [Handlers -> BOOLEAN]
         /\ remaining \in [Handlers -> SUBSET Tables]
         /\ table \in [Handlers -> Tables \union {"none"}] /\ todo \in [Handlers -> SUBSET Rows]
         /\ migrated \in [Handlers -> Seq(Tables)]
         /\ before \in [Handlers -> SUBSET Rows] /\ steady \in [Handlers -> SUBSET Rows]
         /\ source \subseteq Rows /\ target \subseteq Rows
BY DEF MigrationInv, Migration!TypeOK, Migration!NoTable, Kept

\* Every step keeps what a request keeps to itself.
LEMMA KeptStep ==
  ASSUME MigrationBounded, MigrationInv, [Migration!Next]_Migration!vars
  PROVE  Kept'
<1> USE MigrationPlaces DEF Migration!Trouble, Migration!Goto, Migration!copying,
        Migration!Settle, Migration!NoTable
<1>0. Kept /\ \A m \in Handlers : "none" \notin remaining[m] /\ "none" \notin Tables
  BY DEF MigrationInv, MigrationBounded
<1>1. migrated' \in [Handlers -> Seq(Tables)]
  BY MigrationTypeStep
<1>2. ASSUME NEW r \in Rows, Migration!Edit(r) PROVE Kept'
  <2>1. /\ Migration!Whole(source)' /\ UNCHANGED <<pc, cancelled, remaining, table, todo>>
        /\ steady' = [m \in Handlers |-> steady[m] \intersect source']
        /\ \A m \in Handlers : disturbed'[m] = (disturbed[m] \/ Migration!Running(m))
    BY <1>2 DEF Migration!Edit, Migration!Whole
  <2> QED
    BY <1>0, <1>1, <2>1 DEF Kept
<1>3. ASSUME NEW m \in Handlers, Migration!Begin(m) PROVE Kept'
  <2>1. /\ pc[m] = "idle" /\ pc' = [pc EXCEPT ![m] = "copying"]
        /\ remaining' = [remaining EXCEPT ![m] = Tables]
        /\ steady' = [steady EXCEPT ![m] = source]
        /\ \A n \in Handlers \ {m} : disturbed'[n] = (disturbed[n] \/ pc[n] # "idle")
        /\ UNCHANGED <<source, cancelled, table, todo>>
    BY <1>3 DEF Migration!Begin, Migration!GetTables
  <2>2. ~cancelled[m] /\ table[m] = "none"
    BY <1>0, <2>1 DEF Kept
  <2> QED
    BY <1>0, <1>1, <2>1, <2>2 DEF Kept, Migration!Whole
<1>4. ASSUME NEW m \in Handlers, Migration!Refuse(m) \/ Migration!Cancel(m) PROVE Kept'
  <2>1. CASE Migration!Refuse(m)
    BY <1>0, <1>1, <2>1 DEF Migration!Refuse, Kept, Migration!Whole
  <2>2. CASE Migration!Cancel(m)
    BY <1>0, <1>1, <2>2 DEF Migration!Cancel, Migration!Running, Kept, Migration!Whole
  <2> QED
    BY <1>4, <2>1, <2>2
<1>5. ASSUME NEW m \in Handlers, NEW t \in Tables, Migration!StartTable(m, t) PROVE Kept'
  <2>1. /\ pc[m] = "copying" /\ t \in Migration!NextTable(remaining[m])
        /\ table' = [table EXCEPT ![m] = t]
        /\ remaining' = [remaining EXCEPT ![m] = @ \ {t}]
        /\ todo' = [todo EXCEPT ![m] = Migration!Of(t, source)]
        /\ UNCHANGED <<source, pc, cancelled, steady, disturbed>>
    BY <1>5 DEF Migration!StartTable
  <2>2. Migration!Dependencies(t) \intersect remaining[m] = {}
    BY <2>1, NextIsFree
  <2> QED
    BY <1>0, <1>1, <2>1, <2>2 DEF Kept, Migration!Whole, Migration!Of
<1>6. ASSUME NEW m \in Handlers, NEW r \in Rows, Migration!InsertRow(m, r) PROVE Kept'
  BY <1>0, <1>1, <1>6 DEF Migration!InsertRow, Kept, Migration!Whole
<1>7. ASSUME NEW m \in Handlers, Migration!FinishTable(m) PROVE Kept'
  BY <1>0, <1>1, <1>7 DEF Migration!FinishTable, Kept, Migration!Whole
<1>8. ASSUME NEW m \in Handlers, Migration!Succeed(m) \/ Migration!Answer(m) PROVE Kept'
  <2>1. /\ \E to \in {"ok", "failed"} : pc' = [pc EXCEPT ![m] = to]
        /\ remaining' = [remaining EXCEPT ![m] = {}] /\ todo' = [todo EXCEPT ![m] = {}]
        /\ UNCHANGED <<source, cancelled, table, steady, disturbed>>
    BY <1>8 DEF Migration!Succeed, Migration!Answer
  <2> QED
    BY <1>0, <1>1, <2>1 DEF Kept, Migration!Whole
<1>9. ASSUME NEW m \in Handlers, Migration!Fail(m) \/ Migration!Rollback(m) PROVE Kept'
  <2>1. /\ pc' = pc \/ (pc[m] = "copying" /\ pc' = [pc EXCEPT ![m] = "rollback"])
        /\ disturbed' = disturbed \/ disturbed' = [disturbed EXCEPT ![m] = TRUE]
        /\ UNCHANGED <<source, cancelled, remaining, table, todo, steady>>
    BY <1>9 DEF Migration!Fail, Migration!Rollback
  <2>2. \A n \in Handlers : /\ disturbed[n] => disturbed'[n]
                            /\ pc'[n] = "idle" <=> pc[n] = "idle"
                            /\ pc'[n] = "copying" => pc[n] = "copying"
    BY <2>1
  <2> QED
    BY <1>0, <1>1, <2>1, <2>2 DEF Kept, Migration!Whole
<1>10. CASE UNCHANGED Migration!vars
  BY <1>0, <1>1, <1>10 DEF Migration!vars, Kept, Migration!Whole
<1> QED
  BY <1>2, <1>3, <1>4, <1>5, <1>6, <1>7, <1>8, <1>9, <1>10 DEF Migration!Next

\* Every step leaves an undisturbed migration the target to itself.
LEMMA ExclusiveStep ==
  ASSUME MigrationBounded, MigrationInv, [Migration!Next]_Migration!vars
  PROVE  Exclusive'
<1> USE MigrationPlaces DEF Exclusive, Undisturbed, Migration!Trouble, Migration!Goto,
        Migration!Settle
<1>0. Exclusive
  BY DEF MigrationInv
\* Nothing but a beginning brings another in.
<1>1. ASSUME \A m \in Handlers : /\ disturbed[m] => disturbed'[m]
                                 /\ pc'[m] \in {"copying", "rollback"} => pc[m] \in {"copying", "rollback"}
                                 /\ pc'[m] = "failed" => pc[m] \in {"rollback", "failed"}
      PROVE  Exclusive'
  BY <1>0, <1>1
<1>2. ASSUME NEW m \in Handlers, Migration!Begin(m) PROVE Exclusive'
  <2>1. /\ pc[m] = "idle" /\ pc' = [pc EXCEPT ![m] = "copying"]
        /\ \A n \in Handlers \ {m} : disturbed'[n] = (disturbed[n] \/ pc[n] # "idle")
        /\ disturbed'[m] = (\E k \in Handlers \ {m} : Migration!Running(k))
    BY <1>2 DEF Migration!Begin
  <2> QED
    BY <1>0, <2>1 DEF Migration!Running
<1>3. ASSUME NEW r \in Rows, Migration!Edit(r) PROVE Exclusive'
  <2>1. pc' = pc /\ \A m \in Handlers : disturbed'[m] = (disturbed[m] \/ Migration!Running(m))
    BY <1>3 DEF Migration!Edit
  <2> QED
    BY <1>1, <2>1
<1>4. ASSUME NEW m \in Handlers, \/ Migration!Refuse(m) \/ Migration!Cancel(m)
                                 \/ \E t \in Tables : Migration!StartTable(m, t)
                                 \/ \E r \in Rows : Migration!InsertRow(m, r)
                                 \/ Migration!FinishTable(m) \/ Migration!Succeed(m)
                                 \/ Migration!Fail(m) \/ Migration!Rollback(m)
                                 \/ Migration!Answer(m)
      PROVE  Exclusive'
  <2>1. /\ disturbed' = disturbed \/ disturbed' = [disturbed EXCEPT ![m] = TRUE]
        /\ \/ pc' = pc
           \/ pc' = [pc EXCEPT ![m] = "refused"] \/ pc' = [pc EXCEPT ![m] = "ok"]
           \/ (pc[m] = "copying" /\ pc' = [pc EXCEPT ![m] = "rollback"])
           \/ (pc[m] = "rollback" /\ pc' = [pc EXCEPT ![m] = "failed"])
    BY <1>4 DEF Migration!Refuse, Migration!Cancel, Migration!StartTable, Migration!InsertRow,
       Migration!FinishTable, Migration!Succeed, Migration!Fail, Migration!Rollback,
       Migration!Answer
  <2>2. \A n \in Handlers : disturbed[n] => disturbed'[n]
    BY <2>1
  <2>3. \A n \in Handlers :
          /\ pc'[n] \in {"copying", "rollback"} => pc[n] \in {"copying", "rollback"}
          /\ pc'[n] = "failed" => pc[n] \in {"rollback", "failed"}
    BY <2>1
  <2> QED
    BY <1>1, <2>2, <2>3
<1>5. CASE UNCHANGED Migration!vars
  BY <1>1, <1>5 DEF Migration!vars
<1> QED
  BY <1>2, <1>3, <1>4, <1>5 DEF Migration!Next

\* Every step leaves a migration that is over as it is.
LEMMA OverStep ==
  ASSUME MigrationBounded, MigrationInv, [Migration!Next]_Migration!vars
  PROVE  Over'
<1> USE MigrationPlaces DEF Over, Migration!Trouble, Migration!Goto, Migration!Settle
<1>0. Over
  BY DEF MigrationInv
<1>1. ASSUME NEW m \in Handlers, pc[m] \notin {"ok", "failed"}, pc'[m] \notin {"ok", "failed"},
             \A n \in Handlers \ {m} : /\ pc'[n] = pc[n] /\ remaining'[n] = remaining[n]
                                       /\ todo'[n] = todo[n] /\ migrated'[n] = migrated[n]
      PROVE  Over'
  BY <1>0, <1>1
<1>2. ASSUME NEW r \in Rows, Migration!Edit(r) PROVE Over'
  BY <1>0, <1>2 DEF Migration!Edit, Migration!copying
<1>3. ASSUME NEW m \in Handlers, Migration!Begin(m) \/ Migration!Refuse(m) PROVE Over'
  <2>1. /\ pc[m] = "idle" /\ \E to \in {"copying", "refused"} : pc' = [pc EXCEPT ![m] = to]
        /\ remaining' = remaining \/ remaining' = [remaining EXCEPT ![m] = Tables]
        /\ UNCHANGED <<todo, migrated>>
    BY <1>3 DEF Migration!Begin, Migration!Refuse, Migration!GetTables, Migration!copying
  <2> QED
    BY <1>1, <2>1
<1>4. ASSUME NEW m \in Handlers, Migration!Cancel(m) PROVE Over'
  BY <1>0, <1>4 DEF Migration!Cancel, Migration!copying
<1>5. ASSUME NEW m \in Handlers, \/ \E t \in Tables : Migration!StartTable(m, t)
                                 \/ \E r \in Rows : Migration!InsertRow(m, r)
                                 \/ Migration!FinishTable(m)
      PROVE  Over'
  <2>1. /\ pc[m] = "copying" /\ pc' = pc
        /\ \A n \in Handlers \ {m} : /\ remaining'[n] = remaining[n] /\ todo'[n] = todo[n]
                                      /\ migrated'[n] = migrated[n]
    BY <1>5 DEF Migration!StartTable, Migration!InsertRow, Migration!FinishTable
  <2> QED
    BY <1>1, <2>1
<1>6. ASSUME NEW m \in Handlers, Migration!Succeed(m) \/ Migration!Answer(m) PROVE Over'
  BY <1>0, <1>6 DEF Migration!Succeed, Migration!Answer
<1>7. ASSUME NEW m \in Handlers, Migration!Fail(m) \/ Migration!Rollback(m) PROVE Over'
  <2>1. /\ pc[m] \in {"copying", "rollback"} /\ UNCHANGED <<remaining, todo>>
        /\ pc' = pc \/ pc' = [pc EXCEPT ![m] = "rollback"]
        /\ \A n \in Handlers \ {m} : migrated'[n] = migrated[n]
    BY <1>7 DEF Migration!Fail, Migration!Rollback, Migration!copying
  <2> QED
    BY <1>1, <2>1
<1>8. CASE UNCHANGED Migration!vars
  BY <1>0, <1>8 DEF Migration!vars, Migration!copying
<1> QED
  BY <1>2, <1>3, <1>4, <1>5, <1>6, <1>7, <1>8 DEF Migration!Next

\* Between tables nothing is left to insert.
LEMMA NothingToDo ==
  ASSUME MigrationBounded, MigrationInv, NEW m \in Handlers, table[m] = "none"
  PROVE  todo[m] = {}
<1>1. todo[m] \subseteq Rows
  BY MigrationPlaces
<1>2. \A r \in todo[m] : TableOf[r] = "none"
  BY DEF MigrationInv, Kept
<1>3. \A r \in Rows : TableOf[r] # "none"
  BY DEF MigrationBounded
<1> QED
  BY <1>1, <1>2, <1>3

\* Every step keeps what a migration is past in the target.
LEMMA CopiedStep ==
  ASSUME MigrationBounded, MigrationInv, [Migration!Next]_Migration!vars
  PROVE  Copied'
<1> USE MigrationPlaces DEF Copied, Migration!Alone, Migration!Trouble, Migration!Goto,
        Migration!Settle, Migration!NoTable
<1>0. Copied /\ Kept
  BY DEF MigrationInv
\* Rows are lost by the source or won by the target, and nobody gets further.
<1>1. ASSUME \A m \in Handlers : /\ pc'[m] \in {"copying", "ok"} => pc[m] = pc'[m]
                                 /\ pc'[m] \in {"idle", "refused"} => pc[m] \in {"idle", "refused"}
                                 /\ steady'[m] \subseteq steady[m],
             UNCHANGED <<remaining, todo>>, target \subseteq target'
      PROVE  Copied'
  BY <1>0, <1>1
<1>2. ASSUME NEW m \in Handlers, Migration!Begin(m) PROVE Copied'
  <2>1. /\ pc[m] = "idle" /\ pc' = [pc EXCEPT ![m] = "copying"]
        /\ remaining' = [remaining EXCEPT ![m] = Tables]
        /\ steady' = [steady EXCEPT ![m] = source]
        /\ UNCHANGED todo
    BY <1>2 DEF Migration!Begin, Migration!GetTables, Migration!copying
  <2>2. \A n \in Handlers \ {m} : ~Migration!Alone(n)'
    BY <2>1
  <2>3. \A r \in Rows : TableOf[r] \in remaining'[m]
    BY <2>1 DEF MigrationBounded
  <2>4. steady'[m] \subseteq Rows
    BY <2>1
  <2> QED
    BY <2>2, <2>3, <2>4
<1>3. ASSUME NEW r \in Rows, Migration!Edit(r) PROVE Copied'
  <2>1. /\ steady' = [m \in Handlers |-> steady[m] \intersect source']
        /\ UNCHANGED <<pc, remaining, todo, target>>
    BY <1>3 DEF Migration!Edit, Migration!copying
  <2> QED
    BY <1>1, <2>1
<1>4. ASSUME NEW m \in Handlers, Migration!Refuse(m) \/ Migration!Cancel(m) \/ Migration!Fail(m)
      PROVE  Copied'
  <2>1. /\ UNCHANGED <<remaining, todo, steady, target>>
        /\ \/ pc' = pc \/ (pc[m] = "idle" /\ pc' = [pc EXCEPT ![m] = "refused"])
           \/ pc' = [pc EXCEPT ![m] = "rollback"]
    BY <1>4 DEF Migration!Refuse, Migration!Cancel, Migration!Fail, Migration!copying
  <2> QED
    BY <1>1, <2>1
<1>5. ASSUME NEW m \in Handlers, NEW t \in Tables, Migration!StartTable(m, t) PROVE Copied'
  <2>1. /\ table[m] = "none"
        /\ remaining' = [remaining EXCEPT ![m] = @ \ {t}]
        /\ todo' = [todo EXCEPT ![m] = Migration!Of(t, source)]
        /\ UNCHANGED <<pc, steady, target>>
    BY <1>5 DEF Migration!StartTable
  <2>2. steady[m] \subseteq source /\ \A r \in todo[m] : TableOf[r] = "none"
    BY <1>0, <2>1 DEF Kept
  <2>3. \A r \in steady[m] : TableOf[r] \notin remaining'[m] /\ r \notin todo'[m]
                              => TableOf[r] \notin remaining[m] /\ r \notin todo[m]
    BY <2>1, <2>2 DEF Migration!Of, MigrationBounded
  <2> QED
    BY <1>0, <2>1, <2>3
<1>6. ASSUME NEW m \in Handlers, NEW r \in Rows, Migration!InsertRow(m, r) PROVE Copied'
  BY <1>0, <1>6 DEF Migration!InsertRow
<1>7. ASSUME NEW m \in Handlers, Migration!FinishTable(m) PROVE Copied'
  BY <1>1, <1>7 DEF Migration!FinishTable
<1>8. ASSUME NEW m \in Handlers, Migration!Succeed(m) PROVE Copied'
  <2>1. /\ pc[m] = "copying" /\ remaining[m] = {} /\ table[m] = "none"
        /\ pc' = [pc EXCEPT ![m] = "ok"]
        /\ remaining' = [remaining EXCEPT ![m] = {}] /\ todo' = [todo EXCEPT ![m] = {}]
        /\ UNCHANGED <<steady, target>>
    BY <1>8 DEF Migration!Succeed
  <2>2. todo[m] = {}
    BY <1>0, <2>1, NothingToDo DEF Kept
  <2> QED
    BY <1>0, <2>1, <2>2
<1>9. ASSUME NEW m \in Handlers, Migration!Answer(m) \/ Migration!Rollback(m) PROVE Copied'
  <2>1. /\ pc[m] = "rollback" /\ pc'[m] \in {"rollback", "failed"} /\ steady' = steady
        /\ \A n \in Handlers \ {m} : pc'[n] = pc[n]
    BY <1>9 DEF Migration!Answer, Migration!Rollback
  <2>2. \A n \in Handlers \ {m} : ~Migration!Alone(n)'
    BY <2>1
  <2> QED
    BY <2>1, <2>2
<1>10. CASE UNCHANGED Migration!vars
  BY <1>1, <1>10 DEF Migration!vars, Migration!copying
<1> QED
  BY <1>2, <1>3, <1>4, <1>5, <1>6, <1>7, <1>8, <1>9, <1>10 DEF Migration!Next

\* Every step keeps an undisturbed copy exact: the order of the tables lets no row
\* arrive before its parent.
LEMMA ExactStep ==
  ASSUME MigrationBounded, MigrationInv, [Migration!Next]_Migration!vars
  PROVE  Exact'
<1> USE MigrationPlaces DEF Exact, Undisturbed, Migration!Trouble, Migration!Goto,
        Migration!Settle, Migration!NoTable
<1>0. Exact /\ Kept /\ Exclusive
  BY DEF MigrationInv
\* A step of m, which leaves the rest undisturbed in name only.
<1>1. ASSUME NEW m \in Handlers, pc[m] \in {"copying", "rollback"},
             \A n \in Handlers \ {m} : /\ pc'[n] = pc[n] /\ disturbed'[n] = disturbed[n]
                                       /\ before'[n] = before[n],
             Undisturbed(m)' /\ before'[m] = {} =>
               /\ pc'[m] = "copying" /\ todo'[m] \subseteq source'
               /\ target' = {r \in source' : TableOf[r] \notin remaining'[m] /\ r \notin todo'[m]}
      PROVE  Exact'
  <2>1. ASSUME NEW n \in Handlers \ {m} PROVE ~(Undisturbed(n)')
    BY <1>0, <1>1, <2>1 DEF Exclusive
  <2> QED
    BY <1>1, <2>1
<1>2. ASSUME NEW m \in Handlers, Migration!Begin(m) PROVE Exact'
  <2>1. /\ pc[m] = "idle" /\ pc' = [pc EXCEPT ![m] = "copying"]
        /\ remaining' = [remaining EXCEPT ![m] = Tables]
        /\ before' = [before EXCEPT ![m] = target']
        /\ \A n \in Handlers \ {m} : disturbed'[n] = (disturbed[n] \/ pc[n] # "idle")
        /\ UNCHANGED <<source, todo>>
    BY <1>2 DEF Migration!Begin, Migration!GetTables, Migration!copying
  <2>2. ASSUME NEW n \in Handlers \ {m} PROVE ~(Undisturbed(n)')
    BY <2>1
  <2>3. pc'[m] = "copying" /\ before'[m] = target' /\ remaining'[m] = Tables
    BY <2>1
  <2>4. todo'[m] = {}
    BY <1>0, <2>1 DEF Kept, MigrationBounded
  <2>5. {r \in source : TableOf[r] \notin Tables /\ r \notin {}} = {}
    BY DEF MigrationBounded
  <2> QED
    BY <2>1, <2>2, <2>3, <2>4, <2>5
<1>3. ASSUME NEW r \in Rows, Migration!Edit(r) PROVE Exact'
  <2>1. /\ \A m \in Handlers : disturbed'[m] = (disturbed[m] \/ Migration!Running(m))
        /\ UNCHANGED <<pc, before>>
    BY <1>3 DEF Migration!Edit
  <2>2. ASSUME NEW m \in Handlers, Undisturbed(m)', before'[m] = {} PROVE FALSE
    BY <1>0, <2>1, <2>2 DEF Migration!Running
  <2> QED
    BY <2>2
<1>4. ASSUME NEW m \in Handlers, Migration!Refuse(m) PROVE Exact'
  <2>1. /\ pc' = [pc EXCEPT ![m] = "refused"]
        /\ UNCHANGED <<source, target, remaining, todo, before, disturbed>>
    BY <1>4 DEF Migration!Refuse, Migration!copying
  <2> QED
    BY <1>0, <2>1
<1>5. ASSUME NEW m \in Handlers, Migration!Cancel(m) PROVE Exact'
  <2>1. /\ disturbed' = [disturbed EXCEPT ![m] = TRUE]
        /\ UNCHANGED <<source, target, remaining, todo, before, pc>>
    BY <1>5 DEF Migration!Cancel, Migration!copying
  <2> QED
    BY <1>0, <2>1
<1>6. ASSUME NEW m \in Handlers, NEW t \in Tables, Migration!StartTable(m, t) PROVE Exact'
  <2>1. /\ pc[m] = "copying" /\ table[m] = "none"
        /\ remaining' = [remaining EXCEPT ![m] = @ \ {t}]
        /\ todo' = [todo EXCEPT ![m] = Migration!Of(t, source)]
        /\ UNCHANGED <<source, target, before, disturbed, pc>>
    BY <1>6 DEF Migration!StartTable
  <2>2. todo[m] = {} /\ t \in remaining[m]
    <3>1. t \in Migration!NextTable(remaining[m])
      BY <1>6 DEF Migration!StartTable
    <3>2. remaining[m] \in SUBSET Tables
      OBVIOUS
    <3>3. t \in remaining[m]
      BY <3>1, <3>2, NextIsFree
    <3> QED
      BY <2>1, <3>3, NothingToDo
  <2>3. \A r \in source : (TableOf[r] \notin remaining'[m] /\ r \notin todo'[m])
                          <=> (TableOf[r] \notin remaining[m] /\ r \notin todo[m])
    BY <2>1, <2>2 DEF Migration!Of
  <2>4. todo'[m] \subseteq source
    BY <2>1 DEF Migration!Of
  <2> QED
    BY <1>0, <1>1, <2>1, <2>3, <2>4
<1>7. ASSUME NEW m \in Handlers, NEW r \in Rows, Migration!InsertRow(m, r) PROVE Exact'
  <2>1. /\ pc[m] = "copying" /\ r \in todo[m] /\ target' = target \union {r}
        /\ todo' = [todo EXCEPT ![m] = @ \ {r}]
        /\ UNCHANGED <<source, remaining, before, disturbed, pc>>
    BY <1>7 DEF Migration!InsertRow
  <2>2. ASSUME Undisturbed(m), before[m] = {}
        PROVE  /\ todo'[m] \subseteq source
               /\ target' = {s \in source : TableOf[s] \notin remaining[m] /\ s \notin todo'[m]}
    <3>1. /\ todo[m] \subseteq source
          /\ target = {s \in source : TableOf[s] \notin remaining[m] /\ s \notin todo[m]}
      BY <1>0, <2>2
    <3>2. r \in source /\ todo'[m] = todo[m] \ {r}
      BY <2>1, <3>1
    <3>3. TableOf[r] \notin remaining[m]
      BY <1>0, <2>1 DEF Kept
    <3> QED
      BY <2>1, <3>1, <3>2, <3>3
  <2> QED
    BY <1>1, <2>1, <2>2
<1>8. ASSUME NEW m \in Handlers, Migration!FinishTable(m) PROVE Exact'
  <2>1. UNCHANGED <<source, target, remaining, todo, before, disturbed, pc>>
    BY <1>8 DEF Migration!FinishTable
  <2> QED
    BY <1>0, <2>1
<1>9. ASSUME NEW m \in Handlers, Migration!Succeed(m) PROVE Exact'
  <2>1. /\ pc[m] = "copying" /\ pc' = [pc EXCEPT ![m] = "ok"]
        /\ UNCHANGED <<before, disturbed>>
    BY <1>9 DEF Migration!Succeed
  <2> QED
    BY <1>1, <2>1
<1>10. ASSUME NEW m \in Handlers, Migration!Answer(m) \/ Migration!Rollback(m) PROVE Exact'
  <2>1. /\ pc[m] = "rollback" /\ before' = before
        /\ pc' = pc \/ pc' = [pc EXCEPT ![m] = "failed"]
        /\ disturbed' = disturbed \/ disturbed' = [disturbed EXCEPT ![m] = TRUE]
    BY <1>10 DEF Migration!Answer, Migration!Rollback
  <2>2. disturbed[m] \/ before[m] # {}
    BY <1>0, <2>1
  <2>3. disturbed'[m] \/ before'[m] # {}
    BY <2>1, <2>2
  <2> QED
    BY <1>1, <2>1, <2>3
<1>11. ASSUME NEW m \in Handlers, Migration!Fail(m) PROVE Exact'
  <2>1. /\ pc[m] = "copying" /\ pc' = [pc EXCEPT ![m] = "rollback"] /\ before' = before
        /\ disturbed' = disturbed \/ disturbed' = [disturbed EXCEPT ![m] = TRUE]
    BY <1>11 DEF Migration!Fail
  <2>2. ASSUME ~disturbed'[m], before[m] = {} PROVE FALSE
    <3>1. /\ ~disturbed[m] /\ ~cancelled[m] /\ todo[m] \subseteq source
          /\ target = {r \in source : TableOf[r] \notin remaining[m] /\ r \notin todo[m]}
      <4>1. ~disturbed[m]
        BY <2>1, <2>2
      <4> QED
        BY <1>0, <2>1, <2>2, <4>1 DEF Kept
    <3>2. PICK r \in todo[m] : ~Migration!Takes(r)
      BY <1>11, <2>2, <3>1 DEF Migration!Fail
    <3>3. r \in source /\ r \in Rows /\ r \notin target /\ TableOf[r] = table[m]
      BY <1>0, <3>1, <3>2 DEF Kept
    <3>4. Parent[r] \notin target /\ Parent[r] # r
      BY <3>2, <3>3 DEF Migration!Takes
    <3>5. Parent[r] \in source /\ TableOf[Parent[r]] # table[m]
      BY <1>0, <3>3, <3>4 DEF Kept, Migration!Whole, MigrationBounded
    <3>6. TableOf[Parent[r]] \in remaining[m]
      BY <1>0, <3>1, <3>4, <3>5 DEF Kept
    <3>7. TableOf[Parent[r]] \in Migration!Dependencies(table[m])
      BY <3>3, <3>5 DEF Migration!Dependencies, Migration!Of
    <3>8. table[m] # "none"
      BY <3>3 DEF MigrationBounded
    <3> QED
      BY <1>0, <2>1, <3>6, <3>7, <3>8 DEF Kept
  <2>3. \A n \in Handlers \ {m} : pc'[n] = pc[n] /\ disturbed'[n] = disturbed[n]
    BY <2>1
  <2> QED
    BY <1>1, <2>1, <2>2, <2>3
<1>12. CASE UNCHANGED Migration!vars
  BY <1>0, <1>12 DEF Migration!vars, Migration!copying
<1> QED
  BY <1>2, <1>3, <1>4, <1>5, <1>6, <1>7, <1>8, <1>9, <1>10, <1>11, <1>12 DEF Migration!Next

\* What a sequence keeps when its last element goes, and when one comes.
LEMMA WithoutLast ==
  ASSUME NEW S, NEW s \in Seq(S), s # <<>>
  PROVE  /\ Len(s) \in Nat \ {0} /\ Len(SubSeq(s, 1, Len(s) - 1)) = Len(s) - 1
         /\ \A i \in 1..(Len(s) - 1) : SubSeq(s, 1, Len(s) - 1)[i] = s[i]
<1>1. Len(s) \in Nat \ {0}
  OBVIOUS
<1>2. Len(SubSeq(s, 1, Len(s) - 1)) = Len(s) - 1
  <2>1. \A i \in 1..(Len(s) - 1) : s[i] \in S
    BY <1>1
  <2>2. Len(s) - 1 \in Int /\ 1 \in Int
    BY <1>1
  <2>3. PICK n \in Int : n = Len(s) - 1
    BY <2>2
  <2>4. Len(SubSeq(s, 1, n)) = IF 1 <= n THEN n - 1 + 1 ELSE 0
    BY <2>1, <2>3, SubSeqProperties
  <2> QED
    BY <1>1, <2>3, <2>4
<1>3. \A i \in 1..(Len(s) - 1) : SubSeq(s, 1, Len(s) - 1)[i] = s[i]
  BY <1>1
<1> QED
  BY <1>1, <1>2, <1>3

LEMMA WithAnother ==
  ASSUME NEW S, NEW s \in Seq(S), NEW e \in S
  PROVE  /\ Len(Append(s, e)) = Len(s) + 1 /\ Append(s, e)[Len(s) + 1] = e
         /\ \A i \in 1..Len(s) : Append(s, e)[i] = s[i]
OBVIOUS

\* Every step keeps what an undisturbed migration has put into the target accounted for.
LEMMA AccountedStep ==
  ASSUME MigrationBounded, MigrationInv, [Migration!Next]_Migration!vars
  PROVE  Accounted'
<1> USE MigrationPlaces DEF Undisturbed, Migration!Trouble, Migration!Goto,
        Migration!Settle, Migration!NoTable
<1> DEFINE Listed(r, s) == \E i \in 1..Len(s) : s[i] = TableOf[r]
           Told(m) == Undisturbed(m) =>
             \A r \in target : r \in before[m] \/ TableOf[r] = table[m] \/ Listed(r, migrated[m])
<1>0. Kept /\ Exclusive /\ \A m \in Handlers : Told(m)
  BY DEF MigrationInv, Accounted
<1> SUFFICES \A m \in Handlers : Told(m)'
  BY DEF Accounted
<1>none. \A r \in Rows : TableOf[r] # "none"
  BY DEF MigrationBounded
\* The target wins nothing, and what is undisturbed was so with the same account.
<1>1. ASSUME NEW m \in Handlers, target' \subseteq target,
             Undisturbed(m)' => /\ Undisturbed(m)
                                /\ before'[m] = before[m] /\ table'[m] = table[m]
                                /\ migrated'[m] = migrated[m]
      PROVE  Told(m)'
  BY <1>0, <1>1
<1>2. ASSUME NEW m \in Handlers, Migration!Begin(m) PROVE \A n \in Handlers : Told(n)'
  <2>1. /\ pc[m] = "idle" /\ pc' = [pc EXCEPT ![m] = "copying"]
        /\ before' = [before EXCEPT ![m] = target']
        /\ \A n \in Handlers \ {m} : disturbed'[n] = (disturbed[n] \/ pc[n] # "idle")
    BY <1>2 DEF Migration!Begin
  <2>2. ASSUME NEW n \in Handlers \ {m} PROVE ~(Undisturbed(n)')
    BY <2>1
  <2>3. before'[m] = target'
    BY <2>1
  <2> QED
    BY <2>2, <2>3
<1>3. ASSUME NEW r \in Rows, Migration!Edit(r) PROVE \A n \in Handlers : Told(n)'
  <2>1. /\ \A m \in Handlers : disturbed'[m] = (disturbed[m] \/ Migration!Running(m))
        /\ UNCHANGED <<pc, before, target, table, migrated>>
    BY <1>3 DEF Migration!Edit, Migration!copying
  <2> QED
    BY <1>1, <2>1
<1>4. ASSUME NEW m \in Handlers, Migration!Refuse(m) \/ Migration!Cancel(m) \/ Migration!Succeed(m)
      PROVE  \A n \in Handlers : Told(n)'
  <2>1. /\ UNCHANGED <<target, before, table>>
        /\ disturbed' = disturbed \/ disturbed' = [disturbed EXCEPT ![m] = TRUE]
        /\ \/ migrated' = migrated /\ (pc' = pc \/ pc' = [pc EXCEPT ![m] = "refused"])
           \/ migrated' = [migrated EXCEPT ![m] = <<>>] /\ pc' = [pc EXCEPT ![m] = "ok"]
    BY <1>4 DEF Migration!Refuse, Migration!Cancel, Migration!Succeed, Migration!copying
  <2> QED
    BY <1>1, <2>1
<1>5. ASSUME NEW m \in Handlers, NEW t \in Tables, Migration!StartTable(m, t)
      PROVE  \A n \in Handlers : Told(n)'
  <2>1. /\ table[m] = "none" /\ table' = [table EXCEPT ![m] = t]
        /\ UNCHANGED <<pc, disturbed, before, target, migrated>>
    BY <1>5 DEF Migration!StartTable
  <2>2. Told(m)'
    BY <1>0, <1>none, <2>1
  <2>3. \A n \in Handlers \ {m} : Told(n)'
    BY <1>1, <2>1
  <2> QED
    BY <2>2, <2>3
<1>6. ASSUME NEW m \in Handlers, NEW r \in Rows, Migration!InsertRow(m, r)
      PROVE  \A n \in Handlers : Told(n)'
  <2>1. /\ pc[m] = "copying" /\ r \in todo[m] /\ target' = target \union {r}
        /\ UNCHANGED <<pc, disturbed, before, table, migrated>>
    BY <1>6 DEF Migration!InsertRow
  <2>2. TableOf[r] = table[m]
    BY <1>0, <2>1 DEF Kept
  <2>3. Told(m)'
    BY <1>0, <2>1, <2>2
  <2>4. ASSUME NEW n \in Handlers \ {m} PROVE ~(Undisturbed(n)')
    BY <1>0, <2>1, <2>4 DEF Exclusive
  <2> QED
    BY <2>3, <2>4
<1>7. ASSUME NEW m \in Handlers, Migration!FinishTable(m) PROVE \A n \in Handlers : Told(n)'
  <2>1. /\ table[m] # "none"
        /\ migrated' = [migrated EXCEPT ![m] = Append(@, table[m])]
        /\ table' = [table EXCEPT ![m] = "none"]
        /\ UNCHANGED <<pc, disturbed, before, target>>
    BY <1>7 DEF Migration!FinishTable
  <2>2. migrated'[m] = Append(migrated[m], table[m]) /\ migrated[m] \in Seq(Tables)
        /\ table[m] \in Tables
    BY <2>1
  <2>3. \A r \in Rows : TableOf[r] = table[m] \/ Listed(r, migrated[m]) => Listed(r, migrated'[m])
    <3>1. /\ Len(migrated[m]) \in Nat /\ Len(migrated'[m]) = Len(migrated[m]) + 1
          /\ migrated'[m][Len(migrated[m]) + 1] = table[m]
          /\ \A i \in 1..Len(migrated[m]) : migrated'[m][i] = migrated[m][i]
      BY <2>2, WithAnother
    <3>2. /\ Len(migrated[m]) + 1 \in 1..Len(migrated'[m])
          /\ \A i \in 1..Len(migrated[m]) : i \in 1..Len(migrated'[m])
      BY <3>1
    <3> QED
      BY <3>1, <3>2
  <2>4. Told(m)'
    <3> HIDE DEF Listed
    <3> QED
      BY <1>0, <2>1, <2>3
  <2>5. \A n \in Handlers \ {m} : Told(n)'
    BY <1>1, <2>1
  <2> QED
    BY <2>4, <2>5
<1>8. ASSUME NEW m \in Handlers, Migration!Fail(m) PROVE \A n \in Handlers : Told(n)'
  <2>1. /\ pc[m] = "copying" /\ pc' = [pc EXCEPT ![m] = "rollback"]
        /\ disturbed' = disturbed \/ disturbed' = [disturbed EXCEPT ![m] = TRUE]
        /\ UNCHANGED <<target, before, table, migrated>>
    BY <1>8 DEF Migration!Fail, Migration!copying
  <2> QED
    BY <1>1, <2>1
<1>9. ASSUME NEW m \in Handlers, Migration!Answer(m) PROVE \A n \in Handlers : Told(n)'
  <2>1. /\ pc[m] = "rollback" /\ migrated[m] = <<>> /\ pc' = [pc EXCEPT ![m] = "failed"]
        /\ migrated' = [migrated EXCEPT ![m] = <<>>]
        /\ UNCHANGED <<target, before, table, disturbed>>
    BY <1>9 DEF Migration!Answer
  <2>2. migrated' = migrated
    BY <2>1
  <2> QED
    BY <1>1, <2>1, <2>2
<1>10. ASSUME NEW m \in Handlers, Migration!Rollback(m) PROVE \A n \in Handlers : Told(n)'
  <2>1. /\ pc[m] = "rollback" /\ migrated[m] # <<>>
        /\ migrated' = [migrated EXCEPT ![m] = SubSeq(@, 1, Len(@) - 1)]
        /\ target' \subseteq target
        /\ disturbed' = disturbed \/ disturbed' = [disturbed EXCEPT ![m] = TRUE]
        /\ UNCHANGED <<pc, before, table>>
    BY <1>10 DEF Migration!Rollback
  <2>2. ASSUME Undisturbed(m)' PROVE Told(m)'
    <3>1. Undisturbed(m) /\ ~cancelled[m]
      BY <1>0, <2>1, <2>2 DEF Kept
    <3>2. \A r \in target' : TableOf[r] # migrated[m][Len(migrated[m])]
      BY <1>10, <2>1, <2>2, <3>1 DEF Migration!Rollback, Migration!Of
    <3>3. /\ Len(migrated[m]) \in Nat \ {0} /\ Len(migrated'[m]) = Len(migrated[m]) - 1
          /\ \A i \in 1..(Len(migrated[m]) - 1) : migrated'[m][i] = migrated[m][i]
      BY <2>1, WithoutLast
    <3>4. \A r \in target' : Listed(r, migrated[m]) => Listed(r, migrated'[m])
      <4>1. TAKE r \in target'
      <4>2. HAVE Listed(r, migrated[m])
      <4>3. PICK i \in 1..Len(migrated[m]) : migrated[m][i] = TableOf[r]
        BY <4>2
      <4>4. i # Len(migrated[m])
        BY <3>2, <4>3
      <4>5. i \in 1..(Len(migrated[m]) - 1)
        BY <3>3, <4>4
      <4> QED
        BY <3>3, <4>3, <4>5
    <3> HIDE DEF Listed
    <3> QED
      BY <1>0, <2>1, <3>1, <3>4
  <2>3. \A n \in Handlers \ {m} : Told(n)'
    BY <1>1, <2>1
  <2> QED
    BY <2>2, <2>3
<1>11. CASE UNCHANGED Migration!vars
  BY <1>1, <1>11 DEF Migration!vars, Migration!copying
<1> QED
  BY <1>2, <1>3, <1>4, <1>5, <1>6, <1>7, <1>8, <1>9, <1>10, <1>11 DEF Migration!Next

\* The migration keeps its types; an answer of success means that what the source had
\* throughout is in the target, and an undisturbed failure has its one cause and leaves
\* one table, whatever the tables, the rows, the requests and the order of what happens.
THEOREM MigrationHolds ==
  ASSUME MigrationBounded
  PROVE  Migration!Spec => [](/\ Migration!TypeOK /\ Migration!OkMeansCopied
                              /\ Migration!QuietFailsOnlyOnRows
                              /\ Migration!FailureLeavesOneTable)
<1>1. Migration!Init => MigrationInv
  <2> SUFFICES ASSUME Migration!Init PROVE MigrationInv
    OBVIOUS
  <2> USE DEF Migration!Init, Migration!NoTable
  <2>1. Migration!TypeOK
    <3>1. source \subseteq Rows /\ target \subseteq Rows
      BY DEF MigrationBounded
    <3>2. edits \in 0..MaxEdits /\ troubles \in 0..MaxTroubles
      BY DEF MigrationBounded
    <3>3. migrated \in [Handlers -> Seq(Tables)]
      OBVIOUS
    <3> QED
      BY <3>1, <3>2, <3>3 DEF Migration!TypeOK
  <2>2. Kept
    BY DEF Kept
  <2> QED
    BY <2>1, <2>2 DEF MigrationInv, Over, Exclusive, Copied, Exact, Accounted, Undisturbed
<1>2. MigrationInv /\ [Migration!Next]_Migration!vars => MigrationInv'
  BY MigrationTypeStep, KeptStep, OverStep, ExclusiveStep, CopiedStep, ExactStep, AccountedStep
     DEF MigrationInv
<1>3. MigrationInv => /\ Migration!TypeOK /\ Migration!OkMeansCopied
                      /\ Migration!QuietFailsOnlyOnRows /\ Migration!FailureLeavesOneTable
  <2> SUFFICES ASSUME MigrationInv PROVE /\ Migration!TypeOK /\ Migration!OkMeansCopied
                      /\ Migration!QuietFailsOnlyOnRows /\ Migration!FailureLeavesOneTable
    OBVIOUS
  <2> USE MigrationPlaces
  <2>1. Migration!OkMeansCopied
    BY DEF MigrationInv, Copied, Over, Migration!OkMeansCopied
  <2>2. Migration!QuietFailsOnlyOnRows
    BY DEF MigrationInv, Exact, Undisturbed, Migration!QuietFailsOnlyOnRows
  <2>3. Migration!FailureLeavesOneTable
    BY DEF MigrationInv, Accounted, Over, Undisturbed, Migration!FailureLeavesOneTable,
       Migration!Of
  <2> QED
    BY <2>1, <2>2, <2>3 DEF MigrationInv
<1> QED
  BY <1>1, <1>2, <1>3, PTL DEF Migration!Spec

\* The same of what the runs check.
THEOREM MigrationHoldsThroughout == ASSUME MigrationBounded PROVE SumSpec => []MigrationIsWhole
<1>1. SumInit /\ focus = "migration" => Migration!Init
  BY DEF SumInit
<1>2. focus = "migration" /\ [SumNext]_sumVars
        => [Migration!Next]_Migration!vars /\ (focus = "migration")'
  BY DEF SumNext, outputOnly, migrationOnly, projectOnly, webhookOnly, sumVars,
         Migration!copying, Migration!vars
<1>3. ~(focus = "migration") /\ [SumNext]_sumVars => (~(focus = "migration"))'
  BY DEF SumNext, sumVars
<1>4. (focus = "migration" => /\ Migration!TypeOK /\ Migration!OkMeansCopied
                              /\ Migration!QuietFailsOnlyOnRows
                              /\ Migration!FailureLeavesOneTable) => MigrationIsWhole
  BY DEF MigrationIsWhole
<1>5. Migration!Spec => [](/\ Migration!TypeOK /\ Migration!OkMeansCopied
                           /\ Migration!QuietFailsOnlyOnRows
                           /\ Migration!FailureLeavesOneTable)
  BY MigrationHolds, PTL
<1> QED
  BY <1>1, <1>2, <1>3, <1>4, <1>5, PTL DEF SumSpec, Migration!Spec

=============================================================================
