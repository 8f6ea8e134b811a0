--------------------------- MODULE SharedCallsProofs ---------------------------
(***************************************************************************)
(* The two Lambdas that write through the shared record calls, the bid     *)
(* grid import and the move of hours, for any number of imports, pricing   *)
(* runs, requests and faults.                                              *)
(*                                                                         *)
(* The bid grid: what the batches have written and have still to write     *)
(* (OrderInv) gives the order of the records and the meaning of the mark;  *)
(* how many records there are, and how many are still to be added,         *)
(* against the faults (CountInv) gives that duplicates come from faults.   *)
(* As long as nothing went wrong, what an import has still to write is     *)
(* what its grid has and SPP has not (ReadInv), so that what the last one  *)
(* left reads back as its grid.                                            *)
(* The moves of hours are at the end: what a request still holds in its    *)
(* hands never promises less than what has to remain (HoursInv).           *)
(***************************************************************************)
EXTENDS BidGrid, MoveTime, FiniteSetTheorems, SequenceTheorems, TLAPS

-----------------------------------------------------------------------------
(* Functions from some of the keys, and grids. *)

LEMMA FromKeysIntro ==
  ASSUME NEW S, NEW f, DOMAIN f \subseteq Keys, f = [k \in DOMAIN f |-> f[k]],
         \A k \in DOMAIN f : f[k] \in S
  PROVE  f \in FromKeys(S)
<1>1. f \in [DOMAIN f -> S]
  OBVIOUS
<1> QED BY <1>1 DEF FromKeys

LEMMA FromKeysElim ==
  ASSUME NEW S, NEW f \in FromKeys(S)
  PROVE  /\ DOMAIN f \subseteq Keys
         /\ f = [k \in DOMAIN f |-> f[k]]
         /\ \A k \in DOMAIN f : f[k] \in S
BY DEF FromKeys

LEMMA NothingFromKeys == ASSUME NEW S PROVE <<>> \in FromKeys(S)
<1>1. DOMAIN <<>> = {} /\ <<>> = [k \in {} |-> <<>>[k]]
  OBVIOUS
<1> QED BY <1>1 DEF FromKeys

LEMMA NoPlanIsPlan == NoPlan \in Plan
BY NothingFromKeys DEF NoPlan, Plan

LEMMA GridFacts ==
  ASSUME NEW g \in Grids
  PROVE  /\ DOMAIN g \subseteq Units
         /\ \A u \in DOMAIN g : /\ g[u].basis \in Fields /\ g[u].named \in DOMAIN g
                                /\ g[g[u].named].named = g[u].named
         /\ GridRows(g) = [k \in DOMAIN GridRows(g) |-> GridRows(g)[k]]
         /\ DOMAIN GridRows(g) \subseteq Keys
         /\ \A k \in DOMAIN GridRows(g) : GridRows(g)[k] \in Row /\ k[1] \in DOMAIN g
         /\ DOMAIN GridTasks(g) = DOMAIN g
<1>1. WellFormed(g)
  BY BidGridAssumption
<1>2. DOMAIN GridRows(g) = {x \in Keys : x[1] \in DOMAIN g /\ x[2] \in DOMAIN g[x[1]].rows}
  BY DEF GridRows
<1>3. \A k \in DOMAIN GridRows(g) : GridRows(g)[k] = g[k[1]].rows[k[2]]
  BY <1>2 DEF GridRows
<1> QED BY <1>1, <1>2, <1>3 DEF WellFormed, GridTasks, GridRows

\* In a grid, a unit with a name of its own is put to a task of its own.
LEMMA OwnTarget ==
  ASSUME NEW i \in Imports, grid[i] \in Grids, NEW l \in DOMAIN GridRows(grid[i]),
         NEW k \in Keys, OwnName(k[1])
  PROVE  Target(i, l) = k <=> l = k
<1> DEFINE g == grid[i]
<1>1. l[1] \in DOMAIN g /\ l \in Keys /\ g[l[1]].named \in DOMAIN g
  BY GridFacts
<1>2. l = <<l[1], l[2]>> /\ k = <<k[1], k[2]>>
  BY <1>1 DEF Keys
<1>3. CASE ~first[i]
  BY <1>3 DEF Target
<1>4. CASE first[i]
  <2>1. Target(i, l) = <<g[l[1]].named, l[2]>>
    BY <1>4 DEF Target
  <2>2. ASSUME Target(i, l) = k PROVE l = k
    <3>1. k[1] = g[l[1]].named /\ k[2] = l[2]
      BY <2>1, <2>2
    <3>2. k[1] \in DOMAIN g
      BY <1>1, <3>1
    <3>3. g[l[1]].named = k[1] => l[1] = k[1]
      BY <1>1, <3>2 DEF OwnName
    <3> QED BY <1>2, <3>1, <3>3
  <2>3. ASSUME l = k PROVE Target(i, l) = k
    <3>1. k[1] \in DOMAIN g
      BY <1>1, <2>3
    <3>2. g[k[1]].named = k[1]
      BY <3>1 DEF OwnName
    <3> QED BY <1>2, <2>1, <2>3, <3>2
  <2> QED BY <2>2, <2>3
<1> QED BY <1>3, <1>4

\* What a later import reads of a unit that comes back as itself.
LEMMA ReadTasksFacts ==
  /\ DOMAIN ReadTasks \subseteq Units
  /\ \A u \in Units : ReadsAsItself(u) /\ made[u] > 0 => u \in DOMAIN ReadTasks
  /\ \A u \in DOMAIN ReadTasks : OwnNumber(u) => made[u] > 0 /\ ReadTasks[u] = basis[u]
<1>1. DOMAIN ReadTasks = {ReadAs[u] : u \in {v \in Units : made[v] > 0}}
  BY DEF ReadTasks
<1>2. \A u \in Units : ReadAs[u] \in Units
  BY BidGridAssumption
<1>3. ASSUME NEW u \in DOMAIN ReadTasks, OwnNumber(u)
      PROVE  made[u] > 0 /\ ReadTasks[u] = basis[u]
  <2> DEFINE w == CHOOSE v \in Units : made[v] > 0 /\ ReadAs[v] = u
  <2>1. \E v \in Units : made[v] > 0 /\ ReadAs[v] = u
    BY <1>1, <1>3
  <2>2. w \in Units /\ made[w] > 0 /\ ReadAs[w] = u
    BY <2>1
  <2>3. ReadTasks[u] = basis[w]
    BY <1>1, <1>3 DEF ReadTasks
  <2> HIDE DEF w
  <2>4. w = u
    BY <1>3, <2>2 DEF OwnNumber
  <2> QED BY <2>2, <2>3, <2>4
<1> QED BY <1>1, <1>2, <1>3 DEF ReadsAsItself

LEMMA ReadRowsFacts ==
  /\ DOMAIN ReadRows \subseteq Keys
  /\ \A x \in Listed : ReadsAsItself(x[1]) => x \in DOMAIN ReadRows
  /\ \A k \in DOMAIN ReadRows : OwnNumber(k[1]) => k \in Listed /\ ReadRows[k] = RowOf(k)
<1>1. DOMAIN ReadRows = {KeyOf(x) : x \in Listed}
  BY DEF ReadRows
<1>2. /\ \A u \in Units : ReadAs[u] \in Units
      /\ Listed \subseteq Keys
      /\ \A x \in Keys : x = <<x[1], x[2]>> /\ x[1] \in Units
  BY BidGridAssumption DEF Listed, Keys
<1>3. \A x \in Listed : KeyOf(x) \in Keys
  BY <1>2 DEF KeyOf, Keys
<1>4. ASSUME NEW x \in Listed, ReadsAsItself(x[1]) PROVE x \in DOMAIN ReadRows
  <2>1. KeyOf(x) = x
    BY <1>2, <1>4 DEF KeyOf, ReadsAsItself
  <2> QED BY <1>1, <2>1
<1>5. ASSUME NEW k \in DOMAIN ReadRows, OwnNumber(k[1])
      PROVE  k \in Listed /\ ReadRows[k] = RowOf(k)
  <2> DEFINE y == CHOOSE x \in Listed : KeyOf(x) = k
  <2>1. \E x \in Listed : KeyOf(x) = k
    BY <1>1, <1>5
  <2>2. y \in Listed /\ KeyOf(y) = k
    BY <2>1
  <2>3. ReadRows[k] = RowOf(y)
    BY <1>1, <1>5 DEF ReadRows
  <2> HIDE DEF y
  <2>4. ReadAs[y[1]] = k[1] /\ y[2] = k[2]
    BY <2>2 DEF KeyOf
  <2>5. y[1] = k[1]
    BY <1>2, <1>5, <2>2, <2>4 DEF OwnNumber
  <2>6. y = k
    BY <1>2, <1>3, <2>2, <2>4, <2>5
  <2> QED BY <2>2, <2>3, <2>6
<1> QED BY <1>1, <1>3, <1>4, <1>5

\* What is planned is of the grid.
GridInv ==
  \A i \in Imports :
    /\ pc[i] # "idle" => grid[i] \in Grids
    /\ plan[i].tasks \union plan[i].upserts \subseteq DOMAIN grid[i]
    /\ DOMAIN plan[i].adds \union DOMAIN plan[i].mods \subseteq DOMAIN GridRows(grid[i])

Typed == TypeOK /\ GridInv

LEMMA InitTyped == Init => Typed
<1> SUFFICES ASSUME Init PROVE Typed
  OBVIOUS
<1>1. NoPlan \in Plan
  BY NoPlanIsPlan
<1>2. <<>> \in Seq(Row)
  OBVIOUS
<1>3. /\ Retries \in Nat \ {0} /\ MaxFaults \in Nat
      /\ Blank \in Fields /\ CategoryOf[Blank] \in Categories
  BY BidGridAssumption
<1>4. TypeOK
  <2>1. /\ made \in [ExtIds -> Nat] /\ basis \in [Units -> Fields]
        /\ total = [u \in Units |-> total[u]]
        /\ asg \in [Keys -> Seq(Row)]
        /\ mark \in BOOLEAN /\ orphans \subseteq ExtIds
    BY <1>2, <1>3 DEF Init
  <2>2. /\ pc \in [Imports -> StageNames \union
                    {"idle", "compare", "delete", "price", "mark", "done", "dead"}]
        /\ grid \in [Imports -> Grids \union {NoGrid}]
        /\ first \in [Imports -> BOOLEAN]
        /\ plan \in [Imports -> Plan]
    BY <1>1 DEF Init
  <2>3. attempt \in [Imports -> 1 .. Retries]
    <3>1. 1 \in 1 .. Retries
      BY <1>3
    <3> QED BY <3>1 DEF Init
  <2>4. /\ cpc \in [Calcs -> {"idle", "total", "rule", "addrule", "rate", "addrate", "done"}]
        /\ todo \in [Calcs -> SUBSET Units]
        /\ cats \in [Calcs -> [Units -> Categories]]
    BY <1>3 DEF Init
  <2>5. /\ last \in Grids \union {NoGrid} /\ refused \in BOOLEAN /\ late \subseteq Units
        /\ faults \in 0 .. MaxFaults
    <3>1. 0 \in 0 .. MaxFaults
      BY <1>3
    <3> QED BY <3>1 DEF Init
  <2>6. billing \in [Units -> [rules : Nat, rates : [Categories -> Nat]]]
    <3>1. [t \in Categories |-> 0] \in [Categories -> Nat]
      OBVIOUS
    <3> QED BY <3>1 DEF Init
  <2> QED BY <2>1, <2>2, <2>3, <2>4, <2>5, <2>6 DEF TypeOK
<1>5. GridInv
  BY DEF Init, GridInv, NoPlan
<1> QED BY <1>4, <1>5 DEF Typed

\* The parts of an import that is put into one place of plan.
LEMMA PlanStep ==
  ASSUME TypeOK, NEW i \in Imports, NEW p \in Plan, plan' = [plan EXCEPT ![i] = p]
  PROVE  /\ plan' \in [Imports -> Plan]
         /\ plan'[i] = p
         /\ \A j \in Imports : j # i => plan'[j] = plan[j]
BY DEF TypeOK

LEMMA FirstPlanFacts ==
  ASSUME NEW g \in Grids
  PROVE  LET p == FirstPlan(g) IN
         /\ p \in Plan
         /\ p.phases = {PhaseOf[SubPhaseOf[u]] : u \in DOMAIN g}
         /\ p.subphases = {SubPhaseOf[u] : u \in DOMAIN g}
         /\ p.tasks = {g[u].named : u \in DOMAIN g} /\ p.tasks \subseteq DOMAIN g
         /\ p.upserts = {} /\ p.gone = {} /\ DOMAIN p.mods = {}
         /\ DOMAIN p.adds = {x \in DOMAIN GridRows(g) : x[2] # NoRole}
         /\ \A k \in DOMAIN p.adds : p.adds[k] = GridRows(g)[k]
<1> DEFINE a == [k \in {x \in DOMAIN GridRows(g) : x[2] # NoRole} |-> GridRows(g)[k]]
           ph == {PhaseOf[SubPhaseOf[u]] : u \in DOMAIN g}
           sp == {SubPhaseOf[u] : u \in DOMAIN g}
           ts == {g[u].named : u \in DOMAIN g}
           p == [NoPlan EXCEPT !.phases = ph, !.subphases = sp, !.tasks = ts, !.adds = a]
<1>1. FirstPlan(g) = p
  BY DEF FirstPlan
<1>2. /\ DOMAIN a = {x \in DOMAIN GridRows(g) : x[2] # NoRole}
      /\ \A k \in DOMAIN a : a[k] = GridRows(g)[k]
      /\ a = [k \in DOMAIN a |-> a[k]]
  OBVIOUS
<1> HIDE DEF a
<1>3. a \in FromKeys(Row)
  BY <1>2, GridFacts, FromKeysIntro
<1>4. ph \subseteq Phases /\ sp \subseteq SubPhases /\ ts \subseteq DOMAIN g
  BY GridFacts, BidGridAssumption
<1>5. p \in Plan
  <2>1. ts \subseteq Units
    BY <1>4, GridFacts
  <2> HIDE DEF ts, ph, sp
  <2> QED BY <1>3, <1>4, <2>1, NoPlanIsPlan DEF Plan
<1>6. /\ p.phases = ph /\ p.subphases = sp /\ p.tasks = ts /\ p.adds = a
      /\ p.upserts = NoPlan.upserts /\ p.gone = NoPlan.gone /\ p.mods = NoPlan.mods
  BY NoPlanIsPlan DEF Plan
<1>7. NoPlan.upserts = {} /\ NoPlan.gone = {} /\ DOMAIN NoPlan.mods = {}
  BY DEF NoPlan
<1> QED BY <1>1, <1>2, <1>4, <1>5, <1>6, <1>7

\* The plan of an update.
ComparePlan(i) ==
  LET t == GridTasks(grid[i]) IN
  [NoPlan EXCEPT
     !.tasks = Added(ReadTasks, t),
     !.upserts = Modified(ReadTasks, t),
     !.gone = Deleted(ReadRows, GridRows(grid[i])),
     !.adds = [k \in Added(ReadRows, GridRows(grid[i])) |-> GridRows(grid[i])[k]],
     !.mods = [k \in Modified(ReadRows, GridRows(grid[i])) |-> k]]

LEMMA ComparePlanFacts ==
  ASSUME NEW i \in Imports, grid[i] \in Grids
  PROVE  LET p == ComparePlan(i) IN
         /\ p \in Plan
         /\ p.phases = {} /\ p.subphases = {}
         /\ p.tasks = DOMAIN grid[i] \ DOMAIN ReadTasks
         /\ p.upserts = {u \in DOMAIN grid[i] \intersect DOMAIN ReadTasks :
                           ReadTasks[u] # grid[i][u].basis}
         /\ p.gone = DOMAIN ReadRows \ DOMAIN GridRows(grid[i])
         /\ DOMAIN p.adds = DOMAIN GridRows(grid[i]) \ DOMAIN ReadRows
         /\ \A k \in DOMAIN p.adds : p.adds[k] = GridRows(grid[i])[k]
         /\ DOMAIN p.mods = {k \in DOMAIN ReadRows \intersect DOMAIN GridRows(grid[i]) :
                               ReadRows[k] # GridRows(grid[i])[k]}
         /\ \A k \in DOMAIN p.mods : p.mods[k] = k
<1> DEFINE t == GridTasks(grid[i])
           g == GridRows(grid[i])
           a == [k \in Added(ReadRows, g) |-> g[k]]
           m == [k \in Modified(ReadRows, g) |-> k]
           p == [NoPlan EXCEPT !.tasks = Added(ReadTasks, t), !.upserts = Modified(ReadTasks, t),
                 !.gone = Deleted(ReadRows, g), !.adds = a, !.mods = m]
<1>1. ComparePlan(i) = p
  BY DEF ComparePlan
<1>2. /\ DOMAIN t = DOMAIN grid[i] /\ DOMAIN grid[i] \subseteq Units
      /\ DOMAIN g \subseteq Keys /\ \A k \in DOMAIN g : g[k] \in Row
  BY GridFacts
<1>3. DOMAIN ReadRows \subseteq Keys
  BY ReadRowsFacts
<1>4. Added(ReadRows, g) \subseteq DOMAIN g /\ Modified(ReadRows, g) \subseteq DOMAIN g
  BY DEF Added, Modified
<1>5. a \in FromKeys(Row)
  <2>1. DOMAIN a = Added(ReadRows, g) /\ \A k \in DOMAIN a : a[k] = g[k]
    OBVIOUS
  <2>2. a = [k \in DOMAIN a |-> a[k]]
    OBVIOUS
  <2> HIDE DEF a, g
  <2> QED BY <1>2, <1>4, <2>1, <2>2, FromKeysIntro
<1>6. m \in FromKeys(Keys)
  <2>1. DOMAIN m = Modified(ReadRows, g) /\ \A k \in DOMAIN m : m[k] = k
    OBVIOUS
  <2>2. m = [k \in DOMAIN m |-> m[k]]
    OBVIOUS
  <2> HIDE DEF m, g
  <2> QED BY <1>2, <1>4, <2>1, <2>2, FromKeysIntro
<1>7. /\ Added(ReadTasks, t) = DOMAIN grid[i] \ DOMAIN ReadTasks
      /\ Modified(ReadTasks, t) = {u \in DOMAIN grid[i] \intersect DOMAIN ReadTasks :
                                    ReadTasks[u] # grid[i][u].basis}
  <2>1. \A u \in DOMAIN t : t[u] = grid[i][u].basis
    BY DEF GridTasks
  <2> QED BY <1>2, <2>1 DEF Added, Modified
<1>8. Deleted(ReadRows, g) = DOMAIN ReadRows \ DOMAIN g
  BY DEF Deleted
<1>9. p \in Plan
  <2>1. /\ Added(ReadTasks, t) \subseteq Units /\ Modified(ReadTasks, t) \subseteq Units
        /\ Deleted(ReadRows, g) \subseteq Keys
    BY <1>2, <1>3, <1>7, <1>8
  <2> HIDE DEF a, m, g, t
  <2> QED BY <1>5, <1>6, <2>1, NoPlanIsPlan DEF Plan
<1>10. /\ p.tasks = Added(ReadTasks, t) /\ p.upserts = Modified(ReadTasks, t)
       /\ p.gone = Deleted(ReadRows, g) /\ p.adds = a /\ p.mods = m
       /\ p.phases = NoPlan.phases /\ p.subphases = NoPlan.subphases
  BY NoPlanIsPlan DEF Plan
<1>11. NoPlan.phases = {} /\ NoPlan.subphases = {}
  BY DEF NoPlan
<1>12. /\ DOMAIN a = DOMAIN g \ DOMAIN ReadRows /\ \A k \in DOMAIN a : a[k] = g[k]
       /\ DOMAIN m = {k \in DOMAIN ReadRows \intersect DOMAIN g : ReadRows[k] # g[k]}
       /\ \A k \in DOMAIN m : m[k] = k
  BY DEF Added, Modified
<1> HIDE DEF a, m, g, t, p
<1> QED BY <1>1, <1>7, <1>8, <1>9, <1>10, <1>11, <1>12 DEF g

-----------------------------------------------------------------------------
(* The shared calls. *)

\* What a batch of tasks does. no are the records that SPP refuses.
LEMMA PutTasksFacts ==
  ASSUME Typed, NEW i \in Imports, pc[i] \in {"phases", "subphases", "tasks"},
         NEW no, PutTasks(i, no)
  PROVE  /\ made' \in [ExtIds -> Nat] /\ basis' \in [Units -> Fields]
         /\ total' = [u \in Units |-> total'[u]]
         /\ orphans' \subseteq ExtIds /\ asg' = asg
         /\ \A x \in ExtIds :
              made'[x] = IF x \in Known(i) \ no
                         THEN IF made[x] = 0 THEN 1 ELSE made[x]
                         ELSE IF x \in New(i) \ no THEN made[x] + 1 ELSE made[x]
         /\ \A u \in Units :
              /\ basis'[u] = IF u \in Known(i) \ no \/ (u \in New(i) \ no /\ made[u] = 0)
                             THEN grid[i][u].basis ELSE basis[u]
              /\ u \notin New(i) => total'[u] = total[u]
         /\ Batch(i) \subseteq ExtIds
<1> DEFINE new == New(i) \ no
           up == Known(i) \ no
<1>1. plan[i] \in Plan /\ pc[i] # "idle" /\ pc[i] # "assignments"
  BY DEF Typed, TypeOK
<1>2. grid[i] \in Grids
  BY <1>1 DEF Typed, GridInv
<1>3. Known(i) \subseteq DOMAIN grid[i] /\ New(i) \subseteq ExtIds
  BY <1>1 DEF Known, New, Typed, GridInv, Plan, ExtIds
<1>4. New(i) \intersect Units \subseteq DOMAIN grid[i]
  BY <1>1, BidGridAssumption DEF New, Typed, GridInv, Plan
<1>5. Batch(i) = New(i) \union Known(i) /\ DOMAIN grid[i] \subseteq Units /\ Units \subseteq ExtIds
  BY <1>2, GridFacts DEF Batch, ExtIds
<1>6. \A x \in ExtIds : made[x] \in Nat
  BY DEF Typed, TypeOK
<1>7. /\ made' = [x \in ExtIds |-> IF x \in up THEN Upserted(x, up)
                                   ELSE made[x] + Plus(new, x)]
      /\ orphans' = orphans \union
           {x \in (new \union up) \ Phases : made[Parent(x, ~first[i])] = 0}
      /\ basis' = [u \in Units |-> IF u \in up \/ (u \in new /\ made[u] = 0)
                                    THEN grid[i][u].basis ELSE basis[u]]
      /\ total' = [u \in Units |->
          IF u \notin new \/ made[u] > 0 THEN total[u]
          ELSE IF first[i] THEN grid[i][u].rows[CHOOSE r \in DOMAIN grid[i][u].rows : TRUE].bid
          ELSE 0]
      /\ asg' = asg
  BY DEF PutTasks
<1>8. \A x \in ExtIds :
        made'[x] = IF x \in up THEN IF made[x] = 0 THEN 1 ELSE made[x]
                   ELSE IF x \in new THEN made[x] + 1 ELSE made[x]
  BY <1>6, <1>7 DEF Upserted, Plus
<1>9. \A u \in Units :
        /\ basis'[u] = IF u \in up \/ (u \in new /\ made[u] = 0)
                       THEN grid[i][u].basis ELSE basis[u]
        /\ u \notin New(i) => total'[u] = total[u]
  BY <1>7
<1>10. \A u \in Units : u \in new \union up => grid[i][u].basis \in Fields
  BY <1>2, <1>3, <1>4, GridFacts
<1>11. made' \in [ExtIds -> Nat]
  <2>1. \A x \in ExtIds : made'[x] \in Nat
    BY <1>6, <1>8
  <2> QED BY <1>7, <2>1
<1>12. basis' \in [Units -> Fields]
  <2>1. \A u \in Units : basis'[u] \in Fields
    BY <1>9, <1>10 DEF Typed, TypeOK
  <2> QED BY <1>7, <2>1
<1>13. total' = [u \in Units |-> total'[u]]
  BY <1>7
<1>14. orphans' \subseteq ExtIds
  BY <1>3, <1>5, <1>7 DEF Typed, TypeOK
<1> HIDE DEF new, up
<1>15. new = New(i) \ no /\ up = Known(i) \ no /\ Batch(i) \subseteq ExtIds
  BY <1>3, <1>5 DEF new, up
<1> QED BY <1>5, <1>7, <1>8, <1>9, <1>11, <1>12, <1>13, <1>14, <1>15

\* A finite set as a sequence.
LEMMA SetToSeqFacts ==
  ASSUME NEW S, IsFiniteSet(S)
  PROVE  /\ SetToSeq(S) \in Seq(S)
         /\ S = {} => SetToSeq(S) = <<>>
         /\ \A x : S = {x} => SetToSeq(S) = <<x>>
<1> DEFINE n == Cardinality(S)
           t == SetToSeq(S)
<1>1. n \in Nat /\ ExistsBijection(1 .. n, S)
  BY FS_CardinalityType
<1>2. \E f \in [1 .. n -> S] : IsInjective(f)
  BY <1>1 DEF ExistsBijection, Bijection, Injection
<1>3. t \in [1 .. n -> S]
  BY <1>2 DEF SetToSeq
<1>4. /\ S = {} => n = 0
      /\ \A x : S = {x} => n = 1
  BY FS_EmptySet, FS_Singleton
<1> HIDE DEF n, t
<1>5. t \in Seq(S)
  BY <1>1, <1>3
<1>6. Len(t) = n /\ \A k \in 1 .. Len(t) : t[k] \in S
  BY <1>1, <1>3
<1>7. S = {} => t = <<>>
  BY <1>4, <1>5, <1>6, EmptySeq
<1>8. ASSUME NEW x, S = {x} PROVE t = <<x>>
  <2>1. Len(t) = 1 /\ t[1] = x
    BY <1>4, <1>6, <1>8
  <2>2. <<x>> \in Seq(S) /\ Len(<<x>>) = 1 /\ <<x>>[1] = x
    BY <1>8
  <2> QED BY <1>5, <2>1, <2>2
<1> QED BY <1>5, <1>7, <1>8 DEF t

\* The rows of a batch that are put to one key, and the assignments they make.
Sent(i, no, k) == {l \in DOMAIN plan[i].adds \ no : Target(i, l) = k}
RowsSent(i, s) == [n \in DOMAIN s |-> plan[i].adds[s[n]]]

LEMMA SentFacts ==
  ASSUME Typed, NEW i \in Imports, pc[i] = "assignments", NEW no, NEW k \in Keys
  PROVE  LET s == SetToSeq(Sent(i, no, k)) IN
         /\ RowsSent(i, s) \in Seq(Row)
         /\ Sent(i, no, k) = {} => RowsSent(i, s) = <<>>
         /\ \A l : Sent(i, no, k) = {l} => RowsSent(i, s) = <<plan[i].adds[l]>>
<1> DEFINE S == Sent(i, no, k)
           T == {<<u, k[2]>> : u \in Units}
           f == [u \in Units |-> <<u, k[2]>>]
<1>1. plan[i].adds \in FromKeys(Row)
  BY DEF Typed, TypeOK, Plan
<1>2. DOMAIN plan[i].adds \subseteq Keys /\ \A l \in DOMAIN plan[i].adds : plan[i].adds[l] \in Row
  BY <1>1, FromKeysElim
<1>3. IsFiniteSet(T)
  <2>1. f \in Surjection(Units, T)
    <3>1. f \in [Units -> T]
      OBVIOUS
    <3>2. \A t \in T : \E u \in Units : f[u] = t
      OBVIOUS
    <3> HIDE DEF f, T
    <3> QED BY <3>1, <3>2 DEF Surjection
  <2>2. IsFiniteSet(Units)
    BY BidGridAssumption
  <2> HIDE DEF T, f
  <2> QED BY <2>1, <2>2, FS_Surjection
<1>4. S \subseteq T
  <2> SUFFICES ASSUME NEW l \in S PROVE l \in T
    OBVIOUS
  <2>1. l \in Keys /\ Target(i, l) = k
    BY <1>2 DEF Sent
  <2>2. l = <<l[1], l[2]>> /\ l[1] \in Units
    BY <2>1 DEF Keys
  <2>3. k[2] = l[2]
    BY <2>1, <2>2 DEF Target
  <2> QED BY <2>2, <2>3
<1>5. IsFiniteSet(S)
  <2> HIDE DEF S, T
  <2> QED BY <1>3, <1>4, FS_Subset
<1>6. S \subseteq DOMAIN plan[i].adds
  BY DEF Sent
<1> DEFINE s == SetToSeq(S)
<1> HIDE DEF S, T, f
<1>7. /\ s \in Seq(S)
      /\ S = {} => s = <<>>
      /\ \A l : S = {l} => s = <<l>>
  BY <1>5, SetToSeqFacts
<1> HIDE DEF s
<1>8. RowsSent(i, s) \in Seq(Row)
  <2>1. DOMAIN s = 1 .. Len(s) /\ Len(s) \in Nat /\ \A n \in DOMAIN s : s[n] \in S
    BY <1>7
  <2>2. \A n \in DOMAIN s : plan[i].adds[s[n]] \in Row
    BY <1>2, <1>6, <2>1
  <2> QED BY <2>1, <2>2 DEF RowsSent
<1>9. S = {} => RowsSent(i, s) = <<>>
  <2>1. s = <<>> => DOMAIN s = {}
    OBVIOUS
  <2>2. DOMAIN s = {} => RowsSent(i, s) = <<>>
    <3>1. DOMAIN s = {} => Len(RowsSent(i, s)) = 0
      BY <1>7 DEF RowsSent
    <3> QED BY <1>8, <3>1, EmptySeq
  <2> QED BY <1>7, <2>1, <2>2
<1>10. ASSUME NEW l, S = {l} PROVE RowsSent(i, s) = <<plan[i].adds[l]>>
  <2>1. s = <<l>>
    BY <1>7, <1>10
  <2>2. Len(RowsSent(i, s)) = 1 /\ RowsSent(i, s)[1] = plan[i].adds[l]
    BY <2>1 DEF RowsSent
  <2> QED BY <1>8, <2>2
<1> QED BY <1>8, <1>9, <1>10 DEF s, S

\* The assignments of a key with those that are modified.
Hit(i, no, k) == {l \in DOMAIN plan[i].mods \ no : plan[i].mods[l] = k}
Changed(i, no, k) ==
  IF Hit(i, no, k) = {} \/ asg[k] = <<>> THEN asg[k]
  ELSE <<GridRows(grid[i])[CHOOSE l \in Hit(i, no, k) : TRUE]>> \o Tail(asg[k])

LEMMA ChangedFacts ==
  ASSUME Typed, NEW i \in Imports, pc[i] = "assignments", NEW no, NEW k \in Keys
  PROVE  /\ Changed(i, no, k) \in Seq(Row)
         /\ Len(Changed(i, no, k)) = Len(asg[k])
<1> DEFINE hit == Hit(i, no, k)
           x == GridRows(grid[i])[CHOOSE l \in hit : TRUE]
<1>1. asg[k] \in Seq(Row) /\ grid[i] \in Grids
  BY DEF Typed, TypeOK, GridInv
<1>2. CASE hit = {} \/ asg[k] = <<>>
  BY <1>1, <1>2 DEF Changed
<1>3. CASE hit # {} /\ asg[k] # <<>>
  <2>1. x \in Row
    <3>1. (CHOOSE l \in hit : TRUE) \in hit
      BY <1>3
    <3>2. (CHOOSE l \in hit : TRUE) \in DOMAIN GridRows(grid[i])
      BY <3>1 DEF Hit, Typed, GridInv
    <3> QED BY <1>1, <3>2, GridFacts
  <2>2. Changed(i, no, k) = <<x>> \o Tail(asg[k])
    BY <1>3 DEF Changed
  <2> HIDE DEF x
  <2>3. Tail(asg[k]) \in Seq(Row) /\ Len(Tail(asg[k])) = Len(asg[k]) - 1 /\ Len(asg[k]) \in Nat
    BY <1>1, <1>3
  <2>4. <<x>> \in Seq(Row) /\ Len(<<x>>) = 1
    BY <2>1
  <2>5. /\ <<x>> \o Tail(asg[k]) \in Seq(Row)
        /\ Len(<<x>> \o Tail(asg[k])) = 1 + Len(Tail(asg[k]))
    BY <2>3, <2>4
  <2> QED BY <2>2, <2>3, <2>5
<1> QED BY <1>2, <1>3

\* What a batch of assignments does.
LEMMA PutAssignmentsFacts ==
  ASSUME Typed, NEW i \in Imports, pc[i] = "assignments", NEW no, PutAssignments(i, no)
  PROVE  /\ UNCHANGED <<made, basis, total, orphans>>
         /\ asg' \in [Keys -> Seq(Row)]
         /\ \A k \in Keys : made[k[1]] = 0 => asg'[k] = asg[k]
         /\ \A k \in Keys : made[k[1]] # 0 /\ OwnName(k[1]) =>
              asg'[k] = IF k \in DOMAIN plan[i].adds \ no
                        THEN Append(Changed(i, no, k), plan[i].adds[k]) ELSE Changed(i, no, k)
<1> DEFINE e(k) == IF made[k[1]] = 0 THEN asg[k]
                   ELSE Changed(i, no, k) \o RowsSent(i, SetToSeq(Sent(i, no, k)))
<1>1. New(i) = DOMAIN plan[i].adds /\ Known(i) = DOMAIN plan[i].mods
  BY DEF New, Known
<1>2. UNCHANGED <<made, basis, total, orphans>> /\ asg' = [k \in Keys |-> e(k)]
  BY <1>1 DEF PutAssignments, Changed, Hit, RowsSent, Sent
<1>3. ASSUME NEW k \in Keys
      PROVE  /\ e(k) \in Seq(Row)
             /\ OwnName(k[1]) /\ made[k[1]] # 0 =>
                  e(k) = IF k \in DOMAIN plan[i].adds \ no
                         THEN Append(Changed(i, no, k), plan[i].adds[k]) ELSE Changed(i, no, k)
  <2> DEFINE c == Changed(i, no, k)
             a == RowsSent(i, SetToSeq(Sent(i, no, k)))
  <2>1. asg[k] \in Seq(Row) /\ c \in Seq(Row)
    BY ChangedFacts DEF Typed, TypeOK
  <2>2. /\ a \in Seq(Row)
        /\ Sent(i, no, k) = {} => a = <<>>
        /\ \A l : Sent(i, no, k) = {l} => a = <<plan[i].adds[l]>>
    BY SentFacts
  <2>3. e(k) = IF made[k[1]] = 0 THEN asg[k] ELSE c \o a
    OBVIOUS
  <2>4. OwnName(k[1]) => Sent(i, no, k) = IF k \in DOMAIN plan[i].adds \ no THEN {k} ELSE {}
    <3>1. grid[i] \in Grids /\ DOMAIN plan[i].adds \subseteq DOMAIN GridRows(grid[i])
      BY DEF Typed, GridInv
    <3> QED BY <3>1, OwnTarget DEF Sent
  <2> HIDE DEF c, a, e
  <2>5. e(k) \in Seq(Row)
    BY <2>1, <2>2, <2>3
  <2>6. ASSUME OwnName(k[1]), made[k[1]] # 0, k \in DOMAIN plan[i].adds \ no
        PROVE  e(k) = Append(c, plan[i].adds[k])
    <3>1. a = <<plan[i].adds[k]>>
      BY <2>2, <2>4, <2>6
    <3>2. plan[i].adds[k] \in Row
      <4>1. plan[i].adds \in FromKeys(Row)
        BY DEF Typed, TypeOK, Plan
      <4> QED BY <2>6, <4>1, FromKeysElim
    <3>3. c \o <<plan[i].adds[k]>> = Append(c, plan[i].adds[k])
      BY <2>1, <3>2
    <3> QED BY <2>3, <2>6, <3>1, <3>3
  <2>7. ASSUME OwnName(k[1]), made[k[1]] # 0, k \notin DOMAIN plan[i].adds \ no
        PROVE  e(k) = c
    <3>1. a = <<>>
      BY <2>2, <2>4, <2>7
    <3>2. c \o <<>> = c
      BY <2>1, ConcatEmptySeq
    <3> QED BY <2>3, <2>7, <3>1, <3>2
  <2> QED BY <2>5, <2>6, <2>7 DEF c
<1> HIDE DEF e
<1>4. asg' \in [Keys -> Seq(Row)]
  BY <1>2, <1>3
<1>5. \A k \in Keys : made[k[1]] = 0 => asg'[k] = asg[k]
  BY <1>2 DEF e
<1> QED BY <1>2, <1>3, <1>4, <1>5

-----------------------------------------------------------------------------
(* Types. *)

SppOK ==
  /\ made \in [ExtIds -> Nat] /\ basis \in [Units -> Fields]
  /\ total = [u \in Units |-> total[u]]
  /\ asg \in [Keys -> Seq(Row)]
  /\ billing \in [Units -> [rules : Nat, rates : [Categories -> Nat]]]
  /\ mark \in BOOLEAN /\ orphans \subseteq ExtIds

ImpOK ==
  /\ pc \in [Imports -> StageNames \union
               {"idle", "compare", "delete", "price", "mark", "done", "dead"}]
  /\ grid \in [Imports -> Grids \union {NoGrid}]
  /\ first \in [Imports -> BOOLEAN]
  /\ plan \in [Imports -> Plan]
  /\ attempt \in [Imports -> 1 .. Retries]

CalcOK ==
  /\ cpc \in [Calcs -> {"idle", "total", "rule", "addrule", "rate", "addrate", "done"}]
  /\ todo \in [Calcs -> SUBSET Units]
  /\ cats \in [Calcs -> [Units -> Categories]]

RestOK ==
  /\ last \in Grids \union {NoGrid} /\ refused \in BOOLEAN /\ late \subseteq Units
  /\ faults \in 0 .. MaxFaults

LEMMA TypeParts ==
  /\ TypeOK <=> SppOK /\ ImpOK /\ CalcOK /\ RestOK
  /\ TypeOK' <=> SppOK' /\ ImpOK' /\ CalcOK' /\ RestOK'
BY DEF TypeOK, SppOK, ImpOK, CalcOK, RestOK

LEMMA FaultType == ASSUME RestOK, Fault PROVE faults' \in 0 .. MaxFaults /\ faults' = faults + 1
BY BidGridAssumption DEF RestOK, Fault

LEMMA OverlapType == ASSUME RestOK, MayOverlap PROVE faults' \in 0 .. MaxFaults
BY FaultType DEF RestOK, MayOverlap

\* A step that leaves plans and grids alone, and starts no import.
LEMMA GridSame ==
  ASSUME GridInv, UNCHANGED <<grid, plan>>, \A i \in Imports : pc[i] = "idle" => pc'[i] = "idle"
  PROVE  GridInv'
BY DEF GridInv

\* What an import has next is a step.
LEMMA AfterType ==
  ASSUME NEW i \in Imports, AtBatch(i)
  PROVE  After(i) \in {"subphases", "tasks", "assignments", "price", "mark"}
BY DEF After, AtBatch, StageNames

LEMMA PutType ==
  ASSUME Typed, NEW i \in Imports, AtBatch(i), NEW no, Put(i, no), UNCHANGED <<billing, mark>>
  PROVE  SppOK'
<1>1. pc[i] \in {"phases", "subphases", "tasks"} \/ pc[i] = "assignments"
  BY DEF AtBatch, StageNames
<1>2. CASE pc[i] \in {"phases", "subphases", "tasks"}
  <2>1. PutTasks(i, no)
    BY <1>2 DEF Put
  <2>2. /\ made' \in [ExtIds -> Nat] /\ basis' \in [Units -> Fields]
        /\ total' = [u \in Units |-> total'[u]]
        /\ orphans' \subseteq ExtIds /\ asg' = asg
    BY <1>2, <2>1, PutTasksFacts
  <2> QED BY <2>2 DEF SppOK, Typed, TypeOK
<1>3. CASE pc[i] = "assignments"
  <2>1. PutAssignments(i, no)
    BY <1>3 DEF Put
  <2>2. UNCHANGED <<made, basis, total, orphans>> /\ asg' \in [Keys -> Seq(Row)]
    BY <1>3, <2>1, PutAssignmentsFacts
  <2> QED BY <2>2 DEF SppOK, Typed, TypeOK
<1> QED BY <1>1, <1>2, <1>3

LEMMA AgainType ==
  ASSUME ImpOK, NEW i \in Imports, AtBatch(i), Again(i)
  PROVE  /\ pc' \in [Imports -> StageNames \union
               {"idle", "compare", "delete", "price", "mark", "done", "dead"}]
         /\ attempt' \in [Imports -> 1 .. Retries]
         /\ \A j \in Imports : pc[j] = "idle" => pc'[j] = "idle"
<1>1. CASE attempt[i] < Retries
  <2>1. attempt' = [attempt EXCEPT ![i] = @ + 1] /\ pc' = pc
    BY <1>1 DEF Again
  <2>2. attempt[i] + 1 \in 1 .. Retries
    BY <1>1, BidGridAssumption DEF ImpOK
  <2> QED BY <2>1, <2>2 DEF ImpOK
<1>2. CASE ~(attempt[i] < Retries)
  <2>1. pc' = [pc EXCEPT ![i] = "dead"] /\ attempt' = attempt
    BY <1>2 DEF Again
  <2>2. pc[i] # "idle"
    BY DEF AtBatch, StageNames
  <2> QED BY <2>1, <2>2 DEF ImpOK
<1> QED BY <1>1, <1>2

\* An import that goes on to another step.
LEMMA GoType ==
  ASSUME ImpOK, NEW i \in Imports, pc[i] # "idle",
         NEW s \in StageNames \union {"compare", "delete", "price", "mark", "done", "dead"},
         pc' = [pc EXCEPT ![i] = s]
  PROVE  /\ pc' \in [Imports -> StageNames \union
               {"idle", "compare", "delete", "price", "mark", "done", "dead"}]
         /\ \A j \in Imports : pc[j] = "idle" => pc'[j] = "idle"
         /\ pc'[i] = s
         /\ \A j \in Imports : j # i => pc'[j] = pc[j]
BY DEF ImpOK

LEMMA BeginType ==
  ASSUME Typed, NEW i \in Imports, NEW g \in Grids, Begin(i, g)
  PROVE  Typed'
<1>1. SppOK /\ ImpOK /\ CalcOK /\ RestOK /\ GridInv
  BY TypeParts DEF Typed
<1>2. UNCHANGED <<sppVars, attempt, calcVars, ghosts>> /\ MayOverlap
  BY DEF Begin
<1>3. SppOK'
  BY <1>1, <1>2 DEF SppOK, sppVars
<1>4. CalcOK' /\ RestOK'
  BY <1>1, <1>2, OverlapType DEF CalcOK, RestOK, calcVars, ghosts
<1>5. PICK p \in Plan : /\ plan' = [plan EXCEPT ![i] = p]
                        /\ p.tasks \union p.upserts \subseteq DOMAIN g
                        /\ DOMAIN p.adds \union DOMAIN p.mods \subseteq DOMAIN GridRows(g)
  <2>1. CASE mark
    <3>1. plan' = [plan EXCEPT ![i] = NoPlan]
      BY <2>1 DEF Begin
    <3>2. NoPlan.tasks = {} /\ NoPlan.upserts = {} /\ DOMAIN NoPlan.adds = {} /\ DOMAIN NoPlan.mods = {}
      BY DEF NoPlan
    <3> QED BY <3>1, <3>2, NoPlanIsPlan
  <2>2. CASE ~mark
    <3>1. plan' = [plan EXCEPT ![i] = FirstPlan(g)]
      BY <2>2 DEF Begin
    <3>2. /\ FirstPlan(g) \in Plan
          /\ FirstPlan(g).tasks \union FirstPlan(g).upserts \subseteq DOMAIN g
          /\ DOMAIN FirstPlan(g).adds \union DOMAIN FirstPlan(g).mods \subseteq DOMAIN GridRows(g)
      BY FirstPlanFacts
    <3> QED BY <3>1, <3>2
  <2> QED BY <2>1, <2>2
<1>6. ImpOK'
  <2>1. plan' \in [Imports -> Plan]
    BY <1>1, <1>5 DEF ImpOK
  <2> QED BY <1>1, <1>2, <2>1 DEF ImpOK, Begin, StageNames
<1>7. GridInv'
  <2>1. plan'[i] = p /\ grid'[i] = g /\ \A j \in Imports : j # i => plan'[j] = plan[j] /\ grid'[j] = grid[j] /\ pc'[j] = pc[j]
    BY <1>1, <1>5 DEF ImpOK, Begin
  <2> QED BY <1>1, <1>5, <2>1 DEF GridInv
<1> QED BY <1>3, <1>4, <1>6, <1>7, TypeParts DEF Typed

LEMMA CompareType ==
  ASSUME Typed, NEW i \in Imports, Compare(i)
  PROVE  /\ Typed' /\ grid[i] \in Grids
         /\ plan'[i] = ComparePlan(i)
         /\ \A j \in Imports : j # i => plan'[j] = plan[j]
<1>1. SppOK /\ ImpOK /\ CalcOK /\ RestOK /\ GridInv
  BY TypeParts DEF Typed
<1>2. /\ UNCHANGED <<sppVars, grid, first, attempt, calcVars, last, refused, faults>>
      /\ pc[i] = "compare" /\ pc' = [pc EXCEPT ![i] = "delete"]
      /\ plan' = [plan EXCEPT ![i] = ComparePlan(i)]
      /\ late' = late \union {u \in Added(ReadTasks, GridTasks(grid[i])) \union
                                      Modified(ReadTasks, GridTasks(grid[i])) :
                                made[PhaseOf[SubPhaseOf[u]]] = 0}
  BY DEF Compare, ComparePlan
<1>3. grid[i] \in Grids
  BY <1>1, <1>2 DEF GridInv
<1>4. ComparePlan(i) \in Plan
  BY <1>3, ComparePlanFacts
<1>5. SppOK' /\ CalcOK'
  BY <1>1, <1>2 DEF SppOK, sppVars, CalcOK, calcVars
<1>6. RestOK'
  <2>1. Added(ReadTasks, GridTasks(grid[i])) \union Modified(ReadTasks, GridTasks(grid[i])) \subseteq Units
    BY <1>3, GridFacts DEF Added, Modified
  <2> QED BY <1>1, <1>2, <2>1 DEF RestOK
<1>7. plan' \in [Imports -> Plan] /\ plan'[i] = ComparePlan(i)
      /\ \A j \in Imports : j # i => plan'[j] = plan[j]
  BY <1>1, <1>2, <1>4 DEF ImpOK
<1>8. ImpOK'
  BY <1>1, <1>2, <1>7 DEF ImpOK
<1>9. GridInv'
  <2>1. /\ plan'[i].tasks \union plan'[i].upserts \subseteq DOMAIN grid[i]
        /\ DOMAIN plan'[i].adds \union DOMAIN plan'[i].mods \subseteq DOMAIN GridRows(grid[i])
    BY <1>3, <1>7, ComparePlanFacts
  <2>2. grid' = grid /\ \A j \in Imports : j # i => pc'[j] = pc[j]
    BY <1>1, <1>2 DEF ImpOK
  <2> QED BY <1>1, <1>3, <1>7, <2>1, <2>2 DEF GridInv
<1> QED BY <1>3, <1>5, <1>6, <1>7, <1>8, <1>9, TypeParts DEF Typed

\* A row that was deleted leaves the plan.
LEMMA GoneFacts ==
  ASSUME ImpOK, NEW i \in Imports, NEW k, plan' = [plan EXCEPT ![i].gone = @ \ {k}]
  PROVE  /\ plan' \in [Imports -> Plan]
         /\ plan'[i].gone = plan[i].gone \ {k}
         /\ plan'[i].tasks = plan[i].tasks /\ plan'[i].upserts = plan[i].upserts
         /\ plan'[i].phases = plan[i].phases /\ plan'[i].subphases = plan[i].subphases
         /\ plan'[i].adds = plan[i].adds /\ plan'[i].mods = plan[i].mods
         /\ \A j \in Imports : j # i => plan'[j] = plan[j]
<1> DEFINE p == [plan[i] EXCEPT !.gone = @ \ {k}]
<1>1. plan[i] \in Plan
  BY DEF ImpOK
<1>2. p \in Plan
  BY <1>1 DEF Plan
<1>3. /\ p.gone = plan[i].gone \ {k}
      /\ p.tasks = plan[i].tasks /\ p.upserts = plan[i].upserts
      /\ p.phases = plan[i].phases /\ p.subphases = plan[i].subphases
      /\ p.adds = plan[i].adds /\ p.mods = plan[i].mods
  BY <1>1 DEF Plan
<1>4. plan' = [plan EXCEPT ![i] = p]
  OBVIOUS
<1> HIDE DEF p
<1> QED BY <1>2, <1>3, <1>4 DEF ImpOK

LEMMA AssignmentsForFacts ==
  ASSUME NEW k \in Keys
  PROVE  \A j \in AssignmentsFor(k) : j \in Keys /\ asg[j] # <<>> /\ j[1] = k[1]
BY DEF AssignmentsFor, Assigned

\* One assignment of a task is deleted.
LEMMA WithoutOneFacts ==
  ASSUME asg \in [Keys -> Seq(Row)], NEW j \in Keys, asg[j] # <<>>, asg' = WithoutOne(j)
  PROVE  /\ asg' \in [Keys -> Seq(Row)]
         /\ asg'[j] = Tail(asg[j]) /\ Len(asg'[j]) = Len(asg[j]) - 1
         /\ \A k \in Keys : k # j => asg'[k] = asg[k]
<1>1. Tail(asg[j]) \in Seq(Row) /\ Len(Tail(asg[j])) = Len(asg[j]) - 1
  <2>1. asg[j] \in Seq(Row)
    OBVIOUS
  <2> QED BY <2>1
<1> QED BY <1>1 DEF WithoutOne

LEMMA DeleteOneFacts ==
  ASSUME Typed, NEW i \in Imports, DeleteOne(i)
  PROVE  /\ Typed' /\ pc[i] = "delete"
         /\ UNCHANGED <<made, basis, total, billing, mark, orphans, pc, grid, first,
                        attempt, calcVars, ghosts, faults>>
         /\ \A j \in Imports :
              /\ plan'[j].tasks = plan[j].tasks /\ plan'[j].upserts = plan[j].upserts
              /\ plan'[j].phases = plan[j].phases /\ plan'[j].subphases = plan[j].subphases
              /\ plan'[j].adds = plan[j].adds /\ plan'[j].mods = plan[j].mods
         /\ \A k \in Keys : asg'[k] = asg[k] \/ (asg'[k] = Tail(asg[k]) /\ Len(asg'[k]) = Len(asg[k]) - 1)
<1>1. SppOK /\ ImpOK /\ CalcOK /\ RestOK /\ GridInv
  BY TypeParts DEF Typed
<1>2. PICK k \in plan[i].gone :
        /\ plan' = [plan EXCEPT ![i].gone = @ \ {k}]
        /\ IF AssignmentsFor(k) = {} THEN UNCHANGED asg
           ELSE \E j \in AssignmentsFor(k) : asg' = WithoutOne(j)
  BY DEF DeleteOne
<1>3. UNCHANGED <<made, basis, total, billing, mark, orphans, pc, grid, first,
                  attempt, calcVars, ghosts, faults>> /\ pc[i] = "delete"
  BY DEF DeleteOne
<1>4. k \in Keys
  BY <1>1 DEF ImpOK, Plan
<1>5. /\ asg' \in [Keys -> Seq(Row)]
      /\ \A l \in Keys : asg'[l] = asg[l] \/ (asg'[l] = Tail(asg[l]) /\ Len(asg'[l]) = Len(asg[l]) - 1)
  <2>1. CASE AssignmentsFor(k) = {}
    BY <1>1, <1>2, <2>1 DEF SppOK
  <2>2. CASE AssignmentsFor(k) # {}
    <3>1. PICK j \in AssignmentsFor(k) : asg' = WithoutOne(j)
      BY <1>2, <2>2
    <3>2. j \in Keys /\ asg[j] # <<>>
      BY <1>4, AssignmentsForFacts
    <3> QED BY <1>1, <3>1, <3>2, WithoutOneFacts DEF SppOK
  <2> QED BY <2>1, <2>2
<1>6. /\ plan' \in [Imports -> Plan]
      /\ \A j \in Imports :
              /\ plan'[j].tasks = plan[j].tasks /\ plan'[j].upserts = plan[j].upserts
              /\ plan'[j].phases = plan[j].phases /\ plan'[j].subphases = plan[j].subphases
              /\ plan'[j].adds = plan[j].adds /\ plan'[j].mods = plan[j].mods
  BY <1>1, <1>2, GoneFacts
<1>7. SppOK' /\ ImpOK' /\ CalcOK' /\ RestOK'
  BY <1>1, <1>3, <1>5, <1>6 DEF SppOK, ImpOK, CalcOK, RestOK, calcVars, ghosts
<1>8. GridInv'
  BY <1>1, <1>3, <1>6 DEF GridInv
<1> QED BY <1>3, <1>5, <1>6, <1>7, <1>8, TypeParts DEF Typed

LEMMA DeleteRefusedFacts ==
  ASSUME Typed, NEW i \in Imports, DeleteRefused(i)
  PROVE  /\ Typed' /\ pc[i] = "delete" /\ faults' = faults + 1 /\ refused'
         /\ UNCHANGED <<sppVars, pc, grid, first, attempt, calcVars, last, late>>
         /\ \A j \in Imports :
              /\ plan'[j].tasks = plan[j].tasks /\ plan'[j].upserts = plan[j].upserts
              /\ plan'[j].phases = plan[j].phases /\ plan'[j].subphases = plan[j].subphases
              /\ plan'[j].adds = plan[j].adds /\ plan'[j].mods = plan[j].mods
<1>1. SppOK /\ ImpOK /\ CalcOK /\ RestOK /\ GridInv
  BY TypeParts DEF Typed
<1>2. PICK k \in plan[i].gone : plan' = [plan EXCEPT ![i].gone = @ \ {k}]
  BY DEF DeleteRefused
<1>3. /\ UNCHANGED <<sppVars, pc, grid, first, attempt, calcVars, last, late>>
      /\ pc[i] = "delete" /\ refused' = TRUE
  BY DEF DeleteRefused
<1>4. faults' \in 0 .. MaxFaults /\ faults' = faults + 1
  BY <1>1, FaultType DEF DeleteRefused
<1>6. /\ plan' \in [Imports -> Plan]
      /\ \A j \in Imports :
              /\ plan'[j].tasks = plan[j].tasks /\ plan'[j].upserts = plan[j].upserts
              /\ plan'[j].phases = plan[j].phases /\ plan'[j].subphases = plan[j].subphases
              /\ plan'[j].adds = plan[j].adds /\ plan'[j].mods = plan[j].mods
  BY <1>1, <1>2, GoneFacts
<1>7. SppOK' /\ CalcOK'
  BY <1>1, <1>3 DEF SppOK, CalcOK, sppVars, calcVars
<1>8. ImpOK' /\ RestOK'
  BY <1>1, <1>3, <1>4, <1>6 DEF ImpOK, RestOK
<1>9. GridInv'
  BY <1>1, <1>3, <1>6 DEF GridInv
<1> QED BY <1>3, <1>4, <1>6, <1>7, <1>8, <1>9, TypeParts DEF Typed

\* The rows whose assignment was not found are added.
NewRows(i) == {k \in DOMAIN plan[i].mods : AssignmentsFor(k) = {}}

LEMMA LookUpFacts ==
  ASSUME Typed, NEW i \in Imports, LookUp(i)
  PROVE  /\ Typed' /\ pc[i] = "delete" /\ plan[i].gone = {}
         /\ pc' = [pc EXCEPT ![i] = "tasks"]
         /\ UNCHANGED <<sppVars, grid, first, attempt, calcVars, ghosts, faults>>
         /\ \A j \in Imports : j # i => plan'[j] = plan[j]
         /\ plan'[i].tasks = plan[i].tasks /\ plan'[i].upserts = plan[i].upserts
         /\ plan'[i].phases = plan[i].phases /\ plan'[i].subphases = plan[i].subphases
         /\ DOMAIN plan'[i].adds = DOMAIN plan[i].adds \union NewRows(i)
         /\ \A k \in DOMAIN plan'[i].adds : plan'[i].adds[k] = GridRows(grid[i])[k]
         /\ DOMAIN plan'[i].mods = DOMAIN plan[i].mods \ NewRows(i)
         /\ \A k \in DOMAIN plan'[i].mods : plan'[i].mods[k] \in AssignmentsFor(k)
<1>1. SppOK /\ ImpOK /\ CalcOK /\ RestOK /\ GridInv
  BY TypeParts DEF Typed
<1> DEFINE held == DOMAIN plan[i].mods \ NewRows(i)
           a == [k \in DOMAIN plan[i].adds \union NewRows(i) |-> GridRows(grid[i])[k]]
<1>2. PICK t \in [held -> Keys] :
        /\ \A k \in held : t[k] \in AssignmentsFor(k)
        /\ plan' = [plan EXCEPT ![i].mods = t, ![i].adds = a]
  <2>1. PICK t \in [held -> Keys] :
        /\ \A k \in held : t[k] \in AssignmentsFor(k)
        /\ plan' = [plan EXCEPT
            ![i].mods = t,
            ![i].adds = [k \in DOMAIN @ \union NewRows(i) |-> GridRows(grid[i])[k]]]
    BY DEF LookUp, NewRows
  <2>2. plan[i] \in Plan
    BY <1>1 DEF ImpOK
  <2>3. plan' = [plan EXCEPT ![i].mods = t, ![i].adds = a]
    <3> DEFINE q == [plan[i] EXCEPT !.mods = t]
    <3>1. q.adds = plan[i].adds
      BY <2>2 DEF Plan
    <3>2. plan' = [plan EXCEPT ![i] = [q EXCEPT !.adds =
                     [k \in DOMAIN q.adds \union NewRows(i) |-> GridRows(grid[i])[k]]]]
      BY <1>1, <2>1 DEF ImpOK
    <3>3. [plan EXCEPT ![i].mods = t, ![i].adds = a] = [plan EXCEPT ![i] = [q EXCEPT !.adds = a]]
      BY <1>1 DEF ImpOK
    <3> QED BY <3>1, <3>2, <3>3
  <2> QED BY <2>1, <2>3
<1>3. /\ UNCHANGED <<sppVars, grid, first, attempt, calcVars, ghosts, faults>>
      /\ pc[i] = "delete" /\ pc' = [pc EXCEPT ![i] = "tasks"] /\ plan[i].gone = {}
  BY DEF LookUp
<1>4. grid[i] \in Grids /\ plan[i] \in Plan
      /\ DOMAIN plan[i].adds \union DOMAIN plan[i].mods \subseteq DOMAIN GridRows(grid[i])
  BY <1>1, <1>3 DEF GridInv, ImpOK
<1>5. NewRows(i) \subseteq DOMAIN plan[i].mods
  BY DEF NewRows
<1>6. /\ DOMAIN a = DOMAIN plan[i].adds \union NewRows(i)
      /\ \A k \in DOMAIN a : a[k] = GridRows(grid[i])[k]
      /\ a = [k \in DOMAIN a |-> a[k]]
  OBVIOUS
<1>7. a \in FromKeys(Row)
  <2>1. DOMAIN GridRows(grid[i]) \subseteq Keys /\ \A k \in DOMAIN GridRows(grid[i]) : GridRows(grid[i])[k] \in Row
    BY <1>4, GridFacts
  <2> HIDE DEF a
  <2> QED BY <1>4, <1>5, <1>6, <2>1, FromKeysIntro
<1>8. t \in FromKeys(Keys) /\ DOMAIN t = held
  <2>1. DOMAIN t = held /\ \A k \in DOMAIN t : t[k] \in Keys
    OBVIOUS
  <2>2. held \subseteq Keys
    BY <1>4, GridFacts
  <2> HIDE DEF held
  <2> QED BY <2>1, <2>2 DEF FromKeys
<1> DEFINE p == [plan[i] EXCEPT !.mods = t, !.adds = a]
<1>9. plan' = [plan EXCEPT ![i] = p]
  <2> HIDE DEF a
  <2> QED BY <1>1, <1>2 DEF ImpOK
<1>10. /\ p \in Plan /\ p.mods = t /\ p.adds = a
       /\ p.tasks = plan[i].tasks /\ p.upserts = plan[i].upserts
       /\ p.phases = plan[i].phases /\ p.subphases = plan[i].subphases
  <2> HIDE DEF a, held
  <2> QED BY <1>4, <1>7, <1>8 DEF Plan
<1> HIDE DEF p, a
<1>11. plan' \in [Imports -> Plan] /\ plan'[i] = p /\ \A j \in Imports : j # i => plan'[j] = plan[j]
  BY <1>1, <1>9, <1>10 DEF ImpOK
<1>12. SppOK' /\ CalcOK' /\ RestOK'
  BY <1>1, <1>3 DEF SppOK, CalcOK, RestOK, sppVars, calcVars, ghosts
<1>13. ImpOK'
  BY <1>1, <1>3, <1>11 DEF ImpOK, StageNames
<1>14. GridInv'
  <2>1. /\ plan'[i].tasks \union plan'[i].upserts \subseteq DOMAIN grid[i]
        /\ DOMAIN plan'[i].adds \union DOMAIN plan'[i].mods \subseteq DOMAIN GridRows(grid[i])
    BY <1>1, <1>4, <1>5, <1>6, <1>8, <1>10, <1>11 DEF GridInv
  <2>2. grid' = grid /\ \A j \in Imports : j # i => pc'[j] = pc[j]
    BY <1>1, <1>3 DEF ImpOK
  <2> QED BY <1>1, <1>4, <1>11, <2>1, <2>2 DEF GridInv
<1> QED BY <1>2, <1>3, <1>6, <1>8, <1>10, <1>11, <1>12, <1>13, <1>14, TypeParts DEF Typed

LEMMA PutDoneType == ASSUME Typed, NEW i \in Imports, PutDone(i) PROVE Typed'
<1>1. SppOK /\ ImpOK /\ CalcOK /\ RestOK /\ GridInv
  BY TypeParts DEF Typed
<1>2. AtBatch(i) /\ Put(i, {}) /\ UNCHANGED <<batchSame, refused, faults>>
      /\ pc' = [pc EXCEPT ![i] = After(i)] /\ attempt' = [attempt EXCEPT ![i] = 1]
  BY DEF PutDone
<1>3. SppOK'
  BY <1>2, PutType DEF batchSame
<1>4. pc[i] # "idle"
  BY <1>2 DEF AtBatch, StageNames
<1>5. /\ pc' \in [Imports -> StageNames \union
               {"idle", "compare", "delete", "price", "mark", "done", "dead"}]
      /\ \A j \in Imports : pc[j] = "idle" => pc'[j] = "idle"
  <2>1. After(i) \in StageNames \union {"compare", "delete", "price", "mark", "done", "dead"}
    BY <1>2, AfterType DEF StageNames
  <2> QED BY <1>1, <1>2, <1>4, <2>1, GoType
<1>6. attempt' \in [Imports -> 1 .. Retries]
  <2>1. 1 \in 1 .. Retries
    BY BidGridAssumption
  <2> QED BY <1>1, <1>2, <2>1 DEF ImpOK
<1>7. ImpOK' /\ CalcOK' /\ RestOK'
  BY <1>1, <1>2, <1>5, <1>6 DEF ImpOK, CalcOK, RestOK, batchSame, calcVars
<1>8. GridInv'
  BY <1>1, <1>2, <1>5, GridSame DEF batchSame
<1> QED BY <1>3, <1>7, <1>8, TypeParts DEF Typed

LEMMA PutPartlyType ==
  ASSUME Typed, NEW i \in Imports, PutPartly(i)
  PROVE  Typed' /\ faults' = faults + 1
<1>1. SppOK /\ ImpOK /\ CalcOK /\ RestOK /\ GridInv
  BY TypeParts DEF Typed
<1>2. AtBatch(i) /\ UNCHANGED batchSame /\ refused' = TRUE
      /\ pc' = [pc EXCEPT ![i] = After(i)] /\ attempt' = [attempt EXCEPT ![i] = 1]
  BY DEF PutPartly
<1>3. SppOK'
  <2>1. PICK no : Put(i, no)
    BY DEF PutPartly
  <2> QED BY <1>2, <2>1, PutType DEF batchSame
<1>4. pc[i] # "idle"
  BY <1>2 DEF AtBatch, StageNames
<1>5. /\ pc' \in [Imports -> StageNames \union
               {"idle", "compare", "delete", "price", "mark", "done", "dead"}]
      /\ \A j \in Imports : pc[j] = "idle" => pc'[j] = "idle"
  <2>1. After(i) \in StageNames \union {"compare", "delete", "price", "mark", "done", "dead"}
    BY <1>2, AfterType DEF StageNames
  <2> QED BY <1>1, <1>2, <1>4, <2>1, GoType
<1>6. attempt' \in [Imports -> 1 .. Retries]
  <2>1. 1 \in 1 .. Retries
    BY BidGridAssumption
  <2> QED BY <1>1, <1>2, <2>1 DEF ImpOK
<1>7. faults' \in 0 .. MaxFaults /\ faults' = faults + 1
  BY <1>1, FaultType DEF PutPartly
<1>8. ImpOK' /\ CalcOK' /\ RestOK'
  BY <1>1, <1>2, <1>5, <1>6, <1>7 DEF ImpOK, CalcOK, RestOK, batchSame, calcVars
<1>9. GridInv'
  BY <1>1, <1>2, <1>5, GridSame DEF batchSame
<1> QED BY <1>3, <1>7, <1>8, <1>9, TypeParts DEF Typed

LEMMA PutFailsType ==
  ASSUME Typed, NEW i \in Imports, PutFails(i)
  PROVE  /\ Typed' /\ faults' \in Nat
         /\ attempt[i] = 1 => faults' = faults + 1
         /\ attempt[i] # 1 => faults' = faults
<1>1. SppOK /\ ImpOK /\ CalcOK /\ RestOK /\ GridInv
  BY TypeParts DEF Typed
<1>2. AtBatch(i) /\ UNCHANGED <<made, basis, total, asg, orphans, batchSame, refused>> /\ Again(i)
  BY DEF PutFails
<1>3. /\ pc' \in [Imports -> StageNames \union
               {"idle", "compare", "delete", "price", "mark", "done", "dead"}]
      /\ attempt' \in [Imports -> 1 .. Retries]
      /\ \A j \in Imports : pc[j] = "idle" => pc'[j] = "idle"
  BY <1>1, <1>2, AgainType
<1>4. /\ faults' \in 0 .. MaxFaults
      /\ attempt[i] = 1 => faults' = faults + 1
      /\ attempt[i] # 1 => faults' = faults
  <2>1. IF attempt[i] = 1 THEN Fault ELSE UNCHANGED faults
    BY DEF PutFails
  <2>2. CASE attempt[i] = 1
    BY <1>1, <2>1, <2>2, FaultType
  <2>3. CASE attempt[i] # 1
    BY <1>1, <2>1, <2>3 DEF RestOK
  <2> QED BY <2>2, <2>3
<1>5. SppOK' /\ ImpOK' /\ CalcOK' /\ RestOK'
  BY <1>1, <1>2, <1>3, <1>4 DEF SppOK, ImpOK, CalcOK, RestOK, batchSame, calcVars
<1>6. GridInv'
  BY <1>1, <1>2, <1>3, GridSame DEF batchSame
<1> QED BY <1>4, <1>5, <1>6, TypeParts DEF Typed

LEMMA PutUnheardType ==
  ASSUME Typed, NEW i \in Imports, PutUnheard(i)
  PROVE  Typed' /\ faults' = faults + 1
<1>1. SppOK /\ ImpOK /\ CalcOK /\ RestOK /\ GridInv
  BY TypeParts DEF Typed
<1>2. AtBatch(i) /\ UNCHANGED <<batchSame, refused>> /\ Again(i) /\ Put(i, {})
  BY DEF PutUnheard
<1>3. /\ pc' \in [Imports -> StageNames \union
               {"idle", "compare", "delete", "price", "mark", "done", "dead"}]
      /\ attempt' \in [Imports -> 1 .. Retries]
      /\ \A j \in Imports : pc[j] = "idle" => pc'[j] = "idle"
  BY <1>1, <1>2, AgainType
<1>4. faults' \in 0 .. MaxFaults /\ faults' = faults + 1
  BY <1>1, FaultType DEF PutUnheard
<1>5. SppOK'
  BY <1>2, PutType DEF batchSame
<1>6. ImpOK' /\ CalcOK' /\ RestOK'
  BY <1>1, <1>2, <1>3, <1>4 DEF ImpOK, CalcOK, RestOK, batchSame, calcVars
<1>7. GridInv'
  BY <1>1, <1>2, <1>3, GridSame DEF batchSame
<1> QED BY <1>4, <1>5, <1>6, <1>7, TypeParts DEF Typed

\* The ends of an import, and its wait for the pricing Lambda.
LEMMA DiesType ==
  ASSUME Typed, NEW i \in Imports, Dies(i) PROVE Typed' /\ faults' = faults + 1
<1>1. SppOK /\ ImpOK /\ CalcOK /\ RestOK /\ GridInv
  BY TypeParts DEF Typed
<1>2. /\ pc[i] # "idle" /\ pc' = [pc EXCEPT ![i] = "dead"]
      /\ UNCHANGED <<sppVars, grid, first, plan, attempt, calcVars, ghosts>>
  BY DEF Dies, ImportRuns
<1>3. faults' \in 0 .. MaxFaults /\ faults' = faults + 1
  BY <1>1, FaultType DEF Dies
<1>4. SppOK' /\ CalcOK' /\ RestOK'
  BY <1>1, <1>2, <1>3 DEF SppOK, CalcOK, RestOK, sppVars, calcVars, ghosts
<1>5. ImpOK' /\ \A j \in Imports : pc[j] = "idle" => pc'[j] = "idle"
  BY <1>1, <1>2 DEF ImpOK
<1> QED BY <1>1, <1>2, <1>3, <1>4, <1>5, GridSame, TypeParts DEF Typed

LEMMA MarkType == ASSUME Typed, NEW i \in Imports, Mark(i) PROVE Typed'
<1>1. SppOK /\ ImpOK /\ CalcOK /\ RestOK /\ GridInv
  BY TypeParts DEF Typed
<1>2. /\ pc[i] = "mark" /\ pc' = [pc EXCEPT ![i] = "done"] /\ mark' = TRUE /\ last' = grid[i]
      /\ UNCHANGED <<made, basis, total, asg, billing, orphans, grid, first, plan,
                     attempt, calcVars, refused, late, faults>>
  BY DEF Mark
<1>3. SppOK' /\ CalcOK' /\ RestOK'
  BY <1>1, <1>2 DEF SppOK, ImpOK, CalcOK, RestOK, calcVars
<1>4. ImpOK' /\ \A j \in Imports : pc[j] = "idle" => pc'[j] = "idle"
  BY <1>1, <1>2 DEF ImpOK
<1> QED BY <1>1, <1>2, <1>3, <1>4, GridSame, TypeParts DEF Typed

LEMMA MarkRefusedType ==
  ASSUME Typed, NEW i \in Imports, MarkRefused(i) PROVE Typed' /\ faults' = faults + 1
<1>1. SppOK /\ ImpOK /\ CalcOK /\ RestOK /\ GridInv
  BY TypeParts DEF Typed
<1>2. /\ pc[i] = "mark" /\ pc' = [pc EXCEPT ![i] = "done"] /\ refused' = TRUE
      /\ UNCHANGED <<sppVars, grid, first, plan, attempt, calcVars, last, late>>
  BY DEF MarkRefused
<1>3. faults' \in 0 .. MaxFaults /\ faults' = faults + 1
  BY <1>1, FaultType DEF MarkRefused
<1>4. SppOK' /\ CalcOK' /\ RestOK'
  BY <1>1, <1>2, <1>3 DEF SppOK, CalcOK, RestOK, sppVars, calcVars
<1>5. ImpOK' /\ \A j \in Imports : pc[j] = "idle" => pc'[j] = "idle"
  BY <1>1, <1>2 DEF ImpOK
<1> QED BY <1>1, <1>2, <1>3, <1>4, <1>5, GridSame, TypeParts DEF Typed

LEMMA PricedType == ASSUME Typed, NEW i \in Imports, Priced(i) PROVE Typed'
<1>1. SppOK /\ ImpOK /\ CalcOK /\ RestOK /\ GridInv
  BY TypeParts DEF Typed
<1>2. /\ pc[i] = "price" /\ pc' = [pc EXCEPT ![i] = "mark"]
      /\ UNCHANGED <<sppVars, grid, first, plan, attempt, calcVars, ghosts, faults>>
  BY DEF Priced
<1>3. SppOK' /\ CalcOK' /\ RestOK'
  BY <1>1, <1>2 DEF SppOK, CalcOK, RestOK, sppVars, calcVars, ghosts
<1>4. ImpOK' /\ \A j \in Imports : pc[j] = "idle" => pc'[j] = "idle"
  BY <1>1, <1>2 DEF ImpOK
<1> QED BY <1>1, <1>2, <1>3, <1>4, GridSame, TypeParts DEF Typed

LEMMA StartCalcType ==
  ASSUME Typed, NEW c \in Calcs, StartCalc(c), faults' \in 0 .. MaxFaults PROVE Typed'
<1>1. SppOK /\ ImpOK /\ CalcOK /\ RestOK /\ GridInv
  BY TypeParts DEF Typed
<1>2. UNCHANGED <<sppVars, impVars, ghosts>> /\ CalcOK'
  <2>1. [u \in Units |-> CategoryOf[basis[u]]] \in [Units -> Categories]
    BY <1>1, BidGridAssumption DEF SppOK
  <2> QED BY <1>1, <2>1 DEF StartCalc, CalcOK
<1>3. SppOK' /\ ImpOK' /\ RestOK'
  BY <1>1, <1>2 DEF SppOK, ImpOK, RestOK, sppVars, impVars, ghosts
<1>4. UNCHANGED <<pc, grid, plan>>
  BY <1>2 DEF impVars
<1> QED BY <1>1, <1>2, <1>3, <1>4, GridSame, TypeParts DEF Typed

\* One more record under the billing rules of a task.
Billing == [rules : Nat, rates : [Categories -> Nat]]

LEMMA BillingType ==
  ASSUME billing \in [Units -> Billing], NEW u, NEW t,
         \/ billing' = [billing EXCEPT ![u].rules = @ + 1]
         \/ billing' = [billing EXCEPT ![u].rates[t] = @ + 1]
         \/ UNCHANGED billing
  PROVE  billing' \in [Units -> Billing]
<1>1. CASE billing' = [billing EXCEPT ![u].rules = @ + 1]
  <2> DEFINE b == [billing[u] EXCEPT !.rules = @ + 1]
  <2>1. u \in Units => b \in Billing
    BY DEF Billing
  <2>2. billing' = [billing EXCEPT ![u] = b]
    BY <1>1
  <2> HIDE DEF b
  <2> QED BY <2>1, <2>2
<1>2. CASE billing' = [billing EXCEPT ![u].rates[t] = @ + 1]
  <2> DEFINE r == [billing[u].rates EXCEPT ![t] = @ + 1]
             b == [billing[u] EXCEPT !.rates = r]
  <2>1. ASSUME u \in Units PROVE r \in [Categories -> Nat]
    <3>1. billing[u].rates \in [Categories -> Nat]
      BY <2>1 DEF Billing
    <3>2. t \in Categories => billing[u].rates[t] + 1 \in Nat
      BY <3>1
    <3> QED BY <3>1, <3>2
  <2>2. billing' = [billing EXCEPT ![u] = b]
    BY <1>2
  <2> HIDE DEF r
  <2>3. u \in Units => b \in Billing
    BY <2>1 DEF Billing
  <2> HIDE DEF b
  <2> QED BY <2>2, <2>3
<1>3. CASE UNCHANGED billing
  BY <1>3
<1> QED BY <1>1, <1>2, <1>3

\* A step of the pricing Lambda leaves what imports go by alone; only its
\* death is noticed.
CalcFrame(c) ==
  /\ UNCHANGED <<made, basis, asg, mark, orphans, grid, first, plan, attempt, ghosts>>
  /\ \/ UNCHANGED pc
     \/ pc' = [i \in Imports |-> IF i = c THEN "dead" ELSE pc[i]]
  /\ cats' = cats
  /\ \A d \in Calcs : d # c => cpc'[d] = cpc[d] /\ todo'[d] = todo[d]

LEMMA CalcFacts ==
  ASSUME Typed, NEW c \in Calcs, Calc(c)
  PROVE  /\ SppOK' /\ CalcOK' /\ CalcFrame(c)
         /\ faults' \in 0 .. MaxFaults /\ CalcRuns(c)
         /\ \/ faults' = faults /\ UNCHANGED pc
            \/ faults' = faults + 1
<1>1. SppOK /\ ImpOK /\ CalcOK /\ RestOK /\ GridInv
  BY TypeParts DEF Typed
<1>b. billing \in [Units -> Billing]
  BY <1>1 DEF SppOK, Billing
<1>f. faults \in 0 .. MaxFaults
  BY <1>1 DEF RestOK
<1> USE DEF CalcFrame, CalcRuns, calcSame, impVars, ghosts
<1>2. CASE Totals(c)
  <2>1. total' = [u \in Units |-> total'[u]]
    BY <1>1, <1>2 DEF Totals, SppOK
  <2> QED BY <1>1, <1>2, <1>f, <2>1 DEF Totals, SppOK, CalcOK
<1>3. CASE FindRule(c)
  BY <1>1, <1>3, <1>f DEF FindRule, SppOK, CalcOK
<1>4. CASE AddRule(c)
  <2>1. billing' \in [Units -> Billing]
    BY <1>1, <1>4, <1>b, BillingType DEF AddRule
  <2> QED BY <1>1, <1>4, <1>f, <2>1 DEF AddRule, SppOK, CalcOK, Billing
<1>5. CASE AddRuleUnheard(c)
  <2>1. billing' \in [Units -> Billing]
    BY <1>1, <1>5, <1>b, BillingType DEF AddRuleUnheard
  <2>2. faults' \in 0 .. MaxFaults /\ faults' = faults + 1
    BY <1>1, <1>5, FaultType DEF AddRuleUnheard
  <2> QED BY <1>1, <1>5, <2>1, <2>2 DEF AddRuleUnheard, SppOK, CalcOK, Billing
<1>6. CASE FindRate(c)
  BY <1>1, <1>6, <1>f DEF FindRate, SppOK, CalcOK
<1>7. CASE AddRateUnheard(c)
  <2>1. billing' \in [Units -> Billing]
    BY <1>1, <1>7, <1>b, BillingType DEF AddRateUnheard
  <2>2. faults' \in 0 .. MaxFaults /\ faults' = faults + 1
    BY <1>1, <1>7, FaultType DEF AddRateUnheard
  <2> QED BY <1>1, <1>7, <2>1, <2>2 DEF AddRateUnheard, SppOK, CalcOK, Billing
<1>8. CASE PutRate(c)
  <2>1. billing' \in [Units -> Billing]
    BY <1>1, <1>8, <1>b, BillingType DEF PutRate
  <2>2. CalcOK'
    BY <1>1, <1>8 DEF PutRate, CalcOK
  <2> QED BY <1>1, <1>8, <1>f, <2>1, <2>2 DEF PutRate, SppOK, CalcOK, Billing
<1>9. CASE TaskFails(c)
  <2>1. faults' \in 0 .. MaxFaults /\ faults' = faults + 1
    BY <1>1, <1>9, FaultType DEF TaskFails
  <2>2. CalcOK'
    BY <1>1, <1>9 DEF TaskFails, CalcOK
  <2> QED BY <1>1, <1>9, <2>1, <2>2 DEF TaskFails, SppOK, CalcOK
<1>10. CASE CalcDies(c)
  <2>1. faults' \in 0 .. MaxFaults /\ faults' = faults + 1
    BY <1>1, <1>10, FaultType DEF CalcDies
  <2> QED BY <1>1, <1>10, <2>1 DEF CalcDies, SppOK, CalcOK, sppVars
<1> QED BY <1>2, <1>3, <1>4, <1>5, <1>6, <1>7, <1>8, <1>9, <1>10 DEF Calc

\* The pricing run of an import has not begun before the import is there, and
\* is over before the import goes on.
WaitInv ==
  \A i \in Imports :
    /\ pc[i] \in StageNames \union {"idle", "compare", "delete"} => cpc[i] = "idle"
    /\ pc[i] \in {"mark", "done"} => cpc[i] \in {"idle", "done"}

Base == Typed /\ WaitInv

\* An import that goes on without the pricing Lambda.
LEMMA WaitGoes ==
  ASSUME Base, NEW i \in Imports, UNCHANGED calcVars,
         \A j \in Imports : j # i => pc'[j] = pc[j],
         \/ pc[i] \in {"idle", "compare", "delete"} \union StageNames
         \/ pc'[i] \in {"done", "dead"} /\ pc[i] = "mark"
         \/ pc'[i] = "mark" /\ pc[i] = "price" /\ cpc[i] = "done"
         \/ pc'[i] = "dead"
  PROVE  WaitInv'
BY DEF Base, WaitInv, calcVars, StageNames

\* A pricing run that begins.
LEMMA RecalculateFacts ==
  ASSUME Base, NEW c \in Calcs, Recalculate(c)
  PROVE  /\ Base' /\ StartCalc(c) /\ MayOverlap /\ c \notin Imports /\ cpc[c] = "idle"
<1>1. RestOK /\ StartCalc(c) /\ MayOverlap /\ c > NumImports /\ cpc[c] = "idle"
  BY TypeParts DEF Recalculate, Base, Typed
<1>2. Typed'
  BY <1>1, OverlapType, StartCalcType DEF Base
<1>3. c \notin Imports
  BY <1>1, BidGridAssumption DEF Imports
<1>4. WaitInv'
  <2>1. pc' = pc /\ \A i \in Imports : cpc'[i] = cpc[i]
    BY <1>1, <1>3 DEF StartCalc, impVars, Base, Typed, TypeOK
  <2> QED BY <2>1 DEF Base, WaitInv
<1> QED BY <1>1, <1>2, <1>3, <1>4 DEF Base

LEMMA ImportsAreCalcs == Imports \subseteq Calcs
BY BidGridAssumption DEF Imports, Calcs

LEMMA PriceFacts ==
  ASSUME Base, NEW i \in Imports, Price(i)
  PROVE  Base' /\ StartCalc(i) /\ pc[i] = "price" /\ cpc[i] = "idle" /\ faults' = faults
<1>1. /\ StartCalc(i) /\ pc[i] = "price" /\ cpc[i] = "idle" /\ faults' = faults
      /\ i \in Calcs /\ RestOK
  BY TypeParts, ImportsAreCalcs DEF Price, Base, Typed
<1>2. Typed'
  BY <1>1, StartCalcType DEF Base, RestOK
<1>3. WaitInv'
  BY <1>1 DEF StartCalc, impVars, Base, WaitInv, Typed, TypeOK, StageNames
<1> QED BY <1>1, <1>2, <1>3 DEF Base

LEMMA CalcBase == ASSUME Base, NEW c \in Calcs, Calc(c) PROVE Base'
<1>1. /\ SppOK' /\ CalcOK' /\ CalcFrame(c) /\ faults' \in 0 .. MaxFaults /\ CalcRuns(c)
  BY CalcFacts DEF Base
<1>2. SppOK /\ ImpOK /\ RestOK /\ CalcOK
  BY TypeParts DEF Base, Typed
<1>3. c \in Imports => pc[c] \in {"price", "dead"}
  BY <1>1, <1>2 DEF Base, WaitInv, CalcRuns, ImpOK
<1>4. ImpOK' /\ \A j \in Imports : pc[j] = "idle" => pc'[j] = "idle"
  BY <1>1, <1>2, <1>3 DEF CalcFrame, ImpOK
<1>5. RestOK'
  BY <1>1, <1>2 DEF CalcFrame, RestOK, ghosts
<1>6. GridInv'
  BY <1>1, <1>4, GridSame DEF CalcFrame, Base, Typed
<1>7. WaitInv'
  <2>1. \A i \in Imports : i # c => pc'[i] = pc[i] /\ cpc'[i] = cpc[i]
    BY <1>1, <1>2, ImportsAreCalcs DEF CalcFrame, ImpOK
  <2>2. c \in Imports => pc'[c] \in {"price", "dead"}
    BY <1>1, <1>3 DEF CalcFrame
  <2> QED BY <2>1, <2>2 DEF Base, WaitInv, StageNames
<1> QED BY <1>1, <1>4, <1>5, <1>6, <1>7, TypeParts DEF Base, Typed

LEMMA ImportBase ==
  ASSUME Base, NEW i \in Imports,
         (\E g \in Grids : Begin(i, g)) \/ Import(i) \/ Mishap(i)
  PROVE  Base'
<1>1. ImpOK /\ Typed
  BY TypeParts DEF Base, Typed
<1>2. ASSUME NEW g \in Grids, Begin(i, g) PROVE Base'
  <2>1. UNCHANGED calcVars /\ pc[i] = "idle" /\ \A j \in Imports : j # i => pc'[j] = pc[j]
    BY <1>1, <1>2 DEF Begin, ImpOK
  <2> QED BY <1>1, <1>2, <2>1, BeginType, WaitGoes DEF Base
<1>3. CASE Compare(i)
  <2>1. UNCHANGED calcVars /\ pc[i] = "compare" /\ \A j \in Imports : j # i => pc'[j] = pc[j]
    BY <1>1, <1>3 DEF Compare, ImpOK
  <2> QED BY <1>1, <1>3, <2>1, CompareType, WaitGoes DEF Base
<1>4. CASE DeleteOne(i)
  <2>1. UNCHANGED <<calcVars, pc>> /\ pc[i] = "delete"
    BY <1>4 DEF DeleteOne
  <2> QED BY <1>1, <1>4, <2>1, DeleteOneFacts, WaitGoes DEF Base
<1>5. CASE LookUp(i)
  <2>1. UNCHANGED calcVars /\ pc[i] = "delete" /\ \A j \in Imports : j # i => pc'[j] = pc[j]
    BY <1>1, <1>5 DEF LookUp, ImpOK
  <2> QED BY <1>1, <1>5, <2>1, LookUpFacts, WaitGoes DEF Base
<1>6. CASE PutDone(i)
  <2>1. UNCHANGED calcVars /\ pc[i] \in StageNames /\ \A j \in Imports : j # i => pc'[j] = pc[j]
    BY <1>1, <1>6 DEF PutDone, ImpOK, AtBatch, batchSame
  <2> QED BY <1>1, <1>6, <2>1, PutDoneType, WaitGoes DEF Base
<1>7. CASE Price(i)
  BY <1>7, PriceFacts
<1>8. CASE Priced(i)
  <2>1. /\ UNCHANGED calcVars /\ pc[i] = "price" /\ pc'[i] = "mark" /\ cpc[i] = "done"
        /\ \A j \in Imports : j # i => pc'[j] = pc[j]
    BY <1>1, <1>8 DEF Priced, ImpOK
  <2> QED BY <1>1, <1>8, <2>1, PricedType, WaitGoes DEF Base
<1>9. CASE Mark(i)
  <2>1. /\ UNCHANGED calcVars /\ pc[i] = "mark" /\ pc'[i] = "done"
        /\ \A j \in Imports : j # i => pc'[j] = pc[j]
    BY <1>1, <1>9 DEF Mark, ImpOK
  <2> QED BY <1>1, <1>9, <2>1, MarkType, WaitGoes DEF Base
<1>10. CASE PutPartly(i)
  <2>1. UNCHANGED calcVars /\ pc[i] \in StageNames /\ \A j \in Imports : j # i => pc'[j] = pc[j]
    BY <1>1, <1>10 DEF PutPartly, ImpOK, AtBatch, batchSame
  <2> QED BY <1>1, <1>10, <2>1, PutPartlyType, WaitGoes DEF Base
<1>11. CASE PutFails(i)
  <2>1. UNCHANGED calcVars /\ pc[i] \in StageNames /\ \A j \in Imports : j # i => pc'[j] = pc[j]
    BY <1>1, <1>11 DEF PutFails, Again, ImpOK, AtBatch, batchSame
  <2> QED BY <1>1, <1>11, <2>1, PutFailsType, WaitGoes DEF Base
<1>12. CASE PutUnheard(i)
  <2>1. UNCHANGED calcVars /\ pc[i] \in StageNames /\ \A j \in Imports : j # i => pc'[j] = pc[j]
    BY <1>1, <1>12 DEF PutUnheard, Again, ImpOK, AtBatch, batchSame
  <2> QED BY <1>1, <1>12, <2>1, PutUnheardType, WaitGoes DEF Base
<1>13. CASE DeleteRefused(i)
  <2>1. UNCHANGED <<calcVars, pc>> /\ pc[i] = "delete"
    BY <1>13 DEF DeleteRefused
  <2> QED BY <1>1, <1>13, <2>1, DeleteRefusedFacts, WaitGoes DEF Base
<1>14. CASE MarkRefused(i)
  <2>1. /\ UNCHANGED calcVars /\ pc[i] = "mark" /\ pc'[i] = "done"
        /\ \A j \in Imports : j # i => pc'[j] = pc[j]
    BY <1>1, <1>14 DEF MarkRefused, ImpOK
  <2> QED BY <1>1, <1>14, <2>1, MarkRefusedType, WaitGoes DEF Base
<1>15. CASE Dies(i)
  <2>1. /\ UNCHANGED calcVars /\ pc'[i] = "dead"
        /\ \A j \in Imports : j # i => pc'[j] = pc[j]
    BY <1>1, <1>15 DEF Dies, ImpOK
  <2> QED BY <1>1, <1>15, <2>1, DiesType, WaitGoes DEF Base
<1> QED BY <1>2, <1>3, <1>4, <1>5, <1>6, <1>7, <1>8, <1>9, <1>10, <1>11, <1>12, <1>13,
           <1>14, <1>15 DEF Import, Mishap

LEMMA BaseStep == Base /\ [Next]_vars => Base'
<1> SUFFICES ASSUME Base, [Next]_vars PROVE Base'
  OBVIOUS
<1>1. ASSUME NEW i \in Imports, (\E g \in Grids : Begin(i, g)) \/ Import(i) \/ Mishap(i)
      PROVE  Base'
  BY <1>1, ImportBase
<1>2. ASSUME NEW c \in Calcs, Recalculate(c) \/ Calc(c) PROVE Base'
  BY <1>2, RecalculateFacts, CalcBase
<1>3. CASE UNCHANGED vars
  <2>1. UNCHANGED <<pc, cpc, grid, plan>> /\ TypeOK'
    BY <1>3 DEF vars, sppVars, impVars, calcVars, ghosts, Base, Typed, TypeOK
  <2>2. GridInv' /\ WaitInv'
    BY <2>1 DEF Base, Typed, GridInv, WaitInv
  <2> QED BY <2>1, <2>2 DEF Base, Typed
<1> QED BY <1>1, <1>2, <1>3 DEF Next

LEMMA InitBase == Init => Base
<1>1. Init => WaitInv
  BY ImportsAreCalcs DEF Init, WaitInv
<1> QED BY <1>1, InitTyped DEF Base

LEMMA AlwaysBase == Spec => []Base
BY InitBase, BaseStep, PTL DEF Spec

\* Every variable keeps its type, and what imports and pricing runs go by is
\* well-formed: whatever overlaps, is repeated or is cut off.
THEOREM TypeCorrect == Spec => []TypeOK
<1>1. Base => TypeOK
  BY DEF Base, Typed
<1> QED BY <1>1, AlwaysBase, PTL

-----------------------------------------------------------------------------
(* Order: what is written lies under what was written, and what is marked  *)
(* was loaded.                                                             *)

\* The units of a grid that the mark speaks for.
Due(g) == {u \in DOMAIN g : g[u].named = u /\ OwnNumber(u)}

\* What the plan of an import is, and which of it has been written.
Ordered(i) ==
  /\ pc[i] \in {"phases", "subphases"} => first[i]
  /\ pc[i] \in {"compare", "delete"} => ~first[i]
  /\ ImportRuns(i) /\ ~first[i] => mark
  /\ first[i] /\ pc[i] \in {"phases", "subphases", "tasks"} =>
       /\ Due(grid[i]) \subseteq plan[i].tasks /\ plan[i].upserts = {}
       /\ \A u \in plan[i].tasks : SubPhaseOf[u] \in plan[i].subphases
       /\ \A s \in plan[i].subphases : PhaseOf[s] \in plan[i].phases
  /\ pc[i] = "subphases" => refused \/ \A s \in plan[i].phases : made[s] > 0
  /\ first[i] /\ pc[i] = "tasks" => refused \/ \A s \in plan[i].subphases : made[s] > 0
  /\ ~first[i] /\ pc[i] \in {"delete", "tasks"} =>
       /\ \A u \in Due(grid[i]) : u \in plan[i].tasks \/ made[u] > 0
       /\ \A u \in plan[i].tasks \union plan[i].upserts :
            made[PhaseOf[SubPhaseOf[u]]] > 0 \/ u \in late
       /\ \A u \in plan[i].upserts : OwnNumber(u) => made[u] > 0
  /\ pc[i] \in {"assignments", "price", "mark"} =>
       refused \/ \A u \in Due(grid[i]) : made[u] > 0

OrderInv == (\A i \in Imports : Ordered(i)) /\ ParentsFirst /\ MarkedIsLoaded

\* What is only ever added to.
Grows ==
  /\ \A x \in ExtIds : made'[x] >= made[x]
  /\ mark => mark'
  /\ refused => refused'
  /\ late \subseteq late'

SamePlan(i) ==
  /\ grid'[i] = grid[i] /\ first'[i] = first[i]
  /\ plan'[i].tasks = plan[i].tasks /\ plan'[i].upserts = plan[i].upserts
  /\ plan'[i].phases = plan[i].phases /\ plan'[i].subphases = plan[i].subphases

LEMMA PlanFacts ==
  ASSUME Base, NEW i \in Imports
  PROVE  /\ plan[i].phases \subseteq Phases /\ plan[i].subphases \subseteq SubPhases
         /\ plan[i].tasks \subseteq Units /\ plan[i].upserts \subseteq Units
         /\ pc[i] # "idle" => grid[i] \in Grids /\ DOMAIN grid[i] \subseteq Units
<1>1. plan[i] \in Plan
  BY DEF Base, Typed, TypeOK
<1>2. pc[i] # "idle" => grid[i] \in Grids
  BY DEF Base, Typed, GridInv
<1> QED BY <1>1, <1>2, GridFacts DEF Plan

LEMMA Parents ==
  /\ Units \subseteq ExtIds /\ SubPhases \subseteq ExtIds /\ Phases \subseteq ExtIds
  /\ \A u \in Units : SubPhaseOf[u] \in SubPhases /\ PhaseOf[SubPhaseOf[u]] \in Phases
  /\ \A s \in SubPhases : PhaseOf[s] \in Phases
BY BidGridAssumption DEF ExtIds

\* Time passes for an import that takes no step.
LEMMA OrderedStays ==
  ASSUME Base, Base', NEW i \in Imports, Ordered(i), Grows, SamePlan(i), pc'[i] = pc[i]
  PROVE  Ordered(i)'
<1>1. \A x \in ExtIds : made[x] \in Nat /\ made'[x] \in Nat
  BY DEF Base, Typed, TypeOK
<1>2. \A x \in ExtIds : made[x] > 0 => made'[x] > 0
  BY <1>1 DEF Grows
<1>3. ImportRuns(i)' = ImportRuns(i)
  BY DEF ImportRuns
<1>4. pc[i] \in {"subphases", "tasks", "delete", "assignments", "price", "mark"} =>
        Due(grid[i]) \subseteq ExtIds
  BY PlanFacts, Parents DEF Due
<1>5. /\ plan[i].phases \subseteq ExtIds /\ plan[i].subphases \subseteq ExtIds
      /\ \A u \in plan[i].tasks \union plan[i].upserts : u \in ExtIds /\ PhaseOf[SubPhaseOf[u]] \in ExtIds
  BY PlanFacts, Parents
<1>6. pc[i] \in {"phases", "subphases"} => first[i]
  BY DEF Ordered
<1>7. (pc[i] \in {"phases", "subphases"} => first[i])'
      /\ (pc[i] \in {"compare", "delete"} => ~first[i])'
      /\ (ImportRuns(i) /\ ~first[i] => mark)'
  BY <1>3 DEF Ordered, Grows, SamePlan
<1>8. (first[i] /\ pc[i] \in {"phases", "subphases", "tasks"} =>
       /\ Due(grid[i]) \subseteq plan[i].tasks /\ plan[i].upserts = {}
       /\ \A u \in plan[i].tasks : SubPhaseOf[u] \in plan[i].subphases
       /\ \A s \in plan[i].subphases : PhaseOf[s] \in plan[i].phases)'
  BY DEF Ordered, SamePlan
<1>9. (pc[i] = "subphases" => refused \/ \A s \in plan[i].phases : made[s] > 0)'
      /\ (first[i] /\ pc[i] = "tasks" => refused \/ \A s \in plan[i].subphases : made[s] > 0)'
  BY <1>2, <1>5 DEF Ordered, Grows, SamePlan
<1>10. (~first[i] /\ pc[i] \in {"delete", "tasks"} =>
       /\ \A u \in Due(grid[i]) : u \in plan[i].tasks \/ made[u] > 0
       /\ \A u \in plan[i].tasks \union plan[i].upserts :
            made[PhaseOf[SubPhaseOf[u]]] > 0 \/ u \in late
       /\ \A u \in plan[i].upserts : OwnNumber(u) => made[u] > 0)'
  BY <1>2, <1>4, <1>5 DEF Ordered, Grows, SamePlan
<1>11. (pc[i] \in {"assignments", "price", "mark"} =>
       refused \/ \A u \in Due(grid[i]) : made[u] > 0)'
  BY <1>2, <1>4 DEF Ordered, Grows, SamePlan
<1> QED BY <1>7, <1>8, <1>9, <1>10, <1>11 DEF Ordered

\* An import that is over promises nothing.
LEMMA OrderedOver ==
  ASSUME NEW i \in Imports, pc[i] \in {"idle", "done", "dead"}
  PROVE  Ordered(i)
BY DEF Ordered, ImportRuns

\* A mark on what was loaded stays true.
LEMMA MarkedStays ==
  ASSUME Base, Base', MarkedIsLoaded, Grows, UNCHANGED <<mark, last>>
  PROVE  MarkedIsLoaded'
<1>1. \A x \in ExtIds : made[x] \in Nat /\ made'[x] \in Nat
  BY DEF Base, Typed, TypeOK
<1>2. \A x \in ExtIds : made[x] > 0 => made'[x] > 0
  BY <1>1 DEF Grows
<1>3. last # NoGrid => DOMAIN last \subseteq ExtIds
  BY GridFacts, Parents DEF Base, Typed, TypeOK
<1> QED BY <1>2, <1>3 DEF MarkedIsLoaded, Grows

\* What a batch writes, as far as order goes.
LEMMA PutOrder ==
  ASSUME Base, Base', OrderInv, NEW i \in Imports, AtBatch(i), NEW no, Put(i, no),
         UNCHANGED <<mark, late>>, refused => refused'
  PROVE  /\ Grows /\ ParentsFirst'
         /\ pc[i] # "assignments" => \A x \in New(i) \ no : x \in ExtIds => made'[x] > 0
<1>1. \A x \in ExtIds : made[x] \in Nat
  BY DEF Base, Typed, TypeOK
<1>2. pc[i] \in {"phases", "subphases", "tasks"} \/ pc[i] = "assignments"
  BY DEF AtBatch, StageNames
<1>3. CASE pc[i] \in {"phases", "subphases", "tasks"}
  <2>1. PutTasks(i, no)
    BY <1>3 DEF Put
  <2>2. \A x \in ExtIds :
              made'[x] = IF x \in Known(i) \ no
                         THEN IF made[x] = 0 THEN 1 ELSE made[x]
                         ELSE IF x \in New(i) \ no THEN made[x] + 1 ELSE made[x]
    BY <1>3, <2>1, PutTasksFacts DEF Base
  <2>3. \A x \in ExtIds : made'[x] >= made[x] /\ (x \in New(i) \ no => made'[x] > 0)
    BY <1>1, <2>2
  <2>4. Grows
    BY <2>3 DEF Grows
  <2>5. ParentsFirst'
    <3>1. orphans' = orphans \union
            {x \in ((New(i) \ no) \union (Known(i) \ no)) \ Phases : made[Parent(x, ~first[i])] = 0}
      BY <2>1 DEF PutTasks
    <3>2. Ordered(i)
      BY DEF OrderInv
    <3>p. /\ plan[i].phases \subseteq Phases /\ plan[i].subphases \subseteq SubPhases
          /\ plan[i].tasks \subseteq Units /\ plan[i].upserts \subseteq Units
      BY PlanFacts
    <3>3. ASSUME NEW x \in ((New(i) \ no) \union (Known(i) \ no)) \ Phases,
                 made[Parent(x, ~first[i])] = 0
          PROVE  refused \/ x \in late
      <4>1. CASE pc[i] = "phases"
        BY <3>3, <3>p, <4>1 DEF New, Known
      <4>2. CASE pc[i] = "subphases"
        <5>1. x \in plan[i].subphases /\ first[i]
          BY <3>2, <3>3, <4>2 DEF New, Known, Ordered
        <5>2. Parent(x, ~first[i]) = PhaseOf[x]
          BY <3>p, <5>1, BidGridAssumption DEF Parent
        <5>3. refused \/ made[PhaseOf[x]] > 0
          BY <3>2, <4>2, <5>1 DEF Ordered
        <5>4. PhaseOf[x] \in ExtIds
          BY <3>p, <5>1, Parents
        <5> QED BY <1>1, <3>3, <5>2, <5>3, <5>4
      <4>3. CASE pc[i] = "tasks" /\ first[i]
        <5>1. x \in plan[i].tasks
          BY <3>2, <3>3, <4>3 DEF New, Known, Ordered
        <5>2. Parent(x, ~first[i]) = SubPhaseOf[x]
          BY <3>p, <4>3, <5>1, BidGridAssumption DEF Parent
        <5>3. refused \/ made[SubPhaseOf[x]] > 0
          BY <3>2, <4>3, <5>1 DEF Ordered
        <5>4. SubPhaseOf[x] \in ExtIds
          BY <3>p, <5>1, Parents
        <5> QED BY <1>1, <3>3, <5>2, <5>3, <5>4
      <4>4. CASE pc[i] = "tasks" /\ ~first[i]
        <5>1. x \in plan[i].tasks \union plan[i].upserts
          BY <3>3, <4>4 DEF New, Known
        <5>2. Parent(x, ~first[i]) = PhaseOf[SubPhaseOf[x]]
          BY <3>p, <4>4, <5>1, BidGridAssumption DEF Parent
        <5>3. x \in late \/ made[PhaseOf[SubPhaseOf[x]]] > 0
          BY <3>2, <4>4, <5>1 DEF Ordered
        <5>4. PhaseOf[SubPhaseOf[x]] \in ExtIds
          BY <3>p, <5>1, Parents
        <5> QED BY <1>1, <3>3, <5>2, <5>3, <5>4
      <4> QED BY <1>3, <4>1, <4>2, <4>3, <4>4
    <3>4. orphans \subseteq late \/ refused
      BY DEF OrderInv, ParentsFirst
    <3>5. CASE refused
      BY <3>5 DEF ParentsFirst
    <3>6. CASE ~refused
      <4>1. orphans' \subseteq late'
        BY <3>1, <3>3, <3>4, <3>6
      <4> QED BY <4>1 DEF ParentsFirst
    <3> QED BY <3>5, <3>6
  <2> QED BY <2>3, <2>4, <2>5
<1>4. CASE pc[i] = "assignments"
  <2>1. PutAssignments(i, no)
    BY <1>4 DEF Put
  <2>2. UNCHANGED <<made, orphans>>
    BY <1>4, <2>1, PutAssignmentsFacts DEF Base
  <2>4. Grows /\ ParentsFirst'
    BY <1>1, <2>2 DEF Grows, OrderInv, ParentsFirst
  <2> QED BY <1>4, <2>4
<1> QED BY <1>2, <1>3, <1>4

\* The next step of a batch that SPP took, or took in part.
LEMMA OrderedPut ==
  ASSUME Base, Base', OrderInv, NEW i \in Imports, AtBatch(i), NEW no, Put(i, no),
         UNCHANGED <<mark, late, grid, first, plan>>, pc'[i] = After(i),
         \/ no = {} /\ refused' = refused
         \/ refused' = TRUE
  PROVE  Grows /\ ParentsFirst' /\ Ordered(i)'
<1>1. \A x \in ExtIds : made[x] \in Nat /\ made'[x] \in Nat
  BY DEF Base, Typed, TypeOK
<1>2. refused => refused'
  OBVIOUS
<1>3. /\ Grows /\ ParentsFirst'
      /\ pc[i] # "assignments" => \A x \in New(i) \ no : x \in ExtIds => made'[x] > 0
  BY <1>2, PutOrder
<1>4. \A x \in ExtIds : made[x] > 0 => made'[x] > 0
  BY <1>1, <1>3 DEF Grows
<1>5. Ordered(i)
  BY DEF OrderInv
<1>p. /\ plan[i].phases \subseteq ExtIds /\ plan[i].subphases \subseteq ExtIds
      /\ plan[i].tasks \subseteq ExtIds /\ Due(grid[i]) \subseteq ExtIds
  BY PlanFacts, Parents DEF AtBatch, StageNames, Due
<1>6. ImportRuns(i)
  BY DEF ImportRuns, AtBatch, StageNames
<1>m. ImportRuns(i)' /\ ~first'[i] => mark'
  BY <1>5, <1>6 DEF Ordered
<1>7. CASE pc[i] = "phases"
  <2>1. pc'[i] = "subphases"
    BY <1>7 DEF After
  <2>2. refused' \/ \A s \in plan[i].phases : made'[s] > 0
    BY <1>3, <1>7, <1>p DEF New
  <2> QED BY <1>3, <1>5, <1>7, <1>m, <2>1, <2>2 DEF Ordered
<1>8. CASE pc[i] = "subphases"
  <2>1. pc'[i] = "tasks" /\ first[i]
    BY <1>5, <1>8 DEF After, Ordered
  <2>2. refused' \/ \A s \in plan[i].subphases : made'[s] > 0
    BY <1>3, <1>8, <1>p DEF New
  <2> QED BY <1>3, <1>5, <1>8, <1>m, <2>1, <2>2 DEF Ordered
<1>9. CASE pc[i] = "tasks"
  <2>1. pc'[i] = "assignments"
    BY <1>9 DEF After
  <2>2. \A u \in Due(grid[i]) : u \in plan[i].tasks \/ made[u] > 0
    BY <1>5, <1>9 DEF Ordered
  <2>3. refused' \/ \A u \in Due(grid[i]) : made'[u] > 0
    BY <1>3, <1>4, <1>9, <1>p, <2>2 DEF New
  <2> QED BY <1>3, <1>m, <2>1, <2>3 DEF Ordered
<1>10. CASE pc[i] = "assignments"
  <2>1. pc'[i] \in {"price", "mark"}
    BY <1>10 DEF After
  <2>2. refused' \/ \A u \in Due(grid[i]) : made'[u] > 0
    BY <1>2, <1>4, <1>5, <1>10, <1>p DEF Ordered
  <2> QED BY <1>3, <1>m, <2>1, <2>2 DEF Ordered
<1> QED BY <1>7, <1>8, <1>9, <1>10 DEF AtBatch, StageNames

\* A step of one import leaves the others in order.
LEMMA OthersOrdered ==
  ASSUME Base, Base', OrderInv, NEW i \in Imports, Grows, Ordered(i)',
         \A j \in Imports : j # i => SamePlan(j) /\ pc'[j] = pc[j]
  PROVE  \A j \in Imports : Ordered(j)'
<1>1. ASSUME NEW j \in Imports, j # i PROVE Ordered(j)'
  BY <1>1, OrderedStays DEF OrderInv
<1> QED BY <1>1

\* What Grows needs where no task is written.
LEMMA NothingMade ==
  ASSUME Base, made' = made, mark => mark', refused => refused', late \subseteq late'
  PROVE  Grows
BY DEF Grows, Base, Typed, TypeOK

LEMMA ImportOrder ==
  ASSUME Base, OrderInv, NEW i \in Imports,
         (\E g \in Grids : Begin(i, g)) \/ Import(i) \/ Mishap(i)
  PROVE  OrderInv'
<1>b. Base'
  BY ImportBase
<1>o. ImpOK /\ Typed
  BY TypeParts DEF Base, Typed
<1>i. Ordered(i) /\ ParentsFirst /\ MarkedIsLoaded
  BY DEF OrderInv
<1>1. ASSUME NEW g \in Grids, Begin(i, g) PROVE OrderInv'
  <2>1. UNCHANGED <<sppVars, ghosts>>
    BY <1>1 DEF Begin
  <2>2. Grows
    BY <2>1, NothingMade DEF sppVars, ghosts
  <2>3. ParentsFirst' /\ MarkedIsLoaded'
    BY <1>b, <1>i, <2>1, <2>2, MarkedStays DEF ParentsFirst, sppVars, ghosts
  <2>4. \A j \in Imports : j # i => SamePlan(j) /\ pc'[j] = pc[j]
    BY <1>o, <1>1 DEF Begin, ImpOK, SamePlan
  <2>5. Ordered(i)'
    <3>1. CASE mark
      <4>1. pc'[i] = "compare" /\ first'[i] = FALSE /\ mark'
        BY <1>o, <1>1, <2>1, <3>1 DEF Begin, ImpOK, sppVars
      <4> QED BY <4>1 DEF Ordered
    <3>2. CASE ~mark
      <4>1. pc'[i] = "phases" /\ first'[i] = TRUE /\ grid'[i] = g /\ plan'[i] = FirstPlan(g)
        BY <1>o, <1>1, <3>2 DEF Begin, ImpOK
      <4>2. /\ FirstPlan(g).phases = {PhaseOf[SubPhaseOf[u]] : u \in DOMAIN g}
            /\ FirstPlan(g).subphases = {SubPhaseOf[u] : u \in DOMAIN g}
            /\ FirstPlan(g).tasks \subseteq DOMAIN g /\ Due(g) \subseteq FirstPlan(g).tasks
            /\ FirstPlan(g).upserts = {}
        BY FirstPlanFacts DEF Due
      <4> QED BY <4>1, <4>2 DEF Ordered
    <3> QED BY <3>1, <3>2
  <2> QED BY <1>b, <2>2, <2>3, <2>4, <2>5, OthersOrdered DEF OrderInv
<1>2. CASE Compare(i)
  <2>1. /\ UNCHANGED <<sppVars, grid, first, last, refused>> /\ pc[i] = "compare"
        /\ pc' = [pc EXCEPT ![i] = "delete"]
        /\ late' = late \union {u \in Added(ReadTasks, GridTasks(grid[i])) \union
                                      Modified(ReadTasks, GridTasks(grid[i])) :
                                  made[PhaseOf[SubPhaseOf[u]]] = 0}
    BY <1>2 DEF Compare
  <2>2. /\ grid[i] \in Grids /\ plan'[i] = ComparePlan(i)
        /\ \A j \in Imports : j # i => plan'[j] = plan[j]
    BY <1>o, <1>2, CompareType
  <2>3. Grows
    BY <2>1, NothingMade DEF sppVars
  <2>4. ParentsFirst' /\ MarkedIsLoaded'
    BY <1>b, <1>i, <2>1, <2>3, MarkedStays DEF ParentsFirst, sppVars
  <2>5. \A j \in Imports : j # i => SamePlan(j) /\ pc'[j] = pc[j]
    BY <1>o, <2>1, <2>2 DEF ImpOK, SamePlan
  <2>6. Ordered(i)'
    <3>1. pc'[i] = "delete" /\ ~first'[i] /\ mark'
      BY <1>o, <1>i, <2>1 DEF ImpOK, Ordered, ImportRuns, sppVars
    <3>2. /\ \A u \in Due(grid[i]) : u \in plan'[i].tasks \/ made[u] > 0
          /\ plan'[i].tasks \union plan'[i].upserts \subseteq DOMAIN grid[i]
          /\ \A u \in plan'[i].upserts : OwnNumber(u) => made[u] > 0
      BY <2>2, ComparePlanFacts, ReadTasksFacts DEF Due
    <3>3. /\ plan'[i].tasks = Added(ReadTasks, GridTasks(grid[i]))
          /\ plan'[i].upserts = Modified(ReadTasks, GridTasks(grid[i]))
      BY <2>2, NoPlanIsPlan DEF ComparePlan, Plan
    <3>4. \A u \in plan'[i].tasks \union plan'[i].upserts : made[PhaseOf[SubPhaseOf[u]]] \in Nat
      <4>1. plan'[i].tasks \union plan'[i].upserts \subseteq Units
        BY <2>2, <3>2, GridFacts
      <4> QED BY <4>1, Parents DEF Base, Typed, TypeOK
    <3>5. \A u \in plan'[i].tasks \union plan'[i].upserts :
            made[PhaseOf[SubPhaseOf[u]]] > 0 \/ u \in late'
      BY <2>1, <3>3, <3>4
    <3>6. made' = made /\ grid' = grid
      BY <2>1 DEF sppVars
    <3> QED BY <3>1, <3>2, <3>5, <3>6 DEF Ordered
  <2> QED BY <1>b, <2>3, <2>4, <2>5, <2>6, OthersOrdered DEF OrderInv
<1>3. CASE DeleteOne(i) \/ DeleteRefused(i)
  <2>1. /\ UNCHANGED <<made, mark, orphans, pc, grid, first, last, late>>
        /\ refused => refused'
        /\ \A j \in Imports : SamePlan(j)
    BY <1>o, <1>3, DeleteOneFacts, DeleteRefusedFacts DEF SamePlan, sppVars, ghosts
  <2>2. Grows
    BY <2>1, NothingMade
  <2>3. ParentsFirst' /\ MarkedIsLoaded'
    BY <1>b, <1>i, <2>1, <2>2, MarkedStays DEF ParentsFirst
  <2>4. \A j \in Imports : Ordered(j)'
    BY <1>b, <2>1, <2>2, OrderedStays DEF OrderInv
  <2> QED BY <2>3, <2>4 DEF OrderInv
<1>4. CASE LookUp(i)
  <2>1. /\ UNCHANGED <<sppVars, grid, first, ghosts>> /\ pc[i] = "delete"
        /\ pc' = [pc EXCEPT ![i] = "tasks"]
        /\ plan'[i].tasks = plan[i].tasks /\ plan'[i].upserts = plan[i].upserts
        /\ plan'[i].phases = plan[i].phases /\ plan'[i].subphases = plan[i].subphases
        /\ \A j \in Imports : j # i => plan'[j] = plan[j]
    BY <1>o, <1>4, LookUpFacts
  <2>2. Grows
    BY <2>1, NothingMade DEF sppVars, ghosts
  <2>3. ParentsFirst' /\ MarkedIsLoaded'
    BY <1>b, <1>i, <2>1, <2>2, MarkedStays DEF ParentsFirst, sppVars, ghosts
  <2>4. \A j \in Imports : j # i => SamePlan(j) /\ pc'[j] = pc[j]
    BY <1>o, <2>1 DEF ImpOK, SamePlan
  <2>5. Ordered(i)'
    <3>1. pc'[i] = "tasks" /\ ~first'[i] /\ mark'
      BY <1>o, <1>i, <2>1 DEF ImpOK, Ordered, ImportRuns, sppVars
    <3>2. UNCHANGED <<made, grid, late>>
      BY <2>1 DEF sppVars, ghosts
    <3> QED BY <1>i, <2>1, <3>1, <3>2 DEF Ordered
  <2> QED BY <1>b, <2>2, <2>3, <2>4, <2>5, OthersOrdered DEF OrderInv
<1>5. CASE PutDone(i) \/ PutPartly(i)
  <2>1. /\ AtBatch(i) /\ UNCHANGED <<mark, late, last, grid, first, plan>>
        /\ pc' = [pc EXCEPT ![i] = After(i)]
    BY <1>5 DEF PutDone, PutPartly, batchSame
  <2>2. \E no : Put(i, no) /\ (\/ no = {} /\ refused' = refused
                               \/ refused' = TRUE)
    <3>1. CASE PutDone(i)
      <4>1. Put(i, {}) /\ refused' = refused
        BY <3>1 DEF PutDone
      <4> QED BY <4>1
    <3>2. CASE PutPartly(i)
      <4>1. PICK no : Put(i, no)
        BY <3>2 DEF PutPartly
      <4>2. refused' = TRUE
        BY <3>2 DEF PutPartly
      <4> QED BY <4>1, <4>2
    <3> QED BY <1>5, <3>1, <3>2
  <2>3. pc'[i] = After(i) /\ \A j \in Imports : j # i => SamePlan(j) /\ pc'[j] = pc[j]
    BY <1>o, <2>1 DEF ImpOK, SamePlan
  <2>4. Grows /\ ParentsFirst' /\ Ordered(i)'
    BY <1>b, <2>1, <2>2, <2>3, OrderedPut
  <2>5. MarkedIsLoaded'
    BY <1>b, <1>i, <2>1, <2>4, MarkedStays
  <2> QED BY <1>b, <2>3, <2>4, <2>5, OthersOrdered DEF OrderInv
<1>6. CASE PutFails(i) \/ PutUnheard(i)
  <2>1. AtBatch(i) /\ UNCHANGED <<mark, late, last, grid, first, plan, refused>> /\ Again(i)
    BY <1>6 DEF PutFails, PutUnheard, batchSame
  <2>2. Grows /\ ParentsFirst'
    <3>1. CASE PutFails(i)
      <4>1. UNCHANGED <<made, orphans>>
        BY <3>1 DEF PutFails
      <4> QED BY <1>i, <2>1, <4>1, NothingMade DEF ParentsFirst
    <3>2. CASE PutUnheard(i)
      <4>1. Put(i, {})
        BY <3>2 DEF PutUnheard
      <4> QED BY <1>b, <2>1, <4>1, PutOrder
    <3> QED BY <1>6, <3>1, <3>2
  <2>3. /\ pc'[i] \in {pc[i], "dead"}
        /\ \A j \in Imports : SamePlan(j) /\ (j # i => pc'[j] = pc[j])
    BY <1>o, <2>1 DEF ImpOK, SamePlan, Again
  <2>4. Ordered(i)'
    <3>1. CASE pc'[i] = pc[i]
      BY <1>b, <1>i, <2>2, <2>3, <3>1, OrderedStays
    <3>2. CASE pc'[i] = "dead"
      BY <3>2 DEF Ordered, ImportRuns
    <3> QED BY <2>3, <3>1, <3>2
  <2>5. MarkedIsLoaded'
    BY <1>b, <1>i, <2>1, <2>2, MarkedStays
  <2> QED BY <1>b, <2>2, <2>3, <2>4, <2>5, OthersOrdered DEF OrderInv
<1>7. CASE Price(i) \/ Priced(i) \/ MarkRefused(i) \/ Dies(i)
  <2>1. /\ UNCHANGED <<made, mark, orphans, grid, first, plan, last, late>>
        /\ refused => refused'
        /\ \A j \in Imports : j # i => pc'[j] = pc[j]
        /\ \/ pc'[i] = pc[i] \/ pc'[i] \in {"done", "dead"}
           \/ pc[i] = "price" /\ pc'[i] = "mark" /\ refused' = refused
    BY <1>o, <1>7 DEF Price, StartCalc, Priced, MarkRefused, Dies, ImpOK, sppVars, impVars, ghosts
  <2>2. Grows
    BY <2>1, NothingMade
  <2>3. ParentsFirst' /\ MarkedIsLoaded'
    BY <1>b, <1>i, <2>1, <2>2, MarkedStays DEF ParentsFirst
  <2>4. \A j \in Imports : SamePlan(j)
    BY <2>1 DEF SamePlan
  <2>5. Ordered(i)'
    <3>1. CASE pc'[i] = pc[i]
      BY <1>b, <1>i, <2>2, <2>4, <3>1, OrderedStays
    <3>2. CASE pc'[i] \in {"done", "dead"}
      BY <3>2 DEF Ordered, ImportRuns
    <3>3. CASE pc[i] = "price" /\ pc'[i] = "mark" /\ refused' = refused
      BY <1>i, <2>1, <3>3 DEF Ordered, ImportRuns
    <3> QED BY <2>1, <3>1, <3>2, <3>3
  <2> QED BY <1>b, <2>1, <2>2, <2>3, <2>4, <2>5, OthersOrdered DEF OrderInv
<1>8. CASE Mark(i)
  <2>1. /\ UNCHANGED <<made, orphans, grid, first, plan, refused, late>>
        /\ mark' = TRUE /\ last' = grid[i] /\ pc[i] = "mark" /\ pc'[i] = "done"
        /\ \A j \in Imports : j # i => pc'[j] = pc[j]
    BY <1>o, <1>8 DEF Mark, ImpOK
  <2>2. Grows /\ \A j \in Imports : SamePlan(j)
    BY <2>1, NothingMade DEF SamePlan
  <2>3. ParentsFirst'
    BY <1>i, <2>1 DEF ParentsFirst
  <2>4. MarkedIsLoaded'
    <3>1. grid[i] \in Grids /\ grid[i] # NoGrid
      BY <2>1, BidGridAssumption DEF Base, Typed, GridInv
    <3> QED BY <1>i, <2>1, <3>1 DEF MarkedIsLoaded, Ordered, Due
  <2>5. Ordered(i)'
    BY <2>1 DEF Ordered, ImportRuns
  <2> QED BY <1>b, <2>1, <2>2, <2>3, <2>4, <2>5, OthersOrdered DEF OrderInv
<1> QED BY <1>1, <1>2, <1>3, <1>4, <1>5, <1>6, <1>7, <1>8 DEF Import, Mishap

LEMMA OrderStep == Base /\ OrderInv /\ [Next]_vars => OrderInv'
<1> SUFFICES ASSUME Base, OrderInv, [Next]_vars PROVE OrderInv'
  OBVIOUS
<1>b. Base'
  BY BaseStep
<1>1. ASSUME NEW i \in Imports, (\E g \in Grids : Begin(i, g)) \/ Import(i) \/ Mishap(i)
      PROVE  OrderInv'
  BY <1>1, ImportOrder
<1>2. ASSUME UNCHANGED <<made, mark, orphans, grid, first, plan, ghosts>>,
             \A i \in Imports : pc'[i] \in {pc[i], "dead"}
      PROVE  OrderInv'
  <2>1. Grows /\ \A i \in Imports : SamePlan(i)
    BY <1>2, NothingMade DEF SamePlan, ghosts
  <2>2. ParentsFirst' /\ MarkedIsLoaded'
    BY <1>b, <1>2, <2>1, MarkedStays DEF OrderInv, ParentsFirst, ghosts
  <2>3. ASSUME NEW i \in Imports PROVE Ordered(i)'
    <3>1. CASE pc'[i] = pc[i]
      BY <1>b, <2>1, <3>1, OrderedStays DEF OrderInv
    <3>2. CASE pc'[i] = "dead"
      BY <3>2 DEF Ordered, ImportRuns
    <3> QED BY <1>2, <3>1, <3>2
  <2> QED BY <2>2, <2>3 DEF OrderInv
<1>3. ASSUME NEW c \in Calcs, Recalculate(c) PROVE OrderInv'
  BY <1>2, <1>3 DEF Recalculate, StartCalc, sppVars, impVars
<1>4. ASSUME NEW c \in Calcs, Calc(c) PROVE OrderInv'
  <2>1. CalcFrame(c)
    BY <1>4, CalcFacts DEF Base
  <2>2. \A i \in Imports : pc'[i] \in {pc[i], "dead"}
    BY <2>1 DEF CalcFrame
  <2> QED BY <1>2, <2>1, <2>2 DEF CalcFrame
<1>5. CASE UNCHANGED vars
  BY <1>2, <1>5 DEF vars, sppVars, impVars
<1> QED BY <1>1, <1>3, <1>4, <1>5 DEF Next

LEMMA InitOrder == Init => OrderInv
<1> SUFFICES ASSUME Init PROVE OrderInv
  OBVIOUS
<1>1. \A i \in Imports : Ordered(i)
  BY DEF Init, Ordered, ImportRuns
<1>2. ParentsFirst /\ MarkedIsLoaded
  BY DEF Init, ParentsFirst, MarkedIsLoaded
<1> QED BY <1>1, <1>2 DEF OrderInv

LEMMA AlwaysOrdered == Spec => []OrderInv
BY InitOrder, OrderStep, AlwaysBase, PTL DEF Spec

\* A sub-phase or task is written after what it lies under, whatever else
\* imports do, but for what SPP refused and what an update brought late.
THEOREM ParentsComeFirst == Spec => []ParentsFirst
<1>1. OrderInv => ParentsFirst
  BY DEF OrderInv
<1> QED BY <1>1, AlwaysOrdered, PTL

\* A project that carries the mark has all tasks of the last grid, unless SPP
\* refused a record, but for units that share a name with an earlier one or that
\* another unit reads as: no import that was cut off or repeated leaves the
\* mark on a project that was not loaded.
THEOREM MarkMeansLoaded == Spec => []MarkedIsLoaded
<1>1. OrderInv => MarkedIsLoaded
  BY DEF OrderInv
<1> QED BY <1>1, AlwaysOrdered, PTL

-----------------------------------------------------------------------------
(* Duplicates. Counted are the records that are there and those that will  *)
(* still be added: a repeated or overlapping step has been paid for by a   *)
(* fault before it adds one.                                               *)

\* What runs: imports, with the pricing they wait for, and other pricing runs.
Threads == {c \in Calcs : CalcRuns(c) \/ (c \in Imports /\ ImportRuns(c))}

SomeRun == IF \E i \in Imports : ImportRuns(i) THEN 1 ELSE 0

\* The imports that will still add a record: the batch it is in is to come, or
\* is being repeated. One that repeats a batch has paid for any record.
Repeats(i) == ImportRuns(i) /\ attempt[i] > 1

\* An update of a task that is not there adds it.
Makers(x) ==
  {i \in Imports :
     \/ pc[i] = "phases" /\ x \in plan[i].phases \union plan[i].subphases \union plan[i].tasks
     \/ pc[i] = "subphases" /\ x \in plan[i].subphases \union plan[i].tasks
     \/ /\ pc[i] \in {"delete", "tasks"}
        /\ x \in plan[i].tasks \/ (x \in plan[i].upserts /\ made[x] = 0)
     \/ Repeats(i)}

Assigners(k) ==
  {i \in Imports :
     \/ pc[i] \in StageNames \union {"delete"} /\ k \in DOMAIN plan[i].adds
     \/ Repeats(i)}

\* n records, and what will still be added, are one and those of faults; as
\* long as there is no mark, the one is that of an import that runs.
Owed(n, S) ==
  /\ n + Cardinality(S) <= 1 + faults
  /\ ~mark => n + Cardinality(S) <= faults + SomeRun

RuleAdders(u) == {c \in Calcs : cpc[c] = "addrule" /\ Task(c) = u}
RateAdders(u, t) == {c \in Calcs : cpc[c] = "addrate" /\ Task(c) = u /\ Category(c) = t}

ThreadInv == Cardinality(Threads) <= 1 + faults

\* Units whose number an import reads as another one are added again and again,
\* and those that share a name share their assignments.
ReadAlike(x) == x \in Units => ReadsAsItself(x)
OwnKey(k) == ReadsAsItself(k[1]) /\ OwnName(k[1])

MadeInv == \A x \in ExtIds : ReadAlike(x) => Owed(made[x], Makers(x))
AsgInv == \A k \in Keys : OwnKey(k) => Owed(Len(asg[k]), Assigners(k))

\* A task that is not there has no assignments.
LostInv == \A k \in Keys : made[k[1]] = 0 => Len(asg[k]) = 0

BillInv ==
  \A u \in Units, t \in Categories :
    /\ billing[u].rules + Cardinality(RuleAdders(u)) <= 1 + faults
    /\ billing[u].rates[t] + Cardinality(RateAdders(u, t)) <= 1 + faults

\* A new step begins with its first attempt.
TriesInv ==
  \A i \in Imports :
    pc[i] \in {"idle", "compare", "delete", "price", "mark"} => attempt[i] = 1

CountInv == ThreadInv /\ MadeInv /\ AsgInv /\ LostInv /\ BillInv /\ TriesInv

LEMMA Finite == IsFiniteSet(Imports) /\ IsFiniteSet(Calcs) /\ Imports \subseteq Calcs
BY FS_Interval, BidGridAssumption, ImportsAreCalcs DEF Imports, Calcs

\* A set loses or gains at most one element.
LEMMA SetStep ==
  ASSUME NEW U, IsFiniteSet(U), NEW S \in SUBSET U, NEW T \in SUBSET U, NEW i,
         \A j \in U : j # i => (j \in S <=> j \in T)
  PROVE  /\ Cardinality(S) \in Nat /\ Cardinality(T) \in Nat
         /\ Cardinality(T) + Plus(S, i) = Cardinality(S) + Plus(T, i)
         /\ S = {} => Cardinality(S) = 0
<1>1. IsFiniteSet(S) /\ IsFiniteSet(T)
  BY FS_Subset
<1>2. Cardinality(S) \in Nat /\ Cardinality(T) \in Nat
  BY <1>1, FS_CardinalityType
<1>3. CASE i \in S <=> i \in T
  <2>1. S = T
    BY <1>3
  <2> QED BY <1>2, <2>1, FS_EmptySet
<1>4. CASE i \notin S /\ i \in T
  <2>1. T = S \cup {i}
    BY <1>4
  <2> QED BY <1>1, <1>2, <1>4, <2>1, FS_AddElement, FS_EmptySet DEF Plus
<1>5. CASE i \in S /\ i \notin T
  <2>1. S = T \cup {i}
    BY <1>5
  <2> QED BY <1>1, <1>2, <1>5, <2>1, FS_AddElement DEF Plus
<1> QED BY <1>3, <1>4, <1>5

LEMMA Fewer ==
  ASSUME NEW U, IsFiniteSet(U), NEW T \in SUBSET U, NEW S \in SUBSET T
  PROVE  /\ Cardinality(S) \in Nat /\ Cardinality(T) \in Nat
         /\ Cardinality(S) <= Cardinality(T)
<1>1. IsFiniteSet(S) /\ IsFiniteSet(T)
  BY FS_Subset
<1> QED BY <1>1, FS_Subset, FS_CardinalityType

\* How import i changes n records and those S that will add one.
Pays(i, n, S, m, T) ==
  LET old == n + Plus(S, i)
      new == m + Plus(T, i)
  IN
  \/ new <= old /\ faults' = faults /\ (mark' \/ SomeRun' = 1)
  \/ new <= old /\ faults' = faults + 1
  \/ new <= old + 1 /\ faults' = faults + 1 /\ SomeRun' = 1
  \/ new + 1 <= old /\ faults' = faults

LEMMA OwedStep ==
  ASSUME NEW n \in Nat, NEW m \in Nat, NEW i, NEW S \in SUBSET Imports, NEW T \in SUBSET Imports,
         \A j \in Imports : j # i /\ j \in T => j \in S,
         faults \in Nat, mark => mark', Pays(i, n, S, m, T), Owed(n, S)
  PROVE  /\ m + Cardinality(T) <= 1 + faults'
         /\ ~mark' => m + Cardinality(T) <= faults' + SomeRun'
<1> DEFINE W == {j \in Imports : IF j = i THEN j \in T ELSE j \in S}
<1>0. /\ Cardinality(S) \in Nat /\ Cardinality(W) \in Nat
      /\ Cardinality(W) + Plus(S, i) = Cardinality(S) + Plus(W, i)
  BY Finite, SetStep
<1>w. T \in SUBSET W /\ W \in SUBSET Imports /\ Plus(W, i) = Plus(T, i)
  BY DEF Plus
<1> HIDE DEF W
<1>c. Cardinality(T) \in Nat /\ Cardinality(T) <= Cardinality(W)
  BY <1>w, Finite, Fewer
<1>1. /\ Cardinality(S) \in Nat /\ Cardinality(W) \in Nat
      /\ Cardinality(W) + Plus(S, i) = Cardinality(S) + Plus(T, i)
  BY <1>0, <1>w
<1>2. /\ n + Cardinality(S) <= 1 + faults
      /\ ~mark => n + Cardinality(S) <= faults + SomeRun
  BY DEF Owed
<1>3. SomeRun \in {0, 1} /\ SomeRun' \in {0, 1}
  BY DEF SomeRun
<1>4. Plus(S, i) \in {0, 1} /\ Plus(T, i) \in {0, 1}
  BY DEF Plus
<1> DEFINE a == Cardinality(S)
           b == Cardinality(W)
           c == Cardinality(T)
           p == Plus(S, i)
           q == Plus(T, i)
           r == SomeRun'
           o == SomeRun
<1>5. /\ a \in Nat /\ b \in Nat /\ c \in Nat /\ c <= b /\ b + p = a + q /\ p \in {0, 1} /\ q \in {0, 1}
      /\ n + a <= 1 + faults /\ (~mark => n + a <= faults + o) /\ o \in {0, 1} /\ r \in {0, 1}
  BY <1>1, <1>2, <1>3, <1>4, <1>c
<1>6. \/ m + q <= n + p /\ faults' = faults /\ (mark' \/ r = 1)
      \/ m + q <= n + p /\ faults' = faults + 1
      \/ m + q <= n + p + 1 /\ faults' = faults + 1 /\ r = 1
      \/ m + q + 1 <= n + p /\ faults' = faults
  BY DEF Pays
<1> HIDE DEF a, b, c, p, q, r, o
<1>7. m + c <= 1 + faults' /\ (~mark' => m + c <= faults' + r)
  BY <1>5, <1>6
<1> QED BY <1>7 DEF c, r

\* A step of import i leaves the others where they are.
OnlyOf(i) ==
  \A j \in Imports : j # i =>
    pc'[j] = pc[j] /\ attempt'[j] = attempt[j] /\ plan'[j] = plan[j]

LEMMA ImportFrame ==
  ASSUME Base, NEW i \in Imports,
         (\E g \in Grids : Begin(i, g)) \/ Import(i) \/ Mishap(i)
  PROVE  /\ OnlyOf(i) /\ (mark => mark') /\ billing' = billing
         /\ Price(i) \/ UNCHANGED <<cpc, todo, cats>>
<1>1. ImpOK /\ Typed
  BY TypeParts DEF Base, Typed
<1> USE DEF OnlyOf, sppVars, impVars, calcVars, batchSame, ImpOK
<1>2. ASSUME NEW g \in Grids, Begin(i, g)
      PROVE  OnlyOf(i) /\ mark' = mark /\ billing' = billing /\ UNCHANGED <<cpc, todo, cats>>
  BY <1>1, <1>2 DEF Begin
<1>3. CASE Compare(i)
  BY <1>1, <1>3 DEF Compare
<1>4. CASE DeleteOne(i) \/ DeleteRefused(i)
  <2>1. UNCHANGED <<pc, attempt, mark, billing, cpc, todo, cats>>
    BY <1>4 DEF DeleteOne, DeleteRefused
  <2>2. \E k : plan' = [plan EXCEPT ![i].gone = @ \ {k}]
    BY <1>4 DEF DeleteOne, DeleteRefused
  <2> QED BY <1>1, <2>1, <2>2, GoneFacts
<1>5. CASE LookUp(i)
  BY <1>1, <1>5, LookUpFacts
<1>6. CASE PutDone(i) \/ PutPartly(i)
  BY <1>1, <1>6 DEF PutDone, PutPartly
<1>7. CASE PutFails(i) \/ PutUnheard(i)
  <2>1. UNCHANGED <<plan, mark, billing, cpc, todo, cats>> /\ Again(i)
    BY <1>7 DEF PutFails, PutUnheard
  <2> QED BY <1>1, <2>1 DEF Again
<1>8. CASE Price(i)
  BY <1>8 DEF Price, StartCalc
<1>9. CASE Priced(i)
  BY <1>1, <1>9 DEF Priced
<1>10. CASE Mark(i)
  BY <1>1, <1>10 DEF Mark
<1>11. CASE MarkRefused(i)
  BY <1>1, <1>11 DEF MarkRefused
<1>12. CASE Dies(i)
  BY <1>1, <1>12 DEF Dies
<1> QED BY <1>2, <1>3, <1>4, <1>5, <1>6, <1>7, <1>8, <1>9, <1>10, <1>11, <1>12 DEF Import, Mishap

LEMMA OthersCount ==
  ASSUME NEW i, OnlyOf(i)
  PROVE  \A j \in Imports : j # i =>
           /\ \A k : j \in Assigners(k) <=> j \in Assigners(k)'
           /\ ImportRuns(j) <=> ImportRuns(j)'
BY DEF OnlyOf, Assigners, Repeats, ImportRuns

LEMMA OthersMake ==
  ASSUME NEW i, OnlyOf(i)
  PROVE  \A j \in Imports : j # i =>
           /\ made' = made => \A x : j \in Makers(x) <=> j \in Makers(x)'
           /\ \A x : (made'[x] = 0 => made[x] = 0) /\ j \in Makers(x)' => j \in Makers(x)
BY DEF OnlyOf, Makers, Repeats, ImportRuns

LEMMA CountSets ==
  /\ \A x : Makers(x) \in SUBSET Imports /\ Makers(x)' \in SUBSET Imports
  /\ \A k : Assigners(k) \in SUBSET Imports /\ Assigners(k)' \in SUBSET Imports
  /\ \A u : RuleAdders(u) \in SUBSET Calcs /\ RuleAdders(u)' \in SUBSET Calcs
  /\ \A u, t : RateAdders(u, t) \in SUBSET Calcs /\ RateAdders(u, t)' \in SUBSET Calcs
  /\ Threads \in SUBSET Calcs /\ Threads' \in SUBSET Calcs
BY DEF Makers, Assigners, RuleAdders, RateAdders, Threads

\* The counts, as numbers.
CountTypes ==
  /\ faults \in Nat /\ mark \in BOOLEAN
  /\ \A x \in ExtIds : made[x] \in Nat
  /\ \A k \in Keys : asg[k] \in Seq(Row) /\ Len(asg[k]) \in Nat
  /\ \A u \in Units, t \in Categories : billing[u].rules \in Nat /\ billing[u].rates[t] \in Nat

LEMMA TypedCounts ==
  ASSUME TypeOK PROVE CountTypes
<1>1. /\ faults \in 0 .. MaxFaults /\ mark \in BOOLEAN /\ made \in [ExtIds -> Nat]
      /\ asg \in [Keys -> Seq(Row)] /\ billing \in [Units -> Billing]
      /\ MaxFaults \in Nat
  BY BidGridAssumption DEF TypeOK, Billing
<1> QED BY <1>1 DEF CountTypes, Billing

LEMMA Counts == (Base => CountTypes) /\ (Base' => CountTypes')
<1>1. Base => CountTypes
  BY TypedCounts DEF Base, Typed
<1>2. ASSUME Base' PROVE CountTypes'
  <2>1. /\ faults' \in 0 .. MaxFaults /\ mark' \in BOOLEAN /\ made' \in [ExtIds -> Nat]
        /\ asg' \in [Keys -> Seq(Row)] /\ billing' \in [Units -> Billing]
        /\ MaxFaults \in Nat
    BY <1>2, BidGridAssumption DEF Base, Typed, TypeOK, Billing
  <2> QED BY <2>1 DEF CountTypes, Billing
<1> QED BY <1>1, <1>2

LEMMA KeyUnit == \A k \in Keys : k[1] \in Units /\ k[1] \in ExtIds
BY DEF Keys, ExtIds

LEMMA StillNone ==
  ASSUME Base, Base', Grows PROVE \A x \in ExtIds : made'[x] = 0 => made[x] = 0
BY Counts DEF CountTypes, Grows

LEMMA MadeStep ==
  ASSUME Base, Base', NEW i \in Imports, OnlyOf(i), mark => mark', MadeInv, Grows,
         \A x \in ExtIds : Pays(i, made[x], Makers(x), made'[x], Makers(x)')
  PROVE  MadeInv'
<1> SUFFICES ASSUME NEW x \in ExtIds, ReadAlike(x) PROVE Owed(made[x], Makers(x))'
  BY DEF MadeInv, ReadAlike, ReadsAsItself
<1>1. made[x] \in Nat /\ made'[x] \in Nat /\ faults \in Nat
  BY Counts DEF CountTypes
<1>2. Makers(x) \in SUBSET Imports /\ Makers(x)' \in SUBSET Imports
  BY CountSets
<1>3. \A j \in Imports : j # i /\ j \in Makers(x)' => j \in Makers(x)
  BY OthersMake, StillNone
<1>4. Owed(made[x], Makers(x)) /\ Pays(i, made[x], Makers(x), made'[x], Makers(x)')
  BY DEF MadeInv
<1>5. /\ made'[x] + Cardinality(Makers(x)') <= 1 + faults'
      /\ ~mark' => made'[x] + Cardinality(Makers(x)') <= faults' + SomeRun'
  BY <1>1, <1>2, <1>3, <1>4, OwedStep
<1> QED BY <1>5 DEF Owed

LEMMA AsgStep ==
  ASSUME Base, Base', NEW i \in Imports, OnlyOf(i), mark => mark', AsgInv,
         \A k \in Keys : OwnKey(k) => Pays(i, Len(asg[k]), Assigners(k), Len(asg'[k]), Assigners(k)')
  PROVE  AsgInv'
<1> SUFFICES ASSUME NEW k \in Keys, OwnKey(k) PROVE Owed(Len(asg[k]), Assigners(k))'
  BY DEF AsgInv, OwnKey, ReadsAsItself, OwnName
<1>1. Len(asg[k]) \in Nat /\ Len(asg'[k]) \in Nat /\ faults \in Nat
  BY Counts DEF CountTypes
<1>2. Assigners(k) \in SUBSET Imports /\ Assigners(k)' \in SUBSET Imports
  BY CountSets
<1>3. \A j \in Imports : j # i /\ j \in Assigners(k)' => j \in Assigners(k)
  BY OthersCount
<1>4. Owed(Len(asg[k]), Assigners(k)) /\ Pays(i, Len(asg[k]), Assigners(k), Len(asg'[k]), Assigners(k)')
  BY DEF AsgInv
<1>5. /\ Len(asg'[k]) + Cardinality(Assigners(k)') <= 1 + faults'
      /\ ~mark' => Len(asg'[k]) + Cardinality(Assigners(k)') <= faults' + SomeRun'
  BY <1>1, <1>2, <1>3, <1>4, OwedStep
<1> QED BY <1>5 DEF Owed

LEMMA ThreadsFall ==
  ASSUME Base, Base', Threads' \subseteq Threads
  PROVE  /\ Cardinality(Threads) \in Nat /\ Cardinality(Threads') \in Nat
         /\ Cardinality(Threads') <= Cardinality(Threads)
BY Finite, CountSets, Fewer

\* Nothing is assigned to a task that is not there.
NoneLost == \A k \in Keys : made[k[1]] = 0 => Len(asg'[k]) <= Len(asg[k])

LEMMA LostStep ==
  ASSUME Base, Base', LostInv, Grows, NoneLost
  PROVE  LostInv'
<1> SUFFICES ASSUME NEW k \in Keys, made'[k[1]] = 0 PROVE Len(asg'[k]) = 0
  BY DEF LostInv
<1>1. made[k[1]] = 0 /\ Len(asg[k]) = 0
  BY KeyUnit, StillNone DEF LostInv
<1>2. Len(asg'[k]) \in Nat /\ Len(asg'[k]) <= 0
  BY <1>1, Counts DEF CountTypes, NoneLost
<1> QED BY <1>2

LEMMA BillStays ==
  ASSUME Base, Base', BillInv, billing' = billing, faults' >= faults,
         \A u \in Units, t \in Categories :
           RuleAdders(u)' \subseteq RuleAdders(u) /\ RateAdders(u, t)' \subseteq RateAdders(u, t)
  PROVE  BillInv'
<1> SUFFICES ASSUME NEW u \in Units, NEW t \in Categories
             PROVE  /\ billing[u].rules + Cardinality(RuleAdders(u)') <= 1 + faults'
                    /\ billing[u].rates[t] + Cardinality(RateAdders(u, t)') <= 1 + faults'
  BY DEF BillInv
<1>1. /\ Cardinality(RuleAdders(u)) \in Nat /\ Cardinality(RuleAdders(u)') \in Nat
      /\ Cardinality(RuleAdders(u)') <= Cardinality(RuleAdders(u))
      /\ Cardinality(RateAdders(u, t)) \in Nat /\ Cardinality(RateAdders(u, t)') \in Nat
      /\ Cardinality(RateAdders(u, t)') <= Cardinality(RateAdders(u, t))
  BY Finite, CountSets, Fewer
<1>2. billing[u].rules \in Nat /\ billing[u].rates[t] \in Nat /\ faults \in Nat /\ faults' \in Nat
  BY Counts DEF CountTypes
<1>3. /\ billing[u].rules + Cardinality(RuleAdders(u)) <= 1 + faults
      /\ billing[u].rates[t] + Cardinality(RateAdders(u, t)) <= 1 + faults
  BY DEF BillInv
<1> QED BY <1>1, <1>2, <1>3

\* An import that runs is a thread already.
LEMMA RunStays ==
  ASSUME Base, Base', ThreadInv, BillInv, NEW i \in Imports, ImportRuns(i), OnlyOf(i),
         Price(i) \/ UNCHANGED <<cpc, todo, cats>>, billing' = billing, faults' >= faults
  PROVE  Threads' \subseteq Threads /\ ThreadInv' /\ BillInv'
<1>1. i \in Calcs /\ i \in Threads /\ Imports \subseteq Calcs
  BY Finite DEF Threads
<1>2. \A c \in Calcs : c # i => cpc'[c] = cpc[c] /\ todo'[c] = todo[c] /\ cats'[c] = cats[c]
  BY DEF Price, StartCalc, Base, Typed, TypeOK
<1>3. UNCHANGED <<cpc, todo, cats>> \/ cpc'[i] = "total"
  BY <1>1 DEF Price, StartCalc, Base, Typed, TypeOK
<1>4. Threads' \subseteq Threads
  BY <1>1, <1>2 DEF Threads, OnlyOf, ImportRuns, CalcRuns
<1>5. ThreadInv'
  <2>1. faults \in Nat /\ faults' \in Nat
    BY Counts DEF CountTypes
  <2> QED BY <1>4, <2>1, ThreadsFall DEF ThreadInv
<1>6. \A u \in Units, t \in Categories :
        RuleAdders(u)' \subseteq RuleAdders(u) /\ RateAdders(u, t)' \subseteq RateAdders(u, t)
  <2>1. \A c \in Calcs : c # i => Task(c)' = Task(c) /\ Category(c)' = Category(c)
    BY <1>2 DEF Task, Category
  <2>2. CASE UNCHANGED <<cpc, todo, cats>>
    BY <2>2 DEF RuleAdders, RateAdders, Task, Category
  <2>3. CASE cpc'[i] = "total"
    BY <1>2, <2>1, <2>3 DEF RuleAdders, RateAdders
  <2> QED BY <1>3, <2>2, <2>3
<1> QED BY <1>4, <1>5, <1>6, BillStays

\* The records that a batch adds.
NewTasks(i) ==
  IF pc[i] = "assignments" THEN {} ELSE New(i) \union {x \in Known(i) : made[x] = 0}
NewAsgs(i) == IF pc[i] = "assignments" THEN New(i) ELSE {}

LEMMA BatchAdds ==
  ASSUME Base, Base', NEW i \in Imports, AtBatch(i), NEW no, Put(i, no)
  PROVE  /\ \A x \in ExtIds : made'[x] <= made[x] + Plus(NewTasks(i), x)
         /\ \A k \in Keys : OwnName(k[1]) => Len(asg'[k]) <= Len(asg[k]) + Plus(NewAsgs(i), k)
         /\ NoneLost
<1>1. /\ \A x \in ExtIds : made[x] \in Nat /\ made'[x] \in Nat
      /\ \A k \in Keys : Len(asg[k]) \in Nat
  BY Counts DEF CountTypes
<1>p. \A S, x : Plus(S, x) \in {0, 1} /\ (x \in S => Plus(S, x) = 1)
  BY DEF Plus
<1>2. CASE pc[i] \in {"phases", "subphases", "tasks"}
  <2>1. PutTasks(i, no)
    BY <1>2 DEF Put
  <2>2. /\ asg' = asg
        /\ \A x \in ExtIds :
              made'[x] = IF x \in Known(i) \ no
                         THEN IF made[x] = 0 THEN 1 ELSE made[x]
                         ELSE IF x \in New(i) \ no THEN made[x] + 1 ELSE made[x]
    BY <1>2, <2>1, PutTasksFacts DEF Base
  <2>3. NewTasks(i) = New(i) \union {x \in Known(i) : made[x] = 0}
    BY <1>2 DEF NewTasks
  <2>4. \A x \in ExtIds : made'[x] <= made[x] + Plus(NewTasks(i), x)
    BY <1>1, <1>p, <2>2, <2>3
  <2>5. \A k \in Keys : Len(asg'[k]) <= Len(asg[k]) + Plus(NewAsgs(i), k)
    BY <1>1, <1>p, <2>2
  <2>6. NoneLost
    BY <1>1, <2>2 DEF NoneLost
  <2> QED BY <2>4, <2>5, <2>6
<1>3. CASE pc[i] = "assignments"
  <2>1. PutAssignments(i, no)
    BY <1>3 DEF Put
  <2>2. made' = made /\ \A k \in Keys : made[k[1]] = 0 => asg'[k] = asg[k]
    BY <1>3, <2>1, PutAssignmentsFacts DEF Base
  <2>3. ASSUME NEW k \in Keys, OwnName(k[1])
        PROVE  Len(asg'[k]) <= Len(asg[k]) + Plus(NewAsgs(i), k)
    <3>1. NewAsgs(i) = DOMAIN plan[i].adds
      BY <1>3 DEF NewAsgs, New
    <3>2. CASE made[k[1]] = 0
      BY <1>1, <1>p, <2>2, <3>2
    <3>3. CASE made[k[1]] # 0
      <4> DEFINE old == Changed(i, no, k)
      <4>1. /\ old \in Seq(Row) /\ Len(old) = Len(asg[k])
            /\ asg'[k] = IF k \in DOMAIN plan[i].adds \ no THEN Append(old, plan[i].adds[k]) ELSE old
        BY <1>3, <2>1, <2>3, <3>3, PutAssignmentsFacts, ChangedFacts DEF Base
      <4> HIDE DEF old
      <4>2. CASE k \in DOMAIN plan[i].adds
        <5>1. Plus(NewAsgs(i), k) = 1
          BY <1>p, <3>1, <4>2
        <5>2. Len(asg'[k]) = Len(old) \/ Len(asg'[k]) = Len(old) + 1
          <6>1. plan[i].adds[k] \in Row
            BY <4>2, FromKeysElim DEF Base, Typed, TypeOK, Plan
          <6> QED BY <4>1, <6>1
        <5> QED BY <1>1, <4>1, <5>1, <5>2
      <4>3. CASE k \notin DOMAIN plan[i].adds
        <5>1. Len(asg'[k]) = Len(asg[k])
          BY <4>1, <4>3
        <5> QED BY <1>1, <1>p, <5>1
      <4> QED BY <4>2, <4>3
    <3> QED BY <3>2, <3>3
  <2>4. \A x \in ExtIds : made'[x] <= made[x] + Plus(NewTasks(i), x)
    BY <1>1, <1>p, <2>2
  <2>5. NoneLost
    BY <1>1, <2>2 DEF NoneLost
  <2> QED BY <2>3, <2>4, <2>5
<1> QED BY <1>2, <1>3 DEF AtBatch, StageNames

\* They were counted, and are no more when the batch is over.
LEMMA BatchCounted ==
  ASSUME Base, NEW i \in Imports, AtBatch(i)
  PROVE  /\ \A x \in NewTasks(i) : i \in Makers(x)
         /\ \A k \in NewAsgs(i) : i \in Assigners(k)
BY DEF NewTasks, NewAsgs, New, Known, Makers, Assigners, AtBatch, StageNames

LEMMA BatchOver ==
  ASSUME Base, Base', OrderInv, NEW i \in Imports, AtBatch(i), plan' = plan,
         pc'[i] = After(i), attempt'[i] = 1
  PROVE  /\ \A x : i \in Makers(x)' => i \in Makers(x) /\ x \notin NewTasks(i)
         /\ \A k : i \in Assigners(k)' => i \in Assigners(k) /\ k \notin NewAsgs(i)
         /\ ImportRuns(i)'
<1>1. plan[i] \in Plan
  BY DEF Base, Typed, TypeOK
<1>2. Units \intersect (SubPhases \union Phases) = {} /\ SubPhases \intersect Phases = {}
  BY BidGridAssumption
<1>3. ~Repeats(i)'
  BY DEF Repeats
<1>4. ImportRuns(i)'
  BY AfterType DEF ImportRuns
<1>5. CASE pc[i] = "phases"
  <2>1. pc'[i] = "subphases"
    BY <1>5 DEF After
  <2> QED BY <1>1, <1>2, <1>3, <1>4, <1>5, <2>1
          DEF Makers, Assigners, NewTasks, NewAsgs, New, Known, Plan, StageNames
<1>6. CASE pc[i] = "subphases"
  <2>1. pc'[i] = "tasks" /\ plan[i].upserts = {}
    BY <1>6 DEF After, OrderInv, Ordered
  <2> QED BY <1>1, <1>2, <1>3, <1>4, <1>6, <2>1
          DEF Makers, Assigners, NewTasks, NewAsgs, New, Known, Plan, StageNames
<1>7. CASE pc[i] = "tasks"
  <2>1. pc'[i] = "assignments"
    BY <1>7 DEF After
  <2> QED BY <1>3, <1>4, <1>7, <2>1 DEF Makers, Assigners, NewTasks, NewAsgs, StageNames
<1>8. CASE pc[i] = "assignments"
  <2>1. pc'[i] \in {"price", "mark"}
    BY <1>8 DEF After
  <2> QED BY <1>3, <1>4, <1>8, <2>1 DEF Makers, Assigners, StageNames
<1> QED BY <1>5, <1>6, <1>7, <1>8 DEF AtBatch, StageNames

LEMMA Running ==
  /\ \A x : Makers(x) \subseteq Threads /\ Makers(x)' \subseteq Threads'
  /\ \A k : Assigners(k) \subseteq Threads /\ Assigners(k)' \subseteq Threads'
<1>1. Imports \subseteq Calcs
  BY Finite
<1>2. \A i \in Imports : pc[i] \in StageNames \union {"delete"} => ImportRuns(i)
  BY DEF ImportRuns, StageNames
<1>3. \A i \in Imports : pc'[i] \in StageNames \union {"delete"} => ImportRuns(i)'
  BY DEF ImportRuns, StageNames
<1>4. /\ \A x : Makers(x) \subseteq Threads
      /\ \A k : Assigners(k) \subseteq Threads
  BY <1>1, <1>2 DEF Makers, Assigners, Repeats, Threads, StageNames
<1>5. /\ \A x : Makers(x)' \subseteq Threads'
      /\ \A k : Assigners(k)' \subseteq Threads'
  BY <1>1, <1>3 DEF Makers, Assigners, Repeats, Threads, StageNames
<1> QED BY <1>4, <1>5

LEMMA SomeRunFacts ==
  /\ SomeRun \in {0, 1} /\ SomeRun' \in {0, 1}
  /\ \A i \in Imports : ImportRuns(i)' => SomeRun' = 1
BY DEF SomeRun

LEMMA PlusFacts == \A S, x : /\ Plus(S, x) \in {0, 1} /\ Plus(S, x) \in Nat
                             /\ x \in S <=> Plus(S, x) = 1
                             /\ x \notin S <=> Plus(S, x) = 0
BY DEF Plus

\* When there is a mark, a record that was not there is added at most once by
\* each thread.
LEMMA OwedFresh ==
  ASSUME Base, Base', Threads' \subseteq Threads, faults' >= faults, mark',
         NEW n \in Nat, NEW T \in SUBSET Threads', n + Cardinality(Threads) <= 1 + faults
  PROVE  n + Cardinality(T) <= 1 + faults'
<1>1. /\ Cardinality(T) \in Nat /\ Cardinality(T) <= Cardinality(Threads')
      /\ Cardinality(Threads') \in Nat
  BY Finite, CountSets, Fewer
<1>2. Cardinality(Threads) \in Nat /\ Cardinality(Threads') <= Cardinality(Threads)
  BY ThreadsFall
<1>3. faults \in Nat /\ faults' \in Nat
  BY Counts DEF CountTypes
<1> QED BY <1>1, <1>2, <1>3

LEMMA TriesStep ==
  ASSUME TriesInv, NEW i, OnlyOf(i),
         i \in Imports => (pc[i] \in {"idle", "compare", "delete", "price", "mark"} => attempt[i] = 1)'
  PROVE  TriesInv'
BY DEF TriesInv, OnlyOf

LEMMA CountStep ==
  ASSUME Base, Base', CountInv, NEW i \in Imports, ImportRuns(i), OnlyOf(i),
         Price(i) \/ UNCHANGED <<cpc, todo, cats>>, billing' = billing, Grows,
         faults' = faults \/ faults' = faults + 1,
         (pc[i] \in {"idle", "compare", "delete", "price", "mark"} => attempt[i] = 1)',
         MadeInv', AsgInv', NoneLost
  PROVE  CountInv'
<1>1. faults' >= faults
  BY Counts DEF CountTypes
<1>2. Threads' \subseteq Threads /\ ThreadInv' /\ BillInv'
  BY <1>1, RunStays DEF CountInv
<1>3. LostInv'
  BY LostStep DEF CountInv
<1>4. TriesInv'
  BY TriesStep DEF CountInv
<1> QED BY <1>2, <1>3, <1>4 DEF CountInv

\* A batch, done or refused in part.
LEMMA BatchCounts ==
  ASSUME Base, OrderInv, CountInv, NEW i \in Imports, PutDone(i) \/ PutPartly(i)
  PROVE  CountInv'
<1>b. Base' /\ OnlyOf(i) /\ billing' = billing /\ UNCHANGED <<cpc, todo, cats>> /\ ImpOK /\ ImpOK'
  <2>1. Base' /\ ImpOK /\ ImpOK'
    BY ImportBase, TypeParts DEF Import, Mishap, Base, Typed
  <2>2. UNCHANGED <<cpc, todo, cats>>
    BY DEF PutDone, PutPartly, batchSame, calcVars
  <2> QED BY <2>1, <2>2, ImportFrame DEF Import, Mishap
<1>1. /\ AtBatch(i) /\ UNCHANGED <<mark, late, grid, first, plan>>
      /\ pc'[i] = After(i) /\ attempt'[i] = 1
      /\ refused => refused'
  BY <1>b DEF PutDone, PutPartly, batchSame, ImpOK
<1>2. PICK no : /\ Put(i, no)
                /\ \/ no = {} /\ faults' = faults
                   \/ faults' = faults + 1
  <2>1. CASE PutDone(i)
    BY <2>1 DEF PutDone
  <2>2. CASE PutPartly(i)
    <3>1. PICK no : Put(i, no)
      BY <2>2 DEF PutPartly
    <3>2. faults' = faults + 1
      BY <2>2, PutPartlyType DEF Base
    <3> QED BY <3>1, <3>2
  <2> QED BY <2>1, <2>2
<1>3. /\ \A x \in ExtIds : made'[x] <= made[x] + Plus(NewTasks(i), x)
      /\ \A k \in Keys : OwnName(k[1]) => Len(asg'[k]) <= Len(asg[k]) + Plus(NewAsgs(i), k)
      /\ NoneLost
  BY <1>b, <1>1, <1>2, BatchAdds
<1>4. /\ \A x \in NewTasks(i) : i \in Makers(x)
      /\ \A k \in NewAsgs(i) : i \in Assigners(k)
  BY <1>1, BatchCounted
<1>5. /\ \A x : i \in Makers(x)' => i \in Makers(x) /\ x \notin NewTasks(i)
      /\ \A k : i \in Assigners(k)' => i \in Assigners(k) /\ k \notin NewAsgs(i)
      /\ ImportRuns(i)'
  BY <1>b, <1>1, BatchOver
<1>6. SomeRun' = 1
  BY <1>5, SomeRunFacts
<1>7. CountTypes /\ CountTypes'
  BY <1>b, Counts
<1>8. \A x \in ExtIds : Pays(i, made[x], Makers(x), made'[x], Makers(x)')
  <2> SUFFICES ASSUME NEW x \in ExtIds PROVE Pays(i, made[x], Makers(x), made'[x], Makers(x)')
    OBVIOUS
  <2>1. made[x] \in Nat /\ made'[x] \in Nat
    BY <1>7 DEF CountTypes
  <2>2. Plus(NewTasks(i), x) + Plus(Makers(x)', i) <= Plus(Makers(x), i)
    BY <1>4, <1>5, PlusFacts
  <2>3. made'[x] + Plus(Makers(x)', i) <= made[x] + Plus(Makers(x), i)
    BY <1>3, <2>1, <2>2, PlusFacts
  <2> QED BY <1>2, <1>6, <2>3 DEF Pays
<1>9. \A k \in Keys : OwnKey(k) => Pays(i, Len(asg[k]), Assigners(k), Len(asg'[k]), Assigners(k)')
  <2> SUFFICES ASSUME NEW k \in Keys, OwnName(k[1])
               PROVE  Pays(i, Len(asg[k]), Assigners(k), Len(asg'[k]), Assigners(k)')
    BY DEF OwnKey
  <2>1. Len(asg[k]) \in Nat /\ Len(asg'[k]) \in Nat
    BY <1>7 DEF CountTypes
  <2>2. Plus(NewAsgs(i), k) + Plus(Assigners(k)', i) <= Plus(Assigners(k), i)
    BY <1>4, <1>5, PlusFacts
  <2>3. Len(asg'[k]) + Plus(Assigners(k)', i) <= Len(asg[k]) + Plus(Assigners(k), i)
    BY <1>3, <2>1, <2>2, PlusFacts
  <2> QED BY <1>2, <1>6, <2>3 DEF Pays
<1>10. Grows
  BY <1>b, <1>1, <1>2, PutOrder
<1>12. MadeInv' /\ AsgInv'
  BY <1>b, <1>1, <1>8, <1>9, <1>10, MadeStep, AsgStep DEF CountInv
<1>13. ImportRuns(i)
  BY <1>1 DEF ImportRuns, AtBatch, StageNames
<1> QED BY <1>b, <1>1, <1>2, <1>3, <1>10, <1>12, <1>13, CountStep

\* A batch that is repeated, or the last attempt of it. add is whether SPP had
\* written it, a whether the import had repeated it before.
LEMMA PaysAgain ==
  ASSUME NEW i \in Imports, NEW n \in Nat, NEW m \in Nat, NEW S, NEW T, NEW A \in {0, 1},
         faults \in Nat, m <= n + A, A <= Plus(S, i),
         \/ A = 0 /\ faults' = faults /\ i \in S
         \/ faults' = faults + 1,
         \/ i \in T /\ ImportRuns(i)'
         \/ i \notin T
  PROVE  Pays(i, n, S, m, T)
<1>1. CASE i \in T
  <2>1. Plus(T, i) = 1 /\ SomeRun' = 1
    BY <1>1, PlusFacts, SomeRunFacts
  <2>2. CASE A = 0 /\ faults' = faults /\ i \in S
    <3>1. Plus(S, i) = 1
      BY <2>2, PlusFacts
    <3> QED BY <2>1, <2>2, <3>1 DEF Pays
  <2>3. CASE faults' = faults + 1
    <3>1. Plus(S, i) \in Nat
      BY PlusFacts
    <3> QED BY <2>1, <2>3, <3>1 DEF Pays
  <2> QED BY <2>2, <2>3
<1>2. CASE i \notin T
  <2>1. Plus(T, i) = 0
    BY <1>2, PlusFacts
  <2>2. CASE A = 0 /\ faults' = faults /\ i \in S
    <3>1. Plus(S, i) = 1
      BY <2>2, PlusFacts
    <3> QED BY <2>1, <2>2, <3>1 DEF Pays
  <2>3. CASE faults' = faults + 1
    <3>1. Plus(S, i) \in Nat
      BY PlusFacts
    <3> QED BY <2>1, <2>3, <3>1 DEF Pays
  <2> QED BY <2>2, <2>3
<1> QED BY <1>1, <1>2

LEMMA RepeatCounts ==
  ASSUME Base, OrderInv, CountInv, NEW i \in Imports, PutFails(i) \/ PutUnheard(i)
  PROVE  CountInv'
<1>b. Base' /\ OnlyOf(i) /\ billing' = billing /\ UNCHANGED <<cpc, todo, cats>> /\ ImpOK /\ ImpOK'
  <2>1. Base' /\ ImpOK /\ ImpOK'
    BY ImportBase, TypeParts DEF Mishap, Base, Typed
  <2>2. UNCHANGED <<cpc, todo, cats>>
    BY DEF PutFails, PutUnheard, batchSame, calcVars
  <2> QED BY <2>1, <2>2, ImportFrame DEF Mishap
<1>1. AtBatch(i) /\ UNCHANGED <<mark, late, grid, first, plan, refused>> /\ Again(i)
  BY DEF PutFails, PutUnheard, batchSame
<1>2. /\ attempt[i] \in Nat /\ attempt[i] >= 1 /\ pc[i] \in StageNames
      /\ \/ pc'[i] = pc[i] /\ attempt'[i] = attempt[i] + 1
         \/ pc'[i] = "dead"
  BY <1>b, <1>1, BidGridAssumption DEF Again, ImpOK, AtBatch
<1>3. CountTypes /\ CountTypes'
  BY <1>b, Counts
<1>4. faults' = faults \/ faults' = faults + 1
  BY PutFailsType, PutUnheardType DEF Base
<1>5. /\ faults' = faults => PutFails(i) /\ attempt[i] # 1
      /\ attempt[i] # 1 => /\ \A x : i \in Makers(x)
                           /\ \A k : i \in Assigners(k)
  <2>1. faults # faults + 1
    BY <1>3 DEF CountTypes
  <2>2. faults' = faults => PutFails(i) /\ attempt[i] # 1
    BY <2>1, PutFailsType, PutUnheardType DEF Base
  <2>3. attempt[i] # 1 => Repeats(i)
    BY <1>2 DEF Repeats, ImportRuns, StageNames
  <2> QED BY <2>2, <2>3 DEF Makers, Assigners
<1>6. \/ /\ \A x : i \in Makers(x)'
         /\ \A k : i \in Assigners(k)'
         /\ ImportRuns(i)'
      \/ /\ \A x : i \notin Makers(x)'
         /\ \A k : i \notin Assigners(k)'
  <2>1. CASE pc'[i] = pc[i] /\ attempt'[i] = attempt[i] + 1
    <3>1. Repeats(i)' /\ ImportRuns(i)'
      BY <1>2, <2>1 DEF Repeats, ImportRuns, StageNames
    <3> QED BY <3>1 DEF Makers, Assigners
  <2>2. CASE pc'[i] = "dead"
    BY <2>2 DEF Makers, Assigners, Repeats, ImportRuns, StageNames
  <2> QED BY <1>2, <2>1, <2>2
<1>7. /\ \A x \in NewTasks(i) : i \in Makers(x)
      /\ \A k \in NewAsgs(i) : i \in Assigners(k)
  BY <1>1, BatchCounted
\* What SPP wrote: nothing, or the batch.
<1> DEFINE A(S, x) == IF PutFails(i) THEN 0 ELSE Plus(S, x)
<1>8. /\ \A x \in ExtIds : made'[x] <= made[x] + A(NewTasks(i), x)
      /\ \A k \in Keys : OwnName(k[1]) => Len(asg'[k]) <= Len(asg[k]) + A(NewAsgs(i), k)
      /\ NoneLost /\ Grows
  <2>1. CASE PutFails(i)
    <3>1. UNCHANGED <<made, asg>>
      BY <2>1 DEF PutFails
    <3> QED BY <1>b, <1>1, <1>3, <2>1, <3>1, NothingMade DEF CountTypes, NoneLost
  <2>2. CASE ~PutFails(i)
    <3>1. Put(i, {})
      BY <2>2 DEF PutUnheard
    <3> QED BY <1>b, <1>1, <2>2, <3>1, BatchAdds, PutOrder
  <2> QED BY <2>1, <2>2
<1>9. /\ \A S, x : A(S, x) \in {0, 1}
      /\ \A x : A(NewTasks(i), x) <= Plus(Makers(x), i)
      /\ \A k : A(NewAsgs(i), k) <= Plus(Assigners(k), i)
      /\ PutFails(i) => \A S, x : A(S, x) = 0
  BY <1>7, PlusFacts
<1> HIDE DEF A
<1>10. MadeInv'
  <2>1. ASSUME NEW x \in ExtIds PROVE Pays(i, made[x], Makers(x), made'[x], Makers(x)')
    <3>1. made[x] \in Nat /\ made'[x] \in Nat /\ faults \in Nat
      BY <1>3 DEF CountTypes
    <3>2. \/ A(NewTasks(i), x) = 0 /\ faults' = faults /\ i \in Makers(x)
          \/ faults' = faults + 1
      BY <1>4, <1>5, <1>9
    <3>3. (i \in Makers(x)' /\ ImportRuns(i)') \/ i \notin Makers(x)'
      BY <1>6
    <3> QED BY <1>8, <1>9, <3>1, <3>2, <3>3, PaysAgain
  <2> QED BY <1>b, <1>1, <1>8, <2>1, MadeStep DEF CountInv
<1>11. AsgInv'
  <2>1. ASSUME NEW k \in Keys, OwnKey(k) PROVE Pays(i, Len(asg[k]), Assigners(k), Len(asg'[k]), Assigners(k)')
    <3>1. Len(asg[k]) \in Nat /\ Len(asg'[k]) \in Nat /\ faults \in Nat
      BY <1>3 DEF CountTypes
    <3>2. \/ A(NewAsgs(i), k) = 0 /\ faults' = faults /\ i \in Assigners(k)
          \/ faults' = faults + 1
      BY <1>4, <1>5, <1>9
    <3>3. (i \in Assigners(k)' /\ ImportRuns(i)') \/ i \notin Assigners(k)'
      BY <1>6
    <3>4. Len(asg'[k]) <= Len(asg[k]) + A(NewAsgs(i), k)
      BY <1>8, <2>1 DEF OwnKey
    <3> QED BY <1>9, <3>1, <3>2, <3>3, <3>4, PaysAgain
  <2> QED BY <1>b, <1>1, <2>1, AsgStep DEF CountInv
<1>13. ImportRuns(i)
  BY <1>2 DEF ImportRuns, StageNames
<1>14. (pc[i] \in {"idle", "compare", "delete", "price", "mark"} => attempt[i] = 1)'
  BY <1>2 DEF StageNames
<1> QED BY <1>b, <1>4, <1>8, <1>10, <1>11, <1>13, <1>14, CountStep

\* A step that adds no record, and plans none.
LEMMA CalmCounts ==
  ASSUME Base, Base', CountInv, NEW i \in Imports, ImportRuns(i), OnlyOf(i),
         Price(i) \/ UNCHANGED <<cpc, todo, cats>>, billing' = billing, made' = made,
         mark => mark', refused => refused', late \subseteq late',
         \/ faults' = faults /\ (mark' \/ ImportRuns(i)')
         \/ faults' = faults + 1,
         (pc[i] \in {"idle", "compare", "delete", "price", "mark"} => attempt[i] = 1)',
         \A k \in Keys : Len(asg'[k]) <= Len(asg[k]),
         \A x : i \in Makers(x)' => i \in Makers(x),
         \A k : i \in Assigners(k)' => i \in Assigners(k)
  PROVE  CountInv'
<1>1. CountTypes /\ CountTypes'
  BY Counts
<1>2. Grows
  BY NothingMade
<1>3. ASSUME NEW n \in Nat, NEW m \in Nat, NEW S, NEW T, m <= n, i \in T => i \in S
      PROVE  Pays(i, n, S, m, T)
  <2>1. Plus(S, i) \in Nat /\ Plus(T, i) \in Nat /\ Plus(T, i) <= Plus(S, i)
    BY <1>3, PlusFacts
  <2>2. m + Plus(T, i) <= n + Plus(S, i)
    BY <1>3, <2>1
  <2>3. \/ faults' = faults /\ (mark' \/ SomeRun' = 1)
        \/ faults' = faults + 1
    BY SomeRunFacts
  <2> QED BY <2>2, <2>3 DEF Pays
<1>4. MadeInv'
  <2>1. ASSUME NEW x \in ExtIds PROVE Pays(i, made[x], Makers(x), made'[x], Makers(x)')
    <3>1. made[x] \in Nat /\ made'[x] \in Nat /\ made'[x] <= made[x]
      BY <1>1 DEF CountTypes
    <3> QED BY <1>3, <3>1
  <2> QED BY <1>2, <2>1, MadeStep DEF CountInv
<1>5. AsgInv'
  <2>1. ASSUME NEW k \in Keys PROVE Pays(i, Len(asg[k]), Assigners(k), Len(asg'[k]), Assigners(k)')
    <3>1. Len(asg[k]) \in Nat /\ Len(asg'[k]) \in Nat /\ Len(asg'[k]) <= Len(asg[k])
      BY <1>1 DEF CountTypes
    <3> QED BY <1>3, <3>1
  <2> QED BY <2>1, AsgStep DEF CountInv
<1>6. NoneLost
  BY DEF NoneLost
<1> QED BY <1>2, <1>4, <1>5, <1>6, CountStep

\* An import that has no more to add.
LEMMA AddsNoMore ==
  ASSUME NEW i, \/ pc'[i] \in {"done", "dead"}
                \/ pc'[i] \in {"price", "mark"} /\ attempt'[i] = 1
  PROVE  /\ \A x : i \notin Makers(x)'
         /\ \A k : i \notin Assigners(k)'
BY DEF Makers, Assigners, Repeats, ImportRuns, StageNames

LEMMA OtherCounts ==
  ASSUME Base, OrderInv, CountInv, NEW i \in Imports,
         DeleteOne(i) \/ DeleteRefused(i) \/ Price(i) \/ Priced(i) \/ Mark(i)
           \/ MarkRefused(i) \/ Dies(i)
  PROVE  CountInv'
<1>b. Base' /\ OnlyOf(i) /\ billing' = billing /\ (mark => mark') /\ ImpOK
      /\ (Price(i) \/ UNCHANGED <<cpc, todo, cats>>)
  <2>1. Base' /\ ImpOK
    BY ImportBase, TypeParts DEF Import, Mishap, Base, Typed
  <2> QED BY <2>1, ImportFrame DEF Import, Mishap
<1>1. CountTypes
  BY Counts
<1>t. pc[i] \in {"idle", "compare", "delete", "price", "mark"} => attempt[i] = 1
  BY DEF CountInv, TriesInv
<1>2. CASE DeleteOne(i) \/ DeleteRefused(i)
  <2>1. /\ pc[i] = "delete" /\ UNCHANGED <<pc, attempt, made, mark, late>>
        /\ refused => refused'
        /\ plan'[i].tasks = plan[i].tasks /\ plan'[i].adds = plan[i].adds
        /\ plan'[i].upserts = plan[i].upserts
        /\ plan'[i].phases = plan[i].phases /\ plan'[i].subphases = plan[i].subphases
        /\ faults' = faults \/ faults' = faults + 1
    BY <1>2, DeleteOneFacts, DeleteRefusedFacts DEF Base, sppVars, ghosts
  <2>2. \A k \in Keys : Len(asg'[k]) <= Len(asg[k])
    <3>1. CASE DeleteOne(i)
      <4>1. \A k \in Keys : asg'[k] = asg[k] \/ Len(asg'[k]) = Len(asg[k]) - 1
        BY <3>1, DeleteOneFacts DEF Base
      <4> QED BY <1>1, <4>1 DEF CountTypes
    <3>2. CASE DeleteRefused(i)
      <4>1. asg' = asg
        BY <3>2, DeleteRefusedFacts DEF Base, sppVars
      <4> QED BY <1>1, <4>1 DEF CountTypes
    <3> QED BY <1>2, <3>1, <3>2
  <2>3. ImportRuns(i) /\ ImportRuns(i)'
    BY <2>1 DEF ImportRuns
  <2>4. /\ \A x : i \in Makers(x)' => i \in Makers(x)
        /\ \A k : i \in Assigners(k)' => i \in Assigners(k)
    BY <2>1, <2>3 DEF Makers, Assigners, Repeats
  <2> QED BY <1>b, <1>t, <2>1, <2>2, <2>3, <2>4, CalmCounts
<1>3. CASE Price(i)
  <2>1. pc[i] = "price" /\ UNCHANGED <<sppVars, impVars, ghosts>> /\ faults' = faults
    BY <1>3, PriceFacts DEF StartCalc
  <2>2. UNCHANGED <<pc, attempt, made, asg, mark, late, plan, refused>>
    BY <2>1 DEF sppVars, impVars, ghosts
  <2>3. ImportRuns(i) /\ ImportRuns(i)'
    BY <2>1, <2>2 DEF ImportRuns
  <2>4. /\ \A x : i \in Makers(x)' => i \in Makers(x)
        /\ \A k : i \in Assigners(k)' => i \in Assigners(k)
    BY <2>2, <2>3 DEF Makers, Assigners, Repeats
  <2>5. \A k \in Keys : Len(asg'[k]) <= Len(asg[k])
    BY <1>1, <2>2 DEF CountTypes
  <2> QED BY <1>b, <1>t, <2>1, <2>2, <2>3, <2>4, <2>5, CalmCounts
<1>4. CASE Priced(i) \/ Mark(i) \/ MarkRefused(i) \/ Dies(i)
  <2>1. /\ ImportRuns(i) /\ UNCHANGED <<made, asg, late, plan, attempt>>
        /\ refused => refused'
        /\ \/ pc'[i] \in {"done", "dead"}
           \/ pc[i] = "price" /\ pc'[i] = "mark"
    BY <1>b, <1>4 DEF Priced, Mark, MarkRefused, Dies, ImportRuns, ImpOK, sppVars, ghosts
  <2>2. /\ \A x : i \notin Makers(x)'
        /\ \A k : i \notin Assigners(k)'
    BY <1>t, <2>1, AddsNoMore
  <2>3. \/ faults' = faults /\ (mark' \/ ImportRuns(i)')
        \/ faults' = faults + 1
    <3>1. CASE Priced(i)
      BY <1>b, <3>1 DEF Priced, ImportRuns, ImpOK
    <3>2. CASE Mark(i)
      BY <3>2 DEF Mark
    <3>3. CASE MarkRefused(i) \/ Dies(i)
      BY <3>3, MarkRefusedType, DiesType DEF Base
    <3> QED BY <1>4, <3>1, <3>2, <3>3
  <2>4. \A k \in Keys : Len(asg'[k]) <= Len(asg[k])
    BY <1>1, <2>1 DEF CountTypes
  <2>5. (pc[i] \in {"idle", "compare", "delete", "price", "mark"} => attempt[i] = 1)'
    BY <1>t, <2>1
  <2> QED BY <1>b, <2>1, <2>2, <2>3, <2>4, <2>5, CalmCounts
<1> QED BY <1>2, <1>3, <1>4

\* What an update plans to add was not there when it looked.
LEMMA CompareCounts ==
  ASSUME Base, OrderInv, CountInv, NEW i \in Imports, Compare(i)
  PROVE  CountInv'
<1>b. Base' /\ OnlyOf(i) /\ billing' = billing /\ UNCHANGED <<cpc, todo, cats>> /\ ImpOK
  <2>1. Base' /\ ImpOK
    BY ImportBase, TypeParts DEF Import, Base, Typed
  <2>2. UNCHANGED <<cpc, todo, cats>>
    BY DEF Compare, calcVars
  <2> QED BY <2>1, <2>2, ImportFrame DEF Import
<1>1. /\ pc[i] = "compare" /\ pc'[i] = "delete" /\ attempt[i] = 1 /\ attempt' = attempt
      /\ UNCHANGED <<made, basis, asg, mark, refused, faults, grid>> /\ late \subseteq late'
  BY <1>b DEF Compare, sppVars, ImpOK, CountInv, TriesInv
<1>2. ImportRuns(i) /\ ImportRuns(i)' /\ mark /\ mark'
  BY <1>1 DEF ImportRuns, OrderInv, Ordered
<1>3. CountTypes /\ CountTypes'
  BY <1>b, Counts
<1>4. /\ grid[i] \in Grids
      /\ plan'[i].tasks = DOMAIN grid[i] \ DOMAIN ReadTasks /\ DOMAIN grid[i] \subseteq Units
      /\ DOMAIN plan'[i].adds = DOMAIN GridRows(grid[i]) \ DOMAIN ReadRows
  BY CompareType, ComparePlanFacts, GridFacts DEF Base
<1>5. faults' >= faults /\ Threads' \subseteq Threads
  BY <1>b, <1>1, <1>2, <1>3, RunStays DEF CountInv, CountTypes
<1>6. Grows
  BY <1>1, NothingMade
<1>7. ~Repeats(i) /\ ~Repeats(i)'
  BY <1>1 DEF Repeats
<1>8. MadeInv'
  <2> SUFFICES ASSUME NEW x \in ExtIds, ReadAlike(x) PROVE Owed(made[x], Makers(x))'
    BY DEF MadeInv, ReadAlike, ReadsAsItself
  <2>1. made[x] \in Nat /\ made'[x] = made[x] /\ faults \in Nat
    BY <1>1, <1>3 DEF CountTypes
  <2>2. CASE made[x] = 0
    <3>1. Makers(x)' \in SUBSET Threads'
      BY Running
    <3>2. Cardinality(Threads) <= 1 + faults
      BY DEF CountInv, ThreadInv
    <3>3. Cardinality(Threads) \in Nat
      BY <1>b, <1>5, ThreadsFall
    <3>4. made'[x] + Cardinality(Makers(x)') <= 1 + faults'
      BY <1>b, <1>2, <1>5, <2>1, <2>2, <3>1, <3>2, <3>3, OwedFresh
    <3> QED BY <1>2, <3>4 DEF Owed
  <2>3. CASE made[x] # 0
    <3>0. x \notin plan'[i].tasks
      <4>1. x \in Units => x \in DOMAIN ReadTasks
        BY <2>1, <2>3, ReadTasksFacts DEF ReadAlike
      <4> QED BY <1>4, <4>1
    <3>1. i \notin Makers(x)'
      BY <1>1, <1>7, <2>1, <2>3, <3>0 DEF Makers
    <3>2. Makers(x)' \in SUBSET Makers(x) /\ Makers(x) \in SUBSET Imports
      BY <1>b, <1>1, <3>1, OthersMake, CountSets
    <3>3. Cardinality(Makers(x)') <= Cardinality(Makers(x)) /\ Cardinality(Makers(x)') \in Nat
          /\ Cardinality(Makers(x)) \in Nat
      BY <3>2, Finite, Fewer
    <3>4. made[x] + Cardinality(Makers(x)) <= 1 + faults
      BY DEF CountInv, MadeInv, Owed
    <3>5. made'[x] + Cardinality(Makers(x)') <= 1 + faults'
      BY <1>1, <2>1, <3>3, <3>4
    <3> QED BY <1>2, <3>5 DEF Owed
  <2> QED BY <2>2, <2>3
<1>9. AsgInv'
  <2> SUFFICES ASSUME NEW k \in Keys, OwnKey(k) PROVE Owed(Len(asg[k]), Assigners(k))'
    BY DEF AsgInv, OwnKey, ReadsAsItself, OwnName
  <2>1. Len(asg[k]) \in Nat /\ asg'[k] = asg[k] /\ asg[k] \in Seq(Row) /\ faults \in Nat
    BY <1>1, <1>3 DEF CountTypes
  <2>t. Cardinality(Threads) \in Nat /\ Cardinality(Threads) <= 1 + faults
    BY <1>b, <1>5, ThreadsFall DEF CountInv, ThreadInv
  <2>f. Assigners(k)' \in SUBSET Threads'
    BY Running
  <2>2. CASE Len(asg[k]) + Cardinality(Threads) <= 1 + faults
    <3>1. Len(asg[k]) + Cardinality(Assigners(k)') <= 1 + faults'
      BY <1>b, <1>2, <1>5, <2>1, <2>2, <2>f, OwedFresh
    <3> QED BY <1>1, <1>2, <3>1 DEF Owed
  <2>4. CASE Len(asg[k]) = 0
    BY <2>2, <2>t, <2>4
  <2>5. CASE Len(asg[k]) # 0
    <3>1. made[k[1]] > 0
      <4>1. made[k[1]] # 0
        BY <2>5 DEF CountInv, LostInv
      <4> QED BY <1>3, <4>1, KeyUnit DEF CountTypes
    <3>2. k \in DOMAIN ReadRows
      <4>1. k \in Listed
        BY <2>5, <3>1 DEF Listed
      <4> QED BY <4>1, ReadRowsFacts DEF OwnKey
    <3>3. i \notin Assigners(k)'
      BY <1>1, <1>4, <1>7, <3>2 DEF Assigners
    <3>4. Assigners(k)' \in SUBSET Assigners(k) /\ Assigners(k) \in SUBSET Imports
      BY <1>b, <3>3, OthersCount, CountSets
    <3>5. Cardinality(Assigners(k)') <= Cardinality(Assigners(k)) /\ Cardinality(Assigners(k)') \in Nat
          /\ Cardinality(Assigners(k)) \in Nat
      BY <3>4, Finite, Fewer
    <3>6. Len(asg[k]) + Cardinality(Assigners(k)) <= 1 + faults
      BY DEF CountInv, AsgInv, Owed
    <3>7. Len(asg'[k]) + Cardinality(Assigners(k)') <= 1 + faults'
      BY <1>1, <2>1, <3>5, <3>6
    <3> QED BY <1>2, <3>7 DEF Owed
  <2> QED BY <2>4, <2>5
<1>10. NoneLost
  BY <1>1, <1>3 DEF NoneLost, CountTypes
<1> QED BY <1>b, <1>1, <1>2, <1>6, <1>8, <1>9, <1>10, CountStep

LEMMA LookUpCounts ==
  ASSUME Base, OrderInv, CountInv, NEW i \in Imports, LookUp(i)
  PROVE  CountInv'
<1>b. Base' /\ OnlyOf(i) /\ billing' = billing /\ UNCHANGED <<cpc, todo, cats>> /\ ImpOK
  <2>1. Base' /\ ImpOK
    BY ImportBase, TypeParts DEF Import, Base, Typed
  <2>2. UNCHANGED <<cpc, todo, cats>>
    BY DEF LookUp, calcVars
  <2> QED BY <2>1, <2>2, ImportFrame DEF Import
<1>1. /\ pc[i] = "delete" /\ pc'[i] = "tasks" /\ attempt[i] = 1 /\ attempt' = attempt
      /\ UNCHANGED <<made, asg, mark, refused, faults, late>>
  BY <1>b DEF LookUp, sppVars, ghosts, ImpOK, CountInv, TriesInv
<1>2. ImportRuns(i) /\ ImportRuns(i)' /\ mark /\ mark'
  BY <1>1 DEF ImportRuns, OrderInv, Ordered
<1>3. CountTypes /\ CountTypes'
  BY <1>b, Counts
<1>4. /\ plan'[i].tasks = plan[i].tasks /\ plan'[i].upserts = plan[i].upserts
      /\ DOMAIN plan'[i].adds = DOMAIN plan[i].adds \union NewRows(i)
  BY LookUpFacts DEF Base
<1>5. faults' >= faults /\ Threads' \subseteq Threads
  BY <1>b, <1>1, <1>2, <1>3, RunStays DEF CountInv, CountTypes
<1>6. Grows
  BY <1>1, NothingMade
<1>7. ~Repeats(i) /\ ~Repeats(i)'
  BY <1>1 DEF Repeats
<1>8. MadeInv'
  <2>1. ASSUME NEW x \in ExtIds PROVE Pays(i, made[x], Makers(x), made'[x], Makers(x)')
    <3>1. made[x] \in Nat /\ made'[x] = made[x]
      BY <1>1, <1>3 DEF CountTypes
    <3>2. i \in Makers(x)' => i \in Makers(x)
      BY <1>1, <1>4, <1>7 DEF Makers
    <3>3. Plus(Makers(x)', i) \in Nat /\ Plus(Makers(x), i) \in Nat
          /\ Plus(Makers(x)', i) <= Plus(Makers(x), i)
      BY <3>2, PlusFacts
    <3>4. made'[x] + Plus(Makers(x)', i) <= made[x] + Plus(Makers(x), i)
      BY <3>1, <3>3
    <3> QED BY <1>1, <1>2, <3>4 DEF Pays
  <2> QED BY <1>b, <1>1, <1>6, <2>1, MadeStep DEF CountInv
<1>9. AsgInv'
  <2> SUFFICES ASSUME NEW k \in Keys, OwnKey(k) PROVE Owed(Len(asg[k]), Assigners(k))'
    BY DEF AsgInv, OwnKey, ReadsAsItself, OwnName
  <2>1. Len(asg[k]) \in Nat /\ asg'[k] = asg[k] /\ faults \in Nat
    BY <1>1, <1>3 DEF CountTypes
  <2>2. CASE k \in NewRows(i)
    <3>1. AssignmentsFor(k) = {}
      BY <2>2 DEF NewRows
    <3>2. asg[k] = <<>>
      <4>1. CASE k[2] = NoRole
        <5>1. k \notin Assigned(k[1])
          BY <3>1, <4>1 DEF AssignmentsFor
        <5> QED BY <5>1 DEF Assigned
      <4>2. CASE k[2] # NoRole
        BY <3>1, <4>2 DEF AssignmentsFor
      <4> QED BY <4>1, <4>2
    <3>3. Len(asg[k]) = 0
      BY <3>2
    <3>4. Cardinality(Threads) \in Nat /\ Cardinality(Threads) <= 1 + faults
      BY <1>b, <1>5, ThreadsFall DEF CountInv, ThreadInv
    <3>5. Len(asg[k]) + Cardinality(Threads) <= 1 + faults
      BY <3>3, <3>4
    <3>6. Assigners(k)' \in SUBSET Threads'
      BY Running
    <3>7. Len(asg[k]) + Cardinality(Assigners(k)') <= 1 + faults'
      BY <1>b, <1>2, <1>5, <2>1, <3>5, <3>6, OwedFresh
    <3> QED BY <1>1, <1>2, <3>7 DEF Owed
  <2>3. CASE k \notin NewRows(i)
    <3>3. i \in Assigners(k)' => i \in Assigners(k)
      BY <1>1, <1>4, <1>7, <2>3 DEF Assigners
    <3>4. Assigners(k)' \in SUBSET Assigners(k) /\ Assigners(k) \in SUBSET Imports
      BY <1>b, <3>3, OthersCount, CountSets
    <3>5. Cardinality(Assigners(k)') <= Cardinality(Assigners(k)) /\ Cardinality(Assigners(k)') \in Nat
          /\ Cardinality(Assigners(k)) \in Nat
      BY <3>4, Finite, Fewer
    <3>6. Len(asg[k]) + Cardinality(Assigners(k)) <= 1 + faults
      BY DEF CountInv, AsgInv, Owed
    <3>7. Len(asg'[k]) + Cardinality(Assigners(k)') <= 1 + faults'
      BY <1>1, <2>1, <3>5, <3>6
    <3> QED BY <1>2, <3>7 DEF Owed
  <2> QED BY <2>2, <2>3
<1>10. NoneLost
  BY <1>1, <1>3 DEF NoneLost, CountTypes
<1> QED BY <1>b, <1>1, <1>2, <1>6, <1>8, <1>9, <1>10, CountStep

\* Whoever begins is alone, or a fault has paid for the overlap.
LEMMA NewThread ==
  ASSUME Base, Base', ThreadInv, MayOverlap, NEW t \in Calcs, Threads' \subseteq Threads \union {t}
  PROVE  /\ ThreadInv' /\ Cardinality(Threads) \in Nat /\ Cardinality(Threads') \in Nat
         /\ \/ Quiet /\ faults' = faults /\ Cardinality(Threads') <= 1
            \/ faults' = faults + 1 /\ Cardinality(Threads') <= Cardinality(Threads) + 1
<1>1. /\ IsFiniteSet(Threads) /\ IsFiniteSet(Threads')
      /\ Cardinality(Threads) \in Nat /\ Cardinality(Threads') \in Nat
  BY Finite, CountSets, FS_Subset, FS_CardinalityType
<1>2. Cardinality(Threads') <= Cardinality(Threads) + 1
  <2>1. /\ IsFiniteSet(Threads \union {t})
        /\ Cardinality(Threads \union {t}) \in Nat
        /\ Cardinality(Threads \union {t}) <= Cardinality(Threads) + 1
    <3>1. /\ IsFiniteSet(Threads \union {t})
          /\ Cardinality(Threads \union {t}) =
               IF t \in Threads THEN Cardinality(Threads) ELSE Cardinality(Threads) + 1
      BY <1>1, FS_AddElement
    <3>2. Cardinality(Threads \union {t}) \in Nat
      BY <3>1, FS_CardinalityType
    <3> QED BY <1>1, <3>1, <3>2
  <2>2. Cardinality(Threads') <= Cardinality(Threads \union {t})
    BY <2>1, FS_Subset
  <2> QED BY <1>1, <2>1, <2>2
<1>3. faults \in Nat /\ faults' \in Nat /\ Cardinality(Threads) <= 1 + faults
  BY Counts DEF CountTypes, ThreadInv
<1>4. CASE Quiet
  <2>1. Threads = {} /\ faults' = faults
    BY <1>4, Finite DEF Quiet, Threads, MayOverlap
  <2>2. Cardinality(Threads) = 0
    BY <2>1, FS_EmptySet
  <2> QED BY <1>1, <1>2, <1>3, <1>4, <2>1, <2>2 DEF ThreadInv
<1>5. CASE ~Quiet
  <2>1. faults' = faults + 1
    BY <1>5 DEF MayOverlap, Fault
  <2> QED BY <1>1, <1>2, <1>3, <2>1 DEF ThreadInv
<1> QED BY <1>4, <1>5

LEMMA BeginCounts ==
  ASSUME Base, CountInv, NEW i \in Imports, NEW g \in Grids, Begin(i, g)
  PROVE  CountInv'
<1>b. Base' /\ OnlyOf(i) /\ ImpOK
  BY ImportBase, ImportFrame, TypeParts DEF Base, Typed
<1>1. /\ pc[i] = "idle" /\ attempt[i] = 1 /\ attempt' = attempt /\ MayOverlap
      /\ UNCHANGED <<made, asg, billing, mark, cpc, todo, cats>>
  BY DEF Begin, sppVars, calcVars, CountInv, TriesInv
<1>2. /\ mark => pc'[i] = "compare"
      /\ ~mark => pc'[i] = "phases" /\ ImportRuns(i)'
  BY <1>b DEF Begin, ImpOK, ImportRuns
<1>3. CountTypes /\ CountTypes'
  BY <1>b, Counts
<1>4. Threads' \subseteq Threads \union {i} /\ i \in Calcs
  BY <1>b, <1>1, Finite DEF Threads, OnlyOf, ImportRuns, CalcRuns
<1>5. /\ ThreadInv' /\ Cardinality(Threads) \in Nat /\ Cardinality(Threads') \in Nat
      /\ \/ Quiet /\ faults' = faults /\ Cardinality(Threads') <= 1
         \/ faults' = faults + 1 /\ Cardinality(Threads') <= Cardinality(Threads) + 1
  BY <1>b, <1>1, <1>4, NewThread DEF CountInv
<1>6. faults' >= faults
  BY <1>3, <1>5 DEF CountTypes
<1>7. LostInv'
  <2>1. Grows /\ NoneLost
    BY <1>1, <1>3 DEF Begin, ghosts, Grows, NoneLost, CountTypes
  <2> QED BY <1>b, <2>1, LostStep DEF CountInv
<1>8. BillInv'
  <2>1. \A u \in Units, t \in Categories :
          RuleAdders(u)' \subseteq RuleAdders(u) /\ RateAdders(u, t)' \subseteq RateAdders(u, t)
    BY <1>1 DEF RuleAdders, RateAdders, Task, Category
  <2> QED BY <1>b, <1>1, <1>6, <2>1, BillStays DEF CountInv
<1>9. TriesInv'
  BY <1>b, <1>1, TriesStep DEF CountInv
\* A count that import i may join, when there is no mark.
<1>10. ASSUME NEW n \in Nat, NEW S \in SUBSET Imports, NEW T \in SUBSET Imports, Owed(n, S),
              \A j \in Imports : j # i => (j \in S <=> j \in T),
              i \notin S, mark => i \notin T, Quiet => S = {}
       PROVE  /\ n + Cardinality(T) <= 1 + faults'
              /\ ~mark' => n + Cardinality(T) <= faults' + SomeRun'
  <2>1. /\ Cardinality(S) \in Nat /\ Cardinality(T) \in Nat
        /\ Cardinality(T) + Plus(S, i) = Cardinality(S) + Plus(T, i)
        /\ S = {} => Cardinality(S) = 0
    BY <1>10, Finite, SetStep
  <2>2. Plus(S, i) = 0 /\ Plus(T, i) \in Nat /\ Plus(T, i) <= 1
    BY <1>10, PlusFacts
  <2>3. Cardinality(T) <= Cardinality(S) + 1 /\ (mark => Cardinality(T) = Cardinality(S))
    BY <1>10, <2>1, <2>2, PlusFacts
  <2>4. faults \in Nat /\ faults' \in Nat /\ n + Cardinality(S) <= 1 + faults
        /\ (~mark => n + Cardinality(S) <= faults + SomeRun)
    BY <1>3, <1>10 DEF CountTypes, Owed
  <2>5. CASE mark
    BY <1>1, <1>6, <2>1, <2>3, <2>4, <2>5
  <2>6. CASE ~mark
    <3>1. SomeRun' = 1
      BY <1>2, <2>6, SomeRunFacts
    <3>2. n + Cardinality(T) <= 1 + faults'
      <4>1. CASE Quiet
        <5>1. SomeRun = 0 /\ Cardinality(S) = 0
          BY <1>10, <2>1, <4>1 DEF SomeRun, Quiet
        <5> QED BY <1>6, <2>1, <2>3, <2>4, <2>6, <5>1
      <4>2. CASE ~Quiet
        <5>1. faults' = faults + 1
          BY <1>5, <4>2
        <5> QED BY <2>1, <2>3, <2>4, <5>1
      <4> QED BY <4>1, <4>2
    <3> QED BY <2>1, <2>4, <3>1, <3>2
  <2> QED BY <2>5, <2>6
<1>11. MadeInv'
  <2> SUFFICES ASSUME NEW x \in ExtIds, ReadAlike(x) PROVE Owed(made[x], Makers(x))'
    BY DEF MadeInv, ReadAlike, ReadsAsItself
  <2>1. made[x] \in Nat /\ made'[x] = made[x] /\ Owed(made[x], Makers(x))
    BY <1>1, <1>3 DEF CountTypes, CountInv, MadeInv
  <2>2. i \notin Makers(x) /\ (mark => i \notin Makers(x)')
    BY <1>1, <1>2 DEF Makers, Repeats
  <2>3. Quiet => Makers(x) = {}
    BY DEF Quiet, Makers, Repeats, ImportRuns
  <2> QED BY <1>b, <1>1, <1>10, <2>1, <2>2, <2>3, CountSets, OthersMake DEF Owed
<1>12. AsgInv'
  <2> SUFFICES ASSUME NEW k \in Keys, OwnKey(k) PROVE Owed(Len(asg[k]), Assigners(k))'
    BY DEF AsgInv, OwnKey, ReadsAsItself, OwnName
  <2>1. Len(asg[k]) \in Nat /\ asg'[k] = asg[k] /\ Owed(Len(asg[k]), Assigners(k))
    BY <1>1, <1>3 DEF CountTypes, CountInv, AsgInv
  <2>2. i \notin Assigners(k) /\ (mark => i \notin Assigners(k)')
    BY <1>1, <1>2 DEF Assigners, Repeats, StageNames
  <2>3. Quiet => Assigners(k) = {}
    BY DEF Quiet, Assigners, Repeats, ImportRuns, StageNames
  <2> QED BY <1>b, <1>10, <2>1, <2>2, <2>3, CountSets, OthersCount DEF Owed
<1> QED BY <1>5, <1>7, <1>8, <1>9, <1>11, <1>12 DEF CountInv

LEMMA RunStaysSame == pc' = pc => SomeRun' = SomeRun
<1> SUFFICES ASSUME pc' = pc PROVE SomeRun' = SomeRun
  OBVIOUS
<1>1. \A i : ImportRuns(i)' <=> ImportRuns(i)
  BY DEF ImportRuns
<1>2. (\E i \in Imports : ImportRuns(i)') <=> (\E i \in Imports : ImportRuns(i))
  BY <1>1
<1> QED BY <1>2 DEF SomeRun

\* Pricing adds no task and no assignment.
LEMMA PricingCounts ==
  ASSUME Base, Base', CountInv, UNCHANGED <<made, asg, mark, plan, attempt>>,
         \/ UNCHANGED pc /\ faults' >= faults
         \/ faults' = faults + 1 /\ \A i \in Imports : pc'[i] \in {pc[i], "dead"}
  PROVE  MadeInv' /\ AsgInv' /\ LostInv' /\ TriesInv'
<1>1. CountTypes /\ CountTypes'
  BY Counts
<1>2. \A i \in Imports : pc'[i] \in {pc[i], "dead"}
  OBVIOUS
<1>3. /\ \A x : Makers(x)' \subseteq Makers(x)
      /\ \A k : Assigners(k)' \subseteq Assigners(k)
  BY <1>2 DEF Makers, Assigners, Repeats, ImportRuns, StageNames
<1>4. /\ faults \in Nat /\ faults' \in Nat
      /\ \/ faults' >= faults /\ SomeRun' = SomeRun
         \/ faults' = faults + 1
  <2>1. pc' = pc => SomeRun' = SomeRun
    BY RunStaysSame
  <2>2. faults \in Nat /\ faults' \in Nat
    BY <1>1 DEF CountTypes
  <2> QED BY <2>1, <2>2
<1>5. ASSUME NEW n \in Nat, NEW S \in SUBSET Imports, NEW T \in SUBSET S, Owed(n, S)
      PROVE  /\ n + Cardinality(T) <= 1 + faults'
             /\ ~mark' => n + Cardinality(T) <= faults' + SomeRun'
  <2>1. Cardinality(S) \in Nat /\ Cardinality(T) \in Nat /\ Cardinality(T) <= Cardinality(S)
    BY Finite, Fewer
  <2>2. SomeRun \in Nat /\ SomeRun' \in Nat /\ SomeRun <= 1
    BY SomeRunFacts
  <2>3. /\ n + Cardinality(S) <= 1 + faults
        /\ ~mark => n + Cardinality(S) <= faults + SomeRun
    BY <1>5 DEF Owed
  <2> QED BY <1>4, <2>1, <2>2, <2>3
<1>6. MadeInv'
  <2> SUFFICES ASSUME NEW x \in ExtIds, ReadAlike(x) PROVE Owed(made[x], Makers(x))'
    BY DEF MadeInv, ReadAlike, ReadsAsItself
  <2>1. made[x] \in Nat /\ made'[x] = made[x] /\ Owed(made[x], Makers(x))
    BY <1>1 DEF CountTypes, CountInv, MadeInv
  <2> QED BY <1>3, <1>5, <2>1, CountSets DEF Owed
<1>7. AsgInv'
  <2> SUFFICES ASSUME NEW k \in Keys, OwnKey(k) PROVE Owed(Len(asg[k]), Assigners(k))'
    BY DEF AsgInv, OwnKey, ReadsAsItself, OwnName
  <2>1. Len(asg[k]) \in Nat /\ asg'[k] = asg[k] /\ Owed(Len(asg[k]), Assigners(k))
    BY <1>1 DEF CountTypes, CountInv, AsgInv
  <2> QED BY <1>3, <1>5, <2>1, CountSets DEF Owed
<1>8. TriesInv'
  BY <1>2 DEF CountInv, TriesInv
<1>9. LostInv'
  BY DEF CountInv, LostInv
<1> QED BY <1>6, <1>7, <1>8, <1>9

LEMMA RecalculateCounts ==
  ASSUME Base, CountInv, NEW c \in Calcs, Recalculate(c)
  PROVE  CountInv'
<1>b. Base' /\ StartCalc(c) /\ MayOverlap /\ c \notin Imports /\ cpc[c] = "idle"
  BY RecalculateFacts
<1>1. /\ UNCHANGED <<made, asg, mark, plan, attempt, pc, billing>>
      /\ \A d \in Calcs : d # c => cpc'[d] = cpc[d] /\ todo'[d] = todo[d] /\ cats'[d] = cats[d]
      /\ cpc'[c] = "total"
  BY <1>b DEF StartCalc, sppVars, impVars, Base, Typed, TypeOK
<1>2. Threads' \subseteq Threads \union {c}
  BY <1>1 DEF Threads, ImportRuns, CalcRuns
<1>3. /\ ThreadInv' /\ Cardinality(Threads) \in Nat /\ Cardinality(Threads') \in Nat
      /\ \/ Quiet /\ faults' = faults /\ Cardinality(Threads') <= 1
         \/ faults' = faults + 1 /\ Cardinality(Threads') <= Cardinality(Threads) + 1
  BY <1>b, <1>2, NewThread DEF CountInv
<1>4. faults' >= faults
  BY <1>3, Counts DEF CountTypes
<1>5. MadeInv' /\ AsgInv' /\ LostInv' /\ TriesInv'
  BY <1>b, <1>1, <1>4, PricingCounts
<1>7. BillInv'
  <2>1. \A d \in Calcs : d # c => Task(d)' = Task(d) /\ Category(d)' = Category(d)
    BY <1>1 DEF Task, Category
  <2>2. \A u \in Units, t \in Categories :
          RuleAdders(u)' \subseteq RuleAdders(u) /\ RateAdders(u, t)' \subseteq RateAdders(u, t)
    BY <1>1, <2>1 DEF RuleAdders, RateAdders
  <2> QED BY <1>b, <1>1, <1>4, <2>2, BillStays DEF CountInv
<1> QED BY <1>3, <1>5, <1>7 DEF CountInv

\* What pricing run c adds under a task: it had been counted, a fault has paid
\* for it, or there was nothing.
Billed(c, n, S, m, T) ==
  \/ m = 0
  \/ m + Plus(T, c) + faults <= n + Plus(S, c) + faults'

BillPaid(c) ==
  \A u \in Units, t \in Categories :
    /\ Billed(c, billing[u].rules, RuleAdders(u), billing'[u].rules, RuleAdders(u)')
    /\ Billed(c, billing[u].rates[t], RateAdders(u, t), billing'[u].rates[t], RateAdders(u, t)')

LEMMA BilledStep ==
  ASSUME Base, Base', ThreadInv', NEW c, NEW n \in Nat, NEW m \in Nat,
         NEW S \in SUBSET Calcs, NEW T \in SUBSET Threads',
         \A d \in Calcs : d # c => (d \in S <=> d \in T),
         Billed(c, n, S, m, T), n + Cardinality(S) <= 1 + faults
  PROVE  m + Cardinality(T) <= 1 + faults'
<1>1. faults \in Nat /\ faults' \in Nat /\ Threads' \in SUBSET Calcs
  BY Counts, CountSets DEF CountTypes
<1>2. CASE m = 0
  <2>1. Cardinality(T) \in Nat /\ Cardinality(Threads') \in Nat /\ Cardinality(T) <= Cardinality(Threads')
    BY <1>1, Finite, Fewer
  <2>2. Cardinality(Threads') <= 1 + faults'
    BY DEF ThreadInv
  <2> QED BY <1>1, <1>2, <2>1, <2>2
<1>3. CASE m + Plus(T, c) + faults <= n + Plus(S, c) + faults'
  <2>1. /\ Cardinality(S) \in Nat /\ Cardinality(T) \in Nat
        /\ Cardinality(T) + Plus(S, c) = Cardinality(S) + Plus(T, c)
    BY <1>1, Finite, SetStep
  <2>2. Plus(S, c) \in Nat /\ Plus(T, c) \in Nat
    BY PlusFacts
  <2> QED BY <1>1, <1>3, <2>1, <2>2
<1> QED BY <1>2, <1>3 DEF Billed

LEMMA NoLess == \A r, a, f, g \in Nat : g >= f => r + f <= r + a + g
OBVIOUS

\* One more uprate.
LEMMA MoreRates ==
  ASSUME billing \in [Units -> Billing], NEW v, NEW w, NEW u \in Units, NEW t \in Categories,
         billing' = [billing EXCEPT ![v].rates[w] = @ + 1]
  PROVE  /\ billing'[u].rules = billing[u].rules
         /\ u = v /\ t = w => billing'[u].rates[t] = billing[u].rates[t] + 1
         /\ ~(u = v /\ t = w) => billing'[u].rates[t] = billing[u].rates[t]
<1> DEFINE r == [billing[v].rates EXCEPT ![w] = @ + 1]
           b == [billing[v] EXCEPT !.rates = r]
<1>1. billing' = [billing EXCEPT ![v] = b]
  OBVIOUS
<1>2. billing[u] \in Billing /\ billing[u].rates \in [Categories -> Nat]
  BY DEF Billing
<1>3. CASE u = v
  <2>1. r[t] = IF t = w THEN billing[u].rates[t] + 1 ELSE billing[u].rates[t]
    BY <1>2, <1>3
  <2> HIDE DEF r
  <2>2. b.rates = r /\ b.rules = billing[u].rules
    BY <1>2, <1>3 DEF Billing
  <2> HIDE DEF b
  <2>3. billing'[u] = b
    BY <1>1, <1>3
  <2> QED BY <1>3, <2>1, <2>2, <2>3
<1>4. CASE u # v
  <2> HIDE DEF b
  <2> QED BY <1>1, <1>4
<1> QED BY <1>3, <1>4

LEMMA CalcPays ==
  ASSUME Base, NEW c \in Calcs, Calc(c)
  PROVE  BillPaid(c)
<1>b. Base'
  BY CalcBase
<1>1. CountTypes /\ CountTypes'
  BY <1>b, Counts
<1>2. CalcOK /\ CalcOK' /\ SppOK
  BY <1>b, TypeParts DEF Base, Typed
<1>b2. billing \in [Units -> Billing]
  BY <1>2 DEF SppOK, Billing
<1>3. \A S : Plus(S, c) \in Nat /\ Plus(S, c) <= 1
  BY PlusFacts
<1> SUFFICES ASSUME NEW u \in Units, NEW t \in Categories
             PROVE  /\ Billed(c, billing[u].rules, RuleAdders(u), billing'[u].rules, RuleAdders(u)')
                    /\ Billed(c, billing[u].rates[t], RateAdders(u, t),
                              billing'[u].rates[t], RateAdders(u, t)')
  BY DEF BillPaid
<1> DEFINE r == billing[u].rules
           s == billing[u].rates[t]
           R == billing'[u].rules
           S == billing'[u].rates[t]
           a == Plus(RuleAdders(u), c)
           b == Plus(RateAdders(u, t), c)
           A == Plus(RuleAdders(u)', c)
           B == Plus(RateAdders(u, t)', c)
<1>4. /\ r \in Nat /\ s \in Nat /\ R \in Nat /\ S \in Nat /\ faults \in Nat /\ faults' \in Nat
      /\ a \in {0, 1} /\ b \in {0, 1} /\ A \in {0, 1} /\ B \in {0, 1}
  BY <1>1, PlusFacts DEF CountTypes
<1>5. /\ a = 1 <=> cpc[c] = "addrule" /\ Task(c) = u
      /\ b = 1 <=> cpc[c] = "addrate" /\ Task(c) = u /\ Category(c) = t
      /\ A = 1 <=> cpc'[c] = "addrule" /\ Task(c)' = u
      /\ B = 1 <=> cpc'[c] = "addrate" /\ Task(c)' = u /\ Category(c)' = t
  BY PlusFacts DEF RuleAdders, RateAdders
<1> SUFFICES /\ R = 0 \/ R + A + faults <= r + a + faults'
             /\ S = 0 \/ S + B + faults <= s + b + faults'
  BY DEF Billed
<1> HIDE DEF a, b, A, B
<1>6. CASE UNCHANGED billing /\ cpc'[c] \notin {"addrule", "addrate"} /\ faults' >= faults
  <2>1. R = r /\ S = s /\ A = 0 /\ B = 0
    BY <1>4, <1>5, <1>6
  <2>2. faults' >= faults
    BY <1>6
  <2>3. a \in Nat /\ b \in Nat
    BY <1>4
  <2>4. r \in Nat /\ s \in Nat /\ faults \in Nat /\ faults' \in Nat
    BY <1>4
  <2> HIDE DEF r, s, R, S
  <2>5. R + A + faults <= r + a + faults'
    <3>1. R + A + faults = r + faults
      BY <2>1, <2>4
    <3>2. r + faults <= r + a + faults'
      BY <2>2, <2>3, <2>4, NoLess
    <3> QED BY <3>1, <3>2
  <2>6. S + B + faults <= s + b + faults'
    <3>1. S + B + faults = s + faults
      BY <2>1, <2>4
    <3>2. s + faults <= s + b + faults'
      BY <2>2, <2>3, <2>4, NoLess
    <3> QED BY <3>1, <3>2
  <2> QED BY <2>5, <2>6
<1>7. CASE Totals(c)
  BY <1>2, <1>4, <1>6, <1>7 DEF Totals, CalcOK
<1>8. CASE FindRule(c)
  <2>1. /\ billing' = billing /\ cpc'[c] \in {"addrule", "rate"} /\ faults' = faults
        /\ Task(c)' = Task(c)
        /\ cpc'[c] = "addrule" => billing[Task(c)].rules = 0
    BY <1>2, <1>8 DEF FindRule, CalcOK, Task
  <2>2. R = r /\ S = s /\ B = 0 /\ (A = 1 => r = 0)
    BY <1>4, <1>5, <2>1
  <2> HIDE DEF r, s, R, S
  <2> QED BY <1>4, <2>1, <2>2
<1>9. CASE AddRule(c) \/ AddRuleUnheard(c)
  <2>1. /\ cpc[c] = "addrule" /\ billing' = [billing EXCEPT ![Task(c)].rules = @ + 1]
        /\ \/ cpc'[c] = "rate" /\ faults' = faults
           \/ cpc' = cpc /\ todo' = todo /\ faults' = faults + 1
    BY <1>2, <1>9 DEF AddRule, AddRuleUnheard, Fault, CalcOK
  <2>2. S = s /\ (u = Task(c) => R = r + 1) /\ (u # Task(c) => R = r)
    BY <1>2, <2>1 DEF SppOK, Billing
  <2>3. CASE cpc'[c] = "rate" /\ faults' = faults
    <3>1. A = 0 /\ B = 0 /\ (u = Task(c) => a = 1)
      BY <1>4, <1>5, <2>1, <2>3
    <3> HIDE DEF r, s, R, S
    <3> QED BY <1>4, <2>2, <2>3, <3>1
  <2>4. CASE cpc' = cpc /\ todo' = todo /\ faults' = faults + 1
    <3>1. A = a /\ B = b
      <4>1. Task(c)' = Task(c) /\ Category(c)' = Category(c)
        BY <1>9, <2>4 DEF Task, Category, AddRule, AddRuleUnheard, calcSame
      <4> QED BY <1>4, <1>5, <2>4, <4>1
    <3> HIDE DEF r, s, R, S
    <3> QED BY <1>4, <2>2, <2>4, <3>1
  <2> QED BY <2>1, <2>3, <2>4
<1>10. CASE FindRate(c)
  <2>1. /\ billing' = billing /\ cpc'[c] = "addrate" /\ faults' = faults
        /\ Task(c)' = Task(c) /\ Category(c)' = Category(c)
        /\ billing[Task(c)].rates[Category(c)] = 0
    BY <1>2, <1>10 DEF FindRate, CalcOK, Task, Category, calcSame
  <2>2. R = r /\ S = s /\ A = 0 /\ (B = 1 => s = 0)
    BY <1>4, <1>5, <2>1
  <2> HIDE DEF r, s, R, S
  <2> QED BY <1>4, <2>1, <2>2
<1>11. CASE AddRateUnheard(c)
  <2>1. /\ cpc[c] = "addrate" /\ billing' = [billing EXCEPT ![Task(c)].rates[Category(c)] = @ + 1]
        /\ cpc' = cpc /\ faults' = faults + 1
        /\ Task(c)' = Task(c) /\ Category(c)' = Category(c)
    BY <1>11 DEF AddRateUnheard, Fault, Task, Category, calcSame
  <2>2. R = r /\ (S = s \/ S = s + 1)
    BY <1>b2, <2>1, MoreRates
  <2>3. A = a /\ B = b
    BY <1>4, <1>5, <2>1
  <2> HIDE DEF r, s, R, S
  <2> QED BY <1>4, <2>1, <2>2, <2>3
<1>12. CASE PutRate(c)
  <2>1. cpc'[c] = "total" /\ faults' = faults
    BY <1>2, <1>12 DEF PutRate, CalcOK
  <2>2. CASE UNCHANGED billing
    BY <1>4, <1>6, <2>1, <2>2
  <2>3. CASE cpc[c] = "addrate" /\ billing' = [billing EXCEPT ![Task(c)].rates[Category(c)] = @ + 1]
    <3> DEFINE here == u = Task(c) /\ t = Category(c)
    <3>1. R = r /\ (here => S = s + 1) /\ (~here => S = s)
      <4>1. PICK v, w : v = Task(c) /\ w = Category(c)
        OBVIOUS
      <4>2. billing' = [billing EXCEPT ![v].rates[w] = @ + 1]
        BY <2>3, <4>1
      <4>3. R = r
        BY <1>b2, <4>2, MoreRates
      <4>4. ASSUME u = v, t = w PROVE S = s + 1
        BY <1>b2, <4>2, <4>4, MoreRates, ZenonT(60)
      <4>5. ASSUME ~(u = v /\ t = w) PROVE S = s
        BY <1>b2, <4>2, <4>5, MoreRates
      <4> HIDE DEF r, s, R, S
      <4> QED BY <4>1, <4>3, <4>4, <4>5
    <3>2. A = 0 /\ B = 0 /\ (here => b = 1)
      BY <1>4, <1>5, <2>1, <2>3
    <3> HIDE DEF r, s, R, S, here
    <3> QED BY <1>4, <2>1, <3>1, <3>2
  <2> QED BY <1>12, <2>2, <2>3 DEF PutRate
<1>13. CASE TaskFails(c) \/ CalcDies(c)
  <2>1. billing' = billing /\ cpc'[c] \in {"total", "done"} /\ faults' = faults + 1
    BY <1>2, <1>13 DEF TaskFails, CalcDies, Fault, CalcOK, sppVars
  <2> QED BY <1>4, <1>6, <2>1
<1> QED BY <1>7, <1>8, <1>9, <1>10, <1>11, <1>12, <1>13 DEF Calc

LEMMA CalcCounts ==
  ASSUME Base, CountInv, NEW c \in Calcs, Calc(c)
  PROVE  CountInv'
<1>b. Base' /\ CalcFrame(c) /\ CalcRuns(c)
      /\ (\/ faults' = faults /\ UNCHANGED pc
          \/ faults' = faults + 1)
  BY CalcBase, CalcFacts DEF Base
<1>1. CountTypes /\ CountTypes'
  BY <1>b, Counts
<1>2. /\ UNCHANGED <<made, asg, mark, plan, attempt>>
      /\ \A i \in Imports : pc'[i] \in {pc[i], "dead"}
      /\ \A d \in Calcs : d # c => cpc'[d] = cpc[d] /\ todo'[d] = todo[d]
      /\ cats' = cats
  BY <1>b DEF CalcFrame
<1>3. \/ UNCHANGED pc /\ faults' >= faults
      \/ faults' = faults + 1
  BY <1>b, <1>1 DEF CountTypes
<1>4. faults' >= faults
  BY <1>1, <1>3 DEF CountTypes
<1>5. MadeInv' /\ AsgInv' /\ LostInv' /\ TriesInv'
  BY <1>b, <1>2, <1>3, PricingCounts
<1>6. Threads' \subseteq Threads
  BY <1>b, <1>2 DEF Threads, ImportRuns, CalcRuns
<1>7. /\ Cardinality(Threads) \in Nat /\ Cardinality(Threads') \in Nat
      /\ Cardinality(Threads') <= Cardinality(Threads)
  BY <1>b, <1>6, ThreadsFall
<1>8. ThreadInv'
  BY <1>1, <1>4, <1>7 DEF ThreadInv, CountInv, CountTypes
<1>10. BillInv'
  <2> SUFFICES ASSUME NEW u \in Units, NEW t \in Categories
               PROVE  /\ billing'[u].rules + Cardinality(RuleAdders(u)') <= 1 + faults'
                      /\ billing'[u].rates[t] + Cardinality(RateAdders(u, t)') <= 1 + faults'
    BY DEF BillInv
  <2>1. /\ Billed(c, billing[u].rules, RuleAdders(u), billing'[u].rules, RuleAdders(u)')
        /\ Billed(c, billing[u].rates[t], RateAdders(u, t), billing'[u].rates[t], RateAdders(u, t)')
    BY CalcPays DEF BillPaid
  <2>2. \A d \in Calcs : d # c => Task(d)' = Task(d) /\ Category(d)' = Category(d)
    BY <1>2 DEF Task, Category
  <2>3. \A d \in Calcs : d # c => /\ d \in RuleAdders(u) <=> d \in RuleAdders(u)'
                                  /\ d \in RateAdders(u, t) <=> d \in RateAdders(u, t)'
    BY <1>2, <2>2 DEF RuleAdders, RateAdders
  <2>4. /\ RuleAdders(u) \in SUBSET Calcs /\ RuleAdders(u)' \in SUBSET Threads'
        /\ RateAdders(u, t) \in SUBSET Calcs /\ RateAdders(u, t)' \in SUBSET Threads'
    BY DEF RuleAdders, RateAdders, Threads, CalcRuns
  <2>5. /\ billing[u].rules \in Nat /\ billing'[u].rules \in Nat
        /\ billing[u].rates[t] \in Nat /\ billing'[u].rates[t] \in Nat
    BY <1>1 DEF CountTypes
  <2>6. /\ billing[u].rules + Cardinality(RuleAdders(u)) <= 1 + faults
        /\ billing[u].rates[t] + Cardinality(RateAdders(u, t)) <= 1 + faults
    BY DEF CountInv, BillInv
  <2>7. billing'[u].rules + Cardinality(RuleAdders(u)') <= 1 + faults'
    BY <1>b, <1>8, <2>1, <2>3, <2>4, <2>5, <2>6, BilledStep
  <2>8. billing'[u].rates[t] + Cardinality(RateAdders(u, t)') <= 1 + faults'
    BY <1>b, <1>8, <2>1, <2>3, <2>4, <2>5, <2>6, BilledStep
  <2> QED BY <2>7, <2>8
<1> QED BY <1>5, <1>8, <1>10 DEF CountInv

LEMMA InitCounts == Init => CountInv
<1> SUFFICES ASSUME Init PROVE CountInv
  OBVIOUS
<1>1. Threads = {} /\ (\A x : Makers(x) = {}) /\ (\A k : Assigners(k) = {})
      /\ (\A u : RuleAdders(u) = {}) /\ (\A u, t : RateAdders(u, t) = {})
  BY Finite DEF Init, Threads, Makers, Assigners, RuleAdders, RateAdders, Repeats,
                ImportRuns, CalcRuns, StageNames
<1>2. faults = 0 /\ SomeRun \in {0, 1}
  BY SomeRunFacts DEF Init
<1>3. /\ Cardinality(Threads) = 0
      /\ \A x : Cardinality(Makers(x)) = 0
      /\ \A k : Cardinality(Assigners(k)) = 0
      /\ \A u, t : Cardinality(RuleAdders(u)) = 0 /\ Cardinality(RateAdders(u, t)) = 0
  BY <1>1, FS_EmptySet
<1>4. /\ \A x \in ExtIds : made[x] = 0
      /\ \A k \in Keys : Len(asg[k]) = 0
      /\ \A u \in Units, t \in Categories : billing[u].rules = 0 /\ billing[u].rates[t] = 0
  BY DEF Init
<1>5. ASSUME NEW S, Cardinality(S) = 0 PROVE Owed(0, S)
  BY <1>2, <1>5 DEF Owed
<1>6. ThreadInv
  BY <1>2, <1>3 DEF ThreadInv
<1>7. MadeInv /\ AsgInv
  BY <1>3, <1>4, <1>5 DEF MadeInv, AsgInv
<1>8. LostInv
  BY <1>2, <1>3, <1>4 DEF LostInv
<1>9. BillInv
  BY <1>2, <1>3, <1>4 DEF BillInv
<1>10. TriesInv
  BY DEF Init, TriesInv
<1> QED BY <1>6, <1>7, <1>8, <1>9, <1>10 DEF CountInv

LEMMA CountsStay == Base /\ OrderInv /\ CountInv /\ [Next]_vars => CountInv'
<1> SUFFICES ASSUME Base, OrderInv, CountInv, [Next]_vars PROVE CountInv'
  OBVIOUS
<1>1. ASSUME NEW i \in Imports, (\E g \in Grids : Begin(i, g)) \/ Import(i) \/ Mishap(i)
      PROVE  CountInv'
  BY <1>1, BeginCounts, CompareCounts, LookUpCounts, BatchCounts, RepeatCounts, OtherCounts
     DEF Import, Mishap
<1>2. ASSUME NEW c \in Calcs, Recalculate(c) \/ Calc(c) PROVE CountInv'
  BY <1>2, RecalculateCounts, CalcCounts
<1>3. CASE UNCHANGED vars
  <2>1. UNCHANGED <<made, asg, billing, mark, pc, plan, attempt, cpc, todo, cats, faults>>
    BY <1>3 DEF vars, sppVars, impVars, calcVars
  <2>2. /\ Threads' = Threads /\ SomeRun' = SomeRun
        /\ \A x : Makers(x)' = Makers(x)
        /\ \A k : Assigners(k)' = Assigners(k)
        /\ \A u, t : RuleAdders(u)' = RuleAdders(u) /\ RateAdders(u, t)' = RateAdders(u, t)
    BY <2>1 DEF Threads, SomeRun, Makers, Assigners, RuleAdders, RateAdders, Repeats,
                ImportRuns, CalcRuns, Task, Category
  <2> QED BY <2>1, <2>2 DEF CountInv, ThreadInv, MadeInv, AsgInv, LostInv, BillInv, TriesInv, Owed,
                             ReadAlike, OwnKey, ReadsAsItself, OwnName
<1> QED BY <1>1, <1>2, <1>3 DEF Next

LEMMA AlwaysCounted == Spec => []CountInv
BY InitCounts, CountsStay, AlwaysBase, AlwaysOrdered, PTL DEF Spec

\* However many imports and pricing runs there are, each failed call, refused
\* record, lost answer, death and overlap makes at most one more task of a
\* unit that reads as itself, one more assignment of a user (where units do not
\* share a name), one more rule and one more uprate of a category; running the
\* import or the pricing again makes none.
THEOREM FaultsMakeDuplicates == Spec => []DuplicatesAreFaults
<1>1. Base /\ CountInv => DuplicatesAreFaults
  <2> SUFFICES ASSUME Base, CountInv PROVE DuplicatesAreFaults
    OBVIOUS
  <2>1. CountTypes
    BY Counts
  <2>2. ASSUME NEW n \in Nat, NEW T \in SUBSET Calcs, n + Cardinality(T) <= 1 + faults
        PROVE  n <= 1 + faults
    <3>1. Cardinality(T) \in Nat
      BY Finite, Fewer
    <3> QED BY <2>1, <2>2, <3>1 DEF CountTypes
  <2>3. \A x \in ExtIds : ReadAlike(x) => made[x] <= 1 + faults
    BY <2>1, <2>2, CountSets, Finite DEF CountInv, MadeInv, Owed, CountTypes
  <2>4. \A k \in Keys : OwnKey(k) => Len(asg[k]) <= 1 + faults
    BY <2>1, <2>2, CountSets, Finite DEF CountInv, AsgInv, Owed, CountTypes
  <2>5. \A u \in Units, t \in Categories :
          billing[u].rules <= 1 + faults /\ billing[u].rates[t] <= 1 + faults
    BY <2>1, <2>2, CountSets DEF CountInv, BillInv, CountTypes
  <2>6. CategoryOf[Blank] \in Categories
    BY BidGridAssumption
  <2> QED BY <2>3, <2>4, <2>5, <2>6 DEF DuplicatesAreFaults, ReadAlike, OwnKey
<1> QED BY <1>1, AlwaysBase, AlwaysCounted, PTL

-----------------------------------------------------------------------------
(* What is read back of the plain units. As long as nothing went wrong, no  *)
(* two imports meet, and what one has still to write is what the grid has   *)
(* and SPP has not.                                                         *)

PlainKeys == {k \in Keys : Plain(k[1])}
PlainUnits(g) == {u \in DOMAIN g : Plain(u)}

Rows(g) == {k \in DOMAIN GridRows(g) : Plain(k[1])}
Bid(g, k) == GridRows(g)[k].bid

\* A row is in the CSV that is read back, with this bid.
Shows(k, v) ==
  /\ made[k[1]] > 0
  /\ \/ asg[k] # <<>> /\ Head(asg[k]).bid = v
     \/ asg[k] = <<>> /\ k[2] = NoRole /\ Assigned(k[1]) = {} /\ total[k[1]] = v

TasksAre(g) == \A u \in PlainUnits(g) : made[u] > 0 /\ basis[u] = g[u].basis

\* What has an assignment is a row of the grid, or of the set R.
AssignedIn(g, R) == \A k \in PlainKeys : asg[k] # <<>> => k \in Rows(g) \union R

ReadsBack(g) ==
  /\ TasksAre(g)
  /\ \A k \in Rows(g) : Shows(k, Bid(g, k))
  /\ AssignedIn(g, {})

\* The plan has every task that is missing or differs,
TasksPlanned(i) ==
  /\ \A u \in PlainUnits(grid[i]) :
       \/ u \in plan[i].tasks \union plan[i].upserts
       \/ made[u] > 0 /\ basis[u] = grid[i][u].basis
  /\ \A u \in plan[i].tasks : Plain(u) => made[u] = 0

\* and every row.
RowsPlanned(i) ==
  /\ \A k \in DOMAIN plan[i].adds :
       Plain(k[1]) => asg[k] = <<>> /\ plan[i].adds[k] = GridRows(grid[i])[k]
  /\ \A k \in Rows(grid[i]) \ (DOMAIN plan[i].adds \union DOMAIN plan[i].mods) :
       Shows(k, Bid(grid[i], k))

\* What is to be deleted is found by its own row only.
GonePlanned(i) ==
  /\ AssignedIn(grid[i], plan[i].gone)
  /\ \A k \in plan[i].gone :
       Plain(k[1]) => k \notin Rows(grid[i]) /\ (k[2] = NoRole => Assigned(k[1]) \subseteq {k})

\* What is to be changed has been found.
RowsHeld(i) ==
  /\ AssignedIn(grid[i], {})
  /\ \A k \in DOMAIN plan[i].mods :
       /\ plan[i].mods[k][1] = k[1]
       /\ Plain(k[1]) => asg[k] # <<>> /\ plan[i].mods[k] = k

\* A first import finds no assignments.
FirstRows(i) ==
  /\ \A k \in PlainKeys : asg[k] = <<>>
  /\ DOMAIN plan[i].adds = {k \in DOMAIN GridRows(grid[i]) : k[2] # NoRole}
  /\ \A k \in DOMAIN plan[i].adds : plan[i].adds[k] = GridRows(grid[i])[k]
  /\ DOMAIN plan[i].mods = {}

Undisturbed(i) ==
  /\ attempt[i] = 1
  /\ pc[i] \in {"phases", "subphases"} => FirstRows(i)
  /\ pc[i] = "compare" => ReadsBack(last)
  /\ pc[i] = "delete" => TasksPlanned(i) /\ RowsPlanned(i) /\ GonePlanned(i)
  /\ pc[i] = "tasks" /\ first[i] => FirstRows(i)
  /\ pc[i] = "tasks" /\ ~first[i] => TasksPlanned(i) /\ RowsPlanned(i) /\ RowsHeld(i)
  /\ pc[i] = "assignments" => TasksAre(grid[i]) /\ RowsPlanned(i) /\ RowsHeld(i)
  /\ pc[i] \in {"price", "mark"} => ReadsBack(grid[i])

ReadInv ==
  faults = 0 =>
    /\ \A i \in Imports : Undisturbed(i)
    /\ (\A i \in Imports : ~ImportRuns(i)) /\ last # NoGrid => ReadsBack(last)

\* Sequences of at most one row.
LEMMA OneAmount ==
  ASSUME NEW s \in Seq(Row), Len(s) <= 1
  PROVE  /\ s # <<>> => /\ Tail(s) = <<>>
                        /\ \A v \in Row : <<v>> \o Tail(s) # <<>> /\ Head(<<v>> \o Tail(s)) = v
         /\ \A v \in Row : Append(<<>>, v) # <<>> /\ Head(Append(<<>>, v)) = v
<1>1. ASSUME s # <<>> PROVE Tail(s) = <<>>
  <2>1. Len(s) \in Nat \ {0}
    BY <1>1, EmptySeq
  <2>2. Len(s) = 1
    <3> DEFINE n == Len(s)
    <3>1. n \in Nat \ {0} /\ n <= 1
      BY <2>1
    <3> HIDE DEF n
    <3>2. n = 1
      BY <3>1
    <3> QED BY <3>2 DEF n
  <2>3. Tail(s) \in Seq(Row) /\ Len(Tail(s)) = 0
    BY <1>1, <2>2, HeadTailProperties
  <2> QED BY <2>3, EmptySeq
<1>2. ASSUME NEW v \in Row, s # <<>> PROVE <<v>> \o Tail(s) # <<>> /\ Head(<<v>> \o Tail(s)) = v
  <2>1. <<v>> \in Seq(Row) /\ <<v>> # <<>> /\ Head(<<v>>) = v
    OBVIOUS
  <2>2. <<v>> \o Tail(s) = <<v>>
    BY <1>1, <1>2, <2>1, ConcatEmptySeq
  <2> QED BY <2>1, <2>2
<1>3. ASSUME NEW v \in Row PROVE Append(<<>>, v) # <<>> /\ Head(Append(<<>>, v)) = v
  <2>1. <<>> \in Seq(Row)
    OBVIOUS
  <2> QED BY <2>1, AppendProperties, HeadTailAppend
<1> QED BY <1>1, <1>2, <1>3

\* A unit has one row without a role, or only rows with one.
LEMMA RowFacts ==
  ASSUME NEW g \in Grids
  PROVE  /\ DOMAIN g \subseteq Units /\ PlainUnits(g) \subseteq Units
         /\ Rows(g) \subseteq PlainKeys /\ Rows(g) \subseteq Keys
         /\ \A k \in Rows(g) : k[1] \in PlainUnits(g) /\ GridRows(g)[k] \in Row
         /\ \A k \in Rows(g) : GridRows(g)[k] = g[k[1]].rows[k[2]] /\ k[2] \in DOMAIN g[k[1]].rows
         /\ \A k, j \in Rows(g) : (k[1] = j[1] /\ k[2] = NoRole) => j = k
         /\ \A k \in Rows(g) : k[2] = NoRole => DOMAIN g[k[1]].rows = {NoRole}
<1>0. Rows(g) \subseteq DOMAIN GridRows(g) /\ \A k \in Rows(g) : Plain(k[1])
  BY DEF Rows
<1>1. /\ DOMAIN g \subseteq Units /\ PlainUnits(g) \subseteq Units
      /\ Rows(g) \subseteq PlainKeys /\ Rows(g) \subseteq Keys
      /\ \A k \in Rows(g) : k[1] \in PlainUnits(g) /\ GridRows(g)[k] \in Row
  BY <1>0, GridFacts DEF PlainUnits, PlainKeys
<1>2. DOMAIN GridRows(g) = {x \in Keys : x[1] \in DOMAIN g /\ x[2] \in DOMAIN g[x[1]].rows}
  BY DEF GridRows
<1>3. \A k \in Rows(g) : GridRows(g)[k] = g[k[1]].rows[k[2]]
  BY <1>0, <1>2 DEF GridRows
<1>4. \A u \in DOMAIN g : DOMAIN g[u].rows = {NoRole} \/ NoRole \notin DOMAIN g[u].rows
  BY BidGridAssumption DEF WellFormed
<1>5. \A k \in Rows(g) : /\ k[2] \in DOMAIN g[k[1]].rows
                         /\ k[2] = NoRole => DOMAIN g[k[1]].rows = {NoRole}
  BY <1>0, <1>2, <1>4
<1>6. ASSUME NEW k \in Rows(g), NEW j \in Rows(g), k[1] = j[1], k[2] = NoRole PROVE j = k
  <2>1. j[2] = NoRole
    BY <1>5, <1>6
  <2>2. k = <<k[1], k[2]>> /\ j = <<j[1], j[2]>>
    BY <1>1 DEF Keys
  <2> QED BY <1>6, <2>1, <2>2
<1> QED BY <1>1, <1>3, <1>5, <1>6

\* What shows is what ReadRows has.
LEMMA ReadShown ==
  ASSUME NEW k \in PlainKeys, NEW v, made[k[1]] \in Nat, made[k[1]] <= 1, asg[k] \in Seq(Row)
  PROVE  /\ Shows(k, v) <=> (k \in DOMAIN ReadRows /\ ReadRows[k].bid = v)
         /\ k \in DOMAIN ReadRows <=>
              made[k[1]] > 0 /\ (asg[k] # <<>> \/ (k[2] = NoRole /\ Assigned(k[1]) = {}))
<1>0. k \in Keys /\ ReadsAsItself(k[1]) /\ OwnNumber(k[1])
  BY DEF PlainKeys, Plain
<1>1. k \in Listed <=>
        made[k[1]] > 0 /\ (asg[k] # <<>> \/ (k[2] = NoRole /\ Assigned(k[1]) = {}))
  BY <1>0 DEF Listed
<1>2. k \in DOMAIN ReadRows <=> k \in Listed
  BY <1>0, ReadRowsFacts
<1>3. RowOf(k).bid = IF asg[k] # <<>> THEN Head(asg[k]).bid ELSE total[k[1]]
  <2>1. CASE asg[k] # <<>>
    <3>1. Head(asg[k]) \in Row
      BY <2>1, HeadTailProperties
    <3>2. AsAssignment(Head(asg[k])).bid = Head(asg[k]).bid
      BY <3>1 DEF AsAssignment, Row
    <3> QED BY <2>1, <3>2 DEF RowOf
  <2>2. CASE asg[k] = <<>>
    BY <2>2 DEF RowOf
  <2> QED BY <2>1, <2>2
<1>4. k \in DOMAIN ReadRows => ReadRows[k].bid = IF asg[k] # <<>> THEN Head(asg[k]).bid ELSE total[k[1]]
  BY <1>0, <1>3, ReadRowsFacts
<1> QED BY <1>1, <1>2, <1>4 DEF Shows

\* Two runs at once have been paid for.
LEMMA RunsAlone ==
  ASSUME ThreadInv, faults = 0
  PROVE  \A c, d \in Threads : c = d
<1> SUFFICES ASSUME NEW c \in Threads, NEW d \in Threads, c # d PROVE FALSE
  OBVIOUS
<1>1. Threads \in SUBSET Calcs /\ IsFiniteSet(Calcs)
  BY CountSets, Finite
<1>2. IsFiniteSet({c}) /\ Cardinality({c}) = 1
  BY FS_Singleton
<1>3. Cardinality({c} \cup {d}) = 2
  BY <1>2, FS_AddElement
<1>4. {c} \cup {d} \in SUBSET Threads
  OBVIOUS
<1>5. Cardinality({c} \cup {d}) <= Cardinality(Threads) /\ Cardinality(Threads) \in Nat
  BY <1>1, <1>4, Fewer
<1> QED BY <1>3, <1>5 DEF ThreadInv

LEMMA OneImport ==
  ASSUME ThreadInv, faults = 0, NEW i \in Imports, ImportRuns(i)
  PROVE  /\ \A j \in Imports : j # i => ~ImportRuns(j)
         /\ \A c \in Calcs : c # i => ~CalcRuns(c)
<1>1. i \in Threads
  BY Finite DEF Threads
<1>2. \A c \in Calcs : CalcRuns(c) => c \in Threads
  BY DEF Threads
<1>3. \A j \in Imports : ImportRuns(j) => j \in Threads
  BY Finite DEF Threads
<1> QED BY <1>1, <1>2, <1>3, RunsAlone

\* Without a fault there is one of each, and nothing lies under what is not.
LEMMA Tidy ==
  ASSUME Base, CountInv, faults = 0
  PROVE  /\ \A x \in ExtIds : made[x] \in Nat /\ (ReadAlike(x) => made[x] <= 1)
         /\ \A k \in Keys : asg[k] \in Seq(Row) /\ Len(asg[k]) \in Nat
         /\ \A k \in PlainKeys : Len(asg[k]) <= 1 /\ made[k[1]] \in Nat /\ made[k[1]] <= 1
         /\ \A k \in Keys : made[k[1]] = 0 => asg[k] = <<>>
         /\ \A i \in Imports : \A u \in plan[i].tasks :
              pc[i] = "tasks" /\ u \in Units /\ Plain(u) => made[u] = 0
<1>1. CountTypes
  BY Counts
<1>2. \A x : Cardinality(Makers(x)) \in Nat
  BY CountSets, Finite, Fewer
<1>3. \A k : Cardinality(Assigners(k)) \in Nat
  BY CountSets, Finite, Fewer
<1>4. \A x \in ExtIds : ReadAlike(x) => made[x] + Cardinality(Makers(x)) <= 1
  BY <1>1 DEF CountInv, MadeInv, Owed
<1>5. \A x \in ExtIds : made[x] \in Nat /\ (ReadAlike(x) => made[x] <= 1)
  BY <1>1, <1>2, <1>4 DEF CountTypes
<1>6. \A k \in Keys : OwnKey(k) => Len(asg[k]) <= 1
  BY <1>1, <1>3 DEF CountInv, AsgInv, Owed, CountTypes
<1>7. \A k \in PlainKeys : Len(asg[k]) <= 1 /\ made[k[1]] \in Nat /\ made[k[1]] <= 1
  BY <1>5, <1>6, KeyUnit DEF PlainKeys, Plain, OwnKey, ReadAlike
<1>8. \A k \in Keys : made[k[1]] = 0 => asg[k] = <<>>
  BY <1>1, EmptySeq DEF CountInv, LostInv, CountTypes
<1>9. ASSUME NEW i \in Imports, NEW u \in plan[i].tasks, pc[i] = "tasks", u \in Units, Plain(u)
      PROVE  made[u] = 0
  <2>1. i \in Makers(u)
    BY <1>9 DEF Makers
  <2>2. u \in ExtIds /\ ReadAlike(u)
    BY <1>9 DEF ExtIds, ReadAlike, Plain
  <2>3. Cardinality({i}) = 1 /\ {i} \in SUBSET Makers(u)
    BY <2>1, FS_Singleton
  <2>4. Cardinality(Makers(u)) >= 1
    BY <1>2, <2>3, CountSets, Finite, Fewer
  <2> DEFINE m == made[u]
             n == Cardinality(Makers(u))
  <2>5. m \in Nat /\ n \in Nat /\ n >= 1 /\ m + n <= 1
    BY <1>2, <1>4, <1>5, <2>2, <2>4
  <2> HIDE DEF m, n
  <2>6. m = 0
    BY <2>5
  <2> QED BY <2>6 DEF m
<1> QED BY <1>1, <1>5, <1>7, <1>8, <1>9 DEF CountTypes

\* Before the first import ends there is nothing but what it has written.
LEMMA NothingYet ==
  ASSUME Base, CountInv, faults = 0, ~mark, \A i \in Imports : ~ImportRuns(i)
  PROVE  \A k \in PlainKeys : asg[k] = <<>>
<1>1. CountTypes /\ SomeRun = 0
  BY Counts DEF SomeRun
<1>2. \A k : Cardinality(Assigners(k)) \in Nat
  BY CountSets, Finite, Fewer
<1>3. \A k \in PlainKeys : k \in Keys /\ OwnKey(k)
  BY DEF PlainKeys, Plain, OwnKey
<1>4. \A k \in PlainKeys : Len(asg[k]) = 0
  BY <1>1, <1>2, <1>3 DEF CountInv, AsgInv, Owed, CountTypes
<1> QED BY <1>1, <1>3, <1>4, EmptySeq DEF CountTypes

LEMMA StillShows ==
  ASSUME NEW k \in Keys, NEW v, Shows(k, v), made'[k[1]] > 0, asg'[k] = asg[k],
         Assigned(k[1]) = {} => Assigned(k[1])' = {} /\ total'[k[1]] = total[k[1]]
  PROVE  Shows(k, v)'
BY DEF Shows

\* A step that leaves tasks and assignments alone, and the totals of tasks
\* without any.
Calm ==
  /\ UNCHANGED <<made, basis, asg>>
  /\ \A u \in Units : Assigned(u) = {} => total'[u] = total[u]

LEMMA CalmShows ==
  ASSUME Calm
  PROVE  /\ \A k \in Keys : \A v : Shows(k, v) => Shows(k, v)'
         /\ \A u : Assigned(u)' = Assigned(u)
<1>1. \A u : Assigned(u)' = Assigned(u)
  BY DEF Assigned, Calm
<1>2. ASSUME NEW k \in Keys, NEW v, Shows(k, v) PROVE Shows(k, v)'
  <2>1. k[1] \in Units
    BY KeyUnit
  <2>2. made'[k[1]] > 0 /\ asg'[k] = asg[k]
    BY <1>2 DEF Shows, Calm
  <2>3. Assigned(k[1]) = {} => Assigned(k[1])' = {} /\ total'[k[1]] = total[k[1]]
    BY <1>1, <2>1 DEF Calm
  <2> QED BY <1>2, <2>2, <2>3, StillShows
<1> QED BY <1>1, <1>2

LEMMA CalmReads ==
  ASSUME Calm, NEW g \in Grids, ReadsBack(g)
  PROVE  ReadsBack(g)'
<1>1. TasksAre(g)'
  BY DEF ReadsBack, TasksAre, Calm
<1>2. AssignedIn(g, {})'
  BY DEF ReadsBack, AssignedIn, Calm
<1>3. \A k \in Rows(g) : Shows(k, Bid(g, k))'
  BY CalmShows, RowFacts DEF ReadsBack
<1> QED BY <1>1, <1>2, <1>3 DEF ReadsBack

\* For an import that takes no step.
LEMMA CalmImport ==
  ASSUME Calm, Base, NEW i \in Imports, Undisturbed(i), last # NoGrid \/ pc[i] # "compare",
         pc'[i] = pc[i], grid'[i] = grid[i], first'[i] = first[i],
         plan'[i] = plan[i], attempt'[i] = attempt[i], last' = last
  PROVE  Undisturbed(i)'
<1>1. CASE pc[i] \in {"idle", "done", "dead"}
  BY <1>1 DEF Undisturbed
<1>2. CASE pc[i] \notin {"idle", "done", "dead"}
  <2>1. PICK g \in Grids : g = grid[i]
    BY <1>2 DEF Base, Typed, GridInv
  <2>2. Rows(g) \subseteq Keys
    BY RowFacts
  <2>3. ReadsBack(grid[i]) => ReadsBack(grid[i])'
    BY <2>1, CalmReads
  <2>4. pc[i] = "compare" => (ReadsBack(last) => ReadsBack(last)')
    <3>1. ASSUME pc[i] = "compare", ReadsBack(last) PROVE ReadsBack(last)'
      <4>1. PICK h \in Grids : h = last
        BY <3>1 DEF Base, Typed, TypeOK
      <4> QED BY <3>1, <4>1, CalmReads
    <3> QED BY <3>1
  <2>5. TasksPlanned(i) => TasksPlanned(i)'
    BY DEF TasksPlanned, Calm
  <2>6. TasksAre(grid[i]) => TasksAre(grid[i])'
    BY DEF TasksAre, Calm
  <2>7. RowsPlanned(i) => RowsPlanned(i)'
    <3>1. ASSUME RowsPlanned(i) PROVE RowsPlanned(i)'
      <4>1. \A k \in Rows(g) \ (DOMAIN plan[i].adds \union DOMAIN plan[i].mods) :
              Shows(k, Bid(g, k))'
        BY <2>1, <2>2, <3>1, CalmShows DEF RowsPlanned
      <4> QED BY <2>1, <3>1, <4>1 DEF RowsPlanned, Calm
    <3> QED BY <3>1
  <2>8. GonePlanned(i) => GonePlanned(i)'
    BY CalmShows DEF GonePlanned, AssignedIn, Calm
  <2>9. RowsHeld(i) => RowsHeld(i)'
    BY DEF RowsHeld, AssignedIn, Calm
  <2>10. FirstRows(i) => FirstRows(i)'
    BY DEF FirstRows, Calm
  <2> QED BY <2>3, <2>4, <2>5, <2>6, <2>7, <2>8, <2>9, <2>10 DEF Undisturbed
<1> QED BY <1>1, <1>2

\* A calm step of nobody.
LEMMA CalmStep ==
  ASSUME Calm, Base, OrderInv, ReadInv, faults = 0, UNCHANGED <<impVars, last>>
  PROVE  ReadInv'
<1>1. \A i \in Imports : Undisturbed(i)'
  <2> SUFFICES ASSUME NEW i \in Imports PROVE Undisturbed(i)'
    OBVIOUS
  <2>1. Undisturbed(i)
    BY DEF ReadInv
  <2>2. last # NoGrid \/ pc[i] # "compare"
    BY DEF OrderInv, Ordered, MarkedIsLoaded, ImportRuns
  <2> QED BY <2>1, <2>2, CalmImport DEF impVars
<1>2. (\A i \in Imports : ~ImportRuns(i)') /\ last' # NoGrid => ReadsBack(last)'
  <2> SUFFICES ASSUME \A i \in Imports : ~ImportRuns(i)', last' # NoGrid PROVE ReadsBack(last)'
    OBVIOUS
  <2>1. \A i \in Imports : ~ImportRuns(i)
    BY DEF ImportRuns, impVars
  <2>2. PICK h \in Grids : h = last
    BY DEF Base, Typed, TypeOK
  <2>3. ReadsBack(h)
    BY <2>1, <2>2 DEF ReadInv
  <2> QED BY <2>2, <2>3, CalmReads
<1> QED BY <1>1, <1>2 DEF ReadInv

\* A step of the import that runs.
LEMMA ImportRead ==
  ASSUME Base, ReadInv, faults = 0, NEW i \in Imports, OnlyOf(i),
         \A j \in Imports : j # i => ~ImportRuns(j),
         Undisturbed(i)', ImportRuns(i)' \/ (pc'[i] = "done" /\ ReadsBack(last)')
  PROVE  ReadInv'
<1>1. ASSUME NEW j \in Imports, j # i PROVE Undisturbed(j)'
  <2>1. pc'[j] \in {"idle", "done", "dead"} /\ attempt'[j] = attempt[j]
    BY <1>1 DEF OnlyOf, ImportRuns
  <2> QED BY <1>1, <2>1 DEF Undisturbed, ReadInv
<1>2. (\A j \in Imports : ~ImportRuns(j)') => ReadsBack(last)'
  OBVIOUS
<1> QED BY <1>1, <1>2 DEF ReadInv

\* What goes wrong is counted.
LEMMA Fault0 == ASSUME Base, Fault PROVE faults' # 0
BY Counts DEF Fault, CountTypes

LEMMA CalcRead ==
  ASSUME Base, OrderInv, ReadInv, NEW c \in Calcs, Calc(c), faults' = 0
  PROVE  ReadInv'
<1>1. /\ CalcFrame(c) /\ SppOK /\ faults \in Nat
      /\ (faults' = faults /\ UNCHANGED pc) \/ faults' = faults + 1
  BY CalcFacts, TypeParts, Counts DEF Base, Typed, CountTypes
<1>2. faults = 0 /\ UNCHANGED pc
  BY <1>1
<1>3. \A u \in Units : Assigned(u) = {} => total'[u] = total[u]
  <2>1. CASE Totals(c)
    <3>1. \/ UNCHANGED total
          \/ total' = [total EXCEPT ![Task(c)] = IF Assigned(Task(c)) = {} THEN @ ELSE Bids(Task(c))]
      BY <2>1 DEF Totals
    <3> HIDE DEF Task
    <3> QED BY <1>1, <3>1 DEF SppOK
  <2>2. CASE ~Totals(c)
    BY <2>2 DEF Calc, FindRule, AddRule, AddRuleUnheard, FindRate, AddRateUnheard, PutRate,
                TaskFails, CalcDies, sppVars
  <2> QED BY <2>1, <2>2
<1>4. Calm /\ UNCHANGED <<impVars, last>>
  BY <1>1, <1>2, <1>3 DEF Calm, CalcFrame, impVars, ghosts
<1> QED BY <1>2, <1>4, CalmStep

LEMMA RecalculateRead ==
  ASSUME Base, OrderInv, ReadInv, NEW c \in Calcs, Recalculate(c), faults' = 0
  PROVE  ReadInv'
<1>1. UNCHANGED <<sppVars, impVars, ghosts>> /\ MayOverlap
  BY RecalculateFacts DEF StartCalc
<1>2. faults = 0
  BY <1>1, Fault0 DEF MayOverlap
<1>3. Calm
  BY <1>1 DEF Calm, sppVars
<1> QED BY <1>1, <1>2, <1>3, CalmStep DEF ghosts

\* An import that begins finds what the last one left, or nothing.
LEMMA BeginRead ==
  ASSUME Base, OrderInv, CountInv, ReadInv, NEW i \in Imports, NEW g \in Grids,
         Begin(i, g), faults' = 0
  PROVE  ReadInv'
<1>1. /\ UNCHANGED <<sppVars, attempt, ghosts>> /\ MayOverlap /\ pc[i] = "idle"
      /\ pc'[i] = IF mark THEN "compare" ELSE "phases"
      /\ grid'[i] = g /\ first'[i] = ~mark
      /\ plan'[i] = IF mark THEN NoPlan ELSE FirstPlan(g)
  BY DEF Begin, Base, Typed, TypeOK
<1>2. faults = 0 /\ \A j \in Imports : ~ImportRuns(j)
  BY <1>1, Fault0 DEF MayOverlap, Quiet
<1>3. attempt'[i] = 1
  BY <1>1, <1>2 DEF ReadInv, Undisturbed
<1>4. ASSUME mark PROVE Undisturbed(i)'
  <2>1. last # NoGrid
    BY <1>4 DEF OrderInv, MarkedIsLoaded
  <2>2. PICK h \in Grids : h = last
    BY <2>1 DEF Base, Typed, TypeOK
  <2>3. Calm /\ ReadsBack(h)
    BY <1>1, <1>2, <2>1, <2>2 DEF ReadInv, Calm, sppVars
  <2>4. ReadsBack(last)'
    BY <1>1, <2>2, <2>3, CalmReads DEF ghosts
  <2> QED BY <1>1, <1>3, <1>4, <2>4 DEF Undisturbed
<1>5. ASSUME ~mark PROVE Undisturbed(i)'
  <2>1. \A k \in PlainKeys : asg'[k] = <<>>
    BY <1>1, <1>2, <1>5, NothingYet DEF sppVars
  <2>2. /\ DOMAIN FirstPlan(g).adds = {k \in DOMAIN GridRows(g) : k[2] # NoRole}
        /\ \A k \in DOMAIN FirstPlan(g).adds : FirstPlan(g).adds[k] = GridRows(g)[k]
        /\ DOMAIN FirstPlan(g).mods = {}
    BY FirstPlanFacts
  <2>3. FirstRows(i)'
    BY <1>1, <1>5, <2>1, <2>2 DEF FirstRows
  <2> QED BY <1>1, <1>3, <1>5, <2>3 DEF Undisturbed
<1>6. Undisturbed(i)'
  BY <1>4, <1>5
<1>7. OnlyOf(i) /\ ImportRuns(i)'
  <2>1. OnlyOf(i)
    BY ImportFrame
  <2> QED BY <1>1, <2>1 DEF ImportRuns
<1> QED BY <1>2, <1>6, <1>7, ImportRead

\* The comparison finds all that is missing, differs or has to go.
LEMMA CompareRead ==
  ASSUME Base, OrderInv, CountInv, ReadInv, NEW i \in Imports, Compare(i), faults' = 0
  PROVE  ReadInv'
<1>1. /\ UNCHANGED <<sppVars, grid, first, attempt, faults>> /\ pc[i] = "compare"
      /\ pc'[i] = "delete" /\ plan'[i] = ComparePlan(i) /\ last' = last
  BY DEF Compare, ComparePlan, Base, Typed, TypeOK
<1>2. faults = 0 /\ ImportRuns(i) /\ ImportRuns(i)'
  BY <1>1 DEF ImportRuns
<1>3. Undisturbed(i) /\ last # NoGrid
  BY <1>1, <1>2 DEF ReadInv, OrderInv, Ordered, MarkedIsLoaded
<1>4. PICK g \in Grids : g = grid[i] /\ g = grid'[i]
  BY <1>1 DEF Base, Typed, GridInv
<1>5. PICK h \in Grids : h = last
  BY <1>3 DEF Base, Typed, TypeOK
<1>6. ReadsBack(h)
  BY <1>1, <1>3, <1>5 DEF Undisturbed
<1>7. /\ Rows(g) \subseteq PlainKeys /\ Rows(h) \subseteq PlainKeys /\ PlainUnits(g) \subseteq Units
      /\ PlainKeys \subseteq Keys /\ \A k \in PlainKeys : Plain(k[1])
      /\ DOMAIN ReadRows \subseteq Keys
      /\ \A k \in PlainKeys : k \in DOMAIN GridRows(g) <=> k \in Rows(g)
  BY RowFacts, ReadRowsFacts DEF PlainKeys, Rows
<1>8. /\ \A x \in ExtIds : made[x] \in Nat
      /\ \A k \in Keys : made[k[1]] = 0 => asg[k] = <<>>
      /\ \A k \in PlainKeys : made[k[1]] \in Nat /\ made[k[1]] <= 1 /\ asg[k] \in Seq(Row)
  BY <1>2, <1>7, Tidy
<1>9. Calm /\ \A u : Assigned(u)' = Assigned(u)
  BY <1>1, CalmShows DEF Calm, sppVars
<1> DEFINE p == ComparePlan(i)
<1>10. /\ p.tasks = DOMAIN g \ DOMAIN ReadTasks
       /\ p.upserts = {u \in DOMAIN g \intersect DOMAIN ReadTasks : ReadTasks[u] # g[u].basis}
       /\ p.gone = DOMAIN ReadRows \ DOMAIN GridRows(g)
       /\ DOMAIN p.adds = DOMAIN GridRows(g) \ DOMAIN ReadRows
       /\ \A k \in DOMAIN p.adds : p.adds[k] = GridRows(g)[k]
       /\ DOMAIN p.mods = {k \in DOMAIN ReadRows \intersect DOMAIN GridRows(g) :
                             ReadRows[k] # GridRows(g)[k]}
       /\ \A k \in DOMAIN p.mods : p.mods[k] = k
  <2>1. grid[i] \in Grids
    BY <1>4
  <2>2. /\ p.tasks = DOMAIN grid[i] \ DOMAIN ReadTasks
        /\ p.upserts = {u \in DOMAIN grid[i] \intersect DOMAIN ReadTasks :
                          ReadTasks[u] # grid[i][u].basis}
        /\ p.gone = DOMAIN ReadRows \ DOMAIN GridRows(grid[i])
        /\ DOMAIN p.adds = DOMAIN GridRows(grid[i]) \ DOMAIN ReadRows
        /\ \A k \in DOMAIN p.adds : p.adds[k] = GridRows(grid[i])[k]
        /\ DOMAIN p.mods = {k \in DOMAIN ReadRows \intersect DOMAIN GridRows(grid[i]) :
                              ReadRows[k] # GridRows(grid[i])[k]}
        /\ \A k \in DOMAIN p.mods : p.mods[k] = k
    BY <2>1, ComparePlanFacts
  <2> HIDE DEF p
  <2> QED BY <1>4, <2>2
<1>11. plan'[i] = p
  BY <1>1
<1> HIDE DEF p
<1>12. TasksPlanned(i)'
  <2>1. ASSUME NEW u \in Units, Plain(u)
        PROVE  /\ u \in DOMAIN ReadTasks <=> made[u] > 0
               /\ u \in DOMAIN ReadTasks => ReadTasks[u] = basis[u]
    BY <2>1, ReadTasksFacts DEF Plain
  <2>2. \A u \in PlainUnits(g) : u \in DOMAIN g /\ u \in Units /\ Plain(u)
    BY <1>7 DEF PlainUnits
  <2>3. \A u \in PlainUnits(g) : u \in p.tasks \union p.upserts \/ (made[u] > 0 /\ basis[u] = g[u].basis)
    BY <1>10, <2>1, <2>2
  <2>4. ASSUME NEW u \in p.tasks, Plain(u) PROVE made[u] = 0
    <3>1. u \in Units /\ u \in ExtIds /\ u \notin DOMAIN ReadTasks
      BY <1>10, RowFacts DEF ExtIds
    <3> QED BY <1>8, <2>1, <2>4, <3>1
  <2> QED BY <1>1, <1>4, <1>11, <2>3, <2>4 DEF TasksPlanned, sppVars
<1>13. RowsPlanned(i)'
  <2>1. ASSUME NEW k \in DOMAIN p.adds, Plain(k[1]) PROVE asg[k] = <<>>
    <3>1. k \in DOMAIN GridRows(g) /\ k \notin DOMAIN ReadRows
      BY <1>10
    <3>2. k \in Keys /\ k \in PlainKeys
      BY <2>1, <3>1, GridFacts DEF PlainKeys
    <3>3. made[k[1]] > 0 => asg[k] = <<>>
      BY <1>8, <3>1, <3>2, ReadShown
    <3> QED BY <1>8, <3>2, <3>3
  <2>2. ASSUME NEW k \in Rows(g) \ (DOMAIN p.adds \union DOMAIN p.mods) PROVE Shows(k, Bid(g, k))'
    <3>1. k \in PlainKeys /\ k \in Keys /\ k \in DOMAIN GridRows(g)
      BY <1>7
    <3>2. k \in DOMAIN ReadRows /\ ReadRows[k] = GridRows(g)[k]
      BY <1>10, <3>1
    <3>3. Shows(k, Bid(g, k))
      BY <1>8, <3>1, <3>2, ReadShown DEF Bid
    <3> QED BY <1>9, <3>1, <3>3, CalmShows
  <2> QED BY <1>1, <1>4, <1>10, <1>11, <2>1, <2>2 DEF RowsPlanned, sppVars
<1>14. GonePlanned(i)'
  <2>1. ASSUME NEW k \in PlainKeys, asg[k] # <<>> PROVE k \in Rows(g) \union p.gone
    <3>1. made[k[1]] > 0
      BY <1>7, <1>8, <2>1
    <3>2. k \in DOMAIN ReadRows
      BY <1>8, <2>1, <3>1, ReadShown
    <3> QED BY <1>7, <1>10, <3>2
  <2>2. ASSUME NEW k \in p.gone, Plain(k[1]), k[2] = NoRole PROVE Assigned(k[1]) \subseteq {k}
    <3>1. k \in PlainKeys /\ k \in Keys /\ k \in DOMAIN ReadRows
      BY <1>7, <1>10, <2>2 DEF PlainKeys
    <3>2. asg[k] # <<>> \/ Assigned(k[1]) = {}
      BY <1>8, <3>1, ReadShown
    <3>3. ASSUME asg[k] # <<>>, NEW j \in Assigned(k[1]) PROVE j = k
      <4>1. j \in PlainKeys /\ j[1] = k[1] /\ asg[j] # <<>>
        BY <2>2 DEF Assigned, PlainKeys
      <4>2. k \in Rows(h) /\ j \in Rows(h)
        BY <1>6, <3>1, <3>3, <4>1 DEF ReadsBack, AssignedIn
      <4> QED BY <2>2, <4>1, <4>2, RowFacts
    <3> QED BY <3>2, <3>3
  <2>3. \A k \in p.gone : k \notin Rows(g)
    BY <1>10 DEF Rows
  <2> QED BY <1>1, <1>4, <1>9, <1>11, <2>1, <2>2, <2>3 DEF GonePlanned, AssignedIn, sppVars
<1>15. Undisturbed(i)'
  BY <1>1, <1>3, <1>12, <1>13, <1>14 DEF Undisturbed
<1>16. OnlyOf(i) /\ \A j \in Imports : j # i => ~ImportRuns(j)
  BY <1>2, ImportFrame, OneImport DEF Import, CountInv
<1> QED BY <1>2, <1>15, <1>16, ImportRead

\* A row is looked up by its key, or by its unit alone.
LEMMA FoundAlone ==
  ASSUME NEW k \in Keys
  PROVE  /\ AssignmentsFor(k) = {} => asg[k] = <<>>
         /\ (k[2] = NoRole => Assigned(k[1]) \subseteq {k}) =>
              \A j \in AssignmentsFor(k) : j = k /\ asg[k] # <<>>
         /\ \A j \in AssignmentsFor(k) : j \in Keys /\ j[1] = k[1] /\ asg[j] # <<>>
BY DEF AssignmentsFor, Assigned

\* The import that takes a step, when nothing has gone wrong.
LEMMA StepAlone ==
  ASSUME Base, CountInv, ReadInv, NEW i \in Imports, Import(i), ImportRuns(i),
         faults = 0, Undisturbed(i)', ImportRuns(i)' \/ (pc'[i] = "done" /\ ReadsBack(last)')
  PROVE  ReadInv'
<1>1. OnlyOf(i) /\ \A j \in Imports : j # i => ~ImportRuns(j)
  BY ImportFrame, OneImport DEF CountInv
<1> QED BY <1>1, ImportRead

LEMMA DeleteRead ==
  ASSUME Base, OrderInv, CountInv, ReadInv, NEW i \in Imports, DeleteOne(i), faults' = 0
  PROVE  ReadInv'
<1>1. /\ pc[i] = "delete"
      /\ UNCHANGED <<made, basis, total, pc, grid, first, attempt, faults>>
      /\ plan'[i].tasks = plan[i].tasks /\ plan'[i].upserts = plan[i].upserts
      /\ plan'[i].adds = plan[i].adds /\ plan'[i].mods = plan[i].mods
  BY DeleteOneFacts DEF Base
<1>2. PICK k \in plan[i].gone :
        /\ plan' = [plan EXCEPT ![i].gone = @ \ {k}]
        /\ IF AssignmentsFor(k) = {} THEN UNCHANGED asg
           ELSE \E j \in AssignmentsFor(k) : asg' = WithoutOne(j)
  BY DEF DeleteOne
<1>3. plan'[i].gone = plan[i].gone \ {k} /\ plan[i].gone \subseteq Keys
  BY <1>2, GoneFacts, TypeParts DEF Base, Typed, ImpOK, Plan
<1>4. faults = 0 /\ ImportRuns(i) /\ ImportRuns(i)'
  BY <1>1 DEF ImportRuns
<1>5. attempt[i] = 1 /\ TasksPlanned(i) /\ RowsPlanned(i) /\ GonePlanned(i)
  BY <1>1, <1>4 DEF ReadInv, Undisturbed
<1>6. \A l \in PlainKeys : asg'[l] = IF l = k THEN <<>> ELSE asg[l]
  <2>1. CASE AssignmentsFor(k) = {}
    BY <1>2, <1>3, <2>1, FoundAlone DEF PlainKeys
  <2>2. CASE AssignmentsFor(k) # {}
    <3>1. PICK j \in AssignmentsFor(k) : asg' = WithoutOne(j)
      BY <1>2, <2>2
    <3>2. j \in Keys /\ j[1] = k[1] /\ asg[j] # <<>> /\ k \in Keys
      BY <1>3, <3>1, FoundAlone
    <3>3. asg \in [Keys -> Seq(Row)]
      BY DEF Base, Typed, TypeOK
    <3>4. asg'[j] = Tail(asg[j]) /\ \A l \in Keys : l # j => asg'[l] = asg[l]
      BY <3>1, <3>2, <3>3, WithoutOneFacts
    <3>5. CASE Plain(k[1])
      <4>1. j = k
        BY <1>3, <1>5, <3>1, <3>5, FoundAlone DEF GonePlanned
      <4>2. asg[k] \in Seq(Row) /\ Len(asg[k]) <= 1
        BY <1>4, <3>2, <3>5, Tidy DEF PlainKeys
      <4>3. Tail(asg[k]) = <<>>
        BY <3>2, <4>1, <4>2, OneAmount
      <4> QED BY <3>4, <4>1, <4>3 DEF PlainKeys
    <3>6. CASE ~Plain(k[1])
      BY <3>2, <3>4, <3>6 DEF PlainKeys
    <3> QED BY <3>5, <3>6
  <2> QED BY <2>1, <2>2
<1>7. \A l \in PlainKeys : Assigned(l[1])' \subseteq Assigned(l[1])
  BY <1>6 DEF Assigned, PlainKeys
<1>8. PICK g \in Grids : g = grid[i] /\ g = grid'[i]
  BY <1>1 DEF Base, Typed, GridInv
<1>9. /\ Rows(g) \subseteq PlainKeys /\ PlainKeys \subseteq Keys
      /\ \A l \in DOMAIN plan[i].adds : Plain(l[1]) => l \in PlainKeys
      /\ k \notin Rows(g)
  <2>1. Rows(g) \subseteq PlainKeys /\ DOMAIN plan[i].adds \subseteq Keys
    BY <1>8, RowFacts, GridFacts DEF Base, Typed, GridInv
  <2>2. k \notin Rows(g)
    BY <1>5, <1>8 DEF GonePlanned, Rows
  <2> QED BY <2>1, <2>2 DEF PlainKeys
<1>10. TasksPlanned(i)'
  BY <1>1, <1>5 DEF TasksPlanned
<1>11. RowsPlanned(i)'
  <2>1. ASSUME NEW l \in Rows(g) \ (DOMAIN plan[i].adds \union DOMAIN plan[i].mods)
        PROVE  Shows(l, Bid(g, l))'
    <3>1. l \in PlainKeys /\ l \in Keys /\ l # k /\ Shows(l, Bid(g, l))
      BY <1>5, <1>8, <1>9 DEF RowsPlanned
    <3>2. made'[l[1]] > 0 /\ asg'[l] = asg[l]
      BY <1>1, <1>6, <3>1 DEF Shows
    <3>3. Assigned(l[1]) = {} => Assigned(l[1])' = {} /\ total'[l[1]] = total[l[1]]
      BY <1>1, <1>7, <3>1, KeyUnit
    <3> QED BY <3>1, <3>2, <3>3, StillShows
  <2>2. \A l \in DOMAIN plan[i].adds : Plain(l[1]) => asg'[l] = <<>>
    BY <1>5, <1>6, <1>9 DEF RowsPlanned
  <2> QED BY <1>1, <1>5, <1>8, <2>1, <2>2 DEF RowsPlanned
<1>12. GonePlanned(i)'
  <2>1. \A l \in PlainKeys : asg'[l] # <<>> => l \in Rows(g) \union plan'[i].gone
    BY <1>3, <1>5, <1>6, <1>8 DEF GonePlanned, AssignedIn
  <2>2. ASSUME NEW l \in plan'[i].gone, Plain(l[1])
        PROVE  l \notin Rows(g) /\ (l[2] = NoRole => Assigned(l[1])' \subseteq {l})
    <3>1. l \in plan[i].gone /\ l \in PlainKeys
      BY <1>3, <2>2 DEF PlainKeys
    <3> QED BY <1>5, <1>7, <1>8, <2>2, <3>1 DEF GonePlanned
  <2> QED BY <1>8, <2>1, <2>2 DEF GonePlanned, AssignedIn
<1>13. Undisturbed(i)'
  BY <1>1, <1>5, <1>10, <1>11, <1>12 DEF Undisturbed
<1> QED BY <1>4, <1>13, StepAlone DEF Import

LEMMA LookUpRead ==
  ASSUME Base, OrderInv, CountInv, ReadInv, NEW i \in Imports, LookUp(i), faults' = 0
  PROVE  ReadInv'
<1>1. /\ pc[i] = "delete" /\ pc'[i] = "tasks" /\ plan[i].gone = {}
      /\ UNCHANGED <<sppVars, grid, first, attempt, faults>>
      /\ plan'[i].tasks = plan[i].tasks /\ plan'[i].upserts = plan[i].upserts
      /\ DOMAIN plan'[i].adds = DOMAIN plan[i].adds \union NewRows(i)
      /\ \A k \in DOMAIN plan'[i].adds : plan'[i].adds[k] = GridRows(grid[i])[k]
      /\ DOMAIN plan'[i].mods = DOMAIN plan[i].mods \ NewRows(i)
      /\ \A k \in DOMAIN plan'[i].mods : plan'[i].mods[k] \in AssignmentsFor(k)
  BY LookUpFacts DEF Base, Typed, TypeOK
<1>2. faults = 0 /\ ImportRuns(i) /\ ImportRuns(i)' /\ ~first[i]
  BY <1>1 DEF ImportRuns, OrderInv, Ordered
<1>3. attempt[i] = 1 /\ TasksPlanned(i) /\ RowsPlanned(i) /\ GonePlanned(i)
  BY <1>1, <1>2 DEF ReadInv, Undisturbed
<1>4. PICK g \in Grids : g = grid[i] /\ g = grid'[i]
  BY <1>1 DEF Base, Typed, GridInv
<1>5. /\ Rows(g) \subseteq PlainKeys /\ PlainKeys \subseteq Keys
      /\ DOMAIN plan[i].mods \subseteq DOMAIN GridRows(g) /\ DOMAIN GridRows(g) \subseteq Keys
      /\ NewRows(i) \subseteq DOMAIN plan[i].mods
  BY <1>4, RowFacts, GridFacts DEF Base, Typed, GridInv, NewRows, PlainKeys
<1>6. Calm
  BY <1>1 DEF Calm, sppVars
<1>7. \A k \in PlainKeys : asg[k] # <<>> => k \in Rows(g)
  BY <1>1, <1>3, <1>4 DEF GonePlanned, AssignedIn
<1>8. TasksPlanned(i)'
  BY <1>1, <1>3 DEF TasksPlanned, sppVars
<1>9. RowsPlanned(i)'
  <2>1. \A k \in NewRows(i) : asg[k] = <<>>
    BY <1>5, FoundAlone DEF NewRows
  <2>2. \A k \in DOMAIN plan'[i].adds :
          Plain(k[1]) => asg'[k] = <<>> /\ plan'[i].adds[k] = GridRows(g)[k]
    BY <1>1, <1>3, <1>4, <2>1 DEF RowsPlanned, sppVars
  <2>3. \A k \in Rows(g) \ (DOMAIN plan'[i].adds \union DOMAIN plan'[i].mods) : Shows(k, Bid(g, k))'
    <3>1. \A k \in Rows(g) \ (DOMAIN plan'[i].adds \union DOMAIN plan'[i].mods) : Shows(k, Bid(g, k))
      BY <1>1, <1>3, <1>4, <1>5 DEF RowsPlanned
    <3> QED BY <1>5, <1>6, <3>1, CalmShows
  <2> QED BY <1>4, <2>2, <2>3 DEF RowsPlanned
<1>10. RowsHeld(i)'
  <2>1. ASSUME NEW k \in DOMAIN plan'[i].mods
        PROVE  /\ plan'[i].mods[k][1] = k[1]
               /\ Plain(k[1]) => asg[k] # <<>> /\ plan'[i].mods[k] = k
    <3>1. k \in Keys /\ k \in DOMAIN GridRows(g) /\ plan'[i].mods[k] \in AssignmentsFor(k)
      BY <1>1, <1>5
    <3>2. plan'[i].mods[k][1] = k[1]
      BY <3>1, FoundAlone
    <3>3. ASSUME Plain(k[1]) PROVE asg[k] # <<>> /\ plan'[i].mods[k] = k
      <4>1. k \in Rows(g)
        BY <3>1, <3>3 DEF Rows
      <4>2. ASSUME k[2] = NoRole, NEW j \in Assigned(k[1]) PROVE j = k
        <5>1. j \in Rows(g) /\ j[1] = k[1]
          BY <1>7, <3>3, <4>2 DEF Assigned, PlainKeys
        <5> QED BY <4>1, <4>2, <5>1, RowFacts
      <4>3. k[2] = NoRole => Assigned(k[1]) \subseteq {k}
        BY <4>2
      <4> QED BY <3>1, <4>3, FoundAlone
    <3> QED BY <3>2, <3>3
  <2>2. AssignedIn(grid[i], {})'
    BY <1>1, <1>4, <1>7 DEF AssignedIn, sppVars
  <2> QED BY <1>1, <2>1, <2>2 DEF RowsHeld, sppVars
<1>11. Undisturbed(i)'
  BY <1>1, <1>2, <1>3, <1>8, <1>9, <1>10 DEF Undisturbed
<1> QED BY <1>2, <1>11, StepAlone DEF Import

\* The batch of tasks leaves them as the grid has them,
LEMMA TasksWritten ==
  ASSUME Base, OrderInv, CountInv, faults = 0, NEW i \in Imports, pc[i] = "tasks",
         PutTasks(i, {}), UNCHANGED <<grid, plan>>,
         IF first[i] THEN FirstRows(i) ELSE TasksPlanned(i) /\ RowsPlanned(i) /\ RowsHeld(i)
  PROVE  TasksAre(grid[i])' /\ RowsPlanned(i)' /\ RowsHeld(i)'
<1>1. PICK g \in Grids : g = grid[i] /\ g = grid'[i]
  BY DEF Base, Typed, GridInv
<1>2. /\ PlainUnits(g) \subseteq DOMAIN g /\ PlainUnits(g) \subseteq Units /\ PlainUnits(g) \subseteq ExtIds
      /\ \A u \in PlainUnits(g) : Plain(u)
      /\ Rows(g) \subseteq PlainKeys /\ PlainKeys \subseteq Keys
      /\ plan[i].tasks \union plan[i].upserts \subseteq Units
      /\ \A k \in DOMAIN plan[i].adds : Plain(k[1]) => k \in PlainKeys
  BY <1>1, RowFacts, GridFacts DEF ExtIds, PlainUnits, PlainKeys, Base, Typed, GridInv
<1>3. New(i) = plan[i].tasks /\ Known(i) = plan[i].upserts /\ Batch(i) = plan[i].tasks \union plan[i].upserts
  BY DEF New, Known, Batch
<1>4. /\ asg' = asg
      /\ \A x \in ExtIds :
           made'[x] = IF x \in plan[i].upserts THEN IF made[x] = 0 THEN 1 ELSE made[x]
                      ELSE IF x \in plan[i].tasks THEN made[x] + 1 ELSE made[x]
      /\ \A u \in Units :
           /\ basis'[u] = IF u \in plan[i].upserts \/ (u \in plan[i].tasks /\ made[u] = 0)
                          THEN g[u].basis ELSE basis[u]
           /\ u \notin plan[i].tasks => total'[u] = total[u]
  BY <1>1, <1>3, PutTasksFacts DEF Base
<1>5. \A x \in ExtIds : made[x] \in Nat
  BY Counts DEF CountTypes
<1>6. \A x \in ExtIds : /\ made[x] > 0 => made'[x] > 0
                        /\ x \in plan[i].tasks \union plan[i].upserts => made'[x] > 0
  BY <1>4, <1>5
<1>7. \A u : Assigned(u)' = Assigned(u)
  BY <1>4 DEF Assigned
<1>0. \A u \in plan[i].tasks : Plain(u) => made[u] = 0
  BY <1>2, Tidy
<1>8. CASE first[i]
  <2>0. Due(g) \subseteq plan[i].tasks /\ FirstRows(i)
    BY <1>1, <1>8 DEF OrderInv, Ordered
  <2>1. PlainUnits(g) \subseteq plan[i].tasks
    <3> SUFFICES ASSUME NEW u \in PlainUnits(g) PROVE u \in Due(g)
      BY <2>0
    <3>1. u \in DOMAIN g /\ OwnNumber(u) /\ OwnName(u)
      BY DEF PlainUnits, Plain
    <3> QED BY <3>1 DEF Due, OwnName
  <2>2. TasksAre(g)'
    BY <1>0, <1>2, <1>4, <1>6, <2>1 DEF TasksAre
  <2>3. ASSUME NEW k \in Rows(g), k[2] = NoRole PROVE Shows(k, Bid(g, k))'
    <3>1. /\ k \in PlainKeys /\ k[1] \in PlainUnits(g)
          /\ k[1] \in plan[i].tasks /\ k[1] \in Units /\ k[1] \in ExtIds /\ made[k[1]] = 0
      BY <1>0, <1>2, <2>1, RowFacts
    <3>2. DOMAIN g[k[1]].rows = {NoRole} /\ GridRows(g)[k] = g[k[1]].rows[NoRole]
      BY <2>3, RowFacts
    <3>3. total'[k[1]] = g[k[1]].rows[CHOOSE r \in DOMAIN g[k[1]].rows : TRUE].bid
      <4> DEFINE rows(h) == h[k[1]].rows[CHOOSE r \in DOMAIN h[k[1]].rows : TRUE].bid
      <4>1. ~(made[k[1]] > 0) /\ k[1] \in New(i) \ {} /\ k[1] \in Units
        BY <1>3, <3>1
      <4>2. total'[k[1]] = rows(grid[i])
        BY <1>8, <4>1, Zenon DEF PutTasks
      <4>3. rows(grid[i]) = rows(g)
        <5> HIDE DEF rows
        <5> QED BY <1>1
      <4> QED BY <4>2, <4>3
    <3>4. (CHOOSE r \in {NoRole} : TRUE) = NoRole
      OBVIOUS
    <3>5. total'[k[1]] = Bid(g, k)
      BY <3>2, <3>3, <3>4 DEF Bid
    <3>6. made'[k[1]] > 0 /\ asg'[k] = <<>> /\ Assigned(k[1])' = {}
      <4>1. \A j \in Keys : j[1] = k[1] => asg[j] = <<>>
        BY <1>2, <2>0, <3>1 DEF FirstRows, PlainKeys
      <4> QED BY <1>2, <1>4, <1>6, <1>7, <3>1, <4>1 DEF Assigned
    <3> QED BY <2>3, <3>5, <3>6 DEF Shows
  <2>4. \A k \in DOMAIN plan[i].adds :
          Plain(k[1]) => asg'[k] = <<>> /\ plan[i].adds[k] = GridRows(g)[k]
    BY <1>1, <1>2, <1>4, <2>0 DEF FirstRows
  <2>5. \A k \in Rows(g) \ (DOMAIN plan[i].adds \union DOMAIN plan[i].mods) : k[2] = NoRole
    BY <1>1, <2>0 DEF FirstRows, Rows
  <2>6. RowsPlanned(i)'
    BY <1>1, <2>3, <2>4, <2>5 DEF RowsPlanned
  <2>7. RowsHeld(i)'
    BY <1>4, <2>0 DEF RowsHeld, AssignedIn, FirstRows
  <2> QED BY <1>1, <2>2, <2>6, <2>7
<1>9. CASE ~first[i]
  <2>1. TasksPlanned(i) /\ RowsPlanned(i) /\ RowsHeld(i)
    BY <1>9
  <2>2. TasksAre(g)'
    BY <1>0, <1>1, <1>2, <1>4, <1>6, <2>1 DEF TasksAre, TasksPlanned
  <2>3. ASSUME NEW k \in Rows(g) \ (DOMAIN plan[i].adds \union DOMAIN plan[i].mods)
        PROVE  Shows(k, Bid(g, k))'
    <3>1. /\ k \in Keys /\ Plain(k[1]) /\ k[1] \in Units /\ k[1] \in ExtIds
          /\ Shows(k, Bid(g, k))
      BY <1>1, <1>2, <2>1, KeyUnit DEF RowsPlanned, PlainKeys
    <3>2. made[k[1]] > 0
      BY <3>1 DEF Shows
    <3>3. k[1] \notin plan[i].tasks
      BY <2>1, <3>1, <3>2 DEF TasksPlanned
    <3>4. made'[k[1]] > 0 /\ asg'[k] = asg[k] /\ total'[k[1]] = total[k[1]]
      BY <1>4, <1>6, <3>1, <3>2, <3>3
    <3> QED BY <1>7, <3>1, <3>4, StillShows
  <2>4. RowsPlanned(i)'
    BY <1>1, <1>4, <2>1, <2>3 DEF RowsPlanned
  <2>5. RowsHeld(i)'
    BY <1>1, <1>4, <2>1 DEF RowsHeld, AssignedIn
  <2> QED BY <1>1, <2>2, <2>4, <2>5
<1> QED BY <1>8, <1>9

\* What becomes of the assignments of one row.
LEMMA OneRow ==
  ASSUME NEW i, pc[i] = "assignments", RowsHeld(i), NEW k \in PlainKeys
  PROVE  Changed(i, {}, k) = IF k \in DOMAIN plan[i].mods /\ asg[k] # <<>>
                             THEN <<GridRows(grid[i])[k]>> \o Tail(asg[k]) ELSE asg[k]
<1>1. Hit(i, {}, k) = {l \in DOMAIN plan[i].mods : plan[i].mods[l] = k}
  BY DEF Hit
<1>2. Hit(i, {}, k) = IF k \in DOMAIN plan[i].mods THEN {k} ELSE {}
  BY <1>1 DEF RowsHeld, PlainKeys
<1>3. (CHOOSE l \in {k} : TRUE) = k
  OBVIOUS
<1>4. CASE k \in DOMAIN plan[i].mods
  BY <1>2, <1>3, <1>4 DEF Changed
<1>5. CASE k \notin DOMAIN plan[i].mods
  BY <1>2, <1>5 DEF Changed
<1> QED BY <1>4, <1>5

\* and the batch of assignments leaves every row.
LEMMA AssignmentsWritten ==
  ASSUME Base, CountInv, faults = 0, NEW i \in Imports, pc[i] = "assignments",
         PutAssignments(i, {}), UNCHANGED <<grid, plan>>,
         TasksAre(grid[i]), RowsPlanned(i), RowsHeld(i)
  PROVE  ReadsBack(grid[i])'
<1>1. PICK g \in Grids : g = grid[i] /\ g = grid'[i]
  BY DEF Base, Typed, GridInv
<1> DEFINE new == DOMAIN plan[i].adds
           held == DOMAIN plan[i].mods
<1>2. /\ Rows(g) \subseteq PlainKeys /\ PlainKeys \subseteq Keys
      /\ new \subseteq DOMAIN GridRows(g) /\ held \subseteq DOMAIN GridRows(g)
      /\ \A k \in PlainKeys : Plain(k[1]) /\ OwnName(k[1])
      /\ \A k \in PlainKeys : k \in DOMAIN GridRows(g) => k \in Rows(g)
      /\ \A k \in Rows(g) : k[1] \in PlainUnits(g) /\ GridRows(g)[k] \in Row
  BY <1>1, RowFacts DEF Rows, PlainKeys, Plain, Base, Typed, GridInv
<1>3. UNCHANGED <<made, basis, total>>
  BY PutAssignmentsFacts DEF Base
<1>4. \A k \in new : Plain(k[1]) => asg[k] = <<>> /\ plan[i].adds[k] = GridRows(g)[k]
  BY <1>1 DEF RowsPlanned
<1>5. \A k \in held : Plain(k[1]) => asg[k] # <<>>
  BY DEF RowsHeld
<1>6. \A k \in PlainKeys : asg[k] \in Seq(Row) /\ Len(asg[k]) <= 1 /\ made[k[1]] \in Nat
  BY <1>2, Tidy
<1>7. ASSUME NEW k \in PlainKeys
      PROVE  /\ k \in new \union held => asg'[k] # <<>> /\ Head(asg'[k]).bid = Bid(g, k)
             /\ k \notin new \union held => asg'[k] = asg[k]
  <2> DEFINE old == IF k \in held /\ asg[k] # <<>>
                    THEN <<GridRows(g)[k]>> \o Tail(asg[k]) ELSE asg[k]
  <2>0. k \in Keys /\ Plain(k[1]) /\ OwnName(k[1])
    BY <1>2
  <2>5. k \in new \union held => made[k[1]] # 0
    <3>1. k \in new \union held => k \in Rows(g)
      BY <1>2
    <3>2. k \in Rows(g) => made[k[1]] > 0
      BY <1>1, <1>2 DEF TasksAre
    <3> QED BY <3>1, <3>2
  <2>1. made[k[1]] # 0 => asg'[k] = IF k \in new THEN Append(old, plan[i].adds[k]) ELSE old
    <3>1. Changed(i, {}, k) = old
      BY <1>1, OneRow
    <3> HIDE DEF old
    <3>2. made[k[1]] # 0 => asg'[k] = IF k \in new \ {} THEN Append(Changed(i, {}, k), plan[i].adds[k])
                                     ELSE Changed(i, {}, k)
      BY <2>0, PutAssignmentsFacts DEF Base
    <3> QED BY <3>1, <3>2
  <2>2. CASE k \in new
    <3>1. old = <<>> /\ plan[i].adds[k] = GridRows(g)[k] /\ GridRows(g)[k] \in Row
      BY <1>2, <1>4, <2>0, <2>2
    <3>2. asg'[k] = Append(<<>>, GridRows(g)[k])
      BY <2>1, <2>2, <2>5, <3>1
    <3> QED BY <1>6, <2>2, <3>1, <3>2, OneAmount DEF Bid
  <2>3. CASE k \notin new /\ k \in held
    <3>1. asg[k] # <<>> /\ GridRows(g)[k] \in Row
      BY <1>2, <1>5, <2>0, <2>3
    <3>2. asg'[k] = <<GridRows(g)[k]>> \o Tail(asg[k])
      BY <2>1, <2>3, <2>5, <3>1
    <3> QED BY <1>6, <2>3, <3>1, <3>2, OneAmount DEF Bid
  <2>4. CASE k \notin new /\ k \notin held
    <3>1. made[k[1]] = 0 => asg'[k] = asg[k]
      BY <2>0, PutAssignmentsFacts DEF Base
    <3> QED BY <2>1, <2>4, <3>1
  <2> QED BY <2>2, <2>3, <2>4
<1>8. TasksAre(g)'
  BY <1>1, <1>3 DEF TasksAre
<1>9. \A k \in PlainKeys : asg'[k] # <<>> => k \in Rows(g)
  BY <1>1, <1>2, <1>7 DEF RowsHeld, AssignedIn
<1>10. ASSUME NEW k \in Rows(g) PROVE Shows(k, Bid(g, k))'
  <2>1. k \in PlainKeys /\ k \in Keys /\ k[1] \in PlainUnits(g) /\ made[k[1]] > 0
    BY <1>1, <1>2 DEF TasksAre
  <2>2. CASE k \in new \union held
    <3>1. asg'[k] # <<>> /\ Head(asg'[k]).bid = Bid(g, k) /\ made'[k[1]] > 0
      BY <1>3, <1>7, <2>1, <2>2
    <3> QED BY <3>1 DEF Shows
  <2>3. CASE k \notin new \union held
    <3>1. Shows(k, Bid(g, k)) /\ asg'[k] = asg[k]
      BY <1>1, <1>7, <2>1, <2>3 DEF RowsPlanned
    <3>2. ASSUME Assigned(k[1]) = {} PROVE Assigned(k[1])' = {}
      <4>1. asg[k] = <<>> /\ k[2] = NoRole
        BY <2>1, <3>1, <3>2 DEF Shows, Assigned
      <4>2. ASSUME NEW j \in Keys, j[1] = k[1], asg'[j] # <<>> PROVE FALSE
        <5>1. j \in Rows(g)
          BY <1>2, <1>9, <2>1, <4>2 DEF PlainKeys
        <5>2. j = k
          BY <4>1, <4>2, <5>1, RowFacts
        <5> QED BY <3>1, <4>1, <4>2, <5>2
      <4> QED BY <4>2 DEF Assigned
    <3> QED BY <1>3, <2>1, <3>1, <3>2, StillShows
  <2> QED BY <2>2, <2>3
<1>11. AssignedIn(g, {})'
  BY <1>9 DEF AssignedIn
<1>12. ReadsBack(g)'
  BY <1>8, <1>10, <1>11 DEF ReadsBack
<1> QED BY <1>1, <1>12

LEMMA PutDoneRead ==
  ASSUME Base, OrderInv, CountInv, ReadInv, NEW i \in Imports, PutDone(i), faults' = 0
  PROVE  ReadInv'
<1>1. /\ pc[i] \in StageNames /\ Put(i, {}) /\ UNCHANGED <<grid, first, plan, last, faults>>
      /\ pc'[i] = After(i) /\ attempt'[i] = 1
  BY TypeParts DEF PutDone, AtBatch, batchSame, Base, Typed, ImpOK
<1>2. faults = 0 /\ ImportRuns(i) /\ ImportRuns(i)' /\ Undisturbed(i)
  BY <1>1 DEF ReadInv, ImportRuns, StageNames, After
<1>3. pc[i] \in {"phases", "subphases", "tasks"} => PutTasks(i, {})
  BY <1>1 DEF Put
<1>4. ASSUME pc[i] \in {"phases", "subphases"} PROVE Undisturbed(i)'
  <2>1. first[i] /\ FirstRows(i)
    BY <1>2, <1>4 DEF OrderInv, Ordered, Undisturbed
  <2>2. asg' = asg
    BY <1>3, <1>4, PutTasksFacts DEF Base
  <2>3. FirstRows(i)'
    BY <1>1, <2>1, <2>2 DEF FirstRows
  <2>4. pc'[i] \in {"subphases", "tasks"} /\ first'[i]
    BY <1>1, <1>4, <2>1 DEF After
  <2> QED BY <1>1, <2>3, <2>4 DEF Undisturbed
<1>5. ASSUME pc[i] = "tasks" PROVE Undisturbed(i)'
  <2>1. IF first[i] THEN FirstRows(i) ELSE TasksPlanned(i) /\ RowsPlanned(i) /\ RowsHeld(i)
    BY <1>2, <1>5 DEF Undisturbed
  <2>2. TasksAre(grid[i])' /\ RowsPlanned(i)' /\ RowsHeld(i)'
    BY <1>1, <1>2, <1>3, <1>5, <2>1, TasksWritten
  <2>3. pc'[i] = "assignments"
    BY <1>1, <1>5 DEF After
  <2> QED BY <1>1, <2>2, <2>3 DEF Undisturbed
<1>6. ASSUME pc[i] = "assignments" PROVE Undisturbed(i)'
  <2>1. TasksAre(grid[i]) /\ RowsPlanned(i) /\ RowsHeld(i)
    BY <1>2, <1>6 DEF Undisturbed
  <2>2. PutAssignments(i, {})
    BY <1>1, <1>6 DEF Put
  <2>3. ReadsBack(grid[i])'
    BY <1>1, <1>2, <1>6, <2>1, <2>2, AssignmentsWritten
  <2>4. pc'[i] \in {"price", "mark"}
    BY <1>1, <1>6 DEF After
  <2> QED BY <1>1, <2>3, <2>4 DEF Undisturbed
<1>7. Undisturbed(i)'
  BY <1>1, <1>4, <1>5, <1>6 DEF StageNames
<1> QED BY <1>2, <1>7, StepAlone DEF Import

\* Pricing is begun and ended,
LEMMA PricingRead ==
  ASSUME Base, OrderInv, CountInv, ReadInv, NEW i \in Imports, Price(i) \/ Priced(i), faults' = 0
  PROVE  ReadInv'
<1>1. CASE Price(i)
  <2>1. StartCalc(i) /\ faults' = faults
    BY <1>1, PriceFacts
  <2>2. Calm /\ UNCHANGED <<impVars, last>>
    BY <2>1 DEF StartCalc, Calm, sppVars, ghosts
  <2> QED BY <2>1, <2>2, CalmStep
<1>2. CASE Priced(i)
  <2>1. /\ UNCHANGED <<sppVars, grid, attempt, faults>> /\ pc[i] = "price" /\ pc'[i] = "mark"
    BY <1>2, TypeParts DEF Priced, Base, Typed, ImpOK
  <2>2. faults = 0 /\ ImportRuns(i) /\ ImportRuns(i)' /\ Undisturbed(i)
    BY <2>1 DEF ReadInv, ImportRuns
  <2>3. PICK g \in Grids : g = grid[i] /\ g = grid'[i]
    BY <2>1 DEF Base, Typed, GridInv
  <2>4. Calm /\ ReadsBack(g)
    BY <2>1, <2>2, <2>3 DEF Calm, sppVars, Undisturbed
  <2>5. ReadsBack(grid[i])'
    BY <2>3, <2>4, CalmReads
  <2>6. Undisturbed(i)'
    BY <2>1, <2>2, <2>5 DEF Undisturbed
  <2> QED BY <1>2, <2>2, <2>6, StepAlone DEF Import
<1> QED BY <1>1, <1>2

\* and what was written is the last grid.
LEMMA MarkRead ==
  ASSUME Base, CountInv, ReadInv, NEW i \in Imports, Mark(i), faults' = 0
  PROVE  ReadInv'
<1>1. /\ UNCHANGED <<made, basis, total, asg, grid, attempt, faults>>
      /\ pc[i] = "mark" /\ pc'[i] = "done" /\ last' = grid[i]
  BY TypeParts DEF Mark, Base, Typed, ImpOK
<1>2. faults = 0 /\ ImportRuns(i) /\ Undisturbed(i)
  BY <1>1 DEF ReadInv, ImportRuns
<1>3. PICK g \in Grids : g = grid[i] /\ g = last'
  BY <1>1 DEF Base, Typed, GridInv
<1>4. Calm /\ ReadsBack(g)
  BY <1>1, <1>2, <1>3 DEF Calm, Undisturbed
<1>5. ReadsBack(last)'
  BY <1>3, <1>4, CalmReads
<1>6. Undisturbed(i)'
  BY <1>1, <1>2 DEF Undisturbed
<1> QED BY <1>1, <1>2, <1>5, <1>6, StepAlone DEF Import

\* A mishap is a fault: of a batch that fails, the first time.
LEMMA MishapCounts ==
  ASSUME Base, ReadInv, NEW i \in Imports, Mishap(i)
  PROVE  faults' # 0
<1>1. CASE PutPartly(i) \/ PutUnheard(i) \/ DeleteRefused(i) \/ MarkRefused(i) \/ Dies(i)
  BY <1>1, Fault0 DEF PutPartly, PutUnheard, DeleteRefused, MarkRefused, Dies
<1>2. CASE PutFails(i)
  <2>1. IF attempt[i] = 1 THEN Fault ELSE faults' = faults
    BY <1>2 DEF PutFails
  <2>2. CASE attempt[i] = 1
    BY <2>1, <2>2, Fault0
  <2>3. CASE attempt[i] # 1
    BY <2>1, <2>3 DEF ReadInv, Undisturbed
  <2> QED BY <2>2, <2>3
<1> QED BY <1>1, <1>2 DEF Mishap

LEMMA InitRead == Init => ReadInv
BY DEF Init, ReadInv, Undisturbed

LEMMA ReadStep == Base /\ OrderInv /\ CountInv /\ ReadInv /\ [Next]_vars => ReadInv'
<1> SUFFICES ASSUME Base, OrderInv, CountInv, ReadInv, [Next]_vars, faults' = 0 PROVE ReadInv'
  BY DEF ReadInv
<1>1. ASSUME NEW i \in Imports, NEW g \in Grids, Begin(i, g) PROVE ReadInv'
  BY <1>1, BeginRead
<1>2. ASSUME NEW i \in Imports, Import(i) PROVE ReadInv'
  BY <1>2, CompareRead, DeleteRead, LookUpRead, PutDoneRead, PricingRead, MarkRead DEF Import
<1>3. ASSUME NEW i \in Imports, Mishap(i) PROVE ReadInv'
  BY <1>3, MishapCounts
<1>4. ASSUME NEW c \in Calcs, Recalculate(c) \/ Calc(c) PROVE ReadInv'
  BY <1>4, RecalculateRead, CalcRead
<1>5. CASE UNCHANGED vars
  <2>1. UNCHANGED <<sppVars, impVars, ghosts, faults>>
    BY <1>5 DEF vars
  <2>2. Calm /\ UNCHANGED <<impVars, last>> /\ faults = 0
    BY <2>1 DEF Calm, sppVars, ghosts
  <2> QED BY <2>2, CalmStep
<1> QED BY <1>1, <1>2, <1>3, <1>4, <1>5 DEF Next

LEMMA AlwaysReads == Spec => []ReadInv
BY InitRead, ReadStep, AlwaysBase, AlwaysOrdered, AlwaysCounted, PTL DEF Spec

\* As long as no call failed, no record was refused and no two runs met, what
\* the last import wrote of a plain unit reads back as its grid, whatever grids
\* came before it and however the pricing ran in between: the unit is one task
\* with its fields, each row is there once with its bid, and nothing else is.
THEOREM GridsReadBack == Spec => []ImportReadsBack
<1>1. Base /\ CountInv /\ ReadInv => ImportReadsBack
  <2> SUFFICES ASSUME Base, CountInv, ReadInv, faults = 0, Quiet, last # NoGrid,
                      NEW u \in Units, Plain(u), NEW r \in Roles \union {NoRole}
               PROVE  /\ u \in DOMAIN last => made[u] = 1 /\ basis[u] = last[u].basis
                      /\ Len(asg[<<u, r>>]) <= 1
                      /\ <<u, r>> \in DOMAIN GridRows(last) =>
                           /\ <<u, r>> \in DOMAIN ReadRows
                           /\ ReadRows[<<u, r>>].bid = GridRows(last)[<<u, r>>].bid
                      /\ asg[<<u, r>>] # <<>> => <<u, r>> \in DOMAIN GridRows(last)
    BY DEF ImportReadsBack
  <2>1. PICK g \in Grids : g = last
    BY DEF Base, Typed, TypeOK
  <2>2. ReadsBack(g)
    BY <2>1 DEF ReadInv, Quiet
  <2>3. PICK k \in PlainKeys : k = <<u, r>>
    BY DEF PlainKeys, Keys
  <2>4. /\ k \in Keys /\ Len(asg[k]) <= 1 /\ asg[k] \in Seq(Row)
        /\ made[u] \in Nat /\ made[u] <= 1
    BY <2>3, Tidy DEF PlainKeys
  <2>5. u \in DOMAIN g => made[u] = 1 /\ basis[u] = g[u].basis
    BY <2>2, <2>4 DEF ReadsBack, TasksAre, PlainUnits
  <2>6. k \in DOMAIN GridRows(g) => k \in DOMAIN ReadRows /\ ReadRows[k].bid = GridRows(g)[k].bid
    <3>1. k \in DOMAIN GridRows(g) => Shows(k, Bid(g, k))
      BY <2>2, <2>3 DEF ReadsBack, Rows
    <3> QED BY <2>3, <2>4, <3>1, ReadShown DEF Bid
  <2>7. asg[k] # <<>> => k \in DOMAIN GridRows(g)
    BY <2>2 DEF ReadsBack, AssignedIn, Rows
  <2> QED BY <2>1, <2>3, <2>4, <2>5, <2>6, <2>7
<1> QED BY <1>1, AlwaysBase, AlwaysCounted, AlwaysReads, PTL

-----------------------------------------------------------------------------
(* The hours of time entries. The export of a page never promises less     *)
(* than what has to remain, since whatever was taken off the entry after   *)
(* the export was split off it before.                                     *)

\* A partial move is one of fewer hours than the export has.
MovesLess ==
  \A b \in Batches : at[b] \in {"create", "shrink"} => move[b][row[b]] < export[b][row[b]]

\* An export that is on a page, with what was split off, has all the hours.
ExportsSuffice ==
  \A e \in Entries \ (edited \union refusals), b \in Batches :
    at[b] # "closed" => export[b][e] + moved[e] >= worked[e]

\* What an entry is about to be shrunk to, with what was split off, does too.
ShrinksSuffice ==
  \A b \in Batches :
    (at[b] = "shrink" /\ row[b] \notin edited \union refusals) =>
      export[b][row[b]] - move[b][row[b]] + moved[row[b]] >= worked[row[b]]

\* The types of the hours, and those of how rows are written and answered.
HoursTypeOK ==
  /\ worked \in [Entries -> Nat]
  /\ kept \in [Entries -> Nat]
  /\ moved \in [Entries -> Nat]
  /\ at \in [Batches -> {"closed", "shown", "next", "repoint", "create", "shrink"}]
  /\ export \in [Batches -> [Entries -> Nat]]
  /\ move \in [Batches -> [Entries -> 0 .. MaxHours]]
  /\ row \in [Batches -> Entries]
  /\ refusals \subseteq Entries /\ edited \subseteq Entries
  /\ edits \in Nat /\ moveFaults \in Nat

RowsOK ==
  /\ date \in [Batches -> [Entries -> Dates]]
  /\ result \in [Batches -> [Entries -> Results]]

HoursInv == HoursTypeOK /\ MovesLess /\ HoursKept /\ ExportsSuffice /\ ShrinksSuffice

LEMMA InitHours == ASSUME MaxHours \in Nat, MoveInit PROVE HoursInv
<1>1. 0 \in 0 .. MaxHours /\ Hours \subseteq Nat
  BY DEF Hours
<1>2. worked \in [Entries -> Nat]
  BY <1>1 DEF MoveInit
<1>3. HoursTypeOK
  BY <1>1, <1>2 DEF MoveInit, HoursTypeOK
<1>4. MovesLess /\ ShrinksSuffice
  BY DEF MoveInit, MovesLess, ShrinksSuffice
<1>5. HoursKept /\ ExportsSuffice
  BY <1>2 DEF MoveInit, HoursKept, ExportsSuffice
<1> QED BY <1>3, <1>4, <1>5 DEF HoursInv

USE DEF HoursInv, spp, request, moveGhosts, Fine, FaultSame, Go, Next1

\* The steps of the page leave the hours in SPP alone.
LEMMA ExportStep ==
  ASSUME MaxHours \in Nat, HoursInv, NEW b \in Batches, Export(b) PROVE HoursInv'
<1>1. [e \in Entries |-> 0] \in [Entries -> 0 .. MaxHours]
  OBVIOUS
<1>2. HoursTypeOK'
  BY <1>1 DEF Export, HoursTypeOK
<1>3. MovesLess' /\ HoursKept' /\ ExportsSuffice' /\ ShrinksSuffice'
  BY DEF Export, HoursTypeOK, MovesLess, HoursKept, ExportsSuffice, ShrinksSuffice
<1> QED BY <1>2, <1>3

LEMMA SubmitStep == ASSUME HoursInv, NEW b \in Batches, Submit(b) PROVE HoursInv'
BY DEF Submit, HoursTypeOK, MovesLess, HoursKept, ExportsSuffice, ShrinksSuffice

\* An edit counts what was split off as worked; an entry whose hours some page
\* shows is from now on out of the claim.
LEMMA EditStep ==
  ASSUME MaxHours \in Nat, HoursInv, NEW e \in Entries, NEW h \in Hours, Edit(e, h) PROVE HoursInv'
<1>1. h \in Nat
  BY DEF Hours
<1>2. HoursTypeOK' /\ MovesLess'
  BY <1>1 DEF Edit, HoursTypeOK, MovesLess
<1>3. HoursKept' /\ ExportsSuffice' /\ ShrinksSuffice'
  BY <1>1 DEF Edit, HoursTypeOK, HoursKept, ExportsSuffice, ShrinksSuffice
<1> QED BY <1>2, <1>3

LEMMA StartStep ==
  ASSUME HoursInv, NEW b \in Batches, NEW e \in Entries, Start(b, e) PROVE HoursInv'
<1>1. at' = at \/ \E s \in {"repoint", "create"} : at' = [at EXCEPT ![b] = s]
  BY DEF Start
<1>2. HoursTypeOK'
  BY <1>1 DEF Start, HoursTypeOK
<1>3. MovesLess' /\ HoursKept' /\ ExportsSuffice' /\ ShrinksSuffice'
  BY DEF Start, HoursTypeOK, MovesLess, HoursKept, ExportsSuffice, ShrinksSuffice
<1> QED BY <1>2, <1>3

LEMMA RepointStep == ASSUME HoursInv, NEW b \in Batches, Repoint(b) PROVE HoursInv'
BY DEF Repoint, HoursTypeOK, MovesLess, HoursKept, ExportsSuffice, ShrinksSuffice

LEMMA ThrowsStep == ASSUME HoursInv, NEW b \in Batches, CreateThrows(b) PROVE HoursInv'
BY DEF CreateThrows, HoursTypeOK, MovesLess, HoursKept, ExportsSuffice, ShrinksSuffice

\* What is split off is what the entry will be shrunk by.
LEMMA CreateStep == ASSUME HoursInv, NEW b \in Batches, Create(b) PROVE HoursInv'
<1>1. HoursTypeOK' /\ MovesLess'
  BY DEF Create, Split, HoursTypeOK, MovesLess
<1>2. HoursKept' /\ ExportsSuffice'
  BY DEF Create, Split, HoursTypeOK, HoursKept, ExportsSuffice
<1>3. ShrinksSuffice'
  BY DEF Create, Split, HoursTypeOK, MovesLess, ExportsSuffice, ShrinksSuffice
<1> QED BY <1>1, <1>2, <1>3

LEMMA ShrinkStep == ASSUME HoursInv, NEW b \in Batches, Shrink(b) PROVE HoursInv'
<1>1. HoursTypeOK' /\ MovesLess'
  BY DEF Shrink, Shorten, HoursTypeOK, MovesLess
<1>2. HoursKept'
  BY DEF Shrink, Shorten, HoursTypeOK, HoursKept, ShrinksSuffice
<1>3. ExportsSuffice' /\ ShrinksSuffice'
  BY DEF Shrink, Shorten, HoursTypeOK, ExportsSuffice, ShrinksSuffice
<1> QED BY <1>1, <1>2, <1>3

LEMMA AnswerStep == ASSUME HoursInv, NEW b \in Batches, Answer(b) PROVE HoursInv'
BY DEF Answer, HoursTypeOK, MovesLess, HoursKept, ExportsSuffice, ShrinksSuffice

\* A refused create takes its entry out of the claim; every other failure
\* leaves at least what was there.
LEMMA RefusedStep == ASSUME HoursInv, NEW b \in Batches, CreateRefused(b) PROVE HoursInv'
BY DEF CreateRefused, MoveFault, HoursTypeOK, MovesLess, HoursKept, ExportsSuffice, ShrinksSuffice

LEMMA UnheardStep == ASSUME HoursInv, NEW b \in Batches, CreateUnheard(b) PROVE HoursInv'
<1>1. CASE Split(b, 2) /\ Go(b, "shrink") /\ UNCHANGED result
  <2>1. HoursTypeOK' /\ MovesLess'
    BY <1>1 DEF CreateUnheard, MoveFault, Split, HoursTypeOK, MovesLess
  <2>2. HoursKept' /\ ExportsSuffice'
    BY <1>1 DEF CreateUnheard, MoveFault, Split, HoursTypeOK, HoursKept, ExportsSuffice
  <2>3. ShrinksSuffice'
    BY <1>1 DEF CreateUnheard, MoveFault, Split, HoursTypeOK, MovesLess, ExportsSuffice, ShrinksSuffice
  <2> QED BY <2>1, <2>2, <2>3
<1>2. CASE Split(b, 1) /\ Next1(b, "error")
  <2>1. HoursTypeOK' /\ MovesLess'
    BY <1>2 DEF CreateUnheard, MoveFault, Split, HoursTypeOK, MovesLess
  <2>2. HoursKept' /\ ExportsSuffice'
    BY <1>2 DEF CreateUnheard, MoveFault, Split, HoursTypeOK, HoursKept, ExportsSuffice
  <2>3. ShrinksSuffice'
    BY <1>2 DEF CreateUnheard, MoveFault, Split, HoursTypeOK, ShrinksSuffice
  <2> QED BY <2>1, <2>2, <2>3
<1> QED BY <1>1, <1>2 DEF CreateUnheard

LEMMA UpdateRefusedStep == ASSUME HoursInv, NEW b \in Batches, UpdateRefused(b) PROVE HoursInv'
<1>1. at' = [at EXCEPT ![b] = "next"]
  BY DEF UpdateRefused
<1> QED
  BY <1>1 DEF UpdateRefused, MoveFault, HoursTypeOK, MovesLess, HoursKept, ExportsSuffice,
     ShrinksSuffice

LEMMA RowFailsStep == ASSUME HoursInv, NEW b \in Batches, RowFails(b) PROVE HoursInv'
<1>1. CASE UNCHANGED kept
  BY <1>1 DEF RowFails, MoveFault, HoursTypeOK, MovesLess, HoursKept, ExportsSuffice, ShrinksSuffice
<1>2. CASE at[b] = "shrink" /\ Shorten(b)
  <2>1. HoursTypeOK' /\ MovesLess'
    BY <1>2 DEF RowFails, Shorten, MoveFault, HoursTypeOK, MovesLess
  <2>2. HoursKept'
    BY <1>2 DEF RowFails, Shorten, HoursTypeOK, HoursKept, ShrinksSuffice
  <2>3. ExportsSuffice' /\ ShrinksSuffice'
    BY <1>2 DEF RowFails, Shorten, HoursTypeOK, ExportsSuffice, ShrinksSuffice
  <2> QED BY <2>1, <2>2, <2>3
<1> QED BY <1>1, <1>2 DEF RowFails

LEMMA DiesStep == ASSUME HoursInv, NEW b \in Batches, RequestDies(b) PROVE HoursInv'
BY DEF RequestDies, MoveFault, HoursTypeOK, MovesLess, HoursKept, ExportsSuffice, ShrinksSuffice

LEMMA StepHours == ASSUME MaxHours \in Nat, HoursInv, [MoveNext]_moveVars PROVE HoursInv'
<1>1. CASE \E b \in Batches : Request(b)
  BY <1>1, ExportStep, SubmitStep, StartStep, RepointStep, ThrowsStep, CreateStep, ShrinkStep,
     AnswerStep DEF Request
<1>2. CASE \E b \in Batches : MoveMishap(b)
  BY <1>2, RefusedStep, UnheardStep, UpdateRefusedStep, RowFailsStep, DiesStep DEF MoveMishap
<1>3. CASE \E e \in Entries, h \in Hours : Edit(e, h)
  BY <1>3, EditStep
<1>4. CASE UNCHANGED moveVars
  BY <1>4 DEF moveVars, HoursTypeOK, MovesLess, HoursKept, ExportsSuffice, ShrinksSuffice
<1> QED BY <1>1, <1>2, <1>3, <1>4 DEF MoveNext

LEMMA InitRows == ASSUME MoveInit PROVE RowsOK
<1>1. "exported" \in Dates /\ "none" \in Results
  BY DEF Dates, Results
<1> QED BY <1>1 DEF MoveInit, RowsOK

LEMMA EndsType ==
  ASSUME RowsOK, NEW b \in Batches, NEW e \in Entries, NEW how \in Results, Ends(b, e, how)
  PROVE  result' \in [Batches -> [Entries -> Results]]
<1>1. [result[b] EXCEPT ![e] = how] \in [Entries -> Results]
  BY DEF RowsOK
<1>2. result' = [result EXCEPT ![b] = [result[b] EXCEPT ![e] = how]]
  BY DEF Ends
<1> QED BY <1>1, <1>2 DEF RowsOK

LEMMA StepRows ==
  ASSUME HoursTypeOK, RowsOK, [MoveNext]_moveVars
  PROVE  RowsOK'
<1>1. \A how \in {"none", "full", "partial", "error"} : how \in Results
  BY DEF Results
<1>2. ASSUME NEW b \in Batches, NEW how \in Results, Next1(b, how)
      PROVE  result' \in [Batches -> [Entries -> Results]]
  <2>1. row[b] \in Entries /\ Ends(b, row[b], how)
    BY <1>2 DEF HoursTypeOK
  <2> QED BY <2>1, EndsType
<1>3. ASSUME NEW b \in Batches, Export(b) \/ Submit(b) PROVE RowsOK'
  <2>1. result' = [result EXCEPT ![b] = [e \in Entries |-> "none"]]
    BY <1>3 DEF Export, Submit
  <2>2. result' \in [Batches -> [Entries -> Results]]
    BY <1>1, <2>1 DEF RowsOK
  <2>3. date' = date \/ \E d \in [Entries -> Dates] : date' = [date EXCEPT ![b] = d]
    BY <1>3 DEF Export, Submit
  <2> QED BY <2>2, <2>3 DEF RowsOK
<1>4. ASSUME NEW b \in Batches, NEW e \in Entries, Start(b, e) PROVE RowsOK'
  <2>1. date' = date /\ (result' = result \/ Ends(b, e, "error"))
    BY <1>4 DEF Start
  <2> QED BY <1>1, <2>1, EndsType DEF RowsOK
<1>5. ASSUME NEW b \in Batches,
             Repoint(b) \/ CreateThrows(b) \/ Shrink(b) \/ UpdateRefused(b) \/ RowFails(b)
      PROVE  RowsOK'
  <2>1. \E how \in Results : Next1(b, how)
    <3>1. Next1(b, "full") \/ Next1(b, "partial") \/ Next1(b, "error")
      BY <1>5 DEF Repoint, CreateThrows, Shrink, UpdateRefused, RowFails
    <3> QED BY <1>1, <3>1
  <2>2. date' = date
    BY <1>5 DEF Repoint, CreateThrows, Shrink, UpdateRefused, RowFails
  <2> QED BY <1>2, <2>1, <2>2 DEF RowsOK
<1>6. ASSUME NEW b \in Batches, Create(b) \/ Answer(b) \/ CreateRefused(b) \/ RequestDies(b)
      PROVE  RowsOK'
  BY <1>6 DEF RowsOK, Create, Answer, CreateRefused, RequestDies
<1>7. ASSUME NEW b \in Batches, CreateUnheard(b) PROVE RowsOK'
  <2>1. date' = date /\ (result' = result \/ Next1(b, "error"))
    BY <1>7 DEF CreateUnheard
  <2> QED BY <1>1, <1>2, <2>1 DEF RowsOK
<1>8. ASSUME NEW e \in Entries, NEW h \in Hours, Edit(e, h) PROVE RowsOK'
  BY <1>8 DEF Edit, RowsOK
<1>9. CASE UNCHANGED moveVars
  BY <1>9 DEF moveVars, RowsOK
<1> QED
  BY <1>3, <1>4, <1>5, <1>6, <1>7, <1>8, <1>9 DEF MoveNext, Request, MoveMishap

\* The variables have their types; in particular no entry is shrunk below zero.
THEOREM MoveTypeCorrect == ASSUME MaxHours \in Nat PROVE MoveSpec => []MoveTypeOK
<1>1. MoveInit => HoursInv /\ RowsOK
  BY InitHours, InitRows
<1>2. HoursInv /\ RowsOK /\ [MoveNext]_moveVars => HoursInv' /\ RowsOK'
  BY StepHours, StepRows
<1>3. HoursInv /\ RowsOK => MoveTypeOK
  BY DEF HoursTypeOK, RowsOK, MoveTypeOK
<1> QED BY <1>1, <1>2, <1>3, PTL DEF MoveSpec

\* Requests that overlap, exports of any age, and calls that are lost, repeated
\* or cut off cost nobody an hour: only a refused create or an edit does.
THEOREM HoursAreKept == ASSUME MaxHours \in Nat PROVE MoveSpec => []HoursKept
<1>1. MoveInit => HoursInv
  BY InitHours
<1>2. HoursInv /\ [MoveNext]_moveVars => HoursInv'
  BY StepHours
<1>3. HoursInv => HoursKept
  OBVIOUS
<1> QED BY <1>1, <1>2, <1>3, PTL DEF MoveSpec
=============================================================================
