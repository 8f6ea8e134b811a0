------------------------------- MODULE BidGrid -------------------------------
(***************************************************************************)
(* The import of a bid grid into one SPP project (TEMPUS-bid-grid-import), *)
(* the Lambda that prices its tasks (TEMPUS-calculate-unit-price), and the *)
(* shared calls both are made of: callSharedUtil and its retries, putRecords*)
(* getRecords, deleteRecords and csvDiff.                                  *)
(*                                                                         *)
(* The first import of a project creates phases, sub-phases, tasks and     *)
(* assignments; a later one reads the project back, compares it with the   *)
(* new grid and applies the difference. Which of the two it is, is decided *)
(* by a mark on the project that is the last thing an import writes.       *)
(***************************************************************************)
EXTENDS Naturals, Sequences, FiniteSets, SequencesExt

CONSTANTS
  Units,       \* unit numbers: the tasks of a grid
  ReadAs,      \* ReadAs[u]: the number that getRecords returns for u
  SubPhases, Phases,
  SubPhaseOf,  \* SubPhaseOf[u]: the sub-phase of a unit
  PhaseOf,     \* PhaseOf[s]: the phase of a sub-phase
  Roles,       \* bid roles, each the name of a user of SPP
  NoRole,      \* a row without a bid role
  Fields,      \* what the other fields of a task may be
  Blank,       \* the fields of a task that is not there
  Categories,
  CategoryOf,  \* CategoryOf[f]: the item (default_category) among the fields
  Grids,       \* the grids that are imported
  NoGrid,
  Retries,     \* attempts of callSharedUtil (3)
  NumImports,  \* bound: imports of the project
  NumCalcs,    \* bound: runs of the pricing Lambda on its own
  MaxFaults    \* bound: failed calls, refused records and overlaps

\* What is in SPP under an external id of the project, as a Projecttask.
ExtIds == Units \union SubPhases \union Phases
Keys == Units \X (Roles \union {NoRole})

\* A row has a bid and, as far as a comparison of CSVs sees, one of these forms:
\* no functional area and no hours; hours, and every number as SPP writes it;
\* any other (blank hours beside an area, 1,234.50 for 1234.5).
Forms == {"bare", "full", "odd"}
Row == [bid : Nat, form : Forms]

\* A unit has some task fields and a row per role. It is either split over roles
\* or has one row without a role. named is the unit of the first line of the file
\* with the same Unit Name.
WellFormed(g) ==
  /\ DOMAIN g \subseteq Units
  /\ \A u \in DOMAIN g :
       LET rows == g[u].rows IN
       /\ g[u].basis \in Fields
       /\ g[u].named \in DOMAIN g /\ g[g[u].named].named = g[u].named
       /\ DOMAIN rows = {NoRole} \/ DOMAIN rows \in SUBSET Roles \ {{}}
       /\ \A r \in DOMAIN rows : rows[r] \in Row

ASSUME BidGridAssumption ==
  /\ SubPhaseOf \in [Units -> SubPhases]
  /\ PhaseOf \in [SubPhases -> Phases]
  /\ NoRole \notin Roles
  /\ IsFiniteSet(Units)
  /\ ReadAs \in [Units -> Units]
  /\ Blank \in Fields
  /\ CategoryOf \in [Fields -> Categories]
  \* The external ids of the three kinds have different forms.
  /\ Units \intersect (SubPhases \union Phases) = {} /\ SubPhases \intersect Phases = {}
  /\ Retries \in Nat \ {0}
  /\ NumImports \in Nat /\ NumCalcs \in Nat /\ MaxFaults \in Nat
  /\ \A g \in Grids : WellFormed(g)
  /\ NoGrid \notin Grids

Imports == 1 .. NumImports
\* An import has a run of the pricing Lambda of its own; the others are runs
\* that somebody starts by hand.
Calcs == 1 .. NumImports + NumCalcs

VARIABLES
  made,     \* made[x]: Projecttask records with external id x
  basis,    \* basis[u]: the fields of the task
  total,    \* total[u]: unit_total_bid__c of the task
  asg,      \* asg[k]: the assignments of a task and a user
  billing,  \* billing[u]: its billing rules, and the uprates of each category
            \* under them
  mark,     \* previousBidGridAttachmentId__c is set
  orphans,  \* external ids written when their parent was not there
  pc,       \* pc[i]: the next step of import i
  grid,     \* grid[i]: the file it was called with
  first,    \* first[i]: it found no mark
  plan,     \* plan[i]: what it is going to write and delete
  attempt,  \* attempt[i]: attempts of the current shared call
  cpc,      \* cpc[c]: the next step of a pricing run
  todo,     \* todo[c]: tasks it has not come to
  cats,     \* cats[c]: the categories of the tasks, as it read them
  last,     \* the grid of the last import that ended
  refused,  \* SPP has refused a record
  late,     \* units an update put under a phase the project did not have
  faults

sppVars == <<made, basis, total, asg, billing, mark, orphans>>
impVars == <<pc, grid, first, plan, attempt>>
calcVars == <<cpc, todo, cats>>
ghosts == <<last, refused, late>>
vars == <<sppVars, impVars, calcVars, ghosts, faults>>

NoPlan == [phases |-> {}, subphases |-> {}, tasks |-> {}, upserts |-> {},
           gone |-> {}, adds |-> <<>>, mods |-> <<>>]

StageNames == {"phases", "subphases", "tasks", "assignments"}

\* Functions from some of the keys to S.
FromKeys(S) == UNION {[K -> S] : K \in SUBSET Keys}

Plan == [phases : SUBSET Phases, subphases : SUBSET SubPhases,
         tasks : SUBSET Units, upserts : SUBSET Units,
         gone : SUBSET Keys, adds : FromKeys(Row), mods : FromKeys(Keys)]

\* The totals are amounts too: sums of amounts, which are folds.
TypeOK ==
  /\ made \in [ExtIds -> Nat]
  /\ basis \in [Units -> Fields]
  /\ total = [u \in Units |-> total[u]]
  /\ asg \in [Keys -> Seq(Row)]
  /\ billing \in [Units -> [rules : Nat, rates : [Categories -> Nat]]]
  /\ mark \in BOOLEAN
  /\ orphans \subseteq ExtIds
  /\ pc \in [Imports -> StageNames \union
               {"idle", "compare", "delete", "price", "mark", "done", "dead"}]
  /\ grid \in [Imports -> Grids \union {NoGrid}]
  /\ first \in [Imports -> BOOLEAN]
  /\ plan \in [Imports -> Plan]
  /\ attempt \in [Imports -> 1 .. Retries]
  /\ cpc \in [Calcs -> {"idle", "total", "rule", "addrule", "rate", "addrate", "done"}]
  /\ todo \in [Calcs -> SUBSET Units]
  /\ cats \in [Calcs -> [Units -> Categories]]
  /\ last \in Grids \union {NoGrid}
  /\ refused \in BOOLEAN
  /\ late \subseteq Units
  /\ faults \in 0 .. MaxFaults

Init ==
  /\ made = [x \in ExtIds |-> 0]
  /\ basis = [u \in Units |-> Blank]
  /\ total = [u \in Units |-> 0]
  /\ asg = [k \in Keys |-> <<>>]
  /\ billing = [u \in Units |-> [rules |-> 0, rates |-> [t \in Categories |-> 0]]]
  /\ mark = FALSE
  /\ orphans = {}
  /\ pc = [i \in Imports |-> "idle"]
  /\ grid = [i \in Imports |-> NoGrid]
  /\ first = [i \in Imports |-> FALSE]
  /\ plan = [i \in Imports |-> NoPlan]
  /\ attempt = [i \in Imports |-> 1]
  /\ cpc = [c \in Calcs |-> "idle"]
  /\ todo = [c \in Calcs |-> {}]
  /\ cats = [c \in Calcs |-> [u \in Units |-> CategoryOf[Blank]]]
  /\ last = NoGrid
  /\ refused = FALSE
  /\ late = {}
  /\ faults = 0

Fault == faults < MaxFaults /\ faults' = faults + 1

-----------------------------------------------------------------------------
(* csvDiff, on two functions from keys to values. A CSV gives such a       *)
(* function by its first row of each key (buildMaps).                      *)

Added(old, new) == DOMAIN new \ DOMAIN old
Deleted(old, new) == DOMAIN old \ DOMAIN new
Modified(old, new) == {k \in DOMAIN old \intersect DOMAIN new : old[k] # new[k]}

\* The rows of a grid, and its task fields.
GridRows(g) ==
  [k \in {x \in Keys : x[1] \in DOMAIN g /\ x[2] \in DOMAIN g[x[1]].rows} |->
     g[k[1]].rows[k[2]]]
GridTasks(g) == [u \in DOMAIN g |-> g[u].basis]

\* The CSV that updateBidGridValues writes about the project: a row per
\* assignment, and for a record of a task without any, one with the totals of the
\* task. Assignments go to the first of several records of a task.
\* (The rows of phases have neither unit nor role: isSummaryRow drops them.)
Assigned(u) == {k \in Keys : k[1] = u /\ asg[k] # <<>>}
Listed ==
  {x \in Keys : /\ made[x[1]] > 0
                /\ \/ asg[x] # <<>>
                   \/ x[2] = NoRole /\ (Assigned(x[1]) = {} \/ made[x[1]] > 1)}

\* An assignment has hours, 0 if the row had none.
AsAssignment(row) == IF row.form = "full" THEN row ELSE [row EXCEPT !.form = "other"]
RowOf(x) ==
  IF asg[x] # <<>> THEN AsAssignment(Head(asg[x])) ELSE [bid |-> total[x[1]], form |-> "bare"]

\* XMLParser turns what looks like a number into one, so that a unit 1.10 comes
\* back as 1.1, and of several rows of a key the first that SPP returns counts.
KeyOf(x) == <<ReadAs[x[1]], x[2]>>
ReadTasks ==
  [w \in {ReadAs[u] : u \in {v \in Units : made[v] > 0}} |->
     basis[CHOOSE u \in Units : made[u] > 0 /\ ReadAs[u] = w]]
ReadRows ==
  [k \in {KeyOf(x) : x \in Listed} |-> RowOf(CHOOSE x \in Listed : KeyOf(x) = k)]

-----------------------------------------------------------------------------
(* getRecords: a criterion that is a lookup, and finds nothing, is dropped. *)
(* No user has the empty name, so for a row without a role the criterion   *)
(* on the user is gone, and the record found is any assignment of the task. *)

AssignmentsFor(k) ==
  IF k[2] = NoRole THEN Assigned(k[1]) ELSE {j \in {k} : asg[j] # <<>>}

Parent(x, update) ==
  CASE x \in Units /\ ~update -> SubPhaseOf[x]
    [] x \in Units /\ update -> PhaseOf[SubPhaseOf[x]]
    [] x \in SubPhases -> PhaseOf[x]
    [] OTHER -> x

-----------------------------------------------------------------------------
(* The import.                                                              *)

ImportRuns(i) == pc[i] \notin {"idle", "done", "dead"}
CalcRuns(c) == cpc[c] \notin {"idle", "done"}
Quiet == (\A i \in Imports : ~ImportRuns(i)) /\ (\A c \in Calcs : ~CalcRuns(c))

\* Nothing keeps two people from starting at once.
MayOverlap == IF Quiet THEN UNCHANGED faults ELSE Fault

\* newBidGridLoad: everything the grid names, each thing once, tasks by their
\* Unit Name, and a row without a role makes no assignment.
FirstPlan(g) ==
  [NoPlan EXCEPT
     !.phases = {PhaseOf[SubPhaseOf[u]] : u \in DOMAIN g},
     !.subphases = {SubPhaseOf[u] : u \in DOMAIN g},
     !.tasks = {g[u].named : u \in DOMAIN g},
     !.adds = [k \in {x \in DOMAIN GridRows(g) : x[2] # NoRole} |-> GridRows(g)[k]]]

\* The project is read by its name, and the mark with it.
Begin(i, g) ==
  /\ pc[i] = "idle"
  /\ \A j \in Imports : j < i => pc[j] # "idle"
  /\ MayOverlap
  /\ grid' = [grid EXCEPT ![i] = g]
  /\ first' = [first EXCEPT ![i] = ~mark]
  /\ pc' = [pc EXCEPT ![i] = IF mark THEN "compare" ELSE "phases"]
  /\ plan' = [plan EXCEPT ![i] = IF mark THEN NoPlan ELSE FirstPlan(g)]
  /\ UNCHANGED <<sppVars, attempt, calcVars, ghosts>>

\* updateBidGridValues up to the comparison, and processTaskUpdates: deleted
\* tasks are only logged, changed ones are written under their external id.
Compare(i) ==
  LET t == GridTasks(grid[i]) IN
  /\ pc[i] = "compare"
  /\ plan' = [plan EXCEPT ![i] =
       [NoPlan EXCEPT
          !.tasks = Added(ReadTasks, t),
          !.upserts = Modified(ReadTasks, t),
          !.gone = Deleted(ReadRows, GridRows(grid[i])),
          !.adds = [k \in Added(ReadRows, GridRows(grid[i])) |-> GridRows(grid[i])[k]],
          !.mods = [k \in Modified(ReadRows, GridRows(grid[i])) |-> k]]]
  /\ late' = late \union {u \in Added(ReadTasks, t) \union Modified(ReadTasks, t) :
                             made[PhaseOf[SubPhaseOf[u]]] = 0}
  /\ pc' = [pc EXCEPT ![i] = "delete"]
  /\ UNCHANGED <<sppVars, grid, first, attempt, calcVars, last, refused, faults>>

\* deleteRecords deletes the record with the id it is given.
WithoutOne(j) == [asg EXCEPT ![j] = Tail(@)]

\* processAssignmentUpdates, first loop: one assignment of each deleted row
\* is looked up and deleted.
DeleteOne(i) ==
  /\ pc[i] = "delete"
  /\ \E k \in plan[i].gone :
       /\ plan' = [plan EXCEPT ![i].gone = @ \ {k}]
       /\ IF AssignmentsFor(k) = {}
          THEN UNCHANGED asg
          ELSE \E j \in AssignmentsFor(k) : asg' = WithoutOne(j)
  /\ UNCHANGED <<made, basis, total, billing, mark, orphans, pc, grid, first,
                 attempt, calcVars, ghosts, faults>>

\* SPP refuses the deletion, and deleteRecords ends with 200 all the same.
DeleteRefused(i) ==
  /\ pc[i] = "delete"
  /\ Fault
  /\ \E k \in plan[i].gone : plan' = [plan EXCEPT ![i].gone = @ \ {k}]
  /\ refused' = TRUE
  /\ UNCHANGED <<sppVars, pc, grid, first, attempt, calcVars, last, late>>

\* Second loop: the ids of the modified assignments. When there is none the
\* id is undefined, JSON leaves it out, and the record will be added.
LookUp(i) ==
  LET new  == {k \in DOMAIN plan[i].mods : AssignmentsFor(k) = {}}
      held == DOMAIN plan[i].mods \ new
  IN
  /\ pc[i] = "delete"
  /\ plan[i].gone = {}
  /\ \E t \in [held -> Keys] :
       /\ \A k \in held : t[k] \in AssignmentsFor(k)
       /\ plan' = [plan EXCEPT
            ![i].mods = t,
            ![i].adds = [k \in DOMAIN @ \union new |-> GridRows(grid[i])[k]]]
  /\ pc' = [pc EXCEPT ![i] = "tasks"]
  /\ UNCHANGED <<sppVars, grid, first, attempt, calcVars, ghosts, faults>>

-----------------------------------------------------------------------------
(* putRecords. A record with an id is modified, one whose id is a lookup by *)
(* external id is added or updated, any other one is added.                *)

Plus(S, x) == IF x \in S THEN 1 ELSE 0

\* Faulty variant of Upserted: the lookup by external id is forgotten.
UpsertedAsAdded(x, S) == made[x] + Plus(S, x)

Upserted(x, S) == IF x \in S /\ made[x] = 0 THEN 1 ELSE made[x]

\* The records of a batch: external ids of tasks, or keys of assignments.
New(i) ==
  CASE pc[i] = "phases" -> plan[i].phases
    [] pc[i] = "subphases" -> plan[i].subphases
    [] pc[i] = "tasks" -> plan[i].tasks
    [] OTHER -> DOMAIN plan[i].adds
Known(i) ==
  CASE pc[i] = "tasks" -> plan[i].upserts
    [] pc[i] = "assignments" -> DOMAIN plan[i].mods
    [] OTHER -> {}
Batch(i) == New(i) \union Known(i)

\* SPP writes the records of a batch, but for those in no. Of several records of
\* a task, the fields are those of the first.
PutTasks(i, no) ==
  LET new == New(i) \ no
      up  == Known(i) \ no
      g   == grid[i]
  IN /\ made' = [x \in ExtIds |-> IF x \in up THEN Upserted(x, up)
                                  ELSE made[x] + Plus(new, x)]
     /\ orphans' = orphans \union
          {x \in (new \union up) \ Phases : made[Parent(x, ~first[i])] = 0}
     /\ basis' = [u \in Units |->
          IF u \in up \/ (u \in new /\ made[u] = 0) THEN g[u].basis ELSE basis[u]]
     /\ total' = [u \in Units |->
          IF u \notin new \/ made[u] > 0 THEN total[u]
          ELSE IF first[i] THEN g[u].rows[CHOOSE r \in DOMAIN g[u].rows : TRUE].bid ELSE 0]
     /\ UNCHANGED asg

\* An assignment is of the task its row was put to.
Target(i, k) == IF first[i] THEN <<grid[i][k[1]].named, k[2]>> ELSE k

\* One whose task is not there is of no task.
PutAssignments(i, no) ==
  LET added(j) == SetToSeq({k \in New(i) \ no : Target(i, k) = j})
      hit(j) == {k \in Known(i) \ no : plan[i].mods[k] = j}
      changed(j) ==
        IF hit(j) = {} \/ asg[j] = <<>> THEN asg[j]
        ELSE <<GridRows(grid[i])[CHOOSE k \in hit(j) : TRUE]>> \o Tail(asg[j])
  IN /\ asg' = [j \in Keys |->
          IF made[j[1]] = 0 THEN asg[j]
          ELSE changed(j) \o [n \in DOMAIN added(j) |-> plan[i].adds[added(j)[n]]]]
     /\ UNCHANGED <<made, basis, total, orphans>>

Put(i, no) ==
  IF pc[i] = "assignments" THEN PutAssignments(i, no) ELSE PutTasks(i, no)

\* Faulty variant of After: the tasks are written before the sub-phases.
AfterSwapped(i) ==
  CASE pc[i] = "phases" -> "tasks"
    [] pc[i] = "tasks" /\ first[i] -> "subphases"
    [] pc[i] \in {"tasks", "subphases"} -> "assignments"
    [] OTHER -> IF first[i] THEN "price" ELSE "mark"

After(i) ==
  CASE pc[i] = "phases" -> "subphases"
    [] pc[i] = "subphases" -> "tasks"
    [] pc[i] = "tasks" -> "assignments"
    [] OTHER -> IF first[i] THEN "price" ELSE "mark"

AtBatch(i) == pc[i] \in StageNames
batchSame == <<billing, mark, grid, first, plan, calcVars, last, late>>

\* The batch is written and 200 comes back.
PutDone(i) ==
  /\ AtBatch(i)
  /\ Put(i, {})
  /\ pc' = [pc EXCEPT ![i] = After(i)]
  /\ attempt' = [attempt EXCEPT ![i] = 1]
  /\ UNCHANGED <<batchSame, refused, faults>>

\* 200 comes back too when SPP refuses a record of the batch or all of it.
PutPartly(i) ==
  /\ AtBatch(i)
  /\ Fault
  /\ \E no \in {{x} : x \in Batch(i)} \union {Batch(i)} : no # {} /\ Put(i, no)
  /\ refused' = TRUE
  /\ pc' = [pc EXCEPT ![i] = After(i)]
  /\ attempt' = [attempt EXCEPT ![i] = 1]
  /\ UNCHANGED batchSame

\* Faulty variant of Again: after the last attempt the caller goes on.
AgainGivesUp(i) ==
  IF attempt[i] < Retries
  THEN attempt' = [attempt EXCEPT ![i] = @ + 1] /\ UNCHANGED pc
  ELSE pc' = [pc EXCEPT ![i] = After(i)] /\ attempt' = [attempt EXCEPT ![i] = 1]

\* callSharedUtil repeats whatever did not end with 200, and then throws.
Again(i) ==
  IF attempt[i] < Retries
  THEN attempt' = [attempt EXCEPT ![i] = @ + 1] /\ UNCHANGED pc
  ELSE pc' = [pc EXCEPT ![i] = "dead"] /\ UNCHANGED attempt

\* putRecords ends with 500 before SPP did anything (an outage is one fault,
\* however many attempts it lasts), or after it did all.
PutFails(i) ==
  /\ AtBatch(i) /\ Batch(i) # {}
  /\ IF attempt[i] = 1 THEN Fault ELSE UNCHANGED faults
  /\ Again(i)
  /\ UNCHANGED <<made, basis, total, asg, orphans, batchSame, refused>>

PutUnheard(i) ==
  /\ AtBatch(i) /\ Batch(i) # {}
  /\ Fault
  /\ Put(i, {})
  /\ Again(i)
  /\ UNCHANGED <<batchSame, refused>>

\* A Lambda-level error of a shared call is thrown at once, and the import
\* can be killed between any two of its calls.
Dies(i) ==
  /\ ImportRuns(i)
  /\ Fault
  /\ pc' = [pc EXCEPT ![i] = "dead"]
  /\ UNCHANGED <<sppVars, grid, first, plan, attempt, calcVars, ghosts>>

\* The totals and the mark: the last write of an import.
Mark(i) ==
  /\ pc[i] = "mark"
  /\ mark' = TRUE
  /\ last' = grid[i]
  /\ pc' = [pc EXCEPT ![i] = "done"]
  /\ UNCHANGED <<made, basis, total, asg, billing, orphans, grid, first, plan,
                 attempt, calcVars, refused, late, faults>>

\* SPP refuses the project update, and nobody looks.
MarkRefused(i) ==
  /\ pc[i] = "mark"
  /\ Fault
  /\ refused' = TRUE
  /\ pc' = [pc EXCEPT ![i] = "done"]
  /\ UNCHANGED <<sppVars, grid, first, plan, attempt, calcVars, last, late>>

-----------------------------------------------------------------------------
(* calculateUnitPricePer: one task after the other; an error of one task is *)
(* collected and the next one follows.                                      *)

calcSame == <<made, basis, asg, mark, orphans, cats, impVars, ghosts>>

StartCalc(c) ==
  /\ cpc' = [cpc EXCEPT ![c] = "total"]
  /\ todo' = [todo EXCEPT ![c] = {u \in Units : made[u] > 0}]
  /\ cats' = [cats EXCEPT ![c] = [u \in Units |-> CategoryOf[basis[u]]]]
  /\ UNCHANGED <<sppVars, impVars, ghosts>>

\* The import calls it and waits.
Price(i) ==
  /\ pc[i] = "price"
  /\ cpc[i] = "idle"
  /\ StartCalc(i)
  /\ UNCHANGED faults

Priced(i) ==
  /\ pc[i] = "price"
  /\ cpc[i] = "done"
  /\ pc' = [pc EXCEPT ![i] = "mark"]
  /\ UNCHANGED <<sppVars, grid, first, plan, attempt, calcVars, ghosts, faults>>

Recalculate(c) ==
  /\ c > NumImports
  /\ cpc[c] = "idle"
  /\ MayOverlap
  /\ StartCalc(c)

Task(c) == CHOOSE u \in todo[c] : TRUE
Category(c) == cats[c][Task(c)]

Bids(u) ==
  FoldFunction(+, 0, [k \in Assigned(u) |->
    FoldSeq(LAMBDA row, sum : row.bid + sum, 0, asg[k])])

\* The totals of the task are the sums over its assignments, if it has any.
Totals(c) ==
  /\ cpc[c] = "total"
  /\ IF todo[c] = {}
     THEN cpc' = [cpc EXCEPT ![c] = "done"] /\ UNCHANGED total
     ELSE LET u == Task(c) IN
          /\ total' = [total EXCEPT ![u] = IF Assigned(u) = {} THEN @ ELSE Bids(u)]
          /\ cpc' = [cpc EXCEPT ![c] = "rule"]
  /\ UNCHANGED <<billing, todo, calcSame, faults>>

\* Faulty variant of FindRule: the rule is created without looking for it.
FindsNoRule(c) ==
  /\ cpc[c] = "rule"
  /\ cpc' = [cpc EXCEPT ![c] = "addrule"]
  /\ UNCHANGED <<billing, total, todo, calcSame, faults>>

\* upsertBillingRate: the rule is looked up, and created when there is none;
FindRule(c) ==
  /\ cpc[c] = "rule"
  /\ cpc' = [cpc EXCEPT ![c] =
               IF billing[Task(c)].rules = 0 THEN "addrule" ELSE "rate"]
  /\ UNCHANGED <<billing, total, todo, calcSame, faults>>

AddRule(c) ==
  /\ cpc[c] = "addrule"
  /\ billing' = [billing EXCEPT ![Task(c)].rules = @ + 1]
  /\ cpc' = [cpc EXCEPT ![c] = "rate"]
  /\ UNCHANGED <<total, todo, calcSame, faults>>

\* the answer to it is lost, and callSharedUtil creates another one.
AddRuleUnheard(c) ==
  /\ cpc[c] = "addrule"
  /\ Fault
  /\ billing' = [billing EXCEPT ![Task(c)].rules = @ + 1]
  /\ UNCHANGED <<cpc, total, todo, calcSame>>

\* The uprate of the task's category is looked up under the rule, and changed when
\* there is one (those of earlier categories stay), or
FindRate(c) ==
  /\ cpc[c] = "rate"
  /\ billing[Task(c)].rates[Category(c)] = 0
  /\ cpc' = [cpc EXCEPT ![c] = "addrate"]
  /\ UNCHANGED <<billing, total, todo, calcSame, faults>>

\* else created, here too more than once when answers are lost.
AddRateUnheard(c) ==
  /\ cpc[c] = "addrate"
  /\ Fault
  /\ billing' = [billing EXCEPT ![Task(c)].rates[Category(c)] = @ + 1]
  /\ UNCHANGED <<cpc, total, todo, calcSame>>

PutRate(c) ==
  /\ \/ cpc[c] = "addrate" /\ billing' = [billing EXCEPT ![Task(c)].rates[Category(c)] = @ + 1]
     \/ cpc[c] = "rate" /\ billing[Task(c)].rates[Category(c)] > 0 /\ UNCHANGED billing
  /\ todo' = [todo EXCEPT ![c] = @ \ {Task(c)}]
  /\ cpc' = [cpc EXCEPT ![c] = "total"]
  /\ UNCHANGED <<total, calcSame, faults>>

TaskFails(c) ==
  /\ CalcRuns(c)
  /\ todo[c] # {}
  /\ Fault
  /\ todo' = [todo EXCEPT ![c] = @ \ {Task(c)}]
  /\ cpc' = [cpc EXCEPT ![c] = "total"]
  /\ UNCHANGED <<billing, total, calcSame>>

\* The pricing Lambda is killed; an import that waits for it throws.
CalcDies(c) ==
  /\ CalcRuns(c)
  /\ Fault
  /\ cpc' = [cpc EXCEPT ![c] = "done"]
  /\ pc' = [i \in Imports |-> IF i = c THEN "dead" ELSE pc[i]]
  /\ UNCHANGED <<sppVars, grid, first, plan, attempt, todo, cats, ghosts>>

-----------------------------------------------------------------------------
Import(i) ==
  \/ Compare(i) \/ DeleteOne(i) \/ LookUp(i)
  \/ PutDone(i) \/ Price(i) \/ Priced(i) \/ Mark(i)

Mishap(i) ==
  \/ PutPartly(i) \/ PutFails(i) \/ PutUnheard(i)
  \/ DeleteRefused(i) \/ MarkRefused(i) \/ Dies(i)

Calc(c) ==
  \/ Totals(c) \/ FindRule(c) \/ AddRule(c) \/ AddRuleUnheard(c)
  \/ FindRate(c) \/ AddRateUnheard(c) \/ PutRate(c)
  \/ TaskFails(c) \/ CalcDies(c)

Next ==
  \/ \E i \in Imports : (\E g \in Grids : Begin(i, g)) \/ Import(i) \/ Mishap(i)
  \/ \E c \in Calcs : Recalculate(c) \/ Calc(c)

Spec == Init /\ [][Next]_vars

-----------------------------------------------------------------------------
(* Properties. *)

\* u comes back under its own number, no other unit does, and in every grid it has
\* a name of its own.
ReadsAsItself(u) == ReadAs[u] = u
OwnNumber(u) == \A v \in Units : ReadAs[v] = u => v = u
OwnName(u) ==
  \A g \in Grids : u \in DOMAIN g => \A v \in DOMAIN g : (g[v].named = u) <=> (v = u)
Plain(u) == ReadsAsItself(u) /\ OwnNumber(u) /\ OwnName(u)

\* When nothing went wrong, SPP has what the grid of the last import says about
\* every plain unit: if the grid has it, it is one task with its fields, and each
\* of its rows is there once, with its bid; and nothing else is assigned to it.
ImportReadsBack ==
  (faults = 0 /\ Quiet /\ last # NoGrid) =>
    \A u \in {x \in Units : Plain(x)} :
      /\ u \in DOMAIN last => made[u] = 1 /\ basis[u] = last[u].basis
      /\ \A r \in Roles \union {NoRole} :
           LET k == <<u, r>> IN
           /\ Len(asg[k]) <= 1
           /\ k \in DOMAIN GridRows(last) =>
                k \in DOMAIN ReadRows /\ ReadRows[k].bid = GridRows(last)[k].bid
           /\ asg[k] # <<>> => k \in DOMAIN GridRows(last)

\* The mark is a promise to the next import that the project was loaded: unless
\* SPP refused a record, every unit of the last grid is a task, but for one that
\* shares its name with an earlier line of the file, or that another unit reads as.
MarkedIsLoaded ==
  mark => /\ last # NoGrid
          /\ \/ refused
             \/ \A u \in DOMAIN last : last[u].named = u /\ OwnNumber(u) => made[u] > 0

\* Every duplicate of a unit that reads as itself is the work of a failed call, an
\* import that died or an overlap: none is made by running the import or the
\* pricing again ("so re-running on a bid grid update doesn't pile up duplicate
\* billing rules"), and there is one uprate per category the unit ever had.
DuplicatesAreFaults ==
  /\ \A x \in ExtIds : (x \in Units => ReadsAsItself(x)) => made[x] <= 1 + faults
  /\ \A k \in Keys : ReadsAsItself(k[1]) /\ OwnName(k[1]) => Len(asg[k]) <= 1 + faults
  /\ \A u \in Units :
       /\ billing[u].rules <= 1 + faults
       /\ \A t \in Categories : billing[u].rates[t] <= 1 + faults

\* A sub-phase or task is written after the phase it belongs to, unless the
\* phase was refused, or an update brought a unit of a new phase (which it
\* does not create).
ParentsFirst == orphans \subseteq late \/ refused
=============================================================================
