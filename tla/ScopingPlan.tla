---------------------------- MODULE ScopingPlan ----------------------------
(***************************************************************************)
(* Which tables have to be filtered because some are, and in which order   *)
(* their views are built: getScopingPlan of reportEngine.js, and the loop  *)
(* of applyFilterScope in filterScope.js that follows the plan.            *)
(*                                                                         *)
(* The relationships are hand-edited data, so the model starts from any    *)
(* graph. A table has one row here, that refers to the row of every table  *)
(* its table refers to: "visible" is the set of tables whose view shows    *)
(* it. Where the code walks a Set in insertion order, any order is taken.  *)
(***************************************************************************)
EXTENDS Naturals, Sequences

CONSTANTS
  Tables,
  Possible  \* bound: the pairs of tables that relationships may join

ASSUME PossibleAssumption == Possible \subseteq Tables \X Tables

VARIABLES
  roots,     \* the tables filtered whatever they refer to
  known,     \* REPORT_VIEWS
  declared,  \* RELATIONSHIPS: <<t, u>> if a column of t refers to u
  broken,    \* tables that could not be materialised
  hidden,    \* roots whose row the caller may not see
  affected,
  queue,
  cycle,     \* a pass placed nothing
  plan,
  built,     \* the steps of the plan whose view has been built
  visible

input == <<roots, known, declared, broken, hidden>>
planVars == <<input, affected, queue, cycle, plan, built, visible>>

Step == [table : Tables, cascade : SUBSET Tables]

PlanTypeOK ==
  /\ roots \subseteq Tables
  /\ known \subseteq Tables
  /\ declared \subseteq Tables \X Tables
  /\ broken \subseteq Tables
  /\ hidden \subseteq Tables
  /\ affected \subseteq Tables
  /\ queue \subseteq Tables
  /\ cycle \in BOOLEAN
  /\ plan \in Seq(Step)
  /\ built \in 0 .. Len(plan)
  /\ visible \subseteq Tables

PlanInit ==
  /\ roots \in SUBSET Tables
  /\ known \in SUBSET Tables
  /\ declared \in SUBSET Possible
  /\ broken \in SUBSET known
  /\ hidden \in SUBSET roots
  /\ affected = roots
  /\ queue = roots
  /\ cycle = FALSE
  /\ plan = <<>>
  /\ built = 0
  /\ visible = {}

-----------------------------------------------------------------------------
(* getScopingPlan *)

\* A relationship with a table that is not in the config is skipped.
Outgoing(t) ==
  {u \in Tables : <<t, u>> \in declared /\ t \in known /\ u \in known}

Dependents(t) == {s \in Tables : t \in Outgoing(s)}

\* Mutant: tables that refer to a root, but not those that refer to these.
WalkOnce(t) ==
  /\ t \in queue
  /\ affected' = affected \union Dependents(t)
  /\ queue' = queue \ {t}
  /\ UNCHANGED <<input, cycle, plan, built, visible>>

\* Everything downstream of the roots is affected.
Walk(t) ==
  /\ t \in queue
  /\ affected' = affected \union Dependents(t)
  /\ queue' = (queue \ {t}) \union (Dependents(t) \ affected)
  /\ UNCHANGED <<input, cycle, plan, built, visible>>

\* Mutant: what is not affected is filtered by as well.
AnyRefs(t) == Outgoing(t)

Refs(t) == Outgoing(t) \intersect affected

Placed == {plan[i].table : i \in DOMAIN plan}

Remaining == affected \ Placed

\* Mutant: one table that is placed is enough.
SomeReady(t) == Refs(t) = {} \/ Refs(t) \intersect Placed # {}

Ready(t) == Refs(t) \subseteq Placed

\* A table is placed when all it refers to are, with a condition for each;
\* after a cycle has been found, without any.
Place(t) ==
  /\ queue = {}
  /\ t \in Remaining
  /\ Ready(t) \/ cycle
  /\ plan' = Append(plan, [table |-> t,
                           cascade |-> IF cycle THEN {} ELSE Refs(t)])
  /\ UNCHANGED <<input, affected, queue, cycle, built, visible>>

\* Mutant: only a graph where nothing can be placed first counts as a cycle.
FindCycleAtOnce ==
  /\ queue = {}
  /\ plan = <<>>
  /\ Remaining # {}
  /\ ~cycle
  /\ \A t \in Remaining : ~Ready(t)
  /\ cycle' = TRUE
  /\ UNCHANGED <<input, affected, queue, plan, built, visible>>

\* A pass over the remaining tables that places none.
FindCycle ==
  /\ queue = {}
  /\ Remaining # {}
  /\ ~cycle
  /\ \A t \in Remaining : ~Ready(t)
  /\ cycle' = TRUE
  /\ UNCHANGED <<input, affected, queue, plan, built, visible>>

-----------------------------------------------------------------------------
(* applyFilterScope *)

Planned == queue = {} /\ Remaining = {}

\* Tables that are there to be selected from.
Present == known \ broken

\* A view with a condition on a table that is not there becomes an empty one;
\* a table that is not there itself gets no view.
Build ==
  /\ Planned
  /\ built < Len(plan)
  /\ LET step == plan[built + 1]
     IN visible' = IF /\ step.table \in Present
                      /\ step.table \notin hidden
                      /\ step.cascade \subseteq visible
                     THEN visible \union {step.table} ELSE visible
  /\ built' = built + 1
  /\ UNCHANGED <<input, affected, queue, cycle, plan>>

PlanNext ==
  \/ \E t \in Tables : Walk(t) \/ Place(t)
  \/ FindCycle
  \/ Build

PlanSpec == PlanInit /\ [][PlanNext]_planVars

FairPlanSpec == PlanSpec /\ WF_planVars(PlanNext)

-----------------------------------------------------------------------------
(* Properties. *)

Done == Planned /\ built = Len(plan)

\* "a table's prerequisites always come before it" (reportEngine.js:398-399):
\* whatever a view's conditions select from has its own view already.
PrerequisitesFirst ==
  \A i \in DOMAIN plan :
    \A u \in plan[i].cascade : \E j \in 1 .. (i - 1) : plan[j].table = u

Closed(S) == \A t \in S : Dependents(t) \subseteq S

\* The plan has the roots and everything that refers to them, at any
\* distance, and nothing else, each once.
PlanIsDownstream ==
  Planned =>
    /\ roots \subseteq Placed /\ Closed(Placed)
    /\ \A S \in SUBSET Tables : roots \subseteq S /\ Closed(S) => Placed \subseteq S
    /\ \A i, j \in DOMAIN plan : plan[i].table = plan[j].table => i = j

\* The affected tables hold some that each refer to one of themselves.
Cyclic ==
  \E S \in SUBSET affected : S # {} /\ \A t \in S : Refs(t) \intersect S # {}

\* If the relationships have no cycle, a row is shown exactly if the caller
\* may see it and all it refers to, at any distance, is shown.
ShownIfRefsAreShown ==
  Done /\ ~Cyclic =>
    \A t \in affected :
      t \in visible <=> /\ t \in Present /\ t \notin hidden
                        /\ Refs(t) \subseteq visible

\* The plan is always finished, whatever the relationships are.
PlanEnds == <>Done
=============================================================================
