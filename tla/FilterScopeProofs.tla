------------------------- MODULE FilterScopeProofs -------------------------
(***************************************************************************)
(* The two halves of the filter scope, which share no variable: the plan   *)
(* and the views built by it, for any set of tables and any graph of       *)
(* relationships between them (that the loop ends is left to TLC); and the *)
(* cached ids these views select from: what is cached for a person was     *)
(* permitted, and a fetch that nothing disturbs finds all that is, for any *)
(* number of records, pages, fetches, changes and failures. Names with     *)
(* "Plan" are of ScopingPlan, the plain Init, Next and Spec are of         *)
(* FilterAccess.                                                           *)
(***************************************************************************)
EXTENDS ScopingPlan, FilterAccess, FiniteSetTheorems, TLAPS

\* Appending keeps the steps that are there.
LEMMA Appended ==
  ASSUME NEW S, NEW s \in Seq(S), NEW e \in S
  PROVE  /\ Append(s, e) \in Seq(S)
         /\ Len(Append(s, e)) = Len(s) + 1
         /\ DOMAIN Append(s, e) = 1 .. (Len(s) + 1)
         /\ \A i \in 1 .. Len(s) : Append(s, e)[i] = s[i]
         /\ Append(s, e)[Len(s) + 1] = e
  OBVIOUS

\* Every variable keeps its type.
THEOREM PlanTypeCorrect == PlanSpec => []PlanTypeOK
<1>1. PlanInit => PlanTypeOK
  <2> SUFFICES ASSUME PlanInit PROVE PlanTypeOK
    OBVIOUS
  <2>1. declared \subseteq Tables \X Tables
    BY PossibleAssumption DEF PlanInit
  <2>2. plan \in Seq(Step) /\ built \in 0 .. Len(plan)
    BY DEF PlanInit
  <2> QED BY <2>1, <2>2 DEF PlanInit, PlanTypeOK
<1>2. PlanTypeOK /\ [PlanNext]_planVars => PlanTypeOK'
  <2> SUFFICES ASSUME PlanTypeOK, [PlanNext]_planVars PROVE PlanTypeOK'
    OBVIOUS
  <2>1. ASSUME NEW t \in Tables, Walk(t) PROVE PlanTypeOK'
    BY <2>1 DEF PlanTypeOK, Walk, input, Dependents
  <2>2. ASSUME NEW t \in Tables, Place(t) PROVE PlanTypeOK'
    <3> DEFINE e == [table |-> t, cascade |-> IF cycle THEN {} ELSE Refs(t)]
    <3>1. e \in Step
      BY DEF Step, Refs, Outgoing
    <3>2. plan' = Append(plan, e) /\ plan \in Seq(Step)
      BY <2>2 DEF Place, PlanTypeOK
    <3> HIDE DEF e
    <3>3. plan' \in Seq(Step) /\ Len(plan') = Len(plan) + 1
      BY <3>1, <3>2, Appended
    <3>4. Len(plan) \in Nat
      BY <3>2
    <3>5. built' \in 0 .. Len(plan')
      BY <2>2, <3>3, <3>4 DEF PlanTypeOK, Place
    <3> QED BY <2>2, <3>3, <3>5 DEF PlanTypeOK, Place, input
  <2>3. CASE FindCycle
    BY <2>3 DEF PlanTypeOK, FindCycle, input
  <2>4. CASE Build
    <3>1. plan \in Seq(Step) /\ Len(plan) \in Nat /\ built \in 0 .. Len(plan)
      BY DEF PlanTypeOK
    <3>2. built < Len(plan) /\ built' = built + 1 /\ plan' = plan
      BY <2>4 DEF Build
    <3>3. built' \in 0 .. Len(plan') /\ built + 1 \in DOMAIN plan
      BY <3>1, <3>2
    <3>4. plan[built + 1] \in Step
      BY <3>1, <3>3
    <3>5. visible' \subseteq Tables
      BY <2>4, <3>4 DEF Build, PlanTypeOK, Step
    <3> QED BY <2>4, <3>3, <3>5 DEF PlanTypeOK, Build, input
  <2>5. CASE UNCHANGED planVars
    BY <2>5 DEF PlanTypeOK, planVars, input
  <2> QED BY <2>1, <2>2, <2>3, <2>4, <2>5 DEF PlanNext
<1> QED BY <1>1, <1>2, PTL DEF PlanSpec

-----------------------------------------------------------------------------
(* The tables of the plan. *)

\* What has been walked has its dependents among the affected; whatever is
\* closed and holds the roots holds these.
WalkInv ==
  /\ roots \subseteq affected
  /\ queue \subseteq affected
  /\ \A t \in affected \ queue : Dependents(t) \subseteq affected
  /\ \A S \in SUBSET Tables : roots \subseteq S /\ Closed(S) => affected \subseteq S
  /\ plan # <<>> \/ cycle => queue = {}

LEMMA WalkIsSound == PlanSpec => []WalkInv
<1> USE DEF WalkInv, Closed
<1>1. PlanInit => WalkInv
  BY DEF PlanInit
<1>2. PlanTypeOK /\ WalkInv /\ [PlanNext]_planVars => WalkInv'
  <2> SUFFICES ASSUME PlanTypeOK, WalkInv, [PlanNext]_planVars PROVE WalkInv'
    OBVIOUS
  <2>d. UNCHANGED input => \A t : Dependents(t)' = Dependents(t)
    BY DEF input, Dependents, Outgoing
  <2>1. ASSUME NEW t \in Tables, Walk(t) PROVE WalkInv'
    <3>1. /\ t \in queue /\ UNCHANGED <<input, plan, cycle>>
          /\ affected' = affected \union Dependents(t)
          /\ queue' = (queue \ {t}) \union (Dependents(t) \ affected)
      BY <2>1 DEF Walk
    <3>2. roots' = roots
      BY <3>1 DEF input
    <3>3. \A S \in SUBSET Tables : roots \subseteq S /\ Closed(S) => affected' \subseteq S
      BY <3>1
    <3>4. \A s \in affected' \ queue' : Dependents(s) \subseteq affected'
      BY <3>1
    <3> QED BY <2>d, <3>1, <3>2, <3>3, <3>4
  <2>2. ASSUME UNCHANGED <<input, affected, queue>>, plan' # <<>> \/ cycle' => queue = {}
        PROVE  WalkInv'
    <3>1. roots' = roots
      BY <2>2 DEF input
    <3> QED BY <2>2, <2>d, <3>1
  <2>3. ASSUME NEW t \in Tables, Place(t) PROVE WalkInv'
    BY <2>2, <2>3 DEF Place
  <2>4. CASE FindCycle
    BY <2>2, <2>4 DEF FindCycle
  <2>5. CASE Build
    BY <2>2, <2>5 DEF Build
  <2>6. CASE UNCHANGED planVars
    BY <2>2, <2>6 DEF planVars
  <2> QED BY <2>1, <2>3, <2>4, <2>5, <2>6 DEF PlanNext
<1> QED BY <1>1, <1>2, PlanTypeCorrect, PTL DEF PlanSpec

\* Each table of the plan is affected and there once; a condition refers to an
\* earlier step; none is missing unless there is a cycle; and a pass that
\* places nothing has found one.
PlanInv ==
  /\ \A i \in DOMAIN plan : plan[i].table \in affected
  /\ \A i, j \in DOMAIN plan : plan[i].table = plan[j].table => i = j
  /\ PrerequisitesFirst
  /\ ~cycle => \A i \in DOMAIN plan : plan[i].cascade = Refs(plan[i].table)
  /\ cycle => Cyclic

LEMMA PlanIsSound == PlanSpec => []PlanInv
<1>1. PlanInit => PlanInv
  BY DEF PlanInit, PlanInv, PrerequisitesFirst
<1>2. PlanTypeOK /\ WalkInv /\ PlanInv /\ [PlanNext]_planVars => PlanInv'
  <2> SUFFICES ASSUME PlanTypeOK, WalkInv, PlanInv, [PlanNext]_planVars PROVE PlanInv'
    OBVIOUS
  <2>r. UNCHANGED <<input, affected>> =>
          (\A t : Refs(t)' = Refs(t)) /\ (Cyclic' <=> Cyclic)
    <3>1. UNCHANGED <<input, affected>> => \A t : Refs(t)' = Refs(t)
      BY DEF input, Refs, Outgoing
    <3> QED BY <3>1 DEF Cyclic
  <2>s. plan \in Seq(Step) /\ DOMAIN plan = 1 .. Len(plan) /\ Len(plan) \in Nat
    BY DEF PlanTypeOK
  <2>u. ASSUME UNCHANGED <<input, affected, cycle, plan>> PROVE PlanInv'
    BY <2>u, <2>r DEF PlanInv, PrerequisitesFirst
  <2>1. ASSUME NEW t \in Tables, Walk(t) PROVE PlanInv'
    <3>1. plan = <<>> /\ plan' = plan /\ ~cycle /\ cycle' = cycle
      BY <2>1 DEF Walk, WalkInv, PlanTypeOK
    <3>2. DOMAIN plan' = {}
      BY <3>1
    <3> QED BY <3>1, <3>2 DEF PlanInv, PrerequisitesFirst
  <2>2. ASSUME NEW t \in Tables, Place(t) PROVE PlanInv'
    <3> DEFINE e == [table |-> t, cascade |-> IF cycle THEN {} ELSE Refs(t)]
               n == Len(plan) + 1
    <3>1. e \in Step
      BY DEF Step, Refs, Outgoing
    <3>2. plan' = Append(plan, e) /\ t \in Remaining /\ (Ready(t) \/ cycle)
          /\ UNCHANGED <<input, affected, cycle>>
      BY <2>2 DEF Place
    <3>3. e.table = t /\ e.cascade = IF cycle THEN {} ELSE Refs(t)
      OBVIOUS
    <3> HIDE DEF e
    <3>4. /\ DOMAIN plan' = 1 .. n /\ plan'[n] = e
          /\ \A i \in DOMAIN plan : plan'[i] = plan[i]
      BY <2>s, <3>1, <3>2, Appended
    <3>5. t \in affected /\ \A i \in DOMAIN plan : plan[i].table # t
      BY <3>2 DEF Remaining, Placed
    <3>6. \A i \in DOMAIN plan' : i \in DOMAIN plan \/ i = n
      BY <2>s, <3>4
    <3>7. \A i \in DOMAIN plan' : plan'[i].table \in affected'
      BY <3>2, <3>3, <3>4, <3>5, <3>6 DEF PlanInv
    <3>8. \A i, j \in DOMAIN plan' : plan'[i].table = plan'[j].table => i = j
      <4> SUFFICES ASSUME NEW i \in DOMAIN plan', NEW j \in DOMAIN plan',
                          plan'[i].table = plan'[j].table
                   PROVE  i = j
        OBVIOUS
      <4>1. CASE i \in DOMAIN plan /\ j \in DOMAIN plan
        BY <3>4, <4>1 DEF PlanInv
      <4>2. CASE i = n \/ j = n
        BY <3>3, <3>4, <3>5, <3>6, <4>2
      <4> QED BY <3>6, <4>1, <4>2
    <3>9. PrerequisitesFirst'
      <4> SUFFICES ASSUME NEW i \in DOMAIN plan', NEW u \in plan'[i].cascade
                   PROVE  \E j \in 1 .. (i - 1) : plan'[j].table = u
        BY DEF PrerequisitesFirst
      <4>1. CASE i \in DOMAIN plan
        <5>1. PICK j \in 1 .. (i - 1) : plan[j].table = u
          BY <3>4, <4>1 DEF PlanInv, PrerequisitesFirst
        <5>2. j \in DOMAIN plan
          BY <2>s, <4>1
        <5> QED BY <3>4, <5>1, <5>2
      <4>2. CASE i = n
        <5>1. u \in Placed
          BY <3>2, <3>3, <3>4, <4>2 DEF Ready
        <5>2. PICK j \in DOMAIN plan : plan[j].table = u
          BY <5>1 DEF Placed
        <5>3. j \in 1 .. (i - 1)
          BY <2>s, <4>2
        <5> QED BY <3>4, <5>2, <5>3
      <4> QED BY <3>6, <4>1, <4>2
    <3>10. (~cycle => \A i \in DOMAIN plan : plan[i].cascade = Refs(plan[i].table))'
      <4> SUFFICES ASSUME ~cycle, NEW i \in DOMAIN plan'
                   PROVE  plan'[i].cascade = Refs(plan'[i].table)
        BY <2>r, <3>2
      <4>1. CASE i \in DOMAIN plan
        BY <3>4, <4>1 DEF PlanInv
      <4>2. CASE i = n
        BY <3>3, <3>4, <4>2
      <4> QED BY <3>6, <4>1, <4>2
    <3>11. cycle' => Cyclic'
      BY <2>r, <3>2 DEF PlanInv
    <3> QED BY <3>7, <3>8, <3>9, <3>10, <3>11 DEF PlanInv
  <2>3. CASE FindCycle
    <3>1. Remaining # {} /\ UNCHANGED <<input, affected, plan>>
      BY <2>3 DEF FindCycle
    <3>2. \A t \in Remaining : Refs(t) \intersect Remaining # {}
      <4> SUFFICES ASSUME NEW t \in Remaining PROVE Refs(t) \intersect Remaining # {}
        OBVIOUS
      <4>1. PICK u \in Refs(t) : u \notin Placed
        BY <2>3 DEF FindCycle, Ready
      <4> QED BY <4>1 DEF Refs, Remaining
    <3>3. Remaining \in SUBSET affected
      BY DEF Remaining
    <3>4. Cyclic
      BY <3>1, <3>2, <3>3 DEF Cyclic
    <3> QED BY <2>3, <2>r, <3>1, <3>4 DEF PlanInv, PrerequisitesFirst, FindCycle
  <2>4. CASE Build
    BY <2>4, <2>u DEF Build
  <2>5. CASE UNCHANGED planVars
    BY <2>5, <2>u DEF planVars
  <2> QED BY <2>1, <2>2, <2>3, <2>4, <2>5 DEF PlanNext
<1> QED BY <1>1, <1>2, PlanTypeCorrect, WalkIsSound, PTL DEF PlanSpec

\* Whatever the relationships are, the views a view selects from are built
\* before it.
THEOREM PrerequisitesComeFirst == PlanSpec => []PrerequisitesFirst
<1>1. PlanInv => PrerequisitesFirst
  BY DEF PlanInv
<1> QED BY <1>1, PlanIsSound, PTL

\* The plan is the roots and what is downstream of them, each table once.
THEOREM PlanIsWhatIsDownstream == PlanSpec => []PlanIsDownstream
<1>1. PlanTypeOK /\ WalkInv /\ PlanInv => PlanIsDownstream
  <2> SUFFICES ASSUME PlanTypeOK, WalkInv, PlanInv, Planned PROVE PlanIsDownstream
    BY DEF PlanIsDownstream
  <2>1. Placed = affected
    BY DEF Planned, Remaining, Placed, PlanInv
  <2>2. queue = {}
    BY DEF Planned
  <2> QED BY <2>1, <2>2 DEF PlanIsDownstream, WalkInv, PlanInv, Closed
<1> QED BY <1>1, PlanTypeCorrect, WalkIsSound, PlanIsSound, PTL

-----------------------------------------------------------------------------
(* The views. *)

\* Views are built after the plan; the view of a step that was taken shows the
\* row if it may, and its conditions were met, and still are.
ViewInv ==
  /\ built > 0 => Planned
  /\ \A t \in visible : \E i \in 1 .. built : plan[i].table = t
  /\ \A i \in 1 .. built :
       plan[i].table \in visible <=> /\ plan[i].table \in Present
                                    /\ plan[i].table \notin hidden
                                    /\ plan[i].cascade \subseteq visible

LEMMA ViewsAreSound == PlanSpec => []ViewInv
<1>1. PlanInit => ViewInv
  BY DEF PlanInit, ViewInv
<1>2. PlanTypeOK /\ PlanInv /\ ViewInv /\ [PlanNext]_planVars => ViewInv'
  <2> SUFFICES ASSUME PlanTypeOK, PlanInv, ViewInv, [PlanNext]_planVars PROVE ViewInv'
    OBVIOUS
  <2>s. plan \in Seq(Step) /\ DOMAIN plan = 1 .. Len(plan) /\ Len(plan) \in Nat
        /\ built \in 0 .. Len(plan)
    BY DEF PlanTypeOK
  <2>n. ASSUME ~Planned, built' = built, visible' = visible PROVE ViewInv'
    <3>1. built = 0
      BY <2>s, <2>n DEF ViewInv
    <3> QED BY <2>n, <3>1 DEF ViewInv
  <2>1. ASSUME NEW t \in Tables, Walk(t) PROVE ViewInv'
    BY <2>1, <2>n DEF Walk, Planned
  <2>2. ASSUME NEW t \in Tables, Place(t) PROVE ViewInv'
    BY <2>2, <2>n DEF Place, Planned
  <2>3. CASE FindCycle
    BY <2>3, <2>n DEF FindCycle, Planned
  <2>4. CASE Build
    <3> DEFINE n == built + 1
               step == plan[n]
    <3>1. Planned /\ built < Len(plan) /\ built' = n
          /\ UNCHANGED <<input, affected, queue, cycle, plan>>
      BY <2>4 DEF Build
    <3>2. n \in DOMAIN plan /\ 1 .. n = (1 .. built) \union {n}
          /\ (\A i \in 1 .. built : i \in DOMAIN plan /\ i # n)
      BY <2>s, <3>1
    <3>3. visible' = IF /\ step.table \in Present /\ step.table \notin hidden
                        /\ step.cascade \subseteq visible
                     THEN visible \union {step.table} ELSE visible
      BY <2>4 DEF Build
    <3>4. Present' = Present /\ hidden' = hidden /\ Planned'
      BY <3>1 DEF input, Present, Planned, Remaining, Placed
    <3>5. \A i \in 1 .. built : step.table # plan[i].table
      BY <3>2 DEF PlanInv
    <3>6. \A i \in 1 .. n : step.table \notin plan[i].cascade
      <4> SUFFICES ASSUME NEW i \in 1 .. n, step.table \in plan[i].cascade PROVE FALSE
        OBVIOUS
      <4>1. i \in DOMAIN plan
        BY <3>2
      <4>2. PICK j \in 1 .. (i - 1) : plan[j].table = step.table
        BY <4>1 DEF PlanInv, PrerequisitesFirst
      <4>3. j \in 1 .. built
        BY <2>s
      <4> QED BY <3>5, <4>2, <4>3
    <3>7. step.table \notin visible
      BY <3>5 DEF ViewInv
    <3>8. \A i \in 1 .. n : plan[i].cascade \subseteq visible' <=> plan[i].cascade \subseteq visible
      BY <3>3, <3>6
    <3>9. \A i \in 1 .. n :
            plan[i].table \in visible' <=> /\ plan[i].table \in Present
                                           /\ plan[i].table \notin hidden
                                           /\ plan[i].cascade \subseteq visible'
      <4>1. ASSUME NEW i \in 1 .. built
            PROVE  plan[i].table \in visible' <=> plan[i].table \in visible
        BY <3>3, <3>5
      <4>2. step.table \in visible' <=> /\ step.table \in Present
                                        /\ step.table \notin hidden
                                        /\ step.cascade \subseteq visible
        BY <3>3, <3>7
      <4> HIDE DEF step
      <4> QED BY <3>2, <3>8, <4>1, <4>2 DEF ViewInv, step
    <3>10. \A t \in visible' : \E i \in 1 .. n : plan[i].table = t
      BY <3>2, <3>3 DEF ViewInv
    <3> QED BY <3>1, <3>4, <3>9, <3>10 DEF ViewInv
  <2>5. CASE UNCHANGED planVars
    BY <2>5 DEF planVars, input, ViewInv, Planned, Remaining, Placed, Present
  <2> QED BY <2>1, <2>2, <2>3, <2>4, <2>5 DEF PlanNext
<1> QED BY <1>1, <1>2, PlanTypeCorrect, PlanIsSound, PTL DEF PlanSpec

\* Without a cycle in the relationships a row is shown exactly if the caller
\* may see it and everything it refers to is shown.
THEOREM ShownMeansRefsAreShown == PlanSpec => []ShownIfRefsAreShown
<1>1. PlanTypeOK /\ PlanInv /\ ViewInv => ShownIfRefsAreShown
  <2> SUFFICES ASSUME PlanTypeOK, PlanInv, ViewInv, Done, ~Cyclic, NEW t \in affected
               PROVE  t \in visible <=> /\ t \in Present /\ t \notin hidden
                                       /\ Refs(t) \subseteq visible
    BY DEF ShownIfRefsAreShown
  <2>1. PICK i \in DOMAIN plan : plan[i].table = t
    BY DEF Done, Planned, Remaining, Placed
  <2>2. plan[i].cascade = Refs(t)
    BY <2>1 DEF PlanInv
  <2>3. i \in 1 .. built
    BY <2>1 DEF Done, PlanTypeOK
  <2> QED BY <2>1, <2>2, <2>3 DEF ViewInv
<1> QED BY <1>1, PlanTypeCorrect, PlanIsSound, ViewsAreSound, PTL

-----------------------------------------------------------------------------
(* The cached ids of one person and one record type: FilterAccess. *)

\* What a fetch may still find was permitted since it began: what SPP permits
\* now, and what the REST API remembers. Any fetch makes SPP forget for all.
FindsPermitted ==
  \A j \in Jobs : pc[j] \in Fetching => /\ permitted \subseteq may[j]
                                        /\ session \subseteq may[j]

Inv == TypeOK /\ FindsPermitted /\ CachedWasPermitted

\* Only pages of the listing that the REST API has are ever fetched.
LEMMA PagesOfListing ==
  /\ \A n \in Nat : Page(n) \subseteq session
  /\ OtherPages \subseteq 1 .. MaxId
BY DEF Page, OtherPages

-----------------------------------------------------------------------------
(* Types. *)

LEMMA InitType == Init => TypeOK
BY DEF Init, TypeOK

LEMMA TypeStep == TypeOK /\ [Next]_vars => TypeOK'
<1> SUFFICES ASSUME TypeOK, [Next]_vars
             PROVE  TypeOK'
  OBVIOUS
<1> USE ConstantsAssumption DEF TypeOK, Goto, Answer
<1>1. CASE Connect
  BY <1>1 DEF Connect, sppVars, fetchVars, historyVars
<1>2. ASSUME NEW id \in Ids, Grant(id)
      PROVE  TypeOK'
  <2>1. permitted' \subseteq Ids /\ changes' \in Nat
    BY <1>2 DEF Grant
  <2>2. may' \in [Jobs -> SUBSET Ids]
    BY <1>2 DEF Grant
  <2> QED
    BY <1>2, <2>1, <2>2 DEF Grant, fetchVars
<1>3. ASSUME NEW id \in Ids, Revoke(id)
      PROVE  TypeOK'
  <2>1. permitted' \subseteq Ids /\ changes' \in Nat /\ session' \subseteq Ids
    BY <1>3 DEF Revoke
  <2>2. must' \in [Jobs -> SUBSET Ids]
    BY <1>3 DEF Revoke
  <2> QED
    BY <1>3, <2>1, <2>2 DEF Revoke, fetchVars
<1>4. ASSUME NEW j \in Jobs, Start(j)
      PROVE  TypeOK'
  BY <1>4 DEF Start, sppVars, fetchVars, historyVars
<1>5. ASSUME NEW j \in Jobs, NotConnected(j)
      PROVE  TypeOK'
  BY <1>5 DEF NotConnected, sppVars, fetchVars, historyVars
<1>6. ASSUME NEW j \in Jobs, RefreshFilterSetCache(j)
      PROVE  TypeOK'
  BY <1>6 DEF RefreshFilterSetCache, Since, Fetching, fetchVars
<1>7. ASSUME NEW j \in Jobs, FirstPage(j)
      PROVE  TypeOK'
  <2>1. Page(0) \subseteq Ids /\ OtherPages \subseteq 1 .. MaxId
    BY PagesOfListing
  <2> QED
    BY <1>7, <2>1 DEF FirstPage, Fetching, sppVars, historyVars
<1>8. ASSUME NEW j \in Jobs, NEW n \in left[j], OtherPage(j, n)
      PROVE  TypeOK'
  <2>1. n \in Nat
    OBVIOUS
  <2>2. Page(n) \subseteq Ids
    BY <2>1, PagesOfListing
  <2> QED
    BY <1>8, <2>2 DEF OtherPage, Fetching, sppVars, historyVars
<1>9. ASSUME NEW j \in Jobs, Save(j)
      PROVE  TypeOK'
  <2>1. Found(j) \in Item
    BY DEF Found, Item
  <2> QED
    BY <1>9, <2>1 DEF Save, sppVars, fetchVars, historyVars
<1>10. ASSUME NEW j \in Jobs, Fail(j)
       PROVE  TypeOK'
  BY <1>10 DEF Fail, sppVars, fetchVars, historyVars
<1>11. CASE UNCHANGED vars
  BY <1>11 DEF vars, sppVars, fetchVars, historyVars
<1> QED
  BY <1>1, <1>2, <1>3, <1>4, <1>5, <1>6, <1>7, <1>8, <1>9, <1>10, <1>11
  DEF Next, Run

\* Every reachable state of a fetch has its type.
THEOREM TypeCorrect == Spec => []TypeOK
BY InitType, TypeStep, PTL DEF Spec

-----------------------------------------------------------------------------
(* sppRestClient.js and filterCache.js: what is fetched and cached. *)

LEMMA InitInv == Init => FindsPermitted /\ CachedWasPermitted
BY DEF Init, FindsPermitted, CachedWasPermitted, Fetching

LEMMA InvStep == Inv /\ [Next]_vars => (FindsPermitted /\ CachedWasPermitted)'
<1> SUFFICES ASSUME Inv, [Next]_vars
             PROVE  (FindsPermitted /\ CachedWasPermitted)'
  OBVIOUS
<1> USE DEF Inv, TypeOK, FindsPermitted, CachedWasPermitted, Fetching, Goto,
            Answer
<1>1. CASE Connect
  BY <1>1 DEF Connect, sppVars, fetchVars, historyVars
<1>2. ASSUME NEW id \in Ids, Grant(id)
      PROVE  (FindsPermitted /\ CachedWasPermitted)'
  \* The record is added to what every fetch under way may find.
  <2>1. \A j \in Jobs : may'[j] = may[j] \union {id}
    BY <1>2 DEF Grant
  <2>2. permitted' = permitted \union {id}
    BY <1>2 DEF Grant
  <2>3. UNCHANGED <<session, cache, pc, got>>
    BY <1>2 DEF Grant, fetchVars
  <2> QED
    BY <2>1, <2>2, <2>3
<1>3. ASSUME NEW id \in Ids, Revoke(id)
      PROVE  (FindsPermitted /\ CachedWasPermitted)'
  <2>1. permitted' \subseteq permitted /\ session' \subseteq session
    BY <1>3 DEF Revoke
  <2>2. UNCHANGED <<may, cache, pc, got>>
    BY <1>3 DEF Revoke, fetchVars
  <2> QED
    BY <2>1, <2>2
<1>4. ASSUME NEW j \in Jobs, Start(j)
      PROVE  (FindsPermitted /\ CachedWasPermitted)'
  BY <1>4 DEF Start, sppVars, fetchVars, historyVars
<1>5. ASSUME NEW j \in Jobs, NotConnected(j)
      PROVE  (FindsPermitted /\ CachedWasPermitted)'
  BY <1>5 DEF NotConnected, sppVars, fetchVars, historyVars
<1>6. ASSUME NEW j \in Jobs, RefreshFilterSetCache(j)
      PROVE  (FindsPermitted /\ CachedWasPermitted)'
  \* The other fetches under way come to see what is permitted now.
  <2>1. session' = permitted /\ permitted' = permitted
    BY <1>6 DEF RefreshFilterSetCache
  <2>2. may' = [may EXCEPT ![j] = permitted]
    BY <1>6 DEF RefreshFilterSetCache, Since
  <2>3. pc' = [pc EXCEPT ![j] = "first"] /\ UNCHANGED <<cache, got>>
    BY <1>6 DEF RefreshFilterSetCache, fetchVars
  <2> QED
    BY <2>1, <2>2, <2>3
<1>7. ASSUME NEW j \in Jobs, FirstPage(j)
      PROVE  (FindsPermitted /\ CachedWasPermitted)'
  <2>1. Page(0) \subseteq may[j]
    BY <1>7, PagesOfListing DEF FirstPage
  <2> QED
    BY <1>7, <2>1 DEF FirstPage, sppVars, historyVars
<1>8. ASSUME NEW j \in Jobs, NEW n \in left[j], OtherPage(j, n)
      PROVE  (FindsPermitted /\ CachedWasPermitted)'
  <2>1. n \in Nat
    OBVIOUS
  <2>2. Page(n) \subseteq may[j]
    BY <1>8, <2>1, PagesOfListing DEF OtherPage
  <2> QED
    BY <1>8, <2>2 DEF OtherPage, sppVars, historyVars
<1>9. ASSUME NEW j \in Jobs, Save(j)
      PROVE  (FindsPermitted /\ CachedWasPermitted)'
  BY <1>9 DEF Save, Found, sppVars, fetchVars, historyVars
<1>10. ASSUME NEW j \in Jobs, Fail(j)
       PROVE  (FindsPermitted /\ CachedWasPermitted)'
  BY <1>10 DEF Fail, sppVars, fetchVars, historyVars
<1>11. CASE UNCHANGED vars
  BY <1>11 DEF vars, sppVars, fetchVars, historyVars
<1> QED
  BY <1>1, <1>2, <1>3, <1>4, <1>5, <1>6, <1>7, <1>8, <1>9, <1>10, <1>11
  DEF Next, Run

\* However fetches overlap and whatever SPP grants and revokes meanwhile, a
\* cached id was permitted after the fetch that found it had begun.
THEOREM CachedIsPermitted == Spec => []CachedWasPermitted
<1>1. Init => Inv
  BY InitType, InitInv DEF Inv
<1>2. Inv /\ [Next]_vars => Inv'
  BY TypeStep, InvStep DEF Inv
<1>3. Inv => CachedWasPermitted
  BY DEF Inv
<1> QED
  BY <1>1, <1>2, <1>3, PTL DEF Spec

-----------------------------------------------------------------------------
(* What is found when nothing changes.                                     *)
(*                                                                         *)
(* The ids are numbered by their place in the listing of the moment, so    *)
(* pages fetched from different listings overlap or leave gaps. A fetch is  *)
(* exact when all its pages are of one listing; that they then are all of   *)
(* it is arithmetic on places and pages.                                   *)

\* The pages that a first page announces, with that one, are the whole listing.
LEMMA PageArithmetic ==
  ASSUME NEW place \in Nat, NEW size \in Nat \ {0}
  PROVE  LET n == place \div size
         IN  /\ n \in Nat /\ n <= place
             /\ n * size <= place /\ place <= n * size + size - 1
<1>1. /\ place \div size \in Nat
      /\ (place \div size) * size <= place
      /\ place <= (place \div size) * size + size - 1
  OBVIOUS
<1>2. \A n \in Nat : n <= n * size
  <2> SUFFICES ASSUME NEW n \in Nat PROVE n <= n * size
    OBVIOUS
  <2>1. n * size = n + n * (size - 1)
    OBVIOUS
  <2>2. n * (size - 1) \in Nat
    OBVIOUS
  <2> QED
    BY <2>1, <2>2
<1>3. place \div size <= (place \div size) * size
  BY <1>1, <1>2
<1>4. (place \div size) * size \in Nat
  BY <1>1
<1> QED
  BY <1>1, <1>3, <1>4

LEMMA ListingIsCovered ==
  ASSUME TypeOK, NEW id \in session
  PROVE  \E n \in {0} \union OtherPages : id \in Page(n)
<1> DEFINE before == {other \in session : other < id}
<1>1. IsFiniteSet(session) /\ Cardinality(session) \in 0 .. MaxId
  <2>1. IsFiniteSet(1 .. MaxId) /\ Cardinality(1 .. MaxId) = MaxId
    BY FS_Interval, ConstantsAssumption
  <2>2. session \in SUBSET (1 .. MaxId)
    BY DEF TypeOK, Ids
  <2>3. IsFiniteSet(session) /\ Cardinality(session) <= Cardinality(1 .. MaxId)
    BY <2>1, <2>2, FS_Subset
  <2> QED
    BY <2>1, <2>3, FS_CardinalityType, ConstantsAssumption
<1>2. Cardinality(before) \in Nat /\ Cardinality(before) < Cardinality(session)
  <2>1. IsFiniteSet(session \ {id})
        /\ Cardinality(session \ {id}) = Cardinality(session) - 1
    BY <1>1, FS_RemoveElement
  <2>2. before \in SUBSET (session \ {id})
    BY DEF TypeOK, Ids
  <2>3. IsFiniteSet(before) /\ Cardinality(before) <= Cardinality(session \ {id})
    BY <2>1, <2>2, FS_Subset
  <2>4. Cardinality(before) \in Nat
    BY <2>3, FS_CardinalityType
  <2> QED
    BY <1>1, <2>1, <2>3, <2>4
<1>3. Rank(id) = Cardinality(before)
  BY DEF Rank
<1> HIDE DEF before
<1> DEFINE n == Rank(id) \div PageSize
<1>4. /\ n \in Nat /\ n <= Rank(id)
      /\ n * PageSize <= Rank(id) /\ Rank(id) <= n * PageSize + PageSize - 1
  BY <1>2, <1>3, PageArithmetic, ConstantsAssumption
<1>5. n * PageSize \in Nat /\ PageSize \in Nat
  BY <1>4, ConstantsAssumption
<1> HIDE DEF n
<1>6. id \in Page(n)
  BY <1>2, <1>3, <1>4, <1>5 DEF Page
<1>7. n \in {0} \union OtherPages
  <2>1. n <= MaxId /\ n * PageSize < Cardinality(session)
    BY <1>1, <1>2, <1>3, <1>4, <1>5, ConstantsAssumption
  <2> QED
    BY <1>4, <2>1, ConstantsAssumption DEF OtherPages
<1> QED
  BY <1>6, <1>7

\* What was permitted all the time, and what the REST API has, are between
\* "must" and "may"; a change puts these apart for good.
Between(j) == /\ must[j] \subseteq permitted /\ permitted \subseteq may[j]
              /\ must[j] \subseteq session   /\ session \subseteq may[j]

\* While nothing changes, what is found and what is left to find are all.
Complete(j) ==
  may[j] = must[j] =>
    /\ got[j] \subseteq session
    /\ \A id \in session : id \in got[j] \/ \E n \in left[j] : id \in Page(n)

ExactInv ==
  \A j \in Jobs : /\ pc[j] \in Fetching => Between(j)
                  /\ pc[j] \in {"pages", "save"} => Complete(j)
                  /\ pc[j] = "save" => left[j] = {}

\* A job that does not step sees at most its listing change, and not that if
\* its "may" and its "must" stay the same.
LEMMA OthersComplete ==
  ASSUME TypeOK, ExactInv, NEW j \in Jobs, pc[j] \in {"pages", "save"},
         UNCHANGED <<got[j], left[j]>>,
         may[j] \subseteq may'[j], must'[j] \subseteq must[j],
         Between(j)'
  PROVE  Complete(j)'
<1> SUFFICES ASSUME may'[j] = must'[j] PROVE Complete(j)'
  BY DEF Complete
<1>1. Between(j) /\ Complete(j)
  BY DEF ExactInv, Fetching
<1>2. may[j] = must[j] /\ session = may[j] /\ session' = may'[j] /\ session' = session
  BY <1>1 DEF Between
<1>3. \A n : Page(n)' = Page(n)
  BY <1>2 DEF Page, Rank
<1> QED
  BY <1>1, <1>2, <1>3 DEF Complete

LEMMA ExactStep == TypeOK /\ ExactInv /\ [Next]_vars => ExactInv'
<1> SUFFICES ASSUME TypeOK, ExactInv, [Next]_vars PROVE ExactInv'
  OBVIOUS
<1>o. ASSUME NEW j \in Jobs, UNCHANGED <<pc[j], got[j], left[j]>>,
             may[j] \subseteq may'[j], must'[j] \subseteq must[j],
             pc[j] \in Fetching => Between(j)'
      PROVE  /\ pc'[j] \in Fetching => Between(j)'
             /\ pc'[j] \in {"pages", "save"} => Complete(j)'
             /\ pc'[j] = "save" => left'[j] = {}
  BY <1>o, OthersComplete DEF ExactInv, Fetching
<1>1. CASE Connect \/ UNCHANGED vars
  <2>1. UNCHANGED <<pc, got, left, may, must, permitted, session>>
    BY <1>1 DEF Connect, vars, sppVars, fetchVars, historyVars
  <2> QED
    BY <1>o, <2>1 DEF ExactInv, Between
<1>2. ASSUME NEW id \in Ids, Grant(id) PROVE ExactInv'
  <2>1. /\ UNCHANGED <<pc, got, left, must, session>>
        /\ permitted' = permitted \union {id}
        /\ \A j \in Jobs : may'[j] = may[j] \union {id}
    BY <1>2 DEF Grant, fetchVars
  <2>2. \A j \in Jobs : pc[j] \in Fetching => Between(j)'
    BY <2>1 DEF ExactInv, Between
  <2> QED
    BY <1>o, <2>1, <2>2 DEF ExactInv
<1>3. ASSUME NEW id \in Ids, Revoke(id) PROVE ExactInv'
  <2>1. /\ UNCHANGED <<pc, got, left, may>>
        /\ permitted' = permitted \ {id}
        /\ session' \in {session, session \ {id}}
        /\ \A j \in Jobs : must'[j] = must[j] \ {id}
    BY <1>3 DEF Revoke, fetchVars
  <2>2. \A j \in Jobs : pc[j] \in Fetching => Between(j)'
    BY <2>1 DEF ExactInv, Between
  <2> QED
    BY <1>o, <2>1, <2>2 DEF ExactInv
<1>4. ASSUME NEW j \in Jobs, Start(j) \/ NotConnected(j) \/ Fail(j) \/ Save(j)
      PROVE  ExactInv'
  <2>1. /\ UNCHANGED <<got, left, may, must, permitted, session>>
        /\ pc'[j] \in {"idle", "refresh"}
        /\ \A k \in Jobs \ {j} : pc'[k] = pc[k]
    BY <1>4 DEF Start, NotConnected, Fail, Save, Goto, sppVars, fetchVars,
                historyVars, TypeOK
  <2>2. \A k \in Jobs : pc[k] \in Fetching => Between(k)'
    BY <2>1 DEF ExactInv, Between
  <2> QED
    BY <1>o, <2>1, <2>2 DEF ExactInv, Fetching
<1>5. ASSUME NEW j \in Jobs, RefreshFilterSetCache(j) PROVE ExactInv'
  <2>1. /\ UNCHANGED <<got, left, permitted>> /\ session' = permitted
        /\ pc'[j] = "first" /\ may'[j] = permitted /\ must'[j] = permitted
        /\ \A k \in Jobs \ {j} : UNCHANGED <<pc[k], may[k], must[k]>>
    BY <1>5 DEF RefreshFilterSetCache, Since, Goto, fetchVars, TypeOK
  <2>2. \A k \in Jobs \ {j} : pc[k] \in Fetching => Between(k)'
    BY <2>1 DEF ExactInv, Between
  <2>3. Between(j)'
    BY <2>1 DEF Between
  <2> QED
    BY <1>o, <2>1, <2>2, <2>3 DEF ExactInv
<1>6. ASSUME NEW j \in Jobs, FirstPage(j) PROVE ExactInv'
  <2>1. /\ UNCHANGED <<may, must, permitted, session>>
        /\ pc[j] = "first" /\ got'[j] = Page(0) /\ left'[j] = OtherPages
        /\ pc'[j] = IF OtherPages = {} THEN "save" ELSE "pages"
        /\ \A k \in Jobs \ {j} : UNCHANGED <<pc[k], got[k], left[k]>>
    BY <1>6 DEF FirstPage, Goto, sppVars, historyVars, TypeOK
  <2>2. \A k \in Jobs : pc[k] \in Fetching => Between(k)'
    BY <2>1 DEF ExactInv, Between
  <2>3. \A n : Page(n)' = Page(n)
    BY <2>1 DEF Page, Rank
  <2>4. Complete(j)'
    BY <2>1, <2>3, ListingIsCovered, PagesOfListing DEF Complete
  <2>5. Between(j)' /\ (pc'[j] = "save" => left'[j] = {})
    BY <2>1, <2>2 DEF Fetching
  <2> QED
    BY <1>o, <2>1, <2>2, <2>4, <2>5 DEF ExactInv
<1>7. ASSUME NEW j \in Jobs, NEW n \in left[j], OtherPage(j, n) PROVE ExactInv'
  <2>1. /\ UNCHANGED <<may, must, permitted, session>>
        /\ pc[j] = "pages" /\ got'[j] = got[j] \union Page(n)
        /\ left'[j] = left[j] \ {n}
        /\ pc'[j] = IF left[j] = {n} THEN "save" ELSE "pages"
        /\ \A k \in Jobs \ {j} : UNCHANGED <<pc[k], got[k], left[k]>>
    BY <1>7 DEF OtherPage, Goto, sppVars, historyVars, TypeOK
  <2>2. \A k \in Jobs : pc[k] \in Fetching => Between(k)'
    BY <2>1 DEF ExactInv, Between
  <2>3. \A m : Page(m)' = Page(m)
    BY <2>1 DEF Page, Rank
  <2>4. Page(n) \subseteq session
    BY DEF Page
  <2>5. Complete(j)'
    BY <2>1, <2>3, <2>4 DEF ExactInv, Complete
  <2>6. Between(j)' /\ (pc'[j] = "save" => left'[j] = {})
    BY <2>1, <2>2 DEF Fetching
  <2> QED
    BY <1>o, <2>1, <2>2, <2>5, <2>6 DEF ExactInv
<1> QED
  BY <1>1, <1>2, <1>3, <1>4, <1>5, <1>6, <1>7 DEF Next, Run

\* A fetch during which SPP grants and revokes nothing finds exactly what is
\* permitted, in whatever order its pages arrive and whatever other fetches
\* make the REST API forget meanwhile.
THEOREM FetchIsExact == Spec => []QuietFetchIsExact
<1>1. Init => ExactInv
  BY DEF Init, ExactInv, Fetching
<1>2. ExactInv => QuietFetchIsExact
  BY DEF ExactInv, QuietFetchIsExact, Between, Complete, Fetching
<1> QED
  BY <1>1, <1>2, ExactStep, TypeCorrect, PTL DEF Spec
=============================================================================
