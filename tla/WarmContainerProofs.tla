------------------------ MODULE WarmContainerProofs ------------------------
(***************************************************************************)
(* What applyFilterScope relies on, for any tables, configs and callers.   *)
(***************************************************************************)
EXTENDS WarmContainer, TLAPS

\* The scoping steps run for a caller who said who they are.
SomebodyAsked == pc \in {"rename", "build", "tools"} => caller \in Callers

\* Every variable keeps its type, whatever S3 does.
THEOREM TypeCorrect == Spec => [](TypeOK /\ SomebodyAsked)
<1> USE ConstantsAssumption
<1> DEFINE Inv == TypeOK /\ SomebodyAsked
<1>n. 1 \in Versions /\ Nothing \in [Tables -> Nat \union {None}]
                    /\ Nothing \in [Tables -> Callers \union {Empty, None}]
  <2>1. Len(ReportViews) \in Nat
    OBVIOUS
  <2> QED BY <2>1 DEF Versions, Nothing
<1>1. Init => Inv
  <2> SUFFICES ASSUME Init PROVE Inv
    OBVIOUS
  <2>1. file \in [Tables -> Nat] /\ condition \in [Tables -> Conditions]
    BY DEF Init
  <2>2. pc \in Steps /\ SomebodyAsked
    BY DEF Init, Steps, SomebodyAsked
  <2>3. /\ manifest = Nothing /\ base = Nothing /\ raw = Nothing
        /\ view = Nothing /\ current = Nothing
        /\ configSlipped = FALSE /\ slipped = {}
    BY DEF Init
  <2>4. /\ config \in Versions /\ loaded \in Versions /\ seen \in Versions
        /\ configStamp \in Versions \union {None}
    BY <1>n DEF Init
  <2>5. /\ configBroken \in BOOLEAN /\ rewrites \in Nat /\ failures \in Nat
        /\ warm \in BOOLEAN /\ caller \in Callers \union {Nobody}
        /\ todo \subseteq Tables /\ after \in {"recordFresh", "recordSeen"}
    BY DEF Init
  <2> QED BY <1>n, <2>1, <2>2, <2>3, <2>4, <2>5 DEF TypeOK
<1>2. Inv /\ [Next]_vars => Inv'
  <2> SUFFICES ASSUME TypeOK, SomebodyAsked, [Next]_vars PROVE Inv'
    OBVIOUS
  <2> USE DEF SomebodyAsked
  <2>h. Heads \in [Tables -> Nat \union {None}]
    BY DEF Heads, HeadOf, TypeOK
  <2>m. ASSUME NEW m, ReadHeads(m)
        PROVE  m \in [Tables -> Nat \union {None}] /\ failures' \in Nat
    <3>1. CASE m = Heads /\ UNCHANGED failures
      BY <2>h, <3>1 DEF TypeOK
    <3>2. CASE \E t \in Tables : m = [Heads EXCEPT ![t] = None] /\ Failure
      BY <2>h, <3>2 DEF TypeOK, Failure
    <3> QED BY <2>m, <3>1, <3>2 DEF ReadHeads
  <2>v. ReportViews[config] \subseteq Tables
    BY Len(ReportViews) \in Nat DEF TypeOK, Versions
  <2>r. Ready \in Steps /\ (Ready # "idle" => caller \in Callers)
    BY DEF Ready, Steps, TypeOK
  <2>1. ASSUME NEW t \in Tables, Rewrite(t) PROVE Inv'
    <3>1. /\ file' \in [Tables -> Nat] /\ condition' \in [Tables -> Conditions]
          /\ rewrites' \in Nat
      BY <2>1 DEF Rewrite, TypeOK
    <3>2. slipped' \subseteq Tables
      BY <2>1, Zenon DEF Rewrite, TypeOK
    <3> QED BY <2>1, <3>1, <3>2 DEF TypeOK, Rewrite, cacheVars, requestVars
  <2>2. CASE EditConfig
    <3>1. config' \in Versions /\ configSlipped' \in BOOLEAN
      BY <2>2, Len(ReportViews) \in Nat DEF EditConfig, TypeOK, Versions
    <3> QED BY <2>2, <3>1 DEF TypeOK, EditConfig, cacheVars, catalogVars,
                              requestVars
  <2>3. ASSUME NEW c \in Callers \union {Nobody}, Arrive(c) PROVE Inv'
    BY <2>3 DEF TypeOK, Arrive, s3Vars, cacheVars, catalogVars, Steps
  <2>4. CASE ConfigHead
    BY <2>4 DEF TypeOK, ConfigHead, s3Vars, cacheVars, catalogVars, Failure, Steps
  <2>5. CASE Reload
    <3>1. /\ loaded' \in Versions /\ todo' \subseteq Tables
          /\ configStamp' \in Versions \union {None}
          /\ configSlipped' \in BOOLEAN
          /\ after' \in {"recordFresh", "recordSeen"}
      <4>1. CASE Throws
        BY <4>1 DEF TypeOK, Throws
      <4>2. CASE ~Throws
        BY <2>v, <2>5, <4>2 DEF TypeOK, Reload
      <4> QED BY <4>1, <4>2
    <3>2. failures' \in Nat
      BY <2>5 DEF TypeOK, Reload, Failure
    <3>3. pc' \in {"idle", "materialize", "loadHead"}
      BY <2>5 DEF Reload, Throws
    <3> QED BY <2>5, <3>1, <3>2, <3>3 DEF TypeOK, Reload, s3Vars, catalogVars, Steps
  <2>6. CASE Load
    <3>1. /\ loaded' \in Versions /\ todo' \subseteq Tables
          /\ configStamp' \in Versions \union {None}
          /\ configSlipped' \in BOOLEAN
          /\ after' \in {"recordFresh", "recordSeen"}
      <4>1. CASE Throws
        BY <4>1 DEF TypeOK, Throws
      <4>2. CASE ~Throws
        BY <2>v, <2>6, <4>2 DEF TypeOK, Load
      <4> QED BY <4>1, <4>2
    <3>2. failures' \in Nat
      BY <2>6 DEF TypeOK, Load, Failure
    <3>3. pc' \in {"idle", "materialize", "loadHead"}
      BY <2>6 DEF Load, Throws
    <3> QED BY <2>6, <3>1, <3>2, <3>3 DEF TypeOK, Load, s3Vars, catalogVars, Steps
  <2>7. CASE LoadHead
    BY <2>7 DEF TypeOK, LoadHead, s3Vars, catalogVars, Failure, Steps
  <2>8. CASE ManifestHead
    <3>1. current' \in [Tables -> Nat \union {None}] /\ failures' \in Nat
      BY <2>m, <2>8 DEF ManifestHead
    <3> QED BY <2>8, <2>r, <3>1 DEF TypeOK, ManifestHead, s3Vars, cacheVars,
                                    catalogVars, Steps, Versions
  <2>9. ASSUME NEW t \in Tables, Materialize(t) PROVE Inv'
    <3>1. base' \in [Tables -> Nat \union {None}] /\ failures' \in Nat
      <4>1. base' = [base EXCEPT ![t] = file[t]] \/ base' = [base EXCEPT ![t] = None]
        BY <2>9 DEF Materialize
      <4>2. file[t] \in Nat
        BY DEF TypeOK
      <4>3. failures' \in Nat
        BY <2>9 DEF Materialize, Failure, TypeOK
      <4> QED BY <4>1, <4>2, <4>3 DEF TypeOK
    <3> QED BY <2>9, <3>1 DEF TypeOK, Materialize, Cleared, s3Vars, cacheVars
  <2>10. CASE Materialized
    BY <2>10 DEF TypeOK, Materialized, s3Vars, cacheVars, catalogVars, Steps
  <2>11. CASE RecordFresh
    <3>1. manifest' \in [Tables -> Nat \union {None}] /\ failures' \in Nat
      BY <2>m, <2>11 DEF RecordFresh
    <3> QED BY <2>11, <2>r, <3>1 DEF TypeOK, RecordFresh, s3Vars, catalogVars
  <2>12. CASE RecordSeen
    BY <2>12, <2>r DEF TypeOK, RecordSeen, s3Vars, catalogVars
  <2>13. CASE Rename
    BY <2>13 DEF TypeOK, Rename, s3Vars, cacheVars, Steps
  <2>14. CASE Build
    <3>1. pc = "build" /\ UNCHANGED <<s3Vars, failures, cacheVars, base, raw,
                                      caller, seen, current, todo, after>>
      BY <2>14 DEF Build
    <3>2. view' \in [Tables -> Callers \union {Empty, None}]
      <4>1. \A t \in Tables : ViewFor(t) \in Callers \union {Empty, None}
        BY <3>1 DEF ViewFor, TypeOK
      <4> QED BY <2>14, <4>1 DEF Build, TypeOK
    <3> QED BY <3>1, <3>2, <2>14 DEF TypeOK, Build, s3Vars, cacheVars, Steps
  <2>15. CASE Finish
    BY <2>15 DEF TypeOK, Finish, s3Vars, cacheVars, catalogVars, Steps
  <2>16. CASE Recycle
    BY <1>n, <2>16 DEF TypeOK, Recycle, s3Vars, Steps
  <2>17. CASE UNCHANGED vars
    BY <2>17 DEF TypeOK, vars, s3Vars, cacheVars, catalogVars, requestVars
  <2> QED BY <2>1, <2>2, <2>3, <2>4, <2>5, <2>6, <2>7, <2>8, <2>9, <2>10, <2>11,
             <2>12, <2>13, <2>14, <2>15, <2>16, <2>17 DEF Next, Serve
<1> QED BY <1>1, <1>2, PTL DEF Spec

\* A view has its table behind it.
ViewsHaveTables == \A t \in Tables : raw[t] = None => view[t] = None

\* After the renaming, no table answers to a scoped name any more.
AllRenamed == pc \in {"build", "tools"} => \A t \in Scoped : base[t] = None

\* A view that is there at the time of the tools is of this caller.
ViewsAreTheirs ==
  pc = "tools" => \A t \in Scoped : view[t] \in {None, Empty, caller}

ScopingInv == RenameIsFree /\ ViewsHaveTables /\ AllRenamed /\ ViewsAreTheirs

\* Materialising and scoping never meet on a name, and the tools see only the
\* caller's views, however S3 changes and the container fails in between.
THEOREM ScopingIsSafe == Spec => []ScopingInv
<1>1. Init => ScopingInv
  BY ConstantsAssumption DEF Init, Nothing, ScopingInv, RenameIsFree,
     ViewsHaveTables, AllRenamed, ViewsAreTheirs
<1>2. TypeOK /\ SomebodyAsked /\ ScopingInv /\ [Next]_vars => ScopingInv'
  <2> SUFFICES ASSUME TypeOK, SomebodyAsked, ScopingInv, [Next]_vars
               PROVE  ScopingInv'
    OBVIOUS
  <2> USE DEF ScopingInv, RenameIsFree, ViewsHaveTables, AllRenamed,
              ViewsAreTheirs, Scoped
  <2>o. ASSUME UNCHANGED catalogVars, pc' \notin {"build", "tools"}
        PROVE  ScopingInv'
    BY <2>o DEF catalogVars
  <2>s. ASSUME UNCHANGED catalogVars, UNCHANGED <<pc, caller, loaded>>
        PROVE  ScopingInv'
    BY <2>s DEF catalogVars
  <2>r. Ready \notin {"build", "tools"}
    BY DEF Ready
  <2>1. ASSUME NEW t \in Tables, Rewrite(t) PROVE ScopingInv'
    BY <2>1, <2>s DEF Rewrite, requestVars, cacheVars
  <2>2. CASE EditConfig
    BY <2>2, <2>s DEF EditConfig, requestVars, cacheVars
  <2>3. ASSUME NEW c \in Callers \union {Nobody}, Arrive(c) PROVE ScopingInv'
    BY <2>3, <2>o DEF Arrive
  <2>4. CASE ConfigHead
    BY <2>4, <2>o DEF ConfigHead
  <2>5. CASE Reload
    BY <2>5, <2>o DEF Reload, Throws
  <2>6. CASE Load
    BY <2>6, <2>o DEF Load, Throws
  <2>7. CASE LoadHead
    BY <2>7, <2>o DEF LoadHead
  <2>8. CASE ManifestHead
    BY <2>8, <2>o, <2>r DEF ManifestHead
  <2>9. ASSUME NEW t \in Tables, Materialize(t) PROVE ScopingInv'
    <3>1. pc' = "materialize" /\ pc = "materialize"
      BY <2>9 DEF Materialize
    <3>2. raw' = [raw EXCEPT ![t] = None] /\ view' = [view EXCEPT ![t] = None]
      BY <2>9 DEF Materialize, Cleared
    <3>3. \A u \in Tables \ {t} : base'[u] = base[u]
      BY <2>9 DEF Materialize, TypeOK
    <3> QED BY <3>1, <3>2, <3>3 DEF TypeOK
  <2>10. CASE Materialized
    <3>1. after \notin {"build", "tools"}
      BY DEF TypeOK
    <3> QED BY <2>10, <2>o, <3>1 DEF Materialized
  <2>11. CASE RecordFresh
    BY <2>11, <2>o, <2>r DEF RecordFresh
  <2>12. CASE RecordSeen
    BY <2>12, <2>o, <2>r DEF RecordSeen
  <2>13. CASE Rename
    <3>1. PICK done \in IF Taken = {} THEN {Renamable} ELSE SUBSET (Renamable \ Taken) :
            /\ raw' = [t \in Tables |-> IF t \in done THEN base[t] ELSE raw[t]]
            /\ base' = [t \in Tables |-> IF t \in done THEN None ELSE base[t]]
      BY <2>13 DEF Rename
    <3>2. UNCHANGED <<view, loaded>> /\ pc' = IF Taken = {} THEN "build" ELSE "idle"
      BY <2>13 DEF Rename, cacheVars
    <3>3. done \subseteq Renamable /\ \A t \in done : base[t] # None
      BY <3>1 DEF Renamable
    <3>4. RenameIsFree' /\ ViewsHaveTables'
      BY <3>1, <3>2, <3>3
    <3>5. ASSUME Taken = {}, NEW t \in Planned[loaded], t \in Tables
          PROVE  base'[t] = None
      BY <3>1, <3>5 DEF Renamable
    <3>6. Planned[loaded] \subseteq Tables
      <4>1. loaded \in 1 .. Len(Planned)
        BY ConstantsAssumption DEF TypeOK, Versions
      <4> QED BY <4>1, ConstantsAssumption
    <3> QED BY <3>2, <3>4, <3>5, <3>6
  <2>14. CASE Build
    <3>1. /\ view' = [t \in Tables |-> IF t \in Scoped THEN ViewFor(t) ELSE view[t]]
          /\ pc = "build" /\ pc' = "tools"
          /\ UNCHANGED <<base, raw, caller, loaded>>
      BY <2>14 DEF Build, cacheVars
    <3>2. \A t \in Tables : raw[t] = None => ViewFor(t) = None
      BY DEF ViewFor
    <3>3. \A t \in Tables : ViewFor(t) \in {None, Empty, caller}
      BY DEF ViewFor
    <3>4. Planned[loaded] \subseteq Tables
      <4>1. loaded \in 1 .. Len(Planned)
        BY ConstantsAssumption DEF TypeOK, Versions
      <4> QED BY <4>1, ConstantsAssumption
    <3> HIDE DEF ViewFor
    <3> QED BY <3>1, <3>2, <3>3, <3>4
  <2>15. CASE Finish
    BY <2>15, <2>o DEF Finish
  <2>16. CASE Recycle
    BY <2>16 DEF Recycle, Nothing
  <2>17. CASE UNCHANGED vars
    BY <2>17, <2>s DEF vars, cacheVars, requestVars
  <2> QED BY <2>1, <2>2, <2>3, <2>4, <2>5, <2>6, <2>7, <2>8, <2>9, <2>10, <2>11,
             <2>12, <2>13, <2>14, <2>15, <2>16, <2>17 DEF Next, Serve
<1> QED BY <1>1, <1>2, TypeCorrect, PTL DEF Spec

\* The rename of applyFilterScope never finds its name taken.
THEOREM NamesAreFree == Spec => []RenameIsFree
<1>1. ScopingInv => RenameIsFree
  BY DEF ScopingInv
<1> QED BY <1>1, ScopingIsSafe, PTL

\* Nobody's tools see a table that should be scoped, or another's view of it.
THEOREM ToolsSeeTheirOwn == Spec => []CallersSeeTheirOwn
<1>1. ScopingInv => CallersSeeTheirOwn
  BY DEF ScopingInv, AllRenamed, ViewsAreTheirs, CallersSeeTheirOwn
<1> QED BY <1>1, ScopingIsSafe, PTL

-----------------------------------------------------------------------------
(* What is stale gets noticed.                                             *)
(*                                                                         *)
(* A manifest vouches for a table only if it was read before the table     *)
(* was, or if nothing was written in between. A check reads it before. A   *)
(* cold start and a reload read it after, and what is written in between   *)
(* is what slips by.                                                       *)

\* The container has the last version of t, if that can be read.
Fresh(t) == condition[t] = "good" => Data(t) = file[t]

FreshOrSlipped(t) == Fresh(t) \/ t \in slipped

\* Nothing that was seen of S3 is newer than S3.
SeenBefore ==
  /\ \A t \in Tables : /\ manifest[t] # None => manifest[t] <= file[t]
                       /\ current[t] # None => current[t] <= file[t]
  /\ configStamp # None => configStamp <= config

\* A check is materialising what it saw before.
CatchingUp == \/ pc = "materialize" /\ after = "recordSeen"
              \/ pc = "recordSeen"

\* What has to be true of the tables that are done, while S3 is read and in
\* between.
TablesInv ==
  \A t \in ReportViews[loaded] \ todo :
    /\ Renewing => FreshOrSlipped(t)
    /\ warm /\ CatchingUp => current[t] # file[t] \/ FreshOrSlipped(t)

BetweenInv ==
  warm /\ ~Renewing /\ ~CatchingUp =>
    \A t \in ReportViews[loaded] : manifest[t] # file[t] \/ FreshOrSlipped(t)

ConfigInv ==
  /\ pc = "load" => ~warm
  /\ pc = "reload" => seen <= config
  /\ pc = "loadHead" => loaded = config \/ configSlipped
  /\ pc \in {"recordFresh", "recordSeen"} => todo = {}
  /\ pc = "loadHead" => after = "recordFresh" /\ todo = ReportViews[loaded]
  /\ loaded # config => configStamp # config \/ configSlipped

FreshInv ==
  failures = 0 => SeenBefore /\ TablesInv /\ BetweenInv /\ ConfigInv

\* A step that leaves S3 and the tables alone leaves their data as it was.
LEMMA SameData ==
  ASSUME UNCHANGED <<file, condition, base, raw, slipped>>
  PROVE  \A t \in Tables : FreshOrSlipped(t)' <=> FreshOrSlipped(t)
BY DEF FreshOrSlipped, Fresh, Data

\* Renaming a table does not change what the container knows.
LEMMA RenameKeepsData ==
  ASSUME TypeOK, RenameIsFree, Rename
  PROVE  \A t \in Tables : FreshOrSlipped(t)' <=> FreshOrSlipped(t)
<1>1. UNCHANGED <<file, condition, slipped>>
  BY DEF Rename, s3Vars
<1>2. PICK done \in IF Taken = {} THEN {Renamable} ELSE SUBSET (Renamable \ Taken) :
        /\ raw' = [t \in Tables |-> IF t \in done THEN base[t] ELSE raw[t]]
        /\ base' = [t \in Tables |-> IF t \in done THEN None ELSE base[t]]
  BY DEF Rename
<1>3. \A t \in done : base[t] # None
  BY <1>2 DEF Renamable
<1>4. ASSUME NEW t \in Tables PROVE Data(t)' = Data(t)
  BY <1>2, <1>3 DEF Data, RenameIsFree
<1> QED
  BY <1>1, <1>4 DEF FreshOrSlipped, Fresh

\* What HEADs that succeed say is what is there.
LEMMA TrueHeads == \A t \in Tables : Heads[t] # None => Heads[t] = file[t]
BY DEF Heads, HeadOf

LEMMA ViewsAreTables ==
  ASSUME TypeOK PROVE ReportViews[loaded] \subseteq Tables
<1>1. loaded \in 1 .. Len(ReportViews)
  BY DEF TypeOK, Versions
<1> QED
  BY <1>1, ConstantsAssumption

LEMMA FreshFromS3 ==
  ASSUME TypeOK, FreshInv, failures = 0,
         EditConfig \/ \E t \in Tables : Rewrite(t)
  PROVE  FreshInv'
<1> USE DEF FreshInv
<1>1. UNCHANGED <<warm, loaded, configStamp, manifest, base, raw, pc, seen,
                  current, todo, after>>
  BY DEF EditConfig, Rewrite, cacheVars, catalogVars, requestVars
<1>2. (Renewing' <=> Renewing) /\ (CatchingUp' <=> CatchingUp)
  BY <1>1 DEF Renewing, CatchingUp
<1>3. CASE EditConfig
  <2>1. /\ UNCHANGED <<file, condition, slipped>>
        /\ config' = config + 1 /\ config \in Nat
        /\ configSlipped' = (pc = "loadHead")
    BY <1>3 DEF EditConfig, TypeOK, Versions, catalogVars
  <2>2. /\ configStamp # None => configStamp \in Nat
        /\ seen \in Nat
    BY DEF TypeOK, Versions
  <2>3. SeenBefore'
    BY <1>1, <2>1, <2>2 DEF SeenBefore
  <2>4. TablesInv' /\ BetweenInv'
    BY <1>1, <1>2, <2>1, SameData, ViewsAreTables DEF TablesInv, BetweenInv
  <2>5. configStamp' # config'
    BY <1>1, <2>1, <2>2, ConstantsAssumption DEF SeenBefore
  <2>6. pc' = "reload" => seen' <= config'
    BY <1>1, <2>1, <2>2 DEF ConfigInv
  <2> QED
    BY <1>1, <2>1, <2>3, <2>4, <2>5, <2>6 DEF ConfigInv
<1>4. ASSUME NEW t \in Tables, Rewrite(t) PROVE FreshInv'
  <2>1. /\ config' = config /\ configSlipped' = configSlipped
        /\ file' = [file EXCEPT ![t] = @ + 1]
        /\ \A u \in Tables \ {t} : condition'[u] = condition[u]
        /\ slipped' = IF Renewing /\ t \in ReportViews[loaded] \ todo
                      THEN slipped \union {t} ELSE slipped \ {t}
    BY <1>4 DEF Rewrite, TypeOK, cacheVars
  <2>2. /\ file[t] \in Nat /\ file'[t] = file[t] + 1
        /\ \A u \in Tables \ {t} : file'[u] = file[u]
    BY <2>1 DEF TypeOK
  <2>3. \A u \in Tables : /\ manifest[u] # None => manifest[u] \in Nat
                          /\ current[u] # None => current[u] \in Nat
    BY DEF TypeOK
  <2>4. SeenBefore'
    BY <1>1, <2>1, <2>2, <2>3 DEF SeenBefore
  <2>5. manifest[t] # file'[t] /\ current[t] # file'[t]
    BY <2>2, <2>3, ConstantsAssumption DEF SeenBefore
  <2>6. \A u \in Tables \ {t} : FreshOrSlipped(u) => FreshOrSlipped(u)'
    BY <1>1, <2>1, <2>2 DEF FreshOrSlipped, Fresh, Data
  <2>7. Renewing /\ t \in ReportViews[loaded] \ todo => FreshOrSlipped(t)'
    BY <2>1 DEF FreshOrSlipped
  <2>8. TablesInv'
    BY <1>1, <1>2, <2>2, <2>5, <2>6, <2>7, ViewsAreTables DEF TablesInv
  <2>9. BetweenInv'
    BY <1>1, <1>2, <2>2, <2>5, <2>6, ViewsAreTables DEF BetweenInv
  <2> QED
    BY <1>1, <2>1, <2>4, <2>8, <2>9 DEF ConfigInv
<1> QED
  BY <1>3, <1>4

\* Arriving, scoping and answering: nothing is read from S3.
LEMMA FreshFromRequest ==
  ASSUME TypeOK, RenameIsFree, FreshInv, failures = 0,
         \/ \E c \in Callers \union {Nobody} : Arrive(c)
         \/ Rename \/ Build \/ Finish \/ Recycle \/ UNCHANGED vars
  PROVE  FreshInv'
<1> USE DEF FreshInv
<1>1. CASE Recycle
  <2>1. /\ UNCHANGED s3Vars /\ ~warm' /\ loaded' = 1 /\ configStamp' = None
        /\ pc' = "idle" /\ manifest' = Nothing /\ current' = Nothing
    BY <1>1 DEF Recycle
  <2>2. configStamp' # config'
    BY <2>1, ConstantsAssumption DEF s3Vars, TypeOK, Versions
  <2> QED
    BY <2>1, <2>2 DEF Nothing, SeenBefore, TablesInv, BetweenInv, ConfigInv,
                      Renewing, CatchingUp
<1>2. CASE \/ \E c \in Callers \union {Nobody} : Arrive(c)
           \/ Rename \/ Build \/ Finish
  <2>1. /\ UNCHANGED <<file, condition, config, warm, loaded, configStamp,
                       configSlipped, slipped, manifest, seen, current, todo,
                       after>>
        /\ pc \in {"idle", "rename", "build", "tools"}
    BY <1>2 DEF Arrive, Rename, Build, Finish, s3Vars, cacheVars, catalogVars
  <2>2. /\ pc' \in {"idle", "configHead", "rename", "load", "build", "tools"}
        /\ pc' = "load" => ~warm
    BY <1>2 DEF Arrive, Rename, Build, Finish
  <2>3. \A t \in Tables : FreshOrSlipped(t)' <=> FreshOrSlipped(t)
    <3>1. CASE Rename
      BY <3>1, RenameKeepsData
    <3>2. CASE ~Rename
      <4>1. UNCHANGED <<base, raw>>
        BY <1>2, <3>2 DEF Arrive, Build, Finish, catalogVars
      <4> QED
        BY <2>1, <4>1, SameData
    <3> QED
      BY <3>1, <3>2
  <2>4. ~Renewing /\ ~Renewing' /\ ~CatchingUp /\ ~CatchingUp'
    BY <2>1, <2>2 DEF Renewing, CatchingUp
  <2>5. SeenBefore' /\ ConfigInv'
    BY <2>1, <2>2, <2>4 DEF SeenBefore, ConfigInv
  <2> QED
    BY <2>1, <2>3, <2>4, <2>5, ViewsAreTables DEF TablesInv, BetweenInv
<1>3. CASE UNCHANGED vars
  <2>1. UNCHANGED <<file, condition, config, warm, loaded, configStamp, base,
                    raw, configSlipped, slipped, manifest, pc, seen, current,
                    todo, after>>
    BY <1>3 DEF vars, s3Vars, cacheVars, catalogVars, requestVars
  <2>2. SeenBefore' /\ ConfigInv'
    BY <2>1 DEF SeenBefore, ConfigInv
  <2> QED
    BY <2>1, <2>2, SameData, ViewsAreTables
       DEF TablesInv, BetweenInv, Renewing, CatchingUp
<1> QED
  BY <1>1, <1>2, <1>3

\* The config: looked at by a check, loaded by a cold start or a reload.
LEMMA FreshFromConfig ==
  ASSUME TypeOK, FreshInv, failures' = 0,
         ConfigHead \/ Reload \/ Load \/ LoadHead
  PROVE  FreshInv'
<1>1. failures = 0 /\ ~Failure
  BY DEF ConfigHead, Reload, Load, LoadHead, Failure, TypeOK
<1> USE <1>1 DEF FreshInv
<1>2. UNCHANGED <<file, condition, config, warm, manifest, base, raw, slipped,
                  current>>
  BY DEF ConfigHead, Reload, Load, LoadHead, s3Vars, cacheVars, catalogVars
<1>3. CASE ConfigHead
  <2>1. /\ pc = "configHead" /\ pc' \in {"reload", "manifestHead"}
        /\ pc' = "reload" => seen' = config
        /\ UNCHANGED <<loaded, configStamp, configSlipped, todo, after>>
    BY <1>3 DEF ConfigHead, cacheVars
  <2>2. SeenBefore' /\ ConfigInv'
    BY <1>2, <2>1 DEF SeenBefore, ConfigInv, TypeOK, Versions
  <2> QED
    BY <1>2, <2>1, <2>2, SameData, ViewsAreTables
       DEF TablesInv, BetweenInv, Renewing, CatchingUp
<1>4. CASE Throws /\ (Reload \/ Load)
  <2>1. /\ pc \in {"load", "reload"} /\ pc' = "idle"
        /\ UNCHANGED <<loaded, configStamp, configSlipped, todo, after>>
    BY <1>4 DEF Throws, Reload, Load
  <2>2. SeenBefore' /\ ConfigInv'
    BY <1>2, <2>1 DEF SeenBefore, ConfigInv
  <2> QED
    BY <1>2, <2>1, <2>2, SameData, ViewsAreTables
       DEF TablesInv, BetweenInv, Renewing, CatchingUp
<1>5. CASE Reload /\ ~Throws
  <2>1. /\ pc = "reload" /\ pc' = "materialize" /\ after' = "recordFresh"
        /\ loaded' = config /\ configStamp' = seen
        /\ todo' = ReportViews[config]
    BY <1>5 DEF Reload
  <2>2. SeenBefore' /\ ConfigInv'
    BY <1>2, <2>1 DEF SeenBefore, ConfigInv, TypeOK, Versions
  <2> QED
    BY <1>2, <2>1, <2>2 DEF TablesInv, BetweenInv, Renewing
<1>6. CASE Load /\ ~Throws
  <2>1. /\ pc = "load" /\ pc' = "loadHead" /\ after' = "recordFresh"
        /\ loaded' = config /\ configStamp' = configStamp
        /\ configSlipped' = FALSE
        /\ todo' = ReportViews[config]
    BY <1>6 DEF Load
  <2>2. ~warm
    BY <2>1 DEF ConfigInv
  <2>3. SeenBefore' /\ ConfigInv'
    BY <1>2, <2>1 DEF SeenBefore, ConfigInv
  <2> QED
    BY <1>2, <2>1, <2>2, <2>3 DEF TablesInv, BetweenInv, Renewing, CatchingUp
<1>7. CASE LoadHead
  <2>1. /\ pc = "loadHead" /\ pc' = "materialize" /\ configStamp' = config
        /\ UNCHANGED <<loaded, configSlipped, todo, after>>
    BY <1>7 DEF LoadHead
  <2>2. after = "recordFresh" /\ todo = ReportViews[loaded]
    BY <2>1 DEF ConfigInv
  <2>3. SeenBefore' /\ ConfigInv'
    BY <1>2, <2>1, <2>2 DEF SeenBefore, ConfigInv, TypeOK, Versions
  <2> QED
    BY <1>2, <2>1, <2>2, <2>3 DEF TablesInv, BetweenInv, Renewing
<1> QED
  BY <1>3, <1>4, <1>5, <1>6, <1>7

\* The CSVs: looked at by a check, materialised, and recorded.
LEMMA FreshFromTables ==
  ASSUME TypeOK, FreshInv, failures' = 0,
         \/ ManifestHead \/ (\E t \in Tables : Materialize(t)) \/ Materialized
         \/ RecordFresh \/ RecordSeen
  PROVE  FreshInv'
<1>1. failures = 0 /\ ~Failure
  BY DEF ManifestHead, Materialize, Materialized, RecordFresh, RecordSeen,
         ReadHeads, Failure, TypeOK
<1> USE <1>1 DEF FreshInv
<1>2. UNCHANGED <<file, condition, config, loaded, configStamp, configSlipped,
                  seen>>
  BY DEF ManifestHead, Materialize, Materialized, RecordFresh, RecordSeen,
         s3Vars, cacheVars
<1>3. file \in [Tables -> Nat]
  BY DEF TypeOK
<1>4. Ready \in {"idle", "rename"}
  BY DEF Ready
<1>5. CASE ManifestHead
  <2>1. /\ pc = "manifestHead" /\ ReadHeads(current')
        /\ UNCHANGED <<warm, manifest, base, raw, slipped>>
    BY <1>5 DEF ManifestHead, cacheVars, catalogVars
  <2>2. \A t \in Tables : current'[t] # None => current'[t] = file[t]
    <3>1. current' = Heads
      BY <2>1 DEF ReadHeads
    <3> QED
      BY <3>1, TrueHeads
  <2>3. SeenBefore'
    BY <1>2, <1>3, <2>1, <2>2 DEF SeenBefore
  <2>4. CASE pc' = Ready
    BY <1>2, <1>4, <2>1, <2>3, <2>4, SameData, ViewsAreTables
       DEF TablesInv, BetweenInv, ConfigInv, Renewing, CatchingUp
  <2>5. CASE pc' # Ready
    <3>1. /\ todo' = {t \in ReportViews[loaded] : current'[t] # manifest[t]}
          /\ after' = "recordSeen" /\ pc' = "materialize"
      BY <1>5, <2>5 DEF ManifestHead
    <3>2. ~Renewing' /\ CatchingUp' /\ ~Renewing /\ ~CatchingUp
      BY <2>1, <3>1 DEF Renewing, CatchingUp
    <3>3. TablesInv'
      BY <1>2, <2>1, <3>1, <3>2, SameData, ViewsAreTables
         DEF TablesInv, BetweenInv
    <3> QED
      BY <1>2, <2>1, <2>3, <3>1, <3>2, <3>3 DEF BetweenInv, ConfigInv
  <2> QED
    BY <2>4, <2>5
<1>6. ASSUME NEW t \in Tables, Materialize(t) PROVE FreshInv'
  <2>1. /\ pc = "materialize" /\ t \in todo /\ todo' = todo \ {t}
        /\ raw' = [raw EXCEPT ![t] = None]
        /\ slipped' = slipped \ {t}
        /\ UNCHANGED <<warm, manifest, current, pc, after>>
    BY <1>6 DEF Materialize, Cleared, cacheVars
  <2>2. base' = [base EXCEPT ![t] = IF condition[t] = "good" THEN file[t] ELSE None]
    BY <1>6 DEF Materialize
  <2>3. Fresh(t)'
    BY <1>2, <2>1, <2>2 DEF Fresh, Data, TypeOK
  <2>4. \A u \in Tables \ {t} : FreshOrSlipped(u)' <=> FreshOrSlipped(u)
    BY <1>2, <2>1, <2>2 DEF FreshOrSlipped, Fresh, Data, TypeOK
  <2>5. SeenBefore' /\ ConfigInv'
    BY <1>2, <2>1 DEF SeenBefore, ConfigInv
  <2>6. TablesInv'
    BY <1>2, <2>1, <2>3, <2>4, ViewsAreTables
       DEF TablesInv, Renewing, CatchingUp, FreshOrSlipped
  <2>7. Renewing \/ CatchingUp
    BY <2>1 DEF Renewing, CatchingUp, TypeOK
  <2> QED
    BY <2>1, <2>5, <2>6, <2>7 DEF BetweenInv, Renewing, CatchingUp
<1>7. CASE Materialized
  <2>1. /\ pc = "materialize" /\ todo = {} /\ pc' = after
        /\ UNCHANGED <<warm, manifest, base, raw, slipped, current, todo, after>>
    BY <1>7 DEF Materialized, cacheVars, catalogVars
  <2>2. after \in {"recordFresh", "recordSeen"}
    BY DEF TypeOK
  <2>3. (Renewing' <=> Renewing) /\ (CatchingUp' <=> CatchingUp)
        /\ (Renewing \/ CatchingUp)
    BY <2>1, <2>2 DEF Renewing, CatchingUp
  <2> QED
    BY <1>2, <2>1, <2>2, <2>3, SameData, ViewsAreTables
       DEF SeenBefore, TablesInv, BetweenInv, ConfigInv
<1>8. CASE RecordFresh
  <2>1. /\ pc = "recordFresh" /\ ReadHeads(manifest') /\ pc' = Ready
        /\ UNCHANGED <<base, raw, slipped, current, todo, after>>
    BY <1>8 DEF RecordFresh, catalogVars
  <2>2. \A t \in Tables : manifest'[t] # None => manifest'[t] = file[t]
    <3>1. manifest' = Heads
      BY <2>1 DEF ReadHeads
    <3> QED
      BY <3>1, TrueHeads
  <2>3. SeenBefore'
    BY <1>2, <1>3, <2>1, <2>2 DEF SeenBefore
  <2>4. \A t \in ReportViews[loaded] : FreshOrSlipped(t)
    BY <2>1 DEF TablesInv, ConfigInv, Renewing
  <2> QED
    BY <1>2, <1>4, <2>1, <2>3, <2>4, SameData, ViewsAreTables
       DEF TablesInv, BetweenInv, ConfigInv, Renewing, CatchingUp
<1>9. CASE RecordSeen
  <2>1. /\ pc = "recordSeen" /\ manifest' = current /\ pc' = Ready
        /\ UNCHANGED <<warm, base, raw, slipped, current, todo, after>>
    BY <1>9 DEF RecordSeen, catalogVars
  <2>2. warm => \A t \in ReportViews[loaded] :
                  current[t] # file[t] \/ FreshOrSlipped(t)
    BY <2>1 DEF TablesInv, ConfigInv, CatchingUp
  <2> QED
    BY <1>2, <1>4, <2>1, <2>2, SameData, ViewsAreTables
       DEF SeenBefore, TablesInv, BetweenInv, ConfigInv, Renewing, CatchingUp
<1> QED
  BY <1>5, <1>6, <1>7, <1>8, <1>9

\* While no call to S3 fails, whatever a warm container has that is not the
\* last version differs from its manifest, and the next check replaces it, or
\* was written while a cold start or a reload was reading it; so for the
\* config.
THEOREM StaleGetsNoticed == Spec => []StaleIsNoticed
<1> DEFINE Inv == TypeOK /\ ScopingInv /\ FreshInv
<1>1. Init => FreshInv
  <2>1. Init => 1 \in Nat /\ None # 1 /\ None \notin Nat
    BY ConstantsAssumption
  <2> QED
    BY <2>1 DEF Init, Nothing, FreshInv, SeenBefore, TablesInv, BetweenInv,
                ConfigInv, Renewing, CatchingUp
<1>2. Inv /\ [Next]_vars => FreshInv'
  <2> SUFFICES ASSUME Inv, [Next]_vars, failures' = 0
               PROVE  FreshInv'
    BY DEF FreshInv
  <2>1. CASE \/ \E c \in Callers \union {Nobody} : Arrive(c)
             \/ Rename \/ Build \/ Finish \/ Recycle \/ UNCHANGED vars
    <3>1. failures = 0
      BY <2>1 DEF Arrive, Rename, Build, Finish, Recycle, vars
    <3> QED
      BY <2>1, <3>1, FreshFromRequest DEF ScopingInv
  <2>2. CASE EditConfig \/ \E t \in Tables : Rewrite(t)
    <3>1. failures = 0
      BY <2>2 DEF EditConfig, Rewrite
    <3> QED
      BY <2>2, <3>1, FreshFromS3
  <2>3. CASE ConfigHead \/ Reload \/ Load \/ LoadHead
    BY <2>3, FreshFromConfig
  <2>4. CASE \/ ManifestHead \/ (\E t \in Tables : Materialize(t))
             \/ Materialized \/ RecordFresh \/ RecordSeen
    BY <2>4, FreshFromTables
  <2> QED
    BY <2>1, <2>2, <2>3, <2>4 DEF Next, Serve
<1>3. FreshInv => StaleIsNoticed
  <2> SUFFICES ASSUME FreshInv, failures = 0, warm, pc = "idle"
               PROVE  /\ loaded # config =>
                           configStamp # config \/ configSlipped
                      /\ \A t \in ReportViews[loaded] :
                           condition[t] = "good" /\ Data(t) # file[t] =>
                             manifest[t] # file[t] \/ t \in slipped
    BY DEF StaleIsNoticed
  <2> QED
    BY DEF FreshInv, ConfigInv, BetweenInv, Renewing, CatchingUp, Fresh,
           FreshOrSlipped
<1> QED
  BY <1>1, <1>2, <1>3, TypeCorrect, ScopingIsSafe, PTL DEF Spec

=============================================================================
