--------------------------- MODULE WarmContainer ---------------------------
(***************************************************************************)
(* One Lambda container of the MCP server, from cold start to recycling:   *)
(* the DuckDB tables that reportEngine.js materialises from the CSVs in S3 *)
(* and keeps between requests, and the views that filterScope.js puts in   *)
(* front of them for each caller.                                          *)
(*                                                                         *)
(* A container serves one request at a time. What is concurrent is S3: the *)
(* data sync rewrites CSVs, and people edit report_config.json, between    *)
(* any two of its steps.                                                   *)
(***************************************************************************)
EXTENDS Naturals, Sequences

CONSTANTS
  Tables,      \* names a report_config.json may use
  ReportViews, \* ReportViews[n]: the tables of its n-th version
  Planned,     \* Planned[n]: those that getScopingPlan finds to be scoped
  Refs,        \* Refs[t]: the scoped tables that a row of t refers to
  Callers,
  Nobody,      \* a request without scoping: keepWarm, forceRefresh
  MaxRewrites, \* bound: rewrites of CSVs
  MaxFailures, \* bound: calls to S3 that fail once
  None,        \* no such table or view; null in a manifest
  Empty        \* a view without rows

Versions == 1 .. Len(ReportViews)
Conditions == {"good", "malformed", "missing"}

ASSUME ConstantsAssumption ==
  /\ Len(ReportViews) > 0
  /\ ReportViews \in Seq(SUBSET Tables)
  /\ Planned \in Seq(SUBSET Tables)
  /\ Len(Planned) = Len(ReportViews)
  /\ Refs \in [Tables -> SUBSET Tables]
  /\ Nobody \notin Callers /\ None \notin Callers /\ Empty \notin Callers
  /\ None # Empty
  /\ None \notin Nat
  /\ MaxRewrites \in Nat /\ MaxFailures \in Nat

VARIABLES
  file,         \* file[t]: LastModified of the CSV
  condition,    \* condition[t]: whether it can be read
  config,       \* LastModified of report_config.json
  configBroken, \* whether that cannot be parsed
  rewrites,
  failures,
  warm,         \* cachedConnection is set
  loaded,       \* the version of the config in REPORT_VIEWS and the rest
  configStamp,  \* lastConfigModified
  manifest,     \* lastManifest
  configSlipped, \* whether an edit of the config slipped by (history)
  base,         \* base[t]: what the table "t" was made from
  raw,          \* raw[t]: what the table "t_raw" was made from
  view,         \* view[t]: whom the view "t" is for
  slipped,      \* the tables of which a version slipped by (history)
  pc, caller,
  seen,         \* currentConfigModified
  current,      \* currentManifest
  todo,         \* the tables still to be materialised
  after         \* the manifest to record after that

s3Vars        == <<file, condition, config, configBroken, rewrites>>
cacheVars     == <<warm, loaded, configStamp, manifest, configSlipped>>
catalogVars   == <<base, raw, view, slipped>>
requestVars   == <<pc, caller, seen, current, todo, after>>
vars == <<s3Vars, failures, cacheVars, catalogVars, requestVars>>

Steps == {"idle", "load", "loadHead", "configHead", "reload", "manifestHead",
          "materialize", "recordFresh", "recordSeen", "rename", "build", "tools"}

TypeOK ==
  /\ file \in [Tables -> Nat]
  /\ condition \in [Tables -> Conditions]
  /\ config \in Versions
  /\ configBroken \in BOOLEAN
  /\ rewrites \in Nat /\ failures \in Nat
  /\ warm \in BOOLEAN
  /\ loaded \in Versions
  /\ configStamp \in Versions \union {None}
  /\ manifest \in [Tables -> Nat \union {None}]
  /\ configSlipped \in BOOLEAN
  /\ slipped \subseteq Tables
  /\ base \in [Tables -> Nat \union {None}]
  /\ raw \in [Tables -> Nat \union {None}]
  /\ view \in [Tables -> Callers \union {Empty, None}]
  /\ pc \in Steps
  /\ caller \in Callers \union {Nobody}
  /\ seen \in Versions
  /\ current \in [Tables -> Nat \union {None}]
  /\ todo \subseteq Tables
  /\ after \in {"recordFresh", "recordSeen"}

Nothing == [t \in Tables |-> None]

Init ==
  /\ file = [t \in Tables |-> 0]
  /\ condition \in [Tables -> Conditions]
  /\ config = 1
  /\ configBroken = FALSE
  /\ rewrites = 0 /\ failures = 0
  /\ warm = FALSE
  /\ loaded = 1
  /\ configStamp = None
  /\ manifest = Nothing
  /\ configSlipped = FALSE /\ slipped = {}
  /\ base = Nothing /\ raw = Nothing /\ view = Nothing
  /\ pc = "idle" /\ caller = Nobody
  /\ seen = 1 /\ current = Nothing /\ todo = {} /\ after = "recordFresh"

\* Mutant: only the name itself is cleared.
ClearedByName(t) == /\ raw' = raw
                    /\ view' = [view EXCEPT ![t] = None]

\* The names whose table is dropped before t is materialised: "t" and "t_raw".
Cleared(t) == /\ raw' = [raw EXCEPT ![t] = None]
              /\ view' = [view EXCEPT ![t] = None]

\* A call to S3 fails once.
Failure == failures < MaxFailures /\ failures' = failures + 1

\* Where setupConnection returns to.
Ready == IF caller = Nobody THEN "idle" ELSE "rename"

-----------------------------------------------------------------------------
(* S3. *)

\* A cold start or a reload is reading the CSVs; it asks for the manifest, and
\* a cold start for the config's LastModified, only afterwards. What is
\* written in between slips by: its new date vouches for what was read before.
Renewing == \/ pc = "materialize" /\ after = "recordFresh"
            \/ pc = "recordFresh"

\* The data sync rewrites a CSV.
Rewrite(t) ==
  /\ rewrites < MaxRewrites
  /\ rewrites' = rewrites + 1
  /\ file' = [file EXCEPT ![t] = @ + 1]
  /\ \E how \in Conditions : condition' = [condition EXCEPT ![t] = how]
  /\ slipped' = IF Renewing /\ t \in ReportViews[loaded] \ todo
                THEN slipped \union {t} ELSE slipped \ {t}
  /\ UNCHANGED <<config, configBroken, failures, cacheVars, base, raw, view,
                 requestVars>>

\* Somebody edits report_config.json, well or badly.
EditConfig ==
  /\ config < Len(ReportViews)
  /\ config' = config + 1
  /\ configBroken' \in BOOLEAN
  /\ configSlipped' = (pc = "loadHead")
  /\ UNCHANGED <<file, condition, rewrites, failures, warm, loaded,
                 configStamp, manifest, catalogVars, requestVars>>

\* getCurrentManifest: null for what cannot be HEADed. One HEAD may fail.
HeadOf(t) == IF condition[t] = "missing" \/ t \notin ReportViews[loaded]
             THEN None ELSE file[t]

Heads == [t \in Tables |-> HeadOf(t)]

ReadHeads(m) ==
  \/ m = Heads /\ UNCHANGED failures
  \/ \E t \in Tables : m = [Heads EXCEPT ![t] = None] /\ Failure

-----------------------------------------------------------------------------
(* setupConnection *)

\* A request arrives. A warm container checks for staleness if the last
\* check is five minutes old, or if it is told to.
Arrive(c) ==
  /\ pc = "idle"
  /\ caller' = c
  /\ pc' \in IF warm THEN {"configHead", IF c = Nobody THEN "idle" ELSE "rename"}
                     ELSE {"load"}
  /\ UNCHANGED <<s3Vars, failures, cacheVars, catalogVars, seen, current, todo,
                 after>>

ConfigHead ==
  /\ pc = "configHead"
  /\ \/ /\ config # configStamp
        /\ seen' = config
        /\ pc' = "reload"
        /\ UNCHANGED failures
     \/ /\ config = configStamp
        /\ pc' = "manifestHead"
        /\ UNCHANGED <<seen, failures>>
     \/ /\ Failure
        /\ pc' = "manifestHead"
        /\ UNCHANGED seen
  /\ UNCHANGED <<s3Vars, cacheVars, catalogVars, caller, current, todo, after>>

\* loadReportConfig throws, and the request fails, if the file is no good.
Throws ==
  /\ pc' = "idle"
  /\ UNCHANGED <<loaded, configStamp, configSlipped, todo, after>>

\* Mutant: only the tables that are new are materialised.
ReloadWhatIsNew ==
  /\ pc = "reload"
  /\ \/ /\ ~configBroken
        /\ loaded' = config
        /\ configStamp' = seen
        /\ configSlipped' = FALSE
        /\ todo' = {t \in ReportViews[config] : manifest[t] = None}
        /\ after' = "recordFresh"
        /\ pc' = "materialize"
        /\ UNCHANGED failures
     \/ configBroken /\ Throws /\ UNCHANGED failures
     \/ Throws /\ Failure
  /\ UNCHANGED <<s3Vars, warm, manifest, catalogVars, caller, seen, current>>

\* The config changed: everything in it is materialised again.
Reload ==
  /\ pc = "reload"
  /\ \/ /\ ~configBroken
        /\ loaded' = config
        /\ configStamp' = seen
        /\ configSlipped' = FALSE
        /\ todo' = ReportViews[config]
        /\ after' = "recordFresh"
        /\ pc' = "materialize"
        /\ UNCHANGED failures
     \/ configBroken /\ Throws /\ UNCHANGED failures
     \/ Throws /\ Failure
  /\ UNCHANGED <<s3Vars, warm, manifest, catalogVars, caller, seen, current>>

\* A cold start loads the config,
Load ==
  /\ pc = "load"
  /\ \/ /\ ~configBroken
        /\ loaded' = config
        /\ configSlipped' = FALSE
        /\ todo' = ReportViews[config]
        /\ after' = "recordFresh"
        /\ pc' = "loadHead"
        /\ UNCHANGED <<configStamp, failures>>
     \/ configBroken /\ Throws /\ UNCHANGED failures
     \/ Throws /\ Failure
  /\ UNCHANGED <<s3Vars, warm, manifest, catalogVars, caller, seen, current>>

\* and then asks for its LastModified.
LoadHead ==
  /\ pc = "loadHead"
  /\ \/ configStamp' = config /\ UNCHANGED failures
     \/ configStamp' = None /\ Failure
  /\ pc' = "materialize"
  /\ UNCHANGED <<s3Vars, warm, loaded, manifest, configSlipped, catalogVars,
                 caller, seen, current, todo, after>>

\* getCurrentManifest, and the tables that it says have changed.
ManifestHead ==
  /\ pc = "manifestHead"
  /\ ReadHeads(current')
  /\ \/ /\ \A t \in ReportViews[loaded] :
             current'[t] # None /\ current'[t] = manifest[t]
        /\ pc' = Ready
        /\ UNCHANGED <<todo, after>>
     \/ /\ \E t \in ReportViews[loaded] :
             current'[t] = None \/ current'[t] # manifest[t]
        /\ todo' = {t \in ReportViews[loaded] : current'[t] # manifest[t]}
        /\ after' = "recordSeen"
        /\ pc' = "materialize"
  /\ UNCHANGED <<s3Vars, cacheVars, catalogVars, caller, seen>>

\* materializeOneTable: both names are dropped, then the CSV is read.
Materialize(t) ==
  /\ pc = "materialize"
  /\ t \in todo
  /\ todo' = todo \ {t}
  /\ Cleared(t)
  /\ slipped' = slipped \ {t}
  /\ \/ /\ condition[t] = "good"
        /\ base' = [base EXCEPT ![t] = file[t]]
        /\ UNCHANGED failures
     \/ /\ condition[t] # "good"
        /\ base' = [base EXCEPT ![t] = None]
        /\ UNCHANGED failures
     \/ /\ Failure
        /\ base' = [base EXCEPT ![t] = None]
  /\ UNCHANGED <<s3Vars, cacheVars, pc, caller, seen, current, after>>

Materialized ==
  /\ pc = "materialize"
  /\ todo = {}
  /\ pc' = after
  /\ UNCHANGED <<s3Vars, failures, cacheVars, catalogVars, caller, seen,
                 current, todo, after>>

\* A cold start and a reload ask S3 for the manifest they record.
RecordFresh ==
  /\ pc = "recordFresh"
  /\ ReadHeads(manifest')
  /\ warm' = TRUE
  /\ pc' = Ready
  /\ UNCHANGED <<s3Vars, loaded, configStamp, configSlipped, catalogVars,
                 caller, seen, current, todo, after>>

\* Mutant: a warm container also asks again.
RecordAgain ==
  /\ pc = "recordSeen"
  /\ ReadHeads(manifest')
  /\ pc' = Ready
  /\ UNCHANGED <<s3Vars, warm, loaded, configStamp, configSlipped, catalogVars,
                 caller, seen, current, todo, after>>

\* A warm container records the manifest it decided by.
RecordSeen ==
  /\ pc = "recordSeen"
  /\ manifest' = current
  /\ pc' = Ready
  /\ UNCHANGED <<s3Vars, failures, warm, loaded, configStamp, configSlipped,
                 catalogVars, caller, seen, current, todo, after>>

-----------------------------------------------------------------------------
(* applyFilterScope, and the tools. *)

Scoped == Planned[loaded]

Renamable == {t \in Scoped : base[t] # None}

Taken == {t \in Renamable : raw[t] # None}

\* Every table to be scoped becomes "t_raw". Nothing catches a name that is
\* taken: the request fails, with some of the others renamed.
Rename ==
  /\ pc = "rename"
  /\ \E done \in IF Taken = {} THEN {Renamable} ELSE SUBSET (Renamable \ Taken) :
       /\ raw' = [t \in Tables |-> IF t \in done THEN base[t] ELSE raw[t]]
       /\ base' = [t \in Tables |-> IF t \in done THEN None ELSE base[t]]
  /\ pc' = IF Taken = {} THEN "build" ELSE "idle"
  /\ UNCHANGED <<s3Vars, failures, cacheVars, view, slipped, caller, seen,
                 current, todo, after>>

\* Mutant: a view that is there is good enough.
ViewOnce(t) ==
  CASE raw[t] = None \/ view[t] # None            -> view[t]
    [] OTHER                                      -> caller

\* A view needs its table, and the views its conditions refer to; without
\* these it is replaced by one that is empty.
ViewFor(t) ==
  CASE raw[t] = None                              -> view[t]
    [] raw[t] # None /\ \E u \in Refs[t] \intersect Scoped : raw[u] = None
                                                  -> Empty
    [] OTHER                                      -> caller

Build ==
  /\ pc = "build"
  /\ view' = [t \in Tables |-> IF t \in Scoped THEN ViewFor(t) ELSE view[t]]
  /\ pc' = "tools"
  /\ UNCHANGED <<s3Vars, failures, cacheVars, base, raw, slipped, caller, seen,
                 current, todo, after>>

\* The tools query whatever is there.
Finish ==
  /\ pc = "tools"
  /\ pc' = "idle"
  /\ caller' = Nobody
  /\ UNCHANGED <<s3Vars, failures, cacheVars, catalogVars, seen, current, todo,
                 after>>

\* The container is recycled, or killed by the timeout of its Lambda.
Recycle ==
  /\ warm' = FALSE
  /\ loaded' = 1
  /\ configStamp' = None
  /\ manifest' = Nothing
  /\ configSlipped' = FALSE /\ slipped' = {}
  /\ base' = Nothing /\ raw' = Nothing /\ view' = Nothing
  /\ pc' = "idle" /\ caller' = Nobody
  /\ seen' = 1 /\ current' = Nothing /\ todo' = {} /\ after' = "recordFresh"
  /\ UNCHANGED <<s3Vars, failures>>

Serve ==
  \/ ConfigHead \/ Reload \/ Load \/ LoadHead \/ ManifestHead
  \/ (\E t \in Tables : Materialize(t)) \/ Materialized
  \/ RecordFresh \/ RecordSeen \/ Rename \/ Build \/ Finish

Next ==
  \/ \E t \in Tables : Rewrite(t)
  \/ EditConfig
  \/ \E c \in Callers \union {Nobody} : Arrive(c)
  \/ Serve
  \/ Recycle

Spec == Init /\ [][Next]_vars

\* Lambda runs what it was asked to run, and keepWarm, every five minutes,
\* finds a check to be due again and again.
CheckIsDue ==
  /\ Arrive(Nobody)
  /\ pc' # "idle"

Fairness == WF_vars(Serve) /\ SF_vars(CheckIsDue)

FairSpec == Spec /\ Fairness

-----------------------------------------------------------------------------
(* Properties. *)

\* What the container knows of t, wherever it keeps it.
Data(t) == IF raw[t] = None THEN base[t] ELSE raw[t]

\* A table and the "_raw" it is to be renamed to never exist together, in
\* whatever order materialising, scoping and failing have interleaved: the
\* rename of applyFilterScope, which nothing catches, has a free name.
RenameIsFree == \A t \in Tables : base[t] # None => raw[t] = None

\* When the tools run, every scoped name is this caller's view, an empty one,
\* or nothing: not the table itself, and not a view of who asked before.
CallersSeeTheirOwn ==
  pc = "tools" =>
    \A t \in Scoped : base[t] = None /\ view[t] \in {None, Empty, caller}

\* What a warm container has of a readable CSV is its last version, or the
\* next check will see that it is not; and so for the config. There are two
\* exceptions. What was written while a cold start or a reload was reading it
\* slips by, until it is written again or the container goes. And after a call
\* to S3 that failed, its table is recorded as materialised.
StaleIsNoticed ==
  failures = 0 /\ warm /\ pc = "idle" =>
    /\ loaded # config => configStamp # config \/ configSlipped
    /\ \A t \in ReportViews[loaded] :
         condition[t] = "good" /\ Data(t) # file[t] =>
           manifest[t] # file[t] \/ t \in slipped

\* The config and every CSV that can be read, but for what slipped by.
Current ==
  /\ warm
  /\ loaded = config \/ configSlipped
  /\ \A t \in ReportViews[loaded] :
       condition[t] = "good" => Data(t) = file[t] \/ t \in slipped

\* A container that is left alive comes to have the last version of what can
\* be read and was not written behind its back while it was loading, unless
\* somebody left a config that cannot be read, or S3 failed on it.
EventuallyCurrent ==
  <>[][~Recycle]_vars => <>[](failures > 0 \/ configBroken \/ Current)
=============================================================================
