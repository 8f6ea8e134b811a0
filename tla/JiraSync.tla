------------------------------ MODULE JiraSync ------------------------------
(***************************************************************************)
(* The one-way sync of project structure from SPP to Jira                  *)
(* (MLG-IMPETUS-Jira). A run reads the projects that were updated since    *)
(* the watermark, gives each parent project a Jira project (a space) and   *)
(* each child an epic in the space of its parent, writes the Jira key back *)
(* to SPP, and moves the watermark if nothing went wrong. People edit      *)
(* projects meanwhile, and start runs of their own for projects they name. *)
(***************************************************************************)
EXTENDS Integers, FiniteSets, Sequences, Functions

CONSTANTS
  Projects,
  None,
  ParentOf,   \* ParentOf[p]: the parent project of p, None for a parent
  Buffer,     \* what is taken off the watermark (10 minutes)
  Skew,       \* how far "updated" lies behind UTC (company time)
  Lookback,   \* INITIAL_LOOKBACK_HOURS
  MaxTime,    \* bound: the clock
  MaxEdits,   \* bound: edits of projects in SPP
  MaxFaults   \* bound: failed calls, killed runs and overlaps

Parents == {p \in Projects : ParentOf[p] = None}
Children == Projects \ Parents

\* Without Skew < Buffer a project that is updated in the moment a run
\* starts is never seen: the buffer is all that stands for a time zone.
ASSUME JiraAssumption ==
  /\ None \notin Projects /\ None \notin Int
  /\ ParentOf \in [Projects -> Projects \union {None}]
  /\ \A c \in Children : ParentOf[c] \in Parents
  /\ Buffer \in Nat /\ Skew \in Nat /\ Skew < Buffer
  /\ Lookback \in Nat /\ MaxTime \in Nat /\ MaxEdits \in Nat /\ MaxFaults \in Nat

\* The EventBridge schedule starts one run after the other; the other run is
\* one that somebody starts by hand.
Runs == {"scheduled", "manual"}

VARIABLES
  now,
  ver,        \* ver[p]: edits of p so far, 0 before it exists
  active,     \* active[p]: it is in scope
  updated,    \* updated[p]: the field of that name, also set by a write-back
  key,        \* key[p]: which of its Jira objects SPP has the key of, or 0
  jira,       \* jira[p]: the Jira objects made for p: the version they show
              \* and, for an epic, the space they are in
  leads,      \* the project manager has a Jira account
  sppId,      \* JIRA_CF_SPP_ID is set: epics carry the id of their project
  watermark,  \* the SSM parameter, or None
  run,        \* run[r]: a run and where it is
  cache,      \* what the warm container knows of the project manager
  skipped,    \* children whose last version was skipped
  aged,       \* projects whose last update fell out of the initial lookback
              \* while there was no watermark
  faults,     \* failed calls, killed runs and overlaps so far
  repeats,    \* those among them that may have created something unheard
  overlaps    \* those that were two runs under way at the same time

sppVars == <<ver, active, updated, key>>
site == <<leads, sppId>>
ghosts == <<skipped, aged, repeats, overlaps>>
vars == <<now, sppVars, jira, site, watermark, run, cache, faults, ghosts>>

Idle == [at |-> "idle", start |-> 0, snap |-> <<>>,
         keys |-> <<>>, errors |-> FALSE, cur |-> None, target |-> 0, space |-> 0]

Phases == {"idle", "read", "work", "put", "post", "write"}

\* A run, with what it knows of the projects it still has to do and the keys
\* of the parents that it has done.
IsRun(q) ==
  /\ q \in [at : Phases, start : Nat, snap : {q.snap}, keys : {q.keys},
            errors : BOOLEAN, cur : Projects \union {None}, target : Nat,
            space : Nat]
  /\ DOMAIN q.snap \subseteq Projects
  /\ q.snap \in [DOMAIN q.snap -> [ver : Nat, key : Nat]]
  /\ DOMAIN q.keys \subseteq Parents
  /\ q.keys \in [DOMAIN q.keys -> Nat]

TypeOK ==
  /\ now \in Nat
  /\ ver \in [Projects -> Nat]
  /\ active \in [Projects -> BOOLEAN]
  /\ updated \in [Projects -> Int]
  /\ key \in [Projects -> Nat]
  /\ jira \in [Projects -> Seq([ver : Nat, space : Nat])]
  /\ leads \in BOOLEAN /\ sppId \in BOOLEAN
  /\ watermark \in {None} \union Nat
  /\ run = [r \in Runs |-> run[r]] /\ \A r \in Runs : IsRun(run[r])
  /\ cache \in {"none", "no", "yes"}
  /\ skipped \subseteq Children
  /\ aged \subseteq Projects
  /\ faults \in Nat /\ repeats \in Nat /\ overlaps \in Nat

Init ==
  /\ now = 0
  /\ ver = [p \in Projects |-> 0]
  /\ active = [p \in Projects |-> FALSE]
  /\ updated = [p \in Projects |-> 0]
  /\ key = [p \in Projects |-> 0]
  /\ jira = [p \in Projects |-> <<>>]
  /\ leads = FALSE /\ sppId \in BOOLEAN
  /\ watermark = None
  /\ run = [r \in Runs |-> Idle]
  /\ cache = "none"
  /\ skipped = {} /\ aged = {}
  /\ faults = 0 /\ repeats = 0 /\ overlaps = 0

Fault == faults < MaxFaults /\ faults' = faults + 1

-----------------------------------------------------------------------------
(* The world around a run.                                                  *)

\* The clock. As long as there is no watermark, an update grows older than
\* the initial lookback.
Tick ==
  /\ now < MaxTime
  /\ now' = now + 1
  /\ aged' = IF watermark = None
             THEN aged \union {p \in Projects : updated[p] <= now' - Lookback - Buffer}
             ELSE aged
  /\ UNCHANGED <<sppVars, jira, site, watermark, run, cache, faults, skipped,
                 repeats, overlaps>>

Edits == FoldFunction(+, 0, ver)

\* Somebody saves a project; a closed one is no longer in scope.
Edit(p) ==
  /\ Edits < MaxEdits
  /\ ver' = [ver EXCEPT ![p] = @ + 1]
  /\ \E a \in BOOLEAN : active' = [active EXCEPT ![p] = a]
  /\ updated' = [updated EXCEPT ![p] = now - Skew]
  /\ skipped' = skipped \ {p}
  /\ aged' = aged \ {p}
  /\ UNCHANGED <<now, key, jira, site, watermark, run, cache, faults,
                 repeats, overlaps>>

Join ==
  /\ ~leads
  /\ leads' = TRUE
  /\ UNCHANGED <<now, sppVars, jira, sppId, watermark, run, cache, faults, ghosts>>

-----------------------------------------------------------------------------
(* A run.                                                                   *)

Busy(r) == run[r].at # "idle"
Set(r, q) == run' = [run EXCEPT ![r] = q]

\* A cold container knows no users; in a warm one the cache has survived.
Invoked(cold) ==
  /\ IF \E o \in Runs : Busy(o) THEN Fault /\ overlaps' = overlaps + 1
                                ELSE UNCHANGED <<faults, overlaps>>
  /\ cache' = IF cold THEN "none" ELSE cache

\* runStartedAt is taken before anything is read.
Begin(cold) ==
  /\ ~Busy("scheduled")
  /\ Invoked(cold)
  /\ Set("scheduled", [Idle EXCEPT !.at = "read", !.start = now])
  /\ UNCHANGED <<now, sppVars, jira, site, watermark, skipped, aged, repeats>>

\* getWatermark, and sppReadProjectsUpdatedSince with its buffer.
Since == IF watermark = None THEN now - Lookback ELSE watermark
Seen(p) == updated[p] > Since - Buffer

\* Only projects in scope are kept, as they are when they are read.
Snapshot(S) ==
  [p \in {x \in S : active[x]} |-> [ver |-> ver[p], key |-> key[p]]]

Read(r) ==
  /\ run[r].at = "read"
  /\ Set(r, [run[r] EXCEPT !.at = "work", !.snap = Snapshot({p \in Projects : Seen(p)})])
  /\ UNCHANGED <<now, sppVars, jira, site, watermark, cache, faults, ghosts>>

\* A run by hand reads the projects it is given ("projectIds"). When it began
\* does not matter, since it never moves the watermark.
ByHand(S, cold) ==
  /\ ~Busy("manual")
  /\ Invoked(cold)
  /\ Set("manual", [Idle EXCEPT !.at = "work", !.snap = Snapshot(S)])
  /\ UNCHANGED <<now, sppVars, jira, site, watermark, skipped, aged, repeats>>

\* The run goes on with the next project, after an error or without.
Rest(q) ==
  [q EXCEPT !.at = "work", !.cur = None, !.target = 0, !.space = 0,
            !.snap = [p \in DOMAIN q.snap \ {q.cur} |-> q.snap[p]]]
Error(q) == [Rest(q) EXCEPT !.errors = TRUE]

\* Parents come first.
Turn(q, p) ==
  /\ q.at = "work"
  /\ p \in DOMAIN q.snap
  /\ p \in Parents \/ DOMAIN q.snap \subseteq Children

\* The Jira account of the project manager. That there is none is cached too.
Account == IF cache # "none" THEN cache ELSE IF leads THEN "yes" ELSE "no"

\* generateUniqueProjectKey: a key no space has (spaces of other projects that
\* have the same initials only make the suffix grow).
FreeKey(p) == Len(jira[p]) + 1

\* syncParentProject up to its first write. Without an account for its lead
\* there will be no space.
PickParent(r, p) ==
  LET q == [run[r] EXCEPT !.cur = p]
      old == run[r].snap[p].key
  IN
  /\ p \in Parents
  /\ Turn(run[r], p)
  /\ cache' = Account
  /\ Set(r, IF old # 0 THEN [q EXCEPT !.at = "put", !.target = old]
            ELSE IF Account = "no" THEN Error(q)
            ELSE [q EXCEPT !.at = "post", !.target = FreeKey(p)])
  /\ UNCHANGED <<now, sppVars, jira, site, watermark, faults, ghosts>>

\* The space of a child: the one its parent got in this run, or else the one
\* whose key is in SPP.
SpaceFor(q, c) ==
  IF ParentOf[c] \in DOMAIN q.keys THEN q.keys[ParentOf[c]] ELSE key[ParentOf[c]]

\* Faulty variant of FindEpic: the safety net is missing.
FindsNoEpic(c, s) == {}

\* jiraFindEpicBySppId: the epics in the space that carry the id of the child.
\* The field they carry it in is optional, and without it none is looked for.
FindEpic(c, s) == {n \in DOMAIN jira[c] : sppId /\ jira[c][n].space = s}

\* syncChildProject up to its first write. A child whose parent has no space
\* is skipped, which is not an error.
PickChild(r, c) ==
  LET q == [run[r] EXCEPT !.cur = c, !.space = SpaceFor(run[r], c)]
      old == q.snap[c].key
      known == IF old # 0 THEN {old} ELSE FindEpic(c, q.space)
  IN
  /\ c \in Children
  /\ Turn(run[r], c)
  /\ \/ /\ q.space = 0
        /\ Set(r, Rest(q))
        /\ skipped' = IF r = "scheduled" /\ q.snap[c].ver = ver[c]
                      THEN skipped \union {c} ELSE skipped
     \/ /\ q.space # 0
        /\ IF known = {} THEN Set(r, [q EXCEPT !.at = "post"])
           ELSE \E n \in known : Set(r, [q EXCEPT !.at = "put", !.target = n])
        /\ UNCHANGED skipped
  /\ UNCHANGED <<now, sppVars, jira, site, watermark, cache, faults, aged,
                 repeats, overlaps>>

\* A space that is found has its key in SPP, an epic may not.
Keyed(q) == q.snap[q.cur].key # 0

\* The parent's key is remembered for its children only here.
Done(q) == [Rest(q) EXCEPT !.keys =
  IF q.cur \in Children THEN q.keys
  ELSE [p \in DOMAIN q.keys \union {q.cur} |-> IF p = q.cur THEN q.target ELSE q.keys[p]]]

PutDone(r) ==
  LET q == run[r] IN
  /\ q.at = "put"
  /\ jira' = [jira EXCEPT ![q.cur][q.target].ver = q.snap[q.cur].ver]
  /\ IF Keyed(q)
     THEN Set(r, Done(q)) /\ skipped' = skipped \ {q.cur}
     ELSE Set(r, [q EXCEPT !.at = "write"]) /\ UNCHANGED skipped
  /\ UNCHANGED <<now, sppVars, site, watermark, cache, faults, aged,
                 repeats, overlaps>>

Object(q) == [ver |-> q.snap[q.cur].ver,
              space |-> IF q.cur \in Children THEN q.space ELSE 0]

\* Two runs may have found the same key to be free; the second is refused.
Free(q) == q.cur \in Children \/ q.target = FreeKey(q.cur)

\* Faulty variant of Posted: the children learn the key before SPP does.
PostedAndKnown(q, n) == [q EXCEPT !.at = "write", !.target = n,
  !.keys = IF q.cur \in Children THEN q.keys
           ELSE [p \in DOMAIN q.keys \union {q.cur} |-> IF p = q.cur THEN n ELSE q.keys[p]]]

Posted(q, n) == [q EXCEPT !.at = "write", !.target = n]

PostDone(r) ==
  LET q == run[r] IN
  /\ q.at = "post"
  /\ IF Free(q)
     THEN /\ jira' = [jira EXCEPT ![q.cur] = Append(@, Object(q))]
          /\ Set(r, Posted(q, Len(jira[q.cur]) + 1))
     ELSE UNCHANGED jira /\ Set(r, Error(q))
  /\ UNCHANGED <<now, sppVars, site, watermark, cache, faults, ghosts>>

\* sppWriteJiraKey; it also makes the project look updated.
WriteDone(r) ==
  LET q == run[r] IN
  /\ q.at = "write"
  /\ key' = [key EXCEPT ![q.cur] = q.target]
  /\ updated' = [updated EXCEPT ![q.cur] = now - Skew]
  /\ Set(r, Done(q))
  /\ skipped' = skipped \ {q.cur}
  /\ aged' = aged \ {q.cur}
  /\ UNCHANGED <<now, ver, active, jira, site, watermark, cache, faults,
                 repeats, overlaps>>

\* Faulty variant of End: errors do not hold the watermark back.
EndAnyway(r) ==
  /\ run[r].at = "work"
  /\ DOMAIN run[r].snap = {}
  /\ watermark' = IF r = "manual" THEN watermark ELSE run[r].start
  /\ Set(r, Idle)
  /\ UNCHANGED <<now, sppVars, jira, site, cache, faults, ghosts>>

\* Faulty variant of End: the watermark is the end of the run.
EndsNow(r) ==
  /\ run[r].at = "work"
  /\ DOMAIN run[r].snap = {}
  /\ watermark' = IF r = "manual" \/ run[r].errors THEN watermark ELSE now
  /\ Set(r, Idle)
  /\ UNCHANGED <<now, sppVars, jira, site, cache, faults, ghosts>>

\* The watermark moves to the start of a clean scheduled run.
End(r) ==
  /\ run[r].at = "work"
  /\ DOMAIN run[r].snap = {}
  /\ watermark' = IF r = "manual" \/ run[r].errors THEN watermark ELSE run[r].start
  /\ Set(r, Idle)
  /\ UNCHANGED <<now, sppVars, jira, site, cache, faults, ghosts>>

-----------------------------------------------------------------------------
(* What can fail.                                                           *)

\* A call throws and did nothing: the project is an error of this run.
Fails(r) ==
  /\ run[r].cur # None
  /\ Fault
  /\ Set(r, Error(run[r]))
  /\ UNCHANGED <<now, sppVars, jira, site, watermark, cache, ghosts>>

\* jiraRequest got an error for a POST that Jira has carried out. Again with
\* the same key a space is refused; again, an epic is created twice, or the
\* attempts run out.
PostUnheard(r) ==
  LET q == run[r] IN
  /\ q.at = "post"
  /\ Free(q)
  /\ Fault
  /\ repeats' = repeats + 1
  /\ \/ /\ jira' = [jira EXCEPT ![q.cur] = Append(@, Object(q))]
        /\ Set(r, Error(q))
     \/ /\ q.cur \in Children
        /\ jira' = [jira EXCEPT ![q.cur] = @ \o <<Object(q), Object(q)>>]
        /\ Set(r, Posted(q, Len(jira[q.cur]) + 2))
  /\ UNCHANGED <<now, sppVars, site, watermark, cache, skipped, aged, overlaps>>

\* A read of SPP or the watermark throws, or the Lambda is killed.
Dies(r) ==
  /\ Busy(r)
  /\ Fault
  /\ Set(r, Idle)
  /\ UNCHANGED <<now, sppVars, jira, site, watermark, cache, ghosts>>

-----------------------------------------------------------------------------
Step(r) ==
  \/ Read(r) \/ PutDone(r) \/ PostDone(r) \/ WriteDone(r) \/ End(r)
  \/ \E p \in Projects : PickParent(r, p) \/ PickChild(r, p)

Next ==
  \/ Tick \/ Join
  \/ \E p \in Projects : Edit(p)
  \/ \E cold \in BOOLEAN : Begin(cold) \/ \E S \in SUBSET Projects \ {{}} : ByHand(S, cold)
  \/ \E r \in Runs : Step(r) \/ Fails(r) \/ PostUnheard(r) \/ Dies(r)

\* The schedule starts runs for ever, a run is not suspended in its middle,
\* and no container stays warm for ever.
Fairness ==
  /\ WF_vars(\E cold \in BOOLEAN : Begin(cold))
  /\ SF_vars(Begin(TRUE))
  /\ \A r \in Runs : WF_vars(Step(r))

Spec == Init /\ [][Next]_vars /\ Fairness

-----------------------------------------------------------------------------
(* Properties. *)

\* The object SPP has the key of shows the project as it is now.
Current(p) == key[p] # 0 /\ jira[p][key[p]].ver = ver[p]

\* Whatever Jira does not show yet is read by the next run: the watermark does
\* not pass by an edit, not even one made during a run, a failed call or a run
\* that was killed ("so failures get retried"). Passed by are a child that was
\* skipped, and what was updated too long before the first watermark.
NothingIsPassedBy ==
  \/ overlaps > 0
  \/ \A p \in Projects : active[p] =>
       Current(p) \/ Seen(p) \/ p \in skipped \/ p \in aged

\* An epic is only ever made in the space that SPP knows, however many spaces
\* lost write-backs have left behind.
EpicsInKnownSpace ==
  overlaps > 0 \/ \A c \in Children : \A n \in DOMAIN jira[c] :
                  jira[c][n].space = key[ParentOf[c]]

Alike(c, n) == {m \in DOMAIN jira[c] : jira[c][m].space = jira[c][n].space}

\* Nothing is made again but after a failure ("so later runs update instead of
\* duplicating"): no more objects of a project than there were failures and
\* overlaps, and one. Where epics carry the id of their project, a lost
\* write-back does not even cost a second epic in the same space, only a
\* repeated POST or an overlap does; a space is never looked for.
DuplicatesAreLosses ==
  /\ \A p \in Projects : Len(jira[p]) <= 1 + faults
  /\ sppId => \A c \in Children : \A n \in DOMAIN jira[c] :
                Cardinality(Alike(c, n)) <= 1 + repeats + overlaps

\* Once the project manager has an account and SPP is left alone, every
\* project in scope comes to be shown as it is, but for children that were
\* skipped, and projects that the initial lookback missed, and that nobody
\* has touched since.
JiraConverges ==
  <>[](\/ overlaps > 0 \/ ~leads
       \/ \A p \in Projects : active[p] =>
            Current(p) \/ p \in skipped \/ p \in aged)
=============================================================================
