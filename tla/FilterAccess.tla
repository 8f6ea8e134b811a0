---------------------------- MODULE FilterAccess ----------------------------
(***************************************************************************)
(* The cached list of the records of one type that one person may see:     *)
(* fetched page by page from SPP's REST API (sppRestClient.js), put into   *)
(* sppFilterCache (filterCache.js), and read by every request from there.  *)
(*                                                                         *)
(* A fetch is asked for by sync_spp_access (tools.js) or by the schedule   *)
(* (handleRefreshFilterCache of mcp-handler.js); these are invocations of  *)
(* their own, and nothing keeps them apart.                                *)
(***************************************************************************)
EXTENDS Naturals, FiniteSets

CONSTANTS
  MaxId,       \* bound: ids of records
  PageSize,    \* rowsPerPage
  Scheduled,   \* invocations by the schedule, one after the other each
  Asked,       \* invocations by sync_spp_access
  MaxChanges,  \* bound: changes of what the person may see
  MaxFailures, \* bound: calls to SPP that fail
  NoItem       \* sppFilterCache has no item

Jobs == Scheduled \union Asked
Ids == 1 .. MaxId

ASSUME ConstantsAssumption ==
  /\ MaxId \in Nat
  /\ PageSize \in Nat \ {0}
  /\ Scheduled \intersect Asked = {}
  /\ MaxChanges \in Nat /\ MaxFailures \in Nat

VARIABLES
  connected, \* there are tokens for this person
  permitted, \* what SPP lets the person see
  changes,   \* how often that has changed
  session,   \* the same, as the REST API remembers it for the token
  failures,
  cache,     \* the item
  pc, got,   \* what a fetch does next, and the ids it has
  left,      \* the pages it still has to fetch
  answered,  \* what sync_spp_access answered
  may,       \* history: what was permitted at some time since the fetch began
  must       \* history: what was permitted all the time since then

sppVars == <<permitted, changes, session>>
fetchVars == <<got, left>>
historyVars == <<may, must>>
vars == <<connected, sppVars, failures, cache, pc, fetchVars, answered,
          historyVars>>

Fetching == {"first", "pages", "save"}

\* With the item goes what was permitted while it was fetched.
Item == [ids : SUBSET Ids, may : SUBSET Ids]

TypeOK ==
  /\ connected \in BOOLEAN
  /\ permitted \subseteq Ids
  /\ changes \in Nat
  /\ session \subseteq Ids
  /\ failures \in Nat
  /\ cache \in Item \union {NoItem}
  /\ pc \in [Jobs -> {"idle", "refresh"} \union Fetching]
  /\ got \in [Jobs -> SUBSET Ids]
  /\ left \in [Jobs -> SUBSET (1 .. MaxId)]
  /\ answered \in [Jobs -> {"nothing", "synced", "error"}]
  /\ may \in [Jobs -> SUBSET Ids]
  /\ must \in [Jobs -> SUBSET Ids]

Init ==
  /\ connected \in BOOLEAN
  /\ permitted \in SUBSET Ids
  /\ changes = 0
  /\ session = permitted
  /\ failures = 0
  /\ cache = NoItem
  /\ pc = [j \in Jobs |-> "idle"]
  /\ got = [j \in Jobs |-> {}]
  /\ left = [j \in Jobs |-> {}]
  /\ answered = [j \in Jobs |-> "nothing"]
  /\ may = [j \in Jobs |-> {}]
  /\ must = [j \in Jobs |-> {}]

Goto(j, step) == pc' = [pc EXCEPT ![j] = step]
Answer(j, what) == answered' = [answered EXCEPT ![j] = what]

-----------------------------------------------------------------------------
(* The person, and SPP. *)

Connect ==
  /\ ~connected
  /\ connected' = TRUE
  /\ UNCHANGED <<sppVars, failures, cache, pc, fetchVars, answered, historyVars>>

\* SPP lets the person see another record. The REST API does not know yet.
Grant(id) ==
  /\ changes < MaxChanges
  /\ id \notin permitted
  /\ permitted' = permitted \union {id}
  /\ changes' = changes + 1
  /\ may' = [j \in Jobs |-> may[j] \union {id}]
  /\ UNCHANGED <<connected, session, failures, cache, pc, fetchVars, answered,
                 must>>

\* A record is deleted, at once also for the REST API, or is taken away.
Revoke(id) ==
  /\ changes < MaxChanges
  /\ id \in permitted
  /\ permitted' = permitted \ {id}
  /\ session' \in {session, session \ {id}}
  /\ changes' = changes + 1
  /\ must' = [j \in Jobs |-> must[j] \ {id}]
  /\ UNCHANGED <<connected, failures, cache, pc, fetchVars, answered, may>>

\* The page with rows n * PageSize + 1 to (n + 1) * PageSize of the listing.
Rank(id) == Cardinality({other \in session : other < id})

Page(n) ==
  {id \in session : Rank(id) \in (n * PageSize) .. (n * PageSize + PageSize - 1)}

\* Mutant: the last page is not among the others.
AllButTheLastPage ==
  {n \in 1 .. MaxId : (n + 1) * PageSize < Cardinality(session)}

\* The pages after the first one, by the "totalPages" of that.
OtherPages == {n \in 1 .. MaxId : n * PageSize < Cardinality(session)}

-----------------------------------------------------------------------------
(* fetchPermittedIdsForUser, and savePermittedIds. *)

\* The schedule fetches for those who have a token.
Start(j) ==
  /\ pc[j] = "idle"
  /\ j \in Scheduled => connected
  /\ Goto(j, "refresh")
  /\ Answer(j, "nothing")
  /\ UNCHANGED <<connected, sppVars, failures, cache, fetchVars, historyVars>>

NotConnected(j) ==
  /\ pc[j] = "refresh"
  /\ ~connected
  /\ Goto(j, "idle")
  /\ Answer(j, "error")
  /\ UNCHANGED <<connected, sppVars, failures, cache, fetchVars, historyVars>>

\* What the history of a fetch begins with.
Since(j) ==
  /\ may' = [may EXCEPT ![j] = permitted]
  /\ must' = [must EXCEPT ![j] = permitted]

\* Mutant: SPP is not told to forget.
SkipRefresh(j) ==
  /\ pc[j] = "refresh"
  /\ connected
  /\ Goto(j, "first")
  /\ Since(j)
  /\ UNCHANGED <<connected, sppVars, failures, cache, fetchVars, answered>>

\* The REST API forgets what it remembers for the token.
RefreshFilterSetCache(j) ==
  /\ pc[j] = "refresh"
  /\ connected
  /\ session' = permitted
  /\ Goto(j, "first")
  /\ Since(j)
  /\ UNCHANGED <<connected, permitted, changes, failures, cache, fetchVars,
                 answered>>

\* The first page tells how many there are.
FirstPage(j) ==
  /\ pc[j] = "first"
  /\ got' = [got EXCEPT ![j] = Page(0)]
  /\ left' = [left EXCEPT ![j] = OtherPages]
  /\ Goto(j, IF OtherPages = {} THEN "save" ELSE "pages")
  /\ UNCHANGED <<connected, sppVars, failures, cache, answered, historyVars>>

\* The others are fetched at once: they answer in any order.
OtherPage(j, n) ==
  /\ pc[j] = "pages"
  /\ n \in left[j]
  /\ got' = [got EXCEPT ![j] = @ \union Page(n)]
  /\ left' = [left EXCEPT ![j] = @ \ {n}]
  /\ Goto(j, IF left[j] = {n} THEN "save" ELSE "pages")
  /\ UNCHANGED <<connected, sppVars, failures, cache, answered, historyVars>>

\* A call to SPP fails, and with it the whole fetch.
Fail(j) ==
  /\ pc[j] \in {"refresh", "first", "pages"}
  /\ failures < MaxFailures
  /\ failures' = failures + 1
  /\ Goto(j, "idle")
  /\ Answer(j, "error")
  /\ UNCHANGED <<connected, sppVars, cache, fetchVars, historyVars>>

Found(j) == [ids |-> got[j], may |-> may[j]]

\* Mutant: what was cached before is kept.
SaveMore(j) ==
  /\ pc[j] = "save"
  /\ cache' = IF cache = NoItem THEN Found(j)
              ELSE [Found(j) EXCEPT !.ids = @ \union cache.ids]
  /\ Goto(j, "idle")
  /\ Answer(j, "synced")
  /\ UNCHANGED <<connected, sppVars, failures, fetchVars, historyVars>>

\* The item is replaced, whatever it was.
Save(j) ==
  /\ pc[j] = "save"
  /\ cache' = Found(j)
  /\ Goto(j, "idle")
  /\ Answer(j, "synced")
  /\ UNCHANGED <<connected, sppVars, failures, fetchVars, historyVars>>

\* The steps of a fetch that do not wait for anybody.
Run(j) ==
  \/ NotConnected(j) \/ RefreshFilterSetCache(j)
  \/ FirstPage(j) \/ (\E n \in left[j] : OtherPage(j, n)) \/ Save(j)

Next ==
  \/ Connect
  \/ \E id \in Ids : Grant(id) \/ Revoke(id)
  \/ \E j \in Jobs : Start(j) \/ Run(j) \/ Fail(j)

Spec == Init /\ [][Next]_vars

\* The schedule fires every six hours, and what it starts runs.
Fairness ==
  /\ \A j \in Jobs : WF_vars(Run(j))
  /\ \A j \in Scheduled : WF_vars(Start(j))

FairSpec == Spec /\ Fairness

-----------------------------------------------------------------------------
(* Properties. *)

\* A fetch, and what it cached, has only ids that the person was permitted to
\* see after the fetch began, whatever was fetched or saved beside it.
CachedWasPermitted ==
  /\ cache # NoItem => cache.ids \subseteq cache.may
  /\ \A j \in Jobs : pc[j] \in {"pages", "save"} => got[j] \subseteq may[j]

\* If nothing changes while a fetch is under way, it finds everything.
QuietFetchIsExact ==
  \A j \in Jobs : pc[j] = "save" /\ may[j] = must[j] => got[j] = must[j]

\* When changes end, the cache of a connected person comes to be exact.
AccessConverges == [](connected => <>[](cache # NoItem /\ cache.ids = permitted))
=============================================================================
