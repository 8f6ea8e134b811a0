------------------------------ MODULE SppWrite ------------------------------
(***************************************************************************)
(* The two-step write workflow of the MCP server (ai/mcpServer):           *)
(* propose_spp_write validates a change and stores a proposal,             *)
(* execute_spp_write performs a stored proposal against SuiteProjects Pro  *)
(* (SPP) and records what became of it.                                    *)
(*                                                                         *)
(* The actors are the people who call the tools, the execute calls (each   *)
(* runs in a Lambda invocation of its own), the DynamoDB table             *)
(* sppWriteAudit with its TTL sweep, SPP, and the administrators and sync  *)
(* jobs that change what a role may do and what a person may see between   *)
(* the two steps.  A token may be executed by anybody who holds it: the    *)
(* code checks what the executor may do, never who proposed.               *)
(***************************************************************************)
EXTENDS Naturals

CONSTANTS
  Tokens,       \* proposalIds (crypto.randomUUID) that can be handed out
  Calls,        \* invocations of execute_spp_write; bounds how many there are
  Tables,       \* writableTables: the tables of report_config.json
  Records,      \* SPP records that a request can name
  Users,        \* the records that are people
  Callers,      \* the records of the people who call the tools
  CallerOf,     \* CallerOf[c]: who makes execute call c
  TimeEntries,  \* the table "timeEntries"
  Drafts,       \* the arguments propose_spp_write is called with
  Restricted,   \* GLOBAL_WRITE_RESTRICTIONS: <<table, action>> SPP never offers
  RoleVolatile, \* bound: the <<caller, table, action>> that may come and go,
  ViewVolatile, \* and the <<caller, record>> that may enter and leave views
  NoRecord,     \* recordId is absent
  NoRequest,    \* no proposal was handed out under this token
  NoRow         \* sppWriteAudit has no item under this key

Actions == {"create", "update", "delete"}

\* email says who proposes it.
Draft == [table : Tables, action : Actions, email : Callers,
          record : Records \union {NoRecord}, refs : SUBSET Records]

TerminalStatuses == {"executed", "rejected_by_us", "rejected_by_spp"}
Statuses == {"proposed"} \union TerminalStatuses

\* An item: ttl says whether the attribute is there; complete, whether the
\* item still has its email, table, action and fields.
Row == [status : Statuses, ttl : BOOLEAN, complete : BOOLEAN]

ASSUME ConstantsAssumption ==
  /\ Callers \subseteq Users
  /\ CallerOf \in [Calls -> Callers]
  /\ Users \subseteq Records
  /\ TimeEntries \in Tables
  /\ NoRecord \notin Records
  /\ Drafts \subseteq Draft
  /\ NoRequest \notin Draft
  /\ Restricted \subseteq Tables \X Actions
  /\ RoleVolatile \subseteq Callers \X (Tables \X Actions)
  /\ ViewVolatile \subseteq Callers \X Records
  /\ NoRow \notin Row

TRANSIENT_RETRY_ATTEMPTS == 3

VARIABLES
  rows,       \* rows[t]: the item of sppWriteAudit
  lag,        \* lag[t]: the item an eventually consistent GetItem may still return
  request,    \* request[t]: the change the holder of the token confirmed
  overdue,    \* tokens whose ttl instant has passed
  roleAllows, \* roleAllows[p]: <<table, action>> pairs the role of p permits
  visible,    \* visible[p]: records in the scoped views of p
  sppHas,     \* records that exist in SPP
  pc,         \* pc[c]: the next thing execute call c does
  token,      \* token[c]: its argument
  attempt,    \* attempt[c]: attempts of sendXmlRequest so far
  wire,       \* wire[c]: what is between the call and SPP
  outcome,    \* outcome[c]: the status the call is about to record
  answer,     \* answer[c]: the status the call returned
  writes,     \* writes[c]: how often SPP applied the change for this call
  resyncs     \* calls that made the asynchronous invocation of sppDataSync

storeVars == <<rows, lag, request, overdue>>
worldVars == <<roleAllows, visible>>
sppVars   == <<sppHas, writes>>
callVars  == <<pc, token, attempt, wire, outcome, answer, resyncs>>
vars == <<storeVars, worldVars, sppVars, callVars>>

PCs == {"idle", "check", "prepare", "post", "reply", "mark", "resync",
        "done", "failed"}

TypeOK ==
  /\ rows \in [Tokens -> Row \union {NoRow}]
  /\ lag \in [Tokens -> Row \union {NoRow}]
  /\ request \in [Tokens -> Draft \union {NoRequest}]
  /\ overdue \subseteq Tokens
  /\ roleAllows \in [Callers -> SUBSET (Tables \X Actions)]
  /\ visible \in [Callers -> SUBSET Records]
  /\ sppHas \subseteq Records
  /\ pc \in [Calls -> PCs]
  /\ token \in [Calls -> Tokens]
  /\ attempt \in [Calls -> 0 .. TRANSIENT_RETRY_ATTEMPTS]
  /\ wire \in [Calls -> {"empty", "sent", "node", "refused", "bare"}]
  /\ outcome \in [Calls -> TerminalStatuses \union {"none"}]
  /\ answer \in [Calls -> TerminalStatuses \union {"none", "expired"}]
  /\ writes \in [Calls -> Nat]
  /\ resyncs \subseteq Calls

Init ==
  /\ rows = [t \in Tokens |-> NoRow]
  /\ lag = [t \in Tokens |-> NoRow]
  /\ request = [t \in Tokens |-> NoRequest]
  /\ overdue = {}
  /\ roleAllows = [p \in Callers |-> Tables \X Actions]
  /\ visible = [p \in Callers |-> Records]
  /\ sppHas = Records
  /\ pc = [c \in Calls |-> "idle"]
  /\ token \in [Calls -> Tokens]
  /\ attempt = [c \in Calls |-> 0]
  /\ wire = [c \in Calls |-> "empty"]
  /\ outcome = [c \in Calls |-> "none"]
  /\ answer = [c \in Calls |-> "none"]
  /\ writes = [c \in Calls |-> 0]
  /\ resyncs = {}

-----------------------------------------------------------------------------
(* The permission layers and the shape of a request. *)

WellFormed(d) == (d.action = "create") <=> (d.record = NoRecord)

\* Faulty variant of Working: strips user_id on create only.
WorkingKeepsOwnerOnUpdate(d) ==
  IF d.table = TimeEntries /\ d.action = "create"
  THEN [d EXCEPT !.refs = (@ \ Users) \union {d.email}]
  ELSE d

\* A time entry is the proposer's own: user_id is dropped from the fields and,
\* on create, set to the record of who calls propose_spp_write.
Working(d) ==
  IF d.table = TimeEntries /\ d.action # "delete"
  THEN [d EXCEPT !.refs = (@ \ Users) \union
                          (IF d.action = "create" THEN {d.email} ELSE {})]
  ELSE d

\* What must be visible: every record a new row would reference, or the
\* record that is changed.
Subjects(q) == IF q.action = "create" THEN q.refs ELSE {q.record}

\* checkAllLayers for one person: platform, then role, then visibility.
Allowed(who, q) ==
  /\ <<q.table, q.action>> \notin Restricted
  /\ <<q.table, q.action>> \in roleAllows[who]
  /\ Subjects(q) \subseteq visible[who]

-----------------------------------------------------------------------------
(* propose_spp_write. The row of a denied proposal is written for the audit *)
(* only: its id is never returned.                                          *)

Fresh(t) == rows[t] = NoRow /\ request[t] = NoRequest

\* Faulty variant of ProposeAllowed: the item is stored without its ttl.
ProposeWithoutTtl(t, d) ==
  /\ Fresh(t)
  /\ WellFormed(d)
  /\ Allowed(d.email, Working(d))
  /\ rows' = [rows EXCEPT ![t] =
                [status |-> "proposed", ttl |-> FALSE, complete |-> TRUE]]
  /\ request' = [request EXCEPT ![t] = Working(d)]
  /\ UNCHANGED <<lag, overdue, worldVars, sppVars, callVars>>

ProposeAllowed(t, d) ==
  /\ Fresh(t)
  /\ WellFormed(d)
  /\ Allowed(d.email, Working(d))
  /\ rows' = [rows EXCEPT ![t] =
                [status |-> "proposed", ttl |-> TRUE, complete |-> TRUE]]
  /\ request' = [request EXCEPT ![t] = Working(d)]
  /\ UNCHANGED <<lag, overdue, worldVars, sppVars, callVars>>

ProposeDenied(t, d) ==
  /\ Fresh(t)
  /\ WellFormed(d)
  /\ ~Allowed(d.email, Working(d))
  /\ rows' = [rows EXCEPT ![t] =
                [status |-> "rejected_by_us", ttl |-> FALSE, complete |-> TRUE]]
  /\ UNCHANGED <<lag, request, overdue, worldVars, sppVars, callVars>>

-----------------------------------------------------------------------------
(* execute_spp_write, first call: getProposal. GetItem is not a consistent *)
(* read, so it returns the item or the copy that lags behind it.           *)

Starts(c) == pc[c] = "idle" /\ request[token[c]] # NoRequest
Returns(c) == {rows[token[c]], lag[token[c]]}

Answer(c, status) ==
  /\ pc' = [pc EXCEPT ![c] = "done"]
  /\ answer' = [answer EXCEPT ![c] = status]

IsLive(item) == item # NoRow /\ item.status = "proposed"
IsTerminal(item) == item # NoRow /\ item.status \in TerminalStatuses
PastTtl(item, t) == item.ttl /\ t \in overdue

GetMissing(c) ==
  /\ Starts(c)
  /\ NoRow \in Returns(c)
  /\ Answer(c, "expired")
  /\ UNCHANGED <<storeVars, worldVars, sppVars,
                 token, attempt, wire, outcome, resyncs>>

GetReplay(c) ==
  /\ Starts(c)
  /\ \E item \in Returns(c) : IsTerminal(item) /\ Answer(c, item.status)
  /\ UNCHANGED <<storeVars, worldVars, sppVars,
                 token, attempt, wire, outcome, resyncs>>

GetExpired(c) ==
  /\ Starts(c)
  /\ \E item \in Returns(c) : IsLive(item) /\ PastTtl(item, token[c])
  /\ Answer(c, "expired")
  /\ UNCHANGED <<storeVars, worldVars, sppVars,
                 token, attempt, wire, outcome, resyncs>>

GetLive(c) ==
  /\ Starts(c)
  /\ \E item \in Returns(c) : IsLive(item) /\ ~PastTtl(item, token[c])
  /\ pc' = [pc EXCEPT ![c] = "check"]
  /\ UNCHANGED <<storeVars, worldVars, sppVars,
                 token, attempt, wire, outcome, answer, resyncs>>

-----------------------------------------------------------------------------
(* execute_spp_write, the rest of the handler. *)

\* The call goes on to record this status.
Conclude(c, status) ==
  /\ pc' = [pc EXCEPT ![c] = "mark"]
  /\ outcome' = [outcome EXCEPT ![c] = status]

\* Faulty variant of CheckPasses: trusts the decision made at propose time.
CheckSkipped(c) ==
  /\ pc[c] = "check"
  /\ pc' = [pc EXCEPT ![c] = "prepare"]
  /\ UNCHANGED <<storeVars, worldVars, sppVars,
                 token, attempt, wire, outcome, answer, resyncs>>

CheckPasses(c) ==
  /\ pc[c] = "check"
  /\ Allowed(CallerOf[c], request[token[c]])
  /\ pc' = [pc EXCEPT ![c] = "prepare"]
  /\ UNCHANGED <<storeVars, worldVars, sppVars,
                 token, attempt, wire, outcome, answer, resyncs>>

CheckFails(c) ==
  /\ pc[c] = "check"
  /\ ~Allowed(CallerOf[c], request[token[c]])
  /\ Conclude(c, "rejected_by_us")
  /\ UNCHANGED <<storeVars, worldVars, sppVars,
                 token, attempt, wire, answer, resyncs>>

\* Field mapping, access token, credentials and request body are all there.
Prepare(c) ==
  /\ pc[c] = "prepare"
  /\ pc' = [pc EXCEPT ![c] = "post"]
  /\ UNCHANGED <<storeVars, worldVars, sppVars,
                 token, attempt, wire, outcome, answer, resyncs>>

\* One of the four is missing.
PrepareFails(c) ==
  /\ pc[c] = "prepare"
  /\ Conclude(c, "rejected_by_us")
  /\ UNCHANGED <<storeVars, worldVars, sppVars,
                 token, attempt, wire, answer, resyncs>>

\* One attempt of sendXmlRequest: the POST leaves.
Post(c) ==
  /\ pc[c] = "post"
  /\ pc' = [pc EXCEPT ![c] = "reply"]
  /\ attempt' = [attempt EXCEPT ![c] = @ + 1]
  /\ wire' = [wire EXCEPT ![c] = "sent"]
  /\ UNCHANGED <<storeVars, worldVars, sppVars,
                 token, outcome, answer, resyncs>>

\* Faulty variant of ReplyNode: any response element counts as success.
AnyReplyIsSuccess(c) ==
  /\ pc[c] = "reply"
  /\ wire[c] \in {"node", "refused", "bare"}
  /\ Conclude(c, "executed")
  /\ UNCHANGED <<storeVars, worldVars, sppVars,
                 token, attempt, wire, answer, resyncs>>

\* The reply has the node of the action: success.
ReplyNode(c) ==
  /\ pc[c] = "reply"
  /\ wire[c] = "node"
  /\ Conclude(c, "executed")
  /\ UNCHANGED <<storeVars, worldVars, sppVars,
                 token, attempt, wire, answer, resyncs>>

\* Faulty variants of ReplyBare: the loop counts from scratch after a bare
\* reply; the loop allows one attempt too many.
RetryForever(c) ==
  /\ pc[c] = "reply"
  /\ wire[c] = "bare"
  /\ pc' = [pc EXCEPT ![c] = "post"]
  /\ attempt' = [attempt EXCEPT ![c] = 0]
  /\ wire' = [wire EXCEPT ![c] = "empty"]
  /\ UNCHANGED <<storeVars, worldVars, sppVars,
                 token, outcome, answer, resyncs>>

\* No action node at all: SPP turned the request away before any write
\* processing, so the loop sends it again.
ReplyBare(c) ==
  /\ pc[c] = "reply"
  /\ wire[c] = "bare"
  /\ attempt[c] < TRANSIENT_RETRY_ATTEMPTS
  /\ pc' = [pc EXCEPT ![c] = "post"]
  /\ wire' = [wire EXCEPT ![c] = "empty"]
  /\ UNCHANGED <<storeVars, worldVars, sppVars,
                 token, attempt, outcome, answer, resyncs>>

\* Any other answer, or a bare one on the last attempt.
ReplyRefused(c) ==
  /\ pc[c] = "reply"
  /\ \/ wire[c] = "refused"
     \/ wire[c] = "bare" /\ attempt[c] = TRANSIENT_RETRY_ATTEMPTS
  /\ Conclude(c, "rejected_by_spp")
  /\ UNCHANGED <<storeVars, worldVars, sppVars,
                 token, attempt, wire, answer, resyncs>>

\* Faulty variant of FetchFails: retries whatever went wrong.
FetchFailureRetried(c) ==
  /\ pc[c] = "reply"
  /\ attempt[c] < TRANSIENT_RETRY_ATTEMPTS
  /\ pc' = [pc EXCEPT ![c] = "post"]
  /\ wire' = [wire EXCEPT ![c] = "empty"]
  /\ UNCHANGED <<storeVars, worldVars, sppVars,
                 token, attempt, outcome, answer, resyncs>>

\* fetch throws: the connection broke, whatever SPP did or will still do.
\* The same catch clause takes it for a rejection.
FetchFails(c) ==
  /\ pc[c] = "reply"
  /\ Conclude(c, "rejected_by_spp")
  /\ UNCHANGED <<storeVars, worldVars, sppVars,
                 token, attempt, wire, answer, resyncs>>

\* Faulty variant of Mark: the ttl stays on the item.
MarkKeepsTtl(c) ==
  LET t == token[c] IN
  /\ pc[c] = "mark"
  /\ rows' = [rows EXCEPT ![t] =
                [status |-> outcome[c], ttl |-> TRUE,
                 complete |-> rows[t] # NoRow /\ rows[t].complete]]
  /\ IF outcome[c] = "executed"
     THEN /\ pc' = [pc EXCEPT ![c] = "resync"]
          /\ UNCHANGED answer
     ELSE Answer(c, outcome[c])
  /\ UNCHANGED <<lag, request, overdue, worldVars, sppVars,
                 token, attempt, wire, outcome, resyncs>>

\* markExecuted, markRejectedByUs, markRejectedBySpp: an UpdateItem without a
\* condition. It sets the status and removes the ttl, and it creates an item
\* with nothing else in it when the key is gone.
Mark(c) ==
  LET t == token[c] IN
  /\ pc[c] = "mark"
  /\ rows' = [rows EXCEPT ![t] =
                [status |-> outcome[c], ttl |-> FALSE,
                 complete |-> rows[t] # NoRow /\ rows[t].complete]]
  /\ IF outcome[c] = "executed"
     THEN /\ pc' = [pc EXCEPT ![c] = "resync"]
          /\ UNCHANGED answer
     ELSE Answer(c, outcome[c])
  /\ UNCHANGED <<lag, request, overdue, worldVars, sppVars,
                 token, attempt, wire, outcome, resyncs>>

\* triggerResync: one asynchronous invocation, whose failure is swallowed.
TriggerResync(c) ==
  /\ pc[c] = "resync"
  /\ Answer(c, "executed")
  /\ resyncs' \in {resyncs, resyncs \union {c}}
  /\ UNCHANGED <<storeVars, worldVars, sppVars, token, attempt, wire, outcome>>

\* The handler dies: a DynamoDB or OAuth call throws, or the Lambda times out.
Abort(c) ==
  /\ pc[c] \in {"check", "prepare", "post", "reply", "mark", "resync"}
  /\ pc' = [pc EXCEPT ![c] = "failed"]
  /\ UNCHANGED <<storeVars, worldVars, sppVars,
                 token, attempt, wire, outcome, answer, resyncs>>

-----------------------------------------------------------------------------
(* SPP, which may act on a request whose sender has stopped waiting. *)

\* It creates, modifies or deletes the record and answers with the node.
SppApplies(c) ==
  LET q == request[token[c]] IN
  /\ wire[c] = "sent"
  /\ q.action # "create" => q.record \in sppHas
  /\ writes' = [writes EXCEPT ![c] = @ + 1]
  /\ sppHas' = IF q.action = "delete" THEN sppHas \ {q.record} ELSE sppHas
  /\ wire' = [wire EXCEPT ![c] = "node"]
  /\ UNCHANGED <<storeVars, worldVars,
                 pc, token, attempt, outcome, answer, resyncs>>

\* It declines. A refused Add or Modify carries no record, which is not the
\* success shape; a refused Delete is still a Delete node.
SppRefuses(c) ==
  /\ wire[c] = "sent"
  /\ wire' = [wire EXCEPT ![c] =
                IF request[token[c]].action = "delete" THEN "node" ELSE "refused"]
  /\ UNCHANGED <<storeVars, worldVars, sppVars,
                 pc, token, attempt, outcome, answer, resyncs>>

\* It fails in its own session layer, or answers with an HTTP error.
SppTurnsAway(c) ==
  /\ wire[c] = "sent"
  /\ \E shape \in {"bare", "refused"} : wire' = [wire EXCEPT ![c] = shape]
  /\ UNCHANGED <<storeVars, worldVars, sppVars,
                 pc, token, attempt, outcome, answer, resyncs>>

-----------------------------------------------------------------------------
(* DynamoDB and the rest of the world. *)

Replicate(t) ==
  /\ lag[t] # rows[t]
  /\ lag' = [lag EXCEPT ![t] = rows[t]]
  /\ UNCHANGED <<rows, request, overdue, worldVars, sppVars, callVars>>

\* PROPOSAL_TTL_SECONDS have gone by since the proposal was stored.
TtlPasses(t) ==
  /\ request[t] # NoRequest
  /\ overdue' = overdue \union {t}
  /\ UNCHANGED <<rows, lag, request, worldVars, sppVars, callVars>>

\* The background sweep deletes an item whose ttl has passed.
Sweep(t) ==
  /\ rows[t] # NoRow
  /\ PastTtl(rows[t], t)
  /\ rows' = [rows EXCEPT ![t] = NoRow]
  /\ UNCHANGED <<lag, request, overdue, worldVars, sppVars, callVars>>

Toggled(S, x) == IF x \in S THEN S \ {x} ELSE S \union {x}

\* The rolePermissions data or somebody's role changes.
RoleChanges ==
  /\ \E p \in RoleVolatile :
       roleAllows' = [roleAllows EXCEPT ![p[1]] = Toggled(@, p[2])]
  /\ UNCHANGED <<visible, storeVars, sppVars, callVars>>

\* A sync or a refreshed filter cache changes what somebody sees.
ViewChanges ==
  /\ \E p \in ViewVolatile :
       visible' = [visible EXCEPT ![p[1]] = Toggled(@, p[2])]
  /\ UNCHANGED <<roleAllows, storeVars, sppVars, callVars>>

-----------------------------------------------------------------------------
Get(c) == GetMissing(c) \/ GetReplay(c) \/ GetExpired(c) \/ GetLive(c)

Handle(c) ==
  \/ CheckPasses(c) \/ CheckFails(c)
  \/ Prepare(c) \/ PrepareFails(c)
  \/ Post(c)
  \/ ReplyNode(c) \/ ReplyBare(c) \/ ReplyRefused(c) \/ FetchFails(c)
  \/ Mark(c)
  \/ TriggerResync(c)

Spp(c) == SppApplies(c) \/ SppRefuses(c) \/ SppTurnsAway(c)

Next ==
  \/ \E t \in Tokens, d \in Drafts : ProposeAllowed(t, d) \/ ProposeDenied(t, d)
  \/ \E c \in Calls : Get(c) \/ Handle(c) \/ Abort(c) \/ Spp(c)
  \/ \E t \in Tokens : Replicate(t) \/ TtlPasses(t) \/ Sweep(t)
  \/ RoleChanges \/ ViewChanges

Spec == Init /\ [][Next]_vars

\* A Lambda invocation that has begun goes on until it returns or the runtime
\* kills it; time passes; DynamoDB sweeps expired items.
Fairness ==
  /\ \A c \in Calls : WF_vars(Handle(c) \/ Abort(c))
  /\ \A t \in Tokens : WF_vars(TtlPasses(t)) /\ WF_vars(Sweep(t))

FairSpec == Spec /\ Fairness
-----------------------------------------------------------------------------
(* Properties. *)

\* The retry loop of sendXmlRequest never makes SPP apply one call's change
\* twice: it repeats only a request that SPP turned away unprocessed.
AtMostOncePerCall == \A c \in Calls : writes[c] <= 1

\* Somebody's call on this token changed SPP.
Written(t) == \E c \in Calls : token[c] = t /\ writes[c] > 0

\* No false success: when the audit row, a lagging copy of it, or the answer
\* given to a caller (its own or a replay) says a create or update was
\* executed, SPP has applied it.
ExecutedMeansWritten ==
  \A t \in Tokens :
    (request[t] # NoRequest /\ request[t].action # "delete") =>
      /\ (rows[t] # NoRow /\ rows[t].status = "executed") => Written(t)
      /\ (lag[t] # NoRow /\ lag[t].status = "executed") => Written(t)
      /\ \A c \in Calls :
           (token[c] = t /\ answer[c] = "executed") => Written(t)

\* Whatever final status a caller is told, the audit table holds a final row
\* for that proposal from then on, through expiry, sweeps and late markers.
AnswersAreOnRecord ==
  \A c \in Calls :
    answer[c] \in TerminalStatuses => IsTerminal(rows[token[c]])

\* A row that stopped being a live proposal is permanent: no sweep removes it
\* and no late call turns it back into a proposal.
AuditIsPermanent ==
  [][\A t \in Tokens : IsTerminal(rows[t]) => IsTerminal(rows'[t])]_vars

\* Whoever executes a proposal, a time entry is only ever written under the
\* user record of the person who proposed it, and an update never moves one
\* to another person, be it the proposer's or the executor's own: the fields
\* were fixed when the proposal was stored. (That the executor is the proposer
\* is checked nowhere in the code, so it is not claimed.)
TimeEntriesStayOwn ==
  \A c \in Calls :
    (writes[c] > 0 /\ request[token[c]].table = TimeEntries) =>
      LET q == request[token[c]] IN
      /\ q.action = "create" => q.refs \intersect Users = {q.email}
      /\ q.action = "update" => q.refs \intersect Users = {}

\* The promise of LicensedWrite: SPP is changed at most once per call, and
\* only for a call that read its proposal before the outcome had settled and
\* then passed a fresh check of what its own caller, who need not be the
\* proposer, may do. A token is settled once even a lagging read shows a
\* final status.
Settled == {t \in Tokens : IsTerminal(rows[t]) /\ IsTerminal(lag[t])}

Permitted ==
  {c \in Calls : /\ request[token[c]] # NoRequest
                 /\ Allowed(CallerOf[c], request[token[c]])}

LicenceOf(c) ==
  CASE writes[c] > 0 -> "spent"
    [] writes[c] = 0 /\ pc[c] = "idle" -> "none"
    [] writes[c] = 0 /\ pc[c] = "check" -> "admitted"
    [] writes[c] = 0 /\ pc[c] \in {"prepare", "post", "reply"} -> "authorised"
    [] writes[c] = 0 /\ pc[c] \in {"mark", "done", "failed"} /\ wire[c] = "sent"
         -> "authorised"
    [] OTHER -> "void"

Licensed == INSTANCE LicensedWrite
  WITH settled <- Settled, allowed <- Permitted,
       licence <- [c \in Calls |-> LicenceOf(c)]

LicensedSpec == Licensed!Spec

\* An execute call that has begun comes to an end: the retry loop is bounded.
CallsReturn ==
  \A c \in Calls : pc[c] = "check" ~> pc[c] \in {"done", "failed"}

\* No proposal stays pending for ever: it is resolved or swept.
ProposalsSettle ==
  \A t \in Tokens : IsLive(rows[t]) ~> ~IsLive(rows[t])

\* A statement of a comment that the code does not keep.

\* "Idempotency guard: a non-proposed status means this token was already
\* resolved ... rather than re-running (and potentially re-executing)
\* anything": a confirmed create happens at most once.
ExecutesAtMostOnce ==
  \A c, d \in Calls :
    (c # d /\ token[c] = token[d] /\ request[token[c]] # NoRequest
       /\ request[token[c]].action = "create") =>
      ~(writes[c] > 0 /\ writes[d] > 0)
=============================================================================
