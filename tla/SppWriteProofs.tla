--------------------------- MODULE SppWriteProofs ---------------------------
(***************************************************************************)
(* Theorems about SppWrite, for any number of tokens, calls and requests.  *)
(***************************************************************************)
EXTENDS SppWrite, TLAPS

\* A proposal keeps its shape when the owner rule has been applied to it.
LEMMA WorkingIsDraft ==
  ASSUME NEW d \in Drafts
  PROVE  /\ Working(d) \in Draft
         /\ Working(d).action = d.action
         /\ Working(d).table = d.table
         /\ Working(d).email = d.email
<1>1. d \in Draft /\ d.email \in Records
  BY ConstantsAssumption DEF Draft
<1>. QED
  BY <1>1, ConstantsAssumption DEF Working, Draft

\* A call that is about to post still has an attempt left, and one that is
\* about to mark knows what. Without it the types would not be inductive.
CallsAreReady ==
  \A c \in Calls :
    /\ pc[c] \in {"idle", "check", "prepare"} => attempt[c] = 0
    /\ pc[c] = "post" => attempt[c] < TRANSIENT_RETRY_ATTEMPTS
    /\ pc[c] = "mark" => outcome[c] \in TerminalStatuses

Typed == TypeOK /\ CallsAreReady

\* The initial states are well typed.
LEMMA InitTyped == Init => Typed
BY ConstantsAssumption
DEF Init, Typed, TypeOK, CallsAreReady, PCs, TRANSIENT_RETRY_ATTEMPTS

\* Every step keeps the state well typed.
LEMMA NextTyped == Typed /\ [Next]_vars => Typed'
<1>. SUFFICES ASSUME Typed, [Next]_vars PROVE Typed'
  OBVIOUS
<1>. USE DEF Typed, TypeOK, CallsAreReady, storeVars, worldVars, sppVars, callVars
<1>1. ASSUME NEW t \in Tokens, NEW d \in Drafts, ProposeAllowed(t, d)
      PROVE  Typed'
  BY <1>1, WorkingIsDraft DEF ProposeAllowed, Row, Statuses
<1>2. ASSUME NEW t \in Tokens, NEW d \in Drafts, ProposeDenied(t, d)
      PROVE  Typed'
  BY <1>2 DEF ProposeDenied, Row, Statuses, TerminalStatuses
<1>3. ASSUME NEW c \in Calls, Get(c) PROVE Typed'
  <2>. USE DEF Answer, PCs
  <2>1. CASE GetMissing(c) BY <2>1 DEF GetMissing
  <2>2. CASE GetReplay(c) BY <2>2 DEF GetReplay, IsTerminal
  <2>3. CASE GetExpired(c) BY <2>3 DEF GetExpired
  <2>4. CASE GetLive(c) BY <2>4 DEF GetLive, Starts
  <2>. QED BY <1>3, <2>1, <2>2, <2>3, <2>4 DEF Get
<1>4. ASSUME NEW c \in Calls, Handle(c) PROVE Typed'
  <2>. USE DEF Conclude, Answer, PCs, TerminalStatuses
  <2>1. CASE CheckPasses(c) BY <2>1 DEF CheckPasses
  <2>2. CASE CheckFails(c) BY <2>2 DEF CheckFails
  <2>3. CASE Prepare(c) BY <2>3 DEF Prepare, TRANSIENT_RETRY_ATTEMPTS
  <2>4. CASE PrepareFails(c) BY <2>4 DEF PrepareFails
  <2>5. CASE Post(c) BY <2>5 DEF Post, TRANSIENT_RETRY_ATTEMPTS
  <2>6. CASE ReplyNode(c) BY <2>6 DEF ReplyNode
  <2>7. CASE ReplyBare(c) BY <2>7 DEF ReplyBare, TRANSIENT_RETRY_ATTEMPTS
  <2>8. CASE ReplyRefused(c) BY <2>8 DEF ReplyRefused
  <2>9. CASE FetchFails(c) BY <2>9 DEF FetchFails
  <2>10. CASE Mark(c) BY <2>10 DEF Mark, Row, Statuses
  <2>11. CASE TriggerResync(c) BY <2>11 DEF TriggerResync
  <2>. QED BY <1>4, <2>1, <2>2, <2>3, <2>4, <2>5, <2>6, <2>7, <2>8, <2>9,
              <2>10, <2>11 DEF Handle
<1>5. ASSUME NEW c \in Calls, Abort(c) PROVE Typed'
  BY <1>5 DEF Abort, PCs
<1>6. ASSUME NEW c \in Calls, Spp(c) PROVE Typed'
  <2>1. CASE SppApplies(c) BY <2>1 DEF SppApplies
  <2>2. CASE SppRefuses(c) BY <2>2 DEF SppRefuses
  <2>3. CASE SppTurnsAway(c) BY <2>3 DEF SppTurnsAway
  <2>. QED BY <1>6, <2>1, <2>2, <2>3 DEF Spp
<1>7. ASSUME NEW t \in Tokens, Replicate(t) \/ TtlPasses(t) \/ Sweep(t)
      PROVE  Typed'
  BY <1>7 DEF Replicate, TtlPasses, Sweep
<1>8. CASE RoleChanges \/ ViewChanges
  <2>1. CASE RoleChanges
    <3>1. PICK p \in RoleVolatile :
            roleAllows' = [roleAllows EXCEPT ![p[1]] = Toggled(@, p[2])]
      BY <2>1 DEF RoleChanges
    <3>2. p[1] \in Callers /\ p[2] \in Tables \X Actions
      BY ConstantsAssumption
    <3>3. Toggled(roleAllows[p[1]], p[2]) \in SUBSET (Tables \X Actions)
      BY <3>2 DEF Toggled
    <3>4. roleAllows' \in [Callers -> SUBSET (Tables \X Actions)]
      BY <3>1, <3>3
    <3>. QED
      BY <2>1, <3>4 DEF RoleChanges
  <2>2. CASE ViewChanges
    <3>1. PICK p \in ViewVolatile :
            visible' = [visible EXCEPT ![p[1]] = Toggled(@, p[2])]
      BY <2>2 DEF ViewChanges
    <3>2. p[1] \in Callers /\ p[2] \in Records
      BY ConstantsAssumption
    <3>3. Toggled(visible[p[1]], p[2]) \in SUBSET Records
      BY <3>2 DEF Toggled
    <3>4. visible' \in [Callers -> SUBSET Records]
      BY <3>1, <3>3
    <3>. QED
      BY <2>2, <3>4 DEF ViewChanges
  <2>. QED BY <1>8, <2>1, <2>2
<1>9. CASE UNCHANGED vars
  BY <1>9 DEF vars
<1>. QED
  BY <1>1, <1>2, <1>3, <1>4, <1>5, <1>6, <1>7, <1>8, <1>9 DEF Next

\* The state of the workflow is well typed for every set of tokens, calls,
\* tables and requests.
THEOREM TypeCorrect == Spec => []TypeOK
<1>1. Typed => TypeOK
  BY DEF Typed
<1>. QED
  BY <1>1, InitTyped, NextTyped, PTL DEF Spec

-----------------------------------------------------------------------------
(* The inductive invariant. *)

\* What a call knows: a request is on the wire only after the call posted it;
\* SPP answers a change it applied with the action node, and only then does
\* the call go on to record "executed"; an answer is given after the mark.
CallInv ==
  \A c \in Calls :
    /\ pc[c] # "idle" => request[token[c]] # NoRequest
    /\ pc[c] \in {"idle", "check", "prepare", "post"} => wire[c] = "empty"
    /\ writes[c] > 0 => writes[c] = 1 /\ wire[c] = "node"
    /\ wire[c] = "node" => writes[c] = 1 \/ request[token[c]].action = "delete"
    /\ pc[c] = "mark" /\ outcome[c] = "executed" => wire[c] = "node"
    /\ pc[c] = "resync" => wire[c] = "node" /\ IsTerminal(rows[token[c]])
    /\ answer[c] \in TerminalStatuses => IsTerminal(rows[token[c]])

\* What the table holds: nothing but an audit row under a token that was not
\* handed out; a final row carries no ttl; a lagging copy is never ahead.
RowInv ==
  \A t \in Tokens :
    /\ request[t] = NoRequest =>
         \/ rows[t] = NoRow /\ lag[t] = NoRow
         \/ IsTerminal(rows[t]) /\ lag[t] \in {NoRow, rows[t]}
    /\ IsTerminal(rows[t]) => ~rows[t].ttl
    /\ IsTerminal(lag[t]) => IsTerminal(rows[t])

IInv == Typed /\ CallInv /\ RowInv

\* The initial states satisfy the invariant.
LEMMA InitIInv == Init => IInv
BY InitTyped
DEF Init, IInv, CallInv, RowInv, IsTerminal, TerminalStatuses

\* Every step keeps it.
LEMMA NextIInv == IInv /\ [Next]_vars => IInv'
<1>. SUFFICES ASSUME IInv, [Next]_vars PROVE CallInv' /\ RowInv'
  BY NextTyped DEF IInv
<1>. USE ConstantsAssumption
     DEF IInv, Typed, TypeOK, CallInv, RowInv,
         storeVars, worldVars, sppVars, callVars
<1>1. ASSUME NEW t \in Tokens, NEW d \in Drafts, ProposeAllowed(t, d)
      PROVE  CallInv' /\ RowInv'
  BY <1>1, WorkingIsDraft DEF ProposeAllowed, Fresh, IsTerminal, TerminalStatuses
<1>2. ASSUME NEW t \in Tokens, NEW d \in Drafts, ProposeDenied(t, d)
      PROVE  CallInv' /\ RowInv'
  BY <1>2 DEF ProposeDenied, Fresh, IsTerminal, TerminalStatuses, Row, Statuses
<1>3. ASSUME NEW c \in Calls, Get(c) PROVE CallInv' /\ RowInv'
  <2>. USE DEF Starts, Returns, Answer, TerminalStatuses
  <2>1. CASE GetMissing(c) BY <2>1 DEF GetMissing
  <2>2. CASE GetReplay(c) BY <2>2 DEF GetReplay
  <2>3. CASE GetExpired(c) BY <2>3 DEF GetExpired
  <2>4. CASE GetLive(c) BY <2>4 DEF GetLive
  <2>. QED BY <1>3, <2>1, <2>2, <2>3, <2>4 DEF Get
<1>4. ASSUME NEW c \in Calls, Handle(c) PROVE CallInv' /\ RowInv'
  <2>. USE DEF Conclude, Answer
  <2>1. CASE CheckPasses(c) BY <2>1 DEF CheckPasses
  <2>2. CASE CheckFails(c) BY <2>2 DEF CheckFails
  <2>3. CASE Prepare(c) BY <2>3 DEF Prepare
  <2>4. CASE PrepareFails(c) BY <2>4 DEF PrepareFails
  <2>5. CASE Post(c) BY <2>5 DEF Post
  <2>6. CASE ReplyNode(c) BY <2>6 DEF ReplyNode
  <2>7. CASE ReplyBare(c) BY <2>7 DEF ReplyBare
  <2>8. CASE ReplyRefused(c) BY <2>8 DEF ReplyRefused
  <2>9. CASE FetchFails(c) BY <2>9 DEF FetchFails
  <2>10. CASE Mark(c)
    <3>. DEFINE t == token[c]
    <3>1. t \in Tokens /\ rows'[t] \in Row /\ rows'[t].status = outcome[c]
             /\ rows'[t].ttl = FALSE
      BY <2>10 DEF Mark, CallsAreReady, Row, Statuses
    <3>2. IsTerminal(rows'[t]) /\ outcome[c] \in TerminalStatuses
      BY <2>10, <3>1 DEF Mark, CallsAreReady, IsTerminal
    <3>3. \A u \in Tokens : u # t => rows'[u] = rows[u]
      BY <2>10 DEF Mark
    <3>4. UNCHANGED <<lag, request, token, wire, writes, outcome>>
      BY <2>10 DEF Mark
    <3>5. RowInv'
      BY <2>10, <3>1, <3>2, <3>3, <3>4 DEF Mark
    <3>6. CallInv'
      <4>1. \A d \in Calls : IsTerminal(rows[token[d]]) => IsTerminal(rows'[token[d]])
        BY <3>2, <3>3
      <4>2. \A d \in Calls : d # c => pc'[d] = pc[d] /\ answer'[d] = answer[d]
        BY <2>10 DEF Mark
      <4>3. \/ outcome[c] = "executed" /\ pc'[c] = "resync" /\ answer' = answer
            \/ pc'[c] = "done"
        BY <2>10 DEF Mark
      <4>4. pc[c] = "mark" /\ c \in Calls
        BY <2>10 DEF Mark
      <4>. QED
        BY <3>2, <3>4, <4>1, <4>2, <4>3, <4>4
    <3>. QED BY <3>5, <3>6
  <2>11. CASE TriggerResync(c) BY <2>11 DEF TriggerResync
  <2>. QED BY <1>4, <2>1, <2>2, <2>3, <2>4, <2>5, <2>6, <2>7, <2>8, <2>9,
              <2>10, <2>11 DEF Handle
<1>5. ASSUME NEW c \in Calls, Abort(c) PROVE CallInv' /\ RowInv'
  BY <1>5 DEF Abort
<1>6. ASSUME NEW c \in Calls, Spp(c) PROVE CallInv' /\ RowInv'
  <2>1. CASE SppApplies(c) BY <2>1 DEF SppApplies
  <2>2. CASE SppRefuses(c) BY <2>2 DEF SppRefuses
  <2>3. CASE SppTurnsAway(c) BY <2>3 DEF SppTurnsAway
  <2>. QED BY <1>6, <2>1, <2>2, <2>3 DEF Spp
<1>7. ASSUME NEW t \in Tokens, Replicate(t) \/ TtlPasses(t) \/ Sweep(t)
      PROVE  CallInv' /\ RowInv'
  <2>1. CASE Replicate(t) BY <2>1 DEF Replicate, IsTerminal
  <2>2. CASE TtlPasses(t) BY <2>2 DEF TtlPasses
  <2>3. CASE Sweep(t) BY <2>3 DEF Sweep, PastTtl, IsTerminal
  <2>. QED BY <1>7, <2>1, <2>2, <2>3
<1>8. CASE RoleChanges \/ ViewChanges
  BY <1>8 DEF RoleChanges, ViewChanges
<1>9. CASE UNCHANGED vars
  BY <1>9 DEF vars
<1>. QED
  BY <1>1, <1>2, <1>3, <1>4, <1>5, <1>6, <1>7, <1>8, <1>9 DEF Next

\* The invariant holds throughout.
THEOREM Invariance == Spec => []IInv
BY InitIInv, NextIInv, PTL DEF Spec

-----------------------------------------------------------------------------
(* What follows from it. *)

\* However often sendXmlRequest retries, SPP applies the change of one
\* execute call at most once.
THEOREM WritesOnce == Spec => []AtMostOncePerCall
<1>1. IInv => AtMostOncePerCall
  BY DEF IInv, CallInv, AtMostOncePerCall, Typed, TypeOK
<1>. QED
  BY <1>1, Invariance, PTL

\* A caller who is told a final status finds a final row in the audit table.
THEOREM AnswersRecorded == Spec => []AnswersAreOnRecord
<1>1. IInv => AnswersAreOnRecord
  BY DEF IInv, CallInv, AnswersAreOnRecord
<1>. QED
  BY <1>1, Invariance, PTL

\* Steps leave what is written, whose it is and what was asked for in place.
LEMMA WrittenStays ==
  ASSUME IInv, [Next]_vars, NEW t \in Tokens, Written(t)
  PROVE  Written(t)'
<1>1. UNCHANGED token
  BY DEF Next, vars, storeVars, worldVars, sppVars, callVars, Get, Handle, Spp,
         ProposeAllowed, ProposeDenied, GetMissing, GetReplay, GetExpired,
         GetLive, CheckPasses, CheckFails, Prepare, PrepareFails, Post,
         ReplyNode, ReplyBare, ReplyRefused, FetchFails, Mark, TriggerResync,
         Abort, SppApplies, SppRefuses, SppTurnsAway, Replicate, TtlPasses,
         Sweep, RoleChanges, ViewChanges
<1>2. \/ UNCHANGED writes
      \/ \E c \in Calls : writes' = [writes EXCEPT ![c] = @ + 1]
  BY DEF Next, vars, storeVars, worldVars, sppVars, callVars, Get, Handle, Spp,
         ProposeAllowed, ProposeDenied, GetMissing, GetReplay, GetExpired,
         GetLive, CheckPasses, CheckFails, Prepare, PrepareFails, Post,
         ReplyNode, ReplyBare, ReplyRefused, FetchFails, Mark, TriggerResync,
         Abort, SppApplies, SppRefuses, SppTurnsAway, Replicate, TtlPasses,
         Sweep, RoleChanges, ViewChanges
<1>. QED
  BY <1>1, <1>2 DEF Written, IInv, Typed, TypeOK

LEMMA NextExecuted ==
  IInv /\ ExecutedMeansWritten /\ [Next]_vars => ExecutedMeansWritten'
<1>. SUFFICES ASSUME IInv, ExecutedMeansWritten, [Next]_vars
              PROVE  ExecutedMeansWritten'
  OBVIOUS
<1>. USE ConstantsAssumption, WrittenStays
     DEF ExecutedMeansWritten, IInv, Typed, TypeOK,
         storeVars, worldVars, sppVars, callVars
<1>1. ASSUME NEW t \in Tokens, NEW d \in Drafts, ProposeAllowed(t, d)
      PROVE  ExecutedMeansWritten'
  BY <1>1, WorkingIsDraft
  DEF ProposeAllowed, Fresh, CallInv, RowInv, IsTerminal, TerminalStatuses
<1>2. ASSUME NEW t \in Tokens, NEW d \in Drafts, ProposeDenied(t, d)
      PROVE  ExecutedMeansWritten'
  BY <1>2 DEF ProposeDenied
<1>3. ASSUME NEW c \in Calls, Get(c) PROVE ExecutedMeansWritten'
  <2>. USE DEF Starts, Returns, Answer
  <2>1. CASE GetMissing(c) BY <2>1 DEF GetMissing
  <2>2. CASE GetReplay(c) BY <2>2 DEF GetReplay, IsTerminal
  <2>3. CASE GetExpired(c) BY <2>3 DEF GetExpired
  <2>4. CASE GetLive(c) BY <2>4 DEF GetLive
  <2>. QED BY <1>3, <2>1, <2>2, <2>3, <2>4 DEF Get
<1>4. ASSUME NEW c \in Calls, Handle(c) PROVE ExecutedMeansWritten'
  <2>. USE DEF Conclude, Answer
  <2>1. CASE CheckPasses(c) BY <2>1 DEF CheckPasses
  <2>2. CASE CheckFails(c) BY <2>2 DEF CheckFails
  <2>3. CASE Prepare(c) BY <2>3 DEF Prepare
  <2>4. CASE PrepareFails(c) BY <2>4 DEF PrepareFails
  <2>5. CASE Post(c) BY <2>5 DEF Post
  <2>6. CASE ReplyNode(c) BY <2>6 DEF ReplyNode
  <2>7. CASE ReplyBare(c) BY <2>7 DEF ReplyBare
  <2>8. CASE ReplyRefused(c) BY <2>8 DEF ReplyRefused
  <2>9. CASE FetchFails(c) BY <2>9 DEF FetchFails
  <2>10. CASE Mark(c)
    <3>1. /\ outcome[c] = "executed" =>
               request[token[c]].action = "delete" \/ Written(token[c])
          /\ UNCHANGED <<lag, request, token, writes>>
      BY <2>10 DEF Mark, CallInv, Written
    <3>2. /\ rows'[token[c]].status = outcome[c]
          /\ \A u \in Tokens : u # token[c] => rows'[u] = rows[u]
          /\ \A d \in Calls : answer'[d] = "executed" => answer[d] = "executed"
      BY <2>10 DEF Mark
    <3>. QED BY <3>1, <3>2
  <2>11. CASE TriggerResync(c)
    BY <2>11 DEF TriggerResync, CallInv, Written
  <2>. QED BY <1>4, <2>1, <2>2, <2>3, <2>4, <2>5, <2>6, <2>7, <2>8, <2>9,
              <2>10, <2>11 DEF Handle
<1>5. ASSUME NEW c \in Calls, Abort(c) PROVE ExecutedMeansWritten'
  BY <1>5 DEF Abort
<1>6. ASSUME NEW c \in Calls, Spp(c) PROVE ExecutedMeansWritten'
  <2>1. CASE SppApplies(c) BY <2>1 DEF SppApplies
  <2>2. CASE SppRefuses(c) BY <2>2 DEF SppRefuses
  <2>3. CASE SppTurnsAway(c) BY <2>3 DEF SppTurnsAway
  <2>. QED BY <1>6, <2>1, <2>2, <2>3 DEF Spp
<1>7. ASSUME NEW t \in Tokens, Replicate(t) \/ TtlPasses(t) \/ Sweep(t)
      PROVE  ExecutedMeansWritten'
  BY <1>7 DEF Replicate, TtlPasses, Sweep
<1>8. CASE RoleChanges \/ ViewChanges
  BY <1>8 DEF RoleChanges, ViewChanges
<1>9. CASE UNCHANGED vars
  BY <1>9 DEF vars
<1>. QED
  BY <1>1, <1>2, <1>3, <1>4, <1>5, <1>6, <1>7, <1>8, <1>9 DEF Next

\* No false success: a create or update that the audit row, a lagging copy of
\* it or an answer calls executed has been applied by SPP.
THEOREM NoFalseSuccess == Spec => []ExecutedMeansWritten
<1>1. Init => ExecutedMeansWritten
  BY DEF Init, ExecutedMeansWritten
<1>. QED
  BY <1>1, NextExecuted, Invariance, PTL DEF Spec

\* No step removes a final row or makes a proposal of it again.
LEMMA TerminalStays ==
  ASSUME IInv, [Next]_vars, NEW t \in Tokens, IsTerminal(rows[t])
  PROVE  IsTerminal(rows'[t])
<1>1. ASSUME NEW c \in Calls, Mark(c) PROVE IsTerminal(rows'[t])
  <2>1. token[c] \in Tokens /\ outcome[c] \in TerminalStatuses
    BY <1>1 DEF Mark, IInv, Typed, TypeOK, CallsAreReady
  <2>2. rows'[token[c]] \in Row /\ rows'[token[c]].status = outcome[c]
    BY <1>1, <2>1 DEF Mark, IInv, Typed, TypeOK, Row, Statuses
  <2>3. t # token[c] => rows'[t] = rows[t]
    BY <1>1 DEF Mark
  <2>. QED
    BY <2>1, <2>2, <2>3, ConstantsAssumption DEF IsTerminal
<1>2. ASSUME NEW u \in Tokens, Sweep(u) PROVE IsTerminal(rows'[t])
  BY <1>2 DEF Sweep, PastTtl, IInv, RowInv, Typed, TypeOK
<1>3. ASSUME NEW u \in Tokens, NEW d \in Drafts,
             ProposeAllowed(u, d) \/ ProposeDenied(u, d)
      PROVE  IsTerminal(rows'[t])
  <2>1. u # t
    BY <1>3 DEF ProposeAllowed, ProposeDenied, Fresh, IsTerminal
  <2>2. rows'[t] = rows[t]
    BY <1>3, <2>1 DEF ProposeAllowed, ProposeDenied, IInv, Typed, TypeOK
  <2>. QED
    BY <2>2
<1>4. CASE UNCHANGED rows
  BY <1>4
<1>. QED
  BY <1>1, <1>2, <1>3, <1>4
  DEF Next, vars, storeVars, worldVars, sppVars, callVars, Get, Handle, Spp,
      GetMissing, GetReplay, GetExpired, GetLive, CheckPasses, CheckFails,
      Prepare, PrepareFails, Post, ReplyNode, ReplyBare, ReplyRefused,
      FetchFails, TriggerResync, Abort, SppApplies, SppRefuses,
      SppTurnsAway, Replicate, TtlPasses, RoleChanges, ViewChanges

\* A row that is no longer a live proposal stays in the audit table, and
\* stays final.
THEOREM AuditPermanence == Spec => AuditIsPermanent
<1>1. IInv /\ [Next]_vars =>
        [\A t \in Tokens : IsTerminal(rows[t]) => IsTerminal(rows'[t])]_vars
  BY TerminalStays
<1>. QED
  BY <1>1, Invariance, PTL DEF Spec, AuditIsPermanent

\* A confirmed create or update of a time entry names nobody but its
\* proposer: the owner rule was applied before the proposal was stored.
OwnRefs(q) ==
  /\ q.action = "create" => q.refs \intersect Users = {q.email}
  /\ q.action = "update" => q.refs \intersect Users = {}

RequestsAreOwn ==
  \A t \in Tokens :
    (request[t] # NoRequest /\ request[t].table = TimeEntries) =>
      OwnRefs(request[t])

\* The owner rule leaves no person but the proposer in a time entry.
LEMMA WorkingIsOwn ==
  ASSUME NEW d \in Drafts, d.table = TimeEntries
  PROVE  OwnRefs(Working(d))
<1>1. d \in Draft /\ d.email \in Users
  BY ConstantsAssumption DEF Draft
<1>2. /\ Working(d).action = d.action
      /\ Working(d).email = d.email
  BY WorkingIsDraft
<1>3. ASSUME d.action # "delete"
      PROVE  Working(d).refs = (d.refs \ Users) \union
                               (IF d.action = "create" THEN {d.email} ELSE {})
  BY <1>1, <1>3 DEF Working, Draft
<1>. QED
  BY <1>1, <1>2, <1>3 DEF OwnRefs

\* Only a proposal that is let through stores a request.
LEMMA RequestsStayOwn ==
  IInv /\ RequestsAreOwn /\ [Next]_vars => RequestsAreOwn'
<1>. SUFFICES ASSUME IInv, RequestsAreOwn, [Next]_vars
              PROVE  RequestsAreOwn'
  OBVIOUS
<1>1. ASSUME NEW t \in Tokens, NEW d \in Drafts, ProposeAllowed(t, d)
      PROVE  RequestsAreOwn'
  <2>1. request'[t] = Working(d) /\ \A u \in Tokens : u # t => request'[u] = request[u]
    BY <1>1 DEF ProposeAllowed, IInv, Typed, TypeOK
  <2>2. Working(d).table = d.table
    BY WorkingIsDraft
  <2>3. d.table = TimeEntries => OwnRefs(Working(d))
    BY WorkingIsOwn
  <2>. QED
    BY <2>1, <2>2, <2>3 DEF RequestsAreOwn
<1>2. CASE UNCHANGED request
  BY <1>2 DEF RequestsAreOwn
<1>. QED
  BY <1>1, <1>2
  DEF Next, vars, storeVars, worldVars, sppVars, callVars, Get, Handle, Spp,
      ProposeDenied, GetMissing, GetReplay, GetExpired, GetLive, CheckPasses,
      CheckFails, Prepare, PrepareFails, Post, ReplyNode, ReplyBare,
      ReplyRefused, FetchFails, Mark, TriggerResync, Abort, SppApplies,
      SppRefuses, SppTurnsAway, Replicate, TtlPasses, Sweep, RoleChanges,
      ViewChanges

\* Whoever executes it, a time entry is only ever written under the user
\* record of its proposer, and an update never moves one to another person.
THEOREM EntriesStayOwn == Spec => []TimeEntriesStayOwn
<1>1. Init => RequestsAreOwn
  BY DEF Init, RequestsAreOwn
<1>2. IInv /\ RequestsAreOwn => TimeEntriesStayOwn
  <2>. SUFFICES ASSUME IInv, RequestsAreOwn, NEW c \in Calls, writes[c] > 0
                PROVE  request[token[c]].table = TimeEntries =>
                         OwnRefs(request[token[c]])
    BY DEF TimeEntriesStayOwn, OwnRefs
  <2>1. token[c] \in Tokens
    BY DEF IInv, Typed, TypeOK
  <2>2. request[token[c]] # NoRequest
    BY DEF IInv, CallInv
  <2>. QED
    BY <2>1, <2>2 DEF RequestsAreOwn
<1>. QED
  BY <1>1, <1>2, RequestsStayOwn, Invariance, PTL DEF Spec

-----------------------------------------------------------------------------
(* SppWrite implements LicensedWrite: every initial state maps to an       *)
(* initial state and every step to a step or a stutter.                    *)

Licence == [c \in Calls |-> LicenceOf(c)]

\* The initial states map to initial states.
LEMMA InitRefines == Init => Licensed!Init
BY ConstantsAssumption
DEF Init, Licensed!Init, LicenceOf, Settled, Permitted, IsTerminal

\* What has settled stays settled: a final row is permanent, and the lagging
\* copy only ever catches up with it.
LEMMA SettledGrows ==
  ASSUME IInv, [Next]_vars
  PROVE  Settled \subseteq Settled'
<1>1. ASSUME NEW t \in Tokens, IsTerminal(rows[t]) PROVE IsTerminal(rows'[t])
  BY <1>1, TerminalStays
<1>2. ASSUME NEW t \in Tokens, IsTerminal(lag[t]) PROVE IsTerminal(lag'[t])
  <2>1. IsTerminal(rows[t])
    BY <1>2 DEF IInv, RowInv
  <2>2. ASSUME NEW u \in Tokens, Replicate(u) PROVE IsTerminal(lag'[t])
    BY <1>2, <2>1, <2>2 DEF Replicate, IInv, Typed, TypeOK
  <2>3. CASE UNCHANGED lag
    BY <1>2, <2>3
  <2>. QED
    BY <2>2, <2>3
    DEF Next, vars, storeVars, worldVars, sppVars, callVars, Get, Handle, Spp,
        ProposeAllowed, ProposeDenied, GetMissing, GetReplay, GetExpired,
        GetLive, CheckPasses, CheckFails, Prepare, PrepareFails, Post,
        ReplyNode, ReplyBare, ReplyRefused, FetchFails, Mark, TriggerResync,
        Abort, SppApplies, SppRefuses, SppTurnsAway, TtlPasses, Sweep,
        RoleChanges, ViewChanges
<1>. QED
  BY <1>1, <1>2 DEF Settled

\* A step that moves no licence is a step of the abstract world.
LEMMA QuietStep ==
  ASSUME IInv, [Next]_vars,
         UNCHANGED <<token, writes>>,
         \A c \in Calls : LicenceOf(c)' = LicenceOf(c)
  PROVE  Licensed!Next
BY SettledGrows DEF Licensed!Next, Licensed!World, Settled, Permitted

\* What one call holds depends on its own counters only.
LEMMA LicenceIsLocal ==
  ASSUME NEW c \in Calls,
         pc'[c] = pc[c], wire'[c] = wire[c], writes'[c] = writes[c]
  PROVE  LicenceOf(c)' = LicenceOf(c)
BY DEF LicenceOf

\* A step of one call that leaves the store and the permissions alone.
LEMMA CallStep ==
  ASSUME IInv, [Next]_vars, NEW c \in Calls,
         UNCHANGED <<rows, lag, request, roleAllows, visible, token>>,
         \A d \in Calls \ {c} :
           pc'[d] = pc[d] /\ wire'[d] = wire[d] /\ writes'[d] = writes[d],
         writes' \in [Calls -> Nat],
         \/ writes'[c] = writes[c] /\ LicenceOf(c)' = LicenceOf(c)
         \/ /\ writes'[c] = writes[c] /\ LicenceOf(c)' = "void"
            /\ LicenceOf(c) \in {"none", "admitted", "authorised"}
         \/ /\ writes'[c] = writes[c]
            /\ LicenceOf(c) = "none" /\ LicenceOf(c)' = "admitted"
            /\ token[c] \notin Settled
         \/ /\ writes'[c] = writes[c]
            /\ LicenceOf(c) = "admitted" /\ LicenceOf(c)' = "authorised"
            /\ c \in Permitted
         \/ /\ writes'[c] = writes[c] + 1
            /\ LicenceOf(c) = "authorised" /\ LicenceOf(c)' = "spent"
  PROVE  Licensed!Next
<1>1. \A d \in Calls \ {c} : LicenceOf(d)' = LicenceOf(d)
  BY LicenceIsLocal
<1>2. UNCHANGED <<Settled, Permitted>>
  BY DEF Settled, Permitted, Allowed
<1>3. ASSUME NEW to, LicenceOf(c)' = to
      PROVE  Licence' = [Licence EXCEPT ![c] = to]
  BY <1>1, <1>3 DEF Licence
<1>4. writes \in [Calls -> Nat]
  BY DEF IInv, Typed, TypeOK
<1>5. CASE writes'[c] = writes[c] /\ LicenceOf(c)' = LicenceOf(c)
  <2>1. writes' = writes
    BY <1>4, <1>5
  <2>. QED
    BY <1>1, <1>5, <2>1, QuietStep
<1>6. CASE /\ writes'[c] = writes[c] /\ LicenceOf(c)' = "void"
           /\ LicenceOf(c) \in {"none", "admitted", "authorised"}
  <2>1. writes' = writes
    BY <1>4, <1>6
  <2>2. Licensed!Lapse(c)
    BY <1>2, <1>3, <1>6, <2>1 DEF Licensed!Lapse, Licensed!Move, Licence
  <2>. QED
    BY <2>2 DEF Licensed!Next
<1>7. CASE /\ writes'[c] = writes[c]
           /\ LicenceOf(c) = "none" /\ LicenceOf(c)' = "admitted"
           /\ token[c] \notin Settled
  <2>1. writes' = writes
    BY <1>4, <1>7
  <2>2. Licensed!Admit(c)
    BY <1>2, <1>3, <1>7, <2>1 DEF Licensed!Admit, Licensed!Move, Licence
  <2>. QED
    BY <2>2 DEF Licensed!Next
<1>8. CASE /\ writes'[c] = writes[c]
           /\ LicenceOf(c) = "admitted" /\ LicenceOf(c)' = "authorised"
           /\ c \in Permitted
  <2>1. writes' = writes
    BY <1>4, <1>8
  <2>2. Licensed!Authorise(c)
    BY <1>2, <1>3, <1>8, <2>1 DEF Licensed!Authorise, Licensed!Move, Licence
  <2>. QED
    BY <2>2 DEF Licensed!Next
<1>9. CASE /\ writes'[c] = writes[c] + 1
           /\ LicenceOf(c) = "authorised" /\ LicenceOf(c)' = "spent"
  <2>1. writes' = [writes EXCEPT ![c] = @ + 1]
    BY <1>4, <1>9
  <2>2. Licensed!Write(c)
    BY <1>2, <1>3, <1>9, <2>1 DEF Licensed!Write, Licensed!Move, Licence
  <2>. QED
    BY <2>2 DEF Licensed!Next
<1>. QED
  BY <1>5, <1>6, <1>7, <1>8, <1>9

\* Every step of the workflow is a step of the abstract one or leaves it
\* unchanged.
LEMMA NextRefines ==
  ASSUME IInv, [Next]_vars
  PROVE  [Licensed!Next]_(Licensed!vars)
<1>. USE QuietStep, CallStep
     DEF storeVars, worldVars, sppVars, callVars
<1>0. Typed /\ TypeOK /\ CallInv
  BY DEF IInv, Typed
<1>1. ASSUME NEW t \in Tokens, NEW d \in Drafts,
             ProposeAllowed(t, d) \/ ProposeDenied(t, d)
      PROVE  Licensed!Next
  BY <1>1, LicenceIsLocal DEF ProposeAllowed, ProposeDenied
<1>2. ASSUME NEW c \in Calls, Get(c) PROVE Licensed!Next
  <2>0. /\ UNCHANGED <<rows, lag, request, roleAllows, visible, token, wire, writes>>
        /\ \A d \in Calls \ {c} : pc'[d] = pc[d]
        /\ pc[c] = "idle" /\ wire[c] = "empty" /\ writes[c] = 0
    BY <1>0, <1>2
    DEF Get, GetMissing, GetReplay, GetExpired, GetLive, Starts, Answer,
        TypeOK, CallInv
  <2>. USE <2>0
  <2>1. LicenceOf(c) = "none"
    BY DEF LicenceOf
  <2>2. CASE GetLive(c)
    <3>1. pc'[c] = "check" /\ token[c] \notin Settled
      BY <1>0, <2>2
      DEF GetLive, Returns, IsLive, Settled, IsTerminal, TerminalStatuses, TypeOK
    <3>2. LicenceOf(c)' = "admitted"
      BY <3>1 DEF LicenceOf
    <3>. QED
      BY <1>0, <2>1, <3>1, <3>2 DEF TypeOK
  <2>3. CASE ~GetLive(c)
    <3>1. pc'[c] = "done"
      BY <1>0, <1>2, <2>3
      DEF Get, GetMissing, GetReplay, GetExpired, Answer, TypeOK
    <3>2. LicenceOf(c)' = "void"
      BY <3>1 DEF LicenceOf
    <3>. QED
      BY <1>0, <2>1, <3>2 DEF TypeOK
  <2>. QED
    BY <2>2, <2>3
<1>3. ASSUME NEW c \in Calls, Handle(c) \/ Abort(c) PROVE Licensed!Next
  <2>0. /\ UNCHANGED <<lag, request, roleAllows, visible, token, writes>>
        /\ \A d \in Calls \ {c} : pc'[d] = pc[d] /\ wire'[d] = wire[d]
        /\ pc[c] # "idle"
    BY <1>0, <1>3
    DEF Handle, Abort, CheckPasses, CheckFails, Prepare, PrepareFails, Post,
        ReplyNode, ReplyBare, ReplyRefused, FetchFails, Mark, TriggerResync,
        Conclude, Answer, TypeOK
  <2>. USE <1>0, <2>0 DEF TypeOK
  <2>1. CASE CheckPasses(c)
    <3>1. LicenceOf(c) = "admitted" /\ LicenceOf(c)' = "authorised"
      BY <2>1 DEF CheckPasses, LicenceOf, CallInv
    <3>2. c \in Permitted
      BY <2>1 DEF CheckPasses, Permitted, CallInv
    <3>. QED
      BY <2>1, <3>1, <3>2 DEF CheckPasses
  <2>2. CASE CheckFails(c)
    <3>1. LicenceOf(c) = "admitted" /\ LicenceOf(c)' = "void"
      BY <2>2 DEF CheckFails, Conclude, LicenceOf, CallInv
    <3>. QED
      BY <2>2, <3>1 DEF CheckFails
  <2>3. CASE Prepare(c)
    <3>1. LicenceOf(c)' = LicenceOf(c)
      BY <2>3 DEF Prepare, LicenceOf, CallInv
    <3>. QED
      BY <2>3, <3>1 DEF Prepare
  <2>4. CASE PrepareFails(c)
    <3>1. LicenceOf(c) = "authorised" /\ LicenceOf(c)' = "void"
      BY <2>4 DEF PrepareFails, Conclude, LicenceOf, CallInv
    <3>. QED
      BY <2>4, <3>1 DEF PrepareFails
  <2>5. CASE Post(c)
    <3>1. LicenceOf(c)' = LicenceOf(c)
      BY <2>5 DEF Post, LicenceOf, CallInv
    <3>. QED
      BY <2>5, <3>1 DEF Post
  <2>6. CASE ReplyNode(c)
    <3>1. \/ LicenceOf(c)' = LicenceOf(c)
          \/ LicenceOf(c) = "authorised" /\ LicenceOf(c)' = "void"
      BY <2>6 DEF ReplyNode, Conclude, LicenceOf, CallInv
    <3>. QED
      BY <2>6, <3>1 DEF ReplyNode
  <2>7. CASE ReplyBare(c)
    <3>1. LicenceOf(c)' = LicenceOf(c)
      BY <2>7 DEF ReplyBare, LicenceOf, CallInv
    <3>. QED
      BY <2>7, <3>1 DEF ReplyBare
  <2>8. CASE ReplyRefused(c)
    <3>1. LicenceOf(c) = "authorised" /\ LicenceOf(c)' = "void"
      BY <2>8 DEF ReplyRefused, Conclude, LicenceOf, CallInv
    <3>. QED
      BY <2>8, <3>1 DEF ReplyRefused
  <2>9. CASE FetchFails(c)
    <3>1. \/ LicenceOf(c)' = LicenceOf(c)
          \/ LicenceOf(c) = "authorised" /\ LicenceOf(c)' = "void"
      BY <2>9 DEF FetchFails, Conclude, LicenceOf, CallInv
    <3>. QED
      BY <2>9, <3>1 DEF FetchFails
  <2>10. CASE Mark(c)
    <3>1. pc[c] = "mark" /\ UNCHANGED wire
      BY <2>10 DEF Mark
    <3>2. \/ pc'[c] = "done"
          \/ pc'[c] = "resync" /\ wire[c] = "node"
      BY <2>10 DEF Mark, Answer, CallInv
    <3>3. LicenceOf(c)' = LicenceOf(c)
      BY <3>1, <3>2 DEF LicenceOf
    <3>. QED
      BY <3>1, <3>3, LicenceIsLocal
  <2>11. CASE TriggerResync(c)
    <3>1. LicenceOf(c)' = LicenceOf(c)
      BY <2>11 DEF TriggerResync, Answer, LicenceOf, CallInv
    <3>. QED
      BY <2>11, <3>1 DEF TriggerResync
  <2>12. CASE Abort(c)
    <3>1. \/ LicenceOf(c)' = LicenceOf(c)
          \/ LicenceOf(c) \in {"admitted", "authorised"} /\ LicenceOf(c)' = "void"
      BY <2>12 DEF Abort, LicenceOf, CallInv
    <3>. QED
      BY <2>12, <3>1 DEF Abort
  <2>. QED
    BY <1>3, <2>1, <2>2, <2>3, <2>4, <2>5, <2>6, <2>7, <2>8, <2>9, <2>10,
       <2>11, <2>12 DEF Handle
<1>4. ASSUME NEW c \in Calls, Spp(c) PROVE Licensed!Next
  <2>0. /\ UNCHANGED <<rows, lag, request, roleAllows, visible, token, pc>>
        /\ \A d \in Calls \ {c} : wire'[d] = wire[d] /\ writes'[d] = writes[d]
        /\ writes' \in [Calls -> Nat]
        /\ wire[c] = "sent" /\ wire'[c] \in {"node", "refused", "bare"}
    BY <1>0, <1>4 DEF Spp, SppApplies, SppRefuses, SppTurnsAway, TypeOK
  <2>1. LicenceOf(c) = "authorised"
    BY <1>0, <2>0 DEF LicenceOf, CallInv, TypeOK, PCs
  <2>2. CASE SppApplies(c)
    <3>1. writes'[c] = writes[c] + 1 /\ writes[c] = 0
      BY <1>0, <2>0, <2>2 DEF SppApplies, CallInv, TypeOK
    <3>2. LicenceOf(c)' = "spent"
      BY <3>1 DEF LicenceOf
    <3>. QED
      BY <2>0, <2>1, <3>1, <3>2
  <2>3. CASE SppRefuses(c) \/ SppTurnsAway(c)
    <3>1. writes' = writes /\ writes[c] = 0
      BY <1>0, <2>0, <2>3 DEF SppRefuses, SppTurnsAway, CallInv, TypeOK
    <3>2. LicenceOf(c)' \in {"authorised", "void"}
      BY <1>0, <2>0, <3>1 DEF LicenceOf, CallInv, TypeOK, PCs
    <3>. QED
      BY <2>0, <2>1, <3>1, <3>2
  <2>. QED
    BY <1>4, <2>2, <2>3 DEF Spp
<1>5. ASSUME NEW t \in Tokens, Replicate(t) \/ TtlPasses(t) \/ Sweep(t)
      PROVE  Licensed!Next
  BY <1>5, LicenceIsLocal DEF Replicate, TtlPasses, Sweep
<1>6. ASSUME RoleChanges \/ ViewChanges PROVE Licensed!Next
  BY <1>6, LicenceIsLocal DEF RoleChanges, ViewChanges
<1>7. ASSUME UNCHANGED vars PROVE UNCHANGED Licensed!vars
  BY <1>7
  DEF vars, Licensed!vars, Settled, Permitted, LicenceOf, Allowed
<1>. QED
  BY <1>1, <1>2, <1>3, <1>4, <1>5, <1>6, <1>7 DEF Next

\* The workflow keeps the promise of LicensedWrite.
THEOREM Refinement == Spec => LicensedSpec
<1>1. IInv /\ [Next]_vars => [Licensed!Next]_(Licensed!vars)
  BY NextRefines
<1>. QED
  BY <1>1, InitRefines, Invariance, PTL
  DEF Spec, LicensedSpec, Licensed!Spec

=============================================================================
