------------------------ MODULE SppConnectionProofs ------------------------
(***************************************************************************)
(* Proofs about SppConnection, for any number of calls, any lifetime of    *)
(* the tokens and whatever the authorization server does with refresh      *)
(* tokens.                                                                 *)
(*                                                                         *)
(* HandedOutIsValid is about one step, but it needs to know how far an     *)
(* "expires_at" can be off: RowInv and SaveInv say that every copy of an   *)
(* item, in the table, on a replica or in a call, claims at most MaxDelay  *)
(* more than the server granted. ConnectionKept needs to know who holds a  *)
(* refresh token: one that a call is about to store is nobody else's.      *)
(***************************************************************************)
EXTENDS SppConnection, TLAPS

\* The expiry an item claims is at most MaxDelay too late.
Honest(r) == /\ r.access \in DOMAIN issued
             /\ r.expires <= issued[r.access] + MaxDelay

RowInv == /\ row # NoTokens => Honest(row)
          /\ rowLag # NoTokens => Honest(rowLag)

\* A token that is being saved was issued no longer than MaxDelay ago.
Recent(c) == /\ item[c].access \in DOMAIN issued
             /\ now + Lifetime <= issued[item[c].access] + MaxDelay

SaveInv == \A c \in Calls :
             /\ pc[c] \in SaveSteps => Recent(c)
             /\ pc[c] \in {"keep", "put"} => Honest(item[c])

\* A call has no answer before it is done.
AnswerInv == \A c \in Calls : pc[c] # "done" => answer[c] = "none"

IInv == TypeOK /\ RowInv /\ SaveInv /\ AnswerInv /\ NewestLinkStands

-----------------------------------------------------------------------------
(* Type correctness. *)

LEMMA TypeInit == ASSUME ConstantsAssumption, Init PROVE TypeOK
BY DEF ConstantsAssumption, Init, TypeOK, NoItem, TokenRow, Answers,
       SHARED_UTIL_TRIES

\* The fields of an item of oauth_tokens, whichever copy of it is read.
LEMMA CopyType ==
  ASSUME TypeOK, NEW seen \in {row, rowLag}, seen # NoTokens
  PROVE  seen.access \in Nat /\ seen.expires \in Nat
         /\ seen.refresh \in Nat \union {NoToken}
<1>1. seen \in TokenRow
  BY DEF TypeOK
<1> QED
  BY <1>1 DEF TokenRow

LEMMA ItemType ==
  ASSUME TypeOK, NEW c \in Calls
  PROVE  /\ item[c].access \in Nat /\ item[c].expires \in Nat
         /\ item[c].refresh \in Nat \union {NoToken}
         /\ item[c] \in TokenRow
<1>1. item[c] \in TokenRow
  BY DEF TypeOK
<1> QED
  BY <1>1 DEF TokenRow

\* An item with another field.
LEMMA Replaced ==
  ASSUME NEW r \in TokenRow, NEW n \in Nat, NEW t \in Nat \union {NoToken}
  PROVE  /\ [r EXCEPT !.expires = n] \in TokenRow
         /\ [r EXCEPT !.expires = n].access = r.access
         /\ [r EXCEPT !.expires = n].expires = n
         /\ [r EXCEPT !.refresh = t] \in TokenRow
         /\ [r EXCEPT !.refresh = t].access = r.access
         /\ [r EXCEPT !.refresh = t].expires = r.expires
BY DEF TokenRow

\* A token that is issued extends the server's record of them.
LEMMA Issuing ==
  ASSUME TypeOK, ConstantsAssumption,
         issued' = Append(issued, now + Lifetime)
  PROVE  /\ issued' \in Seq(Nat)
         /\ Fresh \in Nat \ {0}
         /\ Fresh \in DOMAIN issued'
         /\ issued'[Fresh] = now + Lifetime
         /\ DOMAIN issued \subseteq DOMAIN issued'
         /\ \A a \in DOMAIN issued : issued'[a] = issued[a]
<1>1. now + Lifetime \in Nat /\ issued \in Seq(Nat)
  BY DEF TypeOK, ConstantsAssumption
<1> QED
  BY <1>1 DEF Fresh

LEMMA TypeConfig ==
  ASSUME TypeOK, ConstantsAssumption, NEW c \in Calls,
         Start(c) \/ Connect(c) \/ (\E l \in open : SignIn(c, l)) \/ Verify(c)
  PROVE  TypeOK'
<1> USE DEF TypeOK, Goto, Answer, ConfigSteps, TokenSteps, Answers
<1>1. CASE Start(c)
  BY <1>1 DEF Start, tableVars, serverVars, linkVars
<1>2. CASE EnsureGet(c)
  BY <1>2 DEF EnsureGet, tableVars, serverVars, linkVars
<1>3. CASE EnsurePut(c)
  BY <1>3 DEF EnsurePut, SetConfig, serverVars, linkVars
<1>4. CASE UrlGet(c)
  <2>1. tries' \in [Calls -> 0 .. (SHARED_UTIL_TRIES - 1)]
    <3>1. \/ tries' = tries
          \/ /\ tries[c] + 1 < SHARED_UTIL_TRIES
             /\ tries' = [tries EXCEPT ![c] = @ + 1]
      BY <1>4 DEF UrlGet
    <3>2. tries \in [Calls -> 0 .. 2]
      BY DEF SHARED_UTIL_TRIES
    <3>3. tries' \in [Calls -> 0 .. 2]
      <4> HIDE DEF TypeOK
      <4>1. tries[c] \in 0 .. 2
        BY <3>2
      <4> QED
        BY <3>1, <3>2, <4>1 DEF SHARED_UTIL_TRIES
    <3> QED
      BY <3>3 DEF SHARED_UTIL_TRIES
  <2> QED
    BY <1>4, <2>1 DEF UrlGet, tableVars, serverVars, linkVars
<1>5. CASE UrlUpdate(c)
  BY <1>5 DEF UrlUpdate, SetConfig, serverVars
<1>6. CASE \E l \in open : SignIn(c, l)
  BY <1>6 DEF SignIn, tableVars, serverVars
<1>7. CASE Verify(c)
  BY <1>7 DEF Verify, tableVars, serverVars, linkVars
<1> QED
  BY <1>1, <1>2, <1>3, <1>4, <1>5, <1>6, <1>7 DEF Connect

LEMMA TypeAccess ==
  ASSUME TypeOK, ConstantsAssumption, NEW c \in Calls,
         Exchange(c) \/ Access(c)
  PROVE  TypeOK'
<1> USE DEF TypeOK, Goto, Answer, TokenSteps, SaveSteps, Answers
<1>1. CASE Exchange(c)
  <2>1. issued' \in Seq(Nat) /\ Fresh \in Nat
    BY <1>1, Issuing DEF Exchange
  <2>2. item' \in [Calls -> TokenRow]
    BY <1>1, <2>1 DEF Exchange, TokenRow
  <2> QED
    BY <1>1, <2>1, <2>2 DEF Exchange, tableVars, linkVars
<1>2. CASE Check(c)
  <2>1. token' \in [Calls -> Nat]
    <3>1. PICK seen \in {row, rowLag} :
            \/ token' = token
            \/ seen # NoTokens /\ token' = [token EXCEPT ![c] = seen.access]
      BY <1>2 DEF Check
    <3> QED
      BY <3>1, CopyType
  <2> QED
    BY <1>2, <2>1 DEF Check, tableVars, serverVars, linkVars
<1>3. CASE Read(c)
  <2>1. refresh' \in [Calls -> Nat \union {NoToken}]
    BY <1>3, CopyType DEF Read, HasRefresh
  <2> QED
    BY <1>3, <2>1 DEF Read, tableVars, serverVars, linkVars
<1>4. CASE Fetch(c) \/ FetchLost(c)
  <2>1. issued' \in Seq(Nat) /\ Fresh \in Nat
    BY <1>4, Issuing DEF Fetch, FetchLost, Grant
  <2>2. live' \subseteq Nat
    <3>1. live' = StillLive(refresh[c])
      BY <1>4 DEF Fetch, FetchLost, Grant
    <3>2. StillLive(refresh[c]) \subseteq live \union {Fresh}
      BY DEF StillLive
    <3> QED
      BY <3>1, <3>2, <2>1
  <2>3. NewRefresh(refresh[c]) \in Nat \union {NoToken}
    BY <2>1, ConstantsAssumption DEF NewRefresh, ConstantsAssumption
  <2>4. item' \in [Calls -> TokenRow]
    <3> DEFINE new == [access |-> Fresh, refresh |-> NewRefresh(refresh[c]),
                       expires |-> 0]
    <3>1. new \in TokenRow
      BY <2>1, <2>3 DEF TokenRow
    <3>2. item' = item \/ item' = [item EXCEPT ![c] = new]
      BY <1>4 DEF Fetch, FetchLost
    <3> HIDE DEF new
    <3> QED
      BY <3>1, <3>2
  <2> QED
    <3>1. losses' \in Nat
      BY <1>4 DEF Fetch, FetchLost
    <3>2. pc' \in [Calls -> ConfigSteps \union TokenSteps \union SaveSteps
                           \union {"idle", "done"}]
          /\ answer' \in [Calls -> Answers]
      BY <1>4 DEF Fetch, FetchLost
    <3>3. UNCHANGED <<now, tableVars, rotation, linkVars, tries, link,
                      refresh, token>>
      BY <1>4 DEF Fetch, FetchLost
    <3> QED
      BY <2>1, <2>2, <2>4, <3>1, <3>2, <3>3 DEF tableVars, linkVars
<1>5. CASE FetchRefused(c)
  BY <1>5 DEF FetchRefused, tableVars, serverVars, linkVars
<1> QED
  BY <1>1, <1>2, <1>3, <1>4, <1>5 DEF Access

LEMMA TypeRest ==
  ASSUME TypeOK, ConstantsAssumption,
         \/ Tick \/ Replicate \/ UNCHANGED vars
         \/ \E c \in Calls : Save(c) \/ Crash(c)
  PROVE  TypeOK'
<1> USE DEF TypeOK, Goto, Answer, SaveSteps, Answers
<1>1. ASSUME NEW c \in Calls, Stamp(c) PROVE TypeOK'
  <2>1. item' \in [Calls -> TokenRow]
    <3>1. now + Lifetime \in Nat
      BY DEF ConstantsAssumption
    <3>2. [item[c] EXCEPT !.expires = now + Lifetime] \in TokenRow
      BY <3>1, ItemType, Replaced
    <3>3. item' = [item EXCEPT ![c] =
                     [item[c] EXCEPT !.expires = now + Lifetime]]
      BY <1>1 DEF Stamp
    <3> QED
      BY <3>2, <3>3
  <2> QED
    BY <1>1, <2>1 DEF Stamp, tableVars, serverVars, linkVars
<1>2. ASSUME NEW c \in Calls, Keep(c) PROVE TypeOK'
  <2>1. item' \in [Calls -> TokenRow]
    <3>1. PICK seen \in {row, rowLag} :
            item' = [item EXCEPT ![c].refresh =
                       IF seen = NoTokens THEN NoToken ELSE seen.refresh]
      BY <1>2 DEF Keep
    <3> DEFINE kept == IF seen = NoTokens THEN NoToken ELSE seen.refresh
    <3>2. kept \in Nat \union {NoToken}
      BY CopyType
    <3>3. [item[c] EXCEPT !.refresh = kept] \in TokenRow
      BY <3>2, ItemType, Replaced
    <3>4. item' = [item EXCEPT ![c] = [item[c] EXCEPT !.refresh = kept]]
      BY <3>1
    <3> QED
      BY <3>3, <3>4
  <2> QED
    BY <1>2, <2>1 DEF Keep, tableVars, serverVars, linkVars
<1>3. ASSUME NEW c \in Calls, Put(c) PROVE TypeOK'
  <2>1. token' \in [Calls -> Nat]
    BY <1>3, ItemType DEF Put
  <2>2. row' \in TokenRow \union {NoTokens}
        /\ rowLag' \in TokenRow \union {NoTokens}
    BY <1>3, ItemType DEF Put, SetRow
  <2> QED
    BY <1>3, <2>1, <2>2 DEF Put, serverVars, linkVars
<1>4. ASSUME NEW c \in Calls, Crash(c) PROVE TypeOK'
  BY <1>4 DEF Crash, tableVars, serverVars, linkVars
<1>5. CASE Tick
  BY <1>5 DEF Tick, tableVars, serverVars, linkVars, callVars
<1>6. CASE Replicate
  BY <1>6 DEF Replicate, serverVars, linkVars, callVars
<1>7. CASE UNCHANGED vars
  BY <1>7 DEF vars, tableVars, serverVars, linkVars, callVars
<1> QED
  BY <1>1, <1>2, <1>3, <1>4, <1>5, <1>6, <1>7 DEF Save

LEMMA TypeStep ==
  ASSUME TypeOK, ConstantsAssumption, [Next]_vars
  PROVE  TypeOK'
BY TypeConfig, TypeAccess, TypeRest DEF Next, Callback

-----------------------------------------------------------------------------
(* How far an expiry can be off. *)

LEMMA ExpiryInit == ASSUME Init PROVE RowInv /\ SaveInv
BY DEF Init, RowInv, SaveInv, SaveSteps

\* A step that neither stores nor issues nor computes anything.
LEMMA ExpiryQuiet ==
  ASSUME TypeOK, RowInv, SaveInv, NEW c \in Calls,
         UNCHANGED <<now, row, rowLag, issued, item>>,
         \A d \in Calls \ {c} : pc'[d] = pc[d],
         pc'[c] \notin SaveSteps
  PROVE  RowInv' /\ SaveInv'
BY DEF RowInv, SaveInv, Honest, Recent, SaveSteps

\* Issuing a token changes nothing about those there are.
LEMMA ExpiryIssued ==
  ASSUME TypeOK, ConstantsAssumption, RowInv, SaveInv, NEW c \in Calls,
         UNCHANGED <<now, row, rowLag>>,
         issued' = Append(issued, now + Lifetime),
         \A d \in Calls \ {c} : pc'[d] = pc[d] /\ item'[d] = item[d],
         \/ pc'[c] \notin SaveSteps
         \/ pc'[c] = "stamp" /\ item'[c].access = Fresh
  PROVE  RowInv' /\ SaveInv'
<1>1. RowInv'
  BY Issuing DEF RowInv, Honest
<1>2. ASSUME NEW d \in Calls \ {c}
      PROVE  /\ pc'[d] \in SaveSteps => Recent(d)'
             /\ pc'[d] \in {"keep", "put"} => Honest(item[d])'
  BY Issuing DEF SaveInv, Recent, Honest
<1>3. pc'[c] \in SaveSteps => Recent(c)'
  <2> SUFFICES ASSUME item'[c].access = Fresh PROVE Recent(c)'
    OBVIOUS
  <2>1. now' + Lifetime <= issued'[Fresh] + MaxDelay
    BY Issuing DEF TypeOK, ConstantsAssumption, EXPIRY_BUFFER
  <2> QED
    BY <2>1, Issuing DEF Recent
<1>4. pc'[c] \notin {"keep", "put"}
  BY DEF SaveSteps
<1> QED
  BY <1>1, <1>2, <1>3, <1>4 DEF SaveInv

LEMMA ExpiryStep ==
  ASSUME TypeOK, ConstantsAssumption, RowInv, SaveInv, [Next]_vars
  PROVE  RowInv' /\ SaveInv'
<1>1. ASSUME NEW c \in Calls,
             \/ Start(c) \/ Connect(c) \/ (\E l \in open : SignIn(c, l))
             \/ Verify(c) \/ Check(c) \/ Read(c) \/ FetchRefused(c) \/ Crash(c)
      PROVE  RowInv' /\ SaveInv'
  <2>1. UNCHANGED <<now, row, rowLag, issued, item>>
    BY <1>1 DEF Start, Connect, EnsureGet, EnsurePut, UrlGet, UrlUpdate, SignIn,
                Verify, Check, Read, FetchRefused, Crash, tableVars, serverVars
  <2>2. /\ \A d \in Calls \ {c} : pc'[d] = pc[d]
        /\ pc'[c] \notin SaveSteps
    BY <1>1 DEF Start, Connect, EnsureGet, EnsurePut, UrlGet, UrlUpdate, SignIn,
                Verify, Check, Read, FetchRefused, Crash, Goto, Answer,
                SaveSteps, TypeOK
  <2> QED
    BY <2>1, <2>2, ExpiryQuiet
<1>2. ASSUME NEW c \in Calls, Exchange(c) \/ Fetch(c) \/ FetchLost(c)
      PROVE  RowInv' /\ SaveInv'
  <2>1. /\ UNCHANGED <<now, row, rowLag>>
        /\ issued' = Append(issued, now + Lifetime)
    BY <1>2 DEF Exchange, Fetch, FetchLost, Grant, tableVars
  <2>2. \A d \in Calls \ {c} : pc'[d] = pc[d] /\ item'[d] = item[d]
    BY <1>2 DEF Exchange, Fetch, FetchLost, Goto, Answer, TypeOK
  <2>3. \/ pc'[c] \notin SaveSteps
        \/ pc'[c] = "stamp" /\ item'[c].access = Fresh
    BY <1>2 DEF Exchange, Fetch, FetchLost, Goto, Answer, TypeOK, SaveSteps
  <2> QED
    BY <2>1, <2>2, <2>3, ExpiryIssued
<1>3. ASSUME NEW c \in Calls, Stamp(c) PROVE RowInv' /\ SaveInv'
  <2>1. UNCHANGED <<now, row, rowLag, issued>>
    BY <1>3 DEF Stamp, tableVars, serverVars
  <2>2. \A d \in Calls \ {c} : pc'[d] = pc[d] /\ item'[d] = item[d]
    BY <1>3 DEF Stamp, Goto, TypeOK
  <2>3. Recent(c) /\ now + Lifetime \in Nat
    BY <1>3 DEF Stamp, SaveInv, SaveSteps, TypeOK, ConstantsAssumption
  <2>4. item'[c] = [item[c] EXCEPT !.expires = now + Lifetime]
    BY <1>3 DEF Stamp, TypeOK
  <2>5. item'[c].access = item[c].access /\ item'[c].expires = now + Lifetime
    BY <2>3, <2>4, ItemType, Replaced
  <2>6. Recent(c)' /\ Honest(item[c])'
    BY <2>1, <2>3, <2>5 DEF Recent, Honest
  <2> QED
    BY <2>1, <2>2, <2>6 DEF RowInv, SaveInv, Recent, Honest
<1>4. ASSUME NEW c \in Calls, Keep(c) PROVE RowInv' /\ SaveInv'
  <2>1. UNCHANGED <<now, row, rowLag, issued>>
    BY <1>4 DEF Keep, tableVars, serverVars
  <2>2. \A d \in Calls \ {c} : pc'[d] = pc[d] /\ item'[d] = item[d]
    BY <1>4 DEF Keep, Goto, TypeOK
  <2>3. item'[c].access = item[c].access /\ item'[c].expires = item[c].expires
    <3>1. PICK seen \in {row, rowLag} :
            item' = [item EXCEPT ![c].refresh =
                       IF seen = NoTokens THEN NoToken ELSE seen.refresh]
      BY <1>4 DEF Keep
    <3> DEFINE kept == IF seen = NoTokens THEN NoToken ELSE seen.refresh
    <3>2. kept \in Nat \union {NoToken}
      BY CopyType
    <3>3. item'[c] = [item[c] EXCEPT !.refresh = kept]
      BY <3>1 DEF TypeOK
    <3> QED
      BY <3>2, <3>3, ItemType, Replaced
  <2>4. Recent(c) /\ Honest(item[c])
    BY <1>4 DEF Keep, SaveInv, SaveSteps
  <2>5. Recent(c)' /\ Honest(item[c])'
    BY <2>1, <2>3, <2>4 DEF Recent, Honest
  <2> QED
    BY <2>1, <2>2, <2>5 DEF RowInv, SaveInv, Recent, Honest
<1>5. ASSUME NEW c \in Calls, Put(c) PROVE RowInv' /\ SaveInv'
  <2>1. UNCHANGED <<now, issued, item>>
    BY <1>5 DEF Put, serverVars
  <2>2. /\ \A d \in Calls \ {c} : pc'[d] = pc[d]
        /\ pc'[c] \notin SaveSteps
    BY <1>5 DEF Put, Goto, Answer, SaveSteps, TypeOK
  <2>3. Honest(item[c])
    BY <1>5 DEF Put, SaveInv
  <2>4. row' = item[c] /\ rowLag' \in {rowLag, row}
    BY <1>5 DEF Put, SetRow
  <2>5. RowInv'
    BY <2>1, <2>3, <2>4 DEF RowInv, Honest
  <2>6. SaveInv'
    BY <2>1, <2>2 DEF SaveInv, Recent, Honest, SaveSteps
  <2> QED
    BY <2>5, <2>6
<1>6. CASE Tick
  <2>1. UNCHANGED <<row, rowLag, issued, item, pc>> /\ now' = now + 1
    BY <1>6 DEF Tick, tableVars, serverVars, callVars
  <2>2. \A c \in Calls : pc[c] \in SaveSteps =>
          /\ item[c].access \in DOMAIN issued
          /\ now + 1 <= issued[item[c].access] - Lifetime + MaxDelay
    BY <1>6 DEF Tick, SaveInv, Recent
  <2>3. \A c \in Calls : pc[c] \in SaveSteps => Recent(c)'
    <3> SUFFICES ASSUME NEW c \in Calls, pc[c] \in SaveSteps PROVE Recent(c)'
      OBVIOUS
    <3>1. issued[item[c].access] \in Nat
      BY <2>2 DEF TypeOK
    <3>2. now + 1 + Lifetime <= issued[item[c].access] + MaxDelay
      <4>1. now \in Int /\ Lifetime \in Int /\ MaxDelay \in Int
        BY DEF TypeOK, ConstantsAssumption, EXPIRY_BUFFER
      <4>2. now + 1 <= issued[item[c].access] - Lifetime + MaxDelay
        BY <2>2
      <4> QED
        BY <3>1, <4>1, <4>2
    <3> QED
      BY <2>1, <2>2, <3>2 DEF Recent
  <2> QED
    BY <2>1, <2>3 DEF RowInv, SaveInv, Honest
<1>7. CASE Replicate
  BY <1>7 DEF Replicate, serverVars, callVars, RowInv, SaveInv, Honest, Recent
<1>8. CASE UNCHANGED vars
  BY <1>8 DEF vars, tableVars, serverVars, callVars, RowInv, SaveInv, Honest,
              Recent
<1> QED
  BY <1>1, <1>2, <1>3, <1>4, <1>5, <1>6, <1>7, <1>8
     DEF Next, Callback, Access, Save

LEMMA AnswerStep ==
  ASSUME TypeOK, ConstantsAssumption, AnswerInv, [Next]_vars
  PROVE  AnswerInv'
<1>1. ASSUME NEW c \in Calls,
             Start(c) \/ Connect(c) \/ Callback(c) \/ Access(c) \/ Save(c)
             \/ Crash(c)
      PROVE  AnswerInv'
  <2>1. \/ answer' = answer /\ \E s : s # "done" /\ Goto(c, s) /\ pc[c] # "done"
        \/ answer' = answer /\ pc' = pc
        \/ \E a \in Answers : Answer(c, a)
    BY <1>1 DEF Start, Connect, EnsureGet, EnsurePut, UrlGet, UrlUpdate,
         Callback, SignIn, Verify, Exchange, Access, Check, Read, Fetch,
         FetchRefused, FetchLost, Save, Stamp, Keep, Put, Crash, Answers
  <2> QED
    BY <2>1 DEF Goto, Answer, AnswerInv, TypeOK
<1>2. CASE Tick \/ Replicate \/ UNCHANGED vars
  BY <1>2 DEF Tick, Replicate, vars, callVars, AnswerInv
<1> QED
  BY <1>1, <1>2 DEF Next

-----------------------------------------------------------------------------
(* The newest link. *)

\* Only a call that asks for a link touches the config, and a conditional put
\* does not touch it once there is a link.
LEMMA NewestStep ==
  ASSUME TypeOK, ConstantsAssumption, NewestLinkStands, [Next]_vars
  PROVE  NewestLinkStands'
<1>1. ASSUME NEW c \in Calls, EnsurePut(c) PROVE NewestLinkStands'
  BY <1>1 DEF EnsurePut, SetConfig, linkVars, NewestLinkStands, TypeOK,
              ConstantsAssumption
<1>2. ASSUME NEW c \in Calls, UrlUpdate(c) PROVE NewestLinkStands'
  BY <1>2 DEF UrlUpdate, SetConfig, NewestLinkStands
<1>3. CASE UNCHANGED <<config, links>>
  BY <1>3 DEF NewestLinkStands
<1>4. ASSUME NEW c \in Calls,
             \/ Start(c) \/ EnsureGet(c) \/ UrlGet(c) \/ Callback(c)
             \/ Access(c) \/ Save(c) \/ Crash(c)
      PROVE  UNCHANGED <<config, links>>
  BY <1>4 DEF Start, EnsureGet, UrlGet, Callback, SignIn, Verify, Exchange,
              Access, Check, Read, Fetch, FetchRefused, FetchLost, Save, Stamp,
              Keep, Put, Crash, tableVars, linkVars
<1>5. Tick \/ Replicate \/ UNCHANGED vars => UNCHANGED <<config, links>>
  BY DEF Tick, Replicate, vars, tableVars, linkVars
<1> QED
  BY <1>1, <1>2, <1>3, <1>4, <1>5 DEF Next, Connect

-----------------------------------------------------------------------------
(* The theorems. *)

LEMMA Inductive == Spec => []IInv
<1>1. Init => IInv
  BY TypeInit, ExpiryInit, ConstantsAssumption
     DEF IInv, NewestLinkStands, AnswerInv, Init
<1>2. IInv /\ [Next]_vars => IInv'
  BY TypeStep, ExpiryStep, AnswerStep, NewestStep, ConstantsAssumption DEF IInv
<1> QED
  BY <1>1, <1>2, PTL DEF Spec

\* Every reachable state has its type.
THEOREM TypeCorrect == Spec => []TypeOK
BY Inductive, PTL DEF IInv

\* However many calls ask for links at once, the newest link is the one that
\* the callback accepts.
THEOREM NewestLinkWorks == Spec => []NewestLinkStands
BY Inductive, PTL DEF IInv

\* The buffer covers what a slow reply adds to an expiry, for reads from any
\* replica and for tokens fresh from a refresh.
LEMMA HandOut ==
  ASSUME IInv, ConstantsAssumption, [Next]_vars, NEW c \in Calls,
         pc[c] # "done", answer'[c] = "token"
  PROVE  issued'[token'[c]] > now
<1>1. Check(c) \/ Put(c)
  <2>1. answer[c] = "none"
    BY DEF IInv, AnswerInv
  <2>2. answer'[c] # answer[c]
    BY <2>1
  <2>3. ASSUME NEW d \in Calls, d # c,
               Start(d) \/ Connect(d) \/ Callback(d) \/ Access(d) \/ Save(d)
               \/ Crash(d)
        PROVE  FALSE
    BY <2>2, <2>3 DEF Start, Connect, EnsureGet, EnsurePut, UrlGet, UrlUpdate,
         Callback, SignIn, Verify, Exchange, Access, Check, Read, Fetch,
         FetchRefused, FetchLost, Save, Stamp, Keep, Put, Crash, Answer, IInv,
         TypeOK
  <2>4. ~(Tick \/ Replicate \/ UNCHANGED vars)
    BY <2>2 DEF Tick, Replicate, vars, callVars
  <2>5. Start(c) \/ Connect(c) \/ Callback(c) \/ Access(c) \/ Save(c) \/ Crash(c)
    BY <2>3, <2>4 DEF Next
  <2>6. ~(\/ Start(c) \/ Connect(c) \/ Callback(c) \/ Read(c) \/ Fetch(c)
          \/ FetchRefused(c) \/ FetchLost(c) \/ Stamp(c) \/ Keep(c) \/ Crash(c))
    BY <2>1, <2>2 DEF Start, Connect, EnsureGet, EnsurePut, UrlGet, UrlUpdate,
         Callback, SignIn, Verify, Exchange, Read, Fetch,
         FetchRefused, FetchLost, Stamp, Keep, Crash, Answer, IInv, TypeOK
  <2> QED
    BY <2>5, <2>6 DEF Access, Save
<1>2. /\ now \in Int /\ Lifetime \in Int /\ MaxDelay \in Int
      /\ MaxDelay <= EXPIRY_BUFFER /\ Lifetime > EXPIRY_BUFFER + MaxDelay
      /\ EXPIRY_BUFFER = 1
  BY DEF IInv, TypeOK, ConstantsAssumption, EXPIRY_BUFFER
<1>3. CASE Check(c)
  <2>1. PICK seen \in {row, rowLag} :
          /\ seen # NoTokens
          /\ seen.expires > now + EXPIRY_BUFFER
          /\ token' = [token EXCEPT ![c] = seen.access]
    BY <1>3 DEF Check, Answer, IInv, TypeOK, AnswerInv
  <2>2. Honest(seen)
    BY <2>1 DEF IInv, RowInv
  <2>3. seen.expires \in Nat /\ issued[seen.access] \in Nat
    <3>1. seen.expires \in Nat
      BY <2>1, CopyType DEF IInv
    <3>2. issued \in Seq(Nat)
      BY DEF IInv, TypeOK
    <3> QED
      BY <2>2, <3>1, <3>2 DEF Honest
  <2>4. issued[seen.access] > now
    BY <1>2, <2>1, <2>2, <2>3 DEF Honest
  <2>5. issued' = issued /\ token'[c] = seen.access
    BY <1>3, <2>1 DEF Check, serverVars, IInv, TypeOK
  <2> QED
    BY <2>4, <2>5
<1>4. CASE Put(c)
  <2>1. Recent(c)
    BY <1>4 DEF Put, IInv, SaveInv, SaveSteps
  <2>2. issued' = issued /\ token'[c] = item[c].access
    BY <1>4 DEF Put, serverVars, Answer, IInv, TypeOK
  <2>3. issued[item[c].access] \in Nat
    BY <2>1 DEF Recent, IInv, TypeOK
  <2> QED
    BY <1>2, <2>1, <2>2, <2>3 DEF Recent
<1> QED
  BY <1>1, <1>3, <1>4

\* Every token handed out is still good at the server.
THEOREM TokensAreGood == Spec => HandedOutIsValid
<1>1. IInv /\ [Next]_vars =>
        [\A c \in Calls : pc[c] # "done" /\ answer'[c] = "token"
           => issued'[token'[c]] > now]_vars
  BY HandOut, ConstantsAssumption
<1> QED
  BY <1>1, Inductive, PTL DEF Spec, HandedOutIsValid

-----------------------------------------------------------------------------
(* A person who connected stays connected.                                  *)
(*                                                                         *)
(* A server that rotates refresh tokens accepts one only until it is used.  *)
(* What a call is about to store is nobody else's: no table, no replica and *)
(* no other call has it yet, so nobody can use it up before it is stored.   *)

Known == 1 .. Len(issued)

\* Refresh tokens in the table, or in the hands of a call, come from the
\* server.
KnownInv ==
  /\ \A r \in {row, rowLag} : r # NoTokens => r.refresh \in Known
  /\ \A c \in Calls : /\ pc[c] = "fetch" => refresh[c] \in Known
                      /\ pc[c] \in SaveSteps => item[c].refresh \in Known

\* Nobody else has the refresh token that call c is about to store.
Private(c) ==
  /\ \A r \in {row, rowLag} : r # NoTokens => r.refresh # item[c].refresh
  /\ \A d \in Calls :
       /\ pc[d] = "fetch" => refresh[d] # item[c].refresh
       /\ d # c /\ pc[d] \in SaveSteps => item[d].refresh # item[c].refresh

SavedIsLive == \A c \in Calls : pc[c] \in SaveSteps => item[c].refresh \in live

\* Only a server that returns no refresh token makes a call look for one in
\* the table.
NothingToKeep == \A c \in Calls : pc[c] # "keep"

KeepInv ==
  rotation # "omits" =>
    /\ KnownInv
    /\ SavedIsLive
    /\ NothingToKeep
    /\ rotation = "rotates" => \A c \in Calls : pc[c] \in SaveSteps => Private(c)
    /\ rotation = "same" /\ row # NoTokens => row.refresh \in live
    /\ ConnectionKept

\* Steps that touch neither the table nor the server, and after which no more
\* calls are saving than before.
LEMMA KeepQuiet ==
  ASSUME TypeOK, ConstantsAssumption, KeepInv,
         UNCHANGED <<row, rowLag, rotation, issued, live, item>>,
         \A c \in Calls : pc'[c] \in SaveSteps => pc'[c] = pc[c],
         \A c \in Calls : pc'[c] = "fetch" =>
           \/ pc[c] = "fetch" /\ refresh'[c] = refresh[c]
           \/ \E r \in {row, rowLag} : r # NoTokens /\ refresh'[c] = r.refresh,
         \/ losses' = losses
              /\ \A c \in Calls : pc[c] \in SaveSteps => pc'[c] \in SaveSteps
         \/ losses \in Nat /\ losses' = losses + 1
  PROVE  KeepInv'
<1> SUFFICES ASSUME rotation # "omits" PROVE KeepInv'
  BY DEF KeepInv
<1> USE DEF KeepInv
<1>1. KnownInv'
  BY DEF KnownInv, Known
<1>2. SavedIsLive'
  BY DEF SavedIsLive
<1>3. ASSUME rotation = "rotates"
      PROVE  \A c \in Calls : pc'[c] \in SaveSteps => Private(c)'
  BY <1>3 DEF Private
<1>4. ConnectionKept'
  <2>1. CASE losses' = losses
    BY <2>1 DEF ConnectionKept
  <2>2. CASE losses \in Nat /\ losses' = losses + 1
    <3>1. losses' # 0
      BY <2>2
    <3>2. rotation \in {"rotates", "same"}
      BY DEF TypeOK, ConstantsAssumption
    <3> QED
      BY <3>1, <3>2 DEF ConnectionKept
  <2> QED
    BY <2>1, <2>2
<1>5. NothingToKeep'
  BY DEF NothingToKeep, SaveSteps
<1> QED
  BY <1>1, <1>2, <1>3, <1>4, <1>5

\* A new grant: call c has a token that the server has just issued.
LEMMA KeepIssued ==
  ASSUME TypeOK, ConstantsAssumption, KeepInv, rotation # "omits",
         NEW c \in Calls, pc[c] \notin SaveSteps,
         UNCHANGED <<row, rowLag, rotation, refresh, losses>>,
         issued' = Append(issued, now + Lifetime),
         pc' = [pc EXCEPT ![c] = "stamp"],
         \A d \in Calls \ {c} : item'[d] = item[d],
         \/ item'[c].refresh = Fresh /\ live' = live \union {Fresh}
         \/ /\ item'[c].refresh = Fresh /\ pc[c] = "fetch"
            /\ rotation = "rotates"
            /\ live' = (live \ {refresh[c]}) \union {Fresh}
         \/ /\ item'[c].refresh = refresh[c] /\ pc[c] = "fetch"
            /\ rotation = "same"
            /\ refresh[c] \in live /\ live' = live
  PROVE  KeepInv'
<1> USE DEF KeepInv, SaveSteps
<1>1. /\ pc'[c] = "stamp"
      /\ \A d \in Calls \ {c} : pc'[d] = pc[d]
  BY DEF TypeOK
<1>2. /\ \A t \in Known : t \in Known' /\ t # Fresh
      /\ Fresh \in Known'
  <2>1. /\ Len(issued) \in Nat
        /\ Len(issued') = Len(issued) + 1
    BY Issuing DEF TypeOK, ConstantsAssumption
  <2>2. ASSUME NEW t \in Known PROVE t \in Known' /\ t # Fresh
    <3>1. t \in Int /\ 1 <= t /\ t <= Len(issued)
      BY <2>1 DEF Known
    <3> QED
      BY <2>1, <3>1 DEF Known, Fresh
  <2>3. Fresh \in Known'
    BY <2>1 DEF Known, Fresh
  <2> QED
    BY <2>2, <2>3
<1>3. KnownInv'
  <2>1. \A r \in {row', rowLag'} : r # NoTokens => r.refresh \in Known'
    BY <1>2 DEF KnownInv
  <2>2. item'[c].refresh \in Known'
    BY <1>2 DEF KnownInv
  <2>3. ASSUME NEW d \in Calls
        PROVE  /\ pc'[d] = "fetch" => refresh'[d] \in Known'
               /\ pc'[d] \in SaveSteps => item'[d].refresh \in Known'
    BY <1>1, <1>2, <2>2 DEF KnownInv
  <2> QED
    BY <2>1, <2>3 DEF KnownInv
<1>4. SavedIsLive'
  BY <1>1, <1>2 DEF SavedIsLive, Private
<1>5. ASSUME rotation = "rotates"
      PROVE  \A d \in Calls : pc'[d] \in SaveSteps => Private(d)'
  <2>1. item'[c].refresh = Fresh
    BY <1>5
  <2>2. Private(c)'
    BY <1>1, <1>2, <2>1 DEF Private, KnownInv
  <2>3. ASSUME NEW d \in Calls \ {c}, pc'[d] \in SaveSteps
        PROVE  Private(d)'
    BY <1>1, <1>2, <1>5, <2>1, <2>3 DEF Private, KnownInv
  <2> QED
    BY <2>2, <2>3
<1>6. rotation = "same" /\ row # NoTokens => row.refresh \in live'
  OBVIOUS
<1>7. ConnectionKept'
  BY <1>1, <1>4 DEF ConnectionKept, SavedIsLive
<1>8. NothingToKeep'
  BY <1>1 DEF NothingToKeep
<1> QED
  BY <1>3, <1>4, <1>5, <1>6, <1>7, <1>8

\* The reply to a refresh is lost: the server has moved on and nobody knows.
LEMMA KeepLost ==
  ASSUME TypeOK, ConstantsAssumption, KeepInv, NEW c \in Calls, FetchLost(c)
  PROVE  KeepInv'
<1> SUFFICES ASSUME rotation # "omits" PROVE KeepInv'
  BY DEF KeepInv, FetchLost
<1>1. /\ pc[c] = "fetch" /\ losses' # 0
      /\ refresh[c] \in live /\ live' = StillLive(refresh[c])
      /\ UNCHANGED <<row, rowLag, rotation, refresh, item>>
      /\ issued' = Append(issued, now + Lifetime)
      /\ pc' = [pc EXCEPT ![c] = "done"]
  BY DEF FetchLost, Grant, Answer, Goto, tableVars, TypeOK
<1>2. /\ pc'[c] = "done"
      /\ \A d \in Calls \ {c} : pc'[d] = pc[d]
  BY <1>1 DEF TypeOK
<1>3. Known \subseteq Known'
  BY <1>1, Issuing DEF Known, TypeOK, ConstantsAssumption
<1>4. rotation \in {"rotates", "same"}
  BY DEF TypeOK, ConstantsAssumption
<1>5. KnownInv'
  BY <1>1, <1>2, <1>3 DEF KeepInv, KnownInv, SaveSteps
<1>6. ASSUME rotation = "rotates", NEW d \in Calls, pc'[d] \in SaveSteps
      PROVE  Private(d)'
  BY <1>1, <1>2, <1>6 DEF KeepInv, Private, SaveSteps
<1>7. SavedIsLive'
  <2> SUFFICES ASSUME NEW d \in Calls, pc'[d] \in SaveSteps
               PROVE  item[d].refresh \in live'
    BY <1>1 DEF SavedIsLive
  <2>1. pc[d] \in SaveSteps /\ item[d].refresh \in live
    BY <1>2 DEF KeepInv, SavedIsLive, SaveSteps
  <2>2. rotation = "rotates" => item[d].refresh # refresh[c]
    BY <1>1, <2>1 DEF KeepInv, Private
  <2> QED
    BY <1>1, <2>1, <2>2 DEF StillLive
<1>8. rotation = "same" /\ row # NoTokens => row.refresh \in live'
  BY <1>1 DEF KeepInv, StillLive
<1>9. ConnectionKept'
  BY <1>1, <1>4, <1>8 DEF ConnectionKept
<1> QED
  BY <1>1, <1>2, <1>5, <1>6, <1>7, <1>8, <1>9 DEF KeepInv, NothingToKeep

\* A call stores what it alone has, and the server accepts it.
LEMMA KeepPut ==
  ASSUME TypeOK, KeepInv, NEW c \in Calls, Put(c)
  PROVE  KeepInv'
<1> SUFFICES ASSUME rotation # "omits" PROVE KeepInv'
  BY DEF KeepInv, Put, serverVars
<1>1. /\ pc[c] = "put"
      /\ row' = item[c] /\ rowLag' \in {rowLag, row}
      /\ UNCHANGED <<rotation, issued, live, item, refresh>>
  BY DEF Put, SetRow, serverVars
<1>2. /\ pc'[c] = "done"
      /\ \A d \in Calls \ {c} : pc'[d] = pc[d]
  BY DEF Put, Answer, Goto, TypeOK
<1>3. item[c].refresh \in live /\ item[c].refresh \in Known
  BY <1>1 DEF KeepInv, KnownInv, SavedIsLive, SaveSteps
<1>4. KnownInv'
  BY <1>1, <1>2, <1>3 DEF KeepInv, KnownInv, Known, SaveSteps
<1>5. SavedIsLive'
  BY <1>1, <1>2 DEF KeepInv, SavedIsLive, SaveSteps
<1>6. ASSUME rotation = "rotates", NEW d \in Calls, pc'[d] \in SaveSteps
      PROVE  Private(d)'
  <2>1. d # c /\ pc[d] \in SaveSteps /\ Private(d)
    BY <1>2, <1>6 DEF KeepInv, SaveSteps
  <2>2. item[c].refresh # item[d].refresh
    BY <1>1, <2>1 DEF Private, SaveSteps
  <2> QED
    BY <1>1, <1>2, <2>1, <2>2 DEF Private, SaveSteps
<1> QED
  BY <1>1, <1>2, <1>3, <1>4, <1>5, <1>6 DEF KeepInv, NothingToKeep,
                                            ConnectionKept

LEMMA KeepStep ==
  ASSUME TypeOK, ConstantsAssumption, KeepInv, [Next]_vars
  PROVE  KeepInv'
<1>1. ASSUME NEW c \in Calls,
             \/ Start(c) \/ Connect(c) \/ (\E l \in open : SignIn(c, l))
             \/ Verify(c) \/ Check(c) \/ Read(c) \/ FetchRefused(c)
      PROVE  KeepInv'
  <2>1. /\ UNCHANGED <<row, rowLag, rotation, issued, live, item, losses>>
        /\ \A d \in Calls \ {c} : pc'[d] = pc[d]
        /\ pc[c] \notin SaveSteps /\ pc'[c] \notin SaveSteps
    BY <1>1 DEF Start, Connect, EnsureGet, EnsurePut, UrlGet, UrlUpdate, SignIn,
                Verify, Check, Read, FetchRefused, Goto, Answer, SaveSteps,
                tableVars, serverVars, TypeOK
  <2>2. \A d \in Calls \ {c} : refresh'[d] = refresh[d]
    BY <1>1 DEF Start, Connect, EnsureGet, EnsurePut, UrlGet, UrlUpdate, SignIn,
                Verify, Check, Read, FetchRefused, TypeOK
  <2>3. pc'[c] = "fetch" =>
          \E r \in {row, rowLag} : r # NoTokens /\ refresh'[c] = r.refresh
    <3>1. CASE Read(c)
      BY <3>1 DEF Read, HasRefresh, Goto, Answer, TypeOK
    <3>2. CASE ~Read(c)
      BY <1>1, <3>2 DEF Start, Connect, EnsureGet, EnsurePut, UrlGet, UrlUpdate,
                SignIn, Verify, Check, FetchRefused, Goto, Answer, TypeOK
    <3> QED
      BY <3>1, <3>2
  <2>4. \A d \in Calls : pc'[d] = "fetch" =>
          \/ pc[d] = "fetch" /\ refresh'[d] = refresh[d]
          \/ \E r \in {row, rowLag} : r # NoTokens /\ refresh'[d] = r.refresh
    BY <2>1, <2>2, <2>3
  <2> QED
    BY <2>1, <2>4, KeepQuiet
<1>2. ASSUME NEW c \in Calls, Crash(c) PROVE KeepInv'
  <2>1. /\ UNCHANGED <<row, rowLag, rotation, issued, live, item, refresh>>
        /\ \A d \in Calls \ {c} : pc'[d] = pc[d]
        /\ pc'[c] = "done"
        /\ losses \in Nat /\ losses' = losses + 1
    BY <1>2 DEF Crash, Goto, Answer, tableVars, serverVars, TypeOK
  <2> QED
    BY <2>1, KeepQuiet DEF SaveSteps
<1>3. ASSUME NEW c \in Calls, Exchange(c) PROVE KeepInv'
  <2>1. CASE rotation = "omits"
    BY <1>3, <2>1 DEF Exchange, KeepInv
  <2>2. CASE rotation # "omits"
    <3>1. item'[c].refresh = Fresh /\ \A d \in Calls \ {c} : item'[d] = item[d]
      BY <1>3 DEF Exchange, TypeOK
    <3>2. /\ pc[c] \notin SaveSteps
          /\ UNCHANGED <<row, rowLag, rotation, refresh, losses>>
          /\ issued' = Append(issued, now + Lifetime)
          /\ pc' = [pc EXCEPT ![c] = "stamp"]
          /\ live' = live \union {Fresh}
      BY <1>3 DEF Exchange, SaveSteps, Goto, tableVars
    <3> QED
      BY <2>2, <3>1, <3>2, KeepIssued
  <2> QED
    BY <2>1, <2>2
<1>4. ASSUME NEW c \in Calls, Fetch(c) PROVE KeepInv'
  <2>1. CASE rotation = "omits"
    BY <1>4, <2>1 DEF Fetch, KeepInv
  <2>2. CASE rotation # "omits"
    <3>1. /\ item'[c].refresh = NewRefresh(refresh[c])
          /\ \A d \in Calls \ {c} : item'[d] = item[d]
      BY <1>4 DEF Fetch, TypeOK
    <3>2. /\ pc[c] = "fetch" /\ pc[c] \notin SaveSteps
          /\ UNCHANGED <<row, rowLag, rotation, refresh, losses>>
          /\ issued' = Append(issued, now + Lifetime)
          /\ pc' = [pc EXCEPT ![c] = "stamp"]
          /\ refresh[c] \in live /\ live' = StillLive(refresh[c])
      BY <1>4 DEF Fetch, Grant, SaveSteps, Goto, tableVars
    <3>3. rotation \in {"rotates", "same"}
      BY <2>2 DEF TypeOK, ConstantsAssumption
    <3>4. \/ /\ item'[c].refresh = Fresh /\ pc[c] = "fetch"
             /\ rotation = "rotates"
             /\ live' = (live \ {refresh[c]}) \union {Fresh}
          \/ /\ item'[c].refresh = refresh[c] /\ pc[c] = "fetch"
             /\ rotation = "same"
             /\ refresh[c] \in live /\ live' = live
      BY <3>1, <3>2, <3>3 DEF NewRefresh, StillLive
    <3> QED
      BY <2>2, <3>1, <3>2, <3>4, KeepIssued
  <2> QED
    BY <2>1, <2>2
<1>5. ASSUME NEW c \in Calls, FetchLost(c) PROVE KeepInv'
  BY <1>5, KeepLost
<1>6. ASSUME NEW c \in Calls, Stamp(c) PROVE KeepInv'
  <2>1. CASE rotation = "omits"
    BY <1>6, <2>1 DEF Stamp, serverVars, KeepInv
  <2>2. CASE rotation # "omits"
    <3>1. /\ UNCHANGED <<row, rowLag, rotation, issued, live, refresh, losses>>
          /\ pc[c] = "stamp" /\ pc'[c] \in SaveSteps
          /\ \A d \in Calls \ {c} : pc'[d] = pc[d] /\ item'[d] = item[d]
      BY <1>6 DEF Stamp, Goto, tableVars, serverVars, SaveSteps, TypeOK
    <3>2. item'[c].refresh = item[c].refresh
      <4>1. item'[c] = [item[c] EXCEPT !.expires = now + Lifetime]
        BY <1>6 DEF Stamp, TypeOK
      <4> QED
        BY <4>1, ItemType DEF TokenRow
    <3>3. \A d \in Calls : item'[d].refresh = item[d].refresh
      BY <3>1, <3>2
    <3>4. \A d \in Calls : /\ pc'[d] \in SaveSteps <=> pc[d] \in SaveSteps
                           /\ pc'[d] = "fetch" <=> pc[d] = "fetch"
      BY <3>1 DEF SaveSteps
    <3>5. NothingToKeep'
      <4>1. item[c].refresh # NoToken
        BY <2>2, <3>1 DEF KeepInv, SavedIsLive, SaveSteps, TypeOK,
                          ConstantsAssumption
      <4>2. pc'[c] = "put"
        BY <1>6, <4>1 DEF Stamp, Goto, TypeOK
      <4> QED
        BY <2>2, <3>1, <4>2 DEF KeepInv, NothingToKeep
    <3> QED
      BY <2>2, <3>1, <3>3, <3>4, <3>5
         DEF KeepInv, KnownInv, Known, SavedIsLive, Private, ConnectionKept
  <2> QED
    BY <2>1, <2>2
<1>7. ASSUME NEW c \in Calls, Keep(c) PROVE KeepInv'
  <2>1. rotation = "omits"
    BY <1>7 DEF Keep, KeepInv, NothingToKeep
  <2> QED
    BY <1>7, <2>1 DEF Keep, serverVars, KeepInv
<1>8. ASSUME NEW c \in Calls, Put(c) PROVE KeepInv'
  BY <1>8, KeepPut
<1>9. CASE Tick \/ UNCHANGED vars
  <2>1. UNCHANGED <<row, rowLag, rotation, issued, live, item, losses, pc,
                    refresh>>
    BY <1>9 DEF Tick, vars, tableVars, serverVars, callVars
  <2> QED
    BY <2>1, KeepQuiet
<1>10. CASE Replicate
  <2>1. /\ UNCHANGED <<row, rotation, issued, live, item, losses, pc, refresh>>
        /\ rowLag' = row
    BY <1>10 DEF Replicate, serverVars, callVars
  <2> QED
    BY <2>1 DEF KeepInv, KnownInv, Known, SavedIsLive, NothingToKeep, Private,
                ConnectionKept
<1> QED
  BY <1>1, <1>2, <1>3, <1>4, <1>5, <1>6, <1>7, <1>8, <1>9, <1>10
     DEF Next, Callback, Access, Save

\* A person who connected stays connected, however many calls refresh at once
\* and from whichever replica they read: with a server that keeps the refresh
\* token always, with one that rotates it unless a call or a reply is lost.
THEOREM ConnectionIsKept == Spec => []ConnectionKept
<1>1. Init => KeepInv
  BY DEF Init, KeepInv, KnownInv, SavedIsLive, NothingToKeep, Private,
         ConnectionKept, SaveSteps
<1>2. IInv /\ KeepInv /\ [Next]_vars => KeepInv'
  BY KeepStep, ConstantsAssumption DEF IInv
<1>3. KeepInv => ConnectionKept
  BY DEF KeepInv, ConnectionKept
<1> QED
  BY <1>1, <1>2, <1>3, Inductive, PTL DEF Spec

=============================================================================
