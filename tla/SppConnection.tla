--------------------------- MODULE SppConnection ---------------------------
(***************************************************************************)
(* One person's OAuth connection to SPP: the oauth_config item that links  *)
(* are built from, the oauth_tokens item that access tokens are taken from *)
(* and refreshed into, and SPP's authorization server.                     *)
(*                                                                         *)
(* Nothing locks either item. Every call is a Lambda invocation of its     *)
(* own: connect_spp_account asks for a link (sppUserAuth.js, then          *)
(* getAuthorizationUrl), the browser comes back to exchangeCodeForTokens,  *)
(* and any tool or job that needs SPP runs getValidAccessToken             *)
(* (oauthUtils.mjs); refreshAccessToken refreshes without looking first.   *)
(*                                                                         *)
(* A unit of time is EXPIRY_BUFFER_SECONDS. Reads are DynamoDB's default,  *)
(* eventually consistent ones; a replica catches up within a unit.         *)
(***************************************************************************)
EXTENDS Integers, FiniteSets, Sequences

CONSTANTS
  Calls,      \* invocations; bounds how many there are
  Kinds,      \* what they are: "connect", "access", "refresh"
  Rotations,  \* what a refresh may do to the refresh token
  Lifetime,   \* expires_in of an access token
  MaxDelay,   \* from issuing a token until its expiry is computed
  MaxTime,    \* bound: the last unit of time
  MaxLosses,  \* bound: calls that die and replies that are lost
  NoConfig,   \* oauth_config has no item for this person
  NoState,    \* the item has no "state"
  NoTokens,   \* oauth_tokens has no item for this person
  NoToken     \* refresh_token is absent

EXPIRY_BUFFER == 1
SHARED_UTIL_TRIES == 3

\* An item of oauth_tokens. Tokens are numbered as they are issued.
TokenRow == [access : Nat, refresh : Nat \union {NoToken}, expires : Nat]

ASSUME ConstantsAssumption ==
  /\ Kinds \subseteq {"connect", "access", "refresh"}
  /\ Rotations \subseteq {"rotates", "same", "omits"}
  /\ MaxDelay \in 0 .. EXPIRY_BUFFER
  /\ Lifetime \in Nat /\ Lifetime > EXPIRY_BUFFER + MaxDelay
  /\ MaxTime \in Nat
  /\ MaxLosses \in Nat
  /\ NoConfig \notin Nat /\ NoState \notin Nat /\ NoConfig # NoState
  /\ NoToken \notin Nat
  /\ NoTokens \notin TokenRow

VARIABLES
  now,
  config,    \* "state" of the oauth_config item: the number of a link
  configLag, \* the same, as a lagging replica has it
  row,       \* the oauth_tokens item
  rowLag,    \* the same, as a lagging replica has it
  rotation,  \* what this authorization server does
  issued,    \* issued[a]: when access token a expires at the server
  live,      \* the refresh tokens the server accepts
  links,     \* links handed out, each with a state of its own
  open,      \* links a person may still sign in through
  pc,        \* pc[c]: what call c does next
  tries,     \* invocations of getAuthorizationUrl for call c
  link,      \* the "state" a callback came with
  refresh,   \* the refresh token a call presents
  item,      \* the item a call is about to put
  answer,    \* what the caller was told
  token,     \* the access token it was handed
  losses

tableVars  == <<config, configLag, row, rowLag>>
serverVars == <<rotation, issued, live>>
linkVars   == <<links, open>>
callVars   == <<pc, tries, link, refresh, item, answer, token>>
vars == <<now, tableVars, serverVars, linkVars, callVars, losses>>

ConfigSteps == {"ensureGet", "ensurePut", "urlGet", "urlUpdate"}
TokenSteps  == {"check", "read", "fetch", "verify", "exchange"}
SaveSteps   == {"stamp", "keep", "put"}
Answers == {"none", "link", "mismatch", "connected", "token", "notConnected",
            "refused", "failed"}

NoItem == [access |-> 0, refresh |-> NoToken, expires |-> 0]

TypeOK ==
  /\ now \in Nat
  /\ config \in Nat \union {NoConfig, NoState}
  /\ configLag \in Nat \union {NoConfig, NoState}
  /\ row \in TokenRow \union {NoTokens}
  /\ rowLag \in TokenRow \union {NoTokens}
  /\ rotation \in Rotations
  /\ issued \in Seq(Nat)
  /\ live \subseteq Nat
  /\ links \in Nat
  /\ open \subseteq Nat
  /\ pc \in [Calls -> ConfigSteps \union TokenSteps \union SaveSteps
                        \union {"idle", "done"}]
  /\ tries \in [Calls -> 0 .. (SHARED_UTIL_TRIES - 1)]
  /\ link \in [Calls -> Nat]
  /\ refresh \in [Calls -> Nat \union {NoToken}]
  /\ item \in [Calls -> TokenRow]
  /\ answer \in [Calls -> Answers]
  /\ token \in [Calls -> Nat]
  /\ losses \in Nat

Init ==
  /\ now = 0
  /\ config = NoConfig /\ configLag = NoConfig
  /\ row = NoTokens /\ rowLag = NoTokens
  /\ rotation \in Rotations
  /\ issued = <<>>
  /\ live = {}
  /\ links = 0
  /\ open = {}
  /\ pc = [c \in Calls |-> "idle"]
  /\ tries = [c \in Calls |-> 0]
  /\ link = [c \in Calls |-> 0]
  /\ refresh = [c \in Calls |-> NoToken]
  /\ item = [c \in Calls |-> NoItem]
  /\ answer = [c \in Calls |-> "none"]
  /\ token = [c \in Calls |-> 0]
  /\ losses = 0

Goto(c, step) == pc' = [pc EXCEPT ![c] = step]
Answer(c, what) ==
  /\ Goto(c, "done")
  /\ answer' = [answer EXCEPT ![c] = what]

\* A write: a replica may go on returning what it returned before, or what
\* the item was until now.
SetConfig(state) ==
  /\ config' = state
  /\ configLag' \in {configLag, config}

SetRow(new) ==
  /\ row' = new
  /\ rowLag' \in {rowLag, row}

-----------------------------------------------------------------------------
(* connect_spp_account: a link to sign in through. *)

\* A call starts: connect_spp_account, a need for an access token, or a
\* manual or scheduled refresh.
Start(c) ==
  /\ pc[c] = "idle"
  /\ \/ "connect" \in Kinds /\ Goto(c, "ensureGet")
     \/ "access" \in Kinds /\ Goto(c, "check")
     \/ "refresh" \in Kinds /\ Goto(c, "read")
  /\ UNCHANGED <<now, tableVars, serverVars, linkVars, tries, link, refresh,
                 item, answer, token, losses>>

\* ensurePerUserOAuthConfig: is there an item?
EnsureGet(c) ==
  /\ pc[c] = "ensureGet"
  /\ \E seen \in {config, configLag} :
       Goto(c, IF seen = NoConfig THEN "ensurePut" ELSE "urlGet")
  /\ UNCHANGED <<now, tableVars, serverVars, linkVars, tries, link, refresh,
                 item, answer, token, losses>>

\* Mutant: without attribute_not_exists(pk).
EnsurePutAlways(c) ==
  /\ pc[c] = "ensurePut"
  /\ SetConfig(NoState)
  /\ Goto(c, "urlGet")
  /\ UNCHANGED <<now, row, rowLag, serverVars, linkVars, tries, link, refresh,
                 item, answer, token, losses>>

\* The put is conditional: whoever lost the race goes on all the same.
EnsurePut(c) ==
  /\ pc[c] = "ensurePut"
  /\ \/ config # NoConfig /\ UNCHANGED <<config, configLag>>
     \/ config = NoConfig /\ SetConfig(NoState)
  /\ Goto(c, "urlGet")
  /\ UNCHANGED <<now, row, rowLag, serverVars, linkVars, tries, link, refresh,
                 item, answer, token, losses>>

\* getAuthorizationUrl, through callSharedUtil, reads the config. A replica
\* that has no item yet makes it answer 500, which is tried again.
UrlGet(c) ==
  /\ pc[c] = "urlGet"
  /\ \E seen \in {config, configLag} :
       \/ /\ seen # NoConfig
          /\ Goto(c, "urlUpdate")
          /\ UNCHANGED <<tries, answer>>
       \/ /\ seen = NoConfig
          /\ tries[c] + 1 < SHARED_UTIL_TRIES
          /\ tries' = [tries EXCEPT ![c] = @ + 1]
          /\ UNCHANGED <<pc, answer>>
       \/ /\ seen = NoConfig
          /\ tries[c] + 1 >= SHARED_UTIL_TRIES
          /\ Answer(c, "failed")
          /\ UNCHANGED tries
  /\ UNCHANGED <<now, tableVars, serverVars, linkVars, link, refresh, item,
                 token, losses>>

\* A fresh state replaces whatever state the item has.
UrlUpdate(c) ==
  /\ pc[c] = "urlUpdate"
  /\ links' = links + 1
  /\ SetConfig(links')
  /\ open' = open \union {links'}
  /\ Answer(c, "link")
  /\ UNCHANGED <<now, row, rowLag, serverVars, tries, link, refresh, item,
                 token, losses>>

-----------------------------------------------------------------------------
(* exchangeCodeForTokens: the browser comes back with a code. *)

\* A person signs in through a link; the code works once.
SignIn(c, l) ==
  /\ pc[c] = "idle"
  /\ l \in open
  /\ open' = open \ {l}
  /\ link' = [link EXCEPT ![c] = l]
  /\ Goto(c, "verify")
  /\ UNCHANGED <<now, tableVars, serverVars, links, tries, refresh, item,
                 answer, token, losses>>

\* The state must be the one in the config, if that has one.
Verify(c) ==
  /\ pc[c] = "verify"
  /\ \E seen \in {config, configLag} :
       \/ /\ seen \in {NoState, link[c]}
          /\ Goto(c, "exchange")
          /\ UNCHANGED answer
       \/ seen \notin {NoState, NoConfig, link[c]} /\ Answer(c, "mismatch")
       \/ seen = NoConfig /\ Answer(c, "failed")
  /\ UNCHANGED <<now, tableVars, serverVars, linkVars, tries, link, refresh,
                 item, token, losses>>

\* The number of the next token the server issues.
Fresh == Len(issued) + 1

\* The server trades the code for a new grant.
Exchange(c) ==
  /\ pc[c] = "exchange"
  /\ issued' = Append(issued, now + Lifetime)
  /\ live' = live \union {Fresh}
  /\ item' = [item EXCEPT ![c] = [access |-> Fresh, refresh |-> Fresh,
                                  expires |-> 0]]
  /\ Goto(c, "stamp")
  /\ UNCHANGED <<now, tableVars, rotation, linkVars, tries, link, refresh,
                 answer, token, losses>>

-----------------------------------------------------------------------------
(* getValidAccessToken and refreshTokens. *)

\* Mutant: a token is good until the second it expires.
CheckWithoutBuffer(c) ==
  /\ pc[c] = "check"
  /\ \E seen \in {row, rowLag} :
       \/ /\ seen = NoTokens
          /\ Answer(c, "notConnected")
          /\ UNCHANGED token
       \/ /\ seen # NoTokens
          /\ seen.expires > now
          /\ token' = [token EXCEPT ![c] = seen.access]
          /\ Answer(c, "token")
       \/ /\ seen # NoTokens
          /\ seen.expires <= now
          /\ Goto(c, "read")
          /\ UNCHANGED <<answer, token>>
  /\ UNCHANGED <<now, tableVars, serverVars, linkVars, tries, link, refresh,
                 item, losses>>

\* The stored token is handed out unless it expires within the buffer.
Check(c) ==
  /\ pc[c] = "check"
  /\ \E seen \in {row, rowLag} :
       \/ /\ seen = NoTokens
          /\ Answer(c, "notConnected")
          /\ UNCHANGED token
       \/ /\ seen # NoTokens
          /\ seen.expires > now + EXPIRY_BUFFER
          /\ token' = [token EXCEPT ![c] = seen.access]
          /\ Answer(c, "token")
       \/ /\ seen # NoTokens
          /\ seen.expires <= now + EXPIRY_BUFFER
          /\ Goto(c, "read")
          /\ UNCHANGED <<answer, token>>
  /\ UNCHANGED <<now, tableVars, serverVars, linkVars, tries, link, refresh,
                 item, losses>>

HasRefresh(seen) == seen # NoTokens /\ seen.refresh # NoToken

\* refreshTokens reads the item again.
Read(c) ==
  /\ pc[c] = "read"
  /\ \E seen \in {row, rowLag} :
       \/ /\ ~HasRefresh(seen)
          /\ Answer(c, "failed")
          /\ UNCHANGED refresh
       \/ /\ HasRefresh(seen)
          /\ refresh' = [refresh EXCEPT ![c] = seen.refresh]
          /\ Goto(c, "fetch")
          /\ UNCHANGED answer
  /\ UNCHANGED <<now, tableVars, serverVars, linkVars, tries, link, item,
                 token, losses>>

\* What the server returns as refresh token for a refresh with r, and the
\* tokens it accepts from then on.
NewRefresh(r) == CASE rotation = "rotates" -> Fresh
                   [] rotation = "same"    -> r
                   [] rotation = "omits"   -> NoToken
StillLive(r) == IF rotation = "rotates" THEN (live \ {r}) \union {Fresh}
                                        ELSE live

Grant(c) ==
  /\ refresh[c] \in live
  /\ issued' = Append(issued, now + Lifetime)
  /\ live' = StillLive(refresh[c])

\* The server accepts the refresh token and the reply arrives.
Fetch(c) ==
  /\ pc[c] = "fetch"
  /\ Grant(c)
  /\ item' = [item EXCEPT ![c] = [access |-> Fresh,
                                  refresh |-> NewRefresh(refresh[c]),
                                  expires |-> 0]]
  /\ Goto(c, "stamp")
  /\ UNCHANGED <<now, tableVars, rotation, linkVars, tries, link, refresh,
                 answer, token, losses>>

\* The server does not know the refresh token (any more): 400.
FetchRefused(c) ==
  /\ pc[c] = "fetch"
  /\ refresh[c] \notin live
  /\ Answer(c, "refused")
  /\ UNCHANGED <<now, tableVars, serverVars, linkVars, tries, link, refresh,
                 item, token, losses>>

\* The server accepts it and the reply is lost.
FetchLost(c) ==
  /\ pc[c] = "fetch"
  /\ losses < MaxLosses
  /\ losses' = losses + 1
  /\ Grant(c)
  /\ Answer(c, "failed")
  /\ UNCHANGED <<now, tableVars, rotation, linkVars, tries, link, refresh,
                 item, token>>

-----------------------------------------------------------------------------
(* saveTokens, for a refresh and for an exchange. *)

\* Mutant: what the server returned is stored as it is.
StampOnly(c) ==
  /\ pc[c] = "stamp"
  /\ item' = [item EXCEPT ![c].expires = now + Lifetime]
  /\ Goto(c, "put")
  /\ UNCHANGED <<now, tableVars, serverVars, linkVars, tries, link, refresh,
                 answer, token, losses>>

\* expires_at is computed when saveTokens starts.
Stamp(c) ==
  /\ pc[c] = "stamp"
  /\ item' = [item EXCEPT ![c].expires = now + Lifetime]
  /\ Goto(c, IF item[c].refresh = NoToken THEN "keep" ELSE "put")
  /\ UNCHANGED <<now, tableVars, serverVars, linkVars, tries, link, refresh,
                 answer, token, losses>>

\* The server returned no refresh token: keep the one in the table.
Keep(c) ==
  /\ pc[c] = "keep"
  /\ \E seen \in {row, rowLag} :
       item' = [item EXCEPT ![c].refresh =
                  IF seen = NoTokens THEN NoToken ELSE seen.refresh]
  /\ Goto(c, "put")
  /\ UNCHANGED <<now, tableVars, serverVars, linkVars, tries, link, refresh,
                 answer, token, losses>>

\* Mutant: the refresh token is not part of the item.
PutWithoutRefresh(c) ==
  /\ pc[c] = "put"
  /\ SetRow([item[c] EXCEPT !.refresh = NoToken])
  /\ \/ /\ link[c] > 0
        /\ Answer(c, "connected")
        /\ UNCHANGED token
     \/ /\ link[c] = 0
        /\ token' = [token EXCEPT ![c] = item[c].access]
        /\ Answer(c, "token")
  /\ UNCHANGED <<now, config, configLag, serverVars, linkVars, tries, link,
                 refresh, item, losses>>

\* The put replaces the whole item; a callback is told that it is connected,
\* the others get the token.
Put(c) ==
  /\ pc[c] = "put"
  /\ SetRow(item[c])
  /\ \/ /\ link[c] > 0
        /\ Answer(c, "connected")
        /\ UNCHANGED token
     \/ /\ link[c] = 0
        /\ token' = [token EXCEPT ![c] = item[c].access]
        /\ Answer(c, "token")
  /\ UNCHANGED <<now, config, configLag, serverVars, linkVars, tries, link,
                 refresh, item, losses>>

-----------------------------------------------------------------------------
(* The environment. *)

\* An invocation dies.
Crash(c) ==
  /\ pc[c] \notin {"idle", "done"}
  /\ losses < MaxLosses
  /\ losses' = losses + 1
  /\ Answer(c, "failed")
  /\ UNCHANGED <<now, tableVars, serverVars, linkVars, tries, link, refresh,
                 item, token>>

\* Time passes: replicas have caught up, and no reply of the server is older
\* than MaxDelay when it is stamped, or than the buffer when it is put.
Tick ==
  /\ now < MaxTime
  /\ configLag = config /\ rowLag = row
  /\ \A c \in Calls : pc[c] \in SaveSteps =>
       now + 1 <= issued[item[c].access] - Lifetime + MaxDelay
  /\ now' = now + 1
  /\ UNCHANGED <<tableVars, serverVars, linkVars, callVars, losses>>

Replicate ==
  /\ configLag # config \/ rowLag # row
  /\ configLag' = config /\ rowLag' = row
  /\ UNCHANGED <<now, config, row, serverVars, linkVars, callVars, losses>>

Connect(c) == EnsureGet(c) \/ EnsurePut(c) \/ UrlGet(c) \/ UrlUpdate(c)
Callback(c) == (\E l \in open : SignIn(c, l)) \/ Verify(c) \/ Exchange(c)
Access(c) == Check(c) \/ Read(c) \/ Fetch(c) \/ FetchRefused(c) \/ FetchLost(c)
Save(c) == Stamp(c) \/ Keep(c) \/ Put(c)

Next ==
  \/ Tick
  \/ Replicate
  \/ \E c \in Calls :
       Start(c) \/ Connect(c) \/ Callback(c) \/ Access(c) \/ Save(c) \/ Crash(c)

Spec == Init /\ [][Next]_vars

-----------------------------------------------------------------------------
(* Properties. *)

\* getValidAccessToken "returns a valid access_token": whatever was read, from
\* whichever replica, and however long a refresh took, a token that is handed
\* out has not expired at the server.
HandedOutIsValid ==
  [][\A c \in Calls : pc[c] # "done" /\ answer'[c] = "token"
       => issued'[token'[c]] > now]_vars

\* ensurePerUserOAuthConfig may run at any time, for several calls at once,
\* and the newest link stays the one that the callback accepts.
NewestLinkStands == links > 0 => config = links

\* A person who connected stays connected: the stored refresh token is one the
\* server accepts, or a call is about to store one that it accepts. With a
\* server that rotates it, not if a call dies or a reply is lost on the way;
\* with one that never returns it, not if a refresh meets a lagging replica.
ConnectionKept ==
  /\ row # NoTokens
  /\ rotation = "rotates" => losses = 0
  /\ rotation # "omits"
  => \/ row.refresh \in live
     \/ \E c \in Calls : pc[c] \in SaveSteps /\ item[c].refresh \in live

=============================================================================
