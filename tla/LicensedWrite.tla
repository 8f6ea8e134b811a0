---------------------------- MODULE LicensedWrite ----------------------------
(***************************************************************************)
(* What the two-step write workflow promises, without a database, a retry  *)
(* loop or a network: a change reaches SPP only under a licence.  A call   *)
(* is admitted while its proposal is unsettled, authorised while whoever   *)
(* makes it is allowed the change, and its licence is spent by one write.  *)
(* Once the outcome of a proposal has settled nobody is admitted to it     *)
(* again.                                                                  *)
(***************************************************************************)
EXTENDS Naturals

CONSTANTS Tokens, Calls

VARIABLES
  settled,   \* tokens whose outcome every later reader sees
  allowed,   \* calls whose maker may make the change at this moment
  token,     \* token[c]: the proposal that call c executes
  licence,   \* licence[c]: how far call c has got
  writes     \* writes[c]: how often SPP applied the change for call c

vars == <<settled, allowed, token, licence, writes>>

Init ==
  /\ settled = {}
  /\ allowed \in SUBSET Calls
  /\ token \in [Calls -> Tokens]
  /\ licence = [c \in Calls |-> "none"]
  /\ writes = [c \in Calls |-> 0]

Move(c, from, to) ==
  /\ licence[c] = from
  /\ licence' = [licence EXCEPT ![c] = to]

Admit(c) ==
  /\ token[c] \notin settled
  /\ Move(c, "none", "admitted")
  /\ UNCHANGED <<settled, allowed, token, writes>>

Authorise(c) ==
  /\ c \in allowed
  /\ Move(c, "admitted", "authorised")
  /\ UNCHANGED <<settled, allowed, token, writes>>

Write(c) ==
  /\ Move(c, "authorised", "spent")
  /\ writes' = [writes EXCEPT ![c] = @ + 1]
  /\ UNCHANGED <<settled, allowed, token>>

\* A call may stop at any point before it writes.
Lapse(c) ==
  /\ \E from \in {"none", "admitted", "authorised"} : Move(c, from, "void")
  /\ UNCHANGED <<settled, allowed, token, writes>>

\* Outcomes settle and stay settled; permissions come and go.
World ==
  /\ settled \subseteq settled'
  /\ settled' \subseteq Tokens
  /\ allowed' \subseteq Calls
  /\ UNCHANGED <<token, licence, writes>>

Next ==
  \/ \E c \in Calls : Admit(c) \/ Authorise(c) \/ Write(c) \/ Lapse(c)
  \/ World

Spec == Init /\ [][Next]_vars
=============================================================================
