-------------------------- MODULE QuestionsProofs --------------------------
(***************************************************************************)
(* Theorems about Questions, for any number of questions, attempts, runs   *)
(* and mishaps, and a conversation of any length.                          *)
(*                                                                         *)
(* What a callback may still write depends on how it came to be: SubmitInv *)
(* says what an invocation of submitQuestion has done so far, AgentInv     *)
(* counts the runs of the agent, ReportInv says which run each report is   *)
(* from. With these, an item that is complete has had its only report, if  *)
(* Lambda ran the event once. AppendInv is about the one callback that is  *)
(* between the two writes of appendTurn's caller.                          *)
(***************************************************************************)
EXTENDS Questions, SequenceTheorems, TLAPS

\* An attempt is not sent before the page comes to it, nothing is stored before
\* it is put, and no agent is invoked before that.
SubmitInv ==
  /\ \A q \in Questions, a \in Attempts :
       a > try[q] \/ ask[q] = "new" => sub[<<q, a>>] = "unsent"
  /\ \A r \in Requests :
       /\ sub[r] \in {"unsent", "put"} => item[r] = NoItem
       /\ sub[r] \in {"unsent", "put", "invoke"} => agent[r] = "none"

\* The agent runs once, and once more for each kill and repeated delivery.
AgentInv ==
  \A r \in Requests :
    /\ agent[r] = "none" => runs[r] = 0
    /\ agent[r] = "queued" => runs[r] <= again[r]
    /\ agent[r] \notin {"none", "queued"} => runs[r] > 0
    /\ runs[r] <= 1 + again[r]

\* A report is from a run that has ended its work, and the only one from it.
ReportInv ==
  /\ \A k \in Reports : report[k] # "unsent" =>
       /\ k[1][2] <= runs[RequestOf(k)]
       /\ agent[RequestOf(k)] = "running" => k[1][2] < runs[RequestOf(k)]
  /\ \A j, k \in Reports :
       report[j] # "unsent" /\ report[k] # "unsent" /\ j[1] = k[1] => j = k

\* Whose item is complete has had a callback that went beyond its first write.
Complete(r) == item[r] # NoItem /\ item[r].status = "complete"

Handled == {"read", "write", "done"}

CompleteInv ==
  \A r \in Requests : Complete(r) =>
    \E k \in Reports : RequestOf(k) = r /\ report[k] \in Handled

\* Undisturbed, one callback at a time appends, for the latest answer, and what
\* it has read is what is still there.
AppendInv ==
  ~disturbed =>
    /\ \A j, k \in Appending : j = k
    /\ \A k \in Appending :
         /\ answered # <<>> /\ answered[Len(answered)] = k[1]
         /\ report[k] = "write" => seen[k] = turns
    /\ HistoryIsRecent

Inv == TypeOK /\ SubmitInv /\ AgentInv /\ ReportInv /\ CompleteInv

-----------------------------------------------------------------------------
(* What the parts of an action do. *)

\* Requests, runs and reports by their parts.
LEMMA Parts ==
  /\ \A q \in Questions, a \in Attempts : <<q, a>> \in Requests
  /\ \A r \in Requests : r[1] \in Questions /\ r[2] \in Attempts /\ r = <<r[1], r[2]>>
  /\ \A k \in Reports : /\ k[1] \in Runs /\ RequestOf(k) \in Requests
                        /\ k[1][2] \in 1 .. MaxRuns /\ k[2] \in Kinds
                        /\ k[1] = <<RequestOf(k), k[1][2]>> /\ k = <<k[1], k[2]>>
  /\ \A r \in Requests, n \in 1 .. MaxRuns, kind \in Kinds :
       <<r, n>> \in Runs /\ <<<<r, n>>, kind>> \in Reports
BY DEF Requests, Runs, Reports, RequestOf

\* Any other attempt of the page than the first is new to it.
LEMMA Attempt ==
  ASSUME TypeOK, NEW q \in Questions, AttemptFails(q)
  PROVE  \/ /\ try[q] + 1 \in Attempts /\ try' = [try EXCEPT ![q] = try[q] + 1]
            /\ ask' = [ask EXCEPT ![q] = "submitting"]
            /\ sub' = [sub EXCEPT ![<<q, try[q] + 1>>] = "put"]
            /\ UNCHANGED shown
         \/ /\ ask' = [ask EXCEPT ![q] = "error"]
            /\ UNCHANGED <<try, sub, shown>>
<1>1. try[q] \in 1 .. MAX_QUESTION_ATTEMPTS /\ MAX_QUESTION_ATTEMPTS \in Nat
  BY QuestionsAssumption DEF TypeOK, Attempts
<1>2. try[q] < MAX_QUESTION_ATTEMPTS => try[q] + 1 \in Attempts
  BY <1>1 DEF Attempts
<1> QED
  BY <1>2 DEF AttemptFails

\* The page changes its own variables, and the attempts that it sends.
PageStep(q) ==
  /\ \/ /\ ask[q] = "new" /\ sub' = [sub EXCEPT ![<<q, try[q]>>] = "put"]
        /\ ask' = [ask EXCEPT ![q] = "submitting"] /\ UNCHANGED <<try, shown>>
     \/ /\ ask[q] # "new" /\ try[q] + 1 \in Attempts
        /\ try' = [try EXCEPT ![q] = try[q] + 1]
        /\ ask' = [ask EXCEPT ![q] = "submitting"]
        /\ sub' = [sub EXCEPT ![<<q, try[q] + 1>>] = "put"]
        /\ UNCHANGED shown
     \/ /\ \E a \in {"polling", "answered", "error", "abandoned"} :
             ask' = [ask EXCEPT ![q] = a]
        /\ \/ UNCHANGED shown
           \/ Complete(<<q, try[q]>>)
              /\ shown' = [shown EXCEPT ![q] = item[<<q, try[q]>>].answer]
        /\ UNCHANGED <<try, sub>>
  /\ UNCHANGED <<item, agentVars, report, seen, convVars>>

LEMMA PageSteps ==
  ASSUME TypeOK, NEW q \in Questions,
         Ask(q) \/ Page(q) \/ TooSlow(q) \/ PageFetchFails(q) \/ Reload(q)
  PROVE  PageStep(q)
<1>1. AttemptFails(q) /\ ask[q] # "new" /\ UNCHANGED otherThanPage => PageStep(q)
  BY Attempt DEF PageStep, otherThanPage
<1>2. CASE Ask(q)
  BY <1>2 DEF Ask, PageStep, Current
<1>3. CASE Accepted(q)
  BY <1>3 DEF Accepted, PageStep, otherThanPage
<1>4. CASE PollComplete(q)
  BY <1>4 DEF PollComplete, PageStep, otherThanPage, Complete, Current
<1>5. CASE Refused(q) \/ PollFailed(q) \/ TooLong(q) \/ TooSlow(q) \/ PageFetchFails(q)
  BY <1>1, <1>5 DEF Refused, PollFailed, TooLong, TooSlow, PageFetchFails, Waiting
<1>6. CASE Reload(q)
  BY <1>6 DEF Reload, PageStep, otherThanPage
<1> QED
  BY <1>2, <1>3, <1>4, <1>5, <1>6 DEF Page

-----------------------------------------------------------------------------
(* Types. *)

LEMMA InitType == Init => TypeOK
<1>1. 1 \in Attempts /\ 0 \in 0 .. MaxRuns /\ 0 \in 0 .. MaxMishaps
  BY QuestionsAssumption DEF Attempts
<1>2. <<>> \in Seq(Runs)
  OBVIOUS
<1> SUFFICES ASSUME Init PROVE TypeOK
  OBVIOUS
<1>3. ask \in [Questions -> {"new", "submitting", "polling", "answered",
                            "error", "abandoned"}]
  BY DEF Init
<1>4. /\ try \in [Questions -> Attempts]
      /\ shown \in [Questions -> Runs \union {NoAnswer}]
      /\ item \in [Requests -> Item \union {NoItem}]
  BY <1>1 DEF Init
<1>5. /\ sub \in [Requests -> {"unsent", "put", "invoke", "mark",
                               "accepted", "refused", "dead"}]
      /\ agent \in [Requests -> {"none", "queued", "running", "reporting",
                                 "over", "dropped"}]
  BY DEF Init
<1>6. /\ runs \in [Requests -> 0 .. MaxRuns] /\ again \in [Requests -> Nat]
  BY <1>1 DEF Init
<1>7. /\ report \in [Reports -> {"unsent", "complete", "fail", "read", "write",
                                 "done"}]
      /\ seen \in [Reports -> Seq(Runs)]
  BY <1>2 DEF Init
<1> QED
  BY <1>1, <1>2, <1>3, <1>4, <1>5, <1>6, <1>7 DEF Init, TypeOK

LEMMA MishapType ==
  ASSUME TypeOK, Fault \/ Absence \/ UNCHANGED faultVars
  PROVE  faults' \in 0 .. MaxMishaps /\ absences' \in 0 .. MaxMishaps
BY QuestionsAssumption DEF TypeOK, Fault, Absence, faultVars

LEMMA PageType ==
  ASSUME TypeOK, NEW q \in Questions, PageStep(q),
         faults' \in 0 .. MaxMishaps /\ absences' \in 0 .. MaxMishaps
  PROVE  TypeOK'
<1>1. ask' \in [Questions -> {"new", "submitting", "polling", "answered",
                             "error", "abandoned"}]
  BY DEF TypeOK, PageStep
<1>2. try' \in [Questions -> Attempts]
  BY DEF TypeOK, PageStep
<1>3. shown' \in [Questions -> Runs \union {NoAnswer}]
  <2>1. <<q, try[q]>> \in Requests
    BY Parts DEF TypeOK
  <2>2. Complete(<<q, try[q]>>) => item[<<q, try[q]>>] \in Item
    BY <2>1 DEF TypeOK, Complete
  <2>3. Complete(<<q, try[q]>>) => item[<<q, try[q]>>].answer \in Runs \union {NoAnswer}
    BY <2>2 DEF Item
  <2> QED
    BY <2>3 DEF TypeOK, PageStep
<1>4. sub' \in [Requests -> {"unsent", "put", "invoke", "mark",
                            "accepted", "refused", "dead"}]
  BY DEF TypeOK, PageStep
<1> QED
  BY <1>1, <1>2, <1>3, <1>4 DEF TypeOK, PageStep, agentVars, convVars

\* An item that was marked failed is still an item.
LEMMA FailedType ==
  ASSUME NEW i \in Item \union {NoItem}
  PROVE  Failed(i) \in Item /\ Failed(i).status = "failed"
BY DEF Failed, Item

LEMMA SubmitType ==
  ASSUME TypeOK, NEW r \in Requests, Submit(r) \/ InvokeThrows(r) \/ SubmitDies(r)
  PROVE  TypeOK'
<1> DEFINE new == [status |-> "processing", answer |-> NoAnswer]
<1>1. faults' \in 0 .. MaxMishaps /\ absences' \in 0 .. MaxMishaps
  BY MishapType DEF Submit, PutRequest, Invoke, MarkNotStarted, InvokeThrows,
                    SubmitDies, faultVars
<1>2. new \in Item
  BY DEF Item
<1>3. CASE PutRequest(r)
  BY <1>1, <1>2, <1>3 DEF PutRequest, TypeOK, pageVars, agentVars, convVars
<1>4. CASE Invoke(r)
  BY <1>1, <1>4 DEF Invoke, TypeOK, pageVars, convVars
<1>5. CASE MarkNotStarted(r)
  <2>1. Failed(item[r]) \in Item
    BY FailedType DEF TypeOK
  <2> QED
    BY <1>1, <1>5, <2>1 DEF MarkNotStarted, TypeOK, pageVars, agentVars, convVars
<1>6. CASE InvokeThrows(r)
  BY <1>1, <1>6 DEF InvokeThrows, TypeOK, pageVars, convVars
<1>7. CASE SubmitDies(r)
  BY <1>1, <1>7 DEF SubmitDies, TypeOK, pageVars, agentVars, convVars
<1> QED
  BY <1>3, <1>4, <1>5, <1>6, <1>7 DEF Submit

AgentSteps(r) ==
  Agent(r) \/ PostLost(r) \/ ReportLost(r) \/ Killed(r) \/ DeliveredAgain(r)

LEMMA AgentType ==
  ASSUME TypeOK, NEW r \in Requests, AgentSteps(r)
  PROVE  TypeOK'
<1>1. faults' \in 0 .. MaxMishaps /\ absences' \in 0 .. MaxMishaps
  BY MishapType DEF AgentSteps, Agent, Start, Finish, ReportHeard, PostLost,
                    ReportLost, Killed, DeliveredAgain, faultVars
<1>2. CASE Start(r)
  <2>1. runs[r] + 1 \in 0 .. MaxRuns
    BY <1>2, QuestionsAssumption DEF Start, TypeOK
  <2> QED
    BY <1>1, <1>2, <2>1 DEF Start, TypeOK, pageVars, convVars
<1>3. ASSUME NEW kind \in Kinds, Finish(r, kind)
      PROVE  TypeOK'
  BY <1>1, <1>3 DEF Finish, Outcome, TypeOK, Kinds, pageVars, convVars
<1>4. CASE ReportHeard(r)
  BY <1>1, <1>4 DEF ReportHeard, TypeOK, pageVars, convVars
<1>5. CASE PostLost(r)
  BY <1>1, <1>5 DEF PostLost, TypeOK, pageVars, convVars
<1>6. CASE ReportLost(r)
  BY <1>1, <1>6 DEF ReportLost, Unheard, TypeOK, pageVars, convVars
<1>7. CASE Killed(r)
  BY <1>1, <1>7 DEF Killed, Requeued, TypeOK, pageVars, convVars
<1>8. CASE DeliveredAgain(r)
  BY <1>1, <1>8 DEF DeliveredAgain, TypeOK, pageVars, convVars
<1> QED
  BY <1>2, <1>3, <1>4, <1>5, <1>6, <1>7, <1>8 DEF AgentSteps, Agent

LEMMA LastTurnsType ==
  ASSUME NEW s \in Seq(Runs)
  PROVE  LastTurns(s) \in Seq(Runs)
<1>1. CASE Len(s) > MAX_TURNS
  <2>1. Len(s) - MAX_TURNS + 1 \in 1 .. Len(s) + 1 /\ Len(s) \in Nat
    BY <1>1, QuestionsAssumption
  <2> QED
    BY <1>1, <2>1 DEF LastTurns
<1>2. CASE ~(Len(s) > MAX_TURNS)
  BY <1>2 DEF LastTurns
<1> QED
  BY <1>1, <1>2

CallbackSteps(k) == Callback(k) \/ GetLags(k) \/ ReadLags(k) \/ CallbackDies(k)

LEMMA CallbackType ==
  ASSUME TypeOK, NEW k \in Reports, CallbackSteps(k)
  PROVE  TypeOK'
<1>1. faults' \in 0 .. MaxMishaps /\ absences' \in 0 .. MaxMishaps
  BY MishapType DEF CallbackSteps, Callback, SetComplete, ReadTurns, WriteTurns,
                    MarkFailed, GetLags, ReadLags, CallbackDies, faultVars
<1>2. RequestOf(k) \in Requests /\ k[1] \in Runs
  BY Parts
<1>3. CASE SetComplete(k)
  <2>1. [status |-> "complete", answer |-> k[1]] \in Item
    BY <1>2 DEF Item
  <2>2. Append(answered, k[1]) \in Seq(Runs)
    BY <1>2 DEF TypeOK
  <2> QED
    BY <1>1, <1>2, <1>3, <2>1, <2>2 DEF SetComplete, At, TypeOK, pageVars, agentVars
<1>4. CASE ReadTurns(k)
  BY <1>1, <1>4 DEF ReadTurns, At, TypeOK, pageVars, agentVars, convVars
<1>5. CASE WriteTurns(k)
  <2>1. Append(seen[k], k[1]) \in Seq(Runs)
    BY <1>2 DEF TypeOK
  <2>2. turns' \in Seq(Runs)
    BY <1>5, <2>1, LastTurnsType DEF WriteTurns
  <2> QED
    BY <1>1, <1>5, <2>2 DEF WriteTurns, At, TypeOK, pageVars, agentVars
<1>6. CASE MarkFailed(k)
  <2>1. Failed(item[RequestOf(k)]) \in Item
    BY <1>2, FailedType DEF TypeOK
  <2> QED
    BY <1>1, <1>2, <1>6, <2>1 DEF MarkFailed, At, TypeOK, pageVars, agentVars, convVars
<1>7. CASE GetLags(k)
  BY <1>1, <1>7 DEF GetLags, At, TypeOK, pageVars, agentVars, convVars
<1>8. CASE CallbackDies(k)
  BY <1>1, <1>8 DEF CallbackDies, At, TypeOK, pageVars, agentVars
<1>9. CASE ReadLags(k)
  <2>1. seen' \in [Reports -> Seq(Runs)]
    BY <1>9 DEF ReadLags, TypeOK
  <2> QED
    BY <1>1, <1>9, <2>1 DEF ReadLags, At, TypeOK, pageVars, agentVars
<1> QED
  BY <1>3, <1>4, <1>5, <1>6, <1>7, <1>8, <1>9 DEF CallbackSteps, Callback

\* A step is one of the page, of a submission, of an agent or of a callback, or
\* the conversation is swept.
LEMMA StepCases ==
  ASSUME TypeOK, [Next]_vars
  PROVE  \/ \E q \in Questions : PageStep(q)
         \/ \E r \in Requests : Submit(r) \/ InvokeThrows(r) \/ SubmitDies(r)
         \/ \E r \in Requests : AgentSteps(r)
         \/ \E k \in Reports : CallbackSteps(k)
         \/ ConversationSwept
         \/ UNCHANGED vars
BY PageSteps DEF Next, AgentSteps, CallbackSteps

LEMMA TypeStep == TypeOK /\ [Next]_vars => TypeOK'
<1> SUFFICES ASSUME TypeOK, [Next]_vars
             PROVE  TypeOK'
  OBVIOUS
<1>1. ASSUME NEW q \in Questions,
             Ask(q) \/ Page(q) \/ TooSlow(q) \/ PageFetchFails(q) \/ Reload(q)
      PROVE  TypeOK'
  <2>1. faults' \in 0 .. MaxMishaps /\ absences' \in 0 .. MaxMishaps
    BY <1>1, MishapType DEF Ask, Page, Accepted, Refused, PollComplete, PollFailed,
       TooLong, TooSlow, PageFetchFails, Reload, faultVars
  <2> QED
    BY <1>1, <2>1, PageSteps, PageType
<1>2. CASE ConversationSwept
  <2>1. faults' \in 0 .. MaxMishaps /\ absences' \in 0 .. MaxMishaps
    BY <1>2, MishapType DEF ConversationSwept
  <2> QED
    BY <1>2, <2>1 DEF ConversationSwept, TypeOK, pageVars, agentVars
<1>3. CASE UNCHANGED vars
  BY <1>3 DEF vars, TypeOK, pageVars, agentVars, convVars, faultVars
<1> QED
  BY <1>1, <1>2, <1>3, SubmitType, AgentType, CallbackType
     DEF Next, AgentSteps, CallbackSteps

\* Every variable keeps its type; in particular the agent never starts more
\* often than Lambda does, and the page never submits more often than it may.
THEOREM TypeCorrect == Spec => []TypeOK
BY InitType, TypeStep, PTL DEF Spec

-----------------------------------------------------------------------------
(* The invariant. *)

\* A report is from an agent that was invoked.
LEMMA ReportedWasInvoked ==
  ASSUME TypeOK, AgentInv, ReportInv, NEW k \in Reports, report[k] # "unsent"
  PROVE  agent[RequestOf(k)] # "none" /\ runs[RequestOf(k)] > 0
<1>1. RequestOf(k) \in Requests /\ k[1][2] \in 1 .. MaxRuns
  BY Parts
<1>2. k[1][2] <= runs[RequestOf(k)] /\ runs[RequestOf(k)] \in 0 .. MaxRuns
  BY <1>1 DEF ReportInv, TypeOK
<1> QED
  BY <1>1, <1>2, QuestionsAssumption DEF AgentInv

LEMMA SubmitStep ==
  ASSUME TypeOK, SubmitInv, AgentInv, ReportInv, [Next]_vars
  PROVE  SubmitInv'
<1>1. ASSUME NEW q \in Questions, PageStep(q)
      PROVE  SubmitInv'
  <2>1. try[q] \in Attempts /\ try[q] \in Nat /\ \A a \in Attempts : a \in Nat
    BY <1>1 DEF TypeOK, Attempts
  <2>2. CASE UNCHANGED <<try, sub>> /\ ask'[q] # "new"
    BY <1>1, <2>2 DEF SubmitInv, PageStep, agentVars, TypeOK
  <2>3. ASSUME NEW a \in Attempts, sub' = [sub EXCEPT ![<<q, a>>] = "put"],
               sub[<<q, a>>] = "unsent", ask' = [ask EXCEPT ![q] = "submitting"],
               \A b \in Attempts : b > try'[q] => b # a /\ b > try[q],
               \A p \in Questions : p # q => try'[p] = try[p]
        PROVE  SubmitInv'
    <3>1. \A p \in Questions, b \in Attempts :
             b > try'[p] \/ ask'[p] = "new" => sub'[<<p, b>>] = "unsent"
      BY <2>3, Parts DEF SubmitInv, TypeOK
    <3>2. \A r \in Requests : sub'[r] = sub[r] \/ sub[r] = "unsent"
      BY <2>3, Parts DEF TypeOK
    <3>3. UNCHANGED <<item, agent>>
      BY <1>1 DEF PageStep, agentVars
    <3> QED
      BY <3>1, <3>2, <3>3 DEF SubmitInv
  <2>4. CASE ask[q] = "new" /\ UNCHANGED try /\ sub' = [sub EXCEPT ![<<q, try[q]>>] = "put"]
    <3>1. sub[<<q, try[q]>>] = "unsent" /\ ask' = [ask EXCEPT ![q] = "submitting"]
      BY <1>1, <2>1, <2>4, Parts DEF SubmitInv, PageStep, TypeOK
    <3>2. \A b \in Attempts : b > try'[q] => b # try[q] /\ b > try[q]
      BY <2>1, <2>4
    <3> QED
      BY <2>1, <2>3, <2>4, <3>1, <3>2
  <2>5. CASE ask[q] # "new" /\ try' = [try EXCEPT ![q] = try[q] + 1]
    <3>1. try[q] + 1 \in Attempts /\ try'[q] = try[q] + 1
      BY <1>1, <2>1, <2>5 DEF PageStep, TypeOK
    <3>2. sub[<<q, try[q] + 1>>] = "unsent"
      BY <2>1, <3>1 DEF SubmitInv
    <3>3. \A b \in Attempts : b > try'[q] => b # try[q] + 1 /\ b > try[q]
      BY <2>1, <3>1
    <3>4. /\ sub' = [sub EXCEPT ![<<q, try[q] + 1>>] = "put"]
          /\ ask' = [ask EXCEPT ![q] = "submitting"]
      <4>1. try[q] + 1 # try[q]
        BY <2>1
      <4>2. try' # try
        BY <3>1, <4>1
      <4> QED
        BY <1>1, <2>5, <4>2 DEF PageStep
    <3> QED
      BY <2>3, <2>5, <3>1, <3>2, <3>3, <3>4 DEF TypeOK
  <2> QED
    BY <1>1, <2>2, <2>4, <2>5 DEF PageStep, TypeOK
<1>2. ASSUME NEW r \in Requests, Submit(r) \/ InvokeThrows(r) \/ SubmitDies(r)
      PROVE  SubmitInv'
  BY <1>2, Parts DEF Submit, PutRequest, Invoke, MarkNotStarted, InvokeThrows,
     SubmitDies, SubmitInv, TypeOK, pageVars, agentVars
<1>3. ASSUME NEW r \in Requests, AgentSteps(r)
      PROVE  SubmitInv'
  <2>1. agent[r] # "none" /\ \A x \in Requests : x # r => agent'[x] = agent[x]
    BY <1>3 DEF AgentSteps, Agent, Start, Finish, Outcome, ReportHeard, PostLost,
       ReportLost, Unheard, Killed, Requeued, DeliveredAgain, TypeOK
  <2>2. UNCHANGED <<ask, try, sub, item>>
    BY <1>3 DEF AgentSteps, Agent, Start, Finish, ReportHeard, PostLost,
       ReportLost, Killed, DeliveredAgain, pageVars
  <2> QED
    BY <2>1, <2>2 DEF SubmitInv
<1>4. ASSUME NEW k \in Reports, CallbackSteps(k)
      PROVE  SubmitInv'
  <2>1. agent[RequestOf(k)] # "none"
    BY <1>4, ReportedWasInvoked DEF CallbackSteps, Callback, SetComplete, ReadTurns,
       WriteTurns, MarkFailed, GetLags, ReadLags, CallbackDies
  <2>2. \A r \in Requests : r # RequestOf(k) => item'[r] = item[r]
    BY <1>4 DEF CallbackSteps, Callback, SetComplete, ReadTurns, WriteTurns,
       MarkFailed, GetLags, ReadLags, CallbackDies, TypeOK
  <2>3. UNCHANGED <<ask, try, sub, agent>>
    BY <1>4 DEF CallbackSteps, Callback, SetComplete, ReadTurns, WriteTurns,
       MarkFailed, GetLags, ReadLags, CallbackDies, pageVars, agentVars
  <2> QED
    BY <2>1, <2>2, <2>3 DEF SubmitInv
<1>5. CASE ConversationSwept \/ UNCHANGED vars
  BY <1>5 DEF ConversationSwept, vars, pageVars, agentVars, SubmitInv
<1> QED
  BY <1>1, <1>2, <1>3, <1>4, <1>5, StepCases

LEMMA AgentStep ==
  ASSUME TypeOK, SubmitInv, AgentInv, [Next]_vars
  PROVE  AgentInv'
<1>1. \A r \in Requests : runs[r] \in Nat /\ again[r] \in Nat
  BY QuestionsAssumption DEF TypeOK
<1>2. ASSUME NEW r \in Requests, Submit(r) \/ InvokeThrows(r) \/ SubmitDies(r)
      PROVE  AgentInv'
  <2>1. UNCHANGED <<runs, again>>
    BY <1>2 DEF Submit, PutRequest, Invoke, MarkNotStarted, InvokeThrows,
       SubmitDies, agentVars
  <2>2. \/ agent' = agent
        \/ sub[r] = "invoke" /\ agent' = [agent EXCEPT ![r] = "queued"]
    BY <1>2 DEF Submit, PutRequest, Invoke, MarkNotStarted, InvokeThrows,
       SubmitDies, agentVars
  <2>3. sub[r] = "invoke" => runs[r] = 0
    BY DEF SubmitInv, AgentInv
  <2> QED
    BY <1>1, <2>1, <2>2, <2>3 DEF AgentInv, TypeOK
<1>3. ASSUME NEW r \in Requests, AgentSteps(r)
      PROVE  AgentInv'
  <2>1. CASE Start(r)
    BY <1>1, <2>1 DEF Start, AgentInv, TypeOK
  <2>2. CASE Killed(r) \/ DeliveredAgain(r)
    <3>1. /\ UNCHANGED runs /\ again' = [again EXCEPT ![r] = again[r] + 1]
          /\ \E s \in {"queued", "dropped"} : agent' = [agent EXCEPT ![r] = s]
          /\ agent[r] \notin {"none", "queued"}
      BY <2>2 DEF Killed, Requeued, DeliveredAgain
    <3>2. again'[r] = again[r] + 1 /\ runs[r] > 0
      BY <3>1 DEF TypeOK, AgentInv
    <3>3. \A x \in Requests : x # r => again'[x] = again[x] /\ agent'[x] = agent[x]
      BY <3>1 DEF TypeOK
    <3>4. agent'[r] \in {"queued", "dropped"}
      BY <3>1 DEF TypeOK
    <3> QED
      BY <1>1, <3>1, <3>2, <3>3, <3>4 DEF AgentInv
  <2>3. CASE \/ \E kind \in Kinds : Finish(r, kind)
             \/ ReportHeard(r) \/ PostLost(r) \/ ReportLost(r)
    BY <1>1, <2>3 DEF Finish, Outcome, ReportHeard, PostLost, ReportLost, Unheard,
       AgentInv, TypeOK
  <2> QED
    BY <1>3, <2>1, <2>2, <2>3 DEF AgentSteps, Agent
<1>4. UNCHANGED agentVars => AgentInv'
  BY DEF AgentInv, agentVars
<1>5. \A q \in Questions : PageStep(q) => UNCHANGED agentVars
  BY DEF PageStep
<1>6. \A k \in Reports : CallbackSteps(k) => UNCHANGED agentVars
  BY DEF CallbackSteps, Callback, SetComplete, ReadTurns, WriteTurns, MarkFailed,
     GetLags, ReadLags, CallbackDies
<1>7. ConversationSwept \/ UNCHANGED vars => UNCHANGED agentVars
  BY DEF ConversationSwept, vars
<1> QED
  BY <1>2, <1>3, <1>4, <1>5, <1>6, <1>7, StepCases

\* A callback goes on from a report that was sent.
LEMMA CallbackGoesOn ==
  ASSUME TypeOK, NEW k \in Reports, CallbackSteps(k)
  PROVE  /\ report[k] \in {"complete", "fail", "read", "write"}
         /\ \E s \in Handled : report' = [report EXCEPT ![k] = s]
         /\ \A r \in Requests : r # RequestOf(k) => item'[r] = item[r]
         /\ UNCHANGED <<pageVars, sub, agentVars>>
BY DEF CallbackSteps, Callback, SetComplete, ReadTurns, WriteTurns, MarkFailed,
   GetLags, ReadLags, CallbackDies, At, Handled, TypeOK

\* A run that ends its work has not reported anything yet.
LEMMA FirstReport ==
  ASSUME TypeOK, AgentInv, ReportInv,
         NEW r \in Requests, NEW kind \in Kinds, Finish(r, kind)
  PROVE  /\ <<ThisRun(r), kind>> \in Reports
         /\ RequestOf(<<ThisRun(r), kind>>) = r /\ runs[r] \in 1 .. MaxRuns
         /\ \A k \in Reports : k[1] = ThisRun(r) => report[k] = "unsent"
         /\ report[<<ThisRun(r), kind>>] = "unsent"
<1>1. agent[r] = "running" /\ runs[r] > 0 /\ runs[r] \in 0 .. MaxRuns
  BY DEF Finish, AgentInv, TypeOK
<1>2. runs[r] \in 1 .. MaxRuns
  BY <1>1, QuestionsAssumption
<1>3. <<ThisRun(r), kind>> \in Reports /\ RequestOf(<<ThisRun(r), kind>>) = r
  BY <1>2, Parts DEF ThisRun, RequestOf
<1>4. ASSUME NEW k \in Reports, k[1] = ThisRun(r), report[k] # "unsent"
      PROVE  FALSE
  <2>1. RequestOf(k) = r /\ k[1][2] = runs[r]
    BY <1>4 DEF RequestOf, ThisRun
  <2> QED
    BY <1>1, <1>2, <1>4, <2>1 DEF ReportInv
<1>5. <<ThisRun(r), kind>>[1] = ThisRun(r)
  OBVIOUS
<1> QED
  BY <1>2, <1>3, <1>4, <1>5

\* A run that has ended its work sends its one report, or none.
LEMMA ReportStep ==
  ASSUME TypeOK, SubmitInv, AgentInv, ReportInv, [Next]_vars
  PROVE  ReportInv'
<1>1. ASSUME NEW r \in Requests, Submit(r) \/ InvokeThrows(r) \/ SubmitDies(r)
      PROVE  ReportInv'
  <2>1. UNCHANGED <<runs, report>>
    BY <1>1 DEF Submit, PutRequest, Invoke, MarkNotStarted, InvokeThrows,
       SubmitDies, agentVars
  <2>2. agent' = agent \/ agent' = [agent EXCEPT ![r] = "queued"]
    BY <1>1 DEF Submit, PutRequest, Invoke, MarkNotStarted, InvokeThrows,
       SubmitDies, agentVars
  <2> QED
    BY <2>1, <2>2, Parts DEF ReportInv, TypeOK
<1>2. ASSUME NEW r \in Requests, Start(r)
      PROVE  ReportInv'
  <2>1. \A k \in Reports : k[1][2] \in Nat /\ runs[RequestOf(k)] \in Nat
    BY Parts, QuestionsAssumption DEF TypeOK
  <2>2. UNCHANGED report /\ runs' = [runs EXCEPT ![r] = @ + 1]
        /\ agent' = [agent EXCEPT ![r] = "running"]
    BY <1>2 DEF Start
  <2>3. \A k \in Reports : RequestOf(k) = r =>
           runs'[RequestOf(k)] = runs[RequestOf(k)] + 1
    BY <2>2 DEF TypeOK
  <2>4. \A k \in Reports : RequestOf(k) # r =>
           runs'[RequestOf(k)] = runs[RequestOf(k)]
           /\ agent'[RequestOf(k)] = agent[RequestOf(k)]
    BY <2>2, Parts DEF TypeOK
  <2> QED
    BY <2>1, <2>2, <2>3, <2>4 DEF ReportInv
<1>3. ASSUME NEW r \in Requests, NEW kind \in Kinds, Finish(r, kind)
      PROVE  ReportInv'
  <2> DEFINE own == <<ThisRun(r), kind>>
  <2>1. own \in Reports /\ own[1] = ThisRun(r) /\ own[1][2] = runs[r]
        /\ RequestOf(own) = r /\ runs[r] \in Nat
    BY <1>3, FirstReport, QuestionsAssumption DEF ThisRun
  <2>2. \A k \in Reports : k[1] = ThisRun(r) => report[k] = "unsent"
    BY <1>3, FirstReport
  <2>3. \A k \in Reports : report'[k] # "unsent" => k = own \/ report[k] # "unsent"
    BY <1>3, <2>1 DEF Finish, Outcome, TypeOK
  <2>4. /\ UNCHANGED runs
        /\ \A k \in Reports : agent'[RequestOf(k)] = "running" =>
              RequestOf(k) # r /\ agent[RequestOf(k)] = "running"
    BY <1>3, Parts DEF Finish, Outcome, TypeOK
  <2>5. runs[r] <= runs[r]
    BY <2>1
  <2> HIDE DEF own
  <2> QED
    BY <2>1, <2>2, <2>3, <2>4, <2>5 DEF ReportInv
<1>4. ASSUME NEW r \in Requests,
             \/ ReportHeard(r) \/ PostLost(r) \/ ReportLost(r)
             \/ Killed(r) \/ DeliveredAgain(r)
      PROVE  ReportInv'
  <2>1. /\ UNCHANGED <<runs, report>>
        /\ \E s \in {"over", "queued", "dropped"} : agent' = [agent EXCEPT ![r] = s]
    BY <1>4 DEF ReportHeard, PostLost, ReportLost, Unheard, Killed, Requeued,
       DeliveredAgain
  <2> QED
    BY <2>1, Parts DEF ReportInv, TypeOK
<1>5. ASSUME NEW k \in Reports, CallbackSteps(k)
      PROVE  ReportInv'
  <2>1. UNCHANGED <<runs, agent>>
        /\ \A j \in Reports : report'[j] # "unsent" => report[j] # "unsent"
    BY <1>5, CallbackGoesOn DEF agentVars, TypeOK
  <2> QED
    BY <2>1 DEF ReportInv
<1>6. UNCHANGED <<runs, agent, report>> => ReportInv'
  BY DEF ReportInv
<1>7. (\E q \in Questions : PageStep(q)) \/ ConversationSwept \/ UNCHANGED vars
      => UNCHANGED <<runs, agent, report>>
  BY DEF PageStep, ConversationSwept, vars, agentVars
<1> QED
  BY <1>1, <1>2, <1>3, <1>4, <1>5, <1>6, <1>7, StepCases DEF AgentSteps, Agent

\* A callback that completes an item, or marks a complete one failed, has not
\* been there before: the run it is from is not the one the item is from.
LEMMA CompleteStep ==
  ASSUME TypeOK, SubmitInv, AgentInv, ReportInv, CompleteInv, [Next]_vars
  PROVE  CompleteInv'
<1>1. \A k \in Reports : report[k] \in Handled => report'[k] \in Handled
  <2>1. ASSUME NEW r \in Requests, AgentSteps(r)
        PROVE  \A k \in Reports : report[k] \in Handled => report'[k] \in Handled
    <3>1. \/ UNCHANGED report
          \/ \E kind \in Kinds : /\ report[<<ThisRun(r), kind>>] = "unsent"
                                 /\ report' = [report EXCEPT ![<<ThisRun(r), kind>>] = kind]
      BY <2>1, FirstReport DEF AgentSteps, Agent, Start, Finish, Outcome, ReportHeard, PostLost,
         ReportLost, Unheard, Killed, DeliveredAgain
    <3> QED
      BY <3>1 DEF Handled, TypeOK
  <2>2. ASSUME NEW k \in Reports, CallbackSteps(k)
        PROVE  \A j \in Reports : report[j] \in Handled => report'[j] \in Handled
    BY <2>2, CallbackGoesOn DEF TypeOK
  <2>3. \/ \E q \in Questions : PageStep(q)
        \/ \E r \in Requests : Submit(r) \/ InvokeThrows(r) \/ SubmitDies(r)
        \/ ConversationSwept \/ UNCHANGED vars
        => UNCHANGED report
    BY DEF PageStep, Submit, PutRequest, Invoke, MarkNotStarted, InvokeThrows,
       SubmitDies, ConversationSwept, vars
  <2> QED
    BY <2>1, <2>2, <2>3, StepCases
<1>2. ASSUME NEW r \in Requests, Complete(r)'
      PROVE  \/ Complete(r)
             \/ \E k \in Reports : RequestOf(k) = r /\ report'[k] \in Handled
  <2>1. ASSUME NEW k \in Reports, CallbackSteps(k)
        PROVE  \/ Complete(r)
               \/ \E j \in Reports : RequestOf(j) = r /\ report'[j] \in Handled
    <3>1. CASE RequestOf(k) = r
      BY <2>1, <3>1, CallbackGoesOn DEF TypeOK
    <3>2. CASE RequestOf(k) # r
      BY <1>2, <2>1, <3>2, CallbackGoesOn DEF Complete
    <3> QED
      BY <3>1, <3>2
  <2>2. ASSUME NEW x \in Requests, Submit(x) \/ InvokeThrows(x) \/ SubmitDies(x)
        PROVE  Complete(r)
    <3>1. \/ UNCHANGED item
          \/ item' = [item EXCEPT ![x] = [status |-> "processing", answer |-> NoAnswer]]
          \/ item' = [item EXCEPT ![x] = Failed(item[x])]
      BY <2>2 DEF Submit, PutRequest, Invoke, MarkNotStarted, InvokeThrows, SubmitDies
    <3>2. Failed(item[x]).status = "failed"
      BY FailedType DEF TypeOK
    <3>3. item'[r] = item[r]
      BY <1>2, <3>1, <3>2 DEF Complete, TypeOK
    <3> QED
      BY <1>2, <3>3 DEF Complete
  <2>3. (\E q \in Questions : PageStep(q)) \/ (\E x \in Requests : AgentSteps(x))
        \/ ConversationSwept \/ UNCHANGED vars
        => UNCHANGED item
    BY DEF PageStep, AgentSteps, Agent, Start, Finish, ReportHeard, PostLost,
       ReportLost, Killed, DeliveredAgain, ConversationSwept, vars
  <2> QED
    BY <1>2, <2>1, <2>2, <2>3, StepCases DEF Complete
<1> QED
  BY <1>1, <1>2 DEF CompleteInv

LEMMA InvStep == Inv /\ [Next]_vars => Inv'
BY TypeStep, SubmitStep, AgentStep, ReportStep, CompleteStep DEF Inv

LEMMA InitInv == Init => Inv
BY InitType DEF Init, Inv, SubmitInv, AgentInv, ReportInv, CompleteInv, Complete,
   Requests, RequestOf, Reports, Runs

-----------------------------------------------------------------------------
(* One run for each delivery, one outcome for each run, and answers stand.  *)

\* The agent runs again only when Lambda killed a run or delivered its event
\* again, and no run reports two outcomes.
THEOREM RunsArePaidFor == Spec => []OneRunPerDelivery
<1>1. Inv => OneRunPerDelivery
  BY Parts DEF Inv, AgentInv, ReportInv, OneRunPerDelivery, Reported
<1> QED
  BY <1>1, InitInv, InvStep, PTL DEF Spec

\* If the event of a request was run once, all its reports are one.
LEMMA OnlyReport ==
  ASSUME Inv, NEW j \in Reports, NEW k \in Reports, RequestOf(j) = RequestOf(k),
         again[RequestOf(k)] = 0, report[j] # "unsent", report[k] # "unsent"
  PROVE  j = k
<1>1. runs[RequestOf(k)] <= 1 /\ runs[RequestOf(k)] \in Nat
  BY Parts, QuestionsAssumption DEF Inv, AgentInv, TypeOK
<1>2. /\ j[1][2] <= runs[RequestOf(k)] /\ k[1][2] <= runs[RequestOf(k)]
      /\ j[1][2] \in 1 .. MaxRuns /\ k[1][2] \in 1 .. MaxRuns
  BY Parts DEF Inv, ReportInv
<1>3. j[1][2] = 1 /\ k[1][2] = 1
  BY <1>1, <1>2, QuestionsAssumption
<1>4. j[1] = k[1]
  BY <1>3, Parts
<1> QED
  BY <1>4 DEF Inv, ReportInv

\* A callback that has still to look at its request does not find it complete.
LEMMA NotYetComplete ==
  ASSUME Inv, NEW k \in Reports, report[k] \in {"complete", "fail"},
         again[RequestOf(k)] = 0
  PROVE  ~Complete(RequestOf(k))
<1> SUFFICES ASSUME Complete(RequestOf(k))
             PROVE  FALSE
  OBVIOUS
<1>1. PICK j \in Reports : RequestOf(j) = RequestOf(k) /\ report[j] \in Handled
  BY Parts DEF Inv, CompleteInv
<1>2. j = k
  BY <1>1, OnlyReport DEF Handled
<1> QED
  BY <1>1, <1>2 DEF Handled

\* An item that is complete stays as it is, unless Lambda ran its event once
\* more, or had been given up when it was queued: no callback that got no
\* reply, and no second report of a run, takes an answer back.
THEOREM AnswersAreFinal == Spec => AnswersStand
<1>1. Inv /\ [Next]_vars =>
        [\A r \in Requests :
           item[r] # NoItem /\ item[r].status = "complete" =>
             \/ item'[r] = item[r]
             \/ again[r] > 0
             \/ StartedInDoubt(r)]_vars
  <2> SUFFICES ASSUME Inv, [Next]_vars, NEW r \in Requests, Complete(r), ~(again[r] > 0)
               PROVE  item'[r] = item[r] \/ StartedInDoubt(r)
    BY DEF Complete
  <2>0. again[r] = 0
    <3>1. again[r] \in Nat
      BY DEF Inv, TypeOK
    <3> QED
      BY <3>1
  <2>1. ASSUME NEW k \in Reports, CallbackSteps(k)
        PROVE  item'[r] = item[r]
    <3>1. CASE report[k] \in {"complete", "fail"}
      BY <2>0, <2>1, <3>1, NotYetComplete, CallbackGoesOn DEF Inv
    <3>2. CASE report[k] \notin {"complete", "fail"}
      BY <2>1, <3>2 DEF CallbackSteps, Callback, SetComplete, ReadTurns, WriteTurns,
         MarkFailed, GetLags, ReadLags, CallbackDies
    <3> QED
      BY <3>1, <3>2
  <2>2. ASSUME NEW x \in Requests, Submit(x) \/ InvokeThrows(x) \/ SubmitDies(x)
        PROVE  item'[r] = item[r] \/ StartedInDoubt(r)
    <3>1. PICK k \in Reports : RequestOf(k) = r /\ report[k] \in Handled
      BY DEF Inv, CompleteInv
    <3>2. agent[r] # "none" /\ sub[r] # "put"
      BY <3>1, ReportedWasInvoked DEF Inv, Handled, SubmitInv
    <3> QED
      BY <2>2, <3>2 DEF Submit, PutRequest, Invoke, MarkNotStarted, InvokeThrows,
         SubmitDies, StartedInDoubt, Inv, TypeOK
  <2>3. (\E q \in Questions : PageStep(q)) \/ (\E x \in Requests : AgentSteps(x))
        \/ ConversationSwept \/ UNCHANGED vars
        => UNCHANGED item
    BY DEF PageStep, AgentSteps, Agent, Start, Finish, ReportHeard, PostLost,
       ReportLost, Killed, DeliveredAgain, ConversationSwept, vars
  <2> QED
    BY <2>1, <2>2, <2>3, StepCases DEF Inv
<1> QED
  BY <1>1, InitInv, InvStep, PTL DEF Spec, AnswersStand

-----------------------------------------------------------------------------
(* The conversation. *)

\* Appending to the latest turns, and cutting the oldest off, gives the latest
\* turns again.
LEMMA LatestNext ==
  ASSUME NEW t \in Seq(Runs), NEW s \in Seq(Runs), NEW x \in Runs, IsLatest(t, s)
  PROVE  IsLatest(LastTurns(Append(t, x)), Append(s, x))
<1> DEFINE T == Append(t, x)
           S == Append(s, x)
           m == MAX_TURNS
           l == Len(t)
           n == Len(s)
<1>1. m \in Nat /\ m > 0 /\ l \in Nat /\ n \in Nat
  BY QuestionsAssumption
<1>2. /\ T \in Seq(Runs) /\ Len(T) = l + 1 /\ T[l + 1] = x
      /\ \A i \in 1 .. l : T[i] = t[i]
  OBVIOUS
<1>3. /\ S \in Seq(Runs) /\ Len(S) = n + 1 /\ S[n + 1] = x
      /\ \A i \in 1 .. n : S[i] = s[i]
  OBVIOUS
<1>4. l = (IF n < m THEN n ELSE m) /\ \A i \in 1 .. l : t[i] = s[n - l + i]
  BY DEF IsLatest
<1>5. CASE l + 1 > m
  <2>1. l = m /\ n >= m
    BY <1>1, <1>4, <1>5
  <2> DEFINE L == SubSeq(T, 2, m + 1)
  <2>2. LastTurns(T) = L
    BY <1>1, <1>2, <2>1 DEF LastTurns
  <2>3. Len(L) = m /\ \A i \in 1 .. m : L[i] = T[i + 1]
    BY <1>1, <1>2, <2>1
  <2> HIDE DEF L, T, S, l, n, m
  <2>4. ASSUME NEW i \in 1 .. m
        PROVE  L[i] = S[(n + 1) - m + i]
    <3>1. i \in Nat /\ L[i] = T[i + 1]
      BY <1>1, <2>3
    <3>2. CASE i = m
      <4>1. (n + 1) - m + i = n + 1
        BY <1>1, <3>2
      <4> QED
        BY <1>2, <1>3, <2>1, <3>1, <3>2, <4>1
    <3>3. CASE i # m
      <4>1. i + 1 \in 1 .. l /\ n - l + (i + 1) \in 1 .. n
            /\ n - l + (i + 1) = (n + 1) - m + i
        BY <1>1, <2>1, <3>1, <3>3
      <4>2. T[i + 1] = t[i + 1] /\ t[i + 1] = s[n - l + (i + 1)]
        BY <1>2, <1>4, <4>1
      <4>3. S[n - l + (i + 1)] = s[n - l + (i + 1)]
        BY <1>3, <4>1
      <4> QED
        BY <3>1, <4>1, <4>2, <4>3
    <3> QED
      BY <3>2, <3>3
  <2>5. m = (IF n + 1 < m THEN n + 1 ELSE m)
    BY <1>1, <2>1
  <2>6. IsLatest(L, S)
    BY <1>3, <2>3, <2>4, <2>5 DEF IsLatest, m
  <2> QED
    BY <2>2, <2>6 DEF T, S
<1>6. CASE ~(l + 1 > m)
  <2>1. l = n
    BY <1>1, <1>4, <1>6
  <2>2. LastTurns(T) = T
    BY <1>2, <1>6 DEF LastTurns
  <2> HIDE DEF T, S, l, n, m
  <2>3. n + 1 = (IF n + 1 < m THEN n + 1 ELSE m)
    BY <1>1, <1>6, <2>1
  <2>4. ASSUME NEW i \in 1 .. n + 1
        PROVE  T[i] = S[(n + 1) - (n + 1) + i]
    <3>1. (n + 1) - (n + 1) + i = i /\ (i \in 1 .. n \/ i = n + 1)
      BY <1>1
    <3>2. i \in 1 .. n => t[i] = s[i]
      <4>1. n - l + i = i
        BY <1>1, <2>1
      <4> QED
        BY <1>4, <2>1, <4>1
    <3> QED
      BY <1>2, <1>3, <2>1, <3>1, <3>2
  <2>5. IsLatest(T, S)
    BY <1>2, <1>3, <2>1, <2>3, <2>4 DEF IsLatest, m
  <2> QED
    BY <2>2, <2>5 DEF T, S
<1> QED
  BY <1>5, <1>6

\* Of a conversation with one more answer, all but that one is what it was.
LEMMA ButLast ==
  ASSUME NEW t \in Seq(Runs), NEW s \in Seq(Runs), NEW x \in Runs, IsLatest(t, s)
  PROVE  IsLatest(t, SubSeq(Append(s, x), 1, Len(Append(s, x)) - 1))
<1> DEFINE S == Append(s, x)
           F == SubSeq(S, 1, Len(S) - 1)
           l == Len(t)
           n == Len(s)
<1>1. l \in Nat /\ n \in Nat
  OBVIOUS
<1>2. S \in Seq(Runs) /\ Len(S) = n + 1 /\ \A i \in 1 .. n : S[i] = s[i]
  OBVIOUS
<1>3. Len(F) = n /\ \A i \in 1 .. n : F[i] = s[i]
  BY <1>1, <1>2
<1>4. /\ l = IF n < MAX_TURNS THEN n ELSE MAX_TURNS
      /\ \A i \in 1 .. l : t[i] = s[n - l + i]
  BY DEF IsLatest
<1>5. l <= n
  BY <1>1, <1>4, QuestionsAssumption
<1> HIDE DEF F, S, l, n
<1>6. ASSUME NEW i \in 1 .. l
      PROVE  t[i] = F[n - l + i]
  <2>1. n - l + i \in 1 .. n
    BY <1>1, <1>5
  <2> QED
    BY <1>3, <1>4, <2>1
<1>7. IsLatest(t, F)
  BY <1>3, <1>4, <1>6 DEF IsLatest, l
<1> QED
  BY <1>7 DEF F, S

\* A sequence is all but its last element, and that.
LEMMA FrontAndLast ==
  ASSUME NEW s \in Seq(Runs), s # <<>>
  PROVE  /\ SubSeq(s, 1, Len(s) - 1) \in Seq(Runs)
         /\ s = Append(SubSeq(s, 1, Len(s) - 1), s[Len(s)])
<1> DEFINE n == Len(s)
           F == SubSeq(s, 1, n - 1)
<1>1. n \in Nat /\ n >= 1 /\ s[n] \in Runs
  BY EmptySeq
<1>2. F \in Seq(Runs) /\ Len(F) = n - 1 /\ \A i \in 1 .. n - 1 : F[i] = s[i]
  <2>1. 1 \in Int /\ n - 1 \in Int /\ \A i \in 1 .. n - 1 : s[i] \in Runs
    BY <1>1
  <2>2. /\ F \in Seq(Runs)
        /\ Len(F) = IF 1 <= n - 1 THEN (n - 1) - 1 + 1 ELSE 0
        /\ \A i \in 1 .. (n - 1) - 1 + 1 : F[i] = s[1 + i - 1]
    BY <2>1, SubSeqProperties
  <2> HIDE DEF F, n
  <2>3. /\ (IF 1 <= n - 1 THEN (n - 1) - 1 + 1 ELSE 0) = n - 1
        /\ (n - 1) - 1 + 1 = n - 1
        /\ \A i \in 1 .. n - 1 : 1 + i - 1 = i
    BY <1>1
  <2>4. Len(F) = n - 1
    BY <2>2, <2>3
  <2>5. \A i \in 1 .. n - 1 : F[i] = s[i]
    BY <2>2, <2>3
  <2> QED
    BY <2>2, <2>4, <2>5
<1> HIDE DEF F
<1>3. Append(F, s[n]) \in Seq(Runs) /\ Len(Append(F, s[n])) = n
      /\ \A i \in 1 .. n : Append(F, s[n])[i] = s[i]
  BY <1>1, <1>2
<1>4. s = Append(F, s[n])
  BY <1>3, SeqEqual
<1> QED
  BY <1>2, <1>4 DEF F

\* Only a callback touches the conversation or a step of an append.
LEMMA OthersAppendNothing ==
  ASSUME TypeOK, AgentInv, ReportInv, [Next]_vars,
         ~ConversationSwept, \A k \in Reports : ~CallbackSteps(k)
  PROVE  /\ UNCHANGED <<seen, turns, answered, disturbed>>
         /\ Appending' = Appending
         /\ \A k \in Appending : report'[k] = report[k]
<1>1. ASSUME NEW r \in Requests, NEW kind \in Kinds, Finish(r, kind)
      PROVE  \A k \in Reports : \/ report'[k] = report[k]
                                \/ {report'[k], report[k]} \intersect {"read", "write"} = {}
  BY <1>1, FirstReport DEF Finish, Outcome, TypeOK, Kinds
<1>2. UNCHANGED <<seen, turns, answered, disturbed>>
  BY StepCases DEF PageStep, Submit, PutRequest, Invoke, MarkNotStarted, InvokeThrows,
     SubmitDies, AgentSteps, Agent, Start, Finish, ReportHeard, PostLost, ReportLost,
     Killed, DeliveredAgain, convVars, vars
<1>3. \/ UNCHANGED report
      \/ \E r \in Requests, kind \in Kinds : Finish(r, kind)
  BY StepCases DEF PageStep, Submit, PutRequest, Invoke, MarkNotStarted, InvokeThrows,
     SubmitDies, AgentSteps, Agent, Start, ReportHeard, PostLost, ReportLost, Unheard,
     Killed, DeliveredAgain, vars
<1>4. \A k \in Reports : \/ report'[k] = report[k]
                          \/ {report'[k], report[k]} \intersect {"read", "write"} = {}
  BY <1>1, <1>3
<1> QED
  BY <1>2, <1>4 DEF Appending

LEMMA AppendStep ==
  ASSUME Inv, AppendInv, [Next]_vars
  PROVE  AppendInv'
<1> USE DEF Inv
<1> SUFFICES ASSUME ~disturbed'
             PROVE  /\ \A j, k \in Appending' : j = k
                    /\ \A k \in Appending' :
                         /\ answered' # <<>> /\ answered'[Len(answered')] = k[1]
                         /\ report'[k] = "write" => seen'[k] = turns'
                    /\ HistoryIsRecent'
  BY DEF AppendInv
<1>0. answered \in Seq(Runs) /\ turns \in Seq(Runs) /\ disturbed \in BOOLEAN
  BY DEF TypeOK
<1>1. ASSUME ~ConversationSwept, \A k \in Reports : ~CallbackSteps(k)
      PROVE  AppendInv'
  <2>1. /\ UNCHANGED <<seen, turns, answered, disturbed>>
        /\ Appending' = Appending
        /\ \A k \in Appending : report'[k] = report[k]
    BY <1>1, OthersAppendNothing
  <2>2. HistoryIsRecent' <=> HistoryIsRecent
    BY <2>1 DEF HistoryIsRecent
  <2> QED
    BY <2>1, <2>2 DEF AppendInv
<1>2. CASE ConversationSwept
  <2>1. /\ turns' = <<>> /\ answered' = <<>> /\ Appending = {}
        /\ UNCHANGED <<report, disturbed>>
    BY <1>2 DEF ConversationSwept
  <2>2. Appending' = {}
    BY <2>1 DEF Appending
  <2>3. IsLatest(turns', answered')
    BY <2>1, QuestionsAssumption DEF IsLatest
  <2> QED
    BY <2>2, <2>3 DEF HistoryIsRecent
<1>3. ASSUME NEW k \in Reports, CallbackSteps(k)
      PROVE  /\ \A i, j \in Appending' : i = j
             /\ \A j \in Appending' :
                  /\ answered' # <<>> /\ answered'[Len(answered')] = j[1]
                  /\ report'[j] = "write" => seen'[j] = turns'
             /\ HistoryIsRecent'
  <2>1. ~disturbed /\ k[1] \in Runs
    BY <1>3, <1>0, Parts DEF CallbackSteps, Callback, SetComplete, ReadTurns, WriteTurns,
       MarkFailed, GetLags, ReadLags, CallbackDies, convVars
  <2>2. /\ \A i, j \in Appending : i = j
        /\ \A j \in Appending :
             /\ answered # <<>> /\ answered[Len(answered)] = j[1]
             /\ report[j] = "write" => seen[j] = turns
        /\ HistoryIsRecent
    BY <2>1 DEF AppendInv
  <2>3. CASE SetComplete(k)
    <3>1. /\ Appending = {} /\ answered' = Append(answered, k[1])
          /\ turns' = turns /\ report' = [report EXCEPT ![k] = "read"]
      BY <1>3, <2>3 DEF SetComplete, At
    <3>2. Appending' = {k} /\ report'[k] = "read"
      BY <3>1 DEF Appending, TypeOK
    <3>3. answered' # <<>> /\ answered'[Len(answered')] = k[1]
      BY <1>0, <2>1, <3>1
    <3>4. IsLatest(turns, answered)
      BY <2>1, <2>2, <3>1 DEF HistoryIsRecent
    <3>5. IsLatest(turns', SubSeq(answered', 1, Len(answered') - 1))
      BY <1>0, <2>1, <3>1, <3>4, ButLast
    <3> QED
      BY <3>2, <3>3, <3>5 DEF HistoryIsRecent
  <2>4. CASE ReadTurns(k)
    <3>1. /\ report' = [report EXCEPT ![k] = "write"] /\ report[k] = "read"
          /\ seen' = [seen EXCEPT ![k] = turns]
          /\ UNCHANGED <<turns, answered, disturbed>>
      BY <2>4 DEF ReadTurns, At, convVars
    <3>2. Appending' = Appending /\ k \in Appending
      BY <3>1 DEF Appending, TypeOK
    <3>3. seen'[k] = turns'
      BY <3>1 DEF TypeOK
    <3>4. HistoryIsRecent'
      BY <2>2, <3>1, <3>2 DEF HistoryIsRecent
    <3> QED
      BY <2>2, <3>1, <3>2, <3>3, <3>4
  <2>5. CASE WriteTurns(k)
    <3> DEFINE F == SubSeq(answered, 1, Len(answered) - 1)
    <3>1. /\ report[k] = "write" /\ report' = [report EXCEPT ![k] = "done"]
          /\ turns' = LastTurns(Append(seen[k], k[1]))
          /\ UNCHANGED <<answered, disturbed>>
      BY <2>5 DEF WriteTurns, At
    <3>2. k \in Appending /\ Appending = {k} /\ seen[k] = turns
          /\ answered # <<>> /\ answered[Len(answered)] = k[1]
      BY <2>2, <3>1 DEF Appending
    <3>3. Appending' = {}
      BY <3>1, <3>2 DEF Appending, TypeOK
    <3>4. F \in Seq(Runs) /\ answered = Append(F, k[1])
      BY <1>0, <3>2, FrontAndLast
    <3>5. IsLatest(turns, F)
      BY <2>1, <2>2, <3>2 DEF HistoryIsRecent
    <3> HIDE DEF F
    <3>6. IsLatest(LastTurns(Append(turns, k[1])), Append(F, k[1]))
      BY <1>0, <2>1, <3>4, <3>5, LatestNext
    <3>7. IsLatest(turns', answered')
      BY <3>1, <3>2, <3>4, <3>6
    <3> QED
      BY <3>3, <3>7 DEF HistoryIsRecent
  <2>6. CASE MarkFailed(k) \/ GetLags(k) \/ CallbackDies(k)
    <3>1. /\ report[k] \in {"complete", "fail"} /\ report' = [report EXCEPT ![k] = "done"]
          /\ UNCHANGED <<turns, answered, disturbed>>
          /\ \A j \in Reports : j # k => seen'[j] = seen[j]
      BY <2>1, <2>6 DEF MarkFailed, GetLags, CallbackDies, At, convVars, Appending, TypeOK
    <3>2. Appending' = Appending /\ k \notin Appending
          /\ \A j \in Appending : report'[j] = report[j] /\ seen'[j] = seen[j]
      BY <3>1 DEF Appending, TypeOK
    <3>3. HistoryIsRecent'
      BY <2>2, <3>1, <3>2 DEF HistoryIsRecent
    <3> QED
      BY <2>2, <3>1, <3>2, <3>3
  <2>7. ~ReadLags(k)
    BY DEF ReadLags
  <2> QED
    BY <1>3, <2>3, <2>4, <2>5, <2>6, <2>7 DEF CallbackSteps, Callback
<1> QED
  BY <1>1, <1>2, <1>3 DEF AppendInv

\* What the next prompt replays are the latest answers, in order, unless two
\* appends overlapped, or one read a lagging item or was cut off.
THEOREM ConversationIsRecent == Spec => []HistoryIsRecent
<1>1. Init => AppendInv
  BY QuestionsAssumption DEF Init, AppendInv, Appending, HistoryIsRecent, IsLatest
<1>2. AppendInv => HistoryIsRecent
  BY DEF AppendInv, HistoryIsRecent
<1> QED
  BY <1>1, <1>2, AppendStep, InitInv, InvStep, PTL DEF Spec
=============================================================================
