------------------------------ MODULE Questions ------------------------------
(***************************************************************************)
(* How a question of the report page is answered: the page (aiFrontEnd)    *)
(* submits it and polls, aiProcessQuestions stores a request item and      *)
(* invokes the agent Lambda asynchronously, the agent (reportEngine)       *)
(* answers and posts its outcome back, and aiProcessQuestions records the  *)
(* outcome and appends the turn to the conversation of the thread.         *)
(*                                                                         *)
(* The module is about one thread (sessionId) of the page; threads share   *)
(* nothing but the request table, whose keys are their own.                *)
(***************************************************************************)
EXTENDS Naturals, Sequences

CONSTANTS
  NumQuestions,          \* bound: what the user asks in the thread, in order
  MAX_QUESTION_ATTEMPTS, \* submissions of one question by the page
  MAX_TURNS,             \* turns a conversation keeps
  MaxRuns,               \* times Lambda starts one asynchronous event
  MaxMishaps,            \* bound: lost answers, kills, slow runs, lagging reads, reloads of the
                         \* page and sweeps of the idle thread
  NoItem, NoAnswer

\* A submission makes a request of its own (requestId), and Lambda may start
\* the agent more than once for it: an answer is named by its run.
Questions == 1 .. NumQuestions
Attempts == 1 .. MAX_QUESTION_ATTEMPTS
Requests == Questions \X Attempts
Runs == Requests \X (1 .. MaxRuns)
Kinds == {"complete", "fail"}
Reports == Runs \X Kinds

Item == [status : {"processing", "complete", "failed"},
         answer : Runs \union {NoAnswer}]

ASSUME QuestionsAssumption ==
  /\ NumQuestions \in Nat
  /\ MAX_QUESTION_ATTEMPTS \in Nat \ {0}
  /\ MAX_TURNS \in Nat \ {0}
  /\ MaxRuns \in Nat \ {0}
  /\ MaxMishaps \in Nat
  /\ NoItem \notin Item
  /\ NoAnswer \notin Runs

VARIABLES
  ask,      \* ask[q]: what the page does about the question
  try,      \* try[q]: which submission of it the page is at
  shown,    \* shown[q]: the answer in the bubble
  sub,      \* sub[r]: the next step of the invocation that handles the POST
  item,     \* item[r]: the item of the request table
  agent,    \* agent[r]: the asynchronous event and its current run
  runs,     \* runs[r]: how often the agent was started for it
  again,    \* again[r]: kills and repeated deliveries of the event
  report,   \* report[k]: the next step of the invocation that handles a callback
  seen,     \* seen[k]: the turns appendTurn has read
  turns,    \* the conversation item
  earlier,  \* what the item was before: a replica may still show it
  answered, \* the answers recorded since the conversation began, in order
  disturbed,\* two appends overlapped, or one read a lagging item or died
  faults,   \* faults so far
  absences  \* reloads and sweeps so far

pageVars  == <<ask, try, shown>>
agentVars == <<agent, runs, again>>
convVars  == <<turns, earlier, answered, disturbed>>
faultVars == <<faults, absences>>
vars == <<pageVars, sub, item, agentVars, report, seen, convVars, faultVars>>

TypeOK ==
  /\ ask \in [Questions -> {"new", "submitting", "polling", "answered",
                            "error", "abandoned"}]
  /\ try \in [Questions -> Attempts]
  /\ shown \in [Questions -> Runs \union {NoAnswer}]
  /\ sub \in [Requests -> {"unsent", "put", "invoke", "mark",
                           "accepted", "refused", "dead"}]
  /\ item \in [Requests -> Item \union {NoItem}]
  /\ agent \in [Requests -> {"none", "queued", "running", "reporting",
                             "over", "dropped"}]
  /\ runs \in [Requests -> 0 .. MaxRuns]
  /\ again \in [Requests -> Nat]
  /\ report \in [Reports -> {"unsent", "complete", "fail", "read", "write",
                             "done"}]
  /\ seen \in [Reports -> Seq(Runs)]
  /\ turns \in Seq(Runs)
  /\ earlier \subseteq Seq(Runs)
  /\ answered \in Seq(Runs)
  /\ disturbed \in BOOLEAN
  /\ faults \in 0 .. MaxMishaps
  /\ absences \in 0 .. MaxMishaps

Init ==
  /\ ask = [q \in Questions |-> "new"]
  /\ try = [q \in Questions |-> 1]
  /\ shown = [q \in Questions |-> NoAnswer]
  /\ sub = [r \in Requests |-> "unsent"]
  /\ item = [r \in Requests |-> NoItem]
  /\ agent = [r \in Requests |-> "none"]
  /\ runs = [r \in Requests |-> 0]
  /\ again = [r \in Requests |-> 0]
  /\ report = [k \in Reports |-> "unsent"]
  /\ seen = [k \in Reports |-> <<>>]
  /\ turns = <<>>
  /\ earlier = {}
  /\ answered = <<>>
  /\ disturbed = FALSE
  /\ faults = 0
  /\ absences = 0

Fault == faults + absences < MaxMishaps /\ faults' = faults + 1 /\ UNCHANGED absences
Absence == faults + absences < MaxMishaps /\ absences' = absences + 1 /\ UNCHANGED faults

-----------------------------------------------------------------------------
(* The page. While it waits for one question its form is disabled.          *)

IsProcessing(i) == i # NoItem /\ i.status = "processing"
Waiting(q) == ask[q] \in {"submitting", "polling"}
Current(q) == <<q, try[q]>>

Ask(q) ==
  /\ ask[q] = "new"
  /\ \A p \in Questions : ~Waiting(p) /\ (p < q => ask[p] # "new")
  /\ ask' = [ask EXCEPT ![q] = "submitting"]
  /\ sub' = [sub EXCEPT ![Current(q)] = "put"]
  /\ UNCHANGED <<try, shown, item, agentVars, report, seen, convVars, faultVars>>

\* The catch clause of submitQuestion: the question is submitted afresh, or
\* after the last attempt the bubble shows the error.
AttemptFails(q) ==
  IF try[q] < MAX_QUESTION_ATTEMPTS
  THEN /\ try' = [try EXCEPT ![q] = @ + 1]
       /\ ask' = [ask EXCEPT ![q] = "submitting"]
       /\ sub' = [sub EXCEPT ![<<q, try[q] + 1>>] = "put"]
       /\ UNCHANGED shown
  ELSE /\ ask' = [ask EXCEPT ![q] = "error"]
       /\ UNCHANGED <<try, sub, shown>>

otherThanPage == <<item, agentVars, report, seen, convVars>>

\* The POST is answered: 202, or an error.
Accepted(q) ==
  /\ ask[q] = "submitting"
  /\ sub[Current(q)] = "accepted"
  /\ ask' = [ask EXCEPT ![q] = "polling"]
  /\ UNCHANGED <<try, shown, sub, otherThanPage, faultVars>>

Refused(q) ==
  /\ ask[q] = "submitting"
  /\ sub[Current(q)] \in {"refused", "dead"}
  /\ AttemptFails(q)
  /\ UNCHANGED <<otherThanPage, faultVars>>

\* getStatus, a consistent read, as pollForAnswer takes its answer.
PollComplete(q) ==
  LET i == item[Current(q)] IN
  /\ ask[q] = "polling"
  /\ i # NoItem
  /\ i.status = "complete"
  /\ shown' = [shown EXCEPT ![q] = i.answer]
  /\ ask' = [ask EXCEPT ![q] = "answered"]
  /\ UNCHANGED <<try, sub, otherThanPage, faultVars>>

PollFailed(q) ==
  LET i == item[Current(q)] IN
  /\ ask[q] = "polling"
  /\ i = NoItem \/ i.status = "failed"
  /\ AttemptFails(q)
  /\ UNCHANGED <<otherThanPage, faultVars>>

\* Faulty variant of TooLong: the page polls without end.
PollsWithoutEnd(q) == ask[q] = "polling" /\ FALSE

\* 120 polls, two seconds apart, and still "processing": nobody works on the
\* request any more ...
AtWork(r) ==
  \/ agent[r] \in {"queued", "running", "reporting"}
  \/ \E k \in Reports : k[1][1] = r /\ report[k] \notin {"unsent", "done"}

TooLong(q) ==
  /\ ask[q] = "polling"
  /\ IsProcessing(item[Current(q)])
  /\ ~AtWork(Current(q))
  /\ AttemptFails(q)
  /\ UNCHANGED <<otherThanPage, faultVars>>

\* ... or the agent is slow, and goes on.
TooSlow(q) ==
  /\ ask[q] = "polling"
  /\ IsProcessing(item[Current(q)])
  /\ AtWork(Current(q))
  /\ Fault
  /\ AttemptFails(q)
  /\ UNCHANGED otherThanPage

\* A fetch of the page fails, whatever became of the request.
PageFetchFails(q) ==
  /\ Waiting(q)
  /\ Fault
  /\ AttemptFails(q)
  /\ UNCHANGED otherThanPage

\* The page is reloaded: requestId is not stored, so the turn stays without
\* an answer and the next question may be asked.
Reload(q) ==
  /\ Waiting(q)
  /\ Absence
  /\ ask' = [ask EXCEPT ![q] = "abandoned"]
  /\ UNCHANGED <<try, shown, sub, otherThanPage>>

-----------------------------------------------------------------------------
(* submitQuestion of aiProcessQuestions.                                     *)

\* markFailed: an UpdateItem without a condition.
Failed(i) == [status |-> "failed",
              answer |-> IF i = NoItem THEN NoAnswer ELSE i.answer]

PutRequest(r) ==
  /\ sub[r] = "put"
  /\ item' = [item EXCEPT ![r] = [status |-> "processing", answer |-> NoAnswer]]
  /\ sub' = [sub EXCEPT ![r] = "invoke"]
  /\ UNCHANGED <<pageVars, agentVars, report, seen, convVars, faultVars>>

\* The asynchronous invocation is queued ...
Invoke(r) ==
  /\ sub[r] = "invoke"
  /\ agent' = [agent EXCEPT ![r] = "queued"]
  /\ sub' = [sub EXCEPT ![r] = "accepted"]
  /\ UNCHANGED <<pageVars, item, runs, again, report, seen, convVars, faultVars>>

\* ... or throws, and then it may be queued all the same.
InvokeThrows(r) ==
  /\ sub[r] = "invoke"
  /\ Fault
  /\ agent' \in {agent, [agent EXCEPT ![r] = "queued"]}
  /\ sub' = [sub EXCEPT ![r] = "mark"]
  /\ UNCHANGED <<pageVars, item, runs, again, report, seen, convVars>>

MarkNotStarted(r) ==
  /\ sub[r] = "mark"
  /\ item' = [item EXCEPT ![r] = Failed(@)]
  /\ sub' = [sub EXCEPT ![r] = "refused"]
  /\ UNCHANGED <<pageVars, agentVars, report, seen, convVars, faultVars>>

\* A call to DynamoDB throws, or the Lambda times out.
SubmitDies(r) ==
  /\ sub[r] \in {"put", "invoke", "mark"}
  /\ Fault
  /\ sub' = [sub EXCEPT ![r] = "dead"]
  /\ UNCHANGED <<pageVars, item, agentVars, report, seen, convVars>>

-----------------------------------------------------------------------------
(* handleRunAgent of the agent Lambda.                                       *)

ThisRun(r) == <<r, runs[r]>>

Start(r) ==
  /\ agent[r] = "queued"
  /\ runs[r] < MaxRuns
  /\ agent' = [agent EXCEPT ![r] = "running"]
  /\ runs' = [runs EXCEPT ![r] = @ + 1]
  /\ UNCHANGED <<pageVars, sub, item, again, report, seen, convVars, faultVars>>

\* Lambda gives an event whose run did not end well to another run, MaxRuns
\* runs in all.
Requeued(r) ==
  agent' = [agent EXCEPT ![r] = IF runs[r] < MaxRuns THEN "queued" ELSE "dropped"]

\* Faulty variant of Outcome: an error escapes handleRunAgent.
OutcomeEscapes(r, kind) ==
  IF kind = "fail"
  THEN Requeued(r) /\ UNCHANGED report
  ELSE /\ agent' = [agent EXCEPT ![r] = "reporting"]
       /\ report' = [report EXCEPT ![<<ThisRun(r), kind>>] = kind]

\* runAgent returns an answer, or throws: the model or DuckDB failed, or it
\* spent its MAX_AGENT_ITERATIONS. Either way the outcome is posted.
Outcome(r, kind) ==
  /\ agent' = [agent EXCEPT ![r] = "reporting"]
  /\ report' = [report EXCEPT ![<<ThisRun(r), kind>>] = kind]

Finish(r, kind) ==
  /\ agent[r] = "running"
  /\ Outcome(r, kind)
  /\ UNCHANGED <<pageVars, sub, item, runs, again, seen, convVars, faultVars>>

\* The POST never reaches aiProcessQuestions: reportOutcome swallows it.
PostLost(r) ==
  /\ agent[r] = "running"
  /\ Fault
  /\ agent' = [agent EXCEPT ![r] = "over"]
  /\ UNCHANGED <<pageVars, sub, item, runs, again, report, seen, convVars>>

\* Faulty variant of Unheard: reportOutcome throws, so an answer whose reply
\* was lost is taken for a failure and reported as one.
UnheardThrows(r) ==
  IF report[<<ThisRun(r), "complete">>] # "unsent"
       /\ report[<<ThisRun(r), "fail">>] = "unsent"
  THEN /\ report' = [report EXCEPT ![<<ThisRun(r), "fail">>] = "fail"]
       /\ UNCHANGED agent
  ELSE /\ agent' = [agent EXCEPT ![r] = "over"]
       /\ UNCHANGED report

\* reportOutcome logs an answer that is not ok, or no answer at all, and
\* returns.
Unheard(r) ==
  /\ agent' = [agent EXCEPT ![r] = "over"]
  /\ UNCHANGED report

ReportLost(r) ==
  /\ agent[r] = "reporting"
  /\ Fault
  /\ Unheard(r)
  /\ UNCHANGED <<pageVars, sub, item, runs, again, seen, convVars>>

ReportHeard(r) ==
  /\ agent[r] = "reporting"
  /\ \E kind \in Kinds : report[<<ThisRun(r), kind>>] = "done"
  /\ agent' = [agent EXCEPT ![r] = "over"]
  /\ UNCHANGED <<pageVars, sub, item, runs, again, report, seen, convVars, faultVars>>

\* The run is killed (15 minutes, memory), before or after it reported.
Killed(r) ==
  /\ agent[r] \in {"running", "reporting"}
  /\ Fault
  /\ Requeued(r)
  /\ again' = [again EXCEPT ![r] = @ + 1]
  /\ UNCHANGED <<pageVars, sub, item, runs, report, seen, convVars>>

\* Lambda delivers an event at least once.
DeliveredAgain(r) ==
  /\ agent[r] = "over"
  /\ runs[r] < MaxRuns
  /\ Fault
  /\ agent' = [agent EXCEPT ![r] = "queued"]
  /\ again' = [again EXCEPT ![r] = @ + 1]
  /\ UNCHANGED <<pageVars, sub, item, runs, report, seen, convVars>>

-----------------------------------------------------------------------------
(* completeRequest and failRequest of aiProcessQuestions.                    *)

RequestOf(k) == k[1][1]
At(k, step) == report' = [report EXCEPT ![k] = step]
Appending == {k \in Reports : report[k] \in {"read", "write"}}

\* completeRequest reads the item for its session and question, and then only
\* an item that is still there becomes complete. From here on the page can
\* see the answer, and the turn is not in the conversation yet. (Nothing
\* removes an item for 24 hours, so the read and the write are one step.)
SetComplete(k) ==
  /\ report[k] = "complete"
  /\ item[RequestOf(k)] # NoItem
  /\ item' = [item EXCEPT ![RequestOf(k)] =
                [status |-> "complete", answer |-> k[1]]]
  /\ At(k, "read")
  /\ answered' = Append(answered, k[1])
  /\ disturbed' = (disturbed \/ Appending # {})
  /\ UNCHANGED <<pageVars, sub, agentVars, seen, turns, earlier, faultVars>>

\* A lagging replica does not have the item yet: the callback ends with 404.
GetLags(k) ==
  /\ report[k] = "complete"
  /\ Fault
  /\ At(k, "done")
  /\ UNCHANGED <<pageVars, sub, item, agentVars, seen, convVars>>

\* getConversation asks for no consistent read: it may see the last write ...
ReadTurns(k) ==
  /\ report[k] = "read"
  /\ seen' = [seen EXCEPT ![k] = turns]
  /\ At(k, "write")
  /\ UNCHANGED <<pageVars, sub, item, agentVars, convVars, faultVars>>

\* ... or what a lagging replica shows, an item that was written over. The
\* append then undoes the writes in between.
ReadLags(k) ==
  /\ report[k] = "read"
  /\ Fault
  /\ \E older \in earlier \ {turns} : seen' = [seen EXCEPT ![k] = older]
  /\ At(k, "write")
  /\ disturbed' = TRUE
  /\ UNCHANGED <<pageVars, sub, item, agentVars, turns, earlier, answered>>

\* Faulty variant of LastTurns: the oldest turns are kept.
FirstTurns(s) == IF Len(s) > MAX_TURNS THEN SubSeq(s, 1, MAX_TURNS) ELSE s

\* slice(-MAX_TURNS).
LastTurns(s) ==
  IF Len(s) > MAX_TURNS THEN SubSeq(s, Len(s) - MAX_TURNS + 1, Len(s)) ELSE s

WriteTurns(k) ==
  /\ report[k] = "write"
  /\ turns' = LastTurns(Append(seen[k], k[1]))
  /\ earlier' = earlier \union {turns}
  /\ At(k, "done")
  /\ seen' = [seen EXCEPT ![k] = <<>>]
  /\ UNCHANGED <<pageVars, sub, item, agentVars, answered, disturbed, faultVars>>

\* failRequest: whatever the item says by now.
MarkFailed(k) ==
  /\ report[k] = "fail"
  /\ item' = [item EXCEPT ![RequestOf(k)] = Failed(@)]
  /\ At(k, "done")
  /\ UNCHANGED <<pageVars, sub, agentVars, seen, convVars, faultVars>>

\* A call to DynamoDB throws or the Lambda times out. When it happens in
\* appendTurn the turn is lost and the callback still answers 200.
CallbackDies(k) ==
  /\ report[k] \in {"complete", "read", "write", "fail"}
  /\ Fault
  /\ At(k, "done")
  /\ seen' = [seen EXCEPT ![k] = <<>>]
  /\ disturbed' = (disturbed \/ k \in Appending)
  /\ UNCHANGED <<pageVars, sub, item, agentVars, turns, earlier, answered>>

\* conversationExpiresAt: four idle hours, far longer than a page waits or an
\* append takes.
ConversationSwept ==
  /\ turns # <<>>
  /\ Absence
  /\ Appending = {}
  /\ \A q \in Questions : ~Waiting(q)
  /\ turns' = <<>>
  /\ earlier' = earlier \union {turns}
  /\ answered' = <<>>
  /\ UNCHANGED <<pageVars, sub, item, agentVars, report, seen, disturbed>>

-----------------------------------------------------------------------------
Page(q) ==
  Accepted(q) \/ Refused(q) \/ PollComplete(q) \/ PollFailed(q) \/ TooLong(q)

Submit(r) == PutRequest(r) \/ Invoke(r) \/ MarkNotStarted(r)

Agent(r) ==
  Start(r) \/ (\E kind \in Kinds : Finish(r, kind)) \/ ReportHeard(r)

Callback(k) ==
  SetComplete(k) \/ ReadTurns(k) \/ WriteTurns(k) \/ MarkFailed(k)

Next ==
  \/ \E q \in Questions : Ask(q) \/ Page(q) \/ TooSlow(q)
                             \/ PageFetchFails(q) \/ Reload(q)
  \/ \E r \in Requests : Submit(r) \/ InvokeThrows(r) \/ SubmitDies(r)
  \/ \E r \in Requests : Agent(r) \/ PostLost(r) \/ ReportLost(r)
                           \/ Killed(r) \/ DeliveredAgain(r)
  \/ \E k \in Reports : Callback(k) \/ GetLags(k) \/ ReadLags(k) \/ CallbackDies(k)
  \/ ConversationSwept

Spec == Init /\ [][Next]_vars

\* Lambda runs what was invoked, and the page goes on polling until it is
\* answered, gives up or is reloaded. There is only so much work of each kind,
\* so that fairness of all of it together is enough.
Fairness ==
  /\ WF_vars(\E q \in Questions : Page(q))
  /\ WF_vars(\E r \in Requests : Submit(r) \/ Agent(r))
  /\ WF_vars(\E k \in Reports : Callback(k))

FairSpec == Spec /\ Fairness

-----------------------------------------------------------------------------
(* Properties. *)

\* An invocation that aiProcessQuestions gave up, and that was queued.
StartedInDoubt(r) == sub[r] \in {"mark", "refused"} /\ agent[r] # "none"

\* An answer stays an answer: a request that is complete changes again only
\* if Lambda ran its event once more, or if the invocation had been given up.
\* In particular an answer whose callback got no reply is never reported as a
\* failure afterwards.
AnswersStand ==
  [][\A r \in Requests :
       item[r] # NoItem /\ item[r].status = "complete" =>
         \/ item'[r] = item[r]
         \/ again[r] > 0
         \/ StartedInDoubt(r)]_vars

Reported(r) == {k \in Reports : RequestOf(k) = r /\ report[k] # "unsent"}

\* "An uncaught throw here would make Lambda retry ... and could
\* double-answer or double-bill": the agent loop is run again only when
\* Lambda killed a run or repeated a delivery, and a run reports one outcome.
OneRunPerDelivery ==
  \A r \in Requests :
    /\ runs[r] <= 1 + again[r]
    /\ \A j, k \in Reported(r) : j[1] = k[1] => j = k

\* t is the end of s, MAX_TURNS long unless s is shorter.
IsLatest(t, s) ==
  /\ Len(t) = IF Len(s) < MAX_TURNS THEN Len(s) ELSE MAX_TURNS
  /\ \A n \in 1 .. Len(t) : t[n] = s[Len(s) - Len(t) + n]

\* The turns the next prompt will replay are the latest answers, in order,
\* but for the one whose callback is between its two writes - unless two
\* appends overlapped, or one of them read an item that lagged or was cut off.
HistoryIsRecent ==
  ~disturbed =>
    IF Appending = {}
    THEN IsLatest(turns, answered)
    ELSE IsLatest(turns, SubSeq(answered, 1, Len(answered) - 1))

\* Every question comes to an end on the page: its attempts and its polls are
\* bounded, whatever is lost.
QuestionsSettle == []<>(\A q \in Questions : ~Waiting(q))

\* When nothing is lost, every request that was stored gets its outcome.
RequestsSettle ==
  []<>(faults > 0 \/ \A r \in Requests : ~IsProcessing(item[r]))
=============================================================================
