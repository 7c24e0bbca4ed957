--------------------------- MODULE QuestionDelivery ---------------------------
(***************************************************************************)
(* How one sample travels: the qa-agent posts its question to the          *)
(* cypher-generator-agent and its golden to the testing-agent, the         *)
(* generator reports a receipt and later the result of a run to the        *)
(* testing-agent.  Requests and answers are lost, posts are repeated, and  *)
(* both senders keep what they have not delivered in memory only.          *)
(*                                                                         *)
(* A dispatch is a request to the qa-agent that sends the sample: that of  *)
(* the job that released it (or its /dispatch), or a /redispatch of the    *)
(* sample, which counts the redispatches in a file.                        *)
(***************************************************************************)
EXTENDS Naturals, FiniteSets

CONSTANTS
  Dispatches,      \* requests to the qa-agent that send the sample
  Redispatches,    \* those of them that count against the limit
  Runs,            \* generation run ids
  NoRun,           \* no run
  PostAttempts,    \* tries of QADispatcher._post_with_retry
  SubmitAttempts,  \* max_submit_attempts of TestingAgentClient
  MaxRedispatches, \* max_attempts of SingleQARedispatchService
  MaxFaults,       \* bound: lost requests and lost answers
  MaxDeaths        \* bound: deaths of one of the two senders

ASSUME DeliveryAssumption ==
  /\ Redispatches \subseteq Dispatches
  /\ NoRun \notin Runs
  /\ {PostAttempts, SubmitAttempts} \subseteq Nat \ {0}
  /\ {MaxRedispatches, MaxFaults, MaxDeaths} \subseteq Nat

VARIABLES
  dispatch,  \* per dispatch: where it is, its current run, what it was told
  run,       \* per run: where it is in the generator, what its post was answered
  file,      \* the lines of the redispatch attempts file
  receipts,  \* runs whose question_received report the testing-agent holds
  reports,   \* runs whose submission or non-success report it holds
  golden,    \* does it hold the golden of the sample?
  faults, deaths

vars == <<dispatch, run, file, receipts, reports, golden, faults, deaths>>
world == <<faults, deaths>>
testing == <<receipts, reports, golden>>

Init ==
  /\ dispatch = [d \in Dispatches |->
       [pc |-> "idle", tries |-> 0, run |-> NoRun, question |-> "none", golden |-> "none"]]
  /\ run = [r \in Runs |-> [pc |-> "unused", tries |-> 0, answer |-> "none"]]
  /\ file = 0
  /\ receipts = {}
  /\ reports = {}
  /\ golden = FALSE
  /\ faults = 0
  /\ deaths = 0

Fault == faults < MaxFaults /\ faults' = faults + 1 /\ UNCHANGED deaths

-----------------------------------------------------------------------------
(* The qa-agent.                                                           *)

Move(d, pc) == dispatch' = [dispatch EXCEPT ![d].pc = pc]

\* The limit is read before the sample is sent and counted after it.  A sample
\* that is in no release file any more is refused too.
Begin(d) ==
  /\ dispatch[d].pc = "idle"
  /\ \/ (d \in Redispatches => file < MaxRedispatches) /\ Move(d, "question")
     \/ d \in Redispatches /\ Move(d, "refused")
  /\ UNCHANGED <<run, file, testing, world>>

\* A variant: one try too many.
TriedOnceMore(old, field, next) ==
  IF old.tries < PostAttempts
  THEN [old EXCEPT !.tries = old.tries + 1, !.pc = field]
  ELSE [old EXCEPT !.tries = 0, !.pc = next, ![field] = "failed"]

\* What follows a try that was not answered with success: another, or the next post.
TriedAgain(old, field, next) ==
  IF old.tries + 1 < PostAttempts
  THEN [old EXCEPT !.tries = old.tries + 1, !.pc = field]
  ELSE [old EXCEPT !.tries = 0, !.pc = next, ![field] = "failed"]

Retried(d, field, next) ==
  dispatch' = [dispatch EXCEPT ![d] = TriedAgain(dispatch[d], field, next)]

Delivered(old, field, next) ==
  [pc |-> next, tries |-> 0, run |-> old.run,
   question |-> IF field = "question" THEN "ok" ELSE old.question,
   golden |-> IF field = "golden" THEN "ok" ELSE old.golden]

Succeeded(d, field, next) ==
  dispatch' = [dispatch EXCEPT ![d] = Delivered(dispatch[d], field, next)]

\* The question reaches the generator, which gives it a run id of its own.
PostQuestion(d, r) ==
  /\ dispatch[d].pc = "question"
  /\ run[r].pc = "unused"
  /\ dispatch' = [dispatch EXCEPT ![d].pc = "asking", ![d].run = r]
  /\ run' = [run EXCEPT ![r].pc = "receiving"]
  /\ UNCHANGED <<file, testing, world>>

LoseQuestion(d) ==
  /\ dispatch[d].pc = "question"
  /\ Fault
  /\ Retried(d, "question", "golden")
  /\ UNCHANGED <<run, file, testing>>

\* A variant: an error answer counts as delivered.
QuestionAnsweredAnyhow(d) ==
  /\ dispatch[d].pc = "asking"
  /\ run[dispatch[d].run].answer # "none"
  /\ Succeeded(d, "question", "golden")
  /\ UNCHANGED <<run, file, testing, world>>

QuestionAnswered(d) ==
  /\ dispatch[d].pc = "asking"
  /\ \/ run[dispatch[d].run].answer = "ok" /\ Succeeded(d, "question", "golden")
     \/ run[dispatch[d].run].answer = "error" /\ Retried(d, "question", "golden")
  /\ UNCHANGED <<run, file, testing, world>>

\* The answer is lost, or comes after the client gave up waiting for it.
QuestionUnanswered(d) ==
  /\ dispatch[d].pc = "asking"
  /\ Fault
  /\ Retried(d, "question", "golden")
  /\ UNCHANGED <<run, file, testing>>

\* The golden is posted whatever became of the question.
PostGolden(d) ==
  /\ dispatch[d].pc = "golden"
  /\ Succeeded(d, "golden", "count")
  /\ golden' = TRUE
  /\ UNCHANGED <<run, file, receipts, reports, world>>

LoseGolden(d) ==
  /\ dispatch[d].pc = "golden"
  /\ Fault
  /\ golden' \in {golden, TRUE}
  /\ Retried(d, "golden", "count")
  /\ UNCHANGED <<run, file, receipts, reports>>

Finish(d) ==
  /\ dispatch[d].pc = "count"
  /\ Move(d, "done")
  /\ file' = IF d \in Redispatches THEN file + 1 ELSE file
  /\ UNCHANGED <<run, testing, world>>

-----------------------------------------------------------------------------
(* The cypher-generator-agent.                                             *)

\* A post to the testing-agent was not acknowledged: again, or give up.
SubmittedAgain(old, next, answer) ==
  IF old.tries + 1 < SubmitAttempts
  THEN [old EXCEPT !.tries = old.tries + 1]
  ELSE [old EXCEPT !.tries = 0, !.pc = next, !.answer = answer]

Unacknowledged(r, next, answer) ==
  run' = [run EXCEPT ![r] = SubmittedAgain(run[r], next, answer)]

\* A variant: the question is answered before the receipt is reported.
SubmitReceiptLater(r) ==
  /\ run[r].pc = "receiving"
  /\ run' = [run EXCEPT ![r] = [pc |-> "accepted", tries |-> 0, answer |-> "ok"]]
  /\ UNCHANGED <<dispatch, file, testing, world>>

\* The receipt is acknowledged before the question is answered with 204.
SubmitReceipt(r) ==
  /\ run[r].pc = "receiving"
  /\ receipts' = receipts \cup {r}
  /\ run' = [run EXCEPT ![r] = [pc |-> "accepted", tries |-> 0, answer |-> "ok"]]
  /\ UNCHANGED <<dispatch, file, reports, golden, world>>

LoseReceipt(r) ==
  /\ run[r].pc = "receiving"
  /\ Fault
  /\ receipts' \in {receipts, receipts \cup {r}}
  /\ Unacknowledged(r, "refused", "error")
  /\ UNCHANGED <<dispatch, file, reports, golden>>

\* The background task runs the pipeline in a thread.
Generate(r) ==
  /\ run[r].pc = "accepted"
  /\ run' = [run EXCEPT ![r].pc = "submitting"]
  /\ UNCHANGED <<dispatch, file, testing, world>>

SubmitReport(r) ==
  /\ run[r].pc = "submitting"
  /\ reports' = reports \cup {r}
  /\ run' = [run EXCEPT ![r] = [pc |-> "reported", tries |-> 0, answer |-> "ok"]]
  /\ UNCHANGED <<dispatch, file, receipts, golden, world>>

\* A variant: a report that was not acknowledged is not posted again.
LoseReportOnce(r) ==
  /\ run[r].pc = "submitting"
  /\ Fault
  /\ reports' \in {reports, reports \cup {r}}
  /\ run' = [run EXCEPT ![r].pc = "lost"]
  /\ UNCHANGED <<dispatch, file, receipts, golden>>

\* After the last try the task raises and the report is gone.
LoseReport(r) ==
  /\ run[r].pc = "submitting"
  /\ Fault
  /\ reports' \in {reports, reports \cup {r}}
  /\ Unacknowledged(r, "lost", "ok")
  /\ UNCHANGED <<dispatch, file, receipts, golden>>

-----------------------------------------------------------------------------
(* Deaths.                                                                 *)

Active == {"receiving", "accepted", "submitting"}

\* A connection that breaks is an error to the one who waits for the answer.
GeneratorDies ==
  /\ deaths < MaxDeaths
  /\ deaths' = deaths + 1
  /\ \E r \in Runs : run[r].pc \in Active
  /\ run' = [r \in Runs |->
       IF run[r].pc \in Active
       THEN [run[r] EXCEPT !.pc = "lost",
                           !.answer = IF run[r].answer = "none" THEN "error" ELSE run[r].answer]
       ELSE run[r]]
  /\ UNCHANGED <<dispatch, file, testing, faults>>

QaAgentDies ==
  /\ deaths < MaxDeaths
  /\ deaths' = deaths + 1
  /\ dispatch' = [d \in Dispatches |->
       IF dispatch[d].pc \in {"question", "asking", "golden", "count"}
       THEN [dispatch[d] EXCEPT !.pc = "gone"] ELSE dispatch[d]]
  /\ dispatch' # dispatch
  /\ UNCHANGED <<run, file, testing, faults>>

-----------------------------------------------------------------------------
QaAgent(d) ==
  \/ Begin(d) \/ (\E r \in Runs : PostQuestion(d, r)) \/ LoseQuestion(d)
  \/ QuestionAnswered(d) \/ QuestionUnanswered(d) \/ PostGolden(d) \/ LoseGolden(d) \/ Finish(d)

Generator(r) ==
  SubmitReceipt(r) \/ LoseReceipt(r) \/ Generate(r) \/ SubmitReport(r) \/ LoseReport(r)

Next ==
  \/ \E d \in Dispatches : QaAgent(d)
  \/ \E r \in Runs : Generator(r)
  \/ GeneratorDies
  \/ QaAgentDies

Spec == Init /\ [][Next]_vars

\* Threads and tasks of a live process go on; nothing makes a process die or
\* a message get lost.
Fairness ==
  /\ \A d \in Dispatches : WF_vars(QaAgent(d))
  /\ \A r \in Runs : WF_vars(Generator(r))

FairSpec == Spec /\ Fairness

-----------------------------------------------------------------------------
(* Properties.                                                             *)

Stages == {"idle", "question", "asking", "golden", "count", "done", "refused", "gone"}

\* Every dispatch, every run and the testing-agent's records have their type.
TypeOK ==
  /\ dispatch \in [Dispatches ->
       [pc : Stages, tries : 0..(PostAttempts - 1), run : Runs \cup {NoRun},
        question : {"none", "ok", "failed"}, golden : {"none", "ok", "failed"}]]
  /\ run \in [Runs ->
       [pc : Active \cup {"unused", "refused", "reported", "lost"},
        tries : 0..(SubmitAttempts - 1), answer : {"none", "ok", "error"}]]
  /\ file \in Nat
  /\ receipts \subseteq Runs
  /\ reports \subseteq Runs
  /\ golden \in BOOLEAN
  /\ faults \in 0..MaxFaults
  /\ deaths \in 0..MaxDeaths

\* What the qa-agent records as delivered has arrived at the testing-agent:
\* the question as a receipt by way of the generator, the golden itself.
DeliveredIsReceived ==
  \A d \in Dispatches :
    /\ dispatch[d].question = "ok" => dispatch[d].run \in receipts
    /\ dispatch[d].golden = "ok" => golden

\* The testing-agent never gets the result of a run before its receipt.
ReportFollowsReceipt == reports \subseteq receipts

\* A run that ends up nowhere, neither reported nor refused, takes a death or
\* as many lost posts as there are tries (_submit_with_retries).
LossNeedsFaults ==
  (\E r \in Runs : run[r].pc = "lost") => deaths > 0 \/ faults >= SubmitAttempts

\* Every run whose question was accepted is reported in the end, unless as
\* many posts are lost as there are tries or the generator dies
\* (the background task of ingest_question; there is no outbox behind it).
ReceivedIsReported ==
  \A r \in Runs : run[r].pc = "accepted" ~> r \in reports \/ deaths > 0 \/ faults >= SubmitAttempts

\* Every dispatch ends, delivered or not, or is refused for the limit, however many posts
\* are lost, unless the qa-agent dies during it.
DispatchesEnd == \A d \in Dispatches : <>(dispatch[d].pc \in {"done", "refused", "gone"})

\* The test: the redispatch after the last allowed one is refused.
RedispatchLimit ==
  Cardinality({d \in Redispatches : dispatch[d].pc \notin {"idle", "refused"}})
    <= MaxRedispatches

\* Both ends come to an end: the dispatch, and the run it began.
DeliveryEnds == DispatchesEnd /\ ReceivedIsReported
=============================================================================
