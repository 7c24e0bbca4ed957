---------------------------- MODULE TestingAgent ----------------------------
(***************************************************************************)
(* The testing-agent: it receives golden answers from the qa-agent and     *)
(* generated Cypher (or generation failures) from the                      *)
(* cypher-generator-agent in any order, numbers the attempts, and          *)
(* evaluates every attempt in a background task of one asyncio event loop. *)
(*                                                                         *)
(* A handler or a task runs without interruption between two awaits, so an *)
(* action is the code between two awaits - except that the run of writes   *)
(* that ends an evaluation is cut at every saved mutation, because the     *)
(* process can die between any two of them.  While a task is in that run   *)
(* (Saving) the loop is not free and nothing else happens but death.       *)
(***************************************************************************)
EXTENDS Naturals, Sequences, FiniteSets

CONSTANTS
  Ids,          \* QA sample ids
  Runs,         \* generation_run_ids
  Contents,     \* contents of a generated submission (question, cypher, snapshot)
  Grammatical,  \* the contents whose cypher the grammar checker accepts
  Goldens,      \* contents of a golden (cypher, answer, difficulty)
  Reported,     \* the non-success statuses the generator reports
  Announced,    \* the runs that report the question before they generate
  None,         \* no value
  MaxAttempts,  \* bound: attempts per id
  MaxSlots,     \* bound: asyncio tasks alive at once for one attempt
  MaxCrashes,   \* bound: deaths of the process
  MaxFaults,    \* bound: calls to the LLM that raise
  TornWrites    \* may the process die between the two files of one mutation?

ASSUME TestingAssumption ==
  /\ Grammatical \subseteq Contents
  /\ Announced \subseteq Runs
  /\ None \notin Goldens \cup Contents \cup Runs
  /\ MaxAttempts \in Nat /\ MaxSlots \in Nat \ {0}
  /\ MaxCrashes \in Nat /\ MaxFaults \in Nat
  /\ TornWrites \in BOOLEAN

VARIABLES
  golden,      \* goldens/{id}.json
  receipt,     \* question_receipts/{id}.json: the run that reported the question
  attempts,    \* submission_attempts/{id}__attempt_{n}.json
  latest,      \* submissions/{id}.json
  failures,    \* generation_failures/{id}__{run}.json: the reported status
  tickets,     \* issue_tickets/ticket-{id}-attempt-{n}.json with its verdict
  task,        \* the evaluation coroutines of the event loop
  background,  \* _background_tasks: the slot of the registered task, 0 for none
  up,          \* is the process running?
  crashes, faults

disk == <<golden, receipt, attempts, latest, failures, tickets>>
memory == <<task, background, up>>
vars == <<golden, receipt, attempts, latest, failures, tickets,
          task, background, up, crashes, faults>>

-----------------------------------------------------------------------------
Nos == 1..MaxAttempts
Slots == 1..MaxSlots
Tasks == [id : Ids, no : Nos, slot : Slots]
TaskOf(q, n, s) == [id |-> q, no |-> n, slot |-> s]

PassReasons == {"strict_equal", "semantic_equivalent"}
FailReasons == {"grammar_failed", "not_equivalent"}
Reasons == PassReasons \cup FailReasons

Blocked == {"tugraph_execution_failed", "semantic_review_invalid"}
Settled == {"passed", "issue_ticket_created"}
States == {"none", "received_submission_only", "ready_to_evaluate"}
            \cup Blocked \cup Settled

ReportOnly == {"service_failed", "clarification_required", "unsupported_query_shape"}
Statuses == ReportOnly \cup {"generation_failed"}

ASSUME ReportedAssumption == Reported \subseteq Statuses

\* A task is at an await (Awaiting), waits to run (queued), or is in the
\* run of writes that follows the last await (Saving).
Awaiting == {"explaining", "executing", "reviewing"}
Saving == {"block", "save_evaluation", "save_ticket", "link_ticket", "mark", "improve"}
Outcomes == Reasons \cup Blocked \cup {"none"}
Pcs == {"idle", "queued", "done"} \cup Awaiting \cup Saving

Attempt ==
  [no : 0..MaxAttempts, run : Runs \cup {None}, kind : {"generated", "generation_failed"},
   content : Contents \cup {None}, state : States,
   execution : {"none", "ok", "failed"}, review : {"none", "accepted", "invalid"},
   evaluation : Reasons \cup {"none"}, ticket : BOOLEAN, improvement : Nat]

NewAttempt(no, run, kind, content, state) ==
  [no |-> no, run |-> run, kind |-> kind, content |-> content, state |-> state,
   execution |-> "none", review |-> "none", evaluation |-> "none",
   ticket |-> FALSE, improvement |-> 0]

NoRecord == NewAttempt(0, None, "generated", None, "none")

IdleTask == [pc |-> "idle", outcome |-> "none"]
NoTasks == [t \in Tasks |-> IdleTask]
NoBackground == [q \in Ids |-> [n \in Nos |-> 0]]

Init ==
  /\ golden = [q \in Ids |-> None]
  /\ receipt = [q \in Ids |-> None]
  /\ attempts = [q \in Ids |-> <<>>]
  /\ latest = [q \in Ids |-> NoRecord]
  /\ failures = [q \in Ids |-> [r \in Runs |-> "none"]]
  /\ tickets = {}
  /\ task = NoTasks
  /\ background = NoBackground
  /\ up = TRUE
  /\ crashes = 0
  /\ faults = 0

-----------------------------------------------------------------------------
(* Memory, files and the death of the process.                             *)

LoopFree == up /\ \A t \in Tasks : task[t].pc \notin Saving

Alive == UNCHANGED <<up, crashes>>

Die ==
  /\ crashes < MaxCrashes
  /\ crashes' = crashes + 1
  /\ up' = FALSE
  /\ task' = NoTasks
  /\ background' = NoBackground

\* The two files of a mutation: the attempt, then the latest record unless
\* that one already belongs to a newer attempt.
WriteAttempt(q, n, rec) == attempts' = [attempts EXCEPT ![q][n] = rec]

\* A variant: the latest record is overwritten by any attempt.
MutateAnyLatest(q, n, rec) ==
  /\ WriteAttempt(q, n, rec)
  /\ latest' = [latest EXCEPT ![q] = rec]

Mutate(q, n, rec) ==
  /\ WriteAttempt(q, n, rec)
  /\ latest' = IF latest[q].no <= n THEN [latest EXCEPT ![q] = rec] ELSE latest

TornMutate(q, n, rec) ==
  /\ TornWrites
  /\ WriteAttempt(q, n, rec)
  /\ UNCHANGED latest
  /\ Die

\* A variant: the registered task counts as running until its callback.
RunningUntilCallback(q, n) == background[q][n] # 0

\* asyncio.create_task unless the registered task of the attempt still runs.
Running(q, n) ==
  background[q][n] # 0 /\ task[TaskOf(q, n, background[q][n])].pc # "done"

Schedule(q, n) ==
  IF Running(q, n) THEN UNCHANGED <<task, background>>
  ELSE \E s \in Slots :
         /\ task[TaskOf(q, n, s)].pc = "idle"
         /\ task' = [task EXCEPT ![TaskOf(q, n, s)] = [IdleTask EXCEPT !.pc = "queued"]]
         /\ background' = [background EXCEPT ![q][n] = s]

-----------------------------------------------------------------------------
(* The HTTP handlers.  A request that is refused with 409, or repeats one  *)
(* already stored, changes nothing and is a stuttering step.               *)

\* A variant: a repeated golden also reopens a settled attempt.
OpensSettled(q) == latest[q].no # 0 /\ latest[q].no <= Len(attempts[q])

\* A golden (re)opens the latest attempt unless that one is settled; a latest
\* record whose attempt file is missing raises KeyError.
Opens(q) ==
  /\ latest[q].no # 0
  /\ latest[q].state \notin Settled
  /\ latest[q].no <= Len(attempts[q])

\* A golden that differs from the stored one is refused, any other is stored.
IngestGolden(q, g) ==
  LET n == latest[q].no
      reopened == [attempts[q][n] EXCEPT !.state = "ready_to_evaluate"]
  IN
  /\ LoopFree
  /\ golden[q] \in {None, g}
  /\ golden' = [golden EXCEPT ![q] = g]
  /\ IF Opens(q)
     THEN \/ Mutate(q, n, reopened) /\ Schedule(q, n) /\ Alive
          \/ TornMutate(q, n, reopened)
          \/ UNCHANGED <<attempts, latest>> /\ Die
     ELSE UNCHANGED <<attempts, latest, task, background>> /\ Alive
  /\ UNCHANGED <<receipt, failures, tickets, faults>>

\* A variant: only a run that generated something counts as stored.
StoredGenerated(q, r) ==
  \E i \in DOMAIN attempts[q] : attempts[q][i].run = r /\ attempts[q][i].kind = "generated"

Stored(q, r) == \E i \in DOMAIN attempts[q] : attempts[q][i].run = r

\* A first submission of a run becomes the next attempt: the latest record is
\* written before the attempt file.
CreateAttempt(q, r, kind, content) ==
  LET n == Len(attempts[q]) + 1
      rec == NewAttempt(n, r, kind, content,
               IF golden[q] = None THEN "received_submission_only" ELSE "ready_to_evaluate")
  IN
  /\ n <= MaxAttempts
  /\ latest' = [latest EXCEPT ![q] = rec]
  /\ \/ /\ attempts' = [attempts EXCEPT ![q] = Append(@, rec)]
        /\ IF golden[q] = None THEN UNCHANGED <<task, background>> ELSE Schedule(q, n)
        /\ Alive
     \/ TornWrites /\ UNCHANGED attempts /\ Die

IngestSubmission(q, r, c) ==
  /\ LoopFree
  /\ ~Stored(q, r)
  /\ CreateAttempt(q, r, "generated", c)
  /\ UNCHANGED <<golden, receipt, failures, tickets, faults>>

\* The report is written first; only generation_failed goes on to create an
\* attempt, and not when the run already has one (a repeat or a conflict).
IngestGenerationFailure(q, r, status) ==
  /\ LoopFree
  /\ failures[q][r] \in {"none", status}
  /\ failures' = [failures EXCEPT ![q][r] = status]
  /\ IF status \in ReportOnly \/ Stored(q, r)
     THEN UNCHANGED <<attempts, latest, task, background>> /\ Alive
     ELSE \/ CreateAttempt(q, r, "generation_failed", None)
          \/ UNCHANGED <<attempts, latest>> /\ Die
  /\ UNCHANGED <<golden, receipt, tickets, faults>>

IngestQuestionReceived(q, r) ==
  /\ LoopFree
  /\ receipt' = [receipt EXCEPT ![q] = r]
  /\ UNCHANGED <<golden, attempts, latest, failures, tickets, memory, crashes, faults>>

\* The status request restarts the evaluation of a ready latest attempt.
GetEvaluationStatus(q) ==
  /\ LoopFree
  /\ latest[q].no # 0
  /\ latest[q].state = "ready_to_evaluate"
  /\ ~Running(q, latest[q].no)
  /\ Schedule(q, latest[q].no)
  /\ UNCHANGED <<disk, up, crashes, faults>>

-----------------------------------------------------------------------------
(* One evaluation task t, from the lock to the done callback.              *)

To(t, pc, outcome) == task' = [task EXCEPT ![t] = [pc |-> pc, outcome |-> outcome]]

Record(t) == attempts[t.id][t.no]

\* Save rec as the attempt of t and go on to pc, or die between the files.
Save(t, rec, pc, outcome) ==
  \/ Mutate(t.id, t.no, rec) /\ To(t, pc, outcome) /\ UNCHANGED background /\ Alive
  \/ TornMutate(t.id, t.no, rec)

\* A variant: no lock.
NoLock(t) == TRUE

\* asyncio.Lock of the attempt: free when no other task is past it.
LockFree(t) ==
  \A s \in Slots : task[TaskOf(t.id, t.no, s)].pc \in {"idle", "queued", "done"}

\* A variant: only a passed attempt is not evaluated again.
FinishedPassed(rec) == rec.evaluation # "none" /\ rec.state = "passed"

Finished(rec) == rec.evaluation # "none" /\ rec.state \in Settled \cup Blocked

StartEvaluation(t) ==
  /\ LoopFree
  /\ task[t].pc = "queued"
  /\ LockFree(t)
  /\ IF t.no > Len(attempts[t.id]) \/ golden[t.id] = None
     THEN To(t, "done", "none")              \* RuntimeError, logged
     ELSE IF Finished(Record(t)) THEN To(t, "done", "none")
     ELSE IF Record(t).kind = "generation_failed"
     THEN To(t, "save_evaluation", "grammar_failed")
     ELSE To(t, IF Record(t).content \in Grammatical THEN "executing" ELSE "explaining", "none")
  /\ UNCHANGED <<disk, background, up, crashes, faults>>

GrammarExplained(t) ==
  /\ LoopFree
  /\ task[t].pc = "explaining"
  /\ To(t, "save_evaluation", "grammar_failed")
  /\ UNCHANGED <<disk, background, up, crashes, faults>>

\* The explanation or the semantic review raises: the task ends and the
\* attempt stays as it is.
LlmRaises(t) ==
  /\ LoopFree
  /\ task[t].pc \in {"explaining", "reviewing"}
  /\ faults < MaxFaults
  /\ faults' = faults + 1
  /\ To(t, "done", "none")
  /\ UNCHANGED <<disk, background, up, crashes>>

\* TuGraph answers: with rows that equal the golden answer, with rows that
\* differ and need a semantic review, or with an error.
TuGraphAnswers(t) ==
  /\ LoopFree
  /\ task[t].pc = "executing"
  /\ \/ Save(t, [Record(t) EXCEPT !.execution = "ok"], "save_evaluation", "strict_equal")
     \/ Save(t, [Record(t) EXCEPT !.execution = "ok"], "reviewing", "none")
     \/ Save(t, [Record(t) EXCEPT !.execution = "failed"], "block", "tugraph_execution_failed")
  /\ UNCHANGED <<golden, receipt, failures, tickets, faults>>

ReviewAnswers(t) ==
  /\ LoopFree
  /\ task[t].pc = "reviewing"
  /\ \/ \E o \in {"semantic_equivalent", "not_equivalent"} :
          Save(t, [Record(t) EXCEPT !.review = "accepted"], "save_evaluation", o)
     \/ Save(t, [Record(t) EXCEPT !.review = "invalid"], "block", "semantic_review_invalid")
  /\ UNCHANGED <<golden, receipt, failures, tickets, faults>>

\* A variant: one status of its own for every evaluation that is stopped.
BlockAttemptCoarse(t) ==
  /\ task[t].pc = "block"
  /\ Save(t, [Record(t) EXCEPT !.state = "evaluation_blocked"], "done", "none")
  /\ UNCHANGED <<golden, receipt, failures, tickets, faults>>

BlockAttempt(t) ==
  /\ task[t].pc = "block"
  /\ Save(t, [Record(t) EXCEPT !.state = task[t].outcome], "done", "none")
  /\ UNCHANGED <<golden, receipt, failures, tickets, faults>>

\* A variant: the state is settled without writing a ticket first.
SaveEvaluationNoTicket(t) ==
  /\ task[t].pc = "save_evaluation"
  /\ Save(t, [Record(t) EXCEPT !.evaluation = task[t].outcome], "mark", task[t].outcome)
  /\ UNCHANGED <<golden, receipt, failures, tickets, faults>>

SaveEvaluation(t) ==
  /\ task[t].pc = "save_evaluation"
  /\ Save(t, [Record(t) EXCEPT !.evaluation = task[t].outcome],
          IF task[t].outcome \in PassReasons THEN "mark" ELSE "save_ticket", task[t].outcome)
  /\ UNCHANGED <<golden, receipt, failures, tickets, faults>>

Ticket(t, reason) == [id |-> t.id, no |-> t.no, reason |-> reason]

SaveTicket(t) ==
  /\ task[t].pc = "save_ticket"
  /\ tickets' = {k \in tickets : <<k.id, k.no>> # <<t.id, t.no>>} \cup {Ticket(t, task[t].outcome)}
  /\ To(t, "link_ticket", task[t].outcome)
  /\ UNCHANGED <<golden, receipt, attempts, latest, failures, background, up, crashes, faults>>

LinkTicket(t) ==
  /\ task[t].pc = "link_ticket"
  /\ Save(t, [Record(t) EXCEPT !.ticket = TRUE], "mark", task[t].outcome)
  /\ UNCHANGED <<golden, receipt, failures, tickets, faults>>

MarkSettled(t) ==
  /\ task[t].pc = "mark"
  /\ Save(t, [Record(t) EXCEPT !.state = IF task[t].outcome \in PassReasons
                                         THEN "passed" ELSE "issue_ticket_created"],
          "improve", "none")
  /\ UNCHANGED <<golden, receipt, failures, tickets, faults>>

\* The nearest earlier attempt that has an evaluation is compared with.
Evaluated(q, n) == {i \in 1..(n - 1) : attempts[q][i].evaluation # "none"}

AssessImprovement(t) ==
  LET earlier == Evaluated(t.id, t.no)
  IN
  /\ task[t].pc = "improve"
  /\ IF earlier = {}
     THEN To(t, "done", "none") /\ UNCHANGED <<attempts, latest, background>> /\ Alive
     ELSE \E p \in earlier :
            /\ \A i \in earlier : i <= p
            /\ Save(t, [Record(t) EXCEPT !.improvement = p], "done", "none")
  /\ UNCHANGED <<golden, receipt, failures, tickets, faults>>

\* The done callback removes whatever task is registered for the attempt.
DoneCallback(t) ==
  /\ LoopFree
  /\ task[t].pc = "done"
  /\ task' = [task EXCEPT ![t] = IdleTask]
  /\ background' = [background EXCEPT ![t.id][t.no] = 0]
  /\ UNCHANGED <<disk, up, crashes, faults>>

-----------------------------------------------------------------------------
(* Death at any moment and the startup hook.                               *)

Crash ==
  /\ up
  /\ Die
  /\ UNCHANGED <<disk, faults>>

\* A variant: the startup hook looks at the latest attempts only.
ResumedLatest(t) ==
  /\ t.slot = 1
  /\ t.no = latest[t.id].no
  /\ t.no \in DOMAIN attempts[t.id]
  /\ attempts[t.id][t.no].state = "ready_to_evaluate"

Resumed(t) ==
  /\ t.slot = 1
  /\ t.no \in DOMAIN attempts[t.id]
  /\ attempts[t.id][t.no].state = "ready_to_evaluate"

Startup ==
  /\ ~up
  /\ up' = TRUE
  /\ task' = [t \in Tasks |-> [IdleTask EXCEPT !.pc = IF Resumed(t) THEN "queued" ELSE "idle"]]
  /\ background' = [q \in Ids |-> [n \in Nos |-> IF Resumed(TaskOf(q, n, 1)) THEN 1 ELSE 0]]
  /\ UNCHANGED <<disk, crashes, faults>>

-----------------------------------------------------------------------------
Request(q) ==
  \/ \E g \in Goldens : IngestGolden(q, g)
  \/ \E r \in Runs, c \in Contents : IngestSubmission(q, r, c)
  \/ \E r \in Runs, st \in Reported : IngestGenerationFailure(q, r, st)
  \/ \E r \in Announced : IngestQuestionReceived(q, r)
  \/ GetEvaluationStatus(q)

\* What the event loop itself does for a task.
Evaluate(t) ==
  \/ StartEvaluation(t) \/ GrammarExplained(t) \/ TuGraphAnswers(t)
  \/ ReviewAnswers(t) \/ BlockAttempt(t) \/ SaveEvaluation(t)
  \/ SaveTicket(t) \/ LinkTicket(t) \/ MarkSettled(t)
  \/ AssessImprovement(t) \/ DoneCallback(t)

Next ==
  \/ \E q \in Ids : Request(q)
  \/ \E t \in Tasks : Evaluate(t) \/ LlmRaises(t)
  \/ Crash
  \/ Startup

Spec == Init /\ [][Next]_vars

(***************************************************************************)
(* Fairness: the event loop's ready queue and an asyncio.Lock are FIFO, so *)
(* a task that could run each time the loop is free does run (SF), and the *)
(* HTTP calls of the evaluation end because they have timeouts; a dead     *)
(* process is started again.  Nothing in the repository polls the status   *)
(* request, so GetEvaluationStatus is not fair.                            *)
(***************************************************************************)
Fairness ==
  /\ \A t \in Tasks : SF_vars(Evaluate(t))
  /\ WF_vars(Startup)

FairSpec == Spec /\ Fairness

-----------------------------------------------------------------------------
(* Properties.                                                             *)

\* Every file and every entry of the process memory has its type.
TypeOK ==
  /\ golden \in [Ids -> Goldens \cup {None}]
  /\ receipt \in [Ids -> Runs \cup {None}]
  /\ attempts \in [Ids -> Seq(Attempt)]
  /\ latest \in [Ids -> Attempt]
  /\ failures \in [Ids -> [Runs -> Statuses \cup {"none"}]]
  /\ tickets \subseteq [id : Ids, no : Nos, reason : Outcomes]
  /\ task \in [Tasks -> [pc : Pcs, outcome : Outcomes]]
  /\ background \in [Ids -> [Nos -> 0..MaxSlots]]
  /\ up \in BOOLEAN
  /\ crashes \in Nat
  /\ faults \in Nat

\* A run becomes one attempt however often and in whatever form it is
\* reported, and attempts are numbered without gaps (save_submission and
\* save_generation_failure_submission, with a death between their writes).
OneAttemptPerRun ==
  \A q \in Ids : \A i, j \in DOMAIN attempts[q] :
    /\ attempts[q][i].no = i
    /\ attempts[q][i].run = attempts[q][j].run => i = j

\* The latest record is the newest attempt, also while an older attempt is
\* still being evaluated and written (_mutate_submission).
LatestIsNewest ==
  \A q \in Ids :
    latest[q] = IF attempts[q] = <<>> THEN NoRecord ELSE attempts[q][Len(attempts[q])]

\* A settled attempt carries the evidence of its verdict, and a failed one
\* has its ticket on file with the same reason - whichever of several
\* evaluations, restarted after deaths, wrote each of the parts.
SettledIsBacked ==
  \A q \in Ids : \A n \in DOMAIN attempts[q] :
    LET a == attempts[q][n] IN
    /\ a.state = "passed" =>
         /\ a.evaluation \in PassReasons
         /\ a.kind = "generated" /\ a.content \in Grammatical
         /\ a.execution = "ok"
         /\ a.evaluation = "semantic_equivalent" => a.review = "accepted"
    /\ a.state = "issue_ticket_created" =>
         /\ a.evaluation \in FailReasons
         /\ a.ticket
         /\ [id |-> q, no |-> n, reason |-> a.evaluation] \in tickets
         /\ a.evaluation = "not_equivalent" => a.execution = "ok" /\ a.review = "accepted"

\* A verdict is final: no repeated golden, repeated submission, second task
\* or restart changes a settled attempt, apart from its later comparison
\* with an earlier attempt (the settled states in ingest_golden, the lock
\* and the check in _evaluate_attempt).
SettledIsFinal ==
  [][\A q \in Ids : \A n \in DOMAIN attempts[q] :
       attempts[q][n].state \in Settled =>
         /\ n \in DOMAIN attempts'[q]
         /\ attempts'[q][n] = [attempts[q][n] EXCEPT !.improvement = attempts'[q][n].improvement]
    ]_vars

\* While no LLM call has raised, a running process never forgets an attempt
\* that is ready: some task of its own will still evaluate it (the done
\* callback races a rescheduling, a death races the startup hook).
ReadyIsScheduled ==
  up /\ faults = 0 =>
    \A q \in Ids : \A n \in DOMAIN attempts[q] :
      attempts[q][n].state = "ready_to_evaluate" =>
        \E s \in Slots : task[TaskOf(q, n, s)].pc \notin {"idle", "done"}

\* Without a death, a ticket and an attempt that does not end in failure
\* never meet: only an attempt on its way to issue_ticket_created has one.
TicketMeansFailure ==
  \A k \in tickets :
    \/ attempts[k.id][k.no].state = "issue_ticket_created"
    \/ \E s \in Slots : task[TaskOf(k.id, k.no, s)].pc \in Saving

\* Without a death, an attempt whose evaluation was stopped has neither an
\* evaluation nor a ticket, once no other task is writing its verdict.
BlockedHasNoVerdict ==
  \A q \in Ids : \A n \in DOMAIN attempts[q] :
    /\ attempts[q][n].state \in Blocked
    /\ \A s \in Slots : task[TaskOf(q, n, s)].pc \notin Saving
    => attempts[q][n].evaluation = "none" /\ ~attempts[q][n].ticket

\* Without a death, the newest attempt does not wait for a golden that is
\* already there.
LatestDoesNotWait ==
  \A q \in Ids : latest[q].state = "received_submission_only" => golden[q] = None

\* Without a death, what an attempt holds is what its state says, and its state what is
\* on file.
AttemptsAgree == TicketMeansFailure /\ BlockedHasNoVerdict /\ LatestDoesNotWait

\* As long as the LLM answers, every ready attempt is evaluated in the end,
\* through deaths and restarts (resume_pending_evaluations).
ReadyIsEvaluated ==
  \A q \in Ids, n \in Nos :
    (n \in DOMAIN attempts[q] /\ attempts[q][n].state = "ready_to_evaluate")
      ~> (n \in DOMAIN attempts[q] /\ attempts[q][n].state # "ready_to_evaluate")

-----------------------------------------------------------------------------
(* The promise the agent implements when the two files of a mutation are   *)
(* written together (TornWrites = FALSE): each attempt file is an entry.   *)

LedgerStatus(state) ==
  CASE state = "received_submission_only" -> "waiting"
    [] state \in Blocked -> "stopped"
    [] state = "passed" -> "passed"
    [] state = "issue_ticket_created" -> "failed"
    [] OTHER -> "ready"

LedgerOf(q) ==
  [n \in DOMAIN attempts[q] |->
     [run |-> attempts[q][n].run, status |-> LedgerStatus(attempts[q][n].state)]]

Ledger == INSTANCE EvaluationLedger WITH ledger <- [q \in Ids |-> LedgerOf(q)]

\* Every step of the agent is a step of the ledger or leaves it alone.
ImplementsLedger == Ledger!Spec

=============================================================================
