------------------------- MODULE TestingAgentProofs -------------------------
(***************************************************************************)
(* What the testing-agent keeps, for every value of the constants: any     *)
(* number of samples, runs, tasks for one attempt, deaths and LLM calls    *)
(* that raise.  Type correctness comes first.                              *)
(*                                                                         *)
(* Wherever the process dies: a settled attempt carries the evidence of    *)
(* its verdict, a run is one attempt, and a ready attempt has a task.      *)
(* If no death falls between the two files of a mutation: the latest       *)
(* record is the newest attempt, a verdict is final, and every step is a   *)
(* step of the ledger.  Until the first death: tickets, states and         *)
(* verdicts agree, and so do the console's two views of an attempt.        *)
(***************************************************************************)
EXTENDS TestingAgent, ConsoleViews, TLAPS

-----------------------------------------------------------------------------
(* Sequences.                                                              *)

\* Replacing an element keeps a sequence of S a sequence of S.
LEMMA ReplaceInSeq ==
  ASSUME NEW S, NEW s \in Seq(S), NEW n \in DOMAIN s, NEW e \in S
  PROVE  /\ [s EXCEPT ![n] = e] \in Seq(S)
         /\ Len([s EXCEPT ![n] = e]) = Len(s)
         /\ DOMAIN [s EXCEPT ![n] = e] = DOMAIN s
OBVIOUS

\* Appending adds one index and keeps the elements.
LEMMA AppendToSeq ==
  ASSUME NEW S, NEW s \in Seq(S), NEW e \in S
  PROVE  /\ Append(s, e) \in Seq(S)
         /\ Len(Append(s, e)) = Len(s) + 1
         /\ DOMAIN Append(s, e) = DOMAIN s \cup {Len(s) + 1}
         /\ \A i \in DOMAIN s : Append(s, e)[i] = s[i]
         /\ Append(s, e)[Len(s) + 1] = e
OBVIOUS

-----------------------------------------------------------------------------
(* Type correctness.  A task past its lock works on an attempt file that   *)
(* exists, and what it is about to write has the type of its field.        *)

Working == Awaiting \cup Saving

TaskRec == [pc : Pcs, outcome : Outcomes]

Fits(k) ==
  /\ k.pc = "block" => k.outcome \in Blocked
  /\ k.pc \in {"save_evaluation", "mark"} => k.outcome \in Reasons
  /\ k.pc \in {"save_ticket", "link_ticket"} => k.outcome \in FailReasons

TaskInv ==
  \A t \in Tasks :
    /\ task[t].pc \in Working => t.no \in DOMAIN attempts[t.id]
    /\ Fits(task[t])

TypeInv == TypeOK /\ TaskInv

LEMMA InitTypeInv == Init => TypeInv
<1> SUFFICES ASSUME Init PROVE TypeInv
  OBVIOUS
<1> USE TestingAssumption DEF Init
<1>1. NoRecord \in Attempt
  <2>1. 0 \in 0..MaxAttempts
    OBVIOUS
  <2> QED
    BY <2>1 DEF NoRecord, NewAttempt, Attempt, States
<1>2. task \in [Tasks -> TaskRec]
  BY DEF NoTasks, IdleTask, Pcs, TaskRec, Outcomes
<1>3. background \in [Ids -> [Nos -> 0..MaxSlots]]
  BY DEF NoBackground
<1>4. TypeOK
  BY <1>1, <1>2, <1>3 DEF TypeOK, Statuses, TaskRec
<1>5. TaskInv
  BY DEF TaskInv, Fits, NoTasks, IdleTask, Working, Awaiting, Saving
<1> QED
  BY <1>4, <1>5 DEF TypeInv
\* The mutations keep the files typed and forget no attempt.
LEMMA WriteAttemptType ==
  ASSUME TypeOK, NEW q \in Ids, NEW n \in DOMAIN attempts[q], NEW rec \in Attempt,
         WriteAttempt(q, n, rec)
  PROVE  /\ attempts' \in [Ids -> Seq(Attempt)]
         /\ \A p \in Ids : DOMAIN attempts'[p] = DOMAIN attempts[p]
<1>1. attempts[q] \in Seq(Attempt)
  BY DEF TypeOK
<1>2. /\ [attempts[q] EXCEPT ![n] = rec] \in Seq(Attempt)
      /\ DOMAIN [attempts[q] EXCEPT ![n] = rec] = DOMAIN attempts[q]
  BY <1>1, ReplaceInSeq
<1>3. attempts' = [attempts EXCEPT ![q] = [attempts[q] EXCEPT ![n] = rec]]
  BY DEF WriteAttempt
<1> QED
  BY <1>2, <1>3 DEF TypeOK

LEMMA DieType ==
  ASSUME TypeOK, Die
  PROVE  /\ task' \in [Tasks -> TaskRec]
         /\ background' \in [Ids -> [Nos -> 0..MaxSlots]]
         /\ up' \in BOOLEAN /\ crashes' \in Nat
         /\ \A t \in Tasks : task'[t].pc = "idle"
<1>1. IdleTask \in TaskRec /\ IdleTask.pc = "idle"
  BY DEF IdleTask, TaskRec, Pcs, Outcomes
<1>2. task' \in [Tasks -> TaskRec] /\ \A t \in Tasks : task'[t].pc = "idle"
  BY <1>1 DEF Die, NoTasks
<1>3. background' \in [Ids -> [Nos -> 0..MaxSlots]]
  BY TestingAssumption DEF Die, NoBackground
<1>4. crashes' \in Nat
  <2>1. crashes \in Nat /\ crashes' = crashes + 1
    BY DEF Die, TypeOK
  <2> QED
    BY <2>1
<1>5. up' \in BOOLEAN
  BY Zenon DEF Die
<1> QED
  BY <1>2, <1>3, <1>4, <1>5

LEMMA ScheduleType ==
  ASSUME TypeOK, NEW q \in Ids, NEW n \in Nos, Schedule(q, n)
  PROVE  /\ task' \in [Tasks -> TaskRec]
         /\ background' \in [Ids -> [Nos -> 0..MaxSlots]]
         /\ \A t \in Tasks : task'[t] = task[t] \/ task'[t].pc = "queued"
<1>1. CASE Running(q, n)
  BY <1>1 DEF Schedule, TypeOK, TaskRec
<1>2. CASE ~Running(q, n)
  <2> PICK s \in Slots :
         /\ task' = [task EXCEPT ![TaskOf(q, n, s)] = [IdleTask EXCEPT !.pc = "queued"]]
         /\ background' = [background EXCEPT ![q][n] = s]
    BY <1>2 DEF Schedule
  <2>1. TaskOf(q, n, s) \in Tasks
    BY DEF TaskOf, Tasks
  <2>2. [IdleTask EXCEPT !.pc = "queued"] \in TaskRec
    BY DEF IdleTask, Pcs, TaskRec, Outcomes
  <2>3. s \in 0..MaxSlots
    BY TestingAssumption DEF Slots
  <2> QED
    BY <2>1, <2>2, <2>3 DEF TypeOK, IdleTask, TaskRec
<1> QED
  BY <1>1, <1>2

\* What a task step does to the task itself.
LEMMA ToType ==
  ASSUME TypeOK, NEW t \in Tasks, NEW pc \in Pcs,
         NEW outcome \in Outcomes, To(t, pc, outcome)
  PROVE  /\ task' \in [Tasks -> TaskRec]
         /\ task'[t] = [pc |-> pc, outcome |-> outcome]
         /\ \A u \in Tasks \ {t} : task'[u] = task[u]
BY DEF To, TypeOK, TaskRec
\* A task that moves on, with the attempts and the other tasks kept.
LEMMA MoveTaskInv ==
  ASSUME TypeInv, NEW t \in Tasks, NEW pc \in Pcs, NEW outcome \in Outcomes,
         To(t, pc, outcome), Fits([pc |-> pc, outcome |-> outcome]),
         pc \in Working => t.no \in DOMAIN attempts[t.id],
         \A p \in Ids : DOMAIN attempts[p] \subseteq DOMAIN attempts'[p]
  PROVE  task' \in [Tasks -> TaskRec] /\ TaskInv'
<1>1. /\ task' \in [Tasks -> TaskRec]
      /\ task'[t] = [pc |-> pc, outcome |-> outcome]
      /\ \A u \in Tasks \ {t} : task'[u] = task[u]
  BY ToType DEF TypeInv
<1>2. \A u \in Tasks : u.id \in Ids
  BY DEF Tasks
<1>3. ASSUME NEW u \in Tasks
      PROVE  (task'[u].pc \in Working => u.no \in DOMAIN attempts'[u.id]) /\ Fits(task'[u])
  BY <1>1, <1>2 DEF TypeInv, TaskInv
<1> QED
  BY <1>1, <1>3 DEF TaskInv, Fits

\* Dying keeps the types and empties the loop.
LEMMA DieTypeInv ==
  ASSUME TypeInv, Die, attempts' \in [Ids -> Seq(Attempt)], latest' \in [Ids -> Attempt],
         golden' \in [Ids -> Goldens \cup {None}], receipt' \in [Ids -> Runs \cup {None}],
         failures' \in [Ids -> [Runs -> Statuses \cup {"none"}]],
         tickets' = tickets, faults' = faults
  PROVE  TypeInv'
<1>1. TypeOK'
  BY DieType DEF TypeInv, TypeOK, TaskRec
<1>2. TaskInv'
  BY DieType DEF TypeInv, TaskInv, Fits, Working, Awaiting, Saving
<1> QED
  BY <1>1, <1>2 DEF TypeInv

LEMMA MutateType ==
  ASSUME TypeOK, NEW q \in Ids, NEW n \in DOMAIN attempts[q], NEW rec \in Attempt,
         Mutate(q, n, rec)
  PROVE  /\ attempts' \in [Ids -> Seq(Attempt)]
         /\ \A p \in Ids : DOMAIN attempts'[p] = DOMAIN attempts[p]
         /\ latest' \in [Ids -> Attempt]
<1>1. latest' \in [Ids -> Attempt]
  BY DEF Mutate, TypeOK
<1> QED
  BY <1>1, WriteAttemptType DEF Mutate

\* Every saving step keeps the types.
LEMMA SaveTypeInv ==
  ASSUME TypeInv, NEW t \in Tasks, t.no \in DOMAIN attempts[t.id], NEW rec \in Attempt,
         NEW pc \in Pcs, NEW outcome \in Outcomes, Fits([pc |-> pc, outcome |-> outcome]),
         Save(t, rec, pc, outcome), UNCHANGED <<golden, receipt, failures, tickets, faults>>
  PROVE  TypeInv'
<1>1. t.id \in Ids
  BY DEF Tasks
<1>2. CASE Mutate(t.id, t.no, rec) /\ To(t, pc, outcome) /\ UNCHANGED background /\ Alive
  <2>1. /\ attempts' \in [Ids -> Seq(Attempt)]
        /\ \A p \in Ids : DOMAIN attempts'[p] = DOMAIN attempts[p]
        /\ latest' \in [Ids -> Attempt]
    BY <1>1, <1>2, MutateType DEF TypeInv
  <2>2. task' \in [Tasks -> TaskRec] /\ TaskInv'
    BY <1>2, <2>1, MoveTaskInv
  <2>3. TypeOK'
    BY <1>2, <2>1, <2>2 DEF TypeInv, TypeOK, TaskRec, Alive
  <2> QED
    BY <2>2, <2>3 DEF TypeInv
<1>3. CASE TornMutate(t.id, t.no, rec)
  <2>1. attempts' \in [Ids -> Seq(Attempt)]
    BY <1>1, <1>3, WriteAttemptType DEF TypeInv, TornMutate
  <2> QED
    BY <1>3, <2>1, DieTypeInv DEF TornMutate, TypeInv, TypeOK
<1> QED
  BY <1>2, <1>3 DEF Save
LEMMA RecordType ==
  ASSUME TypeOK, NEW t \in Tasks, t.no \in DOMAIN attempts[t.id]
  PROVE  Record(t) \in Attempt
<1>1. attempts[t.id] \in Seq(Attempt)
  BY DEF TypeOK, Tasks
<1> QED
  BY <1>1 DEF Record

\* Nothing but one task moves.
LEMMA PureMoveTypeInv ==
  ASSUME TypeInv, NEW t \in Tasks, NEW pc \in Pcs, NEW outcome \in Outcomes,
         To(t, pc, outcome), Fits([pc |-> pc, outcome |-> outcome]),
         pc \in Working => t.no \in DOMAIN attempts[t.id],
         UNCHANGED <<golden, receipt, attempts, latest, failures, background, up, crashes>>,
         tickets' \subseteq [id : Ids, no : Nos, reason : Outcomes], faults' \in Nat
  PROVE  TypeInv'
<1>1. task' \in [Tasks -> TaskRec] /\ TaskInv'
  BY MoveTaskInv
<1>2. TypeOK'
  BY <1>1 DEF TypeInv, TypeOK, TaskRec
<1> QED
  BY <1>1, <1>2 DEF TypeInv

LEMMA EvaluateTypeInv ==
  ASSUME TypeInv, NEW t \in Tasks, Evaluate(t) \/ LlmRaises(t)
  PROVE  TypeInv'
<1> USE DEF Working, Awaiting, Saving, Fits
<1> DEFINE out == task[t].outcome
<1>0. /\ task[t].pc \in Working => t.no \in DOMAIN attempts[t.id] /\ Record(t) \in Attempt
      /\ task[t] \in TaskRec /\ Fits(task[t]) /\ out \in Outcomes
  BY RecordType DEF TypeInv, TaskInv, TypeOK, TaskRec
<1>p. \A c \in {"queued", "done", "explaining", "executing", "reviewing", "block",
        "save_evaluation", "save_ticket", "link_ticket", "mark", "improve"} : c \in Pcs
  BY DEF Pcs
<1>o. "none" \in Outcomes /\ \A o \in Reasons \cup Blocked : o \in Outcomes
  BY DEF Outcomes
<1>k. tickets \subseteq [id : Ids, no : Nos, reason : Outcomes] /\ faults \in Nat
  BY DEF TypeInv, TypeOK
<1>1. CASE StartEvaluation(t)
  <2> SUFFICES ASSUME NEW pc \in Pcs, NEW o \in Outcomes, To(t, pc, o),
                      Fits([pc |-> pc, outcome |-> o]),
                      pc \in Working => t.no \in DOMAIN attempts[t.id]
               PROVE  TypeInv'
    <3>1. CASE t.no > Len(attempts[t.id]) \/ golden[t.id] = None \/ Finished(Record(t))
      BY <1>1, <1>p, <1>o, <3>1 DEF StartEvaluation
    <3>2. CASE ~(t.no > Len(attempts[t.id]) \/ golden[t.id] = None \/ Finished(Record(t)))
      <4>1. t.no \in DOMAIN attempts[t.id]
        BY <3>2, TestingAssumption DEF TypeInv, TypeOK, Tasks, Nos
      <4>2. "grammar_failed" \in Reasons
        BY DEF Reasons, FailReasons
      <4> QED
        BY <1>1, <1>p, <1>o, <3>2, <4>1, <4>2 DEF StartEvaluation
    <3> QED
      BY <3>1, <3>2
  <2> QED
    BY <1>1, <1>k, PureMoveTypeInv DEF StartEvaluation, disk
<1>2. CASE GrammarExplained(t)
  <2>1. "grammar_failed" \in Reasons
    BY DEF Reasons, FailReasons
  <2> QED
    BY <1>0, <1>2, <1>p, <1>o, <1>k, <2>1, PureMoveTypeInv DEF GrammarExplained, disk
<1>3. CASE LlmRaises(t)
  <2>1. faults' \in Nat
    BY <1>3, <1>k DEF LlmRaises
  <2> QED
    BY <1>3, <1>p, <1>o, <1>k, <2>1, PureMoveTypeInv DEF LlmRaises, disk
<1>4. CASE TuGraphAnswers(t)
  <2>1. /\ [Record(t) EXCEPT !.execution = "ok"] \in Attempt
        /\ [Record(t) EXCEPT !.execution = "failed"] \in Attempt
    BY <1>0, <1>4 DEF TuGraphAnswers, Attempt
  <2>2. "strict_equal" \in Reasons /\ "tugraph_execution_failed" \in Blocked
    BY DEF Reasons, PassReasons, Blocked
  <2> QED
    BY <1>0, <1>4, <1>p, <1>o, <2>1, <2>2, SaveTypeInv DEF TuGraphAnswers
<1>5. CASE ReviewAnswers(t)
  <2>1. /\ [Record(t) EXCEPT !.review = "accepted"] \in Attempt
        /\ [Record(t) EXCEPT !.review = "invalid"] \in Attempt
    BY <1>0, <1>5 DEF ReviewAnswers, Attempt
  <2>2. {"semantic_equivalent", "not_equivalent"} \subseteq Reasons /\ "semantic_review_invalid" \in Blocked
    BY DEF Reasons, PassReasons, FailReasons, Blocked
  <2> QED
    BY <1>0, <1>5, <1>p, <1>o, <2>1, <2>2, SaveTypeInv DEF ReviewAnswers
<1>6. CASE BlockAttempt(t)
  <2>1. [Record(t) EXCEPT !.state = out] \in Attempt
    BY <1>0, <1>6 DEF BlockAttempt, Attempt, States
  <2> QED
    BY <1>0, <1>6, <1>p, <1>o, <2>1, SaveTypeInv DEF BlockAttempt
<1>7. CASE SaveEvaluation(t)
  <2>1. [Record(t) EXCEPT !.evaluation = out] \in Attempt
    BY <1>0, <1>7 DEF SaveEvaluation, Attempt
  <2>2. CASE out \in PassReasons
    BY <1>0, <1>7, <1>p, <2>1, <2>2, SaveTypeInv DEF SaveEvaluation
  <2>3. CASE out \notin PassReasons
    <3>1. out \in FailReasons
      BY <1>0, <1>7, <2>3 DEF SaveEvaluation, Reasons
    <3> QED
      BY <1>0, <1>7, <1>p, <2>1, <2>3, <3>1, SaveTypeInv DEF SaveEvaluation
  <2> QED
    BY <2>2, <2>3
<1>8. CASE SaveTicket(t)
  <2>1. Ticket(t, out) \in [id : Ids, no : Nos, reason : Outcomes]
    BY <1>0 DEF Ticket, Tasks
  <2>2. tickets' \subseteq [id : Ids, no : Nos, reason : Outcomes]
    BY <1>8, <1>k, <2>1 DEF SaveTicket
  <2> QED
    BY <1>0, <1>8, <1>p, <1>k, <2>2, PureMoveTypeInv DEF SaveTicket
<1>9. CASE LinkTicket(t)
  <2>1. [Record(t) EXCEPT !.ticket = TRUE] \in Attempt
    BY <1>0, <1>9 DEF LinkTicket, Attempt
  <2>2. out \in Reasons
    BY <1>0, <1>9 DEF LinkTicket, Reasons
  <2> QED
    BY <1>0, <1>9, <1>p, <1>o, <2>1, <2>2, SaveTypeInv DEF LinkTicket
<1>10. CASE MarkSettled(t)
  <2>1. [Record(t) EXCEPT !.state = IF out \in PassReasons
                                    THEN "passed" ELSE "issue_ticket_created"] \in Attempt
    BY <1>0, <1>10 DEF MarkSettled, Attempt, States, Settled
  <2> QED
    BY <1>0, <1>10, <1>p, <1>o, <2>1, SaveTypeInv DEF MarkSettled
<1>11. CASE AssessImprovement(t)
  <2>1. CASE Evaluated(t.id, t.no) = {}
    BY <1>11, <1>p, <1>o, <1>k, <2>1, PureMoveTypeInv DEF AssessImprovement, Alive
  <2>2. CASE Evaluated(t.id, t.no) # {}
    <3> PICK p \in Evaluated(t.id, t.no) :
           Save(t, [Record(t) EXCEPT !.improvement = p], "done", "none")
      BY <1>11, <2>2 DEF AssessImprovement
    <3>1. p \in Nat
      BY DEF Evaluated
    <3>2. [Record(t) EXCEPT !.improvement = p] \in Attempt
      BY <1>0, <1>11, <3>1 DEF AssessImprovement, Attempt
    <3> QED
      BY <1>0, <1>11, <1>p, <1>o, <3>2, SaveTypeInv DEF AssessImprovement
  <2> QED
    BY <2>1, <2>2
<1>12. CASE DoneCallback(t)
  <2>1. IdleTask = [pc |-> "idle", outcome |-> "none"] /\ "idle" \in Pcs
    BY DEF IdleTask, Pcs
  <2>2. task' \in [Tasks -> TaskRec] /\ TaskInv'
    BY <1>12, <1>o, <2>1, MoveTaskInv DEF DoneCallback, To, disk
  <2>3. background' \in [Ids -> [Nos -> 0..MaxSlots]]
    <3>1. 0 \in 0..MaxSlots /\ background \in [Ids -> [Nos -> 0..MaxSlots]]
      BY TestingAssumption DEF TypeInv, TypeOK
    <3>2. background' = [background EXCEPT ![t.id][t.no] = 0]
      BY <1>12 DEF DoneCallback
    <3> QED
      BY <3>1, <3>2
  <2>4. TypeOK'
    BY <1>12, <2>2, <2>3 DEF DoneCallback, TypeInv, TypeOK, TaskRec, disk
  <2> QED
    BY <2>2, <2>4 DEF TypeInv
<1> QED
  BY <1>1, <1>2, <1>3, <1>4, <1>5, <1>6, <1>7, <1>8, <1>9, <1>10, <1>11, <1>12 DEF Evaluate
\* Only files outside the evaluation change, or tasks are queued.
LEMMA QueueTypeInv ==
  ASSUME TypeInv, task' \in [Tasks -> TaskRec],
         background' \in [Ids -> [Nos -> 0..MaxSlots]],
         \A t \in Tasks : task'[t] = task[t] \/ task'[t].pc \in {"idle", "queued"},
         attempts' \in [Ids -> Seq(Attempt)],
         \A p \in Ids : DOMAIN attempts[p] \subseteq DOMAIN attempts'[p],
         latest' \in [Ids -> Attempt],
         golden' \in [Ids -> Goldens \cup {None}], receipt' \in [Ids -> Runs \cup {None}],
         failures' \in [Ids -> [Runs -> Statuses \cup {"none"}]],
         UNCHANGED <<tickets, crashes, faults>>, up' \in BOOLEAN
  PROVE  TypeInv'
<1>1. TypeOK'
  BY DEF TypeInv, TypeOK, TaskRec
<1>2. TaskInv'
  <2>1. ASSUME NEW t \in Tasks
        PROVE  (task'[t].pc \in Working => t.no \in DOMAIN attempts'[t.id]) /\ Fits(task'[t])
    BY DEF TypeInv, TaskInv, Fits, Tasks, Working, Awaiting, Saving
  <2> QED
    BY <2>1 DEF TaskInv, Fits
<1> QED
  BY <1>1, <1>2 DEF TypeInv

\* Creating an attempt, from either endpoint.
LEMMA CreateTypeInv ==
  ASSUME TypeInv, NEW q \in Ids, NEW r \in Runs, NEW kind \in {"generated", "generation_failed"},
         NEW content \in Contents \cup {None}, CreateAttempt(q, r, kind, content),
         failures' \in [Ids -> [Runs -> Statuses \cup {"none"}]],
         UNCHANGED <<golden, receipt, tickets, faults>>
  PROVE  TypeInv'
<1> DEFINE n == Len(attempts[q]) + 1
           rec == NewAttempt(n, r, kind, content,
               IF golden[q] = None THEN "received_submission_only" ELSE "ready_to_evaluate")
<1>0. attempts[q] \in Seq(Attempt) /\ n \in Nos
  BY TestingAssumption DEF TypeInv, TypeOK, CreateAttempt, Nos
<1>1. rec \in Attempt
  <2>1. n \in 0..MaxAttempts
    BY <1>0 DEF Nos
  <2> QED
    BY <2>1 DEF NewAttempt, Attempt, States
<1>2. latest' \in [Ids -> Attempt]
  BY <1>1 DEF CreateAttempt, TypeInv, TypeOK
<1>3. CASE /\ attempts' = [attempts EXCEPT ![q] = Append(@, rec)]
           /\ IF golden[q] = None THEN UNCHANGED <<task, background>> ELSE Schedule(q, n)
           /\ Alive
  <2>1. /\ attempts' \in [Ids -> Seq(Attempt)]
        /\ \A p \in Ids : DOMAIN attempts[p] \subseteq DOMAIN attempts'[p]
    BY <1>0, <1>1, <1>3, AppendToSeq DEF TypeInv, TypeOK
  <2>2. /\ task' \in [Tasks -> TaskRec]
        /\ background' \in [Ids -> [Nos -> 0..MaxSlots]]
        /\ \A t \in Tasks : task'[t] = task[t] \/ task'[t].pc = "queued"
    BY <1>0, <1>3, ScheduleType DEF TypeInv, TypeOK, TaskRec
  <2> QED
    BY <1>2, <1>3, <2>1, <2>2, QueueTypeInv DEF TypeInv, TypeOK, TaskRec, Alive
<1>4. CASE UNCHANGED attempts /\ Die
  BY <1>2, <1>4, DieTypeInv DEF TypeInv, TypeOK
<1> QED
  BY <1>3, <1>4 DEF CreateAttempt

LEMMA RequestTypeInv ==
  ASSUME TypeInv, NEW q \in Ids, Request(q)
  PROVE  TypeInv'
<1>1. ASSUME NEW g \in Goldens, IngestGolden(q, g)
      PROVE  TypeInv'
  <2> DEFINE n == latest[q].no
             rec == [attempts[q][n] EXCEPT !.state = "ready_to_evaluate"]
  <2>1. golden' \in [Ids -> Goldens \cup {None}]
    BY <1>1 DEF IngestGolden, TypeInv, TypeOK
  <2>2. CASE ~Opens(q)
    BY <1>1, <2>1, <2>2, QueueTypeInv DEF IngestGolden, TypeInv, TypeOK, TaskRec, Alive
  <2>3. CASE Opens(q)
    <3>1. attempts[q] \in Seq(Attempt) /\ latest[q] \in Attempt
      BY DEF TypeInv, TypeOK
    <3>2. n \in Nos /\ n \in DOMAIN attempts[q]
      BY <2>3, <3>1, TestingAssumption DEF Opens, Attempt, Nos
    <3>3. rec \in Attempt
      <4>1. attempts[q][n] \in Attempt
        BY <3>1, <3>2
      <4> QED
        BY <4>1 DEF Attempt, States
    <3>4. CASE Mutate(q, n, rec) /\ Schedule(q, n) /\ Alive
      <4>1. /\ attempts' \in [Ids -> Seq(Attempt)]
            /\ \A p \in Ids : DOMAIN attempts'[p] = DOMAIN attempts[p]
            /\ latest' \in [Ids -> Attempt]
        BY <3>2, <3>3, <3>4, MutateType DEF TypeInv
      <4>2. /\ task' \in [Tasks -> TaskRec]
            /\ background' \in [Ids -> [Nos -> 0..MaxSlots]]
            /\ \A t \in Tasks : task'[t] = task[t] \/ task'[t].pc = "queued"
        BY <3>2, <3>4, ScheduleType DEF TypeInv
      <4> QED
        BY <1>1, <2>1, <3>4, <4>1, <4>2, QueueTypeInv DEF IngestGolden, TypeInv, TypeOK, Alive
    <3>5. CASE TornMutate(q, n, rec)
      <4>1. attempts' \in [Ids -> Seq(Attempt)]
        BY <3>2, <3>3, <3>5, WriteAttemptType DEF TypeInv, TornMutate
      <4> QED
        BY <1>1, <2>1, <3>5, <4>1, DieTypeInv DEF IngestGolden, TornMutate, TypeInv, TypeOK
    <3>6. CASE UNCHANGED <<attempts, latest>> /\ Die
      BY <1>1, <2>1, <3>6, DieTypeInv DEF IngestGolden, TypeInv, TypeOK
    <3> QED
      BY <1>1, <2>3, <3>4, <3>5, <3>6 DEF IngestGolden
  <2> QED
    BY <2>2, <2>3
<1>2. ASSUME NEW r \in Runs, NEW c \in Contents, IngestSubmission(q, r, c)
      PROVE  TypeInv'
  BY <1>2, CreateTypeInv DEF IngestSubmission, TypeInv, TypeOK
<1>3. ASSUME NEW r \in Runs, NEW st \in Reported, IngestGenerationFailure(q, r, st)
      PROVE  TypeInv'
  <2>1. failures' \in [Ids -> [Runs -> Statuses \cup {"none"}]]
    <3>1. st \in Statuses \cup {"none"}
      BY ReportedAssumption
    <3>2. failures' = [failures EXCEPT ![q][r] = st]
      BY <1>3 DEF IngestGenerationFailure
    <3> QED
      BY <3>1, <3>2 DEF TypeInv, TypeOK
  <2>2. CASE UNCHANGED <<attempts, latest, task, background>> /\ Alive
    BY <1>3, <2>1, <2>2, QueueTypeInv DEF IngestGenerationFailure, TypeInv, TypeOK, TaskRec, Alive
  <2>3. CASE CreateAttempt(q, r, "generation_failed", None)
    BY <1>3, <2>1, <2>3, CreateTypeInv DEF IngestGenerationFailure
  <2>4. CASE UNCHANGED <<attempts, latest>> /\ Die
    BY <1>3, <2>1, <2>4, DieTypeInv DEF IngestGenerationFailure, TypeInv, TypeOK
  <2> QED
    BY <1>3, <2>2, <2>3, <2>4 DEF IngestGenerationFailure
<1>4. ASSUME NEW r \in Announced, IngestQuestionReceived(q, r)
      PROVE  TypeInv'
  BY <1>4, TestingAssumption, QueueTypeInv
     DEF IngestQuestionReceived, TypeInv, TypeOK, TaskRec, memory
<1>5. ASSUME GetEvaluationStatus(q)
      PROVE  TypeInv'
  <2>1. latest[q].no \in Nos
    BY <1>5, TestingAssumption DEF GetEvaluationStatus, TypeInv, TypeOK, Attempt, Nos
  <2> QED
    BY <1>5, <2>1, ScheduleType, QueueTypeInv
       DEF GetEvaluationStatus, TypeInv, TypeOK, TaskRec, disk
<1> QED
  BY <1>1, <1>2, <1>3, <1>4, <1>5 DEF Request

LEMMA StartupTypeInv ==
  ASSUME TypeInv, Startup
  PROVE  TypeInv'
<1>1. \A t \in Tasks : [IdleTask EXCEPT !.pc = IF Resumed(t) THEN "queued" ELSE "idle"]
                         \in [pc : {"idle", "queued"}, outcome : {"none"}]
  BY DEF IdleTask
<1>2. task' \in [Tasks -> [pc : {"idle", "queued"}, outcome : {"none"}]]
  BY <1>1 DEF Startup
<1>3. task' \in [Tasks -> TaskRec] /\ \A t \in Tasks : task'[t].pc \in {"idle", "queued"}
  BY <1>2 DEF TaskRec, Pcs, Outcomes
<1>4. background' \in [Ids -> [Nos -> 0..MaxSlots]]
  <2>1. 1 \in 0..MaxSlots /\ 0 \in 0..MaxSlots
    BY TestingAssumption
  <2> QED
    BY <2>1 DEF Startup
<1>5. up' \in BOOLEAN
  BY Zenon DEF Startup
<1>6. UNCHANGED <<golden, receipt, attempts, latest, failures, tickets, crashes, faults>>
  BY DEF Startup, disk
<1> QED
  BY <1>3, <1>4, <1>5, <1>6, QueueTypeInv DEF TypeInv, TypeOK

\* The files and the memory of the testing-agent keep their types, and a task
\* past its lock always works on an attempt file that exists.
THEOREM TypeCorrect == Spec => []TypeOK
<1>1. ASSUME TypeInv, [Next]_vars PROVE TypeInv'
  <2>1. ASSUME NEW q \in Ids, Request(q) PROVE TypeInv'
    BY <1>1, <2>1, RequestTypeInv
  <2>2. ASSUME NEW t \in Tasks, Evaluate(t) \/ LlmRaises(t) PROVE TypeInv'
    BY <1>1, <2>2, EvaluateTypeInv
  <2>3. CASE Crash
    BY <1>1, <2>3, DieTypeInv DEF Crash, TypeInv, TypeOK, disk
  <2>4. CASE Startup
    BY <1>1, <2>4, StartupTypeInv
  <2>5. CASE UNCHANGED vars
    BY <1>1, <2>5 DEF vars, TypeInv, TypeOK, TaskInv, Fits
  <2> QED
    BY <1>1, <2>1, <2>2, <2>3, <2>4, <2>5 DEF Next
<1>2. TypeInv => TypeOK
  BY DEF TypeInv
<1> QED
  BY InitTypeInv, <1>1, <1>2, PTL DEF Spec

-----------------------------------------------------------------------------
(* The verdicts: their inductive invariant.                                *)

\* What attempt a must hold for outcome o to be its verdict.
Evidence(a, o) ==
  /\ o \in PassReasons => a.kind = "generated" /\ a.content \in Grammatical /\ a.execution = "ok"
  /\ o = "semantic_equivalent" => a.review = "accepted"
  /\ o = "not_equivalent" => a.execution = "ok" /\ a.review = "accepted"

\* The ticket of attempt n is in K.
OnFile(q, n, reason, K) == [id |-> q, no |-> n, reason |-> reason] \in K

\* SettledIsBacked of one attempt.
Backed(a, q, n, K) ==
  /\ a.state = "passed" => a.evaluation \in PassReasons /\ Evidence(a, a.evaluation)
  /\ a.state = "issue_ticket_created" =>
       /\ a.evaluation \in FailReasons /\ Evidence(a, a.evaluation)
       /\ a.ticket /\ OnFile(q, n, a.evaluation, K)

\* A task past its lock works on an attempt that is not settled, unless it
\* has just settled it, and what it has written so far is what it will need.
Supported(k, a, q, n, K) ==
  /\ k.pc # "improve" => a.state \notin Settled
  /\ k.pc \in {"executing", "reviewing"} => a.kind = "generated" /\ a.content \in Grammatical
  /\ k.pc = "reviewing" => a.execution = "ok"
  /\ k.pc \in {"save_evaluation", "save_ticket", "link_ticket", "mark"} => Evidence(a, k.outcome)
  /\ k.pc \in {"save_ticket", "link_ticket", "mark"} => a.evaluation = k.outcome
  /\ k.pc \in {"link_ticket", "mark"} /\ k.outcome \in FailReasons => OnFile(q, n, k.outcome, K)
  /\ k.pc = "mark" /\ k.outcome \in FailReasons => a.ticket

AttemptsBacked ==
  \A q \in Ids : \A n \in DOMAIN attempts[q] : Backed(attempts[q][n], q, n, tickets)

TasksSupported ==
  \A t \in Tasks : task[t].pc \in Working => Supported(task[t], attempts[t.id][t.no], t.id, t.no, tickets)

\* The lock of an attempt: two tasks past it are the same task.
OneWorking ==
  \A t, u \in Tasks :
    t.id = u.id /\ t.no = u.no /\ task[t].pc \in Working /\ task[u].pc \in Working => t = u

VInv == AttemptsBacked /\ TasksSupported /\ OneWorking

LEMMA InitVInv == Init => VInv
<1> SUFFICES ASSUME Init PROVE VInv
  OBVIOUS
<1>1. \A q \in Ids : attempts[q] = <<>>
  BY DEF Init
<1>2. \A t \in Tasks : task[t].pc \notin Working
  BY DEF Init, NoTasks, IdleTask, Working, Awaiting, Saving
<1> QED
  BY <1>1, <1>2 DEF VInv, AttemptsBacked, TasksSupported, OneWorking

-----------------------------------------------------------------------------
(* Writing one attempt, and what the other tasks and attempts keep.        *)

LEMMA WrittenElements ==
  ASSUME TypeOK, NEW q \in Ids, NEW n \in DOMAIN attempts[q], NEW rec \in Attempt,
         WriteAttempt(q, n, rec)
  PROVE  /\ attempts'[q][n] = rec
         /\ \A p \in Ids : DOMAIN attempts'[p] = DOMAIN attempts[p]
         /\ \A p \in Ids : \A i \in DOMAIN attempts[p] :
              (p # q \/ i # n) => attempts'[p][i] = attempts[p][i]
<1>1. attempts[q] \in Seq(Attempt) /\ attempts \in [Ids -> Seq(Attempt)]
  BY DEF TypeOK
<1>2. attempts' = [attempts EXCEPT ![q] = [attempts[q] EXCEPT ![n] = rec]]
  BY DEF WriteAttempt
<1>3. attempts'[q] = [attempts[q] EXCEPT ![n] = rec] /\ \A p \in Ids : p # q => attempts'[p] = attempts[p]
  BY <1>1, <1>2
<1>4. attempts'[q][n] = rec /\ \A i \in DOMAIN attempts[q] : i # n => attempts'[q][i] = attempts[q][i]
  BY <1>1, <1>3
<1> QED
  BY <1>3, <1>4, WriteAttemptType

\* No task past its lock moves, and the tickets stay.
LEMMA FrameV ==
  ASSUME VInv, tickets' = tickets,
         \A t \in Tasks : task'[t] = task[t] \/ task'[t].pc \notin Working,
         \A p \in Ids : \A i \in DOMAIN attempts'[p] : Backed(attempts'[p][i], p, i, tickets),
         \A t \in Tasks : task'[t].pc \in Working =>
           Supported(task'[t], attempts'[t.id][t.no], t.id, t.no, tickets)
  PROVE  VInv'
<1>1. AttemptsBacked'
  BY DEF AttemptsBacked
<1>2. TasksSupported'
  BY DEF TasksSupported, Working
<1>3. OneWorking'
  BY DEF VInv, OneWorking, Working
<1> QED
  BY <1>1, <1>2, <1>3 DEF VInv

\* The process dies: no task is left.
LEMMA DieV ==
  ASSUME TypeInv, VInv, Die, tickets' = tickets,
         \A p \in Ids : \A i \in DOMAIN attempts'[p] : Backed(attempts'[p][i], p, i, tickets)
  PROVE  VInv'
<1>1. \A t \in Tasks : task'[t].pc \notin Working
  BY DieType DEF TypeInv, Working, Awaiting, Saving
<1> QED
  BY <1>1, FrameV

\* Nobody else is past the lock that t holds or finds free.
Holds(t) == task[t].pc \in Working \/ LockFree(t)

LEMMA HoldsAlone ==
  ASSUME VInv, NEW t \in Tasks, Holds(t), NEW u \in Tasks,
         u.id = t.id, u.no = t.no, task[u].pc \in Working
  PROVE  u = t
<1>1. CASE task[t].pc \in Working
  BY <1>1 DEF VInv, OneWorking
<1>2. CASE LockFree(t)
  <2>1. u = TaskOf(t.id, t.no, u.slot) /\ u.slot \in Slots
    BY DEF Tasks, TaskOf
  <2>2. task[u].pc \in {"idle", "queued", "done"}
    BY <1>2, <2>1 DEF LockFree
  <2> QED
    BY <2>2 DEF Working, Awaiting, Saving
<1> QED
  BY <1>1, <1>2 DEF Holds

\* A step of one task that holds its lock.
LEMMA OwnStepV ==
  ASSUME TypeInv, VInv, NEW t \in Tasks, Holds(t),
         \A u \in Tasks \ {t} : task'[u] = task[u],
         \A p \in Ids : DOMAIN attempts'[p] = DOMAIN attempts[p],
         \A p \in Ids : \A i \in DOMAIN attempts[p] :
           (p # t.id \/ i # t.no) => attempts'[p][i] = attempts[p][i],
         \A p \in Ids : \A i \in Nat : \A reason \in Outcomes :
           (p # t.id \/ i # t.no) /\ OnFile(p, i, reason, tickets) => OnFile(p, i, reason, tickets'),
         t.no \in DOMAIN attempts[t.id] => Backed(attempts'[t.id][t.no], t.id, t.no, tickets'),
         task'[t].pc \in Working => Supported(task'[t], attempts'[t.id][t.no], t.id, t.no, tickets')
  PROVE  VInv'
<1>0. \A u \in Tasks : u.id \in Ids /\ u.no \in Nat
  BY DEF Tasks, Nos
<1>1. ASSUME NEW p \in Ids, NEW i \in DOMAIN attempts[p]
      PROVE  Backed(attempts'[p][i], p, i, tickets')
  <2>1. CASE p = t.id /\ i = t.no
    BY <2>1
  <2>2. CASE p # t.id \/ i # t.no
    <3>1. attempts'[p][i] = attempts[p][i] /\ Backed(attempts[p][i], p, i, tickets)
      BY <2>2 DEF VInv, AttemptsBacked
    <3>2. i \in Nat
      BY DEF TypeInv, TypeOK
    <3>3. FailReasons \subseteq Outcomes
      BY DEF Outcomes, Reasons
    <3> QED
      BY <2>2, <3>1, <3>2, <3>3 DEF Backed, Evidence
  <2> QED
    BY <2>1, <2>2
<1>2. ASSUME NEW u \in Tasks, u # t, task[u].pc \in Working
      PROVE  Supported(task[u], attempts'[u.id][u.no], u.id, u.no, tickets')
  <2>1. u.id # t.id \/ u.no # t.no
    BY <1>2, HoldsAlone
  <2>2. u.no \in DOMAIN attempts[u.id] /\ Supported(task[u], attempts[u.id][u.no], u.id, u.no, tickets)
    BY <1>2 DEF TypeInv, TaskInv, VInv, TasksSupported
  <2>3. attempts'[u.id][u.no] = attempts[u.id][u.no] /\ task'[u] = task[u]
    BY <1>0, <1>2, <2>1, <2>2
  <2>4. FailReasons \subseteq Outcomes
    BY DEF Outcomes, Reasons
  <2>5. \A reason \in FailReasons : OnFile(u.id, u.no, reason, tickets) => OnFile(u.id, u.no, reason, tickets')
    BY <1>0, <2>1, <2>4
  <2> QED
    BY <2>2, <2>3, <2>5 DEF Supported, Evidence
<1>3. AttemptsBacked'
  BY <1>1 DEF AttemptsBacked
<1>4. TasksSupported'
  BY <1>2 DEF TasksSupported, Working
<1>5. OneWorking'
  <2> SUFFICES ASSUME NEW v \in Tasks, NEW w \in Tasks, v.id = w.id, v.no = w.no,
                      task'[v].pc \in Working, task'[w].pc \in Working
               PROVE  v = w
    BY DEF OneWorking, Working
  <2>1. CASE v # t /\ w # t
    BY <2>1 DEF VInv, OneWorking
  <2>2. CASE v = t /\ w # t
    BY <2>2, HoldsAlone
  <2>3. CASE v # t /\ w = t
    BY <2>3, HoldsAlone
  <2> QED
    BY <2>1, <2>2, <2>3
<1> QED
  BY <1>3, <1>4, <1>5 DEF VInv

\* Saving the attempt of a task past its lock, or dying while it is saved.
LEMMA SaveV ==
  ASSUME TypeInv, VInv, NEW t \in Tasks, task[t].pc \in Working, NEW rec \in Attempt,
         NEW pc \in Pcs, NEW outcome \in Outcomes, Save(t, rec, pc, outcome), tickets' = tickets,
         Backed(rec, t.id, t.no, tickets),
         pc \in Working => Supported([pc |-> pc, outcome |-> outcome], rec, t.id, t.no, tickets)
  PROVE  VInv'
<1>1. t.no \in DOMAIN attempts[t.id] /\ t.id \in Ids
  BY DEF TypeInv, TaskInv, Tasks
<1>2. WriteAttempt(t.id, t.no, rec)
  BY DEF Save, Mutate, TornMutate
<1>3. /\ attempts'[t.id][t.no] = rec
      /\ \A p \in Ids : DOMAIN attempts'[p] = DOMAIN attempts[p]
      /\ \A p \in Ids : \A i \in DOMAIN attempts[p] :
           (p # t.id \/ i # t.no) => attempts'[p][i] = attempts[p][i]
  BY <1>1, <1>2, WrittenElements DEF TypeInv
<1>4. CASE To(t, pc, outcome)
  <2>1. task'[t] = [pc |-> pc, outcome |-> outcome] /\ \A u \in Tasks \ {t} : task'[u] = task[u]
    BY <1>4, ToType DEF TypeInv
  <2>2. Backed(attempts'[t.id][t.no], t.id, t.no, tickets')
    BY <1>3
  <2>3. task'[t].pc \in Working => Supported(task'[t], attempts'[t.id][t.no], t.id, t.no, tickets')
    BY <1>3, <2>1
  <2>4. \A p \in Ids : \A i \in Nat : \A reason \in Outcomes : OnFile(p, i, reason, tickets) => OnFile(p, i, reason, tickets')
    OBVIOUS
  <2> QED
    BY <1>3, <2>1, <2>2, <2>3, <2>4, OwnStepV DEF Holds
<1>5. CASE TornMutate(t.id, t.no, rec)
  <2>1. ASSUME NEW p \in Ids, NEW i \in DOMAIN attempts'[p]
        PROVE  Backed(attempts'[p][i], p, i, tickets)
    <3>1. CASE p = t.id /\ i = t.no
      BY <1>3, <3>1
    <3>2. CASE p # t.id \/ i # t.no
      BY <1>3, <3>2 DEF VInv, AttemptsBacked
    <3> QED
      BY <3>1, <3>2
  <2> QED
    BY <1>5, <2>1, DieV DEF TornMutate
<1> QED
  BY <1>4, <1>5 DEF Save

\* Nothing is written and nobody moves past a lock.
LEMMA RestV ==
  ASSUME VInv, UNCHANGED <<attempts, tickets>>,
         \A t \in Tasks : task'[t] = task[t] \/ task'[t].pc \notin Working
  PROVE  VInv'
  BY FrameV DEF VInv, AttemptsBacked, TasksSupported

\* A task that holds its lock goes on without writing its attempt.
LEMMA MoveV ==
  ASSUME TypeInv, VInv, NEW t \in Tasks, Holds(t), NEW pc \in Pcs, NEW outcome \in Outcomes,
         To(t, pc, outcome), UNCHANGED <<attempts, tickets>>,
         t.no \in DOMAIN attempts[t.id],
         Supported([pc |-> pc, outcome |-> outcome], Record(t), t.id, t.no, tickets)
  PROVE  VInv'
<1>1. task'[t] = [pc |-> pc, outcome |-> outcome] /\ \A u \in Tasks \ {t} : task'[u] = task[u]
  BY ToType DEF TypeInv
<1>2. Backed(attempts'[t.id][t.no], t.id, t.no, tickets')
  BY DEF VInv, AttemptsBacked, Tasks
<1>3. Supported(task'[t], attempts'[t.id][t.no], t.id, t.no, tickets')
  BY <1>1 DEF Record
<1> QED
  BY <1>1, <1>2, <1>3, OwnStepV

\* A task that stops working leaves the attempts to the others.
LEMMA StopV ==
  ASSUME TypeInv, VInv, NEW t \in Tasks, NEW pc \in Pcs \ Working, NEW outcome \in Outcomes,
         To(t, pc, outcome), UNCHANGED <<attempts, tickets>>
  PROVE  VInv'
<1>1. task'[t] = [pc |-> pc, outcome |-> outcome] /\ \A u \in Tasks \ {t} : task'[u] = task[u]
  BY ToType DEF TypeInv
<1>2. task'[t].pc \notin Working
  BY <1>1
<1> QED
  BY <1>1, <1>2, RestV

-----------------------------------------------------------------------------
(* The evaluation of an attempt.                                           *)

\* A task that gets the lock works on an attempt that is not settled.
LEMMA StartV ==
  ASSUME TypeInv, VInv, NEW t \in Tasks, StartEvaluation(t)
  PROVE  VInv'
<1> DEFINE a == Record(t)
<1>1. "done" \in Pcs \ Working /\ "none" \in Outcomes /\ "grammar_failed" \in Outcomes
  BY DEF Pcs, Working, Awaiting, Saving, Outcomes, Reasons, FailReasons
<1>0. UNCHANGED <<attempts, tickets>>
  BY DEF StartEvaluation, disk
<1>2. CASE To(t, "done", "none")
  BY <1>0, <1>1, <1>2, StopV
<1>3. CASE ~To(t, "done", "none")
  <2>1. t.no \in DOMAIN attempts[t.id] /\ ~Finished(a)
    BY <1>3, TestingAssumption DEF StartEvaluation, TypeInv, TypeOK, Tasks, Nos
  <2>2. a \in Attempt /\ Backed(a, t.id, t.no, tickets)
    BY <2>1, RecordType DEF TypeInv, VInv, AttemptsBacked, Record, Tasks
  <2>3. a.state \notin Settled
    <3>1. "none" \notin PassReasons \cup FailReasons
      BY DEF PassReasons, FailReasons
    <3> QED
      BY <2>1, <2>2, <3>1 DEF Finished, Backed, Settled
  <2>4. Holds(t)
    BY DEF StartEvaluation, Holds
  <2>5. CASE a.kind = "generation_failed"
    <3>1. To(t, "save_evaluation", "grammar_failed")
      BY <1>3, <2>1, <2>5 DEF StartEvaluation
    <3>2. Supported([pc |-> "save_evaluation", outcome |-> "grammar_failed"], a, t.id, t.no, tickets)
      BY <2>3 DEF Supported, Evidence, PassReasons
    <3>3. "save_evaluation" \in Pcs
      BY DEF Pcs, Saving
    <3> QED
      BY <1>0, <1>1, <2>1, <2>4, <3>1, <3>2, <3>3, MoveV
  <2>6. CASE a.kind # "generation_failed" /\ a.content \in Grammatical
    <3>1. To(t, "executing", "none")
      BY <1>3, <2>1, <2>6 DEF StartEvaluation
    <3>2. a.kind = "generated"
      BY <2>2, <2>6 DEF Attempt
    <3>3. Supported([pc |-> "executing", outcome |-> "none"], a, t.id, t.no, tickets)
      BY <2>3, <2>6, <3>2 DEF Supported
    <3>4. "executing" \in Pcs
      BY DEF Pcs, Awaiting
    <3> QED
      BY <1>0, <1>1, <2>1, <2>4, <3>1, <3>3, <3>4, MoveV
  <2>7. CASE a.kind # "generation_failed" /\ a.content \notin Grammatical
    <3>1. To(t, "explaining", "none")
      BY <1>3, <2>1, <2>7 DEF StartEvaluation
    <3>2. Supported([pc |-> "explaining", outcome |-> "none"], a, t.id, t.no, tickets)
      BY <2>3 DEF Supported
    <3>3. "explaining" \in Pcs
      BY DEF Pcs, Awaiting
    <3> QED
      BY <1>0, <1>1, <2>1, <2>4, <3>1, <3>2, <3>3, MoveV
  <2> QED
    BY <2>5, <2>6, <2>7
<1> QED
  BY <1>2, <1>3

\* Each step of an evaluation leaves what the next one needs.
LEMMA EvaluateV ==
  ASSUME TypeInv, VInv, NEW t \in Tasks, Evaluate(t) \/ LlmRaises(t)
  PROVE  VInv'
<1> DEFINE a == Record(t)
           out == task[t].outcome
<1>0. task[t].pc \in Working =>
        /\ t.no \in DOMAIN attempts[t.id] /\ a \in Attempt
        /\ Supported(task[t], a, t.id, t.no, tickets) /\ Backed(a, t.id, t.no, tickets)
        /\ out \in Outcomes /\ Fits(task[t])
  BY RecordType DEF TypeInv, TaskInv, TypeOK, VInv, TasksSupported, AttemptsBacked, Record, Tasks
<1>w. \A pc \in {"explaining", "executing", "reviewing", "block", "save_evaluation",
        "save_ticket", "link_ticket", "mark", "improve"} : pc \in Working /\ pc \in Pcs
  BY DEF Working, Awaiting, Saving, Pcs
<1>d. "done" \in Pcs \ Working /\ "idle" \in Pcs \ Working /\ "none" \in Outcomes
  BY DEF Pcs, Working, Awaiting, Saving, Outcomes
<1>o. Reasons \subseteq Outcomes /\ Blocked \subseteq Outcomes
  BY DEF Outcomes
<1>1. CASE StartEvaluation(t)
  BY <1>1, StartV
<1>2. CASE GrammarExplained(t)
  <2>1. UNCHANGED <<attempts, tickets>> /\ To(t, "save_evaluation", "grammar_failed")
        /\ task[t].pc = "explaining"
    BY <1>2 DEF GrammarExplained, disk
  <2>2. Supported([pc |-> "save_evaluation", outcome |-> "grammar_failed"], a, t.id, t.no, tickets)
    BY <1>0, <1>w, <2>1 DEF Supported, Evidence, PassReasons
  <2>3. "grammar_failed" \in Outcomes /\ Holds(t)
    BY <1>o, <1>w, <2>1 DEF Reasons, FailReasons, Holds
  <2> QED
    BY <1>0, <1>w, <2>1, <2>2, <2>3, MoveV
<1>3. CASE LlmRaises(t)
  <2>1. UNCHANGED <<attempts, tickets>> /\ To(t, "done", "none")
    BY <1>3 DEF LlmRaises, disk
  <2> QED
    BY <1>d, <2>1, StopV
<1>4. CASE DoneCallback(t)
  <2>1. UNCHANGED <<attempts, tickets>> /\ To(t, "idle", "none")
    BY <1>4 DEF DoneCallback, To, IdleTask, disk
  <2> QED
    BY <1>d, <2>1, StopV
<1>5. CASE TuGraphAnswers(t)
  <2>1. task[t].pc = "executing" /\ tickets' = tickets
    BY <1>5 DEF TuGraphAnswers
  <2>2. /\ a.state \notin Settled /\ a.kind = "generated" /\ a.content \in Grammatical
    BY <1>0, <1>w, <2>1 DEF Supported
  <2>3. ASSUME NEW e \in {"ok", "failed"}
        PROVE  /\ [a EXCEPT !.execution = e] \in Attempt
               /\ [a EXCEPT !.execution = e].execution = e
               /\ [a EXCEPT !.execution = e].state = a.state
               /\ [a EXCEPT !.execution = e].kind = a.kind
               /\ [a EXCEPT !.execution = e].content = a.content
               /\ Backed([a EXCEPT !.execution = e], t.id, t.no, tickets)
    BY <1>0, <1>w, <2>1, <2>2 DEF Attempt, Backed, Settled
  <2>4. CASE Save(t, [a EXCEPT !.execution = "ok"], "save_evaluation", "strict_equal")
    <3>1. Supported([pc |-> "save_evaluation", outcome |-> "strict_equal"],
                    [a EXCEPT !.execution = "ok"], t.id, t.no, tickets)
      BY <2>2, <2>3 DEF Supported, Evidence
    <3>2. "strict_equal" \in Outcomes
      BY <1>o DEF Reasons, PassReasons
    <3> QED
      BY <1>w, <2>1, <2>3, <2>4, <3>1, <3>2, SaveV
  <2>5. CASE Save(t, [a EXCEPT !.execution = "ok"], "reviewing", "none")
    <3>1. Supported([pc |-> "reviewing", outcome |-> "none"],
                    [a EXCEPT !.execution = "ok"], t.id, t.no, tickets)
      BY <2>2, <2>3 DEF Supported
    <3> QED
      BY <1>w, <1>d, <2>1, <2>3, <2>5, <3>1, SaveV
  <2>6. CASE Save(t, [a EXCEPT !.execution = "failed"], "block", "tugraph_execution_failed")
    <3>1. Supported([pc |-> "block", outcome |-> "tugraph_execution_failed"],
                    [a EXCEPT !.execution = "failed"], t.id, t.no, tickets)
      BY <2>2, <2>3 DEF Supported
    <3>2. "tugraph_execution_failed" \in Outcomes
      BY <1>o DEF Blocked
    <3> QED
      BY <1>w, <2>1, <2>3, <2>6, <3>1, <3>2, SaveV
  <2> QED
    BY <1>5, <2>4, <2>5, <2>6 DEF TuGraphAnswers
<1>6. CASE ReviewAnswers(t)
  <2>1. task[t].pc = "reviewing" /\ tickets' = tickets
    BY <1>6 DEF ReviewAnswers
  <2>2. /\ a.state \notin Settled /\ a.execution = "ok"
        /\ a.kind = "generated" /\ a.content \in Grammatical
    BY <1>0, <1>w, <2>1 DEF Supported
  <2>3. ASSUME NEW e \in {"accepted", "invalid"}
        PROVE  /\ [a EXCEPT !.review = e] \in Attempt
               /\ [a EXCEPT !.review = e].review = e
               /\ [a EXCEPT !.review = e].state = a.state
               /\ [a EXCEPT !.review = e].kind = a.kind
               /\ [a EXCEPT !.review = e].content = a.content
               /\ [a EXCEPT !.review = e].execution = a.execution
               /\ Backed([a EXCEPT !.review = e], t.id, t.no, tickets)
    BY <1>0, <1>w, <2>1, <2>2 DEF Attempt, Backed, Settled
  <2>4. ASSUME NEW o \in {"semantic_equivalent", "not_equivalent"},
               Save(t, [a EXCEPT !.review = "accepted"], "save_evaluation", o)
        PROVE  VInv'
    <3>1. Supported([pc |-> "save_evaluation", outcome |-> o],
                    [a EXCEPT !.review = "accepted"], t.id, t.no, tickets)
      BY <2>2, <2>3 DEF Supported, Evidence
    <3>2. o \in Outcomes
      BY <1>o DEF Reasons, PassReasons, FailReasons
    <3> QED
      BY <1>w, <2>1, <2>3, <2>4, <3>1, <3>2, SaveV
  <2>5. CASE Save(t, [a EXCEPT !.review = "invalid"], "block", "semantic_review_invalid")
    <3>1. Supported([pc |-> "block", outcome |-> "semantic_review_invalid"],
                    [a EXCEPT !.review = "invalid"], t.id, t.no, tickets)
      BY <2>2, <2>3 DEF Supported
    <3>2. "semantic_review_invalid" \in Outcomes
      BY <1>o DEF Blocked
    <3> QED
      BY <1>w, <2>1, <2>3, <2>5, <3>1, <3>2, SaveV
  <2> QED
    BY <1>6, <2>4, <2>5 DEF ReviewAnswers
<1>7. CASE BlockAttempt(t)
  <2>1. task[t].pc = "block" /\ tickets' = tickets /\ Save(t, [a EXCEPT !.state = out], "done", "none")
    BY <1>7 DEF BlockAttempt
  <2>2. out \in Blocked
    BY <1>0, <1>w, <2>1 DEF Fits
  <2>3. [a EXCEPT !.state = out] \in Attempt /\ Backed([a EXCEPT !.state = out], t.id, t.no, tickets)
    BY <1>0, <1>w, <2>1, <2>2 DEF Attempt, States, Backed, Blocked
  <2> QED
    BY <1>w, <1>d, <2>1, <2>3, SaveV
<1>8. CASE SaveEvaluation(t)
  <2> DEFINE rec == [a EXCEPT !.evaluation = out]
  <2>1. task[t].pc = "save_evaluation" /\ tickets' = tickets
    BY <1>8 DEF SaveEvaluation
  <2>2. a.state \notin Settled /\ Evidence(a, out) /\ out \in Reasons
    BY <1>0, <1>w, <2>1 DEF Supported, Fits
  <2>3. /\ rec \in Attempt /\ rec.evaluation = out /\ rec.state = a.state /\ rec.kind = a.kind
        /\ rec.content = a.content /\ rec.execution = a.execution /\ rec.review = a.review
    BY <1>0, <1>w, <2>1, <2>2 DEF Attempt
  <2>4. Evidence(rec, out) /\ Backed(rec, t.id, t.no, tickets)
    BY <2>2, <2>3 DEF Evidence, Backed, Settled
  <2>5. CASE out \in PassReasons
    <3>1. Save(t, rec, "mark", out)
      BY <1>8, <2>5 DEF SaveEvaluation
    <3>2. Supported([pc |-> "mark", outcome |-> out], rec, t.id, t.no, tickets)
      BY <2>2, <2>3, <2>4, <2>5 DEF Supported, PassReasons, FailReasons
    <3> QED
      BY <1>0, <1>w, <2>1, <2>3, <2>4, <3>1, <3>2, SaveV
  <2>6. CASE out \notin PassReasons
    <3>1. Save(t, rec, "save_ticket", out)
      BY <1>8, <2>6 DEF SaveEvaluation
    <3>2. Supported([pc |-> "save_ticket", outcome |-> out], rec, t.id, t.no, tickets)
      BY <2>2, <2>3, <2>4 DEF Supported
    <3> QED
      BY <1>0, <1>w, <2>1, <2>3, <2>4, <3>1, <3>2, SaveV
  <2> QED
    BY <2>5, <2>6
<1>9. CASE SaveTicket(t)
  <2>1. task[t].pc = "save_ticket" /\ To(t, "link_ticket", out) /\ attempts' = attempts
        /\ tickets' = {k \in tickets : <<k.id, k.no>> # <<t.id, t.no>>} \cup {Ticket(t, out)}
    BY <1>9 DEF SaveTicket
  <2>2. a.state \notin Settled /\ Evidence(a, out) /\ a.evaluation = out
    BY <1>0, <1>w, <2>1 DEF Supported
  <2>3. task'[t] = [pc |-> "link_ticket", outcome |-> out] /\ \A u \in Tasks \ {t} : task'[u] = task[u]
    BY <1>0, <1>w, <2>1, ToType DEF TypeInv
  <2>4. OnFile(t.id, t.no, out, tickets')
    BY <2>1 DEF OnFile, Ticket
  <2>5. \A p \in Ids : \A i \in Nat : \A reason \in Outcomes :
          (p # t.id \/ i # t.no) /\ OnFile(p, i, reason, tickets) => OnFile(p, i, reason, tickets')
    BY <2>1 DEF OnFile
  <2>6. Backed(a, t.id, t.no, tickets')
    BY <2>2 DEF Backed, Settled
  <2>7. Supported([pc |-> "link_ticket", outcome |-> out], a, t.id, t.no, tickets')
    BY <2>2, <2>4 DEF Supported
  <2>8. Holds(t)
    BY <1>w, <2>1 DEF Holds
  <2> QED
    BY <1>0, <1>w, <2>1, <2>3, <2>5, <2>6, <2>7, <2>8, OwnStepV DEF Record
<1>10. CASE LinkTicket(t)
  <2> DEFINE rec == [a EXCEPT !.ticket = TRUE]
  <2>1. task[t].pc = "link_ticket" /\ tickets' = tickets /\ Save(t, rec, "mark", out)
    BY <1>10 DEF LinkTicket
  <2>2. /\ a.state \notin Settled /\ Evidence(a, out) /\ a.evaluation = out
        /\ out \in FailReasons /\ OnFile(t.id, t.no, out, tickets)
    BY <1>0, <1>w, <2>1 DEF Supported, Fits
  <2>3. /\ rec \in Attempt /\ rec.evaluation = out /\ rec.state = a.state /\ rec.kind = a.kind
        /\ rec.content = a.content /\ rec.execution = a.execution /\ rec.review = a.review
        /\ rec.ticket = TRUE
    BY <1>0, <1>w, <2>1, <2>2 DEF Attempt
  <2>4. Evidence(rec, out) /\ Backed(rec, t.id, t.no, tickets)
    BY <2>2, <2>3 DEF Evidence, Backed, Settled
  <2>5. Supported([pc |-> "mark", outcome |-> out], rec, t.id, t.no, tickets)
    BY <2>2, <2>3, <2>4 DEF Supported
  <2> QED
    BY <1>0, <1>w, <2>1, <2>3, <2>4, <2>5, SaveV
<1>11. CASE MarkSettled(t)
  <2> DEFINE state == IF out \in PassReasons THEN "passed" ELSE "issue_ticket_created"
             rec == [a EXCEPT !.state = state]
  <2>1. task[t].pc = "mark" /\ tickets' = tickets /\ Save(t, rec, "improve", "none")
    BY <1>11 DEF MarkSettled
  <2>2. /\ Evidence(a, out) /\ a.evaluation = out /\ out \in Reasons
        /\ out \in FailReasons => a.ticket /\ OnFile(t.id, t.no, out, tickets)
    BY <1>0, <1>w, <2>1 DEF Supported, Fits
  <2>3. state \in States
    BY DEF States, Settled
  <2>4. /\ rec \in Attempt /\ rec.evaluation = out /\ rec.state = state /\ rec.kind = a.kind
        /\ rec.content = a.content /\ rec.execution = a.execution /\ rec.review = a.review
        /\ rec.ticket = a.ticket
    BY <1>0, <1>w, <2>1, <2>2, <2>3 DEF Attempt
  <2>5. Evidence(rec, out)
    BY <2>2, <2>4 DEF Evidence
  <2>6. Backed(rec, t.id, t.no, tickets)
    BY <2>2, <2>4, <2>5 DEF Backed, Reasons
  <2>7. Supported([pc |-> "improve", outcome |-> "none"], rec, t.id, t.no, tickets)
    BY DEF Supported
  <2> QED
    BY <1>w, <1>d, <2>1, <2>4, <2>6, <2>7, SaveV
<1>12. CASE AssessImprovement(t)
  <2>1. task[t].pc = "improve" /\ tickets' = tickets
    BY <1>12 DEF AssessImprovement
  <2>2. CASE Evaluated(t.id, t.no) = {}
    <3>1. UNCHANGED <<attempts, tickets>> /\ To(t, "done", "none")
      BY <1>12, <2>2 DEF AssessImprovement
    <3> QED
      BY <1>d, <3>1, StopV
  <2>3. CASE Evaluated(t.id, t.no) # {}
    <3> PICK p \in Evaluated(t.id, t.no) :
           Save(t, [a EXCEPT !.improvement = p], "done", "none")
      BY <1>12, <2>3 DEF AssessImprovement
    <3> DEFINE rec == [a EXCEPT !.improvement = p]
    <3>1. p \in Nat
      BY DEF Evaluated
    <3>2. /\ rec \in Attempt /\ rec.evaluation = a.evaluation /\ rec.state = a.state
          /\ rec.kind = a.kind /\ rec.content = a.content /\ rec.execution = a.execution
          /\ rec.review = a.review /\ rec.ticket = a.ticket
      BY <1>0, <1>w, <2>1, <3>1 DEF Attempt
    <3>3. Backed(rec, t.id, t.no, tickets)
      BY <1>0, <1>w, <2>1, <3>2 DEF Backed, Evidence
    <3> QED
      BY <1>w, <1>d, <2>1, <3>2, <3>3, SaveV
  <2> QED
    BY <2>2, <2>3
<1> QED
  BY <1>1, <1>2, <1>3, <1>4, <1>5, <1>6, <1>7, <1>8, <1>9, <1>10, <1>11, <1>12 DEF Evaluate

-----------------------------------------------------------------------------
(* The requests, death and restart.                                        *)

\* Opening the attempts of a sample: nobody is past a lock afterwards who was
\* not before.
LEMMA ScheduleV ==
  ASSUME TypeInv, NEW q \in Ids, NEW n \in Nos, Schedule(q, n)
  PROVE  \A t \in Tasks : task'[t] = task[t] \/ task'[t].pc \notin Working
<1>1. "queued" \notin Working
  BY DEF Working, Awaiting, Saving
<1> QED
  BY <1>1, ScheduleType DEF TypeInv

\* A new attempt is not settled, and no task works on it yet.
LEMMA CreateV ==
  ASSUME TypeInv, VInv, NEW q \in Ids, NEW r, NEW kind, NEW content,
         CreateAttempt(q, r, kind, content), tickets' = tickets
  PROVE  VInv'
<1> DEFINE n == Len(attempts[q]) + 1
           rec == NewAttempt(n, r, kind, content,
               IF golden[q] = None THEN "received_submission_only" ELSE "ready_to_evaluate")
<1>0. attempts[q] \in Seq(Attempt) /\ n \in Nos
  BY TestingAssumption DEF TypeInv, TypeOK, CreateAttempt, Nos
<1>1. rec.state \notin Settled
  BY DEF NewAttempt, Settled
<1>2. CASE UNCHANGED attempts /\ Die
  BY <1>2, DieV DEF VInv, AttemptsBacked
<1>3. CASE /\ attempts' = [attempts EXCEPT ![q] = Append(@, rec)]
           /\ IF golden[q] = None THEN UNCHANGED <<task, background>> ELSE Schedule(q, n)
  <2>1. /\ attempts'[q] = Append(attempts[q], rec)
        /\ \A p \in Ids : p # q => attempts'[p] = attempts[p]
    BY <1>3 DEF TypeInv, TypeOK
  <2>2. /\ DOMAIN attempts'[q] = DOMAIN attempts[q] \cup {n}
        /\ \A i \in DOMAIN attempts[q] : attempts'[q][i] = attempts[q][i]
        /\ attempts'[q][n] = rec
    BY <1>0, <2>1
  <2>3. \A t \in Tasks : task'[t] = task[t] \/ task'[t].pc \notin Working
    BY <1>0, <1>3, ScheduleV
  <2>4. Backed(rec, q, n, tickets)
    BY <1>1 DEF Backed, Settled
  <2>5. ASSUME NEW p \in Ids, NEW i \in DOMAIN attempts'[p]
        PROVE  Backed(attempts'[p][i], p, i, tickets)
    <3>1. CASE p = q /\ i = n
      BY <2>2, <2>4, <3>1
    <3>2. CASE p # q \/ i # n
      BY <2>1, <2>2, <3>2 DEF VInv, AttemptsBacked
    <3> QED
      BY <3>1, <3>2
  <2>6. ASSUME NEW t \in Tasks, task'[t].pc \in Working
        PROVE  Supported(task'[t], attempts'[t.id][t.no], t.id, t.no, tickets)
    <3>1. task'[t] = task[t] /\ t.id \in Ids
      BY <2>3, <2>6 DEF Tasks
    <3>2. t.no \in DOMAIN attempts[t.id]
      BY <2>6, <3>1 DEF TypeInv, TaskInv
    <3>3. attempts'[t.id][t.no] = attempts[t.id][t.no]
      BY <2>1, <2>2, <3>1, <3>2
    <3> QED
      BY <2>6, <3>1, <3>3 DEF VInv, TasksSupported
  <2> QED
    BY <2>3, <2>5, <2>6, FrameV
<1> QED
  BY <1>2, <1>3 DEF CreateAttempt

\* Opening an attempt again takes nothing from the task that evaluates it.
LEMMA GoldenV ==
  ASSUME TypeInv, VInv, NEW q \in Ids, NEW g \in Goldens, IngestGolden(q, g)
  PROVE  VInv'
<1> DEFINE n == latest[q].no
           rec == [attempts[q][n] EXCEPT !.state = "ready_to_evaluate"]
<1>0. tickets' = tickets
  BY DEF IngestGolden
<1>1. CASE ~Opens(q)
  BY <1>0, <1>1, RestV DEF IngestGolden
<1>2. CASE Opens(q)
  <2>1. attempts[q] \in Seq(Attempt) /\ latest[q] \in Attempt
    BY DEF TypeInv, TypeOK
  <2>2. n \in Nos /\ n \in DOMAIN attempts[q] /\ attempts[q][n] \in Attempt
    <3>1. n \in 0..MaxAttempts /\ n # 0 /\ n <= Len(attempts[q])
      BY <1>2, <2>1 DEF Opens, Attempt
    <3>2. n \in Nos /\ n \in DOMAIN attempts[q]
      BY <2>1, <3>1, TestingAssumption DEF Nos
    <3> QED
      BY <2>1, <3>2
  <2>3. /\ rec \in Attempt /\ rec.state = "ready_to_evaluate" /\ rec.kind = attempts[q][n].kind
        /\ rec.content = attempts[q][n].content /\ rec.execution = attempts[q][n].execution
    BY <2>2 DEF Attempt, States
  <2>4. Backed(rec, q, n, tickets)
    BY <2>3 DEF Backed
  <2>5. CASE UNCHANGED <<attempts, latest>> /\ Die
    BY <1>0, <2>5, DieV DEF VInv, AttemptsBacked
  <2>6. CASE WriteAttempt(q, n, rec)
    <3>1. /\ attempts'[q][n] = rec
          /\ \A p \in Ids : DOMAIN attempts'[p] = DOMAIN attempts[p]
          /\ \A p \in Ids : \A i \in DOMAIN attempts[p] :
               (p # q \/ i # n) => attempts'[p][i] = attempts[p][i]
      BY <2>2, <2>3, <2>6, WrittenElements DEF TypeInv
    <3>2. ASSUME NEW p \in Ids, NEW i \in DOMAIN attempts'[p]
          PROVE  Backed(attempts'[p][i], p, i, tickets)
      <4>1. CASE p = q /\ i = n
        BY <2>4, <3>1, <4>1
      <4>2. CASE p # q \/ i # n
        BY <3>1, <4>2 DEF VInv, AttemptsBacked
      <4> QED
        BY <4>1, <4>2
    <3>3. CASE Die
      BY <1>0, <3>2, <3>3, DieV
    <3>4. CASE Schedule(q, n)
      <4>1. \A t \in Tasks : task'[t] = task[t] \/ task'[t].pc \notin Working
        BY <2>2, <3>4, ScheduleV
      <4>2. ASSUME NEW t \in Tasks, task'[t].pc \in Working
            PROVE  Supported(task'[t], attempts'[t.id][t.no], t.id, t.no, tickets)
        <5>1. /\ task'[t] = task[t] /\ t.id \in Ids /\ task[t].pc \in Awaiting
          BY <4>1, <4>2 DEF Tasks, IngestGolden, LoopFree, Working
        <5>2. t.no \in DOMAIN attempts[t.id] /\ Supported(task[t], attempts[t.id][t.no], t.id, t.no, tickets)
          BY <4>2, <5>1 DEF TypeInv, TaskInv, VInv, TasksSupported
        <5>3. CASE t.id = q /\ t.no = n
          <6>1. Supported(task[t], attempts[q][n], q, n, tickets)
            BY <5>2, <5>3
          <6>2. task[t].pc \in {"explaining", "executing", "reviewing"}
            BY <5>1 DEF Awaiting
          <6>3. Supported(task[t], rec, q, n, tickets)
            BY <2>3, <6>1, <6>2 DEF Supported, Settled
          <6> QED
            BY <3>1, <5>1, <5>3, <6>3
        <5>4. CASE t.id # q \/ t.no # n
          BY <3>1, <5>1, <5>2, <5>4
        <5> QED
          BY <5>3, <5>4
      <4> QED
        BY <1>0, <3>2, <4>1, <4>2, FrameV
    <3> QED
      BY <1>2, <2>6, <3>3, <3>4 DEF IngestGolden, TornMutate, WriteAttempt
  <2> QED
    BY <1>2, <2>5, <2>6 DEF IngestGolden, Mutate, TornMutate
<1> QED
  BY <1>1, <1>2

LEMMA RequestV ==
  ASSUME TypeInv, VInv, NEW q \in Ids, Request(q)
  PROVE  VInv'
<1>1. ASSUME NEW g \in Goldens, IngestGolden(q, g) PROVE VInv'
  BY <1>1, GoldenV
<1>2. ASSUME NEW r \in Runs, NEW c \in Contents, IngestSubmission(q, r, c) PROVE VInv'
  BY <1>2, CreateV DEF IngestSubmission
<1>3. ASSUME NEW r \in Runs, NEW st \in Reported, IngestGenerationFailure(q, r, st) PROVE VInv'
  <2>0. tickets' = tickets
    BY <1>3 DEF IngestGenerationFailure
  <2>1. CASE UNCHANGED <<attempts, latest, task, background>> /\ Alive
    BY <2>0, <2>1, RestV
  <2>2. CASE CreateAttempt(q, r, "generation_failed", None)
    BY <2>0, <2>2, CreateV
  <2>3. CASE UNCHANGED <<attempts, latest>> /\ Die
    BY <2>0, <2>3, DieV DEF VInv, AttemptsBacked
  <2> QED
    BY <1>3, <2>1, <2>2, <2>3 DEF IngestGenerationFailure
<1>4. ASSUME NEW r \in Announced, IngestQuestionReceived(q, r) PROVE VInv'
  BY <1>4, RestV DEF IngestQuestionReceived, memory
<1>5. ASSUME GetEvaluationStatus(q) PROVE VInv'
  <2>1. latest[q].no \in Nos /\ Schedule(q, latest[q].no) /\ UNCHANGED <<attempts, tickets>>
    BY <1>5, TestingAssumption DEF GetEvaluationStatus, TypeInv, TypeOK, Attempt, Nos, disk
  <2> QED
    BY <2>1, ScheduleV, RestV
<1> QED
  BY <1>1, <1>2, <1>3, <1>4, <1>5 DEF Request

LEMMA StartupV ==
  ASSUME VInv, Startup
  PROVE  VInv'
<1>1. "queued" \notin Working /\ "idle" \notin Working
  BY DEF Working, Awaiting, Saving
<1>2. \A t \in Tasks : task'[t].pc \in {"queued", "idle"}
  BY DEF Startup, IdleTask
<1> QED
  BY <1>1, <1>2, RestV DEF Startup, disk

LEMMA VerdictInductive == Spec => [](TypeInv /\ VInv)
<1>1. ASSUME TypeInv, VInv, [Next]_vars PROVE TypeInv' /\ VInv'
  <2>1. ASSUME NEW q \in Ids, Request(q) PROVE TypeInv' /\ VInv'
    BY <1>1, <2>1, RequestTypeInv, RequestV
  <2>2. ASSUME NEW t \in Tasks, Evaluate(t) \/ LlmRaises(t) PROVE TypeInv' /\ VInv'
    BY <1>1, <2>2, EvaluateTypeInv, EvaluateV
  <2>3. CASE Crash
    <3>1. VInv'
      BY <1>1, <2>3, DieV DEF Crash, disk, VInv, AttemptsBacked
    <3> QED
      BY <1>1, <2>3, <3>1, DieTypeInv DEF Crash, TypeInv, TypeOK, disk
  <2>4. CASE Startup
    BY <1>1, <2>4, StartupTypeInv, StartupV
  <2>5. CASE UNCHANGED vars
    <3>1. VInv'
      BY <1>1, <2>5, RestV DEF vars
    <3> QED
      BY <1>1, <2>5, <3>1 DEF vars, TypeInv, TypeOK, TaskInv, Fits
  <2> QED
    BY <1>1, <2>1, <2>2, <2>3, <2>4, <2>5 DEF Next
<1> QED
  BY InitTypeInv, InitVInv, <1>1, PTL DEF Spec

\* A verdict always rests on its evidence, and a failed attempt always has its
\* ticket on file with the reason of its evaluation - for any number of tasks
\* that evaluate one attempt, of restarts, and of deaths, also between the
\* two files of one mutation.
THEOREM SettledAlwaysBacked == Spec => []SettledIsBacked
<1>1. TypeInv /\ VInv => SettledIsBacked
  BY DEF VInv, AttemptsBacked, Backed, Evidence, OnFile, SettledIsBacked, PassReasons, FailReasons
<1> QED
  BY <1>1, VerdictInductive, PTL

-----------------------------------------------------------------------------
(* A run is one attempt.  The invariant is inductive on its own: a write   *)
(* keeps the number and the run of its attempt, and a new attempt is       *)
(* numbered by the attempts there are, for a run that none of them has.    *)

LEMMA SameAttempts ==
  ASSUME OneAttemptPerRun, attempts' = attempts
  PROVE  OneAttemptPerRun'
  BY DEF OneAttemptPerRun

LEMMA WriteKeepsRuns ==
  ASSUME TypeInv, OneAttemptPerRun, NEW q \in Ids, NEW n \in DOMAIN attempts[q], NEW rec \in Attempt,
         rec.no = attempts[q][n].no, rec.run = attempts[q][n].run, WriteAttempt(q, n, rec)
  PROVE  OneAttemptPerRun'
<1>1. /\ attempts'[q][n] = rec
      /\ \A p \in Ids : DOMAIN attempts'[p] = DOMAIN attempts[p]
      /\ \A p \in Ids : \A i \in DOMAIN attempts[p] :
           (p # q \/ i # n) => attempts'[p][i] = attempts[p][i]
  BY WrittenElements DEF TypeInv
<1>2. ASSUME NEW p \in Ids, NEW i \in DOMAIN attempts[p]
      PROVE  attempts'[p][i].no = attempts[p][i].no /\ attempts'[p][i].run = attempts[p][i].run
  <2>1. CASE p = q /\ i = n
    BY <1>1, <2>1
  <2>2. CASE p # q \/ i # n
    BY <1>1, <2>2
  <2> QED
    BY <2>1, <2>2
<1>3. ASSUME NEW p \in Ids, NEW i \in DOMAIN attempts'[p], NEW j \in DOMAIN attempts'[p]
      PROVE  /\ attempts'[p][i].no = i
             /\ attempts'[p][i].run = attempts'[p][j].run => i = j
  BY <1>1, <1>2 DEF OneAttemptPerRun
<1> QED
  BY <1>3 DEF OneAttemptPerRun

LEMMA CreateKeepsRuns ==
  ASSUME TypeInv, OneAttemptPerRun, NEW q \in Ids, NEW r, NEW kind, NEW content,
         ~Stored(q, r), CreateAttempt(q, r, kind, content)
  PROVE  OneAttemptPerRun'
<1> DEFINE n == Len(attempts[q]) + 1
           rec == NewAttempt(n, r, kind, content,
               IF golden[q] = None THEN "received_submission_only" ELSE "ready_to_evaluate")
<1>1. CASE UNCHANGED attempts
  BY <1>1, SameAttempts
<1>2. CASE attempts' = [attempts EXCEPT ![q] = Append(@, rec)]
  <2>1. attempts[q] \in Seq(Attempt) /\ rec.no = n /\ rec.run = r
    BY DEF TypeInv, TypeOK, NewAttempt
  <2>2. /\ attempts'[q] = Append(attempts[q], rec)
        /\ \A p \in Ids : p # q => attempts'[p] = attempts[p]
    BY <1>2 DEF TypeInv, TypeOK
  <2>3. /\ DOMAIN attempts'[q] = DOMAIN attempts[q] \cup {n}
        /\ \A i \in DOMAIN attempts[q] : attempts'[q][i] = attempts[q][i]
        /\ attempts'[q][n] = rec
    BY <2>1, <2>2
  <2>4. \A i \in DOMAIN attempts[q] : attempts[q][i].no = i /\ attempts[q][i].run # r
    BY DEF OneAttemptPerRun, Stored
  <2>5. \A i, j \in DOMAIN attempts[q] : attempts[q][i].run = attempts[q][j].run => i = j
    BY DEF OneAttemptPerRun
  <2>6. ASSUME NEW i \in DOMAIN attempts'[q], NEW j \in DOMAIN attempts'[q]
        PROVE  /\ attempts'[q][i].no = i
               /\ attempts'[q][i].run = attempts'[q][j].run => i = j
    <3>1. i \in DOMAIN attempts[q] \/ i = n
      BY <2>3
    <3>2. j \in DOMAIN attempts[q] \/ j = n
      BY <2>3
    <3> QED
      BY <2>1, <2>3, <2>4, <2>5, <3>1, <3>2
  <2>7. ASSUME NEW p \in Ids, NEW i \in DOMAIN attempts'[p], NEW j \in DOMAIN attempts'[p]
        PROVE  /\ attempts'[p][i].no = i
               /\ attempts'[p][i].run = attempts'[p][j].run => i = j
    <3>1. CASE p = q
      BY <2>6, <3>1
    <3>2. CASE p # q
      BY <2>2, <3>2 DEF OneAttemptPerRun
    <3> QED
      BY <3>1, <3>2
  <2> QED
    BY <2>7 DEF OneAttemptPerRun
<1> QED
  BY <1>1, <1>2 DEF CreateAttempt

\* What a step of an evaluation may write: its attempt, with the number and
\* the run it had, and its state unless it ends the evaluation.
Writes(t) ==
  /\ task[t].pc \in Working
  /\ \E rec \in Attempt :
       /\ rec.no = Record(t).no /\ rec.run = Record(t).run
       /\ \/ rec.state = Record(t).state
          \/ task[t].pc \in {"block", "mark"} /\ rec.state \in Blocked \cup Settled
       /\ Mutate(t.id, t.no, rec) \/ TornMutate(t.id, t.no, rec)

LEMMA WritesIntro ==
  ASSUME NEW t \in Tasks, task[t].pc \in Working, NEW rec \in Attempt,
         NEW pc, NEW outcome, Save(t, rec, pc, outcome),
         rec.no = Record(t).no, rec.run = Record(t).run,
         rec.state = Record(t).state \/ (task[t].pc \in {"block", "mark"} /\ rec.state \in Blocked \cup Settled)
  PROVE  Writes(t)
  BY DEF Writes, Save

\* A step of an evaluation writes no attempt, or its own with the run it had.
LEMMA EvaluateWrites ==
  ASSUME TypeInv, NEW t \in Tasks, Evaluate(t) \/ LlmRaises(t)
  PROVE  UNCHANGED <<attempts, latest>> \/ Writes(t)
<1> DEFINE a == Record(t)
           out == task[t].outcome
<1>0. task[t].pc \in Working => a \in Attempt /\ out \in Outcomes /\ Fits(task[t])
  BY RecordType DEF TypeInv, TaskInv, TypeOK
<1>w. \A pc \in {"executing", "reviewing", "block", "save_evaluation", "link_ticket", "mark", "improve"} :
        pc \in Working
  BY DEF Working, Awaiting, Saving
<1>1. CASE TuGraphAnswers(t)
  <2>1. \A e \in {"ok", "failed"} :
          LET rec == [a EXCEPT !.execution = e]
          IN  rec \in Attempt /\ rec.no = a.no /\ rec.run = a.run /\ rec.state = a.state
    BY <1>0, <1>1, <1>w DEF TuGraphAnswers, Attempt
  <2> QED
    BY <1>1, <1>w, <2>1, WritesIntro DEF TuGraphAnswers
<1>2. CASE ReviewAnswers(t)
  <2>1. \A e \in {"accepted", "invalid"} :
          LET rec == [a EXCEPT !.review = e]
          IN  rec \in Attempt /\ rec.no = a.no /\ rec.run = a.run /\ rec.state = a.state
    BY <1>0, <1>2, <1>w DEF ReviewAnswers, Attempt
  <2> QED
    BY <1>2, <1>w, <2>1, WritesIntro DEF ReviewAnswers
<1>3. CASE BlockAttempt(t)
  <2> DEFINE rec == [a EXCEPT !.state = out]
  <2>1. task[t].pc = "block" /\ Save(t, rec, "done", "none")
    BY <1>3 DEF BlockAttempt
  <2>2. rec \in Attempt /\ rec.no = a.no /\ rec.run = a.run /\ rec.state \in Blocked
    BY <1>0, <1>w, <2>1 DEF Attempt, States, Fits
  <2> QED
    BY <1>w, <2>1, <2>2, WritesIntro
<1>4. CASE SaveEvaluation(t)
  <2> DEFINE rec == [a EXCEPT !.evaluation = out]
  <2>1. task[t].pc = "save_evaluation" /\ Save(t, rec, IF out \in PassReasons THEN "mark" ELSE "save_ticket", out)
    BY <1>4 DEF SaveEvaluation
  <2>2. rec \in Attempt /\ rec.no = a.no /\ rec.run = a.run /\ rec.state = a.state
    BY <1>0, <1>w, <2>1 DEF Attempt, Fits
  <2> QED
    BY <1>w, <2>1, <2>2, WritesIntro
<1>5. CASE LinkTicket(t)
  <2> DEFINE rec == [a EXCEPT !.ticket = TRUE]
  <2>1. task[t].pc = "link_ticket" /\ Save(t, rec, "mark", out)
    BY <1>5 DEF LinkTicket
  <2>2. rec \in Attempt /\ rec.no = a.no /\ rec.run = a.run /\ rec.state = a.state
    BY <1>0, <1>w, <2>1 DEF Attempt
  <2> QED
    BY <1>w, <2>1, <2>2, WritesIntro
<1>6. CASE MarkSettled(t)
  <2> DEFINE rec == [a EXCEPT !.state = IF out \in PassReasons THEN "passed" ELSE "issue_ticket_created"]
  <2>1. task[t].pc = "mark" /\ Save(t, rec, "improve", "none")
    BY <1>6 DEF MarkSettled
  <2>2. rec \in Attempt /\ rec.no = a.no /\ rec.run = a.run /\ rec.state \in Settled
    BY <1>0, <1>w, <2>1 DEF Attempt, States, Settled
  <2> QED
    BY <1>w, <2>1, <2>2, WritesIntro
<1>7. CASE AssessImprovement(t) /\ Evaluated(t.id, t.no) # {}
  <2> PICK p \in Evaluated(t.id, t.no) : Save(t, [a EXCEPT !.improvement = p], "done", "none")
    BY <1>7 DEF AssessImprovement
  <2> DEFINE rec == [a EXCEPT !.improvement = p]
  <2>1. task[t].pc = "improve" /\ p \in Nat
    BY <1>7 DEF AssessImprovement, Evaluated
  <2>2. rec \in Attempt /\ rec.no = a.no /\ rec.run = a.run /\ rec.state = a.state
    BY <1>0, <1>w, <2>1 DEF Attempt
  <2> QED
    BY <1>w, <2>1, <2>2, WritesIntro
<1>8. \/ UNCHANGED <<attempts, latest>> \/ TuGraphAnswers(t) \/ ReviewAnswers(t) \/ BlockAttempt(t)
      \/ SaveEvaluation(t) \/ LinkTicket(t) \/ MarkSettled(t)
      \/ (AssessImprovement(t) /\ Evaluated(t.id, t.no) # {})
  BY DEF Evaluate, StartEvaluation, GrammarExplained, LlmRaises, SaveTicket, DoneCallback,
         AssessImprovement, disk
<1> QED
  BY <1>1, <1>2, <1>3, <1>4, <1>5, <1>6, <1>7, <1>8

LEMMA EvaluateKeepsRuns ==
  ASSUME TypeInv, OneAttemptPerRun, NEW t \in Tasks, Evaluate(t) \/ LlmRaises(t)
  PROVE  OneAttemptPerRun'
<1>1. CASE UNCHANGED attempts
  BY <1>1, SameAttempts
<1>2. CASE Writes(t)
  <2>1. t.no \in DOMAIN attempts[t.id] /\ t.id \in Ids
    BY <1>2 DEF Writes, TypeInv, TaskInv, Tasks
  <2>2. PICK rec \in Attempt :
          /\ rec.no = Record(t).no /\ rec.run = Record(t).run
          /\ WriteAttempt(t.id, t.no, rec)
    BY <1>2 DEF Writes, Mutate, TornMutate
  <2> QED
    BY <2>1, <2>2, WriteKeepsRuns DEF Record
<1> QED
  BY <1>1, <1>2, EvaluateWrites

LEMMA RequestKeepsRuns ==
  ASSUME TypeInv, OneAttemptPerRun, NEW q \in Ids, Request(q)
  PROVE  OneAttemptPerRun'
<1>1. ASSUME NEW g \in Goldens, IngestGolden(q, g), ~UNCHANGED attempts PROVE OneAttemptPerRun'
  <2> DEFINE n == latest[q].no
             rec == [attempts[q][n] EXCEPT !.state = "ready_to_evaluate"]
  <2>1. Opens(q) /\ WriteAttempt(q, n, rec)
    BY <1>1 DEF IngestGolden, Mutate, TornMutate
  <2>2. attempts[q] \in Seq(Attempt) /\ latest[q] \in Attempt
    BY DEF TypeInv, TypeOK
  <2>3. n \in 0..MaxAttempts /\ n # 0 /\ n <= Len(attempts[q])
    BY <2>1, <2>2 DEF Opens, Attempt
  <2>4. n \in DOMAIN attempts[q] /\ attempts[q][n] \in Attempt
    BY <2>2, <2>3, TestingAssumption
  <2>5. rec \in Attempt /\ rec.no = attempts[q][n].no /\ rec.run = attempts[q][n].run
    BY <2>4 DEF Attempt, States
  <2> QED
    BY <2>1, <2>4, <2>5, WriteKeepsRuns
<1>2. ASSUME NEW r \in Runs, NEW c \in Contents, IngestSubmission(q, r, c) PROVE OneAttemptPerRun'
  BY <1>2, CreateKeepsRuns DEF IngestSubmission
<1>3. ASSUME NEW r \in Runs, NEW st \in Reported, IngestGenerationFailure(q, r, st),
             ~UNCHANGED attempts PROVE OneAttemptPerRun'
  <2>1. ~Stored(q, r) /\ CreateAttempt(q, r, "generation_failed", None)
    BY <1>3 DEF IngestGenerationFailure
  <2> QED
    BY <2>1, CreateKeepsRuns
<1>4. CASE UNCHANGED attempts
  BY <1>4, SameAttempts
<1>5. (\E r \in Announced : IngestQuestionReceived(q, r)) \/ GetEvaluationStatus(q) => UNCHANGED attempts
  BY DEF IngestQuestionReceived, GetEvaluationStatus, disk
<1> QED
  BY <1>1, <1>2, <1>3, <1>4, <1>5 DEF Request

\* However often and in whatever form a run is reported, and wherever the
\* process dies in between, it becomes one attempt; attempts have no gaps.
THEOREM AlwaysOneAttemptPerRun == Spec => []OneAttemptPerRun
<1>1. Init => OneAttemptPerRun
  BY DEF Init, OneAttemptPerRun
<1>2. ASSUME TypeInv, OneAttemptPerRun, [Next]_vars PROVE OneAttemptPerRun'
  <2>1. CASE Crash \/ Startup \/ UNCHANGED vars
    BY <1>2, <2>1, SameAttempts DEF Crash, Startup, vars, disk
  <2>2. ASSUME NEW q \in Ids, Request(q) PROVE OneAttemptPerRun'
    BY <1>2, <2>2, RequestKeepsRuns
  <2>3. ASSUME NEW t \in Tasks, Evaluate(t) \/ LlmRaises(t) PROVE OneAttemptPerRun'
    BY <1>2, <2>3, EvaluateKeepsRuns
  <2> QED
    BY <1>2, <2>1, <2>2, <2>3 DEF Next
<1>3. Spec => []TypeInv
  BY VerdictInductive, PTL
<1> QED
  BY <1>1, <1>2, <1>3, PTL DEF Spec

-----------------------------------------------------------------------------
(* The latest record is the newest attempt, when the two files of a        *)
(* mutation are written together.                                          *)

LEMMA MutateKeepsLatest ==
  ASSUME TypeInv, OneAttemptPerRun, LatestIsNewest, NEW q \in Ids, NEW n \in DOMAIN attempts[q],
         NEW rec \in Attempt, Mutate(q, n, rec)
  PROVE  LatestIsNewest'
<1> DEFINE last == Len(attempts[q])
<1>1. attempts[q] \in Seq(Attempt) /\ last \in DOMAIN attempts[q] /\ attempts[q] # <<>>
  BY DEF TypeInv, TypeOK
<1>2. latest[q] = attempts[q][last] /\ latest[q].no = last
  BY <1>1 DEF LatestIsNewest, OneAttemptPerRun
<1>3. /\ attempts' = [attempts EXCEPT ![q] = [attempts[q] EXCEPT ![n] = rec]]
      /\ latest' = IF latest[q].no <= n THEN [latest EXCEPT ![q] = rec] ELSE latest
  BY DEF Mutate, WriteAttempt
<1>4. /\ attempts'[q] = [attempts[q] EXCEPT ![n] = rec] /\ \A p \in Ids : p # q => attempts'[p] = attempts[p]
      /\ \A p \in Ids : p # q => latest'[p] = latest[p]
      /\ latest'[q] = IF last <= n THEN rec ELSE latest[q]
  BY <1>2, <1>3 DEF TypeInv, TypeOK
<1>5. attempts'[q] # <<>> /\ Len(attempts'[q]) = last
  BY <1>1, <1>4, ReplaceInSeq
<1>6. latest'[q] = attempts'[q][last]
  <2>1. CASE n = last
    BY <1>1, <1>4, <2>1
  <2>2. CASE n # last
    <3>1. ~(last <= n)
      BY <1>1, <2>2
    <3> QED
      BY <1>1, <1>2, <1>4, <2>2, <3>1
  <2> QED
    BY <2>1, <2>2
<1>7. ASSUME NEW p \in Ids
      PROVE  latest'[p] = IF attempts'[p] = <<>> THEN NoRecord ELSE attempts'[p][Len(attempts'[p])]
  <2>1. CASE p = q
    BY <1>5, <1>6, <2>1
  <2>2. CASE p # q
    BY <1>4, <2>2 DEF LatestIsNewest
  <2> QED
    BY <2>1, <2>2
<1> QED
  BY <1>7 DEF LatestIsNewest, NoRecord, NewAttempt

LEMMA CreateKeepsLatest ==
  ASSUME TypeInv, LatestIsNewest, ~(TornWrites /\ Die), NEW q \in Ids, NEW r, NEW kind, NEW content,
         CreateAttempt(q, r, kind, content)
  PROVE  LatestIsNewest'
<1> DEFINE rec == NewAttempt(Len(attempts[q]) + 1, r, kind, content,
               IF golden[q] = None THEN "received_submission_only" ELSE "ready_to_evaluate")
<1>1. attempts' = [attempts EXCEPT ![q] = Append(@, rec)] /\ latest' = [latest EXCEPT ![q] = rec]
  BY DEF CreateAttempt
<1>2. /\ attempts'[q] = Append(attempts[q], rec) /\ latest'[q] = rec
      /\ \A p \in Ids : p # q => attempts'[p] = attempts[p] /\ latest'[p] = latest[p]
  BY <1>1 DEF TypeInv, TypeOK
<1>3. attempts[q] \in Seq(Attempt)
  BY DEF TypeInv, TypeOK
<1>4. attempts'[q] # <<>> /\ attempts'[q][Len(attempts'[q])] = rec
  BY <1>2, <1>3
<1>5. ASSUME NEW p \in Ids
      PROVE  latest'[p] = IF attempts'[p] = <<>> THEN NoRecord ELSE attempts'[p][Len(attempts'[p])]
  <2>1. CASE p = q
    BY <1>2, <1>4, <2>1
  <2>2. CASE p # q
    BY <1>2, <2>2 DEF LatestIsNewest
  <2> QED
    BY <2>1, <2>2
<1> QED
  BY <1>5 DEF LatestIsNewest, NoRecord, NewAttempt

LEMMA SameLatest ==
  ASSUME LatestIsNewest, UNCHANGED <<attempts, latest>>
  PROVE  LatestIsNewest'
  BY DEF LatestIsNewest, NoRecord, NewAttempt

LEMMA RequestKeepsLatest ==
  ASSUME TypeInv, OneAttemptPerRun, LatestIsNewest, ~(TornWrites /\ Die), NEW q \in Ids, Request(q)
  PROVE  LatestIsNewest'
<1>1. ASSUME NEW g \in Goldens, IngestGolden(q, g), ~UNCHANGED <<attempts, latest>>
      PROVE  LatestIsNewest'
  <2> DEFINE n == latest[q].no
             rec == [attempts[q][n] EXCEPT !.state = "ready_to_evaluate"]
  <2>1. Opens(q) /\ Mutate(q, n, rec)
    BY <1>1 DEF IngestGolden, TornMutate
  <2>2. attempts[q] \in Seq(Attempt) /\ latest[q] \in Attempt
    BY DEF TypeInv, TypeOK
  <2>3. n \in 0..MaxAttempts /\ n # 0 /\ n <= Len(attempts[q])
    BY <2>1, <2>2 DEF Opens, Attempt
  <2>4. n \in DOMAIN attempts[q] /\ attempts[q][n] \in Attempt
    BY <2>2, <2>3, TestingAssumption
  <2>5. rec \in Attempt
    BY <2>4 DEF Attempt, States
  <2> QED
    BY <2>1, <2>4, <2>5, MutateKeepsLatest
<1>2. ASSUME NEW r \in Runs, NEW c \in Contents, IngestSubmission(q, r, c) PROVE LatestIsNewest'
  BY <1>2, CreateKeepsLatest DEF IngestSubmission
<1>3. ASSUME NEW r \in Runs, NEW st \in Reported, IngestGenerationFailure(q, r, st),
             ~UNCHANGED <<attempts, latest>> PROVE LatestIsNewest'
  <2>1. CreateAttempt(q, r, "generation_failed", None)
    BY <1>3 DEF IngestGenerationFailure
  <2> QED
    BY <2>1, CreateKeepsLatest
<1>4. CASE UNCHANGED <<attempts, latest>>
  BY <1>4, SameLatest
<1>5. (\E r \in Announced : IngestQuestionReceived(q, r)) \/ GetEvaluationStatus(q)
        => UNCHANGED <<attempts, latest>>
  BY DEF IngestQuestionReceived, GetEvaluationStatus, disk
<1> QED
  BY <1>1, <1>2, <1>3, <1>4, <1>5 DEF Request

LEMMA EvaluateKeepsLatest ==
  ASSUME TypeInv, OneAttemptPerRun, LatestIsNewest, ~(TornWrites /\ Die),
         NEW t \in Tasks, Evaluate(t) \/ LlmRaises(t)
  PROVE  LatestIsNewest'
<1>1. CASE UNCHANGED <<attempts, latest>>
  BY <1>1, SameLatest
<1>2. CASE Writes(t)
  <2>1. t.no \in DOMAIN attempts[t.id] /\ t.id \in Ids
    BY <1>2 DEF Writes, TypeInv, TaskInv, Tasks
  <2>2. PICK rec \in Attempt : Mutate(t.id, t.no, rec)
    BY <1>2 DEF Writes, TornMutate
  <2> QED
    BY <2>1, <2>2, MutateKeepsLatest
<1> QED
  BY <1>1, <1>2, EvaluateWrites

\* Whatever older attempts write and whoever writes them, the record the
\* handlers decide on is the newest attempt - unless a death falls between
\* the two files of a mutation.
THEOREM LatestAlwaysNewest == TornWrites = FALSE => (Spec => []LatestIsNewest)
<1> SUFFICES ASSUME TornWrites = FALSE PROVE Spec => []LatestIsNewest
  OBVIOUS
<1>1. Init => LatestIsNewest
  BY DEF Init, LatestIsNewest
<1>2. ASSUME TypeInv, OneAttemptPerRun, LatestIsNewest, [Next]_vars PROVE LatestIsNewest'
  <2>1. CASE Crash \/ Startup \/ UNCHANGED vars
    BY <1>2, <2>1, SameLatest DEF Crash, Startup, vars, disk
  <2>2. ASSUME NEW q \in Ids, Request(q) PROVE LatestIsNewest'
    BY <1>2, <2>2, RequestKeepsLatest
  <2>3. ASSUME NEW t \in Tasks, Evaluate(t) \/ LlmRaises(t) PROVE LatestIsNewest'
    BY <1>2, <2>3, EvaluateKeepsLatest
  <2> QED
    BY <1>2, <2>1, <2>2, <2>3 DEF Next
<1>3. Spec => []TypeInv
  BY VerdictInductive, PTL
<1> QED
  BY <1>1, <1>2, <1>3, AlwaysOneAttemptPerRun, PTL DEF Spec

-----------------------------------------------------------------------------
(* A verdict is final, when the two files of a mutation are written        *)
(* together: the latest record then tells whether the attempt is settled.  *)

FinalOf(q, n) ==
  attempts[q][n].state \in Settled =>
    /\ n \in DOMAIN attempts'[q]
    /\ attempts'[q][n] = [attempts[q][n] EXCEPT !.improvement = attempts'[q][n].improvement]

Final == \A q \in Ids : \A n \in DOMAIN attempts[q] : FinalOf(q, n)

LEMMA SameIsFinal ==
  ASSUME TypeInv, NEW q \in Ids, NEW n \in DOMAIN attempts[q],
         n \in DOMAIN attempts'[q], attempts'[q][n] = attempts[q][n]
  PROVE  FinalOf(q, n)
<1>1. attempts[q][n] \in Attempt
  BY DEF TypeInv, TypeOK
<1> QED
  BY <1>1 DEF FinalOf, Attempt

\* A write to an attempt that is not settled leaves the settled ones alone.
LEMMA WriteIsFinal ==
  ASSUME TypeInv, NEW q \in Ids, NEW n \in DOMAIN attempts[q], NEW rec \in Attempt,
         WriteAttempt(q, n, rec), FinalOf(q, n)
  PROVE  Final
<1>1. /\ attempts'[q][n] = rec
      /\ \A p \in Ids : DOMAIN attempts'[p] = DOMAIN attempts[p]
      /\ \A p \in Ids : \A i \in DOMAIN attempts[p] :
           (p # q \/ i # n) => attempts'[p][i] = attempts[p][i]
  BY WrittenElements DEF TypeInv
<1>2. ASSUME NEW p \in Ids, NEW i \in DOMAIN attempts[p] PROVE FinalOf(p, i)
  <2>1. CASE p = q /\ i = n
    BY <2>1
  <2>2. CASE p # q \/ i # n
    BY <1>1, <2>2, SameIsFinal
  <2> QED
    BY <2>1, <2>2
<1> QED
  BY <1>2 DEF Final

LEMMA EvaluateIsFinal ==
  ASSUME TypeInv, VInv, NEW t \in Tasks, Evaluate(t) \/ LlmRaises(t)
  PROVE  Final
<1>1. CASE UNCHANGED <<attempts, latest>>
  BY <1>1, SameIsFinal DEF Final
<1>2. CASE Writes(t) /\ task[t].pc # "improve"
  <2>1. /\ t.no \in DOMAIN attempts[t.id] /\ t.id \in Ids
        /\ Supported(task[t], attempts[t.id][t.no], t.id, t.no, tickets)
    BY <1>2 DEF Writes, TypeInv, TaskInv, Tasks, VInv, TasksSupported
  <2>2. FinalOf(t.id, t.no)
    BY <1>2, <2>1 DEF Supported, FinalOf
  <2>3. PICK rec \in Attempt : WriteAttempt(t.id, t.no, rec)
    BY <1>2 DEF Writes, Mutate, TornMutate
  <2> QED
    BY <2>1, <2>2, <2>3, WriteIsFinal
<1>3. CASE Writes(t) /\ task[t].pc = "improve"
  <2>1. t.no \in DOMAIN attempts[t.id] /\ t.id \in Ids /\ Record(t) \in Attempt
    BY <1>3, RecordType DEF Writes, TypeInv, TaskInv, Tasks
  <2>2. AssessImprovement(t)
    BY <1>3 DEF Evaluate, LlmRaises, StartEvaluation, GrammarExplained, TuGraphAnswers,
         ReviewAnswers, BlockAttempt, SaveEvaluation, SaveTicket, LinkTicket, MarkSettled, DoneCallback
  <2>3. CASE Evaluated(t.id, t.no) = {}
    BY <2>2, <2>3, SameIsFinal DEF AssessImprovement, Final
  <2>4. CASE Evaluated(t.id, t.no) # {}
    <3> PICK p \in Evaluated(t.id, t.no) : Save(t, [Record(t) EXCEPT !.improvement = p], "done", "none")
      BY <2>2, <2>4 DEF AssessImprovement
    <3> DEFINE rec == [Record(t) EXCEPT !.improvement = p]
    <3>1. rec \in Attempt /\ rec.improvement = p
      BY <2>1 DEF Attempt, Evaluated
    <3>2. WriteAttempt(t.id, t.no, rec)
      BY DEF Save, Mutate, TornMutate
    <3>3. attempts'[t.id][t.no] = rec /\ t.no \in DOMAIN attempts'[t.id]
      BY <2>1, <3>1, <3>2, WrittenElements DEF TypeInv
    <3>4. FinalOf(t.id, t.no)
      BY <3>1, <3>3 DEF FinalOf, Record
    <3> QED
      BY <2>1, <3>1, <3>2, <3>4, WriteIsFinal
  <2> QED
    BY <2>3, <2>4
<1> QED
  BY <1>1, <1>2, <1>3, EvaluateWrites

LEMMA CreateIsFinal ==
  ASSUME TypeInv, NEW q \in Ids, NEW r, NEW kind, NEW content, CreateAttempt(q, r, kind, content)
  PROVE  Final
<1>1. attempts[q] \in Seq(Attempt)
  BY DEF TypeInv, TypeOK
<1>2. CASE UNCHANGED attempts
  BY <1>2, SameIsFinal DEF Final
<1>3. CASE ~UNCHANGED attempts
  <2>1. PICK rec : attempts' = [attempts EXCEPT ![q] = Append(attempts[q], rec)]
    BY <1>3 DEF CreateAttempt
  <2>2. ASSUME NEW p \in Ids, NEW i \in DOMAIN attempts[p]
        PROVE  i \in DOMAIN attempts'[p] /\ attempts'[p][i] = attempts[p][i]
    BY <1>1, <2>1 DEF TypeInv, TypeOK
  <2> QED
    BY <2>2, SameIsFinal DEF Final
<1> QED
  BY <1>2, <1>3

LEMMA RequestIsFinal ==
  ASSUME TypeInv, OneAttemptPerRun, LatestIsNewest, NEW q \in Ids, Request(q)
  PROVE  Final
<1>1. ASSUME NEW g \in Goldens, IngestGolden(q, g), ~UNCHANGED attempts PROVE Final
  <2> DEFINE n == latest[q].no
             rec == [attempts[q][n] EXCEPT !.state = "ready_to_evaluate"]
  <2>1. Opens(q) /\ WriteAttempt(q, n, rec)
    BY <1>1 DEF IngestGolden, Mutate, TornMutate
  <2>2. attempts[q] \in Seq(Attempt) /\ latest[q] \in Attempt
    BY DEF TypeInv, TypeOK
  <2>3. n \in 0..MaxAttempts /\ n # 0 /\ n <= Len(attempts[q])
    BY <2>1, <2>2 DEF Opens, Attempt
  <2>4. n \in DOMAIN attempts[q] /\ attempts[q][n] \in Attempt
    BY <2>2, <2>3, TestingAssumption
  <2>5. rec \in Attempt
    BY <2>4 DEF Attempt, States
  <2>6. attempts[q] # <<>> /\ Len(attempts[q]) \in DOMAIN attempts[q]
    BY <2>2, <2>4
  <2>7. latest[q] = attempts[q][Len(attempts[q])] /\ n = Len(attempts[q])
    BY <2>6 DEF LatestIsNewest, OneAttemptPerRun
  <2>8. FinalOf(q, n)
    BY <2>1, <2>7 DEF Opens, FinalOf
  <2> QED
    BY <2>1, <2>4, <2>5, <2>8, WriteIsFinal
<1>2. ASSUME NEW r \in Runs, NEW c \in Contents, IngestSubmission(q, r, c) PROVE Final
  BY <1>2, CreateIsFinal DEF IngestSubmission
<1>3. ASSUME NEW r \in Runs, NEW st \in Reported, IngestGenerationFailure(q, r, st),
             ~UNCHANGED attempts PROVE Final
  BY <1>3, CreateIsFinal DEF IngestGenerationFailure
<1>4. CASE UNCHANGED attempts
  BY <1>4, SameIsFinal DEF Final
<1>5. (\E r \in Announced : IngestQuestionReceived(q, r)) \/ GetEvaluationStatus(q) => UNCHANGED attempts
  BY DEF IngestQuestionReceived, GetEvaluationStatus, disk
<1> QED
  BY <1>1, <1>2, <1>3, <1>4, <1>5 DEF Request

\* No repeated golden, repeated submission, second task or restart takes a
\* verdict back - unless a death falls between the two files of a mutation.
THEOREM VerdictsAreFinal == TornWrites = FALSE => (Spec => SettledIsFinal)
<1> SUFFICES ASSUME TornWrites = FALSE PROVE Spec => SettledIsFinal
  OBVIOUS
<1>1. ASSUME TypeInv, VInv, OneAttemptPerRun, LatestIsNewest, [Next]_vars
      PROVE  [Final]_vars
  <2>1. CASE Crash \/ Startup
    BY <1>1, <2>1, SameIsFinal DEF Crash, Startup, disk, Final
  <2>2. ASSUME NEW q \in Ids, Request(q) PROVE Final
    BY <1>1, <2>2, RequestIsFinal
  <2>3. ASSUME NEW t \in Tasks, Evaluate(t) \/ LlmRaises(t) PROVE Final
    BY <1>1, <2>3, EvaluateIsFinal
  <2> QED
    BY <1>1, <2>1, <2>2, <2>3 DEF Next
<1>2. Spec => []LatestIsNewest
  BY LatestAlwaysNewest
<1>3. Spec => [][Final]_vars
  BY <1>1, <1>2, VerdictInductive, AlwaysOneAttemptPerRun, PTL DEF Spec
<1> QED
  BY <1>3 DEF SettledIsFinal, Final, FinalOf

-----------------------------------------------------------------------------
(* The refinement of the ledger, when the two files of a mutation are      *)
(* written together.  An entry opens only through a golden, so an attempt  *)
(* that some task is for is not waiting any more.                          *)

\* Before its golden an attempt waits.
GoldenFirst ==
  \A q \in Ids : golden[q] = None =>
    \A n \in DOMAIN attempts[q] : attempts[q][n].state = "received_submission_only"

\* A task is for an attempt that is on file and has been opened.
IsOpen(t, files) ==
  t.no \in DOMAIN files[t.id] /\ files[t.id][t.no].state # "received_submission_only"

Opened == \A t \in Tasks : task[t].pc # "idle" => IsOpen(t, attempts)

OpenInv == GoldenFirst /\ Opened

\* An open attempt stays open, and a task that was idle gets an open one.
LEMMA OpenedStep ==
  ASSUME Opened,
         \A p \in Ids : \A i \in DOMAIN attempts[p] :
           /\ i \in DOMAIN attempts'[p]
           /\ attempts'[p][i].state = "received_submission_only"
                => attempts[p][i].state = "received_submission_only",
         \A t \in Tasks : task'[t].pc # "idle" => task[t].pc # "idle" \/ IsOpen(t, attempts')
  PROVE  Opened'
<1>1. ASSUME NEW t \in Tasks, task[t].pc # "idle" PROVE IsOpen(t, attempts')
  BY <1>1 DEF Opened, IsOpen, Tasks
<1> QED
  BY <1>1 DEF Opened, IsOpen

\* The process dies or rests over the files: nothing is opened.
LEMMA SameOpen ==
  ASSUME OpenInv, UNCHANGED <<golden, attempts>>,
         \A t \in Tasks : task'[t].pc # "idle" => task[t].pc # "idle" \/ IsOpen(t, attempts)
  PROVE  OpenInv'
<1>1. Opened'
  BY DEF OpenInv, Opened, IsOpen
<1> QED
  BY <1>1 DEF OpenInv, GoldenFirst

LEMMA DieIdle ==
  ASSUME Die, NEW t \in Tasks
  PROVE  task'[t].pc = "idle"
BY DEF Die, NoTasks, IdleTask

\* Scheduling an attempt gives it a task and leaves all others alone.
LEMMA ScheduleQueues ==
  ASSUME TypeInv, NEW q \in Ids, NEW n \in Nos, Schedule(q, n), NEW t \in Tasks
  PROVE  task'[t] = task[t] \/ (t.id = q /\ t.no = n)
<1>1. CASE Running(q, n)
  BY <1>1 DEF Schedule
<1>2. CASE ~Running(q, n)
  <2> PICK s \in Slots :
         task' = [task EXCEPT ![TaskOf(q, n, s)] = [IdleTask EXCEPT !.pc = "queued"]]
    BY <1>2 DEF Schedule
  <2>1. TaskOf(q, n, s).id = q /\ TaskOf(q, n, s).no = n
    BY DEF TaskOf
  <2> QED
    BY <2>1 DEF TypeInv, TypeOK
<1> QED
  BY <1>1, <1>2

LEMMA EvaluateKeepsOpen ==
  ASSUME TypeInv, OpenInv, TornWrites = FALSE, NEW t \in Tasks, Evaluate(t) \/ LlmRaises(t)
  PROVE  OpenInv'
<1>1. golden' = golden
  BY DEF Evaluate, LlmRaises, StartEvaluation, GrammarExplained, TuGraphAnswers, ReviewAnswers,
     BlockAttempt, SaveEvaluation, SaveTicket, LinkTicket, MarkSettled, AssessImprovement, DoneCallback, disk
<1>2. task[t].pc # "idle"
  BY DEF Evaluate, LlmRaises, StartEvaluation, GrammarExplained, TuGraphAnswers, ReviewAnswers,
     BlockAttempt, SaveEvaluation, SaveTicket, LinkTicket, MarkSettled, AssessImprovement, DoneCallback
<1>3. \A u \in Tasks : task'[u].pc # "idle" => task[u].pc # "idle"
  <2>1. (\E k : task' = [task EXCEPT ![t] = k])
    BY DEF Evaluate, LlmRaises, StartEvaluation, GrammarExplained, TuGraphAnswers, ReviewAnswers,
       BlockAttempt, SaveEvaluation, SaveTicket, LinkTicket, MarkSettled, AssessImprovement, DoneCallback,
       Save, TornMutate, To
  <2> QED
    BY <1>2, <2>1 DEF TypeInv, TypeOK
<1>4. CASE UNCHANGED <<attempts, latest>>
  BY <1>1, <1>3, <1>4, SameOpen
<1>5. CASE Writes(t)
  <2>1. t.no \in DOMAIN attempts[t.id] /\ t.id \in Ids /\ IsOpen(t, attempts)
    BY <1>2, <1>5 DEF Writes, TypeInv, TaskInv, Tasks, OpenInv, Opened
  <2>2. PICK rec \in Attempt :
          /\ rec.state = Record(t).state \/ rec.state \in Blocked \cup Settled
          /\ WriteAttempt(t.id, t.no, rec)
    BY <1>5 DEF Writes, Mutate, TornMutate
  <2>3. rec.state # "received_submission_only"
    BY <2>1, <2>2 DEF Record, IsOpen, Blocked, Settled
  <2>4. /\ attempts'[t.id][t.no] = rec
        /\ \A p \in Ids : DOMAIN attempts'[p] = DOMAIN attempts[p]
        /\ \A p \in Ids : \A i \in DOMAIN attempts[p] :
             (p # t.id \/ i # t.no) => attempts'[p][i] = attempts[p][i]
    BY <2>1, <2>2, WrittenElements DEF TypeInv
  <2>5. Opened'
    BY <1>3, <2>3, <2>4, OpenedStep DEF OpenInv
  <2>6. golden[t.id] # None
    BY <2>1 DEF OpenInv, GoldenFirst, IsOpen
  <2>7. GoldenFirst'
    BY <1>1, <2>4, <2>6 DEF OpenInv, GoldenFirst
  <2> QED
    BY <2>5, <2>7 DEF OpenInv
<1> QED
  BY <1>4, <1>5, EvaluateWrites

LEMMA CreateKeepsOpen ==
  ASSUME TypeInv, OpenInv, TornWrites = FALSE, NEW q \in Ids, NEW r, NEW kind, NEW content,
         CreateAttempt(q, r, kind, content), golden' = golden
  PROVE  OpenInv'
<1> DEFINE n == Len(attempts[q]) + 1
           rec == NewAttempt(n, r, kind, content,
               IF golden[q] = None THEN "received_submission_only" ELSE "ready_to_evaluate")
<1>1. /\ n \in Nos
      /\ attempts' = [attempts EXCEPT ![q] = Append(@, rec)]
      /\ IF golden[q] = None THEN UNCHANGED <<task, background>> ELSE Schedule(q, n)
  BY TestingAssumption DEF CreateAttempt, TypeInv, TypeOK, Nos
<1>2. /\ attempts'[q] = Append(attempts[q], rec) /\ \A p \in Ids : p # q => attempts'[p] = attempts[p]
      /\ attempts[q] \in Seq(Attempt)
  BY <1>1 DEF TypeInv, TypeOK
<1>3. /\ DOMAIN attempts'[q] = DOMAIN attempts[q] \cup {n}
      /\ \A i \in DOMAIN attempts[q] : attempts'[q][i] = attempts[q][i]
      /\ attempts'[q][n] = rec
  BY <1>2
<1>4. /\ golden[q] = None => rec.state = "received_submission_only"
      /\ golden[q] # None => rec.state # "received_submission_only"
  BY DEF NewAttempt
<1>5. GoldenFirst'
  <2> SUFFICES ASSUME NEW p \in Ids, golden[p] = None, NEW i \in DOMAIN attempts'[p]
               PROVE  attempts'[p][i].state = "received_submission_only"
    BY DEF GoldenFirst
  <2>1. CASE p = q
    BY <1>3, <1>4, <2>1 DEF OpenInv, GoldenFirst
  <2>2. CASE p # q
    BY <1>2, <2>2 DEF OpenInv, GoldenFirst
  <2> QED
    BY <2>1, <2>2
<1>6. ASSUME NEW t \in Tasks, task'[t].pc # "idle" PROVE task[t].pc # "idle" \/ IsOpen(t, attempts')
  <2>1. CASE golden[q] = None
    BY <1>1, <1>6, <2>1
  <2>2. CASE golden[q] # None
    <3>1. task'[t] = task[t] \/ (t.id = q /\ t.no = n)
      BY <1>1, <2>2, ScheduleQueues
    <3> QED
      BY <1>3, <1>4, <1>6, <2>2, <3>1 DEF IsOpen
  <2> QED
    BY <2>1, <2>2
<1>7. ASSUME NEW p \in Ids, NEW i \in DOMAIN attempts[p]
      PROVE  i \in DOMAIN attempts'[p] /\ attempts'[p][i] = attempts[p][i]
  BY <1>2, <1>3
<1>8. Opened'
  BY <1>6, <1>7, OpenedStep DEF OpenInv
<1> QED
  BY <1>5, <1>8 DEF OpenInv

\* What a golden opens is the newest attempt, which has no verdict.
LEMMA OpensNewest ==
  ASSUME TypeInv, OneAttemptPerRun, LatestIsNewest, NEW q \in Ids, Opens(q)
  PROVE  LET n == latest[q].no
             rec == [attempts[q][n] EXCEPT !.state = "ready_to_evaluate"]
         IN /\ n = Len(attempts[q]) /\ n \in DOMAIN attempts[q] /\ n \in Nos
            /\ attempts[q][n].state \notin Settled
            /\ rec \in Attempt /\ rec.run = attempts[q][n].run /\ rec.state = "ready_to_evaluate"
<1> DEFINE n == latest[q].no
<1>1. attempts[q] \in Seq(Attempt) /\ latest[q] \in Attempt
  BY DEF TypeInv, TypeOK
<1>2. n \in 0..MaxAttempts /\ n # 0 /\ n <= Len(attempts[q])
  BY <1>1 DEF Opens, Attempt
<1>3. n \in DOMAIN attempts[q] /\ n \in Nos /\ attempts[q][n] \in Attempt
  BY <1>1, <1>2, TestingAssumption DEF Nos
<1>4. attempts[q] # <<>> /\ Len(attempts[q]) \in DOMAIN attempts[q]
  BY <1>1, <1>3
<1>5. latest[q] = attempts[q][Len(attempts[q])] /\ n = Len(attempts[q])
  BY <1>4 DEF LatestIsNewest, OneAttemptPerRun
<1> QED
  BY <1>3, <1>5 DEF Opens, Attempt, States

LEMMA GoldenKeepsOpen ==
  ASSUME TypeInv, OneAttemptPerRun, LatestIsNewest, OpenInv, TornWrites = FALSE,
         NEW q \in Ids, NEW g \in Goldens, IngestGolden(q, g)
  PROVE  OpenInv'
<1> DEFINE n == latest[q].no
           rec == [attempts[q][n] EXCEPT !.state = "ready_to_evaluate"]
<1>1. golden'[q] = g /\ g # None /\ \A p \in Ids : p # q => golden'[p] = golden[p]
  BY TestingAssumption DEF IngestGolden, TypeInv, TypeOK
<1>2. CASE UNCHANGED attempts /\ \A t \in Tasks : task'[t].pc # "idle" => task[t].pc # "idle"
  <2>1. Opened'
    BY <1>2, OpenedStep DEF OpenInv
  <2>2. GoldenFirst'
    BY <1>1, <1>2 DEF OpenInv, GoldenFirst
  <2> QED
    BY <2>1, <2>2 DEF OpenInv
<1>3. CASE Opens(q) /\ WriteAttempt(q, n, rec) /\ Schedule(q, n)
  <2>1. n \in DOMAIN attempts[q] /\ n \in Nos /\ rec \in Attempt /\ rec.state = "ready_to_evaluate"
    BY <1>3, OpensNewest
  <2>2. /\ attempts'[q][n] = rec
        /\ \A p \in Ids : DOMAIN attempts'[p] = DOMAIN attempts[p]
        /\ \A p \in Ids : \A i \in DOMAIN attempts[p] :
             (p # q \/ i # n) => attempts'[p][i] = attempts[p][i]
    BY <1>3, <2>1, WrittenElements DEF TypeInv
  <2>3. ASSUME NEW t \in Tasks, task'[t].pc # "idle" PROVE task[t].pc # "idle" \/ IsOpen(t, attempts')
    <3>1. task'[t] = task[t] \/ (t.id = q /\ t.no = n)
      BY <1>3, <2>1, ScheduleQueues
    <3> QED
      BY <2>1, <2>2, <2>3, <3>1 DEF IsOpen
  <2>4. Opened'
    BY <2>1, <2>2, <2>3, OpenedStep DEF OpenInv
  <2>5. GoldenFirst'
    BY <1>1, <2>2 DEF OpenInv, GoldenFirst
  <2> QED
    BY <2>4, <2>5 DEF OpenInv
<1>4. CASE Opens(q) /\ UNCHANGED attempts /\ Die
  BY <1>2, <1>4, DieIdle
<1>5. CASE ~Opens(q)
  BY <1>2, <1>5 DEF IngestGolden
<1> QED
  BY <1>3, <1>4, <1>5 DEF IngestGolden, Mutate, TornMutate

LEMMA RequestKeepsOpen ==
  ASSUME TypeInv, OneAttemptPerRun, LatestIsNewest, OpenInv, TornWrites = FALSE,
         NEW q \in Ids, Request(q)
  PROVE  OpenInv'
<1>1. ASSUME NEW g \in Goldens, IngestGolden(q, g) PROVE OpenInv'
  BY <1>1, GoldenKeepsOpen
<1>2. ASSUME NEW r \in Runs, NEW c \in Contents, IngestSubmission(q, r, c) PROVE OpenInv'
  BY <1>2, CreateKeepsOpen DEF IngestSubmission
<1>3. ASSUME NEW r \in Runs, NEW st \in Reported, IngestGenerationFailure(q, r, st) PROVE OpenInv'
  <2>0. golden' = golden
    BY <1>3 DEF IngestGenerationFailure
  <2>1. CASE CreateAttempt(q, r, "generation_failed", None)
    BY <2>0, <2>1, CreateKeepsOpen
  <2>2. CASE UNCHANGED attempts /\ (Die \/ UNCHANGED task)
    BY <2>0, <2>2, DieIdle, SameOpen
  <2> QED
    BY <1>3, <2>1, <2>2 DEF IngestGenerationFailure
<1>4. ASSUME NEW r \in Announced, IngestQuestionReceived(q, r) PROVE OpenInv'
  BY <1>4, SameOpen DEF IngestQuestionReceived, memory
<1>5. ASSUME GetEvaluationStatus(q) PROVE OpenInv'
  <2> DEFINE n == latest[q].no
  <2>1. Opens(q)
    <3>1. attempts[q] # <<>>
      BY <1>5 DEF GetEvaluationStatus, LatestIsNewest, NoRecord, NewAttempt
    <3>2. latest[q] = attempts[q][Len(attempts[q])] /\ Len(attempts[q]) \in DOMAIN attempts[q]
      BY <3>1 DEF LatestIsNewest, TypeInv, TypeOK
    <3>3. n = Len(attempts[q]) /\ n \in Nat
      BY <3>2 DEF OneAttemptPerRun, TypeInv, TypeOK
    <3> QED
      BY <1>5, <3>3 DEF GetEvaluationStatus, Opens, Settled
  <2>2. n \in Nos /\ n \in DOMAIN attempts[q] /\ n = Len(attempts[q])
    BY <2>1, OpensNewest
  <2>3. attempts[q][n].state = "ready_to_evaluate"
    BY <1>5, <2>2 DEF GetEvaluationStatus, LatestIsNewest
  <2>4. ASSUME NEW t \in Tasks, task'[t].pc # "idle" PROVE task[t].pc # "idle" \/ IsOpen(t, attempts)
    <3>1. task'[t] = task[t] \/ (t.id = q /\ t.no = n)
      BY <1>5, <2>2, ScheduleQueues DEF GetEvaluationStatus
    <3> QED
      BY <2>2, <2>3, <2>4, <3>1 DEF IsOpen
  <2> QED
    BY <1>5, <2>4, SameOpen DEF GetEvaluationStatus, disk
<1> QED
  BY <1>1, <1>2, <1>3, <1>4, <1>5 DEF Request

LEMMA OpenStep ==
  ASSUME TypeInv, OneAttemptPerRun, LatestIsNewest, OpenInv, TornWrites = FALSE, [Next]_vars
  PROVE  OpenInv'
<1>1. ASSUME NEW q \in Ids, Request(q) PROVE OpenInv'
  BY <1>1, RequestKeepsOpen
<1>2. ASSUME NEW t \in Tasks, Evaluate(t) \/ LlmRaises(t) PROVE OpenInv'
  BY <1>2, EvaluateKeepsOpen
<1>3. CASE Crash
  BY <1>3, DieIdle, SameOpen DEF Crash, disk
<1>4. CASE Startup
  <2>1. ASSUME NEW t \in Tasks, task'[t].pc # "idle" PROVE IsOpen(t, attempts)
    BY <1>4, <2>1 DEF Startup, IdleTask, Resumed, IsOpen
  <2> QED
    BY <1>4, <2>1, SameOpen DEF Startup, disk
<1>5. CASE UNCHANGED vars
  BY <1>5, SameOpen DEF vars
<1> QED
  BY <1>1, <1>2, <1>3, <1>4, <1>5 DEF Next

LEMMA AlwaysOpen == TornWrites = FALSE => (Spec => []OpenInv)
<1> SUFFICES ASSUME TornWrites = FALSE PROVE Spec => []OpenInv
  OBVIOUS
<1>1. Init => OpenInv
  BY DEF Init, OpenInv, GoldenFirst, Opened, NoTasks, IdleTask
<1>2. Spec => []LatestIsNewest
  BY LatestAlwaysNewest
<1> QED
  BY <1>1, <1>2, OpenStep, VerdictInductive, AlwaysOneAttemptPerRun, PTL DEF Spec

\* The entry of an attempt, and the book of the attempts of a sample.
EntryOf(a) == [run |-> a.run, status |-> LedgerStatus(a.state)]
BookOf(s) == [n \in DOMAIN s |-> EntryOf(s[n])]
Book == [q \in Ids |-> LedgerOf(q)]

LEMMA BookIsSeq ==
  ASSUME NEW s \in Seq(Attempt)
  PROVE  /\ BookOf(s) \in Seq({EntryOf(a) : a \in Attempt})
         /\ Len(BookOf(s)) = Len(s) /\ DOMAIN BookOf(s) = DOMAIN s
<1> DEFINE B == {EntryOf(a) : a \in Attempt}
<1>1. DOMAIN s = 1..Len(s) /\ Len(s) \in Nat /\ \A n \in DOMAIN s : s[n] \in Attempt
  OBVIOUS
<1>2. \A n \in 1..Len(s) : EntryOf(s[n]) \in B
  BY <1>1
<1> HIDE DEF B
<1>3. BookOf(s) \in [1..Len(s) -> B]
  BY <1>1, <1>2 DEF BookOf
<1>4. BookOf(s) \in Seq(B) /\ Len(BookOf(s)) = Len(s)
  BY <1>1, <1>3
<1> QED
  BY <1>4 DEF B, BookOf

LEMMA BookAppend ==
  ASSUME NEW s \in Seq(Attempt), NEW a \in Attempt
  PROVE  BookOf(Append(s, a)) = Append(BookOf(s), EntryOf(a))
<1> DEFINE B == {EntryOf(b) : b \in Attempt}
<1>1. Append(s, a) \in Seq(Attempt) /\ Len(Append(s, a)) = Len(s) + 1
  OBVIOUS
<1>2. /\ BookOf(s) \in Seq(B) /\ Len(BookOf(s)) = Len(s)
      /\ BookOf(Append(s, a)) \in Seq(B) /\ Len(BookOf(Append(s, a))) = Len(s) + 1
  BY <1>1, BookIsSeq
<1>3. EntryOf(a) \in B
  OBVIOUS
<1> HIDE DEF B
<1>4. Append(BookOf(s), EntryOf(a)) \in Seq(B) /\ Len(Append(BookOf(s), EntryOf(a))) = Len(s) + 1
  BY <1>2, <1>3
<1>5. ASSUME NEW n \in 1..(Len(s) + 1)
      PROVE  BookOf(Append(s, a))[n] = Append(BookOf(s), EntryOf(a))[n]
  <2>1. BookOf(Append(s, a))[n] = EntryOf(Append(s, a)[n])
    BY <1>1 DEF BookOf
  <2>2. CASE n = Len(s) + 1
    <3>1. Append(s, a)[n] = a
      BY <2>2
    <3>2. Append(BookOf(s), EntryOf(a))[n] = EntryOf(a)
      BY <1>2, <1>3, <2>2
    <3> QED
      BY <2>1, <3>1, <3>2
  <2>3. CASE n # Len(s) + 1
    <3>1. n \in 1..Len(s)
      BY <2>3
    <3>2. Append(s, a)[n] = s[n]
      BY <3>1
    <3>3. Append(BookOf(s), EntryOf(a))[n] = BookOf(s)[n]
      BY <1>2, <1>3, <3>1
    <3>4. BookOf(s)[n] = EntryOf(s[n])
      BY <3>1 DEF BookOf
    <3> QED
      BY <2>1, <3>2, <3>3, <3>4
  <2> QED
    BY <2>2, <2>3
<1> QED
  BY <1>2, <1>4, <1>5

LEMMA BookReplace ==
  ASSUME NEW s \in Seq(Attempt), NEW n \in DOMAIN s, NEW a \in Attempt
  PROVE  BookOf([s EXCEPT ![n] = a]) = [BookOf(s) EXCEPT ![n] = EntryOf(a)]
BY DEF BookOf

LEMMA BookIsBooks ==
  /\ Book = [q \in Ids |-> BookOf(attempts[q])]
  /\ Book' = [q \in Ids |-> BookOf(attempts'[q])]
BY DEF Book, LedgerOf, BookOf, EntryOf

\* Writing an attempt changes the status of its entry.
LEMMA WriteInBook ==
  ASSUME TypeInv, NEW q \in Ids, NEW n \in DOMAIN attempts[q], NEW rec \in Attempt,
         rec.run = attempts[q][n].run, WriteAttempt(q, n, rec)
  PROVE  Book' = [Book EXCEPT ![q][n].status = LedgerStatus(rec.state)]
<1> DEFINE s == attempts[q]
<1>1. s \in Seq(Attempt) /\ attempts \in [Ids -> Seq(Attempt)]
  BY DEF TypeInv, TypeOK
<1>2. attempts'[q] = [s EXCEPT ![n] = rec] /\ \A p \in Ids : p # q => attempts'[p] = attempts[p]
  BY <1>1 DEF WriteAttempt
<1>3. BookOf(attempts'[q]) = [BookOf(s) EXCEPT ![n] = EntryOf(rec)]
  <2>1. BookOf([s EXCEPT ![n] = rec]) = [BookOf(s) EXCEPT ![n] = EntryOf(rec)]
    <3> HIDE DEF s
    <3> QED  BY <1>1, BookReplace DEF s
  <2> QED  BY <1>2, <2>1
<1>4. BookOf(s)[n] = EntryOf(s[n])
  BY DEF BookOf
<1>5. EntryOf(rec) = [EntryOf(s[n]) EXCEPT !.status = LedgerStatus(rec.state)]
  BY DEF EntryOf
<1>6. [Book EXCEPT ![q][n].status = LedgerStatus(rec.state)]
        = [Book EXCEPT ![q] = [BookOf(s) EXCEPT ![n] = EntryOf(rec)]]
  <2>1. Book[q] = BookOf(s)
    BY BookIsBooks
  <2> QED  BY <1>4, <1>5, <2>1, Zenon
<1>7. Book' = [Book EXCEPT ![q] = BookOf(attempts'[q])]
  BY <1>2, BookIsBooks
<1> QED
  BY <1>3, <1>6, <1>7

\* A new attempt is a new entry.
LEMMA CreateInBook ==
  ASSUME TypeInv, NEW q \in Ids, NEW rec \in Attempt,
         attempts' = [attempts EXCEPT ![q] = Append(@, rec)]
  PROVE  Book' = [Book EXCEPT ![q] = Append(@, EntryOf(rec))]
<1>1. attempts[q] \in Seq(Attempt) /\ attempts \in [Ids -> Seq(Attempt)]
  BY DEF TypeInv, TypeOK
<1>2. attempts'[q] = Append(attempts[q], rec) /\ \A p \in Ids : p # q => attempts'[p] = attempts[p]
  BY <1>1
<1>3. BookOf(attempts'[q]) = Append(BookOf(attempts[q]), EntryOf(rec))
  BY <1>1, <1>2, BookAppend
<1>4. Book' = [Book EXCEPT ![q] = BookOf(attempts'[q])]
  BY <1>2, BookIsBooks
<1>5. Book[q] = BookOf(attempts[q])
  BY BookIsBooks
<1> QED
  BY <1>3, <1>4, <1>5

\* What the book says of an attempt.
LEMMA BookEntry ==
  ASSUME TypeInv, NEW q \in Ids
  PROVE  /\ DOMAIN Book[q] = DOMAIN attempts[q] /\ Len(Book[q]) = Len(attempts[q])
         /\ \A n \in DOMAIN attempts[q] :
              /\ Book[q][n].run = attempts[q][n].run
              /\ Book[q][n].status = LedgerStatus(attempts[q][n].state)
<1>1. attempts[q] \in Seq(Attempt)
  BY DEF TypeInv, TypeOK
<1>2. Book[q] = BookOf(attempts[q])
  BY DEF Book, LedgerOf, BookOf, EntryOf
<1> QED
  BY <1>1, <1>2, BookIsSeq DEF BookOf, EntryOf

LEMMA StatusOfState ==
  ASSUME NEW state \in States
  PROVE  /\ state \in Settled <=> LedgerStatus(state) \in {"passed", "failed"}
         /\ state \in Blocked => LedgerStatus(state) = "stopped"
         /\ state = "ready_to_evaluate" => LedgerStatus(state) = "ready"
         /\ state = "received_submission_only" <=> LedgerStatus(state) = "waiting"
         /\ LedgerStatus(state) \in {"waiting", "ready", "stopped", "passed", "failed"}
BY DEF States, Settled, Blocked, LedgerStatus

LEMMA EvaluateInLedger ==
  ASSUME TypeInv, VInv, OpenInv, TornWrites = FALSE, NEW t \in Tasks, Evaluate(t) \/ LlmRaises(t)
  PROVE  [Ledger!Next]_(Ledger!vars)
<1>1. golden' = golden
  BY DEF Evaluate, LlmRaises, StartEvaluation, GrammarExplained, TuGraphAnswers, ReviewAnswers,
     BlockAttempt, SaveEvaluation, SaveTicket, LinkTicket, MarkSettled, AssessImprovement, DoneCallback, disk
<1>2. CASE UNCHANGED attempts
  BY <1>1, <1>2, BookIsBooks DEF Ledger!vars, Book
<1>3. CASE Writes(t)
  <2> DEFINE q == t.id
             n == t.no
  <2>1. task[t].pc # "idle"
    BY <1>3 DEF Writes, Working, Awaiting, Saving
  <2>2. n \in DOMAIN attempts[q] /\ q \in Ids /\ IsOpen(t, attempts)
    BY <1>3, <2>1 DEF Writes, TypeInv, TaskInv, Tasks, OpenInv, Opened
  <2>3. PICK rec \in Attempt :
          /\ rec.run = attempts[q][n].run
          /\ \/ rec.state = attempts[q][n].state
             \/ task[t].pc \in {"block", "mark"} /\ rec.state \in Blocked \cup Settled
          /\ WriteAttempt(q, n, rec)
    BY <1>3 DEF Writes, Mutate, TornMutate, Record
  <2> DEFINE s == LedgerStatus(rec.state)
  <2>4. Book' = [Book EXCEPT ![q][n].status = s]
    BY <2>2, <2>3, WriteInBook
  <2>5. /\ DOMAIN Book[q] = DOMAIN attempts[q]
        /\ Book[q][n].status = LedgerStatus(attempts[q][n].state)
    BY <2>2, BookEntry
  <2>6. CASE rec.state = attempts[q][n].state
    <3>1. Book[q] = BookOf(attempts[q]) /\ Book'[q] = BookOf(attempts'[q])
      BY <2>2, BookIsBooks
    <3>2. attempts'[q] = [attempts[q] EXCEPT ![n] = rec] /\ \A p \in Ids : p # q => attempts'[p] = attempts[p]
      BY <2>2, <2>3 DEF WriteAttempt, TypeInv, TypeOK
    <3>3. EntryOf(rec) = EntryOf(attempts[q][n])
      BY <2>3, <2>6 DEF EntryOf
    <3>4. BookOf(attempts'[q]) = BookOf(attempts[q])
      <4>1. attempts[q] \in Seq(Attempt)
        BY <2>2 DEF TypeInv, TypeOK
      <4> QED
        BY <2>2, <3>2, <3>3, <4>1 DEF BookOf
    <3>5. Book' = Book
      BY <3>2, <3>4, BookIsBooks
    <3> QED
      BY <1>1, <3>5 DEF Ledger!vars, Book
  <2>7. CASE task[t].pc \in {"block", "mark"} /\ rec.state \in Blocked \cup Settled
    <3>0. attempts[q] \in Seq(Attempt)
      BY <2>2 DEF TypeInv, TypeOK
    <3>1. attempts[q][n].state \in States /\ rec.state \in States
      <4>1. attempts[q][n] \in Attempt
        BY <2>2, <3>0
      <4> QED
        BY <4>1 DEF Attempt
    <3>2. attempts[q][n].state \notin Settled
      BY <1>3, <2>7 DEF Writes, VInv, TasksSupported, Supported
    <3>3. Book[q][n].status \in {"ready", "stopped"}
      BY <2>2, <2>5, <3>1, <3>2, StatusOfState DEF IsOpen
    <3>4. s \in {"stopped"} \cup {"passed", "failed"}
      BY <2>7, <3>1, StatusOfState
    <3>5. golden[q] # None
      BY <2>2 DEF OpenInv, GoldenFirst, IsOpen
    <3> HIDE DEF q, n, s
    <3>6. Ledger!Conclude(q, n, s)
      BY <1>1, <2>4, <3>3, <3>5 DEF Ledger!Conclude, Book
    <3>7. n \in DOMAIN Book[q] /\ q \in Ids
      BY <2>2, <2>5
    <3> QED
      BY <3>4, <3>6, <3>7 DEF Ledger!Next, Ledger!Concluded, Book
  <2> QED
    BY <2>3, <2>6, <2>7
<1> QED
  BY <1>2, <1>3, EvaluateWrites

LEMMA CreateInLedger ==
  ASSUME TypeInv, TornWrites = FALSE, NEW q \in Ids, NEW r \in Runs, NEW kind \in {"generated", "generation_failed"},
         NEW content \in Contents \cup {None},
         ~Stored(q, r), CreateAttempt(q, r, kind, content), golden' = golden
  PROVE  [Ledger!Next]_(Ledger!vars)
<1> DEFINE n == Len(attempts[q]) + 1
           rec == NewAttempt(n, r, kind, content,
               IF golden[q] = None THEN "received_submission_only" ELSE "ready_to_evaluate")
           e == [run |-> r, status |-> IF golden[q] = None THEN "waiting" ELSE "ready"]
<1>1. attempts' = [attempts EXCEPT ![q] = Append(@, rec)] /\ n <= MaxAttempts /\ n \in Nat
  BY DEF CreateAttempt, TypeInv, TypeOK
<1>2. rec \in Attempt
  <2>1. n \in 0..MaxAttempts
    BY <1>1, TestingAssumption
  <2> QED
    BY <2>1 DEF Attempt, NewAttempt, States
<1>3. EntryOf(rec) = e
  BY DEF EntryOf, NewAttempt, LedgerStatus, Blocked
<1>4. Book' = [Book EXCEPT ![q] = Append(@, e)]
  <2> HIDE DEF rec, e
  <2> QED  BY <1>1, <1>2, <1>3, CreateInBook
<1>5. \A i \in DOMAIN Book[q] : Book[q][i].run # r
  BY BookEntry DEF Stored
<1>6. Ledger!Register(q, r)
  BY <1>4, <1>5 DEF Ledger!Register, Book
<1> QED
  BY <1>6 DEF Ledger!Next

LEMMA GoldenInLedger ==
  ASSUME TypeInv, OneAttemptPerRun, LatestIsNewest, TornWrites = FALSE,
         NEW q \in Ids, NEW g \in Goldens, IngestGolden(q, g)
  PROVE  [Ledger!Next]_(Ledger!vars)
<1> DEFINE n == latest[q].no
           rec == [attempts[q][n] EXCEPT !.state = "ready_to_evaluate"]
<1>1. golden[q] \in {None, g} /\ golden' = [golden EXCEPT ![q] = g]
  BY DEF IngestGolden
<1>2. CASE UNCHANGED attempts
  <2>1. Book' = Book
    BY <1>2, BookIsBooks
  <2>2. Ledger!AcceptGolden(q, g)
    BY <1>1, <2>1 DEF Ledger!AcceptGolden, Book
  <2> QED
    BY <2>2 DEF Ledger!Next
<1>3. CASE Opens(q) /\ WriteAttempt(q, n, rec)
  <2>1. /\ n = Len(attempts[q]) /\ n \in DOMAIN attempts[q] /\ n \in Nos
        /\ attempts[q][n].state \notin Settled
        /\ rec \in Attempt /\ rec.run = attempts[q][n].run /\ rec.state = "ready_to_evaluate"
    BY <1>3, OpensNewest
  <2>2. attempts[q][n].state \in States
    BY <2>1 DEF TypeInv, TypeOK, Attempt
  <2>3. LedgerStatus(rec.state) = "ready"
    BY <2>1 DEF LedgerStatus, Blocked
  <2>4. Book' = [Book EXCEPT ![q][n].status = "ready"]
    <3>1. Book' = [Book EXCEPT ![q][n].status = LedgerStatus(rec.state)]
      <4> HIDE DEF rec
      <4> QED  BY <1>3, <2>1, WriteInBook
    <3> QED  BY <2>3, <3>1
  <2>5. Len(Book[q]) = n /\ n # 0
    BY <2>1, BookEntry DEF Nos
  <2>6. Book[q][n].status \notin {"passed", "failed"}
    BY <2>1, <2>2, BookEntry, StatusOfState
  <2> HIDE DEF n
  <2>7. Ledger!AcceptGolden(q, g)
    BY <1>1, <2>4, <2>5, <2>6 DEF Ledger!AcceptGolden, Ledger!Concluded, Book
  <2> QED
    BY <2>7 DEF Ledger!Next
<1> QED
  BY <1>2, <1>3 DEF IngestGolden, Mutate, TornMutate

LEMMA RequestInLedger ==
  ASSUME TypeInv, OneAttemptPerRun, LatestIsNewest, TornWrites = FALSE, NEW q \in Ids, Request(q)
  PROVE  [Ledger!Next]_(Ledger!vars)
<1>1. ASSUME NEW g \in Goldens, IngestGolden(q, g) PROVE [Ledger!Next]_(Ledger!vars)
  BY <1>1, GoldenInLedger
<1>2. ASSUME NEW r \in Runs, NEW c \in Contents, IngestSubmission(q, r, c) PROVE [Ledger!Next]_(Ledger!vars)
  BY <1>2, CreateInLedger DEF IngestSubmission
<1>3. CASE UNCHANGED <<golden, attempts>>
  BY <1>3, BookIsBooks DEF Ledger!vars, Book
<1>4. ASSUME NEW r \in Runs, NEW st \in Reported, IngestGenerationFailure(q, r, st)
      PROVE  [Ledger!Next]_(Ledger!vars)
  <2>1. CASE UNCHANGED attempts
    BY <1>3, <1>4, <2>1 DEF IngestGenerationFailure
  <2>2. CASE ~Stored(q, r) /\ CreateAttempt(q, r, "generation_failed", None)
    BY <1>4, <2>2, CreateInLedger DEF IngestGenerationFailure
  <2> QED
    BY <1>4, <2>1, <2>2 DEF IngestGenerationFailure
<1>5. (\E r \in Announced : IngestQuestionReceived(q, r)) \/ GetEvaluationStatus(q) => UNCHANGED <<golden, attempts>>
  BY DEF IngestQuestionReceived, GetEvaluationStatus, disk
<1> QED
  BY <1>1, <1>2, <1>3, <1>4, <1>5 DEF Request

\* Every step of the agent - requests in any order, several tasks for one
\* attempt, deaths between its writes, restarts - is a step of the ledger or
\* leaves it alone, unless a death falls between the two files of a mutation.
THEOREM RefinesLedger == TornWrites = FALSE => (Spec => ImplementsLedger)
<1> SUFFICES ASSUME TornWrites = FALSE PROVE Spec => ImplementsLedger
  OBVIOUS
<1>1. Init => Ledger!Init
  <2> SUFFICES ASSUME Init PROVE Ledger!Init
    OBVIOUS
  <2>1. \A q \in Ids : LedgerOf(q) = <<>>
    BY DEF Init, LedgerOf
  <2> QED
    BY <2>1 DEF Init, Ledger!Init
<1>2. ASSUME TypeInv, VInv, OneAttemptPerRun, LatestIsNewest, OpenInv, [Next]_vars
      PROVE  [Ledger!Next]_(Ledger!vars)
  <2>1. ASSUME NEW q \in Ids, Request(q) PROVE [Ledger!Next]_(Ledger!vars)
    BY <1>2, <2>1, RequestInLedger
  <2>2. ASSUME NEW t \in Tasks, Evaluate(t) \/ LlmRaises(t) PROVE [Ledger!Next]_(Ledger!vars)
    BY <1>2, <2>2, EvaluateInLedger
  <2>3. CASE UNCHANGED <<golden, attempts>>
    BY <2>3, BookIsBooks DEF Ledger!vars, Book
  <2>4. Crash \/ Startup \/ UNCHANGED vars => UNCHANGED <<golden, attempts>>
    BY DEF Crash, Startup, vars, disk
  <2> QED
    BY <1>2, <2>1, <2>2, <2>3, <2>4 DEF Next
<1>3. Spec => []LatestIsNewest
  BY LatestAlwaysNewest
<1>4. Spec => []OpenInv
  BY AlwaysOpen
<1> QED
  BY <1>1, <1>2, <1>3, <1>4, VerdictInductive, AlwaysOneAttemptPerRun, PTL DEF Spec, ImplementsLedger, Ledger!Spec

-----------------------------------------------------------------------------
(* While no process has died, what an attempt holds is what its state says. *)

Filed(q, n, K) == \E k \in K : k.id = q /\ k.no = n

\* An attempt a with the task k: an evaluation, a ticket that is linked and a
\* ticket that is on file are there at the end or on the way to it.
Justified(a, k, filed) ==
  /\ a.evaluation # "none" => a.state \in Settled \/ k.pc \in {"save_ticket", "link_ticket", "mark"}
  /\ a.ticket => a.state = "issue_ticket_created" \/ (k.pc = "mark" /\ k.outcome \in FailReasons)
  /\ filed => a.state = "issue_ticket_created" \/ (k.pc \in {"link_ticket", "mark"} /\ k.outcome \in FailReasons)

JustifiedInv ==
  \A q \in Ids : \A n \in DOMAIN attempts[q] : \E t \in Tasks :
    t.id = q /\ t.no = n /\ Justified(attempts[q][n], task[t], Filed(q, n, tickets))

TicketsFiled == \A k \in tickets : k.no \in DOMAIN attempts[k.id]

AgreeInv == up /\ JustifiedInv /\ TicketsFiled /\ LatestDoesNotWait /\ LatestIsNewest

LEMMA JustifiedAlone ==
  ASSUME NEW a, NEW k, NEW filed \in BOOLEAN, Justified(a, k, filed), k.pc \notin Saving, NEW j
  PROVE  Justified(a, j, filed)
BY DEF Justified, Saving

\* The task past its lock is the one that justifies what its attempt holds.
LEMMA OwnJustified ==
  ASSUME VInv, JustifiedInv, NEW t \in Tasks, t.no \in DOMAIN attempts[t.id],
         task[t].pc \in Working \/ \A u \in Tasks : task[u].pc \notin Saving
  PROVE  Justified(Record(t), task[t], Filed(t.id, t.no, tickets))
<1>1. PICK u \in Tasks : u.id = t.id /\ u.no = t.no /\ Justified(Record(t), task[u], Filed(t.id, t.no, tickets))
  BY DEF JustifiedInv, Record, Tasks
<1>2. u = t \/ task[u].pc \notin Saving
  BY <1>1 DEF VInv, OneWorking, Working
<1>3. Filed(t.id, t.no, tickets) \in BOOLEAN
  BY DEF Filed
<1> QED
  BY <1>1, <1>2, <1>3, JustifiedAlone

\* A step that writes nothing and moves no task that is saving.
LEMMA FrameJ ==
  ASSUME JustifiedInv, UNCHANGED <<attempts, tickets>>,
         \A t \in Tasks : task[t].pc \in Saving => task'[t] = task[t]
  PROVE  JustifiedInv'
<1> SUFFICES ASSUME NEW q \in Ids, NEW n \in DOMAIN attempts[q]
             PROVE  \E t \in Tasks : t.id = q /\ t.no = n
                      /\ Justified(attempts[q][n], task'[t], Filed(q, n, tickets))
  BY DEF JustifiedInv, Justified, Filed
<1>1. PICK t \in Tasks : t.id = q /\ t.no = n /\ Justified(attempts[q][n], task[t], Filed(q, n, tickets))
  BY DEF JustifiedInv
<1>2. Filed(q, n, tickets) \in BOOLEAN
  BY DEF Filed
<1>3. Justified(attempts[q][n], task'[t], Filed(q, n, tickets))
  BY <1>1, <1>2, JustifiedAlone
<1> QED
  BY <1>1, <1>3

\* A step of one task, on its attempt and the ticket of that.
LEMMA OwnStepJ ==
  ASSUME JustifiedInv, NEW t \in Tasks,
         \A u \in Tasks \ {t} : task'[u] = task[u],
         \A p \in Ids : DOMAIN attempts'[p] = DOMAIN attempts[p],
         \A p \in Ids : \A i \in DOMAIN attempts[p] :
           (p # t.id \/ i # t.no) => attempts'[p][i] = attempts[p][i],
         \A p \in Ids : \A i \in DOMAIN attempts[p] :
           (p # t.id \/ i # t.no) => Filed(p, i, tickets') = Filed(p, i, tickets),
         Justified(attempts'[t.id][t.no], task'[t], Filed(t.id, t.no, tickets'))
  PROVE  JustifiedInv'
<1> SUFFICES ASSUME NEW q \in Ids, NEW n \in DOMAIN attempts[q]
             PROVE  \E u \in Tasks : u.id = q /\ u.no = n
                      /\ Justified(attempts'[q][n], task'[u], Filed(q, n, tickets'))
  BY DEF JustifiedInv, Justified, Filed
<1>1. CASE q = t.id /\ n = t.no
  BY <1>1
<1>2. CASE q # t.id \/ n # t.no
  <2>1. PICK u \in Tasks : u.id = q /\ u.no = n /\ Justified(attempts[q][n], task[u], Filed(q, n, tickets))
    BY DEF JustifiedInv
  <2>2. /\ task'[u] = task[u] /\ attempts'[q][n] = attempts[q][n]
        /\ Filed(q, n, tickets') = Filed(q, n, tickets)
    BY <1>2, <2>1
  <2> QED
    BY <2>1, <2>2
<1> QED
  BY <1>1, <1>2

\* A saving step, of which what it writes is justified.
LEMMA SaveJ ==
  ASSUME TypeInv, JustifiedInv, ~Die, NEW t \in Tasks, t.no \in DOMAIN attempts[t.id],
         NEW rec \in Attempt, NEW pc \in Pcs, NEW outcome \in Outcomes, Save(t, rec, pc, outcome), tickets' = tickets,
         Justified(rec, [pc |-> pc, outcome |-> outcome], Filed(t.id, t.no, tickets))
  PROVE  JustifiedInv'
<1>1. WriteAttempt(t.id, t.no, rec) /\ To(t, pc, outcome) /\ t.id \in Ids
  BY DEF Save, Mutate, TornMutate, Tasks
<1>2. /\ attempts'[t.id][t.no] = rec
      /\ \A p \in Ids : DOMAIN attempts'[p] = DOMAIN attempts[p]
      /\ \A p \in Ids : \A i \in DOMAIN attempts[p] :
           (p # t.id \/ i # t.no) => attempts'[p][i] = attempts[p][i]
  BY <1>1, WrittenElements DEF TypeInv
<1>3. task'[t] = [pc |-> pc, outcome |-> outcome] /\ \A u \in Tasks \ {t} : task'[u] = task[u]
  BY <1>1, ToType DEF TypeInv
<1>4. Justified(attempts'[t.id][t.no], task'[t], Filed(t.id, t.no, tickets'))
  BY <1>2, <1>3
<1>5. \A p \in Ids : \A i \in DOMAIN attempts[p] : Filed(p, i, tickets') = Filed(p, i, tickets)
  OBVIOUS
<1> QED
  BY <1>2, <1>3, <1>4, <1>5, OwnStepJ

LEMMA EvaluateJ ==
  ASSUME TypeInv, VInv, JustifiedInv, ~Die, NEW t \in Tasks, Evaluate(t) \/ LlmRaises(t)
  PROVE  JustifiedInv'
<1> DEFINE a == Record(t)
           out == task[t].outcome
           filed == Filed(t.id, t.no, tickets)
<1>0. /\ task[t].pc \in Working => a \in Attempt /\ out \in Outcomes /\ Fits(task[t]) /\ t.no \in DOMAIN attempts[t.id]
      /\ filed \in BOOLEAN
  BY RecordType DEF TypeInv, TaskInv, TypeOK, Filed
<1>w. \A pc \in {"executing", "reviewing", "block", "save_evaluation", "save_ticket", "link_ticket", "mark", "improve"} :
        pc \in Working /\ pc \in Pcs
  BY DEF Working, Awaiting, Saving, Pcs
<1>o. \A pc \in {"done"} \cup {"explaining", "executing", "reviewing"} : pc \in Pcs /\ pc \notin Saving
  BY DEF Pcs, Saving, Awaiting
<1>j. task[t].pc \in Working => Justified(a, task[t], filed)
  BY <1>0, OwnJustified
<1>s. task[t].pc \in Working /\ task[t].pc # "improve" => a.state \notin Settled
  BY DEF VInv, TasksSupported, Supported, Record
<1>1. CASE TuGraphAnswers(t)
  <2>1. task[t].pc = "executing"
    BY <1>1 DEF TuGraphAnswers
  <2>2. a.evaluation = "none" /\ a.ticket = FALSE /\ filed = FALSE
    BY <1>0, <1>w, <1>j, <1>s, <2>1 DEF Justified, Settled, Attempt
  <2>3. \A e \in {"ok", "failed"} : LET rec == [a EXCEPT !.execution = e] IN
          rec \in Attempt /\ \A k : Justified(rec, k, filed)
    BY <1>0, <1>w, <2>1, <2>2 DEF Attempt, Justified
  <2>4. {"strict_equal", "none", "tugraph_execution_failed"} \subseteq Outcomes
    BY DEF Outcomes, Reasons, PassReasons, Blocked
  <2> HIDE DEF a, filed
  <2>5. \E e \in {"ok", "failed"}, pc \in {"save_evaluation", "reviewing", "block"},
           o \in {"strict_equal", "none", "tugraph_execution_failed"} : Save(t, [a EXCEPT !.execution = e], pc, o)
    BY <1>1 DEF TuGraphAnswers, a
  <2>6. PICK e \in {"ok", "failed"}, pc \in {"save_evaluation", "reviewing", "block"},
           o \in {"strict_equal", "none", "tugraph_execution_failed"} : Save(t, [a EXCEPT !.execution = e], pc, o)
    BY <2>5
  <2> DEFINE rec == [a EXCEPT !.execution = e]
  <2>7. rec \in Attempt /\ Justified(rec, [pc |-> pc, outcome |-> o], filed)
    BY <2>3
  <2>8. pc \in Pcs /\ o \in Outcomes /\ tickets' = tickets
    BY <1>1, <1>w, <2>4 DEF TuGraphAnswers
  <2> QED
    BY <1>0, <1>w, <2>1, <2>6, <2>7, <2>8, SaveJ DEF filed
<1>2. CASE ReviewAnswers(t)
  <2>1. task[t].pc = "reviewing"
    BY <1>2 DEF ReviewAnswers
  <2>2. a.evaluation = "none" /\ a.ticket = FALSE /\ filed = FALSE
    BY <1>0, <1>w, <1>j, <1>s, <2>1 DEF Justified, Settled, Attempt
  <2>3. \A e \in {"accepted", "invalid"} : LET rec == [a EXCEPT !.review = e] IN
          rec \in Attempt /\ \A k : Justified(rec, k, filed)
    BY <1>0, <1>w, <2>1, <2>2 DEF Attempt, Justified
  <2>4. {"semantic_equivalent", "not_equivalent", "semantic_review_invalid"} \subseteq Outcomes
    BY DEF Outcomes, Reasons, PassReasons, FailReasons, Blocked
  <2> HIDE DEF a, filed
  <2>5. \E e \in {"accepted", "invalid"}, pc \in {"save_evaluation", "block"},
           o \in {"semantic_equivalent", "not_equivalent", "semantic_review_invalid"} : Save(t, [a EXCEPT !.review = e], pc, o)
    BY <1>2 DEF ReviewAnswers, a
  <2>6. PICK e \in {"accepted", "invalid"}, pc \in {"save_evaluation", "block"},
           o \in {"semantic_equivalent", "not_equivalent", "semantic_review_invalid"} : Save(t, [a EXCEPT !.review = e], pc, o)
    BY <2>5
  <2> DEFINE rec == [a EXCEPT !.review = e]
  <2>7. rec \in Attempt /\ Justified(rec, [pc |-> pc, outcome |-> o], filed)
    BY <2>3
  <2>8. pc \in Pcs /\ o \in Outcomes /\ tickets' = tickets
    BY <1>2, <1>w, <2>4 DEF ReviewAnswers
  <2> QED
    BY <1>0, <1>w, <2>1, <2>6, <2>7, <2>8, SaveJ DEF filed
<1>3. CASE BlockAttempt(t)
  <2> DEFINE rec == [a EXCEPT !.state = out]
  <2>1. task[t].pc = "block" /\ Save(t, rec, "done", "none") /\ tickets' = tickets
    BY <1>3 DEF BlockAttempt
  <2>2. a.evaluation = "none" /\ a.ticket = FALSE /\ filed = FALSE
    BY <1>0, <1>w, <1>j, <1>s, <2>1 DEF Justified, Settled, Attempt
  <2>3. rec \in Attempt /\ Justified(rec, [pc |-> "done", outcome |-> "none"], filed)
    BY <1>0, <1>w, <2>1, <2>2 DEF Attempt, Justified, Fits, States
  <2>4. "none" \in Outcomes
    BY DEF Outcomes
  <2> HIDE DEF rec, filed
  <2> QED
    BY <1>0, <1>o, <1>w, <2>1, <2>3, <2>4, SaveJ DEF filed
<1>4. CASE SaveEvaluation(t)
  <2> DEFINE rec == [a EXCEPT !.evaluation = out]
             pc == IF out \in PassReasons THEN "mark" ELSE "save_ticket"
  <2>1. task[t].pc = "save_evaluation" /\ Save(t, rec, pc, out) /\ tickets' = tickets
    BY <1>4 DEF SaveEvaluation
  <2>2. a.evaluation = "none" /\ a.ticket = FALSE /\ filed = FALSE
    BY <1>0, <1>w, <1>j, <1>s, <2>1 DEF Justified, Settled, Attempt
  <2>3. rec \in Attempt /\ Justified(rec, [pc |-> pc, outcome |-> out], filed)
    BY <1>0, <1>w, <2>1, <2>2 DEF Attempt, Justified, Fits
  <2>4. pc \in Pcs
    BY <1>w
  <2> HIDE DEF rec, pc, filed, out
  <2> QED
    BY <1>0, <1>w, <2>1, <2>3, <2>4, SaveJ DEF filed
<1>5. CASE SaveTicket(t)
  <2>1. /\ task[t].pc = "save_ticket" /\ To(t, "link_ticket", out) /\ attempts' = attempts
        /\ tickets' = {k \in tickets : <<k.id, k.no>> # <<t.id, t.no>>} \cup {Ticket(t, out)}
    BY <1>5 DEF SaveTicket
  <2>2. a.ticket = FALSE
    BY <1>0, <1>w, <1>j, <1>s, <2>1 DEF Justified, Settled, Attempt
  <2>3. out \in FailReasons
    BY <1>0, <1>w, <2>1 DEF Fits
  <2>4. task'[t] = [pc |-> "link_ticket", outcome |-> out] /\ \A u \in Tasks \ {t} : task'[u] = task[u]
    BY <1>0, <1>w, <2>1, ToType DEF TypeInv
  <2>5. \A p \in Ids : \A i \in DOMAIN attempts[p] :
           (p # t.id \/ i # t.no) => Filed(p, i, tickets') = Filed(p, i, tickets)
    BY <2>1 DEF Filed, Ticket
  <2>6. Justified(attempts'[t.id][t.no], task'[t], Filed(t.id, t.no, tickets'))
    BY <2>1, <2>2, <2>3, <2>4 DEF Justified, Record
  <2> QED
    BY <2>1, <2>4, <2>5, <2>6, OwnStepJ
<1>6. CASE LinkTicket(t)
  <2> DEFINE rec == [a EXCEPT !.ticket = TRUE]
  <2>1. task[t].pc = "link_ticket" /\ Save(t, rec, "mark", out) /\ tickets' = tickets
    BY <1>6 DEF LinkTicket
  <2>2. out \in FailReasons
    BY <1>0, <1>w, <2>1 DEF Fits
  <2>3. rec \in Attempt /\ Justified(rec, [pc |-> "mark", outcome |-> out], filed)
    BY <1>0, <1>w, <2>1, <2>2 DEF Attempt, Justified
  <2> HIDE DEF rec, filed, out
  <2> QED
    BY <1>0, <1>w, <2>1, <2>3, SaveJ DEF filed
<1>7. CASE MarkSettled(t)
  <2> DEFINE rec == [a EXCEPT !.state = IF out \in PassReasons THEN "passed" ELSE "issue_ticket_created"]
  <2>1. task[t].pc = "mark" /\ Save(t, rec, "improve", "none") /\ tickets' = tickets
    BY <1>7 DEF MarkSettled
  <2>2. out \in PassReasons => a.ticket = FALSE /\ filed = FALSE
    BY <1>0, <1>w, <1>j, <1>s, <2>1 DEF Justified, Settled, Attempt, PassReasons, FailReasons
  <2>3. rec \in Attempt /\ Justified(rec, [pc |-> "improve", outcome |-> "none"], filed)
    BY <1>0, <1>w, <2>1, <2>2 DEF Attempt, Justified, States, Settled
  <2>4. "none" \in Outcomes
    BY DEF Outcomes
  <2> HIDE DEF rec, filed, out
  <2> QED
    BY <1>0, <1>w, <2>1, <2>3, <2>4, SaveJ DEF filed
<1>8. CASE AssessImprovement(t)
  <2>1. task[t].pc = "improve" /\ tickets' = tickets
    BY <1>8 DEF AssessImprovement
  <2>2. \A k : Justified(a, k, filed)
    BY <1>0, <1>w, <1>j, <2>1, JustifiedAlone DEF Justified
  <2>3. "none" \in Outcomes
    BY DEF Outcomes
  <2>4. CASE Evaluated(t.id, t.no) = {}
    <3>1. To(t, "done", "none") /\ attempts' = attempts
      BY <1>8, <2>4 DEF AssessImprovement
    <3>2. task'[t] = [pc |-> "done", outcome |-> "none"] /\ \A u \in Tasks \ {t} : task'[u] = task[u]
      BY <1>o, <2>3, <3>1, ToType DEF TypeInv
    <3>3. Justified(attempts'[t.id][t.no], task'[t], Filed(t.id, t.no, tickets'))
      BY <2>1, <2>2, <3>1 DEF Record
    <3> QED
      BY <2>1, <3>1, <3>2, <3>3, OwnStepJ
  <2>5. CASE Evaluated(t.id, t.no) # {}
    <3> PICK p \in Evaluated(t.id, t.no) : Save(t, [a EXCEPT !.improvement = p], "done", "none")
      BY <1>8, <2>5 DEF AssessImprovement
    <3> DEFINE rec == [a EXCEPT !.improvement = p]
    <3>1. rec \in Attempt /\ Justified(rec, [pc |-> "done", outcome |-> "none"], filed)
      BY <1>0, <1>w, <2>1, <2>2 DEF Attempt, Evaluated, Justified
    <3>2. Save(t, rec, "done", "none")
      OBVIOUS
    <3> HIDE DEF rec, filed
    <3> QED
      BY <1>0, <1>o, <1>w, <2>1, <2>3, <3>1, <3>2, SaveJ DEF filed
  <2> QED
    BY <2>4, <2>5
<1>9. CASE StartEvaluation(t) \/ GrammarExplained(t) \/ LlmRaises(t) \/ DoneCallback(t)
  <2>1. LoopFree /\ UNCHANGED <<attempts, tickets>>
    BY <1>9 DEF StartEvaluation, GrammarExplained, LlmRaises, DoneCallback, disk
  <2> QED
    BY <2>1, FrameJ DEF LoopFree
<1> QED
  BY <1>1, <1>2, <1>3, <1>4, <1>5, <1>6, <1>7, <1>8, <1>9 DEF Evaluate

LEMMA CreateAgrees ==
  ASSUME TypeInv, AgreeInv, ~Die, LoopFree, NEW q \in Ids, NEW r, NEW kind, NEW content,
         CreateAttempt(q, r, kind, content), UNCHANGED <<golden, tickets>>
  PROVE  JustifiedInv' /\ TicketsFiled' /\ LatestDoesNotWait'
<1> DEFINE n == Len(attempts[q]) + 1
           rec == NewAttempt(n, r, kind, content,
               IF golden[q] = None THEN "received_submission_only" ELSE "ready_to_evaluate")
<1>1. /\ n \in Nos
      /\ attempts' = [attempts EXCEPT ![q] = Append(@, rec)]
      /\ latest' = [latest EXCEPT ![q] = rec]
  BY TestingAssumption DEF CreateAttempt, TypeInv, TypeOK, Nos
<1>2. /\ attempts'[q] = Append(attempts[q], rec) /\ \A p \in Ids : p # q => attempts'[p] = attempts[p]
      /\ attempts[q] \in Seq(Attempt)
      /\ latest'[q] = rec /\ \A p \in Ids : p # q => latest'[p] = latest[p]
  BY <1>1 DEF TypeInv, TypeOK
<1>3. /\ DOMAIN attempts'[q] = DOMAIN attempts[q] \cup {n}
      /\ \A i \in DOMAIN attempts[q] : attempts'[q][i] = attempts[q][i]
      /\ attempts'[q][n] = rec /\ n \notin DOMAIN attempts[q]
  BY <1>2
<1>4. rec.evaluation = "none" /\ rec.ticket = FALSE /\ (golden[q] # None => rec.state # "received_submission_only")
  BY DEF NewAttempt
<1>5. ~Filed(q, n, tickets)
  BY <1>3 DEF AgreeInv, TicketsFiled, Filed
<1> HIDE DEF rec
<1>6. ASSUME NEW p \in Ids, NEW i \in DOMAIN attempts'[p]
      PROVE  \E t \in Tasks : t.id = p /\ t.no = i /\ Justified(attempts'[p][i], task'[t], Filed(p, i, tickets))
  <2>1. CASE p = q /\ i = n
    <3>1. 1 \in Slots
      BY TestingAssumption DEF Slots
    <3>2. TaskOf(q, n, 1) \in Tasks /\ TaskOf(q, n, 1).id = q /\ TaskOf(q, n, 1).no = n
      BY <1>1, <3>1 DEF TaskOf, Tasks
    <3>3. Justified(rec, task'[TaskOf(q, n, 1)], Filed(q, n, tickets))
      BY <1>4, <1>5 DEF Justified
    <3> QED
      BY <1>3, <2>1, <3>2, <3>3
  <2>2. CASE p # q \/ i # n
    <3>1. i \in DOMAIN attempts[p] /\ attempts'[p][i] = attempts[p][i]
      BY <1>2, <1>3, <2>2
    <3>2. PICK t \in Tasks : t.id = p /\ t.no = i /\ Justified(attempts[p][i], task[t], Filed(p, i, tickets))
      BY <3>1 DEF AgreeInv, JustifiedInv
    <3>3. Filed(p, i, tickets) \in BOOLEAN /\ task[t].pc \notin Saving
      BY DEF Filed, LoopFree
    <3> QED
      BY <3>1, <3>2, <3>3, JustifiedAlone
  <2> QED
    BY <2>1, <2>2
<1>7. JustifiedInv'
  BY <1>6 DEF JustifiedInv, Justified, Filed
<1>8. TicketsFiled'
  BY <1>2, <1>3 DEF AgreeInv, TicketsFiled, TypeInv, TypeOK
<1>9. LatestDoesNotWait'
  BY <1>2, <1>4 DEF AgreeInv, LatestDoesNotWait
<1> QED
  BY <1>7, <1>8, <1>9

LEMMA GoldenAgrees ==
  ASSUME TypeInv, VInv, OneAttemptPerRun, AgreeInv, ~Die, NEW q \in Ids, NEW g \in Goldens, IngestGolden(q, g)
  PROVE  JustifiedInv' /\ TicketsFiled' /\ LatestDoesNotWait'
<1> DEFINE n == latest[q].no
           rec == [attempts[q][n] EXCEPT !.state = "ready_to_evaluate"]
<1>1. /\ \A p \in Ids : p # q => golden'[p] = golden[p]
      /\ LoopFree /\ tickets' = tickets
  BY DEF IngestGolden, TypeInv, TypeOK
<1>2. CASE ~Opens(q)
  <2>1. UNCHANGED <<attempts, latest, task>>
    BY <1>2 DEF IngestGolden
  <2>2. latest[q].state # "received_submission_only"
    <3>1. CASE attempts[q] = <<>>
      BY <3>1 DEF AgreeInv, LatestIsNewest, NoRecord, NewAttempt
    <3>2. CASE attempts[q] # <<>>
      <4>1. Len(attempts[q]) \in DOMAIN attempts[q] /\ Len(attempts[q]) # 0 /\ Len(attempts[q]) \in Nat
        BY <3>2 DEF TypeInv, TypeOK
      <4>2. latest[q].no = Len(attempts[q])
        BY <3>2, <4>1 DEF AgreeInv, LatestIsNewest, OneAttemptPerRun
      <4> QED
        BY <1>2, <4>1, <4>2 DEF Opens, Settled
    <3> QED
      BY <3>1, <3>2
  <2>3. JustifiedInv'
    BY <1>1, <2>1, FrameJ DEF AgreeInv
  <2> QED
    BY <1>1, <2>1, <2>2, <2>3 DEF AgreeInv, TicketsFiled, LatestDoesNotWait
<1>3. CASE Opens(q)
  <2>1. Mutate(q, n, rec) /\ Schedule(q, n)
    BY <1>3 DEF IngestGolden, TornMutate
  <2>2. n \in DOMAIN attempts[q] /\ n \in Nos /\ n \in Nat /\ attempts[q][n].state \notin Settled
        /\ rec \in Attempt /\ rec.state = "ready_to_evaluate"
    BY <1>3, OpensNewest DEF AgreeInv, Nos
  <2>3. attempts[q][n] \in Attempt
    BY <2>2 DEF TypeInv, TypeOK
  <2>4. rec.evaluation = attempts[q][n].evaluation /\ rec.ticket = attempts[q][n].ticket
    BY <2>3 DEF Attempt
  <2>5. /\ attempts'[q][n] = rec
        /\ \A p \in Ids : DOMAIN attempts'[p] = DOMAIN attempts[p]
        /\ \A p \in Ids : \A i \in DOMAIN attempts[p] :
             (p # q \/ i # n) => attempts'[p][i] = attempts[p][i]
    BY <2>1, <2>2, WrittenElements DEF TypeInv, Mutate
  <2> HIDE DEF rec, n
  <2>6. ASSUME NEW p \in Ids, NEW i \in DOMAIN attempts'[p]
        PROVE  \E t \in Tasks : t.id = p /\ t.no = i /\ Justified(attempts'[p][i], task'[t], Filed(p, i, tickets))
    <3>1. i \in DOMAIN attempts[p]
      BY <2>5
    <3>2. PICK t \in Tasks : t.id = p /\ t.no = i /\ Justified(attempts[p][i], task[t], Filed(p, i, tickets))
      BY <3>1 DEF AgreeInv, JustifiedInv
    <3>3. Filed(p, i, tickets) \in BOOLEAN /\ task[t].pc \notin Saving
      BY <1>1 DEF Filed, LoopFree
    <3>4. Justified(attempts[p][i], task'[t], Filed(p, i, tickets))
      BY <3>2, <3>3, JustifiedAlone
    <3>5. CASE p = q /\ i = n
      <4>1. attempts[q][n].evaluation = "none" /\ ~attempts[q][n].ticket /\ ~Filed(p, i, tickets)
        BY <2>2, <3>2, <3>3, <3>5 DEF Justified, Settled, Saving
      <4>2. Justified(rec, task'[t], Filed(p, i, tickets))
        BY <2>4, <4>1 DEF Justified
      <4> QED
        BY <2>5, <3>2, <3>5, <4>2
    <3>6. CASE p # q \/ i # n
      BY <2>5, <3>1, <3>2, <3>4, <3>6
    <3> QED
      BY <3>5, <3>6
  <2>7. JustifiedInv'
    BY <1>1, <2>6 DEF JustifiedInv, Justified, Filed
  <2>8. latest'[q].state = "ready_to_evaluate" /\ \A p \in Ids : p # q => latest'[p] = latest[p]
    BY <2>1, <2>2 DEF Mutate, TypeInv, TypeOK, n
  <2> QED
    BY <1>1, <2>5, <2>7, <2>8 DEF AgreeInv, TicketsFiled, LatestDoesNotWait, TypeInv, TypeOK
<1> QED
  BY <1>2, <1>3

LEMMA RestAgrees ==
  ASSUME TypeInv, AgreeInv, UNCHANGED <<golden, attempts, latest, tickets>>,
         UNCHANGED task \/ LoopFree
  PROVE  JustifiedInv' /\ TicketsFiled' /\ LatestDoesNotWait'
<1>1. JustifiedInv'
  BY FrameJ DEF AgreeInv, LoopFree
<1> QED
  BY <1>1 DEF AgreeInv, TicketsFiled, LatestDoesNotWait

LEMMA RequestAgrees ==
  ASSUME TypeInv, VInv, OneAttemptPerRun, AgreeInv, ~Die, NEW q \in Ids, Request(q)
  PROVE  JustifiedInv' /\ TicketsFiled' /\ LatestDoesNotWait'
<1> DEFINE Goal == JustifiedInv' /\ TicketsFiled' /\ LatestDoesNotWait'
<1>1. ASSUME NEW g \in Goldens, IngestGolden(q, g) PROVE Goal
  BY <1>1, GoldenAgrees
<1>2. ASSUME NEW r \in Runs, NEW c \in Contents, IngestSubmission(q, r, c) PROVE Goal
  BY <1>2, CreateAgrees DEF IngestSubmission
<1>3. ASSUME NEW r \in Runs, NEW st \in Reported, IngestGenerationFailure(q, r, st) PROVE Goal
  <2>1. LoopFree /\ UNCHANGED <<golden, tickets>>
    BY <1>3 DEF IngestGenerationFailure
  <2>2. CASE UNCHANGED <<attempts, latest>>
    BY <2>1, <2>2, RestAgrees
  <2>3. CASE CreateAttempt(q, r, "generation_failed", None)
    BY <2>1, <2>3, CreateAgrees
  <2> QED
    BY <1>3, <2>2, <2>3 DEF IngestGenerationFailure
<1>4. ASSUME NEW r \in Announced, IngestQuestionReceived(q, r) PROVE Goal
  BY <1>4, RestAgrees DEF IngestQuestionReceived, memory
<1>5. ASSUME GetEvaluationStatus(q) PROVE Goal
  BY <1>5, RestAgrees DEF GetEvaluationStatus, disk
<1> QED
  BY <1>1, <1>2, <1>3, <1>4, <1>5 DEF Request

LEMMA EvaluateAgrees ==
  ASSUME TypeInv, VInv, OneAttemptPerRun, AgreeInv, ~Die, NEW t \in Tasks, Evaluate(t) \/ LlmRaises(t)
  PROVE  JustifiedInv' /\ TicketsFiled' /\ LatestDoesNotWait'
<1>1. JustifiedInv'
  BY EvaluateJ DEF AgreeInv
<1>2. golden' = golden
  BY DEF Evaluate, LlmRaises, StartEvaluation, GrammarExplained, TuGraphAnswers, ReviewAnswers,
     BlockAttempt, SaveEvaluation, SaveTicket, LinkTicket, MarkSettled, AssessImprovement, DoneCallback, disk
<1>3. tickets' = tickets \/ SaveTicket(t)
  BY DEF Evaluate, LlmRaises, StartEvaluation, GrammarExplained, TuGraphAnswers, ReviewAnswers,
     BlockAttempt, SaveEvaluation, LinkTicket, MarkSettled, AssessImprovement, DoneCallback, disk
<1>4. CASE UNCHANGED <<attempts, latest>>
  <2>1. LatestDoesNotWait'
    BY <1>2, <1>4 DEF AgreeInv, LatestDoesNotWait
  <2>2. CASE tickets' = tickets
    BY <1>1, <1>4, <2>1, <2>2 DEF AgreeInv, TicketsFiled
  <2>3. CASE SaveTicket(t)
    <3>1. t.no \in DOMAIN attempts[t.id]
      BY <2>3 DEF SaveTicket, Working, Saving, TypeInv, TaskInv
    <3>2. tickets' \subseteq tickets \cup {Ticket(t, task[t].outcome)}
      BY <2>3 DEF SaveTicket
    <3>3. TicketsFiled'
      BY <1>4, <3>1, <3>2 DEF AgreeInv, TicketsFiled, Ticket
    <3> QED
      BY <1>1, <2>1, <3>3
  <2> QED
    BY <1>1, <1>3, <2>1, <2>2, <2>3 DEF AgreeInv, TicketsFiled
<1>5. CASE Writes(t) /\ tickets' = tickets
  <2> DEFINE q == t.id
             n == t.no
  <2>1. n \in DOMAIN attempts[q] /\ q \in Ids /\ n \in Nat
    BY <1>5 DEF Writes, TypeInv, TaskInv, Tasks, Nos
  <2>2. PICK rec \in Attempt :
          /\ rec.state = attempts[q][n].state \/ rec.state \in Blocked \cup Settled
          /\ Mutate(q, n, rec)
    BY <1>5 DEF Writes, TornMutate, Record
  <2>3. \A p \in Ids : DOMAIN attempts'[p] = DOMAIN attempts[p]
    BY <2>1, <2>2, WriteAttemptType DEF TypeInv, Mutate
  <2>5. TicketsFiled'
    BY <1>5, <2>3 DEF AgreeInv, TicketsFiled, TypeInv, TypeOK
  <2>6. LatestDoesNotWait'
    <3>1. attempts[q] \in Seq(Attempt) /\ attempts[q] # <<>> /\ Len(attempts[q]) \in DOMAIN attempts[q]
      BY <2>1 DEF TypeInv, TypeOK
    <3>2. latest[q] = attempts[q][Len(attempts[q])] /\ latest[q].no = Len(attempts[q])
      BY <2>1, <3>1 DEF AgreeInv, LatestIsNewest, OneAttemptPerRun
    <3>3. latest[q].no <= n => n = Len(attempts[q])
      BY <2>1, <3>1, <3>2
    <3>4. latest'[q] = latest[q] \/ (latest'[q] = rec /\ latest[q] = attempts[q][n])
      BY <2>1, <2>2, <3>2, <3>3 DEF Mutate, TypeInv, TypeOK
    <3>5. \A p \in Ids : p # q => latest'[p] = latest[p]
      BY <2>2 DEF Mutate, TypeInv, TypeOK
    <3>6. latest'[q].state = "received_submission_only" => latest[q].state = "received_submission_only"
      BY <2>2, <3>4 DEF Blocked, Settled
    <3> QED
      BY <1>2, <3>5, <3>6 DEF AgreeInv, LatestDoesNotWait
  <2> QED
    BY <1>1, <2>5, <2>6
<1>6. SaveTicket(t) => UNCHANGED <<attempts, latest>>
  BY DEF SaveTicket
<1> QED
  BY <1>3, <1>4, <1>5, <1>6, EvaluateWrites

\* A step counts its death, and only a death takes the process down.
LEMMA DeathsCounted ==
  ASSUME TypeInv, Next, ~Die
  PROVE  crashes' = crashes /\ (up => up')
<1>1. ASSUME NEW q \in Ids, Request(q) PROVE crashes' = crashes /\ up' = up
  BY <1>1 DEF Request, IngestGolden, IngestSubmission, IngestGenerationFailure, IngestQuestionReceived,
     GetEvaluationStatus, CreateAttempt, TornMutate, Alive, memory
<1>2. ASSUME NEW t \in Tasks, Evaluate(t) \/ LlmRaises(t) PROVE crashes' = crashes /\ up' = up
  BY <1>2 DEF Evaluate, LlmRaises, StartEvaluation, GrammarExplained, TuGraphAnswers, ReviewAnswers,
     BlockAttempt, SaveEvaluation, SaveTicket, LinkTicket, MarkSettled, AssessImprovement, DoneCallback,
     Save, TornMutate, Alive
<1>3. ~Crash
  BY DEF Crash
<1>4. CASE Startup
  BY <1>4 DEF Startup
<1> QED
  BY <1>1, <1>2, <1>3, <1>4 DEF Next

LEMMA AgreeStep ==
  ASSUME TypeInv, VInv, OneAttemptPerRun, crashes = 0 => AgreeInv, [Next]_vars, crashes' = 0
  PROVE  AgreeInv'
<1>0. ~Die
  BY DEF Die, TypeInv, TypeOK
<1>1. CASE UNCHANGED vars
  <2>1. AgreeInv /\ UNCHANGED <<up, golden, attempts, latest, tickets, task>>
    BY <1>1 DEF vars
  <2> QED
    BY <2>1, RestAgrees, SameLatest DEF AgreeInv
<1>2. CASE Next
  <2>1. AgreeInv /\ up'
    BY <1>0, <1>2, DeathsCounted DEF AgreeInv
  <2>2. ASSUME NEW q \in Ids, Request(q) PROVE AgreeInv'
    <3>1. LatestIsNewest'
      BY <1>0, <2>1, <2>2, RequestKeepsLatest DEF AgreeInv
    <3> QED
      BY <1>0, <2>1, <2>2, <3>1, RequestAgrees DEF AgreeInv
  <2>3. ASSUME NEW t \in Tasks, Evaluate(t) \/ LlmRaises(t) PROVE AgreeInv'
    <3>1. LatestIsNewest'
      BY <1>0, <2>1, <2>3, EvaluateKeepsLatest DEF AgreeInv
    <3> QED
      BY <1>0, <2>1, <2>3, <3>1, EvaluateAgrees DEF AgreeInv
  <2>4. ~Crash /\ ~Startup
    BY <1>0, <2>1 DEF Crash, Startup, AgreeInv
  <2> QED
    BY <1>2, <2>2, <2>3, <2>4 DEF Next
<1> QED
  BY <1>1, <1>2

LEMMA AgreesAlive == Spec => [](crashes = 0 => AgreeInv)
<1>1. Init => AgreeInv
  BY DEF Init, AgreeInv, JustifiedInv, TicketsFiled, LatestDoesNotWait, LatestIsNewest, NoRecord, NewAttempt
<1>2. TypeInv /\ VInv /\ OneAttemptPerRun /\ (crashes = 0 => AgreeInv) /\ [Next]_vars
        => (crashes = 0 => AgreeInv)'
  BY AgreeStep
<1>3. Init => (crashes = 0 => AgreeInv)
  BY <1>1
<1> QED
  BY <1>2, <1>3, VerdictInductive, AlwaysOneAttemptPerRun, PTL DEF Spec

\* As long as the process has not died, a ticket and an attempt that does not
\* end in failure never meet, an evaluation that was stopped has no verdict,
\* and the newest attempt does not wait for a golden that is there.
THEOREM AttemptsAgreeAlive == Spec => [](crashes = 0 => AttemptsAgree)
<1>1. ASSUME TypeInv, VInv, AgreeInv PROVE AttemptsAgree
  <2>0. ASSUME NEW q \in Ids, NEW n \in DOMAIN attempts[q]
        PROVE  \E s \in Slots : TaskOf(q, n, s) \in Tasks
                 /\ Justified(attempts[q][n], task[TaskOf(q, n, s)], Filed(q, n, tickets))
    <3>1. PICK t \in Tasks : t.id = q /\ t.no = n /\ Justified(attempts[q][n], task[t], Filed(q, n, tickets))
      BY <1>1 DEF AgreeInv, JustifiedInv
    <3>2. t = TaskOf(q, n, t.slot) /\ t.slot \in Slots
      BY <3>1 DEF Tasks, TaskOf
    <3> QED
      BY <3>1, <3>2
  <2>1. ASSUME NEW k \in tickets
        PROVE  \/ attempts[k.id][k.no].state = "issue_ticket_created"
               \/ \E s \in Slots : task[TaskOf(k.id, k.no, s)].pc \in Saving
    <3>1. k.id \in Ids /\ k.no \in DOMAIN attempts[k.id]
      BY <1>1 DEF AgreeInv, TicketsFiled, TypeInv, TypeOK
    <3>2. Filed(k.id, k.no, tickets)
      BY DEF Filed
    <3> QED
      BY <2>0, <3>1, <3>2 DEF Justified, Saving
  <2>2. ASSUME NEW q \in Ids, NEW n \in DOMAIN attempts[q], attempts[q][n].state \in Blocked,
               \A s \in Slots : task[TaskOf(q, n, s)].pc \notin Saving
        PROVE  attempts[q][n].evaluation = "none" /\ ~attempts[q][n].ticket
    BY <2>0, <2>2 DEF Justified, Saving, Blocked, Settled
  <2> QED
    BY <1>1, <2>1, <2>2 DEF AgreeInv, AttemptsAgree, TicketMeansFailure, BlockedHasNoVerdict
<1> QED
  BY <1>1, AgreesAlive, VerdictInductive, PTL

\* As long as the process has not died, the console's listing and its detail
\* tell the same of a sample, apart from the evaluations that are named in
\* ViewsAgree.
THEOREM ViewsAgreeAlive == Spec => [](crashes = 0 => ViewsAgree)
<1>1. ASSUME TypeInv, VInv, OneAttemptPerRun, AgreeInv PROVE ViewsAgree
  <2> SUFFICES ASSUME NEW q \in Ids, latest[q].state \notin Blocked,
                      ~(DetailRecord(q).ticket /\ DetailRecord(q).state \notin Settled),
                      NEW report \in ReportsFor(q, latest[q])
               PROVE  ListVerdict(latest[q], report) = DetailVerdict(q, DetailRecord(q), report)
    BY DEF ViewsAgree
  <2> DEFINE a == latest[q]
  <2>1. DetailRecord(q) = a
    <3>1. CASE attempts[q] = <<>>
      BY <1>1, <3>1 DEF DetailRecord, AgreeInv, LatestIsNewest, NoRecord, NewAttempt
    <3>2. CASE attempts[q] # <<>>
      <4>1. Len(attempts[q]) \in DOMAIN attempts[q]
        BY <1>1, <3>2 DEF TypeInv, TypeOK
      <4> QED
        BY <1>1, <3>2, <4>1 DEF DetailRecord, AgreeInv, LatestIsNewest, OneAttemptPerRun
    <3> QED
      BY <3>1, <3>2
  <2>2. a.state = "passed" => ~a.ticket
    <3>1. CASE attempts[q] = <<>>
      BY <1>1, <3>1 DEF AgreeInv, LatestIsNewest, NoRecord, NewAttempt
    <3>2. CASE attempts[q] # <<>>
      <4>1. Len(attempts[q]) \in DOMAIN attempts[q] /\ a = attempts[q][Len(attempts[q])]
        BY <1>1, <3>2 DEF TypeInv, TypeOK, AgreeInv, LatestIsNewest
      <4>2. PICK t \in Tasks : t.id = q /\ t.no = Len(attempts[q]) /\ Justified(a, task[t], Filed(q, Len(attempts[q]), tickets))
        BY <1>1, <4>1 DEF AgreeInv, JustifiedInv
      <4>3. task[t].pc = "mark" => a.state \notin Settled
        BY <1>1, <4>1, <4>2 DEF VInv, TasksSupported, Supported, Working, Saving
      <4> QED
        BY <4>2, <4>3 DEF Justified, Settled
    <3> QED
      BY <3>1, <3>2
  <2>3. a.state \in Settled => ListVerdict(a, report) = DetailVerdict(q, a, report)
    <3>1. CASE a.state = "passed"
      BY <2>2, <3>1 DEF ListVerdict, DetailVerdict, EvaluationStage, HasTicket, Blocked
    <3>2. CASE a.state = "issue_ticket_created"
      BY <3>2 DEF ListVerdict, DetailVerdict, EvaluationStage, HasTicket, Blocked
    <3> QED
      BY <3>1, <3>2 DEF Settled
  <2>4. CASE a.state \notin Settled
    <3>1. ~a.ticket /\ a.state \notin Blocked
      BY <2>1, <2>4
    <3>2. EvaluationStage(q, a) = "pending"
      BY <2>4, <3>1 DEF EvaluationStage, HasTicket, Settled
    <3>3. GenerationStage(a, report) \in Refusals <=> report \in Refusals
      BY DEF GenerationStage, Refusals, Statuses, ReportOnly
    <3>4. report \in Refusals => GenerationStage(a, report) = report
      BY DEF GenerationStage
    <3> QED
      BY <2>1, <2>4, <3>1, <3>2, <3>3, <3>4 DEF ListVerdict, DetailVerdict, Settled
  <2> QED
    BY <2>1, <2>3, <2>4
<1> QED
  BY <1>1, AgreesAlive, VerdictInductive, AlwaysOneAttemptPerRun, PTL

-----------------------------------------------------------------------------
(* A ready attempt has a task, however often it is opened and whichever of  *)
(* its tasks end - also when deaths fall between the files of a mutation.   *)

\* An evaluation has a golden to compare with.
GoldenInv == GoldenFirst /\ \A t \in Tasks : task[t].pc \in Working => golden[t.id] # None

\* A task that is registered is alive or waits for its callback.
Registered ==
  \A q \in Ids, n \in Nos : background[q][n] # 0 => task[TaskOf(q, n, background[q][n])].pc # "idle"

\* The task k will still evaluate its attempt, or is about to write its verdict.
Attends(k) == k.pc \notin {"idle", "done", "improve"}

Attended ==
  up /\ faults = 0 =>
    \A q \in Ids : \A n \in DOMAIN attempts[q] :
      attempts[q][n].state = "ready_to_evaluate" =>
        \E t \in Tasks : t.id = q /\ t.no = n /\ Attends(task[t])

ScheduledInv == GoldenInv /\ Registered /\ Attended

LEMMA WorkingPcs ==
  ASSUME NEW pc
  PROVE  pc \in {"idle", "queued", "done"} => pc \notin Working
BY DEF Working, Awaiting, Saving

\* Scheduling an attempt leaves every task that is not idle alone, keeps the
\* registry, and the attempt has a task afterwards.
LEMMA ScheduleAttends ==
  ASSUME TypeInv, Registered, LoopFree, NEW q \in Ids, NEW n \in Nos, Schedule(q, n)
  PROVE  /\ \A t \in Tasks : task[t].pc # "idle" => task'[t] = task[t]
         /\ \A t \in Tasks : task'[t] = task[t] \/ task'[t].pc = "queued"
         /\ Registered'
         /\ \E t \in Tasks : t.id = q /\ t.no = n /\ Attends(task'[t])
<1>1. CASE Running(q, n)
  <2>1. UNCHANGED <<task, background>>
    BY <1>1 DEF Schedule
  <2> DEFINE t == TaskOf(q, n, background[q][n])
  <2>2. background[q][n] \in 0..MaxSlots /\ background[q][n] # 0
    BY <1>1 DEF Running, TypeInv, TypeOK
  <2>3. background[q][n] \in Slots
    BY <2>2, TestingAssumption DEF Slots
  <2>4. t \in Tasks /\ t.id = q /\ t.no = n
    BY <2>3 DEF TaskOf, Tasks
  <2>5. task[t].pc # "idle" /\ task[t].pc # "done"
    BY <1>1, <2>2 DEF Running, Registered
  <2>6. task[t].pc # "improve"
    BY <2>4 DEF LoopFree, Saving
  <2>7. Attends(task'[t])
    BY <2>1, <2>5, <2>6 DEF Attends
  <2> QED
    BY <2>1, <2>4, <2>7 DEF Registered
<1>2. CASE ~Running(q, n)
  <2> PICK s \in Slots :
        /\ task[TaskOf(q, n, s)].pc = "idle"
        /\ task' = [task EXCEPT ![TaskOf(q, n, s)] = [IdleTask EXCEPT !.pc = "queued"]]
        /\ background' = [background EXCEPT ![q][n] = s]
    BY <1>2 DEF Schedule
  <2> DEFINE t == TaskOf(q, n, s)
  <2>1. t \in Tasks /\ t.id = q /\ t.no = n
    BY DEF TaskOf, Tasks
  <2>2. task'[t].pc = "queued" /\ \A u \in Tasks \ {t} : task'[u] = task[u]
    BY <2>1 DEF TypeInv, TypeOK, IdleTask
  <2>3. /\ background'[q][n] = s
        /\ \A p \in Ids, m \in Nos : (p # q \/ m # n) => background'[p][m] = background[p][m]
    BY DEF TypeInv, TypeOK
  <2>4. Attends(task'[t])
    BY <2>2 DEF Attends
  <2>5. ASSUME NEW p \in Ids, NEW m \in Nos, background'[p][m] # 0
        PROVE  task'[TaskOf(p, m, background'[p][m])].pc # "idle"
    <3>1. CASE p = q /\ m = n
      BY <2>2, <2>3, <3>1
    <3>2. CASE p # q \/ m # n
      <4>1. background[p][m] \in 0..MaxSlots /\ background[p][m] # 0 /\ background'[p][m] = background[p][m]
        BY <2>3, <2>5, <3>2 DEF TypeInv, TypeOK
      <4>2. background[p][m] \in Slots
        BY <4>1, TestingAssumption DEF Slots
      <4>3. TaskOf(p, m, background[p][m]) \in Tasks /\ TaskOf(p, m, background[p][m]) # t
        BY <3>2, <4>2 DEF TaskOf, Tasks
      <4> QED
        BY <2>2, <4>1, <4>3 DEF Registered
    <3> QED
      BY <3>1, <3>2
  <2>6. Registered'
    BY <2>5 DEF Registered, TaskOf
  <2> QED
    BY <2>1, <2>2, <2>4, <2>6
<1> QED
  BY <1>1, <1>2

\* The process dies: there are no tasks, and nothing is promised.
LEMMA DieSch ==
  ASSUME TypeInv, Die
  PROVE  /\ \A t \in Tasks : task'[t].pc \notin Working
         /\ Registered' /\ Attended'
<1>1. \A t \in Tasks : task'[t].pc = "idle"
  BY DieIdle
<1>2. Registered'
  BY DEF Die, NoBackground, Registered
<1>3. Attended'
  BY DEF Die, Attended
<1> QED
  BY <1>1, <1>2, <1>3, WorkingPcs

LEMMA SchCreate ==
  ASSUME TypeInv, OneAttemptPerRun, ScheduledInv, LoopFree, NEW q \in Ids, NEW r, NEW kind, NEW content,
         CreateAttempt(q, r, kind, content), UNCHANGED <<golden, faults>>
  PROVE  ScheduledInv'
<1> DEFINE n == Len(attempts[q]) + 1
           rec == NewAttempt(n, r, kind, content,
               IF golden[q] = None THEN "received_submission_only" ELSE "ready_to_evaluate")
<1>1. CASE UNCHANGED attempts /\ Die
  BY <1>1, DieSch DEF ScheduledInv, GoldenInv, GoldenFirst, Working
<1>2. CASE /\ attempts' = [attempts EXCEPT ![q] = Append(@, rec)]
           /\ IF golden[q] = None THEN UNCHANGED <<task, background>> ELSE Schedule(q, n)
           /\ Alive
  <2>0. n \in Nos
    BY TestingAssumption DEF CreateAttempt, TypeInv, TypeOK, Nos
  <2>1. /\ attempts'[q] = Append(attempts[q], rec) /\ \A p \in Ids : p # q => attempts'[p] = attempts[p]
        /\ attempts[q] \in Seq(Attempt)
    BY <1>2 DEF TypeInv, TypeOK
  <2>2. /\ DOMAIN attempts'[q] = DOMAIN attempts[q] \cup {n}
        /\ \A i \in DOMAIN attempts[q] : attempts'[q][i] = attempts[q][i]
        /\ attempts'[q][n] = rec
    BY <2>1
  <2>3. /\ golden[q] = None => rec.state = "received_submission_only"
    BY DEF NewAttempt
  <2> HIDE DEF rec
  <2>4. GoldenFirst'
    <3> SUFFICES ASSUME NEW p \in Ids, golden[p] = None, NEW i \in DOMAIN attempts'[p]
                 PROVE  attempts'[p][i].state = "received_submission_only"
      BY DEF GoldenFirst
    <3>1. CASE p = q
      BY <2>2, <2>3, <3>1 DEF ScheduledInv, GoldenInv, GoldenFirst
    <3>2. CASE p # q
      BY <2>1, <3>2 DEF ScheduledInv, GoldenInv, GoldenFirst
    <3> QED
      BY <3>1, <3>2
  <2>5. /\ \A t \in Tasks : task[t].pc # "idle" => task'[t] = task[t]
        /\ \A t \in Tasks : task'[t] = task[t] \/ task'[t].pc = "queued"
        /\ Registered'
        /\ golden[q] # None => \E t \in Tasks : t.id = q /\ t.no = n /\ Attends(task'[t])
    <3>1. CASE golden[q] = None
      BY <1>2, <3>1 DEF ScheduledInv, Registered
    <3>2. CASE golden[q] # None
      BY <1>2, <2>0, <3>2, ScheduleAttends DEF ScheduledInv
    <3> QED
      BY <3>1, <3>2
  <2>6. \A t \in Tasks : task'[t].pc \in Working => golden'[t.id] # None
    BY <2>5, WorkingPcs DEF ScheduledInv, GoldenInv
  <2>7. ASSUME up', faults' = 0, NEW p \in Ids, NEW i \in DOMAIN attempts'[p],
               attempts'[p][i].state = "ready_to_evaluate"
        PROVE  \E t \in Tasks : t.id = p /\ t.no = i /\ Attends(task'[t])
    <3>1. CASE p = q /\ i = n
      BY <2>2, <2>3, <2>5, <2>7, <3>1
    <3>2. CASE p # q \/ i # n
      <4>1. i \in DOMAIN attempts[p] /\ attempts'[p][i] = attempts[p][i]
        BY <2>1, <2>2, <3>2
      <4>2. PICK t \in Tasks : t.id = p /\ t.no = i /\ Attends(task[t])
        BY <1>2, <2>7, <4>1 DEF ScheduledInv, Attended, Alive
      <4> QED
        BY <2>5, <4>2 DEF Attends
    <3> QED
      BY <3>1, <3>2
  <2>8. Attended'
    BY <2>7 DEF Attended, Attends
  <2> QED
    BY <2>4, <2>5, <2>6, <2>8 DEF ScheduledInv, GoldenInv, Working
<1> QED
  BY <1>1, <1>2 DEF CreateAttempt

\* A golden gives the attempt it opens a task.
LEMMA SchGolden ==
  ASSUME TypeInv, ScheduledInv, NEW q \in Ids, NEW g \in Goldens, IngestGolden(q, g)
  PROVE  ScheduledInv'
<1> DEFINE n == latest[q].no
           rec == [attempts[q][n] EXCEPT !.state = "ready_to_evaluate"]
<1>1. /\ golden'[q] = g /\ g # None /\ \A p \in Ids : p # q => golden'[p] = golden[p]
      /\ LoopFree /\ faults' = faults
  BY TestingAssumption DEF IngestGolden, TypeInv, TypeOK
<1>2. ASSUME \A p \in Ids : p # q => attempts'[p] = attempts[p] PROVE GoldenFirst'
  BY <1>1, <1>2 DEF ScheduledInv, GoldenInv, GoldenFirst
<1>3. \A p \in Ids : golden[p] # None => golden'[p] # None
  BY <1>1
<1>4. CASE UNCHANGED <<attempts, latest, task, background>> /\ Alive
  <2>1. GoldenFirst'
    BY <1>2, <1>4
  <2>2. \A t \in Tasks : task'[t].pc \in Working => golden'[t.id] # None
    BY <1>3, <1>4 DEF ScheduledInv, GoldenInv, Tasks
  <2>3. Registered' /\ Attended'
    BY <1>1, <1>4 DEF ScheduledInv, Registered, Attended, Attends, Alive
  <2> QED
    BY <2>1, <2>2, <2>3 DEF ScheduledInv, GoldenInv, Working
<1>5. CASE Opens(q)
  <2>1. n \in DOMAIN attempts[q] /\ n \in Nos /\ rec \in Attempt
    <3>1. attempts[q] \in Seq(Attempt) /\ latest[q] \in Attempt
      BY DEF TypeInv, TypeOK
    <3>2. n \in 0..MaxAttempts /\ n # 0 /\ n <= Len(attempts[q])
      BY <1>5, <3>1 DEF Opens, Attempt
    <3>3. n \in DOMAIN attempts[q] /\ n \in Nos /\ attempts[q][n] \in Attempt
      BY <3>1, <3>2, TestingAssumption DEF Nos
    <3> QED
      BY <3>3 DEF Attempt, States
  <2> HIDE DEF rec
  <2>2. CASE WriteAttempt(q, n, rec)
    <3>1. /\ \A p \in Ids : DOMAIN attempts'[p] = DOMAIN attempts[p]
          /\ \A p \in Ids : \A i \in DOMAIN attempts[p] :
               (p # q \/ i # n) => attempts'[p][i] = attempts[p][i]
      BY <2>1, <2>2, WrittenElements DEF TypeInv
    <3>2. GoldenFirst'
      <4>1. \A p \in Ids : p # q => attempts'[p] = attempts[p]
        BY <2>2 DEF WriteAttempt, TypeInv, TypeOK
      <4> QED
        BY <1>2, <4>1
    <3>3. CASE Die
      BY <3>2, <3>3, DieSch DEF ScheduledInv, GoldenInv, Working
    <3>4. CASE Schedule(q, n) /\ Alive
      <4>1. /\ \A t \in Tasks : task[t].pc # "idle" => task'[t] = task[t]
            /\ \A t \in Tasks : task'[t] = task[t] \/ task'[t].pc = "queued"
            /\ Registered'
            /\ \E t \in Tasks : t.id = q /\ t.no = n /\ Attends(task'[t])
        BY <1>1, <2>1, <3>4, ScheduleAttends DEF ScheduledInv
      <4>2. \A t \in Tasks : task'[t].pc \in Working => golden'[t.id] # None
        BY <1>3, <4>1, WorkingPcs DEF ScheduledInv, GoldenInv, Tasks
      <4>3. ASSUME up', faults' = 0, NEW p \in Ids, NEW i \in DOMAIN attempts'[p],
                   attempts'[p][i].state = "ready_to_evaluate"
            PROVE  \E t \in Tasks : t.id = p /\ t.no = i /\ Attends(task'[t])
        <5>1. CASE p = q /\ i = n
          BY <4>1, <5>1
        <5>2. CASE p # q \/ i # n
          <6>1. i \in DOMAIN attempts[p] /\ attempts'[p][i] = attempts[p][i]
            BY <3>1, <5>2
          <6>2. PICK t \in Tasks : t.id = p /\ t.no = i /\ Attends(task[t])
            BY <1>1, <3>4, <4>3, <6>1 DEF ScheduledInv, Attended, Alive
          <6> QED
            BY <4>1, <6>2 DEF Attends
        <5> QED
          BY <5>1, <5>2
      <4>4. Attended'
        BY <4>3 DEF Attended, Attends
      <4> QED
        BY <3>2, <4>1, <4>2, <4>4 DEF ScheduledInv, GoldenInv, Working
    <3> QED
      BY <1>5, <2>2, <3>3, <3>4 DEF IngestGolden, TornMutate, rec
  <2>3. CASE UNCHANGED attempts /\ Die
    BY <1>2, <2>3, DieSch DEF ScheduledInv, GoldenInv, Working
  <2> QED
    BY <1>5, <2>2, <2>3 DEF IngestGolden, Mutate, TornMutate, rec
<1> QED
  BY <1>4, <1>5 DEF IngestGolden

\* Nothing but the schedule changes.
LEMMA SchSame ==
  ASSUME TypeInv, ScheduledInv, UNCHANGED <<golden, attempts, faults, up>>,
         UNCHANGED <<task, background>> \/ (LoopFree /\ \E q \in Ids, n \in Nos : Schedule(q, n))
  PROVE  ScheduledInv'
<1>1. /\ \A t \in Tasks : task[t].pc # "idle" => task'[t] = task[t]
      /\ \A t \in Tasks : task'[t] = task[t] \/ task'[t].pc = "queued"
      /\ Registered'
  BY ScheduleAttends DEF ScheduledInv, Registered
<1>2. \A t \in Tasks : task'[t].pc \in Working => golden'[t.id] # None
  BY <1>1, WorkingPcs DEF ScheduledInv, GoldenInv
<1>3. ASSUME up', faults' = 0, NEW p \in Ids, NEW i \in DOMAIN attempts'[p],
             attempts'[p][i].state = "ready_to_evaluate"
      PROVE  \E t \in Tasks : t.id = p /\ t.no = i /\ Attends(task'[t])
  <2>1. PICK t \in Tasks : t.id = p /\ t.no = i /\ Attends(task[t])
    BY <1>3 DEF ScheduledInv, Attended
  <2> QED
    BY <1>1, <2>1 DEF Attends
<1>4. Attended'
  BY <1>3 DEF Attended, Attends
<1>5. GoldenFirst'
  BY DEF ScheduledInv, GoldenInv, GoldenFirst
<1> QED
  BY <1>1, <1>2, <1>4, <1>5 DEF ScheduledInv, GoldenInv, Working

LEMMA SchRequest ==
  ASSUME TypeInv, OneAttemptPerRun, ScheduledInv, NEW q \in Ids, Request(q)
  PROVE  ScheduledInv'
<1>1. ASSUME NEW g \in Goldens, IngestGolden(q, g) PROVE ScheduledInv'
  BY <1>1, SchGolden
<1>2. ASSUME NEW r \in Runs, NEW c \in Contents, IngestSubmission(q, r, c) PROVE ScheduledInv'
  BY <1>2, SchCreate DEF IngestSubmission
<1>3. ASSUME NEW r \in Runs, NEW st \in Reported, IngestGenerationFailure(q, r, st) PROVE ScheduledInv'
  <2>1. LoopFree /\ UNCHANGED <<golden, faults>>
    BY <1>3 DEF IngestGenerationFailure
  <2>2. CASE CreateAttempt(q, r, "generation_failed", None)
    BY <2>1, <2>2, SchCreate
  <2>3. CASE UNCHANGED attempts /\ Die
    BY <2>1, <2>3, DieSch DEF ScheduledInv, GoldenInv, GoldenFirst, Working
  <2>4. CASE UNCHANGED <<attempts, latest, task, background>> /\ Alive
    BY <2>1, <2>4, SchSame DEF Alive
  <2> QED
    BY <1>3, <2>2, <2>3, <2>4 DEF IngestGenerationFailure
<1>4. ASSUME NEW r \in Announced, IngestQuestionReceived(q, r) PROVE ScheduledInv'
  BY <1>4, SchSame DEF IngestQuestionReceived, memory
<1>5. ASSUME GetEvaluationStatus(q) PROVE ScheduledInv'
  <2>1. latest[q].no \in Nos
    BY <1>5, TestingAssumption DEF GetEvaluationStatus, TypeInv, TypeOK, Attempt, Nos
  <2> QED
    BY <1>5, <2>1, SchSame DEF GetEvaluationStatus, disk
<1> QED
  BY <1>1, <1>2, <1>3, <1>4, <1>5 DEF Request

\* What a step of an evaluation does to its own task when the process lives:
\* it goes on, unless the LLM raised, its attempt needs no evaluation, or it
\* has just written the state.
LEMMA MoveSch ==
  ASSUME TypeInv, GoldenInv, NEW t \in Tasks, Evaluate(t) \/ LlmRaises(t), ~Die
  PROVE  \E k : /\ task' = [task EXCEPT ![t] = k]
                /\ k.pc \in Working => golden[t.id] # None
                /\ \/ DoneCallback(t)
                   \/ k.pc # "idle" /\ background' = background
                /\ \/ Attends(k)
                   \/ faults' # 0
                   \/ ~Attends(task[t])
                   \/ t.no \notin DOMAIN attempts[t.id]
                   \/ attempts[t.id][t.no].state # "ready_to_evaluate"
                   \/ BlockAttempt(t) \/ MarkSettled(t)
<1> DEFINE Post(k) == /\ task' = [task EXCEPT ![t] = k]
                      /\ k.pc \in Working => golden[t.id] # None
                      /\ \/ DoneCallback(t)
                         \/ k.pc # "idle" /\ background' = background
                      /\ \/ Attends(k)
                         \/ faults' # 0
                         \/ ~Attends(task[t])
                         \/ t.no \notin DOMAIN attempts[t.id]
                         \/ attempts[t.id][t.no].state # "ready_to_evaluate"
                         \/ BlockAttempt(t) \/ MarkSettled(t)
<1>1. CASE StartEvaluation(t)
  <2>0. background' = background
    BY <1>1 DEF StartEvaluation
  <2>1. CASE t.no > Len(attempts[t.id]) \/ golden[t.id] = None \/ Finished(Record(t))
    <3>1. task' = [task EXCEPT ![t] = [pc |-> "done", outcome |-> "none"]]
      BY <1>1, <2>1 DEF StartEvaluation, To
    <3>2. t.no \notin DOMAIN attempts[t.id] \/ attempts[t.id][t.no].state # "ready_to_evaluate"
      <4>1. t.no > Len(attempts[t.id]) => t.no \notin DOMAIN attempts[t.id]
        BY DEF Tasks, Nos, TypeInv, TypeOK
      <4>2. golden[t.id] = None /\ t.no \in DOMAIN attempts[t.id] => attempts[t.id][t.no].state # "ready_to_evaluate"
        BY DEF GoldenInv, GoldenFirst, Tasks
      <4>3. Finished(Record(t)) => attempts[t.id][t.no].state # "ready_to_evaluate"
        BY DEF Finished, Record, Settled, Blocked
      <4> QED
        BY <2>1, <4>1, <4>2, <4>3
    <3>3. Post([pc |-> "done", outcome |-> "none"])
      BY <2>0, <3>1, <3>2, WorkingPcs
    <3> QED
      BY <3>3
  <2>2. CASE ~(t.no > Len(attempts[t.id]) \/ golden[t.id] = None \/ Finished(Record(t)))
    <3>1. PICK pc \in {"save_evaluation", "executing", "explaining"}, o \in {"none", "grammar_failed"} : To(t, pc, o)
      BY <1>1, <2>2 DEF StartEvaluation
    <3>2. Post([pc |-> pc, outcome |-> o])
      BY <2>0, <2>2, <3>1 DEF To, Attends
    <3> QED
      BY <3>2
  <2> QED
    BY <2>1, <2>2
<1>2. CASE task[t].pc \in Working
  <2>0. golden[t.id] # None
    BY <1>2 DEF GoldenInv
  <2>1. CASE \E pc \in Pcs \ {"idle", "queued", "done", "improve"} : \E o : To(t, pc, o) /\ background' = background
    <3> PICK pc \in Pcs \ {"idle", "queued", "done", "improve"} : \E o : To(t, pc, o) /\ background' = background
      BY <2>1
    <3> PICK o : To(t, pc, o) /\ background' = background
      OBVIOUS
    <3>1. Post([pc |-> pc, outcome |-> o])
      BY <2>0 DEF To, Attends
    <3> QED
      BY <3>1
  <2>2. CASE /\ \E pc \in {"done", "improve"} : \E o : To(t, pc, o) /\ background' = background
             /\ faults' # 0 \/ task[t].pc = "improve" \/ BlockAttempt(t) \/ MarkSettled(t)
    <3> PICK pc \in {"done", "improve"} : \E o : To(t, pc, o) /\ background' = background
      BY <2>2
    <3> PICK o : To(t, pc, o) /\ background' = background
      OBVIOUS
    <3>1. Post([pc |-> pc, outcome |-> o])
      BY <2>0, <2>2 DEF To, Attends
    <3> QED
      BY <3>1
  <2>3. CASE LlmRaises(t)
    <3>1. faults' # 0
      BY <2>3 DEF LlmRaises, TypeInv, TypeOK
    <3> QED
      BY <2>2, <2>3, <3>1 DEF LlmRaises
  <2>4. CASE GrammarExplained(t) \/ TuGraphAnswers(t) \/ ReviewAnswers(t) \/ SaveEvaluation(t) \/ SaveTicket(t) \/ LinkTicket(t)
    <3>1. {"save_evaluation", "reviewing", "block", "mark", "save_ticket", "link_ticket"}
             \subseteq Pcs \ {"idle", "queued", "done", "improve"}
      BY DEF Pcs, Awaiting, Saving
    <3> HIDE DEF Post
    <3>2. CASE GrammarExplained(t) \/ SaveTicket(t)
      BY <2>1, <3>1, <3>2 DEF GrammarExplained, SaveTicket
    <3>3. CASE TuGraphAnswers(t)
      BY <2>1, <3>1, <3>3 DEF TuGraphAnswers, Save, TornMutate
    <3>4. CASE ReviewAnswers(t)
      BY <2>1, <3>1, <3>4 DEF ReviewAnswers, Save, TornMutate
    <3>5. CASE SaveEvaluation(t) \/ LinkTicket(t)
      BY <2>1, <3>1, <3>5 DEF SaveEvaluation, LinkTicket, Save, TornMutate
    <3> QED
      BY <2>4, <3>2, <3>3, <3>4, <3>5
  <2>5. CASE BlockAttempt(t) \/ MarkSettled(t)
    BY <2>2, <2>5 DEF BlockAttempt, MarkSettled, Save, TornMutate
  <2>6. CASE AssessImprovement(t)
    BY <2>2, <2>6 DEF AssessImprovement, Save, TornMutate
  <2>7. ~StartEvaluation(t) /\ ~DoneCallback(t)
    BY <1>2, WorkingPcs DEF StartEvaluation, DoneCallback
  <2> QED
    BY <2>3, <2>4, <2>5, <2>6, <2>7 DEF Evaluate
<1>3. CASE DoneCallback(t)
  <2>1. Post(IdleTask)
    BY <1>3, WorkingPcs DEF DoneCallback, IdleTask, Attends
  <2> QED
    BY <2>1
<1>4. StartEvaluation(t) \/ DoneCallback(t) \/ task[t].pc \in Working
  BY DEF Evaluate, LlmRaises, GrammarExplained, TuGraphAnswers, ReviewAnswers, BlockAttempt, SaveEvaluation,
     SaveTicket, LinkTicket, MarkSettled, AssessImprovement, Working, Awaiting, Saving
<1> QED
  BY <1>1, <1>2, <1>3, <1>4

\* The state that ends an evaluation is written: the attempt is not ready.
LEMMA StateWritten ==
  ASSUME TypeInv, NEW t \in Tasks, BlockAttempt(t) \/ MarkSettled(t)
  PROVE  attempts'[t.id][t.no].state # "ready_to_evaluate"
<1>1. task[t].pc \in Working /\ t.no \in DOMAIN attempts[t.id] /\ t.id \in Ids /\ Fits(task[t])
  BY DEF BlockAttempt, MarkSettled, Working, Saving, TypeInv, TaskInv, Tasks
<1>2. Record(t) \in Attempt
  BY <1>1, RecordType DEF TypeInv
<1>3. \A state \in Blocked \cup Settled :
        LET rec == [Record(t) EXCEPT !.state = state]
        IN  rec \in Attempt /\ rec.state # "ready_to_evaluate"
  BY <1>2 DEF Attempt, States, Blocked, Settled
<1>4. \E state \in Blocked \cup Settled : \E pc, o : Save(t, [Record(t) EXCEPT !.state = state], pc, o)
  BY <1>1 DEF BlockAttempt, MarkSettled, Fits, Settled
<1>5. PICK rec \in Attempt : rec.state # "ready_to_evaluate" /\ WriteAttempt(t.id, t.no, rec)
  BY <1>3, <1>4 DEF Save, Mutate, TornMutate
<1> QED
  BY <1>1, <1>5, WrittenElements DEF TypeInv

LEMMA SchEvaluate ==
  ASSUME TypeInv, ScheduledInv, NEW t \in Tasks, Evaluate(t) \/ LlmRaises(t)
  PROVE  ScheduledInv'
<1>1. golden' = golden
  BY DEF Evaluate, LlmRaises, StartEvaluation, GrammarExplained, TuGraphAnswers, ReviewAnswers,
     BlockAttempt, SaveEvaluation, SaveTicket, LinkTicket, MarkSettled, AssessImprovement, DoneCallback, disk
<1>2. /\ \A p \in Ids : DOMAIN attempts'[p] = DOMAIN attempts[p]
      /\ \A p \in Ids : \A i \in DOMAIN attempts[p] :
           (p # t.id \/ i # t.no) => attempts'[p][i] = attempts[p][i]
      /\ \A p \in Ids : \A i \in DOMAIN attempts[p] :
           attempts'[p][i].state = "ready_to_evaluate" => attempts[p][i].state = "ready_to_evaluate"
      /\ attempts' = attempts \/ golden[t.id] # None
  <2>1. CASE UNCHANGED <<attempts, latest>>
    BY <2>1
  <2>2. CASE Writes(t)
    <3>1. t.no \in DOMAIN attempts[t.id] /\ t.id \in Ids /\ golden[t.id] # None
      BY <2>2 DEF Writes, TypeInv, TaskInv, Tasks, ScheduledInv, GoldenInv
    <3>2. PICK rec \in Attempt :
            /\ rec.state = attempts[t.id][t.no].state \/ rec.state \in Blocked \cup Settled
            /\ WriteAttempt(t.id, t.no, rec)
      BY <2>2 DEF Writes, Mutate, TornMutate, Record
    <3>3. /\ attempts'[t.id][t.no] = rec
          /\ \A p \in Ids : DOMAIN attempts'[p] = DOMAIN attempts[p]
          /\ \A p \in Ids : \A i \in DOMAIN attempts[p] :
               (p # t.id \/ i # t.no) => attempts'[p][i] = attempts[p][i]
      BY <3>1, <3>2, WrittenElements DEF TypeInv
    <3>4. rec.state = "ready_to_evaluate" => attempts[t.id][t.no].state = "ready_to_evaluate"
      BY <3>2 DEF Blocked, Settled
    <3> QED
      BY <3>1, <3>3, <3>4
  <2> QED
    BY <2>1, <2>2, EvaluateWrites
<1>3. GoldenFirst'
  BY <1>1, <1>2 DEF ScheduledInv, GoldenInv, GoldenFirst
<1>4. CASE Die
  BY <1>3, <1>4, DieSch DEF ScheduledInv, GoldenInv, Working
<1>5. CASE ~Die
  <2>1. up' = up /\ (faults' = 0 => faults = 0)
    <3>1. up' = up
      BY <1>5 DEF Evaluate, LlmRaises, StartEvaluation, GrammarExplained, TuGraphAnswers, ReviewAnswers,
         BlockAttempt, SaveEvaluation, SaveTicket, LinkTicket, MarkSettled, AssessImprovement, DoneCallback,
         Save, TornMutate, Alive
    <3>2. Evaluate(t) => faults' = faults
      BY DEF Evaluate, StartEvaluation, GrammarExplained, TuGraphAnswers, ReviewAnswers, BlockAttempt,
         SaveEvaluation, SaveTicket, LinkTicket, MarkSettled, AssessImprovement, DoneCallback
    <3>3. LlmRaises(t) => faults' # 0
      BY DEF LlmRaises, TypeInv, TypeOK
    <3> QED
      BY <3>1, <3>2, <3>3
  <2>2. PICK k : /\ task' = [task EXCEPT ![t] = k]
                 /\ k.pc \in Working => golden[t.id] # None
                 /\ \/ DoneCallback(t)
                    \/ k.pc # "idle" /\ background' = background
                 /\ \/ Attends(k)
                    \/ faults' # 0
                    \/ ~Attends(task[t])
                    \/ t.no \notin DOMAIN attempts[t.id]
                    \/ attempts[t.id][t.no].state # "ready_to_evaluate"
                    \/ BlockAttempt(t) \/ MarkSettled(t)
    BY <1>5, MoveSch DEF ScheduledInv
  <2>3. task'[t] = k /\ \A u \in Tasks : u # t => task'[u] = task[u]
    BY <2>2 DEF TypeInv, TypeOK
  <2>4. \A u \in Tasks : task'[u].pc \in Working => golden'[u.id] # None
    BY <1>1, <2>2, <2>3 DEF ScheduledInv, GoldenInv
  <2>5. Registered'
    <3> SUFFICES ASSUME NEW q \in Ids, NEW n \in Nos, background'[q][n] # 0
                 PROVE  task'[TaskOf(q, n, background'[q][n])].pc # "idle"
      BY DEF Registered, TaskOf
    <3>1. CASE background' = background /\ k.pc # "idle"
      <4>1. background[q][n] \in 0..MaxSlots /\ background[q][n] # 0
        BY <3>1 DEF TypeInv, TypeOK
      <4>2. background[q][n] \in Slots
        BY <4>1, TestingAssumption DEF Slots
      <4>3. TaskOf(q, n, background[q][n]) \in Tasks
        BY <4>2 DEF TaskOf, Tasks
      <4> QED
        BY <2>3, <3>1, <4>1, <4>3 DEF ScheduledInv, Registered
    <3>2. CASE DoneCallback(t)
      <4>0. t.id \in Ids /\ t.no \in Nos
        BY DEF Tasks
      <4>1. (q # t.id \/ n # t.no) /\ background'[q][n] = background[q][n]
        BY <3>2, <4>0 DEF DoneCallback, TypeInv, TypeOK
      <4>2. background[q][n] \in 0..MaxSlots /\ background[q][n] # 0
        BY <4>1 DEF TypeInv, TypeOK
      <4>3. background[q][n] \in Slots
        BY <4>2, TestingAssumption DEF Slots
      <4>4. TaskOf(q, n, background[q][n]) \in Tasks /\ TaskOf(q, n, background[q][n]) # t
        BY <4>1, <4>3 DEF TaskOf, Tasks
      <4> QED
        BY <2>3, <4>1, <4>2, <4>4 DEF ScheduledInv, Registered
    <3> QED
      BY <2>2, <3>1, <3>2
  <2>6. ASSUME up', faults' = 0, NEW p \in Ids, NEW i \in DOMAIN attempts'[p],
               attempts'[p][i].state = "ready_to_evaluate"
        PROVE  \E u \in Tasks : u.id = p /\ u.no = i /\ Attends(task'[u])
    <3>1. i \in DOMAIN attempts[p] /\ attempts[p][i].state = "ready_to_evaluate"
      BY <1>2, <2>6
    <3>2. PICK u \in Tasks : u.id = p /\ u.no = i /\ Attends(task[u])
      BY <2>1, <2>6, <3>1 DEF ScheduledInv, Attended
    <3>3. CASE u # t
      BY <2>3, <3>2, <3>3
    <3>4. CASE u = t
      <4>1. ~BlockAttempt(t) /\ ~MarkSettled(t)
        BY <2>6, <3>2, <3>4, StateWritten
      <4>2. Attends(k)
        BY <2>2, <2>6, <3>1, <3>2, <3>4, <4>1
      <4> QED
        BY <2>3, <3>2, <3>4, <4>2
    <3> QED
      BY <3>3, <3>4
  <2>7. Attended'
    BY <2>6 DEF Attended, Attends
  <2> QED
    BY <1>3, <2>4, <2>5, <2>7 DEF ScheduledInv, GoldenInv, Working
<1> QED
  BY <1>4, <1>5

\* The startup hook gives every ready attempt a task, and only those.
LEMMA SchStartup ==
  ASSUME TypeInv, OneAttemptPerRun, ScheduledInv, Startup
  PROVE  ScheduledInv'
<1>1. UNCHANGED <<golden, attempts>>
  BY DEF Startup, disk
<1>2. GoldenFirst'
  BY <1>1 DEF ScheduledInv, GoldenInv, GoldenFirst
<1>3. \A t \in Tasks : task'[t].pc \in {"idle", "queued"}
  BY DEF Startup, IdleTask
<1>4. 1 \in Slots
  BY TestingAssumption DEF Slots
<1>5. ASSUME NEW q \in Ids, NEW n \in Nos PROVE TaskOf(q, n, 1) \in Tasks
  BY <1>4 DEF TaskOf, Tasks
<1>6. ASSUME NEW q \in Ids, NEW n \in Nos, background'[q][n] # 0
      PROVE  task'[TaskOf(q, n, background'[q][n])].pc # "idle"
  <2>1. Resumed(TaskOf(q, n, 1)) /\ background'[q][n] = 1
    BY <1>6 DEF Startup
  <2>2. task'[TaskOf(q, n, 1)].pc = "queued"
    BY <1>5, <2>1 DEF Startup, IdleTask
  <2> QED
    BY <2>1, <2>2
<1>7. Registered'
  BY <1>6 DEF Registered, TaskOf
<1>8. ASSUME NEW q \in Ids, NEW n \in DOMAIN attempts[q], attempts[q][n].state = "ready_to_evaluate"
      PROVE  \E t \in Tasks : t.id = q /\ t.no = n /\ Attends(task'[t])
  <2>1. attempts[q][n] \in Attempt /\ attempts[q][n].no = n /\ n \in 1..Len(attempts[q]) /\ n \in Nat
    BY DEF TypeInv, TypeOK, OneAttemptPerRun
  <2>2. n \in Nos
    BY <2>1, TestingAssumption DEF Attempt, Nos
  <2>3. Resumed(TaskOf(q, n, 1)) /\ TaskOf(q, n, 1) \in Tasks
    BY <1>5, <1>8, <2>2 DEF Resumed, TaskOf
  <2>4. task'[TaskOf(q, n, 1)].pc = "queued"
    BY <2>3 DEF Startup, IdleTask
  <2>5. Attends(task'[TaskOf(q, n, 1)])
    BY <2>4 DEF Attends
  <2> QED
    BY <2>3, <2>5 DEF TaskOf
<1>9. Attended'
  BY <1>1, <1>8 DEF Attended, Attends
<1> QED
  BY <1>2, <1>3, <1>7, <1>9, WorkingPcs DEF ScheduledInv, GoldenInv, Working

LEMMA SchStep ==
  ASSUME TypeInv, OneAttemptPerRun, ScheduledInv, [Next]_vars
  PROVE  ScheduledInv'
<1>1. ASSUME NEW q \in Ids, Request(q) PROVE ScheduledInv'
  BY <1>1, SchRequest
<1>2. ASSUME NEW t \in Tasks, Evaluate(t) \/ LlmRaises(t) PROVE ScheduledInv'
  BY <1>2, SchEvaluate
<1>3. CASE Crash
  BY <1>3, DieSch DEF Crash, disk, ScheduledInv, GoldenInv, GoldenFirst, Working
<1>4. CASE Startup
  BY <1>4, SchStartup
<1>5. CASE UNCHANGED vars
  BY <1>5, SchSame DEF vars
<1> QED
  BY <1>1, <1>2, <1>3, <1>4, <1>5 DEF Next

\* While no LLM call has raised, a running process never forgets an attempt
\* that is ready, wherever the deaths fall and whichever task the done
\* callback takes off the registry.
THEOREM ReadyAlwaysScheduled == Spec => []ReadyIsScheduled
<1>1. Init => ScheduledInv
  <2> SUFFICES ASSUME Init PROVE ScheduledInv
    OBVIOUS
  <2>1. /\ \A q \in Ids : attempts[q] = <<>>
        /\ \A t \in Tasks : task[t].pc = "idle"
        /\ \A q \in Ids, n \in Nos : background[q][n] = 0
    BY DEF Init, NoTasks, IdleTask, NoBackground
  <2> QED
    BY <2>1, WorkingPcs DEF ScheduledInv, GoldenInv, GoldenFirst, Registered, Attended
<1>2. TypeInv /\ OneAttemptPerRun /\ ScheduledInv /\ [Next]_vars => ScheduledInv'
  BY SchStep
<1>3. ScheduledInv => ReadyIsScheduled
  <2> SUFFICES ASSUME ScheduledInv, up, faults = 0, NEW q \in Ids, NEW n \in DOMAIN attempts[q],
                      attempts[q][n].state = "ready_to_evaluate"
               PROVE  \E s \in Slots : task[TaskOf(q, n, s)].pc \notin {"idle", "done"}
    BY DEF ReadyIsScheduled
  <2>1. PICK t \in Tasks : t.id = q /\ t.no = n /\ Attends(task[t])
    BY DEF ScheduledInv, Attended
  <2>2. t.slot \in Slots /\ t = TaskOf(q, n, t.slot)
    BY <2>1 DEF Tasks, TaskOf
  <2> QED
    BY <2>1, <2>2 DEF Attends
<1> QED
  BY <1>1, <1>2, <1>3, VerdictInductive, AlwaysOneAttemptPerRun, PTL DEF Spec
=============================================================================
