------------------------ MODULE QuestionDeliveryProofs ------------------------
(***************************************************************************)
(* Facts about the delivery of a sample for any number of dispatches, runs,*)
(* tries, lost messages and deaths.                                        *)
(***************************************************************************)
EXTENDS QuestionDelivery, TLAPS

-----------------------------------------------------------------------------
(* The inductive invariant.                                                *)

\* An answered, generated or reported run has its receipt at the
\* testing-agent, and its tries are among the lost posts.
RunIsReceived(r) ==
  /\ run[r].answer = "ok" => r \in receipts
  /\ run[r].pc \in {"accepted", "submitting", "reported"} => r \in receipts
  /\ run[r].tries <= faults
  /\ run[r].pc = "lost" => deaths > 0 \/ faults >= SubmitAttempts

\* A dispatch keeps the run its question was answered for.
DispatchIsReceived(d) ==
  /\ dispatch[d].pc = "asking" => dispatch[d].run \in Runs
  /\ dispatch[d].question = "ok" =>
       dispatch[d].pc \in {"golden", "count", "done", "gone"} /\ dispatch[d].run \in receipts
  /\ dispatch[d].golden = "ok" => golden

IInv ==
  /\ TypeOK
  /\ \A r \in Runs : RunIsReceived(r)
  /\ \A d \in Dispatches : DispatchIsReceived(d)
  /\ ReportFollowsReceipt

DispatchType ==
  [pc : Stages, tries : 0..(PostAttempts - 1), run : Runs \cup {NoRun},
   question : {"none", "ok", "failed"}, golden : {"none", "ok", "failed"}]

RunType ==
  [pc : Active \cup {"unused", "refused", "reported", "lost"},
   tries : 0..(SubmitAttempts - 1), answer : {"none", "ok", "error"}]

LEMMA Bounds ==
  /\ PostAttempts \in Nat /\ PostAttempts > 0
  /\ SubmitAttempts \in Nat /\ SubmitAttempts > 0
  /\ MaxRedispatches \in Nat /\ MaxFaults \in Nat /\ MaxDeaths \in Nat
  BY DeliveryAssumption

LEMMA TriedAgainType ==
  ASSUME NEW old \in DispatchType, NEW field \in {"question", "golden"},
         NEW next \in {"golden", "count"}
  PROVE  TriedAgain(old, field, next) \in DispatchType
<1>1. old.tries \in Nat /\ old.tries < PostAttempts
  BY Bounds DEF DispatchType
<1>2. CASE old.tries + 1 < PostAttempts
  <2>1. TriedAgain(old, field, next) =
          [pc |-> field, tries |-> old.tries + 1, run |-> old.run,
           question |-> old.question, golden |-> old.golden]
    BY <1>2 DEF TriedAgain, DispatchType
  <2>2. QED
    BY <1>1, <1>2, <2>1, Bounds DEF DispatchType, Stages
<1>3. CASE ~(old.tries + 1 < PostAttempts) /\ field = "question"
  <2>1. TriedAgain(old, field, next) =
          [pc |-> next, tries |-> 0, run |-> old.run,
           question |-> "failed", golden |-> old.golden]
    BY <1>3 DEF TriedAgain, DispatchType
  <2>2. QED
    BY <2>1, Bounds DEF DispatchType, Stages
<1>4. CASE ~(old.tries + 1 < PostAttempts) /\ field = "golden"
  <2>1. TriedAgain(old, field, next) =
          [pc |-> next, tries |-> 0, run |-> old.run,
           question |-> old.question, golden |-> "failed"]
    BY <1>4 DEF TriedAgain, DispatchType
  <2>2. QED
    BY <2>1, Bounds DEF DispatchType, Stages
<1>5. QED
  BY <1>2, <1>3, <1>4

LEMMA SubmittedAgainType ==
  ASSUME NEW old \in RunType, NEW next \in {"refused", "lost"}, NEW answer \in {"ok", "error"}
  PROVE  SubmittedAgain(old, next, answer) \in RunType
<1>1. old.tries \in Nat /\ old.tries < SubmitAttempts
  BY Bounds DEF RunType
<1>2. CASE old.tries + 1 < SubmitAttempts
  BY <1>1, <1>2, Bounds DEF SubmittedAgain, RunType
<1>3. CASE ~(old.tries + 1 < SubmitAttempts)
  <2>1. SubmittedAgain(old, next, answer) = [pc |-> next, tries |-> 0, answer |-> answer]
    BY <1>3 DEF SubmittedAgain, RunType
  <2>2. QED
    BY <2>1, Bounds DEF RunType
<1>4. QED
  BY <1>2, <1>3

-----------------------------------------------------------------------------
(* What a step of the qa-agent and a step of the generator leave alone.    *)

\* The qa-agent changes one dispatch.
LEMMA DispatchStep ==
  ASSUME IInv, NEW d \in Dispatches, dispatch' \in [Dispatches -> DispatchType],
         \A e \in Dispatches : e # d => dispatch'[e] = dispatch[e],
         UNCHANGED <<receipts, reports, deaths>>,
         faults' \in 0..MaxFaults, faults' >= faults,
         golden' \in BOOLEAN, golden => golden',
         file' \in Nat,
         run' \in [Runs -> RunType],
         \A r \in Runs : run'[r] = run[r] \/ (run'[r].pc = "receiving" /\ run'[r].answer = run[r].answer
                                                /\ run'[r].tries = run[r].tries),
         DispatchIsReceived(d)'
  PROVE  IInv'
<1>2. TypeOK'
  BY DEF IInv, TypeOK, DispatchType, RunType
<1>3. ASSUME NEW r \in Runs
      PROVE  RunIsReceived(r)'
  <2>1. CASE run'[r] = run[r]
    BY <2>1, Bounds DEF IInv, TypeOK, RunIsReceived
  <2>2. CASE run'[r].pc = "receiving" /\ run'[r].answer = run[r].answer /\ run'[r].tries = run[r].tries
    BY <2>2, Bounds DEF IInv, TypeOK, RunIsReceived
  <2>3. QED
    BY <2>1, <2>2
<1>4. ASSUME NEW e \in Dispatches
      PROVE  DispatchIsReceived(e)'
  BY DEF IInv, DispatchIsReceived
<1>5. QED
  BY <1>2, <1>3, <1>4 DEF IInv, ReportFollowsReceipt

\* The generator changes one run.
LEMMA RunStep ==
  ASSUME IInv, NEW r \in Runs, run' \in [Runs -> RunType],
         \A q \in Runs : q # r => run'[q] = run[q],
         UNCHANGED <<dispatch, file, golden, deaths>>,
         faults' \in 0..MaxFaults, faults' >= faults,
         receipts' \subseteq Runs, receipts \subseteq receipts',
         reports' \subseteq reports \cup {r}, r \in reports' \ reports => r \in receipts',
         RunIsReceived(r)'
  PROVE  IInv'
<1>2. TypeOK'
  BY DEF IInv, TypeOK, DispatchType, RunType
<1>3. ASSUME NEW q \in Runs
      PROVE  RunIsReceived(q)'
  <2>1. CASE q = r
    BY <2>1 DEF RunIsReceived
  <2>2. CASE q # r
    BY <2>2, Bounds DEF IInv, TypeOK, RunIsReceived
  <2>3. QED
    BY <2>1, <2>2
<1>4. ASSUME NEW e \in Dispatches
      PROVE  DispatchIsReceived(e)'
  BY DEF IInv, DispatchIsReceived
<1>5. ReportFollowsReceipt'
  BY DEF IInv, ReportFollowsReceipt
<1>6. QED
  BY <1>2, <1>3, <1>4, <1>5 DEF IInv

-----------------------------------------------------------------------------
(* The tries of either side.                                               *)

LEMMA RetriedStep ==
  ASSUME IInv, NEW d \in Dispatches,
         NEW field \in {"question", "golden"}, NEW next \in {"golden", "count"},
         Retried(d, field, next),
         dispatch[d].pc \in {"question", "asking", "golden"},
         field = "golden" => dispatch[d].pc = "golden",
         field = "question" => dispatch[d].pc # "golden",
         UNCHANGED <<run, file, receipts, reports, deaths>>,
         faults' \in 0..MaxFaults, faults' >= faults,
         golden' \in BOOLEAN, golden => golden'
  PROVE  IInv'
<1> DEFINE rec == TriedAgain(dispatch[d], field, next)
<1>1. dispatch[d] \in DispatchType /\ dispatch \in [Dispatches -> DispatchType]
  BY DEF IInv, TypeOK, DispatchType
<1>2. rec \in DispatchType
  BY <1>1, TriedAgainType
<1>3. /\ dispatch' \in [Dispatches -> DispatchType] /\ dispatch'[d] = rec
      /\ \A e \in Dispatches : e # d => dispatch'[e] = dispatch[e]
  BY <1>1, <1>2 DEF Retried
<1>4. /\ rec.pc = "asking" => rec.run \in Runs
      /\ rec.question = "ok" => rec.pc \in {"golden", "count", "done", "gone"} /\ rec.run \in receipts
      /\ rec.golden = "ok" => golden'
  BY <1>1 DEF IInv, DispatchIsReceived, DispatchType, TriedAgain
<1>5. run' \in [Runs -> RunType] /\ file' \in Nat
  BY DEF IInv, TypeOK, RunType
<1> HIDE DEF rec
<1>6. DispatchIsReceived(d)'
  BY <1>3, <1>4 DEF DispatchIsReceived
<1>7. QED
  BY <1>3, <1>5, <1>6, DispatchStep

LEMMA UnacknowledgedStep ==
  ASSUME IInv, NEW r \in Runs, NEW next \in {"refused", "lost"}, NEW answer \in {"ok", "error"},
         Unacknowledged(r, next, answer),
         run[r].pc \in Active, Fault,
         UNCHANGED <<dispatch, file, golden>>,
         receipts' \subseteq Runs, receipts \subseteq receipts',
         reports' \subseteq reports \cup {r}, r \in reports' \ reports => r \in receipts',
         answer = "ok" => r \in receipts
  PROVE  IInv'
<1> DEFINE rec == SubmittedAgain(run[r], next, answer)
<1>1. run[r] \in RunType /\ run \in [Runs -> RunType] /\ faults \in 0..MaxFaults
  BY DEF IInv, TypeOK, RunType
<1>2. /\ faults' = faults + 1 /\ faults' \in 0..MaxFaults /\ faults' >= faults
      /\ UNCHANGED <<dispatch, file, golden, deaths>>
  BY <1>1, Bounds DEF Fault
<1>3. rec \in RunType
  BY <1>1, SubmittedAgainType
<1>4. /\ run' \in [Runs -> RunType] /\ run'[r] = rec
      /\ \A q \in Runs : q # r => run'[q] = run[q]
  BY <1>1, <1>3 DEF Unacknowledged
<1>5. run[r].tries <= faults /\ run[r].tries \in Nat
      /\ (run[r].answer = "ok" => r \in receipts)
      /\ (run[r].pc \in {"accepted", "submitting", "reported"} => r \in receipts)
  BY <1>1 DEF IInv, RunIsReceived, RunType
<1>6. /\ rec.answer = "ok" => r \in receipts'
      /\ rec.pc \in {"accepted", "submitting", "reported"} => r \in receipts'
      /\ rec.tries <= faults'
  BY <1>1, <1>2, <1>5, Bounds DEF RunType, SubmittedAgain
<1>7. rec.pc = "lost" => deaths > 0 \/ faults' >= SubmitAttempts
  BY <1>1, <1>2, <1>5, Bounds DEF RunType, Active, SubmittedAgain
<1> HIDE DEF rec
<1>8. RunIsReceived(r)'
  BY <1>2, <1>4, <1>6, <1>7 DEF RunIsReceived
<1>9. QED
  BY <1>2, <1>4, <1>8, RunStep

LEMMA DeliveredType ==
  ASSUME NEW old \in DispatchType, NEW field \in {"question", "golden"},
         NEW next \in {"golden", "count"}
  PROVE  Delivered(old, field, next) \in DispatchType
  BY Bounds DEF Delivered, DispatchType, Stages

LEMMA SucceededStep ==
  ASSUME IInv, NEW d \in Dispatches,
         NEW field \in {"question", "golden"}, NEW next \in {"golden", "count"},
         Succeeded(d, field, next),
         field = "question" => dispatch[d].run \in receipts /\ next = "golden",
         field = "golden" => golden',
         dispatch[d].pc = "golden" => next = "count",
         dispatch[d].pc \in {"asking", "golden"},
         UNCHANGED <<run, file, receipts, reports, faults, deaths>>,
         golden' \in BOOLEAN, golden => golden'
  PROVE  IInv'
<1>1. dispatch[d] \in DispatchType /\ dispatch \in [Dispatches -> DispatchType] /\ DispatchIsReceived(d)
  BY DEF IInv, TypeOK, DispatchType
<1>2. /\ dispatch' \in [Dispatches -> DispatchType]
      /\ dispatch'[d] = Delivered(dispatch[d], field, next)
      /\ \A e \in Dispatches : e # d => dispatch'[e] = dispatch[e]
  BY <1>1, DeliveredType DEF Succeeded
<1>3. CASE field = "question"
  <2>1. /\ dispatch'[d].pc = "golden" /\ dispatch'[d].run = dispatch[d].run
        /\ dispatch'[d].golden = dispatch[d].golden
    BY <1>1, <1>2, <1>3 DEF Delivered
  <2>3. DispatchIsReceived(d)'
    BY <1>1, <1>3, <2>1 DEF DispatchIsReceived
  <2>2. QED
    BY <1>2, <2>3, DispatchStep, Bounds DEF IInv, TypeOK, RunType
<1>4. CASE field = "golden"
  <2>1. /\ dispatch'[d].pc = next /\ dispatch'[d].run = dispatch[d].run
        /\ dispatch'[d].question = dispatch[d].question
    BY <1>1, <1>2, <1>4 DEF Delivered
  <2>2. dispatch[d].question = "ok" => next = "count" /\ dispatch[d].run \in receipts
    BY <1>1 DEF DispatchIsReceived
  <2>3. DispatchIsReceived(d)'
    BY <1>1, <1>4, <2>1, <2>2 DEF DispatchIsReceived
  <2>4. QED
    BY <1>2, <2>3, DispatchStep, Bounds DEF IInv, TypeOK, RunType
<1>5. QED
  BY <1>3, <1>4

\* A dispatch that moves on and keeps what it was told.
LEMMA MoveStep ==
  ASSUME IInv, NEW d \in Dispatches, NEW pc \in Stages \ {"asking"}, Move(d, pc),
         dispatch[d].question = "ok" => pc \in {"golden", "count", "done", "gone"},
         UNCHANGED <<run, receipts, reports, golden, faults, deaths>>, file' \in Nat
  PROVE  IInv'
<1>1. dispatch[d] \in DispatchType /\ dispatch \in [Dispatches -> DispatchType] /\ DispatchIsReceived(d)
  BY DEF IInv, TypeOK, DispatchType
<1>2. /\ dispatch' \in [Dispatches -> DispatchType]
      /\ dispatch'[d] = [dispatch[d] EXCEPT !.pc = pc]
      /\ \A e \in Dispatches : e # d => dispatch'[e] = dispatch[e]
  BY <1>1 DEF Move, DispatchType
<1>3. DispatchIsReceived(d)'
  BY <1>1, <1>2 DEF DispatchIsReceived, DispatchType
<1>4. run' \in [Runs -> RunType] /\ faults' \in 0..MaxFaults /\ faults' >= faults /\ golden' \in BOOLEAN
  BY Bounds DEF IInv, TypeOK, RunType
<1>5. QED
  BY <1>2, <1>3, <1>4, DispatchStep

\* A run that moves on and has its receipt.
LEMMA RunMoves ==
  ASSUME IInv, NEW r \in Runs, run' \in [Runs -> RunType],
         \A q \in Runs : q # r => run'[q] = run[q],
         run'[r].pc \in {"accepted", "submitting", "reported"},
         run'[r].tries \in {0, run[r].tries},
         r \in receipts', receipts' \subseteq Runs, receipts \subseteq receipts',
         reports' \subseteq reports \cup {r},
         UNCHANGED <<dispatch, file, golden, faults, deaths>>
  PROVE  IInv'
<1>1. faults \in 0..MaxFaults /\ run[r].tries <= faults
  BY DEF IInv, TypeOK, RunIsReceived
<1>2. faults' \in 0..MaxFaults /\ faults' >= faults /\ run'[r].tries <= faults'
  BY <1>1, Bounds
<1>3. RunIsReceived(r)'
  BY <1>2 DEF RunIsReceived
<1>4. QED
  BY <1>2, <1>3, RunStep

-----------------------------------------------------------------------------
(* Every step keeps the invariant.                                         *)

LEMMA QaAgentStep == ASSUME IInv, NEW d \in Dispatches, QaAgent(d) PROVE IInv'
<1>1. dispatch[d] \in DispatchType /\ dispatch \in [Dispatches -> DispatchType]
      /\ DispatchIsReceived(d)
  BY DEF IInv, TypeOK, DispatchType
<1>2. /\ run \in [Runs -> RunType] /\ file \in Nat /\ file + 1 \in Nat
      /\ golden \in BOOLEAN /\ faults \in 0..MaxFaults
  BY DEF IInv, TypeOK, RunType
<1>3. ASSUME Fault
      PROVE  faults' \in 0..MaxFaults /\ faults' >= faults /\ deaths' = deaths
  BY <1>2, <1>3, Bounds DEF Fault
<1>4. CASE Begin(d)
  BY <1>1, <1>2, <1>4, MoveStep DEF Begin, DispatchIsReceived, testing, world, Stages
<1>5. ASSUME NEW r \in Runs, PostQuestion(d, r)
      PROVE  IInv'
  <2>1. /\ dispatch' \in [Dispatches -> DispatchType]
        /\ \A e \in Dispatches : e # d => dispatch'[e] = dispatch[e]
        /\ dispatch'[d].pc = "asking" /\ dispatch'[d].run = r
        /\ dispatch'[d].question = dispatch[d].question /\ dispatch'[d].golden = dispatch[d].golden
    BY <1>1, <1>5 DEF PostQuestion, DispatchType, Stages
  <2>2. dispatch[d].question # "ok"
    BY <1>1, <1>5 DEF PostQuestion, DispatchIsReceived
  <2>3. run' \in [Runs -> RunType]
        /\ \A q \in Runs : run'[q] = run[q] \/ (run'[q].pc = "receiving" /\ run'[q].answer = run[q].answer
                                                /\ run'[q].tries = run[q].tries)
    BY <1>2, <1>5 DEF PostQuestion, RunType, Active
  <2>4. UNCHANGED <<file, receipts, reports, golden, faults, deaths>>
    BY <1>5 DEF PostQuestion, testing, world
  <2>5. faults' \in 0..MaxFaults /\ faults' >= faults
    BY <1>2, <2>4, Bounds
  <2>6. DispatchIsReceived(d)'
    BY <1>1, <2>1, <2>2, <2>4 DEF DispatchIsReceived
  <2>7. QED
    BY <1>2, <2>1, <2>3, <2>4, <2>5, <2>6, DispatchStep
<1>6. CASE LoseQuestion(d)
  BY <1>2, <1>3, <1>6, RetriedStep DEF LoseQuestion, testing
<1>7. CASE QuestionAnswered(d)
  <2>1. dispatch[d].run \in Runs /\ RunIsReceived(dispatch[d].run)
    BY <1>1, <1>7 DEF QuestionAnswered, DispatchIsReceived, IInv
  <2>2. CASE run[dispatch[d].run].answer = "ok" /\ Succeeded(d, "question", "golden")
    BY <1>2, <1>7, <2>1, <2>2, SucceededStep DEF QuestionAnswered, RunIsReceived, testing, world
  <2>3. CASE Retried(d, "question", "golden")
    BY <1>2, <1>7, <2>3, RetriedStep, Bounds DEF QuestionAnswered, testing, world
  <2>4. QED
    BY <1>7, <2>2, <2>3 DEF QuestionAnswered
<1>8. CASE QuestionUnanswered(d)
  BY <1>2, <1>3, <1>8, RetriedStep DEF QuestionUnanswered, testing
<1>9. CASE PostGolden(d)
  BY <1>2, <1>9, SucceededStep DEF PostGolden, world
<1>10. CASE LoseGolden(d)
  <2>3. golden' = golden \/ golden' = TRUE
    BY <1>10 DEF LoseGolden
  <2>1. golden' \in BOOLEAN /\ (golden => golden')
    BY <1>2, <2>3, Zenon
  <2>2. QED
    BY <1>3, <1>10, <2>1, RetriedStep DEF LoseGolden
<1>11. CASE Finish(d)
  BY <1>1, <1>2, <1>11, MoveStep DEF Finish, testing, world, Stages
<1>12. QED
  BY <1>4, <1>5, <1>6, <1>7, <1>8, <1>9, <1>10, <1>11 DEF QaAgent

LEMMA GeneratorStep == ASSUME IInv, NEW r \in Runs, Generator(r) PROVE IInv'
<1>1. run[r] \in RunType /\ run \in [Runs -> RunType] /\ RunIsReceived(r) /\ receipts \subseteq Runs
  BY DEF IInv, TypeOK, RunType
<1>2. CASE SubmitReceipt(r)
  <2>1. /\ run' \in [Runs -> RunType] /\ \A q \in Runs : q # r => run'[q] = run[q]
        /\ run'[r].pc = "accepted" /\ run'[r].tries = 0
    BY <1>1, <1>2, Bounds DEF SubmitReceipt, RunType, Active
  <2>2. QED
    BY <1>1, <1>2, <2>1, RunMoves DEF SubmitReceipt, world
<1>3. CASE LoseReceipt(r)
  BY <1>1, <1>3, UnacknowledgedStep DEF LoseReceipt, Active
<1>4. CASE Generate(r)
  <2>1. /\ run' \in [Runs -> RunType] /\ \A q \in Runs : q # r => run'[q] = run[q]
        /\ run'[r].pc = "submitting" /\ run'[r].tries = run[r].tries
    BY <1>1, <1>4, Bounds DEF Generate, RunType, Active
  <2>2. QED
    BY <1>1, <1>4, <2>1, RunMoves DEF Generate, RunIsReceived, testing, world
<1>5. CASE SubmitReport(r)
  <2>1. /\ run' \in [Runs -> RunType] /\ \A q \in Runs : q # r => run'[q] = run[q]
        /\ run'[r].pc = "reported" /\ run'[r].tries = 0
    BY <1>1, <1>5, Bounds DEF SubmitReport, RunType
  <2>2. QED
    BY <1>1, <1>5, <2>1, RunMoves DEF SubmitReport, RunIsReceived, world
<1>6. CASE LoseReport(r)
  BY <1>1, <1>6, UnacknowledgedStep DEF LoseReport, Active, RunIsReceived
<1>7. QED
  BY <1>2, <1>3, <1>4, <1>5, <1>6 DEF Generator

LEMMA GeneratorDiesStep == ASSUME IInv, GeneratorDies PROVE IInv'
<1>1. run \in [Runs -> RunType] /\ deaths \in 0..MaxDeaths
  BY DEF IInv, TypeOK, RunType
<1>2. run' \in [Runs -> RunType]
      /\ \A r \in Runs : /\ run'[r].tries = run[r].tries
                         /\ run'[r].answer = "ok" => run[r].answer = "ok"
                         /\ run'[r].pc = "lost" \/ run'[r] = run[r]
  BY <1>1 DEF GeneratorDies, RunType
<1>8. /\ deaths < MaxDeaths /\ deaths' = deaths + 1
      /\ UNCHANGED <<dispatch, file, receipts, reports, golden, faults>>
  BY Zenon DEF GeneratorDies, testing
<1>3. /\ deaths' \in 0..MaxDeaths /\ deaths' > 0
      /\ UNCHANGED <<dispatch, file, receipts, reports, golden, faults>>
  BY <1>1, <1>8, Bounds
<1>4. TypeOK'
  BY <1>2, <1>3 DEF IInv, TypeOK, RunType
<1>5. \A r \in Runs : RunIsReceived(r)'
  BY <1>2, <1>3 DEF IInv, RunIsReceived
<1>6. \A d \in Dispatches : DispatchIsReceived(d)'
  BY <1>3 DEF IInv, DispatchIsReceived
<1>7. QED
  BY <1>3, <1>4, <1>5, <1>6 DEF IInv, ReportFollowsReceipt

LEMMA QaAgentDiesStep == ASSUME IInv, QaAgentDies PROVE IInv'
<1>1. dispatch \in [Dispatches -> DispatchType] /\ deaths \in 0..MaxDeaths
  BY DEF IInv, TypeOK, DispatchType
<1>2. dispatch' \in [Dispatches -> DispatchType]
      /\ \A d \in Dispatches : dispatch'[d] = dispatch[d]
                               \/ dispatch'[d] = [dispatch[d] EXCEPT !.pc = "gone"]
  BY <1>1 DEF QaAgentDies, DispatchType, Stages
<1>3. /\ deaths' \in 0..MaxDeaths /\ deaths' > 0
      /\ UNCHANGED <<run, file, receipts, reports, golden, faults>>
  BY <1>1, Bounds DEF QaAgentDies, testing
<1>4. TypeOK'
  BY <1>2, <1>3 DEF IInv, TypeOK, DispatchType
<1>5. \A r \in Runs : RunIsReceived(r)'
  BY <1>3 DEF IInv, RunIsReceived
<1>6. ASSUME NEW d \in Dispatches
      PROVE  DispatchIsReceived(d)'
  BY <1>1, <1>2, <1>3 DEF IInv, DispatchIsReceived, DispatchType
<1>7. QED
  BY <1>3, <1>4, <1>5, <1>6 DEF IInv, ReportFollowsReceipt

LEMMA InitIsIInv == Init => IInv
<1>1. SUFFICES ASSUME Init
               PROVE  IInv
  OBVIOUS
<1>2. dispatch \in [Dispatches -> DispatchType]
  BY <1>1, Bounds DEF Init, DispatchType, Stages
<1>3. run \in [Runs -> RunType]
  BY <1>1, Bounds DEF Init, RunType
<1>9. file = 0 /\ receipts = {} /\ reports = {} /\ golden = FALSE /\ faults = 0 /\ deaths = 0
  BY <1>1 DEF Init
<1>10. golden \in BOOLEAN
  BY <1>9, Zenon
<1>8. /\ file \in Nat /\ receipts \subseteq Runs /\ reports \subseteq Runs
      /\ faults \in 0..MaxFaults /\ deaths \in 0..MaxDeaths
  <2>1. file = 0 /\ faults = 0 /\ deaths = 0
    BY <1>9, Zenon
  <2>2. receipts \subseteq Runs /\ reports \subseteq Runs
    BY <1>9, Zenon
  <2>3. QED
    BY <2>1, <2>2, Bounds
<1>4. TypeOK
  BY <1>2, <1>3, <1>8, <1>10 DEF TypeOK, DispatchType, RunType
<1>5. \A r \in Runs : RunIsReceived(r)
  BY <1>1, Bounds DEF Init, RunIsReceived
<1>6. \A d \in Dispatches : DispatchIsReceived(d)
  BY <1>1 DEF Init, DispatchIsReceived
<1>7. QED
  BY <1>1, <1>4, <1>5, <1>6 DEF Init, IInv, ReportFollowsReceipt

LEMMA StutterKeepsIInv == IInv /\ UNCHANGED vars => IInv'
  BY DEF vars, IInv, TypeOK, RunIsReceived, DispatchIsReceived, ReportFollowsReceipt

LEMMA IInvAlways == Spec => []IInv
<1>1. IInv /\ [Next]_vars => IInv'
  BY QaAgentStep, GeneratorStep, GeneratorDiesStep, QaAgentDiesStep, StutterKeepsIInv DEF Next
<1>2. QED
  BY InitIsIInv, <1>1, PTL DEF Spec

\* Every dispatch, run and record has its type, whatever gets lost.
THEOREM DeliveryTyped == Spec => []TypeOK
<1>1. IInv => TypeOK
  BY DEF IInv
<1>2. QED
  BY <1>1, IInvAlways, PTL

\* What the qa-agent records as delivered has arrived at the testing-agent.
THEOREM DeliveredAlwaysReceived == Spec => []DeliveredIsReceived
<1>1. IInv => DeliveredIsReceived
  BY DEF IInv, DispatchIsReceived, DeliveredIsReceived
<1>2. QED
  BY <1>1, IInvAlways, PTL

\* The testing-agent has the receipt of every run it has the result of.
THEOREM ReportsFollowReceipts == Spec => []ReportFollowsReceipt
<1>1. IInv => ReportFollowsReceipt
  BY DEF IInv
<1>2. QED
  BY <1>1, IInvAlways, PTL

\* Short of a death, losing a run takes as many lost posts as there are tries.
THEOREM LossAlwaysNeedsFaults == Spec => []LossNeedsFaults
<1>1. IInv => LossNeedsFaults
  BY DEF IInv, RunIsReceived, LossNeedsFaults
<1>2. QED
  BY <1>1, IInvAlways, PTL
=============================================================================
