----------------------- MODULE GenerationPipelineProofs -----------------------
(***************************************************************************)
(* Facts about every run of the pipeline, for every number of retries.     *)
(***************************************************************************)
EXTENDS GenerationPipeline, TLAPS

-----------------------------------------------------------------------------
(* The inductive invariant.                                                *)

Working == (StageNames \ {"output", "repair_controller"}) \cup {"start"}

AllPassed == \A i \in DOMAIN trace : trace[i].status = "success"

\* The output is built last.
ResultAtEnd == at # "done" => result = NoResult

\* What broke ends the run with a reason of the service.
BrokenIsOver ==
  fault /\ at # "done" =>
    at = "output" /\ verdict.kind = "failure" /\ verdict.reason \in ServiceReasons

DecidedAtOutput == at = "output" => verdict.kind # "none"

\* As long as the run goes on, and when it has a query, every stage has passed.
PassedSoFar == (at \in Working \/ verdict.kind = "generated") => AllPassed

IInv ==
  /\ TypeOK
  /\ ResultAtEnd
  /\ BrokenIsOver
  /\ DecidedAtOutput
  /\ PassedSoFar
  /\ FaultIsServiceFailure
  /\ GeneratedPassedEveryStage

-----------------------------------------------------------------------------
(* Steps that every stage is built from.                                   *)

LEMMA UnexpectedIsService == \A tr : UnexpectedReason(tr) \in ServiceReasons
  BY DEF UnexpectedReason, ServiceReasons

\* A recorded stage that passed keeps the record of the run clean.
LEMMA RecordedStage ==
  ASSUME TypeOK, NEW s \in StageNames, NEW st \in {"success", "failed"}, Run(s, st)
  PROVE  /\ trace' \in Seq([stage : StageNames, status : {"success", "failed"}])
         /\ st = "success" /\ AllPassed => AllPassed'
<1>1. trace' = Append(trace, [stage |-> s, status |-> st])
  BY DEF Run, Record
<1>2. trace \in Seq([stage : StageNames, status : {"success", "failed"}])
  BY DEF TypeOK
<1>3. trace' \in Seq([stage : StageNames, status : {"success", "failed"}])
  BY <1>1, <1>2
<1>4. ASSUME st = "success", AllPassed, NEW i \in DOMAIN trace'
      PROVE  trace'[i].status = "success"
  <2>1. CASE i \in DOMAIN trace
    BY <1>1, <1>2, <1>4, <2>1 DEF AllPassed
  <2>2. CASE i = Len(trace) + 1
    BY <1>1, <1>2, <1>4, <2>2
  <2>3. QED
    BY <1>1, <1>2, <1>4, <2>1, <2>2
<1>5. QED
  BY <1>3, <1>4 DEF AllPassed

\* A step of a stage that goes on, possibly with other terms or assumptions.
LEMMA GoingOn ==
  ASSUME IInv, NEW s \in StageNames \ {"output", "repair_controller"}, Run(s, "success"),
         at' \in Working,
         attempt' \in 1..(SchemaRetries + 1),
         terms' \subseteq {"uncovered", "modality", "fuzzy"},
         assumed' \subseteq Visible \cup {"literal_fuzzy_match"},
         UNCHANGED <<verdict, result, fault>>
  PROVE  IInv'
<1>1. at = s /\ at \in Working /\ at # "done" /\ at # "output"
  BY DEF Run, Working, StageNames
<1>2. trace' \in Seq([stage : StageNames, status : {"success", "failed"}]) /\ AllPassed'
  BY <1>1, RecordedStage DEF IInv, PassedSoFar
<1>3. TypeOK'
  BY <1>2 DEF IInv, TypeOK, Working, StageNames
<1>4. at' # "done" /\ at' # "output" /\ result' = NoResult /\ fault' = FALSE
  BY <1>1 DEF IInv, TypeOK, ResultAtEnd, BrokenIsOver, DecidedAtOutput, Working, StageNames
<1>5. QED
  BY <1>2, <1>3, <1>4
     DEF IInv, ResultAtEnd, BrokenIsOver, DecidedAtOutput, PassedSoFar, FaultIsServiceFailure,
         GeneratedPassedEveryStage, NoResult

\* A step that decides what the output will be.
LEMMA Deciding ==
  ASSUME IInv, NEW v, NEW broken \in BOOLEAN, Decide(v, broken),
         at \in Working \cup {"repair_controller"},
         v \in [kind : {"generated", "clarification_required", "failure"},
                reason : Reasons \cup ValidatorErrors \cup {"none"}],
         trace' \in Seq([stage : StageNames, status : {"success", "failed"}]),
         broken => v.kind = "failure" /\ v.reason \in ServiceReasons,
         v.kind = "generated" => AllPassed'
  PROVE  IInv'
<1>1. at # "done" /\ at # "output" /\ fault = FALSE /\ result = NoResult
  BY DEF IInv, TypeOK, BrokenIsOver, ResultAtEnd, Working, StageNames
<1>2. /\ at' = "output" /\ verdict' = v /\ fault' = broken /\ result' = NoResult
      /\ UNCHANGED <<attempt, terms, assumed>>
  BY <1>1 DEF Decide
<1>3. TypeOK'
  BY <1>2 DEF IInv, TypeOK, StageNames, NoResult
<1>4. QED
  BY <1>2, <1>3
     DEF IInv, ResultAtEnd, BrokenIsOver, DecidedAtOutput, PassedSoFar, FaultIsServiceFailure,
         GeneratedPassedEveryStage, NoResult, Working, StageNames
\* A decision right after a stage was recorded.
LEMMA DecidingInStage ==
  ASSUME IInv, NEW s \in StageNames \ {"output"}, NEW st \in {"success", "failed"}, Run(s, st),
         NEW v, NEW broken \in BOOLEAN, Decide(v, broken),
         v \in [kind : {"clarification_required", "failure"},
                reason : Reasons \cup ValidatorErrors \cup {"none"}],
         broken => v.kind = "failure" /\ v.reason \in ServiceReasons
  PROVE  IInv'
<1>1. at \in Working \cup {"repair_controller"}
  BY DEF Run, Working, StageNames
<1>2. trace' \in Seq([stage : StageNames, status : {"success", "failed"}])
  BY RecordedStage DEF IInv
<1>3. QED
  BY <1>1, <1>2, Deciding

\* A stage in which something breaks.
LEMMA BreakingInStage ==
  ASSUME IInv, NEW s \in StageNames \ {"output"}, NEW st \in {"success", "failed"}, Run(s, st),
         NEW reason \in ServiceReasons, Decide(Failure(reason), TRUE)
  PROVE  IInv'
<1>1. Failure(reason) \in [kind : {"failure"}, reason : ServiceReasons]
  BY DEF Failure
<1>2. QED
  BY <1>1, DecidingInStage DEF Reasons

\* A decision that leaves no stage behind.
LEMMA DecidingUnrecorded ==
  ASSUME IInv, at \in Working, UNCHANGED trace,
         NEW v, NEW broken \in BOOLEAN, Decide(v, broken),
         v \in [kind : {"failure"}, reason : Reasons],
         broken => v.reason \in ServiceReasons
  PROVE  IInv'
<1>1. trace' \in Seq([stage : StageNames, status : {"success", "failed"}])
  BY DEF IInv, TypeOK
<1>2. QED
  BY <1>1, Deciding

LEMMA Raising ==
  ASSUME IInv, NEW s \in StageNames \ {"output"}, RaisesIn(s)
  PROVE  IInv'
<1>1. Failure(UnexpectedReason(trace')) \in [kind : {"failure"}, reason : ServiceReasons]
  BY UnexpectedIsService DEF Failure
<1>2. QED
  BY <1>1, DecidingInStage DEF RaisesIn, Reasons

LEMMA RaisingUnrecorded ==
  ASSUME IInv, NEW s \in StageNames \ {"output", "repair_controller"}, RaisesUnrecorded(s)
  PROVE  IInv'
<1>1. Failure(UnexpectedReason(trace)) \in [kind : {"failure"}, reason : ServiceReasons]
  BY UnexpectedIsService DEF Failure
<1>2. at \in Working
  BY DEF RaisesUnrecorded, Working
<1>3. QED
  BY <1>1, <1>2, DecidingUnrecorded DEF RaisesUnrecorded, Reasons

\* A stage that hands its issue to the repair controller.
LEMMA AskingRepair ==
  ASSUME IInv, NEW s \in StageNames \ {"output", "repair_controller"}, Run(s, "success"),
         at' = "repair_controller",
         NEW code \in Reasons \cup ValidatorErrors, verdict' = Failure(code),
         UNCHANGED <<attempt, terms, assumed, result, fault>>
  PROVE  IInv'
<1>1. at = s /\ at \in Working /\ at # "done" /\ at # "output"
  BY DEF Run, Working, StageNames
<1>2. trace' \in Seq([stage : StageNames, status : {"success", "failed"}])
  BY RecordedStage DEF IInv
<1>3. fault' = FALSE /\ result' = NoResult
  BY <1>1 DEF IInv, TypeOK, BrokenIsOver, ResultAtEnd
<1>4. TypeOK'
  BY <1>2 DEF IInv, TypeOK, StageNames, Failure
<1>5. QED
  BY <1>2, <1>3, <1>4
     DEF IInv, ResultAtEnd, BrokenIsOver, DecidedAtOutput, PassedSoFar, FaultIsServiceFailure,
         GeneratedPassedEveryStage, NoResult, Working, Failure

\* A stage that goes on and leaves everything else as it was.
LEMMA PlainlyGoingOn ==
  ASSUME IInv, NEW s \in StageNames \ {"output", "repair_controller"}, Run(s, "success"),
         NEW next \in Working, GoOn(next)
  PROVE  IInv'
  BY GoingOn DEF GoOn, IInv, TypeOK

-----------------------------------------------------------------------------
(* The output.                                                             *)

LEMMA Answering ==
  ASSUME IInv, at = "output", NEW status \in Statuses, NEW reason \in Reasons \cup {"none"},
         Answer(status, reason),
         fault => status = "service_failed",
         (status = "generated") <=> (verdict.kind = "generated")
  PROVE  IInv'
<1> DEFINE st == IF status = "generated" THEN "success" ELSE "failed"
<1>1. trace' = Append(trace, [stage |-> "output", status |-> st])
  BY DEF Answer, Record
<1>2. trace \in Seq([stage : StageNames, status : {"success", "failed"}])
  BY DEF IInv, TypeOK
<1>3. trace' \in Seq([stage : StageNames, status : {"success", "failed"}])
  BY <1>1, <1>2 DEF StageNames
<1>4. status = "generated" => AllPassed'
  <2>1. SUFFICES ASSUME status = "generated", NEW i \in DOMAIN trace'
                 PROVE  trace'[i].status = "success"
    BY DEF AllPassed
  <2>2. AllPassed
    BY <2>1 DEF IInv, PassedSoFar
  <2>3. CASE i \in DOMAIN trace
    BY <1>1, <1>2, <2>2, <2>3 DEF AllPassed
  <2>4. CASE i = Len(trace) + 1
    BY <1>1, <1>2, <2>1, <2>4
  <2>5. QED
    BY <1>1, <1>2, <2>1, <2>3, <2>4
<1>5. /\ at' = "done" /\ result'.status = status /\ result'.reason = reason
      /\ result' \in [status : Statuses, reason : Reasons \cup {"none"}, noticed : SUBSET Visible]
      /\ UNCHANGED <<attempt, terms, assumed, verdict, fault>>
  BY DEF Answer, Noticed, Visible
<1>6. TypeOK'
  BY <1>3, <1>5 DEF IInv, TypeOK
<1>7. PassedSoFar'
  BY <1>4, <1>5 DEF PassedSoFar, Working, StageNames
<1>8. QED
  BY <1>4, <1>5, <1>6, <1>7
     DEF IInv, ResultAtEnd, BrokenIsOver, DecidedAtOutput, FaultIsServiceFailure, GeneratedPassedEveryStage, AllPassed
LEMMA RejectedOutput == IInv /\ OutputRejected => IInv'
<1>1. SUFFICES ASSUME IInv, OutputRejected
               PROVE  IInv'
  OBVIOUS
<1>2. /\ at = "output" /\ at' = "output" /\ fault = FALSE /\ fault' = FALSE
      /\ result = NoResult /\ result' = NoResult
      /\ UNCHANGED <<attempt, terms, assumed>>
  BY <1>1 DEF OutputRejected, IInv, TypeOK, BrokenIsOver, ResultAtEnd, Reasons
<1>3. trace' \in Seq([stage : StageNames, status : {"success", "failed"}])
  BY <1>1 DEF OutputRejected, Record, IInv, TypeOK, StageNames
<1>4. verdict' \in [kind : {"failure"}, reason : Reasons]
  BY <1>1, UnexpectedIsService DEF OutputRejected, Failure, Reasons
<1>5. TypeOK'
  BY <1>1, <1>2, <1>3, <1>4 DEF IInv, TypeOK
<1>6. QED
  BY <1>2, <1>4, <1>5
     DEF IInv, ResultAtEnd, BrokenIsOver, DecidedAtOutput, PassedSoFar, FaultIsServiceFailure,
         GeneratedPassedEveryStage, NoResult, Working, StageNames

LEMMA FailedOutput == IInv /\ OutputFailure => IInv'
<1>1. SUFFICES ASSUME IInv, OutputFailure
               PROVE  IInv'
  OBVIOUS
<1> DEFINE status == StatusForFailureReason(verdict.reason)
<1>2. status \in Failures
  BY DEF StatusForFailureReason, Failures
<1>3. fault => status = "service_failed"
  BY <1>1 DEF OutputFailure, IInv, BrokenIsOver, ServiceReasons, GenerationReasons,
              ValidatorErrors, SelfValidationErrors, StatusForFailureReason
<1>4. status \in Statuses /\ status # "generated" /\ verdict.kind # "generated"
  BY <1>1, <1>2 DEF Failures, Statuses, OutputFailure
<1>5. QED
  BY <1>1, <1>3, <1>4, Answering DEF OutputFailure

LEMMA GivenOutput == IInv /\ OutputGenerated => IInv'
<1>1. SUFFICES ASSUME IInv, OutputGenerated
               PROVE  IInv'
  OBVIOUS
<1>2. fault = FALSE
  BY <1>1 DEF OutputGenerated, IInv, TypeOK, BrokenIsOver
<1>3. verdict.kind # "none"
  BY <1>1 DEF OutputGenerated, IInv, DecidedAtOutput
<1>4. verdict.kind \in Statuses
  BY <1>1, <1>3 DEF OutputGenerated, IInv, TypeOK, Statuses
<1>5. QED
  BY <1>1, <1>2, <1>4, Answering DEF OutputGenerated

-----------------------------------------------------------------------------
(* Every step of a run keeps the invariant.                                *)

LEMMA DecisionTypes ==
  /\ Clarification \in [kind : {"clarification_required"}, reason : {"none"}]
  /\ \A reason : Failure(reason).kind = "failure" /\ Failure(reason).reason = reason
  /\ \A reason \in Reasons \cup ValidatorErrors \cup {"none"} :
       /\ Failure(reason) \in [kind : {"failure"},
                               reason : Reasons \cup ValidatorErrors \cup {"none"}]
       /\ RepairDecision(reason) \in [kind : {"clarification_required", "failure"},
                                      reason : Reasons \cup ValidatorErrors \cup {"none"}]
  BY DEF Clarification, Failure, RepairDecision

LEMMA ReasonTypes ==
  /\ {"question_decomposer_schema_invalid", "model_invocation_failed", "literal_unresolved",
      "unsupported_query_shape", "single_shot_fallback_failed", "semantic_match_rejected",
      "grounded_understanding_schema_invalid", "compiler_shape_mismatch",
      "coverage_failure"} \cup SelfValidationErrors \subseteq Reasons
  /\ "model_invocation_failed" \in ServiceReasons
  BY DEF Reasons, GenerationReasons, ServiceReasons, ValidatorErrors, SelfValidationErrors

LEMMA StepKeepsIInv == IInv /\ Step => IInv'
<1>1. SUFFICES ASSUME IInv, Step
               PROVE  IInv'
  OBVIOUS
<1> USE <1>1
<1>2. CASE Configure
  <2>1. CASE GoOn("graph_model_loader") /\ UNCHANGED trace /\ at = "start"
    BY <2>1 DEF GoOn, IInv, TypeOK, ResultAtEnd, BrokenIsOver, DecidedAtOutput, PassedSoFar, AllPassed, FaultIsServiceFailure,
                GeneratedPassedEveryStage, Working, StageNames, NoResult
  <2>2. CASE Decide(Failure(UnexpectedReason(trace)), TRUE) /\ UNCHANGED trace /\ at = "start"
    BY <2>2, DecidingUnrecorded, UnexpectedIsService DEF Failure, Working, Reasons
  <2>3. QED
    BY <1>2, <2>1, <2>2 DEF Configure
<1>3. CASE LoadGraphModel
  <2>1. CASE Run("graph_model_loader", "success") /\ GoOn("input_clarification_gate")
    BY <2>1, PlainlyGoingOn DEF StageNames, Working
  <2>2. CASE RaisesIn("graph_model_loader")
    BY <2>2, Raising DEF StageNames
  <2>3. QED
    BY <1>3, <2>1, <2>2 DEF LoadGraphModel
<1>4. CASE InputClarificationGate
  <2>1. CASE Run("input_clarification_gate", "success") /\ GoOn("question_decomposer")
    BY <2>1, PlainlyGoingOn DEF StageNames, Working
  <2>2. CASE Run("input_clarification_gate", "success") /\ Decide(Clarification, FALSE)
    BY <2>2, DecidingInStage, DecisionTypes, ReasonTypes DEF StageNames
  <2>3. QED
    BY <1>4, <2>1, <2>2 DEF InputClarificationGate
<1>5. CASE RetrieveCandidates
  <2>1. CASE Run("candidate_retrieval", "success") /\ GoOn("candidate_reranker")
    BY <2>1, PlainlyGoingOn DEF StageNames, Working
  <2>2. CASE RaisesIn("candidate_retrieval")
    BY <2>2, Raising DEF StageNames
  <2>3. QED
    BY <1>5, <2>1, <2>2 DEF RetrieveCandidates
<1>6. CASE RerankCandidates
  <2>1. CASE Run("candidate_reranker", "success") /\ GoOn("literal_resolver")
    BY <2>1, PlainlyGoingOn DEF StageNames, Working
  <2>2. CASE RaisesIn("candidate_reranker")
    BY <2>2, Raising DEF StageNames
  <2>3. QED
    BY <1>6, <2>1, <2>2 DEF RerankCandidates
<1>7. CASE Assemble
  <2>1. CASE Run("deterministic_assembler", "success") /\ GoOn("dsl_parser")
    BY <2>1, PlainlyGoingOn DEF StageNames, Working
  <2>2. CASE Run("deterministic_assembler", "success") /\ GoOn("grounded_understanding")
    BY <2>2, PlainlyGoingOn DEF StageNames, Working
  <2>3. CASE RaisesIn("deterministic_assembler")
    BY <2>3, Raising DEF StageNames
  <2>4. QED
    BY <1>7, <2>1, <2>2, <2>3 DEF Assemble
<1>8. CASE BuildDsl
  <2>1. CASE Run("dsl_builder", "success") /\ GoOn("dsl_parser")
    BY <2>1, PlainlyGoingOn DEF StageNames, Working
  <2>2. CASE Run("dsl_builder", "failed") /\ Decide(Failure("compiler_shape_mismatch"), FALSE)
    BY <2>2, DecidingInStage, DecisionTypes, ReasonTypes DEF StageNames
  <2>3. CASE RaisesIn("dsl_builder")
    BY <2>3, Raising DEF StageNames
  <2>4. QED
    BY <1>8, <2>1, <2>2, <2>3 DEF BuildDsl
<1>9. CASE ParseDsl
  <2>1. CASE Run("dsl_parser", "success") /\ GoOn("dsl_structural_coverage_gate")
    BY <2>1, PlainlyGoingOn DEF StageNames, Working
  <2>2. CASE Run("dsl_parser", "failed") /\ Decide(Failure("compiler_shape_mismatch"), FALSE)
    BY <2>2, DecidingInStage, DecisionTypes, ReasonTypes DEF StageNames
  <2>3. CASE RaisesIn("dsl_parser")
    BY <2>3, Raising DEF StageNames
  <2>4. QED
    BY <1>9, <2>1, <2>2, <2>3 DEF ParseDsl
<1>10. CASE CompileCypher
  <2>1. CASE Run("cypher_compiler", "success") /\ GoOn("cypher_self_validation")
    BY <2>1, PlainlyGoingOn DEF StageNames, Working
  <2>2. CASE Run("cypher_compiler", "failed") /\ Decide(Failure("compiler_shape_mismatch"), FALSE)
    BY <2>2, DecidingInStage, DecisionTypes, ReasonTypes DEF StageNames
  <2>3. CASE RaisesIn("cypher_compiler")
    BY <2>3, Raising DEF StageNames
  <2>4. QED
    BY <1>10, <2>1, <2>2, <2>3 DEF CompileCypher
<1>11. CASE DecideRepair
  <2>1. CASE Run("repair_controller", "success") /\ Decide(RepairDecision(verdict.reason), FALSE)
    BY <2>1, DecidingInStage, DecisionTypes DEF StageNames, IInv, TypeOK
  <2>2. CASE RaisesIn("repair_controller")
    BY <2>2, Raising DEF StageNames
  <2>3. QED
    BY <1>11, <2>1, <2>2 DEF DecideRepair
<1>12. CASE DecomposeQuestion
  <2>1. CASE Run("question_decomposer", "success") /\ Decide(Clarification, FALSE)
    BY <2>1, DecidingInStage, DecisionTypes DEF StageNames
  <2>2. CASE /\ Run("question_decomposer", "success")
             /\ terms' \in SUBSET {"uncovered", "modality"}
             /\ at' = "candidate_retrieval"
             /\ UNCHANGED <<attempt, assumed, verdict, result, fault>>
    BY <2>2, GoingOn DEF IInv, TypeOK, StageNames, Working
  <2>3. CASE DecomposerFails
    <3>1. CASE Run("question_decomposer", "success")
               /\ Decide(Failure("model_invocation_failed"), TRUE)
      BY <3>1, BreakingInStage, ReasonTypes DEF StageNames
    <3>2. CASE Run("question_decomposer", "success")
               /\ Decide(Failure("question_decomposer_schema_invalid"), FALSE)
      BY <3>2, DecidingInStage, DecisionTypes, ReasonTypes DEF StageNames
    <3>3. QED
      BY <2>3, <3>1, <3>2 DEF DecomposerFails
  <2>4. CASE DecomposerAsksAgain
    <3>1. TypeOK'
      BY <2>4, PipelineAssumption DEF DecomposerAsksAgain, IInv, TypeOK
    <3>2. QED
      BY <2>4, <3>1
         DEF DecomposerAsksAgain, IInv, ResultAtEnd, BrokenIsOver, DecidedAtOutput, PassedSoFar,
             AllPassed, FaultIsServiceFailure, GeneratedPassedEveryStage
  <2>5. CASE RaisesIn("question_decomposer")
    BY <2>5, Raising DEF StageNames
  <2>6. QED
    BY <1>12, <2>1, <2>2, <2>3, <2>4, <2>5 DEF DecomposeQuestion
<1>13. CASE ResolveLiterals
  <2>1. CASE /\ Run("literal_resolver", "success")
             /\ at' = "deterministic_assembler"
             /\ terms' \in {terms, terms \cup {"fuzzy"}}
             /\ UNCHANGED <<attempt, assumed, verdict, result, fault>>
    BY <2>1, GoingOn DEF IInv, TypeOK, StageNames, Working
  <2>2. CASE Run("literal_resolver", "success") /\ Decide(Clarification, FALSE)
    BY <2>2, DecidingInStage, DecisionTypes DEF StageNames
  <2>3. CASE /\ Run("literal_resolver", "success")
             /\ at' = "repair_controller"
             /\ verdict' = Failure("literal_unresolved")
             /\ UNCHANGED <<attempt, terms, assumed, result, fault>>
    BY <2>3, AskingRepair, ReasonTypes DEF StageNames
  <2>4. CASE RaisesIn("literal_resolver")
    BY <2>4, Raising DEF StageNames
  <2>5. QED
    BY <1>13, <2>1, <2>2, <2>3, <2>4 DEF ResolveLiterals
<1>14. CASE GroundedUnderstanding
  <2>1. CASE /\ Run("grounded_understanding", "success")
             /\ at' = "semantic_binder"
             /\ assumed' \in SUBSET Visible
             /\ UNCHANGED <<attempt, terms, verdict, result, fault>>
    BY <2>1, GoingOn DEF IInv, TypeOK, StageNames, Working
  <2>2. CASE Run("grounded_understanding", "success") /\ Decide(Clarification, FALSE)
    BY <2>2, DecidingInStage, DecisionTypes DEF StageNames
  <2>3. CASE Run("grounded_understanding", "success")
             /\ Decide(Failure("model_invocation_failed"), TRUE)
    BY <2>3, BreakingInStage, ReasonTypes DEF StageNames
  <2>4. CASE /\ Run("grounded_understanding", "success")
             /\ \E reason \in {"unsupported_query_shape", "single_shot_fallback_failed",
                               "semantic_match_rejected",
                               "grounded_understanding_schema_invalid"} :
                  Decide(Failure(reason), FALSE)
    BY <2>4, DecidingInStage, DecisionTypes, ReasonTypes DEF StageNames
  <2>5. CASE RaisesIn("grounded_understanding")
    BY <2>5, Raising DEF StageNames
  <2>6. QED
    BY <1>14, <2>1, <2>2, <2>3, <2>4, <2>5 DEF GroundedUnderstanding
<1>15. CASE BindPlan
  <2>1. CASE /\ Run("semantic_binder", "success")
             /\ at' = "semantic_validator"
             /\ assumed' = assumed \cup (IF "fuzzy" \in terms THEN {"literal_fuzzy_match"} ELSE {})
             /\ UNCHANGED <<attempt, terms, verdict, result, fault>>
    BY <2>1, GoingOn DEF IInv, TypeOK, StageNames, Working
  <2>2. CASE Run("semantic_binder", "failed")
             /\ Decide(Failure("semantic_match_rejected"), FALSE)
    BY <2>2, DecidingInStage, DecisionTypes, ReasonTypes DEF StageNames
  <2>3. CASE RaisesIn("semantic_binder")
    BY <2>3, Raising DEF StageNames
  <2>4. QED
    BY <1>15, <2>1, <2>2, <2>3 DEF BindPlan
<1>16. CASE ValidatePlan
  <2>1. CASE /\ Run("semantic_validator", "success")
             /\ at' = "dsl_builder"
             /\ assumed' = assumed \cup
                  (IF "modality" \in CoverageOf(terms) THEN {"modality_warning"} ELSE {})
             /\ UNCHANGED <<attempt, terms, verdict, result, fault>>
    BY <2>1, GoingOn DEF IInv, TypeOK, StageNames, Working, Visible
  <2>2. CASE Run("semantic_validator", "success")
             /\ Decide(Failure(UnexpectedReason(trace')), TRUE)
    BY <2>2, BreakingInStage, UnexpectedIsService DEF StageNames
  <2>3. CASE /\ Run("semantic_validator", "success")
             /\ at' = "repair_controller"
             /\ \E code \in ValidatorErrors \cup {"coverage_failure"} : verdict' = Failure(code)
             /\ UNCHANGED <<attempt, terms, assumed, result, fault>>
    BY <2>3, AskingRepair, ReasonTypes DEF StageNames
  <2>4. CASE RaisesIn("semantic_validator")
    BY <2>4, Raising DEF StageNames
  <2>5. QED
    BY <1>16, <2>1, <2>2, <2>3, <2>4 DEF ValidatePlan
<1>17. CASE CheckStructuralCoverage
  <2>1. CASE Run("dsl_structural_coverage_gate", "success") /\ GoOn("cypher_compiler")
    BY <2>1, PlainlyGoingOn DEF StageNames, Working
  <2>2. CASE Run("dsl_structural_coverage_gate", "failed")
             /\ Decide(Failure("coverage_failure"), FALSE)
    BY <2>2, DecidingInStage, DecisionTypes, ReasonTypes DEF StageNames
  <2>3. CASE at = "dsl_structural_coverage_gate" /\ UNCHANGED trace
             /\ Decide(Failure("compiler_shape_mismatch"), FALSE)
    BY <2>3, DecidingUnrecorded, ReasonTypes DEF StageNames, Working, Failure
  <2>4. CASE RaisesUnrecorded("dsl_structural_coverage_gate")
    BY <2>4, RaisingUnrecorded DEF StageNames
  <2>5. QED
    BY <1>17, <2>1, <2>2, <2>3, <2>4 DEF CheckStructuralCoverage
<1>18. CASE SelfValidate
  <2>1. CASE Run("cypher_self_validation", "success") /\ Decide(Generated, FALSE)
    <3>1. at \in Working /\ AllPassed
      BY <2>1 DEF Run, Working, StageNames, IInv, PassedSoFar
    <3>2. trace' \in Seq([stage : StageNames, status : {"success", "failed"}]) /\ AllPassed'
      BY <2>1, <3>1, RecordedStage DEF StageNames, IInv
    <3>3. QED
      BY <2>1, <3>1, <3>2, Deciding DEF Generated
  <2>2. CASE /\ Run("cypher_self_validation", "failed")
             /\ \E reason \in SelfValidationErrors : Decide(Failure(reason), FALSE)
    BY <2>2, DecidingInStage, DecisionTypes, ReasonTypes DEF StageNames
  <2>3. CASE at = "cypher_self_validation" /\ UNCHANGED trace
             /\ Decide(Failure("compiler_shape_mismatch"), FALSE)
    BY <2>3, DecidingUnrecorded, ReasonTypes DEF StageNames, Working, Failure
  <2>4. CASE RaisesUnrecorded("cypher_self_validation")
    BY <2>4, RaisingUnrecorded DEF StageNames
  <2>5. QED
    BY <1>18, <2>1, <2>2, <2>3, <2>4 DEF SelfValidate
<1>19. CASE OutputGenerated
  BY <1>19, GivenOutput
<1>20. CASE OutputFailure
  BY <1>20, FailedOutput
<1>21. CASE OutputRejected
  BY <1>21, RejectedOutput
<1>22. QED
  BY <1>2, <1>3, <1>4, <1>5, <1>6, <1>7, <1>8, <1>9, <1>10, <1>11, <1>12, <1>13, <1>14, <1>15,
     <1>16, <1>17, <1>18, <1>19, <1>20, <1>21 DEF Step

LEMMA InitIsIInv == Init => IInv
<1>1. SUFFICES ASSUME Init
               PROVE  IInv
  OBVIOUS
<1>2. attempt \in 1..(SchemaRetries + 1)
  BY <1>1, PipelineAssumption DEF Init
<1>3. trace \in Seq([stage : StageNames, status : {"success", "failed"}]) /\ AllPassed
  BY <1>1 DEF Init, AllPassed
<1>4. /\ verdict \in [kind : {"none"}, reason : {"none"}]
      /\ result \in [status : {"none"}, reason : {"none"}, noticed : {{}}]
  BY <1>1 DEF Init, NoVerdict, NoResult
<1>5. TypeOK
  BY <1>1, <1>2, <1>3, <1>4 DEF Init, TypeOK
<1>6. QED
  BY <1>1, <1>3, <1>4, <1>5
     DEF Init, IInv, ResultAtEnd, BrokenIsOver, DecidedAtOutput, PassedSoFar,
         FaultIsServiceFailure, GeneratedPassedEveryStage

LEMMA StutterKeepsIInv == IInv /\ UNCHANGED vars => IInv'
  BY DEF vars, IInv, TypeOK, ResultAtEnd, BrokenIsOver, DecidedAtOutput, PassedSoFar, AllPassed,
         FaultIsServiceFailure, GeneratedPassedEveryStage

LEMMA IInvAlways == Spec => []IInv
<1>1. IInv /\ [Next]_vars => IInv'
  BY StepKeepsIInv, StutterKeepsIInv DEF Next, Done
<1>2. QED
  BY InitIsIInv, <1>1, PTL DEF Spec

\* Every part of a run has its type, for any number of schema retries.
THEOREM PipelineTyped == Spec => []TypeOK
<1>1. IInv => TypeOK
  BY DEF IInv
<1>2. QED
  BY <1>1, IInvAlways, PTL

\* A run in which something broke is reported as a failure of the service and
\* never as a failed generation.
THEOREM FaultsAreServiceFailures == Spec => []FaultIsServiceFailure
<1>1. IInv => FaultIsServiceFailure
  BY DEF IInv
<1>2. QED
  BY <1>1, IInvAlways, PTL

\* A generated query has passed every stage of its run.
THEOREM GeneratedRunsPassed == Spec => []GeneratedPassedEveryStage
<1>1. IInv => GeneratedPassedEveryStage
  BY DEF IInv
<1>2. QED
  BY <1>1, IInvAlways, PTL

-----------------------------------------------------------------------------
(* The order of the stages.  The two orders the submission knows agree up  *)
(* to the assembler, and each stage stands in each of them at most once.   *)

Orders == {GeneratedStageOrder, DeterministicStageOrder}

\* The trace has the first stages of an order, and next is the one behind them.
Leads(order, tr, next) ==
  /\ Len(tr) < Len(order) /\ order[Len(tr) + 1] = next
  /\ \A i \in 1..Len(tr) : tr[i].stage = order[i]

LEMMA GeneratedOrder ==
  /\ Len(GeneratedStageOrder) = 16
  /\ GeneratedStageOrder[1] = "graph_model_loader"
  /\ GeneratedStageOrder[2] = "input_clarification_gate"
  /\ GeneratedStageOrder[3] = "question_decomposer"
  /\ GeneratedStageOrder[4] = "candidate_retrieval"
  /\ GeneratedStageOrder[5] = "candidate_reranker"
  /\ GeneratedStageOrder[6] = "literal_resolver"
  /\ GeneratedStageOrder[7] = "deterministic_assembler"
  /\ GeneratedStageOrder[8] = "grounded_understanding"
  /\ GeneratedStageOrder[9] = "semantic_binder"
  /\ GeneratedStageOrder[10] = "semantic_validator"
  /\ GeneratedStageOrder[11] = "dsl_builder"
  /\ GeneratedStageOrder[12] = "dsl_parser"
  /\ GeneratedStageOrder[13] = "dsl_structural_coverage_gate"
  /\ GeneratedStageOrder[14] = "cypher_compiler"
  /\ GeneratedStageOrder[15] = "cypher_self_validation"
  /\ GeneratedStageOrder[16] = "output"
  BY DEF GeneratedStageOrder, Understanding, Fallback, Compilation

LEMMA DeterministicOrder ==
  /\ Len(DeterministicStageOrder) = 12
  /\ DeterministicStageOrder[1] = "graph_model_loader"
  /\ DeterministicStageOrder[2] = "input_clarification_gate"
  /\ DeterministicStageOrder[3] = "question_decomposer"
  /\ DeterministicStageOrder[4] = "candidate_retrieval"
  /\ DeterministicStageOrder[5] = "candidate_reranker"
  /\ DeterministicStageOrder[6] = "literal_resolver"
  /\ DeterministicStageOrder[7] = "deterministic_assembler"
  /\ DeterministicStageOrder[8] = "dsl_parser"
  /\ DeterministicStageOrder[9] = "dsl_structural_coverage_gate"
  /\ DeterministicStageOrder[10] = "cypher_compiler"
  /\ DeterministicStageOrder[11] = "cypher_self_validation"
  /\ DeterministicStageOrder[12] = "output"
  BY DEF DeterministicStageOrder, Understanding, Compilation

\* next comes right behind stage in one of the orders.
Follows(stage, next) ==
  \E order \in Orders : \E n \in 1..(Len(order) - 1) : order[n] = stage /\ order[n + 1] = next

\* A stage stands at one place of an order, in both orders at the same one up to the
\* assembler and four places apart behind it.
LEMMA Places ==
  /\ \A order \in Orders : \A n, m \in 1..Len(order) : order[n] = order[m] => n = m
  /\ \A n \in 1..16, m \in 1..12 : GeneratedStageOrder[n] = DeterministicStageOrder[m] =>
       \/ n = m /\ n =< 7
       \/ n = m + 4 /\ m > 7
<1>1. /\ \A n \in 1..16 : n = 1 \/ n = 2 \/ n = 3 \/ n = 4 \/ n = 5 \/ n = 6 \/ n = 7 \/ n = 8 \/ n = 9
                          \/ n = 10 \/ n = 11 \/ n = 12 \/ n = 13 \/ n = 14 \/ n = 15 \/ n = 16
      /\ \A n \in 1..12 : n = 1 \/ n = 2 \/ n = 3 \/ n = 4 \/ n = 5 \/ n = 6 \/ n = 7 \/ n = 8 \/ n = 9
                          \/ n = 10 \/ n = 11 \/ n = 12
  OBVIOUS
<1>2. \A n, m \in 1..16 : GeneratedStageOrder[n] = GeneratedStageOrder[m] => n = m
  BY <1>1, GeneratedOrder
<1>3. \A n, m \in 1..12 : DeterministicStageOrder[n] = DeterministicStageOrder[m] => n = m
  BY <1>1, DeterministicOrder
<1>4. \A n \in 1..16, m \in 1..12 : GeneratedStageOrder[n] = DeterministicStageOrder[m] =>
        (n = m /\ n =< 7) \/ (n = m + 4 /\ m > 7)
  BY <1>1, GeneratedOrder, DeterministicOrder
<1>5. ASSUME NEW order \in Orders PROVE \A n, m \in 1..Len(order) : order[n] = order[m] => n = m
  <2>1. CASE order = GeneratedStageOrder
    BY <1>2, <2>1, GeneratedOrder
  <2>2. CASE order = DeterministicStageOrder
    BY <1>3, <2>2, DeterministicOrder
  <2> QED
    BY <2>1, <2>2 DEF Orders
<1> QED
  BY <1>4, <1>5

LEMMA Agreement ==
  /\ \A i \in 1..7 : GeneratedStageOrder[i] = DeterministicStageOrder[i]
  /\ \A i \in 8..12 : GeneratedStageOrder[i + 4] = DeterministicStageOrder[i]
<1>1. /\ \A i \in 1..7 : i = 1 \/ i = 2 \/ i = 3 \/ i = 4 \/ i = 5 \/ i = 6 \/ i = 7
      /\ \A i \in 8..12 : i = 8 \/ i = 9 \/ i = 10 \/ i = 11 \/ i = 12
  OBVIOUS
<1> QED
  BY <1>1, GeneratedOrder, DeterministicOrder


LEMMA FollowsTyped ==
  ASSUME NEW stage, NEW next, Follows(stage, next)
  PROVE  stage \in Working \ {"start"} /\ next \in (Working \cup {"output"}) \ {"start"}
<1>1. /\ \A n \in 1..15 : /\ GeneratedStageOrder[n] \in Working \ {"start"}
                         /\ GeneratedStageOrder[n + 1] \in (Working \cup {"output"}) \ {"start"}
      /\ \A n \in 1..11 : /\ DeterministicStageOrder[n] \in Working \ {"start"}
                         /\ DeterministicStageOrder[n + 1] \in (Working \cup {"output"}) \ {"start"}
  <2>1. /\ \A n \in 1..15 : n = 1 \/ n = 2 \/ n = 3 \/ n = 4 \/ n = 5 \/ n = 6 \/ n = 7 \/ n = 8 \/ n = 9
                            \/ n = 10 \/ n = 11 \/ n = 12 \/ n = 13 \/ n = 14 \/ n = 15
        /\ \A n \in 1..11 : n = 1 \/ n = 2 \/ n = 3 \/ n = 4 \/ n = 5 \/ n = 6 \/ n = 7 \/ n = 8 \/ n = 9
                            \/ n = 10 \/ n = 11
    OBVIOUS
  <2> QED
    BY <2>1, GeneratedOrder, DeterministicOrder DEF Working, StageNames
<1>2. PICK order \in Orders : \E n \in 1..(Len(order) - 1) : order[n] = stage /\ order[n + 1] = next
  BY DEF Follows
<1>3. CASE order = GeneratedStageOrder
  BY <1>1, <1>2, <1>3, GeneratedOrder
<1>4. CASE order = DeterministicStageOrder
  BY <1>1, <1>2, <1>4, DeterministicOrder
<1> QED
  BY <1>3, <1>4 DEF Orders

\* A stage that is recorded leads to each stage that may follow it.
LEMMA Advancing ==
  ASSUME TypeOK, NEW order \in Orders, NEW stage, NEW next, NEW status,
         Leads(order, trace, stage), Follows(stage, next), Run(stage, status)
  PROVE  \E o \in Orders : Leads(o, trace', next)
<1> DEFINE n == Len(trace) + 1
<1>0. \A o \in Orders : Len(o) \in Nat
  BY GeneratedOrder, DeterministicOrder DEF Orders
<1>1. trace \in Seq([stage : StageNames, status : {"success", "failed"}])
  BY DEF TypeOK
<1>2. /\ Len(trace') = n /\ trace'[n].stage = stage
      /\ \A i \in 1..Len(trace) : trace'[i] = trace[i]
  BY <1>1 DEF Run, Record
<1>3. n \in 1..Len(order) /\ order[n] = stage
  BY <1>1, GeneratedOrder, DeterministicOrder DEF Leads, Orders
<1>4. PICK other \in Orders : \E m \in 1..(Len(other) - 1) : other[m] = stage /\ other[m + 1] = next
  BY DEF Follows
<1>5. PICK m \in 1..(Len(other) - 1) : other[m] = stage /\ other[m + 1] = next
  BY <1>4
<1> HIDE DEF n
<1>6. PICK o \in Orders : /\ n < Len(o) /\ o[n + 1] = next
                          /\ \A i \in 1..n : o[i] = order[i]
  <2>1. CASE other = order
    <3>1. m = n
      <4>1. m \in 1..Len(order) /\ order[n] = order[m]
        BY <1>0, <1>3, <1>5, <2>1
      <4> QED
        BY <1>3, <4>1, Places
    <3> QED
      BY <1>5, <2>1, <3>1
  <2>2. CASE order = GeneratedStageOrder /\ other = DeterministicStageOrder
    <3>1. n \in 1..16 /\ m \in 1..12
      BY <1>3, <1>5, <2>2, GeneratedOrder, DeterministicOrder
    <3>2. (n = m /\ n =< 7) \/ (n = m + 4 /\ m > 7)
      BY <1>3, <1>5, <2>2, <3>1, Places
    <3>3. CASE n =< 7
      <4>1. n < Len(other) /\ other[n + 1] = next
        BY <1>0, <1>5, <2>2, <3>1, <3>2, <3>3
      <4>2. \A i \in 1..n : other[i] = order[i]
        <5> TAKE i \in 1..n
        <5>1. i \in 1..7
          BY <3>1, <3>3
        <5> QED
          BY <2>2, <5>1, Agreement
      <4> QED
        BY <4>1, <4>2
    <3>4. CASE n > 7
      <4>1. n + 1 =< Len(order) /\ order[n + 1] = next
        BY <1>5, <2>2, <3>1, <3>2, <3>4, Agreement, GeneratedOrder, DeterministicOrder
      <4> QED
        BY <1>0, <1>3, <4>1
    <3> QED
      BY <3>1, <3>3, <3>4
  <2>3. CASE order = DeterministicStageOrder /\ other = GeneratedStageOrder
    <3>1. m \in 1..16 /\ n \in 1..12
      BY <1>3, <1>5, <2>3, GeneratedOrder, DeterministicOrder
    <3>2. (m = n /\ m =< 7) \/ (m = n + 4 /\ n > 7)
      BY <1>3, <1>5, <2>3, <3>1, Places
    <3>3. CASE n =< 7
      <4>1. n < Len(other) /\ other[n + 1] = next
        BY <1>0, <1>5, <2>3, <3>1, <3>2, <3>3
      <4>2. \A i \in 1..n : other[i] = order[i]
        <5> TAKE i \in 1..n
        <5>1. i \in 1..7
          BY <3>1, <3>3
        <5> QED
          BY <2>3, <5>1, Agreement
      <4> QED
        BY <4>1, <4>2
    <3>4. CASE n > 7
      <4>1. n + 1 =< Len(order) /\ order[n + 1] = next
        BY <1>5, <2>3, <3>1, <3>2, <3>4, Agreement, GeneratedOrder, DeterministicOrder
      <4> QED
        BY <1>0, <1>3, <4>1
    <3> QED
      BY <3>1, <3>3, <3>4
  <2> QED
    BY <2>1, <2>2, <2>3 DEF Orders
<1>7. \A i \in 1..n : trace'[i].stage = o[i]
  BY <1>1, <1>2, <1>3, <1>6 DEF Leads, n
<1> QED
  BY <1>2, <1>6, <1>7 DEF Leads

LEMMA OrdersTyped == Orders \subseteq Seq(StageNames)
<1>1. Understanding \in Seq(StageNames) /\ Fallback \in Seq(StageNames) /\ Compilation \in Seq(StageNames)
      /\ <<"output">> \in Seq(StageNames)
  BY DEF StageNames, Understanding, Fallback, Compilation
<1>2. Understanding \o Fallback \in Seq(StageNames)
  BY <1>1
<1>3. Understanding \o Fallback \o Compilation \in Seq(StageNames) /\ Understanding \o Compilation \in Seq(StageNames)
  BY <1>1, <1>2
<1> QED
  BY <1>1, <1>3 DEF Orders, GeneratedStageOrder, DeterministicStageOrder

\* While a run goes on, its trace leads to the stage it is at; a run that has a query
\* has every stage of an order behind it.
OnCourse ==
  /\ at = "start" => trace = <<>>
  /\ at \in Working \ {"start"} => \E order \in Orders : Leads(order, trace, at)
  /\ at = "output" /\ verdict.kind = "generated" => \E order \in Orders : Leads(order, trace, "output")
  /\ OutputIsSubmittable

\* The steps by what they do to the course of the run.
Starts == at = "start" /\ trace' = trace /\ at' = "graph_model_loader"
Advances(stage, next) == Follows(stage, next) /\ Run(stage, "success") /\ at' = next
Leaves == at' \in {"repair_controller", "output"} /\ verdict'.kind # "generated"
Waits == at # "done" /\ UNCHANGED <<at, trace, verdict>>

LEMMA StartsOnCourse == OnCourse /\ Starts => OnCourse'
<1> SUFFICES ASSUME OnCourse, Starts PROVE OnCourse'
  OBVIOUS
<1>1. trace' = <<>> /\ at' = "graph_model_loader"
  BY DEF OnCourse, Starts
<1>2. Leads(GeneratedStageOrder, trace', at')
  BY <1>1, GeneratedOrder DEF Leads
<1> QED
  BY <1>1, <1>2 DEF OnCourse, Orders, OutputIsSubmittable

LEMMA AdvancesOnCourse ==
  ASSUME TypeOK, OnCourse, NEW stage, NEW next, Advances(stage, next)
  PROVE  OnCourse'
<1>1. at = stage /\ at' = next
  BY DEF Advances, Run
<1>0. stage \in Working \ {"start"} /\ next \in (Working \cup {"output"}) \ {"start"}
  BY FollowsTyped DEF Advances
<1>2. PICK order \in Orders : Leads(order, trace, stage)
  BY <1>0, <1>1 DEF OnCourse
<1>3. \E o \in Orders : Leads(o, trace', next)
  BY <1>2, Advancing DEF Advances
<1>4. next # "done" /\ next # "start"
  BY <1>0 DEF Working, StageNames
<1> QED
  BY <1>1, <1>3, <1>4 DEF OnCourse, OutputIsSubmittable

LEMMA LeavesOnCourse == Leaves => OnCourse'
  BY DEF Leaves, OnCourse, OutputIsSubmittable, Working

LEMMA WaitsOnCourse == OnCourse /\ Waits => OnCourse'
  BY DEF Waits, OnCourse, OutputIsSubmittable

\* What is answered can be submitted.
LEMMA AnswersOnCourse ==
  ASSUME TypeOK, OnCourse, at = "output", NEW status, NEW reason, Answer(status, reason),
         status = "generated" => verdict.kind = "generated",
         ReportAccepted(status, reason)
  PROVE  OnCourse'
<1>1. trace \in Seq([stage : StageNames, status : {"success", "failed"}])
  BY DEF TypeOK
<1>2. /\ Len(trace') = Len(trace) + 1 /\ DOMAIN trace' = 1..Len(trace')
      /\ trace'[Len(trace) + 1].stage = "output"
      /\ \A i \in 1..Len(trace) : trace'[i] = trace[i]
  BY <1>1 DEF Answer, Record
<1>3. at' = "done" /\ result'.status = status /\ result'.reason = reason
  BY DEF Answer
<1>4. ASSUME status = "generated"
      PROVE  Stages(trace') \in Orders
  <2>1. PICK order \in Orders : Leads(order, trace, "output")
    BY <1>4 DEF OnCourse
  <2>2. order \in Seq(StageNames) /\ Len(order) = Len(trace')
    <3>1. order[Len(trace) + 1] = "output" /\ Len(trace) + 1 \in 1..Len(order)
      BY <1>1, <2>1, GeneratedOrder, DeterministicOrder DEF Leads, Orders
    <3>2. Len(order) \in 1..Len(order) /\ order[Len(order)] = "output"
      <4>1. CASE order = GeneratedStageOrder
        BY <4>1, GeneratedOrder
      <4>2. CASE order = DeterministicStageOrder
        BY <4>2, DeterministicOrder
      <4> QED
        BY <4>1, <4>2 DEF Orders
    <3>3. Len(trace) + 1 = Len(order)
      BY <3>1, <3>2, Places
    <3> QED
      BY <1>2, <3>3, OrdersTyped
  <2>3. \A i \in 1..Len(trace') : trace'[i].stage = order[i]
    BY <1>1, <1>2, <2>1 DEF Leads
  <2>4. DOMAIN order = 1..Len(trace') /\ order = [i \in DOMAIN order |-> order[i]]
    BY <2>2
  <2>5. Stages(trace') = order
    BY <1>2, <2>3, <2>4 DEF Stages
  <2> QED
    BY <2>5
<1>5. StageContract(status, trace')
  BY <1>1, <1>2, <1>4 DEF StageContract, Orders
<1> QED
  BY <1>3, <1>5 DEF OnCourse, OutputIsSubmittable, Working, StageNames

\* Which stage may follow which.
LEMMA Successions ==
  /\ Follows("graph_model_loader", "input_clarification_gate")
  /\ Follows("input_clarification_gate", "question_decomposer")
  /\ Follows("question_decomposer", "candidate_retrieval")
  /\ Follows("candidate_retrieval", "candidate_reranker")
  /\ Follows("candidate_reranker", "literal_resolver")
  /\ Follows("literal_resolver", "deterministic_assembler")
  /\ Follows("deterministic_assembler", "dsl_parser")
  /\ Follows("deterministic_assembler", "grounded_understanding")
  /\ Follows("grounded_understanding", "semantic_binder")
  /\ Follows("semantic_binder", "semantic_validator")
  /\ Follows("semantic_validator", "dsl_builder")
  /\ Follows("dsl_builder", "dsl_parser")
  /\ Follows("dsl_parser", "dsl_structural_coverage_gate")
  /\ Follows("dsl_structural_coverage_gate", "cypher_compiler")
  /\ Follows("cypher_compiler", "cypher_self_validation")
  /\ Follows("cypher_self_validation", "output")
<1>1. \A n \in 1..15 : Follows(GeneratedStageOrder[n], GeneratedStageOrder[n + 1])
  <2> TAKE n \in 1..15
  <2>1. n \in 1..(Len(GeneratedStageOrder) - 1) /\ GeneratedStageOrder \in Orders
    BY GeneratedOrder DEF Orders
  <2> QED
    BY <2>1 DEF Follows
<1>2. Follows(DeterministicStageOrder[7], DeterministicStageOrder[8])
  <2>1. 7 \in 1..(Len(DeterministicStageOrder) - 1) /\ DeterministicStageOrder \in Orders
    BY DeterministicOrder DEF Orders
  <2>2. \E n \in 1..(Len(DeterministicStageOrder) - 1) :
          DeterministicStageOrder[n] = DeterministicStageOrder[7] /\ DeterministicStageOrder[n + 1] = DeterministicStageOrder[8]
    BY <2>1
  <2> QED
    BY <2>1, <2>2 DEF Follows
<1> QED
  BY <1>1, <1>2, GeneratedOrder, DeterministicOrder

\* Every step is of one of these kinds.
LEMMA StepKinds ==
  ASSUME IInv, Step
  PROVE  \/ Starts \/ Leaves \/ Waits
         \/ \E stage, next : Advances(stage, next)
         \/ OutputGenerated \/ OutputFailure
<1> DEFINE Goes == \E stage, next : Advances(stage, next)
<1> SUFFICES Starts \/ Leaves \/ Waits \/ Goes \/ OutputGenerated \/ OutputFailure
  OBVIOUS
<1>1. ASSUME NEW stage, NEW next, Follows(stage, next), Run(stage, "success"), at' = next
      PROVE  Goes
  BY <1>1 DEF Advances
<1>2. ASSUME NEW v, NEW broken, Decide(v, broken), v.kind # "generated"
      PROVE  Leaves
  BY <1>2 DEF Decide, Leaves
<1>3. \A reason : Failure(reason).kind # "generated" /\ RepairDecision(reason).kind # "generated"
  BY DEF Failure, Clarification, RepairDecision
<1>4. Clarification.kind # "generated"
  BY DEF Clarification
<1>5. ASSUME NEW stage, RaisesIn(stage) \/ RaisesUnrecorded(stage)
      PROVE  Leaves
  BY <1>2, <1>3, <1>5 DEF RaisesIn, RaisesUnrecorded
<1> HIDE DEF Goes
<1> USE DEF GoOn
<1>c1. CASE Configure
  BY <1>c1, <1>2, <1>3 DEF Configure, Starts
<1>c2. CASE LoadGraphModel
  BY <1>c2, <1>1, <1>5, Successions DEF LoadGraphModel
<1>c3. CASE InputClarificationGate
  BY <1>c3, <1>1, <1>2, <1>4, Successions DEF InputClarificationGate
<1>c4. CASE DecomposeQuestion
  <2>1. CASE DecomposerFails
    BY <2>1, <1>2, <1>3 DEF DecomposerFails
  <2>2. CASE DecomposerAsksAgain
    BY <2>2 DEF DecomposerAsksAgain, Waits
  <2> QED
    BY <1>c4, <2>1, <2>2, <1>1, <1>2, <1>4, <1>5, Successions DEF DecomposeQuestion
<1>c5. CASE RetrieveCandidates
  BY <1>c5, <1>1, <1>5, Successions DEF RetrieveCandidates
<1>c6. CASE RerankCandidates
  BY <1>c6, <1>1, <1>5, Successions DEF RerankCandidates
<1>c7. CASE ResolveLiterals
  BY <1>c7, <1>1, <1>2, <1>3, <1>4, <1>5, Successions DEF ResolveLiterals, Leaves
<1>c8. CASE Assemble
  BY <1>c8, <1>1, <1>5, Successions DEF Assemble
<1>c9. CASE GroundedUnderstanding
  BY <1>c9, <1>1, <1>2, <1>3, <1>4, <1>5, Successions DEF GroundedUnderstanding
<1>c10. CASE BindPlan
  BY <1>c10, <1>1, <1>2, <1>3, <1>5, Successions DEF BindPlan
<1>c11. CASE ValidatePlan
  BY <1>c11, <1>1, <1>2, <1>3, <1>5, Successions DEF ValidatePlan, Leaves
<1>c12. CASE DecideRepair
  BY <1>c12, <1>2, <1>3, <1>5 DEF DecideRepair
<1>c13. CASE BuildDsl
  BY <1>c13, <1>1, <1>2, <1>3, <1>5, Successions DEF BuildDsl
<1>c14. CASE ParseDsl
  BY <1>c14, <1>1, <1>2, <1>3, <1>5, Successions DEF ParseDsl
<1>c15. CASE CheckStructuralCoverage
  BY <1>c15, <1>1, <1>2, <1>3, <1>5, Successions DEF CheckStructuralCoverage
<1>c16. CASE CompileCypher
  BY <1>c16, <1>1, <1>2, <1>3, <1>5, Successions DEF CompileCypher
<1>c17. CASE SelfValidate
  <2>1. CASE Run("cypher_self_validation", "success") /\ Decide(Generated, FALSE)
    BY <2>1, <1>1, Successions DEF Decide
  <2> QED
    BY <1>c17, <2>1, <1>2, <1>3, <1>5 DEF SelfValidate
<1>c18. CASE OutputRejected
  BY <1>c18, <1>3 DEF OutputRejected, Leaves
<1> QED
  BY <1>c1, <1>c2, <1>c3, <1>c4, <1>c5, <1>c6, <1>c7, <1>c8, <1>c9, <1>c10, <1>c11, <1>c12, <1>c13,
     <1>c14, <1>c15, <1>c16, <1>c17, <1>c18 DEF Step

LEMMA StepOnCourse == IInv /\ OnCourse /\ Step => OnCourse'
<1> SUFFICES ASSUME IInv, OnCourse, Step PROVE OnCourse'
  OBVIOUS
<1>0. TypeOK
  BY DEF IInv
<1>1. CASE OutputGenerated
  <2>1. verdict.kind \in {"generated", "clarification_required"} /\ at = "output"
    BY <1>1 DEF OutputGenerated, IInv, TypeOK, DecidedAtOutput
  <2>2. ReportAccepted(verdict.kind, "none")
    BY <2>1 DEF ReportAccepted
  <2> QED
    BY <1>0, <1>1, <2>1, <2>2, AnswersOnCourse DEF OutputGenerated
<1>2. CASE OutputFailure
  <2> DEFINE status == StatusForFailureReason(verdict.reason)
  <2>1. status \in Failures
    BY DEF StatusForFailureReason, Failures
  <2>2. ReportAccepted(status, verdict.reason) /\ status # "generated"
    BY <1>2, <2>1 DEF OutputFailure, StatusForFailureReason, ReportAccepted, Reasons, Failures
  <2> HIDE DEF status
  <2>3. Answer(status, verdict.reason) /\ at = "output"
    BY <1>2 DEF OutputFailure, status
  <2> QED
    BY <1>0, <2>2, <2>3, AnswersOnCourse
<1> QED
  BY <1>0, <1>1, <1>2, StepKinds, StartsOnCourse, AdvancesOnCourse, LeavesOnCourse, WaitsOnCourse

\* Whatever way a run ends, its output can be submitted: its trace has the order of the
\* stages that the submission checks, and its report a reason of its status.
THEOREM OutputsAreSubmittable == Spec => []OutputIsSubmittable
<1>1. Init => OnCourse
  BY DEF Init, OnCourse, OutputIsSubmittable, Working
<1>2. IInv /\ OnCourse /\ [Next]_vars => OnCourse'
  <2>1. OnCourse /\ UNCHANGED vars => OnCourse'
    BY DEF vars, OnCourse, OutputIsSubmittable
  <2> QED
    BY <2>1, StepOnCourse DEF Next, Done
<1>3. OnCourse => OutputIsSubmittable
  BY DEF OnCourse
<1> QED
  BY <1>1, <1>2, <1>3, IInvAlways, PTL DEF Spec
=============================================================================
