-------------------------- MODULE GenerationPipeline --------------------------
(***************************************************************************)
(* One run of the cypher-generator-agent: run_pipeline leads a question    *)
(* through its stages, records every stage in a trace and ends with one    *)
(* output.  A run shares no state with other runs (each has its own thread *)
(* and trace), so one run is modelled.                                     *)
(*                                                                         *)
(* What the language stages compute is a choice among the answers they can *)
(* give; what is kept is which stage runs next, what is recorded, which    *)
(* exceptions are caught where, and how a failure is classified.           *)
(***************************************************************************)
EXTENDS Naturals, Sequences

CONSTANTS
  SchemaRetries   \* CYPHER_GENERATOR_AGENT_LLM_MAX_SCHEMA_RETRIES

ASSUME PipelineAssumption == SchemaRetries \in Nat

VARIABLES
  at,       \* the stage to run next
  attempt,  \* the attempt of the decomposer at an answer that fits its schema
  terms,    \* what of the question is not a plain match of the model
  assumed,  \* the kinds of assumption in the plan
  trace,    \* GraphTraceBuilder._stages
  verdict,  \* what the stages decided, before the output is built
  result,   \* the GenerationOutput
  fault     \* history: did something break that is not about the question?

vars == <<at, attempt, terms, assumed, trace, verdict, result, fault>>

-----------------------------------------------------------------------------
(* Stages, reasons and statuses.                                           *)

Understanding == <<"graph_model_loader", "input_clarification_gate", "question_decomposer",
                   "candidate_retrieval", "candidate_reranker", "literal_resolver",
                   "deterministic_assembler">>
Fallback == <<"grounded_understanding", "semantic_binder", "semantic_validator", "dsl_builder">>
Compilation == <<"dsl_parser", "dsl_structural_coverage_gate", "cypher_compiler",
                 "cypher_self_validation">>

GeneratedStageOrder == Understanding \o Fallback \o Compilation \o <<"output">>
DeterministicStageOrder == Understanding \o Compilation \o <<"output">>

StageNames ==
  {"graph_model_loader", "input_clarification_gate", "question_decomposer",
   "candidate_retrieval", "candidate_reranker", "literal_resolver",
   "deterministic_assembler", "grounded_understanding", "semantic_binder",
   "semantic_validator", "repair_controller", "dsl_builder", "dsl_parser",
   "dsl_structural_coverage_gate", "cypher_compiler", "cypher_self_validation", "output"}

ValidatorErrors ==
  {"unsupported_query_shape", "binding_plan_incomplete", "edge_endpoint_mismatch",
   "property_owner_mismatch", "metric_dimension_invalid", "metric_group_by_invalid",
   "invalid_aggregate_property_type"}

SelfValidationErrors ==
  {"cypher_syntax_invalid", "cypher_readonly_violation", "cypher_schema_reference_invalid",
   "compiler_shape_mismatch", "target_dialect_static_error"}

\* The reasons of GenerationFailureReason that the pipeline can give.
GenerationReasons ==
  (ValidatorErrors \ {"invalid_aggregate_property_type"}) \cup SelfValidationErrors \cup
  {"semantic_match_rejected", "coverage_failure", "literal_unresolved",
   "question_decomposer_schema_invalid", "grounded_understanding_schema_invalid",
   "single_shot_fallback_failed"}

ServiceReasons ==
  {"knowledge_context_unavailable", "semantic_contract_unaligned",
   "model_invocation_failed", "testing_agent_submission_failed"}

Reasons == GenerationReasons \cup ServiceReasons

\* A reason that is in neither list counts as a failure of the service.
StatusForFailureReason(reason) ==
  CASE reason = "unsupported_query_shape" -> "unsupported_query_shape"
    [] reason \in GenerationReasons \ {"unsupported_query_shape"} -> "generation_failed"
    [] OTHER -> "service_failed"

Failures == {"unsupported_query_shape", "generation_failed", "service_failed"}
Statuses == Failures \cup {"generated", "clarification_required"}

NoVerdict == [kind |-> "none", reason |-> "none"]
Generated == [kind |-> "generated", reason |-> "none"]
Clarification == [kind |-> "clarification_required", reason |-> "none"]
Failure(reason) == [kind |-> "failure", reason |-> reason]

NoResult == [status |-> "none", reason |-> "none", noticed |-> {}]

\* The kinds of assumption that are rendered as notices to the user.
Visible == {"literal_binding", "modality_warning"}

Init ==
  /\ at = "start"
  /\ attempt = 1
  /\ terms = {}
  /\ assumed = {}
  /\ trace = <<>>
  /\ verdict = NoVerdict
  /\ result = NoResult
  /\ fault = FALSE

-----------------------------------------------------------------------------
(* One stage: it is recorded, and the run goes on or has its verdict.      *)

Record(stage, status) == [stage |-> stage, status |-> status]
Run(stage, status) == at = stage /\ trace' = Append(trace, Record(stage, status))

GoOn(next) ==
  /\ at' = next
  /\ UNCHANGED <<attempt, terms, assumed, verdict, result, fault>>

Decide(v, broken) ==
  /\ at' = "output"
  /\ verdict' = v
  /\ fault' = (fault \/ broken)
  /\ UNCHANGED <<attempt, terms, assumed, result>>

\* The reason run_pipeline gives an exception it did not expect: the last
\* recorded stage tells whether it was the semantic model that failed.
UnexpectedReason(stages) ==
  IF stages # <<>> /\ stages[Len(stages)].stage = "graph_model_loader"
  THEN "knowledge_context_unavailable" ELSE "semantic_contract_unaligned"

\* The stage raises; its failure is recorded before run_pipeline catches it.
RaisesIn(stage) ==
  /\ Run(stage, "failed")
  /\ Decide(Failure(UnexpectedReason(trace')), TRUE)

\* The two gates are not wrapped in _run_stage: an exception leaves no stage.
RaisesUnrecorded(stage) ==
  /\ at = stage
  /\ UNCHANGED trace
  /\ Decide(Failure(UnexpectedReason(trace)), TRUE)

\* The LLM client is built from the settings before the first stage.
Configure ==
  /\ at = "start"
  /\ UNCHANGED trace
  /\ \/ GoOn("graph_model_loader")
     \/ Decide(Failure(UnexpectedReason(trace)), TRUE)

LoadGraphModel ==
  \/ Run("graph_model_loader", "success") /\ GoOn("input_clarification_gate")
  \/ RaisesIn("graph_model_loader")

InputClarificationGate ==
  /\ Run("input_clarification_gate", "success")
  /\ \/ GoOn("question_decomposer")
     \/ Decide(Clarification, FALSE)

\* What of the decomposition reaches the coverage report: the substantive
\* terms, all of them covered unless the built-in decomposer knew none.
CoverageOf(placed) == placed \cap {"uncovered"}

\* A variant: the decomposer asks the model once too often.
DecomposerAsksOnceMore ==
  /\ at = "question_decomposer"
  /\ attempt <= SchemaRetries + 1
  /\ attempt' = attempt + 1
  /\ UNCHANGED <<at, terms, assumed, trace, verdict, result, fault>>

\* A variant: the decomposer asks the model again for as long as it answers badly.
DecomposerAsksForEver ==
  /\ at = "question_decomposer"
  /\ attempt' = IF attempt <= SchemaRetries THEN attempt + 1 ELSE 1
  /\ UNCHANGED <<at, terms, assumed, trace, verdict, result, fault>>

\* An answer that violates the schema is asked for again.
DecomposerAsksAgain ==
  /\ at = "question_decomposer"
  /\ attempt <= SchemaRetries
  /\ attempt' = attempt + 1
  /\ UNCHANGED <<at, terms, assumed, trace, verdict, result, fault>>

\* A variant: a model that cannot be reached counts as a bad answer.
DecomposerFailsAsAnswer ==
  /\ Run("question_decomposer", "success")
  /\ \/ Decide(Failure("question_decomposer_schema_invalid"), TRUE)
     \/ /\ attempt > SchemaRetries
        /\ Decide(Failure("question_decomposer_schema_invalid"), FALSE)

\* The model cannot be reached, or has answered badly once too often.
DecomposerFails ==
  /\ Run("question_decomposer", "success")
  /\ \/ Decide(Failure("model_invocation_failed"), TRUE)
     \/ /\ attempt > SchemaRetries
        /\ Decide(Failure("question_decomposer_schema_invalid"), FALSE)

DecomposeQuestion ==
  \/ /\ Run("question_decomposer", "success")
     /\ \/ Decide(Clarification, FALSE)
        \/ /\ terms' \in SUBSET {"uncovered", "modality"}
           /\ at' = "candidate_retrieval"
           /\ UNCHANGED <<attempt, assumed, verdict, result, fault>>
  \/ DecomposerFails
  \/ DecomposerAsksAgain
  \/ RaisesIn("question_decomposer")

RetrieveCandidates ==
  \/ Run("candidate_retrieval", "success") /\ GoOn("candidate_reranker")
  \/ RaisesIn("candidate_retrieval")

RerankCandidates ==
  \/ Run("candidate_reranker", "success") /\ GoOn("literal_resolver")
  \/ RaisesIn("candidate_reranker")

\* A literal may be resolved to a text that is only near it.  An unresolved one
\* goes to the repair controller, which asks the user; a bare object as output
\* is asked about too.
ResolveLiterals ==
  \/ /\ Run("literal_resolver", "success")
     /\ \/ /\ at' = "deterministic_assembler"
           /\ terms' \in {terms, terms \cup {"fuzzy"}}
           /\ UNCHANGED <<attempt, assumed, verdict, result, fault>>
        \/ Decide(Clarification, FALSE)
        \/ at' = "repair_controller" /\ verdict' = Failure("literal_unresolved")
           /\ UNCHANGED <<attempt, terms, assumed, result, fault>>
  \/ RaisesIn("literal_resolver")

\* The one shape that fits is assembled without a model, or the fallback runs.
Assemble ==
  \/ /\ Run("deterministic_assembler", "success")
     /\ GoOn("dsl_parser") \/ GoOn("grounded_understanding")
  \/ RaisesIn("deterministic_assembler")

\* A single question to the model, restricted to the candidates; the model may
\* state assumptions of any kind.
GroundedUnderstanding ==
  \/ /\ Run("grounded_understanding", "success")
     /\ \/ /\ at' = "semantic_binder"
           /\ assumed' \in SUBSET Visible
           /\ UNCHANGED <<attempt, terms, verdict, result, fault>>
        \/ Decide(Clarification, FALSE)
        \/ Decide(Failure("model_invocation_failed"), TRUE)
        \/ \E reason \in {"unsupported_query_shape", "single_shot_fallback_failed",
                          "semantic_match_rejected", "grounded_understanding_schema_invalid"} :
             Decide(Failure(reason), FALSE)
  \/ RaisesIn("grounded_understanding")

\* A literal that was resolved to a near text becomes an assumption of the plan.
BindPlan ==
  \/ /\ Run("semantic_binder", "success")
     /\ at' = "semantic_validator"
     /\ assumed' = assumed \cup (IF "fuzzy" \in terms THEN {"literal_fuzzy_match"} ELSE {})
     /\ UNCHANGED <<attempt, terms, verdict, result, fault>>
  \/ Run("semantic_binder", "failed") /\ Decide(Failure("semantic_match_rejected"), FALSE)
  \/ RaisesIn("semantic_binder")

\* Terms that the coverage report calls unresolved are the first error, the
\* modality terms of the report become assumptions.  A stated assumption that
\* cannot be rendered as a notice raises outside every stage.
ValidatePlan ==
  \/ /\ Run("semantic_validator", "success")
     /\ \/ /\ CoverageOf(terms) \ {"modality"} = {}
           /\ at' = "dsl_builder"
           /\ assumed' = assumed \cup
                (IF "modality" \in CoverageOf(terms) THEN {"modality_warning"} ELSE {})
           /\ UNCHANGED <<attempt, terms, verdict, result, fault>>
        \/ /\ CoverageOf(terms) \ {"modality"} = {}
           /\ assumed \cap Visible # {}
           /\ Decide(Failure(UnexpectedReason(trace')), TRUE)
        \/ /\ at' = "repair_controller"
           /\ \E code \in ValidatorErrors \cup {"coverage_failure"} :
                /\ (code = "coverage_failure") <=> (CoverageOf(terms) \ {"modality"} # {})
                /\ verdict' = Failure(code)
           /\ UNCHANGED <<attempt, terms, assumed, result, fault>>
  \/ RaisesIn("semantic_validator")

\* RepairController.decide on the first issue.  No decision sends the run
\* back to an earlier stage.
RepairDecision(issue) ==
  IF issue \in {"coverage_failure", "literal_unresolved"} THEN Clarification ELSE Failure(issue)

DecideRepair ==
  \/ Run("repair_controller", "success") /\ Decide(RepairDecision(verdict.reason), FALSE)
  \/ RaisesIn("repair_controller")

BuildDsl ==
  \/ Run("dsl_builder", "success") /\ GoOn("dsl_parser")
  \/ Run("dsl_builder", "failed") /\ Decide(Failure("compiler_shape_mismatch"), FALSE)
  \/ RaisesIn("dsl_builder")

\* From here on a ValueError of any stage is a compiler_shape_mismatch.
ParseDsl ==
  \/ Run("dsl_parser", "success") /\ GoOn("dsl_structural_coverage_gate")
  \/ Run("dsl_parser", "failed") /\ Decide(Failure("compiler_shape_mismatch"), FALSE)
  \/ RaisesIn("dsl_parser")

\* A variant: the result of the gate is recorded and not looked at.
CheckStructuralCoverageOnly ==
  \E status \in {"success", "failed"} :
    Run("dsl_structural_coverage_gate", status) /\ GoOn("cypher_compiler")

CheckStructuralCoverage ==
  \/ Run("dsl_structural_coverage_gate", "success") /\ GoOn("cypher_compiler")
  \/ Run("dsl_structural_coverage_gate", "failed") /\ Decide(Failure("coverage_failure"), FALSE)
  \/ /\ at = "dsl_structural_coverage_gate" /\ UNCHANGED trace
     /\ Decide(Failure("compiler_shape_mismatch"), FALSE)
  \/ RaisesUnrecorded("dsl_structural_coverage_gate")

CompileCypher ==
  \/ Run("cypher_compiler", "success") /\ GoOn("cypher_self_validation")
  \/ Run("cypher_compiler", "failed") /\ Decide(Failure("compiler_shape_mismatch"), FALSE)
  \/ RaisesIn("cypher_compiler")

SelfValidate ==
  \/ Run("cypher_self_validation", "success") /\ Decide(Generated, FALSE)
  \/ /\ Run("cypher_self_validation", "failed")
     /\ \E reason \in SelfValidationErrors : Decide(Failure(reason), FALSE)
  \/ /\ at = "cypher_self_validation" /\ UNCHANGED trace
     /\ Decide(Failure("compiler_shape_mismatch"), FALSE)
  \/ RaisesUnrecorded("cypher_self_validation")

-----------------------------------------------------------------------------
(* The output: its stage is recorded first, then the trace is validated.   *)

\* A plan that was assembled without a model renders the modality terms of the
\* coverage report, any other its assumptions of a visible kind.
Noticed ==
  (assumed \cap Visible) \cup
    (IF "modality" \in CoverageOf(terms) THEN {"modality_warning"} ELSE {})

Answer(status, reason) ==
  /\ trace' = Append(trace, Record("output", IF status = "generated" THEN "success" ELSE "failed"))
  /\ result' = [status |-> status, reason |-> reason,
                noticed |-> IF status = "generated" THEN Noticed ELSE {}]
  /\ at' = "done"
  /\ UNCHANGED <<attempt, terms, assumed, verdict, fault>>

OutputGenerated ==
  /\ at = "output"
  /\ verdict.kind # "failure"
  /\ Answer(verdict.kind, "none")

\* A variant: the output stage is recorded when a run succeeds.
OutputFailureUnrecorded ==
  /\ at = "output"
  /\ verdict.kind = "failure"
  /\ verdict.reason \in Reasons
  /\ result' = [status |-> StatusForFailureReason(verdict.reason), reason |-> verdict.reason,
                noticed |-> {}]
  /\ at' = "done"
  /\ UNCHANGED <<attempt, terms, assumed, trace, verdict, fault>>

OutputFailure ==
  /\ at = "output"
  /\ verdict.kind = "failure"
  /\ verdict.reason \in Reasons
  /\ Answer(StatusForFailureReason(verdict.reason), verdict.reason)

\* A reason that is in neither list: finalize_failure raises after the output
\* stage is recorded, and run_pipeline answers a second time.
OutputRejected ==
  /\ at = "output"
  /\ verdict.kind = "failure"
  /\ verdict.reason \notin Reasons
  /\ trace' = Append(trace, Record("output", "failed"))
  /\ verdict' = Failure(UnexpectedReason(trace'))
  /\ UNCHANGED <<at, attempt, terms, assumed, result, fault>>

\* The run is over.
Done == at = "done" /\ UNCHANGED vars

-----------------------------------------------------------------------------
Step ==
  \/ Configure \/ LoadGraphModel \/ InputClarificationGate \/ DecomposeQuestion
  \/ RetrieveCandidates \/ RerankCandidates \/ ResolveLiterals \/ Assemble
  \/ GroundedUnderstanding \/ BindPlan \/ ValidatePlan \/ DecideRepair \/ BuildDsl
  \/ ParseDsl \/ CheckStructuralCoverage \/ CompileCypher \/ SelfValidate
  \/ OutputGenerated \/ OutputFailure \/ OutputRejected

Next == Step \/ Done

Spec == Init /\ [][Next]_vars

\* A run is one function call: it goes on as long as it can.
FairSpec == Spec /\ WF_vars(Step)

-----------------------------------------------------------------------------
(* What the submission to the testing-agent demands.                       *)

Stages(tr) == [i \in DOMAIN tr |-> tr[i].stage]

StageContract(status, tr) ==
  IF status = "generated"
  THEN Stages(tr) \in {GeneratedStageOrder, DeterministicStageOrder}
  ELSE tr # <<>> /\ tr[Len(tr)].stage = "output"

ReportAccepted(status, reason) ==
  CASE status = "generation_failed" -> reason \in GenerationReasons
    [] status = "unsupported_query_shape" -> reason = "unsupported_query_shape"
    [] status = "service_failed" -> reason \in ServiceReasons
    [] OTHER -> reason = "none"

-----------------------------------------------------------------------------
(* Properties.                                                             *)

\* Every part of a run has its type.
TypeOK ==
  /\ at \in StageNames \cup {"start", "done"}
  /\ attempt \in 1..(SchemaRetries + 1)
  /\ terms \subseteq {"uncovered", "modality", "fuzzy"}
  /\ assumed \subseteq Visible \cup {"literal_fuzzy_match"}
  /\ trace \in Seq([stage : StageNames, status : {"success", "failed"}])
  /\ verdict \in [kind : {"none", "generated", "clarification_required", "failure"},
                  reason : Reasons \cup ValidatorErrors \cup {"none"}]
  /\ result \in [status : Statuses \cup {"none"}, reason : Reasons \cup {"none"},
                 noticed : SUBSET Visible]
  /\ fault \in BOOLEAN

\* Whatever way a run ends, its output can be submitted: the trace has the
\* stage order the submission checks and the report its reason
\* (_validated_graph_trace, CgaGenerationNonSuccessReport).  A run that
\* broke this rule would be lost in a background task.
OutputIsSubmittable ==
  at = "done" =>
    StageContract(result.status, trace) /\ ReportAccepted(result.status, result.reason)

\* A query is generated only when no stage of its run failed.
GeneratedPassedEveryStage ==
  result.status = "generated" => \A i \in DOMAIN trace : trace[i].status = "success"

\* A run in which something broke never counts as a failed generation: the
\* testing-agent would turn it into an attempt with a ticket.
FaultIsServiceFailure ==
  at = "done" /\ fault => result.status = "service_failed"

\* Every run ends with an output, whatever the model answers or raises.
EveryRunAnswers == <>(at = "done")

=============================================================================
