---------------------------- MODULE LanguageStages ----------------------------
(***************************************************************************)
(* The stages of _run_pipeline_steps (core/pipeline.py) from the retrieved *)
(* candidates to the Cypher, over the data they really pass on: literals,  *)
(* the model's answer, binding plan, query, Cypher.  GenerationPipeline    *)
(* has the same run from its question to its delivery, with the stages'    *)
(* outcomes left open; here the outcomes are computed.                     *)
(*                                                                         *)
(* Each step is one stage.  What stops a run is its outcome: repair is a   *)
(* decision of the repair controller, clarification a question back, crash *)
(* an exception nobody catches, and the rest the reason of a failure.  A   *)
(* query that was assembled without the model goes straight to the parser; *)
(* its plan stays Nothing.                                                 *)
(***************************************************************************)
EXTENDS DeterministicAssembly

CONSTANT Cases  \* Seq([question, candidates, answers]): what may be asked and answered

\* The candidates are of the model; an answer has its fields, of which the lists are
\* sequences (RetrievalResult, GroundedUnderstanding).
IsSequence(s) == s \in Seq(ToSet(s))
ASSUME CasesAssumption ==
  \A c \in DOMAIN Cases :
    /\ \A k \in Cases[c].candidates : k[1] = "metric" => k[2] \in DOMAIN Metrics
    /\ \A a \in Cases[c].answers :
         /\ {"shape", "edges", "literals", "filters", "metrics", "group", "measures"} \subseteq DOMAIN a
         /\ \A field \in {"edges", "literals", "filters", "metrics", "group", "measures"} : IsSequence(a[field])

VARIABLES
  case,     \* the index of the case
  stage,    \* the next stage
  results,  \* the literal results
  answer,   \* the hydrated answer
  plan,     \* the binding plan
  query,    \* the query
  cypher,   \* the Cypher
  outcome   \* why the run stopped

vars == <<case, stage, results, answer, plan, query, cypher, outcome>>

Stages == {"literals", "output", "assembling", "grounding", "binding", "validation", "building", "parsing",
           "coverage", "compiling", "self_validation", "done"}
Outcomes == {"none", "repair", "clarification", "crash", "semantic_match_rejected",
             "grounded_understanding_schema_invalid", "compiler_shape_mismatch", "coverage_failure",
             "target_dialect_static_error", "cypher_schema_reference_invalid", "generated"}

question == Cases[case].question
candidates == Cases[case].candidates

Init ==
  /\ case \in DOMAIN Cases /\ stage = "literals" /\ results = << >>
  /\ answer = Nothing /\ plan = Nothing /\ query = Nothing /\ cypher = Nothing /\ outcome = "none"

\* A stage that ends with o goes on to next or stops the run.
Goes(o, next) ==
  /\ stage' = IF o = "ok" THEN next ELSE "done"
  /\ outcome' = IF o = "ok" THEN "none" ELSE o

ResolveLiterals ==
  /\ stage = "literals"
  /\ results' = MapSeq(Requests(question, candidates), LAMBDA r : ResolveLiteral(r.raw, r.prop, r.hint))
  /\ Goes(IF \E r \in ToSet(results') : r.match = "unresolved" THEN "repair" ELSE "ok", "output")
  /\ UNCHANGED <<case, answer, plan, query, cypher>>

AskOutput ==
  /\ stage = "output"
  /\ Goes(IF OutputUnclear(question, candidates) THEN "clarification" ELSE "ok", "assembling")
  /\ UNCHANGED <<case, results, answer, plan, query, cypher>>

\* The deterministic assembler: what it cannot assemble is left to the model.
Assemble ==
  /\ stage = "assembling"
  /\ query' = Assembled(question, candidates, results)
  /\ Goes("ok", IF query' = Nothing THEN "grounding" ELSE "parsing")
  /\ UNCHANGED <<case, results, answer, plan, cypher>>

\* The model's answer, the candidate boundary, to_binder_payload and the projection that
\* the question asks for.
Ground ==
  /\ stage = "grounding"
  /\ \E a \in Cases[case].answers :
       LET found == GroundingOutcome(a, candidates, results)
       IN /\ Goes(found, "binding")
          /\ answer' = IF found = "ok" THEN Enriched(Hydrated(a, results), question) ELSE Nothing
  /\ UNCHANGED <<case, results, plan, query, cypher>>

Bind ==
  /\ stage = "binding"
  /\ LET found == BindingOutcome(answer, candidates)
     IN /\ Goes(IF found = "reject" THEN "semantic_match_rejected" ELSE found, "validation")
        /\ plan' = IF found = "ok" THEN PlanOf(answer, candidates) ELSE Nothing
  /\ answer' = Nothing
  /\ UNCHANGED <<case, results, query, cypher>>

Validate ==
  /\ stage = "validation"
  /\ Goes(IF PlanIsValid(plan) THEN "ok" ELSE "repair", "building")
  /\ UNCHANGED <<case, results, answer, plan, query, cypher>>

Build ==
  /\ stage = "building"
  /\ Goes(IF Builds(plan) THEN "ok" ELSE "compiler_shape_mismatch", "parsing")
  /\ query' = IF Builds(plan) THEN Built(plan) ELSE Nothing
  /\ UNCHANGED <<case, results, answer, plan, cypher>>

Parse ==
  /\ stage = "parsing"
  /\ Goes(IF QueryParses(query) THEN "ok" ELSE "compiler_shape_mismatch", "coverage")
  /\ UNCHANGED <<case, results, answer, plan, query, cypher>>

CheckCoverage ==
  /\ stage = "coverage"
  /\ Goes(IF StructureCovered(Requirements(question), query) THEN "ok" ELSE "coverage_failure", "compiling")
  /\ UNCHANGED <<case, results, answer, plan, query, cypher>>

Compile ==
  /\ stage = "compiling"
  /\ LET found == CompilationOutcome(query)
     IN /\ Goes(IF found = "refused" THEN "compiler_shape_mismatch" ELSE found, "self_validation")
        /\ cypher' = IF found = "ok" THEN CypherOf(query) ELSE Nothing
  /\ UNCHANGED <<case, results, answer, plan, query>>

SelfValidate ==
  /\ stage = "self_validation"
  /\ stage' = "done"
  /\ outcome' = IF SelfValidation(cypher, query) = "ok" THEN "generated" ELSE SelfValidation(cypher, query)
  /\ UNCHANGED <<case, results, answer, plan, query, cypher>>

Next == \/ ResolveLiterals \/ AskOutput \/ Assemble \/ Ground \/ Bind \/ Validate
        \/ Build \/ Parse \/ CheckCoverage \/ Compile \/ SelfValidate

Spec == Init /\ [][Next]_vars

-----------------------------------------------------------------------------
Generated == outcome = "generated"

\* Types: the stage, the outcome, and what each stage leaves for the next.
TypeOK ==
  /\ case \in DOMAIN Cases /\ stage \in Stages /\ outcome \in Outcomes
  /\ stage = "binding" => answer # Nothing
  /\ stage \in {"validation", "building"} => plan # Nothing
  /\ stage \in {"parsing", "coverage", "compiling"} => query # Nothing
  /\ Generated => cypher # Nothing

\* No condition of the plan is lost: whatever the shape, each of its filters stands in
\* the WHERE of the Cypher, on a variable of the vertex it is about, with its operator and
\* its literal.  The builder, the parser and the compiler each move filters to other
\* places (into an operation, a metric's alias, a role).  A named path takes them as
\* parameters; the second step of a two-step aggregate has none.
ConditionsKept ==
  Generated /\ plan # Nothing /\ plan.shape \notin {"two_step_aggregate", "named_path_pattern"} =>
    \A f \in ToSet(plan.filters) : \E w \in ToSet(cypher.where) :
      /\ cypher.labels[w.role] = f.prop[1] /\ w.name = f.prop[2]
      /\ w.op = f.op /\ w.literal = f.literal

\* The Cypher orders, limits, groups and reaches as far as the question asks: the gate
\* reads only the query, of which the compiler may leave an ordering or a limit out.
StructureAnswered ==
  LET asked == Requirements(question)
      reach == Cardinality(UNION {{<<i, n>> : n \in 1..cypher.hops[i].max} : i \in DOMAIN cypher.hops})
  IN Generated =>
       /\ asked.order => cypher.order # << >>
       /\ asked.direction # "any" => asked.direction \in {o.direction : o \in ToSet(cypher.order)}
       /\ asked.limited => cypher.limit # 0 /\ asked.limit \in {0, cypher.limit}
       /\ query.shape # "named_path_pattern" => reach >= asked.hops

\* The columns of the Cypher are the plan's: as many, and each property the plan shows of a
\* vertex is read from a variable of that vertex.
ColumnsKept ==
  Generated /\ plan # Nothing /\ plan.shape # "named_path_pattern" =>
    /\ plan.projection # << >> => DOMAIN cypher.returns = DOMAIN plan.projection
    /\ plan.shape \notin AggregateShapes =>
         \A p \in {p \in ToSet(plan.projection) : p.kind = "property"} :
           \E r \in ToSet(cypher.returns) :
             r.expr.form = "property" /\ cypher.labels[r.expr.role] = p.prop[1] /\ r.expr.name = <<p.prop[2]>>

\* Every column has a name of its own.
ColumnsNamed ==
  Generated /\ query.shape # "named_path_pattern" =>
    Cardinality({r.alias : r \in ToSet(cypher.returns)}) = Len(cypher.returns)

\* The parser never refuses the order of the operations that the builder writes: what it
\* still refuses is what they say.
SequencesFit == stage = "parsing" => SequenceAllowed(query)

\* What the validator and the parser accept matches the schema once it is compiled: the
\* self-validation finds fault only with the ends of a path of many hops, and with an
\* operator that does not suit its property, which nobody looks at before.
SchemaFoundEarlier ==
  outcome = "cypher_schema_reference_invalid" =>
    \/ query.shape = "variable_path_traversal" /\ ~MatchesSchema(cypher)
    \/ \E w \in ToSet(cypher.where) : w.op \notin {"eq", "neq", "in"}

\* No value is a guess: of the literals that were looked up, an id's value is what the
\* question says, and an enumeration's is one of its values; or else what the question
\* says, read as a time or a number, or known to the value index.
ValuesKnown ==
  \A r \in ToSet(results) :
    LET values == Values(<<r.owner, r.prop>>)
    IN r.match # "unresolved" =>
         /\ IsIdProperty(<<r.owner, r.prop>>) => r.value = r.raw
         /\ values # {} => \/ r.match \in {"exact", "value_synonym"} /\ r.value \in values
                           \/ r.match \in {"typed_parse", "relative_time", "value_index_exact"} /\ r.value = r.raw

\* What the assembler writes without a model is a query that the parser accepts and the
\* compiler can compile: the edges of its path fit its vertices whichever way the question
\* names them, and each of its columns and conditions has a role on the path.
AssembledFits ==
  stage = "parsing" /\ plan = Nothing => QueryParses(query) /\ RolesFit(query) /\ SourcesKnown(query)

AssembledLookup == Generated /\ plan = Nothing /\ query.shape \notin AggregateShapes
Reads(v, name) ==
  \E r \in ToSet(cypher.returns) : r.expr.form = "property" /\ cypher.labels[r.expr.role] = v /\ r.expr.name = <<name>>

\* An assembled lookup of a question with conditions loses none of its values: each that
\* was resolved stands in the WHERE, on the vertex that has it.  The coverage gate does
\* not look at conditions.
AssembledConditions ==
  AssembledLookup /\ Texts(question, "filter") # {} =>
    \A r \in ToSet(results) : \E w \in ToSet(cypher.where) :
      cypher.labels[w.role] = r.owner /\ w.name = r.prop /\ w.literal = r

\* An assembled path does not contradict its words: between two vertices that the question
\* names, if the words from the one to the other mean edges that can join the two, one of
\* those is taken, even when another is the only candidate.
DirectionKept ==
  Generated /\ plan = Nothing =>
    \A h \in ToSet(cypher.hops) :
      LET from == cypher.labels[h.from]
          to == cypher.labels[h.to]
          path == PathWords(question)
          meant == {e \in DirectionEdges(Segment(path, from, to)) : EdgeConnects(e, from, to, "either")}
      IN 0 \notin {PlaceOnPath(from, path), PlaceOnPath(to, path)} /\ meant # {} => h.edge \in meant

\* The words that ask for a property and no more.
Fields(vertices) ==
  {w \in ProjectionWords(question) :
     /\ w.text \notin AttachmentAnchors(question) /\ NamedBy(w.text, Vertices) = {}
     /\ WholeVertex(w, question, ToSet(vertices)) = {} /\ ~EndAnchor(w, vertices)}

\* What an assembled lookup is asked of a vertex it reads is shown of that vertex: the gate
\* compares only words, of which a column of another vertex may answer the same.
PropertyShown ==
  AssembledLookup =>
    \A w \in Fields(Candidates(candidates)), v \in Range(cypher.labels) :
      AttachedOwners(w.attached, Candidates(candidates)) = <<v>> =>
        \A p \in PropertyIn(w.text, <<v>>, FALSE) : Reads(v, p[2])

\* Along a path nobody guesses whose property is meant: a word that is said of no vertex and
\* fits properties of several equally well is shown of several, or left to the model.
OwnerNotGuessed ==
  LET score(w, v) == Max({0} \cup {Score(w.text, p) : p \in {p \in DOMAIN PropertyWords : p[1] = v}})
      known == VerticesAmong(candidates)
      best(w) == {v \in known : score(w, v) > 0 /\ \A o \in known : score(w, o) <= score(w, v)}
      shown(w) == {v \in best(w) : \E p \in PropertyIn(w.text, <<v>>, FALSE) : Reads(v, p[2])}
  IN AssembledLookup /\ cypher.hops # << >> =>
       \A w \in Fields(Candidates(candidates)) :
         w.attached = "" /\ w.text \notin SourceWords \cup TargetWords /\ Cardinality(best(w)) > 1 => Cardinality(shown(w)) > 1

\* What the Cypher filters by is faithful: no value was guessed, and no condition of a plan
\* or of an assembled lookup is lost on its way.
ConditionsFaithful == ValuesKnown /\ ConditionsKept /\ AssembledConditions

\* Nothing of the question's structure and the plan's columns is lost on the way to the
\* Cypher.
NothingLost == StructureAnswered /\ ColumnsKept

\* The stages agree: each leaves what the next one takes, and what it can find fault with
\* is no longer there for a later one.
StagesAgree == TypeOK /\ SequencesFit /\ SchemaFoundEarlier

\* What is written answers: each column has a name of its own, and what is assembled
\* without a model can be compiled, shows what the question asks for, and guesses nothing
\* on a path: no owner of a property, no direction.
WrittenAnswers ==
  /\ ColumnsNamed
  /\ AssembledFits /\ PropertyShown /\ OwnerNotGuessed /\ DirectionKept
=============================================================================
