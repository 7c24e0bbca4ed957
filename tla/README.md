# A TLA+ development of the Text2Cypher agent hub

The repository is a hub of five HTTP services and one console that together
turn questions into Cypher, judge the result and repair the knowledge the
generator works with. This directory models the parts of them that keep state
and the stages that turn a question into Cypher, checks the models with TLC on
small instances and proves their safety properties with TLAPS.

## 1. The system

```
 qa-agent --question--> cypher-generator-agent --cypher / non-success report--> testing-agent
     \------golden------------------------------------------------------------->    |
                                                                               issue ticket
                                                                                    v
 qa-agent <--redispatch-- (operator) <-- knowledge-agent <--apply-- repair-agent <--/
 runtime-console: reads the testing-agent's files; asks the generator and TuGraph for ad-hoc queries
```

| Component | State it keeps | Operations | Hard behaviour | What makes it correct | Module |
|---|---|---|---|---|---|
| testing-agent `service.py`, `repository.py` | golden, receipt, attempt, latest, failure and ticket files; asyncio tasks, their registry and locks | four ingest endpoints, status request, evaluation task, startup hook | requests in any order and repeated; several tasks for one attempt; death between two writes; LLM calls that raise | one attempt per run; a verdict is final and backed by its evidence; every ready attempt is evaluated | `TestingAgent` |
| testing-agent comparison, grammar, scoring | none | parse check, answer comparison, scores | multiset and order semantics, quoting | equals the documented comparison | their outcomes in `TestingAgent` |
| cypher-generator-agent API and client | background tasks (memory only) | accept a question, generate, submit with retries | lost responses make duplicate runs; death loses accepted questions | an accepted question is reported to the testing-agent | `QuestionDelivery` |
| cypher-generator-agent pipeline | the trace of one run | sixteen stages, gates, repair decision, output | an error inside an error path; a reason outside the contract | every run ends in one output the testing-agent accepts | `GenerationPipeline` |
| cypher-generator-agent language stages | none | literals, deterministic assembly, grounding, binding, validation, DSL, coverage gate, compiler, self-validation | each shape moves a condition or a column elsewhere; what one stage checks another one changes | nothing lost, nothing guessed, each stage takes what the one before makes | `LanguageStages` and the ten modules under it |
| cypher-generator-agent decomposition, retrieval, model client | none | prompts, candidates, one HTTP call | - | - | their outcomes are given |
| repair-agent | analysis records | analyse a ticket, apply knowledge | check-then-act on one ticket; apply retried after a lost response; death leaves `analysis_pending` | an applied ticket has a run; a pending one ends | `RepairChain` |
| knowledge-agent runs | agent runs, memory, approvals | create, legacy apply, step, approve, reject | read-modify-write from several threads; no status guard | reviewed knowledge needs an approval; a completed run has done what it says | `KnowledgeAgent` |
| knowledge-agent documents | knowledge documents and history | edit, tree edits, repair apply, cleaning at startup | document and history are two files, written without a lock | no text that was ever on file is lost | `KnowledgeAgent` |
| knowledge-agent retrieval and prompts | none | assemble a prompt | - | - | - |
| qa-agent jobs | job, artifact, release and history files | run with its attempts, release, dispatch, delete | two jobs select from one history; a job worked on twice | a sent sample is new; a completed job is released | `QaJobs` |
| qa-agent generation of samples | none | specs, candidates, validation, shortlist, round trip, release | levels crowd each other out | the targets of a job are met when they can be | `SampleGeneration` |
| qa-agent redispatch | attempts file | count, limit check, dispatch, append | time of check to time of use | at most three redispatches | `QuestionDelivery` |
| runtime-console user queries | record files and an index of the newest | create, list, diagnose in the background | record read before an await and written after it; eviction between | what the index names is on file | `UserQueries` |
| runtime-console views | cache of task summaries | read-only views | two readers with rules of their own for one verdict | listing and detail agree | `ConsoleViews` |
| sync scripts, contracts | none | copy sources | - | - | - |

## 2. The modules

| Module | Extends | Contents |
|---|---|---|
| `EvaluationLedger` | - | what the testing-agent promises: a list of attempts per sample, a verdict is final |
| `TestingAgent` | - | the testing-agent in full: files, handlers, tasks, deaths; its properties; the ledger as an `INSTANCE` |
| `ConsoleViews` | `TestingAgent` | what the console's listing and detail say of a sample, as functions of the testing-agent's files |
| `TestingAgentProofs` | `ConsoleViews` | types; verdicts are backed and final, a run is one attempt, `latest` is the newest, the ledger is implemented, files and views agree, ready attempts have a task |
| `GenerationPipeline` | - | one run of the generator's pipeline and its output contract |
| `GenerationPipelineProofs` | `GenerationPipeline` | types, faults, passed stages, outputs that can be submitted |
| `QuestionDelivery` | - | one sample between qa-agent, generator and testing-agent; the redispatch limit |
| `QuestionDeliveryProofs` | `QuestionDelivery` | types and the three safety properties |
| `KnowledgeAgent` | - | repair runs and knowledge documents, in threads over files |
| `RepairChain` | `KnowledgeAgent` | the repair-agent composed with the knowledge-agent |
| `RepairChainProofs` | `RepairChain` | of `KnowledgeAgent`: types, approvals, texts that are kept, where duplicates come from, completed runs; of `RepairChain`: one run per ticket, final analyses, handlers of pending ones, runs behind applied ones |
| `QaJobs` | - | jobs, releases, dispatch and deletion, in threads over files |
| `QaJobsProofs` | `QaJobs` | types, workers of jobs, samples are new, completed jobs are released |
| `SampleGeneration` | - | one attempt of a job, from the schema to the samples it releases |
| `SampleGenerationProofs` | `SampleGeneration` | what the loops and filters of an attempt return; levels are kept, what validation keeps of the schema, targets are met |
| `UserQueries` | - | the console's own queries: files, index, background diagnosis |
| `UserQueriesProofs` | `UserQueries` | the index and its files, who is blamed, where orphans come from |
| `SemanticModel` | - | the graph model and the constants that say which words mean what |
| `LiteralResolution` | `SemanticModel` | which texts are values of which properties, and which values |
| `SemanticBinding` | `LiteralResolution` | the grounded answer of the model, the binder, the semantic validator |
| `RestrictedDsl` | `SemanticBinding` | builder and parser of the restricted query language |
| `CypherCompilation` | `RestrictedDsl` | compiler and self-validation |
| `StructuralCoverage` | `CypherCompilation` | what a question asks of the structure, the coverage gate, the projection rules before the binder |
| `ProjectionTerms` | `StructuralCoverage` | the assembler's projection: which word means which property of which vertex |
| `PathAssembly` | `ProjectionTerms` | the assembler's path, what is read and ranked along it |
| `VertexAssembly` | `PathAssembly` | the assembler's questions about one vertex, and what is counted of it |
| `DeterministicAssembly` | `VertexAssembly` | which shape a question has; the assembler as a whole |
| `LanguageStages` | `DeterministicAssembly` | a question through all these stages, as a state machine |
| `LanguageStagesProofs` | `LanguageStages` | no value is guessed, no condition of a plan is lost |
| `MC...` | the module after `MC` | model values, definitions of constants and symmetry for TLC |

No module declares a `RECURSIVE` operator. A definition whose comment begins
with "A variant" is a faulty form of the definition after it; it is used by no
action and says which mistake the property named with it in `PROJECT.json`
would detect. Where a computation needs a result several times, the result is
the parameter of an operator of its own (`ReadOf`, `ReadAlong`, ...): that keeps
evaluation and coverage reports of TLC linear in the length of the calls.

### 2.1 TestingAgent and ConsoleViews

The service is a FastAPI application in one asyncio event loop: a handler or an
evaluation task runs without interruption between two awaits. An action is
therefore the code between two awaits. The repository writes JSON files
synchronously, so nothing else runs while it writes - but the process can die
between any two writes, and that is why the writes that end an evaluation are
actions of their own (`Saving`), during which `LoopFree` keeps every other
action out.

| State | Code |
|---|---|
| `golden`, `receipt`, `failures`, `tickets` | the files under `goldens/`, `question_receipts/`, `generation_failures/`, `issue_tickets/` |
| `attempts`, `latest` | `submission_attempts/{id}__attempt_{n}.json` and `submissions/{id}.json`, which are two files with one content |
| `task`, `background` | the coroutines of `_evaluate_attempt` and the registry `_background_tasks`; a slot is one `asyncio.Task` of an attempt |
| `up`, `crashes`, `faults` | the process; how often it died, how often the LLM raised |

| Action | Code (`app/service.py` if not said otherwise) |
|---|---|
| `IngestGolden` (with `Opens`) | `ingest_golden`: store, look at the latest record, reopen and schedule |
| `IngestSubmission`, `CreateAttempt` | `ingest_submission`, `repository.save_submission` |
| `IngestGenerationFailure` | `ingest_generation_failure`, `save_generation_failure_submission`: the report first, the attempt after it |
| `IngestQuestionReceived`, `GetEvaluationStatus` | the receipt; the status request, which reschedules a ready attempt |
| `StartEvaluation` | from the lock to the first await: golden and record read again, finished attempts skipped |
| `GrammarExplained`, `TuGraphAnswers`, `ReviewAnswers`, `LlmRaises` | what the three awaited calls return or raise, with the artifact saved after them |
| `BlockAttempt`, `SaveEvaluation`, `SaveTicket`, `LinkTicket`, `MarkSettled`, `AssessImprovement` | the writes after the last await, in order |
| `DoneCallback` | `_log_background_evaluation_failure`, a callback of the loop: it pops whatever is registered |
| `Crash`, `Startup` | death at any await or write; `resume_pending_evaluations` |

A mutation writes the attempt and then, unless it belongs to a newer attempt,
the latest record (`Mutate`). With `TornWrites` the process may die between the
two (`TornMutate`); a new attempt is written the other way round, latest first.

`ConsoleViews` adds no state. The console reads the same directory with two
readers (`service.py` of the runtime-console): a listing built from a few
fields of the latest record (`ListVerdict`) and a detail built from the attempt,
the ticket and the report (`DetailVerdict`). Left out are the cache of the
listing, trace profiles other than "all" and the layout of what is shown.

Abstracted: a submission is one of a few contents, of which some parse; the
comparison of answers is the choice between equal, different and failed; an
evaluation is its reason. Requests that are refused with 409 or repeat what is
stored change nothing and are stuttering steps. `save_repair_response` has no
caller and is left out.

### 2.2 GenerationPipeline

One run of `run_pipeline`. Runs share no state, so there is one. `at` is the
next stage, `trace` the stages recorded by `GraphTraceBuilder`, `verdict` what
was decided and `result` the output. A stage is an action with a disjunct for
each way it can end: go on, decide, raise. `RaisesIn` is an exception that
`_run_stage` records before `run_pipeline` catches it, `RaisesUnrecorded` one in
the two gates that are not wrapped. `UnexpectedReason` is the classification by
the last recorded stage. `OutputRejected` is the code path in which building the
failure raises after the output stage was recorded, so that the trace gets two.
`fault` is a history variable: did a call, a file or the program break, as
opposed to a stage that refused the question? `terms` and `assumed` keep what
the notices to the user depend on.

Abstracted: everything the stages compute. The choice among their outcomes is
wider than what any one question can reach; a property that holds for every
choice holds for the real ones. What the stages compute is in 2.8.

### 2.3 QuestionDelivery

One sample (rows are sent independently) and several dispatches of it: the one
of its job and redispatches. `dispatch` is `_dispatch_row` in the thread of a
request (question posted, answer awaited, golden posted, redispatch counted),
`run` is a generation run from the receipt that is reported inside the request
to the report of its background task. A lost request, a lost answer and a
timeout are the same event to the sender (`LoseQuestion`, `QuestionUnanswered`),
and the receiver may have done its part. A death of a sender ends what it had
in memory; a broken connection is an error to the one who waits.

Not modelled: answers below 500 and 409, which end the tries at once, because
the testing-agent gives them for conflicting content only; the dispatch
switched off by a missing `TEST_AGENT_HOST`; the details of a release row.

### 2.4 KnowledgeAgent

Every endpoint of the knowledge-agent is a plain function, which FastAPI runs in
a thread of its pool; the state is files that are read, changed in memory and
written back without a lock. An action is what one thread does from one access
of a file to the next.

| State | Code |
|---|---|
| `docs`, `history` | the documents (a sequence of blocks each) and `_history` |
| `runs`, `memory` | the file of each agent run; the repair memory |
| `thread` | per thread of the pool: its request, where it is, its copy of a run or a text |

| Action | Code |
|---|---|
| `CreateRun`, `Legacy`, `SaveRun` | `/agent-runs`, and the apply of the repair-agent with its proposals |
| `StepBegins`, `StepConcludes`, `StepReadsAgain`, `StepTraces` | `runtime.py` `step`: the model and a tool between two reads of the run; `Observed` is what a tool changes, `AutoApplicable` the policy |
| `Approve`, `Reject`, `ApplyPatch`, `SaveApplied`, `SaveCompleted`, `Remember` | `approve`, `reject`, the patches one after the other, the two saves and the memory entry |
| `EditorLoads`, `EditorSaves`, `CreateNode`, `UpdateNode`, `DeleteNode`, `RewriteTree` | the editor and the nodes of the tree, each against the text it has read; `save_document` does not check the editor's text, which may say a thing again |
| `WriteDocument`, `RecordHistory` | the document's file, then the history's |
| `Restart` | death, and the cleaning of the few-shot document at startup |

`written` is a history variable: every text a document's file ever had. A block
is its id and its content; what makes a candidate fit to be applied is one flag.
A validated candidate replaces the candidates with its target key (`Checked`); as the
key is free text of the model, any of them may share it.

### 2.5 RepairChain

Extends `KnowledgeAgent` by the repair-agent, one event loop. A delivery of a
ticket is a handler: `Arrive` (the check for an analysis on file), `TakePermit`
(the semaphore), `ModelFails`, `Diagnosed` (the analysis is saved as pending),
`Lost`, `Refused`, `PostAgain`, `GivenUp` (the post and its tries), `Conclude`
(the second save), `Crash`. `Serve` hands a post to a thread of the
knowledge-agent, which works on whether or not its client still listens. A
ticket is `excused` when its post was repeated or two deliveries of it were past
the check: these are the cases in which the code makes a second run.

### 2.6 QaJobs and SampleGeneration

`QaJobs` is the life of jobs in threads: `CreateJob`, `StartRun`, `ReadHistory`
(the releases of all jobs), `Attempt` and `NextAttempt` (what an attempt leaves,
until the targets are met or the attempts used up), `StageFails`,
`WriteReleases`, `SendSample`, `SaveDispatch`, `Redispatch`, `DeleteArtifacts`
with `DeleteRecord` (one file after the other), `DeleteSample` with
`RewriteFile`, `Restart`. The history variables `overlapped`, `forgotten` and
`meddled` say of which jobs the code promises less.

`SampleGeneration` is what one attempt computes, one action per stage of
`run_job`: `BuildSpecs` (the coverage plan with and without targets),
`Instantiate` (templates and the model's rewritings, with `WithLevel` keeping a
candidate per level), `Validate` (schema, family and the classifier `Classify`),
`Shorten` (the shortlist by score), `Ask`, `Roundtrip` (with `Fallback`),
`Release`. A Cypher text is the structure that the difficulty service and the
rules read out of it, hops of variable length apart. How a hop is written matters, since
the schema check is a regular expression: `LastMatch` and `Matched` say which hops its
`finditer` finds, where a match takes the node behind the hop along. The skeleton and query plan path, which `run_job` no
longer calls, is left out. A comprehension of the code is a choice of indices
(`Selected`) or a concatenation (`Joined`), a loop is a recursive function of its
round (`Filled`, `Merged`, `Picked`, `ReleaseByLevel`): that is the form the
proofs work on.

### 2.7 UserQueries

One event loop. `Create`, `GeneratorAnswers`, `TuGraphAnswers` are
`create_user_query` between its awaits; `SaveRecord`, `SaveIndex` and `Answer`
are `_save_record` file by file (record, index, eviction of what the index no
longer names), during which `saving` keeps the loop; `ReadRecord` and
`Diagnose` are the background task; `Die` may hit between or inside two writes
and leaves a file without its text (`Torn`). `blamed`, `saved` and `late` are
history variables. `cga_error` and `tugraph_error` of a record say whether there is
an error with a text, which is all the diagnosis looks at; a call that fails with an
exception without a text ends the query as `"silent_call"`.

### 2.8 The language stages

A question is a record of words - each with its text, the slot the decomposition
gave it and the word it is attached to - and of a few facts about it, among them the
shape of the output; texts are model values. A text may match as a relative time
whatever it is asked for. How texts resemble each other, which words name which vertex,
edge or property, and which values a property has are constants
(`SemanticModel`, given values in `MCLanguageStages`), because the code keeps
them in the semantic model's files or computes them from strings. Everything the
stages do with these facts is translated:

| Stage (action of `LanguageStages`) | Operators | Code |
|---|---|---|
| `ResolveLiterals` | `Requests`, `ResolveLiteral` | `core/pipeline.py`, `literals/` |
| `AskOutput`, `Assemble` | `OutputUnclear`, `ShapeOf`, `PathOf`, `ProjectionOf`, `Measures`, `Assembled` | `core/pipeline.py`, `assembly/` |
| `Ground` | `GroundingOutcome`, `Hydrated`, `Enriched` | `understanding/` |
| `Bind`, `Validate` | `BindingOutcome`, `PlanOf`, `PlanIsValid` | `binding/binder.py`, `validation/semantic_validator.py` |
| `Build`, `Parse` | `Builds`, `Built`, `QueryParses` | `dsl/` |
| `CheckCoverage` | `Requirements`, `StructureCovered` | `validation/structural_requirements.py` |
| `Compile`, `SelfValidate` | `CompilationOutcome`, `CypherOf`, `SelfValidation` | `compiler/`, `cypher_validation/` |

Cypher is the structure of its clauses: the labels of its variables, hops,
conditions, returned expressions with aliases, ordering and limit. Questions and
the answers a model may give are enumerated (`Cases`); the assembler's questions
are all combinations of words up to the bounds of `MCLanguageStages`.

Left out: decomposition and retrieval (a question comes with its candidates);
the compilation of a path inside a two-step aggregate, which needs
`filter_subquery` or `carry_roles` and nobody produces them; and where the
deterministic assembler reads a projection as plain words it is taken to fall
back on the model.

## 3. The runs

| Run | Distinct states | What it shows |
|---|---|---|
| `testing_orders` | 273 411 | Every order of golden, submissions, failure reports, receipts, status requests and evaluations of two runs, one LLM failure: `latest` is the newest attempt whatever older attempts write; a ticket and a verdict of failure belong together, a stopped attempt has no verdict, and the newest attempt does not wait for a golden that is there (`AttemptsAgree`); the console's listing and detail agree on every one of these states (`ViewsAgree`). |
| `testing_race` | 81 149 | One attempt with up to three tasks, a death and an LLM failure: the done callback removes the registration of a newer task and a third is scheduled beside it, yet a verdict never changes (`SettledIsFinal`), no ready attempt is forgotten, and the agent implements the ledger (`ImplementsLedger`). |
| `testing_deaths` | 245 862 | One death, also between the two files of a mutation or of a new attempt: one attempt per run, verdicts backed, and every ready attempt evaluated in the end when no LLM call raises. |
| `pipeline_runs` | 5 576 | Every run ends; its output satisfies what the submission to the testing-agent validates; a generated query passed every stage; something that broke is never counted as a failed generation. |
| `delivery` | 42 202 | A redispatch with three tries and a run for each, three losses and a death: delivered means received; no result before its receipt; a run is lost only by a death or by as many lost posts as tries; every dispatch ends and every accepted question is reported otherwise. |
| `redispatch_limit` | - | The disagreement of section 4. |
| `knowledge_runs` | 1 126 379 | Three requests in two threads, one run, two documents, a death: a reviewed document is changed by approval only; no text is lost from document and history; a completed run has its effects and its memory behind it; content is repeated by edits by hand, in the editor or the tree, and never by an apply alone. |
| `repair_chain` | 273 182 | Two deliveries of one ticket, lost answers, retries, a death of either side: an applied ticket has a run past its creation; a second run or a changed analysis only where the code allows it; a pending analysis ends. |
| `qa_jobs` | 559 406 | Three requests in two threads, two jobs, a death: what two jobs may both send; what a completed job has on file and has sent; no job under way without a worker; no releases without a job. |
| `sample_generation` | 1 155 988 | One attempt on nine schemas and six requests, with up to two of the model's requests answered by any of twelve answers: templates fit their level, family and schema; no level is pushed out; every hop of a validated query follows the schema unless it is one of those the code does not look at (section 4); a refused sample is released only to fill a level; targets are met when they can be. |
| `user_queries` | 611 152 | Three queries, a history of two, a death: the index names files that are there and is the newest queries; a file without an index entry comes from a death or from an eviction under a diagnosis; a diagnosis blames the party that ended the query - the generator, where its call failed without a text - and ends. |
| `language` | 46 879 | Twelve questions with thousands of answers of the model and 4 162 questions for the assembler, through every stage: no value is guessed, and the conditions of a plan or of an assembled lookup are in the Cypher (`ConditionsFaithful`), and so are structure and columns (`NothingLost`); each stage takes what the one before makes, in an order the parser accepts, and the self-validation finds nothing that the schema check of an earlier stage should have (`StagesAgree`); every column has a name of its own, what is assembled compiles and has the columns asked for, and no owner or direction in it is guessed (`WrittenAnswers`). |

A property such as `AttemptsAgree`, `KnowledgeInv` or `NothingLost` is the
conjunction of the named properties defined above it, each with its own comment.

### Bounds

- One sample in `TestingAgent` and `QuestionDelivery`: the files, tasks and
  locks of two samples have nothing in common.
- Two attempts are enough for an older attempt that writes beside the newest and
  for the comparison with an earlier one; two runs with three forms of report
  each are enough for a repeat and for a conflict.
- Three tasks for one attempt are the least that show the callback race: the
  ended one, the one whose registration it removes, the one scheduled then. The
  race is kept apart from two attempts (`MaxAttempts = 1`) because tasks of
  different attempts meet only in `latest`, which `testing_orders` covers.
- One death of each process: the state after a restart has no memory of the
  deaths before it, and a second one meets the same files.
- A last try and one before it: two or three tries instead of the configured
  numbers.
- Two threads and three requests: a race of the knowledge-agent or of the jobs
  is between two threads; the third request finds what they leave.
- Two documents, one reviewed and one not; contents of which one is refused by
  the validator; one run, since runs meet only in the documents, which the
  editor changes as well.
- A history of two and three queries: one eviction, of a query that may still
  be diagnosed.
- Two jobs over two queries and two wordings, one sample each: a repeat of the
  query or of the question alone, and attempts that leave nothing new.
- Four specs per attempt (`MaxSkeletons`) and two answered rewritings: the
  schemas range from none to three edges, with and without a path of three, with edges
  that have no constraints and with a constraint about a label the schema lacks. A
  rewriting turns or renames all hops, the first, the second or the ones behind it:
  the second hop is the one the schema check does not see behind a forward one.
- The language constants are a small network schema with two paths between
  the same vertices, ambiguous property words and an enumeration, so that every
  choice in the code has more than one outcome.

`CHECK_DEADLOCK FALSE` is set where a system may rest: all requests served
(`QuestionDelivery`, `KnowledgeAgent`, `RepairChain`, `QaJobs`, `UserQueries`)
or the one question or attempt at its end (`LanguageStages`,
`SampleGeneration`). The testing-agent never deadlocks in the checked instances,
since a repeated golden is always possible; a run of the pipeline ends in
`Done`. Symmetry is used in no run that checks liveness.

### Fairness

- `TestingAgent!Fairness`: strong fairness of the steps of each task. The ready
  queue of the event loop and the waiters of an `asyncio.Lock` are FIFO, so a
  task that can run whenever the loop is free does run, although requests take
  its turn away again and again; the three awaited calls end because their HTTP
  clients have timeouts. Weak fairness of `Startup`: the process is restarted
  by its supervisor. Nothing polls the status request and a golden need not be
  repeated, so neither is fair. Without an LLM failure that is enough; after one
  the attempt stays ready until someone asks for its status, which is why
  `ReadyIsEvaluated` is checked with `MaxFaults = 0`.
- `GenerationPipeline!FairSpec`: a run is one function call in a thread.
- `QuestionDelivery!Fairness`: threads and tasks of a live process go on.
  Losses and deaths are never fair, so `DeliveryEnds` allows for them.
- `UserQueries!Fairness`: the steps of each handler and task; clients have
  timeouts. Deaths are not fair.
- `RepairChain!ChainSpec`: the steps of each delivery. The semaphore serves its
  waiters in order, hence strong fairness of `TakePermit`. That an unanswered
  post is lost in the end (`Lost`) is the timeout of the client; the
  knowledge-agent itself is not fair, it may hang.

## 4. What the runs found

- `redispatch_limit`: the number of redispatches is read before the sample is
  sent and written after it, so requests that arrive together pass the limit of
  three that `test_redispatch_service.py:68` asserts.

Met while modelling, without a run of their own:

testing-agent
- `save_generation_failure_submission` writes the report before it finds that
  the run has another attempt; the refused report stays on file
  (`repository.py:170`; `testing-agent-design.md:144`, `:1269`).
- A death after `save_evaluation` and a TuGraph error in the resumed evaluation
  leave a stopped attempt with an evaluation and perhaps a ticket
  (`service.py:201`; `testing-agent-design.md:1279`). Without a death it cannot
  happen (`AttemptsAgree`).
- With `TornWrites`, `SettledIsFinal` does not hold: golden, submission, strict
  equality, `SaveEvaluation`, then a death inside `MarkSettled` after the attempt
  says `passed` and before the latest record does. After the restart nothing
  resumes the attempt (it is settled), the latest record still says
  `ready_to_evaluate`, and a repeated golden writes that state over the verdict
  and evaluates again. `testing_race` checks the property with whole mutations.
- An older attempt that came before the golden keeps waiting when the golden
  arrives (`service.py:82` opens the latest one only; `testing-agent-design.md:1222`).
- An attempt is compared with the nearest earlier one that has an evaluation,
  not with the one before it (`service.py:327`; `testing-agent-design.md:796`).
- An attempt whose LLM call raised stays ready until somebody asks for it.
- The pattern for ORDER BY in `summary.py:21` is escaped twice and matches nothing.

runtime-console
- A stopped evaluation is "fail" in the listing and "pending" in the detail;
  between the ticket's link and the final state the two differ as well.
- With the profile "all" a newer failure report of generation is hidden behind
  an older generated submission.
- What is kept of a failed call to the generator is `str(exc)`, which is empty for
  some exceptions of the HTTP client (`user_queries.py:122`), and the diagnosis asks whether
  there is an error by its truth (`diagnostics.py:225`): such a call is blamed on the
  generator ("cga") instead of on the call ("runtime_cga_call"). `BlamesTheParty` has
  the case.
- A diagnosis writes the record of an evicted query anew and nothing removes it
  (`OrphanIsLate` allows for it).

cypher-generator-agent
- The generator has no outbox: a report that was not acknowledged by the last
  try is gone (`clients.py:72`; `testing-agent-design.md:142`).
- The validator's `invalid_aggregate_property_type` is in none of the two lists
  of reasons, so a refusal becomes a failure of the service (`pipeline.py:5487`,
  `semantic_validator.py:418`; `2026-05-27-observability-v1-design.md:242`).
- The resolver reads a text as a time or a number before it asks the value index, also
  for a property with valid values (`resolver.py:90`;
  `2026-05-27-literal-resolver-v1-design.md:105` has the values, their synonyms and
  the index only). "Last 7 days", asked of devices of which nothing but the role is a
  candidate, is looked up as a role and becomes a time. The attempt to prove that an
  enumeration gets one of its values showed it; `ValuesKnown` states what does hold.
  The value ends the run before it is answered: the compiler cannot write a time. A relative
  time asked of a property with numbers goes the same way (`typed_parser.py:41`).
- A near match of a literal is never told to the user (`repair/notices.py:30`;
  `2026-05-27-overall-architecture-design.md:240`).
- `unparsed_terms` and modality terms of a decomposition do not reach the
  coverage report (`pipeline.py:4439`), so they neither stop a run
  (`2026-05-27-overall-architecture-design.md:201`) nor become a notice.
- A literal written inside a filter reaches the WHERE without having been
  resolved (`binder.py:331`;
  `2026-05-27-sp-01-llm-feasibility-spike-report.md:169`).
- A two-step aggregate drops the plan's filters; two count hints get one alias;
  a hint always counts a property called "id"; a variable path without a
  projection compiles to an empty RETURN that self-validation accepts;
  "in" compiles with a single value. `ConditionsKept` and `ColumnsKept` name the
  shapes they are not about.

knowledge-agent and repair-agent
- A run that was rejected can be stepped again (`runtime.py:115`;
  `2026-05-06-guarded-knowledge-repair-agent-design.md:153`, `rejected --> [*]`).
- The candidates of a run can be replaced after their evaluation, whose result
  stays; an action the controller does not know is raised outside the try and
  is not traced.
- Deleting a block of the tree takes the section headers behind it along.
- Two deliveries of a ticket, or a lost answer, make two runs; the design of the
  repair-agent admits it (section 6.7).

qa-agent
- The schema check of a query that the model has rewritten does not see every hop.
  `_cypher_edges_follow_schema` (`generation/service.py:433`) finds hops with a
  pattern that takes the node behind the hop along, so that the hop right behind
  one it has found is skipped: in a chain, every second one. Nor does it find a hop
  with a variable, one against the arrow, or one with a node that has no label. An
  edge type without constraints is accepted in any direction
  (`generation/service.py:442`, `validation/service.py:101`). `qa-agent/summary_qa.md:99` lists
  nodes, edges, properties and the actual direction of edges as a hard filter.
  `EdgesFollow` is the check as it is, and `ValidatedFollowsSchema` names what it leaves.
- A redispatch that ends while its job is run again saves the older record over
  the newer one; `run_job` drops the dispatch history.
- A death between sending and append leaves a redispatch uncounted.
- A schema with paths of two edges only never gets an L5 sample; `diversity_key`
  has no effect without targets.

## 5. The proofs

Every theorem holds for every value of the constants that satisfies the
assumptions its module names: any number of samples, runs, attempts, tasks,
threads, jobs, queries, tries, losses and deaths, of which TLC checks a few.

| Assumption | What it asks |
|---|---|
| `TestingAssumption`, `ReportedAssumption` | bounds are natural numbers, there is room for one task, `None` is no content, golden or run; what the generator reports is a status |
| `PipelineAssumption` | `SchemaRetries` is a natural number |
| `DeliveryAssumption` | at least one try of a post; `NoRun` is not a run |
| `KnowledgeAssumption`, `FoundAssumption` | what is served are operations of the agent; what a start finds on file are runs, none of them completed (a completed one would need its effects on file as well) |
| `RepairAssumption` | a permit and a try at least; `None` is not a delivery |
| `QueryAssumption` | the history has room for one query; `None` and `Torn` are no records, and `Torn` is no index |
| `JobAssumption` | finitely many Cypher texts; `None` is no job and no record |
| `ModelAssumption`, `LiteralAssumption` | what `validate_graph_model` refuses is not loaded: the vertices are finitely many, id properties and ends of edges exist, an alias of a metric's pattern is of one vertex, a dimension is a property of one; values and the index are of properties that exist; a text does not count as included in itself |
| `CasesAssumption` | a metric among the candidates is one of the model; the answer of the language model has its fields, among them groups and measures, and its lists are sequences |
| `SampleAssumption` | limits and counts are natural numbers, the targets a natural number per level (`normalize_difficulty_targets` refuses others); a schema has a sequence of labels, one of edge types and one of constraints between names; an answer is a sequence of rewritings; `NoLabel` is no name |

| Theorem | Argument |
|---|---|
| `TestingAgentProofs!TypeCorrect` | `TypeInv`: `TypeOK`, and a task past its lock works on an attempt file that exists and is about to write a value of the right type. The second part is needed because `attempts[id][no]` is written blindly. |
| `... !SettledAlwaysBacked` | `VInv` strengthens `SettledIsBacked`: two tasks past the lock of an attempt are the same task (`OneWorking`); the attempt of such a task is not settled, and what the task will rely on is in the files (`TasksSupported`, one conjunct per step). Without the lock the attempt could change under the task; without the second part `MarkSettled` could not be shown to find the ticket. A death leaves no task, so only the attempts have to be looked at - also when it falls between the two files. |
| `... !AlwaysOneAttemptPerRun` | inductive beside `TypeInv`: writes keep number and run, a new attempt takes the next number for a run that none has. |
| `... !LatestAlwaysNewest` | for `TornWrites = FALSE`: inductive beside the two above; `Mutate` compares numbers, so it needs that `latest` has the number of the last attempt. |
| `... !VerdictsAreFinal` | for `TornWrites = FALSE`: a task writes to an attempt that is not settled (`VInv`) or adds the comparison; a golden opens the attempt of the latest record, which is the newest attempt and not settled. This is the step that fails for torn writes. |
| `... !RefinesLedger` | for `TornWrites = FALSE`: the agent implements `EvaluationLedger`, attempt by attempt. `OpenInv` says that before its golden an attempt waits and that a task is for an attempt that no longer does; without it a task could take an entry from waiting to a verdict in one step. Each step appends an entry, changes one as the ledger allows, or leaves the book alone. |
| `... !AttemptsAgreeAlive`, `ViewsAgreeAlive` | until the first death. `JustifiedInv`: an evaluation, a linked ticket and a ticket on file are there because the attempt is settled, or because one task - the same for all three - is just past the write of them. The console's two readers are then compared state by state. A death leaves the parts as they are and takes the task, and both properties fail (section 4), hence `crashes = 0`. |
| `... !ReadyAlwaysScheduled` | through deaths and torn writes. `Attended`: a ready attempt has a task that will still evaluate it or is about to write its state; a task that only compares with an earlier attempt does not count, because the state is behind it. `Registered`: what the registry names is not idle, so `Schedule` either finds a live task or makes one; the done callback that takes a newer task off the registry only makes it possible to schedule one more. `GoldenInv`: a task past its lock has a golden, so a task that ends without one had a waiting attempt. |
| `GenerationPipelineProofs!PipelineTyped`, `FaultsAreServiceFailures`, `GeneratedRunsPassed` | `IInv`: a verdict reached by something that broke has a reason of the service until it is answered, also through `OutputRejected`; as long as a run can still generate, no recorded stage has failed. |
| `GenerationPipelineProofs!OutputsAreSubmittable` | `OnCourse`: while a run goes on, its trace is a prefix of one of the two orders the submission knows, and the stage it is at comes next in that order; a run that stops needs no order, but its verdict has the reason and stage of its status. |
| `QuestionDeliveryProofs` | `DeliveryTyped`; `DeliveredAlwaysReceived`: a run whose question was answered with success has its receipt, which no step takes back; `ReportsFollowReceipts`: a run past its receipt has it; `LossAlwaysNeedsFaults`: a post at its k-th try has lost k posts. |
| `RepairChainProofs!ReviewedDocumentsAreApproved` | `Unreviewed`: what a step without a reviewer still has to apply, and what it is writing, is in no reviewed document. The policy is asked once and the run read again later, so the fact has to be carried along. |
| `RepairChainProofs!KnowledgeIsKept` | `KTypeInv` (what each thread holds at each place); `KeptInv`: before a death a text a file has had is in an entry or in the hands of a thread that has yet to write one, except the empty beginning of an untouched document; `DoneInv`: a completed run, in its file or in a thread's copy, has its line in the memory, and each of its changes has been in its document. |
| `RepairChainProofs!DuplicatesAreByHand` | `HandInv`: a text that repeats itself, on file, read or about to be written, has a write by hand behind it, of the editor or the tree - the premise must cover what threads have read, since they write it back. An apply looks for its content in the text it writes to, so that it repeats none on its own. |
| `RepairChainProofs!PendingHasHandler` | `RepairInv`: types, and a thread that serves a post works on the run it created, alone. The knowledge-agent's own actions are covered by the lemmas of the first part of the module. |
| `RepairChainProofs!TicketsHaveOneRun`, `AnalysesAreFinal` | `AloneInv`, `OnceInv`: a ticket that is not excused has one delivery at work, whose analysis says where it is, and at most one run, from when on its post cannot be served again. |
| `RepairChainProofs!ChainIsSound` | under `"step" \notin Served`: `BackedInv`, what a thread is about to save is past its creation, and a post that was answered has a run. If runs are stepped, a step that read a run before its approval may save the older copy over it. |
| `UserQueriesProofs!FilesTellTheTruth`, `OrphansAreLate` | `QueryInv`: the save that keeps the loop is of the query whose handler is in it; a record, wherever it is held, tells the party that ended its query (`Told`: for a call that failed without a text, the generator); what the index names is on file, and it is the newest saved queries in their order; until the first death a file is named by the index, about to be evicted, or late. That the loop of `_save_record` (a recursive function) makes the index with the query in front is shown by the least number of steps after which it would not. |
| `QaJobsProofs!JobsTyped`, `JobsFitTogether` | `SoleInv`: a job nobody meddled with has one thread at most, and its record and releases say what that thread is doing. |
| `QaJobsProofs!SamplesAreNotRepeated` | `HistoryInv`: what a run has read of the history is all there is in the files of the others but for the releases it could not see (`overlapped`, `forgotten`), what it will write repeats none of it, and what is sent has been in a file. |
| `QaJobsProofs!CompletedJobsReleased` | `DispatchInv`, for every job, also one that others worked on at the same time: what a record or a thread says was dispatched is in the releases or was taken out of them, meets the target of each level, and asks nothing twice. |
| `SampleGenerationProofs!SpecsAreKept` | each of the sixteen templates, whatever a schema binds to it, has the class, the family and the listed hops of its level; as there are no more levels asked for than the limit, a level is never replaced by another (below). |
| `SampleGenerationProofs!ValidatedFollows` | a template writes only hops of its level, which `SchemaValid` lists and checks; of a rewriting, `EdgesFollow` has checked the hops its pattern finds. `MatchRounds` describes the pattern's scan, and `ReadFollows` concludes what the theorem says of a rewriting: a forward hop between labels follows the schema unless it stands right behind one that was found. |
| `SampleGenerationProofs!ReleaseIsKept` | `Kept`: what the round trip lets through passed, or fills a level that is short; picking, shortening and cutting lose no sample that is needed for a target (below). |
| `LanguageStagesProofs!ConditionsAreFaithful`: `ValuesAreKnown` | literals are looked up once; each attempt of the resolver answers with what it may (`AttemptsKnown`), and the first that answers is one of them (`FirstOfKnown`). |
| `... !ConditionsAreFaithful`: `ConditionsAreKept` | `IInv`: a stage that was passed found nothing wrong. In each shape a filter is an item of the query, whose target the parser compared with the filter's vertex and the compiler with the labels (below). |
| `... !ConditionsAreFaithful`: `AssembledConditionsAreKept` | `IInv`: an assembled query has passed the gate. A question with conditions is assembled in no shape that leaves them out, and its literals are the filters of the query (below). |
| `... !NothingIsLost`: `StructureIsAnswered` | `Formed`: a query, whoever wrote it, has its ordering and its limit where the compiler looks, and its hops as operations. The gate is passed, so that what it has seen in the query is in the Cypher (below). |
| `... !NothingIsLost`: `ColumnsAreKept` | a column is an item of the query, one for one; its target was compared by the parser with the vertex of the property and is bound by a MATCH (below). |
| `... !StagesAlwaysAgree`: `StagesAreTyped`, `SequencesAlwaysFit` | every outcome is one of its stage, and what a stage leaves is of its kind; in each shape the primary operation or the chain of hops comes first and the ordering and the limit after it, which is what the parser's grammar asks (below). |
| `... !StagesAlwaysAgree`: `SchemaIsFoundEarlier` | `Fits`: each hop, condition and expression of the Cypher was compared with the schema, on the vertex that a MATCH gives its role, so that the self-validation has only the ends of a long path and operators left to refuse (below). |

The prover cannot instantiate an induction theorem. Where a proof needs induction
over numbers, it cites that a well-founded order has minimal elements
(`WFMin`): if something fails after some number of steps, it fails after a least
number of them (`LeastElement`).

#### How the computations of `SampleGeneration` are proved

The properties are about what nested loops return, for schemas, targets and
answers of any size. The argument has three layers.

*Loops.* Each recursive function gets a lemma that states its first round and its
step (`BeforeGrows`, `FilledRounds`, `MergedRounds`, `PickedRounds`,
`ReleaseRounds`), obtained from the general lemma that a function defined by
recursion over its rounds exists (`RoundsExist`). What holds after every round
then follows by `Upwards`: a set of numbers that has 0 and with each number the
next one has them all - a statement about a set, which the provers can use, in
place of one about a predicate. `SelectedPlaces` says that the n-th element kept
exists and is the only one in its place, and `SelectedIn`, that what a filter
returns are elements it kept.

*Stages.* One lemma per stage says what it returns: `TargetedSpecsFit` and
`UntargetedSpecsFit` (each spec has a level, a template and what the schema can bind),
`TemplatesAre` and `CandidateFacts` (each of the sixteen templates against
classifier, family rules and listed hops), `LlmCandidatesFit`, `WithLevelKeeps`,
`ShortlistIn`, `RoundtripIs`, `LevelAdds`.

- That no level is pushed out rests on counting: when there is no room, a
  candidate replaces one whose level has two. If none had, the candidates would be
  as many as the limit and all of different levels that were asked for, none of
  them the missing one; but the levels that were asked for are no more than the
  limit, since each has a spec (`LevelsOnce`, `WithLevelKeeps`). Queries need care
  as well: a template whose query is already there is skipped, so the lemma
  assumes, and the invariant carries, that a candidate has the level its query is
  classified as; then an equal query is an equal level.
- `BestOf` is a `CHOOSE` of a maximum of score tuples. `ScoreIs` and `LessIs` turn
  the lexicographic order into one of numbers, of which a nonempty finite sequence has a
  first greatest (`FirstBest`); otherwise nothing would be known of the choice.
- That a target is met needs that picking `count` from a pool takes `count`
  distinct places of it (`PickedRounds`, `CountIn`), and that the cut at the end
  of `_select_release_batch` removes nothing, since the picks of all levels
  together are at most `Total(targets)` (`ReleaseRounds`, `TotalIn`).

*The attempt.* `IInv` is `Typed` (specs are what a schema can bind, candidates are
templates of such specs or rewritings that passed `LlmCandidateValid`), `Kept`
(what went through the round trip was checked, and no good sample was lost there)
and the properties themselves; one lemma per action.

#### How a condition gets from the plan to the Cypher

`ConditionsAreKept` is about every shape that has filters. What makes it hard is that
no stage keeps a filter where it was: the builder gives it a role and puts it into the
query, into a variable path's operation or into that of a metric, the compiler collects it
again from one of these places and writes the role as a variable. The proof
follows one filter.

- *Choices and sequences.* `Unique`, the filters of a plan, the vertices of a path are
  elements chosen by their indices (`Selected`), which `SelectedPlaces` describes;
  `PlanSequences` says that the lists of a plan are sequences if those of the answer
  are. `CasesAssumption` is needed for this: nothing else says what an answer is.
- *The item.* `ItemOfFilter`: each filter has an item with its property, operator and
  literal, and a role that stands for its vertex, or no role.
- *The label.* `QueryParses` has compared the vertex of the role with that of the
  property, and for a metric the alias (`AliasOfVertex`; here the assumption that
  an alias is of one vertex is used). `CompilationOutcome` is not "ok" if an item has no role
  (refused) or if the role is bound by no MATCH (crash), hence it has a label, and
  `Labels` takes it from where the parser looked (`BoundStands`).
- *The shapes.* `TraversalKeeps`, `VariablePathKeeps`, `MetricKeeps`, `AdHocKeeps`.
  Which operation of a query is its primary one is a choice; that there is one only
  (`OnePrimary`) follows from the sequence of operations, at whose end the builder
  puts the ordering and the limit (`OrderingsLast`). A shape outside this list is refused
  by the parser.

`AssembledConditionsAreKept` says the same of a lookup that is written without a
model, of the literals of the question. Only the words of a question choose its shape,
and no later stage looks at conditions; so the proof is about the choice:
with conditions two of the six shapes are out (`ConditionedShapes`), an aggregate
of two others is no lookup (`CountedShapes`), and an aggregate that is asked
for but not written does not pass the gate. What remains is read of one vertex, with the one literal
there is (`VertexConditions`), or along a path, with all of them
(`PathConditions`), and from there the compiler binds it like a filter of a plan
(`ConditionStands`).

`IInv` carries along what each stage found: a plan of an answer with its fields, a query
built from a plan that can be built, or assembled, past the gate, parsed, compiled. The empty string is an owner
that was not given; the SMT backend cannot read that constant, so steps about it go
to Zenon, or to a lemma that does not mention it.

#### How the structure and the columns get to the Cypher

`StructureIsAnswered` is about the gap between two readers of one query: the coverage
gate reads its operations, wherever they stand, and the compiler writes what it
looks for in each shape. `Formed` says what makes the two agree: an
ordering or a limit stands only in a shape that is `Ordered`, no two limits contradict
each other, and a path is a chain of hops or one hop of many. `BuiltFormed` and
`AssembledFormed` show it for both authors of queries.

- `OrderKept`, `LimitKept` and `ReachKept` compare gate and compiler on such a query; the
  reach is a count of pairs of a hop and a step, for which the proofs give a bijection.
- The path of the assembler is a fold over words. `PathRounds` describes its rounds, and
  `Upwards` carries over all of them that the operations are a sequence and the
  vertices one more than the edges.
- A column is an item of the query, one for one (`ReturnsAre`, `BuiltColumns`). Its
  target was compared with the vertex of its property by the parser, and
  `TraversalBinds` shows that a chain binds every role its vertices have: with one
  edge, the builder leaves the vertices after the second without a role.

#### Why the stages agree

`SequencesAlwaysFit` names the operations of each query, assembled or built, and shows that
they are a word of the parser's grammar. For `SchemaIsFoundEarlier` the proof follows
what the self-validation looks at back to where the parser looked at it:

- `HopsMatch`: a hop's variables have the labels of the roles whose vertices
  `HopIsValid` has joined with the edge.
- `ItemFound`, `OrderedBy`, `ExpressionsFound`: an expression that is returned, sorted by or let
  through a WITH is a property of a vertex, or a source that an operation computes;
  `ComputedFound` and `MetricFound` take a source back to the item that was
  checked with its function (`AggregateValid`) or dimension (`DimensionValid`).
- `BuiltFits` and `AssembledSchema` go through the shapes. For a path the label of a role
  must be where MATCH binds it (`ChainBinds`, `PathRoles`), for an aggregate the target
  must be the one vertex there is (`AggregateBinds`).
- `FaultsLeft`: what remains is a path of many hops, whose ends nobody compares, and an
  operator that does not suit its property. Both happen in the run `language`.

The run `language` checks that these are the only two on the questions it
enumerates; the theorem says so for any model and any answer.

Only model-checked:

- liveness under fairness (`ReadyIsEvaluated`, `EveryRunAnswers`,
  `DeliveryEnds`, `PendingEnds` of `RepairChain` and of `UserQueries`), which is
  beyond the prover, as is `ENABLED`;
- of `LanguageStages`: `WrittenAnswers`. That every column has its own
  name rests on two numbers never having one text, which `ToString` of the standard
  modules does not promise; the rest is about which words the assembler takes for
  what, with folds and flattenings of the community modules inside
  each other. The run enumerates the questions and the answers of the model;
- with deaths, `AttemptsAgree`, `ViewsAgree` and, with torn writes,
  `LatestIsNewest`, `SettledIsFinal` and `ImplementsLedger` are not claimed:
  they fail, as section 4 describes.

## 6. What is not modelled

`PROJECT.json` lists every component with its status. Left out for good: model
clients, prompts, retrieval and decomposition (texts in, texts out; what they
may answer is a choice or given), the layout of the console and its cache,
contracts and sync scripts, the scoring functions of retrieval, and code nobody
calls (the skeleton and query plan path of the qa-agent, `save_repair_response`,
the subqueries of a two-step aggregate). Not modelled yet: the comparison of
answers and the grammar check of the testing-agent as functions of their inputs.
The knowledge store is filled by `bootstrap_defaults` at its first start, which
the model leaves out: the documents start empty.

## 7. State of the project and what is open

Done: the models of all components with state and of the language stages; every
safety property of every component with state as a theorem, those of the
computation of an attempt of the qa-agent, and three of the four of the language stages.

Open, in this order:

1. `WrittenAnswers` of `LanguageStages` as a theorem: the columns would be numbered by
   numbers, and the assembler's folds over words rewritten over choices of indices.
2. The comparison of answers of the testing-agent against its documented meaning
   over bounded inputs.
3. The hazard without a property (`PROJECT.json`): a death inside
   `_mutate_submission` before a repeated golden. It is a departure that section 4
   describes, so that there is nothing to prove.
