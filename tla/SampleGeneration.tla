--------------------------- MODULE SampleGeneration ---------------------------
(***************************************************************************)
(* One attempt of a qa-agent job, from the schema to the samples it        *)
(* releases: coverage specs, candidates (templates and the model's         *)
(* rewritings of them), validation, shortlist, round trip, release.  Each  *)
(* action is a stage of run_job.                                           *)
(*                                                                         *)
(* Abstracted: a Cypher text is the structure that DifficultyService and   *)
(* the rules read out of it, without hops of variable length; a question   *)
(* is what the checks say of it (QaJobs has the wordings); properties and  *)
(* literals are one number.                                                *)
(***************************************************************************)
EXTENDS Integers, Sequences, FiniteSets, SequencesExt, FiniteSetsExt

CONSTANTS
  Schemas,           \* the schemas a job may come with: [labels, edges, triplets]
  Targets,           \* difficulty_targets: what a job may ask for, per level
  Counts,            \* target_qa_count of the jobs without targets
  MaxSkeletons,      \* limits.max_skeletons
  MaxOffset,         \* bound: _diversity_offset
  Answers,           \* what the model may make of a template: sequences of rewritings
  MaxAnswered,       \* bound: requests the model answers
  RoundtripRequired, \* validation_config.roundtrip_required
  NoLabel            \* the node of a hop that no label is written for

Levels == <<"L1", "L2", "L3", "L4", "L5", "L6", "L7", "L8">>

\* A hop of a query, its nodes as they are written: -[:e]->; against the direction, or
\* without one; or with a variable, -[r:e]->.
Forms == {"forward", "backward", "named"}
Hop(edge, src, dst) == [edge |-> edge, src |-> src, dst |-> dst, form |-> "forward"]
\* edge_constraints: between which labels an edge may go.
Edges == [edge : STRING, src : STRING, dst : STRING, form : {"forward"}]

\* What the model makes of a template: the same (repeats), or other words, with counts
\* more; in the hops at the places in at another edge, unless it is AsAsked, and another
\* form; and with the label of the first node left out (bare).
AsAsked == "as asked"
Rewritings == [repeats : BOOLEAN, words : STRING, counts : Nat, at : SUBSET Nat,
               edge : STRING, form : Forms, bare : BOOLEAN]

ASSUME SampleAssumption ==
  /\ MaxSkeletons \in Nat /\ MaxOffset \in Nat /\ Counts \subseteq Nat
  /\ \A schema \in Schemas : schema.labels \in Seq(STRING) /\ schema.edges \in Seq(STRING)
                             /\ schema.triplets \in Seq(Edges)
  /\ Targets \subseteq [ToSet(Levels) -> Nat] /\ Answers \subseteq Seq(Rewritings)
  /\ NoLabel \notin STRING

VARIABLES
  stage,       \* the next stage of the attempt
  request,     \* [schema, targets, count, offset]
  specs,       \* coverage specs
  candidates,  \* candidates, then those that passed validation
  samples,     \* samples with a question, then those that passed the round trip
  released     \* the attempt's result

vars == <<stage, request, specs, candidates, samples, released>>

-----------------------------------------------------------------------------
(* Sequences, written so that they can be reasoned about: a comprehension  *)
(* is a choice of indices, a loop a function of its round.                 *)

\* The elements of seq at the indices in keep, in their order.
Selected(seq, keep) ==
  [n \in 1..Cardinality(keep) |-> seq[CHOOSE i \in keep : Cardinality({j \in keep : j < i}) = n - 1]]

\* The parts, one behind the other.
Joined(parts) ==
  LET upto[n \in 0..Len(parts)] == IF n = 0 THEN << >> ELSE upto[n - 1] \o parts[n]
  IN upto[Len(parts)]

Rank(level) == CHOOSE i \in DOMAIN Levels : Levels[i] = level
Smaller(a, b) == IF a < b THEN a ELSE b
At(seq, index) == seq[(index % Len(seq)) + 1]  \* seq[index % len(seq)]
CountOf(seq, level) == Cardinality({i \in DOMAIN seq : seq[i].level = level})

-----------------------------------------------------------------------------
(* CoverageService: what a spec binds.                                     *)

Extensions(triplets, path) ==
  LET next == Selected(triplets, {i \in DOMAIN triplets : triplets[i].src = Last(path).dst})
  IN [i \in DOMAIN next |-> Append(path, next[i])]

Longer(triplets, paths) == Joined([i \in DOMAIN paths |-> Extensions(triplets, paths[i])])
ContinuousPaths(triplets) == Longer(triplets, Longer(triplets, [i \in DOMAIN triplets |-> <<triplets[i]>>]))

\* The three hops a template may use: a path of three edges; or, where the schema
\* has none, one edge and the same edge again behind it; or, without constraints,
\* labels and edges in turn, the last one when there are no more.
Bound(schema, index) ==
  LET paths == ContinuousPaths(schema.triplets)
      turn(seq, k) == At(seq, index + Smaller(k, Len(seq) - 1))
      edge(k) == IF schema.edges = << >> THEN "RELATED_TO" ELSE turn(schema.edges, k)
  IN IF schema.triplets = << >>
     THEN [k \in 1..3 |-> Hop(edge(k - 1), turn(schema.labels, k - 1), turn(schema.labels, k))]
     ELSE IF paths # << >> THEN At(paths, index)
     ELSE LET t == At(schema.triplets, index)
          IN <<t, Hop(t.edge, t.dst, t.dst), Hop(t.edge, t.dst, t.dst)>>

\* The templates of a level, and their structure: the hops of the first MATCH, those
\* of a MATCH behind a WITH, conditions, aggregations, ORDER BY, properties used.
Template(hops, again, conditions, aggs, order, uses) ==
  [hops |-> hops, again |-> again, conditions |-> conditions, aggs |-> aggs, order |-> order, uses |-> uses]

Templates ==
  [L1 |-> <<Template(0, 0, 0, 0, FALSE, FALSE), Template(0, 0, 0, 0, FALSE, TRUE)>>,
   L2 |-> <<Template(0, 0, 1, 0, FALSE, TRUE), Template(0, 0, 1, 0, FALSE, TRUE)>>,
   L3 |-> <<Template(1, 0, 0, 0, FALSE, FALSE), Template(1, 0, 0, 0, FALSE, TRUE)>>,
   L4 |-> <<Template(0, 0, 0, 1, FALSE, FALSE), Template(0, 0, 0, 1, FALSE, TRUE)>>,
   L5 |-> <<Template(2, 0, 0, 0, FALSE, FALSE), Template(2, 0, 0, 0, FALSE, TRUE)>>,
   L6 |-> <<Template(2, 0, 1, 1, TRUE, TRUE), Template(2, 0, 1, 1, TRUE, TRUE)>>,
   L7 |-> <<Template(3, 0, 0, 0, FALSE, FALSE), Template(3, 0, 0, 0, FALSE, TRUE)>>,
   L8 |-> <<Template(1, 2, 1, 2, FALSE, TRUE), Template(2, 2, 0, 2, TRUE, TRUE)>>]

Spec0(schema, level, template, index) ==
  [level |-> level, template |-> template, bound |-> Bound(schema, index), property |-> index % 2]

\* What the targets ask of the first n levels, and of all.
Asked(targets) ==
  LET sum[n \in 0..Len(Levels)] == IF n = 0 THEN 0 ELSE sum[n - 1] + targets[Levels[n]]
  IN sum
Total(targets) == Asked(targets)[Len(Levels)]
Wanted(targets) == {level \in ToSet(Levels) : targets[level] > 0}

\* build_specs with targets: level by level, template and binding move on.
TargetedSpecs(r) ==
  LET ofLevel(i) == [k \in 1..r.targets[Levels[i]] |->
        Spec0(r.schema, Levels[i], ((r.offset + k - 1) % 2) + 1, r.offset + Asked(r.targets)[i - 1] + k - 1)]
      all == Joined([i \in DOMAIN Levels |-> ofLevel(i)])
  IN SubSeq(all, 1, Smaller(Len(all), MaxSkeletons))

\* _query_plan_target_count.
PlanCount(count) ==
  IF MaxSkeletons <= 8 THEN MaxSkeletons
  ELSE Smaller(MaxSkeletons, IF count <= 3 THEN 8 ELSE IF count <= 5 THEN 10 ELSE count + 8)

\* Without: the levels in turn, whatever the key (_rotated_blueprints sorts the
\* eight it has rotated), the other template in the next turn.
UntargetedSpecs(r) ==
  [i \in 1..PlanCount(r.count) |->
     Spec0(r.schema, At(Levels, i - 1), (((i - 1) \div 8) % 2) + 1, i - 1)]

-----------------------------------------------------------------------------
(* GenerationService: a candidate from a spec; DifficultyService.          *)

\* A query: its hops, MATCH by MATCH, the place where the second MATCH starts, if
\* there is one, and the rest of its structure.
QueryOf(spec) ==
  LET t == Templates[spec.level][spec.template]
  IN [hops |-> SubSeq(spec.bound, 1, t.hops) \o SubSeq(spec.bound, 1, t.again),
      multi |-> t.again > 0, second |-> t.hops + 1, conditions |-> t.conditions, aggs |-> t.aggs, order |-> t.order,
      text |-> <<"template", spec.template, IF t.uses THEN spec.property ELSE 0>>]

Candidate(spec, mode, query) == [level |-> spec.level, bound |-> spec.bound, mode |-> mode, query |-> query]

\* classify.
Classify(q) ==
  LET hops == Len(q.hops)
  IN IF q.multi /\ q.aggs >= 2 THEN "L8"
     ELSE IF hops >= 3 \/ q.multi THEN "L7"
     ELSE IF hops = 2 THEN IF q.conditions >= 2 \/ q.order \/ q.aggs > 0 THEN "L6" ELSE "L5"
     ELSE IF hops = 1 THEN IF q.conditions > 0 \/ q.order \/ q.aggs > 0 THEN "L4" ELSE "L3"
     ELSE IF q.aggs > 0 \/ q.order THEN "L4"
     ELSE IF q.conditions > 0 THEN "L2" ELSE "L1"

Starts(q, i) == i = 1 \/ (q.multi /\ i = q.second)

\* An edge without constraints may go anywhere.
Allowed(schema, hop) ==
  LET pairs == {i \in DOMAIN schema.triplets : schema.triplets[i].edge = hop.edge}
  IN pairs = {} \/ \E i \in pairs : schema.triplets[i].src = hop.src /\ schema.triplets[i].dst = hop.dst

\* finditer: the last hop matched among the first n.  A match takes both nodes with it,
\* so that it needs a hop whose first node is not the end of the match before.
LastMatch(q) ==
  LET last[n \in 0..Len(q.hops)] ==
        IF n = 0 THEN 0
        ELSE IF q.hops[n].form = "forward" /\ (Starts(q, n) \/ last[n - 1] # n - 1) THEN n ELSE last[n - 1]
  IN last
Matched(q) == {n \in DOMAIN q.hops : LastMatch(q)[n] = n}

\* _cypher_edges_follow_schema looks at the hops that are matched, and of those at the
\* ones between two labels.  A variant: it looks at none.
EdgesFollowNothing(schema, q) == TRUE
EdgesFollow(schema, q) ==
  \A n \in Matched(q) : NoLabel \in {q.hops[n].src, q.hops[n].dst} \/ Allowed(schema, q.hops[n])

Rewritten(spec, how) ==
  LET q == QueryOf(spec)
      changed(i) ==
        [edge |-> IF i \in how.at /\ how.edge # AsAsked THEN how.edge ELSE q.hops[i].edge,
         src |-> IF how.bare /\ Starts(q, i) THEN NoLabel ELSE q.hops[i].src,
         dst |-> q.hops[i].dst,
         form |-> IF i \in how.at THEN how.form ELSE q.hops[i].form]
  IN IF how.repeats THEN q
     ELSE [q EXCEPT !.text = <<how.words, spec.property>>, !.aggs = @ + how.counts,
                    !.hops = [i \in DOMAIN @ |-> changed(i)]]

\* The labels that are written, and the edges that no variable is written for.
KnownItems(schema, q) ==
  \A i \in DOMAIN q.hops :
    /\ {q.hops[i].src, q.hops[i].dst} \ {NoLabel} \subseteq ToSet(schema.labels)
    /\ q.hops[i].form = "named" \/ q.hops[i].edge \in ToSet(schema.edges)

LlmCandidateValid(schema, c) ==
  Classify(c.query) = c.level /\ KnownItems(schema, c.query) /\ EdgesFollow(schema, c.query)

\* answers[i]: the rewritings of request i that came back, in order.
LlmCandidates(r, answers) ==
  LET of(i) == [k \in DOMAIN answers[i] |-> Candidate(specs[i], "llm_direct", Rewritten(specs[i], answers[i][k]))]
      all == Joined([i \in DOMAIN specs |-> of(i)])
  IN Selected(all, {i \in DOMAIN all : LlmCandidateValid(r.schema, all[i])})

\* A candidate whose query is not there yet, as long as there is room.
WithRoom(output, c) ==
  IF Len(output) >= MaxSkeletons \/ \E i \in DOMAIN output : output[i].query = c.query
  THEN output ELSE Append(output, c)
Filled(output, more) ==
  LET filled[n \in 0..Len(more)] == IF n = 0 THEN output ELSE WithRoom(filled[n - 1], more[n])
  IN filled[Len(more)]

\* A level without a candidate takes the place of the last one whose level has
\* another.  A variant: nothing is replaced.
WithLevelKept(output, c) == output
WithLevel(output, c) ==
  LET twice == {i \in DOMAIN output : CountOf(output, output[i].level) > 1}
  IN IF CountOf(output, c.level) > 0 \/ \E i \in DOMAIN output : output[i].query = c.query THEN output
     ELSE IF Len(output) < MaxSkeletons THEN Append(output, c)
     ELSE IF twice = {} THEN output ELSE [output EXCEPT ![Max(twice)] = c]

\* _merge_llm_with_template_fallback.
Merged(llm, templates) ==
  LET merged[n \in 0..Len(templates)] ==
        IF n = 0 THEN Filled(Filled(<< >>, llm), templates) ELSE WithLevel(merged[n - 1], templates[n])
  IN merged[Len(templates)]

-----------------------------------------------------------------------------
(* ValidationService.                                                      *)

\* The structural markers of the level's family: a hop counts that is written forwards.
FamilyValid(c) ==
  LET hops == Cardinality({i \in DOMAIN c.query.hops : c.query.hops[i].form # "backward"})
  IN CASE c.level = "L3" -> hops \in 1..2
       [] c.level \in {"L5", "L6"} -> hops = 2
       [] c.level = "L7" -> hops \in 2..3
       [] c.level = "L4" -> c.query.aggs > 0
       [] c.level = "L8" -> c.query.multi /\ c.query.aggs > 0
       [] OTHER -> TRUE

\* _coverage_bound_schema_items: how many of the bound hops a level lists.
ListedHops(level) ==
  CASE level \in {"L1", "L2", "L4"} -> 0 [] level = "L3" -> 1 [] level = "L7" -> 3 [] OTHER -> 2

\* _schema_items_valid looks at the listed items, not at the text.
SchemaValid(schema, c) ==
  /\ c.bound[1].src \in ToSet(schema.labels)
  /\ \A k \in 1..ListedHops(c.level) :
       /\ c.bound[k].dst \in ToSet(schema.labels) /\ c.bound[k].edge \in ToSet(schema.edges)
       /\ Allowed(schema, c.bound[k])

Valid(schema, c) == SchemaValid(schema, c) /\ FamilyValid(c) /\ Classify(c.query) = c.level

-----------------------------------------------------------------------------
(* The orchestrator: shortlist, round trip, release.                       *)

Passed(s) == s.canonical /\ s.consistent

ModeScore(mode) == IF mode = "llm_direct" THEN 2 ELSE 1

Budget(target, count) ==
  IF count <= target THEN count
  ELSE Smaller(count, IF target <= 1 THEN 3 ELSE IF target <= 3 THEN target + 2
                      ELSE IF target <= 10 THEN target + 3 ELSE target + 5)

\* What is new among the selected (query type, level, mode), then the quality.
\* L5 to L7 are queries of one type.
Type(level) == IF level \in {"L5", "L6", "L7"} THEN "MULTI_HOP" ELSE level
Score(selected, s) ==
  LET new(P(_)) == IF \E i \in DOMAIN selected : P(selected[i]) THEN 0 ELSE 1
  IN <<new(LAMBDA o : Type(o.level) = Type(s.level)), new(LAMBDA o : o.level = s.level),
       new(LAMBDA o : o.mode = s.mode), ModeScore(s.mode), IF Passed(s) THEN 1 ELSE 0, Rank(s.level)>>

Less(s, t) == \E n \in DOMAIN s : s[n] < t[n] /\ \A m \in 1..(n - 1) : s[m] = t[m]

\* The first of the best.
BestOf(selected, pool) ==
  CHOOSE i \in DOMAIN pool : \A j \in DOMAIN pool :
    /\ ~Less(Score(selected, pool[i]), Score(selected, pool[j]))
    /\ j < i => Less(Score(selected, pool[j]), Score(selected, pool[i]))

\* _greedy_diverse_pick; seed are those picked before.
Picked(pool, count, seed) ==
  LET pick[n \in 0..Len(pool)] ==
        IF n = 0 THEN [out |-> << >>, rest |-> pool]
        ELSE LET i == BestOf(seed \o pick[n - 1].out, pick[n - 1].rest)
             IN [out |-> Append(pick[n - 1].out, pick[n - 1].rest[i]), rest |-> RemoveAt(pick[n - 1].rest, i)]
  IN pick[Smaller(count, Len(pool))].out

OfLevel(pool, level) == Selected(pool, {i \in DOMAIN pool : pool[i].level = level})

ShortlistOf(pool, target) ==
  IF Budget(target, Len(pool)) >= Len(pool) THEN pool ELSE Picked(pool, Budget(target, Len(pool)), << >>)

\* _shortlist_validated_samples.
Shortlist(pool, targets, count) ==
  IF Wanted(targets) = {} THEN ShortlistOf(pool, count)
  ELSE Joined([i \in DOMAIN Levels |->
         IF targets[Levels[i]] = 0 THEN << >> ELSE ShortlistOf(OfLevel(pool, Levels[i]), targets[Levels[i]] + 2)])

\* _apply_roundtrip: what is consistent, and for a level that is short of its target
\* the samples that only the consistency check refused.  A variant: any sample.
FallbackAny(pool, level) == Selected(pool, {i \in DOMAIN pool : ~pool[i].consistent /\ pool[i].level = level})
Fallback(pool, level) ==
  Selected(pool, {i \in DOMAIN pool : ~pool[i].consistent /\ pool[i].canonical /\ pool[i].level = level})

PassedOf(pool) == Selected(pool, {i \in DOMAIN pool : Passed(pool[i])})
ApplyRoundtrip(pool, targets) ==
  IF ~RoundtripRequired THEN pool
  ELSE LET short(level) == targets[level] - CountOf(PassedOf(pool), level)
           more(level) == LET f == Fallback(pool, level) IN SubSeq(f, 1, Smaller(short(level), Len(f)))
       IN PassedOf(pool) \o Joined([i \in DOMAIN Levels |-> more(Levels[i])])

\* _select_release_batch: samples new to the history, level by level.
ReleaseByLevel(fresh, targets) ==
  LET out[n \in 0..Len(Levels)] ==
        IF n = 0 THEN << >>
        ELSE out[n - 1] \o Picked(OfLevel(fresh, Levels[n]), targets[Levels[n]], out[n - 1])
  IN out[Len(Levels)]

-----------------------------------------------------------------------------
(* The attempt.                                                            *)

Init ==
  /\ stage = "specs"
  /\ \E schema \in Schemas, targets \in Targets, count \in Counts, offset \in 0..MaxOffset :
       request = [schema |-> schema, targets |-> targets, offset |-> offset,
                  count |-> IF Wanted(targets) = {} THEN count ELSE Total(targets)]
  /\ specs = << >> /\ candidates = << >> /\ samples = << >> /\ released = << >>

BuildSpecs ==
  /\ stage = "specs"
  /\ specs' = IF request.schema.labels = << >> THEN << >>
              ELSE IF Wanted(request.targets) = {} THEN UntargetedSpecs(request) ELSE TargetedSpecs(request)
  /\ stage' = "candidates"
  /\ UNCHANGED <<request, candidates, samples, released>>

TemplateCandidates == [i \in DOMAIN specs |-> Candidate(specs[i], "template", QueryOf(specs[i]))]

\* The model is not asked, or answers some requests, each with its queries;
\* then the queries that are there twice go.
Instantiate ==
  /\ stage = "candidates"
  /\ \/ candidates' = Filled(<< >>, TemplateCandidates)
     \/ \E answered \in {A \in SUBSET DOMAIN specs : Cardinality(A) <= MaxAnswered} :
        \E answer \in [answered -> Answers] :
          candidates' = Merged(LlmCandidates(request, [i \in DOMAIN specs |->
                                 IF i \in answered THEN answer[i] ELSE << >>]), TemplateCandidates)
  /\ stage' = "validate"
  /\ UNCHANGED <<request, specs, samples, released>>

\* What the rules accept is run on TuGraph, and has rows there or not.
Validate ==
  /\ stage = "validate"
  /\ \E kept \in SUBSET {i \in DOMAIN candidates : Valid(request.schema, candidates[i])} :
       candidates' = Selected(candidates, kept)
  /\ stage' = "questions"
  /\ UNCHANGED <<request, specs, samples, released>>

\* What a sample came from is not looked at again.
Shorten ==
  /\ stage = "questions"
  /\ samples' = Shortlist([i \in DOMAIN candidates |->
       [level |-> candidates[i].level, mode |-> candidates[i].mode,
        canonical |-> FALSE, consistent |-> FALSE, fresh |-> FALSE]], request.targets, request.count)
  /\ stage' = "ask"
  /\ specs' = << >> /\ candidates' = << >>
  /\ request' = [request EXCEPT !.schema = [labels |-> << >>, edges |-> << >>, triplets |-> << >>],
                                !.offset = 0]
  /\ UNCHANGED released

\* A question: the model has passed it itself or not, the history has it or not, and
\* it will be found consistent with the query or not.
Ask ==
  /\ stage = "ask"
  /\ \E canonical, consistent, fresh \in SUBSET DOMAIN samples :
       samples' = [i \in DOMAIN samples |->
         [samples[i] EXCEPT !.canonical = i \in canonical, !.consistent = i \in consistent, !.fresh = i \in fresh]]
  /\ stage' = "roundtrip"
  /\ UNCHANGED <<request, specs, candidates, released>>

Roundtrip ==
  /\ stage = "roundtrip"
  /\ released' = ApplyRoundtrip(samples, request.targets)
  /\ stage' = "release"
  /\ UNCHANGED <<request, specs, candidates, samples>>

Release ==
  /\ stage = "release"
  /\ LET fresh == Selected(released, {i \in DOMAIN released : released[i].fresh})
         chosen == IF Wanted(request.targets) = {} THEN Picked(fresh, request.count, << >>)
                   ELSE ReleaseByLevel(fresh, request.targets)
     IN released' = SubSeq(chosen, 1, Smaller(Len(chosen), request.count))
  /\ stage' = "done"
  /\ UNCHANGED <<request, specs, candidates, samples>>

Next == BuildSpecs \/ Instantiate \/ Validate \/ Shorten \/ Ask \/ Roundtrip \/ Release

Spec == Init /\ [][Next]_vars

-----------------------------------------------------------------------------
(* Properties.                                                             *)

Candidates == [level : ToSet(Levels), mode : {"template", "llm_direct"}]
HasThreeHops(schema) == ContinuousPaths(schema.triplets) # << >>

\* What a schema has to have so that a level can be bound to it.
Binds(schema, level) ==
  /\ \A i \in DOMAIN schema.triplets :
       /\ {schema.triplets[i].src, schema.triplets[i].dst} \subseteq ToSet(schema.labels)
       /\ schema.triplets[i].edge \in ToSet(schema.edges)
  /\ \/ HasThreeHops(schema)
     \/ schema.triplets # << >> /\ ListedHops(level) <= 1
     \/ schema.triplets = << >> /\ (schema.edges # << >> \/ ListedHops(level) = 0)

\* Type invariant: stages, and no more candidates than the limit.
TypeOK ==
  /\ stage \in {"specs", "candidates", "validate", "questions", "ask", "roundtrip", "release", "done"}
  /\ \A i \in DOMAIN specs : specs[i].level \in ToSet(Levels) /\ specs[i].template \in 1..2
  /\ Len(specs) <= MaxSkeletons /\ Len(candidates) <= MaxSkeletons
  /\ \A i \in DOMAIN candidates : [level |-> candidates[i].level, mode |-> candidates[i].mode] \in Candidates
  /\ \A i \in DOMAIN released : released[i].level \in ToSet(Levels)

\* Every template of a level is classified as that level and has the structure of
\* its family, whatever the schema.  It also binds items that the schema has: on a
\* schema whose constraints speak of its own labels and edges, with a path of three
\* edges for every level, with an edge for those of at most one hop, and without
\* constraints as far as there are edges (LEVEL_BLUEPRINTS, _build_bindings,
\* _cypher_for_coverage_spec, DifficultyService, the registry).
TemplatesFit ==
  stage = "candidates" =>
    \A i \in DOMAIN specs :
      LET c == Candidate(specs[i], "template", QueryOf(specs[i]))
      IN /\ Classify(c.query) = c.level /\ FamilyValid(c)
         /\ Binds(request.schema, c.level) => SchemaValid(request.schema, c)

\* However many easy queries the model answers with, every level that was asked for
\* has a candidate left ("Coverage specs are the contract for requested difficulty
\* distribution").  Specs are there to say what was asked.
LevelsSurvive ==
  stage = "validate" => \A i \in DOMAIN specs : CountOf(candidates, specs[i].level) > 0

\* What is left of the schema in a validated query.  A template follows it in every
\* hop.  A rewriting has edges of the schema, but for those with a variable; and a hop
\* that it writes forwards, between two labels, goes as the schema allows or comes
\* right behind one that was matched and does.  So a wrong hop is found at the head of
\* a MATCH, and two in a row are; the second of a chain alone is not (finditer in
\* _cypher_edges_follow_schema; _schema_items_valid reads the listed items only).
ValidatedFollowsSchema ==
  stage = "questions" =>
    \A i \in DOMAIN candidates :
      LET q == candidates[i].query
          follows(k) == NoLabel \in {q.hops[k].src, q.hops[k].dst} \/ Allowed(request.schema, q.hops[k])
      IN \A k \in DOMAIN q.hops :
           IF candidates[i].mode = "template"
           THEN Allowed(request.schema, q.hops[k]) /\ q.hops[k].edge \in ToSet(request.schema.edges)
           ELSE /\ q.hops[k].form # "named" => q.hops[k].edge \in ToSet(request.schema.edges)
                /\ q.hops[k].form = "forward" =>
                     \/ follows(k)
                     \/ ~Starts(q, k) /\ q.hops[k - 1].form = "forward" /\ follows(k - 1)

\* With the round trip required, a sample that it refused is released only when the
\* model had passed the question itself and its level would be short without it.
ReleasedIsChecked ==
  stage = "done" /\ RoundtripRequired =>
    \A i \in DOMAIN released :
      \/ Passed(released[i])
      \/ /\ released[i].canonical
         /\ CountOf(PassedOf(samples), released[i].level) < request.targets[released[i].level]

\* A level is not left short while it has samples that passed and are new: it gets
\* its target, or all of them.
TargetsMet ==
  stage = "done" =>
    \A level \in Wanted(request.targets) :
      LET good == {i \in DOMAIN samples : samples[i].level = level /\ Passed(samples[i]) /\ samples[i].fresh}
      IN CountOf(released, level) >= Smaller(request.targets[level], Cardinality(good))

\* The levels of a request live as far as the candidates: typed, with templates that fit
\* them, and never pushed out.
SpecsKept == TypeOK /\ TemplatesFit /\ LevelsSurvive

\* A release holds what was checked and as much as was asked for.
ReleaseKept == ReleasedIsChecked /\ TargetsMet
=============================================================================
