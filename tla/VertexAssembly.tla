---------------------------- MODULE VertexAssembly ----------------------------
(***************************************************************************)
(* Queries about one vertex that are assembled without a model:            *)
(* assembly/zero_hop.py, and the _zero_hop_* helpers of core/pipeline.py   *)
(* with what they take to be counted.  A question has two more fields:     *)
(* owned, the words it says something "has", and joined, whether it joins  *)
(* two things by "and".                                                    *)
(***************************************************************************)
EXTENDS PathAssembly

CONSTANTS
  Likely,         \* the vertices whose score as a candidate is at least 0.7
  CountedWords,   \* the words that say the values of a property are counted
  NonEmptyWords,  \* those that ask for a property to have a value
  TotalWords,     \* those for how many that say "total"
  NumberWord      \* the word that stands for a count nobody named

-----------------------------------------------------------------------------
(* The vertex.                                                             *)

\* _zero_hop_preferred_vertex: that of the literals, unless another one is likely.
Preferred(question, candidates, results) ==
  LET owners == {r.owner : r \in ToSet(results)} \cap Vertices
  IN IF Len(PathWords(question)) > 1 \/ Cardinality(owners) # 1 THEN {}
     ELSE IF (VerticesAmong(candidates) \cap Likely) \ owners # {} THEN {} ELSE owners

\* _zero_hop_candidates_for_assembler, _unique_vertex.
TheVertex(question, candidates, results) ==
  LET preferred == Preferred(question, candidates, results)
      known == VerticesAmong(candidates)
  IN IF preferred # {} THEN preferred ELSE IF Cardinality(known) = 1 THEN known ELSE {}

VertexQuery(shape, vertex, ops, filters, projection) ==
  [shape |-> shape, vertices |-> [r \in {"target"} |-> vertex], edges |-> << >>, ops |-> ops, filters |-> filters, projection |-> projection]

\* The literal of a property that is a candidate: there must be one.
LiteralsOf(vertex, name, candidates, results) ==
  LET of == {i \in DOMAIN results : results[i].owner = vertex /\ results[i].prop = name}
  IN IF <<"property", <<vertex, name>>>> \in candidates /\ Cardinality(of) = 1 THEN <<results[TheOne(of)]>> ELSE << >>

\* _assemble_f1, _assemble_f2: an ordering is not looked at.
VertexShown(question, candidates, vertex, literals, items) ==
  LET limit == LimitAsked(question)
      shown == \A p \in ToSet(items) : p.kind = "full" \/ <<"property", p.prop>> \in candidates
  IN IF items = << >> \/ ~shown \/ Uncovered(question, items, <<vertex>>) # {} THEN Nothing
     ELSE VertexQuery("vertex_lookup", vertex, IF limit = 0 THEN << >> ELSE <<[op |-> "limit", value |-> limit]>>,
                      MapSeq(literals, LAMBDA r : FilterOf(question, r, "target")),
                      MapSeq(items, LAMBDA p : [p EXCEPT !.target = "target"]))

VertexFiltered(question, candidates, vertex, literals, filtered) ==
  IF filtered /\ (literals = << >> \/ OperatorFor(question, literals[1]) = "unsupported") THEN Nothing
  ELSE VertexShown(question, candidates, vertex, literals, ProjectionOf(question, <<vertex>>))

VertexReadOf(question, candidates, results, filtered, vertex) ==
  VertexFiltered(question, candidates, vertex,
                 IF filtered /\ (\E r \in ToSet(results) : results = <<r>>) THEN LiteralsOf(vertex, results[1].prop, candidates, results) ELSE << >>,
                 filtered)
VertexRead(question, candidates, results, filtered) ==
  LET found == TheVertex(question, candidates, results)
  IN IF found = {} THEN Nothing ELSE VertexReadOf(question, candidates, results, filtered, TheOne(found))

-----------------------------------------------------------------------------
(* What is counted of it.                                                  *)

\* _is_count_slot.
CountIntent(question) == question.intent = "count" \/ question.output = "scalar"
Bare(text) == [text |-> text, slot |-> "projection", attached |-> ""]
Meant(word, vertex) == SinglePlain(word, <<vertex>>)
IsThing(word, vertex) == ObjectNamed(word, {vertex}) # {}
QuantitySeq(question) == SelectSeq(ProjectionSeq(question), LAMBDA w : w.text \in QuantityWords)
FilterSeq(question) == SelectSeq(question.words, LAMBDA w : w.slot = "filter")
AskedOrFiltered(question) == ProjectionSeq(question) \o FilterSeq(question)

\* _zero_hop_explicit_count_property_terms_from_quantity: "how many" is said of a property.
ExplicitlyCounted(question, vertex) ==
  LET of(w) == IF w.attached = "" \/ IsThing(Bare(w.attached), vertex) THEN {} ELSE Meant(Bare(w.attached), vertex)
  IN {<<w.attached, TheOne(of(w))>> : w \in {w \in ToSet(QuantitySeq(question)) : of(w) # {}}}

\* _zero_hop_implicit_count_property_terms: the one property that a count speaks of.
ImplicitlyCounted(question, vertex) ==
  LET words == ProjectionSeq(question) \o IF question.owned # {} THEN FilterSeq(question) ELSE << >>
      counts(w) == /\ w.text \notin QuantityWords \cup NoiseWords \cup ShareWords \cup CountedWords
                   /\ ~IsThing(w, vertex) /\ Meant(w, vertex) # {}
      found == SelectSeq(words, counts)
      properties == UNION {Meant(w, vertex) : w \in ToSet(found)}
  IN IF CountIntent(question) /\ Cardinality(properties) = 1 THEN {<<w.text, TheOne(properties)>> : w \in ToSet(found)} ELSE {}

\* _zero_hop_property_count_candidate_terms, and those of them that mean a property.
NamedInCount(question, vertex) ==
  LET words == FlattenSeq(MapSeq(AskedOrFiltered(question), LAMBDA w :
                 <<w>> \o IF w.text \in CountedWords /\ w.attached # "" THEN <<Bare(w.attached)>> ELSE << >>))
      named(w) == /\ w.text \notin QuantityWords \cup CountedWords \cup NoiseWords \cup NonEmptyWords
                  /\ ~IsThing(w, vertex) /\ Meant(w, vertex) # {}
  IN SelectSeq(words, named)

\* _zero_hop_quantity_projection_terms_for_property, else all words for how many.
QuantitiesFor(p, question, vertex, all) ==
  LET of(w) == w.attached = "" \/ Meant(Bare(w.attached), vertex) = {p}
      own == {w.text : w \in {w \in ToSet(QuantitySeq(question)) : of(w)}}
  IN IF own = {} THEN all ELSE own

Measure(vertex, name, alias, terms) ==
  [form |-> "full", alias |-> alias, function |-> "count", target |-> "target", prop |-> <<vertex, name>>, terms |-> terms]

\* _zero_hop_count_measure_from_projection_terms: the words for how many; a count that has
\* none is about the number.
HowMany(question, implicit) ==
  LET said == Texts(question, "projection") \cap (QuantityWords \cup ShareWords \cup CountedWords)
      modified == {w.text : w \in ToSet(AskedOrFiltered(question))} \cap CountedWords # {}
      unnamed == CountIntent(question) /\ (implicit # {} \/ (modified /\ Texts(question, "filter") \cap NonEmptyWords # {}))
  IN IF said = {} /\ unnamed THEN {NumberWord} ELSE said

\* Its other half: the measure of the one property that is meant, if there is one.
MeasureOf(question, vertex, explicit, named, implicit, modifiers, properties, quantities) ==
  LET p == TheOne(properties)
      ofIt == {w.text : w \in {w \in ToSet(AskedOrFiltered(question)) :
                                 w.text \in CountedWords /\ w.attached # "" /\ Meant(Bare(w.attached), vertex) = {p}}}
      terms == IF explicit # {} THEN {e[1] : e \in explicit} \cup ofIt
               ELSE (IF named # << >> THEN {named[1].text} ELSE {e[1] : e \in implicit}) \cup modifiers
  IN IF Cardinality(properties) # 1 THEN << >>
     ELSE <<Measure(vertex, p[2], <<Snake[vertex], p[2], "count">>, terms \cup QuantitiesFor(p, question, vertex, quantities))>>

PropertyCounted(question, vertex, explicit, named, implicit, modifiers, quantities) ==
  MeasureOf(question, vertex, explicit, named, implicit, modifiers,
            IF explicit # {} THEN {e[2] : e \in explicit}
            ELSE IF quantities = {} \/ (modifiers = {} /\ implicit = {}) THEN {}
            ELSE UNION {Meant(w, vertex) : w \in ToSet(named)} \cup {e[2] : e \in implicit},
            quantities)

\* The property whose values are counted.
PropertyMeasuredBy(question, vertex, implicit) ==
  PropertyCounted(question, vertex, ExplicitlyCounted(question, vertex), NamedInCount(question, vertex), implicit,
                  {w.text : w \in ToSet(AskedOrFiltered(question))} \cap CountedWords, HowMany(question, implicit))
PropertyMeasure(question, vertex) == PropertyMeasuredBy(question, vertex, ImplicitlyCounted(question, vertex))

\* _zero_hop_entity_count_measure_from_projection_terms.
EntityMeasure(question, vertex) ==
  LET of(w) == /\ w.attached # "" /\ ObjectNamed(Bare(w.attached), {vertex}) = {vertex}
               /\ question.owned # {} => w.text \in TotalWords
      own == {w.text : w \in {w \in ToSet(QuantitySeq(question)) : of(w)}}
      totals == {w.text : w \in {w \in ToSet(QuantitySeq(question)) : w.text \in TotalWords /\ w.attached = ""}}
      terms == IF own # {} THEN own ELSE IF question.joined THEN totals ELSE {}
  IN IF terms = {} THEN << >> ELSE <<Measure(vertex, IdProperty[vertex], <<Snake[vertex], "count">>, terms)>>

\* _zero_hop_count_aggregate_from_projection_terms: else the vertices are counted.
MeasuresFrom(vertex, property, entity) ==
  LET left == property[1].terms \ (entity[1].terms \cup NodeWords)
  IN IF property = << >> THEN <<Measure(vertex, IdProperty[vertex], <<Snake[vertex], "count">>, {})>>
     ELSE IF entity = << >> THEN property
     ELSE <<entity[1], [property[1] EXCEPT !.terms = IF left = {} THEN @ ELSE left]>>
Measures(question, vertex) == MeasuresFrom(vertex, PropertyMeasure(question, vertex), EntityMeasure(question, vertex))

\* _zero_hop_non_null_filters_from_terms: the properties that must have a value.
NonEmptyProperties(question, vertex, measures) ==
  LET words == FilterSeq(question)
      before(i) == SelectSeq(SubSeq(words, 1, i - 1), LAMBDA w : w.text \notin NonEmptyWords \cup DOMAIN OperatorWords \cup CountedWords)
      about(i) == IF words[i].attached # "" THEN words[i].attached ELSE IF before(i) = << >> THEN "" ELSE Last(before(i)).text
      demanded == {i \in DOMAIN words : words[i].text \in NonEmptyWords /\ about(i) # ""}
      owned == {w \in ToSet(words) : w.text \in question.owned \ (CountedWords \cup NonEmptyWords)}
      counted == {m.prop : m \in ToSet(PropertyMeasure(question, vertex))}
  IN UNION {Meant(Bare(about(i)), vertex) : i \in demanded}
     \cup (IF Len(measures) > 1 THEN {} ELSE UNION {Meant(w, vertex) : w \in owned} \ counted)

NoLiteral(p) == Result("", p, "deterministic_non_null", "")

\* _assemble_f3, _zero_hop_filters_for_assembler: a literal that is a word of what is
\* counted is no condition.
Counted(question, candidates, results, vertex, measures, filled) ==
  LET conditions == SelectSeq(results, LAMBDA r : r.raw \notin UNION {m.terms : m \in ToSet(measures)})
      literals(r) == LiteralsOf(vertex, r.prop, candidates, results)
      supported(r) == literals(r) # << >> /\ OperatorFor(question, r) # "unsupported"
      nonNull(p) == [target |-> "target", prop |-> p, op |-> "is_not_null", literal |-> NoLiteral(p)]
  IN IF ~(\A r \in ToSet(conditions) : supported(r)) \/ ~(\A p \in ToSet(filled) : <<"property", p>> \in candidates) THEN Nothing
     ELSE VertexQuery("ad_hoc_aggregate", vertex,
            <<[op |-> "aggregate", group |-> << >>, measures |-> measures]>>,
            MapSeq(conditions, LAMBDA r : FilterOf(question, literals(r)[1], "target")) \o MapSeq(filled, nonNull),
            MapSeq(measures, LAMBDA m : SourceItem(<<"measure", m.alias>>, m.terms)))

CountedBy(question, candidates, results, vertex, measures) ==
  Counted(question, candidates, results, vertex, measures, SetToSeq(NonEmptyProperties(question, vertex, measures)))
CountedOf(question, candidates, results, vertex) ==
  CountedBy(question, candidates, results, vertex, Measures(question, vertex))
VertexCounted(question, candidates, results) ==
  LET found == TheVertex(question, candidates, results)
  IN IF found = {} THEN Nothing ELSE CountedOf(question, candidates, results, TheOne(found))
=============================================================================
