-------------------------- MODULE StructuralCoverage --------------------------
(***************************************************************************)
(* What the question's structure demands of a query                        *)
(* (validation/structural_requirements.py), and what its projection words  *)
(* ask to see of a vertex (core/pipeline.py, the _projection_* and         *)
(* _resolve_projection_* helpers).                                         *)
(*                                                                         *)
(* Abstracted: which words stand for what is given by constants.  A        *)
(* question has three more fields here: output, the shape of its answer;   *)
(* detailed, the words it uses with "information" behind them; and along,  *)
(* the words beside one of a path.                                         *)
(***************************************************************************)
EXTENDS CypherCompilation

CONSTANTS
  AggregateIntents,  \* the intents that are aggregates
  AggregateWords,    \* the words that ask for one
  RelationWords,     \* the words of a path that name no vertex
  Directions,        \* word of an ordering |-> "asc" or "desc"
  Counts,            \* word of a limit |-> its number
  FieldWords,        \* the words of a projection that name a field
  WholeWords,        \* those that ask for all of a vertex
  VagueWords,        \* those of them that say so of any number of vertices
  Compounds,         \* word |-> the vertices it asks for all of
  QuantityWords,     \* the words that ask how many
  NodeWords,         \* the words that a count of vertices answers
  ModifierWords,     \* the words that ask for nothing of their own
  Surfaces,          \* property name |-> the words it answers
  CountMetrics       \* the metrics that are counts

Texts(question, slot) == {w.text : w \in {w \in ToSet(question.words) : w.slot = slot}}

-----------------------------------------------------------------------------
(* derive_structural_requirements.                                         *)

\* _order_direction: a word for descending anywhere decides.
DirectionAsked(words) ==
  LET said == {Directions[w] : w \in words \cap DOMAIN Directions}
  IN IF "desc" \in said THEN "desc" ELSE IF "asc" \in said THEN "asc" ELSE "any"

\* _limit_value: the first number.
LimitAsked(question) ==
  LET numbers == SelectSeq(question.words, LAMBDA w : w.slot = "limit" /\ w.text \in DOMAIN Counts)
  IN IF numbers = << >> THEN 0 ELSE Counts[numbers[1].text]

\* _minimum_path_hops: one less than the words that name a vertex, where a word said of two
\* things counts twice, and one that has another of them in it is not counted.
HopsAsked(question) ==
  LET anchors == {w \in ToSet(question.words) : w.slot = "path" /\ w.text \notin RelationWords}
      compact == {a \in anchors : \A b \in anchors : <<a.text, b.text>> \notin Includes}
  IN Max({0, Cardinality(compact) - 1})

\* _projection_slot_texts: fields, and whatever is said of something.
TermsAsked(question) ==
  LET words == {w \in ToSet(question.words) : w.slot = "projection"}
      owners == {w.attached : w \in words}
  IN {w.text : w \in {w \in words : w.text \notin owners /\ (w.attached # "" \/ w.text \in FieldWords)}}

Requirements(question) ==
  [aggregate |-> \/ question.intent \in AggregateIntents \/ question.output = "grouped_rows"
                 \/ {w.text : w \in ToSet(question.words)} \cap AggregateWords # {},
   group |-> Texts(question, "group_by") # {},
   order |-> Texts(question, "order_by") # {},
   direction |-> DirectionAsked(Texts(question, "order_by")),
   limited |-> Texts(question, "limit") # {},
   limit |-> LimitAsked(question),
   hops |-> HopsAsked(question),
   terms |-> TermsAsked(question)]

-----------------------------------------------------------------------------
(* validate_dsl_structural_coverage.                                       *)

\* _path_hop_capacity: any pattern is long enough.
HopCapacity(query) ==
  Max({Len(HopsOf(query))} \cup {o.max : o \in ToSet(OpsOf(query, "variable_path"))}
      \cup (IF OpsOf(query, "use_path_pattern") # << >> THEN {99} ELSE {}))

\* _projection_item_covers_term: by what it says it answers, by its name, or by its property.
Answers(item, term) ==
  \/ term \in item.terms \cup ToSet(item.alias) \cup ToSet(IF item.kind = "source" THEN item.source[2] ELSE << >>)
  \/ item.kind = "full" /\ term \in WholeWords
  \/ item.kind = "property" /\ item.prop[2] \in DOMAIN Surfaces /\ term \in Surfaces[item.prop[2]]

\* _has_measure_projection, _has_count_measure.
ShowsMeasure(query) ==
  \E p \in ToSet(query.projection) :
    \/ "count" \in ToSet(p.alias)
    \/ p.kind = "source" /\ (p.source[1] \in {"measure", "metric"} \/ "count" \in ToSet(p.source[2]))
MeasuredBy(op) == IF op.op \in {"aggregate", "subquery"} THEN ToSet(op.measures) ELSE {}
CountsSomething(query) ==
  \E op \in ToSet(query.ops) : \/ op.op = "metric_aggregate" /\ op.name \in CountMetrics
                               \/ \E m \in MeasuredBy(op) : m.function = "count"

TermsCovered(terms, query) ==
  LET answered(t) == \E p \in ToSet(query.projection) : Answers(p, t)
      counted(t) == ShowsMeasure(query) /\ (t \in QuantityWords \/ (t \in NodeWords /\ CountsSomething(query)))
      covered == {t \in terms : answered(t) \/ counted(t)}
      concrete == terms \ ModifierWords
  IN (IF covered \cap concrete = {} THEN terms ELSE concrete) \subseteq covered

GroupsOf(op) == IF op.op \in {"aggregate", "subquery", "metric_aggregate"} THEN op.group ELSE << >>

StructureCovered(asked, query) ==
  LET sorted == {s.direction : s \in ToSet(SortsOf(query))}
      limits == {o.value : o \in ToSet(OpsOf(query, "limit"))}
  IN /\ asked.aggregate => query.shape \in AggregateShapes
     /\ asked.group => \E op \in ToSet(query.ops) : GroupsOf(op) # << >>
     /\ asked.order => IF asked.direction = "any" THEN sorted # {} ELSE asked.direction \in sorted
     /\ asked.limited => IF asked.limit = 0 THEN limits # {} ELSE asked.limit \in limits
     /\ HopCapacity(query) >= asked.hops
     /\ asked.terms # {} => query.projection # << >> /\ TermsCovered(asked.terms, query)

-----------------------------------------------------------------------------
(* What a projection word asks to see.                                     *)

ProjectionWords(question) == {w \in ToSet(question.words) : w.slot = "projection"}

\* _resolve_projection_object_owner.
ObjectNamed(word, vertices) ==
  LET named == NamedBy(word.text, vertices) IN IF Cardinality(named) = 1 THEN named ELSE {}

\* _projection_chained_attachment_owner_names.
ChainedOwners(word, question, vertices) ==
  LET through == {w \in ProjectionWords(question) : w.text = word.attached /\ w.text \in WholeWords}
  IN UNION {NamedBy(w.attached, vertices) : w \in through}

CompoundOwners(word, vertices) == IF word.text \in DOMAIN Compounds THEN Compounds[word.text] \cap vertices ELSE {}

\* _resolve_projection_vertex_full: the one vertex of which all is asked for.
WholeVertex(word, question, vertices) ==
  LET said == NamedBy(IF word.attached # "" THEN word.attached ELSE word.text, vertices)
      chained == ChainedOwners(word, question, vertices)
      owners == IF said # {} THEN said ELSE IF chained # {} THEN chained
                ELSE IF Cardinality(vertices) = 1 THEN vertices ELSE {}
      found == IF word.text \in WholeWords THEN owners ELSE CompoundOwners(word, vertices)
      vague == Cardinality(vertices) > 2 /\ word.text \notin WholeWords \ VagueWords
  IN IF vague \/ Cardinality(found) # 1 THEN {} ELSE found

\* _projection_slot_term_requires_property.
AsksProperty(word, vertices) ==
  \/ word.attached # ""
  \/ \E p \in DOMAIN PropertyWords : p[1] \in vertices /\ word.text \in PropertyWords[p]
  \/ CompoundOwners(word, vertices) # {}
  \/ NamedBy(word.text, vertices) = {}

\* _projection_object_is_path_context.
OnPath(word, question) ==
  Texts(question, "path") # {} /\ (word.text \in Texts(question, "path") \/ word.text \in question.along)

\* _is_scalar_or_aggregate_output.
AggregateOutput(question) ==
  \/ Requirements(question).aggregate \/ question.output = "scalar"
  \/ {w.slot : w \in ToSet(question.words)} \cap {"group_by", "order_by", "limit"} # {}
  \/ Texts(question, "projection") \cap QuantityWords # {}

\* _naked_object_projection_clarification_question: only things are asked for, and
\* nothing of them.
OutputUnclear(question, candidates) ==
  LET vertices == {v \in Vertices : <<"vertex", v>> \in candidates}
      naked(w) == /\ WholeVertex(w, question, vertices) = {} /\ w.text \notin question.detailed
                  /\ ~AsksProperty(w, vertices) /\ ObjectNamed(w, vertices) # {}
  IN /\ ~AggregateOutput(question) /\ vertices # {}
     /\ \A w \in ProjectionWords(question) : naked(w)
     /\ \E w \in ProjectionWords(question) : ~OnPath(w, question)

\* _enrich_binder_projection_from_decomposition: an answer that shows nothing shows the
\* vertices that the question names.
WholeItem(vertex) ==
  [kind |-> "full", prop |-> <<vertex>>, target |-> "", source |-> NoSource, alias |-> <<Snake[vertex]>>, terms |-> {}]
Enriched(grounded, question) ==
  LET vertices == ToSet(grounded.vertices)
      others(w) == \E o \in ProjectionWords(question) \ {w} : AsksProperty(o, vertices)
      object(w) == IF w.text \in question.detailed \/ (OnPath(w, question) /\ ~others(w)) THEN ObjectNamed(w, vertices) ELSE {}
      shown(w) == LET whole == WholeVertex(w, question, vertices) IN IF whole # {} THEN whole ELSE object(w)
      items == MapSeq(SelectSeq(question.words, LAMBDA w : w.slot = "projection"),
                      LAMBDA w : SetToSeq({WholeItem(v) : v \in shown(w)}))
  IN IF grounded.projection # << >> \/ grounded.vertices = << >> THEN grounded
     ELSE [grounded EXCEPT !.projection = Unique(FlattenSeq(items))]
=============================================================================
