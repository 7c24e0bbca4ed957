---------------------------- MODULE SemanticBinding ----------------------------
(***************************************************************************)
(* From the model's answer to a binding plan: the candidate boundary       *)
(* (understanding/grounded_understanding.py), SemanticBinder               *)
(* (binding/binder.py) and SemanticValidator                               *)
(* (validation/semantic_validator.py).                                     *)
(*                                                                         *)
(* Abstracted: an answer and a plan are records with the same fields; a    *)
(* label is the sequence of its words; a source is <<namespace, alias>>.   *)
(*   filters     Seq([prop, op, raw, inline])   owner "" when not given,   *)
(*               raw "" when not given, inline a sequence of at most one   *)
(*   group       Seq([form, alias, target, prop])                          *)
(*   measures    Seq([form, alias, function, target, prop])                *)
(*   projection  Seq([kind, prop, target, source, alias, terms]); terms    *)
(*               are the words of the question the item says it answers   *)
(*   sort        Seq([source, label, direction])                           *)
(* Decomposition coverage and wording are GenerationPipeline's.            *)
(***************************************************************************)
EXTENDS LiteralResolution

AggregateShapes == {"metric_aggregate", "ad_hoc_aggregate", "top_n", "two_step_aggregate"}
Shapes == AggregateShapes \cup
          {"vertex_lookup", "single_hop_traversal", "variable_path_traversal", "named_path_pattern"}

\* The elements of seq at the indices in keep, in their order; each element once.
Selected(seq, keep) ==
  [n \in 1..Cardinality(keep) |-> seq[CHOOSE i \in keep : Cardinality({j \in keep : j < i}) = n - 1]]
Unique(seq) == Selected(seq, {i \in DOMAIN seq : \A j \in 1..(i - 1) : seq[j] # seq[i]})
MapSeq(seq, F(_)) == [i \in DOMAIN seq |-> F(seq[i])]
PropertyAlias(p) == <<Snake[p[1]], p[2]>>
NoSource == << >>

-----------------------------------------------------------------------------
(* hydrate_grounded_understanding: what the answer's hints mean.           *)

\* normalize_group_by: a property is named after its owner and itself.
HydratedGroup(group) ==
  MapSeq(group, LAMBDA g :
    IF g.form # "property" THEN g
    ELSE [g EXCEPT !.alias = PropertyAlias(g.prop), !.target = Snake[g.prop[1]]])

\* _measure_from_hint: count(X) counts the property "id", whatever identifies an X;
\* "count(X) as ..." is called cnt.
HydratedMeasures(measures) ==
  MapSeq(measures, LAMBDA m :
    IF m.form \notin {"count", "named_count"} THEN m
    ELSE [m EXCEPT !.alias = IF m.form = "count" THEN <<Snake[m.prop[1]], "count">> ELSE <<"cnt">>,
                   !.function = "count", !.target = Snake[m.prop[1]], !.prop = <<m.prop[1], "id">>])

\* The labels that a later hint may use for a group or a measure: the last one wins.
GroupAliases(group) ==
  LET labels(g) == {g.prop} \cup IF g.form = "property" THEN {<<g.prop[2]>>} ELSE {}
  IN FoldLeft(LAMBDA known, g : [l \in labels(g) |-> g.alias] @@ known, << >>, SelectSeq(group, LAMBDA g : g.form # "label"))

MeasureAliases(measures) ==
  LET labels(m) == {m.alias} \cup IF m.form \in {"count", "named_count"}
                                  THEN {<<"count">>, <<"count", m.prop[1]>>} ELSE {}
  IN FoldLeft(LAMBDA known, m : [l \in labels(m) |-> m.alias] @@ known, << >>,
              SelectSeq(measures, LAMBDA m : m.form \in {"full", "count", "named_count"}))

\* _source_for_label: a measure before a group.
SourceFor(label, groups, measures) ==
  IF label \in DOMAIN measures THEN <<"measure", measures[label]>>
  ELSE IF label \in DOMAIN groups THEN <<"group", groups[label]>>
  ELSE NoSource

\* normalize_sort: a label that names nothing is left as it is; with two words it
\* looks like a source.
HydratedSort(sort, groups, measures) ==
  MapSeq(sort, LAMBDA s :
    LET found == SourceFor(s.label, groups, measures)
    IN IF s.source # NoSource THEN s
       ELSE IF found # NoSource THEN [s EXCEPT !.source = found]
       ELSE IF Len(s.label) = 2 THEN [s EXCEPT !.source = <<s.label[1], <<s.label[2]>>>>]
       ELSE s)

\* normalize_projection: in an aggregate, what was grouped by or measured is shown
\* as such; a bare vertex is shown whole.  Kinds of the answer: source, full, vertex,
\* property, label.
HydratedProjection(projection, shape, groups, measures) ==
  LET aggregate == shape \in AggregateShapes
      hint(p) == IF p.alias # << >> THEN SourceFor(p.alias, groups, measures) ELSE NoSource
      named(p) == SourceFor(<<p.prop[2]>>, groups, measures)
      grouped(p) == IF p.prop \in DOMAIN groups THEN <<"group", groups[p.prop]>>
                    ELSE IF <<p.prop[2]>> \in DOMAIN groups THEN <<"group", groups[<<p.prop[2]>>]>> ELSE NoSource
      labelled(p) == IF p.kind = "label" THEN SourceFor(p.prop, groups, measures) ELSE NoSource
      firstOf(sources) == LET found == SelectSeq(sources, LAMBDA s : s # NoSource)
                          IN IF found = << >> THEN NoSource ELSE found[1]
      source(p) == IF ~aggregate THEN NoSource
                   ELSE IF p.kind = "label" THEN firstOf(<<labelled(p), IF Len(p.prop) = 2 THEN grouped(p) ELSE NoSource>>)
                   ELSE firstOf(<<hint(p), named(p), grouped(p)>>)
  IN MapSeq(projection, LAMBDA p :
       IF p.kind \in {"source", "full"} THEN p
       ELSE IF p.kind = "vertex" THEN [p EXCEPT !.kind = "full"]
       ELSE IF source(p) # NoSource
            THEN [p EXCEPT !.kind = "source", !.source = source(p),
                           !.alias = IF p.alias # << >> /\ p.kind = "property" THEN p.alias ELSE source(p)[2]]
       ELSE IF Len(p.prop) = 2 THEN [p EXCEPT !.kind = "property"]
       ELSE p)

\* The answer, hydrated.  Its literals are the resolver's; its projection falls back
\* on what it selected to be returned (to_binder_payload).
Hydrated(answer, results) ==
  LET measures == HydratedMeasures(answer.measures)
      group == HydratedGroup(answer.group)
      groups == GroupAliases(group)
      named == MeasureAliases(measures)
      shown == HydratedProjection(answer.projection, answer.shape, groups, named)
      returned == MapSeq(answer.returned, LAMBDA p :
                    [kind |-> "property", prop |-> p, target |-> "", source |-> NoSource, alias |-> << >>, terms |-> {}])
  IN [answer EXCEPT !.literals = MapSeq(answer.literals, LAMBDA i : results[i]),
                    !.group = group,
                    !.measures = measures,
                    !.sort = HydratedSort(answer.sort, groups, named),
                    !.projection = IF shown = << >> THEN returned ELSE shown]

\* What the answer says with a hint only: a property that hydration looks up.
HintedProperties(answer) ==
  {g.prop : g \in {g \in ToSet(answer.group) : g.form = "property"}}
  \cup {<<m.prop[1], "id">> : m \in {m \in ToSet(answer.measures) : m.form \in {"count", "named_count"}}}

\* CandidateBoundaryError: what was selected, hinted at, grouped by, shown or filtered
\* on is among the candidates.  Measures in full and filters without an owner are not
\* looked at, and neither is a literal written into a filter.
InsideCandidates(answer, candidates, results) ==
  LET grounded == Hydrated(answer, results)
      selected == {<<"vertex", v>> : v \in ToSet(answer.vertices)} \cup {<<"edge", e.name>> : e \in ToSet(answer.edges)}
                  \cup {<<"property", p>> : p \in ToSet(answer.properties) \cup ToSet(answer.returned)}
                  \cup {<<"metric", m>> : m \in ToSet(answer.metrics)} \cup {<<"path_pattern", p>> : p \in ToSet(answer.patterns)}
      shown == {<<"property", p.prop>> : p \in {p \in ToSet(grounded.projection) : p.kind = "property"}}
               \cup {<<"vertex", p.prop[1]>> : p \in {p \in ToSet(grounded.projection) : p.kind = "full"}}
      used == {f.prop : f \in {f \in ToSet(answer.filters) : f.prop[1] # ""}} \cup {g.prop : g \in {g \in ToSet(grounded.group) : g.form # "label"}}
  IN /\ ToSet(answer.literals) \subseteq DOMAIN results
     /\ selected \cup shown \subseteq candidates
     /\ {<<"property", p>> : p \in used \cup HintedProperties(answer)} \subseteq candidates

\* GroundedUnderstanding.validate_projection_contract.
ProjectionSpeaks(grounded) == \A p \in ToSet(grounded.projection) : p.kind # "label"

GroundingOutcome(answer, candidates, results) ==
  IF ~InsideCandidates(answer, candidates, results) THEN "semantic_match_rejected"
  ELSE IF ~ProjectionSpeaks(Hydrated(answer, results)) THEN "grounded_understanding_schema_invalid" ELSE "ok"

-----------------------------------------------------------------------------
(* SemanticBinder.  Outcomes: ok, reject (BindingValidationError), crash (an *)
(* exception the pipeline does not expect).                                  *)

FilterOperators == {"eq", "neq", "gt", "gte", "lt", "lte", "in", "contains"}

RawOf(filter) == IF filter.raw = "" /\ filter.inline # << >> THEN filter.inline[1].raw ELSE filter.raw
MatchesRaw(literal, raw) == raw = "" \/ raw = literal.raw \/ (literal.match # "unresolved" /\ raw = literal.value)

\* _extract_filter_owner_name: a property without an owner has that of the one literal,
\* else of the one selected property, of its name.
FilterProperty(filter, literals, properties) ==
  LET near == {l.owner : l \in {l \in ToSet(literals \o filter.inline) :
                                 l.prop = filter.prop[2] /\ MatchesRaw(l, filter.raw)}}
      chosen == {p[1] : p \in {p \in ToSet(properties) : p[2] = filter.prop[2]}}
      owners == IF filter.prop[1] # "" THEN {filter.prop[1]}
                ELSE IF Cardinality(near) = 1 THEN near
                ELSE IF Cardinality(chosen) = 1 THEN chosen ELSE {}
  IN {<<o, filter.prop[2]>> : o \in owners}

LiteralsFor(filter, property, literals) ==
  LET fits(l) == <<l.owner, l.prop>> = property /\ MatchesRaw(l, RawOf(filter))
  IN IF filter.inline # << >>
     THEN SelectSeq(filter.inline, LAMBDA l : <<l.owner, l.prop>> = property /\ l.raw = RawOf(filter))
     ELSE SelectSeq(literals, fits)

\* One filter after the other: a literal written into a filter is there for the next.
LiteralsAt(g, n) == g.literals \o FlattenSeq([i \in 1..(n - 1) |-> g.filters[i].inline])
PropertiesAt(g, n) == FilterProperty(g.filters[n], LiteralsAt(g, n), g.properties)
BoundFilter(g, n) ==
  LET property == CHOOSE p \in PropertiesAt(g, n) : TRUE
      literals == LiteralsFor(g.filters[n], property, LiteralsAt(g, n))
  IN [prop |-> property, op |-> g.filters[n].op, literals |-> literals]
FilterOutcome(g, n, candidates) ==
  LET filter == g.filters[n]
      bound == BoundFilter(g, n)
  IN IF \E l \in ToSet(filter.inline) : l.match = "malformed" THEN "crash"
     ELSE IF \/ PropertiesAt(g, n) = {} \/ <<"property", bound.prop>> \notin candidates
             \/ bound.literals = << >> \/ filter.op \notin FilterOperators
     THEN "reject" ELSE "ok"

\* _filters_from_selected_literals: without a filter, every selected literal is one;
\* if properties are selected, those of theirs only.
DefaultFilters(literals, properties) ==
  LET kept(l) == l.match # "unresolved" /\ (properties = << >> \/ <<l.owner, l.prop>> \in ToSet(properties))
  IN MapSeq(Selected(literals, {i \in DOMAIN literals : kept(literals[i])}),
            LAMBDA l : [prop |-> <<l.owner, l.prop>>, op |-> "eq", literal |-> l])

\* _bind_literals, _bind_filters; then the filters' properties are bound too.
BoundFilters(g, candidates) ==
  LET failing == {n \in DOMAIN g.filters : FilterOutcome(g, n, candidates) # "ok"}
      bound == [n \in DOMAIN g.filters |->
                  [prop |-> BoundFilter(g, n).prop, op |-> BoundFilter(g, n).op, literal |-> BoundFilter(g, n).literals[1]]]
      filters == IF g.filters = << >> THEN DefaultFilters(g.literals, g.properties) ELSE bound
      kept == {<<"property", f.prop>> : f \in ToSet(filters)} \subseteq candidates
  IN IF failing # {} THEN [outcome |-> FilterOutcome(g, Min(failing), candidates), literals |-> g.literals, filters |-> << >>]
     ELSE [outcome |-> IF kept THEN "ok" ELSE "reject",
           literals |-> LiteralsAt(g, Len(g.filters) + 1), filters |-> filters]

\* _normalize_measure_item: a measure of a vertex is one of its id property; the
\* lookup of that vertex is not guarded.
BoundMeasures(measures) ==
  MapSeq(measures, LAMBDA m :
    IF m.form # "vertex" \/ m.prop[1] \notin Vertices THEN m
    ELSE [m EXCEPT !.form = "full", !.alias = IF m.alias = << >> THEN <<Snake[m.prop[1]], "count">> ELSE m.alias,
                   !.target = IF m.target = "" THEN Snake[m.prop[1]] ELSE m.target,
                   !.prop = <<m.prop[1], IdProperty[m.prop[1]]>>])

\* _bind_projection, _bind_sort, _bind_group_by, _bind_measures, in this order.
ReferencesOutcome(g, candidates) ==
  LET inside(properties) == {<<"property", p>> : p \in properties} \subseteq candidates
      shown == {p.prop : p \in {p \in ToSet(g.projection) : p.kind = "property"}}
      whole == {<<"vertex", p.prop[1]>> : p \in {p \in ToSet(g.projection) : p.kind = "full"}}
      measures == ToSet(BoundMeasures(g.measures))
      bound == /\ inside(shown) /\ whole \subseteq candidates
               /\ \A s \in ToSet(g.sort) : s.source # NoSource
               /\ \A d \in ToSet(g.group) : d.form # "label" /\ d.alias # << >> /\ d.target # "" /\ inside({d.prop})
  IN IF ~bound THEN "reject"
     ELSE IF \E m \in measures : m.form = "vertex" THEN "crash"
     ELSE IF \E m \in measures : \/ m.form = "label" \/ m.alias = << >> \/ m.target = ""
                                 \/ m.function \notin {"count", "sum", "avg", "min", "max"} \/ ~inside({m.prop})
     THEN "reject" ELSE "ok"

\* _infer_unambiguous_connecting_edge: the one edge between two of the vertices.
InferredEdge(vertices) ==
  LET joined(i, j, e) == i < j /\ EdgeConnects(e, vertices[i], vertices[j], "either")
      matches == {m \in (DOMAIN vertices) \X (DOMAIN vertices) \X Edges : joined(m[1], m[2], m[3])}
      way(m) == IF EdgeConnects(m[3], vertices[m[1]], vertices[m[2]], "forward") THEN "forward" ELSE "backward"
      one == CHOOSE m \in matches : TRUE
  IN IF Cardinality(matches) # 1 THEN << >> ELSE <<[name |-> one[3], dir |-> way(one)]>>

\* _infer_vertex_chain_from_edges: the vertices along the edges, each once.
InferredChain(edges) ==
  LET start(e) == IF e.dir = "forward" THEN Ends[e.name].from ELSE Ends[e.name].to
      end(e) == IF e.dir = "forward" THEN Ends[e.name].to ELSE Ends[e.name].from
  IN IF \E i \in 1..(Len(edges) - 1) : end(edges[i]) # start(edges[i + 1]) THEN << >>
     ELSE Unique(<<start(edges[1])>> \o MapSeq(edges, end))

\* _infer_vertex_from_unique_property_owner.
InferredVertex(properties, filters, projection, literals) ==
  LET owners == ({p[1] : p \in ToSet(properties)} \cup {f.prop[1] : f \in ToSet(filters)}
                 \cup {p.prop[1] : p \in {p \in ToSet(projection) : p.kind = "property"}}
                 \cup {l.owner : l \in ToSet(literals)}) \cap Vertices
  IN IF Cardinality(owners) = 1 THEN SetToSeq(owners) ELSE << >>

NormalShape(shape) ==
  CASE shape \in {"lookup", "vertex"} -> "vertex_lookup"
    [] shape = "single_hop" -> "single_hop_traversal"
    [] shape = "variable_path" -> "variable_path_traversal"
    [] shape = "named_path" -> "named_path_pattern"
    [] shape = "aggregate" -> "ad_hoc_aggregate"
    [] OTHER -> shape

\* bind: the vertices are the chain of the edges, if that completes those named; the edge
\* of a lookup is the one between its vertices.
Reached(named, given, chain, manyEdges) ==
  LET completed == manyEdges /\ Len(named) # Len(given) + 1 /\ chain # << >> /\ ToSet(named) \subseteq ToSet(chain)
  IN IF completed THEN chain ELSE named

PlanAlong(g, bound, measures, asked, reached, edges, manyEdges) ==
  LET traversal == asked = "vertex_lookup" /\ edges # << >> /\ Len(reached) >= 2
      vertices == IF asked = "vertex_lookup" /\ ~traversal /\ reached = << >>
                  THEN InferredVertex(g.properties, bound.filters, g.projection, bound.literals) ELSE reached
      shape == IF traversal \/ (manyEdges /\ Len(vertices) = Len(edges) + 1) THEN "single_hop_traversal"
               ELSE IF asked = "metric_aggregate" /\ g.metrics = << >> /\ measures # << >> THEN "ad_hoc_aggregate" ELSE asked
  IN [shape |-> shape, vertices |-> vertices, edges |-> edges, properties |-> g.properties,
      literals |-> bound.literals, filters |-> bound.filters, metrics |-> Unique(g.metrics),
      patterns |-> Unique(g.patterns), group |-> g.group, measures |-> measures, projection |-> g.projection,
      sort |-> g.sort, limit |-> g.limit]

PlanThrough(g, bound, asked, given, reached, manyEdges) ==
  PlanAlong(g, bound, BoundMeasures(g.measures), asked, reached,
            IF given = << >> /\ asked \in {"vertex_lookup", "single_hop_traversal"} THEN InferredEdge(reached) ELSE given,
            manyEdges)

PlanOf(g, candidates) ==
  LET asked == NormalShape(g.shape)
      given == Unique(g.edges)
      manyEdges == asked = "variable_path_traversal" /\ Len(given) > 1
  IN PlanThrough(g, BoundFilters(g, candidates), asked, given,
                 Reached(Unique(g.vertices), given, InferredChain(given), manyEdges), manyEdges)

BindingOutcome(g, candidates) ==
  LET filters == BoundFilters(g, candidates).outcome
  IN IF filters # "ok" THEN filters ELSE ReferencesOutcome(g, candidates)

-----------------------------------------------------------------------------
(* SemanticValidator.                                                        *)

\* _validate_edge_endpoints: of a traversal; a path of many hops is not looked at.
TraversalJoins(plan) ==
  \/ plan.shape # "single_hop_traversal"
  \/ /\ Len(plan.vertices) >= 2 /\ plan.edges # << >>
     /\ Len(plan.edges) > 1 => Len(plan.vertices) = Len(plan.edges) + 1
     /\ \A i \in DOMAIN plan.edges :
          Joins(plan.edges[i].name, plan.vertices[i], plan.vertices[i + 1], plan.edges[i].dir)

OwnersDeclare(plan) ==
  /\ \A p \in ToSet(plan.properties) : HasProperty(p)
  /\ \A f \in ToSet(plan.filters) : HasProperty(f.prop)
  /\ \A x \in {p \in ToSet(plan.projection) : p.kind = "property"} : HasProperty(x.prop)
  /\ \A x \in ToSet(plan.group) : HasProperty(x.prop)
  /\ \A x \in ToSet(plan.measures) : HasProperty(x.prop)

AliasesOf(metric) == ToSet(Metrics[metric].aliases)
\* alias_by_owner: of the aliases with one label, the last.
AliasByOwner(metric, owner) ==
  LET of == SelectSeq(Metrics[metric].aliases, LAMBDA a : a[2] = owner)
  IN IF of = << >> THEN "" ELSE Last(of)[1]

\* _validate_metric_dimensions: a group names a dimension, or has the owner and name of
\* one, whatever it calls its target.
DimensionsAllowed(plan) ==
  LET names(m, g) == <<g.target, g.prop[2]>> \in Metrics[m].dims
      owns(m, g) == <<g.target, g.prop[1]>> \in AliasesOf(m)
      means(m, g) == \E a \in AliasesOf(m) : a[2] = g.prop[1] /\ <<a[1], g.prop[2]>> \in Metrics[m].dims
      filtered(m, f) == <<AliasByOwner(m, f.prop[1]), f.prop[2]>> \in Metrics[m].dims
  IN plan.shape \in {"metric_aggregate", "top_n"} =>
       \A m \in ToSet(plan.metrics) :
         /\ \A g \in ToSet(plan.group) : IF names(m, g) THEN owns(m, g) ELSE means(m, g)
         /\ \A f \in ToSet(plan.filters) : filtered(m, f)

MeasuresNumeric(plan) ==
  \A m \in ToSet(plan.measures) : m.function \in {"sum", "avg"} => PropertyType(m.prop) \in NumericTypes

PlanIsValid(plan) ==
  /\ plan.shape \in Shapes
  /\ TraversalJoins(plan)
  /\ OwnersDeclare(plan)
  /\ DimensionsAllowed(plan)
  /\ MeasuresNumeric(plan)
=============================================================================
