---------------------------- MODULE RestrictedDsl ----------------------------
(***************************************************************************)
(* The restricted query DSL: how a binding plan becomes one                *)
(* (dsl/builder.py, RestrictedDslBuilder) and what is accepted as one      *)
(* (dsl/parser.py, parse_restricted_query_dsl).                            *)
(*                                                                         *)
(* A query is [shape, vertices: role |-> vertex, edges: role |-> edge,     *)
(* ops, filters: Seq([target, prop, op, literal]), projection].  Roles are *)
(* names; a target is "" when it is not given.  Every error of the builder *)
(* and of the parser has one effect on the pipeline                        *)
(* (compiler_shape_mismatch), so that only whether there is one is         *)
(* modelled.                                                               *)
(***************************************************************************)
EXTENDS SemanticBinding

MaxHops == 8
ChainRoles == <<"v0", "v1", "v2", "v3">>
ChainEdges == <<"e0", "e1", "e2">>

LastWith(seq, Test(_)) == Last(SelectSeq(seq, Test))

-----------------------------------------------------------------------------
(* RestrictedDslBuilder.                                                   *)

\* _filter_item: a filter on what no role is bound to has no target.
FilterItem(f, roles) ==
  [target |-> IF f.prop[1] \in DOMAIN roles THEN roles[f.prop[1]] ELSE "",
   prop |-> f.prop, op |-> f.op, literal |-> f.literal]
FilterItems(filters, roles) == MapSeq(filters, LAMBDA f : FilterItem(f, roles))

\* _projection_item, _projection_target: a target that is a role is kept, whatever the
\* property's owner is.
Projectable(projection, roles) ==
  \A p \in ToSet(projection) :
    \/ p.kind = "source" \/ p.prop[1] \in DOMAIN roles
    \/ p.kind = "property" /\ p.target \in Range(roles)
ProjectionItems(projection, roles) ==
  MapSeq(projection, LAMBDA p :
    IF p.kind = "source" THEN p
    ELSE [kind |-> p.kind, prop |-> p.prop, source |-> p.source, terms |-> p.terms,
          target |-> IF p.kind = "property" /\ p.target \in Range(roles) THEN p.target ELSE roles[p.prop[1]],
          alias |-> IF p.alias # << >> THEN p.alias
                    ELSE IF p.kind = "full" THEN <<Snake[p.prop[1]]>> ELSE <<p.prop[2]>>])

\* Without a projection, a lookup or a traversal shows the id of its last vertex.
IdOf(vertex) ==
  <<[kind |-> "property", prop |-> <<vertex, IdProperty[vertex]>>, target |-> "", source |-> NoSource,
     alias |-> <<Snake[vertex], IdProperty[vertex]>>, terms |-> {}]>>
OrId(projection, vertex) == IF projection = << >> THEN IdOf(vertex) ELSE projection

\* Where a source is read: groups and measures of a subquery under its name, bind.
Namespace(namespace, bind) == IF bind # "" /\ namespace \in {"group", "measure"} THEN bind ELSE namespace

\* A variant that limits before it sorts.
LimitSort(plan, bind) ==
  LET sorted(s) == [source |-> <<Namespace(s.source[1], bind), s.source[2]>>, direction |-> s.direction]
  IN (IF plan.limit = 0 THEN << >> ELSE <<[op |-> "limit", value |-> plan.limit]>>)
     \o (IF plan.sort = << >> THEN << >> ELSE <<[op |-> "sort", by |-> MapSeq(plan.sort, sorted)]>>)

\* _append_sort_limit.
SortLimit(plan, bind) ==
  LET sorted(s) == [source |-> <<Namespace(s.source[1], bind), s.source[2]>>, direction |-> s.direction]
  IN (IF plan.sort = << >> THEN << >> ELSE <<[op |-> "sort", by |-> MapSeq(plan.sort, sorted)]>>)
     \o (IF plan.limit = 0 THEN << >> ELSE <<[op |-> "limit", value |-> plan.limit]>>)

\* _reject_uncompiled_sort_limit: the compiler would drop them.
SortLimitCompiled(plan) ==
  \/ plan.shape \in AggregateShapes
  \/ plan.shape = "vertex_lookup" /\ plan.sort = << >>
  \/ plan.sort = << >> /\ plan.limit = 0

\* _build_vertex_lookup, _build_single_hop, _build_traversal_chain: a chain of roles.
\* With one edge the vertices after the second are not bound.
TraversalRoles(plan) ==
  LET hops == Len(plan.edges)
      names == IF plan.shape = "vertex_lookup" THEN <<"target">>
               ELSE IF hops = 1 THEN <<"start", "end">> ELSE [i \in 1..(hops + 1) |-> ChainRoles[i]]
  IN [i \in DOMAIN names |-> <<names[i], plan.vertices[i]>>]
\* Of two pairs for one name the last wins.
RolesByOwner(bound) ==
  [v \in {b[2] : b \in ToSet(bound)} |-> bound[Max({i \in DOMAIN bound : bound[i][2] = v})][1]]
VerticesByRole(bound) ==
  [r \in {b[1] : b \in ToSet(bound)} |-> bound[Max({i \in DOMAIN bound : bound[i][1] = r})][2]]

TraversalBuilds(plan) ==
  IF plan.shape = "vertex_lookup" THEN Len(plan.vertices) = 1
  ELSE /\ Len(plan.vertices) >= 2 /\ plan.edges # << >>
       /\ Len(plan.edges) > 1 => Len(plan.vertices) = Len(plan.edges) + 1

Traversal(plan) ==
  LET bound == TraversalRoles(plan)
      edges == IF plan.shape = "vertex_lookup" THEN << >> ELSE plan.edges
      name(i) == IF Len(edges) = 1 THEN "edge" ELSE ChainEdges[i]
      hop(i) == [op |-> "traverse_edge", from |-> bound[i][1], edge |-> name(i), to |-> bound[i + 1][1], dir |-> edges[i].dir]
      roles == RolesByOwner(bound)
  IN [shape |-> plan.shape, vertices |-> VerticesByRole(bound),
      edges |-> VerticesByRole([i \in DOMAIN edges |-> <<name(i), edges[i].name>>]),
      ops |-> [i \in DOMAIN edges |-> hop(i)] \o SortLimit(plan, ""),
      filters |-> FilterItems(plan.filters, roles),
      projection |-> ProjectionItems(OrId(plan.projection, Last(bound)[2]), roles)]

\* _build_variable_path: filters on the vertex it goes through are in the operation.
VariablePath(plan) ==
  LET bound == <<<<"start", plan.vertices[1]>>, <<"through", plan.vertices[2]>>>>
      roles == RolesByOwner(bound)
      through == {i \in DOMAIN plan.filters : plan.filters[i].prop[1] = plan.vertices[2]}
  IN [shape |-> plan.shape, vertices |-> VerticesByRole(bound), edges |-> << >>,
      ops |-> <<[op |-> "variable_path", start |-> "start", through |-> "through",
                 filters |-> FilterItems(Selected(plan.filters, through), roles),
                 edges |-> <<plan.edges[1].name>>, min |-> 1, max |-> MaxHops]>>,
      filters |-> FilterItems(Selected(plan.filters, DOMAIN plan.filters \ through), roles),
      projection |-> ProjectionItems(plan.projection, roles)]

\* _matches_parameter: a property's own name, or its owner's and its own; the primary
\* vertex's id goes by "id" too.
FillsParameter(prop, name, primary) ==
  \/ name \in {<<prop[2]>>, PropertyAlias(prop)}
  \/ primary = prop[1] /\ prop[2] = IdProperty[prop[1]] /\ name = <<Snake[prop[1]], "id">>

\* _path_pattern_parameters: a selected literal before a filter's literal.  Every equality
\* on a parameter is consumed by it, also the second one.
Parameters(plan) ==
  LET primary == IF plan.vertices = << >> THEN "" ELSE plan.vertices[1]
      fills(name) == SelectSeq(plan.literals, LAMBDA l : FillsParameter(<<l.owner, l.prop>>, name, primary))
                     \o MapSeq(SelectSeq(plan.filters, LAMBDA f : FillsParameter(f.prop, name, primary)), LAMBDA f : f.literal)
      names == {p.name : p \in ToSet(PathPatterns[plan.patterns[1]].params)}
  IN [n \in {n \in names : fills(n) # << >>} |-> fills(n)[1]]

NamedPathBuilds(plan) ==
  LET primary == IF plan.vertices = << >> THEN "" ELSE plan.vertices[1]
      consumed(f) == f.op = "eq" /\ \E n \in DOMAIN Parameters(plan) : FillsParameter(f.prop, n, primary)
  IN /\ plan.patterns # << >>
     /\ \A f \in ToSet(plan.filters) : consumed(f)
     /\ Projectable(plan.projection, << >>)

NamedPath(plan) ==
  [shape |-> plan.shape, vertices |-> IF plan.vertices = << >> THEN << >> ELSE "primary_vertex" :> plan.vertices[1],
   edges |-> << >>,
   ops |-> <<[op |-> "use_path_pattern", name |-> plan.patterns[1], params |-> Parameters(plan)]>>,
   filters |-> << >>, projection |-> plan.projection]

\* _build_metric_aggregate: group and filters are on the metric's own aliases.
MetricRoles(metric) == [v \in {a[2] : a \in AliasesOf(metric)} |-> AliasByOwner(metric, v)]
MetricAggregate(plan) ==
  LET metric == plan.metrics[1]
      shown(g) == [kind |-> "source", prop |-> g.prop, target |-> "", source |-> <<"group", g.alias>>, alias |-> g.alias, terms |-> {}]
      counted == [kind |-> "source", prop |-> << >>, target |-> "", source |-> <<"metric", <<metric>>>>, alias |-> <<metric>>, terms |-> {}]
  IN [shape |-> plan.shape, vertices |-> << >>, edges |-> << >>,
      ops |-> <<[op |-> "metric_aggregate", name |-> metric, group |-> plan.group,
                 filters |-> FilterItems(plan.filters, MetricRoles(metric))]>> \o SortLimit(plan, ""),
      filters |-> << >>,
      projection |-> IF plan.projection # << >> THEN plan.projection ELSE Append(MapSeq(plan.group, shown), counted)]

\* _aggregate_role_by_owner: what a group, a measure or a projection calls its target,
\* the last one winning; then the vertices' own names.
TargetedItems(plan) == plan.group \o plan.measures
                       \o SelectSeq(plan.projection, LAMBDA p : p.kind = "property" /\ p.target # "")
AggregateRoles(plan) ==
  FoldLeft(LAMBDA roles, x : (x.prop[1] :> x.target) @@ roles, << >>, TargetedItems(plan))
  @@ [v \in ToSet(plan.vertices) |-> Snake[v]]
AggregateVertices(plan) ==
  LET roles == AggregateRoles(plan)
      owners == Unique(MapSeq(TargetedItems(plan), LAMBDA x : x.prop[1]) \o plan.vertices)
  IN [r \in Range(roles) |-> LastWith(owners, LAMBDA o : roles[o] = r)]

\* _aggregate_outputs, _select_aggregate_output: what a projected property stands for.
Outputs(plan) == MapSeq(plan.group, LAMBDA g : [kind |-> "group", alias |-> g.alias, prop |-> g.prop])
                 \o MapSeq(plan.measures, LAMBDA m : [kind |-> "measure", alias |-> m.alias, prop |-> m.prop])
OutputsFor(p, outputs) ==
  LET same == SelectSeq(outputs, LAMBDA o : o.prop = p.prop)
      named == SelectSeq(same, LAMBDA o : o.alias = p.alias)
  IN IF p.alias # << >> /\ named # << >> THEN named ELSE same

AggregateBuilds(plan) ==
  /\ plan.measures # << >>
  /\ DOMAIN AggregateRoles(plan) \subseteq ToSet(plan.vertices)
  /\ \A p \in ToSet(plan.projection) :
       p.kind = "source" \/ (p.kind = "property" /\ Len(OutputsFor(p, Outputs(plan))) = 1)

AggregateProjection(plan, bind) ==
  LET all == MapSeq(Outputs(plan), LAMBDA o : [kind |-> "source", prop |-> o.prop, target |-> "",
                                               source |-> <<Namespace(o.kind, bind), o.alias>>, alias |-> o.alias, terms |-> {}])
      item(p) == LET o == OutputsFor(p, Outputs(plan))[1]
                 IN IF p.kind = "source" THEN [p EXCEPT !.source = <<Namespace(@[1], bind), @[2]>>]
                    ELSE [p EXCEPT !.kind = "source", !.target = "", !.source = <<Namespace(o.kind, bind), o.alias>>,
                                   !.alias = IF p.alias # << >> THEN p.alias ELSE o.alias]
  IN IF plan.projection = << >> THEN all ELSE MapSeq(plan.projection, item)

\* _build_ad_hoc_aggregate.
AdHocAggregate(plan) ==
  [shape |-> plan.shape, vertices |-> AggregateVertices(plan), edges |-> << >>,
   ops |-> <<[op |-> "aggregate", group |-> plan.group, measures |-> plan.measures]>> \o SortLimit(plan, ""),
   filters |-> FilterItems(plan.filters, AggregateRoles(plan)),
   projection |-> AggregateProjection(plan, "")]

\* _build_two_step_aggregate, _subquery_bind_as: the subquery is called what the first
\* source that is no group, measure or metric calls it.  The plan's filters are not used.
BindAs(plan) ==
  LET sources == MapSeq(SelectSeq(plan.projection, LAMBDA p : p.kind = "source") \o plan.sort, LAMBDA x : x.source)
      own == SelectSeq(sources, LAMBDA s : s[1] \notin {"group", "measure", "metric"})
  IN IF own = << >> THEN "subquery" ELSE own[1][1]
TwoStepAggregate(plan) ==
  [shape |-> plan.shape, vertices |-> AggregateVertices(plan), edges |-> << >>,
   ops |-> <<[op |-> "subquery", bind |-> BindAs(plan), group |-> plan.group, measures |-> plan.measures]>> \o SortLimit(plan, BindAs(plan)),
   filters |-> << >>, projection |-> AggregateProjection(plan, BindAs(plan))]

\* build: does the builder make a query of the plan?
MetricBuilds(plan) == Len(plan.metrics) = 1 /\ Projectable(plan.projection, << >>)
Builds(plan) ==
  /\ SortLimitCompiled(plan)
  /\ CASE plan.shape \in {"vertex_lookup", "single_hop_traversal"} ->
            /\ TraversalBuilds(plan)
            /\ Projectable(OrId(plan.projection, plan.vertices[1]), RolesByOwner(TraversalRoles(plan)))
       [] plan.shape = "variable_path_traversal" ->
            /\ Len(plan.vertices) >= 2 /\ Len(plan.edges) = 1
            /\ Projectable(plan.projection, RolesByOwner(<<<<"start", plan.vertices[1]>>, <<"through", plan.vertices[2]>>>>))
       [] plan.shape = "named_path_pattern" -> NamedPathBuilds(plan)
       [] plan.shape = "metric_aggregate" -> MetricBuilds(plan)
       [] plan.shape = "top_n" ->
            /\ plan.sort # << >> /\ plan.limit # 0
            /\ IF plan.metrics # << >> THEN MetricBuilds(plan) ELSE AggregateBuilds(plan)
       [] OTHER -> AggregateBuilds(plan)

Built(plan) ==
  CASE plan.shape \in {"vertex_lookup", "single_hop_traversal"} -> Traversal(plan)
    [] plan.shape = "variable_path_traversal" -> VariablePath(plan)
    [] plan.shape = "named_path_pattern" -> NamedPath(plan)
    [] plan.shape = "two_step_aggregate" -> TwoStepAggregate(plan)
    [] plan.shape = "metric_aggregate" \/ (plan.shape = "top_n" /\ plan.metrics # << >>) -> MetricAggregate(plan)
    [] OTHER -> AdHocAggregate(plan)

-----------------------------------------------------------------------------
(* parse_restricted_query_dsl.                                             *)

OpNames(query) == MapSeq(query.ops, LAMBDA o : o.op)
HopCount(names) == LET others == {i \in DOMAIN names : names[i] # "traverse_edge"}
                   IN IF others = {} THEN Len(names) ELSE Min(others) - 1
After(names, n) == SubSeq(names, n + 1, Len(names))
OptionalTail == {<< >>, <<"sort">>, <<"limit">>, <<"sort", "limit">>}

\* _validate_operation_sequence, _matches_*.
SequenceAllowed(query) ==
  LET names == OpNames(query)
      hops == HopCount(names)
      first(op) == names # << >> /\ names[1] = op
      primary(op) == first(op) /\ Tail(names) \in OptionalTail
      afterSubquery == Tail(names)
      inner == HopCount(afterSubquery)
  IN CASE query.shape = "vertex_lookup" -> names \in {<< >>, <<"limit">>}
       [] query.shape = "single_hop_traversal" -> hops > 0 /\ After(names, hops) \in OptionalTail
       [] query.shape = "variable_path_traversal" -> primary("variable_path")
       [] query.shape = "named_path_pattern" -> primary("use_path_pattern")
       [] query.shape = "metric_aggregate" -> primary("metric_aggregate")
       [] query.shape = "ad_hoc_aggregate" -> primary("aggregate")
       [] query.shape = "top_n" ->
            \/ After(names, 0) \in {<<"metric_aggregate", "sort", "limit">>, <<"aggregate", "sort", "limit">>}
            \/ hops > 0 /\ After(names, hops) = <<"aggregate", "sort", "limit">>
       [] query.shape = "two_step_aggregate" ->
            /\ first("subquery")
            /\ IF inner > 0
               THEN /\ Len(afterSubquery) > inner /\ afterSubquery[inner + 1] = "aggregate"
                    /\ After(afterSubquery, inner + 1) \in OptionalTail
               ELSE \/ afterSubquery \in OptionalTail
                    \/ afterSubquery # << >> /\ afterSubquery[1] = "filter_subquery" /\ Tail(afterSubquery) \in OptionalTail
       [] OTHER -> FALSE

\* _validate_traverse_edge.
HopIsValid(query, op) ==
  /\ {op.from, op.to} \subseteq DOMAIN query.vertices /\ op.edge \in DOMAIN query.edges
  /\ Joins(query.edges[op.edge], query.vertices[op.from], query.vertices[op.to], op.dir)

\* _validate_filters, with what may be a target.
FiltersValid(filters, vertices) ==
  \A f \in ToSet(filters) :
    /\ f.target # "" => f.target \in DOMAIN vertices /\ vertices[f.target] = f.prop[1]
    /\ HasProperty(f.prop)

\* _parameter_type_matches: a parsed value is a number or a time; every other is a string.
ValueFits(literal, type) ==
  LET own == PropertyType(<<literal.owner, literal.prop>>)
  IN CASE type = "string" -> literal.match \notin {"typed_parse", "relative_time"}
       [] type = "int" -> literal.match = "typed_parse" /\ own = "int"
       [] type = "float" -> literal.match = "typed_parse" /\ own \in NumericTypes
       [] OTHER -> TRUE

\* _validate_path_pattern.
ParametersValid(op) ==
  LET declared == ToSet(PathPatterns[op.name].params)
  IN /\ DOMAIN op.params = {p.name : p \in declared}
     /\ \A p \in declared : ValueFits(op.params[p.name], p.type)

\* _validate_metric_dimension_target.
DimensionValid(metric, target, prop) ==
  <<target, prop[1]>> \in AliasesOf(metric) /\ <<target, prop[2]>> \in Metrics[metric].dims

\* _validate_aggregate, _validate_measure_function_type.
AggregateValid(query, op) ==
  /\ \A x \in ToSet(op.group) \cup ToSet(op.measures) :
       x.target \in DOMAIN query.vertices /\ query.vertices[x.target] = x.prop[1] /\ HasProperty(x.prop)
  /\ \A m \in ToSet(op.measures) : m.function \in {"sum", "avg"} => PropertyType(m.prop) \in NumericTypes

\* _validate_subquery: one role.  Nobody writes one with operations of its own.
SubqueryValid(query, op) ==
  /\ op.measures # << >>
  /\ Cardinality({x.target : x \in ToSet(op.group) \cup ToSet(op.measures)}) <= 1
  /\ AggregateValid(query, op)

OpIsValid(query, op) ==
  CASE op.op = "traverse_edge" -> HopIsValid(query, op)
    [] op.op = "variable_path" ->
         /\ {op.start, op.through} \subseteq DOMAIN query.vertices /\ ToSet(op.edges) \subseteq Edges
         /\ op.max <= MaxHops /\ op.min <= op.max
         /\ FiltersValid(op.filters, [r \in {op.through} |-> query.vertices[r]])
    [] op.op = "use_path_pattern" -> ParametersValid(op)
    [] op.op = "metric_aggregate" ->
         /\ \A g \in ToSet(op.group) : DimensionValid(op.name, g.target, g.prop)
         /\ \A f \in ToSet(op.filters) : f.target # "" /\ DimensionValid(op.name, f.target, f.prop)
    [] op.op = "aggregate" -> op.measures # << >> /\ AggregateValid(query, op)
    [] op.op = "subquery" -> SubqueryValid(query, op)
    [] OTHER -> TRUE

\* _source_outputs: what a source may name.
SourceOutputs(query) ==
  LET of(namespace, seq) == {<<namespace, x.alias>> : x \in ToSet(seq)}
      outputs(op) ==
        CASE op.op = "use_path_pattern" -> {<<"path", o>> : o \in ToSet(PathPatterns[op.name].outputs)}
          [] op.op = "metric_aggregate" -> of("group", op.group) \cup {<<"metric", <<op.name>>>>}
          [] op.op = "aggregate" -> of("group", op.group) \cup of("measure", op.measures)
          [] op.op = "subquery" -> of(op.bind, op.group \o op.measures)
          [] OTHER -> {}
  IN UNION {outputs(op) : op \in ToSet(query.ops)}

\* _validate_projection.
ProjectionValid(query) ==
  \A p \in ToSet(query.projection) :
    CASE p.kind = "source" -> p.source \in SourceOutputs(query)
      [] p.kind = "full" -> p.target \in DOMAIN query.vertices
      [] OTHER -> p.target \in DOMAIN query.vertices /\ query.vertices[p.target] = p.prop[1] /\ HasProperty(p.prop)

SortsValid(query) ==
  \A op \in ToSet(query.ops) : op.op = "sort" => \A s \in ToSet(op.by) : s.source \in SourceOutputs(query)

\* parse_restricted_query_dsl accepts the query.
QueryParses(query) ==
  /\ SequenceAllowed(query)
  /\ \A op \in ToSet(query.ops) : OpIsValid(query, op)
  /\ FiltersValid(query.filters, query.vertices)
  /\ ProjectionValid(query)
  /\ SortsValid(query)
=============================================================================
