-------------------------- MODULE CypherCompilation --------------------------
(***************************************************************************)
(* From a query to Cypher: CypherCompiler (compiler/compiler.py,           *)
(* compiler/projection.py, compiler/literals.py) and the validation of its *)
(* own output (cypher_validation).                                         *)
(*                                                                         *)
(* Cypher is [labels: role |-> vertex, hops, where, with, returns, order,  *)
(* limit].  A variable is its role: the compiler gives every role its own. *)
(* with is what a WITH computes.  An expression is [form, role, name].     *)
(***************************************************************************)
EXTENDS RestrictedDsl

CONSTANTS
  ReservedAliases,   \* the aliases that are words of the language
  Placeholders       \* the texts in which a $ stands before a name

IsTime(l) == l.match = "relative_time"
IsNumber(l) == l.match = "typed_parse"

-----------------------------------------------------------------------------
(* projection_aliases.                                                     *)

BaseAlias(p) == IF p.alias # << >> THEN p.alias ELSE IF p.kind = "source" THEN p.source[2] ELSE <<p.prop[2]>>
OwnerPrefix(p) == IF p.kind = "source" THEN p.source[1] ELSE Snake[p.prop[1]]

\* _safe_projection_alias.
SafeAlias(alias, p) ==
  LET vertex == <<Snake[p.prop[1]]>>
  IN IF alias \notin ReservedAliases THEN alias
     ELSE IF p.kind # "full" THEN Append(alias, "value")
     ELSE IF vertex \notin ReservedAliases THEN vertex ELSE Append(vertex, "value")

\* A variant that numbers every second column of a name alike.
DedupedOnce(alias, used) == IF alias \notin used THEN alias ELSE Append(alias, ToString(2))

\* _dedupe_alias.
Deduped(alias, used) ==
  LET numbered(i) == Append(alias, ToString(i))
      free == {i \in 2..(Cardinality(used) + 2) : numbered(i) \notin used}
  IN IF alias \notin used THEN alias ELSE numbered(Min(free))

\* An alias that several items have is prefixed with its owner, then made unique.
ProjectionAliases(projection) ==
  LET count(alias) == Cardinality({i \in DOMAIN projection : BaseAlias(projection[i]) = alias})
      named(p) == IF count(BaseAlias(p)) > 1 THEN <<OwnerPrefix(p)>> \o BaseAlias(p) ELSE BaseAlias(p)
  IN FoldLeft(LAMBDA used, p : Append(used, Deduped(SafeAlias(named(p), p), ToSet(used))), << >>, projection)

-----------------------------------------------------------------------------
(* CypherCompiler.                                                         *)

Expr(form, role, name) == [form |-> form, role |-> role, name |-> name]
PropertyOf(role, name) == Expr("property", role, <<name>>)

OpsOf(query, name) == Selected(query.ops, {i \in DOMAIN query.ops : query.ops[i].op = name})
HopsOf(query) == OpsOf(query, "traverse_edge")
\* The one operation that is no hop, no ordering and no limit.
PrimaryOf(query) ==
  CHOOSE o \in ToSet(query.ops) : o.op \in {"metric_aggregate", "aggregate", "subquery", "variable_path", "use_path_pattern"}
IsMetric(query) == \E o \in ToSet(query.ops) : o.op = "metric_aggregate"
IsChain(query) == \E o \in ToSet(query.ops) : o.op = "traverse_edge"
IsAggregate(query) == query.shape \in {"ad_hoc_aggregate", "top_n"} /\ ~IsMetric(query)

\* A variant that leaves out what a variable path's operation filters by.
FiltersAround(query) ==
  CASE query.shape \in {"named_path_pattern", "two_step_aggregate"} -> << >>
    [] IsMetric(query) -> PrimaryOf(query).filters
    [] OTHER -> query.filters

\* What each compilation filters by: a metric by its operation's filters, a variable path by
\* both, a named path and the second step of an aggregate by none.
FiltersOf(query) ==
  CASE query.shape \in {"named_path_pattern", "two_step_aggregate"} -> << >>
    [] IsMetric(query) -> PrimaryOf(query).filters
    [] query.shape = "variable_path_traversal" -> PrimaryOf(query).filters \o query.filters
    [] OTHER -> query.filters

VertexByAlias(metric) ==
  [r \in {a[1] : a \in AliasesOf(metric)} |-> (CHOOSE a \in AliasesOf(metric) : a[1] = r)[2]]

\* The roles that MATCH binds, and their labels.
Labels(query) ==
  LET used(items) == {x.target : x \in ToSet(items)} \ {""}
      bound(roles) == [r \in roles |-> query.vertices[r]]
  IN CASE query.shape = "vertex_lookup" -> bound(used(query.filters) \cup used(query.projection))
       [] IsChain(query) -> bound(UNION {{h.from, h.to} : h \in ToSet(HopsOf(query))})
       [] query.shape = "variable_path_traversal" -> bound({PrimaryOf(query).start, PrimaryOf(query).through})
       [] IsMetric(query) -> VertexByAlias(PrimaryOf(query).name)
       [] query.shape = "named_path_pattern" -> << >>
       [] OTHER -> bound(used(PrimaryOf(query).group) \cup used(PrimaryOf(query).measures) \cup used(FiltersOf(query)))

\* _compile_traverse_chain_match, the variable path's MATCH.
MatchedHops(query) ==
  LET path == PrimaryOf(query)
      step(h) == [from |-> h.from, edge |-> query.edges[h.edge], to |-> h.to, dir |-> h.dir, max |-> 1]
  IN IF query.shape = "variable_path_traversal"
     THEN <<[from |-> path.start, edge |-> path.edges[1], to |-> path.through, dir |-> "forward", max |-> path.max]>>
     ELSE MapSeq(HopsOf(query), step)

\* _aggregate_source_expressions: the last of one alias wins.
SourceExpressions(query) ==
  LET op == PrimaryOf(query)
      last(items, alias) == items[Max({i \in DOMAIN items : items[i].alias = alias})]
      named(kind, items) == {<<kind, x.alias>> : x \in ToSet(items)}
      read(x) == PropertyOf(x.target, x.prop[2])
      computed(x) == Expr(x.function, x.target, <<x.prop[2]>>)
      metric == op.op = "metric_aggregate"
  IN [s \in named("group", op.group) \cup IF metric THEN {<<"metric", <<op.name>>>>} ELSE named("measure", op.measures) |->
        IF s[1] = "group" THEN read(last(op.group, s[2]))
        ELSE IF metric THEN Expr("metric", "", s[2]) ELSE computed(last(op.measures, s[2]))]

\* What a subquery lets through its WITH, under the names it was given.
SubquerySources(op) ==
  LET aliases == {x.alias : x \in ToSet(op.group \o op.measures)}
  IN [s \in {<<op.bind, a>> : a \in aliases} |-> Expr("output", "", s[2])]

KnownSources(query) ==
  IF query.shape = "two_step_aggregate" THEN SubquerySources(PrimaryOf(query))
  ELSE IF IsMetric(query) \/ IsAggregate(query) THEN SourceExpressions(query) ELSE << >>

\* _compile_projection_item, _compile_source_projection_item.
ItemExpression(query, p) ==
  CASE p.kind = "source" -> KnownSources(query)[p.source]
    [] p.kind = "full" -> Expr("vertex", p.target, << >>)
    [] OTHER -> PropertyOf(p.target, p.prop[2])

Returns(query) ==
  LET aliases == ProjectionAliases(query.projection)
      template == PathPatterns[PrimaryOf(query).name].outputs
  IN IF query.shape = "named_path_pattern"
     THEN MapSeq(template, LAMBDA o : [expr |-> Expr("template", "", o), alias |-> o])
     ELSE [i \in DOMAIN query.projection |-> [expr |-> ItemExpression(query, query.projection[i]), alias |-> aliases[i]]]

\* A variant in which a lookup has neither, as a traversal.
OrderedAggregates(query) == query.shape \in AggregateShapes

\* _append_order_limit: by what is returned, else by what it is computed from.  Traversals
\* have neither.
Ordered(query) == query.shape = "vertex_lookup" \/ query.shape \in AggregateShapes
SortsOf(query) == FlattenSeq(MapSeq(OpsOf(query, "sort"), LAMBDA o : o.by))
ReturnedAs(query, source) ==
  LET aliases == ProjectionAliases(query.projection)
      items == {i \in DOMAIN aliases : query.projection[i].kind = "source" /\ query.projection[i].source = source}
  IN IF items = {} THEN << >> ELSE aliases[Max(items)]
OrderBy(query) ==
  LET by(s) == IF ReturnedAs(query, s.source) # << >> THEN Expr("alias", "", ReturnedAs(query, s.source))
               ELSE KnownSources(query)[s.source]
  IN IF Ordered(query) THEN MapSeq(SortsOf(query), LAMBDA s : [expr |-> by(s), direction |-> s.direction]) ELSE << >>
LimitOf(query) == LET limits == OpsOf(query, "limit")
                  IN IF limits = << >> \/ ~Ordered(query) THEN 0 ELSE Last(limits).value

\* _compile_filters.
Where(query) ==
  MapSeq(FiltersOf(query), LAMBDA f : [role |-> f.target, name |-> f.prop[2], op |-> f.op, literal |-> f.literal])
\* _compiled_path_pattern_parameters: in the order of the template's parameters.
TemplateLiterals(query) ==
  IF query.shape = "named_path_pattern" THEN Range(PrimaryOf(query).params) ELSE {}
InlinedLiterals(query) ==
  {f.literal : f \in {f \in ToSet(FiltersOf(query)) : f.op # "is_not_null"}} \cup TemplateLiterals(query)

CypherOf(query) ==
  [labels |-> Labels(query), hops |-> MatchedHops(query), where |-> Where(query),
   with |-> IF query.shape = "two_step_aggregate" THEN Range(SourceExpressions(query)) ELSE {},
   returns |-> Returns(query), order |-> OrderBy(query), limit |-> LimitOf(query)]

\* compile_draft and inline_cypher_parameters: ok, refused (CypherCompilerError, ValueError)
\* or crash (KeyError, NotImplementedError, which the pipeline does not expect).
Contiguous(hops) == \A i \in 2..Len(hops) : hops[i].from = hops[i - 1].to
RolesFit(query) ==
  CASE query.shape = "vertex_lookup" -> Cardinality(DOMAIN Labels(query)) = 1
    [] IsChain(query) -> Contiguous(HopsOf(query))
    [] query.shape = "two_step_aggregate" \/ IsAggregate(query) -> Cardinality(DOMAIN Labels(query)) = 1
    [] OTHER -> TRUE
SourcesKnown(query) ==
  /\ query.shape \in AggregateShapes =>
       \A p \in ToSet(query.projection) : p.kind = "source" /\ p.source \in DOMAIN KnownSources(query)
  /\ query.shape \notin AggregateShapes \cup {"named_path_pattern"} => \A p \in ToSet(query.projection) : p.kind # "source"
  /\ Ordered(query) => \A s \in ToSet(SortsOf(query)) :
       ReturnedAs(query, s.source) # << >> \/ s.source \in DOMAIN KnownSources(query)

\* The query's filters are compiled in their order: the first one that cannot be decides.
CompilationOutcome(query) ==
  LET unbound(f) == f.target # "" /\ f.target \notin DOMAIN Labels(query)
      fails(f) == f.target = "" \/ unbound(f) \/ (f.op # "is_not_null" /\ f.literal.match = "unresolved")
  IN IF ~RolesFit(query) THEN "refused"
     ELSE IF \E f \in ToSet(FiltersOf(query)) : fails(f)
          THEN IF unbound(Head(SelectSeq(FiltersOf(query), fails))) THEN "crash" ELSE "refused"
     ELSE IF ~SourcesKnown(query) \/ \E l \in TemplateLiterals(query) : l.match = "unresolved" THEN "refused"
     ELSE IF \E l \in InlinedLiterals(query) : IsTime(l) THEN "crash"
     ELSE IF \E l \in InlinedLiterals(query) : ~IsNumber(l) /\ l.value \in Placeholders THEN "refused" ELSE "ok"

-----------------------------------------------------------------------------
(* CypherSelfValidator.                                                    *)

\* validate_target_dialect.
DialectValid(cypher) == \A h \in ToSet(cypher.hops) : h.max <= MaxHops

\* validate_schema_references: what is matched, referred to, summed up and compared.
Referred(cypher) ==
  LET exprs == {r.expr : r \in ToSet(cypher.returns)} \cup {o.expr : o \in ToSet(cypher.order)} \cup cypher.with
      read == {e \in exprs : e.form \in {"property", "count", "sum", "avg", "min", "max"}}
  IN {<<e.role, e.name[1]>> : e \in read} \cup {<<w.role, w.name>> : w \in ToSet(cypher.where)}
Summed(cypher) ==
  {e \in {r.expr : r \in ToSet(cypher.returns)} \cup {o.expr : o \in ToSet(cypher.order)} \cup cypher.with : e.form \in {"sum", "avg"}}

MatchesSchema(cypher) ==
  \A h \in ToSet(cypher.hops) : Joins(h.edge, cypher.labels[h.from], cypher.labels[h.to], h.dir)
PropertiesExist(cypher) == \A r \in Referred(cypher) : HasProperty(<<cypher.labels[r[1]], r[2]>>)
TypesFit(cypher) ==
  LET type(role, name) == PropertyType(<<cypher.labels[role], name>>)
  IN /\ \A e \in Summed(cypher) : type(e.role, e.name[1]) \in NumericTypes
     /\ \A w \in ToSet(cypher.where) :
          /\ w.op \in {"gt", "gte", "lt", "lte"} => type(w.role, w.name) \in RangeTypes
          /\ w.op = "contains" => type(w.role, w.name) = "string"

\* validate_compiler_shape: what is returned has the projection's names, in its order.
ShapeValid(cypher, query) ==
  MapSeq(cypher.returns, LAMBDA r : r.alias) = ProjectionAliases(query.projection)

\* _validate: the code of the first check that fails.
SelfValidation(cypher, query) ==
  IF ~DialectValid(cypher) THEN "target_dialect_static_error"
  ELSE IF ~(MatchesSchema(cypher) /\ PropertiesExist(cypher) /\ TypesFit(cypher)) THEN "cypher_schema_reference_invalid"
  ELSE IF ~ShapeValid(cypher, query) THEN "compiler_shape_mismatch" ELSE "ok"
=============================================================================
