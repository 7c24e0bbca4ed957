----------------------------- MODULE PathAssembly -----------------------------
(***************************************************************************)
(* Queries along a path that are assembled without a model: which edge the *)
(* question's words mean (assembly/direction.py), the path they describe   *)
(* (assembly/multihop.py) and what is read at its vertices.                *)
(*                                                                         *)
(* Abstracted: which direction terms stand in a word of the path, and      *)
(* which edges a term belongs to, are constants; a context is the set of   *)
(* the path's words it is made of.  A query is Nothing where the assembler *)
(* falls back on the model.                                                *)
(***************************************************************************)
EXTENDS ProjectionTerms

CONSTANTS
  VertexOrder,   \* the vertices, from the best candidate on
  VertexNames,   \* the vertices, by name
  Tells,         \* word of a path |-> the direction terms in it
  Means,         \* direction term |-> the edges it belongs to
  Domains,       \* word of a path |-> the kinds of edges it speaks of
  DomainMeans,   \* <<kind, general direction term>> |-> the edges of that kind it belongs to
  NoiseWords,    \* the words of a projection that stand for no column
  ShareWords     \* the words that speak of values, entries or nodes in general

Nothing == [shape |-> "none"]

VerticesAmong(candidates) == {v \in Vertices : <<"vertex", v>> \in candidates}
Candidates(candidates) == SelectSeq(VertexOrder, LAMBDA v : v \in VerticesAmong(candidates))
PathWords(question) == MapSeq(SelectSeq(question.words, LAMBDA w : w.slot = "path"), LAMBDA w : w.text)

-----------------------------------------------------------------------------
(* DirectionMapper.                                                        *)

\* resolve_direction_terms: a term inside a longer one does not count; a general one
\* means the edges of the one kind spoken of.
DirectionEdges(context) ==
  LET terms == UNION {Tells[w] : w \in context \cap DOMAIN Tells}
      kinds == UNION {Domains[w] : w \in context \cap DOMAIN Domains}
      kind == IF Cardinality(kinds) = 1 THEN TheOne(kinds) ELSE ""
      edges(t) == Means[t] \cap IF <<kind, t>> \in DOMAIN DomainMeans THEN DomainMeans[<<kind, t>>] ELSE Means[t]
      kept == {t \in terms : \A longer \in terms : <<longer, t>> \notin Includes}
  IN UNION {edges(t) : t \in kept}

\* A variant that takes the only edge whatever the words say.
StepEdgeUntold(start, end, context, edges) ==
  LET connecting == {e \in edges : {Ends[e].from, Ends[e].to} = {start, end}}
      told == DirectionEdges(context) \cap connecting
  IN IF Cardinality(connecting) = 1 THEN connecting ELSE IF Cardinality(told) = 1 THEN told ELSE {}

\* _resolve_step_edge: the edge between two vertices that the words mean, if it is clear.
StepEdge(start, end, context, edges) ==
  LET connecting == {e \in edges : {Ends[e].from, Ends[e].to} = {start, end}}
      meant == DirectionEdges(context)
      here == {e \in meant : EdgeConnects(e, start, end, "either")}
      told == meant \cap connecting
      alone == IF Cardinality(connecting) = 1 THEN connecting ELSE {}
  IN IF Cardinality(meant) > 1
     THEN IF here = {} THEN alone
          ELSE IF Cardinality(here) = 1 THEN told ELSE {}
     ELSE IF alone # {} THEN IF told = {} /\ here # {} THEN {} ELSE alone
     ELSE told

\* A variant that goes along every edge the way it points.
StepForward(edge, start, end) == "forward"
StepDirection(edge, start, end) == IF EdgeConnects(edge, start, end, "forward") THEN "forward" ELSE "backward"

-----------------------------------------------------------------------------
(* The path.                                                               *)

\* _first_vertex_path_term_index: 0 for none.
PlaceOnPath(vertex, path) ==
  LET near(word, w) == word = w \/ {<<word, w>>, <<w, word>>} \cap Includes # {}
      places == {i \in DOMAIN path : \E w \in VertexWords[vertex] : near(path[i], w)}
  IN IF places = {} THEN 0 ELSE Min(places)

\* _ordered_vertex_names: by the first word, then by name, that names them.
NamedOnPath(path, vertices) ==
  LET before(v, w) == \/ PlaceOnPath(v, path) < PlaceOnPath(w, path)
                      \/ PlaceOnPath(v, path) = PlaceOnPath(w, path) /\ Position(v, VertexNames) < Position(w, VertexNames)
      named == {v \in vertices : PlaceOnPath(v, path) # 0}
  IN [i \in 1..Cardinality(named) |-> CHOOSE v \in named : Cardinality({w \in named : before(w, v)}) = i - 1]

\* _path_segment_context: the words from one vertex to the other, all of them if one is
\* not named.
Segment(path, start, end) ==
  LET ends == {PlaceOnPath(start, path), PlaceOnPath(end, path)}
  IN IF 0 \in ends THEN ToSet(path) ELSE {path[i] : i \in Min(ends)..Max(ends)}

\* _endpoint_extension_context: the first words that tell an edge: those between, those
\* from the start on, none.
ExtensionContexts(path, start, end, edges) ==
  LET place == PlaceOnPath(start, path)
      tail == IF place = 0 THEN << >> ELSE <<{path[i] : i \in place..Len(path)}>>
  IN SelectSeq(<<Segment(path, start, end)>> \o tail \o <<{}>>, LAMBDA c : StepEdge(start, end, c, edges) # {})

\* _extend_vertex_names_for_projection_endpoints: one more of the vertices that something
\* is read from, if the path can be continued to it.
ExtendedTo(found, reached) ==
  IF reached = << >> THEN found
  ELSE [vertices |-> Append(found.vertices, reached[1][1]), contexts |-> Append(found.contexts, reached[1][2][1]),
        pending |-> SelectSeq(found.pending, LAMBDA o : o # reached[1][1])]
ExtendedOver(found, contexts) ==
  ExtendedTo(found, SelectSeq([i \in DOMAIN contexts |-> <<found.pending[i], contexts[i]>>], LAMBDA r : r[2] # << >>))
Extended(found, path, edges) ==
  ExtendedOver(found, [i \in DOMAIN found.pending |-> ExtensionContexts(path, Last(found.vertices), found.pending[i], edges)])

\* _resolve_edge_chain: the hops [from, to, edge], none when the path is not clear.
HopsAlong(found, edges) ==
  LET step(i) == StepEdge(found.vertices[i], found.vertices[i + 1], found.contexts[i], edges)
  IN IF Len(found.vertices) < 2 \/ edges = {} \/ \E i \in DOMAIN found.contexts : step(i) = {} THEN << >>
     ELSE [i \in DOMAIN found.contexts |->
             [from |-> found.vertices[i], to |-> found.vertices[i + 1], edge |-> TheOne(step(i))]]

\* Its start: the vertices the question's path names, and those still to be reached.
StartOf(path, named, owners) ==
  [vertices |-> named, pending |-> SelectSeq(owners, LAMBDA o : o \notin ToSet(named)),
   contexts |-> [i \in 1..(Len(named) - 1) |-> Segment(path, named[i], named[i + 1])]]

\* Until nothing more can be reached: a round reaches one vertex at most, and none twice.
PathFrom(start, path, edges) ==
  LET after[n \in 0..Cardinality(Vertices)] == IF n = 0 THEN start ELSE Extended(after[n - 1], path, edges)
  IN IF Len(start.vertices) < 2 THEN << >> ELSE HopsAlong(after[Cardinality(Vertices)], edges)

PathOf(question, candidates, owners) ==
  LET path == PathWords(question)
      known == VerticesAmong(candidates)
      edges == {e \in Edges : <<"edge", e>> \in candidates /\ {Ends[e].from, Ends[e].to} \subseteq known}
  IN PathFrom(StartOf(path, NamedOnPath(path, known), SelectSeq(owners, LAMBDA o : o \in known)), path, edges)

-----------------------------------------------------------------------------
(* What is read along it: MultihopAssembler.                               *)

PathVertices(path) == <<path[1].from>> \o MapSeq(path, LAMBDA h : h.to)
RolesOn(path) == [v \in ToSet(PathVertices(path)) |-> ChainRoles[Position(v, PathVertices(path))]]
HopOps(path) ==
  [i \in DOMAIN path |-> [op |-> "traverse_edge", from |-> ChainRoles[i], edge |-> ChainEdges[i], to |-> ChainRoles[i + 1],
                          dir |-> StepDirection(path[i].edge, path[i].from, path[i].to)]]
\* _single_hop_dsl, _path_group_topn_dsl.
PathQuery(shape, path, ops, filters, projection) ==
  [shape |-> shape, vertices |-> VerticesByRole([i \in 1..(Len(path) + 1) |-> <<ChainRoles[i], PathVertices(path)[i]>>]),
   edges |-> VerticesByRole([i \in DOMAIN path |-> <<ChainEdges[i], path[i].edge>>]),
   ops |-> HopOps(path) \o ops, filters |-> filters, projection |-> projection]

\* _filter_operator_for_literal: the one operator the question's conditions have between
\* them, whichever of them it was said of.
OperatorFor(question, literal) ==
  LET said == {OperatorWords[t] : t \in (Texts(question, "filter") \cap DOMAIN OperatorWords) \ {literal.prop, literal.raw}}
  IN IF said = {} THEN "eq" ELSE IF Cardinality(said) = 1 THEN TheOne(said) ELSE "unsupported"

FilterOf(question, literal, target) ==
  [target |-> target, prop |-> <<literal.owner, literal.prop>>, op |-> OperatorFor(question, literal), literal |-> literal]

\* A property has one literal, is a candidate, and its operator is known.
Filterable(question, candidates, results) ==
  /\ results # << >>
  /\ \A i, j \in DOMAIN results : i # j => <<results[i].owner, results[i].prop>> # <<results[j].owner, results[j].prop>>
  /\ \A r \in ToSet(results) : <<"property", <<r.owner, r.prop>>>> \in candidates /\ OperatorFor(question, r) # "unsupported"

\* _projection_vertex_for_traversal: without a word for what to show, the last vertex that
\* no literal is about.
ProjectionVertex(vertices, results) ==
  LET free == SelectSeq(vertices, LAMBDA v : v \notin {r.owner : r \in ToSet(results)})
  IN IF free = << >> THEN Last(vertices) ELSE Last(free)

OwnersShown(items) == Unique(MapSeq(SelectSeq(items, LAMBDA p : p.kind = "property"), LAMBDA p : p.prop[1]))

\* _assemble_f4, _assemble_f5: the literals are filters of the second only.
ReadAlong(question, candidates, items, filters, path) ==
  LET roles == RolesOn(path)
      onPath == {p.prop[1] : p \in ToSet(items)} \cup {r.owner : r \in ToSet(filters)}
  IN IF path = << >> \/ ~(onPath \subseteq DOMAIN roles) THEN Nothing
     ELSE PathQuery("single_hop_traversal", path, << >>,
                    MapSeq(filters, LAMBDA r : FilterOf(question, r, roles[r.owner])),
                    MapSeq(items, LAMBDA p : [p EXCEPT !.target = roles[p.prop[1]]]))

ReadOf(question, candidates, items, filters) ==
  IF items = << >> THEN Nothing
  ELSE ReadAlong(question, candidates, items, filters, PathOf(question, candidates, OwnersShown(items)))

ReadAs(question, candidates, results, filtered, vertices, worded) ==
  IF \/ vertices = << >>
     \/ TermsAsked(question) # {} /\ Uncovered(question, worded, vertices) # {}
     \/ filtered /\ ~Filterable(question, candidates, results) THEN Nothing
  ELSE ReadOf(question, candidates,
              IF worded = << >> /\ ProjectionSeq(question) = << >> THEN IdOf(ProjectionVertex(vertices, results)) ELSE worded,
              IF filtered THEN results ELSE << >>)
PathRead(question, candidates, results, filtered) ==
  LET vertices == Candidates(candidates)
  IN ReadAs(question, candidates, results, filtered, vertices, ProjectionOf(question, vertices))

-----------------------------------------------------------------------------
(* Ranked groups along it.                                                 *)

\* _slot_property_items_from_substantive_terms, else _group_by_items_from_projection_terms.
GroupsFrom(grouped, shown) ==
  LET first == {i \in DOMAIN grouped : \A j \in 1..(i - 1) : grouped[j][1] # grouped[i][1]}
  IN IF first # {} THEN [n \in 1..Cardinality(first) |-> grouped[CHOOSE i \in first : Cardinality({j \in first : j <= i}) = n]]
     ELSE IF Len(shown) = 1 THEN shown ELSE << >>
MeantBy(words, vertices) ==
  FlattenSeq(MapSeq(words, LAMBDA w : MapSeq(SetToSeq(SinglePlain(w, vertices)), LAMBDA p : <<p, w.text>>)))
GroupsAsked(question, vertices) ==
  GroupsFrom(MeantBy(SelectSeq(question.words, LAMBDA w : w.slot = "group_by"), vertices),
             Unique(MeantBy(SelectSeq(ProjectionSeq(question), LAMBDA w : w.text \notin NoiseWords \cup QuantityWords), vertices)))

\* _count_measure_owner: whom the words for how many are about, else the thing shown,
\* else what is grouped by.
CountedOwner(question, vertices, groups) ==
  LET known == ToSet(vertices)
      quantities == {w \in ToSet(question.words) : w.slot \in {"projection", "order_by"} /\ w.text \in QuantityWords}
      about == UNION {NamedBy(w.attached, known) \cup NamedBy(w.text, known) : w \in quantities}
      things == {w \in ProjectionWords(question) : w.text \notin QuantityWords \cup NoiseWords \cup ShareWords}
      objects == UNION {ObjectNamed(w, known) : w \in things}
      grouped == {g[1][1] : g \in ToSet(groups)}
      owners == IF about # {} THEN about ELSE IF objects # {} THEN objects ELSE grouped
  IN IF quantities = {} \/ Cardinality(owners) # 1 THEN {} ELSE owners

SourceItem(source, terms) ==
  [kind |-> "source", prop |-> << >>, target |-> "", source |-> source, alias |-> source[2], terms |-> terms]

\* _assemble_f6: the literals are not looked at.
RankedAlong(question, candidates, group, measured, path) ==
  LET roles == RolesOn(path)
      asked == Requirements(question)
      prop == group[1]
      alias == <<Snake[measured[1]], "count">>
      quantities == {w.text : w \in {w \in ToSet(question.words) : w.slot \in {"projection", "order_by"} /\ w.text \in QuantityWords}}
  IN IF path = << >> \/ ~({<<"property", prop>>, <<"property", measured>>} \subseteq candidates) THEN Nothing
     ELSE IF ~asked.order \/ asked.direction = "any" \/ asked.limit = 0 \/ ~({prop[1], measured[1]} \subseteq DOMAIN roles) THEN Nothing
     ELSE PathQuery("top_n", path,
            <<[op |-> "aggregate",
               group |-> <<[form |-> "full", alias |-> PropertyAlias(prop), target |-> roles[prop[1]], prop |-> prop]>>,
               measures |-> <<[form |-> "full", alias |-> alias, function |-> "count", target |-> roles[measured[1]], prop |-> measured]>>],
              [op |-> "sort", by |-> <<[source |-> <<"measure", alias>>, direction |-> asked.direction]>>],
              [op |-> "limit", value |-> asked.limit]>>,
            << >>,
            <<SourceItem(<<"group", PropertyAlias(prop)>>, {group[2]}), SourceItem(<<"measure", alias>>, quantities)>>)

RankedBy(question, candidates, vertices, group, measured) ==
  RankedAlong(question, candidates, group, measured,
    PathOf(question, candidates, Unique(OwnersShown(ProjectionOf(question, vertices)) \o <<group[1][1], measured[1]>>)))

RankedOf(question, candidates, vertices, groups, counted) ==
  IF Len(groups) # 1 \/ counted = {} THEN Nothing
  ELSE RankedBy(question, candidates, vertices, groups[1], <<TheOne(counted), IdProperty[TheOne(counted)]>>)

RankedIn(question, candidates, vertices, groups) ==
  RankedOf(question, candidates, vertices, groups, CountedOwner(question, vertices, groups))
PathRanked(question, candidates) ==
  LET vertices == Candidates(candidates) IN RankedIn(question, candidates, vertices, GroupsAsked(question, vertices))
=============================================================================
