---------------------------- MODULE SemanticModel ----------------------------
(***************************************************************************)
(* The graph semantic model that every stage of the cypher-generator-agent *)
(* looks things up in (semantic_model/registry.py), and the rules under    *)
(* which a model is accepted (semantic_model/validator.py).                *)
(*                                                                         *)
(* Abstracted: a property is <<owner, name>>; an alias is the sequence of  *)
(* its words, so that "port_name" is <<"port", "name">> whoever wrote it;  *)
(* a metric's pattern is the labels of its aliases; a path pattern is what *)
(* its template demands and returns.                                       *)
(***************************************************************************)
EXTENDS Integers, Sequences, FiniteSets, SequencesExt

CONSTANTS
  IdProperty,    \* vertex |-> the name of its id property
  Ends,          \* edge |-> [from, to]
  Types,         \* owner |-> [property |-> its type]; an owner is a vertex or an edge
  Snake,         \* vertex |-> its name in snake case
  Metrics,       \* metric |-> [aliases: Seq(<<alias, vertex>>), dims: {<<alias, property>>}]
  PathPatterns   \* path pattern |-> [params: Seq([name: alias, type]), outputs: Seq(alias)]

Vertices == DOMAIN IdProperty
Edges == DOMAIN Ends

\* get_property: owner and name are declared.
Properties == UNION {{<<o, n>> : n \in DOMAIN Types[o]} : o \in DOMAIN Types}
HasProperty(p) == p \in Properties
PropertyType(p) == Types[p[1]][p[2]]

\* edge_connects.
EdgeConnects(edge, from, to, direction) ==
  LET forward == Ends[edge].from = from /\ Ends[edge].to = to
      reverse == Ends[edge].from = to /\ Ends[edge].to = from
  IN CASE direction = "forward" -> forward
       [] direction = "reverse" -> reverse
       [] OTHER -> forward \/ reverse

\* What a traversal in a binding, an operation or an assembled path calls backward is
\* what the registry calls reverse.
Joins(edge, from, to, direction) ==
  EdgeConnects(edge, from, to, IF direction = "backward" THEN "reverse" ELSE "forward")

\* validate_graph_model, _validate_metric: id properties and endpoints are declared;
\* a metric's aliases are vertices, each alias once, and its dimensions are properties of
\* theirs.
ModelIsValid ==
  /\ IsFiniteSet(Vertices)
  /\ \A v \in Vertices : HasProperty(<<v, IdProperty[v]>>)
  /\ \A e \in Edges : Ends[e].from \in Vertices /\ Ends[e].to \in Vertices
  /\ \A m \in DOMAIN Metrics :
       /\ \A i \in DOMAIN Metrics[m].aliases : Metrics[m].aliases[i][2] \in Vertices
       /\ \A i, j \in DOMAIN Metrics[m].aliases : Metrics[m].aliases[i][1] = Metrics[m].aliases[j][1] => i = j
       /\ \A d \in Metrics[m].dims : \E i \in DOMAIN Metrics[m].aliases :
            Metrics[m].aliases[i][1] = d[1] /\ HasProperty(<<Metrics[m].aliases[i][2], d[2]>>)

ASSUME ModelAssumption == ModelIsValid

NumericTypes == {"int", "float"}
RangeTypes == NumericTypes \cup {"datetime"}
=============================================================================
