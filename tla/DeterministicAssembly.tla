------------------------- MODULE DeterministicAssembly -------------------------
(***************************************************************************)
(* The deterministic assembler (core/pipeline.py,                          *)
(* _deterministic_assembler_payload): a question whose shape is clear      *)
(* (assembly/taxonomy.py) is answered without a model if its path, its     *)
(* projection and its conditions are; else the model is asked.             *)
(***************************************************************************)
EXTENDS VertexAssembly

\* A variant that misses a condition whose value is not marked as one.
ConditionedByValue(question) == \E w \in ToSet(question.words) : w.slot \in {"literal", "value"}

\* _has_filter_or_literal_hint: of words; the literals themselves are not looked at.
Conditioned(question) == \E w \in ToSet(question.words) : w.slot \in {"filter", "literal", "value"}

\* _has_property_count_object_signal.
CountsProperty(question) ==
  LET texts == {w.text : w \in ToSet(question.words)}
  IN texts \cap CountedWords # {} /\ (texts \cap QuantityWords # {} \/ CountIntent(question))

\* _zero_hop_candidates.
VertexShapes(question, asked) ==
  LET counted == asked.aggregate /\ ~(asked.group \/ asked.order \/ asked.limited)
      conditioned == IF asked.aggregate /\ CountsProperty(question) THEN question.literals # << >>
                     ELSE Conditioned(question) /\ ~(asked.aggregate /\ CountIntent(question))
      sure == (IF counted THEN {"F3"} ELSE {}) \cup (IF conditioned THEN {"F2"} ELSE {})
      shown == asked.terms # {} \/ question.detailed \cap Texts(question, "projection") # {}
  IN IF sure = {} /\ shown THEN {"F1"} ELSE sure

\* _multihop_candidates.
PathShapes(question, asked) ==
  LET ranked == asked.aggregate /\ (asked.group \/ asked.order \/ asked.limited)
      sure == (IF ranked THEN {"F6"} ELSE {}) \cup (IF Conditioned(question) THEN {"F5"} ELSE {})
  IN IF sure = {} THEN {"F4"} ELSE sure

\* classify_query_shape: none when there are several, or it is one nobody assembles.
ShapeOf(question) ==
  LET asked == Requirements(question)
      shapes == IF question.intent = "two_stage_aggregate" THEN {}
                ELSE IF asked.hops = 0 THEN VertexShapes(question, asked) ELSE PathShapes(question, asked)
  IN IF Cardinality(shapes) = 1 THEN TheOne(shapes) ELSE "none"

Assembled(question, candidates, results) ==
  LET shape == ShapeOf(question)
  IN CASE shape \in {"F1", "F2"} -> VertexRead(question, candidates, results, shape = "F2")
       [] shape = "F3" -> VertexCounted(question, candidates, results)
       [] shape \in {"F4", "F5"} -> PathRead(question, candidates, results, shape = "F5")
       [] shape = "F6" -> PathRanked(question, candidates)
       [] OTHER -> Nothing
=============================================================================
