--------------------------- MODULE LiteralResolution ---------------------------
(***************************************************************************)
(* What a value in the question becomes: the property it is asked for      *)
(* (core/pipeline.py, _literal_request_from_candidate) and the value of    *)
(* that property it stands for (literals/resolver.py).                     *)
(*                                                                         *)
(* Abstracted: a text stands for all texts that normalize to it; which     *)
(* texts match a vertex or a property, contain one another or resemble one *)
(* another are constants, as are the numbers and dates among them.  A      *)
(* question is [words: Seq([text, slot, attached]),                        *)
(* literals: Seq([text, kind, attached])]; attached is "" when nothing is. *)
(***************************************************************************)
EXTENDS SemanticModel, FiniteSetsExt

CONSTANTS
  ValidValues,     \* property |-> its valid values, in order; only enumerations have one
  Synonyms,        \* valid value |-> the texts that stand for it
  Indexed,         \* property |-> its values in the static value index
  Similarity,      \* <<text, text>> |-> how alike they are, in hundredths; 0 where absent
  Includes,        \* {<<a, b>> : text a has the words of text b in it}
  Parses,          \* {<<kind, text>>}: the text is an "integer", a "number", a "time"
  VertexWords,     \* vertex |-> the words that name it
  PropertyWords,   \* property |-> the words that name it
  OperatorWords,   \* word of a comparison |-> its operator
  IdLike,          \* the texts with the shape of an id
  IdWords,         \* the words that ask for an id
  IdPrefixes,      \* text |-> the vertices whose ids start as it does
  PropertyOrder    \* the properties, from the lowest retrieval score to the highest

ASSUME LiteralAssumption ==
  /\ \A p \in DOMAIN ValidValues : HasProperty(p) /\ ToSet(ValidValues[p]) \subseteq DOMAIN Synonyms
  /\ \A p \in DOMAIN Indexed : HasProperty(p)
  /\ \A pair \in Includes : pair[1] # pair[2]

Values(p) == IF p \in DOMAIN ValidValues THEN ToSet(ValidValues[p]) ELSE {}
IndexedOf(p) == IF p \in DOMAIN Indexed THEN Indexed[p] ELSE {}
IsIdProperty(p) == p[2] = IF p[1] \in Vertices THEN IdProperty[p[1]] ELSE "id"

-----------------------------------------------------------------------------
(* The literal requests.                                                   *)

StructuralSlots == {"limit", "order_by", "group_by", "path", "projection"}

SlotsOf(question, text) ==
  {question.words[i].slot : i \in {i \in DOMAIN question.words : question.words[i].text = text}}

\* A literal that is also a word of the structure is not looked up; it is only noted.
AllowedLiterals(question) ==
  SelectSeq(question.literals, LAMBDA l : SlotsOf(question, l.text) \cap StructuralSlots = {})

NamedBy(word, vertices) == {v \in vertices : word \in VertexWords[v]}

\* The one vertex the question is about: none if it names several.
ContextVertices(question, vertices) ==
  LET about == {i \in DOMAIN question.words : question.words[i].slot \in {"path", "filter", "projection"}}
      word(i) == IF question.words[i].attached # "" THEN question.words[i].attached ELSE question.words[i].text
      named == UNION {NamedBy(word(i), vertices) : i \in about}
  IN IF Cardinality(named) = 1 THEN named ELSE {}

\* What the literal is attached to, else what the question is about: among the
\* candidates, else in the whole model.
OwnersFor(question, literal, candidates) ==
  LET near == {v \in Vertices : <<"vertex", v>> \in candidates}
      attached == NamedBy(literal.attached, near)
      context == ContextVertices(question, near)
  IN IF attached # {} THEN attached
     ELSE IF context # {} THEN context ELSE ContextVertices(question, Vertices)

\* The words of the question that may name the literal's property.
PropertyHints(question, literal) ==
  LET terms == SelectSeq(question.words, LAMBDA w : w.slot = "filter")
      named(i) == {j \in 1..(i - 1) : terms[j].text # literal.text /\ terms[j].text \notin DOMAIN OperatorWords}
      said(i) == IF terms[i].attached # "" THEN {terms[i].attached} \ {literal.attached}
                 ELSE IF named(i) = {} THEN {} ELSE {terms[Max(named(i))].text}
      own == {i \in DOMAIN terms : terms[i].text = literal.text}
      beside == {i \in DOMAIN terms : /\ terms[i].text # literal.text
                                      /\ literal.attached # "" /\ terms[i].attached = literal.attached}
  IN UNION {said(i) : i \in own} \cup {terms[i].text : i \in beside}

ReadsAs(literal, p) == \E v \in Values(p) : v = literal.text \/ {<<literal.text, v>>, <<v, literal.text>>} \cap Includes # {}

\* _literal_property_score.
PropertyScore(literal, hints, owners, p) ==
  (IF hints \cap PropertyWords[p] # {} THEN 120 ELSE 0)
  + (IF ReadsAs(literal, p) THEN 100 ELSE 0)
  + (IF Values(p) # {} /\ literal.kind \in {"enum", "enum_or_name", "unknown"} THEN 30 ELSE 0)
  + (IF p[1] \in owners THEN 25 ELSE 0)
  + (IF p[2] # "id" THEN 0 ELSE IF literal.kind = "id" \/ literal.text \in IdLike THEN 5 ELSE -50)

Place(p) == CHOOSE i \in DOMAIN PropertyOrder : PropertyOrder[i] = p

\* The best of the candidate properties, however little it fits.
BestProperty(literal, hints, owners, candidates) ==
  LET properties == {p \in ToSet(PropertyOrder) : <<"property", p>> \in candidates}
      rank(p) == PropertyScore(literal, hints, owners, p) * (Len(PropertyOrder) + 1) + Place(p)
  IN {p \in properties : \A q \in properties : rank(q) <= rank(p)}

\* An id belongs to the vertex it is attached to, or whose prefix it has.
IdRequest(literal, hints, owners, candidates) ==
  LET near == {v \in Vertices : <<"vertex", v>> \in candidates}
      vertices == IF near \cap owners # {} THEN near \cap owners ELSE near \cap IdPrefixes[literal.text]
      ids == {<<v, IdProperty[v]>> : v \in vertices}
  IN IF (literal.kind # "id" /\ literal.text \notin IdLike) \/ ~(hints \subseteq IdWords) THEN {}
     ELSE {p \in ids : \A q \in ids : Place(q) <= Place(p)}

\* The property a literal is looked up in: none when no property is a candidate.
RequestFor(question, literal, candidates) ==
  LET hints == PropertyHints(question, literal)
      owners == OwnersFor(question, literal, candidates)
      id == IdRequest(literal, hints, owners, candidates)
  IN IF id # {} THEN id ELSE BestProperty(literal, hints, owners, candidates)

\* Without a literal that can be looked up, the words that read as a valid value.
RequestsFromValues(question, candidates) ==
  LET near == {v \in Vertices : <<"vertex", v>> \in candidates}
      enums == {p \in DOMAIN ValidValues : p[1] \in near /\ <<"property", p>> \in candidates}
      texts == {question.words[i].text : i \in DOMAIN question.words}
      means(text, p) == \E v \in Values(p) : text \in Synonyms[v] \/ ReadsAs([text |-> text], p)
      found == {f \in texts \X enums : NamedBy(f[1], near) = {} /\ means(f[1], f[2])}
  IN SetToSeq({[raw |-> f[1], prop |-> f[2], hint |-> "enum"] : f \in found})

Requests(question, candidates) ==
  LET allowed == AllowedLiterals(question)
      requestsOf(l) == SetToSeq({[raw |-> l.text, prop |-> p, hint |-> l.kind] : p \in RequestFor(question, l, candidates)})
      asked == FlattenSeq([i \in DOMAIN allowed |-> requestsOf(allowed[i])])
  IN IF asked # << >> THEN asked ELSE RequestsFromValues(question, candidates)

-----------------------------------------------------------------------------
(* LiteralResolver.                                                        *)

Result(raw, p, match, value) == [raw |-> raw, owner |-> p[1], prop |-> p[2], match |-> match, value |-> value, code |-> "none"]
Unresolved(raw, p, code) == [Result(raw, p, "unresolved", raw) EXCEPT !.code = code]

IndexExact(raw, p) == IF raw \in IndexedOf(p) THEN {Result(raw, p, "value_index_exact", raw)} ELSE {}
Passthrough(raw, p) ==
  IF Values(p) = {} /\ PropertyType(p) = "string" THEN {Result(raw, p, "literal_passthrough", raw)} ELSE {}

ExactValue(raw, p) == {Result(raw, p, "exact", v) : v \in Values(p) \cap {raw}}
Synonym(raw, p) == {Result(raw, p, "value_synonym", v) : v \in {v \in Values(p) : raw \in Synonyms[v]}}

\* The one valid value whose name or synonym stands in the text.
ContainedValue(raw, p) ==
  LET named(v) == <<raw, v>> \in Includes
      meant(v) == named(v) \/ \E s \in Synonyms[v] : <<raw, s>> \in Includes
      found == {v \in Values(p) : meant(v)}
  IN IF Cardinality(found) # 1 THEN {}
     ELSE {Result(raw, p, IF named(v) THEN "exact" ELSE "value_synonym", v) : v \in found}

\* parse_typed_literal: a relative time, whatever the property is, then a number.  The code calls
\* both typed_parse; a time, whose value is neither a number nor a text, has its own name here.
TypedParse(raw, p, hint) ==
  LET type == PropertyType(p)
      time == (hint = "time" \/ type = "datetime") /\ <<"time", raw>> \in Parses
      number == (type = "int" /\ <<"integer", raw>> \in Parses) \/ (type = "float" /\ <<"number", raw>> \in Parses)
  IN IF time THEN {Result(raw, p, "relative_time", raw)} ELSE IF number THEN {Result(raw, p, "typed_parse", raw)} ELSE {}

\* A text that contains the other counts as 85 alike, whatever else it says.
Alike(raw, display) ==
  LET measured == IF <<raw, display>> \in DOMAIN Similarity THEN Similarity[<<raw, display>>] ELSE 0
  IN IF raw = display THEN 100
     ELSE IF {<<raw, display>>, <<display, raw>>} \cap Includes # {} THEN Max({85, measured}) ELSE measured

\* _fuzzy_alternatives: the values at least 50 alike, with how alike they are.
Alternatives(raw, p) ==
  LET values == IF Values(p) # {} THEN Values(p) ELSE IF PropertyType(p) = "string" THEN IndexedOf(p) ELSE {}
      displays(v) == {v} \cup IF Values(p) # {} THEN Synonyms[v] ELSE {}
  IN {<<v, Max({Alike(raw, d) : d \in displays(v)})>> : v \in values} \ (values \X (0..49))

\* A variant that takes the nearest value of an enumeration too.
FuzzyAnyway(raw, p) ==
  LET found == Alternatives(raw, p)
      clear(a) == a[2] >= 95 /\ \A b \in found \ {a} : a[2] - b[2] >= 10
  IN IF found = {} THEN {}
     ELSE IF \E a \in found : clear(a) THEN {Result(raw, p, "fuzzy_text", a[1]) : a \in {a \in found : clear(a)}}
          ELSE {Unresolved(raw, p, "literal_ambiguous")}

\* _can_auto_resolve_fuzzy: 95 alike, and 10 ahead of the next.  Never for an
\* enumeration.
Fuzzy(raw, p) ==
  LET found == Alternatives(raw, p)
      clear(a) == a[2] >= 95 /\ \A b \in found \ {a} : a[2] - b[2] >= 10
  IN IF found = {} THEN {}
     ELSE IF Values(p) = {} /\ \E a \in found : clear(a)
          THEN {Result(raw, p, "fuzzy_text", a[1]) : a \in {a \in found : clear(a)}}
          ELSE {Unresolved(raw, p, "literal_ambiguous")}

\* The first attempt that answers.
FirstOf(attempts) ==
  LET first == CHOOSE i \in DOMAIN attempts : attempts[i] # {} /\ \A j \in 1..(i - 1) : attempts[j] = {}
  IN CHOOSE r \in attempts[first] : TRUE

ResolveLiteral(raw, p, hint) ==
  IF ~HasProperty(p) THEN Unresolved(raw, p, "literal_property_mismatch")
  ELSE IF IsIdProperty(p)
  THEN FirstOf(<<IndexExact(raw, p), Passthrough(raw, p), {Unresolved(raw, p, "literal_value_index_miss")}>>)
  ELSE FirstOf(<<ExactValue(raw, p), Synonym(raw, p), ContainedValue(raw, p), TypedParse(raw, p, hint), Fuzzy(raw, p),
                 IndexExact(raw, p), Passthrough(raw, p),
                 {Unresolved(raw, p, IF IndexedOf(p) # {} THEN "literal_value_index_miss" ELSE "literal_unresolved")}>>)
=============================================================================
