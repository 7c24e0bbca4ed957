---------------------------- MODULE ProjectionTerms ----------------------------
(***************************************************************************)
(* The projection that the deterministic assembler makes of the question's *)
(* projection words without asking a model (core/pipeline.py, from         *)
(* _projection_items_from_substantive_terms on), and the words it leaves   *)
(* unanswered.                                                             *)
(*                                                                         *)
(* Here vertices is a sequence, the candidates from the best on; owners is *)
(* a subsequence of it.  Abstracted: a text that names several vertices    *)
(* has them listed by a constant.  A question has two more fields:         *)
(* together, whether it says "both" or "each", and thereof, the texts      *)
(* before and after each "and its" in it.                                  *)
(***************************************************************************)
EXTENDS StructuralCoverage

CONSTANTS
  Resembles,      \* <<word, property>> |-> 60 or 70, how well a word that does not name it fits
  Phrases,        \* text |-> the vertices it names, in its order
  Coordinating,   \* those of them that join their vertices by "and"
  EndWords,       \* the words for one end of something
  SourceWords, TargetWords,  \* the words that begin with "source" and with "target"
  NameWord        \* the word for a name

ProjectionSeq(question) == SelectSeq(question.words, LAMBDA w : w.slot = "projection")
TheOne(set) == CHOOSE x \in set : TRUE

-----------------------------------------------------------------------------
(* Which property a word means.                                            *)

\* _property_surface_match_score.
Score(term, p) ==
  IF term \in PropertyWords[p] THEN 100
  ELSE IF <<term, p>> \in DOMAIN Resembles THEN Resembles[<<term, p>>] ELSE 0

Position(v, owners) == CHOOSE i \in DOMAIN owners : owners[i] = v

\* _resolve_projection_property_for_owners: the best match; of two owners with one, the
\* first, unless the word must mean one of them only.
PropertyIn(term, owners, unique) ==
  LET matches == {p \in DOMAIN PropertyWords : p[1] \in ToSet(owners) /\ Score(term, p) > 0}
      best == {p \in matches : \A q \in matches : Score(term, q) <= Score(term, p)}
      first == {p \in best : \A q \in best : Position(p[1], owners) <= Position(q[1], owners)}
  IN IF (unique /\ Cardinality(best) > 1) \/ Cardinality(first) # 1 THEN {} ELSE first

Names(text, v) == \E w \in VertexWords[v] : text = w \/ <<text, w>> \in Includes

\* _projection_attached_owner_names: of several vertices that are not joined by "and",
\* the last one named.
AttachedOwners(text, vertices) ==
  LET said == IF text \in DOMAIN Phrases THEN SelectSeq(Phrases[text], LAMBDA v : v \in ToSet(vertices))
              ELSE SelectSeq(vertices, LAMBDA v : Names(text, v))
  IN IF Len(said) > 1 /\ text \notin Coordinating THEN <<Last(said)>> ELSE said

AnchorText(word) == IF word.attached # "" THEN word.attached ELSE word.text

\* _is_endpoint_projection_anchor.
EndAnchor(word, vertices) == word.text \in EndWords /\ Len(AttachedOwners(AnchorText(word), vertices)) = 1

\* _endpoint_projection_owner_aliases: of two ends of two vertices, one is the source and
\* one the target.
EndAliases(question, vertices) ==
  LET anchors == SelectSeq(ProjectionSeq(question), LAMBDA w : EndAnchor(w, vertices))
      owners == Unique(MapSeq(anchors, LAMBDA w : AttachedOwners(AnchorText(w), vertices)[1]))
  IN IF Len(owners) # 2 THEN << >> ELSE (owners[1] :> "source") @@ (owners[2] :> "target")

\* _expanded_projection_property_owners: a word said of both ends, or of each.
ExpandedOwners(word, question, vertices, owners) ==
  LET ends == DOMAIN EndAliases(question, vertices)
      having == SelectSeq(owners, LAMBDA o : PropertyIn(word.text, <<o>>, FALSE) # {})
  IN IF Len(owners) < 2 THEN << >>
     ELSE IF ends # {} THEN SelectSeq(vertices, LAMBDA v : v \in ends \cap ToSet(owners))
     ELSE IF question.together /\ Len(having) >= 2 THEN having ELSE << >>

\* The property each of the owners has for the word: none unless all have one.
InEach(term, owners) ==
  LET found == MapSeq(owners, LAMBDA o : PropertyIn(term, <<o>>, TRUE))
  IN IF {} \in ToSet(found) THEN << >> ELSE MapSeq(found, TheOne)

OwnersMeant(word, vertices) ==
  LET attached == AttachedOwners(word.attached, vertices) IN IF attached = << >> THEN vertices ELSE attached

\* _resolve_projection_property_refs: expanded are the owners a word is said of each of.
PropertiesOf(word, vertices, expanded) ==
  LET attached == AttachedOwners(word.attached, vertices)
      owners == OwnersMeant(word, vertices)
  IN IF Len(attached) > 1 THEN InEach(word.text, attached)
     ELSE IF expanded # << >> THEN InEach(word.text, expanded)
     ELSE SetToSeq(PropertyIn(word.text, owners, word.attached = "" /\ Len(vertices) > 1))

\* What a word means where nobody looks for both and each.
PlainProperties(word, vertices) == PropertiesOf(word, vertices, << >>)
OnlyOne(found) == IF Len(found) = 1 THEN ToSet(found) ELSE {}
SinglePlain(word, vertices) == OnlyOne(PlainProperties(word, vertices))

MeantProperties(word, question, vertices) ==
  PropertiesOf(word, vertices, ExpandedOwners(word, question, vertices, OwnersMeant(word, vertices)))

-----------------------------------------------------------------------------
(* The projection's items.                                                 *)

PropertyItem(p, alias, terms) ==
  [kind |-> "property", prop |-> p, target |-> "", source |-> NoSource, alias |-> alias, terms |-> terms]
IdItem(vertex, terms) ==
  PropertyItem(<<vertex, IdProperty[vertex]>>, PropertyAlias(<<vertex, IdProperty[vertex]>>), terms)
FullItem(vertex, terms) == [WholeItem(vertex) EXCEPT !.terms = terms]

\* _projection_attachment_anchor_terms: a word that another one is attached to.
AttachmentAnchors(question) ==
  {t \in Texts(question, "projection") :
     \E w \in ProjectionWords(question) : w.attached = t \/ <<w.attached, t>> \in Includes}

\* _source_target_projection_owner_alias.
SourceTarget(word, vertices) ==
  IF Len(vertices) < 2 THEN << >>
  ELSE IF word.text \in SourceWords THEN <<vertices[1], "source">>
  ELSE IF word.text \in TargetWords THEN <<Last(vertices), "target">> ELSE << >>

\* _projection_vertex_full_terms.
WholeTerms(word, question) ==
  {word.text} \cup ({word.attached} \cap WholeWords \cap Texts(question, "projection"))

\* _object_projection_requires_vertex_full, _has_other_concrete_projection_term.
ShownWhole(word, question, vertices) ==
  LET others == \E o \in ProjectionWords(question) :
                  <<o.text, o.attached>> # <<word.text, word.attached>> /\ AsksProperty(o, ToSet(vertices))
  IN word.text \in question.detailed \/ (OnPath(word, question) /\ ~others)

\* What a word asks to see, in the order of the code: [item, word, rename].
AskedItem(item, word, rename) == [item |-> item, word |-> word.text, rename |-> rename]
RefItems(word, refs, aliases) ==
  LET alias(p) == IF Len(refs) > 1 /\ p[1] \in DOMAIN aliases THEN <<aliases[p[1]], p[2]>> ELSE PropertyAlias(p)
  IN MapSeq(refs, LAMBDA p : AskedItem(PropertyItem(p, alias(p), {word.text}), word, FALSE))
EndItems(word, end) ==
  MapSeq(SetToSeq(PropertyIn(word.text, <<end[1]>>, FALSE)),
         LAMBDA p : AskedItem(PropertyItem(p, <<end[2]>>, {word.text}), word, TRUE))
ItemsBy(word, question, vertices, object, end) ==
  IF object # {}
  THEN <<AskedItem(IF ShownWhole(word, question, vertices) THEN FullItem(TheOne(object), {word.text})
               ELSE IdItem(TheOne(object), {word.text}), word, FALSE)>>
  ELSE IF end # << >> THEN EndItems(word, end)
  ELSE RefItems(word, MeantProperties(word, question, vertices), EndAliases(question, vertices))
ItemsOf(word, question, vertices) ==
  LET known == ToSet(vertices)
  IN ItemsBy(word, question, vertices,
             IF Len(vertices) > 2 /\ CompoundOwners(word, known) # {} THEN {} ELSE ObjectNamed(word, known),
             SourceTarget(word, vertices))

SameItem(a, b) == a.kind = b.kind /\ a.prop = b.prop

\* An item that is there already answers one word more.
Merged(items, new) ==
  IF \E i \in DOMAIN items : SameItem(items[i], new.item)
  THEN [i \in DOMAIN items |->
          IF ~SameItem(items[i], new.item) THEN items[i]
          ELSE [items[i] EXCEPT !.terms = @ \cup {new.word}, !.alias = IF new.rename THEN new.item.alias ELSE @]]
  ELSE Append(items, new.item)

\* _sort_projection_items_by_term_order.
InTermOrder(items, question) ==
  LET words == MapSeq(ProjectionSeq(question), LAMBDA w : w.text)
      key(i) == Min({j \in DOMAIN words : words[j] \in items[i].terms})
  IN MapSeq(SetToSortSeq(DOMAIN items, LAMBDA i, j : key(i) < key(j) \/ (key(i) = key(j) /\ i < j)),
            LAMBDA i : items[i])

\* _identity_projection_property_name.
NameOf(vertex) == IF HasProperty(<<vertex, "name">>) THEN "name" ELSE IdProperty[vertex]

\* _implicit_relation_source_name_owners: an X of "X and its Y".
RelationSources(question, vertices) ==
  LET owner(pair) == AttachedOwners(pair[1], vertices)
      related(pair) == Len(owner(pair)) = 1 /\ ToSet(AttachedOwners(pair[2], vertices)) \ ToSet(owner(pair)) # {}
  IN IF Len(vertices) < 2 THEN << >>
     ELSE Unique(MapSeq(SelectSeq(question.thereof, related), LAMBDA pair : owner(pair)[1]))

\* _rewrite_relation_source_object_id_to_name, _insert_relation_source_identity_projection.
WithSourceName(items, owner, vertices) ==
  LET own == {i \in DOMAIN items : items[i].kind = "property" /\ items[i].prop[1] = owner}
      others == {i \in DOMAIN items : items[i].kind = "property" /\ items[i].prop[1] # owner}
      name == <<owner, NameOf(owner)>>
      bareId(i) == /\ items[i].prop[2] = IdProperty[owner]
                   /\ \E t \in items[i].terms : ObjectNamed([text |-> t], ToSet(vertices)) = {owner}
  IN IF own = {} THEN InsertAt(items, Min(others), PropertyItem(name, PropertyAlias(name), {NameWord}))
     ELSE IF Cardinality(own) = 1 /\ bareId(TheOne(own))
     THEN [items EXCEPT ![TheOne(own)] = PropertyItem(name, PropertyAlias(name), @.terms)] ELSE items

\* _append_implicit_relation_source_name_projection.
WithSourceNames(items, question, vertices) ==
  LET sources == RelationSources(question, vertices)
      others == \E p \in ToSet(items) : p.kind = "property" /\ p.prop[1] \notin ToSet(sources)
  IN IF ~others THEN items ELSE FoldLeft(LAMBDA kept, o : WithSourceName(kept, o, vertices), items, sources)

\* _projection_items_from_substantive_terms: first what is shown whole, then the rest.
ProjectionOf(question, vertices) ==
  LET known == ToSet(vertices)
      words == SelectSeq(ProjectionSeq(question), LAMBDA w : w.text \notin AttachmentAnchors(question))
      whole(w) == WholeVertex(w, question, known)
      wholes == SelectSeq(words, LAMBDA w : whole(w) # {})
      rest == SelectSeq(words, LAMBDA w : /\ whole(w) = {} /\ ~EndAnchor(w, vertices)
                                          /\ (ObjectNamed(w, known) # {} \/ AsksProperty(w, known)))
      wholeItem(w) == [item |-> FullItem(TheOne(whole(w)), WholeTerms(w, question)), word |-> w.text, rename |-> FALSE]
      asked == MapSeq(wholes, wholeItem) \o FlattenSeq(MapSeq(rest, LAMBDA w : ItemsOf(w, question, vertices)))
  IN WithSourceNames(InTermOrder(FoldLeft(Merged, << >>, asked), question), question, vertices)

\* A variant that takes a word for answered when an item says so.
UncoveredByTerm(question, items, vertices) ==
  {w \in ProjectionWords(question) : AsksProperty(w, ToSet(vertices)) /\ ~(\E p \in ToSet(items) : w.text \in p.terms)}

\* _required_projection_slot_terms, _uncovered_projection_slots: the words nothing answers.
Uncovered(question, items, vertices) ==
  LET known == ToSet(vertices)
      whole(w) == WholeVertex(w, question, known)
      required == {w \in ProjectionWords(question) :
                     /\ w.text \notin AttachmentAnchors(question) /\ ~EndAnchor(w, vertices)
                     /\ (whole(w) # {} \/ ObjectNamed(w, known) # {} \/ AsksProperty(w, known))}
      refs(w) == ToSet(MeantProperties(w, question, vertices))
      shows(kind, prop) == \E p \in ToSet(items) : p.kind = kind /\ p.prop = prop
      showsOf(v) == \E p \in ToSet(items) : p.prop[1] = v
      answered(w) == IF whole(w) # {} THEN shows("full", <<TheOne(whole(w))>>)
                     ELSE IF refs(w) # {} THEN \A p \in refs(w) : shows("property", p)
                     ELSE ObjectNamed(w, known) # {} /\ showsOf(TheOne(ObjectNamed(w, known)))
  IN {w \in required : ~answered(w)}
=============================================================================
