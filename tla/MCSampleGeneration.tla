-------------------------- MODULE MCSampleGeneration --------------------------
(***************************************************************************)
(* Schemas without edges, with edges but no constraints, with one edge     *)
(* (and one without constraints), with a path of two, of three, with a     *)
(* loop, and with constraints about a label it does not have; requests for *)
(* one to four levels and without targets; room for four candidates, so    *)
(* that the model's answers crowd out templates.  The model changes words, *)
(* an aggregation, all hops or one of them.                                *)
(***************************************************************************)
EXTENDS SampleGeneration

AB == Hop("e", "A", "B")
BC == Hop("f", "B", "C")
CA == Hop("g", "C", "A")
BB == Hop("e", "B", "B")

Schema(labels, edges, triplets) == [labels |-> labels, edges |-> edges, triplets |-> triplets]
Abc == <<"A", "B", "C">>
MCSchemas ==
  {Schema(Abc, << >>, << >>), Schema(<<"A">>, << >>, << >>), Schema(Abc, <<"e", "f">>, << >>),
   Schema(Abc, <<"e", "h">>, <<AB>>), Schema(Abc, <<"e", "f">>, <<AB, BC>>),
   Schema(Abc, <<"e", "f", "g">>, <<CA, BC, AB>>), Schema(Abc, <<"e", "h">>, <<BB, AB>>),
   Schema(Abc, <<"e", "f">>, <<AB, BB, BC>>), Schema(<<"A", "B">>, <<"e", "f">>, <<BC, AB>>)}

Asks(counts) == [level \in ToSet(Levels) |-> IF level \in DOMAIN counts THEN counts[level] ELSE 0]
MCTargets ==
  {Asks(<< >>), Asks([L1 |-> 2]), Asks([L3 |-> 1, L4 |-> 2]), Asks([L2 |-> 1, L5 |-> 1, L6 |-> 1, L8 |-> 1]),
   Asks([L6 |-> 2, L7 |-> 1]), Asks([L8 |-> 2])}
Repeat == [repeats |-> TRUE, words |-> "w", counts |-> 0, at |-> {}, edge |-> AsAsked, form |-> "forward", bare |-> FALSE]
Reword == [Repeat EXCEPT !.repeats = FALSE]
Write(at, edge, form) == [Reword EXCEPT !.at = at, !.edge = edge, !.form = form]
MCAnswers ==
  {<<Repeat, Reword>>} \cup
  {<<how>> : how \in {Repeat, Reword, [Reword EXCEPT !.counts = 1], [Reword EXCEPT !.bare = TRUE],
                      Write(1..4, AsAsked, "backward"), Write({2}, AsAsked, "backward"),
                      Write({1}, "f", "forward"), Write({2}, "e", "forward"), Write({2}, "f", "forward"),
                      Write(2..3, "e", "forward"), Write({1}, "x", "named")}}
=============================================================================
