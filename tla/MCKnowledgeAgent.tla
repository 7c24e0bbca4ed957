--------------------------- MODULE MCKnowledgeAgent ---------------------------
(* Instances of KnowledgeAgent for TLC: the process finds no run, or one    *)
(* that has been stepped as far as a proposal and its evaluation.           *)
EXTENDS KnowledgeAgent

Stepped(d) == [status |-> "running", steps |-> 2, improved |-> TRUE, auto |-> TRUE,
               changes |-> {[doc |-> d, content |-> CHOOSE c \in Contents \ Invalid : TRUE, ready |-> FALSE]}]
OneRunOrNone == {<< >>} \cup {<<Stepped(d)>> : d \in Docs}
=============================================================================
