-------------------------- MODULE MCQuestionDelivery --------------------------
(* Small instances of QuestionDelivery; run ids are interchangeable.       *)
EXTENDS QuestionDelivery, TLC

RunSymmetry == Permutations(Runs)
=============================================================================
