------------------------------ MODULE MCQaJobs ------------------------------
(* Instances of QaJobs for TLC: two queries of one difficulty (c3 would be *)
(* of another), and two jobs that ask for one sample each.                 *)
EXTENDS QaJobs, TLC

CONSTANTS x, y, t1, t2, c1, c2, c3, j1, j2
Difficulties == [c \in Cyphers |-> IF c = c3 THEN "L6" ELSE "L1"]
Wanted == j1 :> ("L1" :> 1) @@ j2 :> ("L1" :> 1)
Alike == Permutations({t1, t2}) \cup Permutations({c1, c2}) \cup Permutations({x, y}) \cup Permutations({j1, j2})
=============================================================================
