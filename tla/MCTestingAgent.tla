--------------------------- MODULE MCTestingAgent ---------------------------
(* Small instances of TestingAgent: ids are independent of each other, so   *)
(* one id with two or three runs, and two contents of which one parses.     *)
EXTENDS ConsoleViews, TLC

CONSTANTS q1, r1, r2, r3, good, bad, g1, g2

RunSymmetry == Permutations(Runs)

=============================================================================
