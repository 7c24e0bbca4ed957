-------------------------- MODULE EvaluationLedger --------------------------
(***************************************************************************)
(* What the testing-agent promises to the services around it, without its  *)
(* files, tasks and locks: for every sample a list of attempts, one per    *)
(* generation run, each waiting for the golden, ready, stopped without a   *)
(* verdict, or concluded for good.                                         *)
(***************************************************************************)
EXTENDS Naturals, Sequences

CONSTANTS Ids, Runs, Goldens, None

VARIABLES golden, ledger

vars == <<golden, ledger>>

Concluded == {"passed", "failed"}
Entry == [run : Runs, status : {"waiting", "ready", "stopped"} \cup Concluded]

Init ==
  /\ golden = [q \in Ids |-> None]
  /\ ledger = [q \in Ids |-> <<>>]

\* A golden is stored once and may be repeated; each time it may open the
\* last attempt (again), if that one has no verdict yet.
AcceptGolden(q, g) ==
  LET n == Len(ledger[q]) IN
  /\ golden[q] \in {None, g}
  /\ golden' = [golden EXCEPT ![q] = g]
  /\ \/ UNCHANGED ledger
     \/ /\ n # 0
        /\ ledger[q][n].status \notin Concluded
        /\ ledger' = [ledger EXCEPT ![q][n].status = "ready"]

Register(q, r) ==
  /\ \A i \in DOMAIN ledger[q] : ledger[q][i].run # r
  /\ ledger' = [ledger EXCEPT ![q] = Append(@,
        [run |-> r, status |-> IF golden[q] = None THEN "waiting" ELSE "ready"])]
  /\ UNCHANGED golden

Conclude(q, n, status) ==
  /\ golden[q] # None
  /\ ledger[q][n].status \in {"ready", "stopped"}
  /\ ledger' = [ledger EXCEPT ![q][n].status = status]
  /\ UNCHANGED golden

Next ==
  \E q \in Ids :
    \/ \E g \in Goldens : AcceptGolden(q, g)
    \/ \E r \in Runs : Register(q, r)
    \/ \E n \in DOMAIN ledger[q], s \in {"stopped"} \cup Concluded : Conclude(q, n, s)

Spec == Init /\ [][Next]_vars

=============================================================================
