---------------------------- MODULE MCRepairChain ----------------------------
(* Instances of RepairChain for TLC: every delivery is of one ticket, and   *)
(* the knowledge-agent starts with no run.                                  *)
EXTENDS RepairChain
NoRun == {<< >>}
OneTicket == [d \in Deliveries |-> CHOOSE k \in Tickets : TRUE]
=============================================================================
