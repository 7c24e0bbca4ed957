---------------------------- MODULE ConsoleViews ----------------------------
(***************************************************************************)
(* What the runtime console shows of a sample, as functions of the files   *)
(* of the testing-agent, which it reads from the same directory.  There    *)
(* are two readers: the listing takes a few fields of the latest record,   *)
(* the detail the attempt it names, its ticket and the report of its run;  *)
(* each has a rule of its own for the verdict.                             *)
(*                                                                         *)
(* Abstracted: the trace profile is "all"; a listing is built from the     *)
(* files as they are (it may be as old as its cache, or its signature).    *)
(***************************************************************************)
EXTENDS TestingAgent

\* The report that belongs to a record: that of its run, or any for a sample without one
\* (the latest, which both readers take alike), and none for a generated query.
ReportsFor(q, record) ==
  IF record = NoRecord
  THEN LET known == {failures[q][r] : r \in Runs} \ {"none"} IN IF known = {} THEN {"none"} ELSE known
  ELSE IF record.kind = "generated" THEN {"none"} ELSE {failures[q][record.run]}

\* A sample is a task when it has a golden with a difficulty and something was heard of it.
IsTask(q, record) ==
  /\ golden[q] # None
  /\ record # NoRecord \/ receipt[q] # None \/ ReportsFor(q, record) # {"none"}

\* The attempt of the latest record if it is on file, or the latest record itself.
DetailRecord(q) ==
  IF latest[q].no \in DOMAIN attempts[q] THEN attempts[q][latest[q].no] ELSE latest[q]

HasTicket(q, record) == record.ticket /\ \E k \in tickets : k.id = q /\ k.no = record.no

\* A refusal is a stage of its own, any other report a failure.
Refusals == {"clarification_required", "unsupported_query_shape"}
GenerationStage(record, report) ==
  CASE report \in Refusals -> report
    [] report \in Statuses \ Refusals -> "failed"
    [] OTHER -> IF record = NoRecord THEN "pending" ELSE "passed"

EvaluationStage(q, record) ==
  IF HasTicket(q, record) \/ record.state = "issue_ticket_created" THEN "failed"
  ELSE IF record.state = "passed" THEN "passed" ELSE "pending"

\* The detail asks the evaluation first, then the generation.
DetailVerdict(q, record, report) ==
  LET evaluation == EvaluationStage(q, record)
      generation == GenerationStage(record, report)
  IN CASE evaluation = "passed" -> "pass"
       [] evaluation = "failed" -> "fail"
       [] OTHER -> IF generation \in Refusals THEN generation ELSE "pending"

\* A variant: the state in which a failed evaluation ends is missing.
ListVerdictOpen(record, report) ==
  CASE record.state = "passed" -> "pass"
    [] record.state \in Blocked -> "fail"
    [] OTHER -> IF report \in Refusals THEN report ELSE "pending"

\* The listing asks the state; the verdict is not among the fields it reads.
ListVerdict(record, report) ==
  CASE record.state = "passed" -> "pass"
    [] record.state \in Blocked \cup {"issue_ticket_created"} -> "fail"
    [] OTHER -> IF report \in Refusals THEN report ELSE "pending"

-----------------------------------------------------------------------------
\* Listing and detail tell the same of a sample whenever they are read - between two
\* writes of an evaluation, too -, except of an evaluation that was stopped, which the
\* listing calls failed and the detail pending, and of one whose ticket is linked and
\* whose state is still to be written.
ViewsAgree ==
  \A q \in Ids :
    LET listed == latest[q]
        detail == DetailRecord(q)
    IN IsTask(q, listed) /\ listed.state \notin Blocked /\ ~(detail.ticket /\ detail.state \notin Settled)
       => \A report \in ReportsFor(q, listed) : ListVerdict(listed, report) = DetailVerdict(q, detail, report)

=============================================================================
