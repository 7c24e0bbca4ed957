----------------------------- MODULE UserQueries -----------------------------
(***************************************************************************)
(* The runtime console's user queries: a question goes to the generator    *)
(* and its Cypher to TuGraph, the outcome is kept in a file per query and  *)
(* an index of the newest, and a query that did not complete is diagnosed  *)
(* by a background task.  The handlers share one event loop: an action is  *)
(* what one does between two awaits or, because the process may die there, *)
(* up to the next change of a file.  A death in a write leaves the file    *)
(* without its text.                                                       *)
(*                                                                         *)
(* Abstracted: an answer is what the handler tells apart about it; the     *)
(* readers change nothing and are left out.                                *)
(***************************************************************************)
EXTENDS Naturals, Sequences, FiniteSets, SequencesExt

CONSTANTS
  Queries,
  HistoryLimit,  \* history_limit
  None, Torn,    \* no file; a file without its text
  MaxDeaths      \* bound: deaths of the process

VARIABLES
  handler,  \* per query: where create_user_query is, and the record it makes
  task,     \* per query: where complete_cga_diagnostic is, and the record it read
  files,    \* the record of a query
  index,    \* index.json: ids, newest first
  saving,   \* the query whose save keeps the event loop
  expired,  \* expired_ids of that save
  blamed,   \* history variable: the party whose answer ended the query
  saved,    \* history variable: queries in the order their saves began
  late,     \* history variable: evicted while their diagnosis was under way
  deaths

vars == <<handler, task, files, index, saving, expired, blamed, saved, late, deaths>>

\* "unanswered": clarification_required, or generated without a Cypher.
Statuses == {"completed", "query_failed", "unanswered", "service_failed"}
Sources == {"runtime_cga_call", "tugraph", "cga"}
\* Who ends a query: nobody has to be blamed, or a call failed without a text.
Parties == Sources \cup {"nobody", "silent_call"}
Record == [status: Statuses, cga_error: BOOLEAN, tugraph_error: BOOLEAN,
           diagnostic: {"not_required", "pending", "failed"} \cup Sources]

ASSUME QueryAssumption ==
  /\ HistoryLimit \in Nat \ {0} /\ MaxDeaths \in Nat
  /\ None \notin Queries \cup Record
  /\ Torn \notin Record \cup Seq(Queries) \cup {None}

Init ==
  /\ handler = [q \in Queries |-> [pc |-> "new", record |-> None]]
  /\ task = [q \in Queries |-> [pc |-> "none", record |-> None]]
  /\ files = [q \in Queries |-> None]
  /\ index = << >>
  /\ saving = None /\ expired = {} /\ blamed = [q \in Queries |-> "nobody"]
  /\ saved = << >> /\ late = {} /\ deaths = 0

Handler(q, pc, record) == handler' = [handler EXCEPT ![q] = [pc |-> pc, record |-> record]]
Task(q, pc, record) == task' = [task EXCEPT ![q] = [pc |-> pc, record |-> record]]
File(q, content) == files' = [files EXCEPT ![q] = content]

-----------------------------------------------------------------------------
(* create_user_query.                                                      *)

Create(q) ==
  /\ saving = None /\ handler[q].pc = "new"
  /\ Handler(q, "generating", None)
  /\ UNCHANGED <<task, files, index, saving, expired, blamed, saved, late, deaths>>

\* cga_error and tugraph_error: is there an error with a text?  The diagnostic is
\* deferred: main.py asks for that in every request.
RecordOf(status, cga_error, tugraph_error) ==
  [status |-> status, cga_error |-> cga_error, tugraph_error |-> tugraph_error,
   diagnostic |-> IF status = "completed" THEN "not_required" ELSE "pending"]

BeginSave(q, record, party) ==
  /\ Handler(q, "record", record)
  /\ saving' = q
  /\ saved' = Append(saved, q)
  /\ blamed' = [blamed EXCEPT ![q] = party]

\* The call fails, and what is kept of it is the text of its exception, which some
\* do not have; the generator refuses, fails, or says generated and gives no
\* Cypher; or there is a Cypher to run.
GeneratorAnswers(q) ==
  /\ saving = None /\ handler[q].pc = "generating"
  /\ \/ BeginSave(q, RecordOf("service_failed", TRUE, FALSE), "runtime_cga_call")
     \/ BeginSave(q, RecordOf("service_failed", FALSE, FALSE), "silent_call")
     \/ \E status \in {"unanswered", "service_failed"} :
          BeginSave(q, RecordOf(status, FALSE, FALSE), "cga")
     \/ Handler(q, "querying", None) /\ UNCHANGED <<saving, saved, blamed>>
  /\ UNCHANGED <<task, files, index, expired, late, deaths>>

\* _execute_tugraph makes an error message of a call that fails.
TuGraphAnswers(q) ==
  /\ saving = None /\ handler[q].pc = "querying"
  /\ \/ BeginSave(q, RecordOf("completed", FALSE, FALSE), "nobody")
     \/ BeginSave(q, RecordOf("query_failed", FALSE, TRUE), "tugraph")
  /\ UNCHANGED <<task, files, index, expired, late, deaths>>

-----------------------------------------------------------------------------
(* _save_record, and the end of the handler.                               *)

\* The query first, the others behind it.  A variant: the query last.
OrderedLast(q) == SelectSeq(index, LAMBDA i : i # q) \o <<q>>
Ordered(q) ==
  LET ordered[n \in 0..Len(index)] ==
        IF n = 0 THEN <<q>>
        ELSE IF index[n] = q THEN ordered[n - 1] ELSE Append(ordered[n - 1], index[n])
  IN ordered[Len(index)]

Kept(ids) == SubSeq(ids, 1, IF Len(ids) < HistoryLimit THEN Len(ids) ELSE HistoryLimit)

SaveRecord(q) ==
  /\ saving = q /\ handler[q].pc = "record"
  /\ File(q, handler[q].record)
  /\ Handler(q, "index", handler[q].record)
  /\ UNCHANGED <<task, index, saving, expired, blamed, saved, late, deaths>>

\* An index that cannot be read fails the request: its record stays, and no
\* diagnosis is started.
SaveIndex(q) ==
  /\ saving = q /\ handler[q].pc = "index"
  /\ IF index = Torn
     THEN Handler(q, "failed", None) /\ saving' = None /\ UNCHANGED <<index, expired>>
     ELSE /\ Handler(q, "evict", handler[q].record)
          /\ index' = Kept(Ordered(q))
          /\ expired' = ToSet(SubSeq(Ordered(q), HistoryLimit + 1, Len(Ordered(q))))
          /\ UNCHANGED saving
  /\ UNCHANGED <<task, files, blamed, saved, late, deaths>>

\* The files of the expired go.  A variant: they stay.
UnlinkNone(ids) == files
Unlink(ids) == [i \in Queries |-> IF i \in ids THEN None ELSE files[i]]

\* main.py adds the task for a diagnostic that is pending.
HasTask(record) == record.diagnostic = "pending"

Answer(q) ==
  /\ saving = q /\ handler[q].pc = "evict"
  /\ files' = Unlink(expired)
  /\ late' = late \cup {i \in expired : task[i].pc = "diagnosing"}
  /\ expired' = {} /\ saving' = None
  /\ Handler(q, "answered", None)
  /\ IF HasTask(handler[q].record) THEN Task(q, "added", None) ELSE UNCHANGED task
  /\ UNCHANGED <<index, blamed, saved, deaths>>

-----------------------------------------------------------------------------
(* complete_cga_diagnostic, after the answer has been sent.                *)

\* A query that is gone from disk is not diagnosed.
ReadRecord(q) ==
  /\ saving = None /\ task[q].pc = "added"
  /\ IF files[q] = None THEN Task(q, "ended", None) ELSE Task(q, "diagnosing", files[q])
  /\ UNCHANGED <<handler, files, index, saving, expired, blamed, saved, late, deaths>>

\* _failure_source: whom the facts blame.  A variant: a failed query is looked
\* for by the status alone.
FailureSourceOfStatus(record) == IF record.status = "query_failed" THEN "tugraph" ELSE "cga"
FailureSource(record) ==
  IF record.cga_error THEN "runtime_cga_call"
  ELSE IF record.status = "query_failed" \/ record.tugraph_error THEN "tugraph"
  ELSE "cga"

\* What the model makes of the facts, or that it failed.  A variant: a failure
\* leaves the diagnostic as it was.
DiagnosticsKept(record) == {FailureSource(record), record.diagnostic}
Diagnostics(record) == {FailureSource(record), "failed"}

\* The record that was read is written, whatever has become of its file.
Diagnose(q) ==
  /\ saving = None /\ task[q].pc = "diagnosing"
  /\ \E diagnostic \in Diagnostics(task[q].record) :
       File(q, [task[q].record EXCEPT !.diagnostic = diagnostic])
  /\ Task(q, "ended", None)
  /\ UNCHANGED <<handler, index, saving, expired, blamed, saved, late, deaths>>

-----------------------------------------------------------------------------
(* The process dies: handlers and tasks are gone, and a file that was being *)
(* written may be left without its text.                                    *)

Die ==
  /\ deaths < MaxDeaths
  /\ deaths' = deaths + 1
  /\ handler' = [q \in Queries |->
       IF handler[q].pc \in {"new", "answered", "failed"} THEN handler[q]
       ELSE [pc |-> "failed", record |-> None]]
  /\ task' = [q \in Queries |->
       IF task[q].pc = "none" THEN task[q] ELSE [pc |-> "ended", record |-> None]]
  /\ \/ UNCHANGED <<files, index>>
     \/ \E q \in Queries :
          /\ \/ saving = q /\ handler[q].pc = "record"
             \/ saving = None /\ task[q].pc = "diagnosing"
          /\ File(q, Torn)
          /\ UNCHANGED index
     \/ /\ \E q \in Queries : saving = q /\ handler[q].pc = "index"
        /\ index' = Torn
        /\ UNCHANGED files
  /\ saving' = None /\ expired' = {}
  /\ UNCHANGED <<blamed, saved, late>>

HandlerStep(q) == GeneratorAnswers(q) \/ TuGraphAnswers(q) \/ SaveRecord(q) \/ SaveIndex(q) \/ Answer(q)
TaskStep(q) == ReadRecord(q) \/ Diagnose(q)

Next == \/ \E q \in Queries : Create(q) \/ HandlerStep(q) \/ TaskStep(q)
        \/ Die

\* Every call has a timeout, and the event loop runs what is ready.
Fairness == \A q \in Queries : WF_vars(HandlerStep(q)) /\ WF_vars(TaskStep(q))

Spec == Init /\ [][Next]_vars
FairSpec == Spec /\ Fairness

-----------------------------------------------------------------------------
(* Properties.                                                             *)

Indexed == IF index = Torn THEN {} ELSE ToSet(index)

\* Type invariant: every variable keeps its type, and an index lists a query once
\* and no more of them than the limit.
TypeOK ==
  /\ handler \in [Queries -> [pc : {"new", "generating", "querying", "record", "index", "evict",
                                    "answered", "failed"},
                              record : Record \cup {None}]]
  /\ task \in [Queries -> [pc : {"none", "added", "diagnosing", "ended"}, record : Record \cup {None}]]
  /\ files \in [Queries -> Record \cup {None, Torn}]
  /\ index # Torn => /\ index \in Seq(Queries) /\ Len(index) =< HistoryLimit
                     /\ \A i, j \in DOMAIN index : index[i] = index[j] => i = j
  /\ saving \in Queries \cup {None} /\ expired \subseteq Queries
  /\ blamed \in [Queries -> Parties]
  /\ saved \in Seq(Queries) /\ late \subseteq Queries
  /\ deaths \in 0..MaxDeaths

\* The listing never skips a query: what the index names is on file, whatever was
\* saved, evicted or diagnosed and wherever the process died (_save_record writes
\* the record, then the index, then evicts).
IndexedIsOnFile == \A q \in Indexed : files[q] # None

\* The history is the newest queries, newest first, though queries that started
\* earlier are saved later (ordered_ids[: history_limit]).
KeepsTheNewest ==
  deaths = 0 /\ saving = None =>
    index = Reverse(SubSeq(saved, IF Len(saved) > HistoryLimit THEN Len(saved) - HistoryLimit + 1 ELSE 1,
                           Len(saved)))

\* A file outlives its place in the index only when the process died or its
\* diagnosis was under way when it was evicted: the diagnosis then writes it anew
\* and nothing removes it again (complete_cga_diagnostic does not look).
OrphanIsLate ==
  \A q \in Queries :
    files[q] # None /\ q \notin Indexed /\ saving = None => deaths > 0 \/ q \in late

\* A diagnosis blames the party whose answer ended the query, though it is made
\* later, from the record on file (_failure_source).  A call that failed without a
\* text is the exception: cga_error is str(exc), its truth is what is tested, and
\* the generator is blamed for an answer it has never given.
BlamesTheParty ==
  \A q \in Queries : files[q] \notin {None, Torn} /\ files[q].diagnostic \in Sources =>
                       files[q].diagnostic = IF blamed[q] = "silent_call" THEN "cga" ELSE blamed[q]

\* What is shown as pending ends: it is diagnosed, or the diagnosis is recorded as
\* failed, or the query is evicted, unless the process dies.
PendingEnds ==
  \A q \in Queries :
    files[q] \notin {None, Torn} /\ files[q].diagnostic = "pending"
      ~> \/ files[q] = None
         \/ files[q] # Torn /\ files[q].diagnostic # "pending"
         \/ deaths > 0

\* What the files tell together: types, the index as the newest queries on file, and a
\* diagnosis that is about the party that ended the query, as far as the record
\* tells it.
QueriesInv == TypeOK /\ IndexedIsOnFile /\ KeepsTheNewest /\ BlamesTheParty
=============================================================================
