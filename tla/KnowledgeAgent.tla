---------------------------- MODULE KnowledgeAgent ----------------------------
(***************************************************************************)
(* The knowledge-agent: knowledge documents with their history, and the    *)
(* repair runs that change them.  Every endpoint is a plain function that  *)
(* FastAPI runs in a thread of its pool, and the state is in files that    *)
(* are read, changed in memory and written back without a lock.  An action *)
(* is what a thread does from one access of a file to the next; between    *)
(* two of them the other threads go on, and a call of the model lasts for  *)
(* seconds.                                                                *)
(*                                                                         *)
(* Abstracted: a document is the sequence of its blocks (one section), a   *)
(* block is its id and its content, and what makes a candidate fit to be   *)
(* applied (duplicate and conflict checked, confidence of 0.8) is one      *)
(* flag.  A file is written in one step.                                   *)
(***************************************************************************)
EXTENDS Naturals, Sequences, FiniteSets, SequencesExt

CONSTANTS
  Docs,         \* editable documents
  Reviewed,     \* those whose changes PolicyGuard.requires_review
  FewShot,      \* the document that is cleaned at startup
  Contents,     \* what a block may say
  Invalid,      \* contents the schema-aware validator refuses
  PatchKey,     \* the id of the blocks that repairs add
  None,
  Threads,      \* threads of the pool
  Found,        \* what agent_runs may hold when the process is first started
  Served,       \* bound: the requests that are sent
  MaxSteps,     \* constraints.max_steps
  MaxRequests,  \* bound: requests
  MaxRuns,      \* bound: runs
  MaxDeaths     \* bound: deaths of the process

RunOps == {"create_run", "legacy", "step", "approve", "reject"}
DocumentOps == {"edit", "create", "update", "delete"}

ASSUME KnowledgeAssumption ==
  /\ Reviewed \subseteq Docs /\ FewShot \in Docs /\ Invalid \subseteq Contents
  /\ Served \subseteq RunOps \cup DocumentOps
  /\ {MaxSteps, MaxRequests, MaxRuns, MaxDeaths} \subseteq Nat

VARIABLES
  docs,      \* per document: its blocks
  history,   \* the files of _history: document, text before and after, who
  written,   \* history variable: per document, every text its file has had
  runs,      \* the files of agent_runs
  memory,    \* the lines of repair_memory.jsonl: the run and how it ended
  thread,    \* per thread: its request, where it is, what it has read
  requests, deaths

store == <<docs, history, written>>
vars == <<docs, history, written, runs, memory, thread, requests, deaths>>

Statuses == {"created", "running", "needs_review", "applied", "completed", "rejected", "failed"}
Block == [key: Contents \cup {PatchKey}, content: Contents]
Candidate == [doc: Docs, content: Contents, ready: BOOLEAN]
Run == [status: Statuses, steps: Nat, changes: SUBSET Candidate, improved: BOOLEAN, auto: BOOLEAN]

\* Documents start empty, so no run that is found has been completed on them.
ASSUME FoundAssumption ==
  \A found \in Found : found \in Seq(Run) /\ \A r \in DOMAIN found : found[r].status # "completed"

Waiting == [op |-> "none", pc |-> "waiting", run |-> 0, copy |-> None, seen |-> None,
            todo |-> {}, doc |-> None, node |-> 0, block |-> None, before |-> << >>, after |-> << >>]

Init ==
  /\ docs = [d \in Docs |-> << >>]
  /\ history = {}
  /\ written = [d \in Docs |-> {<< >>}]
  /\ runs \in Found
  /\ memory = {}
  /\ thread = [t \in Threads |-> Waiting]
  /\ requests = 0
  /\ deaths = 0

Has(text, content) == \E i \in DOMAIN text : text[i].content = content

\* The thread goes on at pc with some of its fields changed, or it answers.
Goes(t, to) == thread' = [thread EXCEPT ![t] = to]
Answers(t) == Goes(t, Waiting)
At(t, op, pc) == thread[t].op = op /\ thread[t].pc = pc

Request(t, op) ==
  /\ op \in Served /\ requests < MaxRequests
  /\ thread[t] = Waiting
  /\ requests' = requests + 1

-----------------------------------------------------------------------------
(* Writing a document.                                                     *)

\* write_versioned: the document first, its history entry second.
WriteDocument(t) ==
  /\ thread[t].pc = "write"
  /\ LET d == thread[t].doc IN
     /\ docs' = [docs EXCEPT ![d] = thread[t].after]
     /\ written' = [written EXCEPT ![d] = @ \cup {thread[t].after}]
  /\ Goes(t, [thread[t] EXCEPT !.pc = "record"])
  /\ UNCHANGED <<history, runs, memory, requests, deaths>>

Entry(t) == [doc |-> thread[t].doc, before |-> thread[t].before,
             after |-> thread[t].after, by |-> thread[t].op]

RecordHistory(t) ==
  /\ thread[t].pc = "record"
  /\ history' = history \cup {Entry(t)}
  /\ IF thread[t].op \in RunOps THEN Goes(t, [thread[t] EXCEPT !.pc = "apply"]) ELSE Answers(t)
  /\ UNCHANGED <<docs, written, runs, memory, requests, deaths>>

Rewrites(t, d, after) ==
  Goes(t, [thread[t] EXCEPT !.pc = "write", !.doc = d, !.before = docs[d], !.after = after])

-----------------------------------------------------------------------------
(* The editor: a client loads a document, its user changes it, and the     *)
(* whole text is put back.                                                 *)

EditorLoads(t) == \E d \in Docs :
  /\ Request(t, "edit")
  /\ Goes(t, [Waiting EXCEPT !.op = "edit", !.pc = "editing", !.doc = d, !.seen = docs[d]])
  /\ UNCHANGED <<store, runs, memory, deaths>>

\* save_document checks nothing: the text may say a thing again.
EditorSaves(t) ==
  /\ At(t, "edit", "editing")
  /\ LET seen == thread[t].seen IN
     \/ \E c \in Contents : Rewrites(t, thread[t].doc, Append(seen, [key |-> c, content |-> c]))
     \/ \E i \in DOMAIN seen : Rewrites(t, thread[t].doc, RemoveAt(seen, i))
  /\ UNCHANGED <<store, runs, memory, requests, deaths>>

-----------------------------------------------------------------------------
(* The tree: a node is a block, named by its id and, when blocks share an  *)
(* id, by which of them it is.                                             *)

Occurrence(text, i) == Cardinality({j \in 1..i : text[j].key = text[i].key})
Find(text, node) ==
  {i \in DOMAIN text : text[i].key = node.key /\ Occurrence(text, i) = node.nth}
NodeOf(text, i) == [key |-> text[i].key, nth |-> Occurrence(text, i)]

\* _assert_unique_block reads the document ...
CreateNode(t) == \E d \in Docs \ Reviewed, c \in Contents :
  /\ Request(t, "create")
  /\ ~Has(docs[d], c)
  /\ \A e \in Docs : \A i \in DOMAIN docs[e] : docs[e][i].key # c
  /\ Goes(t, [Waiting EXCEPT !.op = "create", !.pc = "checked", !.doc = d,
                             !.block = [key |-> c, content |-> c]])
  /\ UNCHANGED <<store, runs, memory, deaths>>

UpdateNode(t) == \E d \in Docs, c \in Contents : \E i \in DOMAIN docs[d] :
  /\ Request(t, "update")
  /\ \A j \in DOMAIN docs[d] \ {i} : docs[d][j].content # c
  /\ Goes(t, [Waiting EXCEPT !.op = "update", !.pc = "checked", !.doc = d, !.node = NodeOf(docs[d], i),
                             !.block = [key |-> docs[d][i].key, content |-> c]])
  /\ UNCHANGED <<store, runs, memory, deaths>>

DeleteNode(t) == \E d \in Docs : \E i \in DOMAIN docs[d] :
  /\ Request(t, "delete")
  /\ Goes(t, [Waiting EXCEPT !.op = "delete", !.pc = "checked", !.doc = d, !.node = NodeOf(docs[d], i)])
  /\ UNCHANGED <<store, runs, memory, deaths>>

\* ... and what is written is made from a second reading.
RewriteTree(t) ==
  /\ thread[t].op \in {"create", "update", "delete"} /\ thread[t].pc = "checked"
  /\ LET d == thread[t].doc
         text == docs[d]
         at == Find(text, thread[t].node)
     IN \/ thread[t].op = "create" /\ Rewrites(t, d, Append(text, thread[t].block))
        \/ /\ thread[t].op = "update"
           /\ \E i \in at : Rewrites(t, d, [text EXCEPT ![i] = thread[t].block])
        \/ thread[t].op = "delete" /\ \E i \in at : Rewrites(t, d, RemoveAt(text, i))
        \/ thread[t].op # "create" /\ at = {} /\ Answers(t)  \* KNOWLEDGE_TREE_NODE_NOT_FOUND
  /\ UNCHANGED <<store, runs, memory, requests, deaths>>

-----------------------------------------------------------------------------
(* The repair runs.                                                        *)

NewRun(auto) == [status |-> "created", steps |-> 0, changes |-> {}, improved |-> FALSE, auto |-> auto]

CreateRun(t) ==
  /\ Request(t, "create_run") /\ Len(runs) < MaxRuns
  /\ \E auto \in BOOLEAN : runs' = Append(runs, NewRun(auto))
  /\ UNCHANGED <<store, memory, thread, deaths>>

\* What RepairService.propose leaves of the patches of an answer: at most one
\* per document, none that the schema refuses.
Proposals(ready) == {P \in SUBSET {c \in Candidate : c.ready = ready /\ c.content \notin Invalid} :
                       \A p, q \in P : p.doc = q.doc => p = q}

\* /repairs/apply: the run is on file before the model is asked for patches.
LegacyCreates(t) ==
  /\ thread[t].pc = "waiting" /\ Len(runs) < MaxRuns
  /\ runs' = Append(runs, NewRun(FALSE))
  /\ Goes(t, [Waiting EXCEPT !.op = "legacy", !.pc = "propose", !.run = Len(runs) + 1,
                             !.copy = NewRun(FALSE)])
  /\ UNCHANGED <<store, memory, deaths>>

LegacyProposes(t) ==
  /\ At(t, "legacy", "propose")
  /\ \/ \E P \in Proposals(TRUE) :
          Goes(t, [thread[t] EXCEPT !.pc = "save", !.copy = [thread[t].copy EXCEPT
            !.steps = 1, !.changes = P, !.improved = P # {},
            !.status = IF P = {} THEN "failed" ELSE "needs_review"]])
     \/ Answers(t)  \* the model fails: 500, and the run stays as it was created
  /\ UNCHANGED <<store, runs, memory, requests, deaths>>

Legacy(t) == Request(t, "legacy") /\ LegacyCreates(t)

SaveRun(t) ==
  /\ thread[t].pc = "save"
  /\ runs' = [runs EXCEPT ![thread[t].run] = thread[t].copy]
  /\ Answers(t)
  /\ UNCHANGED <<store, memory, requests, deaths>>

\* step: nothing looks at the status of the run.
StepBegins(t) == \E r \in DOMAIN runs :
  /\ Request(t, "step")
  /\ Goes(t, IF runs[r].steps >= MaxSteps
             THEN [Waiting EXCEPT !.op = "step", !.pc = "save", !.run = r,
                                  !.copy = [runs[r] EXCEPT !.status = "failed"]]
             ELSE [Waiting EXCEPT !.op = "step", !.pc = "decide", !.run = r, !.copy = runs[r]])
  /\ UNCHANGED <<store, runs, memory, deaths>>

\* The end of a step that asks for no tool.
StepConcludes(t) ==
  /\ At(t, "step", "decide")
  /\ \/ Answers(t)  \* an invalid action: 500, nothing is written
     \/ \E status \in {"needs_review", "rejected"} :
          Goes(t, [thread[t] EXCEPT !.pc = "save", !.copy = [thread[t].copy EXCEPT
            !.status = status, !.steps = thread[t].copy.steps + 1]])
  /\ UNCHANGED <<store, runs, memory, requests, deaths>>

\* A tool has been executed: append_trace reads the run again ...
StepReadsAgain(t) ==
  /\ At(t, "step", "decide")
  /\ LET run == runs[thread[t].run] IN
     Goes(t, [thread[t] EXCEPT !.pc = "trace", !.copy = [run EXCEPT !.steps = run.steps + 1]])
  /\ UNCHANGED <<store, runs, memory, requests, deaths>>

\* check_duplicate and check_conflict return the candidate that the controller
\* sent along, marked as checked, for those of the run with its target_key: a name
\* that the model chose, and any candidates may share.
Checked(run) ==
  {[run EXCEPT !.changes = (run.changes \ same) \cup {checked}] :
     same \in SUBSET run.changes \ {{}}, checked \in Candidate}

\* apply_observation_to_run: the runs that the answer of a tool can make of a run.
Observed(run) ==
  {run} \cup {[run EXCEPT !.changes = P] : P \in Proposals(FALSE)}
        \cup Checked(run) \cup {[run EXCEPT !.improved = b] : b \in BOOLEAN}

\* PolicyGuard: the requirements of every apply, and those of one without a
\* reviewer.
Applicable(run) == run.changes # {} /\ run.improved /\ \A c \in run.changes : c.ready
\* A variant: a high confidence is enough for every document.
AutoApplicableAll(run) == run.auto /\ Applicable(run)
AutoApplicable(run) == run.auto /\ Applicable(run) /\ \A c \in run.changes : c.doc \notin Reviewed

\* ... writes it with one more entry, and takes the observation over.
StepTraces(t) ==
  /\ At(t, "step", "trace")
  /\ LET copy == thread[t].copy IN
     /\ runs' = [runs EXCEPT ![thread[t].run] = copy]
     /\ \/ \E more \in {0, 1} :  \* an observation that does not fit is traced once more
             Goes(t, [thread[t] EXCEPT !.pc = "save",
                                       !.copy = [copy EXCEPT !.status = "failed", !.steps = copy.steps + more]])
        \/ \E run \in Observed([copy EXCEPT !.status = "running"]) :
             Goes(t, IF AutoApplicable(run)
                     THEN [thread[t] EXCEPT !.pc = "apply", !.copy = run, !.todo = run.changes]
                     ELSE [thread[t] EXCEPT !.pc = "save", !.copy = run])
  /\ UNCHANGED <<store, memory, requests, deaths>>

Approve(t) == \E r \in DOMAIN runs :
  /\ Request(t, "approve")
  /\ IF Applicable(runs[r])
     THEN Goes(t, [Waiting EXCEPT !.op = "approve", !.pc = "apply", !.run = r, !.copy = runs[r],
                                  !.todo = runs[r].changes])
     ELSE Answers(t)
  /\ UNCHANGED <<store, runs, memory, deaths>>

\* A variant: nothing looks for what the section says already.
ApplyPatchAlways(t) ==
  /\ thread[t].pc = "apply"
  /\ \E c \in thread[t].todo :
       LET rest == [thread[t] EXCEPT !.todo = @ \ {c}]
           text == docs[c.doc]
       IN Goes(t, [rest EXCEPT !.pc = "write", !.doc = c.doc, !.before = text,
                     !.after = Append(text, [key |-> PatchKey, content |-> c.content])])
  /\ UNCHANGED <<store, runs, memory, requests, deaths>>
\* apply_candidates: one patch after the other, in any order of the list; what
\* the schema refuses or the section holds already is passed over.
ApplyPatch(t) ==
  /\ thread[t].pc = "apply"
  /\ \E c \in thread[t].todo :
       LET rest == [thread[t] EXCEPT !.todo = @ \ {c}]
           text == docs[c.doc]
       IN IF c.content \in Invalid \/ Has(text, c.content)
          THEN Goes(t, rest)
          ELSE Goes(t, [rest EXCEPT !.pc = "write", !.doc = c.doc, !.before = text,
                          !.after = Append(text, [key |-> PatchKey, content |-> c.content])])
  /\ UNCHANGED <<store, runs, memory, requests, deaths>>

\* A variant: the run is completed in one save, and remembered then.
SaveCompleted(t) ==
  /\ thread[t].pc = "apply" /\ thread[t].todo = {}
  /\ LET run == [thread[t].copy EXCEPT !.status = "completed"] IN
     /\ runs' = [runs EXCEPT ![thread[t].run] = run]
     /\ Goes(t, [thread[t] EXCEPT !.pc = "remember", !.copy = run])
  /\ UNCHANGED <<store, memory, requests, deaths>>
\* apply_and_complete: the run is saved as applied, remembered, and completed.
SaveApplied(t) ==
  /\ thread[t].pc = "apply" /\ thread[t].todo = {}
  /\ LET run == [thread[t].copy EXCEPT !.status = "applied"] IN
     /\ runs' = [runs EXCEPT ![thread[t].run] = run]
     /\ Goes(t, [thread[t] EXCEPT !.pc = "remember", !.copy = [run EXCEPT !.status = "completed"]])
  /\ UNCHANGED <<store, memory, requests, deaths>>

Reject(t) == \E r \in DOMAIN runs :
  /\ Request(t, "reject")
  /\ Goes(t, [Waiting EXCEPT !.op = "reject", !.pc = "remember", !.run = r,
                             !.copy = [runs[r] EXCEPT !.status = "rejected"]])
  /\ UNCHANGED <<store, runs, memory, deaths>>

Remember(t) ==
  /\ thread[t].pc = "remember"
  /\ memory' = memory \cup {[run |-> thread[t].run, rejected |-> thread[t].op = "reject"]}
  /\ Goes(t, [thread[t] EXCEPT !.pc = "save"])
  /\ UNCHANGED <<store, runs, requests, deaths>>

-----------------------------------------------------------------------------
(* The process dies and is started again: the threads are gone, and the    *)
(* startup removes the few-shots that the schema refuses.                  *)
Sound(text) ==
  LET sound[n \in 0..Len(text)] ==
        IF n = 0 THEN << >>
        ELSE IF text[n].content \in Invalid THEN sound[n - 1] ELSE Append(sound[n - 1], text[n])
  IN sound[Len(text)]

Restart ==
  /\ deaths < MaxDeaths /\ deaths' = deaths + 1
  /\ thread' = [t \in Threads |-> Waiting]
  /\ LET text == docs[FewShot]
         clean == Sound(text)
     IN IF clean = text THEN UNCHANGED store ELSE
        /\ docs' = [docs EXCEPT ![FewShot] = clean]
        /\ written' = [written EXCEPT ![FewShot] = @ \cup {clean}]
        /\ history' = history \cup {[doc |-> FewShot, before |-> text, after |-> clean, by |-> "cleanup"]}
  /\ UNCHANGED <<runs, memory, requests>>

RunStep(t) ==
  \/ LegacyProposes(t) \/ StepConcludes(t) \/ StepReadsAgain(t) \/ StepTraces(t)
  \/ ApplyPatch(t) \/ SaveApplied(t) \/ Remember(t) \/ SaveRun(t)
DocumentStep(t) == EditorSaves(t) \/ RewriteTree(t) \/ WriteDocument(t) \/ RecordHistory(t)
NewRequest(t) ==
  \/ CreateRun(t) \/ Legacy(t) \/ StepBegins(t) \/ Approve(t) \/ Reject(t)
  \/ EditorLoads(t) \/ CreateNode(t) \/ UpdateNode(t) \/ DeleteNode(t)

Next == Restart \/ \E t \in Threads : RunStep(t) \/ DocumentStep(t) \/ NewRequest(t)
Spec == Init /\ [][Next]_vars

-----------------------------------------------------------------------------
(* Properties.                                                             *)

TypeOK ==
  /\ docs \in [Docs -> Seq(Block)]
  /\ \A e \in history : e.doc \in Docs /\ e.before \in Seq(Block) /\ e.after \in Seq(Block)
  /\ \A d \in Docs : docs[d] \in written[d]
  /\ runs \in Seq(Run)
  /\ memory \subseteq [run : DOMAIN runs, rejected : BOOLEAN]
  /\ \A t \in Threads : thread[t].run \in 0..Len(runs) /\ thread[t].copy \in Run \cup {None}

\* A change of the system prompt that a run made without a reviewer does not
\* exist, whatever other threads write to the run while its step is on its way
\* from the model to the document.
ReviewedNeedsApproval == \A e \in history : e.by = "step" => e.doc \notin Reviewed

\* Nothing a document ever said is lost: unless the process died, every text
\* its file had is the one it has now, in an entry of the history, or about to
\* be recorded by the thread that wrote it - also when threads overwrite each
\* other's text.
Recorded(d, text) ==
  \/ text = docs[d]
  \/ \E e \in history : e.doc = d /\ text \in {e.before, e.after}
  \/ \E t \in Threads : thread[t].pc = "record" /\ thread[t].doc = d /\ text \in {thread[t].before, thread[t].after}
NothingUnrecorded == deaths = 0 => \A d \in Docs : \A text \in written[d] : Recorded(d, text)

\* A run that says completed has its side effects behind it: every candidate it
\* applied was in its document at some time, and its memory entry is written -
\* whatever died or was saved by other threads in between.
CompletedAfterEffects == \A r \in DOMAIN runs : runs[r].status = "completed" =>
  /\ [run |-> r, rejected |-> FALSE] \in memory
  /\ \A c \in runs[r].changes : c.content \in Invalid \/ \E text \in written[c.doc] : Has(text, c.content)

\* A text says a thing twice only after somebody wrote it so: a client of the editor,
\* whose text is not checked, or of the tree, whose check for duplicates looks at another
\* reading than the one it writes.  Neither approvals side by side nor an apply racing
\* them repeat a patch.  (A death may take the record of the write with it.)
ByHand == {"edit", "create", "update"}
Twice(text, c) == \E i, j \in DOMAIN text : i # j /\ text[i].content = c /\ text[j].content = c
DuplicatesByHand == deaths = 0 => \A d \in Docs, c \in Contents : Twice(docs[d], c) =>
  \/ \E e \in history : e.doc = d /\ e.by \in ByHand /\ Twice(e.after, c)
  \/ \E t \in Threads : thread[t].op \in ByHand /\ thread[t].doc = d /\ Twice(thread[t].after, c)

\* The state has its type, no text is lost, and a completed run has done what it says.
KnowledgeInv == TypeOK /\ NothingUnrecorded /\ CompletedAfterEffects
=============================================================================
