------------------------------ MODULE RepairChain ------------------------------
(***************************************************************************)
(* The repair-agent in front of the knowledge-agent: a delivered issue     *)
(* ticket is diagnosed by a model, kept as an analysis, and posted to      *)
(* /api/knowledge/repairs/apply until somebody answers.  The repair-agent  *)
(* is one event loop, so an action is what it does between two awaits; the *)
(* knowledge-agent is the module extended here, and a thread of it works   *)
(* on whether or not its client still listens.                             *)
(*                                                                         *)
(* Abstracted: an analysis is its status; a post that is lost before a     *)
(* thread has begun with it does not reach the knowledge-agent later.      *)
(***************************************************************************)
EXTENDS KnowledgeAgent

CONSTANTS
  Tickets, Deliveries,
  TicketOf,        \* the ticket of a delivery
  MaxConcurrency,  \* llm_max_concurrency
  MaxRetries,      \* llm_max_retries
  MaxAttempts,     \* knowledge_agent_repairs_apply_max_attempts
  MaxCrashes       \* bound: deaths of the repair-agent

ASSUME RepairAssumption ==
  /\ TicketOf \in [Deliveries -> Tickets] /\ None \notin Deliveries
  /\ MaxConcurrency \in Nat \ {0} /\ MaxAttempts \in Nat \ {0} /\ {MaxRetries, MaxCrashes} \subseteq Nat

VARIABLES
  analysis,  \* the files of analyses, per ticket
  delivery,  \* per delivery: where its handler is, and its tries
  call,      \* per delivery: the post that is under way
  served,    \* per thread of the knowledge-agent: whose post it works on
  origin,    \* per run: the qa_id it was created for
  excused,   \* history variable: tickets posted again, or diagnosed side by side
  crashes

repair == <<analysis, delivery, call, crashes>>
chain == <<vars, repair, served, origin, excused>>

Analyses == {"none", "not_repairable", "analysis_pending", "apply_failed", "repair_apply_paused", "applied"}
Calls == {"none", "sent", "running", "ok", "failed", "refused", "paused", "lost"}

ChainInit ==
  /\ Init /\ runs = << >>
  /\ analysis = [k \in Tickets |-> "none"]
  /\ delivery = [d \in Deliveries |-> [pc |-> "absent", tries |-> 0]]
  /\ call = [d \in Deliveries |-> "none"]
  /\ served = [t \in Threads |-> None]
  /\ origin = << >>
  /\ excused = {}
  /\ crashes = 0

Handler(d, pc, tries) == delivery' = [delivery EXCEPT ![d] = [pc |-> pc, tries |-> tries]]
Called(d, c) == call' = [call EXCEPT ![d] = c]
SaveAnalysis(d, status) == analysis' = [analysis EXCEPT ![TicketOf[d]] = status]
Others(d) == {e \in Deliveries \ {d} : TicketOf[e] = TicketOf[d] /\ delivery[e].pc \notin {"absent", "done"}}

-----------------------------------------------------------------------------
(* create_issue_ticket_response, from one await to the next.               *)

\* A variant: only an analysis that was applied is looked for.
ArriveAgain(d) ==
  /\ delivery[d].pc = "absent"
  /\ IF analysis[TicketOf[d]] = "applied"
     THEN Handler(d, "done", 0) /\ UNCHANGED excused
     ELSE /\ Handler(d, "queued", 0)
          /\ excused' = IF Others(d) = {} THEN excused ELSE excused \cup {TicketOf[d]}
  /\ UNCHANGED <<vars, analysis, call, served, origin, crashes>>
\* An analysis that exists, whatever its status, is the answer.
Arrive(d) ==
  /\ delivery[d].pc = "absent"
  /\ IF analysis[TicketOf[d]] # "none"
     THEN Handler(d, "done", 0) /\ UNCHANGED excused
     ELSE /\ Handler(d, "queued", 0)
          /\ excused' = IF Others(d) = {} THEN excused ELSE excused \cup {TicketOf[d]}
  /\ UNCHANGED <<vars, analysis, call, served, origin, crashes>>

Diagnosing == {d \in Deliveries : delivery[d].pc = "diagnosing"}

\* diagnose waits for the semaphore and holds it over its retries.
TakePermit(d) ==
  /\ delivery[d].pc = "queued" /\ Cardinality(Diagnosing) < MaxConcurrency
  /\ Handler(d, "diagnosing", 0)
  /\ UNCHANGED <<vars, analysis, call, served, origin, excused, crashes>>

ModelFails(d) ==
  /\ delivery[d].pc = "diagnosing"
  /\ \/ delivery[d].tries < MaxRetries /\ Handler(d, "diagnosing", delivery[d].tries + 1)
     \/ Handler(d, "done", 0)  \* the last retry, or nothing to retry: 500
  /\ UNCHANGED <<vars, analysis, call, served, origin, excused, crashes>>

\* What is saved is saved over whatever another delivery has saved meanwhile.
Diagnosed(d) ==
  /\ delivery[d].pc = "diagnosing"
  /\ \/ SaveAnalysis(d, "not_repairable") /\ Handler(d, "done", 0) /\ UNCHANGED call
     \/ SaveAnalysis(d, "analysis_pending") /\ Handler(d, "posting", 1) /\ Called(d, "sent")
  /\ UNCHANGED <<vars, served, origin, excused, crashes>>

\* A transport error, the request timeout included.
Lost(d) ==
  /\ call[d] \in {"sent", "running"}
  /\ Called(d, "lost")
  /\ served' = [t \in Threads |-> IF served[t] = d THEN None ELSE served[t]]
  /\ UNCHANGED <<vars, analysis, delivery, origin, excused, crashes>>

\* A 4xx, or an answer that says that applying is disabled.
Refused(d) ==
  /\ call[d] = "sent"
  /\ Called(d, "refused") \/ Called(d, "paused")
  /\ UNCHANGED <<vars, analysis, delivery, served, origin, excused, crashes>>

\* A variant: the attempts are not counted.
PostForEver(d) ==
  /\ call[d] \in {"lost", "failed"}
  /\ Called(d, "sent") /\ UNCHANGED delivery
  /\ excused' = excused \cup {TicketOf[d]}
  /\ UNCHANGED <<vars, analysis, served, origin, crashes>>
PostAgain(d) ==
  /\ call[d] \in {"lost", "failed"} /\ delivery[d].tries < MaxAttempts
  /\ Called(d, "sent") /\ Handler(d, "posting", delivery[d].tries + 1)
  /\ excused' = excused \cup {TicketOf[d]}
  /\ UNCHANGED <<vars, analysis, served, origin, crashes>>

GivenUp(d) ==
  \/ call[d] = "refused"
  \/ call[d] \in {"lost", "failed"} /\ delivery[d].tries >= MaxAttempts

\* Variants: the last failure is taken for an answer; it is not recorded.
ConcludeAnyAnswer(d) ==
  /\ \/ (call[d] = "ok" \/ GivenUp(d)) /\ SaveAnalysis(d, "applied")
     \/ call[d] = "paused" /\ SaveAnalysis(d, "repair_apply_paused")
  /\ Called(d, "none") /\ Handler(d, "done", 0)
  /\ UNCHANGED <<vars, served, origin, excused, crashes>>
ConcludeSilently(d) ==
  /\ \/ call[d] = "ok" /\ SaveAnalysis(d, "applied")
     \/ call[d] = "paused" /\ SaveAnalysis(d, "repair_apply_paused")
     \/ GivenUp(d) /\ UNCHANGED analysis
  /\ Called(d, "none") /\ Handler(d, "done", 0)
  /\ UNCHANGED <<vars, served, origin, excused, crashes>>
Conclude(d) ==
  /\ \/ call[d] = "ok" /\ SaveAnalysis(d, "applied")
     \/ call[d] = "paused" /\ SaveAnalysis(d, "repair_apply_paused")
     \/ GivenUp(d) /\ SaveAnalysis(d, "apply_failed")
  /\ Called(d, "none") /\ Handler(d, "done", 0)
  /\ UNCHANGED <<vars, served, origin, excused, crashes>>

\* The repair-agent dies; its handlers and connections go, the files stay.
Crash ==
  /\ crashes < MaxCrashes /\ crashes' = crashes + 1
  /\ delivery' = [d \in Deliveries |-> IF delivery[d].pc = "absent" THEN delivery[d] ELSE [pc |-> "done", tries |-> 0]]
  /\ call' = [d \in Deliveries |-> "none"]
  /\ served' = [t \in Threads |-> None]
  /\ UNCHANGED <<vars, analysis, origin, excused>>

-----------------------------------------------------------------------------
(* The knowledge-agent's side.                                             *)

\* A thread takes a post and creates the run it will answer with.
Serve(t, d) ==
  /\ call[d] = "sent" /\ LegacyCreates(t)
  /\ Called(d, "running")
  /\ served' = [served EXCEPT ![t] = d]
  /\ origin' = Append(origin, TicketOf[d])
  /\ UNCHANGED <<requests, analysis, delivery, excused, crashes>>

\* A thread goes on; when it ends a post, its client has the answer.
Works(t) ==
  /\ RunStep(t) \/ DocumentStep(t) \/ StepBegins(t) \/ Approve(t) \/ Reject(t)
  /\ LET d == served[t]
     IN IF d # None /\ thread'[t] = Waiting
        THEN /\ Called(d, IF thread[t].pc = "save" THEN "ok" ELSE "failed")
             /\ served' = [served EXCEPT ![t] = None]
        ELSE UNCHANGED <<call, served>>
  /\ UNCHANGED <<analysis, delivery, origin, excused, crashes>>

\* The knowledge-agent dies: its clients see their connection break.
KnowledgeRestarts ==
  /\ Restart
  /\ call' = [d \in Deliveries |-> IF \E t \in Threads : served[t] = d THEN "lost" ELSE call[d]]
  /\ served' = [t \in Threads |-> None]
  /\ UNCHANGED <<analysis, delivery, origin, excused, crashes>>

Handle(d) == Arrive(d) \/ TakePermit(d) \/ ModelFails(d) \/ Diagnosed(d) \/ PostAgain(d) \/ Conclude(d)

ChainNext ==
  \/ \E d \in Deliveries : Handle(d) \/ Lost(d) \/ Refused(d)
  \/ \E t \in Threads : Works(t) \/ \E d \in Deliveries : Serve(t, d)
  \/ Crash \/ KnowledgeRestarts

\* The event loop runs the handlers, the model's client has a timeout, and so
\* has the post.  Nothing is assumed of the knowledge-agent.
ChainSpec ==
  /\ ChainInit /\ [][ChainNext]_chain
  /\ \A d \in Deliveries :
       /\ WF_chain(ModelFails(d) \/ Diagnosed(d)) /\ WF_chain(PostAgain(d) \/ Conclude(d))
       /\ WF_chain(Lost(d)) /\ SF_chain(TakePermit(d))

-----------------------------------------------------------------------------
(* Properties.                                                             *)

RunsOf(k) == {r \in DOMAIN origin : origin[r] = k}

ChainTypeOK ==
  /\ analysis \in [Tickets -> Analyses]
  /\ call \in [Deliveries -> Calls]
  /\ served \in [Threads -> Deliveries \cup {None}]
  /\ Len(origin) = Len(runs)
  /\ \A d \in Deliveries : call[d] # "none" <=> delivery[d].pc = "posting"
  /\ \A t \in Threads : served[t] # None => call[served[t]] = "running" /\ thread[t].op = "legacy"

\* "applied" is never written without a review run behind it that has got past
\* its creation, whatever answers were lost and whoever died - as long as
\* nobody steps a run that is still being proposed.
AppliedHasRun == \A k \in Tickets : analysis[k] = "applied" =>
  \E r \in RunsOf(k) : runs[r].status # "created"

\* A ticket has a second review run only when its post was repeated after a
\* lost or failed answer, or when two deliveries of it found no analysis.
OneRunPerTicket == \A k \in Tickets : Cardinality(RunsOf(k)) > 1 => k \in excused

\* An analysis is pending while a handler is posting it, or because the
\* repair-agent died over it.
PendingIsPosted == crashes = 0 => \A k \in Tickets : analysis[k] = "analysis_pending" =>
  \E d \in Deliveries : TicketOf[d] = k /\ delivery[d].pc = "posting"

\* What an analysis says at its end it says for good, unless another delivery
\* of the ticket has got past the check for an analysis.
AnalysisIsFinal == [][\A k \in Tickets :
  analysis[k] \notin {"none", "analysis_pending"} /\ analysis'[k] # analysis[k] => k \in excused]_chain

\* As long as the repair-agent lives a pending analysis comes to an end, even
\* if the knowledge-agent hangs or dies.
PendingEnds == [](crashes = 0) =>
  \A k \in Tickets : analysis[k] = "analysis_pending" ~> analysis[k] # "analysis_pending"

\* The chain has its type, an applied ticket has a run, a pending one a handler.
ChainInv == ChainTypeOK /\ AppliedHasRun /\ PendingIsPosted
=============================================================================
