------------------------------- MODULE QaJobs -------------------------------
(***************************************************************************)
(* The qa-agent's jobs: a job makes samples until its targets are met,     *)
(* writes them to its releases file - the history that later jobs must not *)
(* repeat - and dispatches them.  The endpoints are plain functions in     *)
(* threads of a pool; jobs and releases are files without a lock.  An      *)
(* action is what a thread does between two accesses to what the others    *)
(* see.  The saves of the stages of one attempt, between which nothing     *)
(* else is read or written, are one.                                       *)
(*                                                                         *)
(* Abstracted: a sample is its Cypher and its question; which samples the  *)
(* generation, the model and the checks leave is a choice.  The tries of   *)
(* one post are in QuestionDelivery.                                       *)
(***************************************************************************)
EXTENDS Naturals, FiniteSets

CONSTANTS
  Jobs,
  Cyphers, Texts,  \* queries, and questions as they are first worded
  LevelOf,         \* the difficulty of a query
  Target,          \* difficulty_targets, per job
  LeastAttempts,   \* of a job, whatever it asks for
  None,
  Threads,
  MaxRequests, MaxDeaths  \* bounds

Levels == {LevelOf[c] : c \in Cyphers}

VARIABLES
  jobs,        \* the record of a job, None without one
  releases,    \* the releases files of a job: one, or none
  sent,        \* what was dispatched: job and sample
  thread,      \* per thread: its request, where it is, what it has read
  fresh,       \* job ids not yet given
  forgotten,   \* history variable: what was in a releases file and is not any more
  overlapped,  \* history variable: jobs one of which could not see the other's release
  meddled,     \* history variable: jobs that two requests worked on at a time
  requests, deaths

vars == <<jobs, releases, sent, thread, fresh, forgotten, overlapped, meddled, requests, deaths>>

\* A question that is taken is told apart by a suffix: difficulty and number.
Question == [text: Texts, level: Levels \cup {None}, nth: Nat]
Sample == [cypher: Cyphers, question: Question]
Record == [status: {"created", "running", "completed", "failed"}, packaged: BOOLEAN, dispatch: SUBSET Sample]

ASSUME JobAssumption ==
  /\ IsFiniteSet(Cyphers) /\ Target \in [Jobs -> [Levels -> Nat]]
  /\ {LeastAttempts, MaxRequests, MaxDeaths} \subseteq Nat
  /\ None \notin Jobs \cup Record

Waiting == [op |-> "none", pc |-> "waiting", job |-> None, copy |-> None, attempt |-> 0, wanted |-> {},
            seen |-> {}, pool |-> {}, rows |-> {}, todo |-> {}]

Init ==
  /\ jobs = [j \in Jobs |-> None] /\ releases = [j \in Jobs |-> {}] /\ sent = {}
  /\ thread = [t \in Threads |-> Waiting]
  /\ fresh = Jobs /\ forgotten = {} /\ overlapped = {} /\ meddled = {}
  /\ requests = 0 /\ deaths = 0

Goes(t, to) == thread' = [thread EXCEPT ![t] = to]
Save(j, record) == jobs' = [jobs EXCEPT ![j] = record]
InFile(j) == UNION releases[j]
WriteFile(j, files) ==
  /\ releases' = [releases EXCEPT ![j] = files]
  /\ forgotten' = forgotten \cup {[job |-> j, row |-> r] : r \in InFile(j) \ UNION files}

Request(t, j) ==
  /\ requests < MaxRequests /\ requests' = requests + 1
  /\ thread[t] = Waiting
  /\ meddled' = IF \E u \in Threads : thread[u].job = j THEN meddled \cup {j} ELSE meddled

CreateJob(t) == \E j \in fresh :
  /\ thread[t] = Waiting
  /\ fresh' = fresh \ {j}
  /\ Save(j, [status |-> "created", packaged |-> FALSE, dispatch |-> {}])
  /\ UNCHANGED <<releases, sent, thread, forgotten, overlapped, meddled, requests, deaths>>

-----------------------------------------------------------------------------
(* Samples.                                                                *)

OfLevel(rows, level) == {r \in rows : LevelOf[r.cypher] = level}
Meets(j, rows) == \A l \in Levels : Cardinality(OfLevel(rows, l)) >= Target[j][l]
Total(j) == Cardinality(UNION {{l} \X (1..Target[j][l]) : l \in Levels})
Attempts(j) == IF Total(j) + 1 > LeastAttempts THEN Total(j) + 1 ELSE LeastAttempts
Short(j, rows) == {l \in Levels : Cardinality(OfLevel(rows, l)) < Target[j][l]}

\* The wordings of some queries: of those that are worded alike one keeps the
\* text, and each other is given the first number free at its difficulty.
Wordings(Q) ==
  {w \in [Q -> [text: Texts, nth: 1..Cardinality(Q)]] : \A c \in Q :
     LET same == {d \in Q : w[d].text = w[c].text}
         peers == {d \in same : w[d].nth > 1 /\ LevelOf[d] = LevelOf[c]}
     IN /\ Cardinality({d \in same : w[d].nth = 1}) = 1
        /\ w[c].nth > 1 => \A d \in peers \ {c} : w[d].nth # w[c].nth
        /\ w[c].nth > 2 => \E d \in peers : w[d].nth = w[c].nth - 1}
Worded(w) ==
  {[cypher |-> c, question |-> [text |-> w[c].text, nth |-> w[c].nth,
                                level |-> IF w[c].nth > 1 THEN LevelOf[c] ELSE None]] : c \in DOMAIN w}

Repeats(r, seen) == \E s \in seen : s.question = r.question \/ s.cypher = r.cypher

\* What an attempt may have at its end: of the queries that no other release
\* has, the shortlist, less those for which no question was made or that failed
\* the roundtrip; at most as many fresh ones as wanted at each difficulty.
Selections(j, rows) ==
  {P \in SUBSET rows : \A l \in Levels :
     LET n == Cardinality(OfLevel(rows, l)) IN
     Cardinality(OfLevel(P, l)) = IF n < Target[j][l] THEN n ELSE Target[j][l]}
Releases(j, pool, seen) ==
  UNION {Selections(j, {r \in Worded(w) : ~Repeats(r, seen)}) :
           w \in UNION {Wordings(Q) : Q \in SUBSET {c \in pool : \A s \in seen : s.cypher # c}}}

-----------------------------------------------------------------------------
(* run_job.                                                                *)

Fails(t) ==
  /\ Save(thread[t].job, [thread[t].copy EXCEPT !.status = "failed"])
  /\ Goes(t, Waiting)
  /\ UNCHANGED <<releases, sent, fresh, forgotten, overlapped, meddled, requests, deaths>>

\* The record is reset, whatever it says; only its artifacts stay.
StartRun(t) == \E j \in Jobs :
  /\ jobs[j] # None /\ Request(t, j)
  /\ LET record == [jobs[j] EXCEPT !.status = "running", !.dispatch = {}] IN
     /\ Save(j, record)
     /\ Goes(t, [Waiting EXCEPT !.op = "run", !.pc = "schema", !.job = j, !.copy = record])
  /\ UNCHANGED <<releases, sent, fresh, forgotten, overlapped, deaths>>

\* The schema and the graph are there: the history is read, once for all attempts.
ReadHistory(t) ==
  /\ thread[t].op = "run" /\ thread[t].pc = "schema"
  /\ LET j == thread[t].job
         reading == {u \in Threads \ {t} : thread[u].op = "run" /\ thread[u].pc \in {"attempt", "write"}}
     IN /\ Goes(t, [thread[t] EXCEPT !.pc = "attempt", !.attempt = 1, !.seen = UNION {InFile(k) : k \in Jobs \ {j}},
                                     !.wanted = {l \in Levels : Target[j][l] > 0}])
        /\ overlapped' = overlapped \cup {{j, thread[u].job} : u \in reading}
        /\ Save(j, thread[t].copy)
  /\ UNCHANGED <<releases, sent, fresh, forgotten, meddled, requests, deaths>>

\* The next attempt asks for what is short, and keeps what was validated.
NextAttempt(t, pool, rows) ==
  Goes(t, [thread[t] EXCEPT !.attempt = thread[t].attempt + 1, !.pool = pool,
                            !.wanted = Short(thread[t].job, rows)])

Attempt(t) ==
  /\ thread[t].op = "run" /\ thread[t].pc = "attempt"
  /\ LET j == thread[t].job IN
     \E found \in SUBSET {c \in Cyphers \ thread[t].pool : LevelOf[c] \in thread[t].wanted} :
       LET pool == thread[t].pool \cup found IN
       \E rows \in Releases(j, pool, thread[t].seen) :
         IF Meets(j, rows)
         THEN /\ Goes(t, [thread[t] EXCEPT !.pc = "write", !.pool = {}, !.wanted = {}, !.rows = rows])
              /\ Save(j, thread[t].copy)
         ELSE /\ thread[t].attempt < Attempts(j)
              /\ NextAttempt(t, pool, rows)
              /\ Save(j, thread[t].copy)
  /\ UNCHANGED <<releases, sent, fresh, forgotten, overlapped, meddled, requests, deaths>>

\* A stage raises, or the last attempt falls short.
StageFails(t) ==
  /\ thread[t].op = "run" /\ thread[t].pc \in {"schema", "attempt"}
  /\ Fails(t)

\* A variant: the releases are written when everything is sent.
WriteReleasesLater(t) ==
  /\ thread[t].op = "run" /\ thread[t].pc = "write"
  /\ LET record == [thread[t].copy EXCEPT !.packaged = TRUE] IN
     /\ IF thread[t].todo = {} /\ \A r \in thread[t].rows : [job |-> thread[t].job, row |-> r] \in sent
        THEN /\ WriteFile(thread[t].job, {thread[t].rows})
             /\ Goes(t, [thread[t] EXCEPT !.pc = "send", !.copy = record, !.seen = {}])
             /\ UNCHANGED sent
        ELSE /\ \E r \in thread[t].rows : sent' = sent \cup {[job |-> thread[t].job, row |-> r]}
             /\ UNCHANGED <<releases, forgotten, thread>>
     /\ Save(thread[t].job, record)
  /\ UNCHANGED <<fresh, overlapped, meddled, requests, deaths>>
\* The releases are in the history before the first of them is sent.
WriteReleases(t) ==
  /\ thread[t].op = "run" /\ thread[t].pc = "write"
  /\ LET record == [thread[t].copy EXCEPT !.packaged = TRUE] IN
     /\ WriteFile(thread[t].job, {thread[t].rows})
     /\ Save(thread[t].job, record)
     /\ Goes(t, [thread[t] EXCEPT !.pc = "send", !.copy = record, !.todo = thread[t].rows, !.seen = {}])
  /\ UNCHANGED <<sent, fresh, overlapped, meddled, requests, deaths>>

SendSample(t) ==
  /\ thread[t].pc = "send"
  /\ \E r \in thread[t].todo :
       /\ sent' = sent \cup {[job |-> thread[t].job, row |-> r]}
       /\ Goes(t, [thread[t] EXCEPT !.todo = @ \ {r}])
  /\ UNCHANGED <<jobs, releases, fresh, forgotten, overlapped, meddled, requests, deaths>>

\* A variant: nobody waits for the posts.
SaveDispatchEarly(t) ==
  /\ thread[t].pc = "send"
  /\ Save(thread[t].job, [thread[t].copy EXCEPT !.dispatch = thread[t].rows,
                            !.status = IF thread[t].op = "run" THEN "completed" ELSE @])
  /\ Goes(t, Waiting)
  /\ UNCHANGED <<releases, sent, fresh, forgotten, overlapped, meddled, requests, deaths>>
\* The record is saved as it was read, a redispatch's included.
SaveDispatch(t) ==
  /\ thread[t].pc = "send" /\ thread[t].todo = {}
  /\ Save(thread[t].job, [thread[t].copy EXCEPT !.dispatch = thread[t].rows,
                            !.status = IF thread[t].op = "run" THEN "completed" ELSE @])
  /\ Goes(t, Waiting)
  /\ UNCHANGED <<releases, sent, fresh, forgotten, overlapped, meddled, requests, deaths>>

-----------------------------------------------------------------------------
(* The other requests.                                                     *)

Redispatch(t) == \E j \in Jobs :
  /\ jobs[j] # None /\ jobs[j].packaged /\ releases[j] # {} /\ Request(t, j)
  /\ Goes(t, [Waiting EXCEPT !.op = "redispatch", !.pc = "send", !.job = j, !.copy = jobs[j],
                             !.rows = InFile(j), !.todo = InFile(j)])
  /\ UNCHANGED <<jobs, releases, sent, fresh, forgotten, overlapped, deaths>>

\* delete_job: the artifacts go first, the record last.  A variant: the other
\* way round.
UnlinkRecordFirst(t, j, step) ==
  IF step = 1 THEN Save(j, None) /\ UNCHANGED <<releases, forgotten>> ELSE WriteFile(j, {}) /\ UNCHANGED jobs
Unlink(t, j, step) ==
  IF step = 2 THEN Save(j, None) /\ UNCHANGED <<releases, forgotten>> ELSE WriteFile(j, {}) /\ UNCHANGED jobs
DeleteArtifacts(t) == \E j \in Jobs :
  /\ jobs[j] # None /\ Request(t, j)
  /\ Unlink(t, j, 1)
  /\ Goes(t, [Waiting EXCEPT !.op = "delete", !.pc = "record", !.job = j])
  /\ UNCHANGED <<sent, fresh, overlapped, deaths>>
DeleteRecord(t) ==
  /\ thread[t].pc = "record"
  /\ Unlink(t, thread[t].job, 2)
  /\ Goes(t, Waiting)
  /\ UNCHANGED <<sent, fresh, overlapped, meddled, requests, deaths>>

\* DELETE /qa: the file is read, and written without the row.
DeleteSample(t) == \E j \in Jobs : \E r \in InFile(j) :
  /\ Request(t, j)
  /\ Goes(t, [Waiting EXCEPT !.op = "delete_qa", !.pc = "rewrite", !.job = j, !.rows = InFile(j) \ {r}])
  /\ UNCHANGED <<jobs, releases, sent, fresh, forgotten, overlapped, deaths>>
RewriteFile(t) ==
  /\ thread[t].pc = "rewrite"
  /\ WriteFile(thread[t].job, {thread[t].rows})
  /\ Goes(t, Waiting)
  /\ UNCHANGED <<jobs, sent, fresh, overlapped, meddled, requests, deaths>>

\* The process dies; nothing is resumed.
Restart ==
  /\ deaths < MaxDeaths /\ deaths' = deaths + 1
  /\ thread' = [t \in Threads |-> Waiting]
  /\ UNCHANGED <<jobs, releases, sent, fresh, forgotten, overlapped, meddled, requests>>

Works(t) ==
  \/ ReadHistory(t) \/ Attempt(t) \/ StageFails(t) \/ WriteReleases(t) \/ SendSample(t) \/ SaveDispatch(t)
  \/ DeleteRecord(t) \/ RewriteFile(t)
NewRequest(t) == CreateJob(t) \/ StartRun(t) \/ Redispatch(t) \/ DeleteArtifacts(t) \/ DeleteSample(t)

Next == Restart \/ \E t \in Threads : Works(t) \/ NewRequest(t)

Spec == Init /\ [][Next]_vars

-----------------------------------------------------------------------------
(* Properties.                                                             *)

Working(j) == {t \in Threads : thread[t].job = j}
Gone(j) == {r \in {f.row : f \in forgotten} : [job |-> j, row |-> r] \in forgotten}

TypeOK ==
  /\ \A j \in Jobs : (jobs[j] = None \/ jobs[j] \in Record) /\ InFile(j) \subseteq Sample
  /\ \A t \in Threads : thread[t].attempt \in 0..(IF thread[t].op = "run" THEN Attempts(thread[t].job) ELSE 0)
  /\ {s.row : s \in sent} \cup {f.row : f \in forgotten} \subseteq Sample
  /\ meddled \subseteq Jobs \ fresh

\* Two jobs never send the same question or the same query, through failures,
\* repeated runs and deaths - unless neither could see what the other was about
\* to release, or a release had been taken out of the history.
Excused(a, b) == {a.job, b.job} \in overlapped \/ a \in forgotten \/ b \in forgotten
NoRepeatedSample == \A a, b \in sent :
  a.job # b.job /\ (a.row.question = b.row.question \/ a.row.cypher = b.row.cypher) => Excused(a, b)

\* What a completed job says it dispatched was sent and is in its releases, is
\* as much of every difficulty as was asked for, and asks nothing twice -
\* whoever else worked on the job, except for the samples taken out of it.
CompletedIsReleased == \A j \in Jobs : jobs[j] # None /\ jobs[j].status = "completed" =>
  LET rows == jobs[j].dispatch IN
  /\ \A r \in rows : [job |-> j, row |-> r] \in sent
  /\ rows \subseteq InFile(j) \cup Gone(j)
  /\ Meets(j, rows \cup Gone(j))
  /\ \A r, s \in rows : r # s => r.question # s.question /\ r.cypher # s.cypher

\* A job that says it is under way is worked on, or the process died over it,
\* or its record was overwritten with an older one.
UnfinishedIsRunning == \A j \in Jobs \ meddled : jobs[j] # None /\ jobs[j].status = "running" =>
  deaths > 0 \/ Working(j) # {}

\* No releases stay behind without a job, wherever a deletion is cut off, unless
\* the job was worked on while it was deleted.
ReleasesHaveJob == \A j \in Jobs \ meddled :
  releases[j] # {} /\ Working(j) = {} => jobs[j] # None

\* Jobs, releases and what the threads do fit together: types, jobs under way, and
\* releases without a job.
JobsInv == TypeOK /\ UnfinishedIsRunning /\ ReleasesHaveJob
=============================================================================
