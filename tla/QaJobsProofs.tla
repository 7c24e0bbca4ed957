---------------------------- MODULE QaJobsProofs ----------------------------
(***************************************************************************)
(* Proofs about the qa-agent's jobs (QaJobs), for any number of jobs,      *)
(* threads, requests and deaths.                                           *)
(***************************************************************************)
EXTENDS QaJobs, FiniteSetTheorems, TLAPS

-----------------------------------------------------------------------------
(* The attempts of a job: a number, because what is asked for is finite.   *)

LEMMA LevelsFinite == IsFiniteSet(Levels)
<1> DEFINE f == [c \in Cyphers |-> LevelOf[c]]
<1>1. f \in Surjection(Cyphers, Levels)  BY DEF Surjection, Levels
<1> QED  BY <1>1, JobAssumption, FS_Surjection

LEMMA TotalIsNat ==
  ASSUME NEW j \in Jobs
  PROVE  Total(j) \in Nat
<1> DEFINE part(l) == {l} \X (1..Target[j][l])
           parts == {part(l) : l \in Levels}
           f == [l \in Levels |-> part(l)]
<1>1. \A l \in Levels : IsFiniteSet(part(l))
  <2> SUFFICES ASSUME NEW l \in Levels PROVE IsFiniteSet(part(l))  OBVIOUS
  <2>1. Target[j][l] \in Nat  BY JobAssumption
  <2>2. IsFiniteSet(1..Target[j][l])  BY <2>1, FS_Interval
  <2>3. IsFiniteSet({l})  BY FS_Singleton
  <2> QED  BY <2>2, <2>3, FS_Product
<1>2. IsFiniteSet(parts)
  <2>1. f \in Surjection(Levels, parts)  BY DEF Surjection
  <2> QED  BY <2>1, LevelsFinite, FS_Surjection
<1> HIDE DEF part
<1>3. IsFiniteSet(UNION parts)  BY <1>1, <1>2, FS_UNION
<1>4. Total(j) = Cardinality(UNION parts)  BY DEF Total, part
<1> QED  BY <1>3, <1>4, FS_CardinalityType

LEMMA AttemptsIsNat ==
  ASSUME NEW j \in Jobs
  PROVE  Attempts(j) \in Nat /\ 1 \in 0..Attempts(j)
<1>1. Total(j) \in Nat /\ LeastAttempts \in Nat  BY TotalIsNat, JobAssumption
<1> QED  BY <1>1 DEF Attempts

-----------------------------------------------------------------------------
(* Types, and what a thread is about.                                      *)

Parcel == [job : Jobs, row : Sample]

JobThread ==
  [op : {"none", "run", "redispatch", "delete", "delete_qa"},
   pc : {"waiting", "schema", "attempt", "write", "send", "record", "rewrite"},
   job : Jobs \cup {None}, copy : Record \cup {None}, attempt : Nat, wanted : SUBSET Levels,
   seen : SUBSET Sample, pool : SUBSET Cyphers, rows : SUBSET Sample, todo : SUBSET Sample]

JobFits(h) ==
  /\ CASE h.op = "none" -> h.pc = "waiting" /\ h.job = None
       [] h.op = "run" -> h.pc \in {"schema", "attempt", "write", "send"}
       [] h.op = "redispatch" -> h.pc = "send"
       [] h.op = "delete" -> h.pc = "record"
       [] h.op = "delete_qa" -> h.pc = "rewrite"
  /\ h.op # "none" => h.job \in Jobs
  /\ h.op \in {"run", "redispatch"} => h.copy \in Record
  /\ h.op = "run" => h.copy.status = "running"
  /\ h.attempt \in 0..(IF h.op = "run" THEN Attempts(h.job) ELSE 0)
  /\ IsFiniteSet(h.rows) /\ h.todo \subseteq h.rows
  /\ h.pc # "send" => h.todo = {}

JobTypeInv ==
  /\ jobs \in [Jobs -> Record \cup {None}]
  /\ releases \in [Jobs -> SUBSET SUBSET Sample] /\ \A j \in Jobs : IsFiniteSet(InFile(j))
  /\ sent \subseteq Parcel /\ forgotten \subseteq Parcel /\ IsFiniteSet(forgotten)
  /\ thread \in [Threads -> JobThread] /\ \A t \in Threads : JobFits(thread[t])
  /\ fresh \subseteq Jobs /\ meddled \subseteq Jobs \ fresh
  /\ \A j \in fresh : /\ jobs[j] = None /\ releases[j] = {}
                      /\ \A t \in Threads : thread[t].job # j
  /\ requests \in Nat /\ deaths \in Nat

\* A finite set stays finite when something is said of each member.
LEMMA ParcelsFinite ==
  ASSUME NEW j, NEW R, IsFiniteSet(R)
  PROVE  IsFiniteSet({[job |-> j, row |-> r] : r \in R})
<1> DEFINE f == [r \in R |-> [job |-> j, row |-> r]]
<1>1. f \in Surjection(R, {[job |-> j, row |-> r] : r \in R})  BY DEF Surjection
<1> QED  BY <1>1, FS_Surjection

\* A releases file is written, or removed: what was in it is still in it or is
\* forgotten, and no other file changes.
LEMMA FileWritten ==
  ASSUME JobTypeInv, NEW j \in Jobs, NEW files \in SUBSET SUBSET Sample, IsFiniteSet(UNION files),
         WriteFile(j, files)
  PROVE  /\ releases' \in [Jobs -> SUBSET SUBSET Sample] /\ \A k \in Jobs : IsFiniteSet(InFile(k)')
         /\ releases'[j] = files /\ \A k \in Jobs \ {j} : releases'[k] = releases[k]
         /\ InFile(j)' = UNION files /\ \A k \in Jobs \ {j} : InFile(k)' = InFile(k)
         /\ forgotten' \subseteq Parcel /\ IsFiniteSet(forgotten') /\ forgotten \subseteq forgotten'
         /\ \A r \in InFile(j) : r \in UNION files \/ [job |-> j, row |-> r] \in forgotten'
<1>1. /\ releases' \in [Jobs -> SUBSET SUBSET Sample]
      /\ releases'[j] = files /\ \A k \in Jobs \ {j} : releases'[k] = releases[k]
  BY DEF JobTypeInv, WriteFile
<1>2. InFile(j)' = UNION files /\ \A k \in Jobs \ {j} : InFile(k)' = InFile(k)
  BY <1>1 DEF InFile
<1>3. \A k \in Jobs : IsFiniteSet(InFile(k)')
  <2> TAKE k \in Jobs
  <2>1. CASE k = j
    <3>1. InFile(k)' = UNION files  BY <1>2, <2>1
    <3> QED  BY <3>1
  <2>2. CASE k # j
    <3>1. InFile(k)' = InFile(k)  BY <1>2, <2>2
    <3>2. IsFiniteSet(InFile(k))  BY DEF JobTypeInv
    <3> QED  BY <3>1, <3>2
  <2> QED  BY <2>1, <2>2
<1> DEFINE lost == {[job |-> j, row |-> r] : r \in InFile(j) \ UNION files}
<1>4. forgotten' = forgotten \cup lost  BY DEF WriteFile
<1>5. InFile(j) \subseteq Sample  BY DEF JobTypeInv, InFile
<1>6. lost \subseteq Parcel  BY <1>5 DEF Parcel
<1>7. IsFiniteSet(lost)
  <2>1. IsFiniteSet(InFile(j) \ UNION files)
    <3>1. IsFiniteSet(InFile(j)) /\ InFile(j) \ UNION files \in SUBSET InFile(j)  BY DEF JobTypeInv
    <3> QED  BY <3>1, FS_Subset
  <2> QED  BY <2>1, ParcelsFinite
<1>8. \A r \in InFile(j) : r \in UNION files \/ [job |-> j, row |-> r] \in lost
  OBVIOUS
<1>9. IsFiniteSet(forgotten')
  BY <1>4, <1>7, FS_Union DEF JobTypeInv
<1> QED
  BY <1>1, <1>2, <1>3, <1>4, <1>6, <1>8, <1>9 DEF JobTypeInv

\* A batch: samples of an attempt, one per query.
LEMMA BatchFinite ==
  ASSUME NEW j, NEW pool \in SUBSET Cyphers, NEW seen, NEW rows \in Releases(j, pool, seen)
  PROVE  rows \in SUBSET Sample /\ IsFiniteSet(rows)
<1>1. PICK Q \in SUBSET {c \in pool : \A s \in seen : s.cypher # c} : \E w \in Wordings(Q) :
        rows \in Selections(j, {r \in Worded(w) : ~Repeats(r, seen)})
  BY DEF Releases
<1>2. PICK w \in Wordings(Q) : rows \in Selections(j, {r \in Worded(w) : ~Repeats(r, seen)})
  BY <1>1
<1>3. rows \subseteq Worded(w)  BY <1>2 DEF Selections
<1>4. Q \in SUBSET Cyphers /\ IsFiniteSet(Q) /\ Cardinality(Q) \in Nat
  BY <1>1, JobAssumption, FS_Subset, FS_CardinalityType
<1>5. w \in [Q -> [text: Texts, nth: 1..Cardinality(Q)]]  BY DEF Wordings
<1>6. \A c \in Q : w[c].text \in Texts /\ w[c].nth \in Nat
  BY <1>4, <1>5
<1>7. Worded(w) \subseteq Sample
  <2>1. \A c \in Q : LevelOf[c] \in Levels  BY <1>4 DEF Levels
  <2> QED  BY <1>4, <1>5, <1>6, <2>1 DEF Worded, Sample, Question
<1>8. IsFiniteSet(Worded(w))
  <2> DEFINE row(c) == [cypher |-> c, question |-> [text |-> w[c].text, nth |-> w[c].nth,
                                level |-> IF w[c].nth > 1 THEN LevelOf[c] ELSE None]]
             f == [c \in Q |-> row(c)]
  <2>1. Worded(w) = {row(c) : c \in Q}  BY <1>5 DEF Worded
  <2> HIDE DEF row
  <2>2. f \in Surjection(Q, {row(c) : c \in Q})  BY DEF Surjection
  <2> QED  BY <2>1, <2>2, <1>4, FS_Surjection
<1> QED  BY <1>3, <1>7, <1>8, FS_Subset

LEMMA WaitingFits == Waiting \in JobThread /\ JobFits(Waiting) /\ Waiting.job = None
<1>1. IsFiniteSet({})  BY FS_EmptySet
<1>2. Waiting \in JobThread  BY DEF Waiting, JobThread
<1>3. JobFits(Waiting)  BY <1>1 DEF Waiting, JobFits
<1> QED  BY <1>2, <1>3 DEF Waiting

\* One thread goes on, to where it fits; the others stay.
LEMMA ThreadGoes ==
  ASSUME JobTypeInv, NEW t \in Threads, NEW h \in JobThread, JobFits(h), h.job \notin fresh, Goes(t, h)
  PROVE  /\ thread' \in [Threads -> JobThread] /\ \A u \in Threads : JobFits(thread'[u])
         /\ thread'[t] = h /\ \A u \in Threads \ {t} : thread'[u] = thread[u]
         /\ \A j \in fresh : \A u \in Threads : thread'[u].job # j
<1>1. /\ thread' \in [Threads -> JobThread]
      /\ thread'[t] = h /\ \A u \in Threads \ {t} : thread'[u] = thread[u]
  BY DEF Goes, JobTypeInv
<1>2. \A u \in Threads : JobFits(thread'[u])
  <2> TAKE u \in Threads
  <2>1. CASE u = t
    <3>1. thread'[u] = h  BY <1>1, <2>1
    <3> QED  BY <3>1
  <2>2. CASE u # t
    <3>1. thread'[u] = thread[u]  BY <1>1, <2>2
    <3>2. JobFits(thread[u])  BY DEF JobTypeInv
    <3> QED  BY <3>1, <3>2
  <2> QED  BY <2>1, <2>2
<1>3. \A j \in fresh : \A u \in Threads : thread'[u].job # j
  BY <1>1 DEF JobTypeInv
<1> QED  BY <1>1, <1>2, <1>3

\* What is known of a thread that works.
LEMMA ThreadFits ==
  ASSUME JobTypeInv, NEW t \in Threads
  PROVE  /\ thread[t] \in JobThread /\ JobFits(thread[t]) /\ thread[t].job \notin fresh
         /\ thread[t].pc \in {"schema", "attempt", "write"} => thread[t].op = "run"
         /\ thread[t].pc = "send" => thread[t].op \in {"run", "redispatch"}
         /\ thread[t].pc = "record" <=> thread[t].op = "delete"
         /\ thread[t].pc = "rewrite" <=> thread[t].op = "delete_qa"
         /\ thread[t].pc # "waiting" => thread[t].op # "none" /\ thread[t].job \in Jobs
<1>1. thread[t] \in JobThread /\ JobFits(thread[t]) /\ thread[t].job \notin fresh
  BY DEF JobTypeInv
<1> QED  BY <1>1 DEF JobThread, JobFits

\* A job that there is, or that has releases, is not a fresh one.
LEMMA NotFresh ==
  ASSUME JobTypeInv, NEW j \in Jobs, jobs[j] # None \/ InFile(j) # {}
  PROVE  j \notin fresh
BY DEF JobTypeInv, InFile

LEMMA RequestTyped ==
  ASSUME JobTypeInv, NEW t \in Threads, NEW j \in Jobs \ fresh, Request(t, j)
  PROVE  /\ meddled' \subseteq Jobs \ fresh /\ meddled \subseteq meddled' /\ requests' \in Nat
         /\ thread[t] = Waiting
         /\ j \notin meddled' => \A u \in Threads : thread[u].job # j
BY DEF Request, JobTypeInv

LEMMA JobTypeInit == Init => JobTypeInv
<1> SUFFICES ASSUME Init PROVE JobTypeInv  OBVIOUS
<1>1. jobs \in [Jobs -> Record \cup {None}] /\ releases \in [Jobs -> SUBSET SUBSET Sample]
  BY DEF Init
<1>2. \A j \in Jobs : InFile(j) = {}  BY DEF Init, InFile
<1>3. IsFiniteSet({})  BY FS_EmptySet
<1>4. thread \in [Threads -> JobThread] /\ \A t \in Threads : JobFits(thread[t])
  BY WaitingFits DEF Init
<1>5. \A j \in fresh : jobs[j] = None /\ releases[j] = {} /\ \A t \in Threads : thread[t].job # j
  BY WaitingFits, JobAssumption DEF Init
<1> QED  BY <1>1, <1>2, <1>3, <1>4, <1>5 DEF Init, JobTypeInv

\* What a step on a job that is not fresh leaves of the types, when the thread and
\* the files it writes are of theirs.
FilesTyped ==
  /\ releases' \in [Jobs -> SUBSET SUBSET Sample] /\ \A j \in Jobs : IsFiniteSet(InFile(j)')
  /\ forgotten' \subseteq Parcel /\ IsFiniteSet(forgotten')
ThreadsTyped ==
  /\ thread' \in [Threads -> JobThread] /\ \A t \in Threads : JobFits(thread'[t])
  /\ \A j \in fresh : \A t \in Threads : thread'[t].job # j

LEMMA FilesStay ==
  ASSUME JobTypeInv, UNCHANGED <<releases, forgotten>>
  PROVE  FilesTyped /\ \A j \in Jobs : InFile(j)' = InFile(j)
BY DEF JobTypeInv, FilesTyped, InFile

LEMMA RecordSaved ==
  ASSUME JobTypeInv, NEW j \in Jobs \ fresh, NEW record \in Record \cup {None}, Save(j, record)
  PROVE  /\ jobs' \in [Jobs -> Record \cup {None}] /\ \A k \in fresh : jobs'[k] = None
         /\ jobs'[j] = record /\ \A k \in Jobs \ {j} : jobs'[k] = jobs[k]
BY DEF JobTypeInv, Save

LEMMA StepTyped ==
  ASSUME JobTypeInv, FilesTyped, ThreadsTyped, sent' \subseteq Parcel, fresh' = fresh,
         \A j \in fresh : releases'[j] = {},
         jobs' \in [Jobs -> Record \cup {None}], \A j \in fresh : jobs'[j] = None,
         meddled' \subseteq Jobs \ fresh, requests' \in Nat, deaths' \in Nat
  PROVE  JobTypeInv'
<1>1. thread' \in [Threads -> JobThread] /\ \A t \in Threads : JobFits(thread[t])'
  BY DEF ThreadsTyped, JobFits
<1> QED  BY <1>1 DEF JobTypeInv, FilesTyped, ThreadsTyped

LEMMA ReadHistoryTyped ==
  ASSUME JobTypeInv, NEW t \in Threads, ReadHistory(t)
  PROVE  JobTypeInv'
<1> DEFINE j == thread[t].job
           seen == UNION {InFile(k) : k \in Jobs \ {j}}
           h == [thread[t] EXCEPT !.pc = "attempt", !.attempt = 1, !.seen = seen,
                                  !.wanted = {l \in Levels : Target[j][l] > 0}]
<1>1. thread[t] \in JobThread /\ JobFits(thread[t]) /\ j \in Jobs \ fresh
      /\ thread[t].op = "run" /\ thread[t].copy \in Record
  BY ThreadFits DEF ReadHistory, JobFits
<1>2. \A k \in Jobs : InFile(k) \subseteq Sample  BY DEF JobTypeInv, InFile
<1>3. h \in JobThread /\ h.job = j
  <2>1. seen \in SUBSET Sample  BY <1>2
  <2> HIDE DEF seen
  <2> QED  BY <1>1, <2>1 DEF JobThread
<1>4. JobFits(h)
  <2>1. 1 \in 0..Attempts(j)  BY <1>1, AttemptsIsNat
  <2>2. /\ h.op = "run" /\ h.pc = "attempt" /\ h.job = j /\ h.copy = thread[t].copy
        /\ h.attempt = 1 /\ h.rows = thread[t].rows /\ h.todo = thread[t].todo
    BY <1>1 DEF JobThread
  <2>3. thread[t].todo = {} /\ IsFiniteSet(thread[t].rows) /\ thread[t].copy.status = "running"
    BY <1>1 DEF JobFits, ReadHistory
  <2> HIDE DEF seen, h
  <2> QED  BY <1>1, <2>1, <2>2, <2>3 DEF JobFits
<1>5. Goes(t, h) /\ Save(j, thread[t].copy) /\ UNCHANGED <<releases, sent, fresh, forgotten, meddled, requests, deaths>>
  BY DEF ReadHistory
<1> HIDE DEF h
<1>6. ThreadsTyped  BY <1>1, <1>3, <1>4, <1>5, ThreadGoes DEF ThreadsTyped
<1>7. jobs' \in [Jobs -> Record \cup {None}] /\ \A k \in fresh : jobs'[k] = None
  BY <1>1, <1>5, RecordSaved
<1>8. FilesTyped  BY <1>5, FilesStay
<1> QED  BY <1>5, <1>6, <1>7, <1>8, StepTyped DEF JobTypeInv

\* Where an attempt ends, and what it has then.
EndsAttempt(t, pool, rows) ==
  /\ rows \in Releases(thread[t].job, pool, thread[t].seen)
  /\ \/ /\ Meets(thread[t].job, rows)
        /\ Goes(t, [thread[t] EXCEPT !.pc = "write", !.pool = {}, !.wanted = {}, !.rows = rows])
     \/ thread[t].attempt < Attempts(thread[t].job) /\ NextAttempt(t, pool, rows)

LEMMA AttemptEnds ==
  ASSUME JobTypeInv, NEW t \in Threads, Attempt(t)
  PROVE  /\ thread[t].op = "run" /\ thread[t].pc = "attempt" /\ thread[t].job \in Jobs \ fresh
         /\ thread[t].copy \in Record /\ Save(thread[t].job, thread[t].copy)
         /\ UNCHANGED <<releases, sent, fresh, forgotten, overlapped, meddled, requests, deaths>>
         /\ \E pool \in SUBSET Cyphers : \E rows \in SUBSET Sample : IsFiniteSet(rows) /\ EndsAttempt(t, pool, rows)
<1> DEFINE j == thread[t].job
<1>1. thread[t].op = "run" /\ thread[t].pc = "attempt" /\ j \in Jobs \ fresh /\ thread[t] \in JobThread
      /\ thread[t].copy \in Record
  BY ThreadFits DEF Attempt, JobFits
<1>2. PICK found \in SUBSET {c \in Cyphers \ thread[t].pool : LevelOf[c] \in thread[t].wanted} :
        \E rows \in Releases(j, thread[t].pool \cup found, thread[t].seen) :
         IF Meets(j, rows)
         THEN /\ Goes(t, [thread[t] EXCEPT !.pc = "write", !.pool = {}, !.wanted = {}, !.rows = rows])
              /\ Save(j, thread[t].copy)
         ELSE /\ thread[t].attempt < Attempts(j)
              /\ NextAttempt(t, thread[t].pool \cup found, rows)
              /\ Save(j, thread[t].copy)
  BY DEF Attempt
<1> DEFINE pool == thread[t].pool \cup found
<1>3. pool \in SUBSET Cyphers  BY <1>1 DEF JobThread
<1>4. PICK rows \in Releases(j, pool, thread[t].seen) :
         IF Meets(j, rows)
         THEN /\ Goes(t, [thread[t] EXCEPT !.pc = "write", !.pool = {}, !.wanted = {}, !.rows = rows])
              /\ Save(j, thread[t].copy)
         ELSE /\ thread[t].attempt < Attempts(j)
              /\ NextAttempt(t, pool, rows)
              /\ Save(j, thread[t].copy)
  BY <1>2
<1>5. rows \in SUBSET Sample /\ IsFiniteSet(rows)  BY <1>3, BatchFinite
<1>6. EndsAttempt(t, pool, rows)  BY <1>4 DEF EndsAttempt
<1>7. Save(j, thread[t].copy)  BY <1>4
<1> QED  BY <1>1, <1>3, <1>5, <1>6, <1>7 DEF Attempt

LEMMA AttemptTyped ==
  ASSUME JobTypeInv, NEW t \in Threads, Attempt(t)
  PROVE  JobTypeInv'
<1> DEFINE j == thread[t].job
<1>1. thread[t].op = "run" /\ thread[t].pc = "attempt" /\ j \in Jobs \ fresh
      /\ thread[t].copy \in Record /\ Save(j, thread[t].copy)
      /\ UNCHANGED <<releases, sent, fresh, forgotten, overlapped, meddled, requests, deaths>>
  BY AttemptEnds
<1>2. PICK pool \in SUBSET Cyphers, rows \in SUBSET Sample : IsFiniteSet(rows) /\ EndsAttempt(t, pool, rows)
  BY AttemptEnds
<1>3. thread[t] \in JobThread /\ JobFits(thread[t])  BY ThreadFits
<1>4. \E h \in JobThread : JobFits(h) /\ h.job = j /\ Goes(t, h)
  <2>1. CASE Goes(t, [thread[t] EXCEPT !.pc = "write", !.pool = {}, !.wanted = {}, !.rows = rows])
    <3> DEFINE h == [thread[t] EXCEPT !.pc = "write", !.pool = {}, !.wanted = {}, !.rows = rows]
    <3>1. h \in JobThread /\ h.job = j  BY <1>3 DEF JobThread
    <3>2. JobFits(h)
      <4>1. /\ h.op = "run" /\ h.pc = "write" /\ h.job = j /\ h.copy = thread[t].copy
            /\ h.attempt = thread[t].attempt /\ h.rows = rows /\ h.todo = {}
        <5>1. thread[t].todo = {}  BY <1>1, <1>3 DEF JobFits
        <5> QED  BY <1>1, <1>3, <5>1 DEF JobThread
      <4> QED  BY <4>1, <1>1, <1>2, <1>3 DEF JobFits
    <3> QED  BY <2>1, <3>1, <3>2
  <2>2. CASE thread[t].attempt < Attempts(j) /\ NextAttempt(t, pool, rows)
    <3> DEFINE h == [thread[t] EXCEPT !.attempt = thread[t].attempt + 1, !.pool = pool, !.wanted = Short(j, rows)]
    <3>1. Short(j, rows) \in SUBSET Levels  BY DEF Short
    <3>2. thread[t].attempt + 1 \in 0..Attempts(j) /\ thread[t].attempt + 1 \in Nat
      <4>1. thread[t].attempt \in Nat /\ Attempts(j) \in Nat  BY <1>1, <1>3, AttemptsIsNat DEF JobThread
      <4> QED  BY <4>1, <2>2
    <3>3. h \in JobThread /\ h.job = j  BY <1>3, <3>1, <3>2 DEF JobThread
    <3>4. JobFits(h)  BY <1>1, <1>3, <3>2 DEF JobFits, JobThread
    <3> QED  BY <2>2, <3>3, <3>4 DEF NextAttempt
  <2> QED  BY <1>2, <2>1, <2>2 DEF EndsAttempt
<1>5. ThreadsTyped
  <2>1. PICK h \in JobThread : JobFits(h) /\ h.job = j /\ Goes(t, h)  BY <1>4
  <2> QED  BY <1>1, <2>1, ThreadGoes DEF ThreadsTyped
<1>6. jobs' \in [Jobs -> Record \cup {None}] /\ \A k \in fresh : jobs'[k] = None
  BY <1>1, RecordSaved
<1>7. FilesTyped  BY <1>1, FilesStay
<1> QED  BY <1>1, <1>5, <1>6, <1>7, StepTyped DEF JobTypeInv

LEMMA StageFailsTyped ==
  ASSUME JobTypeInv, NEW t \in Threads, StageFails(t)
  PROVE  JobTypeInv'
<1> DEFINE j == thread[t].job
           record == [thread[t].copy EXCEPT !.status = "failed"]
<1>1. j \in Jobs \ fresh /\ thread[t].copy \in Record
  BY ThreadFits DEF StageFails, JobFits
<1>2. record \in Record  BY <1>1 DEF Record
<1>3. Save(j, record) /\ Goes(t, Waiting) /\ UNCHANGED <<releases, sent, fresh, forgotten, meddled, requests, deaths>>
  BY DEF StageFails, Fails
<1>4. None \notin fresh  BY JobAssumption DEF JobTypeInv
<1>5. ThreadsTyped  BY <1>3, <1>4, WaitingFits, ThreadGoes DEF ThreadsTyped
<1>6. jobs' \in [Jobs -> Record \cup {None}] /\ \A k \in fresh : jobs'[k] = None
  BY <1>1, <1>2, <1>3, RecordSaved
<1>7. FilesTyped  BY <1>3, FilesStay
<1> QED  BY <1>3, <1>5, <1>6, <1>7, StepTyped DEF JobTypeInv

LEMMA WriteReleasesTyped ==
  ASSUME JobTypeInv, NEW t \in Threads, WriteReleases(t)
  PROVE  JobTypeInv'
<1> DEFINE j == thread[t].job
           record == [thread[t].copy EXCEPT !.packaged = TRUE]
           h == [thread[t] EXCEPT !.pc = "send", !.copy = record, !.todo = thread[t].rows, !.seen = {}]
<1>1. thread[t] \in JobThread /\ JobFits(thread[t]) /\ thread[t].op = "run" /\ j \in Jobs \ fresh
      /\ thread[t].copy \in Record
  BY ThreadFits DEF WriteReleases, JobFits
<1>2. record \in Record /\ record.status = thread[t].copy.status  BY <1>1 DEF Record
<1>3. /\ WriteFile(j, {thread[t].rows}) /\ Save(j, record) /\ Goes(t, h)
      /\ UNCHANGED <<sent, fresh, meddled, requests, deaths>>
  BY DEF WriteReleases
<1>4. h \in JobThread /\ h.job = j
  <2> HIDE DEF record
  <2> QED  BY <1>1, <1>2 DEF JobThread
<1>5. JobFits(h)
  <2>1. /\ h.op = "run" /\ h.pc = "send" /\ h.job = j /\ h.copy = record
        /\ h.attempt = thread[t].attempt /\ h.rows = thread[t].rows /\ h.todo = thread[t].rows
    BY <1>1 DEF JobThread
  <2> HIDE DEF record, h
  <2> QED  BY <1>1, <1>2, <2>1 DEF JobFits
<1> HIDE DEF h, record
<1>6. ThreadsTyped  BY <1>1, <1>3, <1>4, <1>5, ThreadGoes DEF ThreadsTyped
<1>7. jobs' \in [Jobs -> Record \cup {None}] /\ \A k \in fresh : jobs'[k] = None
  BY <1>1, <1>2, <1>3, RecordSaved
<1>8. {thread[t].rows} \in SUBSET SUBSET Sample /\ UNION {thread[t].rows} = thread[t].rows
      /\ IsFiniteSet(thread[t].rows)
  BY <1>1 DEF JobThread, JobFits
<1>9. FilesTyped /\ \A k \in fresh : releases'[k] = {}
  <2>1. \A k \in fresh : k \in Jobs \ {j} /\ releases[k] = {}  BY <1>1 DEF JobTypeInv
  <2> QED  BY <1>1, <1>3, <1>8, <2>1, FileWritten DEF FilesTyped
<1> QED  BY <1>3, <1>6, <1>7, <1>9, StepTyped DEF JobTypeInv

LEMMA SendSampleTyped ==
  ASSUME JobTypeInv, NEW t \in Threads, SendSample(t)
  PROVE  JobTypeInv'
<1> DEFINE j == thread[t].job
<1>1. thread[t] \in JobThread /\ JobFits(thread[t]) /\ j \in Jobs \ fresh /\ thread[t].pc = "send"
  BY ThreadFits DEF SendSample
<1>2. PICK r \in thread[t].todo :
        /\ sent' = sent \cup {[job |-> j, row |-> r]}
        /\ Goes(t, [thread[t] EXCEPT !.todo = thread[t].todo \ {r}])
  BY DEF SendSample
<1> DEFINE h == [thread[t] EXCEPT !.todo = thread[t].todo \ {r}]
<1>3. h \in JobThread /\ JobFits(h) /\ h.job = j
  BY <1>1 DEF JobThread, JobFits
<1>4. ThreadsTyped
  <2> HIDE DEF h
  <2> QED  BY <1>1, <1>2, <1>3, ThreadGoes DEF ThreadsTyped, h
<1>5. sent' \subseteq Parcel  BY <1>1, <1>2 DEF JobTypeInv, JobThread, Parcel
<1>6. UNCHANGED <<jobs, releases, fresh, forgotten, meddled, requests, deaths>>  BY DEF SendSample
<1>7. FilesTyped  BY <1>6, FilesStay
<1> QED  BY <1>4, <1>5, <1>6, <1>7, StepTyped DEF JobTypeInv

LEMMA SaveDispatchTyped ==
  ASSUME JobTypeInv, NEW t \in Threads, SaveDispatch(t)
  PROVE  JobTypeInv'
<1> DEFINE j == thread[t].job
           record == [thread[t].copy EXCEPT !.dispatch = thread[t].rows,
                            !.status = IF thread[t].op = "run" THEN "completed" ELSE @]
<1>1. j \in Jobs \ fresh /\ thread[t].copy \in Record /\ thread[t] \in JobThread
  BY ThreadFits DEF SaveDispatch, JobFits
<1>2. record \in Record  BY <1>1 DEF Record, JobThread
<1>3. Save(j, record) /\ Goes(t, Waiting) /\ UNCHANGED <<releases, sent, fresh, forgotten, meddled, requests, deaths>>
  BY DEF SaveDispatch
<1> HIDE DEF record
<1>4. None \notin fresh  BY JobAssumption DEF JobTypeInv
<1>5. ThreadsTyped  BY <1>3, <1>4, WaitingFits, ThreadGoes DEF ThreadsTyped
<1>6. jobs' \in [Jobs -> Record \cup {None}] /\ \A k \in fresh : jobs'[k] = None
  BY <1>1, <1>2, <1>3, RecordSaved
<1>7. FilesTyped  BY <1>3, FilesStay
<1> QED  BY <1>3, <1>5, <1>6, <1>7, StepTyped DEF JobTypeInv

LEMMA DeleteRecordTyped ==
  ASSUME JobTypeInv, NEW t \in Threads, DeleteRecord(t)
  PROVE  JobTypeInv'
<1> DEFINE j == thread[t].job
<1>1. j \in Jobs \ fresh  BY ThreadFits DEF DeleteRecord
<1>2. Save(j, None) /\ Goes(t, Waiting) /\ UNCHANGED <<releases, sent, fresh, forgotten, meddled, requests, deaths>>
  BY DEF DeleteRecord, Unlink
<1>3. None \notin fresh  BY JobAssumption DEF JobTypeInv
<1>4. ThreadsTyped  BY <1>2, <1>3, WaitingFits, ThreadGoes DEF ThreadsTyped
<1>5. jobs' \in [Jobs -> Record \cup {None}] /\ \A k \in fresh : jobs'[k] = None
  BY <1>1, <1>2, RecordSaved
<1>6. FilesTyped  BY <1>2, FilesStay
<1> QED  BY <1>2, <1>4, <1>5, <1>6, StepTyped DEF JobTypeInv

LEMMA RewriteFileTyped ==
  ASSUME JobTypeInv, NEW t \in Threads, RewriteFile(t)
  PROVE  JobTypeInv'
<1> DEFINE j == thread[t].job
<1>1. thread[t] \in JobThread /\ JobFits(thread[t]) /\ j \in Jobs \ fresh
  BY ThreadFits DEF RewriteFile
<1>2. /\ WriteFile(j, {thread[t].rows}) /\ Goes(t, Waiting)
      /\ UNCHANGED <<jobs, sent, fresh, meddled, requests, deaths>>
  BY DEF RewriteFile
<1>3. None \notin fresh  BY JobAssumption DEF JobTypeInv
<1>4. ThreadsTyped  BY <1>2, <1>3, WaitingFits, ThreadGoes DEF ThreadsTyped
<1>5. {thread[t].rows} \in SUBSET SUBSET Sample /\ UNION {thread[t].rows} = thread[t].rows
      /\ IsFiniteSet(thread[t].rows)
  BY <1>1 DEF JobThread, JobFits
<1>6. FilesTyped /\ \A k \in fresh : releases'[k] = {}
  <2>1. \A k \in fresh : k \in Jobs \ {j} /\ releases[k] = {}  BY <1>1 DEF JobTypeInv
  <2> QED  BY <1>1, <1>2, <1>5, <2>1, FileWritten DEF FilesTyped
<1> QED  BY <1>2, <1>4, <1>6, StepTyped DEF JobTypeInv

LEMMA CreateJobTyped ==
  ASSUME JobTypeInv, NEW t \in Threads, CreateJob(t)
  PROVE  JobTypeInv'
<1>1. PICK j \in fresh :
        /\ fresh' = fresh \ {j}
        /\ Save(j, [status |-> "created", packaged |-> FALSE, dispatch |-> {}])
        /\ UNCHANGED <<releases, sent, thread, forgotten, overlapped, meddled, requests, deaths>>
  BY DEF CreateJob
<1>2. [status |-> "created", packaged |-> FALSE, dispatch |-> {}] \in Record  BY DEF Record
<1>3. jobs' \in [Jobs -> Record \cup {None}] /\ \A k \in fresh \ {j} : jobs'[k] = jobs[k]
  BY <1>1, <1>2 DEF Save, JobTypeInv
<1>4. \A k \in Jobs : InFile(k)' = InFile(k)  BY <1>1, FilesStay
<1>5. \A k \in Jobs : IsFiniteSet(InFile(k)')
  <2> TAKE k \in Jobs
  <2>1. InFile(k)' = InFile(k) /\ IsFiniteSet(InFile(k))  BY <1>4 DEF JobTypeInv
  <2> QED  BY <2>1
<1>6. \A u \in Threads : JobFits(thread[u])'
  BY <1>1 DEF JobTypeInv, JobFits
<1>7. fresh' \subseteq Jobs /\ meddled' \subseteq Jobs \ fresh'
  BY <1>1 DEF JobTypeInv
<1>8. \A k \in fresh' : jobs'[k] = None /\ releases'[k] = {} /\ \A u \in Threads : thread'[u].job # k
  BY <1>1, <1>3 DEF JobTypeInv
<1>9. /\ releases' \in [Jobs -> SUBSET SUBSET Sample] /\ sent' \subseteq Parcel /\ forgotten' \subseteq Parcel
      /\ IsFiniteSet(forgotten') /\ thread' \in [Threads -> JobThread] /\ requests' \in Nat /\ deaths' \in Nat
  BY <1>1 DEF JobTypeInv
<1> QED  BY <1>3, <1>5, <1>6, <1>7, <1>8, <1>9 DEF JobTypeInv

LEMMA StartRunTyped ==
  ASSUME JobTypeInv, NEW t \in Threads, StartRun(t)
  PROVE  JobTypeInv'
<1>1. PICK j \in Jobs :
        /\ jobs[j] # None /\ Request(t, j)
        /\ LET record == [jobs[j] EXCEPT !.status = "running", !.dispatch = {}] IN
           /\ Save(j, record)
           /\ Goes(t, [Waiting EXCEPT !.op = "run", !.pc = "schema", !.job = j, !.copy = record])
        /\ UNCHANGED <<releases, sent, fresh, forgotten, overlapped, deaths>>
  BY DEF StartRun
<1> DEFINE record == [jobs[j] EXCEPT !.status = "running", !.dispatch = {}]
           h == [Waiting EXCEPT !.op = "run", !.pc = "schema", !.job = j, !.copy = record]
<1>2. j \in Jobs \ fresh /\ jobs[j] \in Record  BY <1>1, NotFresh DEF JobTypeInv
<1>3. record \in Record /\ record.status = "running"  BY <1>2 DEF Record
<1>4. Save(j, record) /\ Goes(t, h) /\ Request(t, j) /\ UNCHANGED <<releases, sent, fresh, forgotten, deaths>>
  BY <1>1
<1> HIDE DEF record
<1>5. h \in JobThread /\ h.job = j
  BY <1>2, <1>3 DEF Waiting, JobThread
<1>6. JobFits(h)
  <2>1. 0 \in 0..Attempts(j)  BY AttemptsIsNat
  <2>2. IsFiniteSet({})  BY FS_EmptySet
  <2>3. /\ h.op = "run" /\ h.pc = "schema" /\ h.job = j /\ h.copy = record
        /\ h.attempt = 0 /\ h.rows = {} /\ h.todo = {}
    BY DEF Waiting
  <2> HIDE DEF h
  <2> QED  BY <1>2, <1>3, <2>1, <2>2, <2>3 DEF JobFits
<1> HIDE DEF h
<1>7. ThreadsTyped  BY <1>2, <1>4, <1>5, <1>6, ThreadGoes DEF ThreadsTyped
<1>8. jobs' \in [Jobs -> Record \cup {None}] /\ \A k \in fresh : jobs'[k] = None
  BY <1>2, <1>3, <1>4, RecordSaved
<1>9. FilesTyped /\ meddled' \subseteq Jobs \ fresh /\ requests' \in Nat
  BY <1>2, <1>4, FilesStay, RequestTyped
<1> QED  BY <1>4, <1>7, <1>8, <1>9, StepTyped DEF JobTypeInv

LEMMA RedispatchTyped ==
  ASSUME JobTypeInv, NEW t \in Threads, Redispatch(t)
  PROVE  JobTypeInv'
<1>1. PICK j \in Jobs :
        /\ jobs[j] # None /\ jobs[j].packaged /\ releases[j] # {} /\ Request(t, j)
        /\ Goes(t, [Waiting EXCEPT !.op = "redispatch", !.pc = "send", !.job = j, !.copy = jobs[j],
                                   !.rows = InFile(j), !.todo = InFile(j)])
        /\ UNCHANGED <<jobs, releases, sent, fresh, forgotten, overlapped, deaths>>
  BY DEF Redispatch
<1> DEFINE h == [Waiting EXCEPT !.op = "redispatch", !.pc = "send", !.job = j, !.copy = jobs[j],
                                   !.rows = InFile(j), !.todo = InFile(j)]
<1>2. j \in Jobs \ fresh /\ jobs[j] \in Record /\ IsFiniteSet(InFile(j)) /\ InFile(j) \in SUBSET Sample
  BY <1>1, NotFresh DEF JobTypeInv, InFile
<1>3. h \in JobThread /\ h.job = j
  BY <1>2 DEF Waiting, JobThread
<1>4. JobFits(h)
  <2>1. /\ h.op = "redispatch" /\ h.pc = "send" /\ h.job = j /\ h.copy = jobs[j]
        /\ h.attempt = 0 /\ h.rows = InFile(j) /\ h.todo = InFile(j)
    BY DEF Waiting
  <2> HIDE DEF h
  <2> QED  BY <1>2, <2>1 DEF JobFits
<1>5. Goes(t, h)  BY <1>1
<1> HIDE DEF h
<1>6. ThreadsTyped  BY <1>2, <1>3, <1>4, <1>5, ThreadGoes DEF ThreadsTyped
<1>7. FilesTyped /\ meddled' \subseteq Jobs \ fresh /\ requests' \in Nat
  BY <1>1, <1>2, FilesStay, RequestTyped
<1> QED  BY <1>1, <1>6, <1>7, StepTyped DEF JobTypeInv

LEMMA DeleteArtifactsTyped ==
  ASSUME JobTypeInv, NEW t \in Threads, DeleteArtifacts(t)
  PROVE  JobTypeInv'
<1>1. PICK j \in Jobs :
        /\ jobs[j] # None /\ Request(t, j) /\ Unlink(t, j, 1)
        /\ Goes(t, [Waiting EXCEPT !.op = "delete", !.pc = "record", !.job = j])
        /\ UNCHANGED <<sent, fresh, overlapped, deaths>>
  BY DEF DeleteArtifacts
<1> DEFINE h == [Waiting EXCEPT !.op = "delete", !.pc = "record", !.job = j]
<1>2. j \in Jobs \ fresh  BY <1>1, NotFresh
<1>3. WriteFile(j, {}) /\ UNCHANGED jobs /\ Goes(t, h)  BY <1>1 DEF Unlink
<1>4. h \in JobThread /\ h.job = j  BY <1>2 DEF Waiting, JobThread
<1>5. JobFits(h)
  <2>1. /\ h.op = "delete" /\ h.pc = "record" /\ h.job = j /\ h.attempt = 0 /\ h.rows = {} /\ h.todo = {}
    BY DEF Waiting
  <2>2. IsFiniteSet({})  BY FS_EmptySet
  <2> HIDE DEF h
  <2> QED  BY <1>2, <2>1, <2>2 DEF JobFits
<1> HIDE DEF h
<1>6. ThreadsTyped  BY <1>2, <1>3, <1>4, <1>5, ThreadGoes DEF ThreadsTyped
<1>7. FilesTyped /\ \A k \in fresh : releases'[k] = {}
  <2>1. UNION {} = {} /\ IsFiniteSet({})  BY FS_EmptySet
  <2>2. \A k \in fresh : k \in Jobs \ {j} /\ releases[k] = {}  BY <1>2 DEF JobTypeInv
  <2> QED  BY <1>2, <1>3, <2>1, <2>2, FileWritten DEF FilesTyped
<1>8. meddled' \subseteq Jobs \ fresh /\ requests' \in Nat
  BY <1>1, <1>2, RequestTyped
<1> QED  BY <1>1, <1>3, <1>6, <1>7, <1>8, StepTyped DEF JobTypeInv

LEMMA DeleteSampleTyped ==
  ASSUME JobTypeInv, NEW t \in Threads, DeleteSample(t)
  PROVE  JobTypeInv'
<1>1. PICK j \in Jobs : \E r \in InFile(j) :
        /\ Request(t, j)
        /\ Goes(t, [Waiting EXCEPT !.op = "delete_qa", !.pc = "rewrite", !.job = j, !.rows = InFile(j) \ {r}])
        /\ UNCHANGED <<jobs, releases, sent, fresh, forgotten, overlapped, deaths>>
  BY DEF DeleteSample
<1>2. PICK r \in InFile(j) :
        /\ Request(t, j)
        /\ Goes(t, [Waiting EXCEPT !.op = "delete_qa", !.pc = "rewrite", !.job = j, !.rows = InFile(j) \ {r}])
        /\ UNCHANGED <<jobs, releases, sent, fresh, forgotten, overlapped, deaths>>
  BY <1>1
<1> DEFINE h == [Waiting EXCEPT !.op = "delete_qa", !.pc = "rewrite", !.job = j, !.rows = InFile(j) \ {r}]
<1>3. j \in Jobs \ fresh /\ IsFiniteSet(InFile(j)) /\ InFile(j) \in SUBSET Sample
  BY <1>2, NotFresh DEF JobTypeInv, InFile
<1>4. IsFiniteSet(InFile(j) \ {r})  BY <1>3, FS_RemoveElement
<1>5. h \in JobThread /\ h.job = j  BY <1>3 DEF Waiting, JobThread
<1>6. JobFits(h)
  <2>1. /\ h.op = "delete_qa" /\ h.pc = "rewrite" /\ h.job = j
        /\ h.attempt = 0 /\ h.rows = InFile(j) \ {r} /\ h.todo = {}
    BY DEF Waiting
  <2> HIDE DEF h
  <2> QED  BY <1>3, <1>4, <2>1 DEF JobFits
<1>7. Goes(t, h)  BY <1>2
<1> HIDE DEF h
<1>8. ThreadsTyped  BY <1>3, <1>5, <1>6, <1>7, ThreadGoes DEF ThreadsTyped
<1>9. FilesTyped /\ meddled' \subseteq Jobs \ fresh /\ requests' \in Nat
  BY <1>2, <1>3, FilesStay, RequestTyped
<1> QED  BY <1>2, <1>8, <1>9, StepTyped DEF JobTypeInv

LEMMA RestartTyped ==
  ASSUME JobTypeInv, Restart
  PROVE  JobTypeInv'
<1>1. /\ thread' = [t \in Threads |-> Waiting] /\ deaths' = deaths + 1
      /\ UNCHANGED <<jobs, releases, sent, fresh, forgotten, overlapped, meddled, requests>>
  BY DEF Restart
<1>2. ThreadsTyped  BY <1>1, WaitingFits, JobAssumption DEF ThreadsTyped, JobTypeInv
<1>3. FilesTyped  BY <1>1, FilesStay
<1> QED  BY <1>1, <1>2, <1>3, StepTyped DEF JobTypeInv

LEMMA JobTypeStep == JobTypeInv /\ [Next]_vars => JobTypeInv'
<1> SUFFICES ASSUME JobTypeInv, [Next]_vars PROVE JobTypeInv'  OBVIOUS
<1>1. CASE Restart  BY <1>1, RestartTyped
<1>2. CASE \E t \in Threads : Works(t)
  BY <1>2, ReadHistoryTyped, AttemptTyped, StageFailsTyped, WriteReleasesTyped, SendSampleTyped,
     SaveDispatchTyped, DeleteRecordTyped, RewriteFileTyped DEF Works
<1>3. CASE \E t \in Threads : NewRequest(t)
  BY <1>3, CreateJobTyped, StartRunTyped, RedispatchTyped, DeleteArtifactsTyped, DeleteSampleTyped DEF NewRequest
<1>4. CASE UNCHANGED vars
  BY <1>4 DEF vars, JobTypeInv, JobFits, InFile
<1> QED  BY <1>1, <1>2, <1>3, <1>4 DEF Next

\* Jobs, files and threads keep their type, and what a thread holds fits the job
\* it works on, for any number of jobs, threads, requests and deaths.
THEOREM JobsTyped == Spec => []JobTypeInv
<1> QED  BY JobTypeInit, JobTypeStep, PTL DEF Spec

-----------------------------------------------------------------------------
(* A job that nobody meddled with has one thread at most, and what it says *)
(* of itself and its releases file goes with what that thread is doing.    *)

SoleAt(j) ==
  /\ \A t, u \in Threads : thread[t].job = j /\ thread[u].job = j => t = u
  /\ \A t \in Threads : thread[t].job = j =>
       /\ jobs[j] # None
       /\ thread[t].op = "delete" => releases[j] = {}
       /\ deaths = 0 /\ thread[t].op = "redispatch" => thread[t].copy.status # "running"
  /\ releases[j] # {} => jobs[j] # None
  /\ deaths = 0 /\ jobs[j] # None /\ jobs[j].status = "running" =>
       \E t \in Threads : thread[t].job = j /\ thread[t].op = "run"

SoleInv == \A j \in Jobs \ meddled : SoleAt(j)

\* A step of t that is about j leaves the other threads and the other jobs alone.
StepAt(t, j) ==
  /\ \A u \in Threads \ {t} : thread'[u] = thread[u]
  /\ thread[t].job \in {j, None} /\ thread'[t].job \in {j, None}
  /\ \A k \in Jobs \ {j} : jobs'[k] = jobs[k] /\ releases'[k] = releases[k]
  /\ deaths' = deaths /\ meddled \subseteq meddled'
  /\ j \notin meddled' => \A u \in Threads \ {t} : thread[u].job # j

\* What a step of t has to leave of a job that it is about, and t alone.
LeavesSole(t, j) ==
  /\ thread'[t].job = j =>
       /\ jobs'[j] # None
       /\ thread'[t].op = "delete" => releases'[j] = {}
       /\ deaths' = 0 /\ thread'[t].op = "redispatch" => thread'[t].copy.status # "running"
  /\ releases'[j] # {} => jobs'[j] # None
  /\ deaths' = 0 /\ jobs'[j] # None /\ jobs'[j].status = "running" =>
       thread'[t].job = j /\ thread'[t].op = "run"

LEMMA SoleStep ==
  ASSUME JobTypeInv, SoleInv, NEW t \in Threads, NEW j \in Jobs, StepAt(t, j),
         j \notin meddled' => LeavesSole(t, j)
  PROVE  SoleInv'
<1> SUFFICES ASSUME NEW k \in Jobs, k \notin meddled' PROVE SoleAt(k)'
  BY DEF SoleInv
<1>1. SoleAt(k)  BY DEF SoleInv, StepAt
<1>2. CASE k = j
  <2>1. LeavesSole(t, j) /\ \A u \in Threads : thread'[u].job = j => u = t
    BY <1>2 DEF StepAt
  <2>2. SoleAt(j)'  BY <2>1 DEF LeavesSole, SoleAt
  <2> QED  BY <1>2, <2>2
<1>3. CASE k # j
  <2>1. k # None /\ thread[t].job # k /\ thread'[t].job # k /\ jobs'[k] = jobs[k] /\ releases'[k] = releases[k]
    BY <1>3, JobAssumption DEF StepAt
  <2>2. \A u \in Threads : thread[u].job = k \/ thread'[u].job = k => thread'[u] = thread[u]
    BY <2>1 DEF StepAt
  <2> QED  BY <1>1, <2>1, <2>2 DEF SoleAt, StepAt
<1> QED  BY <1>2, <1>3

\* The same of a thread that works on, when the job has been only its own.
LEMMA WorkIsAt ==
  ASSUME JobTypeInv, SoleInv, NEW t \in Threads, thread[t].job \in Jobs, NEW h \in JobThread,
         h.job \in {thread[t].job, None}, Goes(t, h),
         \A k \in Jobs \ {thread[t].job} : jobs'[k] = jobs[k] /\ releases'[k] = releases[k],
         UNCHANGED <<meddled, deaths>>
  PROVE  StepAt(t, thread[t].job) /\ thread'[t] = h
<1>1. thread'[t] = h /\ \A u \in Threads \ {t} : thread'[u] = thread[u]
  BY DEF Goes, JobTypeInv
<1>2. thread[t].job \notin meddled => \A u \in Threads \ {t} : thread[u].job # thread[t].job
  BY DEF SoleInv, SoleAt
<1> QED  BY <1>1, <1>2 DEF StepAt

LEMMA RequestIsAt ==
  ASSUME JobTypeInv, NEW t \in Threads, NEW j \in Jobs \ fresh, Request(t, j), NEW h \in JobThread,
         h.job \in {j, None}, Goes(t, h),
         \A k \in Jobs \ {j} : jobs'[k] = jobs[k] /\ releases'[k] = releases[k], UNCHANGED deaths
  PROVE  StepAt(t, j) /\ thread'[t] = h
<1>1. thread'[t] = h /\ \A u \in Threads \ {t} : thread'[u] = thread[u]
  BY DEF Goes, JobTypeInv
<1>2. thread[t].job = None  BY RequestTyped, WaitingFits
<1> QED  BY <1>1, <1>2, RequestTyped DEF StepAt

-----------------------------------------------------------------------------
(* What each step does, about one job.                                     *)

LEMMA ReadHistoryDoes ==
  ASSUME JobTypeInv, SoleInv, NEW t \in Threads, ReadHistory(t), NEW j, j = thread[t].job
  PROVE  /\ j \in Jobs \ fresh /\ StepAt(t, j) /\ UNCHANGED <<releases, sent, forgotten, meddled, deaths>>
         /\ thread[t].op = "run" /\ thread[t].pc = "schema" /\ thread[t].copy \in Record
         /\ thread'[t].job = j /\ thread'[t].op = "run" /\ thread'[t].pc = "attempt"
         /\ thread'[t].copy = thread[t].copy
         /\ thread'[t].seen = UNION {InFile(k) : k \in Jobs \ {j}}
         /\ jobs'[j] = thread[t].copy
         /\ overlapped' = overlapped \cup
              {{j, thread[u].job} : u \in {u \in Threads \ {t} : thread[u].op = "run" /\ thread[u].pc \in {"attempt", "write"}}}
<1> DEFINE h == [thread[t] EXCEPT !.pc = "attempt", !.attempt = 1, !.seen = UNION {InFile(k) : k \in Jobs \ {j}},
                                     !.wanted = {l \in Levels : Target[j][l] > 0}]
<1>1. thread[t] \in JobThread /\ j \in Jobs \ fresh /\ thread[t].copy \in Record /\ thread[t].op = "run"
      /\ thread[t].pc = "schema"
  BY ThreadFits DEF ReadHistory, JobFits
<1>2. /\ Goes(t, h) /\ Save(j, thread[t].copy) /\ UNCHANGED <<releases, sent, forgotten, meddled, deaths>>
      /\ overlapped' = overlapped \cup
              {{j, thread[u].job} : u \in {u \in Threads \ {t} : thread[u].op = "run" /\ thread[u].pc \in {"attempt", "write"}}}
  BY DEF ReadHistory
<1>3. thread'[t] = h /\ \A u \in Threads \ {t} : thread'[u] = thread[u]
  BY <1>2 DEF Goes, JobTypeInv
<1>4. /\ h.job = j /\ h.op = "run" /\ h.pc = "attempt" /\ h.copy = thread[t].copy
      /\ h.seen = UNION {InFile(k) : k \in Jobs \ {j}}
  BY <1>1 DEF JobThread
<1>5. jobs'[j] = thread[t].copy /\ \A k \in Jobs \ {j} : jobs'[k] = jobs[k]
  BY <1>1, <1>2, RecordSaved
<1>6. j \notin meddled => \A u \in Threads \ {t} : thread[u].job # j
  BY <1>1 DEF SoleInv, SoleAt
<1> HIDE DEF h
<1>7. StepAt(t, j)  BY <1>2, <1>3, <1>4, <1>5, <1>6 DEF StepAt
<1> QED  BY <1>1, <1>2, <1>3, <1>4, <1>5, <1>7

LEMMA AttemptDoes ==
  ASSUME JobTypeInv, SoleInv, NEW t \in Threads, Attempt(t), NEW j, j = thread[t].job
  PROVE  /\ j \in Jobs \ fresh /\ StepAt(t, j) /\ UNCHANGED <<releases, sent, forgotten, overlapped, meddled, deaths>>
         /\ thread[t].op = "run" /\ thread[t].pc = "attempt" /\ thread[t].copy \in Record
         /\ thread'[t].job = j /\ thread'[t].op = "run" /\ thread'[t].pc \in {"attempt", "write"}
         /\ thread'[t].copy = thread[t].copy /\ thread'[t].seen = thread[t].seen
         /\ jobs'[j] = thread[t].copy
         /\ thread'[t].pc = "write" =>
              /\ Meets(j, thread'[t].rows)
              /\ \E pool \in SUBSET Cyphers : thread'[t].rows \in Releases(j, pool, thread[t].seen)
<1>1. /\ thread[t].op = "run" /\ thread[t].pc = "attempt" /\ j \in Jobs \ fresh
      /\ thread[t].copy \in Record /\ Save(j, thread[t].copy)
      /\ UNCHANGED <<releases, sent, fresh, forgotten, overlapped, meddled, requests, deaths>>
  BY AttemptEnds
<1>2. PICK pool \in SUBSET Cyphers, rows \in SUBSET Sample : IsFiniteSet(rows) /\ EndsAttempt(t, pool, rows)
  BY AttemptEnds
<1>3. thread[t] \in JobThread  BY ThreadFits
<1>4. \E h : /\ Goes(t, h) /\ h.job = j /\ h.op = "run" /\ h.pc \in {"attempt", "write"}
             /\ h.copy = thread[t].copy /\ h.seen = thread[t].seen
             /\ h.pc = "write" => h.rows = rows /\ Meets(j, rows)
  <2>1. CASE /\ Meets(j, rows)
             /\ Goes(t, [thread[t] EXCEPT !.pc = "write", !.pool = {}, !.wanted = {}, !.rows = rows])
    <3> DEFINE h == [thread[t] EXCEPT !.pc = "write", !.pool = {}, !.wanted = {}, !.rows = rows]
    <3>1. /\ h.job = j /\ h.op = "run" /\ h.pc = "write"
          /\ h.copy = thread[t].copy /\ h.seen = thread[t].seen /\ h.rows = rows
      BY <1>1, <1>3 DEF JobThread
    <3> QED  BY <2>1, <3>1
  <2>2. CASE NextAttempt(t, pool, rows)
    <3> DEFINE h == [thread[t] EXCEPT !.attempt = thread[t].attempt + 1, !.pool = pool, !.wanted = Short(j, rows)]
    <3>1. /\ h.job = j /\ h.op = "run" /\ h.pc = "attempt"
          /\ h.copy = thread[t].copy /\ h.seen = thread[t].seen
      BY <1>1, <1>3 DEF JobThread
    <3> QED  BY <2>2, <3>1 DEF NextAttempt
  <2> QED  BY <1>2, <2>1, <2>2 DEF EndsAttempt
<1>5. PICK h : /\ Goes(t, h) /\ h.job = j /\ h.op = "run" /\ h.pc \in {"attempt", "write"}
               /\ h.copy = thread[t].copy /\ h.seen = thread[t].seen
               /\ h.pc = "write" => h.rows = rows /\ Meets(j, rows)
  BY <1>4
<1>6. thread'[t] = h /\ \A u \in Threads \ {t} : thread'[u] = thread[u]
  BY <1>5 DEF Goes, JobTypeInv
<1>7. jobs'[j] = thread[t].copy /\ \A k \in Jobs \ {j} : jobs'[k] = jobs[k]
  BY <1>1, RecordSaved
<1>8. j \notin meddled => \A u \in Threads \ {t} : thread[u].job # j
  BY <1>1 DEF SoleInv, SoleAt
<1>9. StepAt(t, j)  BY <1>1, <1>5, <1>6, <1>7, <1>8 DEF StepAt
<1>10. rows \in Releases(j, pool, thread[t].seen)  BY <1>2 DEF EndsAttempt
<1> QED  BY <1>1, <1>5, <1>6, <1>7, <1>9, <1>10

LEMMA StageFailsDoes ==
  ASSUME JobTypeInv, SoleInv, NEW t \in Threads, StageFails(t), NEW j, j = thread[t].job
  PROVE  /\ j \in Jobs \ fresh /\ StepAt(t, j) /\ UNCHANGED <<releases, sent, forgotten, overlapped, meddled, deaths>>
         /\ thread[t].op = "run" /\ thread[t].pc \in {"schema", "attempt"} /\ thread[t].copy \in Record
         /\ thread'[t] = Waiting
         /\ jobs'[j] \in Record /\ jobs'[j].status = "failed" /\ jobs'[j].packaged = thread[t].copy.packaged
<1>1. j \in Jobs \ fresh /\ thread[t].copy \in Record /\ thread[t].op = "run" /\ thread[t].pc \in {"schema", "attempt"}
  BY ThreadFits DEF StageFails, JobFits
<1>2. /\ Save(j, [thread[t].copy EXCEPT !.status = "failed"]) /\ Goes(t, Waiting)
      /\ UNCHANGED <<releases, sent, forgotten, overlapped, meddled, deaths>>
  BY DEF StageFails, Fails
<1> DEFINE record == [thread[t].copy EXCEPT !.status = "failed"]
<1>3. record \in Record /\ record.status = "failed" /\ record.packaged = thread[t].copy.packaged
  BY <1>1 DEF Record
<1> HIDE DEF record
<1>4. jobs'[j] = record /\ \A k \in Jobs \ {j} : jobs'[k] = jobs[k]
  BY <1>1, <1>2, <1>3, RecordSaved DEF record
<1>5. StepAt(t, j) /\ thread'[t] = Waiting
  BY <1>1, <1>2, <1>4, WaitingFits, WorkIsAt
<1> QED  BY <1>1, <1>2, <1>3, <1>4, <1>5

LEMMA WriteReleasesDoes ==
  ASSUME JobTypeInv, SoleInv, NEW t \in Threads, WriteReleases(t), NEW j, j = thread[t].job
  PROVE  /\ j \in Jobs \ fresh /\ StepAt(t, j) /\ UNCHANGED <<sent, overlapped, meddled, deaths>>
         /\ thread[t].op = "run" /\ thread[t].pc = "write" /\ thread[t].copy \in Record
         /\ thread'[t].job = j /\ thread'[t].op = "run" /\ thread'[t].pc = "send"
         /\ thread'[t].copy \in Record
         /\ thread'[t].copy.status = thread[t].copy.status
         /\ thread'[t].rows = thread[t].rows /\ thread'[t].todo = thread[t].rows
         /\ jobs'[j] = thread'[t].copy
         /\ WriteFile(j, {thread[t].rows}) /\ {thread[t].rows} \in SUBSET SUBSET Sample
         /\ IsFiniteSet(UNION {thread[t].rows}) /\ UNION {thread[t].rows} = thread[t].rows
<1> DEFINE record == [thread[t].copy EXCEPT !.packaged = TRUE]
           h == [thread[t] EXCEPT !.pc = "send", !.copy = record, !.todo = thread[t].rows, !.seen = {}]
<1>1. thread[t] \in JobThread /\ JobFits(thread[t]) /\ thread[t].op = "run" /\ thread[t].pc = "write"
      /\ j \in Jobs \ fresh /\ thread[t].copy \in Record
  BY ThreadFits DEF WriteReleases, JobFits
<1>2. record \in Record /\ record.status = thread[t].copy.status  BY <1>1 DEF Record
<1>3. /\ WriteFile(j, {thread[t].rows}) /\ Save(j, record) /\ Goes(t, h)
      /\ UNCHANGED <<sent, overlapped, meddled, deaths>>
  BY DEF WriteReleases
<1> HIDE DEF record
<1>4. /\ h \in JobThread /\ h.job = j /\ h.op = "run" /\ h.pc = "send" /\ h.copy = record
      /\ h.rows = thread[t].rows /\ h.todo = thread[t].rows
  BY <1>1, <1>2 DEF JobThread
<1>5. jobs'[j] = record /\ \A k \in Jobs \ {j} : jobs'[k] = jobs[k]
  BY <1>1, <1>2, <1>3, RecordSaved
<1>6. /\ {thread[t].rows} \in SUBSET SUBSET Sample /\ UNION {thread[t].rows} = thread[t].rows
      /\ IsFiniteSet(thread[t].rows)
  BY <1>1 DEF JobThread, JobFits
<1>7. \A k \in Jobs \ {j} : releases'[k] = releases[k]
  BY <1>1, <1>3, <1>6, FileWritten
<1> HIDE DEF h
<1>8. StepAt(t, j) /\ thread'[t] = h
  BY <1>1, <1>3, <1>4, <1>5, <1>7, WorkIsAt
<1> QED  BY <1>1, <1>2, <1>3, <1>4, <1>5, <1>6, <1>8

LEMMA SendSampleDoes ==
  ASSUME JobTypeInv, SoleInv, NEW t \in Threads, SendSample(t), NEW j, j = thread[t].job
  PROVE  /\ j \in Jobs \ fresh /\ StepAt(t, j) /\ thread[t].pc = "send" /\ thread[t].copy \in Record
         /\ UNCHANGED <<jobs, releases, forgotten, overlapped, meddled, deaths>>
         /\ \E r \in thread[t].todo :
              /\ r \in thread[t].rows /\ sent' = sent \cup {[job |-> j, row |-> r]}
              /\ thread'[t].todo = thread[t].todo \ {r}
         /\ thread'[t].job = j /\ thread'[t].op = thread[t].op /\ thread'[t].pc = "send"
         /\ thread'[t].copy = thread[t].copy /\ thread'[t].rows = thread[t].rows
<1>1. thread[t] \in JobThread /\ JobFits(thread[t]) /\ j \in Jobs \ fresh /\ thread[t].pc = "send"
      /\ thread[t].copy \in Record
  BY ThreadFits DEF SendSample, JobFits
<1>2. PICK r \in thread[t].todo :
        /\ sent' = sent \cup {[job |-> j, row |-> r]}
        /\ Goes(t, [thread[t] EXCEPT !.todo = thread[t].todo \ {r}])
  BY DEF SendSample
<1>3. UNCHANGED <<jobs, releases, forgotten, overlapped, meddled, deaths>>  BY DEF SendSample
<1> DEFINE h == [thread[t] EXCEPT !.todo = thread[t].todo \ {r}]
<1>4. /\ h \in JobThread /\ h.job = j /\ h.op = thread[t].op /\ h.pc = "send" /\ h.copy = thread[t].copy
      /\ h.rows = thread[t].rows /\ h.todo = thread[t].todo \ {r}
  BY <1>1 DEF JobThread
<1>5. r \in thread[t].rows  BY <1>1 DEF JobFits
<1>6. Goes(t, h)  BY <1>2
<1> HIDE DEF h
<1>7. StepAt(t, j) /\ thread'[t] = h
  BY <1>1, <1>3, <1>4, <1>6, WorkIsAt
<1> QED  BY <1>1, <1>2, <1>3, <1>4, <1>5, <1>7

LEMMA SaveDispatchDoes ==
  ASSUME JobTypeInv, SoleInv, NEW t \in Threads, SaveDispatch(t), NEW j, j = thread[t].job
  PROVE  /\ j \in Jobs \ fresh /\ StepAt(t, j) /\ UNCHANGED <<releases, sent, forgotten, overlapped, meddled, deaths>>
         /\ thread[t].pc = "send" /\ thread[t].op \in {"run", "redispatch"} /\ thread[t].copy \in Record
         /\ thread[t].todo = {} /\ thread'[t] = Waiting
         /\ jobs'[j] \in Record /\ jobs'[j].dispatch = thread[t].rows /\ jobs'[j].packaged = thread[t].copy.packaged
         /\ thread[t].op = "run" => jobs'[j].status = "completed"
         /\ thread[t].op = "redispatch" => jobs'[j].status = thread[t].copy.status
<1> DEFINE record == [thread[t].copy EXCEPT !.dispatch = thread[t].rows,
                            !.status = IF thread[t].op = "run" THEN "completed" ELSE @]
<1>1. j \in Jobs \ fresh /\ thread[t].copy \in Record /\ thread[t] \in JobThread
      /\ thread[t].pc = "send" /\ thread[t].op \in {"run", "redispatch"} /\ thread[t].todo = {}
  BY ThreadFits DEF SaveDispatch, JobFits
<1>2. record \in Record  BY <1>1 DEF Record, JobThread
<1>3. /\ record.dispatch = thread[t].rows /\ record.packaged = thread[t].copy.packaged
      /\ thread[t].op = "run" => record.status = "completed"
      /\ thread[t].op = "redispatch" => record.status = thread[t].copy.status
  BY <1>1 DEF Record
<1>4. /\ Save(j, record) /\ Goes(t, Waiting)
      /\ UNCHANGED <<releases, sent, forgotten, overlapped, meddled, deaths>>
  BY DEF SaveDispatch
<1> HIDE DEF record
<1>5. jobs'[j] = record /\ \A k \in Jobs \ {j} : jobs'[k] = jobs[k]
  BY <1>1, <1>2, <1>4, RecordSaved
<1>6. StepAt(t, j) /\ thread'[t] = Waiting
  BY <1>1, <1>4, <1>5, WaitingFits, WorkIsAt
<1> QED  BY <1>1, <1>2, <1>3, <1>4, <1>5, <1>6

LEMMA DeleteRecordDoes ==
  ASSUME JobTypeInv, SoleInv, NEW t \in Threads, DeleteRecord(t), NEW j, j = thread[t].job
  PROVE  /\ j \in Jobs \ fresh /\ StepAt(t, j) /\ UNCHANGED <<releases, sent, forgotten, overlapped, meddled, deaths>>
         /\ thread[t].op = "delete" /\ thread'[t] = Waiting /\ jobs'[j] = None
<1>1. j \in Jobs \ fresh /\ thread[t].op = "delete"  BY ThreadFits DEF DeleteRecord
<1>2. /\ Save(j, None) /\ Goes(t, Waiting)
      /\ UNCHANGED <<releases, sent, forgotten, overlapped, meddled, deaths>>
  BY DEF DeleteRecord, Unlink
<1>3. jobs'[j] = None /\ \A k \in Jobs \ {j} : jobs'[k] = jobs[k]
  BY <1>1, <1>2, RecordSaved
<1>4. StepAt(t, j) /\ thread'[t] = Waiting
  BY <1>1, <1>2, <1>3, WaitingFits, WorkIsAt
<1> QED  BY <1>1, <1>2, <1>3, <1>4

LEMMA RewriteFileDoes ==
  ASSUME JobTypeInv, SoleInv, NEW t \in Threads, RewriteFile(t), NEW j, j = thread[t].job
  PROVE  /\ j \in Jobs \ fresh /\ StepAt(t, j) /\ UNCHANGED <<jobs, sent, overlapped, meddled, deaths>>
         /\ thread[t].op = "delete_qa" /\ thread[t].pc = "rewrite" /\ thread'[t] = Waiting
         /\ WriteFile(j, {thread[t].rows}) /\ {thread[t].rows} \in SUBSET SUBSET Sample
         /\ IsFiniteSet(UNION {thread[t].rows}) /\ UNION {thread[t].rows} = thread[t].rows
<1>1. thread[t] \in JobThread /\ JobFits(thread[t]) /\ thread[t].op = "delete_qa" /\ thread[t].pc = "rewrite"
      /\ j \in Jobs \ fresh
  BY ThreadFits DEF RewriteFile
<1>2. /\ WriteFile(j, {thread[t].rows}) /\ Goes(t, Waiting)
      /\ UNCHANGED <<jobs, sent, overlapped, meddled, deaths>>
  BY DEF RewriteFile
<1>3. /\ {thread[t].rows} \in SUBSET SUBSET Sample /\ UNION {thread[t].rows} = thread[t].rows
      /\ IsFiniteSet(thread[t].rows)
  BY <1>1 DEF JobThread, JobFits
<1>4. \A k \in Jobs \ {j} : releases'[k] = releases[k]
  BY <1>1, <1>2, <1>3, FileWritten
<1>5. StepAt(t, j) /\ thread'[t] = Waiting
  BY <1>1, <1>2, <1>4, WaitingFits, WorkIsAt
<1> QED  BY <1>1, <1>2, <1>3, <1>5

LEMMA CreateJobDoes ==
  ASSUME JobTypeInv, NEW t \in Threads, CreateJob(t)
  PROVE  \E j \in Jobs :
         /\ j \in fresh /\ StepAt(t, j) /\ UNCHANGED <<thread, releases, sent, forgotten, overlapped, meddled, deaths>>
         /\ thread[t].job = None /\ jobs[j] = None /\ releases[j] = {}
         /\ jobs'[j] = [status |-> "created", packaged |-> FALSE, dispatch |-> {}]
<1>1. PICK j \in fresh :
        /\ thread[t] = Waiting
        /\ Save(j, [status |-> "created", packaged |-> FALSE, dispatch |-> {}])
        /\ UNCHANGED <<releases, sent, thread, forgotten, overlapped, meddled, requests, deaths>>
  BY DEF CreateJob
<1>2. j \in Jobs /\ jobs[j] = None /\ releases[j] = {} /\ \A u \in Threads : thread[u].job # j
  BY DEF JobTypeInv
<1>3. /\ jobs'[j] = [status |-> "created", packaged |-> FALSE, dispatch |-> {}]
      /\ \A k \in Jobs \ {j} : jobs'[k] = jobs[k]
  BY <1>1, <1>2 DEF Save, JobTypeInv
<1>4. StepAt(t, j) /\ thread[t].job = None  BY <1>1, <1>2, <1>3, WaitingFits DEF StepAt
<1> QED  BY <1>1, <1>2, <1>3, <1>4

LEMMA StartRunDoes ==
  ASSUME JobTypeInv, NEW t \in Threads, StartRun(t)
  PROVE  \E j \in Jobs \ fresh :
         /\ StepAt(t, j) /\ UNCHANGED <<releases, sent, forgotten, overlapped, deaths>>
         /\ thread[t].job = None /\ thread[t] = Waiting /\ jobs[j] \in Record
         /\ thread'[t].op = "run" /\ thread'[t].pc = "schema" /\ thread'[t].job = j
         /\ thread'[t].copy \in Record /\ thread'[t].copy.status = "running"
         /\ thread'[t].copy.packaged = jobs[j].packaged /\ jobs'[j] = thread'[t].copy
<1>1. PICK j \in Jobs :
        /\ jobs[j] # None /\ Request(t, j)
        /\ LET record == [jobs[j] EXCEPT !.status = "running", !.dispatch = {}] IN
           /\ Save(j, record)
           /\ Goes(t, [Waiting EXCEPT !.op = "run", !.pc = "schema", !.job = j, !.copy = record])
        /\ UNCHANGED <<releases, sent, fresh, forgotten, overlapped, deaths>>
  BY DEF StartRun
<1> DEFINE record == [jobs[j] EXCEPT !.status = "running", !.dispatch = {}]
           h == [Waiting EXCEPT !.op = "run", !.pc = "schema", !.job = j, !.copy = record]
<1>2. j \in Jobs \ fresh /\ jobs[j] \in Record  BY <1>1, NotFresh DEF JobTypeInv
<1>3. record \in Record /\ record.status = "running" /\ record.packaged = jobs[j].packaged  BY <1>2 DEF Record
<1>4. Save(j, record) /\ Goes(t, h) /\ Request(t, j) /\ UNCHANGED <<releases, sent, forgotten, overlapped, deaths>>
  BY <1>1
<1> HIDE DEF record
<1>5. h \in JobThread /\ h.job = j /\ h.op = "run" /\ h.pc = "schema" /\ h.copy = record
  BY <1>2, <1>3 DEF Waiting, JobThread
<1>6. jobs'[j] = record /\ \A k \in Jobs \ {j} : jobs'[k] = jobs[k]
  BY <1>2, <1>3, <1>4, RecordSaved
<1> HIDE DEF h
<1>7. StepAt(t, j) /\ thread'[t] = h
  BY <1>2, <1>4, <1>5, <1>6, RequestIsAt
<1>8. thread[t] = Waiting /\ thread[t].job = None  BY <1>2, <1>4, RequestTyped, WaitingFits
<1> QED  BY <1>2, <1>3, <1>4, <1>5, <1>6, <1>7, <1>8

LEMMA RedispatchDoes ==
  ASSUME JobTypeInv, NEW t \in Threads, Redispatch(t)
  PROVE  \E j \in Jobs \ fresh :
         /\ StepAt(t, j) /\ UNCHANGED <<jobs, releases, sent, forgotten, overlapped, deaths>>
         /\ thread[t].job = None /\ jobs[j] \in Record /\ jobs[j].packaged
         /\ thread'[t].op = "redispatch" /\ thread'[t].pc = "send" /\ thread'[t].job = j
         /\ thread'[t].copy = jobs[j] /\ thread'[t].rows = InFile(j) /\ thread'[t].todo = InFile(j)
         /\ j \notin meddled' => \A u \in Threads : thread[u].job # j
<1>1. PICK j \in Jobs :
        /\ jobs[j] # None /\ jobs[j].packaged /\ releases[j] # {} /\ Request(t, j)
        /\ Goes(t, [Waiting EXCEPT !.op = "redispatch", !.pc = "send", !.job = j, !.copy = jobs[j],
                                   !.rows = InFile(j), !.todo = InFile(j)])
        /\ UNCHANGED <<jobs, releases, sent, fresh, forgotten, overlapped, deaths>>
  BY DEF Redispatch
<1> DEFINE h == [Waiting EXCEPT !.op = "redispatch", !.pc = "send", !.job = j, !.copy = jobs[j],
                                   !.rows = InFile(j), !.todo = InFile(j)]
<1>2. j \in Jobs \ fresh /\ jobs[j] \in Record /\ InFile(j) \in SUBSET Sample
  BY <1>1, NotFresh DEF JobTypeInv, InFile
<1>3. /\ h \in JobThread /\ h.job = j /\ h.op = "redispatch" /\ h.pc = "send" /\ h.copy = jobs[j]
      /\ h.rows = InFile(j) /\ h.todo = InFile(j)
  BY <1>2 DEF Waiting, JobThread
<1>4. Goes(t, h)  BY <1>1
<1> HIDE DEF h
<1>5. StepAt(t, j) /\ thread'[t] = h
  BY <1>1, <1>2, <1>3, <1>4, RequestIsAt
<1>6. thread[t].job = None /\ (j \notin meddled' => \A u \in Threads : thread[u].job # j)
  BY <1>1, <1>2, RequestTyped, WaitingFits
<1> QED  BY <1>1, <1>2, <1>3, <1>5, <1>6

LEMMA DeleteArtifactsDoes ==
  ASSUME JobTypeInv, NEW t \in Threads, DeleteArtifacts(t)
  PROVE  \E j \in Jobs \ fresh :
         /\ StepAt(t, j) /\ UNCHANGED <<jobs, sent, overlapped, deaths>>
         /\ thread[t].job = None /\ jobs[j] # None
         /\ thread'[t].op = "delete" /\ thread'[t].pc = "record" /\ thread'[t].job = j
         /\ thread'[t].copy = None
         /\ WriteFile(j, {}) /\ {} \in SUBSET SUBSET Sample /\ IsFiniteSet(UNION {}) /\ UNION {} = {}
<1>1. PICK j \in Jobs :
        /\ jobs[j] # None /\ Request(t, j) /\ Unlink(t, j, 1)
        /\ Goes(t, [Waiting EXCEPT !.op = "delete", !.pc = "record", !.job = j])
        /\ UNCHANGED <<sent, fresh, overlapped, deaths>>
  BY DEF DeleteArtifacts
<1> DEFINE h == [Waiting EXCEPT !.op = "delete", !.pc = "record", !.job = j]
<1>2. j \in Jobs \ fresh  BY <1>1, NotFresh
<1>3. WriteFile(j, {}) /\ UNCHANGED jobs /\ Goes(t, h)  BY <1>1 DEF Unlink
<1>4. /\ h \in JobThread /\ h.job = j /\ h.op = "delete" /\ h.pc = "record" /\ h.copy = None
  BY <1>2 DEF Waiting, JobThread
<1>5. UNION {} = {} /\ IsFiniteSet({}) /\ {} \in SUBSET SUBSET Sample  BY FS_EmptySet
<1>6. \A k \in Jobs \ {j} : releases'[k] = releases[k]
  BY <1>2, <1>3, <1>5, FileWritten
<1> HIDE DEF h
<1>7. StepAt(t, j) /\ thread'[t] = h
  BY <1>1, <1>2, <1>3, <1>4, <1>6, RequestIsAt
<1>8. thread[t].job = None  BY <1>1, <1>2, RequestTyped, WaitingFits
<1> QED  BY <1>1, <1>2, <1>3, <1>4, <1>5, <1>7, <1>8

LEMMA DeleteSampleDoes ==
  ASSUME JobTypeInv, NEW t \in Threads, DeleteSample(t)
  PROVE  \E j \in Jobs \ fresh :
         /\ StepAt(t, j) /\ UNCHANGED <<jobs, releases, sent, forgotten, overlapped, deaths>>
         /\ thread[t].job = None /\ releases[j] # {}
         /\ thread'[t].op = "delete_qa" /\ thread'[t].pc = "rewrite" /\ thread'[t].job = j
         /\ thread'[t].copy = None /\ thread'[t].rows \subseteq InFile(j)
<1>1. PICK j \in Jobs : \E r \in InFile(j) :
        /\ Request(t, j)
        /\ Goes(t, [Waiting EXCEPT !.op = "delete_qa", !.pc = "rewrite", !.job = j, !.rows = InFile(j) \ {r}])
        /\ UNCHANGED <<jobs, releases, sent, fresh, forgotten, overlapped, deaths>>
  BY DEF DeleteSample
<1>2. PICK r \in InFile(j) :
        /\ Request(t, j)
        /\ Goes(t, [Waiting EXCEPT !.op = "delete_qa", !.pc = "rewrite", !.job = j, !.rows = InFile(j) \ {r}])
        /\ UNCHANGED <<jobs, releases, sent, fresh, forgotten, overlapped, deaths>>
  BY <1>1
<1> DEFINE h == [Waiting EXCEPT !.op = "delete_qa", !.pc = "rewrite", !.job = j, !.rows = InFile(j) \ {r}]
<1>3. j \in Jobs \ fresh /\ releases[j] # {} /\ InFile(j) \in SUBSET Sample
  BY <1>2, NotFresh DEF JobTypeInv, InFile
<1>4. /\ h \in JobThread /\ h.job = j /\ h.op = "delete_qa" /\ h.pc = "rewrite" /\ h.copy = None
      /\ h.rows \subseteq InFile(j)
  BY <1>3 DEF Waiting, JobThread
<1>5. Goes(t, h)  BY <1>2
<1> HIDE DEF h
<1>6. StepAt(t, j) /\ thread'[t] = h
  BY <1>2, <1>3, <1>4, <1>5, RequestIsAt
<1>7. thread[t].job = None  BY <1>2, <1>3, RequestTyped, WaitingFits
<1> QED  BY <1>2, <1>3, <1>4, <1>6, <1>7

-----------------------------------------------------------------------------
(* Jobs under way, and releases without a job.                             *)

LEMMA SoleInit == Init => SoleInv
<1> SUFFICES ASSUME Init, NEW j \in Jobs PROVE SoleAt(j)  BY DEF SoleInv
<1>1. jobs[j] = None /\ releases[j] = {} /\ \A t \in Threads : thread[t].job # j
  BY JobTypeInit DEF Init, JobTypeInv
<1> QED  BY <1>1 DEF SoleAt

LEMMA SoleWorks ==
  ASSUME JobTypeInv, SoleInv, NEW t \in Threads, Works(t)
  PROVE  SoleInv'
<1> DEFINE j == thread[t].job
<1>1. SUFFICES j \in Jobs \ fresh /\ StepAt(t, j) /\ (j \notin meddled' => LeavesSole(t, j))
  BY SoleStep
<1>2. CASE ReadHistory(t)
  <2>1. j \in Jobs \ fresh /\ StepAt(t, j) /\ jobs'[j] \in Record /\ thread'[t].job = j /\ thread'[t].op = "run"
    BY <1>2, ReadHistoryDoes
  <2> QED  BY <2>1, JobAssumption DEF LeavesSole
<1>3. CASE Attempt(t)
  <2>1. j \in Jobs \ fresh /\ StepAt(t, j) /\ jobs'[j] \in Record /\ thread'[t].job = j /\ thread'[t].op = "run"
    BY <1>3, AttemptDoes
  <2> QED  BY <2>1, JobAssumption DEF LeavesSole
<1>4. CASE StageFails(t)
  <2>1. /\ j \in Jobs \ fresh /\ StepAt(t, j) /\ jobs'[j] \in Record /\ thread'[t] = Waiting
        /\ jobs'[j].status = "failed"
    BY <1>4, StageFailsDoes
  <2> QED  BY <2>1, WaitingFits, JobAssumption DEF LeavesSole
<1>5. CASE WriteReleases(t)
  <2>1. j \in Jobs \ fresh /\ StepAt(t, j) /\ jobs'[j] \in Record /\ thread'[t].job = j /\ thread'[t].op = "run"
    BY <1>5, WriteReleasesDoes
  <2> QED  BY <2>1, JobAssumption DEF LeavesSole
<1>6. CASE SendSample(t)
  <2>1. /\ j \in Jobs \ fresh /\ StepAt(t, j) /\ UNCHANGED <<jobs, releases, meddled, deaths>>
        /\ thread'[t].job = j /\ thread'[t].op = thread[t].op /\ thread'[t].copy = thread[t].copy
    BY <1>6, SendSampleDoes
  <2> QED  BY <2>1 DEF LeavesSole, SoleInv, SoleAt
<1>7. CASE SaveDispatch(t)
  <2>1. /\ j \in Jobs \ fresh /\ StepAt(t, j) /\ UNCHANGED <<meddled, deaths>> /\ jobs'[j] \in Record
        /\ thread'[t] = Waiting /\ thread[t].op \in {"run", "redispatch"}
        /\ thread[t].op = "run" => jobs'[j].status = "completed"
        /\ thread[t].op = "redispatch" => jobs'[j].status = thread[t].copy.status
    BY <1>7, SaveDispatchDoes
  <2> QED  BY <2>1, WaitingFits, JobAssumption DEF LeavesSole, SoleInv, SoleAt
<1>8. CASE DeleteRecord(t)
  <2>1. /\ j \in Jobs \ fresh /\ StepAt(t, j) /\ UNCHANGED <<releases, meddled>>
        /\ thread[t].op = "delete" /\ thread'[t] = Waiting /\ jobs'[j] = None
    BY <1>8, DeleteRecordDoes
  <2> QED  BY <2>1, WaitingFits, JobAssumption DEF LeavesSole, SoleInv, SoleAt
<1>9. CASE RewriteFile(t)
  <2>1. /\ j \in Jobs \ fresh /\ StepAt(t, j) /\ UNCHANGED <<jobs, meddled, deaths>>
        /\ thread[t].op = "delete_qa" /\ thread'[t] = Waiting
    BY <1>9, RewriteFileDoes
  <2>2. j \notin meddled => \A u \in Threads : thread[u].job = j => u = t
    BY <2>1 DEF StepAt
  <2>3. j \notin meddled => jobs[j] # None /\ (deaths = 0 => jobs[j].status # "running")
    BY <2>1, <2>2 DEF SoleInv, SoleAt
  <2> QED  BY <2>1, <2>3, WaitingFits, JobAssumption DEF LeavesSole
<1> QED  BY <1>2, <1>3, <1>4, <1>5, <1>6, <1>7, <1>8, <1>9 DEF Works

LEMMA SoleRequest ==
  ASSUME JobTypeInv, SoleInv, NEW t \in Threads, NewRequest(t)
  PROVE  SoleInv'
<1>1. CASE CreateJob(t)
  <2>1. PICK j \in Jobs :
         /\ j \in fresh /\ StepAt(t, j) /\ UNCHANGED <<thread, releases, meddled, deaths>>
         /\ thread[t].job = None /\ jobs[j] = None /\ releases[j] = {}
         /\ jobs'[j] = [status |-> "created", packaged |-> FALSE, dispatch |-> {}]
    BY <1>1, CreateJobDoes
  <2>2. jobs'[j].status = "created"  BY <2>1
  <2>3. LeavesSole(t, j)  BY <2>1, <2>2, JobAssumption DEF LeavesSole
  <2> QED  BY <2>1, <2>3, SoleStep
<1>2. CASE StartRun(t)
  <2>1. PICK j \in Jobs \ fresh :
         /\ StepAt(t, j) /\ thread'[t].op = "run" /\ thread'[t].job = j
         /\ thread'[t].copy \in Record /\ jobs'[j] = thread'[t].copy
    BY <1>2, StartRunDoes
  <2>2. LeavesSole(t, j)  BY <2>1, JobAssumption DEF LeavesSole
  <2> QED  BY <2>1, <2>2, SoleStep
<1>3. CASE Redispatch(t)
  <2>1. PICK j \in Jobs \ fresh :
         /\ StepAt(t, j) /\ UNCHANGED <<jobs, releases, deaths>> /\ jobs[j] \in Record
         /\ thread'[t].op = "redispatch" /\ thread'[t].job = j /\ thread'[t].copy = jobs[j]
         /\ j \notin meddled' => \A u \in Threads : thread[u].job # j
    BY <1>3, RedispatchDoes
  <2>2. j \notin meddled' => (deaths' = 0 => jobs[j].status # "running")
    BY <2>1, JobAssumption DEF SoleInv, SoleAt, StepAt
  <2>3. j \notin meddled' => LeavesSole(t, j)  BY <2>1, <2>2, JobAssumption DEF LeavesSole
  <2> QED  BY <2>1, <2>3, SoleStep
<1>4. CASE DeleteArtifacts(t)
  <2>1. PICK j \in Jobs \ fresh :
         /\ StepAt(t, j) /\ UNCHANGED <<jobs, deaths>> /\ jobs[j] # None
         /\ thread[t].job = None /\ thread'[t].op = "delete" /\ thread'[t].job = j
         /\ WriteFile(j, {}) /\ {} \in SUBSET SUBSET Sample /\ IsFiniteSet(UNION {})
    BY <1>4, DeleteArtifactsDoes
  <2>2. releases'[j] = {}  BY <2>1, FileWritten
  <2>3. j \notin meddled' => \A u \in Threads : thread[u].job # j
    BY <2>1, JobAssumption DEF StepAt
  <2>4. j \notin meddled' => (deaths' = 0 => jobs[j].status # "running")
    BY <2>1, <2>3 DEF SoleInv, SoleAt, StepAt
  <2>5. j \notin meddled' => LeavesSole(t, j)  BY <2>1, <2>2, <2>4, JobAssumption DEF LeavesSole
  <2> QED  BY <2>1, <2>5, SoleStep
<1>5. CASE DeleteSample(t)
  <2>1. PICK j \in Jobs \ fresh :
         /\ StepAt(t, j) /\ UNCHANGED <<jobs, releases, deaths>>
         /\ thread[t].job = None /\ releases[j] # {}
         /\ thread'[t].op = "delete_qa" /\ thread'[t].job = j
    BY <1>5, DeleteSampleDoes
  <2>2. j \notin meddled' => \A u \in Threads : thread[u].job # j
    BY <2>1, JobAssumption DEF StepAt
  <2>3. j \notin meddled' => jobs[j] # None /\ (deaths' = 0 => jobs[j].status # "running")
    BY <2>1, <2>2 DEF SoleInv, SoleAt, StepAt
  <2>4. j \notin meddled' => LeavesSole(t, j)  BY <2>1, <2>3 DEF LeavesSole
  <2> QED  BY <2>1, <2>4, SoleStep
<1> QED  BY <1>1, <1>2, <1>3, <1>4, <1>5 DEF NewRequest

LEMMA SoleRestart ==
  ASSUME JobTypeInv, SoleInv, Restart
  PROVE  SoleInv'
<1>1. /\ thread' = [t \in Threads |-> Waiting] /\ deaths' = deaths + 1 /\ deaths \in Nat
      /\ UNCHANGED <<jobs, releases, meddled>>
  BY DEF Restart, JobTypeInv
<1>2. deaths' # 0  BY <1>1
<1>3. \A j \in Jobs : \A t \in Threads : thread'[t].job # j
  BY <1>1, WaitingFits, JobAssumption
<1> SUFFICES ASSUME NEW j \in Jobs \ meddled PROVE SoleAt(j)'
  BY <1>1 DEF SoleInv
<1>4. SoleAt(j)  BY DEF SoleInv
<1> QED  BY <1>1, <1>2, <1>3, <1>4 DEF SoleAt

LEMMA SoleNext == JobTypeInv /\ SoleInv /\ [Next]_vars => SoleInv'
<1> SUFFICES ASSUME JobTypeInv, SoleInv, [Next]_vars PROVE SoleInv'  OBVIOUS
<1>1. CASE UNCHANGED vars  BY <1>1 DEF vars, SoleInv, SoleAt
<1>2. CASE Next  BY <1>2, SoleWorks, SoleRequest, SoleRestart DEF Next
<1> QED  BY <1>1, <1>2

LEMMA JobsAreKept == JobTypeInv /\ SoleInv => JobsInv
<1> SUFFICES ASSUME JobTypeInv, SoleInv PROVE JobsInv  OBVIOUS
<1>1. \A j \in Jobs : (jobs[j] = None \/ jobs[j] \in Record) /\ InFile(j) \subseteq Sample
  BY DEF JobTypeInv, InFile
<1>2. \A t \in Threads : thread[t].attempt \in 0..(IF thread[t].op = "run" THEN Attempts(thread[t].job) ELSE 0)
  BY DEF JobTypeInv, JobFits
<1>3. {s.row : s \in sent} \cup {f.row : f \in forgotten} \subseteq Sample
  BY DEF JobTypeInv, Parcel
<1>4. TypeOK  BY <1>1, <1>2, <1>3 DEF TypeOK, JobTypeInv
<1>5. UnfinishedIsRunning
  <2> SUFFICES ASSUME NEW j \in Jobs \ meddled, jobs[j] # None, jobs[j].status = "running", ~(deaths > 0)
               PROVE  Working(j) # {}
    BY DEF UnfinishedIsRunning
  <2>1. deaths = 0  BY DEF JobTypeInv
  <2> QED  BY <2>1 DEF SoleInv, SoleAt, Working
<1>6. ReleasesHaveJob  BY DEF ReleasesHaveJob, SoleInv, SoleAt
<1> QED  BY <1>4, <1>5, <1>6 DEF JobsInv

\* Types; a job that says it is under way is worked on, unless the process died
\* or someone else worked on it; no releases file stays behind a deletion
\* (run_job, redispatch_job, delete_job).
THEOREM JobsFitTogether == Spec => []JobsInv
<1> QED  BY JobTypeInit, JobTypeStep, SoleInit, SoleNext, JobsAreKept, PTL DEF Spec

-----------------------------------------------------------------------------
(* No sample is released twice: what a run reads of the history, what it   *)
(* then makes of it, and what the others write in between.                 *)

Was(j, r) == [job |-> j, row |-> r] \in forgotten
Known(j, r) == r \in InFile(j) \/ Was(j, r)
Reading(t) == thread[t].op = "run" /\ thread[t].pc \in {"attempt", "write"}
Clash(a, b) == a.question = b.question \/ a.cypher = b.cypher

\* Of two runs that have read the history neither saw the other's release.
OverlapInv == \A t, u \in Threads :
  t # u /\ Reading(t) /\ Reading(u) => {thread[t].job, thread[u].job} \in overlapped

\* What a run has read is all there is in the files of the others, but for the
\* releases that it could not see; and what it will write repeats none of it.
SeenInv == \A t \in Threads :
  /\ Reading(t) => \A k \in Jobs \ {thread[t].job} : \A r \in InFile(k) :
       r \in thread[t].seen \/ {thread[t].job, k} \in overlapped \/ Was(k, r)
  /\ thread[t].pc = "write" => \A r \in thread[t].rows : ~Repeats(r, thread[t].seen)

\* What is sent, or written back, has been in the file.
KeptInv ==
  /\ \A t \in Threads : thread[t].pc \in {"send", "rewrite"} =>
       \A r \in thread[t].rows : Known(thread[t].job, r)
  /\ \A s \in sent : Known(s.job, s.row)

\* Two files share nothing that is not excused.
ApartInv == \A j, k \in Jobs : j # k => \A a \in InFile(j), b \in InFile(k) :
  Clash(a, b) => {j, k} \in overlapped \/ Was(j, a) \/ Was(k, b)

HistoryInv == OverlapInv /\ SeenInv /\ KeptInv /\ ApartInv

LEMMA KnownStays ==
  ASSUME JobTypeInv, UNCHANGED <<releases, forgotten>>
  PROVE  \A k \in Jobs : /\ InFile(k)' = InFile(k)
                         /\ \A r : (Was(k, r)' <=> Was(k, r)) /\ (Known(k, r)' <=> Known(k, r))
BY DEF Known, Was, InFile

LEMMA KnownGrows ==
  ASSUME JobTypeInv, NEW j \in Jobs, NEW files \in SUBSET SUBSET Sample, IsFiniteSet(UNION files),
         WriteFile(j, files)
  PROVE  \A k \in Jobs : \A r : (Was(k, r) => Was(k, r)') /\ (Known(k, r) => Known(k, r)')
<1>1. /\ InFile(j)' = UNION files /\ \A k \in Jobs \ {j} : InFile(k)' = InFile(k)
      /\ forgotten \subseteq forgotten'
      /\ \A r \in InFile(j) : r \in UNION files \/ [job |-> j, row |-> r] \in forgotten'
  BY FileWritten
<1> TAKE k \in Jobs
<1> TAKE r
<1>2. Was(k, r) => Was(k, r)'  BY <1>1 DEF Was
<1>3. ASSUME Known(k, r) PROVE Known(k, r)'
  <2>1. CASE k = j
    <3>1. r \in InFile(j) => r \in InFile(j)' \/ Was(j, r)'  BY <1>1 DEF Was
    <3> QED  BY <2>1, <3>1, <1>2, <1>3 DEF Known
  <2>2. CASE k # j
    <3>1. InFile(k)' = InFile(k)  BY <1>1, <2>2
    <3> QED  BY <3>1, <1>2, <1>3 DEF Known
  <2> QED  BY <2>1, <2>2
<1> QED  BY <1>2, <1>3

\* A step that leaves the files alone: it is enough to look at the thread that
\* steps and at what is sent.
LeavesHistory(t) ==
  /\ Reading(t)' => \A u \in Threads \ {t} : Reading(u) => {thread'[t].job, thread[u].job} \in overlapped'
  /\ Reading(t)' => \A k \in Jobs \ {thread'[t].job} : \A r \in InFile(k) :
       r \in thread'[t].seen \/ {thread'[t].job, k} \in overlapped' \/ Was(k, r)
  /\ thread'[t].pc = "write" => \A r \in thread'[t].rows : ~Repeats(r, thread'[t].seen)
  /\ thread'[t].pc \in {"send", "rewrite"} =>
       thread'[t].job \in Jobs /\ \A r \in thread'[t].rows : Known(thread'[t].job, r)
  /\ \A s \in sent' : Known(s.job, s.row)

LEMMA HistoryLeft ==
  ASSUME JobTypeInv, JobTypeInv', HistoryInv, NEW t \in Threads, \A u \in Threads \ {t} : thread'[u] = thread[u],
         UNCHANGED <<releases, forgotten>>, overlapped \subseteq overlapped', LeavesHistory(t)
  PROVE  HistoryInv'
<1>1. \A k \in Jobs : /\ InFile(k)' = InFile(k)
                      /\ \A r : (Was(k, r)' <=> Was(k, r)) /\ (Known(k, r)' <=> Known(k, r))
  BY KnownStays
<1>2. \A u \in Threads \ {t} : Reading(u)' <=> Reading(u)
  BY DEF Reading
<1>3. OverlapInv'
  <2> SUFFICES ASSUME NEW u \in Threads, NEW v \in Threads, u # v, Reading(u)', Reading(v)'
               PROVE  {thread'[u].job, thread'[v].job} \in overlapped'
    BY DEF OverlapInv
  <2>1. CASE u = t
    BY <2>1, <1>2 DEF LeavesHistory
  <2>2. CASE v = t
    <3>1. {thread'[v].job, thread'[u].job} \in overlapped'  BY <2>2, <1>2 DEF LeavesHistory
    <3>2. {thread'[u].job, thread'[v].job} = {thread'[v].job, thread'[u].job}  OBVIOUS
    <3> QED  BY <3>1, <3>2
  <2>3. CASE u # t /\ v # t
    BY <2>3, <1>2 DEF HistoryInv, OverlapInv
  <2> QED  BY <2>1, <2>2, <2>3
<1>4. SeenInv'
  <2> SUFFICES ASSUME NEW u \in Threads
               PROVE  /\ Reading(u)' => \A k \in Jobs \ {thread'[u].job} : \A r \in InFile(k)' :
                           r \in thread'[u].seen \/ {thread'[u].job, k} \in overlapped' \/ Was(k, r)'
                      /\ thread'[u].pc = "write" => \A r \in thread'[u].rows : ~Repeats(r, thread'[u].seen)
    BY DEF SeenInv, Repeats
  <2>1. CASE u = t  BY <2>1, <1>1 DEF LeavesHistory
  <2>2. CASE u # t  BY <2>2, <1>1, <1>2 DEF HistoryInv, SeenInv
  <2> QED  BY <2>1, <2>2
<1>5. KeptInv'
  <2>1. \A u \in Threads : thread'[u].pc \in {"send", "rewrite"} =>
          \A r \in thread'[u].rows : Known(thread'[u].job, r)
    BY DEF LeavesHistory, HistoryInv, KeptInv
  <2>2. \A u \in Threads : thread'[u].pc \in {"send", "rewrite"} => thread'[u].job \in Jobs
    BY ThreadFits DEF LeavesHistory
  <2>3. \A s \in sent' : Known(s.job, s.row) /\ s.job \in Jobs
    BY DEF LeavesHistory, JobTypeInv, Parcel
  <2>4. \A k \in Jobs : \A r : Known(k, r) => r \in InFile(k)' \/ [job |-> k, row |-> r] \in forgotten'
    BY <1>1 DEF Known, Was
  <2> QED  BY <2>1, <2>2, <2>3, <2>4 DEF KeptInv, Known, Was, InFile
<1>6. ApartInv'
  BY <1>1 DEF HistoryInv, ApartInv, Clash
<1> QED  BY <1>3, <1>4, <1>5, <1>6 DEF HistoryInv

\* A step that writes a file: what it writes and the file has not had is apart from
\* the other files, and no other run will repeat it unknowingly.
Fits(t, j, rows) ==
  /\ ~Reading(t)' /\ thread'[t].pc # "write" /\ thread'[t].pc # "rewrite"
  /\ thread'[t].pc = "send" => thread'[t].job = j /\ thread'[t].rows \subseteq rows
  /\ \A r \in rows : ~Known(j, r) =>
       /\ \A k \in Jobs \ {j} : \A b \in InFile(k) : Clash(r, b) => {j, k} \in overlapped \/ Was(k, b)
       /\ \A u \in Threads \ {t} : Reading(u) => {thread[u].job, j} \in overlapped

LEMMA HistoryWritten ==
  ASSUME JobTypeInv, JobTypeInv', HistoryInv, NEW t \in Threads, \A u \in Threads \ {t} : thread'[u] = thread[u],
         NEW j \in Jobs, NEW files \in SUBSET SUBSET Sample, IsFiniteSet(UNION files), WriteFile(j, files),
         UNCHANGED <<overlapped, sent>>, Fits(t, j, UNION files)
  PROVE  HistoryInv'
<1>1. InFile(j)' = UNION files /\ \A k \in Jobs \ {j} : InFile(k)' = InFile(k)
  BY FileWritten
<1>2. \A k \in Jobs : \A r : (Was(k, r) => Was(k, r)') /\ (Known(k, r) => Known(k, r)')
  BY KnownGrows
<1>3. \A u \in Threads \ {t} : Reading(u)' <=> Reading(u)
  BY DEF Reading
<1>4. OverlapInv'
  BY <1>3 DEF Fits, HistoryInv, OverlapInv
<1>5. SeenInv'
  <2> SUFFICES ASSUME NEW u \in Threads
               PROVE  /\ Reading(u)' => \A k \in Jobs \ {thread'[u].job} : \A r \in InFile(k)' :
                           r \in thread'[u].seen \/ {thread'[u].job, k} \in overlapped' \/ Was(k, r)'
                      /\ thread'[u].pc = "write" => \A r \in thread'[u].rows : ~Repeats(r, thread'[u].seen)
    BY DEF SeenInv, Repeats
  <2>1. CASE u = t  BY <2>1 DEF Fits
  <2>2. CASE u # t
    <3>1. thread'[u].pc = "write" => \A r \in thread'[u].rows : ~Repeats(r, thread'[u].seen)
      BY <2>2 DEF HistoryInv, SeenInv
    <3>2. ASSUME Reading(u)', NEW k \in Jobs \ {thread'[u].job}, NEW r \in InFile(k)'
          PROVE  r \in thread'[u].seen \/ {thread'[u].job, k} \in overlapped' \/ Was(k, r)'
      <4>1. Reading(u) /\ thread'[u] = thread[u] /\ k \in Jobs \ {thread[u].job}  BY <2>2, <3>2, <1>3
      <4>2. CASE r \in InFile(k)  BY <4>1, <4>2, <1>2 DEF HistoryInv, SeenInv
      <4>3. CASE r \notin InFile(k)
        <5>1. k = j /\ r \in UNION files  BY <1>1, <3>2, <4>3
        <5>2. CASE Known(j, r)  BY <1>2, <4>3, <5>1, <5>2 DEF Known
        <5>3. CASE ~Known(j, r)  BY <2>2, <4>1, <5>1, <5>3 DEF Fits
        <5> QED  BY <5>2, <5>3
      <4> QED  BY <4>2, <4>3
    <3> QED  BY <3>1, <3>2
  <2> QED  BY <2>1, <2>2
<1>6. KeptInv'
  <2>1. ASSUME NEW u \in Threads, thread'[u].pc \in {"send", "rewrite"}, NEW r \in thread'[u].rows
        PROVE  r \in UNION releases'[thread'[u].job] \/ [job |-> thread'[u].job, row |-> r] \in forgotten'
    <3>1. CASE u = t
      <4>1. thread'[u].job = j /\ r \in UNION files  BY <2>1, <3>1 DEF Fits
      <4>2. UNION releases'[j] = UNION files  BY <1>1 DEF InFile
      <4> QED  BY <4>1, <4>2
    <3>2. CASE u # t
      <4>1. Known(thread[u].job, r) /\ thread'[u] = thread[u] /\ thread[u].job \in Jobs
        BY <2>1, <3>2, ThreadFits DEF HistoryInv, KeptInv
      <4>2. \A k \in Jobs : Known(k, r) => r \in UNION releases'[k] \/ [job |-> k, row |-> r] \in forgotten'
        BY <1>2 DEF Known, Was, InFile
      <4> QED  BY <4>1, <4>2
    <3> QED  BY <3>1, <3>2
  <2>2. ASSUME NEW s \in sent'
        PROVE  s.row \in UNION releases'[s.job] \/ [job |-> s.job, row |-> s.row] \in forgotten'
    <3>1. Known(s.job, s.row) /\ s.job \in Jobs
      BY <2>2 DEF HistoryInv, KeptInv, JobTypeInv, Parcel
    <3>2. \A k \in Jobs : Known(k, s.row) =>
            s.row \in UNION releases'[k] \/ [job |-> k, row |-> s.row] \in forgotten'
      BY <1>2 DEF Known, Was, InFile
    <3> QED  BY <3>1, <3>2
  <2> QED  BY <2>1, <2>2 DEF KeptInv, Known, Was, InFile
<1>7. ApartInv'
  \* A row of the file that is written, and a row of another file.
  <2>1. ASSUME NEW k \in Jobs \ {j}, NEW a \in InFile(j)', NEW b \in InFile(k)', Clash(a, b)
        PROVE  {j, k} \in overlapped' \/ Was(j, a)' \/ Was(k, b)'
    <3>1. a \in UNION files /\ b \in InFile(k)  BY <1>1, <2>1
    <3>2. CASE Known(j, a)
      <4>1. Was(j, a) \/ a \in InFile(j)  BY <3>2 DEF Known
      <4> QED  BY <4>1, <3>1, <2>1, <1>2 DEF HistoryInv, ApartInv
    <3>3. CASE ~Known(j, a)
      BY <3>1, <3>3, <2>1, <1>2 DEF Fits
    <3> QED  BY <3>2, <3>3
  <2> SUFFICES ASSUME NEW i \in Jobs, NEW k \in Jobs, i # k, NEW a \in InFile(i)', NEW b \in InFile(k)', Clash(a, b)
               PROVE  {i, k} \in overlapped' \/ Was(i, a)' \/ Was(k, b)'
    BY DEF ApartInv, Clash
  <2>2. CASE i = j  BY <2>1, <2>2
  <2>3. CASE k = j
    <3>1. Clash(b, a)  BY DEF Clash
    <3>2. {j, i} \in overlapped' \/ Was(j, b)' \/ Was(i, a)'  BY <2>1, <2>3, <3>1
    <3>3. {i, k} = {j, i}  BY <2>3
    <3> QED  BY <2>3, <3>2, <3>3
  <2>4. CASE i # j /\ k # j
    <3>1. a \in InFile(i) /\ b \in InFile(k)  BY <1>1, <2>4
    <3> QED  BY <3>1, <1>2 DEF HistoryInv, ApartInv
  <2> QED  BY <2>2, <2>3, <2>4
<1> QED  BY <1>4, <1>5, <1>6, <1>7 DEF HistoryInv

LEMMA HistoryInit == Init => HistoryInv
<1> SUFFICES ASSUME Init PROVE HistoryInv  OBVIOUS
<1>1. \A j \in Jobs : InFile(j) = {}  BY DEF Init, InFile
<1>2. \A t \in Threads : ~Reading(t) /\ thread[t].pc = "waiting"
  BY DEF Init, Waiting, Reading
<1>3. OverlapInv  BY <1>2 DEF OverlapInv
<1>4. SeenInv  BY <1>2 DEF SeenInv
<1>5. KeptInv  BY <1>2 DEF KeptInv, Init
<1>6. ApartInv  BY <1>1 DEF ApartInv
<1> QED  BY <1>3, <1>4, <1>5, <1>6 DEF HistoryInv

\* What is made repeats nothing that was read.
LEMMA BatchIsNew ==
  ASSUME NEW j, NEW pool, NEW seen, NEW rows \in Releases(j, pool, seen)
  PROVE  \A r \in rows : ~Repeats(r, seen)
<1>1. PICK Q \in SUBSET {c \in pool : \A s \in seen : s.cypher # c} : \E w \in Wordings(Q) :
        rows \in Selections(j, {r \in Worded(w) : ~Repeats(r, seen)})
  BY DEF Releases
<1>2. PICK w \in Wordings(Q) : rows \in Selections(j, {r \in Worded(w) : ~Repeats(r, seen)})
  BY <1>1
<1> QED  BY <1>2 DEF Selections

LEMMA HistoryWaits ==
  ASSUME JobTypeInv, JobTypeInv', HistoryInv, NEW t \in Threads, \A u \in Threads \ {t} : thread'[u] = thread[u],
         UNCHANGED <<releases, forgotten, sent>>, overlapped \subseteq overlapped', thread'[t].pc \in {"waiting", "record", "schema"}
  PROVE  HistoryInv'
<1>1. LeavesHistory(t)  BY DEF LeavesHistory, Reading, HistoryInv, KeptInv
<1> QED  BY <1>1, HistoryLeft

LEMMA HistoryWorks ==
  ASSUME JobTypeInv, JobTypeInv', SoleInv, HistoryInv, NEW t \in Threads, Works(t)
  PROVE  HistoryInv'
<1> DEFINE j == thread[t].job
<1>1. CASE ReadHistory(t)
  <2>1. /\ j \in Jobs /\ StepAt(t, j) /\ UNCHANGED <<releases, sent, forgotten>>
        /\ thread'[t].job = j /\ thread'[t].pc = "attempt"
    BY <1>1, ReadHistoryDoes
  <2>2. thread'[t].seen = UNION {InFile(k) : k \in Jobs \ {j}}
    BY <1>1, ReadHistoryDoes
  <2>3. overlapped' = overlapped \cup
          {{j, thread[u].job} : u \in {u \in Threads \ {t} : thread[u].op = "run" /\ thread[u].pc \in {"attempt", "write"}}}
    BY <1>1, ReadHistoryDoes
  <2>4. \A u \in Threads \ {t} : Reading(u) => {j, thread[u].job} \in overlapped'
    BY <2>3 DEF Reading
  <2>5. \A k \in Jobs \ {j} : \A r \in InFile(k) : r \in thread'[t].seen
    BY <2>2
  <2>6. LeavesHistory(t)
    BY <2>1, <2>4, <2>5 DEF LeavesHistory, HistoryInv, KeptInv
  <2>7. overlapped \subseteq overlapped'  BY <2>3
  <2> QED  BY <2>1, <2>6, <2>7, HistoryLeft DEF StepAt
<1>2. CASE Attempt(t)
  <2>1. /\ j \in Jobs /\ StepAt(t, j) /\ UNCHANGED <<releases, sent, forgotten, overlapped>>
        /\ thread[t].op = "run" /\ thread[t].pc = "attempt"
        /\ thread'[t].job = j /\ thread'[t].pc \in {"attempt", "write"} /\ thread'[t].seen = thread[t].seen
    BY <1>2, AttemptDoes
  <2>2. thread'[t].pc = "write" => \E pool \in SUBSET Cyphers : thread'[t].rows \in Releases(j, pool, thread[t].seen)
    BY <1>2, AttemptDoes
  <2>3. thread'[t].pc = "write" => \A r \in thread'[t].rows : ~Repeats(r, thread[t].seen)
    BY <2>2, BatchIsNew
  <2>4. Reading(t)  BY <2>1 DEF Reading
  <2>5. LeavesHistory(t)
    BY <2>1, <2>3, <2>4 DEF LeavesHistory, HistoryInv, OverlapInv, SeenInv, KeptInv
  <2> QED  BY <2>1, <2>5, HistoryLeft DEF StepAt
<1>3. CASE StageFails(t)
  <2>1. StepAt(t, j) /\ UNCHANGED <<releases, sent, forgotten, overlapped>> /\ thread'[t].pc = "waiting"
    BY <1>3, StageFailsDoes DEF Waiting
  <2> QED  BY <2>1, HistoryWaits DEF StepAt
<1>4. CASE WriteReleases(t)
  <2>1. /\ j \in Jobs /\ StepAt(t, j) /\ UNCHANGED <<sent, overlapped>>
        /\ thread[t].op = "run" /\ thread[t].pc = "write"
        /\ thread'[t].job = j /\ thread'[t].pc = "send" /\ thread'[t].rows = thread[t].rows
        /\ WriteFile(j, {thread[t].rows}) /\ {thread[t].rows} \in SUBSET SUBSET Sample
        /\ IsFiniteSet(UNION {thread[t].rows}) /\ UNION {thread[t].rows} = thread[t].rows
    BY <1>4, WriteReleasesDoes
  <2>2. Reading(t)  BY <2>1 DEF Reading
  <2>3. ASSUME NEW r \in thread[t].rows, NEW k \in Jobs \ {j}, NEW b \in InFile(k), Clash(r, b)
        PROVE  {j, k} \in overlapped \/ Was(k, b)
    <3>1. ~Repeats(r, thread[t].seen)  BY <2>1 DEF HistoryInv, SeenInv
    <3>2. b \notin thread[t].seen  BY <2>3, <3>1 DEF Repeats, Clash
    <3> QED  BY <2>2, <3>2 DEF HistoryInv, SeenInv
  <2>4. \A u \in Threads \ {t} : Reading(u) => {thread[u].job, j} \in overlapped
    BY <2>2 DEF HistoryInv, OverlapInv
  <2>5. Fits(t, j, thread[t].rows)
    BY <2>1, <2>3, <2>4 DEF Fits, Reading
  <2> QED  BY <2>1, <2>5, HistoryWritten DEF StepAt
<1>5. CASE SendSample(t)
  <2>1. /\ j \in Jobs /\ StepAt(t, j) /\ UNCHANGED <<releases, forgotten, overlapped>> /\ thread[t].pc = "send"
        /\ thread'[t].job = j /\ thread'[t].pc = "send" /\ thread'[t].rows = thread[t].rows
    BY <1>5, SendSampleDoes
  <2>2. PICK r \in thread[t].rows : sent' = sent \cup {[job |-> j, row |-> r]}
    BY <1>5, SendSampleDoes
  <2>3. \A q \in thread[t].rows : Known(j, q)  BY <2>1 DEF HistoryInv, KeptInv
  <2>4. \A s \in sent' : Known(s.job, s.row)
    <3> TAKE s \in sent'
    <3>1. CASE s \in sent  BY <3>1 DEF HistoryInv, KeptInv
    <3>2. CASE s = [job |-> j, row |-> r]
      <4>1. s.job = j /\ s.row = r  BY <3>2
      <4> QED  BY <4>1, <2>3
    <3> QED  BY <2>2, <3>1, <3>2
  <2>5. LeavesHistory(t)
    <3>1. ~Reading(t)' /\ thread'[t].pc = "send"  BY <2>1 DEF Reading
    <3> QED  BY <2>1, <2>3, <2>4, <3>1 DEF LeavesHistory
  <2> QED  BY <2>1, <2>5, HistoryLeft DEF StepAt
<1>6. CASE SaveDispatch(t)
  <2>1. StepAt(t, j) /\ UNCHANGED <<releases, sent, forgotten, overlapped>> /\ thread'[t].pc = "waiting"
    BY <1>6, SaveDispatchDoes DEF Waiting
  <2> QED  BY <2>1, HistoryWaits DEF StepAt
<1>7. CASE DeleteRecord(t)
  <2>1. StepAt(t, j) /\ UNCHANGED <<releases, sent, forgotten, overlapped>> /\ thread'[t].pc = "waiting"
    BY <1>7, DeleteRecordDoes DEF Waiting
  <2> QED  BY <2>1, HistoryWaits DEF StepAt
<1>8. CASE RewriteFile(t)
  <2>1. /\ j \in Jobs /\ StepAt(t, j) /\ UNCHANGED <<sent, overlapped>>
        /\ thread[t].pc = "rewrite" /\ thread'[t] = Waiting
        /\ WriteFile(j, {thread[t].rows}) /\ {thread[t].rows} \in SUBSET SUBSET Sample
        /\ IsFiniteSet(UNION {thread[t].rows}) /\ UNION {thread[t].rows} = thread[t].rows
    BY <1>8, RewriteFileDoes
  <2>2. \A r \in thread[t].rows : Known(j, r)  BY <2>1 DEF HistoryInv, KeptInv
  <2>3. thread'[t].pc = "waiting"  BY <2>1 DEF Waiting
  <2>4. Fits(t, j, thread[t].rows)  BY <2>2, <2>3 DEF Fits, Reading
  <2> QED  BY <2>1, <2>4, HistoryWritten DEF StepAt
<1> QED  BY <1>1, <1>2, <1>3, <1>4, <1>5, <1>6, <1>7, <1>8 DEF Works

LEMMA HistoryRequest ==
  ASSUME JobTypeInv, JobTypeInv', HistoryInv, NEW t \in Threads, NewRequest(t)
  PROVE  HistoryInv'
<1>1. CASE CreateJob(t)
  <2>1. UNCHANGED <<thread, releases, sent, forgotten, overlapped>>
    BY <1>1, CreateJobDoes
  <2>2. thread[t].pc = "waiting"  BY <1>1 DEF CreateJob, Waiting
  <2> QED  BY <2>1, <2>2, HistoryWaits
<1>2. CASE StartRun(t)
  <2>1. PICK j \in Jobs \ fresh :
         /\ StepAt(t, j) /\ UNCHANGED <<releases, sent, forgotten, overlapped>> /\ thread'[t].pc = "schema"
    BY <1>2, StartRunDoes
  <2> QED  BY <2>1, HistoryWaits DEF StepAt
<1>3. CASE Redispatch(t)
  <2>1. PICK j \in Jobs \ fresh :
         /\ StepAt(t, j) /\ UNCHANGED <<releases, sent, forgotten, overlapped>>
         /\ thread'[t].op = "redispatch" /\ thread'[t].pc = "send" /\ thread'[t].job = j /\ thread'[t].rows = InFile(j)
    BY <1>3, RedispatchDoes
  <2>2. LeavesHistory(t)
    BY <2>1 DEF LeavesHistory, Reading, Known, HistoryInv, KeptInv
  <2> QED  BY <2>1, <2>2, HistoryLeft DEF StepAt
<1>4. CASE DeleteArtifacts(t)
  <2>1. PICK j \in Jobs \ fresh :
         /\ StepAt(t, j) /\ UNCHANGED <<sent, overlapped>> /\ thread'[t].op = "delete" /\ thread'[t].pc = "record"
         /\ WriteFile(j, {}) /\ {} \in SUBSET SUBSET Sample /\ IsFiniteSet(UNION {}) /\ UNION {} = {}
    BY <1>4, DeleteArtifactsDoes
  <2>2. Fits(t, j, UNION {})  BY <2>1 DEF Fits, Reading
  <2> QED  BY <2>1, <2>2, HistoryWritten DEF StepAt
<1>5. CASE DeleteSample(t)
  <2>1. PICK j \in Jobs \ fresh :
         /\ StepAt(t, j) /\ UNCHANGED <<releases, sent, forgotten, overlapped>>
         /\ thread'[t].op = "delete_qa" /\ thread'[t].pc = "rewrite" /\ thread'[t].job = j
         /\ thread'[t].rows \subseteq InFile(j)
    BY <1>5, DeleteSampleDoes
  <2>2. LeavesHistory(t)
    BY <2>1 DEF LeavesHistory, Reading, Known, HistoryInv, KeptInv
  <2> QED  BY <2>1, <2>2, HistoryLeft DEF StepAt
<1> QED  BY <1>1, <1>2, <1>3, <1>4, <1>5 DEF NewRequest

LEMMA HistoryStays ==
  ASSUME JobTypeInv, JobTypeInv', HistoryInv, UNCHANGED <<releases, forgotten, sent, overlapped>>,
         thread' = [t \in Threads |-> Waiting] \/ thread' = thread
  PROVE  HistoryInv'
<1>1. CASE thread' = thread
  BY <1>1 DEF HistoryInv, OverlapInv, SeenInv, KeptInv, ApartInv, Reading, Known, Was, InFile, Clash, Repeats
<1>2. CASE thread' = [t \in Threads |-> Waiting]
  <2>1. \A t \in Threads : ~Reading(t)' /\ thread'[t].pc = "waiting"
    BY <1>2 DEF Waiting, Reading
  <2>2. OverlapInv'  BY <2>1 DEF OverlapInv
  <2>3. SeenInv'  BY <2>1 DEF SeenInv
  <2>4. KeptInv'  BY <2>1 DEF KeptInv, Known, Was, InFile, HistoryInv
  <2>5. ApartInv'  BY DEF HistoryInv, ApartInv, Was, InFile, Clash
  <2> QED  BY <2>2, <2>3, <2>4, <2>5 DEF HistoryInv
<1> QED  BY <1>1, <1>2

LEMMA HistoryNext == JobTypeInv /\ JobTypeInv' /\ SoleInv /\ HistoryInv /\ [Next]_vars => HistoryInv'
<1> SUFFICES ASSUME JobTypeInv, JobTypeInv', SoleInv, HistoryInv, [Next]_vars PROVE HistoryInv'  OBVIOUS
<1>1. CASE UNCHANGED vars  BY <1>1, HistoryStays DEF vars
<1>2. CASE Restart  BY <1>2, HistoryStays DEF Restart
<1>3. CASE \E t \in Threads : Works(t) \/ NewRequest(t)  BY <1>3, HistoryWorks, HistoryRequest
<1> QED  BY <1>1, <1>2, <1>3 DEF Next

LEMMA NothingRepeated == JobTypeInv /\ HistoryInv => NoRepeatedSample
<1> SUFFICES ASSUME JobTypeInv, HistoryInv, NEW a \in sent, NEW b \in sent,
                    a.job # b.job, Clash(a.row, b.row)
             PROVE  Excused(a, b)
  BY DEF NoRepeatedSample, Clash
<1>1. /\ a.job \in Jobs /\ b.job \in Jobs
      /\ a = [job |-> a.job, row |-> a.row] /\ b = [job |-> b.job, row |-> b.row]
  BY DEF JobTypeInv, Parcel
<1>2. Known(a.job, a.row) /\ Known(b.job, b.row)  BY DEF HistoryInv, KeptInv
<1>3. CASE a \in forgotten \/ b \in forgotten  BY <1>3 DEF Excused
<1>4. CASE a \notin forgotten /\ b \notin forgotten
  <2>1. a.row \in InFile(a.job) /\ b.row \in InFile(b.job) /\ ~Was(a.job, a.row) /\ ~Was(b.job, b.row)
    BY <1>1, <1>2, <1>4 DEF Known, Was
  <2>2. {a.job, b.job} \in overlapped  BY <1>1, <2>1 DEF HistoryInv, ApartInv
  <2> QED  BY <2>2 DEF Excused
<1> QED  BY <1>3, <1>4

\* Two jobs never send the same question or the same query - unless neither run
\* could see the other's release, or a release was taken out of the history
\* (run_job reads the history once, ReleaseHistoryStore.load_signatures).
THEOREM SamplesAreNotRepeated == Spec => []NoRepeatedSample
<1> QED
  BY JobTypeInit, JobTypeStep, SoleInit, SoleNext, HistoryInit, HistoryNext, NothingRepeated, PTL DEF Spec

-----------------------------------------------------------------------------
(* A completed job has released what it says: the files, the records and   *)
(* what the threads are about, against what was asked for.                 *)

Distinct(rows) == \A r, s \in rows : r # s => r.question # s.question /\ r.cypher # s.cypher

\* Rows that may be dispatched for j, when it has this file and this is gone from it.
Dispatched(j, rows, file, gone) == rows \subseteq file \cup gone /\ Meets(j, rows \cup gone) /\ Distinct(rows)

\* What a record of j says, and what a thread that works on j holds.
Kept(record, j, file, gone, parcels) ==
  /\ record.packaged => Meets(j, file \cup gone)
  /\ record.status = "completed" =>
       /\ Dispatched(j, record.dispatch, file, gone)
       /\ \A r \in record.dispatch : [job |-> j, row |-> r] \in parcels
Batch(h, j, file, gone, parcels) ==
  /\ h.op \in {"run", "redispatch"} /\ h.copy.packaged => Meets(j, file \cup gone)
  /\ h.pc = "write" => Meets(j, h.rows)
  /\ h.pc \in {"write", "rewrite"} => Distinct(h.rows)
  /\ h.pc = "send" =>
       /\ Dispatched(j, h.rows, file, gone)
       /\ \A r \in h.rows \ h.todo : [job |-> j, row |-> r] \in parcels

DispatchInv == \A j \in Jobs :
  /\ Distinct(InFile(j))
  /\ jobs[j] # None => Kept(jobs[j], j, InFile(j), Gone(j), sent)
  /\ \A t \in Threads : thread[t].job = j => Batch(thread[t], j, InFile(j), Gone(j), sent)

LEMMA MeetsMore ==
  ASSUME NEW j \in Jobs, NEW A, NEW B, A \subseteq B, IsFiniteSet(B), Meets(j, A)
  PROVE  Meets(j, B)
<1> SUFFICES ASSUME NEW l \in Levels PROVE Cardinality(OfLevel(B, l)) >= Target[j][l]
  BY DEF Meets
<1>1. Cardinality(OfLevel(A, l)) >= Target[j][l]  BY DEF Meets
<1>2. OfLevel(B, l) \in SUBSET B /\ OfLevel(A, l) \in SUBSET OfLevel(B, l)  BY DEF OfLevel
<1>3. IsFiniteSet(OfLevel(B, l))  BY <1>2, FS_Subset
<1>4. IsFiniteSet(OfLevel(A, l)) /\ Cardinality(OfLevel(A, l)) <= Cardinality(OfLevel(B, l))
  BY <1>2, <1>3, FS_Subset
<1>5. Cardinality(OfLevel(A, l)) \in Nat /\ Cardinality(OfLevel(B, l)) \in Nat
  BY <1>3, <1>4, FS_CardinalityType
<1>6. Target[j][l] \in Nat  BY JobAssumption
<1> QED  BY <1>1, <1>4, <1>5, <1>6

\* What is gone from j is a finite set, of the rows that were there.
LEMMA GoneFrom ==
  ASSUME NEW F, IsFiniteSet(F), NEW j
  PROVE  /\ IsFiniteSet({r \in {f.row : f \in F} : [job |-> j, row |-> r] \in F})
         /\ \A r : r \in {q \in {f.row : f \in F} : [job |-> j, row |-> q] \in F} <=> [job |-> j, row |-> r] \in F
<1> DEFINE rows == {f.row : f \in F}
           g == [f \in F |-> f.row]
<1>1. g \in Surjection(F, rows)  BY DEF Surjection
<1>2. IsFiniteSet(rows)  BY <1>1, FS_Surjection
<1>3. {r \in rows : [job |-> j, row |-> r] \in F} \in SUBSET rows  OBVIOUS
<1>4. IsFiniteSet({r \in rows : [job |-> j, row |-> r] \in F})  BY <1>2, <1>3, FS_Subset
<1>5. ASSUME NEW r, [job |-> j, row |-> r] \in F PROVE r \in rows
  <2>1. [job |-> j, row |-> r].row = r  OBVIOUS
  <2> QED  BY <1>5, <2>1
<1> QED  BY <1>4, <1>5

\* Nothing that is said becomes false when more is gone, or sent, and nothing is lost.
LEMMA DispatchGrows ==
  ASSUME NEW j \in Jobs, NEW file, NEW gone, NEW parcels, NEW file2, NEW gone2, NEW parcels2,
         IsFiniteSet(file2 \cup gone2), file \subseteq file2 \cup gone2, gone \subseteq gone2,
         parcels \subseteq parcels2
  PROVE  /\ \A rows : Dispatched(j, rows, file, gone) => Dispatched(j, rows, file2, gone2)
         /\ \A record : Kept(record, j, file, gone, parcels) => Kept(record, j, file2, gone2, parcels2)
         /\ \A h : Batch(h, j, file, gone, parcels) => Batch(h, j, file2, gone2, parcels2)
<1>1. Meets(j, file \cup gone) => Meets(j, file2 \cup gone2)
  BY MeetsMore
<1>2. ASSUME NEW rows, Dispatched(j, rows, file, gone) PROVE Dispatched(j, rows, file2, gone2)
  <2>1. rows \subseteq file2 \cup gone2 /\ rows \cup gone \subseteq rows \cup gone2
        /\ rows \cup gone2 \in SUBSET (file2 \cup gone2)
    BY <1>2 DEF Dispatched
  <2>2. IsFiniteSet(rows \cup gone2)  BY <2>1, FS_Subset
  <2>3. Meets(j, rows \cup gone2)  BY <1>2, <2>1, <2>2, MeetsMore DEF Dispatched
  <2> QED  BY <1>2, <2>1, <2>3 DEF Dispatched
<1>3. \A record : Kept(record, j, file, gone, parcels) => Kept(record, j, file2, gone2, parcels2)
  BY <1>1, <1>2 DEF Kept
<1>4. \A h : Batch(h, j, file, gone, parcels) => Batch(h, j, file2, gone2, parcels2)
  BY <1>1, <1>2 DEF Batch
<1> QED  BY <1>2, <1>3, <1>4

\* Of the queries that are worded alike no two keep the text or get the same number.
LEMMA BatchIsDistinct ==
  ASSUME NEW j, NEW pool \in SUBSET Cyphers, NEW seen, NEW rows \in Releases(j, pool, seen)
  PROVE  Distinct(rows)
<1>1. PICK Q \in SUBSET {c \in pool : \A s \in seen : s.cypher # c} : \E w \in Wordings(Q) :
        rows \in Selections(j, {r \in Worded(w) : ~Repeats(r, seen)})
  BY DEF Releases
<1>2. PICK w \in Wordings(Q) : rows \in Selections(j, {r \in Worded(w) : ~Repeats(r, seen)})
  BY <1>1
<1>3. rows \subseteq Worded(w)  BY <1>2 DEF Selections
<1>4. Q \in SUBSET Cyphers /\ IsFiniteSet(Q) /\ Cardinality(Q) \in Nat
  BY <1>1, JobAssumption, FS_Subset, FS_CardinalityType
<1>5. w \in [Q -> [text: Texts, nth: 1..Cardinality(Q)]]  BY DEF Wordings
<1> DEFINE lvl(c) == IF w[c].nth > 1 THEN LevelOf[c] ELSE None
           question(c) == [text |-> w[c].text, nth |-> w[c].nth, level |-> lvl(c)]
           row(c) == [cypher |-> c, question |-> question(c)]
<1>6. Worded(w) = {row(c) : c \in Q}  BY <1>5 DEF Worded
<1>7. ASSUME NEW c \in Q, NEW d \in Q, c # d PROVE question(c) # question(d)
  <2> SUFFICES ASSUME w[c].text = w[d].text, w[c].nth = w[d].nth, lvl(c) = lvl(d) PROVE FALSE
    OBVIOUS
  <2> DEFINE same == {e \in Q : w[e].text = w[c].text}
             keeps == {e \in same : w[e].nth = 1}
             peers == {e \in same : w[e].nth > 1 /\ LevelOf[e] = LevelOf[c]}
  <2>1. /\ Cardinality(keeps) = 1
        /\ w[c].nth > 1 => \A e \in peers \ {c} : w[e].nth # w[c].nth
    BY DEF Wordings
  <2>2. w[c].nth \in 1..Cardinality(Q)  BY <1>5
  <2>3. CASE w[c].nth = 1
    <3>1. keeps \in SUBSET Q  OBVIOUS
    <3>2. IsFiniteSet(keeps)  BY <1>4, <3>1, FS_Subset
    <3>3. c \in keeps /\ d \in keeps  BY <2>3, <1>7
    <3> HIDE DEF keeps
    <3>4. PICK x : keeps = {x}  BY <2>1, <3>2, FS_Singleton
    <3> QED  BY <1>7, <3>3, <3>4
  <2>4. CASE w[c].nth > 1
    <3>1. LevelOf[c] = LevelOf[d]  BY <2>4
    <3>2. d \in peers \ {c}  BY <1>7, <2>4, <3>1
    <3> QED  BY <2>1, <2>4, <3>2
  <2> QED  BY <1>4, <2>2, <2>3, <2>4
<1> HIDE DEF question
<1>8. \A c, d \in Q : row(c) # row(d) => c # d /\ row(c).question # row(d).question /\ row(c).cypher # row(d).cypher
  BY <1>7
<1> QED  BY <1>3, <1>6, <1>8 DEF Distinct

\* What holds of the records and the threads still holds once a step has been made,
\* in the files that it leaves.
HoldsThen ==
  /\ \A j \in Jobs : jobs[j] # None => Kept(jobs[j], j, InFile(j)', Gone(j)', sent')
  /\ \A j \in Jobs, t \in Threads : thread[t].job = j => Batch(thread[t], j, InFile(j)', Gone(j)', sent')

LEMMA DispatchHolds ==
  ASSUME JobTypeInv, JobTypeInv', DispatchInv, sent \subseteq sent',
         \A k \in Jobs : \A r : (Was(k, r) => Was(k, r)') /\ (Known(k, r) => Known(k, r)')
  PROVE  /\ HoldsThen
         /\ \A j \in Jobs : /\ IsFiniteSet(InFile(j)' \cup Gone(j)')
                            /\ \A rows : Dispatched(j, rows, InFile(j), Gone(j)) =>
                                          Dispatched(j, rows, InFile(j)', Gone(j)')
<1> SUFFICES ASSUME NEW j \in Jobs
             PROVE  /\ jobs[j] # None => Kept(jobs[j], j, InFile(j)', Gone(j)', sent')
                    /\ \A t \in Threads : thread[t].job = j => Batch(thread[t], j, InFile(j)', Gone(j)', sent')
                    /\ IsFiniteSet(InFile(j)' \cup Gone(j)')
                    /\ \A rows : Dispatched(j, rows, InFile(j), Gone(j)) =>
                                  Dispatched(j, rows, InFile(j)', Gone(j)')
  BY DEF HoldsThen
<1>1. \A r : r \in Gone(j) <=> Was(j, r)
  <2>1. IsFiniteSet(forgotten)  BY DEF JobTypeInv
  <2> QED  BY <2>1, GoneFrom DEF Gone, Was
<1>2. IsFiniteSet(Gone(j)') /\ \A r : r \in Gone(j)' <=> Was(j, r)'
  <2>1. IsFiniteSet(forgotten')  BY DEF JobTypeInv
  <2> QED  BY <2>1, GoneFrom DEF Gone, Was
<1>3. IsFiniteSet(InFile(j)') /\ IsFiniteSet(Gone(j)')  BY <1>2 DEF JobTypeInv
<1>4. Gone(j) \subseteq Gone(j)'
  BY <1>1, <1>2
<1>5. InFile(j) \subseteq InFile(j)' \cup Gone(j)'
  BY <1>2 DEF Known
<1>6. IsFiniteSet(InFile(j)' \cup Gone(j)')  BY <1>3, FS_Union
<1> DEFINE file == InFile(j)
           gone == Gone(j)
           parcels == sent
           file2 == InFile(j)'
           gone2 == Gone(j)'
           parcels2 == sent'
<1>7. IsFiniteSet(file2 \cup gone2) /\ file \subseteq file2 \cup gone2 /\ gone \subseteq gone2 /\ parcels \subseteq parcels2
  BY <1>4, <1>5, <1>6
<1>8. jobs[j] # None => Kept(jobs[j], j, file, gone, parcels)  BY DEF DispatchInv
<1>9. \A t \in Threads : thread[t].job = j => Batch(thread[t], j, file, gone, parcels)  BY DEF DispatchInv
<1> HIDE DEF file, gone, parcels, file2, gone2, parcels2
<1>10. /\ \A rows : Dispatched(j, rows, file, gone) => Dispatched(j, rows, file2, gone2)
       /\ \A record : Kept(record, j, file, gone, parcels) => Kept(record, j, file2, gone2, parcels2)
       /\ \A h : Batch(h, j, file, gone, parcels) => Batch(h, j, file2, gone2, parcels2)
  BY <1>7, DispatchGrows
<1>11. jobs[j] # None => Kept(jobs[j], j, file2, gone2, parcels2)  BY <1>8, <1>10
<1>12. \A t \in Threads : thread[t].job = j => Batch(thread[t], j, file2, gone2, parcels2)  BY <1>9, <1>10
<1> QED  BY <1>6, <1>10, <1>11, <1>12 DEF file, gone, file2, gone2, parcels2

\* A step about j: it is enough to look at the record and the file of j and at the
\* thread that steps.
LEMMA DispatchStep ==
  ASSUME JobTypeInv, DispatchInv, HoldsThen, NEW t \in Threads, NEW j \in Jobs, StepAt(t, j),
         Distinct(InFile(j)'),
         jobs'[j] # None => Kept(jobs'[j], j, InFile(j)', Gone(j)', sent'),
         thread'[t].job = j => Batch(thread'[t], j, InFile(j)', Gone(j)', sent')
  PROVE  DispatchInv'
<1> SUFFICES ASSUME NEW k \in Jobs
             PROVE  /\ Distinct(InFile(k)')
                    /\ jobs'[k] # None => Kept(jobs'[k], k, InFile(k)', Gone(k)', sent')
                    /\ \A u \in Threads : thread'[u].job = k => Batch(thread'[u], k, InFile(k)', Gone(k)', sent')
  BY DEF DispatchInv, Distinct, Kept, Batch, Dispatched, Meets, OfLevel
<1>1. CASE k = j
  BY <1>1 DEF HoldsThen, StepAt
<1>2. CASE k # j
  <2>1. jobs'[k] = jobs[k] /\ releases'[k] = releases[k] /\ thread'[t].job # k
    BY <1>2, JobAssumption DEF StepAt
  <2>2. Distinct(InFile(k)')  BY <2>1 DEF DispatchInv, InFile
  <2> QED  BY <2>1, <2>2 DEF HoldsThen, StepAt
<1> QED  BY <1>1, <1>2

LEMMA DispatchInit == Init => DispatchInv
<1> SUFFICES ASSUME Init, NEW j \in Jobs
             PROVE  InFile(j) = {} /\ jobs[j] = None /\ \A t \in Threads : thread[t].job # j
  BY DEF DispatchInv, Distinct
<1>1. jobs[j] = None /\ releases[j] = {} /\ \A t \in Threads : thread[t].job # j
  BY WaitingFits, JobAssumption DEF Init
<1> QED  BY <1>1 DEF InFile

\* The steps of a run, or of another request, that write no file.
LEMMA DispatchLeft ==
  ASSUME JobTypeInv, JobTypeInv', DispatchInv, NEW t \in Threads, NEW j \in Jobs, StepAt(t, j),
         UNCHANGED <<releases, forgotten>>, sent \subseteq sent',
         HoldsThen => (jobs'[j] # None => Kept(jobs'[j], j, InFile(j)', Gone(j)', sent')),
         HoldsThen => (thread'[t].job = j => Batch(thread'[t], j, InFile(j)', Gone(j)', sent'))
  PROVE  DispatchInv'
<1>1. \A k \in Jobs : InFile(k)' = InFile(k) /\ \A r : (Was(k, r) => Was(k, r)') /\ (Known(k, r) => Known(k, r)')
  BY KnownStays
<1>2. HoldsThen  BY <1>1, DispatchHolds
<1>3. InFile(j)' = InFile(j) /\ Distinct(InFile(j))  BY <1>1 DEF DispatchInv
<1> QED  BY <1>2, <1>3, DispatchStep

LEMMA DispatchWorks ==
  ASSUME JobTypeInv, JobTypeInv', SoleInv, DispatchInv, NEW t \in Threads, Works(t)
  PROVE  DispatchInv'
<1> SUFFICES ASSUME NEW j, j = thread[t].job PROVE DispatchInv'
  OBVIOUS
<1>1. CASE ReadHistory(t)
  <2>1. /\ j \in Jobs /\ StepAt(t, j) /\ UNCHANGED <<releases, sent, forgotten>>
        /\ thread[t].op = "run" /\ thread'[t].op = "run" /\ thread'[t].pc = "attempt"
        /\ thread'[t].copy = thread[t].copy /\ jobs'[j] = thread[t].copy
    BY <1>1, ReadHistoryDoes
  <2>2. thread[t].copy.status = "running"  BY <2>1, ThreadFits DEF JobFits
  <2>3. HoldsThen => Kept(jobs'[j], j, InFile(j)', Gone(j)', sent')
    BY <2>1, <2>2 DEF HoldsThen, Batch, Kept
  <2>4. HoldsThen => Batch(thread'[t], j, InFile(j)', Gone(j)', sent')
    BY <2>1 DEF HoldsThen, Batch
  <2> QED  BY <2>1, <2>3, <2>4, DispatchLeft
<1>2. CASE Attempt(t)
  <2>1. /\ j \in Jobs /\ StepAt(t, j) /\ UNCHANGED <<releases, sent, forgotten>>
        /\ thread[t].op = "run" /\ thread'[t].op = "run" /\ thread'[t].pc \in {"attempt", "write"}
        /\ thread'[t].copy = thread[t].copy /\ jobs'[j] = thread[t].copy
    BY <1>2, AttemptDoes
  <2>2. thread[t].copy.status = "running"  BY <2>1, ThreadFits DEF JobFits
  <2>3. thread'[t].pc = "write" =>
          /\ Meets(j, thread'[t].rows)
          /\ \E pool \in SUBSET Cyphers : thread'[t].rows \in Releases(j, pool, thread[t].seen)
    BY <1>2, AttemptDoes
  <2>4. thread'[t].pc = "write" => Distinct(thread'[t].rows)  BY <2>3, BatchIsDistinct
  <2>5. HoldsThen => Kept(jobs'[j], j, InFile(j)', Gone(j)', sent')
    BY <2>1, <2>2 DEF HoldsThen, Batch, Kept
  <2>6. HoldsThen => Batch(thread'[t], j, InFile(j)', Gone(j)', sent')
    BY <2>1, <2>3, <2>4 DEF HoldsThen, Batch
  <2> QED  BY <2>1, <2>5, <2>6, DispatchLeft
<1>3. CASE StageFails(t)
  <2>1. /\ j \in Jobs /\ StepAt(t, j) /\ UNCHANGED <<releases, sent, forgotten>> /\ thread[t].op = "run"
        /\ thread'[t] = Waiting /\ jobs'[j].status = "failed" /\ jobs'[j].packaged = thread[t].copy.packaged
    BY <1>3, StageFailsDoes
  <2>2. HoldsThen => Kept(jobs'[j], j, InFile(j)', Gone(j)', sent')
    BY <2>1 DEF HoldsThen, Batch, Kept
  <2> QED  BY <2>1, <2>2, WaitingFits, JobAssumption, DispatchLeft
<1>4. CASE WriteReleases(t)
  <2>1. /\ j \in Jobs /\ StepAt(t, j) /\ UNCHANGED sent /\ thread[t].pc = "write"
        /\ thread'[t].op = "run" /\ thread'[t].pc = "send" /\ thread'[t].copy.status = thread[t].copy.status
        /\ thread'[t].rows = thread[t].rows /\ thread'[t].todo = thread[t].rows
        /\ jobs'[j] = thread'[t].copy
        /\ WriteFile(j, {thread[t].rows}) /\ {thread[t].rows} \in SUBSET SUBSET Sample
        /\ IsFiniteSet(UNION {thread[t].rows}) /\ UNION {thread[t].rows} = thread[t].rows
    BY <1>4, WriteReleasesDoes
  <2>2. thread[t].copy.status = "running"  BY <2>1, ThreadFits DEF JobFits
  <2>3. InFile(j)' = thread[t].rows  BY <2>1, FileWritten
  <2>4. \A k \in Jobs : \A r : (Was(k, r) => Was(k, r)') /\ (Known(k, r) => Known(k, r)')
    BY <2>1, KnownGrows
  <2>5. HoldsThen /\ IsFiniteSet(InFile(j)' \cup Gone(j)')  BY <2>1, <2>4, DispatchHolds
  <2>6. Meets(j, thread[t].rows) /\ Distinct(thread[t].rows)  BY <2>1 DEF DispatchInv, Batch
  <2>7. Meets(j, InFile(j)' \cup Gone(j)')  BY <2>1, <2>3, <2>5, <2>6, MeetsMore
  <2>8. Kept(jobs'[j], j, InFile(j)', Gone(j)', sent')
    BY <2>1, <2>2, <2>7 DEF Kept
  <2>9. Batch(thread'[t], j, InFile(j)', Gone(j)', sent')
    BY <2>1, <2>3, <2>6, <2>7 DEF Batch, Dispatched
  <2> QED  BY <2>1, <2>3, <2>5, <2>6, <2>8, <2>9, DispatchStep
<1>5. CASE SendSample(t)
  <2>1. /\ j \in Jobs /\ StepAt(t, j) /\ UNCHANGED <<jobs, releases, forgotten>> /\ thread[t].pc = "send"
        /\ thread'[t].op = thread[t].op /\ thread'[t].pc = "send"
        /\ thread'[t].copy = thread[t].copy /\ thread'[t].rows = thread[t].rows
    BY <1>5, SendSampleDoes
  <2>2. PICK r \in thread[t].todo :
          sent' = sent \cup {[job |-> j, row |-> r]} /\ thread'[t].todo = thread[t].todo \ {r}
    BY <1>5, SendSampleDoes
  <2>3. HoldsThen => (jobs'[j] # None => Kept(jobs'[j], j, InFile(j)', Gone(j)', sent'))
    BY <2>1 DEF HoldsThen
  <2>4. HoldsThen => Batch(thread'[t], j, InFile(j)', Gone(j)', sent')
    BY <2>1, <2>2 DEF HoldsThen, Batch
  <2>5. sent \subseteq sent'  BY <2>2
  <2> QED  BY <2>1, <2>3, <2>4, <2>5, DispatchLeft
<1>6. CASE SaveDispatch(t)
  <2>1. /\ j \in Jobs /\ StepAt(t, j) /\ UNCHANGED <<releases, sent, forgotten>>
        /\ thread[t].pc = "send" /\ thread[t].op \in {"run", "redispatch"} /\ thread[t].todo = {} /\ thread'[t] = Waiting
        /\ jobs'[j].dispatch = thread[t].rows /\ jobs'[j].packaged = thread[t].copy.packaged
    BY <1>6, SaveDispatchDoes
  <2>2. HoldsThen => Kept(jobs'[j], j, InFile(j)', Gone(j)', sent')
    BY <2>1 DEF HoldsThen, Batch, Kept
  <2> QED  BY <2>1, <2>2, WaitingFits, JobAssumption, DispatchLeft
<1>7. CASE DeleteRecord(t)
  <2>1. /\ j \in Jobs /\ StepAt(t, j) /\ UNCHANGED <<releases, sent, forgotten>> /\ thread'[t] = Waiting
        /\ jobs'[j] = None
    BY <1>7, DeleteRecordDoes
  <2> QED  BY <2>1, WaitingFits, JobAssumption, DispatchLeft
<1>8. CASE RewriteFile(t)
  <2>1. /\ j \in Jobs /\ StepAt(t, j) /\ UNCHANGED <<jobs, sent>> /\ thread[t].pc = "rewrite" /\ thread'[t] = Waiting
        /\ WriteFile(j, {thread[t].rows}) /\ {thread[t].rows} \in SUBSET SUBSET Sample
        /\ IsFiniteSet(UNION {thread[t].rows}) /\ UNION {thread[t].rows} = thread[t].rows
    BY <1>8, RewriteFileDoes
  <2>2. InFile(j)' = thread[t].rows  BY <2>1, FileWritten
  <2>3. \A k \in Jobs : \A r : (Was(k, r) => Was(k, r)') /\ (Known(k, r) => Known(k, r)')
    BY <2>1, KnownGrows
  <2>4. HoldsThen  BY <2>1, <2>3, DispatchHolds
  <2>5. Distinct(thread[t].rows)  BY <2>1 DEF DispatchInv, Batch
  <2>6. jobs'[j] # None => Kept(jobs'[j], j, InFile(j)', Gone(j)', sent')
    BY <2>1, <2>4 DEF HoldsThen
  <2> QED  BY <2>1, <2>2, <2>4, <2>5, <2>6, WaitingFits, JobAssumption, DispatchStep
<1> QED  BY <1>1, <1>2, <1>3, <1>4, <1>5, <1>6, <1>7, <1>8 DEF Works

LEMMA DispatchRequest ==
  ASSUME JobTypeInv, JobTypeInv', SoleInv, DispatchInv, NEW t \in Threads, NewRequest(t)
  PROVE  DispatchInv'
<1>1. CASE CreateJob(t)
  <2>1. PICK j \in Jobs :
         /\ StepAt(t, j) /\ UNCHANGED <<thread, releases, sent, forgotten>> /\ thread[t].job = None
         /\ jobs'[j] = [status |-> "created", packaged |-> FALSE, dispatch |-> {}]
    BY <1>1, CreateJobDoes
  <2>2. Kept(jobs'[j], j, InFile(j)', Gone(j)', sent')  BY <2>1 DEF Kept
  <2>3. thread'[t].job # j  BY <2>1, JobAssumption
  <2> QED  BY <2>1, <2>2, <2>3, DispatchLeft
<1>2. CASE StartRun(t)
  <2>1. PICK j \in Jobs \ fresh :
         /\ StepAt(t, j) /\ UNCHANGED <<releases, sent, forgotten>>
         /\ jobs[j] \in Record /\ thread'[t].op = "run" /\ thread'[t].pc = "schema"
         /\ thread'[t].copy.status = "running"
         /\ thread'[t].copy.packaged = jobs[j].packaged /\ jobs'[j] = thread'[t].copy
    BY <1>2, StartRunDoes
  <2>2. HoldsThen => Kept(jobs'[j], j, InFile(j)', Gone(j)', sent')
    BY <2>1, JobAssumption DEF HoldsThen, Kept
  <2>3. HoldsThen => Batch(thread'[t], j, InFile(j)', Gone(j)', sent')
    BY <2>1, JobAssumption DEF HoldsThen, Kept, Batch
  <2> QED  BY <2>1, <2>2, <2>3, DispatchLeft
<1>3. CASE Redispatch(t)
  <2>1. PICK j \in Jobs \ fresh :
         /\ StepAt(t, j) /\ UNCHANGED <<jobs, releases, sent, forgotten>>
         /\ jobs[j] \in Record /\ jobs[j].packaged
         /\ thread'[t].op = "redispatch" /\ thread'[t].pc = "send"
         /\ thread'[t].copy = jobs[j] /\ thread'[t].rows = InFile(j) /\ thread'[t].todo = InFile(j)
    BY <1>3, RedispatchDoes
  <2>2. HoldsThen => Kept(jobs'[j], j, InFile(j)', Gone(j)', sent')
    BY <2>1, JobAssumption DEF HoldsThen
  <2>3. InFile(j)' = InFile(j) /\ Distinct(InFile(j))
    BY <2>1, KnownStays DEF DispatchInv
  <2>4. HoldsThen => Batch(thread'[t], j, InFile(j)', Gone(j)', sent')
    <3>1. HoldsThen => Meets(j, InFile(j)' \cup Gone(j)')  BY <2>1, <2>2 DEF Kept
    <3>2. InFile(j)' \subseteq InFile(j)' \cup Gone(j)'  OBVIOUS
    <3>3. thread'[t].rows = InFile(j)' /\ thread'[t].rows \ thread'[t].todo = {}  BY <2>1, <2>3
    <3> QED  BY <2>1, <2>3, <3>1, <3>2, <3>3 DEF Batch, Dispatched
  <2> QED  BY <2>1, <2>2, <2>4, DispatchLeft
<1>4. CASE DeleteArtifacts(t)
  <2>1. PICK j \in Jobs \ fresh :
         /\ StepAt(t, j) /\ UNCHANGED <<jobs, sent>> /\ thread'[t].op = "delete" /\ thread'[t].pc = "record"
         /\ WriteFile(j, {}) /\ {} \in SUBSET SUBSET Sample /\ IsFiniteSet(UNION {}) /\ UNION {} = {}
    BY <1>4, DeleteArtifactsDoes
  <2>2. InFile(j)' = {}  BY <2>1, FileWritten
  <2>3. \A k \in Jobs : \A r : (Was(k, r) => Was(k, r)') /\ (Known(k, r) => Known(k, r)')
    BY <2>1, KnownGrows
  <2>4. HoldsThen  BY <2>1, <2>3, DispatchHolds
  <2>5. jobs'[j] # None => Kept(jobs'[j], j, InFile(j)', Gone(j)', sent')
    BY <2>1, <2>4 DEF HoldsThen
  <2>6. Batch(thread'[t], j, InFile(j)', Gone(j)', sent')  BY <2>1 DEF Batch
  <2>7. Distinct(InFile(j)')  BY <2>2 DEF Distinct
  <2> QED  BY <2>1, <2>4, <2>5, <2>6, <2>7, DispatchStep
<1>5. CASE DeleteSample(t)
  <2>1. PICK j \in Jobs \ fresh :
         /\ StepAt(t, j) /\ UNCHANGED <<jobs, releases, sent, forgotten>>
         /\ thread'[t].op = "delete_qa" /\ thread'[t].pc = "rewrite" /\ thread'[t].rows \subseteq InFile(j)
    BY <1>5, DeleteSampleDoes
  <2>2. HoldsThen => (jobs'[j] # None => Kept(jobs'[j], j, InFile(j)', Gone(j)', sent'))
    BY <2>1 DEF HoldsThen
  <2>3. Distinct(thread'[t].rows)  BY <2>1 DEF DispatchInv, Distinct
  <2>4. Batch(thread'[t], j, InFile(j)', Gone(j)', sent')  BY <2>1, <2>3 DEF Batch
  <2> QED  BY <2>1, <2>2, <2>4, DispatchLeft
<1> QED  BY <1>1, <1>2, <1>3, <1>4, <1>5 DEF NewRequest

LEMMA DispatchStays ==
  ASSUME DispatchInv, UNCHANGED <<jobs, releases, sent, forgotten>>,
         thread' = [t \in Threads |-> Waiting] \/ thread' = thread
  PROVE  DispatchInv'
<1> SUFFICES ASSUME NEW j \in Jobs
             PROVE  /\ Distinct(InFile(j)')
                    /\ jobs'[j] # None => Kept(jobs'[j], j, InFile(j)', Gone(j)', sent')
                    /\ \A t \in Threads : thread'[t].job = j => Batch(thread'[t], j, InFile(j)', Gone(j)', sent')
  BY DEF DispatchInv, Distinct, Kept, Batch, Dispatched, Meets, OfLevel
<1>1. InFile(j)' = InFile(j) /\ Gone(j)' = Gone(j)  BY DEF InFile, Gone
<1>2. \A t \in Threads : thread'[t] = thread[t] \/ thread'[t].job # j
  BY WaitingFits, JobAssumption
<1> QED  BY <1>1, <1>2 DEF DispatchInv

LEMMA DispatchNext ==
  JobTypeInv /\ JobTypeInv' /\ SoleInv /\ DispatchInv /\ [Next]_vars => DispatchInv'
<1> SUFFICES ASSUME JobTypeInv, JobTypeInv', SoleInv, DispatchInv, [Next]_vars PROVE DispatchInv'
  OBVIOUS
<1>1. CASE UNCHANGED vars  BY <1>1, DispatchStays DEF vars
<1>2. CASE Restart  BY <1>2, DispatchStays DEF Restart
<1>3. CASE \E t \in Threads : Works(t) \/ NewRequest(t)  BY <1>3, DispatchWorks, DispatchRequest
<1> QED  BY <1>1, <1>2, <1>3 DEF Next

LEMMA CompletedReleased == DispatchInv => CompletedIsReleased
BY DEF DispatchInv, Kept, Dispatched, Distinct, CompletedIsReleased

\* What a completed job says it dispatched was sent, is in its releases or was
\* taken out of them, is as much of every difficulty as was asked for, and asks
\* nothing twice - whoever else worked on the job (run_job and redispatch_job,
\* against delete_job and SingleQARedispatchService.delete).
THEOREM CompletedJobsReleased == Spec => []CompletedIsReleased
<1> QED
  BY JobTypeInit, JobTypeStep, SoleInit, SoleNext, DispatchInit, DispatchNext,
     CompletedReleased, PTL DEF Spec
=============================================================================
