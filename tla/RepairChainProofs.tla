-------------------------- MODULE RepairChainProofs --------------------------
(***************************************************************************)
(* Theorems about the knowledge-agent (KnowledgeAgent) and about the chain *)
(* of the repair-agent in front of it (RepairChain), for every value of    *)
(* their constants.  The first part is about the knowledge-agent alone,    *)
(* and its Spec; the second is about the chain, whose steps are those of   *)
(* the first, or leave its state as it is.                                 *)
(***************************************************************************)
EXTENDS RepairChain, FiniteSetTheorems, SequenceTheorems, WellFoundedInduction, TLAPS

-----------------------------------------------------------------------------
(* Natural numbers: the last step of an argument by induction is that what *)
(* fails somewhere fails somewhere first.                                  *)

LEMMA LeastElement ==
  ASSUME NEW T \in SUBSET Nat, T # {}
  PROVE  \E x \in T : \A y \in T : x <= y
<1>1. IsWellFoundedOn({ss \in Nat \X Nat : ss[1] < ss[2]}, Nat)
  BY NatLessThanWellFounded DEF OpToRel
<1>2. PICK x \in T : \A y \in T : ~(<<y, x>> \in {ss \in Nat \X Nat : ss[1] < ss[2]})
  BY <1>1, WFMin
<1>3. ASSUME NEW y \in T PROVE x <= y
  <2>1. ASSUME y < x PROVE <<y, x>> \in {ss \in Nat \X Nat : ss[1] < ss[2]}
    <3>1. <<y, x>> \in Nat \X Nat /\ <<y, x>>[1] = y /\ <<y, x>>[2] = x
      OBVIOUS
    <3> QED BY <2>1, <3>1
  <2>2. x \in Nat /\ y \in Nat
    OBVIOUS
  <2> QED BY <1>2, <2>1, <2>2
<1> QED BY <1>3

-----------------------------------------------------------------------------
(* Texts.                                                                  *)

LEMMA AppendToText ==
  ASSUME NEW S, NEW s \in Seq(S), NEW e \in S
  PROVE  /\ Append(s, e) \in Seq(S)
         /\ Len(Append(s, e)) = Len(s) + 1
         /\ DOMAIN Append(s, e) = DOMAIN s \cup {Len(s) + 1}
         /\ \A i \in DOMAIN s : Append(s, e)[i] = s[i]
         /\ Append(s, e)[Len(s) + 1] = e
OBVIOUS

LEMMA ReplaceInText ==
  ASSUME NEW S, NEW s \in Seq(S), NEW n \in DOMAIN s, NEW e \in S
  PROVE  /\ [s EXCEPT ![n] = e] \in Seq(S)
         /\ Len([s EXCEPT ![n] = e]) = Len(s)
         /\ DOMAIN [s EXCEPT ![n] = e] = DOMAIN s
OBVIOUS

LEMMA RemoveFromText ==
  ASSUME NEW S, NEW s \in Seq(S), NEW n \in DOMAIN s
  PROVE  /\ RemoveAt(s, n) \in Seq(S)
         /\ Len(RemoveAt(s, n)) = Len(s) - 1
         /\ \A k \in DOMAIN RemoveAt(s, n) : RemoveAt(s, n)[k] = IF k < n THEN s[k] ELSE s[k + 1]
<1> DEFINE a == SubSeq(s, 1, n - 1)
           b == SubSeq(s, n + 1, Len(s))
<1>1. n \in 1..Len(s) /\ Len(s) \in Nat
  OBVIOUS
<1>2. a \in Seq(S) /\ Len(a) = n - 1 /\ \A k \in 1..(n - 1) : a[k] = s[k]
  BY <1>1
<1>3. b \in Seq(S) /\ Len(b) = Len(s) - n /\ \A k \in 1..(Len(s) - n) : b[k] = s[n + k]
  BY <1>1
<1>4. RemoveAt(s, n) = a \o b
  BY DEF RemoveAt
<1> HIDE DEF a, b
<1>5. a \o b \in Seq(S) /\ Len(a \o b) = Len(s) - 1
  BY <1>1, <1>2, <1>3
<1>6. ASSUME NEW k \in 1..(Len(s) - 1)
      PROVE  (a \o b)[k] = IF k < n THEN s[k] ELSE s[k + 1]
  <2>1. (a \o b)[k] = IF k <= Len(a) THEN a[k] ELSE b[k - Len(a)]
    BY <1>1, <1>2, <1>3, <1>5, ConcatProperties
  <2>2. CASE k < n
    BY <1>1, <1>2, <2>1, <2>2
  <2>3. CASE ~(k < n)
    <3>1. PICK j \in 1..(Len(s) - n) : j = k - n + 1
      BY <1>1, <2>3
    <3>2. ~(k <= Len(a)) /\ k - Len(a) = j /\ n + j = k + 1
      BY <1>1, <1>2, <2>3, <3>1
    <3>3. (a \o b)[k] = b[j] /\ b[j] = s[n + j]
      BY <1>3, <2>1, <3>2
    <3> QED BY <2>3, <3>2, <3>3
  <2> QED BY <2>2, <2>3
<1>7. DOMAIN (a \o b) = 1..(Len(s) - 1)
  BY <1>5
<1> QED BY <1>4, <1>5, <1>6, <1>7

\* The startup leaves a text of blocks.
LEMMA SoundText ==
  ASSUME NEW S, NEW text \in Seq(S)
  PROVE  Sound(text) \in Seq(S)
<1> DEFINE Body(g, n) == IF n = 0 THEN << >>
                         ELSE IF text[n].content \in Invalid THEN g[n - 1] ELSE Append(g[n - 1], text[n])
           Solves(g, m) == g \in [0..m -> Seq(S)] /\ \A n \in 0..m : g[n] = Body(g, n)
           T == {m \in Nat : m <= Len(text) /\ ~\E g : Solves(g, m)}
<1>1. Len(text) \in Nat /\ \A n \in 1..Len(text) : text[n] \in S
  OBVIOUS
<1>2. ASSUME NEW m \in Nat, m <= Len(text), NEW g, Solves(g, m), m + 1 <= Len(text)
      PROVE  \E h : Solves(h, m + 1)
  <2> DEFINE last == IF text[m + 1].content \in Invalid THEN g[m] ELSE Append(g[m], text[m + 1])
             h == [n \in 0..(m + 1) |-> IF n = m + 1 THEN last ELSE g[n]]
  <2>1. m + 1 \in 1..Len(text) /\ g[m] \in Seq(S)
    BY <1>1, <1>2
  <2>2. last \in Seq(S)
    BY <2>1, <1>1
  <2>3. h \in [0..(m + 1) -> Seq(S)]
    BY <1>2, <2>2
  <2>4. ASSUME NEW n \in 0..(m + 1) PROVE h[n] = Body(h, n)
    <3>1. CASE n = m + 1
      BY <3>1
    <3>2. CASE n # m + 1
      <4>1. n \in 0..m /\ h[n] = g[n] /\ g[n] = Body(g, n)
        <5>1. n \in 0..m /\ h[n] = g[n]
          BY <1>2, <3>2
        <5> QED BY <1>2, <5>1
      <4>2. n # 0 => n - 1 \in 0..(m + 1) /\ n - 1 # m + 1
        BY <4>1
      <4>3. n # 0 => h[n - 1] = g[n - 1]
        BY <4>2
      <4>4. CASE n = 0
        BY <4>1, <4>4
      <4>5. CASE n # 0
        <5> HIDE DEF h
        <5> QED BY <4>1, <4>3, <4>5
      <4> QED BY <4>4, <4>5
    <3> QED BY <3>1, <3>2
  <2> HIDE DEF h, last
  <2> QED BY <2>3, <2>4
<1>3. Solves([n \in 0..0 |-> << >>], 0)
  OBVIOUS
<1>4. ASSUME NEW m \in T, \A k \in T : m <= k PROVE FALSE
  <2> HIDE DEF Solves
  <2>1. m \in Nat /\ m <= Len(text) /\ ~\E g : Solves(g, m)
    BY <1>4
  <2>2. m # 0
    BY <1>3, <2>1
  <2>3. m - 1 \in Nat /\ m - 1 <= Len(text) /\ (m - 1) + 1 = m /\ ~(m <= m - 1)
    BY <1>1, <2>1, <2>2
  <2>4. m - 1 \notin T
    BY <1>4, <2>3
  <2>5. PICK g : Solves(g, m - 1)
    BY <2>3, <2>4
  <2>6. \E h : Solves(h, (m - 1) + 1)
    BY <1>2, <2>1, <2>3, <2>5
  <2> QED BY <2>1, <2>3, <2>6
<1>5. \E g : Solves(g, Len(text))
  <2> HIDE DEF Solves
  <2>1. T \in SUBSET Nat
    OBVIOUS
  <2>2. T = {}
    <3> HIDE DEF T
    <3> QED BY <1>4, <2>1, LeastElement
  <2> QED BY <1>1, <2>2
<1> DEFINE Equation(g) == g = [n \in 0..Len(text) |-> Body(g, n)]
<1>6. \E g : Equation(g)
  <2>1. PICK g : Solves(g, Len(text))
    BY <1>5
  <2> QED BY <2>1
<1> DEFINE f == CHOOSE g : Equation(g)
<1>7. Equation(f)
  <2> HIDE DEF Equation
  <2> QED BY <1>6
<1>8. Sound(text) = f[Len(text)]
  BY DEF Sound
<1> HIDE DEF f
<1>9. \A n \in 0..Len(text) : f[n] = Body(f, n)
  BY <1>7
<1> DEFINE U == {m \in Nat : m <= Len(text) /\ f[m] \notin Seq(S)}
<1>10. ASSUME NEW m \in U, \A k \in U : m <= k PROVE FALSE
  <2>1. m \in 0..Len(text) /\ f[m] \notin Seq(S)
    BY <1>1, <1>10
  <2>2. CASE m = 0
    <3>1. f[m] = << >>
      BY <1>9, <2>1, <2>2
    <3> QED BY <2>1, <3>1
  <2>3. CASE m # 0
    <3>1. m - 1 \in Nat /\ m - 1 <= Len(text) /\ ~(m <= m - 1) /\ m \in 1..Len(text)
      BY <1>1, <2>1, <2>3
    <3>2. f[m - 1] \in Seq(S)
      BY <1>10, <3>1
    <3>3. f[m] = IF text[m].content \in Invalid THEN f[m - 1] ELSE Append(f[m - 1], text[m])
      BY <1>9, <2>1, <2>3
    <3> QED BY <1>1, <2>1, <3>1, <3>2, <3>3
  <2> QED BY <2>2, <2>3
<1>11. U = {}
  <2>1. U \in SUBSET Nat
    OBVIOUS
  <2> HIDE DEF U
  <2> QED BY <1>10, <2>1, LeastElement
<1> QED BY <1>1, <1>8, <1>11

\* A block may be found by its id and its number among those of the same id.
LEMMA NodeType ==
  ASSUME NEW text \in Seq(Block), NEW i \in DOMAIN text
  PROVE  NodeOf(text, i) \in [key : Contents \cup {PatchKey}, nth : Nat]
<1>1. i \in Nat /\ text[i] \in Block
  OBVIOUS
<1>2. IsFiniteSet(1..i)
  BY <1>1, FS_Interval
<1>3. IsFiniteSet({j \in 1..i : text[j].key = text[i].key})
  BY <1>2, FS_Subset
<1>4. Occurrence(text, i) \in Nat
  BY <1>3, FS_CardinalityType DEF Occurrence
<1> QED BY <1>1, <1>4 DEF NodeOf, Block

-----------------------------------------------------------------------------
(* Type correctness.  A thread is with a run or with a document, and what  *)
(* its next step needs it has read: a thread that writes knows the         *)
(* document, one that works on a run has a copy of a run that is on file.  *)

RunPcs == {"propose", "decide", "trace", "apply", "write", "record", "remember", "save"}
DocumentPcs == {"editing", "checked", "write", "record"}

ThreadRec ==
  [op : RunOps \cup DocumentOps \cup {"none"}, pc : RunPcs \cup DocumentPcs \cup {"waiting"},
   run : Nat, copy : Run \cup {None}, seen : Seq(Block) \cup {None}, todo : SUBSET Candidate,
   doc : Docs \cup {None}, node : [key : Contents \cup {PatchKey}, nth : Nat] \cup {0},
   block : Block \cup {None}, before : Seq(Block), after : Seq(Block)]

Fits(th, n) ==
  /\ th.run \in 0..n
  /\ th.pc = "waiting" <=> th.op = "none"
  /\ th.op \in RunOps => th.pc \in RunPcs /\ th.run \in 1..n /\ th.copy \in Run
  /\ th.op \in DocumentOps => th.pc \in DocumentPcs /\ th.doc \in Docs
  /\ th.pc \in {"write", "record"} => th.doc \in Docs
  /\ th.pc = "editing" => th.op = "edit" /\ th.seen \in Seq(Block)
  /\ th.pc = "checked" => /\ th.op \in {"create", "update", "delete"}
                          /\ th.op # "delete" => th.block \in Block

StoreInv ==
  /\ docs \in [Docs -> Seq(Block)]
  /\ written \in [Docs -> SUBSET Seq(Block)]
  /\ \A e \in history : e.doc \in Docs /\ e.before \in Seq(Block) /\ e.after \in Seq(Block)
  /\ \A d \in Docs : docs[d] \in written[d]
RunsInv == runs \in Seq(Run) /\ memory \subseteq [run : DOMAIN runs, rejected : BOOLEAN]
ThreadInv == thread \in [Threads -> ThreadRec] /\ \A t \in Threads : Fits(thread[t], Len(runs))
KTypeInv == StoreInv /\ RunsInv /\ ThreadInv

LEMMA TypeInvImpliesTypeOK == KTypeInv => TypeOK
BY DEF KTypeInv, StoreInv, RunsInv, ThreadInv, TypeOK, ThreadRec, Fits

LEMMA WaitingType == Waiting \in ThreadRec
BY DEF Waiting, ThreadRec

LEMMA WaitingFits == \A n \in Nat : Waiting \in ThreadRec /\ Fits(Waiting, n)
BY WaitingType DEF Waiting, Fits, RunOps, DocumentOps

\* One thread moves on.
LEMMA ThreadMoves ==
  ASSUME ThreadInv, runs \in Seq(Run), runs' \in Seq(Run), Len(runs) <= Len(runs'),
         NEW t \in Threads, NEW to \in ThreadRec, Goes(t, to), Fits(to, Len(runs'))
  PROVE  ThreadInv'
<1>1. thread' \in [Threads -> ThreadRec]
  BY DEF ThreadInv, Goes
<1>2. ASSUME NEW u \in Threads PROVE Fits(thread'[u], Len(runs'))
  <2>1. CASE u = t
    BY <2>1 DEF ThreadInv, Goes
  <2>2. CASE u # t
    <3>1. thread'[u] = thread[u] /\ Fits(thread[u], Len(runs))
      BY <2>2 DEF ThreadInv, Goes
    <3>2. Len(runs) \in Nat /\ Len(runs') \in Nat
      OBVIOUS
    <3> QED BY <3>1, <3>2 DEF Fits
  <2> QED BY <2>1, <2>2
<1> QED BY <1>1, <1>2 DEF ThreadInv

\* Threads that write a run, and threads that do not.
LEMMA RunsGrow ==
  ASSUME RunsInv, NEW run \in Run, runs' = Append(runs, run), memory' = memory
  PROVE  RunsInv' /\ Len(runs') = Len(runs) + 1
BY AppendToText DEF RunsInv

LEMMA RunsRewritten ==
  ASSUME RunsInv, NEW r \in 1..Len(runs), NEW run \in Run, runs' = [runs EXCEPT ![r] = run], memory' = memory
  PROVE  RunsInv' /\ Len(runs') = Len(runs)
BY ReplaceInText DEF RunsInv

LEMMA TypeInit == Init => KTypeInv
<1> SUFFICES ASSUME Init PROVE KTypeInv
  OBVIOUS
<1>1. StoreInv
  BY DEF Init, StoreInv
<1>2. RunsInv
  BY FoundAssumption DEF Init, RunsInv
<1>3. Len(runs) \in Nat
  BY <1>2 DEF RunsInv
<1>4. ThreadInv
  BY <1>3, WaitingFits DEF Init, ThreadInv
<1> QED BY <1>1, <1>2, <1>4 DEF KTypeInv

\* Steps that leave the store, or the runs and their memory, alone.
LEMMA StoreKept == StoreInv /\ UNCHANGED store => StoreInv'
BY DEF StoreInv, store

LEMMA RunsKept == RunsInv /\ UNCHANGED <<runs, memory>> => RunsInv'
BY DEF RunsInv

\* A thread moves on and no run is written.
LEMMA ThreadMovesOnly ==
  ASSUME KTypeInv, runs' = runs, NEW t \in Threads, NEW to \in ThreadRec, Goes(t, to), Fits(to, Len(runs))
  PROVE  ThreadInv'
<1>1. runs \in Seq(Run) /\ Len(runs) <= Len(runs)
  BY DEF KTypeInv, RunsInv
<1> QED BY <1>1, ThreadMoves DEF KTypeInv

LEMMA ThreadAnswers ==
  ASSUME KTypeInv, runs' = runs, NEW t \in Threads, Answers(t)
  PROVE  ThreadInv'
<1>1. Len(runs) \in Nat
  BY DEF KTypeInv, RunsInv
<1> QED BY <1>1, ThreadMovesOnly, WaitingFits DEF Answers

\* A thread is about to write a document.
LEMMA ThreadRewrites ==
  ASSUME KTypeInv, runs' = runs, NEW t \in Threads, thread[t].op \in DocumentOps,
         NEW d \in Docs, NEW after \in Seq(Block), Rewrites(t, d, after)
  PROVE  ThreadInv'
<1> DEFINE to == [thread[t] EXCEPT !.pc = "write", !.doc = d, !.before = docs[d], !.after = after]
<1>1. thread[t] \in ThreadRec /\ Fits(thread[t], Len(runs)) /\ docs[d] \in Seq(Block)
  BY DEF KTypeInv, ThreadInv, StoreInv
<1>2. to \in ThreadRec
  BY <1>1 DEF ThreadRec, RunPcs
<1>3. to.op = thread[t].op /\ to.pc = "write" /\ to.doc = d /\ to.run = thread[t].run
  BY <1>1 DEF ThreadRec
<1>4. Fits(to, Len(runs))
  BY <1>1, <1>3 DEF Fits, RunOps, DocumentOps, DocumentPcs
<1>5. Goes(t, to)
  BY DEF Rewrites
<1> HIDE DEF to
<1> QED BY <1>2, <1>4, <1>5, ThreadMovesOnly

LEMMA WriteDocumentType ==
  ASSUME KTypeInv, NEW t \in Threads, WriteDocument(t)
  PROVE  KTypeInv'
<1> DEFINE to == [thread[t] EXCEPT !.pc = "record"]
<1>1. thread[t] \in ThreadRec /\ Fits(thread[t], Len(runs)) /\ thread[t].pc = "write" /\ runs' = runs
  BY DEF KTypeInv, ThreadInv, WriteDocument
<1>2. thread[t].doc \in Docs /\ thread[t].after \in Seq(Block)
  BY <1>1 DEF Fits, ThreadRec
<1>3. StoreInv'
  <2>1. docs' \in [Docs -> Seq(Block)] /\ written' \in [Docs -> SUBSET Seq(Block)] /\ history' = history
    BY <1>2 DEF WriteDocument, KTypeInv, StoreInv
  <2>2. ASSUME NEW d \in Docs PROVE docs'[d] \in written'[d]
    BY <1>2 DEF WriteDocument, KTypeInv, StoreInv
  <2> QED BY <2>1, <2>2 DEF KTypeInv, StoreInv
<1>4. RunsInv'
  BY RunsKept DEF WriteDocument, KTypeInv
<1>5. to \in ThreadRec
  BY <1>1 DEF ThreadRec, RunPcs
<1>6. Fits(to, Len(runs))
  <2>1. to.pc = "record" /\ to.op = thread[t].op /\ to.run = thread[t].run /\ to.copy = thread[t].copy /\ to.doc = thread[t].doc
    BY <1>1 DEF ThreadRec
  <2> HIDE DEF to
  <2> QED BY <1>1, <2>1 DEF Fits, RunPcs, DocumentPcs
<1>7. Goes(t, to)
  BY DEF WriteDocument
<1> HIDE DEF to
<1> QED BY <1>1, <1>3, <1>4, <1>5, <1>6, <1>7, ThreadMovesOnly DEF KTypeInv

LEMMA RecordHistoryType ==
  ASSUME KTypeInv, NEW t \in Threads, RecordHistory(t)
  PROVE  KTypeInv'
<1> DEFINE to == [thread[t] EXCEPT !.pc = "apply"]
<1>1. thread[t] \in ThreadRec /\ Fits(thread[t], Len(runs)) /\ thread[t].pc = "record" /\ runs' = runs
  BY DEF KTypeInv, ThreadInv, RecordHistory
<1>2. Entry(t).doc \in Docs /\ Entry(t).before \in Seq(Block) /\ Entry(t).after \in Seq(Block)
  BY <1>1 DEF Entry, Fits, ThreadRec
<1>3. StoreInv'
  BY <1>2 DEF RecordHistory, KTypeInv, StoreInv
<1>4. RunsInv'
  BY RunsKept DEF RecordHistory, KTypeInv
<1>5. to \in ThreadRec
  BY <1>1 DEF ThreadRec, RunPcs
<1>6. ASSUME thread[t].op \in RunOps PROVE Fits(to, Len(runs))
  <2>1. to.pc = "apply" /\ to.op = thread[t].op /\ to.run = thread[t].run /\ to.copy = thread[t].copy /\ to.doc = thread[t].doc
    BY <1>1 DEF ThreadRec
  <2> HIDE DEF to
  <2> QED BY <1>1, <1>6, <2>1 DEF Fits, RunPcs, RunOps, DocumentOps
<1>7. ThreadInv'
  <2>1. CASE thread[t].op \in RunOps
    <3>1. Goes(t, to)
      BY <2>1 DEF RecordHistory
    <3> HIDE DEF to
    <3> QED BY <1>1, <1>5, <1>6, <2>1, <3>1, ThreadMovesOnly
  <2>2. CASE thread[t].op \notin RunOps
    BY <1>1, <2>2, ThreadAnswers DEF RecordHistory
  <2> QED BY <2>1, <2>2
<1> QED BY <1>3, <1>4, <1>7 DEF KTypeInv

LEMMA EditorLoadsType ==
  ASSUME KTypeInv, NEW t \in Threads, EditorLoads(t)
  PROVE  KTypeInv'
<1>1. PICK d \in Docs : Goes(t, [Waiting EXCEPT !.op = "edit", !.pc = "editing", !.doc = d, !.seen = docs[d]])
  BY DEF EditorLoads
<1> DEFINE to == [Waiting EXCEPT !.op = "edit", !.pc = "editing", !.doc = d, !.seen = docs[d]]
<1>2. docs[d] \in Seq(Block) /\ Len(runs) \in Nat /\ runs' = runs
  BY DEF KTypeInv, StoreInv, RunsInv, EditorLoads
<1>3. to \in ThreadRec /\ Fits(to, Len(runs))
  BY <1>2, WaitingFits DEF Waiting, ThreadRec, DocumentOps, DocumentPcs, RunOps, Fits
<1>4. StoreInv' /\ RunsInv'
  BY StoreKept, RunsKept DEF EditorLoads, KTypeInv
<1> HIDE DEF to
<1> QED BY <1>1, <1>2, <1>3, <1>4, ThreadMovesOnly DEF KTypeInv, to

LEMMA EditorSavesType ==
  ASSUME KTypeInv, NEW t \in Threads, EditorSaves(t)
  PROVE  KTypeInv'
<1> DEFINE seen == thread[t].seen
<1>1. /\ thread[t].op = "edit" /\ thread[t].op \in DocumentOps
      /\ seen \in Seq(Block) /\ thread[t].doc \in Docs /\ runs' = runs
  BY DEF KTypeInv, ThreadInv, Fits, EditorSaves, At, DocumentOps
<1>2. ThreadInv'
  <2>1. ASSUME NEW c \in Contents, Rewrites(t, thread[t].doc, Append(seen, [key |-> c, content |-> c]))
        PROVE  ThreadInv'
    <3>1. Append(seen, [key |-> c, content |-> c]) \in Seq(Block)
      BY <1>1, AppendToText DEF Block
    <3> QED BY <1>1, <2>1, <3>1, ThreadRewrites
  <2>2. ASSUME NEW i \in DOMAIN seen, Rewrites(t, thread[t].doc, RemoveAt(seen, i))
        PROVE  ThreadInv'
    <3>1. RemoveAt(seen, i) \in Seq(Block)
      BY <1>1, RemoveFromText
    <3> QED BY <1>1, <2>2, <3>1, ThreadRewrites
  <2> QED BY <2>1, <2>2 DEF EditorSaves
<1>3. StoreInv' /\ RunsInv'
  BY StoreKept, RunsKept DEF EditorSaves, KTypeInv
<1> QED BY <1>2, <1>3 DEF KTypeInv

LEMMA CheckedThread ==
  ASSUME KTypeInv, runs' = runs, NEW t \in Threads, NEW to \in ThreadRec, Goes(t, to),
         to.op \in {"create", "update", "delete"}, to.pc = "checked", to.run = 0, to.doc \in Docs,
         to.op # "delete" => to.block \in Block
  PROVE  ThreadInv'
<1>1. Len(runs) \in Nat
  BY DEF KTypeInv, RunsInv
<1>2. Fits(to, Len(runs))
  BY <1>1 DEF Fits, RunOps, DocumentOps, DocumentPcs
<1> QED BY <1>2, ThreadMovesOnly

LEMMA CreateNodeType ==
  ASSUME KTypeInv, NEW t \in Threads, CreateNode(t)
  PROVE  KTypeInv'
<1>1. PICK d \in Docs \ Reviewed, c \in Contents :
        Goes(t, [Waiting EXCEPT !.op = "create", !.pc = "checked", !.doc = d, !.block = [key |-> c, content |-> c]])
  BY DEF CreateNode
<1> DEFINE to == [Waiting EXCEPT !.op = "create", !.pc = "checked", !.doc = d, !.block = [key |-> c, content |-> c]]
<1>2. to.op = "create" /\ to.pc = "checked" /\ to.run = 0 /\ to.doc = d /\ to.block \in Block
  BY DEF Waiting, Block
<1>3. to \in ThreadRec
  <2>1. [key |-> c, content |-> c] \in Block
    BY DEF Block
  <2> QED BY <2>1, WaitingType DEF ThreadRec, DocumentOps, DocumentPcs
<1>4. StoreInv' /\ RunsInv' /\ runs' = runs
  BY StoreKept, RunsKept DEF CreateNode, KTypeInv
<1> HIDE DEF to
<1> QED BY <1>1, <1>2, <1>3, <1>4, CheckedThread DEF KTypeInv, to

LEMMA UpdateNodeType ==
  ASSUME KTypeInv, NEW t \in Threads, UpdateNode(t)
  PROVE  KTypeInv'
<1> DEFINE To(d, c, i) == [Waiting EXCEPT !.op = "update", !.pc = "checked", !.doc = d, !.node = NodeOf(docs[d], i),
                             !.block = [key |-> docs[d][i].key, content |-> c]]
<1>1. PICK d \in Docs, c \in Contents : \E i \in DOMAIN docs[d] : Goes(t, To(d, c, i))
  BY DEF UpdateNode
<1>2. PICK i \in DOMAIN docs[d] : Goes(t, To(d, c, i))
  BY <1>1
<1> DEFINE to == To(d, c, i)
<1>3. docs[d] \in Seq(Block) /\ docs[d][i] \in Block
  BY DEF KTypeInv, StoreInv
<1>4. to.op = "update" /\ to.pc = "checked" /\ to.run = 0 /\ to.doc = d /\ to.block \in Block
  BY <1>3 DEF Waiting, Block
<1>5. NodeOf(docs[d], i) \in [key : Contents \cup {PatchKey}, nth : Nat]
  BY <1>3, NodeType
<1>6. to \in ThreadRec
  <2>1. [key |-> docs[d][i].key, content |-> c] \in Block
    BY <1>3 DEF Block
  <2> QED BY <1>5, <2>1, WaitingType DEF ThreadRec, DocumentOps, DocumentPcs
<1>7. StoreInv' /\ RunsInv' /\ runs' = runs
  BY StoreKept, RunsKept DEF UpdateNode, KTypeInv
<1>8. Goes(t, to)
  BY <1>2
<1> HIDE DEF to
<1> QED BY <1>4, <1>6, <1>7, <1>8, CheckedThread DEF KTypeInv

LEMMA DeleteNodeType ==
  ASSUME KTypeInv, NEW t \in Threads, DeleteNode(t)
  PROVE  KTypeInv'
<1> DEFINE To(d, i) == [Waiting EXCEPT !.op = "delete", !.pc = "checked", !.doc = d, !.node = NodeOf(docs[d], i)]
<1>1. PICK d \in Docs : \E i \in DOMAIN docs[d] : Goes(t, To(d, i))
  BY DEF DeleteNode
<1>2. PICK i \in DOMAIN docs[d] : Goes(t, To(d, i))
  BY <1>1
<1> DEFINE to == To(d, i)
<1>3. NodeOf(docs[d], i) \in [key : Contents \cup {PatchKey}, nth : Nat]
  BY NodeType DEF KTypeInv, StoreInv
<1>4. to.op = "delete" /\ to.pc = "checked" /\ to.run = 0 /\ to.doc = d
  BY DEF Waiting
<1>5. to \in ThreadRec
  BY <1>3, WaitingType DEF ThreadRec, DocumentOps, DocumentPcs
<1>6. StoreInv' /\ RunsInv' /\ runs' = runs
  BY StoreKept, RunsKept DEF DeleteNode, KTypeInv
<1>7. Goes(t, to)
  BY <1>2
<1> HIDE DEF to
<1> QED BY <1>4, <1>5, <1>6, <1>7, CheckedThread DEF KTypeInv

LEMMA RewriteTreeType ==
  ASSUME KTypeInv, NEW t \in Threads, RewriteTree(t)
  PROVE  KTypeInv'
<1> DEFINE d == thread[t].doc
           text == docs[d]
           at == Find(text, thread[t].node)
<1>1. /\ thread[t].op \in {"create", "update", "delete"} /\ thread[t].op \in DocumentOps
      /\ thread[t].op # "delete" => thread[t].block \in Block
      /\ d \in Docs /\ text \in Seq(Block) /\ runs' = runs
  BY DEF KTypeInv, StoreInv, ThreadInv, Fits, RewriteTree, DocumentOps
<1>2. at \subseteq DOMAIN text
  BY DEF Find
<1>3. ThreadInv'
  <2>1. ASSUME thread[t].op = "create", Rewrites(t, d, Append(text, thread[t].block))
        PROVE  ThreadInv'
    <3>1. Append(text, thread[t].block) \in Seq(Block)
      BY <1>1, <2>1, AppendToText
    <3> QED BY <1>1, <2>1, <3>1, ThreadRewrites
  <2>2. ASSUME thread[t].op = "update", NEW i \in at, Rewrites(t, d, [text EXCEPT ![i] = thread[t].block])
        PROVE  ThreadInv'
    <3>1. [text EXCEPT ![i] = thread[t].block] \in Seq(Block)
      BY <1>1, <1>2, <2>2, ReplaceInText
    <3> QED BY <1>1, <2>2, <3>1, ThreadRewrites
  <2>3. ASSUME thread[t].op = "delete", NEW i \in at, Rewrites(t, d, RemoveAt(text, i))
        PROVE  ThreadInv'
    <3>1. RemoveAt(text, i) \in Seq(Block)
      BY <1>1, <1>2, RemoveFromText
    <3> QED BY <1>1, <2>3, <3>1, ThreadRewrites
  <2>4. ASSUME Answers(t)
        PROVE  ThreadInv'
    BY <1>1, <2>4, ThreadAnswers
  <2> QED BY <2>1, <2>2, <2>3, <2>4 DEF RewriteTree
<1>4. StoreInv' /\ RunsInv'
  BY StoreKept, RunsKept DEF RewriteTree, KTypeInv
<1> QED BY <1>3, <1>4 DEF KTypeInv

\* A thread works on a run that is on file.
LEMMA RunThread ==
  ASSUME NEW n \in Nat, NEW to \in ThreadRec, to.op \in RunOps, to.run \in 1..n, to.copy \in Run, to.pc \in RunPcs,
         to.pc \in {"write", "record"} => to.doc \in Docs
  PROVE  Fits(to, n)
BY DEF Fits, RunOps, DocumentOps, RunPcs

LEMMA NewRunType == \A auto \in BOOLEAN : NewRun(auto) \in Run
BY DEF NewRun, Run, Statuses

LEMMA CreateRunType ==
  ASSUME KTypeInv, NEW t \in Threads, CreateRun(t)
  PROVE  KTypeInv'
<1>1. PICK auto \in BOOLEAN : runs' = Append(runs, NewRun(auto))
  BY DEF CreateRun
<1>2. RunsInv' /\ Len(runs') = Len(runs) + 1 /\ Len(runs) \in Nat
  BY <1>1, NewRunType, RunsGrow DEF KTypeInv, RunsInv, CreateRun
<1>3. StoreInv' /\ thread' = thread
  BY StoreKept DEF CreateRun, KTypeInv
<1>4. ThreadInv'
  BY <1>2, <1>3 DEF KTypeInv, ThreadInv, Fits
<1> QED BY <1>2, <1>3, <1>4 DEF KTypeInv

LEMMA LegacyCreatesType ==
  ASSUME KTypeInv, NEW t \in Threads, LegacyCreates(t)
  PROVE  KTypeInv'
<1> DEFINE to == [Waiting EXCEPT !.op = "legacy", !.pc = "propose", !.run = Len(runs) + 1, !.copy = NewRun(FALSE)]
<1>1. NewRun(FALSE) \in Run
  BY NewRunType
<1>2. RunsInv' /\ Len(runs') = Len(runs) + 1 /\ Len(runs) \in Nat
  <2>1. RunsInv /\ runs' = Append(runs, NewRun(FALSE)) /\ memory' = memory /\ Len(runs) \in Nat
    BY DEF KTypeInv, RunsInv, LegacyCreates
  <2> QED BY <1>1, <2>1, RunsGrow
<1>3. StoreInv'
  BY StoreKept DEF LegacyCreates, KTypeInv
<1>4. to.op = "legacy" /\ to.pc = "propose" /\ to.run = Len(runs) + 1 /\ to.copy \in Run
  BY <1>1 DEF Waiting
<1>5. to \in ThreadRec
  <2>1. Len(runs) + 1 \in Nat
    BY <1>2
  <2> HIDE DEF NewRun
  <2> QED BY <1>1, <2>1, WaitingType DEF ThreadRec, RunOps, RunPcs
<1>6. Goes(t, to)
  BY DEF LegacyCreates
<1> HIDE DEF to
<1>7. Fits(to, Len(runs'))
  BY <1>2, <1>4, <1>5, RunThread DEF RunOps, RunPcs
<1>8. ThreadInv'
  BY <1>2, <1>5, <1>6, <1>7, ThreadMoves DEF KTypeInv, RunsInv
<1> QED BY <1>2, <1>3, <1>8 DEF KTypeInv

\* Threads whose run is on file; what a step makes of the copy is a run.
LEMMA RunThreadMoves ==
  ASSUME KTypeInv, runs' = runs, NEW t \in Threads, NEW to \in ThreadRec, Goes(t, to),
         to.op \in RunOps, to.run \in DOMAIN runs, to.copy \in Run, to.pc \in RunPcs,
         to.pc \in {"write", "record"} => to.doc \in Docs
  PROVE  ThreadInv'
<1>1. Len(runs) \in Nat /\ to.run \in 1..Len(runs)
  BY DEF KTypeInv, RunsInv
<1>2. Fits(to, Len(runs))
  BY <1>1, RunThread
<1> QED BY <1>2, ThreadMovesOnly

LEMMA RunThreadType ==
  ASSUME KTypeInv, NEW t \in Threads, thread[t].op \in RunOps
  PROVE  /\ thread[t] \in ThreadRec /\ thread[t].run \in DOMAIN runs /\ thread[t].run \in 1..Len(runs)
         /\ thread[t].copy \in Run /\ thread[t].pc \in RunPcs
BY DEF KTypeInv, RunsInv, ThreadInv, Fits

LEMMA ProposalsType == \A ready \in BOOLEAN : \A P \in Proposals(ready) : P \in SUBSET Candidate
BY DEF Proposals

LEMMA LegacyProposesType ==
  ASSUME KTypeInv, NEW t \in Threads, LegacyProposes(t)
  PROVE  KTypeInv'
<1>1. thread[t].op = "legacy" /\ runs' = runs
  BY DEF LegacyProposes, At
<1>2. /\ thread[t] \in ThreadRec /\ thread[t].run \in DOMAIN runs /\ thread[t].copy \in Run
  BY <1>1, RunThreadType DEF RunOps
<1>3. StoreInv' /\ RunsInv'
  BY StoreKept, RunsKept DEF LegacyProposes, KTypeInv
<1>4. ThreadInv'
  <2> DEFINE Copy(P) == [thread[t].copy EXCEPT !.steps = 1, !.changes = P, !.improved = P # {},
                           !.status = IF P = {} THEN "failed" ELSE "needs_review"]
             To(P) == [thread[t] EXCEPT !.pc = "save", !.copy = Copy(P)]
  <2>1. ASSUME NEW P \in Proposals(TRUE), Goes(t, To(P))
        PROVE  ThreadInv'
    <3>1. P \in SUBSET Candidate
      BY ProposalsType
    <3>2. Copy(P) \in Run
      BY <1>2, <3>1 DEF Run, Statuses
    <3> HIDE DEF Copy
    <3>3. To(P) \in ThreadRec
      BY <1>2, <3>2 DEF ThreadRec, RunPcs
    <3>4. To(P).op = "legacy" /\ To(P).run = thread[t].run /\ To(P).copy = Copy(P) /\ To(P).pc = "save"
      BY <1>1, <1>2 DEF ThreadRec
    <3> HIDE DEF To
    <3> QED BY <1>1, <1>2, <2>1, <3>2, <3>3, <3>4, RunThreadMoves DEF RunOps, RunPcs
  <2>2. ASSUME Answers(t)
        PROVE  ThreadInv'
    BY <1>1, <2>2, ThreadAnswers
  <2> QED BY <2>1, <2>2 DEF LegacyProposes
<1> QED BY <1>3, <1>4 DEF KTypeInv

LEMMA SaveRunType ==
  ASSUME KTypeInv, NEW t \in Threads, SaveRun(t)
  PROVE  KTypeInv'
<1>1. thread[t].op \in RunOps
  BY DEF SaveRun, KTypeInv, ThreadInv, ThreadRec, Fits, DocumentPcs
<1>2. thread[t].run \in 1..Len(runs) /\ thread[t].copy \in Run
  BY <1>1, RunThreadType
<1>3. RunsInv' /\ Len(runs') = Len(runs) /\ Len(runs) \in Nat
  BY <1>2, RunsRewritten DEF KTypeInv, RunsInv, SaveRun
<1>4. StoreInv'
  BY StoreKept DEF SaveRun, KTypeInv
<1>5. Waiting \in ThreadRec /\ Fits(Waiting, Len(runs')) /\ Goes(t, Waiting)
  BY <1>3, WaitingFits DEF SaveRun, Answers
<1>6. ThreadInv'
  BY <1>3, <1>5, ThreadMoves DEF KTypeInv, RunsInv
<1> QED BY <1>3, <1>4, <1>6 DEF KTypeInv

LEMMA StepBeginsType ==
  ASSUME KTypeInv, NEW t \in Threads, StepBegins(t)
  PROVE  KTypeInv'
<1> DEFINE Failed(r) == [Waiting EXCEPT !.op = "step", !.pc = "save", !.run = r,
                                        !.copy = [runs[r] EXCEPT !.status = "failed"]]
           Decides(r) == [Waiting EXCEPT !.op = "step", !.pc = "decide", !.run = r, !.copy = runs[r]]
<1>1. PICK r \in DOMAIN runs : Goes(t, IF runs[r].steps >= MaxSteps THEN Failed(r) ELSE Decides(r))
  BY DEF StepBegins
<1>2. runs[r] \in Run /\ r \in Nat /\ runs' = runs
  BY DEF KTypeInv, RunsInv, StepBegins
<1>3. StoreInv' /\ RunsInv'
  BY StoreKept, RunsKept DEF StepBegins, KTypeInv
<1>4. ASSUME NEW to \in {Failed(r), Decides(r)}, Goes(t, to)
      PROVE  ThreadInv'
  <2>1. [runs[r] EXCEPT !.status = "failed"] \in Run
    BY <1>2 DEF Run, Statuses
  <2>2. to \in ThreadRec
    <3>1. Failed(r) \in ThreadRec
      <4> HIDE DEF Run
      <4> QED BY <1>2, <2>1, WaitingType DEF ThreadRec, RunOps, RunPcs
    <3>2. Decides(r) \in ThreadRec
      BY <1>2, WaitingType DEF ThreadRec, RunOps, RunPcs
    <3> QED BY <3>1, <3>2
  <2>3. to.op = "step" /\ to.run = r /\ to.copy \in Run /\ to.pc \in {"save", "decide"}
    BY <1>2, <1>4, <2>1 DEF Waiting
  <2> HIDE DEF Failed, Decides
  <2> QED BY <1>2, <1>4, <2>2, <2>3, RunThreadMoves DEF RunOps, RunPcs
<1>5. ThreadInv'
  BY <1>1, <1>4
<1> QED BY <1>3, <1>5 DEF KTypeInv

LEMMA StepConcludesType ==
  ASSUME KTypeInv, NEW t \in Threads, StepConcludes(t)
  PROVE  KTypeInv'
<1>1. thread[t].op = "step" /\ runs' = runs
  BY DEF StepConcludes, At
<1>2. /\ thread[t] \in ThreadRec /\ thread[t].run \in DOMAIN runs /\ thread[t].copy \in Run
  BY <1>1, RunThreadType DEF RunOps
<1>3. StoreInv' /\ RunsInv'
  BY StoreKept, RunsKept DEF StepConcludes, KTypeInv
<1>4. ThreadInv'
  <2> DEFINE Copy(status) == [thread[t].copy EXCEPT !.status = status, !.steps = thread[t].copy.steps + 1]
             To(status) == [thread[t] EXCEPT !.pc = "save", !.copy = Copy(status)]
  <2>1. ASSUME NEW status \in {"needs_review", "rejected"}, Goes(t, To(status))
        PROVE  ThreadInv'
    <3>1. Copy(status) \in Run
      <4>1. status \in Statuses /\ thread[t].copy.steps + 1 \in Nat
        BY <1>2, <2>1 DEF Run, Statuses
      <4> QED BY <1>2, <4>1 DEF Run
    <3> HIDE DEF Copy
    <3>2. To(status) \in ThreadRec
      BY <1>2, <3>1 DEF ThreadRec, RunPcs
    <3>3. To(status).op = "step" /\ To(status).run = thread[t].run /\ To(status).copy = Copy(status) /\ To(status).pc = "save"
      BY <1>1, <1>2 DEF ThreadRec
    <3> HIDE DEF To
    <3> QED BY <1>1, <1>2, <2>1, <3>1, <3>2, <3>3, RunThreadMoves DEF RunOps, RunPcs
  <2>2. ASSUME Answers(t)
        PROVE  ThreadInv'
    BY <1>1, <2>2, ThreadAnswers
  <2> QED BY <2>1, <2>2 DEF StepConcludes
<1> QED BY <1>3, <1>4 DEF KTypeInv

LEMMA StepReadsAgainType ==
  ASSUME KTypeInv, NEW t \in Threads, StepReadsAgain(t)
  PROVE  KTypeInv'
<1> DEFINE run == runs[thread[t].run]
           copy == [run EXCEPT !.steps = run.steps + 1]
           to == [thread[t] EXCEPT !.pc = "trace", !.copy = copy]
<1>1. thread[t].op = "step" /\ runs' = runs /\ Goes(t, to)
  BY DEF StepReadsAgain, At
<1>2. thread[t] \in ThreadRec /\ thread[t].run \in DOMAIN runs /\ run \in Run
  BY <1>1, RunThreadType DEF RunOps, KTypeInv, RunsInv
<1>3. StoreInv' /\ RunsInv'
  BY StoreKept, RunsKept DEF StepReadsAgain, KTypeInv
<1>4. copy \in Run
  BY <1>2 DEF Run
<1> HIDE DEF copy
<1>5. to \in ThreadRec
  BY <1>2, <1>4 DEF ThreadRec, RunPcs
<1>6. to.op = "step" /\ to.run = thread[t].run /\ to.copy = copy /\ to.pc = "trace"
  BY <1>1, <1>2 DEF ThreadRec
<1> HIDE DEF to
<1>7. ThreadInv'
  BY <1>1, <1>2, <1>4, <1>5, <1>6, RunThreadMoves DEF RunOps, RunPcs
<1> QED BY <1>3, <1>7 DEF KTypeInv

\* What the answer of a tool makes of a run is a run, of the same status.
LEMMA ObservedType ==
  ASSUME NEW run \in Run
  PROVE  \A seen \in Observed(run) : seen \in Run /\ seen.status = run.status
<1> SUFFICES ASSUME NEW seen \in Observed(run) PROVE seen \in Run /\ seen.status = run.status
  OBVIOUS
<1>1. CASE seen = run
  BY <1>1
<1>2. ASSUME NEW P \in SUBSET Candidate, seen = [run EXCEPT !.changes = P]
      PROVE  seen \in Run /\ seen.status = run.status
  BY <1>2 DEF Run
<1>3. CASE seen \in Checked(run)
  <2>1. PICK same \in SUBSET run.changes, checked \in Candidate :
          seen = [run EXCEPT !.changes = (run.changes \ same) \cup {checked}]
    BY <1>3 DEF Checked
  <2>2. (run.changes \ same) \cup {checked} \in SUBSET Candidate
    BY DEF Run
  <2> QED BY <1>2, <2>1, <2>2
<1>4. ASSUME NEW b \in BOOLEAN, seen = [run EXCEPT !.improved = b]
      PROVE  seen \in Run /\ seen.status = run.status
  BY <1>4 DEF Run
<1> QED BY <1>1, <1>2, <1>3, <1>4, ProposalsType DEF Observed

\* The copy of a thread that has traced the answer of its tool.
TracedFailed(t, more) ==
  [thread[t] EXCEPT !.pc = "save", !.copy = [thread[t].copy EXCEPT !.status = "failed",
                                                                   !.steps = thread[t].copy.steps + more]]
TracedOn(t, run) ==
  IF AutoApplicable(run)
  THEN [thread[t] EXCEPT !.pc = "apply", !.copy = run, !.todo = run.changes]
  ELSE [thread[t] EXCEPT !.pc = "save", !.copy = run]

LEMMA StepTracesKinds ==
  ASSUME NEW t \in Threads, StepTraces(t)
  PROVE  /\ thread[t].op = "step" /\ thread[t].pc = "trace"
         /\ runs' = [runs EXCEPT ![thread[t].run] = thread[t].copy]
         /\ UNCHANGED <<store, memory, requests, deaths>>
         /\ \/ \E more \in {0, 1} : Goes(t, TracedFailed(t, more))
            \/ \E run \in Observed([thread[t].copy EXCEPT !.status = "running"]) : Goes(t, TracedOn(t, run))
<1>1. /\ thread[t].op = "step" /\ thread[t].pc = "trace"
      /\ runs' = [runs EXCEPT ![thread[t].run] = thread[t].copy]
      /\ UNCHANGED <<store, memory, requests, deaths>>
  BY DEF StepTraces, At
<1>2. \/ \E more \in {0, 1} : Goes(t, TracedFailed(t, more))
      \/ \E run \in Observed([thread[t].copy EXCEPT !.status = "running"]) : Goes(t, TracedOn(t, run))
  BY DEF StepTraces, TracedFailed, TracedOn
<1> QED BY <1>1, <1>2

LEMMA TracedType ==
  ASSUME KTypeInv, NEW t \in Threads, thread[t].op = "step"
  PROVE  /\ [thread[t].copy EXCEPT !.status = "running"] \in Run
         /\ \A more \in {0, 1} :
              /\ TracedFailed(t, more) \in ThreadRec /\ TracedFailed(t, more).op = "step"
              /\ TracedFailed(t, more).run = thread[t].run
              /\ TracedFailed(t, more).pc = "save" /\ TracedFailed(t, more).copy \in Run
              /\ TracedFailed(t, more).copy.status = "failed"
         /\ \A run \in Observed([thread[t].copy EXCEPT !.status = "running"]) :
              /\ TracedOn(t, run) \in ThreadRec /\ TracedOn(t, run).op = "step"
              /\ TracedOn(t, run).run = thread[t].run
              /\ TracedOn(t, run).copy = run /\ run \in Run /\ run.status = "running"
              /\ \/ TracedOn(t, run).pc = "save"
                 \/ /\ TracedOn(t, run).pc = "apply" /\ TracedOn(t, run).todo = run.changes
                    /\ AutoApplicable(run)
<1>1. thread[t] \in ThreadRec /\ thread[t].copy \in Run
  BY RunThreadType DEF RunOps
<1>2. /\ [thread[t].copy EXCEPT !.status = "running"] \in Run
      /\ [thread[t].copy EXCEPT !.status = "running"].status = "running"
  BY <1>1 DEF Run, Statuses
<1>3. ASSUME NEW more \in {0, 1}
      PROVE  /\ TracedFailed(t, more) \in ThreadRec /\ TracedFailed(t, more).op = "step"
             /\ TracedFailed(t, more).run = thread[t].run
             /\ TracedFailed(t, more).pc = "save" /\ TracedFailed(t, more).copy \in Run
             /\ TracedFailed(t, more).copy.status = "failed"
  <2> DEFINE copy == [thread[t].copy EXCEPT !.status = "failed", !.steps = thread[t].copy.steps + more]
  <2>1. thread[t].copy.steps + more \in Nat
    BY <1>1 DEF Run
  <2>2. copy \in Run /\ copy.status = "failed"
    BY <1>1, <2>1 DEF Run, Statuses
  <2>3. TracedFailed(t, more) = [thread[t] EXCEPT !.pc = "save", !.copy = copy]
    BY DEF TracedFailed
  <2> HIDE DEF copy
  <2> QED BY <1>1, <2>2, <2>3 DEF ThreadRec, RunPcs
<1>4. ASSUME NEW run \in Observed([thread[t].copy EXCEPT !.status = "running"])
      PROVE  /\ TracedOn(t, run) \in ThreadRec /\ TracedOn(t, run).op = "step"
             /\ TracedOn(t, run).run = thread[t].run
             /\ TracedOn(t, run).copy = run /\ run \in Run /\ run.status = "running"
             /\ \/ TracedOn(t, run).pc = "save"
                \/ /\ TracedOn(t, run).pc = "apply" /\ TracedOn(t, run).todo = run.changes
                   /\ AutoApplicable(run)
  <2>1. run \in Run /\ run.status = "running"
    BY <1>2, ObservedType
  <2>2. run.changes \in SUBSET Candidate
    BY <2>1 DEF Run
  <2>3. CASE AutoApplicable(run)
    <3>1. TracedOn(t, run) = [thread[t] EXCEPT !.pc = "apply", !.copy = run, !.todo = run.changes]
      BY <2>3 DEF TracedOn
    <3> QED BY <1>1, <2>1, <2>2, <2>3, <3>1 DEF ThreadRec, RunPcs
  <2>4. CASE ~AutoApplicable(run)
    <3>1. TracedOn(t, run) = [thread[t] EXCEPT !.pc = "save", !.copy = run]
      BY <2>4 DEF TracedOn
    <3> QED BY <1>1, <2>1, <3>1 DEF ThreadRec, RunPcs
  <2> QED BY <2>3, <2>4
<1> QED BY <1>2, <1>3, <1>4

LEMMA StepTracesType ==
  ASSUME KTypeInv, NEW t \in Threads, StepTraces(t)
  PROVE  KTypeInv'
<1>1. /\ thread[t].op = "step" /\ thread[t].op \in RunOps
      /\ runs' = [runs EXCEPT ![thread[t].run] = thread[t].copy] /\ memory' = memory
  BY StepTracesKinds DEF RunOps
<1>2. thread[t].run \in 1..Len(runs) /\ thread[t].copy \in Run
  BY <1>1, RunThreadType
<1>3. RunsInv' /\ Len(runs') = Len(runs) /\ Len(runs) \in Nat
  BY <1>1, <1>2, RunsRewritten DEF KTypeInv, RunsInv
<1>4. StoreInv'
  BY StoreKept, StepTracesKinds DEF KTypeInv
<1>5. ASSUME NEW to \in ThreadRec, Goes(t, to), to.op = "step", to.run = thread[t].run,
             to.copy \in Run, to.pc \in {"save", "apply"}
      PROVE  ThreadInv'
  <2>1. Fits(to, Len(runs'))
    BY <1>2, <1>3, <1>5, RunThread DEF RunOps, RunPcs
  <2> QED BY <1>3, <1>5, <2>1, ThreadMoves DEF KTypeInv, RunsInv
<1>6. ThreadInv'
  <2>1. ASSUME NEW more \in {0, 1}, Goes(t, TracedFailed(t, more)) PROVE ThreadInv'
    <3> DEFINE to == TracedFailed(t, more)
    <3>1. /\ to \in ThreadRec /\ to.op = "step" /\ to.run = thread[t].run
          /\ to.copy \in Run /\ to.pc \in {"save", "apply"} /\ Goes(t, to)
      BY <1>1, <2>1, TracedType
    <3> HIDE DEF to
    <3> QED BY <1>5, <3>1
  <2>2. ASSUME NEW run \in Observed([thread[t].copy EXCEPT !.status = "running"]), Goes(t, TracedOn(t, run))
        PROVE  ThreadInv'
    <3> DEFINE to == TracedOn(t, run)
    <3>1. /\ to \in ThreadRec /\ to.op = "step" /\ to.run = thread[t].run
          /\ to.copy \in Run /\ to.pc \in {"save", "apply"} /\ Goes(t, to)
      BY <1>1, <2>2, TracedType
    <3> HIDE DEF to
    <3> QED BY <1>5, <3>1
  <2> QED BY <2>1, <2>2, StepTracesKinds
<1> QED BY <1>3, <1>4, <1>6 DEF KTypeInv

LEMMA ApproveType ==
  ASSUME KTypeInv, NEW t \in Threads, Approve(t)
  PROVE  KTypeInv'
<1> DEFINE To(r) == [Waiting EXCEPT !.op = "approve", !.pc = "apply", !.run = r, !.copy = runs[r],
                                    !.todo = runs[r].changes]
<1>1. PICK r \in DOMAIN runs : IF Applicable(runs[r]) THEN Goes(t, To(r)) ELSE Answers(t)
  BY DEF Approve
<1>2. runs[r] \in Run /\ r \in Nat /\ runs' = runs
  BY DEF KTypeInv, RunsInv, Approve
<1>3. StoreInv' /\ RunsInv'
  BY StoreKept, RunsKept DEF Approve, KTypeInv
<1>4. ASSUME Goes(t, To(r)) PROVE ThreadInv'
  <2>1. runs[r].changes \in SUBSET Candidate
    BY <1>2 DEF Run
  <2>2. To(r) \in ThreadRec
    BY <1>2, <2>1, WaitingType DEF ThreadRec, RunOps, RunPcs
  <2>3. To(r).op = "approve" /\ To(r).run = r /\ To(r).copy = runs[r] /\ To(r).pc = "apply"
    BY DEF Waiting
  <2> HIDE DEF To
  <2> QED BY <1>2, <1>4, <2>2, <2>3, RunThreadMoves DEF RunOps, RunPcs
<1>5. ThreadInv'
  BY <1>1, <1>2, <1>4, ThreadAnswers
<1> QED BY <1>3, <1>5 DEF KTypeInv

\* An apply passes a candidate over, or is about to append it to its document.
Passed(t, c) == [thread[t] EXCEPT !.todo = @ \ {c}]
Patched(t, c) ==
  [Passed(t, c) EXCEPT !.pc = "write", !.doc = c.doc, !.before = docs[c.doc],
     !.after = Append(docs[c.doc], [key |-> PatchKey, content |-> c.content])]

LEMMA ApplyPatchKinds ==
  ASSUME NEW t \in Threads, ApplyPatch(t)
  PROVE  /\ thread[t].pc = "apply"
         /\ UNCHANGED <<store, runs, memory, requests, deaths>>
         /\ \E c \in thread[t].todo :
              \/ (c.content \in Invalid \/ Has(docs[c.doc], c.content)) /\ Goes(t, Passed(t, c))
              \/ ~Has(docs[c.doc], c.content) /\ Goes(t, Patched(t, c))
BY DEF ApplyPatch, Passed, Patched

LEMMA AppliesType ==
  ASSUME KTypeInv, NEW t \in Threads, thread[t].pc = "apply"
  PROVE  /\ thread[t].op \in RunOps /\ thread[t].run \in DOMAIN runs /\ thread[t].copy \in Run
         /\ thread[t] \in ThreadRec /\ thread[t].todo \subseteq Candidate
BY RunThreadType DEF KTypeInv, ThreadInv, ThreadRec, Fits, DocumentPcs

LEMMA PatchedType ==
  ASSUME KTypeInv, NEW t \in Threads, thread[t].pc = "apply", NEW c \in thread[t].todo
  PROVE  /\ Passed(t, c) \in ThreadRec /\ Passed(t, c).op = thread[t].op /\ Passed(t, c).run = thread[t].run
         /\ Passed(t, c).copy = thread[t].copy /\ Passed(t, c).pc = "apply" /\ Passed(t, c).todo = thread[t].todo \ {c}
         /\ Patched(t, c) \in ThreadRec /\ Patched(t, c).op = thread[t].op /\ Patched(t, c).run = thread[t].run
         /\ Patched(t, c).copy = thread[t].copy /\ Patched(t, c).pc = "write" /\ Patched(t, c).todo = thread[t].todo \ {c}
         /\ Patched(t, c).doc = c.doc /\ c.doc \in Docs /\ Patched(t, c).before = docs[c.doc]
         /\ Patched(t, c).after = Append(docs[c.doc], [key |-> PatchKey, content |-> c.content])
         /\ Patched(t, c).after \in Seq(Block)
<1>1. thread[t] \in ThreadRec /\ c \in Candidate
  BY AppliesType
<1>2. c.doc \in Docs /\ c.content \in Contents
  BY <1>1 DEF Candidate
<1>3. docs[c.doc] \in Seq(Block) /\ [key |-> PatchKey, content |-> c.content] \in Block
  BY <1>2 DEF KTypeInv, StoreInv, Block
<1>4. Append(docs[c.doc], [key |-> PatchKey, content |-> c.content]) \in Seq(Block)
  BY <1>3, AppendToText
<1>5. /\ Passed(t, c) \in ThreadRec /\ Passed(t, c).op = thread[t].op /\ Passed(t, c).run = thread[t].run
      /\ Passed(t, c).copy = thread[t].copy /\ Passed(t, c).pc = "apply" /\ Passed(t, c).todo = thread[t].todo \ {c}
  BY <1>1 DEF Passed, ThreadRec
<1>6. /\ Patched(t, c) \in ThreadRec /\ Patched(t, c).op = Passed(t, c).op /\ Patched(t, c).run = Passed(t, c).run
      /\ Patched(t, c).copy = Passed(t, c).copy /\ Patched(t, c).pc = "write" /\ Patched(t, c).todo = Passed(t, c).todo
      /\ Patched(t, c).doc = c.doc /\ Patched(t, c).before = docs[c.doc]
      /\ Patched(t, c).after = Append(docs[c.doc], [key |-> PatchKey, content |-> c.content])
  BY <1>2, <1>3, <1>4, <1>5 DEF Patched, ThreadRec, RunPcs
<1> QED BY <1>2, <1>4, <1>5, <1>6

LEMMA ApplyPatchType ==
  ASSUME KTypeInv, NEW t \in Threads, ApplyPatch(t)
  PROVE  KTypeInv'
<1>1. thread[t].pc = "apply" /\ UNCHANGED <<store, runs, memory, requests, deaths>>
  BY ApplyPatchKinds
<1>2. thread[t].op \in RunOps /\ thread[t].run \in DOMAIN runs /\ thread[t].copy \in Run
  BY <1>1, AppliesType
<1>3. StoreInv' /\ RunsInv' /\ runs' = runs
  BY <1>1, StoreKept, RunsKept DEF KTypeInv
<1>4. ASSUME NEW c \in thread[t].todo, NEW to \in {Passed(t, c), Patched(t, c)}, Goes(t, to)
      PROVE  ThreadInv'
  <2>1. /\ to \in ThreadRec /\ to.op \in RunOps /\ to.run \in DOMAIN runs /\ to.copy \in Run /\ to.pc \in RunPcs
        /\ to.pc \in {"write", "record"} => to.doc \in Docs
    <3>1. CASE to = Passed(t, c)
      BY <1>1, <1>2, <3>1, PatchedType DEF RunPcs
    <3>2. CASE to = Patched(t, c)
      BY <1>1, <1>2, <3>2, PatchedType DEF RunPcs
    <3> QED BY <1>4, <3>1, <3>2
  <2> QED BY <1>3, <1>4, <2>1, RunThreadMoves
<1>5. ThreadInv'
  BY <1>4, ApplyPatchKinds
<1> QED BY <1>3, <1>5 DEF KTypeInv

LEMMA SaveAppliedType ==
  ASSUME KTypeInv, NEW t \in Threads, SaveApplied(t)
  PROVE  KTypeInv'
<1> DEFINE run == [thread[t].copy EXCEPT !.status = "applied"]
           copy == [run EXCEPT !.status = "completed"]
           to == [thread[t] EXCEPT !.pc = "remember", !.copy = copy]
<1>1. /\ thread[t].op \in RunOps /\ thread[t].run \in 1..Len(runs) /\ thread[t].copy \in Run
      /\ thread[t] \in ThreadRec /\ Len(runs) \in Nat
  BY AppliesType DEF SaveApplied, KTypeInv, RunsInv
<1>2. run \in Run /\ copy \in Run
  BY <1>1 DEF Run, Statuses
<1>3. runs' = [runs EXCEPT ![thread[t].run] = run] /\ memory' = memory /\ Goes(t, to)
  BY DEF SaveApplied
<1> HIDE DEF run, copy
<1>4. RunsInv' /\ Len(runs') = Len(runs)
  BY <1>1, <1>2, <1>3, RunsRewritten DEF KTypeInv
<1>5. StoreInv'
  BY StoreKept DEF SaveApplied, KTypeInv
<1>6. to \in ThreadRec
  BY <1>1, <1>2 DEF ThreadRec, RunPcs
<1>7. to.op = thread[t].op /\ to.run = thread[t].run /\ to.copy = copy /\ to.pc = "remember"
  BY <1>1 DEF ThreadRec
<1> HIDE DEF to
<1>8. Fits(to, Len(runs'))
  BY <1>1, <1>2, <1>4, <1>6, <1>7, RunThread DEF RunPcs
<1>9. ThreadInv'
  BY <1>3, <1>4, <1>6, <1>8, ThreadMoves DEF KTypeInv, RunsInv
<1> QED BY <1>4, <1>5, <1>9 DEF KTypeInv

LEMMA RejectType ==
  ASSUME KTypeInv, NEW t \in Threads, Reject(t)
  PROVE  KTypeInv'
<1> DEFINE Copy(r) == [runs[r] EXCEPT !.status = "rejected"]
           To(r) == [Waiting EXCEPT !.op = "reject", !.pc = "remember", !.run = r, !.copy = Copy(r)]
<1>1. PICK r \in DOMAIN runs : Goes(t, To(r))
  BY DEF Reject
<1>2. runs[r] \in Run /\ r \in Nat /\ runs' = runs
  BY DEF KTypeInv, RunsInv, Reject
<1>3. StoreInv' /\ RunsInv'
  BY StoreKept, RunsKept DEF Reject, KTypeInv
<1>4. Copy(r) \in Run
  BY <1>2 DEF Run, Statuses
<1> HIDE DEF Copy
<1>5. To(r) \in ThreadRec
  BY <1>2, <1>4, WaitingType DEF ThreadRec, RunOps, RunPcs
<1>6. To(r).op = "reject" /\ To(r).run = r /\ To(r).copy = Copy(r) /\ To(r).pc = "remember"
  BY DEF Waiting
<1> HIDE DEF To
<1>7. ThreadInv'
  BY <1>1, <1>2, <1>4, <1>5, <1>6, RunThreadMoves DEF RunOps, RunPcs
<1> QED BY <1>3, <1>7 DEF KTypeInv

LEMMA RememberType ==
  ASSUME KTypeInv, NEW t \in Threads, Remember(t)
  PROVE  KTypeInv'
<1> DEFINE to == [thread[t] EXCEPT !.pc = "save"]
<1>1. thread[t].pc = "remember" /\ runs' = runs /\ Goes(t, to)
  BY DEF Remember
<1>2. thread[t].op \in RunOps
  BY <1>1 DEF KTypeInv, ThreadInv, ThreadRec, Fits, DocumentPcs
<1>3. thread[t] \in ThreadRec /\ thread[t].run \in DOMAIN runs /\ thread[t].copy \in Run
  BY <1>2, RunThreadType
<1>4. RunsInv'
  <2>1. [run |-> thread[t].run, rejected |-> thread[t].op = "reject"] \in [run : DOMAIN runs, rejected : BOOLEAN]
    BY <1>3
  <2> QED BY <2>1 DEF Remember, KTypeInv, RunsInv
<1>5. StoreInv'
  BY StoreKept DEF Remember, KTypeInv
<1>6. to \in ThreadRec
  BY <1>3 DEF ThreadRec, RunPcs
<1>7. to.op = thread[t].op /\ to.run = thread[t].run /\ to.copy = thread[t].copy /\ to.pc = "save"
  BY <1>3 DEF ThreadRec
<1> HIDE DEF to
<1>8. ThreadInv'
  BY <1>1, <1>2, <1>3, <1>6, <1>7, RunThreadMoves DEF RunPcs
<1> QED BY <1>4, <1>5, <1>8 DEF KTypeInv

LEMMA RestartType ==
  ASSUME KTypeInv, Restart
  PROVE  KTypeInv'
<1> DEFINE text == docs[FewShot]
           clean == Sound(text)
<1>1. text \in Seq(Block) /\ FewShot \in Docs
  BY KnowledgeAssumption DEF KTypeInv, StoreInv
<1>2. clean \in Seq(Block)
  BY <1>1, SoundText
<1>3. StoreInv'
  <2>1. CASE clean = text
    BY <2>1, StoreKept DEF Restart, KTypeInv
  <2>2. CASE clean # text
    <3>1. /\ docs' = [docs EXCEPT ![FewShot] = clean]
          /\ written' = [written EXCEPT ![FewShot] = @ \cup {clean}]
          /\ history' = history \cup {[doc |-> FewShot, before |-> text, after |-> clean, by |-> "cleanup"]}
      BY <2>2 DEF Restart
    <3> HIDE DEF clean
    <3>2. docs' \in [Docs -> Seq(Block)] /\ written' \in [Docs -> SUBSET Seq(Block)]
      BY <1>1, <1>2, <3>1 DEF KTypeInv, StoreInv
    <3>3. \A e \in history' : e.doc \in Docs /\ e.before \in Seq(Block) /\ e.after \in Seq(Block)
      BY <1>1, <1>2, <3>1 DEF KTypeInv, StoreInv
    <3>4. \A d \in Docs : docs'[d] \in written'[d]
      BY <1>1, <1>2, <3>1 DEF KTypeInv, StoreInv
    <3> QED BY <3>2, <3>3, <3>4 DEF StoreInv
  <2> QED BY <2>1, <2>2
<1>4. RunsInv' /\ runs' = runs /\ Len(runs) \in Nat
  BY RunsKept DEF Restart, KTypeInv, RunsInv
<1>5. ThreadInv'
  BY <1>4, WaitingFits DEF Restart, ThreadInv
<1> QED BY <1>3, <1>4, <1>5 DEF KTypeInv

LEMMA TypeStep == KTypeInv /\ [Next]_vars => KTypeInv'
<1> SUFFICES ASSUME KTypeInv, [Next]_vars PROVE KTypeInv'
  OBVIOUS
<1>1. CASE Restart
  BY <1>1, RestartType
<1>2. ASSUME NEW t \in Threads, RunStep(t) PROVE KTypeInv'
  BY <1>2, LegacyProposesType, StepConcludesType, StepReadsAgainType, StepTracesType, ApplyPatchType,
     SaveAppliedType, RememberType, SaveRunType DEF RunStep
<1>3. ASSUME NEW t \in Threads, DocumentStep(t) PROVE KTypeInv'
  BY <1>3, EditorSavesType, RewriteTreeType, WriteDocumentType, RecordHistoryType DEF DocumentStep
<1>4. ASSUME NEW t \in Threads, NewRequest(t) PROVE KTypeInv'
  BY <1>4, CreateRunType, LegacyCreatesType, StepBeginsType, ApproveType, RejectType, EditorLoadsType,
     CreateNodeType, UpdateNodeType, DeleteNodeType DEF NewRequest, Legacy
<1>5. CASE UNCHANGED vars
  BY <1>5 DEF vars, store, KTypeInv, StoreInv, RunsInv, ThreadInv
<1> QED BY <1>1, <1>2, <1>3, <1>4, <1>5 DEF Next

LEMMA KTypeCorrect == Spec => []KTypeInv
BY TypeInit, TypeStep, PTL DEF Spec

-----------------------------------------------------------------------------
(* What a step does to the documents.  A document is rewritten in three    *)
(* steps of a thread; every other step leaves the documents, their history *)
(* and the threads that are between those three steps alone.               *)

OthersStay(t) == \A u \in Threads \ {t} : thread'[u] = thread[u]

LEMMA GoesTo ==
  ASSUME KTypeInv, NEW t \in Threads, NEW to, Goes(t, to)
  PROVE  thread'[t] = to /\ OthersStay(t)
BY DEF KTypeInv, ThreadInv, Goes, OthersStay

\* A text that says a thing twice.
LEMMA TwiceAppended ==
  ASSUME NEW text \in Seq(Block), NEW block \in Block, ~Has(text, block.content),
         NEW c, Twice(Append(text, block), c)
  PROVE  Twice(text, c)
<1> DEFINE after == Append(text, block)
<1>1. /\ DOMAIN after = DOMAIN text \cup {Len(text) + 1}
      /\ \A i \in DOMAIN text : after[i] = text[i]
      /\ after[Len(text) + 1] = block
  BY AppendToText
<1> HIDE DEF after
<1>2. PICK i, j \in DOMAIN after : i # j /\ after[i].content = c /\ after[j].content = c
  BY DEF Twice, after
<1>3. i \in DOMAIN text /\ j \in DOMAIN text
  BY <1>1, <1>2 DEF Has
<1> QED BY <1>1, <1>2, <1>3 DEF Twice

LEMMA TwiceRemoved ==
  ASSUME NEW text \in Seq(Block), NEW n \in DOMAIN text, NEW c, Twice(RemoveAt(text, n), c)
  PROVE  Twice(text, c)
<1> DEFINE after == RemoveAt(text, n)
           Old(k) == IF k < n THEN k ELSE k + 1
<1>1. /\ after \in Seq(Block) /\ Len(after) = Len(text) - 1 /\ Len(text) \in Nat /\ n \in 1..Len(text)
      /\ \A k \in DOMAIN after : after[k] = IF k < n THEN text[k] ELSE text[k + 1]
  BY RemoveFromText
<1> HIDE DEF after
<1>2. PICK i, j \in DOMAIN after : i # j /\ after[i].content = c /\ after[j].content = c
  BY DEF Twice, after
<1>3. i \in 1..(Len(text) - 1) /\ j \in 1..(Len(text) - 1)
  BY <1>1
<1>4. Old(i) \in DOMAIN text /\ Old(j) \in DOMAIN text /\ Old(i) # Old(j)
  BY <1>1, <1>2, <1>3
<1>5. text[Old(i)] = after[i] /\ text[Old(j)] = after[j]
  BY <1>1, <1>2
<1> QED BY <1>2, <1>4, <1>5 DEF Twice

\* A thread makes the text it will write from one it has read, which it does
\* not repeat itself unless it writes by hand.
Rewriting(t) ==
  /\ UNCHANGED <<docs, history, written, deaths>> /\ OthersStay(t)
  /\ thread[t].pc \notin {"write", "record"}
  /\ thread'[t].pc = "write" /\ thread'[t].doc \in Docs /\ thread'[t].op = thread[t].op
  /\ thread'[t].before = docs[thread'[t].doc]
  /\ \/ thread[t].op \in ByHand
     \/ \A c \in Contents : Twice(thread'[t].after, c) => Twice(thread'[t].before, c)
  /\ thread[t].op = "step" =>
       /\ thread[t].pc = "apply" /\ thread'[t].todo \subseteq thread[t].todo
       /\ \E c \in thread[t].todo : c.doc = thread'[t].doc

Loading(t) ==
  /\ UNCHANGED <<docs, history, written, deaths>> /\ OthersStay(t)
  /\ thread[t].pc \notin {"write", "record"}
  /\ thread'[t].pc = "editing" /\ thread'[t].doc \in Docs /\ thread'[t].seen = docs[thread'[t].doc]
  /\ thread'[t].op = "edit"

Elsewhere(t) ==
  /\ UNCHANGED <<docs, history, written, deaths>> /\ OthersStay(t)
  /\ thread[t].pc \notin {"write", "record"} /\ thread'[t].pc \notin {"write", "record", "editing"}
  /\ thread'[t].op = "step" /\ thread'[t].pc = "apply" =>
       \/ \A c \in thread'[t].todo : c.doc \notin Reviewed
       \/ thread[t].op = "step" /\ thread[t].pc = "apply" /\ thread'[t].todo \subseteq thread[t].todo

LEMMA RewritesKind ==
  ASSUME KTypeInv, NEW t \in Threads, thread[t].op \in DocumentOps, thread[t].pc \notin {"write", "record"},
         NEW d \in Docs, NEW after, Rewrites(t, d, after), UNCHANGED <<store, deaths>>,
         \/ thread[t].op \in ByHand
         \/ \A c \in Contents : Twice(after, c) => Twice(docs[d], c)
  PROVE  Rewriting(t)
<1> DEFINE to == [thread[t] EXCEPT !.pc = "write", !.doc = d, !.before = docs[d], !.after = after]
<1>1. thread'[t] = to /\ OthersStay(t)
  BY GoesTo DEF Rewrites
<1>2. to.pc = "write" /\ to.doc = d /\ to.before = docs[d] /\ to.after = after /\ to.op = thread[t].op
  BY DEF KTypeInv, ThreadInv, ThreadRec
<1> HIDE DEF to
<1>3. thread[t].op # "step"
  BY DEF DocumentOps
<1> QED BY <1>1, <1>2, <1>3 DEF Rewriting, store

LEMMA EditorSavesKind ==
  ASSUME KTypeInv, NEW t \in Threads, EditorSaves(t)
  PROVE  Rewriting(t)
<1>1. /\ thread[t].op \in DocumentOps /\ thread[t].op \in ByHand /\ thread[t].pc = "editing"
      /\ thread[t].doc \in Docs /\ UNCHANGED <<store, deaths>>
  BY DEF KTypeInv, ThreadInv, Fits, EditorSaves, At, DocumentOps, ByHand
<1>2. \E after : Rewrites(t, thread[t].doc, after)
  BY DEF EditorSaves
<1> QED BY <1>1, <1>2, RewritesKind

LEMMA RewriteTreeKind ==
  ASSUME KTypeInv, NEW t \in Threads, RewriteTree(t)
  PROVE  Rewriting(t) \/ (Elsewhere(t) /\ Answers(t))
<1> DEFINE d == thread[t].doc
           text == docs[d]
           at == Find(text, thread[t].node)
<1>1. /\ thread[t].op \in {"create", "update", "delete"} /\ thread[t].op \in DocumentOps /\ thread[t].pc = "checked"
      /\ d \in Docs /\ text \in Seq(Block) /\ UNCHANGED <<store, deaths>>
  BY DEF KTypeInv, StoreInv, ThreadInv, Fits, RewriteTree, DocumentOps
<1>2. at \subseteq DOMAIN text
  BY DEF Find
<1>3. ASSUME NEW after, thread[t].op \in {"create", "update"}, Rewrites(t, d, after)
      PROVE  Rewriting(t)
  BY <1>1, <1>3, RewritesKind DEF ByHand
<1>4. ASSUME NEW i \in at, Rewrites(t, d, RemoveAt(text, i))
      PROVE  Rewriting(t)
  BY <1>1, <1>2, <1>4, TwiceRemoved, RewritesKind
<1>5. ASSUME Answers(t)
      PROVE  Elsewhere(t)
  <2>1. thread'[t] = Waiting /\ OthersStay(t)
    BY <1>5, GoesTo DEF Answers
  <2> QED BY <1>1, <2>1 DEF Elsewhere, Waiting, store
<1>6. \/ thread[t].op = "create" /\ Rewrites(t, d, Append(text, thread[t].block))
      \/ thread[t].op = "update" /\ \E i \in at : Rewrites(t, d, [text EXCEPT ![i] = thread[t].block])
      \/ \E i \in at : Rewrites(t, d, RemoveAt(text, i))
      \/ Answers(t)
  BY DEF RewriteTree
<1> HIDE DEF d, text, at
<1>7. CASE thread[t].op = "create" /\ Rewrites(t, d, Append(text, thread[t].block))
  BY <1>3, <1>7
<1>8. CASE thread[t].op = "update" /\ \E i \in at : Rewrites(t, d, [text EXCEPT ![i] = thread[t].block])
  BY <1>3, <1>8
<1> QED BY <1>4, <1>5, <1>6, <1>7, <1>8

LEMMA EditorLoadsKind ==
  ASSUME KTypeInv, NEW t \in Threads, EditorLoads(t)
  PROVE  Loading(t)
<1>1. PICK d \in Docs : Goes(t, [Waiting EXCEPT !.op = "edit", !.pc = "editing", !.doc = d, !.seen = docs[d]])
  BY DEF EditorLoads
<1>2. thread'[t] = [Waiting EXCEPT !.op = "edit", !.pc = "editing", !.doc = d, !.seen = docs[d]] /\ OthersStay(t)
  BY <1>1, GoesTo
<1>3. thread[t].pc = "waiting" /\ UNCHANGED <<store, deaths>>
  BY DEF EditorLoads, Request, Waiting
<1> QED BY <1>2, <1>3 DEF Loading, Waiting, store

LEMMA ApplyPatchKind ==
  ASSUME KTypeInv, NEW t \in Threads, ApplyPatch(t)
  PROVE  Rewriting(t) \/ Elsewhere(t)
<1>1. thread[t].pc = "apply" /\ UNCHANGED <<docs, history, written, deaths>>
  BY ApplyPatchKinds DEF store
<1>2. ASSUME NEW c \in thread[t].todo, Goes(t, Passed(t, c))
      PROVE  Elsewhere(t)
  <2>1. thread'[t] = Passed(t, c) /\ OthersStay(t)
    BY <1>2, GoesTo
  <2>2. Passed(t, c).op = thread[t].op /\ Passed(t, c).pc = "apply" /\ Passed(t, c).todo = thread[t].todo \ {c}
    BY <1>1, PatchedType
  <2> QED BY <1>1, <2>1, <2>2 DEF Elsewhere
<1>3. ASSUME NEW c \in thread[t].todo, ~Has(docs[c.doc], c.content), Goes(t, Patched(t, c))
      PROVE  Rewriting(t)
  <2>1. thread'[t] = Patched(t, c) /\ OthersStay(t)
    BY <1>3, GoesTo
  <2>2. /\ Patched(t, c).op = thread[t].op /\ Patched(t, c).pc = "write" /\ Patched(t, c).todo = thread[t].todo \ {c}
        /\ Patched(t, c).doc = c.doc /\ c.doc \in Docs /\ Patched(t, c).before = docs[c.doc]
        /\ Patched(t, c).after = Append(docs[c.doc], [key |-> PatchKey, content |-> c.content])
    BY <1>1, PatchedType
  <2>3. c \in Candidate /\ docs[c.doc] \in Seq(Block)
    BY <1>1, <2>2, AppliesType DEF KTypeInv, StoreInv
  <2>4. [key |-> PatchKey, content |-> c.content] \in Block /\ [key |-> PatchKey, content |-> c.content].content = c.content
    BY <2>3 DEF Candidate, Block
  <2>5. \A x \in Contents : Twice(Patched(t, c).after, x) => Twice(docs[c.doc], x)
    BY <1>3, <2>2, <2>3, <2>4, TwiceAppended
  <2> QED BY <1>1, <2>1, <2>2, <2>5 DEF Rewriting
<1> QED BY <1>2, <1>3, ApplyPatchKinds

\* A request that comes in, a document's node that has been looked up, and
\* everything a thread does with its run before and after the documents.
LEMMA MovesElsewhere ==
  ASSUME KTypeInv, NEW t \in Threads, NEW to, Goes(t, to), UNCHANGED <<store, deaths>>,
         thread[t].pc \notin {"write", "record"}, to.pc \notin {"write", "record", "editing"},
         to.op = "step" /\ to.pc = "apply" => \A c \in to.todo : c.doc \notin Reviewed
  PROVE  Elsewhere(t)
BY GoesTo DEF Elsewhere, store

LEMMA AnswersElsewhere ==
  ASSUME KTypeInv, NEW t \in Threads, Answers(t), UNCHANGED <<store, deaths>>, thread[t].pc \notin {"write", "record"}
  PROVE  Elsewhere(t)
<1>1. Waiting.pc = "waiting"
  BY DEF Waiting
<1> QED BY <1>1, MovesElsewhere DEF Answers

LEMMA RunStepKind ==
  ASSUME KTypeInv, NEW t \in Threads, RunStep(t)
  PROVE  Rewriting(t) \/ Elsewhere(t)
<1>1. CASE LegacyProposes(t)
  <2>1. thread[t].op = "legacy" /\ thread[t].pc = "propose" /\ UNCHANGED <<store, deaths>> /\ thread[t] \in ThreadRec
    BY <1>1 DEF LegacyProposes, At, KTypeInv, ThreadInv
  <2>2. ASSUME NEW copy, Goes(t, [thread[t] EXCEPT !.pc = "save", !.copy = copy])
        PROVE  Elsewhere(t)
    <3> DEFINE to == [thread[t] EXCEPT !.pc = "save", !.copy = copy]
    <3>1. to.pc = "save"
      BY <2>1 DEF ThreadRec
    <3> HIDE DEF to
    <3> QED BY <2>1, <2>2, <3>1, MovesElsewhere DEF to
  <2> QED BY <1>1, <2>1, <2>2, AnswersElsewhere DEF LegacyProposes
<1>2. CASE StepConcludes(t)
  <2>1. thread[t].pc = "decide" /\ UNCHANGED <<store, deaths>> /\ thread[t] \in ThreadRec
    BY <1>2 DEF StepConcludes, At, KTypeInv, ThreadInv
  <2>2. ASSUME NEW copy, Goes(t, [thread[t] EXCEPT !.pc = "save", !.copy = copy])
        PROVE  Elsewhere(t)
    <3> DEFINE to == [thread[t] EXCEPT !.pc = "save", !.copy = copy]
    <3>1. to.pc = "save"
      BY <2>1 DEF ThreadRec
    <3> HIDE DEF to
    <3> QED BY <2>1, <2>2, <3>1, MovesElsewhere DEF to
  <2> QED BY <1>2, <2>1, <2>2, AnswersElsewhere DEF StepConcludes
<1>3. CASE StepReadsAgain(t)
  <2> DEFINE run == runs[thread[t].run]
             to == [thread[t] EXCEPT !.pc = "trace", !.copy = [run EXCEPT !.steps = run.steps + 1]]
  <2>1. thread[t].pc = "decide" /\ UNCHANGED <<store, deaths>> /\ Goes(t, to)
    BY <1>3 DEF StepReadsAgain, At
  <2>2. to.pc = "trace"
    BY DEF KTypeInv, ThreadInv, ThreadRec
  <2> HIDE DEF to
  <2> QED BY <2>1, <2>2, MovesElsewhere
<1>4. CASE StepTraces(t)
  <2>1. thread[t].op = "step" /\ thread[t].pc = "trace" /\ UNCHANGED <<store, deaths>>
    BY <1>4, StepTracesKinds
  <2>2. ASSUME NEW more \in {0, 1}, Goes(t, TracedFailed(t, more)) PROVE Elsewhere(t)
    <3>1. TracedFailed(t, more).pc = "save"
      BY <2>1, TracedType
    <3> QED BY <2>1, <2>2, <3>1, MovesElsewhere
  <2>3. ASSUME NEW run \in Observed([thread[t].copy EXCEPT !.status = "running"]), Goes(t, TracedOn(t, run))
        PROVE  Elsewhere(t)
    <3>1. \/ TracedOn(t, run).pc = "save"
          \/ TracedOn(t, run).pc = "apply" /\ TracedOn(t, run).todo = run.changes /\ AutoApplicable(run)
      BY <2>1, TracedType
    <3>2. TracedOn(t, run).pc = "apply" => \A c \in TracedOn(t, run).todo : c.doc \notin Reviewed
      BY <3>1 DEF AutoApplicable
    <3>3. TracedOn(t, run).pc \notin {"write", "record", "editing"}
      BY <3>1
    <3> QED BY <2>1, <2>3, <3>2, <3>3, MovesElsewhere
  <2> QED BY <1>4, <2>2, <2>3, StepTracesKinds
<1>5. CASE ApplyPatch(t)
  BY <1>5, ApplyPatchKind
<1>6. CASE SaveApplied(t)
  <2> DEFINE run == [thread[t].copy EXCEPT !.status = "applied"]
             to == [thread[t] EXCEPT !.pc = "remember", !.copy = [run EXCEPT !.status = "completed"]]
  <2>1. thread[t].pc = "apply" /\ UNCHANGED <<store, deaths>> /\ Goes(t, to)
    BY <1>6 DEF SaveApplied
  <2>2. to.pc = "remember"
    BY DEF KTypeInv, ThreadInv, ThreadRec
  <2> HIDE DEF to
  <2> QED BY <2>1, <2>2, MovesElsewhere
<1>7. CASE Remember(t)
  <2> DEFINE to == [thread[t] EXCEPT !.pc = "save"]
  <2>1. thread[t].pc = "remember" /\ UNCHANGED <<store, deaths>> /\ Goes(t, to)
    BY <1>7 DEF Remember
  <2>2. to.pc = "save"
    BY DEF KTypeInv, ThreadInv, ThreadRec
  <2> HIDE DEF to
  <2> QED BY <2>1, <2>2, MovesElsewhere
<1>8. CASE SaveRun(t)
  BY <1>8, AnswersElsewhere DEF SaveRun
<1> QED BY <1>1, <1>2, <1>3, <1>4, <1>5, <1>6, <1>7, <1>8 DEF RunStep

LEMMA LegacyCreatesKind ==
  ASSUME KTypeInv, NEW t \in Threads, LegacyCreates(t)
  PROVE  Elsewhere(t)
<1> DEFINE to == [Waiting EXCEPT !.op = "legacy", !.pc = "propose", !.run = Len(runs) + 1, !.copy = NewRun(FALSE)]
<1>1. thread[t].pc = "waiting" /\ UNCHANGED <<store, deaths>> /\ Goes(t, to)
  BY DEF LegacyCreates
<1>2. to.pc = "propose"
  BY DEF Waiting
<1> HIDE DEF to
<1> QED BY <1>1, <1>2, MovesElsewhere

LEMMA RequestKind ==
  ASSUME KTypeInv, NEW t \in Threads, NewRequest(t)
  PROVE  Loading(t) \/ Elsewhere(t)
<1>1. CASE CreateRun(t)
  <2>1. thread[t] = Waiting /\ UNCHANGED <<store, deaths>> /\ thread' = thread
    BY <1>1 DEF CreateRun, Request
  <2> QED BY <2>1 DEF Elsewhere, OthersStay, Waiting, store
<1>2. CASE Legacy(t)
  BY <1>2, LegacyCreatesKind DEF Legacy
<1>3. CASE StepBegins(t)
  <2>1. thread[t].pc = "waiting" /\ UNCHANGED <<store, deaths>>
    BY <1>3 DEF StepBegins, Request, Waiting
  <2>2. PICK to : Goes(t, to) /\ to.pc \in {"save", "decide"}
    <3> DEFINE Failed(r) == [Waiting EXCEPT !.op = "step", !.pc = "save", !.run = r,
                                            !.copy = [runs[r] EXCEPT !.status = "failed"]]
               Decides(r) == [Waiting EXCEPT !.op = "step", !.pc = "decide", !.run = r, !.copy = runs[r]]
    <3>1. PICK r \in DOMAIN runs : Goes(t, Failed(r)) \/ Goes(t, Decides(r))
      BY <1>3 DEF StepBegins
    <3>2. Failed(r).pc = "save" /\ Decides(r).pc = "decide"
      BY DEF Waiting
    <3> HIDE DEF Failed, Decides
    <3> QED BY <3>1, <3>2
  <2> QED BY <2>1, <2>2, MovesElsewhere
<1>4. CASE Approve(t)
  <2>1. thread[t].pc = "waiting" /\ UNCHANGED <<store, deaths>>
    BY <1>4 DEF Approve, Request, Waiting
  <2>2. \/ Answers(t)
        \/ \E to : Goes(t, to) /\ to.pc = "apply" /\ to.op = "approve"
    <3> DEFINE To(r) == [Waiting EXCEPT !.op = "approve", !.pc = "apply", !.run = r, !.copy = runs[r],
                                        !.todo = runs[r].changes]
    <3>1. PICK r \in DOMAIN runs : Goes(t, To(r)) \/ Answers(t)
      BY <1>4 DEF Approve
    <3>2. To(r).pc = "apply" /\ To(r).op = "approve"
      BY DEF Waiting
    <3> HIDE DEF To
    <3> QED BY <3>1, <3>2
  <2> QED BY <2>1, <2>2, MovesElsewhere, AnswersElsewhere
<1>5. CASE Reject(t)
  <2>1. thread[t].pc = "waiting" /\ UNCHANGED <<store, deaths>>
    BY <1>5 DEF Reject, Request, Waiting
  <2>2. PICK to : Goes(t, to) /\ to.pc = "remember"
    <3> DEFINE To(r) == [Waiting EXCEPT !.op = "reject", !.pc = "remember", !.run = r,
                                        !.copy = [runs[r] EXCEPT !.status = "rejected"]]
    <3>1. PICK r \in DOMAIN runs : Goes(t, To(r))
      BY <1>5 DEF Reject
    <3>2. To(r).pc = "remember"
      BY DEF Waiting
    <3> HIDE DEF To
    <3> QED BY <3>1, <3>2
  <2> QED BY <2>1, <2>2, MovesElsewhere
<1>6. CASE EditorLoads(t)
  BY <1>6, EditorLoadsKind
<1>7. ASSUME NEW op, Request(t, op), UNCHANGED <<store, deaths>>, NEW to, Goes(t, to), to.pc = "checked"
      PROVE  Elsewhere(t)
  <2>1. thread[t].pc = "waiting"
    BY <1>7 DEF Request, Waiting
  <2> QED BY <1>7, <2>1, MovesElsewhere
<1>8. CASE CreateNode(t)
  <2> DEFINE To(d, c) == [Waiting EXCEPT !.op = "create", !.pc = "checked", !.doc = d,
                                         !.block = [key |-> c, content |-> c]]
  <2>1. PICK d, c : Goes(t, To(d, c)) /\ Request(t, "create") /\ UNCHANGED <<store, deaths>>
    BY <1>8 DEF CreateNode
  <2>2. To(d, c).pc = "checked"
    BY DEF Waiting
  <2> HIDE DEF To
  <2> QED BY <1>7, <2>1, <2>2
<1>9. CASE UpdateNode(t)
  <2> DEFINE To(d, c, i) == [Waiting EXCEPT !.op = "update", !.pc = "checked", !.doc = d, !.node = NodeOf(docs[d], i),
                               !.block = [key |-> docs[d][i].key, content |-> c]]
  <2>1. PICK d, c, i : Goes(t, To(d, c, i)) /\ Request(t, "update") /\ UNCHANGED <<store, deaths>>
    BY <1>9 DEF UpdateNode
  <2>2. To(d, c, i).pc = "checked"
    BY DEF Waiting
  <2> HIDE DEF To
  <2> QED BY <1>7, <2>1, <2>2
<1>10. CASE DeleteNode(t)
  <2> DEFINE To(d, i) == [Waiting EXCEPT !.op = "delete", !.pc = "checked", !.doc = d, !.node = NodeOf(docs[d], i)]
  <2>1. PICK d, i : Goes(t, To(d, i)) /\ Request(t, "delete") /\ UNCHANGED <<store, deaths>>
    BY <1>10 DEF DeleteNode
  <2>2. To(d, i).pc = "checked"
    BY DEF Waiting
  <2> HIDE DEF To
  <2> QED BY <1>7, <2>1, <2>2
<1> QED BY <1>1, <1>2, <1>3, <1>4, <1>5, <1>6, <1>8, <1>9, <1>10 DEF NewRequest

LEMMA DocumentKinds ==
  ASSUME KTypeInv, Next
  PROVE  \/ Restart
         \/ \E t \in Threads : \/ WriteDocument(t) \/ RecordHistory(t)
                               \/ Rewriting(t) \/ Loading(t) \/ Elsewhere(t)
BY RunStepKind, RequestKind, EditorSavesKind, RewriteTreeKind DEF Next, DocumentStep

LEMMA WriteDocumentKind ==
  ASSUME KTypeInv, NEW t \in Threads, WriteDocument(t)
  PROVE  /\ thread[t].pc = "write" /\ thread'[t].pc = "record" /\ OthersStay(t)
         /\ thread'[t].op = thread[t].op /\ thread'[t].doc = thread[t].doc /\ thread'[t].todo = thread[t].todo
         /\ thread'[t].before = thread[t].before /\ thread'[t].after = thread[t].after
         /\ thread[t].doc \in Docs /\ UNCHANGED <<history, deaths>>
         /\ docs' = [docs EXCEPT ![thread[t].doc] = thread[t].after]
         /\ written' = [written EXCEPT ![thread[t].doc] = @ \cup {thread[t].after}]
<1>1. thread'[t] = [thread[t] EXCEPT !.pc = "record"] /\ OthersStay(t)
  BY GoesTo DEF WriteDocument
<1>2. thread[t].pc = "write" /\ thread[t] \in ThreadRec /\ thread[t].doc \in Docs
  BY DEF WriteDocument, KTypeInv, ThreadInv, Fits
<1> QED BY <1>1, <1>2 DEF WriteDocument, ThreadRec

LEMMA RecordHistoryKind ==
  ASSUME KTypeInv, NEW t \in Threads, RecordHistory(t)
  PROVE  /\ thread[t].pc = "record" /\ thread'[t].pc \in {"apply", "waiting"} /\ OthersStay(t)
         /\ thread'[t].op = "step" => thread[t].op = "step" /\ thread'[t].todo = thread[t].todo
         /\ thread[t].doc \in Docs /\ UNCHANGED <<docs, written, deaths>>
         /\ history' = history \cup {Entry(t)}
<1>1. thread[t].pc = "record" /\ thread[t] \in ThreadRec /\ thread[t].doc \in Docs
  BY DEF RecordHistory, KTypeInv, ThreadInv, Fits
<1>2. UNCHANGED <<docs, written, deaths>> /\ history' = history \cup {Entry(t)}
  BY DEF RecordHistory
<1>3. CASE thread[t].op \in RunOps
  <2>1. thread'[t] = [thread[t] EXCEPT !.pc = "apply"] /\ OthersStay(t)
    BY <1>3, GoesTo DEF RecordHistory
  <2> QED BY <1>1, <1>2, <2>1 DEF ThreadRec
<1>4. CASE thread[t].op \notin RunOps
  <2>1. thread'[t] = Waiting /\ OthersStay(t)
    BY <1>4, GoesTo DEF RecordHistory, Answers
  <2> QED BY <1>1, <1>2, <2>1 DEF Waiting
<1> QED BY <1>3, <1>4

LEMMA RestartKind ==
  ASSUME Restart
  PROVE  /\ deaths' = deaths + 1 /\ thread' = [t \in Threads |-> Waiting]
         /\ \A e \in history' \ history : e.by = "cleanup"
BY DEF Restart, store

-----------------------------------------------------------------------------
(* Reviewed documents: what a step without a reviewer is about to write    *)
(* has passed the policy, and nothing it reads later adds a document.      *)

Unreviewed == \A t \in Threads : thread[t].op = "step" =>
  /\ thread[t].pc \in {"apply", "write", "record"} => \A c \in thread[t].todo : c.doc \notin Reviewed
  /\ thread[t].pc \in {"write", "record"} => thread[t].doc \notin Reviewed

ReviewInv == Unreviewed /\ ReviewedNeedsApproval

LEMMA ReviewStep ==
  ASSUME KTypeInv, ReviewInv, Next
  PROVE  ReviewInv'
<1>1. CASE Restart
  <2>1. Unreviewed'
    BY <1>1, RestartKind DEF Unreviewed, Waiting
  <2>2. ReviewedNeedsApproval'
    BY <1>1, RestartKind DEF ReviewInv, ReviewedNeedsApproval
  <2> QED BY <2>1, <2>2 DEF ReviewInv
<1>2. ASSUME NEW t \in Threads, WriteDocument(t) PROVE ReviewInv'
  BY <1>2, WriteDocumentKind DEF ReviewInv, Unreviewed, ReviewedNeedsApproval, OthersStay
<1>3. ASSUME NEW t \in Threads, RecordHistory(t) PROVE ReviewInv'
  <2>1. Unreviewed'
    BY <1>3, RecordHistoryKind DEF ReviewInv, Unreviewed, OthersStay
  <2>2. Entry(t).by = thread[t].op /\ Entry(t).doc = thread[t].doc
    BY DEF Entry
  <2>3. ReviewedNeedsApproval'
    BY <1>3, <2>2, RecordHistoryKind DEF ReviewInv, Unreviewed, ReviewedNeedsApproval
  <2> QED BY <2>1, <2>3 DEF ReviewInv
<1>4. ASSUME NEW t \in Threads, Rewriting(t) PROVE ReviewInv'
  BY <1>4 DEF Rewriting, ReviewInv, Unreviewed, ReviewedNeedsApproval, OthersStay
<1>5. ASSUME NEW t \in Threads, Loading(t) PROVE ReviewInv'
  BY <1>5 DEF Loading, ReviewInv, Unreviewed, ReviewedNeedsApproval, OthersStay
<1>6. ASSUME NEW t \in Threads, Elsewhere(t) PROVE ReviewInv'
  BY <1>6 DEF Elsewhere, ReviewInv, Unreviewed, ReviewedNeedsApproval, OthersStay
<1> QED BY <1>1, <1>2, <1>3, <1>4, <1>5, <1>6, DocumentKinds

\* No step of a run changes a document of the system prompt without a reviewer
\* (PolicyGuard.can_auto_apply), whatever other threads save of the run
\* between the decision and the writing.
THEOREM ReviewedDocumentsAreApproved == Spec => []ReviewedNeedsApproval
<1>1. Init => KTypeInv /\ ReviewInv
  BY TypeInit DEF Init, Waiting, ReviewInv, Unreviewed, ReviewedNeedsApproval
<1>2. (KTypeInv /\ ReviewInv) /\ [Next]_vars => (KTypeInv /\ ReviewInv)'
  <2>1. ReviewInv /\ UNCHANGED vars => ReviewInv'
    BY DEF vars, store, ReviewInv, Unreviewed, ReviewedNeedsApproval
  <2> QED BY <2>1, TypeStep, ReviewStep
<1>3. ReviewInv => ReviewedNeedsApproval
  BY DEF ReviewInv
<1> QED BY <1>1, <1>2, <1>3, PTL DEF Spec

-----------------------------------------------------------------------------
(* No text is lost.  Before the death of the process, a text a file has    *)
(* had is in an entry, or in the hands of the thread that has yet to write *)
(* one; the text of the beginning is in no entry until its document is     *)
(* written for the first time, and each thread that may be the first to    *)
(* write has it as the text before.                                        *)

InEntry(d, text) ==
  \/ \E e \in history : e.doc = d /\ text \in {e.before, e.after}
  \/ \E t \in Threads : thread[t].pc = "record" /\ thread[t].doc = d /\ text \in {thread[t].before, thread[t].after}

Untouched(d) ==
  /\ docs[d] = << >>
  /\ \A t \in Threads : thread[t].pc = "write" /\ thread[t].doc = d => thread[t].before = << >>

KeptInv ==
  /\ deaths \in Nat
  /\ deaths = 0 => \A d \in Docs : \A text \in written[d] :
       InEntry(d, text) \/ (text = << >> /\ Untouched(d))

LEMMA KeptNothingUnrecorded == KeptInv => NothingUnrecorded
BY DEF KeptInv, NothingUnrecorded, InEntry, Untouched, Recorded

LEMMA KeptStep ==
  ASSUME KTypeInv, KeptInv, Next
  PROVE  KeptInv'
<1>1. CASE Restart
  BY <1>1, RestartKind DEF KeptInv
<1>2. ASSUME NEW t \in Threads, WriteDocument(t) PROVE KeptInv'
  <2>1. SUFFICES ASSUME deaths = 0, NEW d \in Docs, NEW text \in written'[d]
                 PROVE  InEntry(d, text)' \/ (text = << >> /\ Untouched(d)')
    BY <1>2, WriteDocumentKind DEF KeptInv
  <2>2. InEntry(d, text) => InEntry(d, text)'
    BY <1>2, WriteDocumentKind DEF InEntry, OthersStay
  <2>3. CASE d = thread[t].doc
    <3>1. text = thread[t].after \/ text \in written[d]
      BY <1>2, <2>3, WriteDocumentKind DEF KTypeInv, StoreInv
    <3>2. ASSUME text \in {thread[t].before, thread[t].after} PROVE InEntry(d, text)'
      BY <1>2, <2>3, <3>2, WriteDocumentKind DEF InEntry
    <3>3. CASE text \in written[d] /\ ~InEntry(d, text)
      <4>1. text = << >> /\ Untouched(d)
        BY <2>1, <3>3 DEF KeptInv
      <4>2. text = thread[t].before
        BY <1>2, <2>3, <4>1, WriteDocumentKind DEF Untouched
      <4> QED BY <3>2, <4>2
    <3> QED BY <2>2, <3>1, <3>2, <3>3
  <2>4. CASE d # thread[t].doc
    <3>1. text \in written[d] /\ docs'[d] = docs[d]
      BY <1>2, <2>4, WriteDocumentKind DEF KTypeInv, StoreInv
    <3>2. Untouched(d) => Untouched(d)'
      BY <1>2, <2>4, <3>1, WriteDocumentKind DEF Untouched, OthersStay
    <3> QED BY <2>1, <2>2, <3>1, <3>2 DEF KeptInv
  <2> QED BY <2>3, <2>4
<1>3. ASSUME NEW t \in Threads, RecordHistory(t) PROVE KeptInv'
  <2>1. SUFFICES ASSUME deaths = 0, NEW d \in Docs, NEW text \in written[d]
                 PROVE  InEntry(d, text)' \/ (text = << >> /\ Untouched(d)')
    BY <1>3, RecordHistoryKind DEF KeptInv
  <2>2. Entry(t).doc = thread[t].doc /\ Entry(t).before = thread[t].before /\ Entry(t).after = thread[t].after
    BY DEF Entry
  <2>3. InEntry(d, text) => InEntry(d, text)'
    BY <1>3, <2>2, RecordHistoryKind DEF InEntry, OthersStay
  <2>4. Untouched(d) => Untouched(d)'
    BY <1>3, RecordHistoryKind DEF Untouched, OthersStay
  <2> QED BY <2>1, <2>3, <2>4 DEF KeptInv
<1>4. ASSUME NEW t \in Threads, Rewriting(t) \/ Loading(t) \/ Elsewhere(t) PROVE KeptInv'
  <2>1. SUFFICES ASSUME deaths = 0, NEW d \in Docs, NEW text \in written[d]
                 PROVE  InEntry(d, text)' \/ (text = << >> /\ Untouched(d)')
    BY <1>4 DEF KeptInv, Rewriting, Loading, Elsewhere
  <2>2. InEntry(d, text) => InEntry(d, text)'
    BY <1>4 DEF InEntry, OthersStay, Rewriting, Loading, Elsewhere
  <2>3. Untouched(d) => Untouched(d)'
    BY <1>4 DEF Untouched, OthersStay, Rewriting, Loading, Elsewhere
  <2> QED BY <2>1, <2>2, <2>3 DEF KeptInv
<1> QED BY <1>1, <1>2, <1>3, <1>4, DocumentKinds

LEMMA KeptInit == Init => KeptInv
BY DEF Init, KeptInv, InEntry, Untouched, Waiting

LEMMA KeptStutter == KeptInv /\ UNCHANGED vars => KeptInv'
BY DEF vars, store, KeptInv, InEntry, Untouched

-----------------------------------------------------------------------------
(* Duplicates: a text that says a thing twice, on file or about to be      *)
(* written, has a write by hand behind it.                                 *)

FromHand(d, c) ==
  \/ \E e \in history : e.doc = d /\ e.by \in ByHand /\ Twice(e.after, c)
  \/ \E t \in Threads : /\ thread[t].op \in ByHand /\ thread[t].pc \in {"write", "record"}
                        /\ thread[t].doc = d /\ Twice(thread[t].after, c)

HandInv ==
  /\ deaths \in Nat
  /\ deaths = 0 => \A c \in Contents :
       /\ \A d \in Docs : Twice(docs[d], c) => FromHand(d, c)
       /\ \A t \in Threads : thread[t].pc = "write" /\ Twice(thread[t].after, c) => FromHand(thread[t].doc, c)

LEMMA HandInvDuplicates == HandInv => DuplicatesByHand
BY DEF HandInv, FromHand, DuplicatesByHand

LEMMA HandInit == Init => HandInv
BY DEF Init, HandInv, Twice, Waiting

LEMMA HandStutter == HandInv /\ UNCHANGED vars => HandInv'
BY DEF vars, store, HandInv, FromHand

LEMMA HandStep ==
  ASSUME KTypeInv, HandInv, Next
  PROVE  HandInv'
<1>1. CASE Restart
  BY <1>1, RestartKind DEF HandInv
<1>2. ASSUME NEW t \in Threads, WriteDocument(t) PROVE HandInv'
  <2>1. deaths' = deaths
    BY <1>2, WriteDocumentKind
  <2>2. ASSUME NEW d \in Docs, NEW c \in Contents, FromHand(d, c) PROVE FromHand(d, c)'
    BY <1>2, <2>2, WriteDocumentKind DEF FromHand, OthersStay
  <2>3. ASSUME deaths = 0, NEW d \in Docs, NEW c \in Contents, Twice(docs'[d], c) PROVE FromHand(d, c)'
    <3>1. CASE d = thread[t].doc
      <4>1. docs'[d] = thread[t].after /\ thread[t].pc = "write"
        BY <1>2, <3>1, WriteDocumentKind DEF KTypeInv, StoreInv
      <4> QED BY <2>2, <2>3, <3>1, <4>1 DEF HandInv
    <3>2. CASE d # thread[t].doc
      <4>1. docs'[d] = docs[d]
        BY <1>2, <3>2, WriteDocumentKind DEF KTypeInv, StoreInv
      <4> QED BY <2>2, <2>3, <4>1 DEF HandInv
    <3> QED BY <3>1, <3>2
  <2>4. ASSUME NEW u \in Threads, thread'[u].pc = "write"
        PROVE  thread'[u] = thread[u] /\ thread[u].doc \in Docs
    BY <1>2, <2>4, WriteDocumentKind DEF OthersStay, KTypeInv, ThreadInv, Fits, DocumentOps
  <2> QED BY <2>1, <2>2, <2>3, <2>4 DEF HandInv
<1>3. ASSUME NEW t \in Threads, RecordHistory(t) PROVE HandInv'
  <2>1. deaths' = deaths /\ docs' = docs
    BY <1>3, RecordHistoryKind
  <2>2. Entry(t).doc = thread[t].doc /\ Entry(t).by = thread[t].op /\ Entry(t).after = thread[t].after
    BY DEF Entry
  <2>3. ASSUME NEW d \in Docs, NEW c \in Contents, FromHand(d, c) PROVE FromHand(d, c)'
    BY <1>3, <2>2, <2>3, RecordHistoryKind DEF FromHand, OthersStay
  <2>4. ASSUME NEW u \in Threads, thread'[u].pc = "write"
        PROVE  thread'[u] = thread[u] /\ thread[u].doc \in Docs
    BY <1>3, <2>4, RecordHistoryKind DEF OthersStay, KTypeInv, ThreadInv, Fits, DocumentOps
  <2> QED BY <2>1, <2>3, <2>4 DEF HandInv
<1>4. ASSUME NEW t \in Threads, Rewriting(t) \/ Loading(t) \/ Elsewhere(t) PROVE HandInv'
  <2>1. deaths' = deaths /\ docs' = docs
    BY <1>4 DEF Rewriting, Loading, Elsewhere
  <2>2. ASSUME NEW d \in Docs, NEW c \in Contents, FromHand(d, c) PROVE FromHand(d, c)'
    BY <1>4, <2>2 DEF FromHand, OthersStay, Rewriting, Loading, Elsewhere
  <2>3. ASSUME deaths = 0, NEW c \in Contents, NEW u \in Threads, u # t,
               thread'[u].pc = "write", Twice(thread'[u].after, c)
        PROVE  FromHand(thread[u].doc, c)' /\ thread'[u] = thread[u]
    <3>1. thread'[u] = thread[u]
      BY <1>4, <2>3 DEF OthersStay, Rewriting, Loading, Elsewhere
    <3>2. thread[u].pc = "write" => thread[u].doc \in Docs
      BY DEF KTypeInv, ThreadInv, Fits, DocumentOps
    <3> QED BY <2>2, <2>3, <3>1, <3>2 DEF HandInv
  <2>4. ASSUME deaths = 0, NEW c \in Contents, thread'[t].pc = "write", Twice(thread'[t].after, c)
        PROVE  FromHand(thread[t].doc, c)'
    <3>1. Rewriting(t)
      BY <1>4, <2>4 DEF Loading, Elsewhere
    <3>2. CASE thread[t].op \in ByHand
      BY <2>4, <3>1, <3>2 DEF Rewriting, FromHand
    <3>3. CASE Twice(thread'[t].before, c)
      BY <2>2, <2>4, <3>1, <3>3 DEF Rewriting, HandInv
    <3> QED BY <2>4, <3>1, <3>2, <3>3 DEF Rewriting
  <2>5. deaths = 0 => \A c \in Contents, d \in Docs : Twice(docs'[d], c) => FromHand(d, c)'
    BY <2>1, <2>2 DEF HandInv
  <2> QED BY <2>1, <2>3, <2>4, <2>5 DEF HandInv
<1> QED BY <1>1, <1>2, <1>3, <1>4, DocumentKinds

\* Until the process dies, a text says a thing twice only after somebody wrote it so: in
\* the editor, or in the tree, whose check for duplicates and whose writing read the file
\* each for itself (save_document, add_tree_node, update_tree_node).  A patch says nothing
\* that it has not found missing in what it writes, whatever writes it overwrites.
THEOREM DuplicatesAreByHand == Spec => []DuplicatesByHand
<1>1. (KTypeInv /\ HandInv) /\ [Next]_vars => (KTypeInv /\ HandInv)'
  BY TypeStep, HandStep, HandStutter
<1> QED BY <1>1, TypeInit, HandInit, HandInvDuplicates, PTL DEF Spec


-----------------------------------------------------------------------------
(* Completed runs.  What a candidate asked for was in its document, and    *)
(* that, like a line of the memory, does not go away; so a copy that says  *)
(* completed may be saved at any later time, over whatever is on file.     *)

Effected(c) == c.content \in Invalid \/ \E text \in written[c.doc] : Has(text, c.content)
Done(r, run) ==
  /\ [run |-> r, rejected |-> FALSE] \in memory
  /\ \A c \in run.changes : Effected(c)

\* Of each candidate of its copy, an apply has yet to take it, or has seen to
\* it, or is about to write it.
ThreadDone(th) == th.op \in RunOps =>
  /\ th.pc # "remember" /\ th.copy.status = "completed" => Done(th.run, th.copy)
  /\ th.pc \in {"apply", "write", "record"} => \A c \in th.copy.changes :
       \/ c \in th.todo
       \/ Effected(c)
       \/ th.pc = "write" /\ c.doc = th.doc /\ Has(th.after, c.content)
  /\ th.pc = "remember" /\ th.op # "reject" => \A c \in th.copy.changes : Effected(c)
  /\ th.pc = "remember" /\ th.op = "reject" => th.copy.status = "rejected"
  /\ th.op = "reject" => th.pc \in {"remember", "save"}

DoneInv ==
  /\ \A r \in DOMAIN runs : runs[r].status = "completed" => Done(r, runs[r])
  /\ \A t \in Threads : ThreadDone(thread[t])

Grows == memory \subseteq memory' /\ \A d \in Docs : written[d] \subseteq written'[d]

LEMMA DoneCompleted == DoneInv => CompletedAfterEffects
BY DEF DoneInv, Done, Effected, CompletedAfterEffects

LEMMA EffectedGrows ==
  ASSUME Grows, NEW c \in Candidate, Effected(c)
  PROVE  Effected(c)'
BY DEF Grows, Effected, Candidate

LEMMA DoneGrows ==
  ASSUME Grows, NEW r, NEW run \in Run, Done(r, run)
  PROVE  Done(r, run)'
<1>1. run.changes \subseteq Candidate
  BY DEF Run
<1> QED BY <1>1, EffectedGrows DEF Done, Grows

LEMMA ThreadDoneGrows ==
  ASSUME Grows, NEW th \in ThreadRec, th.op \in RunOps => th.copy \in Run, ThreadDone(th)
  PROVE  ThreadDone(th)'
<1>1. th.op \in RunOps => th.copy.changes \subseteq Candidate
  BY DEF Run
<1> QED BY <1>1, EffectedGrows, DoneGrows DEF ThreadDone

\* One thread moves on, and what is newly on file is not completed or done.
LEMMA DoneMoves ==
  ASSUME KTypeInv, DoneInv, Grows, NEW t \in Threads, OthersStay(t), ThreadDone(thread[t])',
         \A r \in DOMAIN runs' :
           \/ r \in DOMAIN runs /\ runs'[r] = runs[r]
           \/ runs'[r].status # "completed"
           \/ \E run \in Run : runs'[r] = run /\ Done(r, run)
  PROVE  DoneInv'
<1>1. ASSUME NEW u \in Threads PROVE ThreadDone(thread[u])'
  <2>1. CASE u = t
    BY <2>1
  <2>2. CASE u # t
    <3>1. thread'[u] = thread[u]
      BY <2>2 DEF OthersStay
    <3>2. thread[u] \in ThreadRec /\ (thread[u].op \in RunOps => thread[u].copy \in Run) /\ ThreadDone(thread[u])
      BY DEF KTypeInv, ThreadInv, Fits, DoneInv
    <3>3. PICK th : th = thread[u]
      OBVIOUS
    <3>4. th \in ThreadRec /\ (th.op \in RunOps => th.copy \in Run) /\ ThreadDone(th)
      BY <3>2, <3>3
    <3>5. ThreadDone(th)'
      BY <3>4, ThreadDoneGrows
    <3>6. thread'[u] = th
      BY <3>1, <3>3
    <3> QED BY <3>5, <3>6 DEF ThreadDone, Done, Effected
  <2> QED BY <2>1, <2>2
<1>2. ASSUME NEW r \in DOMAIN runs', runs'[r].status = "completed" PROVE Done(r, runs[r])'
  <2>1. CASE r \in DOMAIN runs /\ runs'[r] = runs[r]
    <3>1. Done(r, runs[r]) /\ runs[r] \in Run
      BY <1>2, <2>1 DEF DoneInv, KTypeInv, RunsInv
    <3> QED BY <2>1, <3>1, DoneGrows DEF Done, Effected
  <2>2. ASSUME NEW run \in Run, runs'[r] = run, Done(r, run) PROVE Done(r, runs[r])'
    BY <2>2, DoneGrows DEF Done, Effected
  <2> QED BY <1>2, <2>1, <2>2
<1> QED BY <1>1, <1>2 DEF DoneInv

LEMMA WaitingDone ==
  ASSUME NEW t \in Threads, thread'[t].op \notin RunOps
  PROVE  ThreadDone(thread[t])'
BY DEF ThreadDone

LEMMA GrowsStep ==
  ASSUME KTypeInv, Next
  PROVE  Grows
<1>1. memory \subseteq memory'
  BY DEF Next, Restart, RunStep, DocumentStep, NewRequest, LegacyProposes, StepConcludes, StepReadsAgain, StepTraces,
     ApplyPatch, SaveApplied, Remember, SaveRun, EditorSaves, RewriteTree, WriteDocument, RecordHistory,
     CreateRun, Legacy, LegacyCreates, StepBegins, Approve, Reject, EditorLoads, CreateNode, UpdateNode, DeleteNode
<1>2. ASSUME NEW t \in Threads, WriteDocument(t) PROVE \A d \in Docs : written[d] \subseteq written'[d]
  BY <1>2, WriteDocumentKind DEF KTypeInv, StoreInv
<1>3. Restart => \A d \in Docs : written[d] \subseteq written'[d]
  <2> SUFFICES ASSUME Restart PROVE \A d \in Docs : written[d] \subseteq written'[d]
    OBVIOUS
  <2>1. \/ written' = written
        \/ \E clean : written' = [written EXCEPT ![FewShot] = @ \cup {clean}]
    BY DEF Restart, store
  <2> QED BY <2>1 DEF KTypeInv, StoreInv
<1>4. ASSUME NEW t \in Threads, RecordHistory(t) \/ Rewriting(t) \/ Loading(t) \/ Elsewhere(t)
      PROVE  written' = written
  BY <1>4, RecordHistoryKind DEF Rewriting, Loading, Elsewhere
<1>5. \A d \in Docs : written[d] \subseteq written'[d]
  BY <1>2, <1>3, <1>4, DocumentKinds
<1> QED BY <1>1, <1>5 DEF Grows

LEMMA DocumentStepDone ==
  ASSUME KTypeInv, DoneInv, Grows, NEW t \in Threads, DocumentStep(t)
  PROVE  DoneInv'
<1>1. runs' = runs
  BY DEF DocumentStep, EditorSaves, RewriteTree, WriteDocument, RecordHistory
<1>2. thread[t] \in ThreadRec /\ (thread[t].op \in RunOps => thread[t].copy \in Run) /\ ThreadDone(thread[t])
  BY DEF KTypeInv, ThreadInv, Fits, DoneInv
<1>3. CASE EditorSaves(t) \/ RewriteTree(t)
  <2>1. thread[t].op \notin RunOps
    BY <1>3 DEF EditorSaves, RewriteTree, At, RunOps
  <2>2. Rewriting(t) \/ (OthersStay(t) /\ thread'[t].op = "none")
    BY <1>3, EditorSavesKind, RewriteTreeKind, GoesTo DEF Answers, Waiting
  <2>3. OthersStay(t) /\ thread'[t].op \notin RunOps
    BY <2>1, <2>2 DEF Rewriting, RunOps
  <2> QED BY <1>1, <2>3, WaitingDone, DoneMoves
<1>4. CASE WriteDocument(t)
  <2>1. /\ thread'[t].pc = "record" /\ thread[t].pc = "write" /\ OthersStay(t)
        /\ thread'[t].op = thread[t].op /\ thread'[t].todo = thread[t].todo
        /\ thread'[t].run = thread[t].run /\ thread'[t].copy = thread[t].copy
    BY <1>2, <1>4, GoesTo DEF WriteDocument, ThreadRec
  <2>2. thread[t].after \in written'[thread[t].doc]
    BY <1>4, WriteDocumentKind DEF KTypeInv, StoreInv
  <2>3. ASSUME NEW c \in Candidate, c.doc = thread[t].doc, Has(thread[t].after, c.content)
        PROVE  Effected(c)'
    BY <2>2, <2>3 DEF Effected
  <2>4. ThreadDone(thread[t])'
    <3>1. ThreadDone(thread[t]) /\ (thread[t].op \in RunOps => thread[t].copy \in Run /\ thread[t].copy.changes \subseteq Candidate)
      BY <1>2 DEF Run
    <3>2. thread[t].op \in RunOps /\ thread[t].copy.status = "completed" => Done(thread[t].run, thread[t].copy)'
      BY <2>1, <3>1, DoneGrows DEF ThreadDone, Done, Effected
    <3> QED BY <2>1, <2>3, <3>1, <3>2, EffectedGrows DEF ThreadDone
  <2> QED BY <1>1, <2>1, <2>4, DoneMoves
<1>5. CASE RecordHistory(t)
  <2>1. thread[t].pc = "record" /\ OthersStay(t)
    BY <1>5, RecordHistoryKind
  <2>2. CASE thread[t].op \in RunOps
    <3>1. /\ thread'[t].pc = "apply" /\ thread'[t].op = thread[t].op /\ thread'[t].todo = thread[t].todo
          /\ thread'[t].run = thread[t].run /\ thread'[t].copy = thread[t].copy
      BY <1>2, <1>5, <2>2, GoesTo DEF RecordHistory, ThreadRec
    <3>2. ThreadDone(thread[t]) /\ thread[t].copy \in Run /\ thread[t].copy.changes \subseteq Candidate
      BY <1>2, <2>2 DEF Run
    <3>3. thread[t].copy.status = "completed" => Done(thread[t].run, thread[t].copy)'
      BY <2>1, <2>2, <3>1, <3>2, DoneGrows DEF ThreadDone, Done, Effected
    <3>4. ThreadDone(thread[t])'
      BY <2>1, <2>2, <3>1, <3>2, <3>3, EffectedGrows DEF ThreadDone
    <3> QED BY <1>1, <2>1, <3>4, DoneMoves
  <2>3. CASE thread[t].op \notin RunOps
    <3>1. thread'[t].op \notin RunOps
      BY <1>5, <2>3, GoesTo DEF RecordHistory, Answers, Waiting, RunOps
    <3> QED BY <1>1, <2>1, <3>1, WaitingDone, DoneMoves
  <2> QED BY <2>2, <2>3
<1> QED BY <1>3, <1>4, <1>5 DEF DocumentStep

\* A thread's new record that says nothing that is not so yet.
LEMMA ThreadDoneNow ==
  ASSUME KTypeInv, Grows, NEW t \in Threads, NEW to \in ThreadRec, thread'[t] = to,
         to.op \in RunOps => to.copy \in Run, ThreadDone(to)
  PROVE  ThreadDone(thread[t])'
<1>1. ThreadDone(to)'
  BY ThreadDoneGrows
<1> QED BY <1>1 DEF ThreadDone, Done, Effected

LEMMA RunStepDone ==
  ASSUME KTypeInv, DoneInv, Grows, NEW t \in Threads, RunStep(t)
  PROVE  DoneInv'
<1>1. thread[t] \in ThreadRec /\ ThreadDone(thread[t])
  BY DEF KTypeInv, ThreadInv, DoneInv
<1>2. ASSUME runs' = runs, Answers(t) PROVE DoneInv'
  <2>1. OthersStay(t) /\ thread'[t].op \notin RunOps
    BY <1>2, GoesTo DEF Answers, Waiting, RunOps
  <2> QED BY <1>2, <2>1, WaitingDone, DoneMoves
<1>3. CASE LegacyProposes(t)
  <2>1. thread[t].op = "legacy" /\ runs' = runs /\ thread[t].copy \in Run
    BY <1>3, RunThreadType DEF LegacyProposes, At, RunOps
  <2> DEFINE Copy(P) == [thread[t].copy EXCEPT !.steps = 1, !.changes = P, !.improved = P # {},
                           !.status = IF P = {} THEN "failed" ELSE "needs_review"]
             To(P) == [thread[t] EXCEPT !.pc = "save", !.copy = Copy(P)]
  <2>2. ASSUME NEW P \in Proposals(TRUE), Goes(t, To(P)) PROVE DoneInv'
    <3>1. Copy(P).status # "completed"
      BY <2>1 DEF Run
    <3> HIDE DEF Copy
    <3>2. thread'[t] = To(P) /\ OthersStay(t)
      BY <2>2, GoesTo
    <3>3. thread'[t].op = thread[t].op /\ thread'[t].pc = "save" /\ thread'[t].copy.status # "completed"
      BY <1>1, <3>1, <3>2 DEF ThreadRec
    <3>4. ThreadDone(thread[t])'
      BY <2>1, <3>3 DEF ThreadDone
    <3> QED BY <2>1, <3>2, <3>4, DoneMoves
  <2>3. Answers(t) \/ \E P \in Proposals(TRUE) : Goes(t, To(P))
    BY <1>3 DEF LegacyProposes
  <2> HIDE DEF To
  <2> QED BY <1>2, <2>1, <2>2, <2>3
<1>4. CASE StepConcludes(t)
  <2>1. thread[t].op = "step" /\ runs' = runs /\ thread[t].copy \in Run
    BY <1>4, RunThreadType DEF StepConcludes, At, RunOps
  <2> DEFINE Copy(status) == [thread[t].copy EXCEPT !.status = status, !.steps = thread[t].copy.steps + 1]
             To(status) == [thread[t] EXCEPT !.pc = "save", !.copy = Copy(status)]
  <2>2. ASSUME NEW status \in {"needs_review", "rejected"}, Goes(t, To(status)) PROVE DoneInv'
    <3>1. Copy(status).status # "completed"
      BY <2>1 DEF Run
    <3> HIDE DEF Copy
    <3>2. thread'[t] = To(status) /\ OthersStay(t)
      BY <2>2, GoesTo
    <3>3. thread'[t].op = thread[t].op /\ thread'[t].pc = "save" /\ thread'[t].copy.status # "completed"
      BY <1>1, <3>1, <3>2 DEF ThreadRec
    <3>4. ThreadDone(thread[t])'
      BY <2>1, <3>3 DEF ThreadDone
    <3> QED BY <2>1, <3>2, <3>4, DoneMoves
  <2>3. Answers(t) \/ \E status \in {"needs_review", "rejected"} : Goes(t, To(status))
    BY <1>4 DEF StepConcludes
  <2> HIDE DEF To
  <2> QED BY <1>2, <2>1, <2>2, <2>3
<1>5. CASE StepReadsAgain(t)
  <2> DEFINE run == runs[thread[t].run]
             copy == [run EXCEPT !.steps = run.steps + 1]
             to == [thread[t] EXCEPT !.pc = "trace", !.copy = copy]
  <2>1. thread[t].op = "step" /\ runs' = runs /\ thread'[t] = to /\ OthersStay(t)
    BY <1>5, GoesTo DEF StepReadsAgain, At
  <2>2. thread[t].run \in DOMAIN runs /\ run \in Run
    BY <2>1, RunThreadType DEF RunOps, KTypeInv, RunsInv
  <2>3. copy.status = run.status /\ copy.changes = run.changes /\ copy \in Run
    BY <2>2 DEF Run
  <2>4. run.status = "completed" => Done(thread[t].run, run)
    BY <2>2 DEF DoneInv
  <2> HIDE DEF copy
  <2>5. to.pc = "trace" /\ to.op = "step" /\ to.run = thread[t].run /\ to.copy = copy /\ to \in ThreadRec
    BY <1>1, <2>1, <2>3 DEF ThreadRec, RunPcs
  <2> HIDE DEF to
  <2>6. ThreadDone(to)
    BY <2>3, <2>4, <2>5 DEF ThreadDone, Done
  <2>7. ThreadDone(thread[t])'
    BY <2>1, <2>3, <2>5, <2>6, ThreadDoneNow
  <2> QED BY <2>1, <2>7, DoneMoves
<1>6. CASE StepTraces(t)
  <2>1. /\ thread[t].op = "step" /\ thread[t].op \in RunOps /\ thread[t].pc = "trace"
        /\ runs' = [runs EXCEPT ![thread[t].run] = thread[t].copy]
    BY <1>6, StepTracesKinds DEF RunOps
  <2>2. thread[t].run \in DOMAIN runs /\ thread[t].copy \in Run
    BY <2>1, RunThreadType
  <2>3. thread[t].copy.status = "completed" => Done(thread[t].run, thread[t].copy)
    BY <1>1, <2>1 DEF ThreadDone
  <2>4. ASSUME NEW r \in DOMAIN runs'
        PROVE  \/ r \in DOMAIN runs /\ runs'[r] = runs[r]
               \/ runs'[r].status # "completed"
               \/ \E run \in Run : runs'[r] = run /\ Done(r, run)
    BY <2>1, <2>2, <2>3
  <2>5. ASSUME OthersStay(t), ThreadDone(thread[t])' PROVE DoneInv'
    BY <2>4, <2>5, DoneMoves
  <2>6. ASSUME NEW more \in {0, 1}, Goes(t, TracedFailed(t, more)) PROVE DoneInv'
    <3>1. thread'[t] = TracedFailed(t, more) /\ OthersStay(t)
      BY <2>6, GoesTo
    <3> DEFINE to == TracedFailed(t, more)
    <3>2. to.op = "step" /\ to.pc = "save" /\ to.copy.status = "failed"
      BY <2>1, TracedType
    <3> HIDE DEF to
    <3>3. thread'[t] = to
      BY <3>1 DEF to
    <3>4. ThreadDone(thread[t])'
      BY <3>2, <3>3 DEF ThreadDone
    <3> QED BY <2>5, <3>1, <3>4
  <2>7. ASSUME NEW run \in Observed([thread[t].copy EXCEPT !.status = "running"]), Goes(t, TracedOn(t, run))
        PROVE  DoneInv'
    <3>1. thread'[t] = TracedOn(t, run) /\ OthersStay(t)
      BY <2>7, GoesTo
    <3> DEFINE to == TracedOn(t, run)
    <3>2. /\ to.op = "step" /\ to.copy = run /\ run.status = "running"
          /\ \/ to.pc = "save"
             \/ to.pc = "apply" /\ to.todo = run.changes
      BY <2>1, TracedType
    <3> HIDE DEF to
    <3>3. thread'[t] = to
      BY <3>1 DEF to
    <3>4. ThreadDone(thread[t])'
      BY <3>2, <3>3 DEF ThreadDone
    <3> QED BY <2>5, <3>1, <3>4
  <2> QED BY <1>6, <2>6, <2>7, StepTracesKinds
<1>7. CASE ApplyPatch(t)
  <2>1. thread[t].pc = "apply" /\ runs' = runs /\ thread[t].op \in RunOps /\ thread[t].copy \in Run
    BY <1>7, ApplyPatchKinds, AppliesType
  <2>2. ASSUME NEW c \in thread[t].todo, c.content \in Invalid \/ Has(docs[c.doc], c.content), Goes(t, Passed(t, c))
        PROVE  DoneInv'
    <3> DEFINE to == Passed(t, c)
    <3>1. thread'[t] = to /\ OthersStay(t)
      BY <2>2, GoesTo
    <3>2. /\ to \in ThreadRec /\ to.op = thread[t].op /\ to.run = thread[t].run /\ to.copy = thread[t].copy
          /\ to.pc = "apply" /\ to.todo = thread[t].todo \ {c} /\ c.doc \in Docs
      BY <2>1, PatchedType
    <3> HIDE DEF to
    <3>3. Effected(c)
      BY <2>2, <3>2 DEF Effected, KTypeInv, StoreInv
    <3>4. ThreadDone(to)
      BY <1>1, <2>1, <3>2, <3>3 DEF ThreadDone
    <3>5. ThreadDone(thread[t])'
      BY <2>1, <3>1, <3>2, <3>4, ThreadDoneNow
    <3> QED BY <2>1, <3>1, <3>5, DoneMoves
  <2>3. ASSUME NEW c \in thread[t].todo, Goes(t, Patched(t, c))
        PROVE  DoneInv'
    <3> DEFINE to == Patched(t, c)
               block == [key |-> PatchKey, content |-> c.content]
    <3>1. thread'[t] = to /\ OthersStay(t)
      BY <2>3, GoesTo
    <3>2. /\ to \in ThreadRec /\ to.op = thread[t].op /\ to.run = thread[t].run /\ to.copy = thread[t].copy
          /\ to.pc = "write" /\ to.todo = thread[t].todo \ {c} /\ to.doc = c.doc /\ c.doc \in Docs
          /\ to.after = Append(docs[c.doc], block)
      BY <2>1, PatchedType
    <3> HIDE DEF to
    <3>3. docs[c.doc] \in Seq(Block) /\ block \in Block
      BY <2>1, <3>2, AppliesType DEF KTypeInv, StoreInv, Block, Candidate
    <3>4. Has(to.after, c.content)
      <4>1. Len(docs[c.doc]) + 1 \in DOMAIN to.after /\ to.after[Len(docs[c.doc]) + 1] = block
        BY <3>2, <3>3, AppendToText
      <4> QED BY <4>1 DEF Has
    <3>5. ThreadDone(to)
      BY <1>1, <2>1, <3>2, <3>4 DEF ThreadDone
    <3>6. ThreadDone(thread[t])'
      BY <2>1, <3>1, <3>2, <3>5, ThreadDoneNow
    <3> QED BY <2>1, <3>1, <3>6, DoneMoves
  <2> QED BY <1>7, <2>2, <2>3, ApplyPatchKinds
<1>8. CASE SaveApplied(t)
  <2> DEFINE run == [thread[t].copy EXCEPT !.status = "applied"]
             copy == [run EXCEPT !.status = "completed"]
             to == [thread[t] EXCEPT !.pc = "remember", !.copy = copy]
  <2>1. /\ thread[t].pc = "apply" /\ thread[t].todo = {} /\ runs' = [runs EXCEPT ![thread[t].run] = run]
        /\ Goes(t, to)
    BY <1>8 DEF SaveApplied
  <2>2. thread[t].op \in RunOps /\ thread[t].run \in DOMAIN runs /\ thread[t].copy \in Run
    BY <2>1, AppliesType
  <2>3. thread'[t] = to /\ OthersStay(t)
    BY <2>1, GoesTo
  <2>4. run.status = "applied" /\ copy.changes = thread[t].copy.changes /\ copy \in Run
    BY <2>2 DEF Run, Statuses
  <2>5. thread[t].op # "reject"
    BY <1>1, <2>1 DEF ThreadDone, RunOps
  <2> HIDE DEF run, copy
  <2>6. to.pc = "remember" /\ to.op = thread[t].op /\ to.copy = copy /\ to \in ThreadRec
    BY <1>1, <2>4 DEF ThreadRec, RunPcs
  <2> HIDE DEF to
  <2>7. ThreadDone(to)
    BY <1>1, <2>1, <2>2, <2>4, <2>5, <2>6 DEF ThreadDone
  <2>8. ThreadDone(thread[t])'
    BY <2>3, <2>4, <2>6, <2>7, ThreadDoneNow
  <2> QED BY <2>1, <2>2, <2>3, <2>4, <2>8, DoneMoves
<1>9. CASE Remember(t)
  <2> DEFINE to == [thread[t] EXCEPT !.pc = "save"]
  <2>1. thread[t].pc = "remember" /\ runs' = runs /\ Goes(t, to)
        /\ memory' = memory \cup {[run |-> thread[t].run, rejected |-> thread[t].op = "reject"]}
    BY <1>9 DEF Remember
  <2>2. thread[t].op \in RunOps
    BY <2>1 DEF KTypeInv, ThreadInv, ThreadRec, Fits, DocumentPcs
  <2>3. thread[t].run \in DOMAIN runs /\ thread[t].copy \in Run
    BY <2>2, RunThreadType
  <2>4. /\ OthersStay(t) /\ thread'[t].pc = "save" /\ thread'[t].op = thread[t].op
        /\ thread'[t].run = thread[t].run /\ thread'[t].copy = thread[t].copy
    BY <1>1, <2>1, GoesTo DEF ThreadRec
  <2>5. CASE thread[t].op = "reject"
    <3>1. thread'[t].copy.status = "rejected"
      BY <1>1, <2>1, <2>2, <2>4, <2>5 DEF ThreadDone
    <3>2. ThreadDone(thread[t])'
      BY <2>4, <3>1 DEF ThreadDone
    <3> QED BY <2>1, <2>4, <3>2, DoneMoves
  <2>6. CASE thread[t].op # "reject"
    <3>1. (thread[t].op = "reject") = FALSE
      BY <2>6
    <3>2. [run |-> thread[t].run, rejected |-> FALSE] \in memory'
      BY <2>1, <3>1
    <3>3. thread[t].copy.changes \subseteq Candidate /\ \A c \in thread[t].copy.changes : Effected(c)
      BY <1>1, <2>1, <2>2, <2>3, <2>6 DEF ThreadDone, Run
    <3>4. \A c \in thread[t].copy.changes : Effected(c)'
      BY <3>3, EffectedGrows
    <3>5. ThreadDone(thread[t])'
      BY <2>4, <3>2, <3>4 DEF ThreadDone, Done
    <3> QED BY <2>1, <2>4, <3>5, DoneMoves
  <2> QED BY <2>5, <2>6
<1>10. CASE SaveRun(t)
  <2>1. thread[t].pc = "save" /\ runs' = [runs EXCEPT ![thread[t].run] = thread[t].copy] /\ Answers(t)
    BY <1>10 DEF SaveRun
  <2>2. thread[t].op \in RunOps
    BY <2>1 DEF KTypeInv, ThreadInv, ThreadRec, Fits, DocumentPcs
  <2>3. thread[t].run \in DOMAIN runs /\ thread[t].copy \in Run
    BY <2>2, RunThreadType
  <2>4. thread[t].copy.status = "completed" => Done(thread[t].run, thread[t].copy)
    BY <1>1, <2>1, <2>2 DEF ThreadDone
  <2>5. OthersStay(t) /\ thread'[t].op \notin RunOps
    BY <2>1, GoesTo DEF Answers, Waiting, RunOps
  <2> QED BY <2>1, <2>3, <2>4, <2>5, WaitingDone, DoneMoves
<1> QED BY <1>3, <1>4, <1>5, <1>6, <1>7, <1>8, <1>9, <1>10 DEF RunStep

LEMMA LegacyCreatesDone ==
  ASSUME KTypeInv, DoneInv, Grows, NEW t \in Threads, LegacyCreates(t)
  PROVE  DoneInv'
<1> DEFINE to == [Waiting EXCEPT !.op = "legacy", !.pc = "propose", !.run = Len(runs) + 1, !.copy = NewRun(FALSE)]
<1>1. runs' = Append(runs, NewRun(FALSE)) /\ thread'[t] = to /\ OthersStay(t)
  BY GoesTo DEF LegacyCreates
<1>2. NewRun(FALSE) \in Run /\ NewRun(FALSE).status = "created" /\ runs \in Seq(Run)
  BY NewRunType DEF NewRun, KTypeInv, RunsInv
<1>3. to.op = "legacy" /\ to.pc = "propose" /\ to.copy = NewRun(FALSE)
  BY DEF Waiting
<1> HIDE DEF to
<1>4. ThreadDone(thread[t])'
  BY <1>1, <1>2, <1>3 DEF ThreadDone
<1>5. ASSUME NEW r \in DOMAIN runs'
      PROVE  (r \in DOMAIN runs /\ runs'[r] = runs[r]) \/ runs'[r].status # "completed"
  <2> DEFINE run == NewRun(FALSE)
  <2> HIDE DEF run
  <2>1. runs' = Append(runs, run) /\ run \in Run /\ run.status = "created" /\ runs \in Seq(Run)
    BY <1>1, <1>2 DEF run
  <2> QED BY <2>1, AppendToText
<1> QED BY <1>1, <1>4, <1>5, DoneMoves

LEMMA RequestDone ==
  ASSUME KTypeInv, DoneInv, Grows, NEW t \in Threads, NewRequest(t)
  PROVE  DoneInv'
<1>1. CASE CreateRun(t)
  <2>1. PICK auto \in BOOLEAN : runs' = Append(runs, NewRun(auto))
    BY <1>1 DEF CreateRun
  <2>2. NewRun(auto) \in Run /\ NewRun(auto).status = "created" /\ runs \in Seq(Run)
    BY NewRunType DEF NewRun, KTypeInv, RunsInv
  <2>3. ASSUME NEW r \in DOMAIN runs'
        PROVE  (r \in DOMAIN runs /\ runs'[r] = runs[r]) \/ runs'[r].status # "completed"
    BY <2>1, <2>2, AppendToText
  <2>4. thread' = thread /\ thread[t].op \notin RunOps
    BY <1>1 DEF CreateRun, Request, Waiting, RunOps
  <2> QED BY <2>3, <2>4, WaitingDone, DoneMoves DEF OthersStay
<1>2. CASE Legacy(t)
  BY <1>2, LegacyCreatesDone DEF Legacy
<1>3. CASE StepBegins(t)
  <2> DEFINE Failed(r) == [Waiting EXCEPT !.op = "step", !.pc = "save", !.run = r,
                                          !.copy = [runs[r] EXCEPT !.status = "failed"]]
             Decides(r) == [Waiting EXCEPT !.op = "step", !.pc = "decide", !.run = r, !.copy = runs[r]]
  <2>1. PICK r \in DOMAIN runs : Goes(t, Failed(r)) \/ Goes(t, Decides(r))
    BY <1>3 DEF StepBegins
  <2>2. runs' = runs /\ runs[r] \in Run /\ r \in Nat
    BY <1>3 DEF StepBegins, KTypeInv, RunsInv
  <2>3. runs[r].status = "completed" => Done(r, runs[r])
    BY DEF DoneInv
  <2>4. /\ Failed(r).op = "step" /\ Failed(r).pc = "save" /\ Failed(r).copy = [runs[r] EXCEPT !.status = "failed"]
        /\ Decides(r).op = "step" /\ Decides(r).pc = "decide" /\ Decides(r).copy = runs[r] /\ Decides(r).run = r
    BY DEF Waiting
  <2>5. Failed(r).copy.status = "failed"
    BY <2>2, <2>4 DEF Run
  <2>6. Decides(r) \in ThreadRec
    BY <2>2, WaitingType DEF ThreadRec, RunOps, RunPcs
  <2> HIDE DEF Failed, Decides
  <2>7. CASE Goes(t, Failed(r))
    <3>1. thread'[t] = Failed(r) /\ OthersStay(t)
      BY <2>7, GoesTo
    <3>2. ThreadDone(thread[t])'
      BY <2>4, <2>5, <3>1 DEF ThreadDone
    <3> QED BY <2>2, <3>1, <3>2, DoneMoves
  <2>8. CASE Goes(t, Decides(r))
    <3>1. thread'[t] = Decides(r) /\ OthersStay(t)
      BY <2>8, GoesTo
    <3>2. ThreadDone(Decides(r))
      BY <2>3, <2>4 DEF ThreadDone
    <3>3. ThreadDone(thread[t])'
      BY <2>2, <2>4, <2>6, <3>1, <3>2, ThreadDoneNow
    <3> QED BY <2>2, <3>1, <3>3, DoneMoves
  <2> QED BY <2>1, <2>7, <2>8
<1>4. CASE Approve(t)
  <2> DEFINE To(r) == [Waiting EXCEPT !.op = "approve", !.pc = "apply", !.run = r, !.copy = runs[r],
                                      !.todo = runs[r].changes]
  <2>1. PICK r \in DOMAIN runs : Goes(t, To(r)) \/ Answers(t)
    BY <1>4 DEF Approve
  <2>2. runs' = runs /\ runs[r] \in Run /\ r \in Nat
    BY <1>4 DEF Approve, KTypeInv, RunsInv
  <2>3. runs[r].status = "completed" => Done(r, runs[r])
    BY DEF DoneInv
  <2>4. /\ To(r).op = "approve" /\ To(r).pc = "apply" /\ To(r).run = r /\ To(r).copy = runs[r]
        /\ To(r).todo = runs[r].changes
    BY DEF Waiting
  <2>5. To(r) \in ThreadRec
    <3>1. runs[r].changes \in SUBSET Candidate
      BY <2>2 DEF Run
    <3> QED BY <2>2, <3>1, WaitingType DEF ThreadRec, RunOps, RunPcs
  <2> HIDE DEF To
  <2>6. CASE Goes(t, To(r))
    <3>1. thread'[t] = To(r) /\ OthersStay(t)
      BY <2>6, GoesTo
    <3>2. ThreadDone(To(r))
      BY <2>3, <2>4 DEF ThreadDone
    <3>3. ThreadDone(thread[t])'
      BY <2>2, <2>4, <2>5, <3>1, <3>2, ThreadDoneNow
    <3> QED BY <2>2, <3>1, <3>3, DoneMoves
  <2>7. CASE Answers(t)
    <3>1. OthersStay(t) /\ thread'[t].op \notin RunOps
      BY <2>7, GoesTo DEF Answers, Waiting, RunOps
    <3> QED BY <2>2, <3>1, WaitingDone, DoneMoves
  <2> QED BY <2>1, <2>6, <2>7
<1>5. CASE Reject(t)
  <2> DEFINE To(r) == [Waiting EXCEPT !.op = "reject", !.pc = "remember", !.run = r,
                                      !.copy = [runs[r] EXCEPT !.status = "rejected"]]
  <2>1. PICK r \in DOMAIN runs : Goes(t, To(r))
    BY <1>5 DEF Reject
  <2>2. runs' = runs /\ runs[r] \in Run
    BY <1>5 DEF Reject, KTypeInv, RunsInv
  <2>3. To(r).op = "reject" /\ To(r).pc = "remember" /\ To(r).copy = [runs[r] EXCEPT !.status = "rejected"]
    BY DEF Waiting
  <2>4. To(r).copy.status = "rejected"
    BY <2>2, <2>3 DEF Run
  <2> HIDE DEF To
  <2>5. thread'[t] = To(r) /\ OthersStay(t)
    BY <2>1, GoesTo
  <2>6. ThreadDone(thread[t])'
    BY <2>3, <2>4, <2>5 DEF ThreadDone
  <2> QED BY <2>2, <2>5, <2>6, DoneMoves
<1>6. ASSUME NEW to, Goes(t, to), to.op \in DocumentOps, runs' = runs
      PROVE  DoneInv'
  <2>1. thread'[t] = to /\ OthersStay(t) /\ to.op \notin RunOps
    BY <1>6, GoesTo DEF DocumentOps, RunOps
  <2> QED BY <1>6, <2>1, WaitingDone, DoneMoves
<1>7. CASE EditorLoads(t)
  <2> DEFINE To(d) == [Waiting EXCEPT !.op = "edit", !.pc = "editing", !.doc = d, !.seen = docs[d]]
  <2>1. PICK d \in Docs : Goes(t, To(d))
    BY <1>7 DEF EditorLoads
  <2>2. To(d).op \in DocumentOps /\ runs' = runs
    BY <1>7 DEF Waiting, DocumentOps, EditorLoads
  <2> HIDE DEF To
  <2> QED BY <1>6, <2>1, <2>2
<1>8. CASE CreateNode(t)
  <2> DEFINE To(d, c) == [Waiting EXCEPT !.op = "create", !.pc = "checked", !.doc = d,
                                         !.block = [key |-> c, content |-> c]]
  <2>1. PICK d, c : Goes(t, To(d, c)) /\ runs' = runs
    BY <1>8 DEF CreateNode
  <2>2. To(d, c).op \in DocumentOps
    BY DEF Waiting, DocumentOps
  <2> HIDE DEF To
  <2> QED BY <1>6, <2>1, <2>2
<1>9. CASE UpdateNode(t)
  <2> DEFINE To(d, c, i) == [Waiting EXCEPT !.op = "update", !.pc = "checked", !.doc = d, !.node = NodeOf(docs[d], i),
                               !.block = [key |-> docs[d][i].key, content |-> c]]
  <2>1. PICK d, c, i : Goes(t, To(d, c, i)) /\ runs' = runs
    BY <1>9 DEF UpdateNode
  <2>2. To(d, c, i).op \in DocumentOps
    BY DEF Waiting, DocumentOps
  <2> HIDE DEF To
  <2> QED BY <1>6, <2>1, <2>2
<1>10. CASE DeleteNode(t)
  <2> DEFINE To(d, i) == [Waiting EXCEPT !.op = "delete", !.pc = "checked", !.doc = d, !.node = NodeOf(docs[d], i)]
  <2>1. PICK d, i : Goes(t, To(d, i)) /\ runs' = runs
    BY <1>10 DEF DeleteNode
  <2>2. To(d, i).op \in DocumentOps
    BY DEF Waiting, DocumentOps
  <2> HIDE DEF To
  <2> QED BY <1>6, <2>1, <2>2
<1> QED BY <1>1, <1>2, <1>3, <1>4, <1>5, <1>7, <1>8, <1>9, <1>10 DEF NewRequest

LEMMA RestartDone ==
  ASSUME KTypeInv, DoneInv, Grows, Restart
  PROVE  DoneInv'
<1>1. runs' = runs /\ \A t \in Threads : thread'[t].op \notin RunOps
  BY DEF Restart, Waiting, RunOps
<1>2. \A t \in Threads : ThreadDone(thread[t])'
  BY <1>1, WaitingDone
<1>3. ASSUME NEW r \in DOMAIN runs, runs[r].status = "completed" PROVE Done(r, runs[r])'
  <2>1. Done(r, runs[r]) /\ runs[r] \in Run
    BY <1>3 DEF DoneInv, KTypeInv, RunsInv
  <2> QED BY <1>1, <2>1, DoneGrows DEF Done, Effected
<1> QED BY <1>1, <1>2, <1>3 DEF DoneInv

LEMMA DoneStep ==
  ASSUME KTypeInv, DoneInv, Next
  PROVE  DoneInv'
BY GrowsStep, RestartDone, RunStepDone, DocumentStepDone, RequestDone DEF Next

LEMMA DoneInit == Init => DoneInv
BY FoundAssumption DEF Init, DoneInv, ThreadDone, Waiting, RunOps

LEMMA DoneStutter == DoneInv /\ UNCHANGED vars => DoneInv'
BY DEF vars, store, DoneInv, ThreadDone, Done, Effected

\* The state of the knowledge-agent has its type; no text of a document is
\* lost before a death of the process, whatever threads write over each other
\* (write_versioned); and a run on file that says completed is in the memory
\* and had every change in its document, whoever saved it last
\* (apply_and_complete).
THEOREM KnowledgeIsKept == Spec => []KnowledgeInv
<1> DEFINE Inv == KTypeInv /\ KeptInv /\ DoneInv
<1>1. Init => Inv
  BY TypeInit, KeptInit, DoneInit
<1>2. Inv /\ [Next]_vars => Inv'
  BY TypeStep, KeptStep, KeptStutter, DoneStep, DoneStutter
<1>3. Inv => KnowledgeInv
  BY TypeInvImpliesTypeOK, KeptNothingUnrecorded, DoneCompleted DEF KnowledgeInv
<1> QED BY <1>1, <1>2, <1>3, PTL DEF Spec

-----------------------------------------------------------------------------
(* The chain of the repair-agent and the knowledge-agent.                  *)

-----------------------------------------------------------------------------
(* Type correctness.  The knowledge-agent's steps are those of its own     *)
(* module, so its state keeps its type; a thread that serves a post is     *)
(* with the run it created for it.                                         *)

DeliveryRec == [pc : {"absent", "queued", "diagnosing", "posting", "done"}, tries : Nat]

ChainTypeInv ==
  /\ KTypeInv
  /\ analysis \in [Tickets -> Analyses]
  /\ delivery \in [Deliveries -> DeliveryRec]
  /\ call \in [Deliveries -> Calls]
  /\ served \in [Threads -> Deliveries \cup {None}]
  /\ origin \in Seq(Tickets) /\ Len(origin) = Len(runs)
  /\ crashes \in Nat
  /\ \A d \in Deliveries : call[d] # "none" <=> delivery[d].pc = "posting"

ServesOwnRun(t) ==
  /\ call[served[t]] = "running" /\ thread[t].op = "legacy"
  /\ origin[thread[t].run] = TicketOf[served[t]]

ServedInv ==
  /\ \A t \in Threads : served[t] # None => ServesOwnRun(t)
  /\ \A t, u \in Threads : served[t] # None /\ served[t] = served[u] => t = u

RepairInv == ChainTypeInv /\ ServedInv

LEMMA RepairInvImpliesTypeOK == RepairInv => ChainTypeOK
BY DEF RepairInv, ChainTypeInv, ServedInv, ServesOwnRun, ChainTypeOK

LEMMA RepairInit == ChainInit => RepairInv
<1> SUFFICES ASSUME ChainInit PROVE RepairInv
  OBVIOUS
<1>1. KTypeInv
  BY TypeInit DEF ChainInit
<1>2. ChainTypeInv
  BY <1>1 DEF ChainInit, ChainTypeInv, Analyses, DeliveryRec, Calls
<1>3. ServedInv
  BY DEF ChainInit, ServedInv
<1> QED BY <1>2, <1>3 DEF RepairInv

\* What the handlers of the repair-agent do, one of them at a time.
HandlerStep(d) ==
  Arrive(d) \/ TakePermit(d) \/ ModelFails(d) \/ Diagnosed(d) \/ PostAgain(d) \/ Conclude(d) \/ Lost(d) \/ Refused(d)

LEMMA KnowledgeUntouched == KTypeInv /\ UNCHANGED vars => KTypeInv'
BY DEF vars, store, KTypeInv, StoreInv, RunsInv, ThreadInv

LEMMA TicketOfType == \A d \in Deliveries : TicketOf[d] \in Tickets
BY RepairAssumption

LEMMA HandlerType ==
  ASSUME RepairInv, NEW d \in Deliveries, HandlerStep(d)
  PROVE  ChainTypeInv'
<1>1. KTypeInv' /\ runs' = runs /\ origin' = origin /\ crashes' = crashes
  <2>1. UNCHANGED vars /\ origin' = origin /\ crashes' = crashes
    BY DEF HandlerStep, Arrive, TakePermit, ModelFails, Diagnosed, PostAgain, Conclude, Lost, Refused
  <2> QED BY <2>1, KnowledgeUntouched DEF RepairInv, ChainTypeInv, vars
<1>2. MaxAttempts \in Nat /\ MaxRetries \in Nat /\ TicketOf[d] \in Tickets
  BY RepairAssumption
<1>3. delivery[d] \in DeliveryRec /\ delivery[d].tries \in Nat
  BY DEF RepairInv, ChainTypeInv, DeliveryRec
<1>4. ASSUME NEW pc \in {"absent", "queued", "diagnosing", "posting", "done"}, NEW tries \in Nat, Handler(d, pc, tries)
      PROVE  /\ delivery' \in [Deliveries -> DeliveryRec] /\ delivery'[d].pc = pc
             /\ \A e \in Deliveries \ {d} : delivery'[e] = delivery[e]
  BY <1>4 DEF RepairInv, ChainTypeInv, DeliveryRec, Handler
<1>5. ASSUME NEW c \in Calls, Called(d, c)
      PROVE  call' \in [Deliveries -> Calls] /\ call'[d] = c /\ \A e \in Deliveries \ {d} : call'[e] = call[e]
  BY <1>5 DEF RepairInv, ChainTypeInv, Called
<1>6. ASSUME NEW status \in Analyses, SaveAnalysis(d, status)
      PROVE  analysis' \in [Tickets -> Analyses]
  BY <1>2, <1>6 DEF RepairInv, ChainTypeInv, SaveAnalysis
<1>7. CASE Arrive(d)
  <2>1. UNCHANGED <<analysis, call, served>> /\ delivery[d].pc = "absent"
        /\ (Handler(d, "done", 0) \/ Handler(d, "queued", 0))
    BY <1>7 DEF Arrive
  <2> QED BY <1>1, <1>4, <2>1 DEF RepairInv, ChainTypeInv
<1>8. CASE TakePermit(d)
  <2>1. UNCHANGED <<analysis, call, served>> /\ delivery[d].pc = "queued" /\ Handler(d, "diagnosing", 0)
    BY <1>8 DEF TakePermit
  <2> QED BY <1>1, <1>4, <2>1 DEF RepairInv, ChainTypeInv
<1>9. CASE ModelFails(d)
  <2>1. UNCHANGED <<analysis, call, served>> /\ delivery[d].pc = "diagnosing"
        /\ (Handler(d, "done", 0) \/ Handler(d, "diagnosing", delivery[d].tries + 1))
    BY <1>9 DEF ModelFails
  <2>2. delivery[d].tries + 1 \in Nat
    BY <1>3
  <2> QED BY <1>1, <1>4, <2>1, <2>2 DEF RepairInv, ChainTypeInv
<1>10. CASE Diagnosed(d)
  <2>1. served' = served /\ delivery[d].pc = "diagnosing"
    BY <1>10 DEF Diagnosed
  <2>2. ASSUME SaveAnalysis(d, "not_repairable"), Handler(d, "done", 0), UNCHANGED call PROVE ChainTypeInv'
    BY <1>1, <1>4, <1>6, <2>1, <2>2 DEF RepairInv, ChainTypeInv, Analyses
  <2>3. ASSUME SaveAnalysis(d, "analysis_pending"), Handler(d, "posting", 1), Called(d, "sent") PROVE ChainTypeInv'
    BY <1>1, <1>4, <1>5, <1>6, <2>1, <2>3 DEF RepairInv, ChainTypeInv, Analyses, Calls
  <2> QED BY <1>10, <2>2, <2>3 DEF Diagnosed
<1>11. CASE PostAgain(d)
  <2>1. /\ UNCHANGED <<analysis, served>> /\ call[d] \in {"lost", "failed"}
        /\ Called(d, "sent") /\ Handler(d, "posting", delivery[d].tries + 1)
    BY <1>11 DEF PostAgain
  <2>2. delivery[d].tries + 1 \in Nat
    BY <1>3
  <2> QED BY <1>1, <1>4, <1>5, <2>1, <2>2 DEF RepairInv, ChainTypeInv, Calls
<1>12. CASE Conclude(d)
  <2>1. /\ served' = served /\ Called(d, "none") /\ Handler(d, "done", 0)
        /\ \E status \in Analyses : SaveAnalysis(d, status)
    BY <1>12 DEF Conclude, Analyses
  <2> QED BY <1>1, <1>4, <1>5, <1>6, <2>1 DEF RepairInv, ChainTypeInv, Calls
<1>13. CASE Lost(d)
  <2>1. /\ UNCHANGED <<analysis, delivery>> /\ call[d] \in {"sent", "running"} /\ Called(d, "lost")
        /\ served' = [t \in Threads |-> IF served[t] = d THEN None ELSE served[t]]
    BY <1>13 DEF Lost
  <2> QED BY <1>1, <1>5, <2>1 DEF RepairInv, ChainTypeInv, Calls
<1>14. CASE Refused(d)
  <2>1. /\ UNCHANGED <<analysis, delivery, served>> /\ call[d] = "sent"
        /\ (Called(d, "refused") \/ Called(d, "paused"))
    BY <1>14 DEF Refused
  <2> QED BY <1>1, <1>5, <2>1 DEF RepairInv, ChainTypeInv, Calls
<1> QED BY <1>7, <1>8, <1>9, <1>10, <1>11, <1>12, <1>13, <1>14 DEF HandlerStep

LEMMA CrashType ==
  ASSUME RepairInv, Crash
  PROVE  ChainTypeInv'
<1>1. KTypeInv' /\ runs' = runs /\ origin' = origin /\ analysis' = analysis
  <2>1. UNCHANGED vars /\ UNCHANGED <<analysis, origin>>
    BY DEF Crash
  <2> QED BY <2>1, KnowledgeUntouched DEF RepairInv, ChainTypeInv, vars
<1>2. /\ crashes' = crashes + 1
      /\ delivery' = [d \in Deliveries |-> IF delivery[d].pc = "absent" THEN delivery[d] ELSE [pc |-> "done", tries |-> 0]]
      /\ call' = [d \in Deliveries |-> "none"] /\ served' = [t \in Threads |-> None]
  BY DEF Crash
<1>3. delivery' \in [Deliveries -> DeliveryRec] /\ \A d \in Deliveries : delivery'[d].pc # "posting"
  BY <1>2 DEF RepairInv, ChainTypeInv, DeliveryRec
<1> QED BY <1>1, <1>2, <1>3 DEF RepairInv, ChainTypeInv, Calls

LEMMA KnowledgeRestartsType ==
  ASSUME RepairInv, KnowledgeRestarts
  PROVE  ChainTypeInv'
<1>1. KTypeInv' /\ runs' = runs /\ UNCHANGED <<analysis, delivery, origin, crashes>>
  BY RestartType DEF KnowledgeRestarts, Restart, RepairInv, ChainTypeInv
<1>2. /\ call' = [d \in Deliveries |-> IF \E t \in Threads : served[t] = d THEN "lost" ELSE call[d]]
      /\ served' = [t \in Threads |-> None]
  BY DEF KnowledgeRestarts
<1>3. \A d \in Deliveries : (\E t \in Threads : served[t] = d) => call[d] = "running"
  BY RepairAssumption DEF RepairInv, ServedInv, ServesOwnRun
<1> QED BY <1>1, <1>2, <1>3 DEF RepairInv, ChainTypeInv, Calls

LEMMA ServeType ==
  ASSUME RepairInv, NEW t \in Threads, NEW d \in Deliveries, Serve(t, d)
  PROVE  ChainTypeInv'
<1>1. LegacyCreates(t) /\ KTypeInv' /\ runs' = Append(runs, NewRun(FALSE))
  BY LegacyCreatesType DEF Serve, LegacyCreates, RepairInv, ChainTypeInv
<1>2. /\ call[d] = "sent" /\ Called(d, "running") /\ served' = [served EXCEPT ![t] = d]
      /\ origin' = Append(origin, TicketOf[d]) /\ UNCHANGED <<analysis, delivery, crashes>>
  BY DEF Serve
<1>3. origin' \in Seq(Tickets) /\ Len(origin') = Len(origin) + 1
  BY <1>2, TicketOfType, AppendToText DEF RepairInv, ChainTypeInv
<1>4. Len(runs') = Len(runs) + 1
  <2>1. runs \in Seq(Run) /\ NewRun(FALSE) \in Run
    BY NewRunType DEF RepairInv, ChainTypeInv, KTypeInv, RunsInv
  <2> QED BY <1>1, <2>1, AppendToText
<1>5. call' \in [Deliveries -> Calls] /\ call'[d] = "running" /\ \A e \in Deliveries \ {d} : call'[e] = call[e]
  BY <1>2 DEF RepairInv, ChainTypeInv, Called, Calls
<1>6. served' \in [Threads -> Deliveries \cup {None}]
  BY <1>2 DEF RepairInv, ChainTypeInv
<1> QED BY <1>1, <1>2, <1>3, <1>4, <1>5, <1>6 DEF RepairInv, ChainTypeInv

\* What a thread of the knowledge-agent does to the runs: it saves the one it
\* works on, if any.
Saves(t) ==
  \/ runs' = runs
  \/ /\ thread[t].pc \in {"save", "trace", "apply"} /\ thread[t].op \in RunOps
     /\ \E run \in Run : /\ runs' = [runs EXCEPT ![thread[t].run] = run]
                         /\ \/ run = thread[t].copy /\ thread[t].pc \in {"save", "trace"}
                            \/ run.status = "applied"

KnowledgeStep(t) == RunStep(t) \/ DocumentStep(t) \/ StepBegins(t) \/ Approve(t) \/ Reject(t)

LEMMA KnowledgeStepSaves ==
  ASSUME KTypeInv, NEW t \in Threads, KnowledgeStep(t)
  PROVE  Saves(t)
<1>1. CASE SaveRun(t)
  <2>1. thread[t].pc = "save" /\ runs' = [runs EXCEPT ![thread[t].run] = thread[t].copy]
    BY <1>1 DEF SaveRun
  <2>2. thread[t].op \in RunOps
    BY <2>1 DEF KTypeInv, ThreadInv, ThreadRec, Fits, DocumentPcs
  <2>3. thread[t].copy \in Run
    BY <2>2, RunThreadType
  <2> QED BY <2>1, <2>2, <2>3 DEF Saves
<1>2. CASE StepTraces(t)
  <2>1. /\ thread[t].op = "step" /\ thread[t].op \in RunOps /\ thread[t].pc = "trace"
        /\ runs' = [runs EXCEPT ![thread[t].run] = thread[t].copy]
    BY <1>2, StepTracesKinds DEF RunOps
  <2>2. thread[t].copy \in Run
    BY <2>1, RunThreadType
  <2> QED BY <2>1, <2>2 DEF Saves
<1>3. CASE SaveApplied(t)
  <2> DEFINE run == [thread[t].copy EXCEPT !.status = "applied"]
  <2>1. thread[t].pc = "apply" /\ runs' = [runs EXCEPT ![thread[t].run] = run]
    BY <1>3 DEF SaveApplied
  <2>2. thread[t].op \in RunOps /\ thread[t].copy \in Run
    BY <2>1, AppliesType
  <2>3. run \in Run /\ run.status = "applied"
    BY <2>2 DEF Run, Statuses
  <2> HIDE DEF run
  <2> QED BY <2>1, <2>2, <2>3 DEF Saves
<1>4. CASE LegacyProposes(t) \/ StepConcludes(t) \/ StepReadsAgain(t) \/ ApplyPatch(t) \/ Remember(t)
           \/ DocumentStep(t) \/ StepBegins(t) \/ Approve(t) \/ Reject(t)
  BY <1>4 DEF LegacyProposes, StepConcludes, StepReadsAgain, ApplyPatch, Remember, DocumentStep, EditorSaves, RewriteTree,
     WriteDocument, RecordHistory, StepBegins, Approve, Reject, Saves
<1> QED BY <1>1, <1>2, <1>3, <1>4 DEF KnowledgeStep, RunStep

LEMMA SavesType ==
  ASSUME KTypeInv, NEW t \in Threads, Saves(t)
  PROVE  Len(runs') = Len(runs)
<1>1. CASE runs' = runs
  BY <1>1
<1>2. ASSUME thread[t].op \in RunOps, NEW run \in Run, runs' = [runs EXCEPT ![thread[t].run] = run]
      PROVE  Len(runs') = Len(runs)
  BY <1>2, RunThreadType, ReplaceInText DEF KTypeInv, RunsInv
<1> QED BY <1>1, <1>2 DEF Saves

LEMMA KnowledgeStepType ==
  ASSUME KTypeInv, NEW t \in Threads, KnowledgeStep(t)
  PROVE  KTypeInv'
BY LegacyProposesType, StepConcludesType, StepReadsAgainType, StepTracesType, ApplyPatchType, SaveAppliedType,
   RememberType, SaveRunType, EditorSavesType, RewriteTreeType, WriteDocumentType, RecordHistoryType,
   StepBeginsType, ApproveType, RejectType DEF KnowledgeStep, RunStep, DocumentStep

LEMMA KnowledgeStepOthers ==
  ASSUME KTypeInv, NEW t \in Threads, KnowledgeStep(t)
  PROVE  OthersStay(t)
<1>1. CASE RunStep(t)
  BY <1>1, RunStepKind DEF Rewriting, Elsewhere
<1>2. CASE DocumentStep(t)
  BY <1>2, EditorSavesKind, RewriteTreeKind, WriteDocumentKind, RecordHistoryKind DEF DocumentStep, Rewriting, Elsewhere
<1>3. CASE StepBegins(t) \/ Approve(t) \/ Reject(t)
  BY <1>3, RequestKind DEF NewRequest, Loading, Elsewhere
<1> QED BY <1>1, <1>2, <1>3 DEF KnowledgeStep

LEMMA WorksKinds ==
  ASSUME RepairInv, NEW t \in Threads, Works(t)
  PROVE  /\ KnowledgeStep(t) /\ UNCHANGED <<analysis, delivery, origin, excused, crashes>>
         /\ \/ /\ served[t] \in Deliveries /\ thread'[t] = Waiting
               /\ served' = [served EXCEPT ![t] = None]
               /\ \/ thread[t].pc = "save" /\ Called(served[t], "ok")
                  \/ Called(served[t], "failed")
            \/ /\ UNCHANGED <<call, served>>
               /\ served[t] = None \/ thread'[t] # Waiting
<1>1. KnowledgeStep(t) /\ UNCHANGED <<analysis, delivery, origin, excused, crashes>>
  BY DEF Works, KnowledgeStep
<1>2. served[t] \in Deliveries \cup {None}
  BY DEF RepairInv, ChainTypeInv
<1> QED BY <1>1, <1>2 DEF Works

LEMMA WorksType ==
  ASSUME RepairInv, NEW t \in Threads, Works(t)
  PROVE  ChainTypeInv'
<1>1. /\ KTypeInv' /\ Len(runs') = Len(runs) /\ UNCHANGED <<analysis, delivery, origin, crashes>>
  BY WorksKinds, KnowledgeStepType, KnowledgeStepSaves, SavesType DEF RepairInv, ChainTypeInv
<1>2. ASSUME served[t] \in Deliveries, NEW c \in {"ok", "failed"}, Called(served[t], c)
      PROVE  /\ call' \in [Deliveries -> Calls]
             /\ \A d \in Deliveries : call'[d] # "none" <=> call[d] # "none"
  <2>1. call[served[t]] = "running"
    BY <1>2, RepairAssumption DEF RepairInv, ServedInv, ServesOwnRun
  <2> QED BY <1>2, <2>1 DEF RepairInv, ChainTypeInv, Called, Calls
<1>3. ASSUME served' = [served EXCEPT ![t] = None]
      PROVE  served' \in [Threads -> Deliveries \cup {None}]
  BY <1>3 DEF RepairInv, ChainTypeInv
<1>4. CASE UNCHANGED <<call, served>>
  BY <1>1, <1>4 DEF RepairInv, ChainTypeInv
<1>5. CASE /\ served[t] \in Deliveries /\ served' = [served EXCEPT ![t] = None]
           /\ Called(served[t], "ok") \/ Called(served[t], "failed")
  <2>1. /\ call' \in [Deliveries -> Calls]
        /\ \A d \in Deliveries : call'[d] # "none" <=> call[d] # "none"
    BY <1>2, <1>5
  <2> QED BY <1>1, <1>3, <1>5, <2>1 DEF RepairInv, ChainTypeInv
<1> QED BY <1>4, <1>5, WorksKinds

-----------------------------------------------------------------------------
(* A post is served by one thread, which stays with the run it created     *)
(* until it answers.                                                       *)

LEMMA LegacyStays ==
  ASSUME KTypeInv, NEW t \in Threads, thread[t].op = "legacy", KnowledgeStep(t), thread'[t] # Waiting
  PROVE  thread'[t].op = "legacy" /\ thread'[t].run = thread[t].run
<1>1. thread[t] \in ThreadRec
  BY DEF KTypeInv, ThreadInv
<1>2. CASE LegacyProposes(t)
  <2> DEFINE Copy(P) == [thread[t].copy EXCEPT !.steps = 1, !.changes = P, !.improved = P # {},
                           !.status = IF P = {} THEN "failed" ELSE "needs_review"]
             To(P) == [thread[t] EXCEPT !.pc = "save", !.copy = Copy(P)]
  <2>1. Answers(t) \/ \E P \in Proposals(TRUE) : Goes(t, To(P))
    BY <1>2 DEF LegacyProposes
  <2> HIDE DEF Copy
  <2>2. \A P : To(P).op = "legacy" /\ To(P).run = thread[t].run
    BY <1>1 DEF ThreadRec
  <2> HIDE DEF To
  <2> QED BY <2>1, <2>2, GoesTo DEF Answers
<1>3. CASE ApplyPatch(t)
  <2>1. PICK c \in thread[t].todo : Goes(t, Passed(t, c)) \/ Goes(t, Patched(t, c))
    BY <1>3, ApplyPatchKinds
  <2>2. thread[t].pc = "apply"
    BY <1>3, ApplyPatchKinds
  <2>3. /\ Passed(t, c).op = thread[t].op /\ Passed(t, c).run = thread[t].run
        /\ Patched(t, c).op = thread[t].op /\ Patched(t, c).run = thread[t].run
    BY <2>2, PatchedType
  <2> QED BY <2>1, <2>3, GoesTo
<1>4. CASE SaveApplied(t)
  <2> DEFINE run == [thread[t].copy EXCEPT !.status = "applied"]
             to == [thread[t] EXCEPT !.pc = "remember", !.copy = [run EXCEPT !.status = "completed"]]
  <2>1. thread'[t] = to
    BY <1>4, GoesTo DEF SaveApplied
  <2> QED BY <1>1, <2>1 DEF ThreadRec
<1>5. CASE Remember(t)
  <2>1. thread'[t] = [thread[t] EXCEPT !.pc = "save"]
    BY <1>5, GoesTo DEF Remember
  <2> QED BY <1>1, <2>1 DEF ThreadRec
<1>6. CASE SaveRun(t)
  BY <1>6, GoesTo DEF SaveRun, Answers
<1>7. CASE WriteDocument(t)
  <2>1. thread'[t] = [thread[t] EXCEPT !.pc = "record"]
    BY <1>7, GoesTo DEF WriteDocument
  <2> QED BY <1>1, <2>1 DEF ThreadRec
<1>8. CASE RecordHistory(t)
  <2>1. thread'[t] = [thread[t] EXCEPT !.pc = "apply"]
    BY <1>8, GoesTo DEF RecordHistory, RunOps
  <2> QED BY <1>1, <2>1 DEF ThreadRec
<1>9. ~StepConcludes(t) /\ ~StepReadsAgain(t) /\ ~StepTraces(t) /\ ~EditorSaves(t) /\ ~RewriteTree(t)
  BY DEF StepConcludes, StepReadsAgain, StepTraces, EditorSaves, RewriteTree, At
<1>10. ~StepBegins(t) /\ ~Approve(t) /\ ~Reject(t)
  <2>1. thread[t] # Waiting
    BY DEF Waiting
  <2>2. \A op : ~Request(t, op)
    BY <2>1 DEF Request
  <2> QED BY <2>2 DEF StepBegins, Approve, Reject
<1> QED BY <1>2, <1>3, <1>4, <1>5, <1>6, <1>7, <1>8, <1>9, <1>10 DEF KnowledgeStep, RunStep, DocumentStep

LEMMA WorksServed ==
  ASSUME RepairInv, NEW t \in Threads, Works(t)
  PROVE  ServedInv'
<1>1. KTypeInv /\ KnowledgeStep(t) /\ origin' = origin /\ OthersStay(t)
  BY WorksKinds, KnowledgeStepOthers DEF RepairInv, ChainTypeInv
<1>2. ASSUME NEW u \in Threads, u # t, served'[u] # None, served'[u] = served[u],
             call'[served[u]] = call[served[u]]
      PROVE  ServesOwnRun(u)'
  BY <1>1, <1>2 DEF OthersStay, RepairInv, ServedInv, ServesOwnRun
<1>3. CASE /\ served[t] \in Deliveries /\ served' = [served EXCEPT ![t] = None]
           /\ Called(served[t], "ok") \/ Called(served[t], "failed")
  <2>1. served'[t] = None /\ \A u \in Threads \ {t} : served'[u] = served[u]
    BY <1>3 DEF RepairInv, ChainTypeInv
  <2>2. ASSUME NEW u \in Threads, u # t, served'[u] # None PROVE ServesOwnRun(u)'
    <3>1. served[u] # served[t] /\ served[u] \in Deliveries
      BY <1>3, <2>1, <2>2 DEF RepairInv, ServedInv, ChainTypeInv
    <3>2. call'[served[u]] = call[served[u]]
      BY <1>3, <3>1 DEF Called, RepairInv, ChainTypeInv
    <3> QED BY <1>2, <2>1, <2>2, <3>2
  <2> QED BY <2>1, <2>2 DEF RepairInv, ServedInv
<1>4. CASE UNCHANGED <<call, served>> /\ (served[t] = None \/ thread'[t] # Waiting)
  <2>1. ASSUME NEW u \in Threads, served'[u] # None PROVE ServesOwnRun(u)'
    <3>1. CASE u # t
      BY <1>2, <1>4, <2>1, <3>1
    <3>2. CASE u = t
      <4>1. ServesOwnRun(t) /\ thread'[t] # Waiting
        BY <1>4, <2>1, <3>2 DEF RepairInv, ServedInv
      <4>2. thread'[t].op = "legacy" /\ thread'[t].run = thread[t].run
        BY <1>1, <4>1, LegacyStays DEF ServesOwnRun
      <4> QED BY <1>1, <1>4, <3>2, <4>1, <4>2 DEF ServesOwnRun
    <3> QED BY <3>1, <3>2
  <2> QED BY <1>4, <2>1 DEF RepairInv, ServedInv
<1> QED BY <1>3, <1>4, WorksKinds

LEMMA ServeServed ==
  ASSUME RepairInv, NEW t \in Threads, NEW d \in Deliveries, Serve(t, d)
  PROVE  ServedInv'
<1> DEFINE to == [Waiting EXCEPT !.op = "legacy", !.pc = "propose", !.run = Len(runs) + 1, !.copy = NewRun(FALSE)]
<1>1. thread'[t] = to /\ OthersStay(t) /\ thread[t].pc = "waiting"
  BY GoesTo DEF Serve, LegacyCreates, RepairInv, ChainTypeInv
<1>2. to.op = "legacy" /\ to.run = Len(runs) + 1
  BY DEF Waiting
<1> HIDE DEF to
<1>3. /\ call[d] = "sent" /\ Called(d, "running") /\ served' = [served EXCEPT ![t] = d]
      /\ origin' = Append(origin, TicketOf[d])
  BY DEF Serve
<1>4. /\ origin \in Seq(Tickets) /\ Len(origin) = Len(runs) /\ Len(runs) \in Nat
      /\ call \in [Deliveries -> Calls] /\ served \in [Threads -> Deliveries \cup {None}]
  BY DEF RepairInv, ChainTypeInv
<1>5. origin'[Len(runs) + 1] = TicketOf[d] /\ \A r \in 1..Len(runs) : origin'[r] = origin[r]
  BY <1>3, <1>4, TicketOfType, AppendToText
<1>6. ServesOwnRun(t)'
  BY <1>1, <1>2, <1>3, <1>4, <1>5 DEF ServesOwnRun, Called
<1>7. ASSUME NEW u \in Threads, u # t, served'[u] # None
      PROVE  served'[u] = served[u] /\ served[u] # d /\ ServesOwnRun(u)'
  <2>1. served'[u] = served[u] /\ ServesOwnRun(u)
    BY <1>3, <1>4, <1>7 DEF RepairInv, ServedInv
  <2>2. served[u] # d
    BY <1>3, <2>1 DEF ServesOwnRun
  <2>3. thread[u].run \in 1..Len(runs) /\ thread'[u] = thread[u]
    BY <1>1, <1>7, <2>1, RunThreadType DEF ServesOwnRun, OthersStay, RunOps, RepairInv, ChainTypeInv
  <2>4. call'[served[u]] = call[served[u]]
    BY <1>3, <1>4, <1>7, <2>1, <2>2 DEF Called
  <2> QED BY <1>5, <2>1, <2>2, <2>3, <2>4 DEF ServesOwnRun
<1>8. served'[t] = d
  BY <1>3, <1>4
<1>9. ASSUME NEW u \in Threads, NEW v \in Threads, served'[u] # None, served'[u] = served'[v]
      PROVE  u = v
  BY <1>7, <1>8, <1>9 DEF RepairInv, ServedInv
<1> QED BY <1>6, <1>7, <1>9 DEF ServedInv

LEMMA HandlerServed ==
  ASSUME RepairInv, NEW d \in Deliveries, HandlerStep(d)
  PROVE  ServedInv'
<1>1. UNCHANGED <<runs, thread, origin>>
  BY DEF HandlerStep, Arrive, TakePermit, ModelFails, Diagnosed, PostAgain, Conclude, Lost, Refused, vars
<1>2. CASE Lost(d)
  <2>1. /\ Called(d, "lost")
        /\ served' = [t \in Threads |-> IF served[t] = d THEN None ELSE served[t]]
    BY <1>2 DEF Lost
  <2>2. ASSUME NEW u \in Threads, served'[u] # None
        PROVE  served'[u] = served[u] /\ ServesOwnRun(u)'
    <3>1. served'[u] = served[u] /\ served[u] # d /\ ServesOwnRun(u)
      BY <2>1, <2>2 DEF RepairInv, ServedInv
    <3>2. call'[served[u]] = call[served[u]]
      BY <2>1, <3>1 DEF Called, RepairInv, ChainTypeInv, ServesOwnRun
    <3> QED BY <1>1, <3>1, <3>2 DEF ServesOwnRun
  <2> QED BY <2>2 DEF RepairInv, ServedInv
<1>3. CASE ~Lost(d)
  <2>1. served' = served
    BY <1>3 DEF HandlerStep, Arrive, TakePermit, ModelFails, Diagnosed, PostAgain, Conclude, Refused
  <2>2. call[d] = "running" => call'[d] = "running"
    BY <1>3 DEF HandlerStep, Arrive, TakePermit, ModelFails, Diagnosed, PostAgain, Conclude, Refused, GivenUp,
       Called, RepairInv, ChainTypeInv
  <2>3. \A e \in Deliveries \ {d} : call'[e] = call[e]
    BY <1>3 DEF HandlerStep, Arrive, TakePermit, ModelFails, Diagnosed, PostAgain, Conclude, Refused, Called,
       RepairInv, ChainTypeInv
  <2>4. ASSUME NEW u \in Threads, served[u] # None PROVE ServesOwnRun(u)'
    <3>1. ServesOwnRun(u) /\ served[u] \in Deliveries
      BY <2>4 DEF RepairInv, ServedInv, ChainTypeInv
    <3> QED BY <1>1, <2>1, <2>2, <2>3, <3>1 DEF ServesOwnRun
  <2> QED BY <2>1, <2>4 DEF RepairInv, ServedInv
<1> QED BY <1>2, <1>3

LEMMA RepairStep == RepairInv /\ [ChainNext]_chain => RepairInv'
<1> SUFFICES ASSUME RepairInv, [ChainNext]_chain PROVE RepairInv'
  OBVIOUS
<1>1. ASSUME NEW d \in Deliveries, Handle(d) \/ Lost(d) \/ Refused(d) PROVE RepairInv'
  <2>1. HandlerStep(d)
    BY <1>1 DEF Handle, HandlerStep
  <2> QED BY <2>1, HandlerType, HandlerServed DEF RepairInv
<1>2. ASSUME NEW t \in Threads, Works(t) PROVE RepairInv'
  BY <1>2, WorksType, WorksServed DEF RepairInv
<1>3. ASSUME NEW t \in Threads, NEW d \in Deliveries, Serve(t, d) PROVE RepairInv'
  BY <1>3, ServeType, ServeServed DEF RepairInv
<1>4. CASE Crash
  BY <1>4, CrashType DEF RepairInv, ServedInv, Crash
<1>5. CASE KnowledgeRestarts
  BY <1>5, KnowledgeRestartsType DEF RepairInv, ServedInv, KnowledgeRestarts
<1>6. CASE UNCHANGED chain
  BY <1>6, KnowledgeUntouched DEF chain, vars, repair, RepairInv, ChainTypeInv, ServedInv, ServesOwnRun
<1> QED BY <1>1, <1>2, <1>3, <1>4, <1>5, <1>6 DEF ChainNext

-----------------------------------------------------------------------------
(* A pending analysis has a handler.                                       *)

HandledInv == RepairInv /\ PendingIsPosted

\* Only the handler that is at work changes what its delivery and the
\* analysis of its ticket say.
LEMMA HandlerLocal ==
  ASSUME RepairInv, NEW d \in Deliveries, HandlerStep(d)
  PROVE  /\ \A e \in Deliveries \ {d} : delivery'[e] = delivery[e] /\ call'[e] = call[e]
         /\ \A k \in Tickets \ {TicketOf[d]} : analysis'[k] = analysis[k]
         /\ UNCHANGED <<runs, thread, origin, crashes>>
<1>1. /\ \/ delivery' = delivery
         \/ \E pc, tries : Handler(d, pc, tries)
      /\ \/ call' = call
         \/ \E c : Called(d, c)
      /\ \/ analysis' = analysis
         \/ \E status : SaveAnalysis(d, status)
      /\ UNCHANGED <<runs, thread, origin, crashes>>
  <2>1. CASE Arrive(d) \/ TakePermit(d) \/ ModelFails(d)
    BY <2>1 DEF Arrive, TakePermit, ModelFails, vars
  <2>2. CASE Diagnosed(d)
    BY <2>2 DEF Diagnosed, vars
  <2>3. CASE PostAgain(d) \/ Lost(d) \/ Refused(d)
    BY <2>3 DEF PostAgain, Lost, Refused, vars
  <2>4. CASE Conclude(d)
    BY <2>4 DEF Conclude, vars
  <2> QED BY <2>1, <2>2, <2>3, <2>4 DEF HandlerStep
<1>2. /\ analysis \in [Tickets -> Analyses] /\ delivery \in [Deliveries -> DeliveryRec]
      /\ call \in [Deliveries -> Calls]
  BY DEF RepairInv, ChainTypeInv
<1>3. \A e \in Deliveries \ {d} : delivery'[e] = delivery[e]
  BY <1>1, <1>2 DEF Handler
<1>4. \A e \in Deliveries \ {d} : call'[e] = call[e]
  BY <1>1, <1>2 DEF Called
<1>5. \A k \in Tickets \ {TicketOf[d]} : analysis'[k] = analysis[k]
  BY <1>1, <1>2 DEF SaveAnalysis
<1> QED BY <1>1, <1>3, <1>4, <1>5

LEMMA HandlerPosts ==
  ASSUME RepairInv, NEW d \in Deliveries, HandlerStep(d)
  PROVE  \/ delivery'[d].pc = "posting"
         \/ delivery[d].pc # "posting" /\ analysis'[TicketOf[d]] \in {analysis[TicketOf[d]], "not_repairable"}
         \/ analysis'[TicketOf[d]] \in {"applied", "repair_apply_paused", "apply_failed"}
<1>1. /\ analysis \in [Tickets -> Analyses] /\ delivery \in [Deliveries -> DeliveryRec] /\ TicketOf[d] \in Tickets
      /\ \A e \in Deliveries : call[e] # "none" <=> delivery[e].pc = "posting"
  BY TicketOfType DEF RepairInv, ChainTypeInv
<1>2. CASE Arrive(d)
  BY <1>1, <1>2 DEF Arrive
<1>3. CASE TakePermit(d)
  BY <1>1, <1>3 DEF TakePermit
<1>4. CASE ModelFails(d)
  BY <1>1, <1>4 DEF ModelFails
<1>5. CASE Diagnosed(d)
  BY <1>1, <1>5 DEF Diagnosed, Handler, SaveAnalysis
<1>6. CASE PostAgain(d)
  BY <1>1, <1>6 DEF PostAgain, Handler
<1>7. CASE Conclude(d)
  BY <1>1, <1>7 DEF Conclude, SaveAnalysis
<1>8. CASE Lost(d) \/ Refused(d)
  BY <1>1, <1>8 DEF Lost, Refused
<1> QED BY <1>2, <1>3, <1>4, <1>5, <1>6, <1>7, <1>8 DEF HandlerStep

LEMMA HandlerPending ==
  ASSUME HandledInv, NEW d \in Deliveries, HandlerStep(d)
  PROVE  PendingIsPosted'
<1> SUFFICES ASSUME crashes' = 0, NEW k \in Tickets, analysis'[k] = "analysis_pending"
             PROVE  \E e \in Deliveries : TicketOf[e] = k /\ delivery'[e].pc = "posting"
  BY DEF PendingIsPosted
<1>1. RepairInv /\ crashes = 0
  BY HandlerLocal DEF HandledInv
<1>2. CASE k # TicketOf[d]
  <2>1. PICK e \in Deliveries : TicketOf[e] = k /\ delivery[e].pc = "posting"
    BY <1>1, <1>2, HandlerLocal DEF HandledInv, PendingIsPosted
  <2> QED BY <1>1, <1>2, <2>1, HandlerLocal
<1>3. CASE k = TicketOf[d] /\ delivery'[d].pc # "posting"
  <2>1. delivery[d].pc # "posting" /\ analysis[k] = "analysis_pending"
    BY <1>1, <1>3, HandlerPosts
  <2>2. PICK e \in Deliveries : TicketOf[e] = k /\ delivery[e].pc = "posting"
    BY <1>1, <2>1 DEF HandledInv, PendingIsPosted
  <2> QED BY <1>1, <2>1, <2>2, HandlerLocal
<1> QED BY <1>2, <1>3

LEMMA HandledStep == HandledInv /\ [ChainNext]_chain => HandledInv'
<1> SUFFICES ASSUME HandledInv, [ChainNext]_chain PROVE HandledInv'
  OBVIOUS
<1>1. RepairInv /\ RepairInv'
  BY RepairStep DEF HandledInv
<1> SUFFICES PendingIsPosted'
  BY <1>1 DEF HandledInv
<1>2. ASSUME NEW d \in Deliveries, Handle(d) \/ Lost(d) \/ Refused(d) PROVE PendingIsPosted'
  <2>1. HandlerStep(d)
    BY <1>2 DEF Handle, HandlerStep
  <2> QED BY <2>1, HandlerPending
<1>3. CASE UNCHANGED <<analysis, delivery, crashes>>
  BY <1>3 DEF HandledInv, PendingIsPosted
<1>4. CASE Crash
  <2>1. crashes' # 0
    BY <1>1, <1>4 DEF Crash, RepairInv, ChainTypeInv
  <2> QED BY <2>1 DEF PendingIsPosted
<1>5. ASSUME NEW t \in Threads, Works(t) \/ \E d \in Deliveries : Serve(t, d) PROVE PendingIsPosted'
  BY <1>3, <1>5 DEF Works, Serve
<1>6. CASE KnowledgeRestarts
  BY <1>3, <1>6 DEF KnowledgeRestarts
<1>7. CASE UNCHANGED chain
  BY <1>3, <1>7 DEF chain, repair
<1> QED BY <1>1, <1>2, <1>4, <1>5, <1>6, <1>7 DEF ChainNext

-----------------------------------------------------------------------------
(* A ticket has one review run, and an analysis that has come to its end   *)
(* stays, unless the ticket was posted again or diagnosed side by side.    *)

Active(d) == delivery[d].pc \notin {"absent", "done"}

\* The delivery of a ticket that is not excused is its only one at work, it
\* has an analysis once it is past the model, and the ticket has a run only
\* when its post is not to be served any more.
Alone(d) ==
  /\ \A e \in Deliveries : Active(e) /\ TicketOf[e] = TicketOf[d] => e = d
  /\ delivery[d].pc \in {"queued", "diagnosing"} => analysis[TicketOf[d]] = "none"
  /\ delivery[d].pc = "posting" => analysis[TicketOf[d]] = "analysis_pending"
Once(k) ==
  /\ \A r, s \in RunsOf(k) : r = s
  /\ RunsOf(k) # {} => analysis[k] # "none" /\ \A d \in Deliveries : TicketOf[d] = k => call[d] # "sent"

AloneInv == \A d \in Deliveries : Active(d) => Alone(d) \/ TicketOf[d] \in excused
OnceInv == \A k \in Tickets : Once(k) \/ k \in excused
SingleInv == RepairInv /\ AloneInv /\ OnceInv

LEMMA ExcusedGrow == [ChainNext]_chain => excused \subseteq excused'
<1> SUFFICES ASSUME [ChainNext]_chain PROVE excused \subseteq excused'
  OBVIOUS
<1>1. ASSUME NEW d \in Deliveries, Handle(d) \/ Lost(d) \/ Refused(d) PROVE excused \subseteq excused'
  BY <1>1 DEF Handle, Arrive, TakePermit, ModelFails, Diagnosed, PostAgain, Conclude, Lost, Refused
<1>2. ASSUME NEW t \in Threads, Works(t) \/ \E d \in Deliveries : Serve(t, d) PROVE excused' = excused
  BY <1>2 DEF Works, Serve
<1>3. Crash \/ KnowledgeRestarts \/ UNCHANGED chain => excused' = excused
  BY DEF Crash, KnowledgeRestarts, chain
<1> QED BY <1>1, <1>2, <1>3 DEF ChainNext

\* What a handler does to a delivery that is not excused.
LEMMA HandlerMoves ==
  ASSUME SingleInv, NEW d \in Deliveries, HandlerStep(d), TicketOf[d] \notin excused'
  PROVE  \/ ~Active(d) /\ UNCHANGED <<analysis, call>> /\ delivery'[d].pc = "done"
         \/ /\ ~Active(d) /\ UNCHANGED <<analysis, call>> /\ delivery'[d].pc = "queued"
            /\ analysis[TicketOf[d]] = "none" /\ Others(d) = {}
         \/ /\ delivery[d].pc \in {"queued", "diagnosing"} /\ UNCHANGED <<analysis, call>>
            /\ delivery'[d].pc \in {"diagnosing", "done"}
         \/ /\ delivery[d].pc = "diagnosing" /\ call' = call /\ delivery'[d].pc = "done"
            /\ SaveAnalysis(d, "not_repairable")
         \/ /\ delivery[d].pc = "diagnosing" /\ Called(d, "sent") /\ delivery'[d].pc = "posting"
            /\ SaveAnalysis(d, "analysis_pending")
         \/ /\ delivery[d].pc = "posting" /\ Called(d, "none") /\ delivery'[d].pc = "done"
            /\ \E status \in {"applied", "repair_apply_paused", "apply_failed"} : SaveAnalysis(d, status)
         \/ /\ delivery[d].pc = "posting" /\ UNCHANGED <<delivery, analysis>>
            /\ \E c \in {"lost", "refused", "paused"} : Called(d, c)
<1>1. /\ delivery \in [Deliveries -> DeliveryRec] /\ \A e \in Deliveries : call[e] # "none" <=> delivery[e].pc = "posting"
  BY DEF SingleInv, RepairInv, ChainTypeInv
<1>2. CASE Arrive(d)
  BY <1>1, <1>2 DEF Arrive, Handler, Active
<1>3. CASE TakePermit(d)
  BY <1>1, <1>3 DEF TakePermit, Handler
<1>4. CASE ModelFails(d)
  BY <1>1, <1>4 DEF ModelFails, Handler
<1>5. CASE Diagnosed(d)
  BY <1>1, <1>5 DEF Diagnosed, Handler
<1>6. CASE PostAgain(d)
  BY <1>1, <1>6 DEF PostAgain
<1>7. CASE Conclude(d)
  BY <1>1, <1>7 DEF Conclude, Handler, GivenUp
<1>8. CASE Lost(d) \/ Refused(d)
  BY <1>1, <1>8 DEF Lost, Refused
<1> QED BY <1>2, <1>3, <1>4, <1>5, <1>6, <1>7, <1>8 DEF HandlerStep

LEMMA HandlerAlone ==
  ASSUME SingleInv, NEW d \in Deliveries, HandlerStep(d), excused \subseteq excused'
  PROVE  AloneInv'
<1> SUFFICES ASSUME NEW e \in Deliveries, Active(e)', TicketOf[e] \notin excused'
             PROVE  Alone(e)'
  BY DEF AloneInv
<1>1. /\ \A f \in Deliveries \ {d} : delivery'[f] = delivery[f]
      /\ \A k \in Tickets \ {TicketOf[d]} : analysis'[k] = analysis[k]
  BY HandlerLocal DEF SingleInv
<1>2. /\ delivery \in [Deliveries -> DeliveryRec] /\ analysis \in [Tickets -> Analyses]
      /\ TicketOf[d] \in Tickets /\ TicketOf[e] \in Tickets
  BY TicketOfType DEF SingleInv, RepairInv, ChainTypeInv
<1>3. \A f \in Deliveries : Active(f) /\ TicketOf[f] \notin excused' => Alone(f)
  BY DEF SingleInv, AloneInv
<1>4. CASE TicketOf[e] # TicketOf[d]
  BY <1>1, <1>2, <1>3, <1>4 DEF Alone, Active
<1>5. CASE TicketOf[e] = TicketOf[d] /\ ~Active(d) /\ analysis' = analysis /\ delivery'[d].pc = "done"
  BY <1>1, <1>3, <1>5 DEF Alone, Active
<1>6. CASE /\ TicketOf[e] = TicketOf[d] /\ analysis' = analysis /\ delivery'[d].pc = "queued"
           /\ analysis[TicketOf[d]] = "none" /\ Others(d) = {}
  <2>1. \A f \in Deliveries : Active(f)' /\ TicketOf[f] = TicketOf[d] => f = d
    BY <1>1, <1>6 DEF Others, Active
  <2> QED BY <1>6, <2>1 DEF Alone
<1>7. CASE TicketOf[e] = TicketOf[d] /\ Active(d)
  <2>1. Alone(d) /\ TicketOf[d] \notin excused'
    BY <1>3, <1>7
  <2>2. e = d /\ \A f \in Deliveries : Active(f)' /\ TicketOf[f] = TicketOf[d] => f = d
    BY <1>1, <1>7, <2>1 DEF Alone, Active
  <2>3. delivery'[d].pc \in {"queued", "diagnosing"} => analysis'[TicketOf[d]] = "none"
    BY <1>2, <1>7, <2>1, HandlerMoves DEF Alone, Active
  <2>4. delivery'[d].pc = "posting" => analysis'[TicketOf[d]] = "analysis_pending"
    BY <1>2, <1>7, <2>1, HandlerMoves DEF Alone, Active, SaveAnalysis
  <2> QED BY <2>2, <2>3, <2>4 DEF Alone
<1>8. CASE TicketOf[e] = TicketOf[d] /\ ~Active(d)
  <2>1. TicketOf[d] \notin excused'
    BY <1>8
  <2>2. \/ analysis' = analysis /\ delivery'[d].pc = "done"
        \/ analysis' = analysis /\ delivery'[d].pc = "queued" /\ analysis[TicketOf[d]] = "none" /\ Others(d) = {}
    BY <1>8, <2>1, HandlerMoves DEF Active
  <2> QED BY <1>5, <1>6, <1>8, <2>2
<1> QED BY <1>4, <1>7, <1>8

LEMMA HandlerOnce ==
  ASSUME SingleInv, NEW d \in Deliveries, HandlerStep(d), excused \subseteq excused'
  PROVE  OnceInv'
<1> SUFFICES ASSUME NEW k \in Tickets, k \notin excused' PROVE Once(k)'
  BY DEF OnceInv
<1>1. /\ \A f \in Deliveries \ {d} : delivery'[f] = delivery[f] /\ call'[f] = call[f]
      /\ \A j \in Tickets \ {TicketOf[d]} : analysis'[j] = analysis[j]
      /\ origin' = origin
  BY HandlerLocal DEF SingleInv
<1>2. /\ delivery \in [Deliveries -> DeliveryRec] /\ analysis \in [Tickets -> Analyses]
      /\ call \in [Deliveries -> Calls] /\ TicketOf[d] \in Tickets
  BY TicketOfType DEF SingleInv, RepairInv, ChainTypeInv
<1>3. RunsOf(k)' = RunsOf(k) /\ Once(k)
  BY <1>1 DEF RunsOf, SingleInv, OnceInv
<1>4. CASE k # TicketOf[d]
  <2>1. analysis'[k] = analysis[k] /\ \A e \in Deliveries : TicketOf[e] = k => call'[e] = call[e]
    BY <1>1, <1>4
  <2> QED BY <1>3, <2>1 DEF Once
<1>5. CASE k = TicketOf[d] /\ RunsOf(k) # {}
  <2>1. analysis[k] # "none" /\ \A e \in Deliveries : TicketOf[e] = k => call[e] # "sent"
    BY <1>3, <1>5 DEF Once
  <2>2. delivery[d].pc # "diagnosing"
    BY <1>5, <2>1 DEF SingleInv, AloneInv, Active, Alone
  <2>3. analysis'[k] # "none" /\ call'[d] # "sent"
    BY <1>2, <1>5, <2>1, <2>2, HandlerMoves DEF SaveAnalysis, Called
  <2> QED BY <1>1, <1>3, <2>1, <2>3 DEF Once
<1>6. CASE RunsOf(k) = {}
  BY <1>3, <1>6 DEF Once
<1> QED BY <1>4, <1>5, <1>6

\* A post that is taken creates the only run of its ticket.
LEMMA ServeOnce ==
  ASSUME SingleInv, NEW t \in Threads, NEW d \in Deliveries, Serve(t, d)
  PROVE  OnceInv'
<1>1. /\ call[d] = "sent" /\ Called(d, "running") /\ origin' = Append(origin, TicketOf[d])
      /\ UNCHANGED <<analysis, delivery, excused>>
  BY DEF Serve
<1>2. /\ origin \in Seq(Tickets) /\ TicketOf[d] \in Tickets /\ call \in [Deliveries -> Calls]
      /\ \A e \in Deliveries : call[e] # "none" <=> delivery[e].pc = "posting"
  BY TicketOfType DEF SingleInv, RepairInv, ChainTypeInv
<1>3. /\ Len(origin) \in Nat /\ Len(origin') = Len(origin) + 1 /\ DOMAIN origin' = 1..(Len(origin) + 1)
      /\ origin'[Len(origin) + 1] = TicketOf[d] /\ \A r \in 1..Len(origin) : origin'[r] = origin[r]
  BY <1>1, <1>2, AppendToText
<1>4. /\ \A e \in Deliveries : call'[e] = "sent" => e # d /\ call[e] = "sent"
      /\ DOMAIN origin = 1..Len(origin)
  BY <1>1, <1>2 DEF Called
<1> SUFFICES ASSUME NEW k \in Tickets, k \notin excused' PROVE Once(k)'
  BY DEF OnceInv
<1>5. Once(k) /\ k \notin excused
  BY <1>1 DEF SingleInv, OnceInv
<1>6. CASE k # TicketOf[d]
  <2>1. RunsOf(k)' = RunsOf(k)
    BY <1>3, <1>4, <1>6 DEF RunsOf
  <2> QED BY <1>1, <1>4, <1>5, <2>1 DEF Once
<1>7. CASE k = TicketOf[d]
  <2>1. RunsOf(k) = {}
    BY <1>1, <1>5, <1>7 DEF Once
  <2>2. \A r \in RunsOf(k)' : r = Len(origin) + 1
    BY <1>3, <1>4, <2>1 DEF RunsOf
  <2>3. delivery[d].pc = "posting" /\ Alone(d)
    BY <1>1, <1>2, <1>5, <1>7 DEF SingleInv, AloneInv, Active
  <2>4. \A e \in Deliveries : TicketOf[e] = k => call'[e] # "sent"
    BY <1>2, <1>4, <1>7, <2>3 DEF Alone, Active
  <2>5. analysis'[k] # "none"
    BY <1>1, <1>7, <2>3 DEF Alone
  <2> QED BY <2>2, <2>4, <2>5 DEF Once
<1> QED BY <1>6, <1>7

\* Steps after which no more deliveries are at work and no more posts are sent.
LEMMA SingleKept ==
  ASSUME SingleInv, UNCHANGED <<analysis, origin, excused>>,
         \A d \in Deliveries : Active(d)' => delivery'[d] = delivery[d],
         \A d \in Deliveries : call'[d] = "sent" => call[d] = "sent"
  PROVE  AloneInv' /\ OnceInv'
<1>1. AloneInv'
  BY DEF SingleInv, AloneInv, Alone, Active
<1>2. OnceInv'
  <2>1. \A k \in Tickets : RunsOf(k)' = RunsOf(k)
    BY DEF RunsOf
  <2> QED BY <2>1 DEF SingleInv, OnceInv, Once
<1> QED BY <1>1, <1>2

LEMMA SingleStep == SingleInv /\ [ChainNext]_chain => SingleInv'
<1> SUFFICES ASSUME SingleInv, [ChainNext]_chain PROVE SingleInv'
  OBVIOUS
<1>1. RepairInv /\ RepairInv' /\ excused \subseteq excused'
  BY RepairStep, ExcusedGrow DEF SingleInv
<1> SUFFICES AloneInv' /\ OnceInv'
  BY <1>1 DEF SingleInv
<1>2. ASSUME NEW d \in Deliveries, Handle(d) \/ Lost(d) \/ Refused(d) PROVE AloneInv' /\ OnceInv'
  <2>1. HandlerStep(d)
    BY <1>2 DEF Handle, HandlerStep
  <2> QED BY <1>1, <2>1, HandlerAlone, HandlerOnce
<1>3. ASSUME NEW t \in Threads, Works(t) PROVE AloneInv' /\ OnceInv'
  <2>1. UNCHANGED <<analysis, delivery, origin, excused>>
    BY <1>1, <1>3, WorksKinds
  <2>2. \A d \in Deliveries : call'[d] = "sent" => call[d] = "sent"
    BY <1>1, <1>3, WorksKinds DEF Called, RepairInv, ChainTypeInv
  <2> QED BY <2>1, <2>2, SingleKept
<1>4. ASSUME NEW t \in Threads, NEW d \in Deliveries, Serve(t, d) PROVE AloneInv' /\ OnceInv'
  <2>1. UNCHANGED <<analysis, delivery, excused>>
    BY <1>4 DEF Serve
  <2>2. AloneInv'
    BY <2>1 DEF SingleInv, AloneInv, Alone, Active
  <2> QED BY <1>4, <2>2, ServeOnce
<1>5. CASE Crash
  <2>1. /\ UNCHANGED <<analysis, origin, excused>> /\ call' = [d \in Deliveries |-> "none"]
        /\ \A d \in Deliveries : Active(d)' => delivery'[d] = delivery[d]
    BY <1>5 DEF Crash, Active
  <2> QED BY <2>1, SingleKept
<1>6. CASE KnowledgeRestarts
  <2>1. /\ UNCHANGED <<analysis, delivery, origin, excused>>
        /\ call' = [d \in Deliveries |-> IF \E t \in Threads : served[t] = d THEN "lost" ELSE call[d]]
    BY <1>6 DEF KnowledgeRestarts
  <2> QED BY <2>1, SingleKept
<1>7. CASE UNCHANGED chain
  BY <1>7, SingleKept DEF chain, repair
<1> QED BY <1>2, <1>3, <1>4, <1>5, <1>6, <1>7 DEF ChainNext

\* An analysis is overwritten only while its ticket is excused.
LEMMA FinalStep ==
  ASSUME SingleInv, [ChainNext]_chain, NEW k \in Tickets,
         analysis[k] \notin {"none", "analysis_pending"}, analysis'[k] # analysis[k]
  PROVE  k \in excused
<1>1. RepairInv /\ analysis \in [Tickets -> Analyses]
      /\ \A d \in Deliveries : call[d] # "none" <=> delivery[d].pc = "posting"
  BY DEF SingleInv, RepairInv, ChainTypeInv
<1>2. ASSUME NEW d \in Deliveries, Handle(d) \/ Lost(d) \/ Refused(d) PROVE k \in excused
  <2>1. HandlerStep(d)
    BY <1>2 DEF Handle, HandlerStep
  <2>2. k = TicketOf[d]
    BY <1>1, <2>1, HandlerLocal
  <2>3. Diagnosed(d) \/ Conclude(d)
    BY <1>2 DEF Handle, Arrive, TakePermit, ModelFails, PostAgain, Lost, Refused
  <2>4. Active(d) /\ ~Alone(d)
    BY <1>1, <2>2, <2>3 DEF Diagnosed, Conclude, GivenUp, Active, Alone
  <2> QED BY <2>2, <2>4 DEF SingleInv, AloneInv
<1>3. CASE UNCHANGED analysis
  BY <1>3
<1>4. ASSUME NEW t \in Threads, Works(t) \/ \E d \in Deliveries : Serve(t, d) PROVE UNCHANGED analysis
  BY <1>4 DEF Works, Serve
<1>5. CASE Crash \/ KnowledgeRestarts \/ UNCHANGED chain
  BY <1>3, <1>5 DEF Crash, KnowledgeRestarts, chain, repair
<1> QED BY <1>2, <1>3, <1>4, <1>5 DEF ChainNext

-----------------------------------------------------------------------------
(* An analysis says applied only when a run has got past its creation.     *)

HasRun(k) == \E r \in RunsOf(k) : runs[r].status # "created"

\* Nobody steps a run, and what a thread is about to save is past its creation.
SavesReviewed == \A t \in Threads :
  /\ thread[t].op # "step"
  /\ thread[t].pc \in {"save", "remember", "trace"} => thread[t].copy.status # "created"
BackedInv ==
  /\ RepairInv /\ SavesReviewed /\ AppliedHasRun
  /\ \A d \in Deliveries : call[d] = "ok" => HasRun(TicketOf[d])

\* One thread moves on to a state that is no step of a run.
LEMMA OneMoves ==
  ASSUME KTypeInv, SavesReviewed, NEW t \in Threads, NEW to, Goes(t, to), to.op # "step",
         to.pc \in {"save", "remember", "trace"} => to.copy.status # "created"
  PROVE  SavesReviewed'
BY GoesTo DEF SavesReviewed, OthersStay

LEMMA OneAnswers ==
  ASSUME KTypeInv, SavesReviewed, NEW t \in Threads, Answers(t)
  PROVE  SavesReviewed'
BY OneMoves DEF Answers, Waiting

LEMMA ReviewedSteps ==
  ASSUME KTypeInv, SavesReviewed, "step" \notin Served, NEW t \in Threads, KnowledgeStep(t)
  PROVE  SavesReviewed'
<1>1. thread[t] \in ThreadRec /\ thread[t].op # "step"
      /\ (thread[t].pc \in {"save", "remember", "trace"} => thread[t].copy.status # "created")
  BY DEF KTypeInv, ThreadInv, SavesReviewed
<1>2. CASE LegacyProposes(t)
  <2> DEFINE Copy(P) == [thread[t].copy EXCEPT !.steps = 1, !.changes = P, !.improved = P # {},
                           !.status = IF P = {} THEN "failed" ELSE "needs_review"]
             To(P) == [thread[t] EXCEPT !.pc = "save", !.copy = Copy(P)]
  <2>1. At(t, "legacy", "propose") /\ (Answers(t) \/ \E P \in Proposals(TRUE) : Goes(t, To(P)))
    BY <1>2 DEF LegacyProposes
  <2>2. thread[t].copy \in Run
    BY <2>1, RunThreadType DEF At, RunOps
  <2>3. \A P : Copy(P).status # "created"
    BY <2>2 DEF Run
  <2> HIDE DEF Copy
  <2>4. \A P : To(P).op # "step" /\ To(P).copy.status # "created"
    BY <1>1, <2>3 DEF ThreadRec
  <2> HIDE DEF To
  <2> QED BY <2>1, <2>4, OneMoves, OneAnswers
<1>3. CASE ApplyPatch(t)
  <2>1. PICK c \in thread[t].todo : Goes(t, Passed(t, c)) \/ Goes(t, Patched(t, c))
    BY <1>3, ApplyPatchKinds
  <2>2. thread[t].pc = "apply"
    BY <1>3, ApplyPatchKinds
  <2>3. /\ Passed(t, c).op # "step" /\ Passed(t, c).pc = "apply"
        /\ Patched(t, c).op # "step" /\ Patched(t, c).pc = "write"
    BY <1>1, <2>2, PatchedType
  <2> QED BY <2>1, <2>3, OneMoves
<1>4. CASE SaveApplied(t)
  <2> DEFINE run == [thread[t].copy EXCEPT !.status = "applied"]
             copy == [run EXCEPT !.status = "completed"]
             to == [thread[t] EXCEPT !.pc = "remember", !.copy = copy]
  <2>1. thread[t].pc = "apply" /\ Goes(t, to)
    BY <1>4 DEF SaveApplied
  <2>2. thread[t].copy \in Run
    BY <2>1, AppliesType
  <2>3. copy.status # "created"
    BY <2>2 DEF Run
  <2> HIDE DEF copy
  <2>4. to.op # "step" /\ to.copy.status # "created"
    BY <1>1, <2>3 DEF ThreadRec
  <2> HIDE DEF to
  <2> QED BY <2>1, <2>4, OneMoves
<1>5. CASE Remember(t)
  <2> DEFINE to == [thread[t] EXCEPT !.pc = "save"]
  <2>1. thread[t].pc = "remember" /\ Goes(t, to)
    BY <1>5 DEF Remember
  <2>2. to.op # "step" /\ to.copy.status # "created"
    BY <1>1, <2>1 DEF ThreadRec
  <2> HIDE DEF to
  <2> QED BY <2>1, <2>2, OneMoves
<1>6. CASE SaveRun(t)
  BY <1>6, OneAnswers DEF SaveRun
<1>7. CASE WriteDocument(t)
  <2> DEFINE to == [thread[t] EXCEPT !.pc = "record"]
  <2>1. Goes(t, to)
    BY <1>7 DEF WriteDocument
  <2>2. to.op # "step" /\ to.pc = "record"
    BY <1>1 DEF ThreadRec
  <2> HIDE DEF to
  <2> QED BY <2>1, <2>2, OneMoves
<1>8. CASE RecordHistory(t)
  <2> DEFINE to == [thread[t] EXCEPT !.pc = "apply"]
  <2>1. Goes(t, to) \/ Answers(t)
    BY <1>8 DEF RecordHistory
  <2>2. to.op # "step" /\ to.pc = "apply"
    BY <1>1 DEF ThreadRec
  <2> HIDE DEF to
  <2> QED BY <2>1, <2>2, OneMoves, OneAnswers
<1>9. CASE EditorSaves(t) \/ RewriteTree(t)
  <2> DEFINE To(d, after) == [thread[t] EXCEPT !.pc = "write", !.doc = d, !.before = docs[d], !.after = after]
  <2>1. Answers(t) \/ \E d, after : Goes(t, To(d, after))
    BY <1>9 DEF EditorSaves, RewriteTree, Rewrites
  <2>2. \A d, after : To(d, after).op # "step" /\ To(d, after).pc = "write"
    BY <1>1 DEF ThreadRec
  <2> HIDE DEF To
  <2> QED BY <2>1, <2>2, OneMoves, OneAnswers
<1>10. CASE Approve(t)
  <2> DEFINE To(r) == [Waiting EXCEPT !.op = "approve", !.pc = "apply", !.run = r, !.copy = runs[r],
                                  !.todo = runs[r].changes]
  <2>1. Answers(t) \/ \E r \in DOMAIN runs : Goes(t, To(r))
    BY <1>10 DEF Approve
  <2>2. \A r : To(r).op # "step" /\ To(r).pc = "apply"
    BY DEF Waiting
  <2> HIDE DEF To
  <2> QED BY <2>1, <2>2, OneMoves, OneAnswers
<1>11. CASE Reject(t)
  <2> DEFINE Copy(r) == [runs[r] EXCEPT !.status = "rejected"]
             To(r) == [Waiting EXCEPT !.op = "reject", !.pc = "remember", !.run = r, !.copy = Copy(r)]
  <2>1. PICK r \in DOMAIN runs : Goes(t, To(r))
    BY <1>11 DEF Reject
  <2>2. runs[r] \in Run
    BY <2>1 DEF KTypeInv, RunsInv
  <2>3. Copy(r).status # "created"
    BY <2>2 DEF Run
  <2> HIDE DEF Copy
  <2>4. To(r).op # "step" /\ To(r).copy.status # "created"
    BY <2>3 DEF Waiting
  <2> HIDE DEF To
  <2> QED BY <2>1, <2>4, OneMoves
<1>12. ~StepBegins(t) /\ ~StepConcludes(t) /\ ~StepReadsAgain(t) /\ ~StepTraces(t)
  BY <1>1 DEF StepBegins, Request, StepConcludes, StepReadsAgain, StepTraces, At
<1> QED BY <1>2, <1>3, <1>4, <1>5, <1>6, <1>7, <1>8, <1>9, <1>10, <1>11, <1>12 DEF KnowledgeStep, RunStep, DocumentStep

\* A run that has got past its creation stays so.
LEMMA RunsGoOn ==
  ASSUME KTypeInv, SavesReviewed, NEW t \in Threads, Saves(t)
  PROVE  Len(runs') = Len(runs) /\ \A r \in 1..Len(runs) : runs[r].status # "created" => runs'[r].status # "created"
<1>1. runs \in Seq(Run)
  BY DEF KTypeInv, RunsInv
<1>2. CASE runs' = runs
  BY <1>2
<1>3. CASE runs' # runs
  <2>1. PICK run \in Run : /\ thread[t].op \in RunOps /\ runs' = [runs EXCEPT ![thread[t].run] = run]
                           /\ \/ run = thread[t].copy /\ thread[t].pc \in {"save", "trace"}
                              \/ run.status = "applied"
    BY <1>3 DEF Saves
  <2>2. run.status # "created"
    BY <2>1 DEF SavesReviewed
  <2>3. thread[t].run \in 1..Len(runs)
    BY <2>1, RunThreadType
  <2>4. Len(runs') = Len(runs) /\ \A r \in 1..Len(runs) : runs'[r] = IF r = thread[t].run THEN run ELSE runs[r]
    BY <1>1, <2>1, <2>3, ReplaceInText
  <2> QED BY <2>2, <2>4
<1> QED BY <1>2, <1>3

LEMMA HasRunKept ==
  ASSUME RepairInv, origin' = origin, NEW k \in Tickets, HasRun(k),
         \A r \in 1..Len(runs) : runs[r].status # "created" => runs'[r].status # "created"
  PROVE  HasRun(k)'
<1>1. PICK r \in RunsOf(k) : runs[r].status # "created"
  BY DEF HasRun
<1>2. r \in 1..Len(runs) /\ r \in RunsOf(k)'
  BY DEF RunsOf, RepairInv, ChainTypeInv
<1> QED BY <1>1, <1>2 DEF HasRun

\* Steps that write no run and get no answer.
LEMMA BackedKept ==
  ASSUME BackedInv, \A k \in Tickets : HasRun(k) => HasRun(k)',
         \A d \in Deliveries : call'[d] = "ok" => call[d] = "ok" \/ HasRun(TicketOf[d])',
         \A k \in Tickets : analysis'[k] = "applied" => analysis[k] = "applied" \/ HasRun(k)
  PROVE  AppliedHasRun' /\ \A d \in Deliveries : call'[d] = "ok" => HasRun(TicketOf[d])'
BY TicketOfType DEF BackedInv, AppliedHasRun, HasRun

\* An answer comes from a run that is saved with it.
LEMMA AnswerHasRun ==
  ASSUME BackedInv, NEW t \in Threads, KnowledgeStep(t), thread[t].pc = "save",
         NEW d \in Deliveries, served[t] = d, origin' = origin
  PROVE  HasRun(TicketOf[d])'
<1>1. thread[t].op = "legacy" /\ origin[thread[t].run] = TicketOf[d] /\ thread[t].copy.status # "created"
  BY RepairAssumption DEF BackedInv, RepairInv, ServedInv, ServesOwnRun, SavesReviewed
<1>2. thread[t].run \in 1..Len(runs) /\ runs \in Seq(Run) /\ thread[t].copy \in Run /\ Len(origin) = Len(runs)
      /\ origin \in Seq(Tickets)
  BY <1>1, RunThreadType DEF BackedInv, RepairInv, ChainTypeInv, KTypeInv, RunsInv, RunOps
<1>3. SaveRun(t)
  <2>1. thread[t] # Waiting
    BY <1>1 DEF Waiting
  <2>2. \A op : ~Request(t, op)
    BY <2>1 DEF Request
  <2>3. ~StepBegins(t) /\ ~Approve(t) /\ ~Reject(t)
    BY <2>2 DEF StepBegins, Approve, Reject
  <2> QED BY <1>1, <2>3 DEF KnowledgeStep, RunStep, DocumentStep, LegacyProposes, StepConcludes, StepReadsAgain, StepTraces,
          ApplyPatch, SaveApplied, Remember, EditorSaves, RewriteTree, WriteDocument, RecordHistory, At
<1>4. runs' = [runs EXCEPT ![thread[t].run] = thread[t].copy]
  BY <1>3 DEF SaveRun
<1>5. runs'[thread[t].run] = thread[t].copy
  BY <1>2, <1>4
<1>6. thread[t].run \in RunsOf(TicketOf[d])'
  BY <1>1, <1>2 DEF RunsOf
<1> QED BY <1>1, <1>5, <1>6 DEF HasRun

LEMMA BackedStep == "step" \notin Served /\ BackedInv /\ [ChainNext]_chain => BackedInv'
<1> SUFFICES ASSUME "step" \notin Served, BackedInv, [ChainNext]_chain PROVE BackedInv'
  OBVIOUS
<1>1. RepairInv /\ RepairInv' /\ KTypeInv /\ SavesReviewed
  BY RepairStep DEF BackedInv, RepairInv, ChainTypeInv
<1> DEFINE Goal == SavesReviewed' /\ AppliedHasRun' /\ \A d \in Deliveries : call'[d] = "ok" => HasRun(TicketOf[d])'
<1> SUFFICES Goal
  BY <1>1 DEF BackedInv, HasRun, RunsOf
<1>2. ASSUME NEW d \in Deliveries, Handle(d) \/ Lost(d) \/ Refused(d) PROVE Goal
  <2>1. HandlerStep(d)
    BY <1>2 DEF Handle, HandlerStep
  <2>2. UNCHANGED <<runs, thread, origin>>
    BY <1>1, <2>1, HandlerLocal
  <2>3. \A k \in Tickets : HasRun(k) => HasRun(k)'
    BY <2>2 DEF HasRun, RunsOf
  <2>4. analysis \in [Tickets -> Analyses] /\ call \in [Deliveries -> Calls] /\ TicketOf[d] \in Tickets
    BY <1>1, TicketOfType DEF RepairInv, ChainTypeInv
  <2>5. call'[d] = "ok" => call[d] = "ok"
    BY <2>1, <2>4 DEF HandlerStep, Arrive, TakePermit, ModelFails, Diagnosed, PostAgain, Conclude, Lost, Refused, Called
  <2>6. analysis'[TicketOf[d]] = "applied" => analysis[TicketOf[d]] = "applied" \/ call[d] = "ok"
    BY <2>1, <2>4 DEF HandlerStep, Arrive, TakePermit, ModelFails, Diagnosed, PostAgain, Conclude, Lost, Refused, SaveAnalysis
  <2>7. \A e \in Deliveries : call'[e] = "ok" => call[e] = "ok"
    BY <1>1, <2>1, <2>5, HandlerLocal
  <2>8. \A k \in Tickets : analysis'[k] = "applied" => analysis[k] = "applied" \/ HasRun(k)
    BY <1>1, <2>1, <2>6, HandlerLocal DEF BackedInv
  <2>9. SavesReviewed'
    BY <1>1, <2>2 DEF SavesReviewed
  <2> QED BY <2>3, <2>7, <2>8, <2>9, BackedKept
<1>3. ASSUME NEW t \in Threads, Works(t) PROVE Goal
  <2>1. KnowledgeStep(t) /\ UNCHANGED <<analysis, origin>>
    BY <1>1, <1>3, WorksKinds
  <2>2. SavesReviewed'
    BY <1>1, <2>1, ReviewedSteps
  <2>3. \A k \in Tickets : HasRun(k) => HasRun(k)'
    BY <1>1, <2>1, KnowledgeStepSaves, RunsGoOn, HasRunKept
  <2>4. ASSUME NEW d \in Deliveries, call'[d] = "ok" PROVE call[d] = "ok" \/ HasRun(TicketOf[d])'
    <3>1. call \in [Deliveries -> Calls]
      BY <1>1 DEF RepairInv, ChainTypeInv
    <3>2. CASE served[t] = d /\ thread[t].pc = "save"
      BY <2>1, <3>2, AnswerHasRun, RepairAssumption
    <3>3. CASE served[t] # d \/ thread[t].pc # "save"
      BY <1>1, <1>3, <2>4, <3>1, <3>3, WorksKinds DEF Called
    <3> QED BY <3>2, <3>3
  <2> QED BY <2>1, <2>2, <2>3, <2>4, BackedKept
<1>4. ASSUME NEW t \in Threads, NEW d \in Deliveries, Serve(t, d) PROVE Goal
  <2> DEFINE to == [Waiting EXCEPT !.op = "legacy", !.pc = "propose", !.run = Len(runs) + 1, !.copy = NewRun(FALSE)]
  <2>1. /\ Goes(t, to) /\ runs' = Append(runs, NewRun(FALSE)) /\ origin' = Append(origin, TicketOf[d])
        /\ analysis' = analysis /\ Called(d, "running")
    BY <1>4 DEF Serve, LegacyCreates
  <2>2. to.op # "step" /\ to.pc = "propose"
    BY DEF Waiting
  <2> HIDE DEF to
  <2>3. SavesReviewed'
    BY <1>1, <2>1, <2>2, OneMoves
  <2>4. /\ runs \in Seq(Run) /\ NewRun(FALSE) \in Run /\ origin \in Seq(Tickets) /\ Len(origin) = Len(runs)
        /\ call \in [Deliveries -> Calls] /\ TicketOf[d] \in Tickets
    BY <1>1, NewRunType, TicketOfType DEF RepairInv, ChainTypeInv, KTypeInv, RunsInv
  <2>5. /\ \A r \in 1..Len(runs) : runs'[r] = runs[r] /\ origin'[r] = origin[r]
        /\ DOMAIN origin = 1..Len(runs) /\ DOMAIN origin' = 1..(Len(runs) + 1)
    BY <2>1, <2>4, AppendToText
  <2>6. \A k \in Tickets : HasRun(k) => HasRun(k)'
    BY <2>4, <2>5 DEF HasRun, RunsOf
  <2>7. \A e \in Deliveries : call'[e] = "ok" => call[e] = "ok"
    BY <2>1, <2>4 DEF Called
  <2> QED BY <2>1, <2>3, <2>6, <2>7, BackedKept
<1>5. CASE Crash
  <2>1. UNCHANGED <<runs, thread, origin, analysis>> /\ \A d \in Deliveries : call'[d] # "ok"
    BY <1>5 DEF Crash, vars
  <2>2. \A k \in Tickets : HasRun(k) => HasRun(k)'
    BY <2>1 DEF HasRun, RunsOf
  <2> QED BY <1>1, <2>1, <2>2, BackedKept DEF SavesReviewed
<1>6. CASE KnowledgeRestarts
  <2>1. /\ UNCHANGED <<runs, origin, analysis>> /\ thread' = [t \in Threads |-> Waiting]
        /\ \A d \in Deliveries : call'[d] = "ok" => call[d] = "ok"
    BY <1>6 DEF KnowledgeRestarts, Restart
  <2>2. \A k \in Tickets : HasRun(k) => HasRun(k)'
    BY <2>1 DEF HasRun, RunsOf
  <2>3. SavesReviewed'
    BY <2>1 DEF SavesReviewed, Waiting
  <2> QED BY <2>1, <2>2, <2>3, BackedKept
<1>7. CASE UNCHANGED chain
  <2>1. UNCHANGED <<runs, thread, origin, analysis, call>>
    BY <1>7 DEF chain, vars, repair
  <2>2. \A k \in Tickets : HasRun(k) => HasRun(k)'
    BY <2>1 DEF HasRun, RunsOf
  <2> QED BY <1>1, <2>1, <2>2, BackedKept DEF SavesReviewed
<1> QED BY <1>2, <1>3, <1>4, <1>5, <1>6, <1>7 DEF ChainNext

-----------------------------------------------------------------------------
(* The theorems.                                                           *)

\* The repair-agent in front of the knowledge-agent keeps its type, a thread
\* that serves a post is with its run, and a pending analysis has a handler
\* unless the repair-agent died.
THEOREM PendingHasHandler == ChainSpec => []PendingIsPosted
<1>1. ChainInit => HandledInv
  <2> SUFFICES ASSUME ChainInit PROVE HandledInv
    OBVIOUS
  <2>1. \A k \in Tickets : analysis[k] = "none"
    BY DEF ChainInit
  <2> QED BY <2>1, RepairInit DEF HandledInv, PendingIsPosted
<1>2. HandledInv => PendingIsPosted
  BY DEF HandledInv
<1> QED BY <1>1, <1>2, HandledStep, PTL DEF ChainSpec

LEMMA SingleInit == ChainInit => SingleInv
<1> SUFFICES ASSUME ChainInit PROVE SingleInv
  OBVIOUS
<1>1. AloneInv
  BY DEF ChainInit, AloneInv, Active
<1>2. OnceInv
  BY DEF ChainInit, OnceInv, Once, RunsOf
<1> QED BY <1>1, <1>2, RepairInit DEF SingleInv

\* A ticket has a second review run only when its post was repeated or its
\* deliveries were diagnosed side by side.
THEOREM TicketsHaveOneRun == ChainSpec => []OneRunPerTicket
<1>1. SingleInv => OneRunPerTicket
  <2> SUFFICES ASSUME SingleInv, NEW k \in Tickets, k \notin excused PROVE ~(Cardinality(RunsOf(k)) > 1)
    BY DEF OneRunPerTicket
  <2>1. \A r, s \in RunsOf(k) : r = s
    BY DEF SingleInv, OnceInv, Once
  <2>2. CASE RunsOf(k) = {}
    BY <2>2, FS_EmptySet
  <2>3. CASE RunsOf(k) # {}
    <3>1. PICK r : RunsOf(k) = {r}
      BY <2>1, <2>3
    <3>2. Cardinality({r}) = 1
      BY FS_Singleton
    <3> QED BY <3>1, <3>2
  <2> QED BY <2>2, <2>3
<1> QED BY <1>1, SingleInit, SingleStep, PTL DEF ChainSpec

\* What an analysis says at its end it says for good, unless another delivery
\* of the ticket has got past the check for an analysis.
THEOREM AnalysesAreFinal == ChainSpec => AnalysisIsFinal
<1>1. SingleInv /\ [ChainNext]_chain =>
        [\A k \in Tickets : analysis[k] \notin {"none", "analysis_pending"} /\ analysis'[k] # analysis[k]
                              => k \in excused]_chain
  BY FinalStep
<1> QED BY <1>1, SingleInit, SingleStep, PTL DEF ChainSpec, AnalysisIsFinal

\* The chain keeps its type, a pending analysis has a handler, and an applied
\* one a review run past its creation, as long as no run is stepped.
THEOREM ChainIsSound == "step" \notin Served => (ChainSpec => []ChainInv)
<1> SUFFICES ASSUME "step" \notin Served PROVE ChainSpec => []ChainInv
  OBVIOUS
<1>1. ChainInit => BackedInv
  <2> SUFFICES ASSUME ChainInit PROVE BackedInv
    OBVIOUS
  <2>1. SavesReviewed
    BY DEF ChainInit, Init, SavesReviewed, Waiting
  <2>2. AppliedHasRun /\ \A d \in Deliveries : call[d] # "ok"
    BY DEF ChainInit, AppliedHasRun
  <2> QED BY <2>1, <2>2, RepairInit DEF BackedInv
<1>2. BackedInv /\ [ChainNext]_chain => BackedInv'
  BY BackedStep
<1>3. BackedInv /\ PendingIsPosted => ChainInv
  BY RepairInvImpliesTypeOK DEF BackedInv, ChainInv
<1> QED BY <1>1, <1>2, <1>3, PendingHasHandler, PTL DEF ChainSpec
=============================================================================
