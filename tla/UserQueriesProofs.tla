-------------------------- MODULE UserQueriesProofs --------------------------
(* Theorems about UserQueries, for every value of its constants.            *)
EXTENDS UserQueries, FiniteSetTheorems, SequenceTheorems, WellFoundedInduction, TLAPS

-----------------------------------------------------------------------------
(* The index that a save makes: every query is saved once, so the query    *)
(* comes before all that the index holds.  What the loop has put together  *)
(* after n ids is shown from the first n where it would be something else. *)

LEMMA LeastElement ==
  ASSUME NEW T \in SUBSET Nat, T # {}
  PROVE  \E x \in T : \A y \in T : x <= y
<1>1. IsWellFoundedOn({ss \in Nat \X Nat : ss[1] < ss[2]}, Nat)
  BY NatLessThanWellFounded DEF OpToRel
<1>2. PICK x \in T : \A y \in T : ~(<<y, x>> \in {ss \in Nat \X Nat : ss[1] < ss[2]})
  BY <1>1, WFMin
<1>3. ASSUME NEW y \in T PROVE x <= y
  <2>1. ASSUME y < x PROVE <<y, x>> \in {ss \in Nat \X Nat : ss[1] < ss[2]}
    <3>1. <<y, x>> \in Nat \X Nat /\ <<y, x>>[1] = y /\ <<y, x>>[2] = x
      OBVIOUS
    <3> QED BY <2>1, <3>1
  <2>2. x \in Nat /\ y \in Nat
    OBVIOUS
  <2> QED BY <1>2, <2>1, <2>2
<1> QED BY <1>3

\* ids, behind q.
Behind(q, ids, n) == [i \in 1..(n + 1) |-> IF i = 1 THEN q ELSE ids[i - 1]]

LEMMA BehindType ==
  ASSUME NEW q \in Queries, NEW ids \in Seq(Queries), NEW n \in 0..Len(ids)
  PROVE  /\ Behind(q, ids, n) \in Seq(Queries) /\ Len(Behind(q, ids, n)) = n + 1
         /\ Behind(q, ids, n)[1] = q
         /\ \A i \in 2..(n + 1) : Behind(q, ids, n)[i] = ids[i - 1]
<1>1. n \in Nat /\ n + 1 \in Nat /\ \A i \in 1..n : ids[i] \in Queries
  OBVIOUS
<1>2. \A i \in 1..(n + 1) : i # 1 => i - 1 \in 1..n
  BY <1>1
<1>3. Behind(q, ids, n) \in [1..(n + 1) -> Queries]
  BY <1>1, <1>2 DEF Behind
<1>4. Behind(q, ids, n) \in Seq(Queries)
  BY <1>1, <1>3
<1>5. Len(Behind(q, ids, n)) = n + 1
  BY <1>1, <1>3, <1>4
<1>6. 1 \in 1..(n + 1) /\ \A i \in 2..(n + 1) : i \in 1..(n + 1) /\ i # 1
  BY <1>1
<1> QED BY <1>4, <1>5, <1>6 DEF Behind

LEMMA BehindGrows ==
  ASSUME NEW q \in Queries, NEW ids \in Seq(Queries), NEW n \in 1..Len(ids)
  PROVE  Behind(q, ids, n) = Append(Behind(q, ids, n - 1), ids[n])
<1>1. n - 1 \in 0..Len(ids) /\ n \in 0..Len(ids) /\ (n - 1) + 1 = n /\ ids[n] \in Queries /\ n \in Nat
  OBVIOUS
<1> DEFINE a == Behind(q, ids, n)
           b == Behind(q, ids, n - 1)
<1>2. a \in Seq(Queries) /\ Len(a) = n + 1 /\ b \in Seq(Queries) /\ Len(b) = n
  BY <1>1, BehindType
<1>3. Append(b, ids[n]) \in Seq(Queries) /\ Len(Append(b, ids[n])) = n + 1
      /\ Append(b, ids[n])[n + 1] = ids[n] /\ \A i \in 1..n : Append(b, ids[n])[i] = b[i]
  <2> HIDE DEF b
  <2> QED BY <1>1, <1>2
<1>4. \A i \in 1..n : a[i] = b[i]
  BY <1>1 DEF Behind
<1>5. a[n + 1] = ids[n]
  BY <1>1 DEF Behind
<1>6. \A i \in 1..(n + 1) : i \in 1..n \/ i = n + 1
  BY <1>1
<1> HIDE DEF a, b
<1>7. \A i \in 1..(n + 1) : a[i] = Append(b, ids[n])[i]
  BY <1>3, <1>4, <1>5, <1>6
<1>8. a = Append(b, ids[n])
  BY <1>2, <1>3, <1>7
<1> QED BY <1>8 DEF a, b

LEMMA OrderedIs ==
  ASSUME index \in Seq(Queries), NEW q \in Queries, \A i \in DOMAIN index : index[i] # q
  PROVE  Ordered(q) = Behind(q, index, Len(index))
<1> DEFINE Body(g, n) == IF n = 0 THEN <<q>>
                         ELSE IF index[n] = q THEN g[n - 1] ELSE Append(g[n - 1], index[n])
           Equation(g) == g = [n \in 0..Len(index) |-> Body(g, n)]
           known == [n \in 0..Len(index) |-> Behind(q, index, n)]
           f == CHOOSE g : Equation(g)
<1>1. Len(index) \in Nat /\ 0 \in 0..Len(index)
      /\ \A n \in 1..Len(index) : index[n] # q /\ n - 1 \in 0..Len(index)
  OBVIOUS
<1>2. Behind(q, index, 0) = <<q>>
  <2>1. ASSUME NEW n \in 0..Len(index), n = 0 PROVE Behind(q, index, n) = <<q>>
    <3>1. Behind(q, index, n) \in Seq(Queries) /\ Len(Behind(q, index, n)) = n + 1 /\ Behind(q, index, n)[1] = q
      BY BehindType
    <3> HIDE DEF Behind
    <3> QED BY <2>1, <3>1
  <2> QED BY <1>1, <2>1
<1>3. ASSUME NEW n \in 0..Len(index) PROVE known[n] = Body(known, n)
  <2>1. CASE n = 0
    BY <1>2, <2>1
  <2>2. CASE n # 0
    <3>1. n \in 1..Len(index)
      BY <1>1, <2>2
    <3>2. known[n] = Behind(q, index, n) /\ known[n - 1] = Behind(q, index, n - 1)
      BY <1>1, <3>1
    <3>3. known[n] = Append(known[n - 1], index[n])
      BY <3>1, <3>2, BehindGrows
    <3> HIDE DEF known
    <3> QED BY <1>1, <2>2, <3>1, <3>3
  <2> QED BY <2>1, <2>2
<1>4. Equation(known)
  BY <1>3
<1>5. Equation(f)
  <2> HIDE DEF Equation, known
  <2> QED BY <1>4
<1>6. Ordered(q) = f[Len(index)]
  BY DEF Ordered
<1> HIDE DEF f
<1>7. \A n \in 0..Len(index) : f[n] = Body(f, n)
  BY <1>5
<1> DEFINE U == {n \in Nat : n <= Len(index) /\ f[n] # Behind(q, index, n)}
<1>8. ASSUME NEW n \in U, \A m \in U : n <= m PROVE FALSE
  <2>1. n \in 0..Len(index) /\ f[n] # Behind(q, index, n)
    BY <1>1, <1>8
  <2>2. CASE n = 0
    <3>1. f[n] = <<q>>
      BY <1>7, <2>1, <2>2
    <3> QED BY <1>2, <2>1, <2>2, <3>1
  <2>3. CASE n # 0
    <3>1. n \in 1..Len(index) /\ n - 1 \in Nat /\ n - 1 <= Len(index) /\ ~(n <= n - 1)
      BY <1>1, <2>1, <2>3
    <3>2. f[n - 1] = Behind(q, index, n - 1)
      BY <1>8, <3>1
    <3>3. f[n] = Append(f[n - 1], index[n])
      BY <1>1, <1>7, <2>1, <2>3, <3>1
    <3> QED BY <2>1, <3>1, <3>2, <3>3, BehindGrows
  <2> QED BY <2>2, <2>3
<1>9. U = {}
  <2>1. U \in SUBSET Nat
    OBVIOUS
  <2> HIDE DEF U
  <2> QED BY <1>8, <2>1, LeastElement
<1>10. f[Len(index)] = Behind(q, index, Len(index))
  BY <1>1, <1>9
<1> QED BY <1>6, <1>10

Shortest(m, n) == IF m < n THEN m ELSE n

\* The index after a save, and what it has no more room for.
LEMMA IndexSaved ==
  ASSUME index \in Seq(Queries), Len(index) <= HistoryLimit, NEW q \in Queries, \A i \in DOMAIN index : index[i] # q,
         \A i, j \in DOMAIN index : index[i] = index[j] => i = j
  PROVE  LET new == Kept(Ordered(q))
             out == ToSet(SubSeq(Ordered(q), HistoryLimit + 1, Len(Ordered(q))))
         IN /\ new \in Seq(Queries) /\ Len(new) = Shortest(Len(index) + 1, HistoryLimit)
            /\ new[1] = q /\ \A i \in 2..Len(new) : new[i] = index[i - 1]
            /\ \A i, j \in DOMAIN new : new[i] = new[j] => i = j
            /\ out \subseteq ToSet(index)
            /\ ToSet(new) = {q} \cup (ToSet(index) \ out)
<1> DEFINE ids == Ordered(q)
           n == Len(index)
           H == HistoryLimit
           new == Kept(ids)
           rest == SubSeq(ids, H + 1, Len(ids))
<1>1. H \in Nat \ {0} /\ n \in Nat /\ n \in 0..n /\ n <= H
  BY QueryAssumption
<1>2. /\ ids \in Seq(Queries) /\ Len(ids) = n + 1 /\ ids[1] = q
      /\ \A i \in 2..(n + 1) : ids[i] = index[i - 1]
  <2>1. ASSUME NEW m \in 0..Len(index)
        PROVE  /\ Behind(q, index, m) \in Seq(Queries) /\ Len(Behind(q, index, m)) = m + 1
               /\ Behind(q, index, m)[1] = q /\ \A i \in 2..(m + 1) : Behind(q, index, m)[i] = index[i - 1]
    BY BehindType
  <2>2. ids = Behind(q, index, n)
    BY OrderedIs
  <2> QED BY <1>1, <2>1, <2>2
<1>3. \A i \in 1..n : index[i] \in Queries /\ index[i] # q
  OBVIOUS
<1>4. \A i, j \in 1..n : index[i] = index[j] => i = j
  OBVIOUS
<1> DEFINE k == IF n + 1 < H THEN n + 1 ELSE H
<1>5. new = SubSeq(ids, 1, k)
  BY <1>2 DEF Kept
<1>6. k \in 1..(n + 1) /\ k = Shortest(n + 1, H) /\ k \in Nat
  BY <1>1 DEF Shortest
<1> HIDE DEF ids
<1>7. new \in Seq(Queries) /\ Len(new) = k /\ \A i \in 1..k : new[i] = ids[i]
  <2> HIDE DEF k, new
  <2> QED BY <1>1, <1>2, <1>5, <1>6
<1>8. /\ n = H => rest \in Seq(Queries) /\ Len(rest) = 1 /\ rest[1] = index[H]
      /\ n # H => rest = << >>
  <2>1. CASE n # H
    <3>1. n + 1 <= H /\ Len(ids) < H + 1
      BY <1>1, <1>2, <2>1
    <3> QED BY <1>1, <1>2, <2>1, <3>1
  <2>2. CASE n = H
    <3>1. H + 1 \in 2..(n + 1) /\ Len(ids) = H + 1 /\ (H + 1) - 1 = H
      BY <1>1, <1>2, <2>2
    <3>2. rest \in Seq(Queries) /\ Len(rest) = 1 /\ rest[1] = ids[H + 1]
      BY <1>1, <1>2, <3>1
    <3> QED BY <1>2, <2>2, <3>1, <3>2
  <2> QED BY <2>1, <2>2
<1> HIDE DEF k, new, rest
<1>9. new[1] = q /\ \A i \in 2..k : new[i] = index[i - 1]
  <2>1. 1 \in 1..k /\ \A i \in 2..k : i \in 1..k /\ i \in 2..(n + 1)
    BY <1>1, <1>6
  <2> QED BY <1>2, <1>7, <2>1
<1>10. ASSUME NEW i \in 1..k, NEW j \in 1..k, new[i] = new[j] PROVE i = j
  <2>1. CASE i = 1 \/ j = 1
    <3>1. \A h \in 2..k : new[h] # q
      <4>1. \A h \in 2..k : h - 1 \in 1..n
        BY <1>1, <1>6
      <4> QED BY <1>3, <1>9, <4>1
    <3>2. \A h \in 1..k : h = 1 \/ h \in 2..k
      BY <1>6
    <3> QED BY <1>9, <1>10, <2>1, <3>1, <3>2
  <2>2. CASE i # 1 /\ j # 1
    <3>1. i \in 2..k /\ j \in 2..k /\ i - 1 \in 1..n /\ j - 1 \in 1..n
      BY <1>1, <1>6, <2>2
    <3>2. i - 1 = j - 1
      BY <1>4, <1>9, <1>10, <3>1
    <3> QED BY <1>6, <3>1, <3>2
  <2> QED BY <2>1, <2>2
<1> DEFINE out == ToSet(rest)
<1>11. out = IF n = H THEN {index[H]} ELSE {}
  <2>1. CASE n = H
    <3>1. DOMAIN rest = {1}
      BY <1>8, <2>1
    <3> QED BY <1>8, <2>1, <3>1 DEF ToSet
  <2>2. CASE n # H
    BY <1>8, <2>2 DEF ToSet
  <2> QED BY <2>1, <2>2
<1>12. out \subseteq ToSet(index)
  BY <1>1, <1>11 DEF ToSet
<1>13. ToSet(new) = {q} \cup (ToSet(index) \ out)
  <2>1. DOMAIN new = 1..k /\ DOMAIN index = 1..n
    BY <1>6, <1>7
  <2>2. ASSUME NEW i \in 1..k PROVE new[i] \in {q} \cup (ToSet(index) \ out)
    <3>1. CASE i = 1
      BY <1>9, <3>1
    <3>2. CASE i # 1
      <4>1. i \in 2..k /\ i - 1 \in 1..n /\ (n = H => i - 1 # H)
        BY <1>1, <1>6, <3>2 DEF Shortest
      <4>2. new[i] = index[i - 1]
        BY <1>9, <4>1
      <4>3. index[i - 1] \in ToSet(index)
        BY <2>1, <4>1 DEF ToSet
      <4>4. n = H => index[i - 1] # index[H]
        BY <1>1, <1>4, <4>1
      <4> QED BY <1>11, <4>2, <4>3, <4>4
    <3> QED BY <3>1, <3>2
  <2>3. ASSUME NEW j \in 1..n, index[j] \notin out PROVE \E i \in 1..k : new[i] = index[j]
    <3>1. n = H => j # H
      BY <1>11, <2>3
    <3>2. PICK i \in 2..k : i - 1 = j
      <4>1. j + 1 \in 2..k /\ (j + 1) - 1 = j
        BY <1>1, <1>6, <3>1 DEF Shortest
      <4> QED BY <4>1
    <3> QED BY <1>9, <3>2
  <2>4. 1 \in 1..k
    BY <1>6
  <2> HIDE DEF out
  <2>5. ToSet(new) \subseteq {q} \cup (ToSet(index) \ out)
    BY <2>1, <2>2 DEF ToSet
  <2>6. q \in ToSet(new)
    BY <1>9, <2>1, <2>4 DEF ToSet
  <2>7. ToSet(index) \ out \subseteq ToSet(new)
    BY <2>1, <2>3 DEF ToSet
  <2> QED BY <2>5, <2>6, <2>7
<1> QED BY <1>6, <1>7, <1>9, <1>10, <1>12, <1>13 DEF ids, new, rest

-----------------------------------------------------------------------------
(* The inductive invariant.  A record, wherever it is held, is about the   *)
(* party that ended its query; the save that keeps the event loop is of    *)
(* the query whose handler is in it, and no other step meets it half done. *)

Busy == {"record", "index", "evict"}
Early == {"new", "generating", "querying", "record"}

\* A call that failed without a text leaves the record of an answer.
Told(party) == IF party = "silent_call" THEN "cga" ELSE party

Rightly(q, record) ==
  /\ record \in Record
  /\ record.diagnostic \in Sources => record.diagnostic = Told(blamed[q])
  /\ record.diagnostic # "not_required" => FailureSource(record) = Told(blamed[q])

SavingInv ==
  /\ \A q \in Queries : handler[q].pc \in Busy <=> saving = q
  /\ \A q \in Queries : saving = q /\ handler[q].pc # "evict" => expired = {}
  /\ saving = None => expired = {}
  /\ \A q \in Queries : handler[q].pc \in Early => files[q] = None
  /\ \A q \in Queries : task[q].pc \in {"added", "diagnosing"} => handler[q].pc = "answered"

RecordsInv == \A q \in Queries :
  /\ handler[q].pc \in Busy => Rightly(q, handler[q].record)
  /\ handler[q].pc \in {"index", "evict"} => files[q] = handler[q].record
  /\ files[q] \notin {None, Torn} => Rightly(q, files[q])
  /\ task[q].pc = "added" => files[q] # Torn /\ (files[q] # None => files[q].diagnostic # "not_required")
  /\ task[q].pc = "diagnosing" => Rightly(q, task[q].record) /\ task[q].record.diagnostic # "not_required"

IndexInv ==
  /\ \A q \in Indexed : handler[q].pc \in {"evict", "answered", "failed"} /\ files[q] # None
  /\ expired \cap Indexed = {}
  /\ saving \notin expired

\* The first n of those that were saved, newest first, as far as there is room.
IsNewest(ids, n) ==
  /\ Len(ids) = Shortest(n, HistoryLimit)
  /\ \A i \in 1..Len(ids) : ids[i] = saved[n - i + 1]

Begun == \E q \in Queries : saving = q /\ handler[q].pc \in {"record", "index"}
Counted == IF Begun THEN Len(saved) - 1 ELSE Len(saved)
NewestInv == deaths = 0 =>
  /\ index # Torn
  /\ saving # None => saved # << >> /\ saved[Len(saved)] = saving
  /\ IsNewest(index, Counted)

TrackedInv == deaths = 0 => \A q \in Queries :
  (files[q] # None /\ handler[q].pc # "index") \/ task[q].pc = "diagnosing"
    => q \in Indexed \cup late \cup expired

QueryInv == TypeOK /\ SavingInv /\ RecordsInv /\ IndexInv /\ NewestInv /\ TrackedInv

Pcs == {"new", "generating", "querying", "record", "index", "evict", "answered", "failed"}

LEMMA Sentinels ==
  /\ None \notin Queries /\ None \notin Record /\ Torn \notin Record /\ Torn # None
  /\ HistoryLimit \in Nat \ {0}
  /\ \A ids \in Seq(Queries) : ids # Torn
BY QueryAssumption

LEMMA HandlerMoves ==
  ASSUME TypeOK, NEW q \in Queries, NEW pc \in Pcs, NEW record \in Record \cup {None}, Handler(q, pc, record)
  PROVE  /\ handler' \in [Queries -> [pc : Pcs, record : Record \cup {None}]]
         /\ handler'[q].pc = pc /\ handler'[q].record = record
         /\ \A u \in Queries \ {q} : handler'[u] = handler[u]
BY DEF TypeOK, Handler, Pcs

LEMMA TaskMoves ==
  ASSUME TypeOK, NEW q \in Queries, NEW pc \in {"none", "added", "diagnosing", "ended"},
         NEW record \in Record \cup {None}, Task(q, pc, record)
  PROVE  /\ task' \in [Queries -> [pc : {"none", "added", "diagnosing", "ended"}, record : Record \cup {None}]]
         /\ task'[q].pc = pc /\ task'[q].record = record
         /\ \A u \in Queries \ {q} : task'[u] = task[u]
BY DEF TypeOK, Task

LEMMA FileMoves ==
  ASSUME TypeOK, NEW q \in Queries, NEW content \in Record \cup {None, Torn}, File(q, content)
  PROVE  /\ files' \in [Queries -> Record \cup {None, Torn}]
         /\ files'[q] = content /\ \A u \in Queries \ {q} : files'[u] = files[u]
BY DEF TypeOK, File

LEMMA IndexedType == TypeOK => Indexed \subseteq Queries
BY DEF TypeOK, Indexed, ToSet

LEMMA QueryInit == Init => QueryInv
<1> SUFFICES ASSUME Init PROVE QueryInv
  OBVIOUS
<1>1. TypeOK
  BY Sentinels, QueryAssumption DEF Init, TypeOK, Sources, Parties
<1>2. SavingInv /\ RecordsInv
  BY Sentinels DEF Init, SavingInv, RecordsInv, Busy, Early
<1>3. index = << >> /\ Len(saved) = 0 /\ Indexed = {}
  BY DEF Init, Indexed, ToSet
<1>4. IndexInv /\ TrackedInv
  BY <1>3, Sentinels DEF Init, IndexInv, TrackedInv
<1>5. ~Begun /\ IsNewest(index, 0)
  BY <1>3, Sentinels DEF Init, Begun, IsNewest, Shortest
<1>6. NewestInv
  <2>1. index # Torn
    <3>1. index \in Seq(Queries)
      BY <1>3
    <3> QED BY <3>1, Sentinels
  <2>2. Counted = 0 /\ saving = None
    BY <1>3, <1>5 DEF Init, Counted
  <2> QED BY <1>5, <2>1, <2>2 DEF NewestInv
<1> QED BY <1>1, <1>2, <1>4, <1>6 DEF QueryInv

-----------------------------------------------------------------------------
(* The steps, one at a time.                                               *)

\* A handler goes on to its next call.
LEMMA GoesOn ==
  ASSUME QueryInv, NEW q \in Queries, saving = None, NEW pc \in {"generating", "querying"}, handler[q].pc \in Early,
         Handler(q, pc, None), UNCHANGED <<task, files, index, saving, expired, blamed, saved, late, deaths>>
  PROVE  QueryInv'
<1>1. TypeOK /\ pc \in Pcs /\ None \in Record \cup {None}
  BY DEF QueryInv, Pcs
<1>2. /\ handler' \in [Queries -> [pc : Pcs, record : Record \cup {None}]]
      /\ handler'[q].pc = pc /\ \A u \in Queries \ {q} : handler'[u] = handler[u]
  BY <1>1, HandlerMoves
<1>3. TypeOK'
  BY <1>1, <1>2 DEF TypeOK, Pcs
<1>4. SavingInv'
  BY <1>2, Sentinels DEF QueryInv, SavingInv, Busy, Early
<1>5. RecordsInv'
  BY <1>2, Sentinels DEF QueryInv, SavingInv, RecordsInv, Busy, Early, Rightly
<1>6. IndexInv'
  <2>1. Indexed' = Indexed /\ Indexed \subseteq Queries
    BY <1>1, IndexedType DEF Indexed
  <2>2. q \notin Indexed
    BY DEF QueryInv, IndexInv, Early
  <2> QED BY <1>2, <2>1, <2>2 DEF QueryInv, IndexInv
<1>7. NewestInv'
  BY Sentinels DEF QueryInv, NewestInv, Counted, Begun, IsNewest
<1>8. TrackedInv'
  BY <1>2, Sentinels DEF QueryInv, SavingInv, TrackedInv, Indexed, Early
<1> QED BY <1>3, <1>4, <1>5, <1>6, <1>7, <1>8 DEF QueryInv

\* A save begins.
LEMMA RecordOfRightly ==
  ASSUME NEW status \in Statuses, NEW cga_error \in BOOLEAN, NEW tugraph_error \in BOOLEAN,
         status # "completed", cga_error => status = "service_failed", status = "query_failed" <=> tugraph_error
  PROVE  LET record == RecordOf(status, cga_error, tugraph_error)
         IN /\ record \in Record /\ record.diagnostic = "pending"
            /\ FailureSource(record) = IF cga_error THEN "runtime_cga_call" ELSE IF tugraph_error THEN "tugraph" ELSE "cga"
BY DEF RecordOf, Record, FailureSource

LEMMA BeginSaveInv ==
  ASSUME QueryInv, NEW q \in Queries, saving = None, handler[q].pc \in {"generating", "querying"},
         NEW record \in Record, NEW party \in Parties, record.diagnostic \notin Sources,
         record.diagnostic # "not_required" => FailureSource(record) = Told(party),
         BeginSave(q, record, party), UNCHANGED <<task, files, index, expired, late, deaths>>
  PROVE  QueryInv'
<1>1. TypeOK /\ "record" \in Pcs /\ record \in Record \cup {None} /\ Handler(q, "record", record)
  BY DEF QueryInv, BeginSave, Pcs
<1>2. /\ handler' \in [Queries -> [pc : Pcs, record : Record \cup {None}]]
      /\ handler'[q].pc = "record" /\ handler'[q].record = record
      /\ \A u \in Queries \ {q} : handler'[u] = handler[u]
  BY <1>1, HandlerMoves
<1>3. /\ saving' = q /\ blamed' \in [Queries -> Parties] /\ blamed'[q] = party
      /\ \A u \in Queries \ {q} : blamed'[u] = blamed[u]
  BY <1>1 DEF BeginSave, TypeOK
<1>4. /\ saved \in Seq(Queries) /\ saved' \in Seq(Queries) /\ Len(saved') = Len(saved) + 1
      /\ saved'[Len(saved) + 1] = q /\ \A i \in 1..Len(saved) : saved'[i] = saved[i]
  BY <1>1 DEF BeginSave, TypeOK
<1>5. TypeOK'
  BY <1>1, <1>2, <1>3, <1>4 DEF TypeOK, Pcs
<1>6. SavingInv'
  BY <1>2, <1>3, Sentinels DEF QueryInv, SavingInv, Busy, Early
<1>7. RecordsInv'
  <2>1. ASSUME NEW u \in Queries, u # q, NEW rec PROVE Rightly(u, rec)' <=> Rightly(u, rec)
    BY <1>3, <2>1 DEF Rightly
  <2>2. Rightly(q, record)'
    BY <1>3 DEF Rightly
  <2>3. files[q] = None /\ task[q].pc \notin {"added", "diagnosing"}
    BY DEF QueryInv, SavingInv, Early
  <2>4. ASSUME NEW u \in Queries, u # q
        PROVE  /\ handler'[u].pc \in Busy => Rightly(u, handler[u].record)'
               /\ files'[u] \notin {None, Torn} => Rightly(u, files[u])'
               /\ task'[u].pc = "diagnosing" => Rightly(u, task[u].record)'
    BY <1>2, <1>3, <2>4 DEF QueryInv, RecordsInv, Rightly
  <2> QED BY <1>2, <2>2, <2>3, <2>4, Sentinels DEF QueryInv, RecordsInv, Busy
<1>8. IndexInv'
  <2>1. expired = {}
    BY DEF QueryInv, SavingInv
  <2>2. Indexed' = Indexed /\ Indexed \subseteq Queries
    BY <1>1, IndexedType DEF Indexed
  <2>3. q \notin Indexed
    BY DEF QueryInv, IndexInv
  <2> QED BY <1>2, <1>3, <2>1, <2>2, <2>3 DEF QueryInv, IndexInv
<1>9. NewestInv'
  <2>1. Counted = Len(saved) /\ Counted' = Len(saved)
    BY <1>2, <1>3, <1>4, Sentinels DEF Counted, Begun
  <2>2. saved' # << >> /\ saved'[Len(saved')] = saving'
    BY <1>3, <1>4
  <2>3. ASSUME index # Torn, IsNewest(index, Len(saved))
        PROVE  \A i \in 1..Len(index) : index[i] = saved'[Len(saved) - i + 1]
    <3>1. index \in Seq(Queries) /\ Len(index) = Shortest(Len(saved), HistoryLimit) /\ HistoryLimit \in Nat
      BY <1>1, <2>3, Sentinels DEF TypeOK, IsNewest
    <3>2. \A i \in 1..Len(index) : Len(saved) - i + 1 \in 1..Len(saved)
      BY <1>4, <3>1 DEF Shortest
    <3> QED BY <1>4, <2>3, <3>1, <3>2 DEF IsNewest
  <2> QED BY <2>1, <2>2, <2>3 DEF QueryInv, NewestInv, IsNewest
<1>10. TrackedInv'
  <2>1. files[q] = None /\ task[q].pc # "diagnosing"
    BY DEF QueryInv, SavingInv, Early
  <2> QED BY <1>2, <2>1 DEF QueryInv, TrackedInv, Indexed
<1> QED BY <1>5, <1>6, <1>7, <1>8, <1>9, <1>10 DEF QueryInv

LEMMA GeneratorAnswersInv ==
  ASSUME QueryInv, NEW q \in Queries, GeneratorAnswers(q)
  PROVE  QueryInv'
<1>1. /\ saving = None /\ handler[q].pc = "generating" /\ UNCHANGED <<task, files, index, expired, late, deaths>>
      /\ \/ BeginSave(q, RecordOf("service_failed", TRUE, FALSE), "runtime_cga_call")
         \/ BeginSave(q, RecordOf("service_failed", FALSE, FALSE), "silent_call")
         \/ \E status \in {"unanswered", "service_failed"} :
              BeginSave(q, RecordOf(status, FALSE, FALSE), "cga")
         \/ Handler(q, "querying", None) /\ UNCHANGED <<saving, saved, blamed>>
  BY DEF GeneratorAnswers
<1>2. CASE BeginSave(q, RecordOf("service_failed", TRUE, FALSE), "runtime_cga_call")
  <2> DEFINE record == RecordOf("service_failed", TRUE, FALSE)
  <2>1. record \in Record /\ record.diagnostic = "pending" /\ FailureSource(record) = "runtime_cga_call"
    BY RecordOfRightly DEF Statuses
  <2> HIDE DEF record
  <2>2. BeginSave(q, record, "runtime_cga_call")
    BY <1>2 DEF record
  <2> QED BY <1>1, <2>1, <2>2, BeginSaveInv DEF Sources, Parties, Told
<1>3. ASSUME NEW status \in {"unanswered", "service_failed"},
             BeginSave(q, RecordOf(status, FALSE, FALSE), "cga")
      PROVE  QueryInv'
  <2> DEFINE record == RecordOf(status, FALSE, FALSE)
  <2>1. record \in Record /\ record.diagnostic = "pending" /\ FailureSource(record) = "cga"
    BY RecordOfRightly DEF Statuses
  <2> HIDE DEF record
  <2>2. BeginSave(q, record, "cga")
    BY <1>3 DEF record
  <2> QED BY <1>1, <2>1, <2>2, BeginSaveInv DEF Sources, Parties, Told
<1>4. CASE Handler(q, "querying", None) /\ UNCHANGED <<saving, saved, blamed>>
  BY <1>1, <1>4, GoesOn DEF Early
<1>5. CASE BeginSave(q, RecordOf("service_failed", FALSE, FALSE), "silent_call")
  <2> DEFINE record == RecordOf("service_failed", FALSE, FALSE)
  <2>1. record \in Record /\ record.diagnostic = "pending" /\ FailureSource(record) = "cga"
    BY RecordOfRightly DEF Statuses
  <2> HIDE DEF record
  <2>2. BeginSave(q, record, "silent_call")
    BY <1>5 DEF record
  <2> QED BY <1>1, <2>1, <2>2, BeginSaveInv DEF Sources, Parties, Told
<1> QED BY <1>1, <1>2, <1>3, <1>4, <1>5

LEMMA TuGraphAnswersInv ==
  ASSUME QueryInv, NEW q \in Queries, TuGraphAnswers(q)
  PROVE  QueryInv'
<1>1. /\ saving = None /\ handler[q].pc = "querying" /\ UNCHANGED <<task, files, index, expired, late, deaths>>
      /\ \/ BeginSave(q, RecordOf("completed", FALSE, FALSE), "nobody")
         \/ BeginSave(q, RecordOf("query_failed", FALSE, TRUE), "tugraph")
  BY DEF TuGraphAnswers
<1>2. CASE BeginSave(q, RecordOf("completed", FALSE, FALSE), "nobody")
  <2> DEFINE record == RecordOf("completed", FALSE, FALSE)
  <2>1. record \in Record /\ record.diagnostic = "not_required"
    BY DEF RecordOf, Record, Statuses
  <2> HIDE DEF record
  <2>2. BeginSave(q, record, "nobody")
    BY <1>2 DEF record
  <2> QED BY <1>1, <2>1, <2>2, BeginSaveInv DEF Sources, Parties, Told
<1>3. CASE BeginSave(q, RecordOf("query_failed", FALSE, TRUE), "tugraph")
  <2> DEFINE record == RecordOf("query_failed", FALSE, TRUE)
  <2>1. record \in Record /\ record.diagnostic = "pending" /\ FailureSource(record) = "tugraph"
    BY RecordOfRightly DEF Statuses
  <2> HIDE DEF record
  <2>2. BeginSave(q, record, "tugraph")
    BY <1>3 DEF record
  <2> QED BY <1>1, <2>1, <2>2, BeginSaveInv DEF Sources, Parties, Told
<1> QED BY <1>1, <1>2, <1>3

\* The record first.
LEMMA SaveRecordInv ==
  ASSUME QueryInv, NEW q \in Queries, SaveRecord(q)
  PROVE  QueryInv'
<1>1. /\ saving = q /\ handler[q].pc = "record" /\ File(q, handler[q].record) /\ Handler(q, "index", handler[q].record)
      /\ UNCHANGED <<task, index, saving, expired, blamed, saved, late, deaths>>
  BY DEF SaveRecord
<1>2. TypeOK /\ "index" \in Pcs /\ Rightly(q, handler[q].record) /\ handler[q].record \in Record
  BY <1>1 DEF QueryInv, RecordsInv, Pcs, Busy, Rightly
<1>3. /\ handler' \in [Queries -> [pc : Pcs, record : Record \cup {None}]]
      /\ handler'[q].pc = "index" /\ handler'[q].record = handler[q].record
      /\ \A u \in Queries \ {q} : handler'[u] = handler[u]
      /\ files' \in [Queries -> Record \cup {None, Torn}] /\ files'[q] = handler[q].record
      /\ \A u \in Queries \ {q} : files'[u] = files[u]
  BY <1>1, <1>2, HandlerMoves, FileMoves
<1>4. TypeOK'
  BY <1>1, <1>2, <1>3 DEF TypeOK, Pcs
<1>5. SavingInv'
  BY <1>1, <1>3 DEF QueryInv, SavingInv, Busy, Early
<1>6. RecordsInv'
  <2>1. task[q].pc \notin {"added", "diagnosing"}
    BY <1>1 DEF QueryInv, SavingInv
  <2> QED BY <1>1, <1>2, <1>3, <2>1, Sentinels DEF QueryInv, RecordsInv, Busy, Rightly
<1>7. IndexInv'
  <2>1. Indexed' = Indexed /\ Indexed \subseteq Queries
    BY <1>1, <1>2, IndexedType DEF Indexed
  <2>2. q \notin Indexed
    BY <1>1 DEF QueryInv, IndexInv
  <2> QED BY <1>1, <1>3, <2>1, <2>2 DEF QueryInv, IndexInv
<1>8. NewestInv'
  <2>1. Counted' = Counted
    BY <1>1, <1>3 DEF Counted, Begun
  <2> QED BY <1>1, <2>1 DEF QueryInv, NewestInv, IsNewest
<1>9. TrackedInv'
  BY <1>1, <1>3 DEF QueryInv, SavingInv, TrackedInv, Indexed
<1> QED BY <1>4, <1>5, <1>6, <1>7, <1>8, <1>9 DEF QueryInv

\* The index then.
LEMMA SaveIndexInv ==
  ASSUME QueryInv, NEW q \in Queries, SaveIndex(q)
  PROVE  QueryInv'
<1>1. /\ saving = q /\ handler[q].pc = "index" /\ UNCHANGED <<task, files, blamed, saved, late, deaths>>
      /\ handler[q].record \in Record /\ files[q] = handler[q].record /\ expired = {}
  BY DEF SaveIndex, QueryInv, SavingInv, RecordsInv, Busy, Rightly
<1>2. TypeOK /\ "failed" \in Pcs /\ "evict" \in Pcs
  BY DEF QueryInv, Pcs
<1>3. task[q].pc \notin {"added", "diagnosing"}
  BY <1>1 DEF QueryInv, SavingInv
<1>4. q \notin Indexed /\ Indexed \subseteq Queries
  BY <1>1, <1>2, IndexedType DEF QueryInv, IndexInv
<1>5. CASE index = Torn
  <2>1. Handler(q, "failed", None) /\ saving' = None /\ UNCHANGED <<index, expired>>
    BY <1>5 DEF SaveIndex
  <2>2. /\ handler' \in [Queries -> [pc : Pcs, record : Record \cup {None}]]
        /\ handler'[q].pc = "failed" /\ \A u \in Queries \ {q} : handler'[u] = handler[u]
    BY <1>2, <2>1, HandlerMoves
  <2>3. TypeOK'
    BY <1>1, <1>2, <2>1, <2>2 DEF TypeOK, Pcs
  <2>4. SavingInv'
    BY <1>1, <1>3, <2>1, <2>2, Sentinels DEF QueryInv, SavingInv, Busy, Early
  <2>5. RecordsInv'
    BY <1>1, <2>1, <2>2 DEF QueryInv, RecordsInv, Busy, Rightly
  <2>6. IndexInv' /\ NewestInv' /\ TrackedInv'
    BY <1>1, <1>5, <2>1, <2>2, Sentinels DEF QueryInv, IndexInv, NewestInv, TrackedInv, Indexed
  <2> QED BY <2>3, <2>4, <2>5, <2>6 DEF QueryInv
<1>6. CASE index # Torn
  <2> DEFINE new == Kept(Ordered(q))
             out == ToSet(SubSeq(Ordered(q), HistoryLimit + 1, Len(Ordered(q))))
  <2>1. Handler(q, "evict", handler[q].record) /\ saving' = saving /\ index' = new /\ expired' = out
    BY <1>6 DEF SaveIndex
  <2>2. /\ handler' \in [Queries -> [pc : Pcs, record : Record \cup {None}]]
        /\ handler'[q].pc = "evict" /\ handler'[q].record = handler[q].record
        /\ \A u \in Queries \ {q} : handler'[u] = handler[u]
    BY <1>1, <1>2, <2>1, HandlerMoves
  <2>3. /\ index \in Seq(Queries) /\ Len(index) <= HistoryLimit /\ Indexed = ToSet(index)
        /\ \A i \in DOMAIN index : index[i] # q
        /\ \A i, j \in DOMAIN index : index[i] = index[j] => i = j
    BY <1>2, <1>4, <1>6 DEF TypeOK, Indexed, ToSet
  <2>4. /\ new \in Seq(Queries) /\ Len(new) = Shortest(Len(index) + 1, HistoryLimit)
        /\ new[1] = q /\ \A i \in 2..Len(new) : new[i] = index[i - 1]
        /\ \A i, j \in DOMAIN new : new[i] = new[j] => i = j
        /\ out \subseteq Indexed /\ ToSet(new) = {q} \cup (Indexed \ out)
    BY <2>3, IndexSaved
  <2> HIDE DEF new, out
  <2>5. index' # Torn /\ Indexed' = ToSet(new) /\ Len(new) <= HistoryLimit
    BY <2>1, <2>3, <2>4, Sentinels DEF Indexed, Shortest
  <2>6. TypeOK'
    BY <1>1, <1>2, <1>4, <2>1, <2>2, <2>4, <2>5 DEF TypeOK, Pcs
  <2>7. SavingInv'
    BY <1>1, <2>1, <2>2, Sentinels DEF QueryInv, SavingInv, Busy, Early
  <2>8. RecordsInv'
    BY <1>1, <2>1, <2>2 DEF QueryInv, RecordsInv, Busy, Rightly
  <2>9. IndexInv'
    BY <1>1, <1>4, <2>1, <2>2, <2>4, <2>5, Sentinels DEF QueryInv, IndexInv
  <2>10. NewestInv'
    <3> SUFFICES ASSUME deaths = 0 PROVE saved # << >> /\ saved[Len(saved)] = saving /\ IsNewest(index, Counted)'
      BY <1>1, <2>1, <2>5 DEF NewestInv
    <3>1. saved # << >> /\ saved[Len(saved)] = q /\ IsNewest(index, Counted) /\ saved \in Seq(Queries)
      BY <1>1, <1>2, Sentinels DEF QueryInv, NewestInv, TypeOK
    <3>2. Counted = Len(saved) - 1 /\ Counted' = Len(saved) /\ Len(saved) \in Nat
      BY <1>1, <2>1, <2>2, <3>1 DEF Counted, Begun
    <3>3. Len(index) = Shortest(Len(saved) - 1, HistoryLimit)
          /\ \A i \in 1..Len(index) : index[i] = saved[Len(saved) - 1 - i + 1]
      BY <3>1, <3>2 DEF IsNewest
    <3>4. Len(new) = Shortest(Len(saved), HistoryLimit) /\ Len(new) <= Len(index) + 1
      BY <2>3, <2>4, <3>1, <3>2, <3>3, Sentinels DEF Shortest
    <3>5. ASSUME NEW i \in 1..Len(new) PROVE new[i] = saved[Len(saved) - i + 1]
      <4>1. CASE i = 1
        BY <2>4, <3>1, <3>2, <4>1
      <4>2. CASE i # 1
        <5>1. i \in 2..Len(new) /\ i - 1 \in 1..Len(index) /\ Len(saved) - 1 - (i - 1) + 1 = Len(saved) - i + 1
          BY <2>3, <2>4, <3>2, <3>4, <4>2
        <5> QED BY <2>4, <3>3, <5>1
      <4> QED BY <4>1, <4>2
    <3> QED BY <1>1, <2>1, <3>1, <3>2, <3>4, <3>5 DEF IsNewest
  <2>11. TrackedInv'
    BY <1>1, <2>1, <2>2, <2>4, <2>5 DEF QueryInv, TrackedInv
  <2> QED BY <2>6, <2>7, <2>8, <2>9, <2>10, <2>11 DEF QueryInv
<1> QED BY <1>5, <1>6

\* The evicted last.
LEMMA AnswerInv ==
  ASSUME QueryInv, NEW q \in Queries, Answer(q)
  PROVE  QueryInv'
<1>1. /\ saving = q /\ handler[q].pc = "evict" /\ files' = Unlink(expired) /\ expired' = {} /\ saving' = None
      /\ late' = late \cup {i \in expired : task[i].pc = "diagnosing"}
      /\ Handler(q, "answered", None) /\ UNCHANGED <<index, blamed, saved, deaths>>
      /\ IF HasTask(handler[q].record) THEN Task(q, "added", None) ELSE UNCHANGED task
  BY DEF Answer
<1>2. TypeOK /\ "answered" \in Pcs /\ None \in Record \cup {None} /\ expired \subseteq Queries /\ late \subseteq Queries
  BY DEF QueryInv, Pcs, TypeOK
<1>3. /\ handler' \in [Queries -> [pc : Pcs, record : Record \cup {None}]]
      /\ handler'[q].pc = "answered" /\ \A u \in Queries \ {q} : handler'[u] = handler[u]
  BY <1>1, <1>2, HandlerMoves
<1>4. /\ task' \in [Queries -> [pc : {"none", "added", "diagnosing", "ended"}, record : Record \cup {None}]]
      /\ (task'[q] = task[q] \/ (handler[q].record.diagnostic = "pending" /\ task'[q].pc = "added"))
      /\ \A u \in Queries \ {q} : task'[u] = task[u]
  <2>1. CASE HasTask(handler[q].record)
    <3>1. Task(q, "added", None) /\ handler[q].record.diagnostic = "pending"
      BY <1>1, <2>1 DEF HasTask
    <3> QED BY <1>2, <3>1, TaskMoves
  <2>2. CASE ~HasTask(handler[q].record)
    <3>1. task' = task
      BY <1>1, <2>2 DEF HasTask
    <3>2. task \in [Queries -> [pc : {"none", "added", "diagnosing", "ended"}, record : Record \cup {None}]]
      BY <1>2 DEF TypeOK
    <3> QED BY <3>1, <3>2
  <2> QED BY <2>1, <2>2
<1>5. /\ files' \in [Queries -> Record \cup {None, Torn}]
      /\ \A u \in Queries : files'[u] = IF u \in expired THEN None ELSE files[u]
  BY <1>1, <1>2 DEF Unlink, TypeOK
<1>6. files[q] = handler[q].record /\ files[q] \in Record /\ q \notin expired
  BY <1>1 DEF QueryInv, RecordsInv, IndexInv, Busy, Rightly
<1>7. TypeOK'
  BY <1>1, <1>2, <1>3, <1>4, <1>5 DEF TypeOK, Pcs
<1>8. SavingInv'
  <2>1. \A u \in Queries : handler'[u].pc \notin Busy
    BY <1>1, <1>3 DEF QueryInv, SavingInv, Busy
  <2>2. \A u \in Queries : handler'[u].pc \in Early => files'[u] = None
    BY <1>3, <1>5 DEF QueryInv, SavingInv, Early
  <2>3. \A u \in Queries : task'[u].pc \in {"added", "diagnosing"} => handler'[u].pc = "answered"
    BY <1>1, <1>3, <1>4 DEF QueryInv, SavingInv
  <2> QED BY <1>1, <2>1, <2>2, <2>3, Sentinels DEF SavingInv
<1>9. RecordsInv'
  <2>1. ASSUME NEW u \in Queries, u # q, handler'[u].pc \in {"index", "evict"} PROVE FALSE
    BY <1>1, <1>3, <2>1 DEF QueryInv, SavingInv, Busy
  <2>2. ASSUME NEW u \in Queries, files'[u] \notin {None, Torn} PROVE Rightly(u, files[u])' /\ files'[u] = files[u]
    BY <1>1, <1>5, <2>2 DEF QueryInv, RecordsInv, Rightly
  <2>3. ASSUME NEW u \in Queries, handler'[u].pc \in Busy PROVE FALSE
    BY <1>1, <1>3, <2>3 DEF QueryInv, SavingInv, Busy
  <2>4. ASSUME NEW u \in Queries, task'[u].pc = "added"
        PROVE  files'[u] # Torn /\ (files'[u] # None => files'[u].diagnostic # "not_required")
    BY <1>4, <1>5, <1>6, <2>4, Sentinels DEF QueryInv, RecordsInv
  <2>5. ASSUME NEW u \in Queries, task'[u].pc = "diagnosing"
        PROVE  Rightly(u, task[u].record)' /\ task'[u].record.diagnostic # "not_required"
    BY <1>1, <1>4, <2>5 DEF QueryInv, RecordsInv, Rightly
  <2> QED BY <1>3, <2>1, <2>2, <2>3, <2>4, <2>5 DEF RecordsInv, Rightly
<1>10. IndexInv'
  <2>1. Indexed' = Indexed /\ Indexed \subseteq Queries
    BY <1>1, <1>2, IndexedType DEF Indexed
  <2> QED BY <1>1, <1>3, <1>5, <2>1 DEF QueryInv, IndexInv
<1>11. NewestInv'
  <2>1. Counted' = Counted
    BY <1>1, <1>3, Sentinels DEF Counted, Begun
  <2> QED BY <1>1, <2>1 DEF QueryInv, NewestInv, IsNewest
<1>12. TrackedInv'
  <2> SUFFICES ASSUME deaths = 0, NEW u \in Queries,
                      (files'[u] # None /\ handler'[u].pc # "index") \/ task'[u].pc = "diagnosing"
               PROVE  u \in Indexed \cup late'
    BY <1>1 DEF TrackedInv, Indexed
  <2>1. (files[u] # None /\ handler[u].pc # "index" /\ u \notin expired) \/ task[u].pc = "diagnosing"
    BY <1>1, <1>3, <1>4, <1>5
  <2>2. u \in Indexed \cup late \cup expired
    BY <2>1 DEF QueryInv, TrackedInv
  <2> QED BY <1>1, <2>1, <2>2
<1> QED BY <1>7, <1>8, <1>9, <1>10, <1>11, <1>12 DEF QueryInv

LEMMA ReadRecordInv ==
  ASSUME QueryInv, NEW q \in Queries, ReadRecord(q)
  PROVE  QueryInv'
<1>1. /\ saving = None /\ task[q].pc = "added"
      /\ IF files[q] = None THEN Task(q, "ended", None) ELSE Task(q, "diagnosing", files[q])
      /\ UNCHANGED <<handler, files, index, saving, expired, blamed, saved, late, deaths>>
  BY DEF ReadRecord
<1>2. TypeOK /\ (files[q] # None => files[q] \in Record /\ files[q].diagnostic # "not_required" /\ Rightly(q, files[q]))
      /\ handler[q].pc = "answered"
  BY <1>1 DEF QueryInv, SavingInv, RecordsInv, Rightly
<1>3. /\ task' \in [Queries -> [pc : {"none", "added", "diagnosing", "ended"}, record : Record \cup {None}]]
      /\ \/ task'[q].pc = "ended"
         \/ task'[q].pc = "diagnosing" /\ task'[q].record = files[q] /\ files[q] # None
      /\ \A u \in Queries \ {q} : task'[u] = task[u]
  <2>1. CASE files[q] = None
    BY <1>1, <1>2, <2>1, TaskMoves
  <2>2. CASE files[q] # None
    BY <1>1, <1>2, <2>2, TaskMoves
  <2> QED BY <2>1, <2>2
<1>4. TypeOK'
  BY <1>1, <1>2, <1>3 DEF TypeOK
<1>5. SavingInv'
  BY <1>1, <1>2, <1>3 DEF QueryInv, SavingInv
<1>6. RecordsInv'
  BY <1>1, <1>2, <1>3 DEF QueryInv, RecordsInv, Rightly, Busy
<1>7. IndexInv'
  BY <1>1 DEF QueryInv, IndexInv, Indexed
<1>8. NewestInv'
  <2>1. Counted' = Counted
    BY <1>1 DEF Counted, Begun
  <2> QED BY <1>1, <2>1 DEF QueryInv, NewestInv, IsNewest
<1>9. TrackedInv'
  BY <1>1, <1>2, <1>3 DEF QueryInv, TrackedInv, Indexed
<1> QED BY <1>4, <1>5, <1>6, <1>7, <1>8, <1>9 DEF QueryInv

\* A diagnosis writes the record it has read, or writes it anew.
LEMMA DiagnoseInv ==
  ASSUME QueryInv, NEW q \in Queries, Diagnose(q)
  PROVE  QueryInv'
<1>1. PICK diagnostic \in Diagnostics(task[q].record) : File(q, [task[q].record EXCEPT !.diagnostic = diagnostic])
  BY DEF Diagnose
<1> DEFINE record == [task[q].record EXCEPT !.diagnostic = diagnostic]
<1>2. /\ saving = None /\ task[q].pc = "diagnosing" /\ Task(q, "ended", None)
      /\ UNCHANGED <<handler, index, saving, expired, blamed, saved, late, deaths>>
  BY DEF Diagnose
<1>3. TypeOK /\ handler[q].pc = "answered" /\ Rightly(q, task[q].record) /\ task[q].record.diagnostic # "not_required"
  BY <1>2 DEF QueryInv, SavingInv, RecordsInv
<1>4. record \in Record /\ Rightly(q, record)
  <2>1. task[q].record \in Record /\ FailureSource(task[q].record) = Told(blamed[q])
    BY <1>3 DEF Rightly
  <2>2. diagnostic \in {Told(blamed[q]), "failed"} /\ diagnostic \in {"failed"} \cup Sources
    BY <1>1, <2>1 DEF Diagnostics, FailureSource, Sources
  <2>3. record \in Record /\ record.diagnostic = diagnostic /\ FailureSource(record) = FailureSource(task[q].record)
    BY <2>1, <2>2 DEF Record, FailureSource
  <2> HIDE DEF record
  <2> QED BY <2>1, <2>2, <2>3 DEF Rightly, Sources
<1>5. File(q, record)
  BY <1>1
<1> HIDE DEF record
<1>6. /\ task' \in [Queries -> [pc : {"none", "added", "diagnosing", "ended"}, record : Record \cup {None}]]
      /\ task'[q].pc = "ended" /\ \A u \in Queries \ {q} : task'[u] = task[u]
  BY <1>2, <1>3, TaskMoves
<1>7. /\ files' \in [Queries -> Record \cup {None, Torn}] /\ files'[q] = record
      /\ \A u \in Queries \ {q} : files'[u] = files[u]
  BY <1>3, <1>4, <1>5, FileMoves
<1>8. TypeOK'
  BY <1>2, <1>3, <1>6, <1>7 DEF TypeOK
<1>9. SavingInv'
  BY <1>2, <1>3, <1>6, <1>7 DEF QueryInv, SavingInv, Early
<1>10. RecordsInv'
  BY <1>2, <1>3, <1>4, <1>6, <1>7 DEF QueryInv, RecordsInv, Rightly, Busy
<1>11. IndexInv'
  <2>1. Indexed' = Indexed /\ Indexed \subseteq Queries
    BY <1>2, <1>3, IndexedType DEF Indexed
  <2> QED BY <1>2, <1>4, <1>7, <2>1, Sentinels DEF QueryInv, IndexInv
<1>12. NewestInv'
  <2>1. Counted' = Counted
    BY <1>2 DEF Counted, Begun
  <2> QED BY <1>2, <2>1 DEF QueryInv, NewestInv, IsNewest
<1>13. TrackedInv'
  BY <1>2, <1>3, <1>6, <1>7 DEF QueryInv, TrackedInv, Indexed
<1> QED BY <1>8, <1>9, <1>10, <1>11, <1>12, <1>13 DEF QueryInv

LEMMA DieInv ==
  ASSUME QueryInv, Die
  PROVE  QueryInv'
<1>1. /\ deaths < MaxDeaths /\ deaths' = deaths + 1 /\ saving' = None /\ expired' = {}
      /\ UNCHANGED <<blamed, saved, late>>
      /\ handler' = [q \in Queries |-> IF handler[q].pc \in {"new", "answered", "failed"} THEN handler[q]
                                       ELSE [pc |-> "failed", record |-> None]]
      /\ task' = [q \in Queries |-> IF task[q].pc = "none" THEN task[q] ELSE [pc |-> "ended", record |-> None]]
  BY DEF Die
<1>2. TypeOK
  BY DEF QueryInv
<1>3. \/ UNCHANGED <<files, index>>
      \/ /\ index' = index
         /\ \E q \in Queries : File(q, Torn) /\ (handler[q].pc = "record" \/ task[q].pc = "diagnosing")
      \/ index' = Torn /\ files' = files
  BY DEF Die
<1>4. /\ files' \in [Queries -> Record \cup {None, Torn}]
      /\ \A q \in Queries : \/ files'[q] = files[q]
                            \/ files'[q] = Torn /\ handler[q].pc \in {"record", "answered"}
  <2>1. CASE files' = files
    BY <1>2, <2>1 DEF TypeOK
  <2>2. ASSUME NEW q \in Queries, File(q, Torn), handler[q].pc = "record" \/ task[q].pc = "diagnosing"
        PROVE  /\ files' \in [Queries -> Record \cup {None, Torn}]
               /\ \A u \in Queries : \/ files'[u] = files[u]
                                     \/ files'[u] = Torn /\ handler[u].pc \in {"record", "answered"}
    <3>1. handler[q].pc \in {"record", "answered"}
      BY <2>2 DEF QueryInv, SavingInv
    <3>2. /\ files' \in [Queries -> Record \cup {None, Torn}] /\ files'[q] = Torn
          /\ \A u \in Queries \ {q} : files'[u] = files[u]
      BY <1>2, <2>2, FileMoves
    <3> QED BY <3>1, <3>2
  <2> QED BY <1>3, <2>1, <2>2
<1>5. index' \in {index, Torn} /\ deaths' # 0 /\ deaths' \in 0..MaxDeaths
  BY <1>1, <1>2, <1>3, QueryAssumption DEF TypeOK
<1>6. TypeOK'
  BY <1>1, <1>2, <1>4, <1>5 DEF TypeOK
<1>7. SavingInv'
  BY <1>1, <1>4, Sentinels DEF QueryInv, SavingInv, Busy, Early
<1>8. RecordsInv'
  BY <1>1, <1>4 DEF QueryInv, RecordsInv, Busy, Rightly
<1>9. IndexInv'
  <2>1. Indexed' \subseteq Indexed /\ Indexed \subseteq Queries
    BY <1>2, <1>5, IndexedType DEF Indexed
  <2> QED BY <1>1, <1>4, <2>1, Sentinels DEF QueryInv, IndexInv
<1>10. NewestInv' /\ TrackedInv'
  BY <1>5 DEF NewestInv, TrackedInv
<1> QED BY <1>6, <1>7, <1>8, <1>9, <1>10 DEF QueryInv

LEMMA CreateInv ==
  ASSUME QueryInv, NEW q \in Queries, Create(q)
  PROVE  QueryInv'
BY GoesOn DEF Create, Early

LEMMA QueryStep == QueryInv /\ [Next]_vars => QueryInv'
<1> SUFFICES ASSUME QueryInv, [Next]_vars PROVE QueryInv'
  OBVIOUS
<1>1. ASSUME NEW q \in Queries, Create(q) \/ HandlerStep(q) \/ TaskStep(q) PROVE QueryInv'
  BY <1>1, CreateInv, GeneratorAnswersInv, TuGraphAnswersInv, SaveRecordInv, SaveIndexInv, AnswerInv, ReadRecordInv,
     DiagnoseInv DEF HandlerStep, TaskStep
<1>2. CASE Die
  BY <1>2, DieInv
<1>3. CASE UNCHANGED vars
  <2>1. UNCHANGED <<handler, task, files, index, saving, expired, blamed, saved, late, deaths>>
    BY <1>3 DEF vars
  <2>2. Counted' = Counted /\ Indexed' = Indexed
    BY <2>1 DEF Counted, Begun, Indexed
  <2>3. TypeOK' /\ SavingInv' /\ RecordsInv'
    BY <2>1 DEF QueryInv, TypeOK, SavingInv, RecordsInv, Rightly
  <2>4. IndexInv' /\ NewestInv' /\ TrackedInv'
    BY <2>1, <2>2 DEF QueryInv, IndexInv, NewestInv, IsNewest, TrackedInv
  <2> QED BY <2>3, <2>4 DEF QueryInv
<1> QED BY <1>1, <1>2, <1>3 DEF Next

LEMMA QueriesCorrect == Spec => []QueryInv
BY QueryInit, QueryStep, PTL DEF Spec

-----------------------------------------------------------------------------
(* The theorems.                                                           *)

LEMMA ShortestTail ==
  ASSUME NEW n \in Nat, NEW limit \in Nat \ {0}
  PROVE  /\ Shortest(n, limit) \in 0..n
         /\ (IF n > limit THEN n - limit + 1 ELSE 1) = n - Shortest(n, limit) + 1
         /\ \A i \in 1..Shortest(n, limit) : Shortest(n, limit) - i + 1 \in 1..Shortest(n, limit)
BY DEF Shortest

\* An index of the newest is the end of what was saved, turned round.
LEMMA NewestIsReversed ==
  ASSUME index \in Seq(Queries), saved \in Seq(Queries), IsNewest(index, Len(saved))
  PROVE  index = Reverse(SubSeq(saved, IF Len(saved) > HistoryLimit THEN Len(saved) - HistoryLimit + 1 ELSE 1,
                                Len(saved)))
<1> DEFINE n == Len(saved)
           k == Len(index)
           m == IF n > HistoryLimit THEN n - HistoryLimit + 1 ELSE 1
           tail == SubSeq(saved, m, n)
<1>1. n \in Nat /\ HistoryLimit \in Nat \ {0} /\ k = Shortest(n, HistoryLimit)
      /\ \A i \in 1..k : index[i] = saved[n - i + 1]
  BY Sentinels DEF IsNewest
<1>2. k \in Nat /\ m = n - k + 1 /\ k <= n /\ \A i \in 1..k : k - i + 1 \in 1..k
  <2>1. m = n - Shortest(n, HistoryLimit) + 1 /\ Shortest(n, HistoryLimit) \in 0..n
        /\ \A i \in 1..Shortest(n, HistoryLimit) : Shortest(n, HistoryLimit) - i + 1 \in 1..Shortest(n, HistoryLimit)
    BY <1>1, ShortestTail
  <2> HIDE DEF m
  <2> QED BY <1>1, <2>1
<1> HIDE DEF m
<1>3. tail \in Seq(Queries) /\ Len(tail) = k /\ \A j \in 1..k : tail[j] = saved[n - k + j]
  <2>1. CASE k = 0
    <3>1. n = 0 /\ m = 1 /\ saved = << >>
      BY <1>1, <1>2, <2>1 DEF Shortest
    <3> QED BY <1>1, <2>1, <3>1
  <2>2. CASE k # 0
    <3>1. m \in 1..n /\ n \in 1..n
      BY <1>1, <1>2, <2>2
    <3>2. tail \in Seq(Queries) /\ Len(tail) = n - m + 1 /\ \A j \in 1..(n - m + 1) : tail[j] = saved[m + j - 1]
      BY <1>1, <3>1
    <3>3. n - m + 1 = k /\ \A j \in 1..k : m + j - 1 = n - k + j
      BY <1>1, <1>2
    <3> QED BY <3>2, <3>3
  <2> QED BY <2>1, <2>2
<1> HIDE DEF tail
<1>4. Reverse(tail) = [i \in 1..k |-> tail[k - i + 1]]
  BY <1>3 DEF Reverse
<1>5. \A i \in 1..k : tail[k - i + 1] = index[i]
  <2>1. ASSUME NEW i \in 1..k PROVE tail[k - i + 1] = index[i]
    <3>1. PICK j \in 1..k : j = k - i + 1
      BY <1>2
    <3>2. tail[j] = saved[n - k + j]
      BY <1>3
    <3>3. i \in Nat /\ n - k + j = n - i + 1
      BY <1>1, <1>2, <3>1
    <3> QED BY <1>1, <3>1, <3>2, <3>3
  <2> QED BY <2>1
<1>6. index = [i \in 1..k |-> index[i]]
  OBVIOUS
<1> QED BY <1>4, <1>5, <1>6 DEF tail, m

\* What the files tell together: the index has its type and names only what is
\* on file, it is the newest queries in their order, and a diagnosis blames the
\* party whose answer ended the query, or the generator for a call that failed
\* without a text.
THEOREM FilesTellTheTruth == Spec => []QueriesInv
<1>1. QueryInv => QueriesInv
  <2> SUFFICES ASSUME QueryInv PROVE QueriesInv
    OBVIOUS
  <2>1. TypeOK /\ IndexedIsOnFile
    BY IndexedType DEF QueryInv, IndexInv, IndexedIsOnFile
  <2>2. KeepsTheNewest
    <3> SUFFICES ASSUME deaths = 0, saving = None
                 PROVE  index = Reverse(SubSeq(saved, IF Len(saved) > HistoryLimit THEN Len(saved) - HistoryLimit + 1 ELSE 1,
                                               Len(saved)))
      BY DEF KeepsTheNewest
    <3>1. index # Torn /\ IsNewest(index, Len(saved))
      BY Sentinels DEF QueryInv, NewestInv, Counted, Begun
    <3>2. index \in Seq(Queries) /\ saved \in Seq(Queries)
      BY <3>1 DEF QueryInv, TypeOK
    <3> QED BY <3>1, <3>2, NewestIsReversed
  <2>3. BlamesTheParty
    BY DEF QueryInv, RecordsInv, Rightly, BlamesTheParty, Told
  <2> QED BY <2>1, <2>2, <2>3 DEF QueriesInv
<1> QED BY <1>1, QueriesCorrect, PTL

\* A file is without a place in the index only when the process died or the
\* query was evicted under its diagnosis.
THEOREM OrphansAreLate == Spec => []OrphanIsLate
<1>1. QueryInv => OrphanIsLate
  <2> SUFFICES ASSUME QueryInv, NEW q \in Queries, files[q] # None, q \notin Indexed, saving = None, ~(deaths > 0)
               PROVE  q \in late
    BY DEF OrphanIsLate
  <2>1. deaths = 0 /\ expired = {}
    BY QueryAssumption DEF QueryInv, TypeOK, SavingInv
  <2>2. handler[q].pc # "index"
    BY Sentinels DEF QueryInv, SavingInv, Busy
  <2> QED BY <2>1, <2>2 DEF QueryInv, TrackedInv
<1> QED BY <1>1, QueriesCorrect, PTL
=============================================================================
