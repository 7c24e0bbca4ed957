------------------------- MODULE LanguageStagesProofs -------------------------
(***************************************************************************)
(* What the stages keep, for every semantic model, index, question and     *)
(* answer: no value is guessed, no condition and no column of a plan and   *)
(* nothing of the question's structure is lost on the way to the Cypher,   *)
(* and no stage finds a fault that an earlier one was to find.             *)
(***************************************************************************)
EXTENDS LanguageStages, FiniteSetTheorems, SequenceTheorems, WellFoundedInduction, TLAPS

-----------------------------------------------------------------------------
(* No value is guessed: the literals are looked up once, and each attempt  *)
(* of the resolver answers with what it may.                               *)

\* What a result of the resolver may be.
Known(r) ==
  LET values == Values(<<r.owner, r.prop>>)
  IN r.match # "unresolved" =>
       /\ IsIdProperty(<<r.owner, r.prop>>) => r.value = r.raw
       /\ values # {} => \/ r.match \in {"exact", "value_synonym"} /\ r.value \in values
                         \/ r.match \in {"typed_parse", "relative_time", "value_index_exact"} /\ r.value = r.raw

\* A property of the model is its owner and its name.
LEMMA PropertyIsPair == \A p : HasProperty(p) => p = <<p[1], p[2]>>
BY DEF HasProperty, Properties

\* A result says which property it is of.
LEMMA ResultIs ==
  ASSUME NEW raw, NEW p, NEW match, NEW value
  PROVE  LET r == Result(raw, p, match, value)
         IN r.raw = raw /\ r.owner = p[1] /\ r.prop = p[2] /\ r.match = match /\ r.value = value
BY DEF Result

LEMMA UnresolvedIs == \A raw, p, code : Unresolved(raw, p, code).match = "unresolved"
BY DEF Unresolved, Result

\* A set of numbers that is not empty has a least one.
LEMMA Least ==
  ASSUME NEW T \in SUBSET Nat, T # {}
  PROVE  \E n \in T : \A m \in T : n <= m
<1> DEFINE below == {ss \in Nat \X Nat : ss[1] < ss[2]}
<1>1. IsWellFoundedOn(below, Nat)
  BY NatLessThanWellFounded DEF OpToRel
<1>2. PICK n \in T : \A m \in T : ~(<<m, n>> \in below)
  BY <1>1, WFMin
<1>3. ASSUME NEW m \in T PROVE n <= m
  <2>1. ~(m < n)
    BY <1>2
  <2> QED BY <2>1
<1> QED BY <1>3

\* An answer of any attempt may be given, and the last attempt always answers.
LEMMA FirstOfKnown ==
  ASSUME NEW N \in Nat, N > 0, NEW attempts, DOMAIN attempts = 1..N, attempts[N] # {},
         \A i \in 1..N : \A r \in attempts[i] : Known(r)
  PROVE  Known(FirstOf(attempts))
<1> DEFINE Answering == {i \in 1..N : attempts[i] # {}}
           First(i) == attempts[i] # {} /\ \A j \in 1..(i - 1) : attempts[j] = {}
<1>1. \E i \in DOMAIN attempts : First(i)
  <2>1. N \in Answering /\ Answering \in SUBSET Nat
    OBVIOUS
  <2>2. PICK i \in Answering : \A j \in Answering : i <= j
    BY <2>1, Least
  <2>3. First(i)
    BY <2>2
  <2> QED BY <2>2, <2>3
<1>2. PICK i \in DOMAIN attempts : FirstOf(attempts) \in attempts[i]
  BY <1>1 DEF FirstOf
<1> QED BY <1>2

LEMMA AttemptsKnown ==
  ASSUME NEW raw, NEW p, NEW hint, HasProperty(p)
  PROVE  /\ \A r \in IndexExact(raw, p) \cup Passthrough(raw, p) : Known(r)
         /\ ~IsIdProperty(p) =>
              \A r \in ExactValue(raw, p) \cup Synonym(raw, p) \cup ContainedValue(raw, p)
                       \cup TypedParse(raw, p, hint) \cup Fuzzy(raw, p) : Known(r)
<1>1. p = <<p[1], p[2]>>
  BY PropertyIsPair
<1>2. \A match, value : LET r == Result(raw, p, match, value)
        IN r.raw = raw /\ <<r.owner, r.prop>> = p /\ r.match = match /\ r.value = value
  BY <1>1, ResultIs
<1>3. \A r \in IndexExact(raw, p) : Known(r)
  BY <1>2 DEF IndexExact, Known
<1>4. \A r \in Passthrough(raw, p) : Known(r)
  BY <1>2 DEF Passthrough, Known
<1>5. ASSUME ~IsIdProperty(p)
      PROVE  \A r \in ExactValue(raw, p) \cup Synonym(raw, p) \cup ContainedValue(raw, p)
                      \cup TypedParse(raw, p, hint) \cup Fuzzy(raw, p) : Known(r)
  <2>1. \A r \in ExactValue(raw, p) : Known(r)
    BY <1>2, <1>5 DEF ExactValue, Known
  <2>2. \A r \in Synonym(raw, p) : Known(r)
    BY <1>2, <1>5 DEF Synonym, Known
  <2>3. \A r \in ContainedValue(raw, p) : Known(r)
    <3> DEFINE named(v) == <<raw, v>> \in Includes
               said(v) == named(v) \/ \E s \in Synonyms[v] : <<raw, s>> \in Includes
               meant == {v \in Values(p) : said(v)}
    <3>1. ContainedValue(raw, p) \subseteq {Result(raw, p, IF named(v) THEN "exact" ELSE "value_synonym", v) : v \in meant}
      BY DEF ContainedValue
    <3>2. ASSUME NEW v \in meant PROVE Known(Result(raw, p, IF named(v) THEN "exact" ELSE "value_synonym", v))
      BY <1>2, <1>5 DEF Known
    <3> HIDE DEF meant
    <3> QED BY <3>1, <3>2
  <2>4. \A r \in TypedParse(raw, p, hint) : Known(r)
    BY <1>2, <1>5 DEF TypedParse, Known
  <2>5. \A r \in Fuzzy(raw, p) : Known(r)
    BY <1>2, <1>5, UnresolvedIs DEF Fuzzy, Known
  <2> QED BY <2>1, <2>2, <2>3, <2>4, <2>5
<1> QED BY <1>3, <1>4, <1>5

LEMMA ResolvedKnown == \A raw, p, hint : Known(ResolveLiteral(raw, p, hint))
<1> SUFFICES ASSUME NEW raw, NEW p, NEW hint PROVE Known(ResolveLiteral(raw, p, hint))
  OBVIOUS
<1>1. \A code : Known(Unresolved(raw, p, code))
  BY UnresolvedIs DEF Known
<1>2. CASE ~HasProperty(p)
  BY <1>1, <1>2 DEF ResolveLiteral
<1>3. CASE HasProperty(p) /\ IsIdProperty(p)
  <2> DEFINE attempts == <<IndexExact(raw, p), Passthrough(raw, p), {Unresolved(raw, p, "literal_value_index_miss")}>>
  <2>1. 3 \in Nat /\ 3 > 0 /\ DOMAIN attempts = 1..3 /\ attempts[3] # {} /\ \A i \in 1..3 : \A r \in attempts[i] : Known(r)
    <3>1. attempts[1] = IndexExact(raw, p) /\ attempts[2] = Passthrough(raw, p)
          /\ attempts[3] = {Unresolved(raw, p, "literal_value_index_miss")} /\ DOMAIN attempts = 1..3
      OBVIOUS
    <3> HIDE DEF attempts
    <3> QED BY <1>1, <1>3, <3>1, AttemptsKnown
  <2> HIDE DEF attempts
  <2>2. Known(FirstOf(attempts))
    BY <2>1, FirstOfKnown
  <2> QED BY <1>3, <2>2 DEF ResolveLiteral, attempts
<1>4. CASE HasProperty(p) /\ ~IsIdProperty(p)
  <2> DEFINE last == {Unresolved(raw, p, IF IndexedOf(p) # {} THEN "literal_value_index_miss" ELSE "literal_unresolved")}
             attempts == <<ExactValue(raw, p), Synonym(raw, p), ContainedValue(raw, p), TypedParse(raw, p, hint), Fuzzy(raw, p),
                           IndexExact(raw, p), Passthrough(raw, p), last>>
  <2>1. 8 \in Nat /\ 8 > 0 /\ DOMAIN attempts = 1..8 /\ attempts[8] # {} /\ \A i \in 1..8 : \A r \in attempts[i] : Known(r)
    <3>1. /\ attempts[1] = ExactValue(raw, p) /\ attempts[2] = Synonym(raw, p) /\ attempts[3] = ContainedValue(raw, p)
          /\ attempts[4] = TypedParse(raw, p, hint) /\ attempts[5] = Fuzzy(raw, p) /\ attempts[6] = IndexExact(raw, p)
          /\ attempts[7] = Passthrough(raw, p) /\ attempts[8] = last /\ DOMAIN attempts = 1..8
      OBVIOUS
    <3>2. \A r \in last : Known(r)
      BY <1>1
    <3>3. last # {}
      OBVIOUS
    <3> HIDE DEF attempts, last
    <3> QED BY <1>4, <3>1, <3>2, <3>3, AttemptsKnown
  <2> HIDE DEF attempts
  <2>2. Known(FirstOf(attempts))
    BY <2>1, FirstOfKnown
  <2> QED BY <1>4, <2>2 DEF ResolveLiteral, attempts
<1> QED BY <1>2, <1>3, <1>4

\* Of the literals that were looked up, an id is what the question says, and an enumeration
\* has one of its values, or what the question says as a time, a number or an indexed value.
THEOREM ValuesAreKnown == Spec => []ValuesKnown
<1>1. ValuesKnown <=> \A r \in ToSet(results) : Known(r)
  BY DEF ValuesKnown, Known
<1>2. Init => ValuesKnown
  BY <1>1 DEF Init, ToSet
<1>3. ValuesKnown /\ [Next]_vars => ValuesKnown'
  <2> SUFFICES ASSUME ValuesKnown, [Next]_vars PROVE ValuesKnown'
    OBVIOUS
  <2>1. CASE ResolveLiterals
    <3> DEFINE found(r) == ResolveLiteral(r.raw, r.prop, r.hint)
    <3>1. results' = MapSeq(Requests(question, candidates), LAMBDA r : ResolveLiteral(r.raw, r.prop, r.hint))
      BY <2>1 DEF ResolveLiterals
    <3>2. \A r \in ToSet(results') : Known(r)
      BY <3>1, ResolvedKnown DEF MapSeq, ToSet
    <3> QED BY <3>2 DEF ValuesKnown, Known
  <2>2. CASE ~ResolveLiterals
    <3>1. results' = results
      BY <2>2 DEF Next, vars, AskOutput, Assemble, Ground, Bind, Validate, Build, Parse, CheckCoverage, Compile, SelfValidate
    <3> QED BY <3>1 DEF ValuesKnown
  <2> QED BY <2>1, <2>2
<1> QED BY <1>2, <1>3, PTL DEF Spec

-----------------------------------------------------------------------------
(* Sequences: choices of elements of one, and what a plan keeps of the     *)
(* answer's.                                                               *)

\* How many indices of keep come before i.
Before(keep, i) == Cardinality({j \in keep : j < i})

LEMMA BeforeGrows ==
  ASSUME NEW N \in Nat, NEW keep \in SUBSET (1..N)
  PROVE  /\ IsFiniteSet(keep) /\ Cardinality(keep) \in Nat /\ Cardinality(keep) <= N
         /\ \A i \in keep : Before(keep, i) \in 0..(Cardinality(keep) - 1)
         /\ \A i, k \in keep : i < k => Before(keep, i) < Before(keep, k)
<1> DEFINE C == Cardinality(keep)
           below(i) == {j \in keep : j < i}
<1>1. IsFiniteSet(keep) /\ C \in Nat /\ C <= N
  <2>1. IsFiniteSet(1..N) /\ Cardinality(1..N) = N
    BY FS_Interval
  <2> QED BY <2>1, FS_Subset, FS_CardinalityType
<1>2. ASSUME NEW i \in keep
      PROVE  IsFiniteSet(below(i)) /\ Before(keep, i) \in Nat /\ Before(keep, i) <= C - 1
  <2>1. below(i) \in SUBSET (keep \ {i})
    OBVIOUS
  <2>2. IsFiniteSet(keep \ {i}) /\ Cardinality(keep \ {i}) = C - 1
    BY <1>1, FS_RemoveElement
  <2>3. IsFiniteSet(below(i)) /\ Cardinality(below(i)) <= C - 1
    BY <2>1, <2>2, FS_Subset
  <2>4. Cardinality(below(i)) \in Nat
    BY <2>3, FS_CardinalityType
  <2> QED BY <2>3, <2>4 DEF Before
<1>3. ASSUME NEW i \in keep, NEW k \in keep, i < k PROVE Before(keep, i) < Before(keep, k)
  <2>1. below(i) \in SUBSET (below(k) \ {i}) /\ i \in below(k)
    <3>1. ASSUME NEW j \in keep, j < i PROVE j < k /\ j # i
      BY <1>3, <3>1
    <3> QED BY <1>3, <3>1
  <2>2. IsFiniteSet(below(k) \ {i}) /\ Cardinality(below(k) \ {i}) = Cardinality(below(k)) - 1
    BY <1>2, <2>1, FS_RemoveElement
  <2>3. Cardinality(below(i)) <= Cardinality(below(k)) - 1
    BY <2>1, <2>2, FS_Subset
  <2>4. Cardinality(below(i)) \in Nat /\ Cardinality(below(k)) \in Nat
    BY <1>2, FS_CardinalityType
  <2> HIDE DEF below
  <2>5. Cardinality(below(i)) < Cardinality(below(k))
    BY <2>3, <2>4
  <2> QED BY <2>5 DEF Before, below
<1>4. \A i \in keep : Before(keep, i) \in 0..(C - 1)
  <2> SUFFICES ASSUME NEW i \in keep PROVE Before(keep, i) \in 0..(C - 1)
    OBVIOUS
  <2>1. Before(keep, i) \in Nat /\ Before(keep, i) <= C - 1 /\ C \in Nat
    BY <1>1, <1>2
  <2> HIDE DEF C
  <2> QED BY <2>1
<1> QED BY <1>1, <1>3, <1>4

\* Every index of keep has its place in the choice, and every place its index.
LEMMA SelectedPlaces ==
  ASSUME NEW S, NEW seq \in Seq(S), NEW keep \in SUBSET DOMAIN seq
  PROVE  /\ Selected(seq, keep) \in Seq(S)
         /\ Cardinality(keep) \in Nat /\ IsFiniteSet(keep) /\ Cardinality(keep) <= Len(seq)
         /\ Len(Selected(seq, keep)) = Cardinality(keep)
         /\ \A n \in DOMAIN Selected(seq, keep) : \E i \in keep : Selected(seq, keep)[n] = seq[i]
         /\ \E place \in Bijection(keep, DOMAIN Selected(seq, keep)) :
              \A i \in keep : Selected(seq, keep)[place[i]] = seq[i]
<1> DEFINE N == Len(seq)
           C == Cardinality(keep)
           place == [i \in keep |-> Before(keep, i) + 1]
           index(n) == CHOOSE i \in keep : Before(keep, i) = n - 1
<1>1. N \in Nat /\ keep \in SUBSET (1..N) /\ \A i \in keep : seq[i] \in S
  OBVIOUS
<1>2. /\ IsFiniteSet(keep) /\ C \in Nat
      /\ C <= N
      /\ \A i \in keep : Before(keep, i) \in 0..(C - 1)
      /\ \A i, k \in keep : i < k => Before(keep, i) < Before(keep, k)
  BY <1>1, BeforeGrows
<1>3. place \in Injection(keep, 1..C)
  <2>1. place \in [keep -> 1..C]
    BY <1>2
  <2>2. ASSUME NEW i \in keep, NEW k \in keep, place[i] = place[k] PROVE i = k
    <3>1. Before(keep, i) = Before(keep, k)
      BY <1>2, <2>2
    <3>2. ~(Before(keep, i) < Before(keep, k)) /\ ~(Before(keep, k) < Before(keep, i))
      BY <1>2, <3>1
    <3> QED BY <1>1, <1>2, <3>2
  <2> QED BY <2>1, <2>2 DEF Injection, IsInjective
<1>4. Cardinality(1..C) = C /\ IsFiniteSet(1..C)
  BY <1>2, FS_Interval
<1>5. place \in Surjection(keep, 1..C)
  BY <1>2, <1>3, <1>4, FS_Injection
<1>6. \A n \in 1..C : \E i \in keep : place[i] = n
  BY <1>5 DEF Surjection
<1>7. ASSUME NEW n \in 1..C PROVE index(n) \in keep /\ place[index(n)] = n
  <2>1. PICK i \in keep : place[i] = n
    BY <1>6
  <2>2. Before(keep, i) = n - 1
    BY <1>2, <2>1
  <2>3. index(n) \in keep /\ Before(keep, index(n)) = n - 1
    BY <2>2
  <2> QED BY <1>2, <2>3
<1>8. Selected(seq, keep) = [n \in 1..C |-> seq[index(n)]]
  BY DEF Selected, Before
<1> HIDE DEF index
<1>9. Selected(seq, keep) \in [1..C -> S]
  BY <1>1, <1>7, <1>8
<1>10. Selected(seq, keep) \in Seq(S) /\ Len(Selected(seq, keep)) = C /\ DOMAIN Selected(seq, keep) = 1..C
  BY <1>2, <1>9
<1>11. ASSUME NEW i \in keep PROVE place[i] \in 1..C /\ Selected(seq, keep)[place[i]] = seq[i]
  <2>1. place[i] \in 1..C
    BY <1>2
  <2>2. index(place[i]) = i
    BY <1>3, <1>7, <2>1 DEF Injection, IsInjective
  <2> QED BY <1>8, <2>1, <2>2
<1>12. place \in Bijection(keep, DOMAIN Selected(seq, keep))
  BY <1>3, <1>5, <1>10 DEF Bijection
<1>13. \A n \in DOMAIN Selected(seq, keep) : \E i \in keep : Selected(seq, keep)[n] = seq[i]
  BY <1>7, <1>8, <1>10
<1> HIDE DEF place
<1> QED BY <1>2, <1>10, <1>11, <1>12, <1>13

\* What sequences are made of is one, and has an index from one to its length.
LEMMA SequenceIs ==
  ASSUME NEW s, IsSequence(s)
  PROVE  Len(s) \in Nat /\ DOMAIN s = 1..Len(s) /\ s \in Seq(ToSet(s))
BY DEF IsSequence

LEMMA SequenceOf ==
  ASSUME NEW S, NEW s \in Seq(S)
  PROVE  IsSequence(s)
<1>1. \A i \in 1..Len(s) : s[i] \in ToSet(s)
  BY DEF ToSet
<1> QED BY <1>1 DEF IsSequence

\* A function of the indices of a sequence is a sequence.
LEMMA MappedSequence ==
  ASSUME NEW s, IsSequence(s), NEW t, t = [i \in DOMAIN s |-> t[i]]
  PROVE  IsSequence(t) /\ DOMAIN t = DOMAIN s
<1>1. Len(s) \in Nat /\ DOMAIN s = 1..Len(s)
  BY SequenceIs
<1>2. DOMAIN t = 1..Len(s) /\ \A i \in DOMAIN t : t[i] \in ToSet(t)
  BY <1>1 DEF ToSet
<1>3. t \in [1..Len(s) -> ToSet(t)]
  BY <1>2
<1>4. t \in Seq(ToSet(t))
  BY <1>1, <1>3
<1> QED BY <1>1, <1>2, <1>4 DEF IsSequence

\* Two sequences, one behind the other, have the elements of both.
LEMMA ConcatElements ==
  ASSUME NEW s, NEW t, IsSequence(s), IsSequence(t)
  PROVE  ToSet(s \o t) = ToSet(s) \cup ToSet(t)
<1> DEFINE S == ToSet(s) \cup ToSet(t)
           all == s \o t
<1>1. /\ Len(s) \in Nat /\ DOMAIN s = 1..Len(s) /\ Len(t) \in Nat /\ DOMAIN t = 1..Len(t)
      /\ s \in Seq(ToSet(s)) /\ t \in Seq(ToSet(t))
  BY SequenceIs
<1>2. s \in Seq(S) /\ t \in Seq(S)
  BY <1>1
<1>3. DOMAIN all = 1..(Len(s) + Len(t)) /\ \A i \in DOMAIN all : all[i] = IF i <= Len(s) THEN s[i] ELSE t[i - Len(s)]
  BY <1>1, <1>2
<1> HIDE DEF all
<1>4. ASSUME NEW i \in DOMAIN all PROVE all[i] \in ToSet(s) \cup ToSet(t)
  <2>1. CASE i <= Len(s)
    <3>1. i \in DOMAIN s /\ all[i] = s[i]
      BY <1>1, <1>3, <2>1
    <3> QED BY <3>1 DEF ToSet
  <2>2. CASE ~(i <= Len(s))
    <3>1. i - Len(s) \in DOMAIN t /\ all[i] = t[i - Len(s)]
      BY <1>1, <1>3, <2>2
    <3> QED BY <3>1 DEF ToSet
  <2> QED BY <2>1, <2>2
<1>5. \A i \in DOMAIN s : i \in DOMAIN all /\ all[i] = s[i]
  BY <1>1, <1>3
<1>6. \A i \in DOMAIN t : Len(s) + i \in DOMAIN all /\ all[Len(s) + i] = t[i]
  BY <1>1, <1>3
<1>7. ToSet(all) = ToSet(s) \cup ToSet(t)
  BY <1>4, <1>5, <1>6 DEF ToSet
<1> QED BY <1>7 DEF all

LEMMA ConcatSequence ==
  ASSUME NEW s, NEW t, IsSequence(s), IsSequence(t)
  PROVE  IsSequence(s \o t)
<1> DEFINE S == ToSet(s) \cup ToSet(t)
<1>1. s \in Seq(ToSet(s)) /\ t \in Seq(ToSet(t))
  BY DEF IsSequence
<1>2. s \in Seq(S) /\ t \in Seq(S)
  BY <1>1
<1> HIDE DEF S
<1>3. s \o t \in Seq(S)
  BY <1>2
<1> QED BY <1>3, SequenceOf

\* A choice of the elements of a sequence is a sequence of them.
LEMMA SelectedSequence ==
  ASSUME NEW s, IsSequence(s), NEW keep \in SUBSET DOMAIN s
  PROVE  /\ IsSequence(Selected(s, keep)) /\ ToSet(Selected(s, keep)) \subseteq ToSet(s)
         /\ \A i \in keep : s[i] \in ToSet(Selected(s, keep))
<1>1. s \in Seq(ToSet(s))
  BY SequenceIs
<1>2. /\ Selected(s, keep) \in Seq(ToSet(s))
      /\ \E place \in Bijection(keep, DOMAIN Selected(s, keep)) :
              \A i \in keep : Selected(s, keep)[place[i]] = s[i]
  BY <1>1, SelectedPlaces
<1>3. PICK place \in Bijection(keep, DOMAIN Selected(s, keep)) : \A i \in keep : Selected(s, keep)[place[i]] = s[i]
  BY <1>2
<1>4. \A i \in keep : place[i] \in DOMAIN Selected(s, keep)
  BY DEF Bijection, Injection
<1>5. \A i \in keep : s[i] \in ToSet(Selected(s, keep))
  BY <1>3, <1>4 DEF ToSet
<1>6. ToSet(Selected(s, keep)) \subseteq ToSet(s)
  <2>1. \A n \in DOMAIN Selected(s, keep) : \E i \in keep : Selected(s, keep)[n] = s[i]
    BY <1>1, SelectedPlaces
  <2> QED BY <2>1 DEF ToSet
<1> QED BY <1>2, <1>5, <1>6, SequenceOf

LEMMA UniqueSequence ==
  ASSUME NEW s, IsSequence(s)
  PROVE  IsSequence(Unique(s)) /\ ToSet(Unique(s)) \subseteq ToSet(s)
BY SelectedSequence DEF Unique

\* The filters and the edges of a plan are sequences, as those of the answer are.
LEMMA BoundSequence ==
  ASSUME NEW g, NEW among, IsSequence(g.filters), IsSequence(g.literals)
  PROVE  IsSequence(BoundFilters(g, among).filters)
<1>1. IsSequence(<< >>)
  <2>1. << >> \in Seq({})
    OBVIOUS
  <2> QED BY <2>1, SequenceOf
<1>2. IsSequence(DefaultFilters(g.literals, g.properties))
  <2> DEFINE kept(l) == l.match # "unresolved" /\ (g.properties = << >> \/ <<l.owner, l.prop>> \in ToSet(g.properties))
             chosen == Selected(g.literals, {i \in DOMAIN g.literals : kept(g.literals[i])})
  <2>1. IsSequence(chosen)
    BY SelectedSequence
  <2>2. DefaultFilters(g.literals, g.properties)
          = [i \in DOMAIN chosen |-> [prop |-> <<chosen[i].owner, chosen[i].prop>>, op |-> "eq", literal |-> chosen[i]]]
    BY DEF DefaultFilters, MapSeq
  <2> HIDE DEF chosen
  <2> DEFINE t == DefaultFilters(g.literals, g.properties)
  <2>3. t = [i \in DOMAIN chosen |-> t[i]]
    BY <2>2
  <2> HIDE DEF t
  <2>4. IsSequence(t)
    BY <2>1, <2>3, MappedSequence
  <2> QED BY <2>4 DEF t
<1>3. IsSequence([n \in DOMAIN g.filters |->
        [prop |-> BoundFilter(g, n).prop, op |-> BoundFilter(g, n).op, literal |-> BoundFilter(g, n).literals[1]]])
  <2> DEFINE t == [n \in DOMAIN g.filters |->
        [prop |-> BoundFilter(g, n).prop, op |-> BoundFilter(g, n).op, literal |-> BoundFilter(g, n).literals[1]]]
  <2>1. t = [n \in DOMAIN g.filters |-> t[n]]
    OBVIOUS
  <2> HIDE DEF t
  <2>2. IsSequence(t)
    BY <2>1, MappedSequence
  <2> QED BY <2>2 DEF t
<1> QED BY <1>1, <1>2, <1>3 DEF BoundFilters

LEMMA PlanSequences ==
  ASSUME NEW g, NEW among, IsSequence(g.filters), IsSequence(g.literals), IsSequence(g.edges)
  PROVE  IsSequence(PlanOf(g, among).filters) /\ IsSequence(PlanOf(g, among).edges)
<1>1. IsSequence(Unique(g.edges))
  BY UniqueSequence
<1>2. \A vertices : IsSequence(InferredEdge(vertices))
  <2> SUFFICES ASSUME NEW vertices PROVE IsSequence(InferredEdge(vertices))
    OBVIOUS
  <2>1. \A e : <<e>> \in Seq({e})
    OBVIOUS
  <2>2. << >> \in Seq({})
    OBVIOUS
  <2>3. InferredEdge(vertices) = << >> \/ \E e : InferredEdge(vertices) = <<e>>
    BY DEF InferredEdge
  <2> QED BY <2>1, <2>2, <2>3, SequenceOf
<1>3. PlanOf(g, among).filters = BoundFilters(g, among).filters
  BY DEF PlanOf, PlanThrough, PlanAlong
<1>4. PlanOf(g, among).edges = Unique(g.edges) \/ \E vertices : PlanOf(g, among).edges = InferredEdge(vertices)
  BY DEF PlanOf, PlanThrough, PlanAlong
<1> QED BY <1>1, <1>2, <1>3, <1>4, BoundSequence

-----------------------------------------------------------------------------
(* A condition from the plan to the Cypher.  In each shape the builder     *)
(* makes an item of every filter; the parser has compared the item's       *)
(* target with the vertex that the query's role or the metric's alias      *)
(* stands for, and the compiler refuses what has no target and crashes on  *)
(* what has no label.                                                      *)

\* What the plan filters by is among the query's conditions.
Stands(f, q) ==
  \E w \in ToSet(Where(q)) :
    Labels(q)[w.role] = f.prop[1] /\ w.name = f.prop[2] /\ w.op = f.op /\ w.literal = f.literal

Same(x, f) == x.prop = f.prop /\ x.op = f.op /\ x.literal = f.literal

LEMMA ItemOfFilter ==
  ASSUME NEW filters, NEW roles, NEW f \in ToSet(filters)
  PROVE  \E x \in ToSet(FilterItems(filters, roles)) : Same(x, f)
<1>1. PICK i \in DOMAIN filters : filters[i] = f
  BY DEF ToSet
<1>2. FilterItems(filters, roles) = [k \in DOMAIN filters |-> FilterItem(filters[k], roles)]
  BY DEF FilterItems, MapSeq
<1>3. FilterItems(filters, roles)[i] \in ToSet(FilterItems(filters, roles)) /\ FilterItems(filters, roles)[i] = FilterItem(f, roles)
  BY <1>1, <1>2 DEF ToSet
<1>4. Same(FilterItem(f, roles), f)
  BY DEF Same, FilterItem
<1> QED BY <1>3, <1>4

LEMMA ItemStands ==
  ASSUME NEW f, NEW q, NEW x \in ToSet(FiltersOf(q)), Same(x, f), Labels(q)[x.target] = f.prop[1]
  PROVE  Stands(f, q)
<1>1. PICK i \in DOMAIN FiltersOf(q) : FiltersOf(q)[i] = x
  BY DEF ToSet
<1>2. Where(q) = [k \in DOMAIN FiltersOf(q) |-> [role |-> FiltersOf(q)[k].target, name |-> FiltersOf(q)[k].prop[2],
                                                 op |-> FiltersOf(q)[k].op, literal |-> FiltersOf(q)[k].literal]]
  BY DEF Where, MapSeq
<1> DEFINE w == [role |-> x.target, name |-> x.prop[2], op |-> x.op, literal |-> x.literal]
<1>3. w \in ToSet(Where(q))
  BY <1>1, <1>2 DEF ToSet
<1>4. w.role = x.target /\ w.name = x.prop[2] /\ w.op = x.op /\ w.literal = x.literal
  OBVIOUS
<1> HIDE DEF w
<1> QED BY <1>3, <1>4 DEF Stands, Same

\* What a compilation that succeeds says of a filter.
LEMMA CompiledFilter ==
  ASSUME NEW q, CompilationOutcome(q) = "ok", NEW x \in ToSet(FiltersOf(q))
  PROVE  x.target # "" /\ x.target \in DOMAIN Labels(q)
BY DEF CompilationOutcome

\* What is bound by its role has the label that the query has for it.
BoundLabels(q) == \A r \in DOMAIN Labels(q) : Labels(q)[r] = q.vertices[r]

LEMMA BoundStands ==
  ASSUME NEW f, NEW q, NEW roles, CompilationOutcome(q) = "ok", BoundLabels(q), NEW x \in ToSet(FiltersOf(q)), Same(x, f),
         x.target # "" => q.vertices[x.target] = x.prop[1]
  PROVE  Stands(f, q)
<1>1. x.target # "" /\ x.target \in DOMAIN Labels(q)
  BY CompiledFilter
<1> QED BY <1>1, ItemStands DEF BoundLabels, Same

\* What the builder appends: an ordering and a limit, if the plan has them.
LEMMA OrderingsAre ==
  ASSUME NEW p, NEW bind
  PROVE  /\ IsSequence(SortLimit(p, bind))
         /\ \A o \in ToSet(SortLimit(p, bind)) :
              (o.op = "sort" /\ p.sort # << >>) \/ (o.op = "limit" /\ o.value = p.limit /\ p.limit # 0)
<1> DEFINE tail == SortLimit(p, bind)
           a == [op |-> "sort", by |-> MapSeq(p.sort, LAMBDA x : [source |-> <<Namespace(x.source[1], bind), x.source[2]>>,
                                                                  direction |-> x.direction])]
           b == [op |-> "limit", value |-> p.limit]
           sorts == IF p.sort = << >> THEN << >> ELSE <<a>>
           limits == IF p.limit = 0 THEN << >> ELSE <<b>>
<1>1. tail = sorts \o limits
  BY DEF SortLimit
<1>2. a.op = "sort" /\ b.op = "limit" /\ b.value = p.limit
  OBVIOUS
<1> HIDE DEF a, b, tail
<1>3. IsSequence(sorts) /\ IsSequence(limits)
  <2>1. << >> \in Seq({a, b}) /\ <<a>> \in Seq({a, b}) /\ <<b>> \in Seq({a, b})
    OBVIOUS
  <2>2. sorts \in Seq({a, b}) /\ limits \in Seq({a, b})
    BY <2>1
  <2> HIDE DEF sorts, limits
  <2> QED BY <2>2, SequenceOf
<1>4. (\A o \in ToSet(sorts) : o = a /\ p.sort # << >>) /\ (\A o \in ToSet(limits) : o = b /\ p.limit # 0)
  BY DEF ToSet
<1> HIDE DEF sorts, limits
<1>5. ToSet(tail) = ToSet(sorts) \cup ToSet(limits)
  BY <1>1, <1>3, ConcatElements
<1>6. IsSequence(tail)
  BY <1>1, <1>3, ConcatSequence
<1>7. ASSUME NEW o \in ToSet(tail)
      PROVE  (o.op = "sort" /\ p.sort # << >>) \/ (o.op = "limit" /\ o.value = p.limit /\ p.limit # 0)
  <2>1. CASE o \in ToSet(sorts)
    BY <1>2, <1>4, <2>1
  <2>2. CASE o \in ToSet(limits)
    BY <1>2, <1>4, <2>2
  <2> QED BY <1>5, <2>1, <2>2
<1> QED BY <1>6, <1>7 DEF tail

\* The operations of a query that are no ordering and no limit are those before them.
LEMMA OrderingsLast ==
  ASSUME NEW p, NEW bind, NEW s, IsSequence(s)
  PROVE  /\ \A i \in DOMAIN s : s[i] \in ToSet(s \o SortLimit(p, bind))
         /\ \A o \in ToSet(s \o SortLimit(p, bind)) : o \in ToSet(s) \/ o.op \in {"sort", "limit"}
<1> DEFINE tail == SortLimit(p, bind)
           ops == s \o tail
<1>1. IsSequence(tail) /\ \A o \in ToSet(tail) : o.op \in {"sort", "limit"}
  BY OrderingsAre
<1>2. ToSet(ops) = ToSet(s) \cup ToSet(tail)
  BY <1>1, ConcatElements
<1>3. \A i \in DOMAIN s : s[i] \in ToSet(s)
  BY DEF ToSet
<1> QED BY <1>1, <1>2, <1>3

\* A lookup and a chain of hops are the hops of the plan.
LEMMA TraversalOps ==
  ASSUME NEW p, IsSequence(p.edges), NEW q, q = Traversal(p)
  PROVE  \E hops, bind :
           LET edges == IF p.shape = "vertex_lookup" THEN << >> ELSE p.edges
               bound == TraversalRoles(p)
           IN /\ IsSequence(hops) /\ DOMAIN hops = DOMAIN edges /\ q.ops = hops \o SortLimit(p, bind)
              /\ \A o \in ToSet(hops) : o.op = "traverse_edge"
              /\ \A i \in DOMAIN edges : hops[i].from = bound[i][1] /\ hops[i].to = bound[i + 1][1]
<1> DEFINE edges == IF p.shape = "vertex_lookup" THEN << >> ELSE p.edges
           bound == TraversalRoles(p)
           name(i) == IF Len(edges) = 1 THEN "edge" ELSE ChainEdges[i]
           hops == [i \in DOMAIN edges |-> [op |-> "traverse_edge", from |-> bound[i][1], edge |-> name(i),
                                            to |-> bound[i + 1][1], dir |-> edges[i].dir]]
<1>1. \E bind : q.ops = hops \o SortLimit(p, bind)
  <2>1. q.ops = hops \o SortLimit(p, "")
    BY DEF Traversal
  <2> HIDE DEF hops
  <2> QED BY <2>1
<1>2. /\ hops = [i \in DOMAIN edges |-> hops[i]] /\ \A i \in DOMAIN edges : hops[i].op = "traverse_edge"
      /\ \A i \in DOMAIN edges : hops[i].from = bound[i][1] /\ hops[i].to = bound[i + 1][1]
  OBVIOUS
<1>3. IsSequence(edges)
  <2>1. << >> \in Seq({})
    OBVIOUS
  <2>2. IsSequence(<< >>)
    BY <2>1, SequenceOf
  <2> QED BY <2>2
<1> HIDE DEF hops, edges
<1>4. IsSequence(hops) /\ DOMAIN hops = DOMAIN edges
  BY <1>2, <1>3, MappedSequence
<1>5. \A o \in ToSet(hops) : o.op = "traverse_edge"
  BY <1>2, <1>4 DEF ToSet
<1> QED BY <1>1, <1>2, <1>4, <1>5 DEF edges

\* A lookup and a chain of hops filter by roles of vertices.
LEMMA TraversalKeeps ==
  ASSUME NEW p, NEW q, q = Traversal(p), p.shape \in {"vertex_lookup", "single_hop_traversal"}, Builds(p),
         IsSequence(p.edges), QueryParses(q), CompilationOutcome(q) = "ok"
  PROVE  \A f \in ToSet(p.filters) : Stands(f, q)
<1> DEFINE edges == IF p.shape = "vertex_lookup" THEN << >> ELSE p.edges
<1>1. q.shape = p.shape
  BY DEF Traversal
<1>2. PICK roles : q.filters = FilterItems(p.filters, roles)
  BY DEF Traversal
<1>3. \E hops, bind : /\ hops = [i \in DOMAIN edges |-> hops[i]] /\ \A i \in DOMAIN edges : hops[i].op = "traverse_edge"
                      /\ q.ops = hops \o SortLimit(p, bind)
  <2> DEFINE bound == TraversalRoles(p)
             name(i) == IF Len(edges) = 1 THEN "edge" ELSE ChainEdges[i]
             hops == [i \in DOMAIN edges |-> [op |-> "traverse_edge", from |-> bound[i][1], edge |-> name(i),
                                              to |-> bound[i + 1][1], dir |-> edges[i].dir]]
  <2>1. q.ops = hops \o SortLimit(p, "")
    BY DEF Traversal
  <2>2. hops = [i \in DOMAIN edges |-> hops[i]] /\ \A i \in DOMAIN edges : hops[i].op = "traverse_edge"
    OBVIOUS
  <2> HIDE DEF hops
  <2>3. \E bind : q.ops = hops \o SortLimit(p, bind)
    BY <2>1
  <2> QED BY <2>2, <2>3
<1>4. IsSequence(edges)
  <2>1. << >> \in Seq({})
    OBVIOUS
  <2>2. IsSequence(<< >>)
    BY <2>1, SequenceOf
  <2> QED BY <2>2
<1> HIDE DEF edges
<1>5. PICK hops, bind : /\ IsSequence(hops) /\ DOMAIN hops = DOMAIN edges /\ \A i \in DOMAIN edges : hops[i].op = "traverse_edge"
                        /\ q.ops = hops \o SortLimit(p, bind)
  <2>1. PICK hops, bind : /\ hops = [i \in DOMAIN edges |-> hops[i]] /\ \A i \in DOMAIN edges : hops[i].op = "traverse_edge"
                          /\ q.ops = hops \o SortLimit(p, bind)
    BY <1>3
  <2>2. IsSequence(hops) /\ DOMAIN hops = DOMAIN edges
    BY <1>4, <2>1, MappedSequence
  <2> QED BY <2>1, <2>2
<1>6. /\ \A i \in DOMAIN hops : hops[i] \in ToSet(q.ops)
      /\ \A o \in ToSet(q.ops) : o \in ToSet(hops) \/ o.op \in {"sort", "limit"}
  BY <1>5, OrderingsLast
<1>7. ~IsMetric(q)
  <2>1. \A o \in ToSet(hops) : o.op = "traverse_edge"
    BY <1>5 DEF ToSet
  <2> QED BY <1>6, <2>1 DEF IsMetric
<1>8. FiltersOf(q) = q.filters
  BY <1>1, <1>7 DEF FiltersOf
<1>9. FiltersValid(q.filters, q.vertices)
  BY DEF QueryParses
<1>10. BoundLabels(q) /\ (p.shape = "single_hop_traversal" => IsChain(q)) /\ (p.shape = "vertex_lookup" => ~IsChain(q))
  <2>1. CASE p.shape = "vertex_lookup"
    <3>1. ~IsChain(q)
      <4>1. DOMAIN edges = {}
        BY <2>1 DEF edges
      <4>2. ToSet(hops) = {}
        BY <1>5, <4>1 DEF ToSet
      <4> QED BY <1>6, <4>2 DEF IsChain
    <3>2. BoundLabels(q)
      BY <1>1, <1>7, <2>1, <3>1 DEF BoundLabels, Labels
    <3> QED BY <2>1, <3>1, <3>2
  <2>2. CASE p.shape = "single_hop_traversal"
    <3>1. IsChain(q)
      <4>1. edges # << >> /\ edges = p.edges
        BY <2>2 DEF edges, Builds, TraversalBuilds
      <4>2. 1 \in DOMAIN edges
        <5>1. edges \in Seq(ToSet(edges))
          BY <1>4 DEF IsSequence
        <5> QED BY <4>1, <5>1
      <4> QED BY <1>5, <1>6, <4>2 DEF IsChain
    <3>2. BoundLabels(q)
      BY <1>1, <1>7, <2>2, <3>1 DEF BoundLabels, Labels
    <3> QED BY <2>2, <3>1, <3>2
  <2> QED BY <2>1, <2>2
<1>11. ASSUME NEW f \in ToSet(p.filters) PROVE Stands(f, q)
  <2>1. PICK x \in ToSet(q.filters) : Same(x, f)
    BY <1>2, ItemOfFilter
  <2>2. x \in ToSet(FiltersOf(q)) /\ (x.target # "" => q.vertices[x.target] = x.prop[1])
    BY <1>8, <1>9 DEF FiltersValid
  <2> QED BY <1>10, <2>1, <2>2, BoundStands
<1> QED BY <1>11

\* A path of many hops filters its end in its operation and its start in the query.
LEMMA VariablePathKeeps ==
  ASSUME NEW p, NEW q, q = VariablePath(p), p.shape = "variable_path_traversal",
         IsSequence(p.filters), QueryParses(q), CompilationOutcome(q) = "ok"
  PROVE  \A f \in ToSet(p.filters) : Stands(f, q)
<1> DEFINE through == {i \in DOMAIN p.filters : p.filters[i].prop[1] = p.vertices[2]}
           inside == Selected(p.filters, through)
           outside == Selected(p.filters, DOMAIN p.filters \ through)
<1>1. PICK roles, op : /\ q.filters = FilterItems(outside, roles) /\ q.ops = <<op>> /\ q.shape = p.shape
                       /\ op.op = "variable_path" /\ op.filters = FilterItems(inside, roles)
  <2> DEFINE roles == RolesByOwner(<<<<"start", p.vertices[1]>>, <<"through", p.vertices[2]>>>>)
             op == [op |-> "variable_path", start |-> "start", through |-> "through",
                    filters |-> FilterItems(inside, roles), edges |-> <<p.edges[1].name>>, min |-> 1, max |-> MaxHops]
  <2>1. q.filters = FilterItems(outside, roles) /\ q.ops = <<op>> /\ q.shape = p.shape
    BY DEF VariablePath
  <2>2. op.op = "variable_path" /\ op.filters = FilterItems(inside, roles)
    OBVIOUS
  <2> HIDE DEF inside, outside, roles, op
  <2> QED BY <2>1, <2>2
<1>2. /\ IsSequence(inside) /\ \A i \in through : p.filters[i] \in ToSet(inside)
      /\ IsSequence(outside) /\ \A i \in DOMAIN p.filters \ through : p.filters[i] \in ToSet(outside)
  BY SelectedSequence
<1> HIDE DEF inside, outside
<1>3. ToSet(q.ops) = {op}
  BY <1>1 DEF ToSet
<1>4. ~IsMetric(q) /\ ~IsChain(q) /\ PrimaryOf(q) = op
  BY <1>1, <1>3 DEF IsMetric, IsChain, PrimaryOf
<1>5. FiltersOf(q) = op.filters \o q.filters
  BY <1>1, <1>4 DEF FiltersOf
<1>6. \A x \in ToSet(op.filters) \cup ToSet(q.filters) : x \in ToSet(FiltersOf(q))
  <2>1. \A filters : IsSequence(filters) => IsSequence(FilterItems(filters, roles))
    <3> SUFFICES ASSUME NEW filters, IsSequence(filters) PROVE IsSequence(FilterItems(filters, roles))
      OBVIOUS
    <3>1. FilterItems(filters, roles) = [i \in DOMAIN filters |-> FilterItem(filters[i], roles)]
      BY DEF FilterItems, MapSeq
    <3>2. FilterItems(filters, roles) = [i \in DOMAIN filters |-> FilterItems(filters, roles)[i]]
      BY <3>1
    <3> QED BY <3>2, MappedSequence
  <2>2. IsSequence(op.filters) /\ IsSequence(q.filters)
    BY <1>1, <1>2, <2>1
  <2> QED BY <1>5, <2>2, ConcatElements
<1>7. BoundLabels(q)
  BY <1>1, <1>4 DEF BoundLabels, Labels
<1>8. \A x \in ToSet(q.filters) : x.target # "" => q.vertices[x.target] = x.prop[1]
  BY DEF QueryParses, FiltersValid
<1>9. \A x \in ToSet(op.filters) : x.target # "" => q.vertices[x.target] = x.prop[1]
  <2>1. FiltersValid(op.filters, [r \in {op.through} |-> q.vertices[r]])
    BY <1>1, <1>3 DEF QueryParses, OpIsValid
  <2> QED BY <2>1 DEF FiltersValid
<1>10. ASSUME NEW f \in ToSet(p.filters) PROVE Stands(f, q)
  <2>1. PICK i \in DOMAIN p.filters : p.filters[i] = f
    BY DEF ToSet
  <2>2. f \in ToSet(inside) \/ f \in ToSet(outside)
    BY <1>2, <2>1
  <2>3. PICK x \in ToSet(op.filters) \cup ToSet(q.filters) : Same(x, f)
    BY <1>1, <2>2, ItemOfFilter
  <2> QED BY <1>6, <1>7, <1>8, <1>9, <2>3, BoundStands
<1> QED BY <1>10

\* In a query of one operation, an ordering and a limit, that operation is the primary one.
PrimaryKinds == {"metric_aggregate", "aggregate", "subquery", "variable_path", "use_path_pattern"}

Single(q, op) == op.op \in PrimaryKinds /\ \E p, bind : q.ops = <<op>> \o SortLimit(p, bind)

LEMMA OnePrimary ==
  ASSUME NEW q, NEW op, Single(q, op)
  PROVE  /\ op \in ToSet(q.ops) /\ PrimaryOf(q) = op
         /\ ~IsChain(q) /\ (IsMetric(q) <=> op.op = "metric_aggregate")
<1>1. IsSequence(<<op>>)
  <2>1. <<op>> \in Seq({op})
    OBVIOUS
  <2> QED BY <2>1, SequenceOf
<1>2. /\ \A i \in DOMAIN <<op>> : <<op>>[i] \in ToSet(q.ops)
      /\ \A o \in ToSet(q.ops) : o \in ToSet(<<op>>) \/ o.op \in {"sort", "limit"}
  BY <1>1, OrderingsLast DEF Single
<1>3. op \in ToSet(q.ops) /\ \A o \in ToSet(q.ops) : o = op \/ o.op \in {"sort", "limit"}
  <2>1. 1 \in DOMAIN <<op>> /\ <<op>>[1] = op
    OBVIOUS
  <2>2. ToSet(<<op>>) = {op}
    BY DEF ToSet
  <2> QED BY <1>2, <2>1, <2>2
<1>4. op.op \in PrimaryKinds /\ \A o \in ToSet(q.ops) : o.op \in PrimaryKinds <=> o = op
  BY <1>3 DEF PrimaryKinds, Single
<1>5. PrimaryOf(q) = op
  BY <1>3, <1>4 DEF PrimaryOf, PrimaryKinds
<1> QED BY <1>3, <1>4, <1>5 DEF IsChain, IsMetric, PrimaryKinds

\* A metric filters by its own aliases, each of which is one vertex.
LEMMA AliasOfVertex ==
  ASSUME NEW metric \in DOMAIN Metrics, NEW r, NEW v, <<r, v>> \in AliasesOf(metric)
  PROVE  VertexByAlias(metric)[r] = v
<1> DEFINE aliases == Metrics[metric].aliases
<1>1. \A i, j \in DOMAIN aliases : aliases[i][1] = aliases[j][1] => i = j
  BY ModelAssumption DEF ModelIsValid
<1>2. \A a, b \in AliasesOf(metric) : a[1] = b[1] => a = b
  BY <1>1 DEF AliasesOf, ToSet
<1> DEFINE mine == CHOOSE a \in AliasesOf(metric) : a[1] = r
<1>3. \E a \in AliasesOf(metric) : a[1] = r
  <2>1. <<r, v>>[1] = r
    OBVIOUS
  <2> QED BY <2>1
<1>4. mine \in AliasesOf(metric) /\ mine[1] = r
  BY <1>3
<1>5. mine = <<r, v>>
  <2>1. <<r, v>>[1] = r
    OBVIOUS
  <2> HIDE DEF mine
  <2> QED BY <1>2, <1>4, <2>1
<1>6. VertexByAlias(metric)[r] = mine[2]
  BY <1>3 DEF VertexByAlias
<1> HIDE DEF mine
<1> QED BY <1>5, <1>6

LEMMA MetricKeeps ==
  ASSUME NEW p, NEW q, q = MetricAggregate(p), p.shape \in {"metric_aggregate", "top_n"},
         IsSequence(p.metrics), ToSet(p.metrics) \subseteq DOMAIN Metrics,
         Builds(p), p.shape = "top_n" => p.metrics # << >>, QueryParses(q), CompilationOutcome(q) = "ok"
  PROVE  \A f \in ToSet(p.filters) : Stands(f, q)
<1> DEFINE metric == p.metrics[1]
<1>1. \E op, roles, bind : /\ q.ops = <<op>> \o SortLimit(p, bind) /\ q.shape = p.shape
                           /\ op.op = "metric_aggregate" /\ op.name = metric /\ op.filters = FilterItems(p.filters, roles)
  <2> DEFINE op == [op |-> "metric_aggregate", name |-> metric, group |-> p.group,
                    filters |-> FilterItems(p.filters, MetricRoles(metric))]
  <2>1. q.ops = <<op>> \o SortLimit(p, "") /\ q.shape = p.shape
    BY DEF MetricAggregate
  <2>2. op.op = "metric_aggregate" /\ op.name = metric /\ op.filters = FilterItems(p.filters, MetricRoles(metric))
    OBVIOUS
  <2> HIDE DEF op, metric
  <2>3. \E bind : q.ops = <<op>> \o SortLimit(p, bind)
    BY <2>1
  <2> QED BY <2>1, <2>2, <2>3
<1>2. PICK op, roles, bind : /\ q.ops = <<op>> \o SortLimit(p, bind) /\ q.shape = p.shape
                             /\ op.op = "metric_aggregate" /\ op.name = metric /\ op.filters = FilterItems(p.filters, roles)
  BY <1>1
<1>3. op \in ToSet(q.ops) /\ PrimaryOf(q) = op /\ ~IsChain(q) /\ IsMetric(q)
  <2>1. Single(q, op)
    BY <1>2 DEF Single, PrimaryKinds
  <2> QED BY <1>2, <2>1, OnePrimary
<1>4. metric \in DOMAIN Metrics
  <2>1. Len(p.metrics) = 1
    BY DEF Builds, MetricBuilds
  <2>2. 1 \in DOMAIN p.metrics
    BY <2>1, SequenceIs
  <2> QED BY <2>2 DEF ToSet
<1>5. FiltersOf(q) = op.filters
  BY <1>2, <1>3 DEF FiltersOf
<1>6. Labels(q) = VertexByAlias(metric)
  BY <1>2, <1>3 DEF Labels
<1>7. ASSUME NEW x \in ToSet(op.filters) PROVE <<x.target, x.prop[1]>> \in AliasesOf(metric)
  BY <1>2, <1>3, <1>7 DEF QueryParses, OpIsValid, DimensionValid
<1>8. ASSUME NEW f \in ToSet(p.filters) PROVE Stands(f, q)
  <2>1. PICK x \in ToSet(op.filters) : Same(x, f)
    BY <1>2, ItemOfFilter
  <2>2. Labels(q)[x.target] = x.prop[1]
    BY <1>4, <1>6, <1>7, AliasOfVertex
  <2> QED BY <1>5, <2>1, <2>2, ItemStands DEF Same
<1> QED BY <1>8

\* An aggregate of its own filters by roles of vertices.
LEMMA AdHocKeeps ==
  ASSUME NEW p, NEW q, q = AdHocAggregate(p), p.shape \in {"ad_hoc_aggregate", "top_n"},
         QueryParses(q), CompilationOutcome(q) = "ok"
  PROVE  \A f \in ToSet(p.filters) : Stands(f, q)
<1>1. \E op, roles, bind : /\ q.ops = <<op>> \o SortLimit(p, bind) /\ q.shape = p.shape
                           /\ op.op = "aggregate" /\ q.filters = FilterItems(p.filters, roles)
  <2> DEFINE op == [op |-> "aggregate", group |-> p.group, measures |-> p.measures]
  <2>1. /\ q.ops = <<op>> \o SortLimit(p, "") /\ q.shape = p.shape
        /\ q.filters = FilterItems(p.filters, AggregateRoles(p))
    BY DEF AdHocAggregate
  <2>2. op.op = "aggregate"
    OBVIOUS
  <2> HIDE DEF op
  <2>3. \E bind : q.ops = <<op>> \o SortLimit(p, bind)
    BY <2>1
  <2> QED BY <2>1, <2>2, <2>3
<1>2. PICK op, roles, bind : /\ q.ops = <<op>> \o SortLimit(p, bind) /\ q.shape = p.shape
                             /\ op.op = "aggregate" /\ q.filters = FilterItems(p.filters, roles)
  BY <1>1
<1>3. ~IsChain(q) /\ ~IsMetric(q)
  <2>1. Single(q, op)
    BY <1>2 DEF Single, PrimaryKinds
  <2> QED BY <1>2, <2>1, OnePrimary
<1>4. FiltersOf(q) = q.filters
  BY <1>2, <1>3 DEF FiltersOf
<1>5. BoundLabels(q)
  BY <1>2, <1>3 DEF BoundLabels, Labels
<1>6. \A x \in ToSet(q.filters) : x.target # "" => q.vertices[x.target] = x.prop[1]
  BY DEF QueryParses, FiltersValid
<1>7. ASSUME NEW f \in ToSet(p.filters) PROVE Stands(f, q)
  <2>1. PICK x \in ToSet(q.filters) : Same(x, f)
    BY <1>2, ItemOfFilter
  <2> QED BY <1>4, <1>5, <1>6, <2>1, BoundStands
<1> QED BY <1>7

-----------------------------------------------------------------------------
(* The structure of the question.  The gate compares it with the           *)
(* operations of the query; what a query is made of decides what the       *)
(* compiler writes of them.                                                *)

\* The operations of one kind are those of the query.
LEMMA OpsAre ==
  ASSUME NEW q, IsSequence(q.ops), NEW name
  PROVE  /\ IsSequence(OpsOf(q, name))
         /\ ToSet(OpsOf(q, name)) = {o \in ToSet(q.ops) : o.op = name}
<1> DEFINE keep == {i \in DOMAIN q.ops : q.ops[i].op = name}
           ops == OpsOf(q, name)
<1>1. ops = Selected(q.ops, keep) /\ keep \in SUBSET DOMAIN q.ops
  BY DEF OpsOf
<1>2. \A i \in keep : q.ops[i].op = name
  OBVIOUS
<1>3. \A i \in DOMAIN q.ops : q.ops[i].op = name => i \in keep
  OBVIOUS
<1> HIDE DEF keep, ops
<1>4. /\ IsSequence(ops) /\ ToSet(ops) \subseteq ToSet(q.ops)
      /\ \A i \in keep : q.ops[i] \in ToSet(ops)
  BY <1>1, SelectedSequence
<1>5. \A n \in DOMAIN ops : \E i \in keep : ops[n] = q.ops[i]
  <2>1. q.ops \in Seq(ToSet(q.ops))
    BY DEF IsSequence
  <2> QED BY <1>1, <2>1, SelectedPlaces
<1>6. ToSet(ops) = {o \in ToSet(q.ops) : o.op = name}
  BY <1>2, <1>3, <1>4, <1>5 DEF ToSet
<1> QED BY <1>4, <1>6 DEF ops

\* What a query is made of, whoever wrote it: the compiler reads its orderings and its one
\* limit, and paths of many hops are of their own shapes.
Formed(q) ==
  /\ IsSequence(q.ops)
  /\ \A o \in ToSet(q.ops) :
       /\ o.op \in {"sort", "limit"} => Ordered(q)
       /\ o.op = "variable_path" => q.shape = "variable_path_traversal"
       /\ o.op = "use_path_pattern" => q.shape = "named_path_pattern"
  /\ \E n : n # 0 /\ \A o \in ToSet(q.ops) : o.op = "limit" => o.value = n
  /\ q.shape = "variable_path_traversal" =>
       \E op : q.ops = <<op>> /\ op.op = "variable_path" /\ op.max = MaxHops

LEMMA EmptySequence == IsSequence(<< >>)
<1>1. << >> \in Seq({})
  OBVIOUS
<1> QED BY <1>1, SequenceOf

LEMMA OneSequence == \A a : IsSequence(<<a>>) /\ ToSet(<<a>>) = {a}
<1> SUFFICES ASSUME NEW a PROVE IsSequence(<<a>>) /\ ToSet(<<a>>) = {a}
  OBVIOUS
<1>1. <<a>> \in Seq({a})
  OBVIOUS
<1>2. ToSet(<<a>>) = {a}
  BY DEF ToSet
<1> QED BY <1>1, <1>2, SequenceOf

\* A sequence has an element if and only if it is not empty.
LEMMA SomeElement ==
  ASSUME NEW s, IsSequence(s)
  PROVE  s # << >> <=> ToSet(s) # {}
<1>1. s \in Seq(ToSet(s)) /\ DOMAIN s = 1..Len(s) /\ Len(s) \in Nat
  BY SequenceIs
<1>2. ASSUME s # << >> PROVE 1 \in DOMAIN s
  BY <1>1, <1>2
<1>3. ASSUME s = << >> PROVE ToSet(s) = {}
  BY <1>3 DEF ToSet
<1> QED BY <1>2, <1>3 DEF ToSet

\* What orders a query orders its Cypher.
LEMMA OrderKept ==
  ASSUME NEW q, Formed(q)
  PROVE  {s.direction : s \in ToSet(SortsOf(q))} = {o.direction : o \in ToSet(OrderBy(q))}
<1>1. CASE Ordered(q)
  <2> DEFINE sorts == SortsOf(q)
             by(s) == IF ReturnedAs(q, s.source) # << >> THEN Expr("alias", "", ReturnedAs(q, s.source))
                      ELSE KnownSources(q)[s.source]
  <2>1. OrderBy(q) = [i \in DOMAIN sorts |-> [expr |-> by(sorts[i]), direction |-> sorts[i].direction]]
    BY <1>1 DEF OrderBy, MapSeq
  <2> HIDE DEF sorts, by
  <2>2. DOMAIN OrderBy(q) = DOMAIN sorts /\ \A i \in DOMAIN sorts : OrderBy(q)[i].direction = sorts[i].direction
    BY <2>1
  <2>3. \A d : (\E s \in ToSet(sorts) : s.direction = d) <=> (\E o \in ToSet(OrderBy(q)) : o.direction = d)
    BY <2>2 DEF ToSet
  <2> QED BY <2>3 DEF sorts
<1>2. CASE ~Ordered(q)
  <2>1. ToSet(OpsOf(q, "sort")) = {} /\ IsSequence(OpsOf(q, "sort"))
    <3>1. IsSequence(OpsOf(q, "sort")) /\ ToSet(OpsOf(q, "sort")) = {o \in ToSet(q.ops) : o.op = "sort"}
      BY OpsAre DEF Formed
    <3>2. \A o \in ToSet(q.ops) : o.op # "sort"
      BY <1>2 DEF Formed
    <3> QED BY <3>1, <3>2
  <2>2. OpsOf(q, "sort") = << >>
    BY <2>1, SomeElement
  <2>3. SortsOf(q) = << >>
    <3> DEFINE by == MapSeq(OpsOf(q, "sort"), LAMBDA o : o.by)
    <3>1. by = [i \in DOMAIN OpsOf(q, "sort") |-> OpsOf(q, "sort")[i].by]
      BY DEF MapSeq
    <3>2. IsSequence(by) /\ DOMAIN by = DOMAIN << >>
      <4>1. by = [i \in DOMAIN OpsOf(q, "sort") |-> by[i]]
        BY <3>1
      <4> HIDE DEF by
      <4> QED BY <2>1, <2>2, <4>1, MappedSequence
    <3> HIDE DEF by
    <3>3. by \in Seq(ToSet(by)) /\ Len(by) = 0
      BY <3>2, SequenceIs
    <3>4. by = << >>
      BY <3>3
    <3>5. FlattenSeq(by) = << >>
      BY <3>3, <3>4 DEF FlattenSeq
    <3> QED BY <3>5 DEF SortsOf, by
  <2>4. OrderBy(q) = << >>
    BY <1>2 DEF OrderBy
  <2> QED BY <2>3, <2>4 DEF ToSet
<1> QED BY <1>1, <1>2

\* What limits a query limits its Cypher.
LEMMA LimitKept ==
  ASSUME NEW q, Formed(q), NEW n \in {o.value : o \in ToSet(OpsOf(q, "limit"))}
  PROVE  LimitOf(q) # 0 /\ LimitOf(q) = n
<1> DEFINE limits == OpsOf(q, "limit")
<1>1. IsSequence(limits) /\ ToSet(limits) = {o \in ToSet(q.ops) : o.op = "limit"}
  BY OpsAre DEF Formed
<1>2. PICK v : v # 0 /\ \A o \in ToSet(q.ops) : o.op = "limit" => o.value = v
  BY DEF Formed
<1>3. \A o \in ToSet(limits) : o.value = v
  BY <1>1, <1>2
<1>4. n = v /\ ToSet(limits) # {}
  BY <1>3
<1>5. Ordered(q)
  <2>1. PICK o \in ToSet(q.ops) : o.op = "limit"
    BY <1>1, <1>4
  <2> QED BY <2>1 DEF Formed
<1> HIDE DEF limits
<1>6. limits # << >> /\ Last(limits) \in ToSet(limits)
  <2>1. limits # << >> /\ limits \in Seq(ToSet(limits)) /\ DOMAIN limits = 1..Len(limits) /\ Len(limits) \in Nat
    BY <1>1, <1>4, SomeElement, SequenceIs
  <2>2. Len(limits) \in DOMAIN limits
    BY <2>1
  <2> QED BY <2>1, <2>2 DEF Last, ToSet
<1>7. LimitOf(q) = Last(limits).value
  BY <1>5, <1>6 DEF LimitOf, limits
<1> QED BY <1>2, <1>3, <1>4, <1>6, <1>7

\* The hops of a path, one by one, a hop of many as many times.
HopsWalked(hops) == UNION {{<<i, n>> : n \in 1..hops[i].max} : i \in DOMAIN hops}

LEMMA SingleHops ==
  ASSUME NEW N \in Nat, NEW hops, DOMAIN hops = 1..N, \A i \in 1..N : hops[i].max = 1
  PROVE  Cardinality(HopsWalked(hops)) = N
<1> DEFINE T == {<<i, 1>> : i \in 1..N}
           f == [i \in 1..N |-> <<i, 1>>]
<1>1. HopsWalked(hops) = T
  BY DEF HopsWalked
<1>2. f \in Bijection(1..N, T)
  <2>1. \A i, j \in 1..N : f[i] = f[j] => i = j
    OBVIOUS
  <2>2. f \in [1..N -> T] /\ \A t \in T : \E i \in 1..N : f[i] = t
    OBVIOUS
  <2> HIDE DEF f, T
  <2> QED BY <2>1, <2>2 DEF Bijection, Injection, Surjection, IsInjective
<1>3. IsFiniteSet(1..N) /\ Cardinality(1..N) = N
  BY FS_Interval
<1> HIDE DEF f, T
<1>4. ExistsBijection(1..N, T)
  BY <1>2 DEF ExistsBijection
<1> QED BY <1>1, <1>3, <1>4, FS_Bijection

LEMMA OneLongHop ==
  ASSUME NEW N \in Nat, NEW hop, hop.max = N
  PROVE  Cardinality(HopsWalked(<<hop>>)) = N
<1> DEFINE T == {<<1, n>> : n \in 1..N}
           f == [n \in 1..N |-> <<1, n>>]
<1>1. HopsWalked(<<hop>>) = T
  <2>1. DOMAIN <<hop>> = {1} /\ <<hop>>[1] = hop
    OBVIOUS
  <2> QED BY <2>1 DEF HopsWalked
<1>2. f \in Bijection(1..N, T)
  <2>1. \A i, j \in 1..N : f[i] = f[j] => i = j
    OBVIOUS
  <2>2. f \in [1..N -> T] /\ \A t \in T : \E i \in 1..N : f[i] = t
    OBVIOUS
  <2> HIDE DEF f, T
  <2> QED BY <2>1, <2>2 DEF Bijection, Injection, Surjection, IsInjective
<1>3. IsFiniteSet(1..N) /\ Cardinality(1..N) = N
  BY FS_Interval
<1> HIDE DEF f, T
<1>4. ExistsBijection(1..N, T)
  BY <1>2 DEF ExistsBijection
<1> QED BY <1>1, <1>3, <1>4, FS_Bijection

\* How far a query reaches, its Cypher does.
LEMMA ReachKept ==
  ASSUME NEW q, Formed(q), q.shape # "named_path_pattern"
  PROVE  Cardinality(HopsWalked(MatchedHops(q))) = HopCapacity(q)
<1>1. OpsOf(q, "use_path_pattern") = << >>
  <2>1. IsSequence(OpsOf(q, "use_path_pattern")) /\ ToSet(OpsOf(q, "use_path_pattern")) = {o \in ToSet(q.ops) : o.op = "use_path_pattern"}
    BY OpsAre DEF Formed
  <2>2. \A o \in ToSet(q.ops) : o.op # "use_path_pattern"
    BY DEF Formed
  <2> QED BY <2>1, <2>2, SomeElement
<1>2. /\ IsSequence(HopsOf(q)) /\ ToSet(HopsOf(q)) = {o \in ToSet(q.ops) : o.op = "traverse_edge"}
      /\ DOMAIN HopsOf(q) = 1..Len(HopsOf(q)) /\ Len(HopsOf(q)) \in Nat
  BY OpsAre, SequenceIs DEF Formed, HopsOf
<1>3. ToSet(OpsOf(q, "variable_path")) = {o \in ToSet(q.ops) : o.op = "variable_path"}
  BY OpsAre DEF Formed
<1>4. \A n \in Nat : Max({n}) = n
  BY DEF Max
<1>5. CASE q.shape = "variable_path_traversal"
  <2>1. PICK op : q.ops = <<op>> /\ op.op = "variable_path" /\ op.max = MaxHops
    BY <1>5 DEF Formed
  <2>2. ToSet(q.ops) = {op}
    BY <2>1, OneSequence
  <2>3. HopsOf(q) = << >> /\ Len(HopsOf(q)) = 0
    <3>1. ToSet(HopsOf(q)) = {}
      BY <1>2, <2>1, <2>2
    <3> QED BY <1>2, <3>1, SomeElement
  <2>4. PrimaryOf(q) = op
    BY <2>1, <2>2 DEF PrimaryOf
  <2>5. ToSet(OpsOf(q, "variable_path")) = {op}
    BY <1>3, <2>1, <2>2
  <2>6. HopCapacity(q) = Max({0, 8})
    <3>1. {o.max : o \in ToSet(OpsOf(q, "variable_path"))} = {8}
      BY <2>1, <2>5 DEF MaxHops
    <3>2. {Len(HopsOf(q))} \cup {8} \cup {} = {0, 8}
      BY <2>3
    <3> QED BY <1>1, <3>1, <3>2 DEF HopCapacity
  <2>7. Max({0, 8}) = 8
    BY DEF Max
  <2>8. \E hop : MatchedHops(q) = <<hop>> /\ hop.max = 8
    <3> DEFINE hop == [from |-> op.start, edge |-> op.edges[1], to |-> op.through, dir |-> "forward", max |-> op.max]
    <3>1. MatchedHops(q) = <<hop>>
      BY <1>5, <2>4 DEF MatchedHops
    <3>2. hop.max = 8
      BY <2>1 DEF MaxHops
    <3> HIDE DEF hop
    <3> QED BY <3>1, <3>2
  <2> QED BY <2>6, <2>7, <2>8, OneLongHop
<1>6. CASE q.shape # "variable_path_traversal"
  <2>1. ToSet(OpsOf(q, "variable_path")) = {}
    <3>1. \A o \in ToSet(q.ops) : o.op # "variable_path"
      BY <1>6 DEF Formed
    <3> QED BY <1>3, <3>1
  <2>2. HopCapacity(q) = Len(HopsOf(q))
    <3>1. {o.max : o \in ToSet(OpsOf(q, "variable_path"))} = {}
      BY <2>1
    <3>2. {Len(HopsOf(q))} \cup {} \cup {} = {Len(HopsOf(q))}
      OBVIOUS
    <3> QED BY <1>1, <1>2, <1>4, <3>1, <3>2 DEF HopCapacity
  <2> DEFINE step(h) == [from |-> h.from, edge |-> q.edges[h.edge], to |-> h.to, dir |-> h.dir, max |-> 1]
             walked == MatchedHops(q)
  <2>3. walked = [i \in DOMAIN HopsOf(q) |-> step(HopsOf(q)[i])]
    BY <1>6 DEF MatchedHops, MapSeq
  <2>4. DOMAIN walked = 1..Len(HopsOf(q)) /\ \A i \in 1..Len(HopsOf(q)) : walked[i].max = 1
    BY <1>2, <2>3
  <2> HIDE DEF walked
  <2>5. Cardinality(HopsWalked(walked)) = Len(HopsOf(q))
    BY <1>2, <2>4, SingleHops
  <2> QED BY <2>2, <2>5 DEF walked
<1> QED BY <1>5, <1>6

\* A Cypher that is compiled from a query the gate lets through answers the question's
\* structure.
LEMMA CoveredAnswered ==
  ASSUME NEW q, Formed(q), NEW of, StructureCovered(Requirements(of), q), NEW c, c = CypherOf(q)
  PROVE  LET asked == Requirements(of)
         IN /\ asked.order => c.order # << >>
            /\ asked.direction # "any" => asked.direction \in {o.direction : o \in ToSet(c.order)}
            /\ asked.limited => c.limit # 0 /\ asked.limit \in {0, c.limit}
            /\ q.shape # "named_path_pattern" => Cardinality(HopsWalked(c.hops)) >= asked.hops
<1> DEFINE asked == Requirements(of)
           sorted == {s.direction : s \in ToSet(SortsOf(q))}
           limits == {o.value : o \in ToSet(OpsOf(q, "limit"))}
<1>1. c.order = OrderBy(q) /\ c.limit = LimitOf(q) /\ c.hops = MatchedHops(q)
  BY DEF CypherOf
<1>2. /\ asked.order => IF asked.direction = "any" THEN sorted # {} ELSE asked.direction \in sorted
      /\ asked.limited => IF asked.limit = 0 THEN limits # {} ELSE asked.limit \in limits
      /\ HopCapacity(q) >= asked.hops
  BY DEF StructureCovered
<1>3. asked.direction # "any" => asked.order
  <2>1. asked.direction = DirectionAsked(Texts(of, "order_by")) /\ (asked.order <=> Texts(of, "order_by") # {})
    BY DEF Requirements
  <2>2. DirectionAsked({}) = "any"
    BY DEF DirectionAsked
  <2> QED BY <2>1, <2>2
<1>4. sorted = {o.direction : o \in ToSet(OrderBy(q))}
  BY OrderKept
<1>5. \A n \in limits : LimitOf(q) # 0 /\ LimitOf(q) = n
  BY LimitKept
<1> HIDE DEF asked, sorted, limits
<1>6. asked.order => c.order # << >>
  <2>1. asked.order => sorted # {}
    BY <1>2
  <2>2. {o.direction : o \in ToSet(<< >>)} = {}
    BY DEF ToSet
  <2> QED BY <1>1, <1>4, <2>1, <2>2
<1>7. asked.direction # "any" => asked.direction \in {o.direction : o \in ToSet(c.order)}
  BY <1>1, <1>2, <1>3, <1>4
<1>8. asked.limited => c.limit # 0 /\ asked.limit \in {0, c.limit}
  BY <1>1, <1>2, <1>5
<1>9. q.shape # "named_path_pattern" => Cardinality(HopsWalked(c.hops)) >= asked.hops
  BY <1>1, <1>2, ReachKept
<1> QED BY <1>6, <1>7, <1>8, <1>9 DEF asked

-----------------------------------------------------------------------------
(* The run.  What a stage knows of the ones before it.                     *)

\* What the binder reads of an answer.
Payload(a) ==
  /\ {"shape", "edges", "literals", "filters", "metrics", "group", "measures"} \subseteq DOMAIN a
  /\ IsSequence(a.edges) /\ IsSequence(a.literals) /\ IsSequence(a.filters) /\ IsSequence(a.metrics)
  /\ IsSequence(a.group) /\ IsSequence(a.measures)
  /\ ToSet(a.metrics) \subseteq DOMAIN Metrics

\* A name that is given: the empty string is one that is not.
Given(name) == name # ""

\* What the builder reads of a plan.
Planned(p) ==
  /\ IsSequence(p.edges) /\ IsSequence(p.filters) /\ IsSequence(p.metrics)
  /\ ToSet(p.metrics) \subseteq DOMAIN Metrics
  /\ IsSequence(p.group) /\ IsSequence(p.measures)
  /\ \A x \in ToSet(p.group) \cup ToSet(p.measures) : Given(x.target)

Past(stages) == stage \in stages \/ Generated

IInv ==
  /\ case \in DOMAIN Cases
  /\ Generated => stage = "done"
  /\ stage \in {"literals", "output", "assembling", "grounding", "binding"} => plan = Nothing
  /\ stage = "binding" => Payload(answer)
  /\ stage \in {"validation", "building"} => plan # Nothing
  /\ plan # Nothing => Planned(plan)
  /\ plan # Nothing /\ Past({"building", "parsing", "coverage", "compiling", "self_validation"}) => PlanIsValid(plan)
  /\ plan # Nothing /\ Past({"parsing", "coverage", "compiling", "self_validation"}) => Builds(plan) /\ query = Built(plan)
  /\ plan = Nothing /\ Past({"parsing", "coverage", "compiling", "self_validation"}) =>
       query = Assembled(question, candidates, results) /\ query # Nothing
  /\ Past({"coverage", "compiling", "self_validation"}) => QueryParses(query)
  /\ Past({"compiling", "self_validation"}) => StructureCovered(Requirements(question), query)
  /\ Past({"self_validation"}) => CompilationOutcome(query) = "ok" /\ cypher = CypherOf(query)

LEMMA HydratedPayload ==
  ASSUME NEW c \in DOMAIN Cases, NEW a \in Cases[c].answers, NEW found,
         GroundingOutcome(a, Cases[c].candidates, found) = "ok"
  PROVE  Payload(Enriched(Hydrated(a, found), Cases[c].question))
<1> DEFINE h == Hydrated(a, found)
           e == Enriched(h, Cases[c].question)
           fields == {"shape", "edges", "literals", "filters", "metrics", "group", "measures"}
<1>1. /\ fields \subseteq DOMAIN a
      /\ IsSequence(a.edges) /\ IsSequence(a.literals) /\ IsSequence(a.filters) /\ IsSequence(a.metrics)
      /\ IsSequence(a.group) /\ IsSequence(a.measures)
  BY CasesAssumption
<1>2. ToSet(a.metrics) \subseteq DOMAIN Metrics
  <2>1. {<<"metric", m>> : m \in ToSet(a.metrics)} \subseteq Cases[c].candidates
    BY DEF GroundingOutcome, InsideCandidates
  <2>2. \A k \in Cases[c].candidates : k[1] = "metric" => k[2] \in DOMAIN Metrics
    BY CasesAssumption
  <2>3. ASSUME NEW m \in ToSet(a.metrics) PROVE m \in DOMAIN Metrics
    <3>1. <<"metric", m>> \in Cases[c].candidates
      BY <2>1
    <3>2. <<"metric", m>>[1] = "metric" /\ <<"metric", m>>[2] = m
      OBVIOUS
    <3> QED BY <2>2, <3>1, <3>2
  <2> QED BY <2>3
<1>3. /\ fields \subseteq DOMAIN h /\ h.edges = a.edges /\ h.filters = a.filters /\ h.metrics = a.metrics
      /\ h.literals = MapSeq(a.literals, LAMBDA i : found[i])
      /\ h.group = HydratedGroup(a.group) /\ h.measures = HydratedMeasures(a.measures)
  BY <1>1 DEF Hydrated
<1>4. IsSequence(h.literals)
  <2>1. h.literals = [i \in DOMAIN a.literals |-> found[a.literals[i]]]
    BY <1>3 DEF MapSeq
  <2>2. h.literals = [i \in DOMAIN a.literals |-> h.literals[i]]
    BY <2>1
  <2> HIDE DEF h
  <2> QED BY <1>1, <2>2, MappedSequence
<1> HIDE DEF h
<1>7. IsSequence(h.group) /\ IsSequence(h.measures)
  <2>1. h.group = [i \in DOMAIN a.group |-> h.group[i]]
    <3>1. HydratedGroup(a.group) = [i \in DOMAIN a.group |-> HydratedGroup(a.group)[i]]
      BY DEF HydratedGroup, MapSeq
    <3> QED BY <1>3, <3>1
  <2>2. h.measures = [i \in DOMAIN a.measures |-> h.measures[i]]
    <3>1. HydratedMeasures(a.measures) = [i \in DOMAIN a.measures |-> HydratedMeasures(a.measures)[i]]
      BY DEF HydratedMeasures, MapSeq
    <3> QED BY <1>3, <3>1
  <2> QED BY <1>1, <2>1, <2>2, MappedSequence
<1>5. /\ fields \subseteq DOMAIN e /\ e.edges = h.edges /\ e.filters = h.filters /\ e.metrics = h.metrics
      /\ e.literals = h.literals /\ e.group = h.group /\ e.measures = h.measures
  BY <1>3 DEF Enriched
<1> HIDE DEF e
<1>6. Payload(e)
  BY <1>1, <1>2, <1>3, <1>4, <1>5, <1>7 DEF Payload
<1> QED BY <1>6 DEF e, h

LEMMA BoundFiltersOutcomes == \A a, among : BoundFilters(a, among).outcome \in {"ok", "reject", "crash"}
<1>1. \A a, n, among : FilterOutcome(a, n, among) \in {"ok", "reject", "crash"}
  BY DEF FilterOutcome
<1> QED BY <1>1 DEF BoundFilters

\* The binder takes no group and no measure without a target.
LEMMA ReferencesGiven ==
  ASSUME NEW a, NEW among, ReferencesOutcome(a, among) = "ok"
  PROVE  \A x \in ToSet(a.group) \cup ToSet(BoundMeasures(a.measures)) : Given(x.target)
BY Zenon DEF ReferencesOutcome, Given

LEMMA PlanPlanned ==
  ASSUME NEW a, Payload(a), NEW among, BindingOutcome(a, among) = "ok"
  PROVE  Planned(PlanOf(a, among))
<1>1. IsSequence(PlanOf(a, among).filters) /\ IsSequence(PlanOf(a, among).edges)
  BY PlanSequences DEF Payload
<1>2. PlanOf(a, among).metrics = Unique(a.metrics)
  BY DEF PlanOf, PlanThrough, PlanAlong
<1>3. IsSequence(Unique(a.metrics)) /\ ToSet(Unique(a.metrics)) \subseteq ToSet(a.metrics)
  BY UniqueSequence DEF Payload
<1>4. PlanOf(a, among).group = a.group /\ PlanOf(a, among).measures = BoundMeasures(a.measures)
  BY DEF PlanOf, PlanThrough, PlanAlong
<1>5. IsSequence(BoundMeasures(a.measures))
  <2>1. BoundMeasures(a.measures) = [i \in DOMAIN a.measures |-> BoundMeasures(a.measures)[i]]
    BY Zenon DEF BoundMeasures, MapSeq
  <2> QED BY <2>1, MappedSequence DEF Payload
<1>6. \A x \in ToSet(a.group) \cup ToSet(BoundMeasures(a.measures)) : Given(x.target)
  <2>1. ReferencesOutcome(a, among) = "ok"
    <3>1. BoundFilters(a, among).outcome \in {"ok", "reject", "crash"}
      BY BoundFiltersOutcomes
    <3> QED BY <3>1 DEF BindingOutcome
  <2> QED BY <2>1, ReferencesGiven
<1> QED BY <1>1, <1>2, <1>3, <1>4, <1>5, <1>6 DEF Planned, Payload

LEMMA PlanIsThere == ASSUME NEW a, NEW among PROVE PlanOf(a, among) # Nothing
<1>1. "vertices" \in DOMAIN PlanOf(a, among)
  BY DEF PlanOf, PlanThrough, PlanAlong
<1>2. "vertices" \notin DOMAIN Nothing
  BY DEF Nothing
<1> QED BY <1>1, <1>2

LEMMA BindingOutcomes == \A a, among : BindingOutcome(a, among) \in {"ok", "reject", "crash"}
<1> SUFFICES ASSUME NEW a, NEW among PROVE BindingOutcome(a, among) \in {"ok", "reject", "crash"}
  OBVIOUS
<1>1. ReferencesOutcome(a, among) \in {"ok", "reject", "crash"}
  BY Zenon DEF ReferencesOutcome
<1> QED BY <1>1, BoundFiltersOutcomes DEF BindingOutcome
LEMMA GroundingOutcomes ==
  \A a, among, found : GroundingOutcome(a, among, found) \in {"ok", "semantic_match_rejected", "grounded_understanding_schema_invalid"}
BY DEF GroundingOutcome
LEMMA CompilationOutcomes == \A q : CompilationOutcome(q) \in {"ok", "refused", "crash"}
BY DEF CompilationOutcome
LEMMA SelfValidations ==
  \A c, q : SelfValidation(c, q) \in {"ok", "target_dialect_static_error", "cypher_schema_reference_invalid", "compiler_shape_mismatch"}
BY DEF SelfValidation

LEMMA InitIInv == Init => IInv
BY DEF Init, IInv, Past, Generated

LEMMA StepIInv == IInv /\ [Next]_vars => IInv'
<1> SUFFICES ASSUME IInv, [Next]_vars PROVE IInv'
  OBVIOUS
<1> USE DEF Past, Generated
<1>0. /\ case' = case => Requirements(question)' = Requirements(question)
      /\ case' = case /\ results' = results =>
           Assembled(question, candidates, results)' = Assembled(question, candidates, results)
  BY DEF question, candidates
<1>1. CASE ResolveLiterals
  BY <1>1 DEF IInv, ResolveLiterals, Goes
<1>2. CASE AskOutput
  BY <1>2 DEF IInv, AskOutput, Goes
<1>3. CASE Assemble
  <2>1. /\ query' = Assembled(question, candidates, results) /\ outcome' = "none"
        /\ stage' = IF query' = Nothing THEN "grounding" ELSE "parsing"
    BY <1>3 DEF Assemble, Goes
  <2>2. question' = question /\ candidates' = candidates /\ results' = results
    BY <1>3 DEF Assemble, question, candidates
  <2>3. Assembled(question, candidates, results)' = Assembled(question', candidates', results')
    BY <1>3 DEF Assemble
  <2> QED BY <1>3, <2>1, <2>2, <2>3 DEF IInv, Assemble
<1>4. CASE Ground
  <2>1. PICK a \in Cases[case].answers :
          LET found == GroundingOutcome(a, candidates, results)
          IN /\ Goes(found, "binding")
             /\ answer' = IF found = "ok" THEN Enriched(Hydrated(a, results), question) ELSE Nothing
    BY <1>4 DEF Ground
  <2>2. GroundingOutcome(a, candidates, results) \in {"ok", "semantic_match_rejected", "grounded_understanding_schema_invalid"}
    BY GroundingOutcomes
  <2>3. CASE GroundingOutcome(a, candidates, results) = "ok"
    <3>1. case \in DOMAIN Cases
      BY DEF IInv
    <3>2. Payload(answer')
      BY <2>1, <2>3, <3>1, HydratedPayload DEF question, candidates
    <3>3. stage = "grounding" /\ stage' = "binding" /\ outcome' = "none"
      BY <1>4, <2>1, <2>3 DEF Ground, Goes
    <3> QED BY <1>4, <3>2, <3>3 DEF IInv, Ground
  <2>4. CASE GroundingOutcome(a, candidates, results) # "ok"
    <3>1. stage = "grounding" /\ stage' = "done" /\ outcome' # "generated"
      BY <1>4, <2>1, <2>2, <2>4 DEF Ground, Goes
    <3> QED BY <1>4, <3>1 DEF IInv, Ground
  <2> QED BY <2>3, <2>4
<1>5. CASE Bind
  <2>1. BindingOutcome(answer, candidates) \in {"ok", "reject", "crash"}
    BY BindingOutcomes
  <2>2. CASE BindingOutcome(answer, candidates) = "ok"
    <3>1. stage' = "validation" /\ outcome' = "none" /\ plan' = PlanOf(answer, candidates)
      BY <1>5, <2>2 DEF Bind, Goes
    <3>2. Planned(plan')
      BY <1>5, <2>2, <3>1, PlanPlanned DEF IInv, Bind
    <3>3. plan' # Nothing
      BY <3>1, PlanIsThere
    <3> QED BY <1>5, <3>1, <3>2, <3>3 DEF IInv, Bind
  <2>3. CASE BindingOutcome(answer, candidates) # "ok"
    <3>1. stage' = "done" /\ outcome' # "generated" /\ plan' = Nothing
      BY <1>5, <2>1, <2>3 DEF Bind, Goes
    <3> QED BY <1>5, <3>1 DEF IInv, Bind
  <2> QED BY <2>2, <2>3
<1>6. CASE Validate
  BY <1>6 DEF IInv, Validate, Goes
<1>7. CASE Build
  BY <1>7 DEF IInv, Build, Goes
<1>8. CASE Parse
  BY <1>0, <1>8 DEF IInv, Parse, Goes
<1>9. CASE CheckCoverage
  BY <1>0, <1>9 DEF IInv, CheckCoverage, Goes
<1>10. CASE Compile
  BY <1>0, <1>10, CompilationOutcomes DEF IInv, Compile, Goes
<1>11. CASE SelfValidate
  BY <1>0, <1>11, SelfValidations DEF IInv, SelfValidate
<1>12. CASE UNCHANGED vars
  BY <1>0, <1>12 DEF IInv, vars
<1> QED BY <1>1, <1>2, <1>3, <1>4, <1>5, <1>6, <1>7, <1>8, <1>9, <1>10, <1>11, <1>12 DEF Next

\* An ad hoc aggregate keeps the shape of its plan.
LEMMA AdHocShape == ASSUME NEW p PROVE AdHocAggregate(p).shape = p.shape
BY DEF AdHocAggregate

\* A plan that was built, parsed and compiled keeps its filters.
LEMMA PlanKeeps ==
  ASSUME NEW p, Planned(p), Builds(p), NEW q, q = Built(p), QueryParses(q), CompilationOutcome(q) = "ok",
         p.shape \notin {"two_step_aggregate", "named_path_pattern"}
  PROVE  \A f \in ToSet(p.filters) : Stands(f, q)
<1>1. CASE p.shape \in {"vertex_lookup", "single_hop_traversal"}
  <2>1. q = Traversal(p)
    BY <1>1 DEF Built
  <2> QED BY <1>1, <2>1, TraversalKeeps DEF Planned
<1>2. CASE p.shape = "variable_path_traversal"
  <2>1. q = VariablePath(p)
    BY <1>2 DEF Built
  <2> QED BY <1>2, <2>1, VariablePathKeeps DEF Planned
<1>3. CASE p.shape = "metric_aggregate" \/ (p.shape = "top_n" /\ p.metrics # << >>)
  <2>1. q = MetricAggregate(p)
    BY <1>3 DEF Built
  <2> QED BY <1>3, <2>1, MetricKeeps DEF Planned
<1>4. CASE p.shape = "ad_hoc_aggregate" \/ (p.shape = "top_n" /\ p.metrics = << >>)
  <2>1. q = AdHocAggregate(p)
    BY <1>4 DEF Built
  <2> QED BY <1>4, <2>1, AdHocKeeps
<1>5. CASE /\ p.shape \notin {"vertex_lookup", "single_hop_traversal", "variable_path_traversal"}
           /\ p.shape \notin {"metric_aggregate", "ad_hoc_aggregate", "top_n"}
  <2>1. q = AdHocAggregate(p)
    BY <1>5 DEF Built
  <2>2. q.shape = p.shape
    BY <2>1, AdHocShape
  <2>3. SequenceAllowed(q)
    BY DEF QueryParses
  <2>4. FALSE
    BY <1>5, <2>2, <2>3 DEF SequenceAllowed
  <2> QED BY <2>4
<1> QED BY <1>1, <1>2, <1>3, <1>4, <1>5

\* A query of some operations, an ordering and a limit is well formed if these are read.
LEMMA OrderedFormed ==
  ASSUME NEW q, NEW s, IsSequence(s), NEW p, NEW bind, q.ops = s \o SortLimit(p, bind),
         \A o \in ToSet(s) : o.op \notin {"sort", "limit", "variable_path", "use_path_pattern"},
         q.shape # "variable_path_traversal", p.sort # << >> \/ p.limit # 0 => Ordered(q)
  PROVE  Formed(q)
<1> DEFINE tail == SortLimit(p, bind)
<1>1. /\ IsSequence(tail)
      /\ \A o \in ToSet(tail) : (o.op = "sort" /\ p.sort # << >>) \/ (o.op = "limit" /\ o.value = p.limit /\ p.limit # 0)
  BY OrderingsAre
<1> HIDE DEF tail
<1>2. IsSequence(q.ops) /\ ToSet(q.ops) = ToSet(s) \cup ToSet(tail)
  BY <1>1, ConcatElements, ConcatSequence DEF tail
<1>3. ASSUME NEW o \in ToSet(q.ops)
      PROVE  /\ o.op \in {"sort", "limit"} => Ordered(q)
             /\ o.op # "variable_path" /\ o.op # "use_path_pattern"
             /\ o.op = "limit" => o.value = p.limit /\ p.limit # 0
  <2>1. CASE o \in ToSet(s)
    <3>1. o.op \notin {"sort", "limit", "variable_path", "use_path_pattern"}
      BY <2>1
    <3> QED BY <3>1
  <2>2. CASE o \in ToSet(tail)
    <3>1. (o.op = "sort" /\ p.sort # << >>) \/ (o.op = "limit" /\ o.value = p.limit /\ p.limit # 0)
      BY <1>1, <2>2
    <3> QED BY <3>1
  <2> QED BY <1>2, <2>1, <2>2
<1>4. \E n : n # 0 /\ \A o \in ToSet(q.ops) : o.op = "limit" => o.value = n
  <2>1. CASE p.limit = 0
    BY <1>3, <2>1
  <2>2. CASE p.limit # 0
    BY <1>3, <2>2
  <2> QED BY <2>1, <2>2
<1> QED BY <1>2, <1>3, <1>4 DEF Formed

\* An aggregate is one operation, an ordering and a limit.
Aggregates(p) == {TwoStepAggregate(p), MetricAggregate(p), AdHocAggregate(p)}

LEMMA AggregateOps ==
  ASSUME NEW p, NEW q \in Aggregates(p)
  PROVE  \E op, bind : /\ q.ops = <<op>> \o SortLimit(p, bind) /\ q.shape = p.shape
                       /\ op.op \in {"metric_aggregate", "aggregate", "subquery"}
<1>1. CASE q = TwoStepAggregate(p)
  <2> DEFINE op == [op |-> "subquery", bind |-> BindAs(p), group |-> p.group, measures |-> p.measures]
  <2>1. q.ops = <<op>> \o SortLimit(p, BindAs(p)) /\ q.shape = p.shape
    BY <1>1 DEF TwoStepAggregate
  <2>2. op.op = "subquery"
    OBVIOUS
  <2> HIDE DEF op
  <2> QED BY <2>1, <2>2
<1>2. CASE q = MetricAggregate(p)
  <2> DEFINE metric == p.metrics[1]
             op == [op |-> "metric_aggregate", name |-> metric, group |-> p.group,
                    filters |-> FilterItems(p.filters, MetricRoles(metric))]
  <2>1. q.ops = <<op>> \o SortLimit(p, "") /\ q.shape = p.shape
    BY <1>2 DEF MetricAggregate
  <2>2. op.op = "metric_aggregate"
    OBVIOUS
  <2> HIDE DEF op
  <2> QED BY <2>1, <2>2
<1>3. CASE q = AdHocAggregate(p)
  <2> DEFINE op == [op |-> "aggregate", group |-> p.group, measures |-> p.measures]
  <2>1. q.ops = <<op>> \o SortLimit(p, "") /\ q.shape = p.shape
    BY <1>3 DEF AdHocAggregate
  <2>2. op.op = "aggregate"
    OBVIOUS
  <2> HIDE DEF op
  <2> QED BY <2>1, <2>2
<1> QED BY <1>1, <1>2, <1>3 DEF Aggregates

LEMMA TraversalShape == ASSUME NEW p PROVE Traversal(p).shape = p.shape
BY DEF Traversal

\* What the builder makes of a plan is well formed.
LEMMA BuiltFormed ==
  ASSUME NEW p, Planned(p), Builds(p), NEW q, q = Built(p), QueryParses(q)
  PROVE  Formed(q)
<1>1. SortLimitCompiled(p) /\ SequenceAllowed(q)
  BY DEF Builds, QueryParses
<1>2. CASE p.shape \in {"vertex_lookup", "single_hop_traversal"}
  <2>1. q = Traversal(p) /\ IsSequence(p.edges)
    BY <1>2 DEF Built, Planned
  <2>2. PICK hops, bind : /\ IsSequence(hops) /\ \A o \in ToSet(hops) : o.op = "traverse_edge"
                          /\ q.ops = hops \o SortLimit(p, bind)
    BY <2>1, TraversalOps
  <2>3. q.shape = p.shape
    BY <2>1, TraversalShape
  <2>4. p.sort # << >> \/ p.limit # 0 => Ordered(q)
    BY <1>1, <1>2, <2>3 DEF SortLimitCompiled, AggregateShapes, Ordered
  <2>5. \A o \in ToSet(hops) : o.op \notin {"sort", "limit", "variable_path", "use_path_pattern"}
    BY <2>2
  <2> QED BY <1>2, <2>2, <2>3, <2>4, <2>5, OrderedFormed
<1>3. CASE p.shape = "variable_path_traversal"
  <2> DEFINE inside == FilterItems(Selected(p.filters, {i \in DOMAIN p.filters : p.filters[i].prop[1] = p.vertices[2]}),
                                   RolesByOwner(<<<<"start", p.vertices[1]>>, <<"through", p.vertices[2]>>>>))
             op == [op |-> "variable_path", start |-> "start", through |-> "through",
                    filters |-> inside, edges |-> <<p.edges[1].name>>, min |-> 1, max |-> MaxHops]
  <2>1. q.ops = <<op>> /\ q.shape = p.shape
    BY <1>3 DEF Built, VariablePath
  <2>2. op.op = "variable_path" /\ op.max = MaxHops
    OBVIOUS
  <2> HIDE DEF op, inside
  <2>3. IsSequence(q.ops) /\ ToSet(q.ops) = {op}
    BY <2>1, OneSequence
  <2> QED BY <1>3, <2>1, <2>2, <2>3 DEF Formed
<1>4. CASE p.shape = "named_path_pattern"
  <2> DEFINE op == [op |-> "use_path_pattern", name |-> p.patterns[1], params |-> Parameters(p)]
  <2>1. q.ops = <<op>> /\ q.shape = p.shape
    BY <1>4 DEF Built, NamedPath
  <2>2. op.op = "use_path_pattern"
    OBVIOUS
  <2> HIDE DEF op
  <2>3. IsSequence(q.ops) /\ ToSet(q.ops) = {op}
    BY <2>1, OneSequence
  <2> QED BY <1>4, <2>1, <2>2, <2>3 DEF Formed
<1>5. CASE p.shape \notin {"vertex_lookup", "single_hop_traversal", "variable_path_traversal", "named_path_pattern"}
  <2>1. \E op, bind : /\ q.ops = <<op>> \o SortLimit(p, bind) /\ q.shape = p.shape
                      /\ op.op \in {"metric_aggregate", "aggregate", "subquery"}
    <3>1. q \in Aggregates(p)
      BY <1>5 DEF Built, Aggregates
    <3> QED BY <3>1, AggregateOps
  <2>2. PICK op, bind : /\ q.ops = <<op>> \o SortLimit(p, bind) /\ q.shape = p.shape
                        /\ op.op \in {"metric_aggregate", "aggregate", "subquery"}
    BY <2>1
  <2>3. IsSequence(<<op>>) /\ \A o \in ToSet(<<op>>) : o.op \notin {"sort", "limit", "variable_path", "use_path_pattern"}
    BY <2>2, OneSequence
  <2>4. p.sort # << >> \/ p.limit # 0 => Ordered(q)
    <3>1. p.shape \in AggregateShapes \/ (p.sort = << >> /\ p.limit = 0)
      BY <1>1, <1>5 DEF SortLimitCompiled
    <3> QED BY <2>2, <3>1 DEF Ordered
  <2> QED BY <1>5, <2>2, <2>3, <2>4, OrderedFormed
<1> QED BY <1>2, <1>3, <1>4, <1>5

-----------------------------------------------------------------------------
(* What is assembled without a model.                                      *)

\* An induction up to N.
LEMMA Upwards ==
  ASSUME NEW N \in Nat, NEW T, 0 \in T, \A n \in 1..N : n - 1 \in T => n \in T
  PROVE  N \in T
<1> DEFINE missed == {n \in 0..N : n \notin T}
<1> SUFFICES ASSUME missed # {} PROVE FALSE
  OBVIOUS
<1>1. PICK x \in missed : \A y \in missed : x <= y
  <2>1. missed \in SUBSET Nat
    OBVIOUS
  <2> HIDE DEF missed
  <2> QED BY <2>1, Least
<1>2. x \in 1..N /\ x - 1 \in 0..N /\ x - 1 \notin missed
  BY <1>1
<1> QED BY <1>1, <1>2

LEMMA AppendedSequence ==
  ASSUME NEW s, IsSequence(s), NEW x
  PROVE  IsSequence(Append(s, x))
<1>1. s \in Seq(ToSet(s) \cup {x}) /\ x \in ToSet(s) \cup {x}
  BY DEF IsSequence
<1>2. Append(s, x) \in Seq(ToSet(s) \cup {x})
  BY <1>1
<1> QED BY <1>2, SequenceOf

LEMMA ExtendedKeeps ==
  ASSUME NEW found, IsSequence(found.contexts), NEW path, NEW edges
  PROVE  IsSequence(Extended(found, path, edges).contexts)
<1>1. \E reached : Extended(found, path, edges) = ExtendedTo(found, reached)
  BY DEF Extended, ExtendedOver
<1>2. ASSUME NEW reached PROVE IsSequence(ExtendedTo(found, reached).contexts)
  <2>1. CASE reached = << >>
    BY <2>1 DEF ExtendedTo
  <2>2. CASE reached # << >>
    <3>1. ExtendedTo(found, reached).contexts = Append(found.contexts, reached[1][2][1])
      BY <2>2 DEF ExtendedTo
    <3> QED BY <3>1, AppendedSequence
  <2> QED BY <2>1, <2>2
<1> QED BY <1>1, <1>2

\* The rounds in which a path is continued.
LEMMA PathRounds ==
  ASSUME NEW start, IsSequence(start.contexts), NEW path, NEW edges
  PROVE  IsSequence(PathFrom(start, path, edges))
<1> DEFINE N == Cardinality(Vertices)
           Round(h, n) == IF n = 0 THEN start ELSE Extended(h[n - 1], path, edges)
           Rounds(h, n) == h = [k \in 0..n |-> Round(h, k)]
           after == CHOOSE h : Rounds(h, N)
<1>1. N \in Nat
  BY ModelAssumption, FS_CardinalityType DEF ModelIsValid
<1>2. Rounds(after, N)
  <2> DEFINE T == {n \in 0..N : \E h : Rounds(h, n)}
  <2>1. 0 \in T
    <3> DEFINE h == [k \in 0..0 |-> start]
    <3>1. Rounds(h, 0)
      OBVIOUS
    <3>2. 0 \in 0..N
      BY <1>1
    <3> HIDE DEF h, Rounds
    <3> QED BY <3>1, <3>2
  <2>2. ASSUME NEW n \in 1..N, n - 1 \in T PROVE n \in T
    <3>1. PICK h : Rounds(h, n - 1)
      BY <2>2
    <3> DEFINE g == [k \in 0..n |-> IF k = n THEN Extended(h[n - 1], path, edges) ELSE h[k]]
    <3>2. n \in 0..N /\ n # 0 /\ n - 1 \in 0..n /\ n - 1 # n /\ n - 1 \in 0..(n - 1)
      BY <1>1
    <3>3. ASSUME NEW k \in 0..n PROVE g[k] = Round(g, k)
      <4>1. CASE k = n
        <5>1. g[k] = Extended(h[n - 1], path, edges) /\ g[n - 1] = h[n - 1]
          BY <3>2, <4>1
        <5> HIDE DEF g
        <5> QED BY <3>2, <4>1, <5>1
      <4>2. CASE k # n
        <5>1. k \in 0..(n - 1) /\ (k # 0 => k - 1 \in 0..n /\ k - 1 # n)
          BY <1>1, <4>2
        <5>2. g[k] = h[k] /\ (k # 0 => g[k - 1] = h[k - 1])
          BY <4>2, <5>1
        <5>3. h[k] = Round(h, k)
          BY <3>1, <5>1
        <5> HIDE DEF g
        <5> QED BY <5>2, <5>3
      <4> QED BY <4>1, <4>2
    <3>4. g = [k \in 0..n |-> g[k]]
      OBVIOUS
    <3> HIDE DEF g
    <3>5. Rounds(g, n)
      BY <3>3, <3>4
    <3> QED BY <3>2, <3>5
  <2> HIDE DEF T, N
  <2>3. N \in T
    BY <1>1, <2>1, <2>2, Upwards
  <2>4. \E h : Rounds(h, N)
    BY <2>3 DEF T
  <2> HIDE DEF Rounds
  <2> QED BY <2>4
<1>3. PathFrom(start, path, edges) = << >> \/ PathFrom(start, path, edges) = HopsAlong(after[N], edges)
  BY DEF PathFrom
<1> HIDE DEF after, N
<1>4. \A n \in 0..N : after[n] = Round(after, n)
  BY <1>2
<1>5. IsSequence(after[N].contexts)
  <2> DEFINE T == {n \in 0..N : IsSequence(after[n].contexts)}
  <2>1. 0 \in T
    BY <1>1, <1>4
  <2>2. ASSUME NEW n \in 1..N, n - 1 \in T PROVE n \in T
    <3>1. n \in 0..N /\ n # 0 /\ IsSequence(after[n - 1].contexts)
      BY <1>1, <2>2
    <3>2. after[n] = Extended(after[n - 1], path, edges)
      BY <1>4, <3>1
    <3> QED BY <3>1, <3>2, ExtendedKeeps
  <2> HIDE DEF T
  <2>3. N \in T
    BY <1>1, <2>1, <2>2, Upwards
  <2> QED BY <2>3 DEF T
<1>6. IsSequence(HopsAlong(after[N], edges))
  <2> DEFINE found == after[N]
             hops == HopsAlong(found, edges)
  <2>1. hops = << >> \/ hops = [i \in DOMAIN found.contexts |-> hops[i]]
    BY DEF HopsAlong
  <2> HIDE DEF hops, found
  <2>2. IsSequence(found.contexts)
    BY <1>5 DEF found
  <2>3. IsSequence(hops)
    BY <2>1, <2>2, EmptySequence, MappedSequence
  <2> QED BY <2>3 DEF hops, found
<1> QED BY <1>3, <1>6, EmptySequence

\* The vertices a path names are finitely many, and its hops a sequence.
LEMMA PathSequence ==
  ASSUME NEW of, NEW among, NEW owners
  PROVE  IsSequence(PathOf(of, among, owners))
<1> DEFINE path == PathWords(of)
           known == VerticesAmong(among)
           named == NamedOnPath(path, known)
           meant == {v \in known : PlaceOnPath(v, path) # 0}
           start == StartOf(path, named, SelectSeq(owners, LAMBDA o : o \in known))
           edges == {e \in Edges : <<"edge", e>> \in among /\ {Ends[e].from, Ends[e].to} \subseteq known}
<1>1. PathOf(of, among, owners) = PathFrom(start, path, edges)
  BY DEF PathOf
<1>2. Cardinality(meant) \in Nat
  <2>1. meant \subseteq Vertices /\ IsFiniteSet(Vertices)
    BY ModelAssumption DEF ModelIsValid, VerticesAmong
  <2> HIDE DEF meant
  <2> QED BY <2>1, FS_Subset, FS_CardinalityType
<1>3. DOMAIN named = 1..Cardinality(meant)
  BY DEF NamedOnPath
<1>4. start.vertices = named /\ start.contexts = [i \in 1..(Len(named) - 1) |-> Segment(path, named[i], named[i + 1])]
  BY DEF StartOf
<1> HIDE DEF meant, path, named, start, edges, known
<1>5. Len(named) \in Nat
  BY <1>2, <1>3
<1>6. CASE Len(named) = 0
  <2>1. PathFrom(start, path, edges) = << >>
    BY <1>4, <1>6 DEF PathFrom
  <2> QED BY <1>1, <2>1, EmptySequence
<1>7. CASE Len(named) # 0
  <2>1. IsSequence(start.contexts)
    <3> DEFINE s == start.contexts
               N == Len(named) - 1
    <3>1. N \in Nat /\ s = [i \in 1..N |-> s[i]]
      BY <1>4, <1>5, <1>7
    <3> HIDE DEF s, N
    <3>2. \A i \in 1..N : s[i] \in ToSet(s)
      BY <3>1 DEF ToSet
    <3>3. s \in Seq(ToSet(s))
      BY <3>1, <3>2
    <3> QED BY <3>3 DEF IsSequence, s
  <2> QED BY <1>1, <2>1, PathRounds
<1> QED BY <1>6, <1>7

LEMMA PiecesFormed ==
  ASSUME NEW q, IsSequence(q.ops), NEW n, n # 0,
         q.shape \notin {"variable_path_traversal", "named_path_pattern"},
         \A o \in ToSet(q.ops) :
           \/ o.op \in {"traverse_edge", "aggregate"}
           \/ Ordered(q) /\ (o.op = "sort" \/ (o.op = "limit" /\ o.value = n))
  PROVE  Formed(q)
<1>1. ASSUME NEW o \in ToSet(q.ops)
      PROVE  /\ o.op \in {"sort", "limit"} => Ordered(q)
             /\ o.op # "variable_path" /\ o.op # "use_path_pattern"
             /\ o.op = "limit" => o.value = n
  <2>1. CASE o.op \in {"traverse_edge", "aggregate"}
    BY <2>1
  <2>2. CASE Ordered(q) /\ (o.op = "sort" \/ (o.op = "limit" /\ o.value = n))
    BY <2>2
  <2> QED BY <2>1, <2>2
<1> QED BY <1>1 DEF Formed

LEMMA VertexReadFormed ==
  ASSUME NEW of, NEW among, NEW found, NEW filtered, NEW q, q = VertexRead(of, among, found, filtered), q # Nothing
  PROVE  Formed(q)
<1>1. \E vertex, literals, items : q = VertexShown(of, among, vertex, literals, items)
  BY DEF VertexRead, VertexReadOf, VertexFiltered
<1>2. PICK vertex, literals, items : q = VertexShown(of, among, vertex, literals, items)
  BY <1>1
<1> DEFINE limit == LimitAsked(of)
           op == [op |-> "limit", value |-> limit]
<1>3. q.shape = "vertex_lookup" /\ q.ops = IF limit = 0 THEN << >> ELSE <<op>>
  BY <1>2 DEF VertexShown, VertexQuery
<1>4. op.op = "limit" /\ op.value = limit
  OBVIOUS
<1> HIDE DEF op, limit
<1>5. Ordered(q) /\ q.shape \notin {"variable_path_traversal", "named_path_pattern"}
  BY <1>3 DEF Ordered
<1>6. CASE limit = 0
  <2>1. IsSequence(q.ops) /\ ToSet(q.ops) = {}
    BY <1>3, <1>6, EmptySequence DEF ToSet
  <2> QED BY <1>5, <2>1, PiecesFormed
<1>7. CASE limit # 0
  <2>1. IsSequence(q.ops) /\ ToSet(q.ops) = {op}
    BY <1>3, <1>7, OneSequence
  <2> QED BY <1>4, <1>5, <1>7, <2>1, PiecesFormed
<1> QED BY <1>6, <1>7

LEMMA VertexCountedFormed ==
  ASSUME NEW of, NEW among, NEW found, NEW q, q = VertexCounted(of, among, found), q # Nothing
  PROVE  Formed(q)
<1>1. \E vertex, measures, filled : q = Counted(of, among, found, vertex, measures, filled)
  BY DEF VertexCounted, CountedOf, CountedBy
<1>2. PICK vertex, measures, filled : q = Counted(of, among, found, vertex, measures, filled)
  BY <1>1
<1> DEFINE op == [op |-> "aggregate", group |-> << >>, measures |-> measures]
<1>3. q.shape = "ad_hoc_aggregate" /\ q.ops = <<op>>
  <2>1. \E filters, shown : q = VertexQuery("ad_hoc_aggregate", vertex, <<op>>, filters, shown)
    BY <1>2, Zenon DEF Counted
  <2> HIDE DEF op
  <2> QED BY <2>1 DEF VertexQuery
<1>4. op.op = "aggregate"
  OBVIOUS
<1> HIDE DEF op
<1>5. IsSequence(q.ops) /\ ToSet(q.ops) = {op}
  BY <1>3, OneSequence
<1> QED BY <1>3, <1>4, <1>5, PiecesFormed

LEMMA PathQueryOps ==
  ASSUME NEW path, IsSequence(path), NEW tail, IsSequence(tail), NEW q, q.ops = HopOps(path) \o tail
  PROVE  IsSequence(q.ops) /\ \A o \in ToSet(q.ops) : o.op = "traverse_edge" \/ o \in ToSet(tail)
<1> DEFINE hops == HopOps(path)
<1>1. hops = [i \in DOMAIN path |-> hops[i]] /\ \A i \in DOMAIN path : hops[i].op = "traverse_edge"
  BY DEF HopOps
<1> HIDE DEF hops
<1>2. IsSequence(hops) /\ DOMAIN hops = DOMAIN path
  BY <1>1, MappedSequence
<1>3. \A o \in ToSet(hops) : o.op = "traverse_edge"
  BY <1>1, <1>2 DEF ToSet
<1>4. IsSequence(q.ops) /\ ToSet(q.ops) = ToSet(hops) \cup ToSet(tail)
  BY <1>2, ConcatSequence, ConcatElements DEF hops
<1> QED BY <1>3, <1>4

LEMMA PathReadFormed ==
  ASSUME NEW of, NEW among, NEW found, NEW filtered, NEW q, q = PathRead(of, among, found, filtered), q # Nothing
  PROVE  Formed(q)
<1>1. \E items, filters : q = ReadAlong(of, among, items, filters, PathOf(of, among, OwnersShown(items)))
  BY DEF PathRead, ReadAs, ReadOf
<1>2. PICK items, filters : q = ReadAlong(of, among, items, filters, PathOf(of, among, OwnersShown(items)))
  BY <1>1
<1> DEFINE path == PathOf(of, among, OwnersShown(items))
<1>3. q = ReadAlong(of, among, items, filters, path)
  BY <1>2
<1>4. IsSequence(path)
  BY PathSequence
<1> HIDE DEF path
<1>5. q.shape = "single_hop_traversal" /\ q.ops = HopOps(path) \o << >>
  BY <1>3 DEF ReadAlong, PathQuery
<1>6. IsSequence(q.ops) /\ \A o \in ToSet(q.ops) : o.op = "traverse_edge" \/ o \in ToSet(<< >>)
  BY <1>4, <1>5, EmptySequence, PathQueryOps
<1>7. \A o \in ToSet(q.ops) : o.op = "traverse_edge"
  BY <1>6 DEF ToSet
<1>8. \A o \in ToSet(q.ops) : \/ o.op \in {"traverse_edge", "aggregate"}
                              \/ Ordered(q) /\ (o.op = "sort" \/ (o.op = "limit" /\ o.value = 1))
  BY <1>7
<1> HIDE DEF Formed
<1> QED BY <1>5, <1>6, <1>8, PiecesFormed

LEMMA ThreeSequence == \A a, b, c : IsSequence(<<a, b, c>>) /\ ToSet(<<a, b, c>>) = {a, b, c}
<1> SUFFICES ASSUME NEW a, NEW b, NEW c PROVE IsSequence(<<a, b, c>>) /\ ToSet(<<a, b, c>>) = {a, b, c}
  OBVIOUS
<1>1. <<a, b, c>> \in Seq({a, b, c})
  OBVIOUS
<1>2. DOMAIN <<a, b, c>> = {1, 2, 3} /\ <<a, b, c>>[1] = a /\ <<a, b, c>>[2] = b /\ <<a, b, c>>[3] = c
  OBVIOUS
<1> QED BY <1>1, <1>2, SequenceOf DEF ToSet

LEMMA PathRankedFormed ==
  ASSUME NEW of, NEW among, NEW q, q = PathRanked(of, among), q # Nothing
  PROVE  Formed(q)
<1>1. \E group, measured, owners : q = RankedAlong(of, among, group, measured, PathOf(of, among, owners))
  BY DEF PathRanked, RankedIn, RankedOf, RankedBy
<1>2. PICK group, measured, owners : q = RankedAlong(of, among, group, measured, PathOf(of, among, owners))
  BY <1>1
<1> DEFINE path == PathOf(of, among, owners)
<1>3. q = RankedAlong(of, among, group, measured, path)
  BY <1>2
<1>4. IsSequence(path)
  BY PathSequence
<1> HIDE DEF path
<1>5. \E a, b, c : /\ q.shape = "top_n" /\ q.ops = HopOps(path) \o <<a, b, c>>
                   /\ a.op = "aggregate" /\ b.op = "sort" /\ c.op = "limit" /\ c.value # 0
  <2> DEFINE roles == RolesOn(path)
             asked == Requirements(of)
             alias == <<Snake[measured[1]], "count">>
             prop == group[1]
             a == [op |-> "aggregate",
                   group |-> <<[form |-> "full", alias |-> PropertyAlias(prop), target |-> roles[prop[1]], prop |-> prop]>>,
                   measures |-> <<[form |-> "full", alias |-> alias, function |-> "count", target |-> roles[measured[1]], prop |-> measured]>>]
             b == [op |-> "sort", by |-> <<[source |-> <<"measure", alias>>, direction |-> asked.direction]>>]
             c == [op |-> "limit", value |-> asked.limit]
  <2>1. asked.limit # 0 /\ \E filters, shown : q = PathQuery("top_n", path, <<a, b, c>>, filters, shown)
    BY <1>3 DEF RankedAlong
  <2>2. a.op = "aggregate" /\ b.op = "sort" /\ c.op = "limit" /\ c.value = asked.limit
    OBVIOUS
  <2> HIDE DEF a, b, c, asked, alias, prop, roles
  <2>3. q.shape = "top_n" /\ q.ops = HopOps(path) \o <<a, b, c>>
    BY <2>1 DEF PathQuery
  <2> QED BY <2>1, <2>2, <2>3
<1>6. PICK a, b, c : /\ q.shape = "top_n" /\ q.ops = HopOps(path) \o <<a, b, c>>
                     /\ a.op = "aggregate" /\ b.op = "sort" /\ c.op = "limit" /\ c.value # 0
  BY <1>5
<1>7. IsSequence(q.ops) /\ \A o \in ToSet(q.ops) : o.op = "traverse_edge" \/ o \in {a, b, c}
  <2> DEFINE tail == <<a, b, c>>
  <2>1. IsSequence(tail) /\ ToSet(tail) = {a, b, c}
    BY ThreeSequence
  <2>2. q.ops = HopOps(path) \o tail
    BY <1>6
  <2> HIDE DEF tail
  <2> QED BY <1>4, <2>1, <2>2, PathQueryOps
<1>8. Ordered(q)
  BY <1>6 DEF Ordered, AggregateShapes
<1>9. \A o \in ToSet(q.ops) : \/ o.op \in {"traverse_edge", "aggregate"}
                              \/ Ordered(q) /\ (o.op = "sort" \/ (o.op = "limit" /\ o.value = c.value))
  BY <1>6, <1>7, <1>8
<1> QED BY <1>6, <1>7, <1>9, PiecesFormed

\* What the assembler writes is well formed.
LEMMA AssembledFormed ==
  ASSUME NEW of, NEW among, NEW found, Assembled(of, among, found) # Nothing
  PROVE  Formed(Assembled(of, among, found))
<1> DEFINE shape == ShapeOf(of)
           q == Assembled(of, among, found)
<1>1. \/ \E filtered : q = VertexRead(of, among, found, filtered)
      \/ q = VertexCounted(of, among, found)
      \/ \E filtered : q = PathRead(of, among, found, filtered)
      \/ q = PathRanked(of, among)
  <2>1. shape \in {"F1", "F2"} => q = VertexRead(of, among, found, shape = "F2")
    BY DEF Assembled
  <2>2. shape = "F3" => q = VertexCounted(of, among, found)
    BY DEF Assembled
  <2>3. shape \in {"F4", "F5"} => q = PathRead(of, among, found, shape = "F5")
    BY DEF Assembled
  <2>4. shape = "F6" => q = PathRanked(of, among)
    BY DEF Assembled
  <2>5. shape \in {"F1", "F2", "F3", "F4", "F5", "F6"}
    BY DEF Assembled
  <2> HIDE DEF shape, q
  <2> QED BY <2>1, <2>2, <2>3, <2>4, <2>5
<1> HIDE DEF q
<1>2. q # Nothing
  BY DEF q
<1>3. Formed(q)
  BY <1>1, <1>2, VertexReadFormed, VertexCountedFormed, PathReadFormed, PathRankedFormed
<1> QED BY <1>3 DEF q

-----------------------------------------------------------------------------
(* Columns.  Each item the builder makes has a target that the parser has  *)
(* compared with the query's vertices, and MATCH binds all of these.       *)

\* A query returns what it shows.
LEMMA ReturnsAre ==
  ASSUME NEW q, q.shape # "named_path_pattern"
  PROVE  /\ DOMAIN Returns(q) = DOMAIN q.projection
         /\ \A i \in DOMAIN q.projection : Returns(q)[i].expr = ItemExpression(q, q.projection[i])
<1> DEFINE aliases == ProjectionAliases(q.projection)
<1>1. Returns(q) = [i \in DOMAIN q.projection |-> [expr |-> ItemExpression(q, q.projection[i]), alias |-> aliases[i]]]
  BY DEF Returns
<1> HIDE DEF aliases
<1> QED BY <1>1

\* What is shown of a vertex is read from a role of that vertex.
ReadsOf(q, p) ==
  \E r \in ToSet(Returns(q)) :
    r.expr.form = "property" /\ Labels(q)[r.expr.role] = p.prop[1] /\ r.expr.name = <<p.prop[2]>>

LEMMA ShownKept ==
  ASSUME NEW q, q.shape # "named_path_pattern", NEW shown, NEW roles, q.projection = ProjectionItems(shown, roles),
         ProjectionValid(q), BoundLabels(q), NEW p \in ToSet(shown), p.kind = "property",
         \A x \in ToSet(q.projection) : x.target \in DOMAIN q.vertices => x.target \in DOMAIN Labels(q)
  PROVE  ReadsOf(q, p)
<1>1. PICK i \in DOMAIN shown : shown[i] = p
  BY DEF ToSet
<1> DEFINE x == q.projection[i]
<1>2. /\ DOMAIN q.projection = DOMAIN shown /\ x.kind = "property" /\ x.prop = p.prop
  <2> DEFINE item(s) == IF s.kind = "source" THEN s
                        ELSE [kind |-> s.kind, prop |-> s.prop, source |-> s.source, terms |-> s.terms,
                              target |-> IF s.kind = "property" /\ s.target \in Range(roles) THEN s.target ELSE roles[s.prop[1]],
                              alias |-> IF s.alias # << >> THEN s.alias
                                        ELSE IF s.kind = "full" THEN <<Snake[s.prop[1]]>> ELSE <<s.prop[2]>>]
  <2>1. q.projection = [k \in DOMAIN shown |-> item(shown[k])]
    BY DEF ProjectionItems, MapSeq
  <2>2. item(p).kind = "property" /\ item(p).prop = p.prop
    OBVIOUS
  <2> HIDE DEF item
  <2> QED BY <1>1, <2>1, <2>2
<1>3. x \in ToSet(q.projection)
  BY <1>1, <1>2 DEF ToSet
<1>4. x.target \in DOMAIN q.vertices /\ q.vertices[x.target] = x.prop[1]
  BY <1>2, <1>3 DEF ProjectionValid
<1>5. Labels(q)[x.target] = p.prop[1]
  BY <1>2, <1>3, <1>4 DEF BoundLabels
<1>6. ItemExpression(q, x) = PropertyOf(x.target, x.prop[2])
  BY <1>2 DEF ItemExpression
<1> DEFINE e == PropertyOf(x.target, x.prop[2])
<1>7. e.form = "property" /\ e.role = x.target /\ e.name = <<x.prop[2]>>
  BY DEF PropertyOf, Expr
<1> HIDE DEF e, x
<1>8. Returns(q)[i] \in ToSet(Returns(q)) /\ Returns(q)[i].expr = e
  <2>1. i \in DOMAIN Returns(q) /\ Returns(q)[i].expr = ItemExpression(q, x)
    BY <1>1, <1>2, ReturnsAre DEF x
  <2> QED BY <1>6, <2>1 DEF ToSet, e
<1> QED BY <1>2, <1>5, <1>7, <1>8 DEF ReadsOf

LEMMA VariablePathColumns ==
  ASSUME NEW p, NEW q, q = VariablePath(p), p.shape = "variable_path_traversal", QueryParses(q)
  PROVE  \A s \in ToSet(p.projection) : s.kind = "property" => ReadsOf(q, s)
<1>1. PICK roles, op : /\ q.projection = ProjectionItems(p.projection, roles) /\ q.ops = <<op>> /\ q.shape = p.shape
                       /\ op.op = "variable_path" /\ op.start = "start" /\ op.through = "through"
                       /\ DOMAIN q.vertices = {"start", "through"}
  <2> DEFINE bound == <<<<"start", p.vertices[1]>>, <<"through", p.vertices[2]>>>>
             roles == RolesByOwner(bound)
             op == [op |-> "variable_path", start |-> "start", through |-> "through",
                    filters |-> FilterItems(Selected(p.filters, {i \in DOMAIN p.filters : p.filters[i].prop[1] = p.vertices[2]}), roles),
                    edges |-> <<p.edges[1].name>>, min |-> 1, max |-> MaxHops]
  <2>1. /\ q.projection = ProjectionItems(p.projection, roles) /\ q.ops = <<op>> /\ q.shape = p.shape
        /\ q.vertices = VerticesByRole(bound)
    BY DEF VariablePath
  <2>2. op.op = "variable_path" /\ op.start = "start" /\ op.through = "through"
    OBVIOUS
  <2>3. {b[1] : b \in ToSet(bound)} = {"start", "through"}
    <3>1. ToSet(bound) = {<<"start", p.vertices[1]>>, <<"through", p.vertices[2]>>}
      BY DEF ToSet
    <3> QED BY <3>1
  <2>4. DOMAIN VerticesByRole(bound) = {"start", "through"}
    BY <2>3 DEF VerticesByRole
  <2> HIDE DEF op, roles, bound
  <2> QED BY <2>1, <2>2, <2>4
<1>2. ToSet(q.ops) = {op}
  BY <1>1, OneSequence
<1>3. ~IsMetric(q) /\ ~IsChain(q) /\ PrimaryOf(q) = op
  BY <1>1, <1>2 DEF IsMetric, IsChain, PrimaryOf
<1>4. BoundLabels(q) /\ DOMAIN Labels(q) = {"start", "through"}
  BY <1>1, <1>3 DEF BoundLabels, Labels
<1>5. ProjectionValid(q) /\ q.shape # "named_path_pattern"
  BY <1>1 DEF QueryParses
<1> QED BY <1>1, <1>4, <1>5, ShownKept

LEMMA TraversalShows ==
  ASSUME NEW p, p.projection # << >>
  PROVE  \E roles : Traversal(p).projection = ProjectionItems(p.projection, roles)
<1>1. Traversal(p).projection = ProjectionItems(OrId(p.projection, Last(TraversalRoles(p))[2]), RolesByOwner(TraversalRoles(p)))
  BY DEF Traversal
<1>2. \A v : OrId(p.projection, v) = p.projection
  BY DEF OrId
<1> QED BY <1>1, <1>2

LEMMA MetricShows ==
  ASSUME NEW p, p.projection # << >>
  PROVE  MetricAggregate(p).projection = p.projection
<1>1. \E other : MetricAggregate(p).projection = IF p.projection # << >> THEN p.projection ELSE other
  BY DEF MetricAggregate
<1> QED BY <1>1

LEMMA AdHocShows ==
  ASSUME NEW p
  PROVE  \E bind : AdHocAggregate(p).projection = AggregateProjection(p, bind)
<1>1. AdHocAggregate(p).projection = AggregateProjection(p, "")
  BY DEF AdHocAggregate
<1> QED BY <1>1, Zenon

\* The hops of a traversal bind every role that its vertices have.
BoundTargets(q) == \A x \in ToSet(q.projection) : x.target \in DOMAIN q.vertices => x.target \in DOMAIN Labels(q)

LEMMA TraversalBinds ==
  ASSUME NEW p, NEW q, q = Traversal(p), p.shape \in {"vertex_lookup", "single_hop_traversal"}, Builds(p), IsSequence(p.edges)
  PROVE  ~IsMetric(q) /\ (IsChain(q) => p.shape = "single_hop_traversal") /\ BoundLabels(q) /\ BoundTargets(q)
<1> DEFINE edges == IF p.shape = "vertex_lookup" THEN << >> ELSE p.edges
           bound == TraversalRoles(p)
<1>1. q.shape = p.shape /\ q.vertices = VerticesByRole(bound)
  BY DEF Traversal
<1>3. PICK hops, bind :
        /\ IsSequence(hops) /\ DOMAIN hops = DOMAIN edges /\ q.ops = hops \o SortLimit(p, bind)
        /\ \A o \in ToSet(hops) : o.op = "traverse_edge"
        /\ \A i \in DOMAIN edges : hops[i].from = bound[i][1] /\ hops[i].to = bound[i + 1][1]
  BY TraversalOps
<1> HIDE DEF edges, bound
<1>4. /\ \A i \in DOMAIN hops : hops[i] \in ToSet(q.ops)
      /\ \A o \in ToSet(q.ops) : o \in ToSet(hops) \/ o.op \in {"sort", "limit"}
  BY <1>3, OrderingsLast
<1>5. ~IsMetric(q)
  BY <1>3, <1>4 DEF IsMetric
<1>6. DOMAIN q.vertices = {bound[i][1] : i \in DOMAIN bound}
  BY <1>1 DEF VerticesByRole, ToSet
<1>7. CASE p.shape = "vertex_lookup"
  <2>1. DOMAIN q.vertices = {"target"}
    <3>1. bound = [i \in DOMAIN <<"target">> |-> <<<<"target">>[i], p.vertices[i]>>]
      BY <1>7 DEF TraversalRoles, bound
    <3>2. DOMAIN bound = {1} /\ bound[1][1] = "target"
      BY <3>1
    <3> QED BY <1>6, <3>2
  <2>0. ~IsChain(q)
    <3>1. ToSet(hops) = {}
      BY <1>3, <1>7 DEF edges, ToSet
    <3> QED BY <1>4, <3>1 DEF IsChain
  <2>2. BoundLabels(q) /\ \A x \in ToSet(q.projection) : x.target # "" => x.target \in DOMAIN Labels(q)
    BY <1>1, <1>5, <1>7, <2>0 DEF BoundLabels, Labels
  <2>3. \A x \in ToSet(q.projection) : x.target \in DOMAIN q.vertices => x.target \in DOMAIN Labels(q)
    BY <2>1, <2>2
  <2> QED BY <1>5, <2>0, <2>2, <2>3 DEF BoundTargets
<1>8. CASE p.shape = "single_hop_traversal"
  <2>1. edges = p.edges /\ edges # << >> /\ Len(edges) \in Nat /\ DOMAIN edges = 1..Len(edges) /\ edges \in Seq(ToSet(edges))
    BY <1>8, SequenceIs DEF Builds, TraversalBuilds, edges
  <2>2. Len(edges) >= 1
    BY <2>1
  <2>3. DOMAIN bound = 1..(Len(edges) + 1)
    <3>1. CASE Len(edges) = 1
      <4>1. bound = [i \in DOMAIN <<"start", "end">> |-> <<<<"start", "end">>[i], p.vertices[i]>>]
        BY <1>8, <2>1, <3>1 DEF TraversalRoles, bound
      <4>2. DOMAIN bound = 1..2
        BY <4>1
      <4> QED BY <3>1, <4>2
    <3>2. CASE Len(edges) # 1
      <4> DEFINE names == [i \in 1..(Len(edges) + 1) |-> ChainRoles[i]]
      <4>1. bound = [i \in DOMAIN names |-> <<names[i], p.vertices[i]>>]
        BY <1>8, <2>1, <3>2 DEF TraversalRoles, bound
      <4> QED BY <4>1
    <3> QED BY <3>1, <3>2
  <2>4. ToSet(HopsOf(q)) = {o \in ToSet(q.ops) : o.op = "traverse_edge"}
    <3>1. IsSequence(SortLimit(p, bind))
      BY OrderingsAre
    <3>2. IsSequence(q.ops)
      BY <1>3, <3>1, ConcatSequence
    <3> QED BY <3>2, OpsAre DEF HopsOf
  <2>5. \A i \in DOMAIN edges : hops[i] \in ToSet(HopsOf(q))
    <3>1. \A i \in DOMAIN edges : hops[i] \in ToSet(hops)
      BY <1>3 DEF ToSet
    <3> QED BY <1>3, <1>4, <2>4, <3>1
  <2>6. IsChain(q)
    <3>1. 1 \in DOMAIN edges
      BY <2>1, <2>2
    <3> QED BY <1>3, <1>4, <3>1 DEF IsChain, ToSet
  <2>7. BoundLabels(q) /\ DOMAIN Labels(q) = UNION {{h.from, h.to} : h \in ToSet(HopsOf(q))}
    BY <1>1, <1>5, <1>8, <2>6 DEF BoundLabels, Labels
  <2>8. ASSUME NEW i \in DOMAIN bound PROVE bound[i][1] \in DOMAIN Labels(q)
    <3>1. CASE i <= Len(edges)
      <4>1. i \in DOMAIN edges
        BY <2>1, <2>3, <3>1
      <4> QED BY <1>3, <2>5, <2>7, <4>1
    <3>2. CASE ~(i <= Len(edges))
      <4>1. i - 1 \in DOMAIN edges /\ (i - 1) + 1 = i
        BY <2>1, <2>2, <2>3, <3>2
      <4>2. hops[i - 1].to = bound[i][1]
        BY <1>3, <4>1
      <4> QED BY <2>5, <2>7, <4>1, <4>2
    <3> QED BY <3>1, <3>2
  <2>9. DOMAIN q.vertices \subseteq DOMAIN Labels(q)
    BY <1>6, <2>8
  <2> QED BY <1>5, <1>8, <2>7, <2>9 DEF BoundTargets
<1> QED BY <1>7, <1>8

LEMMA TraversalColumns ==
  ASSUME NEW p, NEW q, q = Traversal(p), p.shape \in {"vertex_lookup", "single_hop_traversal"}, Builds(p),
         IsSequence(p.edges), QueryParses(q), p.projection # << >>
  PROVE  \A s \in ToSet(p.projection) : s.kind = "property" => ReadsOf(q, s)
<1>1. PICK roles : q.projection = ProjectionItems(p.projection, roles)
  BY TraversalShows
<1>2. ProjectionValid(q) /\ q.shape # "named_path_pattern"
  BY TraversalShape DEF QueryParses
<1>3. BoundLabels(q) /\ \A x \in ToSet(q.projection) : x.target \in DOMAIN q.vertices => x.target \in DOMAIN Labels(q)
  BY TraversalBinds DEF BoundTargets
<1> QED BY <1>1, <1>2, <1>3, ShownKept

\* Every shape shows as many columns as its plan.
LEMMA BuiltColumns ==
  ASSUME NEW p, NEW q, q = Built(p), p.shape # "named_path_pattern", p.projection # << >>
  PROVE  DOMAIN q.projection = DOMAIN p.projection
<1>1. \A roles : DOMAIN ProjectionItems(p.projection, roles) = DOMAIN p.projection
  BY DEF ProjectionItems, MapSeq
<1>2. \A bind : DOMAIN AggregateProjection(p, bind) = DOMAIN p.projection
  BY DEF AggregateProjection, MapSeq
<1>3. CASE q = Traversal(p)
  <2>1. \E roles : q.projection = ProjectionItems(p.projection, roles)
    BY <1>3, TraversalShows
  <2> QED BY <1>1, <2>1
<1>4. CASE q = VariablePath(p)
  <2>1. \E roles : q.projection = ProjectionItems(p.projection, roles)
    BY <1>4 DEF VariablePath
  <2> QED BY <1>1, <2>1
<1>5. CASE q = MetricAggregate(p)
  BY <1>5, MetricShows
<1>6. CASE q = AdHocAggregate(p)
  <2>1. \E bind : q.projection = AggregateProjection(p, bind)
    BY <1>6, AdHocShows
  <2> QED BY <1>2, <2>1
<1>7. CASE q = TwoStepAggregate(p)
  <2>1. \E bind : q.projection = AggregateProjection(p, bind)
    BY <1>7 DEF TwoStepAggregate
  <2> QED BY <1>2, <2>1
<1> QED BY <1>3, <1>4, <1>5, <1>6, <1>7 DEF Built

LEMMA BuiltShape ==
  ASSUME NEW p, NEW q, q = Built(p)
  PROVE  q.shape = p.shape
<1>1. Traversal(p).shape = p.shape /\ AdHocAggregate(p).shape = p.shape
  BY TraversalShape, AdHocShape
<1>2. VariablePath(p).shape = p.shape /\ NamedPath(p).shape = p.shape
  BY DEF VariablePath, NamedPath
<1>3. MetricAggregate(p).shape = p.shape /\ TwoStepAggregate(p).shape = p.shape
  BY DEF MetricAggregate, TwoStepAggregate
<1> QED BY <1>1, <1>2, <1>3 DEF Built

LEMMA PlanColumns ==
  ASSUME NEW p, Planned(p), Builds(p), NEW q, q = Built(p), QueryParses(q), p.shape # "named_path_pattern", p.projection # << >>
  PROVE  /\ DOMAIN Returns(q) = DOMAIN p.projection
         /\ p.shape \notin AggregateShapes => \A s \in ToSet(p.projection) : s.kind = "property" => ReadsOf(q, s)
<1>1. q.shape = p.shape /\ DOMAIN Returns(q) = DOMAIN p.projection
  BY BuiltShape, BuiltColumns, ReturnsAre
<1>2. CASE p.shape \in {"vertex_lookup", "single_hop_traversal"}
  <2>1. q = Traversal(p)
    BY <1>2 DEF Built
  <2> QED BY <1>1, <1>2, <2>1, TraversalColumns DEF Planned
<1>3. CASE p.shape = "variable_path_traversal"
  <2>1. q = VariablePath(p)
    BY <1>3 DEF Built
  <2> QED BY <1>1, <1>3, <2>1, VariablePathColumns
<1>4. CASE p.shape \in AggregateShapes
  BY <1>1, <1>4
<1>5. p.shape \in AggregateShapes \cup {"vertex_lookup", "single_hop_traversal", "variable_path_traversal"}
  BY <1>1 DEF QueryParses, SequenceAllowed, AggregateShapes
<1> QED BY <1>2, <1>3, <1>4, <1>5

-----------------------------------------------------------------------------
(* What the run keeps.                                                     *)

LEMMA Invariant == Spec => []IInv
BY InitIInv, StepIInv, PTL DEF Spec

\* Whoever wrote the query that was compiled, it is well formed.
LEMMA GeneratedFormed ==
  ASSUME IInv, Generated
  PROVE  Formed(query)
<1>1. CASE plan # Nothing
  <2>1. Planned(plan) /\ Builds(plan) /\ query = Built(plan) /\ QueryParses(query)
    BY <1>1 DEF IInv, Past
  <2> QED BY <2>1, BuiltFormed
<1>2. CASE plan = Nothing
  <2>1. query = Assembled(question, candidates, results) /\ query # Nothing
    BY <1>2 DEF IInv, Past
  <2> QED BY <2>1, AssembledFormed
<1> QED BY <1>1, <1>2

\* The Cypher orders, limits and reaches as far as the question asks, whoever wrote the
\* query: nothing that the coverage gate has seen in it is left out when it is compiled.
THEOREM StructureIsAnswered == Spec => []StructureAnswered
<1>1. IInv => StructureAnswered
  <2> SUFFICES ASSUME IInv, Generated
               PROVE  LET asked == Requirements(question)
                      IN /\ asked.order => cypher.order # << >>
                         /\ asked.direction # "any" => asked.direction \in {o.direction : o \in ToSet(cypher.order)}
                         /\ asked.limited => cypher.limit # 0 /\ asked.limit \in {0, cypher.limit}
                         /\ query.shape # "named_path_pattern" => Cardinality(HopsWalked(cypher.hops)) >= asked.hops
    BY DEF StructureAnswered, HopsWalked
  <2>1. cypher = CypherOf(query) /\ StructureCovered(Requirements(question), query)
    BY DEF IInv, Past
  <2>2. Formed(query)
    BY GeneratedFormed
  <2> QED BY <2>1, <2>2, CoveredAnswered
<1> QED BY <1>1, Invariant, PTL

\* No condition of a plan is lost in its Cypher, whatever the shape.
THEOREM ConditionsAreKept == Spec => []ConditionsKept
<1>1. IInv => ConditionsKept
  <2> SUFFICES ASSUME IInv, Generated, plan # Nothing, plan.shape \notin {"two_step_aggregate", "named_path_pattern"},
                      NEW f \in ToSet(plan.filters)
               PROVE  \E w \in ToSet(cypher.where) :
                        cypher.labels[w.role] = f.prop[1] /\ w.name = f.prop[2] /\ w.op = f.op /\ w.literal = f.literal
    BY DEF ConditionsKept
  <2>1. /\ Planned(plan) /\ Builds(plan) /\ query = Built(plan) /\ QueryParses(query)
        /\ CompilationOutcome(query) = "ok" /\ cypher = CypherOf(query)
    BY DEF IInv, Past
  <2>2. Stands(f, query)
    BY <2>1, PlanKeeps
  <2>3. cypher.where = Where(query) /\ cypher.labels = Labels(query)
    BY <2>1 DEF CypherOf
  <2> QED BY <2>2, <2>3 DEF Stands
<1> QED BY <1>1, Invariant, PTL

\* The columns of the Cypher are the plan's: none is lost or added, and each property that
\* a lookup or a path shows is read from a variable of the vertex that has it.
THEOREM ColumnsAreKept == Spec => []ColumnsKept
<1>1. IInv => ColumnsKept
  <2> SUFFICES ASSUME IInv, Generated, plan # Nothing, plan.shape # "named_path_pattern", plan.projection # << >>
               PROVE  /\ DOMAIN cypher.returns = DOMAIN plan.projection
                      /\ plan.shape \notin AggregateShapes =>
                           \A p \in ToSet(plan.projection) : p.kind = "property" =>
                             \E r \in ToSet(cypher.returns) :
                               r.expr.form = "property" /\ cypher.labels[r.expr.role] = p.prop[1] /\ r.expr.name = <<p.prop[2]>>
    <3>1. plan.projection = << >> => ToSet(plan.projection) = {}
      BY DEF ToSet
    <3> QED BY <3>1 DEF ColumnsKept
  <2>1. Planned(plan) /\ Builds(plan) /\ query = Built(plan) /\ QueryParses(query) /\ cypher = CypherOf(query)
    BY DEF IInv, Past
  <2>2. cypher.returns = Returns(query) /\ cypher.labels = Labels(query)
    BY <2>1 DEF CypherOf
  <2>3. /\ DOMAIN Returns(query) = DOMAIN plan.projection
        /\ plan.shape \notin AggregateShapes => \A s \in ToSet(plan.projection) : s.kind = "property" => ReadsOf(query, s)
    BY <2>1, PlanColumns
  <2> QED BY <2>2, <2>3 DEF ReadsOf
<1> QED BY <1>1, Invariant, PTL

\* Nothing of the question's structure and of the plan's columns is lost in the Cypher.
THEOREM NothingIsLost == Spec => []NothingLost
BY StructureIsAnswered, ColumnsAreKept, PTL DEF NothingLost

-----------------------------------------------------------------------------
(* The stages fit.                                                         *)

Typed == stage \in Stages /\ outcome \in Outcomes

LEMMA StepTyped == IInv /\ Typed /\ [Next]_vars => Typed'
<1> SUFFICES ASSUME IInv, Typed, [Next]_vars PROVE Typed'
  OBVIOUS
<1> USE DEF Typed, Stages, Outcomes, Goes
<1>1. CASE ResolveLiterals
  BY <1>1 DEF ResolveLiterals
<1>2. CASE AskOutput
  BY <1>2 DEF AskOutput
<1>3. CASE Assemble
  BY <1>3 DEF Assemble
<1>4. CASE Ground
  <2>1. PICK a \in Cases[case].answers : Goes(GroundingOutcome(a, candidates, results), "binding")
    BY <1>4 DEF Ground
  <2>2. GroundingOutcome(a, candidates, results) \in {"ok", "semantic_match_rejected", "grounded_understanding_schema_invalid"}
    BY GroundingOutcomes
  <2> QED BY <2>1, <2>2
<1>5. CASE Bind
  <2>1. BindingOutcome(answer, candidates) \in {"ok", "reject", "crash"}
    BY BindingOutcomes
  <2> QED BY <1>5, <2>1 DEF Bind
<1>6. CASE Validate
  BY <1>6 DEF Validate
<1>7. CASE Build
  BY <1>7 DEF Build
<1>8. CASE Parse
  BY <1>8 DEF Parse
<1>9. CASE CheckCoverage
  BY <1>9 DEF CheckCoverage
<1>10. CASE Compile
  <2>1. CompilationOutcome(query) \in {"ok", "refused", "crash"}
    BY CompilationOutcomes
  <2> QED BY <1>10, <2>1 DEF Compile
<1>11. CASE SelfValidate
  <2>1. SelfValidation(cypher, query) \in
          {"ok", "target_dialect_static_error", "cypher_schema_reference_invalid", "compiler_shape_mismatch"}
    BY SelfValidations
  <2> QED BY <1>11, <2>1 DEF SelfValidate
<1>12. CASE UNCHANGED vars
  BY <1>12 DEF vars
<1> QED BY <1>1, <1>2, <1>3, <1>4, <1>5, <1>6, <1>7, <1>8, <1>9, <1>10, <1>11, <1>12 DEF Next

LEMMA NothingIs == DOMAIN Nothing = {"shape"} /\ Nothing.shape = "none"
BY DEF Nothing

\* What a stage leaves for the next one is there, and is of its kind.
THEOREM StagesAreTyped == Spec => []TypeOK
<1>1. Init => Typed
  BY DEF Init, Typed, Stages, Outcomes
<1>2. Spec => []Typed
  BY <1>1, Invariant, StepTyped, PTL DEF Spec
<1>3. IInv /\ Typed => TypeOK
  <2> SUFFICES ASSUME IInv, Typed PROVE TypeOK
    OBVIOUS
  <2>1. case \in DOMAIN Cases /\ stage \in Stages /\ outcome \in Outcomes
    BY DEF IInv, Typed
  <2>2. ASSUME stage = "binding" PROVE answer # Nothing
    <3>1. "edges" \in DOMAIN answer
      BY <2>2 DEF IInv, Payload
    <3> QED BY <3>1, NothingIs
  <2>3. stage \in {"validation", "building"} => plan # Nothing
    BY DEF IInv
  <2>4. ASSUME stage \in {"parsing", "coverage", "compiling"} PROVE query # Nothing
    <3>1. CASE plan = Nothing
      BY <2>4, <3>1 DEF IInv, Past
    <3>2. CASE plan # Nothing
      <4>1. query = Built(plan) /\ plan.shape \in Shapes
        BY <2>4, <3>2 DEF IInv, Past, PlanIsValid
      <4>2. query.shape \in Shapes
        BY <4>1, BuiltShape
      <4> QED BY <4>2, NothingIs DEF Shapes, AggregateShapes
    <3> QED BY <3>1, <3>2
  <2>5. ASSUME Generated PROVE cypher # Nothing
    <3>1. cypher = CypherOf(query)
      BY <2>5 DEF IInv, Past
    <3>2. "labels" \in DOMAIN CypherOf(query)
      BY DEF CypherOf
    <3> QED BY <3>1, <3>2, NothingIs
  <2> QED BY <2>1, <2>2, <2>3, <2>4, <2>5 DEF TypeOK
<1> QED BY <1>2, <1>3, Invariant, PTL
-----------------------------------------------------------------------------
(* The order of the operations.                                            *)

\* What the builder appends, in each of the four cases.
LEMMA Joined == \A a, b : << >> \o <<a>> = <<a>> /\ <<a>> \o << >> = <<a>> /\ <<a>> \o <<b>> = <<a, b>>
<1> TAKE a, b
<1> DEFINE s == <<a>> \o <<b>>
           t == <<a, b>>
<1>1. <<a>> \in Seq({a, b}) /\ <<b>> \in Seq({a, b}) /\ t \in Seq({a, b}) /\ Len(<<a>>) = 1 /\ Len(<<b>>) = 1 /\ Len(t) = 2
  OBVIOUS
<1>2. <<a>>[1] = a /\ <<b>>[1] = b /\ t[1] = a /\ t[2] = b
  OBVIOUS
<1>3. s \in Seq({a, b}) /\ Len(s) = 2 /\ s[1] = a /\ s[2] = b
  BY <1>1, <1>2, ConcatProperties
<1>4. << >> \o <<a>> = <<a>> /\ <<a>> \o << >> = <<a>>
  OBVIOUS
<1> HIDE DEF s, t
<1>5. \A i \in 1..Len(s) : s[i] = t[i]
  BY <1>2, <1>3
<1>6. s = t
  BY <1>1, <1>3, <1>5, SeqEqual
<1> QED BY <1>4, <1>6 DEF s, t

LEMMA JoinedTwo == \A a, b, c : <<a>> \o <<b, c>> = <<a, b, c>>
<1> TAKE a, b, c
<1> DEFINE s == <<a>> \o <<b, c>>
           t == <<a, b, c>>
<1>1. /\ <<a>> \in Seq({a, b, c}) /\ <<b, c>> \in Seq({a, b, c}) /\ t \in Seq({a, b, c})
      /\ Len(<<a>>) = 1 /\ Len(<<b, c>>) = 2 /\ Len(t) = 3
  OBVIOUS
<1>2. <<a>>[1] = a /\ <<b, c>>[1] = b /\ <<b, c>>[2] = c /\ t[1] = a /\ t[2] = b /\ t[3] = c
  OBVIOUS
<1>3. s \in Seq({a, b, c}) /\ Len(s) = 3 /\ s[1] = a /\ s[2] = b /\ s[3] = c
  BY <1>1, <1>2, ConcatProperties
<1> HIDE DEF s, t
<1>5. \A i \in 1..Len(s) : s[i] = t[i]
  BY <1>2, <1>3
<1>6. s = t
  BY <1>1, <1>3, <1>5, SeqEqual
<1> QED BY <1>6 DEF s, t

LEMMA SortLimitIs ==
  ASSUME NEW p, NEW bind
  PROVE  \E a, b : /\ a.op = "sort" /\ b.op = "limit"
                  /\ \/ p.sort = << >> /\ p.limit = 0 /\ SortLimit(p, bind) = << >>
                     \/ p.sort # << >> /\ p.limit = 0 /\ SortLimit(p, bind) = <<a>>
                     \/ p.sort = << >> /\ p.limit # 0 /\ SortLimit(p, bind) = <<b>>
                     \/ p.sort # << >> /\ p.limit # 0 /\ SortLimit(p, bind) = <<a, b>>
<1> DEFINE a == [op |-> "sort", by |-> MapSeq(p.sort, LAMBDA x : [source |-> <<Namespace(x.source[1], bind), x.source[2]>>,
                                                                  direction |-> x.direction])]
           b == [op |-> "limit", value |-> p.limit]
           sorts == IF p.sort = << >> THEN << >> ELSE <<a>>
           limits == IF p.limit = 0 THEN << >> ELSE <<b>>
<1>1. SortLimit(p, bind) = sorts \o limits
  BY DEF SortLimit
<1>2. a.op = "sort" /\ b.op = "limit"
  OBVIOUS
<1> HIDE DEF a, b
<1>3. << >> \o << >> = << >> /\ <<a>> \o << >> = <<a>> /\ << >> \o <<b>> = <<b>> /\ <<a>> \o <<b>> = <<a, b>>
  BY Joined
<1> QED BY <1>1, <1>2, <1>3

LEMMA NamesAre == \A q : OpNames(q) = [i \in DOMAIN q.ops |-> q.ops[i].op]
BY DEF OpNames, MapSeq

LEMMA FewNames ==
  /\ \A q, a : q.ops = <<a>> => OpNames(q) = <<a.op>>
  /\ \A q, a, b : q.ops = <<a, b>> => OpNames(q) = <<a.op, b.op>>
  /\ \A q, a, b, c : q.ops = <<a, b, c>> => OpNames(q) = <<a.op, b.op, c.op>>
<1>1. ASSUME NEW q, NEW a, q.ops = <<a>> PROVE OpNames(q) = <<a.op>>
  <2> DEFINE ops == q.ops
  <2>1. OpNames(q) = [i \in DOMAIN ops |-> ops[i].op]
    BY NamesAre
  <2> HIDE DEF ops
  <2> QED BY <1>1, <2>1 DEF ops
<1>2. ASSUME NEW q, NEW a, NEW b, q.ops = <<a, b>> PROVE OpNames(q) = <<a.op, b.op>>
  <2> DEFINE ops == q.ops
  <2>1. OpNames(q) = [i \in DOMAIN ops |-> ops[i].op]
    BY NamesAre
  <2>2. ops = <<a, b>>
    BY <1>2
  <2> HIDE DEF ops
  <2> QED BY <2>1, <2>2
<1>3. ASSUME NEW q, NEW a, NEW b, NEW c, q.ops = <<a, b, c>> PROVE OpNames(q) = <<a.op, b.op, c.op>>
  <2> DEFINE ops == q.ops
  <2>1. OpNames(q) = [i \in DOMAIN ops |-> ops[i].op]
    BY NamesAre
  <2>2. ops = <<a, b, c>>
    BY <1>3
  <2> HIDE DEF ops
  <2> QED BY <2>1, <2>2
<1> QED BY <1>1, <1>2, <1>3

\* One operation and what is appended to it: the kind of the one, and an optional tail.
LEMMA PrimaryNames ==
  ASSUME NEW q, NEW op, NEW p, NEW bind, q.ops = <<op>> \o SortLimit(p, bind)
  PROVE  /\ OpNames(q) # << >> /\ OpNames(q)[1] = op.op /\ Tail(OpNames(q)) \in OptionalTail
         /\ p.sort # << >> /\ p.limit # 0 => OpNames(q) = <<op.op, "sort", "limit">>
<1>1. PICK a, b : /\ a.op = "sort" /\ b.op = "limit"
                  /\ \/ p.sort = << >> /\ p.limit = 0 /\ SortLimit(p, bind) = << >>
                     \/ p.sort # << >> /\ p.limit = 0 /\ SortLimit(p, bind) = <<a>>
                     \/ p.sort = << >> /\ p.limit # 0 /\ SortLimit(p, bind) = <<b>>
                     \/ p.sort # << >> /\ p.limit # 0 /\ SortLimit(p, bind) = <<a, b>>
  BY SortLimitIs
<1>2. CASE SortLimit(p, bind) = << >> /\ ~(p.sort # << >> /\ p.limit # 0)
  <2>1. q.ops = <<op>>
    BY <1>2, Joined
  <2>2. OpNames(q) = <<op.op>>
    BY <2>1, FewNames
  <2> QED BY <1>2, <2>2 DEF OptionalTail
<1>3. CASE SortLimit(p, bind) = <<a>> /\ ~(p.sort # << >> /\ p.limit # 0)
  <2>1. q.ops = <<op, a>>
    BY <1>3, Joined
  <2>2. OpNames(q) = <<op.op, "sort">>
    BY <1>1, <2>1, FewNames
  <2> QED BY <1>3, <2>2 DEF OptionalTail
<1>4. CASE SortLimit(p, bind) = <<b>> /\ ~(p.sort # << >> /\ p.limit # 0)
  <2>1. q.ops = <<op, b>>
    BY <1>4, Joined
  <2>2. OpNames(q) = <<op.op, "limit">>
    BY <1>1, <2>1, FewNames
  <2> QED BY <1>4, <2>2 DEF OptionalTail
<1>5. CASE SortLimit(p, bind) = <<a, b>>
  <2>1. q.ops = <<op, a, b>>
    BY <1>5, JoinedTwo
  <2>2. OpNames(q) = <<op.op, "sort", "limit">>
    BY <1>1, <2>1, FewNames
  <2>3. Tail(OpNames(q)) = <<"sort", "limit">>
    BY <2>2
  <2> QED BY <2>2, <2>3 DEF OptionalTail
<1> QED BY <1>1, <1>2, <1>3, <1>4, <1>5

Kinds(ops) == [i \in DOMAIN ops |-> ops[i].op]

\* Hops and what comes after them.
LEMMA ChainNames ==
  ASSUME NEW q, NEW hops, IsSequence(hops), hops # << >>, \A o \in ToSet(hops) : o.op = "traverse_edge",
         NEW tail, IsSequence(tail), \A o \in ToSet(tail) : o.op # "traverse_edge",
         q.ops = hops \o tail
  PROVE  /\ HopCount(OpNames(q)) = Len(hops) /\ Len(hops) > 0
         /\ After(OpNames(q), HopCount(OpNames(q))) = Kinds(tail)
<1> DEFINE N == Len(hops)
           M == Len(tail)
           names == OpNames(q)
<1>1. N \in Nat /\ N > 0 /\ DOMAIN hops = 1..N /\ hops \in Seq(ToSet(hops))
  BY SequenceIs
<1>2. M \in Nat /\ DOMAIN tail = 1..M /\ tail \in Seq(ToSet(tail))
  BY SequenceIs
<1> HIDE DEF N, M
<1>3. /\ DOMAIN q.ops = 1..(N + M)
      /\ \A i \in 1..N : q.ops[i] = hops[i]
      /\ \A i \in 1..M : q.ops[N + i] = tail[i]
  <2>1. hops \in Seq(ToSet(hops) \cup ToSet(tail)) /\ tail \in Seq(ToSet(hops) \cup ToSet(tail))
    BY <1>1, <1>2
  <2> QED BY <1>1, <1>2, <2>1 DEF N, M
<1>4. /\ names = [i \in 1..(N + M) |-> q.ops[i].op]
      /\ \A i \in 1..N : names[i] = "traverse_edge"
      /\ \A i \in 1..M : names[N + i] = tail[i].op /\ names[N + i] # "traverse_edge"
  <2>1. names = [i \in 1..(N + M) |-> q.ops[i].op]
    BY <1>3, NamesAre
  <2>2. (\A i \in 1..N : hops[i].op = "traverse_edge") /\ (\A i \in 1..M : tail[i].op # "traverse_edge")
    BY <1>1, <1>2 DEF ToSet
  <2> HIDE DEF names
  <2>3. \A i \in 1..N : names[i] = "traverse_edge"
    BY <1>1, <1>2, <1>3, <2>1, <2>2
  <2>4. ASSUME NEW i \in 1..M PROVE names[N + i] = tail[i].op /\ names[N + i] # "traverse_edge"
    <3>1. N + i \in 1..(N + M)
      BY <1>1, <1>2
    <3> QED BY <1>3, <2>1, <2>2, <3>1
  <2> QED BY <2>1, <2>3, <2>4
<1> HIDE DEF names
<1>5. HopCount(names) = N
  <2> DEFINE others == {i \in DOMAIN names : names[i] # "traverse_edge"}
  <2>1. others = (N + 1)..(N + M)
    <3>1. ASSUME NEW i \in (N + 1)..(N + M) PROVE i \in others
      <4>1. i - N \in 1..M /\ N + (i - N) = i
        BY <1>1, <1>2
      <4>2. names[N + (i - N)] # "traverse_edge"
        BY <1>4, <4>1
      <4> QED BY <1>1, <1>2, <1>4, <4>1, <4>2
    <3>2. ASSUME NEW i \in others PROVE i \in (N + 1)..(N + M)
      BY <1>1, <1>2, <1>4
    <3> QED BY <3>1, <3>2
  <2>2. CASE M = 0
    <3>1. others = {} /\ Len(names) = N
      BY <1>1, <1>2, <1>4, <2>1, <2>2
    <3> QED BY <3>1 DEF HopCount
  <2>3. CASE M # 0
    <3>1. N + 1 \in others /\ \A i \in others : N + 1 <= i
      BY <1>1, <1>2, <2>1, <2>3
    <3>2. Min(others) = N + 1
      <4> HIDE DEF others
      <4>1. \A i \in others : i \in Nat
        BY <1>1, <1>2, <2>1
      <4> QED BY <1>1, <3>1, <4>1 DEF Min
    <3> QED BY <1>1, <3>1, <3>2 DEF HopCount
  <2> QED BY <2>2, <2>3
<1>6. After(names, N) = [i \in DOMAIN tail |-> tail[i].op]
  <2>1. Len(names) = N + M
    BY <1>1, <1>2, <1>4
  <2>2. After(names, N) = [i \in 1..((N + M) - (N + 1) + 1) |-> names[i + (N + 1) - 1]]
    BY <1>1, <1>2, <2>1 DEF After
  <2>3. (N + M) - (N + 1) + 1 = M /\ \A i \in 1..M : i + (N + 1) - 1 = N + i
    BY <1>1, <1>2
  <2>4. After(names, N) = [i \in 1..M |-> names[i + (N + 1) - 1]]
    BY <2>2, <2>3
  <2>5. \A i \in 1..M : names[i + (N + 1) - 1] = tail[i].op
    BY <1>4, <2>3
  <2> QED BY <1>2, <2>4, <2>5
<1> QED BY <1>1, <1>5, <1>6 DEF N, names, Kinds

\* The one operation of each aggregate.
LEMMA TwoStepIs ==
  ASSUME NEW p
  PROVE  \E op, bind : /\ TwoStepAggregate(p).ops = <<op>> \o SortLimit(p, bind) /\ op.op = "subquery"
                       /\ op.group = p.group /\ op.measures = p.measures
<1> DEFINE op == [op |-> "subquery", bind |-> BindAs(p), group |-> p.group, measures |-> p.measures]
<1>1. TwoStepAggregate(p).ops = <<op>> \o SortLimit(p, BindAs(p))
  BY DEF TwoStepAggregate
<1>2. op.op = "subquery" /\ op.group = p.group /\ op.measures = p.measures
  OBVIOUS
<1> HIDE DEF op
<1> QED BY <1>1, <1>2

LEMMA AdHocIs ==
  ASSUME NEW p
  PROVE  \E op, bind : /\ AdHocAggregate(p).ops = <<op>> \o SortLimit(p, bind) /\ op.op = "aggregate"
                       /\ op.group = p.group /\ op.measures = p.measures
<1> DEFINE op == [op |-> "aggregate", group |-> p.group, measures |-> p.measures]
<1>1. AdHocAggregate(p).ops = <<op>> \o SortLimit(p, "")
  BY DEF AdHocAggregate
<1>2. op.op = "aggregate" /\ op.group = p.group /\ op.measures = p.measures
  OBVIOUS
<1> HIDE DEF op
<1>3. \E bind : AdHocAggregate(p).ops = <<op>> \o SortLimit(p, bind)
  BY <1>1, Zenon
<1> QED BY <1>1, <1>2, <1>3

LEMMA MetricIs ==
  ASSUME NEW p
  PROVE  \E op, bind : /\ MetricAggregate(p).ops = <<op>> \o SortLimit(p, bind) /\ op.op = "metric_aggregate"
                       /\ op.group = p.group /\ op.name = p.metrics[1]
<1> DEFINE op == [op |-> "metric_aggregate", name |-> p.metrics[1], group |-> p.group,
                  filters |-> FilterItems(p.filters, MetricRoles(p.metrics[1]))]
<1>1. MetricAggregate(p).ops = <<op>> \o SortLimit(p, "")
  BY DEF MetricAggregate
<1>2. op.op = "metric_aggregate" /\ op.group = p.group /\ op.name = p.metrics[1]
  OBVIOUS
<1> HIDE DEF op
<1>3. \E bind : MetricAggregate(p).ops = <<op>> \o SortLimit(p, bind)
  BY <1>1, Zenon
<1> QED BY <1>1, <1>2, <1>3

LEMMA VariablePathIs ==
  ASSUME NEW p, NEW q, q = VariablePath(p)
  PROVE  q.shape = p.shape /\ \E op : q.ops = <<op>> /\ op.op = "variable_path"
<1> DEFINE op == [op |-> "variable_path", start |-> "start", through |-> "through",
                  filters |-> FilterItems(Selected(p.filters, {i \in DOMAIN p.filters : p.filters[i].prop[1] = p.vertices[2]}),
                                          RolesByOwner(<<<<"start", p.vertices[1]>>, <<"through", p.vertices[2]>>>>)),
                  edges |-> <<p.edges[1].name>>, min |-> 1, max |-> MaxHops]
<1>1. q.ops = <<op>> /\ q.shape = p.shape
  BY DEF VariablePath
<1>2. op.op = "variable_path"
  OBVIOUS
<1> HIDE DEF op
<1> QED BY <1>1, <1>2

LEMMA NamedPathIs ==
  ASSUME NEW p, NEW q, q = NamedPath(p)
  PROVE  q.shape = p.shape /\ \E op : q.ops = <<op>> /\ op.op = "use_path_pattern"
<1> DEFINE op == [op |-> "use_path_pattern", name |-> p.patterns[1], params |-> Parameters(p)]
<1>1. q.ops = <<op>> /\ q.shape = p.shape
  BY DEF NamedPath
<1>2. op.op = "use_path_pattern"
  OBVIOUS
<1> HIDE DEF op
<1> QED BY <1>1, <1>2

LEMMA NoOrdering ==
  ASSUME NEW p, NEW bind
  PROVE  /\ p.sort = << >> /\ p.limit = 0 => SortLimit(p, bind) = << >>
         /\ p.sort = << >> /\ p.limit # 0 => \E b : b.op = "limit" /\ SortLimit(p, bind) = <<b>>
BY SortLimitIs

LEMMA EmptyAppended == \A s : IsSequence(s) => s \o << >> = s /\ << >> \o s = s
<1> SUFFICES ASSUME NEW s, IsSequence(s) PROVE s \o << >> = s /\ << >> \o s = s
  OBVIOUS
<1>1. s \in Seq(ToSet(s))
  BY SequenceIs
<1> QED BY <1>1, ConcatEmptySeq

\* An optional tail has no hops.
LEMMA NoHops ==
  ASSUME NEW names \in OptionalTail
  PROVE  HopCount(names) = 0
<1> DEFINE others == {i \in DOMAIN names : names[i] # "traverse_edge"}
<1>1. CASE names = << >>
  BY <1>1 DEF HopCount
<1>2. CASE names # << >>
  <2>1. 1 \in others /\ \A i \in others : i \in Nat /\ 1 <= i
    BY <1>2 DEF OptionalTail
  <2>2. Min(others) = 1
    <3> HIDE DEF others
    <3> QED BY <2>1 DEF Min
  <2> QED BY <2>1, <2>2 DEF HopCount
<1> QED BY <1>1, <1>2

\* The builder writes operations in an order that the parser accepts.
LEMMA BuiltAllowed ==
  ASSUME NEW p, Planned(p), Builds(p), p.shape \in Shapes, NEW q, q = Built(p)
  PROVE  SequenceAllowed(q)
<1>1. q.shape = p.shape /\ SortLimitCompiled(p)
  BY BuiltShape DEF Builds
<1>2. CASE p.shape \in {"vertex_lookup", "single_hop_traversal"}
  <2>1. q = Traversal(p) /\ IsSequence(p.edges)
    BY <1>2 DEF Built, Planned
  <2> DEFINE edges == IF p.shape = "vertex_lookup" THEN << >> ELSE p.edges
  <2>2. PICK hops, bind : /\ IsSequence(hops) /\ DOMAIN hops = DOMAIN edges /\ q.ops = hops \o SortLimit(p, bind)
                          /\ \A o \in ToSet(hops) : o.op = "traverse_edge"
                          /\ \A i \in DOMAIN edges : /\ hops[i].from = TraversalRoles(p)[i][1]
                                                     /\ hops[i].to = TraversalRoles(p)[i + 1][1]
    BY <2>1, TraversalOps
  <2>3. CASE p.shape = "vertex_lookup"
    <3>1. hops = << >>
      <4>1. ToSet(hops) = {}
        BY <2>2, <2>3 DEF ToSet
      <4> QED BY <2>2, <4>1, SomeElement
    <3>2. q.ops = SortLimit(p, bind)
      <4>1. IsSequence(SortLimit(p, bind))
        BY OrderingsAre
      <4> QED BY <2>2, <3>1, <4>1, EmptyAppended
    <3>3. p.sort = << >>
      BY <1>1, <2>3 DEF SortLimitCompiled, AggregateShapes
    <3>4. CASE p.limit = 0
      <4>1. q.ops = << >>
        BY <3>2, <3>3, <3>4, NoOrdering
      <4>2. OpNames(q) = << >>
        BY <4>1, NamesAre
      <4> QED BY <1>1, <2>3, <4>2 DEF SequenceAllowed
    <3>5. CASE p.limit # 0
      <4>1. PICK b : b.op = "limit" /\ q.ops = <<b>>
        BY <3>2, <3>3, <3>5, NoOrdering
      <4>2. OpNames(q) = <<"limit">>
        BY <4>1, FewNames
      <4> QED BY <1>1, <2>3, <4>2 DEF SequenceAllowed
    <3> QED BY <3>4, <3>5
  <2>4. CASE p.shape = "single_hop_traversal"
    <3>1. p.sort = << >> /\ p.limit = 0
      BY <1>1, <2>4 DEF SortLimitCompiled, AggregateShapes
    <3> DEFINE tail == << >>
    <3>2. q.ops = hops \o tail
      BY <2>2, <3>1, NoOrdering
    <3>3. IsSequence(tail) /\ ToSet(tail) = {} /\ DOMAIN tail = {}
      BY EmptySequence DEF ToSet
    <3>4. hops # << >>
      <4>1. p.edges # << >>
        BY <2>4 DEF Builds, TraversalBuilds
      <4>2. IsSequence(edges) /\ edges # << >>
        BY <2>1, <2>4, <4>1
      <4>3. ToSet(edges) # {}
        BY <4>2, SomeElement
      <4>4. ToSet(hops) # {}
        BY <2>2, <4>3 DEF ToSet
      <4> QED BY <2>2, <4>4, SomeElement
    <3> HIDE DEF tail
    <3>5. /\ HopCount(OpNames(q)) = Len(hops) /\ Len(hops) > 0
          /\ After(OpNames(q), HopCount(OpNames(q))) = Kinds(tail)
      BY <2>2, <3>2, <3>3, <3>4, ChainNames
    <3>6. Kinds(tail) = << >>
      BY <3>3 DEF Kinds
    <3> QED BY <1>1, <2>4, <3>5, <3>6 DEF SequenceAllowed, OptionalTail
  <2> QED BY <1>2, <2>3, <2>4
<1>3. CASE p.shape = "variable_path_traversal"
  <2>1. PICK op : q.ops = <<op>> /\ op.op = "variable_path"
    BY <1>3, VariablePathIs DEF Built
  <2>2. OpNames(q) = <<"variable_path">>
    BY <2>1, FewNames
  <2> QED BY <1>1, <1>3, <2>2 DEF SequenceAllowed, OptionalTail
<1>4. CASE p.shape = "named_path_pattern"
  <2>1. PICK op : q.ops = <<op>> /\ op.op = "use_path_pattern"
    BY <1>4, NamedPathIs DEF Built
  <2>2. OpNames(q) = <<"use_path_pattern">>
    BY <2>1, FewNames
  <2> QED BY <1>1, <1>4, <2>2 DEF SequenceAllowed, OptionalTail
<1>5. CASE p.shape = "metric_aggregate"
  <2>0. q = MetricAggregate(p)
    BY <1>5 DEF Built
  <2>1. PICK op, bind : /\ q.ops = <<op>> \o SortLimit(p, bind) /\ op.op = "metric_aggregate"
                           /\ op.group = p.group /\ op.name = p.metrics[1]
    BY <2>0, MetricIs
  <2>2. OpNames(q) # << >> /\ OpNames(q)[1] = "metric_aggregate" /\ Tail(OpNames(q)) \in OptionalTail
    BY <2>1, PrimaryNames
  <2> QED BY <1>1, <1>5, <2>2 DEF SequenceAllowed
<1>6. CASE p.shape = "ad_hoc_aggregate"
  <2>0. q = AdHocAggregate(p)
    BY <1>6 DEF Built
  <2>1. PICK op, bind : /\ q.ops = <<op>> \o SortLimit(p, bind) /\ op.op = "aggregate"
                           /\ op.group = p.group /\ op.measures = p.measures
    BY <2>0, AdHocIs
  <2>2. OpNames(q) # << >> /\ OpNames(q)[1] = "aggregate" /\ Tail(OpNames(q)) \in OptionalTail
    BY <2>1, PrimaryNames
  <2> QED BY <1>1, <1>6, <2>2 DEF SequenceAllowed
<1>7. CASE p.shape = "two_step_aggregate"
  <2>0. q = TwoStepAggregate(p)
    BY <1>7 DEF Built
  <2>1. PICK op, bind : /\ q.ops = <<op>> \o SortLimit(p, bind) /\ op.op = "subquery"
                           /\ op.group = p.group /\ op.measures = p.measures
    BY <2>0, TwoStepIs
  <2>2. OpNames(q) # << >> /\ OpNames(q)[1] = "subquery" /\ Tail(OpNames(q)) \in OptionalTail
    BY <2>1, PrimaryNames
  <2>3. HopCount(Tail(OpNames(q))) = 0
    BY <2>2, NoHops
  <2> QED BY <1>1, <1>7, <2>2, <2>3 DEF SequenceAllowed
<1>8. CASE p.shape = "top_n"
  <2>1. p.sort # << >> /\ p.limit # 0
    BY <1>8 DEF Builds
  <2>2. \E op, bind : q.ops = <<op>> \o SortLimit(p, bind) /\ op.op \in {"metric_aggregate", "aggregate"}
    <3>1. q = MetricAggregate(p) \/ q = AdHocAggregate(p)
      BY <1>8 DEF Built
    <3>2. CASE q = MetricAggregate(p)
      <4>1. PICK op, bind : /\ q.ops = <<op>> \o SortLimit(p, bind) /\ op.op = "metric_aggregate"
                           /\ op.group = p.group /\ op.name = p.metrics[1]
        BY <3>2, MetricIs
      <4> QED BY <4>1
    <3>3. CASE q = AdHocAggregate(p)
      <4>1. PICK op, bind : /\ q.ops = <<op>> \o SortLimit(p, bind) /\ op.op = "aggregate"
                           /\ op.group = p.group /\ op.measures = p.measures
        BY <3>3, AdHocIs
      <4> QED BY <4>1
    <3> QED BY <3>1, <3>2, <3>3
  <2>3. OpNames(q) \in {<<"metric_aggregate", "sort", "limit">>, <<"aggregate", "sort", "limit">>}
    BY <2>1, <2>2, PrimaryNames
  <2>4. After(OpNames(q), 0) = OpNames(q)
    BY <2>3 DEF After
  <2> QED BY <1>1, <1>8, <2>3, <2>4 DEF SequenceAllowed
<1> QED BY <1>2, <1>3, <1>4, <1>5, <1>6, <1>7, <1>8 DEF Shapes, AggregateShapes

\* So does the assembler.
LEMMA VertexReadAllowed ==
  ASSUME NEW of, NEW among, NEW found, NEW filtered, NEW q, q = VertexRead(of, among, found, filtered), q # Nothing
  PROVE  SequenceAllowed(q)
<1>1. \E vertex, literals, items : q = VertexShown(of, among, vertex, literals, items)
  BY DEF VertexRead, VertexReadOf, VertexFiltered
<1>2. PICK vertex, literals, items : q = VertexShown(of, among, vertex, literals, items)
  BY <1>1
<1> DEFINE limit == LimitAsked(of)
           op == [op |-> "limit", value |-> limit]
<1>3. q.shape = "vertex_lookup" /\ q.ops = IF limit = 0 THEN << >> ELSE <<op>>
  BY <1>2 DEF VertexShown, VertexQuery
<1>4. op.op = "limit"
  OBVIOUS
<1> HIDE DEF op, limit
<1>5. OpNames(q) \in {<< >>, <<"limit">>}
  <2>1. CASE q.ops = << >>
    BY <2>1, NamesAre
  <2>2. CASE q.ops = <<op>>
    BY <1>4, <2>2, FewNames
  <2> QED BY <1>3, <2>1, <2>2
<1> QED BY <1>3, <1>5 DEF SequenceAllowed

LEMMA VertexCountedAllowed ==
  ASSUME NEW of, NEW among, NEW found, NEW q, q = VertexCounted(of, among, found), q # Nothing
  PROVE  SequenceAllowed(q)
<1>1. \E vertex, measures, filled : q = Counted(of, among, found, vertex, measures, filled)
  BY DEF VertexCounted, CountedOf, CountedBy
<1>2. PICK vertex, measures, filled : q = Counted(of, among, found, vertex, measures, filled)
  BY <1>1
<1> DEFINE op == [op |-> "aggregate", group |-> << >>, measures |-> measures]
<1>3. q.shape = "ad_hoc_aggregate" /\ q.ops = <<op>>
  <2>1. \E filters, shown : q = VertexQuery("ad_hoc_aggregate", vertex, <<op>>, filters, shown)
    BY <1>2, Zenon DEF Counted
  <2> HIDE DEF op
  <2> QED BY <2>1 DEF VertexQuery
<1>4. op.op = "aggregate"
  OBVIOUS
<1> HIDE DEF op
<1>5. OpNames(q) = <<"aggregate">>
  BY <1>3, <1>4, FewNames
<1> QED BY <1>3, <1>5 DEF SequenceAllowed, OptionalTail

LEMMA HopOpsAre ==
  ASSUME NEW path, IsSequence(path), path # << >>
  PROVE  /\ IsSequence(HopOps(path)) /\ HopOps(path) # << >> /\ DOMAIN HopOps(path) = DOMAIN path
         /\ \A o \in ToSet(HopOps(path)) : o.op = "traverse_edge"
         /\ \A i \in DOMAIN path : HopOps(path)[i].from = ChainRoles[i] /\ HopOps(path)[i].to = ChainRoles[i + 1]
<1> DEFINE hops == HopOps(path)
<1>1. /\ hops = [i \in DOMAIN path |-> hops[i]]
      /\ \A i \in DOMAIN path : /\ hops[i].op = "traverse_edge"
                                 /\ hops[i].from = ChainRoles[i] /\ hops[i].to = ChainRoles[i + 1]
  BY DEF HopOps
<1> HIDE DEF hops
<1>2. IsSequence(hops) /\ DOMAIN hops = DOMAIN path
  BY <1>1, MappedSequence
<1>3. \A o \in ToSet(hops) : o.op = "traverse_edge"
  BY <1>1, <1>2 DEF ToSet
<1>4. hops # << >>
  <2>1. ToSet(path) # {}
    BY SomeElement
  <2>2. ToSet(hops) # {}
    BY <1>2, <2>1 DEF ToSet
  <2> QED BY <1>2, <2>2, SomeElement
<1> QED BY <1>1, <1>2, <1>3, <1>4 DEF hops

LEMMA PathReadAllowed ==
  ASSUME NEW of, NEW among, NEW found, NEW filtered, NEW q, q = PathRead(of, among, found, filtered), q # Nothing
  PROVE  SequenceAllowed(q)
<1>1. \E items, filters : q = ReadAlong(of, among, items, filters, PathOf(of, among, OwnersShown(items)))
  BY DEF PathRead, ReadAs, ReadOf
<1>2. PICK items, filters : q = ReadAlong(of, among, items, filters, PathOf(of, among, OwnersShown(items)))
  BY <1>1
<1> DEFINE path == PathOf(of, among, OwnersShown(items))
           tail == << >>
<1>3. q = ReadAlong(of, among, items, filters, path)
  BY <1>2
<1>4. IsSequence(path)
  BY PathSequence
<1> HIDE DEF path
<1>5. q.shape = "single_hop_traversal" /\ q.ops = HopOps(path) \o tail /\ path # << >>
  BY <1>3 DEF ReadAlong, PathQuery
<1>6. IsSequence(tail) /\ ToSet(tail) = {} /\ DOMAIN tail = {}
  BY EmptySequence DEF ToSet
<1> HIDE DEF tail
<1> DEFINE hops == HopOps(path)
<1>7. /\ HopCount(OpNames(q)) = Len(hops) /\ Len(hops) > 0
      /\ After(OpNames(q), HopCount(OpNames(q))) = Kinds(tail)
  <2>1. IsSequence(hops) /\ hops # << >> /\ \A o \in ToSet(hops) : o.op = "traverse_edge"
    BY <1>4, <1>5, HopOpsAre
  <2>2. q.ops = hops \o tail /\ \A o \in ToSet(tail) : o.op # "traverse_edge"
    BY <1>5, <1>6
  <2> HIDE DEF hops
  <2> QED BY <1>6, <2>1, <2>2, ChainNames
<1>8. Kinds(tail) = << >>
  BY <1>6 DEF Kinds
<1> QED BY <1>5, <1>7, <1>8 DEF SequenceAllowed, OptionalTail

AlongPath(q, path) == q.vertices = VerticesByRole([i \in 1..(Len(path) + 1) |-> <<ChainRoles[i], PathVertices(path)[i]>>])

\* A ranking along a path: its hops, one group, one measure, an ordering and a limit.
Ranking(q, path, a, b, c) ==
  /\ IsSequence(path) /\ path # << >> /\ q.shape = "top_n" /\ q.ops = HopOps(path) \o <<a, b, c>>
  /\ AlongPath(q, path)
  /\ a.op = "aggregate" /\ b.op = "sort" /\ c.op = "limit" /\ q.filters = << >>
  /\ IsSequence(a.group) /\ IsSequence(a.measures)

LEMMA PathRankedIs ==
  ASSUME NEW of, NEW among, NEW q, q = PathRanked(of, among), q # Nothing
  PROVE  \E path, a, b, c : Ranking(q, path, a, b, c)
<1>1. \E group, measured, owners : q = RankedAlong(of, among, group, measured, PathOf(of, among, owners))
  BY DEF PathRanked, RankedIn, RankedOf, RankedBy
<1>2. PICK group, measured, owners : q = RankedAlong(of, among, group, measured, PathOf(of, among, owners))
  BY <1>1
<1> DEFINE path == PathOf(of, among, owners)
<1>3. q = RankedAlong(of, among, group, measured, path)
  BY <1>2
<1>4. IsSequence(path)
  BY PathSequence
<1> HIDE DEF path
<1> DEFINE roles == RolesOn(path)
           asked == Requirements(of)
           alias == <<Snake[measured[1]], "count">>
           prop == group[1]
           g == [form |-> "full", alias |-> PropertyAlias(prop), target |-> roles[prop[1]], prop |-> prop]
           m == [form |-> "full", alias |-> alias, function |-> "count", target |-> roles[measured[1]], prop |-> measured]
           a == [op |-> "aggregate", group |-> <<g>>, measures |-> <<m>>]
           b == [op |-> "sort", by |-> <<[source |-> <<"measure", alias>>, direction |-> asked.direction]>>]
           c == [op |-> "limit", value |-> asked.limit]
<1>5. path # << >> /\ \E shown : q = PathQuery("top_n", path, <<a, b, c>>, << >>, shown)
  BY <1>3 DEF RankedAlong
<1>6. a.op = "aggregate" /\ b.op = "sort" /\ c.op = "limit" /\ a.group = <<g>> /\ a.measures = <<m>>
  OBVIOUS
<1> HIDE DEF a, b, c, asked, alias, prop, roles, g, m
<1>7. /\ q.shape = "top_n" /\ q.ops = HopOps(path) \o <<a, b, c>> /\ q.filters = << >>
      /\ AlongPath(q, path)
  BY <1>5 DEF PathQuery, AlongPath
<1>8. IsSequence(a.group) /\ IsSequence(a.measures)
  BY <1>6, OneSequence
<1>9. Ranking(q, path, a, b, c)
  BY <1>4, <1>5, <1>6, <1>7, <1>8 DEF Ranking
<1> QED BY <1>9

LEMMA PathRankedAllowed ==
  ASSUME NEW of, NEW among, NEW q, q = PathRanked(of, among), q # Nothing
  PROVE  SequenceAllowed(q)
<1>1. PICK path, a, b, c : Ranking(q, path, a, b, c)
  BY PathRankedIs
<1> DEFINE tail == <<a, b, c>>
           hops == HopOps(path)
<1>2. IsSequence(tail) /\ ToSet(tail) = {a, b, c}
  BY ThreeSequence
<1>3. Kinds(tail) = <<"aggregate", "sort", "limit">>
  BY <1>1 DEF Kinds, Ranking
<1>4. \A o \in ToSet(tail) : o.op # "traverse_edge"
  BY <1>1, <1>2 DEF Ranking
<1>5. q.ops = hops \o tail /\ q.shape = "top_n"
  BY <1>1 DEF Ranking
<1>6. IsSequence(hops) /\ hops # << >> /\ \A o \in ToSet(hops) : o.op = "traverse_edge"
  BY <1>1, HopOpsAre DEF Ranking
<1> HIDE DEF tail, hops
<1>7. /\ HopCount(OpNames(q)) = Len(hops) /\ Len(hops) > 0
      /\ After(OpNames(q), HopCount(OpNames(q))) = Kinds(tail)
  BY <1>2, <1>4, <1>5, <1>6, ChainNames
<1> QED BY <1>3, <1>5, <1>7 DEF SequenceAllowed

LEMMA AssembledIs ==
  ASSUME NEW of, NEW among, NEW found, NEW q, q = Assembled(of, among, found), q # Nothing
  PROVE  \/ \E filtered : q = VertexRead(of, among, found, filtered)
         \/ q = VertexCounted(of, among, found)
         \/ \E filtered : q = PathRead(of, among, found, filtered)
         \/ q = PathRanked(of, among)
<1> DEFINE shape == ShapeOf(of)
<1>1. shape \in {"F1", "F2"} => q = VertexRead(of, among, found, shape = "F2")
  BY DEF Assembled
<1>2. shape = "F3" => q = VertexCounted(of, among, found)
  BY DEF Assembled
<1>3. shape \in {"F4", "F5"} => q = PathRead(of, among, found, shape = "F5")
  BY DEF Assembled
<1>4. shape = "F6" => q = PathRanked(of, among)
  BY DEF Assembled
<1>5. shape \in {"F1", "F2", "F3", "F4", "F5", "F6"}
  BY DEF Assembled
<1> HIDE DEF shape
<1> QED BY <1>1, <1>2, <1>3, <1>4, <1>5

LEMMA AssembledAllowed ==
  ASSUME NEW of, NEW among, NEW found, NEW q, q = Assembled(of, among, found), q # Nothing
  PROVE  SequenceAllowed(q)
BY AssembledIs, VertexReadAllowed, VertexCountedAllowed, PathReadAllowed, PathRankedAllowed

\* The parser never refuses the order of the operations, whoever wrote the query.
THEOREM SequencesAlwaysFit == Spec => []SequencesFit
<1>1. IInv => SequencesFit
  <2> SUFFICES ASSUME IInv, stage = "parsing" PROVE SequenceAllowed(query)
    BY DEF SequencesFit
  <2>1. CASE plan = Nothing
    BY <2>1, AssembledAllowed DEF IInv, Past
  <2>2. CASE plan # Nothing
    <3>1. Planned(plan) /\ Builds(plan) /\ query = Built(plan) /\ plan.shape \in Shapes
      BY <2>2 DEF IInv, Past, PlanIsValid
    <3> QED BY <3>1, BuiltAllowed
  <2> QED BY <2>1, <2>2
<1> QED BY <1>1, Invariant, PTL

-----------------------------------------------------------------------------
(* The schema.  What an expression reads or adds up was compared with the  *)
(* schema by the parser, on the vertex that MATCH gives its role.          *)

\* The expression reads a property that its vertex has, and adds up only numbers.
Found(q, e) ==
  LET prop == <<Labels(q)[e.role], e.name[1]>>
  IN /\ e.form \in {"property", "count", "sum", "avg", "min", "max"} => HasProperty(prop)
     /\ e.form \in {"sum", "avg"} => PropertyType(prop) \in NumericTypes

Expressions(c) == {r.expr : r \in ToSet(c.returns)} \cup {o.expr : o \in ToSet(c.order)} \cup c.with

\* The Cypher refers to the schema by its expressions and its conditions.
Referring(q, c) ==
  /\ \A e \in Expressions(c) : Found(q, e)
  /\ \A x \in ToSet(FiltersOf(q)) : HasProperty(<<Labels(q)[x.target], x.prop[2]>>)

Unsummed(c) == \A e \in Summed(c) : PropertyType(<<c.labels[e.role], e.name[1]>>) \in NumericTypes

LEMMA CypherIs ==
  ASSUME NEW q
  PROVE  /\ CypherOf(q).labels = Labels(q) /\ CypherOf(q).hops = MatchedHops(q) /\ CypherOf(q).where = Where(q)
         /\ CypherOf(q).with = IF q.shape = "two_step_aggregate" THEN Range(SourceExpressions(q)) ELSE {}
         /\ CypherOf(q).returns = Returns(q) /\ CypherOf(q).order = OrderBy(q)
BY DEF CypherOf

LEMMA WhereIs ==
  ASSUME NEW q, NEW w \in ToSet(Where(q))
  PROVE  \E x \in ToSet(FiltersOf(q)) : w.role = x.target /\ w.name = x.prop[2]
<1> DEFINE item(x) == [role |-> x.target, name |-> x.prop[2], op |-> x.op, literal |-> x.literal]
<1>1. Where(q) = [k \in DOMAIN FiltersOf(q) |-> item(FiltersOf(q)[k])]
  BY DEF Where, MapSeq
<1>2. \A x : item(x).role = x.target /\ item(x).name = x.prop[2]
  OBVIOUS
<1> HIDE DEF item
<1>3. PICK i \in DOMAIN FiltersOf(q) : w = item(FiltersOf(q)[i])
  BY <1>1 DEF ToSet
<1> QED BY <1>2, <1>3 DEF ToSet

LEMMA ReferencesFound ==
  ASSUME NEW q, NEW c, c = CypherOf(q), Referring(q, c)
  PROVE  PropertiesExist(c) /\ Unsummed(c)
<1>1. c.labels = Labels(q) /\ c.where = Where(q)
  BY CypherIs
<1>2. ASSUME NEW r \in Referred(c) PROVE HasProperty(<<c.labels[r[1]], r[2]>>)
  <2>1. CASE \E e \in Expressions(c) : /\ e.form \in {"property", "count", "sum", "avg", "min", "max"}
                                       /\ r = <<e.role, e.name[1]>>
    BY <1>1, <2>1 DEF Referring, Found
  <2>2. CASE \E w \in ToSet(c.where) : r = <<w.role, w.name>>
    <3>1. PICK w \in ToSet(c.where) : r = <<w.role, w.name>>
      BY <2>2
    <3>2. PICK x \in ToSet(FiltersOf(q)) : w.role = x.target /\ w.name = x.prop[2]
      BY <1>1, WhereIs
    <3> QED BY <1>1, <3>1, <3>2 DEF Referring
  <2> QED BY <2>1, <2>2 DEF Referred, Expressions
<1>3. Unsummed(c)
  BY <1>1 DEF Unsummed, Summed, Expressions, Referring, Found
<1> QED BY <1>2, <1>3 DEF PropertiesExist

\* What is shown of a role finds its property; whole vertices need none.
LEMMA ItemFound ==
  ASSUME NEW q, BoundLabels(q), ProjectionValid(q), NEW p \in ToSet(q.projection), p.kind # "source",
         p.target \in DOMAIN q.vertices => p.target \in DOMAIN Labels(q)
  PROVE  Found(q, ItemExpression(q, p))
<1>1. CASE p.kind = "full"
  <2>1. ItemExpression(q, p) = Expr("vertex", p.target, << >>)
    BY <1>1 DEF ItemExpression
  <2>2. ItemExpression(q, p).form = "vertex"
    BY <2>1 DEF Expr
  <2> QED BY <2>2 DEF Found
<1>2. CASE p.kind # "full"
  <2>1. ItemExpression(q, p) = Expr("property", p.target, <<p.prop[2]>>)
    BY <1>2 DEF ItemExpression, PropertyOf
  <2> DEFINE e == ItemExpression(q, p)
  <2>2. e.form = "property" /\ e.role = p.target /\ e.name[1] = p.prop[2]
    BY <2>1 DEF Expr
  <2>3. p.target \in DOMAIN q.vertices /\ q.vertices[p.target] = p.prop[1] /\ HasProperty(p.prop)
    BY <1>2 DEF ProjectionValid
  <2>4. Labels(q)[p.target] = p.prop[1] /\ p.prop = <<p.prop[1], p.prop[2]>>
    BY <2>3, PropertyIsPair DEF BoundLabels
  <2> HIDE DEF e
  <2>5. Found(q, e)
    BY <2>2, <2>3, <2>4 DEF Found
  <2> QED BY <2>5 DEF e
<1> QED BY <1>1, <1>2

\* What an ordering orders by: a returned name, or a known source.
LEMMA OrderedBy ==
  ASSUME NEW q, SourcesKnown(q), NEW o \in ToSet(OrderBy(q))
  PROVE  o.expr.form = "alias" \/ \E s \in DOMAIN KnownSources(q) : o.expr = KnownSources(q)[s]
<1> DEFINE by(s) == IF ReturnedAs(q, s.source) # << >> THEN Expr("alias", "", ReturnedAs(q, s.source))
                    ELSE KnownSources(q)[s.source]
           item(s) == [expr |-> by(s), direction |-> s.direction]
<1>1. CASE Ordered(q)
  <2>1. OrderBy(q) = [k \in DOMAIN SortsOf(q) |-> item(SortsOf(q)[k])]
    BY <1>1 DEF OrderBy, MapSeq
  <2>2. \A s : item(s).expr = by(s)
    OBVIOUS
  <2>3. \A s : ReturnedAs(q, s.source) # << >> => by(s).form = "alias"
    BY DEF Expr
  <2>4. \A s : ReturnedAs(q, s.source) = << >> => by(s) = KnownSources(q)[s.source]
    OBVIOUS
  <2> HIDE DEF by, item
  <2>5. PICK k \in DOMAIN SortsOf(q) : o = item(SortsOf(q)[k])
    BY <2>1 DEF ToSet
  <2>6. SortsOf(q)[k] \in ToSet(SortsOf(q))
    BY DEF ToSet
  <2>7. ReturnedAs(q, SortsOf(q)[k].source) # << >> \/ SortsOf(q)[k].source \in DOMAIN KnownSources(q)
    BY <1>1, <2>6 DEF SourcesKnown
  <2> QED BY <2>2, <2>3, <2>4, <2>5, <2>7
<1>2. CASE ~Ordered(q)
  <2>1. OrderBy(q) = << >>
    BY <1>2, Zenon DEF OrderBy
  <2> QED BY <2>1 DEF ToSet
<1> QED BY <1>1, <1>2

\* Every expression finds what it reads, if what is shown and what is computed does.
LEMMA ExpressionsFound ==
  ASSUME NEW q, q.shape # "named_path_pattern", SourcesKnown(q), ProjectionValid(q),
         q.shape \notin AggregateShapes =>
           BoundLabels(q) /\ \A x \in ToSet(q.projection) : x.target \in DOMAIN q.vertices => x.target \in DOMAIN Labels(q),
         \A s \in DOMAIN KnownSources(q) : Found(q, KnownSources(q)[s]),
         q.shape = "two_step_aggregate" => \A e \in Range(SourceExpressions(q)) : Found(q, e)
  PROVE  \A e \in Expressions(CypherOf(q)) : Found(q, e)
<1>1. ASSUME NEW r \in ToSet(Returns(q)) PROVE Found(q, r.expr)
  <2>1. PICK i \in DOMAIN q.projection : r.expr = ItemExpression(q, q.projection[i])
    BY <1>1, ReturnsAre DEF ToSet
  <2> DEFINE p == q.projection[i]
  <2>2. p \in ToSet(q.projection)
    BY DEF ToSet
  <2> HIDE DEF p
  <2>3. CASE q.shape \in AggregateShapes
    <3>1. p.kind = "source" /\ p.source \in DOMAIN KnownSources(q)
      BY <2>2, <2>3 DEF SourcesKnown
    <3>2. ItemExpression(q, p) = KnownSources(q)[p.source]
      BY <3>1 DEF ItemExpression
    <3> QED BY <2>1, <3>1, <3>2 DEF p
  <2>4. CASE q.shape \notin AggregateShapes
    <3>1. p.kind # "source"
      BY <2>2, <2>4 DEF SourcesKnown
    <3> QED BY <2>1, <2>2, <2>4, <3>1, ItemFound DEF p
  <2> QED BY <2>3, <2>4
<1>2. ASSUME NEW o \in ToSet(OrderBy(q)) PROVE Found(q, o.expr)
  <2>1. CASE o.expr.form = "alias"
    BY <2>1 DEF Found
  <2>2. CASE \E s \in DOMAIN KnownSources(q) : o.expr = KnownSources(q)[s]
    BY <2>2
  <2> QED BY <1>2, <2>1, <2>2, OrderedBy
<1>3. \A e \in CypherOf(q).with : Found(q, e)
  <2>1. CASE q.shape = "two_step_aggregate"
    BY <2>1, CypherIs
  <2>2. CASE q.shape # "two_step_aggregate"
    BY <2>2, CypherIs
  <2> QED BY <2>1, <2>2
<1>4. CypherOf(q).returns = Returns(q) /\ CypherOf(q).order = OrderBy(q)
  BY CypherIs
<1> QED BY <1>1, <1>2, <1>3, <1>4 DEF Expressions

\* What is filtered by is a property of the vertex whose role it is.
LEMMA FiltersFound ==
  ASSUME NEW q, CompilationOutcome(q) = "ok", BoundLabels(q), NEW x \in ToSet(FiltersOf(q)),
         x.target # "" => q.vertices[x.target] = x.prop[1], HasProperty(x.prop)
  PROVE  HasProperty(<<Labels(q)[x.target], x.prop[2]>>)
<1>1. x.target # "" /\ x.target \in DOMAIN Labels(q)
  BY CompiledFilter
<1>2. Labels(q)[x.target] = x.prop[1]
  BY <1>1 DEF BoundLabels
<1> QED BY <1>2, PropertyIsPair

\* The hops are those the parser compared with the edges.
LEMMA HopsMatch ==
  ASSUME NEW q, IsSequence(q.ops), QueryParses(q), q.shape # "variable_path_traversal",
         IsChain(q) => ~IsMetric(q) /\ q.shape \in {"single_hop_traversal", "top_n"}
  PROVE  MatchesSchema(CypherOf(q))
<1> DEFINE step(h) == [from |-> h.from, edge |-> q.edges[h.edge], to |-> h.to, dir |-> h.dir, max |-> 1]
<1>1. MatchedHops(q) = [i \in DOMAIN HopsOf(q) |-> step(HopsOf(q)[i])]
  BY DEF MatchedHops, MapSeq
<1>2. \A h : step(h).from = h.from /\ step(h).edge = q.edges[h.edge] /\ step(h).to = h.to /\ step(h).dir = h.dir
  OBVIOUS
<1> HIDE DEF step
<1>3. ASSUME NEW g \in ToSet(MatchedHops(q))
      PROVE  Joins(g.edge, Labels(q)[g.from], Labels(q)[g.to], g.dir)
  <2>1. PICK i \in DOMAIN HopsOf(q) : g = step(HopsOf(q)[i])
    BY <1>1, <1>3 DEF ToSet
  <2> DEFINE h == HopsOf(q)[i]
  <2>2. h \in ToSet(HopsOf(q))
    BY DEF ToSet
  <2> HIDE DEF h
  <2>3. h \in ToSet(q.ops) /\ h.op = "traverse_edge"
    BY <2>2, OpsAre DEF HopsOf
  <2>4. HopIsValid(q, h)
    BY <2>3 DEF QueryParses, OpIsValid
  <2>5. IsChain(q)
    BY <2>3 DEF IsChain
  <2>6. Labels(q) = [r \in UNION {{o.from, o.to} : o \in ToSet(HopsOf(q))} |-> q.vertices[r]]
    BY <2>5 DEF Labels
  <2>7. Labels(q)[h.from] = q.vertices[h.from] /\ Labels(q)[h.to] = q.vertices[h.to]
    BY <2>2, <2>6
  <2> QED BY <1>2, <2>1, <2>4, <2>7 DEF HopIsValid, h
<1> QED BY <1>3, CypherIs DEF MatchesSchema

\* The last of some places of a sequence is one of them.
LEMMA LastPlace ==
  ASSUME NEW s, IsSequence(s), NEW T \in SUBSET DOMAIN s, T # {}
  PROVE  Max(T) \in T
<1>1. Len(s) \in Nat /\ DOMAIN s = 1..Len(s)
  BY SequenceIs
<1> DEFINE N == Len(s)
           R == {n \in Nat : N - n \in T}
<1>2. R # {}
  <2>1. PICK i \in T : TRUE
    OBVIOUS
  <2>2. N - i \in Nat /\ N - (N - i) = i
    BY <1>1
  <2> QED BY <2>1, <2>2
<1>3. PICK n \in R : \A m \in R : n <= m
  BY <1>2, Least
<1>4. ASSUME NEW j \in T PROVE N - n >= j
  <2>1. N - j \in Nat /\ N - (N - j) = j
    BY <1>1
  <2>2. n <= N - j
    BY <1>3, <2>1
  <2> QED BY <1>1, <1>3, <2>1, <2>2
<1>5. N - n \in T
  BY <1>3
<1> QED BY <1>4, <1>5 DEF Max

\* What is grouped by and measured is computed from what the parser looked at.
LEMMA ComputedFound ==
  ASSUME NEW q, NEW op, op = PrimaryOf(q), op.op \in {"aggregate", "subquery"}, IsSequence(op.group), IsSequence(op.measures),
         AggregateValid(q, op), BoundLabels(q),
         \A x \in ToSet(op.group) \cup ToSet(op.measures) : x.target \in DOMAIN q.vertices => x.target \in DOMAIN Labels(q)
  PROVE  \A s \in DOMAIN SourceExpressions(q) : Found(q, SourceExpressions(q)[s])
<1> DEFINE last(items, alias) == items[Max({i \in DOMAIN items : items[i].alias = alias})]
           read(x) == PropertyOf(x.target, x.prop[2])
           computed(x) == Expr(x.function, x.target, <<x.prop[2]>>)
           group == {<<"group", x.alias>> : x \in ToSet(op.group)}
           measures == {<<"measure", x.alias>> : x \in ToSet(op.measures)}
<1>1. SourceExpressions(q) = [s \in group \cup measures |-> IF s[1] = "group" THEN read(last(op.group, s[2]))
                                                           ELSE computed(last(op.measures, s[2]))]
  BY Zenon DEF SourceExpressions
<1>2. ASSUME NEW items, IsSequence(items), NEW x \in ToSet(items) PROVE last(items, x.alias) \in ToSet(items)
  <2> DEFINE places == {i \in DOMAIN items : items[i].alias = x.alias}
  <2>1. places \in SUBSET DOMAIN items /\ places # {}
    BY <1>2 DEF ToSet
  <2> HIDE DEF places
  <2>2. Max(places) \in places
    BY <1>2, <2>1, LastPlace
  <2>3. Max(places) \in DOMAIN items
    BY <2>1, <2>2
  <2> QED BY <2>3 DEF ToSet, places
<1>3. ASSUME NEW x \in ToSet(op.group) \cup ToSet(op.measures)
      PROVE  Labels(q)[x.target] = x.prop[1] /\ HasProperty(x.prop) /\ x.prop = <<x.prop[1], x.prop[2]>>
  <2>1. x.target \in DOMAIN q.vertices /\ q.vertices[x.target] = x.prop[1] /\ HasProperty(x.prop)
    BY DEF AggregateValid
  <2> QED BY <2>1, PropertyIsPair DEF BoundLabels
<1>4. ASSUME NEW x \in ToSet(op.group) PROVE Found(q, read(x))
  <2> DEFINE e == read(x)
  <2>1. e.form = "property" /\ e.role = x.target /\ e.name[1] = x.prop[2]
    BY DEF PropertyOf, Expr
  <2> HIDE DEF e
  <2>2. Found(q, e)
    BY <1>3, <2>1 DEF Found
  <2> QED BY <2>2 DEF e
<1>5. ASSUME NEW x \in ToSet(op.measures) PROVE Found(q, computed(x))
  <2> DEFINE e == computed(x)
  <2>1. e.form = x.function /\ e.role = x.target /\ e.name[1] = x.prop[2]
    BY DEF Expr
  <2> HIDE DEF e
  <2>2. x.function \in {"sum", "avg"} => PropertyType(x.prop) \in NumericTypes
    BY DEF AggregateValid
  <2>3. Found(q, e)
    BY <1>3, <2>1, <2>2 DEF Found
  <2> QED BY <2>3 DEF e
<1> HIDE DEF last, read, computed
<1>6. ASSUME NEW s \in group PROVE Found(q, SourceExpressions(q)[s])
  <2>1. PICK x \in ToSet(op.group) : s = <<"group", x.alias>>
    OBVIOUS
  <2>2. s[1] = "group" /\ s[2] = x.alias
    BY <2>1
  <2>3. SourceExpressions(q)[s] = read(last(op.group, x.alias))
    BY <1>1, <2>2
  <2> QED BY <1>2, <1>4, <2>3
<1>7. ASSUME NEW s \in measures PROVE Found(q, SourceExpressions(q)[s])
  <2>1. PICK x \in ToSet(op.measures) : s = <<"measure", x.alias>>
    OBVIOUS
  <2>2. s[1] # "group" /\ s[2] = x.alias
    BY <2>1
  <2>3. SourceExpressions(q)[s] = computed(last(op.measures, x.alias))
    BY <1>1, <2>2
  <2> QED BY <1>2, <1>5, <2>3
<1> QED BY <1>1, <1>6, <1>7

\* A dimension of a metric is a property of the vertex of its alias.
LEMMA DimensionFound ==
  ASSUME NEW metric \in DOMAIN Metrics, NEW target, NEW prop, DimensionValid(metric, target, prop)
  PROVE  HasProperty(<<VertexByAlias(metric)[target], prop[2]>>)
<1>1. <<target, prop[1]>> \in AliasesOf(metric) /\ <<target, prop[2]>> \in Metrics[metric].dims
  BY DEF DimensionValid
<1>2. PICK i \in DOMAIN Metrics[metric].aliases :
        Metrics[metric].aliases[i][1] = target /\ HasProperty(<<Metrics[metric].aliases[i][2], prop[2]>>)
  <2>1. \A d \in Metrics[metric].dims : \E i \in DOMAIN Metrics[metric].aliases :
          Metrics[metric].aliases[i][1] = d[1] /\ HasProperty(<<Metrics[metric].aliases[i][2], d[2]>>)
    BY ModelAssumption DEF ModelIsValid
  <2>2. <<target, prop[2]>>[1] = target /\ <<target, prop[2]>>[2] = prop[2]
    OBVIOUS
  <2> QED BY <1>1, <2>1, <2>2
<1>3. \A j, k \in DOMAIN Metrics[metric].aliases : Metrics[metric].aliases[j][1] = Metrics[metric].aliases[k][1] => j = k
  BY ModelAssumption DEF ModelIsValid
<1>4. PICK k \in DOMAIN Metrics[metric].aliases : Metrics[metric].aliases[k] = <<target, prop[1]>>
  BY <1>1 DEF AliasesOf, ToSet
<1>5. Metrics[metric].aliases[k][1] = target /\ Metrics[metric].aliases[k][2] = prop[1]
  BY <1>4
<1>6. Metrics[metric].aliases[i][2] = prop[1]
  BY <1>2, <1>3, <1>5
<1>7. VertexByAlias(metric)[target] = prop[1]
  BY <1>1, AliasOfVertex
<1> QED BY <1>2, <1>6, <1>7

\* A metric's own dimensions are read from the vertices of its aliases.
LEMMA MetricFound ==
  ASSUME NEW q, NEW op, op = PrimaryOf(q), op.op = "metric_aggregate", op.name \in DOMAIN Metrics, IsSequence(op.group),
         Labels(q) = VertexByAlias(op.name), \A g \in ToSet(op.group) : DimensionValid(op.name, g.target, g.prop)
  PROVE  \A s \in DOMAIN SourceExpressions(q) : Found(q, SourceExpressions(q)[s])
<1> DEFINE last(items, alias) == items[Max({i \in DOMAIN items : items[i].alias = alias})]
           read(x) == PropertyOf(x.target, x.prop[2])
           whole(alias) == Expr("metric", "", alias)
           group == {<<"group", x.alias>> : x \in ToSet(op.group)}
           metric == {<<"metric", <<op.name>>>>}
<1>1. SourceExpressions(q) = [s \in group \cup metric |-> IF s[1] = "group" THEN read(last(op.group, s[2])) ELSE whole(s[2])]
  BY Zenon DEF SourceExpressions
<1>2. ASSUME NEW x \in ToSet(op.group) PROVE last(op.group, x.alias) \in ToSet(op.group)
  <2> DEFINE places == {i \in DOMAIN op.group : op.group[i].alias = x.alias}
  <2>1. places \in SUBSET DOMAIN op.group /\ places # {}
    BY DEF ToSet
  <2> HIDE DEF places
  <2>2. Max(places) \in places
    BY <2>1, LastPlace
  <2>3. Max(places) \in DOMAIN op.group
    BY <2>1, <2>2
  <2> QED BY <2>3 DEF ToSet, places
<1>3. ASSUME NEW x \in ToSet(op.group) PROVE Found(q, read(x))
  <2> DEFINE e == read(x)
  <2>1. e.form = "property" /\ e.role = x.target /\ e.name[1] = x.prop[2]
    BY DEF PropertyOf, Expr
  <2> HIDE DEF e
  <2>2. HasProperty(<<Labels(q)[x.target], x.prop[2]>>)
    BY DimensionFound
  <2>3. Found(q, e)
    BY <2>1, <2>2 DEF Found
  <2> QED BY <2>3 DEF e
<1>4. ASSUME NEW alias PROVE Found(q, whole(alias))
  <2>1. whole(alias).form = "metric"
    BY DEF Expr
  <2> QED BY <2>1 DEF Found
<1> HIDE DEF last, read, whole
<1>5. ASSUME NEW s \in group PROVE Found(q, SourceExpressions(q)[s])
  <2>1. PICK x \in ToSet(op.group) : s = <<"group", x.alias>>
    OBVIOUS
  <2>2. s[1] = "group" /\ s[2] = x.alias
    BY <2>1
  <2>3. SourceExpressions(q)[s] = read(last(op.group, x.alias))
    BY <1>1, <2>2
  <2> QED BY <1>2, <1>3, <2>3
<1>6. ASSUME NEW s \in metric PROVE Found(q, SourceExpressions(q)[s])
  <2>1. s[1] # "group"
    OBVIOUS
  <2>2. SourceExpressions(q)[s] = whole(s[2])
    BY <1>1, <2>1
  <2> QED BY <1>4, <2>2
<1> QED BY <1>1, <1>5, <1>6

\* Once compiled, the query is in order with the schema, but for the ends of a path of
\* many hops and the operators of its conditions.
Fits(q) ==
  /\ PropertiesExist(CypherOf(q)) /\ Unsummed(CypherOf(q))
  /\ q.shape # "variable_path_traversal" => MatchesSchema(CypherOf(q))

LEMMA CompiledSources == \A q : CompilationOutcome(q) = "ok" => SourcesKnown(q)
BY DEF CompilationOutcome

\* Rows: a lookup or a chain of hops.
LEMMA RowsFit ==
  ASSUME NEW q, q.shape \in {"vertex_lookup", "single_hop_traversal"}, IsSequence(q.ops),
         QueryParses(q), CompilationOutcome(q) = "ok",
         ~IsMetric(q), IsChain(q) => q.shape = "single_hop_traversal", BoundLabels(q), BoundTargets(q)
  PROVE  Fits(q)
<1>1. FiltersOf(q) = q.filters
  BY DEF FiltersOf
<1>2. \A x \in ToSet(FiltersOf(q)) : HasProperty(<<Labels(q)[x.target], x.prop[2]>>)
  <2>1. ASSUME NEW x \in ToSet(q.filters) PROVE HasProperty(x.prop) /\ (x.target # "" => q.vertices[x.target] = x.prop[1])
    BY DEF QueryParses, FiltersValid
  <2> QED BY <1>1, <2>1, FiltersFound
<1>3. KnownSources(q) = << >>
  BY DEF KnownSources, IsAggregate
<1>4. \A s \in DOMAIN KnownSources(q) : Found(q, KnownSources(q)[s])
  BY <1>3
<1>5. SourcesKnown(q) /\ ProjectionValid(q)
  BY CompiledSources DEF QueryParses
<1>6. q.shape # "named_path_pattern" /\ q.shape # "two_step_aggregate"
  OBVIOUS
<1>7. \A e \in Expressions(CypherOf(q)) : Found(q, e)
  BY <1>4, <1>5, <1>6, ExpressionsFound DEF BoundTargets
<1>8. PropertiesExist(CypherOf(q)) /\ Unsummed(CypherOf(q))
  BY <1>2, <1>7, ReferencesFound DEF Referring
<1>9. MatchesSchema(CypherOf(q))
  BY HopsMatch
<1> QED BY <1>8, <1>9 DEF Fits

\* An aggregate of its own.
LEMMA AggregateFits ==
  ASSUME NEW q, q.shape \in {"ad_hoc_aggregate", "top_n", "two_step_aggregate"}, IsSequence(q.ops),
         QueryParses(q), CompilationOutcome(q) = "ok",
         NEW op \in ToSet(q.ops), op = PrimaryOf(q), op.op \in {"aggregate", "subquery"},
         IsSequence(op.group), IsSequence(op.measures),
         ~IsMetric(q), IsChain(q) => q.shape = "top_n", BoundLabels(q),
         \A x \in ToSet(op.group) \cup ToSet(op.measures) : x.target \in DOMAIN q.vertices => x.target \in DOMAIN Labels(q)
  PROVE  Fits(q)
<1>1. AggregateValid(q, op)
  <2>1. OpIsValid(q, op)
    BY DEF QueryParses
  <2> QED BY <2>1 DEF OpIsValid, SubqueryValid
<1>2. \A s \in DOMAIN SourceExpressions(q) : Found(q, SourceExpressions(q)[s])
  BY <1>1, ComputedFound
<1>3. \A x \in ToSet(FiltersOf(q)) : HasProperty(<<Labels(q)[x.target], x.prop[2]>>)
  <2>1. ASSUME NEW x \in ToSet(q.filters) PROVE HasProperty(x.prop) /\ (x.target # "" => q.vertices[x.target] = x.prop[1])
    BY DEF QueryParses, FiltersValid
  <2>2. CASE q.shape = "two_step_aggregate"
    <3>1. FiltersOf(q) = << >>
      BY <2>2 DEF FiltersOf
    <3> QED BY <3>1 DEF ToSet
  <2>3. CASE q.shape # "two_step_aggregate"
    <3>1. FiltersOf(q) = q.filters
      BY <2>3 DEF FiltersOf
    <3> QED BY <2>1, <3>1, FiltersFound
  <2> QED BY <2>2, <2>3
<1>4. \A s \in DOMAIN KnownSources(q) : Found(q, KnownSources(q)[s])
  <2>1. CASE q.shape = "two_step_aggregate"
    <3>1. KnownSources(q) = SubquerySources(op)
      BY <2>1 DEF KnownSources
    <3>2. ASSUME NEW s \in DOMAIN SubquerySources(op) PROVE SubquerySources(op)[s].form = "output"
      BY DEF SubquerySources, Expr
    <3> QED BY <3>1, <3>2 DEF Found
  <2>2. CASE q.shape # "two_step_aggregate"
    <3>1. KnownSources(q) = SourceExpressions(q)
      BY <2>2 DEF KnownSources, IsAggregate
    <3> QED BY <1>2, <3>1
  <2> QED BY <2>1, <2>2
<1>5. SourcesKnown(q) /\ ProjectionValid(q)
  BY CompiledSources DEF QueryParses
<1>6. \A e \in Range(SourceExpressions(q)) : Found(q, e)
  BY <1>2 DEF Range
<1>7. q.shape # "named_path_pattern" /\ q.shape \in AggregateShapes
  BY DEF AggregateShapes
<1>8. \A e \in Expressions(CypherOf(q)) : Found(q, e)
  BY <1>4, <1>5, <1>6, <1>7, ExpressionsFound
<1>9. PropertiesExist(CypherOf(q)) /\ Unsummed(CypherOf(q))
  BY <1>3, <1>8, ReferencesFound DEF Referring
<1>10. MatchesSchema(CypherOf(q))
  BY HopsMatch
<1> QED BY <1>9, <1>10 DEF Fits

\* A metric.
LEMMA MetricFits ==
  ASSUME NEW q, q.shape \in {"metric_aggregate", "top_n"}, IsSequence(q.ops),
         QueryParses(q), CompilationOutcome(q) = "ok",
         NEW op \in ToSet(q.ops), op = PrimaryOf(q), op.op = "metric_aggregate", op.name \in DOMAIN Metrics,
         IsSequence(op.group), IsMetric(q), ~IsChain(q)
  PROVE  Fits(q)
<1>1. Labels(q) = VertexByAlias(op.name)
  BY DEF Labels
<1>2. /\ \A g \in ToSet(op.group) : DimensionValid(op.name, g.target, g.prop)
      /\ \A x \in ToSet(op.filters) : DimensionValid(op.name, x.target, x.prop)
  <2>1. OpIsValid(q, op)
    BY DEF QueryParses
  <2> QED BY <2>1 DEF OpIsValid
<1>3. \A s \in DOMAIN SourceExpressions(q) : Found(q, SourceExpressions(q)[s])
  BY <1>1, <1>2, MetricFound
<1>4. \A x \in ToSet(FiltersOf(q)) : HasProperty(<<Labels(q)[x.target], x.prop[2]>>)
  <2>1. FiltersOf(q) = op.filters
    BY DEF FiltersOf
  <2> QED BY <1>1, <1>2, <2>1, DimensionFound
<1>5. KnownSources(q) = SourceExpressions(q)
  BY DEF KnownSources
<1>6. SourcesKnown(q) /\ ProjectionValid(q)
  BY CompiledSources DEF QueryParses
<1>7. q.shape # "named_path_pattern" /\ q.shape # "two_step_aggregate" /\ q.shape \in AggregateShapes
  BY DEF AggregateShapes
<1>8. \A e \in Expressions(CypherOf(q)) : Found(q, e)
  BY <1>3, <1>5, <1>6, <1>7, ExpressionsFound
<1>9. PropertiesExist(CypherOf(q)) /\ Unsummed(CypherOf(q))
  BY <1>4, <1>8, ReferencesFound DEF Referring
<1>10. MatchesSchema(CypherOf(q))
  BY HopsMatch
<1> QED BY <1>9, <1>10 DEF Fits

\* A named path: its template reads what it reads.
LEMMA NamedPathFits ==
  ASSUME NEW q, q.shape = "named_path_pattern", IsSequence(q.ops), QueryParses(q), ~IsChain(q), ~IsMetric(q)
  PROVE  Fits(q)
<1> DEFINE item(o) == [expr |-> Expr("template", "", o), alias |-> o]
           outputs == PathPatterns[PrimaryOf(q).name].outputs
<1>1. Returns(q) = [i \in DOMAIN outputs |-> item(outputs[i])]
  BY Zenon DEF Returns, MapSeq
<1>2. \A o : item(o).expr.form = "template"
  BY DEF Expr
<1> HIDE DEF item, outputs
<1>3. \A r \in ToSet(Returns(q)) : r.expr.form = "template"
  BY <1>1, <1>2 DEF ToSet
<1>4. ToSet(OrderBy(q)) = {}
  <2>1. ~Ordered(q)
    BY DEF Ordered, AggregateShapes
  <2>2. OrderBy(q) = << >>
    BY <2>1, Zenon DEF OrderBy
  <2> QED BY <2>2 DEF ToSet
<1>5. ToSet(FiltersOf(q)) = {}
  <2>1. FiltersOf(q) = << >>
    BY DEF FiltersOf
  <2> QED BY <2>1 DEF ToSet
<1>6. \A e \in Expressions(CypherOf(q)) : Found(q, e)
  <2>1. CypherOf(q).with = {} /\ CypherOf(q).returns = Returns(q) /\ CypherOf(q).order = OrderBy(q)
    BY CypherIs
  <2>2. \A e \in Expressions(CypherOf(q)) : e.form = "template"
    BY <1>3, <1>4, <2>1 DEF Expressions
  <2> QED BY <2>2 DEF Found
<1>7. PropertiesExist(CypherOf(q)) /\ Unsummed(CypherOf(q))
  BY <1>5, <1>6, ReferencesFound DEF Referring
<1>8. MatchesSchema(CypherOf(q))
  BY HopsMatch
<1> QED BY <1>7, <1>8 DEF Fits

LEMMA FilterItemsSequence ==
  ASSUME NEW roles, NEW filters, IsSequence(filters)
  PROVE  IsSequence(FilterItems(filters, roles))
<1>1. FilterItems(filters, roles) = [i \in DOMAIN filters |-> FilterItem(filters[i], roles)]
  BY DEF FilterItems, MapSeq
<1>2. FilterItems(filters, roles) = [i \in DOMAIN filters |-> FilterItems(filters, roles)[i]]
  BY <1>1
<1> QED BY <1>2, MappedSequence

\* A path of many hops is one operation, with filters of its own, on two roles.
LEMMA VariablePathParts ==
  ASSUME NEW p, NEW q, q = VariablePath(p), IsSequence(p.filters)
  PROVE  \E op : /\ q.ops = <<op>> /\ q.shape = p.shape /\ op.op = "variable_path"
                 /\ op.start = "start" /\ op.through = "through" /\ DOMAIN q.vertices = {"start", "through"}
                 /\ IsSequence(op.filters) /\ IsSequence(q.filters)
<1> DEFINE through == {i \in DOMAIN p.filters : p.filters[i].prop[1] = p.vertices[2]}
           inside == Selected(p.filters, through)
           outside == Selected(p.filters, DOMAIN p.filters \ through)
           bound == <<<<"start", p.vertices[1]>>, <<"through", p.vertices[2]>>>>
           roles == RolesByOwner(bound)
           op == [op |-> "variable_path", start |-> "start", through |-> "through",
                  filters |-> FilterItems(inside, roles), edges |-> <<p.edges[1].name>>, min |-> 1, max |-> MaxHops]
<1>1. /\ q.ops = <<op>> /\ q.shape = p.shape /\ q.vertices = VerticesByRole(bound)
      /\ q.filters = FilterItems(outside, roles)
  BY DEF VariablePath
<1>2. op.op = "variable_path" /\ op.start = "start" /\ op.through = "through" /\ op.filters = FilterItems(inside, roles)
  OBVIOUS
<1>3. DOMAIN VerticesByRole(bound) = {"start", "through"}
  <2>1. ToSet(bound) = {<<"start", p.vertices[1]>>, <<"through", p.vertices[2]>>}
    BY DEF ToSet
  <2>2. {b[1] : b \in ToSet(bound)} = {"start", "through"}
    BY <2>1
  <2> QED BY <2>2 DEF VerticesByRole
<1>4. IsSequence(inside) /\ IsSequence(outside)
  BY SelectedSequence
<1> HIDE DEF through, inside, outside, bound, roles, op
<1>5. \A filters : IsSequence(filters) => IsSequence(FilterItems(filters, roles))
  BY FilterItemsSequence
<1> QED BY <1>1, <1>2, <1>3, <1>4, <1>5

LEMMA VariablePathFits ==
  ASSUME NEW p, NEW q, q = VariablePath(p), p.shape = "variable_path_traversal", IsSequence(p.filters),
         QueryParses(q), CompilationOutcome(q) = "ok"
  PROVE  Fits(q)
<1>1. PICK op : /\ q.ops = <<op>> /\ q.shape = p.shape /\ op.op = "variable_path"
                /\ op.start = "start" /\ op.through = "through" /\ DOMAIN q.vertices = {"start", "through"}
                /\ IsSequence(op.filters) /\ IsSequence(q.filters)
  BY VariablePathParts
<1>2. ToSet(q.ops) = {op}
  BY <1>1, OneSequence
<1>3. ~IsMetric(q) /\ ~IsChain(q) /\ PrimaryOf(q) = op
  BY <1>1, <1>2 DEF IsMetric, IsChain, PrimaryOf
<1>4. BoundLabels(q) /\ DOMAIN Labels(q) = {"start", "through"}
  BY <1>1, <1>3 DEF BoundLabels, Labels
<1>5. FiltersOf(q) = op.filters \o q.filters
  BY <1>1, <1>3 DEF FiltersOf
<1>6. ToSet(FiltersOf(q)) = ToSet(op.filters) \cup ToSet(q.filters)
  BY <1>1, <1>5, ConcatElements
<1>7. \A x \in ToSet(FiltersOf(q)) : HasProperty(<<Labels(q)[x.target], x.prop[2]>>)
  <2>1. ASSUME NEW x \in ToSet(q.filters) PROVE HasProperty(x.prop) /\ (x.target # "" => q.vertices[x.target] = x.prop[1])
    BY DEF QueryParses, FiltersValid
  <2>2. FiltersValid(op.filters, [r \in {op.through} |-> q.vertices[r]])
    BY <1>1, <1>2 DEF QueryParses, OpIsValid
  <2>3. ASSUME NEW x \in ToSet(op.filters) PROVE HasProperty(x.prop) /\ (x.target # "" => q.vertices[x.target] = x.prop[1])
    BY <2>2 DEF FiltersValid
  <2> QED BY <1>4, <1>6, <2>1, <2>3, FiltersFound
<1>8. KnownSources(q) = << >>
  BY <1>1, <1>3 DEF KnownSources, IsAggregate
<1>9. \A s \in DOMAIN KnownSources(q) : Found(q, KnownSources(q)[s])
  BY <1>8
<1>10. SourcesKnown(q) /\ ProjectionValid(q)
  BY CompiledSources DEF QueryParses
<1>11. q.shape # "named_path_pattern" /\ q.shape # "two_step_aggregate"
  BY <1>1
<1>12. \A x \in ToSet(q.projection) : x.target \in DOMAIN q.vertices => x.target \in DOMAIN Labels(q)
  BY <1>1, <1>4
<1>13. \A e \in Expressions(CypherOf(q)) : Found(q, e)
  BY <1>4, <1>9, <1>10, <1>11, <1>12, ExpressionsFound
<1>14. PropertiesExist(CypherOf(q)) /\ Unsummed(CypherOf(q))
  BY <1>7, <1>13, ReferencesFound DEF Referring
<1> QED BY <1>1, <1>14 DEF Fits

\* A lookup binds what it filters by and shows.
LEMMA LookupBinds ==
  ASSUME NEW q, q.shape = "vertex_lookup", IsSequence(q.ops), SequenceAllowed(q), DOMAIN q.vertices = {"target"}
  PROVE  ~IsMetric(q) /\ ~IsChain(q) /\ BoundLabels(q) /\ BoundTargets(q)
<1>1. \A o \in ToSet(q.ops) : o.op = "limit"
  <2>1. OpNames(q) \in {<< >>, <<"limit">>}
    BY DEF SequenceAllowed
  <2>2. OpNames(q) = [i \in DOMAIN q.ops |-> q.ops[i].op]
    BY NamesAre
  <2>3. \A i \in DOMAIN OpNames(q) : OpNames(q)[i] = "limit"
    BY <2>1
  <2> HIDE DEF OpNames
  <2> QED BY <2>2, <2>3 DEF ToSet
<1>2. ~IsMetric(q) /\ ~IsChain(q)
  BY <1>1 DEF IsMetric, IsChain
<1>3. BoundLabels(q) /\ \A x \in ToSet(q.projection) : x.target # "" => x.target \in DOMAIN Labels(q)
  BY <1>2 DEF BoundLabels, Labels
<1> QED BY <1>2, <1>3 DEF BoundTargets

\* Every vertex is an end of a hop.
EndsOnly(q) == \A r \in DOMAIN q.vertices : \E h \in ToSet(q.ops) : h.op = "traverse_edge" /\ r \in {h.from, h.to}

\* A chain binds the ends of its hops.
LEMMA ChainBinds ==
  ASSUME NEW q, q.shape \in {"single_hop_traversal", "top_n"}, IsSequence(q.ops), ~IsMetric(q), IsChain(q),
         EndsOnly(q)
  PROVE  BoundLabels(q) /\ DOMAIN q.vertices \subseteq DOMAIN Labels(q)
<1>1. ToSet(HopsOf(q)) = {o \in ToSet(q.ops) : o.op = "traverse_edge"}
  BY OpsAre DEF HopsOf
<1>2. Labels(q) = [r \in UNION {{h.from, h.to} : h \in ToSet(HopsOf(q))} |-> q.vertices[r]]
  BY DEF Labels
<1> QED BY <1>1, <1>2 DEF BoundLabels, EndsOnly

\* The roles of an assembled path are the ends of its hops.
LEMMA PathRoles ==
  ASSUME NEW path, IsSequence(path), path # << >>, NEW tail, IsSequence(tail), NEW q, q.ops = HopOps(path) \o tail,
         AlongPath(q, path)
  PROVE  /\ IsChain(q)
         /\ EndsOnly(q)
<1> DEFINE hops == HopOps(path)
           N == Len(path)
           bound == [i \in 1..(N + 1) |-> <<ChainRoles[i], PathVertices(path)[i]>>]
<1>1. /\ IsSequence(hops) /\ hops # << >> /\ DOMAIN hops = DOMAIN path
      /\ \A o \in ToSet(hops) : o.op = "traverse_edge"
      /\ \A i \in DOMAIN path : hops[i].from = ChainRoles[i] /\ hops[i].to = ChainRoles[i + 1]
  BY HopOpsAre
<1>2. N \in Nat /\ DOMAIN path = 1..N /\ N # 0
  BY SequenceIs
<1>3. q.ops = hops \o tail /\ q.vertices = VerticesByRole(bound)
  BY DEF AlongPath
<1>4. \A i \in 1..(N + 1) : bound[i][1] = ChainRoles[i]
  OBVIOUS
<1>5. DOMAIN bound = 1..(N + 1)
  OBVIOUS
<1> HIDE DEF hops, N, bound
<1>6. ToSet(q.ops) = ToSet(hops) \cup ToSet(tail)
  BY <1>1, <1>3, ConcatElements
<1>7. \A i \in DOMAIN path : hops[i] \in ToSet(q.ops) /\ hops[i].op = "traverse_edge"
  BY <1>1, <1>6 DEF ToSet
<1>8. IsChain(q)
  <2>1. 1 \in DOMAIN path
    BY <1>2
  <2> QED BY <1>7, <2>1 DEF IsChain
<1>9. ASSUME NEW r \in DOMAIN q.vertices PROVE \E h \in ToSet(q.ops) : h.op = "traverse_edge" /\ r \in {h.from, h.to}
  <2>1. PICK i \in 1..(N + 1) : r = ChainRoles[i]
    <3>1. DOMAIN VerticesByRole(bound) = {b[1] : b \in ToSet(bound)}
      BY DEF VerticesByRole
    <3>2. PICK b \in ToSet(bound) : r = b[1]
      BY <1>3, <3>1
    <3>3. PICK i \in DOMAIN bound : b = bound[i]
      BY DEF ToSet
    <3> QED BY <1>4, <1>5, <3>2, <3>3
  <2>2. CASE i <= N
    <3>1. i \in DOMAIN path
      BY <1>2, <2>2
    <3> QED BY <1>1, <1>7, <2>1, <3>1
  <2>3. CASE ~(i <= N)
    <3>1. N \in DOMAIN path /\ i = N + 1
      BY <1>2, <2>3
    <3> QED BY <1>1, <1>7, <2>1, <3>1
  <2> QED BY <2>2, <2>3
<1> QED BY <1>8, <1>9 DEF EndsOnly

\* What the hops of an assembled path join, they bind.
LEMMA PathReadFits ==
  ASSUME NEW of, NEW among, NEW found, NEW filtered, NEW q, q = PathRead(of, among, found, filtered), q # Nothing,
         QueryParses(q), CompilationOutcome(q) = "ok"
  PROVE  Fits(q)
<1>1. \E items, filters : q = ReadAlong(of, among, items, filters, PathOf(of, among, OwnersShown(items)))
  BY DEF PathRead, ReadAs, ReadOf
<1>2. PICK items, filters : q = ReadAlong(of, among, items, filters, PathOf(of, among, OwnersShown(items)))
  BY <1>1
<1> DEFINE path == PathOf(of, among, OwnersShown(items))
           tail == << >>
<1>3. q = ReadAlong(of, among, items, filters, path)
  BY <1>2
<1>4. IsSequence(path)
  BY PathSequence
<1> HIDE DEF path
<1>5. /\ q.shape = "single_hop_traversal" /\ q.ops = HopOps(path) \o tail /\ path # << >>
      /\ AlongPath(q, path)
  BY <1>3 DEF ReadAlong, PathQuery, AlongPath
<1>6. IsSequence(tail) /\ ToSet(tail) = {}
  BY EmptySequence DEF ToSet
<1> HIDE DEF tail
<1>7. IsSequence(q.ops) /\ \A o \in ToSet(q.ops) : o.op = "traverse_edge"
  BY <1>4, <1>5, <1>6, PathQueryOps
<1>8. ~IsMetric(q)
  BY <1>7 DEF IsMetric
<1>9. /\ IsChain(q)
      /\ EndsOnly(q)
  BY <1>4, <1>5, <1>6, PathRoles
<1>0. q.shape \in {"single_hop_traversal", "top_n"} /\ q.shape \in {"vertex_lookup", "single_hop_traversal"} /\ IsSequence(q.ops)
  BY <1>5, <1>7
<1>10. BoundLabels(q) /\ DOMAIN q.vertices \subseteq DOMAIN Labels(q)
  BY <1>0, <1>8, <1>9, ChainBinds
<1>11. BoundTargets(q)
  BY <1>10 DEF BoundTargets
<1>12. IsChain(q) => q.shape = "single_hop_traversal"
  BY <1>5
<1> QED BY <1>0, <1>8, <1>10, <1>11, <1>12, RowsFit

LEMMA PathRankedFits ==
  ASSUME NEW of, NEW among, NEW q, q = PathRanked(of, among), q # Nothing, QueryParses(q), CompilationOutcome(q) = "ok"
  PROVE  Fits(q)
<1>1. PICK path, a, b, c : Ranking(q, path, a, b, c)
  BY PathRankedIs
<1> DEFINE tail == <<a, b, c>>
<1>2. IsSequence(tail) /\ ToSet(tail) = {a, b, c}
  BY ThreeSequence
<1> HIDE DEF tail
<1>3. /\ IsSequence(path) /\ path # << >> /\ q.shape = "top_n" /\ q.ops = HopOps(path) \o tail
      /\ AlongPath(q, path)
      /\ a.op = "aggregate" /\ b.op = "sort" /\ c.op = "limit"
      /\ IsSequence(a.group) /\ IsSequence(a.measures)
  BY <1>1 DEF Ranking, tail
<1>4. IsSequence(q.ops) /\ \A o \in ToSet(q.ops) : o.op = "traverse_edge" \/ o \in {a, b, c}
  BY <1>2, <1>3, PathQueryOps
<1>5. a \in ToSet(q.ops)
  <2>1. IsSequence(HopOps(path))
    BY <1>3, HopOpsAre
  <2> QED BY <1>2, <1>3, <2>1, ConcatElements
<1>6. /\ ~IsMetric(q)
      /\ \A o \in ToSet(q.ops) : o.op \in PrimaryKinds <=> o = a
  BY <1>3, <1>4 DEF IsMetric, PrimaryKinds
<1>7. PrimaryOf(q) = a
  BY <1>5, <1>6 DEF PrimaryOf, PrimaryKinds
<1>8. /\ IsChain(q)
      /\ EndsOnly(q)
  BY <1>2, <1>3, PathRoles
<1>0. /\ q.shape \in {"single_hop_traversal", "top_n"} /\ q.shape \in {"ad_hoc_aggregate", "top_n", "two_step_aggregate"}
      /\ IsChain(q) => q.shape = "top_n"
      /\ IsSequence(q.ops) /\ a.op \in {"aggregate", "subquery"}
      /\ IsSequence(a.group) /\ IsSequence(a.measures)
  BY <1>3, <1>4
<1>9. BoundLabels(q) /\ DOMAIN q.vertices \subseteq DOMAIN Labels(q)
  <2>1. ~IsMetric(q)
    BY <1>6
  <2> QED BY <1>0, <1>8, <2>1, ChainBinds
<1>10. \A x \in ToSet(a.group) \cup ToSet(a.measures) : x.target \in DOMAIN q.vertices => x.target \in DOMAIN Labels(q)
  BY <1>9
<1>11. ~IsMetric(q) /\ a = PrimaryOf(q) /\ BoundLabels(q)
  BY <1>6, <1>7, <1>9
<1> QED BY <1>0, <1>5, <1>10, <1>11, AggregateFits

\* An assembled lookup has the one role.
LEMMA VertexReadFits ==
  ASSUME NEW of, NEW among, NEW found, NEW filtered, NEW q, q = VertexRead(of, among, found, filtered), q # Nothing,
         QueryParses(q), CompilationOutcome(q) = "ok"
  PROVE  Fits(q)
<1>1. \E vertex, literals, items : q = VertexShown(of, among, vertex, literals, items)
  BY DEF VertexRead, VertexReadOf, VertexFiltered
<1>2. q.shape = "vertex_lookup" /\ DOMAIN q.vertices = {"target"}
  BY <1>1 DEF VertexShown, VertexQuery
<1>3. IsSequence(q.ops)
  BY VertexReadFormed DEF Formed
<1>4. SequenceAllowed(q)
  BY DEF QueryParses
<1>5. ~IsMetric(q) /\ ~IsChain(q) /\ BoundLabels(q) /\ BoundTargets(q)
  BY <1>2, <1>3, <1>4, LookupBinds
<1> QED BY <1>2, <1>3, <1>5, RowsFit

LEMMA TwoSequence == \A a, b : IsSequence(<<a, b>>)
<1> SUFFICES ASSUME NEW a, NEW b PROVE IsSequence(<<a, b>>)
  OBVIOUS
<1>1. <<a, b>> \in Seq({a, b})
  OBVIOUS
<1> QED BY <1>1, SequenceOf

\* What an assembled count measures.
LEMMA MeasuresSequence ==
  ASSUME NEW vertex, NEW property, NEW entity, IsSequence(property)
  PROVE  IsSequence(MeasuresFrom(vertex, property, entity))
<1>1. \/ \E a : MeasuresFrom(vertex, property, entity) = <<a>>
      \/ MeasuresFrom(vertex, property, entity) = property
      \/ \E a, b : MeasuresFrom(vertex, property, entity) = <<a, b>>
  BY DEF MeasuresFrom
<1>2. \A a, b : IsSequence(<<a, b>>)
  BY TwoSequence
<1> QED BY <1>1, <1>2, OneSequence

LEMMA CountedSequence == \A of, vertex : IsSequence(Measures(of, vertex))
<1> SUFFICES ASSUME NEW of, NEW vertex PROVE IsSequence(Measures(of, vertex))
  OBVIOUS
<1>1. \/ PropertyMeasure(of, vertex) = << >>
      \/ \E a : PropertyMeasure(of, vertex) = <<a>>
  BY DEF PropertyMeasure, PropertyMeasuredBy, PropertyCounted, MeasureOf
<1>2. IsSequence(PropertyMeasure(of, vertex))
  BY <1>1, EmptySequence, OneSequence
<1> QED BY <1>2, MeasuresSequence DEF Measures

\* An aggregate binds the roles of what it groups by, measures and filters by.
LEMMA AggregateBinds ==
  ASSUME NEW q, q.shape \in {"ad_hoc_aggregate", "top_n", "two_step_aggregate"}, ~IsMetric(q), ~IsChain(q),
         NEW op, op = PrimaryOf(q)
  PROVE  /\ BoundLabels(q)
         /\ \A x \in ToSet(op.group) \cup ToSet(op.measures) : Given(x.target) => x.target \in DOMAIN Labels(q)
<1> DEFINE used(items) == {x.target : x \in ToSet(items)} \ {""}
<1>1. Labels(q) = [r \in used(op.group) \cup used(op.measures) \cup used(FiltersOf(q)) |-> q.vertices[r]]
  BY DEF Labels
<1>2. \A items : \A x \in ToSet(items) : Given(x.target) => x.target \in used(items)
  BY Zenon DEF Given
<1> HIDE DEF used
<1> QED BY <1>1, <1>2 DEF BoundLabels

LEMMA CountedIs ==
  ASSUME NEW of, NEW among, NEW found, NEW q, q = VertexCounted(of, among, found), q # Nothing
  PROVE  \E op : /\ q.shape = "ad_hoc_aggregate" /\ q.ops = <<op>> /\ op.op = "aggregate" /\ DOMAIN q.vertices = {"target"}
                 /\ IsSequence(op.group) /\ IsSequence(op.measures)
<1>1. \E vertex, filled : q = Counted(of, among, found, vertex, Measures(of, vertex), filled)
  BY DEF VertexCounted, CountedOf, CountedBy
<1>2. PICK vertex, filled : q = Counted(of, among, found, vertex, Measures(of, vertex), filled)
  BY <1>1
<1> DEFINE measures == Measures(of, vertex)
           op == [op |-> "aggregate", group |-> << >>, measures |-> measures]
<1>3. q = Counted(of, among, found, vertex, measures, filled) /\ IsSequence(measures)
  BY <1>2, CountedSequence
<1> HIDE DEF measures
<1>4. q.shape = "ad_hoc_aggregate" /\ q.ops = <<op>> /\ DOMAIN q.vertices = {"target"}
  <2>1. \E filters, shown : q = VertexQuery("ad_hoc_aggregate", vertex, <<op>>, filters, shown)
    BY <1>3, Zenon DEF Counted
  <2> HIDE DEF op
  <2> QED BY <2>1 DEF VertexQuery
<1>5. op.op = "aggregate" /\ IsSequence(op.group) /\ IsSequence(op.measures)
  BY <1>3, EmptySequence
<1> HIDE DEF op
<1> QED BY <1>4, <1>5

LEMMA VertexCountedFits ==
  ASSUME NEW of, NEW among, NEW found, NEW q, q = VertexCounted(of, among, found), q # Nothing,
         QueryParses(q), CompilationOutcome(q) = "ok"
  PROVE  Fits(q)
<1>1. PICK op : /\ q.shape = "ad_hoc_aggregate" /\ q.ops = <<op>> /\ op.op = "aggregate" /\ DOMAIN q.vertices = {"target"}
                /\ IsSequence(op.group) /\ IsSequence(op.measures)
  BY CountedIs
<1>2. IsSequence(q.ops) /\ ToSet(q.ops) = {op}
  BY <1>1, OneSequence
<1>3. ~IsMetric(q) /\ ~IsChain(q) /\ PrimaryOf(q) = op
  BY <1>1, <1>2 DEF IsMetric, IsChain, PrimaryOf
<1>4. /\ BoundLabels(q)
      /\ \A x \in ToSet(op.group) \cup ToSet(op.measures) : Given(x.target) => x.target \in DOMAIN Labels(q)
  BY <1>1, <1>3, AggregateBinds
<1>5. Given("target")
  BY DEF Given
<1>6. \A x \in ToSet(op.group) \cup ToSet(op.measures) : x.target \in DOMAIN q.vertices => x.target \in DOMAIN Labels(q)
  BY <1>1, <1>4, <1>5
<1>7. q.shape # "two_step_aggregate" /\ op.op \in {"aggregate", "subquery"} /\ op \in ToSet(q.ops)
      /\ q.shape \in {"ad_hoc_aggregate", "top_n", "two_step_aggregate"}
  BY <1>1, <1>2
<1> QED BY <1>1, <1>2, <1>3, <1>4, <1>6, <1>7, AggregateFits

\* What is built of a plan fits the schema.
LEMMA BuiltFits ==
  ASSUME NEW p, Planned(p), Builds(p), p.shape \in Shapes, NEW q, q = Built(p), QueryParses(q), CompilationOutcome(q) = "ok"
  PROVE  Fits(q)
<1>1. q.shape = p.shape
  BY BuiltShape
<1>2. IsSequence(q.ops)
  BY BuiltFormed DEF Formed, Planned
<1>3. IsSequence(p.edges) /\ IsSequence(p.filters) /\ IsSequence(p.group) /\ IsSequence(p.measures)
  BY DEF Planned
<1>4. CASE p.shape \in {"vertex_lookup", "single_hop_traversal"}
  <2>1. q = Traversal(p)
    BY <1>4 DEF Built
  <2>2. ~IsMetric(q) /\ (IsChain(q) => q.shape = "single_hop_traversal") /\ BoundLabels(q) /\ BoundTargets(q)
    BY <1>1, <1>3, <1>4, <2>1, TraversalBinds
  <2> QED BY <1>1, <1>2, <1>4, <2>2, RowsFit
<1>5. CASE p.shape = "variable_path_traversal"
  <2>1. q = VariablePath(p)
    BY <1>5 DEF Built
  <2> QED BY <1>3, <1>5, <2>1, VariablePathFits
<1>6. CASE p.shape = "named_path_pattern"
  <2>1. PICK op : q.ops = <<op>> /\ op.op = "use_path_pattern"
    BY <1>6, NamedPathIs DEF Built
  <2>2. ToSet(q.ops) = {op}
    BY <2>1, OneSequence
  <2>3. ~IsChain(q) /\ ~IsMetric(q)
    BY <2>1, <2>2 DEF IsChain, IsMetric
  <2> QED BY <1>1, <1>2, <1>6, <2>3, NamedPathFits
<1>7. CASE q = MetricAggregate(p) /\ p.shape \in {"metric_aggregate", "top_n"} /\ MetricBuilds(p)
  <2>1. PICK op, bind : /\ q.ops = <<op>> \o SortLimit(p, bind) /\ op.op = "metric_aggregate"
                        /\ op.group = p.group /\ op.name = p.metrics[1]
    BY <1>7, MetricIs
  <2>2. Single(q, op)
    BY <2>1 DEF Single, PrimaryKinds
  <2>3. op \in ToSet(q.ops) /\ PrimaryOf(q) = op /\ ~IsChain(q) /\ IsMetric(q)
    BY <2>1, <2>2, OnePrimary
  <2>4. op.name \in DOMAIN Metrics
    <3>1. Len(p.metrics) = 1 /\ IsSequence(p.metrics)
      BY <1>7 DEF MetricBuilds, Planned
    <3>2. 1 \in DOMAIN p.metrics
      BY <3>1, SequenceIs
    <3> QED BY <2>1, <3>2 DEF ToSet, Planned
  <2>5. q.shape \in {"metric_aggregate", "top_n"}
    BY <1>1, <1>7
  <2>6. IsSequence(op.group) /\ op.op = "metric_aggregate"
    BY <1>3, <2>1
  <2>7. op \in ToSet(q.ops) /\ op = PrimaryOf(q)
    BY <2>3
  <2>8. IsMetric(q) /\ ~IsChain(q)
    BY <2>3
  <2> QED BY <1>2, <2>4, <2>5, <2>6, <2>7, <2>8, MetricFits
<1>8. CASE q \in {AdHocAggregate(p), TwoStepAggregate(p)} /\ p.shape \in {"ad_hoc_aggregate", "top_n", "two_step_aggregate"}
  <2>1. PICK op, bind : /\ q.ops = <<op>> \o SortLimit(p, bind) /\ op.op \in {"aggregate", "subquery"}
                        /\ op.group = p.group /\ op.measures = p.measures
    <3>1. CASE q = AdHocAggregate(p)
      <4>1. PICK op, bind : /\ q.ops = <<op>> \o SortLimit(p, bind) /\ op.op = "aggregate"
                            /\ op.group = p.group /\ op.measures = p.measures
        BY <3>1, AdHocIs
      <4> QED BY <4>1
    <3>2. CASE q = TwoStepAggregate(p)
      <4>1. PICK op, bind : /\ q.ops = <<op>> \o SortLimit(p, bind) /\ op.op = "subquery"
                            /\ op.group = p.group /\ op.measures = p.measures
        BY <3>2, TwoStepIs
      <4> QED BY <4>1
    <3> QED BY <1>8, <3>1, <3>2
  <2>2. Single(q, op)
    BY <2>1 DEF Single, PrimaryKinds
  <2>3. op \in ToSet(q.ops) /\ PrimaryOf(q) = op /\ ~IsChain(q) /\ ~IsMetric(q)
    BY <2>1, <2>2, OnePrimary
  <2>4. q.shape \in {"ad_hoc_aggregate", "top_n", "two_step_aggregate"}
    BY <1>1, <1>8
  <2>5. /\ BoundLabels(q)
        /\ \A x \in ToSet(op.group) \cup ToSet(op.measures) : Given(x.target) => x.target \in DOMAIN Labels(q)
    BY <2>3, <2>4, AggregateBinds
  <2>6. \A x \in ToSet(op.group) \cup ToSet(op.measures) : x.target \in DOMAIN q.vertices => x.target \in DOMAIN Labels(q)
    BY <2>1, <2>5 DEF Planned
  <2>7. IsSequence(op.group) /\ IsSequence(op.measures) /\ op.op \in {"aggregate", "subquery"}
    BY <1>3, <2>1
  <2> QED BY <1>2, <2>3, <2>4, <2>5, <2>6, <2>7, AggregateFits
<1>9. \/ p.shape \in {"vertex_lookup", "single_hop_traversal", "variable_path_traversal", "named_path_pattern"}
      \/ q = MetricAggregate(p) /\ p.shape \in {"metric_aggregate", "top_n"} /\ MetricBuilds(p)
      \/ q \in {AdHocAggregate(p), TwoStepAggregate(p)} /\ p.shape \in {"ad_hoc_aggregate", "top_n", "two_step_aggregate"}
  BY DEF Shapes, AggregateShapes, Built, Builds
<1> QED BY <1>4, <1>5, <1>6, <1>7, <1>8, <1>9

\* What is assembled fits the schema.
LEMMA AssembledSchema ==
  ASSUME NEW of, NEW among, NEW found, NEW q, q = Assembled(of, among, found), q # Nothing,
         QueryParses(q), CompilationOutcome(q) = "ok"
  PROVE  Fits(q)
BY AssembledIs, VertexReadFits, VertexCountedFits, PathReadFits, PathRankedFits

\* The schema's faults that a self-validation finds are those two.
LEMMA FaultsLeft ==
  ASSUME NEW q, Fits(q), SelfValidation(CypherOf(q), q) = "cypher_schema_reference_invalid"
  PROVE  \/ q.shape = "variable_path_traversal" /\ ~MatchesSchema(CypherOf(q))
         \/ \E w \in ToSet(CypherOf(q).where) : w.op \notin {"eq", "neq", "in"}
<1> DEFINE c == CypherOf(q)
<1>1. ~(MatchesSchema(c) /\ PropertiesExist(c) /\ TypesFit(c))
  BY DEF SelfValidation
<1>2. PropertiesExist(c) /\ Unsummed(c) /\ (q.shape # "variable_path_traversal" => MatchesSchema(c))
  BY DEF Fits
<1> HIDE DEF c
<1>3. CASE ~MatchesSchema(c)
  BY <1>2, <1>3 DEF c
<1>4. CASE ~TypesFit(c)
  <2>1. \E w \in ToSet(c.where) : w.op \in {"gt", "gte", "lt", "lte"} \/ w.op = "contains"
    BY <1>2, <1>4 DEF TypesFit, Unsummed
  <2>2. \E w \in ToSet(c.where) : w.op \notin {"eq", "neq", "in"}
    BY <2>1
  <2> QED BY <2>2 DEF c
<1> QED BY <1>1, <1>2, <1>3, <1>4

LEMMA StepSchema == IInv /\ SchemaFoundEarlier /\ [Next]_vars => SchemaFoundEarlier'
<1> SUFFICES ASSUME IInv, SchemaFoundEarlier, [Next]_vars PROVE SchemaFoundEarlier'
  OBVIOUS
<1> DEFINE code == "cypher_schema_reference_invalid"
<1> USE DEF Goes
<1>1. CASE ResolveLiterals
  BY <1>1 DEF ResolveLiterals, SchemaFoundEarlier
<1>2. CASE AskOutput
  BY <1>2 DEF AskOutput, SchemaFoundEarlier
<1>3. CASE Assemble
  BY <1>3 DEF Assemble, SchemaFoundEarlier
<1>4. CASE Ground
  <2>1. PICK a \in Cases[case].answers : Goes(GroundingOutcome(a, candidates, results), "binding")
    BY <1>4 DEF Ground
  <2>2. GroundingOutcome(a, candidates, results) \in {"ok", "semantic_match_rejected", "grounded_understanding_schema_invalid"}
    BY GroundingOutcomes
  <2> QED BY <2>1, <2>2 DEF SchemaFoundEarlier
<1>5. CASE Bind
  <2>1. BindingOutcome(answer, candidates) \in {"ok", "reject", "crash"}
    BY BindingOutcomes
  <2> QED BY <1>5, <2>1 DEF Bind, SchemaFoundEarlier
<1>6. CASE Validate
  BY <1>6 DEF Validate, SchemaFoundEarlier
<1>7. CASE Build
  BY <1>7 DEF Build, SchemaFoundEarlier
<1>8. CASE Parse
  BY <1>8 DEF Parse, SchemaFoundEarlier
<1>9. CASE CheckCoverage
  BY <1>9 DEF CheckCoverage, SchemaFoundEarlier
<1>10. CASE Compile
  <2>1. CompilationOutcome(query) \in {"ok", "refused", "crash"}
    BY CompilationOutcomes
  <2> QED BY <1>10, <2>1 DEF Compile, SchemaFoundEarlier
<1>11. CASE SelfValidate
  <2>1. QueryParses(query) /\ CompilationOutcome(query) = "ok" /\ cypher = CypherOf(query)
    BY <1>11 DEF IInv, Past, SelfValidate
  <2>2. Fits(query)
    <3>1. CASE plan = Nothing
      <4>1. query = Assembled(question, candidates, results) /\ query # Nothing
        BY <1>11, <3>1 DEF IInv, Past, SelfValidate
      <4> QED BY <2>1, <4>1, AssembledSchema
    <3>2. CASE plan # Nothing
      <4>1. Planned(plan) /\ Builds(plan) /\ query = Built(plan) /\ plan.shape \in Shapes
        BY <1>11, <3>2 DEF IInv, Past, SelfValidate, PlanIsValid
      <4> QED BY <2>1, <4>1, BuiltFits
    <3> QED BY <3>1, <3>2
  <2>3. query' = query /\ cypher' = cypher /\ (outcome' = code => SelfValidation(cypher, query) = code)
    BY <1>11, SelfValidations DEF SelfValidate
  <2> QED BY <2>1, <2>2, <2>3, FaultsLeft DEF SchemaFoundEarlier
<1>12. CASE UNCHANGED vars
  BY <1>12 DEF vars, SchemaFoundEarlier
<1> QED BY <1>1, <1>2, <1>3, <1>4, <1>5, <1>6, <1>7, <1>8, <1>9, <1>10, <1>11, <1>12 DEF Next

\* What the self-validation refuses, no earlier stage could have: the ends of a path of
\* many hops, or the operator of a condition.
THEOREM SchemaIsFoundEarlier == Spec => []SchemaFoundEarlier
<1>1. Init => SchemaFoundEarlier
  BY DEF Init, SchemaFoundEarlier
<1> QED BY <1>1, Invariant, StepSchema, PTL DEF Spec

\* Each stage leaves what the next one takes, in an order the parser accepts, and fault
\* with it is found where it can be.
THEOREM StagesAlwaysAgree == Spec => []StagesAgree
<1>1. TypeOK /\ SequencesFit /\ SchemaFoundEarlier => StagesAgree
  BY DEF StagesAgree
<1> QED BY <1>1, StagesAreTyped, SequencesAlwaysFit, SchemaIsFoundEarlier, PTL

-----------------------------------------------------------------------------
(* Conditions without a plan.  A question with conditions is assembled in  *)
(* no shape that leaves them out, and each of its literals is a condition. *)

LEMMA TheOneIs == \A S : S # {} => TheOne(S) \in S
BY DEF TheOne

LEMMA OneElement == \A S : Cardinality(S) = 1 => S # {}
BY FS_EmptySet

\* A lookup that is assembled for a question with conditions has them, unless it asks for
\* an aggregate.
LEMMA ConditionedShapes ==
  ASSUME NEW of, Texts(of, "filter") # {}, ~Requirements(of).aggregate
  PROVE  ShapeOf(of) \notin {"F1", "F4"}
<1> DEFINE asked == Requirements(of)
           vertexShapes == VertexShapes(of, asked)
           pathShapes == PathShapes(of, asked)
<1>1. Conditioned(of)
  BY DEF Texts, Conditioned
<1>2. "F1" \notin vertexShapes /\ "F4" \notin vertexShapes
  <2>1. "F2" \in vertexShapes
    BY <1>1 DEF VertexShapes
  <2> QED BY <1>1 DEF VertexShapes
<1>3. "F1" \notin pathShapes /\ "F4" \notin pathShapes
  BY <1>1 DEF PathShapes
<1> HIDE DEF vertexShapes, pathShapes
<1>4. ShapeOf(of) = "none" \/ ShapeOf(of) \in vertexShapes \cup pathShapes
  <2> DEFINE shapes == IF of.intent = "two_stage_aggregate" THEN {}
                       ELSE IF asked.hops = 0 THEN vertexShapes ELSE pathShapes
  <2>1. ShapeOf(of) = IF Cardinality(shapes) = 1 THEN TheOne(shapes) ELSE "none"
    BY DEF ShapeOf, vertexShapes, pathShapes
  <2>2. shapes \subseteq vertexShapes \cup pathShapes
    OBVIOUS
  <2> HIDE DEF shapes
  <2> QED BY <2>1, <2>2, TheOneIs, OneElement
<1> QED BY <1>2, <1>3, <1>4

\* A literal that is a condition of the query stands in its Cypher.
Conditions(q, r) == \E x \in ToSet(q.filters) : x.prop = <<r.owner, r.prop>> /\ x.literal = r

LEMMA ConditionStands ==
  ASSUME NEW q, q.shape \in {"vertex_lookup", "single_hop_traversal"}, ~IsMetric(q), BoundLabels(q),
         QueryParses(q), CompilationOutcome(q) = "ok", NEW r, Conditions(q, r)
  PROVE  \E w \in ToSet(CypherOf(q).where) : CypherOf(q).labels[w.role] = r.owner /\ w.name = r.prop /\ w.literal = r
<1>1. PICK x \in ToSet(q.filters) : x.prop = <<r.owner, r.prop>> /\ x.literal = r
  BY DEF Conditions
<1>2. FiltersOf(q) = q.filters
  BY DEF FiltersOf
<1>3. x.target # "" => q.vertices[x.target] = x.prop[1]
  BY <1>1 DEF QueryParses, FiltersValid
<1>4. Stands(x, q)
  BY <1>1, <1>2, <1>3, BoundStands DEF Same
<1> QED BY <1>1, <1>4, CypherIs DEF Stands

LEMMA QueryFilters ==
  ASSUME NEW shape, NEW at, NEW ops, NEW filters, NEW shown
  PROVE  /\ VertexQuery(shape, at, ops, filters, shown).filters = filters
         /\ PathQuery(shape, at, ops, filters, shown).filters = filters
BY DEF VertexQuery, PathQuery

\* The one literal that a lookup of a vertex is filtered by.
LEMMA VertexConditions ==
  ASSUME NEW of, NEW among, NEW found, NEW filtered, filtered, NEW q, q = VertexRead(of, among, found, filtered), q # Nothing, NEW r \in ToSet(found)
  PROVE  Conditions(q, r)
<1>1. PICK vertex : q = VertexReadOf(of, among, found, filtered, vertex)
  BY DEF VertexRead
<1> DEFINE lone == \E x \in ToSet(found) : found = <<x>>
           literals == IF lone THEN LiteralsOf(vertex, found[1].prop, among, found) ELSE << >>
<1>2. q = VertexFiltered(of, among, vertex, literals, filtered)
  BY <1>1 DEF VertexReadOf
<1> HIDE DEF literals, lone
<1>3. literals # << >> /\ q = VertexShown(of, among, vertex, literals, ProjectionOf(of, <<vertex>>))
  BY <1>2 DEF VertexFiltered
<1>4. found = <<r>>
  <2>1. PICK x \in ToSet(found) : found = <<x>>
    BY <1>3 DEF literals, lone
  <2>2. ToSet(found) = {x}
    BY <2>1, OneSequence
  <2> QED BY <2>1, <2>2
<1>5. literals = <<r>>
  <2>1. literals = LiteralsOf(vertex, found[1].prop, among, found)
    BY <1>3 DEF literals
  <2>2. \E i \in DOMAIN found : literals = <<found[i]>>
    <3> DEFINE at == {i \in DOMAIN found : found[i].owner = vertex /\ found[i].prop = found[1].prop}
    <3>1. Cardinality(at) = 1 /\ literals = <<found[TheOne(at)]>>
      BY <1>3, <2>1 DEF LiteralsOf
    <3>2. TheOne(at) \in at
      <4> HIDE DEF at
      <4> QED BY <3>1, TheOneIs, OneElement
    <3> QED BY <3>1, <3>2
  <2>3. DOMAIN found = {1} /\ found[1] = r
    BY <1>4
  <2> QED BY <2>2, <2>3
<1>6. q.filters = MapSeq(literals, LAMBDA x : FilterOf(of, x, "target"))
  <2> DEFINE wanted == MapSeq(literals, LAMBDA x : FilterOf(of, x, "target"))
  <2>1. \E ops, shown : q = VertexQuery("vertex_lookup", vertex, ops, wanted, shown)
    BY <1>3, Zenon DEF VertexShown
  <2> HIDE DEF wanted
  <2>2. q.filters = wanted
    <3>1. PICK ops, shown : q = VertexQuery("vertex_lookup", vertex, ops, wanted, shown)
      BY <2>1
    <3>2. VertexQuery("vertex_lookup", vertex, ops, wanted, shown).filters = wanted
      BY QueryFilters
    <3> QED BY <3>1, <3>2
  <2> QED BY <2>2 DEF wanted
<1>7. FilterOf(of, r, "target") \in ToSet(q.filters)
  <2>1. MapSeq(literals, LAMBDA x : FilterOf(of, x, "target")) = [i \in DOMAIN literals |-> FilterOf(of, literals[i], "target")]
    BY DEF MapSeq
  <2>2. 1 \in DOMAIN literals /\ literals[1] = r
    BY <1>5
  <2> DEFINE filter(x) == FilterOf(of, x, "target")
  <2>3. q.filters = [i \in DOMAIN literals |-> filter(literals[i])]
    BY <1>6, <2>1
  <2> HIDE DEF filter
  <2>4. filter(r) \in ToSet(q.filters)
    <3>1. DOMAIN q.filters = DOMAIN literals /\ q.filters[1] = filter(r)
      BY <2>2, <2>3
    <3> QED BY <2>2, <3>1 DEF ToSet
  <2> QED BY <2>4 DEF filter
<1>8. FilterOf(of, r, "target").prop = <<r.owner, r.prop>> /\ FilterOf(of, r, "target").literal = r
  BY DEF FilterOf
<1> QED BY <1>7, <1>8 DEF Conditions

\* All the literals are conditions along a path.
LEMMA PathConditions ==
  ASSUME NEW of, NEW among, NEW found, NEW filtered, filtered, NEW q, q = PathRead(of, among, found, filtered), q # Nothing, NEW r \in ToSet(found)
  PROVE  Conditions(q, r)
<1>1. PICK items, path : q = ReadAlong(of, among, items, found, path)
  BY DEF PathRead, ReadAs, ReadOf
<1> DEFINE roles == RolesOn(path)
<1>2. q.filters = MapSeq(found, LAMBDA x : FilterOf(of, x, roles[x.owner]))
  <2> DEFINE wanted == MapSeq(found, LAMBDA x : FilterOf(of, x, roles[x.owner]))
  <2>1. \E shown : q = PathQuery("single_hop_traversal", path, << >>, wanted, shown)
    BY <1>1 DEF ReadAlong
  <2> HIDE DEF wanted
  <2>2. q.filters = wanted
    <3>1. PICK shown : q = PathQuery("single_hop_traversal", path, << >>, wanted, shown)
      BY <2>1
    <3>2. PathQuery("single_hop_traversal", path, << >>, wanted, shown).filters = wanted
      BY QueryFilters
    <3> QED BY <3>1, <3>2
  <2> QED BY <2>2 DEF wanted
<1> HIDE DEF roles
<1>3. q.filters = [i \in DOMAIN found |-> FilterOf(of, found[i], roles[found[i].owner])]
  BY <1>2 DEF MapSeq
<1>4. PICK i \in DOMAIN found : r = found[i]
  BY DEF ToSet
<1> DEFINE x == FilterOf(of, r, roles[r.owner])
<1>5. x \in ToSet(q.filters)
  BY <1>3, <1>4 DEF ToSet
<1>6. x.prop = <<r.owner, r.prop>> /\ x.literal = r
  BY DEF FilterOf
<1> HIDE DEF x
<1> QED BY <1>5, <1>6 DEF Conditions

\* What is read of a vertex or along a path is read from roles that are bound.
LEMMA ReadBinds ==
  ASSUME NEW of, NEW among, NEW found, NEW filtered, NEW q, q # Nothing, QueryParses(q),
         q = VertexRead(of, among, found, filtered) \/ q = PathRead(of, among, found, filtered)
  PROVE  q.shape \in {"vertex_lookup", "single_hop_traversal"} /\ ~IsMetric(q) /\ BoundLabels(q)
<1>1. CASE q = VertexRead(of, among, found, filtered)
  <2>1. \E vertex, literals, items : q = VertexShown(of, among, vertex, literals, items)
    BY <1>1 DEF VertexRead, VertexReadOf, VertexFiltered
  <2>2. q.shape = "vertex_lookup" /\ DOMAIN q.vertices = {"target"}
    BY <2>1 DEF VertexShown, VertexQuery
  <2>3. IsSequence(q.ops) /\ SequenceAllowed(q)
    BY <1>1, VertexReadFormed DEF Formed, QueryParses
  <2> QED BY <2>2, <2>3, LookupBinds
<1>2. CASE q = PathRead(of, among, found, filtered)
  <2>1. PICK items, filters, owners : q = ReadAlong(of, among, items, filters, PathOf(of, among, owners))
    BY <1>2 DEF PathRead, ReadAs, ReadOf
  <2> DEFINE path == PathOf(of, among, owners)
             tail == << >>
  <2>2. IsSequence(path)
    BY PathSequence
  <2>3. q = ReadAlong(of, among, items, filters, path)
    BY <2>1
  <2> HIDE DEF path
  <2>4. q.shape = "single_hop_traversal" /\ q.ops = HopOps(path) \o tail /\ path # << >> /\ AlongPath(q, path)
    BY <2>3 DEF ReadAlong, PathQuery, AlongPath
  <2>5. IsSequence(tail) /\ ToSet(tail) = {}
    BY EmptySequence DEF ToSet
  <2> HIDE DEF tail
  <2>6. IsSequence(q.ops) /\ \A o \in ToSet(q.ops) : o.op = "traverse_edge"
    BY <2>2, <2>4, <2>5, PathQueryOps
  <2>7. ~IsMetric(q)
    BY <2>6 DEF IsMetric
  <2>8. IsChain(q) /\ EndsOnly(q)
    BY <2>2, <2>4, <2>5, PathRoles
  <2>9. q.shape \in {"single_hop_traversal", "top_n"}
    BY <2>4
  <2>10. BoundLabels(q)
    BY <2>6, <2>7, <2>8, <2>9, ChainBinds
  <2> QED BY <2>4, <2>7, <2>10
<1> QED BY <1>1, <1>2

\* A lookup in a shape with conditions is read of a vertex or along a path: the other two
\* shapes write aggregates.
LEMMA CountedShapes ==
  ASSUME NEW of, NEW among, NEW found, NEW q, q = Assembled(of, among, found), q # Nothing,
         q.shape \notin AggregateShapes, ShapeOf(of) \notin {"F1", "F4"}
  PROVE  q = VertexRead(of, among, found, TRUE) \/ q = PathRead(of, among, found, TRUE)
<1> DEFINE shape == ShapeOf(of)
<1>1. shape = "F2" => q = VertexRead(of, among, found, TRUE)
  BY DEF Assembled
<1>2. shape = "F3" => q = VertexCounted(of, among, found)
  BY DEF Assembled
<1>3. shape = "F5" => q = PathRead(of, among, found, TRUE)
  BY DEF Assembled
<1>4. shape = "F6" => q = PathRanked(of, among)
  BY DEF Assembled
<1>5. shape \in {"F2", "F3", "F5", "F6"}
  BY DEF Assembled
<1> HIDE DEF shape
<1>6. q # VertexCounted(of, among, found)
  BY CountedIs DEF AggregateShapes
<1>7. q # PathRanked(of, among)
  <2> SUFFICES ASSUME q = PathRanked(of, among) PROVE FALSE
    OBVIOUS
  <2>1. PICK path, a, b, c : Ranking(q, path, a, b, c)
    BY PathRankedIs
  <2> QED BY <2>1 DEF AggregateShapes, Ranking
<1> QED BY <1>1, <1>2, <1>3, <1>4, <1>5, <1>6, <1>7

\* No condition of a question is lost that is answered without a model.
THEOREM AssembledConditionsAreKept == Spec => []AssembledConditions
<1>1. IInv => AssembledConditions
  <2> SUFFICES ASSUME IInv, Generated, plan = Nothing, query.shape \notin AggregateShapes, Texts(question, "filter") # {},
                      NEW r \in ToSet(results)
               PROVE  \E w \in ToSet(cypher.where) : cypher.labels[w.role] = r.owner /\ w.name = r.prop /\ w.literal = r
    BY DEF AssembledConditions, AssembledLookup
  <2>1. /\ query = Assembled(question, candidates, results) /\ query # Nothing /\ QueryParses(query)
        /\ StructureCovered(Requirements(question), query)
        /\ CompilationOutcome(query) = "ok" /\ cypher = CypherOf(query)
    BY DEF IInv, Past
  <2>2. ~Requirements(question).aggregate
    BY <2>1 DEF StructureCovered
  <2>3. ShapeOf(question) \notin {"F1", "F4"}
    BY <2>2, ConditionedShapes
  <2>4. query = VertexRead(question, candidates, results, TRUE) \/ query = PathRead(question, candidates, results, TRUE)
    BY <2>1, <2>3, CountedShapes
  <2>5. query.shape \in {"vertex_lookup", "single_hop_traversal"} /\ ~IsMetric(query) /\ BoundLabels(query)
    BY <2>1, <2>4, ReadBinds
  <2>6. Conditions(query, r)
    BY <2>1, <2>4, VertexConditions, PathConditions
  <2> QED BY <2>1, <2>5, <2>6, ConditionStands
<1> QED BY <1>1, Invariant, PTL

\* What the Cypher filters by is faithful to the question and the plan, whoever wrote the
\* query.
THEOREM ConditionsAreFaithful == Spec => []ConditionsFaithful
BY ValuesAreKnown, ConditionsAreKept, AssembledConditionsAreKept, PTL DEF ConditionsFaithful

=============================================================================
