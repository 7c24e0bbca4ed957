------------------------ MODULE SampleGenerationProofs ------------------------
(***************************************************************************)
(* What an attempt of a qa-agent job releases, for every schema, request,  *)
(* limit, and whatever the model answers: the levels that were asked for   *)
(* live as far as the candidates, a validated query follows the schema,    *)
(* and a release holds what was checked and as much as was asked for.      *)
(***************************************************************************)
EXTENDS SampleGeneration, FiniteSetTheorems, SequenceTheorems, WellFoundedInduction, TLAPS

-----------------------------------------------------------------------------
(* Rounds of a loop.  A loop of the model is a function of the round; what *)
(* holds before the first round and survives each holds after the last.    *)

\* Induction over the rounds 0..N, as a fact about the set T of the good ones.
LEMMA Upwards ==
  ASSUME NEW N \in Nat, NEW T, 0 \in T, \A n \in 1..N : n - 1 \in T => n \in T
  PROVE  0..N \subseteq T
<1> DEFINE U == {n \in Nat : n \in 0..N /\ n \notin T}
<1> SUFFICES ASSUME U # {} PROVE FALSE
  OBVIOUS
<1>1. IsWellFoundedOn({ss \in Nat \X Nat : ss[1] < ss[2]}, Nat)
  BY NatLessThanWellFounded DEF OpToRel
<1>2. PICK x \in U : \A y \in U : ~(<<y, x>> \in {ss \in Nat \X Nat : ss[1] < ss[2]})
  BY <1>1, WFMin
<1>3. x \in 1..N /\ x \notin T /\ x - 1 \in 0..N
  BY DEF U
<1>4. x - 1 \notin T
  BY <1>3
<1>5. x - 1 \in U
  BY <1>3, <1>4
<1>6. <<x - 1, x>> \in Nat \X Nat /\ <<x - 1, x>>[1] = x - 1 /\ <<x - 1, x>>[2] = x /\ x - 1 < x
  BY <1>3
<1> QED BY <1>2, <1>5, <1>6

\* g has the rounds of a loop over S that begins with base.
Steps(S, N) == [1..N -> [S -> S]]
Runs(g, S, N, base, step) ==
  g \in [0..N -> S] /\ g[0] = base /\ \A n \in 1..N : g[n] = step[n][g[n - 1]]

\* A loop whose step stays in S has its rounds.
LEMMA RoundsExist ==
  ASSUME NEW S, NEW N \in Nat, NEW base \in S, NEW step \in Steps(S, N)
  PROVE  \E g : Runs(g, S, N, base, step)
<1> USE DEF Steps
<1> DEFINE Part(g, n) == g[0] = base /\ \A m \in 1..n : g[m] = step[m][g[m - 1]]
           T == {n \in 0..N : \E g \in [0..n -> S] : Part(g, n)}
<1>1. 0 \in T
  <2>1. [m \in 0..0 |-> base] \in [0..0 -> S] /\ Part([m \in 0..0 |-> base], 0)
    OBVIOUS
  <2>2. 0 \in 0..N
    OBVIOUS
  <2> HIDE DEF Part
  <2> QED BY <2>1, <2>2
<1>2. ASSUME NEW n \in 1..N, n - 1 \in T PROVE n \in T
  <2>1. PICK g \in [0..(n - 1) -> S] : Part(g, n - 1)
    BY <1>2
  <2> DEFINE h == [m \in 0..n |-> IF m = n THEN step[n][g[n - 1]] ELSE g[m]]
  <2>2. g[n - 1] \in S /\ step[n][g[n - 1]] \in S
    <3>1. g[n - 1] \in S
      OBVIOUS
    <3> QED BY <3>1
  <2>3. h \in [0..n -> S]
    <3>1. \A m \in 0..n : m # n => m \in 0..(n - 1)
      OBVIOUS
    <3> QED BY <2>2, <3>1
  <2>4. h[0] = base
    BY <2>1
  <2>5. ASSUME NEW m \in 1..n PROVE h[m] = step[m][h[m - 1]]
    <3>1. h[m - 1] = g[m - 1]
      OBVIOUS
    <3>2. CASE m = n
      BY <3>1, <3>2
    <3>3. CASE m # n
      <4>1. m \in 1..(n - 1) /\ h[m] = g[m]
        BY <3>3
      <4> QED BY <2>1, <3>1, <4>1
    <3> QED BY <3>2, <3>3
  <2>6. n \in 0..N
    OBVIOUS
  <2> HIDE DEF h
  <2> QED BY <2>3, <2>4, <2>5, <2>6
<1>3. 0..N \subseteq T
  <2> HIDE DEF T
  <2> QED BY <1>1, <1>2, Upwards
<1>4. N \in 0..N
  OBVIOUS
<1>5. PICK g \in [0..N -> S] : Part(g, N)
  BY <1>3, <1>4
<1> QED BY <1>5 DEF Runs

-----------------------------------------------------------------------------
(* Chosen elements of a sequence.                                          *)

LEMMA FirstNumbers ==
  ASSUME NEW N \in Nat
  PROVE  IsFiniteSet(1..N) /\ Cardinality(1..N) = N
<1>1. N \in Int /\ 1 \in Int
  OBVIOUS
<1>2. Cardinality(1..N) = IF 1 > N THEN 0 ELSE N - 1 + 1
  BY <1>1, FS_Interval
<1>3. IsFiniteSet(1..N)
  BY <1>1, FS_Interval
<1> QED BY <1>2, <1>3

\* How many indices of keep come before i.
Before(keep, i) == Cardinality({j \in keep : j < i})

LEMMA BeforeGrows ==
  ASSUME NEW N \in Nat, NEW keep \in SUBSET (1..N)
  PROVE  /\ IsFiniteSet(keep) /\ Cardinality(keep) \in Nat /\ Cardinality(keep) <= N
         /\ \A i \in keep : Before(keep, i) \in 0..(Cardinality(keep) - 1)
         /\ \A i, k \in keep : i < k => Before(keep, i) < Before(keep, k)
<1> DEFINE C == Cardinality(keep)
           below(i) == {j \in keep : j < i}
<1>1. IsFiniteSet(keep) /\ C \in Nat /\ C <= N
  <2>1. IsFiniteSet(1..N) /\ Cardinality(1..N) = N
    BY FirstNumbers
  <2> QED BY <2>1, FS_Subset, FS_CardinalityType
<1>2. ASSUME NEW i \in keep
      PROVE  IsFiniteSet(below(i)) /\ Before(keep, i) \in Nat /\ Before(keep, i) <= C - 1
  <2>1. below(i) \in SUBSET (keep \ {i})
    OBVIOUS
  <2>2. IsFiniteSet(keep \ {i}) /\ Cardinality(keep \ {i}) = C - 1
    BY <1>1, FS_RemoveElement
  <2>3. IsFiniteSet(below(i)) /\ Cardinality(below(i)) <= C - 1
    BY <2>1, <2>2, FS_Subset
  <2>4. Cardinality(below(i)) \in Nat
    BY <2>3, FS_CardinalityType
  <2> QED BY <2>3, <2>4 DEF Before
<1>3. ASSUME NEW i \in keep, NEW k \in keep, i < k PROVE Before(keep, i) < Before(keep, k)
  <2>1. below(i) \in SUBSET (below(k) \ {i}) /\ i \in below(k)
    <3>1. ASSUME NEW j \in keep, j < i PROVE j < k /\ j # i
      BY <1>3, <3>1
    <3> QED BY <1>3, <3>1
  <2>2. IsFiniteSet(below(k) \ {i}) /\ Cardinality(below(k) \ {i}) = Cardinality(below(k)) - 1
    BY <1>2, <2>1, FS_RemoveElement
  <2>3. Cardinality(below(i)) <= Cardinality(below(k)) - 1
    BY <2>1, <2>2, FS_Subset
  <2>4. Cardinality(below(i)) \in Nat /\ Cardinality(below(k)) \in Nat
    BY <1>2, FS_CardinalityType
  <2> HIDE DEF below
  <2>5. Cardinality(below(i)) < Cardinality(below(k))
    BY <2>3, <2>4
  <2> QED BY <2>5 DEF Before, below
<1>4. \A i \in keep : Before(keep, i) \in 0..(C - 1)
  <2> SUFFICES ASSUME NEW i \in keep PROVE Before(keep, i) \in 0..(C - 1)
    OBVIOUS
  <2>1. Before(keep, i) \in Nat /\ Before(keep, i) <= C - 1 /\ C \in Nat
    BY <1>1, <1>2
  <2> HIDE DEF C
  <2> QED BY <2>1
<1> QED BY <1>1, <1>3, <1>4

\* Every index of keep has its place in the choice, and every place its index.
LEMMA SelectedPlaces ==
  ASSUME NEW S, NEW seq \in Seq(S), NEW keep \in SUBSET DOMAIN seq
  PROVE  /\ Selected(seq, keep) \in Seq(S)
         /\ Cardinality(keep) \in Nat /\ IsFiniteSet(keep) /\ Cardinality(keep) <= Len(seq)
         /\ Len(Selected(seq, keep)) = Cardinality(keep)
         /\ \A n \in DOMAIN Selected(seq, keep) : \E i \in keep : Selected(seq, keep)[n] = seq[i]
         /\ \E place \in Bijection(keep, DOMAIN Selected(seq, keep)) :
              \A i \in keep : Selected(seq, keep)[place[i]] = seq[i]
<1> DEFINE N == Len(seq)
           C == Cardinality(keep)
           place == [i \in keep |-> Before(keep, i) + 1]
           index(n) == CHOOSE i \in keep : Before(keep, i) = n - 1
<1>1. N \in Nat /\ keep \in SUBSET (1..N) /\ \A i \in keep : seq[i] \in S
  OBVIOUS
<1>2. /\ IsFiniteSet(keep) /\ C \in Nat
      /\ C <= N
      /\ \A i \in keep : Before(keep, i) \in 0..(C - 1)
      /\ \A i, k \in keep : i < k => Before(keep, i) < Before(keep, k)
  BY <1>1, BeforeGrows
<1>3. place \in Injection(keep, 1..C)
  <2>1. place \in [keep -> 1..C]
    BY <1>2
  <2>2. ASSUME NEW i \in keep, NEW k \in keep, place[i] = place[k] PROVE i = k
    <3>1. Before(keep, i) = Before(keep, k)
      BY <1>2, <2>2
    <3>2. ~(Before(keep, i) < Before(keep, k)) /\ ~(Before(keep, k) < Before(keep, i))
      BY <1>2, <3>1
    <3> QED BY <1>1, <1>2, <3>2
  <2> QED BY <2>1, <2>2 DEF Injection, IsInjective
<1>4. Cardinality(1..C) = C /\ IsFiniteSet(1..C)
  BY <1>2, FirstNumbers
<1>5. place \in Surjection(keep, 1..C)
  BY <1>2, <1>3, <1>4, FS_Injection
<1>6. \A n \in 1..C : \E i \in keep : place[i] = n
  BY <1>5 DEF Surjection
<1>7. ASSUME NEW n \in 1..C PROVE index(n) \in keep /\ place[index(n)] = n
  <2>1. PICK i \in keep : place[i] = n
    BY <1>6
  <2>2. Before(keep, i) = n - 1
    BY <1>2, <2>1
  <2>3. index(n) \in keep /\ Before(keep, index(n)) = n - 1
    BY <2>2
  <2> QED BY <1>2, <2>3
<1>8. Selected(seq, keep) = [n \in 1..C |-> seq[index(n)]]
  BY DEF Selected, Before
<1> HIDE DEF index
<1>9. Selected(seq, keep) \in [1..C -> S]
  BY <1>1, <1>7, <1>8
<1>10. Selected(seq, keep) \in Seq(S) /\ Len(Selected(seq, keep)) = C /\ DOMAIN Selected(seq, keep) = 1..C
  BY <1>2, <1>9
<1>11. ASSUME NEW i \in keep PROVE place[i] \in 1..C /\ Selected(seq, keep)[place[i]] = seq[i]
  <2>1. place[i] \in 1..C
    BY <1>2
  <2>2. index(place[i]) = i
    BY <1>3, <1>7, <2>1 DEF Injection, IsInjective
  <2> QED BY <1>8, <2>1, <2>2
<1>12. place \in Bijection(keep, DOMAIN Selected(seq, keep))
  BY <1>3, <1>5, <1>10 DEF Bijection
<1>13. \A n \in DOMAIN Selected(seq, keep) : \E i \in keep : Selected(seq, keep)[n] = seq[i]
  BY <1>7, <1>8, <1>10
<1> HIDE DEF place
<1> QED BY <1>2, <1>10, <1>11, <1>12, <1>13

\* A choice of elements that are in T is a sequence of T.
LEMMA SelectedIn ==
  ASSUME NEW S, NEW seq \in Seq(S), NEW keep \in SUBSET DOMAIN seq, NEW T, \A i \in keep : seq[i] \in T
  PROVE  Selected(seq, keep) \in Seq(T)
<1>1. /\ Selected(seq, keep) \in Seq(S)
      /\ \A n \in DOMAIN Selected(seq, keep) : \E i \in keep : Selected(seq, keep)[n] = seq[i]
  BY SelectedPlaces
<1>2. \A n \in DOMAIN Selected(seq, keep) : Selected(seq, keep)[n] \in T
  BY <1>1
<1> QED BY <1>1, <1>2

-----------------------------------------------------------------------------
(* Loops of the model.                                                     *)

\* Joining parts is a loop over them.
LEMMA JoinedRounds ==
  ASSUME NEW S, NEW parts \in Seq(Seq(S))
  PROVE  \E f \in [0..Len(parts) -> Seq(S)] :
           /\ f[0] = << >> /\ \A n \in 1..Len(parts) : f[n] = f[n - 1] \o parts[n]
           /\ Joined(parts) = f[Len(parts)]
<1> DEFINE N == Len(parts)
           step == [n \in 1..N |-> [x \in Seq(S) |-> x \o parts[n]]]
           Equation(h) == h = [n \in 0..N |-> IF n = 0 THEN << >> ELSE h[n - 1] \o parts[n]]
           f == CHOOSE h : Equation(h)
<1>1. N \in Nat /\ << >> \in Seq(S) /\ \A n \in 1..N : parts[n] \in Seq(S)
  OBVIOUS
<1>2. \A n \in 0..N : n # 0 => n \in 1..N /\ n - 1 \in 0..N
  BY <1>1
<1>3. Equation(f)
  <2>1. step \in Steps(Seq(S), N)
    BY <1>1 DEF Steps
  <2>2. PICK g : Runs(g, Seq(S), N, << >>, step)
    <3> HIDE DEF step, N
    <3> QED BY <1>1, <2>1, RoundsExist
  <2> HIDE DEF N
  <2>3. g \in [0..N -> Seq(S)] /\ \A n \in 0..N : n # 0 => g[n - 1] \in Seq(S)
    BY <1>2, <2>2 DEF Runs
  <2>4. \A n \in 0..N : g[n] = IF n = 0 THEN << >> ELSE g[n - 1] \o parts[n]
    BY <1>2, <2>2, <2>3 DEF Runs
  <2>5. Equation(g)
    BY <2>3, <2>4
  <2> HIDE DEF Equation
  <2> QED BY <2>5
<1>4. Joined(parts) = f[N]
  BY DEF Joined
<1> HIDE DEF f, N
<1>5. f = [n \in 0..N |-> f[n]] /\ f[0] = << >> /\ \A n \in 1..N : f[n] = f[n - 1] \o parts[n]
  <2>1. 0 \in 0..N /\ \A n \in 1..N : n \in 0..N /\ n # 0
    BY <1>1
  <2> QED BY <1>3, <2>1
<1> DEFINE T == {n \in 0..N : f[n] \in Seq(S)}
<1>6. 0..N \subseteq T
  <2>1. 0 \in T
    <3>1. 0 \in 0..N
      BY <1>1
    <3>2. f[0] \in Seq(S)
      BY <1>1, <1>5
    <3> QED BY <3>1, <3>2
  <2>2. ASSUME NEW n \in 1..N, n - 1 \in T PROVE n \in T
    <3>1. f[n - 1] \in Seq(S) /\ parts[n] \in Seq(S) /\ n \in 0..N
      BY <1>1, <2>2
    <3>2. f[n - 1] \o parts[n] \in Seq(S)
      BY <3>1
    <3> QED BY <1>5, <3>1, <3>2
  <2> HIDE DEF T
  <2> QED BY <1>1, <2>1, <2>2, Upwards
<1>7. f \in [0..N -> Seq(S)]
  BY <1>5, <1>6
<1> QED BY <1>4, <1>5, <1>7 DEF N

LEMMA JoinedIn ==
  ASSUME NEW S, NEW parts \in Seq(Seq(S))
  PROVE  Joined(parts) \in Seq(S)
<1>1. PICK f \in [0..Len(parts) -> Seq(S)] : Joined(parts) = f[Len(parts)]
  BY JoinedRounds
<1>2. Len(parts) \in 0..Len(parts)
  OBVIOUS
<1> QED BY <1>1, <1>2

\* What the targets ask is a sum of the levels before.
LEMMA AskedRounds ==
  ASSUME NEW targets \in [ToSet(Levels) -> Nat]
  PROVE  /\ Asked(targets) \in [0..8 -> Nat] /\ Asked(targets)[0] = 0
         /\ \A n \in 1..8 : Asked(targets)[n] = Asked(targets)[n - 1] + targets[Levels[n]]
<1> DEFINE step == [n \in 1..8 |-> [x \in Nat |-> x + targets[Levels[n]]]]
           Equation(h) == h = [n \in 0..Len(Levels) |-> IF n = 0 THEN 0 ELSE h[n - 1] + targets[Levels[n]]]
           f == Asked(targets)
<1>1. Len(Levels) = 8 /\ \A n \in 1..8 : targets[Levels[n]] \in Nat
  BY DEF Levels, ToSet
<1>2. Equation(f)
  <2>1. step \in Steps(Nat, 8)
    BY <1>1 DEF Steps
  <2>2. PICK g : Runs(g, Nat, 8, 0, step)
    <3> HIDE DEF step
    <3> QED BY <2>1, RoundsExist
  <2>3. g \in [0..8 -> Nat] /\ \A n \in 1..8 : g[n - 1] \in Nat
    BY <2>2 DEF Runs
  <2>4. \A n \in 0..8 : g[n] = IF n = 0 THEN 0 ELSE g[n - 1] + targets[Levels[n]]
    BY <2>2, <2>3 DEF Runs
  <2>5. Equation(g)
    BY <1>1, <2>3, <2>4
  <2>6. f = CHOOSE h : Equation(h)
    BY DEF Asked
  <2> HIDE DEF Equation, f
  <2> QED BY <2>5, <2>6
<1> HIDE DEF f
<1>3. f = [n \in 0..8 |-> f[n]] /\ f[0] = 0 /\ \A n \in 1..8 : f[n] = f[n - 1] + targets[Levels[n]]
  BY <1>1, <1>2
<1> DEFINE T == {n \in 0..8 : f[n] \in Nat}
<1>4. 0..8 \subseteq T
  <2>1. 0 \in T /\ \A n \in 1..8 : n - 1 \in T => n \in T
    BY <1>1, <1>3
  <2> HIDE DEF T
  <2> QED BY <2>1, Upwards
<1>5. f \in [0..8 -> Nat]
  BY <1>3, <1>4
<1> QED BY <1>3, <1>5 DEF f

-----------------------------------------------------------------------------
(* Specs and their templates.                                              *)

LevelSet == {"L1", "L2", "L3", "L4", "L5", "L6", "L7", "L8"}

LEMMA LevelsAre ==
  /\ Levels \in Seq(LevelSet) /\ Len(Levels) = 8 /\ DOMAIN Levels = 1..8
  /\ ToSet(Levels) = LevelSet
  /\ \A i, j \in 1..8 : Levels[i] = Levels[j] => i = j
<1>1. Levels \in Seq(LevelSet) /\ Len(Levels) = 8 /\ DOMAIN Levels = 1..8
  BY DEF Levels, LevelSet
<1>2. ToSet(Levels) = LevelSet
  <2>1. \A l \in LevelSet : \E i \in 1..8 : Levels[i] = l
    <3>1. /\ Levels[1] = "L1" /\ Levels[2] = "L2" /\ Levels[3] = "L3" /\ Levels[4] = "L4"
          /\ Levels[5] = "L5" /\ Levels[6] = "L6" /\ Levels[7] = "L7" /\ Levels[8] = "L8"
      BY DEF Levels
    <3> QED BY <3>1 DEF LevelSet
  <2>2. \A i \in 1..8 : Levels[i] \in LevelSet
    BY <1>1, ElementOfSeq
  <2> QED BY <1>1, <2>1, <2>2 DEF ToSet
<1>3. \A i, j \in 1..8 : Levels[i] = Levels[j] => i = j
  BY DEF Levels
<1> QED BY <1>1, <1>2, <1>3

\* An index wraps around into the sequence.
LEMMA AtIn ==
  ASSUME NEW S, NEW seq \in Seq(S), seq # << >>, NEW index \in Nat
  PROVE  At(seq, index) \in S
<1>1. Len(seq) \in Nat \ {0}
  BY EmptySeq
<1>2. index % Len(seq) \in 0..(Len(seq) - 1)
  BY <1>1
<1>3. (index % Len(seq)) + 1 \in 1..Len(seq)
  BY <1>1, <1>2
<1> QED BY <1>3, ElementOfSeq DEF At

\* Sequences of paths of m edges.
Paths(triplets, m) == Seq([1..m -> ToSet(triplets)])

LEMMA LongerPaths ==
  ASSUME NEW triplets \in Seq(Edges), NEW m \in Nat \ {0}, NEW paths \in Paths(triplets, m)
  PROVE  Longer(triplets, paths) \in Paths(triplets, m + 1)
<1> DEFINE T == ToSet(triplets)
           k == m + 1
<1>0. paths \in Seq([1..m -> T]) /\ k \in Nat
  BY DEF Paths
<1>1. ASSUME NEW i \in DOMAIN paths PROVE Extensions(triplets, paths[i]) \in Seq([1..k -> T])
  <2> DEFINE keep == {j \in DOMAIN triplets : triplets[j].src = Last(paths[i]).dst}
             next == Selected(triplets, keep)
  <2>1. next \in Seq(T)
    <3>1. keep \in SUBSET DOMAIN triplets /\ \A j \in keep : triplets[j] \in T
      BY DEF ToSet
    <3> HIDE DEF keep, T
    <3> QED BY <3>1, SelectedIn
  <2>2. paths[i] \in [1..m -> T] /\ paths[i] \in Seq(T) /\ Len(paths[i]) = m
    <3>1. paths[i] \in [1..m -> T]
      BY <1>0
    <3> HIDE DEF T
    <3> QED BY <3>1
  <2>3. ASSUME NEW n \in DOMAIN next PROVE Append(paths[i], next[n]) \in [1..k -> T]
    <3>1. next[n] \in T
      BY <2>1, <2>3
    <3> HIDE DEF T, next
    <3>2. Append(paths[i], next[n]) \in Seq(T) /\ Len(Append(paths[i], next[n])) = m + 1
      BY <2>2, <3>1
    <3> DEFINE longer == Append(paths[i], next[n])
    <3>3. longer \in [1..Len(longer) -> T]
      BY <3>2, LenProperties
    <3>4. Len(longer) = k
      BY <3>2
    <3> HIDE DEF k, longer
    <3>5. longer \in [1..k -> T]
      BY <3>3, <3>4
    <3> QED BY <3>5 DEF longer
  <2>4. Extensions(triplets, paths[i]) = [n \in DOMAIN next |-> Append(paths[i], next[n])]
    BY DEF Extensions
  <2>5. Len(next) \in Nat /\ DOMAIN next = 1..Len(next)
    BY <2>1
  <2> HIDE DEF next, T, k
  <2> QED BY <2>3, <2>4, <2>5
<1>2. [i \in DOMAIN paths |-> Extensions(triplets, paths[i])] \in Seq(Seq([1..k -> T]))
  <2>1. Len(paths) \in Nat /\ DOMAIN paths = 1..Len(paths)
    BY <1>0
  <2> HIDE DEF T, k
  <2> QED BY <1>1, <2>1
<1> HIDE DEF T, k
<1>3. Longer(triplets, paths) \in Seq([1..k -> T])
  BY <1>2, JoinedIn DEF Longer
<1> QED BY <1>3 DEF Paths, T, k

LEMMA PathsAre ==
  ASSUME NEW triplets \in Seq(Edges)
  PROVE  ContinuousPaths(triplets) \in Seq([1..3 -> ToSet(triplets)])
<1> DEFINE p1 == [i \in DOMAIN triplets |-> <<triplets[i]>>]
           p2 == Longer(triplets, p1)
<1>1. p1 \in Paths(triplets, 1)
  <2>1. \A i \in DOMAIN triplets : <<triplets[i]>> \in [1..1 -> ToSet(triplets)]
    BY DEF ToSet
  <2> QED BY <2>1 DEF Paths
<1>2. p2 \in Paths(triplets, 2)
  <2> HIDE DEF p1
  <2>1. Longer(triplets, p1) \in Paths(triplets, 1 + 1)
    BY <1>1, LongerPaths
  <2> QED BY <2>1
<1>3. Longer(triplets, p2) \in Paths(triplets, 3)
  <2> HIDE DEF p2
  <2>1. Longer(triplets, p2) \in Paths(triplets, 2 + 1)
    BY <1>2, LongerPaths
  <2> QED BY <2>1
<1> QED BY <1>3 DEF ContinuousPaths, Paths

\* What a schema is made of.
SchemaOK(schema) ==
  schema.labels \in Seq(STRING) /\ schema.edges \in Seq(STRING) /\ schema.triplets \in Seq(Edges)

\* What a spec may bind (the provers do not know that a literal is a string).
Bindable == [edge : STRING \cup {"RELATED_TO"}, src : STRING, dst : STRING, form : {"forward"}]

LEMMA HopIn ==
  ASSUME NEW edge \in STRING \cup {"RELATED_TO"}, NEW src \in STRING, NEW dst \in STRING
  PROVE  Hop(edge, src, dst) \in Bindable
BY DEF Hop, Bindable

\* What turns up when a sequence is taken in turn is in it.
LEMMA TurnIn ==
  ASSUME NEW seq \in Seq(STRING), seq # << >>, NEW index \in Nat, NEW k \in Nat
  PROVE  At(seq, index + Smaller(k, Len(seq) - 1)) \in ToSet(seq) /\ At(seq, index + Smaller(k, Len(seq) - 1)) \in STRING
<1>1. Len(seq) \in Nat \ {0}
  BY EmptySeq
<1>2. index + Smaller(k, Len(seq) - 1) \in Nat
  BY <1>1 DEF Smaller
<1>3. seq \in Seq(ToSet(seq))
  BY DEF ToSet
<1> QED BY <1>2, <1>3, AtIn

\* Without constraints, labels and edges come in turn.
LEMMA UnconstrainedBound ==
  ASSUME NEW schema, SchemaOK(schema), schema.labels # << >>, schema.triplets = << >>, NEW index \in Nat
  PROVE  /\ Bound(schema, index) \in [1..3 -> Bindable]
         /\ \A k \in 1..3 : /\ {Bound(schema, index)[k].src, Bound(schema, index)[k].dst} \subseteq ToSet(schema.labels)
                            /\ schema.edges # << >> => Bound(schema, index)[k].edge \in ToSet(schema.edges)
<1> DEFINE turn(seq, k) == At(seq, index + Smaller(k, Len(seq) - 1))
           edge(k) == IF schema.edges = << >> THEN "RELATED_TO" ELSE turn(schema.edges, k)
           hop(k) == Hop(edge(k - 1), turn(schema.labels, k - 1), turn(schema.labels, k))
<1>1. Bound(schema, index) = [k \in 1..3 |-> hop(k)]
  BY DEF Bound
<1>2. \A k \in Nat : turn(schema.labels, k) \in ToSet(schema.labels) /\ turn(schema.labels, k) \in STRING
  BY TurnIn DEF SchemaOK
<1>3. \A k \in Nat : edge(k) \in STRING \cup {"RELATED_TO"} /\ (schema.edges # << >> => edge(k) \in ToSet(schema.edges))
  BY TurnIn DEF SchemaOK
<1> HIDE DEF turn, edge
<1>4. ASSUME NEW k \in 1..3
      PROVE  /\ hop(k) \in Bindable /\ hop(k).src \in ToSet(schema.labels) /\ hop(k).dst \in ToSet(schema.labels)
             /\ schema.edges # << >> => hop(k).edge \in ToSet(schema.edges)
  <2>1. k - 1 \in Nat /\ k \in Nat
    OBVIOUS
  <2>2. hop(k) \in Bindable
    BY <1>2, <1>3, <2>1, HopIn
  <2>3. /\ hop(k).src = turn(schema.labels, k - 1) /\ hop(k).dst = turn(schema.labels, k)
        /\ hop(k).edge = edge(k - 1)
    BY DEF Hop
  <2> HIDE DEF hop
  <2> QED BY <1>2, <1>3, <2>1, <2>2, <2>3
<1> HIDE DEF hop
<1> QED BY <1>1, <1>4

\* The hops that a template may use are hops of the schema's paths, as far as it has any.
LEMMA ConstrainedBound ==
  ASSUME NEW schema, SchemaOK(schema), schema.triplets # << >>, NEW index \in Nat
  PROVE  /\ Bound(schema, index) \in [1..3 -> Bindable]
         /\ HasThreeHops(schema) => \A k \in 1..3 : Bound(schema, index)[k] \in ToSet(schema.triplets)
         /\ Bound(schema, index)[1] \in ToSet(schema.triplets)
<1> DEFINE triplets == schema.triplets
           paths == ContinuousPaths(triplets)
           T == ToSet(triplets)
<1>1. T \subseteq Edges /\ paths \in Seq([1..3 -> T])
  <2>1. triplets \in Seq(Edges)
    BY DEF SchemaOK
  <2>2. T \subseteq Edges
    BY <2>1 DEF ToSet
  <2> QED BY <2>1, <2>2, PathsAre
<1>2. CASE paths # << >>
  <2>1. Bound(schema, index) = At(paths, index)
    BY <1>2 DEF Bound
  <2> HIDE DEF paths, T
  <2>2. Bound(schema, index) \in [1..3 -> T]
    BY <1>1, <1>2, <2>1, AtIn
  <2>3. T \subseteq Bindable
    BY <1>1 DEF Edges, Bindable
  <2> QED BY <2>2, <2>3 DEF T
<1>3. CASE paths = << >>
  <2> DEFINE t == At(triplets, index)
  <2>1. t \in T
    <3>1. triplets \in Seq(T)
      BY DEF ToSet, SchemaOK
    <3> HIDE DEF T
    <3> QED BY <3>1, AtIn
  <2>2. Bound(schema, index) = <<t, Hop(t.edge, t.dst, t.dst), Hop(t.edge, t.dst, t.dst)>>
    BY <1>3 DEF Bound
  <2> HIDE DEF t, T
  <2>3. t \in Bindable /\ Hop(t.edge, t.dst, t.dst) \in Bindable
    BY <1>1, <2>1 DEF Hop, Edges, Bindable
  <2>4. Bound(schema, index) \in [1..3 -> Bindable] /\ Bound(schema, index)[1] = t
    BY <2>2, <2>3
  <2> QED BY <1>3, <2>1, <2>4 DEF HasThreeHops, T
<1> QED BY <1>2, <1>3

\* No path without an edge.
LEMMA NoPaths ==
  ASSUME NEW schema, SchemaOK(schema), schema.triplets = << >>
  PROVE  ~HasThreeHops(schema)
<1> SUFFICES ASSUME ContinuousPaths(schema.triplets) # << >> PROVE FALSE
  BY DEF HasThreeHops
<1> DEFINE paths == ContinuousPaths(schema.triplets)
           T == ToSet(schema.triplets)
<1>1. paths \in Seq([1..3 -> T]) /\ T = {}
  <2>1. schema.triplets \in Seq(Edges)
    BY DEF SchemaOK
  <2>2. T = {}
    BY DEF ToSet
  <2> QED BY <2>1, <2>2, PathsAre
<1> HIDE DEF paths, T
<1>2. paths[1] \in [1..3 -> T]
  BY <1>1, EmptySeq, ElementOfSeq DEF paths
<1>3. paths[1][1] \in T
  BY <1>2
<1> QED BY <1>1, <1>3

\* A spec of a schema.
SpecsFor(schema) ==
  {s \in [level : LevelSet, template : 1..2, bound : [1..3 -> Bindable], property : 0..1] :
     /\ HasThreeHops(schema) => \A k \in 1..3 : s.bound[k] \in ToSet(schema.triplets)
     /\ schema.triplets # << >> => s.bound[1] \in ToSet(schema.triplets)
     /\ schema.triplets = << >> =>
          \A k \in 1..3 : /\ {s.bound[k].src, s.bound[k].dst} \subseteq ToSet(schema.labels)
                          /\ schema.edges # << >> => s.bound[k].edge \in ToSet(schema.edges)}

\* A request as a job may have it.
RequestOK(r) ==
  /\ DOMAIN r = {"schema", "targets", "offset", "count"}
  /\ SchemaOK(r.schema)
  /\ r.targets \in [LevelSet -> Nat] /\ r.offset \in Nat /\ r.count \in Nat

LEMMA Spec0In ==
  ASSUME NEW schema, SchemaOK(schema), schema.labels # << >>,
         NEW level \in LevelSet, NEW template \in 1..2, NEW index \in Nat
  PROVE  Spec0(schema, level, template, index) \in SpecsFor(schema)
<1>1. index % 2 \in 0..1
  OBVIOUS
<1>2. CASE schema.triplets = << >>
  <2>1. /\ Bound(schema, index) \in [1..3 -> Bindable]
        /\ \A k \in 1..3 : /\ {Bound(schema, index)[k].src, Bound(schema, index)[k].dst} \subseteq ToSet(schema.labels)
                           /\ schema.edges # << >> => Bound(schema, index)[k].edge \in ToSet(schema.edges)
    BY <1>2, UnconstrainedBound
  <2>2. ~HasThreeHops(schema)
    BY <1>2, NoPaths
  <2> QED BY <1>1, <1>2, <2>1, <2>2 DEF Spec0, SpecsFor
<1>3. CASE schema.triplets # << >>
  <2>1. /\ Bound(schema, index) \in [1..3 -> Bindable]
        /\ HasThreeHops(schema) => \A k \in 1..3 : Bound(schema, index)[k] \in ToSet(schema.triplets)
        /\ Bound(schema, index)[1] \in ToSet(schema.triplets)
    BY <1>3, ConstrainedBound
  <2> QED BY <1>1, <1>3, <2>1 DEF Spec0, SpecsFor
<1> QED BY <1>2, <1>3

\* A sequence cut off at n.
LEMMA CutOff ==
  ASSUME NEW S, NEW seq \in Seq(S), NEW n \in Nat
  PROVE  /\ SubSeq(seq, 1, Smaller(Len(seq), n)) \in Seq(S)
         /\ Len(SubSeq(seq, 1, Smaller(Len(seq), n))) = Smaller(Len(seq), n)
         /\ Smaller(Len(seq), n) \in Nat /\ Smaller(Len(seq), n) <= n /\ Smaller(Len(seq), n) <= Len(seq)
         /\ \A i \in 1..Smaller(Len(seq), n) : SubSeq(seq, 1, Smaller(Len(seq), n))[i] = seq[i]
<1>1. Len(seq) \in Nat
  OBVIOUS
<1>2. Smaller(Len(seq), n) \in Nat /\ Smaller(Len(seq), n) <= n /\ Smaller(Len(seq), n) <= Len(seq)
  BY <1>1 DEF Smaller
<1> QED BY <1>1, <1>2

LEMMA TargetedSpecsFit ==
  ASSUME NEW r, RequestOK(r), r.schema.labels # << >>
  PROVE  TargetedSpecs(r) \in Seq(SpecsFor(r.schema)) /\ Len(TargetedSpecs(r)) <= MaxSkeletons
<1> DEFINE S == SpecsFor(r.schema)
           spec(i, k) == Spec0(r.schema, Levels[i], ((r.offset + k - 1) % 2) + 1,
                               r.offset + Asked(r.targets)[i - 1] + k - 1)
           ofLevel(i) == [k \in 1..r.targets[Levels[i]] |-> spec(i, k)]
           parts == [i \in DOMAIN Levels |-> ofLevel(i)]
           all == Joined(parts)
<1>1. TargetedSpecs(r) = SubSeq(all, 1, Smaller(Len(all), MaxSkeletons))
  BY DEF TargetedSpecs
<1>2. ASSUME NEW i \in 1..8, NEW k \in 1..r.targets[Levels[i]] PROVE spec(i, k) \in S
  <2>1. Levels[i] \in LevelSet /\ r.targets[Levels[i]] \in Nat /\ r.targets \in [ToSet(Levels) -> Nat]
    BY LevelsAre, ElementOfSeq DEF RequestOK
  <2>2. k \in Nat \ {0}
    BY <2>1
  <2>3. Asked(r.targets)[i - 1] \in Nat
    <3>1. Asked(r.targets) \in [0..8 -> Nat]
      BY <2>1, AskedRounds
    <3>2. i - 1 \in 0..8
      OBVIOUS
    <3> HIDE DEF spec, ofLevel, parts, all, S
    <3> QED BY <3>1, <3>2
  <2>4. r.offset + Asked(r.targets)[i - 1] + k - 1 \in Nat /\ ((r.offset + k - 1) % 2) + 1 \in 1..2
    <3>1. r.offset + k - 1 \in Nat
      BY <2>2 DEF RequestOK
    <3>2. (r.offset + k - 1) % 2 \in 0..1
      BY <3>1
    <3>3. r.offset \in Nat
      BY DEF RequestOK
    <3> DEFINE asked == Asked(r.targets)[i - 1]
    <3>4. asked \in Nat
      BY <2>3
    <3> HIDE DEF asked
    <3>5. r.offset + asked + k - 1 \in Nat
      BY <2>2, <3>3, <3>4
    <3> QED BY <3>2, <3>5 DEF asked
  <2> QED BY <2>1, <2>4, Spec0In DEF RequestOK
<1>3. parts \in Seq(Seq(S))
  <2>1. ASSUME NEW i \in 1..8 PROVE ofLevel(i) \in Seq(S)
    <3>1. r.targets[Levels[i]] \in Nat
      BY LevelsAre, ElementOfSeq DEF RequestOK
    <3> HIDE DEF spec, S
    <3> QED BY <1>2, <3>1
  <2>2. DOMAIN Levels = 1..8
    BY LevelsAre
  <2> HIDE DEF ofLevel, S
  <2> QED BY <2>1, <2>2
<1>4. all \in Seq(S)
  <2> HIDE DEF parts, S
  <2> QED BY <1>3, JoinedIn
<1>5. MaxSkeletons \in Nat
  BY SampleAssumption
<1> HIDE DEF all, S
<1>6. /\ SubSeq(all, 1, Smaller(Len(all), MaxSkeletons)) \in Seq(S)
      /\ Len(SubSeq(all, 1, Smaller(Len(all), MaxSkeletons))) <= MaxSkeletons
  BY <1>4, <1>5, CutOff
<1> QED BY <1>1, <1>6 DEF S

LEMMA UntargetedSpecsFit ==
  ASSUME NEW r, RequestOK(r), r.schema.labels # << >>
  PROVE  UntargetedSpecs(r) \in Seq(SpecsFor(r.schema)) /\ Len(UntargetedSpecs(r)) <= MaxSkeletons
<1>1. PlanCount(r.count) \in Nat /\ PlanCount(r.count) <= MaxSkeletons
  BY SampleAssumption DEF PlanCount, Smaller, RequestOK
<1>2. ASSUME NEW i \in 1..PlanCount(r.count)
      PROVE  Spec0(r.schema, At(Levels, i - 1), (((i - 1) \div 8) % 2) + 1, i - 1) \in SpecsFor(r.schema)
  <2>1. i - 1 \in Nat
    BY <1>1
  <2>2. At(Levels, i - 1) \in LevelSet
    <3>1. Levels # << >>
      BY LevelsAre, EmptySeq
    <3> QED BY <2>1, <3>1, LevelsAre, AtIn
  <2>3. (((i - 1) \div 8) % 2) + 1 \in 1..2
    <3>1. (i - 1) \div 8 \in Int
      BY <2>1
    <3> QED BY <3>1
  <2> QED BY <2>1, <2>2, <2>3, Spec0In DEF RequestOK
<1> QED BY <1>1, <1>2 DEF UntargetedSpecs

-----------------------------------------------------------------------------
(* Templates fit their levels.                                             *)

\* What a template of a level may be: the hops it uses are listed ones, they are as many
\* as the family has, and so are its aggregations.
TemplateFits(level, t) ==
  /\ t.hops \in 0..3 /\ t.again \in 0..2 /\ t.hops <= ListedHops(level) /\ t.again <= ListedHops(level)
  /\ level = "L3" => t.hops + t.again \in 1..2
  /\ level \in {"L5", "L6"} => t.hops + t.again = 2
  /\ level = "L7" => t.hops + t.again \in 2..3
  /\ level \in {"L4", "L8"} => t.aggs > 0
  /\ level = "L8" => t.again > 0

\* A query has the structure of the template t.
HasStructure(q, t) ==
  /\ Len(q.hops) = t.hops + t.again /\ (q.multi <=> t.again > 0)
  /\ q.conditions = t.conditions /\ q.aggs = t.aggs /\ (q.order <=> t.order)

\* The sixteen templates: each fits its level, and classify gives its structure that level.
LEMMA TemplatesAre ==
  ASSUME NEW level \in LevelSet, NEW n \in 1..2
  PROVE  /\ TemplateFits(level, Templates[level][n])
         /\ \A q : HasStructure(q, Templates[level][n]) => Classify(q) = level
<1> DEFINE t == Templates[level][n]
<1> SUFFICES ASSUME NEW q
             PROVE  TemplateFits(level, t) /\ (HasStructure(q, t) => Classify(q) = level)
  OBVIOUS
<1>0. n = 1 \/ n = 2
  OBVIOUS
<1>1. CASE level = "L1"
  <2>1. Templates["L1"] = <<Template(0, 0, 0, 0, FALSE, FALSE), Template(0, 0, 0, 0, FALSE, TRUE)>>
    BY DEF Templates
  <2>2. ListedHops(level) = 0
    BY <1>1 DEF ListedHops
  <2>3. CASE n = 1
    <3>1. t = Template(0, 0, 0, 0, FALSE, FALSE)
      BY <1>1, <2>1, <2>3
    <3> HIDE DEF t
    <3>2. TemplateFits(level, t)
      BY <1>1, <2>2, <3>1 DEF Template, TemplateFits
    <3>3. ASSUME HasStructure(q, t) PROVE Classify(q) = "L1"
      <4>1. Len(q.hops) = 0 /\ ~q.multi /\ q.conditions = 0 /\ q.aggs = 0 /\ ~q.order
        BY <3>1, <3>3 DEF Template, HasStructure
      <4> QED BY <4>1 DEF Classify
    <3> QED BY <1>1, <3>2, <3>3
  <2>4. CASE n = 2
    <3>1. t = Template(0, 0, 0, 0, FALSE, TRUE)
      BY <1>1, <2>1, <2>4
    <3> HIDE DEF t
    <3>2. TemplateFits(level, t)
      BY <1>1, <2>2, <3>1 DEF Template, TemplateFits
    <3>3. ASSUME HasStructure(q, t) PROVE Classify(q) = "L1"
      <4>1. Len(q.hops) = 0 /\ ~q.multi /\ q.conditions = 0 /\ q.aggs = 0 /\ ~q.order
        BY <3>1, <3>3 DEF Template, HasStructure
      <4> QED BY <4>1 DEF Classify
    <3> QED BY <1>1, <3>2, <3>3
  <2> QED BY <1>0, <2>3, <2>4
<1>2. CASE level = "L2"
  <2>1. Templates["L2"] = <<Template(0, 0, 1, 0, FALSE, TRUE), Template(0, 0, 1, 0, FALSE, TRUE)>>
    BY DEF Templates
  <2>2. ListedHops(level) = 0
    BY <1>2 DEF ListedHops
  <2>3. CASE n = 1
    <3>1. t = Template(0, 0, 1, 0, FALSE, TRUE)
      BY <1>2, <2>1, <2>3
    <3> HIDE DEF t
    <3>2. TemplateFits(level, t)
      BY <1>2, <2>2, <3>1 DEF Template, TemplateFits
    <3>3. ASSUME HasStructure(q, t) PROVE Classify(q) = "L2"
      <4>1. Len(q.hops) = 0 /\ ~q.multi /\ q.conditions = 1 /\ q.aggs = 0 /\ ~q.order
        BY <3>1, <3>3 DEF Template, HasStructure
      <4> QED BY <4>1 DEF Classify
    <3> QED BY <1>2, <3>2, <3>3
  <2>4. CASE n = 2
    <3>1. t = Template(0, 0, 1, 0, FALSE, TRUE)
      BY <1>2, <2>1, <2>4
    <3> HIDE DEF t
    <3>2. TemplateFits(level, t)
      BY <1>2, <2>2, <3>1 DEF Template, TemplateFits
    <3>3. ASSUME HasStructure(q, t) PROVE Classify(q) = "L2"
      <4>1. Len(q.hops) = 0 /\ ~q.multi /\ q.conditions = 1 /\ q.aggs = 0 /\ ~q.order
        BY <3>1, <3>3 DEF Template, HasStructure
      <4> QED BY <4>1 DEF Classify
    <3> QED BY <1>2, <3>2, <3>3
  <2> QED BY <1>0, <2>3, <2>4
<1>3. CASE level = "L3"
  <2>1. Templates["L3"] = <<Template(1, 0, 0, 0, FALSE, FALSE), Template(1, 0, 0, 0, FALSE, TRUE)>>
    BY DEF Templates
  <2>2. ListedHops(level) = 1
    BY <1>3 DEF ListedHops
  <2>3. CASE n = 1
    <3>1. t = Template(1, 0, 0, 0, FALSE, FALSE)
      BY <1>3, <2>1, <2>3
    <3> HIDE DEF t
    <3>2. TemplateFits(level, t)
      BY <1>3, <2>2, <3>1 DEF Template, TemplateFits
    <3>3. ASSUME HasStructure(q, t) PROVE Classify(q) = "L3"
      <4>1. Len(q.hops) = 1 /\ ~q.multi /\ q.conditions = 0 /\ q.aggs = 0 /\ ~q.order
        BY <3>1, <3>3 DEF Template, HasStructure
      <4> QED BY <4>1 DEF Classify
    <3> QED BY <1>3, <3>2, <3>3
  <2>4. CASE n = 2
    <3>1. t = Template(1, 0, 0, 0, FALSE, TRUE)
      BY <1>3, <2>1, <2>4
    <3> HIDE DEF t
    <3>2. TemplateFits(level, t)
      BY <1>3, <2>2, <3>1 DEF Template, TemplateFits
    <3>3. ASSUME HasStructure(q, t) PROVE Classify(q) = "L3"
      <4>1. Len(q.hops) = 1 /\ ~q.multi /\ q.conditions = 0 /\ q.aggs = 0 /\ ~q.order
        BY <3>1, <3>3 DEF Template, HasStructure
      <4> QED BY <4>1 DEF Classify
    <3> QED BY <1>3, <3>2, <3>3
  <2> QED BY <1>0, <2>3, <2>4
<1>4. CASE level = "L4"
  <2>1. Templates["L4"] = <<Template(0, 0, 0, 1, FALSE, FALSE), Template(0, 0, 0, 1, FALSE, TRUE)>>
    BY DEF Templates
  <2>2. ListedHops(level) = 0
    BY <1>4 DEF ListedHops
  <2>3. CASE n = 1
    <3>1. t = Template(0, 0, 0, 1, FALSE, FALSE)
      BY <1>4, <2>1, <2>3
    <3> HIDE DEF t
    <3>2. TemplateFits(level, t)
      BY <1>4, <2>2, <3>1 DEF Template, TemplateFits
    <3>3. ASSUME HasStructure(q, t) PROVE Classify(q) = "L4"
      <4>1. Len(q.hops) = 0 /\ ~q.multi /\ q.conditions = 0 /\ q.aggs = 1 /\ ~q.order
        BY <3>1, <3>3 DEF Template, HasStructure
      <4> QED BY <4>1 DEF Classify
    <3> QED BY <1>4, <3>2, <3>3
  <2>4. CASE n = 2
    <3>1. t = Template(0, 0, 0, 1, FALSE, TRUE)
      BY <1>4, <2>1, <2>4
    <3> HIDE DEF t
    <3>2. TemplateFits(level, t)
      BY <1>4, <2>2, <3>1 DEF Template, TemplateFits
    <3>3. ASSUME HasStructure(q, t) PROVE Classify(q) = "L4"
      <4>1. Len(q.hops) = 0 /\ ~q.multi /\ q.conditions = 0 /\ q.aggs = 1 /\ ~q.order
        BY <3>1, <3>3 DEF Template, HasStructure
      <4> QED BY <4>1 DEF Classify
    <3> QED BY <1>4, <3>2, <3>3
  <2> QED BY <1>0, <2>3, <2>4
<1>5. CASE level = "L5"
  <2>1. Templates["L5"] = <<Template(2, 0, 0, 0, FALSE, FALSE), Template(2, 0, 0, 0, FALSE, TRUE)>>
    BY DEF Templates
  <2>2. ListedHops(level) = 2
    BY <1>5 DEF ListedHops
  <2>3. CASE n = 1
    <3>1. t = Template(2, 0, 0, 0, FALSE, FALSE)
      BY <1>5, <2>1, <2>3
    <3> HIDE DEF t
    <3>2. TemplateFits(level, t)
      BY <1>5, <2>2, <3>1 DEF Template, TemplateFits
    <3>3. ASSUME HasStructure(q, t) PROVE Classify(q) = "L5"
      <4>1. Len(q.hops) = 2 /\ ~q.multi /\ q.conditions = 0 /\ q.aggs = 0 /\ ~q.order
        BY <3>1, <3>3 DEF Template, HasStructure
      <4> QED BY <4>1 DEF Classify
    <3> QED BY <1>5, <3>2, <3>3
  <2>4. CASE n = 2
    <3>1. t = Template(2, 0, 0, 0, FALSE, TRUE)
      BY <1>5, <2>1, <2>4
    <3> HIDE DEF t
    <3>2. TemplateFits(level, t)
      BY <1>5, <2>2, <3>1 DEF Template, TemplateFits
    <3>3. ASSUME HasStructure(q, t) PROVE Classify(q) = "L5"
      <4>1. Len(q.hops) = 2 /\ ~q.multi /\ q.conditions = 0 /\ q.aggs = 0 /\ ~q.order
        BY <3>1, <3>3 DEF Template, HasStructure
      <4> QED BY <4>1 DEF Classify
    <3> QED BY <1>5, <3>2, <3>3
  <2> QED BY <1>0, <2>3, <2>4
<1>6. CASE level = "L6"
  <2>1. Templates["L6"] = <<Template(2, 0, 1, 1, TRUE, TRUE), Template(2, 0, 1, 1, TRUE, TRUE)>>
    BY DEF Templates
  <2>2. ListedHops(level) = 2
    BY <1>6 DEF ListedHops
  <2>3. CASE n = 1
    <3>1. t = Template(2, 0, 1, 1, TRUE, TRUE)
      BY <1>6, <2>1, <2>3
    <3> HIDE DEF t
    <3>2. TemplateFits(level, t)
      BY <1>6, <2>2, <3>1 DEF Template, TemplateFits
    <3>3. ASSUME HasStructure(q, t) PROVE Classify(q) = "L6"
      <4>1. Len(q.hops) = 2 /\ ~q.multi /\ q.conditions = 1 /\ q.aggs = 1 /\ q.order
        BY <3>1, <3>3 DEF Template, HasStructure
      <4> QED BY <4>1 DEF Classify
    <3> QED BY <1>6, <3>2, <3>3
  <2>4. CASE n = 2
    <3>1. t = Template(2, 0, 1, 1, TRUE, TRUE)
      BY <1>6, <2>1, <2>4
    <3> HIDE DEF t
    <3>2. TemplateFits(level, t)
      BY <1>6, <2>2, <3>1 DEF Template, TemplateFits
    <3>3. ASSUME HasStructure(q, t) PROVE Classify(q) = "L6"
      <4>1. Len(q.hops) = 2 /\ ~q.multi /\ q.conditions = 1 /\ q.aggs = 1 /\ q.order
        BY <3>1, <3>3 DEF Template, HasStructure
      <4> QED BY <4>1 DEF Classify
    <3> QED BY <1>6, <3>2, <3>3
  <2> QED BY <1>0, <2>3, <2>4
<1>7. CASE level = "L7"
  <2>1. Templates["L7"] = <<Template(3, 0, 0, 0, FALSE, FALSE), Template(3, 0, 0, 0, FALSE, TRUE)>>
    BY DEF Templates
  <2>2. ListedHops(level) = 3
    BY <1>7 DEF ListedHops
  <2>3. CASE n = 1
    <3>1. t = Template(3, 0, 0, 0, FALSE, FALSE)
      BY <1>7, <2>1, <2>3
    <3> HIDE DEF t
    <3>2. TemplateFits(level, t)
      BY <1>7, <2>2, <3>1 DEF Template, TemplateFits
    <3>3. ASSUME HasStructure(q, t) PROVE Classify(q) = "L7"
      <4>1. Len(q.hops) = 3 /\ ~q.multi /\ q.conditions = 0 /\ q.aggs = 0 /\ ~q.order
        BY <3>1, <3>3 DEF Template, HasStructure
      <4> QED BY <4>1 DEF Classify
    <3> QED BY <1>7, <3>2, <3>3
  <2>4. CASE n = 2
    <3>1. t = Template(3, 0, 0, 0, FALSE, TRUE)
      BY <1>7, <2>1, <2>4
    <3> HIDE DEF t
    <3>2. TemplateFits(level, t)
      BY <1>7, <2>2, <3>1 DEF Template, TemplateFits
    <3>3. ASSUME HasStructure(q, t) PROVE Classify(q) = "L7"
      <4>1. Len(q.hops) = 3 /\ ~q.multi /\ q.conditions = 0 /\ q.aggs = 0 /\ ~q.order
        BY <3>1, <3>3 DEF Template, HasStructure
      <4> QED BY <4>1 DEF Classify
    <3> QED BY <1>7, <3>2, <3>3
  <2> QED BY <1>0, <2>3, <2>4
<1>8. CASE level = "L8"
  <2>1. Templates["L8"] = <<Template(1, 2, 1, 2, FALSE, TRUE), Template(2, 2, 0, 2, TRUE, TRUE)>>
    BY DEF Templates
  <2>2. ListedHops(level) = 2
    BY <1>8 DEF ListedHops
  <2>3. CASE n = 1
    <3>1. t = Template(1, 2, 1, 2, FALSE, TRUE)
      BY <1>8, <2>1, <2>3
    <3> HIDE DEF t
    <3>2. TemplateFits(level, t)
      BY <1>8, <2>2, <3>1 DEF Template, TemplateFits
    <3>3. ASSUME HasStructure(q, t) PROVE Classify(q) = "L8"
      <4>1. Len(q.hops) = 3 /\ q.multi /\ q.conditions = 1 /\ q.aggs = 2 /\ ~q.order
        BY <3>1, <3>3 DEF Template, HasStructure
      <4> QED BY <4>1 DEF Classify
    <3> QED BY <1>8, <3>2, <3>3
  <2>4. CASE n = 2
    <3>1. t = Template(2, 2, 0, 2, TRUE, TRUE)
      BY <1>8, <2>1, <2>4
    <3> HIDE DEF t
    <3>2. TemplateFits(level, t)
      BY <1>8, <2>2, <3>1 DEF Template, TemplateFits
    <3>3. ASSUME HasStructure(q, t) PROVE Classify(q) = "L8"
      <4>1. Len(q.hops) = 4 /\ q.multi /\ q.conditions = 0 /\ q.aggs = 2 /\ q.order
        BY <3>1, <3>3 DEF Template, HasStructure
      <4> QED BY <4>1 DEF Classify
    <3> QED BY <1>8, <3>2, <3>3
  <2> QED BY <1>0, <2>3, <2>4
<1> QED BY <1>1, <1>2, <1>3, <1>4, <1>5, <1>6, <1>7, <1>8 DEF LevelSet

LEMMA ListedAre ==
  ASSUME NEW level \in LevelSet
  PROVE  ListedHops(level) \in 0..3
BY DEF LevelSet, ListedHops

\* The first hops of a binding.
LEMMA Firsts ==
  ASSUME NEW bound \in [1..3 -> Bindable], NEW n \in 0..3
  PROVE  /\ SubSeq(bound, 1, n) \in Seq(Bindable) /\ Len(SubSeq(bound, 1, n)) = n
         /\ \A k \in 1..n : SubSeq(bound, 1, n)[k] = bound[k]
<1>1. bound \in Seq(Bindable)
  BY SeqDef
<1>2. Len(bound) = 3
  BY <1>1
<1> QED BY <1>1, <1>2

\* A template's query uses hops that its level lists, and has the template's structure.
LEMMA TemplateQuery ==
  ASSUME NEW schema, NEW spec \in SpecsFor(schema)
  PROVE  /\ HasStructure(QueryOf(spec), Templates[spec.level][spec.template])
         /\ QueryOf(spec).hops \in Seq(Bindable)
         /\ \A i \in DOMAIN QueryOf(spec).hops :
              \E k \in 1..ListedHops(spec.level) : k \in 1..3 /\ QueryOf(spec).hops[i] = spec.bound[k]
<1> DEFINE t == Templates[spec.level][spec.template]
           q == QueryOf(spec)
           fst == SubSeq(spec.bound, 1, t.hops)
           snd == SubSeq(spec.bound, 1, t.again)
<1>1. spec.level \in LevelSet /\ spec.template \in 1..2 /\ spec.bound \in [1..3 -> Bindable]
  BY DEF SpecsFor
<1>2. TemplateFits(spec.level, t) /\ ListedHops(spec.level) \in 0..3
  BY <1>1, TemplatesAre, ListedAre
<1>3. q.hops = fst \o snd /\ (q.multi <=> t.again > 0) /\ q.conditions = t.conditions /\ q.aggs = t.aggs
      /\ q.order = t.order
  BY DEF QueryOf
<1> HIDE DEF t, q
<1>4. t.hops \in 0..3 /\ t.again \in 0..3
  BY <1>2 DEF TemplateFits
<1>5. /\ fst \in Seq(Bindable) /\ Len(fst) = t.hops /\ \A k \in 1..t.hops : fst[k] = spec.bound[k]
      /\ snd \in Seq(Bindable) /\ Len(snd) = t.again /\ \A k \in 1..t.again : snd[k] = spec.bound[k]
  BY <1>1, <1>4, Firsts
<1> HIDE DEF fst, snd
<1>6. q.hops \in Seq(Bindable) /\ Len(q.hops) = t.hops + t.again
  <2>1. q.hops = fst \o snd
    BY <1>3
  <2>2. fst \o snd \in Seq(Bindable) /\ Len(fst \o snd) = Len(fst) + Len(snd)
    BY <1>5, ConcatProperties
  <2> QED BY <1>5, <2>1, <2>2
<1>7. ASSUME NEW i \in DOMAIN q.hops
      PROVE  \E k \in 1..ListedHops(spec.level) : k \in 1..3 /\ q.hops[i] = spec.bound[k]
  <2>1. i \in 1..(t.hops + t.again)
    BY <1>6, <1>7
  <2>2. t.hops <= ListedHops(spec.level) /\ t.again <= ListedHops(spec.level)
    BY <1>2 DEF TemplateFits
  <2>3. CASE i <= t.hops
    <3>1. i \in 1..t.hops /\ q.hops[i] = fst[i]
      BY <1>3, <1>4, <1>5, <2>1, <2>3
    <3> QED BY <1>2, <1>4, <1>5, <2>2, <3>1
  <2>4. CASE i > t.hops
    <3>1. i - t.hops \in 1..t.again /\ q.hops[i] = snd[i - t.hops]
      BY <1>3, <1>4, <1>5, <2>1, <2>4
    <3>2. q.hops[i] = spec.bound[i - t.hops]
      BY <1>5, <3>1
    <3> QED BY <1>2, <1>4, <2>2, <3>1, <3>2
  <2> QED BY <1>4, <2>1, <2>3, <2>4
<1>8. HasStructure(q, t)
  BY <1>3, <1>6 DEF HasStructure
<1> QED BY <1>6, <1>7, <1>8 DEF q, t

\* A template's candidate.
OfTemplate(spec) == Candidate(spec, "template", QueryOf(spec))

\* What the constraints list is allowed.
LEMMA ListedAllowed ==
  ASSUME NEW schema, schema.triplets \in Seq(Edges), NEW hop \in ToSet(schema.triplets)
  PROVE  Allowed(schema, hop)
<1>1. PICK j \in DOMAIN schema.triplets : schema.triplets[j] = hop
  BY DEF ToSet
<1> QED BY <1>1 DEF Allowed

\* A template's candidate is of its spec's level, whatever it binds; it binds and uses
\* items of the schema as far as the schema has them.
LEMMA TemplateCandidate ==
  ASSUME NEW schema, SchemaOK(schema), NEW spec \in SpecsFor(schema)
  PROVE  LET c == OfTemplate(spec)
         IN /\ c.level = spec.level /\ Classify(c.query) = c.level /\ FamilyValid(c)
            /\ Binds(schema, c.level) => SchemaValid(schema, c)
            /\ SchemaValid(schema, c) =>
                 \A i \in DOMAIN c.query.hops :
                   Allowed(schema, c.query.hops[i]) /\ c.query.hops[i].edge \in ToSet(schema.edges)
<1> DEFINE c == OfTemplate(spec)
           q == QueryOf(spec)
           t == Templates[spec.level][spec.template]
<1>1. /\ spec.level \in LevelSet /\ spec.template \in 1..2 /\ spec.bound \in [1..3 -> Bindable]
      /\ HasThreeHops(schema) => \A k \in 1..3 : spec.bound[k] \in ToSet(schema.triplets)
      /\ schema.triplets # << >> => spec.bound[1] \in ToSet(schema.triplets)
      /\ schema.triplets = << >> =>
           \A k \in 1..3 : /\ {spec.bound[k].src, spec.bound[k].dst} \subseteq ToSet(schema.labels)
                           /\ schema.edges # << >> => spec.bound[k].edge \in ToSet(schema.edges)
  BY DEF SpecsFor
<1>2. c.level = spec.level /\ c.query = q /\ c.bound = spec.bound
  BY DEF OfTemplate, Candidate
<1>3. /\ HasStructure(q, t) /\ q.hops \in Seq(Bindable)
      /\ \A i \in DOMAIN q.hops :
           \E k \in 1..ListedHops(spec.level) : k \in 1..3 /\ q.hops[i] = spec.bound[k]
  BY TemplateQuery
<1>4. TemplateFits(spec.level, t) /\ Classify(q) = spec.level
  BY <1>1, <1>3, TemplatesAre
<1>5. ListedHops(spec.level) \in 0..3 /\ schema.triplets \in Seq(Edges)
  BY <1>1, ListedAre DEF SchemaOK
<1> HIDE DEF c, q, t
<1>6. FamilyValid(c)
  <2>1. Len(q.hops) \in Nat /\ Len(q.hops) = t.hops + t.again /\ (q.multi <=> t.again > 0) /\ q.aggs = t.aggs
    BY <1>3 DEF HasStructure
  <2>2. {i \in DOMAIN q.hops : q.hops[i].form # "backward"} = 1..Len(q.hops)
    <3>1. \A i \in 1..Len(q.hops) : q.hops[i] \in Bindable
      BY <1>3
    <3>2. \A i \in 1..Len(q.hops) : q.hops[i].form # "backward"
      BY <3>1 DEF Bindable
    <3> QED BY <1>3, <3>2
  <2>3. Cardinality({i \in DOMAIN q.hops : q.hops[i].form # "backward"}) = t.hops + t.again
    <3>1. Cardinality(1..Len(q.hops)) = Len(q.hops)
      BY <2>1, FirstNumbers
    <3> QED BY <2>1, <2>2, <3>1
  <2>4. \A l \in LevelSet : spec.level = l => FamilyValid(c)
    BY <1>2, <1>4, <2>1, <2>3 DEF LevelSet, TemplateFits, FamilyValid
  <2> QED BY <1>1, <2>4
<1>7. ASSUME Binds(schema, c.level) PROVE SchemaValid(schema, c)
  <2>1. \A hop \in ToSet(schema.triplets) :
          {hop.src, hop.dst} \subseteq ToSet(schema.labels) /\ hop.edge \in ToSet(schema.edges)
    <3> SUFFICES ASSUME NEW hop \in ToSet(schema.triplets)
                 PROVE  {hop.src, hop.dst} \subseteq ToSet(schema.labels) /\ hop.edge \in ToSet(schema.edges)
      OBVIOUS
    <3>1. PICK j \in DOMAIN schema.triplets : schema.triplets[j] = hop
      BY DEF ToSet
    <3> QED BY <1>7, <3>1 DEF Binds
  <2>2. spec.bound[1].src \in ToSet(schema.labels)
    BY <1>1, <2>1
  <2>3. ASSUME NEW k \in 1..ListedHops(spec.level)
        PROVE  /\ spec.bound[k].dst \in ToSet(schema.labels) /\ spec.bound[k].edge \in ToSet(schema.edges)
               /\ Allowed(schema, spec.bound[k])
    <3>1. k \in 1..3
      BY <1>5
    <3>2. CASE schema.triplets = << >>
      <4>1. ~HasThreeHops(schema) /\ ListedHops(spec.level) # 0
        BY <1>5, <3>2, NoPaths
      <4>2. schema.edges # << >>
        BY <1>2, <1>7, <3>2, <4>1 DEF Binds
      <4>3. Allowed(schema, spec.bound[k])
        BY <3>2 DEF Allowed
      <4> QED BY <1>1, <3>1, <3>2, <4>2, <4>3
    <3>3. CASE schema.triplets # << >>
      <4>1. HasThreeHops(schema) \/ k = 1
        BY <1>2, <1>5, <1>7, <3>3 DEF Binds
      <4>2. spec.bound[k] \in ToSet(schema.triplets)
        BY <1>1, <3>1, <3>3, <4>1
      <4> QED BY <1>5, <2>1, <4>2, ListedAllowed
    <3> QED BY <3>2, <3>3
  <2> QED BY <1>2, <2>2, <2>3 DEF SchemaValid
<1>8. ASSUME SchemaValid(schema, c), NEW i \in DOMAIN q.hops
      PROVE  Allowed(schema, q.hops[i]) /\ q.hops[i].edge \in ToSet(schema.edges)
  <2>1. PICK k \in 1..ListedHops(spec.level) : q.hops[i] = spec.bound[k]
    BY <1>3
  <2> QED BY <1>2, <1>8, <2>1 DEF SchemaValid
<1> QED BY <1>2, <1>4, <1>6, <1>7, <1>8 DEF c

-----------------------------------------------------------------------------
(* How a rewriting is read.                                                *)

\* The matches of a query's hops, one after the other.
LEMMA MatchRounds ==
  ASSUME NEW q, Len(q.hops) \in Nat
  PROVE  /\ \A n \in 0..Len(q.hops) : LastMatch(q)[n] \in 0..n
         /\ \A n \in 1..Len(q.hops) : LastMatch(q)[n] =
              IF q.hops[n].form = "forward" /\ (Starts(q, n) \/ LastMatch(q)[n - 1] # n - 1)
              THEN n ELSE LastMatch(q)[n - 1]
<1> DEFINE N == Len(q.hops)
           next(n, x) == IF q.hops[n].form = "forward" /\ (Starts(q, n) \/ x # n - 1) THEN n ELSE x
           step == [n \in 1..N |-> [x \in Nat |-> next(n, x)]]
           Equation(h) == h = [n \in 0..N |-> IF n = 0 THEN 0 ELSE next(n, h[n - 1])]
           f == LastMatch(q)
<1>1. Equation(f)
  <2>1. step \in Steps(Nat, N)
    BY DEF Steps
  <2>2. PICK g : Runs(g, Nat, N, 0, step)
    <3> HIDE DEF step
    <3> QED BY <2>1, RoundsExist
  <2>3. Equation(g)
    <3>1. /\ g \in [0..N -> Nat] /\ g[0] = 0
          /\ \A n \in 1..N : g[n] = next(n, g[n - 1])
      <4>1. /\ g \in [0..N -> Nat] /\ g[0] = 0
            /\ \A n \in 1..N : g[n] = step[n][g[n - 1]]
        BY <2>2 DEF Runs
      <4>2. \A n \in 1..N : g[n - 1] \in Nat
        BY <4>1
      <4> QED BY <4>1, <4>2
    <3> HIDE DEF next
    <3> QED BY <3>1
  <2>4. f = CHOOSE h : Equation(h)
    BY DEF LastMatch
  <2> HIDE DEF Equation, f
  <2> QED BY <2>3, <2>4
<1> HIDE DEF f, next
<1>2. f[0] = 0 /\ \A n \in 1..N : f[n] = next(n, f[n - 1])
  <2>1. f = [n \in 0..N |-> IF n = 0 THEN 0 ELSE next(n, f[n - 1])]
    BY <1>1
  <2>2. N \in Nat
    OBVIOUS
  <2>3. \A n \in 0..N : f[n] = IF n = 0 THEN 0 ELSE next(n, f[n - 1])
    <3> SUFFICES ASSUME NEW n \in 0..N PROVE f[n] = IF n = 0 THEN 0 ELSE next(n, f[n - 1])
      OBVIOUS
    <3> HIDE DEF N
    <3> QED BY <2>1, Zenon
  <2> HIDE DEF N
  <2> QED BY <2>2, <2>3
<1> DEFINE T == {n \in 0..N : f[n] \in 0..n}
<1>3. 0..N \subseteq T
  <2>1. 0 \in T
    BY <1>2
  <2>2. ASSUME NEW n \in 1..N, n - 1 \in T PROVE n \in T
    <3>1. f[n - 1] \in 0..(n - 1) /\ n \in 0..N /\ f[n] = next(n, f[n - 1])
      BY <1>2, <2>2
    <3>2. f[n] = n \/ f[n] = f[n - 1]
      BY <3>1 DEF next
    <3> QED BY <3>1, <3>2
  <2> HIDE DEF T
  <2> QED BY <2>1, <2>2, Upwards
<1> QED BY <1>2, <1>3 DEF f, next

\* What a query shows that passed: a hop forwards follows the schema, or it comes right
\* behind one that does.
LEMMA ReadFollows ==
  ASSUME NEW schema, NEW q, Len(q.hops) \in Nat, DOMAIN q.hops = 1..Len(q.hops), EdgesFollow(schema, q),
         NEW k \in DOMAIN q.hops, q.hops[k].form = "forward"
  PROVE  LET follows(n) == NoLabel \in {q.hops[n].src, q.hops[n].dst} \/ Allowed(schema, q.hops[n])
         IN \/ follows(k)
            \/ ~Starts(q, k) /\ q.hops[k - 1].form = "forward" /\ follows(k - 1)
<1> DEFINE follows(n) == NoLabel \in {q.hops[n].src, q.hops[n].dst} \/ Allowed(schema, q.hops[n])
           f == LastMatch(q)
<1>1. \A n \in Matched(q) : follows(n)
  BY DEF EdgesFollow
<1>2. /\ \A n \in 0..Len(q.hops) : f[n] \in 0..n
      /\ \A n \in 1..Len(q.hops) : f[n] =
           IF q.hops[n].form = "forward" /\ (Starts(q, n) \/ f[n - 1] # n - 1) THEN n ELSE f[n - 1]
  BY MatchRounds
<1>3. \A n \in 1..Len(q.hops) : f[n] = n => n \in Matched(q)
  BY DEF Matched
<1>4. Starts(q, 1)
  BY DEF Starts
<1> HIDE DEF follows, f
<1>5. f[k] = k => follows(k)
  <2>1. f[k] = k => k \in Matched(q)
    BY <1>3
  <2> QED BY <1>1, <2>1
<1>6. f[k] # k => ~Starts(q, k) /\ q.hops[k - 1].form = "forward" /\ follows(k - 1)
  <2> SUFFICES ASSUME f[k] # k
               PROVE  ~Starts(q, k) /\ q.hops[k - 1].form = "forward" /\ follows(k - 1)
    OBVIOUS
  <2>1. ~Starts(q, k) /\ f[k - 1] = k - 1
    BY <1>2
  <2>2. k - 1 \in 1..Len(q.hops) /\ (k - 1) - 1 \in 0..Len(q.hops)
    BY <1>4, <2>1
  <2>3. f[(k - 1) - 1] # k - 1
    BY <1>2, <2>2
  <2>4. q.hops[k - 1].form = "forward"
    BY <1>2, <2>1, <2>2, <2>3
  <2>5. k - 1 \in Matched(q)
    BY <1>3, <2>1, <2>2
  <2> QED BY <1>1, <2>1, <2>4, <2>5
<1> QED BY <1>5, <1>6 DEF follows

-----------------------------------------------------------------------------
(* Candidates of a schema.                                                 *)

TemplatesOf(schema) == {OfTemplate(spec) : spec \in SpecsFor(schema)}
RewritingsOf(schema) ==
  {c \in {Candidate(spec, "llm_direct", Rewritten(spec, how)) : spec \in SpecsFor(schema), how \in Rewritings} :
     LlmCandidateValid(schema, c)}

\* The candidates that a schema may have at the levels in asked.
CandidatesAt(schema, asked) == {c \in TemplatesOf(schema) \cup RewritingsOf(schema) : c.level \in asked}

\* What ValidatedFollowsSchema says of a candidate.
Follows(schema, c) ==
  LET q == c.query
      follows(k) == NoLabel \in {q.hops[k].src, q.hops[k].dst} \/ Allowed(schema, q.hops[k])
  IN \A k \in DOMAIN q.hops :
       IF c.mode = "template"
       THEN Allowed(schema, q.hops[k]) /\ q.hops[k].edge \in ToSet(schema.edges)
       ELSE /\ q.hops[k].form # "named" => q.hops[k].edge \in ToSet(schema.edges)
            /\ q.hops[k].form = "forward" =>
                 \/ follows(k)
                 \/ ~Starts(q, k) /\ q.hops[k - 1].form = "forward" /\ follows(k - 1)

\* A rewriting has the hops of its template, one for one.
LEMMA RewrittenHops ==
  ASSUME NEW schema, NEW spec \in SpecsFor(schema), NEW how \in Rewritings
  PROVE  /\ Len(Rewritten(spec, how).hops) \in Nat
         /\ DOMAIN Rewritten(spec, how).hops = 1..Len(Rewritten(spec, how).hops)
<1> DEFINE q == QueryOf(spec)
           r == Rewritten(spec, how)
<1>1. q.hops \in Seq(Bindable)
  BY TemplateQuery
<1>2. Len(q.hops) \in Nat /\ DOMAIN q.hops = 1..Len(q.hops)
  BY <1>1
<1>3. CASE how.repeats
  BY <1>2, <1>3 DEF Rewritten
<1>4. CASE ~how.repeats
  <2>1. DOMAIN r.hops = DOMAIN q.hops
    BY <1>4 DEF Rewritten, QueryOf
  <2>2. Len(r.hops) = Len(q.hops)
    BY <1>2, <2>1
  <2> QED BY <1>2, <2>1, <2>2
<1> QED BY <1>3, <1>4

LEMMA CandidateFacts ==
  ASSUME NEW schema, SchemaOK(schema), NEW asked \in SUBSET LevelSet,
         NEW c \in CandidatesAt(schema, asked)
  PROVE  /\ c.level \in asked /\ c.mode \in {"template", "llm_direct"} /\ Classify(c.query) = c.level
         /\ Valid(schema, c) => Follows(schema, c)
<1>1. c.level \in asked
  BY DEF CandidatesAt
<1>2. CASE c \in TemplatesOf(schema)
  <2>1. PICK spec \in SpecsFor(schema) : c = OfTemplate(spec)
    BY <1>2 DEF TemplatesOf
  <2>2. /\ Classify(c.query) = c.level
        /\ SchemaValid(schema, c) =>
             \A i \in DOMAIN c.query.hops :
               Allowed(schema, c.query.hops[i]) /\ c.query.hops[i].edge \in ToSet(schema.edges)
    BY <2>1, TemplateCandidate
  <2>3. c.mode = "template"
    BY <2>1 DEF OfTemplate, Candidate
  <2> QED BY <1>1, <2>2, <2>3 DEF Valid, Follows
<1>3. CASE c \in RewritingsOf(schema)
  <2>1. PICK spec \in SpecsFor(schema), how \in Rewritings : c = Candidate(spec, "llm_direct", Rewritten(spec, how))
    BY <1>3 DEF RewritingsOf
  <2>2. c.mode = "llm_direct" /\ c.query = Rewritten(spec, how)
    BY <2>1 DEF Candidate
  <2>3. Classify(c.query) = c.level /\ KnownItems(schema, c.query) /\ EdgesFollow(schema, c.query)
    BY <1>3 DEF RewritingsOf, LlmCandidateValid
  <2>4. Len(c.query.hops) \in Nat /\ DOMAIN c.query.hops = 1..Len(c.query.hops)
    BY <2>2, RewrittenHops
  <2>5. \A k \in DOMAIN c.query.hops : c.query.hops[k].form # "named" => c.query.hops[k].edge \in ToSet(schema.edges)
    BY <2>3 DEF KnownItems
  <2>6. Follows(schema, c)
    <3> SUFFICES ASSUME NEW k \in DOMAIN c.query.hops, c.query.hops[k].form = "forward"
                 PROVE  LET follows(n) == NoLabel \in {c.query.hops[n].src, c.query.hops[n].dst}
                                          \/ Allowed(schema, c.query.hops[n])
                        IN \/ follows(k)
                           \/ ~Starts(c.query, k) /\ c.query.hops[k - 1].form = "forward" /\ follows(k - 1)
      BY <2>2, <2>5 DEF Follows
    <3> QED BY <2>3, <2>4, ReadFollows
  <2> QED BY <1>1, <2>2, <2>3, <2>6
<1> QED BY <1>2, <1>3 DEF CandidatesAt

\* The levels that the specs ask for.
AskedBy(ss) == {ss[i].level : i \in DOMAIN ss}

LEMMA LlmCandidatesFit ==
  ASSUME NEW r, NEW answers, specs \in Seq(SpecsFor(r.schema)), answers \in [DOMAIN specs -> Seq(Rewritings)]
  PROVE  LlmCandidates(r, answers) \in Seq(CandidatesAt(r.schema, AskedBy(specs)))
<1> DEFINE All == {Candidate(spec, "llm_direct", Rewritten(spec, how)) : spec \in SpecsFor(r.schema), how \in Rewritings}
           Here == {c \in All : c.level \in AskedBy(specs)}
           of(i) == [k \in DOMAIN answers[i] |-> Candidate(specs[i], "llm_direct", Rewritten(specs[i], answers[i][k]))]
           parts == [i \in DOMAIN specs |-> of(i)]
           all == Joined(parts)
           keep == {i \in DOMAIN all : LlmCandidateValid(r.schema, all[i])}
<1>1. ASSUME NEW i \in DOMAIN specs PROVE of(i) \in Seq(Here)
  <2>1. specs[i] \in SpecsFor(r.schema) /\ answers[i] \in Seq(Rewritings) /\ specs[i].level \in AskedBy(specs)
    BY DEF AskedBy
  <2>2. ASSUME NEW k \in DOMAIN answers[i]
        PROVE  Candidate(specs[i], "llm_direct", Rewritten(specs[i], answers[i][k])) \in Here
    <3>1. answers[i][k] \in Rewritings
      BY <2>1
    <3>2. Candidate(specs[i], "llm_direct", Rewritten(specs[i], answers[i][k])).level = specs[i].level
      BY DEF Candidate
    <3> QED BY <2>1, <3>1, <3>2
  <2> HIDE DEF Here
  <2>3. DOMAIN answers[i] = 1..Len(answers[i]) /\ Len(answers[i]) \in Nat
    BY <2>1
  <2> QED BY <2>2, <2>3
<1>2. parts \in Seq(Seq(Here))
  <2>1. DOMAIN specs = 1..Len(specs) /\ Len(specs) \in Nat
    OBVIOUS
  <2> HIDE DEF of, Here
  <2> QED BY <1>1, <2>1
<1>3. all \in Seq(Here)
  <2> HIDE DEF parts, Here
  <2> QED BY <1>2, JoinedIn
<1>4. LlmCandidates(r, answers) = Selected(all, keep)
  BY DEF LlmCandidates
<1>5. \A i \in keep : all[i] \in CandidatesAt(r.schema, AskedBy(specs))
  <2> SUFFICES ASSUME NEW i \in keep PROVE all[i] \in CandidatesAt(r.schema, AskedBy(specs))
    OBVIOUS
  <2>1. all[i] \in Here /\ LlmCandidateValid(r.schema, all[i])
    <3> HIDE DEF Here
    <3> QED BY <1>3
  <2>2. all[i] \in All /\ all[i].level \in AskedBy(specs)
    <3> HIDE DEF all, All
    <3> QED BY <2>1
  <2> HIDE DEF all
  <2>3. all[i] \in RewritingsOf(r.schema)
    BY <2>1, <2>2 DEF RewritingsOf
  <2> QED BY <2>2, <2>3 DEF CandidatesAt
<1>6. keep \in SUBSET DOMAIN all
  OBVIOUS
<1> HIDE DEF keep, all, Here
<1>7. Selected(all, keep) \in Seq(CandidatesAt(r.schema, AskedBy(specs)))
  BY <1>3, <1>5, <1>6, SelectedIn
<1> QED BY <1>4, <1>7

LEMMA TemplatesAsked ==
  ASSUME NEW schema, specs \in Seq(SpecsFor(schema))
  PROVE  /\ TemplateCandidates \in Seq(CandidatesAt(schema, AskedBy(specs)))
         /\ Len(TemplateCandidates) = Len(specs)
         /\ \A i \in DOMAIN specs : TemplateCandidates[i].level = specs[i].level
<1>1. ASSUME NEW i \in DOMAIN specs
      PROVE  OfTemplate(specs[i]) \in CandidatesAt(schema, AskedBy(specs)) /\ OfTemplate(specs[i]).level = specs[i].level
  <2>1. specs[i] \in SpecsFor(schema) /\ specs[i].level \in AskedBy(specs)
    BY DEF AskedBy
  <2>2. OfTemplate(specs[i]).level = specs[i].level
    BY DEF OfTemplate, Candidate
  <2> QED BY <2>1, <2>2 DEF CandidatesAt, TemplatesOf
<1>2. TemplateCandidates = [i \in DOMAIN specs |-> OfTemplate(specs[i])]
  BY DEF TemplateCandidates, OfTemplate
<1>3. DOMAIN specs = 1..Len(specs) /\ Len(specs) \in Nat
  OBVIOUS
<1> QED BY <1>1, <1>2, <1>3

-----------------------------------------------------------------------------
(* Filling up and merging keep the levels.                                 *)

HasQuery(seq, query) == \E i \in DOMAIN seq : seq[i].query = query
HasLevel(seq, level) == \E i \in DOMAIN seq : seq[i].level = level

\* One more candidate, where there is room.
LEMMA WithRoomAdds ==
  ASSUME NEW S, NEW output \in Seq(S), NEW c \in S
  PROVE  /\ WithRoom(output, c) \in Seq(S)
         /\ Len(output) <= MaxSkeletons => Len(WithRoom(output, c)) <= MaxSkeletons
         /\ Len(WithRoom(output, c)) <= Len(output) + 1
         /\ Len(output) < MaxSkeletons => HasQuery(WithRoom(output, c), c.query)
         /\ \A query : HasQuery(output, query) => HasQuery(WithRoom(output, c), query)
<1>1. MaxSkeletons \in Nat /\ Len(output) \in Nat
  BY SampleAssumption
<1>2. CASE Len(output) >= MaxSkeletons \/ HasQuery(output, c.query)
  <2>1. WithRoom(output, c) = output
    BY <1>2 DEF WithRoom, HasQuery
  <2> QED BY <1>1, <1>2, <2>1
<1>3. CASE ~(Len(output) >= MaxSkeletons \/ HasQuery(output, c.query))
  <2> DEFINE new == Append(output, c)
  <2>1. WithRoom(output, c) = new
    BY <1>3 DEF WithRoom, HasQuery
  <2>2. /\ new \in Seq(S) /\ Len(new) = Len(output) + 1 /\ new[Len(output) + 1] = c
        /\ \A i \in 1..Len(output) : new[i] = output[i]
    OBVIOUS
  <2> HIDE DEF new
  <2>3. DOMAIN new = 1..(Len(output) + 1) /\ DOMAIN output = 1..Len(output)
    BY <2>2
  <2>4. HasQuery(new, c.query)
    BY <1>1, <2>2, <2>3 DEF HasQuery
  <2>5. \A query : HasQuery(output, query) => HasQuery(new, query)
    BY <1>1, <2>2, <2>3 DEF HasQuery
  <2> QED BY <1>1, <1>3, <2>1, <2>2, <2>4, <2>5
<1> QED BY <1>2, <1>3

\* Filling up is a loop; as long as there is room, every query gets its place.
LEMMA FilledRounds ==
  ASSUME NEW S, NEW output \in Seq(S), NEW more \in Seq(S), Len(output) <= MaxSkeletons
  PROVE  /\ Filled(output, more) \in Seq(S) /\ Len(Filled(output, more)) <= MaxSkeletons
         /\ Len(output) + Len(more) <= MaxSkeletons =>
              \A m \in 1..Len(more) : HasQuery(Filled(output, more), more[m].query)
<1> DEFINE N == Len(more)
           step == [n \in 1..N |-> [x \in Seq(S) |-> WithRoom(x, more[n])]]
           Equation(h) == h = [n \in 0..N |-> IF n = 0 THEN output ELSE WithRoom(h[n - 1], more[n])]
           f == CHOOSE h : Equation(h)
<1>1. N \in Nat /\ \A n \in 1..N : more[n] \in S
  OBVIOUS
<1>2. \A n \in 0..N : n # 0 => n \in 1..N /\ n - 1 \in 0..N
  BY <1>1
<1>3. Equation(f)
  <2>1. step \in Steps(Seq(S), N)
    BY <1>1, WithRoomAdds DEF Steps
  <2>2. PICK g : Runs(g, Seq(S), N, output, step)
    <3> HIDE DEF step, N
    <3> QED BY <1>1, <2>1, RoundsExist
  <2> HIDE DEF N
  <2>3. g \in [0..N -> Seq(S)] /\ \A n \in 0..N : n # 0 => g[n - 1] \in Seq(S)
    BY <1>2, <2>2 DEF Runs
  <2>4. \A n \in 0..N : g[n] = IF n = 0 THEN output ELSE WithRoom(g[n - 1], more[n])
    BY <1>2, <2>2, <2>3 DEF Runs
  <2>5. Equation(g)
    BY <2>3, <2>4
  <2> HIDE DEF Equation
  <2> QED BY <2>5
<1>4. Filled(output, more) = f[N]
  BY DEF Filled
<1> HIDE DEF f, N
<1>5. f[0] = output /\ \A n \in 1..N : f[n] = WithRoom(f[n - 1], more[n])
  <2>1. 0 \in 0..N /\ \A n \in 1..N : n \in 0..N /\ n # 0
    BY <1>1
  <2> QED BY <1>3, <2>1
<1> DEFINE Good(n) == /\ f[n] \in Seq(S) /\ Len(f[n]) <= MaxSkeletons /\ Len(f[n]) <= Len(output) + n
                      /\ \A m \in 1..n : Len(output) + m <= MaxSkeletons => HasQuery(f[n], more[m].query)
           T == {n \in 0..N : Good(n)}
<1>6. 0..N \subseteq T
  <2>1. 0 \in T
    <3>1. 0 \in 0..N /\ Len(output) \in Nat
      BY <1>1
    <3> QED BY <1>5, <3>1
  <2>2. ASSUME NEW n \in 1..N, n - 1 \in T PROVE n \in T
    <3>1. Good(n - 1) /\ n \in 0..N /\ more[n] \in S
      BY <1>1, <2>2
    <3> DEFINE x == f[n - 1]
    <3>2. f[n] = WithRoom(x, more[n])
      BY <1>5
    <3>3. x \in Seq(S) /\ Len(x) \in Nat /\ Len(x) <= MaxSkeletons /\ Len(x) <= Len(output) + n - 1
          /\ \A m \in 1..(n - 1) : Len(output) + m <= MaxSkeletons => HasQuery(x, more[m].query)
      BY <3>1
    <3> HIDE DEF x
    <3>4. /\ f[n] \in Seq(S) /\ Len(f[n]) <= MaxSkeletons /\ Len(f[n]) <= Len(x) + 1
          /\ Len(x) < MaxSkeletons => HasQuery(f[n], more[n].query)
          /\ \A query : HasQuery(x, query) => HasQuery(f[n], query)
      BY <3>1, <3>2, <3>3, WithRoomAdds
    <3>5. n \in Nat /\ Len(output) \in Nat /\ Len(f[n]) \in Nat /\ MaxSkeletons \in Nat
      BY <1>1, <3>4, SampleAssumption
    <3>6. ASSUME NEW m \in 1..n, Len(output) + m <= MaxSkeletons PROVE HasQuery(f[n], more[m].query)
      <4>1. CASE m = n
        <5>1. Len(x) < MaxSkeletons
          BY <3>3, <3>5, <3>6, <4>1
        <5> QED BY <3>4, <4>1, <5>1
      <4>2. CASE m # n
        <5>1. m \in 1..(n - 1)
          BY <3>5, <4>2
        <5> QED BY <3>3, <3>4, <3>6, <5>1
      <4> QED BY <4>1, <4>2
    <3>7. Len(f[n]) <= Len(output) + n
      BY <3>3, <3>4, <3>5
    <3> QED BY <3>1, <3>4, <3>6, <3>7
  <2> HIDE DEF T
  <2> QED BY <1>1, <2>1, <2>2, Upwards
<1>7. Good(N)
  <2>1. N \in 0..N
    BY <1>1
  <2> QED BY <1>6, <2>1
<1>8. ASSUME Len(output) + N <= MaxSkeletons, NEW m \in 1..N PROVE HasQuery(f[N], more[m].query)
  <2>1. Len(output) + m <= MaxSkeletons
    <3>1. Len(output) \in Nat /\ MaxSkeletons \in Nat
      BY SampleAssumption
    <3> QED BY <1>1, <1>8, <3>1
  <2> QED BY <1>7, <2>1
<1> QED BY <1>4, <1>7, <1>8 DEF N

\* Counting a level: none, one place, or two.
LEMMA CountLevels ==
  ASSUME NEW S, NEW seq \in Seq(S), NEW level
  PROVE  /\ CountOf(seq, level) \in Nat /\ CountOf(seq, level) <= Len(seq)
         /\ CountOf(seq, level) > 0 <=> HasLevel(seq, level)
         /\ CountOf(seq, level) > 1 <=>
              \E i, j \in DOMAIN seq : i # j /\ seq[i].level = level /\ seq[j].level = level
<1> DEFINE places == {i \in DOMAIN seq : seq[i].level = level}
<1>1. Len(seq) \in Nat /\ DOMAIN seq = 1..Len(seq) /\ CountOf(seq, level) = Cardinality(places)
  BY DEF CountOf
<1>2. IsFiniteSet(places) /\ Cardinality(places) \in Nat /\ Cardinality(places) <= Len(seq)
  <2>1. IsFiniteSet(1..Len(seq)) /\ Cardinality(1..Len(seq)) = Len(seq)
    BY <1>1, FirstNumbers
  <2>2. places \in SUBSET (1..Len(seq))
    BY <1>1
  <2> HIDE DEF places
  <2>3. IsFiniteSet(places) /\ Cardinality(places) <= Len(seq)
    BY <2>1, <2>2, FS_Subset
  <2> QED BY <2>3, FS_CardinalityType
<1>3. Cardinality(places) > 0 <=> HasLevel(seq, level)
  <2>1. Cardinality(places) = 0 <=> places = {}
    <3> HIDE DEF places
    <3> QED BY <1>2, FS_EmptySet
  <2>2. places # {} <=> HasLevel(seq, level)
    BY DEF HasLevel
  <2> HIDE DEF places
  <2> QED BY <1>2, <2>1, <2>2
<1>4. ASSUME NEW i \in places, NEW j \in places, i # j PROVE Cardinality(places) > 1
  <2> HIDE DEF places
  <2>1. IsFiniteSet(places \ {i}) /\ Cardinality(places \ {i}) = Cardinality(places) - 1
    BY <1>2, FS_RemoveElement
  <2>2. j \in places \ {i}
    BY <1>4
  <2>3. Cardinality(places \ {i}) # 0 /\ Cardinality(places \ {i}) \in Nat
    BY <2>1, <2>2, FS_EmptySet, FS_CardinalityType
  <2> QED BY <1>2, <2>1, <2>3
<1>5. ASSUME Cardinality(places) > 1 PROVE \E i, j \in places : i # j
  <2> HIDE DEF places
  <2>1. PICK i \in places : TRUE
    BY <1>2, <1>5, FS_EmptySet
  <2>2. IsFiniteSet(places \ {i}) /\ Cardinality(places \ {i}) = Cardinality(places) - 1
    BY <1>2, FS_RemoveElement
  <2>3. PICK j \in places \ {i} : TRUE
    BY <1>2, <1>5, <2>2, FS_EmptySet
  <2> QED BY <2>3
<1> QED BY <1>1, <1>2, <1>3, <1>4, <1>5

\* A set of indices has a greatest one.
LEMMA MaxIn ==
  ASSUME NEW N \in Nat, NEW places \in SUBSET (1..N), places # {}
  PROVE  Max(places) \in places
<1> DEFINE T == {n \in 0..N : \A U \in SUBSET (1..n) : U # {} => \E x \in U : \A y \in U : x >= y}
<1>1. 0..N \subseteq T
  <2>1. 0 \in T
    <3>1. 0 \in 0..N /\ 1..0 = {}
      OBVIOUS
    <3> QED BY <3>1
  <2>2. ASSUME NEW n \in 1..N, n - 1 \in T PROVE n \in T
    <3> SUFFICES ASSUME NEW U \in SUBSET (1..n), U # {} PROVE \E x \in U : \A y \in U : x >= y
      OBVIOUS
    <3>1. CASE n \in U
      BY <3>1
    <3>2. CASE n \notin U
      <4>1. U \in SUBSET (1..(n - 1))
        BY <3>2
      <4> QED BY <2>2, <4>1
    <3> QED BY <3>1, <3>2
  <2> HIDE DEF T
  <2> QED BY <2>1, <2>2, Upwards
<1>2. N \in 0..N
  OBVIOUS
<1>3. \E x \in places : \A y \in places : x >= y
  BY <1>1, <1>2
<1> QED BY <1>3 DEF Max

\* A sequence without a level twice has no more elements than there are levels.
LEMMA LevelsOnce ==
  ASSUME NEW S, NEW seq \in Seq(S), NEW L, IsFiniteSet(L), \A i \in DOMAIN seq : seq[i].level \in L,
         \A i, j \in DOMAIN seq : seq[i].level = seq[j].level => i = j
  PROVE  Len(seq) <= Cardinality(L)
<1> DEFINE f == [i \in 1..Len(seq) |-> seq[i].level]
<1>1. Len(seq) \in Nat /\ DOMAIN seq = 1..Len(seq)
  OBVIOUS
<1>2. f \in Injection(1..Len(seq), L)
  <2>1. f \in [1..Len(seq) -> L]
    BY <1>1
  <2>2. \A i, j \in 1..Len(seq) : f[i] = f[j] => i = j
    BY <1>1
  <2> HIDE DEF f
  <2> QED BY <2>1, <2>2 DEF Injection, IsInjective
<1>3. Cardinality(1..Len(seq)) <= Cardinality(L)
  <2> HIDE DEF f
  <2> QED BY <1>2, FS_Injection
<1>4. Cardinality(1..Len(seq)) = Len(seq)
  BY <1>1, FirstNumbers
<1> QED BY <1>3, <1>4

\* No level goes for another one, and there is always room for one more: the levels that
\* are asked for are no more than the limit.
LEMMA WithLevelKeeps ==
  ASSUME NEW S, NEW L, IsFiniteSet(L), Cardinality(L) <= MaxSkeletons,
         \A c \in S : c.level \in L /\ Classify(c.query) = c.level,
         NEW output \in Seq(S), Len(output) <= MaxSkeletons, NEW c \in S
  PROVE  /\ WithLevel(output, c) \in Seq(S) /\ Len(WithLevel(output, c)) <= MaxSkeletons
         /\ HasLevel(WithLevel(output, c), c.level)
         /\ \A level : HasLevel(output, level) => HasLevel(WithLevel(output, c), level)
<1> DEFINE twice == {i \in DOMAIN output : CountOf(output, output[i].level) > 1}
           n == Max(twice)
           new == [output EXCEPT ![n] = c]
<1>1. Len(output) \in Nat /\ DOMAIN output = 1..Len(output) /\ MaxSkeletons \in Nat /\ Cardinality(L) \in Nat
  BY SampleAssumption, FS_CardinalityType
<1>2. CASE HasLevel(output, c.level)
  <2>1. WithLevel(output, c) = output
    <3>1. CountOf(output, c.level) > 0
      BY <1>2, CountLevels
    <3> QED BY <3>1 DEF WithLevel
  <2> QED BY <1>2, <2>1
<1> SUFFICES ASSUME ~HasLevel(output, c.level)
             PROVE  /\ WithLevel(output, c) \in Seq(S) /\ Len(WithLevel(output, c)) <= MaxSkeletons
                    /\ HasLevel(WithLevel(output, c), c.level)
                    /\ \A level : HasLevel(output, level) => HasLevel(WithLevel(output, c), level)
  BY <1>2
<1>3. ~(CountOf(output, c.level) > 0)
  BY CountLevels
<1>4. ~\E i \in DOMAIN output : output[i].query = c.query
  <2> SUFFICES ASSUME NEW i \in DOMAIN output, output[i].query = c.query PROVE FALSE
    OBVIOUS
  <2>1. output[i] \in S
    OBVIOUS
  <2>2. output[i].level = c.level
    BY <2>1
  <2> QED BY <2>2 DEF HasLevel
<1>5. CASE Len(output) < MaxSkeletons
  <2> DEFINE more == Append(output, c)
  <2>1. WithLevel(output, c) = more
    BY <1>3, <1>4, <1>5 DEF WithLevel
  <2>2. /\ more \in Seq(S) /\ Len(more) = Len(output) + 1 /\ more[Len(output) + 1] = c
        /\ \A i \in 1..Len(output) : more[i] = output[i]
    OBVIOUS
  <2> HIDE DEF more
  <2>3. DOMAIN more = 1..(Len(output) + 1)
    BY <2>2
  <2>4. HasLevel(more, c.level) /\ \A level : HasLevel(output, level) => HasLevel(more, level)
    BY <1>1, <2>2, <2>3 DEF HasLevel
  <2> QED BY <1>1, <1>5, <2>1, <2>2, <2>4
<1>6. CASE ~(Len(output) < MaxSkeletons)
  <2>1. twice # {}
    <3> SUFFICES ASSUME twice = {} PROVE FALSE
      OBVIOUS
    <3>1. ASSUME NEW i \in DOMAIN output, NEW j \in DOMAIN output, output[i].level = output[j].level, i # j
          PROVE  FALSE
      <4>1. CountOf(output, output[i].level) > 1
        BY <3>1, CountLevels
      <4> QED BY <4>1
    <3>2. IsFiniteSet(L \ {c.level}) /\ Cardinality(L \ {c.level}) = Cardinality(L) - 1
      BY FS_RemoveElement
    <3>3. \A i \in DOMAIN output : output[i].level \in L \ {c.level}
      BY DEF HasLevel
    <3> HIDE DEF twice
    <3>4. Len(output) <= Cardinality(L \ {c.level})
      BY <3>1, <3>2, <3>3, LevelsOnce
    <3> QED BY <1>1, <1>6, <3>2, <3>4
  <2>2. WithLevel(output, c) = new
    BY <1>3, <1>4, <1>6, <2>1 DEF WithLevel
  <2>3. n \in DOMAIN output /\ CountOf(output, output[n].level) > 1
    <3>1. twice \in SUBSET (1..Len(output))
      BY <1>1
    <3>2. n \in twice
      <4> HIDE DEF twice
      <4> QED BY <1>1, <2>1, <3>1, MaxIn
    <3> HIDE DEF n
    <3> QED BY <3>2
  <2> HIDE DEF n, twice
  <2>4. new \in Seq(S) /\ Len(new) = Len(output) /\ DOMAIN new = DOMAIN output
    BY <2>3
  <2>5. new[n] = c /\ \A i \in DOMAIN output : i # n => new[i] = output[i]
    BY <2>3
  <2> HIDE DEF new
  <2>6. HasLevel(new, c.level)
    BY <2>3, <2>4, <2>5 DEF HasLevel
  <2>7. ASSUME NEW level, HasLevel(output, level) PROVE HasLevel(new, level)
    <3>1. PICK i \in DOMAIN output : output[i].level = level
      BY <2>7 DEF HasLevel
    <3>2. PICK a \in DOMAIN output, b \in DOMAIN output :
            a # b /\ output[a].level = output[n].level /\ output[b].level = output[n].level
      BY <2>3, CountLevels
    <3>3. PICK k \in DOMAIN output : k # n /\ output[k].level = level
      BY <2>3, <3>1, <3>2
    <3> QED BY <2>4, <2>5, <3>3 DEF HasLevel
  <2> QED BY <2>2, <2>4, <2>6, <2>7
<1> QED BY <1>5, <1>6

\* Merging is a loop over the templates; the level of each has its place in the end.
LEMMA MergedRounds ==
  ASSUME NEW S, NEW L, IsFiniteSet(L), Cardinality(L) <= MaxSkeletons,
         \A c \in S : c.level \in L /\ Classify(c.query) = c.level,
         NEW llm \in Seq(S), NEW templates \in Seq(S)
  PROVE  /\ Merged(llm, templates) \in Seq(S) /\ Len(Merged(llm, templates)) <= MaxSkeletons
         /\ \A m \in 1..Len(templates) : HasLevel(Merged(llm, templates), templates[m].level)
<1> DEFINE N == Len(templates)
           Short == {x \in Seq(S) : Len(x) <= MaxSkeletons}
           base == Filled(Filled(<< >>, llm), templates)
           step == [n \in 1..N |-> [x \in Short |-> WithLevel(x, templates[n])]]
           Equation(h) == h = [n \in 0..N |-> IF n = 0 THEN base ELSE WithLevel(h[n - 1], templates[n])]
           f == CHOOSE h : Equation(h)
<1>1. N \in Nat /\ \A n \in 1..N : templates[n] \in S
  OBVIOUS
<1>2. \A n \in 0..N : n # 0 => n \in 1..N /\ n - 1 \in 0..N
  BY <1>1
<1>3. base \in Short
  <2>1. << >> \in Seq(S) /\ Len(<< >>) <= MaxSkeletons
    BY SampleAssumption
  <2>2. Filled(<< >>, llm) \in Seq(S) /\ Len(Filled(<< >>, llm)) <= MaxSkeletons
    BY <2>1, FilledRounds
  <2> QED BY <2>2, FilledRounds
<1> HIDE DEF base
<1>4. \A x \in Short, n \in 1..N : WithLevel(x, templates[n]) \in Short
  BY <1>1, WithLevelKeeps
<1>5. Equation(f)
  <2>1. step \in Steps(Short, N)
    <3> HIDE DEF Short
    <3> QED BY <1>4 DEF Steps
  <2>2. PICK g : Runs(g, Short, N, base, step)
    <3> HIDE DEF step, N, Short
    <3> QED BY <1>1, <1>3, <2>1, RoundsExist
  <2> HIDE DEF N, Short
  <2>3. g \in [0..N -> Short] /\ \A n \in 0..N : n # 0 => g[n - 1] \in Short
    BY <1>2, <2>2 DEF Runs
  <2>4. \A n \in 0..N : g[n] = IF n = 0 THEN base ELSE WithLevel(g[n - 1], templates[n])
    BY <1>2, <2>2, <2>3 DEF Runs
  <2>5. Equation(g)
    BY <2>3, <2>4
  <2> HIDE DEF Equation
  <2> QED BY <2>5
<1>6. Merged(llm, templates) = f[N]
  BY DEF Merged, base
<1> HIDE DEF f, N
<1>7. f[0] = base /\ \A n \in 1..N : f[n] = WithLevel(f[n - 1], templates[n])
  <2>1. 0 \in 0..N /\ \A n \in 1..N : n \in 0..N /\ n # 0
    BY <1>1
  <2> QED BY <1>5, <2>1
<1> DEFINE Good(n) == f[n] \in Short /\ \A m \in 1..n : HasLevel(f[n], templates[m].level)
           T == {n \in 0..N : Good(n)}
<1>8. 0..N \subseteq T
  <2>1. 0 \in T
    <3>1. 0 \in 0..N /\ 1..0 = {}
      BY <1>1
    <3> HIDE DEF Short
    <3> QED BY <1>3, <1>7, <3>1
  <2>2. ASSUME NEW n \in 1..N, n - 1 \in T PROVE n \in T
    <3>1. Good(n - 1) /\ n \in 0..N /\ templates[n] \in S
      BY <1>1, <2>2
    <3> DEFINE x == f[n - 1]
    <3>2. f[n] = WithLevel(x, templates[n])
      BY <1>7
    <3>3. x \in Seq(S) /\ Len(x) <= MaxSkeletons /\ \A m \in 1..(n - 1) : HasLevel(x, templates[m].level)
      BY <3>1
    <3> HIDE DEF x
    <3>4. /\ f[n] \in Seq(S) /\ Len(f[n]) <= MaxSkeletons /\ HasLevel(f[n], templates[n].level)
          /\ \A level : HasLevel(x, level) => HasLevel(f[n], level)
      <4> DEFINE c == templates[n]
      <4>1. c \in S
        BY <3>1
      <4> HIDE DEF c
      <4>2. /\ WithLevel(x, c) \in Seq(S) /\ Len(WithLevel(x, c)) <= MaxSkeletons
            /\ HasLevel(WithLevel(x, c), c.level)
            /\ \A level : HasLevel(x, level) => HasLevel(WithLevel(x, c), level)
        BY <3>3, <4>1, WithLevelKeeps
      <4> QED BY <3>2, <4>2 DEF c
    <3>5. ASSUME NEW m \in 1..n PROVE HasLevel(f[n], templates[m].level)
      <4>1. m = n \/ m \in 1..(n - 1)
        BY <1>1
      <4> QED BY <3>3, <3>4, <4>1
    <3> QED BY <3>1, <3>4, <3>5
  <2> HIDE DEF T
  <2> QED BY <1>1, <2>1, <2>2, Upwards
<1>9. Good(N)
  <2>1. N \in 0..N
    BY <1>1
  <2> QED BY <1>8, <2>1
<1> QED BY <1>6, <1>9 DEF N

\* The levels of the specs are no more than the specs.
LEMMA AskedFinite ==
  ASSUME NEW schema, specs \in Seq(SpecsFor(schema)), Len(specs) <= MaxSkeletons
  PROVE  /\ AskedBy(specs) \in SUBSET LevelSet
         /\ IsFiniteSet(AskedBy(specs)) /\ Cardinality(AskedBy(specs)) <= MaxSkeletons
<1> DEFINE f == [i \in 1..Len(specs) |-> specs[i].level]
           A == AskedBy(specs)
<1>1. Len(specs) \in Nat /\ DOMAIN specs = 1..Len(specs)
  OBVIOUS
<1>2. A \in SUBSET LevelSet
  <2>1. \A i \in DOMAIN specs : specs[i] \in SpecsFor(schema)
    OBVIOUS
  <2>2. \A spec \in SpecsFor(schema) : spec.level \in LevelSet
    BY DEF SpecsFor
  <2> QED BY <2>1, <2>2 DEF AskedBy
<1>3. f \in Surjection(1..Len(specs), A)
  <2>1. f \in [1..Len(specs) -> A] /\ \A l \in A : \E i \in 1..Len(specs) : f[i] = l
    BY <1>1 DEF AskedBy
  <2> HIDE DEF f, A
  <2> QED BY <2>1 DEF Surjection
<1>4. IsFiniteSet(1..Len(specs)) /\ Cardinality(1..Len(specs)) = Len(specs)
  BY <1>1, FirstNumbers
<1>5. IsFiniteSet(A) /\ Cardinality(A) <= Len(specs)
  <2> HIDE DEF f, A
  <2> QED BY <1>3, <1>4, FS_Surjection
<1>6. Cardinality(A) \in Nat /\ MaxSkeletons \in Nat
  BY <1>5, FS_CardinalityType, SampleAssumption
<1> QED BY <1>1, <1>2, <1>5, <1>6

-----------------------------------------------------------------------------
(* The ranking of samples has a first best one.                            *)

SampleSet == [level : LevelSet, mode : {"template", "llm_direct"},
              canonical : BOOLEAN, consistent : BOOLEAN, fresh : BOOLEAN]

\* A score as one number.
Weight(s) == 216 * s[1] + 108 * s[2] + 54 * s[3] + 18 * s[4] + 9 * s[5] + s[6]

LEMMA ScoreIs ==
  ASSUME NEW selected, NEW s \in SampleSet
  PROVE  /\ Score(selected, s)[1] \in 0..1 /\ Score(selected, s)[2] \in 0..1 /\ Score(selected, s)[3] \in 0..1
         /\ Score(selected, s)[4] \in 1..2 /\ Score(selected, s)[5] \in 0..1 /\ Score(selected, s)[6] \in 1..8
         /\ DOMAIN Score(selected, s) = 1..6
<1>1. Rank(s.level) \in 1..8
  <2>1. \E i \in 1..8 : Levels[i] = s.level
    BY LevelsAre DEF SampleSet, ToSet
  <2> QED BY <2>1, LevelsAre DEF Rank
<1>2. Score(selected, s)[6] = Rank(s.level) /\ DOMAIN Score(selected, s) = 1..6
  BY DEF Score
<1>3. Score(selected, s)[1] \in 0..1 /\ Score(selected, s)[2] \in 0..1 /\ Score(selected, s)[3] \in 0..1
  BY DEF Score
<1>4. Score(selected, s)[4] \in 1..2 /\ Score(selected, s)[5] \in 0..1
  BY DEF Score, ModeScore
<1> QED BY <1>1, <1>2, <1>3, <1>4

\* The number of a score has its order.
LEMMA LessIs ==
  ASSUME NEW s, NEW t, DOMAIN s = 1..6,
         s[1] \in 0..1, s[2] \in 0..1, s[3] \in 0..1, s[4] \in 1..2, s[5] \in 0..1, s[6] \in 1..8,
         t[1] \in 0..1, t[2] \in 0..1, t[3] \in 0..1, t[4] \in 1..2, t[5] \in 0..1, t[6] \in 1..8
  PROVE  Weight(s) \in Nat /\ (Less(s, t) <=> Weight(s) < Weight(t))
<1> DEFINE first == \/ s[1] < t[1]
                    \/ s[1] = t[1] /\ s[2] < t[2]
                    \/ s[1] = t[1] /\ s[2] = t[2] /\ s[3] < t[3]
                    \/ s[1] = t[1] /\ s[2] = t[2] /\ s[3] = t[3] /\ s[4] < t[4]
                    \/ s[1] = t[1] /\ s[2] = t[2] /\ s[3] = t[3] /\ s[4] = t[4] /\ s[5] < t[5]
                    \/ s[1] = t[1] /\ s[2] = t[2] /\ s[3] = t[3] /\ s[4] = t[4] /\ s[5] = t[5] /\ s[6] < t[6]
<1>1. Weight(s) \in Nat /\ (first <=> Weight(s) < Weight(t))
  <2> DEFINE a == s[1]   b == s[2]   c == s[3]   d == s[4]   e == s[5]   f == s[6]
             g == t[1]   h == t[2]   i == t[3]   j == t[4]   k == t[5]   l == t[6]
             x == 4 * a + 2 * b + c
             y == 4 * g + 2 * h + i
             u == 18 * d + 9 * e + f
             v == 18 * j + 9 * k + l
  <2>1. /\ a \in 0..1 /\ b \in 0..1 /\ c \in 0..1 /\ d \in 1..2 /\ e \in 0..1 /\ f \in 1..8
        /\ g \in 0..1 /\ h \in 0..1 /\ i \in 0..1 /\ j \in 1..2 /\ k \in 0..1 /\ l \in 1..8
    OBVIOUS
  <2>2. /\ Weight(s) = 216 * a + 108 * b + 54 * c + 18 * d + 9 * e + f
        /\ Weight(t) = 216 * g + 108 * h + 54 * i + 18 * j + 9 * k + l
    BY DEF Weight
  <2>3. first <=> \/ a < g \/ (a = g /\ b < h) \/ (a = g /\ b = h /\ c < i)
                  \/ a = g /\ b = h /\ c = i /\ (d < j \/ (d = j /\ e < k) \/ (d = j /\ e = k /\ f < l))
    OBVIOUS
  <2> HIDE DEF a, b, c, d, e, f, g, h, i, j, k, l, first
  <2>4. x \in 0..7 /\ y \in 0..7 /\ u \in 0..53 /\ v \in 0..53
    BY <2>1
  <2>5. Weight(s) = 54 * x + u /\ Weight(t) = 54 * y + v
    BY <2>1, <2>2
  <2>6. x < y <=> a < g \/ (a = g /\ b < h) \/ (a = g /\ b = h /\ c < i)
    BY <2>1
  <2>7. x = y <=> a = g /\ b = h /\ c = i
    BY <2>1
  <2>8. u < v <=> d < j \/ (d = j /\ e < k) \/ (d = j /\ e = k /\ f < l)
    BY <2>1
  <2> HIDE DEF x, y, u, v
  <2>9. 54 * x + u < 54 * y + v <=> x < y \/ (x = y /\ u < v)
    BY <2>4
  <2>10. 54 * x + u \in Nat
    BY <2>4
  <2> QED BY <2>3, <2>5, <2>6, <2>7, <2>8, <2>9, <2>10
<1>2. Less(s, t) => first
  <2> SUFFICES ASSUME NEW n \in 1..6, s[n] < t[n], \A m \in 1..(n - 1) : s[m] = t[m] PROVE first
    BY DEF Less
  <2>1. n = 1 \/ n = 2 \/ n = 3 \/ n = 4 \/ n = 5 \/ n = 6
    OBVIOUS
  <2> QED BY <2>1
<1>3. first => Less(s, t)
  <2> SUFFICES ASSUME first PROVE \E n \in 1..6 : s[n] < t[n] /\ \A m \in 1..(n - 1) : s[m] = t[m]
    BY DEF Less
  <2> QED OBVIOUS
<1> QED BY <1>1, <1>2, <1>3

\* The first of the greatest.
LEMMA FirstBest ==
  ASSUME NEW N \in Nat, NEW w \in [1..N -> Nat], N # 0
  PROVE  \E i \in 1..N : \A j \in 1..N : ~(w[i] < w[j]) /\ (j < i => w[j] < w[i])
<1> DEFINE Best(n, i) == \A j \in 1..n : ~(w[i] < w[j]) /\ (j < i => w[j] < w[i])
           T == {n \in 0..N : n = 0 \/ \E i \in 1..n : Best(n, i)}
<1>1. 0..N \subseteq T
  <2>1. 0 \in T
    OBVIOUS
  <2>2. ASSUME NEW n \in 1..N, n - 1 \in T PROVE n \in T
    <3>1. CASE n = 1
      <4>1. 1 \in 1..N /\ w[1] \in Nat
        OBVIOUS
      <4>2. Best(1, 1)
        BY <4>1
      <4> QED BY <3>1, <4>2
    <3>2. CASE n # 1
      <4>1. PICK i \in 1..(n - 1) : Best(n - 1, i)
        BY <2>2, <3>2
      <4>2. i \in 1..n /\ \A j \in 1..n : j \in 1..N /\ w[j] \in Nat /\ (j # n => j \in 1..(n - 1))
        OBVIOUS
      <4>3. CASE w[i] < w[n]
        <5>1. Best(n, n)
          BY <4>1, <4>2, <4>3
        <5> QED BY <5>1
      <4>4. CASE ~(w[i] < w[n])
        <5>1. Best(n, i)
          BY <4>1, <4>2, <4>4
        <5> QED BY <4>2, <5>1
      <4> QED BY <4>3, <4>4
    <3> QED BY <3>1, <3>2
  <2> HIDE DEF T
  <2> QED BY <2>1, <2>2, Upwards
<1>2. N \in 0..N
  OBVIOUS
<1> QED BY <1>1, <1>2

LEMMA BestIn ==
  ASSUME NEW selected, NEW pool \in Seq(SampleSet), pool # << >>
  PROVE  BestOf(selected, pool) \in DOMAIN pool
<1> DEFINE N == Len(pool)
           w == [i \in 1..N |-> Weight(Score(selected, pool[i]))]
<1>1. N \in Nat /\ N # 0 /\ DOMAIN pool = 1..N
  BY EmptySeq
<1>2. \A i, j \in 1..N : Less(Score(selected, pool[i]), Score(selected, pool[j])) <=> w[i] < w[j]
  <2> SUFFICES ASSUME NEW i \in 1..N, NEW j \in 1..N
               PROVE  Less(Score(selected, pool[i]), Score(selected, pool[j])) <=> w[i] < w[j]
    OBVIOUS
  <2>1. pool[i] \in SampleSet /\ pool[j] \in SampleSet
    BY <1>1
  <2> QED BY <2>1, ScoreIs, LessIs
<1>3. w \in [1..N -> Nat]
  <2> SUFFICES ASSUME NEW i \in 1..N PROVE Weight(Score(selected, pool[i])) \in Nat
    OBVIOUS
  <2>1. pool[i] \in SampleSet
    BY <1>1
  <2> QED BY <2>1, ScoreIs, LessIs
<1> HIDE DEF w, N
<1>4. PICK i \in 1..N : \A j \in 1..N : ~(w[i] < w[j]) /\ (j < i => w[j] < w[i])
  BY <1>1, <1>3, FirstBest
<1>5. \A j \in DOMAIN pool : /\ ~Less(Score(selected, pool[i]), Score(selected, pool[j]))
                             /\ j < i => Less(Score(selected, pool[j]), Score(selected, pool[i]))
  BY <1>1, <1>2, <1>4
<1>6. i \in DOMAIN pool
  BY <1>1
<1> QED BY <1>5, <1>6 DEF BestOf

\* An element less.
LEMMA Removed ==
  ASSUME NEW S, NEW seq \in Seq(S), NEW i \in DOMAIN seq
  PROVE  RemoveAt(seq, i) \in Seq(S) /\ Len(RemoveAt(seq, i)) = Len(seq) - 1
<1> DEFINE fst == SubSeq(seq, 1, i - 1)
           snd == SubSeq(seq, i + 1, Len(seq))
<1>1. Len(seq) \in Nat /\ i \in 1..Len(seq)
  OBVIOUS
<1>2. fst \in Seq(S) /\ Len(fst) = i - 1
  BY <1>1
<1>3. snd \in Seq(S) /\ Len(snd) = Len(seq) - i
  BY <1>1
<1> HIDE DEF fst, snd
<1>4. fst \o snd \in Seq(S) /\ Len(fst \o snd) = Len(fst) + Len(snd)
  BY <1>2, <1>3, ConcatProperties
<1>5. RemoveAt(seq, i) = fst \o snd
  BY DEF RemoveAt, fst, snd
<1> QED BY <1>1, <1>2, <1>3, <1>4, <1>5

\* A pick takes samples of the pool, as many as it is to take or the pool has.
LEMMA PickedRounds ==
  ASSUME NEW S, S \subseteq SampleSet, NEW pool \in Seq(S), NEW count \in Nat, NEW seed
  PROVE  Picked(pool, count, seed) \in Seq(S) /\ Len(Picked(pool, count, seed)) = Smaller(count, Len(pool))
<1> DEFINE N == Len(pool)
           State == [out : Seq(S), rest : Seq(S)]
           best(x) == BestOf(seed \o x.out, x.rest)
           picked(x) == [out |-> Append(x.out, x.rest[best(x)]), rest |-> RemoveAt(x.rest, best(x))]
           base == [out |-> << >>, rest |-> pool]
           step == [n \in 1..N |-> [x \in State |-> IF x.rest = << >> THEN x ELSE picked(x)]]
           Equation(h) == h = [n \in 0..N |-> IF n = 0 THEN base ELSE picked(h[n - 1])]
           f == CHOOSE h : Equation(h)
           k == Smaller(count, N)
<1>1. N \in Nat /\ base \in State /\ k \in 0..N
  BY DEF Smaller
<1>2. ASSUME NEW x \in State, x.rest # << >>
      PROVE  /\ picked(x) \in State /\ Len(picked(x).out) = Len(x.out) + 1
             /\ Len(picked(x).rest) = Len(x.rest) - 1
  <2>1. x.out \in Seq(S) /\ x.rest \in Seq(S) /\ x.rest \in Seq(SampleSet)
    OBVIOUS
  <2>2. best(x) \in DOMAIN x.rest
    BY <1>2, <2>1, BestIn
  <2> HIDE DEF best
  <2>3. x.rest[best(x)] \in S
    BY <2>1, <2>2
  <2>4. Append(x.out, x.rest[best(x)]) \in Seq(S) /\ Len(Append(x.out, x.rest[best(x)])) = Len(x.out) + 1
    BY <2>1, <2>3
  <2>5. RemoveAt(x.rest, best(x)) \in Seq(S) /\ Len(RemoveAt(x.rest, best(x))) = Len(x.rest) - 1
    BY <2>1, <2>2, Removed
  <2> QED BY <2>4, <2>5
<1> HIDE DEF best, picked
<1>3. \A n \in 0..N : n # 0 => n \in 1..N /\ n - 1 \in 0..N
  BY <1>1
<1>4. PICK g : Runs(g, State, N, base, step)
  <2>1. step \in Steps(State, N)
    <3>1. \A x \in State : (IF x.rest = << >> THEN x ELSE picked(x)) \in State
      BY <1>2
    <3> HIDE DEF State
    <3> QED BY <3>1 DEF Steps
  <2> HIDE DEF step, N, State, base
  <2> QED BY <1>1, <2>1, RoundsExist
<1> HIDE DEF N
<1>5. g \in [0..N -> State] /\ g[0] = base /\ \A n \in 1..N : g[n] = step[n][g[n - 1]]
  BY <1>4 DEF Runs
<1> DEFINE Good(n) == Len(g[n].out) = n /\ Len(g[n].rest) = N - n
           T == {n \in 0..N : Good(n)}
<1>6. ASSUME NEW n \in 1..N, Good(n - 1) PROVE g[n] = picked(g[n - 1]) /\ Good(n)
  <2>1. g[n - 1] \in State
    BY <1>3, <1>5
  <2>2. Len(g[n - 1].rest) = N - n + 1
    BY <1>1, <1>6
  <2>3. g[n - 1].rest # << >>
    BY <1>1, <2>2
  <2>4. g[n] = picked(g[n - 1])
    BY <1>5, <2>1, <2>3
  <2>5. Len(g[n].out) = Len(g[n - 1].out) + 1 /\ Len(g[n].rest) = Len(g[n - 1].rest) - 1
    BY <1>2, <2>1, <2>3, <2>4
  <2>6. Len(g[n].out) = n /\ Len(g[n].rest) = N - n
    BY <1>1, <1>6, <2>2, <2>5
  <2> QED BY <2>4, <2>6
<1>7. 0..N \subseteq T
  <2>1. 0 \in T
    BY <1>1, <1>5 DEF N
  <2>2. ASSUME NEW n \in 1..N, n - 1 \in T PROVE n \in T
    <3>1. Good(n - 1) /\ n \in 0..N
      BY <1>1, <2>2
    <3> HIDE DEF Good
    <3>2. Good(n)
      BY <1>6, <3>1
    <3> QED BY <3>1, <3>2
  <2> HIDE DEF T
  <2> QED BY <1>1, <2>1, <2>2, Upwards
<1>8. Equation(f)
  <2>1. \A n \in 1..N : g[n] = picked(g[n - 1])
    <3> SUFFICES ASSUME NEW n \in 1..N PROVE g[n] = picked(g[n - 1])
      OBVIOUS
    <3>1. n - 1 \in 0..N
      BY <1>1
    <3> QED BY <1>6, <1>7, <3>1
  <2>2. \A n \in 0..N : g[n] = IF n = 0 THEN base ELSE picked(g[n - 1])
    BY <1>3, <1>5, <2>1
  <2>3. Equation(g)
    BY <1>5, <2>2
  <2> HIDE DEF Equation
  <2> QED BY <2>3
<1>9. Picked(pool, count, seed) = f[k].out
  BY DEF Picked, picked, best, N
<1> HIDE DEF f
<1>10. f[0] = base /\ \A n \in 1..N : f[n] = picked(f[n - 1])
  <2>1. 0 \in 0..N /\ \A n \in 1..N : n \in 0..N /\ n # 0
    BY <1>1
  <2> QED BY <1>8, <2>1
<1> DEFINE U == {n \in 0..N : f[n] = g[n]}
<1>11. 0..N \subseteq U
  <2>1. 0 \in U
    BY <1>1, <1>5, <1>10
  <2>2. ASSUME NEW n \in 1..N, n - 1 \in U PROVE n \in U
    <3>1. n - 1 \in 0..N /\ n \in 0..N /\ f[n - 1] = g[n - 1]
      BY <1>1, <2>2
    <3>2. Good(n - 1)
      BY <1>7, <3>1
    <3> QED BY <1>6, <1>10, <3>1, <3>2
  <2> HIDE DEF U
  <2> QED BY <1>1, <2>1, <2>2, Upwards
<1>12. f[k] = g[k] /\ Good(k) /\ g[k] \in State
  BY <1>1, <1>5, <1>7, <1>11
<1> QED BY <1>9, <1>12 DEF N

-----------------------------------------------------------------------------
(* Counting what a sequence has.                                           *)

CountIn(seq, T) == Cardinality({i \in DOMAIN seq : seq[i] \in T})

LEMMA CountInType ==
  ASSUME NEW S, NEW seq \in Seq(S), NEW T
  PROVE  IsFiniteSet({i \in DOMAIN seq : seq[i] \in T}) /\ CountIn(seq, T) \in Nat /\ CountIn(seq, T) <= Len(seq)
<1> DEFINE places == {i \in DOMAIN seq : seq[i] \in T}
<1>1. Len(seq) \in Nat /\ places \in SUBSET (1..Len(seq))
  OBVIOUS
<1> HIDE DEF places
<1>2. IsFiniteSet(places) /\ Cardinality(places) <= Len(seq) /\ Cardinality(places) \in Nat
  <2>1. IsFiniteSet(1..Len(seq)) /\ Cardinality(1..Len(seq)) = Len(seq)
    BY <1>1, FirstNumbers
  <2> QED BY <1>1, <2>1, FS_Subset, FS_CardinalityType
<1> QED BY <1>2 DEF CountIn, places

\* Places of one sequence that are places of another, moved.
LEMMA CountMoved ==
  ASSUME NEW S, NEW a \in Seq(S), NEW b \in Seq(S), NEW T, NEW keep \in SUBSET DOMAIN a,
         NEW place \in [keep -> DOMAIN b], \A i, j \in keep : place[i] = place[j] => i = j,
         \A i \in keep : b[place[i]] = a[i]
  PROVE  Cardinality({i \in keep : a[i] \in T}) <= CountIn(b, T)
<1> DEFINE A == {i \in keep : a[i] \in T}
           B == {i \in DOMAIN b : b[i] \in T}
           f == [i \in A |-> place[i]]
<1>1. f \in Injection(A, B)
  <2>1. f \in [A -> B] /\ \A i, j \in A : f[i] = f[j] => i = j
    OBVIOUS
  <2> HIDE DEF f, A, B
  <2> QED BY <2>1 DEF Injection, IsInjective
<1>2. IsFiniteSet(B)
  BY CountInType
<1>3. Cardinality(A) <= Cardinality(B)
  <2> HIDE DEF f, A, B
  <2> QED BY <1>1, <1>2, FS_Injection
<1> QED BY <1>3 DEF CountIn

LEMMA ConcatCounts ==
  ASSUME NEW S, NEW a \in Seq(S), NEW b \in Seq(S), NEW T
  PROVE  CountIn(a, T) <= CountIn(a \o b, T) /\ CountIn(b, T) <= CountIn(a \o b, T)
<1> DEFINE c == a \o b
<1>1. /\ c \in Seq(S) /\ Len(c) = Len(a) + Len(b) /\ Len(a) \in Nat /\ Len(b) \in Nat
      /\ \A i \in 1..(Len(a) + Len(b)) : c[i] = IF i <= Len(a) THEN a[i] ELSE b[i - Len(a)]
  BY ConcatProperties
<1>2. DOMAIN a = 1..Len(a) /\ DOMAIN b = 1..Len(b) /\ DOMAIN c = 1..(Len(a) + Len(b))
  BY <1>1
<1> HIDE DEF c
<1>3. CountIn(a, T) <= CountIn(c, T)
  <2> DEFINE place == [i \in DOMAIN a |-> i]
  <2>1. place \in [DOMAIN a -> DOMAIN c] /\ \A i, j \in DOMAIN a : place[i] = place[j] => i = j
    BY <1>1, <1>2
  <2>2. \A i \in DOMAIN a : c[place[i]] = a[i]
    BY <1>1, <1>2
  <2> HIDE DEF place
  <2>3. Cardinality({i \in DOMAIN a : a[i] \in T}) <= CountIn(c, T)
    BY <1>1, <2>1, <2>2, CountMoved
  <2> QED BY <2>3 DEF CountIn
<1>4. CountIn(b, T) <= CountIn(c, T)
  <2> DEFINE place == [i \in DOMAIN b |-> Len(a) + i]
  <2>1. place \in [DOMAIN b -> DOMAIN c] /\ \A i, j \in DOMAIN b : place[i] = place[j] => i = j
    BY <1>1, <1>2
  <2>2. \A i \in DOMAIN b : c[place[i]] = b[i]
    BY <1>1, <1>2
  <2> HIDE DEF place
  <2>3. Cardinality({i \in DOMAIN b : b[i] \in T}) <= CountIn(c, T)
    BY <1>1, <2>1, <2>2, CountMoved
  <2> QED BY <2>3 DEF CountIn
<1> QED BY <1>3, <1>4 DEF c

LEMMA SelectedCounts ==
  ASSUME NEW S, NEW seq \in Seq(S), NEW keep \in SUBSET DOMAIN seq, NEW T
  PROVE  Cardinality({i \in keep : seq[i] \in T}) <= CountIn(Selected(seq, keep), T)
<1> DEFINE sel == Selected(seq, keep)
<1>1. /\ sel \in Seq(S)
      /\ \E place \in Bijection(keep, DOMAIN sel) : \A i \in keep : sel[place[i]] = seq[i]
  BY SelectedPlaces
<1> HIDE DEF sel
<1>2. PICK place \in Bijection(keep, DOMAIN sel) : \A i \in keep : sel[place[i]] = seq[i]
  BY <1>1
<1>3. place \in [keep -> DOMAIN sel] /\ \A i, j \in keep : place[i] = place[j] => i = j
  BY DEF Bijection, Injection, IsInjective
<1>4. Cardinality({i \in keep : seq[i] \in T}) <= CountIn(sel, T)
  BY <1>1, <1>2, <1>3, CountMoved
<1> QED BY <1>4 DEF sel

\* A level's samples.
At0(level) == {s \in SampleSet : s.level = level}

LEMMA CountOfIs ==
  ASSUME NEW seq \in Seq(SampleSet), NEW level
  PROVE  CountOf(seq, level) = CountIn(seq, At0(level))
<1>1. {i \in DOMAIN seq : seq[i].level = level} = {i \in DOMAIN seq : seq[i] \in At0(level)}
  BY DEF At0
<1> QED BY <1>1 DEF CountOf, CountIn

\* A level's choice has all the level's samples, and no others.
LEMMA OfLevelIs ==
  ASSUME NEW S, S \subseteq SampleSet, NEW pool \in Seq(S), NEW level
  PROVE  /\ OfLevel(pool, level) \in Seq({s \in S : s.level = level})
         /\ OfLevel(pool, level) \in Seq(S)
         /\ Len(OfLevel(pool, level)) = CountOf(pool, level)
<1> DEFINE keep == {i \in DOMAIN pool : pool[i].level = level}
<1>1. keep \in SUBSET DOMAIN pool /\ \A i \in keep : pool[i] \in {s \in S : s.level = level}
  OBVIOUS
<1>2. OfLevel(pool, level) = Selected(pool, keep) /\ CountOf(pool, level) = Cardinality(keep)
  BY DEF OfLevel, CountOf
<1> HIDE DEF keep
<1>3. Selected(pool, keep) \in Seq({s \in S : s.level = level})
  BY <1>1, SelectedIn
<1>4. Selected(pool, keep) \in Seq(S) /\ Len(Selected(pool, keep)) = Cardinality(keep)
  BY <1>1, SelectedPlaces
<1> QED BY <1>2, <1>3, <1>4

-----------------------------------------------------------------------------
(* The shortlist and the round trip.                                       *)

LEMMA ShortlistOfIn ==
  ASSUME NEW pool \in Seq(SampleSet), NEW target \in Nat
  PROVE  ShortlistOf(pool, target) \in Seq(SampleSet)
<1>1. Len(pool) \in Nat
  OBVIOUS
<1>2. Budget(target, Len(pool)) \in Nat
  BY <1>1 DEF Budget, Smaller
<1>3. Picked(pool, Budget(target, Len(pool)), << >>) \in Seq(SampleSet)
  BY <1>2, PickedRounds
<1> QED BY <1>3 DEF ShortlistOf

LEMMA ShortlistIn ==
  ASSUME NEW pool \in Seq(SampleSet), NEW targets \in [LevelSet -> Nat], NEW count \in Nat
  PROVE  Shortlist(pool, targets, count) \in Seq(SampleSet)
<1> DEFINE part(i) == IF targets[Levels[i]] = 0 THEN << >>
                      ELSE ShortlistOf(OfLevel(pool, Levels[i]), targets[Levels[i]] + 2)
           parts == [i \in DOMAIN Levels |-> part(i)]
<1>1. ASSUME NEW i \in 1..8 PROVE part(i) \in Seq(SampleSet)
  <2>1. Levels[i] \in LevelSet /\ targets[Levels[i]] \in Nat
    BY LevelsAre, ElementOfSeq
  <2>2. OfLevel(pool, Levels[i]) \in Seq(SampleSet)
    BY OfLevelIs
  <2>3. targets[Levels[i]] + 2 \in Nat
    BY <2>1
  <2>4. ShortlistOf(OfLevel(pool, Levels[i]), targets[Levels[i]] + 2) \in Seq(SampleSet)
    BY <2>2, <2>3, ShortlistOfIn
  <2> QED BY <2>4
<1>2. parts \in Seq(Seq(SampleSet))
  <2> HIDE DEF part
  <2> QED BY <1>1, LevelsAre
<1>3. Joined(parts) \in Seq(SampleSet)
  <2> HIDE DEF parts
  <2> QED BY <1>2, JoinedIn
<1>4. ShortlistOf(pool, count) \in Seq(SampleSet)
  BY ShortlistOfIn
<1> QED BY <1>3, <1>4 DEF Shortlist

\* A sample that may be released where the round trip is required.
Checked(pool, targets) ==
  {s \in SampleSet : Passed(s) \/ (s.canonical /\ CountOf(PassedOf(pool), s.level) < targets[s.level])}

\* A level's samples that passed and are new.
GoodOf(level) == {s \in SampleSet : s.level = level /\ Passed(s) /\ s.fresh}

LEMMA RoundtripIs ==
  ASSUME NEW pool \in Seq(SampleSet), NEW targets \in [LevelSet -> Nat]
  PROVE  /\ ApplyRoundtrip(pool, targets) \in Seq(SampleSet)
         /\ RoundtripRequired => ApplyRoundtrip(pool, targets) \in Seq(Checked(pool, targets))
         /\ \A level : CountIn(pool, GoodOf(level)) <= CountIn(ApplyRoundtrip(pool, targets), GoodOf(level))
<1> DEFINE short(level) == targets[level] - CountOf(PassedOf(pool), level)
           more(level) == SubSeq(Fallback(pool, level), 1, Smaller(short(level), Len(Fallback(pool, level))))
           parts == [i \in DOMAIN Levels |-> more(Levels[i])]
           C == Checked(pool, targets)
           keep == {i \in DOMAIN pool : Passed(pool[i])}
<1>1. PassedOf(pool) \in Seq(C) /\ PassedOf(pool) \in Seq(SampleSet) /\ PassedOf(pool) = Selected(pool, keep)
  <2>1. keep \in SUBSET DOMAIN pool /\ \A i \in keep : pool[i] \in C
    BY DEF Checked
  <2>2. PassedOf(pool) = Selected(pool, keep)
    BY DEF PassedOf
  <2> HIDE DEF keep, C
  <2> QED BY <2>1, <2>2, SelectedIn, SelectedPlaces
<1>2. ASSUME NEW level \in LevelSet PROVE more(level) \in Seq(C)
  <2> DEFINE back == {i \in DOMAIN pool : ~pool[i].consistent /\ pool[i].canonical /\ pool[i].level = level}
             F == Fallback(pool, level)
             n == Smaller(short(level), Len(F))
  <2>1. F = Selected(pool, back) /\ back \in SUBSET DOMAIN pool
    BY DEF Fallback
  <2>2. short(level) \in Int
    BY <1>1, CountLevels
  <2>3. CASE short(level) > 0
    <3>1. \A i \in back : pool[i] \in C
      <4> SUFFICES ASSUME NEW i \in back PROVE pool[i] \in C
        OBVIOUS
      <4>1. pool[i] \in SampleSet /\ pool[i].canonical /\ pool[i].level = level
        OBVIOUS
      <4>2. CountOf(PassedOf(pool), level) < targets[level]
        <5> DEFINE c == CountOf(PassedOf(pool), level)
                   t == targets[level]
        <5>1. c \in Nat /\ t \in Nat /\ t - c > 0
          BY <1>1, <2>3, CountLevels
        <5> HIDE DEF c, t
        <5>2. c < t
          BY <5>1
        <5> QED BY <5>2 DEF c, t
      <4> QED BY <4>1, <4>2 DEF Checked
    <3>2. F \in Seq(C)
      <4> HIDE DEF back, C, F
      <4> QED BY <2>1, <3>1, SelectedIn
    <3> HIDE DEF F, C, short
    <3>3. n \in Nat /\ n <= Len(F)
      BY <2>2, <2>3, <3>2 DEF Smaller
    <3> HIDE DEF n
    <3>4. SubSeq(F, 1, n) \in Seq(C)
      BY <3>2, <3>3
    <3> QED BY <3>4 DEF F, n, short
  <2>4. CASE ~(short(level) > 0)
    <3>1. F \in Seq(SampleSet)
      <4> HIDE DEF back, F
      <4> QED BY <2>1, SelectedPlaces
    <3> HIDE DEF F, C, short
    <3>2. n \in Int /\ n <= 0
      BY <2>2, <2>4, <3>1 DEF Smaller
    <3> HIDE DEF n
    <3>3. SubSeq(F, 1, n) = << >>
      BY <3>1, <3>2
    <3>4. << >> \in Seq(C)
      OBVIOUS
    <3> QED BY <3>3, <3>4 DEF F, n, short
  <2> QED BY <2>3, <2>4
<1>3. parts \in Seq(Seq(C))
  <2>1. \A i \in 1..8 : Levels[i] \in LevelSet
    BY LevelsAre, ElementOfSeq
  <2> HIDE DEF more, C
  <2> QED BY <1>2, <2>1, LevelsAre
<1>4. Joined(parts) \in Seq(C)
  <2> HIDE DEF parts, C
  <2> QED BY <1>3, JoinedIn
<1>5. C \subseteq SampleSet
  BY DEF Checked
<1>6. ApplyRoundtrip(pool, targets) = IF ~RoundtripRequired THEN pool ELSE PassedOf(pool) \o Joined(parts)
  BY DEF ApplyRoundtrip
<1> HIDE DEF parts, C
<1>7. PassedOf(pool) \o Joined(parts) \in Seq(C)
  BY <1>1, <1>4, ConcatProperties
<1>8. PassedOf(pool) \o Joined(parts) \in Seq(SampleSet) /\ Joined(parts) \in Seq(SampleSet)
  BY <1>4, <1>5, <1>7, SeqMonotonic
<1>9. ASSUME NEW level PROVE CountIn(pool, GoodOf(level)) <= CountIn(PassedOf(pool) \o Joined(parts), GoodOf(level))
  <2> DEFINE G == GoodOf(level)
  <2>1. {i \in keep : pool[i] \in G} = {i \in DOMAIN pool : pool[i] \in G}
    BY DEF GoodOf
  <2> HIDE DEF keep, G
  <2>2. keep \in SUBSET DOMAIN pool
    BY DEF keep
  <2>3. CountIn(pool, G) <= CountIn(PassedOf(pool), G)
    <3>1. Cardinality({i \in keep : pool[i] \in G}) <= CountIn(Selected(pool, keep), G)
      BY <2>2, SelectedCounts
    <3>2. CountIn(pool, G) = Cardinality({i \in keep : pool[i] \in G})
      BY <2>1 DEF CountIn
    <3> QED BY <1>1, <3>1, <3>2
  <2>4. CountIn(PassedOf(pool), G) <= CountIn(PassedOf(pool) \o Joined(parts), G)
    BY <1>1, <1>8, ConcatCounts
  <2>5. /\ CountIn(pool, G) \in Nat /\ CountIn(PassedOf(pool), G) \in Nat
        /\ CountIn(PassedOf(pool) \o Joined(parts), G) \in Nat
    BY <1>1, <1>8, CountInType
  <2>6. CountIn(pool, G) <= CountIn(PassedOf(pool) \o Joined(parts), G)
    BY <2>3, <2>4, <2>5
  <2> QED BY <2>6 DEF G
<1>10. \A level : CountIn(pool, GoodOf(level)) <= CountIn(pool, GoodOf(level))
  <2> TAKE level
  <2>1. CountIn(pool, GoodOf(level)) \in Nat
    BY CountInType
  <2> QED BY <2>1
<1> QED BY <1>6, <1>7, <1>8, <1>9, <1>10 DEF C

-----------------------------------------------------------------------------
(* The release.                                                            *)

LEMMA AllOfLevel ==
  ASSUME NEW S, NEW level, NEW seq \in Seq({s \in S : s.level = level})
  PROVE  CountOf(seq, level) = Len(seq)
<1>1. Len(seq) \in Nat
  OBVIOUS
<1>2. {i \in DOMAIN seq : seq[i].level = level} = 1..Len(seq)
  OBVIOUS
<1>3. Cardinality(1..Len(seq)) = Len(seq)
  <2> DEFINE n == Len(seq)
  <2>1. n \in Nat
    BY <1>1
  <2> HIDE DEF n
  <2>2. Cardinality(1..n) = n
    BY <2>1, FirstNumbers
  <2> QED BY <2>2 DEF n
<1> QED BY <1>2, <1>3 DEF CountOf

\* What a level adds to the release: as many as it asks for or has, all of the level, and
\* the levels before keep theirs.
LEMMA LevelAdds ==
  ASSUME NEW S, S \subseteq SampleSet, NEW fresh \in Seq(S), NEW level, NEW target \in Nat, NEW x \in Seq(S)
  PROVE  LET y == x \o Picked(OfLevel(fresh, level), target, x)
         IN /\ y \in Seq(S) /\ Len(y) <= Len(x) + target
            /\ Smaller(target, CountOf(fresh, level)) <= CountOf(y, level)
            /\ \A other : CountOf(x, other) <= CountOf(y, other)
<1> DEFINE pool == OfLevel(fresh, level)
           P == {s \in S : s.level = level}
           p == Picked(pool, target, x)
           y == x \o p
<1>1. pool \in Seq(P) /\ Len(pool) = CountOf(fresh, level) /\ P \subseteq SampleSet /\ P \subseteq S
  BY OfLevelIs
<1>2. p \in Seq(P) /\ Len(p) = Smaller(target, CountOf(fresh, level))
  <2> HIDE DEF pool, P
  <2> QED BY <1>1, PickedRounds
<1>3. CountOf(p, level) = Len(p)
  <2> HIDE DEF p
  <2> QED BY <1>2, AllOfLevel
<1>4. p \in Seq(S) /\ p \in Seq(SampleSet) /\ x \in Seq(SampleSet)
  <2> HIDE DEF p, P
  <2> QED BY <1>1, <1>2, SeqMonotonic
<1> HIDE DEF p, P, pool
<1>5. y \in Seq(S) /\ y \in Seq(SampleSet) /\ Len(y) = Len(x) + Len(p)
  BY <1>4, ConcatProperties
<1>6. \A other : CountOf(x, other) <= CountOf(y, other) /\ CountOf(p, other) <= CountOf(y, other)
  <2> TAKE other
  <2>1. /\ CountOf(x, other) = CountIn(x, At0(other)) /\ CountOf(p, other) = CountIn(p, At0(other))
        /\ CountOf(y, other) = CountIn(y, At0(other))
    BY <1>4, <1>5, CountOfIs
  <2> QED BY <1>4, <2>1, ConcatCounts
<1>7. CountOf(fresh, level) \in Nat /\ Len(x) \in Nat /\ Len(p) \in Nat
  BY <1>4, CountLevels
<1>8. Len(y) <= Len(x) + target
  BY <1>2, <1>5, <1>7 DEF Smaller
<1>9. Smaller(target, CountOf(fresh, level)) <= CountOf(y, level)
  BY <1>2, <1>3, <1>6
<1> QED BY <1>5, <1>6, <1>8, <1>9 DEF y, p, pool

\* Level by level: no more than was asked for, and each level gets its target or all it has.
LEMMA ReleaseRounds ==
  ASSUME NEW S, S \subseteq SampleSet, NEW fresh \in Seq(S), NEW targets \in [LevelSet -> Nat]
  PROVE  /\ ReleaseByLevel(fresh, targets) \in Seq(S) /\ Len(ReleaseByLevel(fresh, targets)) <= Total(targets)
         /\ \A level \in LevelSet :
              Smaller(targets[level], CountOf(fresh, level)) <= CountOf(ReleaseByLevel(fresh, targets), level)
<1> DEFINE grown(x, n) == x \o Picked(OfLevel(fresh, Levels[n]), targets[Levels[n]], x)
           step == [n \in 1..8 |-> [x \in Seq(S) |-> grown(x, n)]]
           Equation(h) == h = [n \in 0..Len(Levels) |-> IF n = 0 THEN << >> ELSE grown(h[n - 1], n)]
           f == CHOOSE h : Equation(h)
           asked == Asked(targets)
<1>1. Len(Levels) = 8 /\ \A n \in 1..8 : Levels[n] \in LevelSet /\ targets[Levels[n]] \in Nat
  BY LevelsAre, ElementOfSeq
<1>2. ASSUME NEW x \in Seq(S), NEW n \in 1..8
      PROVE  /\ grown(x, n) \in Seq(S) /\ Len(grown(x, n)) <= Len(x) + targets[Levels[n]]
             /\ Smaller(targets[Levels[n]], CountOf(fresh, Levels[n])) <= CountOf(grown(x, n), Levels[n])
             /\ \A other : CountOf(x, other) <= CountOf(grown(x, n), other)
  BY <1>1, LevelAdds
<1> HIDE DEF grown
<1>3. \A n \in 0..8 : n # 0 => n \in 1..8 /\ n - 1 \in 0..8
  OBVIOUS
<1>4. Equation(f)
  <2>1. step \in Steps(Seq(S), 8)
    BY <1>2 DEF Steps
  <2>2. PICK g : Runs(g, Seq(S), 8, << >>, step)
    <3>1. << >> \in Seq(S)
      OBVIOUS
    <3> HIDE DEF step
    <3> QED BY <2>1, <3>1, RoundsExist
  <2>3. g \in [0..8 -> Seq(S)] /\ \A n \in 0..8 : n # 0 => g[n - 1] \in Seq(S)
    BY <1>3, <2>2 DEF Runs
  <2>4. \A n \in 0..8 : g[n] = IF n = 0 THEN << >> ELSE grown(g[n - 1], n)
    BY <1>3, <2>2, <2>3 DEF Runs
  <2>5. Equation(g)
    BY <1>1, <2>3, <2>4
  <2> HIDE DEF Equation
  <2> QED BY <2>5
<1>5. ReleaseByLevel(fresh, targets) = f[8]
  BY <1>1 DEF ReleaseByLevel, grown
<1> HIDE DEF f
<1>6. f[0] = << >> /\ \A n \in 1..8 : f[n] = grown(f[n - 1], n)
  <2>1. 0 \in 0..8 /\ \A n \in 1..8 : n \in 0..8 /\ n # 0
    OBVIOUS
  <2> QED BY <1>1, <1>4, <2>1
<1>7. asked \in [0..8 -> Nat] /\ asked[0] = 0 /\ \A n \in 1..8 : asked[n] = asked[n - 1] + targets[Levels[n]]
  BY LevelsAre, AskedRounds
<1> HIDE DEF asked
<1> DEFINE Has(y, m) == Smaller(targets[Levels[m]], CountOf(fresh, Levels[m])) <= CountOf(y, Levels[m])
           Good(n) == f[n] \in Seq(S) /\ Len(f[n]) <= asked[n] /\ \A m \in 1..n : Has(f[n], m)
           T == {n \in 0..8 : Good(n)}
<1>8. 0..8 \subseteq T
  <2>1. 0 \in T
    <3>1. f[0] \in Seq(S) /\ Len(f[0]) = 0 /\ 0 \in 0..8 /\ 1..0 = {}
      BY <1>6
    <3>2. Len(f[0]) <= asked[0] /\ \A m \in 1..0 : Has(f[0], m)
      BY <1>7, <3>1
    <3> HIDE DEF Has
    <3> QED BY <3>1, <3>2
  <2>2. ASSUME NEW n \in 1..8, n - 1 \in T PROVE n \in T
    <3> DEFINE x == f[n - 1]
    <3>1. n - 1 \in 0..8 /\ n \in 0..8 /\ Good(n - 1)
      BY <2>2
    <3>2. x \in Seq(S) /\ Len(x) <= asked[n - 1] /\ (\A m \in 1..(n - 1) : Has(x, m)) /\ f[n] = grown(x, n)
      BY <1>6, <3>1
    <3> HIDE DEF x, Has
    <3>3. /\ f[n] \in Seq(S) /\ Len(f[n]) <= Len(x) + targets[Levels[n]]
          /\ Has(f[n], n)
          /\ \A other : CountOf(x, other) <= CountOf(f[n], other)
      BY <1>2, <3>2 DEF Has
    <3>4. Len(f[n]) <= asked[n]
      <4>1. asked[n] = asked[n - 1] + targets[Levels[n]] /\ asked[n - 1] \in Nat /\ targets[Levels[n]] \in Nat
        BY <1>1, <1>7, <3>1
      <4>2. Len(x) \in Nat /\ Len(f[n]) \in Nat
        BY <3>2, <3>3
      <4> QED BY <3>2, <3>3, <4>1, <4>2
    <3>5. ASSUME NEW m \in 1..n PROVE Has(f[n], m)
      <4>1. CASE m = n
        BY <3>3, <4>1
      <4>2. CASE m # n
        <5>1. m \in 1..(n - 1) /\ m \in 1..8
          BY <4>2
        <5>2. Has(x, m) /\ CountOf(x, Levels[m]) <= CountOf(f[n], Levels[m])
          BY <3>2, <3>3, <5>1
        <5>3. /\ CountOf(x, Levels[m]) \in Nat /\ CountOf(f[n], Levels[m]) \in Nat
              /\ CountOf(fresh, Levels[m]) \in Nat /\ targets[Levels[m]] \in Nat
          BY <1>1, <3>2, <3>3, <5>1, CountLevels
        <5> QED BY <5>2, <5>3 DEF Has, Smaller
      <4> QED BY <4>1, <4>2
    <3> QED BY <3>1, <3>3, <3>4, <3>5
  <2> HIDE DEF T
  <2> QED BY <2>1, <2>2, Upwards
<1>9. Good(8)
  <2>1. 8 \in 0..8
    OBVIOUS
  <2> QED BY <1>8, <2>1
<1>10. ASSUME NEW level \in LevelSet PROVE Smaller(targets[level], CountOf(fresh, level)) <= CountOf(f[8], level)
  <2>1. PICK m \in 1..8 : Levels[m] = level
    BY LevelsAre DEF ToSet
  <2> QED BY <1>9, <2>1
<1>11. Total(targets) = asked[8]
  BY <1>1 DEF Total, asked
<1> QED BY <1>5, <1>9, <1>10, <1>11

-----------------------------------------------------------------------------
(* The inductive invariant.                                                *)

\* What every stage may hold.
Typed ==
  /\ stage \in {"specs", "candidates", "validate", "questions", "ask", "roundtrip", "release", "done"}
  /\ RequestOK(request)
  /\ Wanted(request.targets) # {} => request.count = Total(request.targets)
  /\ specs \in Seq(SpecsFor(request.schema)) /\ Len(specs) <= MaxSkeletons
  /\ candidates \in Seq(CandidatesAt(request.schema, LevelSet)) /\ Len(candidates) <= MaxSkeletons
  /\ samples \in Seq(SampleSet) /\ released \in Seq(SampleSet)

\* What went through the round trip: checked, and no good sample lost.
Kept ==
  /\ stage \in {"release", "done"} /\ RoundtripRequired => released \in Seq(Checked(samples, request.targets))
  /\ stage = "release" => \A level : CountIn(samples, GoodOf(level)) <= CountIn(released, GoodOf(level))

IInv == Typed /\ Kept /\ LevelsSurvive /\ ValidatedFollowsSchema /\ TargetsMet

LEMMA TotalIn ==
  ASSUME NEW targets \in [LevelSet -> Nat]
  PROVE  Total(targets) \in Nat
<1>1. Asked(targets) \in [0..8 -> Nat]
  BY AskedRounds, LevelsAre
<1>2. 8 \in 0..8
  OBVIOUS
<1> QED BY <1>1, <1>2, LevelsAre DEF Total

LEMMA InitIInv == Init => IInv
<1> SUFFICES ASSUME Init PROVE IInv
  OBVIOUS
<1>1. PICK schema \in Schemas, targets \in Targets, count \in Counts, offset \in 0..MaxOffset :
        request = [schema |-> schema, targets |-> targets, offset |-> offset,
                   count |-> IF Wanted(targets) = {} THEN count ELSE Total(targets)]
  BY DEF Init
<1>2. targets \in [LevelSet -> Nat] /\ SchemaOK(schema)
      /\ count \in Nat /\ offset \in Nat /\ MaxSkeletons \in Nat
  <2>1. targets \in [ToSet(Levels) -> Nat] /\ SchemaOK(schema)
        /\ count \in Nat /\ MaxOffset \in Nat /\ MaxSkeletons \in Nat
    BY SampleAssumption DEF SchemaOK
  <2>2. offset \in Nat
    BY <2>1
  <2> QED BY <2>1, <2>2, LevelsAre
<1>3. Total(targets) \in Nat
  BY <1>2, TotalIn
<1>4. RequestOK(request) /\ (Wanted(request.targets) # {} => request.count = Total(request.targets))
  BY <1>1, <1>2, <1>3 DEF RequestOK
<1>5. stage = "specs" /\ specs = << >> /\ candidates = << >> /\ samples = << >> /\ released = << >>
  BY DEF Init
<1>6. \A S : << >> \in Seq(S)
  OBVIOUS
<1>7. Len(<< >>) = 0
  OBVIOUS
<1>8. Typed
  BY <1>2, <1>4, <1>5, <1>6, <1>7 DEF Typed
<1> QED BY <1>5, <1>8 DEF IInv, Kept, LevelsSurvive, ValidatedFollowsSchema, TargetsMet

LEMMA BuildSpecsIInv == IInv /\ BuildSpecs => IInv'
<1> SUFFICES ASSUME IInv, BuildSpecs PROVE IInv'
  OBVIOUS
<1>1. Typed /\ stage' = "candidates" /\ UNCHANGED <<request, candidates, samples, released>>
  BY DEF IInv, BuildSpecs
<1>2. specs' \in Seq(SpecsFor(request.schema)) /\ Len(specs') <= MaxSkeletons
  <2>1. CASE request.schema.labels = << >>
    <3>1. specs' = << >>
      BY <2>1 DEF BuildSpecs
    <3>2. << >> \in Seq(SpecsFor(request.schema)) /\ Len(<< >>) <= MaxSkeletons
      BY SampleAssumption
    <3> QED BY <3>1, <3>2
  <2>2. CASE request.schema.labels # << >> /\ Wanted(request.targets) = {}
    <3>1. specs' = UntargetedSpecs(request)
      BY <2>2 DEF BuildSpecs
    <3> QED BY <1>1, <2>2, <3>1, UntargetedSpecsFit DEF Typed
  <2>3. CASE request.schema.labels # << >> /\ Wanted(request.targets) # {}
    <3>1. specs' = TargetedSpecs(request)
      BY <2>3 DEF BuildSpecs
    <3> QED BY <1>1, <2>3, <3>1, TargetedSpecsFit DEF Typed
  <2> QED BY <2>1, <2>2, <2>3
<1>3. Typed'
  BY <1>1, <1>2 DEF Typed
<1> QED BY <1>1, <1>3 DEF IInv, Kept, LevelsSurvive, ValidatedFollowsSchema, TargetsMet

LEMMA InstantiateIInv == IInv /\ Instantiate => IInv'
<1> SUFFICES ASSUME IInv, Instantiate PROVE IInv'
  OBVIOUS
<1> DEFINE A == AskedBy(specs)
           S == CandidatesAt(request.schema, A)
<1>1. Typed /\ stage' = "validate" /\ UNCHANGED <<request, specs, samples, released>>
  BY DEF IInv, Instantiate
<1>2. /\ SchemaOK(request.schema) /\ MaxSkeletons \in Nat
      /\ specs \in Seq(SpecsFor(request.schema)) /\ Len(specs) <= MaxSkeletons
  BY <1>1, SampleAssumption DEF Typed, RequestOK
<1>3. A \in SUBSET LevelSet /\ IsFiniteSet(A) /\ Cardinality(A) <= MaxSkeletons
  BY <1>2, AskedFinite
<1>4. \A c \in S : c.level \in A /\ Classify(c.query) = c.level
  BY <1>2, <1>3, CandidateFacts
<1>5. /\ TemplateCandidates \in Seq(S) /\ Len(TemplateCandidates) = Len(specs)
      /\ \A i \in DOMAIN specs : TemplateCandidates[i].level = specs[i].level
  BY <1>2, TemplatesAsked
<1> HIDE DEF A, S
<1>6. /\ candidates' \in Seq(S) /\ Len(candidates') <= MaxSkeletons
      /\ \A m \in 1..Len(TemplateCandidates) : HasLevel(candidates', TemplateCandidates[m].level)
  <2>1. CASE candidates' = Filled(<< >>, TemplateCandidates)
    <3>1. << >> \in Seq(S) /\ Len(<< >>) = 0 /\ Len(TemplateCandidates) \in Nat
      BY <1>5
    <3>2. /\ candidates' \in Seq(S) /\ Len(candidates') <= MaxSkeletons
          /\ \A m \in 1..Len(TemplateCandidates) : HasQuery(candidates', TemplateCandidates[m].query)
      <4>1. Len(<< >>) <= MaxSkeletons /\ Len(<< >>) + Len(TemplateCandidates) <= MaxSkeletons
        BY <1>2, <1>5, <3>1
      <4>2. /\ Filled(<< >>, TemplateCandidates) \in Seq(S) /\ Len(Filled(<< >>, TemplateCandidates)) <= MaxSkeletons
            /\ \A m \in 1..Len(TemplateCandidates) :
                 HasQuery(Filled(<< >>, TemplateCandidates), TemplateCandidates[m].query)
        BY <1>5, <3>1, <4>1, FilledRounds
      <4> QED BY <2>1, <4>2
    <3>3. ASSUME NEW m \in 1..Len(TemplateCandidates) PROVE HasLevel(candidates', TemplateCandidates[m].level)
      <4>1. PICK i \in DOMAIN candidates' : candidates'[i].query = TemplateCandidates[m].query
        BY <3>2 DEF HasQuery
      <4>2. candidates'[i] \in S /\ TemplateCandidates[m] \in S
        BY <1>5, <3>2
      <4>3. candidates'[i].level = TemplateCandidates[m].level
        BY <1>4, <4>1, <4>2
      <4> QED BY <4>3 DEF HasLevel
    <3> QED BY <3>2, <3>3
  <2>2. ASSUME NEW answered \in SUBSET DOMAIN specs, NEW answer \in [answered -> Answers],
               candidates' = Merged(LlmCandidates(request, [i \in DOMAIN specs |->
                                      IF i \in answered THEN answer[i] ELSE << >>]), TemplateCandidates)
        PROVE  /\ candidates' \in Seq(S) /\ Len(candidates') <= MaxSkeletons
               /\ \A m \in 1..Len(TemplateCandidates) : HasLevel(candidates', TemplateCandidates[m].level)
    <3> DEFINE answers == [i \in DOMAIN specs |-> IF i \in answered THEN answer[i] ELSE << >>]
    <3>1. answers \in [DOMAIN specs -> Seq(Rewritings)]
      <4>1. \A i \in answered : answer[i] \in Seq(Rewritings)
        <5>1. Answers \subseteq Seq(Rewritings)
          BY SampleAssumption
        <5> QED BY <2>2, <5>1
      <4>2. << >> \in Seq(Rewritings)
        OBVIOUS
      <4>3. \A i \in DOMAIN specs : answers[i] \in Seq(Rewritings)
        BY <4>1, <4>2
      <4> QED BY <4>3
    <3> HIDE DEF answers
    <3>2. LlmCandidates(request, answers) \in Seq(S)
      BY <1>2, <3>1, LlmCandidatesFit DEF S, A
    <3>3. candidates' = Merged(LlmCandidates(request, answers), TemplateCandidates)
      BY <2>2 DEF answers
    <3> QED BY <1>3, <1>4, <1>5, <3>2, <3>3, MergedRounds
  <2>3. \/ candidates' = Filled(<< >>, TemplateCandidates)
        \/ \E answered \in SUBSET DOMAIN specs : \E answer \in [answered -> Answers] :
             candidates' = Merged(LlmCandidates(request, [i \in DOMAIN specs |->
                                    IF i \in answered THEN answer[i] ELSE << >>]), TemplateCandidates)
    BY DEF Instantiate
  <2> QED BY <2>1, <2>2, <2>3
<1>7. candidates' \in Seq(CandidatesAt(request.schema, LevelSet))
  <2>1. S \subseteq CandidatesAt(request.schema, LevelSet)
    BY <1>3 DEF S, CandidatesAt
  <2> QED BY <1>6, <2>1, SeqMonotonic
<1>8. Typed'
  BY <1>1, <1>6, <1>7 DEF Typed
<1>9. LevelsSurvive'
  <2> SUFFICES ASSUME NEW i \in DOMAIN specs PROVE CountOf(candidates', specs[i].level) > 0
    BY <1>1 DEF LevelsSurvive
  <2>1. i \in 1..Len(TemplateCandidates) /\ TemplateCandidates[i].level = specs[i].level
    BY <1>2, <1>5
  <2>2. HasLevel(candidates', specs[i].level)
    BY <1>6, <2>1
  <2> QED BY <1>6, <2>2, CountLevels
<1> QED BY <1>1, <1>8, <1>9 DEF IInv, Kept, ValidatedFollowsSchema, TargetsMet

LEMMA ValidateIInv == IInv /\ Validate => IInv'
<1> SUFFICES ASSUME IInv, Validate PROVE IInv'
  OBVIOUS
<1> DEFINE C == CandidatesAt(request.schema, LevelSet)
           Good == {c \in C : Follows(request.schema, c)}
<1>1. /\ Typed /\ stage' = "questions" /\ UNCHANGED <<request, specs, samples, released>>
      /\ candidates \in Seq(C) /\ Len(candidates) <= MaxSkeletons /\ MaxSkeletons \in Nat
      /\ SchemaOK(request.schema)
  BY SampleAssumption DEF IInv, Validate, Typed, RequestOK
<1>2. PICK kept \in SUBSET {i \in DOMAIN candidates : Valid(request.schema, candidates[i])} :
        candidates' = Selected(candidates, kept)
  BY DEF Validate
<1>3. kept \in SUBSET DOMAIN candidates /\ \A i \in kept : candidates[i] \in Good
  <2> SUFFICES ASSUME NEW i \in kept PROVE candidates[i] \in Good
    OBVIOUS
  <2>1. Valid(request.schema, candidates[i]) /\ candidates[i] \in C
    <3> HIDE DEF C
    <3> QED BY <1>1
  <2>2. Follows(request.schema, candidates[i])
    <3>1. LevelSet \in SUBSET LevelSet
      OBVIOUS
    <3> QED BY <1>1, <2>1, <3>1, CandidateFacts
  <2> HIDE DEF C
  <2> QED BY <2>1, <2>2
<1> HIDE DEF Good, C
<1>4. candidates' \in Seq(Good)
  BY <1>1, <1>2, <1>3, SelectedIn
<1>5. candidates' \in Seq(C) /\ Len(candidates') <= MaxSkeletons
  <2>1. /\ Selected(candidates, kept) \in Seq(C) /\ Len(Selected(candidates, kept)) = Cardinality(kept)
        /\ Cardinality(kept) \in Nat /\ Cardinality(kept) <= Len(candidates)
    BY <1>1, <1>3, SelectedPlaces
  <2>2. Len(candidates) \in Nat
    BY <1>1
  <2> QED BY <1>1, <1>2, <2>1, <2>2
<1>6. ValidatedFollowsSchema'
  <2>1. \A i \in DOMAIN candidates' : Follows(request.schema, candidates'[i])
    <3> SUFFICES ASSUME NEW i \in DOMAIN candidates' PROVE Follows(request.schema, candidates'[i])
      OBVIOUS
    <3>1. candidates'[i] \in Good
      BY <1>4
    <3> QED BY <3>1 DEF Good
  <2> QED BY <1>1, <2>1 DEF ValidatedFollowsSchema, Follows
<1>7. Typed'
  BY <1>1, <1>5 DEF Typed, C
<1> QED BY <1>1, <1>6, <1>7 DEF IInv, Kept, LevelsSurvive, TargetsMet

LEMMA ShortenIInv == IInv /\ Shorten => IInv'
<1> SUFFICES ASSUME IInv, Shorten PROVE IInv'
  OBVIOUS
<1> DEFINE sample(i) == [level |-> candidates[i].level, mode |-> candidates[i].mode,
                         canonical |-> FALSE, consistent |-> FALSE, fresh |-> FALSE]
           pool == [i \in DOMAIN candidates |-> sample(i)]
<1>1. /\ Typed /\ stage' = "ask" /\ specs' = << >> /\ candidates' = << >> /\ UNCHANGED released
      /\ request' = [request EXCEPT !.schema = [labels |-> << >>, edges |-> << >>, triplets |-> << >>], !.offset = 0]
      /\ samples' = Shortlist(pool, request.targets, request.count)
  BY DEF IInv, Shorten
<1>2. /\ candidates \in Seq(CandidatesAt(request.schema, LevelSet)) /\ SchemaOK(request.schema)
      /\ request.targets \in [LevelSet -> Nat] /\ request.count \in Nat
  BY <1>1 DEF Typed, RequestOK
<1>3. pool \in Seq(SampleSet)
  <2>1. ASSUME NEW i \in DOMAIN candidates PROVE sample(i) \in SampleSet
    <3>1. candidates[i] \in CandidatesAt(request.schema, LevelSet) /\ LevelSet \in SUBSET LevelSet
      BY <1>2
    <3>2. candidates[i].level \in LevelSet /\ candidates[i].mode \in {"template", "llm_direct"}
      BY <1>2, <3>1, CandidateFacts
    <3> QED BY <3>2 DEF SampleSet
  <2>2. DOMAIN candidates = 1..Len(candidates) /\ Len(candidates) \in Nat
    BY <1>2
  <2> HIDE DEF sample
  <2> QED BY <2>1, <2>2
<1> HIDE DEF pool
<1>4. samples' \in Seq(SampleSet)
  BY <1>1, <1>2, <1>3, ShortlistIn
<1>5. \A S : << >> \in Seq(S)
  OBVIOUS
<1>6. RequestOK(request') /\ request'.targets = request.targets /\ request'.count = request.count
  <2>1. /\ request'.schema = [labels |-> << >>, edges |-> << >>, triplets |-> << >>] /\ request'.offset = 0
        /\ request'.targets = request.targets /\ request'.count = request.count
        /\ DOMAIN request' = {"schema", "targets", "offset", "count"}
    BY <1>1 DEF Typed, RequestOK
  <2> QED BY <1>2, <1>5, <2>1 DEF RequestOK, SchemaOK
<1>7. Typed'
  <2>1. Len(<< >>) = 0 /\ MaxSkeletons \in Nat
    BY SampleAssumption
  <2> QED BY <1>1, <1>4, <1>5, <1>6, <2>1 DEF Typed
<1> QED BY <1>1, <1>7 DEF IInv, Kept, LevelsSurvive, ValidatedFollowsSchema, TargetsMet

LEMMA AskIInv == IInv /\ Ask => IInv'
<1> SUFFICES ASSUME IInv, Ask PROVE IInv'
  OBVIOUS
<1>1. /\ Typed /\ stage' = "roundtrip" /\ UNCHANGED <<request, specs, candidates, released>>
      /\ samples \in Seq(SampleSet)
  BY DEF IInv, Ask, Typed
<1>2. PICK canonical \in SUBSET DOMAIN samples, consistent \in SUBSET DOMAIN samples, fresh \in SUBSET DOMAIN samples :
        samples' = [i \in DOMAIN samples |->
          [samples[i] EXCEPT !.canonical = i \in canonical, !.consistent = i \in consistent, !.fresh = i \in fresh]]
  BY DEF Ask
<1>3. samples' \in Seq(SampleSet)
  <2> DEFINE asked(i) == [samples[i] EXCEPT !.canonical = i \in canonical, !.consistent = i \in consistent,
                                            !.fresh = i \in fresh]
  <2>1. ASSUME NEW i \in DOMAIN samples PROVE asked(i) \in SampleSet
    <3>1. samples[i] \in SampleSet
      BY <1>1
    <3>2. \A a, b, c \in BOOLEAN : [samples[i] EXCEPT !.canonical = a, !.consistent = b, !.fresh = c] \in SampleSet
      BY <3>1 DEF SampleSet
    <3>3. (i \in canonical) \in BOOLEAN /\ (i \in consistent) \in BOOLEAN /\ (i \in fresh) \in BOOLEAN
      OBVIOUS
    <3> QED BY <3>2, <3>3
  <2>2. DOMAIN samples = 1..Len(samples) /\ Len(samples) \in Nat
    BY <1>1
  <2>3. samples' = [i \in DOMAIN samples |-> asked(i)]
    BY <1>2
  <2> HIDE DEF asked
  <2> QED BY <2>1, <2>2, <2>3
<1>4. Typed'
  BY <1>1, <1>3 DEF Typed
<1> QED BY <1>1, <1>4 DEF IInv, Kept, LevelsSurvive, ValidatedFollowsSchema, TargetsMet

LEMMA RoundtripIInv == IInv /\ Roundtrip => IInv'
<1> SUFFICES ASSUME IInv, Roundtrip PROVE IInv'
  OBVIOUS
<1>1. /\ Typed /\ stage' = "release" /\ UNCHANGED <<request, specs, candidates, samples>>
      /\ released' = ApplyRoundtrip(samples, request.targets)
      /\ samples \in Seq(SampleSet) /\ request.targets \in [LevelSet -> Nat]
  BY DEF IInv, Roundtrip, Typed, RequestOK
<1>2. /\ released' \in Seq(SampleSet)
      /\ RoundtripRequired => released' \in Seq(Checked(samples, request.targets))
      /\ \A level : CountIn(samples, GoodOf(level)) <= CountIn(released', GoodOf(level))
  BY <1>1, RoundtripIs
<1>3. Typed' /\ Kept'
  BY <1>1, <1>2 DEF Typed, Kept
<1> QED BY <1>1, <1>3 DEF IInv, LevelsSurvive, ValidatedFollowsSchema, TargetsMet

\* Everything that a release takes is among what went through the round trip.
LEMMA ReleaseTakes ==
  ASSUME NEW S, S \subseteq SampleSet, NEW fresh \in Seq(S), RequestOK(request),
         Wanted(request.targets) # {} => request.count = Total(request.targets)
  PROVE  LET chosen == IF Wanted(request.targets) = {} THEN Picked(fresh, request.count, << >>)
                       ELSE ReleaseByLevel(fresh, request.targets)
             out == SubSeq(chosen, 1, Smaller(Len(chosen), request.count))
         IN /\ out \in Seq(S)
            /\ Wanted(request.targets) # {} => out = ReleaseByLevel(fresh, request.targets)
<1> DEFINE chosen == IF Wanted(request.targets) = {} THEN Picked(fresh, request.count, << >>)
                     ELSE ReleaseByLevel(fresh, request.targets)
           n == Smaller(Len(chosen), request.count)
<1>1. request.targets \in [LevelSet -> Nat] /\ request.count \in Nat
  BY DEF RequestOK
<1>2. /\ ReleaseByLevel(fresh, request.targets) \in Seq(S)
      /\ Len(ReleaseByLevel(fresh, request.targets)) <= Total(request.targets)
  BY <1>1, ReleaseRounds
<1>3. Picked(fresh, request.count, << >>) \in Seq(S)
  BY <1>1, PickedRounds
<1>4. chosen \in Seq(S)
  BY <1>2, <1>3
<1>5. Wanted(request.targets) # {} =>
        chosen = ReleaseByLevel(fresh, request.targets) /\ Len(chosen) <= request.count
  BY <1>2
<1> HIDE DEF chosen
<1>6. SubSeq(chosen, 1, n) \in Seq(S)
  BY <1>1, <1>4, CutOff
<1>7. ASSUME Len(chosen) <= request.count PROVE SubSeq(chosen, 1, n) = chosen
  <2>1. n = Len(chosen) /\ Len(chosen) \in Nat
    BY <1>1, <1>4, <1>7 DEF Smaller
  <2> HIDE DEF n
  <2> QED BY <1>4, <2>1
<1> QED BY <1>5, <1>6, <1>7 DEF chosen, n

LEMMA ReleaseIInv == IInv /\ Release => IInv'
<1> SUFFICES ASSUME IInv, Release PROVE IInv'
  OBVIOUS
<1> DEFINE keep == {i \in DOMAIN released : released[i].fresh}
           fresh == Selected(released, keep)
           targets == request.targets
           good(level) == {i \in DOMAIN samples : samples[i].level = level /\ Passed(samples[i]) /\ samples[i].fresh}
<1>1. /\ Typed /\ Kept /\ stage = "release" /\ stage' = "done" /\ UNCHANGED <<request, specs, candidates, samples>>
      /\ RequestOK(request) /\ targets \in [LevelSet -> Nat]
      /\ (Wanted(targets) # {} => request.count = Total(targets))
      /\ samples \in Seq(SampleSet) /\ released \in Seq(SampleSet)
  BY DEF IInv, Release, Typed, RequestOK
<1>2. keep \in SUBSET DOMAIN released
  OBVIOUS
<1>3. fresh \in Seq(SampleSet) /\ (RoundtripRequired => fresh \in Seq(Checked(samples, targets)))
  <2> HIDE DEF keep
  <2>1. \A S : released \in Seq(S) => fresh \in Seq(S)
    BY <1>2, SelectedPlaces
  <2> QED BY <1>1, <2>1 DEF Kept
<1>4. Checked(samples, targets) \subseteq SampleSet
  BY DEF Checked
<1>5. released' = LET chosen == IF Wanted(targets) = {} THEN Picked(fresh, request.count, << >>)
                                ELSE ReleaseByLevel(fresh, targets)
                  IN SubSeq(chosen, 1, Smaller(Len(chosen), request.count))
  BY DEF Release
<1> HIDE DEF fresh
<1>6. /\ released' \in Seq(SampleSet) /\ (RoundtripRequired => released' \in Seq(Checked(samples, targets)))
      /\ Wanted(targets) # {} => released' = ReleaseByLevel(fresh, targets)
  BY <1>1, <1>3, <1>4, <1>5, ReleaseTakes
<1>7. ASSUME NEW level \in Wanted(targets)
      PROVE  CountOf(released', level) >= Smaller(targets[level], Cardinality(good(level)))
  <2>1. level \in LevelSet /\ released' = ReleaseByLevel(fresh, targets)
    BY <1>6, LevelsAre DEF Wanted
  <2>2. Smaller(targets[level], CountOf(fresh, level)) <= CountOf(released', level)
    BY <1>1, <1>3, <2>1, ReleaseRounds
  <2>3. Cardinality(good(level)) <= CountOf(fresh, level)
    <3>1. Cardinality(good(level)) = CountIn(samples, GoodOf(level))
      <4>1. good(level) = {i \in DOMAIN samples : samples[i] \in GoodOf(level)}
        BY <1>1 DEF GoodOf
      <4> QED BY <4>1 DEF CountIn
    <3>2. CountIn(samples, GoodOf(level)) <= CountIn(released, GoodOf(level))
      BY <1>1 DEF Kept
    <3>3. CountIn(released, GoodOf(level)) <= Cardinality({i \in keep : released[i] \in At0(level)})
      <4> DEFINE A == {i \in DOMAIN released : released[i] \in GoodOf(level)}
                 B == {i \in keep : released[i] \in At0(level)}
      <4>1. A \in SUBSET B /\ B \in SUBSET DOMAIN released
        BY <1>1 DEF GoodOf, At0
      <4> HIDE DEF A, B
      <4>2. IsFiniteSet(B)
        BY <1>1, <4>1, SelectedPlaces
      <4>3. Cardinality(A) <= Cardinality(B)
        BY <4>1, <4>2, FS_Subset
      <4> QED BY <4>3 DEF A, B, CountIn
    <3>4. Cardinality({i \in keep : released[i] \in At0(level)}) <= CountIn(fresh, At0(level))
      <4> HIDE DEF keep
      <4> QED BY <1>1, <1>2, SelectedCounts DEF fresh
    <3>5. CountOf(fresh, level) = CountIn(fresh, At0(level))
      BY <1>3, CountOfIs
    <3>6. /\ CountIn(samples, GoodOf(level)) \in Nat /\ CountIn(released, GoodOf(level)) \in Nat
          /\ CountIn(fresh, At0(level)) \in Nat
      BY <1>1, <1>3, CountInType
    <3>7. Cardinality({i \in keep : released[i] \in At0(level)}) \in Nat
      <4> DEFINE B == {i \in keep : released[i] \in At0(level)}
      <4>1. B \in SUBSET DOMAIN released
        OBVIOUS
      <4> HIDE DEF B
      <4>2. Cardinality(B) \in Nat
        BY <1>1, <4>1, SelectedPlaces
      <4> QED BY <4>2 DEF B
    <3> HIDE DEF good, keep
    <3> QED BY <3>1, <3>2, <3>3, <3>4, <3>5, <3>6, <3>7
  <2>4. /\ targets[level] \in Nat /\ CountOf(fresh, level) \in Nat /\ CountOf(released', level) \in Nat
        /\ Cardinality(good(level)) \in Nat
    <3>1. targets[level] \in Nat
      BY <1>1, <2>1
    <3>2. CountOf(fresh, level) \in Nat /\ CountOf(released', level) \in Nat
      BY <1>3, <1>6, CountLevels
    <3>3. Cardinality(good(level)) \in Nat
      <4>1. good(level) = {i \in DOMAIN samples : samples[i] \in GoodOf(level)}
        BY <1>1 DEF GoodOf
      <4>2. Cardinality({i \in DOMAIN samples : samples[i] \in GoodOf(level)}) \in Nat
        BY <1>1, CountInType DEF CountIn
      <4> QED BY <4>1, <4>2
    <3> QED BY <3>1, <3>2, <3>3
  <2> HIDE DEF good
  <2> QED BY <2>2, <2>3, <2>4 DEF Smaller
<1>8. TargetsMet'
  BY <1>1, <1>7 DEF TargetsMet
<1>9. Typed' /\ Kept'
  BY <1>1, <1>6 DEF Typed, Kept
<1> QED BY <1>1, <1>8, <1>9 DEF IInv, LevelsSurvive, ValidatedFollowsSchema

\* The invariant is one: it holds at first, and every stage keeps it.
LEMMA IInvHolds == Spec => []IInv
<1>1. Init => IInv
  BY InitIInv
<1>2. IInv /\ [Next]_vars => IInv'
  <2> SUFFICES ASSUME IInv, [Next]_vars PROVE IInv'
    OBVIOUS
  <2>1. CASE BuildSpecs
    BY <2>1, BuildSpecsIInv
  <2>2. CASE Instantiate
    BY <2>2, InstantiateIInv
  <2>3. CASE Validate
    BY <2>3, ValidateIInv
  <2>4. CASE Shorten
    BY <2>4, ShortenIInv
  <2>5. CASE Ask
    BY <2>5, AskIInv
  <2>6. CASE Roundtrip
    BY <2>6, RoundtripIInv
  <2>7. CASE Release
    BY <2>7, ReleaseIInv
  <2>8. CASE UNCHANGED vars
    BY <2>8 DEF vars, IInv, Typed, Kept, LevelsSurvive, ValidatedFollowsSchema, TargetsMet, TemplateCandidates
  <2> QED BY <2>1, <2>2, <2>3, <2>4, <2>5, <2>6, <2>7, <2>8 DEF Next
<1> QED BY <1>1, <1>2, PTL DEF Spec

-----------------------------------------------------------------------------
(* Theorems.                                                               *)

\* The levels of a request live as far as the candidates (CoverageService.build_specs,
\* GenerationService, _merge_llm_with_template_fallback): whatever the schema, the request
\* and the model's answers, every template of a spec is of the spec's level and its family
\* and binds what the schema has, and no level is pushed out.
THEOREM SpecsAreKept == Spec => []SpecsKept
<1>1. IInv => SpecsKept
  <2> SUFFICES ASSUME IInv PROVE SpecsKept
    OBVIOUS
  <2>1. Typed /\ LevelsSurvive
    BY DEF IInv
  <2>2. /\ specs \in Seq(SpecsFor(request.schema)) /\ candidates \in Seq(CandidatesAt(request.schema, LevelSet))
        /\ SchemaOK(request.schema) /\ released \in Seq(SampleSet)
    BY <2>1 DEF Typed, RequestOK
  <2>3. TypeOK
    <3>1. ASSUME NEW i \in DOMAIN specs PROVE specs[i].level \in ToSet(Levels) /\ specs[i].template \in 1..2
      <4>1. specs[i] \in SpecsFor(request.schema)
        BY <2>2
      <4> QED BY <4>1, LevelsAre DEF SpecsFor
    <3>2. ASSUME NEW i \in DOMAIN candidates
          PROVE  [level |-> candidates[i].level, mode |-> candidates[i].mode] \in Candidates
      <4>1. candidates[i] \in CandidatesAt(request.schema, LevelSet) /\ LevelSet \in SUBSET LevelSet
        BY <2>2
      <4>2. candidates[i].level \in LevelSet /\ candidates[i].mode \in {"template", "llm_direct"}
        BY <2>2, <4>1, CandidateFacts
      <4> QED BY <4>2, LevelsAre DEF Candidates
    <3>3. ASSUME NEW i \in DOMAIN released PROVE released[i].level \in ToSet(Levels)
      <4>1. released[i] \in SampleSet
        BY <2>2
      <4> QED BY <4>1, LevelsAre DEF SampleSet
    <3> QED BY <2>1, <3>1, <3>2, <3>3 DEF TypeOK, Typed
  <2>4. TemplatesFit
    <3> SUFFICES ASSUME NEW i \in DOMAIN specs
                 PROVE  LET c == Candidate(specs[i], "template", QueryOf(specs[i]))
                        IN /\ Classify(c.query) = c.level /\ FamilyValid(c)
                           /\ Binds(request.schema, c.level) => SchemaValid(request.schema, c)
      BY DEF TemplatesFit
    <3>1. specs[i] \in SpecsFor(request.schema)
      BY <2>2
    <3> QED BY <2>2, <3>1, TemplateCandidate DEF OfTemplate
  <2> QED BY <2>1, <2>3, <2>4 DEF SpecsKept
<1> QED BY <1>1, IInvHolds, PTL

\* What is left of the schema in a validated query (ValidationService,
\* _cypher_edges_follow_schema), for every schema and every rewriting: a template follows
\* it in every hop; a rewriting has edges that the schema knows, but for those with a
\* variable, and of two hops forwards in a row at least one follows it, as does the one
\* that a MATCH begins with.
THEOREM ValidatedFollows == Spec => []ValidatedFollowsSchema
<1>1. IInv => ValidatedFollowsSchema
  BY DEF IInv
<1> QED BY <1>1, IInvHolds, PTL

\* A release holds what was checked, and as much as was asked for or there is (_apply_roundtrip,
\* _select_release_batch): with the round trip required, what it refused is released only in a
\* level that would be short; and a level gets its target, or all its samples that passed
\* and are new.
THEOREM ReleaseIsKept == Spec => []ReleaseKept
<1>1. IInv => ReleaseKept
  <2> SUFFICES ASSUME IInv PROVE ReleaseKept
    OBVIOUS
  <2>1. Kept /\ TargetsMet
    BY DEF IInv
  <2>2. ReleasedIsChecked
    <3> SUFFICES ASSUME stage = "done", RoundtripRequired, NEW i \in DOMAIN released
                 PROVE  \/ Passed(released[i])
                        \/ /\ released[i].canonical
                           /\ CountOf(PassedOf(samples), released[i].level) < request.targets[released[i].level]
      BY DEF ReleasedIsChecked
    <3>1. released \in Seq(Checked(samples, request.targets))
      BY <2>1 DEF Kept
    <3>2. released[i] \in Checked(samples, request.targets)
      BY <3>1
    <3> QED BY <3>2 DEF Checked
  <2> QED BY <2>1, <2>2 DEF ReleaseKept
<1> QED BY <1>1, IInvHolds, PTL
=============================================================================
