--------------------------- MODULE DataInduction ---------------------------
(***************************************************************************)
(* Induction and recursion without operator parameters: a property is the  *)
(* set of the values that have it, and the step of a recursive definition  *)
(* is a function. The recursive functions of the model, and its folds over *)
(* sets and sequences, are reasoned about with these facts.                *)
(***************************************************************************)
EXTENDS Subsequence, Functions, FiniteSetsExt, FiniteSetTheorems,
        WellFoundedInduction, TLAPS

\* A nonempty set of natural numbers has a least element.
LEMMA LeastNat ==
  ASSUME NEW T \in SUBSET Nat, T # {}
  PROVE  \E n \in T : \A m \in T : n <= m
  <1> DEFINE R == {p \in Nat \X Nat : p[1] < p[2]}
  <1>1. IsWellFoundedOn(R, Nat)
    BY NatLessThanWellFounded DEF OpToRel
  <1> HIDE DEF R
  <1>2. PICK n \in T : \A m \in T : ~(<<m, n>> \in R)
    BY <1>1, WFMin
  <1>3. \A m \in T : <<m, n>> \in R <=> m < n
    BY DEF R
  <1>4. \A m \in T : n \in Nat /\ m \in Nat /\ ~(m < n)
    BY <1>2, <1>3
  <1>5. \A m \in T : n <= m
    BY <1>4
  <1> QED
    BY <1>5

\* Induction over the natural numbers, for the set of the numbers with the property.
LEMMA NatSetInduction ==
  ASSUME NEW T, 0 \in T, \A n \in Nat : n \in T => n + 1 \in T
  PROVE  \A n \in Nat : n \in T
  <1> SUFFICES ASSUME Nat \ T # {} PROVE FALSE
    OBVIOUS
  <1>1. PICK n \in Nat \ T : \A m \in Nat \ T : n <= m
    BY LeastNat
  <1>2. n - 1 \in Nat /\ n - 1 \notin T /\ ~(n <= n - 1)
    BY <1>1
  <1> QED
    BY <1>1, <1>2

\* The same up to a bound.
LEMMA UpToInduction ==
  ASSUME NEW n \in Nat, NEW T, 0 \in T, \A i \in 0 .. n - 1 : i \in T => i + 1 \in T
  PROVE  \A i \in 0 .. n : i \in T
  <1> DEFINE U == {i \in Nat : i <= n => i \in T}
  <1>1. 0 \in U
    OBVIOUS
  <1>2. \A i \in Nat : i \in U => i + 1 \in U
    OBVIOUS
  <1> HIDE DEF U
  <1>3. \A i \in Nat : i \in U
    BY <1>1, <1>2, NatSetInduction
  <1> QED
    BY <1>3 DEF U

\* Induction over the subsets of a finite set, one element at a time.
LEMMA SubsetInduction ==
  ASSUME NEW S, IsFiniteSet(S), NEW T, {} \in T,
         \A s \in SUBSET S : s # {} /\ (\A x \in s : s \ {x} \in T) => s \in T
  PROVE  \A s \in SUBSET S : s \in T
  <1> DEFINE N == {n \in Nat : \A s \in SUBSET S : Cardinality(s) = n => s \in T}
  <1>1. \A s \in SUBSET S : IsFiniteSet(s) /\ Cardinality(s) \in Nat
    BY FS_Subset, FS_CardinalityType
  <1>2. 0 \in N
    <2>1. \A s \in SUBSET S : Cardinality(s) = 0 => s = {}
      BY <1>1, FS_EmptySet
    <2> QED
      BY <2>1
  <1>3. \A n \in Nat : n \in N => n + 1 \in N
    <2> SUFFICES ASSUME NEW n \in Nat, n \in N, NEW s \in SUBSET S, Cardinality(s) = n + 1
                 PROVE  s \in T
      OBVIOUS
    <2>1. s # {}
      BY FS_EmptySet
    <2>2. ASSUME NEW x \in s PROVE s \ {x} \in T
      <3>1. Cardinality(s \ {x}) = n
        BY <1>1, FS_RemoveElement
      <3> QED
        BY <3>1
    <2> QED
      BY <2>1, <2>2
  <1> HIDE DEF N
  <1>4. \A n \in Nat : n \in N
    BY <1>2, <1>3, NatSetInduction
  <1> QED
    BY <1>1, <1>4 DEF N

\* f is what the recursion over 0 .. n from base, whose step is a function of the index and of
\* the value before it, computes.
IsStep(step, n, V) == step \in [(1 .. n) \X V -> V]
RecUpTo(f, base, step, n, V) ==
  /\ f \in [0 .. n -> V] /\ f[0] = base
  /\ \A i \in 1 .. n : f[i] = step[<<i, f[i - 1]>>]

\* Such a recursion has a solution.
LEMMA UpToRecursion ==
  ASSUME NEW V, NEW base \in V, NEW n \in Nat, NEW step, IsStep(step, n, V)
  PROVE  \E f : RecUpTo(f, base, step, n, V)
  <1> USE DEF IsStep
  <1> DEFINE Solves(f, m) == f[0] = base /\ \A i \in 1 .. m : f[i] = step[<<i, f[i - 1]>>]
             T == {m \in Nat : \E f \in [0 .. m -> V] : Solves(f, m)}
  <1>1. 0 \in T
    <2> DEFINE f == [i \in 0 .. 0 |-> base]
    <2>1. f \in [0 .. 0 -> V] /\ Solves(f, 0)
      OBVIOUS
    <2> QED
      BY <2>1
  <1>2. ASSUME NEW m \in 0 .. n - 1, m \in T PROVE m + 1 \in T
    <2>1. PICK f \in [0 .. m -> V] : Solves(f, m)
      BY <1>2
    <2> DEFINE g == [i \in 0 .. m + 1 |-> IF i <= m THEN f[i] ELSE step[<<m + 1, f[m]>>]]
    <2>2. f[m] \in V /\ m + 1 \in 1 .. n /\ step[<<m + 1, f[m]>>] \in V
      OBVIOUS
    <2>3. g \in [0 .. m + 1 -> V]
      BY <2>2
    <2>4. g[0] = base
      BY <2>1
    <2>5. ASSUME NEW i \in 1 .. m + 1 PROVE g[i] = step[<<i, g[i - 1]>>]
      <3>1. CASE i <= m
        <4>1. g[i] = f[i] /\ g[i - 1] = f[i - 1] /\ i \in 1 .. m
          BY <3>1
        <4> QED
          BY <2>1, <4>1
      <3>2. CASE i = m + 1
        <4>1. i - 1 = m /\ g[i - 1] = f[m] /\ g[i] = step[<<m + 1, f[m]>>]
          BY <3>2
        <4> QED
          BY <3>2, <4>1
      <3> QED
        BY <3>1, <3>2
    <2> HIDE DEF g
    <2> QED
      BY <2>3, <2>4, <2>5
  <1> HIDE DEF T
  <1>3. n \in T
    BY <1>1, <1>2, UpToInduction
  <1>4. PICK f \in [0 .. n -> V] : Solves(f, n)
    BY <1>3 DEF T
  <1>5. RecUpTo(f, base, step, n, V)
    BY <1>4 DEF RecUpTo
  <1> QED
    BY <1>5

\* The same for a recursion over the subsets of S that takes away the element pick names.
IsPick(pick, S) == pick \in [SUBSET S -> S] /\ \A s \in SUBSET S : s # {} => pick[s] \in s
IsSetStep(step, S, V) == step \in [S \X V -> V]
RecSubsets(f, base, step, pick, S, V) ==
  /\ f \in [SUBSET S -> V]
  /\ \A s \in SUBSET S :
       f[s] = IF s = {} THEN base ELSE step[<<pick[s], f[s \ {pick[s]}]>>]

\* A recursion over the subsets of a finite set, one element picked at a time, has a
\* solution.
LEMMA SubsetRecursion ==
  ASSUME NEW S, IsFiniteSet(S), NEW V, NEW base \in V, NEW step, IsSetStep(step, S, V),
         NEW pick, IsPick(pick, S)
  PROVE  \E f : RecSubsets(f, base, step, pick, S, V)
  <1> USE DEF IsPick, IsSetStep
  <1> DEFINE n == Cardinality(S)
             W == [SUBSET S -> V]
             Level(w) == [s \in SUBSET S |-> IF s = {} THEN base
                                             ELSE step[<<pick[s], w[s \ {pick[s]}]>>]]
             up == [p \in (1 .. n) \X W |-> Level(p[2])]
             bottom == [s \in SUBSET S |-> base]
  <1>1. n \in Nat /\ bottom \in W
    BY FS_CardinalityType
  <1>2. ASSUME NEW w \in W PROVE Level(w) \in W
    <2>1. ASSUME NEW s \in SUBSET S, s # {}
          PROVE  step[<<pick[s], w[s \ {pick[s]}]>>] \in V
      <3>1. pick[s] \in S /\ s \ {pick[s]} \in SUBSET S
        BY <2>1
      <3> QED
        BY <3>1
    <2> QED
      BY <2>1
  <1>3. IsStep(up, n, W)
    BY <1>2 DEF IsStep
  <1> HIDE DEF n, W, up, bottom
  <1>4. PICK g : RecUpTo(g, bottom, up, n, W)
    BY <1>1, <1>3, UpToRecursion
  <1>5. ASSUME NEW i \in 1 .. n PROVE g[i] = Level(g[i - 1])
    <2>1. i - 1 \in 0 .. n
      BY <1>1
    <2>2. g[i - 1] \in W
      BY <1>4, <2>1 DEF RecUpTo
    <2>3. <<i, g[i - 1]>> \in (1 .. n) \X W
      BY <2>2
    <2>4. up[<<i, g[i - 1]>>] = Level(g[i - 1])
      BY <2>3 DEF up
    <2> QED
      BY <1>4, <2>4 DEF RecUpTo
  <1>6. \A s \in SUBSET S : IsFiniteSet(s) /\ Cardinality(s) \in 0 .. n
    BY FS_CardinalityType, FS_Subset, FS_CardinalityType, <1>1 DEF n
  <1> DEFINE f == [s \in SUBSET S |-> g[Cardinality(s)][s]]
  <1>7. f \in [SUBSET S -> V]
    BY <1>4, <1>6 DEF W, RecUpTo
  <1>8. ASSUME NEW s \in SUBSET S
        PROVE  f[s] = IF s = {} THEN base ELSE step[<<pick[s], f[s \ {pick[s]}]>>]
    <2>1. CASE s = {}
      BY <2>1, <1>4, FS_EmptySet DEF bottom, RecUpTo
    <2>2. CASE s # {}
      <3> DEFINE r == s \ {pick[s]}
      <3>1. pick[s] \in s /\ r \in SUBSET S
        BY <2>2
      <3>2. Cardinality(r) = Cardinality(s) - 1
        BY <1>6, <3>1, FS_RemoveElement
      <3>3. Cardinality(s) \in 1 .. n
        BY <1>6, <1>1, <3>1, <3>2
      <3>4. g[Cardinality(s)][s] = step[<<pick[s], g[Cardinality(s) - 1][r]>>]
        <4>1. g[Cardinality(s)] = Level(g[Cardinality(s) - 1])
          BY <1>5, <3>3
        <4> QED
          BY <2>2, <4>1
      <3> QED
        BY <2>2, <3>1, <3>2, <3>4
    <2> QED
      BY <2>1, <2>2
  <1>9. RecSubsets(f, base, step, pick, S, V)
    BY <1>7, <1>8 DEF RecSubsets
  <1> QED
    BY <1>9

-----------------------------------------------------------------------------
(***************************************************************************)
(* Sums over finite sets, MapThenSumSet of FiniteSetsExt, which adds the   *)
(* values of the elements one CHOOSE at a time.                            *)
(***************************************************************************)

\* g[s] is the sum of p over s, for the subsets s of S.
SumsOver(g, p, S) ==
  /\ g \in [SUBSET S -> Nat]
  /\ g[{}] = 0
  /\ \A s \in SUBSET S :
       s # {} => g[s] = p[CHOOSE x \in s : TRUE] + g[s \ {CHOOSE x \in s : TRUE}]

\* Such sums exist.
LEMMA SumSolved ==
  ASSUME NEW S, IsFiniteSet(S), NEW p \in [S -> Nat]
  PROVE  \E g : SumsOver(g, p, S)
  <1>1. CASE S = {}
    <2> DEFINE g == [s \in SUBSET S |-> 0]
    <2>1. g \in [SUBSET S -> Nat] /\ g[{}] = 0 /\ \A s \in SUBSET S : s = {}
      BY <1>1
    <2>2. SumsOver(g, p, S)
      BY <2>1 DEF SumsOver
    <2> QED
      BY <2>2
  <1>2. CASE S # {}
    <2> DEFINE step == [q \in S \X Nat |-> p[q[1]] + q[2]]
               pick == [s \in SUBSET S |-> IF s = {} THEN CHOOSE x \in S : TRUE
                                                     ELSE CHOOSE x \in s : TRUE]
    <2>1. IsSetStep(step, S, Nat)
      BY DEF IsSetStep
    <2>2. IsPick(pick, S)
      <3>1. \A s \in SUBSET S : s # {} => (CHOOSE x \in s : TRUE) \in s
        OBVIOUS
      <3> QED
        BY <1>2, <3>1 DEF IsPick
    <2> HIDE DEF step, pick
    <2>3. PICK g : RecSubsets(g, 0, step, pick, S, Nat)
      BY <2>1, <2>2, SubsetRecursion
    <2>4. ASSUME NEW s \in SUBSET S, s # {}
          PROVE  g[s] = p[CHOOSE x \in s : TRUE] + g[s \ {CHOOSE x \in s : TRUE}]
      <3> DEFINE c == CHOOSE x \in s : TRUE
      <3>1. pick[s] = c /\ c \in S
        BY <2>4 DEF pick
      <3> HIDE DEF c
      <3>2. g[s] = step[<<c, g[s \ {c}]>>]
        BY <2>3, <2>4, <3>1 DEF RecSubsets
      <3>3. g[s \ {c}] \in Nat
        BY <2>3 DEF RecSubsets
      <3>4. step[<<c, g[s \ {c}]>>] = p[c] + g[s \ {c}]
        BY <3>1, <3>3 DEF step
      <3> QED
        BY <3>2, <3>4 DEF c
    <2>5. g \in [SUBSET S -> Nat] /\ g[{}] = 0
      BY <2>3 DEF RecSubsets
    <2>6. SumsOver(g, p, S)
      BY <2>4, <2>5 DEF SumsOver
    <2> QED
      BY <2>6
  <1> QED
    BY <1>1, <1>2

\* Any element may be the one that is taken out.
TakesOutAny(g, p, S) == \A s \in SUBSET S : \A x \in s : g[s] = p[x] + g[s \ {x}]

\* The order of adding does not matter.
LEMMA SumTakesOut ==
  ASSUME NEW S, IsFiniteSet(S), NEW p \in [S -> Nat], NEW g, SumsOver(g, p, S)
  PROVE  TakesOutAny(g, p, S)
  <1> DEFINE T == {s \in SUBSET S : \A x \in s : g[s] = p[x] + g[s \ {x}]}
  <1>1. {} \in T
    OBVIOUS
  <1>2. ASSUME NEW s \in SUBSET S, s # {}, \A x \in s : s \ {x} \in T PROVE s \in T
    <2> SUFFICES ASSUME NEW x \in s PROVE g[s] = p[x] + g[s \ {x}]
      OBVIOUS
    <2> DEFINE c == CHOOSE y \in s : TRUE
    <2>1. c \in s /\ g[s] = p[c] + g[s \ {c}]
      BY <1>2 DEF SumsOver
    <2> HIDE DEF c
    <2>2. CASE x = c
      BY <2>1, <2>2
    <2>3. CASE x # c
      <3>1. g[s \ {c}] = p[x] + g[(s \ {c}) \ {x}]
        BY <1>2, <2>1, <2>3
      <3>2. g[s \ {x}] = p[c] + g[(s \ {x}) \ {c}]
        BY <1>2, <2>1, <2>3
      <3>3. (s \ {x}) \ {c} = (s \ {c}) \ {x}
        OBVIOUS
      <3>4. g[(s \ {c}) \ {x}] \in Nat /\ p[x] \in Nat /\ p[c] \in Nat
        BY <2>1 DEF SumsOver
      <3> DEFINE rest == g[(s \ {c}) \ {x}]
      <3>5. g[s] = p[c] + (p[x] + rest) /\ g[s \ {x}] = p[c] + rest
        BY <2>1, <3>1, <3>2, <3>3
      <3> HIDE DEF rest
      <3>6. rest \in Nat
        BY <3>4 DEF rest
      <3> QED
        BY <3>4, <3>5, <3>6
    <2> QED
      BY <2>2, <2>3
  <1> HIDE DEF T
  <1>3. \A s \in SUBSET S : s \in T
    BY <1>1, <1>2, SubsetInduction
  <1> QED
    BY <1>3 DEF T, TakesOutAny

\* A sum over more is at least as large.
LEMMA SumMonotone ==
  ASSUME NEW S, IsFiniteSet(S), NEW p \in [S -> Nat], NEW g, SumsOver(g, p, S)
  PROVE  \A t \in SUBSET S : \A s \in SUBSET t : g[s] <= g[t]
  <1> DEFINE T == {t \in SUBSET S : \A s \in SUBSET t : g[s] <= g[t]}
  <1>0. g \in [SUBSET S -> Nat]
    BY DEF SumsOver
  <1>1. {} \in T
    <2>1. \A s \in SUBSET {} : s = {}
      OBVIOUS
    <2>2. g[{}] \in Nat
      BY <1>0
    <2> QED
      BY <2>1, <2>2
  <1>2. ASSUME NEW t \in SUBSET S, t # {}, \A x \in t : t \ {x} \in T PROVE t \in T
    <2> SUFFICES ASSUME NEW s \in SUBSET t PROVE g[s] <= g[t]
      OBVIOUS
    <2>1. CASE s = t
      BY <1>0, <2>1
    <2>2. CASE s # t
      <3>1. PICK x \in t : x \notin s
        BY <2>2
      <3>2. g[t] = p[x] + g[t \ {x}]
        BY <3>1, SumTakesOut DEF TakesOutAny
      <3>3. g[s] <= g[t \ {x}]
        BY <1>2, <3>1
      <3>4. g[t \ {x}] \in Nat /\ g[s] \in Nat /\ p[x] \in Nat
        BY <1>0, <3>1
      <3> QED
        BY <3>2, <3>3, <3>4
    <2> QED
      BY <2>1, <2>2
  <1> HIDE DEF T
  <1>3. \A s \in SUBSET S : s \in T
    BY <1>1, <1>2, SubsetInduction
  <1> QED
    BY <1>3 DEF T

\* The sum of the values of a function.
SumOf(p, S) == MapThenSumSet(LAMBDA r : p[r], S)

\* The sum of a function is that of any way to add its values.
LEMMA SumIs ==
  ASSUME NEW S, IsFiniteSet(S), NEW p \in [S -> Nat], NEW g, SumsOver(g, p, S)
  PROVE  SumOf(p, S) = g[S]
  <1> DEFINE Good(f) == f = [s \in SUBSET S |-> IF s = {} THEN 0
                               ELSE p[CHOOSE x \in s : TRUE] + f[s \ {CHOOSE x \in s : TRUE}]]
  <1>1. SumOf(p, S) = (CHOOSE f : Good(f))[S]
    BY DEF SumOf, MapThenSumSet, MapThenFoldSet
  <1>2. Good(g)
    BY DEF SumsOver
  <1>3. \A f : Good(f) => DOMAIN f = SUBSET S /\ \A s \in SUBSET S : s # {} =>
           f[s] = p[CHOOSE x \in s : TRUE] + f[s \ {CHOOSE x \in s : TRUE}]
    OBVIOUS
  <1>4. \A f : Good(f) => f[{}] = 0
    OBVIOUS
  <1> HIDE DEF Good
  <1>5. PICK f : f = CHOOSE x : Good(x)
    OBVIOUS
  <1>6. Good(f)
    BY <1>2, <1>5
  <1> DEFINE T == {s \in SUBSET S : f[s] = g[s]}
  <1>7. {} \in T
    BY <1>4, <1>6 DEF SumsOver
  <1>8. ASSUME NEW s \in SUBSET S, s # {}, \A x \in s : s \ {x} \in T PROVE s \in T
    <2> DEFINE c == CHOOSE x \in s : TRUE
    <2>1. c \in s
      BY <1>8
    <2>2. f[s] = p[c] + f[s \ {c}]
      BY <1>3, <1>6, <1>8
    <2>3. g[s] = p[c] + g[s \ {c}]
      BY <1>8 DEF SumsOver
    <2> HIDE DEF c
    <2>4. f[s \ {c}] = g[s \ {c}]
      BY <1>8, <2>1
    <2> QED
      BY <2>2, <2>3, <2>4
  <1> HIDE DEF T
  <1>9. \A s \in SUBSET S : s \in T
    BY <1>7, <1>8, SubsetInduction
  <1>10. S \in T
    BY <1>9
  <1> QED
    BY <1>1, <1>5, <1>10 DEF T

\* A sum is at least each of its terms.
LEMMA SumAtLeast ==
  ASSUME NEW S, IsFiniteSet(S), NEW p \in [S -> Nat], NEW x \in S
  PROVE  SumOf(p, S) \in Nat /\ p[x] <= SumOf(p, S)
  <1>1. PICK g : SumsOver(g, p, S)
    BY SumSolved
  <1>2. SumOf(p, S) = g[S]
    BY <1>1, SumIs
  <1>3. g[S] = p[x] + g[S \ {x}]
    BY <1>1, SumTakesOut DEF TakesOutAny
  <1>4. g[S] \in Nat /\ g[S \ {x}] \in Nat /\ p[x] \in Nat
    BY <1>1 DEF SumsOver
  <1> QED
    BY <1>2, <1>3, <1>4

\* Sums of the same values are the same.
LEMMA SumSame ==
  ASSUME NEW p, NEW q, NEW S, \A x \in S : p[x] = q[x]
  PROVE  SumOf(p, S) = SumOf(q, S)
  <1> DEFINE A(f) == f = [s \in SUBSET S |-> IF s = {} THEN 0
                            ELSE p[CHOOSE x \in s : TRUE] + f[s \ {CHOOSE x \in s : TRUE}]]
             B(f) == f = [s \in SUBSET S |-> IF s = {} THEN 0
                            ELSE q[CHOOSE x \in s : TRUE] + f[s \ {CHOOSE x \in s : TRUE}]]
  <1>1. SumOf(p, S) = (CHOOSE f : A(f))[S] /\ SumOf(q, S) = (CHOOSE f : B(f))[S]
    BY DEF SumOf, MapThenSumSet, MapThenFoldSet
  <1>2. ASSUME NEW f PROVE A(f) <=> B(f)
    <2>1. ASSUME NEW s \in SUBSET S, s # {}
          PROVE  p[CHOOSE x \in s : TRUE] = q[CHOOSE x \in s : TRUE]
      <3>1. (CHOOSE x \in s : TRUE) \in S
        BY <2>1
      <3> QED
        BY <3>1
    <2> QED
      BY <2>1
  <1> HIDE DEF A, B
  <1>3. (CHOOSE f : A(f)) = (CHOOSE f : B(f))
    BY <1>2
  <1> QED
    BY <1>1, <1>3

-----------------------------------------------------------------------------
(***************************************************************************)
(* Folds over a sequence from its left, FoldLeft of SequencesExt, which    *)
(* recurs over the sets of indices. They are runs over the sequence.       *)
(***************************************************************************)

\* The step of a fold is a function of the value so far and of the next element;
\* g holds the value after each element.
IsSeqStep(step, V, F) == step \in [V \X F -> V]
IsRun(g, base, step, s, V) ==
  /\ g \in [0 .. Len(s) -> V] /\ g[0] = base
  /\ \A i \in 1 .. Len(s) : g[i] = step[<<g[i - 1], s[i]>>]

\* h is the function of sets of indices that FoldLeft defines, as far as values are in V.
FoldsBy(h, base, step, s, V) ==
  /\ h[{}] = base
  /\ \A T \in SUBSET (1 .. Len(s)) :
       T # {} /\ h[T \ {Max(T)}] \in V => h[T] = step[<<h[T \ {Max(T)}], s[Max(T)]>>]

\* A nonempty set of indices has a greatest one.
LEMMA MaxIndex ==
  ASSUME NEW n \in Nat
  PROVE  /\ IsFiniteSet(1 .. n)
         /\ \A T \in SUBSET (1 .. n) : T # {} => Max(T) \in T /\ \A i \in T : i <= Max(T)
         /\ \A i \in 1 .. n : Max(1 .. i) = i
  <1>1. ASSUME NEW T \in SUBSET (1 .. n), T # {} PROVE \E m \in T : \A i \in T : m >= i
    <2> DEFINE U == {k \in Nat : n - k \in T}
    <2>1. U # {}
      <3>1. PICK i \in T : TRUE
        BY <1>1
      <3>2. n - i \in Nat /\ n - (n - i) = i
        BY <3>1
      <3> QED
        BY <3>1, <3>2
    <2>2. PICK k \in U : \A j \in U : k <= j
      BY <2>1, LeastNat
    <2>3. ASSUME NEW i \in T PROVE n - k >= i
      <3>1. n - i \in U
        <4>1. n - i \in Nat /\ n - (n - i) = i
          OBVIOUS
        <4> QED
          BY <4>1
      <3> QED
        BY <2>2, <3>1
    <2> QED
      BY <2>2, <2>3
  <1>2. ASSUME NEW T \in SUBSET (1 .. n), T # {}
        PROVE  Max(T) \in T /\ \A i \in T : i <= Max(T)
    <2>1. Max(T) \in T /\ \A i \in T : Max(T) >= i
      BY <1>1, <1>2 DEF Max
    <2> QED
      BY <2>1
  <1>3. ASSUME NEW i \in 1 .. n PROVE Max(1 .. i) = i
    <2>1. 1 .. i \in SUBSET (1 .. n) /\ i \in 1 .. i
      OBVIOUS
    <2>2. Max(1 .. i) \in 1 .. i /\ i <= Max(1 .. i)
      BY <1>2, <2>1
    <2> QED
      BY <2>2
  <1>4. IsFiniteSet(1 .. n)
    <2>1. \A a, b \in Int : IsFiniteSet(a .. b)
      BY FS_Interval
    <2>2. 1 \in Int /\ n \in Int
      OBVIOUS
    <2> QED
      BY <2>1, <2>2, Zenon
  <1> QED
    BY <1>2, <1>3, <1>4

\* What FoldLeft computes is the last value of a run.
LEMMA SeqFoldRun ==
  ASSUME NEW F, NEW s \in Seq(F), NEW V, NEW base \in V, NEW step, IsSeqStep(step, V, F),
         NEW h, FoldsBy(h, base, step, s, V)
  PROVE  \E g : IsRun(g, base, step, s, V) /\ g[Len(s)] = h[1 .. Len(s)]
  <1> DEFINE n == Len(s)
             T == {t \in SUBSET (1 .. n) : h[t] \in V}
             g == [i \in 0 .. n |-> h[1 .. i]]
  <1>1. n \in Nat /\ \A i \in 1 .. n : s[i] \in F
    OBVIOUS
  <1>a. \A t \in SUBSET (1 .. n) : t # {} /\ h[t \ {Max(t)}] \in V =>
          h[t] = step[<<h[t \ {Max(t)}], s[Max(t)]>>]
    BY DEF FoldsBy
  <1> HIDE DEF n
  <1>2. {} \in T
    BY DEF FoldsBy
  <1>3. ASSUME NEW t \in SUBSET (1 .. n), t # {}, \A x \in t : t \ {x} \in T PROVE t \in T
    <2>1. Max(t) \in t /\ Max(t) \in 1 .. n
      BY <1>1, <1>3, MaxIndex
    <2>2. h[t \ {Max(t)}] \in V /\ s[Max(t)] \in F
      BY <1>1, <1>3, <2>1
    <2>3. h[t] = step[<<h[t \ {Max(t)}], s[Max(t)]>>]
      BY <1>a, <1>3, <2>2
    <2>4. step[<<h[t \ {Max(t)}], s[Max(t)]>>] \in V
      BY <2>2 DEF IsSeqStep
    <2> QED
      BY <2>3, <2>4
  <1>4. IsFiniteSet(1 .. n)
    BY <1>1, MaxIndex
  <1> HIDE DEF T
  <1>5. \A t \in SUBSET (1 .. n) : t \in T
    BY <1>2, <1>3, <1>4, SubsetInduction
  <1>6. \A i \in 0 .. n : h[1 .. i] \in V
    <2>1. \A i \in 0 .. n : 1 .. i \in SUBSET (1 .. n)
      BY <1>1
    <2> QED
      BY <1>5, <2>1 DEF T
  <1>7. 1 .. 0 = {}
    OBVIOUS
  <1>8. ASSUME NEW i \in 1 .. n PROVE h[1 .. i] = step[<<h[1 .. i - 1], s[i]>>]
    <2>1. 1 .. i \in SUBSET (1 .. n) /\ 1 .. i # {} /\ Max(1 .. i) = i
      BY <1>1, MaxIndex
    <2>2. (1 .. i) \ {i} = 1 .. i - 1
      OBVIOUS
    <2>3. h[1 .. i - 1] \in V
      BY <1>1, <1>6
    <2> QED
      BY <1>a, <2>1, <2>2, <2>3
  <1>9. g \in [0 .. n -> V] /\ g[0] = base /\ \A i \in 1 .. n : g[i] = step[<<g[i - 1], s[i]>>]
    BY <1>1, <1>6, <1>7, <1>8 DEF FoldsBy
  <1>10. g[n] = h[1 .. n]
    BY <1>1
  <1>11. \A f : f \in [0 .. n -> V] /\ f[0] = base
                /\ (\A i \in 1 .. n : f[i] = step[<<f[i - 1], s[i]>>]) =>
                  IsRun(f, base, step, s, V)
    BY DEF IsRun, n
  <1>12. IsRun(g, base, step, s, V) /\ g[n] = h[1 .. n]
    BY <1>9, <1>10, <1>11
  <1> HIDE DEF g
  <1> QED
    BY <1>12 DEF n

\* h is such a function, all its values in V.
SolvesFold(h, base, step, s, V) ==
  /\ h \in [SUBSET (1 .. Len(s)) -> V]
  /\ \A T \in SUBSET (1 .. Len(s)) :
       h[T] = IF T = {} THEN base ELSE step[<<h[T \ {Max(T)}], s[Max(T)]>>]

\* It exists.
LEMMA SeqFoldSolved ==
  ASSUME NEW F, NEW s \in Seq(F), NEW V, NEW base \in V, NEW step, IsSeqStep(step, V, F)
  PROVE  \E h : SolvesFold(h, base, step, s, V)
  <1> DEFINE n == Len(s)
             S == 1 .. n
             turn == [p \in S \X V |-> step[<<p[2], s[p[1]]>>]]
             pick == [T \in SUBSET S |-> IF T = {} THEN 1 ELSE Max(T)]
  <1>1. n \in Nat /\ \A i \in S : s[i] \in F
    OBVIOUS
  <1>2. CASE n = 0
    <2> DEFINE h == [T \in SUBSET S |-> base]
    <2>1. \A T \in SUBSET S : T = {}
      BY <1>2
    <2>2. h \in [SUBSET S -> V] /\ \A T \in SUBSET S : h[T] = base
      OBVIOUS
    <2>3. SolvesFold(h, base, step, s, V)
      BY <2>1, <2>2 DEF SolvesFold
    <2> QED
      BY <2>3
  <1>3. CASE n # 0
    <2>1. IsSetStep(turn, S, V)
      <3>1. ASSUME NEW p \in S \X V PROVE step[<<p[2], s[p[1]]>>] \in V
        BY <1>1 DEF IsSeqStep
      <3> QED
        BY <3>1 DEF IsSetStep
    <2>2. IsPick(pick, S) /\ IsFiniteSet(S)
      <3>1. IsFiniteSet(S) /\ \A T \in SUBSET S : T # {} => Max(T) \in T
        BY <1>1, MaxIndex
      <3>2. 1 \in S
        BY <1>1, <1>3
      <3> QED
        BY <3>1, <3>2 DEF IsPick
    <2> HIDE DEF S, turn, pick
    <2>3. PICK h : RecSubsets(h, base, turn, pick, S, V)
      BY <2>1, <2>2, SubsetRecursion
    <2>4. h \in [SUBSET S -> V]
      BY <2>3 DEF RecSubsets
    <2>5. ASSUME NEW T \in SUBSET S
          PROVE  h[T] = IF T = {} THEN base ELSE step[<<h[T \ {Max(T)}], s[Max(T)]>>]
      <3>1. CASE T = {}
        BY <2>3, <3>1 DEF RecSubsets
      <3>2. CASE T # {}
        <4>1. pick[T] = Max(T) /\ pick[T] \in S
          BY <2>2, <3>2 DEF pick, IsPick
        <4>2. T \ {Max(T)} \in SUBSET S
          OBVIOUS
        <4>3. h[T \ {Max(T)}] \in V
          BY <2>4, <4>2
        <4>4. h[T] = turn[<<Max(T), h[T \ {Max(T)}]>>]
          BY <2>3, <3>2, <4>1 DEF RecSubsets
        <4>5. turn[<<Max(T), h[T \ {Max(T)}]>>] = step[<<h[T \ {Max(T)}], s[Max(T)]>>]
          BY <4>1, <4>3 DEF turn
        <4> QED
          BY <3>2, <4>4, <4>5
      <3> QED
        BY <3>1, <3>2
    <2> QED
      BY <2>4, <2>5 DEF S, SolvesFold
  <1> QED
    BY <1>2, <1>3

\* Over sequences that begin alike, runs are alike.
LEMMA RunsAgree ==
  ASSUME NEW s, NEW t, NEW base, NEW step, NEW V, NEW g, NEW h, NEW k \in Nat,
         Len(s) \in Nat, Len(t) \in Nat, k <= Len(s), k <= Len(t),
         IsRun(g, base, step, s, V), IsRun(h, base, step, t, V),
         \A i \in 1 .. k : s[i] = t[i]
  PROVE  \A i \in 0 .. k : g[i] = h[i]
  <1> DEFINE T == {i \in 0 .. k : g[i] = h[i]}
  <1>1. 0 \in T
    BY DEF IsRun
  <1>2. ASSUME NEW i \in 0 .. k - 1, i \in T PROVE i + 1 \in T
    <2>1. i + 1 \in 1 .. Len(s) /\ i + 1 \in 1 .. Len(t) /\ i + 1 \in 1 .. k /\ (i + 1) - 1 = i
      OBVIOUS
    <2>2. g[i + 1] = step[<<g[i], s[i + 1]>>] /\ h[i + 1] = step[<<h[i], t[i + 1]>>]
      BY <2>1 DEF IsRun
    <2> QED
      BY <1>2, <2>1, <2>2
  <1> HIDE DEF T
  <1>3. \A i \in 0 .. k : i \in T
    BY <1>1, <1>2, UpToInduction
  <1> QED
    BY <1>3 DEF T
-----------------------------------------------------------------------------
(***************************************************************************)
(* The elements of a set in ascending order, and those of a sequence at    *)
(* some of its places.                                                     *)
(***************************************************************************)

\* below is an order of S: the elements below each.
IsOrder(below, S) ==
  /\ DOMAIN below = S
  /\ \A x \in S : below[x] \subseteq S /\ x \notin below[x]
  /\ \A x, y \in S : x \in below[y] => below[x] \subseteq below[y]
  /\ \A x, y \in S : x # y => x \in below[y] \/ y \in below[x]

\* The elements of a finite set in an order are listed once each, the lower ones first.
LEMMA RankOrder ==
  ASSUME NEW S, IsFiniteSet(S), NEW below, IsOrder(below, S)
  PROVE  /\ Cardinality(S) \in Nat
         /\ ByRank(below) \in Seq(S) /\ Len(ByRank(below)) = Cardinality(S)
         /\ {ByRank(below)[i] : i \in 1 .. Cardinality(S)} = S
         /\ \A i, j \in 1 .. Cardinality(S) :
              i < j <=> ByRank(below)[i] \in below[ByRank(below)[j]]
         /\ \A i \in 1 .. Cardinality(S) : Cardinality(below[ByRank(below)[i]]) = i - 1
  <1> USE DEF IsOrder
  <1> DEFINE n == Cardinality(S)
             rank == [e \in S |-> Cardinality(below[e])]
             a == ByRank(below)
  <1>1. n \in Nat
    BY FS_CardinalityType
  <1>2. \A e \in S : IsFiniteSet(below[e]) /\ Cardinality(below[e]) \in Nat
    BY FS_Subset, FS_CardinalityType
  <1>3. ASSUME NEW d \in S, NEW e \in S, d \in below[e] PROVE rank[d] < rank[e]
    <2>1. below[d] \subseteq below[e] /\ below[d] # below[e]
      BY <1>3
    <2>2. /\ Cardinality(below[d]) <= Cardinality(below[e])
          /\ Cardinality(below[d]) # Cardinality(below[e])
      BY <1>2, <2>1, FS_Subset
    <2> QED
      BY <1>2, <2>2
  <1>4. ASSUME NEW e \in S PROVE rank[e] \in 0 .. n - 1
    <2>1. below[e] \subseteq S /\ below[e] # S
      BY <1>4
    <2>2. Cardinality(below[e]) <= n /\ (Cardinality(below[e]) = n => below[e] = S)
      BY <1>1, <2>1, FS_Subset
    <2> QED
      BY <1>1, <1>2, <2>1, <2>2
  <1> HIDE DEF rank
  <1>5. rank \in Injection(S, 0 .. n - 1)
    <2>1. \A d, e \in S : rank[d] = rank[e] => d = e
      <3> SUFFICES ASSUME NEW d \in S, NEW e \in S, rank[d] = rank[e] PROVE d = e
        OBVIOUS
      <3>1. ~(rank[d] < rank[e]) /\ ~(rank[e] < rank[d])
        BY <1>4
      <3>2. d \notin below[e] /\ e \notin below[d]
        BY <1>3, <3>1
      <3> QED
        BY <3>2
    <2>2. rank \in [S -> 0 .. n - 1]
      BY <1>4 DEF rank
    <2> QED
      BY <2>1, <2>2 DEF Injection, IsInjective
  <1>6. IsFiniteSet(0 .. n - 1) /\ Cardinality(0 .. n - 1) = n
    <2> HIDE DEF n
    <2>1. \A m \in Nat : 0 \in Int /\ m - 1 \in Int /\ (IF 0 > m - 1 THEN 0 ELSE m - 1 - 0 + 1) = m
      OBVIOUS
    <2> QED
      BY <1>1, <2>1, FS_Interval
  <1>7. rank \in Surjection(S, 0 .. n - 1)
    BY <1>1, <1>5, <1>6, FS_Injection
  <1>8. \A i \in 1 .. n : \E e \in S : rank[e] = i - 1
    <2>1. \A i \in 1 .. n : i - 1 \in 0 .. n - 1
      BY <1>1
    <2> QED
      BY <1>7, <2>1 DEF Surjection
  <1>9. \A e \in S : rank[e] = Cardinality(below[e])
    BY DEF rank
  <1>10. \A i \in 1 .. n : a[i] \in S /\ rank[a[i]] = i - 1
    <2> SUFFICES ASSUME NEW i \in 1 .. n PROVE a[i] \in S /\ rank[a[i]] = i - 1
      OBVIOUS
    <2>1. \E e \in S : Cardinality(below[e]) = i - 1
      BY <1>8, <1>9
    <2>2. a[i] = CHOOSE e \in S : Cardinality(below[e]) = i - 1
      BY DEF ByRank
    <2>3. a[i] \in S /\ Cardinality(below[a[i]]) = i - 1
      BY <2>1, <2>2
    <2> QED
      BY <1>9, <2>3
  <1>11. a \in [1 .. n -> S] /\ DOMAIN a = 1 .. n
    <2> DEFINE F(i) == CHOOSE e \in S : Cardinality(below[e]) = i - 1
    <2>1. a = [i \in 1 .. n |-> F(i)]
      BY DEF ByRank
    <2> HIDE DEF F, a, n
    <2> QED
      BY <1>10, <2>1
  <1> HIDE DEF a, n
  <1>12. a \in Seq(S) /\ Len(a) = n
    BY <1>1, <1>11
  <1>13. {a[i] : i \in 1 .. n} = S
    <2>1. \A e \in S : \E i \in 1 .. n : a[i] = e
      <3> SUFFICES ASSUME NEW e \in S PROVE \E i \in 1 .. n : a[i] = e
        OBVIOUS
      <3>1. rank[e] + 1 \in 1 .. n /\ (rank[e] + 1) - 1 = rank[e]
        BY <1>1, <1>4
      <3>2. a[rank[e] + 1] \in S /\ rank[a[rank[e] + 1]] = rank[e]
        BY <1>10, <3>1
      <3>3. a[rank[e] + 1] = e
        BY <1>5, <3>2 DEF Injection, IsInjective
      <3> QED
        BY <3>1, <3>3
    <2> QED
      BY <1>10, <1>11, <2>1
  <1>14. ASSUME NEW i \in 1 .. n, NEW j \in 1 .. n PROVE i < j <=> a[i] \in below[a[j]]
    <2>1. a[i] \in S /\ a[j] \in S /\ rank[a[i]] = i - 1 /\ rank[a[j]] = j - 1
      BY <1>10
    <2>2. i \in Int /\ j \in Int
      BY <1>1
    <2>3. CASE a[i] \in below[a[j]]
      <3>1. i - 1 < j - 1
        BY <1>3, <2>1, <2>3
      <3> QED
        BY <2>2, <2>3, <3>1
    <2>4. CASE a[i] \notin below[a[j]]
      <3>1. CASE a[i] = a[j]
        <4>1. i - 1 = j - 1
          BY <2>1, <3>1
        <4> QED
          BY <2>2, <2>4, <4>1
      <3>2. CASE a[i] # a[j]
        <4>1. a[j] \in below[a[i]]
          BY <2>1, <2>4, <3>2
        <4>2. j - 1 < i - 1
          BY <1>3, <2>1, <4>1
        <4> QED
          BY <2>2, <2>4, <4>2
      <3> QED
        BY <3>1, <3>2
    <2> QED
      BY <2>3, <2>4
  <1>15. \A i \in 1 .. n : Cardinality(below[a[i]]) = i - 1
    BY <1>9, <1>10
  <1> QED
    BY <1>1, <1>12, <1>13, <1>14, <1>15 DEF a, n

\* The ascending order of a finite set of numbers lists each of them once.
LEMMA AscendingOrder ==
  ASSUME NEW es \in SUBSET Nat, IsFiniteSet(es)
  PROVE  /\ Cardinality(es) \in Nat
         /\ Ascending(es) \in Seq(es) /\ Len(Ascending(es)) = Cardinality(es)
         /\ {Ascending(es)[i] : i \in 1 .. Cardinality(es)} = es
         /\ \A i, j \in 1 .. Cardinality(es) : i < j => Ascending(es)[i] < Ascending(es)[j]
  <1> DEFINE below == [x \in es |-> {y \in es : y < x}]
  <1>1. IsOrder(below, es)
    <2>1. \A x, y, z \in Nat : (x < y /\ y < z => x < z) /\ ~(x < x) /\ (x # y => x < y \/ y < x)
      OBVIOUS
    <2> QED
      BY <2>1 DEF IsOrder
  <1>2. Ascending(es) = ByRank(below)
    BY DEF Ascending
  <1>3. \A x, y \in es : y \in below[x] <=> y < x
    OBVIOUS
  <1> HIDE DEF below
  <1>4. /\ Cardinality(es) \in Nat
        /\ ByRank(below) \in Seq(es) /\ Len(ByRank(below)) = Cardinality(es)
        /\ {ByRank(below)[i] : i \in 1 .. Cardinality(es)} = es
        /\ \A i, j \in 1 .. Cardinality(es) :
             i < j <=> ByRank(below)[i] \in below[ByRank(below)[j]]
    BY <1>1, RankOrder
  <1> QED
    BY <1>2, <1>3, <1>4

\* Of numbers in a row.
LEMMA AscendingRow ==
  ASSUME NEW a \in Nat, NEW n \in Nat
  PROVE  /\ Cardinality(a + 1 .. a + n) = n
         /\ Ascending(a + 1 .. a + n) = [i \in 1 .. n |-> a + i]
  <1> DEFINE S == a + 1 .. a + n
             Rank(x) == Cardinality({y \in S : y < x})
             F(i) == CHOOSE x \in S : Rank(x) = i - 1
  <1>1. \A m \in Nat : Cardinality(a + 1 .. a + m) = m
    <2> SUFFICES ASSUME NEW m \in Nat PROVE Cardinality(a + 1 .. a + m) = m
      OBVIOUS
    <2>1. a + 1 \in Int /\ a + m \in Int
      OBVIOUS
    <2>2. Cardinality(a + 1 .. a + m) = IF a + 1 > a + m THEN 0 ELSE (a + m) - (a + 1) + 1
      BY <2>1, FS_Interval
    <2> QED
      BY <2>2
  <1>2. ASSUME NEW x \in S PROVE Rank(x) = x - a - 1
    <2>1. x - a - 1 \in Nat /\ {y \in S : y < x} = a + 1 .. a + (x - a - 1)
      OBVIOUS
    <2> QED
      BY <1>1, <2>1
  <1>3. ASSUME NEW i \in 1 .. n PROVE F(i) = a + i
    <2>1. a + i \in S /\ (a + i) - a - 1 = i - 1
      OBVIOUS
    <2>2. \A x \in S : x - a - 1 = i - 1 => x = a + i
      OBVIOUS
    <2> HIDE DEF S, Rank
    <2>3. F(i) \in S /\ Rank(F(i)) = i - 1
      BY <1>2, <2>1
    <2> QED
      BY <1>2, <2>2, <2>3
  <1>4. Ascending(S) = [i \in 1 .. Cardinality(S) |-> F(i)]
    <2> DEFINE below == [x \in S |-> {y \in S : y < x}]
    <2>1. Ascending(S) = ByRank(below) /\ DOMAIN below = S /\ \A x \in S : below[x] = {y \in S : y < x}
      BY DEF Ascending
    <2> HIDE DEF below, S
    <2>2. \A i : (CHOOSE x \in S : Cardinality(below[x]) = i - 1) = F(i)
      BY <2>1
    <2> HIDE DEF F
    <2> QED
      BY <2>1, <2>2 DEF ByRank
  <1>5. Cardinality(S) = n
    BY <1>1
  <1> HIDE DEF F, S
  <1>6. Ascending(S) = [i \in 1 .. n |-> a + i]
    BY <1>3, <1>4, <1>5
  <1> QED
    BY <1>5, <1>6 DEF S

\* The elements of a sequence at places in a row.
LEMMA SubAtRow ==
  ASSUME NEW s, NEW a \in Nat, NEW n \in Nat
  PROVE  SubAt(s, a + 1 .. a + n) = [i \in 1 .. n |-> s[a + i]]
  <1> DEFINE order == Ascending(a + 1 .. a + n)
  <1>1. order = [i \in 1 .. n |-> a + i]
    BY AscendingRow
  <1>2. SubAt(s, a + 1 .. a + n) = [i \in DOMAIN order |-> s[order[i]]]
    BY DEF SubAt
  <1> HIDE DEF order
  <1> QED
    BY <1>1, <1>2
=============================================================================
