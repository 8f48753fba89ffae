------------------------- MODULE MoeDispatchProofs -------------------------
(***************************************************************************)
(* Proof that every dispatch path of MoeDispatch adds to each token the    *)
(* results of its own experts, once, with their own weights: for any       *)
(* number of tokens, experts, experts per token, block size and capacity,  *)
(* and any router.                                                         *)
(***************************************************************************)
EXTENDS MoeDispatch, DataInduction

(***************************************************************************)
(* Facts about numbers.                                                    *)
(***************************************************************************)

\* Division, for numbers that are not negative.
LEMMA Quotient ==
  ASSUME NEW x \in Nat, NEW b \in Nat \ {0}
  PROVE  /\ x \div b \in Nat /\ x % b \in 0 .. b - 1
         /\ x = (x \div b) * b + (x % b)
  <1>1. x \div b \in Nat
    OBVIOUS
  <1>2. x % b \in 0 .. b - 1
    OBVIOUS
  <1>3. x = (x \div b) * b + (x % b)
    OBVIOUS
  <1> QED
    BY <1>1, <1>2, <1>3

\* A number has one quotient and one remainder.
LEMMA QuotientUnique ==
  ASSUME NEW b \in Nat \ {0}, NEW q \in Nat, NEW r \in 0 .. b - 1
  PROVE  (q * b + r) \div b = q /\ (q * b + r) % b = r
  OBVIOUS

\* Multiples of b are b apart.
LEMMA MultiplesApart ==
  ASSUME NEW b \in Nat \ {0}, NEW p \in Nat, NEW q \in Nat, p < q
  PROVE  p * b + b <= q * b
  OBVIOUS

\* Two places in rows of the same length that have the same number are the same.
LEMMA SamePlace ==
  ASSUME NEW b \in Nat \ {0}, NEW p \in Nat, NEW q \in Nat, NEW r \in 0 .. b - 1,
         NEW s \in 0 .. b - 1, p * b + r = q * b + s
  PROVE  p = q /\ r = s
  OBVIOUS

\* There are n numbers below n.
LEMMA FirstNumbers ==
  \A n \in Nat : IsFiniteSet(0 .. n - 1) /\ Cardinality(0 .. n - 1) = n
  <1> SUFFICES ASSUME NEW n \in Nat
               PROVE  IsFiniteSet(0 .. n - 1) /\ Cardinality(0 .. n - 1) = n
    OBVIOUS
  <1>1. n - 1 \in Int /\ (IF 0 > n - 1 THEN 0 ELSE (n - 1) - 0 + 1) = n
    OBVIOUS
  <1> QED
    BY <1>1, FS_Interval

\* The elements of a finite set of numbers, counted from below, take each place once.
LEMMA CountingPlaces ==
  ASSUME NEW S \in SUBSET Nat, IsFiniteSet(S)
  PROVE  /\ \A n \in S : Cardinality({m \in S : m <= n}) \in 1 .. Cardinality(S)
         /\ \A n, p \in S : n < p =>
              Cardinality({m \in S : m <= n}) < Cardinality({m \in S : m <= p})
         /\ \A k \in 1 .. Cardinality(S) : \E n \in S : Cardinality({m \in S : m <= n}) = k
  <1> DEFINE Upto(n) == {m \in S : m <= n}
             f == [n \in S |-> Cardinality(Upto(n))]
             c == Cardinality(S)
  <1>1. c \in Nat
    BY FS_CardinalityType
  <1>2. \A n \in S : Upto(n) \in SUBSET S /\ n \in Upto(n)
    OBVIOUS
  <1>3. \A T \in SUBSET S : IsFiniteSet(T) /\ Cardinality(T) \in Nat /\ Cardinality(T) <= c
    BY FS_Subset, FS_CardinalityType
  <1>4. \A n \in S : Cardinality(Upto(n)) # 0
    BY <1>2, <1>3, FS_EmptySet
  <1>5. \A n \in S : Cardinality(Upto(n)) \in 1 .. c
    <2> SUFFICES ASSUME NEW n \in S PROVE Cardinality(Upto(n)) \in 1 .. c
      OBVIOUS
    <2> DEFINE k == Cardinality(Upto(n))
    <2>1. k \in Nat /\ k <= c /\ k # 0
      BY <1>2, <1>3, <1>4
    <2>2. \A a, b \in Nat : a <= b /\ a # 0 => a \in 1 .. b
      OBVIOUS
    <2> QED
      BY <1>1, <2>1, <2>2
  <1>6. ASSUME NEW n \in S, NEW p \in S, n < p
        PROVE  Cardinality(Upto(n)) < Cardinality(Upto(p))
    <2>1. n \in Nat /\ p \in Nat
      OBVIOUS
    <2>2. Upto(n) \in SUBSET Upto(p) /\ p \in Upto(p) /\ p \notin Upto(n)
      <3>1. \A m \in S : m \in Nat /\ (m <= n => m <= p) /\ p <= p /\ ~(p <= n)
        BY <1>6, <2>1
      <3> QED
        BY <3>1
    <2>3. IsFiniteSet(Upto(p)) /\ Cardinality(Upto(p)) \in Nat /\ Cardinality(Upto(n)) \in Nat
      BY <1>2, <1>3
    <2>4. Cardinality(Upto(n)) <= Cardinality(Upto(p))
          /\ Cardinality(Upto(n)) # Cardinality(Upto(p))
      <3>1. Upto(n) # Upto(p)
        BY <2>2
      <3>2. \A A, B : IsFiniteSet(A) /\ B \in SUBSET A =>
              Cardinality(B) <= Cardinality(A) /\ (Cardinality(A) = Cardinality(B) => A = B)
        BY FS_Subset
      <3> HIDE DEF Upto
      <3> QED
        BY <2>2, <2>3, <3>1, <3>2
    <2> HIDE DEF Upto
    <2> QED
      BY <2>3, <2>4
  <1>7. f \in Injection(S, 1 .. c)
    <2>1. f \in [S -> 1 .. c]
      BY <1>5
    <2>2. ASSUME NEW n \in S, NEW p \in S, f[n] = f[p] PROVE n = p
      <3>1. f[n] = Cardinality(Upto(n)) /\ f[p] = Cardinality(Upto(p))
        OBVIOUS
      <3>2. n \in Nat /\ p \in Nat /\ f[n] \in Nat /\ f[p] \in Nat
        BY <2>1
      <3>3. ~(n < p) /\ ~(p < n)
        BY <1>6, <2>2, <3>1, <3>2
      <3> QED
        BY <3>2, <3>3
    <2> QED
      BY <2>1, <2>2 DEF Injection, IsInjective
  <1>8. IsFiniteSet(1 .. c) /\ Cardinality(1 .. c) = c
    BY <1>1, FS_Interval
  <1>9. f \in Surjection(S, 1 .. c)
    BY <1>7, <1>8, FS_Injection
  <1>10. ASSUME NEW k \in 1 .. c PROVE \E n \in S : Cardinality(Upto(n)) = k
    BY <1>9 DEF Surjection
  <1> QED
    BY <1>5, <1>6, <1>10

(***************************************************************************)
(* Routing.                                                                *)
(***************************************************************************)

\* Every token takes each of its experts in one slot.
Distinct(s) == \A i, j \in Slots : s[i] = s[j] => i = j
Routed ==
  /\ sel \in [Tokens -> [Slots -> Expert]]
  /\ \A tok \in Tokens : Distinct(sel[tok])

\* The masked argmax never takes an expert again: what it has pushed down is below every
\* probability, and there are at least as many experts as slots.
LEMMA TopkIsDistinct ==
  ASSUME NEW row \in RouterRows, NEW s \in TopkSelect(row)
  PROVE  s \in [Slots -> Expert] /\ Distinct(s)
  <1>0. TopK \in Nat /\ NumExperts \in Nat /\ TopK <= NumExperts
    BY DispatchAssumption
  <1>1. s \in [Slots -> Expert]
        /\ \A j \in Slots : s[j] \in ArgMaxes(Masked(row, {s[i] : i \in 0..(j - 1)}))
    BY DEF TopkSelect
  <1>2. \A e \in Expert : row[e] \in 0 .. (Penalty - 1)
    BY PenaltyAssumption
  <1>3. ASSUME NEW i \in Slots, NEW j \in Slots, i < j PROVE s[i] # s[j]
    <2> DEFINE gone == {s[k] : k \in 0..(j - 1)}
    <2>1. j \in Nat /\ j < NumExperts /\ i \in 0 .. j - 1
      BY <1>0, <1>3 DEF Slots
    <2>2. gone \in SUBSET Expert /\ s[i] \in gone
      <3>1. 0 .. j - 1 \subseteq Slots
        BY <1>0, <2>1 DEF Slots
      <3> QED
        BY <1>1, <2>1, <3>1
    <2>3. PICK f \in Expert : f \notin gone
      <3>1. IsFiniteSet(0 .. j - 1) /\ Cardinality(0 .. j - 1) = j
        BY <2>1, FirstNumbers
      <3> DEFINE g == [k \in 0 .. j - 1 |-> s[k]]
      <3>2. g \in Surjection(0 .. j - 1, gone)
        BY DEF Surjection
      <3>3. Cardinality(gone) <= j
        BY <3>1, <3>2, FS_Surjection
      <3>4. Cardinality(Expert) = NumExperts
        BY <1>0, FS_Interval DEF Expert
      <3>5. gone # Expert
        BY <2>1, <3>3, <3>4, <1>0
      <3> QED
        BY <2>2, <3>5
    <2> DEFINE m == Masked(row, gone)
    <2>4. s[j] \in Expert /\ m[f] <= m[s[j]]
      BY <1>1 DEF ArgMaxes
    <2>5. m[f] = row[f]
      BY <2>3 DEF Masked
    <2>6. ASSUME s[i] = s[j] PROVE FALSE
      <3>1. m[s[j]] = row[s[j]] - Penalty
        BY <2>2, <2>4, <2>6 DEF Masked
      <3>2. row[f] \in 0 .. (Penalty - 1) /\ row[s[j]] \in 0 .. (Penalty - 1)
        BY <1>2, <2>4
      <3>3. row[f] <= row[s[j]] - Penalty
        BY <2>4, <2>5, <3>1
      <3>4. \A a, b \in 0 .. (Penalty - 1) : ~(a <= b - Penalty)
        BY DEF Penalty
      <3> QED
        BY <3>2, <3>3, <3>4
    <2> QED
      BY <2>6
  <1>4. \A i, j \in Slots : i \in Int /\ j \in Int
    BY DEF Slots
  <1>5. \A i, j \in Slots : s[i] = s[j] => i = j
    <2> SUFFICES ASSUME NEW i \in Slots, NEW j \in Slots, s[i] = s[j] PROVE i = j
      OBVIOUS
    <2>1. ~(i < j) /\ ~(j < i)
      BY <1>3
    <2> QED
      BY <1>4, <2>1
  <1> QED
    BY <1>1, <1>5 DEF Distinct

\* In the host's order every slot has its own place.
LEMMA HostIsDistinct ==
  ASSUME NEW row, NEW s \in HostSoftmaxTopk(row)
  PROVE  s \in [Slots -> Expert] /\ Distinct(s)
  <1> DEFINE Before(e) == Cardinality({f \in Expert : row[f] > row[e] \/ (row[f] = row[e] /\ f < e)})
  <1>1. s \in [Slots -> Expert] /\ \A j \in Slots : Before(s[j]) = j
    BY DEF HostSoftmaxTopk
  <1> HIDE DEF Before
  <1> QED
    BY <1>1 DEF Distinct

\* The tokens of a call and its assignments are numbered from 0.
LEMMA CallShape ==
  ASSUME probs \in Calls
  PROVE  \E t \in 1..MaxTokens :
           /\ Tokens = 0..(t - 1) /\ Cardinality(Tokens) = t
           /\ N = t * TopK /\ N \in Nat /\ Assign = 0..(t * TopK - 1)
  <1>1. PICK t \in 1..MaxTokens : probs \in [0..(t - 1) -> RouterRows]
    BY DEF Calls
  <1>2. MaxTokens \in Nat /\ TopK \in Nat
    BY DispatchAssumption
  <1>3. t \in Nat /\ t >= 1
    BY <1>2
  <1>4. Tokens = 0..(t - 1)
    BY <1>1 DEF Tokens
  <1>5. Cardinality(Tokens) = t
    BY <1>3, <1>4, FS_Interval
  <1>6. t * TopK \in Nat
    BY <1>2, <1>3
  <1> QED
    BY <1>4, <1>5, <1>6 DEF N, Assign

\* An assignment is a token and a slot.
LEMMA AssignParts ==
  ASSUME probs \in Calls, Routed
  PROVE  /\ IsFiniteSet(Assign) /\ Assign \subseteq Nat
         /\ \A n \in Assign :
              /\ n \div TopK \in Tokens /\ n % TopK \in Slots /\ AssignE(n) \in Expert
              /\ n = (n \div TopK) * TopK + (n % TopK)
         /\ \A n, m \in Assign :
              n \div TopK = m \div TopK /\ AssignE(n) = AssignE(m) => n = m
  <1>1. PICK t \in 1..MaxTokens :
          /\ Tokens = 0..(t - 1) /\ Cardinality(Tokens) = t
          /\ N = t * TopK /\ N \in Nat /\ Assign = 0..(t * TopK - 1)
    BY CallShape
  <1>2. TopK \in Nat \ {0} /\ t \in Nat /\ t * TopK \in Nat
    BY <1>1, DispatchAssumption
  <1>3. IsFiniteSet(Assign) /\ Assign \subseteq Nat
    <2>1. t * TopK - 1 \in Int
      BY <1>2
    <2>2. IsFiniteSet(0..(t * TopK - 1))
      BY <2>1, FS_Interval
    <2> QED
      BY <1>1, <2>2
  <1>4. ASSUME NEW n \in Assign
        PROVE  /\ n \div TopK \in Tokens /\ n % TopK \in Slots
               /\ n = (n \div TopK) * TopK + (n % TopK)
    <2>1. n \in Nat /\ n < t * TopK
      BY <1>1, <1>2
    <2>2. n \div TopK \in Nat /\ n % TopK \in 0 .. TopK - 1 /\ n = (n \div TopK) * TopK + (n % TopK)
      BY <1>2, <2>1, Quotient
    <2>3. n \div TopK < t
      BY <1>2, <2>1
    <2> QED
      BY <1>1, <1>2, <2>2, <2>3 DEF Slots
  <1>5. \A n \in Assign : AssignE(n) \in Expert
    BY <1>4 DEF Routed, AssignE
  <1>6. ASSUME NEW n \in Assign, NEW m \in Assign, n \div TopK = m \div TopK, AssignE(n) = AssignE(m)
        PROVE  n = m
    <2>1. n % TopK = m % TopK
      BY <1>4, <1>6 DEF Routed, AssignE, Distinct
    <2> QED
      BY <1>4, <1>6, <2>1
  <1> QED
    BY <1>3, <1>4, <1>5, <1>6

\* The rank of an assignment among those of its expert: every place once, from 0, and fewer
\* than there are tokens.
LEMMA Ranks ==
  ASSUME probs \in Calls, Routed
  PROVE  /\ \A e : CountE(e) \in Nat
         /\ \A n \in Assign : /\ RankOf(n) \in 0 .. CountE(AssignE(n)) - 1
                              /\ RankOf(n) < Cardinality(Tokens)
         /\ \A n, m \in Assign : AssignE(n) = AssignE(m) /\ RankOf(n) = RankOf(m) => n = m
         /\ \A e : \A k \in 0 .. CountE(e) - 1 :
              \E n \in Assign : AssignE(n) = e /\ RankOf(n) = k
  <1> DEFINE Of(e) == {n \in Assign : AssignE(n) = e}
             Place(S, n) == Cardinality({m \in S : m <= n})
  <1>1. IsFiniteSet(Assign) /\ Assign \subseteq Nat
    BY AssignParts
  <1>2. \A e : Of(e) \in SUBSET Nat /\ Of(e) \in SUBSET Assign /\ IsFiniteSet(Of(e))
               /\ Cardinality(Of(e)) \in Nat
    <2>1. \A e : Of(e) \in SUBSET Nat /\ Of(e) \in SUBSET Assign
      BY <1>1
    <2>2. \A e : IsFiniteSet(Of(e))
      BY <1>1, <2>1, FS_Subset
    <2> QED
      BY <2>1, <2>2, FS_CardinalityType
  <1>3. \A n \in Assign : n \in Of(AssignE(n)) /\ RankOf(n) = Place(Of(AssignE(n)), n) - 1
    <2> SUFFICES ASSUME NEW n \in Assign
                 PROVE  RankOf(n) = Place(Of(AssignE(n)), n) - 1
      OBVIOUS
    <2>1. {m \in Assign : m <= n /\ AssignE(m) = AssignE(n)} = {m \in Of(AssignE(n)) : m <= n}
      OBVIOUS
    <2> QED
      BY <2>1 DEF RankOf
  <1>4. \A e : CountE(e) = Cardinality(Of(e))
    BY DEF CountE
  <1> HIDE DEF Of
  <1>5. \A e : /\ \A n \in Of(e) : Place(Of(e), n) \in 1 .. Cardinality(Of(e))
               /\ \A n, p \in Of(e) : n < p => Place(Of(e), n) < Place(Of(e), p)
               /\ \A k \in 1 .. Cardinality(Of(e)) : \E n \in Of(e) : Place(Of(e), n) = k
    BY <1>2, CountingPlaces
  <1> HIDE DEF Place
  <1>6. \A n \in Assign : RankOf(n) \in 0 .. CountE(AssignE(n)) - 1
    <2> SUFFICES ASSUME NEW n \in Assign PROVE RankOf(n) \in 0 .. CountE(AssignE(n)) - 1
      OBVIOUS
    <2> DEFINE c == CountE(AssignE(n))
               p == Place(Of(AssignE(n)), n)
    <2>1. c \in Nat /\ p \in 1 .. c /\ RankOf(n) = p - 1
      BY <1>2, <1>3, <1>4, <1>5
    <2>2. \A a \in Nat : \A b \in 1 .. a : b - 1 \in 0 .. a - 1
      OBVIOUS
    <2> HIDE DEF c, p
    <2>3. RankOf(n) \in 0 .. c - 1
      BY <2>1, <2>2
    <2> QED
      BY <2>3 DEF c
  <1>7. ASSUME NEW n \in Assign, NEW m \in Assign, AssignE(n) = AssignE(m), RankOf(n) = RankOf(m)
        PROVE  n = m
    <2> DEFINE S == Of(AssignE(n))
    <2>1. n \in S /\ m \in S /\ n \in Nat /\ m \in Nat
      BY <1>1, <1>3, <1>7
    <2>2. Place(S, n) \in Int /\ Place(S, m) \in Int /\ Place(S, n) = Place(S, m)
      <3>1. Place(S, n) \in 1 .. Cardinality(S) /\ Place(S, m) \in 1 .. Cardinality(S)
        BY <1>5, <2>1
      <3>2. Place(S, n) - 1 = Place(S, m) - 1
        BY <1>3, <1>7
      <3> HIDE DEF S
      <3> QED
        BY <3>1, <3>2
    <2>3. ~(n < m) /\ ~(m < n)
      BY <1>5, <2>1, <2>2
    <2> QED
      BY <2>1, <2>3
  <1>8. ASSUME NEW e, NEW k \in 0 .. CountE(e) - 1
        PROVE  \E n \in Assign : AssignE(n) = e /\ RankOf(n) = k
    <2>1. k + 1 \in 1 .. Cardinality(Of(e))
      <3>1. \A a \in Nat : \A b \in 0 .. a - 1 : b + 1 \in 1 .. a
        OBVIOUS
      <3> QED
        BY <1>2, <1>4, <3>1
    <2>2. PICK n \in Of(e) : Place(Of(e), n) = k + 1
      BY <1>5, <2>1
    <2>3. n \in Assign /\ AssignE(n) = e
      BY DEF Of
    <2>4. RankOf(n) = (k + 1) - 1
      BY <1>3, <2>2, <2>3
    <2> QED
      BY <2>3, <2>4
  <1>9. ASSUME NEW n \in Assign PROVE RankOf(n) < Cardinality(Tokens)
    <2> DEFINE S == Of(AssignE(n))
               f == [m \in S |-> m \div TopK]
    <2>1. S \in SUBSET Assign
      BY <1>2
    <2>2. f \in Injection(S, Tokens)
      <3>1. f \in [S -> Tokens]
        BY <2>1, AssignParts
      <3>2. \A m, p \in S : AssignE(m) = AssignE(p)
        BY DEF Of
      <3>3. \A m, p \in S : f[m] = f[p] => m = p
        BY <2>1, <3>2, AssignParts
      <3> QED
        BY <3>1, <3>3 DEF Injection, IsInjective
    <2>3. IsFiniteSet(Tokens) /\ Cardinality(Tokens) \in Nat
      <3>1. PICK t \in 1..MaxTokens : Tokens = 0..(t - 1)
        BY CallShape
      <3>2. t - 1 \in Int
        BY DispatchAssumption
      <3>3. IsFiniteSet(Tokens)
        BY <3>1, <3>2, FS_Interval
      <3> QED
        BY <3>3, FS_CardinalityType
    <2>4. Cardinality(S) <= Cardinality(Tokens)
      BY <2>2, <2>3, FS_Injection
    <2>5. RankOf(n) \in 0 .. Cardinality(S) - 1 /\ Cardinality(S) \in Nat
      BY <1>2, <1>4, <1>6
    <2> DEFINE a == Cardinality(S)
               b == Cardinality(Tokens)
    <2>6. a \in Nat /\ b \in Nat /\ a <= b /\ RankOf(n) \in 0 .. a - 1
      BY <2>3, <2>4, <2>5
    <2> HIDE DEF a, b
    <2>7. RankOf(n) < b
      BY <2>6
    <2> QED
      BY <2>7 DEF b
  <1>10. \A e : CountE(e) \in Nat
    BY <1>2, <1>4
  <1> QED
    BY <1>6, <1>7, <1>8, <1>9, <1>10

(***************************************************************************)
(* What a path adds up.                                                    *)
(***************************************************************************)

\* The result of an assignment of a token, and what capacity c leaves of a token's.
Result(n) == [x |-> n \div TopK, e |-> AssignE(n), w |-> {n}]
KeptBy(c) == {n \in Assign : RankOf(n) < c}
ResultsOf(tok, c) == {Result(n) : n \in {m \in KeptBy(c) : m \div TopK = tok}}
Exact(o, c) == \A tok \in Tokens : o[tok] = [r \in ResultsOf(tok, c) |-> 1]

\* A set of rows holds the results of the assignments that capacity c keeps, each once, if every
\* such assignment has a row that goes to its token and every other row is zero or goes to no token.
Holds(idx, rows, place, c) ==
  /\ place \in [KeptBy(c) -> DOMAIN rows]
  /\ \A n \in KeptBy(c) : idx[place[n]] = n \div TopK /\ rows[place[n]] = Result(n)
  /\ \A s \in DOMAIN rows :
       idx[s] \in Tokens /\ rows[s] # Zero => \E n \in KeptBy(c) : s = place[n]
\* The combine then gives every token its results.
LEMMA CombineExact ==
  ASSUME NEW idx, NEW rows, NEW place, NEW c, Holds(idx, rows, place, c)
  PROVE  Exact(Combine(idx, rows), c)
  <1> SUFFICES ASSUME NEW k \in Tokens
               PROVE  Combine(idx, rows)[k] = [r \in ResultsOf(k, c) |-> 1]
    BY DEF Exact
  <1> DEFINE mine == {s \in DOMAIN rows : idx[s] = k /\ rows[s] # Zero}
             K == {m \in KeptBy(c) : m \div TopK = k}
  <1>1. Combine(idx, rows)[k] = [r \in {rows[s] : s \in mine} |-> Cardinality({s \in mine : rows[s] = r})]
    BY DEF Combine
  <1>2. \A n : Result(n) # Zero
    BY DEF Result, Zero
  <1>3. \A n, m : Result(n) = Result(m) => n = m
    BY DEF Result
  <1>4. \A n \in K : place[n] \in mine /\ rows[place[n]] = Result(n)
    BY <1>2 DEF Holds
  <1>5. ASSUME NEW s \in mine PROVE \E n \in K : s = place[n]
    <2>1. PICK n \in KeptBy(c) : s = place[n]
      BY DEF Holds
    <2>2. n \div TopK = k
      BY <2>1 DEF Holds
    <2> QED
      BY <2>1, <2>2
  <1>6. {rows[s] : s \in mine} = ResultsOf(k, c)
    <2>1. ResultsOf(k, c) = {Result(n) : n \in K}
      BY DEF ResultsOf
    <2> HIDE DEF mine, K
    <2> QED
      BY <1>4, <1>5, <2>1
  <1>7. ASSUME NEW r \in ResultsOf(k, c) PROVE Cardinality({s \in mine : rows[s] = r}) = 1
    <2>1. PICK n \in K : r = Result(n)
      BY DEF ResultsOf
    <2> HIDE DEF mine, K
    <2>2. {s \in mine : rows[s] = r} = {place[n]}
      <3>1. ASSUME NEW s \in mine, rows[s] = r PROVE s = place[n]
        <4>1. PICK m \in K : s = place[m]
          BY <1>5
        <4>2. Result(m) = Result(n)
          BY <1>4, <2>1, <3>1, <4>1
        <4> QED
          BY <1>3, <4>1, <4>2
      <3> QED
        BY <1>4, <2>1, <3>1
    <2> QED
      BY <2>2, FS_Singleton
  <1> HIDE DEF mine
  <1> QED
    BY <1>1, <1>6, <1>7

\* No capacity that is at least the number of tokens loses anything.
LEMMA AllKept ==
  ASSUME probs \in Calls, Routed, NEW c \in Int, c >= Cardinality(Tokens)
  PROVE  KeptBy(c) = Assign
  <1>1. PICK t \in 1..MaxTokens : Cardinality(Tokens) = t
    BY CallShape
  <1>2. t \in Int
    BY DispatchAssumption
  <1>3. ASSUME NEW n \in Assign PROVE RankOf(n) < c
    <2>1. RankOf(n) < t
      BY <1>1, Ranks
    <2>2. RankOf(n) \in Int
      <3>1. RankOf(n) \in 0 .. CountE(AssignE(n)) - 1
        BY Ranks
      <3> QED
        BY <3>1
    <2> QED
      BY <1>1, <1>2, <2>1, <2>2
  <1> QED
    BY <1>3 DEF KeptBy

\* The paths that keep everything.
LEMMA OracleExact ==
  ASSUME probs \in Calls, Routed, NEW c, KeptBy(c) = Assign
  PROVE  Exact(ForwardOracle, c)
  <1> DEFINE cells == Tokens \X Expert
             idx == [p \in cells |-> p[1]]
             rows == [p \in cells |-> Row(p[1], p[2], GateW(p[1], p[2]))]
             place == [n \in KeptBy(c) |-> <<n \div TopK, AssignE(n)>>]
  <1>1. place \in [KeptBy(c) -> cells]
    BY AssignParts
  <1>2. ASSUME NEW n \in Assign PROVE GateW(n \div TopK, AssignE(n)) = {n}
    BY AssignParts DEF GateW
  <1>3. ASSUME NEW n \in KeptBy(c)
        PROVE  idx[place[n]] = n \div TopK /\ rows[place[n]] = Result(n)
    <2>1. <<n \div TopK, AssignE(n)>> \in cells
      BY AssignParts
    <2>2. rows[place[n]] = Row(n \div TopK, AssignE(n), {n})
      BY <1>2, <2>1
    <2> QED
      BY <2>1, <2>2 DEF Row, Result
  <1>4. ASSUME NEW s \in cells, rows[s] # Zero PROVE \E n \in KeptBy(c) : s = place[n]
    <2>1. GateW(s[1], s[2]) # {}
      BY <1>4 DEF Row
    <2>2. PICK n \in Assign : n \div TopK = s[1] /\ AssignE(n) = s[2]
      BY <2>1 DEF GateW
    <2>3. s = <<s[1], s[2]>>
      OBVIOUS
    <2> QED
      BY <2>2, <2>3
  <1>5. Holds(idx, rows, place, c)
    BY <1>1, <1>3, <1>4 DEF Holds
  <1>6. ForwardOracle = Combine(idx, rows)
    BY DEF ForwardOracle
  <1> HIDE DEF idx, rows, place
  <1> QED
    BY <1>5, <1>6, CombineExact

\* Grouped by expert on the host.
LEMMA RoutedExact ==
  ASSUME probs \in Calls, Routed, NEW c, KeptBy(c) = Assign
  PROVE  Exact(ForwardRouted, c)
  <1> DEFINE work == {p \in Expert \X Assign : p[2] \in ByExpert(p[1])}
             idx == [p \in work |-> p[2] \div TopK]
             rows == [p \in work |-> Row(p[2] \div TopK, p[1], {p[2]})]
             place == [n \in KeptBy(c) |-> <<AssignE(n), n>>]
  <1>1. \A n \in Assign : <<AssignE(n), n>> \in work
    BY AssignParts DEF ByExpert
  <1>2. ASSUME NEW n \in KeptBy(c)
        PROVE  idx[place[n]] = n \div TopK /\ rows[place[n]] = Result(n)
    <2>1. rows[place[n]] = Row(n \div TopK, AssignE(n), {n})
      BY <1>1
    <2> QED
      BY <1>1, <2>1 DEF Row, Result
  <1>3. ASSUME NEW s \in work PROVE \E n \in KeptBy(c) : s = place[n]
    <2>1. s[2] \in Assign /\ AssignE(s[2]) = s[1] /\ s = <<s[1], s[2]>>
      BY DEF ByExpert
    <2> QED
      BY <2>1
  <1>4. Holds(idx, rows, place, c)
    BY <1>1, <1>2, <1>3 DEF Holds
  <1>5. ForwardRouted = Combine(idx, rows)
    BY DEF ForwardRouted
  <1> HIDE DEF idx, rows, place
  <1> QED
    BY <1>4, <1>5, CombineExact

\* The gathers: a row per assignment, if the hoisted token index is right.
LEMMA GatherExact ==
  ASSUME probs \in Calls, Routed, NEW c, KeptBy(c) = Assign,
         NEW idx, \A n \in Assign : idx[n] = n \div TopK
  PROVE  Exact(Combine(idx, [n \in Assign |-> Row(idx[n], AssignE(n), {n})]), c)
  <1> DEFINE rows == [n \in Assign |-> Row(idx[n], AssignE(n), {n})]
             place == [n \in KeptBy(c) |-> n]
  <1>1. \A n \in Assign : rows[n] = Result(n)
    BY DEF Row, Result
  <1>2. Holds(idx, rows, place, c)
    BY <1>1 DEF Holds
  <1> HIDE DEF rows, place
  <1>3. Exact(Combine(idx, rows), c)
    BY <1>2, CombineExact
  <1> QED
    BY <1>3 DEF rows

\* The fused kernels divide the number of an assignment by TopK.
LEMMA FusedExact ==
  ASSUME probs \in Calls, Routed, NEW c, KeptBy(c) = Assign
  PROVE  Exact(FusedGu2Down, c)
  <1> DEFINE idx == [n \in Assign |-> n \div TopK]
             rows == [n \in Assign |-> Row(n \div TopK, AssignE(n), {n})]
             same == [n \in Assign |-> Row(idx[n], AssignE(n), {n})]
  <1>1. \A n \in Assign : idx[n] = n \div TopK
    OBVIOUS
  <1>2. rows = same
    OBVIOUS
  <1>3. FusedGu2Down = Combine(idx, rows)
    BY DEF FusedGu2Down, CombineTokenMajor
  <1> HIDE DEF idx, rows
  <1>4. Exact(Combine(idx, same), c)
    BY <1>1, GatherExact
  <1> HIDE DEF same
  <1> QED
    BY <1>2, <1>3, <1>4

\* The gather decode, with the token index of the call.
LEMMA DecodeExact ==
  ASSUME probs \in Calls, Routed, NEW c, KeptBy(c) = Assign
  PROVE  Exact(DecodeTopk(AssignTok(Cardinality(Tokens), TopK)), c)
  <1> DEFINE idx == AssignTok(Cardinality(Tokens), TopK)
             rows == [n \in Assign |-> Row(idx[n], AssignE(n), {n})]
  <1>1. PICK t \in 1..MaxTokens : Cardinality(Tokens) = t /\ Assign = 0..(t * TopK - 1)
    BY CallShape
  <1>2. \A n \in Assign : idx[n] = n \div TopK
    BY <1>1 DEF AssignTok
  <1>3. DecodeTopk(idx) = Combine(idx, rows)
    BY DEF DecodeTopk
  <1> HIDE DEF idx
  <1>4. Exact(Combine(idx, rows), c)
    BY <1>2, GatherExact
  <1> HIDE DEF rows
  <1>5. Exact(DecodeTopk(idx), c)
    BY <1>3, <1>4
  <1> QED
    BY <1>5 DEF idx

(***************************************************************************)
(* The scattered layouts.                                                  *)
(***************************************************************************)

\* A cell that one assignment goes to holds its value; one that none goes to holds 0.
LEMMA ScatterAt ==
  ASSUME NEW size \in Nat, NEW idx, NEW val, NEW c \in 0 .. size - 1
  PROVE  /\ {n \in Assign : idx[n] = c} = {} => ScatterAdd(size, idx, val)[c] = 0
         /\ \A n \in Assign : {m \in Assign : idx[m] = c} = {n} /\ val[n] \in Nat =>
              ScatterAdd(size, idx, val)[c] = val[n]
  <1> DEFINE S == {n \in Assign : idx[n] = c}
             Good(f) == f = [s \in SUBSET S |-> IF s = {} THEN 0
                               ELSE val[CHOOSE x \in s : TRUE] + f[s \ {CHOOSE x \in s : TRUE}]]
             iter == CHOOSE f : Good(f)
  <1>1. ScatterAdd(size, idx, val)[c] = iter[S]
    BY DEF ScatterAdd, MapThenSumSet, MapThenFoldSet
  <1>2. ASSUME S = {} PROVE iter[S] = 0
    <2> DEFINE g == [s \in SUBSET S |-> 0]
    <2>1. \A s \in SUBSET S : s = {}
      BY <1>2
    <2>2. Good(g)
      BY <2>1
    <2> HIDE DEF g, Good
    <2>3. Good(iter)
      BY <2>2
    <2> HIDE DEF iter
    <2> QED
      BY <1>2, <2>3 DEF Good
  <1>3. ASSUME NEW n \in Assign, S = {n}, val[n] \in Nat PROVE iter[S] = val[n]
    <2> DEFINE g == [s \in SUBSET S |-> IF s = {} THEN 0 ELSE val[n]]
    <2>1. \A s \in SUBSET S : s # {} => s = {n} /\ (CHOOSE x \in s : TRUE) = n /\ s \ {n} = {}
      BY <1>3
    <2>2. {} \in SUBSET S
      OBVIOUS
    <2>3. g[{}] = 0 /\ val[n] + 0 = val[n]
      BY <1>3
    <2>4. \A s \in SUBSET S : g[s] = IF s = {} THEN 0
                   ELSE val[CHOOSE x \in s : TRUE] + g[s \ {CHOOSE x \in s : TRUE}]
      BY <2>1, <2>3
    <2>5. Good(g)
      BY <2>4
    <2> HIDE DEF g, Good
    <2>6. Good(iter)
      BY <2>5
    <2> HIDE DEF iter
    <2>7. S \in SUBSET S /\ S # {} /\ {} \in SUBSET S
      BY <1>3
    <2>8. iter[{}] = 0
      BY <2>6, <2>7 DEF Good
    <2>9. iter[S] = val[n] + iter[{}]
      <3>1. iter[S] = val[CHOOSE x \in S : TRUE] + iter[S \ {CHOOSE x \in S : TRUE}]
        BY <2>6, <2>7 DEF Good
      <3>2. (CHOOSE x \in S : TRUE) = n /\ S \ {n} = {}
        BY <1>3
      <3> QED
        BY <3>1, <3>2
    <2> QED
      BY <1>3, <2>8, <2>9
  <1> HIDE DEF iter
  <1> QED
    BY <1>1, <1>2, <1>3

\* The on-device layout: an expert's kept assignments have cells of their own.
LEMMA CapacityCells ==
  ASSUME probs \in Calls, Routed, NEW c \in Nat \ {0}
  PROVE  /\ \A n \in KeptBy(c) : CapacityDest(c)[n] \in 0 .. NumExperts * c - 1
                                 /\ CapacityDest(c)[n] \div c = AssignE(n)
         /\ \A n \in Assign : CapacityDest(c)[n] \in 0 .. NumExperts * c - 1 => n \in KeptBy(c)
         /\ \A n, m \in KeptBy(c) : CapacityDest(c)[n] = CapacityDest(c)[m] => n = m
  <1>0. NumExperts \in Nat /\ c \in Nat /\ NumExperts * c \in Nat
    BY DispatchAssumption
  <1>1. \A n \in Assign : RankOf(n) \in Nat /\ AssignE(n) \in Nat /\ AssignE(n) < NumExperts
    <2> SUFFICES ASSUME NEW n \in Assign
                 PROVE  RankOf(n) \in Nat /\ AssignE(n) \in Nat /\ AssignE(n) < NumExperts
      OBVIOUS
    <2>1. RankOf(n) \in 0 .. CountE(AssignE(n)) - 1 /\ AssignE(n) \in Expert
      BY Ranks, AssignParts
    <2> QED
      BY <1>0, <2>1 DEF Expert
  <1>2. \A n \in KeptBy(c) : n \in Assign /\ RankOf(n) \in 0 .. c - 1
                             /\ CapacityDest(c)[n] = AssignE(n) * c + RankOf(n)
    <2> SUFFICES ASSUME NEW n \in KeptBy(c)
                 PROVE  n \in Assign /\ RankOf(n) \in 0 .. c - 1
                             /\ CapacityDest(c)[n] = AssignE(n) * c + RankOf(n)
      OBVIOUS
    <2>1. n \in Assign /\ RankOf(n) < c /\ RankOf(n) \in Nat
      BY <1>1 DEF KeptBy
    <2>2. ~(RankOf(n) >= c) /\ RankOf(n) \in 0 .. c - 1
      BY <1>0, <2>1
    <2> QED
      BY <2>1, <2>2 DEF CapacityDest
  <1>3. ASSUME NEW n \in KeptBy(c)
        PROVE  CapacityDest(c)[n] \in 0 .. NumExperts * c - 1 /\ CapacityDest(c)[n] \div c = AssignE(n)
    <2> DEFINE e == AssignE(n)
               r == RankOf(n)
    <2>1. e \in Nat /\ e < NumExperts /\ r \in 0 .. c - 1 /\ CapacityDest(c)[n] = e * c + r
      BY <1>1, <1>2
    <2> HIDE DEF e, r
    <2>2. (e * c + r) \div c = e
      BY <2>1, QuotientUnique
    <2>3. e * c + c <= NumExperts * c
      BY <1>0, <2>1, MultiplesApart
    <2>4. e * c \in Nat
      BY <1>0, <2>1
    <2>5. e * c + r \in 0 .. NumExperts * c - 1
      <3> DEFINE a == e * c
                 b == NumExperts * c
      <3>1. a \in Nat /\ b \in Nat /\ a + c <= b
        BY <1>0, <2>3, <2>4
      <3> HIDE DEF a, b
      <3>2. a + r \in 0 .. b - 1
        BY <1>0, <2>1, <3>1
      <3> QED
        BY <3>2 DEF a, b
    <2> QED
      BY <2>1, <2>2, <2>5 DEF e
  <1>4. ASSUME NEW n \in Assign, CapacityDest(c)[n] \in 0 .. NumExperts * c - 1 PROVE n \in KeptBy(c)
    <2>1. ASSUME RankOf(n) >= c PROVE FALSE
      <3>1. CapacityDest(c)[n] = NumExperts * c
        BY <2>1 DEF CapacityDest
      <3>2. \A b \in Nat : b \notin 0 .. b - 1
        OBVIOUS
      <3> QED
        BY <1>0, <1>4, <3>1, <3>2
    <2>2. RankOf(n) \in Nat
      BY <1>1
    <2>3. RankOf(n) < c
      BY <1>0, <2>1, <2>2
    <2> QED
      BY <2>3 DEF KeptBy
  <1>5. ASSUME NEW n \in KeptBy(c), NEW m \in KeptBy(c), CapacityDest(c)[n] = CapacityDest(c)[m]
        PROVE  n = m
    <2>1. AssignE(n) * c + RankOf(n) = AssignE(m) * c + RankOf(m)
      BY <1>2, <1>5
    <2>2. AssignE(n) = AssignE(m) /\ RankOf(n) = RankOf(m)
      <3>1. \A p, q \in Nat, r, s \in 0 .. c - 1 : p * c + r = q * c + s => p = q /\ r = s
        BY <1>0, SamePlace
      <3>2. /\ AssignE(n) \in Nat /\ AssignE(m) \in Nat
            /\ RankOf(n) \in 0 .. c - 1 /\ RankOf(m) \in 0 .. c - 1
        BY <1>1, <1>2
      <3> QED
        BY <2>1, <3>1, <3>2, Zenon
    <2> QED
      BY <1>2, <2>2, Ranks
  <1> QED
    BY <1>3, <1>4, <1>5

\* On the device with a capacity: the cells an expert does not fill hold the zero row.
LEMMA OndeviceExact ==
  ASSUME probs \in Calls, Routed, NEW capacity \in Int
  PROVE  Exact(ForwardRoutedOndevice(capacity), IF capacity < 1 THEN 1 ELSE capacity)
  <1> DEFINE c == IF capacity < 1 THEN 1 ELSE capacity
             size == NumExperts * c + 1
             dest == CapacityDest(c)
             plus == [n \in Assign |-> n \div TopK + 1]
             tokBuf == ScatterAdd(size, dest, plus)
             wBuf == ScatterWeights(size, dest)
             cells == 0..(NumExperts * c - 1)
             tokens == [s \in cells |-> IF tokBuf[s] - 1 < 0 THEN Cardinality(Tokens) ELSE tokBuf[s] - 1]
             rows == [s \in cells |-> Row(tokens[s], s \div c, wBuf[s])]
             place == [n \in KeptBy(c) |-> dest[n]]
  <1>1. ForwardRoutedOndevice(capacity) = Combine(tokens, rows)
    BY DEF ForwardRoutedOndevice
  <1>2. c \in Nat \ {0} /\ NumExperts * c \in Nat /\ NumExperts \in Nat
    <2>1. c \in Nat \ {0} /\ NumExperts \in Nat
      BY DispatchAssumption
    <2> HIDE DEF c
    <2> QED
      BY <2>1
  <1> HIDE DEF c
  <1>3. size \in Nat /\ \A s \in cells : s \in 0 .. size - 1
    BY <1>2
  <1>4. /\ \A n \in KeptBy(c) : dest[n] \in cells /\ dest[n] \div c = AssignE(n)
        /\ \A n \in Assign : dest[n] \in cells => n \in KeptBy(c)
        /\ \A n, m \in KeptBy(c) : dest[n] = dest[m] => n = m
    BY <1>2, CapacityCells
  <1>5. PICK t \in 1..MaxTokens : Tokens = 0..(t - 1) /\ Cardinality(Tokens) = t
    BY CallShape
  <1>6. t \in Nat /\ t \notin Tokens
    BY <1>5, DispatchAssumption
  <1>7. \A n \in Assign : plus[n] = n \div TopK + 1 /\ n \div TopK \in Nat /\ n \div TopK \in Tokens
    <2>1. \A n \in Assign : n \div TopK \in Tokens
      BY AssignParts
    <2> QED
      BY <1>5, <2>1
  <1>8. \A n \in KeptBy(c) : n \in Assign
    BY DEF KeptBy
  <1> HIDE DEF cells, dest, plus, size
  <1>9. ASSUME NEW n \in KeptBy(c)
        PROVE  tokens[dest[n]] = n \div TopK /\ rows[dest[n]] = Result(n)
    <2> DEFINE s == dest[n]
    <2>1. {m \in Assign : dest[m] = s} = {n}
      BY <1>4, <1>8
    <2>2. s \in cells /\ s \in 0 .. size - 1 /\ s \div c = AssignE(n) /\ n \in Assign
      BY <1>3, <1>4, <1>8
    <2>3. plus[n] \in Nat /\ plus[n] - 1 = n \div TopK /\ ~(plus[n] - 1 < 0)
      BY <1>7, <2>2
    <2>4. tokBuf[s] = plus[n]
      BY <1>3, <2>1, <2>2, <2>3, ScatterAt
    <2>5. wBuf[s] = {n}
      BY <2>1, <2>2 DEF ScatterWeights
    <2> HIDE DEF s, tokBuf, wBuf
    <2>6. tokens[s] = n \div TopK
      BY <2>2, <2>3, <2>4
    <2>7. rows[s] = Row(n \div TopK, AssignE(n), {n})
      BY <2>2, <2>5, <2>6
    <2> QED
      BY <2>6, <2>7 DEF s, Row, Result
  <1>10. ASSUME NEW s \in cells, tokens[s] \in Tokens PROVE \E n \in KeptBy(c) : s = dest[n]
    <2>1. ASSUME {m \in Assign : dest[m] = s} = {} PROVE FALSE
      <3>1. s \in 0 .. size - 1 /\ size \in Nat
        BY <1>3
      <3>2. tokBuf[s] = 0
        BY <2>1, <3>1, ScatterAt
      <3> HIDE DEF tokBuf
      <3>3. tokens[s] = Cardinality(Tokens)
        BY <3>2
      <3> QED
        BY <1>5, <1>6, <1>10, <3>3
    <2> QED
      BY <1>4, <2>1
  <1>11. place \in [KeptBy(c) -> cells] /\ DOMAIN rows = cells
    BY <1>4
  <1> HIDE DEF tokens, rows
  <1>12. Holds(tokens, rows, place, c)
    BY <1>9, <1>10, <1>11 DEF Holds
  <1> HIDE DEF place
  <1>13. Exact(Combine(tokens, rows), c)
    BY <1>12, CombineExact
  <1> QED
    BY <1>1, <1>13 DEF c

(***************************************************************************)
(* The dropless layout: the experts' runs of whole blocks, one behind the  *)
(* other.                                                                  *)
(***************************************************************************)

\* A number rounded up to whole blocks is less than a block away.
LEMMA RoundedUp ==
  ASSUME NEW x \in Nat, NEW b \in Nat \ {0}
  PROVE  /\ (x + b - 1) \div b \in Nat
         /\ x <= ((x + b - 1) \div b) * b /\ ((x + b - 1) \div b) * b < x + b
  <1> DEFINE y == x + b - 1
             q == y \div b
             r == y % b
  <1>1. y \in Nat
    OBVIOUS
  <1> HIDE DEF y
  <1>2. q \in Nat /\ r \in 0 .. b - 1 /\ y = q * b + r
    BY <1>1, Quotient
  <1> HIDE DEF q, r
  <1> DEFINE p == q * b
  <1>3. p \in Nat
    BY <1>2
  <1>4. y = p + r
    BY <1>2
  <1> HIDE DEF p
  <1>5. x <= p /\ p < x + b
    BY <1>2, <1>3, <1>4 DEF y
  <1> QED
    BY <1>2, <1>5 DEF p, q, y

\* The room an expert gets: enough for its assignments, whole blocks, less than a block over.
LEMMA Room ==
  ASSUME probs \in Calls, Routed
  PROVE  \A e : /\ PaddedE(e) \in Nat /\ CountE(e) \in Nat
                /\ CountE(e) <= PaddedE(e) /\ PaddedE(e) <= CountE(e) + BlockM
                /\ \E q \in Nat : PaddedE(e) = q * BlockM
  <1> SUFFICES ASSUME NEW e
               PROVE  /\ PaddedE(e) \in Nat /\ CountE(e) \in Nat
                      /\ CountE(e) <= PaddedE(e) /\ PaddedE(e) <= CountE(e) + BlockM
                      /\ \E q \in Nat : PaddedE(e) = q * BlockM
    OBVIOUS
  <1>1. CountE(e) \in Nat /\ BlockM \in Nat \ {0}
    BY Ranks, DispatchAssumption
  <1> DEFINE c == CountE(e)
             q == (c + BlockM - 1) \div BlockM
  <1>2. PaddedE(e) = q * BlockM
    BY DEF PaddedE
  <1> HIDE DEF c
  <1>3. q \in Nat /\ c <= q * BlockM /\ q * BlockM < c + BlockM
    BY <1>1, RoundedUp DEF c
  <1> HIDE DEF q
  <1> DEFINE p == q * BlockM
  <1>4. p \in Nat /\ c \in Nat /\ c <= p /\ p < c + BlockM
    BY <1>1, <1>3 DEF c
  <1> HIDE DEF p
  <1>5. p <= c + BlockM
    BY <1>1, <1>4
  <1> QED
    BY <1>2, <1>3, <1>4, <1>5 DEF p, c

Padding == [e \in Expert |-> PaddedE(e)]
Below(e) == {f \in Expert : f < e}

\* Where an expert's run begins is the room of the experts before it.
LEMMA BaseIsSum ==
  ASSUME probs \in Calls, Routed, NEW g, SumsOver(g, Padding, Expert), NEW e
  PROVE  BaseE(e) = g[Below(e)]
  <1> DEFINE S == Below(e)
             Good(f) == f = [s \in SUBSET S |-> IF s = {} THEN 0
                               ELSE PaddedE(CHOOSE x \in s : TRUE) + f[s \ {CHOOSE x \in s : TRUE}]]
             iter == CHOOSE f : Good(f)
             h == [s \in SUBSET S |-> g[s]]
  <1>1. BaseE(e) = iter[S]
    BY DEF BaseE, MapThenSumSet, MapThenFoldSet, Below
  <1>2. S \in SUBSET Expert
    BY DEF Below
  <1>3. Good(h)
    <2>1. ASSUME NEW s \in SUBSET S
          PROVE  h[s] = IF s = {} THEN 0
                        ELSE PaddedE(CHOOSE x \in s : TRUE) + h[s \ {CHOOSE x \in s : TRUE}]
      <3> DEFINE c == CHOOSE x \in s : TRUE
      <3>1. CASE s = {}
        <4>1. h[s] = g[{}] /\ g[{}] = 0
          BY <3>1 DEF SumsOver
        <4> QED
          BY <3>1, <4>1
      <3>2. CASE s # {}
        <4>1. c \in Expert /\ s \in SUBSET Expert /\ s \ {c} \in SUBSET S
          BY <1>2, <3>2
        <4>2. g[s] = Padding[c] + g[s \ {c}]
          BY <3>2, <4>1 DEF SumsOver
        <4>3. Padding[c] = PaddedE(c)
          BY <4>1 DEF Padding
        <4> HIDE DEF c, S
        <4>4. h[s] = PaddedE(c) + h[s \ {c}]
          BY <4>1, <4>2, <4>3
        <4> QED
          BY <3>2, <4>4 DEF c
      <3> QED
        BY <3>1, <3>2
    <2> HIDE DEF S
    <2>2. h = [s \in SUBSET S |-> h[s]]
      OBVIOUS
    <2> HIDE DEF h
    <2> QED
      BY <2>1, <2>2
  <1> HIDE DEF Good
  <1>4. Good(iter)
    BY <1>3
  <1> HIDE DEF iter
  <1> DEFINE T == {s \in SUBSET S : iter[s] = g[s]}
  <1>5. IsFiniteSet(S)
    <2>1. IsFiniteSet(Expert)
      BY FirstNumbers, DispatchAssumption DEF Expert
    <2> QED
      BY <1>2, <2>1, FS_Subset
  <1> HIDE DEF S
  <1>6. {} \in T
    <2>1. iter[{}] = 0
      BY <1>4 DEF Good
    <2> QED
      BY <2>1 DEF SumsOver
  <1>7. ASSUME NEW s \in SUBSET S, s # {}, \A x \in s : s \ {x} \in T PROVE s \in T
    <2> DEFINE c == CHOOSE x \in s : TRUE
    <2>1. c \in s
      BY <1>7
    <2>2. iter[s] = PaddedE(c) + iter[s \ {c}]
      BY <1>4, <1>7 DEF Good
    <2>3. g[s] = Padding[c] + g[s \ {c}]
      BY <1>2, <1>7 DEF SumsOver
    <2> HIDE DEF c
    <2>4. Padding[c] = PaddedE(c)
      BY <1>2, <2>1 DEF Padding
    <2>5. iter[s \ {c}] = g[s \ {c}]
      BY <1>7, <2>1
    <2> QED
      BY <2>2, <2>3, <2>4, <2>5
  <1> HIDE DEF T
  <1>8. S \in T
    <2>1. \A s \in SUBSET S : s \in T
      BY <1>5, <1>6, <1>7, SubsetInduction
    <2> QED
      BY <2>1
  <1> QED
    BY <1>1, <1>8 DEF T, S

\* The runs do not overlap, begin at block boundaries, and fit in the buffer.
LEMMA Runs ==
  ASSUME probs \in Calls, Routed
  PROVE  /\ \A e \in Expert : BaseE(e) \in Nat /\ \E q \in Nat : BaseE(e) = q * BlockM
         /\ \A e, f \in Expert : e < f => BaseE(e) + PaddedE(e) <= BaseE(f)
         /\ \A e \in Expert : BaseE(e) + PaddedE(e) <= NumBlocks * BlockM
  <1>0. /\ BlockM \in Nat \ {0} /\ NumExperts \in Nat
        /\ IsFiniteSet(Expert) /\ Cardinality(Expert) = NumExperts /\ Expert \subseteq Nat
    BY FirstNumbers, DispatchAssumption DEF Expert
  <1>1. Padding \in [Expert -> Nat] /\ \A e \in Expert : Padding[e] = PaddedE(e)
    BY Room DEF Padding
  <1>2. PICK g : SumsOver(g, Padding, Expert)
    BY <1>0, <1>1, SumSolved
  <1>3. \A e : BaseE(e) = g[Below(e)] /\ Below(e) \in SUBSET Expert
    BY <1>2, BaseIsSum DEF Below
  <1>4. g \in [SUBSET Expert -> Nat] /\ g[{}] = 0
    BY <1>2 DEF SumsOver
  <1>5. \A s \in SUBSET Expert : \A x \in s : g[s] = PaddedE(x) + g[s \ {x}]
    <2>1. \A s \in SUBSET Expert : \A x \in s : g[s] = Padding[x] + g[s \ {x}]
      <3>1. TakesOutAny(g, Padding, Expert)
        BY <1>0, <1>1, <1>2, SumTakesOut
      <3> QED
        BY <3>1 DEF TakesOutAny
    <2>2. \A s \in SUBSET Expert : \A x \in s : Padding[x] = PaddedE(x)
      BY <1>1
    <2> QED
      BY <2>1, <2>2
  <1>6. \A t \in SUBSET Expert : \A s \in SUBSET t : g[s] <= g[t]
    BY <1>0, <1>1, <1>2, SumMonotone
  <1>7. ASSUME NEW e \in Expert, NEW t \in SUBSET Expert, e \in t, Below(e) \subseteq t
        PROVE  BaseE(e) + PaddedE(e) <= g[t]
    <2> DEFINE s == Below(e) \cup {e}
    <2>1. e \notin Below(e) /\ s \in SUBSET t /\ s \in SUBSET Expert /\ s \ {e} = Below(e)
      <3>1. ~(e < e)
        BY <1>0
      <3> QED
        BY <1>7, <3>1 DEF Below
    <2> HIDE DEF s
    <2>2. g[s] = PaddedE(e) + g[Below(e)]
      <3>1. e \in s
        BY DEF s
      <3> QED
        BY <1>5, <2>1, <3>1
    <2>3. g[s] <= g[t]
      BY <1>6, <2>1
    <2>4. g[Below(e)] \in Nat /\ PaddedE(e) \in Nat /\ g[t] \in Nat
      BY <1>1, <1>3, <1>4
    <2> QED
      BY <1>3, <2>2, <2>3, <2>4
  <1>8. ASSUME NEW e \in Expert, NEW f \in Expert, e < f PROVE BaseE(e) + PaddedE(e) <= BaseE(f)
    <2>1. e \in Below(f) /\ Below(e) \subseteq Below(f)
      <3>1. \A x \in Expert : x < e => x < f
        BY <1>0, <1>8
      <3> QED
        BY <1>8, <3>1 DEF Below
    <2> QED
      BY <1>3, <1>7, <2>1
  <1>9. \A s \in SUBSET Expert : \E q \in Nat : g[s] = q * BlockM
    <2> DEFINE T == {s \in SUBSET Expert : \E q \in Nat : g[s] = q * BlockM}
    <2>1. {} \in T
      <3>1. g[{}] = 0 * BlockM
        BY <1>0, <1>4
      <3> QED
        BY <3>1
    <2>2. ASSUME NEW s \in SUBSET Expert, s # {}, \A x \in s : s \ {x} \in T PROVE s \in T
      <3>1. PICK x \in s : TRUE
        BY <2>2
      <3>2. PICK q \in Nat : g[s \ {x}] = q * BlockM
        BY <2>2
      <3>3. PICK p \in Nat : PaddedE(x) = p * BlockM
        BY Room
      <3>4. g[s] = p * BlockM + q * BlockM
        BY <1>5, <3>2, <3>3
      <3>5. g[s] = (p + q) * BlockM
        BY <1>0, <3>4
      <3> QED
        BY <3>5
    <2> HIDE DEF T
    <2>3. \A s \in SUBSET Expert : s \in T
      BY <1>0, <2>1, <2>2, SubsetInduction
    <2> QED
      BY <2>3 DEF T
  <1>10. \A s \in SUBSET Expert :
           g[s] <= Cardinality({n \in Assign : AssignE(n) \in s}) + Cardinality(s) * BlockM
    <2> DEFINE In(s) == {n \in Assign : AssignE(n) \in s}
               T == {s \in SUBSET Expert : g[s] <= Cardinality(In(s)) + Cardinality(s) * BlockM}
    <2>0. \A s : IsFiniteSet(In(s)) /\ Cardinality(In(s)) \in Nat
      <3>1. IsFiniteSet(Assign) /\ \A s : In(s) \in SUBSET Assign
        BY AssignParts
      <3> QED
        BY <3>1, FS_Subset, FS_CardinalityType
    <2>1. {} \in T
      <3>1. Cardinality({}) = 0
        BY FS_EmptySet
      <3>2. 0 <= Cardinality(In({})) + 0 * BlockM
        BY <1>0, <2>0
      <3> QED
        BY <1>4, <3>1, <3>2
    <2>2. ASSUME NEW s \in SUBSET Expert, s # {}, \A x \in s : s \ {x} \in T PROVE s \in T
      <3>1. PICK x \in s : TRUE
        BY <2>2
      <3> DEFINE r == s \ {x}
      <3>2. g[s] = PaddedE(x) + g[r]
        BY <1>5, <3>1
      <3>3. r \in SUBSET Expert /\ g[r] <= Cardinality(In(r)) + Cardinality(r) * BlockM
        BY <2>2, <3>1
      <3>4. Cardinality(s) = Cardinality(r) + 1 /\ Cardinality(r) \in Nat
        <4>1. IsFiniteSet(s) /\ Cardinality(s) \in Nat
          BY <1>0, FS_Subset, FS_CardinalityType
        <4>2. Cardinality(r) = Cardinality(s) - 1 /\ IsFiniteSet(r)
          BY <3>1, <4>1, FS_RemoveElement
        <4>3. Cardinality(r) \in Nat
          BY <4>2, FS_CardinalityType
        <4> QED
          BY <4>1, <4>2, <4>3
      <3>5. Cardinality(In(s)) = Cardinality(In(r)) + CountE(x)
        <4> DEFINE one == {n \in Assign : AssignE(n) = x}
        <4>1. In(s) = In(r) \cup one /\ In(r) \cap one = {}
          BY <3>1
        <4>2. IsFiniteSet(one) /\ Cardinality(one) = CountE(x) /\ CountE(x) \in Nat
          <5>1. one \in SUBSET Assign
            OBVIOUS
          <5>2. IsFiniteSet(one)
            BY <5>1, AssignParts, FS_Subset
          <5> QED
            BY <5>2, Room DEF CountE
        <4>3. Cardinality({}) = 0
          BY FS_EmptySet
        <4> HIDE DEF In, one
        <4>4. Cardinality(In(r) \cup one)
                = Cardinality(In(r)) + Cardinality(one) - Cardinality(In(r) \cap one)
          BY <2>0, <4>2, FS_Union
        <4> DEFINE a == Cardinality(In(r))
        <4>5. a \in Nat /\ Cardinality(In(s)) = a + CountE(x) - 0
          BY <2>0, <4>1, <4>2, <4>3, <4>4
        <4> HIDE DEF a
        <4>6. Cardinality(In(s)) = a + CountE(x)
          BY <4>2, <4>5
        <4> QED
          BY <4>6 DEF a
      <3>6. /\ PaddedE(x) \in Nat /\ CountE(x) \in Nat /\ PaddedE(x) <= CountE(x) + BlockM
            /\ g[r] \in Nat
        BY <1>4, <3>3, Room
      <3> DEFINE a == Cardinality(In(r))
                 k == Cardinality(r) * BlockM
      <3>7. a \in Nat /\ k \in Nat
        BY <1>0, <2>0, <3>4
      <3>8. Cardinality(s) * BlockM = k + BlockM
        <4> DEFINE u == Cardinality(r)
        <4>1. u \in Nat /\ Cardinality(s) = u + 1 /\ k = u * BlockM
          BY <3>4
        <4> HIDE DEF u, k
        <4>2. (u + 1) * BlockM = u * BlockM + BlockM
          BY <1>0, <4>1
        <4> QED
          BY <4>1, <4>2
      <3>9. g[r] <= a + k
        BY <3>3
      <3> HIDE DEF a, k, r
      <3>10. PaddedE(x) + g[r] <= (a + CountE(x)) + (k + BlockM)
        BY <1>0, <3>6, <3>7, <3>9
      <3>11. g[s] <= Cardinality(In(s)) + Cardinality(s) * BlockM
        BY <3>2, <3>5, <3>8, <3>10 DEF a
      <3> QED
        BY <3>11
    <2> HIDE DEF T
    <2>3. \A s \in SUBSET Expert : s \in T
      BY <1>0, <2>1, <2>2, SubsetInduction
    <2> QED
      BY <2>3 DEF T
  <1>11. g[Expert] <= NumBlocks * BlockM
    <2>1. PICK t \in 1..MaxTokens : N = t * TopK /\ N \in Nat /\ Assign = 0..(t * TopK - 1)
      BY CallShape
    <2>2. {n \in Assign : AssignE(n) \in Expert} = Assign
      BY AssignParts
    <2>3. Cardinality(Assign) = N
      BY <2>1, FirstNumbers
    <2>4. g[Expert] <= N + NumExperts * BlockM
      BY <1>0, <1>10, <2>2, <2>3
    <2> DEFINE x == (N + BlockM - 1) \div BlockM
    <2>5. x \in Nat /\ N <= x * BlockM
      BY <1>0, <2>1, RoundedUp
    <2>6. NumBlocks = NumExperts + x
      BY DEF NumBlocks
    <2> HIDE DEF x
    <2>7. (NumExperts + x) * BlockM = NumExperts * BlockM + x * BlockM
      BY <1>0, <2>5
    <2> DEFINE a == NumExperts * BlockM
               b == x * BlockM
    <2>8. a \in Nat /\ b \in Nat /\ N \in Nat /\ g[Expert] \in Nat /\ N <= b /\ g[Expert] <= N + a
      BY <1>0, <1>4, <2>1, <2>4, <2>5
    <2>9. NumBlocks * BlockM = a + b
      BY <2>6, <2>7
    <2> HIDE DEF a, b
    <2> QED
      BY <2>8, <2>9
  <1>12. ASSUME NEW e \in Expert PROVE BaseE(e) + PaddedE(e) <= NumBlocks * BlockM
    <2>1. BaseE(e) + PaddedE(e) <= g[Expert]
      BY <1>3, <1>7
    <2>2. BaseE(e) \in Nat /\ PaddedE(e) \in Nat /\ g[Expert] \in Nat
      BY <1>1, <1>3, <1>4
    <2>3. NumBlocks * BlockM \in Int
      <3>1. PICK t \in 1..MaxTokens : N \in Nat
        BY CallShape
      <3>2. (N + BlockM - 1) \div BlockM \in Nat
        BY <1>0, <3>1, RoundedUp
      <3>3. NumBlocks \in Nat
        BY <1>0, <3>2 DEF NumBlocks
      <3> QED
        BY <1>0, <3>3
    <2> DEFINE b == NumBlocks * BlockM
    <2>4. g[Expert] <= b /\ b \in Int
      BY <1>11, <2>3
    <2> HIDE DEF b
    <2>5. BaseE(e) + PaddedE(e) <= b
      BY <2>1, <2>2, <2>4
    <2> QED
      BY <2>5 DEF b
  <1>13. ASSUME NEW e \in Expert PROVE BaseE(e) \in Nat /\ \E q \in Nat : BaseE(e) = q * BlockM
    BY <1>3, <1>4, <1>9
  <1> QED
    BY <1>8, <1>12, <1>13

Dest == [n \in Assign |-> BaseE(AssignE(n)) + RankOf(n)]

\* The assignments have cells of their own in the buffer, and the block of a cell begins with
\* an assignment of the same expert.
LEMMA DroplessCells ==
  ASSUME probs \in Calls, Routed
  PROVE  /\ NumBlocks \in Nat /\ NumBlocks * BlockM \in Nat
         /\ \A n \in Assign : Dest[n] \in 0 .. NumBlocks * BlockM - 1
         /\ \A n, m \in Assign : Dest[n] = Dest[m] => n = m
         /\ \A n \in Assign :
              /\ Dest[n] \div BlockM \in 0 .. NumBlocks - 1
              /\ \E m \in Assign : AssignE(m) = AssignE(n) /\ Dest[m] = (Dest[n] \div BlockM) * BlockM
  <1>0. BlockM \in Nat \ {0} /\ Expert \subseteq Int
    BY DispatchAssumption DEF Expert
  <1>1. NumBlocks \in Nat /\ NumBlocks * BlockM \in Nat
    <2>1. PICK t \in 1..MaxTokens : N \in Nat
      BY CallShape
    <2>2. (N + BlockM - 1) \div BlockM \in Nat
      BY <1>0, <2>1, RoundedUp
    <2>3. NumBlocks \in Nat
      BY <2>2, DispatchAssumption DEF NumBlocks
    <2> QED
      BY <1>0, <2>3
  <1>2. \A n \in Assign :
          /\ AssignE(n) \in Expert /\ Dest[n] = BaseE(AssignE(n)) + RankOf(n)
          /\ BaseE(AssignE(n)) \in Nat /\ RankOf(n) \in Nat /\ PaddedE(AssignE(n)) \in Nat
          /\ RankOf(n) < CountE(AssignE(n)) /\ CountE(AssignE(n)) \in Nat
          /\ CountE(AssignE(n)) <= PaddedE(AssignE(n))
    <2> SUFFICES ASSUME NEW n \in Assign
                 PROVE  /\ AssignE(n) \in Expert /\ Dest[n] = BaseE(AssignE(n)) + RankOf(n)
                        /\ BaseE(AssignE(n)) \in Nat /\ RankOf(n) \in Nat
                        /\ PaddedE(AssignE(n)) \in Nat
                        /\ RankOf(n) < CountE(AssignE(n)) /\ CountE(AssignE(n)) \in Nat
                        /\ CountE(AssignE(n)) <= PaddedE(AssignE(n))
      OBVIOUS
    <2>1. AssignE(n) \in Expert
      BY AssignParts
    <2>2. RankOf(n) \in 0 .. CountE(AssignE(n)) - 1 /\ CountE(AssignE(n)) \in Nat
      BY Ranks
    <2>3. RankOf(n) \in Nat /\ RankOf(n) < CountE(AssignE(n))
      BY <2>2
    <2> QED
      BY <2>1, <2>2, <2>3, Runs, Room DEF Dest
  <1>3. ASSUME NEW n \in Assign
        PROVE  Dest[n] \in Nat /\ Dest[n] < BaseE(AssignE(n)) + PaddedE(AssignE(n))
    BY <1>2
  <1>4. ASSUME NEW n \in Assign PROVE Dest[n] \in 0 .. NumBlocks * BlockM - 1
    <2>1. BaseE(AssignE(n)) + PaddedE(AssignE(n)) <= NumBlocks * BlockM
      BY <1>2, Runs
    <2> DEFINE b == NumBlocks * BlockM
               a == BaseE(AssignE(n)) + PaddedE(AssignE(n))
    <2>2. a \in Nat /\ b \in Nat /\ a <= b /\ Dest[n] \in Nat /\ Dest[n] < a
      BY <1>1, <1>2, <1>3, <2>1
    <2> HIDE DEF a, b
    <2>3. Dest[n] \in 0 .. b - 1
      BY <2>2
    <2> QED
      BY <2>3 DEF b
  <1>5. ASSUME NEW n \in Assign, NEW m \in Assign, AssignE(n) < AssignE(m) PROVE Dest[n] < Dest[m]
    <2>1. BaseE(AssignE(n)) + PaddedE(AssignE(n)) <= BaseE(AssignE(m))
      BY <1>2, <1>5, Runs
    <2>2. BaseE(AssignE(m)) <= Dest[m]
      BY <1>2
    <2>3. /\ Dest[n] \in Nat /\ Dest[m] \in Nat /\ BaseE(AssignE(n)) + PaddedE(AssignE(n)) \in Nat
          /\ BaseE(AssignE(m)) \in Nat /\ Dest[n] < BaseE(AssignE(n)) + PaddedE(AssignE(n))
      BY <1>2, <1>3
    <2> QED
      BY <2>1, <2>2, <2>3
  <1>6. ASSUME NEW n \in Assign, NEW m \in Assign, Dest[n] = Dest[m] PROVE n = m
    <2>1. AssignE(n) = AssignE(m)
      <3>1. ~(AssignE(n) < AssignE(m)) /\ ~(AssignE(m) < AssignE(n))
        <4>1. ~(Dest[n] < Dest[m]) /\ ~(Dest[m] < Dest[n])
          BY <1>3, <1>6
        <4> QED
          BY <1>5, <4>1
      <3>2. AssignE(n) \in Int /\ AssignE(m) \in Int
        BY <1>0, <1>2
      <3> QED
        BY <3>1, <3>2
    <2>2. RankOf(n) = RankOf(m)
      <3>1. BaseE(AssignE(n)) + RankOf(n) = BaseE(AssignE(n)) + RankOf(m)
        BY <1>2, <1>6, <2>1
      <3>2. \A a, x, y \in Nat : a + x = a + y => x = y
        OBVIOUS
      <3>3. BaseE(AssignE(n)) \in Nat /\ RankOf(n) \in Nat /\ RankOf(m) \in Nat
        BY <1>2
      <3> QED
        BY <3>1, <3>2, <3>3
    <2> QED
      BY <2>1, <2>2, Ranks
  <1>7. ASSUME NEW n \in Assign
        PROVE  /\ Dest[n] \div BlockM \in 0 .. NumBlocks - 1
               /\ \E m \in Assign : AssignE(m) = AssignE(n) /\ Dest[m] = (Dest[n] \div BlockM) * BlockM
    <2> DEFINE d == Dest[n]
               b == d \div BlockM
               e == AssignE(n)
    <2>1. d \in Nat /\ d < NumBlocks * BlockM
      <3> DEFINE z == NumBlocks * BlockM
      <3>1. d \in 0 .. z - 1 /\ z \in Nat
        BY <1>1, <1>4
      <3> HIDE DEF z, d
      <3>2. d \in Nat /\ d < z
        BY <3>1
      <3> QED
        BY <3>2 DEF z
    <2>2. PICK q \in Nat : BaseE(e) = q * BlockM
      BY <1>2, Runs
    <2>3. BaseE(e) \in Nat /\ d = BaseE(e) + RankOf(n) /\ RankOf(n) \in Nat /\ RankOf(n) < CountE(e) /\ CountE(e) \in Nat
      BY <1>2
    <2> HIDE DEF d, e
    <2>4. b \in Nat /\ d % BlockM \in 0 .. BlockM - 1 /\ d = b * BlockM + (d % BlockM)
      BY <1>0, <2>1, Quotient
    <2>5. b < NumBlocks
      BY <1>0, <1>1, <2>1
    <2> HIDE DEF b
    <2> DEFINE s == b * BlockM
    <2>6. s \in Nat /\ s <= d /\ d < s + BlockM
      <3>1. s \in Nat
        BY <1>0, <2>4
      <3>2. d = s + (d % BlockM)
        BY <2>4
      <3> HIDE DEF s
      <3> QED
        BY <1>0, <2>4, <3>1, <3>2
    <2>7. BaseE(e) <= s
      <3>1. ASSUME b < q PROVE FALSE
        <4>1. b * BlockM + BlockM <= q * BlockM
          BY <1>0, <2>2, <2>4, <3>1, MultiplesApart
        <4>2. s + BlockM <= BaseE(e)
          BY <2>2, <4>1
        <4> HIDE DEF s
        <4> QED
          BY <1>0, <2>3, <2>6, <4>2
      <3>2. q <= b
        BY <2>2, <2>4, <3>1
      <3>3. q * BlockM <= b * BlockM
        BY <1>0, <2>2, <2>4, <3>2
      <3> QED
        BY <2>2, <3>3
    <2> HIDE DEF s
    <2>8. s - BaseE(e) \in 0 .. CountE(e) - 1 /\ BaseE(e) + (s - BaseE(e)) = s
      BY <2>3, <2>6, <2>7
    <2>9. PICK m \in Assign : AssignE(m) = e /\ RankOf(m) = s - BaseE(e)
      BY <2>8, Ranks
    <2>10. Dest[m] = s
      BY <1>2, <2>8, <2>9
    <2>11. b \in 0 .. NumBlocks - 1
      BY <1>1, <2>4, <2>5
    <2> QED
      BY <2>9, <2>10, <2>11 DEF s, b, d, e
  <1> QED
    BY <1>1, <1>4, <1>6, <1>7

\* On the device without a capacity: an unused slot of a block goes to the row that is dropped.
LEMMA GroupedExact ==
  ASSUME probs \in Calls, Routed, NEW c, KeptBy(c) = Assign
  PROVE  Exact(ForwardGrouped, c)
  <1> DEFINE size == NumBlocks * BlockM
             dest == [n \in Assign |-> BaseE(AssignE(n)) + RankOf(n)]
             tokPlus == [n \in Assign |-> n \div TopK + 1]
             expPlus == [n \in Assign |-> AssignE(n) + 1]
             tok == ScatterAdd(size, dest, tokPlus)
             exp == ScatterAdd(size, dest, expPlus)
             cells == 0..(size - 1)
             lay == DroplessAlign
             rows == [s \in 0..(lay.buffer - 1) |->
                IF lay.expert_ids[s \div BlockM] >= 0 /\ lay.sorted_token[s] >= 0
                THEN Row(lay.sorted_token[s], lay.expert_ids[s \div BlockM], lay.sorted_weight[s])
                ELSE Zero]
             idx == [s \in DOMAIN rows |->
                 IF lay.sorted_token[s] < 0 THEN Cardinality(Tokens) ELSE lay.sorted_token[s]]
             place == [n \in KeptBy(c) |-> dest[n]]
  <1>1. ForwardGrouped = Combine(idx, rows)
    BY DEF ForwardGrouped
  <1>2. /\ lay.buffer = size
        /\ \A s \in cells : lay.sorted_token[s] = tok[s] - 1
        /\ lay.sorted_weight = ScatterWeights(size, dest)
        /\ \A b \in 0..(NumBlocks - 1) : lay.expert_ids[b] = exp[b * BlockM] - 1
    BY DEF DroplessAlign
  <1>3. /\ NumBlocks \in Nat /\ size \in Nat
        /\ \A n \in Assign : dest[n] \in cells
        /\ \A n, m \in Assign : dest[n] = dest[m] => n = m
        /\ \A n \in Assign :
             /\ dest[n] \div BlockM \in 0 .. NumBlocks - 1
             /\ \E m \in Assign : AssignE(m) = AssignE(n) /\ dest[m] = (dest[n] \div BlockM) * BlockM
    BY DroplessCells DEF Dest
  <1> HIDE DEF lay
  <1>4. PICK t \in 1..MaxTokens : Tokens = 0..(t - 1) /\ Cardinality(Tokens) = t
    BY CallShape
  <1>5. t \in Nat /\ t \notin Tokens
    BY <1>4, DispatchAssumption
  <1>6. \A n \in Assign :
          /\ tokPlus[n] \in Nat /\ tokPlus[n] - 1 = n \div TopK /\ n \div TopK \in Nat
          /\ expPlus[n] \in Nat /\ expPlus[n] - 1 = AssignE(n) /\ AssignE(n) \in Nat
    <2>1. \A n \in Assign : n \div TopK \in Tokens /\ AssignE(n) \in Expert
      BY AssignParts
    <2>2. Tokens \subseteq Nat /\ Expert \subseteq Nat
      BY <1>4 DEF Expert
    <2>3. \A n \in Assign : n \div TopK \in Nat /\ AssignE(n) \in Nat
      BY <2>1, <2>2
    <2> QED
      BY <2>3
  <1> HIDE DEF dest, tokPlus, expPlus, size
  <1>7. ASSUME NEW n \in Assign
        PROVE  /\ {m \in Assign : dest[m] = dest[n]} = {n}
               /\ tok[dest[n]] = tokPlus[n] /\ exp[dest[n]] = expPlus[n]
               /\ ScatterWeights(size, dest)[dest[n]] = {n}
    <2>1. {m \in Assign : dest[m] = dest[n]} = {n}
      BY <1>3
    <2>2. dest[n] \in 0 .. size - 1
      BY <1>3
    <2>3. tok[dest[n]] = tokPlus[n]
      BY <1>3, <1>6, <2>1, <2>2, ScatterAt
    <2>4. exp[dest[n]] = expPlus[n]
      BY <1>3, <1>6, <2>1, <2>2, ScatterAt
    <2>5. ScatterWeights(size, dest)[dest[n]] = {n}
      BY <2>1, <2>2 DEF ScatterWeights
    <2> QED
      BY <2>1, <2>3, <2>4, <2>5
  <1>8. DOMAIN rows = cells /\ DOMAIN idx = cells
    BY <1>2
  <1>9. ASSUME NEW n \in KeptBy(c)
        PROVE  idx[dest[n]] = n \div TopK /\ rows[dest[n]] = Result(n)
    <2> DEFINE s == dest[n]
               b == s \div BlockM
    <2>1. s \in cells /\ b \in 0 .. NumBlocks - 1
      BY <1>3
    <2>2. lay.sorted_token[s] = n \div TopK
      BY <1>2, <1>6, <1>7, <2>1
    <2>3. lay.expert_ids[b] = AssignE(n)
      <3>1. PICK m \in Assign : AssignE(m) = AssignE(n) /\ dest[m] = b * BlockM
        BY <1>3
      <3>2. exp[b * BlockM] = expPlus[m]
        BY <1>7, <3>1
      <3> QED
        BY <1>2, <1>6, <2>1, <3>1, <3>2
    <2>4. lay.sorted_weight[s] = {n}
      BY <1>2, <1>7
    <2>5. n \div TopK \in Nat /\ AssignE(n) \in Nat
      BY <1>6
    <2>6. idx[s] = n \div TopK
      <3>1. ~(lay.sorted_token[s] < 0)
        BY <2>2, <2>5
      <3>2. idx[s] = IF lay.sorted_token[s] < 0 THEN Cardinality(Tokens) ELSE lay.sorted_token[s]
        BY <1>2, <2>1
      <3> QED
        BY <2>2, <3>1, <3>2
    <2>7. rows[s] = Row(n \div TopK, AssignE(n), {n})
      <3>1. lay.sorted_token[s] >= 0 /\ lay.expert_ids[b] >= 0
        BY <2>2, <2>3, <2>5
      <3>2. rows[s] = IF lay.expert_ids[b] >= 0 /\ lay.sorted_token[s] >= 0
                      THEN Row(lay.sorted_token[s], lay.expert_ids[b], lay.sorted_weight[s])
                      ELSE Zero
        BY <1>2, <2>1
      <3> QED
        BY <2>2, <2>3, <2>4, <3>1, <3>2
    <2> QED
      BY <2>6, <2>7 DEF Row, Result
  <1>10. ASSUME NEW s \in cells, idx[s] \in Tokens PROVE \E n \in KeptBy(c) : s = dest[n]
    <2>1. ASSUME {m \in Assign : dest[m] = s} = {} PROVE FALSE
      <3>1. s \in 0 .. size - 1 /\ size \in Nat
        BY <1>3
      <3>2. tok[s] = 0
        BY <2>1, <3>1, ScatterAt
      <3>3. lay.sorted_token[s] < 0
        BY <1>2, <3>2
      <3>4. idx[s] = Cardinality(Tokens)
        BY <1>2, <3>3
      <3> QED
        BY <1>4, <1>5, <1>10, <3>4
    <2> QED
      BY <2>1
  <1>11. place \in [KeptBy(c) -> cells]
    BY <1>3
  <1> HIDE DEF rows, idx
  <1>12. Holds(idx, rows, place, c)
    <2>1. \A n \in KeptBy(c) : place[n] = dest[n]
      OBVIOUS
    <2> HIDE DEF place
    <2> QED
      BY <1>8, <1>9, <1>10, <1>11, <2>1 DEF Holds
  <1> HIDE DEF place
  <1>13. Exact(Combine(idx, rows), c)
    BY <1>12, CombineExact
  <1> QED
    BY <1>1, <1>13

(***************************************************************************)
(* The inductive invariant.                                                *)
(***************************************************************************)

\* A call that has picked its experts has picked distinct ones; the Qwen3 block holds its bf16
\* experts only; a captured step is one token's, on a block that preflight let through.
UsedShape == used = [path |-> used.path, cap |-> used.cap, format |-> used.format]
AwaitsForward == used.path \in {"qwen3", "qwen35", "static", "moe_static"}
DispatchInv ==
  /\ block \in Blocks /\ probs \in Calls /\ UsedShape
  /\ AwaitsForward => Routed
  /\ used.path \in {"qwen3", "moe_static"} => block.has = {"bf16"}
  /\ used.path \in {"static", "moe_static"} => graph # "none"
  /\ graph # "none" => block.build = "cuda" /\ StaticReady /\ Cardinality(Tokens) = 1
  /\ AddsItsExperts

\* A call that does not change its routing, and whose rows are exact, has the property.
LEMMA ExactAdds ==
  ASSUME UNCHANGED <<probs, sel, block>>, NEW c, used'.cap = c, Exact(out', c),
         used'.format = ExpertForwardFormat
  PROVE  AddsItsExperts'
  <1>1. Tokens' = Tokens /\ N' = N /\ Assign' = Assign
    BY DEF Tokens, N, Assign
  <1>2. \A n : AssignE(n)' = AssignE(n)
    BY DEF AssignE
  <1>3. \A n : RankOf(n)' = RankOf(n)
    BY <1>1, <1>2 DEF RankOf
  <1>4. \A tok : Kept(tok)' = {m \in KeptBy(c) : m \div TopK = tok}
    BY <1>1, <1>3 DEF Kept, KeptBy
  <1>5. \A tok : Wanted(tok)' = ResultsOf(tok, c)
    BY <1>2, <1>4 DEF Wanted, ResultsOf, Result, KeptBy
  <1>6. (ExpertForwardFormat)' = ExpertForwardFormat
    BY DEF ExpertForwardFormat, First
  <1> QED
    BY <1>1, <1>5, <1>6 DEF AddsItsExperts, Exact

\* Every path of a block reads the copy of its weights that the host loop would read.
LEMMA OneFormat ==
  ASSUME block \in Blocks
  PROVE  /\ block.has = {"bf16"} => ExpertForwardFormat = "bf16"
         /\ FusedArm(TRUE) # "host" => FusedArm(TRUE) = ExpertForwardFormat
         /\ block.build = "cuda" /\ StaticReady => StaticFormat = ExpertForwardFormat
  <1>1. block.has \in SUBSET {"nvfp4", "fp8", "bf16"} /\ block.has # {}
    BY DEF Blocks, Formats
  <1>2. ExpertForwardFormat = IF "nvfp4" \in block.has THEN "nvfp4"
                              ELSE IF "fp8" \in block.has THEN "fp8" ELSE "bf16"
    BY DEF ExpertForwardFormat, First
  <1>3. First(<<"fp8", "bf16", "bf16">>) = IF "fp8" \in block.has THEN "fp8" ELSE "bf16"
    BY DEF First
  <1>4. FusedArm(TRUE) # "host" => FusedArm(TRUE) = ExpertForwardFormat
    BY <1>2, <1>3 DEF FusedArm
  <1>5. ASSUME block.build = "cuda", StaticReady PROVE FusedArm(TRUE) # "host"
    <2>1. block.fused /\ Cardinality(Tokens) <= FusedMaxT /\ block.build # "cpu"
      BY <1>5 DEF StaticReady
    <2>2. "nvfp4" \in block.has \/ block.has \cap {"fp8", "bf16"} # {}
      BY <1>1
    <2>3. First(<<"fp8", "bf16", "bf16">>) # "host"
      BY <1>3
    <2> QED
      BY <1>5, <2>1, <2>2, <2>3 DEF FusedArm
  <1>6. block.build = "cuda" /\ StaticReady => StaticFormat = ExpertForwardFormat
    BY <1>4, <1>5 DEF StaticFormat
  <1> QED
    BY <1>2, <1>4, <1>6

\* Routing picks distinct experts.
LEMMA RouteTopk ==
  ASSUME probs \in Calls, probs' = probs, Route(TopkSelect)
  PROVE  Routed'
  <1>1. \A tok \in Tokens : probs[tok] \in RouterRows
    BY DEF Calls, Tokens
  <1>2. sel' \in [Tokens -> [Slots -> Expert]] /\ \A tok \in Tokens : sel'[tok] \in TopkSelect(probs[tok])
    BY DEF Route
  <1>3. \A tok \in Tokens : Distinct(sel'[tok])
    BY <1>1, <1>2, TopkIsDistinct
  <1> QED
    BY <1>2, <1>3 DEF Routed, Tokens
\* The same on the host.
LEMMA RouteHost ==
  ASSUME probs \in Calls, probs' = probs, Route(HostSoftmaxTopk)
  PROVE  Routed'
  <1>2. sel' \in [Tokens -> [Slots -> Expert]]
        /\ \A tok \in Tokens : sel'[tok] \in HostSoftmaxTopk(probs[tok])
    BY DEF Route
  <1>3. \A tok \in Tokens : Distinct(sel'[tok])
    BY <1>2, HostIsDistinct
  <1> QED
    BY <1>2, <1>3 DEF Routed, Tokens

\* A call that has only been routed.
LEMMA AfterRouting ==
  ASSUME DispatchInv, UNCHANGED <<block, probs, out>>, Routed',
         NEW path \in {"qwen3", "qwen35", "static", "moe_static"},
         used' = [Unused EXCEPT !.path = path],
         path \in {"qwen3", "moe_static"} => block.has = {"bf16"},
         path \in {"static", "moe_static"} => graph' # "none",
         graph' # "none" => graph # "none"
  PROVE  DispatchInv'
  <1>1. used' = [path |-> path, cap |-> 0, format |-> "none"]
    BY DEF Unused
  <1>2. UsedShape'
    BY <1>1 DEF UsedShape
  <1>3. AddsItsExperts'
    BY <1>1 DEF AddsItsExperts, Done
  <1>4. (StaticReady' <=> StaticReady) /\ Tokens' = Tokens
    BY DEF StaticReady, Tokens
  <1> QED
    BY <1>1, <1>2, <1>3, <1>4 DEF DispatchInv, AwaitsForward

\* A call that has run a path.
LEMMA AfterForward ==
  ASSUME DispatchInv, UNCHANGED <<block, probs, sel, graph>>, AwaitsForward,
         NEW c \in Int, NEW path \in {"oracle", "routed", "ondevice", "grouped", "decode",
                                      "host", "fused", "captured"},
         used' = [path |-> path, cap |-> c, format |-> ExpertForwardFormat],
         Exact(out', c)
  PROVE  DispatchInv'
  <1>2. UsedShape'
    BY DEF UsedShape
  <1>3. AddsItsExperts'
    BY ExactAdds
  <1>4. (StaticReady' <=> StaticReady) /\ Tokens' = Tokens
    BY DEF StaticReady, Tokens
  <1> QED
    BY <1>2, <1>3, <1>4 DEF DispatchInv, AwaitsForward

\* The invariant holds before the first call and is kept by every action.
LEMMA DispatchInit == Init => DispatchInv
  <1> SUFFICES ASSUME Init PROVE DispatchInv
    OBVIOUS
  <1>1. used = [path |-> "none", cap |-> 0, format |-> "none"] /\ graph = "none"
    BY DEF Init, Unused
  <1>2. UsedShape /\ ~AwaitsForward /\ ~Done
    BY <1>1 DEF UsedShape, AwaitsForward, Done
  <1> QED
    BY <1>1, <1>2 DEF Init, DispatchInv, AddsItsExperts

\* One case per action.
LEMMA DispatchNext == DispatchInv /\ [Next]_vars => DispatchInv'
  <1> SUFFICES ASSUME DispatchInv, [Next]_vars PROVE DispatchInv'
    OBVIOUS
  <1>0. probs \in Calls /\ block \in Blocks
    BY DEF DispatchInv
  <1>a. MaxTokens \in Int /\ MaxTokens >= Cardinality(Tokens)
    <2>1. PICK t \in 1..MaxTokens : Cardinality(Tokens) = t
      BY <1>0, CallShape
    <2> QED
      BY <2>1, DispatchAssumption
  <1>b. Routed => KeptBy(MaxTokens) = Assign
    BY <1>0, <1>a, AllKept
  <1>1. CASE Qwen3Route
    <2>1. Routed'
      BY <1>0, <1>1, RouteTopk DEF Qwen3Route
    <2> QED
      BY <1>1, <2>1, AfterRouting DEF Qwen3Route
  <1>2. CASE Qwen3Forward
    <2>1. PICK path \in {"oracle", "routed", "ondevice", "grouped", "decode"} :
            /\ out' = Qwen3Out(path)
            /\ used' = [path |-> path, cap |-> MaxTokens, format |-> "bf16"]
      BY <1>2 DEF Qwen3Forward
    <2>2. AwaitsForward /\ Routed /\ block.has = {"bf16"}
      BY <1>2 DEF Qwen3Forward, AwaitsForward, DispatchInv
    <2>3. KeptBy(MaxTokens) = Assign /\ ExpertForwardFormat = "bf16"
      BY <1>0, <1>b, <2>2, OneFormat
    <2>4. Exact(Qwen3Out(path), MaxTokens)
      <3>1. CASE path = "oracle"
        BY <1>0, <2>2, <2>3, <3>1, OracleExact DEF Qwen3Out
      <3>2. CASE path = "routed"
        BY <1>0, <2>2, <2>3, <3>2, RoutedExact DEF Qwen3Out
      <3>3. CASE path = "ondevice"
        <4> DEFINE t == Cardinality(Tokens)
        <4>1. t \in Nat \ {0} /\ t >= t
          <5>1. PICK k \in 1..MaxTokens : Cardinality(Tokens) = k
            BY <1>0, CallShape
          <5> QED
            BY <5>1, <1>a
        <4>2. KeptBy(t) = Assign
          BY <1>0, <2>2, <4>1, AllKept
        <4> HIDE DEF t
        <4>3. Exact(ForwardRoutedOndevice(t), IF t < 1 THEN 1 ELSE t)
          BY <1>0, <2>2, <4>1, OndeviceExact
        <4>4. Exact(ForwardRoutedOndevice(t), t)
          BY <4>1, <4>3
        <4>5. Exact(ForwardRoutedOndevice(t), MaxTokens)
          BY <2>3, <4>2, <4>4 DEF Exact, ResultsOf
        <4> QED
          BY <3>3, <4>5 DEF Qwen3Out, t
      <3>4. CASE path = "grouped"
        BY <1>0, <2>2, <2>3, <3>4, GroupedExact DEF Qwen3Out
      <3>5. CASE path = "decode"
        BY <1>0, <2>2, <2>3, <3>5, DecodeExact DEF Qwen3Out
      <3> QED
        BY <3>1, <3>2, <3>3, <3>4, <3>5
    <2> QED
      BY <1>2, <1>a, <2>1, <2>2, <2>3, <2>4, AfterForward DEF Qwen3Forward
  <1>3. CASE Qwen3Capped
    <2>1. PICK c \in 0..MaxTokens :
            /\ out' = ForwardRoutedOndevice(c)
            /\ used' = [path |-> "ondevice", cap |-> IF c < 1 THEN 1 ELSE c, format |-> "bf16"]
      BY <1>3 DEF Qwen3Capped
    <2>2. AwaitsForward /\ Routed /\ block.has = {"bf16"}
      BY <1>3 DEF Qwen3Capped, AwaitsForward, DispatchInv
    <2> DEFINE k == IF c < 1 THEN 1 ELSE c
    <2>3. c \in Int /\ k \in Int /\ ExpertForwardFormat = "bf16"
      BY <1>0, <2>2, OneFormat
    <2>4. Exact(out', k)
      BY <1>0, <2>1, <2>2, <2>3, OndeviceExact
    <2>5. used' = [path |-> "ondevice", cap |-> k, format |-> ExpertForwardFormat]
      BY <2>1, <2>3
    <2> HIDE DEF k
    <2> QED
      BY <1>3, <2>2, <2>3, <2>4, <2>5, AfterForward DEF Qwen3Capped
  <1>4. CASE Qwen35Route
    <2>1. Routed'
      BY <1>0, <1>4, RouteHost DEF Qwen35Route
    <2>2. CASE graph = "recording"
      BY <1>4, <2>1, <2>2, AfterRouting DEF Qwen35Route
    <2>3. CASE graph # "recording"
      BY <1>4, <2>1, <2>3, AfterRouting DEF Qwen35Route
    <2> QED
      BY <2>2, <2>3
  <1>5. CASE Qwen35Forward
    <2>1. AwaitsForward /\ Routed
      BY <1>5 DEF Qwen35Forward, AwaitsForward, DispatchInv
    <2>2. KeptBy(MaxTokens) = Assign
      BY <1>b, <2>1
    <2>3. CASE FusedArm(TRUE) = "host"
      <3>1. out' = ForwardRouted
            /\ used' = [path |-> "host", cap |-> MaxTokens, format |-> ExpertForwardFormat]
        BY <1>5, <2>3 DEF Qwen35Forward
      <3>2. Exact(out', MaxTokens)
        BY <1>0, <2>1, <2>2, <3>1, RoutedExact
      <3> QED
        BY <1>5, <1>a, <2>1, <3>1, <3>2, AfterForward DEF Qwen35Forward
    <2>4. CASE FusedArm(TRUE) # "host"
      <3>1. out' = FusedGu2Down
            /\ used' = [path |-> "fused", cap |-> MaxTokens, format |-> ExpertForwardFormat]
        BY <1>0, <1>5, <2>4, OneFormat DEF Qwen35Forward
      <3>2. Exact(out', MaxTokens)
        BY <1>0, <2>1, <2>2, <3>1, FusedExact
      <3> QED
        BY <1>5, <1>a, <2>1, <3>1, <3>2, AfterForward DEF Qwen35Forward
    <2> QED
      BY <2>3, <2>4
  <1>6. CASE BeginCapture
    <2>1. /\ UNCHANGED <<block, probs, sel, selW, out, used>> /\ used = Unused
          /\ block.build = "cuda" /\ StaticReady /\ Cardinality(Tokens) = 1
      BY <1>6 DEF BeginCapture
    <2>2. AddsItsExperts' /\ (StaticReady' <=> StaticReady) /\ Tokens' = Tokens
      BY <2>1 DEF AddsItsExperts, Done, StaticReady, Tokens, Unused
    <2>3. ~AwaitsForward' /\ used'.path = "none"
      BY <2>1 DEF AwaitsForward, Unused
    <2> QED
      BY <2>1, <2>2, <2>3 DEF DispatchInv, UsedShape
  <1>7. CASE Qwen3StaticStep
    <2>1. Routed'
      BY <1>0, <1>7, RouteTopk DEF Qwen3StaticStep
    <2> QED
      BY <1>7, <2>1, AfterRouting DEF Qwen3StaticStep
  <1>8. CASE StaticCombine
    <2>1. AwaitsForward /\ Routed /\ used.path \in {"static", "moe_static"}
      BY <1>8 DEF StaticCombine, AwaitsForward, DispatchInv
    <2>2. block.build = "cuda" /\ StaticReady /\ Cardinality(Tokens) = 1
      BY <2>1 DEF DispatchInv
    <2>3. KeptBy(MaxTokens) = Assign
      BY <1>b, <2>1
    <2>4. used' = [path |-> "captured", cap |-> MaxTokens, format |-> ExpertForwardFormat]
      <3>1. used = [path |-> used.path, cap |-> used.cap, format |-> used.format]
        BY DEF DispatchInv, UsedShape
      <3>2. (IF used.path = "static" THEN StaticFormat ELSE "bf16") = ExpertForwardFormat
        BY <1>0, <2>1, <2>2, OneFormat DEF DispatchInv
      <3> QED
        BY <1>8, <3>1, <3>2 DEF StaticCombine
    <2>5. Exact(out', MaxTokens)
      <3>1. CASE used.path = "static"
        BY <1>0, <1>8, <2>1, <2>3, <3>1, FusedExact DEF StaticCombine
      <3>2. CASE used.path = "moe_static"
        <4>1. out' = DecodeTopk(AssignTok(Cardinality(Tokens), TopK))
          BY <1>8, <2>2, <3>2 DEF StaticCombine
        <4> QED
          BY <1>0, <2>1, <2>3, <4>1, DecodeExact
      <3> QED
        BY <2>1, <3>1, <3>2
    <2> QED
      BY <1>8, <1>a, <2>1, <2>4, <2>5, AfterForward DEF StaticCombine
  <1>9. CASE UNCHANGED vars
    <2>1. /\ Tokens' = Tokens /\ (StaticReady' <=> StaticReady) /\ (AwaitsForward' <=> AwaitsForward)
          /\ (Routed' <=> Routed) /\ (UsedShape' <=> UsedShape)
      BY <1>9 DEF vars, Tokens, StaticReady, AwaitsForward, Routed, UsedShape
    <2>2. AddsItsExperts'
      <3>1. UNCHANGED <<block, probs, sel, out, used>>
        BY <1>9 DEF vars
      <3>2. Tokens' = Tokens /\ N' = N /\ Assign' = Assign
        BY <3>1 DEF Tokens, N, Assign
      <3>3. \A n : AssignE(n)' = AssignE(n)
        BY <3>1 DEF AssignE
      <3>4. \A n : RankOf(n)' = RankOf(n)
        BY <3>2, <3>3 DEF RankOf
      <3>5. \A tok : Kept(tok)' = Kept(tok)
        BY <3>1, <3>2, <3>4 DEF Kept
      <3>6. \A tok : Wanted(tok)' = Wanted(tok)
        BY <3>3, <3>5 DEF Wanted
      <3>7. (ExpertForwardFormat)' = ExpertForwardFormat
        BY <3>1 DEF ExpertForwardFormat, First
      <3> QED
        BY <3>1, <3>2, <3>6, <3>7 DEF DispatchInv, AddsItsExperts, Done
    <2> QED
      BY <1>9, <2>1, <2>2 DEF DispatchInv, vars
  <1> QED
    BY <1>1, <1>2, <1>3, <1>4, <1>5, <1>6, <1>7, <1>8, <1>9 DEF Next

\* Whatever path a call takes, every token's row is the sum of the results of its own experts,
\* each once and with its own weight, and prefill, fused call and captured step read one copy of
\* the weights (moe.rs:431, qwen3_5/mod.rs:1229).
THEOREM DispatchIsExact == Spec => []AddsItsExperts
  <1>1. DispatchInv => AddsItsExperts
    BY DEF DispatchInv
  <1> QED
    BY DispatchInit, DispatchNext, <1>1, PTL DEF Spec
=============================================================================
