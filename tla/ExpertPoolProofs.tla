-------------------------- MODULE ExpertPoolProofs --------------------------
(***************************************************************************)
(* Proofs about ExpertPool, for any number of layers, experts, tokens and  *)
(* reading threads, and for every configuration of the pool: a reported    *)
(* hit is still resident when it is dispatched, what was joined stays      *)
(* until it is used, and the contributions are summed in one order.        *)
(*                                                                         *)
(* The argument is about recency. A set T of keys is recent in a cache if  *)
(* all of T is resident and nothing outside T was used since: T is a       *)
(* suffix of the list. Touching or putting a slot adds its key to T, and a *)
(* put evicts nothing of T as long as T and the new key fit. A batch needs *)
(* two keys per expert, all of which have become recent when its reads are *)
(* joined.                                                                 *)
(***************************************************************************)
EXTENDS ExpertPool, DataInduction

\* What identifies a slot in the list (SlotKey), and the keys of a list.
Key(s)    == <<s.layer, s.proj, s.expert>>
KeysIn(c) == {Key(c[i]) : i \in 1 .. Len(c)}

\* No two slots have the same key.
Distinct(c) == \A i, j \in 1 .. Len(c) : Key(c[i]) = Key(c[j]) => i = j

\* What the list of slots always is.
Lru(c) == c \in Seq(Slot) /\ Distinct(c) /\ Len(c) <= Capacity

\* T is resident, and nothing that is not in T was used since.
Recent(c, T) ==
  /\ T \subseteq KeysIn(c)
  /\ \A i, j \in 1 .. Len(c) : i < j /\ Key(c[i]) \in T => Key(c[j]) \in T

\* A pool holds at least one slot.
LEMMA CapacityIs ==
  ASSUME config \in Config
  PROVE  Capacity \in Nat \ {0}
  <1>1. config.capacity \in Nat
    BY DEF Config
  <1>2. \E m \in {config.capacity, 1} : \A x \in {config.capacity, 1} : m >= x
    BY <1>1
  <1> QED
    BY <1>1, <1>2 DEF Capacity, Max

\* Slots have the same key if they differ in their kind only.
LEMMA SameKeyIs ==
  ASSUME NEW s \in Slot, NEW t \in Slot
  PROVE  SameKey(s, t) <=> Key(s) = Key(t)
  BY DEF SameKey, Key, Slot

\* Taking out the slot of a key.
LEMMA WithoutIs ==
  ASSUME NEW c \in Seq(Slot), Distinct(c), NEW s \in Slot
  PROVE  /\ Without(c, s) \in Seq(Slot)
         /\ Distinct(Without(c, s))
         /\ KeysIn(Without(c, s)) = KeysIn(c) \ {Key(s)}
         /\ Key(s) \notin KeysIn(c) => Without(c, s) = c
         /\ Key(s) \in KeysIn(c) =>
              /\ Len(Without(c, s)) = Len(c) - 1
              /\ Place(c, s) \in 1 .. Len(c) /\ Key(c[Place(c, s)]) = Key(s)
         /\ \A T : Recent(c, T) => Recent(Without(c, s), T \ {Key(s)})
  <1> DEFINE w == Without(c, s)
             k == Place(c, s)
             n == Len(c)
  <1>1. n \in Nat /\ DOMAIN c = 1 .. n /\ \A i \in 1 .. n : c[i] \in Slot
    OBVIOUS
  <1>2. \A i \in 1 .. n : SameKey(c[i], s) <=> Key(c[i]) = Key(s)
    BY <1>1, SameKeyIs
  <1>3. CASE Key(s) \notin KeysIn(c)
    <2>1. w = c
      BY <1>1, <1>2, <1>3 DEF Without, KeysIn
    <2>2. KeysIn(c) = KeysIn(c) \ {Key(s)}
      BY <1>3
    <2>3. ASSUME NEW T, Recent(c, T) PROVE Recent(c, T \ {Key(s)})
      BY <1>3, <2>3 DEF Recent
    <2> QED
      BY <1>3, <2>1, <2>2, <2>3
  <1>4. CASE Key(s) \in KeysIn(c)
    <2>1. k \in 1 .. n /\ Key(c[k]) = Key(s)
      BY <1>1, <1>2, <1>4 DEF Place, KeysIn
    <2>2. w = SubSeq(c, 1, k - 1) \o SubSeq(c, k + 1, n)
      BY <1>1, <1>2, <1>4 DEF Without, KeysIn, RemoveAt
    <2> DEFINE front == SubSeq(c, 1, k - 1)
               back == SubSeq(c, k + 1, n)
    <2> HIDE DEF w, k
    <2>n. n \in Nat /\ c \in Seq(Slot) /\ k \in 1 .. n /\ n = Len(c)
      BY <1>1, <2>1
    <2> HIDE DEF n
    <2>3. front \in Seq(Slot) /\ Len(front) = k - 1 /\ \A j \in 1 .. k - 1 : front[j] = c[j]
      BY <2>n
    <2>4. back \in Seq(Slot) /\ Len(back) = n - k /\ \A j \in 1 .. n - k : back[j] = c[j + k]
      BY <2>n
    <2> HIDE DEF front, back
    <2>5. w \in Seq(Slot) /\ Len(w) = n - 1
      <3>1. w = front \o back
        BY <2>2 DEF front, back
      <3>a. \A u, v \in Seq(Slot) : u \o v \in Seq(Slot) /\ Len(u \o v) = Len(u) + Len(v)
        OBVIOUS
      <3>b. front \in Seq(Slot) /\ back \in Seq(Slot)
        BY <2>3, <2>4
      <3>2. w \in Seq(Slot) /\ Len(w) = Len(front) + Len(back)
        BY <3>1, <3>a, <3>b
      <3>3. Len(front) + Len(back) = n - 1
        BY <2>n, <2>3, <2>4
      <3> QED
        BY <3>2, <3>3
    <2>6. \A j \in 1 .. n - 1 : w[j] = IF j < k THEN c[j] ELSE c[j + 1]
      <3> SUFFICES ASSUME NEW j \in 1 .. n - 1 PROVE w[j] = IF j < k THEN c[j] ELSE c[j + 1]
        OBVIOUS
      <3>0. w = front \o back
        BY <2>2 DEF front, back
      <3>1. CASE j < k
        <4>1. j \in 1 .. k - 1
          BY <2>n, <3>1
        <4> QED
          BY <2>n, <2>3, <2>4, <3>0, <3>1, <4>1
      <3>2. CASE ~(j < k)
        <4>1. j - (k - 1) \in 1 .. n - k /\ j - (k - 1) + k = j + 1
          BY <2>n, <3>2
        <4>2. w[j] = back[j - (k - 1)]
          BY <2>n, <2>3, <2>4, <3>0, <3>2
        <4> QED
          BY <2>4, <3>2, <4>1, <4>2
      <3> QED
        BY <3>1, <3>2
    <2> DEFINE at(j) == IF j < k THEN j ELSE j + 1
    <2>7. /\ \A j \in 1 .. n - 1 : at(j) \in 1 .. n /\ at(j) # k /\ w[j] = c[at(j)]
          /\ \A i, j \in 1 .. n - 1 : (i < j => at(i) < at(j)) /\ (at(i) = at(j) => i = j)
      BY <1>1, <2>n, <2>1, <2>6
    <2>8. \A i \in 1 .. n : i # k => \E j \in 1 .. n - 1 : at(j) = i
      <3> SUFFICES ASSUME NEW i \in 1 .. n, i # k PROVE \E j \in 1 .. n - 1 : at(j) = i
        OBVIOUS
      <3>1. CASE i < k
        <4>1. i \in 1 .. n - 1 /\ at(i) = i
          BY <1>1, <2>n, <2>1, <3>1
        <4> QED
          BY <4>1
      <3>2. CASE k < i
        <4>1. i - 1 \in 1 .. n - 1 /\ at(i - 1) = i
          BY <1>1, <2>n, <2>1, <3>2
        <4> QED
          BY <4>1
      <3> QED
        BY <1>1, <2>n, <2>1, <3>1, <3>2
    <2> HIDE DEF at
    <2>9. \A i \in 1 .. n : Key(c[i]) = Key(s) => i = k
      BY <2>1 DEF Distinct, n
    <2>10. Distinct(w)
      <3>1. ASSUME NEW i \in 1 .. n - 1, NEW j \in 1 .. n - 1, Key(w[i]) = Key(w[j]) PROVE i = j
        <4>1. Key(c[at(i)]) = Key(c[at(j)])
          BY <2>7, <3>1
        <4>2. at(i) = at(j)
          BY <2>7, <4>1 DEF Distinct, n
        <4> QED
          BY <2>7, <4>2
      <3> QED
        BY <2>5, <3>1 DEF Distinct, n
    <2>11. KeysIn(w) = KeysIn(c) \ {Key(s)}
      <3>1. ASSUME NEW x \in KeysIn(w) PROVE x \in KeysIn(c) \ {Key(s)}
        <4>1. PICK j \in 1 .. n - 1 : x = Key(w[j])
          BY <2>5 DEF KeysIn, n
        <4>2. x = Key(c[at(j)]) /\ at(j) \in 1 .. n /\ at(j) # k
          BY <2>7, <4>1
        <4> QED
          BY <2>9, <4>2 DEF KeysIn, n
      <3>2. ASSUME NEW x \in KeysIn(c), x # Key(s) PROVE x \in KeysIn(w)
        <4>1. PICK i \in 1 .. n : x = Key(c[i])
          BY DEF KeysIn, n
        <4>2. i # k
          BY <2>1, <3>2, <4>1
        <4>3. PICK j \in 1 .. n - 1 : at(j) = i
          BY <2>8, <4>2
        <4>4. x = Key(w[j])
          BY <2>7, <4>1, <4>3
        <4> QED
          BY <2>5, <4>4 DEF KeysIn, n
      <3> QED
        BY <3>1, <3>2
    <2>12. ASSUME NEW T, Recent(c, T) PROVE Recent(w, T \ {Key(s)})
      <3>1. T \ {Key(s)} \subseteq KeysIn(w)
        BY <2>11, <2>12 DEF Recent, n
      <3>2. ASSUME NEW i \in 1 .. n - 1, NEW j \in 1 .. n - 1, i < j, Key(w[i]) \in T \ {Key(s)}
            PROVE  Key(w[j]) \in T \ {Key(s)}
        <4>1. at(i) < at(j) /\ Key(c[at(i)]) \in T
          BY <2>7, <3>2
        <4>2. Key(c[at(j)]) \in T /\ Key(c[at(j)]) # Key(s)
          BY <2>7, <2>9, <2>12, <4>1 DEF Recent, n
        <4> QED
          BY <2>7, <4>2
      <3> QED
        BY <2>5, <3>1, <3>2 DEF Recent, n
    <2> QED
      BY <1>4, <2>1, <2>5, <2>10, <2>11, <2>12 DEF w, k, n
  <1> QED
    BY <1>3, <1>4

\* A slot of a new key at the recent end.
LEMMA AppendIs ==
  ASSUME NEW c \in Seq(Slot), Distinct(c), NEW s \in Slot, Key(s) \notin KeysIn(c)
  PROVE  /\ Append(c, s) \in Seq(Slot) /\ Len(Append(c, s)) = Len(c) + 1
         /\ Distinct(Append(c, s))
         /\ KeysIn(Append(c, s)) = KeysIn(c) \cup {Key(s)}
         /\ \A T : Recent(c, T) => Recent(Append(c, s), T \cup {Key(s)})
  <1> DEFINE a == Append(c, s)
             n == Len(c)
  <1>1. /\ n \in Nat /\ a \in Seq(Slot) /\ Len(a) = n + 1 /\ a[n + 1] = s
        /\ \A i \in 1 .. n : a[i] = c[i]
    OBVIOUS
  <1>2. \A i \in 1 .. n + 1 : i = n + 1 \/ i \in 1 .. n
    BY <1>1
  <1> HIDE DEF a, n
  <1>3. \A i \in 1 .. n : Key(a[i]) # Key(s)
    BY <1>1 DEF KeysIn, n
  <1>4. n + 1 \in 1 .. n + 1 /\ 1 .. n \subseteq 1 .. n + 1
    BY <1>1
  <1>5. ASSUME NEW i \in 1 .. n + 1, NEW j \in 1 .. n + 1, Key(a[i]) = Key(a[j]) PROVE i = j
    <2>1. CASE i = n + 1 \/ j = n + 1
      BY <1>1, <1>2, <1>3, <1>5, <2>1
    <2>2. CASE i \in 1 .. n /\ j \in 1 .. n
      BY <1>1, <1>5, <2>2 DEF Distinct, n
    <2> QED
      BY <1>2, <2>1, <2>2
  <1>6. KeysIn(a) = KeysIn(c) \cup {Key(s)}
    <2>1. ASSUME NEW x \in KeysIn(a) PROVE x \in KeysIn(c) \cup {Key(s)}
      <3>1. PICK i \in 1 .. n + 1 : x = Key(a[i])
        BY <1>1 DEF KeysIn
      <3> QED
        BY <1>1, <1>2, <3>1 DEF KeysIn, n
    <2>2. KeysIn(c) \subseteq KeysIn(a)
      BY <1>1, <1>4 DEF KeysIn, n
    <2>3. Key(s) \in KeysIn(a)
      BY <1>1, <1>4 DEF KeysIn
    <2> QED
      BY <2>1, <2>2, <2>3
  <1>7. ASSUME NEW T, Recent(c, T) PROVE Recent(a, T \cup {Key(s)})
    <2>1. ASSUME NEW i \in 1 .. n + 1, NEW j \in 1 .. n + 1, i < j, Key(a[i]) \in T \cup {Key(s)}
          PROVE  Key(a[j]) \in T \cup {Key(s)}
      <3>1. CASE j = n + 1
        BY <1>1, <3>1
      <3>2. CASE j \in 1 .. n
        <4>1. i \in 1 .. n
          BY <1>1, <2>1, <3>2
        <4>2. Key(c[i]) \in T
          BY <1>1, <1>3, <2>1, <4>1
        <4>3. Key(c[j]) \in T
          BY <1>7, <2>1, <3>2, <4>1, <4>2 DEF Recent, n
        <4> QED
          BY <1>1, <3>2, <4>3
      <3> QED
        BY <1>2, <3>1, <3>2
    <2> QED
      BY <1>1, <1>6, <1>7, <2>1 DEF Recent
  <1> QED
    BY <1>1, <1>5, <1>6, <1>7 DEF a, n, Distinct

\* Evicting the least recently used slot.
LEMMA TailIs ==
  ASSUME NEW c \in Seq(Slot), Distinct(c), Len(c) > 0
  PROVE  /\ Tail(c) \in Seq(Slot) /\ Len(Tail(c)) = Len(c) - 1
         /\ Distinct(Tail(c))
         /\ KeysIn(Tail(c)) \subseteq KeysIn(c)
         /\ \A T : Recent(c, T) /\ IsFiniteSet(T) /\ Cardinality(T) < Len(c) => Recent(Tail(c), T)
  <1> DEFINE b == Tail(c)
             n == Len(c)
  <1>1. /\ n \in Nat /\ n > 0 /\ b \in Seq(Slot) /\ Len(b) = n - 1
        /\ \A i \in 1 .. n - 1 : b[i] = c[i + 1] /\ i + 1 \in 1 .. n
    OBVIOUS
  <1> HIDE DEF b, n
  <1>2. Distinct(b)
    <2>1. ASSUME NEW i \in 1 .. n - 1, NEW j \in 1 .. n - 1, Key(b[i]) = Key(b[j]) PROVE i = j
      <3>1. Key(c[i + 1]) = Key(c[j + 1])
        BY <1>1, <2>1
      <3>2. i + 1 = j + 1
        BY <1>1, <3>1 DEF Distinct, n
      <3> QED
        BY <3>2
    <2> QED
      BY <1>1, <2>1 DEF Distinct
  <1>3. KeysIn(b) \subseteq KeysIn(c)
    BY <1>1 DEF KeysIn, n
  <1>4. ASSUME NEW T, Recent(c, T), IsFiniteSet(T), Cardinality(T) < n PROVE Recent(b, T)
    <2>1. Key(c[1]) \notin T
      <3> SUFFICES ASSUME Key(c[1]) \in T PROVE FALSE
        OBVIOUS
      <3>1. \A i \in 1 .. n : Key(c[i]) \in T
        BY <1>1, <1>4 DEF Recent, n
      <3> DEFINE f == [i \in 1 .. n |-> Key(c[i])]
      <3>2. f \in [1 .. n -> T]
        BY <3>1
      <3>3. IsFiniteSet(1 .. n) /\ Cardinality(1 .. n) = n
        BY <1>1, FS_Interval
      <3> HIDE DEF f
      <3>4. \E i, j \in 1 .. n : i # j /\ f[i] = f[j]
        BY <1>1, <1>4, <3>2, <3>3, FS_PigeonHole
      <3> QED
        BY <3>4 DEF f, Distinct, n
    <2>2. T \subseteq KeysIn(b)
      <3> SUFFICES ASSUME NEW x \in T PROVE x \in KeysIn(b)
        OBVIOUS
      <3>1. PICK i \in 1 .. n : x = Key(c[i])
        BY <1>4 DEF Recent, KeysIn, n
      <3>2. i - 1 \in 1 .. n - 1 /\ (i - 1) + 1 = i
        BY <1>1, <2>1, <3>1
      <3>3. x = Key(b[i - 1])
        BY <1>1, <3>1, <3>2
      <3> QED
        BY <1>1, <3>2, <3>3 DEF KeysIn
    <2>3. ASSUME NEW i \in 1 .. n - 1, NEW j \in 1 .. n - 1, i < j, Key(b[i]) \in T
          PROVE  Key(b[j]) \in T
      <3>1. i + 1 < j + 1 /\ Key(c[i + 1]) \in T
        BY <1>1, <2>3
      <3>2. Key(c[j + 1]) \in T
        BY <1>1, <1>4, <3>1 DEF Recent, n
      <3> QED
        BY <1>1, <3>2
    <2> QED
      BY <1>1, <2>2, <2>3 DEF Recent
  <1> QED
    BY <1>1, <1>2, <1>3, <1>4 DEF b, n

\* The two projections of an expert.
Projs == {"gate_up", "down"}

\* The keys of the slots that the experts es need in a projection.
Wants(proj, es) == {<<layer, proj, e>> : e \in es}

\* The slot of an expert of the current layer.
LEMMA SlotOfIs ==
  ASSUME layer \in Layers, NEW proj \in Projs, NEW e \in Experts, NEW kind \in {"nvfp4", "dense"}
  PROVE  SlotOf(proj, e, kind) \in Slot /\ Key(SlotOf(proj, e, kind)) = <<layer, proj, e>>
  BY DEF SlotOf, Slot, Key, Projs

\* An expert's slot is resident if its key is in the list.
LEMMA HasIs ==
  ASSUME layer \in Layers, NEW c \in Seq(Slot), NEW proj \in Projs, NEW e \in Experts
  PROVE  Has(c, proj, e) <=> <<layer, proj, e>> \in KeysIn(c)
  <1> DEFINE s == SlotOf(proj, e, "nvfp4")
  <1>1. s \in Slot /\ Key(s) = <<layer, proj, e>>
    BY SlotOfIs
  <1>2. DOMAIN c = 1 .. Len(c) /\ \A i \in 1 .. Len(c) : c[i] \in Slot
    OBVIOUS
  <1> HIDE DEF s
  <1>3. \A i \in 1 .. Len(c) : SameKey(c[i], s) <=> Key(c[i]) = Key(s)
    BY <1>1, <1>2, SameKeyIs
  <1>4. Has(c, proj, e) <=> \E i \in 1 .. Len(c) : SameKey(c[i], s)
    BY <1>2 DEF Has, Find, ToSet, s
  <1> QED
    BY <1>1, <1>3, <1>4 DEF KeysIn

\* A touch moves a slot and changes nothing else.
LEMMA TouchIs ==
  ASSUME config \in Config, layer \in Layers,
         NEW c, Lru(c), NEW proj \in Projs, NEW e \in Experts
  PROVE  /\ Lru(Touch(c, proj, e))
         /\ KeysIn(Touch(c, proj, e)) = KeysIn(c)
         /\ \A T : Recent(c, T) =>
              Recent(Touch(c, proj, e), T \cup (Wants(proj, {e}) \cap KeysIn(c)))
  <1> DEFINE s == SlotOf(proj, e, "nvfp4")
             k == <<layer, proj, e>>
             w == Without(c, s)
             t == c[Place(c, s)]
  <1>1. s \in Slot /\ Key(s) = k
    BY SlotOfIs
  <1>2. c \in Seq(Slot) /\ Distinct(c) /\ Len(c) <= Capacity /\ Capacity \in Nat
    BY CapacityIs DEF Lru
  <1>3. Has(c, proj, e) <=> k \in KeysIn(c)
    BY <1>2, HasIs
  <1>4. Touch(c, proj, e) = IF Has(c, proj, e) THEN Append(w, t) ELSE c
    BY DEF Touch
  <1>5. Wants(proj, {e}) = {k}
    BY DEF Wants
  <1> HIDE DEF k, s
  <1>6. CASE k \notin KeysIn(c)
    <2>1. Touch(c, proj, e) = c /\ Wants(proj, {e}) \cap KeysIn(c) = {}
      BY <1>3, <1>4, <1>5, <1>6
    <2>2. \A T : T \cup (Wants(proj, {e}) \cap KeysIn(c)) = T
      BY <2>1
    <2> QED
      BY <2>1, <2>2
  <1>7. CASE k \in KeysIn(c)
    <2>1. /\ w \in Seq(Slot) /\ Distinct(w) /\ KeysIn(w) = KeysIn(c) \ {k}
          /\ Len(w) = Len(c) - 1 /\ Place(c, s) \in 1 .. Len(c) /\ Key(t) = k
      BY <1>1, <1>2, <1>7, WithoutIs
    <2>2. t \in Slot /\ Key(t) \notin KeysIn(w)
      BY <1>2, <2>1
    <2>3. \A T : Recent(c, T) => Recent(w, T \ {k})
      BY <1>1, <1>2, WithoutIs
    <2>4. Touch(c, proj, e) = Append(w, t)
      BY <1>3, <1>4, <1>7
    <2> HIDE DEF w, t
    <2>5. /\ Append(w, t) \in Seq(Slot) /\ Len(Append(w, t)) = Len(w) + 1
          /\ Distinct(Append(w, t)) /\ KeysIn(Append(w, t)) = KeysIn(w) \cup {k}
          /\ \A T : Recent(w, T) => Recent(Append(w, t), T \cup {k})
      BY <2>1, <2>2, AppendIs
    <2>6. Lru(Append(w, t))
      <3>1. Len(c) \in Nat
        BY <1>2
      <3>2. Len(Append(w, t)) = Len(c)
        BY <2>1, <2>5, <3>1
      <3> QED
        BY <1>2, <2>5, <3>2 DEF Lru
    <2>7. KeysIn(Append(w, t)) = KeysIn(c)
      BY <1>7, <2>1, <2>5
    <2>8. ASSUME NEW T, Recent(c, T)
          PROVE  Recent(Append(w, t), T \cup (Wants(proj, {e}) \cap KeysIn(c)))
      <3>1. Recent(Append(w, t), (T \ {k}) \cup {k})
        BY <2>3, <2>5, <2>8
      <3>2. (T \ {k}) \cup {k} = T \cup (Wants(proj, {e}) \cap KeysIn(c))
        BY <1>5, <1>7
      <3> QED
        BY <3>1, <3>2
    <2> QED
      BY <2>4, <2>6, <2>7, <2>8
  <1> QED
    BY <1>6, <1>7

\* A put makes its slot the most recent, and evicts none of T as long as T and the slot
\* fit.
LEMMA PutIs ==
  ASSUME config \in Config, NEW c, Lru(c), NEW s \in Slot
  PROVE  /\ Lru(Put(c, s))
         /\ \A T : Recent(c, T) /\ IsFiniteSet(T) /\ Cardinality(T \cup {Key(s)}) <= Capacity =>
              Recent(Put(c, s), T \cup {Key(s)})
  <1> DEFINE k == Key(s)
             w == Without(c, s)
             r == IF Len(w) = Capacity THEN Tail(w) ELSE w
  <1>1. c \in Seq(Slot) /\ Distinct(c) /\ Len(c) <= Capacity /\ Capacity \in Nat \ {0}
    BY CapacityIs DEF Lru
  <1>2. /\ w \in Seq(Slot) /\ Distinct(w) /\ KeysIn(w) = KeysIn(c) \ {k}
        /\ \A T : Recent(c, T) => Recent(w, T \ {k})
    BY <1>1, WithoutIs
  <1>3. Len(w) <= Capacity
    <2>1. CASE k \in KeysIn(c)
      <3>1. Len(w) = Len(c) - 1 /\ Len(c) \in Nat
        BY <1>1, <2>1, WithoutIs
      <3> QED
        BY <1>1, <3>1
    <2>2. CASE k \notin KeysIn(c)
      <3>1. w = c
        BY <1>1, <2>2, WithoutIs
      <3> QED
        BY <1>1, <3>1
    <2> QED
      BY <2>1, <2>2
  <1>4. Put(c, s) = Append(r, s)
    BY DEF Put
  <1> HIDE DEF w
  <1>5. /\ r \in Seq(Slot) /\ Distinct(r) /\ KeysIn(r) \subseteq KeysIn(w) /\ Len(r) < Capacity
        /\ \A T : Recent(w, T) /\ IsFiniteSet(T) /\ Cardinality(T) < Capacity => Recent(r, T)
    <2>0. Len(w) \in Nat
      BY <1>2
    <2>1. CASE Len(w) = Capacity
      <3>1. Len(w) > 0 /\ r = Tail(w)
        BY <1>1, <2>1
      <3>2. /\ Tail(w) \in Seq(Slot) /\ Len(Tail(w)) = Len(w) - 1 /\ Distinct(Tail(w))
            /\ KeysIn(Tail(w)) \subseteq KeysIn(w)
            /\ \A T : Recent(w, T) /\ IsFiniteSet(T) /\ Cardinality(T) < Len(w) =>
                 Recent(Tail(w), T)
        BY <1>2, <3>1, TailIs
      <3>3. Len(Tail(w)) < Capacity
        BY <1>1, <2>1, <3>2
      <3> QED
        BY <2>1, <3>1, <3>2, <3>3
    <2>2. CASE Len(w) # Capacity
      <3>1. r = w /\ Len(w) < Capacity
        BY <1>1, <1>3, <2>0, <2>2
      <3> QED
        BY <1>2, <3>1
    <2> QED
      BY <2>1, <2>2
  <1> HIDE DEF r, k
  <1>6. Key(s) = k
    BY DEF k
  <1>7. /\ Append(r, s) \in Seq(Slot) /\ Len(Append(r, s)) = Len(r) + 1 /\ Distinct(Append(r, s))
        /\ \A T : Recent(r, T) => Recent(Append(r, s), T \cup {k})
    BY <1>2, <1>5, <1>6, AppendIs
  <1>8. Lru(Append(r, s))
    <2>1. Len(r) \in Nat
      BY <1>5
    <2> QED
      BY <1>1, <1>5, <1>7, <2>1 DEF Lru
  <1>9. ASSUME NEW T, Recent(c, T), IsFiniteSet(T), Cardinality(T \cup {k}) <= Capacity
        PROVE  Recent(Append(r, s), T \cup {k})
    <2> DEFINE U == T \ {k}
    <2>1. IsFiniteSet(U) /\ U \cup {k} = T \cup {k} /\ k \notin U
      BY <1>9, FS_RemoveElement
    <2> HIDE DEF U
    <2>2. Cardinality(U) \in Nat /\ Cardinality(U \cup {k}) = Cardinality(U) + 1
      BY <2>1, FS_AddElement, FS_CardinalityType
    <2>a. \A x, y \in Nat : x + 1 <= y => x < y
      OBVIOUS
    <2>b. Cardinality(U) + 1 <= Capacity /\ Capacity \in Nat
      BY <1>1, <1>9, <2>1, <2>2
    <2>3. Cardinality(U) < Capacity
      BY <2>2, <2>a, <2>b
    <2>4. Recent(w, U)
      BY <1>2, <1>9 DEF U
    <2>5. Recent(r, U)
      BY <1>5, <2>1, <2>3, <2>4
    <2>6. Recent(Append(r, s), U \cup {k})
      BY <1>7, <2>5
    <2> QED
      BY <2>1, <2>6
  <1> QED
    BY <1>4, <1>6, <1>8, <1>9

\* The ascending order of a set of experts.
LEMMA AscendingIs ==
  ASSUME NEW es \in SUBSET Experts
  PROVE  /\ IsFiniteSet(es) /\ Ascending(es) \in Seq(es)
         /\ Len(Ascending(es)) = Cardinality(es)
         /\ ToSet(Ascending(es)) = es
         /\ \A i, j \in 1 .. Cardinality(es) : i < j => Ascending(es)[i] < Ascending(es)[j]
  <1>1. es \in SUBSET Nat /\ IsFiniteSet(es)
    <2>1. es \subseteq Nat /\ Experts \subseteq Nat
      BY PoolAssumption DEF Experts
    <2>2. IsFiniteSet(Experts)
      BY PoolAssumption, FS_Interval DEF Experts
    <2> QED
      BY <2>1, <2>2, FS_Subset
  <1>2. /\ Ascending(es) \in Seq(es) /\ Len(Ascending(es)) = Cardinality(es)
        /\ {Ascending(es)[i] : i \in 1 .. Cardinality(es)} = es
        /\ \A i, j \in 1 .. Cardinality(es) : i < j => Ascending(es)[i] < Ascending(es)[j]
    BY <1>1, AscendingOrder
  <1> QED
    BY <1>1, <1>2 DEF ToSet

\* The values of the folds over the list, and their steps as functions.
Caches == {c \in Seq(Slot) : Lru(c)}

TouchStep(proj) == [p \in Caches \X Experts |-> Touch(p[1], proj, p[2])]

PutStep == [p \in Caches \X Slot |-> Put(p[1], p[2])]

\* TouchAll is the last value of a run of touches.
LEMMA TouchRun ==
  ASSUME config \in Config, layer \in Layers,
         NEW c \in Caches, NEW proj \in Projs, NEW es \in SUBSET Experts
  PROVE  \E g : /\ IsRun(g, c, TouchStep(proj), Ascending(es), Caches)
                /\ TouchAll(c, proj, es) = g[Len(Ascending(es))]
  <1> DEFINE s == Ascending(es)
             step == TouchStep(proj)
             D == 1 .. Len(s)
             iter == CHOOSE h : h = [T \in SUBSET D |->
                                       IF T = {} THEN c
                                       ELSE Touch(h[T \ {Max(T)}], proj, s[Max(T)])]
  <1>s. s \in Seq(Experts) /\ Len(s) \in Nat /\ DOMAIN s = D
    <2>1. s \in Seq(es)
      BY AscendingIs
    <2> QED
      BY <2>1
  <1>1. TouchAll(c, proj, es) = iter[D]
    BY <1>s DEF TouchAll, FoldLeft, MapThenFoldSet
  <1>2. \A v \in Caches : \A e \in Experts : step[<<v, e>>] = Touch(v, proj, e)
    BY DEF TouchStep
  <1>3. IsSeqStep(step, Caches, Experts)
    <2>1. \A v \in Caches : \A e \in Experts : Touch(v, proj, e) \in Caches
      BY TouchIs DEF Caches, Lru
    <2> QED
      BY <2>1 DEF IsSeqStep, TouchStep
  <1>a. \A i \in D : s[i] \in Experts
    BY <1>s
  <1> HIDE DEF iter, s, step
  <1>4. ASSUME NEW T \in SUBSET D, T # {}
        PROVE  Max(T) \in D /\ s[Max(T)] \in Experts /\ T \ {Max(T)} \in SUBSET D
    <2>1. Max(T) \in T
      BY <1>s, <1>4, MaxIndex
    <2> QED
      BY <1>a, <2>1
  <1>5. \E h : h = [T \in SUBSET D |-> IF T = {} THEN c
                                       ELSE Touch(h[T \ {Max(T)}], proj, s[Max(T)])]
    <2>a. PICK h : SolvesFold(h, c, step, s, Caches)
      BY <1>s, <1>3, SeqFoldSolved
    <2>1. h \in [SUBSET D -> Caches] /\ \A T \in SUBSET D :
            h[T] = IF T = {} THEN c ELSE step[<<h[T \ {Max(T)}], s[Max(T)]>>]
      BY <2>a DEF SolvesFold
    <2>2. ASSUME NEW T \in SUBSET D
          PROVE  h[T] = IF T = {} THEN c ELSE Touch(h[T \ {Max(T)}], proj, s[Max(T)])
      <3>1. CASE T = {}
        BY <2>1, <3>1
      <3>2. CASE T # {}
        <4>1. h[T \ {Max(T)}] \in Caches /\ s[Max(T)] \in Experts
          BY <1>4, <2>1, <3>2
        <4>2. h[T] = step[<<h[T \ {Max(T)}], s[Max(T)]>>]
          BY <2>1, <3>2
        <4> QED
          BY <1>2, <3>2, <4>1, <4>2
      <3> QED
        BY <3>1, <3>2
    <2> HIDE DEF D
    <2>3. h = [T \in SUBSET D |-> IF T = {} THEN c
                                  ELSE Touch(h[T \ {Max(T)}], proj, s[Max(T)])]
      BY <2>1, <2>2, Zenon
    <2> QED
      BY <2>3
  <1> HIDE DEF D
  <1>6. \A T \in SUBSET D :
          iter[T] = IF T = {} THEN c ELSE Touch(iter[T \ {Max(T)}], proj, s[Max(T)])
    BY <1>5 DEF iter
  <1>7. FoldsBy(iter, c, step, s, Caches)
    <2>1. iter[{}] = c
      BY <1>6
    <2>2. ASSUME NEW T \in SUBSET D, T # {}, iter[T \ {Max(T)}] \in Caches
          PROVE  iter[T] = step[<<iter[T \ {Max(T)}], s[Max(T)]>>]
      <3>1. s[Max(T)] \in Experts
        BY <1>4, <2>2
      <3>2. iter[T] = Touch(iter[T \ {Max(T)}], proj, s[Max(T)])
        BY <1>6, <2>2
      <3> QED
        BY <1>2, <2>2, <3>1, <3>2
    <2> QED
      BY <2>1, <2>2 DEF D, FoldsBy
  <1>8. \E g : IsRun(g, c, step, s, Caches) /\ g[Len(s)] = iter[1 .. Len(s)]
    BY <1>s, <1>3, <1>7, SeqFoldRun
  <1> QED
    BY <1>1, <1>8 DEF D, s, step

\* PutAll is the last value of a run of puts.
LEMMA PutRun ==
  ASSUME config \in Config, NEW c \in Caches, NEW s \in Seq(Slot)
  PROVE  \E g : IsRun(g, c, PutStep, s, Caches) /\ PutAll(c, s) = g[Len(s)]
  <1> DEFINE step == PutStep
             D == 1 .. Len(s)
             iter == CHOOSE h : h = [T \in SUBSET D |->
                                       IF T = {} THEN c
                                       ELSE Put(h[T \ {Max(T)}], s[Max(T)])]
  <1>s. s \in Seq(Slot) /\ Len(s) \in Nat /\ DOMAIN s = D
    OBVIOUS
  <1>1. PutAll(c, s) = iter[D]
    BY <1>s DEF PutAll, FoldLeft, MapThenFoldSet
  <1>2. \A v \in Caches : \A e \in Slot : step[<<v, e>>] = Put(v, e)
    BY DEF PutStep
  <1>3. IsSeqStep(step, Caches, Slot)
    <2>1. \A v \in Caches : \A e \in Slot : Put(v, e) \in Caches
      BY PutIs DEF Caches, Lru
    <2> QED
      BY <2>1 DEF IsSeqStep, PutStep
  <1>a. \A i \in D : s[i] \in Slot
    BY <1>s
  <1> HIDE DEF iter, step
  <1>4. ASSUME NEW T \in SUBSET D, T # {}
        PROVE  Max(T) \in D /\ s[Max(T)] \in Slot /\ T \ {Max(T)} \in SUBSET D
    <2>1. Max(T) \in T
      BY <1>s, <1>4, MaxIndex
    <2> QED
      BY <1>a, <2>1
  <1>5. \E h : h = [T \in SUBSET D |-> IF T = {} THEN c
                                       ELSE Put(h[T \ {Max(T)}], s[Max(T)])]
    <2>a. PICK h : SolvesFold(h, c, step, s, Caches)
      BY <1>s, <1>3, SeqFoldSolved
    <2>1. h \in [SUBSET D -> Caches] /\ \A T \in SUBSET D :
            h[T] = IF T = {} THEN c ELSE step[<<h[T \ {Max(T)}], s[Max(T)]>>]
      BY <2>a DEF SolvesFold
    <2>2. ASSUME NEW T \in SUBSET D
          PROVE  h[T] = IF T = {} THEN c ELSE Put(h[T \ {Max(T)}], s[Max(T)])
      <3>1. CASE T = {}
        BY <2>1, <3>1
      <3>2. CASE T # {}
        <4>1. h[T \ {Max(T)}] \in Caches /\ s[Max(T)] \in Slot
          BY <1>4, <2>1, <3>2
        <4>2. h[T] = step[<<h[T \ {Max(T)}], s[Max(T)]>>]
          BY <2>1, <3>2
        <4> QED
          BY <1>2, <3>2, <4>1, <4>2
      <3> QED
        BY <3>1, <3>2
    <2> HIDE DEF D
    <2>3. h = [T \in SUBSET D |-> IF T = {} THEN c
                                  ELSE Put(h[T \ {Max(T)}], s[Max(T)])]
      BY <2>1, <2>2, Zenon
    <2> QED
      BY <2>3
  <1> HIDE DEF D
  <1>6. \A T \in SUBSET D :
          iter[T] = IF T = {} THEN c ELSE Put(iter[T \ {Max(T)}], s[Max(T)])
    BY <1>5 DEF iter
  <1>7. FoldsBy(iter, c, step, s, Caches)
    <2>1. iter[{}] = c
      BY <1>6
    <2>2. ASSUME NEW T \in SUBSET D, T # {}, iter[T \ {Max(T)}] \in Caches
          PROVE  iter[T] = step[<<iter[T \ {Max(T)}], s[Max(T)]>>]
      <3>1. s[Max(T)] \in Slot
        BY <1>4, <2>2
      <3>2. iter[T] = Put(iter[T \ {Max(T)}], s[Max(T)])
        BY <1>6, <2>2
      <3> QED
        BY <1>2, <2>2, <3>1, <3>2
    <2> QED
      BY <2>1, <2>2 DEF D, FoldsBy
  <1>8. \E g : IsRun(g, c, step, s, Caches) /\ g[Len(s)] = iter[1 .. Len(s)]
    BY <1>s, <1>3, <1>7, SeqFoldRun
  <1> QED
    BY <1>1, <1>8 DEF D, step

\* Touching a set of experts changes no key, and makes those of them that are resident
\* the recent ones.
LEMMA TouchAllIs ==
  ASSUME config \in Config, layer \in Layers,
         NEW c, Lru(c), NEW proj \in Projs, NEW es \in SUBSET Experts
  PROVE  /\ Lru(TouchAll(c, proj, es))
         /\ KeysIn(TouchAll(c, proj, es)) = KeysIn(c)
         /\ \A T : Recent(c, T) =>
              Recent(TouchAll(c, proj, es), T \cup (Wants(proj, es) \cap KeysIn(c)))
  <1> DEFINE a == Ascending(es)
             n == Len(a)
             K == KeysIn(c)
             First(i) == {a[j] : j \in 1 .. i}
  <1>0. c \in Caches
    BY DEF Caches, Lru
  <1>1. a \in Seq(Experts) /\ n \in Nat /\ (\A i \in 1 .. n : a[i] \in Experts) /\ First(n) = es
    <2>1. a \in Seq(es) /\ ToSet(a) = es
      BY AscendingIs
    <2>2. DOMAIN a = 1 .. n
      BY <2>1
    <2> QED
      BY <2>1, <2>2 DEF ToSet
  <1>2. PICK g : IsRun(g, c, TouchStep(proj), a, Caches) /\ TouchAll(c, proj, es) = g[n]
    BY <1>0, TouchRun
  <1> HIDE DEF a, n, K
  <1>a. n = Len(a)
    BY DEF n
  <1>3. /\ g[0] = c /\ \A i \in 0 .. n : g[i] \in Caches
        /\ \A i \in 1 .. n : g[i] = Touch(g[i - 1], proj, a[i])
    <2>1. /\ g \in [0 .. n -> Caches] /\ g[0] = c
          /\ \A i \in 1 .. n : g[i] = TouchStep(proj)[<<g[i - 1], a[i]>>]
      BY <1>2, <1>a DEF IsRun
    <2>2. \A i \in 1 .. n : i - 1 \in 0 .. n
      BY <1>1
    <2> QED
      BY <1>1, <2>1, <2>2 DEF TouchStep
  <1> DEFINE Good(i) == /\ KeysIn(g[i]) = K
                        /\ \A T : Recent(c, T) =>
                             Recent(g[i], T \cup (Wants(proj, First(i)) \cap K))
             G == {i \in 0 .. n : Good(i)}
  <1>4. 0 \in G
    <2>1. Wants(proj, First(0)) = {}
      BY DEF Wants
    <2>2. KeysIn(g[0]) = K
      BY <1>3 DEF K
    <2>3. ASSUME NEW T, Recent(c, T) PROVE Recent(g[0], T \cup (Wants(proj, First(0)) \cap K))
      <3> DEFINE E == Wants(proj, First(0)) \cap K
      <3>1. E = {}
        BY <2>1
      <3> HIDE DEF E
      <3>2. T \cup E = T
        BY <3>1
      <3>3. Recent(g[0], T \cup E)
        BY <1>3, <2>3, <3>2
      <3> QED
        BY <3>3 DEF E
    <2>4. 0 \in 0 .. n
      BY <1>1
    <2> HIDE DEF First
    <2> QED
      BY <2>2, <2>3, <2>4
  <1>5. ASSUME NEW i \in 0 .. n - 1, i \in G PROVE i + 1 \in G
    <2>1. i + 1 \in 1 .. n /\ (i + 1) - 1 = i /\ i \in 0 .. n
      BY <1>1
    <2>2. g[i + 1] = Touch(g[i], proj, a[i + 1]) /\ a[i + 1] \in Experts /\ Lru(g[i])
      BY <1>1, <1>3, <2>1 DEF Caches
    <2>a. ASSUME NEW v, Lru(v), NEW e \in Experts
          PROVE  /\ KeysIn(Touch(v, proj, e)) = KeysIn(v)
                 /\ \A T : Recent(v, T) =>
                      Recent(Touch(v, proj, e), T \cup (Wants(proj, {e}) \cap KeysIn(v)))
      BY <2>a, TouchIs
    <2>3. /\ KeysIn(g[i + 1]) = KeysIn(g[i])
          /\ \A T : Recent(g[i], T) =>
               Recent(g[i + 1], T \cup (Wants(proj, {a[i + 1]}) \cap KeysIn(g[i])))
      BY <2>2, <2>a
    <2>4. First(i + 1) = First(i) \cup {a[i + 1]}
      <3>1. 1 .. i + 1 = (1 .. i) \cup {i + 1}
        BY <2>1
      <3> QED
        BY <3>1
    <2>5. Wants(proj, First(i + 1)) = Wants(proj, First(i)) \cup Wants(proj, {a[i + 1]})
      BY <2>4 DEF Wants
    <2> HIDE DEF First
    <2>6. Good(i)
      BY <1>5
    <2>7. ASSUME NEW T, Recent(c, T)
          PROVE  Recent(g[i + 1], T \cup (Wants(proj, First(i + 1)) \cap K))
      <3>1. Recent(g[i], T \cup (Wants(proj, First(i)) \cap K)) /\ KeysIn(g[i]) = K
        BY <2>6, <2>7
      <3>2. Recent(g[i + 1], (T \cup (Wants(proj, First(i)) \cap K))
                             \cup (Wants(proj, {a[i + 1]}) \cap K))
        BY <2>3, <3>1
      <3>3. (T \cup (Wants(proj, First(i)) \cap K)) \cup (Wants(proj, {a[i + 1]}) \cap K)
              = T \cup (Wants(proj, First(i + 1)) \cap K)
        BY <2>5
      <3> QED
        BY <3>2, <3>3
    <2> QED
      BY <2>1, <2>3, <2>6, <2>7
  <1> HIDE DEF G
  <1>6. \A i \in 0 .. n : i \in G
    BY <1>1, <1>4, <1>5, UpToInduction
  <1>7. Good(n)
    <2>1. n \in 0 .. n
      BY <1>1
    <2> HIDE DEF Good
    <2> QED
      BY <1>6, <2>1 DEF G
  <1>8. Lru(g[n])
    BY <1>1, <1>3 DEF Caches
  <1> QED
    BY <1>1, <1>2, <1>7, <1>8 DEF K

\* Putting slots makes them the recent ones, and evicts none of T as long as T and the
\* slots fit.
LEMMA PutAllIs ==
  ASSUME config \in Config, NEW c, Lru(c), NEW s \in Seq(Slot)
  PROVE  /\ Lru(PutAll(c, s))
         /\ \A T : Recent(c, T) /\ IsFiniteSet(T) /\ Cardinality(T \cup KeysIn(s)) <= Capacity =>
              Recent(PutAll(c, s), T \cup KeysIn(s))
  <1> DEFINE n == Len(s)
             First(i) == {Key(s[j]) : j \in 1 .. i}
  <1>0. c \in Caches /\ Capacity \in Nat
    BY CapacityIs DEF Caches, Lru
  <1>1. n \in Nat /\ (\A i \in 1 .. n : s[i] \in Slot) /\ First(n) = KeysIn(s)
    BY DEF KeysIn
  <1>2. PICK g : IsRun(g, c, PutStep, s, Caches) /\ PutAll(c, s) = g[n]
    BY <1>0, PutRun
  <1> HIDE DEF n
  <1>a. n = Len(s)
    BY DEF n
  <1>3. /\ g[0] = c /\ \A i \in 0 .. n : g[i] \in Caches
        /\ \A i \in 1 .. n : g[i] = Put(g[i - 1], s[i])
    <2>1. /\ g \in [0 .. n -> Caches] /\ g[0] = c
          /\ \A i \in 1 .. n : g[i] = PutStep[<<g[i - 1], s[i]>>]
      BY <1>2, <1>a DEF IsRun
    <2>2. \A i \in 1 .. n : i - 1 \in 0 .. n
      BY <1>1
    <2> QED
      BY <1>1, <2>1, <2>2 DEF PutStep
  <1>4. Lru(g[n])
    BY <1>1, <1>3 DEF Caches
  <1>5. ASSUME NEW T, Recent(c, T), IsFiniteSet(T), Cardinality(T \cup KeysIn(s)) <= Capacity
        PROVE  Recent(g[n], T \cup KeysIn(s))
    <2> DEFINE G == {i \in 0 .. n : Recent(g[i], T \cup First(i))}
    <2>1. IsFiniteSet(T \cup KeysIn(s)) /\ Cardinality(T \cup KeysIn(s)) \in Nat
      <3>1. IsFiniteSet(1 .. n)
        BY <1>1, FS_Interval
      <3> DEFINE f == [j \in 1 .. n |-> Key(s[j])]
      <3>a. f \in Surjection(1 .. n, KeysIn(s))
        BY <1>1, <1>a DEF Surjection, KeysIn
      <3> HIDE DEF f
      <3>2. IsFiniteSet(KeysIn(s))
        BY <3>1, <3>a, FS_Surjection
      <3> QED
        BY <1>5, <3>2, FS_Union, FS_CardinalityType
    <2>2. ASSUME NEW i \in 0 .. n
          PROVE  /\ IsFiniteSet(T \cup First(i)) /\ Cardinality(T \cup First(i)) \in Nat
                 /\ Cardinality(T \cup First(i)) <= Capacity
      <3>1. T \cup First(i) \subseteq T \cup KeysIn(s)
        <4>1. 1 .. i \subseteq 1 .. n
          BY <1>1
        <4> QED
          BY <1>1, <4>1
      <3>2. /\ IsFiniteSet(T \cup First(i))
            /\ Cardinality(T \cup First(i)) <= Cardinality(T \cup KeysIn(s))
        BY <2>1, <3>1, FS_Subset
      <3>3. Cardinality(T \cup First(i)) \in Nat
        BY <3>2, FS_CardinalityType
      <3> QED
        BY <1>0, <1>5, <2>1, <3>2, <3>3
    <2>3. 0 \in G
      <3>1. First(0) = {}
        OBVIOUS
      <3> HIDE DEF First
      <3>2. T \cup First(0) = T /\ 0 \in 0 .. n
        BY <1>1, <3>1
      <3>3. Recent(g[0], T \cup First(0))
        BY <1>3, <1>5, <3>2
      <3> QED
        BY <3>2, <3>3
    <2>4. ASSUME NEW i \in 0 .. n - 1, i \in G PROVE i + 1 \in G
      <3>1. i + 1 \in 1 .. n /\ (i + 1) - 1 = i /\ i \in 0 .. n /\ i + 1 \in 0 .. n
        BY <1>1
      <3>2. g[i + 1] = Put(g[i], s[i + 1]) /\ s[i + 1] \in Slot /\ Lru(g[i])
        BY <1>1, <1>3, <3>1 DEF Caches
      <3>3. First(i + 1) = First(i) \cup {Key(s[i + 1])}
        <4>1. 1 .. i + 1 = (1 .. i) \cup {i + 1}
          BY <3>1
        <4> QED
          BY <4>1
      <3> HIDE DEF First
      <3>4. (T \cup First(i)) \cup {Key(s[i + 1])} = T \cup First(i + 1)
        BY <3>3
      <3>5. /\ Recent(g[i], T \cup First(i)) /\ IsFiniteSet(T \cup First(i))
            /\ Cardinality((T \cup First(i)) \cup {Key(s[i + 1])}) <= Capacity
        BY <2>2, <2>4, <3>1, <3>4
      <3>6. Recent(g[i + 1], (T \cup First(i)) \cup {Key(s[i + 1])})
        BY <3>2, <3>5, PutIs
      <3> QED
        BY <3>1, <3>4, <3>6
    <2> HIDE DEF G
    <2>5. \A i \in 0 .. n : i \in G
      BY <1>1, <2>3, <2>4, UpToInduction
    <2>6. n \in 0 .. n
      BY <1>1
    <2> HIDE DEF First
    <2>7. Recent(g[n], T \cup First(n))
      BY <2>5, <2>6 DEF G
    <2> QED
      BY <1>1, <2>7
  <1> QED
    BY <1>2, <1>4, <1>5

\* Flattening loses nothing.
LEMMA FlattenIs ==
  ASSUME NEW F, NEW ss \in Seq(Seq(F))
  PROVE  /\ FlattenSeq(ss) \in Seq(F)
         /\ ToSet(FlattenSeq(ss)) = UNION {ToSet(ss[i]) : i \in 1 .. Len(ss)}
  <1> DEFINE n == Len(ss)
             V == Seq(F)
             flatten == CHOOSE f : f = [i \in 1 .. n |-> IF i = 1 THEN ss[i] ELSE f[i - 1] \o ss[i]]
             All(k) == UNION {ToSet(ss[i]) : i \in 1 .. k}
  <1>1. n \in Nat /\ \A i \in 1 .. n : ss[i] \in V
    OBVIOUS
  <1>2. FlattenSeq(ss) = IF n = 0 THEN ss ELSE flatten[n]
    BY DEF FlattenSeq
  <1>3. CASE n = 0
    <2>1. FlattenSeq(ss) = <<>> /\ <<>> \in Seq(F)
      BY <1>2, <1>3
    <2>2. ToSet(<<>>) = {} /\ All(n) = {}
      BY <1>3 DEF ToSet
    <2> QED
      BY <2>1, <2>2
  <1>4. CASE n # 0
    <2> HIDE DEF flatten, n, All
    <2>1. \E f : f = [i \in 1 .. n |-> IF i = 1 THEN ss[i] ELSE f[i - 1] \o ss[i]]
      <3> DEFINE step == [p \in (1 .. n) \X V |-> p[2] \o ss[p[1]]]
      <3>1. IsStep(step, n, V) /\ <<>> \in V
        <4>1. \A p \in (1 .. n) \X V : p[2] \o ss[p[1]] \in V
          BY <1>1
        <4> QED
          BY <4>1 DEF IsStep
      <3>2. PICK r : RecUpTo(r, <<>>, step, n, V)
        BY <1>1, <3>1, UpToRecursion
      <3>3. /\ r \in [0 .. n -> V] /\ r[0] = <<>>
            /\ \A i \in 1 .. n : r[i] = step[<<i, r[i - 1]>>]
        BY <3>2 DEF RecUpTo
      <3>4. ASSUME NEW i \in 1 .. n
            PROVE  i - 1 \in 0 .. n /\ r[i - 1] \in V /\ r[i] = r[i - 1] \o ss[i]
        <4>1. i - 1 \in 0 .. n
          BY <1>1
        <4> HIDE DEF V
        <4>2. r[i - 1] \in V /\ r[i] = step[<<i, r[i - 1]>>]
          BY <3>3, <4>1
        <4>3. <<i, r[i - 1]>> \in (1 .. n) \X V
          BY <4>2
        <4> QED
          BY <4>1, <4>2, <4>3
      <3> HIDE DEF step
      <3> DEFINE h == [i \in 1 .. n |-> r[i]]
      <3>5. ASSUME NEW i \in 1 .. n
            PROVE  h[i] = IF i = 1 THEN ss[i] ELSE h[i - 1] \o ss[i]
        <4>1. CASE i = 1
          <5>1. r[1] = r[0] \o ss[1]
            <6>1. r[i] = r[i - 1] \o ss[i]
              BY <3>4
            <6>2. i - 1 = 0
              BY <4>1
            <6> QED
              BY <4>1, <6>1, <6>2
          <5>2. ss[1] \in Seq(F) /\ \A v \in Seq(F) : <<>> \o v = v
            BY <1>1, <4>1
          <5>3. h[1] = ss[1]
            BY <3>3, <4>1, <5>1, <5>2
          <5> QED
            BY <4>1, <5>3
        <4>2. CASE i # 1
          <5>1. i - 1 \in 1 .. n
            BY <1>1, <4>2
          <5> QED
            BY <3>4, <4>2, <5>1
        <4> QED
          BY <4>1, <4>2
      <3>6. h = [i \in 1 .. n |-> h[i]]
        OBVIOUS
      <3> HIDE DEF h
      <3>7. h = [i \in 1 .. n |-> IF i = 1 THEN ss[i] ELSE h[i - 1] \o ss[i]]
        BY <3>5, <3>6
      <3> QED
        BY <3>7
    <2>2. flatten = [i \in 1 .. n |-> IF i = 1 THEN ss[i] ELSE flatten[i - 1] \o ss[i]]
      BY <2>1 DEF flatten
    <2> DEFINE G == {k \in 0 .. n : k = 0 \/ (flatten[k] \in V /\ ToSet(flatten[k]) = All(k))}
    <2>3. 0 \in G
      BY <1>1
    <2>4. ASSUME NEW k \in 0 .. n - 1, k \in G PROVE k + 1 \in G
      <3>1. k + 1 \in 1 .. n /\ (k + 1) - 1 = k /\ k + 1 \in 0 .. n
        BY <1>1
      <3>2. flatten[k + 1] = IF k + 1 = 1 THEN ss[k + 1] ELSE flatten[k] \o ss[k + 1]
        BY <2>2, <3>1
      <3>3. All(k + 1) = All(k) \cup ToSet(ss[k + 1])
        <4>1. 1 .. k + 1 = (1 .. k) \cup {k + 1}
          BY <3>1
        <4> QED
          BY <4>1 DEF All
      <3>4. ss[k + 1] \in V
        BY <1>1, <3>1
      <3>5. CASE k = 0
        <4>1. All(k) = {}
          BY <3>5 DEF All
        <4>2. flatten[k + 1] = ss[k + 1]
          BY <3>2, <3>5
        <4> QED
          BY <3>1, <3>3, <3>4, <4>1, <4>2
      <3>6. CASE k # 0
        <4>1. flatten[k] \in V /\ ToSet(flatten[k]) = All(k)
          <5> HIDE DEF V
          <5> QED
            BY <2>4, <3>6
        <4>2. flatten[k + 1] = flatten[k] \o ss[k + 1]
          <5>1. k + 1 # 1
            BY <1>1, <3>6
          <5> QED
            BY <3>2, <5>1, Zenon
        <4>3. \A u, v \in V : u \o v \in V /\ ToSet(u \o v) = ToSet(u) \cup ToSet(v)
          <5> SUFFICES ASSUME NEW u \in V, NEW v \in V
                       PROVE  u \o v \in V /\ ToSet(u \o v) = ToSet(u) \cup ToSet(v)
            OBVIOUS
          <5> DEFINE uv == u \o v
          <5>1. /\ uv \in V /\ DOMAIN u = 1 .. Len(u) /\ DOMAIN v = 1 .. Len(v)
                /\ DOMAIN uv = 1 .. (Len(u) + Len(v)) /\ Len(u) \in Nat /\ Len(v) \in Nat
            OBVIOUS
          <5>2. \A i \in 1 .. Len(u) : uv[i] = u[i] /\ i \in DOMAIN uv
            BY <5>1
          <5>3. \A i \in 1 .. Len(v) : uv[Len(u) + i] = v[i] /\ Len(u) + i \in DOMAIN uv
            BY <5>1
          <5>4. \A i \in DOMAIN uv : i \in 1 .. Len(u) \/ (i - Len(u) \in 1 .. Len(v) /\
                                                            Len(u) + (i - Len(u)) = i)
            BY <5>1
          <5> HIDE DEF uv
          <5>5. ToSet(uv) = ToSet(u) \cup ToSet(v)
            <6>1. ASSUME NEW x \in ToSet(uv) PROVE x \in ToSet(u) \cup ToSet(v)
              <7>1. PICK i \in DOMAIN uv : x = uv[i]
                BY DEF ToSet
              <7>2. CASE i \in 1 .. Len(u)
                BY <5>1, <5>2, <7>1, <7>2 DEF ToSet
              <7>3. CASE i - Len(u) \in 1 .. Len(v) /\ Len(u) + (i - Len(u)) = i
                <8>1. x = v[i - Len(u)]
                  BY <5>3, <7>1, <7>3
                <8> QED
                  BY <5>1, <7>3, <8>1 DEF ToSet
              <7> QED
                BY <5>4, <7>2, <7>3
            <6>2. ToSet(u) \subseteq ToSet(uv)
              BY <5>1, <5>2 DEF ToSet
            <6>3. ToSet(v) \subseteq ToSet(uv)
              <7> SUFFICES ASSUME NEW i \in 1 .. Len(v) PROVE v[i] \in ToSet(uv)
                BY <5>1 DEF ToSet
              <7> QED
                BY <5>3 DEF ToSet
            <6> QED
              BY <6>1, <6>2, <6>3
          <5> QED
            BY <5>1, <5>5 DEF uv
        <4> HIDE DEF V
        <4>4. flatten[k + 1] \in V /\ ToSet(flatten[k + 1]) = All(k + 1)
          BY <3>3, <3>4, <4>1, <4>2, <4>3
        <4> QED
          BY <3>1, <4>4
      <3> QED
        BY <3>5, <3>6
    <2> HIDE DEF G, V
    <2>5. \A k \in 0 .. n : k \in G
      BY <1>1, <2>3, <2>4, UpToInduction
    <2>6. n \in 0 .. n
      BY <1>1
    <2>7. flatten[n] \in V /\ ToSet(flatten[n]) = All(n)
      BY <1>4, <2>5, <2>6 DEF G
    <2> QED
      BY <1>2, <1>4, <2>7 DEF V, All, n
  <1> QED
    BY <1>3, <1>4

\* The threads read every missing expert, and nothing else.
LEMMA ReadOrderIs ==
  ASSUME NEW F, NEW m \in Seq(F)
  PROVE  ReadOrder(m) \in Seq(F) /\ ToSet(ReadOrder(m)) = ToSet(m)
  <1> DEFINE n == Len(m)
             w == Min({n, Workers})
             Thread(c) == [j \in 1 .. (n - c) \div w + 1 |-> m[c + (j - 1) * w]]
             ss == [c \in 1 .. w |-> Thread(c)]
  <1>1. n \in Nat /\ Workers \in Nat \ {0} /\ DOMAIN m = 1 .. n /\ \A i \in 1 .. n : m[i] \in F
    BY PoolAssumption
  <1>2. w \in Nat /\ w <= n /\ (n # 0 => w # 0)
    <2>1. \E x \in {n, Workers} : \A y \in {n, Workers} : x <= y
      BY <1>1
    <2> QED
      BY <1>1, <2>1 DEF Min
  <1>3. ReadOrder(m) = FlattenSeq(ss)
    BY DEF ReadOrder
  <1> HIDE DEF n, w
  <1>a. \A i \in 1 .. n : m[i] \in F
    BY <1>1
  <1>4. ASSUME NEW c \in 1 .. w
        PROVE  /\ (n - c) \div w + 1 \in Nat
               /\ \A j \in 1 .. (n - c) \div w + 1 : c + (j - 1) * w \in 1 .. n
               /\ Thread(c) \in Seq(F) /\ Len(Thread(c)) = (n - c) \div w + 1
    <2> DEFINE q == (n - c) \div w
    <2>1. q \in Nat /\ q * w <= n - c
      <3>1. \A a, b \in Nat : b > 0 => a \div b \in Nat /\ (a \div b) * b <= a
        OBVIOUS
      <3>2. n - c \in Nat /\ w > 0
        BY <1>1, <1>2
      <3> QED
        BY <1>2, <3>1, <3>2
    <2> HIDE DEF q
    <2>2. ASSUME NEW j \in 1 .. q + 1 PROVE c + (j - 1) * w \in 1 .. n
      <3>1. \A x, y, z \in Nat : x <= y => x * z \in Nat /\ x * z <= y * z
        OBVIOUS
      <3>2. j - 1 \in Nat /\ j - 1 <= q
        BY <2>1
      <3>3. (j - 1) * w \in Nat /\ (j - 1) * w <= q * w /\ q * w \in Nat
        BY <1>2, <2>1, <3>1, <3>2
      <3> DEFINE p == (j - 1) * w
                 r == q * w
      <3> HIDE DEF p, r
      <3>4. p \in Nat /\ p <= r /\ r \in Nat /\ r <= n - c /\ c \in Nat /\ c > 0
        <4>1. p \in Nat /\ p <= r /\ r \in Nat
          BY <3>3 DEF p, r
        <4>2. r <= n - c
          BY <2>1 DEF r
        <4>3. c \in Nat /\ c > 0
          BY <1>2
        <4> QED
          BY <4>1, <4>2, <4>3
      <3>5. c + p \in 1 .. n
        BY <1>1, <3>4
      <3> QED
        BY <3>5 DEF p
    <2>3. \A j \in 1 .. q + 1 : m[c + (j - 1) * w] \in F
      BY <1>a, <2>2
    <2>4. Thread(c) = [j \in 1 .. q + 1 |-> m[c + (j - 1) * w]]
      BY DEF q
    <2>5. q + 1 \in Nat
      BY <2>1
    <2> DEFINE t == Thread(c)
               k == q + 1
    <2>a. t = [j \in 1 .. k |-> m[c + (j - 1) * w]] /\ \A j \in 1 .. k : m[c + (j - 1) * w] \in F
      BY <2>3, <2>4
    <2>b. k \in Nat
      BY <2>5
    <2> HIDE DEF k, t, Thread
    <2>c. t \in [1 .. k -> F]
      BY <2>a
    <2>d. t \in Seq(F) /\ Len(t) = k
      BY <2>b, <2>c
    <2>6. Thread(c) \in Seq(F) /\ Len(Thread(c)) = q + 1
      BY <2>d DEF t, k
    <2> QED
      BY <2>2, <2>5, <2>6 DEF q
  <1>5. ss \in Seq(Seq(F)) /\ Len(ss) = w
    BY <1>2, <1>4
  <1>6. \A c \in 1 .. w : ss[c] = Thread(c)
    OBVIOUS
  <1>7. ReadOrder(m) \in Seq(F) /\ ToSet(ReadOrder(m)) = UNION {ToSet(ss[c]) : c \in 1 .. w}
    <2> HIDE DEF ss
    <2> QED
      BY <1>3, <1>5, FlattenIs
  <1> HIDE DEF ss
  <1>8. ASSUME NEW c \in 1 .. w
        PROVE  ToSet(ss[c]) = {m[c + (j - 1) * w] : j \in 1 .. (n - c) \div w + 1}
    <2> DEFINE k == (n - c) \div w + 1
               At(j) == m[c + (j - 1) * w]
    <2>1. ss[c] = [j \in 1 .. k |-> At(j)]
      BY <1>6
    <2> HIDE DEF k, At
    <2>2. ToSet(ss[c]) = {At(j) : j \in 1 .. k}
      BY <2>1 DEF ToSet
    <2> QED
      BY <2>2 DEF k, At
  <1>9. ASSUME NEW i \in 1 .. n
        PROVE  \E c \in 1 .. w : \E j \in 1 .. (n - c) \div w + 1 : c + (j - 1) * w = i
    <2>1. i - 1 \in Nat /\ w \in Nat /\ w > 0
      BY <1>1, <1>2
    <2> DEFINE q == (i - 1) \div w
               c == ((i - 1) % w) + 1
    <2>2. \A a, b \in Nat : b > 0 => /\ a % b \in 0 .. b - 1 /\ a \div b \in Nat
                                     /\ a = (a \div b) * b + (a % b)
      OBVIOUS
    <2>3. q \in Nat /\ c \in 1 .. w /\ i - 1 = q * w + (c - 1)
      BY <2>1, <2>2
    <2> HIDE DEF q, c
    <2>4. q <= (n - c) \div w
      <3> DEFINE d == (n - c) \div w
                 e == (n - c) % w
      <3>1. n - c \in Nat
        BY <1>1, <1>2, <2>3
      <3>2. d \in Nat /\ e \in 0 .. w - 1 /\ n - c = d * w + e
        BY <2>1, <2>2, <3>1
      <3> HIDE DEF d, e
      <3>3. CASE q <= d
        BY <3>3 DEF d
      <3>4. CASE ~(q <= d)
        <4>1. q - (d + 1) \in Nat
          BY <2>3, <3>2, <3>4
        <4>2. \A x, z \in Nat : x * z \in Nat
          OBVIOUS
        <4>3. (q - (d + 1)) * w \in Nat /\ q * w \in Nat /\ d * w \in Nat
          BY <2>1, <2>3, <3>2, <4>1, <4>2
        <4>4. \A x, y, z \in Nat : (x - (y + 1)) * z = x * z - y * z - z
          OBVIOUS
        <4>5. (q - (d + 1)) * w = q * w - d * w - w
          BY <2>1, <2>3, <3>2, <4>4
        <4> DEFINE A == q * w
                   B == d * w
        <4> HIDE DEF A, B
        <4>6. A \in Nat /\ B \in Nat /\ A - B - w >= 0 /\ n - c = B + e /\ i - 1 = A + (c - 1)
          BY <2>3, <3>2, <4>3, <4>5 DEF A, B
        <4> QED
          BY <1>1, <1>2, <2>3, <3>2, <4>6
      <3> QED
        BY <3>3, <3>4
    <2>5. q + 1 \in 1 .. (n - c) \div w + 1
      <3> DEFINE d == (n - c) \div w
      <3>1. d + 1 \in Nat
        BY <1>4, <2>3
      <3>2. d \in Int
        BY <1>1, <1>2, <2>3
      <3>3. q <= d
        BY <2>4
      <3> HIDE DEF d
      <3>4. q + 1 \in 1 .. d + 1
        BY <2>3, <3>1, <3>2, <3>3
      <3> QED
        BY <3>4 DEF d
    <2>6. c + ((q + 1) - 1) * w = i
      <3>1. (q + 1) - 1 = q
        BY <2>3
      <3> DEFINE A == q * w
      <3> HIDE DEF A
      <3>2. A \in Nat /\ i - 1 = A + (c - 1)
        <4>1. \A x, z \in Nat : x * z \in Nat
          OBVIOUS
        <4> QED
          BY <2>1, <2>3, <4>1 DEF A
      <3>3. c + A = i
        BY <2>3, <3>2
      <3> QED
        BY <3>1, <3>3 DEF A
    <2> QED
      BY <2>3, <2>5, <2>6
  <1>10. ToSet(ReadOrder(m)) = ToSet(m)
    <2>1. ASSUME NEW x \in ToSet(ReadOrder(m)) PROVE x \in ToSet(m)
      <3>1. PICK c \in 1 .. w : x \in ToSet(ss[c])
        BY <1>7
      <3>2. PICK j \in 1 .. (n - c) \div w + 1 : x = m[c + (j - 1) * w]
        BY <1>8, <3>1
      <3>3. c + (j - 1) * w \in 1 .. n
        BY <1>4
      <3> QED
        BY <1>1, <3>2, <3>3 DEF ToSet
    <2>2. ASSUME NEW x \in ToSet(m) PROVE x \in ToSet(ReadOrder(m))
      <3>1. PICK i \in 1 .. n : x = m[i]
        BY <1>1 DEF ToSet
      <3>a. PICK c \in 1 .. w : \E j \in 1 .. (n - c) \div w + 1 : c + (j - 1) * w = i
        BY <1>9
      <3>2. PICK j \in 1 .. (n - c) \div w + 1 : c + (j - 1) * w = i
        BY <3>a
      <3>3. x \in ToSet(ss[c])
        BY <1>8, <3>1, <3>2
      <3> QED
        BY <1>7, <3>3
    <2> QED
      BY <2>1, <2>2
  <1> QED
    BY <1>7, <1>10

\* The keys of both projections of the experts es.
Want(es) == Wants("gate_up", es) \cup Wants("down", es)

\* No expert of the batch is dispatched twice.
DoneInv == done \in Seq(batch) /\ IsInjective(done)

\* With a blob store a reported hit is resident until its experts are dispatched.
HitsInv == config.blob /\ pc = "hits" => \A e \in hits : Resident(e)

\* What the batch needs is either being read or among the recent slots, if it fits at all.
RecentInv ==
  pc \in {"hits", "join_fused", "rest", "fused"} =>
    /\ KeysIn(pending) \subseteq Want(batch)
    /\ 2 * Cardinality(batch) <= Capacity =>
         \E T \in SUBSET Want(batch) : Want(batch) \ KeysIn(pending) \subseteq T /\ Recent(cache, T)

\* The types of the variables, and which phase implies what about the reads.
PoolType ==
  /\ config \in Configs /\ layer \in Layers
  /\ Lru(cache) /\ pending \in Seq(Slot)
  /\ pc \in {"route", "hits", "join_fused", "rest", "fused", "panic"}
  /\ batch \subseteq Experts /\ hits \subseteq batch
  /\ pc \in {"join_fused", "fused"} => config.fused
  /\ pc \in {"rest", "fused"} => pending = <<>>

\* The inductive invariant.
PoolInv == PoolType /\ DoneInv /\ HitsInv /\ RecentInv /\ FoldInOrder

\* Every configuration has a capacity and a kind of slot to ask for.
LEMMA ConfigIs ==
  ASSUME config \in Configs
  PROVE  config \in Config /\ Capacity \in Nat \ {0} /\ PackKind \in {"nvfp4", "dense"}
  BY PoolAssumption, CapacityIs DEF PackKind

\* The experts that miss are those whose key is not in the list.
LEMMA MissingIs ==
  ASSUME layer \in Layers, NEW c, Lru(c), NEW proj \in Projs, NEW es \in SUBSET Experts
  PROVE  /\ Missing(c, proj, es) \in SUBSET es
         /\ Wants(proj, Missing(c, proj, es)) = Wants(proj, es) \ KeysIn(c)
  <1>1. c \in Seq(Slot)
    BY DEF Lru
  <1>2. \A e \in es : Has(c, proj, e) <=> <<layer, proj, e>> \in KeysIn(c)
    BY <1>1, HasIs
  <1> QED
    BY <1>2 DEF Missing, Wants

\* The slots that are read for a sequence of experts.
LEMMA SlotsIs ==
  ASSUME layer \in Layers, NEW proj \in Projs, NEW s \in Seq(Experts),
         NEW kind \in {"nvfp4", "dense"}
  PROVE  /\ Slots(proj, s, kind) \in Seq(Slot)
         /\ KeysIn(Slots(proj, s, kind)) = Wants(proj, ToSet(s))
  <1> DEFINE n == Len(s)
             t == Slots(proj, s, kind)
  <1>1. n \in Nat /\ DOMAIN s = 1 .. n /\ \A i \in 1 .. n : s[i] \in Experts
    OBVIOUS
  <1>2. t = [i \in 1 .. n |-> SlotOf(proj, s[i], kind)]
    BY <1>1 DEF Slots
  <1>3. \A i \in 1 .. n : SlotOf(proj, s[i], kind) \in Slot
                          /\ Key(SlotOf(proj, s[i], kind)) = <<layer, proj, s[i]>>
    BY <1>1, SlotOfIs
  <1> HIDE DEF t, n
  <1>4. t \in Seq(Slot) /\ Len(t) = n /\ \A i \in 1 .. n : t[i] = SlotOf(proj, s[i], kind)
    BY <1>1, <1>2, <1>3
  <1>5. KeysIn(t) = {<<layer, proj, s[i]>> : i \in 1 .. n}
    BY <1>3, <1>4 DEF KeysIn
  <1>6. Wants(proj, ToSet(s)) = {<<layer, proj, s[i]>> : i \in 1 .. n}
    BY <1>1 DEF Wants, ToSet
  <1> QED
    BY <1>4, <1>5, <1>6 DEF t

\* A batch needs two slots per expert.
LEMMA WantsFinite ==
  ASSUME NEW es \in SUBSET Experts
  PROVE  /\ IsFiniteSet(es) /\ Cardinality(es) \in Nat
         /\ IsFiniteSet(Want(es)) /\ Cardinality(Want(es)) <= 2 * Cardinality(es)
         /\ \A T \in SUBSET Want(es) :
              /\ IsFiniteSet(T)
              /\ Cardinality(T) <= 2 * Cardinality(es)
  <1>1. IsFiniteSet(es) /\ Cardinality(es) \in Nat
    BY AscendingIs, FS_CardinalityType
  <1>2. ASSUME NEW proj
        PROVE  IsFiniteSet(Wants(proj, es)) /\ Cardinality(Wants(proj, es)) \in Nat
               /\ Cardinality(Wants(proj, es)) <= Cardinality(es)
    <2> DEFINE f == [e \in es |-> <<layer, proj, e>>]
    <2>1. f \in Surjection(es, Wants(proj, es))
      BY DEF Surjection, Wants
    <2> HIDE DEF f
    <2> QED
      BY <1>1, <2>1, FS_Surjection, FS_CardinalityType
  <1>3. IsFiniteSet(Want(es)) /\ Cardinality(Want(es)) \in Nat
        /\ Cardinality(Want(es)) <= 2 * Cardinality(es)
    <2> DEFINE A == Wants("gate_up", es)
               B == Wants("down", es)
    <2>1. /\ IsFiniteSet(A) /\ Cardinality(A) \in Nat /\ Cardinality(A) <= Cardinality(es)
          /\ IsFiniteSet(B) /\ Cardinality(B) \in Nat /\ Cardinality(B) <= Cardinality(es)
      BY <1>2
    <2> HIDE DEF A, B
    <2>2. /\ IsFiniteSet(A \cup B)
          /\ Cardinality(A \cup B) = Cardinality(A) + Cardinality(B) - Cardinality(A \cap B)
      BY <2>1, FS_Union
    <2>3. Cardinality(A \cap B) \in Nat /\ Cardinality(A \cup B) \in Nat
      BY <2>1, <2>2, FS_Intersection, FS_CardinalityType
    <2>4. \A a, b, i, n \in Nat : a <= n /\ b <= n => a + b - i <= 2 * n
      OBVIOUS
    <2>5. Cardinality(A \cup B) <= 2 * Cardinality(es)
      BY <1>1, <2>1, <2>2, <2>3, <2>4
    <2> QED
      BY <2>2, <2>3, <2>5 DEF A, B, Want
  <1>4. ASSUME NEW T \in SUBSET Want(es)
        PROVE  IsFiniteSet(T) /\ Cardinality(T) <= 2 * Cardinality(es)
    <2>1. IsFiniteSet(T) /\ Cardinality(T) <= Cardinality(Want(es))
      BY <1>3, FS_Subset
    <2>2. Cardinality(T) \in Nat
      BY <2>1, FS_CardinalityType
    <2> QED
      BY <1>1, <1>3, <2>1, <2>2
  <1> QED
    BY <1>1, <1>3, <1>4

\* prefetch_layer_begin for one projection.
LEMMA ClassifiedIs ==
  ASSUME config \in Configs, layer \in Layers,
         NEW c, Lru(c), NEW proj \in Projs, NEW es \in SUBSET Experts
  PROVE  /\ Lru(Classified(c, proj, es))
         /\ config.blob =>
              /\ KeysIn(Classified(c, proj, es)) = KeysIn(c)
              /\ \A T : Recent(c, T) =>
                   Recent(Classified(c, proj, es), T \cup (Wants(proj, es) \cap KeysIn(c)))
         /\ ~config.blob =>
              \A T : Recent(c, T) /\ IsFiniteSet(T)
                     /\ Cardinality(T \cup Wants(proj, es)) <= Capacity
                     /\ IsFiniteSet(T \cup Wants(proj, es)) =>
                   Recent(Classified(c, proj, es), T \cup Wants(proj, es))
  <1> DEFINE t == TouchAll(c, proj, es)
             W == Wants(proj, es)
             K == KeysIn(c)
             d == Classified(c, proj, es)
             miss == Slots(proj, Ascending(Missing(c, proj, es)), PackKind)
  <1>1. config \in Config /\ PackKind \in {"nvfp4", "dense"}
    BY ConfigIs
  <1>2. Lru(t) /\ KeysIn(t) = K /\ \A T : Recent(c, T) => Recent(t, T \cup (W \cap K))
    BY <1>1, TouchAllIs
  <1>3. miss \in Seq(Slot) /\ KeysIn(miss) = W \ K
    <2>1. Missing(c, proj, es) \in SUBSET Experts /\ Wants(proj, Missing(c, proj, es)) = W \ K
      BY MissingIs
    <2>2. /\ Ascending(Missing(c, proj, es)) \in Seq(Experts)
          /\ ToSet(Ascending(Missing(c, proj, es))) = Missing(c, proj, es)
      <3>1. Ascending(Missing(c, proj, es)) \in Seq(Missing(c, proj, es))
        BY <2>1, AscendingIs
      <3> QED
        BY <2>1, <3>1, AscendingIs
    <2> QED
      BY <1>1, <2>1, <2>2, SlotsIs
  <1>4. d = IF config.blob THEN t ELSE PutAll(t, miss)
    BY DEF Classified
  <1> HIDE DEF t, W, K, d, miss
  <1>5. CASE config.blob
    <2>1. d = t
      BY <1>4, <1>5
    <2> QED
      BY <1>2, <1>5, <2>1 DEF d, W, K
  <1>6. CASE ~config.blob
    <2>1. d = PutAll(t, miss)
      BY <1>4, <1>6
    <2>2. /\ Lru(PutAll(t, miss))
          /\ \A T : Recent(t, T) /\ IsFiniteSet(T)
                    /\ Cardinality(T \cup KeysIn(miss)) <= Capacity =>
               Recent(PutAll(t, miss), T \cup KeysIn(miss))
      BY <1>1, <1>2, <1>3, PutAllIs
    <2>3. ASSUME NEW T, Recent(c, T), IsFiniteSet(T), Cardinality(T \cup W) <= Capacity,
                 IsFiniteSet(T \cup W)
          PROVE  Recent(d, T \cup W)
      <3> DEFINE U == T \cup (W \cap K)
      <3>1. U \cup KeysIn(miss) = T \cup W /\ U \in SUBSET (T \cup W)
        BY <1>3
      <3>2. Recent(t, U)
        BY <1>2, <2>3
      <3> HIDE DEF U
      <3>3. IsFiniteSet(U)
        BY <2>3, <3>1, FS_Subset
      <3>4. Recent(PutAll(t, miss), U \cup KeysIn(miss))
        BY <2>2, <2>3, <3>1, <3>2, <3>3
      <3> QED
        BY <2>1, <3>1, <3>4
    <2> QED
      BY <1>6, <2>1, <2>2, <2>3 DEF d, W
  <1> QED
    BY <1>5, <1>6

\* The background reads are those of the misses.
LEMMA SpawnedIs ==
  ASSUME config \in Configs, layer \in Layers,
         NEW c, Lru(c), NEW proj \in Projs, NEW es \in SUBSET Experts
  PROVE  /\ Spawned(c, proj, es) \in Seq(Slot)
         /\ config.blob => KeysIn(Spawned(c, proj, es)) = Wants(proj, es) \ KeysIn(c)
         /\ ~config.blob => Spawned(c, proj, es) = <<>>
  <1> DEFINE m == Missing(c, proj, es)
             a == Ascending(m)
             o == ReadOrder(a)
  <1>1. m \in SUBSET Experts /\ Wants(proj, m) = Wants(proj, es) \ KeysIn(c)
    BY MissingIs
  <1>2. Spawned(c, proj, es) = IF config.blob THEN Slots(proj, o, "nvfp4") ELSE <<>>
    BY DEF Spawned
  <1> HIDE DEF m
  <1>3. a \in Seq(m) /\ ToSet(a) = m
    BY <1>1, AscendingIs
  <1> HIDE DEF a
  <1>4. a \in Seq(Experts)
    BY <1>1, <1>3
  <1>5. o \in Seq(Experts) /\ ToSet(o) = m
    BY <1>3, <1>4, ReadOrderIs
  <1> HIDE DEF o
  <1>6. Slots(proj, o, "nvfp4") \in Seq(Slot) /\ KeysIn(Slots(proj, o, "nvfp4")) = Wants(proj, m)
    BY <1>5, SlotsIs
  <1>7. <<>> \in Seq(Slot)
    OBVIOUS
  <1> QED
    BY <1>1, <1>2, <1>6, <1>7

\* The reads of both projections follow each other.
LEMMA KeysOfBoth ==
  ASSUME NEW a \in Seq(Slot), NEW b \in Seq(Slot)
  PROVE  a \o b \in Seq(Slot) /\ KeysIn(a \o b) = KeysIn(a) \cup KeysIn(b)
  <1> DEFINE c == a \o b
  <1>1. /\ c \in Seq(Slot) /\ Len(c) = Len(a) + Len(b) /\ Len(a) \in Nat /\ Len(b) \in Nat
    OBVIOUS
  <1>2. \A i \in 1 .. Len(a) : c[i] = a[i] /\ i \in 1 .. Len(c)
    BY <1>1
  <1>3. \A i \in 1 .. Len(b) : c[Len(a) + i] = b[i] /\ Len(a) + i \in 1 .. Len(c)
    BY <1>1
  <1>4. \A i \in 1 .. Len(c) : i \in 1 .. Len(a) \/ (i - Len(a) \in 1 .. Len(b) /\
                                                      Len(a) + (i - Len(a)) = i)
    BY <1>1
  <1> HIDE DEF c
  <1>5. ASSUME NEW x \in KeysIn(c) PROVE x \in KeysIn(a) \cup KeysIn(b)
    <2>1. PICK i \in 1 .. Len(c) : x = Key(c[i])
      BY DEF KeysIn
    <2>2. CASE i \in 1 .. Len(a)
      BY <1>2, <2>1, <2>2 DEF KeysIn
    <2>3. CASE i - Len(a) \in 1 .. Len(b) /\ Len(a) + (i - Len(a)) = i
      <3>1. x = Key(b[i - Len(a)])
        BY <1>3, <2>1, <2>3
      <3> QED
        BY <2>3, <3>1 DEF KeysIn
    <2> QED
      BY <1>4, <2>2, <2>3
  <1>6. KeysIn(a) \subseteq KeysIn(c)
    BY <1>2 DEF KeysIn
  <1>7. KeysIn(b) \subseteq KeysIn(c)
    <2> SUFFICES ASSUME NEW i \in 1 .. Len(b) PROVE Key(b[i]) \in KeysIn(c)
      BY DEF KeysIn
    <2>1. Key(b[i]) = Key(c[Len(a) + i])
      BY <1>3
    <2> QED
      BY <1>3, <2>1 DEF KeysIn
  <1> QED
    BY <1>1, <1>5, <1>6, <1>7 DEF c

\* fetch_slot makes its slot the most recent one; a resident slot costs no other.
LEMMA FetchIs ==
  ASSUME config \in Configs, layer \in Layers,
         NEW c, Lru(c), NEW proj \in Projs, NEW e \in Experts
  PROVE  /\ Lru(Fetch(c, proj, e))
         /\ Has(c, proj, e) => KeysIn(Fetch(c, proj, e)) = KeysIn(c)
         /\ \A T : Recent(c, T) /\ IsFiniteSet(T)
                   /\ Cardinality(T \cup {<<layer, proj, e>>}) <= Capacity =>
              Recent(Fetch(c, proj, e), T \cup {<<layer, proj, e>>})
  <1> DEFINE k == <<layer, proj, e>>
  <1>1. config \in Config /\ PackKind \in {"nvfp4", "dense"} /\ c \in Seq(Slot)
    BY ConfigIs DEF Lru
  <1>2. SlotOf(proj, e, PackKind) \in Slot /\ Key(SlotOf(proj, e, PackKind)) = k
    BY <1>1, SlotOfIs
  <1>3. Has(c, proj, e) <=> k \in KeysIn(c)
    BY <1>1, HasIs
  <1>4. CASE Has(c, proj, e)
    <2>1. Fetch(c, proj, e) = Touch(c, proj, e)
      BY <1>4 DEF Fetch
    <2>2. /\ Lru(Touch(c, proj, e)) /\ KeysIn(Touch(c, proj, e)) = KeysIn(c)
          /\ \A T : Recent(c, T) =>
               Recent(Touch(c, proj, e), T \cup (Wants(proj, {e}) \cap KeysIn(c)))
      BY <1>1, TouchIs
    <2>3. Wants(proj, {e}) \cap KeysIn(c) = {k}
      BY <1>3, <1>4 DEF Wants
    <2> QED
      BY <1>4, <2>1, <2>2, <2>3
  <1>5. CASE ~Has(c, proj, e)
    <2>1. Fetch(c, proj, e) = Put(c, SlotOf(proj, e, PackKind))
      BY <1>5 DEF Fetch
    <2> DEFINE s == SlotOf(proj, e, PackKind)
    <2>2. s \in Slot /\ Key(s) = k
      BY <1>2
    <2> HIDE DEF s, k
    <2>3. /\ Lru(Put(c, s))
          /\ \A T : Recent(c, T) /\ IsFiniteSet(T) /\ Cardinality(T \cup {Key(s)}) <= Capacity =>
               Recent(Put(c, s), T \cup {Key(s)})
      BY <1>1, <2>2, PutIs
    <2> QED
      BY <1>5, <2>1, <2>2, <2>3 DEF s, k
  <1> QED
    BY <1>4, <1>5

\* An empty pool satisfies the invariant.
LEMMA InitHolds == Init => PoolInv
  <1> SUFFICES ASSUME Init PROVE PoolInv
    OBVIOUS
  <1> USE DEF Init
  <1>0. config \in Config /\ Capacity \in Nat \ {0} /\ 0 \in Layers
    <2>1. config \in Config /\ Capacity \in Nat \ {0}
      BY ConfigIs
    <2> QED
      BY <2>1, PoolAssumption DEF Layers
  <1>1. Lru(cache)
    BY <1>0 DEF Lru, Distinct
  <1>2. PoolType
    BY <1>0, <1>1 DEF PoolType
  <1>3. DoneInv
    BY DEF DoneInv, IsInjective
  <1>4. FoldInOrder
    <2>1. Cardinality({}) = 0 /\ ToSet(<<>>) = {}
      BY FS_EmptySet DEF ToSet
    <2>2. Ascending({}) = <<>>
      <3>1. Ascending({}) \in Seq({}) /\ Len(Ascending({})) = 0
        BY <2>1, AscendingIs
      <3> QED
        BY <3>1
    <2> QED
      BY <2>1, <2>2 DEF FoldInOrder
  <1> QED
    BY <1>2, <1>3, <1>4 DEF PoolInv, HitsInv, RecentInv

\* The capacity belongs to the configuration.
LEMMA SamePool ==
  ASSUME PoolInv, config' = config
  PROVE  Capacity' = Capacity
  BY DEF Capacity

\* prefetch_layer_begin sets up what it announces.
LEMMA BeginHolds ==
  ASSUME PoolInv, NEW tokens \in 1 .. MaxTokens, NEW es \in Batches(tokens), Begin(es, tokens)
  PROVE  PoolInv'
  <1> DEFINE gateUp == Classified(cache, "gate_up", es)
             down == Classified(gateUp, "down", es)
             K == KeysIn(cache)
             A == Wants("gate_up", es)
             B == Wants("down", es)
  <1>1. /\ es \in SUBSET Experts /\ config \in Configs /\ layer \in Layers /\ Lru(cache)
        /\ pc = "route" /\ batch' = es /\ cache' = down
        /\ hits' = es \ (Missing(cache, "gate_up", es) \cup Missing(gateUp, "down", es))
        /\ pending' = Spawned(cache, "gate_up", es) \o Spawned(gateUp, "down", es)
        /\ pc' = IF config.fused /\ config.pack /\ tokens = 1 THEN "join_fused" ELSE "hits"
        /\ done' = <<>> /\ folded' = <<>> /\ config' = config /\ layer' = layer
    BY DEF PoolInv, PoolType, Batches, Begin
  <1>p. "gate_up" \in Projs /\ "down" \in Projs /\ Capacity' = Capacity /\ Capacity \in Nat
    BY <1>1, SamePool, ConfigIs DEF Projs
  <1> HIDE DEF gateUp, down
  <1>2. /\ Lru(gateUp)
        /\ config.blob => /\ KeysIn(gateUp) = K
                          /\ \A T : Recent(cache, T) => Recent(gateUp, T \cup (A \cap K))
        /\ ~config.blob => \A T : Recent(cache, T) /\ IsFiniteSet(T)
                                  /\ Cardinality(T \cup A) <= Capacity /\ IsFiniteSet(T \cup A) =>
                             Recent(gateUp, T \cup A)
    BY <1>1, <1>p, ClassifiedIs DEF gateUp
  <1>3. /\ Lru(down)
        /\ config.blob => /\ KeysIn(down) = KeysIn(gateUp)
                          /\ \A T : Recent(gateUp, T) =>
                               Recent(down, T \cup (B \cap KeysIn(gateUp)))
        /\ ~config.blob => \A T : Recent(gateUp, T) /\ IsFiniteSet(T)
                                  /\ Cardinality(T \cup B) <= Capacity /\ IsFiniteSet(T \cup B) =>
                             Recent(down, T \cup B)
    BY <1>1, <1>p, <1>2, ClassifiedIs DEF down
  <1>4. /\ Spawned(cache, "gate_up", es) \in Seq(Slot) /\ Spawned(gateUp, "down", es) \in Seq(Slot)
        /\ config.blob => /\ KeysIn(Spawned(cache, "gate_up", es)) = A \ K
                          /\ KeysIn(Spawned(gateUp, "down", es)) = B \ KeysIn(gateUp)
        /\ ~config.blob => /\ Spawned(cache, "gate_up", es) = <<>>
                           /\ Spawned(gateUp, "down", es) = <<>>
    BY <1>1, <1>p, <1>2, SpawnedIs
  <1>5. /\ pending' \in Seq(Slot)
        /\ KeysIn(pending') = KeysIn(Spawned(cache, "gate_up", es))
                              \cup KeysIn(Spawned(gateUp, "down", es))
    BY <1>1, <1>4, KeysOfBoth
  <1>6. KeysIn(<<>>) = {}
    BY DEF KeysIn
  <1>7. Recent(cache, {})
    BY DEF Recent
  <1>8. Want(es) = A \cup B /\ Want(batch)' = Want(es)
    BY <1>1 DEF Want, Wants
  <1>9. /\ IsFiniteSet(Want(es))
        /\ \A T \in SUBSET Want(es) : IsFiniteSet(T) /\ Cardinality(T) <= 2 * Cardinality(es)
        /\ Cardinality(es) \in Nat
    BY <1>1, WantsFinite
  <1>10. PoolType'
    <2>1. hits' \subseteq batch'
      BY <1>1
    <2>2. Lru(cache)'
      BY <1>1, <1>p, <1>3 DEF Lru
    <2> QED
      BY <1>1, <1>5, <2>1, <2>2 DEF PoolType
  <1>11. DoneInv'
    BY <1>1 DEF DoneInv, IsInjective
  <1>12. HitsInv'
    <2> SUFFICES ASSUME config.blob, NEW e \in hits' PROVE Resident(e)'
      BY <1>1 DEF HitsInv
    <2>1. KeysIn(gateUp) = K /\ KeysIn(down) = K
      BY <1>2, <1>3
    <2>2. e \in es /\ e \in Experts /\ Has(cache, "gate_up", e) /\ Has(gateUp, "down", e)
      BY <1>1 DEF Missing
    <2>3. /\ <<layer, "gate_up", e>> \in KeysIn(cache)
          /\ <<layer, "down", e>> \in KeysIn(gateUp)
      BY <1>1, <1>2, <1>p, <2>2, HasIs DEF Lru
    <2>4. Has(down, "gate_up", e) /\ Has(down, "down", e)
      BY <1>1, <1>3, <1>p, <2>1, <2>2, <2>3, HasIs DEF Lru
    <2> QED
      BY <1>1, <2>4 DEF Resident, Has, Find, SlotOf
  <1>13. RecentInv'
    <2>1. KeysIn(pending') \subseteq Want(es)
      BY <1>2, <1>4, <1>5, <1>6, <1>8
    <2>2. ASSUME 2 * Cardinality(es) <= Capacity
          PROVE  \E T \in SUBSET Want(es) :
                   Want(es) \ KeysIn(pending') \subseteq T /\ Recent(down, T)
      <3>1. CASE config.blob
        <4> DEFINE T == ({} \cup (A \cap K)) \cup (B \cap K)
        <4>1. KeysIn(gateUp) = K
          BY <1>2, <3>1
        <4>2. Recent(gateUp, {} \cup (A \cap K))
          BY <1>2, <1>7, <3>1
        <4>3. Recent(down, T)
          BY <1>3, <3>1, <4>1, <4>2
        <4>4. KeysIn(pending') = (A \ K) \cup (B \ K)
          BY <1>4, <1>5, <3>1, <4>1
        <4>5. T \in SUBSET Want(es) /\ Want(es) \ KeysIn(pending') \subseteq T
          BY <1>8, <4>4
        <4> QED
          BY <4>3, <4>5
      <3>2. CASE ~config.blob
        <4> DEFINE S == {} \cup A
                   T == S \cup B
        <4>1. S \in SUBSET Want(es) /\ T = Want(es)
          BY <1>8
        <4>2. /\ IsFiniteSet({}) /\ IsFiniteSet(S) /\ IsFiniteSet(T)
              /\ Cardinality(S) <= Capacity /\ Cardinality(T) <= Capacity
          <5>1. /\ IsFiniteSet(S) /\ IsFiniteSet(T)
                /\ Cardinality(S) <= 2 * Cardinality(es) /\ Cardinality(T) <= 2 * Cardinality(es)
            BY <1>9, <4>1
          <5>2. Cardinality(S) \in Nat /\ Cardinality(T) \in Nat
            BY <5>1, FS_CardinalityType
          <5> QED
            BY <1>9, <1>p, <2>2, <5>1, <5>2, FS_EmptySet
        <4> HIDE DEF T
        <4>3. Recent(gateUp, S)
          BY <1>2, <1>7, <3>2, <4>2
        <4> HIDE DEF S
        <4>4. Recent(down, T)
          BY <1>3, <3>2, <4>2, <4>3 DEF T
        <4> QED
          BY <4>1, <4>4
      <3> QED
        BY <3>1, <3>2
    <2> QED
      BY <1>1, <1>p, <1>8, <2>1, <2>2 DEF RecentInv
  <1>14. FoldInOrder'
    BY <1>1 DEF FoldInOrder
  <1> QED
    BY <1>10, <1>11, <1>12, <1>13, <1>14 DEF PoolInv

\* What is picked by Min is there.
LEMMA MinIs ==
  ASSUME NEW S \in SUBSET Experts, S # {}
  PROVE  Min(S) \in S
  <1>1. S \in SUBSET Nat
    BY PoolAssumption DEF Experts
  <1>2. \E x \in S : \A y \in S : x <= y
    BY <1>1, LeastNat
  <1> QED
    BY <1>2 DEF Min

\* Dispatching an expert keeps it, and what the batch needs, in the cache.
LEMMA ForwardHolds ==
  ASSUME PoolInv, NEW e \in batch, e \notin ToSet(done), pc \in {"hits", "rest", "fused"},
         pc = "hits" => e \in hits, Forward(e)
  PROVE  PoolInv'
  <1> DEFINE gateUp == Fetch(cache, "gate_up", e)
             down == Fetch(gateUp, "down", e)
             k == <<layer, "gate_up", e>>
             l == <<layer, "down", e>>
  <1>1. /\ e \in Experts /\ config \in Configs /\ layer \in Layers /\ Lru(cache)
        /\ batch \in SUBSET Experts /\ PoolType
        /\ cache' \in {gateUp, down} /\ done' \in {done, Append(done, e)} /\ pc' \in {"panic", pc}
        /\ pc' # "panic" => cache' = down
        /\ config' = config /\ pending' = pending /\ layer' = layer /\ batch' = batch
        /\ hits' = hits /\ folded' = folded
    BY DEF PoolInv, PoolType, Forward
  <1>p. "gate_up" \in Projs /\ "down" \in Projs /\ Capacity' = Capacity /\ Capacity \in Nat
    BY <1>1, SamePool, ConfigIs DEF Projs
  <1> HIDE DEF gateUp, down
  <1>2. /\ Lru(gateUp)
        /\ Has(cache, "gate_up", e) => KeysIn(gateUp) = KeysIn(cache)
        /\ \A T : Recent(cache, T) /\ IsFiniteSet(T) /\ Cardinality(T \cup {k}) <= Capacity =>
             Recent(gateUp, T \cup {k})
    BY <1>1, <1>p, FetchIs DEF gateUp
  <1>3. /\ Lru(down)
        /\ Has(gateUp, "down", e) => KeysIn(down) = KeysIn(gateUp)
        /\ \A T : Recent(gateUp, T) /\ IsFiniteSet(T) /\ Cardinality(T \cup {l}) <= Capacity =>
             Recent(down, T \cup {l})
    BY <1>1, <1>p, <1>2, FetchIs DEF down
  <1>4. PoolType'
    <2>1. Lru(cache)'
      BY <1>1, <1>2, <1>3, <1>p DEF Lru
    <2> QED
      BY <1>1, <2>1 DEF PoolType
  <1>5. DoneInv'
    <2>1. done \in Seq(batch) /\ IsInjective(done)
      BY DEF PoolInv, DoneInv
    <2> DEFINE d == Append(done, e)
    <2>2. /\ Len(done) \in Nat /\ DOMAIN done = 1 .. Len(done)
          /\ d \in Seq(batch) /\ DOMAIN d = 1 .. Len(done) + 1 /\ d[Len(done) + 1] = e
          /\ \A i \in 1 .. Len(done) : d[i] = done[i]
      BY <2>1
    <2> HIDE DEF d
    <2>3. \A i \in 1 .. Len(done) : done[i] # e
      BY <2>2 DEF ToSet
    <2>4. ASSUME NEW i \in DOMAIN d, NEW j \in DOMAIN d, d[i] = d[j] PROVE i = j
      <3>1. /\ i \in 1 .. Len(done) \/ i = Len(done) + 1
            /\ j \in 1 .. Len(done) \/ j = Len(done) + 1
        BY <2>2
      <3>2. CASE i \in 1 .. Len(done) /\ j \in 1 .. Len(done)
        BY <2>1, <2>2, <2>4, <3>2 DEF IsInjective
      <3>3. CASE i = Len(done) + 1 \/ j = Len(done) + 1
        BY <2>2, <2>3, <2>4, <3>1, <3>3
      <3> QED
        BY <3>1, <3>2, <3>3
    <2>5. IsInjective(d)
      BY <2>4 DEF IsInjective
    <2> QED
      BY <1>1, <2>1, <2>2, <2>5 DEF DoneInv, d
  <1>6. HitsInv'
    <2> SUFFICES ASSUME config.blob, pc' = "hits", NEW x \in hits PROVE Resident(x)'
      BY <1>1 DEF HitsInv
    <2>1. pc = "hits" /\ e \in hits /\ cache' = down
      BY <1>1
    <2>2. Resident(e) /\ Resident(x) /\ x \in Experts
      BY <1>1, <2>1 DEF PoolInv, HitsInv, PoolType
    <2>3. cache \in Seq(Slot) /\ gateUp \in Seq(Slot) /\ down \in Seq(Slot)
      BY <1>1, <1>2, <1>3 DEF Lru
    <2>4. KeysIn(gateUp) = KeysIn(cache)
      BY <1>2, <2>2 DEF Resident
    <2>5. Has(gateUp, "down", e)
      BY <1>1, <1>p, <2>2, <2>3, <2>4, HasIs DEF Resident
    <2>6. KeysIn(down) = KeysIn(cache)
      BY <1>3, <2>4, <2>5
    <2>7. Has(down, "gate_up", x) /\ Has(down, "down", x)
      BY <1>1, <1>p, <2>2, <2>3, <2>6, HasIs DEF Resident
    <2> QED
      BY <1>1, <2>1, <2>7 DEF Resident, Has, Find, SlotOf
  <1>7. RecentInv'
    <2> SUFFICES ASSUME pc' # "panic" PROVE RecentInv'
      BY DEF RecentInv
    <2>1. /\ pc' = pc /\ cache' = down
          /\ Want(batch)' = Want(batch) /\ KeysIn(pending)' = KeysIn(pending)
      BY <1>1 DEF Want, Wants, KeysIn, Key
    <2>2. k \in Want(batch) /\ l \in Want(batch)
      BY DEF Want, Wants
    <2>3. KeysIn(pending) \subseteq Want(batch)
      BY DEF PoolInv, RecentInv
    <2>4. ASSUME 2 * Cardinality(batch) <= Capacity
          PROVE  \E T \in SUBSET Want(batch) :
                   Want(batch) \ KeysIn(pending) \subseteq T /\ Recent(down, T)
      <3>1. PICK T \in SUBSET Want(batch) :
              Want(batch) \ KeysIn(pending) \subseteq T /\ Recent(cache, T)
        BY <2>4 DEF PoolInv, RecentInv
      <3> DEFINE U == T \cup {k}
                 V == U \cup {l}
      <3>2. U \in SUBSET Want(batch) /\ V \in SUBSET Want(batch)
        BY <2>2
      <3>3. \A S \in SUBSET Want(batch) : IsFiniteSet(S) /\ Cardinality(S) <= Capacity
        <4> SUFFICES ASSUME NEW S \in SUBSET Want(batch)
                     PROVE  IsFiniteSet(S) /\ Cardinality(S) <= Capacity
          OBVIOUS
        <4>1. /\ IsFiniteSet(S) /\ Cardinality(S) <= 2 * Cardinality(batch)
              /\ Cardinality(batch) \in Nat
          BY <1>1, WantsFinite
        <4>2. Cardinality(S) \in Nat
          BY <4>1, FS_CardinalityType
        <4> QED
          BY <1>p, <2>4, <4>1, <4>2
      <3> HIDE DEF k, l
      <3>4. Recent(gateUp, U)
        BY <1>2, <3>1, <3>2, <3>3
      <3> HIDE DEF U
      <3>5. Recent(down, V)
        BY <1>3, <3>2, <3>3, <3>4
      <3> QED
        BY <3>1, <3>2, <3>5 DEF U
    <2> QED
      BY <1>1, <1>p, <2>1, <2>3, <2>4 DEF RecentInv
  <1>8. FoldInOrder'
    BY <1>1 DEF FoldInOrder
  <1> QED
    BY <1>4, <1>5, <1>6, <1>7, <1>8 DEF PoolInv

\* Dispatching a hit preserves the invariant.
LEMMA ForwardHitHolds == PoolInv /\ ForwardHit => PoolInv'
  <1> SUFFICES ASSUME PoolInv, ForwardHit PROVE PoolInv'
    OBVIOUS
  <1> DEFINE S == hits \ ToSet(done)
             e == Min(S)
  <1>1. pc = "hits" /\ S # {} /\ Forward(e) /\ hits \subseteq batch /\ batch \subseteq Experts
    BY DEF ForwardHit, PoolInv, PoolType
  <1>2. e \in S
    BY <1>1, MinIs
  <1> HIDE DEF e
  <1>3. e \in batch /\ e \in hits /\ e \notin ToSet(done)
    BY <1>1, <1>2
  <1> QED
    BY <1>1, <1>3, ForwardHolds

\* Dispatching what missed preserves the invariant.
LEMMA ForwardRestHolds == PoolInv /\ ForwardRest => PoolInv'
  <1> SUFFICES ASSUME PoolInv, ForwardRest PROVE PoolInv'
    OBVIOUS
  <1>1. \E e \in batch \ ToSet(done) : pc \in {"rest", "fused"} /\ Forward(e)
    <2> DEFINE S == batch \ ToSet(done)
    <2>1. S # {} /\ S \in SUBSET Experts
      BY DEF ForwardRest, PoolInv, PoolType
    <2>2. Min(S) \in S
      BY <2>1, MinIs
    <2> QED
      BY <2>2 DEF ForwardRest
  <1>2. PICK e \in batch \ ToSet(done) : pc \in {"rest", "fused"} /\ Forward(e)
    BY <1>1
  <1>3. e \in batch /\ e \notin ToSet(done) /\ pc \in {"hits", "rest", "fused"} /\ pc # "hits"
    BY <1>2
  <1> QED
    BY <1>2, <1>3, ForwardHolds

\* The joined reads find room beside what is in use.
LEMMA FinishHolds == PoolInv /\ Finish => PoolInv'
  <1> SUFFICES ASSUME PoolInv, Finish PROVE PoolInv'
    OBVIOUS
  <1>1. /\ pc \in {"hits", "join_fused"} /\ cache' = PutAll(cache, pending) /\ pending' = <<>>
        /\ pc' = IF pc = "hits" THEN "rest" ELSE "fused"
        /\ config' = config /\ layer' = layer /\ batch' = batch /\ hits' = hits
        /\ done' = done /\ folded' = folded
        /\ PoolType /\ config \in Configs /\ Lru(cache) /\ pending \in Seq(Slot)
        /\ batch \in SUBSET Experts
    BY DEF Finish, PoolInv, PoolType
  <1>p. config \in Config /\ Capacity' = Capacity /\ Capacity \in Nat
    BY <1>1, SamePool, ConfigIs
  <1>2. /\ Lru(PutAll(cache, pending))
        /\ \A T : Recent(cache, T) /\ IsFiniteSet(T)
                  /\ Cardinality(T \cup KeysIn(pending)) <= Capacity =>
             Recent(PutAll(cache, pending), T \cup KeysIn(pending))
    BY <1>1, <1>p, PutAllIs
  <1>3. PoolType'
    <2>1. Lru(cache)'
      BY <1>1, <1>2, <1>p DEF Lru
    <2>2. pc = "join_fused" => config.fused
      BY <1>1 DEF PoolType
    <2> QED
      BY <1>1, <2>1, <2>2 DEF PoolType
  <1>4. DoneInv'
    BY <1>1 DEF PoolInv, DoneInv
  <1>5. RecentInv'
    <2>1. Want(batch)' = Want(batch) /\ KeysIn(pending') = {}
      BY <1>1 DEF Want, Wants, KeysIn
    <2>2. ASSUME 2 * Cardinality(batch) <= Capacity
          PROVE  Recent(cache', Want(batch))
      <3>1. PICK T \in SUBSET Want(batch) :
              Want(batch) \ KeysIn(pending) \subseteq T /\ Recent(cache, T)
        BY <1>1, <2>2 DEF PoolInv, RecentInv
      <3>2. T \cup KeysIn(pending) = Want(batch)
        BY <1>1, <3>1 DEF PoolInv, RecentInv
      <3>3. /\ IsFiniteSet(T) /\ Cardinality(Want(batch)) <= 2 * Cardinality(batch)
            /\ Cardinality(batch) \in Nat /\ IsFiniteSet(Want(batch))
        BY <1>1, WantsFinite
      <3>4. Cardinality(Want(batch)) \in Nat
        BY <3>3, FS_CardinalityType
      <3>5. Cardinality(T \cup KeysIn(pending)) <= Capacity
        BY <1>p, <2>2, <3>2, <3>3, <3>4
      <3>6. Recent(PutAll(cache, pending), T \cup KeysIn(pending))
        BY <1>2, <3>1, <3>3, <3>5
      <3> QED
        BY <1>1, <3>2, <3>6
    <2> QED
      BY <1>1, <1>p, <2>1, <2>2 DEF RecentInv
  <1> QED
    BY <1>1, <1>3, <1>4, <1>5 DEF PoolInv, HitsInv, FoldInOrder

\* A read that fails preserves the invariant.
LEMMA ReadFailsHolds == PoolInv /\ ReadFails => PoolInv'
  <1> SUFFICES ASSUME PoolInv, ReadFails PROVE PoolInv'
    OBVIOUS
  <1>1. /\ pc' = "panic" /\ pending' = <<>> /\ config' = config /\ cache' = cache /\ layer' = layer
        /\ batch' = batch /\ hits' = hits /\ done' = done /\ folded' = folded /\ PoolType
    BY DEF ReadFails, PoolInv
  <1>2. Lru(cache)'
    <2>1. Capacity' = Capacity
      BY <1>1, SamePool
    <2> QED
      BY <1>1, <2>1 DEF PoolType, Lru
  <1>3. PoolType'
    BY <1>1, <1>2 DEF PoolType
  <1> QED
    BY <1>1, <1>3 DEF PoolInv, DoneInv, HitsInv, RecentInv, FoldInOrder

\* The sum runs over every expert of the batch once.
LEMMA FoldHolds == PoolInv /\ Fold => PoolInv'
  <1> SUFFICES ASSUME PoolInv, Fold PROVE PoolInv'
    OBVIOUS
  <1>1. /\ pc \in {"rest", "fused"} /\ batch \subseteq ToSet(done)
        /\ folded' = IF pc = "rest" THEN Ascending(batch) ELSE done
        /\ pc' = "route" /\ layer' = (layer + 1) % NumLayers
        /\ config' = config /\ cache' = cache /\ pending' = pending /\ batch' = batch
        /\ hits' = hits /\ done' = done /\ PoolType /\ batch \in SUBSET Experts
    BY DEF Fold, PoolInv, PoolType
  <1>2. PoolType'
    <2>1. layer' \in Layers
      <3>1. layer \in Nat /\ NumLayers \in Nat \ {0}
        BY <1>1, PoolAssumption DEF PoolType, Layers
      <3>2. \A a \in Nat : \A b \in Nat \ {0} : (a + 1) % b \in 0 .. b - 1
        OBVIOUS
      <3> QED
        BY <1>1, <3>1, <3>2 DEF Layers
    <2>2. Capacity' = Capacity
      BY <1>1, SamePool
    <2>3. Lru(cache)'
      BY <1>1, <2>2 DEF PoolType, Lru
    <2> QED
      BY <1>1, <2>1, <2>3 DEF PoolType
  <1>3. FoldInOrder'
    <2>1. CASE pc = "rest"
      <3>1. folded' = Ascending(batch) /\ Ascending(batch') = Ascending(batch)
        BY <1>1, <2>1
      <3>2. ToSet(Ascending(batch)) = batch /\ Len(Ascending(batch)) = Cardinality(batch)
        BY <1>1, AscendingIs
      <3> QED
        BY <1>1, <3>1, <3>2 DEF FoldInOrder
    <2>2. CASE pc = "fused"
      <3>1. folded' = done /\ config.fused
        BY <1>1, <2>2 DEF PoolType
      <3>2. done \in Seq(batch) /\ IsInjective(done)
        BY DEF PoolInv, DoneInv
      <3>3. /\ Len(done) \in Nat /\ DOMAIN done = 1 .. Len(done)
            /\ done \in [1 .. Len(done) -> batch]
        BY <3>2
      <3>4. ToSet(done) = batch
        BY <1>1, <3>3 DEF ToSet
      <3>5. done \in Surjection(1 .. Len(done), batch)
        <4>1. \A e \in batch : \E i \in 1 .. Len(done) : done[i] = e
          BY <3>3, <3>4 DEF ToSet
        <4> QED
          BY <3>3, <4>1 DEF Surjection
      <3>6. done \in Injection(1 .. Len(done), batch)
        BY <3>2, <3>3 DEF Injection
      <3>7. IsFiniteSet(1 .. Len(done)) /\ Cardinality(1 .. Len(done)) = Len(done)
        <4>1. \A n \in Nat : 1 \in Int /\ n \in Int /\ (IF 1 > n THEN 0 ELSE n - 1 + 1) = n
          OBVIOUS
        <4> QED
          BY <3>3, <4>1, FS_Interval
      <3>8. Cardinality(batch) = Len(done)
        BY <3>5, <3>6, <3>7, FS_Surjection
      <3> QED
        BY <1>1, <3>1, <3>4, <3>8 DEF FoldInOrder
    <2> QED
      BY <1>1, <2>1, <2>2
  <1> QED
    BY <1>1, <1>2, <1>3 DEF PoolInv, DoneInv, HitsInv, RecentInv

\* So does a step that changes nothing.
LEMMA StutterHolds == PoolInv /\ UNCHANGED vars => PoolInv'
  <1> SUFFICES ASSUME PoolInv, UNCHANGED vars PROVE PoolInv'
    OBVIOUS
  <1>1. Capacity' = Capacity
    BY SamePool DEF vars
  <1>2. PoolType'
    BY <1>1 DEF vars, PoolInv, PoolType, Lru
  <1>3. HitsInv'
    BY DEF vars, PoolInv, HitsInv, Resident, Has, Find, SlotOf
  <1>4. RecentInv'
    <2>1. Want(batch)' = Want(batch)
      BY DEF vars, Want, Wants
    <2> QED
      BY <1>1, <2>1 DEF vars, PoolInv, RecentInv
  <1> QED
    BY <1>2, <1>3, <1>4 DEF vars, PoolInv, DoneInv, FoldInOrder

\* Every reachable state of the pool satisfies PoolInv, whatever its capacity, with and
\* without a blob store and the fused kernel (expert_stream.rs, forward_streamed).
THEOREM PoolInvariance == Spec => []PoolInv
  <1>1. ASSUME PoolInv, [Next]_vars PROVE PoolInv'
    <2>1. CASE \E tokens \in 1 .. MaxTokens : \E es \in Batches(tokens) : Begin(es, tokens)
      BY <1>1, <2>1, BeginHolds
    <2>2. CASE ForwardHit
      BY <1>1, <2>2, ForwardHitHolds
    <2>3. CASE Finish
      BY <1>1, <2>3, FinishHolds
    <2>4. CASE ForwardRest
      BY <1>1, <2>4, ForwardRestHolds
    <2>5. CASE ReadFails
      BY <1>1, <2>5, ReadFailsHolds
    <2>6. CASE Fold
      BY <1>1, <2>6, FoldHolds
    <2>7. CASE Panicked \/ UNCHANGED vars
      BY <1>1, <2>7, StutterHolds DEF Panicked
    <2> QED
      BY <1>1, <2>1, <2>2, <2>3, <2>4, <2>5, <2>6, <2>7 DEF Next
  <1> QED
    BY <1>1, InitHolds, PTL DEF Spec

\* With a blob store a hit that prefetch_layer_begin reported is in the cache when it is
\* dispatched, however small the capacity: between the two only other hits are touched.
THEOREM HitsAreReady == Spec => []HitsReady
  <1>1. PoolInv => HitsReady
    BY DEF PoolInv, HitsInv, HitsReady
  <1> QED
    BY <1>1, PoolInvariance, PTL

\* With room for two slots per expert, each expert of a batch is resident from
\* prefetch_layer_finish until it has been dispatched, although neither the order of the
\* reads nor that of the dispatches is the order of the prefetch.
THEOREM JoinedStay == Spec => []ResidentOnceFinished
  <1>1. PoolInv => ResidentOnceFinished
    <2> SUFFICES ASSUME PoolInv, pc \in {"rest", "fused"}, 2 * Cardinality(batch) <= Capacity,
                        NEW e \in batch
                 PROVE  Resident(e)
      BY DEF ResidentOnceFinished
    <2>1. e \in Experts /\ layer \in Layers /\ Lru(cache) /\ pending = <<>>
      BY DEF PoolInv, PoolType
    <2>2. KeysIn(pending) = {}
      BY <2>1 DEF KeysIn
    <2>3. PICK T \in SUBSET Want(batch) :
            Want(batch) \ KeysIn(pending) \subseteq T /\ Recent(cache, T)
      BY DEF PoolInv, RecentInv
    <2>4. Want(batch) \subseteq KeysIn(cache)
      BY <2>2, <2>3 DEF Recent
    <2>5. <<layer, "gate_up", e>> \in Want(batch) /\ <<layer, "down", e>> \in Want(batch)
      BY DEF Want, Wants
    <2> QED
      BY <2>1, <2>4, <2>5, HasIs DEF Resident, Lru, Projs
  <1> QED
    BY <1>1, PoolInvariance, PTL

\* Each routed expert contributes once, and outside the fused kernel in ascending order,
\* whatever the cache held.
THEOREM FoldsInOrder == Spec => []FoldInOrder
  <1>1. PoolInv => FoldInOrder
    BY DEF PoolInv
  <1> QED
    BY <1>1, PoolInvariance, PTL
=============================================================================
