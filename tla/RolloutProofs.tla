---------------------------- MODULE RolloutProofs ----------------------------
(***************************************************************************)
(* Proofs about the rollout drivers and the trainer step behind them, for  *)
(* every batch, group size, length, budget, vocabulary and driver.         *)
(*                                                                         *)
(* The inductive invariant counts the completion tokens: there is an n     *)
(* such that every row has n of them, every live row has exactly its own   *)
(* columns in the cache, every token up to its row's end was recorded with *)
(* its own context, and the device loops' buffers are untouched behind n.  *)
(***************************************************************************)
EXTENDS GrpoStep, DataInduction

\* What a decoder has seen of the sequence s: its columns lo+1..hi, numbered from 0.
Seen(s, lo, hi) == [i \in 1 .. hi - lo |-> <<s[lo + i], i - 1>>]

\* One of the first n completion tokens of s ends it.
Over(s, n) == \E k \in 1 .. n : s[Lp + k] \in EosSet

\* A sequence, whatever it holds.
IsSeq(s) == s \in Seq({s[i] : i \in DOMAIN s})

\* The batch is one of the shapes, and only ragged prompts are padded.
ShapeInv ==
  /\ driver \in AllDrivers
  /\ shape.g \in Nat \ {0} /\ shape.p \in Nat \ {0} /\ shape.p * shape.g = N
  /\ shape.lens \in [1 .. shape.p -> 1 .. Lp]
  /\ driver # "padded" => \A q \in 1 .. shape.p : shape.lens[q] = Lp

\* The rows have n completion tokens, and the buffers of the device loops room for more.
IdsInv(n) ==
  /\ DOMAIN ids = Rows
  /\ \A r \in Rows :
       /\ IsSeq(ids[r]) /\ Len(ids[r]) = Lp + (IF driver \in LoopDrivers THEN MaxNew ELSE n)
       /\ \A k \in 1 .. n : ids[r][Lp + k] \in Vocab
       /\ driver \in LoopDrivers => \A k \in n + 1 .. MaxNew : ids[r][Lp + k] = Blank
  /\ finished = [r \in Rows |-> Over(ids[r], n)]

\* Each token up to the end of its row is recorded with its own context.
Honest(r, k) == <<Seen(ids[r], PadLen(r), Lp + k - 1), ids[r][Lp + k]>>

\* The host drivers' records, and the device loops' buffers.
StepsInv(n) ==
  /\ IsSeq(steps) /\ Len(steps) = n
  /\ \A r \in Rows : \A k \in 1 .. n :
       /\ steps[k].tok[r] = ids[r][Lp + k]
       /\ ~Over(ids[r], k - 1) => steps[k].logp[r] = Honest(r, k)
BufsInv(n) ==
  /\ DOMAIN bufs = {"logp", "mask"} /\ DOMAIN bufs.logp = Rows /\ DOMAIN bufs.mask = Rows
  /\ \A r \in Rows :
       /\ DOMAIN bufs.logp[r] = 1 .. MaxNew /\ DOMAIN bufs.mask[r] = 1 .. MaxNew
       /\ \A k \in 1 .. n :
            /\ ~Over(ids[r], k - 1) => bufs.logp[r][k] = Honest(r, k)
            /\ bufs.mask[r][k] = IF Over(ids[r], k - 1) THEN 0 ELSE 1
       /\ \A k \in n + 1 .. MaxNew : bufs.logp[r][k] = NoLogp /\ bufs.mask[r][k] = 0
RecordInv(n) == IF driver \in LoopDrivers THEN BufsInv(n) ELSE StepsInv(n)

\* A row that is not live has ended, and only the shrinking driver has such rows.
ActiveInv ==
  /\ active \in Seq(Rows) /\ active # <<>>
  /\ \A i, j \in DOMAIN active : active[i] = active[j] => i = j
  /\ \A r \in Rows : ~finished[r] => \E i \in DOMAIN active : active[i] = r
  /\ driver # "shrink" => active = [r \in Rows |-> r]

\* A row of the cache that holds the first m columns of the sequence s.
Columns(s, m) == [c \in 1 .. Lp + MaxNew |-> IF c > m THEN Zero ELSE Seen(s, 0, c)]

\* The cache holds the first m columns of every live row.
Holds(m) ==
  cache = [cap |-> Lp + MaxNew,
           filled |-> IF driver = "static" THEN Lp ELSE m,
           rows |-> [i \in DOMAIN active |-> Columns(ids[active[i]], m)]]

\* Every row has sampled an end-of-sequence token.
AllOver == \A r \in Rows : finished[r]

\* What is returned are the rows with n completion tokens, their mask and their records.
Returned(n) ==
  /\ n >= 1 /\ (n = MaxNew \/ AllOver)
  /\ out.ids = ids /\ out.len = n
  /\ \A r \in Rows : \A k \in 1 .. n :
       /\ out.mask[r][k] = IF Over(ids[r], k - 1) THEN 0 ELSE 1
       /\ ~Over(ids[r], k - 1) => out.logp[r][k] = Honest(r, k)

\* What the phase of the driver says of the cache, the contexts and the result.
PhaseInv(n) ==
  CASE pc = "prefill" ->
         /\ driver \notin WholeDrivers /\ n = 0 /\ cache = WithCapacity(Lp + MaxNew)
         /\ active = [r \in Rows |-> r] /\ pos = Lp /\ out = NoResult
    [] pc = "forward" ->
         /\ out = NoResult /\ (n = MaxNew => driver = "static")
         /\ driver \notin LoopDrivers => ~AllOver
         /\ driver \notin WholeDrivers => n >= 1 /\ Holds(Lp + n - 1)
         /\ driver \in LoopDrivers => pos = Lp + n - 1
    [] pc = "sample" ->
         /\ out = NoResult /\ n < MaxNew
         /\ driver \notin LoopDrivers => ~AllOver
         /\ last = [i \in DOMAIN active |-> Seen(ids[active[i]], PadLen(active[i]), Lp + n)]
         /\ driver \notin WholeDrivers => Holds(Lp + n)
         /\ driver \in LoopDrivers => pos = Lp + n
    [] pc \in {"done", "scored", "lossy", "trained"} -> Returned(n)
    [] OTHER -> FALSE

\* Every row has n completion tokens.
Sampled(n) == n \in 0 .. MaxNew /\ IdsInv(n) /\ RecordInv(n) /\ PhaseInv(n)

\* The inductive invariant of the rollouts.
RolloutInv == ShapeInv /\ ActiveInv /\ \E n \in 0 .. MaxNew : Sampled(n)

-----------------------------------------------------------------------------

(***************************************************************************)
(* Facts about sequences, contexts and rows.                               *)
(***************************************************************************)

\* A sequence has places.
LEMMA SeqHas ==
  ASSUME NEW s, IsSeq(s)
  PROVE  Len(s) \in Nat /\ DOMAIN s = 1 .. Len(s)
  BY DEF IsSeq

\* What is a sequence of anything is a sequence.
LEMMA SeqShape ==
  ASSUME NEW n \in Nat, NEW s, s = [i \in 1 .. n |-> s[i]]
  PROVE  IsSeq(s) /\ Len(s) = n
  <1>1. DOMAIN s = 1 .. n
    OBVIOUS
  <1> DEFINE S == {s[i] : i \in DOMAIN s}
  <1>2. s \in [1 .. n -> S]
    BY <1>1
  <1> HIDE DEF S
  <1>3. s \in Seq(S) /\ Len(s) = n
    BY <1>2
  <1> QED
    BY <1>3 DEF IsSeq, S

\* Appending to a sequence.
LEMMA SeqGrows ==
  ASSUME NEW s, IsSeq(s), NEW x
  PROVE  /\ IsSeq(Append(s, x)) /\ Len(Append(s, x)) = Len(s) + 1
         /\ \A i \in 1 .. Len(s) : Append(s, x)[i] = s[i]
         /\ Append(s, x)[Len(s) + 1] = x
  <1> DEFINE S == {s[i] : i \in DOMAIN s} \cup {x}  t == Append(s, x)
  <1>1. s \in Seq(S)
    <2>1. s \in [1 .. Len(s) -> S] /\ Len(s) \in Nat
      BY DEF IsSeq
    <2> QED
      BY <2>1
  <1> HIDE DEF S
  <1>2. /\ t \in Seq(S) /\ x \in S => Len(t) = Len(s) + 1
    BY <1>1
  <1>3. x \in S
    BY DEF S
  <1>4. /\ Len(s) \in Nat /\ Len(t) = Len(s) + 1 /\ DOMAIN t = 1 .. Len(s) + 1
        /\ \A i \in 1 .. Len(s) : t[i] = s[i]
        /\ t[Len(s) + 1] = x /\ t \in Seq(S)
    BY <1>1, <1>3
  <1> HIDE DEF t
  <1>5. t = [i \in 1 .. Len(s) + 1 |-> t[i]]
    BY <1>4
  <1>6. IsSeq(t)
    BY <1>4, <1>5, SeqShape
  <1> QED
    BY <1>4, <1>6 DEF t

\* An update at one place.
Written(s, i, x) == [s EXCEPT ![i] = x]

\* Writing one place of a sequence.
LEMMA SeqWritten ==
  ASSUME NEW s, IsSeq(s), NEW x, NEW i, NEW t, t = Written(s, i, x)
  PROVE  /\ IsSeq(t) /\ Len(t) = Len(s)
         /\ \A j \in 1 .. Len(s) : t[j] = IF j = i THEN x ELSE s[j]
  <1>1. Len(s) \in Nat /\ DOMAIN s = 1 .. Len(s)
    BY SeqHas
  <1>2. t = [j \in 1 .. Len(s) |-> t[j]] /\ \A j \in 1 .. Len(s) : t[j] = IF j = i THEN x ELSE s[j]
    BY <1>1 DEF Written
  <1>3. IsSeq(t) /\ Len(t) = Len(s)
    BY <1>1, <1>2, SeqShape
  <1> QED
    BY <1>2, <1>3

\* What has been seen depends on the columns seen only.
LEMMA SeenSame ==
  ASSUME NEW lo \in Nat, NEW hi \in Nat, NEW s, NEW t, \A k \in lo + 1 .. hi : s[k] = t[k]
  PROVE  Seen(s, lo, hi) = Seen(t, lo, hi)
  <1>1. \A i \in 1 .. hi - lo : s[lo + i] = t[lo + i]
    <2>1. \A i \in 1 .. hi - lo : lo + i \in lo + 1 .. hi
      OBVIOUS
    <2> QED
      BY <2>1
  <1> QED
    BY <1>1 DEF Seen

\* Whether a row is over depends on its completion only, and more can only end it.
LEMMA OverSame ==
  ASSUME NEW n \in Nat, NEW s, NEW t, \A k \in 1 .. n : s[Lp + k] = t[Lp + k]
  PROVE  Over(s, n) <=> Over(t, n)
  BY DEF Over

\* One more token.
LEMMA OverNext ==
  ASSUME NEW n \in Nat, NEW s
  PROVE  Over(s, n + 1) <=> Over(s, n) \/ s[Lp + (n + 1)] \in EosSet
  <1>1. 1 .. n + 1 = (1 .. n) \cup {n + 1}
    OBVIOUS
  <1> QED
    BY <1>1 DEF Over

\* A row that is over stays so.
LEMMA OverStays ==
  ASSUME NEW n \in Nat, NEW m \in Nat, m <= n, NEW s, Over(s, m)
  PROVE  Over(s, n)
  <1>1. \A k \in 1 .. m : k \in 1 .. n
    OBVIOUS
  <1> QED
    BY <1>1 DEF Over

\* At the start no row is over.
LEMMA NotOver == \A s : ~Over(s, 0)
  <1>1. 1 .. 0 = {}
    OBVIOUS
  <1> QED
    BY <1>1 DEF Over

\* What the pad of Rollout's end-of-sequence list is.
LEMMA EosIs == EosSet \subseteq Vocab /\ Eos0 \in EosSet
  <1>1. Len(Eos) \in Nat /\ Len(Eos) >= 1 /\ DOMAIN Eos = 1 .. Len(Eos)
        /\ \A i \in 1 .. Len(Eos) : Eos[i] \in Vocab
    BY RolloutAssumption
  <1> QED
    BY <1>1 DEF EosSet, Eos0, ToSet

\* The place of a row in the batch.
LEMMA PromptIn ==
  ASSUME ShapeInv, NEW r \in Rows
  PROVE  /\ Prompt(r) \in 1 .. shape.p
         /\ PadLen(r) \in 0 .. Lp - 1
         /\ driver # "padded" => PadLen(r) = 0
  <1> DEFINE g == shape.g  p == shape.p  q == (r - 1) \div g
  <1>1. g \in Nat \ {0} /\ p \in Nat \ {0} /\ p * g = N /\ r - 1 \in Nat /\ r - 1 < N
    BY RolloutAssumption DEF ShapeInv, Rows
  <1> HIDE DEF g, p
  <1>2. \A a \in Nat, b \in Nat \ {0} : a \div b \in Nat /\ (a \div b) * b <= a
    OBVIOUS
  <1>3. q \in Nat /\ q * g <= r - 1
    BY <1>1, <1>2
  <1>4. ~(p <= q)
    <2> SUFFICES ASSUME p <= q PROVE FALSE
      OBVIOUS
    <2> HIDE DEF q
    <2>1. PICK d \in Nat : q = p + d
      <3>1. q - p \in Nat /\ q = p + (q - p)
        BY <1>1, <1>3
      <3> QED
        BY <3>1
    <2>2. (p + d) * g = p * g + d * g /\ d * g \in Nat
      BY <1>1
    <2> QED
      BY <1>1, <1>3, <2>1, <2>2
  <1>5. Prompt(r) = q + 1
    BY DEF Prompt, g
  <1> HIDE DEF q
  <1>6. Prompt(r) \in 1 .. p
    BY <1>1, <1>3, <1>4, <1>5
  <1>7. shape.lens[Prompt(r)] \in 1 .. Lp
        /\ (driver # "padded" => shape.lens[Prompt(r)] = Lp)
    BY <1>6 DEF ShapeInv, p
  <1>8. Lp \in Nat
    BY RolloutAssumption
  <1> QED
    BY <1>6, <1>7, <1>8 DEF PadLen, p

-----------------------------------------------------------------------------
(***************************************************************************)
(* Parts of sequences, and the columns of the cache.                       *)
(***************************************************************************)

\* A part of a sequence.
LEMMA SubSeqIs ==
  ASSUME NEW s, NEW a \in Nat, NEW b \in Nat
  PROVE  SubSeq(s, a + 1, b) = [i \in 1 .. b - a |-> s[a + i]]
  <1>1. \A i \in 1 .. b - a : i + (a + 1) - 1 = a + i
    OBVIOUS
  <1>2. 1 + b - (a + 1) = b - a
    OBVIOUS
  <1>3. SubSeq(s, a + 1, b) = [i \in 1 .. (1 + b - (a + 1)) |-> s[i + (a + 1) - 1]]
    OBVIOUS
  <1> QED
    BY <1>1, <1>2, <1>3

\* A sequence of m places.
IsRow(s, m) == s = [i \in 1 .. m |-> s[i]]

\* What it is to be a sequence of m places.
LEMMA RowHas ==
  ASSUME NEW s, NEW m \in Nat, IsRow(s, m)
  PROVE  IsSeq(s) /\ Len(s) = m /\ DOMAIN s = 1 .. m
  BY SeqShape DEF IsRow

\* Two sequences, one behind the other.
Joined(s, t) == s \o t

\* A concatenation, place by place.
LEMMA ConcatIs ==
  ASSUME NEW s, NEW t, NEW m \in Nat, NEW n \in Nat, IsRow(s, m), IsRow(t, n),
         NEW u, u = Joined(s, t)
  PROVE  /\ IsRow(u, m + n)
         /\ \A i \in 1 .. m : u[i] = s[i]
         /\ \A i \in m + 1 .. m + n : u[i] = t[i - m]
  <1>1. Len(s) = m /\ Len(t) = n /\ DOMAIN s = 1 .. m /\ DOMAIN t = 1 .. n
    BY RowHas
  <1>2. s = [i \in 1 .. m |-> s[i]] /\ t = [i \in 1 .. n |-> t[i]]
    BY DEF IsRow
  <1>4. u = [i \in 1 .. m + n |-> IF i <= m THEN s[i] ELSE t[i - m]]
    BY <1>1, <1>2 DEF Joined
  <1>5. IsRow(u, m + n)
    BY <1>4 DEF IsRow
  <1>6. /\ \A i \in 1 .. m : i \in 1 .. m + n /\ i <= m
        /\ \A i \in m + 1 .. m + n : i \in 1 .. m + n /\ ~(i <= m)
    OBVIOUS
  <1> QED
    BY <1>4, <1>5, <1>6

\* The cells of the columns m+1..m+j of the sequence s.
Behind(s, m, j) == [k \in 1 .. j |-> Seen(s, 0, m + k)]

\* The tokens in these columns, with their positions.
Tokens(s, m, j) == [k \in 1 .. j |-> <<s[m + k], m + k - 1>>]

\* The pairs that the cells of the columns 1..m own are the pairs seen up to m.
LEMMA OwnsIs ==
  ASSUME NEW s, NEW m \in Nat
  PROVE  Owns(Behind(s, 0, m)) = Seen(s, 0, m)
  <1> DEFINE past == Behind(s, 0, m)
  <1>1. ASSUME NEW i \in 1 .. m PROVE Last(past[i]) = <<s[0 + i], i - 1>>
    <2>1. past[i] = Seen(s, 0, i)
      BY DEF Behind
    <2> DEFINE q == Seen(s, 0, i)
    <2>2. i - 0 = i /\ i \in Nat /\ i \in 1 .. i
      OBVIOUS
    <2>3. q = [x \in 1 .. i |-> <<s[0 + x], x - 1>>]
      BY <2>2 DEF Seen
    <2> HIDE DEF q
    <2>4. IsRow(q, i) /\ q[i] = <<s[0 + i], i - 1>>
      BY <2>2, <2>3 DEF IsRow
    <2>5. Len(q) = i
      BY <2>2, <2>4, RowHas
    <2> HIDE DEF past
    <2> QED
      BY <2>1, <2>4, <2>5 DEF Last, q
  <1>2. Owns(past) = [i \in DOMAIN past |-> Last(past[i])]
    BY DEF Owns, Own
  <1>3. DOMAIN past = 1 .. m /\ m - 0 = m
    BY DEF Behind
  <1> HIDE DEF past
  <1>4. Owns(past) = [i \in 1 .. m |-> <<s[0 + i], i - 1>>]
    BY <1>1, <1>2, <1>3
  <1> QED
    BY <1>3, <1>4 DEF Seen, past

\* A look at m columns, and the tokens of the next k.
LEMMA SeenThen ==
  ASSUME NEW s, NEW m \in Nat, NEW k \in Nat
  PROVE  Seen(s, 0, m) \o Tokens(s, m, k) = Seen(s, 0, m + k)
  <1> DEFINE F == Seen(s, 0, m)
             G == Tokens(s, m, k)
             H == Seen(s, 0, m + k)
  <1>1. /\ F = [i \in 1 .. m |-> <<s[0 + i], i - 1>>]
        /\ H = [i \in 1 .. m + k |-> <<s[0 + i], i - 1>>]
    <2>1. m - 0 = m /\ (m + k) - 0 = m + k
      OBVIOUS
    <2> QED
      BY <2>1 DEF Seen
  <1>2. G = [i \in 1 .. k |-> <<s[m + i], m + i - 1>>]
    BY DEF Tokens
  <1> HIDE DEF F, G, H
  <1>3. IsRow(F, m) /\ IsRow(G, k)
    BY <1>1, <1>2 DEF IsRow
  <1>p. PICK u : u = Joined(F, G)
    OBVIOUS
  <1>4. /\ IsRow(u, m + k) /\ \A i \in 1 .. m : u[i] = F[i]
        /\ \A i \in m + 1 .. m + k : u[i] = G[i - m]
    BY <1>3, <1>p, ConcatIs
  <1>5. ASSUME NEW i \in 1 .. m + k PROVE u[i] = <<s[0 + i], i - 1>>
    <2>1. CASE i \in 1 .. m
      BY <1>1, <1>4, <2>1
    <2>2. CASE i \notin 1 .. m
      <3>1. i \in m + 1 .. m + k /\ i - m \in 1 .. k /\ m + (i - m) = 0 + i
        BY <2>2
      <3>2. G[i - m] = <<s[m + (i - m)], m + (i - m) - 1>>
        BY <1>2, <3>1
      <3>3. u[i] = G[i - m]
        BY <1>4, <3>1
      <3>4. 0 + i = i
        OBVIOUS
      <3> QED
        BY <3>1, <3>2, <3>3, <3>4
    <2> QED
      BY <2>1, <2>2
  <1>6. u = H
    BY <1>1, <1>4, <1>5 DEF IsRow
  <1> QED
    BY <1>6, <1>p DEF F, G, H, Joined

\* The cells of what is fed behind the columns that a cache holds.
LEMMA CellsIs ==
  ASSUME NEW s, NEW m \in Nat, NEW j \in Nat
  PROVE  Cells(Behind(s, 0, m), Tokens(s, m, j)) = Behind(s, m, j)
  <1> DEFINE past == Behind(s, 0, m)
             fed == Tokens(s, m, j)
  <1>1. Owns(past) = Seen(s, 0, m)
    BY OwnsIs
  <1>2. DOMAIN fed = 1 .. j /\ \A k \in 1 .. j : fed[k] = <<s[m + k], m + k - 1>>
    BY DEF Tokens
  <1> HIDE DEF fed
  <1>3. ASSUME NEW k \in 1 .. j PROVE SubSeq(fed, 1, k) = Tokens(s, m, k)
    <2>1. SubSeq(fed, 0 + 1, k) = [i \in 1 .. k - 0 |-> fed[0 + i]]
      BY SubSeqIs
    <2>2. 0 + 1 = 1 /\ k - 0 = k /\ \A i \in 1 .. k : 0 + i = i /\ i \in 1 .. j
      OBVIOUS
    <2> QED
      BY <1>2, <2>1, <2>2 DEF Tokens
  <1>4. ASSUME NEW k \in 1 .. j PROVE Owns(past) \o SubSeq(fed, 1, k) = Seen(s, 0, m + k)
    <2>1. k \in Nat
      OBVIOUS
    <2> QED
      BY <1>1, <1>3, <2>1, SeenThen
  <1>5. Cells(past, fed) = [k \in DOMAIN fed |-> Owns(past) \o SubSeq(fed, 1, k)]
    BY DEF Cells
  <1> HIDE DEF past
  <1>6. Cells(past, fed) = Behind(s, m, j)
    BY <1>2, <1>4, <1>5 DEF Behind
  <1> QED
    BY <1>6 DEF past, fed

\* A cache of n rows that holds the first m columns of the sequence S[i].
Caching(c, n, S, m) ==
  c = [cap |-> Lp + MaxNew, filled |-> m, rows |-> [i \in 1 .. n |-> Columns(S[i], m)]]

\* The same, or the cache that nobody has written yet.
Cached(c, n, S, m) == Caching(c, n, S, m) \/ (m = 0 /\ c = WithCapacity(Lp + MaxNew))

\* What is fed to it next: the j tokens behind these columns.
Feeding(fed, n, S, m, j) ==
  DOMAIN fed = 1 .. n /\ \A i \in 1 .. n : fed[i] = Tokens(S[i], m, j)

\* A cache is allocated once it has been written.
LEMMA CachingHas ==
  ASSUME NEW c, NEW n \in Nat \ {0}, NEW S, NEW m \in Nat, Caching(c, n, S, m)
  PROVE  /\ Allocated(c) /\ c.cap = Lp + MaxNew /\ c.filled = m /\ DOMAIN c.rows = 1 .. n
         /\ \A i \in 1 .. n : c.rows[i] = Columns(S[i], m)
         /\ c = [cap |-> Lp + MaxNew, filled |-> m, rows |-> c.rows]
  <1> DEFINE R == [i \in 1 .. n |-> Columns(S[i], m)]
  <1>1. c = [cap |-> Lp + MaxNew, filled |-> m, rows |-> R]
    BY DEF Caching
  <1>2. DOMAIN R = 1 .. n /\ \A i \in 1 .. n : R[i] = Columns(S[i], m)
    OBVIOUS
  <1> HIDE DEF R
  <1>3. R # <<>>
    <2>1. 1 \in DOMAIN R /\ DOMAIN <<>> = {}
      BY <1>2
    <2> QED
      BY <2>1
  <1> QED
    BY <1>1, <1>2, <1>3 DEF Allocated

\* The columns that a cache has filled.
LEMMA PrefixIs ==
  ASSUME NEW s, NEW m \in Nat, m <= Lp + MaxNew, NEW q, q = Columns(s, m)
  PROVE  SubSeq(q, 1, m) = Behind(s, 0, m)
  <1>0. Lp \in Nat /\ MaxNew \in Nat
    BY RolloutAssumption
  <1>2. SubSeq(q, 0 + 1, m) = [x \in 1 .. m - 0 |-> q[0 + x]]
    BY SubSeqIs
  <1>3. \A x \in 1 .. m : 0 + x = x /\ x \in 1 .. Lp + MaxNew /\ ~(x > m)
    BY <1>0
  <1>4. \A x \in 1 .. m : q[0 + x] = Seen(s, 0, 0 + x)
    BY <1>3 DEF Columns
  <1>5. 0 + 1 = 1 /\ m - 0 = m
    OBVIOUS
  <1>6. SubSeq(q, 1, m) = [x \in 1 .. m |-> Seen(s, 0, 0 + x)]
    BY <1>2, <1>4, <1>5
  <1> QED
    BY <1>6 DEF Behind

\* The cells that a forward adds to a cache, empty or not.
LEMMA NewCellsIs ==
  ASSUME NEW c, NEW n \in Nat \ {0}, NEW S, NEW m \in Nat, NEW j \in Nat, NEW fed,
         m <= Lp + MaxNew, Feeding(fed, n, S, m, j), Cached(c, n, S, m)
  PROVE  /\ DOMAIN NewCells(c, fed) = 1 .. n
         /\ \A i \in 1 .. n : NewCells(c, fed)[i] = Behind(S[i], m, j)
  <1> DEFINE past(i) == IF Allocated(c) THEN Prefix(c, i) ELSE <<>>
  <1>1. ASSUME NEW i \in 1 .. n PROVE past(i) = Behind(S[i], 0, m)
    <2>1. CASE Caching(c, n, S, m)
      <3>1. Allocated(c) /\ c.filled = m
        BY <2>1, CachingHas
      <3>a. Allocated(c) /\ c.rows[i] = Columns(S[i], m)
        BY <2>1, CachingHas
      <3>2. SubSeq(c.rows[i], 1, m) = Behind(S[i], 0, m)
        BY <3>a, PrefixIs
      <3> QED
        BY <3>1, <3>2 DEF Prefix
    <2>2. CASE m = 0 /\ c = WithCapacity(Lp + MaxNew)
      <3>1. ~Allocated(c)
        BY <2>2 DEF Allocated, WithCapacity
      <3>2. Behind(S[i], 0, m) = <<>>
        <4>1. 1 .. m = {}
          BY <2>2
        <4> QED
          BY <4>1 DEF Behind
      <3> QED
        BY <3>1, <3>2
    <2> QED
      BY <2>1, <2>2 DEF Cached
  <1>2. NewCells(c, fed) = [i \in DOMAIN fed |-> Cells(past(i), fed[i])]
    BY DEF NewCells
  <1> HIDE DEF past
  <1>3. \A i \in 1 .. n : fed[i] = Tokens(S[i], m, j)
    BY DEF Feeding
  <1>4. DOMAIN fed = 1 .. n
    BY DEF Feeding
  <1>5. \A i \in 1 .. n : Cells(past(i), fed[i]) = Behind(S[i], m, j)
    BY <1>1, <1>3, CellsIs
  <1> QED
    BY <1>2, <1>4, <1>5

\* The buffer that a forward writes to.
LEMMA BufferIs ==
  ASSUME NEW c, NEW n \in Nat \ {0}, NEW S, NEW m \in Nat, Cached(c, n, S, m),
         NEW i \in 1 .. n, NEW x \in 1 .. Lp + MaxNew
  PROVE  Buffer(c, n)[i][x] = IF x > m THEN Zero ELSE Seen(S[i], 0, x)
  <1>1. CASE Caching(c, n, S, m)
    <2>1. Allocated(c) /\ c.rows[i] = Columns(S[i], m)
      BY <1>1, CachingHas
    <2> QED
      BY <2>1 DEF Buffer, Columns
  <1>2. CASE m = 0 /\ c = WithCapacity(Lp + MaxNew)
    <2>1. ~Allocated(c) /\ c.cap = Lp + MaxNew
      BY <1>2 DEF Allocated, WithCapacity
    <2>2. Buffer(c, n)[i][x] = Zero
      BY <2>1 DEF Buffer
    <2>3. x > m
      BY <1>2
    <2> QED
      BY <2>2, <2>3
  <1> QED
    BY <1>1, <1>2 DEF Cached

\* What n rows have seen of their first m columns.
Views(n, S, m) == [i \in 1 .. n |-> Seen(S[i], 0, m)]

\* A forward through the cache.
LEMMA ForwardIs ==
  ASSUME NEW c, NEW n \in Nat \ {0}, NEW S, NEW m \in Nat, NEW j \in Nat \ {0}, NEW fed,
         m + j <= Lp + MaxNew, Feeding(fed, n, S, m, j), Cached(c, n, S, m)
  PROVE  /\ Caching(Forward(c, fed), n, S, m + j)
         /\ Logits(c, fed) = Views(n, S, m + j)
  <1> DEFINE new == NewCells(c, fed)
  <1>0. Lp \in Nat /\ MaxNew \in Nat
    BY RolloutAssumption
  <1>1. DOMAIN new = 1 .. n /\ \A i \in 1 .. n : new[i] = Behind(S[i], m, j)
    <2>1. m <= Lp + MaxNew /\ j \in Nat
      BY <1>0
    <2> HIDE DEF new
    <2> QED
      BY <2>1, NewCellsIs DEF new
  <1>2. DOMAIN fed = 1 .. n
    BY DEF Feeding
  <1>3. Forward(c, fed) = Update(c, new) /\ Logits(c, fed) = [i \in DOMAIN fed |-> Last(new[i])]
    BY DEF Forward, Logits
  <1>a. new = [i \in DOMAIN fed |-> new[i]]
    BY DEF NewCells
  <1> HIDE DEF new
  <1>4. ASSUME NEW i \in 1 .. n
        PROVE  /\ Len(new[i]) = j /\ DOMAIN new[i] = 1 .. j
               /\ \A k \in 1 .. j : new[i][k] = Seen(S[i], 0, m + k)
    <2> DEFINE q == new[i]
    <2>1. q = [k \in 1 .. j |-> Seen(S[i], 0, m + k)]
      BY <1>1 DEF Behind
    <2> HIDE DEF q
    <2>2. IsRow(q, j) /\ \A k \in 1 .. j : q[k] = Seen(S[i], 0, m + k)
      BY <2>1 DEF IsRow
    <2>3. Len(q) = j /\ DOMAIN q = 1 .. j
      BY <2>2, RowHas
    <2> QED
      BY <2>2, <2>3 DEF q
  <1>5. \A i \in 1 .. n : Last(new[i]) = Seen(S[i], 0, m + j)
    <2>1. j \in 1 .. j
      OBVIOUS
    <2>2. ASSUME NEW i \in 1 .. n PROVE Last(new[i]) = Seen(S[i], 0, m + j)
      <3>1. Last(new[i]) = new[i][Len(new[i])]
        BY DEF Last
      <3> QED
        BY <1>4, <2>1, <3>1
    <2> QED
      BY <2>2
  <1>6. Logits(c, fed) = Views(n, S, m + j)
    BY <1>2, <1>3, <1>5 DEF Views
  <1>7. c = [cap |-> Lp + MaxNew, filled |-> m, rows |-> c.rows]
    <2>1. CASE Caching(c, n, S, m)
      BY <2>1, CachingHas
    <2>2. CASE m = 0 /\ c = WithCapacity(Lp + MaxNew)
      BY <2>2 DEF WithCapacity
    <2> QED
      BY <2>1, <2>2 DEF Cached
  <1>8. Len(new) = n
    <2>1. IsRow(new, n)
      BY <1>2, <1>a DEF IsRow
    <2> QED
      BY <2>1, RowHas
  <1> DEFINE Col(i, x) == IF x - m \in DOMAIN new[i] THEN new[i][x - m] ELSE Buffer(c, n)[i][x]
  <1>9. ASSUME NEW i \in 1 .. n, NEW x \in 1 .. Lp + MaxNew
        PROVE  Col(i, x) = IF x > m + j THEN Zero ELSE Seen(S[i], 0, x)
    <2>1. CASE x - m \in 1 .. j
      <3>1. m + (x - m) = x /\ ~(x > m + j)
        BY <1>0, <2>1
      <3>2. new[i][x - m] = Seen(S[i], 0, m + (x - m))
        BY <1>4, <2>1
      <3>3. Col(i, x) = new[i][x - m]
        BY <1>4, <2>1
      <3> QED
        BY <3>1, <3>2, <3>3
    <2>2. CASE x - m \notin 1 .. j
      <3>1. (x > m + j /\ x > m) \/ (~(x > m + j) /\ ~(x > m))
        BY <1>0, <2>2
      <3>2. Buffer(c, n)[i][x] = IF x > m THEN Zero ELSE Seen(S[i], 0, x)
        BY BufferIs
      <3>3. Col(i, x) = Buffer(c, n)[i][x]
        BY <1>4, <2>2
      <3> QED
        BY <3>1, <3>2, <3>3
    <2> QED
      BY <2>1, <2>2
  <1> DEFINE rows == [i \in DOMAIN new |-> [x \in 1 .. c.cap |->
                        IF x - c.filled \in DOMAIN new[i] THEN new[i][x - c.filled]
                        ELSE Buffer(c, Len(new))[i][x]]]
  <1>10. c.cap = Lp + MaxNew /\ c.filled = m
    BY <1>7
  <1>11. rows = [i \in 1 .. n |-> [x \in 1 .. Lp + MaxNew |-> Col(i, x)]]
    BY <1>1, <1>8, <1>10
  <1>12. Update(c, new) = [c EXCEPT !.filled = @ + Len(new[1]), !.rows = rows]
    BY DEF Update
  <1> HIDE DEF rows, Col
  <1>13. DOMAIN rows = 1 .. n /\ \A i \in 1 .. n : rows[i] = Columns(S[i], m + j)
    <2>1. ASSUME NEW i \in 1 .. n PROVE rows[i] = Columns(S[i], m + j)
      <3>1. rows[i] = [x \in 1 .. Lp + MaxNew |-> Col(i, x)]
        BY <1>11
      <3> QED
        BY <1>9, <3>1 DEF Columns
    <2> QED
      BY <1>11, <2>1
  <1>14. rows = [i \in 1 .. n |-> Columns(S[i], m + j)]
    <2>1. rows = [i \in 1 .. n |-> rows[i]]
      BY <1>11
    <2> QED
      BY <1>13, <2>1
  <1>15. Len(new[1]) = j
    <2>1. 1 \in 1 .. n
      OBVIOUS
    <2> QED
      BY <1>4, <2>1
  <1>16. Update(c, new) = [cap |-> Lp + MaxNew, filled |-> m + j, rows |-> rows]
    BY <1>7, <1>10, <1>12, <1>15
  <1>17. Caching(Forward(c, fed), n, S, m + j)
    BY <1>3, <1>14, <1>16 DEF Caching
  <1> QED
    BY <1>6, <1>17

-----------------------------------------------------------------------------
(***************************************************************************)
(* What a row says, and the contexts of its tokens.                        *)
(***************************************************************************)

\* One more place.
Longer(s, x) == Append(s, x)

\* What an append gives, for a sequence of m places.
LEMMA AppendIs ==
  ASSUME NEW s, NEW m \in Nat, IsRow(s, m), NEW x, NEW u, u = Longer(s, x)
  PROVE  IsRow(u, m + 1) /\ u[m + 1] = x /\ \A i \in 1 .. m : u[i] = s[i]
  <1>1. IsSeq(s) /\ Len(s) = m
    BY RowHas
  <1>2. /\ IsSeq(u) /\ Len(u) = m + 1
        /\ \A i \in 1 .. m : u[i] = s[i]
        /\ u[m + 1] = x
    BY <1>1, SeqGrows DEF Longer
  <1>3. u = [i \in 1 .. m + 1 |-> u[i]]
    <2>1. DOMAIN u = 1 .. m + 1
      BY <1>2, SeqHas
    <2> DEFINE S == {u[i] : i \in DOMAIN u}
    <2>a. u \in Seq(S)
      BY <1>2 DEF IsSeq
    <2> HIDE DEF S
    <2>2. u = [i \in DOMAIN u |-> u[i]]
      BY <2>a
    <2> QED
      BY <2>1, <2>2
  <1> QED
    BY <1>2, <1>3 DEF IsRow

\* One more column is seen.
LEMMA SeenNext ==
  ASSUME NEW s, NEW m \in Nat, NEW u, u = Longer(Seen(s, 0, m), <<s[m + 1], m>>)
  PROVE  u = Seen(s, 0, m + 1)
  <1> DEFINE F == Seen(s, 0, m)
             H == Seen(s, 0, m + 1)
  <1>1. /\ F = [i \in 1 .. m |-> <<s[0 + i], i - 1>>]
        /\ H = [i \in 1 .. m + 1 |-> <<s[0 + i], i - 1>>]
    <2>1. m - 0 = m /\ (m + 1) - 0 = m + 1
      OBVIOUS
    <2> QED
      BY <2>1 DEF Seen
  <1>2. u = Longer(F, <<s[m + 1], m>>)
    OBVIOUS
  <1> HIDE DEF F, H
  <1>3. IsRow(F, m)
    BY <1>1 DEF IsRow
  <1>4. IsRow(u, m + 1) /\ u[m + 1] = <<s[m + 1], m>> /\ \A i \in 1 .. m : u[i] = F[i]
    BY <1>2, <1>3, AppendIs
  <1>5. ASSUME NEW i \in 1 .. m + 1 PROVE u[i] = <<s[0 + i], i - 1>>
    <2>1. CASE i \in 1 .. m
      BY <1>1, <1>4, <2>1
    <2>2. CASE i \notin 1 .. m
      <3>1. i = m + 1 /\ 0 + i = m + 1 /\ i - 1 = m
        BY <2>2
      <3> QED
        BY <1>4, <3>1
    <2> QED
      BY <2>1, <2>2
  <1>6. u = H
    BY <1>1, <1>4, <1>5 DEF IsRow
  <1> QED
    BY <1>6 DEF H

\* The static cache: `filled` stays where the prefill left it.
StaticCaching(c, n, S, m) ==
  c = [cap |-> Lp + MaxNew, filled |-> Lp, rows |-> [i \in 1 .. n |-> Columns(S[i], m)]]

\* The next tokens of the rows.
Nexts(toks, n, S, m) == DOMAIN toks = 1 .. n /\ \A i \in 1 .. n : toks[i] = S[i][m + 1]

\* A step of the static cache.
LEMMA StaticIs ==
  ASSUME NEW c, NEW n \in Nat \ {0}, NEW S, NEW m \in Nat, m < Lp + MaxNew,
         StaticCaching(c, n, S, m), NEW toks, Nexts(toks, n, S, m)
  PROVE  /\ StaticCaching(ForwardStatic(c, m, toks), n, S, m + 1)
         /\ StaticCells(c, m, toks) = Views(n, S, m + 1)
  <1> DEFINE R == [i \in 1 .. n |-> Columns(S[i], m)]
             new == StaticCells(c, m, toks)
  <1>0. Lp \in Nat /\ MaxNew \in Nat /\ m <= Lp + MaxNew /\ m + 1 \in 1 .. Lp + MaxNew
    BY RolloutAssumption
  <1>1. c = [cap |-> Lp + MaxNew, filled |-> Lp, rows |-> R]
    BY DEF StaticCaching
  <1>2. DOMAIN R = 1 .. n /\ \A i \in 1 .. n : R[i] = Columns(S[i], m)
    OBVIOUS
  <1> HIDE DEF R
  <1>3. Allocated(c) /\ c.rows = R
    <2>1. 1 \in DOMAIN R /\ DOMAIN <<>> = {}
      BY <1>2
    <2>2. R # <<>>
      BY <2>1
    <2> QED
      BY <1>1, <2>2 DEF Allocated
  <1>4. ASSUME NEW i \in 1 .. n
        PROVE  Append(Owns(SubSeq(R[i], 1, m)), <<S[i][m + 1], m>>) = Seen(S[i], 0, m + 1)
    <2>1. R[i] = Columns(S[i], m)
      BY <1>2
    <2>2. SubSeq(R[i], 1, m) = Behind(S[i], 0, m)
      BY <1>0, <2>1, PrefixIs
    <2>3. Owns(SubSeq(R[i], 1, m)) = Seen(S[i], 0, m)
      BY <2>2, OwnsIs
    <2>4. PICK u : u = Longer(Owns(SubSeq(R[i], 1, m)), <<S[i][m + 1], m>>)
      OBVIOUS
    <2>5. u = Longer(Seen(S[i], 0, m), <<S[i][m + 1], m>>)
      BY <2>3, <2>4
    <2>6. u = Seen(S[i], 0, m + 1)
      BY <2>5, SeenNext
    <2> QED
      BY <2>4, <2>6 DEF Longer
  <1>5. \A i \in 1 .. n : R[i][m + 1] = Zero
    <2>1. m + 1 > m
      OBVIOUS
    <2> QED
      BY <1>0, <1>2, <2>1 DEF Columns
  <1>6. DOMAIN toks = 1 .. n /\ \A i \in 1 .. n : toks[i] = S[i][m + 1]
    BY DEF Nexts
  <1>7. new = [i \in 1 .. n |->
                 Append(Owns(SubSeq(R[i], 1, m)),
                        IF R[i][m + 1] = Zero THEN <<toks[i], m>> ELSE Blur)]
    BY <1>3, <1>6 DEF StaticCells
  <1> HIDE DEF new
  <1>8. \A i \in 1 .. n : new[i] = Append(Owns(SubSeq(R[i], 1, m)), <<S[i][m + 1], m>>)
    BY <1>5, <1>6, <1>7
  <1>9. DOMAIN new = 1 .. n /\ \A i \in 1 .. n : new[i] = Seen(S[i], 0, m + 1)
    BY <1>4, <1>7, <1>8
  <1>14. new = Views(n, S, m + 1)
    <2>1. new = [i \in 1 .. n |-> new[i]]
      BY <1>7
    <2> QED
      BY <1>9, <2>1 DEF Views
  <1> DEFINE Q == [i \in 1 .. n |-> [R[i] EXCEPT ![m + 1] = IF @ = Zero THEN new[i] ELSE Spoiled]]
  <1>10. ForwardStatic(c, m, toks) = [c EXCEPT !.rows = Q]
    <2>1. Buffer(c, Len(new)) = R
      BY <1>3 DEF Buffer
    <2>2. ForwardStatic(c, m, toks) =
            [c EXCEPT !.rows = [i \in DOMAIN new |-> [Buffer(c, Len(new))[i] EXCEPT
               ![m + 1] = IF @ = Zero THEN new[i] ELSE Spoiled]]]
      BY DEF ForwardStatic, UpdateStatic, new
    <2> QED
      BY <1>9, <2>1, <2>2
  <1>11. ASSUME NEW i \in 1 .. n PROVE Q[i] = Columns(S[i], m + 1)
    <2> DEFINE q == R[i]
    <2>1. q = Columns(S[i], m) /\ q[m + 1] = Zero
      BY <1>2, <1>5
    <2>2. Q[i] = [q EXCEPT ![m + 1] = IF @ = Zero THEN new[i] ELSE Spoiled]
      OBVIOUS
    <2> HIDE DEF q, Q
    <2>3. Q[i] = [q EXCEPT ![m + 1] = Seen(S[i], 0, m + 1)]
      BY <1>9, <2>1, <2>2
    <2>4. q = [x \in 1 .. Lp + MaxNew |-> IF x > m THEN Zero ELSE Seen(S[i], 0, x)]
      BY <2>1 DEF Columns
    <2>5. Q[i] = [x \in 1 .. Lp + MaxNew |->
                    IF x = m + 1 THEN Seen(S[i], 0, m + 1)
                    ELSE IF x > m THEN Zero ELSE Seen(S[i], 0, x)]
      BY <2>3, <2>4
    <2>6. ASSUME NEW x \in 1 .. Lp + MaxNew
          PROVE  (IF x = m + 1 THEN Seen(S[i], 0, m + 1)
                  ELSE IF x > m THEN Zero ELSE Seen(S[i], 0, x))
                   = IF x > m + 1 THEN Zero ELSE Seen(S[i], 0, x)
      <3>1. x = m + 1 \/ (x # m + 1 /\ (x > m <=> x > m + 1))
        BY <1>0
      <3>2. x = m + 1 => ~(x > m + 1)
        BY <1>0
      <3> QED
        BY <3>1, <3>2
    <2> QED
      BY <2>5, <2>6 DEF Columns
  <1>12. Q = [i \in 1 .. n |-> Columns(S[i], m + 1)]
    <2>1. Q = [i \in 1 .. n |-> Q[i]]
      OBVIOUS
    <2> HIDE DEF Q
    <2> QED
      BY <1>11, <2>1
  <1> HIDE DEF Q
  <1>13. StaticCaching(ForwardStatic(c, m, toks), n, S, m + 1)
    <2>1. ForwardStatic(c, m, toks) = [cap |-> Lp + MaxNew, filled |-> Lp, rows |-> Q]
      BY <1>1, <1>10
    <2> QED
      BY <1>12, <2>1 DEF StaticCaching
  <1> QED
    BY <1>13, <1>14 DEF new

\* The tokens of a completion.
Said(s, n) == [k \in 1 .. n |-> s[Lp + k]]

\* What a row deserved its log-probabilities from.
LEMMA IdealIs ==
  ASSUME ShapeInv, NEW r \in Rows, NEW k \in Nat \ {0}
  PROVE  Ideal(r, k) = Seen(ids[r], PadLen(r), Lp + k - 1)
  <1> DEFINE s == ids[r]
             pad == PadLen(r)
             m == Lp + k - 1
             q == SubSeq(s, pad + 1, m)
  <1>1. pad \in Nat /\ m \in Nat
    BY PromptIn, RolloutAssumption
  <1>2. Ideal(r, k) = [i \in DOMAIN q |-> <<q[i], i - 1>>]
    BY DEF Ideal
  <1> HIDE DEF s, pad, m
  <1>3. q = [i \in 1 .. m - pad |-> s[pad + i]]
    BY <1>1, SubSeqIs
  <1> HIDE DEF q
  <1>4. Ideal(r, k) = [i \in 1 .. m - pad |-> <<s[pad + i], i - 1>>]
    BY <1>2, <1>3
  <1> QED
    BY <1>4 DEF Seen, s, pad, m

\* The completion tokens of a row after n steps.
LEMMA CompletedIs ==
  ASSUME ShapeInv, NEW n \in 0 .. MaxNew, IdsInv(n), NEW r \in Rows
  PROVE  Completed(r) = Said(ids[r], n)
  <1> DEFINE s == ids[r]
             written == {k \in Lp + 1 .. Len(s) : s[k] # Blank}
  <1>0. Lp \in Nat /\ MaxNew \in Nat /\ n \in Nat /\ n <= MaxNew
    BY RolloutAssumption
  <1>1. /\ Len(s) = Lp + (IF driver \in LoopDrivers THEN MaxNew ELSE n)
        /\ \A k \in 1 .. n : s[Lp + k] \in Vocab
        /\ driver \in LoopDrivers => \A k \in n + 1 .. MaxNew : s[Lp + k] = Blank
    BY DEF IdsInv
  <1> HIDE DEF s
  <1>2. ASSUME NEW k \in Lp + 1 .. Len(s) PROVE s[k] # Blank <=> k \in Lp + 1 .. Lp + n
    <2>1. k \in Int /\ k - Lp >= 1 /\ Lp + (k - Lp) = k
      BY <1>0, <1>1
    <2>2. CASE k \in Lp + 1 .. Lp + n
      <3>1. k - Lp \in 1 .. n
        BY <1>0, <2>1, <2>2
      <3>2. s[k] \in Vocab
        BY <1>1, <2>1, <3>1
      <3> QED
        BY <2>2, <3>2, RolloutAssumption
    <2>3. CASE k \notin Lp + 1 .. Lp + n
      <3>1. driver \in LoopDrivers
        BY <1>0, <1>1, <2>1, <2>3
      <3>2. k - Lp \in n + 1 .. MaxNew
        BY <1>0, <1>1, <2>1, <2>3, <3>1
      <3>3. s[k] = Blank
        BY <1>1, <2>1, <3>1, <3>2
      <3> QED
        BY <2>3, <3>3
    <2> QED
      BY <2>2, <2>3
  <1>3. written = Lp + 1 .. Lp + n
    <2>1. \A k \in Lp + 1 .. Lp + n : k \in Lp + 1 .. Len(s)
      BY <1>0, <1>1
    <2> QED
      BY <1>2, <2>1
  <1>4. Cardinality(written) = n
    BY <1>0, <1>3, AscendingRow
  <1>5. Completed(r) = SubSeq(s, Lp + 1, Lp + Cardinality(written))
    BY DEF Completed, s
  <1> HIDE DEF written
  <1>6. Completed(r) = SubSeq(s, Lp + 1, Lp + n)
    BY <1>4, <1>5
  <1>7. SubSeq(s, Lp + 1, Lp + n) = [i \in 1 .. (Lp + n) - Lp |-> s[Lp + i]]
    <2>1. Lp + n \in Nat
      BY <1>0
    <2> QED
      BY <1>0, <2>1, SubSeqIs
  <1>8. (Lp + n) - Lp = n
    BY <1>0
  <1> QED
    BY <1>6, <1>7, <1>8 DEF Said, s

\* The part of a completion up to its first end-of-sequence token.
CutAt(s, n, m) ==
  /\ Cut(Said(s, n)) = Said(s, m)
  /\ \A k \in 1 .. n : k <= m <=> ~Over(s, k - 1)
  /\ Over(s, n) => m >= 1 /\ s[Lp + m] \in EosSet
  /\ ~Over(s, n) => m = n

\* There is such a part.
LEMMA CutIs ==
  ASSUME NEW s, NEW n \in Nat
  PROVE  \E m \in 0 .. n : CutAt(s, n, m)
  <1> DEFINE c == Said(s, n)
             T == EndsAt(c)
  <1>0. DOMAIN c = 1 .. n /\ \A k \in 1 .. n : c[k] = s[Lp + k]
    BY DEF Said
  <1>1. T = {k \in 1 .. n : s[Lp + k] \in EosSet}
    <2> HIDE DEF c
    <2> QED
      BY <1>0 DEF EndsAt
  <1>2. Cut(c) = IF T = {} THEN c ELSE SubSeq(c, 1, Min(T))
    BY DEF Cut
  <1> HIDE DEF T, c
  <1>3. CASE T = {}
    <2>1. \A k \in 1 .. n : s[Lp + k] \notin EosSet
      BY <1>1, <1>3
    <2>2. ~Over(s, n)
      BY <2>1 DEF Over
    <2>3. ASSUME NEW k \in 1 .. n PROVE k <= n /\ ~Over(s, k - 1)
      <3>1. \A j \in 1 .. k - 1 : j \in 1 .. n
        OBVIOUS
      <3> QED
        BY <2>1, <3>1 DEF Over
    <2>4. n \in 0 .. n /\ Cut(c) = c
      BY <1>2, <1>3
    <2>5. CutAt(s, n, n)
      BY <2>2, <2>3, <2>4 DEF CutAt, c
    <2> QED
      BY <2>4, <2>5
  <1>4. CASE T # {}
    <2> DEFINE m == Min(T)
    <2>1. m \in T /\ \A k \in T : m <= k
      <3>1. T \in SUBSET Nat
        BY <1>1
      <3>2. \E k \in T : \A j \in T : k <= j
        BY <1>4, <3>1, LeastNat
      <3> QED
        BY <3>2 DEF Min
    <2> HIDE DEF m
    <2>2. m \in 1 .. n /\ s[Lp + m] \in EosSet /\ m \in 0 .. n /\ m \in Nat
      BY <1>1, <2>1
    <2>3. Over(s, n)
      BY <2>2 DEF Over
    <2>4. ASSUME NEW k \in 1 .. n PROVE k <= m <=> ~Over(s, k - 1)
      <3>1. CASE k <= m
        <4>1. \A j \in 1 .. k - 1 : j \in 1 .. n /\ ~(m <= j)
          BY <2>2, <3>1
        <4>2. \A j \in 1 .. k - 1 : s[Lp + j] \notin EosSet
          BY <1>1, <2>1, <4>1
        <4> QED
          BY <3>1, <4>2 DEF Over
      <3>2. CASE ~(k <= m)
        <4>1. m \in 1 .. k - 1
          BY <2>2, <3>2
        <4> QED
          BY <2>2, <3>2, <4>1 DEF Over
      <3> QED
        BY <3>1, <3>2
    <2>5. Cut(c) = Said(s, m)
      <3>1. SubSeq(c, 0 + 1, m) = [i \in 1 .. m - 0 |-> c[0 + i]]
        BY <2>2, SubSeqIs
      <3>2. 0 + 1 = 1 /\ m - 0 = m /\ \A i \in 1 .. m : 0 + i = i /\ i \in 1 .. n
        BY <2>2
      <3>3. SubSeq(c, 1, m) = [i \in 1 .. m |-> s[Lp + i]]
        BY <1>0, <3>1, <3>2
      <3>4. Cut(c) = SubSeq(c, 1, m)
        BY <1>2, <1>4 DEF m
      <3> QED
        BY <3>3, <3>4 DEF Said
    <2>6. m >= 1
      BY <2>2
    <2>7. CutAt(s, n, m)
      BY <2>2, <2>3, <2>4, <2>5, <2>6 DEF CutAt, c
    <2> QED
      BY <2>2, <2>7
  <1> QED
    BY <1>3, <1>4

\* The first M columns of s are fed, the first pad of which are padding.
Padded(fed, real, s, pad, M) ==
  /\ IsRow(fed, M)
  /\ \A k \in 1 .. M : real[k] <=> k > pad
  /\ \A k \in pad + 1 .. M : fed[k] = <<s[k], k - pad - 1>>

\* The context of the last of them.
LEMMA ContextIs ==
  ASSUME NEW s, NEW pad \in Nat, NEW M \in Nat, pad < M, NEW fed, NEW real,
         Padded(fed, real, s, pad, M)
  PROVE  Context(fed, real) = Seen(s, pad, M)
  <1>0. /\ IsRow(fed, M)
        /\ \A k \in 1 .. M : real[k] <=> k > pad
        /\ \A k \in pad + 1 .. M : fed[k] = <<s[k], k - pad - 1>>
    BY DEF Padded
  <1>1. DOMAIN fed = 1 .. M /\ Len(fed) = M
    BY <1>0, RowHas
  <1>2. {k \in DOMAIN fed : real[k] \/ k = Len(fed)} = pad + 1 .. pad + (M - pad)
    <2>1. \A k \in 1 .. M : (real[k] \/ k = M) <=> k \in pad + 1 .. pad + (M - pad)
      BY <1>0
    <2>2. \A k \in pad + 1 .. pad + (M - pad) : k \in 1 .. M
      OBVIOUS
    <2> QED
      BY <1>1, <2>1, <2>2
  <1>3. Context(fed, real) = SubAt(fed, pad + 1 .. pad + (M - pad))
    BY <1>2 DEF Context
  <1>4. M - pad \in Nat
    OBVIOUS
  <1>5. Context(fed, real) = [i \in 1 .. M - pad |-> fed[pad + i]]
    BY <1>3, <1>4, SubAtRow
  <1>6. ASSUME NEW i \in 1 .. M - pad PROVE fed[pad + i] = <<s[pad + i], i - 1>>
    <2>1. pad + i \in pad + 1 .. M /\ (pad + i) - pad - 1 = i - 1
      OBVIOUS
    <2> QED
      BY <1>0, <2>1
  <1> QED
    BY <1>5, <1>6 DEF Seen

-----------------------------------------------------------------------------

(***************************************************************************)
(* The forwards.                                                           *)
(***************************************************************************)

\* The rows act of the batch are in the cache c with their first m columns.
HoldsAs(c, act, seqs, m, f) ==
  c = [cap |-> Lp + MaxNew, filled |-> f,
       rows |-> [i \in DOMAIN act |-> Columns(seqs[act[i]], m)]]

\* The contexts of these rows.
Contexts(act, seqs, m) == [i \in DOMAIN act |-> Seen(seqs[act[i]], 0, m)]

\* Some of the rows, n of them, and their sequences.
Picked(act) == act \in Seq(Rows) /\ act # <<>>
Selection(act, seqs, n, S) ==
  /\ DOMAIN act = 1 .. n
  /\ \A i \in DOMAIN act : act[i] \in Rows /\ S[i] = seqs[act[i]]

\* They have that.
LEMMA RowsOf ==
  ASSUME NEW act, Picked(act), NEW seqs
  PROVE  \E n \in Nat \ {0} : \E S : Selection(act, seqs, n, S)
  <1>1. DOMAIN act = 1 .. Len(act) /\ Len(act) \in Nat \ {0}
    BY DEF Picked
  <1> DEFINE S == [i \in DOMAIN act |-> seqs[act[i]]]
  <1>2. \A i \in DOMAIN act : act[i] \in Rows /\ S[i] = seqs[act[i]]
    BY DEF Picked
  <1> HIDE DEF S
  <1> QED
    BY <1>1, <1>2 DEF Selection

\* A cache of these rows is a cache of their sequences.
LEMMA SelectionHolds ==
  ASSUME NEW act, NEW seqs, NEW n, NEW S, Selection(act, seqs, n, S), NEW c, NEW m
  PROVE  /\ HoldsAs(c, act, seqs, m, m) <=> Caching(c, n, S, m)
         /\ HoldsAs(c, act, seqs, m, Lp) <=> StaticCaching(c, n, S, m)
         /\ Contexts(act, seqs, m) = Views(n, S, m)
  <1>1. DOMAIN act = 1 .. n /\ \A i \in DOMAIN act : S[i] = seqs[act[i]]
    BY DEF Selection
  <1>2. [i \in DOMAIN act |-> Columns(seqs[act[i]], m)] = [i \in 1 .. n |-> Columns(S[i], m)]
    BY <1>1
  <1>3. Contexts(act, seqs, m) = Views(n, S, m)
    BY <1>1 DEF Contexts, Views
  <1> QED
    BY <1>2, <1>3 DEF HoldsAs, Caching, StaticCaching

\* One token per row.
Fed(act, seqs, p) == [i \in DOMAIN act |-> <<<<seqs[act[i]][p + 1], p>>>>]

\* That is what their sequences are fed.
LEMMA FedIs ==
  ASSUME NEW act, NEW seqs, NEW n \in Nat \ {0}, NEW S, Selection(act, seqs, n, S),
         NEW p \in Nat
  PROVE  Feeding(Fed(act, seqs, p), n, S, p, 1)
  <1> DEFINE fed == Fed(act, seqs, p)
  <1>a. /\ DOMAIN act = 1 .. n
        /\ \A i \in DOMAIN act : act[i] \in Rows /\ S[i] = seqs[act[i]]
    BY DEF Selection
  <1>1. ASSUME NEW i \in 1 .. n PROVE fed[i] = Tokens(S[i], p, 1)
    <2>1. fed[i] = <<<<S[i][p + 1], p>>>>
      BY <1>a DEF Fed
    <2>2. Tokens(S[i], p, 1) = [k \in 1 .. 1 |-> <<S[i][p + k], p + k - 1>>]
      BY DEF Tokens
    <2>3. \A x : [k \in 1 .. 1 |-> x] = <<x>>
      OBVIOUS
    <2>4. \A k \in 1 .. 1 : k = 1 /\ p + 1 - 1 = p
      OBVIOUS
    <2>5. Tokens(S[i], p, 1) = [k \in 1 .. 1 |-> <<S[i][p + 1], p>>]
      BY <2>2, <2>4
    <2> QED
      BY <2>1, <2>3, <2>5
  <1>2. DOMAIN fed = 1 .. n
    BY <1>a DEF Fed
  <1> QED
    BY <1>1, <1>2 DEF Feeding

\* Decoding one token per row.
LEMMA DecodeIs ==
  ASSUME NEW c, NEW act, Picked(act), NEW seqs, NEW p \in Nat, p < Lp + MaxNew,
         HoldsAs(c, act, seqs, p, p)
  PROVE  /\ HoldsAs(Forward(c, Fed(act, seqs, p)), act, seqs, p + 1, p + 1)
         /\ Logits(c, Fed(act, seqs, p)) = Contexts(act, seqs, p + 1)
  <1>1. PICK n \in Nat \ {0} : \E S : Selection(act, seqs, n, S)
    BY RowsOf
  <1>2. PICK S : Selection(act, seqs, n, S)
    BY <1>1
  <1>3. PICK fed : fed = Fed(act, seqs, p)
    OBVIOUS
  <1>4. PICK j \in Nat \ {0} : j = 1
    OBVIOUS
  <1>5. p + j <= Lp + MaxNew /\ Feeding(fed, n, S, p, j)
    BY <1>2, <1>3, <1>4, FedIs, RolloutAssumption
  <1>6. Cached(c, n, S, p)
    BY <1>2, SelectionHolds DEF Cached
  <1>7. Caching(Forward(c, fed), n, S, p + j) /\ Logits(c, fed) = Views(n, S, p + j)
    BY <1>5, <1>6, ForwardIs
  <1>8. PICK q : q = p + j
    OBVIOUS
  <1>9. HoldsAs(Forward(c, fed), act, seqs, q, q) /\ Logits(c, fed) = Contexts(act, seqs, q)
    BY <1>2, <1>7, <1>8, SelectionHolds
  <1> QED
    BY <1>3, <1>4, <1>8, <1>9

\* The next token of each row.
Upcoming(act, seqs, p) == [i \in DOMAIN act |-> seqs[act[i]][p + 1]]

\* The same at a position.
LEMMA DecodeAtIs ==
  ASSUME NEW c, NEW act, Picked(act), NEW seqs, NEW p \in Nat, p < Lp + MaxNew,
         HoldsAs(c, act, seqs, p, Lp), NEW toks,
         toks = Upcoming(act, seqs, p)
  PROVE  /\ HoldsAs(ForwardStatic(c, p, toks), act, seqs, p + 1, Lp)
         /\ StaticCells(c, p, toks) = Contexts(act, seqs, p + 1)
  <1>1. PICK n \in Nat \ {0} : \E S : Selection(act, seqs, n, S)
    BY RowsOf
  <1>2. PICK S : Selection(act, seqs, n, S)
    BY <1>1
  <1>3. Nexts(toks, n, S, p)
    BY <1>2 DEF Nexts, Selection, Upcoming
  <1>4. StaticCaching(c, n, S, p)
    BY <1>2, SelectionHolds
  <1>5. PICK q : q = p + 1
    OBVIOUS
  <1>6. /\ StaticCaching(ForwardStatic(c, p, toks), n, S, q)
        /\ StaticCells(c, p, toks) = Views(n, S, q)
    BY <1>3, <1>4, <1>5, StaticIs
  <1>7. /\ HoldsAs(ForwardStatic(c, p, toks), act, seqs, q, Lp)
        /\ StaticCells(c, p, toks) = Contexts(act, seqs, q)
    BY <1>2, <1>6, SelectionHolds
  <1> QED
    BY <1>5, <1>7

\* All of the prompts.
PromptsFed(act, seqs) == [i \in DOMAIN act |-> [k \in 1 .. Lp |-> <<seqs[act[i]][k], k - 1>>]]

\* The prefill of all rows.
LEMMA PrefillIs ==
  ASSUME NEW c, c = WithCapacity(Lp + MaxNew), NEW act, Picked(act), NEW seqs,
         NEW fed, fed = PromptsFed(act, seqs)
  PROVE  /\ HoldsAs(Forward(c, fed), act, seqs, Lp, Lp)
         /\ Logits(c, fed) = Contexts(act, seqs, Lp)
  <1>1. PICK n \in Nat \ {0} : \E S : Selection(act, seqs, n, S)
    BY RowsOf
  <1>2. PICK S : Selection(act, seqs, n, S)
    BY <1>1
  <1>3. PICK j \in Nat \ {0} : j = Lp
    BY RolloutAssumption
  <1>4. PICK p \in Nat : p = 0
    OBVIOUS
  <1>5. Feeding(fed, n, S, p, j)
    <2>a. DOMAIN act = 1 .. n /\ \A i \in DOMAIN act : S[i] = seqs[act[i]]
      BY <1>2 DEF Selection
    <2>1. ASSUME NEW i \in 1 .. n PROVE fed[i] = Tokens(S[i], p, j)
      <3>1. fed[i] = [k \in 1 .. Lp |-> <<S[i][k], k - 1>>]
        BY <2>a DEF PromptsFed
      <3>2. \A k \in 1 .. Lp : p + k = k /\ p + k - 1 = k - 1
        BY <1>4
      <3>3. Tokens(S[i], p, j) = [k \in 1 .. Lp |-> <<S[i][p + k], p + k - 1>>]
        BY <1>3 DEF Tokens
      <3>4. Tokens(S[i], p, j) = [k \in 1 .. Lp |-> <<S[i][k], k - 1>>]
        BY <3>2, <3>3
      <3> QED
        BY <3>1, <3>4
    <2>2. DOMAIN fed = 1 .. n
      BY <2>a DEF PromptsFed
    <2> QED
      BY <2>1, <2>2 DEF Feeding
  <1>6. Cached(c, n, S, p) /\ p + j <= Lp + MaxNew /\ p + j = Lp
    BY <1>3, <1>4, RolloutAssumption DEF Cached
  <1>7. Caching(Forward(c, fed), n, S, p + j) /\ Logits(c, fed) = Views(n, S, p + j)
    BY <1>5, <1>6, ForwardIs
  <1>8. Caching(Forward(c, fed), n, S, Lp) /\ Logits(c, fed) = Views(n, S, Lp)
    BY <1>6, <1>7
  <1>9. HoldsAs(Forward(c, fed), act, seqs, Lp, Lp) /\ Logits(c, fed) = Contexts(act, seqs, Lp)
    BY <1>2, <1>8, SelectionHolds
  <1> QED
    BY <1>9

\* What does not change the rows, the records and the shape keeps what is known of them.
LEMMA Framed ==
  ASSUME NEW n, IdsInv(n), RecordInv(n), ShapeInv,
         UNCHANGED <<driver, shape, ids, finished, steps, bufs>>
  PROVE  /\ ShapeInv' /\ IdsInv(n)' /\ RecordInv(n)'
         /\ \A r \in Rows : PadLen(r)' = PadLen(r)
  <1>1. \A r : PadLen(r)' = PadLen(r)
    BY DEF PadLen, Prompt
  <1>2. \A r, k : Honest(r, k)' = Honest(r, k)
    BY <1>1 DEF Honest
  <1>3. ShapeInv'
    BY DEF ShapeInv
  <1>4. IdsInv(n)'
    BY DEF IdsInv
  <1>5. RecordInv(n)'
    <2>1. StepsInv(n) => StepsInv(n)'
      BY <1>2 DEF StepsInv
    <2>2. BufsInv(n) => BufsInv(n)'
      BY <1>2 DEF BufsInv
    <2> QED
      BY <2>1, <2>2 DEF RecordInv
  <1> QED
    BY <1>1, <1>3, <1>4, <1>5

\* The logits are there to sample from.
LEMMA ToSample ==
  ASSUME NEW n \in 0 .. MaxNew, ShapeInv, IdsInv(n), RecordInv(n), n < MaxNew,
         UNCHANGED <<driver, shape, ids, finished, steps, bufs, out>>,
         pc' = "sample", out = NoResult, driver \notin LoopDrivers => ~AllOver,
         ActiveInv', NEW act, active' = act,
         last' = [i \in DOMAIN act |-> Seen(ids[act[i]], PadLen(act[i]), Lp + n)],
         driver \notin WholeDrivers =>
           HoldsAs(cache', act, ids, Lp + n, IF driver = "static" THEN Lp ELSE Lp + n),
         driver \in LoopDrivers => pos' = Lp + n
  PROVE  RolloutInv'
  <1>1. ShapeInv' /\ IdsInv(n)' /\ RecordInv(n)'
    BY Framed
  <1>2. \A r : PadLen(r)' = PadLen(r)
    BY DEF PadLen, Prompt
  <1>3. last' = [i \in DOMAIN active' |->
                   Seen(ids'[active'[i]], PadLen(act[i])', Lp + n)]
    BY <1>2
  <1>a. last' = [i \in DOMAIN active |-> Seen(ids[active[i]], PadLen(active[i]), Lp + n)]'
    BY <1>3 DEF PadLen, Prompt
  <1>4. (driver \notin WholeDrivers => Holds(Lp + n))'
    BY DEF Holds, HoldsAs
  <1>5. (driver \notin LoopDrivers => ~AllOver)'
    BY DEF AllOver
  <1>6. PhaseInv(n)'
    BY <1>a, <1>4, <1>5 DEF PhaseInv
  <1>7. Sampled(n)'
    BY <1>1, <1>6 DEF Sampled
  <1> QED
    BY <1>1, <1>7 DEF RolloutInv

-----------------------------------------------------------------------------
(***************************************************************************)
(* The forwards keep the invariant.                                        *)
(***************************************************************************)

\* Before the prefill.
LEMMA AtPrefill ==
  ASSUME NEW n, Sampled(n), pc = "prefill"
  PROVE  /\ driver \notin WholeDrivers /\ n = 0 /\ cache = WithCapacity(Lp + MaxNew)
         /\ active = [r \in Rows |-> r] /\ pos = Lp /\ out = NoResult
         /\ IdsInv(n) /\ RecordInv(n)
  BY DEF Sampled, PhaseInv

\* Before another forward.
LEMMA AtForward ==
  ASSUME NEW n, Sampled(n), pc = "forward"
  PROVE  /\ out = NoResult /\ (n = MaxNew => driver = "static")
         /\ driver \notin LoopDrivers => ~AllOver
         /\ driver \notin WholeDrivers => n >= 1 /\ Holds(Lp + n - 1)
         /\ driver \in LoopDrivers => pos = Lp + n - 1
         /\ IdsInv(n) /\ RecordInv(n)
  BY DEF Sampled, PhaseInv

\* Before a token is sampled.
LEMMA AtSample ==
  ASSUME NEW n, Sampled(n), pc = "sample"
  PROVE  /\ out = NoResult /\ n < MaxNew
         /\ driver \notin LoopDrivers => ~AllOver
         /\ last = [i \in DOMAIN active |-> Seen(ids[active[i]], PadLen(active[i]), Lp + n)]
         /\ driver \notin WholeDrivers => Holds(Lp + n)
         /\ driver \in LoopDrivers => pos = Lp + n
         /\ IdsInv(n) /\ RecordInv(n)
  BY DEF Sampled, PhaseInv

\* The drivers.
LEMMA DriverIs ==
  ASSUME driver \in AllDrivers
  PROVE  /\ driver \in WholeDrivers => driver \in {"group_sample", "padded"}
         /\ driver \in LoopDrivers <=> driver \in {"loop", "static"}
         /\ driver \in HostDrivers <=> driver \in {"group_sample", "padded", "cached", "device"}
         /\ driver \in HostDrivers \/ driver = "shrink" \/ driver \in LoopDrivers
  BY DEF AllDrivers, WholeDrivers, HostDrivers, LoopDrivers

\* Without padding a row is seen from its first column.
LEMMA NoPad ==
  ASSUME ShapeInv, driver \notin WholeDrivers, NEW act, Picked(act), NEW m
  PROVE  Contexts(act, ids, m) = [i \in DOMAIN act |-> Seen(ids[act[i]], PadLen(act[i]), m)]
  <1>1. driver # "padded"
    BY DEF WholeDrivers
  <1>2. \A i \in DOMAIN act : act[i] \in Rows
    BY DEF Picked
  <1>3. \A i \in DOMAIN act : PadLen(act[i]) = 0
    BY <1>1, <1>2, PromptIn
  <1> QED
    BY <1>3 DEF Contexts

\* The live rows.
LEMMA ActivePicked ==
  ASSUME ActiveInv
  PROVE  Picked(active)
  BY DEF ActiveInv, Picked

\* The prefill.
LEMMA PrefillKeeps ==
  ASSUME RolloutInv, Prefill
  PROVE  RolloutInv'
  <1>0. ShapeInv /\ ActiveInv /\ Lp \in Nat \ {0} /\ MaxNew \in Nat \ {0} /\ N \in Nat \ {0}
    BY RolloutAssumption DEF RolloutInv
  <1>1. PICK n \in 0 .. MaxNew : Sampled(n)
    BY DEF RolloutInv
  <1>2. /\ pc = "prefill" /\ pc' = "sample"
        /\ UNCHANGED <<driver, shape, ids, active, finished, steps, bufs, pos, out>>
    BY DEF Prefill
  <1>3. /\ driver \notin WholeDrivers /\ n = 0 /\ cache = WithCapacity(Lp + MaxNew)
        /\ active = [r \in Rows |-> r] /\ pos = Lp /\ out = NoResult
        /\ IdsInv(n) /\ RecordInv(n)
    BY <1>1, <1>2, AtPrefill
  <1>4. Picked(active)
    BY <1>0, ActivePicked
  <1>5. PICK act : act = active
    OBVIOUS
  <1>6. [r \in Rows |-> [k \in 1 .. Lp |-> <<ids[r][k], k - 1>>]] = PromptsFed(act, ids)
    <2>1. DOMAIN act = Rows /\ \A r \in Rows : act[r] = r
      BY <1>3, <1>5
    <2> QED
      BY <2>1 DEF PromptsFed
  <1>7. cache' = Forward(cache, PromptsFed(act, ids)) /\ last' = Logits(cache, PromptsFed(act, ids))
    BY <1>6 DEF Prefill
  <1>8. HoldsAs(cache', act, ids, Lp, Lp) /\ last' = Contexts(act, ids, Lp)
    BY <1>3, <1>4, <1>5, <1>7, PrefillIs
  <1>9. last' = [i \in DOMAIN act |-> Seen(ids[act[i]], PadLen(act[i]), Lp + n)]
    <2>1. Lp + n = Lp
      BY <1>0, <1>3
    <2>2. last' = [i \in DOMAIN act |-> Seen(ids[act[i]], PadLen(act[i]), Lp)]
      BY <1>0, <1>3, <1>4, <1>5, <1>8, NoPad
    <2> QED
      BY <2>1, <2>2
  <1>10. ~AllOver
    <2>1. 1 \in Rows /\ finished = [r \in Rows |-> Over(ids[r], 0)]
      BY <1>0, <1>3 DEF IdsInv, Rows
    <2> QED
      BY <2>1, NotOver DEF AllOver
  <1>11. n < MaxNew /\ HoldsAs(cache', act, ids, Lp + n, IF driver = "static" THEN Lp ELSE Lp + n)
    <2>1. Lp + n = Lp
      BY <1>0, <1>3
    <2> QED
      BY <1>0, <1>3, <1>8, <2>1
  <1>12. ActiveInv' /\ active' = act
    BY <1>0, <1>2, <1>5 DEF ActiveInv
  <1>13. pos' = Lp + n
    BY <1>0, <1>2, <1>3
  <1> QED
    BY <1>0, <1>2, <1>3, <1>9, <1>10, <1>11, <1>12, <1>13, ToSample

\* The forward of one token per row, of the same rows.
LEMMA DecodeKeeps ==
  ASSUME NEW n \in 0 .. MaxNew, RolloutInv, Sampled(n), pc = "forward", pc' = "sample",
         driver \notin WholeDrivers, driver # "static", NEW act, Picked(act), active' = act,
         ActiveInv', NEW c, HoldsAs(c, act, ids, Lp + n - 1, Lp + n - 1),
         Decode(c, act, Lp + n - 1), driver \in LoopDrivers => pos' = Lp + n,
         UNCHANGED <<driver, shape, ids, finished, steps, bufs, out>>
  PROVE  RolloutInv'
  <1>0. ShapeInv /\ Lp \in Nat \ {0} /\ MaxNew \in Nat \ {0}
    BY RolloutAssumption DEF RolloutInv
  <1>1. /\ out = NoResult /\ (n = MaxNew => driver = "static")
        /\ driver \notin LoopDrivers => ~AllOver
        /\ driver \notin WholeDrivers => n >= 1 /\ Holds(Lp + n - 1)
        /\ IdsInv(n) /\ RecordInv(n)
    BY AtForward
  <1>2. PICK p \in Nat : p = Lp + n - 1 /\ p < Lp + MaxNew /\ p + 1 = Lp + n
    BY <1>0
  <1>3. HoldsAs(c, act, ids, p, p) /\ Decode(c, act, p)
    BY <1>2
  <1>4. cache' = Forward(c, Fed(act, ids, p)) /\ last' = Logits(c, Fed(act, ids, p))
    BY <1>3 DEF Decode, Fed
  <1>5. HoldsAs(cache', act, ids, p + 1, p + 1) /\ last' = Contexts(act, ids, p + 1)
    BY <1>2, <1>3, <1>4, DecodeIs
  <1>6. HoldsAs(cache', act, ids, Lp + n, Lp + n) /\ last' = Contexts(act, ids, Lp + n)
    BY <1>2, <1>5
  <1>7. last' = [i \in DOMAIN act |-> Seen(ids[act[i]], PadLen(act[i]), Lp + n)]
    BY <1>0, <1>6, NoPad
  <1>8. n < MaxNew
    BY <1>0, <1>1
  <1> QED
    BY <1>0, <1>1, <1>6, <1>7, <1>8, ToSample

\* The forward of the cached host drivers.
LEMMA ForwardCachedKeeps ==
  ASSUME RolloutInv, ForwardCached
  PROVE  RolloutInv'
  <1>0. ActiveInv /\ Lp \in Nat \ {0}
    BY RolloutAssumption DEF RolloutInv
  <1>1. PICK n \in 0 .. MaxNew : Sampled(n)
    BY DEF RolloutInv
  <1>2. /\ pc = "forward" /\ pc' = "sample" /\ driver \in {"cached", "device"}
        /\ UNCHANGED <<driver, shape, ids, active, finished, steps, bufs, pos, out>>
        /\ Decode(cache, active, Lp + Len(steps) - 1)
    BY DEF ForwardCached
  <1>3. driver \notin WholeDrivers /\ driver \notin LoopDrivers /\ driver # "static"
    BY <1>2 DEF WholeDrivers, LoopDrivers
  <1>4. Holds(Lp + n - 1) /\ RecordInv(n)
    BY <1>1, <1>2, <1>3, AtForward
  <1>5. PICK act : act = active
    OBVIOUS
  <1>6. Len(steps) = n
    BY <1>3, <1>4 DEF RecordInv, StepsInv
  <1>7. Decode(cache, act, Lp + n - 1)
    BY <1>2, <1>5, <1>6
  <1>8. HoldsAs(cache, act, ids, Lp + n - 1, Lp + n - 1)
    BY <1>3, <1>4, <1>5 DEF Holds, HoldsAs
  <1>9. Picked(act) /\ active' = act
    BY <1>0, <1>2, <1>5, ActivePicked
  <1>10. ActiveInv'
    BY <1>0, <1>2 DEF ActiveInv
  <1> QED
    BY <1>1, <1>2, <1>3, <1>7, <1>8, <1>9, <1>10, DecodeKeeps

\* The forward of the device loop.
LEMMA ForwardLoopKeeps ==
  ASSUME RolloutInv, ForwardLoop
  PROVE  RolloutInv'
  <1>0. ActiveInv /\ Lp \in Nat \ {0}
    BY RolloutAssumption DEF RolloutInv
  <1>1. PICK n \in 0 .. MaxNew : Sampled(n)
    BY DEF RolloutInv
  <1>2. /\ pc = "forward" /\ pc' = "sample" /\ driver = "loop" /\ pos' = pos + 1
        /\ UNCHANGED <<driver, shape, ids, active, finished, steps, bufs, out>>
        /\ Decode(cache, active, pos)
    BY DEF ForwardLoop
  <1>3. driver \notin WholeDrivers /\ driver # "static" /\ driver \in LoopDrivers
    BY <1>2 DEF WholeDrivers, LoopDrivers
  <1>4. Holds(Lp + n - 1) /\ pos = Lp + n - 1
    BY <1>1, <1>2, <1>3, AtForward
  <1>5. PICK act : act = active
    OBVIOUS
  <1>7. Decode(cache, act, Lp + n - 1)
    BY <1>2, <1>4, <1>5
  <1>8. HoldsAs(cache, act, ids, Lp + n - 1, Lp + n - 1)
    BY <1>3, <1>4, <1>5 DEF Holds, HoldsAs
  <1>9. Picked(act) /\ active' = act
    BY <1>0, <1>2, <1>5, ActivePicked
  <1>10. ActiveInv'
    BY <1>0, <1>2 DEF ActiveInv
  <1>11. pos' = Lp + n
    BY <1>0, <1>2, <1>4
  <1> QED
    BY <1>1, <1>2, <1>3, <1>7, <1>8, <1>9, <1>10, <1>11, DecodeKeeps

\* The rows that a compaction keeps: each once, and every row that has not ended.
LEMMA KeptIs ==
  ASSUME ActiveInv, ~AllOver
  PROVE  /\ Kept \in Seq(DOMAIN active) /\ Kept # <<>>
         /\ \A i, j \in DOMAIN Kept : Kept[i] = Kept[j] => i = j
         /\ \A x \in DOMAIN active : ~finished[active[x]] => \E i \in DOMAIN Kept : Kept[i] = x
  <1> DEFINE over == {i \in DOMAIN active : finished[active[i]]}
             keep == IF over # {} /\ 2 * Cardinality(over) >= Len(active)
                     THEN DOMAIN active \ over ELSE DOMAIN active
             m == Cardinality(keep)
  <1>1. /\ Len(active) \in Nat /\ DOMAIN active = 1 .. Len(active)
        /\ \E x \in DOMAIN active : ~finished[active[x]]
    <2>1. PICK r \in Rows : ~finished[r]
      BY DEF AllOver
    <2> QED
      BY <2>1 DEF ActiveInv
  <1>2. keep \subseteq DOMAIN active /\ \A x \in DOMAIN active : ~finished[active[x]] => x \in keep
    OBVIOUS
  <1>3. Kept = Ascending(keep)
    BY DEF Kept
  <1> HIDE DEF keep
  <1>4. keep \in SUBSET Nat /\ IsFiniteSet(keep) /\ keep # {}
    <2>1. IsFiniteSet(DOMAIN active)
      BY <1>1, FS_Interval
    <2> QED
      BY <1>1, <1>2, <2>1, FS_Subset
  <1>5. /\ m \in Nat /\ Kept \in Seq(keep) /\ Len(Kept) = m
        /\ {Kept[i] : i \in 1 .. m} = keep
        /\ \A i, j \in 1 .. m : i < j => Kept[i] < Kept[j]
    BY <1>3, <1>4, AscendingOrder
  <1> HIDE DEF m
  <1>6. DOMAIN Kept = 1 .. m
    BY <1>5
  <1>7. Kept \in Seq(DOMAIN active)
    BY <1>2, <1>5
  <1>8. Kept # <<>>
    <2>1. PICK x \in keep : TRUE
      BY <1>4
    <2>2. PICK i \in 1 .. m : Kept[i] = x
      BY <1>5, <2>1
    <2>3. DOMAIN <<>> = {} /\ i \in DOMAIN Kept
      BY <1>6, <2>2
    <2> QED
      BY <2>3
  <1>9. ASSUME NEW i \in 1 .. m, NEW j \in 1 .. m, Kept[i] = Kept[j] PROVE i = j
    <2>1. Kept[i] \in Nat /\ Kept[j] \in Nat
      BY <1>4, <1>5
    <2>2. ~(i < j) /\ ~(j < i)
      BY <1>5, <1>9, <2>1
    <2> QED
      BY <2>2
  <1> QED
    BY <1>2, <1>5, <1>6, <1>7, <1>8, <1>9

\* The shrinking driver drops cache rows and live rows alike.
LEMMA ForwardShrunkKeeps ==
  ASSUME RolloutInv, ForwardShrunk
  PROVE  RolloutInv'
  <1>0. ActiveInv /\ ShapeInv /\ Lp \in Nat \ {0}
    BY RolloutAssumption DEF RolloutInv
  <1>1. PICK n \in 0 .. MaxNew : Sampled(n)
    BY DEF RolloutInv
  <1>2. /\ pc = "forward" /\ pc' = "sample" /\ driver = "shrink"
        /\ active' = Relabel(Kept)
        /\ UNCHANGED <<driver, shape, ids, finished, steps, bufs, pos, out>>
        /\ Decode(SelectRows(cache, Kept), active', Lp + Len(steps) - 1)
    BY DEF ForwardShrunk
  <1>3. driver \notin WholeDrivers /\ driver \notin LoopDrivers /\ driver # "static"
    BY <1>2 DEF WholeDrivers, LoopDrivers
  <1>4. Holds(Lp + n - 1) /\ RecordInv(n) /\ ~AllOver
    BY <1>1, <1>2, <1>3, AtForward
  <1>5. PICK keep : keep = Kept
    OBVIOUS
  <1>6. /\ keep \in Seq(DOMAIN active) /\ keep # <<>>
        /\ \A i, j \in DOMAIN keep : keep[i] = keep[j] => i = j
        /\ \A x \in DOMAIN active : ~finished[active[x]] => \E i \in DOMAIN keep : keep[i] = x
    BY <1>0, <1>4, <1>5, KeptIs
  <1>7. PICK act : act = Relabel(keep)
    OBVIOUS
  <1>8. /\ DOMAIN act = DOMAIN keep /\ \A i \in DOMAIN keep : act[i] = active[keep[i]]
        /\ DOMAIN keep = 1 .. Len(keep) /\ Len(keep) \in Nat \ {0}
        /\ \A i \in DOMAIN keep : keep[i] \in DOMAIN active
        /\ act = [i \in DOMAIN act |-> act[i]]
    BY <1>6, <1>7 DEF Relabel
  <1>9. Picked(act)
    <2>1. \A i \in DOMAIN active : active[i] \in Rows
      BY <1>0 DEF ActiveInv
    <2>2. act = [i \in 1 .. Len(keep) |-> act[i]] /\ \A i \in 1 .. Len(keep) : act[i] \in Rows
      BY <1>8, <2>1
    <2>3. act \in [1 .. Len(keep) -> Rows]
      BY <2>2
    <2>4. act \in Seq(Rows)
      BY <1>8, <2>3
    <2>5. 1 \in DOMAIN act
      BY <1>8
    <2> QED
      BY <2>4, <2>5 DEF Picked
  <1>10. active' = act
    BY <1>2, <1>5, <1>7
  <1>11. ActiveInv'
    <2>1. ASSUME NEW r \in Rows, ~finished[r] PROVE \E i \in DOMAIN act : act[i] = r
      <3>1. PICK x \in DOMAIN active : active[x] = r
        BY <1>0, <2>1 DEF ActiveInv
      <3>2. PICK i \in DOMAIN keep : keep[i] = x
        BY <1>6, <2>1, <3>1
      <3> QED
        BY <1>8, <3>1, <3>2
    <2>2. ASSUME NEW i \in DOMAIN act, NEW j \in DOMAIN act, act[i] = act[j] PROVE i = j
      <3>1. keep[i] \in DOMAIN active /\ keep[j] \in DOMAIN active
             /\ active[keep[i]] = active[keep[j]]
        BY <1>8, <2>2
      <3>2. keep[i] = keep[j]
        BY <1>0, <3>1 DEF ActiveInv
      <3> QED
        BY <1>6, <1>8, <3>2
    <2>3. act \in Seq(Rows) /\ act # <<>>
      BY <1>9 DEF Picked
    <2> QED
      BY <1>2, <1>10, <2>1, <2>2, <2>3 DEF ActiveInv
  <1>12. PICK c : c = SelectRows(cache, keep)
    OBVIOUS
  <1>13. HoldsAs(c, act, ids, Lp + n - 1, Lp + n - 1)
    <2> DEFINE m == Lp + n - 1
               R == [i \in DOMAIN active |-> Columns(ids[active[i]], m)]
    <2>1. cache = [cap |-> Lp + MaxNew, filled |-> m, rows |-> R]
      BY <1>3, <1>4 DEF Holds
    <2>2. \A x \in DOMAIN active : R[x] = Columns(ids[active[x]], m)
      OBVIOUS
    <2> HIDE DEF R, m
    <2>3. c = [cap |-> Lp + MaxNew, filled |-> m, rows |-> [i \in DOMAIN keep |-> R[keep[i]]]]
      BY <1>12, <2>1 DEF SelectRows
    <2>4. [i \in DOMAIN keep |-> R[keep[i]]] = [i \in DOMAIN act |-> Columns(ids[act[i]], m)]
      BY <1>8, <2>2
    <2> QED
      BY <2>3, <2>4 DEF HoldsAs, m
  <1>14. Len(steps) = n
    BY <1>3, <1>4 DEF RecordInv, StepsInv
  <1>15. Decode(c, act, Lp + n - 1)
    BY <1>2, <1>5, <1>10, <1>12, <1>14
  <1> QED
    BY <1>1, <1>2, <1>3, <1>9, <1>10, <1>11, <1>13, <1>15, DecodeKeeps

\* The positions of the real columns, counted by the mask.
LEMMA PositionsIs ==
  ASSUME NEW pad \in Nat, NEW M \in Nat, NEW real, DOMAIN real = 1 .. M,
         \A k \in 1 .. M : real[k] <=> k > pad, NEW k \in pad + 1 .. M
  PROVE  PositionsFromMask(real)[k] = k - pad - 1
  <1>1. k \in 1 .. M /\ real[k]
    OBVIOUS
  <1>2. {j \in 1 .. k - 1 : real[j]} = pad + 1 .. pad + (k - pad - 1)
    <2>1. \A j \in 1 .. k - 1 : j \in 1 .. M /\ (j > pad <=> j \in pad + 1 .. pad + (k - pad - 1))
      OBVIOUS
    <2>2. \A j \in pad + 1 .. pad + (k - pad - 1) : j \in 1 .. k - 1
      OBVIOUS
    <2> QED
      BY <2>1, <2>2
  <1>3. k - pad - 1 \in Nat
    OBVIOUS
  <1>4. Cardinality({j \in 1 .. k - 1 : real[j]}) = k - pad - 1
    BY <1>2, <1>3, AscendingRow
  <1> QED
    BY <1>1, <1>4 DEF PositionsFromMask

\* The forward of the whole sequences.
LEMMA ForwardWholeKeeps ==
  ASSUME RolloutInv, ForwardWhole
  PROVE  RolloutInv'
  <1>0. ShapeInv /\ ActiveInv /\ Lp \in Nat \ {0} /\ MaxNew \in Nat \ {0}
    BY RolloutAssumption DEF RolloutInv
  <1>1. PICK n \in 0 .. MaxNew : Sampled(n)
    BY DEF RolloutInv
  <1>2. /\ pc = "forward" /\ pc' = "sample" /\ driver \in WholeDrivers
        /\ UNCHANGED <<driver, shape, ids, active, finished, steps, bufs, pos, out>>
    BY DEF ForwardWhole
  <1>3. driver \notin LoopDrivers /\ driver # "static" /\ driver # "shrink"
    BY <1>2 DEF WholeDrivers, LoopDrivers
  <1>4. /\ out = NoResult /\ n < MaxNew /\ ~AllOver /\ IdsInv(n) /\ RecordInv(n)
    BY <1>0, <1>1, <1>2, <1>3, AtForward
  <1>5. active = [r \in Rows |-> r]
    BY <1>0, <1>3 DEF ActiveInv
  <1>6. ASSUME NEW r \in Rows
        PROVE  Context([k \in DOMAIN ids[r] |-> <<ids[r][k], PositionsFromMask(Real(r))[k]>>],
                       Real(r))
                 = Seen(ids[r], PadLen(r), Lp + n)
    <2> DEFINE s == ids[r]
               pad == PadLen(r)
               M == Lp + n
               real == Real(r)
               fed == [k \in DOMAIN s |-> <<s[k], PositionsFromMask(real)[k]>>]
    <2>1. pad \in Nat /\ pad < M /\ M \in Nat
      <3>1. pad \in 0 .. Lp - 1
        BY <1>0, PromptIn
      <3> QED
        BY <1>0, <3>1
    <2>2. DOMAIN s = 1 .. M
      <3>1. IsSeq(ids[r]) /\ Len(ids[r]) = M
        BY <1>3, <1>4 DEF IdsInv
      <3> QED
        BY <3>1, SeqHas
    <2>3. real = [k \in DOMAIN s |-> k > pad]
      BY DEF Real
    <2> HIDE DEF real, pad, M, s
    <2>4. DOMAIN real = 1 .. M /\ \A k \in 1 .. M : real[k] <=> k > pad
      BY <2>2, <2>3
    <2>5. \A k \in pad + 1 .. M : PositionsFromMask(real)[k] = k - pad - 1
      BY <2>1, <2>4, PositionsIs
    <2>6. IsRow(fed, M)
      BY <2>2 DEF IsRow
    <2>7. \A k \in pad + 1 .. M : fed[k] = <<s[k], k - pad - 1>>
      <3>1. \A k \in pad + 1 .. M : k \in 1 .. M
        BY <2>1
      <3> QED
        BY <2>2, <2>5, <3>1
    <2> HIDE DEF fed
    <2>8. Context(fed, real) = Seen(s, pad, M)
      <3>1. Padded(fed, real, s, pad, M)
        BY <2>4, <2>6, <2>7 DEF Padded
      <3> QED
        BY <2>1, <3>1, ContextIs
    <2> QED
      BY <2>8 DEF s, pad, M, fed, real
  <1>7. PICK act : act = active
    OBVIOUS
  <1>8. last' = [i \in DOMAIN act |-> Seen(ids[act[i]], PadLen(act[i]), Lp + n)]
    <2>1. last' = [r \in Rows |-> Context([k \in DOMAIN ids[r] |->
                     <<ids[r][k], PositionsFromMask(Real(r))[k]>>], Real(r))]
      BY DEF ForwardWhole
    <2>2. DOMAIN act = Rows /\ \A r \in Rows : act[r] = r
      BY <1>5, <1>7
    <2>3. last' = [r \in Rows |-> Seen(ids[r], PadLen(r), Lp + n)]
      BY <1>6, <2>1
    <2> QED
      BY <2>2, <2>3
  <1>9. ActiveInv' /\ active' = act
    BY <1>0, <1>2, <1>7 DEF ActiveInv
  <1> QED
    BY <1>0, <1>2, <1>3, <1>4, <1>8, <1>9, ToSample

\* The result is there.
LEMMA ToDone ==
  ASSUME NEW n \in 0 .. MaxNew, ShapeInv', ActiveInv', IdsInv(n)', RecordInv(n)',
         pc' = "done", Returned(n)'
  PROVE  RolloutInv'
  <1>1. PhaseInv(n)'
    BY DEF PhaseInv
  <1>2. Sampled(n)'
    BY <1>1 DEF Sampled
  <1> QED
    BY <1>2 DEF RolloutInv

\* The static driver decodes once more after the last token, and returns.
LEMMA ForwardAtPosKeeps ==
  ASSUME RolloutInv, ForwardAtPos
  PROVE  RolloutInv'
  <1>0. ShapeInv /\ ActiveInv /\ Lp \in Nat \ {0} /\ MaxNew \in Nat \ {0}
    BY RolloutAssumption DEF RolloutInv
  <1>1. PICK n \in 0 .. MaxNew : Sampled(n)
    BY DEF RolloutInv
  <1>2. /\ pc = "forward" /\ driver = "static" /\ pos' = pos + 1
        /\ pc' = IF pos' - Lp = MaxNew THEN "done" ELSE "sample"
        /\ out' = IF pos' - Lp = MaxNew THEN Buffers ELSE NoResult
        /\ UNCHANGED <<driver, shape, ids, active, finished, steps, bufs>>
    BY DEF ForwardAtPos
  <1>3. driver \notin WholeDrivers /\ driver \in LoopDrivers /\ driver # "shrink"
    BY <1>2 DEF WholeDrivers, LoopDrivers
  <1>4. /\ out = NoResult /\ n >= 1 /\ Holds(Lp + n - 1) /\ pos = Lp + n - 1
        /\ IdsInv(n) /\ RecordInv(n)
    BY <1>1, <1>2, <1>3, AtForward
  <1>5. PICK act : act = active
    OBVIOUS
  <1>6. ActiveInv' /\ active' = act /\ Picked(act) /\ act = [r \in Rows |-> r]
    BY <1>0, <1>2, <1>3, <1>5, ActivePicked DEF ActiveInv
  <1>7. pos' = Lp + n /\ pos' - Lp = n /\ pos \in Nat /\ pos < Lp + MaxNew /\ pos + 1 = Lp + n
    BY <1>0, <1>2, <1>4
  <1>8. PICK p \in Nat : p = pos
    BY <1>7
  <1>9. PICK toks : toks = [r \in Rows |-> ids[r][p + 1]]
    OBVIOUS
  <1>10. toks = Upcoming(act, ids, p)
    <2>1. DOMAIN act = Rows /\ \A r \in Rows : act[r] = r
      BY <1>6
    <2> QED
      BY <1>9, <2>1 DEF Upcoming
  <1>11. HoldsAs(cache, act, ids, p, Lp)
    BY <1>2, <1>4, <1>5, <1>8 DEF Holds, HoldsAs
  <1>12. cache' = ForwardStatic(cache, p, toks) /\ last' = StaticCells(cache, p, toks)
    BY <1>8, <1>9 DEF ForwardAtPos
  <1>13. HoldsAs(cache', act, ids, p + 1, Lp) /\ last' = Contexts(act, ids, p + 1)
    BY <1>6, <1>7, <1>8, <1>10, <1>11, <1>12, DecodeAtIs
  <1>14. HoldsAs(cache', act, ids, Lp + n, Lp) /\ last' = Contexts(act, ids, Lp + n)
    BY <1>7, <1>8, <1>13
  <1>15. last' = [i \in DOMAIN act |-> Seen(ids[act[i]], PadLen(act[i]), Lp + n)]
    BY <1>0, <1>3, <1>6, <1>14, NoPad
  <1>16. CASE n = MaxNew
    <2>1. pc' = "done" /\ out' = Buffers
      BY <1>2, <1>7, <1>16
    <2>2. ShapeInv' /\ IdsInv(n)' /\ RecordInv(n)' /\ \A r \in Rows : PadLen(r)' = PadLen(r)
      BY <1>0, <1>2, <1>4, Framed
    <2>3. BufsInv(n)
      BY <1>3, <1>4 DEF RecordInv
    <2>4. \A r, k : Honest(r, k)' = Honest(r, k)
      BY <1>2 DEF Honest, PadLen, Prompt
    <2>5. Returned(n)'
      <3>1. out'.ids = ids' /\ out'.len = n /\ out'.mask = bufs.mask /\ out'.logp = bufs.logp
        BY <1>2, <1>16, <2>1 DEF Buffers
      <3>2. \A r \in Rows : \A k \in 1 .. n :
              /\ bufs.mask[r][k] = IF Over(ids[r], k - 1) THEN 0 ELSE 1
              /\ ~Over(ids[r], k - 1) => bufs.logp[r][k] = Honest(r, k)
        BY <2>3 DEF BufsInv
      <3> QED
        BY <1>2, <1>4, <1>16, <2>4, <3>1, <3>2 DEF Returned
    <2> QED
      BY <1>6, <2>1, <2>2, <2>5, ToDone
  <1>17. CASE n # MaxNew
    <2>1. pc' = "sample" /\ out' = NoResult
      BY <1>2, <1>7, <1>17
    <2>2. n < MaxNew
      BY <1>0, <1>17
    <2> QED
      BY <1>0, <1>2, <1>3, <1>4, <1>6, <1>7, <1>14, <1>15, <2>1, <2>2, ToSample
  <1> QED
    BY <1>16, <1>17

-----------------------------------------------------------------------------
(***************************************************************************)
(* A step of sampling.                                                     *)
(***************************************************************************)

\* The sequence t agrees with s up to n completion tokens.
Ext(s, t, n) == \A k \in 1 .. Lp + n : t[k] = s[k]

\* Both are then over, seen and cached alike.
LEMMA ExtIs ==
  ASSUME NEW s, NEW t, NEW n \in Nat, Ext(s, t, n)
  PROVE  /\ \A j \in 0 .. n : Over(t, j) <=> Over(s, j)
         /\ Over(t, n + 1) <=> Over(s, n) \/ t[Lp + (n + 1)] \in EosSet
         /\ \A lo \in Nat, m \in 0 .. Lp + n : Seen(t, lo, m) = Seen(s, lo, m)
         /\ \A m \in 0 .. Lp + n : Columns(t, m) = Columns(s, m)
  <1>0. Lp \in Nat /\ MaxNew \in Nat
    BY RolloutAssumption
  <1>1. ASSUME NEW j \in 0 .. n PROVE Over(t, j) <=> Over(s, j)
    <2>1. j \in Nat /\ \A k \in 1 .. j : Lp + k \in 1 .. Lp + n
      BY <1>0
    <2>2. \A k \in 1 .. j : t[Lp + k] = s[Lp + k]
      BY <2>1 DEF Ext
    <2> QED
      BY <2>1, <2>2, OverSame
  <1>2. Over(t, n + 1) <=> Over(s, n) \/ t[Lp + (n + 1)] \in EosSet
    <2>1. n \in 0 .. n
      OBVIOUS
    <2> QED
      BY <1>1, <2>1, OverNext
  <1>3. ASSUME NEW lo \in Nat, NEW m \in 0 .. Lp + n PROVE Seen(t, lo, m) = Seen(s, lo, m)
    <2>1. m \in Nat /\ \A k \in lo + 1 .. m : k \in 1 .. Lp + n
      BY <1>0
    <2>2. \A k \in lo + 1 .. m : t[k] = s[k]
      BY <2>1 DEF Ext
    <2> QED
      BY <2>1, <2>2, SeenSame
  <1>4. ASSUME NEW m \in 0 .. Lp + n PROVE Columns(t, m) = Columns(s, m)
    <2>1. ASSUME NEW c \in 1 .. Lp + MaxNew
          PROVE  (IF c > m THEN Zero ELSE Seen(t, 0, c)) = (IF c > m THEN Zero ELSE Seen(s, 0, c))
      <3>1. CASE c > m
        BY <3>1
      <3>2. CASE ~(c > m)
        <4>1. c \in 0 .. Lp + n /\ 0 \in Nat
          BY <1>0, <3>2
        <4> QED
          BY <1>3, <4>1
      <3> QED
        BY <3>1, <3>2
    <2> QED
      BY <2>1 DEF Columns
  <1> QED
    BY <1>1, <1>2, <1>3, <1>4

\* One more token of every row.
LEMMA IdsGrow ==
  ASSUME NEW n \in 0 .. MaxNew, n < MaxNew, IdsInv(n), driver' = driver, NEW tok,
         \A r \in Rows : tok[r] \in Vocab, DOMAIN ids' = Rows,
         \A r \in Rows : IsSeq(ids'[r]),
         \A r \in Rows : Len(ids'[r]) = IF driver \in LoopDrivers THEN Len(ids[r])
                                        ELSE Len(ids[r]) + 1,
         \A r \in Rows : \A k \in 1 .. Len(ids[r]) : k # Lp + n + 1 => ids'[r][k] = ids[r][k],
         \A r \in Rows : ids'[r][Lp + n + 1] = tok[r],
         finished' = [r \in Rows |-> finished[r] \/ tok[r] \in EosSet]
  PROVE  IdsInv(n + 1)' /\ \A r \in Rows : Ext(ids[r], ids'[r], n)
  <1>0. Lp \in Nat /\ MaxNew \in Nat /\ n \in Nat /\ Lp + n + 1 = Lp + (n + 1)
    BY RolloutAssumption
  <1>1. ASSUME NEW r \in Rows
        PROVE  /\ Len(ids[r]) = Lp + (IF driver \in LoopDrivers THEN MaxNew ELSE n)
               /\ \A k \in 1 .. n : ids[r][Lp + k] \in Vocab
               /\ driver \in LoopDrivers => \A k \in n + 1 .. MaxNew : ids[r][Lp + k] = Blank
               /\ finished[r] = Over(ids[r], n)
    BY DEF IdsInv
  <1>2. ASSUME NEW r \in Rows PROVE Ext(ids[r], ids'[r], n)
    <2>1. \A k \in 1 .. Lp + n : k \in 1 .. Len(ids[r]) /\ k # Lp + n + 1
      BY <1>0, <1>1
    <2> QED
      BY <2>1 DEF Ext
  <1>3. ASSUME NEW r \in Rows
        PROVE  Len(ids'[r]) = Lp + (IF driver \in LoopDrivers THEN MaxNew ELSE n + 1)
    BY <1>0, <1>1
  <1>4. ASSUME NEW r \in Rows, NEW k \in 1 .. n + 1 PROVE ids'[r][Lp + k] \in Vocab
    <2>1. CASE k = n + 1
      BY <1>0, <2>1
    <2>2. CASE k # n + 1
      <3>1. k \in 1 .. n /\ Lp + k \in 1 .. Lp + n
        BY <1>0, <2>2
      <3>2. ids'[r][Lp + k] = ids[r][Lp + k]
        BY <1>2, <3>1 DEF Ext
      <3> QED
        BY <1>1, <3>1, <3>2
    <2> QED
      BY <2>1, <2>2
  <1>5. ASSUME NEW r \in Rows, driver \in LoopDrivers, NEW k \in (n + 1) + 1 .. MaxNew
        PROVE  ids'[r][Lp + k] = Blank
    <2>1. k \in n + 1 .. MaxNew /\ Lp + k \in 1 .. Len(ids[r]) /\ Lp + k # Lp + n + 1
      BY <1>0, <1>1, <1>5
    <2> QED
      BY <1>1, <1>5, <2>1
  <1>6. finished' = [r \in Rows |-> Over(ids'[r], n + 1)]
    <2>1. ASSUME NEW r \in Rows
          PROVE  (finished[r] \/ tok[r] \in EosSet) = Over(ids'[r], n + 1)
      <3>1. Over(ids'[r], n + 1) <=> Over(ids[r], n) \/ ids'[r][Lp + (n + 1)] \in EosSet
        BY <1>0, <1>2, ExtIs
      <3>2. ids'[r][Lp + (n + 1)] = tok[r]
        BY <1>0
      <3>3. finished[r] = Over(ids[r], n)
        BY <1>1
      <3>4. Over(ids'[r], n + 1) \in BOOLEAN /\ Over(ids[r], n) \in BOOLEAN
        BY DEF Over
      <3> QED
        BY <3>1, <3>2, <3>3, <3>4
    <2> QED
      BY <2>1
  <1>7. IdsInv(n + 1)'
    BY <1>3, <1>4, <1>5, <1>6 DEF IdsInv
  <1> QED
    BY <1>2, <1>7

\* The records of a step stay what they were.
LEMMA HonestStays ==
  ASSUME ShapeInv, NEW n \in Nat, UNCHANGED <<driver, shape>>, NEW r \in Rows,
         Ext(ids[r], ids'[r], n)
  PROVE  /\ PadLen(r)' = PadLen(r) /\ PadLen(r) \in Nat
         /\ \A k \in 1 .. n : Honest(r, k)' = Honest(r, k)
         /\ \A k \in 1 .. n + 1 : Over(ids'[r], k - 1) <=> Over(ids[r], k - 1)
         /\ Seen(ids'[r], PadLen(r), Lp + n) = Seen(ids[r], PadLen(r), Lp + n)
  <1>0. Lp \in Nat \ {0} /\ MaxNew \in Nat
    BY RolloutAssumption
  <1>1. PadLen(r)' = PadLen(r) /\ PadLen(r) \in Nat
    <2>1. PadLen(r) \in 0 .. Lp - 1
      BY PromptIn
    <2> QED
      BY <1>0, <2>1 DEF PadLen, Prompt
  <1>2. PICK pad \in Nat : pad = PadLen(r)
    BY <1>1
  <1>3. \A m \in 0 .. Lp + n : Seen(ids'[r], pad, m) = Seen(ids[r], pad, m)
    BY ExtIs
  <1>4. ASSUME NEW k \in 1 .. n PROVE Honest(r, k)' = Honest(r, k)
    <2>1. Lp + k - 1 \in 0 .. Lp + n /\ Lp + k \in 1 .. Lp + n
      BY <1>0
    <2>2. ids'[r][Lp + k] = ids[r][Lp + k]
      BY <2>1 DEF Ext
    <2>3. Seen(ids'[r], pad, Lp + k - 1) = Seen(ids[r], pad, Lp + k - 1)
      BY <1>3, <2>1
    <2> QED
      BY <1>1, <1>2, <2>2, <2>3 DEF Honest
  <1>5. ASSUME NEW k \in 1 .. n + 1 PROVE Over(ids'[r], k - 1) <=> Over(ids[r], k - 1)
    <2>1. k - 1 \in 0 .. n
      OBVIOUS
    <2> QED
      BY <2>1, ExtIs
  <1>6. Seen(ids'[r], pad, Lp + n) = Seen(ids[r], pad, Lp + n)
    <2>1. Lp + n \in 0 .. Lp + n
      BY <1>0
    <2> QED
      BY <1>3, <2>1
  <1> QED
    BY <1>1, <1>2, <1>4, <1>5, <1>6

\* The cache and the live rows of the rows that grow.
LEMMA HoldsStays ==
  ASSUME NEW n \in Nat, ActiveInv, Holds(Lp + n), UNCHANGED <<cache, active, driver>>,
         \A r \in Rows : Ext(ids[r], ids'[r], n)
  PROVE  Holds(Lp + n)'
  <1>1. \A i \in DOMAIN active : active[i] \in Rows
    BY DEF ActiveInv
  <1>2. Lp + n \in 0 .. Lp + n
    BY RolloutAssumption
  <1>3. \A i \in DOMAIN active : Columns(ids'[active[i]], Lp + n) = Columns(ids[active[i]], Lp + n)
    BY <1>1, <1>2, ExtIs
  <1>4. [i \in DOMAIN active |-> Columns(ids'[active[i]], Lp + n)]
          = [i \in DOMAIN active |-> Columns(ids[active[i]], Lp + n)]
    BY <1>3
  <1> QED
    BY <1>4 DEF Holds

\* The rows that have ended stay so.
LEMMA ActiveStays ==
  ASSUME ActiveInv, UNCHANGED <<active, driver>>, \A r \in Rows : finished[r] => finished'[r]
  PROVE  ActiveInv'
  BY DEF ActiveInv

\* A step of sampling: what was said stays said, and there is one more token.
Step(n) ==
  /\ n + 1 \in 0 .. MaxNew /\ Sampled(n) /\ Sampled(n + 1)'
  /\ \A r \in Rows : Ext(ids[r], ids'[r], n)
  /\ UNCHANGED <<driver, shape>>

-----------------------------------------------------------------------------
(***************************************************************************)
(* The samplings keep the invariant.                                       *)
(***************************************************************************)

\* A step that a host driver records.
LEMMA RecordKeeps ==
  ASSUME NEW n \in 0 .. MaxNew, RolloutInv, Sampled(n), pc = "sample",
         driver \notin LoopDrivers, NEW tok, NEW logp,
         \A r \in Rows : tok[r] \in Vocab,
         \A r \in Rows : ~finished[r] =>
           logp[r] = <<Seen(ids[r], PadLen(r), Lp + n), tok[r]>>,
         Record(tok, logp)
  PROVE  RolloutInv' /\ Step(n)
  <1>0. /\ ShapeInv /\ ActiveInv /\ Lp \in Nat \ {0} /\ MaxNew \in Nat \ {0} /\ n \in Nat
        /\ Lp + n + 1 = Lp + (n + 1) /\ (n + 1) - 1 = n
    BY RolloutAssumption DEF RolloutInv
  <1>1. /\ out = NoResult /\ n < MaxNew /\ ~AllOver
        /\ driver \notin WholeDrivers => Holds(Lp + n)
        /\ IdsInv(n) /\ RecordInv(n)
    BY AtSample
  <1>2. /\ steps' = Append(steps, [tok |-> tok, logp |-> logp])
        /\ ids' = [r \in Rows |-> Append(ids[r], tok[r])]
        /\ finished' = [r \in Rows |-> finished[r] \/ tok[r] \in EosSet]
        /\ \/ Stop(finished', Len(steps')) /\ pc' = "done" /\ out' = Finalize(ids', steps')
           \/ ~Stop(finished', Len(steps')) /\ pc' = "forward" /\ out' = NoResult
        /\ UNCHANGED <<driver, shape, cache, last, active, bufs, pos>>
    BY DEF Record
  <1>3. n + 1 \in 0 .. MaxNew
    BY <1>0, <1>1
  <1>4. ASSUME NEW r \in Rows
        PROVE  /\ IsSeq(ids[r]) /\ Len(ids[r]) = Lp + n
               /\ IsSeq(ids'[r]) /\ Len(ids'[r]) = Len(ids[r]) + 1
               /\ \A k \in 1 .. Len(ids[r]) : ids'[r][k] = ids[r][k]
               /\ ids'[r][Lp + n + 1] = tok[r]
    <2>1. IsSeq(ids[r]) /\ Len(ids[r]) = Lp + n
      BY <1>1 DEF IdsInv
    <2>2. ids'[r] = Append(ids[r], tok[r])
      BY <1>2
    <2>3. /\ IsSeq(Append(ids[r], tok[r])) /\ Len(Append(ids[r], tok[r])) = Len(ids[r]) + 1
          /\ \A i \in 1 .. Len(ids[r]) : Append(ids[r], tok[r])[i] = ids[r][i]
          /\ Append(ids[r], tok[r])[Len(ids[r]) + 1] = tok[r]
      BY <2>1, SeqGrows
    <2> QED
      BY <2>1, <2>2, <2>3
  <1>5. DOMAIN ids' = Rows
    BY <1>2
  <1>6. IdsInv(n + 1)' /\ \A r \in Rows : Ext(ids[r], ids'[r], n)
    <2>1. \A r \in Rows : Len(ids'[r]) = IF driver \in LoopDrivers THEN Len(ids[r])
                                         ELSE Len(ids[r]) + 1
      BY <1>4
    <2>2. \A r \in Rows : \A k \in 1 .. Len(ids[r]) : k # Lp + n + 1 => ids'[r][k] = ids[r][k]
      BY <1>4
    <2> QED
      BY <1>1, <1>2, <1>4, <1>5, <2>1, <2>2, IdsGrow
  <1>7. StepsInv(n)
    BY <1>1 DEF RecordInv
  <1>8. /\ IsSeq(steps') /\ Len(steps') = n + 1
        /\ \A k \in 1 .. n : steps'[k] = steps[k]
        /\ steps'[n + 1] = [tok |-> tok, logp |-> logp]
    <2>1. IsSeq(steps) /\ Len(steps) = n
      BY <1>7 DEF StepsInv
    <2> QED
      BY <1>2, <2>1, SeqGrows
  <1>9. ASSUME NEW r \in Rows
        PROVE  /\ PadLen(r)' = PadLen(r) /\ PadLen(r) \in Nat
               /\ \A k \in 1 .. n : Honest(r, k)' = Honest(r, k)
               /\ \A k \in 1 .. n + 1 : Over(ids'[r], k - 1) <=> Over(ids[r], k - 1)
               /\ Seen(ids'[r], PadLen(r), Lp + n) = Seen(ids[r], PadLen(r), Lp + n)
    BY <1>0, <1>2, <1>6, HonestStays
  <1>10. ASSUME NEW r \in Rows, NEW k \in 1 .. n + 1
         PROVE  /\ steps'[k].tok[r] = ids'[r][Lp + k]
                /\ ~Over(ids'[r], k - 1) => steps'[k].logp[r] = Honest(r, k)'
    <2>1. CASE k = n + 1
      <3>1. steps'[k].tok[r] = tok[r] /\ steps'[k].logp[r] = logp[r]
        BY <1>8, <2>1
      <3>2. ids'[r][Lp + k] = tok[r]
        BY <1>0, <1>4, <2>1
      <3>3. ASSUME ~Over(ids'[r], k - 1) PROVE logp[r] = Honest(r, k)'
        <4>1. ~finished[r]
          BY <1>0, <1>1, <1>9, <2>1, <3>3 DEF IdsInv
        <4>2. logp[r] = <<Seen(ids[r], PadLen(r), Lp + n), tok[r]>>
          BY <4>1
        <4>3. Lp + k - 1 = Lp + n
          BY <1>0, <2>1
        <4>4. Honest(r, k)' = <<Seen(ids'[r], PadLen(r)', Lp + k - 1), ids'[r][Lp + k]>>
          BY DEF Honest
        <4> QED
          BY <1>9, <3>2, <4>2, <4>3, <4>4
      <3> QED
        BY <3>1, <3>2, <3>3
    <2>2. CASE k # n + 1
      <3>1. k \in 1 .. n /\ Lp + k \in 1 .. Len(ids[r])
        BY <1>0, <1>4, <2>2
      <3>2. /\ steps[k].tok[r] = ids[r][Lp + k]
            /\ ~Over(ids[r], k - 1) => steps[k].logp[r] = Honest(r, k)
        BY <1>7, <3>1 DEF StepsInv
      <3>3. steps'[k] = steps[k] /\ ids'[r][Lp + k] = ids[r][Lp + k]
        BY <1>4, <1>8, <3>1
      <3>4. Honest(r, k)' = Honest(r, k) /\ (Over(ids'[r], k - 1) <=> Over(ids[r], k - 1))
        BY <1>9, <3>1
      <3> QED
        BY <3>2, <3>3, <3>4
    <2> QED
      BY <2>1, <2>2
  <1>11. RecordInv(n + 1)'
    <2>1. StepsInv(n + 1)'
      BY <1>8, <1>10 DEF StepsInv
    <2> QED
      BY <1>2, <2>1 DEF RecordInv
  <1>12. ShapeInv' /\ ActiveInv'
    <2>1. \A r \in Rows : finished[r] => finished'[r]
      BY <1>2
    <2> QED
      BY <1>0, <1>2, <2>1, ActiveStays DEF ShapeInv
  <1>13. Stop(finished', Len(steps')) <=> AllOver' \/ n + 1 = MaxNew
    BY <1>8 DEF Stop, AllOver
  <1>14. PhaseInv(n + 1)'
    <2>1. CASE Stop(finished', Len(steps'))
      <3>1. pc' = "done" /\ out' = Finalize(ids', steps')
        BY <1>2, <2>1
      <3>2. out'.ids = ids' /\ out'.len = n + 1
        BY <1>8, <3>1 DEF Finalize
      <3>3. DOMAIN steps' = 1 .. n + 1
        BY <1>8, SeqHas
      <3>4. ASSUME NEW r \in Rows, NEW k \in 1 .. n + 1
            PROVE  /\ out'.mask[r][k] = IF Over(ids'[r], k - 1) THEN 0 ELSE 1
                   /\ ~Over(ids'[r], k - 1) => out'.logp[r][k] = Honest(r, k)'
        <4>1. out'.logp[r][k] = steps'[k].logp[r]
          BY <3>1, <3>3 DEF Finalize
        <4>2. out'.mask[r][k] = IF \E u \in 1 .. k - 1 : steps'[u].tok[r] \in EosSet THEN 0 ELSE 1
          BY <3>1, <3>3 DEF Finalize, CompletionMask
        <4>3. \A u \in 1 .. k - 1 : u \in 1 .. n + 1
          BY <1>0
        <4>4. (\E u \in 1 .. k - 1 : steps'[u].tok[r] \in EosSet) <=> Over(ids'[r], k - 1)
          BY <1>10, <4>3 DEF Over
        <4> QED
          BY <1>10, <4>1, <4>2, <4>4
      <3>5. n + 1 >= 1
        BY <1>0
      <3>6. Returned(n + 1)'
        BY <1>13, <2>1, <3>2, <3>4, <3>5 DEF Returned
      <3> QED
        BY <3>1, <3>6 DEF PhaseInv
    <2>2. CASE ~Stop(finished', Len(steps'))
      <3>1. pc' = "forward" /\ out' = NoResult /\ ~AllOver' /\ n + 1 # MaxNew
        BY <1>2, <1>13, <2>2
      <3>2. driver \notin WholeDrivers => Holds(Lp + n)'
        BY <1>0, <1>1, <1>2, <1>6, HoldsStays
      <3>3. Lp + (n + 1) - 1 = Lp + n /\ n + 1 >= 1
        BY <1>0
      <3>4. (driver \notin WholeDrivers)' => n + 1 >= 1 /\ Holds(Lp + (n + 1) - 1)'
        BY <1>2, <3>2, <3>3
      <3> QED
        BY <1>2, <3>1, <3>4 DEF PhaseInv
    <2> QED
      BY <2>1, <2>2
  <1>15. Sampled(n + 1)'
    BY <1>3, <1>6, <1>11, <1>14 DEF Sampled
  <1>16. RolloutInv'
    BY <1>3, <1>12, <1>15 DEF RolloutInv
  <1>17. Step(n)
    BY <1>2, <1>3, <1>6, <1>15 DEF Step
  <1> QED
    BY <1>16, <1>17

\* The tokens that a step emits.
LEMMA EmitIn ==
  ASSUME NEW rows, rows \subseteq Rows, NEW pick \in Picks(rows), NEW r \in rows
  PROVE  Emit(pick, r) \in Vocab
  BY EosIs DEF Emit, Picks

\* The host drivers sample every row.
LEMMA SampleHostKeeps ==
  ASSUME RolloutInv, SampleHost
  PROVE  RolloutInv' /\ \E n \in 0 .. MaxNew : Step(n)
  <1>0. ActiveInv /\ ShapeInv
    BY DEF RolloutInv
  <1>1. PICK n \in 0 .. MaxNew : Sampled(n)
    BY DEF RolloutInv
  <1>2. driver \in HostDrivers /\ pc = "sample"
    BY DEF SampleHost
  <1>3. driver \notin LoopDrivers /\ driver # "shrink"
    BY <1>2 DEF HostDrivers, WholeDrivers, LoopDrivers
  <1>4. PICK pick \in Picks(Rows) :
          Record([r \in Rows |-> Emit(pick, r)], [r \in Rows |-> <<last[r], Emit(pick, r)>>])
    BY DEF SampleHost
  <1>5. PICK tok : tok = [r \in Rows |-> Emit(pick, r)]
    OBVIOUS
  <1>6. PICK logp : logp = [r \in Rows |-> <<last[r], Emit(pick, r)>>]
    OBVIOUS
  <1>7. \A r \in Rows : tok[r] = Emit(pick, r) /\ tok[r] \in Vocab
    BY <1>5, EmitIn
  <1>8. \A r \in Rows : last[r] = Seen(ids[r], PadLen(r), Lp + n)
    <2>1. active = [r \in Rows |-> r]
      BY <1>0, <1>3 DEF ActiveInv
    <2>2. last = [i \in DOMAIN active |-> Seen(ids[active[i]], PadLen(active[i]), Lp + n)]
      BY <1>1, <1>2, AtSample
    <2> QED
      BY <2>1, <2>2
  <1>9. \A r \in Rows : ~finished[r] => logp[r] = <<Seen(ids[r], PadLen(r), Lp + n), tok[r]>>
    BY <1>6, <1>7, <1>8
  <1>10. Record(tok, logp)
    BY <1>4, <1>5, <1>6
  <1> QED
    BY <1>1, <1>2, <1>3, <1>7, <1>9, <1>10, RecordKeeps

\* The shrinking driver samples the live rows.
LEMMA SampleShrunkKeeps ==
  ASSUME RolloutInv, SampleShrunk
  PROVE  RolloutInv' /\ \E n \in 0 .. MaxNew : Step(n)
  <1>0. ActiveInv /\ ShapeInv
    BY DEF RolloutInv
  <1>1. PICK n \in 0 .. MaxNew : Sampled(n)
    BY DEF RolloutInv
  <1>2. driver = "shrink" /\ pc = "sample"
    BY DEF SampleShrunk
  <1>3. driver \notin LoopDrivers
    BY <1>2 DEF LoopDrivers
  <1> DEFINE At(r) == CHOOSE i \in DOMAIN active : active[i] = r
  <1>4. PICK pick \in Picks(ToSet(active)) :
          Record([r \in Rows |-> IF r \in ToSet(active) THEN Emit(pick, r) ELSE Eos0],
                 [r \in Rows |-> IF r \in ToSet(active)
                    THEN <<last[At(r)], Emit(pick, r)>> ELSE NoLogp])
    BY DEF SampleShrunk
  <1>5. PICK tok : tok = [r \in Rows |-> IF r \in ToSet(active) THEN Emit(pick, r) ELSE Eos0]
    OBVIOUS
  <1>6. PICK logp : logp = [r \in Rows |-> IF r \in ToSet(active)
                              THEN <<last[At(r)], Emit(pick, r)>> ELSE NoLogp]
    OBVIOUS
  <1>7. /\ ToSet(active) \subseteq Rows
        /\ \A r : r \in ToSet(active) <=> \E i \in DOMAIN active : active[i] = r
    BY <1>0 DEF ActiveInv, ToSet
  <1>8. \A r \in Rows : tok[r] \in Vocab
    BY <1>5, <1>7, EmitIn, EosIs
  <1>9. ASSUME NEW r \in Rows, ~finished[r]
        PROVE  logp[r] = <<Seen(ids[r], PadLen(r), Lp + n), tok[r]>>
    <2>1. \E i \in DOMAIN active : active[i] = r
      BY <1>0, <1>9 DEF ActiveInv
    <2>2. r \in ToSet(active)
      BY <1>7, <2>1
    <2>3. At(r) \in DOMAIN active /\ active[At(r)] = r
      BY <2>1
    <2> HIDE DEF At
    <2>4. last = [i \in DOMAIN active |-> Seen(ids[active[i]], PadLen(active[i]), Lp + n)]
      BY <1>1, <1>2, AtSample
    <2>5. last[At(r)] = Seen(ids[r], PadLen(r), Lp + n)
      BY <2>3, <2>4
    <2> QED
      BY <1>5, <1>6, <2>2, <2>5
  <1>10. Record(tok, logp)
    BY <1>4, <1>5, <1>6
  <1> QED
    BY <1>1, <1>2, <1>3, <1>8, <1>9, <1>10, RecordKeeps

\* The device loops write a token, a record and a mask column.
LEMMA SampleLoopKeeps ==
  ASSUME RolloutInv, SampleLoop
  PROVE  RolloutInv' /\ \E n \in 0 .. MaxNew : Step(n)
  <1>0. /\ ShapeInv /\ ActiveInv /\ Lp \in Nat \ {0} /\ MaxNew \in Nat \ {0}
    BY RolloutAssumption DEF RolloutInv
  <1>1. PICK n \in 0 .. MaxNew : Sampled(n)
    BY DEF RolloutInv
  <1>2. /\ driver \in LoopDrivers /\ pc = "sample"
        /\ UNCHANGED <<driver, shape, cache, last, active, steps, pos>>
    BY DEF SampleLoop
  <1>3. driver \in {"loop", "static"} /\ driver \notin WholeDrivers /\ driver # "shrink"
    BY <1>2 DEF LoopDrivers, WholeDrivers
  <1>4. /\ out = NoResult /\ n < MaxNew /\ Holds(Lp + n) /\ pos = Lp + n
        /\ last = [i \in DOMAIN active |-> Seen(ids[active[i]], PadLen(active[i]), Lp + n)]
        /\ IdsInv(n) /\ RecordInv(n)
    BY <1>1, <1>2, <1>3, AtSample
  <1>5. /\ n + 1 \in 0 .. MaxNew /\ n \in Nat /\ pos - Lp + 1 = n + 1 /\ pos + 1 = Lp + n + 1
        /\ Lp + n + 1 = Lp + (n + 1) /\ (n + 1) - 1 = n /\ n + 1 \in 1 .. MaxNew
    BY <1>0, <1>4
  <1> DEFINE t == pos - Lp + 1
  <1>6. PICK pick \in Picks(Rows) :
          /\ ids' = [r \in Rows |-> [ids[r] EXCEPT ![pos + 1] = Put(@, Blank, Emit(pick, r))]]
          /\ bufs' = [logp |-> [r \in Rows |-> [bufs.logp[r] EXCEPT
                                  ![t] = Put(@, NoLogp, <<last[r], Emit(pick, r)>>)]],
                      mask |-> [r \in Rows |-> [bufs.mask[r] EXCEPT
                                  ![t] = IF driver = "loop" THEN Active(r) ELSE @ + Active(r)]]]
          /\ finished' = [r \in Rows |-> finished[r] \/ Emit(pick, r) \in EosSet]
          /\ \/ /\ driver = "loop" /\ t = MaxNew /\ pc' = "done" /\ out' = Buffers'
             \/ /\ ~(driver = "loop" /\ t = MaxNew) /\ pc' = "forward" /\ out' = NoResult
    <2>1. PICK pick \in Picks(Rows) :
            LET tok == [r \in Rows |-> Emit(pick, r)]
            IN  /\ ids' = [r \in Rows |-> [ids[r] EXCEPT ![pos + 1] = Put(@, Blank, tok[r])]]
                /\ bufs' = [logp |-> [r \in Rows |-> [bufs.logp[r] EXCEPT
                                       ![t] = Put(@, NoLogp, <<last[r], tok[r]>>)]],
                           mask |-> [r \in Rows |-> [bufs.mask[r] EXCEPT
                                       ![t] = IF driver = "loop" THEN Active(r)
                                                    ELSE @ + Active(r)]]]
                /\ finished' = [r \in Rows |-> finished[r] \/ tok[r] \in EosSet]
                /\ IF driver = "loop" /\ t = MaxNew
                   THEN pc' = "done" /\ out' = Buffers'
                   ELSE pc' = "forward" /\ out' = NoResult
      BY DEF SampleLoop
    <2> DEFINE tok == [r \in Rows |-> Emit(pick, r)]
    <2>2. \A r \in Rows : tok[r] = Emit(pick, r)
      OBVIOUS
    <2> HIDE DEF t
    <2> QED
      BY <2>1, <2>2
  <1>7. PICK tok : tok = [r \in Rows |-> Emit(pick, r)]
    OBVIOUS
  <1>8. \A r \in Rows : tok[r] = Emit(pick, r) /\ tok[r] \in Vocab
    BY <1>7, EmitIn
  <1> HIDE DEF t
  <1>9. ASSUME NEW r \in Rows
        PROVE  /\ IsSeq(ids[r]) /\ Len(ids[r]) = Lp + MaxNew
               /\ IsSeq(ids'[r]) /\ Len(ids'[r]) = Len(ids[r])
               /\ \A k \in 1 .. Len(ids[r]) : k # Lp + n + 1 => ids'[r][k] = ids[r][k]
               /\ ids'[r][Lp + n + 1] = tok[r]
    <2>1. /\ IsSeq(ids[r]) /\ Len(ids[r]) = Lp + MaxNew
          /\ \A k \in n + 1 .. MaxNew : ids[r][Lp + k] = Blank
      BY <1>2, <1>4 DEF IdsInv
    <2>2. Lp + n + 1 \in 1 .. Len(ids[r]) /\ ids[r][Lp + n + 1] = Blank
      <3>1. n + 1 \in n + 1 .. MaxNew /\ Lp + n + 1 \in 1 .. Lp + MaxNew
        BY <1>0, <1>5
      <3> QED
        BY <1>5, <2>1, <3>1
    <2> DEFINE s == ids[r]
    <2>3. ids'[r] = [s EXCEPT ![Lp + n + 1] = Put(@, Blank, tok[r])]
      BY <1>5, <1>6, <1>8
    <2>4. Put(s[Lp + n + 1], Blank, tok[r]) = tok[r]
      BY <2>2 DEF Put
    <2> HIDE DEF s
    <2>5. ids'[r] = [s EXCEPT ![Lp + n + 1] = tok[r]]
      BY <2>3, <2>4
    <2>6. IsSeq(s) /\ ids'[r] = Written(s, Lp + n + 1, tok[r])
      BY <2>1, <2>5 DEF Written, s
    <2>7. /\ IsSeq(ids'[r]) /\ Len(ids'[r]) = Len(s)
          /\ \A j \in 1 .. Len(s) : ids'[r][j] = IF j = Lp + n + 1 THEN tok[r] ELSE s[j]
      BY <2>6, SeqWritten
    <2> QED
      BY <2>1, <2>2, <2>7 DEF s
  <1>10. finished' = [r \in Rows |-> finished[r] \/ tok[r] \in EosSet]
    BY <1>6, <1>8
  <1>11. IdsInv(n + 1)' /\ \A r \in Rows : Ext(ids[r], ids'[r], n)
    <2>1. DOMAIN ids' = Rows
      BY <1>6
    <2>2. \A r \in Rows : Len(ids'[r]) = IF driver \in LoopDrivers THEN Len(ids[r])
                                         ELSE Len(ids[r]) + 1
      BY <1>2, <1>9
    <2> QED
      BY <1>2, <1>4, <1>8, <1>9, <1>10, <2>1, <2>2, IdsGrow
  <1>12. BufsInv(n)
    BY <1>2, <1>4 DEF RecordInv
  <1>13. \A r \in Rows : last[r] = Seen(ids[r], PadLen(r), Lp + n)
    <2>1. active = [r \in Rows |-> r]
      BY <1>0, <1>3 DEF ActiveInv
    <2> QED
      BY <1>4, <2>1
  <1>14. ASSUME NEW r \in Rows
         PROVE  /\ PadLen(r)' = PadLen(r) /\ PadLen(r) \in Nat
                /\ \A k \in 1 .. n : Honest(r, k)' = Honest(r, k)
                /\ \A k \in 1 .. n + 1 : Over(ids'[r], k - 1) <=> Over(ids[r], k - 1)
                /\ Seen(ids'[r], PadLen(r), Lp + n) = Seen(ids[r], PadLen(r), Lp + n)
    BY <1>0, <1>2, <1>5, <1>11, HonestStays
  <1>15. ASSUME NEW r \in Rows
         PROVE  /\ DOMAIN bufs'.logp[r] = 1 .. MaxNew /\ DOMAIN bufs'.mask[r] = 1 .. MaxNew
                /\ \A k \in 1 .. MaxNew : k # n + 1 =>
                     bufs'.logp[r][k] = bufs.logp[r][k] /\ bufs'.mask[r][k] = bufs.mask[r][k]
                /\ bufs'.logp[r][n + 1] = <<last[r], tok[r]>>
                /\ bufs'.mask[r][n + 1] = Active(r)
    <2> DEFINE l == bufs.logp[r]
               m == bufs.mask[r]
    <2>1. /\ DOMAIN l = 1 .. MaxNew /\ DOMAIN m = 1 .. MaxNew
          /\ l[n + 1] = NoLogp /\ m[n + 1] = 0
      <3>1. n + 1 \in n + 1 .. MaxNew
        BY <1>5
      <3> QED
        BY <1>12, <3>1 DEF BufsInv
    <2>2. t = n + 1
      BY <1>5 DEF t
    <2>3. bufs'.logp[r] = [l EXCEPT ![n + 1] = Put(@, NoLogp, <<last[r], tok[r]>>)]
      BY <1>6, <1>8, <2>2
    <2>4. bufs'.mask[r] = [m EXCEPT ![n + 1] = IF driver = "loop" THEN Active(r) ELSE @ + Active(r)]
      BY <1>6, <2>2
    <2> HIDE DEF l, m
    <2>5. Put(l[n + 1], NoLogp, <<last[r], tok[r]>>) = <<last[r], tok[r]>>
      BY <2>1 DEF Put
    <2>6. (IF driver = "loop" THEN Active(r) ELSE m[n + 1] + Active(r)) = Active(r)
      BY <2>1 DEF Active
    <2>7. bufs'.logp[r] = [l EXCEPT ![n + 1] = <<last[r], tok[r]>>]
      BY <2>3, <2>5
    <2>8. bufs'.mask[r] = [m EXCEPT ![n + 1] = Active(r)]
      BY <2>4, <2>6
    <2> QED
      BY <1>5, <2>1, <2>7, <2>8 DEF l, m
  <1>16. ASSUME NEW r \in Rows, NEW k \in 1 .. n + 1
         PROVE  /\ ~Over(ids'[r], k - 1) => bufs'.logp[r][k] = Honest(r, k)'
                /\ bufs'.mask[r][k] = IF Over(ids'[r], k - 1) THEN 0 ELSE 1
    <2>1. CASE k = n + 1
      <3>1. bufs'.logp[r][k] = <<Seen(ids'[r], PadLen(r)', Lp + k - 1), ids'[r][Lp + k]>>
        <4>1. Lp + k - 1 = Lp + n /\ Lp + k = Lp + n + 1
          BY <1>0, <1>5, <2>1
        <4> QED
          BY <1>9, <1>13, <1>14, <1>15, <2>1, <4>1
      <3>2. Active(r) = IF Over(ids'[r], k - 1) THEN 0 ELSE 1
        <4>1. finished[r] = Over(ids[r], n)
          BY <1>4 DEF IdsInv
        <4>2. Over(ids'[r], k - 1) <=> Over(ids[r], n)
          BY <1>5, <1>14, <2>1
        <4> QED
          BY <4>1, <4>2 DEF Active
      <3> QED
        BY <1>15, <2>1, <3>1, <3>2 DEF Honest
    <2>2. CASE k # n + 1
      <3>1. k \in 1 .. n /\ k \in 1 .. MaxNew
        BY <1>0, <1>5, <2>2
      <3>2. /\ ~Over(ids[r], k - 1) => bufs.logp[r][k] = Honest(r, k)
            /\ bufs.mask[r][k] = IF Over(ids[r], k - 1) THEN 0 ELSE 1
        BY <1>12, <3>1 DEF BufsInv
      <3>3. bufs'.logp[r][k] = bufs.logp[r][k] /\ bufs'.mask[r][k] = bufs.mask[r][k]
        BY <1>15, <2>2, <3>1
      <3>4. Honest(r, k)' = Honest(r, k) /\ (Over(ids'[r], k - 1) <=> Over(ids[r], k - 1))
        BY <1>14, <3>1
      <3> QED
        BY <3>2, <3>3, <3>4
    <2> QED
      BY <2>1, <2>2
  <1>17. ASSUME NEW r \in Rows, NEW k \in (n + 1) + 1 .. MaxNew
         PROVE  bufs'.logp[r][k] = NoLogp /\ bufs'.mask[r][k] = 0
    <2>1. k \in n + 1 .. MaxNew /\ k \in 1 .. MaxNew /\ k # n + 1
      BY <1>5
    <2>2. bufs.logp[r][k] = NoLogp /\ bufs.mask[r][k] = 0
      BY <1>12, <2>1 DEF BufsInv
    <2> QED
      BY <1>15, <2>1, <2>2
  <1>18. BufsInv(n + 1)'
    <2>1. DOMAIN bufs' = {"logp", "mask"} /\ DOMAIN bufs'.logp = Rows /\ DOMAIN bufs'.mask = Rows
      BY <1>6
    <2> QED
      BY <1>15, <1>16, <1>17, <2>1 DEF BufsInv
  <1>19. RecordInv(n + 1)'
    BY <1>2, <1>18 DEF RecordInv
  <1>20. ShapeInv' /\ ActiveInv'
    <2>1. \A r \in Rows : finished[r] => finished'[r]
      BY <1>10
    <2> QED
      BY <1>0, <1>2, <2>1, ActiveStays DEF ShapeInv
  <1>21. Holds(Lp + n)'
    BY <1>0, <1>2, <1>4, <1>5, <1>11, HoldsStays
  <1>22. PhaseInv(n + 1)'
    <2>1. CASE driver = "loop" /\ t = MaxNew
      <3>1. pc' = "done" /\ out' = Buffers' /\ n + 1 = MaxNew
        BY <1>5, <1>6, <2>1 DEF t
      <3>2. /\ out'.ids = ids' /\ out'.len = n + 1
            /\ out'.mask = bufs'.mask /\ out'.logp = bufs'.logp
        BY <3>1 DEF Buffers
      <3>3. n + 1 >= 1
        BY <1>5
      <3>4. Returned(n + 1)'
        BY <1>16, <3>1, <3>2, <3>3 DEF Returned
      <3> QED
        BY <3>1, <3>4 DEF PhaseInv
    <2>2. CASE ~(driver = "loop" /\ t = MaxNew)
      <3>1. pc' = "forward" /\ out' = NoResult
        BY <1>6, <2>2
      <3>2. n + 1 = MaxNew => driver = "static"
        BY <1>3, <1>5, <2>2 DEF t
      <3>3. Lp + (n + 1) - 1 = Lp + n /\ n + 1 >= 1
        BY <1>0, <1>5
      <3>4. pos' = Lp + (n + 1) - 1
        BY <1>2, <1>4, <3>3
      <3>5. Holds(Lp + (n + 1) - 1)'
        BY <1>21, <3>3
      <3> QED
        BY <1>2, <3>1, <3>2, <3>3, <3>4, <3>5 DEF PhaseInv
    <2> QED
      BY <2>1, <2>2
  <1>23. Sampled(n + 1)'
    BY <1>5, <1>11, <1>19, <1>22 DEF Sampled
  <1>24. RolloutInv'
    BY <1>5, <1>20, <1>23 DEF RolloutInv
  <1>25. Step(n)
    BY <1>1, <1>2, <1>5, <1>11, <1>23 DEF Step
  <1> QED
    BY <1>24, <1>25

-----------------------------------------------------------------------------
(***************************************************************************)
(* The invariant of every driver.                                          *)
(***************************************************************************)

\* The empty sequence is a row of no places.
LEMMA EmptyIs == IsRow(<<>>, 0) /\ IsSeq(<<>>) /\ Len(<<>>) = 0
  <1>1. DOMAIN <<>> = {} /\ 1 .. 0 = {}
    OBVIOUS
  <1>2. [i \in {} |-> <<>>[i]] = <<>>
    BY <1>1
  <1>3. IsRow(<<>>, 0)
    BY <1>1, <1>2 DEF IsRow
  <1> QED
    BY <1>3, RowHas

\* The driver's batch at the start.
LEMMA ShapeStarts ==
  ASSUME RolloutInit
  PROVE  ShapeInv
  <1>1. PICK s \in Shapes : \E lens \in IF driver = "padded" THEN Ragged(s) ELSE Uniform(s) :
          shape = [p |-> s[1], g |-> s[2], lens |-> lens]
    BY DEF RolloutInit
  <1>2. PICK lens \in IF driver = "padded" THEN Ragged(s) ELSE Uniform(s) :
          shape = [p |-> s[1], g |-> s[2], lens |-> lens]
    BY <1>1
  <1>3. s[1] \in Nat \ {0} /\ s[2] \in Nat \ {0} /\ s[1] * s[2] = N /\ Lp \in Nat \ {0}
    BY RolloutAssumption
  <1>4. driver \in AllDrivers
    BY RolloutAssumption DEF RolloutInit
  <1>5. lens \in [1 .. s[1] -> 1 .. Lp]
    <2>1. CASE driver = "padded"
      BY <1>2, <2>1 DEF Ragged
    <2>2. CASE driver # "padded"
      BY <1>2, <1>3, <2>2 DEF Uniform
    <2> QED
      BY <2>1, <2>2
  <1>6. driver # "padded" => \A q \in 1 .. s[1] : lens[q] = Lp
    BY <1>2 DEF Uniform
  <1>7. shape.p = s[1] /\ shape.g = s[2] /\ shape.lens = lens
    BY <1>2
  <1> QED
    BY <1>3, <1>4, <1>5, <1>6, <1>7 DEF ShapeInv

\* The rows at the start.
LEMMA IdsStart ==
  ASSUME RolloutInit
  PROVE  IdsInv(0)
  <1>0. Lp \in Nat \ {0} /\ MaxNew \in Nat \ {0} /\ 1 .. 0 = {}
    BY RolloutAssumption
  <1> DEFINE room == IF driver \in LoopDrivers THEN [k \in 1 .. MaxNew |-> Blank] ELSE <<>>
             m == IF driver \in LoopDrivers THEN MaxNew ELSE 0
  <1>1. ids = [r \in Rows |-> PromptIds(r) \o room] /\ finished = [r \in Rows |-> FALSE]
    BY DEF RolloutInit
  <1>2. m \in Nat /\ IsRow(room, m)
    <2>1. CASE driver \in LoopDrivers
      BY <1>0, <2>1 DEF IsRow
    <2>2. CASE driver \notin LoopDrivers
      BY <2>2, EmptyIs
    <2> QED
      BY <2>1, <2>2
  <1>3. driver \in LoopDrivers => \A k \in 1 .. MaxNew : room[k] = Blank
    OBVIOUS
  <1> HIDE DEF room
  <1>4. ASSUME NEW r \in Rows
        PROVE  /\ IsRow(ids[r], Lp + m)
               /\ driver \in LoopDrivers => \A k \in 1 .. MaxNew : ids[r][Lp + k] = Blank
    <2>1. IsRow(PromptIds(r), Lp)
      BY DEF IsRow, PromptIds
    <2>2. ids[r] = Joined(PromptIds(r), room)
      BY <1>1 DEF Joined
    <2> HIDE DEF m
    <2>3. /\ IsRow(ids[r], Lp + m)
          /\ \A i \in Lp + 1 .. Lp + m : ids[r][i] = room[i - Lp]
      BY <1>0, <1>2, <2>1, <2>2, ConcatIs
    <2>4. ASSUME driver \in LoopDrivers, NEW k \in 1 .. MaxNew PROVE ids[r][Lp + k] = Blank
      <3>1. m = MaxNew
        BY <2>4 DEF m
      <3>2. Lp + k \in Lp + 1 .. Lp + m /\ (Lp + k) - Lp = k
        BY <1>0, <3>1
      <3> QED
        BY <1>3, <2>3, <2>4, <3>2
    <2> QED
      BY <2>3, <2>4
  <1>5. ASSUME NEW r \in Rows
        PROVE  IsSeq(ids[r]) /\ Len(ids[r]) = Lp + (IF driver \in LoopDrivers THEN MaxNew ELSE 0)
    <2>1. Lp + m \in Nat
      BY <1>0, <1>2
    <2> HIDE DEF m
    <2>2. IsSeq(ids[r]) /\ Len(ids[r]) = Lp + m
      BY <1>4, <2>1, RowHas
    <2> QED
      BY <2>2 DEF m
  <1>6. finished = [r \in Rows |-> Over(ids[r], 0)]
    <2>1. \A r \in Rows : Over(ids[r], 0) = FALSE
      <3>1. \A r \in Rows : ~Over(ids[r], 0) /\ Over(ids[r], 0) \in BOOLEAN
        BY NotOver DEF Over
      <3> QED
        BY <3>1
    <2> QED
      BY <1>1, <2>1
  <1>7. DOMAIN ids = Rows /\ 0 + 1 = 1
    BY <1>1
  <1> QED
    BY <1>0, <1>4, <1>5, <1>6, <1>7 DEF IdsInv

\* The records at the start.
LEMMA RecordStarts ==
  ASSUME RolloutInit
  PROVE  RecordInv(0)
  <1>0. 1 .. 0 = {} /\ 0 + 1 = 1
    OBVIOUS
  <1>1. StepsInv(0)
    <2>1. steps = <<>>
      BY DEF RolloutInit
    <2> QED
      BY <1>0, <2>1, EmptyIs DEF StepsInv
  <1>2. BufsInv(0)
    <2>1. bufs = [logp |-> [r \in Rows |-> [t \in 1 .. MaxNew |-> NoLogp]],
                  mask |-> [r \in Rows |-> [t \in 1 .. MaxNew |-> 0]]]
      BY DEF RolloutInit
    <2> QED
      BY <1>0, <2>1 DEF BufsInv
  <1> QED
    BY <1>1, <1>2 DEF RecordInv

\* What holds at the start.
LEMMA RolloutStarts ==
  ASSUME RolloutInit
  PROVE  RolloutInv
  <1>0. Lp \in Nat \ {0} /\ MaxNew \in Nat \ {0} /\ N \in Nat \ {0} /\ 0 \in 0 .. MaxNew
    BY RolloutAssumption
  <1>1. /\ driver \in AllDrivers /\ cache = WithCapacity(Lp + MaxNew)
        /\ active = [r \in Rows |-> r] /\ finished = [r \in Rows |-> FALSE]
        /\ pos = Lp /\ out = NoResult
        /\ pc = IF driver \in WholeDrivers THEN "forward" ELSE "prefill"
    BY RolloutAssumption DEF RolloutInit
  <1>2. ActiveInv
    <2>1. active \in [1 .. N -> Rows]
      BY <1>1 DEF Rows
    <2>2. active \in Seq(Rows)
      BY <1>0, <2>1
    <2>3. 1 \in DOMAIN active
      BY <1>0, <2>1
    <2>4. active # <<>>
      BY <2>3
    <2>5. \A i, j \in DOMAIN active : active[i] = active[j] => i = j
      BY <1>1
    <2>6. \A r \in Rows : r \in DOMAIN active /\ active[r] = r
      BY <1>1
    <2> QED
      BY <1>1, <2>2, <2>4, <2>5, <2>6 DEF ActiveInv
  <1>3. ~AllOver
    <2>1. 1 \in Rows
      BY <1>0 DEF Rows
    <2> QED
      BY <1>1, <2>1 DEF AllOver
  <1>4. PhaseInv(0)
    <2>1. CASE driver \in WholeDrivers
      <3>1. driver \notin LoopDrivers
        BY <2>1 DEF WholeDrivers, LoopDrivers
      <3> QED
        BY <1>0, <1>1, <1>3, <2>1, <3>1 DEF PhaseInv
    <2>2. CASE driver \notin WholeDrivers
      BY <1>1, <2>2 DEF PhaseInv
    <2> QED
      BY <2>1, <2>2
  <1>5. Sampled(0)
    BY <1>0, <1>4, IdsStart, RecordStarts DEF Sampled
  <1> QED
    BY <1>0, <1>2, <1>5, ShapeStarts DEF RolloutInv

\* The phases behind a rollout.
Later == {"done", "scored", "lossy", "trained"}

\* What leaves the rollout alone keeps its invariant.
LEMMA RolloutRests ==
  ASSUME RolloutInv, pc' = pc \/ (pc \in Later /\ pc' \in Later),
         UNCHANGED <<driver, shape, ids, cache, last, active, finished, steps, bufs, pos, out>>
  PROVE  RolloutInv'
  <1>0. ShapeInv /\ ActiveInv
    BY DEF RolloutInv
  <1>1. PICK n \in 0 .. MaxNew : Sampled(n)
    BY DEF RolloutInv
  <1>2. IdsInv(n) /\ RecordInv(n) /\ PhaseInv(n)
    BY <1>1 DEF Sampled
  <1>3. ShapeInv' /\ IdsInv(n)' /\ RecordInv(n)'
    BY <1>0, <1>2, Framed
  <1>4. ActiveInv'
    BY <1>0 DEF ActiveInv
  <1>5. \A r : PadLen(r)' = PadLen(r)
    BY DEF PadLen, Prompt
  <1>6. \A m : Holds(m)' = Holds(m)
    BY DEF Holds
  <1>7. AllOver' = AllOver
    BY DEF AllOver
  <1>8. Returned(n)' <=> Returned(n)
    <2>1. \A r, k : Honest(r, k)' = Honest(r, k)
      BY <1>5 DEF Honest
    <2> QED
      BY <1>7, <2>1 DEF Returned
  <1>9. PhaseInv(n)'
    <2>1. CASE pc \in Later /\ pc' \in Later
      <3>1. Returned(n)
        BY <1>2, <2>1 DEF PhaseInv, Later
      <3> QED
        BY <1>8, <2>1, <3>1 DEF PhaseInv, Later
    <2>2. CASE pc' = pc
      <3>1. pc = "sample" =>
              last' = [i \in DOMAIN active' |->
                         Seen(ids'[active'[i]], PadLen(active[i])', Lp + n)]
        BY <1>2, <1>5 DEF PhaseInv
      <3>2. pc = "sample" =>
              (last = [i \in DOMAIN active |-> Seen(ids[active[i]], PadLen(active[i]), Lp + n)])'
        BY <3>1 DEF PadLen, Prompt
      <3> QED
        BY <1>2, <1>6, <1>7, <1>8, <2>2, <3>2 DEF PhaseInv
    <2> QED
      BY <2>1, <2>2
  <1>10. Sampled(n)'
    BY <1>1, <1>3, <1>9 DEF Sampled
  <1> QED
    BY <1>1, <1>3, <1>4, <1>10 DEF RolloutInv

\* Every step of a rollout keeps its invariant.
LEMMA RolloutKeeps ==
  ASSUME RolloutInv, RolloutNext
  PROVE  RolloutInv'
  <1>1. CASE Prefill
    BY <1>1, PrefillKeeps
  <1>2. CASE ForwardWhole
    BY <1>2, ForwardWholeKeeps
  <1>3. CASE ForwardCached
    BY <1>3, ForwardCachedKeeps
  <1>4. CASE ForwardShrunk
    BY <1>4, ForwardShrunkKeeps
  <1>5. CASE ForwardLoop
    BY <1>5, ForwardLoopKeeps
  <1>6. CASE ForwardAtPos
    BY <1>6, ForwardAtPosKeeps
  <1>7. CASE SampleHost
    BY <1>7, SampleHostKeeps
  <1>8. CASE SampleShrunk
    BY <1>8, SampleShrunkKeeps
  <1>9. CASE SampleLoop
    BY <1>9, SampleLoopKeeps
  <1> QED
    BY <1>1, <1>2, <1>3, <1>4, <1>5, <1>6, <1>7, <1>8, <1>9 DEF RolloutNext

\* The trainer's steps leave the rollout alone.
LEMMA TrainerRests ==
  ASSUME RolloutInv, Score \/ Logprobs \/ GrpoLoss
  PROVE  RolloutInv'
  <1>1. /\ pc \in Later /\ pc' \in Later
        /\ UNCHANGED <<driver, shape, ids, cache, last, active, finished, steps, bufs, pos, out>>
    BY DEF Score, Logprobs, GrpoLoss, Later
  <1> QED
    BY <1>1, RolloutRests

\* All drivers: the rows hold n completion tokens, each live row has its own columns in the
\* cache, and every token was recorded with its own context.
THEOREM RolloutInvariance == Spec => []RolloutInv
  <1>1. Init => RolloutInv
    BY RolloutStarts DEF Init
  <1>2. RolloutInv /\ [Next]_vars => RolloutInv'
    <2> SUFFICES ASSUME RolloutInv, [Next]_vars PROVE RolloutInv'
      OBVIOUS
    <2>1. CASE RolloutNext
      BY <2>1, RolloutKeeps
    <2>2. CASE Score \/ Logprobs \/ GrpoLoss
      BY <2>2, TrainerRests
    <2>3. CASE UNCHANGED vars
      <3>1. pc' = pc /\ UNCHANGED <<driver, shape, ids, cache, last, active, finished, steps,
                                    bufs, pos, out>>
        BY <2>3 DEF vars, rolloutVars
      <3> QED
        BY <3>1, RolloutRests
    <2> QED
      BY <2>1, <2>2, <2>3 DEF Next
  <1> QED
    BY <1>1, <1>2, PTL DEF Spec

\* The completions of the rows, by the invariant.
LEMMA CompletionsAre ==
  ASSUME NEW n \in 0 .. MaxNew, ShapeInv, IdsInv(n), NEW r \in Rows
  PROVE  \E m \in 0 .. n : /\ Completed(r) = Said(ids[r], n) /\ CutAt(ids[r], n, m)
                           /\ Cut(Completed(r)) = Said(ids[r], m)
                           /\ DOMAIN Cut(Completed(r)) = 1 .. m
  <1>1. Completed(r) = Said(ids[r], n)
    BY CompletedIs
  <1>2. PICK m \in 0 .. n : CutAt(ids[r], n, m)
    BY CutIs
  <1>3. Cut(Completed(r)) = Said(ids[r], m)
    BY <1>1, <1>2 DEF CutAt
  <1>4. DOMAIN Said(ids[r], m) = 1 .. m
    BY DEF Said
  <1> QED
    BY <1>1, <1>2, <1>3, <1>4

\* By the invariant every token up to its row's end is recorded honestly.
LEMMA HonestLogp ==
  ASSUME RolloutInv
  PROVE  LogpHonest
  <1>0. ShapeInv /\ Lp \in Nat
    BY RolloutAssumption DEF RolloutInv
  <1>1. PICK n \in 0 .. MaxNew : Sampled(n)
    BY DEF RolloutInv
  <1>2. IdsInv(n) /\ RecordInv(n)
    BY <1>1 DEF Sampled
  <1> SUFFICES ASSUME NEW r \in Rows, NEW k \in DOMAIN Cut(Completed(r))
               PROVE  Recorded(r, k) = <<Ideal(r, k), Completed(r)[k]>>
    BY DEF LogpHonest
  <1>3. PICK m \in 0 .. n : /\ Completed(r) = Said(ids[r], n) /\ CutAt(ids[r], n, m)
                            /\ DOMAIN Cut(Completed(r)) = 1 .. m
    BY <1>0, <1>2, CompletionsAre
  <1>4. k \in 1 .. n /\ k <= m /\ k \in Nat \ {0}
    BY <1>3
  <1>5. ~Over(ids[r], k - 1)
    BY <1>3, <1>4 DEF CutAt
  <1>6. Recorded(r, k) = Honest(r, k)
    BY <1>2, <1>4, <1>5 DEF Recorded, RecordInv, StepsInv, BufsInv
  <1>7. Ideal(r, k) = Seen(ids[r], PadLen(r), Lp + k - 1)
    BY <1>0, <1>4, IdealIs
  <1>8. Completed(r)[k] = ids[r][Lp + k]
    BY <1>3, <1>4 DEF Said
  <1> QED
    BY <1>6, <1>7, <1>8 DEF Honest

\* Every token of a completion is recorded with the log-probability that the model gives it
\* after the row's own prompt and completion: whatever the driver, the size of the batch
\* and of its groups, the prompts' lengths, and what is sampled.
THEOREM HonestRollouts == Spec => []LogpHonest
  BY RolloutInvariance, HonestLogp, PTL

\* By the invariant the cache holds the live rows.
LEMMA CoherentCache ==
  ASSUME RolloutInv
  PROVE  CacheCoherent
  <1>0. ShapeInv /\ ActiveInv /\ Lp \in Nat
    BY RolloutAssumption DEF RolloutInv
  <1> SUFFICES ASSUME pc = "sample", driver \notin WholeDrivers
               PROVE  LET fed == Lp + Len(Completed(active[1])) IN
                      /\ cache.filled = IF driver = "static" THEN Lp ELSE fed
                      /\ Len(cache.rows) = Len(active)
                      /\ \A i \in DOMAIN active : \A c \in 1..cache.cap :
                           cache.rows[i][c] = IF c > fed THEN Zero
                                              ELSE [k \in 1..c |-> <<ids[active[i]][k], k - 1>>]
    BY DEF CacheCoherent
  <1>1. PICK n \in 0 .. MaxNew : Sampled(n)
    BY DEF RolloutInv
  <1>2. Holds(Lp + n) /\ IdsInv(n)
    BY <1>1, AtSample
  <1>3. DOMAIN active = 1 .. Len(active) /\ Len(active) \in Nat /\ active[1] \in Rows
    <2>1. Len(active) >= 1 /\ Len(active) \in Nat /\ DOMAIN active = 1 .. Len(active)
      BY <1>0 DEF ActiveInv
    <2> QED
      BY <1>0, <2>1 DEF ActiveInv
  <1>4. Len(Completed(active[1])) = n
    <2>1. Completed(active[1]) = Said(ids[active[1]], n)
      BY <1>0, <1>2, <1>3, CompletedIs
    <2>2. n \in Nat /\ IsRow(Said(ids[active[1]], n), n)
      BY DEF IsRow, Said
    <2> QED
      BY <2>1, <2>2, RowHas
  <1>5. PICK fed : fed = Lp + Len(Completed(active[1]))
    OBVIOUS
  <1>6. fed = Lp + n
    BY <1>4, <1>5
  <1> DEFINE R == [i \in DOMAIN active |-> Columns(ids[active[i]], Lp + n)]
  <1>7. cache = [cap |-> Lp + MaxNew, rows |-> R,
                  filled |-> IF driver = "static" THEN Lp ELSE Lp + n]
    BY <1>2 DEF Holds
  <1>8. \A i \in DOMAIN active : R[i] = Columns(ids[active[i]], Lp + n)
    OBVIOUS
  <1>9. Len(R) = Len(active)
    <2>1. IsRow(R, Len(active))
      BY <1>3 DEF IsRow
    <2> HIDE DEF R
    <2> QED
      BY <1>3, <2>1, RowHas
  <1> HIDE DEF R
  <1>10. ASSUME NEW i \in DOMAIN active, NEW c \in 1 .. cache.cap
         PROVE  cache.rows[i][c] = IF c > fed THEN Zero
                                   ELSE [k \in 1..c |-> <<ids[active[i]][k], k - 1>>]
    <2>1. c \in 1 .. Lp + MaxNew /\ cache.rows[i] = Columns(ids[active[i]], Lp + n)
      BY <1>7, <1>8
    <2>2. cache.rows[i][c] = IF c > Lp + n THEN Zero ELSE Seen(ids[active[i]], 0, c)
      BY <2>1 DEF Columns
    <2>3. Seen(ids[active[i]], 0, c) = [k \in 1..c |-> <<ids[active[i]][k], k - 1>>]
      <3>1. c - 0 = c /\ \A k \in 1 .. c : 0 + k = k
        BY <2>1
      <3> QED
        BY <3>1 DEF Seen
    <2> QED
      BY <1>6, <2>2, <2>3
  <1>11. cache.filled = IF driver = "static" THEN Lp ELSE fed
    BY <1>6, <1>7
  <1>12. Len(cache.rows) = Len(active)
    BY <1>7, <1>9
  <1> QED
    BY <1>5, <1>10, <1>11, <1>12

\* The KV cache holds the tokens of each live row in their columns, and nothing else,
\* whichever rows were dropped and however it is written.
THEOREM CoherentCaches == Spec => []CacheCoherent
  BY RolloutInvariance, CoherentCache, PTL

-----------------------------------------------------------------------------

(***************************************************************************)
(* A rollout is a group sampling.                                          *)
(***************************************************************************)

\* A row with n completion tokens.
RowOk(s, n) ==
  /\ \/ Len(s) = Lp + n
     \/ /\ Len(s) = Lp + MaxNew
        /\ \A k \in n + 1 .. MaxNew : s[Lp + k] = Blank
  /\ \A k \in 1 .. n : s[Lp + k] \in Vocab

\* What it says up to its end.
WholeSay(s) == SubSeq(s, Lp + 1, Lp + Cardinality({k \in Lp + 1 .. Len(s) : s[k] # Blank}))
Say(s) == Cut(WholeSay(s))

\* All of its tokens.
LEMMA WholeSayIs ==
  ASSUME NEW s, NEW n \in 0 .. MaxNew, RowOk(s, n)
  PROVE  WholeSay(s) = Said(s, n)
  <1> DEFINE written == {k \in Lp + 1 .. Len(s) : s[k] # Blank}
  <1>0. Lp \in Nat /\ MaxNew \in Nat /\ n \in Nat /\ n <= MaxNew
    BY RolloutAssumption
  <1>1. /\ \/ Len(s) = Lp + n
           \/ /\ Len(s) = Lp + MaxNew
              /\ \A k \in n + 1 .. MaxNew : s[Lp + k] = Blank
        /\ \A k \in 1 .. n : s[Lp + k] \in Vocab
    BY DEF RowOk
  <1>2. ASSUME NEW k \in Lp + 1 .. Len(s) PROVE s[k] # Blank <=> k \in Lp + 1 .. Lp + n
    <2>1. k \in Int /\ k - Lp >= 1 /\ Lp + (k - Lp) = k
      BY <1>0, <1>1
    <2>2. CASE k \in Lp + 1 .. Lp + n
      <3>1. k - Lp \in 1 .. n
        BY <1>0, <2>1, <2>2
      <3>2. s[k] \in Vocab
        BY <1>1, <2>1, <3>1
      <3> QED
        BY <2>2, <3>2, RolloutAssumption
    <2>3. CASE k \notin Lp + 1 .. Lp + n
      <3>1. ~(k <= Lp + n)
        BY <1>0, <2>1, <2>3
      <3>a. Len(s) # Lp + n
        BY <1>0, <3>1
      <3>2. Len(s) = Lp + MaxNew /\ \A x \in n + 1 .. MaxNew : s[Lp + x] = Blank
        BY <1>1, <3>a
      <3>3. k - Lp \in n + 1 .. MaxNew
        BY <1>0, <2>1, <3>1, <3>2
      <3>4. s[k] = Blank
        BY <2>1, <3>2, <3>3
      <3> QED
        BY <2>3, <3>4
    <2> QED
      BY <2>2, <2>3
  <1>3. written = Lp + 1 .. Lp + n
    <2>1. \A k \in Lp + 1 .. Lp + n : k \in Lp + 1 .. Len(s)
      BY <1>0, <1>1
    <2> QED
      BY <1>2, <2>1
  <1>4. Cardinality(written) = n
    BY <1>0, <1>3, AscendingRow
  <1>5. WholeSay(s) = SubSeq(s, Lp + 1, Lp + Cardinality(written))
    BY DEF WholeSay
  <1> HIDE DEF written
  <1>6. WholeSay(s) = SubSeq(s, Lp + 1, Lp + n)
    BY <1>4, <1>5
  <1>7. SubSeq(s, Lp + 1, Lp + n) = [i \in 1 .. (Lp + n) - Lp |-> s[Lp + i]]
    <2>1. Lp + n \in Nat
      BY <1>0
    <2> QED
      BY <1>0, <2>1, SubSeqIs
  <1>8. (Lp + n) - Lp = n
    BY <1>0
  <1> QED
    BY <1>6, <1>7, <1>8 DEF Said

\* What it says.
LEMMA SayIs ==
  ASSUME NEW s, NEW n \in 0 .. MaxNew, RowOk(s, n)
  PROVE  \E m \in 0 .. n : CutAt(s, n, m) /\ Say(s) = Said(s, m)
  <1>1. PICK m \in 0 .. n : CutAt(s, n, m)
    BY CutIs
  <1>2. Say(s) = Said(s, m)
    BY <1>1, WholeSayIs DEF CutAt, Say
  <1> QED
    BY <1>1, <1>2

\* The length and the tokens of what was said.
LEMMA SaidHas ==
  ASSUME NEW s, NEW m \in Nat
  PROVE  /\ IsRow(Said(s, m), m) /\ Len(Said(s, m)) = m
         /\ \A k \in 1 .. m : Said(s, m)[k] = s[Lp + k]
         /\ Said(s, m) # <<>> <=> m >= 1
  <1> DEFINE q == Said(s, m)
  <1>1. IsRow(q, m) /\ \A k \in 1 .. m : q[k] = s[Lp + k]
    BY DEF IsRow, Said
  <1> HIDE DEF q
  <1>2. Len(q) = m /\ DOMAIN q = 1 .. m
    BY <1>1, RowHas
  <1>3. q # <<>> <=> m >= 1
    <2>1. CASE m >= 1
      <3>1. 1 \in DOMAIN q /\ DOMAIN <<>> = {}
        BY <1>2, <2>1
      <3> QED
        BY <2>1, <3>1
    <2>2. CASE ~(m >= 1)
      <3>1. 1 .. m = {} /\ DOMAIN <<>> = {}
        BY <2>2
      <3>2. q = [i \in 1 .. m |-> q[i]]
        BY <1>1 DEF IsRow
      <3>3. q = <<>>
        BY <3>1, <3>2
      <3> QED
        BY <2>2, <3>3
    <2> QED
      BY <2>1, <2>2
  <1> QED
    BY <1>1, <1>2, <1>3 DEF q

\* A row has ended, for the group sampling, when it is over for the driver.
LEMMA EndedIs ==
  ASSUME NEW s, NEW n \in 0 .. MaxNew, RowOk(s, n)
  PROVE  /\ Sampling!Ended(Say(s)) <=> Over(s, n)
         /\ (Sampling!Ended(Say(s)) \/ Len(Say(s)) = MaxNew) <=> (Over(s, n) \/ n = MaxNew)
  <1>0. MaxNew \in Nat /\ n \in Nat /\ n <= MaxNew
    BY RolloutAssumption
  <1>1. PICK m \in 0 .. n : CutAt(s, n, m) /\ Say(s) = Said(s, m)
    BY SayIs
  <1>2. m \in Nat /\ m <= n
    BY <1>0
  <1>3. /\ Len(Say(s)) = m /\ (Say(s) # <<>> <=> m >= 1)
        /\ \A k \in 1 .. m : Say(s)[k] = s[Lp + k]
    BY <1>1, <1>2, SaidHas
  <1>4. Over(s, n) => m >= 1 /\ s[Lp + m] \in EosSet
    BY <1>1 DEF CutAt
  <1>5. ~Over(s, n) => m = n
    BY <1>1 DEF CutAt
  <1>6. Sampling!Ended(Say(s)) <=> m >= 1 /\ s[Lp + m] \in EosSet
    <2>1. m >= 1 => m \in 1 .. m
      BY <1>2
    <2> QED
      BY <1>3, <2>1 DEF Sampling!Ended
  <1>7. ~Over(s, n) /\ m >= 1 => s[Lp + m] \notin EosSet
    <2>1. m >= 1 /\ m = n => m \in 1 .. n
      BY <1>0
    <2> QED
      BY <1>5, <2>1 DEF Over
  <1>8. Sampling!Ended(Say(s)) <=> Over(s, n)
    BY <1>4, <1>6, <1>7
  <1>9. ~Over(s, n) => (Len(Say(s)) = MaxNew <=> n = MaxNew)
    BY <1>3, <1>5
  <1>10. Over(s, n) \in BOOLEAN
    BY DEF Over
  <1> QED
    BY <1>8, <1>9

\* One more token: a row that is over says the same, any other says the token too.
LEMMA SayGrows ==
  ASSUME NEW s, NEW t, NEW n \in 0 .. MaxNew, n < MaxNew, RowOk(s, n), RowOk(t, n + 1),
         Ext(s, t, n)
  PROVE  Say(t) = IF Over(s, n) THEN Say(s) ELSE Append(Say(s), t[Lp + (n + 1)])
  <1>0. /\ MaxNew \in Nat /\ Lp \in Nat /\ n \in Nat /\ n + 1 \in 0 .. MaxNew
        /\ n + 1 \in 1 .. n + 1
        /\ (n + 1) - 1 = n
    BY RolloutAssumption
  <1>1. PICK m \in 0 .. n : CutAt(s, n, m) /\ Say(s) = Said(s, m)
    BY SayIs
  <1>2. PICK m2 \in 0 .. n + 1 : CutAt(t, n + 1, m2) /\ Say(t) = Said(t, m2)
    BY <1>0, SayIs
  <1>3. \A j \in 0 .. n : Over(t, j) <=> Over(s, j)
    BY <1>0, ExtIs
  <1>4. \A k \in 1 .. n : t[Lp + k] = s[Lp + k]
    <2>1. \A k \in 1 .. n : Lp + k \in 1 .. Lp + n
      BY <1>0
    <2> QED
      BY <2>1 DEF Ext
  <1>5. \A k \in 1 .. n + 1 : k <= m2 <=> ~Over(s, k - 1)
    <2>1. \A k \in 1 .. n + 1 : k <= m2 <=> ~Over(t, k - 1)
      BY <1>2 DEF CutAt
    <2>2. \A k \in 1 .. n + 1 : k - 1 \in 0 .. n
      BY <1>0
    <2> QED
      BY <1>3, <2>1, <2>2
  <1>6. CASE Over(s, n)
    <2>1. ~(n + 1 <= m2)
      BY <1>0, <1>5, <1>6
    <2>2. \A k \in 1 .. n : k <= m2 <=> k <= m
      <3>1. \A k \in 1 .. n : k <= m <=> ~Over(s, k - 1)
        BY <1>1 DEF CutAt
      <3>2. \A k \in 1 .. n : k \in 1 .. n + 1
        BY <1>0
      <3> QED
        BY <1>5, <3>1, <3>2
    <2>3. m2 = m
      <3>1. m2 <= n /\ m <= n /\ m \in Nat /\ m2 \in Nat
        BY <1>0, <2>1
      <3>2. m2 >= 1 => m2 <= m
        BY <2>2, <3>1
      <3>3. m >= 1 => m <= m2
        BY <2>2, <3>1
      <3> QED
        BY <3>1, <3>2, <3>3
    <2>4. \A k \in 1 .. m : k \in 1 .. n
      BY <1>0
    <2>5. Said(t, m) = Said(s, m)
      BY <1>4, <2>4 DEF Said
    <2> QED
      BY <1>1, <1>2, <1>6, <2>3, <2>5
  <1>7. CASE ~Over(s, n)
    <2>1. m = n
      BY <1>1, <1>7 DEF CutAt
    <2>2. m2 = n + 1
      <3>1. n + 1 <= m2
        BY <1>0, <1>5, <1>7
      <3> QED
        BY <1>0, <3>1
    <2>3. PICK u : u = Longer(Said(s, n), t[Lp + (n + 1)])
      OBVIOUS
    <2>4. IsRow(Said(s, n), n) /\ \A k \in 1 .. n : Said(s, n)[k] = s[Lp + k]
      BY <1>0, SaidHas
    <2>5. IsRow(u, n + 1) /\ u[n + 1] = t[Lp + (n + 1)] /\ \A k \in 1 .. n : u[k] = Said(s, n)[k]
      BY <1>0, <2>3, <2>4, AppendIs
    <2>6. ASSUME NEW k \in 1 .. n + 1 PROVE u[k] = t[Lp + k]
      <3>1. CASE k = n + 1
        BY <2>5, <3>1
      <3>2. CASE k # n + 1
        <4>1. k \in 1 .. n
          BY <1>0, <3>2
        <4> QED
          BY <1>4, <2>4, <2>5, <4>1
      <3> QED
        BY <3>1, <3>2
    <2>7. u = Said(t, n + 1)
      BY <2>5, <2>6 DEF IsRow, Said
    <2> QED
      BY <1>1, <1>2, <1>7, <2>1, <2>2, <2>3, <2>7 DEF Longer
  <1> QED
    BY <1>6, <1>7

\* What the mask selects is what the row says.
LEMMA SelectedIs ==
  ASSUME NEW s, NEW n \in 0 .. MaxNew, RowOk(s, n), NEW mask,
         \A k \in 1 .. n : mask[k] = IF Over(s, k - 1) THEN 0 ELSE 1
  PROVE  SubAt(s, {k \in Lp + 1 .. Lp + n : mask[k - Lp] = 1}) = Say(s)
  <1>0. MaxNew \in Nat /\ Lp \in Nat /\ n \in Nat
    BY RolloutAssumption
  <1>1. PICK m \in 0 .. n : CutAt(s, n, m) /\ Say(s) = Said(s, m)
    BY SayIs
  <1>2. \A k \in 1 .. n : mask[k] = 1 <=> k <= m
    BY <1>1 DEF CutAt
  <1>3. {k \in Lp + 1 .. Lp + n : mask[k - Lp] = 1} = Lp + 1 .. Lp + m
    <2>1. ASSUME NEW k \in Lp + 1 .. Lp + n PROVE mask[k - Lp] = 1 <=> k \in Lp + 1 .. Lp + m
      <3>1. k - Lp \in 1 .. n /\ (k - Lp <= m <=> k \in Lp + 1 .. Lp + m)
        BY <1>0
      <3> QED
        BY <1>2, <3>1
    <2>2. \A k \in Lp + 1 .. Lp + m : k \in Lp + 1 .. Lp + n
      BY <1>0
    <2> QED
      BY <2>1, <2>2
  <1>a. PICK a \in Nat : a = Lp
    BY <1>0
  <1>m. PICK e \in Nat : e = m
    BY <1>0
  <1>5. SubAt(s, a + 1 .. a + e) = [i \in 1 .. e |-> s[a + i]]
    BY SubAtRow
  <1> QED
    BY <1>1, <1>3, <1>5, <1>a, <1>m DEF Said

\* What all rows say, and what the mask of a result selects from it.
SayAll(q) == [r \in Rows |-> Say(q[r])]
SelectedFrom(o) ==
  IF o = NoResult THEN NoResult
  ELSE [r \in Rows |-> SubAt(o.ids[r], {k \in Lp+1..Lp+o.len : o.mask[r][k - Lp] = 1})]

\* The two variables of the group sampling.
LEMMA MappedIs ==
  /\ [r \in Rows |-> Cut(Completed(r))] = SayAll(ids)
  /\ (IF out = NoResult THEN NoResult ELSE [r \in Rows |-> Selected(r)]) = SelectedFrom(out)
  BY DEF Completed, SayAll, Say, WholeSay, Selected, SelectedFrom

\* The rows have their tokens.
LEMMA RowsOk ==
  ASSUME NEW n \in 0 .. MaxNew, IdsInv(n)
  PROVE  \A r \in Rows : RowOk(ids[r], n) /\ (finished[r] <=> Over(ids[r], n))
  <1>1. ASSUME NEW r \in Rows PROVE RowOk(ids[r], n)
    BY DEF IdsInv, RowOk
  <1>2. ASSUME NEW r \in Rows PROVE finished[r] <=> Over(ids[r], n)
    BY DEF IdsInv
  <1> QED
    BY <1>1, <1>2

\* A group is complete when all rows are over or the budget is used up.
LEMMA CompleteIs ==
  ASSUME NEW q, NEW n \in 0 .. MaxNew, \A r \in Rows : RowOk(q[r], n)
  PROVE  Sampling!Complete(SayAll(q)) <=> (n = MaxNew \/ \A r \in Rows : Over(q[r], n))
  <1>1. ASSUME NEW r \in Rows
        PROVE  (Sampling!Ended(Say(q[r])) \/ Len(Say(q[r])) = MaxNew)
                  <=> (Over(q[r], n) \/ n = MaxNew)
    BY EndedIs
  <1>2. \A r \in Rows : SayAll(q)[r] = Say(q[r])
    BY DEF SayAll
  <1> QED
    BY <1>1, <1>2 DEF Sampling!Complete

\* What the mask selects is what the rows say.
LEMMA ResultIs ==
  ASSUME NEW q, NEW o, NEW n \in 0 .. MaxNew, \A r \in Rows : RowOk(q[r], n),
         o.ids = q, o.len = n,
         \A r \in Rows : \A k \in 1 .. n :
           o.mask[r][k] = IF Over(q[r], k - 1) THEN 0 ELSE 1
  PROVE  SelectedFrom(o) \in {NoResult, SayAll(q)}
  <1>1. ASSUME NEW r \in Rows
        PROVE  SubAt(o.ids[r], {k \in Lp+1..Lp+o.len : o.mask[r][k - Lp] = 1}) = Say(q[r])
    <2>1. PICK mask : mask = o.mask[r]
      OBVIOUS
    <2>2. SubAt(q[r], {k \in Lp + 1 .. Lp + n : mask[k - Lp] = 1}) = Say(q[r])
      BY <2>1, SelectedIs
    <2> QED
      BY <2>1, <2>2
  <1> QED
    BY <1>1 DEF SelectedFrom, SayAll

\* From c to d every row that has not ended says one more token.
Advance(c, d) ==
  \E pick \in [{r \in Rows : ~Sampling!Ended(c[r])} -> Vocab] :
    d = [r \in Rows |-> IF r \in DOMAIN pick THEN Append(c[r], pick[r]) ELSE c[r]]

\* All rows that are not over say one more token.
LEMMA RoundSays ==
  ASSUME NEW q, NEW t, NEW n \in 0 .. MaxNew, n < MaxNew,
         \A r \in Rows : RowOk(q[r], n), \A r \in Rows : RowOk(t[r], n + 1),
         \A r \in Rows : Ext(q[r], t[r], n)
  PROVE  /\ Advance(SayAll(q), SayAll(t))
         /\ (\A r \in Rows : Over(q[r], n)) => SayAll(t) = SayAll(q)
  <1>1. \A r \in Rows : SayAll(q)[r] = Say(q[r]) /\ SayAll(t)[r] = Say(t[r])
    BY DEF SayAll
  <1>2. ASSUME NEW r \in Rows
        PROVE  Say(t[r]) = IF Over(q[r], n) THEN Say(q[r])
                           ELSE Append(Say(q[r]), t[r][Lp + (n + 1)])
    BY SayGrows
  <1>3. ASSUME NEW r \in Rows PROVE Sampling!Ended(Say(q[r])) <=> Over(q[r], n)
    BY EndedIs
  <1>4. ASSUME NEW r \in Rows PROVE t[r][Lp + (n + 1)] \in Vocab
    <2>1. n + 1 \in 1 .. n + 1
      OBVIOUS
    <2> QED
      BY <2>1 DEF RowOk
  <1> DEFINE S == {r \in Rows : ~Sampling!Ended(SayAll(q)[r])}
             pick == [r \in S |-> t[r][Lp + (n + 1)]]
  <1>5. \A r \in Rows : r \in S <=> ~Over(q[r], n)
    BY <1>1, <1>3
  <1>6. DOMAIN pick = S /\ pick \in [S -> Vocab] /\ \A r \in S : pick[r] = t[r][Lp + (n + 1)]
    BY <1>4
  <1> HIDE DEF S, pick
  <1>7. ASSUME NEW r \in Rows
        PROVE  Say(t[r]) = IF r \in DOMAIN pick THEN Append(SayAll(q)[r], pick[r])
                           ELSE SayAll(q)[r]
    <2>1. CASE Over(q[r], n)
      BY <1>1, <1>2, <1>5, <1>6, <2>1
    <2>2. CASE ~Over(q[r], n)
      BY <1>1, <1>2, <1>5, <1>6, <2>2
    <2> QED
      BY <2>1, <2>2
  <1>8. SayAll(t) = [r \in Rows |-> IF r \in DOMAIN pick THEN Append(SayAll(q)[r], pick[r])
                                    ELSE SayAll(q)[r]]
    BY <1>7 DEF SayAll
  <1>9. (\A r \in Rows : Over(q[r], n)) => SayAll(t) = SayAll(q)
    BY <1>2 DEF SayAll
  <1> QED
    BY <1>6, <1>8, <1>9 DEF S, Advance

\* Before the trainer, the result is what the rows say, and is there when they are done.
LEMMA ThenSaid ==
  ASSUME NEW n \in 0 .. MaxNew, Sampled(n)', pc' \in {"sample", "forward", "done"}
  PROVE  /\ \A r \in Rows : RowOk(ids'[r], n)
         /\ SelectedFrom(out') \in {NoResult, SayAll(ids')}
         /\ SelectedFrom(out') # NoResult => Sampling!Complete(SayAll(ids'))
  <1>1. IdsInv(n)' /\ PhaseInv(n)'
    BY DEF Sampled
  <1>2. \A r \in Rows : RowOk(ids'[r], n)
    BY <1>1 DEF IdsInv, RowOk
  <1>3. \A r \in Rows : finished'[r] <=> Over(ids'[r], n)
    BY <1>1 DEF IdsInv
  <1>4. CASE pc' # "done"
    <2>1. out' = NoResult
      BY <1>1, <1>4 DEF PhaseInv
    <2> QED
      BY <1>2, <2>1 DEF SelectedFrom
  <1>5. CASE pc' = "done"
    <2>1. Returned(n)'
      BY <1>1, <1>5 DEF PhaseInv
    <2>2. SelectedFrom(out') \in {NoResult, SayAll(ids')}
      <3>1. /\ out'.ids = ids' /\ out'.len = n
            /\ \A r \in Rows : \A k \in 1 .. n :
                 out'.mask[r][k] = IF Over(ids'[r], k - 1) THEN 0 ELSE 1
        BY <2>1 DEF Returned
      <3> QED
        BY <1>2, <3>1, ResultIs
    <2>3. Sampling!Complete(SayAll(ids'))
      <3>1. n = MaxNew \/ \A r \in Rows : Over(ids'[r], n)
        BY <1>3, <2>1 DEF Returned, AllOver
      <3> QED
        BY <1>2, <3>1, CompleteIs
    <2> QED
      BY <1>2, <2>2, <2>3
  <1> QED
    BY <1>4, <1>5

\* The steps of the group sampling, in terms of what the rows say.
LEMMA AbstractSteps ==
  /\ \/ SayAll(ids') = SayAll(ids) /\ SelectedFrom(out') = SelectedFrom(out)
     \/ /\ SelectedFrom(out) = NoResult /\ Sampling!Complete(SayAll(ids))
        /\ SelectedFrom(out') = SayAll(ids) /\ SayAll(ids') = SayAll(ids)
     \/ /\ SelectedFrom(out) = NoResult /\ ~Sampling!Complete(SayAll(ids))
        /\ Advance(SayAll(ids), SayAll(ids'))
        /\ SelectedFrom(out') \in {NoResult, SayAll(ids')}
        /\ SelectedFrom(out') # NoResult => Sampling!Complete(SayAll(ids'))
  => [Sampling!Next]_Sampling!vars
  <1> DEFINE c == [r \in Rows |-> Cut(Completed(r))]
             res == IF out = NoResult THEN NoResult ELSE [r \in Rows |-> Selected(r)]
  <1>1. c = SayAll(ids) /\ res = SelectedFrom(out)
    BY MappedIs
  <1>2. c' = SayAll(ids') /\ res' = SelectedFrom(out')
    BY DEF Completed, SayAll, Say, WholeSay, Selected, SelectedFrom
  <1>3. [Sampling!Next]_Sampling!vars <=>
          \/ c' = c /\ res' = res
          \/ res = NoResult /\ Sampling!Complete(c) /\ res' = c /\ c' = c
          \/ /\ res = NoResult /\ ~Sampling!Complete(c)
             /\ Advance(c, c')
             /\ res' \in {NoResult, c'}
             /\ res' # NoResult => Sampling!Complete(c')
    BY DEF Sampling!Next, Sampling!vars, Sampling!Round, Sampling!Return, Advance
  <1> HIDE DEF c, res
  <1> QED
    BY <1>1, <1>2, <1>3

-----------------------------------------------------------------------------
(***************************************************************************)
(* The steps of the drivers as steps of the group sampling.                *)
(***************************************************************************)

\* A step of sampling is a round; or, behind the end of all rows, the result or nothing.
LEMMA SampleRefines ==
  ASSUME NEW n \in 0 .. MaxNew, Step(n), pc = "sample", pc' \in {"forward", "done"}
  PROVE  [Sampling!Next]_Sampling!vars
  <1>0. MaxNew \in Nat /\ n + 1 \in 0 .. MaxNew /\ Sampled(n) /\ Sampled(n + 1)'
    BY RolloutAssumption DEF Step
  <1>1. n < MaxNew /\ SelectedFrom(out) = NoResult
    <2>1. out = NoResult /\ n < MaxNew
      BY <1>0, AtSample
    <2> QED
      BY <2>1 DEF SelectedFrom
  <1>2. \A r \in Rows : RowOk(ids[r], n)
    BY <1>0, RowsOk DEF Sampled
  <1>3. /\ \A r \in Rows : RowOk(ids'[r], n + 1)
        /\ SelectedFrom(out') \in {NoResult, SayAll(ids')}
        /\ SelectedFrom(out') # NoResult => Sampling!Complete(SayAll(ids'))
    <2>1. PICK m \in 0 .. MaxNew : m = n + 1
      BY <1>0
    <2>2. Sampled(m)'
      BY <1>0, <2>1
    <2>3. pc' \in {"sample", "forward", "done"}
      OBVIOUS
    <2>4. /\ \A r \in Rows : RowOk(ids'[r], m)
          /\ SelectedFrom(out') \in {NoResult, SayAll(ids')}
          /\ SelectedFrom(out') # NoResult => Sampling!Complete(SayAll(ids'))
      BY <2>2, <2>3, ThenSaid
    <2> QED
      BY <2>1, <2>4
  <1>4. \A r \in Rows : Ext(ids[r], ids'[r], n)
    BY DEF Step
  <1>q. PICK q : q = ids
    OBVIOUS
  <1>t. PICK t : t = ids'
    OBVIOUS
  <1>5. /\ Advance(SayAll(q), SayAll(t))
        /\ (\A r \in Rows : Over(q[r], n)) => SayAll(t) = SayAll(q)
    BY <1>1, <1>2, <1>3, <1>4, <1>q, <1>t, RoundSays
  <1>6. Sampling!Complete(SayAll(q)) <=> (n = MaxNew \/ \A r \in Rows : Over(q[r], n))
    BY <1>2, <1>q, CompleteIs
  <1>7. CASE ~Sampling!Complete(SayAll(q))
    BY <1>1, <1>3, <1>5, <1>7, <1>q, <1>t, AbstractSteps
  <1>8. CASE Sampling!Complete(SayAll(q))
    <2>1. SayAll(t) = SayAll(q)
      BY <1>0, <1>1, <1>5, <1>6, <1>8
    <2> QED
      BY <1>1, <1>3, <1>8, <2>1, <1>q, <1>t, AbstractSteps
  <1> QED
    BY <1>7, <1>8

\* The static driver returns after one more forward.
LEMMA ForwardAtPosRefines ==
  ASSUME RolloutInv, ForwardAtPos
  PROVE  [Sampling!Next]_Sampling!vars
  <1>1. RolloutInv'
    BY ForwardAtPosKeeps
  <1>2. PICK n \in 0 .. MaxNew : Sampled(n)'
    BY <1>1 DEF RolloutInv
  <1>3. pc = "forward" /\ pc' \in {"sample", "forward", "done"} /\ ids' = ids
    BY DEF ForwardAtPos
  <1>4. /\ SelectedFrom(out') \in {NoResult, SayAll(ids')}
        /\ SelectedFrom(out') # NoResult => Sampling!Complete(SayAll(ids'))
    BY <1>2, <1>3, ThenSaid
  <1>5. SelectedFrom(out) = NoResult
    <2>1. PICK m \in 0 .. MaxNew : Sampled(m)
      BY DEF RolloutInv
    <2>2. out = NoResult
      BY <1>3, <2>1, AtForward
    <2> QED
      BY <2>2 DEF SelectedFrom
  <1> QED
    BY <1>3, <1>4, <1>5, AbstractSteps

\* A step that neither says nor returns anything.
LEMMA RestRefines ==
  ASSUME UNCHANGED <<ids, out>>
  PROVE  [Sampling!Next]_Sampling!vars
  BY AbstractSteps

\* At first no row has said anything, and there is no result.
LEMMA StartRefines ==
  ASSUME RolloutInit
  PROVE  Sampling!Init
  <1>1. IdsInv(0) /\ 0 \in 0 .. MaxNew
    BY IdsStart, RolloutAssumption
  <1>2. SayAll(ids) = [r \in Rows |-> <<>>]
    <2>1. ASSUME NEW r \in Rows PROVE Say(ids[r]) = <<>>
      <3>1. RowOk(ids[r], 0)
        BY <1>1, RowsOk
      <3>2. PICK m \in 0 .. 0 : Say(ids[r]) = Said(ids[r], m)
        BY <1>1, <3>1, SayIs
      <3>3. m = 0 /\ 0 \in Nat
        OBVIOUS
      <3>4. ~(Said(ids[r], 0) # <<>>)
        <4>1. PICK z \in Nat : z = 0
          OBVIOUS
        <4>2. Said(ids[r], z) # <<>> <=> z >= 1
          BY SaidHas
        <4> QED
          BY <4>1, <4>2
      <3> QED
        BY <3>2, <3>3, <3>4
    <2> QED
      BY <2>1 DEF SayAll
  <1>3. SelectedFrom(out) = NoResult
    BY DEF RolloutInit, SelectedFrom
  <1> QED
    BY <1>2, <1>3, MappedIs DEF Sampling!Init

\* Every driver is a group rollout: the rows grow together, each until its own end, nothing
\* is returned early, and what the mask selects from the result are the completions.
THEOREM RolloutsSample == Spec => IsGroupSampling
  <1>1. Init => Sampling!Init
    BY StartRefines DEF Init
  <1>2. RolloutInv /\ [Next]_vars => [Sampling!Next]_Sampling!vars
    <2> SUFFICES ASSUME RolloutInv, [Next]_vars PROVE [Sampling!Next]_Sampling!vars
      OBVIOUS
    <2>1. CASE SampleHost
      <3>1. pc = "sample" /\ pc' \in {"forward", "done"}
        BY <2>1 DEF SampleHost, Record
      <3> QED
        BY <2>1, <3>1, SampleHostKeeps, SampleRefines
    <2>2. CASE SampleShrunk
      <3>1. pc = "sample" /\ pc' \in {"forward", "done"}
        BY <2>2 DEF SampleShrunk, Record
      <3> QED
        BY <2>2, <3>1, SampleShrunkKeeps, SampleRefines
    <2>3. CASE SampleLoop
      <3>1. pc = "sample" /\ pc' \in {"forward", "done"}
        BY <2>3 DEF SampleLoop
      <3> QED
        BY <2>3, <3>1, SampleLoopKeeps, SampleRefines
    <2>4. CASE ForwardAtPos
      BY <2>4, ForwardAtPosRefines
    <2>5. CASE Prefill \/ ForwardWhole \/ ForwardCached \/ ForwardShrunk \/ ForwardLoop
      BY <2>5, RestRefines
         DEF Prefill, ForwardWhole, ForwardCached, ForwardShrunk, ForwardLoop
    <2>6. CASE Score \/ Logprobs \/ GrpoLoss
      BY <2>6, RestRefines DEF Score, Logprobs, GrpoLoss
    <2>7. CASE UNCHANGED vars
      BY <2>7, RestRefines DEF vars, rolloutVars
    <2> QED
      BY <2>1, <2>2, <2>3, <2>4, <2>5, <2>6, <2>7 DEF Next, RolloutNext
  <1> QED
    BY <1>1, <1>2, RolloutInvariance, PTL DEF Spec, IsGroupSampling, Sampling!Spec

-----------------------------------------------------------------------------
(***************************************************************************)
(* The trainer: sums, the recomputed log-probabilities, and its invariant. *)
(***************************************************************************)

\* What the rows earn adds up.
EarnedIn == [r \in Rows |-> Earned(r)]

\* Summing them by the operator or by the function is the same.
LEMMA EarnedSum ==
  ASSUME NEW S, S \subseteq Rows
  PROVE  MapThenSumSet(Earned, S) = SumOf(EarnedIn, S)
  <1> DEFINE A(f) == f = [s \in SUBSET S |-> IF s = {} THEN 0
                            ELSE Earned(CHOOSE x \in s : TRUE) + f[s \ {CHOOSE x \in s : TRUE}]]
             B(f) == f = [s \in SUBSET S |-> IF s = {} THEN 0
                            ELSE EarnedIn[CHOOSE x \in s : TRUE] + f[s \ {CHOOSE x \in s : TRUE}]]
  <1>1. MapThenSumSet(Earned, S) = (CHOOSE f : A(f))[S]
    BY DEF MapThenSumSet, MapThenFoldSet
  <1>2. SumOf(EarnedIn, S) = (CHOOSE f : B(f))[S]
    BY DEF SumOf, MapThenSumSet, MapThenFoldSet
  <1>3. ASSUME NEW f PROVE A(f) <=> B(f)
    <2>1. ASSUME NEW s \in SUBSET S, s # {}
          PROVE  Earned(CHOOSE x \in s : TRUE) = EarnedIn[CHOOSE x \in s : TRUE]
      <3>1. (CHOOSE x \in s : TRUE) \in Rows
        BY <2>1
      <3> QED
        BY <3>1 DEF EarnedIn
    <2> QED
      BY <2>1
  <1> HIDE DEF A, B
  <1>4. (CHOOSE f : A(f)) = (CHOOSE f : B(f))
    BY <1>3
  <1> QED
    BY <1>1, <1>2, <1>4

\* The unmasked tokens add up.
UnmaskedIn == [r \in Rows |-> Cardinality(Unmasked(r))]

\* So do they by the operator.
LEMMA UnmaskedSum ==
  MapThenSumSet(LAMBDA r : Cardinality(Unmasked(r)), Rows) = SumOf(UnmaskedIn, Rows)
  <1> DEFINE A(f) == f = [s \in SUBSET Rows |-> IF s = {} THEN 0
                            ELSE Cardinality(Unmasked(CHOOSE x \in s : TRUE))
                                   + f[s \ {CHOOSE x \in s : TRUE}]]
             B(f) == f = [s \in SUBSET Rows |-> IF s = {} THEN 0
                            ELSE UnmaskedIn[CHOOSE x \in s : TRUE] + f[s \ {CHOOSE x \in s : TRUE}]]
  <1>1. MapThenSumSet(LAMBDA r : Cardinality(Unmasked(r)), Rows)
           = (CHOOSE f : A(f))[Rows]
    BY DEF MapThenSumSet, MapThenFoldSet
  <1>2. SumOf(UnmaskedIn, Rows) = (CHOOSE f : B(f))[Rows]
    BY DEF SumOf, MapThenSumSet, MapThenFoldSet
  <1>3. ASSUME NEW f PROVE A(f) <=> B(f)
    <2>1. ASSUME NEW s \in SUBSET Rows, s # {}
          PROVE  Cardinality(Unmasked((CHOOSE x \in s : TRUE))) = UnmaskedIn[CHOOSE x \in s : TRUE]
      <3>1. (CHOOSE x \in s : TRUE) \in Rows
        BY <2>1
      <3> QED
        BY <3>1 DEF UnmaskedIn
    <2> QED
      BY <2>1
  <1> HIDE DEF A, B
  <1>4. (CHOOSE f : A(f)) = (CHOOSE f : B(f))
    BY <1>3
  <1> QED
    BY <1>1, <1>2, <1>4

\* The lengths of the completions add up.
LengthIn == [r \in Rows |-> Len(Cut(Completed(r)))]

\* So do they by the operator.
LEMMA LengthSum ==
  MapThenSumSet(LAMBDA r : Len(Cut(Completed(r))), Rows) = SumOf(LengthIn, Rows)
  <1> DEFINE A(f) == f = [s \in SUBSET Rows |-> IF s = {} THEN 0
                            ELSE Len(Cut(Completed(CHOOSE x \in s : TRUE)))
                                   + f[s \ {CHOOSE x \in s : TRUE}]]
             B(f) == f = [s \in SUBSET Rows |-> IF s = {} THEN 0
                            ELSE LengthIn[CHOOSE x \in s : TRUE] + f[s \ {CHOOSE x \in s : TRUE}]]
  <1>1. MapThenSumSet(LAMBDA r : Len(Cut(Completed(r))), Rows)
           = (CHOOSE f : A(f))[Rows]
    BY DEF MapThenSumSet, MapThenFoldSet
  <1>2. SumOf(LengthIn, Rows) = (CHOOSE f : B(f))[Rows]
    BY DEF SumOf, MapThenSumSet, MapThenFoldSet
  <1>3. ASSUME NEW f PROVE A(f) <=> B(f)
    <2>1. ASSUME NEW s \in SUBSET Rows, s # {}
          PROVE  Len(Cut(Completed((CHOOSE x \in s : TRUE)))) = LengthIn[CHOOSE x \in s : TRUE]
      <3>1. (CHOOSE x \in s : TRUE) \in Rows
        BY <2>1
      <3> QED
        BY <3>1 DEF LengthIn
    <2> QED
      BY <2>1
  <1> HIDE DEF A, B
  <1>4. (CHOOSE f : A(f)) = (CHOOSE f : B(f))
    BY <1>3
  <1> QED
    BY <1>1, <1>2, <1>4

\* The loss of the step, over functions.
LossTerms ==
  [terms |-> [r \in Rows |-> [k \in Unmasked(r) |->
     [ratio |-> <<logpPi[r][k], out.logp[r][k]>>, kl |-> <<logpPi[r][k], logpRef[r][k]>>,
      advantage |-> shape.g * rewards[r] - SumOf(rewards, Group(r))]]],
   token_global |-> AtLeastOne(SumOf([r \in Rows |-> Cardinality(Unmasked(r))], Rows)),
   seq_mean |-> [r \in Rows |-> SeqMean(r)]]

\* What the trainer has computed belongs to the result.
Paid(r)    == rewards[r] = Fraction(r) \/ (r \in Broken /\ rewards[r] = 0)
Fair(r, k) == logpPi[r][k] = Honest(r, k) /\ logpRef[r][k] = Honest(r, k)
TrainerInv ==
  /\ pc \in {"scored", "lossy", "trained"} /\ driver \in TrainerDrivers =>
       \A r \in Rows : Paid(r)
  /\ IF pc \in {"lossy", "trained"}
     THEN \A r \in Rows : \A k \in 1 .. out.len : Fair(r, k)
     ELSE logpPi = NoResult
  /\ IF pc = "trained" THEN driver \in TrainerDrivers /\ loss = LossTerms
     ELSE loss = NoResult

GrpoInv == RolloutInv /\ TrainerInv

\* A column and its predecessors, numbered behind the padding.
FullFed(s, pad, total) ==
  [k \in 1 .. total |-> <<s[k], IF k > pad THEN k - pad - 1 ELSE 0>>]
FullMask(pad, total) == [k \in 1 .. total |-> k > pad]

\* The context that the logits of a column of the finished sequence are computed from.
LEMMA RecomputedIs ==
  ASSUME NEW s, NEW pad \in Nat, NEW total \in Nat, NEW M \in Nat, pad < M, M <= total
  PROVE  Context(SubSeq(FullFed(s, pad, total), 1, M), SubSeq(FullMask(pad, total), 1, M))
           = Seen(s, pad, M)
  <1>f. PICK F : F = FullFed(s, pad, total)
    OBVIOUS
  <1>m. PICK R : R = FullMask(pad, total)
    OBVIOUS
  <1>u. PICK fed : fed = SubSeq(F, 1, M)
    OBVIOUS
  <1>v. PICK real : real = SubSeq(R, 1, M)
    OBVIOUS
  <1>0. PICK a \in Nat : a = 0
    OBVIOUS
  <1>1. fed = [i \in 1 .. M - a |-> F[a + i]]
    <2>1. SubSeq(F, a + 1, M) = [i \in 1 .. M - a |-> F[a + i]]
      BY SubSeqIs
    <2>2. a + 1 = 1
      BY <1>0
    <2> QED
      BY <2>1, <2>2, <1>u
  <1>2. real = [i \in 1 .. M - a |-> R[a + i]]
    <2>1. SubSeq(R, a + 1, M) = [i \in 1 .. M - a |-> R[a + i]]
      BY SubSeqIs
    <2>2. a + 1 = 1
      BY <1>0
    <2> QED
      BY <2>1, <2>2, <1>v
  <1>3. M - a = M /\ \A i \in 1 .. M : a + i = i /\ i \in 1 .. total
    BY <1>0
  <1>4. IsRow(fed, M)
    BY <1>1, <1>3 DEF IsRow
  <1>5. ASSUME NEW k \in 1 .. M PROVE real[k] <=> k > pad
    <2>1. real[k] = R[k]
      BY <1>2, <1>3
    <2>2. R[k] = (k > pad)
      BY <1>3, <1>m DEF FullMask
    <2> QED
      BY <2>1, <2>2
  <1>6. ASSUME NEW k \in pad + 1 .. M PROVE fed[k] = <<s[k], k - pad - 1>>
    <2>1. k \in 1 .. M /\ k > pad
      OBVIOUS
    <2>2. fed[k] = F[k]
      BY <1>1, <1>3, <2>1
    <2>3. F[k] = <<s[k], IF k > pad THEN k - pad - 1 ELSE 0>>
      BY <1>3, <1>f, <2>1 DEF FullFed
    <2> QED
      BY <2>1, <2>2, <2>3
  <1>7. Context(fed, real) = Seen(s, pad, M)
    <2>1. Padded(fed, real, s, pad, M)
      BY <1>4, <1>5, <1>6 DEF Padded
    <2> QED
      BY <2>1, ContextIs
  <1> QED
    BY <1>7, <1>f, <1>m, <1>u, <1>v

\* The recomputed log-probabilities are those of the rows' own contexts.
LEMMA LogprobsAre ==
  ASSUME ShapeInv, NEW n \in 0 .. MaxNew, NEW r \in Rows, NEW k \in 1 .. n
  PROVE  CompletionLogprobs(ids, n)[r][k] = Honest(r, k)
  <1>0. Lp \in Nat \ {0} /\ n \in Nat /\ PadLen(r) \in 0 .. Lp - 1
    BY PromptIn, RolloutAssumption
  <1>1. PICK pad \in Nat : pad = PadLen(r)
    BY <1>0
  <1>2. PICK M \in Nat : M = Lp + k - 1
    BY <1>0
  <1>3. PICK total \in Nat : total = Lp + n
    BY <1>0
  <1>4. pad < M /\ M <= total
    BY <1>0, <1>1, <1>2, <1>3
  <1>5. FullReal(r, Lp + n) = FullMask(pad, total)
    BY <1>1, <1>3 DEF FullReal, FullMask
  <1>6. [c \in 1..Lp+n |-> <<ids[r][c], FullPositions(r, Lp + n)[c]>>] = FullFed(ids[r], pad, total)
    BY <1>1, <1>3 DEF FullFed, FullPositions
  <1>7. CompletionLogprobs(ids, n)[r][k] =
          <<Context(SubSeq([c \in 1..Lp+n |-> <<ids[r][c], FullPositions(r, Lp + n)[c]>>], 1, M),
                    SubSeq(FullReal(r, Lp + n), 1, M)), ids[r][Lp + k]>>
    BY <1>2 DEF CompletionLogprobs, TokenLogprob, LogitsColumn
  <1>8. Context(SubSeq(FullFed(ids[r], pad, total), 1, M), SubSeq(FullMask(pad, total), 1, M))
          = Seen(ids[r], pad, M)
    BY <1>4, RecomputedIs
  <1> QED
    BY <1>1, <1>2, <1>5, <1>6, <1>7, <1>8 DEF Honest

\* The unmasked tokens are those up to the row's end.
LEMMA UnmaskedIs ==
  ASSUME RolloutInv, pc \in Later, NEW r \in Rows
  PROVE  \E n \in 0 .. MaxNew, m \in Nat :
           /\ Returned(n) /\ out.len = n /\ out.ids = ids /\ n \in Nat /\ m \in 1 .. n
           /\ Unmasked(r) = 1 .. m
           /\ Completed(r) = Said(ids[r], n)
           /\ Cut(Completed(r)) = Said(ids[r], m)
  <1>1. PICK n \in 0 .. MaxNew : Sampled(n)
    BY DEF RolloutInv
  <1>2. Returned(n) /\ IdsInv(n) /\ ShapeInv
    BY <1>1 DEF RolloutInv, Sampled, PhaseInv, Later
  <1>3. PICK m \in 0 .. n : /\ Completed(r) = Said(ids[r], n) /\ CutAt(ids[r], n, m)
                            /\ Cut(Completed(r)) = Said(ids[r], m)
    BY <1>2, CompletionsAre
  <1>4. n \in Nat /\ n >= 1 /\ MaxNew \in Nat
    BY <1>2, RolloutAssumption DEF Returned
  <1>5. \A k \in 1 .. n : k <= m <=> ~Over(ids[r], k - 1)
    BY <1>3 DEF CutAt
  <1>6. m \in 1 .. n /\ m \in Nat
    <2>1. ~Over(ids[r], 0)
      BY DEF Over
    <2>2. 1 \in 1 .. n /\ 1 - 1 = 0
      BY <1>4
    <2>3. 1 <= m
      BY <1>5, <2>1, <2>2
    <2> QED
      BY <1>4, <2>3
  <1>7. Unmasked(r) = 1 .. m
    <2>1. ASSUME NEW k \in 1 .. n PROVE out.mask[r][k] = 1 <=> k \in 1 .. m
      <3>1. k <= m <=> k \in 1 .. m
        BY <1>6
      <3>2. out.mask[r][k] = IF Over(ids[r], k - 1) THEN 0 ELSE 1
        BY <1>2 DEF Returned
      <3> QED
        BY <1>5, <3>1, <3>2
    <2>2. \A k \in 1 .. m : k \in 1 .. n
      BY <1>4, <1>6
    <2>3. out.len = n
      BY <1>2 DEF Returned
    <2> QED
      BY <2>1, <2>2, <2>3 DEF Unmasked
  <1> QED
    BY <1>2, <1>3, <1>4, <1>6, <1>7 DEF Returned

\* 1 up to a number are as many.
LEMMA CountIs ==
  ASSUME NEW m \in Nat
  PROVE  IsFiniteSet(1 .. m) /\ Cardinality(1 .. m) = m
  <1>1. PICK a \in Nat : a = 0
    OBVIOUS
  <1>2. Cardinality(a + 1 .. a + m) = m /\ IsFiniteSet(a + 1 .. a + m)
    BY AscendingRow, FS_Interval
  <1>3. a + 1 .. a + m = 1 .. m
    BY <1>1
  <1> QED
    BY <1>2, <1>3

\* A completion's share is that of its unmasked tokens, and a number.
LEMMA FractionIs ==
  ASSUME RolloutInv, pc \in Later, NEW r \in Rows
  PROVE  Fraction(r) = Deserved(r) /\ Fraction(r) \in Nat
  <1>1. PICK n \in 0 .. MaxNew, m \in Nat :
           /\ out.len = n /\ out.ids = ids /\ n \in Nat /\ m \in 1 .. n
           /\ Unmasked(r) = 1 .. m
           /\ Cut(Completed(r)) = Said(ids[r], m)
    BY UnmaskedIs
  <1> DEFINE hits == {k \in 1 .. m : ids[r][Lp + k] \in Better}
  <1>2. IsFiniteSet(1 .. m) /\ Cardinality(1 .. m) = m /\ 1 .. m # {} /\ m >= 1
    <2>1. m >= 1 /\ 1 \in 1 .. m
      BY <1>1
    <2>2. IsFiniteSet(1 .. m) /\ Cardinality(1 .. m) = m
      BY <1>1, CountIs
    <2> QED
      BY <2>1, <2>2
  <1>3. Cardinality(hits) \in Nat
    BY <1>2, FS_Subset, FS_CardinalityType
  <1>4. {k \in 1..out.len : out.mask[r][k] = 1} = 1 .. m
    BY <1>1 DEF Unmasked
  <1>5. Fraction(r) = (Whole * Cardinality(hits)) \div m
    BY <1>1, <1>2, <1>4 DEF Fraction
  <1>6. Deserved(r) = (Whole * Cardinality(hits)) \div m
    <2>1. IsRow(Said(ids[r], m), m) /\ \A k \in 1 .. m : Said(ids[r], m)[k] = ids[r][Lp + k]
      BY <1>1, SaidHas
    <2>2. PICK c : c = Said(ids[r], m)
      OBVIOUS
    <2>3. DOMAIN c = 1 .. m /\ Len(c) = m
      BY <1>1, <2>1, <2>2, RowHas
    <2>4. {k \in DOMAIN c : c[k] \in Better} = hits
      BY <2>1, <2>2, <2>3
    <2> HIDE DEF hits
    <2> QED
      BY <1>1, <2>2, <2>3, <2>4 DEF Deserved
  <1> HIDE DEF hits
  <1>7. (Whole * Cardinality(hits)) \div m \in Nat
    <2>1. Whole * Cardinality(hits) \in Nat
      BY <1>3, GrpoStepAssumption
    <2>2. \A x \in Nat : x \div m \in Nat
      BY <1>1, <1>2
    <2> QED
      BY <2>1, <2>2
  <1> QED
    BY <1>5, <1>6, <1>7

\* Scoring pays each row for its own completion, or nothing where its harness failed.
LEMMA ScoreKeeps ==
  ASSUME RolloutInv, TrainerInv, Score
  PROVE  TrainerInv'
  <1>1. /\ pc = "done" /\ pc' = "scored"
        /\ UNCHANGED <<driver, shape, ids, out, logpPi, logpRef, loss>>
    BY DEF Score
  <1>2. PICK children \in Children : rewards' = Sanitized(ScoreBatch(children))
    BY DEF Score
  <1>3. ASSUME NEW r \in Rows PROVE Paid(r)'
    <2>1. Fraction(r)' = Fraction(r) /\ Fraction(r) \in Nat
      BY <1>1, FractionIs DEF Later, Fraction
    <2>2. children[r] \in {"score", "nan", "fail"} /\ (children[r] # "score" => r \in Broken)
      BY DEF Children
    <2>3. rewards'[r] = IF ScoreOne(r, children[r]) = NaN THEN 0 ELSE ScoreOne(r, children[r])
      BY <1>2 DEF Sanitized, ScoreBatch
    <2>4. CASE children[r] = "score"
      <3>1. ScoreOne(r, children[r]) = Fraction(r) /\ Fraction(r) # NaN
        BY <2>1, <2>4, GrpoStepAssumption DEF ScoreOne
      <3> QED
        BY <2>1, <2>3, <3>1 DEF Paid
    <2>5. CASE children[r] # "score"
      <3>1. ScoreOne(r, children[r]) \in {NaN, 0}
        BY <2>2, <2>5 DEF ScoreOne
      <3>2. rewards'[r] = 0
        BY <2>3, <3>1
      <3> QED
        BY <2>2, <2>5, <3>2 DEF Paid
    <2> QED
      BY <2>4, <2>5
  <1> QED
    BY <1>1, <1>3 DEF TrainerInv

\* Both models recompute the log-probabilities from the rows' own contexts.
LEMMA LogprobsKeeps ==
  ASSUME RolloutInv, TrainerInv, Logprobs
  PROVE  TrainerInv'
  <1>1. /\ pc \in {"done", "scored"} /\ pc' = "lossy"
        /\ (driver \in TrainerDrivers => pc = "scored")
        /\ UNCHANGED <<driver, shape, ids, out, rewards, loss>>
        /\ logpRef' = CompletionLogprobs(out.ids, out.len)
        /\ logpPi' = CompletionLogprobs(out.ids, out.len)
    BY DEF Logprobs
  <1>2. PICK n \in 0 .. MaxNew : Sampled(n)
    BY DEF RolloutInv
  <1>3. Returned(n) /\ ShapeInv
    BY <1>1, <1>2 DEF RolloutInv, Sampled, PhaseInv
  <1>4. out.ids = ids /\ out.len = n
    BY <1>3 DEF Returned
  <1>5. ASSUME NEW r \in Rows, NEW k \in 1 .. out'.len PROVE Fair(r, k)'
    <2>1. CompletionLogprobs(ids, n)[r][k] = Honest(r, k)
      BY <1>1, <1>3, <1>4, LogprobsAre
    <2>2. Honest(r, k)' = Honest(r, k)
      BY <1>1 DEF Honest, PadLen, Prompt
    <2> QED
      BY <1>1, <1>4, <2>1, <2>2 DEF Fair
  <1>6. \A r \in Rows : Fraction(r)' = Fraction(r)
    BY <1>1 DEF Fraction
  <1>7. ASSUME driver' \in TrainerDrivers, NEW r \in Rows PROVE Paid(r)'
    <2>1. Paid(r)
      BY <1>1, <1>7 DEF TrainerInv
    <2> QED
      BY <1>1, <1>6, <2>1 DEF Paid
  <1>8. pc # "trained" /\ pc' # "trained" /\ loss = NoResult
    BY <1>1 DEF TrainerInv
  <1> QED
    BY <1>1, <1>5, <1>7, <1>8 DEF TrainerInv

\* The trainer's part does not depend on the rest.
LEMMA TermsSame ==
  ASSUME UNCHANGED <<shape, ids, out, rewards, logpPi, logpRef>>
  PROVE  /\ \A r : Paid(r)' <=> Paid(r)
         /\ \A r, k : Fair(r, k)' <=> Fair(r, k)
         /\ LossTerms' = LossTerms
  <1>1. \A r : Fraction(r)' = Fraction(r)
    BY DEF Fraction
  <1>2. \A r, k : Honest(r, k)' = Honest(r, k)
    BY DEF Honest, PadLen, Prompt
  <1>3. \A r : Unmasked(r)' = Unmasked(r) /\ Group(r)' = Group(r) /\ SeqMean(r)' = SeqMean(r)
    BY DEF Unmasked, Group, SeqMean
  <1>4. \A r : Paid(r)' <=> Paid(r)
    BY <1>1 DEF Paid
  <1>5. \A r, k : Fair(r, k)' <=> Fair(r, k)
    BY <1>2 DEF Fair
  <1>6. LossTerms' = LossTerms
    BY <1>3 DEF LossTerms
  <1> QED
    BY <1>4, <1>5, <1>6

\* The loss is taken over the unmasked tokens.
LEMMA GrpoLossKeeps ==
  ASSUME RolloutInv, TrainerInv, GrpoLoss
  PROVE  TrainerInv'
  <1>1. /\ pc = "lossy" /\ pc' = "trained" /\ driver \in TrainerDrivers
        /\ UNCHANGED <<driver, shape, ids, out, rewards, logpPi, logpRef>>
    BY DEF GrpoLoss
  <1>2. loss' = LossTerms
    <2>1. TokenGlobal = AtLeastOne(SumOf([r \in Rows |-> Cardinality(Unmasked(r))], Rows))
      BY UnmaskedSum DEF TokenGlobal, UnmaskedIn
    <2>2. \A r \in Rows : \A k \in Unmasked(r) : Term(r, k) =
             [ratio |-> <<logpPi[r][k], out.logp[r][k]>>, kl |-> <<logpPi[r][k], logpRef[r][k]>>,
              advantage |-> shape.g * rewards[r] - SumOf(rewards, Group(r))]
      BY DEF Term, GroupNormAdvantage, Total, SumOf
    <2>3. loss' = [terms |-> [r \in Rows |-> [k \in Unmasked(r) |-> Term(r, k)]],
                   token_global |-> TokenGlobal,
                   seq_mean |-> [r \in Rows |-> SeqMean(r)]]
      BY DEF GrpoLoss
    <2> QED
      BY <2>1, <2>2, <2>3 DEF LossTerms
  <1>3. LossTerms' = LossTerms /\ \A r \in Rows : Paid(r) /\ Paid(r)'
    BY <1>1, TermsSame DEF TrainerInv
  <1>4. \A r \in Rows : \A k \in 1 .. out'.len : Fair(r, k)'
    BY <1>1, TermsSame DEF TrainerInv
  <1> QED
    BY <1>1, <1>2, <1>3, <1>4 DEF TrainerInv

-----------------------------------------------------------------------------
(***************************************************************************)
(* The ratio and the loss.                                                 *)
(***************************************************************************)

\* The steps of a rollout leave the trainer alone.
LEMMA RolloutLeaves ==
  ASSUME RolloutInv, TrainerInv, RolloutNext, UNCHANGED trainerVars
  PROVE  TrainerInv'
  <1>1. pc \in {"prefill", "forward", "sample"} /\ pc' \in {"sample", "forward", "done"}
    BY DEF RolloutNext, Prefill, ForwardWhole, ForwardCached, ForwardShrunk, ForwardLoop,
           ForwardAtPos, SampleHost, SampleShrunk, Record, SampleLoop
  <1>2. logpPi = NoResult /\ loss = NoResult
    BY <1>1 DEF TrainerInv
  <1>3. logpPi' = NoResult /\ loss' = NoResult
    BY <1>2 DEF trainerVars
  <1> QED
    BY <1>1, <1>3 DEF TrainerInv

\* The trainer's part of the invariant.
THEOREM TrainerInvariance == Spec => []GrpoInv
  <1>1. Init => TrainerInv
    <2> SUFFICES ASSUME Init PROVE TrainerInv
      OBVIOUS
    <2>1. pc \in {"prefill", "forward"} /\ logpPi = NoResult /\ loss = NoResult
      BY DEF Init, RolloutInit
    <2> QED
      BY <2>1 DEF TrainerInv
  <1>2. RolloutInv /\ TrainerInv /\ [Next]_vars => TrainerInv'
    <2> SUFFICES ASSUME RolloutInv, TrainerInv, [Next]_vars PROVE TrainerInv'
      OBVIOUS
    <2>1. CASE RolloutNext /\ UNCHANGED trainerVars
      BY <2>1, RolloutLeaves
    <2>2. CASE Score
      BY <2>2, ScoreKeeps
    <2>3. CASE Logprobs
      BY <2>3, LogprobsKeeps
    <2>4. CASE GrpoLoss
      BY <2>4, GrpoLossKeeps
    <2>5. CASE UNCHANGED vars
      <3>1. UNCHANGED <<pc, driver, shape, ids, out, rewards, logpPi, logpRef, loss>>
        BY <2>5 DEF vars, rolloutVars
      <3> QED
        BY <3>1, TermsSame DEF TrainerInv
    <2> QED
      BY <2>1, <2>2, <2>3, <2>4, <2>5 DEF Next
  <1> QED
    BY <1>1, <1>2, RolloutInvariance, PTL DEF Spec, GrpoInv

\* At the first optimizer step the ratio of every unmasked token is 1: what the trainer
\* recomputes is what the driver recorded, whatever the driver.
THEOREM RatiosAreOne == Spec => []RatioIsOne
  <1>1. GrpoInv => RatioIsOne
    <2> SUFFICES ASSUME GrpoInv, logpPi # NoResult, NEW r \in Rows, NEW k \in 1..out.len,
                        out.mask[r][k] = 1
                 PROVE  logpPi[r][k] = out.logp[r][k]
      BY DEF RatioIsOne
    <2>1. pc \in {"lossy", "trained"} /\ Fair(r, k)
      BY DEF GrpoInv, TrainerInv
    <2>2. PICK n \in 0 .. MaxNew : Sampled(n)
      BY DEF GrpoInv, RolloutInv
    <2>3. Returned(n)
      BY <2>1, <2>2 DEF Sampled, PhaseInv
    <2>4. k \in 1 .. n
      BY <2>3 DEF Returned
    <2>5. ~Over(ids[r], k - 1)
      BY <2>3, <2>4 DEF Returned
    <2>6. out.logp[r][k] = Honest(r, k)
      BY <2>3, <2>4, <2>5 DEF Returned
    <2> QED
      BY <2>1, <2>6 DEF Fair
  <1> QED
    BY <1>1, TrainerInvariance, PTL

\* What a row earns is its reward.
LEMMA EarnedIs ==
  ASSUME RolloutInv, pc \in Later, NEW r \in Rows, Paid(r)
  PROVE  Earned(r) = rewards[r]
  BY FractionIs DEF Earned, Paid

\* The rows of a group are those of the prompt.
LEMMA MatesAre ==
  ASSUME ShapeInv, NEW r \in Rows
  PROVE  Mates(r) = Group(r)
  <1>1. ASSUME NEW q \in Rows
        PROVE  Prompt(q) = Prompt(r) <=> (q - 1) \div shape.g = (r - 1) \div shape.g
    <2>1. shape.g \in Nat \ {0} /\ q - 1 \in Int /\ r - 1 \in Int
      BY DEF ShapeInv, Rows
    <2>2. (q - 1) \div shape.g \in Int /\ (r - 1) \div shape.g \in Int
      BY <2>1
    <2> QED
      BY <2>2 DEF Prompt
  <1> QED
    BY <1>1 DEF Mates, Group

\* The loss is what the completions and their rewards make it.
LEMMA LossIs ==
  ASSUME GrpoInv
  PROVE  LossExact
  <1> SUFFICES ASSUME loss # NoResult
               PROVE  /\ \A r \in Rows :
                           /\ DOMAIN loss.terms[r] = DOMAIN Cut(Completed(r))
                           /\ \A k \in DOMAIN loss.terms[r] :
                                /\ loss.terms[r][k].kl[1] = <<Ideal(r, k), Completed(r)[k]>>
                                /\ loss.terms[r][k].advantage =
                                     shape.g * Earned(r) - MapThenSumSet(Earned, Mates(r))
                           /\ loss.seq_mean[r] = N * Len(Cut(Completed(r)))
                      /\ loss.token_global = MapThenSumSet(LAMBDA r : Len(Cut(Completed(r))), Rows)
    BY DEF LossExact
  <1>1. /\ pc = "trained" /\ driver \in TrainerDrivers /\ loss = LossTerms /\ RolloutInv
        /\ pc \in Later /\ ShapeInv
        /\ \A r \in Rows : Paid(r)
        /\ \A r \in Rows : \A k \in 1 .. out.len : Fair(r, k)
    BY DEF GrpoInv, TrainerInv, Later, RolloutInv
  <1>2. ASSUME NEW r \in Rows
        PROVE  /\ DOMAIN loss.terms[r] = Unmasked(r)
               /\ \A k \in Unmasked(r) :
                    /\ loss.terms[r][k].kl[1] = logpPi[r][k]
                    /\ loss.terms[r][k].advantage
                         = shape.g * rewards[r] - SumOf(rewards, Group(r))
               /\ loss.seq_mean[r] = SeqMean(r)
    <2>1. /\ loss.terms[r] = [k \in Unmasked(r) |->
               [ratio |-> <<logpPi[r][k], out.logp[r][k]>>,
                kl |-> <<logpPi[r][k], logpRef[r][k]>>,
                advantage |-> shape.g * rewards[r] - SumOf(rewards, Group(r))]]
          /\ loss.seq_mean[r] = SeqMean(r)
      BY <1>1 DEF LossTerms
    <2>2. PICK row : row = loss.terms[r]
      OBVIOUS
    <2>3. DOMAIN row = Unmasked(r) /\ \A k \in Unmasked(r) :
             row[k] = [ratio |-> <<logpPi[r][k], out.logp[r][k]>>,
                       kl |-> <<logpPi[r][k], logpRef[r][k]>>,
                       advantage |-> shape.g * rewards[r] - SumOf(rewards, Group(r))]
      BY <2>1, <2>2
    <2>4. \A k \in Unmasked(r) :
            /\ row[k].kl[1] = logpPi[r][k]
            /\ row[k].advantage = shape.g * rewards[r] - SumOf(rewards, Group(r))
      BY <2>3
    <2> QED
      BY <2>1, <2>2, <2>3, <2>4
  <1>3. \A r \in Rows : Earned(r) = rewards[r]
    BY <1>1, EarnedIs
  <1>4. ASSUME NEW r \in Rows
        PROVE  /\ Cardinality(Unmasked(r)) = Len(Cut(Completed(r)))
               /\ Len(Cut(Completed(r))) \in Nat /\ Len(Cut(Completed(r))) >= 1
    <2>1. PICK n \in 0 .. MaxNew, m \in Nat :
            /\ m \in 1 .. n /\ Unmasked(r) = 1 .. m /\ Cut(Completed(r)) = Said(ids[r], m)
      BY <1>1, UnmaskedIs
    <2>2. Len(Said(ids[r], m)) = m /\ Cardinality(1 .. m) = m
      BY SaidHas, CountIs
    <2>3. m >= 1
      BY <2>1
    <2> QED
      BY <2>1, <2>2, <2>3
  <1>5. ASSUME NEW r \in Rows PROVE loss.seq_mean[r] = N * Len(Cut(Completed(r)))
    <2>1. loss.seq_mean[r] = N * AtLeastOne(Len(Cut(Completed(r))))
      BY <1>2, <1>4 DEF SeqMean
    <2>2. AtLeastOne(Len(Cut(Completed(r)))) = Len(Cut(Completed(r)))
      BY <1>4 DEF AtLeastOne
    <2> QED
      BY <2>1, <2>2
  <1>6. ASSUME NEW r \in Rows
        PROVE  DOMAIN loss.terms[r] = DOMAIN Cut(Completed(r))
    <2>1. PICK n \in 0 .. MaxNew, m \in Nat :
            Unmasked(r) = 1 .. m /\ Cut(Completed(r)) = Said(ids[r], m)
      BY <1>1, UnmaskedIs
    <2>2. DOMAIN Said(ids[r], m) = 1 .. m
      BY DEF Said
    <2> QED
      BY <1>2, <2>1, <2>2
  <1>7. ASSUME NEW r \in Rows, NEW k \in DOMAIN loss.terms[r]
        PROVE  loss.terms[r][k].kl[1] = <<Ideal(r, k), Completed(r)[k]>>
    <2>1. PICK n \in 0 .. MaxNew, m \in Nat :
            /\ out.len = n /\ n \in Nat /\ m \in 1 .. n /\ Unmasked(r) = 1 .. m
            /\ Completed(r) = Said(ids[r], n)
      BY <1>1, UnmaskedIs
    <2>2. k \in 1 .. m /\ k \in Unmasked(r)
      BY <1>2, <1>7, <2>1
    <2>3. k \in 1 .. n /\ k \in Nat \ {0}
      BY <2>1, <2>2
    <2>4. loss.terms[r][k].kl[1] = logpPi[r][k]
      BY <1>2, <2>2
    <2>5. logpPi[r][k] = Honest(r, k)
      BY <1>1, <2>1, <2>3 DEF Fair
    <2>6. Ideal(r, k) = Seen(ids[r], PadLen(r), Lp + k - 1)
      BY <1>1, <2>3, IdealIs
    <2>7. Completed(r)[k] = ids[r][Lp + k]
      BY <2>1, <2>3 DEF Said
    <2> QED
      BY <2>4, <2>5, <2>6, <2>7 DEF Honest
  <1>8. ASSUME NEW r \in Rows
        PROVE  SumOf(rewards, Group(r)) = MapThenSumSet(Earned, Mates(r))
    <2>1. Mates(r) = Group(r) /\ Group(r) \subseteq Rows
      BY <1>1, MatesAre DEF Group
    <2>2. MapThenSumSet(Earned, Group(r)) = SumOf(EarnedIn, Group(r))
      BY <2>1, EarnedSum
    <2>3. SumOf(EarnedIn, Group(r)) = SumOf(rewards, Group(r))
      <3>1. \A q \in Group(r) : EarnedIn[q] = rewards[q]
        BY <1>3, <2>1 DEF EarnedIn
      <3> QED
        BY <3>1, SumSame
    <2> QED
      BY <2>1, <2>2, <2>3
  <1>9. ASSUME NEW r \in Rows, NEW k \in DOMAIN loss.terms[r]
        PROVE  loss.terms[r][k].advantage = shape.g * Earned(r) - MapThenSumSet(Earned, Mates(r))
    <2>a. k \in Unmasked(r)
      BY <1>2, <1>9
    <2>1. loss.terms[r][k].advantage = shape.g * rewards[r] - SumOf(rewards, Group(r))
      BY <1>2, <2>a
    <2> QED
      BY <1>3, <1>8, <2>1
  <1>10. loss.token_global = MapThenSumSet(LAMBDA r : Len(Cut(Completed(r))), Rows)
    <2>1. loss.token_global = AtLeastOne(SumOf(LengthIn, Rows))
      <3>1. [r \in Rows |-> Cardinality(Unmasked(r))] = LengthIn
        BY <1>4 DEF LengthIn
      <3> QED
        BY <1>1, <3>1 DEF LossTerms
    <2>2. SumOf(LengthIn, Rows) \in Nat /\ SumOf(LengthIn, Rows) >= 1
      <3>1. LengthIn \in [Rows -> Nat] /\ 1 \in Rows /\ LengthIn[1] >= 1 /\ LengthIn[1] \in Nat
        <4>1. 1 \in Rows
          BY RolloutAssumption DEF Rows
        <4> QED
          BY <1>4, <4>1 DEF LengthIn
      <3>2. IsFiniteSet(Rows)
        BY CountIs, RolloutAssumption DEF Rows
      <3>3. SumOf(LengthIn, Rows) \in Nat /\ LengthIn[1] <= SumOf(LengthIn, Rows)
        BY <3>1, <3>2, SumAtLeast
      <3> QED
        BY <3>1, <3>3
    <2>3. loss.token_global = SumOf(LengthIn, Rows)
      BY <2>1, <2>2 DEF AtLeastOne
    <2> QED
      BY <2>3, LengthSum
  <1> QED
    BY <1>5, <1>6, <1>7, <1>9, <1>10

\* The loss has one term per unmasked token, with its own log-probability and the advantage
\* of its completion in its group, and counts the tokens once.
THEOREM LossesAreExact == Spec => []LossExact
  BY TrainerInvariance, LossIs, PTL
-----------------------------------------------------------------------------
(***************************************************************************)
(* The sampler. The tokens come in one order; the filters keep a prefix of *)
(* it, and a draw finds the first token whose cumulated weight is beyond   *)
(* the sample.                                                             *)
(***************************************************************************)

\* The first j places of a sequence.
UpTo(s, j) == SubSeq(s, 1, j)

\* The elements at these places.
Firsts(s, j) == {s[i] : i \in 1 .. j}

\* A prefix, place by place, and its prefixes.
LEMMA UpToIs ==
  ASSUME NEW S, NEW s \in Seq(S), NEW j \in 0 .. Len(s)
  PROVE  /\ UpTo(s, j) \in Seq(S) /\ Len(UpTo(s, j)) = j /\ DOMAIN UpTo(s, j) = 1 .. j
         /\ \A i \in 1 .. j : UpTo(s, j)[i] = s[i]
         /\ \A m \in 0 .. j : SubSeq(UpTo(s, j), 1, m) = UpTo(s, m)
         /\ j = Len(s) => UpTo(s, j) = s
  <1>1. j \in Nat /\ Len(s) \in Nat /\ j <= Len(s) /\ s \in [1 .. Len(s) -> S]
    OBVIOUS
  <1>2. \A m \in Nat : \A t : SubSeq(t, 1, m) = [i \in 1 .. m |-> t[i]]
    <2> SUFFICES ASSUME NEW m \in Nat, NEW t PROVE SubSeq(t, 1, m) = [i \in 1 .. m |-> t[i]]
      OBVIOUS
    <2>1. SubSeq(t, 0 + 1, m) = [i \in 1 .. m - 0 |-> t[0 + i]]
      BY SubSeqIs
    <2>2. 0 + 1 = 1 /\ m - 0 = m /\ \A i \in 1 .. m : 0 + i = i
      OBVIOUS
    <2> QED
      BY <2>1, <2>2
  <1>3. UpTo(s, j) = [i \in 1 .. j |-> s[i]] /\ \A i \in 1 .. j : s[i] \in S
    BY <1>1, <1>2 DEF UpTo
  <1>4. UpTo(s, j) \in Seq(S) /\ Len(UpTo(s, j)) = j
    BY <1>1, <1>3
  <1>5. ASSUME NEW m \in 0 .. j PROVE SubSeq(UpTo(s, j), 1, m) = UpTo(s, m)
    <2>1. m \in Nat /\ \A i \in 1 .. m : i \in 1 .. j
      BY <1>1
    <2>2. SubSeq(UpTo(s, j), 1, m) = [i \in 1 .. m |-> UpTo(s, j)[i]]
      BY <1>2, <2>1
    <2>3. UpTo(s, m) = [i \in 1 .. m |-> s[i]]
      BY <1>2, <2>1 DEF UpTo
    <2> QED
      BY <1>3, <2>1, <2>2, <2>3
  <1>6. j = Len(s) => UpTo(s, j) = s
    BY <1>1, <1>3
  <1> QED
    BY <1>3, <1>4, <1>5, <1>6

\* m[j] is the weight of the first j tokens of idx.
Cumulated(m, w, idx) ==
  /\ m \in [0 .. Len(idx) -> Nat] /\ m[0] = 0
  /\ \A j \in 1 .. Len(idx) : m[j] = m[j - 1] + w[idx[j]]

\* And so say the sums over its prefixes, and over the sets of its first tokens.
Masses(m, w, idx) ==
  /\ Cumulated(m, w, idx)
  /\ \A j \in 0 .. Len(idx) : /\ Mass(w, UpTo(idx, j)) = m[j]
                              /\ MassOf(w, Firsts(idx, j)) = m[j]

\* Mass is a sum.
LEMMA MassIs ==
  ASSUME NEW w, NEW idx
  PROVE  Mass(w, idx) = SumOf([i \in DOMAIN idx |-> w[idx[i]]], DOMAIN idx)
  <1> DEFINE S == DOMAIN idx
             p == [i \in S |-> w[idx[i]]]
             A(f) == f = [s \in SUBSET S |-> IF s = {} THEN 0
                            ELSE w[idx[CHOOSE x \in s : TRUE]] + f[s \ {CHOOSE x \in s : TRUE}]]
             B(f) == f = [s \in SUBSET S |-> IF s = {} THEN 0
                            ELSE p[CHOOSE x \in s : TRUE] + f[s \ {CHOOSE x \in s : TRUE}]]
  <1>1. Mass(w, idx) = (CHOOSE f : A(f))[S]
    BY DEF Mass, FoldSeq, FoldFunction, FoldFunctionOnSet, MapThenFoldSet
  <1>2. SumOf(p, S) = (CHOOSE f : B(f))[S]
    BY DEF SumOf, MapThenSumSet, MapThenFoldSet
  <1>3. ASSUME NEW f PROVE A(f) <=> B(f)
    <2>1. ASSUME NEW s \in SUBSET S, s # {}
          PROVE  w[idx[CHOOSE x \in s : TRUE]] = p[CHOOSE x \in s : TRUE]
      <3>1. (CHOOSE x \in s : TRUE) \in S
        BY <2>1
      <3> QED
        BY <3>1
    <2> QED
      BY <2>1
  <1> HIDE DEF A, B
  <1>4. (CHOOSE f : A(f)) = (CHOOSE f : B(f))
    BY <1>3
  <1> QED
    BY <1>1, <1>2, <1>4

\* The sum over a part.
LEMMA SumPart ==
  ASSUME NEW S, IsFiniteSet(S), NEW p \in [S -> Nat], NEW g, SumsOver(g, p, S),
         NEW t \in SUBSET S
  PROVE  SumOf(p, t) = g[t]
  <1> DEFINE q == [x \in t |-> p[x]]
             h == [s \in SUBSET t |-> g[s]]
  <1>1. IsFiniteSet(t) /\ q \in [t -> Nat]
    BY FS_Subset
  <1>2. SumsOver(h, q, t)
    <2>1. h \in [SUBSET t -> Nat] /\ h[{}] = 0
      BY DEF SumsOver
    <2>2. ASSUME NEW s \in SUBSET t, s # {}
          PROVE  h[s] = q[CHOOSE x \in s : TRUE] + h[s \ {CHOOSE x \in s : TRUE}]
      <3> DEFINE c == CHOOSE x \in s : TRUE
      <3>1. c \in s
        BY <2>2
      <3>2. s \in SUBSET S /\ g[s] = p[c] + g[s \ {c}]
        BY <2>2 DEF SumsOver
      <3> HIDE DEF c
      <3> QED
        BY <3>1, <3>2 DEF c
    <2> QED
      BY <2>1, <2>2 DEF SumsOver
  <1>3. SumOf(q, t) = h[t]
    BY <1>1, <1>2, SumIs
  <1>4. SumOf(p, t) = SumOf(q, t)
    <2>1. \A x \in t : p[x] = q[x]
      OBVIOUS
    <2> QED
      BY <2>1, SumSame
  <1> QED
    BY <1>3, <1>4

\* The weights of a sequence of distinct tokens.
LEMMA MassesAre ==
  ASSUME NEW w, w \in [DOMAIN w -> Nat], IsFiniteSet(DOMAIN w),
         NEW idx \in Seq(DOMAIN w),
         \A i, j \in 1 .. Len(idx) : idx[i] = idx[j] => i = j
  PROVE  \E m : Masses(m, w, idx)
  <1> DEFINE n == Len(idx)
             p == [i \in 1 .. n |-> w[idx[i]]]
  <1>1. /\ n \in Nat /\ IsFiniteSet(1 .. n) /\ p \in [1 .. n -> Nat]
        /\ \A i \in 1 .. n : idx[i] \in DOMAIN w /\ p[i] = w[idx[i]]
        /\ \A i, j \in 1 .. n : idx[i] = idx[j] => i = j
    <2>1. n \in Nat /\ 1 \in Int /\ n \in Int /\ \A i \in 1 .. n : idx[i] \in DOMAIN w
      OBVIOUS
    <2>2. IsFiniteSet(1 .. n)
      BY <2>1, FS_Interval
    <2>3. \A i \in 1 .. n : w[idx[i]] \in Nat
      BY <2>1
    <2>4. \A i, j \in 1 .. n : idx[i] = idx[j] => i = j
      OBVIOUS
    <2> HIDE DEF n
    <2> QED
      BY <2>1, <2>2, <2>3, <2>4
  <1>2. PICK g : SumsOver(g, p, 1 .. n)
    BY <1>1, SumSolved
  <1>3. TakesOutAny(g, p, 1 .. n) /\ g[{}] = 0 /\ g \in [SUBSET (1 .. n) -> Nat]
    BY <1>1, <1>2, SumTakesOut DEF SumsOver
  <1>4. PICK G : SumsOver(G, w, DOMAIN w)
    BY SumSolved
  <1>5. TakesOutAny(G, w, DOMAIN w) /\ G[{}] = 0
    BY <1>4, SumTakesOut DEF SumsOver
  <1> DEFINE m == [j \in 0 .. n |-> g[1 .. j]]
             Image(j) == {idx[i] : i \in 1 .. j}
  <1> HIDE DEF p, n
  <1>6. \A j \in 0 .. n : 1 .. j \in SUBSET (1 .. n) /\ m[j] = g[1 .. j]
    BY <1>1
  <1>7. \A j \in 0 .. n : m[j] \in Nat
    BY <1>3, <1>6
  <1>8. m[0] = 0
    <2>1. 1 .. 0 = {} /\ 0 \in 0 .. n
      BY <1>1
    <2> QED
      BY <1>3, <1>6, <2>1
  <1>9. ASSUME NEW j \in 1 .. n PROVE m[j] = m[j - 1] + w[idx[j]]
    <2>1. /\ j \in 0 .. n /\ j - 1 \in 0 .. n /\ j \in 1 .. j /\ (1 .. j) \ {j} = 1 .. j - 1
          /\ p[j] \in Nat
      BY <1>1
    <2>2. g[1 .. j] = p[j] + g[(1 .. j) \ {j}]
      <3>1. 1 .. j \in SUBSET (1 .. n)
        BY <1>6, <2>1
      <3> QED
        BY <1>3, <2>1, <3>1 DEF TakesOutAny
    <2>3. m[j] \in Nat /\ m[j - 1] \in Nat /\ m[j] = p[j] + m[j - 1] /\ p[j] = w[idx[j]]
      BY <1>1, <1>6, <1>7, <2>1, <2>2
    <2> QED
      BY <2>1, <2>3
  <1>10. Cumulated(m, w, idx)
    BY <1>7, <1>8, <1>9 DEF Cumulated, n
  <1>11. ASSUME NEW j \in 0 .. n PROVE Mass(w, UpTo(idx, j)) = m[j]
    <2> DEFINE q == [i \in 1 .. j |-> w[UpTo(idx, j)[i]]]
    <2>1. DOMAIN UpTo(idx, j) = 1 .. j /\ \A i \in 1 .. j : UpTo(idx, j)[i] = idx[i]
      <3>1. j \in 0 .. Len(idx)
        BY DEF n
      <3> HIDE DEF m, Image, q
      <3> QED
        BY <3>1, UpToIs
    <2>2. Mass(w, UpTo(idx, j)) = SumOf(q, 1 .. j)
      BY <2>1, MassIs
    <2>3. \A i \in 1 .. j : q[i] = p[i]
      <3>1. \A i \in 1 .. j : i \in 1 .. n
        BY <1>1
      <3> QED
        BY <1>1, <2>1, <3>1
    <2> HIDE DEF q
    <2>4. SumOf(q, 1 .. j) = SumOf(p, 1 .. j)
      BY <2>3, SumSame
    <2>5. SumOf(p, 1 .. j) = g[1 .. j]
      <3> DEFINE S == 1 .. n
                 t == 1 .. j
      <3>1. t \in SUBSET S /\ IsFiniteSet(S) /\ p \in [S -> Nat] /\ SumsOver(g, p, S)
        BY <1>1, <1>2, <1>6
      <3> HIDE DEF S, t, m, Image, q
      <3>2. SumOf(p, t) = g[t]
        BY <3>1, SumPart
      <3> QED
        BY <3>2 DEF t
    <2> QED
      BY <1>6, <2>2, <2>4, <2>5
  <1> HIDE DEF m
  <1>12. ASSUME NEW j \in 0 .. n PROVE G[Image(j)] = m[j]
    <2> DEFINE T == {i \in 0 .. n : G[Image(i)] = m[i]}
    <2>1. 0 \in T
      <3>1. Image(0) = {} /\ 0 \in 0 .. n
        BY <1>1
      <3> QED
        BY <1>5, <1>8, <3>1
    <2>2. ASSUME NEW i \in 0 .. n - 1, i \in T PROVE i + 1 \in T
      <3>1. i + 1 \in 1 .. n /\ i + 1 \in 0 .. n /\ (i + 1) - 1 = i
        BY <1>1
      <3>a. /\ \A k \in 1 .. i + 1 : k \in 1 .. n /\ (k = i + 1 \/ k \in 1 .. i)
            /\ \A k \in 1 .. i : k \in 1 .. i + 1 /\ k # i + 1
            /\ i + 1 \in 1 .. i + 1
        BY <1>1
      <3>2. Image(i + 1) \in SUBSET (DOMAIN w) /\ idx[i + 1] \in Image(i + 1)
        BY <1>1, <3>a
      <3>3. Image(i + 1) \ {idx[i + 1]} = Image(i)
        <4>1. ASSUME NEW k \in 1 .. i PROVE idx[k] # idx[i + 1]
          BY <1>1, <3>1, <3>a
        <4> QED
          BY <3>a, <4>1
      <3>4. G[Image(i + 1)] = w[idx[i + 1]] + G[Image(i + 1) \ {idx[i + 1]}]
        BY <1>5, <3>2 DEF TakesOutAny
      <3> HIDE DEF Image
      <3>5. G[Image(i + 1)] = w[idx[i + 1]] + m[i]
        BY <2>2, <3>3, <3>4
      <3>6. m[i + 1] = m[i] + w[idx[i + 1]] /\ m[i] \in Nat /\ w[idx[i + 1]] \in Nat
        BY <1>1, <1>7, <1>9, <3>1
      <3> QED
        BY <3>1, <3>5, <3>6
    <2> HIDE DEF T
    <2>3. \A i \in 0 .. n : i \in T
      BY <1>1, <2>1, <2>2, UpToInduction
    <2> QED
      BY <2>3 DEF T
  <1>13. ASSUME NEW j \in 0 .. n PROVE MassOf(w, Image(j)) = m[j]
    <2>1. Image(j) \in SUBSET (DOMAIN w)
      BY <1>1
    <2> HIDE DEF Image
    <2>2. SumOf(w, Image(j)) = G[Image(j)]
      BY <1>4, <2>1, SumPart
    <2>3. MassOf(w, Image(j)) = SumOf(w, Image(j))
      BY DEF MassOf, SumOf
    <2> QED
      BY <1>12, <2>2, <2>3
  <1> HIDE DEF Image
  <1> QED
    BY <1>10, <1>11, <1>13 DEF Image, n, Masses, Firsts

\* The tokens by falling weight, equals in their own order, are all of them, once each.
LEMMA ByProbabilityIs ==
  ASSUME NEW w \in Seq(Nat), NEW order, order = ByProbability(w)
  PROVE  /\ order \in Seq(DOMAIN w) /\ Len(order) = Len(w)
         /\ \A i, j \in 1 .. Len(w) : order[i] = order[j] => i = j
         /\ \A x \in DOMAIN w : \E j \in 1 .. Len(w) : order[j] = x
         /\ \A j \in 1 .. Len(w) : /\ Before(w, order[j]) = Firsts(order, j - 1)
                                   /\ Cardinality(Before(w, order[j])) = j - 1
  <1> DEFINE n == Len(w)
             S == 1 .. n
             below == [x \in S |-> Before(w, x)]
  <1>1. n \in Nat /\ DOMAIN w = S /\ \A x \in S : w[x] \in Nat
    OBVIOUS
  <1>2. IsFiniteSet(S) /\ Cardinality(S) = n
    <2>1. 1 \in Int /\ n \in Int
      OBVIOUS
    <2>2. IsFiniteSet(S) /\ Cardinality(S) = IF 1 > n THEN 0 ELSE n - 1 + 1
      BY <2>1, FS_Interval
    <2> HIDE DEF n
    <2> QED
      BY <1>1, <2>2
  <1>3. order = ByRank(below)
    BY <1>1 DEF ByProbability, Before
  <1>4. \A x, y \in S : x \in Before(w, y) <=> (w[x] > w[y] \/ (w[x] = w[y] /\ x < y))
    BY <1>1 DEF Before
  <1>5. IsOrder(below, S)
    <2>1. \A x \in S : Before(w, x) \subseteq S /\ x \notin Before(w, x)
      BY <1>1, <1>4 DEF Before
    <2>2. ASSUME NEW x \in S, NEW y \in S, NEW z \in S, x \in Before(w, y), z \in Before(w, x)
          PROVE  z \in Before(w, y)
      BY <1>1, <1>4, <2>2
    <2>3. \A x, y \in S : x # y => x \in Before(w, y) \/ y \in Before(w, x)
      BY <1>1, <1>4
    <2> QED
      BY <2>1, <2>2, <2>3 DEF IsOrder
  <1>6. \A x \in S : below[x] = Before(w, x)
    OBVIOUS
  <1> HIDE DEF below, S, n
  <1>7. /\ order \in Seq(S) /\ Len(order) = n /\ {order[i] : i \in 1 .. n} = S
        /\ \A i, j \in 1 .. n : i < j <=> order[i] \in below[order[j]]
        /\ \A i \in 1 .. n : Cardinality(below[order[i]]) = i - 1
    <2> DEFINE r == ByRank(below)
    <2>1. /\ r \in Seq(S) /\ Len(r) = Cardinality(S) /\ {r[i] : i \in 1 .. Cardinality(S)} = S
          /\ \A i, j \in 1 .. Cardinality(S) : i < j <=> r[i] \in below[r[j]]
          /\ \A i \in 1 .. Cardinality(S) : Cardinality(below[r[i]]) = i - 1
      BY <1>2, <1>5, RankOrder
    <2>2. order = r
      BY <1>3
    <2> HIDE DEF r
    <2> QED
      BY <1>2, <2>1, <2>2
  <1>8. \A i \in 1 .. n : order[i] \in S
    BY <1>7
  <1>9. ASSUME NEW i \in 1 .. n, NEW j \in 1 .. n, order[i] = order[j] PROVE i = j
    <2>a. order[i] \notin below[order[i]]
      BY <1>5, <1>8 DEF IsOrder
    <2>1. ~(i < j) /\ ~(j < i)
      BY <1>7, <1>9, <2>a
    <2> QED
      BY <1>1, <2>1
  <1>10. ASSUME NEW j \in 1 .. n
         PROVE  Before(w, order[j]) = Firsts(order, j - 1)
    <2>1. ASSUME NEW x \in Before(w, order[j]) PROVE \E i \in 1 .. j - 1 : x = order[i]
      <3>1. x \in S /\ x \in below[order[j]]
        BY <1>5, <1>6, <1>8 DEF IsOrder
      <3>2. PICK i \in 1 .. n : order[i] = x
        BY <1>7, <3>1
      <3>3. i < j
        BY <1>7, <3>1, <3>2
      <3>4. i \in 1 .. j - 1
        BY <1>1, <3>3
      <3> QED
        BY <3>2, <3>4
    <2>2. ASSUME NEW i \in 1 .. j - 1 PROVE order[i] \in Before(w, order[j])
      <3>1. i \in 1 .. n /\ i < j
        BY <1>1
      <3>2. order[i] \in below[order[j]]
        BY <1>7, <3>1
      <3> QED
        BY <1>6, <1>8, <3>2
    <2> QED
      BY <2>1, <2>2 DEF Firsts
  <1>11. \A j \in 1 .. n : Cardinality(Before(w, order[j])) = j - 1
    BY <1>6, <1>7, <1>8
  <1>12. \A x \in S : \E j \in 1 .. n : order[j] = x
    BY <1>7
  <1> QED
    BY <1>1, <1>7, <1>9, <1>10, <1>11, <1>12 DEF n

\* The cumulated weights grow.
LEMMA CumulatedGrows ==
  ASSUME NEW w, NEW idx, NEW m, Cumulated(m, w, idx), Len(idx) \in Nat,
         \A j \in 1 .. Len(idx) : w[idx[j]] \in Nat,
         NEW i \in 0 .. Len(idx), NEW j \in i .. Len(idx)
  PROVE  m[i] <= m[j]
  <1> DEFINE n == Len(idx)
             T == {d \in 0 .. n - i : m[i] <= m[i + d]}
  <1>1. n \in Nat /\ i \in Nat /\ n - i \in Nat /\ \A d \in 0 .. n : m[d] \in Nat
    BY DEF Cumulated
  <1>2. \A d \in 1 .. n : m[d] = m[d - 1] + w[idx[d]] /\ w[idx[d]] \in Nat
    BY DEF Cumulated
  <1>a. j \in i .. n /\ i \in 0 .. n
    OBVIOUS
  <1> HIDE DEF n
  <1>3. 0 \in T
    BY <1>1, <1>a
  <1>4. ASSUME NEW d \in 0 .. (n - i) - 1, d \in T PROVE d + 1 \in T
    <2>1. i + (d + 1) \in 1 .. n /\ i + (d + 1) - 1 = i + d /\ i + d \in 0 .. n /\ d + 1 \in 0 .. n - i
      BY <1>1, <1>a
    <2>2. m[i + (d + 1)] = m[i + d] + w[idx[i + (d + 1)]] /\ w[idx[i + (d + 1)]] \in Nat
      BY <1>2, <2>1
    <2>3. m[i] \in Nat /\ m[i + d] \in Nat /\ m[i] <= m[i + d]
      BY <1>1, <1>4, <1>a, <2>1
    <2> QED
      BY <2>1, <2>2, <2>3
  <1> HIDE DEF T
  <1>5. \A d \in 0 .. n - i : d \in T
    BY <1>1, <1>3, <1>4, UpToInduction
  <1>6. j - i \in 0 .. n - i /\ i + (j - i) = j
    BY <1>1, <1>a
  <1>7. j - i \in T
    BY <1>5, <1>6
  <1> QED
    BY <1>6, <1>7 DEF T

\* The order of the tokens of w, and the weight m[j] of its first j.
Ordered(w, order, m) ==
  w \in Seq(Nat) /\ order = ByProbability(w) /\ Masses(m, w, order)

\* There are such weights.
LEMMA OrderedHas ==
  ASSUME NEW w \in Seq(Nat)
  PROVE  \E order, m : Ordered(w, order, m)
  <1> DEFINE order == ByProbability(w)
  <1>1. /\ order \in Seq(DOMAIN w) /\ Len(order) = Len(w)
        /\ \A i, j \in 1 .. Len(order) : order[i] = order[j] => i = j
    BY ByProbabilityIs
  <1>2. w \in [DOMAIN w -> Nat] /\ IsFiniteSet(DOMAIN w)
    <2>1. DOMAIN w = 1 .. Len(w) /\ 1 \in Int /\ Len(w) \in Int
      OBVIOUS
    <2>2. IsFiniteSet(1 .. Len(w))
      BY <2>1, FS_Interval
    <2> QED
      BY <2>1, <2>2
  <1>3. order = ByProbability(w)
    OBVIOUS
  <1> HIDE DEF order
  <1>4. PICK m : Masses(m, w, order)
    BY <1>1, <1>2, MassesAre
  <1> QED
    BY <1>3, <1>4 DEF Ordered

\* What is known of the order and the weights of n tokens.
Known(w, order, m, n) ==
  /\ n \in Nat /\ DOMAIN w = 1 .. n /\ order \in Seq(DOMAIN w) /\ Len(order) = n
  /\ m[0] = 0 /\ \A j \in 0 .. n : m[j] \in Nat
  /\ \A j \in 1 .. n : m[j] = m[j - 1] + w[order[j]]
  /\ \A i, j \in 0 .. n : i <= j => m[i] <= m[j]
  /\ \A j \in 1 .. n : order[j] \in DOMAIN w /\ w[order[j]] \in Nat
  /\ \A i, j \in 1 .. n : order[i] = order[j] => i = j
  /\ \A x \in DOMAIN w : \E j \in 1 .. n : order[j] = x

\* All that.
LEMMA OrderedIs ==
  ASSUME NEW w, NEW order, NEW m, Ordered(w, order, m)
  PROVE  Known(w, order, m, Len(w))
  <1>0. w \in Seq(Nat)
    BY DEF Ordered
  <1>1. Len(w) \in Nat /\ order \in Seq(DOMAIN w) /\ Len(order) = Len(w)
    BY <1>0, ByProbabilityIs DEF Ordered
  <1>2. Cumulated(m, w, order)
    BY DEF Ordered, Masses
  <1>3. /\ \A j \in 0 .. Len(w) : m[j] \in Nat
        /\ m[0] = 0 /\ \A j \in 1 .. Len(w) : m[j] = m[j - 1] + w[order[j]]
    BY <1>1, <1>2 DEF Cumulated
  <1>4. \A j \in 1 .. Len(w) : order[j] \in DOMAIN w /\ w[order[j]] \in Nat
    <2>1. \A x \in DOMAIN w : w[x] \in Nat
      BY <1>0
    <2>2. \A j \in 1 .. Len(order) : order[j] \in DOMAIN w
      <3> DEFINE S == DOMAIN w
      <3> HIDE DEF S
      <3>1. order \in Seq(S)
        BY <1>1 DEF S
      <3>2. \A j \in 1 .. Len(order) : order[j] \in S
        BY <3>1
      <3> QED
        BY <3>2 DEF S
    <2> QED
      BY <1>1, <2>1, <2>2
  <1>5. ASSUME NEW i \in 0 .. Len(w), NEW j \in 0 .. Len(w), i <= j PROVE m[i] <= m[j]
    <2>1. i \in 0 .. Len(order) /\ j \in i .. Len(order)
      BY <1>1, <1>5
    <2> QED
      BY <1>1, <1>2, <1>4, <2>1, CumulatedGrows
  <1>6. /\ \A i, j \in 1 .. Len(w) : order[i] = order[j] => i = j
        /\ \A x \in DOMAIN w : \E j \in 1 .. Len(w) : order[j] = x
    BY <1>0, ByProbabilityIs DEF Ordered
  <1>7. DOMAIN w = 1 .. Len(w)
    BY <1>0
  <1> QED
    BY <1>1, <1>3, <1>4, <1>5, <1>6, <1>7 DEF Known

\* What is before a token.
LEMMA BeforeIs ==
  ASSUME NEW w, NEW order, NEW m, Ordered(w, order, m), NEW j \in 1 .. Len(w)
  PROVE  /\ Cardinality(Before(w, order[j])) = j - 1
         /\ MassOf(w, Before(w, order[j])) = m[j - 1]
  <1>0. w \in Seq(Nat) /\ order = ByProbability(w)
    BY DEF Ordered
  <1>1. Before(w, order[j]) = Firsts(order, j - 1)
    BY <1>0, ByProbabilityIs DEF Ordered
  <1>2. Cardinality(Before(w, order[j])) = j - 1
    BY <1>0, ByProbabilityIs DEF Ordered
  <1>3. j - 1 \in 0 .. Len(order)
    <2>1. Len(order) = Len(w) /\ Len(w) \in Nat
      BY OrderedIs DEF Known
    <2> QED
      BY <2>1
  <1>4. MassOf(w, Firsts(order, j - 1)) = m[j - 1]
    BY <1>3 DEF Ordered, Masses
  <1> QED
    BY <1>1, <1>2, <1>4

\* The least of some places.
LEMMA LeastPlace ==
  ASSUME NEW n \in Nat, NEW T \in SUBSET (1 .. n), T # {}
  PROVE  Min(T) \in T /\ \A i \in T : Min(T) <= i
  <1>1. T \in SUBSET Nat
    OBVIOUS
  <1>2. \E i \in T : \A j \in T : i <= j
    BY <1>1, LeastNat
  <1> QED
    BY <1>2 DEF Min

\* How many tokens the top-k filter keeps.
KeptByTopK(n, k) == IF k > 0 /\ k < n THEN k ELSE n

\* The tokens with fewer than k before them.
TopTokens(w, k) == {i \in DOMAIN w : k = 0 \/ Cardinality(Before(w, i)) < k}

\* The top-k filter keeps the tokens with fewer than k before them.
LEMMA TopKIs ==
  ASSUME NEW w, NEW order, NEW m, Ordered(w, order, m), NEW k \in Nat,
         NEW K, K = KeptByTopK(Len(w), k)
  PROVE  /\ K \in 0 .. Len(w) /\ (Len(w) > 0 => K > 0)
         /\ TopK(order, k) = UpTo(order, K)
         /\ TopTokens(w, k) = Firsts(order, K)
  <1>1. /\ Len(w) \in Nat /\ order \in Seq(DOMAIN w) /\ Len(order) = Len(w)
        /\ \A j \in 1 .. Len(w) : order[j] \in DOMAIN w
    BY OrderedIs DEF Known
  <1>2. K \in 0 .. Len(w) /\ (Len(w) > 0 => K > 0)
    BY <1>1 DEF KeptByTopK
  <1>3. TopK(order, k) = UpTo(order, K)
    <2>1. UpTo(order, Len(w)) = order
      <3>1. Len(order) \in 0 .. Len(order)
        BY <1>1
      <3> QED
        BY <1>1, <3>1, UpToIs
    <2> QED
      BY <1>1, <2>1 DEF TopK, KeptByTopK, UpTo
  <1>4. \A j \in 1 .. Len(w) : (k = 0 \/ Cardinality(Before(w, order[j])) < k) <=> j <= K
    <2>1. \A j \in 1 .. Len(w) : Cardinality(Before(w, order[j])) = j - 1
      BY BeforeIs
    <2>2. ASSUME NEW n \in Nat, NEW j \in 1 .. n PROVE (k = 0 \/ j - 1 < k) <=> j <= KeptByTopK(n, k)
      BY DEF KeptByTopK
    <2> QED
      BY <1>1, <2>1, <2>2
  <1>5. \A i \in DOMAIN w : \E j \in 1 .. Len(w) : order[j] = i
    BY OrderedIs DEF Known
  <1>6. /\ \A j \in 1 .. K : j \in 1 .. Len(w) /\ j <= K
        /\ \A j \in 1 .. Len(w) : j <= K => j \in 1 .. K
    BY <1>1, <1>2
  <1> QED
    BY <1>1, <1>2, <1>3, <1>4, <1>5, <1>6 DEF TopTokens, Firsts

\* The nucleus asks for less than everything.
Nucleus(p) == p[1] > 0 /\ p[1] < p[2]

\* Products of natural numbers keep their order.
LEMMA TimesKeeps == \A x, y, b \in Nat : x <= y => x * b <= y * b
  OBVIOUS

\* L tokens are left behind both filters: the eligible ones, if they have any weight.
Filtered(w, order, m, k, p, L) ==
  /\ TopP(w, TopK(order, k), p) = UpTo(order, L)
  /\ m[L] > 0 => Eligible(w, k, p) = Firsts(order, L)
  /\ m[L] = 0 => Eligible(w, k, p) \subseteq Firsts(order, L)

\* The top-p filter keeps a prefix, too.
LEMMA TopPIs ==
  ASSUME NEW w, NEW order, NEW m, Ordered(w, order, m), NEW k \in Nat,
         NEW p \in Int \X (Nat \ {0}), Len(w) > 0
  PROVE  \E L \in 1 .. Len(w) : Filtered(w, order, m, k, p, L)
  <1>a. PICK n : n = Len(w)
    OBVIOUS
  <1>b. PICK K : K = KeptByTopK(n, k)
    OBVIOUS
  <1>c. PICK idx : idx = UpTo(order, K)
    OBVIOUS
  <1>e. PICK first : first = Firsts(order, K)
    OBVIOUS
  <1> DEFINE Ahead(i) == MassOf(w, Before(w, i)) * p[2] < p[1] * m[K]
  <1>1. /\ n \in Nat /\ order \in Seq(DOMAIN w) /\ Len(order) = n
        /\ \A j \in 0 .. n : m[j] \in Nat
        /\ m[0] = 0 /\ \A i, j \in 0 .. n : i <= j => m[i] <= m[j]
        /\ \A j \in 1 .. n : order[j] \in DOMAIN w
    BY <1>a, OrderedIs DEF Known
  <1>d. n \in Nat /\ K \in 0 .. n /\ K \in Nat /\ 1 <= K /\ K <= n /\ K \in 1 .. n
    <2>1. n \in Nat /\ n > 0
      BY <1>a, <1>1
    <2> QED
      BY <1>b, <2>1 DEF KeptByTopK
  <1>2. /\ K \in 1 .. n /\ TopK(order, k) = idx
        /\ TopTokens(w, k) = first
    <2>1. K = KeptByTopK(Len(w), k)
      BY <1>a, <1>b
    <2>2. /\ TopK(order, k) = UpTo(order, K)
          /\ TopTokens(w, k) = first
      BY <1>e, <2>1, TopKIs
    <2> QED
      BY <1>c, <1>d, <2>2
  <1>3. p[1] \in Int /\ p[2] \in Nat \ {0}
    OBVIOUS
  <1>4. MassOf(w, first) = m[K] /\ m[K] \in Nat
    <2>1. K \in 0 .. Len(order)
      BY <1>1, <1>d
    <2> QED
      BY <1>1, <1>d, <1>e, <2>1 DEF Ordered, Masses
  <1>5. /\ \A j \in 1 .. n : MassOf(w, Before(w, order[j])) = m[j - 1]
        /\ \A i, j \in 1 .. n : order[i] = order[j] => i = j
    <2>1. \A j \in 1 .. n : MassOf(w, Before(w, order[j])) = m[j - 1]
      BY <1>a, BeforeIs
    <2>2. \A i, j \in 1 .. n : order[i] = order[j] => i = j
      BY <1>a, OrderedIs DEF Known
    <2> QED
      BY <2>1, <2>2
  <1>6. Eligible(w, k, p) = {i \in first : p[1] \notin 1 .. p[2] - 1 \/ Ahead(i)}
    BY <1>2, <1>4 DEF Eligible, TopTokens
  <1>7. p[1] \notin 1 .. p[2] - 1 <=> ~Nucleus(p)
    BY <1>3 DEF Nucleus
  <1>8. /\ DOMAIN idx = 1 .. K /\ Mass(w, idx) = m[K]
        /\ \A j \in 1 .. K : Mass(w, SubSeq(idx, 1, j)) = m[j] /\ SubSeq(idx, 1, j) = UpTo(order, j)
    <2>0. K \in 0 .. Len(order) /\ \A j \in 1 .. K : j \in 0 .. K /\ j \in 0 .. Len(order)
      <3>1. Len(order) = n
        BY <1>1
      <3> QED
        BY <1>d, <3>1
    <2>1. DOMAIN idx = 1 .. K /\ \A j \in 0 .. K : SubSeq(idx, 1, j) = UpTo(order, j)
      <3>1. order \in Seq(DOMAIN w)
        BY <1>1
      <3> DEFINE D == DOMAIN w
      <3> HIDE DEF D
      <3>2. order \in Seq(D)
        BY <3>1 DEF D
      <3>3. /\ DOMAIN UpTo(order, K) = 1 .. K
            /\ \A j \in 0 .. K : SubSeq(UpTo(order, K), 1, j) = UpTo(order, j)
        BY <2>0, <3>2, UpToIs
      <3> QED
        BY <1>c, <3>3
    <2>2. \A j \in 0 .. Len(order) : Mass(w, UpTo(order, j)) = m[j]
      BY DEF Ordered, Masses
    <2> QED
      BY <1>c, <2>0, <2>1, <2>2
  <1>9. CASE ~(Nucleus(p) /\ m[K] > 0)
    <2>1. TopP(w, TopK(order, k), p) = UpTo(order, K)
      BY <1>2, <1>8, <1>9, <1>c DEF TopP, Nucleus
    <2>2. m[K] > 0 => Eligible(w, k, p) = first
      BY <1>6, <1>7, <1>9
    <2>3. Eligible(w, k, p) \subseteq first
      BY <1>6
    <2> QED
      BY <1>a, <1>e, <1>2, <2>1, <2>2, <2>3 DEF Filtered
  <1>10. CASE Nucleus(p) /\ m[K] > 0
    <2> DEFINE Reaching == {j \in 1 .. K : m[j] * p[2] >= p[1] * m[K]}
               L == Min(Reaching)
    <2>1. TopP(w, TopK(order, k), p) = SubSeq(idx, 1, L)
      <3>1. {j \in DOMAIN idx : Mass(w, SubSeq(idx, 1, j)) * p[2] >= p[1] * Mass(w, idx)} = Reaching
        BY <1>8
      <3>2. Mass(w, idx) > 0 /\ p[1] > 0 /\ p[1] < p[2]
        BY <1>8, <1>10 DEF Nucleus
      <3> HIDE DEF Reaching
      <3> QED
        BY <1>2, <3>1, <3>2 DEF TopP
    <2>2. K \in Reaching
      <3>1. p[1] \in Nat /\ p[1] <= p[2] /\ p[2] \in Nat
        BY <1>3, <1>10 DEF Nucleus
      <3>2. p[1] * m[K] <= p[2] * m[K]
        BY <1>4, <3>1, TimesKeeps
      <3>3. \A x, y \in Nat : x * y = y * x /\ x * y \in Nat
        OBVIOUS
      <3>4. m[K] * p[2] >= p[1] * m[K]
        BY <1>4, <3>1, <3>2, <3>3
      <3> QED
        BY <1>1, <1>2, <3>4
    <2>3. L \in Reaching /\ \A j \in Reaching : L <= j
      <3>1. Reaching \in SUBSET (1 .. K) /\ K \in Nat /\ Reaching # {}
        BY <1>d, <2>2
      <3> HIDE DEF Reaching
      <3> QED
        BY <3>1, LeastPlace
    <2> HIDE DEF L
    <2>4. L \in 1 .. K /\ L \in 1 .. n /\ m[L] * p[2] >= p[1] * m[K]
      BY <1>d, <2>3
    <2>5. ASSUME NEW j \in 1 .. K PROVE Ahead(order[j]) <=> j <= L
      <3>1. j \in 1 .. n /\ j - 1 \in 0 .. n /\ L \in 0 .. n /\ j \in Int /\ L \in Int
            /\ (j > L => L <= j - 1)
        <4>1. L \in 1 .. n
          BY <2>4
        <4> QED
          BY <1>d, <4>1
      <3>2. Ahead(order[j]) <=> m[j - 1] * p[2] < p[1] * m[K]
        BY <1>5, <3>1
      <3>3. m[j - 1] \in Nat /\ m[L] \in Nat /\ p[2] \in Nat /\ p[1] \in Nat /\ p[1] > 0
        BY <1>1, <1>3, <1>10, <3>1 DEF Nucleus
      <3>3a. \A x, y \in Nat : x * y \in Nat
        OBVIOUS
      <3>3b. p[1] * m[K] \in Nat /\ m[j - 1] * p[2] \in Nat /\ m[L] * p[2] \in Nat
        BY <1>4, <3>3, <3>3a
      <3>4. CASE j > L
        <4>0. \A x, y \in 0 .. n : x <= y => m[x] <= m[y]
          BY <1>1
        <4>1. m[L] <= m[j - 1]
          BY <3>1, <3>4, <4>0
        <4>2. m[L] * p[2] <= m[j - 1] * p[2]
          BY <3>3, <4>1, TimesKeeps
        <4> QED
          BY <2>4, <3>1, <3>2, <3>3b, <3>4, <4>2
      <3>5. CASE j <= L /\ j = 1
        <4>1. m[j - 1] * p[2] = 0
          BY <1>1, <3>3, <3>5
        <4>2. \A x, y \in Nat : x > 0 /\ y > 0 => 0 < x * y
          OBVIOUS
        <4>3. 0 < p[1] * m[K]
          BY <1>4, <1>10, <3>3, <4>2
        <4> QED
          BY <3>2, <3>5, <4>1, <4>3
      <3>6. CASE j <= L /\ j # 1
        <4>1. j - 1 \in 1 .. K /\ ~(L <= j - 1)
          BY <1>d, <3>1, <3>6
        <4>2. ~(m[j - 1] * p[2] >= p[1] * m[K])
          BY <2>3, <4>1
        <4> QED
          BY <3>2, <3>3b, <3>6, <4>2
      <3> QED
        BY <3>1, <3>4, <3>5, <3>6
    <2>6. Eligible(w, k, p) = Firsts(order, L)
      <3>1. /\ \A j \in 1 .. L : j \in 1 .. K /\ j <= L
            /\ \A j \in 1 .. K : j <= L => j \in 1 .. L
        <4>1. L \in 1 .. K
          BY <2>4
        <4> QED
          BY <1>d, <4>1
      <3>2. Eligible(w, k, p) = {i \in first : Ahead(i)}
        BY <1>6, <1>7, <1>10
      <3> HIDE DEF Ahead
      <3> QED
        BY <1>e, <2>5, <3>1, <3>2 DEF Firsts
    <2>7. TopP(w, TopK(order, k), p) = UpTo(order, L)
      BY <1>8, <2>1, <2>4
    <2> QED
      BY <1>a, <2>4, <2>6, <2>7 DEF Filtered
  <1> QED
    BY <1>9, <1>10

\* A draw among the first L tokens, with a sample r out of their weight, finds the token
\* in whose part of the cumulated weights r lies.
LEMMA DrawIs ==
  ASSUME NEW w, NEW order, NEW m, Ordered(w, order, m), NEW L \in 1 .. Len(w), m[L] > 0,
         NEW r \in 0 .. m[L] - 1, NEW j \in 1 .. Len(w)
  PROVE  Draw(w, UpTo(order, L), <<r, m[L]>>) = order[j]
           <=> j <= L /\ m[j - 1] <= r /\ r < m[j]
  <1>a. PICK n : n = Len(w)
    OBVIOUS
  <1>b. PICK idx : idx = UpTo(order, L)
    OBVIOUS
  <1>1. /\ n \in Nat /\ order \in Seq(DOMAIN w) /\ Len(order) = n
        /\ \A i \in 0 .. n : m[i] \in Nat
        /\ m[0] = 0 /\ \A i, k \in 0 .. n : i <= k => m[i] <= m[k]
        /\ \A i, k \in 1 .. n : order[i] = order[k] => i = k
    <2>1. Known(w, order, m, n)
      BY <1>a, OrderedIs
    <2> QED
      BY <2>1 DEF Known
  <1>2. L \in 1 .. n /\ L \in 0 .. n /\ L \in Nat /\ j \in 1 .. n /\ n \in Nat
    <2>1. n \in Nat
      BY <1>1
    <2>2. L \in 1 .. n /\ j \in 1 .. n
      BY <1>a
    <2> QED
      BY <2>1, <2>2
  <1>3. /\ DOMAIN idx = 1 .. L /\ Mass(w, idx) = m[L]
        /\ \A i \in 1 .. L : Mass(w, SubSeq(idx, 1, i)) = m[i] /\ idx[i] = order[i]
    <2> DEFINE D == DOMAIN w
    <2>1. order \in Seq(D)
      BY <1>1
    <2>2. L \in 0 .. Len(order)
      BY <1>1, <1>2
    <2> HIDE DEF D
    <2>3. /\ DOMAIN UpTo(order, L) = 1 .. L
          /\ \A i \in 1 .. L : UpTo(order, L)[i] = order[i]
          /\ \A i \in 0 .. L : SubSeq(UpTo(order, L), 1, i) = UpTo(order, i)
      BY <2>1, <2>2, UpToIs
    <2>4. \A i \in 0 .. Len(order) : Mass(w, UpTo(order, i)) = m[i]
      BY DEF Ordered, Masses
    <2>5. \A i \in 1 .. L : i \in 0 .. L /\ i \in 0 .. Len(order)
      <3>1. Len(order) = n
        BY <1>1
      <3> QED
        BY <1>2, <3>1
    <2> QED
      BY <1>b, <2>2, <2>3, <2>4, <2>5
  <1>4. PICK sum : sum = m[L]
    OBVIOUS
  <1>5. sum \in Nat /\ sum > 0 /\ r \in Nat /\ r < sum
    <2>1. sum \in Nat
      BY <1>1, <1>2, <1>4
    <2> QED
      BY <1>4, <2>1
  <1> DEFINE Beyond == {i \in 1 .. L : r < m[i]}
  <1>6. {i \in DOMAIN idx : <<r, sum>>[1] * Mass(w, idx) < <<r, sum>>[2] * Mass(w, SubSeq(idx, 1, i))}
          = Beyond
    <2>1. ASSUME NEW i \in 1 .. L PROVE r * sum < sum * m[i] <=> r < m[i]
      <3>1. m[i] \in Nat
        BY <1>1, <1>2
      <3>2. \A x, y, z \in Nat : z > 0 => (x * z < z * y <=> x < y)
        OBVIOUS
      <3> QED
        BY <1>5, <3>1, <3>2
    <2> QED
      BY <1>3, <1>4, <2>1
  <1>7. L \in Beyond
    BY <1>2, <1>4, <1>5
  <1>8. Min(Beyond) \in Beyond /\ \A i \in Beyond : Min(Beyond) <= i
    <2>1. Beyond \in SUBSET (1 .. L) /\ Beyond # {}
      BY <1>7
    <2> HIDE DEF Beyond
    <2> QED
      BY <1>2, <2>1, LeastPlace
  <1>9. Draw(w, idx, <<r, sum>>) = idx[Min(Beyond)]
    <2> HIDE DEF Beyond
    <2>1. Mass(w, idx) # 0 /\ Beyond # {}
      BY <1>3, <1>4, <1>5, <1>7
    <2> QED
      BY <1>6, <2>1 DEF Draw
  <1>10. PICK q : q = Min(Beyond)
    OBVIOUS
  <1>11. /\ q \in 1 .. L /\ q \in 1 .. n /\ r < m[q] /\ \A i \in 1 .. L : r < m[i] => q <= i
    BY <1>2, <1>8, <1>10
  <1>12. Draw(w, UpTo(order, L), <<r, m[L]>>) = order[q]
    BY <1>b, <1>3, <1>4, <1>9, <1>10, <1>11
  <1>13. m[q - 1] <= r
    <2>1. q - 1 \in 0 .. n /\ (q = 1 => q - 1 = 0) /\ (q # 1 => q - 1 \in 1 .. L /\ ~(q <= q - 1))
      BY <1>2, <1>11
    <2>2. m[q - 1] \in Nat
      BY <1>1, <2>1
    <2>3. CASE q = 1
      BY <1>1, <1>5, <2>1, <2>3
    <2>4. CASE q # 1
      <3>1. ~(r < m[q - 1])
        BY <1>11, <2>1, <2>4
      <3> QED
        BY <1>5, <2>2, <3>1
    <2> QED
      BY <2>3, <2>4
  <1>14. ASSUME j <= L, m[j - 1] <= r, r < m[j] PROVE j = q
    <2>1. j \in 1 .. L
      BY <1>2, <1>14
    <2>2. q <= j
      BY <1>11, <1>14, <2>1
    <2>3. CASE q < j
      <3>1. q \in 0 .. n /\ j - 1 \in 0 .. n /\ q <= j - 1
        BY <1>2, <1>11, <2>1, <2>3
      <3>2. m[q] <= m[j - 1] /\ m[q] \in Nat /\ m[j - 1] \in Nat
        BY <1>1, <3>1
      <3> QED
        BY <1>5, <1>11, <1>14, <3>2
    <2> QED
      BY <1>2, <1>11, <2>2, <2>3
  <1>15. q <= L
    BY <1>2, <1>11
  <1>16. order[q] = order[j] => q = j
    BY <1>1, <1>2, <1>11
  <1> QED
    BY <1>11, <1>12, <1>13, <1>14, <1>15, <1>16

\* What has no weight has no eligible token with a weight.
LEMMA Weightless ==
  ASSUME NEW w, NEW n \in Nat, DOMAIN w = 1 .. n, w \in [DOMAIN w -> Nat],
         NEW E \in SUBSET (DOMAIN w), NEW F \in SUBSET (DOMAIN w), E \subseteq F, MassOf(w, F) = 0
  PROVE  MassOf(w, E) = 0 /\ \A x \in F : w[x] = 0
  <1> DEFINE D == DOMAIN w
  <1>1. IsFiniteSet(D)
    <2>1. 1 \in Int /\ n \in Int
      OBVIOUS
    <2> QED
      BY <2>1, FS_Interval
  <1>2. w \in [D -> Nat] /\ E \in SUBSET D /\ F \in SUBSET D
    OBVIOUS
  <1> HIDE DEF D
  <1>3. PICK g : SumsOver(g, w, D)
    BY <1>1, <1>2, SumSolved
  <1>4. SumOf(w, E) = g[E] /\ SumOf(w, F) = g[F]
    BY <1>1, <1>2, <1>3, SumPart
  <1>5. MassOf(w, E) = SumOf(w, E) /\ MassOf(w, F) = SumOf(w, F)
    BY DEF MassOf, SumOf
  <1>6. g[E] <= g[F]
    BY <1>1, <1>2, <1>3, SumMonotone
  <1>7. g[E] \in Nat
    BY <1>2, <1>3 DEF SumsOver
  <1>8. ASSUME NEW x \in F PROVE w[x] = 0
    <2>1. g[F] = w[x] + g[F \ {x}]
      BY <1>1, <1>2, <1>3, SumTakesOut DEF TakesOutAny
    <2>2. w[x] \in Nat /\ g[F \ {x}] \in Nat
      BY <1>2, <1>3 DEF SumsOver
    <2> QED
      BY <1>4, <1>5, <2>1, <2>2
  <1> QED
    BY <1>4, <1>5, <1>6, <1>7, <1>8

\* The samples out of sum that draw the token i.
Drawn(w, k, p, sum, i) == {r \in 0 .. sum - 1 : SampleIndex(w, k, p, <<r, sum>>) = i}

\* A token is drawn in its share.
LEMMA DrawnIs ==
  ASSUME NEW w, NEW order, NEW m, Ordered(w, order, m), NEW k \in Nat,
         NEW p \in Int \X (Nat \ {0}), NEW i \in DOMAIN w,
         NEW sum, sum = MassOf(w, Eligible(w, k, p))
  PROVE  Cardinality(Drawn(w, k, p, sum, i)) = IF i \in Eligible(w, k, p) THEN w[i] ELSE 0
  <1>a. PICK n : n = Len(w)
    OBVIOUS
  <1>b. PICK E : E = Eligible(w, k, p)
    OBVIOUS
  <1>c. PICK draws : draws = Drawn(w, k, p, sum, i)
    OBVIOUS
  <1>d. Known(w, order, m, n)
    BY <1>a, OrderedIs
  <1>0. n \in Nat /\ n > 0 /\ w[i] \in Nat
    <2>1. n \in Nat /\ i \in 1 .. n
      BY <1>d DEF Known
    <2>2. PICK j \in 1 .. n : order[j] = i /\ w[order[j]] \in Nat
      BY <1>d DEF Known
    <2> QED
      BY <2>1, <2>2
  <1>2. PICK L \in 1 .. n :
          /\ TopP(w, TopK(order, k), p) = UpTo(order, L)
          /\ m[L] > 0 => E = Firsts(order, L)
          /\ m[L] = 0 => E \subseteq Firsts(order, L)
    <2>1. PICK L \in 1 .. Len(w) : Filtered(w, order, m, k, p, L)
      BY <1>0, <1>a, TopPIs
    <2> QED
      BY <1>a, <1>b, <2>1 DEF Filtered
  <1>4. PICK j \in 1 .. n : order[j] = i
    BY <1>d DEF Known
  <1>5. /\ L \in 0 .. n /\ L \in Nat /\ j \in 0 .. n /\ j - 1 \in 0 .. n /\ j \in Nat
        /\ \A l \in 1 .. L : l \in 1 .. n /\ l <= L
    BY <1>0, <1>2, <1>4
  <1>6. m[L] \in Nat /\ m[j] \in Nat /\ m[j - 1] \in Nat /\ m[j] = m[j - 1] + w[i]
    BY <1>4, <1>5, <1>d DEF Known
  <1>7. \A r : SampleIndex(w, k, p, r) = Draw(w, UpTo(order, L), r)
    BY <1>2 DEF SampleIndex, Ordered
  <1>8. MassOf(w, Firsts(order, L)) = m[L]
    <2>1. L \in 0 .. Len(order)
      BY <1>5, <1>d DEF Known
    <2> QED
      BY <2>1 DEF Ordered, Masses
  <1>e. draws = {r \in 0 .. sum - 1 : Draw(w, UpTo(order, L), <<r, sum>>) = i}
    BY <1>7, <1>c DEF Drawn
  <1>f. i \in Firsts(order, L) <=> j <= L
    <2>1. ASSUME i \in Firsts(order, L) PROVE j <= L
      <3>1. PICK l \in 1 .. L : order[l] = i
        BY <2>1 DEF Firsts
      <3>2. l \in 1 .. n /\ l <= L
        BY <1>5
      <3>3. l = j
        BY <1>4, <3>1, <3>2, <1>d DEF Known
      <3> QED
        BY <3>2, <3>3
    <2>2. ASSUME j <= L PROVE i \in Firsts(order, L)
      <3>1. j \in 1 .. L
        BY <1>4, <1>5, <2>2
      <3> QED
        BY <1>4, <3>1 DEF Firsts
    <2> QED
      BY <2>1, <2>2
  <1>9. CASE m[L] = 0
    <2>1. E \subseteq Firsts(order, L) /\ MassOf(w, Firsts(order, L)) = 0
      BY <1>2, <1>8, <1>9
    <2>2. Firsts(order, L) \in SUBSET (DOMAIN w) /\ E \in SUBSET (DOMAIN w)
      <3>1. \A l \in 1 .. L : order[l] \in DOMAIN w
        BY <1>5, <1>d DEF Known
      <3>2. Firsts(order, L) \in SUBSET (DOMAIN w)
        BY <3>1 DEF Firsts
      <3> QED
        BY <2>1, <3>2
    <2>3. w \in [DOMAIN w -> Nat] /\ DOMAIN w = 1 .. n
      <3>1. w \in Seq(Nat)
        BY DEF Ordered
      <3>2. w \in [DOMAIN w -> Nat]
        BY <3>1
      <3> QED
        BY <3>2, <1>d DEF Known
    <2>4. MassOf(w, E) = 0 /\ \A x \in Firsts(order, L) : w[x] = 0
      BY <1>0, <2>1, <2>2, <2>3, Weightless
    <2>5. draws = {}
      <3>1. sum = 0
        BY <1>b, <2>4
      <3>2. 0 .. sum - 1 = {}
        BY <3>1
      <3> QED
        BY <1>e, <3>2
    <2>6. Cardinality(draws) = 0
      BY <2>5, FS_EmptySet
    <2> QED
      BY <1>b, <1>c, <2>1, <2>4, <2>6
  <1>10. CASE m[L] > 0
    <2>1. sum = m[L] /\ E = Firsts(order, L)
      BY <1>2, <1>8, <1>10, <1>b
    <2>2. i \in E <=> j <= L
      BY <1>f, <2>1
    <2>3. \A r \in 0 .. m[L] - 1 :
            Draw(w, UpTo(order, L), <<r, m[L]>>) = i <=> j <= L /\ m[j - 1] <= r /\ r < m[j]
      BY <1>a, <1>4, <1>10, DrawIs
    <2>4. draws = {r \in 0 .. m[L] - 1 : j <= L /\ m[j - 1] <= r /\ r < m[j]}
      BY <1>e, <2>1, <2>3
    <2>5. CASE j <= L
      <3>1. m[j] <= m[L]
        BY <1>5, <2>5, <1>d DEF Known
      <3>a. PICK a \in Nat : a = m[j - 1]
        BY <1>6
      <3>b. PICK b \in Nat : b = m[j]
        BY <1>6
      <3>c. PICK c \in Nat : c = m[L]
        BY <1>6
      <3>2. draws = a .. b - 1
        <4>1. draws = {r \in 0 .. c - 1 : a <= r /\ r < b} /\ b <= c
          BY <2>4, <2>5, <3>1, <3>a, <3>b, <3>c
        <4> QED
          BY <4>1
      <3>3. a \in Int /\ b - 1 \in Int
        OBVIOUS
      <3>4. Cardinality(a .. b - 1) = IF a > b - 1 THEN 0 ELSE (b - 1) - a + 1
        BY <3>3, FS_Interval
      <3>5. b = a + w[i]
        BY <1>6, <3>a, <3>b
      <3>6. Cardinality(draws) = w[i]
        BY <1>0, <3>2, <3>4, <3>5
      <3> QED
        BY <1>b, <1>c, <2>2, <2>5, <3>6
    <2>6. CASE ~(j <= L)
      <3>1. draws = {}
        BY <2>4, <2>6
      <3>2. Cardinality(draws) = 0
        BY <3>1, FS_EmptySet
      <3> QED
        BY <1>b, <1>c, <2>2, <2>6, <3>2
    <2> QED
      BY <2>5, <2>6
  <1> QED
    BY <1>6, <1>9, <1>10

\* So is every token.
LEMMA DrawsShare ==
  ASSUME NEW w \in Seq(Nat), NEW k \in Nat, NEW p \in Int \X (Nat \ {0})
  PROVE  DrawsInShare(w, k, p)
  <1>1. PICK order, m : Ordered(w, order, m)
    BY OrderedHas
  <1>2. PICK sum : sum = MassOf(w, Eligible(w, k, p))
    OBVIOUS
  <1>3. \A i \in DOMAIN w :
          Cardinality(Drawn(w, k, p, sum, i)) = IF i \in Eligible(w, k, p) THEN w[i] ELSE 0
    BY <1>1, <1>2, DrawnIs
  <1> QED
    BY <1>2, <1>3 DEF DrawsInShare, Drawn

\* sample_index draws every token that the filters leave in its share, and no other
\* (sampling.rs:18), whatever the weights, the filters and the number of tokens.
THEOREM SamplersAreExact == Spec => []SamplerExact
  <1>1. SamplerExact
    <2>1. \A s \in Samplers : s[1] \in Seq(Nat) /\ s[2] \in Nat /\ s[3] \in Int \X (Nat \ {0})
      BY GrpoStepAssumption
    <2>2. \A s \in Samplers : DrawsInShare(s[1], s[2], s[3])
      BY <2>1, DrawsShare
    <2> QED
      BY <2>2 DEF SamplerExact
  <1> QED
    BY <1>1, PTL
=============================================================================
