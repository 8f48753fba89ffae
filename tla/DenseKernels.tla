---------------------------- MODULE DenseKernels ----------------------------
(***************************************************************************)
(* The kernels outside the experts: quantized linear layers, NVFP4 and     *)
(* fp8, from the weight they are built from to the rows they return, and   *)
(* the two attention kernels.  Like an expert launch, a call is a run of   *)
(* blocks that store output cells, each with the terms that were summed    *)
(* into it.  A warp moves in step: a sum over its lanes (plane_sum) is one *)
(* value on all of them.  The softmax is online: a running maximum, and    *)
(* exponents rescaled when it grows, kept as integers.                     *)
(***************************************************************************)
EXTENDS ExpertKernels

CONSTANTS
  Linears,        \* calls of a linear layer: [fmt, m, k, n, mmax]
  Attentions,     \* calls of attention: [fmt, batch, hq, hkv, sq, sk, dim, score]
  Warp,           \* lanes of a warp (32)
  ColsPerCta,     \* output columns of a GEMV block (NVFP4_COLS_PER_CTA)
  DenseBlock,     \* weights that share a block scale, whole bytes of them (16)
  SplitFrom,      \* keys below which decode is not split (1024)
  SplitKeys,      \* keys to a split (512)
  MaxSplits,      \* splits at most (32)
  Lowest          \* the maximum of no score (f32::MIN, or -1e30)

ASSUME DenseAssumption ==
  /\ Warp \in Nat \ {0} /\ ColsPerCta \in Nat \ {0}
  /\ SplitKeys \in Nat \ {0} /\ MaxSplits \in Nat \ {0}
  /\ DenseBlock \in Nat \ {0} /\ DenseBlock % 2 = 0
  /\ \A c \in Attentions : \A j \in DOMAIN c.score : Lowest < c.score[j]

VARIABLES
  row,      \* the first activation row of the chunk a linear layer is on
  partial   \* what the splits of flash_decode left for the combining kernel

vars == <<expertVars, row, partial>>

\* The indices first, first + step, ... below n.
Strided(first, step, n) == [j \in 1..CeilDiv(n - first, step) |-> first + (j - 1) * step]
\* The value f gives each index of a sequence, one after the other.
Concat(f(_), s) == FlattenSeq([j \in DOMAIN s |-> f(s[j])])

(***************************************************************************)
(* The weights of a linear layer.                                          *)
(***************************************************************************)
Weight(o, k) == <<"w", 0, o, k>>
BurnWeight(k, n) == [a \in Addr(k * n) |-> Weight(a % n, a \div n)]

\* dense_fp8_parts: bytes [N,K] turned to [K,N], the scalar scale once per output.
DenseFp8Parts(k, n) ==
  LET data == [a \in Addr(n * k) |-> Weight(a \div k, a % k)]
  IN  [q |-> [a \in Addr(k * n) |-> data[(a % n) * k + (a \div n)]],
       s |-> [o \in Addr(n) |-> <<"w", 0>>]]

\* A byte and the scale of its column, from the largest weight of the column.
QuantizeE4m3PerChannel(w, k, n) ==
  [q |-> w, s |-> ChannelScale([a \in DOMAIN w |-> Plain(w[a])], k, n)]

\* Nvfp4Linear and W8A16Linear, quantized on load or from the parts of a
\* checkpoint, with the lengths their constructors and the hosts assert.
FromPackedParts(p, k, n) ==
  /\ k % DenseBlock = 0
  /\ DOMAIN p.qw = Addr(n * (k \div 2)) /\ DOMAIN p.bs = Addr(n * (k \div DenseBlock))
FromFp8Parts(p, k, n) == DOMAIN p.q = Addr(k * n) /\ DOMAIN p.s = Addr(n)
Nvfp4Parts(c) ==
  IF c.fmt = "nvfp4" THEN QuantizeNvfp4(BurnWeight(c.k, c.n), c.k, c.n, DenseBlock)
  ELSE ProjectionParts("w", 0, c.n, c.k, DenseBlock)
Fp8Parts(c) ==
  IF c.fmt = "fp8" THEN QuantizeE4m3PerChannel(BurnWeight(c.k, c.n), c.k, c.n)
  ELSE DenseFp8Parts(c.k, c.n)

AssertNvfp4GemvShapes(c) == c.m > 0 /\ c.n > 0 /\ c.mmax \in 1..8
QuantLinear(c) == IF c.fmt \in {"nvfp4", "nvfp4_parts"} THEN "nvfp4" ELSE "fp8"

\* A call of a layer: its weights are there, its output has no store yet.
CallLinear ==
  /\ side = "upload" /\ launch \in Linears
  /\ side' = QuantLinear(launch)
  /\ IF side' = "nvfp4"
     THEN /\ weights' = Nvfp4Parts(launch)
          /\ FromPackedParts(weights', launch.k, launch.n) /\ AssertNvfp4GemvShapes(launch)
     ELSE /\ weights' = Fp8Parts(launch)
          /\ FromFp8Parts(weights', launch.k, launch.n)
  /\ out' = [a \in Addr(launch.m * launch.n) |-> 0]
  /\ stored' = NoCells
  /\ UNCHANGED <<launch, blk, pc, shared, gu, row, partial>>

(***************************************************************************)
(* The NVFP4 kernel: a warp to an output column, its lanes sharing the     *)
(* column's blocks of weights; one accumulator per activation row, at most *)
(* mmax rows a launch, more rows in further launches.                      *)
(***************************************************************************)
Rows == Min({launch.mmax, launch.m - row})
X(m, k) == <<"x", row + m, k>>

\* The DenseBlock terms a lane adds for one block of a column.
BlockTerms(m, col, b) ==
  LET blocks == launch.k \div DenseBlock
      bytes == (col * blocks + b) * (DenseBlock \div 2)
  IN  [p \in 1..DenseBlock |->
         <<X(m, b * DenseBlock + p - 1),
           Nibble(Read(weights.qw, bytes + (p - 1) \div 2), (p - 1) % 2),
           Read(weights.bs, col * blocks + b), weights.gscale>>]
Nvfp4DecodeGemv(m, col) ==
  LET lane(l) == LET terms(b) == BlockTerms(m, col, b)
                 IN  Concat(terms, Strided(l, Warp, launch.k \div DenseBlock))
  IN  Concat(lane, Strided(0, 1, Warp))

\* One block of a launch; after the last one the next rows, then the end.
LaunchNvfp4Gemv ==
  LET cols == {c \in (blk * ColsPerCta)..(blk * ColsPerCta + ColsPerCta - 1) : c < launch.n}
      last == blk + 1 = CeilDiv(launch.n, ColsPerCta)
  IN  /\ side = "nvfp4"
      /\ StoreAll(side, [a \in {(row + m) * launch.n + c : m \in Addr(Rows), c \in cols} |->
                           Nvfp4DecodeGemv(a \div launch.n - row, a % launch.n)])
      /\ blk' = IF last THEN 0 ELSE blk + 1
      /\ row' = IF last THEN row + Rows ELSE row
      /\ side' = IF last /\ row' >= launch.m THEN "done" ELSE side
      /\ UNCHANGED <<launch, weights, pc, shared, partial>>

(***************************************************************************)
(* The fp8 kernel: a thread to an output, over the strides of [K,N].       *)
(***************************************************************************)
W8a16Gemm(pos) ==
  LET col == pos % launch.n
  IN  [j \in 1..launch.k |->
         <<X(pos \div launch.n, j - 1), Read(weights.q, (j - 1) * launch.n + col), 1,
           Read(weights.s, col)>>]
NextBlock(count, then) ==
  IF blk + 1 < count THEN side' = side /\ blk' = blk + 1 ELSE side' = then /\ blk' = 0
RunW8a16Gemm ==
  LET total == launch.m * launch.n
  IN  /\ side = "fp8"
      /\ StoreAll(side, [pos \in {p \in Addr(total) : p \div Threads = blk} |-> W8a16Gemm(pos)])
      /\ NextBlock(CeilDiv(total, Threads), "done")
      /\ UNCHANGED <<launch, weights, pc, shared, row, partial>>

(***************************************************************************)
(* Attention.  Queries [B,Hq,Sq,D] are the last Sq of the Sk positions of  *)
(* keys and values [B,Hkv,Sk,D], Hq / Hkv query heads to a key head.       *)
(***************************************************************************)
Kv(name) ==
  LET row2 == launch.sk * launch.dim
  IN  [a \in Addr(launch.batch * launch.hkv * row2) |->
         <<name, a \div (launch.hkv * row2), (a \div row2) % launch.hkv,
           (a \div launch.dim) % launch.sk, a % launch.dim>>]
Query ==
  LET row2 == launch.sq * launch.dim
  IN  [a \in Addr(launch.batch * launch.hq * row2) |->
         <<"q", a \div (launch.hq * row2), (a \div row2) % launch.hq,
           (a \div launch.dim) % launch.sq, a % launch.dim>>]

AssertAttentionShapes(c) ==
  /\ c.sq <= c.sk /\ c.hkv # 0 /\ c.hq % c.hkv = 0
  /\ c.fmt = "decode" => c.sq = 1 /\ c.dim % Warp = 0
FlashDecodeNSplits(sk) ==
  IF sk < SplitFrom THEN 1 ELSE Min({Max({CeilDiv(sk, SplitKeys), 1}), MaxSplits})
SplitLenFloor(sk) == Max({sk \div FlashDecodeNSplits(sk), 1})
SplitLen(sk) == CeilDiv(sk, FlashDecodeNSplits(sk))

CallAttention ==
  LET splits == FlashDecodeNSplits(launch.sk) * launch.batch * launch.hq
  IN  /\ side = "upload" /\ launch \in Attentions
      /\ AssertAttentionShapes(launch)
      /\ side' = launch.fmt
      /\ weights' = [q |-> Query, k |-> Kv("k"), v |-> Kv("v")]
      /\ partial' = IF launch.fmt = "flash" THEN None
                    ELSE [acc |-> [a \in Addr(splits * launch.dim) |-> Outside],
                          m |-> [a \in Addr(splits) |-> Lowest],
                          l |-> [a \in Addr(splits) |-> Outside]]
      /\ out' = [a \in Addr(launch.batch * launch.hq * launch.sq * launch.dim) |-> 0]
      /\ stored' = NoCells
      /\ UNCHANGED <<launch, blk, pc, shared, gu, row>>

\* The block of a query head, a batch and a third index.
QueryHead == blk % launch.hq
Batch == (blk \div launch.hq) % launch.batch
Third == blk \div (launch.hq * launch.batch)
HeadRow == Batch * launch.hq + QueryHead
KvBase == Batch * (launch.hkv * launch.sk * launch.dim)
          + (QueryHead \div (launch.hq \div launch.hkv)) * (launch.sk * launch.dim)

\* The dot of query row qi and key kj over the dimensions read, and its score.
Dot(qi, kj, dims) ==
  {<<Read(weights.q, (HeadRow * launch.sq + qi) * launch.dim + d),
     Read(weights.k, KvBase + kj * launch.dim + d)>> : d \in dims}
Score(kj) == launch.score[kj + 1]

\* The recurrence over the keys lo..hi - 1, unrolled: m is the running maximum;
\* a key enters with its score less the maximum it meets, and alpha rescales it
\* at every later key.  The terms are the denominator's; the accumulator of a
\* dimension has the same, times a value each.
OnlineSoftmax(qi, lo, hi, dims) ==
  LET m(kj) == Max({Lowest} \cup {Score(i) : i \in lo..kj})
      alpha(kj) == m(kj - 1) - m(kj)
  IN  [m |-> m(hi - 1),
       l |-> [j \in 1..(hi - lo) |->
                LET kj == lo + j - 1
                IN  [dot |-> Dot(qi, kj, dims), key |-> kj,
                     exp |-> Score(kj) - m(kj) + MapThenSumSet(alpha, (kj + 1)..(hi - 1))]]]
Rescale(terms, by) == [j \in DOMAIN terms |-> [terms[j] EXCEPT !.exp = @ + by]]
WithValues(terms, d) ==
  [j \in DOMAIN terms |->
     [dot |-> terms[j].dot, exp |-> terms[j].exp,
      value |-> Read(weights.v, KvBase + terms[j].key * launch.dim + d)]]

\* flash_attn: a block of one thread to a query row, over the keys up to its own.
FlashAttn ==
  LET end == (launch.sk - launch.sq) + Third + 1
      s == OnlineSoftmax(Third, 0, end, 0..(launch.dim - 1))
      base == (HeadRow * launch.sq + Third) * launch.dim
  IN  /\ side = "flash"
      /\ StoreAll(side, [a \in base..(base + launch.dim - 1) |->
                           [num |-> WithValues(s.l, a - base), den |-> s.l]])
      /\ NextBlock(launch.hq * launch.batch * launch.sq, "done")
      /\ UNCHANGED <<launch, weights, pc, shared, row, partial>>

\* flash_decode_split: a warp to a split of the keys, a lane to every Warp-th
\* dimension; the scores are summed over the lanes.
LaneDims == UNION {{Strided(l, Warp, launch.dim)[r] : r \in DOMAIN Strided(l, Warp, launch.dim)} :
                     l \in 0..(Warp - 1)}
FlashDecodeSplit ==
  LET len == SplitLen(launch.sk)
      dims == LaneDims
      s == OnlineSoftmax(0, Third * len, Min({(Third + 1) * len, launch.sk}), dims)
      at == Third * launch.batch * launch.hq + HeadRow
  IN  /\ side = "decode"
      /\ partial' = [acc |-> [a \in DOMAIN partial.acc |->
                                IF a \div launch.dim = at /\ a % launch.dim \in dims
                                THEN WithValues(s.l, a % launch.dim) ELSE partial.acc[a]],
                     m |-> [partial.m EXCEPT ![at] = s.m],
                     l |-> [partial.l EXCEPT ![at] = s.l]]
      /\ NextBlock(launch.hq * launch.batch * FlashDecodeNSplits(launch.sk), "combine")
      /\ NoStore
      /\ UNCHANGED <<launch, weights, pc, shared, row>>

\* flash_decode_combine: the splits added, each rescaled to the largest maximum.
FlashDecodeCombine ==
  LET splits == Strided(0, 1, FlashDecodeNSplits(launch.sk))
      dims == LaneDims
      at(g) == g * launch.batch * launch.hq + HeadRow
      mStar == Max({Lowest} \cup {partial.m[at(splits[j])] : j \in DOMAIN splits})
      den(g) == Rescale(partial.l[at(g)], partial.m[at(g)] - mStar)
      base == HeadRow * launch.dim
  IN  /\ side = "combine"
      /\ StoreAll(side, [a \in {base + d : d \in dims} |->
           LET num(g) == Rescale(partial.acc[at(g) * launch.dim + (a - base)],
                                 partial.m[at(g)] - mStar)
           IN  [num |-> Concat(num, splits), den |-> Concat(den, splits)]])
      /\ NextBlock(launch.hq * launch.batch, "done")
      /\ UNCHANGED <<launch, weights, pc, shared, row, partial>>

(***************************************************************************)
(* The specification: an expert launch, or one call of these kernels.      *)
(***************************************************************************)
DenseInit ==
  /\ launch \in Linears \cup Attentions
  /\ weights = None /\ side = "upload" /\ blk = 0
  /\ pc = None /\ shared = None /\ gu = None /\ out = None
  /\ stored = NoCells
Init ==
  /\ ExpertInit \/ DenseInit
  /\ row = 0 /\ partial = None

Next ==
  \/ ExpertNext /\ UNCHANGED <<row, partial>>
  \/ CallLinear \/ LaunchNvfp4Gemv \/ RunW8a16Gemm
  \/ CallAttention \/ FlashAttn \/ FlashDecodeSplit \/ FlashDecodeCombine

Spec == Init /\ [][Next]_vars
FairSpec == Spec /\ WF_vars(Next)

(***************************************************************************)
(* Properties.                                                             *)
(***************************************************************************)
\* The weight of a layer, with the scales it was stored with.
DenseMeant(o, k) ==
  LET w == Weight(o, k)
  IN  CASE launch.fmt = "nvfp4" -> <<w, ScaleSources({w}, DenseBlock), {<<"w", 0>>}>>
        [] launch.fmt = "nvfp4_parts" -> <<w, <<"w", 0, o, k \div DenseBlock>>, <<"w", 0>>>>
        [] launch.fmt = "fp8" -> <<w, 1, {<<"w", 0, o>>}>>
        [] launch.fmt = "fp8_parts" -> <<w, 1, <<"w", 0>>>>
LinearExact(a, terms) ==
  /\ Len(terms) = launch.k
  /\ {terms[j] : j \in DOMAIN terms} =
       {<<<<"x", a \div launch.n, k>>>> \o DenseMeant(a % launch.n, k) : k \in 0..(launch.k - 1)}

\* Softmax over the visible keys: exponents relative to the largest score.
AttentionExact(a, v) ==
  LET d == a % launch.dim
      qi == (a \div launch.dim) % launch.sq
      h == (a \div (launch.dim * launch.sq)) % launch.hq
      b == a \div (launch.dim * launch.sq * launch.hq)
      kvh == h \div (launch.hq \div launch.hkv)
      keys == 0..(launch.sk - launch.sq + qi)
      top == Max({Score(j) : j \in keys})
      dot(j) == {<<<<"q", b, h, qi, e>>, <<"k", b, kvh, j, e>>>> : e \in 0..(launch.dim - 1)}
  IN  /\ Len(v.num) = Cardinality(keys) /\ Len(v.den) = Cardinality(keys)
      /\ {v.num[j] : j \in DOMAIN v.num} =
           {[dot |-> dot(j), exp |-> Score(j) - top, value |-> <<"v", b, kvh, j, d>>] : j \in keys}
      /\ {v.den[j] : j \in DOMAIN v.den} =
           {[dot |-> dot(j), key |-> j, exp |-> Score(j) - top] : j \in keys}

\* Whatever the format, the number of rows, the heads and the length of the
\* context: an output of a linear layer is the sum over every input, once, of its
\* own row's activation times its own column's weight with the scales that weight
\* was stored with; an output of attention weighs every visible key and value of
\* its key head once, relative to the largest score of all, however the keys were
\* split over blocks.  CellsExact says of the same stores that none is missing and
\* none made twice.
DenseExact ==
  \A a \in DOMAIN stored.cells :
    /\ stored.by \in {"nvfp4", "fp8"} => LinearExact(a, stored.cells[a])
    /\ stored.by \in {"flash", "combine"} => AttentionExact(a, stored.cells[a])
=============================================================================
