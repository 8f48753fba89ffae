--------------------------- MODULE ExpertKernels ---------------------------
(***************************************************************************)
(* The fused expert kernels: a gate/up launch and a down launch over the   *)
(* assignments of one mixture-of-experts call, for every weight build and  *)
(* every kernel the hosts choose among.  A scalar kernel gives each output *)
(* a thread; a split-K kernel gives a block of BX lanes by KSplit stripes  *)
(* a tile of output lines, each thread sums its stripe into shared memory, *)
(* the block meets at a barrier and stripe 0 adds the stripes and stores.  *)
(* An output cell holds the terms that were summed into it, each read      *)
(* through the flat addresses the kernel computes.  Blocks share no memory *)
(* but the cells, so they run one after the other here; the threads of a   *)
(* block interleave.                                                       *)
(***************************************************************************)
EXTENDS WeightLayout, Sequences, SequencesExt

CONSTANTS
  Shapes,         \* the pairs [h, i] of hidden and inner sizes
  Formats,        \* the weight builds launched
  Assignments,    \* routings: assign_e, a sequence over the assignments
  TopK,           \* assignments per token
  Threads,        \* threads of a scalar block (256)
  BX,             \* output lines of a split-K block (SPLITK_BX)
  KSplit          \* its stripes (SPLITK_KSPLIT_GU, SPLITK_KSPLIT_DOWN)

\* assert_nvfp4_splitk: the split-K kernels take the step number for the block.
ASSUME KernelAssumption ==
  /\ TopK \in Nat \ {0} /\ Threads \in Nat \ {0} /\ BX \in Nat \ {0}
  /\ KSplit = Block
  /\ \A s \in Shapes : s.h % Block = 0 /\ s.i % Block = 0 /\ s.h % 2 = 0 /\ s.i % 2 = 0

VARIABLES
  launch,   \* the call: weight build, sizes, routing, outputs per thread
  weights,  \* the tensors of its build, per kernel, as they were loaded
  side,     \* "load", then the kernel that runs, "gu" or "dn", then "done"
  blk,      \* its block, CUBE_POS_X
  pc,       \* where each thread of a split-K block is
  shared,   \* the block's shared memory, the accumulators of each thread
  gu,       \* the stores made to each cell of the [N,I] intermediate
  out,      \* the stores made to each cell of the output
  stored    \* the cells the last step stored, with what it stored

expertVars == <<launch, weights, side, blk, pc, shared, gu, out, stored>>

\* The tensors a call hands to its kernels. Without CUDA the eager block
\* of Qwen3.5 has the output-major build of "nvfp4" for the kernels of nvfp4_kernels.rs.
Store(f, h, i) ==
  CASE f = "swiglu" -> MoeExpertCache(h, i)
    [] f = "bf16" -> ExpertBf16(h, i)
    [] f = "fp8" -> ExpertFp8(h, i)
    [] f \in {"nvfp4", "nvfp4_eager"} -> ExpertNvfp4(h, i)
    [] f = "twokernel" -> StreamedNvfp4(h, i)

\* The dimensions the entries assert, as the outer strides they leave. The
\* portable entries assert none of a weight; the eager block does before it calls.
Strides(t, s0, s1) == t.s0 = s0 /\ t.s1 = s1
AssertFusedShapes(w, h, i) == Strides(w.gu, h * i, i) /\ Strides(w.dn, i * h, h)
AssertFused35Shapes(w, h, i) == Strides(w.gu, 2 * i * h, h) /\ Strides(w.dn, h * i, i)
AssertFused35Fp8Shapes(w, h, i) ==
  /\ Strides(w.gu, h * 2 * i, 2 * i) /\ Strides(w.dn, i * h, h)
  /\ DOMAIN w.gu.s = Addr(NumExperts * 2 * i) /\ DOMAIN w.dn.s = Addr(NumExperts * h)
AssertFused35Nvfp4Shapes(w, h, i) ==
  /\ h % Block = 0 /\ i % Block = 0 /\ i % 2 = 0 /\ h % 2 = 0
  /\ Strides(w.gu, h * i, i) /\ Strides(w.dn, i * (h \div 2), h \div 2)
  /\ DOMAIN w.gu.s = Addr(NumExperts * 2 * i * (h \div Block))
  /\ DOMAIN w.gu.g = Addr(NumExperts * 2)
  /\ DOMAIN w.dn.s = Addr(NumExperts * h * (i \div Block))
  /\ DOMAIN w.dn.g = Addr(NumExperts)
Accepts(f, w, h, i) ==
  CASE f = "swiglu" -> AssertFusedShapes(w, h, i)
    [] f = "bf16" -> AssertFused35Shapes(w, h, i)
    [] f = "fp8" -> AssertFused35Fp8Shapes(w, h, i)
    [] f \in {"nvfp4", "nvfp4_eager"} -> AssertFused35Nvfp4Shapes(w, h, i)
    [] f = "twokernel" -> TRUE

H == launch.shape.h
I == launch.shape.i
N == Len(launch.assign)
AssignE(n) == launch.assign[n + 1]
Outputs(sd) == IF sd = "gu" THEN I ELSE H
Inputs(sd) == IF sd = "gu" THEN H ELSE I
Halves(sd) == IF sd = "gu" THEN {0, 1} ELSE {0}

(***************************************************************************)
(* The hosts: for the sizes s, the outputs each thread of a kernel sums,   *)
(* 1 for a scalar kernel.                                                  *)
(***************************************************************************)
\* The widest vector load that divides the innermost axis.
LineSize(axis, widest) == Max({v \in {1, 2, 4, 8, 16} : v <= widest /\ axis % v = 0})
OutAxis(s, sd) == IF sd = "gu" THEN s.i ELSE s.h
StackAxis(s, sd) == IF sd = "gu" THEN 2 * s.i ELSE s.h

RunFusedSwiglu(s, sd) == LineSize(OutAxis(s, sd), 8)

RunFused35Fp8Unaligned(s, sd) == LineSize(StackAxis(s, sd), 4)
RunFused35Fp8(s, sd) ==
  LET v == Min({LineSize(StackAxis(s, sd), 16), LineSize(StackAxis(s, sd), 4)})
  IN  IF v <= 1 \/ OutAxis(s, sd) % v # 0 THEN 1 ELSE v

\* Bytes per line, half as many as the f32 outputs they give.
Nvfp4PackedByteLineSize(s, sd) ==
  Min({LineSize(StackAxis(s, sd) \div 2, 16), LineSize(OutAxis(s, sd), 4) \div 2})
RunFused35Nvfp4(s, sd, path) ==
  LET v == Nvfp4PackedByteLineSize(s, sd)
  IN  IF path = "scalar" \/ v <= 1 \/ OutAxis(s, sd) % (2 * v) # 0 THEN 1 ELSE 2 * v

HostVo(f, s, sd, path) ==
  CASE f = "swiglu" -> RunFusedSwiglu(s, sd)
    [] f = "fp8" -> RunFused35Fp8(s, sd)
    [] f = "nvfp4" -> RunFused35Nvfp4(s, sd, path)
    [] OTHER -> 1
Vo(sd) == launch.vo[sd]

OLines(sd) == Outputs(sd) \div Vo(sd)
CeilDiv(a, b) == (a + b - 1) \div b
Tiles(sd) == CeilDiv(OLines(sd), BX)
Cells(sd) == IF sd = "gu" THEN gu ELSE out
CubeCount(sd) ==
  IF Vo(sd) = 1 THEN CeilDiv(Cardinality(DOMAIN Cells(sd)), Threads) ELSE N * Tiles(sd)

(***************************************************************************)
(* The kernels: the weight, block scale and outer scale a thread reads for *)
(* one output channel and one input k.  c is the channel of a scalar       *)
(* thread; a split-K thread has an output line and a lane in it.           *)
(***************************************************************************)
Plain(w) == <<w, 1, 1>>

\* The element at a lane of a line: strides counted in lines of v elements.
LineElem(v, t, e, line, k, lane) ==
  (e * (t.s0 \div v) + line + k * (t.s1 \div v)) * v + lane

FusedSwigluGu(t, e, half, c, k) == Plain(Read(t.q[half], e * t.s0 + c + k * t.s1))
FusedSwigluDown(t, e, c, k) == Plain(Read(t.q[0], e * t.s0 + c + k * t.s1))
FusedSwigluGuSplitk(t, e, half, v, line, lane, k) ==
  Plain(Read(t.q[half], LineElem(v, t, e, line, k, lane)))
FusedSwigluDownSplitk(t, e, v, line, lane, k) ==
  Plain(Read(t.q[0], LineElem(v, t, e, line, k, lane)))

Fused35GuBf16Scalar(t, e, half, c, k) ==
  Plain(Read(t.q, e * t.s0 + (c + half * I) * t.s1 + k))
Fused35DownBf16Scalar(t, e, c, k) == Plain(Read(t.q, e * t.s0 + c * t.s1 + k))

Fused35GuFp8Scalar(t, e, half, c, k) ==
  <<Read(t.q, e * t.s0 + (c + half * I) + k * t.s1), 1, Read(t.s, e * 2 * I + c + half * I)>>
Fused35DownFp8Scalar(t, e, c, k) ==
  <<Read(t.q, e * t.s0 + c + k * t.s1), 1, Read(t.s, e * H + c)>>
Fused35GuFp8Splitk(t, e, half, v, line, lane, k) ==
  LET l == line + half * OLines("gu")
  IN  <<Read(t.q, LineElem(v, t, e, l, k, lane)), 1,
        Read(t.s, (e * ((2 * I) \div v) + l) * v + lane)>>
Fused35DownFp8Splitk(t, e, v, line, lane, k) ==
  <<Read(t.q, LineElem(v, t, e, line, k, lane)), 1,
    Read(t.s, (e * (H \div v) + line) * v + lane)>>

\* A nibble of a byte; a byte that was not there has none.
Nibble(byte, high) == IF byte = Outside THEN Outside ELSE byte[1 + high]

\* Output-major bytes, a byte of two neighbouring channels of input k.
Fused35GuNvfp4Scalar(t, e, half, c, k) ==
  <<Nibble(Read(t.q, e * t.s0 + half * (I \div 2) + (c \div 2) + k * t.s1), c % 2),
    Read(t.s, (e * 2 * I + c + half * I) * (H \div Block) + (k \div Block)),
    Read(t.g, e * 2 + half)>>
Fused35DownNvfp4Scalar(t, e, c, k) ==
  <<Nibble(Read(t.q, e * t.s0 + (c \div 2) + k * t.s1), c % 2),
    Read(t.s, (e * H + c) * (I \div Block) + (k \div Block)),
    Read(t.g, e)>>

\* A line of v bytes, 2v channels; the step of the stripe is taken for the block.
Fused35GuNvfp4Splitk(t, e, half, v, line, lane, k) ==
  <<Nibble(Read(t.q, LineElem(v, t, e, line + half * OLines("gu"), k, lane \div 2)), lane % 2),
    Read(t.s, (e * 2 * I + line * 2 * v + lane + half * I) * (H \div Block) + (k \div KSplit)),
    Read(t.g, e * 2 + half)>>
Fused35DownNvfp4Splitk(t, e, v, line, lane, k) ==
  <<Nibble(Read(t.q, LineElem(v, t, e, line, k, lane \div 2)), lane % 2),
    Read(t.s, (e * H + line * 2 * v + lane) * (I \div Block) + (k \div KSplit)),
    Read(t.g, e)>>

\* The portable kernels: a row of bytes per channel, a byte of two inputs.
PortableGuNvfp4(t, e, half, c, k) ==
  <<Nibble(Read(t.q, e * t.s0 + (c + half * I) * t.s1 + (k \div 2)), k % 2),
    Read(t.s, (e * 2 * I + c + half * I) * (H \div Block) + (k \div Block)),
    Read(t.g, e * 2 + half)>>
PortableDownNvfp4(t, e, c, k) ==
  <<Nibble(Read(t.q, e * t.s0 + c * t.s1 + (k \div 2)), k % 2),
    Read(t.s, (e * H + c) * (I \div Block) + (k \div Block)),
    Read(t.g, e)>>

ScalarWeight(sd, e, half, c, k) ==
  LET t == weights[sd]
      f == launch.fmt
  IN  IF sd = "gu"
      THEN CASE f = "swiglu" -> FusedSwigluGu(t, e, half, c, k)
             [] f = "bf16" -> Fused35GuBf16Scalar(t, e, half, c, k)
             [] f = "fp8" -> Fused35GuFp8Scalar(t, e, half, c, k)
             [] f = "nvfp4" -> Fused35GuNvfp4Scalar(t, e, half, c, k)
             [] OTHER -> PortableGuNvfp4(t, e, half, c, k)
      ELSE CASE f = "swiglu" -> FusedSwigluDown(t, e, c, k)
             [] f = "bf16" -> Fused35DownBf16Scalar(t, e, c, k)
             [] f = "fp8" -> Fused35DownFp8Scalar(t, e, c, k)
             [] f = "nvfp4" -> Fused35DownNvfp4Scalar(t, e, c, k)
             [] OTHER -> PortableDownNvfp4(t, e, c, k)

SplitkWeight(sd, e, half, line, lane, k) ==
  LET t == weights[sd]
      f == launch.fmt
      v == IF f = "nvfp4" THEN Vo(sd) \div 2 ELSE Vo(sd)
  IN  IF sd = "gu"
      THEN CASE f = "swiglu" -> FusedSwigluGuSplitk(t, e, half, v, line, lane, k)
             [] f = "fp8" -> Fused35GuFp8Splitk(t, e, half, v, line, lane, k)
             [] f = "nvfp4" -> Fused35GuNvfp4Splitk(t, e, half, v, line, lane, k)
      ELSE CASE f = "swiglu" -> FusedSwigluDownSplitk(t, e, v, line, lane, k)
             [] f = "fp8" -> Fused35DownFp8Splitk(t, e, v, line, lane, k)
             [] f = "nvfp4" -> Fused35DownNvfp4Splitk(t, e, v, line, lane, k)

\* The activation of assignment n at input k: the token's row, or the
\* intermediate the first kernel left.
Activation(sd, n, k) ==
  IF sd = "gu" THEN <<"x", n \div TopK, k>>
  ELSE IF gu[n * I + k] > 0 THEN <<"gu", n * I + k>> ELSE Outside

(***************************************************************************)
(* The launches.                                                           *)
(***************************************************************************)
StoreAll(sd, vals) ==
  LET count(cells) == [a \in DOMAIN cells |-> IF a \in DOMAIN vals THEN cells[a] + 1 ELSE cells[a]]
  IN  /\ gu'  = IF sd = "gu" THEN count(gu) ELSE gu
      /\ out' = IF sd = "gu" THEN out ELSE count(out)
      /\ stored' = [by |-> sd, cells |-> vals]
NoCells == [by |-> "none", cells |-> None]
NoStore == UNCHANGED <<gu, out>> /\ stored' = NoCells

\* What a cell gets: the terms of the gate and of the up sum, or for each
\* assignment added into an output the terms its routing weight scales.
ScalarSum(sd, n, half, c) ==
  [j \in 1..Inputs(sd) |->
     <<Activation(sd, n, j - 1), ScalarWeight(sd, AssignE(n), half, c, j - 1)>>]

\* fused35_down_reduce_k8: an output row per token, its assignments in order.
DownReduceK8(pos) ==
  [n \in {(pos \div H) * TopK + s : s \in 0..(TopK - 1)} |-> ScalarSum("dn", n, 0, pos % H)]

ScalarCell(sd, pos) ==
  IF sd = "dn" /\ launch.fmt = "twokernel" THEN DownReduceK8(pos)
  ELSE LET n == pos \div Outputs(sd)
       IN  IF sd = "gu" THEN [half \in {0, 1} |-> ScalarSum(sd, n, half, pos % I)]
           ELSE [m \in {n} |-> ScalarSum(sd, n, 0, pos % H)]

Running == side \in {"gu", "dn"}
Lanes == 0..(BX - 1)
Stripes == 0..(KSplit - 1)
OutLine(lx) == (blk % Tiles(side)) * BX + lx
Active(lx) == OutLine(lx) < OLines(side)

NextKernel ==
  IF blk + 1 < CubeCount(side) THEN side' = side /\ blk' = blk + 1
  ELSE side' = (IF side = "gu" THEN "dn" ELSE "done") /\ blk' = 0

\* One thread per output cell of the block, each its whole sum.
ScalarBlock ==
  /\ Running /\ Vo(side) = 1
  /\ StoreAll(side, [a \in {p \in DOMAIN Cells(side) : p \div Threads = blk} |->
                       ScalarCell(side, a)])
  /\ NextKernel
  /\ UNCHANGED <<launch, weights, pc, shared>>

\* A thread sums its stripe, k = ky, ky + KSplit, ..., for every channel of its
\* line, leaves the sums in shared memory and reaches the barrier; a thread
\* past the last line leaves zeros and reaches it too.
Stripe(ky) == [j \in 1..CeilDiv(Inputs(side) - ky, KSplit) |-> ky + (j - 1) * KSplit]
StripeSum(n, lx, ky, half, lane) ==
  IF ~Active(lx) THEN <<>>
  ELSE [j \in DOMAIN Stripe(ky) |->
          <<Activation(side, n, Stripe(ky)[j]),
            SplitkWeight(side, AssignE(n), half, OutLine(lx), lane, Stripe(ky)[j])>>]
ArriveIfActive(lx) == IF Active(lx) THEN "barrier" ELSE "left"
Arrive(lx) == "barrier"
Accumulate(lx, ky) ==
  /\ Running /\ Vo(side) > 1
  /\ pc[<<lx, ky>>] = "run"
  /\ shared' = [shared EXCEPT ![<<lx, ky>>] =
                  [half \in Halves(side) |-> [lane \in 0..(Vo(side) - 1) |->
                     StripeSum(blk \div Tiles(side), lx, ky, half, lane)]]]
  /\ pc' = [pc EXCEPT ![<<lx, ky>>] = Arrive(lx)]
  /\ NoStore
  /\ UNCHANGED <<launch, weights, side, blk>>

\* sync_cube waits for every thread of the block.
AtBarrierAny == \E t \in DOMAIN pc : pc[t] = "barrier"
AtBarrier == \A t \in DOMAIN pc : pc[t] \in {"barrier", "done"}

\* Past the barrier stripe 0 adds the stripes in order and stores its line.
Reduce(lx) ==
  LET n == blk \div Tiles(side)
      first == (n * OLines(side) + OutLine(lx)) * Vo(side)
      sum(half, lane) == FlattenSeq([j \in 1..KSplit |-> shared[<<lx, j - 1>>][half][lane]])
  IN  /\ Running /\ Vo(side) > 1
      /\ pc[<<lx, 0>>] = "barrier" /\ AtBarrier /\ Active(lx)
      /\ StoreAll(side, [a \in first..(first + Vo(side) - 1) |->
           IF side = "gu" THEN [half \in {0, 1} |-> sum(half, a - first)]
           ELSE [m \in {n} |-> sum(0, a - first)]])
      /\ pc' = [pc EXCEPT ![<<lx, 0>>] = "done"]
      /\ UNCHANGED <<launch, weights, side, blk, shared>>

BlockEnd ==
  /\ Running /\ Vo(side) > 1
  /\ AtBarrier /\ \A lx \in Lanes : Active(lx) => pc[<<lx, 0>>] = "done"
  /\ pc' = [t \in DOMAIN pc |-> "run"]
  /\ NextKernel
  /\ NoStore
  /\ UNCHANGED <<launch, weights, shared>>

\* The calls of the hosts; the NVFP4 one may be forced onto the scalar kernels.
Launches ==
  {[fmt |-> f, shape |-> s, assign |-> a,
    vo |-> [sd \in {"gu", "dn"} |-> HostVo(f, s, sd, p)]] :
     f \in Formats, s \in Shapes, a \in Assignments, p \in {"auto", "scalar"}}
ExpertInit ==
  /\ launch \in Launches
  /\ weights = None /\ side = "load" /\ blk = 0
  /\ pc = [t \in Lanes \X Stripes |-> "run"]
  /\ shared = [t \in Lanes \X Stripes |-> [half \in {0, 1} |-> [lane \in 0..15 |-> <<Outside>>]]]
  /\ gu = [a \in Addr(N * I) |-> 0]
  /\ out = [a \in Addr((IF launch.fmt = "twokernel" THEN N \div TopK ELSE N) * H) |-> 0]
  /\ stored = NoCells

Load ==
  /\ side = "load" /\ side' = "gu"
  /\ weights' = Store(launch.fmt, H, I)
  /\ Accepts(launch.fmt, weights', H, I)
  /\ NoStore
  /\ UNCHANGED <<launch, blk, pc, shared>>

ExpertNext ==
  \/ Load
  \/ ScalarBlock
  \/ \E lx \in Lanes, ky \in Stripes : Accumulate(lx, ky)
  \/ \E lx \in Lanes : Reduce(lx)
  \/ BlockEnd

(***************************************************************************)
(* Properties.                                                             *)
(***************************************************************************)
\* The weight a build means by <<projection, expert, output, input>>: what it
\* stored for it and the scales that belong to it.
Meant(p, e, o, k) ==
  LET w == <<p, e, o, k>>
      blocked == <<p, e, o, k \div Block>>
  IN  CASE launch.fmt \in {"swiglu", "bf16"} -> <<w, 1, 1>>
        [] launch.fmt = "fp8" -> <<<<w, blocked, <<p, e>>>>, 1, {<<p, e, o>>}>>
        [] launch.fmt \in {"nvfp4", "nvfp4_eager"} -> <<w, blocked, <<p, e>>>>
        [] OTHER -> <<w, {blocked}, IF p = "down" THEN {<<p, e>>}
                                    ELSE {<<"gate", e>>, <<"up", e>>}>>

\* Every input once, with the activation and the weight that meet there.
Sums(terms, sd, p, n, c) ==
  /\ Len(terms) = Inputs(sd)
  /\ {terms[j] : j \in DOMAIN terms} =
       {<<IF sd = "gu" THEN <<"x", n \div TopK, k>> ELSE <<"gu", n * I + k>>,
          Meant(p, AssignE(n), c, k)>> : k \in 0..(Inputs(sd) - 1)}
GuExact(a, v) ==
  /\ Sums(v[0], "gu", "gate", a \div I, a % I)
  /\ Sums(v[1], "gu", "up", a \div I, a % I)
OutExact(a, v) ==
  /\ DOMAIN v = IF launch.fmt = "twokernel" THEN {n \in 0..(N - 1) : n \div TopK = a \div H}
                ELSE {a \div H}
  /\ \A n \in DOMAIN v : Sums(v[n], "dn", "down", n, a % H)

\* What is stored is the sum over every input, once each, of the right token's
\* activation times the weight of the right expert, half, channel and input with
\* the scales that weight was quantized with.
TermsExact ==
  \A a \in DOMAIN stored.cells :
    /\ stored.by = "gu" => GuExact(a, stored.cells[a])
    /\ stored.by = "dn" => OutExact(a, stored.cells[a])

\* Whatever the build, the sizes, the routing, the kernel the host picks and the
\* order its threads run in: a cell is stored once, and when the launch is over every
\* cell has been. Its terms are exact in every call but the eager block's over NVFP4
\* (qwen3_5/mod.rs:1319), whose kernels read another layout than the one it has.
CellsExact ==
  /\ \A a \in DOMAIN gu : gu[a] <= 1
  /\ \A a \in DOMAIN out : out[a] <= 1
  /\ side \in {"dn", "done"} => \A a \in DOMAIN gu : gu[a] = 1
  /\ side = "done" => \A a \in DOMAIN out : out[a] = 1
  /\ launch.fmt # "nvfp4_eager" => TermsExact

\* Every launch runs to its end: all threads of a block reach its barrier, those
\* past the last output line included.
LaunchEnds == <>(side = "done")
=============================================================================
