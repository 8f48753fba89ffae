--------------------------- MODULE WeightLayout ---------------------------
(***************************************************************************)
(* How the weights of an expert lie in memory, from the checkpoint to the  *)
(* tensor a kernel reads.  A tensor is a function from flat addresses to   *)
(* the logical weight stored there, <<projection, expert, output, input>>; *)
(* an NVFP4 byte is a pair <<low nibble, high nibble>> of weights, and a   *)
(* scale is named by what it scales.  Nothing here is the identity: each   *)
(* operator moves addresses as the loop it stands for does.                *)
(***************************************************************************)
EXTENDS Integers, FiniteSets

CONSTANTS
  NumExperts,     \* E, stacked experts
  Block           \* weights that share an NVFP4 block scale (16)

ASSUME LayoutAssumption == NumExperts \in Nat \ {0} /\ Block \in Nat \ {0}

Addr(n) == 0..(n - 1)
Outside == <<"outside">>

\* A read at a flat address; past the end it returns nothing of the tensor.
Read(t, a) == IF a \in DOMAIN t THEN t[a] ELSE Outside

\* extend_from_slice of two flat buffers, and of one buffer per expert.
Cat(s, t) ==
  LET n == Cardinality(DOMAIN s)
  IN  [a \in Addr(n + Cardinality(DOMAIN t)) |-> IF a < n THEN s[a] ELSE t[a - n]]
Stack(part, len) == [a \in Addr(NumExperts * len) |-> part[a \div len][a % len]]

(***************************************************************************)
(* The checkpoints.                                                        *)
(***************************************************************************)
\* ModelOpt: packed weight [N,K/2], the even input in the low nibble, block
\* scales [N,K/16], one second-level scale per projection.
ProjectionParts(p, e, n, k, b) ==
  [qw |-> [a \in Addr(n * (k \div 2)) |->
             LET o == a \div (k \div 2)
                 c == 2 * (a % (k \div 2))
             IN  <<<<p, e, o, c>>, <<p, e, o, c + 1>>>>],
   bs |-> [a \in Addr(n * (k \div b)) |->
             <<p, e, a \div (k \div b), a % (k \div b)>>],
   gscale |-> <<p, e>>, k |-> k, n |-> n]

\* bf16 stacks: gate_up [E,2I,H] with the gate rows first, down [E,H,I].
GateUpRow(e, r, c, i) == IF r < i THEN <<"gate", e, r, c>> ELSE <<"up", e, r - i, c>>
Bf16GateUp(h, i) ==
  [a \in Addr(NumExperts * 2 * i * h) |->
     GateUpRow(a \div (2 * i * h), (a \div h) % (2 * i), a % h, i)]
Bf16Down(h, i) ==
  [a \in Addr(NumExperts * h * i) |-> <<"down", a \div (h * i), (a \div i) % h, a % i>>]

\* The 30B stacks, Burn linears [in,out] side by side: gate, up [E,H,I] and
\* down [E,I,H].
LinearStack(p, k, n) ==
  [a \in Addr(NumExperts * k * n) |-> <<p, a \div (k * n), a % n, (a \div n) % k>>]

(***************************************************************************)
(* Repacking and requantizing.                                             *)
(***************************************************************************)
\* [N,K/2], inputs paired, to [K,N/2], outputs paired.
RepackSwapped(q, k, n) ==
  [a \in Addr(k * (n \div 2)) |->
     LET kk == a \div (n \div 2)
         nibble(o) == q[o * (k \div 2) + (kk \div 2)][1 + (kk % 2)]
     IN  <<nibble(2 * (a % (n \div 2)) + 1), nibble(2 * (a % (n \div 2)))>>]
RepackKmajorToOutmajor(q, k, n) ==
  [a \in Addr(k * (n \div 2)) |->
     LET kk == a \div (n \div 2)
         nibble(o) == q[o * (k \div 2) + (kk \div 2)][1 + (kk % 2)]
     IN  <<nibble(2 * (a % (n \div 2))), nibble(2 * (a % (n \div 2)) + 1)>>]

\* One expert's NVFP4 parts: gate rows then up rows, each half with its own
\* second-level scale.
FuseExpertNvfp4Parts(e, h, i) ==
  LET gate == ProjectionParts("gate", e, i, h, Block)
      up   == ProjectionParts("up", e, i, h, Block)
      down == ProjectionParts("down", e, h, i, Block)
  IN  [qw_gu |-> RepackKmajorToOutmajor(Cat(gate.qw, up.qw), h, 2 * i),
       bs_gu |-> Cat(gate.bs, up.bs),
       gscale_gu |-> [half \in {0, 1} |-> IF half = 0 THEN gate.gscale ELSE up.gscale],
       qw_dn |-> RepackKmajorToOutmajor(down.qw, i, h),
       bs_dn |-> down.bs,
       gscale_dn |-> down.gscale]

\* The dequantized weight [K,N], row-major: nibble, block scale, global scale.
DequantOutmajor(q, bs, gscale, k, n) ==
  [a \in Addr(k * n) |->
     LET kk == a \div n
         nn == a % n
     IN  <<q[kk * (n \div 2) + (nn \div 2)][1 + (nn % 2)],
           bs[nn * (k \div Block) + (kk \div Block)], gscale[nn]>>]

\* One scale per output channel, from the largest magnitude of its column;
\* the scale is named by the rows that were in the column.
ChannelScale(w, k, n) ==
  [c \in Addr(n) |-> {<<w[kk * n + c][1][1], w[kk * n + c][1][2], w[kk * n + c][1][3]>> :
                        kk \in Addr(k)}]

(***************************************************************************)
(* What each build of the block stores: per side, the weight tensor, the   *)
(* scale tensors and the two outer strides of a rank-3 weight.             *)
(***************************************************************************)
None == [a \in {} |-> 0]
Tensors(q, s, g, s0, s1) == [q |-> q, s |-> s, g |-> g, s0 |-> s0, s1 |-> s1]

\* ExpertNvfp4: output-major bytes [E,H,I] and [E,I,H/2].
ExpertNvfp4(h, i) ==
  LET part == [e \in Addr(NumExperts) |-> FuseExpertNvfp4Parts(e, h, i)]
      Of(field) == [e \in Addr(NumExperts) |-> part[e][field]]
  IN  [gu |-> Tensors(Stack(Of("qw_gu"), h * i), Stack(Of("bs_gu"), 2 * i * (h \div Block)),
                      Stack(Of("gscale_gu"), 2), h * i, i),
       dn |-> Tensors(Stack(Of("qw_dn"), i * (h \div 2)), Stack(Of("bs_dn"), h * (i \div Block)),
                      Of("gscale_dn"), i * (h \div 2), h \div 2)]

\* ExpertFp8, made from the NVFP4 parts: bytes [E,H,2I] and [E,I,H], a scale
\* per output channel.
ExpertFp8(h, i) ==
  LET part == [e \in Addr(NumExperts) |-> FuseExpertNvfp4Parts(e, h, i)]
      gu == [e \in Addr(NumExperts) |->
               DequantOutmajor(part[e].qw_gu, part[e].bs_gu,
                               [nn \in Addr(2 * i) |-> part[e].gscale_gu[IF nn < i THEN 0 ELSE 1]],
                               h, 2 * i)]
      dn == [e \in Addr(NumExperts) |->
               DequantOutmajor(part[e].qw_dn, part[e].bs_dn,
                               [nn \in Addr(h) |-> part[e].gscale_dn], i, h)]
      Scales(w, k, n) == Stack([e \in Addr(NumExperts) |-> ChannelScale(w[e], k, n)], n)
  IN  [gu |-> Tensors(Stack(gu, h * 2 * i), Scales(gu, h, 2 * i), None, h * 2 * i, 2 * i),
       dn |-> Tensors(Stack(dn, i * h), Scales(dn, i, h), None, i * h, h)]

\* The codec, b weights of one output to a block: it pairs neighbouring inputs,
\* takes each block scale from the weights of the block and the second-level
\* scale from all of them.  at is where the weight of an output and an input is.
ScaleSources(ws, b) == {<<w[1], w[2], w[3], w[4] \div b>> : w \in ws}
Quantized(w, at, n, k, b) ==
  [qw |-> [a \in Addr(n * (k \div 2)) |->
             LET o == a \div (k \div 2)
                 c == 2 * (a % (k \div 2))
             IN  <<w[at[o, c]], w[at[o, c + 1]]>>],
   bs |-> [a \in Addr(n * (k \div b)) |->
             LET o == a \div (k \div b)
                 k0 == b * (a % (k \div b))
             IN  ScaleSources({w[at[o, k0 + j]] : j \in Addr(b)}, b)],
   gscale |-> {<<w[a][1], w[a][2]>> : a \in DOMAIN w}]

\* From a Burn weight [K,N], and from the rows [N,K] of a checkpoint.
QuantizeNvfp4(w, k, n, b) ==
  Quantized(w, [o \in Addr(n), c \in Addr(k) |-> c * n + o], n, k, b)
QuantizeNvfp4FromNkBf16(w, k, n, b) ==
  Quantized(w, [o \in Addr(n), c \in Addr(k) |-> o * k + c], n, k, b)

\* The streamed pool: each fused projection of an expert goes through the codec
\* as one matrix, so gate and up share a second-level scale.
PackOutIn(row, n, k) ==
  QuantizeNvfp4FromNkBf16([a \in Addr(n * k) |-> row[a \div k, a % k]], k, n, Block)
StreamedNvfp4(h, i) ==
  LET gu == [e \in Addr(NumExperts) |->
               PackOutIn([r \in Addr(2 * i), c \in Addr(h) |-> GateUpRow(e, r, c, i)], 2 * i, h)]
      dn == [e \in Addr(NumExperts) |->
               PackOutIn([r \in Addr(h), c \in Addr(i) |-> <<"down", e, r, c>>], h, i)]
      Of(packed, field) == [e \in Addr(NumExperts) |-> packed[e][field]]
  IN  [gu |-> Tensors(Stack(Of(gu, "qw"), i * h), Stack(Of(gu, "bs"), 2 * i * (h \div Block)),
                      [a \in Addr(2 * NumExperts) |-> gu[a \div 2].gscale], i * h, h \div 2),
       dn |-> Tensors(Stack(Of(dn, "qw"), h * (i \div 2)), Stack(Of(dn, "bs"), h * (i \div Block)),
                      Of(dn, "gscale"), h * (i \div 2), i \div 2)]

ExpertBf16(h, i) ==
  [gu |-> Tensors(Bf16GateUp(h, i), None, None, 2 * i * h, h),
   dn |-> Tensors(Bf16Down(h, i), None, None, h * i, i)]
MoeExpertCache(h, i) ==
  [gu |-> Tensors([half \in {0, 1} |-> LinearStack(IF half = 0 THEN "gate" ELSE "up", h, i)],
                  None, None, h * i, i),
   dn |-> Tensors([half \in {0} |-> LinearStack("down", i, h)], None, None, i * h, h)]
=============================================================================
