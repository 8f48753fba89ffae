---------------------------- MODULE MoeDispatch ----------------------------
(***************************************************************************)
(* How a sparse mixture-of-experts block sends tokens to experts and adds  *)
(* what they return: every forward path of Qwen3MoeSparseBlock (oracle,    *)
(* host-grouped, on-device with a capacity, dropless grouped, top-k        *)
(* gather) and of Qwen3_5SharedMoeBlock (host loop, fused kernels, static  *)
(* step), with the index tables they build on the device, and the choice   *)
(* of weights the Qwen3.5 block makes among its NVFP4, fp8 and bf16        *)
(* experts.  What an expert computes is a value named by the token it      *)
(* read, the expert and the routing weights that scale it; the arithmetic  *)
(* of one expert is ExpertKernels.                                         *)
(***************************************************************************)
EXTENDS Integers, FiniteSets, FiniteSetsExt

CONSTANTS
  MaxTokens,      \* tokens of a call, at most
  NumExperts,     \* experts of the block
  TopK,           \* experts per token
  RouterRows,     \* the rows of router probabilities a token may have, as ranks
  BlockM,         \* slots of a block of the dropless layout
  FusedMaxT       \* QWEN35_FUSED_MOE_MAX_T

ASSUME DispatchAssumption ==
  /\ MaxTokens \in Nat \ {0} /\ NumExperts \in Nat \ {0} /\ BlockM \in Nat \ {0}
  /\ TopK \in 1..NumExperts /\ FusedMaxT \in Nat
  /\ RouterRows \subseteq [0..(NumExperts - 1) -> Nat]

VARIABLES
  block,   \* the loaded block: build, formats held, fused switch
  probs,   \* router probabilities of the call's tokens
  sel,     \* sel[tok][slot]: the expert a token takes in a slot
  selW,    \* selW[tok][slot]: the probability the slot recorded
  out,     \* out[tok]: the bag of expert results added into the token's row
  used,    \* the path the call took and the weights it read
  graph    \* the captured static step: path and whether it was recorded

vars == <<block, probs, sel, selW, out, used, graph>>

Expert == 0..(NumExperts - 1)
Slots == 0..(TopK - 1)
Tokens == DOMAIN probs
N == Cardinality(Tokens) * TopK
Assign == 0..(N - 1)

(***************************************************************************)
(* Routing.                                                                *)
(***************************************************************************)
Penalty == 1000

\* What is pushed down is below every probability that is not.
ASSUME PenaltyAssumption == RouterRows \subseteq [Expert -> 0..(Penalty - 1)]

\* The iterated argmax of the device: pick a largest entry (ties go any
\* way), record it, push it far down, repeat.
ArgMaxes(row) == {e \in Expert : \A f \in Expert : row[f] <= row[e]}
Masked(row, gone) == [e \in Expert |-> IF e \in gone THEN row[e] - Penalty ELSE row[e]]
TopkSelect(row) ==
  {s \in [Slots -> Expert] :
     \A j \in Slots : s[j] \in ArgMaxes(Masked(row, {s[i] : i \in 0..(j - 1)}))}

\* The recorded value is read from the masked row of its round.
PickedValue(row, s, j) == Masked(row, {s[i] : i \in 0..(j - 1)})[s[j]]

\* The host sort of Qwen3.5: by probability, ties by expert number.
HostSoftmaxTopk(row) ==
  {s \in [Slots -> Expert] :
     \A j \in Slots :
       Cardinality({f \in Expert : row[f] > row[s[j]] \/ (row[f] = row[s[j]] /\ f < s[j])}) = j}

(***************************************************************************)
(* The flat list of assignments (token, expert), token-major.              *)
(***************************************************************************)
AssignTok(t, k) == [n \in 0..(t * k - 1) |-> n \div k]
AssignE(n) == sel[n \div TopK][n % TopK]

\* A scatter-add of val[n] into cell idx[n] of a zeroed buffer; a cell out of
\* range is lost.
ScatterAdd(size, idx, val) ==
  [c \in 0..(size - 1) |-> MapThenSumSet(LAMBDA n : val[n], {n \in Assign : idx[n] = c})]
ScatterWeights(size, idx) == [c \in 0..(size - 1) |-> {n \in Assign : idx[n] = c}]

Zero == [x |-> -1, e |-> -1, w |-> {}]
Row(x, e, w) == IF w = {} THEN Zero ELSE [x |-> x, e |-> e, w |-> w]

\* What a scatter-add of rows into tokens leaves in token k's row.
Combine(idx, rows) ==
  [k \in Tokens |->
     LET mine == {s \in DOMAIN rows : idx[s] = k /\ rows[s] # Zero}
     IN  [r \in {rows[s] : s \in mine} |-> Cardinality({s \in mine : rows[s] = r})]]

(***************************************************************************)
(* The forward paths: each gives out[tok] from sel.                        *)
(***************************************************************************)
\* The dense gate matrix: cell (tok, e) adds every slot that picked e.
GateW(tok, e) == {n \in Assign : n \div TopK = tok /\ AssignE(n) = e}

\* Every expert over every token, scaled by its gate column.
ForwardOracle ==
  LET cells == Tokens \X Expert
  IN  Combine([c \in cells |-> c[1]], [c \in cells |-> Row(c[1], c[2], GateW(c[1], c[2]))])

\* The routing read to the host, the tokens grouped by expert; each touched
\* expert runs on its own tokens and scatter-adds them back.
ByExpert(e) == {n \in Assign : AssignE(n) = e}
ForwardRouted ==
  LET work == {p \in Expert \X Assign : p[2] \in ByExpert(p[1])}
  IN  Combine([p \in work |-> p[2] \div TopK], [p \in work |-> Row(p[2] \div TopK, p[1], {p[2]})])

\* The place of an assignment among those of its expert: an inclusive count
\* down the one-hot column, less one.
RankOfInclusive(n) == Cardinality({m \in Assign : m <= n /\ AssignE(m) = AssignE(n)})
RankOf(n) == Cardinality({m \in Assign : m <= n /\ AssignE(m) = AssignE(n)}) - 1

\* Expert e owns cells e*c..e*c+c-1; an assignment past its expert's capacity
\* goes to the cell that is sliced off.  Tokens are stored plus one, so an
\* unwritten cell reads -1 and takes the zero row.
CapacityDest(c) ==
  [n \in Assign |->
     IF RankOf(n) >= c THEN NumExperts * c ELSE AssignE(n) * c + RankOf(n)]
ForwardRoutedOndevice(capacity) ==
  LET c == IF capacity < 1 THEN 1 ELSE capacity
      dest == CapacityDest(c)
      tokBuf == ScatterAdd(NumExperts * c + 1, dest, [n \in Assign |-> n \div TopK + 1])
      wBuf == ScatterWeights(NumExperts * c + 1, dest)
      cells == 0..(NumExperts * c - 1)
      tokens == [s \in cells |-> IF tokBuf[s] - 1 < 0 THEN Cardinality(Tokens) ELSE tokBuf[s] - 1]
  IN  Combine(tokens, [s \in cells |-> Row(tokens[s], s \div c, wBuf[s])])

\* The dropless layout: every expert's run of slots starts at a block
\* boundary, so a block holds one expert's tokens only.
CountE(e) == Cardinality({n \in Assign : AssignE(n) = e})
PaddedE(e) == ((CountE(e) + BlockM - 1) \div BlockM) * BlockM
BaseE(e) == MapThenSumSet(PaddedE, {f \in Expert : f < e})
NumBlocks == NumExperts + (N + BlockM - 1) \div BlockM
DroplessAlign ==
  LET dest == [n \in Assign |-> BaseE(AssignE(n)) + RankOf(n)]
      size == NumBlocks * BlockM
      tok == ScatterAdd(size, dest, [n \in Assign |-> n \div TopK + 1])
      exp == ScatterAdd(size, dest, [n \in Assign |-> AssignE(n) + 1])
  IN  [sorted_token  |-> [s \in 0..(size - 1) |-> tok[s] - 1],
       sorted_weight |-> ScatterWeights(size, dest),
       expert_ids    |-> [b \in 0..(NumBlocks - 1) |-> exp[b * BlockM] - 1],
       buffer        |-> size]

\* The grouped kernel takes the expert of the slot's block; a slot without a
\* token or in a block without an expert writes the zero row, and the combine
\* sends it to a row that is dropped.
ForwardGrouped ==
  LET lay == DroplessAlign
      row == [s \in 0..(lay.buffer - 1) |->
                IF lay.expert_ids[s \div BlockM] >= 0 /\ lay.sorted_token[s] >= 0
                THEN Row(lay.sorted_token[s], lay.expert_ids[s \div BlockM], lay.sorted_weight[s])
                ELSE Zero]
  IN  Combine([s \in DOMAIN row |->
                 IF lay.sorted_token[s] < 0 THEN Cardinality(Tokens) ELSE lay.sorted_token[s]], row)

\* The gather decode: one row per assignment, from the slabs of its expert
\* and the token index the caller hoisted out of the step.
DecodeTopk(assignTok) ==
  Combine(assignTok, [n \in Assign |-> Row(assignTok[n], AssignE(n), {n})])

\* The fused Qwen3.5 kernels find the token of an assignment by division, and
\* their rows are summed token by token in slot order.
CombineTokenMajor(rows) == Combine([n \in Assign |-> n \div TopK], rows)
FusedGu2Down == CombineTokenMajor([n \in Assign |-> Row(n \div TopK, AssignE(n), {n})])

(***************************************************************************)
(* The Qwen3.5 block: which weights a call reads.                          *)
(***************************************************************************)
Builds == {"cuda", "metal", "cpu"}
Formats == {"nvfp4", "fp8", "bf16"}

\* The formats a build can hold: fp8 sidecars exist on CUDA only, and a block
\* with quantized experts may have dropped its bf16 stacks.
Blocks == {b \in [build : Builds, has : SUBSET Formats, fused : BOOLEAN] :
             /\ b.has # {}
             /\ "fp8" \in b.has => b.build = "cuda"
             /\ "nvfp4" \in b.has => b.has = {"nvfp4"}}

First(prefs) == IF prefs[1] \in block.has THEN prefs[1]
                ELSE IF prefs[2] \in block.has THEN prefs[2] ELSE prefs[3]

\* The fused arms of forward_impl, in their order; "host" when none applies.
FusedArm(fusedExperts) ==
  IF ~(fusedExperts /\ block.build # "cpu" /\ block.fused /\ Cardinality(Tokens) <= FusedMaxT)
  THEN "host"
  ELSE IF "nvfp4" \in block.has THEN "nvfp4"
  ELSE IF block.build = "cuda" /\ block.has \cap {"fp8", "bf16"} # {} THEN First(<<"fp8", "bf16", "bf16">>)
  ELSE "host"

\* The format expert_forward reads in the host loop.
ExpertForwardFormat == First(<<"nvfp4", "fp8", "bf16">>)

\* What the static step requires, and what preflight_static answers before it;
\* off CUDA the static step is the host loop and asks nothing.
StaticReady == block.build # "cuda" \/ (block.fused /\ Cardinality(Tokens) <= FusedMaxT)
StaticFormat == IF block.build = "cuda" THEN FusedArm(TRUE) ELSE ExpertForwardFormat

(***************************************************************************)
(* Calls.  A call routes its tokens and then runs one forward path; used   *)
(* names the path, the capacity where there is one and the format read.    *)
(***************************************************************************)
Calls == UNION {[0..(t - 1) -> RouterRows] : t \in 1..MaxTokens}
Unused == [path |-> "none", cap |-> 0, format |-> "none"]

Init ==
  /\ block \in Blocks
  /\ probs \in Calls
  /\ sel = <<>> /\ selW = <<>> /\ out = <<>> /\ used = Unused /\ graph = "none"

\* Pick experts for every token and record their probabilities.
Route(choices(_)) ==
  /\ sel' \in {s \in [Tokens -> [Slots -> Expert]] : \A tok \in Tokens : s[tok] \in choices(probs[tok])}
  /\ selW' = [tok \in Tokens |-> [j \in Slots |-> PickedValue(probs[tok], sel'[tok], j)]]

Qwen3Route ==
  /\ used = Unused /\ graph = "none"
  /\ block.has = {"bf16"}
  /\ Route(TopkSelect)
  /\ used' = [Unused EXCEPT !.path = "qwen3"]
  /\ UNCHANGED <<block, probs, out, graph>>

Qwen3Out(path) ==
  CASE path = "oracle"   -> ForwardOracle
    [] path = "routed"   -> ForwardRouted
    [] path = "ondevice" -> ForwardRoutedOndevice(Cardinality(Tokens))
    [] path = "grouped"  -> ForwardGrouped
    [] path = "decode"   -> DecodeTopk(AssignTok(Cardinality(Tokens), TopK))
Qwen3Forward ==
  /\ used.path = "qwen3"
  /\ \E path \in {"oracle", "routed", "ondevice", "grouped", "decode"} :
       /\ path = "grouped" => block.build = "cuda"
       /\ out' = Qwen3Out(path)
       /\ used' = [path |-> path, cap |-> MaxTokens, format |-> "bf16"]
  /\ UNCHANGED <<block, probs, sel, selW, graph>>

\* A caller of the on-device path with a capacity of its own.
Qwen3Capped ==
  /\ used.path = "qwen3"
  /\ \E c \in 0..MaxTokens :
       /\ out' = ForwardRoutedOndevice(c)
       /\ used' = [path |-> "ondevice", cap |-> IF c < 1 THEN 1 ELSE c, format |-> "bf16"]
  /\ UNCHANGED <<block, probs, sel, selW, graph>>

Qwen35Route ==
  /\ used = Unused
  /\ Route(HostSoftmaxTopk)
  /\ used' = [Unused EXCEPT !.path = IF graph = "recording" THEN "static" ELSE "qwen35"]
  /\ graph' = IF graph = "recording" THEN "synced" ELSE graph
  /\ UNCHANGED <<block, probs, out>>

Qwen35Forward ==
  /\ used.path = "qwen35"
  /\ LET arm == FusedArm(TRUE) IN
       IF arm = "host"
       THEN out' = ForwardRouted /\ used' = [path |-> "host", cap |-> MaxTokens, format |-> ExpertForwardFormat]
       ELSE out' = FusedGu2Down /\ used' = [path |-> "fused", cap |-> MaxTokens, format |-> arm]
  /\ UNCHANGED <<block, probs, sel, selW, graph>>

\* The decode step of one token, recorded into a CUDA graph after a preflight.
BeginCapture ==
  /\ used = Unused /\ graph = "none"
  /\ block.build = "cuda" /\ StaticReady /\ Cardinality(Tokens) = 1
  /\ graph' = "recording"
  /\ UNCHANGED <<block, probs, sel, selW, out, used>>

\* The static step of the Qwen3 block: routed on the device, gathered with the
\* token index built for one token.
Qwen3StaticStep ==
  /\ used = Unused /\ graph = "recording"
  /\ block.has = {"bf16"}
  /\ Route(TopkSelect)
  /\ used' = [Unused EXCEPT !.path = "moe_static"]
  /\ UNCHANGED <<block, probs, out, graph>>

StaticCombine ==
  /\ used.path \in {"static", "moe_static"}
  /\ out' = IF used.path = "static" THEN FusedGu2Down ELSE DecodeTopk(AssignTok(1, TopK))
  /\ used' = [used EXCEPT !.path = "captured", !.cap = MaxTokens,
                          !.format = IF used.path = "static" THEN StaticFormat ELSE "bf16"]
  /\ UNCHANGED <<block, probs, sel, selW, graph>>

Next ==
  \/ Qwen3Route \/ Qwen3Forward \/ Qwen3Capped
  \/ Qwen35Route \/ Qwen35Forward
  \/ BeginCapture \/ Qwen3StaticStep \/ StaticCombine

Spec == Init /\ [][Next]_vars

(***************************************************************************)
(* Properties.                                                             *)
(***************************************************************************)
Done == used.format # "none"

\* The assignments of a token that its expert has room for.
Kept(tok) == {n \in Assign : n \div TopK = tok /\ RankOf(n) < used.cap}
Wanted(tok) == {[x |-> tok, e |-> AssignE(n), w |-> {n}] : n \in Kept(tok)}

\* Every path, however it groups, ranks, pads or drops, adds into a token's row
\* the result of each expert the token was routed to, once, computed on that
\* token's input and scaled by that pair's own weight, and nothing else; a
\* capacity below an expert's count loses the expert's last tokens only. Prefill
\* in the host loop, a fused call and the captured step of one block all read
\* the same copy of its weights, so decode continues the prefill.
AddsItsExperts ==
  Done => /\ \A tok \in Tokens : out[tok] = [r \in Wanted(tok) |-> 1]
          /\ used.format = ExpertForwardFormat
=============================================================================
