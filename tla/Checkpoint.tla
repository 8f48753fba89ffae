----------------------------- MODULE Checkpoint -----------------------------
(* What the loaders of Qwen3.6 agree or disagree about, as tables: the      *)
(* tensors a configuration expects and their shapes, the setter each tensor *)
(* name is dispatched to, the roles under which the quantizers address a    *)
(* projection, and the tensor groups of a quantized checkpoint.             *)
(* A tensor name is <<owner, index, base, tag>>: the owner is the top level *)
(* ("top"), a language layer ("L"), the multi-token-prediction block        *)
(* ("mtp") or one of its layers ("mtpL"); the tag is the last component of  *)
(* the name ("weight", one of the scales, or "" for a bare tensor).         *)
EXTENDS Integers, Sequences, FiniteSets, TLC

CONSTANTS
  LayerTypes,  \* "gdn" or "full", one per language layer
  MtpLayers,   \* mtp_num_hidden_layers
  Experts,     \* num_experts
  Dims         \* sizes: vocab, hidden, qkv, v, heads, conv, vhead, q, kv, o, head, inter, shared

ASSUME CheckpointAssumption ==
  /\ LayerTypes \in Seq({"gdn", "full"}) /\ Len(LayerTypes) > 0
  /\ MtpLayers \in Nat /\ Experts \in Nat \ {0}
  /\ DOMAIN Dims = {"vocab", "hidden", "qkv", "v", "heads", "conv", "vhead", "q", "kv", "o",
                    "head", "inter", "shared"}
  /\ \A d \in DOMAIN Dims : Dims[d] \in Nat \ {0}

Layers == 0 .. Len(LayerTypes) - 1
KindOf(i) == LayerTypes[i + 1]

Bare == {"linear_attn.A_log", "linear_attn.dt_bias",
         "mlp.experts.gate_up_proj", "mlp.experts.down_proj"}
TagOf(base) == IF base \in Bare THEN "" ELSE "weight"
Name(owner, i, base) == <<owner, i, base, TagOf(base)>>
BaseOf(name) == <<name[1], name[2], name[3]>>

-----------------------------------------------------------------------------
(* expected_weight_shapes: every tensor of the model, in the [out, in]      *)
(* order of the files.                                                      *)

MlpShapes ==
  ("mlp.gate" :> <<Experts, Dims.hidden>>) @@
  ("mlp.experts.gate_up_proj" :> <<Experts, 2 * Dims.inter, Dims.hidden>>) @@
  ("mlp.experts.down_proj" :> <<Experts, Dims.hidden, Dims.inter>>) @@
  ("mlp.shared_expert.gate_proj" :> <<Dims.shared, Dims.hidden>>) @@
  ("mlp.shared_expert.up_proj" :> <<Dims.shared, Dims.hidden>>) @@
  ("mlp.shared_expert.down_proj" :> <<Dims.hidden, Dims.shared>>) @@
  ("mlp.shared_expert_gate" :> <<1, Dims.hidden>>)

LayerShapes(kind) ==
  ("input_layernorm" :> <<Dims.hidden>>) @@
  ("post_attention_layernorm" :> <<Dims.hidden>>) @@ MlpShapes @@
  (IF kind = "gdn"
   THEN ("linear_attn.in_proj_qkv" :> <<Dims.qkv, Dims.hidden>>) @@
        ("linear_attn.in_proj_a" :> <<Dims.heads, Dims.hidden>>) @@
        ("linear_attn.in_proj_b" :> <<Dims.heads, Dims.hidden>>) @@
        ("linear_attn.in_proj_z" :> <<Dims.v, Dims.hidden>>) @@
        ("linear_attn.A_log" :> <<Dims.heads>>) @@
        ("linear_attn.dt_bias" :> <<Dims.heads>>) @@
        ("linear_attn.conv1d" :> <<Dims.qkv, 1, Dims.conv>>) @@
        ("linear_attn.norm" :> <<Dims.vhead>>) @@
        ("linear_attn.out_proj" :> <<Dims.hidden, Dims.v>>)
   ELSE ("self_attn.q_proj" :> <<Dims.q, Dims.hidden>>) @@
        ("self_attn.k_proj" :> <<Dims.kv, Dims.hidden>>) @@
        ("self_attn.v_proj" :> <<Dims.kv, Dims.hidden>>) @@
        ("self_attn.o_proj" :> <<Dims.hidden, Dims.o>>) @@
        ("self_attn.q_norm" :> <<Dims.head>>) @@
        ("self_attn.k_norm" :> <<Dims.head>>))

TopShapes == ("lm_head" :> <<Dims.vocab, Dims.hidden>>) @@
             ("embed_tokens" :> <<Dims.vocab, Dims.hidden>>) @@
             ("norm" :> <<Dims.hidden>>)
MtpShapes == ("pre_fc_norm_embedding" :> <<Dims.hidden>>) @@
             ("pre_fc_norm_hidden" :> <<Dims.hidden>>) @@
             ("fc" :> <<Dims.hidden, 2 * Dims.hidden>>) @@
             ("norm" :> <<Dims.hidden>>)

ShapesOf(owner, i) == CASE owner = "top"  -> TopShapes
                        [] owner = "mtp"  -> MtpShapes
                        [] owner = "mtpL" -> LayerShapes("full")
                        [] owner = "L"    -> LayerShapes(KindOf(i))

Places == {<<"top", 0>>, <<"mtp", 0>>} \union {<<"L", i>> : i \in Layers}
            \union {<<"mtpL", i>> : i \in 0 .. MtpLayers - 1}
Expected == UNION {{Name(p[1], p[2], b) : b \in DOMAIN ShapesOf(p[1], p[2])} : p \in Places}
ShapeOf(name) == ShapesOf(name[1], name[2])[name[3]]

-----------------------------------------------------------------------------
(* load_qwen35_tensor and the matches it descends through: the setter a     *)
(* name ends at, "" when some match has no arm for it.                      *)

MlpSetter(base) ==
  IF base \in {"mlp.experts.gate_up_proj", "mlp.experts.down_proj"} THEN "param3"
  ELSE IF base \in {"mlp.gate", "mlp.shared_expert.gate_proj", "mlp.shared_expert.up_proj",
                    "mlp.shared_expert.down_proj", "mlp.shared_expert_gate"}
       THEN "linear" ELSE ""

NormSetter(base) ==
  IF base \in {"input_layernorm", "post_attention_layernorm"} THEN "norm" ELSE MlpSetter(base)

\* The gated norm of Gated DeltaNet loaded like every other norm.
GdnSetterOffset(base) ==
  CASE base \in {"linear_attn.in_proj_qkv", "linear_attn.in_proj_a", "linear_attn.in_proj_b",
                 "linear_attn.in_proj_z", "linear_attn.out_proj"} -> "linear"
    [] base \in {"linear_attn.A_log", "linear_attn.dt_bias"} -> "param1"
    [] base = "linear_attn.conv1d" -> "param3"
    [] base = "linear_attn.norm" -> "norm"
    [] OTHER -> NormSetter(base)

GdnSetter(base) ==
  CASE base \in {"linear_attn.in_proj_qkv", "linear_attn.in_proj_a", "linear_attn.in_proj_b",
                 "linear_attn.in_proj_z", "linear_attn.out_proj"} -> "linear"
    [] base \in {"linear_attn.A_log", "linear_attn.dt_bias"} -> "param1"
    [] base = "linear_attn.conv1d" -> "param3"
    [] base = "linear_attn.norm" -> "plain"
    [] OTHER -> NormSetter(base)

FullSetter(base) ==
  CASE base \in {"self_attn.q_proj", "self_attn.k_proj", "self_attn.v_proj", "self_attn.o_proj"}
         -> "linear"
    [] base \in {"self_attn.q_norm", "self_attn.k_norm"} -> "norm"
    [] OTHER -> NormSetter(base)

LayerSetter(kind, base) == IF kind = "gdn" THEN GdnSetter(base) ELSE FullSetter(base)

LanguageSetter(owner, i, base) ==
  CASE owner = "top" -> (CASE base = "lm_head" -> "linear"
                           [] base = "embed_tokens" -> "embedding"
                           [] base = "norm" -> "norm"
                           [] OTHER -> "")
    [] owner = "L" -> IF i \in Layers THEN LayerSetter(KindOf(i), base) ELSE ""

MtpSetter(owner, i, base) ==
  IF owner = "mtp"
  THEN IF base \in {"pre_fc_norm_embedding", "pre_fc_norm_hidden", "norm"} THEN "norm"
       ELSE IF base = "fc" THEN "linear" ELSE ""
  ELSE IF i \in 0 .. MtpLayers - 1 THEN FullSetter(base) ELSE ""

Setter(name) ==
  IF name[4] # TagOf(name[3]) THEN ""
  ELSE CASE name[1] \in {"top", "L"} -> LanguageSetter(name[1], name[2], name[3])
         [] name[1] \in {"mtp", "mtpL"} -> MtpSetter(name[1], name[2], name[3])
         [] OTHER -> ""

\* What a setter leaves in the parameter: whose tensor it is, the offset folded into it and
\* the number format it is stored in.
Stored(name) ==
  LET s == Setter(name)
  IN [of |-> name, offset |-> IF s = "norm" THEN 1 ELSE 0,
      form |-> IF s \in {"norm", "plain", "param1"} THEN "f32" ELSE "bf16"]

-----------------------------------------------------------------------------
(* Roles: the names under which the quantizers address a projection, here   *)
(* <<owner, index, tail>>.                                                  *)

ResidentTail(base) ==
  CASE base = "self_attn.q_proj" -> "attn.q_proj"
    [] base = "self_attn.k_proj" -> "attn.k_proj"
    [] base = "self_attn.v_proj" -> "attn.v_proj"
    [] base = "self_attn.o_proj" -> "attn.o_proj"
    [] base = "linear_attn.in_proj_qkv" -> "gdn.in_proj_qkv"
    [] base = "linear_attn.in_proj_a" -> "gdn.in_proj_a"
    [] base = "linear_attn.in_proj_b" -> "gdn.in_proj_b"
    [] base = "linear_attn.in_proj_z" -> "gdn.in_proj_z"
    [] base = "linear_attn.out_proj" -> "gdn.out_proj"
    [] base = "mlp.shared_expert.gate_proj" -> "moe.shared.gate_proj"
    [] base = "mlp.shared_expert.up_proj" -> "moe.shared.up_proj"
    [] base = "mlp.shared_expert.down_proj" -> "moe.shared.down_proj"
    [] OTHER -> ""

\* resident_nvfp4_role: no role for the embedding, the routers and whatever has no tail.
NoRole == <<"none", 0, "">>
ResidentRole(name) ==
  LET tail == ResidentTail(name[3])
  IN CASE name[1] = "top" /\ name[3] = "lm_head" -> <<"top", 0, "lm_head">>
       [] name[1] = "mtp" /\ name[3] = "fc" -> <<"mtp", 0, "fc">>
       [] name[1] \in {"L", "mtpL"} /\ tail # "" -> <<name[1], name[2], tail>>
       [] OTHER -> NoRole

SlotMlp == ("moe.shared.gate_proj" :> "mlp.shared_expert.gate_proj") @@
           ("moe.shared.up_proj" :> "mlp.shared_expert.up_proj") @@
           ("moe.shared.down_proj" :> "mlp.shared_expert.down_proj")
SlotGdn == ("gdn.in_proj_qkv" :> "linear_attn.in_proj_qkv") @@
           ("gdn.in_proj_a" :> "linear_attn.in_proj_a") @@
           ("gdn.in_proj_b" :> "linear_attn.in_proj_b") @@
           ("gdn.in_proj_z" :> "linear_attn.in_proj_z") @@
           ("gdn.out_proj" :> "linear_attn.out_proj") @@ SlotMlp
SlotFull == ("attn.q_proj" :> "self_attn.q_proj") @@
            ("attn.k_proj" :> "self_attn.k_proj") @@
            ("attn.v_proj" :> "self_attn.v_proj") @@
            ("attn.o_proj" :> "self_attn.o_proj") @@ SlotMlp
\* linear_by_role_mut also knows the two routers, which have no sidecar.
GateTails == ("moe.gate" :> "mlp.gate") @@ ("moe.shared_gate" :> "mlp.shared_expert_gate")

NoSlot == <<"none", 0, "", "">>

\* The parameter that the role addresses in a table of tails, NoSlot when the table has none.
SlotIn(role, gdn, full) ==
  LET table == IF role[1] = "mtpL" \/ KindOf(role[2]) = "full" THEN full ELSE gdn
  IN CASE role = <<"top", 0, "lm_head">> -> Name("top", 0, "lm_head")
       [] role = <<"mtp", 0, "fc">> -> Name("mtp", 0, "fc")
       [] role[1] \in {"L", "mtpL"} /\ role[3] \in DOMAIN table
            -> Name(role[1], role[2], table[role[3]])
       [] OTHER -> NoSlot

SidecarByRole(role) == SlotIn(role, SlotGdn, SlotFull)
LinearByRole(role) == SlotIn(role, SlotGdn @@ GateTails, SlotFull @@ GateTails)
\* quant_sidecar_slot_mut, the table of the checkpoint loader: no layer of the mtp block.
QuantSidecarSlot(role) == IF role[1] = "mtpL" THEN NoSlot ELSE SidecarByRole(role)

DenseRoles ==
  {<<"top", 0, "lm_head">>, <<"mtp", 0, "fc">>}
    \union UNION {{<<"L", i, t>> : t \in DOMAIN ((IF KindOf(i) = "gdn" THEN SlotGdn ELSE SlotFull)
                                                   @@ GateTails)} : i \in Layers}
    \union {<<"mtpL", i, t>> : i \in 0 .. MtpLayers - 1, t \in DOMAIN (SlotFull @@ GateTails)}

\* DEFAULT_DENSE_SKIP: the routers and the head keep their dense weights.
ShouldSkip(role) == role[3] \in {"moe.gate", "moe.shared_gate", "lm_head"}

-----------------------------------------------------------------------------
(* A ModelOpt checkpoint: some linears are groups of a packed weight and    *)
(* its scales.                                                              *)

QuantTags == {"weight", "weight_scale", "weight_scale_2", "input_scale"}

\* collect_quant_groups: the bases with a weight, a scale and an input scale; a second-level
\* scale makes the group NVFP4.
TagsIn(index, base) == {n[4] : n \in {m \in index : BaseOf(m) = base}}
QuantGroups(index) ==
  {[base |-> b, kind |-> IF "weight_scale_2" \in TagsIn(index, b) THEN "nvfp4" ELSE "fp8"] :
     b \in {c \in {BaseOf(n) : n \in index} :
              {"weight", "weight_scale", "input_scale"} \subseteq TagsIn(index, c)}}

GroupKeys(g) ==
  {g.base \o <<t>> : t \in IF g.kind = "nvfp4" THEN QuantTags ELSE QuantTags \ {"weight_scale_2"}}

DenseFp8Role(base) ==
  IF base[1] = "L" /\ base[3] \in {"linear_attn.in_proj_qkv", "linear_attn.in_proj_z",
                                   "linear_attn.out_proj", "self_attn.q_proj", "self_attn.k_proj",
                                   "self_attn.v_proj", "self_attn.o_proj"}
  THEN <<"L", base[2], ResidentTail(base[3])>> ELSE NoRole
SharedNvfp4Role(base) ==
  IF base[1] = "L" /\ base[3] \in {"mlp.shared_expert.gate_proj", "mlp.shared_expert.up_proj",
                                   "mlp.shared_expert.down_proj"}
  THEN <<"L", base[2], ResidentTail(base[3])>> ELSE NoRole

\* One expert's projection; the layer and the expert share the index.
ExpertBase(l, e, p) == <<"expert", l * Experts + e, p>>
IsExpertBase(base) == base[1] = "expert"
HeadBase == <<"top", 0, "lm_head">>

ExpectedCounts ==
  LET gdn == Cardinality({i \in Layers : KindOf(i) = "gdn"})
      n == Len(LayerTypes)
  IN [dense |-> 3 * gdn + 4 * (n - gdn), experts |-> 3 * n * Experts, shared |-> 3 * n, head |-> 1]

GroupCounts(groups) ==
  LET four == {g \in groups : g.kind = "nvfp4"}
  IN [dense |-> Cardinality({g \in groups : g.kind = "fp8"}),
      experts |-> Cardinality({g \in four : IsExpertBase(g.base)}),
      head |-> Cardinality({g \in four : g.base = HeadBase}),
      shared |-> Cardinality({g \in four : SharedNvfp4Role(g.base) # NoRole})]
=============================================================================
