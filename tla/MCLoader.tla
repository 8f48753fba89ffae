------------------------------ MODULE MCLoader ------------------------------
(* Two layers, one of each kind, one expert or two, and directories that    *)
(* are whole or have one fault.                                             *)
EXTENDS Loader

MCSingle == {"linear_attn.A_log", "linear_attn.norm"}

MCLayerTypes == <<"gdn", "full">>
MCDims == [vocab |-> 32, hidden |-> 16, qkv |-> 16, v |-> 16, heads |-> 2, conv |-> 4, vhead |-> 8,
           q |-> 16, kv |-> 8, o |-> 16, head |-> 8, inter |-> 16, shared |-> 16]

Visual == <<"visual", 0, "patch", "weight">>
Whole == Expected \union {Visual}
Directory(index, header, wrong) == [index |-> index, header |-> header, wrong |-> wrong]

Norm == Name("L", 0, "linear_attn.norm")
Query == Name("L", 1, "self_attn.q_proj")
Experts0 == Name("L", 0, "mlp.experts.down_proj")
Stray == Name("L", 1, "linear_attn.A_log")

MCCheckpoints ==
  {Directory(Whole, Whole, {}),
   Directory(Whole \ {Norm}, Whole \ {Norm}, {}),
   Directory(Whole, Whole \ {Query}, {}),
   Directory(Whole \ {Query}, Whole, {}),
   Directory(Whole \union {Stray}, Whole \union {Stray}, {}),
   Directory(Whole, Whole, {Query}),
   Directory(Whole, Whole, {Experts0}),
   Directory(NvidiaFiles, NvidiaFiles, {}),
   Directory(NvidiaFiles \ {Norm}, NvidiaFiles \ {Norm}, {}),
   Directory(NvidiaFiles \ {HeadBase \o <<"input_scale">>}, NvidiaFiles, {})}

HfFiles(moe) ==
  {<<"hf", 0, b, "weight">> : b \in {"embed_tokens", "norm", "lm_head"}}
    \union {<<"hf", i + 1, b, "weight">> : i \in Layers, b \in Qwen3Bases \union
              (IF moe THEN {"mlp.gate"} ELSE {"mlp.gate_proj", "mlp.up_proj", "mlp.down_proj"})}
    \union (IF moe THEN {s \o <<"weight">> : s \in ExpertSlots} ELSE {})
Upper(files) == {n \in files : n[2] = 0 \/ n[1] = "expert"}
HfHead == <<"hf", 0, "lm_head", "weight">>
MCShardSets ==
  UNION {LET f == HfFiles(moe)
         IN {[shards |-> q] : q \in {<<f>>, <<Upper(f), f \ Upper(f)>>, <<f, Upper(f)>>, <<f \ Upper(f)>>,
             <<f \ {HfHead}>>, << >>, <<f \ {ExpertBase(0, 0, "up") \o <<"weight">>}>>}} : moe \in BOOLEAN}

Launch(driver, load) ==
  [driver |-> driver, load |-> load, stream |-> FALSE, resident |-> FALSE, quant |-> "none",
   configured |-> FALSE, pool |-> "none", precast |-> FALSE, fallback |-> FALSE, tied |-> FALSE]
Portable(stream, resident, quant, precast) ==
  [Launch("portable", "none") EXCEPT !.stream = stream, !.resident = resident, !.quant = quant,
                                     !.precast = precast]
MCLaunches ==
  {Portable(s, r, q, TRUE) : s \in BOOLEAN, r \in BOOLEAN, q \in {"none", "nvfp4"}}
    \union {Portable(TRUE, FALSE, "none", FALSE)}
    \union {[Portable(TRUE, r, "none", TRUE) EXCEPT !.configured = TRUE] : r \in BOOLEAN}
    \union {Launch("mtp", "sharded"), Launch("engine", "sharded"), Launch("engine", "nvidia"),
            [Launch("engine", "nvidia") EXCEPT !.fallback = TRUE],
            [Launch("engine", "sharded") EXCEPT !.quant = "fp8"],
            Launch("qwen3", "shards"), [Launch("qwen3", "shards") EXCEPT !.tied = TRUE],
            Launch("qwen3", "single"), Launch("qwen3moe", "shards")}
=============================================================================
