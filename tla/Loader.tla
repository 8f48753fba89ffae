------------------------------- MODULE Loader -------------------------------
(* From a checkpoint directory to a model that decodes: the weight-map      *)
(* check, the loaders of Qwen3.6 (all of it, the resident core, the offline *)
(* NVFP4 store, NVIDIA's quantized files), the shard-by-shard loaders of    *)
(* the Qwen3 models, quantization after the load, and the offline repack,   *)
(* which may be interrupted, started again, and used while it still writes. *)
EXTENDS BlobStore

CONSTANTS
  Checkpoints,  \* directories of the Qwen3.6 drivers
  ShardSets,    \* directories of the Qwen3 drivers: [shards |-> sequence of sets of names]
  Launches,     \* the drivers and their settings
  MaxCrashes,   \* bound: interruptions of the repack
  None          \* a parameter still at its lazy initial value, an absent sidecar

VARIABLES
  dir,      \* the checkpoint directory of this launch
  launch,   \* the driver and its settings
  store,    \* the offline store: manifest, resman, resident, layer files, and what they hold
  repack,   \* where the repack process is; crashes so far
  phase,    \* where the driver is
  weight,   \* the value of each parameter
  sidecar,  \* the form of each linear and expert stack the forward pass prefers: quantized, streamed
  shard     \* shards applied so far, and what they covered

vars == <<dir, launch, store, repack, phase, weight, sidecar, shard>>

\* A directory of the Qwen3.6 drivers: the names the index lists, the names the shard headers
\* hold, and those stored with a shape other than the configuration's.
\* Its shards are the files the index names, so an unlisted tensor is in one of them.
IsVisual(name) == name[1] = "visual"
ExpertSlots == {ExpertBase(l, e, p) : l \in Layers, e \in 0 .. Experts - 1, p \in {"gate", "up", "down"}}
ExpertBases == {"mlp.experts.gate_up_proj", "mlp.experts.down_proj"}
IsExpertStack(name) == name[3] \in ExpertBases
Readable(name) == name \in dir.index /\ name \in dir.header

-----------------------------------------------------------------------------
(* verify_qwen35_weight_map.                                                *)

Verify ==
  LET listed == dir.index \intersect dir.header
      text == {n \in listed : ~IsVisual(n)}
      seen == text \intersect Expected
  IN [missing |-> (dir.index \ dir.header) \union (Expected \ seen),
      orphan |-> (dir.header \ dir.index) \union (text \ Expected),
      mismatch |-> seen \intersect dir.wrong]

Passes(report) == report.missing = {} /\ report.orphan = {} /\ report.mismatch = {}

-----------------------------------------------------------------------------
(* Writing parameters.                                                      *)

\* load_qwen35_tensor for each of the names: an unreadable name, or one that no match has an
\* arm for, is an error.
CanLoad(names) == \A n \in names : Readable(n) /\ Setter(n) # ""
LoadTensors(w, names) == [n \in DOMAIN w |-> IF n \in names THEN Stored(n) ELSE w[n]]

Goto(p) == phase' = p
Fail == Goto("failed") /\ UNCHANGED <<weight, sidecar>>

Wanted(core) == {n \in dir.index : ~IsVisual(n) /\ ~(core /\ IsExpertStack(n))}

LoadWeightsSharded ==
  /\ phase = "load" /\ launch.load = "sharded"
  /\ IF Passes(Verify) /\ CanLoad(Wanted(FALSE))
     THEN /\ weight' = LoadTensors(weight, Wanted(FALSE))
          /\ Goto("cast") /\ UNCHANGED sidecar
     ELSE Fail
  /\ UNCHANGED <<dir, launch, store, repack, shard>>

LoadResidentCore ==
  /\ phase = "load" /\ launch.load = "core"
  /\ IF Passes(Verify) /\ CanLoad(Wanted(TRUE))
     THEN /\ weight' = LoadTensors(weight, Wanted(TRUE))
          /\ Goto("cast") /\ UNCHANGED sidecar
     ELSE Fail
  /\ UNCHANGED <<dir, launch, store, repack, shard>>

-----------------------------------------------------------------------------
(* The offline store. The resident part is packed once: a later repack      *)
(* finds both of its files and leaves them. Each expert layer is written    *)
(* aside and renamed.                                                       *)

ResidentEntries == {n \in dir.index : ~IsVisual(n) /\ ~IsExpertStack(n)}
PackFails == \E n \in ResidentEntries : ~Readable(n)

RepackAt(pc) == repack.pc = pc
RepackGoto(pc) == repack' = [repack EXCEPT !.pc = pc]
NextLayer(i) == IF i + 1 \in Layers THEN <<"layer", i + 1>> ELSE <<"done", 0>>

RepackStart ==
  /\ launch.driver = "portable" /\ RepackAt(<<"idle", 0>>)
  /\ store' = [store EXCEPT !.manifest = "torn"]
  /\ RepackGoto(<<"manifest", 0>>)
  /\ UNCHANGED <<dir, launch, phase, weight, sidecar, shard>>

\* One of the two files taken for both.
HasResidentEither == store.resman # "none" \/ store.resident # "none"
\* The manifest is whole; the resident part is packed unless its two files exist.
HasResident == store.resman # "none" /\ store.resident # "none"

RepackManifest ==
  /\ RepackAt(<<"manifest", 0>>)
  /\ store' = [store EXCEPT !.manifest = "whole"]
  /\ IF HasResident THEN RepackGoto(<<"layer", 0>>)
     ELSE IF PackFails THEN RepackGoto(<<"error", 0>>)
     ELSE RepackGoto(<<"resman", 0>>)
  /\ UNCHANGED <<dir, launch, phase, weight, sidecar, shard>>

RepackResidentManifest ==
  /\ RepackAt(<<"resman", 0>>)
  /\ store' = [store EXCEPT !.resman = IF store.resman = "torn" THEN "whole" ELSE "torn"]
  /\ IF store.resman = "torn" THEN RepackGoto(<<"resident", 0>>) ELSE UNCHANGED repack
  /\ UNCHANGED <<dir, launch, phase, weight, sidecar, shard>>

RepackResident ==
  /\ RepackAt(<<"resident", 0>>)
  /\ store' = IF store.resident = "torn"
              THEN [store EXCEPT !.resident = "whole", !.core = ResidentImage(ResidentEntries)]
              ELSE [store EXCEPT !.resident = "torn"]
  /\ IF store.resident = "torn" THEN RepackGoto(<<"layer", 0>>) ELSE UNCHANGED repack
  /\ UNCHANGED <<dir, launch, phase, weight, sidecar, shard>>

\* A layer file of the right length is done; otherwise its image is built, written to the
\* temporary file, and renamed. Packing refuses a width the codec does not take.
RepackLayer(i) ==
  /\ RepackAt(<<"layer", i>>)
  /\ IF store.layer[i] = "whole" THEN RepackGoto(NextLayer(i))
     ELSE IF \E b \in ExpertBases :
               \/ ~Readable(Name("L", i, b)) \/ Name("L", i, b) \in dir.wrong
               \/ Layout(b).k % 16 # 0
     THEN RepackGoto(<<"error", 0>>)
     ELSE RepackGoto(<<"tmp", i>>)
  /\ UNCHANGED <<dir, launch, store, phase, weight, sidecar, shard>>

RepackRename(i) ==
  /\ RepackAt(<<"tmp", i>>)
  /\ store' = [store EXCEPT !.layer[i] = "whole", !.experts[i] = LayerImage(i)]
  /\ RepackGoto(NextLayer(i))
  /\ UNCHANGED <<dir, launch, phase, weight, sidecar, shard>>

\* The process is killed, or started again after it ended.
RepackCrash ==
  /\ repack.pc[1] # "idle" /\ repack.crashes < MaxCrashes
  /\ repack' = [pc |-> <<"idle", 0>>, crashes |-> repack.crashes + 1]
  /\ UNCHANGED <<dir, launch, store, phase, weight, sidecar, shard>>

-----------------------------------------------------------------------------
(* The drivers. The portable driver prefers the store's resident part to    *)
(* the files it was made from, whatever it does about the experts.          *)

\* A value derived from another one: same tensor, same offset, another number format.
As(form, value) == [value EXCEPT !.form = form]
Placeholder == [of |-> None, offset |-> 0, form |-> "placeholder"]

Detect ==
  /\ phase = "start"
  /\ launch' = [launch EXCEPT !.load = CASE launch.resident /\ HasResident -> "blob"
                                         [] ~(launch.resident /\ HasResident) /\ launch.stream -> "core"
                                         [] OTHER -> "sharded"]
  /\ Goto("load")
  /\ UNCHANGED <<dir, store, repack, weight, sidecar, shard>>

\* What an entry of the resident file is when it is read back.
Garbled == [of |-> None, offset |-> 0, form |-> "garbled"]
InBlob(name) == IF EntryIsOwn(store.core, name) THEN Stored(name) ELSE Garbled

\* load_weights_resident_nvfp4: an entry with a role becomes a sidecar over a placeholder, a
\* packed entry without one is read from the original files, the rest is stored as it is.
\* Entries that do not fit in the mapped file stop the process.
ResidentOpens == store.resman = "whole" /\ store.resident = "whole"
LoadResidentBlob ==
  LET packed == {n \in Packed \intersect ResidentEntries : ResidentRole(n) # NoRole}
      plain == ResidentEntries \ packed
      from == [s \in {SidecarByRole(ResidentRole(n)) : n \in packed} |->
                 CHOOSE n \in packed : SidecarByRole(ResidentRole(n)) = s]
      freed == {LinearByRole(ResidentRole(m)) : m \in packed}
  IN /\ phase = "load" /\ launch.load = "blob"
     /\ IF /\ ResidentOpens
           /\ NoSlot \notin DOMAIN from /\ CanLoad(plain)
        THEN /\ sidecar' = [n \in DOMAIN sidecar |-> IF n \in DOMAIN from
                                                     THEN As("nvfp4", InBlob(from[n])) ELSE sidecar[n]]
             /\ weight' = [n \in DOMAIN weight |->
                             IF n \in freed THEN Placeholder
                             ELSE IF n \in plain \intersect Packed THEN Stored(n)
                             ELSE IF n \in plain THEN InBlob(n) ELSE weight[n]]
             /\ Goto("cast")
        ELSE Fail
     /\ UNCHANGED <<dir, launch, store, repack, shard>>

\* load_nvidia_nvfp4: the groups are counted, the tensors outside them are loaded as they are,
\* each group becomes the sidecar of its role, and a group nobody used is an error.
Groups == QuantGroups(dir.index)
NvidiaKeys == UNION {GroupKeys(g) : g \in Groups}
NvidiaPlain == {n \in dir.index : ~IsVisual(n)} \ NvidiaKeys
NvidiaDense == {g \in Groups : g.kind = "fp8"}
NvidiaShared == {g \in Groups : g.kind = "nvfp4" /\ SharedNvfp4Role(g.base) # NoRole}
NvidiaHead == [base |-> HeadBase, kind |-> "nvfp4"]
NvidiaExperts == {[base |-> e, kind |-> "nvfp4"] : e \in ExpertSlots}

NvidiaSlot(g) ==
  QuantSidecarSlot(IF g.kind = "fp8" THEN DenseFp8Role(g.base) ELSE SharedNvfp4Role(g.base))
GroupReadable(g) ==
  \A t \in IF g.kind = "fp8" THEN {"weight", "weight_scale"}
           ELSE {"weight", "weight_scale", "weight_scale_2"} : Readable(g.base \o <<t>>)

LoadNvidia ==
  LET used == NvidiaDense \union NvidiaShared \union NvidiaExperts \union {NvidiaHead}
      plain == NvidiaPlain
      fp8 == {NvidiaSlot(g) : g \in NvidiaDense}
      four == {NvidiaSlot(g) : g \in NvidiaShared}
      lm == Name("top", 0, "lm_head")
  IN /\ phase = "load" /\ launch.load = "nvidia"
     /\ IF /\ GroupCounts(Groups) = ExpectedCounts
           /\ CanLoad(plain)
           /\ \A g \in NvidiaDense : DenseFp8Role(g.base) # NoRole
           /\ \A g \in used : GroupReadable(g)
           /\ NoSlot \notin fp8 \union four
           /\ NvidiaKeys \subseteq UNION {GroupKeys(g) : g \in used}
        THEN /\ sidecar' = [n \in DOMAIN sidecar |->
                  CASE n \in fp8 -> As("fp8", Stored(n))
                    [] n \in four -> As("nvfp4", Stored(n))
                    [] n[1] = "L" /\ IsExpertStack(n)
                         -> As(IF launch.fallback THEN "fp8" ELSE "nvfp4", Stored(n))
                    [] n = lm /\ ~launch.fallback -> As("nvfp4", Stored(n))
                    [] OTHER -> sidecar[n]]
             /\ weight' = [n \in DOMAIN weight |->
                  CASE n \in plain \/ (n = lm /\ launch.fallback) -> Stored(n)
                    [] n[1] = "L" /\ IsExpertStack(n) -> Placeholder
                    [] OTHER -> weight[n]]
             /\ Goto("cast")
        ELSE Fail
     /\ UNCHANGED <<dir, launch, store, repack, shard>>

\* cast_resident_core_linears, unless the resident part came packed.
LanguageLinears == {n \in Expected : n[1] \in {"top", "L"} /\ Setter(n) = "linear"}
Cast ==
  /\ phase = "cast"
  /\ weight' = IF launch.precast /\ launch.load # "blob"
               THEN [n \in DOMAIN weight |-> IF n \in LanguageLinears THEN As("f16", weight[n])
                                                                     ELSE weight[n]]
               ELSE weight
  /\ Goto("quantize")
  /\ UNCHANGED <<dir, launch, store, repack, sidecar, shard>>

\* quantize_dense_nvfp4 leaves a placeholder behind each sidecar and refuses a width the codec
\* does not take; quantize_dense_fp8 keeps the weights, quantize_experts_fp8 frees the stacks.
Targets == {r \in DenseRoles : ~ShouldSkip(r)}
QuantizeDenseNvfp4 ==
  LET lins == {LinearByRole(r) : r \in Targets}
      From(n) == LinearByRole(CHOOSE r \in Targets : SidecarByRole(r) = n)
  IN IF \A n \in lins : ShapeOf(n)[2] % 16 = 0
     THEN /\ sidecar' = [n \in DOMAIN sidecar |->
                           IF \E r \in Targets : SidecarByRole(r) = n
                           THEN As("nvfp4", weight[From(n)]) ELSE sidecar[n]]
          /\ weight' = [n \in DOMAIN weight |-> IF n \in lins THEN Placeholder ELSE weight[n]]
          /\ Goto("ready")
     ELSE Fail
Fp8Slots == {SidecarByRole(r) : r \in Targets}
Fp8Stacks == {n \in Expected : IsExpertStack(n)}
QuantizeFp8 ==
  /\ sidecar' = [n \in DOMAIN sidecar |-> IF n \in Fp8Slots \union Fp8Stacks
                                          THEN As("fp8", weight[n]) ELSE sidecar[n]]
  /\ weight' = [n \in DOMAIN weight |-> IF n \in Fp8Stacks THEN Placeholder ELSE weight[n]]
  /\ Goto("ready")

Quantize ==
  /\ phase = "quantize"
  /\ CASE launch.quant = "nvfp4" /\ launch.load # "blob" -> QuantizeDenseNvfp4
       [] launch.quant = "fp8" -> QuantizeFp8
       [] OTHER -> Goto("ready") /\ UNCHANGED <<weight, sidecar>>
  /\ UNCHANGED <<dir, launch, store, repack, shard>>

-----------------------------------------------------------------------------
(* The streaming pool. A store is opened once, by its manifest: one that    *)
(* QWEN35_NVFP4_BLOB_DIR names and that does not open stops the process, a  *)
(* detected one is passed over. An opened store gives every expert from its *)
(* layer file; without one they are packed from the original files.         *)

NarrowExperts == \E b \in ExpertBases : Layout(b).k % 16 # 0

OpenPool ==
  LET opens == store.manifest = "whole"
  IN /\ phase = "ready" /\ launch.stream
     /\ IF opens \/ ~launch.configured
        THEN /\ launch' = [launch EXCEPT !.pool = IF opens THEN "store" ELSE "files"]
             /\ Goto("pool")
        ELSE Goto("failed") /\ UNCHANGED launch
     /\ UNCHANGED <<dir, store, repack, weight, sidecar, shard>>

StreamReads(l) ==
  IF launch.pool = "store" THEN store.layer[l] = "whole"
  ELSE ~NarrowExperts /\ \A b \in ExpertBases : Readable(Name("L", l, b))

Streamed(name) ==
  IF launch.pool = "files" \/ PreadIsOwn(store.experts[name[2]], name)
  THEN As("nvfp4", Stored(name)) ELSE Garbled

\* The first forward pass, over every expert. Without streaming they are the model's parameters.
Decode ==
  /\ phase = IF launch.stream THEN "pool" ELSE "ready"
  /\ Goto(IF launch.stream /\ \E l \in Layers : ~StreamReads(l) THEN "failed" ELSE "decoding")
  /\ sidecar' = IF launch.stream /\ \A l \in Layers : StreamReads(l)
                THEN [n \in DOMAIN sidecar |-> IF n[1] = "L" /\ IsExpertStack(n) THEN Streamed(n)
                                                                              ELSE sidecar[n]]
                ELSE sidecar
  /\ UNCHANGED <<dir, launch, store, repack, weight, shard>>

-----------------------------------------------------------------------------
(* The Qwen3 loaders: each shard overwrites the parameters it names, with   *)
(* the union of what was covered checked at the end. A single file of the   *)
(* dense model goes through no check.                                       *)

IsQwen3 == launch.driver \in {"qwen3", "qwen3moe"}
LinearBases == {"self_attn.q_proj", "self_attn.k_proj", "self_attn.v_proj", "self_attn.o_proj",
                "mlp.gate_proj", "mlp.up_proj", "mlp.down_proj", "embed_tokens"}

\* The rule for the head left out.
RemapNoHead(name) ==
  <<name[1], name[2], name[3],
    IF \/ name[3] \in LinearBases \/ name[1] = "expert"
       \/ (name[3] = "mlp.gate" /\ launch.driver = "qwen3moe")
    THEN "weight" ELSE "gamma">>

\* The key of a tensor after the remapping rules: norms are gammas, the rest stay weights.
\* The head and the router need rules of their own, the router's in the MoE store only.
Remap(name) ==
  <<name[1], name[2], name[3],
    IF \/ name[3] \in LinearBases \/ name[1] = "expert"
       \/ name[3] = "lm_head" \/ (name[3] = "mlp.gate" /\ launch.driver = "qwen3moe")
    THEN "weight" ELSE "gamma">>

Qwen3Bases == {"input_layernorm", "post_attention_layernorm", "self_attn.q_norm",
               "self_attn.k_norm", "self_attn.q_proj", "self_attn.k_proj", "self_attn.v_proj",
               "self_attn.o_proj"}
FieldOf(base) == IF base \in {"input_layernorm", "post_attention_layernorm", "self_attn.q_norm",
                              "self_attn.k_norm", "norm"} THEN "gamma" ELSE "weight"
Stacks == {<<"stack", l, p, "">> : l \in Layers, p \in {"gate", "up", "down"}}
\* The parameters a Qwen3 model has: a tied one has no head of its own.
Qwen3Params(l) ==
  LET top == {"embed_tokens", "norm"} \union (IF l.tied THEN {} ELSE {"lm_head"})
      layer == Qwen3Bases \union (IF l.driver = "qwen3" THEN {"mlp.gate_proj", "mlp.up_proj", "mlp.down_proj"}
                                                      ELSE {"mlp.gate"})
  IN {<<"hf", 0, b, FieldOf(b)>> : b \in top}
       \union {<<"hf", i + 1, b, FieldOf(b)>> : i \in Layers, b \in layer}
       \union (IF l.driver = "qwen3moe" THEN Stacks ELSE {})

Qwen3Value(n) == [of |-> n, offset |-> 0, form |-> "bf16"]

\* One shard: its expert tensors are kept by slot, the other keys applied where a parameter
\* has that key; seen is the applied and the missing, that is every parameter.
ApplyShard ==
  /\ phase = "load" /\ launch.load \in {"shards", "single"} /\ shard.at < Len(dir.shards)
  /\ LET keys == {Remap(n) : n \in dir.shards[shard.at + 1]}
         here == keys \intersect DOMAIN weight
     IN /\ weight' = [n \in DOMAIN weight |-> IF n \in here THEN Qwen3Value(n) ELSE weight[n]]
        /\ shard' = [at |-> shard.at + 1,
                     applied |-> shard.applied \union here,
                     seen |-> shard.seen \union DOMAIN weight,
                     slots |-> shard.slots \union {BaseOf(n) : n \in {k \in keys : k[1] = "expert"}}]
  /\ UNCHANGED <<dir, launch, store, repack, phase, sidecar>>

\* The checks after the last shard, and the expert stacks built from the slots.
FinishShards ==
  LET gap == (shard.seen \ shard.applied) \ Stacks
      moe == launch.driver = "qwen3moe"
      short == moe /\ \E s \in ExpertSlots : s \notin shard.slots
  IN /\ phase = "load" /\ launch.load \in {"shards", "single"} /\ shard.at = Len(dir.shards)
     /\ IF \/ Len(dir.shards) = 0
           \/ gap # {} /\ ~(launch.load = "single" /\ ~moe)
           \/ short
        THEN Fail
        ELSE /\ weight' = [n \in DOMAIN weight |-> IF n \in Stacks THEN Qwen3Value(n) ELSE weight[n]]
             /\ Goto("ready") /\ UNCHANGED sidecar
     /\ UNCHANGED <<dir, launch, store, repack, shard>>

-----------------------------------------------------------------------------
Params(l) == IF l.driver \in {"qwen3", "qwen3moe"} THEN Qwen3Params(l) ELSE Expected
Initial == [of |-> None, offset |-> 0, form |-> "random"]
Absent == [of |-> None, offset |-> 0, form |-> "absent"]

Init ==
  /\ launch \in Launches
  /\ dir \in IF IsQwen3 THEN ShardSets ELSE Checkpoints
  /\ store = [manifest |-> "none", resman |-> "none", resident |-> "none",
              layer |-> [l \in Layers |-> "none"], experts |-> [l \in Layers |-> {}],
              core |-> [offset |-> << >>, bytes |-> {}]]
  /\ repack = [pc |-> <<"idle", 0>>, crashes |-> 0]
  /\ phase = IF launch.driver = "portable" THEN "start" ELSE "load"
  /\ weight = [n \in Params(launch) |-> Initial]
  /\ sidecar = [n \in Params(launch) |-> Absent]
  /\ shard = [at |-> 0, applied |-> {}, seen |-> {}, slots |-> {}]

Next ==
  \/ RepackStart \/ RepackManifest \/ RepackResidentManifest \/ RepackResident \/ RepackCrash
  \/ \E i \in Layers : RepackLayer(i) \/ RepackRename(i)
  \/ Detect \/ LoadWeightsSharded \/ LoadResidentCore \/ LoadResidentBlob \/ LoadNvidia
  \/ ApplyShard \/ FinishShards \/ Cast \/ Quantize \/ OpenPool \/ Decode

Spec == Init /\ [][Next]_vars

-----------------------------------------------------------------------------
(* Properties.                                                              *)

\* The forward passes prefer a sidecar to the parameter behind it.
Reads(n) == IF sidecar[n] # Absent THEN sidecar[n] ELSE weight[n]

\* RMS norms hold 1 + w, the gated norm of Gated DeltaNet its plain w.
CentredNorms == {"input_layernorm", "post_attention_layernorm", "self_attn.q_norm",
                 "self_attn.k_norm", "norm", "pre_fc_norm_embedding", "pre_fc_norm_hidden"}
RightOffset(n) == IF ~IsQwen3 /\ n[3] \in CentredNorms THEN 1 ELSE 0

\* What the code leaves unread or unchecked: experts that stream, until the first pass, and
\* those of the block that does not run; the experts of a packed resident part loaded with
\* streaming off (README, disagreements); a tensor that a loader without a coverage check was
\* not given.
EagerBlob(n) == launch.load = "blob" /\ ~launch.stream /\ IsExpertStack(n)
Unchecked(n) ==
  CASE launch.load \in {"blob", "nvidia"} -> n \notin dir.index
    [] launch.load = "single" -> launch.driver = "qwen3"
                                 /\ \A s \in 1 .. Len(dir.shards) : n \notin {Remap(m) : m \in dir.shards[s]}
    [] OTHER -> FALSE
ToStream(n) == launch.stream /\ IsExpertStack(n) /\ (phase # "decoding" \/ n[1] # "L")
NotRead(n) == ToStream(n) \/ EagerBlob(n) \/ Unchecked(n)

\* A model that is ready reads, for every parameter, the tensor of that name with the offset
\* its norm expects, through whatever sidecar, placeholder or cast the load left behind and
\* whichever byte range of the offline store it came from; after a verified load that tensor
\* has the configuration's shape (load.rs:1164, nvfp4_blob.rs:90).
ReadsItsOwn ==
  phase \in {"ready", "pool", "decoding"} =>
    \A n \in DOMAIN weight : NotRead(n) \/
      /\ Reads(n).of = n /\ Reads(n).offset = RightOffset(n)
      /\ launch.load \in {"sharded", "core"} => n \notin dir.wrong

\* NVIDIA's files: a group per expert projection, shared projection and dense projection.
Grouped(bases, tags) == {b \o <<t>> : b \in bases, t \in tags}
NvidiaFiles ==
  LET bases == {BaseOf(n) : n \in Expected}
      dense == {b \in bases : DenseFp8Role(b) # NoRole}
      four == {b \in bases : SharedNvfp4Role(b) # NoRole} \union {HeadBase} \union ExpertSlots
  IN {n \in Expected : BaseOf(n) \notin dense \union four /\ ~IsExpertStack(n)}
       \union Grouped(dense, QuantTags \ {"weight_scale_2"}) \union Grouped(four, QuantTags)

\* The directory holds what the launch needs, in the format it asks for.
WholeDir ==
  IF IsQwen3 THEN /\ \A p \in DOMAIN weight \ Stacks : \E s \in 1 .. Len(dir.shards) :
                        \E n \in dir.shards[s] : BaseOf(n) = BaseOf(p)
                  /\ launch.driver = "qwen3moe" =>
                       \A e \in ExpertSlots : \E s \in 1 .. Len(dir.shards) : e \o <<"weight">> \in dir.shards[s]
  ELSE /\ dir.index = dir.header /\ dir.wrong = {}
       /\ {n \in dir.index : ~IsVisual(n)} = IF launch.load = "nvidia" THEN NvidiaFiles ELSE Expected

\* What may refuse a whole directory. A resident part in two files, one of them unfinished or
\* torn by a kill, is loaded as if it were whole. A configured store does not open until a
\* repack has written its manifest, nor while a later one writes it again. A store opened
\* before its last layer is written lacks a layer file. A width may not be the codec's.
ResidentTorn == phase = "load" /\ launch.load = "blob" /\ "torn" \in {store.resman, store.resident}
NoManifest == /\ phase = "ready" /\ launch.configured
              /\ store.manifest # "whole" /\ repack.pc[1] \in {"idle", "manifest"}
LayersToCome == /\ phase = "pool" /\ launch.pool = "store"
                /\ repack.pc[1] # "done" /\ \E l \in Layers : store.layer[l] # "whole"
NarrowLinear == \E n \in {LinearByRole(r) : r \in Targets} : ShapeOf(n)[2] % 16 # 0
Narrow == (phase = "quantize" /\ NarrowLinear) \/ (phase = "pool" /\ NarrowExperts)

\* No loader, quantizer, pool or first forward pass refuses a directory that is whole for its
\* launch, but for the cases above. A configured store that cannot be opened stops the
\* process, it must not silently fall back (expert_stream.rs:250); a detected one is passed over,
\* and a store opened when its layers were complete stops nothing, whatever repack follows.
WholeIsNotRefused ==
  [][(phase # "failed" /\ phase' = "failed" /\ WholeDir) =>
       ResidentTorn \/ NoManifest \/ LayersToCome \/ Narrow]_vars

\* A repack that ends has written everything, whatever was killed before it, except that a
\* resident part torn by an earlier kill stays torn.
ResumeCompletes ==
  repack.pc[1] = "done" =>
    /\ store.manifest = "whole" /\ store.resman = "whole"
    /\ store.resident = "whole" \/ (store.resident = "torn" /\ repack.crashes > 0)
    /\ \A l \in Layers : store.layer[l] = "whole"
=============================================================================
