---------------------------- MODULE LoaderProofs ----------------------------
(***************************************************************************)
(* Proofs about the offline repack of Loader, for any configuration, any   *)
(* directory and any number of interruptions.                              *)
(***************************************************************************)
EXTENDS Loader, TLAPS

FileState == {"none", "torn", "whole"}
Stage == {"idle", "manifest", "resman", "resident", "layer", "tmp", "done", "error"}

\* The store and the repack have the shape that Init gives them.
StoreShape ==
  /\ DOMAIN store = {"manifest", "resman", "resident", "layer", "experts", "core"}
  /\ store.manifest \in FileState /\ store.resman \in FileState /\ store.resident \in FileState
  /\ store.layer \in [Layers -> {"none", "whole"}]
  /\ DOMAIN store.experts = Layers
RepackShape ==
  /\ DOMAIN repack = {"pc", "crashes"}
  /\ repack.pc \in Stage \X Int
  /\ repack.pc[1] \in {"layer", "tmp"} => repack.pc[2] \in Layers
  /\ repack.crashes \in Nat

\* What the repack has finished by the time it is at a stage.
Wrote(stages) == repack.pc[1] \in stages
Progress ==
  /\ Wrote({"resman", "resident", "layer", "tmp", "done"}) => store.manifest = "whole"
  /\ Wrote({"resman"}) => store.resident = "none"
  /\ Wrote({"resident", "layer", "tmp", "done"}) => store.resman = "whole"
  /\ Wrote({"layer", "tmp", "done"}) => store.resident # "none"
  /\ Wrote({"layer", "tmp"}) => \A l \in Layers : l < repack.pc[2] => store.layer[l] = "whole"
  /\ Wrote({"done"}) => \A l \in Layers : store.layer[l] = "whole"

\* What survives a kill: the resident bytes are begun under a whole manifest of theirs, and
\* are torn only while they are written or after a kill.
Survives ==
  /\ store.resident # "none" => store.resman = "whole"
  /\ store.resident = "torn" => Wrote({"resident"}) \/ repack.crashes > 0

\* The widths of the two expert stacks are the codec's.
Packable == \A b \in ExpertBases : Layout(b).k % 16 = 0

\* A file that counts as whole holds the image the repack built of this directory; no layer is
\* written at a width the codec refuses.
Holds ==
  /\ Wrote({"tmp"}) \/ (\E l \in Layers : store.layer[l] = "whole") => Packable
  /\ \A l \in Layers : store.layer[l] = "whole" => store.experts[l] = LayerImage(l)
  /\ store.resident = "whole" => store.core = ResidentImage(ResidentEntries)

RepackInv == StoreShape /\ RepackShape /\ Progress /\ Survives /\ Holds

\* The layers are numbered from 0 without a gap, and NextLayer goes to the next one or ends.
LEMMA LayersType ==
  /\ Len(LayerTypes) \in Nat \ {0}
  /\ Layers = 0 .. Len(LayerTypes) - 1
  /\ 0 \in Layers
  BY CheckpointAssumption DEF Layers

\* After a layer comes the next one, or the repack is done.
LEMMA NextLayerIs ==
  ASSUME NEW i \in Layers
  PROVE  \/ i + 1 \in Layers /\ NextLayer(i) = <<"layer", i + 1>>
         \/ NextLayer(i) = <<"done", 0>> /\ \A l \in Layers : l <= i
  BY LayersType DEF NextLayer

\* The store begins empty and the repack idle.
LEMMA RepackInit == Init => RepackInv
  <1> SUFFICES ASSUME Init PROVE RepackInv
    OBVIOUS
  <1> USE DEF Init, FileState, Stage
  <1>1. /\ store = [manifest |-> "none", resman |-> "none", resident |-> "none",
                    layer |-> [l \in Layers |-> "none"], experts |-> [l \in Layers |-> {}],
                    core |-> [offset |-> << >>, bytes |-> {}]]
        /\ repack = [pc |-> <<"idle", 0>>, crashes |-> 0]
    OBVIOUS
  <1> HIDE DEF Init
  <1>2. StoreShape
    BY <1>1 DEF StoreShape
  <1>3. RepackShape
    BY <1>1 DEF RepackShape
  <1> QED
    BY <1>1, <1>2, <1>3 DEF RepackInv, Progress, Survives, Holds, Wrote

\* A step that leaves the directory alone leaves what the resident part is made of alone.
LEMMA EntriesKept == dir' = dir => ResidentEntries' = ResidentEntries
  BY DEF ResidentEntries, IsVisual, IsExpertStack

\* A step of the repack keeps the invariant, operation by operation.
LEMMA RepackStartInv == RepackInv /\ RepackStart => RepackInv'
  <1> SUFFICES ASSUME RepackInv, RepackStart PROVE RepackInv'
    OBVIOUS
  <1> USE DEF Stage, FileState, StoreShape, RepackShape
  <1>1. /\ repack.pc = <<"idle", 0>> /\ store' = [store EXCEPT !.manifest = "torn"]
        /\ repack' = [repack EXCEPT !.pc = <<"manifest", 0>>] /\ dir' = dir
    BY DEF RepackStart, RepackAt, RepackGoto
  <1>2. StoreShape' /\ RepackShape'
    BY <1>1 DEF RepackInv
  <1> QED
    BY <1>1, <1>2, EntriesKept DEF RepackInv, Progress, Survives, Holds, Wrote

\* The manifest is written before anything else.
LEMMA RepackManifestInv == RepackInv /\ RepackManifest => RepackInv'
  <1> SUFFICES ASSUME RepackInv, RepackManifest PROVE RepackInv'
    OBVIOUS
  <1> USE DEF Stage, FileState, StoreShape, RepackShape
  <1>1. /\ repack.pc = <<"manifest", 0>> /\ store' = [store EXCEPT !.manifest = "whole"]
        /\ dir' = dir
        /\ \/ HasResident /\ repack' = [repack EXCEPT !.pc = <<"layer", 0>>]
           \/ repack' = [repack EXCEPT !.pc = <<"error", 0>>]
           \/ ~HasResident /\ repack' = [repack EXCEPT !.pc = <<"resman", 0>>]
    BY DEF RepackManifest, RepackAt, RepackGoto
  <1>2. StoreShape' /\ RepackShape'
    BY <1>1, LayersType DEF RepackInv
  <1>3. \A l \in Layers : ~(l < 0)
    BY LayersType
  <1> QED
    BY <1>1, <1>2, <1>3, EntriesKept
    DEF RepackInv, Progress, Survives, Holds, Wrote, HasResident

\* The resident manifest comes before its blob.
LEMMA RepackResidentManifestInv == RepackInv /\ RepackResidentManifest => RepackInv'
  <1> SUFFICES ASSUME RepackInv, RepackResidentManifest PROVE RepackInv'
    OBVIOUS
  <1> USE DEF Stage, FileState, StoreShape, RepackShape
  <1>1. /\ repack.pc = <<"resman", 0>> /\ dir' = dir
        /\ \/ /\ store' = [store EXCEPT !.resman = "whole"]
              /\ repack' = [repack EXCEPT !.pc = <<"resident", 0>>]
           \/ /\ store' = [store EXCEPT !.resman = "torn"]
              /\ repack' = repack
    BY DEF RepackResidentManifest, RepackAt, RepackGoto
  <1>2. StoreShape' /\ RepackShape'
    BY <1>1 DEF RepackInv
  <1> QED
    BY <1>1, <1>2, EntriesKept DEF RepackInv, Progress, Survives, Holds, Wrote

\* The resident blob is whole before the layers begin.
LEMMA RepackResidentInv == RepackInv /\ RepackResident => RepackInv'
  <1> SUFFICES ASSUME RepackInv, RepackResident PROVE RepackInv'
    OBVIOUS
  <1> USE DEF Stage, FileState, StoreShape, RepackShape
  <1>1. /\ repack.pc = <<"resident", 0>> /\ dir' = dir
        /\ \/ /\ store' = [store EXCEPT !.resident = "whole",
                                        !.core = ResidentImage(ResidentEntries)]
              /\ repack' = [repack EXCEPT !.pc = <<"layer", 0>>]
           \/ /\ store' = [store EXCEPT !.resident = "torn"]
              /\ repack' = repack
    BY DEF RepackResident, RepackAt, RepackGoto
  <1>2. /\ store'.manifest = store.manifest /\ store'.resman = store.resman
        /\ store'.layer = store.layer /\ store'.experts = store.experts
        /\ DOMAIN store' = DOMAIN store
        /\ \/ /\ store'.resident = "whole" /\ store'.core = ResidentImage(ResidentEntries)
              /\ repack' = [repack EXCEPT !.pc = <<"layer", 0>>]
           \/ store'.resident = "torn" /\ repack' = repack
    <2>1. CASE store' = [store EXCEPT !.resident = "torn"] /\ repack' = repack
      BY <2>1 DEF RepackInv
    <2>2. CASE /\ store' = [store EXCEPT !.resident = "whole",
                                         !.core = ResidentImage(ResidentEntries)]
               /\ repack' = [repack EXCEPT !.pc = <<"layer", 0>>]
      <3> DEFINE image == ResidentImage(ResidentEntries)
      <3> HIDE DEF image
      <3>1. store' = [store EXCEPT !.resident = "whole", !.core = image]
        BY <2>2 DEF image
      <3> QED
        BY <2>2, <3>1 DEF RepackInv, image
    <2> QED
      BY <1>1, <2>1, <2>2
  <1>3. StoreShape' /\ RepackShape'
    BY <1>1, <1>2, LayersType DEF RepackInv
  <1>4. \A l \in Layers : ~(l < 0)
    BY LayersType
  <1> QED
    BY <1>1, <1>2, <1>3, <1>4, EntriesKept DEF RepackInv, Progress, Survives, Holds, Wrote

\* A layer that is whole is skipped, one that is not is written to a file of its own.
LEMMA RepackLayerInv ==
  ASSUME NEW i \in Layers, RepackInv, RepackLayer(i) PROVE RepackInv'
  <1> USE DEF Stage, FileState, StoreShape, RepackShape
  <1>1. /\ repack.pc = <<"layer", i>> /\ dir' = dir /\ store' = store
        /\ \/ store.layer[i] = "whole" /\ repack' = [repack EXCEPT !.pc = NextLayer(i)]
           \/ repack' = [repack EXCEPT !.pc = <<"error", 0>>]
           \/ Packable /\ repack' = [repack EXCEPT !.pc = <<"tmp", i>>]
    BY DEF RepackLayer, RepackAt, RepackGoto, Packable, ExpertBases
  <1>2. StoreShape' /\ RepackShape'
    BY <1>1, LayersType, NextLayerIs DEF RepackInv
  <1>3. \A l \in Layers : l \in Int /\ (l < i + 1 => l < i \/ l = i) /\ (l <= i => l < i \/ l = i)
    BY LayersType
  <1> QED
    BY <1>1, <1>2, <1>3, NextLayerIs, EntriesKept
    DEF RepackInv, Progress, Survives, Holds, Wrote

\* The rename makes a layer whole, and nothing in between.
LEMMA RepackRenameInv ==
  ASSUME NEW i \in Layers, RepackInv, RepackRename(i) PROVE RepackInv'
  <1> USE DEF Stage, FileState, StoreShape, RepackShape
  <1>1. /\ repack.pc = <<"tmp", i>> /\ dir' = dir
        /\ store' = [store EXCEPT !.layer[i] = "whole", !.experts[i] = LayerImage(i)]
        /\ repack' = [repack EXCEPT !.pc = NextLayer(i)]
    BY DEF RepackRename, RepackAt, RepackGoto
  <1>2. StoreShape' /\ RepackShape'
    BY <1>1, LayersType, NextLayerIs DEF RepackInv
  <1>3. \A l \in Layers : l \in Int /\ (l < i + 1 => l < i \/ l = i) /\ (l <= i => l < i \/ l = i)
    BY LayersType
  <1>4. \A l \in Layers : /\ store'.layer[l] = IF l = i THEN "whole" ELSE store.layer[l]
                          /\ store'.experts[l] = IF l = i THEN LayerImage(i) ELSE store.experts[l]
    BY <1>1 DEF RepackInv
  <1>5. /\ store'.manifest = store.manifest /\ store'.resman = store.resman
        /\ store'.resident = store.resident /\ store'.core = store.core
        /\ repack'.pc = NextLayer(i) /\ repack'.crashes = repack.crashes
    BY <1>1 DEF RepackInv
  <1> QED
    BY <1>1, <1>2, <1>3, <1>4, <1>5, NextLayerIs, EntriesKept
    DEF RepackInv, Progress, Survives, Holds, Wrote

\* A crash leaves what was renamed.
LEMMA RepackCrashInv == RepackInv /\ RepackCrash => RepackInv'
  <1> SUFFICES ASSUME RepackInv, RepackCrash PROVE RepackInv'
    OBVIOUS
  <1> USE DEF Stage, FileState, StoreShape, RepackShape
  <1>1. /\ repack' = [pc |-> <<"idle", 0>>, crashes |-> repack.crashes + 1]
        /\ store' = store /\ dir' = dir
    BY DEF RepackCrash
  <1>2. StoreShape' /\ RepackShape'
    BY <1>1 DEF RepackInv
  <1> QED
    BY <1>1, <1>2, EntriesKept DEF RepackInv, Progress, Survives, Holds, Wrote

\* The drivers and the loaders read the store and never write it.
LEMMA RepackNext == RepackInv /\ [Next]_vars => RepackInv'
  <1> SUFFICES ASSUME RepackInv, [Next]_vars PROVE RepackInv'
    OBVIOUS
  <1>1. UNCHANGED <<dir, store, repack>> => RepackInv'
    BY EntriesKept
    DEF RepackInv, StoreShape, RepackShape, Progress, Survives, Holds, Wrote
  <1>2. CASE RepackStart \/ RepackManifest \/ RepackResidentManifest \/ RepackResident \/ RepackCrash
    BY <1>2, RepackStartInv, RepackManifestInv, RepackResidentManifestInv, RepackResidentInv,
       RepackCrashInv
  <1>3. ASSUME NEW i \in Layers, RepackLayer(i) \/ RepackRename(i) PROVE RepackInv'
    BY <1>3, RepackLayerInv, RepackRenameInv
  <1>4. CASE Detect \/ LoadWeightsSharded \/ LoadResidentCore \/ LoadResidentBlob \/ LoadNvidia
    BY <1>1, <1>4
    DEF Detect, LoadWeightsSharded, LoadResidentCore, LoadResidentBlob, LoadNvidia
  <1>5. CASE ApplyShard \/ FinishShards \/ Cast \/ Quantize \/ OpenPool \/ Decode \/ UNCHANGED vars
    BY <1>1, <1>5 DEF ApplyShard, FinishShards, Cast, Quantize, OpenPool, Decode, vars
  <1> QED
    BY <1>2, <1>3, <1>4, <1>5 DEF Next

\* In every reachable state the store holds what the stage of the repack says it has written.
THEOREM StoreInvariant == Spec => []RepackInv
  BY RepackInit, RepackNext, PTL DEF Spec

\* A repack that reaches its end, after any number of kills at any step, has left a whole
\* manifest, a whole resident part or one torn by a kill, and every layer (repack's resume).
THEOREM ResumeIsComplete == Spec => []ResumeCompletes
  <1>1. RepackInv => ResumeCompletes
    BY DEF RepackInv, StoreShape, FileState, Progress, Survives, Wrote, ResumeCompletes
  <1> QED
    BY <1>1, StoreInvariant, PTL

-----------------------------------------------------------------------------
(***************************************************************************)
(* The geometry of a layer file: what the streaming pool reads at an       *)
(* expert's offset is what was written for that expert.                    *)
(***************************************************************************)

\* Division, products and the alignment, as far as the geometry needs them.
LEMMA DivBounds ==
  ASSUME NEW a \in Int, NEW b \in Nat \ {0}
  PROVE  a \div b \in Int /\ (a \div b) * b <= a /\ a < (a \div b) * b + b
  OBVIOUS

\* Sizes of positive sides are positive.
LEMMA ProductPositive ==
  ASSUME NEW a \in Nat \ {0}, NEW b \in Nat \ {0}
  PROVE  a * b \in Nat \ {0}
  OBVIOUS

\* Aligning upwards never gives less room.
LEMMA AlignUpCovers ==
  ASSUME NEW n \in Nat
  PROVE  AlignUp(n) \in Nat /\ AlignUp(n) >= n
  <1> DEFINE q == (n + Align - 1) \div Align
  <1>1. q \in Int /\ q * Align <= n + Align - 1 /\ n + Align - 1 < q * Align + Align
    BY BlobStoreAssumption, DivBounds
  <1>2. q * Align \in Int
    BY BlobStoreAssumption, <1>1
  <1> QED
    BY <1>1, <1>2, BlobStoreAssumption DEF AlignUp

\* Slots of one size, numbered: an earlier one ends before a later one begins.
LEMMA SlotsApart ==
  ASSUME NEW size \in Nat, NEW e \in Nat, NEW f \in Nat, e < f
  PROVE  e * size \in Nat /\ f * size \in Nat /\ e * size + size <= f * size
  <1>1. \E d \in Nat : f = e + 1 + d
    <2> WITNESS f - e - 1 \in Nat
    <2> QED
      OBVIOUS
  <1>2. PICK d \in Nat : f = e + 1 + d
    BY <1>1
  <1>3. f * size = e * size + size + d * size /\ d * size \in Nat /\ e * size \in Nat
    BY <1>2
  <1> QED
    BY <1>3

\* A projection whose width the codec takes has three nonempty parts that fit in its stride.
Fits(layout) ==
  /\ QwLen(layout) \in Nat \ {0} /\ BsLen(layout) \in Nat \ {0}
  /\ layout.stride \in Nat /\ layout.base \in Nat
  /\ QwLen(layout) + BsLen(layout) + 4 <= layout.stride

\* The tensors of a projection lie one after another.
LEMMA ProjFits ==
  ASSUME NEW n \in Nat \ {0}, NEW k \in Nat \ {0}, k % 16 = 0, NEW base \in Nat
  PROVE  Fits(ProjLayout(n, k, base))
  <1> DEFINE half == k \div 2  block == k \div 16
  <1>1. half \in Nat \ {0} /\ block \in Nat \ {0}
    OBVIOUS
  <1>2. n * half \in Nat \ {0} /\ n * block \in Nat \ {0}
    BY <1>1, ProductPositive
  <1>3. PayloadLen(n, k) = n * half + n * block + 4
    BY DEF PayloadLen
  <1> HIDE DEF half, block
  <1>4. AlignUp(PayloadLen(n, k)) \in Nat /\ AlignUp(PayloadLen(n, k)) >= PayloadLen(n, k)
    BY <1>2, <1>3, AlignUpCovers
  <1>5. /\ QwLen(ProjLayout(n, k, base)) = n * half
        /\ BsLen(ProjLayout(n, k, base)) = n * block
        /\ ProjLayout(n, k, base).stride = AlignUp(PayloadLen(n, k))
        /\ ProjLayout(n, k, base).base = base
    BY DEF ProjLayout, QwLen, BsLen, half, block
  <1> QED
    BY <1>2, <1>3, <1>4, <1>5 DEF Fits

\* The two projections of the manifest: gate and up first, then, after the last of them, down.
LEMMA ManifestFits ==
  ASSUME NEW b \in ExpertBases, Layout(b).k % 16 = 0
  PROVE  Fits(Layout(b))
  <1>1. /\ Dims.inter \in Nat \ {0} /\ Dims.hidden \in Nat \ {0} /\ Experts \in Nat \ {0}
    BY CheckpointAssumption
  <1>2. 2 * Dims.inter \in Nat \ {0}
    BY <1>1
  <1> DEFINE gateUp == ProjLayout(2 * Dims.inter, Dims.hidden, 0)
             down == ProjLayout(Dims.hidden, Dims.inter, gateUp.stride * Experts)
  <1>3. Manifest.gate_up = gateUp /\ Manifest.down = down
    BY DEF Manifest
  <1>4. gateUp.k = Dims.hidden /\ down.k = Dims.inter
    BY DEF ProjLayout
  <1>5. gateUp.stride \in Nat
    <2>1. /\ 2 * Dims.inter * (Dims.hidden \div 2) \in Nat
          /\ 2 * Dims.inter * (Dims.hidden \div 16) \in Nat
      <3> DEFINE two == 2 * Dims.inter
                 half == Dims.hidden \div 2  block == Dims.hidden \div 16
      <3>1. two \in Nat /\ half \in Nat /\ block \in Nat
        BY <1>1
      <3> HIDE DEF two, half, block
      <3>2. two * half \in Nat /\ two * block \in Nat
        BY <3>1
      <3> QED
        BY <3>2 DEF two, half, block
    <2>2. PayloadLen(2 * Dims.inter, Dims.hidden) \in Nat
      BY <2>1 DEF PayloadLen
    <2> QED
      BY <2>2, AlignUpCovers DEF ProjLayout
  <1>6. gateUp.stride * Experts \in Nat
    <2> DEFINE stride == gateUp.stride
    <2> HIDE DEF stride
    <2>1. stride \in Nat => stride * Experts \in Nat
      BY <1>1
    <2> QED
      BY <2>1, <1>5 DEF stride
  <1> HIDE DEF gateUp, down
  <1>7. CASE b = "mlp.experts.gate_up_proj"
    <2>1. Layout(b) = gateUp
      BY <1>3, <1>7 DEF Layout
    <2> QED
      BY <2>1, <1>1, <1>2, <1>4, ProjFits DEF gateUp
  <1>8. CASE b = "mlp.experts.down_proj"
    <2>1. Layout(b) = down
      BY <1>3, <1>8 DEF Layout
    <2> QED
      BY <2>1, <1>1, <1>4, <1>6, ProjFits DEF down
  <1> QED
    BY <1>7, <1>8 DEF ExpertBases

\* A part that no other part of the file touches is read back as it was written.
LEMMA ReadPartIsOwn ==
  ASSUME NEW file, NEW s \in file,
         \A t \in file : t.at \in Nat /\ t.len \in Nat,
         s.len > 0,
         \A t \in file : t # s => t.at + t.len <= s.at \/ s.at + s.len <= t.at
  PROVE  ReadPart(file, s.at, s.len) = s.of
  <1> DEFINE hit == {t \in file : t.at < s.at + s.len /\ s.at < t.at + t.len}
  <1>1. s \in hit
    OBVIOUS
  <1>2. \A t \in hit : t = s
    OBVIOUS
  <1>3. hit = {s}
    BY <1>1, <1>2
  <1> HIDE DEF hit
  <1>4. (CHOOSE t \in hit : TRUE) = s
    BY <1>3
  <1>5. ReadPart(file, s.at, s.len) =
          IF \E t \in hit : hit = {t} /\ t.at = s.at /\ t.len = s.len
          THEN (CHOOSE t \in hit : TRUE).of ELSE Garbage
    BY DEF ReadPart, hit
  <1> QED
    BY <1>3, <1>4, <1>5

\* The records of a layer file, and their three parts.
Slots == ExpertBases \X (0 .. Experts - 1)
RecordAt(slot) == RecordOffset(Layout(slot[1]), slot[2])
PartAt(slot, part) ==
  RecordAt(slot) + (CASE part = "qw" -> 0
                      [] part = "bs" -> QwLen(Layout(slot[1]))
                      [] part = "gs" -> QwLen(Layout(slot[1])) + BsLen(Layout(slot[1])))
PartLen(slot, part) ==
  CASE part = "qw" -> QwLen(Layout(slot[1]))
    [] part = "bs" -> BsLen(Layout(slot[1]))
    [] part = "gs" -> 4
PartOf(l, slot, part) ==
  Segment(PartAt(slot, part), PartLen(slot, part), <<<<Name("L", l, slot[1]), slot[2]>>, part>>)
Parts == {"qw", "bs", "gs"}

\* Records of different experts or projections do not overlap.
LEMMA RecordsApart ==
  ASSUME Packable, NEW x \in Slots, NEW y \in Slots, x # y
  PROVE  /\ RecordAt(x) \in Nat /\ RecordAt(y) \in Nat
         /\ \/ RecordAt(x) + Layout(x[1]).stride <= RecordAt(y)
            \/ RecordAt(y) + Layout(y[1]).stride <= RecordAt(x)
  <1> DEFINE gu == Layout("mlp.experts.gate_up_proj")
             dn == Layout("mlp.experts.down_proj")
  <1>1. gu.stride \in Nat /\ dn.stride \in Nat /\ Experts \in Nat \ {0}
    BY ManifestFits, CheckpointAssumption DEF Packable, Fits, ExpertBases
  <1>2. gu.base = 0 /\ dn.base = gu.stride * Experts
    BY DEF Layout, Manifest, ProjLayout
  <1> HIDE DEF gu, dn
  <1>3. /\ \A z \in Slots : /\ z[2] \in Nat /\ z[2] < Experts
                            /\ \/ z[1] = "mlp.experts.gate_up_proj" /\ Layout(z[1]) = gu
                               \/ z[1] = "mlp.experts.down_proj" /\ Layout(z[1]) = dn
        /\ \A z \in Slots : z = <<z[1], z[2]>>
    BY <1>1 DEF Slots, ExpertBases, gu, dn
  <1> DEFINE end == Experts * gu.stride
  <1>4. end \in Nat /\ end = dn.base
    BY <1>1, <1>2
  <1>5. \A z \in Slots :
          /\ RecordAt(z) \in Nat
          /\ z[1] = "mlp.experts.gate_up_proj" => RecordAt(z) + gu.stride <= end
          /\ z[1] = "mlp.experts.down_proj" => RecordAt(z) >= end
    <2> TAKE z \in Slots
    <2>1. z[2] \in Nat /\ z[2] < Experts
      BY <1>3
    <2>2. /\ z[2] * gu.stride \in Nat /\ z[2] * gu.stride + gu.stride <= end
          /\ z[2] * dn.stride \in Nat
      BY <2>1, <1>1, SlotsApart
    <2>3. CASE z[1] = "mlp.experts.gate_up_proj"
      <3>1. RecordAt(z) = z[2] * gu.stride
        BY <1>2, <1>3, <2>2, <2>3 DEF RecordAt, RecordOffset
      <3> QED
        BY <2>2, <2>3, <3>1
    <2>4. CASE z[1] = "mlp.experts.down_proj"
      <3>1. RecordAt(z) = end + z[2] * dn.stride
        BY <1>2, <1>3, <1>4, <2>4 DEF RecordAt, RecordOffset
      <3> QED
        BY <1>4, <2>2, <2>4, <3>1
    <2> QED
      BY <1>3, <2>3, <2>4
  <1>6. CASE x[1] # y[1]
    BY <1>1, <1>3, <1>4, <1>5, <1>6
  <1>7. CASE x[1] = y[1]
    <2> DEFINE size == Layout(x[1]).stride  base == Layout(x[1]).base
    <2>1. size \in Nat /\ base \in Nat
      BY <1>1, <1>2, <1>3, <1>4
    <2>2. x[2] \in Nat /\ y[2] \in Nat /\ x[2] # y[2]
      BY <1>3, <1>7
    <2>3. /\ RecordAt(x) = base + x[2] * size /\ RecordAt(y) = base + y[2] * size
      BY <1>7 DEF RecordAt, RecordOffset
    <2> HIDE DEF size, base
    <2>4. \/ x[2] * size + size <= y[2] * size
          \/ y[2] * size + size <= x[2] * size
      <3>1. CASE x[2] < y[2]
        BY <2>1, <2>2, <3>1, SlotsApart
      <3>2. CASE y[2] < x[2]
        BY <2>1, <2>2, <3>2, SlotsApart
      <3> QED
        BY <2>2, <3>1, <3>2
    <2>5. x[2] * size \in Nat /\ y[2] * size \in Nat
      BY <2>1, <2>2
    <2>6. Layout(y[1]).stride = size /\ Layout(x[1]).stride = size
      BY <1>7 DEF size
    <2> QED
      BY <2>1, <2>3, <2>4, <2>5, <2>6
  <1> QED
    BY <1>6, <1>7

\* So do their parts, and each has a length.
LEMMA PartsApart ==
  ASSUME Packable, NEW x \in Slots, NEW y \in Slots, NEW p \in Parts, NEW q \in Parts
  PROVE  /\ PartAt(x, p) \in Nat /\ PartLen(x, p) \in Nat \ {0}
         /\ x # y \/ p # q => \/ PartAt(x, p) + PartLen(x, p) <= PartAt(y, q)
                              \/ PartAt(y, q) + PartLen(y, q) <= PartAt(x, p)
  <1>1. \A z \in Slots : /\ Fits(Layout(z[1])) /\ z[2] \in Nat
    BY ManifestFits, CheckpointAssumption DEF Packable, Slots
  <1>2. \A z \in Slots : RecordAt(z) \in Nat
    <2> TAKE z \in Slots
    <2> DEFINE size == Layout(z[1]).stride  base == Layout(z[1]).base
    <2>1. size \in Nat /\ base \in Nat /\ z[2] \in Nat
      BY <1>1 DEF Fits
    <2> HIDE DEF size, base
    <2>2. base + z[2] * size \in Nat
      BY <2>1
    <2> QED
      BY <2>2 DEF size, base, RecordAt, RecordOffset
  <1>3. \A z \in Slots, r \in Parts :
          /\ RecordAt(z) <= PartAt(z, r) /\ PartAt(z, r) \in Nat /\ PartLen(z, r) \in Nat \ {0}
          /\ PartAt(z, r) + PartLen(z, r) <= RecordAt(z) + Layout(z[1]).stride
    BY <1>1, <1>2 DEF Fits, Parts, PartAt, PartLen
  <1>4. CASE x # y
    <2>1. \A z \in Slots : Layout(z[1]).stride \in Nat
      BY <1>1 DEF Fits
    <2> QED
      BY <1>2, <1>3, <1>4, <2>1, RecordsApart
  <1>5. CASE x = y /\ p # q
    BY <1>1, <1>2, <1>3, <1>5 DEF Fits, Parts, PartAt, PartLen
  <1> QED
    BY <1>3, <1>4, <1>5

\* A layer file is the parts of its records and nothing else.
LEMMA LayerImageIs ==
  ASSUME Packable, NEW l
  PROVE  LayerImage(l) = {PartOf(l, slot, part) : slot \in Slots, part \in Parts}
  <1> DEFINE Written(slot) == WriteRecord(Layout(slot[1]), RecordAt(slot),
                                          <<Name("L", l, slot[1]), slot[2]>>)
  <1>1. \A slot \in Slots : Written(slot) = {PartOf(l, slot, part) : part \in Parts}
    <2> TAKE slot \in Slots
    <2> DEFINE at == RecordAt(slot)  of == <<Name("L", l, slot[1]), slot[2]>>
               qw == QwLen(Layout(slot[1]))  bs == BsLen(Layout(slot[1]))
    <2>1. qw \in Nat /\ bs \in Nat /\ at \in Nat
      <3>1. PartAt(slot, "qw") \in Nat /\ PartAt(slot, "qw") = at + 0
        BY PartsApart DEF Parts, PartAt
      <3>2. Fits(Layout(slot[1]))
        BY ManifestFits DEF Packable, Slots
      <3>3. Layout(slot[1]).base \in Nat /\ Layout(slot[1]).stride \in Nat /\ slot[2] \in Nat
        BY <3>2, CheckpointAssumption DEF Fits, Slots
      <3> DEFINE base == Layout(slot[1]).base  size == Layout(slot[1]).stride
      <3>4. at = base + slot[2] * size
        BY DEF RecordAt, RecordOffset
      <3> HIDE DEF base, size
      <3>5. base + slot[2] * size \in Nat
        BY <3>3 DEF base, size
      <3> QED
        BY <3>2, <3>4, <3>5 DEF Fits
    <2> HIDE DEF at, qw, bs
    <2>2. /\ PartOf(l, slot, "qw") = Segment(at, qw, <<of, "qw">>)
          /\ PartOf(l, slot, "bs") = Segment(at + qw, bs, <<of, "bs">>)
          /\ PartOf(l, slot, "gs") = Segment(at + qw + bs, 4, <<of, "gs">>)
      <3>1. at + 0 = at /\ at + (qw + bs) = at + qw + bs
        BY <2>1
      <3> QED
        BY <3>1 DEF PartOf, PartAt, PartLen, at, qw, bs
    <2> HIDE DEF of
    <2>3. Written(slot) = {Segment(at, qw, <<of, "qw">>), Segment(at + qw, bs, <<of, "bs">>),
                           Segment(at + qw + bs, 4, <<of, "gs">>)}
      BY DEF WriteRecord, at, qw, bs, of
    <2> QED
      BY <2>2, <2>3 DEF Parts
  <1>2. LayerImage(l) = UNION {Written(<<b, e>>) : b \in ExpertBases, e \in 0 .. Experts - 1}
    BY DEF LayerImage, RecordAt, ExpertBases
  <1> HIDE DEF Written
  <1>3. \A b \in ExpertBases, e \in 0 .. Experts - 1 : <<b, e>> \in Slots
    BY DEF Slots
  <1>4. \A slot \in Slots : slot[1] \in ExpertBases /\ slot[2] \in 0 .. Experts - 1
                            /\ slot = <<slot[1], slot[2]>>
    BY DEF Slots
  <1>5. \A s : s \in LayerImage(l) <=> \E b \in ExpertBases, e \in 0 .. Experts - 1 : s \in Written(<<b, e>>)
    <2> DEFINE records == {Written(<<b, e>>) : b \in ExpertBases, e \in 0 .. Experts - 1}
    <2>1. \A w : w \in records <=> \E b \in ExpertBases, e \in 0 .. Experts - 1 : w = Written(<<b, e>>)
      OBVIOUS
    <2> HIDE DEF records
    <2>2. \A s : s \in UNION records <=> \E w \in records : s \in w
      OBVIOUS
    <2>3. LayerImage(l) = UNION records
      BY <1>2 DEF records
    <2> TAKE s
    <2>4. s \in LayerImage(l) <=> \E w \in records : s \in w
      BY <2>2, <2>3
    <2>5. ASSUME NEW b \in ExpertBases, NEW e \in 0 .. Experts - 1, s \in Written(<<b, e>>)
          PROVE  \E w \in records : s \in w
      BY <2>1, <2>5
    <2>6. ASSUME NEW w \in records, s \in w
          PROVE  \E b \in ExpertBases, e \in 0 .. Experts - 1 : s \in Written(<<b, e>>)
      <3>1. PICK b \in ExpertBases, e \in 0 .. Experts - 1 : w = Written(<<b, e>>)
        BY <2>1
      <3> QED
        BY <2>6, <3>1
    <2> QED
      BY <2>4, <2>5, <2>6
  <1>6. \A s : s \in LayerImage(l) <=> \E slot \in Slots : s \in Written(slot)
    <2> TAKE s
    <2>1. ASSUME NEW slot \in Slots, s \in Written(slot) PROVE s \in LayerImage(l)
      BY <1>4, <1>5, <2>1
    <2>2. ASSUME s \in LayerImage(l) PROVE \E slot \in Slots : s \in Written(slot)
      <3>1. PICK b \in ExpertBases, e \in 0 .. Experts - 1 : s \in Written(<<b, e>>)
        BY <1>5, <2>2
      <3> QED
        BY <1>3, <3>1
    <2> QED
      BY <2>1, <2>2
  <1>7. \A s : s \in LayerImage(l) <=> \E slot \in Slots, part \in Parts : s = PartOf(l, slot, part)
    BY <1>1, <1>6
  <1> QED
    BY <1>7

\* What the streaming pool reads of an expert in a layer file is the record the repack wrote
\* for that expert: its own weights, its own block scales, its own global scale.
LEMMA PreadReadsOwn ==
  ASSUME Packable, NEW l, NEW b \in ExpertBases
  PROVE  PreadIsOwn(LayerImage(l), Name("L", l, b))
  <1> DEFINE file == LayerImage(l)  name == Name("L", l, b)
  <1>1. name[3] = b
    BY DEF Name
  <1>2. \A slot \in Slots, part \in Parts :
          ReadPart(file, PartAt(slot, part), PartLen(slot, part)) = PartOf(l, slot, part).of
    <2> TAKE slot \in Slots, part \in Parts
    <2> DEFINE s == PartOf(l, slot, part)
    <2>1. s \in file
      BY LayerImageIs
    <2>2. s.at = PartAt(slot, part) /\ s.len = PartLen(slot, part)
      BY DEF PartOf, Segment
    <2>3. \A t \in file : \E x \in Slots, p \in Parts :
            t = PartOf(l, x, p) /\ t.at = PartAt(x, p) /\ t.len = PartLen(x, p)
      BY LayerImageIs DEF PartOf, Segment
    <2>4. \A t \in file : t.at \in Nat /\ t.len \in Nat
      BY <2>3, PartsApart
    <2>5. s.len > 0 /\ s.at \in Nat /\ s.len \in Nat
      BY <2>2, PartsApart
    <2>6. \A t \in file : t # s => t.at + t.len <= s.at \/ s.at + s.len <= t.at
      BY <2>2, <2>3, PartsApart
    <2> HIDE DEF s, file
    <2>7. ReadPart(file, s.at, s.len) = s.of
      BY <2>1, <2>4, <2>5, <2>6, ReadPartIsOwn
    <2> QED
      BY <2>2, <2>7 DEF s
  <1>3. ASSUME NEW e \in 0 .. Experts - 1
        PROVE  ReadRecord(file, Layout(b), RecordOffset(Layout(b), e)) = RecordOf(<<name, e>>)
    <2> DEFINE slot == <<b, e>>  at == RecordAt(slot)
               qw == QwLen(Layout(b))  bs == BsLen(Layout(b))
    <2>1. slot \in Slots /\ slot[1] = b /\ slot[2] = e /\ at = RecordOffset(Layout(b), e)
      BY DEF Slots, RecordAt
    <2> HIDE DEF slot
    <2>2. /\ PartAt(slot, "qw") = at + 0 /\ PartLen(slot, "qw") = qw
          /\ PartAt(slot, "bs") = at + qw /\ PartLen(slot, "bs") = bs
          /\ PartAt(slot, "gs") = at + (qw + bs) /\ PartLen(slot, "gs") = 4
          /\ \A part \in Parts : PartOf(l, slot, part).of = <<<<name, e>>, part>>
      BY <2>1 DEF PartAt, PartLen, PartOf, Segment
    <2>3. qw \in Nat /\ bs \in Nat /\ at \in Nat
      <3>1. Fits(Layout(b))
        BY ManifestFits DEF Packable
      <3> DEFINE base == Layout(b).base  size == Layout(b).stride
      <3>2. base \in Nat /\ size \in Nat /\ e \in Nat
        BY <3>1, CheckpointAssumption DEF Fits
      <3>3. at = base + e * size
        BY <2>1 DEF RecordOffset
      <3> HIDE DEF base, size
      <3>4. base + e * size \in Nat
        BY <3>2
      <3> QED
        BY <3>1, <3>3, <3>4 DEF Fits
    <2> HIDE DEF at, qw, bs, file
    <2>4. at + 0 = at /\ at + (qw + bs) = at + qw + bs
      BY <2>3
    <2>5. /\ ReadPart(file, at, qw) = <<<<name, e>>, "qw">>
          /\ ReadPart(file, at + qw, bs) = <<<<name, e>>, "bs">>
          /\ ReadPart(file, at + qw + bs, 4) = <<<<name, e>>, "gs">>
      BY <1>2, <2>1, <2>2, <2>4 DEF Parts
    <2> QED
      BY <2>1, <2>5 DEF ReadRecord, RecordOf, qw, bs
  <1> QED
    BY <1>1, <1>3 DEF PreadIsOwn

\* Whenever a layer file counts as whole, under any interleaving of the repack, its kills and
\* the streaming pool, a positional read of any expert's projection returns that expert's own
\* record (nvfp4_blob.rs: write_record and the pread of the pool agree on the geometry).
StreamedIsOwn ==
  \A l \in Layers, b \in ExpertBases :
    store.layer[l] = "whole" => PreadIsOwn(store.experts[l], Name("L", l, b))

\* StreamedIsOwn, for every configuration, alignment and directory.
THEOREM StreamReadsOwn == Spec => []StreamedIsOwn
  <1>1. RepackInv => StreamedIsOwn
    BY PreadReadsOwn DEF RepackInv, Holds, StreamedIsOwn
  <1> QED
    BY <1>1, StoreInvariant, PTL
=============================================================================
