------------------------------ MODULE BlobStore ------------------------------
(* The files of the offline store, as the repack writes them and as the     *)
(* loader and the streaming pool read them back. A file is the set of its   *)
(* segments [at, len, of]: a part written whole at a byte offset. Reading   *)
(* gives that part when it is read at the same offset and length and        *)
(* nothing else was written over it.                                        *)
EXTENDS Checkpoint, SequencesExt

CONSTANTS
  Align,    \* alignment of a record, 16 KiB in the code
  Single    \* bases of the tensors that the files hold in f32

ASSUME BlobStoreAssumption == Align \in Nat \ {0}

AlignUp(n) == ((n + Align - 1) \div Align) * Align

\* Geometry of the records of one projection: [n, k] weights of half a byte, a scale per block
\* of sixteen, one global scale of four bytes.
QwLen(layout) == layout.n * (layout.k \div 2)
BsLen(layout) == layout.n * (layout.k \div 16)
PayloadLen(n, k) == n * (k \div 2) + n * (k \div 16) + 4
ProjLayout(n, k, base) == [n |-> n, k |-> k, base |-> base, stride |-> AlignUp(PayloadLen(n, k))]
RecordOffset(layout, expert) == layout.base + expert * layout.stride

\* The manifest of the layer files: the gate and up records first, then the down records.
Manifest ==
  LET gateUp == ProjLayout(2 * Dims.inter, Dims.hidden, 0)
  IN [gate_up |-> gateUp,
      down |-> ProjLayout(Dims.hidden, Dims.inter, gateUp.stride * Experts)]
Layout(base) == IF base = "mlp.experts.gate_up_proj" THEN Manifest.gate_up ELSE Manifest.down

Segment(at, len, of) == [at |-> at, len |-> len, of |-> of]
Garbage == << >>
ReadPart(file, at, len) ==
  LET hit == {s \in file : s.at < at + len /\ at < s.at + s.len}
  IN IF \E s \in hit : hit = {s} /\ s.at = at /\ s.len = len
     THEN (CHOOSE s \in hit : TRUE).of ELSE Garbage

\* write_record and its two readers (a slice of the mapped file, a positional read).
WriteRecord(layout, at, of) ==
  {Segment(at, QwLen(layout), <<of, "qw">>),
   Segment(at + QwLen(layout), BsLen(layout), <<of, "bs">>),
   Segment(at + QwLen(layout) + BsLen(layout), 4, <<of, "gs">>)}
ReadRecord(file, layout, at) ==
  <<ReadPart(file, at, QwLen(layout)),
    ReadPart(file, at + QwLen(layout), BsLen(layout)),
    ReadPart(file, at + QwLen(layout) + BsLen(layout), 4)>>
RecordOf(of) == <<<<of, "qw">>, <<of, "bs">>, <<of, "gs">>>>

\* One layer file: every expert of both projections.
LayerImage(l) ==
  UNION {WriteRecord(Layout(b), RecordOffset(Layout(b), e), <<Name("L", l, b), e>>) :
         b \in {"mlp.experts.gate_up_proj", "mlp.experts.down_proj"}, e \in 0 .. Experts - 1}
PreadIsOwn(file, name) ==
  \A e \in 0 .. Experts - 1 :
    ReadRecord(file, Layout(name[3]), RecordOffset(Layout(name[3]), e)) = RecordOf(<<name, e>>)

-----------------------------------------------------------------------------
(* The resident file: one entry per tensor, packed or as it is.             *)

\* Every two-dimensional BF16 tensor whose input width the codec accepts is packed.
Packed == {n \in Expected : /\ Len(ShapeOf(n)) = 2 /\ ShapeOf(n)[2] % 16 = 0
                            /\ n[3] \notin Single}

Elements(shape) == LET size[i \in 0 .. Len(shape)] == IF i = 0 THEN 1 ELSE size[i - 1] * shape[i]
                   IN size[Len(shape)]
RawLen(name) ==
  IF name \in Expected THEN Elements(ShapeOf(name)) * (IF name[3] \in Single THEN 4 ELSE 2) ELSE Align
EntryLayout(name) == ProjLayout(ShapeOf(name)[1], ShapeOf(name)[2], 0)
ByteLen(name) == IF name \in Packed THEN EntryLayout(name).stride ELSE AlignUp(RawLen(name))

\* Where the manifest says the next entry begins, and where its bytes really go: the buffer is
\* grown up to the offset and the entry is appended to whatever it then holds.
ResidentImage(names) ==
  LET order == FoldSet(LAMBDA n, seq : Append(seq, n), << >>, names)
      total == FoldSet(LAMBDA n, seq : Append(seq, AlignUp(Last(seq)) + ByteLen(n)), <<0>>, names)
      end == FoldSet(LAMBDA n, seq : Append(seq, Max({Last(seq), AlignUp(total[Len(seq)])}) + ByteLen(n)),
                     <<0>>, names)
      Bytes(i) == LET at == end[i + 1] - ByteLen(order[i])
                  IN IF order[i] \in Packed THEN WriteRecord(EntryLayout(order[i]), at, order[i])
                                            ELSE {Segment(at, RawLen(order[i]), order[i])}
  IN [offset |-> [n \in names |-> AlignUp(total[CHOOSE i \in 1 .. Len(order) : order[i] = n])],
      bytes |-> UNION {Bytes(i) : i \in 1 .. Len(order)}]

\* An entry read back: the record of a packed tensor, the slice of another one.
EntryIsOwn(image, name) ==
  IF name \in Packed
  THEN ReadRecord(image.bytes, EntryLayout(name), image.offset[name]) = RecordOf(name)
  ELSE ReadPart(image.bytes, image.offset[name], RawLen(name)) = name
=============================================================================
