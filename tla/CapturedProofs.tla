--------------------------- MODULE CapturedProofs ---------------------------
(***************************************************************************)
(* Proofs about CapturedDecode, for any prompts, lengths, sampler and      *)
(* warm-up and whatever rollouts a caller keeps: a captured graph and the  *)
(* host mean the same storage over resets, prompts and replays, but for    *)
(* the outputs of a bucket that a caller keeps; nothing leaves its buffer  *)
(* within max_new passes while that storage is owned; and what the host    *)
(* reads is what decoding without a graph gives, or a reset's zeros where  *)
(* an output was moved.                                                    *)
(***************************************************************************)
EXTENDS CapturedDecode, DataInduction

\* The twelve buffers, and where each is first.
LEMMA BufferPlaces ==
  /\ Buf = {"tok", "emit", "logp", "mask", "pos", "finished", "last", "kv", "gdn",
            "base", "lo", "seed"}
  /\ Addresses \in [Buf -> Slots]
  /\ 0 \in Slots
  BY CaptureAssumption DEF Buf, Addresses, Slots

\* Pieces of storage for each buffer.
Pieces(m) == m = [b \in Buf |-> [slot \in Slots |-> m[b][slot]]]

\* They are those of each buffer by itself.
LEMMA PiecesAre ==
  ASSUME NEW m
  PROVE  Pieces(m) <=> /\ m = [b \in Buf |-> m[b]]
                       /\ \A b \in Buf : m[b] = [slot \in Slots |-> m[b][slot]]
  <1>1. ASSUME Pieces(m)
        PROVE  /\ m = [b \in Buf |-> m[b]]
               /\ \A b \in Buf : m[b] = [slot \in Slots |-> m[b][slot]]
    <2> DEFINE f == [b \in Buf |-> [slot \in Slots |-> m[b][slot]]]
    <2>1. m = f
      BY <1>1 DEF Pieces
    <2>2. f = [b \in Buf |-> f[b]] /\ \A b \in Buf : f[b] = [slot \in Slots |-> m[b][slot]]
      OBVIOUS
    <2> HIDE DEF f
    <2> QED
      BY <2>1, <2>2
  <1>2. ASSUME m = [b \in Buf |-> m[b]], \A b \in Buf : m[b] = [slot \in Slots |-> m[b][slot]]
        PROVE  Pieces(m)
    <2> DEFINE row(b) == m[b]  cols(b) == [slot \in Slots |-> m[b][slot]]
    <2>1. m = [b \in Buf |-> row(b)] /\ \A b \in Buf : row(b) = cols(b)
      BY <1>2
    <2> HIDE DEF row, cols
    <2>2. m = [b \in Buf |-> cols(b)]
      BY <2>1
    <2> QED
      BY <2>2 DEF Pieces, cols
  <1> QED
    BY <1>1, <1>2

\* The device: pieces of storage for each buffer, and the one each buffer is in.
DevShape(d) ==
  /\ d = [mem |-> d.mem, at |-> d.at, wild |-> d.wild]
  /\ Pieces(d.mem)
  /\ d.at \in [Buf -> Slots]
  /\ d.wild \in BOOLEAN

\* What the buffers hold.
Val(d) == Values(d.mem, d.at)

\* A buffer is where the graph has it.
Stays(d, b) == d.at[b] = baked[b]

\* Only the outputs of a bucket are ever elsewhere.
Placed(d) ==
  /\ DevShape(d) /\ baked \in [Buf -> Slots]
  /\ \A b \in Buf : ~Stays(d, b) => driver = "bucket" /\ b \in OutBufs

\* The buffers that are where the graph has them hold g.
Tells(d, g) ==
  /\ g = [b \in Buf |-> g[b]]
  /\ \A b \in Buf : Stays(d, b) => d.mem[b][d.at[b]] = g[b]

\* Writing to storage writes the piece of each buffer that at names, and no other.
LEMMA StoredIs ==
  ASSUME NEW mem, Pieces(mem), NEW at \in [Buf -> Slots], NEW bufs, NEW v,
         NEW m, m = Stored(mem, at, bufs, v)
  PROVE  /\ Pieces(m)
         /\ \A b \in Buf, slot \in Slots :
              m[b][slot] = IF b \in bufs /\ slot = at[b] THEN v[b] ELSE mem[b][slot]
  <1>1. m = [b \in Buf |-> IF b \in bufs THEN [mem[b] EXCEPT ![at[b]] = v[b]] ELSE mem[b]]
    BY DEF Stored
  <1>2. ASSUME NEW b \in Buf
        PROVE  /\ m[b] = [slot \in Slots |-> m[b][slot]]
               /\ \A slot \in Slots :
                    m[b][slot] = IF b \in bufs /\ slot = at[b] THEN v[b] ELSE mem[b][slot]
    <2> DEFINE row == mem[b]  s == at[b]  x == v[b]
    <2>1. row = [slot \in Slots |-> row[slot]] /\ s \in Slots
      BY PiecesAre
    <2>2. m[b] = IF b \in bufs THEN [row EXCEPT ![s] = x] ELSE row
      BY <1>1
    <2> HIDE DEF row, s, x
    <2>3. CASE b \in bufs
      <3>1. m[b] = [row EXCEPT ![s] = x]
        BY <2>2, <2>3
      <3>2. [row EXCEPT ![s] = x] = [slot \in Slots |-> IF slot = s THEN x ELSE row[slot]]
        BY <2>1
      <3> QED
        BY <2>3, <3>1, <3>2 DEF row, s, x
    <2>4. CASE b \notin bufs
      BY <2>1, <2>2, <2>4 DEF row, s, x
    <2> QED
      BY <2>3, <2>4
  <1>3. m = [b \in Buf |-> m[b]]
    BY <1>1
  <1>4. Pieces(m)
    BY <1>2, <1>3, PiecesAre
  <1> QED
    BY <1>2, <1>4

\* A device is its three parts, and setting some leaves the others.
LEMMA DeviceParts ==
  ASSUME NEW d, DevShape(d), NEW m, NEW at, NEW w
  PROVE  /\ [d EXCEPT !.mem = m] = [mem |-> m, at |-> d.at, wild |-> d.wild]
         /\ [d EXCEPT !.at = at, !.mem = m] = [mem |-> m, at |-> at, wild |-> d.wild]
         /\ [d EXCEPT !.wild = w] = [mem |-> d.mem, at |-> d.at, wild |-> w]
  <1> DEFINE x == d.mem  y == d.at  z == d.wild
  <1>1. d = [mem |-> x, at |-> y, wild |-> z]
    BY DEF DevShape
  <1> HIDE DEF x, y, z
  <1>2. \A p, q, r, t : [[mem |-> p, at |-> q, wild |-> r] EXCEPT !.mem = t]
                          = [mem |-> t, at |-> q, wild |-> r]
    OBVIOUS
  <1>3. \A p, q, r, t : [[mem |-> p, at |-> q, wild |-> r] EXCEPT !.at = t]
                          = [mem |-> p, at |-> t, wild |-> r]
    OBVIOUS
  <1>4. \A p, q, r, t : [[mem |-> p, at |-> q, wild |-> r] EXCEPT !.wild = t]
                          = [mem |-> p, at |-> q, wild |-> t]
    OBVIOUS
  <1>5. [d EXCEPT !.mem = m] = [mem |-> m, at |-> y, wild |-> z]
    BY <1>1, <1>2
  <1>6. [[d EXCEPT !.at = at] EXCEPT !.mem = m] = [mem |-> m, at |-> at, wild |-> z]
    <2> DEFINE e == [d EXCEPT !.at = at]
    <2>1. e = [mem |-> x, at |-> at, wild |-> z]
      BY <1>1, <1>3
    <2> HIDE DEF e
    <2>2. [e EXCEPT !.mem = m] = [mem |-> m, at |-> at, wild |-> z]
      BY <1>2, <2>1
    <2> QED
      BY <2>2 DEF e
  <1>7. [d EXCEPT !.wild = w] = [mem |-> x, at |-> y, wild |-> w]
    BY <1>1, <1>4, Zenon
  <1> QED
    BY <1>5, <1>6, <1>7 DEF x, y, z

\* The buffers bufs of d after v is written where at has them.
Wrote(d, at, bufs, v, e) ==
  /\ DevShape(e) /\ e.wild = d.wild
  /\ \A b \in Buf, slot \in Slots :
       e.mem[b][slot] = IF b \in bufs /\ slot = at[b] THEN v[b] ELSE d.mem[b][slot]

\* An update writes every buffer where it is put.
LEMMA WriteAllIs ==
  ASSUME NEW d, DevShape(d), NEW at \in [Buf -> Slots], NEW bufs, NEW v
  PROVE  Wrote(d, at, bufs, v, WriteAll(d, at, bufs, v)) /\ WriteAll(d, at, bufs, v).at = at
  <1> DEFINE m == Stored(d.mem, at, bufs, v)  e == WriteAll(d, at, bufs, v)
  <1>1. Pieces(d.mem)
    BY DEF DevShape
  <1>2. /\ Pieces(m)
        /\ \A b \in Buf, slot \in Slots :
             m[b][slot] = IF b \in bufs /\ slot = at[b] THEN v[b] ELSE d.mem[b][slot]
    BY <1>1, StoredIs
  <1>3. e = [d EXCEPT !.at = at, !.mem = m]
    BY DEF WriteAll
  <1> HIDE DEF m, e
  <1>4. e = [mem |-> m, at |-> at, wild |-> d.wild]
    BY <1>3, DeviceParts
  <1>5. e.mem = m /\ e.at = at /\ e.wild = d.wild
    BY <1>4
  <1>6. DevShape(e)
    BY <1>2, <1>4, <1>5 DEF DevShape
  <1> QED
    BY <1>2, <1>5, <1>6 DEF Wrote, e

\* Writing through other addresses moves no buffer.
LEMMA PlayedIs ==
  ASSUME NEW d, DevShape(d), NEW at \in [Buf -> Slots], NEW bufs, NEW v,
         NEW e, e = [d EXCEPT !.mem = Stored(@, at, bufs, v)]
  PROVE  Wrote(d, at, bufs, v, e) /\ e.at = d.at
  <1> DEFINE m == Stored(d.mem, at, bufs, v)
  <1>1. Pieces(d.mem)
    BY DEF DevShape
  <1>2. /\ Pieces(m)
        /\ \A b \in Buf, slot \in Slots :
             m[b][slot] = IF b \in bufs /\ slot = at[b] THEN v[b] ELSE d.mem[b][slot]
    BY <1>1, StoredIs
  <1>3. e = [d EXCEPT !.mem = m]
    OBVIOUS
  <1> HIDE DEF m
  <1>4. e = [mem |-> m, at |-> d.at, wild |-> d.wild]
    BY <1>3, DeviceParts
  <1>5. e.mem = m /\ e.at = d.at /\ e.wild = d.wild
    BY <1>4
  <1>6. DevShape(e)
    BY <1>2, <1>4, <1>5 DEF DevShape
  <1> QED
    BY <1>2, <1>5, <1>6 DEF Wrote

\* Marking a device touches nothing.
LEMMA WildIs ==
  ASSUME NEW d, DevShape(d), NEW w \in BOOLEAN
  PROVE  LET e == [d EXCEPT !.wild = w]
         IN  DevShape(e) /\ e.mem = d.mem /\ e.at = d.at /\ e.wild = w
  <1> DEFINE e == [d EXCEPT !.wild = w]
  <1>1. e = [mem |-> d.mem, at |-> d.at, wild |-> w]
    BY DeviceParts
  <1> HIDE DEF e
  <1>2. e.mem = d.mem /\ e.at = d.at /\ e.wild = w
    BY <1>1
  <1>3. DevShape(e)
    BY <1>1, <1>2 DEF DevShape
  <1> QED
    BY <1>2, <1>3 DEF e

\* An update puts every buffer somewhere, and moves only one that is part of a rollout that
\* is kept.
LEMMA PlacementsAre ==
  ASSUME NEW d, DevShape(d)
  PROVE  /\ \A at \in Placements(d) :
              /\ at \in [Buf -> Slots]
              /\ \A b \in Buf : at[b] # d.at[b] => b \in OutBufs /\ held # {}
         /\ held = {} => Placements(d) = {d.at}
  <1> DEFINE shared == {b \in Buf : KeptAt(held, b, d.at[b])}
             spots == {to \in [shared -> Slots] : \A b \in shared : ~KeptAt(held, b, to[b])}
             Put(to) == [b \in Buf |-> IF b \in shared THEN to[b] ELSE d.at[b]]
  <1>1. Placements(d) = {Put(to) : to \in spots}
    BY DEF Placements
  <1>2. d.at \in [Buf -> Slots]
    BY DEF DevShape
  <1>3. \A b \in shared : b \in OutBufs /\ held # {}
    BY DEF KeptAt
  <1>4. \A to \in spots : Put(to) \in [Buf -> Slots]
    BY <1>2
  <1>5. ASSUME NEW to \in spots, NEW b \in Buf, Put(to)[b] # d.at[b] PROVE b \in shared
    BY <1>5
  <1>6. ASSUME held = {} PROVE Placements(d) = {d.at}
    <2>1. shared = {}
      BY <1>3, <1>6
    <2>2. \A to \in spots : Put(to) = d.at
      <3> HIDE DEF shared
      <3>1. \A to : Put(to) = [b \in Buf |-> d.at[b]]
        BY <2>1
      <3> QED
        BY <1>2, <3>1
    <2>3. [b \in {} |-> 0] \in spots
      BY <2>1
    <2> HIDE DEF Put, spots
    <2> QED
      BY <1>1, <2>2, <2>3
  <1> HIDE DEF shared, spots, Put
  <1> QED
    BY <1>1, <1>3, <1>4, <1>5, <1>6

\* A step writes some of the buffers.
LEMMA StepWritesBuf == StepWrites \in SUBSET Buf
  BY BufferPlaces DEF StepWrites

\* The cell and the cache that a step writes for what is fed.
CellAt(kv, lo, m, fed) ==
  Append(Owns(SubSeq(kv.rows[1], lo + 1, m)), IF kv.rows[1][m + 1] = Zero THEN fed ELSE Blur)
CellOf(v, fed) == CellAt(v.kv, v.lo, v.pos, fed)
KvOf(v, fed) == UpdateStatic(v.kv, v.pos, <<CellOf(v, fed)>>)

\* What the attention layer changes.
LEMMA AttendIs ==
  ASSUME NEW v, v = [b \in Buf |-> v[b]], NEW fed
  PROVE  /\ Attend(v, fed) = [b \in Buf |-> Attend(v, fed)[b]]
         /\ Attend(v, fed).kv = KvOf(v, fed) /\ Attend(v, fed).last = CellOf(v, fed)
         /\ \A b \in Buf \ {"kv", "last"} : Attend(v, fed)[b] = v[b]
  <1> DEFINE c == CellOf(v, fed)  k == KvOf(v, fed)
  <1>1. Attend(v, fed) = [v EXCEPT !.kv = k, !.last = c]
    BY DEF Attend, CellOf, CellAt, KvOf
  <1> HIDE DEF c, k
  <1>2. "kv" \in Buf /\ "last" \in Buf
    BY BufferPlaces
  <1> QED
    BY <1>1, <1>2 DEF c, k

\* What every driver changes.
LEMMA AdvanceIs ==
  ASSUME NEW v, v = [b \in Buf |-> v[b]], NEW fed
  PROVE  /\ Advance(v, fed) = [b \in Buf |-> Advance(v, fed)[b]]
         /\ Advance(v, fed).kv = KvOf(v, fed) /\ Advance(v, fed).last = CellOf(v, fed)
         /\ Advance(v, fed).pos = v.pos + 1
         /\ Advance(v, fed).finished = (v.finished \/ Emitted(v) \in EosSet)
         /\ \A b \in Buf \ {"kv", "last", "pos", "finished"} : Advance(v, fed)[b] = v[b]
  <1> DEFINE a == Attend(v, fed)  e == Emitted(v)
  <1>1. /\ a = [b \in Buf |-> a[b]]
        /\ a.kv = KvOf(v, fed) /\ a.last = CellOf(v, fed)
        /\ \A b \in Buf \ {"kv", "last"} : a[b] = v[b]
    BY AttendIs
  <1>2. Advance(v, fed) = [a EXCEPT !.finished = @ \/ e \in EosSet, !.pos = @ + 1]
    BY DEF Advance
  <1> HIDE DEF a, e
  <1>3. "kv" \in Buf /\ "last" \in Buf /\ "pos" \in Buf /\ "finished" \in Buf
    BY BufferPlaces
  <1>4. a.finished = v.finished /\ a.pos = v.pos
    BY <1>1, <1>3
  <1> DEFINE w == Advance(v, fed)
  <1>5. w = [[a EXCEPT !.finished = (a.finished \/ e \in EosSet)] EXCEPT !.pos = a.pos + 1]
    BY <1>1, <1>2, <1>3
  <1> HIDE DEF w
  <1>6. /\ w = [b \in Buf |-> w[b]] /\ w.pos = a.pos + 1
        /\ \A b \in Buf \ {"pos", "finished"} : w[b] = a[b]
    BY <1>1, <1>3, <1>5
  <1>7. w.finished = (a.finished \/ e \in EosSet)
    <2>1. [a EXCEPT !.finished = (a.finished \/ e \in EosSet)].finished
             = (a.finished \/ e \in EosSet)
      BY <1>1, <1>3, Zenon
    <2> DEFINE a2 == [a EXCEPT !.finished = (a.finished \/ e \in EosSet)]
    <2>2. w = [a2 EXCEPT !.pos = a.pos + 1]
      BY <1>5
    <2>3. a2 = [b \in Buf |-> a2[b]]
      BY <1>1
    <2>4. a2.finished = (a.finished \/ e \in EosSet)
      BY <2>1
    <2> HIDE DEF a2
    <2>5. w.finished = a2.finished
      BY <1>3, <2>2, <2>3
    <2> QED
      BY <2>4, <2>5, Zenon
  <1>8. w.finished = (v.finished \/ e \in EosSet)
    BY <1>4, <1>7, Zenon
  <1>9. \A b \in Buf \ {"kv", "last", "pos", "finished"} : w[b] = v[b]
    BY <1>1, <1>6
  <1>10. w.kv = KvOf(v, fed) /\ w.last = CellOf(v, fed) /\ w.pos = v.pos + 1
    BY <1>1, <1>3, <1>4, <1>6
  <1>11. w = [b \in Buf |-> w[b]]
    BY <1>6
  <1> QED
    BY <1>8, <1>9, <1>10, <1>11, Zenon DEF w, e

\* What the driver feeds for the token it emits.
FeedOf(v) == IF driver = "hybrid" THEN <<GdnStep(v.gdn, Emitted(v)).state, v.pos>>
             ELSE <<Emitted(v), v.pos>>

\* What a step of the driver writes, buffer by buffer.
StepSays(v, w) ==
  /\ w.kv = KvOf(v, FeedOf(v)) /\ w.last = CellOf(v, FeedOf(v)) /\ w.pos = v.pos + 1
  /\ w.finished = (v.finished \/ Emitted(v) \in EosSet)
  /\ w.base = v.base /\ w.lo = v.lo
  /\ driver = "hybrid" => /\ w.gdn = GdnStep(v.gdn, Emitted(v))
                          /\ w.emit = AddAt(v.emit, v.pos - v.base + 1, Emitted(v))
  /\ driver # "hybrid" => w.tok = AddAt(v.tok, v.pos + 1, Emitted(v))
  /\ driver \notin {"decoder", "hybrid"} =>
       /\ w.logp = AddLogp(v.logp, v.pos - Lp + 1, <<v.last, Emitted(v)>>)
       /\ w.mask = AddAt(v.mask, v.pos - Lp + 1, IF v.finished THEN 0 ELSE 1)

\* A step, whichever the driver, over buffers of any content.
LEMMA StepIs ==
  ASSUME NEW v, v = [b \in Buf |-> v[b]]
  PROVE  StepSays(v, [b \in Buf |-> IF b \in StepWrites THEN Step(v)[b] ELSE v[b]])
  <1> DEFINE w == [b \in Buf |-> IF b \in StepWrites THEN Step(v)[b] ELSE v[b]]
             e == Emitted(v)  a == Advance(v, FeedOf(v))
  <1>0. /\ "kv" \in Buf /\ "last" \in Buf /\ "pos" \in Buf /\ "finished" \in Buf
        /\ "tok" \in Buf /\ "emit" \in Buf /\ "logp" \in Buf /\ "mask" \in Buf
        /\ "gdn" \in Buf /\ "base" \in Buf /\ "lo" \in Buf /\ "seed" \in Buf
    BY BufferPlaces
  <1>1. /\ a = [b \in Buf |-> a[b]]
        /\ a.kv = KvOf(v, FeedOf(v)) /\ a.last = CellOf(v, FeedOf(v)) /\ a.pos = v.pos + 1
        /\ \A b \in Buf \ {"kv", "last", "pos", "finished"} : a[b] = v[b]
    BY AdvanceIs
  <1>2. a.finished = (v.finished \/ e \in EosSet)
    BY AdvanceIs
  <1>3. w.base = v.base /\ w.lo = v.lo
    <2>1. "base" \notin StepWrites /\ "lo" \notin StepWrites
      BY DEF StepWrites
    <2> QED
      BY <1>0, <2>1
  <1>4. CASE driver = "hybrid"
    <2> DEFINE g == GdnStep(v.gdn, e)  em == AddAt(v.emit, v.pos - v.base + 1, e)
    <2>1. StepWrites = {"tok", "pos", "finished", "last", "kv", "emit", "gdn"}
      BY <1>4 DEF StepWrites
    <2>2. Step(v) = [a EXCEPT !.gdn = g, !.tok = <<e>>,
                              !.emit = AddAt(@, v.pos - v.base + 1, e)]
      BY <1>4 DEF Step, StepHybrid, FeedOf
    <2>3. a.emit = v.emit
      BY <1>0, <1>1
    <2> HIDE DEF a, e
    <2>4. Step(v) = [a EXCEPT !.gdn = g, !.tok = <<e>>, !.emit = em]
      BY <1>0, <1>1, <2>2, <2>3
    <2> HIDE DEF g, em
    <2>5. /\ Step(v).gdn = g /\ Step(v).emit = em
          /\ \A b \in {"kv", "last", "pos", "finished"} : Step(v)[b] = a[b]
      BY <1>0, <1>1, <2>4, ZenonT(60)
    <2>6. \A b \in StepWrites : w[b] = Step(v)[b]
      BY StepWritesBuf
    <2> HIDE DEF w
    <2>7. w.gdn = g /\ w.emit = em /\ w.kv = a.kv /\ w.last = a.last /\ w.pos = a.pos
          /\ w.finished = a.finished
      BY <2>1, <2>5, <2>6
    <2>8. w.finished = (v.finished \/ e \in EosSet)
      BY <1>2, <2>7, Zenon
    <2>9. w.kv = KvOf(v, FeedOf(v)) /\ w.last = CellOf(v, FeedOf(v)) /\ w.pos = v.pos + 1
      BY <1>1, <2>7
    <2>10. w.gdn = GdnStep(v.gdn, e) /\ w.emit = AddAt(v.emit, v.pos - v.base + 1, e)
      BY <2>7 DEF g, em
    <2> QED
      BY <1>3, <1>4, <2>8, <2>9, <2>10, Zenon DEF StepSays, w, e
  <1>5. CASE driver # "hybrid"
    <2> DEFINE s == StepDecoder(v)  tk == AddAt(v.tok, v.pos + 1, e)
    <2>1. s = [a EXCEPT !.tok = AddAt(@, v.pos + 1, e)]
      BY <1>5 DEF StepDecoder, FeedOf
    <2>2. a.tok = v.tok
      BY <1>0, <1>1
    <2> HIDE DEF a, e, s
    <2>3. s = [a EXCEPT !.tok = tk]
      BY <1>0, <1>1, <2>1, <2>2
    <2> HIDE DEF tk
    <2>4. /\ s = [b \in Buf |-> s[b]] /\ s.tok = tk
          /\ \A b \in Buf \ {"tok"} : s[b] = a[b]
      BY <1>0, <1>1, <2>3
    <2>5. ASSUME NEW u, \A b \in {"tok", "kv", "last", "pos", "finished"} : u[b] = s[b]
          PROVE  /\ u.kv = KvOf(v, FeedOf(v)) /\ u.last = CellOf(v, FeedOf(v))
                 /\ u.pos = v.pos + 1 /\ u.tok = AddAt(v.tok, v.pos + 1, e)
                 /\ u.finished = (v.finished \/ e \in EosSet)
      <3>1. /\ u.tok = tk /\ u.kv = a.kv /\ u.last = a.last /\ u.pos = a.pos
            /\ u.finished = a.finished
        BY <1>0, <2>4, <2>5
      <3>2. u.finished = (v.finished \/ e \in EosSet)
        BY <1>2, <3>1, Zenon
      <3>3. u.kv = KvOf(v, FeedOf(v)) /\ u.last = CellOf(v, FeedOf(v)) /\ u.pos = v.pos + 1
        BY <1>1, <3>1
      <3> QED
        BY <3>1, <3>2, <3>3, Zenon DEF tk
    <2>6. CASE driver = "decoder"
      <3>1. StepWrites = {"tok", "pos", "finished", "last", "kv"} /\ Step(v) = s
        BY <2>6 DEF StepWrites, Step, s
      <3>2. \A b \in StepWrites : w[b] = Step(v)[b]
        BY StepWritesBuf
      <3> HIDE DEF w
      <3>3. \A b \in {"tok", "kv", "last", "pos", "finished"} : w[b] = s[b]
        BY <3>1, <3>2
      <3>4. /\ w.kv = KvOf(v, FeedOf(v)) /\ w.last = CellOf(v, FeedOf(v))
            /\ w.pos = v.pos + 1 /\ w.tok = AddAt(v.tok, v.pos + 1, e)
            /\ w.finished = (v.finished \/ e \in EosSet)
        BY <2>5, <3>3
      <3>5. driver \in {"decoder", "hybrid"}
        BY <2>6
      <3> QED
        BY <1>3, <1>5, <3>4, <3>5, Zenon DEF StepSays, w, e
    <2>7. CASE driver # "decoder"
      <3> DEFINE lg == AddLogp(v.logp, v.pos - Lp + 1, <<v.last, e>>)
                 mk == AddAt(v.mask, v.pos - Lp + 1, IF v.finished THEN 0 ELSE 1)
      <3>1. /\ StepWrites = {"tok", "pos", "finished", "last", "kv", "logp", "mask"}
            /\ Step(v) = StepRollout(v)
        BY <1>5, <2>7 DEF StepWrites, Step
      <3>2. StepRollout(v) = [s EXCEPT
              !.logp = AddLogp(@, v.pos - Lp + 1, <<v.last, e>>),
              !.mask = AddAt(@, v.pos - Lp + 1, IF v.finished THEN 0 ELSE 1)]
        BY DEF StepRollout, s, e
      <3>3. s.logp = v.logp /\ s.mask = v.mask
        BY <1>0, <1>1, <2>4
      <3>4. StepRollout(v) = [s EXCEPT !.logp = lg, !.mask = mk]
        BY <1>0, <2>4, <3>2, <3>3
      <3> HIDE DEF lg, mk
      <3>5. /\ Step(v).logp = lg /\ Step(v).mask = mk
            /\ \A b \in {"tok", "kv", "last", "pos", "finished"} : Step(v)[b] = s[b]
        <4> DEFINE x == Step(v)
        <4>1. x = [s EXCEPT !.logp = lg, !.mask = mk]
          BY <3>1, <3>4
        <4>2. s = [b \in Buf |-> s[b]]
          BY <2>4
        <4> HIDE DEF x, s
        <4>3. x.logp = lg /\ x.mask = mk
          BY <1>0, <4>1, <4>2
        <4>4. \A b \in Buf \ {"logp", "mask"} : x[b] = s[b]
          BY <1>0, <4>1, <4>2
        <4>5. \A b \in {"tok", "kv", "last", "pos", "finished"} : x[b] = s[b]
          BY <1>0, <4>4
        <4> QED
          BY <4>3, <4>5 DEF x
      <3>6. \A b \in StepWrites : w[b] = Step(v)[b]
        BY StepWritesBuf
      <3> HIDE DEF w
      <3>7. /\ w.logp = lg /\ w.mask = mk
            /\ \A b \in {"tok", "kv", "last", "pos", "finished"} : w[b] = s[b]
        BY <3>1, <3>5, <3>6
      <3>8. /\ w.kv = KvOf(v, FeedOf(v)) /\ w.last = CellOf(v, FeedOf(v))
            /\ w.pos = v.pos + 1 /\ w.tok = AddAt(v.tok, v.pos + 1, e)
            /\ w.finished = (v.finished \/ e \in EosSet)
        BY <2>5, <3>7
      <3>9. w.logp = lg /\ w.mask = mk
        BY <3>7
      <3> QED
        BY <1>3, <1>5, <3>8, <3>9, Zenon DEF StepSays, w, e, lg, mk
    <2> QED
      BY <2>6, <2>7
  <1> QED
    BY <1>4, <1>5

-----------------------------------------------------------------------------
(* Where a pass may write.                                                   *)

\* The prompt leaves room for max_new tokens behind it.
RunFits(r) ==
  /\ Len(r.toks) \in Nat
  /\ IF driver = "hybrid" THEN Len(r.toks) + MaxNew <= TMax ELSE Len(r.toks) = Lp

\* The inputs a driver accepts fit its buffers.
LEMMA InputsFit == \A r \in Inputs : RunFits(r)
  <1> SUFFICES ASSUME NEW r \in Inputs PROVE RunFits(r)
    OBVIOUS
  <1>1. CASE driver = "hybrid"
    <2>1. PICK p \in Prompts : r = [toks |-> p, lo |-> 0] /\ Len(p) + MaxNew <= TMax
      BY <1>1 DEF Inputs
    <2>2. Len(p) \in Nat
      BY CaptureAssumption
    <2> QED
      BY <1>1, <2>1, <2>2 DEF RunFits
  <1>2. CASE driver = "bucket"
    <2>1. PICK p \in Prompts, on \in BOOLEAN :
            r = [toks |-> PadTo(p, Lp), lo |-> IF on THEN Lp - Len(p) ELSE 0] /\ Len(p) <= Lp
      BY <1>2 DEF Inputs
    <2> DEFINE S == Vocab
               pad == [i \in 1 .. Lp - Len(p) |-> PadTok]
    <2>2. p \in Seq(S) /\ Len(p) \in Nat /\ Lp \in Nat /\ PadTok \in S
      BY CaptureAssumption
    <2>3. pad \in Seq(S) /\ Len(pad) = Lp - Len(p)
      BY <2>1, <2>2
    <2> HIDE DEF S, pad
    <2>4. Len(pad \o p) = Len(pad) + Len(p)
      BY <2>2, <2>3
    <2>5. Len(PadTo(p, Lp)) = Lp
      <3>1. PadTo(p, Lp) = pad \o p
        BY DEF PadTo, pad
      <3> DEFINE n == Len(p)  m == Len(pad)
      <3>2. n \in Nat /\ m = Lp - n /\ Len(PadTo(p, Lp)) = m + n
        BY <2>2, <2>3, <2>4, <3>1
      <3> HIDE DEF n, m
      <3> QED
        BY <2>2, <3>2
    <2> QED
      BY <1>2, <2>1, <2>2, <2>5 DEF RunFits
  <1>3. CASE driver # "hybrid" /\ driver # "bucket"
    <2>1. PICK p \in Prompts : r = [toks |-> p, lo |-> 0] /\ Len(p) = Lp
      BY <1>3 DEF Inputs
    <2> QED
      BY <1>3, <2>1, CaptureAssumption DEF RunFits
  <1> QED
    BY <1>1, <1>2, <1>3

\* The device k passes after the prefill of r.
At(v, r, k) == v.pos = Len(r.toks) + k /\ v.base = Len(r.toks)

\* A pass is in range exactly while fewer than max_new have run.
LEMMA RangeIs ==
  ASSUME NEW v, NEW k \in Nat, RunFits(run), At(v, run, k)
  PROVE  k < MaxNew => InRange(v)
  <1>1. MaxNew \in Nat /\ Lp \in Nat /\ TMax \in Nat
    BY CaptureAssumption
  <1> DEFINE n == Len(run.toks)
  <1>2. /\ n \in Nat /\ v.pos = n + k /\ v.base = n
        /\ IF driver = "hybrid" THEN n + MaxNew <= TMax ELSE n = Lp
    BY DEF RunFits, At
  <1> HIDE DEF n
  <1>3. k < MaxNew => v.pos < Total /\ v.pos - (IF driver = "hybrid" THEN v.base ELSE Lp) < MaxNew
    BY <1>1, <1>2 DEF Total
  <1> QED
    BY <1>3 DEF InRange

\* What a step makes of the buffers.
Stepped(v) == [b \in Buf |-> IF b \in StepWrites THEN Step(v)[b] ELSE v[b]]

\* What a step computes for a buffer does not depend on outputs that are elsewhere.
LEMMA StepLocal ==
  ASSUME NEW v, v = [b \in Buf |-> v[b]], NEW g, g = [b \in Buf |-> g[b]],
         NEW lost, lost \subseteq OutBufs, lost = {} \/ driver = "bucket",
         \A b \in Buf \ lost : v[b] = g[b]
  PROVE  /\ InRange(v) <=> InRange(g)
         /\ \A b \in Buf \ lost : Stepped(v)[b] = Stepped(g)[b]
  <1>1. CASE lost = {}
    <2>1. \A b \in Buf : v[b] = g[b]
      BY <1>1
    <2>2. v = g
      BY <2>1
    <2> QED
      BY <2>2
  <1>2. CASE driver = "bucket"
    <2>1. /\ v.kv = g.kv /\ v.last = g.last /\ v.pos = g.pos /\ v.lo = g.lo /\ v.base = g.base
          /\ v.seed = g.seed
      BY BufferPlaces DEF OutBufs
    <2>2. v.finished = g.finished
      BY BufferPlaces DEF OutBufs
    <2>3. Emitted(v) = Emitted(g)
      BY <2>1, <2>2, Zenon DEF Emitted, Sampled
    <2>4. FeedOf(v) = FeedOf(g)
      BY <1>2, <2>1, <2>3 DEF FeedOf
    <2>5. CellOf(v, FeedOf(v)) = CellOf(g, FeedOf(g)) /\ KvOf(v, FeedOf(v)) = KvOf(g, FeedOf(g))
      BY <2>1, <2>4 DEF CellOf, KvOf
    <2> DEFINE w == Stepped(v)  u == Stepped(g)
    <2>6. StepSays(v, w) /\ StepSays(g, u)
      BY StepIs DEF Stepped
    <2>7. StepWrites = {"tok", "pos", "finished", "last", "kv", "logp", "mask"}
      BY <1>2 DEF StepWrites
    <2>8. \A b \in Buf \ StepWrites : w[b] = v[b] /\ u[b] = g[b]
      BY DEF Stepped
    <2> HIDE DEF w, u
    <2>9. w.kv = u.kv /\ w.last = u.last /\ w.pos = u.pos
      BY <2>1, <2>5, <2>6 DEF StepSays
    <2>10. w.finished = u.finished
      <3>1. /\ w.finished = (v.finished \/ Emitted(v) \in EosSet)
            /\ u.finished = (g.finished \/ Emitted(g) \in EosSet)
        BY <2>6 DEF StepSays
      <3> QED
        BY <2>2, <2>3, <3>1, Zenon
    <2>11. driver # "hybrid" /\ driver \notin {"decoder", "hybrid"}
      BY <1>2
    <2>12. "tok" \notin lost => w.tok = u.tok
      <3>1. "tok" \notin lost => v.tok = g.tok
        BY BufferPlaces
      <3>2. w.tok = AddAt(v.tok, v.pos + 1, Emitted(v)) /\ u.tok = AddAt(g.tok, g.pos + 1, Emitted(g))
        BY <2>6, <2>11 DEF StepSays
      <3> QED
        BY <2>1, <2>3, <3>1, <3>2
    <2>13. "logp" \notin lost => w.logp = u.logp
      <3>1. "logp" \notin lost => v.logp = g.logp
        BY BufferPlaces
      <3>2. /\ w.logp = AddLogp(v.logp, v.pos - Lp + 1, <<v.last, Emitted(v)>>)
            /\ u.logp = AddLogp(g.logp, g.pos - Lp + 1, <<g.last, Emitted(g)>>)
        BY <2>6, <2>11 DEF StepSays
      <3> QED
        BY <2>1, <2>3, <3>1, <3>2
    <2>14. "mask" \notin lost => w.mask = u.mask
      <3>1. "mask" \notin lost => v.mask = g.mask
        BY BufferPlaces
      <3> DEFINE x == IF v.finished THEN 0 ELSE 1
      <3>2. x = IF g.finished THEN 0 ELSE 1
        BY <2>2
      <3>3. /\ w.mask = AddAt(v.mask, v.pos - Lp + 1, x)
            /\ u.mask = AddAt(g.mask, g.pos - Lp + 1, IF g.finished THEN 0 ELSE 1)
        BY <2>6, <2>11 DEF StepSays
      <3> HIDE DEF x
      <3> QED
        BY <2>1, <3>1, <3>2, <3>3
    <2>15. InRange(v) <=> InRange(g)
      BY <2>1 DEF InRange
    <2>16. ASSUME NEW b \in Buf \ lost PROVE w[b] = u[b]
      <3>1. CASE b \in StepWrites
        BY <2>7, <2>9, <2>10, <2>12, <2>13, <2>14, <2>16, <3>1, Zenon
      <3>2. CASE b \notin StepWrites
        BY <2>8, <2>16, <3>2
      <3> QED
        BY <3>1, <3>2
    <2> QED
      BY <2>15, <2>16 DEF w, u
  <1> QED
    BY <1>1, <1>2

\* One pass over a device whose buffers, where the graph has them, hold g.
PassLeaves(d, g, p) ==
  /\ Placed(p) /\ p.at = d.at
  /\ p.wild => d.wild \/ ~InRange(g) \/ (driver = "bucket" /\ Adrift(p))
  /\ ~p.wild => ~d.wild /\ InRange(g) /\ Tells(p, Stepped(g))
  /\ \A b \in Buf : ~Stays(d, b) => p.mem[b][p.at[b]] = d.mem[b][d.at[b]]

\* The device marked wild instead.
LEMMA WildLeaves ==
  ASSUME NEW d, Placed(d), NEW g, NEW p, p = [d EXCEPT !.wild = TRUE],
         ~InRange(g) \/ (driver = "bucket" /\ Adrift(d))
  PROVE  PassLeaves(d, g, p)
  <1>1. DevShape(p) /\ p.mem = d.mem /\ p.at = d.at /\ p.wild = TRUE
    BY WildIs DEF Placed
  <1>2. Placed(p)
    BY <1>1 DEF Placed, Stays
  <1>3. Adrift(p) <=> Adrift(d)
    BY <1>1 DEF Adrift
  <1> QED
    BY <1>1, <1>2, <1>3 DEF PassLeaves

\* A pass of the host, while no buffer has moved and no rollout is held.
LEMMA EagerPassLeaves ==
  ASSUME NEW d, Placed(d), held = {}, d.at = baked, NEW g, Tells(d, g)
  PROVE  PassLeaves(d, g, EagerPass(d))
  <1> DEFINE v == Values(d.mem, d.at)
  <1>1. v = g
    BY DEF Values, Tells, Stays
  <1> DEFINE spot == CHOOSE at \in Placements(d) : TRUE
  <1>2. spot = d.at
    <2>1. Placements(d) = {d.at}
      BY PlacementsAre DEF Placed
    <2> QED
      BY <2>1
  <1> DEFINE e == WriteAll(d, d.at, StepWrites, Step(g))
  <1>3. EagerPass(d) = IF InRange(g) THEN e ELSE [d EXCEPT !.wild = TRUE]
    <2>1. EagerPass(d) = IF InRange(v) THEN WriteAll(d, spot, StepWrites, Step(v))
                         ELSE [d EXCEPT !.wild = TRUE]
      BY DEF EagerPass
    <2> HIDE DEF v, spot
    <2> QED
      BY <1>1, <1>2, <2>1
  <1>4. CASE ~InRange(g)
    BY <1>3, <1>4, WildLeaves
  <1>5. CASE InRange(g)
    <2>1. d.at \in [Buf -> Slots] /\ DevShape(d)
      BY DEF Placed, DevShape
    <2>2. Wrote(d, d.at, StepWrites, Step(g), e) /\ e.at = d.at
      BY <2>1, WriteAllIs
    <2>3. EagerPass(d) = e
      BY <1>3, <1>5
    <2> HIDE DEF e
    <2>4. Placed(e) /\ e.wild = d.wild
      BY <2>2 DEF Placed, Wrote, Stays
    <2>5. ASSUME NEW b \in Buf PROVE e.mem[b][e.at[b]] = Stepped(g)[b]
      <3>1. d.at[b] \in Slots /\ d.mem[b][d.at[b]] = g[b]
        BY <2>1 DEF Tells, Stays
      <3> QED
        BY <2>2, <3>1 DEF Wrote, Stepped
    <2>6. Tells(e, Stepped(g))
      BY <2>5 DEF Tells, Stepped
    <2>7. \A b \in Buf : Stays(d, b)
      BY DEF Stays
    <2> QED
      BY <1>5, <2>2, <2>3, <2>4, <2>6, <2>7 DEF PassLeaves
  <1> QED
    BY <1>4, <1>5

\* A replay, wherever the outputs of the bucket are.
LEMMA ReplayLeaves ==
  ASSUME NEW d, Placed(d), NEW g, Tells(d, g)
  PROVE  PassLeaves(d, g, Replay(d))
  <1> DEFINE v == Values(d.mem, baked)
             lost == {b \in Buf : ~Stays(d, b)}
             e == [d EXCEPT !.mem = Stored(@, baked, StepWrites, Step(v))]
  <1>1. v = [b \in Buf |-> v[b]] /\ g = [b \in Buf |-> g[b]]
    BY DEF Values, Tells
  <1>2. lost \subseteq OutBufs /\ (lost = {} \/ driver = "bucket")
    BY DEF Placed
  <1>3. \A b \in Buf \ lost : v[b] = g[b] /\ Stays(d, b)
    BY DEF Values, Tells, Stays
  <1>4. Replay(d) = IF InRange(v) /\ ~Adrift(d) THEN e ELSE [d EXCEPT !.wild = TRUE]
    BY DEF Replay
  <1> HIDE DEF v, lost
  <1>5. /\ InRange(v) <=> InRange(g)
        /\ \A b \in Buf \ lost : Stepped(v)[b] = Stepped(g)[b]
    BY <1>1, <1>2, <1>3, StepLocal
  <1>6. Adrift(d) => driver = "bucket"
    BY DEF Adrift, Placed, Stays
  <1>7. CASE ~(InRange(v) /\ ~Adrift(d))
    BY <1>4, <1>5, <1>6, <1>7, WildLeaves
  <1>8. CASE InRange(v) /\ ~Adrift(d)
    <2>1. d.at \in [Buf -> Slots] /\ DevShape(d) /\ baked \in [Buf -> Slots]
      BY DEF Placed, DevShape
    <2>2. Wrote(d, baked, StepWrites, Step(v), e) /\ e.at = d.at
      BY <2>1, PlayedIs
    <2>3. Replay(d) = e
      BY <1>4, <1>8
    <2> HIDE DEF e
    <2>4. Placed(e) /\ e.wild = d.wild
      BY <2>2 DEF Placed, Wrote, Stays
    <2>5. ASSUME NEW b \in Buf, Stays(d, b) PROVE e.mem[b][e.at[b]] = Stepped(g)[b]
      <3>1. b \in Buf \ lost /\ v[b] = g[b] /\ Stepped(v)[b] = Stepped(g)[b]
        BY <1>3, <1>5, <2>5 DEF lost
      <3>2. d.at[b] \in Slots /\ d.at[b] = baked[b] /\ d.mem[b][d.at[b]] = g[b]
        BY <2>1, <2>5 DEF Tells, Stays
      <3>3. e.mem[b][d.at[b]] = IF b \in StepWrites THEN Step(v)[b] ELSE d.mem[b][d.at[b]]
        BY <2>2, <3>2 DEF Wrote
      <3>4. Stepped(v)[b] = IF b \in StepWrites THEN Step(v)[b] ELSE v[b]
        BY DEF Stepped
      <3> QED
        BY <2>2, <3>1, <3>2, <3>3, <3>4
    <2>6. Tells(e, Stepped(g))
      <3>1. Stepped(g) = [b \in Buf |-> Stepped(g)[b]]
        BY DEF Stepped
      <3>2. \A b \in Buf : Stays(e, b) => Stays(d, b)
        BY <2>2 DEF Stays
      <3> QED
        BY <2>5, <3>1, <3>2 DEF Tells
    <2>7. ASSUME NEW b \in Buf, ~Stays(d, b) PROVE e.mem[b][e.at[b]] = d.mem[b][d.at[b]]
      <3>1. d.at[b] \in Slots /\ d.at[b] # baked[b]
        BY <2>1, <2>7 DEF Stays
      <3> QED
        BY <2>2, <3>1 DEF Wrote
    <2> QED
      BY <1>5, <1>8, <2>2, <2>3, <2>4, <2>6, <2>7 DEF PassLeaves
  <1> QED
    BY <1>7, <1>8

\* The passes of one call, with the seeds before each.
Seed(d, i) ==
  IF driver \in Seeded
  THEN [d EXCEPT !.mem = Stored(@, d.at, {"seed"}, [seed |-> steps + i])] ELSE d
Pass(d) == IF driver = "eager" THEN EagerPass(d) ELSE Replay(d)

\* They are made one after the other from the device as it is.
LEMMA PassesAre ==
  ASSUME NEW n \in Nat
  PROVE  \E after : /\ after[0] = dev /\ Passes(n) = after[n]
                    /\ \A i \in 1 .. n : after[i] = Pass(Seed(after[i - 1], i))
  <1> DEFINE Fold(f, m) == [i \in 0 .. m |-> IF i = 0 THEN dev ELSE Pass(Seed(f[i - 1], i))]
             T == {m \in Nat : \E f : f = Fold(f, m)}
             after == CHOOSE f : f = Fold(f, n)
  <1>1. Passes(n) = after[n]
    BY DEF Passes, Pass, Seed
  <1>2. 0 \in T
    <2> DEFINE f == [i \in 0 .. 0 |-> dev]
    <2>1. f = Fold(f, 0)
      OBVIOUS
    <2> QED
      BY <2>1
  <1>3. ASSUME NEW m \in Nat, m \in T PROVE m + 1 \in T
    <2>1. PICK f : f = Fold(f, m)
      BY <1>3
    <2> DEFINE g == [i \in 0 .. m + 1 |-> IF i <= m THEN f[i] ELSE Pass(Seed(f[m], m + 1))]
    <2>2. ASSUME NEW i \in 0 .. m + 1
          PROVE  g[i] = IF i = 0 THEN dev ELSE Pass(Seed(g[i - 1], i))
      <3>1. CASE i = 0
        BY <2>1, <3>1
      <3>2. CASE i \in 1 .. m
        <4>1. g[i] = f[i] /\ g[i - 1] = f[i - 1] /\ i \in 0 .. m /\ i # 0
          BY <3>2
        <4> QED
          BY <2>1, <4>1
      <3>3. CASE i = m + 1
        <4>1. g[i] = Pass(Seed(f[m], m + 1)) /\ g[i - 1] = f[m] /\ i # 0
          BY <3>3
        <4> QED
          BY <3>3, <4>1
      <3> QED
        BY <3>1, <3>2, <3>3
    <2>3. g = Fold(g, m + 1)
      BY <2>2
    <2> HIDE DEF g, Fold
    <2> QED
      BY <2>3
  <1> HIDE DEF T
  <1>4. n \in T
    BY <1>2, <1>3, NatSetInduction
  <1>5. after = Fold(after, n)
    BY <1>4 DEF T
  <1> HIDE DEF after
  <1>6. after[0] = dev
    BY <1>5
  <1>7. \A i \in 1 .. n : after[i] = Pass(Seed(after[i - 1], i))
    BY <1>5
  <1> QED
    BY <1>1, <1>6, <1>7

\* What the buffers hold once the host has written the seeds before pass i.
Reseeded(g, i) == IF driver \in Seeded THEN [g EXCEPT !["seed"] = steps + i] ELSE g

\* New seeds change nothing else.
LEMMA SeedLeaves ==
  ASSUME NEW d, Placed(d), NEW i, NEW g, Tells(d, g)
  PROVE  /\ Placed(Seed(d, i)) /\ Seed(d, i).at = d.at /\ Seed(d, i).wild = d.wild
         /\ Tells(Seed(d, i), Reseeded(g, i))
         /\ \A b \in Buf : ~Stays(d, b) => Seed(d, i).mem[b][d.at[b]] = d.mem[b][d.at[b]]
  <1>1. CASE driver \notin Seeded
    BY <1>1 DEF Seed, Reseeded
  <1>2. CASE driver \in Seeded
    <2> DEFINE v == [seed |-> steps + i]  e == Seed(d, i)
    <2>1. e = [d EXCEPT !.mem = Stored(@, d.at, {"seed"}, v)]
      BY <1>2 DEF Seed
    <2>2. v["seed"] = steps + i
      OBVIOUS
    <2> HIDE DEF v, e
    <2>3. d.at \in [Buf -> Slots] /\ DevShape(d)
      BY DEF Placed, DevShape
    <2>4. Wrote(d, d.at, {"seed"}, v, e) /\ e.at = d.at
      BY <2>1, <2>3, PlayedIs
    <2>5. Placed(e) /\ e.wild = d.wild
      BY <2>4 DEF Placed, Wrote, Stays
    <2>6. \A b \in Buf : e.mem[b][d.at[b]] = IF b = "seed" THEN steps + i ELSE d.mem[b][d.at[b]]
      BY <2>2, <2>3, <2>4 DEF Wrote
    <2>7. Tells(e, Reseeded(g, i))
      <3>1. g = [b \in Buf |-> g[b]] /\ "seed" \in Buf
        BY BufferPlaces DEF Tells
      <3>2. Reseeded(g, i) = [b \in Buf |-> IF b = "seed" THEN steps + i ELSE g[b]]
        BY <1>2, <3>1 DEF Reseeded
      <3> QED
        BY <2>4, <2>6, <3>2 DEF Tells, Stays
    <2>8. \A b \in Buf : ~Stays(d, b) => b # "seed"
      BY DEF Placed, OutBufs
    <2> QED
      BY <2>4, <2>5, <2>6, <2>7, <2>8 DEF e
  <1> QED
    BY <1>1, <1>2

\* Every device holds something.
LEMMA ValTells ==
  ASSUME NEW d, DevShape(d)
  PROVE  Tells(d, Val(d))
  BY DEF Tells, Val, Values

\* What is not an output is what the host reads.
LEMMA TellsHost ==
  ASSUME NEW d, Placed(d), NEW g, Tells(d, g), NEW b \in Buf, b \notin OutBufs
  PROVE  Val(d)[b] = g[b]
  BY DEF Placed, Tells, Val, Values

\* The position and the base of the prompt are not outputs.
LEMMA TellsAt ==
  ASSUME NEW d, Placed(d), NEW g, Tells(d, g), NEW r, NEW k
  PROVE  At(Val(d), r, k) <=> At(g, r, k)
  <1>1. Val(d)["pos"] = g["pos"] /\ Val(d)["base"] = g["base"]
    BY TellsHost, BufferPlaces DEF OutBufs
  <1> QED
    BY <1>1 DEF At

\* A step counts one.
LEMMA StepMoves ==
  ASSUME NEW g, g = [b \in Buf |-> g[b]], NEW r, RunFits(r), NEW k \in Nat, At(g, r, k)
  PROVE  At(Stepped(g), r, k + 1)
  <1>1. StepSays(g, Stepped(g))
    BY StepIs DEF Stepped
  <1>2. Stepped(g).pos = g.pos + 1 /\ Stepped(g).base = g.base
    BY <1>1 DEF StepSays
  <1> DEFINE n == Len(r.toks)
  <1>3. n \in Nat
    BY DEF RunFits
  <1> HIDE DEF n
  <1>4. g.pos = n + k => Stepped(g).pos = n + (k + 1)
    BY <1>2, <1>3
  <1> QED
    BY <1>2, <1>4 DEF At, n

\* The outputs of the bucket are in nobody's hands, where the graph has them.
Loose(d) == driver = "bucket" /\ Adrift(d)

\* One pass after its seeds.
LEMMA PassLeavesIt ==
  ASSUME NEW d, Placed(d), driver # "bucket" => held = {}, NEW i, NEW g, Tells(d, g)
  PROVE  /\ PassLeaves(Seed(d, i), Reseeded(g, i), Pass(Seed(d, i)))
         /\ Seed(d, i).at = d.at /\ Seed(d, i).wild = d.wild
         /\ \A b \in Buf : ~Stays(d, b) => Seed(d, i).mem[b][d.at[b]] = d.mem[b][d.at[b]]
  <1> DEFINE e == Seed(d, i)  h == Reseeded(g, i)
  <1>1. /\ Placed(e) /\ e.at = d.at /\ e.wild = d.wild /\ Tells(e, h)
        /\ \A b \in Buf : ~Stays(d, b) => e.mem[b][d.at[b]] = d.mem[b][d.at[b]]
    BY SeedLeaves
  <1> HIDE DEF e, h
  <1>2. CASE driver = "eager"
    <2>1. held = {} /\ \A b \in Buf : Stays(e, b)
      BY <1>1, <1>2 DEF Placed
    <2>2. e.at = baked
      BY <1>1, <2>1 DEF Placed, DevShape, Stays
    <2> QED
      BY <1>1, <1>2, <2>1, <2>2, EagerPassLeaves DEF Pass, e, h
  <1>3. CASE driver # "eager"
    BY <1>1, <1>3, ReplayLeaves DEF Pass, e, h
  <1> QED
    BY <1>2, <1>3

\* A call of n passes counts n, moves nothing, and leaves the buffers only past max_new or
\* when the graph's own storage is loose.
LEMMA PassesMove ==
  ASSUME Placed(dev), driver # "bucket" => held = {}, RunFits(run), steps \in Nat,
         ~dev.wild, At(Val(dev), run, steps), NEW n \in Nat
  PROVE  /\ Placed(Passes(n)) /\ Passes(n).at = dev.at
         /\ ~Passes(n).wild => At(Val(Passes(n)), run, steps + n)
         /\ Passes(n).wild => steps + n > MaxNew \/ Loose(Passes(n))
  <1>1. PICK after : /\ after[0] = dev /\ Passes(n) = after[n]
                     /\ \A i \in 1 .. n : after[i] = Pass(Seed(after[i - 1], i))
    BY PassesAre
  <1> DEFINE Good(i) == /\ Placed(after[i]) /\ after[i].at = dev.at
                        /\ ~after[i].wild => At(Val(after[i]), run, steps + i)
                        /\ after[i].wild => steps + i > MaxNew \/ Loose(after[i])
             T == {i \in 0 .. n : Good(i)}
  <1>2. 0 \in T
    BY <1>1
  <1>3. ASSUME NEW i \in 0 .. n - 1, i \in T PROVE i + 1 \in T
    <2> DEFINE x == after[i]  d == Seed(x, i + 1)  g == Val(x)  h == Reseeded(g, i + 1)
               p == after[i + 1]
    <2>1. p = Pass(d)
      <3>1. i + 1 \in 1 .. n /\ (i + 1) - 1 = i
        OBVIOUS
      <3> QED
        BY <1>1, <3>1
    <2>2. Placed(x) /\ x.at = dev.at
      BY <1>3
    <2>3. Tells(x, g)
      BY <2>2, ValTells DEF Placed
    <2>4. PassLeaves(d, h, p) /\ d.at = x.at /\ d.wild = x.wild
      BY <2>1, <2>2, <2>3, PassLeavesIt
    <2>5. h = [b \in Buf |-> h[b]] /\ h["pos"] = g["pos"] /\ h["base"] = g["base"]
      <3>1. g = [b \in Buf |-> g[b]] /\ "pos" \in Buf /\ "base" \in Buf /\ "seed" \in Buf
        BY BufferPlaces DEF Val, Values
      <3> HIDE DEF g
      <3> QED
        BY <3>1 DEF Reseeded
    <2>6. ~x.wild => At(h, run, steps + i)
      BY <1>3, <2>5 DEF At
    <2> HIDE DEF x, d, g, h, p
    <2>7. steps + i \in Nat /\ MaxNew \in Nat /\ steps + (i + 1) = (steps + i) + 1
      BY CaptureAssumption
    <2>8. Placed(p) /\ p.at = dev.at
      BY <2>2, <2>4 DEF PassLeaves
    <2>9. ~p.wild => At(Val(p), run, steps + (i + 1))
      <3> SUFFICES ASSUME ~p.wild PROVE At(Val(p), run, steps + (i + 1))
        OBVIOUS
      <3>1. ~x.wild /\ Tells(p, Stepped(h))
        BY <2>4 DEF PassLeaves
      <3>2. At(Stepped(h), run, (steps + i) + 1)
        BY <2>5, <2>6, <2>7, <3>1, StepMoves
      <3>3. At(Val(p), run, (steps + i) + 1)
        BY <2>8, <3>1, <3>2, TellsAt
      <3> QED
        BY <2>7, <3>3
    <2>10. p.wild => steps + (i + 1) > MaxNew \/ Loose(p)
      <3> SUFFICES ASSUME p.wild, ~Loose(p) PROVE steps + (i + 1) > MaxNew
        OBVIOUS
      <3>1. x.wild \/ ~InRange(h)
        BY <2>4 DEF PassLeaves, Loose
      <3>2. CASE x.wild
        <4>1. steps + i > MaxNew \/ Loose(x)
          BY <1>3, <3>2 DEF x
        <4>2. ~Loose(x)
          BY <2>2, <2>8 DEF Loose, Adrift
        <4> QED
          BY <2>7, <4>1, <4>2
      <3>3. CASE ~x.wild /\ ~InRange(h)
        <4>1. At(h, run, steps + i)
          BY <2>6, <3>3
        <4>2. ~(steps + i < MaxNew)
          BY <2>7, <3>3, <4>1, RangeIs
        <4> QED
          BY <2>7, <4>2
      <3> QED
        BY <3>1, <3>2, <3>3
    <2> QED
      BY <2>8, <2>9, <2>10 DEF p
  <1> HIDE DEF T
  <1>4. n \in T
    BY <1>2, <1>3, UpToInduction
  <1> QED
    BY <1>1, <1>4 DEF T

\* A reset and prefill of r leave the position and the base of the prompt at its length.
LEMMA ResetMoves ==
  ASSUME NEW v, v = [b \in Buf |-> v[b]], NEW r, RunFits(r)
  PROVE  At(ResetAndPrefill(v, r), r, 0)
  <1>1. "pos" \in DOMAIN v /\ "base" \in DOMAIN v
    BY BufferPlaces
  <1>2. ResetAndPrefill(v, r).pos = Len(r.toks) /\ ResetAndPrefill(v, r).base = Len(r.toks)
    BY <1>1 DEF ResetAndPrefill
  <1> QED
    BY <1>2 DEF At, RunFits


\* The device after v is written into bufs, the outputs put where at says.
ResetDone(at, bufs, v, d) ==
  /\ Placed(d) /\ d.at = at /\ d.wild = dev.wild
  /\ \A b \in bufs : d.mem[b][at[b]] = v[b]
  /\ \A b \in Buf : b \notin bufs /\ b \notin OutBufs =>
       d.mem[b][at[b]] = dev.mem[b][dev.at[b]]
  /\ held = {} => at = dev.at

\* Written to the device, wherever the outputs are put.
LEMMA ResetWrites ==
  ASSUME Placed(dev), held # {} => driver = "bucket", NEW at \in Placements(dev),
         NEW bufs, bufs \subseteq Buf, NEW v
  PROVE  ResetDone(at, bufs, v, WriteAll(dev, at, bufs, v))
  <1> DEFINE d == WriteAll(dev, at, bufs, v)
  <1>1. DevShape(dev) /\ dev.at \in [Buf -> Slots]
    BY DEF Placed, DevShape
  <1>2. /\ at \in [Buf -> Slots]
        /\ \A b \in Buf : at[b] # dev.at[b] => b \in OutBufs /\ held # {}
        /\ held = {} => at = dev.at
    BY <1>1, PlacementsAre
  <1>3. Wrote(dev, at, bufs, v, d) /\ d.at = at
    BY <1>1, <1>2, WriteAllIs
  <1> HIDE DEF d
  <1>4. Placed(d)
    BY <1>2, <1>3 DEF Placed, Wrote, Stays
  <1>5. \A b \in Buf : at[b] \in Slots
    BY <1>2
  <1>6. \A b \in bufs : d.mem[b][at[b]] = v[b]
    BY <1>3, <1>5 DEF Wrote
  <1>7. \A b \in Buf : b \notin bufs /\ b \notin OutBufs =>
              d.mem[b][at[b]] = dev.mem[b][dev.at[b]]
    BY <1>2, <1>3, <1>5 DEF Wrote
  <1> QED
    BY <1>2, <1>3, <1>4, <1>6, <1>7 DEF Wrote, ResetDone, d

\* The position and the base of the prompt with the rest.
LEMMA ResetWritten ==
  ASSUME Placed(dev), held # {} => driver = "bucket", NEW at \in Placements(dev),
         NEW r, RunFits(r), NEW bufs, bufs \subseteq Buf, {"pos", "base"} \subseteq bufs
  PROVE  LET new == ResetAndPrefill(Values(dev.mem, dev.at), r)
             d == WriteAll(dev, at, bufs, new)
         IN  ResetDone(at, bufs, new, d) /\ At(Val(d), r, 0)
  <1> DEFINE v == Values(dev.mem, dev.at)
             new == ResetAndPrefill(v, r)
             d == WriteAll(dev, at, bufs, new)
  <1>1. v = [b \in Buf |-> v[b]]
    BY DEF Values
  <1> HIDE DEF v
  <1>2. At(new, r, 0)
    BY <1>1, ResetMoves
  <1> HIDE DEF new
  <1>3. ResetDone(at, bufs, new, d)
    BY ResetWrites
  <1> HIDE DEF d
  <1>4. d.at = at /\ d.mem["pos"][at["pos"]] = new["pos"] /\ d.mem["base"][at["base"]] = new["base"]
    BY <1>3 DEF ResetDone
  <1>5. Val(d)["pos"] = new["pos"] /\ Val(d)["base"] = new["base"]
    BY <1>4, BufferPlaces DEF Val, Values
  <1>6. At(Val(d), r, 0)
    BY <1>2, <1>5 DEF At
  <1> QED
    BY <1>3, <1>6 DEF d, new, v
-----------------------------------------------------------------------------
(* The inductive invariant.                                                  *)

\* The storage in the graph is nobody's only once a rollout was kept and dropped, in a bucket.
CapturedInv ==
  /\ driver \in Drivers /\ warmup \in Warmups /\ steps \in Nat
  /\ pc \in {"new", "warm", "captured", "ready", "returned", "refused"}
  /\ baked = Addresses /\ Placed(dev)
  /\ held \subseteq [OutBufs -> Slots]
  /\ held # {} => driver = "bucket" /\ pc \in {"ready", "returned"}
  /\ pc \in {"new", "warm", "captured", "refused"} => dev.at = baked
  /\ RunFits(run)
  /\ pc = "new" => steps = 0
  /\ pc = "warm" => driver # "eager" /\ steps <= warmup /\ warmup < MaxNew
  /\ pc \in {"warm", "ready", "returned"} /\ ~dev.wild => At(Val(dev), run, steps)
  /\ dev.wild => (pc = "ready" /\ steps > MaxNew) \/ Loose(dev)
  /\ dev.wild => pc \in {"ready", "returned"}
  /\ pc = "returned" => driver = "bucket"

\* The device as it is allocated.
LEMMA InitDevice ==
  ASSUME Init
  PROVE  Placed(dev) /\ ~dev.wild /\ dev.at = baked
  <1> DEFINE m == [b \in Buf |-> [slot \in Slots |-> IF b = "kv" THEN WithCapacity(Total) ELSE 0]]
  <1>1. dev = [mem |-> m, at |-> Addresses, wild |-> FALSE] /\ baked = Addresses
    BY DEF Init
  <1>2. Pieces(m)
    BY DEF Pieces
  <1> HIDE DEF m
  <1>3. dev.mem = m /\ dev.at = Addresses /\ dev.wild = FALSE
    BY <1>1
  <1>4. DevShape(dev)
    BY <1>1, <1>2, <1>3, BufferPlaces DEF DevShape
  <1> QED
    BY <1>1, <1>3, <1>4, BufferPlaces DEF Placed, Stays

\* A driver begins with every buffer where the graph will have it.
LEMMA CapturedInit ==
  ASSUME Init
  PROVE  CapturedInv
  <1>1. Placed(dev) /\ ~dev.wild /\ dev.at = baked
    BY InitDevice
  <1>2. RunFits(run)
    BY InputsFit DEF Init, Unpadded
  <1> QED
    BY <1>1, <1>2 DEF Init, CapturedInv

\* While nothing is loose an update of everything restarts the positions.
LEMMA RestartMoves ==
  ASSUME CapturedInv, ~dev.wild, NEW rs, Restart(rs), \A r \in rs : RunFits(r)
  PROVE  /\ Placed(dev)' /\ ~dev'.wild /\ RunFits(run') /\ steps' = 0
         /\ At(Val(dev'), run', 0)
         /\ held = {} => dev'.at = dev.at
  <1> DEFINE bufs == Buf \ {"seed"}
             new == ResetAndPrefill(Values(dev.mem, dev.at), run')
  <1>1. PICK at \in Placements(dev) : dev' = WriteAll(dev, at, bufs, new)
    BY DEF Restart
  <1>2. run' \in rs /\ RunFits(run') /\ steps' = 0 /\ baked' = baked /\ driver' = driver
    <2>1. run' \in rs /\ steps' = 0 /\ baked' = baked /\ driver' = driver
      BY DEF Restart
    <2> QED
      BY <2>1
  <1>3. bufs \subseteq Buf /\ {"pos", "base"} \subseteq bufs
    BY BufferPlaces
  <1>4. Placed(dev) /\ (held # {} => driver = "bucket")
    BY DEF CapturedInv
  <1> HIDE DEF bufs
  <1>5. /\ ResetDone(at, bufs, new, WriteAll(dev, at, bufs, new))
        /\ At(Val(WriteAll(dev, at, bufs, new)), run', 0)
    BY <1>2, <1>3, <1>4, ResetWritten
  <1> HIDE DEF new
  <1>6. ResetDone(at, bufs, new, dev') /\ At(Val(dev'), run', 0)
    BY <1>1, <1>5
  <1>7. Placed(dev') /\ dev'.wild = dev.wild /\ (held = {} => dev'.at = dev.at)
    BY <1>6 DEF ResetDone
  <1>8. Placed(dev)'
    BY <1>2, <1>7 DEF Placed, Stays
  <1> QED
    BY <1>2, <1>6, <1>7, <1>8

\* A pass of the host within max_new.
LEMMA HostPass ==
  ASSUME Placed(dev), held = {}, dev.at = baked, RunFits(run), steps \in Nat, steps < MaxNew,
         ~dev.wild, At(Val(dev), run, steps)
  PROVE  /\ Placed(EagerPass(dev)) /\ EagerPass(dev).at = baked /\ ~EagerPass(dev).wild
         /\ At(Val(EagerPass(dev)), run, steps + 1)
  <1> DEFINE g == Val(dev)  p == EagerPass(dev)
  <1>1. Tells(dev, g)
    BY ValTells DEF Placed
  <1>2. PassLeaves(dev, g, p)
    BY <1>1, EagerPassLeaves
  <1>3. g = [b \in Buf |-> g[b]]
    BY DEF Val, Values
  <1> HIDE DEF g, p
  <1>4. At(g, run, steps)
    BY DEF g
  <1>5. InRange(g)
    BY <1>4, RangeIs
  <1>6. /\ Placed(p) /\ p.at = baked
        /\ p.wild => driver = "bucket" /\ Adrift(p)
        /\ ~p.wild => Tells(p, Stepped(g))
    BY <1>2, <1>5 DEF PassLeaves
  <1>7. ~p.wild
    BY <1>6 DEF Adrift
  <1>8. At(Stepped(g), run, steps + 1)
    BY <1>3, <1>4, StepMoves
  <1>9. At(Val(p), run, steps + 1)
    BY <1>6, <1>7, <1>8, TellsAt
  <1> QED
    BY <1>6, <1>7, <1>9 DEF p

\* Allocating and prefilling moves nothing, as no rollout is kept yet.
LEMMA BuildInv ==
  ASSUME CapturedInv, Build
  PROVE  CapturedInv'
  <1>0. /\ pc = "new" /\ steps = 0 /\ held = {} /\ dev.at = baked /\ RunFits(run) /\ ~dev.wild
        /\ Placed(dev)
    BY DEF CapturedInv, Build
  <1>1. CASE Enough /\ RoomForWarmup
    <2> DEFINE new == ResetAndPrefill(Values(dev.mem, dev.at), run)
    <2>1. PICK at \in Placements(dev) : dev' = WriteAll(dev, at, Buf, new)
      BY <1>1 DEF Build
    <2>2. {"pos", "base"} \subseteq Buf
      BY BufferPlaces
    <2>3. /\ ResetDone(at, Buf, new, WriteAll(dev, at, Buf, new))
          /\ At(Val(WriteAll(dev, at, Buf, new)), run, 0)
      BY <1>0, <2>2, ResetWritten
    <2> HIDE DEF new
    <2>4. ResetDone(at, Buf, new, dev') /\ At(Val(dev'), run, 0)
      BY <2>1, <2>3
    <2>5. Placed(dev') /\ ~dev'.wild /\ dev'.at = baked
      BY <1>0, <2>4 DEF ResetDone
    <2>6. Placed(dev)'
      BY <2>5 DEF Build, Placed, Stays
    <2>7. driver' = driver /\ baked' = baked /\ run' = run /\ steps' = 0 /\ held' = {}
          /\ warmup' = warmup /\ pc' = IF driver = "eager" THEN "ready" ELSE "warm"
      BY <1>0, <1>1 DEF Build
    <2>8. RunFits(run)' /\ At(Val(dev), run, steps)'
      BY <1>0, <2>4, <2>7 DEF RunFits, At, Val, Values
    <2>9. driver # "eager" => warmup < MaxNew /\ 0 <= warmup
      BY <1>1, CaptureAssumption DEF RoomForWarmup, CapturedInv
    <2> QED
      BY <2>5, <2>6, <2>7, <2>8, <2>9 DEF CapturedInv, Loose
  <1>2. CASE ~(Enough /\ RoomForWarmup)
    <2>1. pc' = "refused" /\ UNCHANGED <<driver, warmup, baked, run, steps, held, dev>>
      BY <1>2 DEF Build
    <2> QED
      BY <1>0, <2>1 DEF CapturedInv, Placed, Stays, RunFits
  <1> QED
    BY <1>1, <1>2

\* A warm-up pass stays in bounds, as the recorded one after it would (capture.rs:422).
LEMMA WarmPassInv ==
  ASSUME CapturedInv, WarmPass
  PROVE  CapturedInv'
  <1>0. /\ pc = "warm" /\ held = {} /\ dev.at = baked /\ RunFits(run) /\ ~dev.wild
        /\ Placed(dev) /\ steps \in Nat /\ At(Val(dev), run, steps)
        /\ driver # "eager" /\ warmup < MaxNew /\ steps < warmup /\ warmup \in Nat
    BY CaptureAssumption DEF CapturedInv, WarmPass
  <1>1. steps < MaxNew /\ steps + 1 <= warmup /\ steps + 1 \in Nat
    BY <1>0, CaptureAssumption
  <1>2. /\ Placed(EagerPass(dev)) /\ EagerPass(dev).at = baked /\ ~EagerPass(dev).wild
        /\ At(Val(EagerPass(dev)), run, steps + 1)
    BY <1>0, <1>1, HostPass
  <1>3. /\ dev' = EagerPass(dev) /\ steps' = steps + 1
        /\ UNCHANGED <<driver, warmup, pc, baked, run, held>>
    BY DEF WarmPass
  <1>4. /\ Placed(dev') /\ dev'.at = baked /\ ~dev'.wild /\ At(Val(dev'), run, steps + 1)
    BY <1>2, <1>3
  <1>5. Placed(dev)' /\ RunFits(run)' /\ At(Val(dev), run, steps)'
    BY <1>0, <1>3, <1>4 DEF Placed, Stays, RunFits, At, Val, Values
  <1> QED
    BY <1>0, <1>1, <1>3, <1>4, <1>5 DEF CapturedInv

\* So does the recorded pass, and the graph gets the addresses that the buffers have.
LEMMA CaptureInv ==
  ASSUME CapturedInv, Capture
  PROVE  CapturedInv'
  <1>0. /\ pc = "warm" /\ held = {} /\ dev.at = baked /\ RunFits(run) /\ ~dev.wild
        /\ Placed(dev) /\ steps \in Nat /\ At(Val(dev), run, steps)
        /\ driver # "eager" /\ warmup < MaxNew /\ steps = warmup
    BY CaptureAssumption DEF CapturedInv, Capture
  <1>1. steps < MaxNew
    BY <1>0
  <1> DEFINE after == EagerPass(dev)
  <1>2. Placed(after) /\ after.at = baked /\ ~after.wild
    BY <1>0, <1>1, HostPass
  <1>3. after.wild = FALSE
    BY <1>2 DEF Placed, DevShape
  <1>4. PICK executed \in BOOLEAN :
          /\ dev' = IF executed THEN after ELSE [dev EXCEPT !.wild = after.wild]
          /\ pc' = IF Moved(after, baked) THEN "moved" ELSE "captured"
          /\ baked' = after.at
    BY DEF Capture
  <1> HIDE DEF after
  <1>5. /\ pc' = "captured" /\ baked' = baked
        /\ UNCHANGED <<driver, warmup, run, steps, held>>
    <2>1. ~Moved(after, baked)
      BY <1>2 DEF Moved
    <2> QED
      BY <1>2, <1>4, <2>1 DEF Capture
  <1>6. Placed(dev') /\ dev'.at = baked /\ ~dev'.wild
    <2>1. CASE executed
      BY <1>2, <1>4, <2>1
    <2>2. CASE ~executed
      <3>1. dev' = [dev EXCEPT !.wild = FALSE]
        BY <1>3, <1>4, <2>2
      <3>2. DevShape(dev') /\ dev'.at = dev.at /\ dev'.wild = FALSE
        BY <1>0, <3>1, WildIs DEF Placed
      <3> QED
        BY <1>0, <3>2 DEF Placed, Stays
    <2> QED
      BY <2>1, <2>2
  <1>7. Placed(dev)' /\ RunFits(run)'
    BY <1>0, <1>5, <1>6 DEF Placed, Stays, RunFits
  <1> QED
    BY <1>0, <1>5, <1>6, <1>7 DEF CapturedInv

\* Every reset, of a graph or of a bucket.
LEMMA ResetInv ==
  ASSUME CapturedInv, NEW rs, Restart(rs), \A r \in rs : RunFits(r),
         driver = "bucket" \/ held = {},
         pc' = "ready" \/ (driver # "bucket" /\ dev.at = baked
                           /\ pc' = IF Moved(dev', baked) THEN "moved" ELSE "ready")
  PROVE  CapturedInv'
  <1>0. ~dev.wild /\ baked = Addresses
    BY DEF Restart, CapturedInv
  <1>1. /\ Placed(dev)' /\ ~dev'.wild /\ RunFits(run') /\ steps' = 0
        /\ At(Val(dev'), run', 0)
        /\ held = {} => dev'.at = dev.at
    BY <1>0, RestartMoves
  <1>2. UNCHANGED <<driver, warmup, baked, held>>
    BY DEF Restart
  <1>3. pc' = "ready"
    <2>1. driver # "bucket" /\ dev.at = baked => dev'.at = baked
      BY <1>1
    <2>2. dev'.at = baked => ~Moved(dev', baked)
      BY DEF Moved
    <2> QED
      BY <2>1, <2>2
  <1>4. RunFits(run)' /\ At(Val(dev), run, steps)'
    BY <1>1, <1>2 DEF RunFits, At, Val, Values
  <1> QED
    BY <1>0, <1>1, <1>2, <1>3, <1>4 DEF CapturedInv

\* That is so for each driver: only a bucket may have a rollout kept over its reset.
LEMMA ResetsInv ==
  ASSUME CapturedInv, ResetDecoder \/ ResetHybrid \/ ResetRollout \/ Dispatch
  PROVE  CapturedInv'
  <1>1. \A r \in NextPrompts : RunFits(r)
    BY InputsFit DEF NextPrompts, CapturedInv
  <1>2. ASSUME driver # "bucket" PROVE held = {} /\ dev.at = baked
    <2>1. Placed(dev) /\ held = {} /\ baked \in [Buf -> Slots]
      BY <1>2 DEF CapturedInv, Placed
    <2>2. dev.at \in [Buf -> Slots] /\ \A b \in Buf : dev.at[b] = baked[b]
      BY <1>2, <2>1 DEF Placed, DevShape, Stays
    <2> QED
      BY <2>1, <2>2
  <1>3. CASE ResetDecoder
    BY <1>1, <1>2, <1>3, ResetInv DEF ResetDecoder
  <1>4. CASE ResetHybrid
    BY <1>1, <1>2, <1>4, ResetInv DEF ResetHybrid
  <1>5. CASE ResetRollout
    <2>1. \A r \in {run} : RunFits(r)
      BY DEF CapturedInv
    <2> QED
      BY <1>2, <1>5, <2>1, ResetInv DEF ResetRollout
  <1>6. CASE Dispatch
    BY <1>6, InputsFit, ResetInv DEF Dispatch
  <1> QED
    BY <1>3, <1>4, <1>5, <1>6

\* A call of replays.
LEMMA ContinueInv ==
  ASSUME CapturedInv, NEW n \in Nat, Continue(n)
  PROVE  CapturedInv'
  <1>0. /\ pc = "ready" /\ ~dev.wild /\ Placed(dev) /\ RunFits(run) /\ steps \in Nat
        /\ At(Val(dev), run, steps) /\ (driver # "bucket" => held = {})
    BY DEF CapturedInv, Continue
  <1> DEFINE p == Passes(n)
  <1>1. /\ Placed(p) /\ p.at = dev.at
        /\ ~p.wild => At(Val(p), run, steps + n)
        /\ p.wild => steps + n > MaxNew \/ Loose(p)
    BY <1>0, PassesMove
  <1>2. dev' = p /\ steps' = steps + n /\ UNCHANGED <<driver, warmup, pc, baked, run, held>>
    BY DEF Continue
  <1> HIDE DEF p
  <1>3. Placed(dev)' /\ RunFits(run)'
    BY <1>0, <1>1, <1>2 DEF Placed, Stays, RunFits
  <1>4. ~dev'.wild => At(Val(dev), run, steps)'
    BY <1>1, <1>2 DEF At, Val, Values
  <1>5. dev'.wild => steps' > MaxNew \/ Loose(dev)'
    BY <1>1, <1>2 DEF Loose, Adrift, KeptAt
  <1>6. steps' \in Nat
    BY <1>0, <1>2
  <1> QED
    BY <1>0, <1>2, <1>3, <1>4, <1>5, <1>6 DEF CapturedInv

\* A rollout handed out has none of the storage that is already loose.
LEMMA ReturnInv ==
  ASSUME CapturedInv, Return
  PROVE  CapturedInv'
  <1> DEFINE r == [b \in OutBufs |-> dev.at[b]]
  <1>0. /\ driver = "bucket" /\ pc = "ready" /\ steps = MaxNew /\ held' = held \cup {r}
        /\ pc' = "returned" /\ UNCHANGED <<driver, warmup, dev, baked, run, steps>>
    BY DEF Return
  <1>1. dev.at \in [Buf -> Slots] /\ OutBufs \subseteq Buf /\ held \subseteq [OutBufs -> Slots]
    BY BufferPlaces DEF CapturedInv, Placed, DevShape, OutBufs
  <1>2. r \in [OutBufs -> Slots]
    BY <1>1
  <1>3. ASSUME Loose(dev) PROVE Loose(dev)'
    <2>1. PICK b \in Buf : baked[b] # dev.at[b] /\ ~KeptAt(held, b, baked[b])
      BY <1>3 DEF Loose, Adrift
    <2>2. ASSUME b \in OutBufs PROVE r[b] # baked[b]
      BY <2>1, <2>2
    <2> HIDE DEF r
    <2>3. ~KeptAt(held', b, baked[b])
      BY <1>0, <2>1, <2>2 DEF KeptAt
    <2>4. Adrift(dev)'
      BY <1>0, <2>1, <2>3 DEF Adrift
    <2> QED
      BY <1>0, <2>4 DEF Loose
  <1>4. ~(steps > MaxNew)
    BY <1>0, CaptureAssumption
  <1>5. /\ Placed(dev)' /\ RunFits(run)' /\ (At(Val(dev), run, steps) => At(Val(dev), run, steps)')
    BY <1>0 DEF CapturedInv, Placed, Stays, RunFits, At, Val, Values
  <1> HIDE DEF r
  <1> QED
    BY <1>0, <1>1, <1>2, <1>3, <1>4, <1>5 DEF CapturedInv

\* Freeing touches only what no handle of the driver has.
LEMMA FreedIs ==
  ASSUME NEW d, DevShape(d), NEW kept
  PROVE  LET e == Freed(d, kept)
         IN  /\ DevShape(e) /\ e.at = d.at /\ e.wild = d.wild
             /\ \A b \in Buf : e.mem[b][d.at[b]] = d.mem[b][d.at[b]]
  <1> DEFINE m == d.mem
             Out(b, slot) == IF b \notin OutBufs \/ slot = d.at[b] \/ KeptAt(kept, b, slot)
                             THEN m[b][slot] ELSE 0
             x == [b \in Buf |-> [slot \in Slots |-> Out(b, slot)]]
             e == Freed(d, kept)
  <1>1. e = [d EXCEPT !.mem = x]
    BY DEF Freed
  <1>2. /\ x = [b \in Buf |-> [slot \in Slots |-> x[b][slot]]]
        /\ \A b \in Buf, slot \in Slots : x[b][slot] = Out(b, slot)
    OBVIOUS
  <1>3. \A b \in Buf : Out(b, d.at[b]) = d.mem[b][d.at[b]] /\ d.at[b] \in Slots
    BY DEF DevShape
  <1> HIDE DEF e, x, Out
  <1>4. e = [mem |-> x, at |-> d.at, wild |-> d.wild]
    BY <1>1, DeviceParts
  <1>5. e.mem = x /\ e.at = d.at /\ e.wild = d.wild
    BY <1>4
  <1>6. DevShape(e)
    BY <1>2, <1>4, <1>5 DEF DevShape, Pieces
  <1> QED
    BY <1>2, <1>3, <1>5, <1>6 DEF e

\* Dropping rollouts moves nothing, but may leave storage of the graph in nobody's hands.
LEMMA DropRolloutInv ==
  ASSUME CapturedInv, DropRollout
  PROVE  CapturedInv'
  <1>0. PICK kept \in SUBSET held : held' = kept /\ dev' = Freed(dev, kept)
    BY DEF DropRollout
  <1>1. UNCHANGED <<driver, warmup, pc, baked, run, steps>>
    BY DEF DropRollout
  <1>2. DevShape(dev) /\ Placed(dev)
    BY DEF CapturedInv, Placed
  <1>3. /\ DevShape(dev') /\ dev'.at = dev.at /\ dev'.wild = dev.wild
        /\ \A b \in Buf : dev'.mem[b][dev.at[b]] = dev.mem[b][dev.at[b]]
    BY <1>0, <1>2, FreedIs
  <1>4. Placed(dev)' /\ RunFits(run)'
    BY <1>1, <1>2, <1>3 DEF Placed, Stays, RunFits, CapturedInv
  <1>5. Val(dev') = Val(dev)
    BY <1>3 DEF Val, Values
  <1>6. At(Val(dev), run, steps) => At(Val(dev), run, steps)'
    BY <1>1, <1>5 DEF At, Val, Values
  <1>7. Loose(dev) => Loose(dev)'
    BY <1>0, <1>1, <1>3 DEF Loose, Adrift, KeptAt
  <1>8. held' \subseteq [OutBufs -> Slots] /\ (held' # {} => held # {})
    BY <1>0 DEF CapturedInv
  <1> QED
    BY <1>1, <1>3, <1>4, <1>6, <1>7, <1>8 DEF CapturedInv

\* Every step keeps the invariant.
LEMMA CapturedStep ==
  ASSUME CapturedInv, Next
  PROVE  CapturedInv'
  <1>1. CASE Build
    BY <1>1, BuildInv
  <1>2. CASE WarmPass
    BY <1>2, WarmPassInv
  <1>3. CASE Capture
    BY <1>3, CaptureInv
  <1>4. CASE ResetDecoder \/ ResetHybrid \/ ResetRollout \/ Dispatch
    BY <1>4, ResetsInv
  <1>5. CASE DecodeN \/ ReplayCaptured
    <2>1. PICK n \in 1 .. MaxNew : Continue(n)
      BY <1>5 DEF DecodeN, ReplayCaptured
    <2> QED
      BY <2>1, ContinueInv
  <1>6. CASE ReplayRollout
    BY <1>6, ContinueInv DEF ReplayRollout
  <1>7. CASE Return
    BY <1>7, ReturnInv
  <1>8. CASE DropRollout
    BY <1>8, DropRolloutInv
  <1> QED
    BY <1>1, <1>2, <1>3, <1>4, <1>5, <1>6, <1>7, <1>8 DEF Next

\* The invariant holds in every reachable state, whatever rollouts a caller keeps: outputs of
\* a bucket alone are ever elsewhere than the graph has them, and a device is wild only past
\* max_new or with the graph's storage in nobody's hands (capture.rs:111, :289, :510).
THEOREM CapturedInvariant == Spec => []CapturedInv
  <1>1. CapturedInv /\ UNCHANGED vars => CapturedInv'
    BY DEF CapturedInv, vars, Placed, Stays, RunFits, At, Val, Values, Loose, Adrift, KeptAt
  <1> QED
    BY CapturedInit, CapturedStep, <1>1, PTL DEF Spec

\* No pass within max_new leaves its buffer, other than a replay over the outputs of a bucket
\* that were kept and then dropped (capture.rs:422, :510).
THEOREM PassesStayInBounds == Spec => []InBounds
  <1>1. CapturedInv => InBounds
    BY DEF CapturedInv, InBounds, Loose
  <1> QED
    BY CapturedInvariant, <1>1, PTL

\* No update and no reset takes a buffer from the storage in the graph, other than an output
\* of a bucket (capture.rs:289, cudagraph_p4_buckets_bench.rs:370).
THEOREM GraphStaysValid == Spec => []SameStorage
  <1>1. CapturedInv => SameStorage
    BY DEF CapturedInv, SameStorage, Placed, Stays
  <1> QED
    BY CapturedInvariant, <1>1, PTL
-----------------------------------------------------------------------------
(***************************************************************************)
(* What the buffers hold n passes after the prefill of r, for the driver   *)
(* d: the tokens out that decoding without graph and cache draws, each     *)
(* with its own context, and nothing behind them.                          *)
(***************************************************************************)

\* The i-th token after the prompt, if the others before it are those of out.
NextToken(d, r, out, i) ==
  IF \E j \in 1 .. i - 1 : out[j] \in EosSet THEN PadTok
  ELSE Argmax((r.toks \o out)[Len(r.toks) + i - 1], Len(r.toks) - r.lo + i - 1,
              IF d \in Seeded THEN i ELSE 0)

IsOut(d, r, out, n) ==
  /\ out \in Seq(Vocab) /\ Len(out) = n
  /\ \A i \in 1 .. n : out[i] = NextToken(d, r, out, i)

\* What reaches the attention layer for each token of seq.
FedOf(d, seq) ==
  IF d = "hybrid" THEN [i \in DOMAIN seq |-> <<GdnRun(GdnNew, seq)[i].state, i - 1>>]
  ELSE [i \in DOMAIN seq |-> <<seq[i], i - 1>>]

\* The places lo + 1 .. m of s.
Slice(s, lo, m) == [i \in 1 .. m - lo |-> s[lo + i]]

Columns(d) == IF d = "hybrid" THEN TMax ELSE Lp + MaxNew

\* One row of columns. Their number is fixed; its content may be anything.
KvShape(d, kv) ==
  /\ kv = [cap |-> Columns(d), filled |-> kv.filled, rows |-> kv.rows]
  /\ kv.rows = <<>> \/ kv.rows = [i \in {1} |-> kv.rows[1]]

\* The row holds fed up to m, and zeros behind it.
RowMirrors(d, kv, fed, lo, m) ==
  /\ kv.rows = [i \in {1} |-> kv.rows[1]]
  /\ kv.rows[1] = [i \in 1 .. Columns(d) |-> kv.rows[1][i]]
  /\ \A i \in lo + 1 .. m : Last(kv.rows[1][i]) = fed[i]
  /\ \A i \in m + 1 .. Columns(d) : kv.rows[1][i] = Zero

\* The tokens and what is recorded of each.
TokMirrors(v, seq, m, cols) == v.tok = [i \in 1 .. cols |-> IF i <= m THEN seq[i] ELSE 0]
EmitMirrors(v, out, n) == v.emit = [i \in 1 .. MaxNew |-> IF i <= n THEN out[i] ELSE 0]
MaskMirrors(v, out, n) ==
  v.mask = [i \in 1 .. MaxNew |->
              IF i <= n /\ \A j \in 1 .. i - 1 : out[j] \notin EosSet THEN 1 ELSE 0]
LogpMirrors(v, r, fed, out, n) ==
  v.logp = [i \in 1 .. MaxNew |->
              IF i <= n THEN <<Slice(fed, r.lo, Len(r.toks) + i - 1), out[i]>> ELSE <<>>]

OutMirrors(d, r, v, out, n) ==
  LET len == Len(r.toks)
      seq == r.toks \o out
      fed == FedOf(d, seq)
  IN  /\ v.pos = len + n /\ v.base = len /\ v.lo = r.lo
      /\ v.last = Slice(fed, r.lo, len + n)
      /\ v.finished = (\E j \in 1 .. n : out[j] \in EosSet)
      /\ RowMirrors(d, v.kv, fed, r.lo, len + n)
      /\ d = "hybrid" => v.gdn = GdnRun(GdnNew, seq)[len + n] /\ EmitMirrors(v, out, n)
      /\ d # "hybrid" => TokMirrors(v, seq, len + n, Columns(d))
      /\ d \notin {"decoder", "hybrid"} =>
           MaskMirrors(v, out, n) /\ LogpMirrors(v, r, fed, out, n)

Mirrors(d, r, v, n) == \E out : IsOut(d, r, out, n) /\ OutMirrors(d, r, v, out, n)

\* Two sequences of tokens, one behind the other.
LEMMA ConcatIs ==
  ASSUME NEW S, NEW p \in Seq(S), NEW q \in Seq(S)
  PROVE  /\ p \o q \in Seq(S) /\ Len(p \o q) = Len(p) + Len(q)
         /\ \A i \in 1 .. Len(p) : (p \o q)[i] = p[i]
         /\ \A i \in 1 .. Len(q) : (p \o q)[Len(p) + i] = q[i]
  <1>1. p \o q \in Seq(S) /\ Len(p \o q) = Len(p) + Len(q)
    OBVIOUS
  <1>2. \A i \in 1 .. Len(p) : (p \o q)[i] = p[i]
    OBVIOUS
  <1>3. ASSUME NEW i \in 1 .. Len(q) PROVE (p \o q)[Len(p) + i] = q[i]
    OBVIOUS
  <1> QED
    BY <1>1, <1>2, <1>3

\* One more token.
LEMMA GrowIs ==
  ASSUME NEW S, NEW s \in Seq(S), NEW x \in S
  PROVE  /\ Append(s, x) \in Seq(S) /\ Len(Append(s, x)) = Len(s) + 1
         /\ \A i \in 1 .. Len(s) : Append(s, x)[i] = s[i]
         /\ Append(s, x)[Len(s) + 1] = x
  OBVIOUS

\* The last of a sequence given by its places.
LEMMA LastIs ==
  ASSUME NEW m \in Nat, m > 0, NEW s, s = [i \in 1 .. m |-> s[i]]
  PROVE  Len(s) = m /\ Last(s) = s[m]
  <1>1. Len(s) = m
    OBVIOUS
  <1> QED
    BY <1>1 DEF Last

\* A slice, place by place.
LEMMA SliceIs ==
  ASSUME NEW s, NEW lo \in Nat, NEW m \in Nat, lo < m
  PROVE  /\ Len(Slice(s, lo, m)) = m - lo /\ Last(Slice(s, lo, m)) = s[m]
         /\ SubSeq(s, lo + 1, m) = Slice(s, lo, m)
  <1> DEFINE t == Slice(s, lo, m)
  <1>1. m - lo \in Nat /\ m - lo > 0 /\ lo + (m - lo) = m /\ m - lo \in 1 .. m - lo
    OBVIOUS
  <1>2. t = [i \in 1 .. m - lo |-> s[lo + i]]
    BY DEF Slice
  <1>3. t[m - lo] = s[m]
    BY <1>1, <1>2
  <1>4. t = [i \in 1 .. m - lo |-> t[i]]
    BY <1>2
  <1>5. SubSeq(s, lo + 1, m) = t
    <2>1. \A i \in 1 .. m - lo : i + (lo + 1) - 1 = lo + i
      OBVIOUS
    <2>2. 1 + m - (lo + 1) = m - lo
      OBVIOUS
    <2>3. SubSeq(s, lo + 1, m) = [i \in 1 .. (1 + m - (lo + 1)) |-> s[i + (lo + 1) - 1]]
      OBVIOUS
    <2> QED
      BY <2>1, <2>2, <2>3 DEF Slice
  <1> HIDE DEF t
  <1> QED
    BY <1>1, <1>3, <1>4, <1>5, LastIs DEF t

-----------------------------------------------------------------------------
(* The recurrent layer over a sequence.                                      *)

GdnTokens == Vocab \cup {Void}
Gdns == [state : Seq(Seq(GdnTokens)), conv : Seq(GdnTokens), static : BOOLEAN]

\* A step of the layer, field by field.
LEMMA GdnStepIs ==
  ASSUME NEW g \in Gdns, NEW x \in Vocab
  PROVE  /\ GdnStep(g, x) \in Gdns
         /\ GdnStep(g, x).state # <<>> /\ Last(Last(GdnStep(g, x).state)) = x
  <1> DEFINE st == g.state  cv == g.conv  tl == Tail(Append(cv, x))  w == Append(cv, x)
  <1>1. st \in Seq(Seq(GdnTokens)) /\ cv \in Seq(GdnTokens) /\ x \in GdnTokens
    BY DEF Gdns, GdnTokens
  <1>2. g = [state |-> st, conv |-> cv, static |-> g.static] /\ g.static \in BOOLEAN
    BY DEF Gdns
  <1> HIDE DEF st, cv
  <1>3. w \in Seq(GdnTokens) /\ Len(w) = Len(cv) + 1 /\ w[Len(cv) + 1] = x /\ Len(w) > 0 /\ w # <<>>
    <2>1. w \in Seq(GdnTokens) /\ Len(w) = Len(cv) + 1 /\ w[Len(cv) + 1] = x
      BY <1>1, GrowIs
    <2>2. Len(cv) \in Nat
      BY <1>1
    <2> HIDE DEF w
    <2>3. Len(w) > 0
      BY <2>1, <2>2
    <2> QED
      BY <2>1, <2>3
  <1>4. tl \in Seq(GdnTokens)
    <2> HIDE DEF w
    <2> QED
      BY <1>3 DEF w
  <1>5. Last(w) = x
    BY <1>3 DEF Last
  <1> HIDE DEF w, tl
  <1> DEFINE s2 == Append(st, w)
  <1>6. s2 \in Seq(Seq(GdnTokens)) /\ s2 # <<>> /\ Last(s2) = w
    <2>1. s2 \in Seq(Seq(GdnTokens)) /\ Len(s2) = Len(st) + 1 /\ s2[Len(st) + 1] = w /\ Len(s2) > 0
      BY <1>1, <1>3
    <2> HIDE DEF s2
    <2> QED
      BY <2>1 DEF Last
  <1> HIDE DEF s2
  <1>7. GdnStep(g, x) = [state |-> s2, conv |-> tl, static |-> g.static]
    <2> DEFINE b == g.static
    <2>1. g = [state |-> st, conv |-> cv, static |-> b]
      BY <1>2
    <2>2. Window(g, x) = w /\ g.state = st
      BY <2>1 DEF Window, w
    <2>3. PushConv(g, x) = [state |-> st, conv |-> tl, static |-> b]
      BY <2>1, SMTT(60) DEF PushConv, tl
    <2> HIDE DEF b
    <2>4. SetState(PushConv(g, x), s2) = [state |-> s2, conv |-> tl, static |-> b]
      BY <2>3 DEF SetState
    <2>5. Absorbed(g.state, Window(g, x)) = s2
      BY <2>2 DEF Absorbed, s2
    <2> QED
      BY <2>4, <2>5 DEF GdnStep, b
  <1> QED
    BY <1>2, <1>4, <1>5, <1>6, <1>7 DEF Gdns

\* GdnRun is the recursion of its definition.
RunsGdn(f, seq) ==
  /\ f \in [0 .. Len(seq) -> Gdns] /\ f[0] = GdnNew
  /\ \A i \in 1 .. Len(seq) : f[i] = GdnStep(f[i - 1], seq[i])

\* The recurrence run over a sequence has a state after each token, each from the one before.
LEMMA GdnRunIs ==
  ASSUME NEW seq \in Seq(Vocab)
  PROVE  RunsGdn(GdnRun(GdnNew, seq), seq)
  <1> DEFINE n == Len(seq)
             Fold(f) == [i \in 0 .. n |-> IF i = 0 THEN GdnNew ELSE GdnStep(f[i - 1], seq[i])]
             step == [p \in (1 .. n) \X Gdns |-> GdnStep(p[2], seq[p[1]])]
             run0 == CHOOSE f : f = Fold(f)
  <1>1. n \in Nat /\ \A i \in 1 .. n : seq[i] \in Vocab
    OBVIOUS
  <1>2. GdnNew \in Gdns
    <2>1. Kernel - 1 \in Nat
      BY KernelAssumption
    <2>2. [i \in 1 .. Kernel - 1 |-> Void] \in Seq(GdnTokens)
      BY <2>1 DEF GdnTokens
    <2> QED
      BY <2>2 DEF GdnNew, Gdns
  <1>3. IsStep(step, n, Gdns)
    BY <1>1, GdnStepIs DEF IsStep
  <1>4. GdnRun(GdnNew, seq) = run0
    BY DEF GdnRun
  <1> HIDE DEF n, step
  <1>5. PICK f : RecUpTo(f, GdnNew, step, n, Gdns)
    BY <1>1, <1>2, <1>3, UpToRecursion
  <1>6. f = Fold(f)
    <2>1. f \in [0 .. n -> Gdns] /\ f[0] = GdnNew
      BY <1>5 DEF RecUpTo
    <2>2. ASSUME NEW i \in 1 .. n PROVE f[i] = GdnStep(f[i - 1], seq[i])
      <3>1. i - 1 \in 0 .. n
        BY <1>1
      <3>2. f[i - 1] \in Gdns
        BY <2>1, <3>1
      <3>3. step[<<i, f[i - 1]>>] = GdnStep(f[i - 1], seq[i])
        BY <3>2 DEF step
      <3> QED
        BY <1>5, <3>3 DEF RecUpTo
    <2>3. \A i \in 0 .. n : f[i] = IF i = 0 THEN GdnNew ELSE GdnStep(f[i - 1], seq[i])
      BY <1>1, <2>1, <2>2
    <2> QED
      BY <2>1, <2>3
  <1>7. run0 = Fold(run0)
    BY <1>6
  <1> HIDE DEF run0
  <1>8. run0[0] = GdnNew /\ DOMAIN run0 = 0 .. n
    BY <1>1, <1>7
  <1>9. \A i \in 1 .. n : run0[i] = GdnStep(run0[i - 1], seq[i])
    BY <1>1, <1>7
  <1> DEFINE T == {i \in 0 .. n : run0[i] \in Gdns}
  <1>10. 0 \in T
    BY <1>1, <1>2, <1>8
  <1>11. ASSUME NEW i \in 0 .. n - 1, i \in T PROVE i + 1 \in T
    <2>1. i + 1 \in 1 .. n /\ (i + 1) - 1 = i
      BY <1>1
    <2>2. run0[i + 1] = GdnStep(run0[i], seq[i + 1])
      BY <1>9, <2>1
    <2>3. run0[i] \in Gdns /\ seq[i + 1] \in Vocab
      BY <1>1, <1>11, <2>1
    <2>4. GdnStep(run0[i], seq[i + 1]) \in Gdns
      BY <2>3, GdnStepIs
    <2> QED
      BY <1>1, <2>1, <2>2, <2>4
  <1> HIDE DEF T
  <1>12. \A i \in 0 .. n : i \in T
    BY <1>1, <1>10, <1>11, UpToInduction
  <1>13. run0 \in [0 .. n -> Gdns]
    <2>1. run0 = [i \in 0 .. n |-> run0[i]]
      BY <1>7
    <2> QED
      BY <1>12, <2>1 DEF T
  <1> QED
    BY <1>4, <1>8, <1>9, <1>13 DEF RunsGdn, n

\* Equal sequences lead to equal states.
LEMMA GdnPrefix ==
  ASSUME NEW s \in Seq(Vocab), NEW u \in Seq(Vocab), NEW m \in Nat, m <= Len(s), m <= Len(u),
         \A i \in 1 .. m : s[i] = u[i]
  PROVE  \A i \in 0 .. m : GdnRun(GdnNew, s)[i] = GdnRun(GdnNew, u)[i]
  <1> DEFINE f == GdnRun(GdnNew, s)  g == GdnRun(GdnNew, u)
             T == {i \in 0 .. m : f[i] = g[i]}
  <1>1. RunsGdn(f, s) /\ RunsGdn(g, u)
    BY GdnRunIs
  <1> HIDE DEF f, g
  <1>2. 0 \in T
    BY <1>1 DEF RunsGdn
  <1>3. ASSUME NEW i \in 0 .. m - 1, i \in T PROVE i + 1 \in T
    <2>1. i + 1 \in 1 .. m /\ (i + 1) - 1 = i /\ i + 1 \in 1 .. Len(s) /\ i + 1 \in 1 .. Len(u)
      OBVIOUS
    <2>2. f[i + 1] = GdnStep(f[i], s[i + 1]) /\ g[i + 1] = GdnStep(g[i], u[i + 1])
      BY <1>1, <2>1 DEF RunsGdn
    <2>3. i + 1 \in 0 .. m
      OBVIOUS
    <2> QED
      BY <1>3, <2>1, <2>2, <2>3
  <1> HIDE DEF T
  <1>4. \A i \in 0 .. m : i \in T
    BY <1>2, <1>3, UpToInduction
  <1> QED
    BY <1>4 DEF T, f, g

\* What a driver is given: a prompt of tokens with an unmasked one, which fits.
RunKnown(d, r) ==
  /\ r.toks \in Seq(Vocab) /\ r.lo \in Nat /\ r.lo < Len(r.toks)
  /\ IF d = "hybrid" THEN Len(r.toks) + MaxNew <= TMax ELSE Len(r.toks) = Lp

\* The inputs of every driver are such.
LEMMA InputsKnown == \A r \in Inputs : RunKnown(driver, r)
  <1> SUFFICES ASSUME NEW r \in Inputs PROVE RunKnown(driver, r)
    OBVIOUS
  <1>1. /\ Lp \in Nat /\ PadTok \in Vocab
        /\ \A p \in Prompts : p \in Seq(Vocab) /\ p # <<>>
    BY CaptureAssumption
  <1>2. \A p \in Prompts : Len(p) \in Nat /\ Len(p) > 0
    <2> SUFFICES ASSUME NEW p \in Prompts PROVE Len(p) \in Nat /\ Len(p) > 0
      OBVIOUS
    <2>1. p \in Seq(Vocab) /\ p # <<>>
      BY <1>1
    <2> QED
      BY <2>1
  <1>3. CASE driver = "hybrid"
    <2>1. PICK p \in Prompts : r = [toks |-> p, lo |-> 0] /\ Len(p) + MaxNew <= TMax
      BY <1>3 DEF Inputs
    <2> QED
      BY <1>1, <1>2, <1>3, <2>1 DEF RunKnown
  <1>4. CASE driver = "bucket"
    <2>1. PICK p \in Prompts, on \in BOOLEAN :
            r = [toks |-> PadTo(p, Lp), lo |-> IF on THEN Lp - Len(p) ELSE 0] /\ Len(p) <= Lp
      BY <1>4 DEF Inputs
    <2> DEFINE pad == [i \in 1 .. Lp - Len(p) |-> PadTok]  m == Len(p)
    <2>2. pad \in Seq(Vocab) /\ Len(pad) = Lp - m
      BY <1>1, <1>2, <2>1
    <2>3. p \in Seq(Vocab) /\ PadTo(p, Lp) = pad \o p /\ m \in Nat /\ m > 0 /\ m <= Lp
      BY <1>1, <1>2, <2>1 DEF PadTo
    <2> HIDE DEF pad
    <2>4. PadTo(p, Lp) \in Seq(Vocab) /\ Len(PadTo(p, Lp)) = Len(pad) + m
      BY <2>2, <2>3, ConcatIs
    <2>5. r.toks = PadTo(p, Lp) /\ (r.lo = 0 \/ r.lo = Lp - m)
      BY <2>1
    <2> HIDE DEF m
    <2>6. Len(r.toks) = Lp /\ r.lo \in Nat /\ r.lo < Lp
      BY <1>1, <2>2, <2>3, <2>4, <2>5
    <2> QED
      BY <1>4, <2>4, <2>5, <2>6 DEF RunKnown
  <1>5. CASE driver # "hybrid" /\ driver # "bucket"
    <2>1. PICK p \in Prompts : r = [toks |-> p, lo |-> 0] /\ Len(p) = Lp
      BY <1>5 DEF Inputs
    <2> QED
      BY <1>1, <1>2, <1>5, <2>1 DEF RunKnown
  <1> QED
    BY <1>3, <1>4, <1>5

\* The token that x was fed for.
TokenIn(d, x) == IF d = "hybrid" THEN Last(Last(x[1])) ELSE x[1]

\* What is fed for a token, and the token it is fed for.
LEMMA FedIs ==
  ASSUME NEW d, NEW seq \in Seq(Vocab)
  PROVE  /\ FedOf(d, seq) = [i \in 1 .. Len(seq) |-> FedOf(d, seq)[i]]
         /\ \A i \in 1 .. Len(seq) :
              /\ FedOf(d, seq)[i] =
                   IF d = "hybrid" THEN <<GdnRun(GdnNew, seq)[i].state, i - 1>>
                   ELSE <<seq[i], i - 1>>
              /\ FedOf(d, seq)[i] # Blur
              /\ TokenIn(d, FedOf(d, seq)[i]) = seq[i]
  <1> DEFINE fed == FedOf(d, seq)  n == Len(seq)  g == GdnRun(GdnNew, seq)
  <1>1. DOMAIN seq = 1 .. n /\ n \in Nat /\ \A i \in 1 .. n : seq[i] \in Vocab
    OBVIOUS
  <1>2. RunsGdn(g, seq)
    BY GdnRunIs
  <1> HIDE DEF n, g
  <1>3. fed = IF d = "hybrid" THEN [i \in 1 .. n |-> <<g[i].state, i - 1>>]
              ELSE [i \in 1 .. n |-> <<seq[i], i - 1>>]
    BY <1>1 DEF FedOf, g
  <1> HIDE DEF fed
  <1>4. fed = [i \in 1 .. n |-> fed[i]]
    BY <1>3
  <1>5. ASSUME NEW i \in 1 .. n
        PROVE  g[i] \in Gdns /\ Last(Last(g[i].state)) = seq[i]
    <2>1. g[i] = GdnStep(g[i - 1], seq[i]) /\ g[i - 1] \in Gdns
      <3>1. i - 1 \in 0 .. n
        BY <1>1
      <3> QED
        BY <1>2, <3>1 DEF RunsGdn, n
    <2> QED
      BY <1>1, <2>1, GdnStepIs
  <1>6. ASSUME NEW i \in 1 .. n
        PROVE  /\ fed[i] = IF d = "hybrid" THEN <<g[i].state, i - 1>> ELSE <<seq[i], i - 1>>
               /\ fed[i] # Blur
               /\ TokenIn(d, fed[i]) = seq[i]
    <2>1. fed[i] = IF d = "hybrid" THEN <<g[i].state, i - 1>> ELSE <<seq[i], i - 1>>
      BY <1>3
    <2>2. i - 1 \in Nat
      BY <1>1
    <2>3. CASE d = "hybrid"
      <3>1. g[i].state \in Seq(Seq(GdnTokens))
        BY <1>5 DEF Gdns
      <3>2. <<g[i].state, i - 1>> \in Seq(Seq(Vocab \cup {Void})) \X Nat
        BY <2>2, <3>1 DEF GdnTokens
      <3>3. <<g[i].state, i - 1>> # Blur
        BY <3>2, CaptureAssumption
      <3> QED
        BY <1>5, <2>1, <2>3, <3>3 DEF TokenIn
    <2>4. CASE d # "hybrid"
      <3>1. seq[i] \in Nat
        BY <1>1, CaptureAssumption
      <3>2. <<seq[i], i - 1>> \in Nat \X Nat
        BY <2>2, <3>1
      <3>3. <<seq[i], i - 1>> # Blur
        BY <3>2, CaptureAssumption
      <3> QED
        BY <2>1, <2>4, <3>3 DEF TokenIn
    <2> QED
      BY <2>1, <2>3, <2>4
  <1> QED
    BY <1>4, <1>6 DEF fed, g, n

\* A token can be told from what is fed for it.
LEMMA FedTells ==
  ASSUME NEW d, NEW seq \in Seq(Vocab), NEW i \in 1 .. Len(seq)
  PROVE  FedOf(d, seq)[i] # Blur /\ TokenIn(d, FedOf(d, seq)[i]) = seq[i]
  <1> DEFINE n == Len(seq)
  <1>1. \A j \in 1 .. n : FedOf(d, seq)[j] # Blur /\ TokenIn(d, FedOf(d, seq)[j]) = seq[j]
    BY FedIs, ZenonT(60)
  <1>2. i \in 1 .. n
    OBVIOUS
  <1> HIDE DEF n
  <1> QED
    BY <1>1, <1>2, Zenon

\* What is fed for the tokens that two sequences share.
LEMMA FedPrefix ==
  ASSUME NEW d, NEW s \in Seq(Vocab), NEW u \in Seq(Vocab), NEW m \in Nat,
         m <= Len(s), m <= Len(u), \A i \in 1 .. m : s[i] = u[i]
  PROVE  \A i \in 1 .. m : FedOf(d, s)[i] = FedOf(d, u)[i]
  <1> SUFFICES ASSUME NEW i \in 1 .. m PROVE FedOf(d, s)[i] = FedOf(d, u)[i]
    OBVIOUS
  <1>1. i \in 1 .. Len(s) /\ i \in 1 .. Len(u) /\ i \in 0 .. m
    OBVIOUS
  <1>2. GdnRun(GdnNew, s)[i] = GdnRun(GdnNew, u)[i]
    BY <1>1, GdnPrefix
  <1>3. s[i] = u[i]
    OBVIOUS
  <1>4. FedOf(d, s)[i] = IF d = "hybrid" THEN <<GdnRun(GdnNew, s)[i].state, i - 1>>
                         ELSE <<s[i], i - 1>>
    BY <1>1, FedIs
  <1>5. FedOf(d, u)[i] = IF d = "hybrid" THEN <<GdnRun(GdnNew, u)[i].state, i - 1>>
                         ELSE <<u[i], i - 1>>
    BY <1>1, FedIs
  <1> QED
    BY <1>2, <1>3, <1>4, <1>5

\* The state of the recurrent layer after one more token.
LEMMA GdnNext ==
  ASSUME NEW s \in Seq(Vocab), NEW u \in Seq(Vocab), Len(u) = Len(s) + 1,
         \A i \in 1 .. Len(s) : u[i] = s[i]
  PROVE  GdnRun(GdnNew, u)[Len(u)] = GdnStep(GdnRun(GdnNew, s)[Len(s)], u[Len(u)])
  <1>1. RunsGdn(GdnRun(GdnNew, u), u)
    BY GdnRunIs
  <1>2. Len(s) \in Nat
    OBVIOUS
  <1>3. Len(u) \in 1 .. Len(u) /\ Len(u) - 1 = Len(s) /\ Len(s) \in 0 .. Len(s) /\ Len(s) <= Len(u)
    BY <1>2
  <1>4. GdnRun(GdnNew, u)[Len(u)] = GdnStep(GdnRun(GdnNew, u)[Len(s)], u[Len(u)])
    BY <1>1, <1>3 DEF RunsGdn
  <1>5. GdnRun(GdnNew, s)[Len(s)] = GdnRun(GdnNew, u)[Len(s)]
    BY <1>2, <1>3, GdnPrefix
  <1> QED
    BY <1>4, <1>5

-----------------------------------------------------------------------------
(* The one row of the cache.                                                 *)

\* A sequence of one.
LEMMA OneRow ==
  ASSUME NEW x
  PROVE  DOMAIN <<x>> = {1} /\ <<x>>[1] = x /\ Len(<<x>>) = 1
  OBVIOUS

\* Appending to a sequence given as a function.
LEMMA AppendRow ==
  ASSUME NEW j \in Nat, NEW s, s = [i \in 1 .. j |-> s[i]], NEW x
  PROVE  Append(s, x) = [i \in 1 .. j + 1 |-> IF i <= j THEN s[i] ELSE x]
  <1> DEFINE S == {s[i] : i \in 1 .. j} \cup {x}  t == Append(s, x)
  <1>1. x \in S /\ \A i \in 1 .. j : s[i] \in S
    OBVIOUS
  <1> HIDE DEF S
  <1>2. s \in Seq(S) /\ Len(s) = j
    BY <1>1
  <1>3. t \in Seq(S) /\ Len(t) = j + 1 /\ t[j + 1] = x /\ \A i \in 1 .. j : t[i] = s[i]
    BY <1>1, <1>2
  <1> HIDE DEF t
  <1>4. t = [i \in 1 .. j + 1 |-> t[i]]
    BY <1>3
  <1>5. \A i \in 1 .. j + 1 : t[i] = IF i <= j THEN s[i] ELSE x
    BY <1>3
  <1> QED
    BY <1>4, <1>5 DEF t

\* The columns that a cache with one row has.
RowOf(kv) == IF kv.rows = <<>> THEN [col \in 1 .. kv.cap |-> Zero] ELSE kv.rows[1]

\* The cache after a write of c behind the column m.
StaticSays(d, kv, m, c, w) ==
  /\ KvShape(d, w) /\ w.rows = [i \in {1} |-> w.rows[1]]
  /\ w.rows[1] = [RowOf(kv) EXCEPT ![m + 1] = IF @ = Zero THEN c ELSE Spoiled]

\* A write at a position changes one column of the row.
LEMMA StaticWrites ==
  ASSUME NEW d, NEW kv, KvShape(d, kv), NEW m, NEW c
  PROVE  StaticSays(d, kv, m, c, UpdateStatic(kv, m, <<c>>))
  <1> DEFINE C == Columns(d)  w == UpdateStatic(kv, m, <<c>>)
             row == RowOf(kv)
             R == [row EXCEPT ![m + 1] = IF @ = Zero THEN c ELSE Spoiled]
  <1>1. kv = [cap |-> C, filled |-> kv.filled, rows |-> kv.rows] /\ kv.cap = C
    BY DEF KvShape
  <1>2. Buffer(kv, Len(<<c>>))[1] = row
    <2>1. CASE kv.rows = <<>>
      BY <2>1, OneRow DEF Buffer, Allocated, RowOf
    <2>2. CASE kv.rows # <<>>
      BY <2>2 DEF Buffer, Allocated, RowOf
    <2> QED
      BY <2>1, <2>2
  <1> HIDE DEF C, row
  <1> DEFINE rows == [r \in DOMAIN <<c>> |-> [Buffer(kv, Len(<<c>>))[r] EXCEPT
                        ![m + 1] = IF @ = Zero THEN <<c>>[r] ELSE Spoiled]]
  <1>3. w = [kv EXCEPT !.rows = rows]
    BY DEF UpdateStatic
  <1>4. rows = [i \in {1} |-> R]
    <2> DEFINE F(r) == [Buffer(kv, Len(<<c>>))[r] EXCEPT
                          ![m + 1] = IF @ = Zero THEN <<c>>[r] ELSE Spoiled]
    <2>1. F(1) = R
      BY <1>2, OneRow
    <2>2. rows = [r \in {1} |-> F(r)]
      BY OneRow
    <2> HIDE DEF F, R, rows
    <2> QED
      BY <2>1, <2>2
  <1> HIDE DEF R, rows, w
  <1>5. w = [cap |-> C, filled |-> kv.filled, rows |-> rows]
    BY <1>1, <1>3
  <1>6. rows = [i \in {1} |-> rows[1]] /\ rows[1] = R
    BY <1>4
  <1>7. w.rows = rows
    BY <1>5
  <1>8. KvShape(d, w)
    BY <1>5, <1>6, <1>7 DEF KvShape, C
  <1> QED
    BY <1>6, <1>7, <1>8 DEF R, row, w, StaticSays

\* A row of the cells of the prompt, and zeros behind them.
PrefillSays(d, cells, w) ==
  /\ KvShape(d, w) /\ w.rows = [i \in {1} |-> w.rows[1]]
  /\ w.rows[1] = [col \in 1 .. Columns(d) |-> IF col \in DOMAIN cells THEN cells[col] ELSE Zero]

\* A reset and a prefill leave that.
LEMMA PrefillWrites ==
  ASSUME NEW d, NEW kv, KvShape(d, kv), NEW cells
  PROVE  PrefillSays(d, cells, Update(Cleared(kv), <<cells>>))
  <1> DEFINE C == Columns(d)  k == Cleared(kv)  w == Update(k, <<cells>>)
             zrow == [i \in 1 .. C |-> Zero]
             zrows == [r \in DOMAIN kv.rows |-> zrow]
             R == [col \in 1 .. C |-> IF col \in DOMAIN cells THEN cells[col] ELSE Zero]
  <1>1. kv = [cap |-> C, filled |-> kv.filled, rows |-> kv.rows] /\ kv.cap = C
    BY DEF KvShape
  <1> HIDE DEF C
  <1>2. k = [cap |-> C, filled |-> 0, rows |-> zrows]
    <2>1. k = [kv EXCEPT !.filled = 0,
                         !.rows = [r \in DOMAIN kv.rows |-> [i \in 1 .. kv.cap |-> Zero]]]
      BY <1>1 DEF Cleared
    <2> HIDE DEF k, zrows
    <2>2. k = [kv EXCEPT !.filled = 0, !.rows = zrows]
      BY <1>1, <2>1 DEF zrows
    <2> QED
      BY <1>1, <2>2
  <1>3. Buffer(k, Len(<<cells>>))[1] = zrow
    <2>1. k.rows = zrows /\ k.cap = C
      BY <1>2
    <2> HIDE DEF k
    <2>2. CASE kv.rows = <<>>
      <3>1. zrows = <<>>
        BY <2>2
      <3> QED
        BY <2>1, <3>1, OneRow DEF Buffer, Allocated
    <2>3. CASE kv.rows # <<>>
      <3>1. DOMAIN kv.rows = {1}
        BY <2>3 DEF KvShape
      <3>2. zrows = [r \in {1} |-> zrow]
        BY <3>1
      <3> HIDE DEF zrows, zrow
      <3>3. zrows # <<>> /\ zrows[1] = zrow
        BY <3>2
      <3> QED
        BY <2>1, <3>3 DEF Buffer, Allocated
    <2> QED
      BY <2>2, <2>3
  <1> DEFINE F(r) == [col \in 1 .. k.cap |->
                       IF col - k.filled \in DOMAIN <<cells>>[r] THEN <<cells>>[r][col - k.filled]
                       ELSE Buffer(k, Len(<<cells>>))[r][col]]
             rows == [r \in DOMAIN <<cells>> |-> F(r)]
             f == k.filled + Len(<<cells>>[1])
  <1>4. w = [k EXCEPT !.filled = f, !.rows = rows]
    <2>1. w = Update(k, <<cells>>)
      OBVIOUS
    <2> HIDE DEF k
    <2> QED
      BY <2>1 DEF Update
  <1>5. rows = [i \in {1} |-> R]
    <2>1. k.filled = 0 /\ k.cap = C
      BY <1>2
    <2> HIDE DEF k, zrow
    <2>2. \A col \in 1 .. C : zrow[col] = Zero
      BY DEF zrow
    <2>3. F(1) = R
      <3>1. \A col \in 1 .. C : col - k.filled = col
        BY <2>1
      <3>2. \A col \in 1 .. C : Buffer(k, Len(<<cells>>))[1][col] = Zero
        BY <1>3, <2>2
      <3> QED
        BY <2>1, <3>1, <3>2, OneRow
    <2>4. rows = [r \in {1} |-> F(r)]
      BY OneRow
    <2> HIDE DEF F, R, rows
    <2> QED
      BY <2>3, <2>4
  <1> HIDE DEF R, rows, k, zrows, f, w
  <1>6. w = [cap |-> C, filled |-> f, rows |-> rows]
    BY <1>2, <1>4
  <1>7. rows = [i \in {1} |-> rows[1]] /\ rows[1] = R
    BY <1>5
  <1>8. w.rows = rows
    BY <1>6
  <1>9. KvShape(d, w)
    BY <1>6, <1>7, <1>8 DEF KvShape, C
  <1> QED
    BY <1>7, <1>8, <1>9 DEF R, C, k, w, PrefillSays

\* Two functions agree on the first n places.
Agree(n, f, g) == \A i \in 1 .. n : g[i] = f[i]

\* A step's cell is the context of its token, and the row holds it from then on.
LEMMA RowNext ==
  ASSUME NEW d, NEW kv, KvShape(d, kv), NEW lo \in Nat, NEW m \in Nat, lo < m,
         Columns(d) \in Nat, m < Columns(d),
         NEW fed, RowMirrors(d, kv, fed, lo, m),
         NEW more, Agree(m, fed, more), NEW k, k = m + 1, NEW x, x = more[k]
  PROVE  /\ CellAt(kv, lo, m, x) = Slice(more, lo, k)
         /\ RowMirrors(d, UpdateStatic(kv, m, <<Slice(more, lo, k)>>), more, lo, k)
  <1> DEFINE row == kv.rows[1]  C == Columns(d)
             c == CellAt(kv, lo, m, more[m + 1])  w == UpdateStatic(kv, m, <<c>>)
             new == w.rows[1]  own == Owns(SubSeq(row, lo + 1, m))
  <1>1. /\ kv.rows = [i \in {1} |-> row] /\ row = [i \in 1 .. C |-> row[i]]
        /\ \A i \in lo + 1 .. m : Last(row[i]) = fed[i]
        /\ \A i \in m + 1 .. C : row[i] = Zero
    BY DEF RowMirrors
  <1>0. \A i \in 1 .. m : more[i] = fed[i]
    BY DEF Agree
  <1>2. RowOf(kv) = row
    <2> HIDE DEF C, c, w, new, own
    <2>1. DOMAIN kv.rows = {1}
      BY <1>1
    <2>2. kv.rows # <<>>
      BY <2>1, SMTT(60)
    <2> QED
      BY <2>2 DEF RowOf
  <1>3. /\ w.rows = [i \in {1} |-> new]
        /\ new = [row EXCEPT ![m + 1] = IF @ = Zero THEN c ELSE Spoiled]
    <2>1. StaticSays(d, kv, m, c, w)
      BY StaticWrites
    <2> HIDE DEF c, w
    <2>2. /\ w.rows = [i \in {1} |-> w.rows[1]]
          /\ w.rows[1] = [RowOf(kv) EXCEPT ![m + 1] = IF @ = Zero THEN c ELSE Spoiled]
      BY <2>1 DEF StaticSays
    <2> HIDE DEF row
    <2> QED
      BY <1>2, <2>2
  <1> HIDE DEF row, C, new, c, w
  <1>4. m + 1 \in 1 .. C /\ m + 1 \in m + 1 .. C /\ C \in Nat /\ m < C
    BY DEF C
  <1>5. row[m + 1] = Zero
    BY <1>1, <1>4
  <1>6. /\ new = [i \in 1 .. C |-> new[i]] /\ new[m + 1] = c
        /\ \A i \in 1 .. C : i # m + 1 => new[i] = row[i]
    BY <1>1, <1>3, <1>4, <1>5
  <1>7. own = [i \in 1 .. m - lo |-> more[lo + i]]
    <2> DEFINE s == SubSeq(row, lo + 1, m)
    <2>1. s = [i \in 1 .. m - lo |-> row[lo + i]]
      BY SliceIs DEF Slice
    <2> HIDE DEF s
    <2>2. own = [i \in 1 .. m - lo |-> Last(s[i])]
      BY <2>1 DEF Owns, Own, s
    <2>3. ASSUME NEW i \in 1 .. m - lo PROVE Last(s[i]) = more[lo + i]
      <3>1. lo + i \in lo + 1 .. m /\ lo + i \in 1 .. m
        OBVIOUS
      <3>2. s[i] = row[lo + i]
        BY <2>1
      <3> QED
        BY <1>0, <1>1, <3>1, <3>2
    <2> QED
      BY <2>2, <2>3
  <1> HIDE DEF own
  <1>8. c = Append(own, more[m + 1])
    BY <1>5 DEF own, row, c, CellAt
  <1>9. c = Slice(more, lo, m + 1)
    <2> DEFINE y == more[m + 1]  j == m - lo
    <2>1. j \in Nat /\ j + 1 = (m + 1) - lo /\ lo + (j + 1) = m + 1
      OBVIOUS
    <2>2. own = [i \in 1 .. j |-> more[lo + i]]
      BY <1>7
    <2> HIDE DEF j
    <2>3. own = [i \in 1 .. j |-> own[i]]
      BY <2>2
    <2>4. c = [i \in 1 .. j + 1 |-> IF i <= j THEN own[i] ELSE y]
      BY <1>8, <2>1, <2>3, AppendRow
    <2>5. \A i \in 1 .. j + 1 : (IF i <= j THEN own[i] ELSE y) = more[lo + i]
      <3>1. \A i \in 1 .. j + 1 : i \in 1 .. j \/ (i = j + 1 /\ ~(i <= j))
        BY <2>1
      <3>2. \A i \in 1 .. j : own[i] = more[lo + i] /\ i <= j
        BY <2>1, <2>2
      <3> QED
        BY <2>1, <3>1, <3>2
    <2>8. Slice(more, lo, m + 1) = [i \in 1 .. j + 1 |-> more[lo + i]]
      BY <2>1 DEF Slice
    <2> QED
      BY <2>4, <2>5, <2>8
  <1>10. Last(c) = more[m + 1]
    <2>1. m + 1 \in Nat /\ lo < m + 1
      OBVIOUS
    <2>2. Last(Slice(more, lo, m + 1)) = more[m + 1]
      BY <2>1, SliceIs
    <2> QED
      BY <1>9, <2>2
  <1>11. \A i \in lo + 1 .. m + 1 : Last(new[i]) = more[i]
    <2> SUFFICES ASSUME NEW i \in lo + 1 .. m + 1 PROVE Last(new[i]) = more[i]
      OBVIOUS
    <2>1. CASE i = m + 1
      BY <1>6, <1>10, <2>1
    <2>2. CASE i # m + 1
      <3>1. i \in lo + 1 .. m /\ i \in 1 .. m /\ i \in 1 .. C
        BY <1>4, <2>2
      <3> QED
        BY <1>0, <1>1, <1>6, <2>2, <3>1
    <2> QED
      BY <2>1, <2>2
  <1>12. \A i \in (m + 1) + 1 .. C : new[i] = Zero
    <2> SUFFICES ASSUME NEW i \in (m + 1) + 1 .. C PROVE new[i] = Zero
      OBVIOUS
    <2>1. i \in m + 1 .. C /\ i \in 1 .. C /\ i # m + 1
      BY <1>4
    <2> QED
      BY <1>1, <1>6, <2>1
  <1>13. RowMirrors(d, w, more, lo, m + 1)
    BY <1>3, <1>6, <1>11, <1>12 DEF RowMirrors, C, new
  <1> QED
    BY <1>9, <1>13 DEF c, w

-----------------------------------------------------------------------------
(* The next token.                                                           *)

\* Behind the same prompt, outputs that agree on n tokens make sequences that agree.
LEMMA SeqSame ==
  ASSUME NEW p \in Seq(Vocab), NEW out \in Seq(Vocab), NEW more \in Seq(Vocab), NEW n \in Nat,
         n <= Len(out), n <= Len(more), \A j \in 1 .. n : more[j] = out[j]
  PROVE  \A k \in 1 .. Len(p) + n : (p \o more)[k] = (p \o out)[k]
  <1> SUFFICES ASSUME NEW k \in 1 .. Len(p) + n PROVE (p \o more)[k] = (p \o out)[k]
    OBVIOUS
  <1> DEFINE len == Len(p)
  <1>0. len \in Nat /\ k \in 1 .. len + n
    OBVIOUS
  <1> HIDE DEF len
  <1>1. /\ \A i \in 1 .. len : (p \o more)[i] = p[i] /\ (p \o out)[i] = p[i]
        /\ \A i \in 1 .. Len(more) : (p \o more)[len + i] = more[i]
        /\ \A i \in 1 .. Len(out) : (p \o out)[len + i] = out[i]
    BY ConcatIs, SMTT(60) DEF len
  <1>2. CASE k <= len
    <2>1. k \in 1 .. len
      BY <1>0, <1>2
    <2> QED
      BY <1>1, <2>1
  <1>3. CASE k > len
    <2> DEFINE j == k - len
    <2>1. j \in 1 .. n /\ k = len + j
      BY <1>0, <1>3
    <2> HIDE DEF j
    <2>2. j \in 1 .. Len(more) /\ j \in 1 .. Len(out)
      BY <2>1
    <2> QED
      BY <1>1, <2>1, <2>2
  <1> QED
    BY <1>0, <1>2, <1>3

\* A token depends only on those before it.
LEMMA NextTokenSame ==
  ASSUME NEW d, NEW r, r.toks \in Seq(Vocab), Len(r.toks) > 0,
         NEW out \in Seq(Vocab), NEW more \in Seq(Vocab), NEW n \in Nat,
         n <= Len(out), n <= Len(more), \A j \in 1 .. n : more[j] = out[j]
  PROVE  \A i \in 1 .. n + 1 : NextToken(d, r, more, i) = NextToken(d, r, out, i)
  <1> SUFFICES ASSUME NEW i \in 1 .. n + 1
               PROVE  NextToken(d, r, more, i) = NextToken(d, r, out, i)
    OBVIOUS
  <1> DEFINE len == Len(r.toks)
  <1>1. len \in Nat /\ len > 0
    OBVIOUS
  <1>2. \A k \in 1 .. len + n : (r.toks \o more)[k] = (r.toks \o out)[k]
    BY SeqSame
  <1> HIDE DEF len
  <1>3. len + i - 1 \in 1 .. len + n
    BY <1>1
  <1>4. (r.toks \o more)[len + i - 1] = (r.toks \o out)[len + i - 1]
    BY <1>2, <1>3
  <1>5. (\E j \in 1 .. i - 1 : more[j] \in EosSet) <=> (\E j \in 1 .. i - 1 : out[j] \in EosSet)
    <2>1. \A j \in 1 .. i - 1 : j \in 1 .. n
      OBVIOUS
    <2> QED
      BY <2>1
  <1> QED
    BY <1>4, <1>5 DEF NextToken, len

\* The output with the next token.
LEMMA OutGrows ==
  ASSUME NEW d, NEW r, r.toks \in Seq(Vocab), Len(r.toks) > 0, NEW n \in Nat,
         NEW out, IsOut(d, r, out, n), NextToken(d, r, out, n + 1) \in Vocab,
         NEW more, more = Append(out, NextToken(d, r, out, n + 1))
  PROVE  IsOut(d, r, more, n + 1)
  <1> DEFINE e == NextToken(d, r, out, n + 1)
  <1>1. out \in Seq(Vocab) /\ Len(out) = n /\ \A i \in 1 .. n : out[i] = NextToken(d, r, out, i)
    BY DEF IsOut
  <1>2. e \in Vocab /\ more = Append(out, e)
    OBVIOUS
  <1> HIDE DEF e
  <1>3. /\ more \in Seq(Vocab) /\ Len(more) = n + 1 /\ more[n + 1] = e
        /\ \A i \in 1 .. n : more[i] = out[i]
    BY <1>1, <1>2, GrowIs
  <1>4. \A i \in 1 .. n + 1 : NextToken(d, r, more, i) = NextToken(d, r, out, i)
    <2>1. n <= Len(out) /\ n <= Len(more)
      BY <1>1, <1>3
    <2>2. out \in Seq(Vocab) /\ more \in Seq(Vocab)
      BY <1>1, <1>3
    <2>3. \A i \in 1 .. n : more[i] = out[i]
      BY <1>3
    <2> QED
      BY <2>1, <2>2, <2>3, NextTokenSame, ZenonT(60)
  <1>5. \A i \in 1 .. n + 1 : more[i] = NextToken(d, r, out, i)
    <2>1. \A i \in 1 .. n + 1 : i \in 1 .. n \/ i = n + 1
      OBVIOUS
    <2> QED
      BY <1>1, <1>3, <2>1 DEF e
  <1> QED
    BY <1>3, <1>4, <1>5 DEF IsOut

\* The lengths of a run, and of what it may still take.
LEMMA RunLens ==
  ASSUME NEW d, NEW r, RunKnown(d, r), NEW n \in Nat, n < MaxNew
  PROVE  /\ Len(r.toks) \in Nat /\ Len(r.toks) > 0 /\ r.lo \in Nat /\ r.lo < Len(r.toks)
         /\ Columns(d) \in Nat /\ Len(r.toks) + n < Columns(d)
         /\ Len(r.toks) + n - r.lo \in 1 .. Lp + MaxNew + TMax
         /\ d # "hybrid" => Len(r.toks) = Lp
  <1>1. MaxNew \in Nat /\ Lp \in Nat /\ TMax \in Nat
    BY CaptureAssumption
  <1> DEFINE len == Len(r.toks)  lo == r.lo
  <1>2. len \in Nat /\ lo \in Nat /\ lo < len
    BY DEF RunKnown
  <1>3. IF d = "hybrid" THEN len + MaxNew <= TMax ELSE len = Lp
    BY DEF RunKnown
  <1> HIDE DEF len, lo
  <1>4. /\ len > 0 /\ Columns(d) \in Nat /\ len + n < Columns(d)
        /\ len + n - lo \in 1 .. Lp + MaxNew + TMax
        /\ d # "hybrid" => len = Lp
    BY <1>1, <1>2, <1>3 DEF Columns
  <1> QED
    BY <1>2, <1>4 DEF len, lo

\* What a pass emits when the buffers are as they should be and the seed is its own.
LEMMA EmittedIs ==
  ASSUME NEW v, NEW r, RunKnown(driver, r), NEW n \in Nat, n < MaxNew,
         NEW out, IsOut(driver, r, out, n), OutMirrors(driver, r, v, out, n),
         v.seed = (IF driver \in Seeded THEN n + 1 ELSE 0)
  PROVE  Emitted(v) = NextToken(driver, r, out, n + 1) /\ Emitted(v) \in Vocab
  <1> DEFINE len == Len(r.toks)  lo == r.lo  all == r.toks \o out  m == len + n
             fed == FedOf(driver, all)
  <1>1. /\ len \in Nat /\ len > 0 /\ lo \in Nat /\ lo < len
        /\ m - lo \in 1 .. Lp + MaxNew + TMax
    BY RunLens
  <1>2. out \in Seq(Vocab) /\ Len(out) = n /\ r.toks \in Seq(Vocab)
    BY DEF IsOut, RunKnown
  <1>3. v.last = Slice(fed, lo, m) /\ v.finished = (\E j \in 1 .. n : out[j] \in EosSet)
    BY DEF OutMirrors
  <1>4. all \in Seq(Vocab) /\ Len(all) = len + n
    BY <1>2, ConcatIs, ZenonT(60)
  <1> HIDE DEF len, lo, all
  <1>5. m \in Nat /\ lo < m /\ m \in 1 .. Len(all)
    BY <1>1, <1>4
  <1>6. Len(v.last) = m - lo /\ Last(v.last) = fed[m]
    <2> HIDE DEF fed, m
    <2>1. Len(Slice(fed, lo, m)) = m - lo /\ Last(Slice(fed, lo, m)) = fed[m]
      BY <1>1, <1>5, SliceIs, Zenon
    <2> QED
      BY <1>3, <2>1
  <1>7. fed[m] # Blur /\ TokenIn(driver, fed[m]) = all[m]
    <2>1. all \in Seq(Vocab)
      BY <1>4
    <2> HIDE DEF m
    <2> QED
      BY <1>5, <2>1, FedTells, Zenon
  <1> HIDE DEF fed
  <1>8. TokenOf(v.last) = all[m]
    BY <1>6, <1>7 DEF TokenOf, TokenIn
  <1> DEFINE seed == IF driver \in Seeded THEN n + 1 ELSE 0
  <1>9. Sampled(v) = Argmax(all[m], m - lo, seed)
    BY <1>6, <1>8 DEF Sampled
  <1>10. Sampled(v) \in Vocab
    <2>1. all[m] \in Vocab
      BY <1>4, <1>5
    <2>2. seed \in 0 .. MaxNew
      BY CaptureAssumption
    <2> HIDE DEF m, seed
    <2> QED
      BY <1>1, <1>9, <2>1, <2>2, CaptureAssumption, ZenonT(60)
  <1>11. PadTok \in Vocab
    BY CaptureAssumption
  <1>12. NextToken(driver, r, out, n + 1)
           = IF \E j \in 1 .. n : out[j] \in EosSet THEN PadTok ELSE Argmax(all[m], m - lo, seed)
    <2>1. (n + 1) - 1 = n /\ len + (n + 1) - 1 = m /\ len - lo + (n + 1) - 1 = m - lo
      BY <1>1
    <2> HIDE DEF m
    <2> QED
      BY <2>1 DEF NextToken, all, len, lo
  <1> HIDE DEF m, seed
  <1>13. Emitted(v) = IF \E j \in 1 .. n : out[j] \in EosSet THEN PadTok ELSE Sampled(v)
    BY <1>3 DEF Emitted
  <1> QED
    BY <1>9, <1>10, <1>11, <1>12, <1>13

-----------------------------------------------------------------------------
(* One pass more.                                                            *)

\* The first n of K columns are those of f, the others are empty.
Filled(K, n, f, empty) == [i \in 1 .. K |-> IF i <= n THEN f[i] ELSE empty]

\* Adding to the first zero column assigns it.
LEMMA ColumnNext ==
  ASSUME NEW K \in Nat, NEW n \in Nat, n < K, NEW f, NEW g, NEW x \in Nat,
         Agree(n, f, g), NEW k, k = n + 1, g[k] = x
  PROVE  AddAt(Filled(K, n, f, 0), k, x) = Filled(K, k, g, 0)
  <1> DEFINE buf == Filled(K, n, f, 0)
  <1>0. /\ buf = [i \in 1 .. K |-> IF i <= n THEN f[i] ELSE 0]
        /\ \A i \in 1 .. n : g[i] = f[i]
    BY DEF Filled, Agree
  <1> HIDE DEF buf
  <1>1. n + 1 \in 1 .. K /\ ~(n + 1 <= n)
    OBVIOUS
  <1>2. buf[n + 1] = 0
    BY <1>0, <1>1
  <1>3. AddAt(buf, n + 1, x) = [buf EXCEPT ![n + 1] = x]
    BY <1>2 DEF AddAt, Sum
  <1>6. DOMAIN buf = 1 .. K
    BY <1>0
  <1>4. \A i \in 1 .. K : /\ i <= n + 1 <=> i <= n \/ i = n + 1
                          /\ i <= n => i \in 1 .. n
    OBVIOUS
  <1>5. \A i \in 1 .. K : [buf EXCEPT ![n + 1] = x][i] = IF i <= n + 1 THEN g[i] ELSE 0
    <2> SUFFICES ASSUME NEW i \in 1 .. K
                 PROVE  [buf EXCEPT ![n + 1] = x][i] = IF i <= n + 1 THEN g[i] ELSE 0
      OBVIOUS
    <2>1. CASE i = n + 1
      BY <1>0, <1>1, <2>1
    <2>2. CASE i # n + 1
      <3>1. [buf EXCEPT ![n + 1] = x][i] = IF i <= n THEN f[i] ELSE 0
        BY <1>0, <2>2
      <3> QED
        BY <1>0, <1>4, <2>2, <3>1
    <2> QED
      BY <2>1, <2>2
  <1> QED
    BY <1>3, <1>5, <1>6 DEF Filled, buf

\* So does adding a log-probability to the first empty one.
LEMMA LogpNext ==
  ASSUME NEW K \in Nat, NEW n \in Nat, n < K, NEW f, NEW g, NEW x,
         Agree(n, f, g), NEW k, k = n + 1, g[k] = x
  PROVE  AddLogp(Filled(K, n, f, <<>>), k, x) = Filled(K, k, g, <<>>)
  <1> DEFINE buf == Filled(K, n, f, <<>>)
  <1>0. /\ buf = [i \in 1 .. K |-> IF i <= n THEN f[i] ELSE <<>>]
        /\ \A i \in 1 .. n : g[i] = f[i]
    BY DEF Filled, Agree
  <1> HIDE DEF buf
  <1>1. n + 1 \in 1 .. K /\ ~(n + 1 <= n)
    OBVIOUS
  <1>2. buf[n + 1] = <<>>
    BY <1>0, <1>1
  <1>3. AddLogp(buf, n + 1, x) = [buf EXCEPT ![n + 1] = x]
    BY <1>2 DEF AddLogp, Sum
  <1>6. DOMAIN buf = 1 .. K
    BY <1>0
  <1>4. \A i \in 1 .. K : /\ i <= n + 1 <=> i <= n \/ i = n + 1
                          /\ i <= n => i \in 1 .. n
    OBVIOUS
  <1>5. \A i \in 1 .. K : [buf EXCEPT ![n + 1] = x][i] = IF i <= n + 1 THEN g[i] ELSE <<>>
    <2> SUFFICES ASSUME NEW i \in 1 .. K
                 PROVE  [buf EXCEPT ![n + 1] = x][i] = IF i <= n + 1 THEN g[i] ELSE <<>>
      OBVIOUS
    <2>1. CASE i = n + 1
      BY <1>0, <1>1, <2>1
    <2>2. CASE i # n + 1
      <3>1. [buf EXCEPT ![n + 1] = x][i] = IF i <= n THEN f[i] ELSE <<>>
        BY <1>0, <2>2
      <3> QED
        BY <1>0, <1>4, <2>2, <3>1
    <2> QED
      BY <2>1, <2>2
  <1> QED
    BY <1>3, <1>5, <1>6 DEF Filled, buf

\* The mask and the log-probabilities of an output.
MaskOf(out, n) == [i \in 1 .. n |-> IF \A j \in 1 .. i - 1 : out[j] \notin EosSet THEN 1 ELSE 0]
LogpOf(r, fed, out, n) ==
  [i \in 1 .. n |-> <<Slice(fed, r.lo, Len(r.toks) + i - 1), out[i]>>]

\* The mask is a buffer of columns of which n are filled.
LEMMA MaskIs ==
  ASSUME NEW v, NEW out, NEW n \in Nat
  PROVE  MaskMirrors(v, out, n) <=>
           v.mask = Filled(MaxNew, n, MaskOf(out, n), 0)
  <1>1. \A i \in 1 .. MaxNew : i <= n => i \in 1 .. n
    OBVIOUS
  <1>2. [i \in 1 .. MaxNew |-> IF i <= n THEN MaskOf(out, n)[i] ELSE 0]
          = [i \in 1 .. MaxNew |->
               IF i <= n /\ \A j \in 1 .. i - 1 : out[j] \notin EosSet THEN 1 ELSE 0]
    BY <1>1 DEF MaskOf
  <1> QED
    BY <1>2 DEF MaskMirrors, Filled

\* Likewise the log-probabilities.
LEMMA LogpIs ==
  ASSUME NEW v, NEW r, NEW fed, NEW out, NEW n \in Nat
  PROVE  LogpMirrors(v, r, fed, out, n) <=>
           v.logp = Filled(MaxNew, n, LogpOf(r, fed, out, n), <<>>)
  <1>1. \A i \in 1 .. MaxNew : i <= n => i \in 1 .. n
    OBVIOUS
  <1>2. [i \in 1 .. MaxNew |-> IF i <= n THEN LogpOf(r, fed, out, n)[i] ELSE <<>>]
          = [i \in 1 .. MaxNew |->
               IF i <= n THEN <<Slice(fed, r.lo, Len(r.toks) + i - 1), out[i]>> ELSE <<>>]
    BY <1>1 DEF LogpOf
  <1> QED
    BY <1>2 DEF LogpMirrors, Filled

\* Whatever is in the row, a step leaves a row.
LEMMA ShapeNext ==
  ASSUME NEW v, NEW w, KvShape(driver, v.kv), StepSays(v, w)
  PROVE  KvShape(driver, w.kv)
  <1> DEFINE c == CellOf(v, FeedOf(v))
  <1>1. w.kv = UpdateStatic(v.kv, v.pos, <<c>>)
    BY DEF StepSays, KvOf
  <1> HIDE DEF c
  <1>2. StaticSays(driver, v.kv, v.pos, c, UpdateStatic(v.kv, v.pos, <<c>>))
    BY StaticWrites
  <1> QED
    BY <1>1, <1>2 DEF StaticSays

\* The buffers after one more pass, if the one before was right and the seed is its own.
LEMMA MirrorsNext ==
  ASSUME NEW v, NEW w, NEW r, RunKnown(driver, r), NEW n \in Nat, n < MaxNew,
         KvShape(driver, v.kv), Mirrors(driver, r, v, n),
         v.seed = (IF driver \in Seeded THEN n + 1 ELSE 0), StepSays(v, w)
  PROVE  Mirrors(driver, r, w, n + 1)
  <1>1. PICK out : IsOut(driver, r, out, n) /\ OutMirrors(driver, r, v, out, n)
    BY DEF Mirrors
  <1> DEFINE len == Len(r.toks)  lo == r.lo  seq == r.toks \o out  m == len + n
             e == Emitted(v)  more == Append(out, e)  seq2 == r.toks \o more
             fed == FedOf(driver, seq)  fed2 == FedOf(driver, seq2)
             C == Columns(driver)
  <1>2. /\ len \in Nat /\ len > 0 /\ lo \in Nat /\ lo < len /\ C \in Nat /\ m < C
        /\ driver # "hybrid" => len = Lp
    BY RunLens
  <1>3. out \in Seq(Vocab) /\ Len(out) = n /\ r.toks \in Seq(Vocab)
    BY <1>1 DEF IsOut, RunKnown
  <1>4. e = NextToken(driver, r, out, n + 1) /\ e \in Vocab
    BY <1>1, EmittedIs
  <1>5. e \in Nat
    BY <1>4, CaptureAssumption
  <1>6. IsOut(driver, r, more, n + 1)
    <2>1. Len(r.toks) > 0
      BY <1>2
    <2>2. NextToken(driver, r, out, n + 1) \in Vocab
      BY <1>4
    <2>3. more = Append(out, NextToken(driver, r, out, n + 1))
      BY <1>4
    <2> HIDE DEF more
    <2> QED
      BY <1>1, <1>3, <2>1, <2>2, <2>3, OutGrows
  <1>7. /\ more \in Seq(Vocab) /\ Len(more) = n + 1 /\ more[n + 1] = e
        /\ \A i \in 1 .. n : more[i] = out[i]
    BY <1>3, <1>4, GrowIs
  <1> HIDE DEF e, more
  <1>8. /\ seq \in Seq(Vocab) /\ Len(seq) = m
        /\ seq2 \in Seq(Vocab) /\ Len(seq2) = len + (n + 1)
        /\ seq2[len + (n + 1)] = e
    <2>1. seq \in Seq(Vocab) /\ Len(seq) = m
      BY <1>3, ConcatIs, ZenonT(60)
    <2>2. /\ seq2 \in Seq(Vocab) /\ Len(seq2) = len + Len(more)
          /\ \A i \in 1 .. Len(more) : seq2[len + i] = more[i]
      <3>1. r.toks \in Seq(Vocab) /\ more \in Seq(Vocab)
        BY <1>3, <1>7
      <3> QED
        BY <3>1, ConcatIs
    <2>3. n + 1 \in 1 .. Len(more)
      BY <1>7
    <2> HIDE DEF seq, seq2, len
    <2> QED
      BY <1>7, <2>1, <2>2, <2>3
  <1>9. \A i \in 1 .. m : seq2[i] = seq[i]
    <2>1. n <= Len(out) /\ n <= Len(more)
      BY <1>3, <1>7
    <2> QED
      BY <1>3, <1>7, <2>1, SeqSame, SMTT(60)
  <1> HIDE DEF len, lo, seq, seq2, C
  <1>10. m \in Nat /\ lo < m /\ len + (n + 1) = m + 1 /\ m + 1 \in Nat
    BY <1>2
  <1> HIDE DEF m
  <1>11. /\ v.pos = m /\ v.base = len /\ v.lo = lo /\ v.last = Slice(fed, lo, m)
         /\ RowMirrors(driver, v.kv, fed, lo, m)
         /\ driver = "hybrid" => v.gdn = GdnRun(GdnNew, seq)[m] /\ EmitMirrors(v, out, n)
         /\ driver # "hybrid" => TokMirrors(v, seq, m, C)
         /\ driver \notin {"decoder", "hybrid"} =>
              MaskMirrors(v, out, n) /\ LogpMirrors(v, r, fed, out, n)
    BY <1>1 DEF OutMirrors, len, lo, m, seq, C
  <1>12. v.finished = (\E j \in 1 .. n : out[j] \in EosSet)
    BY <1>1 DEF OutMirrors
  <1>13. \A i \in 1 .. m : fed2[i] = fed[i]
    <2>1. m <= Len(seq) /\ m <= Len(seq2)
      BY <1>8, <1>10
    <2>2. seq \in Seq(Vocab) /\ seq2 \in Seq(Vocab)
      BY <1>8
    <2> QED
      BY <1>9, <1>10, <2>1, <2>2, FedPrefix, SMTT(60)
  <1>14. /\ driver = "hybrid" => GdnStep(v.gdn, e) = GdnRun(GdnNew, seq2)[m + 1]
         /\ fed2[m + 1] = FeedOf(v)
    <2>1. seq2 \in Seq(Vocab) /\ m + 1 \in 1 .. Len(seq2) /\ (m + 1) - 1 = m /\ seq2[m + 1] = e
      BY <1>8, <1>10
    <2>2. GdnRun(GdnNew, seq2)[m + 1] = GdnStep(GdnRun(GdnNew, seq)[m], e)
      <3>1. Len(seq2) = Len(seq) + 1 /\ \A i \in 1 .. Len(seq) : seq2[i] = seq[i]
        BY <1>8, <1>9, <1>10
      <3>2. GdnRun(GdnNew, seq2)[Len(seq2)]
              = GdnStep(GdnRun(GdnNew, seq)[Len(seq)], seq2[Len(seq2)])
        BY <1>8, <3>1, GdnNext
      <3> QED
        BY <1>8, <1>10, <3>2
    <2>3. fed2[m + 1] = IF driver = "hybrid" THEN <<GdnRun(GdnNew, seq2)[m + 1].state, m>>
                        ELSE <<e, m>>
      <3> DEFINE k == m + 1
      <3>1. seq2 \in Seq(Vocab) /\ k \in 1 .. Len(seq2) /\ k - 1 = m /\ seq2[k] = e
        BY <2>1
      <3> HIDE DEF k
      <3>2. fed2[k] = IF driver = "hybrid" THEN <<GdnRun(GdnNew, seq2)[k].state, k - 1>>
                      ELSE <<seq2[k], k - 1>>
        BY <3>1, FedIs
      <3> QED
        BY <3>1, <3>2 DEF k
    <2> HIDE DEF fed2
    <2> QED
      BY <1>11, <2>2, <2>3 DEF FeedOf, e
  <1> HIDE DEF fed, fed2
  <1> DEFINE c == CellOf(v, FeedOf(v))
  <1>15. c = Slice(fed2, lo, m + 1) /\ RowMirrors(driver, w.kv, fed2, lo, m + 1)
    <2>1. c = CellAt(v.kv, lo, m, fed2[m + 1])
      BY <1>11, <1>14 DEF CellOf
    <2>2. w.kv = UpdateStatic(v.kv, m, <<c>>)
      BY <1>11 DEF StepSays, KvOf
    <2> HIDE DEF c
    <2>3. Columns(driver) \in Nat /\ m < Columns(driver)
      BY <1>2 DEF C
    <2>4. lo \in Nat /\ m \in Nat /\ lo < m
      BY <1>2, <1>10
    <2>5. RowMirrors(driver, v.kv, fed, lo, m)
      BY <1>11
    <2>6. /\ CellAt(v.kv, lo, m, fed2[m + 1]) = Slice(fed2, lo, m + 1)
          /\ RowMirrors(driver, UpdateStatic(v.kv, m, <<Slice(fed2, lo, m + 1)>>), fed2, lo, m + 1)
      <3>1. Agree(m, fed, fed2)
        BY <1>13 DEF Agree
      <3> QED
        BY <2>3, <2>4, <2>5, <3>1, RowNext
    <2> QED
      BY <2>1, <2>2, <2>6
  <1> HIDE DEF c
  <1>16. w.pos = m + 1 /\ w.base = len /\ w.lo = lo /\ w.last = Slice(fed2, lo, m + 1)
    BY <1>11, <1>15 DEF StepSays, c
  <1>17. w.finished = (\E j \in 1 .. n + 1 : more[j] \in EosSet)
    <2>1. w.finished = (v.finished \/ e \in EosSet)
      BY DEF StepSays, e
    <2>2. (\E j \in 1 .. n + 1 : more[j] \in EosSet)
            <=> (\E j \in 1 .. n : out[j] \in EosSet) \/ e \in EosSet
      <3>1. \A j \in 1 .. n + 1 : j \in 1 .. n \/ j = n + 1
        OBVIOUS
      <3>2. \A j \in 1 .. n : j \in 1 .. n + 1
        OBVIOUS
      <3>3. n + 1 \in 1 .. n + 1
        OBVIOUS
      <3> QED
        BY <1>7, <3>1, <3>2, <3>3
    <2> QED
      BY <1>12, <2>1, <2>2, Zenon
  <1>18. driver = "hybrid" => w.gdn = GdnRun(GdnNew, seq2)[m + 1] /\ EmitMirrors(w, more, n + 1)
    <2> SUFFICES ASSUME driver = "hybrid"
                 PROVE  w.gdn = GdnRun(GdnNew, seq2)[m + 1] /\ EmitMirrors(w, more, n + 1)
      OBVIOUS
    <2>1. w.gdn = GdnStep(v.gdn, e) /\ w.emit = AddAt(v.emit, v.pos - v.base + 1, e)
      BY DEF StepSays, e
    <2>2. v.pos - v.base + 1 = n + 1
      BY <1>2, <1>11 DEF m
    <2>3. AddAt(v.emit, n + 1, e) = Filled(MaxNew, n + 1, more, 0)
      <3>1. v.emit = Filled(MaxNew, n, out, 0)
        BY <1>11 DEF EmitMirrors, Filled
      <3>2. MaxNew \in Nat
        BY CaptureAssumption
      <3>3. Agree(n, out, more) /\ more[n + 1] = e
        BY <1>7 DEF Agree
      <3>4. AddAt(Filled(MaxNew, n, out, 0), n + 1, e) = Filled(MaxNew, n + 1, more, 0)
        BY <1>5, <3>2, <3>3, ColumnNext
      <3> QED
        BY <3>1, <3>4
    <2> QED
      BY <1>14, <2>1, <2>2, <2>3 DEF EmitMirrors, Filled
  <1>19. driver # "hybrid" => TokMirrors(w, seq2, m + 1, C)
    <2> SUFFICES ASSUME driver # "hybrid" PROVE TokMirrors(w, seq2, m + 1, C)
      OBVIOUS
    <2>1. w.tok = AddAt(v.tok, m + 1, e)
      BY <1>11 DEF StepSays, e
    <2>2. v.tok = Filled(C, m, seq, 0)
      BY <1>11 DEF TokMirrors, Filled
    <2>3. seq2[m + 1] = e
      BY <1>8, <1>10
    <2>4. Agree(m, seq, seq2) /\ C \in Nat /\ m \in Nat /\ m < C
      BY <1>2, <1>9, <1>10 DEF Agree
    <2>5. AddAt(Filled(C, m, seq, 0), m + 1, e) = Filled(C, m + 1, seq2, 0)
      BY <1>5, <2>3, <2>4, ColumnNext
    <2> QED
      BY <2>1, <2>2, <2>5 DEF TokMirrors, Filled
  <1>20. driver \notin {"decoder", "hybrid"} =>
           MaskMirrors(w, more, n + 1) /\ LogpMirrors(w, r, fed2, more, n + 1)
    <2> SUFFICES ASSUME driver \notin {"decoder", "hybrid"}
                 PROVE  MaskMirrors(w, more, n + 1) /\ LogpMirrors(w, r, fed2, more, n + 1)
      OBVIOUS
    <2>1. v.pos - Lp + 1 = n + 1
      BY <1>2, <1>11 DEF m
    <2>2. /\ w.logp = AddLogp(v.logp, n + 1, <<v.last, e>>)
          /\ w.mask = AddAt(v.mask, n + 1, IF v.finished THEN 0 ELSE 1)
      BY <2>1 DEF StepSays, e
    <2>3. MaxNew \in Nat
      BY CaptureAssumption
    <2>4. MaskMirrors(w, more, n + 1)
      <3> DEFINE f == MaskOf(out, n)  g == MaskOf(more, n + 1)
                 x == IF v.finished THEN 0 ELSE 1
      <3>1. v.mask = Filled(MaxNew, n, f, 0)
        BY <1>11, MaskIs, Zenon
      <3>2. g[n + 1] = x
        <4>1. n + 1 \in 1 .. n + 1 /\ (n + 1) - 1 = n
          OBVIOUS
        <4>2. g[n + 1] = IF \A j \in 1 .. n : more[j] \notin EosSet THEN 1 ELSE 0
          BY <4>1 DEF MaskOf
        <4>3. (\A j \in 1 .. n : more[j] \notin EosSet) <=> ~ \E j \in 1 .. n : out[j] \in EosSet
          BY <1>7
        <4>4. x = IF \E j \in 1 .. n : out[j] \in EosSet THEN 0 ELSE 1
          BY <1>12
        <4> HIDE DEF g, x
        <4> QED
          BY <4>2, <4>3, <4>4
      <3>3. \A i \in 1 .. n : g[i] = f[i]
        <4> SUFFICES ASSUME NEW i \in 1 .. n PROVE g[i] = f[i]
          OBVIOUS
        <4>1. i \in 1 .. n + 1 /\ \A j \in 1 .. i - 1 : j \in 1 .. n
          OBVIOUS
        <4>2. (\A j \in 1 .. i - 1 : more[j] \notin EosSet)
                <=> (\A j \in 1 .. i - 1 : out[j] \notin EosSet)
          BY <1>7, <4>1
        <4> QED
          BY <4>1, <4>2 DEF MaskOf
      <3>4. x \in Nat
        OBVIOUS
      <3> HIDE DEF f, g, x
      <3>5. AddAt(Filled(MaxNew, n, f, 0), n + 1, x) = Filled(MaxNew, n + 1, g, 0)
        <4>1. Agree(n, f, g)
          BY <3>3 DEF Agree
        <4> QED
          BY <2>3, <3>2, <3>4, <4>1, ColumnNext
      <3>6. w.mask = AddAt(Filled(MaxNew, n, f, 0), n + 1, x)
        BY <2>2, <3>1 DEF x
      <3>7. n + 1 \in Nat
        OBVIOUS
      <3> QED
        BY <3>5, <3>6, <3>7, MaskIs, Zenon DEF g
    <2>5. LogpMirrors(w, r, fed2, more, n + 1)
      <3> DEFINE f == LogpOf(r, fed, out, n)  g == LogpOf(r, fed2, more, n + 1)
                 x == <<v.last, e>>
      <3>1. v.logp = Filled(MaxNew, n, f, <<>>)
        BY <1>11, LogpIs, Zenon
      <3>2. ASSUME NEW k \in Nat, k <= m PROVE Slice(fed2, lo, k) = Slice(fed, lo, k)
        <4>1. \A i \in 1 .. k - lo : lo + i \in 1 .. m
          BY <1>2, <1>10, <3>2
        <4> QED
          BY <1>13, <4>1 DEF Slice
      <3>3. g[n + 1] = x
        <4>1. n + 1 \in 1 .. n + 1 /\ len + (n + 1) - 1 = m
          BY <1>2 DEF m
        <4>2. g[n + 1] = <<Slice(fed2, lo, m), more[n + 1]>>
          BY <4>1 DEF LogpOf, lo, len
        <4>3. Slice(fed2, lo, m) = Slice(fed, lo, m)
          BY <1>10, <3>2
        <4> HIDE DEF g
        <4> QED
          BY <1>7, <1>11, <4>2, <4>3
      <3>4. \A i \in 1 .. n : g[i] = f[i]
        <4> SUFFICES ASSUME NEW i \in 1 .. n PROVE g[i] = f[i]
          OBVIOUS
        <4> DEFINE k == len + i - 1
        <4>1. i \in 1 .. n + 1 /\ k \in Nat /\ k <= m
          BY <1>2 DEF m
        <4> HIDE DEF k
        <4>2. Slice(fed2, lo, k) = Slice(fed, lo, k)
          BY <3>2, <4>1
        <4>3. g[i] = <<Slice(fed2, lo, k), more[i]>> /\ f[i] = <<Slice(fed, lo, k), out[i]>>
          BY <4>1 DEF LogpOf, lo, len, k
        <4> HIDE DEF f, g
        <4> QED
          BY <1>7, <4>2, <4>3
      <3> HIDE DEF f, g, x
      <3>5. AddLogp(Filled(MaxNew, n, f, <<>>), n + 1, x) = Filled(MaxNew, n + 1, g, <<>>)
        <4>1. Agree(n, f, g)
          BY <3>4 DEF Agree
        <4> QED
          BY <2>3, <3>3, <4>1, LogpNext
      <3>6. w.logp = AddLogp(Filled(MaxNew, n, f, <<>>), n + 1, x)
        BY <2>2, <3>1 DEF x
      <3>7. n + 1 \in Nat
        OBVIOUS
      <3> QED
        BY <3>5, <3>6, <3>7, LogpIs, Zenon DEF g
    <2> QED
      BY <2>4, <2>5
  <1>21. OutMirrors(driver, r, w, more, n + 1)
    <2>1. len + (n + 1) = m + 1
      BY <1>10
    <2> QED
      BY <1>15, <1>16, <1>17, <1>18, <1>19, <1>20, <2>1, Zenon
      DEF OutMirrors, len, lo, fed2, seq2, C
  <1> QED
    BY <1>6, <1>21 DEF Mirrors

-----------------------------------------------------------------------------
(* A reset and prefill.                                                      *)

\* A prefill leaves every token behind the padding its own context.
LEMMA CellsAre ==
  ASSUME NEW fed, NEW m \in Nat, fed = [i \in 1 .. m |-> fed[i]], NEW lo \in Nat
  PROVE  /\ DOMAIN PrefillCells(fed, lo) = 1 .. m
         /\ \A k \in lo + 1 .. m : PrefillCells(fed, lo)[k] = Slice(fed, lo, k)
  <1>1. DOMAIN fed = 1 .. m
    OBVIOUS
  <1> DEFINE Cell(k) == Context(SubSeq(fed, 1, k), [i \in 1 .. k |-> i > lo])
  <1>2. PrefillCells(fed, lo) = [k \in 1 .. m |-> Cell(k)]
    BY <1>1 DEF PrefillCells
  <1>3. ASSUME NEW k \in lo + 1 .. m PROVE Cell(k) = Slice(fed, lo, k)
    <2> DEFINE s == SubSeq(fed, 1, k)  real == [i \in 1 .. k |-> i > lo]
    <2>1. k \in Nat /\ lo < k /\ k <= m /\ k - lo \in Nat
      OBVIOUS
    <2>2. s = [i \in 1 .. k |-> fed[i]]
      <3>1. 0 \in Nat /\ 0 < k
        BY <2>1
      <3>2. SubSeq(fed, 0 + 1, k) = Slice(fed, 0, k)
        BY <2>1, <3>1, SliceIs
      <3>3. k - 0 = k /\ \A i \in 1 .. k : 0 + i = i
        BY <2>1
      <3> QED
        BY <3>2, <3>3 DEF Slice
    <2> HIDE DEF s
    <2>3. DOMAIN s = 1 .. k /\ Len(s) = k
      BY <2>1, <2>2
    <2> DEFINE n == k - lo
    <2>4. n \in Nat /\ lo + n = k
      BY <2>1
    <2> HIDE DEF n
    <2>5. {j \in DOMAIN s : real[j] \/ j = Len(s)} = lo + 1 .. lo + n
      <3>0. \A j \in 1 .. k : real[j] <=> j > lo
        BY Zenon
      <3>1. \A j \in 1 .. k : (real[j] \/ j = k) <=> j \in lo + 1 .. lo + n
        <4>1. \A j \in 1 .. k : (j > lo \/ j = k) <=> j \in lo + 1 .. lo + n
          BY <2>1, <2>4
        <4> HIDE DEF real
        <4> QED
          BY <3>0, <4>1, Zenon
      <3>2. \A j \in lo + 1 .. lo + n : j \in 1 .. k
        BY <2>1, <2>4
      <3> HIDE DEF real, s
      <3>3. \A j \in DOMAIN s : (real[j] \/ j = Len(s)) <=> j \in lo + 1 .. lo + n
        BY <2>3, <3>1
      <3>4. \A j \in lo + 1 .. lo + n : j \in DOMAIN s
        BY <2>3, <3>2
      <3> QED
        BY <3>3, <3>4
    <2>8. Cell(k) = SubAt(s, lo + 1 .. lo + n)
      BY <2>5 DEF Context, s
    <2>6. SubAt(s, lo + 1 .. lo + n) = [i \in 1 .. n |-> s[lo + i]]
      BY <2>4, SubAtRow, SMTT(60)
    <2>7. \A i \in 1 .. n : s[lo + i] = fed[lo + i]
      BY <2>1, <2>2, <2>4
    <2> HIDE DEF Cell, s
    <2> QED
      BY <2>6, <2>7, <2>8 DEF Slice, n
  <1> HIDE DEF Cell
  <1>4. \A k \in lo + 1 .. m : k \in 1 .. m
    OBVIOUS
  <1> QED
    BY <1>2, <1>3, <1>4

\* What a prefill feeds is what decoding without a cache feeds.
LEMMA FedPromptIs ==
  ASSUME NEW toks \in Seq(Vocab)
  PROVE  FedPrompt(toks) = FedOf(driver, toks)
  <1>1. CASE driver = "hybrid"
    <2> DEFINE F(i) == <<HandedUp(GdnRun(GdnNew, toks)[i]), 0 + i - 1>>
    <2>1. HybridNew(TMax).gdn = GdnNew
      BY DEF HybridNew
    <2>2. Fed(HybridNew(TMax), toks, 0) = <<[i \in DOMAIN toks |-> F(i)]>>
      BY <2>1 DEF Fed
    <2>3. \A i \in DOMAIN toks : F(i) = <<GdnRun(GdnNew, toks)[i].state, i - 1>>
      BY DEF HandedUp
    <2> HIDE DEF F
    <2>4. FedPrompt(toks) = [i \in DOMAIN toks |-> F(i)]
      BY <1>1, <2>2 DEF FedPrompt
    <2> QED
      BY <1>1, <2>3, <2>4 DEF FedOf
  <1>2. CASE driver # "hybrid"
    BY <1>2 DEF FedPrompt, FedOf
  <1> QED
    BY <1>1, <1>2

\* The prompt in front of columns that are free.
LEMMA PromptColumns ==
  ASSUME NEW p \in Seq(Vocab)
  PROVE  p \o Zeros(MaxNew) = Filled(Len(p) + MaxNew, Len(p), p, 0)
  <1> DEFINE z == Zeros(MaxNew)  len == Len(p)
  <1>1. MaxNew \in Nat /\ len \in Nat
    BY CaptureAssumption
  <1>2. z \in Seq(Nat) /\ Len(z) = MaxNew /\ \A i \in 1 .. MaxNew : z[i] = 0
    BY <1>1 DEF Zeros
  <1> HIDE DEF z
  <1>3. p \in Seq(Nat)
    <2>1. \A i \in 1 .. Len(p) : p[i] \in Vocab
      OBVIOUS
    <2>2. Vocab \subseteq Nat
      BY CaptureAssumption
    <2>3. \A i \in 1 .. Len(p) : p[i] \in Nat
      BY <2>1, <2>2
    <2> QED
      BY <2>3
  <1> DEFINE s == p \o z
  <1>4. /\ s \in Seq(Nat) /\ Len(s) = len + MaxNew
        /\ \A i \in 1 .. len : s[i] = p[i]
        /\ \A i \in 1 .. MaxNew : s[len + i] = z[i]
    <2>1. /\ s \in Seq(Nat) /\ Len(s) = Len(p) + Len(z)
          /\ \A i \in 1 .. Len(p) : s[i] = p[i]
          /\ \A i \in 1 .. Len(z) : s[Len(p) + i] = z[i]
      <3>1. z \in Seq(Nat)
        BY <1>2
      <3> QED
        BY <1>3, <3>1, ConcatIs
    <2> HIDE DEF s
    <2> QED
      BY <1>2, <2>1
  <1> HIDE DEF s, len
  <1>5. s = [i \in 1 .. len + MaxNew |-> s[i]]
    BY <1>4
  <1>6. \A i \in 1 .. len + MaxNew : s[i] = IF i <= len THEN p[i] ELSE 0
    <2> SUFFICES ASSUME NEW i \in 1 .. len + MaxNew
                 PROVE  s[i] = IF i <= len THEN p[i] ELSE 0
      OBVIOUS
    <2>1. CASE i <= len
      BY <1>1, <1>4, <2>1
    <2>2. CASE i > len
      <3> DEFINE j == i - len
      <3>1. j \in 1 .. MaxNew /\ i = len + j /\ ~(i <= len)
        BY <1>1, <2>2
      <3> HIDE DEF j
      <3> QED
        BY <1>2, <1>4, <3>1
    <2> QED
      BY <1>1, <2>1, <2>2
  <1> QED
    BY <1>5, <1>6 DEF Filled, s, z, len

\* What a reset writes, buffer by buffer.
ResetSays(v, r, w) ==
  LET len == Len(r.toks)  cells == PrefillCells(FedPrompt(r.toks), r.lo) IN
  /\ w.kv = Update(Cleared(v.kv), <<cells>>) /\ w.last = Last(cells)
  /\ w.gdn = GdnRun(GdnNew, r.toks)[len]
  /\ w.tok = (IF driver = "hybrid" THEN <<0>> ELSE r.toks \o Zeros(MaxNew))
  /\ w.emit = Zeros(MaxNew) /\ w.mask = Zeros(MaxNew)
  /\ w.logp = [i \in 1 .. MaxNew |-> <<>>]
  /\ w.finished = FALSE
  /\ w.pos = len /\ w.base = len /\ w.lo = r.lo

\* The assignments of a reset reach the buffers, the seeds aside.
LEMMA ResetIs ==
  ASSUME NEW v, v = [b \in Buf |-> v[b]], NEW r, NEW w,
         \A b \in Buf \ {"seed"} : w[b] = ResetAndPrefill(v, r)[b]
  PROVE  ResetSays(v, r, w)
  <1> DEFINE len == Len(r.toks)  cells == PrefillCells(FedPrompt(r.toks), r.lo)
             kv == Update(Cleared(v.kv), <<cells>>)  gdn == GdnRun(GdnNew, r.toks)[len]
             tok == IF driver = "hybrid" THEN <<0>> ELSE r.toks \o Zeros(MaxNew)
             z == Zeros(MaxNew)  lg == [i \in 1 .. MaxNew |-> <<>>]  last == Last(cells)
             new == ResetAndPrefill(v, r)
  <1>1. /\ "kv" \in Buf /\ "last" \in Buf /\ "pos" \in Buf /\ "finished" \in Buf
        /\ "tok" \in Buf /\ "emit" \in Buf /\ "logp" \in Buf /\ "mask" \in Buf
        /\ "gdn" \in Buf /\ "base" \in Buf /\ "lo" \in Buf /\ "seed" \in Buf
    BY BufferPlaces
  <1>2. new = [v EXCEPT !.kv = Update(Cleared(@), <<cells>>), !.last = last, !.gdn = gdn,
                        !.tok = tok, !.emit = z, !.mask = z, !.logp = lg, !.finished = FALSE,
                        !.pos = len, !.base = len, !.lo = r.lo, !.seed = 0]
    BY DEF ResetAndPrefill
  <1> HIDE DEF new
  <1>3. new = [v EXCEPT !.kv = kv, !.last = last, !.gdn = gdn,
                        !.tok = tok, !.emit = z, !.mask = z, !.logp = lg, !.finished = FALSE,
                        !.pos = len, !.base = len, !.lo = r.lo, !.seed = 0]
    BY <1>1, <1>2
  <1> HIDE DEF kv, last, gdn, tok, z, lg, len
  <1>4. /\ new.kv = kv /\ new.last = last /\ new.gdn = gdn /\ new.tok = tok /\ new.emit = z
        /\ new.mask = z /\ new.logp = lg /\ new.finished = FALSE /\ new.pos = len
        /\ new.base = len /\ new.lo = r.lo
    BY <1>1, <1>3
  <1>5. /\ w.kv = new.kv /\ w.last = new.last /\ w.gdn = new.gdn /\ w.tok = new.tok
        /\ w.emit = new.emit /\ w.mask = new.mask /\ w.logp = new.logp
        /\ w.finished = new.finished /\ w.pos = new.pos /\ w.base = new.base /\ w.lo = new.lo
    BY <1>1 DEF new
  <1> QED
    BY <1>4, <1>5, Zenon DEF ResetSays, kv, last, gdn, tok, z, lg, len

\* Right after a reset the buffers are what the prompt alone makes of them.
LEMMA ResetMirrors ==
  ASSUME NEW v, NEW r, RunKnown(driver, r), KvShape(driver, v.kv), NEW w, ResetSays(v, r, w)
  PROVE  KvShape(driver, w.kv) /\ Mirrors(driver, r, w, 0)
  <1> DEFINE len == Len(r.toks)  lo == r.lo  fed == FedOf(driver, r.toks)
             cells == PrefillCells(fed, lo)  C == Columns(driver)
             out == <<>>  seq == r.toks \o out
  <1>0. 0 \in Nat /\ 0 < MaxNew /\ MaxNew \in Nat
    BY CaptureAssumption
  <1>1. /\ len \in Nat /\ len > 0 /\ lo \in Nat /\ lo < len /\ C \in Nat /\ len + 0 < C
        /\ driver # "hybrid" => len = Lp
    BY <1>0, RunLens
  <1>2. r.toks \in Seq(Vocab)
    BY DEF RunKnown
  <1>3. seq = r.toks
    BY <1>2
  <1>4. fed = [i \in 1 .. len |-> fed[i]]
    BY <1>2, FedIs
  <1>5. /\ w.kv = Update(Cleared(v.kv), <<cells>>) /\ w.last = Last(cells)
        /\ w.gdn = GdnRun(GdnNew, r.toks)[len]
        /\ w.tok = (IF driver = "hybrid" THEN <<0>> ELSE r.toks \o Zeros(MaxNew))
        /\ w.emit = Zeros(MaxNew) /\ w.mask = Zeros(MaxNew)
        /\ w.logp = [i \in 1 .. MaxNew |-> <<>>]
        /\ w.finished = FALSE
        /\ w.pos = len /\ w.base = len /\ w.lo = lo
    BY <1>2, FedPromptIs DEF ResetSays
  <1> HIDE DEF len, lo, fed, C, seq
  <1>6. DOMAIN cells = 1 .. len /\ \A k \in lo + 1 .. len : cells[k] = Slice(fed, lo, k)
    BY <1>1, <1>4, CellsAre
  <1> HIDE DEF cells
  <1>7. cells = [i \in 1 .. len |-> cells[i]]
    <2>1. cells = [i \in DOMAIN cells |-> cells[i]]
      BY DEF cells, PrefillCells
    <2> QED
      BY <1>6, <2>1
  <1>8. w.last = Slice(fed, lo, len)
    <2>1. Last(cells) = cells[len]
      BY <1>1, <1>7, LastIs
    <2>2. len \in lo + 1 .. len
      BY <1>1
    <2> QED
      BY <1>5, <1>6, <2>1, <2>2
  <1> DEFINE kv == w.kv
  <1>9. /\ KvShape(driver, kv) /\ kv.rows = [i \in {1} |-> kv.rows[1]]
        /\ kv.rows[1] = [col \in 1 .. C |-> IF col \in DOMAIN cells THEN cells[col] ELSE Zero]
    <2>1. PrefillSays(driver, cells, Update(Cleared(v.kv), <<cells>>))
      BY PrefillWrites
    <2> QED
      BY <1>5, <2>1 DEF PrefillSays, C
  <1>10. RowMirrors(driver, kv, fed, lo, len)
    <2> DEFINE row == kv.rows[1]
    <2>1. row = [col \in 1 .. C |-> IF col \in 1 .. len THEN cells[col] ELSE Zero]
      BY <1>6, <1>9
    <2>2. kv.rows = [i \in {1} |-> row]
      BY <1>9
    <2> HIDE DEF kv, row
    <2>3. row = [i \in 1 .. C |-> row[i]]
      BY <2>1
    <2>4. ASSUME NEW i \in lo + 1 .. len PROVE Last(row[i]) = fed[i]
      <3>1. i \in 1 .. C /\ i \in 1 .. len /\ i \in Nat /\ lo < i
        BY <1>1
      <3>2. row[i] = Slice(fed, lo, i)
        BY <1>6, <2>1, <3>1
      <3>3. Last(Slice(fed, lo, i)) = fed[i]
        BY <1>1, <3>1, SliceIs
      <3> QED
        BY <3>2, <3>3
    <2>5. \A i \in len + 1 .. C : row[i] = Zero
      <3>1. \A i \in len + 1 .. C : i \in 1 .. C /\ i \notin 1 .. len
        BY <1>1
      <3> QED
        BY <2>1, <3>1
    <2> QED
      BY <2>2, <2>3, <2>4, <2>5 DEF RowMirrors, C, row
  <1> HIDE DEF kv
  <1>11. IsOut(driver, r, out, 0)
    BY DEF IsOut
  <1> HIDE DEF out
  <1>12. w.finished = (\E j \in 1 .. 0 : out[j] \in EosSet)
    <2>1. ~ \E j \in 1 .. 0 : out[j] \in EosSet
      OBVIOUS
    <2> QED
      BY <1>5, <2>1
  <1>13. EmitMirrors(w, out, 0)
    <2>1. \A i \in 1 .. MaxNew : ~(i <= 0)
      OBVIOUS
    <2> QED
      BY <1>5, <2>1 DEF EmitMirrors, Zeros
  <1>14. driver # "hybrid" => TokMirrors(w, seq, len, C)
    <2> SUFFICES ASSUME driver # "hybrid" PROVE TokMirrors(w, seq, len, C)
      OBVIOUS
    <2>1. C = len + MaxNew
      BY <1>1 DEF C, Columns
    <2>2. w.tok = Filled(len + MaxNew, len, r.toks, 0)
      BY <1>2, <1>5, PromptColumns DEF len
    <2> QED
      BY <1>3, <2>1, <2>2 DEF TokMirrors, Filled
  <1>15. MaskMirrors(w, out, 0)
    <2>1. \A i \in 1 .. MaxNew : ~(i <= 0)
      OBVIOUS
    <2> QED
      BY <1>5, <2>1 DEF MaskMirrors, Zeros
  <1>16. LogpMirrors(w, r, fed, out, 0)
    <2>1. \A i \in 1 .. MaxNew : ~(i <= 0)
      OBVIOUS
    <2>2. w.logp = [i \in 1 .. MaxNew |->
              IF i <= 0 THEN <<Slice(fed, r.lo, Len(r.toks) + i - 1), out[i]>> ELSE <<>>]
      BY <1>5, <2>1
    <2> QED
      BY <2>2 DEF LogpMirrors
  <1>17. OutMirrors(driver, r, w, out, 0)
    <2>1. len + 0 = len
      BY <1>1
    <2>2. fed = FedOf(driver, seq)
      BY <1>3 DEF fed
    <2>3. w.gdn = GdnRun(GdnNew, seq)[len]
      BY <1>3, <1>5
    <2> DEFINE P == /\ w.pos = len /\ w.base = len /\ w.lo = lo
                    /\ w.last = Slice(fed, lo, len)
                    /\ w.finished = (\E j \in 1 .. 0 : out[j] \in EosSet)
                    /\ RowMirrors(driver, w.kv, fed, lo, len)
                    /\ driver = "hybrid" =>
                         w.gdn = GdnRun(GdnNew, seq)[len] /\ EmitMirrors(w, out, 0)
                    /\ driver # "hybrid" => TokMirrors(w, seq, len, C)
                    /\ driver \notin {"decoder", "hybrid"} =>
                         MaskMirrors(w, out, 0) /\ LogpMirrors(w, r, fed, out, 0)
    <2>4. P
      BY <1>5, <1>8, <1>10, <1>12, <1>13, <1>14, <1>15, <1>16, <2>3, Zenon DEF kv
    <2>5. OutMirrors(driver, r, w, out, 0) <=> P
      BY <2>1, <2>2 DEF OutMirrors, len, lo, seq, C
    <2> QED
      BY <2>4, <2>5
  <1> QED
    BY <1>9, <1>11, <1>17 DEF Mirrors, kv

-----------------------------------------------------------------------------
(* The passes of one call.                                                   *)

\* The other buffers do not tell seeds apart.
LEMMA MirrorsSeed ==
  ASSUME NEW d, NEW r, NEW v, NEW w, NEW n, Mirrors(d, r, v, n),
         \A b \in Buf : b # "seed" => w[b] = v[b]
  PROVE  Mirrors(d, r, w, n)
  <1>1. PICK out : IsOut(d, r, out, n) /\ OutMirrors(d, r, v, out, n)
    BY DEF Mirrors
  <1>2. /\ w.kv = v.kv /\ w.last = v.last /\ w.gdn = v.gdn /\ w.tok = v.tok
        /\ w.emit = v.emit /\ w.mask = v.mask /\ w.logp = v.logp
        /\ w.pos = v.pos /\ w.base = v.base /\ w.lo = v.lo
    BY BufferPlaces
  <1>3. w.finished = v.finished
    BY BufferPlaces
  <1> DEFINE fed == FedOf(d, r.toks \o out)  cols == Columns(d)
  <1>4. /\ EmitMirrors(w, out, n) <=> EmitMirrors(v, out, n)
        /\ \A m, s : TokMirrors(w, s, m, cols) <=> TokMirrors(v, s, m, cols)
        /\ MaskMirrors(w, out, n) <=> MaskMirrors(v, out, n)
    BY <1>2 DEF EmitMirrors, TokMirrors, MaskMirrors
  <1>5. LogpMirrors(w, r, fed, out, n) <=> LogpMirrors(v, r, fed, out, n)
    BY <1>2 DEF LogpMirrors
  <1> HIDE DEF fed, cols
  <1>6. OutMirrors(d, r, w, out, n)
    BY <1>1, <1>2, <1>3, <1>4, <1>5, Zenon DEF OutMirrors, fed, cols
  <1> QED
    BY <1>1, <1>6 DEF Mirrors

\* What the buffers keep whatever they are used for: one row of columns, and the seed of a
\* driver without one.
Kept(g) == KvShape(driver, g.kv) /\ (driver \notin Seeded => g.seed = 0)

\* The buffers hold, where the graph has them, what they should n passes after the prefill of
\* r, if live.
Holds(d, r, n, live) == \E g : Tells(d, g) /\ Kept(g) /\ (live => Mirrors(driver, r, g, n))

\* The outputs that are elsewhere are as they were.
SameElsewhere(d, e) ==
  /\ e.at = d.at
  /\ \A b \in Buf : ~Stays(d, b) => e.mem[b][e.at[b]] = d.mem[b][d.at[b]]

\* A step leaves a row of columns and the seed.
LEMMA SteppedKept ==
  ASSUME NEW g, g = [b \in Buf |-> g[b]], Kept(g)
  PROVE  StepSays(g, Stepped(g)) /\ Kept(Stepped(g))
  <1>1. StepSays(g, Stepped(g))
    BY StepIs DEF Stepped
  <1>2. KvShape(driver, Stepped(g).kv)
    BY <1>1, ShapeNext DEF Kept
  <1>3. Stepped(g).seed = g.seed
    BY BufferPlaces DEF Stepped, StepWrites
  <1> QED
    BY <1>1, <1>2, <1>3 DEF Kept

\* The seeds that the host writes are those of the column.
LEMMA ReseededIs ==
  ASSUME NEW g, g = [b \in Buf |-> g[b]], Kept(g), NEW i
  PROVE  /\ Reseeded(g, i) = [b \in Buf |-> Reseeded(g, i)[b]]
         /\ Kept(Reseeded(g, i))
         /\ Reseeded(g, i).seed = IF driver \in Seeded THEN steps + i ELSE 0
         /\ \A b \in Buf : b # "seed" => Reseeded(g, i)[b] = g[b]
  <1>1. CASE driver \notin Seeded
    BY <1>1 DEF Reseeded, Kept
  <1>2. CASE driver \in Seeded
    <2> DEFINE h == Reseeded(g, i)  x == steps + i
    <2>1. h = [g EXCEPT !["seed"] = x] /\ "seed" \in Buf /\ "kv" \in Buf
      BY <1>2, BufferPlaces DEF Reseeded
    <2> HIDE DEF h, x
    <2>2. h = [b \in Buf |-> h[b]] /\ h["seed"] = x /\ \A b \in Buf : b # "seed" => h[b] = g[b]
      BY <2>1
    <2>3. h.kv = g.kv
      BY <2>1, <2>2
    <2> QED
      BY <1>2, <2>2, <2>3 DEF Kept, h, x
  <1> QED
    BY <1>1, <1>2

\* A call of n passes, from buffers that are as they should be.
LEMMA PassesMirror ==
  ASSUME Placed(dev), driver # "bucket" => held = {}, RunKnown(driver, run), steps \in Nat,
         ~dev.wild, Holds(dev, run, steps, steps <= MaxNew), NEW n \in Nat
  PROVE  /\ SameElsewhere(dev, Passes(n))
         /\ ~Passes(n).wild => Holds(Passes(n), run, steps + n, steps + n <= MaxNew)
  <1>1. PICK after : /\ after[0] = dev /\ Passes(n) = after[n]
                     /\ \A i \in 1 .. n : after[i] = Pass(Seed(after[i - 1], i))
    BY PassesAre
  <1> DEFINE Good(i) ==
               /\ Placed(after[i]) /\ SameElsewhere(dev, after[i])
               /\ ~after[i].wild => Holds(after[i], run, steps + i, steps + i <= MaxNew)
             T == {i \in 0 .. n : Good(i)}
  <1>2. 0 \in T
    <2>1. steps + 0 = steps /\ SameElsewhere(dev, dev)
      BY DEF SameElsewhere
    <2> QED
      BY <1>1, <2>1
  <1>3. ASSUME NEW i \in 0 .. n - 1, i \in T PROVE i + 1 \in T
    <2> DEFINE j == i + 1  x == after[i]  d == Seed(x, j)  p == after[j]  k == steps + i
    <2>1. p = Pass(d)
      <3>1. i + 1 \in 1 .. n /\ (i + 1) - 1 = i
        OBVIOUS
      <3> QED
        BY <1>1, <3>1
    <2>2. Placed(x) /\ SameElsewhere(dev, x) /\ (~x.wild => Holds(x, run, k, k <= MaxNew))
      BY <1>3
    <2>3. j \in 0 .. n /\ k \in Nat /\ steps + j = k + 1 /\ MaxNew \in Nat
      BY CaptureAssumption
    <2>4. d = Seed(x, j) /\ k + 1 = steps + j
      BY <2>3
    <2> HIDE DEF x, d, p, j, k
    <2>5. ASSUME NEW g, Tells(x, g)
          PROVE  /\ PassLeaves(d, Reseeded(g, j), p) /\ d.at = x.at /\ d.wild = x.wild
                 /\ \A b \in Buf : ~Stays(x, b) => d.mem[b][x.at[b]] = x.mem[b][x.at[b]]
      BY <2>1, <2>2, <2>4, <2>5, PassLeavesIt
    <2>6. Placed(p) /\ SameElsewhere(dev, p)
      <3>1. Tells(x, Val(x))
        BY <2>2, ValTells DEF Placed
      <3>2. /\ PassLeaves(d, Reseeded(Val(x), j), p) /\ d.at = x.at
            /\ \A b \in Buf : ~Stays(x, b) => d.mem[b][x.at[b]] = x.mem[b][x.at[b]]
        BY <2>5, <3>1
      <3>3. /\ Placed(p) /\ p.at = x.at
            /\ \A b \in Buf : ~Stays(x, b) => p.mem[b][p.at[b]] = x.mem[b][x.at[b]]
        BY <3>2 DEF PassLeaves, Stays
      <3> QED
        BY <2>2, <3>3 DEF SameElsewhere, Stays
    <2>7. ASSUME ~p.wild PROVE Holds(p, run, k + 1, k + 1 <= MaxNew)
      <3>1. ~x.wild
        <4>1. Tells(x, Val(x))
          BY <2>2, ValTells DEF Placed
        <4>2. PassLeaves(d, Reseeded(Val(x), j), p) /\ d.wild = x.wild
          BY <2>5, <4>1
        <4> QED
          BY <2>7, <4>2 DEF PassLeaves
      <3>2. PICK g : Tells(x, g) /\ Kept(g) /\ (k <= MaxNew => Mirrors(driver, run, g, k))
        BY <2>2, <3>1 DEF Holds
      <3> DEFINE h == Reseeded(g, j)
      <3>3. PassLeaves(d, h, p)
        BY <2>5, <3>2
      <3>4. g = [b \in Buf |-> g[b]]
        BY <3>2 DEF Tells
      <3>5. /\ h = [b \in Buf |-> h[b]] /\ Kept(h)
            /\ h.seed = IF driver \in Seeded THEN k + 1 ELSE 0
            /\ \A b \in Buf : b # "seed" => h[b] = g[b]
        BY <2>4, <3>2, <3>4, ReseededIs
      <3> HIDE DEF h
      <3>6. Tells(p, Stepped(h))
        BY <2>7, <3>3 DEF PassLeaves
      <3>7. StepSays(h, Stepped(h)) /\ Kept(Stepped(h))
        BY <3>5, SteppedKept
      <3>8. ASSUME k + 1 <= MaxNew PROVE Mirrors(driver, run, Stepped(h), k + 1)
        <4>1. k < MaxNew /\ k <= MaxNew
          BY <2>3, <3>8
        <4>2. Mirrors(driver, run, h, k)
          BY <3>2, <3>5, <4>1, MirrorsSeed
        <4>3. KvShape(driver, h.kv)
          BY <3>5 DEF Kept
        <4> QED
          BY <2>3, <3>5, <3>7, <4>1, <4>2, <4>3, MirrorsNext
      <3> QED
        BY <3>6, <3>7, <3>8 DEF Holds
    <2>8. Good(j) /\ j \in 0 .. n
      BY <2>3, <2>4, <2>6, <2>7 DEF p
    <2> QED
      BY <2>8 DEF j
  <1> HIDE DEF T
  <1>4. n \in T
    BY <1>2, <1>3, UpToInduction
  <1> QED
    BY <1>1, <1>4 DEF T
-----------------------------------------------------------------------------
(* What the host reads.                                                      *)

\* The first m tokens.
LEMMA FrontIs ==
  ASSUME NEW S, NEW s \in Seq(S), NEW m \in 0 .. Len(s)
  PROVE  /\ SubSeq(s, 1, m) \in Seq(S) /\ Len(SubSeq(s, 1, m)) = m
         /\ \A i \in 1 .. m : SubSeq(s, 1, m)[i] = s[i]
  OBVIOUS

\* The tokens in the buffers are those that decoding without graph and cache draws.
LEMMA CompletionIs ==
  ASSUME NEW n \in Nat, RunKnown(driver, run), NEW out, IsOut(driver, run, out, n)
  PROVE  Completion(n) = out
  <1> DEFINE len == Len(run.toks)  Start == len - run.lo
             Ended(s) == \E j \in DOMAIN s : s[j] \in EosSet
             Grown(s, i) == Append(s, IF Ended(s) THEN PadTok
                                      ELSE Argmax(Last(run.toks \o s), Start + i - 1,
                                                  IF driver \in Seeded THEN i ELSE 0))
             Fold(f) == [i \in 0 .. n |-> IF i = 0 THEN <<>> ELSE Grown(f[i - 1], i)]
             Pre(i) == SubSeq(out, 1, i)
             pre == [i \in 0 .. n |-> Pre(i)]
             drawn == CHOOSE f : f = Fold(f)
  <1>1. Completion(n) = drawn[n]
    BY DEF Completion
  <1>2. /\ out \in Seq(Vocab) /\ Len(out) = n
        /\ \A i \in 1 .. n : out[i] = NextToken(driver, run, out, i)
    BY DEF IsOut
  <1>3. run.toks \in Seq(Vocab) /\ len \in Nat /\ len > 0
    BY DEF RunKnown
  <1>4. \A i \in 0 .. n : /\ Pre(i) \in Seq(Vocab) /\ Len(Pre(i)) = i
                         /\ \A j \in 1 .. i : Pre(i)[j] = out[j]
    BY <1>2, FrontIs
  <1>5. Pre(0) = <<>>
    <2>1. Pre(0) \in Seq(Vocab) /\ Len(Pre(0)) = 0
      BY <1>4
    <2> HIDE DEF Pre
    <2> QED
      BY <2>1
  <1>6. Pre(n) = out
    <2>1. /\ Pre(n) \in Seq(Vocab) /\ Len(Pre(n)) = n
          /\ \A j \in 1 .. n : Pre(n)[j] = out[j]
      BY <1>4
    <2> HIDE DEF Pre
    <2> QED
      BY <1>2, <2>1
  <1> HIDE DEF Pre
  <1>7. ASSUME NEW i \in 1 .. n PROVE Pre(i) = Grown(Pre(i - 1), i)
    <2> DEFINE k == i - 1  s == Pre(k)  e == out[i]
    <2>1. k \in 0 .. n /\ i = k + 1 /\ k \in Nat /\ i \in 0 .. n
      OBVIOUS
    <2>2. s \in Seq(Vocab) /\ Len(s) = k /\ \A j \in 1 .. k : s[j] = out[j]
      BY <1>4, <2>1
    <2>3. /\ Pre(i) \in Seq(Vocab) /\ Len(Pre(i)) = i
          /\ \A j \in 1 .. i : Pre(i)[j] = out[j]
      BY <1>4, <2>1
    <2>4. e \in Vocab /\ e = NextToken(driver, run, out, i)
      BY <1>2
    <2> HIDE DEF k, s, e
    <2>5. Pre(i) = Append(s, e)
      <3> DEFINE t == Append(s, e)
      <3>1. /\ t \in Seq(Vocab) /\ Len(t) = k + 1 /\ t[k + 1] = e
            /\ \A j \in 1 .. k : t[j] = s[j]
        BY <2>2, <2>4, GrowIs
      <3> HIDE DEF t
      <3>2. \A j \in 1 .. i : Pre(i)[j] = t[j]
        <4>1. \A j \in 1 .. i : j \in 1 .. k \/ j = i
          BY <2>1
        <4> QED
          BY <2>1, <2>2, <2>3, <3>1, <4>1 DEF e
      <3>3. Pre(i) = t
        BY <2>1, <2>3, <3>1, <3>2
      <3> QED
        BY <3>3 DEF t
    <2>6. Ended(s) <=> \E j \in 1 .. i - 1 : out[j] \in EosSet
      <3>1. DOMAIN s = 1 .. k
        BY <2>2
      <3>2. i - 1 = k
        BY <2>1
      <3> QED
        BY <2>2, <3>1, <3>2
    <2>7. Last(run.toks \o s) = (run.toks \o out)[len + i - 1]
      <3> DEFINE q == run.toks \o s  m == len + k
      <3>1. q \in Seq(Vocab) /\ Len(q) = m
        BY <1>3, <2>2, ConcatIs, ZenonT(60)
      <3>2. \A x \in 1 .. len + k : q[x] = (run.toks \o out)[x]
        <4>1. k <= Len(s) /\ k <= Len(out) /\ k \in Nat
          BY <1>2, <2>1, <2>2
        <4> QED
          BY <1>2, <1>3, <2>2, <4>1, SeqSame
      <3>3. m \in 1 .. len + k /\ len + i - 1 = m
        BY <1>3, <2>1
      <3> HIDE DEF q, m
      <3>4. Last(q) = q[m]
        BY <3>1 DEF Last
      <3> QED
        BY <3>2, <3>3, <3>4 DEF q
    <2> HIDE DEF Ended
    <2>8. e = IF Ended(s) THEN PadTok
              ELSE Argmax(Last(run.toks \o s), Start + i - 1, IF driver \in Seeded THEN i ELSE 0)
      BY <2>4, <2>6, <2>7 DEF NextToken
    <2> QED
      BY <2>5, <2>8 DEF s, k
  <1> HIDE DEF Grown
  <1>8. pre = Fold(pre)
    <2>1. ASSUME NEW i \in 0 .. n PROVE pre[i] = IF i = 0 THEN <<>> ELSE Grown(pre[i - 1], i)
      <3>1. CASE i = 0
        BY <1>5, <3>1
      <3>2. CASE i # 0
        <4>1. i \in 1 .. n /\ i - 1 \in 0 .. n
          BY <3>2
        <4> QED
          BY <1>7, <3>2, <4>1
      <3> QED
        BY <3>1, <3>2
    <2> QED
      BY <2>1
  <1>9. drawn = Fold(drawn)
    BY <1>8
  <1> HIDE DEF drawn
  <1>10. drawn[0] = <<>>
    BY <1>9
  <1>11. \A i \in 1 .. n : drawn[i] = Grown(drawn[i - 1], i)
    BY <1>9
  <1> DEFINE T == {i \in 0 .. n : drawn[i] = Pre(i)}
  <1>12. 0 \in T
    BY <1>5, <1>10
  <1>13. ASSUME NEW i \in 0 .. n - 1, i \in T PROVE i + 1 \in T
    <2>1. i + 1 \in 1 .. n /\ (i + 1) - 1 = i /\ i + 1 \in 0 .. n
      OBVIOUS
    <2>2. drawn[i + 1] = Grown(drawn[i], i + 1) /\ Pre(i + 1) = Grown(Pre(i), i + 1)
      BY <1>7, <1>11, <2>1
    <2> QED
      BY <1>13, <2>1, <2>2
  <1> HIDE DEF T
  <1>14. \A i \in 0 .. n : i \in T
    BY <1>12, <1>13, UpToInduction
  <1>15. n \in 0 .. n
    OBVIOUS
  <1> QED
    BY <1>1, <1>6, <1>14, <1>15 DEF T

\* The context of the token behind a sequence.
LEMMA ContextIs ==
  ASSUME NEW seq \in Seq(Vocab), run.lo \in Nat, run.lo < Len(seq)
  PROVE  ContextOf(seq) = Slice(FedOf(driver, seq), run.lo, Len(seq))
  <1> DEFINE fed == FedOf(driver, seq)  m == Len(seq)  lo == run.lo
  <1>1. m \in Nat
    OBVIOUS
  <1>2. ContextOf(seq) = SubSeq(fed, lo + 1, m)
    BY DEF ContextOf, FedOf
  <1> HIDE DEF fed, m
  <1> QED
    BY <1>1, <1>2, SliceIs DEF fed, m

\* The tokens behind the prompt are the output and free columns.
LEMMA OutColumns ==
  ASSUME NEW out \in Seq(Vocab), NEW n \in Nat, Len(out) = n, n <= MaxNew
  PROVE  out \o Zeros(MaxNew - n) = [i \in 1 .. MaxNew |-> IF i <= n THEN out[i] ELSE 0]
  <1> DEFINE k == MaxNew - n  z == Zeros(k)  s == out \o z
  <1>1. MaxNew \in Nat /\ k \in Nat /\ n + k = MaxNew
    BY CaptureAssumption
  <1> HIDE DEF k
  <1>2. z \in Seq(Nat) /\ Len(z) = k /\ \A i \in 1 .. k : z[i] = 0
    BY <1>1 DEF Zeros
  <1> HIDE DEF z
  <1>3. out \in Seq(Nat)
    <2>1. \A i \in 1 .. Len(out) : out[i] \in Vocab
      OBVIOUS
    <2>2. Vocab \subseteq Nat
      BY CaptureAssumption
    <2>3. \A i \in 1 .. Len(out) : out[i] \in Nat
      BY <2>1, <2>2
    <2> QED
      BY <2>3
  <1>4. /\ s \in Seq(Nat) /\ Len(s) = Len(out) + Len(z)
        /\ \A i \in 1 .. Len(out) : s[i] = out[i]
        /\ \A i \in 1 .. Len(z) : s[Len(out) + i] = z[i]
    <2>1. z \in Seq(Nat)
      BY <1>2
    <2>2. s \in Seq(Nat) /\ Len(s) = Len(out) + Len(z)
      BY <1>3, <2>1, ConcatIs
    <2>3. \A i \in 1 .. Len(out) : s[i] = out[i]
      BY <1>3, <2>1, ConcatIs
    <2>4. \A i \in 1 .. Len(z) : s[Len(out) + i] = z[i]
      BY <1>3, <2>1, ConcatIs
    <2> QED
      BY <2>2, <2>3, <2>4
  <1> HIDE DEF s
  <1>5. /\ s \in Seq(Nat) /\ Len(s) = MaxNew
        /\ \A i \in 1 .. n : s[i] = out[i]
        /\ \A i \in 1 .. k : s[n + i] = 0
    BY <1>1, <1>2, <1>4
  <1>6. s = [i \in 1 .. MaxNew |-> s[i]]
    BY <1>5
  <1>7. \A i \in 1 .. MaxNew : s[i] = IF i <= n THEN out[i] ELSE 0
    <2> SUFFICES ASSUME NEW i \in 1 .. MaxNew PROVE s[i] = IF i <= n THEN out[i] ELSE 0
      OBVIOUS
    <2>1. CASE i <= n
      BY <1>5, <2>1
    <2>2. CASE i > n
      <3> DEFINE j == i - n
      <3>1. j \in 1 .. k /\ i = n + j /\ ~(i <= n)
        BY <1>1, <2>2
      <3> HIDE DEF j
      <3> QED
        BY <1>5, <3>1
    <2> QED
      BY <1>1, <2>1, <2>2
  <1> QED
    BY <1>6, <1>7 DEF s, z, k

\* The zeros behind a prompt.
LEMMA OutZeros ==
  ASSUME NEW toks \in Seq(Vocab), Len(toks) = Lp
  PROVE  SubSeq(toks \o Zeros(MaxNew), Lp + 1, Lp + MaxNew) = Zeros(MaxNew)
  <1> DEFINE z == Zeros(MaxNew)  s == toks \o z  C == Lp + MaxNew
  <1>1. MaxNew \in Nat /\ Lp \in Nat /\ Vocab \subseteq Nat
    BY CaptureAssumption
  <1>2. z \in Seq(Nat) /\ Len(z) = MaxNew /\ z = [i \in 1 .. MaxNew |-> 0]
    BY <1>1 DEF Zeros
  <1>3. toks \in Seq(Nat)
    <2>1. \A i \in 1 .. Len(toks) : toks[i] \in Vocab
      OBVIOUS
    <2>2. \A i \in 1 .. Len(toks) : toks[i] \in Nat
      BY <1>1, <2>1
    <2> QED
      BY <2>2
  <1> HIDE DEF z
  <1>4. \A i \in 1 .. Len(z) : s[Len(toks) + i] = z[i]
    <2>1. z \in Seq(Nat)
      BY <1>2
    <2> QED
      BY <1>3, <2>1, ConcatIs
  <1> HIDE DEF s
  <1>5. C \in Nat /\ C - Lp = MaxNew /\ Lp < C
    BY <1>1, CaptureAssumption
  <1> HIDE DEF C
  <1>6. SubSeq(s, Lp + 1, C) = Slice(s, Lp, C)
    BY <1>1, <1>5, SliceIs
  <1>7. Slice(s, Lp, C) = [i \in 1 .. MaxNew |-> s[Lp + i]]
    BY <1>5 DEF Slice
  <1>8. \A i \in 1 .. MaxNew : s[Lp + i] = 0
    BY <1>2, <1>4
  <1> QED
    BY <1>2, <1>6, <1>7, <1>8 DEF s, C, z

\* An output that is elsewhere is as a reset leaves it.
Blank(d, r) ==
  /\ ~Stays(d, "tok") => Val(d).tok = r.toks \o Zeros(MaxNew)
  /\ ~Stays(d, "mask") => Val(d).mask = Zeros(MaxNew)
  /\ ~Stays(d, "logp") => Val(d).logp = [i \in 1 .. MaxNew |-> <<>>]

\* Buffers that are as they should be read as the property says.
LEMMA MirrorsRead ==
  ASSUME RunKnown(driver, run), steps \in Nat, steps <= MaxNew, Placed(dev),
         NEW g, Tells(dev, g), Mirrors(driver, run, g, steps), Blank(dev, run)
  PROVE  ReplayIsEager
  <1>1. PICK out : IsOut(driver, run, out, steps) /\ OutMirrors(driver, run, g, out, steps)
    BY DEF Mirrors
  <1> DEFINE v == Val(dev)  n == steps  len == Len(run.toks)  lo == run.lo
             seq == run.toks \o out  fed == FedOf(driver, seq)
             rest == Zeros(MaxNew - n)
             live(i) == \A j \in 1 .. i - 1 : out[j] \notin EosSet
             moved(b) == dev.at[b] # baked[b]
  <1>2. Completion(n) = out
    BY <1>1, CompletionIs
  <1>3. /\ MaxNew \in Nat /\ Lp \in Nat /\ TMax \in Nat
        /\ len \in Nat /\ lo \in Nat /\ lo < len /\ run.toks \in Seq(Vocab)
        /\ driver # "hybrid" => len = Lp
    BY CaptureAssumption DEF RunKnown
  <1>4. out \in Seq(Vocab) /\ Len(out) = n
    BY <1>1 DEF IsOut
  <1>5. seq \in Seq(Vocab) /\ Len(seq) = len + n
    BY <1>3, <1>4, ConcatIs, ZenonT(60)
  <1>v. /\ v.pos = g.pos /\ v.last = g.last /\ v.emit = g.emit
        /\ ~moved("tok") => v.tok = g.tok
        /\ ~moved("mask") => v.mask = g.mask
        /\ ~moved("logp") => v.logp = g.logp
    <2>1. \A b \in Buf : b \notin OutBufs => v[b] = g[b]
      BY TellsHost
    <2>2. \A b \in Buf : ~moved(b) => v[b] = g[b]
      BY DEF Tells, Stays, Val, Values
    <2> HIDE DEF v
    <2> QED
      BY <2>1, <2>2, BufferPlaces DEF OutBufs
  <1>m. /\ driver = "hybrid" => ~moved("tok")
        /\ moved("tok") => v.tok = run.toks \o Zeros(MaxNew)
        /\ moved("mask") => v.mask = Zeros(MaxNew)
        /\ moved("logp") => v.logp = [i \in 1 .. MaxNew |-> <<>>]
    BY BufferPlaces DEF Blank, Stays, Placed
  <1> HIDE DEF len, lo, seq, v, moved
  <1>6. /\ g.pos = len + n /\ g.last = Slice(fed, lo, len + n)
        /\ driver = "hybrid" => EmitMirrors(g, out, n)
        /\ driver # "hybrid" => TokMirrors(g, seq, len + n, Columns(driver))
        /\ driver \notin {"decoder", "hybrid"} =>
             MaskMirrors(g, out, n) /\ LogpMirrors(g, run, fed, out, n)
    BY <1>1 DEF OutMirrors, len, lo, seq
  <1>7. g.last = ContextOf(seq)
    <2>1. lo < Len(seq)
      BY <1>3, <1>5
    <2>2. ContextOf(seq) = Slice(FedOf(driver, seq), lo, Len(seq))
      BY <1>3, <1>5, <2>1, ContextIs DEF lo
    <2> QED
      BY <1>5, <1>6, <2>2
  <1>8. /\ rest = Zeros(MaxNew - n)
        /\ out \o rest = [i \in 1 .. MaxNew |-> IF i <= n THEN out[i] ELSE 0]
    BY <1>4, OutColumns
  <1>9. (IF driver = "hybrid" THEN v.emit ELSE SubSeq(v.tok, Lp + 1, Total))
          = IF moved("tok") THEN Zeros(MaxNew) ELSE out \o rest
    <2>1. CASE driver = "hybrid"
      BY <1>6, <1>8, <1>m, <1>v, <2>1 DEF EmitMirrors
    <2>2. CASE driver # "hybrid" /\ moved("tok")
      <3>1. Total = Lp + MaxNew /\ len = Lp
        BY <1>3, <2>2 DEF Total
      <3>2. SubSeq(run.toks \o Zeros(MaxNew), Lp + 1, Lp + MaxNew) = Zeros(MaxNew)
        BY <1>3, <3>1, OutZeros DEF len
      <3> QED
        BY <1>m, <2>2, <3>1, <3>2
    <2>3. CASE driver # "hybrid" /\ ~moved("tok")
      <3> DEFINE C == Lp + MaxNew
      <3>1. Total = C /\ Columns(driver) = C /\ C \in Nat /\ Lp < C /\ C - Lp = MaxNew
        BY <1>3, <2>3, CaptureAssumption DEF Total, Columns
      <3> HIDE DEF C
      <3>2. v.tok = [i \in 1 .. C |-> IF i <= len + n THEN seq[i] ELSE 0]
        BY <1>6, <1>v, <2>3, <3>1 DEF TokMirrors
      <3> DEFINE tok == v.tok
      <3>3. SubSeq(tok, Lp + 1, C) = Slice(tok, Lp, C)
        BY <1>3, <3>1, SliceIs
      <3>4. Slice(tok, Lp, C) = [i \in 1 .. MaxNew |-> tok[Lp + i]]
        BY <3>1 DEF Slice
      <3>5. ASSUME NEW i \in 1 .. MaxNew PROVE tok[Lp + i] = IF i <= n THEN out[i] ELSE 0
        <4>1. Lp + i \in 1 .. C /\ (Lp + i <= len + n <=> i <= n) /\ Lp = len
          BY <1>3, <2>3, <3>1
        <4>2. i <= n => seq[len + i] = out[i]
          <5>1. \A j \in 1 .. Len(out) : seq[len + j] = out[j]
            BY <1>3, <1>4, ConcatIs DEF seq, len
          <5> QED
            BY <1>4, <5>1
        <4> QED
          BY <3>2, <4>1, <4>2
      <3> HIDE DEF tok
      <3>6. SubSeq(tok, Lp + 1, C) = out \o rest
        BY <1>8, <3>3, <3>4, <3>5
      <3> QED
        BY <2>3, <3>1, <3>6 DEF tok
    <2> QED
      BY <2>1, <2>2, <2>3
  <1>10. ASSUME driver \notin {"decoder", "hybrid"}, NEW i \in 1 .. n
         PROVE  /\ v.mask[i] = IF live(i) /\ ~moved("mask") THEN 1 ELSE 0
                /\ v.logp[i] = IF moved("logp") THEN <<>>
                               ELSE <<ContextOf(run.toks \o SubSeq(out, 1, i - 1)), out[i]>>
    <2>1. i \in 1 .. MaxNew /\ i <= n
      BY <1>3
    <2>2. g.mask[i] = IF live(i) THEN 1 ELSE 0
      BY <1>6, <1>10, <2>1 DEF MaskMirrors
    <2>12. v.mask[i] = IF live(i) /\ ~moved("mask") THEN 1 ELSE 0
      <3>1. Zeros(MaxNew)[i] = 0
        BY <2>1 DEF Zeros
      <3> HIDE DEF live
      <3> QED
        BY <1>m, <1>v, <2>2, <3>1
    <2>3. g.logp[i] = <<Slice(fed, lo, len + i - 1), out[i]>>
      BY <1>6, <1>10, <2>1 DEF LogpMirrors, lo, len
    <2> DEFINE k == i - 1  pre == SubSeq(out, 1, k)  m == len + k  short == run.toks \o pre
    <2>4. k \in Nat /\ k \in 0 .. Len(out) /\ len + i - 1 = m /\ m \in Nat /\ lo < m /\ m <= len + n
      BY <1>3, <1>4
    <2>5. pre \in Seq(Vocab) /\ Len(pre) = k /\ \A j \in 1 .. k : pre[j] = out[j]
      BY <1>4, <2>4, FrontIs
    <2> HIDE DEF pre, k
    <2>6. short \in Seq(Vocab) /\ Len(short) = m
      <3>1. run.toks \in Seq(Vocab) /\ pre \in Seq(Vocab)
        BY <1>3, <2>5
      <3>2. short \in Seq(Vocab) /\ Len(short) = Len(run.toks) + Len(pre)
        BY <3>1, ConcatIs
      <3> HIDE DEF short
      <3> QED
        BY <2>5, <3>2 DEF len
    <2>7. \A j \in 1 .. m : short[j] = seq[j]
      <3>1. k <= Len(pre) /\ k <= Len(out)
        BY <2>4, <2>5
      <3> QED
        BY <1>3, <1>4, <2>4, <2>5, <3>1, SeqSame DEF seq, len
    <2> HIDE DEF short, m
    <2>8. \A j \in 1 .. m : FedOf(driver, short)[j] = fed[j]
      <3>1. m <= Len(short) /\ m <= Len(seq)
        BY <1>5, <2>4, <2>6
      <3> QED
        BY <1>5, <2>4, <2>6, <2>7, <3>1, FedPrefix
    <2>9. ContextOf(short) = Slice(FedOf(driver, short), lo, m)
      BY <1>3, <2>4, <2>6, ContextIs DEF lo
    <2> DEFINE fed2 == FedOf(driver, short)
    <2> HIDE DEF fed, fed2
    <2>10. Slice(fed2, lo, m) = Slice(fed, lo, m)
      <3>1. \A j \in 1 .. m - lo : lo + j \in 1 .. m
        BY <1>3, <2>4
      <3>2. \A j \in 1 .. m : fed2[j] = fed[j]
        BY <2>8 DEF fed2
      <3> QED
        BY <3>1, <3>2 DEF Slice
    <2>11. g.logp[i] = <<ContextOf(run.toks \o SubSeq(out, 1, i - 1)), out[i]>>
      BY <2>3, <2>4, <2>9, <2>10 DEF short, pre, k, fed2
    <2> QED
      BY <1>m, <1>v, <2>1, <2>11, <2>12
  <1>11. v.last = ContextOf(run.toks \o out) /\ v.pos = len + n
    BY <1>6, <1>7, <1>v DEF seq
  <1> QED
    BY <1>2, <1>9, <1>10, <1>11, Zenon DEF ReplayIsEager, v, Val, len, moved

-----------------------------------------------------------------------------
(* Every replay is what eager decoding gives.                                *)

\* The host reads the buffers of a driver that is ready.
Readable == {"ready", "returned"}

\* After a reset the buffers that are where the graph has them hold what decoding without
\* graph and cache gives, and the others what the reset left.
EagerInv ==
  /\ CapturedInv
  /\ RunKnown(driver, run)
  /\ ~dev.wild => Holds(dev, run, steps, pc \in Readable /\ steps <= MaxNew)
  /\ pc \in Readable => Blank(dev, run)

\* What is said of the buffers depends on the buffers only.
LEMMA MirrorsPrimed ==
  ASSUME NEW g, NEW r, run' = r, NEW n, steps' = n, driver' = driver
  PROVE  /\ RunKnown(driver, run)' <=> RunKnown(driver, r)
         /\ Kept(g)' <=> Kept(g)
         /\ Mirrors(driver, run, g, steps)' <=> Mirrors(driver, r, g, n)
  <1>1. RunKnown(driver, run)' <=> RunKnown(driver, r)
    BY DEF RunKnown
  <1>2. Kept(g)' <=> Kept(g)
    BY DEF Kept, KvShape
  <1>3. Mirrors(driver, run, g, steps)' <=> Mirrors(driver', run', g, steps')
    BY DEF Mirrors, IsOut, OutMirrors, NextToken, FedOf, RowMirrors, EmitMirrors, TokMirrors,
           MaskMirrors, LogpMirrors, Slice, Columns, Seeded, GdnRun, GdnNew, GdnStep,
           SetState, PushConv, Absorbed, Window, Zero, Last
  <1> QED
    BY <1>1, <1>2, <1>3

\* So the invariant after a step is said of the buffers after it.
LEMMA EagerPrimed ==
  ASSUME NEW d, dev' = d, NEW r, run' = r, NEW n, steps' = n, driver' = driver,
         baked' = baked, CapturedInv', RunKnown(driver, r),
         ~d.wild => Holds(d, r, n, pc' \in Readable /\ n <= MaxNew),
         pc' \in Readable => Blank(d, r)
  PROVE  EagerInv'
  <1>1. RunKnown(driver, run)'
    BY MirrorsPrimed
  <1>2. ASSUME NEW b PROVE Stays(dev, b)' <=> Stays(d, b)
    BY DEF Stays
  <1>3. (pc \in Readable => Blank(dev, run))'
    BY DEF Blank, Stays, Readable, Val, Values, Zeros
  <1>4. ASSUME NEW g, Tells(d, g) PROVE Tells(dev, g)'
    BY <1>4 DEF Tells, Stays
  <1>5. ASSUME ~d.wild PROVE Holds(dev, run, steps, pc \in Readable /\ steps <= MaxNew)'
    <2>1. PICK g : /\ Tells(d, g) /\ Kept(g)
                   /\ (pc' \in Readable /\ n <= MaxNew => Mirrors(driver, r, g, n))
      BY <1>5 DEF Holds
    <2>2. Tells(dev, g)'
      BY <1>4, <2>1
    <2>3. Kept(g)' /\ (Mirrors(driver, r, g, n) => Mirrors(driver, run, g, steps)')
      BY <2>1, MirrorsPrimed
    <2>4. (pc \in Readable /\ steps <= MaxNew => Mirrors(driver, run, g, steps))'
      BY <2>1, <2>3 DEF Readable
    <2>5. (Tells(dev, g) /\ Kept(g)
           /\ (pc \in Readable /\ steps <= MaxNew => Mirrors(driver, run, g, steps)))'
      BY <2>2, <2>3, <2>4
    <2> QED
      BY <2>5 DEF Holds
  <1>6. (~dev.wild => Holds(dev, run, steps, pc \in Readable /\ steps <= MaxNew))'
    BY <1>5
  <1> QED
    BY <1>1, <1>3, <1>6 DEF EagerInv

\* The buffers as they are allocated.
LEMMA EagerInit ==
  ASSUME Init
  PROVE  EagerInv
  <1>1. CapturedInv /\ pc = "new"
    BY CapturedInit DEF Init
  <1>2. RunKnown(driver, run)
    BY InputsKnown DEF Init, Unpadded
  <1>3. Holds(dev, run, steps, pc \in Readable /\ steps <= MaxNew)
    <2> DEFINE m == [b \in Buf |-> [slot \in Slots |->
                       IF b = "kv" THEN WithCapacity(Total) ELSE 0]]
               g == [b \in Buf |-> IF b = "kv" THEN WithCapacity(Total) ELSE 0]
    <2>1. dev = [mem |-> m, at |-> Addresses, wild |-> FALSE]
      BY DEF Init
    <2>2. dev.mem = m /\ dev.at = Addresses
      BY <2>1
    <2>3. Tells(dev, g)
      BY <2>2, BufferPlaces DEF Tells
    <2>4. g.kv = WithCapacity(Total) /\ g.seed = 0
      BY BufferPlaces
    <2>5. KvShape(driver, WithCapacity(Total))
      BY DEF KvShape, WithCapacity, Total, Columns
    <2> HIDE DEF g
    <2> QED
      BY <1>1, <2>3, <2>4, <2>5 DEF Holds, Kept, Readable
  <1> QED
    BY <1>1, <1>2, <1>3 DEF EagerInv, Readable

\* A reset and a prefill of r: buffers that may be anything become what the prompt alone
\* makes of them, wherever the outputs are put.
LEMMA PrefillMirrors ==
  ASSUME Placed(dev), held # {} => driver = "bucket", NEW live,
         Holds(dev, run, steps, live), NEW r, RunKnown(driver, r), NEW at \in Placements(dev),
         NEW bufs \in SUBSET Buf, Buf \ {"seed"} \subseteq bufs,
         "seed" \in bufs \/ bufs = Buf \ {"seed"}
  PROVE  LET d == WriteAll(dev, at, bufs, ResetAndPrefill(Values(dev.mem, dev.at), r))
         IN  Holds(d, r, 0, TRUE) /\ Blank(d, r)
  <1> DEFINE v == Val(dev)  new == ResetAndPrefill(v, r)  d == WriteAll(dev, at, bufs, new)
  <1>1. PICK g : Tells(dev, g) /\ Kept(g)
    BY DEF Holds
  <1>2. v = [b \in Buf |-> v[b]]
    BY DEF Val, Values
  <1>3. v.kv = g.kv /\ v["seed"] = g["seed"]
    BY <1>1, TellsHost, BufferPlaces DEF OutBufs
  <1>4. new["seed"] = 0
    <2> HIDE DEF v
    <2>1. "seed" \in DOMAIN v
      BY <1>2, BufferPlaces
    <2> QED
      BY <2>1 DEF ResetAndPrefill
  <1>5. d = WriteAll(dev, at, bufs, ResetAndPrefill(Values(dev.mem, dev.at), r))
    BY DEF Val
  <1> HIDE DEF v, new
  <1>6. ResetDone(at, bufs, new, d)
    BY ResetWrites
  <1> HIDE DEF d
  <1> DEFINE h == [b \in Buf |-> IF b \in bufs THEN new[b] ELSE g[b]]
  <1>7. ASSUME NEW b \in Buf PROVE d.mem[b][d.at[b]] = h[b]
    <2>1. CASE b \in bufs
      BY <1>6, <2>1 DEF ResetDone
    <2>2. CASE b \notin bufs
      <3>1. b = "seed" /\ b \notin OutBufs
        BY <1>7, <2>2 DEF OutBufs
      <3>2. d.at = at /\ d.mem[b][at[b]] = dev.mem[b][dev.at[b]]
        BY <1>6, <2>2, <3>1 DEF ResetDone
      <3>3. v[b] = dev.mem[b][dev.at[b]]
        BY DEF v, Val, Values
      <3> QED
        BY <1>3, <2>2, <3>1, <3>2, <3>3
    <2> QED
      BY <2>1, <2>2
  <1>8. Tells(d, h)
    BY <1>7 DEF Tells
  <1>9. \A b \in Buf \ {"seed"} : h[b] = ResetAndPrefill(v, r)[b]
    BY DEF new
  <1>10. driver \notin Seeded => h.seed = 0
    BY <1>1, <1>4, BufferPlaces DEF Kept
  <1>11. Val(d) = h
    BY <1>7 DEF Val, Values
  <1> HIDE DEF h
  <1>12. ResetSays(v, r, h)
    BY <1>2, <1>9, ResetIs
  <1>13. KvShape(driver, h.kv) /\ Mirrors(driver, r, h, 0)
    BY <1>1, <1>3, <1>12, ResetMirrors DEF Kept
  <1>14. Holds(d, r, 0, TRUE)
    BY <1>8, <1>10, <1>13 DEF Holds, Kept
  <1>15. Blank(d, r)
    <2>1. \A b \in Buf : ~Stays(d, b) => driver # "hybrid"
      BY <1>6 DEF ResetDone, Placed
    <2>2. "tok" \in Buf
      BY BufferPlaces
    <2> QED
      BY <1>11, <1>12, <2>1, <2>2 DEF Blank, ResetSays
  <1> QED
    BY <1>5, <1>14, <1>15

\* Fewer things are asked of buffers that nobody reads.
LEMMA HoldsLess ==
  ASSUME NEW d, NEW r, NEW n, NEW live, NEW less, Holds(d, r, n, live), less => live
  PROVE  \A q, m : (less => q = r /\ m = n) => Holds(d, q, m, less)
  BY DEF Holds

\* A new driver is prefilled with its first prompt, and one without a graph is then ready.
LEMMA BuildEager ==
  ASSUME EagerInv, Build
  PROVE  EagerInv'
  <1>1. /\ driver' = driver /\ run' = run /\ steps' = steps /\ baked' = baked
        /\ held = {} /\ steps = 0 /\ ~dev.wild /\ Placed(dev) /\ pc = "new"
        /\ RunKnown(driver, run) /\ CapturedInv
    BY DEF Build, CapturedInv, EagerInv
  <1>2. CapturedInv'
    BY <1>1, BuildInv
  <1>3. Holds(dev, run, steps, pc \in Readable /\ steps <= MaxNew)
    BY <1>1 DEF EagerInv
  <1>4. CASE pc' = "refused" /\ UNCHANGED dev
    <2>1. pc' \notin Readable /\ dev' = dev
      BY <1>4 DEF Readable
    <2>2. Holds(dev, run, steps, pc' \in Readable /\ steps <= MaxNew)
      BY <1>3, <2>1, HoldsLess
    <2> QED
      BY <1>1, <1>2, <2>1, <2>2, EagerPrimed
  <1>5. CASE Enough /\ RoomForWarmup
    <2> DEFINE D(at) == WriteAll(dev, at, Buf, ResetAndPrefill(Values(dev.mem, dev.at), run))
    <2>1. PICK at \in Placements(dev) : dev' = D(at)
      BY <1>5 DEF Build
    <2>2. Buf \in SUBSET Buf /\ "seed" \in Buf /\ Buf \ {"seed"} \subseteq Buf
      BY BufferPlaces
    <2>3. Holds(D(at), run, 0, TRUE) /\ Blank(D(at), run)
      BY <1>1, <1>3, <2>2, PrefillMirrors
    <2> HIDE DEF D
    <2>4. Holds(D(at), run, 0, pc' \in Readable /\ 0 <= MaxNew)
      BY <2>3, HoldsLess
    <2> QED
      BY <1>1, <1>2, <2>1, <2>3, <2>4, EagerPrimed
  <1> QED
    BY <1>4, <1>5 DEF Build

\* What a pass of the host leaves during the warm-up is not eager decoding, but it has its
\* shape.
LEMMA HostPassKept ==
  ASSUME Placed(dev), held = {}, dev.at = baked, NEW live, Holds(dev, run, steps, live),
         ~EagerPass(dev).wild
  PROVE  \A r, n : Holds(EagerPass(dev), r, n, FALSE)
  <1>1. PICK g : Tells(dev, g) /\ Kept(g)
    BY DEF Holds
  <1>2. PassLeaves(dev, g, EagerPass(dev)) /\ g = [b \in Buf |-> g[b]]
    BY <1>1, EagerPassLeaves DEF Tells
  <1>3. Tells(EagerPass(dev), Stepped(g)) /\ Kept(Stepped(g))
    BY <1>1, <1>2, SteppedKept DEF PassLeaves
  <1> QED
    BY <1>3 DEF Holds

\* So it is in a warm-up pass.
LEMMA WarmPassEager ==
  ASSUME EagerInv, WarmPass
  PROVE  EagerInv'
  <1>1. /\ driver' = driver /\ run' = run /\ steps' = steps + 1 /\ pc' = "warm"
        /\ baked' = baked /\ held = {} /\ dev.at = baked
        /\ ~dev.wild /\ Placed(dev) /\ dev' = EagerPass(dev)
        /\ RunKnown(driver, run) /\ CapturedInv
    BY DEF WarmPass, CapturedInv, EagerInv
  <1>2. CapturedInv'
    BY <1>1, WarmPassInv
  <1> DEFINE d == EagerPass(dev)  n == steps + 1
  <1>3. Holds(dev, run, steps, pc \in Readable /\ steps <= MaxNew)
    BY <1>1 DEF EagerInv
  <1>4. ~d.wild => Holds(d, run, n, FALSE)
    BY <1>1, <1>3, HostPassKept
  <1>5. pc' \notin Readable /\ dev' = d /\ steps' = n
    BY <1>1 DEF Readable
  <1> HIDE DEF d, n
  <1>6. ~d.wild => Holds(d, run, n, pc' \in Readable /\ n <= MaxNew)
    BY <1>4, <1>5, HoldsLess
  <1> QED
    BY <1>1, <1>2, <1>5, <1>6, EagerPrimed

\* So has what the recorded pass leaves, whether or not it runs.
LEMMA CaptureEager ==
  ASSUME EagerInv, Capture
  PROVE  EagerInv'
  <1> DEFINE after == EagerPass(dev)  marked == [dev EXCEPT !.wild = after.wild]
  <1>1. /\ driver' = driver /\ run' = run /\ steps' = steps /\ held = {} /\ dev.at = baked
        /\ ~dev.wild /\ Placed(dev) /\ (dev' = after \/ dev' = marked)
        /\ RunKnown(driver, run) /\ CapturedInv /\ pc' \notin Readable
    BY DEF Capture, CapturedInv, EagerInv, Readable
  <1>2. CapturedInv' /\ baked' = baked
    <2>1. CapturedInv'
      BY <1>1, CaptureInv
    <2> QED
      BY <1>1, <2>1 DEF CapturedInv
  <1>3. Holds(dev, run, steps, pc \in Readable /\ steps <= MaxNew)
    BY <1>1 DEF EagerInv
  <1>4. CASE dev' = after
    <2>1. ~after.wild => Holds(after, run, steps, FALSE)
      BY <1>1, <1>3, HostPassKept
    <2> HIDE DEF after
    <2>2. ~after.wild => Holds(after, run, steps, pc' \in Readable /\ steps <= MaxNew)
      BY <1>1, <2>1, HoldsLess
    <2> QED
      BY <1>1, <1>2, <1>4, <2>2, EagerPrimed
  <1>5. CASE dev' = marked
    <2>1. PICK g : Tells(dev, g) /\ Kept(g)
      BY <1>3 DEF Holds
    <2>2. marked.mem = dev.mem /\ marked.at = dev.at
      <3> DEFINE w == after.wild
      <3>1. DevShape(dev)
        BY <1>1 DEF Placed
      <3>2. marked = [dev EXCEPT !.wild = w]
        OBVIOUS
      <3> HIDE DEF w, marked
      <3>3. marked = [mem |-> dev.mem, at |-> dev.at, wild |-> w]
        BY <3>1, <3>2, DeviceParts
      <3> QED
        BY <3>3
    <2> HIDE DEF marked
    <2>3. Tells(marked, g)
      BY <2>1, <2>2 DEF Tells, Stays
    <2>4. Holds(marked, run, steps, pc' \in Readable /\ steps <= MaxNew)
      BY <1>1, <2>1, <2>3 DEF Holds
    <2> QED
      BY <1>1, <1>2, <1>5, <2>4, EagerPrimed
  <1> QED
    BY <1>1, <1>4, <1>5

\* Every prompt a reset may take is known.
LEMMA PromptsKnown ==
  ASSUME EagerInv
  PROVE  /\ \A r \in Inputs : RunKnown(driver, r)
         /\ \A r \in NextPrompts : RunKnown(driver, r)
         /\ \A r \in {run} : RunKnown(driver, r)
  BY InputsKnown DEF NextPrompts, EagerInv

\* After a reset nothing is left of the warm-up, of the recorded pass or of the prompt before.
LEMMA RestartEager ==
  ASSUME EagerInv, CapturedInv', NEW rs, \A r \in rs : RunKnown(driver, r), Restart(rs)
  PROVE  EagerInv'
  <1>1. /\ driver' = driver /\ steps' = 0 /\ run' \in rs /\ ~dev.wild /\ baked' = baked
        /\ Placed(dev) /\ (held # {} => driver = "bucket")
    BY DEF Restart, EagerInv, CapturedInv
  <1> DEFINE r == run'  bufs == Buf \ {"seed"}
             D(at) == WriteAll(dev, at, bufs, ResetAndPrefill(Values(dev.mem, dev.at), r))
  <1>2. PICK at \in Placements(dev) : dev' = D(at)
    BY DEF Restart
  <1>3. RunKnown(driver, r) /\ run' = r
    BY <1>1
  <1>4. bufs \in SUBSET Buf /\ Buf \ {"seed"} \subseteq bufs /\ bufs = Buf \ {"seed"}
    OBVIOUS
  <1>5. Holds(dev, run, steps, pc \in Readable /\ steps <= MaxNew)
    BY <1>1 DEF EagerInv
  <1> HIDE DEF r, bufs
  <1>6. Holds(D(at), r, 0, TRUE) /\ Blank(D(at), r)
    BY <1>1, <1>3, <1>4, <1>5, PrefillMirrors
  <1> HIDE DEF D
  <1>7. Holds(D(at), r, 0, pc' \in Readable /\ 0 <= MaxNew)
    BY <1>6, HoldsLess
  <1> QED
    BY <1>1, <1>2, <1>3, <1>6, <1>7, EagerPrimed

\* That is so for each driver's reset.
LEMMA ResetEager ==
  ASSUME EagerInv, CapturedInv', ResetDecoder \/ ResetHybrid \/ ResetRollout \/ Dispatch
  PROVE  EagerInv'
  <1>1. Restart(NextPrompts) \/ Restart({run}) \/ Restart(Inputs)
    BY DEF ResetDecoder, ResetHybrid, ResetRollout, Dispatch
  <1> QED
    BY <1>1, PromptsKnown, RestartEager

\* Outputs that are elsewhere stay as the reset left them.
LEMMA BlankStays ==
  ASSUME NEW d, NEW e, SameElsewhere(d, e), NEW r, Blank(d, r)
  PROVE  Blank(e, r)
  <1>1. \A b \in Buf : (Stays(e, b) <=> Stays(d, b)) /\ (~Stays(d, b) => Val(e)[b] = Val(d)[b])
    BY DEF SameElsewhere, Stays, Val, Values
  <1> QED
    BY <1>1, BufferPlaces DEF Blank

\* Passes after a reset go on as decoding without a graph does, up to max_new of them.
LEMMA ContinueEager ==
  ASSUME EagerInv, CapturedInv', NEW n \in Nat, Continue(n)
  PROVE  EagerInv'
  <1>1. /\ driver' = driver /\ run' = run /\ pc' = pc /\ steps' = steps + n /\ baked' = baked
        /\ pc = "ready" /\ ~dev.wild /\ dev' = Passes(n) /\ Placed(dev) /\ steps \in Nat
        /\ RunKnown(driver, run) /\ (driver # "bucket" => held = {})
        /\ Holds(dev, run, steps, steps <= MaxNew) /\ Blank(dev, run)
    <2>1. pc = "ready" /\ ~dev.wild
      BY DEF Continue
    <2>2. /\ Holds(dev, run, steps, pc \in Readable /\ steps <= MaxNew) /\ pc \in Readable
          /\ Blank(dev, run)
      BY <2>1 DEF EagerInv, Readable
    <2>3. Holds(dev, run, steps, steps <= MaxNew)
      BY <2>2, HoldsLess
    <2> QED
      BY <2>1, <2>2, <2>3 DEF Continue, CapturedInv, EagerInv
  <1> DEFINE d == Passes(n)  k == steps + n
  <1>2. SameElsewhere(dev, d) /\ (~d.wild => Holds(d, run, k, k <= MaxNew))
    BY <1>1, PassesMirror
  <1>3. dev' = d /\ steps' = k
    BY <1>1
  <1> HIDE DEF d, k
  <1>4. ~d.wild => Holds(d, run, k, pc' \in Readable /\ k <= MaxNew)
    BY <1>2, HoldsLess
  <1>5. Blank(d, run)
    BY <1>1, <1>2, BlankStays
  <1> QED
    BY <1>1, <1>3, <1>4, <1>5, EagerPrimed

\* Handing a rollout out, or dropping it, leaves what the handles of the driver read.
LEMMA RolloutEager ==
  ASSUME EagerInv, CapturedInv', Return \/ DropRollout \/ UNCHANGED vars
  PROVE  EagerInv'
  <1>1. /\ driver' = driver /\ run' = run /\ steps' = steps /\ baked' = baked
        /\ pc' \in Readable => pc \in Readable
    BY DEF Return, DropRollout, vars, Readable
  <1>2. /\ dev'.at = dev.at /\ dev'.wild = dev.wild
        /\ \A b \in Buf : dev'.mem[b][dev.at[b]] = dev.mem[b][dev.at[b]]
    <2>1. CASE DropRollout
      <3>1. PICK kept \in SUBSET held : dev' = Freed(dev, kept)
        BY <2>1 DEF DropRollout
      <3>2. DevShape(dev)
        BY DEF EagerInv, CapturedInv, Placed
      <3> QED
        BY <3>1, <3>2, FreedIs
    <2>2. CASE Return \/ UNCHANGED vars
      BY <2>2 DEF Return, vars
    <2> QED
      BY <2>1, <2>2
  <1> DEFINE d == dev'
  <1>3. \A g : Tells(dev, g) => Tells(d, g)
    BY <1>2 DEF Tells, Stays
  <1>4. SameElsewhere(dev, d)
    BY <1>2 DEF SameElsewhere
  <1>5. dev' = d /\ d.wild = dev.wild
    BY <1>2
  <1> HIDE DEF d
  <1>6. pc' \in Readable => Blank(d, run)
    BY <1>1, <1>4, BlankStays DEF EagerInv
  <1>7. ~d.wild => Holds(d, run, steps, pc' \in Readable /\ steps <= MaxNew)
    <2> SUFFICES ASSUME ~d.wild
                 PROVE  Holds(d, run, steps, pc' \in Readable /\ steps <= MaxNew)
      OBVIOUS
    <2>1. Holds(dev, run, steps, pc \in Readable /\ steps <= MaxNew)
      BY <1>5 DEF EagerInv
    <2> QED
      BY <1>1, <1>3, <2>1 DEF Holds
  <1> QED
    BY <1>1, <1>5, <1>6, <1>7, EagerPrimed DEF EagerInv

\* Every step keeps the invariant.
LEMMA EagerNext ==
  ASSUME EagerInv, [Next]_vars
  PROVE  EagerInv'
  <1>1. CapturedInv'
    <2>1. CapturedInv
      BY DEF EagerInv
    <2>2. CASE Next
      BY <2>1, <2>2, CapturedStep
    <2>3. CASE UNCHANGED vars
      BY <2>1, <2>3 DEF CapturedInv, vars, Placed, Stays, RunFits, At, Val, Values, Loose, Adrift,
                        KeptAt
    <2> QED
      BY <2>2, <2>3
  <1>2. ASSUME DecodeN \/ ReplayCaptured \/ ReplayRollout PROVE EagerInv'
    <2>1. \E n \in Nat : Continue(n)
      BY <1>2, CaptureAssumption DEF DecodeN, ReplayCaptured, ReplayRollout
    <2> QED
      BY <1>1, <2>1, ContinueEager
  <1> QED
    BY <1>1, <1>2, BuildEager, WarmPassEager, CaptureEager, ResetEager, RolloutEager DEF Next

\* Whatever the driver, the prompts, the warm-up, the number of replays and the rollouts that
\* a caller keeps, what the host reads up to max_new passes after a reset is what decoding
\* with a fresh state and no graph gives (capture.rs:463), or the reset's zeros in an output
\* of a bucket that had to be moved (cudagraph_p4_buckets_bench.rs:370).
THEOREM ReplaysAreEager == Spec => []ReplayIsEager
  <1>1. EagerInv => ReplayIsEager
    <2> SUFFICES ASSUME EagerInv, ~ReplayIsEager PROVE FALSE
      OBVIOUS
    <2>1. pc \in Readable /\ steps <= MaxNew /\ ~dev.wild
      BY DEF ReplayIsEager, Readable
    <2>2. /\ RunKnown(driver, run) /\ steps \in Nat /\ Placed(dev) /\ Blank(dev, run)
          /\ Holds(dev, run, steps, pc \in Readable /\ steps <= MaxNew)
      BY <2>1 DEF EagerInv, CapturedInv
    <2>3. PICK g : Tells(dev, g) /\ Mirrors(driver, run, g, steps)
      BY <2>1, <2>2 DEF Holds
    <2> QED
      BY <2>1, <2>2, <2>3, MirrorsRead
  <1>2. EagerInv /\ [Next]_vars => EagerInv'
    BY EagerNext
  <1> QED
    BY <1>1, <1>2, EagerInit, PTL DEF Spec
=============================================================================
