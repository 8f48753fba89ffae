--------------------------- MODULE CapturedDecode ---------------------------
(***************************************************************************)
(* Captured decode: one decode step is recorded as a CUDA graph and then   *)
(* replayed once per token. The graph has the addresses of the persistent  *)
(* buffers baked in, so between two prompts the buffers are reset in       *)
(* place. Modelled are CapturedDecoder of capture.rs, the hybrid state of  *)
(* the same file with its driver, the prompt-length buckets over a shared  *)
(* pool, and the rollouts that sample greedily or with device seeds, the   *)
(* latter also without a graph.                                            *)
(*                                                                         *)
(* One row stands for the batch: rows share nothing but the position.      *)
(***************************************************************************)
EXTENDS HybridCache, FiniteSetsExt, TLC

CONSTANTS
  Drivers,         \* the drivers to run
  EosSet, PadTok,  \* the end-of-sequence tokens and the one that pads
  MaxNew,          \* columns for generated tokens
  Warmups,         \* warm-up passes asked for
  TMax,            \* columns of the hybrid driver's caches
  Lp,              \* the prompt length, or the bucket, a graph is captured for
  Vocab,           \* tokens; they are numbers, as 0 is what a reset leaves
  Prompts,         \* sequences of tokens
  Argmax(_, _, _), \* the token drawn after a token, at a length, with a seed
  MaxSteps,        \* bound on the replays between two resets
  MaxKept          \* bound on the rollouts a caller keeps over a dispatch

AllDrivers == {"decoder", "hybrid", "bucket", "greedy", "temperature", "eager"}

Seeded == {"temperature", "eager"}

ASSUME CaptureAssumption ==
  /\ Drivers \subseteq AllDrivers
  /\ Vocab \subseteq Nat /\ PadTok \in EosSet \cap Vocab
  /\ MaxNew \in Nat \ {0} /\ Lp \in Nat \ {0} /\ TMax \in Nat
  /\ Warmups \subseteq Nat /\ Prompts \subseteq Seq(Vocab) \ {<<>>} /\ MaxSteps \in Nat
  /\ \A tok \in Vocab, len \in 1..Lp + MaxNew + TMax, seed \in 0..MaxNew :
       Argmax(tok, len, seed) \in Vocab
  /\ Blur \notin Nat \X Nat /\ Blur \notin Seq(Seq(Vocab \cup {Void})) \X Nat
  /\ MaxKept \in Nat

VARIABLES
  driver, warmup,
  pc,     \* "new", "warm", "ready", "refused" by an assertion on the arguments, or
          \* "moved": a buffer is not where the graph has it
  dev,    \* the device: mem, what each piece of storage holds; at, where each buffer of the
          \* driver is; wild, whether an access has left its buffer
  baked,  \* where the graph has each buffer
  run,    \* what the last prefill was given: the padded tokens and the columns masked off
  steps,  \* passes since that prefill
  held    \* the rollouts that the caller keeps, each by where its tensors are

vars == <<driver, warmup, pc, dev, baked, run, steps, held>>

Buf == {"tok", "emit", "logp", "mask", "pos", "finished", "last", "kv", "gdn", "base", "lo",
        "seed"}

\* The buffers whose storage a rollout shares.
OutBufs == {"tok", "logp", "mask"}

\* The pieces of storage there are for each buffer, numbered.
Slots == 0..MaxKept + 1

Total == IF driver = "hybrid" THEN TMax ELSE Lp + MaxNew

Values(mem, at) == [b \in Buf |-> mem[b][at[b]]]
-----------------------------------------------------------------------------
(* Burn reuses the storage of a tensor that nobody else holds; otherwise   *)
(* an update allocates, and may be given what somebody freed.              *)

KeptAt(kept, b, slot) == b \in OutBufs /\ \E r \in kept : r[b] = slot

\* Mutant: a clone of the finished flags is kept over the update.
PlacementsClone(d) == {[d.at EXCEPT !["finished"] = 1 - @]}

\* Where the buffers can be after an update: Option::take() and a single operation.
Placements(d) ==
  LET shared == {b \in Buf : KeptAt(held, b, d.at[b])}
      spots  == {to \in [shared -> Slots] : \A b \in shared : ~KeptAt(held, b, to[b])}
  IN  {[b \in Buf |-> IF b \in shared THEN to[b] ELSE d.at[b]] : to \in spots}

Stored(mem, at, bufs, v) ==
  [b \in Buf |-> IF b \in bufs THEN [mem[b] EXCEPT ![at[b]] = v[b]] ELSE mem[b]]

WriteAll(d, at, bufs, v) == [d EXCEPT !.at = at, !.mem = Stored(@, at, bufs, v)]
-----------------------------------------------------------------------------
(* The step. Columns are added to, which assigns where they were zero.     *)

Zeros(n) == [i \in 1..n |-> 0]

\* What an addition leaves where none is nothing: two things added are neither.
Sum(old, x, none) == IF old = none THEN x ELSE IF x = none THEN old ELSE Blur

AddAt(buf, i, x) == [buf EXCEPT ![i] = Sum(@, x, 0)]

\* An empty column of the log-probabilities is 0.
AddLogp(buf, i, x) == [buf EXCEPT ![i] = Sum(@, x, <<>>)]

\* The token a context ends in.
TokenOf(ctx) ==
  LET own == Last(ctx) IN
  IF own = Blur THEN 0
  ELSE IF driver = "hybrid" THEN Last(Last(own[1])) ELSE own[1]

Sampled(v) == Argmax(TokenOf(v.last), Len(v.last), v.seed)

\* Finished rows emit the padding.
Emitted(v) == IF v.finished THEN PadTok ELSE Sampled(v)

\* forward_with_cache_static_pre_lp: the token `fed` attends to the columns lo..pos.
Attend(v, fed) ==
  LET row  == v.kv.rows[1]
      cell == Append(Owns(SubSeq(row, v.lo + 1, v.pos)),
                     IF row[v.pos + 1] = Zero THEN fed ELSE Blur)
  IN  [v EXCEPT !.kv = UpdateStatic(@, v.pos, <<cell>>), !.last = cell]

\* What all drivers do with the token: feed it and advance on the device.
Advance(v, fed) ==
  [Attend(v, fed) EXCEPT !.finished = @ \/ Emitted(v) \in EosSet, !.pos = @ + 1]

StepDecoder(v) ==
  [Advance(v, <<Emitted(v), v.pos>>) EXCEPT !.tok = AddAt(@, v.pos + 1, Emitted(v))]

\* The emitted tokens are indexed from prompt_base; tok holds the one that is fed.
StepHybrid(v) ==
  LET gdn == GdnStep(v.gdn, Emitted(v)) IN
  [Advance(v, <<gdn.state, v.pos>>) EXCEPT
     !.gdn = gdn, !.tok = <<Emitted(v)>>,
     !.emit = AddAt(@, v.pos - v.base + 1, Emitted(v))]

StepRollout(v) ==
  LET t == v.pos - Lp + 1 IN
  [StepDecoder(v) EXCEPT
     !.logp = AddLogp(@, t, <<v.last, Emitted(v)>>),
     !.mask = AddAt(@, t, IF v.finished THEN 0 ELSE 1)]

Step(v) ==
  CASE driver = "decoder" -> StepDecoder(v)
    [] driver = "hybrid"  -> StepHybrid(v)
    [] OTHER              -> StepRollout(v)

StepWrites ==
  {"tok", "pos", "finished", "last", "kv"} \cup
  (CASE driver = "decoder" -> {}
     [] driver = "hybrid"  -> {"emit", "gdn"}
     [] OTHER              -> {"logp", "mask"})

InRange(v) ==
  /\ v.pos < Total
  /\ v.pos - (IF driver = "hybrid" THEN v.base ELSE Lp) < MaxNew

\* The closure run by the host, which no rollout is taken from.
EagerPass(d) ==
  LET v  == Values(d.mem, d.at)
      at == CHOOSE spot \in Placements(d) : TRUE
  IN  IF InRange(v) THEN WriteAll(d, at, StepWrites, Step(v)) ELSE [d EXCEPT !.wild = TRUE]

\* Somebody else may own what the graph writes: no handle of the driver or of a rollout
\* has it.
Adrift(d) == \E b \in Buf : baked[b] # d.at[b] /\ ~KeptAt(held, b, baked[b])

\* The graph: the same kernels on the storage it has.
Replay(d) ==
  LET v == Values(d.mem, baked)
  IN  IF InRange(v) /\ ~Adrift(d)
      THEN [d EXCEPT !.mem = Stored(@, baked, StepWrites, Step(v))]
      ELSE [d EXCEPT !.wild = TRUE]
-----------------------------------------------------------------------------
(* Reset and prefill. *)

PadTo(prompt, n) == [i \in 1..n-Len(prompt) |-> PadTok] \o prompt

\* What the prompt's columns get: padding that is masked is visible to itself alone.
PrefillCells(fed, lo) ==
  [k \in DOMAIN fed |-> Context(SubSeq(fed, 1, k), [i \in 1..k |-> i > lo])]

FedPrompt(toks) ==
  IF driver = "hybrid" THEN Fed(HybridNew(TMax), toks, 0)[1]
  ELSE [i \in DOMAIN toks |-> <<toks[i], i - 1>>]

\* Mutant: the columns are not zeroed.
ClearedNot(c) == [c EXCEPT !.filled = 0]

\* KVCache::reset_for_replay: times zero in place, filled = 0.
Cleared(c) == [c EXCEPT !.filled = 0, !.rows = [r \in DOMAIN @ |-> [i \in 1..c.cap |-> Zero]]]

\* The buffers v after a reset, every one times zero, and the prefill of r.
ResetAndPrefill(v, r) ==
  LET cells == PrefillCells(FedPrompt(r.toks), r.lo) IN
  [v EXCEPT
     !.kv = Update(Cleared(@), <<cells>>), !.last = Last(cells),
     !.gdn = GdnRun(GdnNew, r.toks)[Len(r.toks)],
     !.tok = IF driver = "hybrid" THEN <<0>> ELSE r.toks \o Zeros(MaxNew),
     !.emit = Zeros(MaxNew), !.mask = Zeros(MaxNew),
     !.logp = [i \in 1..MaxNew |-> <<>>], !.finished = FALSE,
     !.pos = Len(r.toks), !.base = Len(r.toks), !.lo = r.lo, !.seed = 0]

\* What a driver can be given: a prompt of the captured length, one that leaves room for
\* max_new tokens, or one that fits the bucket.
Inputs ==
  CASE driver = "hybrid" -> {[toks |-> p, lo |-> 0] : p \in {q \in Prompts :
                                Len(q) + MaxNew <= TMax}}
    [] driver = "bucket" -> {[toks |-> PadTo(p, Lp), lo |-> IF on THEN Lp - Len(p) ELSE 0] :
                                p \in {q \in Prompts : Len(q) <= Lp}, on \in BOOLEAN}
    [] OTHER             -> {[toks |-> p, lo |-> 0] : p \in {q \in Prompts : Len(q) = Lp}}

\* A graph is captured over a prompt without padding.
Unpadded == {r \in Inputs : r.lo = 0}

\* The buffers whose address is compared with the graph's.
Checked ==
  {"tok", "pos", "finished", "last"} \cup
  (CASE driver = "decoder" -> {"kv"}
     [] driver = "hybrid"  -> {"kv", "gdn", "emit", "base"}
     [] driver = "bucket"  -> {"logp", "mask", "lo"}
     [] OTHER              -> {"logp", "mask"})

Moved(d, at) == \E b \in Checked : d.at[b] # at[b]

Addresses == [b \in Buf |-> 0]
-----------------------------------------------------------------------------
Init ==
  /\ driver \in Drivers /\ warmup \in Warmups
  /\ pc = "new" /\ steps = 0 /\ held = {}
  /\ run \in Unpadded
  /\ baked = Addresses
  /\ dev = [mem  |-> [b \in Buf |-> [slot \in Slots |->
                        IF b = "kv" THEN WithCapacity(Total) ELSE 0]],
            at   |-> Addresses, wild |-> FALSE]

Enough == driver \in {"decoder", "hybrid"} => warmup >= 3

\* Mutant: the pass that is recorded is forgotten.
RoomForAllButCapture == driver = "eager" \/ warmup <= MaxNew

\* The recorded pass writes the column after those of the warm-up.
RoomForWarmup == driver = "eager" \/ warmup < MaxNew

\* Allocate and prefill.
Build ==
  /\ pc = "new"
  /\ IF Enough /\ RoomForWarmup
     THEN /\ \E at \in Placements(dev) :
               dev' = WriteAll(dev, at, Buf, ResetAndPrefill(Values(dev.mem, dev.at), run))
          /\ pc' = IF driver = "eager" THEN "ready" ELSE "warm"
     ELSE pc' = "refused" /\ UNCHANGED dev
  /\ UNCHANGED <<driver, warmup, baked, run, steps, held>>

WarmPass ==
  /\ pc = "warm" /\ steps < warmup
  /\ dev' = EagerPass(dev)
  /\ steps' = steps + 1
  /\ UNCHANGED <<driver, warmup, pc, baked, run, held>>

\* The recording. Whether the recorded pass also runs does not matter to what follows.
Capture ==
  /\ pc = "warm" /\ steps = warmup /\ ~dev.wild
  /\ \E executed \in BOOLEAN :
       LET after == EagerPass(dev)
       IN  /\ dev' = IF executed THEN after ELSE [dev EXCEPT !.wild = after.wild]
           /\ pc' = IF Moved(after, baked) THEN "moved" ELSE "captured"
           /\ baked' = after.at
  /\ UNCHANGED <<driver, warmup, run, steps, held>>

\* Reset, in place where nobody else holds the storage, and prefill one of rs.
Restart(rs) ==
  /\ ~dev.wild
  /\ run' \in rs
  /\ \E at \in Placements(dev) :
       dev' = WriteAll(dev, at, Buf \ {"seed"}, ResetAndPrefill(Values(dev.mem, dev.at), run'))
  /\ steps' = 0
  /\ UNCHANGED <<driver, warmup, baked, held>>

NextPrompts == IF pc = "captured" THEN {run} ELSE Inputs

\* build ends in a reset, and then checks its addresses like every later one.
ResetDecoder ==
  /\ driver = "decoder" /\ pc \in {"captured", "ready"}
  /\ Restart(NextPrompts)
  /\ pc' = IF Moved(dev', baked) THEN "moved" ELSE "ready"

ResetHybrid ==
  /\ driver = "hybrid" /\ pc \in {"captured", "ready"}
  /\ Restart(NextPrompts)
  /\ pc' = IF Moved(dev', baked) THEN "moved" ELSE "ready"

ResetRollout ==
  /\ driver \in {"greedy", "temperature"} /\ pc = "captured"
  /\ Restart({run})
  /\ pc' = "ready"

\* A dispatch does not look at the addresses.
Dispatch ==
  /\ driver = "bucket" /\ pc \in {"captured", "returned"}
  /\ Cardinality(held) <= MaxKept
  /\ Restart(Inputs)
  /\ pc' = "ready"

\* n passes; where the sampler is seeded the host writes new seeds before each.
Passes(n) ==
  LET Seed(d, i) == IF driver \in Seeded
                    THEN [d EXCEPT !.mem = Stored(@, d.at, {"seed"}, [seed |-> steps + i])]
                    ELSE d
      Pass(d) == IF driver = "eager" THEN EagerPass(d) ELSE Replay(d)
      after[i \in 0..n] == IF i = 0 THEN dev ELSE Pass(Seed(after[i-1], i))
  IN  after[n]

Continue(n) ==
  /\ pc = "ready" /\ ~dev.wild
  /\ dev' = Passes(n)
  /\ steps' = steps + n
  /\ UNCHANGED <<driver, warmup, pc, baked, run, held>>

\* The replays of a call are bounded, those since a reset are not.
DecodeN ==
  /\ driver = "decoder"
  /\ \E n \in 1..MaxNew : steps + n <= MaxSteps /\ Continue(n)

ReplayCaptured ==
  /\ driver = "hybrid"
  /\ \E n \in 1..MaxNew : steps + n <= MaxSteps /\ Continue(n)

ReplayRollout ==
  /\ driver \in {"greedy", "temperature", "eager", "bucket"} /\ steps < MaxNew
  /\ Continue(1)

\* A bucket returns clones: they share the storage of its buffers.
Return ==
  /\ driver = "bucket" /\ pc = "ready" /\ steps = MaxNew
  /\ held' = held \cup {[b \in OutBufs |-> dev.at[b]]}
  /\ pc' = "returned"
  /\ UNCHANGED <<driver, warmup, dev, baked, run, steps>>

\* What nobody holds any more is free: what is in it no longer counts.
Freed(d, kept) ==
  [d EXCEPT !.mem = [b \in Buf |-> [slot \in Slots |->
     IF b \notin OutBufs \/ slot = d.at[b] \/ KeptAt(kept, b, slot) THEN @[b][slot] ELSE 0]]]

DropRollout ==
  /\ \E kept \in SUBSET held : kept # held /\ held' = kept /\ dev' = Freed(dev, kept)
  /\ UNCHANGED <<driver, warmup, pc, baked, run, steps>>

Next ==
  \/ Build \/ WarmPass \/ Capture
  \/ ResetDecoder \/ ResetHybrid \/ ResetRollout \/ Dispatch
  \/ DecodeN \/ ReplayCaptured \/ ReplayRollout \/ Return \/ DropRollout

Spec == Init /\ [][Next]_vars
-----------------------------------------------------------------------------
\* Greedy decoding without graph, padding or cache: the n tokens after the prompt.
Completion(n) ==
  LET Start == Len(run.toks) - run.lo
      out[i \in 0..n] ==
        IF i = 0 THEN <<>>
        ELSE LET seq == run.toks \o out[i-1]
                 ended == \E j \in DOMAIN out[i-1] : out[i-1][j] \in EosSet
                 seed == IF driver \in Seeded THEN i ELSE 0
             IN  Append(out[i-1], IF ended THEN PadTok
                                  ELSE Argmax(Last(seq), Start + i - 1, seed))
  IN  out[n]

\* The context that the token after seq has, positions counted from the padding.
ContextOf(seq) ==
  SubSeq(IF driver = "hybrid"
         THEN [i \in DOMAIN seq |-> <<GdnRun(GdnNew, seq)[i].state, i - 1>>]
         ELSE [i \in DOMAIN seq |-> <<seq[i], i - 1>>],
         run.lo + 1, Len(seq))

\* Up to max_new passes after a reset, what the host reads through its handles is what
\* decoding with a fresh state and no graph gives: tokens, log-probabilities, mask and
\* next logits. Nothing is left of the warm-up, of the recorded pass or of the prompt
\* before (capture.rs:463), no replay writes where nobody reads, and every replay has
\* its own seeds. An output that had to be moved, as the caller of a bucket kept the
\* rollout it is part of, reads as the reset left it, and never as a part of a decode.
ReplayIsEager ==
  (pc \in {"ready", "returned"} /\ steps <= MaxNew /\ ~dev.wild) =>
    LET v    == Values(dev.mem, dev.at)
        out  == Completion(steps)
        rest == Zeros(MaxNew - steps)
        moved(b) == dev.at[b] # baked[b]
        live(i) == \A j \in 1..i-1 : out[j] \notin EosSet
    IN  /\ v.last = ContextOf(run.toks \o out)
        /\ v.pos = Len(run.toks) + steps
        /\ (IF driver = "hybrid" THEN v.emit ELSE SubSeq(v.tok, Lp + 1, Total))
             = IF moved("tok") THEN Zeros(MaxNew) ELSE out \o rest
        /\ driver \notin {"decoder", "hybrid"} => \A i \in 1..steps :
             /\ v.mask[i] = IF live(i) /\ ~moved("mask") THEN 1 ELSE 0
             /\ v.logp[i] = IF moved("logp") THEN <<>>
                            ELSE <<ContextOf(run.toks \o SubSeq(out, 1, i - 1)), out[i]>>

\* Two things only make an access leave its buffer: more than max_new passes since a
\* reset, which decode_n allows as it counts one call at a time (capture.rs:510), and
\* the replay of a bucket whose caller kept a rollout over a dispatch and then dropped
\* it, and with it the storage in the graph. The warm-up and the recorded pass do not
\* (capture.rs:422), whatever warm-up is asked for.
InBounds ==
  dev.wild => \/ pc = "ready" /\ steps > MaxNew
              \/ driver = "bucket" /\ Adrift(dev)

\* The graph and the host mean the same storage: no update and no reset relocates a
\* buffer that the graph has baked in (capture.rs:289), other than an output of a bucket
\* that was kept by the caller.
SameStorage ==
  /\ pc # "moved"
  /\ pc \in {"ready", "returned"} =>
       \A b \in Buf : dev.at[b] # baked[b] => driver = "bucket" /\ b \in OutBufs
=============================================================================
