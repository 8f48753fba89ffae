----------------------------- MODULE ExpertPool -----------------------------
(***************************************************************************)
(* The streamed mixture of experts: ExpertSlotPool of expert_stream.rs, an *)
(* LRU cache of expert weight slots whose misses are read in the           *)
(* background, and its user, forward_streamed of qwen3_5/mod.rs, which     *)
(* dispatches the cached experts while the others are being read.          *)
(***************************************************************************)
EXTENDS Integers, Sequences, SequencesExt, FiniteSetsExt, Subsequence

CONSTANTS
  NumLayers, NumExperts,
  TopK,       \* experts routed to by one token
  MaxTokens,  \* bound on the tokens of one forward
  Workers,    \* PREAD_WORKERS
  Configs     \* the pools to run

\* A pool's capacity, in slots; whether it has an NVFP4 blob store; whether slots are
\* packed (QWEN35_STREAM_NVFP4); whether single tokens take the fused kernel
\* (QWEN35_STREAM_2KERNEL).
Config == [capacity : Nat, blob : BOOLEAN, pack : BOOLEAN, fused : BOOLEAN]

Layers  == 0..NumLayers-1
Experts == 0..NumExperts-1

ASSUME PoolAssumption ==
  /\ NumLayers \in Nat \ {0} /\ NumExperts \in Nat \ {0}
  /\ TopK \in 1..NumExperts /\ MaxTokens \in Nat \ {0}
  /\ Workers \in Nat \ {0}
  /\ Configs \subseteq Config

VARIABLES
  config,   \* the pool's configuration
  cache,    \* the resident slots, least recently used first
  pending,  \* the slots being read in the background, in the order they are joined
  pc,       \* where forward_streamed is
  layer,    \* the layer it computes
  batch,    \* the distinct experts routed to
  hits,     \* those that prefetch_layer_begin reported as resident
  done,     \* the experts that were dispatched, in that order
  folded    \* the experts whose contributions were added up, in that order

vars == <<config, cache, pending, pc, layer, batch, hits, done, folded>>

Slot == [layer : Layers, proj : {"gate_up", "down"}, expert : Experts,
         kind : {"nvfp4", "dense"}]

SlotOf(proj, e, kind) == [layer |-> layer, proj |-> proj, expert |-> e, kind |-> kind]

\* The kind of slot the checkpoint is loaded as, and that expert_forward asks for.
PackKind == IF config.pack THEN "nvfp4" ELSE "dense"

Capacity == Max({config.capacity, 1})
-----------------------------------------------------------------------------
SameKey(s, t) == [s EXCEPT !.kind = t.kind] = t

\* The slot of the projection of the current layer's expert, if it is resident.
Find(c, proj, e) == {s \in ToSet(c) : SameKey(s, SlotOf(proj, e, "nvfp4"))}
Has(c, proj, e)  == Find(c, proj, e) # {}

\* The list without the slot that has the key of s; Place is where that is.
Place(c, s)   == CHOOSE i \in DOMAIN c : SameKey(c[i], s)
Without(c, s) == IF \E i \in DOMAIN c : SameKey(c[i], s) THEN RemoveAt(c, Place(c, s)) ELSE c

\* Mutant: a slot that is found keeps its place.
TouchNothing(c, proj, e) == c

\* cache.get: a slot that is found becomes the most recently used.
Touch(c, proj, e) ==
  LET s == SlotOf(proj, e, "nvfp4") IN
  IF Has(c, proj, e) THEN Append(Without(c, s), c[Place(c, s)]) ELSE c

\* cache.put: the least recently used slot makes room.
Put(c, s) ==
  LET rest == Without(c, s) IN
  Append(IF Len(rest) = Capacity THEN Tail(rest) ELSE rest, s)

\* distinct_experts lists the experts of a batch in ascending order.
TouchAll(c, proj, es)    == FoldLeft(LAMBDA a, e : Touch(a, proj, e), c, Ascending(es))
PutAll(c, slots)         == FoldLeft(Put, c, slots)
Slots(proj, es, kind)    == [i \in DOMAIN es |-> SlotOf(proj, es[i], kind)]
Missing(c, proj, es)     == {e \in es : ~Has(c, proj, e)}

\* The misses in the order they are joined: dealt round robin to at most Workers
\* threads, joined thread by thread.
ReadOrder(missing) ==
  LET n == Len(missing)
      w == Min({n, Workers})
  IN FlattenSeq([c \in 1..w |-> [j \in 1..(n - c) \div w + 1 |-> missing[c + (j - 1) * w]]])

\* prefetch_layer_begin for one projection (classify_and_spawn): the hits are
\* promoted; without a blob store the misses are read here and now.
Classified(c, proj, es) ==
  LET touched == TouchAll(c, proj, es) IN
  IF config.blob THEN touched
  ELSE PutAll(touched, Slots(proj, Ascending(Missing(c, proj, es)), PackKind))

\* The background reads it starts.
Spawned(c, proj, es) ==
  IF config.blob THEN Slots(proj, ReadOrder(Ascending(Missing(c, proj, es))), "nvfp4") ELSE <<>>

\* fetch_slot: a slot that is not resident is read from the checkpoint.
Fetch(c, proj, e) ==
  IF Has(c, proj, e) THEN Touch(c, proj, e) ELSE Put(c, SlotOf(proj, e, PackKind))
-----------------------------------------------------------------------------
Init ==
  /\ config \in Configs
  /\ cache = <<>> /\ pending = <<>>
  /\ pc = "route" /\ layer = 0
  /\ batch = {} /\ hits = {} /\ done = <<>> /\ folded = <<>>

\* The distinct experts that one token, or several, can be routed to.
Batches(tokens) ==
  {es \in SUBSET Experts : Cardinality(es) \in TopK..TopK * tokens}

\* Mutant: only the last projection decides what missed.
BeginDownOnly(es, tokens) ==
  /\ pc = "route" /\ es \in Batches(tokens)
  /\ batch' = es
  /\ LET gateUp == Classified(cache, "gate_up", es) IN
     /\ hits' = es \ Missing(gateUp, "down", es)
     /\ cache' = Classified(gateUp, "down", es)
     /\ pending' = Spawned(cache, "gate_up", es) \o Spawned(gateUp, "down", es)
  /\ pc' = IF config.fused /\ config.pack /\ tokens = 1 THEN "join_fused" ELSE "hits"
  /\ done' = <<>> /\ folded' = <<>>
  /\ UNCHANGED <<config, layer>>

\* prefetch_layer_begin: an expert hits when both projections do. The fused kernel
\* of a single token waits for all the reads first.
Begin(es, tokens) ==
  /\ pc = "route" /\ es \in Batches(tokens)
  /\ batch' = es
  /\ LET gateUp == Classified(cache, "gate_up", es) IN
     /\ hits' = es \ (Missing(cache, "gate_up", es) \cup Missing(gateUp, "down", es))
     /\ cache' = Classified(gateUp, "down", es)
     /\ pending' = Spawned(cache, "gate_up", es) \o Spawned(gateUp, "down", es)
  /\ pc' = IF config.fused /\ config.pack /\ tokens = 1 THEN "join_fused" ELSE "hits"
  /\ done' = <<>> /\ folded' = <<>>
  /\ UNCHANGED <<config, layer>>

\* expert_forward of e (for the fused kernel gate_up_nvfp4 and down_nvfp4): both
\* projections are fetched, and a slot of the other kind is an error, which
\* forward_streamed does not survive.
Forward(e) ==
  LET gateUp == Fetch(cache, "gate_up", e)
      down   == Fetch(gateUp, "down", e)
      badGateUp == \E s \in Find(gateUp, "gate_up", e) : s.kind # PackKind
      badDown   == \E s \in Find(down, "down", e) : s.kind # PackKind
  IN /\ cache' = IF badGateUp THEN gateUp ELSE down
     /\ done' = IF badGateUp \/ badDown THEN done ELSE Append(done, e)
     /\ pc' = IF badGateUp \/ badDown THEN "panic" ELSE pc
     /\ UNCHANGED <<config, pending, layer, batch, hits, folded>>

\* The resident experts are dispatched while the others are being read.
ForwardHit ==
  /\ pc = "hits" /\ hits \ ToSet(done) # {}
  /\ Forward(Min(hits \ ToSet(done)))

\* prefetch_layer_finish: every read is joined and its slot put into the cache.
Finish ==
  /\ \/ pc = "hits" /\ hits \subseteq ToSet(done)
     \/ pc = "join_fused"
  /\ cache' = PutAll(cache, pending)
  /\ pending' = <<>>
  /\ pc' = IF pc = "hits" THEN "rest" ELSE "fused"
  /\ UNCHANGED <<config, layer, batch, hits, done, folded>>

\* The experts that missed, in ascending order; for the fused kernel all of them,
\* in the order the token's router ranked them.
ForwardRest ==
  /\ batch \ ToSet(done) # {}
  /\ \/ pc = "rest" /\ Forward(Min(batch \ ToSet(done)))
     \/ pc = "fused" /\ \E e \in batch \ ToSet(done) : Forward(e)

\* A read fails, in the background or where it is waited for: the error is unwrapped.
ReadFails ==
  /\ \/ pc = "route" /\ \E es \in Batches(MaxTokens), proj \in {"gate_up", "down"} :
                           ~config.blob /\ Missing(cache, proj, es) # {}
     \/ pending # <<>> /\ (pc = "hits" => hits \subseteq ToSet(done))
     \/ pc \in {"rest", "fused"} /\ \E proj \in {"gate_up", "down"} :
                                       Missing(cache, proj, batch \ ToSet(done)) # {}
  /\ pc' = "panic"
  /\ pending' = <<>>
  /\ UNCHANGED <<config, cache, layer, batch, hits, done, folded>>

\* Mutant: the contributions are added in the order they were dispatched.
FoldAsDispatched ==
  /\ pc \in {"rest", "fused"} /\ batch \subseteq ToSet(done)
  /\ folded' = done
  /\ pc' = "route"
  /\ layer' = (layer + 1) % NumLayers
  /\ UNCHANGED <<config, cache, pending, batch, hits, done>>

\* The contributions are added up by expert id, in the fused kernel by rank; then
\* comes the next layer, after the last one the next forward.
Fold ==
  /\ pc \in {"rest", "fused"} /\ batch \subseteq ToSet(done)
  /\ folded' = IF pc = "rest" THEN Ascending(batch) ELSE done
  /\ pc' = "route"
  /\ layer' = (layer + 1) % NumLayers
  /\ UNCHANGED <<config, cache, pending, batch, hits, done>>

\* The process is gone.
Panicked == pc = "panic" /\ UNCHANGED vars

Next ==
  \/ \E tokens \in 1..MaxTokens : \E es \in Batches(tokens) : Begin(es, tokens)
  \/ ForwardHit \/ Finish \/ ForwardRest \/ ReadFails \/ Fold
  \/ Panicked

Spec == Init /\ [][Next]_vars
-----------------------------------------------------------------------------
Resident(e) == Has(cache, "gate_up", e) /\ Has(cache, "down", e)

\* With a blob store, whatever the capacity, a reported hit is dispatched from the
\* cache: no dispatch waits for the disk before the background reads are joined.
\* (Without one the synchronous reads of the misses may evict a hit again.)
HitsReady ==
  config.blob /\ pc = "hits" => \A e \in hits \ ToSet(done) : Resident(e)

\* prefetch_layer_finish: "every expert passed to prefetch_layer_begin is resident",
\* and stays so until it has been dispatched, when the capacity is the headroom
\* prefetch_layer asks for, two slots per expert.
ResidentOnceFinished ==
  pc \in {"rest", "fused"} /\ 2 * Cardinality(batch) <= Capacity =>
    \A e \in batch \ ToSet(done) : Resident(e)

\* Every routed expert contributes exactly once, and outside the fused kernel in an
\* order that does not depend on what was cached.
FoldInOrder ==
  pc = "route" =>
    /\ ToSet(folded) = batch /\ Len(folded) = Cardinality(batch)
    /\ ~config.fused => folded = Ascending(batch)
=============================================================================
