----------------------------- MODULE Generation -----------------------------
(***************************************************************************)
(* The loops that decode greedily, one token at a time, beside the         *)
(* speculative drivers that must agree with them: generate and             *)
(* generate_with_cache_eos of the dense model (decoder.rs), generate_greedy *)
(* and generate_greedy_static of the MoE model (moe.rs), and the loops of  *)
(* the Qwen3.5 examples, eager, through the fused GDN kernel, and static.  *)
(*                                                                         *)
(* They share the shape sample, emit, feed, and differ in the cache they   *)
(* feed, in what an end-of-sequence token does, and in whether the last    *)
(* token is fed. One row stands for the batch: the loops read the end of   *)
(* the sequence from row 0.                                                *)
(***************************************************************************)
EXTENDS Speculative

CONSTANTS
  Loops,  \* the loops to run
  Eoses   \* the values of eos_token_ids

NeverStop == {"generate", "plain", "plain_fused", "hybrid_static"}

Stoppable == {"cached", "moe", "moe_static"}

ASSUME GenerationAssumption ==
  /\ Loops \subseteq NeverStop \cup Stoppable
  /\ Eoses \subseteq Seq(Vocab)

VARIABLES
  eos,       \* eos_token_ids
  at,        \* current_pos, or the device counter pos
  finished   \* an end-of-sequence token was emitted

loopVars == <<eos, at, finished>>

vars == <<speculativeVars, loopVars>>

Dense(s) == [i \in DOMAIN s |-> <<s[i], i - 1>>]

Budget == PromptLen + MaxNew

(* The first forward of a loop: its cache, and the context of the last logits. *)

PrefillAll(prompt) == [cache |-> CatNew, last |-> Dense(prompt)]

PrefillCat(prompt) ==
  [cache |-> ForwardCat(CatNew, <<Dense(prompt)>>),
   last  |-> Last(NewCellsCat(CatNew, <<Dense(prompt)>>)[1])]

PrefillMoeStatic(prompt) ==
  LET empty == WithCapacity(Budget)
  IN  [cache |-> Forward(empty, <<Dense(prompt)>>), last |-> Logits(empty, <<Dense(prompt)>>)[1]]

PrefillHybrid(prompt) ==
  LET empty == HybridNew(Budget)
  IN  [cache |-> HybridForward(empty, prompt, 0), last |-> Last(Contexts(empty, prompt, 0))]

PrefillHybridStatic(prompt) ==
  LET empty == InitStatic(HybridNew(Budget))
  IN  [cache |-> HybridPrefillStatic(empty, prompt), last |-> PrefillContext(empty, prompt)]

Prefill(loop, prompt) ==
  CASE loop = "generate"                -> PrefillAll(prompt)
    [] loop \in {"cached", "moe"}       -> PrefillCat(prompt)
    [] loop = "moe_static"              -> PrefillMoeStatic(prompt)
    [] loop \in {"plain", "plain_fused"} -> PrefillHybrid(prompt)
    [] loop = "hybrid_static"           -> PrefillHybridStatic(prompt)

LoopInit ==
  /\ variant \in Loops
  /\ eos \in IF variant \in Stoppable THEN Eoses ELSE {<<>>}
  /\ generated \in [1..PromptLen -> Vocab]
  /\ LET first == Prefill(variant, generated)
     IN  cache = first.cache /\ last = first.last
  /\ at = PromptLen
  /\ finished = FALSE
  /\ model = << >>
  /\ pc = IF variant = "hybrid_static" /\ ~Preflight(cache) THEN "failed" ELSE "sample"
  /\ k = 0 /\ mtp = CatNew /\ committed = <<>> /\ idx = 0

Init ==
  \/ SpeculativeInit /\ eos = <<>> /\ at = 0 /\ finished = FALSE
  \/ LoopInit
-----------------------------------------------------------------------------
\* generate_with_cache_eos drops the token that ends the sequence, generate_greedy only
\* if it is the first.
Dropped ==
  \/ variant = "cached"
  \/ variant = "moe" /\ NewIds = 0

\* What argmax returns. At the temperature 0 generate divides the logits by it: their
\* signs are left, and any of the tokens that tie is taken.
Argmax(m) ==
  IF finished THEN {eos[1]} ELSE IF variant = "generate" THEN Vocab ELSE {m[last]}

\* argmax, the test for the end, and the concatenation. The static loop reads nothing
\* back: it goes on, and pads.
Sample ==
  /\ pc = "sample"
  /\ \E m \in Evaluations(model, IF finished THEN {} ELSE {last}) : \E id \in Argmax(m) :
       LET stop == id \in ToSet(eos)
       IN  /\ model' = m
           /\ generated' = IF stop /\ Dropped THEN generated ELSE Append(generated, id)
           /\ finished' = (finished \/ stop)
           /\ pc' = IF variant # "moe_static" /\ (stop \/ NewIds + 1 = MaxNew)
                    THEN "done" ELSE "feed"
  /\ UNCHANGED <<variant, k, cache, mtp, last, committed, idx, eos, at>>

\* What the loops feed the token x, and the context of the logits it gives.
FeedAll == cache' = cache /\ last' = Dense(generated)

FeedCat(x) ==
  /\ cache' = ForwardCat(cache, <<<<<<x, at>>>>>>)
  /\ last' = NewCellsCat(cache, <<<<<<x, at>>>>>>)[1][1]

FeedMoeStatic(x) ==
  /\ cache' = ForwardStatic(cache, at, <<x>>)
  /\ last' = StaticCells(cache, at, <<x>>)[1]

FeedHybrid(x) ==
  /\ cache' = HybridForward(cache, <<x>>, at)
  /\ last' = Contexts(cache, <<x>>, at)[1]

FeedFused(x) ==
  /\ cache' = HybridForwardFused(cache, x, at)
  /\ last' = FusedContext(cache, x, at)

FeedHybridStatic(x) ==
  /\ cache' = HybridForwardStatic(cache, x, at)
  /\ last' = StaticContext(cache, x, at)

Feed ==
  /\ pc = "feed"
  /\ LET x == Last(generated)
     IN  \/ variant = "generate" /\ FeedAll
         \/ variant \in {"cached", "moe"} /\ FeedCat(x)
         \/ variant = "moe_static" /\ FeedMoeStatic(x)
         \/ variant = "plain" /\ FeedHybrid(x)
         \/ variant = "plain_fused" /\ FeedFused(x)
         \/ variant = "hybrid_static" /\ FeedHybridStatic(x)
  /\ at' = at + 1
  /\ pc' = IF NewIds = MaxNew THEN "done" ELSE "sample"
  /\ UNCHANGED <<variant, k, generated, mtp, committed, idx, model, eos, finished>>

Next ==
  \/ SpeculativeNext /\ UNCHANGED loopVars
  \/ Sample
  \/ Feed

\* A driver is a loop on one thread.
Spec == Init /\ [][Next]_vars /\ WF_vars(Next)
-----------------------------------------------------------------------------
DenseLoops == {"generate"} \cup Stoppable

\* The context after the tokens s, fed to empty caches at once.
Fresh(s) == IF variant \in DenseLoops THEN Dense(s) ELSE Last(Contexts(HybridNew(Len(s)), s, 0))

\* The output so far, and the place of the first end-of-sequence token in it.
Out == SubSeq(generated, PromptLen + 1, Len(generated))

Ended(i) == \E j \in 1..i-1 : Out[j] \in ToSet(eos)

\* What the model says of the prompt and the first i - 1 tokens of the output.
Says(i, id) ==
  LET c == Fresh(SubSeq(generated, 1, PromptLen + i - 1))
  IN  c \in DOMAIN model /\ model[c] = id

\* Every driver but generate writes the greedy continuation: every token is what the
\* model says of the tokens before it, whatever was drafted, rolled back or kept in a
\* cache on the way. It is complete, or an end-of-sequence token ended it; behind one
\* there is only padding (decoder.rs:998, moe.rs:1050, 1212, qwen35_mtp_block.rs).
GreedyOutput ==
  variant # "generate" =>
  /\ \A i \in 1..NewIds : IF Ended(i) THEN Out[i] = eos[1] ELSE Says(i, Out[i])
  /\ pc = "done" /\ NewIds # MaxNew =>
       \/ Ended(NewIds + 1)
       \/ \E id \in ToSet(eos) : Says(NewIds + 1, id)

\* After every rollback, every commit and every fed token the recurrent state, the
\* convolution history and the columns that attention reads are those of the output fed
\* at once to fresh caches: rejected drafts leave no trace, and the static writes at the
\* device's position land where the prefix writes would (cache.rs:148, 407, 173, 446).
CachesMatchOutput ==
  LET once == HybridForward(HybridNew(Len(generated)), generated, 0)
      kept == [cache.gdn EXCEPT !.static = FALSE]
  IN  CASE variant \in MtpVariants \cup {"ngram", "plain", "plain_fused"} ->
             pc \notin {"feed", "done"} =>
               /\ cache.gdn = once.gdn
               /\ cache.kv.filled = Len(generated)
               /\ Prefix(cache.kv, 1) = once.kv.rows[1]
               /\ last = Fresh(generated)
        [] variant = "hybrid_static" ->
             pc = "sample" =>
               /\ kept = once.gdn
               /\ SubSeq(cache.kv.rows[1], 1, at) = once.kv.rows[1]
               /\ last = Fresh(generated)
        [] variant = "moe_static" ->
             pc = "sample" => /\ Owns(SubSeq(cache.rows[1], 1, at)) = Dense(generated)
                              /\ last = Dense(generated)
        [] variant \in {"cached", "moe"} ->
             pc = "sample" => cache.rows[1] = Cells(<<>>, Dense(generated))
        [] variant = "generate" -> TRUE

\* The MTP block has seen every new token once, with the hidden state and the position of
\* the token before it, in the order of the output, and nothing of a rejected draft.
MtpMatchesOutput ==
  variant \in MtpVariants =>
    LET seen == generated \o (IF pc = "commit" /\ idx = 0 THEN <<committed[1]>> ELSE <<>>)
        Shown(i) == <<<<Fresh(SubSeq(seen, 1, PromptLen + i - 1)), seen[PromptLen + i]>>,
                      PromptLen + i - 2>>
    IN  /\ mtp.filled = Len(seen) - PromptLen
        /\ \A j \in 1..mtp.filled : mtp.rows[1][j] = [i \in 1..j |-> Shown(i)]

\* Every cycle commits something, every pass of a loop emits something: the decode ends.
Terminates == <>(pc = "done")
=============================================================================
