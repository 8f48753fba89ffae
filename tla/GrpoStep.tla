------------------------------ MODULE GrpoStep ------------------------------
(***************************************************************************)
(* One GRPO step behind a rollout (grpo/trainer.rs, reward.rs, loss.rs,    *)
(* logprob.rs): a reward per completion, the advantage of a row within its *)
(* group, the log-probabilities of the policy and of the reference over    *)
(* the finished sequences, and the terms of the loss.                      *)
(*                                                                         *)
(* Rewards are integers, Whole for 1. A log-probability is the pair of its *)
(* context and its token, whichever model computes it: both are forwarded  *)
(* the same way. The loss is kept as its terms.                            *)
(***************************************************************************)
EXTENDS Rollout, Sampler

CONSTANTS
  Whole,    \* the reward 1, divisible by every length of a completion
  Better,   \* the tokens that the examples' reward counts
  Broken,   \* rows whose harness may fail
  NaN,
  Samplers  \* <<weights, top_k, top_p>>

ASSUME GrpoStepAssumption ==
  /\ Whole \in Nat /\ \A n \in 1..MaxNew : Whole % n = 0
  /\ Better \subseteq Vocab /\ Broken \subseteq Rows /\ NaN \notin Nat
  /\ \A s \in Samplers : s[1] \in Seq(Nat) /\ s[2] \in Nat /\ s[3] \in Int \X (Nat \ {0})

VARIABLES
  rewards,  \* as the trainer uses them
  logpPi,   \* the policy's log-probabilities of the completion tokens
  logpRef,  \* the reference's
  loss      \* terms, and the denominators of the two reductions

vars == <<rolloutVars, rewards, logpPi, logpRef, loss>>

trainerVars == <<rewards, logpPi, logpRef, loss>>

Init ==
  /\ RolloutInit
  /\ rewards = NoResult /\ logpPi = NoResult /\ logpRef = NoResult /\ loss = NoResult
-----------------------------------------------------------------------------
(* Rewards. *)

\* The examples' reward_fn: the share of the unmasked tokens that count.
Fraction(r) ==
  LET unmasked == {k \in 1..out.len : out.mask[r][k] = 1}
      hits     == {k \in unmasked : out.ids[r][Lp + k] \in Better}
  IN  IF unmasked = {} THEN 0 ELSE (Whole * Cardinality(hits)) \div Cardinality(unmasked)

\* score_one: spawning, writing, a status other than 0, the deadline and what does not
\* parse all come to 0. "nan" parses, and clamp lets it through.
ScoreOne(r, child) ==
  CASE child = "score" -> Fraction(r)
    [] child = "nan"   -> NaN
    [] child = "fail"  -> 0

\* score_batch: a child per row, in the order of the rows.
ScoreBatch(children) == [r \in Rows |-> ScoreOne(r, children[r])]

Children == {[r \in Rows |-> IF r \in Broken THEN how ELSE "score"] :
               how \in {"score", "nan", "fail"}}

\* Rewards that are not finite are replaced.
Sanitized(raw) == [r \in Rows |-> IF raw[r] = NaN THEN 0 ELSE raw[r]]

\* grpo_step rolls out with the first, grpo_step_ragged with the second. What the other
\* drivers return is compared with the recomputed log-probabilities only.
TrainerDrivers == {"cached", "padded"}

Score ==
  /\ pc = "done" /\ driver \in TrainerDrivers
  /\ \E children \in Children : rewards' = Sanitized(ScoreBatch(children))
  /\ pc' = "scored"
  /\ UNCHANGED <<driver, shape, ids, cache, last, active, finished, steps, bufs, pos, out,
                 logpPi, logpRef, loss>>
-----------------------------------------------------------------------------
(* Advantages. *)

Total(S) == MapThenSumSet(LAMBDA r : rewards[r], S)

\* Mutant: the rewards reshaped as [g, p].
GroupStrided(r) == {q \in Rows : q % shape.p = r % shape.p}

\* reshape([p, g]).
Group(r) == {q \in Rows : (q - 1) \div shape.g = (r - 1) \div shape.g}

\* g times r - mean. The standard deviation that it is divided by is that of the same
\* group, and a group without one keeps its zeros.
GroupNormAdvantage(r) == shape.g * rewards[r] - Total(Group(r))

\* full_mask_and_positions.
FullReal(r, total) == [k \in 1..total |-> k > PadLen(r)]
FullPositions(r, total) ==
  [k \in 1..total |-> IF k > PadLen(r) THEN k - PadLen(r) - 1 ELSE 0]

\* Mutant: the completion's own logits, not those of the token before.
LogitsAtToken(i) == Lp + i

\* The column whose logits predict the i-th completion token: logits[:, j] predicts
\* token j + 1, and the slice starts at lp - 1.
LogitsColumn(i) == Lp + i - 1

\* token_logprobs: the target's logit gathered, normalised over its own position.
TokenLogprob(context, target) == <<context, target>>

\* completion_logprobs over one forward of the finished sequences.
CompletionLogprobs(seq, len) ==
  [r \in Rows |->
     LET real == FullReal(r, Lp + len)
         at   == FullPositions(r, Lp + len)
         fed  == [k \in 1..Lp+len |-> <<seq[r][k], at[k]>>]
     IN  [i \in 1..len |->
            LET c == LogitsColumn(i)
            IN  TokenLogprob(Context(SubSeq(fed, 1, c), SubSeq(real, 1, c)), seq[r][Lp + i])]]

Logprobs ==
  /\ pc = IF driver \in TrainerDrivers THEN "scored" ELSE "done"
  /\ logpRef' = CompletionLogprobs(out.ids, out.len)
  /\ logpPi' = CompletionLogprobs(out.ids, out.len)
  /\ pc' = "lossy"
  /\ UNCHANGED <<driver, shape, ids, cache, last, active, finished, steps, bufs, pos, out,
                 rewards, loss>>
-----------------------------------------------------------------------------
(* The loss. *)

AtLeastOne(n) == IF n < 1 THEN 1 ELSE n

Unmasked(r) == {k \in 1..out.len : out.mask[r][k] = 1}

\* A token's term: the ratio of policy and rollout, the KL of policy and reference, and
\* the advantage of its row, broadcast to its tokens; times the mask.
Term(r, k) ==
  [ratio |-> <<logpPi[r][k], out.logp[r][k]>>, kl |-> <<logpPi[r][k], logpRef[r][k]>>,
   advantage |-> GroupNormAdvantage(r)]

\* sum / sum(mask).
TokenGlobal == AtLeastOne(MapThenSumSet(LAMBDA r : Cardinality(Unmasked(r)), Rows))

\* The mean over a row, then over the rows.
SeqMean(r) == N * AtLeastOne(Cardinality(Unmasked(r)))

GrpoLoss ==
  /\ pc = "lossy" /\ driver \in TrainerDrivers
  /\ loss' = [terms |-> [r \in Rows |-> [k \in Unmasked(r) |-> Term(r, k)]],
              token_global |-> TokenGlobal,
              seq_mean |-> [r \in Rows |-> SeqMean(r)]]
  /\ pc' = "trained"
  /\ UNCHANGED <<driver, shape, ids, cache, last, active, finished, steps, bufs, pos, out,
                 rewards, logpPi, logpRef>>

Next ==
  \/ RolloutNext /\ UNCHANGED trainerVars
  \/ Score \/ Logprobs \/ GrpoLoss

Spec == Init /\ [][Next]_vars
-----------------------------------------------------------------------------
\* At the first optimizer step the PPO ratio is 1: the log-probability the trainer
\* recomputes for every unmasked token is that of the same token in the same context as
\* the driver recorded, whatever the driver.
RatioIsOne ==
  logpPi # NoResult =>
    \A r \in Rows : \A k \in 1..out.len :
      out.mask[r][k] = 1 => logpPi[r][k] = out.logp[r][k]

\* The prompt-mates of a row, and what its completion deserves.
Mates(r) == {q \in Rows : Prompt(q) = Prompt(r)}

Deserved(r) ==
  LET c == Cut(Completed(r))
  IN  (Whole * Cardinality({k \in DOMAIN c : c[k] \in Better})) \div Len(c)

Earned(r) == IF r \in Broken /\ rewards[r] = 0 THEN 0 ELSE Deserved(r)

\* Every token up to its row's first end-of-sequence token, and none behind it, has one
\* term in the loss, also in groups without spread; its advantage is its own row's reward
\* against those of the same prompt, each paid for its own completion, whatever padding,
\* driver or failed child; and the tokens are counted once (trainer.rs:15, 200, loss.rs:27).
LossExact ==
  loss # NoResult =>
    /\ \A r \in Rows :
         /\ DOMAIN loss.terms[r] = DOMAIN Cut(Completed(r))
         /\ \A k \in DOMAIN loss.terms[r] :
              /\ loss.terms[r][k].kl[1] = <<Ideal(r, k), Completed(r)[k]>>
              /\ loss.terms[r][k].advantage =
                   shape.g * Earned(r) - MapThenSumSet(Earned, Mates(r))
         /\ loss.seq_mean[r] = N * Len(Cut(Completed(r)))
    /\ loss.token_global = MapThenSumSet(LAMBDA r : Len(Cut(Completed(r))), Rows)

\* Whatever the distribution, top-k and top-p that a rollout will sample with: what the
\* filters of sample_index let through is drawn in its share, and nothing else.
SamplerExact ==
  (driver = "cached" /\ pc = "prefill") => \A s \in Samplers : DrawsInShare(s[1], s[2], s[3])
=============================================================================
