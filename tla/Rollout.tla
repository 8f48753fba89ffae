------------------------------ MODULE Rollout ------------------------------
(***************************************************************************)
(* Group rollouts: the seven drivers of grpo/rollout.rs, which sample a    *)
(* group of completions per prompt with or without a KV cache, on the host *)
(* or on the device, shrinking the batch or padding ragged prompts.        *)
(*                                                                         *)
(* What the model samples is any token; the log-probability of a token is  *)
(* a function of the context it was computed from, and is kept as the pair *)
(* <<context, token>>.                                                     *)
(***************************************************************************)
EXTENDS KVCache, FiniteSetsExt

CONSTANTS
  Vocab,   \* what can be sampled
  Eos,     \* the end-of-sequence tokens, the first of which is the padding
  Lp,      \* the padded length of the prompts
  MaxNew,  \* cfg.max_new_tokens
  Shapes,  \* <<number of prompts, group size>>
  N,       \* the rows of a batch
  PromptLens,  \* the prompt lengths that the ragged batches have
  Drivers, Pad, Blank, NoLogp, NoResult

EosSet == ToSet(Eos)
Rows   == 1..N

WholeDrivers == {"group_sample", "padded"}
HostDrivers  == WholeDrivers \cup {"cached", "device"}
LoopDrivers  == {"loop", "static"}
AllDrivers   == HostDrivers \cup {"shrink"} \cup LoopDrivers

ASSUME RolloutAssumption ==
  /\ Lp \in Nat \ {0} /\ MaxNew \in Nat \ {0} /\ N \in Nat \ {0}
  /\ Shapes \subseteq (Nat \ {0}) \X (Nat \ {0}) /\ \A s \in Shapes : s[1] * s[2] = N
  /\ Eos \in Seq(Vocab) /\ Eos # <<>> /\ Blank \notin Vocab
  /\ Drivers \subseteq AllDrivers

VARIABLES
  driver,    \* the driver that runs
  shape,     \* its batch: prompts p, group size g, real prompt lengths lens
  ids,       \* generated, or tok_buf: the tokens of every row
  cache,     \* the KV cache, one row per live row
  last,      \* the contexts of the last logits, one per live row
  active,    \* the live rows
  finished,  \* the rows that have sampled an end-of-sequence token
  steps,     \* steps_tokens and steps_logp of the host drivers
  bufs,      \* logp_buf and mask_buf of the device loops
  pos,       \* the device loops' position, Lp + t
  pc,        \* "prefill", "forward", "sample", or "done"; the trainer has its own
  out        \* the Rollouts that are returned

rolloutVars ==
  <<driver, shape, ids, cache, last, active, finished, steps, bufs, pos, pc, out>>

Eos0 == Eos[1]

\* unsqueeze(1).repeat([1, G, 1]).reshape([N, lp]): the rows are prompt-major.
Prompt(r) == ((r - 1) \div shape.g) + 1

PadLen(r) == Lp - shape.lens[Prompt(r)]

PromptIds(r) ==
  [k \in 1..Lp |-> IF k <= PadLen(r) THEN Pad ELSE <<Prompt(r), k - PadLen(r)>>]

Ragged(s) ==
  {lens \in PromptLens : lens \in [1..s[1] -> 1..Lp] /\ \E i \in 1..s[1] : lens[i] = Lp}

Uniform(s) == {[i \in 1..s[1] |-> Lp]}

RolloutInit ==
  /\ driver \in Drivers
  /\ \E s \in Shapes : \E lens \in IF driver = "padded" THEN Ragged(s) ELSE Uniform(s) :
       shape = [p |-> s[1], g |-> s[2], lens |-> lens]
  /\ ids = [r \in Rows |-> PromptIds(r) \o
             (IF driver \in LoopDrivers THEN [k \in 1..MaxNew |-> Blank] ELSE <<>>)]
  /\ cache = WithCapacity(Lp + MaxNew)
  /\ last = <<>>
  /\ active = [r \in Rows |-> r]
  /\ finished = [r \in Rows |-> FALSE]
  /\ steps = <<>>
  /\ bufs = [logp |-> [r \in Rows |-> [t \in 1..MaxNew |-> NoLogp]],
             mask |-> [r \in Rows |-> [t \in 1..MaxNew |-> 0]]]
  /\ pos = Lp
  /\ pc = IF driver \in WholeDrivers THEN "forward" ELSE "prefill"
  /\ out = NoResult
-----------------------------------------------------------------------------
(* The forwards that produce the logits to sample from. *)

Prefill ==
  LET fed == [r \in Rows |-> [k \in 1..Lp |-> <<ids[r][k], k - 1>>]]
  IN  /\ pc = "prefill"
      /\ cache' = Forward(cache, fed)
      /\ last' = Logits(cache, fed)
      /\ pc' = "sample"
      /\ UNCHANGED <<driver, shape, ids, active, finished, steps, bufs, pos, out>>

\* cumsum(mask) - 1, padding at 0.
PositionsFromMask(real) ==
  [k \in DOMAIN real |-> IF real[k] THEN Cardinality({j \in 1..k-1 : real[j]}) ELSE 0]

\* mask_rows: the left padding is masked, everything after it is real.
Real(r) == [k \in DOMAIN ids[r] |-> k > PadLen(r)]

\* Without a cache every step forwards the whole sequences.
ForwardWhole ==
  /\ driver \in WholeDrivers
  /\ pc = "forward"
  /\ last' = [r \in Rows |->
                LET at == PositionsFromMask(Real(r))
                IN  Context([k \in DOMAIN ids[r] |-> <<ids[r][k], at[k]>>], Real(r))]
  /\ pc' = "sample"
  /\ UNCHANGED <<driver, shape, ids, cache, active, finished, steps, bufs, pos, out>>

\* The token every row sampled last, fed at Lp + t.
Decode(c, rows, p) ==
  LET fed == [i \in DOMAIN rows |-> <<<<ids[rows[i]][p + 1], p>>>>]
  IN  /\ cache' = Forward(c, fed)
      /\ last' = Logits(c, fed)

ForwardCached ==
  /\ driver \in {"cached", "device"}
  /\ pc = "forward"
  /\ Decode(cache, active, Lp + Len(steps) - 1)
  /\ pc' = "sample"
  /\ UNCHANGED <<driver, shape, ids, active, finished, steps, bufs, pos, out>>

\* The local indices of the live rows that are kept: all, until half have finished.
Kept ==
  LET over == {i \in DOMAIN active : finished[active[i]]}
  IN  Ascending(IF over # {} /\ 2 * Cardinality(over) >= Len(active)
                THEN DOMAIN active \ over ELSE DOMAIN active)

\* Mutant: a second compaction takes local indices for row numbers.
RelabelLocal(keep) == keep

\* active_idx after a compaction.
Relabel(keep) == [i \in DOMAIN keep |-> active[keep[i]]]

ForwardShrunk ==
  /\ driver = "shrink"
  /\ pc = "forward"
  /\ active' = Relabel(Kept)
  /\ Decode(SelectRows(cache, Kept), active', Lp + Len(steps) - 1)
  /\ pc' = "sample"
  /\ UNCHANGED <<driver, shape, ids, finished, steps, bufs, pos, out>>

ForwardLoop ==
  /\ driver = "loop"
  /\ pc = "forward"
  /\ Decode(cache, active, pos)
  /\ pos' = pos + 1
  /\ pc' = "sample"
  /\ UNCHANGED <<driver, shape, ids, active, finished, steps, bufs, out>>

Buffers == [ids |-> ids, mask |-> bufs.mask, logp |-> bufs.logp, len |-> MaxNew]

\* The static driver decodes after the last token, too.
ForwardAtPos ==
  LET toks == [r \in Rows |-> ids[r][pos + 1]]
      cells == StaticCells(cache, pos, toks)
  IN  /\ driver = "static"
      /\ pc = "forward"
      /\ cache' = ForwardStatic(cache, pos, toks)
      /\ last' = cells
      /\ pos' = pos + 1
      /\ pc' = IF pos' - Lp = MaxNew THEN "done" ELSE "sample"
      /\ out' = IF pos' - Lp = MaxNew THEN Buffers ELSE NoResult
      /\ UNCHANGED <<driver, shape, ids, active, finished, steps, bufs>>
-----------------------------------------------------------------------------
(* Sampling, recording and stopping. *)

Picks(rows) == [{r \in rows : ~finished[r]} -> Vocab]

\* Finished rows emit the padding, sample_step and mask_where alike.
Emit(pick, r) == IF finished[r] THEN Eos0 ELSE pick[r]

\* build_completion_mask: up to and including the first end-of-sequence token.
CompletionMask(s) ==
  [r \in Rows |-> [t \in DOMAIN s |->
     IF \E u \in 1..t-1 : s[u].tok[r] \in EosSet THEN 0 ELSE 1]]

Finalize(seq, s) ==
  [ids |-> seq, mask |-> CompletionMask(s),
   logp |-> [r \in Rows |-> [t \in DOMAIN s |-> s[t].logp[r]]], len |-> Len(s)]

\* Mutant: the whole batch stops with its first row.
StopWithRowOne(fin, n) == fin[1] \/ n = MaxNew

Stop(fin, n) == (\A r \in Rows : fin[r]) \/ n = MaxNew

\* What the host drivers do with the tokens tok and the records logp of a step.
Record(tok, logp) ==
  /\ steps' = Append(steps, [tok |-> tok, logp |-> logp])
  /\ ids' = [r \in Rows |-> Append(ids[r], tok[r])]
  /\ finished' = [r \in Rows |-> finished[r] \/ tok[r] \in EosSet]
  /\ IF Stop(finished', Len(steps'))
     THEN pc' = "done" /\ out' = Finalize(ids', steps')
     ELSE pc' = "forward" /\ out' = NoResult
  /\ UNCHANGED <<driver, shape, cache, last, active, bufs, pos>>

SampleHost ==
  /\ driver \in HostDrivers
  /\ pc = "sample"
  /\ \E pick \in Picks(Rows) :
       Record([r \in Rows |-> Emit(pick, r)], [r \in Rows |-> <<last[r], Emit(pick, r)>>])

\* Only the live rows have logits; the others are padded without a log-probability.
SampleShrunk ==
  /\ driver = "shrink"
  /\ pc = "sample"
  /\ \E pick \in Picks(ToSet(active)) :
       Record([r \in Rows |-> IF r \in ToSet(active) THEN Emit(pick, r) ELSE Eos0],
              [r \in Rows |-> IF r \in ToSet(active)
                 THEN LET i == CHOOSE i \in DOMAIN active : active[i] = r
                      IN  <<last[i], Emit(pick, r)>>
                 ELSE NoLogp])

\* mask column t: not finished before the step.
Active(r) == IF finished[r] THEN 0 ELSE 1

\* slice_assign ("loop") and select_assign(Add) onto zeros ("static") alike.
Put(old, empty, x) == IF driver = "loop" \/ old = empty THEN x ELSE Blur

SampleLoop ==
  LET t == pos - Lp + 1
  IN  /\ driver \in LoopDrivers
      /\ pc = "sample"
      /\ \E pick \in Picks(Rows) :
           LET tok == [r \in Rows |-> Emit(pick, r)]
           IN  /\ ids' = [r \in Rows |-> [ids[r] EXCEPT ![pos + 1] = Put(@, Blank, tok[r])]]
               /\ bufs' = [logp |-> [r \in Rows |-> [bufs.logp[r] EXCEPT
                                       ![t] = Put(@, NoLogp, <<last[r], tok[r]>>)]],
                           mask |-> [r \in Rows |-> [bufs.mask[r] EXCEPT
                                       ![t] = IF driver = "loop" THEN Active(r)
                                                    ELSE @ + Active(r)]]]
               /\ finished' = [r \in Rows |-> finished[r] \/ tok[r] \in EosSet]
               /\ IF driver = "loop" /\ t = MaxNew
                  THEN pc' = "done" /\ out' = Buffers'
                  ELSE pc' = "forward" /\ out' = NoResult
      /\ UNCHANGED <<driver, shape, cache, last, active, steps, pos>>
-----------------------------------------------------------------------------
RolloutNext ==
  \/ Prefill \/ ForwardWhole \/ ForwardCached \/ ForwardShrunk \/ ForwardLoop \/ ForwardAtPos
  \/ SampleHost \/ SampleShrunk \/ SampleLoop
-----------------------------------------------------------------------------
\* The completion tokens of a row so far, and the part up to the first end-of-sequence
\* token.
Completed(r) ==
  SubSeq(ids[r], Lp + 1, Lp + Cardinality({k \in Lp+1..Len(ids[r]) : ids[r][k] # Blank}))
EndsAt(s) == {k \in DOMAIN s : s[k] \in EosSet}
Cut(s)    == IF EndsAt(s) = {} THEN s ELSE SubSeq(s, 1, Min(EndsAt(s)))

\* The context the k-th completion token of a row should be sampled from: the row's
\* real prompt and its completion before k, numbered from 0.
Ideal(r, k) ==
  LET q == SubSeq(ids[r], PadLen(r) + 1, Lp + k - 1)
  IN  [i \in DOMAIN q |-> <<q[i], i - 1>>]

Recorded(r, k) == IF driver \in LoopDrivers THEN bufs.logp[r][k] ELSE steps[k].logp[r]

\* Every token of a completion is recorded with the log-probability that the model gives
\* it after the row's own prompt and completion: no neighbour's cache row, no padding, no
\* unwritten or twice-written column, and the right positions. Batch shrinking
\* (rollout.rs:847), the static cache (cache.rs:187) and left padding (rollout.rs:870)
\* each put one of these at stake.
LogpHonest ==
  \A r \in Rows : \A k \in DOMAIN Cut(Completed(r)) :
    Recorded(r, k) = <<Ideal(r, k), Completed(r)[k]>>

\* The KV cache holds, for every row that is decoded, the cells of that row's tokens in
\* their columns and nothing else, whichever rows were dropped and however it is written.
CacheCoherent ==
  (pc = "sample" /\ driver \notin WholeDrivers) =>
    LET fed == Lp + Len(Completed(active[1])) IN
    /\ cache.filled = IF driver = "static" THEN Lp ELSE fed
    /\ Len(cache.rows) = Len(active)
    /\ \A i \in DOMAIN active : \A c \in 1..cache.cap :
         cache.rows[i][c] = IF c > fed THEN Zero
                            ELSE [k \in 1..c |-> <<ids[active[i]][k], k - 1>>]

Selected(r) == SubAt(out.ids[r], {k \in Lp+1..Lp+out.len : out.mask[r][k - Lp] = 1})

Sampling == INSTANCE GroupSampling WITH
  completion <- [r \in Rows |-> Cut(Completed(r))],
  result     <- IF out = NoResult THEN NoResult ELSE [r \in Rows |-> Selected(r)]

\* Every driver is a group rollout: the rows grow independently until they end, nothing is
\* returned early, and what the mask selects from the result are the completions.
IsGroupSampling == Sampling!Spec
=============================================================================
