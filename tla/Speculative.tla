---------------------------- MODULE Speculative ----------------------------
(***************************************************************************)
(* Speculative greedy decoding over the hybrid cache: drafts looked up in  *)
(* the text (examples/qwen35_mtp_ngram.rs) or made by the MTP block        *)
(* (examples/qwen35_mtp_block.rs, its correct and its perf variant) are    *)
(* verified in one forward, accepted up to the first difference, and the   *)
(* caches are rolled back to where they were.                              *)
(*                                                                         *)
(* The model is any function from contexts to tokens: `model` is the part  *)
(* of it that has been evaluated.                                          *)
(***************************************************************************)
EXTENDS HybridCache, FiniteSetsExt

CONSTANTS
  Vocab,
  PromptLen,
  MaxNew,     \* max_new_tokens
  Ks,         \* the values of K in the n-gram example
  MaxNgram,   \* MAX_NGRAM
  Variants    \* the drivers to run

ASSUME SpeculativeAssumption ==
  /\ Vocab # {} /\ PromptLen \in Nat \ {0} /\ MaxNew \in Nat \ {0}
  /\ Ks \subseteq Nat \ {0} /\ MaxNgram \in Nat \ {0}
  /\ Variants \subseteq {"ngram", "mtp_correct", "mtp_perf"}

VARIABLES
  variant,    \* the driver that runs
  k,          \* its K
  generated,  \* prompt and output
  cache,      \* the hybrid cache
  mtp,        \* mtp_cache
  last,       \* the context of last_logits and last_committed_hidden
  committed,  \* what the cycle commits
  idx,        \* how much of it has been fed again
  model,      \* what the model has said so far
  pc          \* "cycle", "commit", "failed" or "done"; the other loops have their own

speculativeVars == <<variant, k, generated, cache, mtp, last, committed, idx, model, pc>>

MtpVariants == {"mtp_correct", "mtp_perf"}

Least(a, b) == IF a <= b THEN a ELSE b

NewIds    == Len(generated) - PromptLen
Remaining == MaxNew - NewIds

\* An evaluation of the model m at the contexts cs: what it said before it says again.
Evaluations(m, cs) ==
  {[c \in DOMAIN m \cup cs |-> IF c \in DOMAIN m THEN m[c] ELSE f[c]] :
     f \in [cs \ DOMAIN m -> Vocab]}

SpeculativeInit ==
  /\ variant \in Variants
  /\ k \in IF variant = "ngram" THEN Ks ELSE {2}
  /\ generated \in [1..PromptLen -> Vocab]
  /\ LET fresh == HybridNew(PromptLen + MaxNew + k)
     IN  /\ cache = HybridForward(fresh, generated, 0)
         /\ last  = Last(Contexts(fresh, generated, 0))
  /\ mtp = WithCapacity(PromptLen + MaxNew + k)
  /\ committed = <<>> /\ idx = 0
  /\ model = << >>
  /\ pc = "cycle"
-----------------------------------------------------------------------------
(* Drafts. *)

\* The starts in s of earlier occurrences of its suffix of length n.
Occurrences(s, n) ==
  {i \in 1..Len(s)-n : SubSeq(s, i, i + n - 1) = SubSeq(s, Len(s) - n + 1, Len(s))}

\* ngram_draft: what followed the latest earlier occurrence of the longest suffix.
NgramDraft(s, most) ==
  LET lengths == {n \in 1..Least(MaxNgram, Len(s) - 1) : Occurrences(s, n) # {}}
      n       == Max(lengths)
      follow  == Max(Occurrences(s, n)) + n
  IN  IF most = 0 \/ lengths = {} THEN <<>>
      ELSE SubSeq(s, follow, Least(follow + most - 1, Len(s)))

MaxDrafts == Least(k - 1, Remaining - 1)

\* What the MTP block is fed for the token x: the hidden state h of the token before,
\* at the position of that.
MtpFed(h, x, at) == <<<<<<<<h, x>>, at>>>>>>

\* advance_mtp_for_committed.
AdvanceMtp(c, h, x, at) == Forward(c, MtpFed(h, x, at))

\* `if filled > boundary { rewind }`.
RewindTo(c, boundary) == IF c.filled > boundary THEN Rewind(c, boundary) ELSE c

\* The errors that the drivers return when the caches are out of step.
OutOfStep(c, m, n) ==
  \/ c.kv.filled # n
  \/ variant \in MtpVariants /\ m.filled # n - PromptLen
-----------------------------------------------------------------------------
(* A cycle: draft, verify, accept, roll back. *)

\* Mutant: the comparison is one position late.
AcceptedLate(drafts, pred) ==
  LET equal == {n \in 0..Len(drafts) : \A i \in 1..n : drafts[i] = pred[i + 1]}
  IN  Max(equal)

Accepted(drafts, pred) ==
  LET equal == {n \in 0..Len(drafts) : \A i \in 1..n : drafts[i] = pred[i]}
  IN  Max(equal)

\* Mutant: only what was drafted is committed.
CommittedDrafts(drafts, pred) == SubSeq(drafts, 1, Accepted(drafts, pred))

Committed(drafts, pred) ==
  LET n == Accepted(drafts, pred)
      all == Append(SubSeq(drafts, 1, n), pred[n + 1])
  IN  SubSeq(all, 1, Least(Len(all), Remaining))

CycleNgram ==
  LET drafts == NgramDraft(generated, MaxDrafts)
      seen   == IF drafts = <<>> THEN <<>> ELSE Contexts(cache, drafts, Len(generated))
      verified == IF drafts = <<>> THEN cache
                  ELSE HybridForward(cache, drafts, Len(generated))
  IN  /\ variant = "ngram"
      /\ pc = "cycle"
      /\ \E m \in Evaluations(model, {last} \cup ToSet(seen)) :
           LET pred == <<m[last]>> \o [i \in DOMAIN seen |-> m[seen[i]]]
           IN  /\ model' = m
               /\ committed' = Committed(drafts, pred)
               /\ cache' = Rollback(verified, cache.kv.filled, cache.gdn)
      /\ idx' = 0
      /\ pc' = "commit"
      /\ UNCHANGED <<variant, k, generated, mtp, last>>

\* The correct variant verifies the draft by feeding the token before it.
CycleMtpCorrect ==
  LET n == Len(generated)
  IN  /\ variant = "mtp_correct"
      /\ pc = "cycle"
      /\ \E m0 \in Evaluations(model, {last}), draft \in Vocab :
           LET next == m0[last]
               used == MaxDrafts > 0
               seen == IF used THEN ToSet(Contexts(cache, <<next>>, n)) ELSE {}
               verified == IF used THEN HybridForward(cache, <<next>>, n) ELSE cache
           IN  \E m \in Evaluations(m0, seen) :
                 LET accepted == \E c \in seen : m[c] = draft
                     all      == IF accepted THEN <<next, draft>> ELSE <<next>>
                 IN  /\ model' = m
                     /\ committed' = SubSeq(all, 1, Least(Len(all), Remaining))
                     /\ mtp' = RewindTo(AdvanceMtp(mtp, last, next, n - 1),
                                        mtp.filled + Len(committed'))
                     /\ cache' = Rollback(verified, cache.kv.filled, cache.gdn)
      /\ idx' = 0
      /\ pc' = "commit"
      /\ UNCHANGED <<variant, k, generated, last>>

\* Forward the tokens and append them to the output.
Take(c, toks) ==
  /\ cache' = HybridForward(c, toks, Len(generated))
  /\ last' = Last(Contexts(c, toks, Len(generated)))
  /\ generated' = generated \o toks

\* The loop's condition, with the checks at the start of every cycle and, in the MTP
\* variants, at the end of every cycle.
EndCycle(c, m, n) ==
  pc' = IF OutOfStep(c, m, n) /\ (variant \in MtpVariants \/ n - PromptLen < MaxNew)
        THEN "failed"
        ELSE IF n - PromptLen < MaxNew THEN "cycle" ELSE "done"

\* Mutant: the hidden state of the draft for that of the token before it.
HiddenOfDraft(seen) == seen[2]

\* hidden_at(&verify_hidden, 0).
HiddenBeforeDraft(seen) == seen[1]

\* The perf variant verifies token and draft in one forward, and keeps its result when
\* the draft is accepted.
CycleMtpPerf ==
  LET n == Len(generated)
  IN  /\ variant = "mtp_perf"
      /\ pc = "cycle"
      /\ \E m0 \in Evaluations(model, {last}), draft \in Vocab :
           LET next == m0[last]
               used == MaxDrafts > 0
               seen == Contexts(cache, <<next, draft>>, n)
               verified == HybridForward(cache, <<next, draft>>, n)
               first == AdvanceMtp(mtp, last, next, n - 1)
           IN  \E m \in Evaluations(m0, IF used THEN {seen[1]} ELSE {}) :
                 /\ model' = m
                 /\ IF used /\ m[seen[1]] = draft
                    THEN /\ mtp' = RewindTo(AdvanceMtp(first, HiddenBeforeDraft(seen),
                                                       draft, n), mtp.filled + 2)
                         /\ Take(cache, <<next, draft>>)
                    ELSE /\ mtp' = RewindTo(first, mtp.filled + 1)
                         /\ Take(IF used THEN Rollback(verified, cache.kv.filled, cache.gdn)
                                 ELSE cache, <<next>>)
      /\ EndCycle(cache', mtp', Len(generated'))
      /\ UNCHANGED <<variant, k, committed, idx>>

\* The loop that feeds the committed tokens again, one by one. The correct MTP variant
\* has shown the first of them to the MTP block already.
Commit ==
  /\ pc = "commit"
  /\ idx < Len(committed) /\ NewIds < MaxNew
  /\ Take(cache, <<committed[idx + 1]>>)
  /\ mtp' = IF variant = "mtp_correct" /\ idx > 0
            THEN AdvanceMtp(mtp, last, committed[idx + 1], Len(generated) - 1) ELSE mtp
  /\ idx' = idx + 1
  /\ UNCHANGED <<variant, k, committed, model, pc>>

EndCommit ==
  /\ pc = "commit"
  /\ idx = Len(committed) \/ NewIds = MaxNew
  /\ EndCycle(cache, mtp, Len(generated))
  /\ UNCHANGED <<variant, k, generated, cache, mtp, last, committed, idx, model>>

SpeculativeNext == CycleNgram \/ CycleMtpCorrect \/ CycleMtpPerf \/ Commit \/ EndCommit
=============================================================================
