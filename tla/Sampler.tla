------------------------------- MODULE Sampler -------------------------------
(***************************************************************************)
(* sample_index of sampling.rs: top-k, then top-p over what is left, then  *)
(* a draw by the inverse of the cumulative distribution.                   *)
(*                                                                         *)
(* Probabilities are natural weights over their sum, top_p and the uniform *)
(* sample are fractions <<numerator, denominator>>.                        *)
(***************************************************************************)
EXTENDS Subsequence, SequencesExt, FiniteSetsExt

Mass(w, idx) == FoldSeq(LAMBDA i, sum : w[i] + sum, 0, idx)

\* sort_by, which is stable.
ByProbability(w) ==
  ByRank([i \in DOMAIN w |-> {j \in DOMAIN w : w[j] > w[i] \/ (w[j] = w[i] /\ j < i)}])

TopK(idx, k) == IF k > 0 /\ k < Len(idx) THEN SubSeq(idx, 1, k) ELSE idx

\* Mutant: the token that crosses the threshold is left out.
TopPExclusive(w, idx, p) ==
  LET Ahead == {n \in DOMAIN idx : Mass(w, SubSeq(idx, 1, n)) * p[2] < p[1] * Mass(w, idx)}
  IN  IF p[1] > 0 /\ p[1] < p[2] /\ Mass(w, idx) > 0
      THEN SubSeq(idx, 1, Max({1} \cup Ahead)) ELSE idx

\* Up to and with the token that reaches the threshold.
TopP(w, idx, p) ==
  LET Reaching == {n \in DOMAIN idx : Mass(w, SubSeq(idx, 1, n)) * p[2] >= p[1] * Mass(w, idx)}
  IN  IF p[1] > 0 /\ p[1] < p[2] /\ Mass(w, idx) > 0
      THEN SubSeq(idx, 1, Min(Reaching)) ELSE idx

Draw(w, idx, r) ==
  LET sum    == Mass(w, idx)
      Beyond == {n \in DOMAIN idx : r[1] * sum < r[2] * Mass(w, SubSeq(idx, 1, n))}
  IN  IF sum = 0 THEN idx[1]
      ELSE IF Beyond = {} THEN Last(idx) ELSE idx[Min(Beyond)]

SampleIndex(w, k, p, r) == Draw(w, TopP(w, TopK(ByProbability(w), k), p), r)
-----------------------------------------------------------------------------
(* What the filters should leave, by the masses ahead of a token. *)

Before(w, i) == {j \in DOMAIN w : w[j] > w[i] \/ (w[j] = w[i] /\ j < i)}

MassOf(w, S) == MapThenSumSet(LAMBDA i : w[i], S)

Eligible(w, k, p) ==
  LET first == {i \in DOMAIN w : k = 0 \/ Cardinality(Before(w, i)) < k}
  IN  {i \in first : \/ p[1] \notin 1..p[2]-1
                     \/ MassOf(w, Before(w, i)) * p[2] < p[1] * MassOf(w, first)}

\* Over evenly spread uniform samples every eligible token is drawn in exactly its
\* share, and no other token is: nothing outside the top-k or the nucleus, and the token
\* that crosses the threshold inside (sampling.rs:49).
DrawsInShare(w, k, p) ==
  LET sum == MassOf(w, Eligible(w, k, p))
  IN  \A i \in DOMAIN w :
        Cardinality({r \in 0..sum-1 : SampleIndex(w, k, p, <<r, sum>>) = i})
          = IF i \in Eligible(w, k, p) THEN w[i] ELSE 0
=============================================================================
