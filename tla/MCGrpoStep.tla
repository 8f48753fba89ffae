----------------------------- MODULE MCGrpoStep -----------------------------
(* An instance of GrpoStep for TLC. *)
EXTENDS GrpoStep, TLC

CONSTANTS A, E1, E2

\* E1 pads; E2 ends a sequence as well.
SomeEos == <<E1, E2>>

\* Four prompts, so that no two rows are alike, and two groups of two.
SomeShapes == {<<4, 1>>, <<2, 2>>}

\* A short prompt in every place, one beside long ones and one beside short ones, and none.
SomePromptLens ==
  {<<1, 2, 1, 2>>, <<2, 2, 1, 1>>, <<2, 1, 2, 2>>, <<2, 2, 2, 2>>,
   <<1, 2>>, <<2, 1>>, <<2, 2>>}

\* Every distribution on three tokens in steps of 1/4 and its multiples, every top-k, and
\* thresholds on, between and outside the cumulative sums.
SomeSamplers ==
  {<<w, k, p>> : w \in [1..3 -> 0..3] \ {[i \in 1..3 |-> 0]},
                 k \in 0..4, p \in {<<n, 4>> : n \in 0..4} \cup {<<1, 3>>, <<2, 5>>}}
=============================================================================
