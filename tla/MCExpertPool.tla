---------------------------- MODULE MCExpertPool ----------------------------
(* Instances of ExpertPool for TLC. *)
EXTENDS ExpertPool

Pool(capacity, blob, pack, fused) ==
  [capacity |-> capacity, blob |-> blob, pack |-> pack, fused |-> fused]

\* Odd capacities keep one projection of an expert without the other. Of 4 experts,
\* 3 slots are less than a token needs, 5 fit a token's two, 7 three, 8 all four.
SomePools ==
  {Pool(0, TRUE, TRUE, FALSE), Pool(3, TRUE, TRUE, FALSE), Pool(5, TRUE, TRUE, FALSE),
   Pool(7, TRUE, TRUE, FALSE), Pool(3, FALSE, TRUE, FALSE), Pool(5, FALSE, FALSE, FALSE),
   Pool(5, TRUE, TRUE, TRUE)}
=============================================================================
