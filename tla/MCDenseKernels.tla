--------------------------- MODULE MCDenseKernels ---------------------------
(***************************************************************************)
(* Small launches.  Experts: sizes that give full lines, a partial last    *)
(* tile, a line size that divides the two halves but not one, and odd byte *)
(* counts; two tokens with two of three experts each.  Linear layers: more *)
(* rows than a launch takes, a last chunk that is short, a partial last    *)
(* block of columns, more blocks of weights than lanes.  Attention: one    *)
(* split, an uneven last split and an empty one; two query heads to a key  *)
(* head; maxima that grow and maxima that do not.                          *)
(***************************************************************************)
EXTENDS DenseKernels

MCShapes == {[h |-> 6, i |-> 12], [h |-> 12, i |-> 6]}
MCAssignments == {<<0, 2, 1, 0>>}
MCFormats == {"swiglu", "bf16", "fp8", "nvfp4", "nvfp4_eager", "twokernel"}

LowestScore == -100

MCLinears ==
  {[fmt |-> f, m |-> m, k |-> 12, n |-> 3, mmax |-> 2] :
     f \in {"nvfp4", "nvfp4_parts", "fp8", "fp8_parts"}, m \in {1, 3}}
MCScores == {<<0, 2, 1, 2, 3, 0, 1, 4, 0>>, <<4, 0, 1, 3, 0, 2, 2, 1, 0>>}
MCAttentions ==
  {[fmt |-> "decode", batch |-> IF sk = 5 THEN 1 ELSE 2, hq |-> 4, hkv |-> 2, sq |-> 1, sk |-> sk, dim |-> 4, score |-> s] :
     sk \in {3, 5, 9}, s \in MCScores}
  \cup
  {[fmt |-> "flash", batch |-> 2, hq |-> 4, hkv |-> 2, sq |-> sq, sk |-> 3, dim |-> 2, score |-> s] :
     sq \in {1, 3}, s \in MCScores}
=============================================================================
