--------------------------- MODULE MCMoeDispatch ---------------------------
(* Three experts; a router row with a clear order, one with another order, *)
(* and one whose two likeliest experts tie.                                *)
EXTENDS MoeDispatch
ThreeRows == {[e \in 0..2 |-> 3 - e], [e \in 0..2 |-> IF e = 0 THEN 1 ELSE 4 - e],
              [e \in 0..2 |-> IF e = 1 THEN 1 ELSE 2]}
=============================================================================
