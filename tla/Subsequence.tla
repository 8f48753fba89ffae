---------------------------- MODULE Subsequence ----------------------------
(***************************************************************************)
(* The elements of a finite set in an order, which is given by the set of  *)
(* those below each; the numbers of a set in ascending order; and the      *)
(* elements of a sequence at some of its places, what a filter over a list *)
(* keeps.                                                                  *)
(***************************************************************************)
EXTENDS Integers, Sequences, FiniteSets

ByRank(below) ==
  [i \in 1..Cardinality(DOMAIN below) |->
     CHOOSE x \in DOMAIN below : Cardinality(below[x]) = i - 1]

Ascending(S) == ByRank([x \in S |-> {y \in S : y < x}])

SubAt(s, S) == LET order == Ascending(S) IN [i \in DOMAIN order |-> s[order[i]]]
=============================================================================
