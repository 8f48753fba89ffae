--------------------------- MODULE GroupSampling ---------------------------
(***************************************************************************)
(* What a group rollout promises: the rows grow token by token, each until *)
(* its own end-of-sequence token, and the result is what they have grown   *)
(* to, once every row has ended or the budget is used up.                  *)
(***************************************************************************)
EXTENDS Integers, Sequences

CONSTANTS Rows, Vocab, EosSet, MaxNew, NoResult

VARIABLES completion, result

vars == <<completion, result>>

Ended(c) == c # <<>> /\ c[Len(c)] \in EosSet

Complete(c) == \A r \in Rows : Ended(c[r]) \/ Len(c[r]) = MaxNew

Init == completion = [r \in Rows |-> <<>>] /\ result = NoResult

\* All rows that have not ended advance together.
Round ==
  /\ result = NoResult
  /\ ~Complete(completion)
  /\ \E pick \in [{r \in Rows : ~Ended(completion[r])} -> Vocab] :
       completion' = [r \in Rows |-> IF r \in DOMAIN pick
                                     THEN Append(completion[r], pick[r]) ELSE completion[r]]
  /\ result' \in {NoResult, completion'}
  /\ result' # NoResult => Complete(completion')

Return ==
  /\ result = NoResult
  /\ Complete(completion)
  /\ result' = completion
  /\ UNCHANGED completion

Next == Round \/ Return

Spec == Init /\ [][Next]_vars
=============================================================================
