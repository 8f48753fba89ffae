---------------------------- MODULE MCGeneration ----------------------------
(* An instance of Generation for TLC. *)
EXTENDS Generation, TLC

AllVariants == MtpVariants \cup {"ngram"}
AllLoops    == NeverStop \cup Stoppable
EveryEos    == {<<>>, <<2>>, <<1, 2>>}
=============================================================================
