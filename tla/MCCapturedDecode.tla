-------------------------- MODULE MCCapturedDecode --------------------------
(* An instance of CapturedDecode for TLC. *)
EXTENDS CapturedDecode

\* Prompts shorter than, as long as and longer than the captured one.
SomePrompts == UNION {[1..n -> {1, 2}] : n \in 1..4}

\* Depends on all it is given and ends some completions early.
SomeArgmax(tok, len, seed) == (2 * tok + len + seed) % 4
=============================================================================
