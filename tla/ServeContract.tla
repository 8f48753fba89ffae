--------------------------- MODULE ServeContract ---------------------------
(***************************************************************************)
(* What one exchange with the server promises, with no engine, channels or *)
(* tasks in sight: text arrives token after token and never beyond the     *)
(* request's budget; then one verdict is given, once; after the verdict    *)
(* nothing changes any more. "length" is said on the whole budget only,    *)
(* an error or a refusal on no text at all.                                *)
(***************************************************************************)
EXTENDS Integers

CONSTANT Requests

VARIABLES
  phase,    \* phase[r]: no exchange, an open one, one that is over or was left
  budget,   \* budget[r]: how many tokens the exchange may bring
  text,     \* text[r]: how many tokens of text the client holds
  verdict   \* verdict[r]: how the exchange was said to end

vars == <<phase, budget, text, verdict>>

Verdicts == {"none", "stop", "length", "error", "busy"}

Fits(t, b, v) ==
  /\ t <= b
  /\ v = "length" => t = b
  /\ v \in {"error", "busy"} => t = 0

Init ==
  /\ phase = [r \in Requests |-> "idle"]
  /\ budget = [r \in Requests |-> 0]
  /\ text = [r \in Requests |-> 0]
  /\ verdict = [r \in Requests |-> "none"]

\* A request is accepted, with some budget, or refused.
Open(r) ==
  /\ phase[r] = "idle"
  /\ phase' = [phase EXCEPT ![r] = "open"]
  /\ budget' = [budget EXCEPT ![r] = budget'[r]] /\ budget'[r] \in Nat
  /\ UNCHANGED <<text, verdict>>

Refuse(r) ==
  /\ phase[r] = "idle"
  /\ phase' = [phase EXCEPT ![r] = "over"]
  /\ budget' = [budget EXCEPT ![r] = budget'[r]] /\ budget'[r] \in Nat
  /\ verdict' = [verdict EXCEPT ![r] = "busy"]
  /\ UNCHANGED text

\* More text, the verdict, or both at once.
Respond(r) ==
  /\ phase[r] = "open" /\ verdict[r] = "none"
  /\ phase' = [phase EXCEPT ![r] = phase'[r]] /\ phase'[r] \in {"open", "over"}
  /\ text' = [text EXCEPT ![r] = text'[r]] /\ text'[r] >= text[r]
  /\ verdict' = [verdict EXCEPT ![r] = verdict'[r]]
  /\ verdict'[r] \in Verdicts \ {"busy"}
  /\ Fits(text'[r], budget[r], verdict'[r])
  /\ phase'[r] = "over" => verdict'[r] # "none"
  /\ UNCHANGED budget

\* The connection of an answered exchange closes.
Close(r) ==
  /\ phase[r] = "open" /\ verdict[r] # "none"
  /\ phase' = [phase EXCEPT ![r] = "over"]
  /\ UNCHANGED <<budget, text, verdict>>

\* The client leaves.
Leave(r) ==
  /\ phase[r] = "open"
  /\ phase' = [phase EXCEPT ![r] = "left"]
  /\ text' = [text EXCEPT ![r] = 0]
  /\ verdict' = [verdict EXCEPT ![r] = "none"]
  /\ UNCHANGED budget

\* The slot of an exchange that is over serves another one.
Reuse(r) ==
  /\ phase[r] \in {"over", "left"}
  /\ phase' = [phase EXCEPT ![r] = "idle"]
  /\ budget' = [budget EXCEPT ![r] = 0]
  /\ text' = [text EXCEPT ![r] = 0]
  /\ verdict' = [verdict EXCEPT ![r] = "none"]

\* The process ends: every open exchange is cut at once.
Cut ==
  /\ phase' = [r \in Requests |-> IF phase[r] = "open" THEN "cut" ELSE phase[r]]
  /\ UNCHANGED <<budget, text, verdict>>

Next ==
  \/ \E r \in Requests : Open(r) \/ Refuse(r) \/ Respond(r) \/ Close(r) \/ Leave(r) \/ Reuse(r)
  \/ Cut

Spec == Init /\ [][Next]_vars
=============================================================================
