---------------------------- MODULE ServeClient ----------------------------
(***************************************************************************)
(* What the clients of Serve are promised, stated over the frames they     *)
(* have received.                                                          *)
(***************************************************************************)
EXTENDS Serve, SequencesExt

Kinds(fs) == [i \in DOMAIN fs |-> fs[i].kind]

\* The token number that must come next after the text of fs, if that text is
\* contiguous from token next on; 0 if it is not.
Follow(fs, next) ==
  FoldLeft(LAMBDA n, f : IF f.kind \notin {"seg", "body"} THEN n
                         ELSE IF f.lo = n THEN f.hi + 1 ELSE 0, next, fs)

\* The number of tokens whose text the client of r holds.
Delivered(r) == Follow(wire[r], 1) - 1

\* The finish_reason that frames fs give ("none" so far).
Said(fs) == FoldLeft(LAMBDA w, f : IF f.why = "none" THEN w ELSE f.why, "none", fs)

\* The one the client of r was given.
Verdict(r) == Said(wire[r])

\* The text on the wire, in the frame channel and in the task's hands is, in that
\* order and without gap or repetition, the text drain has released.
TextInOrder ==
  \A r \in Requests :
    /\ Follow(wire[r], 1) > 0
    /\ client[r] = "open" /\ req[r].sse =>
         Follow(wire[r] \o frames[r] \o pend[r], 1) = out[r] + 1

\* "length" is only said when the whole budget was generated and its text has
\* reached the client.
LengthMeansWhole ==
  \A r \in Requests : Verdict(r) = "length" => Delivered(r) = Budget(req[r])

\* The usage reported to a client agrees with the text it got: the prompt as
\* tokenized; on "length" one completion token per token of text; on a "stop"
\* that no stop string explains the EOS token on top of the text.
UsageHonest ==
  \A r \in Requests : \A i \in DOMAIN wire[r] :
    LET f == wire[r][i] IN
      /\ ~Victim(r)
      /\ f.kind \in {"usage", "body"} \/ (f.kind = "finish" /\ ~req[r].chat)
      => /\ f.p = req[r].prompt
         /\ Delivered(r) <= f.n /\ f.n <= Budget(req[r])
         /\ Verdict(r) = "length" => f.n = Delivered(r)
         /\ Verdict(r) = "stop" /\ ~req[r].stops => f.n = Delivered(r) + 1

\* The streams a client may see: a role frame first on chat, then text, then
\* either a finish frame (and the usage frame asked for) or an error frame, then
\* [DONE] and nothing more; a closed stream is a complete one.
Rank == [role |-> 0, seg |-> 1, finish |-> 2, error |-> 2, usage |-> 3, done |-> 4]

StreamGrammar ==
  \A r \in Requests : req[r].sse /\ wire[r] # <<>> /\ Kinds(wire[r]) # <<"busy">> =>
    LET k == Kinds(wire[r]) IN
      /\ \A i \in DOMAIN k : k[i] \in DOMAIN Rank
      /\ \A i, j \in DOMAIN k : i < j => Rank[k[i]] < Rank[k[j]] \/ (k[i] = "seg" /\ k[j] = "seg")
      /\ (k[1] = "role") <=> req[r].chat
      /\ \A j \in DOMAIN k : k[j] = "done" =>
           \E i \in 1..(j-1) : k[i] = "error" \/ (k[i] = "finish" /\ Verdict(r) # "none")
      /\ client[r] = "closed" => Last(k) = "done"

-----------------------------------------------------------------------------
\* The exchanges as their clients see them implement ServeContract.
Outcome(fs) ==
  FoldLeft(LAMBDA v, f : IF f.kind \in {"error", "bad"} THEN "error"
                         ELSE IF f.kind = "busy" THEN "busy"
                         ELSE IF f.why # "none" THEN f.why ELSE v, "none", fs)

Phase == [open |-> "open", idle |-> "idle", closed |-> "over", gone |-> "left", lost |-> "cut"]

Room(r) == IF client[r] = "idle" \/ UserError(req[r]) THEN 0 ELSE Budget(req[r])

Contract == INSTANCE ServeContract WITH
  phase   <- [r \in Requests |-> Phase[client[r]]],
  budget  <- [r \in Requests |-> Room(r)],
  text    <- [r \in Requests |-> Delivered(r)],
  verdict <- [r \in Requests |-> Outcome(wire[r])]

\* Each exchange brings its text in order and within budget, gives one verdict
\* that matches the text, and changes nothing afterwards.
RefinesContract == Contract!Spec
=============================================================================
