------------------------- MODULE ServeClientProofs -------------------------
(***************************************************************************)
(* Proofs of what the clients of Serve are promised: the grammar of the    *)
(* streams, the order of their text, the honesty of the verdict and of the *)
(* usage, and that the exchanges implement ServeContract.                  *)
(***************************************************************************)
EXTENDS ServeClient, ServeProofs, DataInduction

(***************************************************************************)
(* The inductive invariant, on top of IndInv.                              *)
(***************************************************************************)

\* A run of r that ends for reason w after k tokens of text counts n tokens.
Tally(r, w, n, k) ==
  /\ ~UserError(req[r]) /\ n <= Budget(req[r])
  /\ w \in {"stop", "length"}
  /\ w = "length" => n = k /\ k = Budget(req[r])
  /\ w = "stop" => n = k + 1

\* What an event in the return channel of r says is true of r.
TrueEvent(r, e) ==
  /\ e.kind = "start" => e.p = req[r].prompt
  /\ e.kind = "token" => e.n <= Room(r)
  /\ e.kind = "error" => UserError(req[r])
  /\ e.kind = "done" => e.p = req[r].prompt /\ Tally(r, e.why, e.n, Taken(r) - 1)

\* The prompt length is known, or still at the head of the channel.
PromptKnown(r) == Started(chan[r]) = 1 \/ ptoks[r] = req[r].prompt

EventInv(r) ==
  rx[r] =>
    /\ ctoks[r] <= Room(r)
    /\ \A i \in 1..Len(chan[r]) :
         /\ TrueEvent(r, chan[r][i])
         /\ chan[r][i].kind \in {"token", "done"} => PromptKnown(r)
    /\ cur = r /\ epc \in {"step", "push", "done"} => PromptKnown(r)
    /\ cur = r /\ epc = "done" => Tally(r, finish, completion, Taken(r))

\* The frames of r from the first one on: read, in the frame channel, still to send.
Stream(r) == wire[r] \o frames[r] \o pend[r]

\* A beginning of a stream: the role frame of a chat, then the text of tokens 1..out.
IsOpening(b, r) ==
  /\ b \in Seq(Frame) /\ Follow(b, 1) = out[r] + 1
  /\ req[r].chat => b # <<>>
  /\ \A i \in 1..Len(b) :
       /\ b[i].why = "none"
       /\ IF req[r].chat /\ i = 1 THEN b[i].kind = "role"
          ELSE b[i].kind = "seg" /\ 1 <= b[i].lo /\ b[i].lo <= b[i].hi

\* The verdict w with usage p, n is true of the text the client of r is sent.
Honest(r, w, p, n) ==
  /\ ~UserError(req[r]) /\ p \in Nat /\ n \in Nat
  /\ w \in {"stop", "length"}
  /\ w = "length" => out[r] = Budget(req[r])
  /\ ~Victim(r) =>
       /\ p = req[r].prompt /\ out[r] <= n /\ n <= Budget(req[r])
       /\ w = "length" => n = out[r]
       /\ w = "stop" /\ ~req[r].stops => n = out[r] + 1

\* An end of a stream.
IsEnding(e, r) ==
  \/ UserError(req[r]) /\ e = <<Plain("error"), Plain("done")>>
  \/ \E w \in {"stop", "length"} : \E p, n \in Nat :
       Honest(r, w, p, n) /\ e = Epilogue(req[r], w, p, n)

\* A whole JSON answer.
IsAnswer(f, r) ==
  \/ UserError(req[r]) /\ f = Plain("bad")
  \/ \E w \in {"stop", "length"} : \E p, n \in Nat :
       Honest(r, w, p, n) /\ f = Body(out[r], w, p, n)

\* The frames of a stream: its opening while the drain loop runs, the ending after it.
StreamOK(r) ==
  \E b : IsOpening(b, r) /\
    IF Waiting(r) THEN Stream(r) = b
    ELSE \E e : IsEnding(e, r) /\ Stream(r) = b \o e

AnswerOK(r) ==
  /\ frames[r] = <<>> /\ hpc[r] # "send"
  /\ IF client[r] = "closed" THEN \E f : IsAnswer(f, r) /\ wire[r] = <<f>>
     ELSE wire[r] = <<>> /\ hpc[r] = "recv"

\* The request was answered 429.
Refused(r) ==
  client[r] = "closed" /\ wire[r] = <<Plain("busy")>> /\ out[r] = 0

WireInv(r) ==
  /\ client[r] \in {"idle", "gone"} => wire[r] = <<>> /\ frames[r] = <<>>
  /\ client[r] = "idle" => out[r] = 0
  /\ client[r] = "closed" => frames[r] = <<>> /\ hpc[r] = "end"
  /\ client[r] = "lost" => proc = "exited"
  /\ client[r] = "gone" /\ ~req[r].sse => hpc[r] = "end"
  /\ hpc[r] # "send" => pend[r] = <<>>
  /\ hpc[r] = "send" => \A i \in 1..Len(pend[r]) - 1 : pend[r][i].kind # "done"
  /\ out[r] <= Room(r) /\ (Waiting(r) => out[r] <= ctoks[r])
  /\ client[r] \in {"open", "closed", "lost"} /\ ~Refused(r) =>
       IF req[r].sse THEN StreamOK(r) ELSE AnswerOK(r)

ClientInv ==
  /\ IndInv
  /\ epc = "error" => UserError(req[cur])
  /\ \A r \in Requests : EventInv(r) /\ WireInv(r)

-----------------------------------------------------------------------------
(***************************************************************************)
(* The folds over frames, as runs from one frame to the next.              *)
(***************************************************************************)
FollowStep == [p \in Nat \X Frame |->
  IF p[2].kind \notin {"seg", "body"} THEN p[1]
  ELSE IF p[2].lo = p[1] THEN p[2].hi + 1 ELSE 0]

Reasons == {"none", "stop", "length"}
SaidStep == [p \in Reasons \X Frame |-> IF p[2].why = "none" THEN p[1] ELSE p[2].why]

OutcomeStep == [p \in Contract!Verdicts \X Frame |->
  IF p[2].kind \in {"error", "bad"} THEN "error"
  ELSE IF p[2].kind = "busy" THEN "busy"
  ELSE IF p[2].why # "none" THEN p[2].why ELSE p[1]]

\* Follow is the last value of a run.
LEMMA FollowRun ==
  ASSUME NEW s \in Seq(Frame), NEW n \in Nat
  PROVE  \E g : IsRun(g, n, FollowStep, s, Nat) /\ Follow(s, n) = g[Len(s)]
  <1> DEFINE D == 1 .. Len(s)
             Op(v, f) == IF f.kind \notin {"seg", "body"} THEN v
                         ELSE IF f.lo = v THEN f.hi + 1 ELSE 0
             iter == CHOOSE h : h = [T \in SUBSET D |->
                                       IF T = {} THEN n ELSE Op(h[T \ {Max(T)}], s[Max(T)])]
  <1>1. Follow(s, n) = iter[D]
    <2>1. DOMAIN s = D
      OBVIOUS
    <2> QED
      BY <2>1 DEF Follow, FoldLeft, MapThenFoldSet
  <1>2. \A v \in Nat : \A f \in Frame : FollowStep[<<v, f>>] = Op(v, f)
    BY DEF Op, FollowStep
  <1>3. IsSeqStep(FollowStep, Nat, Frame) /\ n \in Nat
    BY DEF IsSeqStep, FollowStep, Frame
  <1>a. Len(s) \in Nat /\ \A i \in D : s[i] \in Frame
    OBVIOUS
  <1> HIDE DEF iter, Op
  <1>4. ASSUME NEW T \in SUBSET D, T # {}
        PROVE  Max(T) \in D /\ s[Max(T)] \in Frame /\ T \ {Max(T)} \in SUBSET D
    <2>1. Max(T) \in T
      BY <1>a, <1>4, MaxIndex
    <2> QED
      BY <1>a, <2>1
  <1>5. \E h : h = [T \in SUBSET D |-> IF T = {} THEN n ELSE Op(h[T \ {Max(T)}], s[Max(T)])]
    <2> USE DEF D
    <2>a. PICK h : SolvesFold(h, n, FollowStep, s, Nat)
      BY <1>3, SeqFoldSolved
    <2>1. h \in [SUBSET D -> Nat] /\ \A T \in SUBSET D :
            h[T] = IF T = {} THEN n ELSE FollowStep[<<h[T \ {Max(T)}], s[Max(T)]>>]
      BY <2>a DEF SolvesFold
    <2>2. ASSUME NEW T \in SUBSET D
          PROVE  h[T] = IF T = {} THEN n ELSE Op(h[T \ {Max(T)}], s[Max(T)])
      <3>1. CASE T = {}
        BY <2>1, <3>1
      <3>2. CASE T # {}
        <4>1. h[T \ {Max(T)}] \in Nat /\ s[Max(T)] \in Frame
          BY <1>4, <2>1, <3>2
        <4>2. h[T] = FollowStep[<<h[T \ {Max(T)}], s[Max(T)]>>]
          BY <2>1, <3>2
        <4> QED
          BY <1>2, <3>2, <4>1, <4>2
      <3> QED
        BY <3>1, <3>2
    <2> HIDE DEF D
    <2>3. h = [T \in SUBSET D |-> IF T = {} THEN n ELSE Op(h[T \ {Max(T)}], s[Max(T)])]
      BY <2>1, <2>2, Zenon
    <2> QED
      BY <2>3
  <1> HIDE DEF D
  <1>6. \A T \in SUBSET D : iter[T] = IF T = {} THEN n ELSE Op(iter[T \ {Max(T)}], s[Max(T)])
    BY <1>5 DEF iter
  <1>7. FoldsBy(iter, n, FollowStep, s, Nat)
    <2>1. iter[{}] = n
      BY <1>6
    <2>2. ASSUME NEW T \in SUBSET D, T # {}, iter[T \ {Max(T)}] \in Nat
          PROVE  iter[T] = FollowStep[<<iter[T \ {Max(T)}], s[Max(T)]>>]
      <3>1. s[Max(T)] \in Frame
        BY <1>4, <2>2
      <3>2. iter[T] = Op(iter[T \ {Max(T)}], s[Max(T)])
        BY <1>6, <2>2
      <3> QED
        BY <1>2, <2>2, <3>1, <3>2
    <2> QED
      BY <2>1, <2>2 DEF FoldsBy, D
  <1>8. PICK g : IsRun(g, n, FollowStep, s, Nat) /\ g[Len(s)] = iter[D]
    BY <1>3, <1>7, SeqFoldRun DEF D
  <1> QED
    BY <1>1, <1>8

\* So is Said.
LEMMA SaidRun ==
  ASSUME NEW s \in Seq(Frame)
  PROVE  \E g : IsRun(g, "none", SaidStep, s, Reasons) /\ Said(s) = g[Len(s)]
  <1> DEFINE D == 1 .. Len(s)
             Op(v, f) == IF f.why = "none" THEN v ELSE f.why
             iter == CHOOSE h : h = [T \in SUBSET D |->
                                       IF T = {} THEN "none" ELSE Op(h[T \ {Max(T)}], s[Max(T)])]
  <1>1. Said(s) = iter[D]
    <2>1. DOMAIN s = D
      OBVIOUS
    <2> QED
      BY <2>1 DEF Said, FoldLeft, MapThenFoldSet
  <1>2. \A v \in Reasons : \A f \in Frame : SaidStep[<<v, f>>] = Op(v, f)
    BY DEF Op, SaidStep
  <1>3. IsSeqStep(SaidStep, Reasons, Frame) /\ "none" \in Reasons
    BY DEF IsSeqStep, SaidStep, Frame, Reasons
  <1>a. Len(s) \in Nat /\ \A i \in D : s[i] \in Frame
    OBVIOUS
  <1> HIDE DEF iter, Op
  <1>4. ASSUME NEW T \in SUBSET D, T # {}
        PROVE  Max(T) \in D /\ s[Max(T)] \in Frame /\ T \ {Max(T)} \in SUBSET D
    <2>1. Max(T) \in T
      BY <1>a, <1>4, MaxIndex
    <2> QED
      BY <1>a, <2>1
  <1>5. \E h : h = [T \in SUBSET D |-> IF T = {} THEN "none" ELSE Op(h[T \ {Max(T)}], s[Max(T)])]
    <2> USE DEF D
    <2>a. PICK h : SolvesFold(h, "none", SaidStep, s, Reasons)
      BY <1>3, SeqFoldSolved
    <2>1. h \in [SUBSET D -> Reasons] /\ \A T \in SUBSET D :
            h[T] = IF T = {} THEN "none" ELSE SaidStep[<<h[T \ {Max(T)}], s[Max(T)]>>]
      BY <2>a DEF SolvesFold
    <2>2. ASSUME NEW T \in SUBSET D
          PROVE  h[T] = IF T = {} THEN "none" ELSE Op(h[T \ {Max(T)}], s[Max(T)])
      <3>1. CASE T = {}
        BY <2>1, <3>1
      <3>2. CASE T # {}
        <4>1. h[T \ {Max(T)}] \in Reasons /\ s[Max(T)] \in Frame
          BY <1>4, <2>1, <3>2
        <4>2. h[T] = SaidStep[<<h[T \ {Max(T)}], s[Max(T)]>>]
          BY <2>1, <3>2
        <4> QED
          BY <1>2, <3>2, <4>1, <4>2
      <3> QED
        BY <3>1, <3>2
    <2> HIDE DEF D
    <2>3. h = [T \in SUBSET D |-> IF T = {} THEN "none" ELSE Op(h[T \ {Max(T)}], s[Max(T)])]
      BY <2>1, <2>2, Zenon
    <2> QED
      BY <2>3
  <1> HIDE DEF D
  <1>6. \A T \in SUBSET D : iter[T] = IF T = {} THEN "none" ELSE Op(iter[T \ {Max(T)}], s[Max(T)])
    BY <1>5 DEF iter
  <1>7. FoldsBy(iter, "none", SaidStep, s, Reasons)
    <2>1. iter[{}] = "none"
      BY <1>6
    <2>2. ASSUME NEW T \in SUBSET D, T # {}, iter[T \ {Max(T)}] \in Reasons
          PROVE  iter[T] = SaidStep[<<iter[T \ {Max(T)}], s[Max(T)]>>]
      <3>1. s[Max(T)] \in Frame
        BY <1>4, <2>2
      <3>2. iter[T] = Op(iter[T \ {Max(T)}], s[Max(T)])
        BY <1>6, <2>2
      <3> QED
        BY <1>2, <2>2, <3>1, <3>2
    <2> QED
      BY <2>1, <2>2 DEF FoldsBy, D
  <1>8. PICK g : IsRun(g, "none", SaidStep, s, Reasons) /\ g[Len(s)] = iter[D]
    BY <1>3, <1>7, SeqFoldRun DEF D
  <1> QED
    BY <1>1, <1>8

\* So is Outcome.
LEMMA OutcomeRun ==
  ASSUME NEW s \in Seq(Frame)
  PROVE  \E g : IsRun(g, "none", OutcomeStep, s, Contract!Verdicts) /\ Outcome(s) = g[Len(s)]
  <1> DEFINE D == 1 .. Len(s)
             Op(v, f) == IF f.kind \in {"error", "bad"} THEN "error"
                         ELSE IF f.kind = "busy" THEN "busy"
                         ELSE IF f.why # "none" THEN f.why ELSE v
             iter == CHOOSE h : h = [T \in SUBSET D |->
                                       IF T = {} THEN "none" ELSE Op(h[T \ {Max(T)}], s[Max(T)])]
  <1>1. Outcome(s) = iter[D]
    <2>1. DOMAIN s = D
      OBVIOUS
    <2> QED
      BY <2>1 DEF Outcome, FoldLeft, MapThenFoldSet
  <1>2. \A v \in Contract!Verdicts : \A f \in Frame : OutcomeStep[<<v, f>>] = Op(v, f)
    BY DEF Op, OutcomeStep
  <1>3. IsSeqStep(OutcomeStep, Contract!Verdicts, Frame) /\ "none" \in Contract!Verdicts
    BY DEF IsSeqStep, OutcomeStep, Frame, Contract!Verdicts
  <1>a. Len(s) \in Nat /\ \A i \in D : s[i] \in Frame
    OBVIOUS
  <1> HIDE DEF iter, Op
  <1>4. ASSUME NEW T \in SUBSET D, T # {}
        PROVE  Max(T) \in D /\ s[Max(T)] \in Frame /\ T \ {Max(T)} \in SUBSET D
    <2>1. Max(T) \in T
      BY <1>a, <1>4, MaxIndex
    <2> QED
      BY <1>a, <2>1
  <1>5. \E h : h = [T \in SUBSET D |-> IF T = {} THEN "none" ELSE Op(h[T \ {Max(T)}], s[Max(T)])]
    <2> USE DEF D
    <2>a. PICK h : SolvesFold(h, "none", OutcomeStep, s, Contract!Verdicts)
      BY <1>3, SeqFoldSolved
    <2>1. h \in [SUBSET D -> Contract!Verdicts] /\ \A T \in SUBSET D :
            h[T] = IF T = {} THEN "none" ELSE OutcomeStep[<<h[T \ {Max(T)}], s[Max(T)]>>]
      BY <2>a DEF SolvesFold
    <2>2. ASSUME NEW T \in SUBSET D
          PROVE  h[T] = IF T = {} THEN "none" ELSE Op(h[T \ {Max(T)}], s[Max(T)])
      <3>1. CASE T = {}
        BY <2>1, <3>1
      <3>2. CASE T # {}
        <4>1. h[T \ {Max(T)}] \in Contract!Verdicts /\ s[Max(T)] \in Frame
          BY <1>4, <2>1, <3>2
        <4>2. h[T] = OutcomeStep[<<h[T \ {Max(T)}], s[Max(T)]>>]
          BY <2>1, <3>2
        <4> QED
          BY <1>2, <3>2, <4>1, <4>2
      <3> QED
        BY <3>1, <3>2
    <2> HIDE DEF D
    <2>3. h = [T \in SUBSET D |-> IF T = {} THEN "none" ELSE Op(h[T \ {Max(T)}], s[Max(T)])]
      BY <2>1, <2>2, Zenon
    <2> QED
      BY <2>3
  <1> HIDE DEF D
  <1>6. \A T \in SUBSET D : iter[T] = IF T = {} THEN "none" ELSE Op(iter[T \ {Max(T)}], s[Max(T)])
    BY <1>5 DEF iter
  <1>7. FoldsBy(iter, "none", OutcomeStep, s, Contract!Verdicts)
    <2>1. iter[{}] = "none"
      BY <1>6
    <2>2. ASSUME NEW T \in SUBSET D, T # {}, iter[T \ {Max(T)}] \in Contract!Verdicts
          PROVE  iter[T] = OutcomeStep[<<iter[T \ {Max(T)}], s[Max(T)]>>]
      <3>1. s[Max(T)] \in Frame
        BY <1>4, <2>2
      <3>2. iter[T] = Op(iter[T \ {Max(T)}], s[Max(T)])
        BY <1>6, <2>2
      <3> QED
        BY <1>2, <2>2, <3>1, <3>2
    <2> QED
      BY <2>1, <2>2 DEF FoldsBy, D
  <1>8. PICK g : IsRun(g, "none", OutcomeStep, s, Contract!Verdicts) /\ g[Len(s)] = iter[D]
    BY <1>3, <1>7, SeqFoldRun DEF D
  <1> QED
    BY <1>1, <1>8

-----------------------------------------------------------------------------
(***************************************************************************)
(* What the folds compute.                                                 *)
(***************************************************************************)

\* Frames one after the other.
LEMMA Joined ==
  ASSUME NEW s \in Seq(Frame), NEW t \in Seq(Frame)
  PROVE  /\ s \o t \in Seq(Frame) /\ Len(s) \in Nat /\ Len(t) \in Nat
         /\ Len(s \o t) = Len(s) + Len(t)
         /\ \A i \in 1..Len(s) : (s \o t)[i] = s[i] /\ s[i] \in Frame
         /\ \A i \in 1..Len(t) : (s \o t)[Len(s) + i] = t[i] /\ t[i] \in Frame
  <1>1. /\ s \o t \in Seq(Frame) /\ Len(s \o t) = Len(s) + Len(t)
        /\ \A i \in 1..Len(s) + Len(t) :
             (s \o t)[i] = IF i <= Len(s) THEN s[i] ELSE t[i - Len(s)]
    BY ConcatProperties
  <1>2. Len(s) \in Nat /\ Len(t) \in Nat
    BY LenProperties
  <1> DEFINE m == Len(s)  n == Len(t)  c == s \o t
  <1>3. \A i \in 1..m : c[i] = s[i] /\ s[i] \in Frame
    BY <1>1, <1>2, ElementOfSeq
  <1>4. \A i \in 1..n : c[m + i] = t[i] /\ t[i] \in Frame
    <2>1. ASSUME NEW i \in 1..n PROVE c[m + i] = t[i]
      <3>1. m + i \in 1..m + n /\ ~(m + i <= m) /\ (m + i) - m = i
        BY <1>2
      <3> HIDE DEF m, n
      <3> QED
        BY <1>1, <3>1 DEF m, n
    <2>2. \A i \in 1..n : t[i] \in Frame
      BY ElementOfSeq
    <2> QED
      BY <2>1, <2>2
  <1> QED
    BY <1>1, <1>2, <1>3, <1>4

\* A run over frames, one step.
LEMMA FollowOne ==
  \A n \in Nat : \A f \in Frame :
    /\ FollowStep[<<n, f>>] \in Nat
    /\ f.kind \notin {"seg", "body"} => FollowStep[<<n, f>>] = n
    /\ f.kind \in {"seg", "body"} => FollowStep[<<n, f>>] = IF f.lo = n THEN f.hi + 1 ELSE 0
  BY DEF FollowStep, Frame

\* Follow of frames and more frames goes on where the first left off.
LEMMA FollowConcat ==
  ASSUME NEW s \in Seq(Frame), NEW t \in Seq(Frame), NEW n \in Nat
  PROVE  Follow(s, n) \in Nat /\ Follow(s \o t, n) = Follow(t, Follow(s, n))
  <1> DEFINE c == s \o t  m == Len(s)  k == Len(t)
  <1>1. PICK g : IsRun(g, n, FollowStep, s, Nat) /\ Follow(s, n) = g[m]
    BY FollowRun
  <1>2. /\ c \in Seq(Frame) /\ m \in Nat /\ k \in Nat /\ Len(c) = m + k
        /\ \A i \in 1..m : c[i] = s[i]
        /\ \A i \in 1..k : c[m + i] = t[i]
    BY Joined
  <1>3. g[m] \in Nat
    BY <1>1, <1>2 DEF IsRun
  <1> HIDE DEF c
  <1>4. PICK f : IsRun(f, n, FollowStep, c, Nat) /\ Follow(c, n) = f[Len(c)]
    BY <1>2, FollowRun
  <1>5. PICK h : IsRun(h, g[m], FollowStep, t, Nat) /\ Follow(t, g[m]) = h[k]
    BY <1>3, FollowRun
  <1> HIDE DEF m, k
  <1>6. f[m] = g[m]
    <2>1. m <= Len(c) /\ m <= Len(s) /\ Len(c) \in Nat /\ Len(s) \in Nat /\ m \in 0..m
      BY <1>2 DEF m
    <2>2. /\ IsRun(f, n, FollowStep, c, Nat) /\ IsRun(g, n, FollowStep, s, Nat)
          /\ \A i \in 1..m : c[i] = s[i]
      BY <1>1, <1>2, <1>4
    <2>3. m \in Nat
      BY <1>2
    <2>4. \A i \in 0..m : f[i] = g[i]
      BY <2>1, <2>2, <2>3, RunsAgree
    <2> QED
      BY <2>1, <2>4
  <1> DEFINE T == {i \in 0..k : h[i] = f[m + i]}
  <1>7. 0 \in T
    BY <1>2, <1>5, <1>6 DEF IsRun
  <1>8. ASSUME NEW i \in 0..k - 1, i \in T PROVE i + 1 \in T
    <2>1. /\ i + 1 \in 1..k /\ (i + 1) - 1 = i /\ m + (i + 1) \in 1..m + k
          /\ (m + (i + 1)) - 1 = m + i
      BY <1>2
    <2>2. h[i + 1] = FollowStep[<<h[i], t[i + 1]>>]
      BY <1>5, <2>1 DEF IsRun, k
    <2>3. f[m + (i + 1)] = FollowStep[<<f[m + i], c[m + (i + 1)]>>]
      BY <1>2, <1>4, <2>1 DEF IsRun
    <2>4. c[m + (i + 1)] = t[i + 1]
      BY <1>2, <2>1
    <2>5. h[i] = f[m + i]
      BY <1>8
    <2>6. h[i + 1] = f[m + (i + 1)]
      BY <2>2, <2>3, <2>4, <2>5
    <2> QED
      BY <1>2, <2>1, <2>6
  <1> HIDE DEF T
  <1>9. \A i \in 0..k : i \in T
    BY <1>2, <1>7, <1>8, UpToInduction
  <1>10. h[k] = f[m + k]
    BY <1>2, <1>9 DEF T
  <1> QED
    BY <1>1, <1>2, <1>3, <1>4, <1>5, <1>10 DEF c, m, k

\* Frames without text move nothing.
LEMMA FollowNoText ==
  ASSUME NEW s \in Seq(Frame), NEW n \in Nat,
         \A i \in 1..Len(s) : s[i].kind \notin {"seg", "body"}
  PROVE  Follow(s, n) = n
  <1> DEFINE k == Len(s)
  <1>1. PICK g : IsRun(g, n, FollowStep, s, Nat) /\ Follow(s, n) = g[k]
    BY FollowRun
  <1>2. k \in Nat /\ \A i \in 1..k : s[i] \in Frame
    BY LenProperties, ElementOfSeq
  <1> DEFINE T == {i \in 0..k : g[i] = n}
  <1>3. 0 \in T
    BY <1>1, <1>2 DEF IsRun
  <1>4. ASSUME NEW i \in 0..k - 1, i \in T PROVE i + 1 \in T
    <2>1. i + 1 \in 1..k /\ (i + 1) - 1 = i
      BY <1>2
    <2>2. g[i + 1] = FollowStep[<<g[i], s[i + 1]>>]
      BY <1>1, <2>1 DEF IsRun
    <2>3. FollowStep[<<n, s[i + 1]>>] = n
      BY <1>2, <2>1, FollowOne
    <2> QED
      BY <1>4, <2>1, <2>2, <2>3
  <1> HIDE DEF T, k
  <1>5. \A i \in 0..k : i \in T
    BY <1>2, <1>3, <1>4, UpToInduction
  <1> QED
    BY <1>1, <1>2, <1>5 DEF T, k

\* A nonempty piece of text.
IsText(f) == f.kind = "seg" /\ 1 <= f.lo /\ f.lo <= f.hi

\* Contiguous text only grows.
LEMMA FollowGrows ==
  ASSUME NEW s \in Seq(Frame), NEW n \in Nat,
         \A i \in 1..Len(s) : IsText(s[i]) \/ s[i].kind \notin {"seg", "body"},
         Follow(s, n) > 0
  PROVE  0 < n /\ n <= Follow(s, n)
  <1> DEFINE k == Len(s)
  <1>1. PICK g : IsRun(g, n, FollowStep, s, Nat) /\ Follow(s, n) = g[k]
    BY FollowRun
  <1>2. k \in Nat /\ \A i \in 1..k : s[i] \in Frame
    BY LenProperties, ElementOfSeq
  <1> HIDE DEF k
  <1>a. \A i \in 0..k : g[i] \in Nat
    BY <1>1, <1>2 DEF IsRun, k
  <1> DEFINE T == {i \in 0..k : g[i] > 0 => 0 < n /\ n <= g[i]}
  <1>3. 0 \in T
    BY <1>1, <1>2 DEF IsRun
  <1>4. ASSUME NEW i \in 0..k - 1, i \in T PROVE i + 1 \in T
    <2>1. i + 1 \in 1..k /\ (i + 1) - 1 = i /\ i \in 0..k /\ i + 1 \in 0..k
      BY <1>2
    <2>2. g[i + 1] = FollowStep[<<g[i], s[i + 1]>>]
      BY <1>1, <2>1 DEF IsRun, k
    <2>3. g[i] \in Nat /\ g[i + 1] \in Nat /\ s[i + 1] \in Frame
      BY <1>a, <1>2, <2>1
    <2>4. CASE s[i + 1].kind \notin {"seg", "body"}
      <3>1. g[i + 1] = g[i]
        BY <2>2, <2>3, <2>4, FollowOne
      <3> QED
        BY <1>4, <2>1, <3>1
    <2>5. CASE IsText(s[i + 1])
      <3> DEFINE lo == s[i + 1].lo  hi == s[i + 1].hi
      <3>1. g[i + 1] = IF lo = g[i] THEN hi + 1 ELSE 0
        BY <2>2, <2>3, <2>5, FollowOne DEF IsText
      <3>2. lo \in Nat /\ hi \in Nat /\ 1 <= lo /\ lo <= hi
        BY <2>3, <2>5 DEF IsText, Frame
      <3> HIDE DEF lo, hi
      <3>3. g[i + 1] > 0 => g[i] > 0 /\ g[i] <= g[i + 1]
        BY <2>3, <3>1, <3>2
      <3> QED
        BY <1>4, <2>1, <2>3, <3>3
    <2>6. IsText(s[i + 1]) \/ s[i + 1].kind \notin {"seg", "body"}
      BY <2>1 DEF k
    <2> QED
      BY <2>4, <2>5, <2>6
  <1> HIDE DEF T
  <1>5. \A i \in 0..k : i \in T
    BY <1>2, <1>3, <1>4, UpToInduction
  <1> QED
    BY <1>1, <1>2, <1>5 DEF T

\* The text of the tokens from lo to hi, in one piece.
LEMMA FollowText ==
  ASSUME NEW lo \in Nat \ {0}, NEW hi \in Nat, lo <= hi + 1
  PROVE  /\ Text(lo, hi) \in Seq(Frame) /\ Follow(Text(lo, hi), lo) = hi + 1
         /\ \A i \in 1..Len(Text(lo, hi)) : IsText(Text(lo, hi)[i]) /\ Text(lo, hi)[i].why = "none"
  <1> DEFINE f == Segment(lo, hi)
  <1>1. f \in Frame /\ f.kind = "seg"
    BY FrameTypes
  <1>2. f.lo = lo /\ f.hi = hi /\ f.why = "none"
    BY DEF Segment, Plain
  <1> HIDE DEF f
  <1>3. CASE lo > hi
    <2> DEFINE s == <<>>
    <2>1. Text(lo, hi) = s /\ lo = hi + 1
      BY <1>3 DEF Text
    <2>2. s \in Seq(Frame) /\ \A i \in 1..Len(s) : FALSE
      OBVIOUS
    <2> HIDE DEF s
    <2>3. Follow(s, lo) = lo
      BY <2>2, FollowNoText
    <2> QED
      BY <2>1, <2>2, <2>3
  <1>4. CASE ~(lo > hi)
    <2> DEFINE s == <<f>>
    <2>1. Text(lo, hi) = s
      BY <1>4 DEF Text, f
    <2>2. s \in Seq(Frame) /\ Len(s) = 1 /\ s[1] = f
      BY <1>1
    <2> HIDE DEF s
    <2>3. PICK g : IsRun(g, lo, FollowStep, s, Nat) /\ Follow(s, lo) = g[Len(s)]
      BY <2>2, FollowRun
    <2>4. g[0] = lo /\ g[1] = FollowStep[<<g[0], f>>]
      <3>1. 1 \in 1..Len(s) /\ 1 - 1 = 0
        BY <2>2
      <3>2. g[1] = FollowStep[<<g[1 - 1], s[1]>>]
        BY <2>3, <3>1 DEF IsRun
      <3> QED
        BY <2>2, <2>3, <3>1, <3>2 DEF IsRun
    <2>5. Follow(s, lo) = hi + 1
      BY <1>1, <1>2, <2>2, <2>3, <2>4, FollowOne
    <2>6. IsText(f)
      BY <1>1, <1>2, <1>4 DEF IsText
    <2>7. \A i \in 1..Len(s) : s[i] = f
      BY <2>2
    <2> QED
      BY <1>2, <2>1, <2>2, <2>5, <2>6, <2>7
  <1> QED
    BY <1>3, <1>4

\* The reason given by frames of which only the one after the first k may give one.
LEMMA SaidIs ==
  ASSUME NEW s \in Seq(Frame), NEW k \in Nat,
         \A i \in 1..Len(s) : i # k + 1 => s[i].why = "none"
  PROVE  Said(s) = IF k < Len(s) THEN s[k + 1].why ELSE "none"
  <1> DEFINE n == Len(s)
             Val(i) == IF k < i THEN s[k + 1].why ELSE "none"
  <1>1. PICK g : IsRun(g, "none", SaidStep, s, Reasons) /\ Said(s) = g[n]
    BY SaidRun
  <1>2. n \in Nat /\ \A i \in 1..n : s[i] \in Frame
    BY LenProperties, ElementOfSeq
  <1>3. \A v \in Reasons : \A f \in Frame :
          SaidStep[<<v, f>>] = IF f.why = "none" THEN v ELSE f.why
    BY DEF SaidStep
  <1> DEFINE U == {i \in 0..n : g[i] = Val(i)}
  <1>4. 0 \in U
    BY <1>1, <1>2 DEF IsRun
  <1>5. ASSUME NEW i \in 0..n - 1, i \in U PROVE i + 1 \in U
    <2>1. i + 1 \in 1..n /\ (i + 1) - 1 = i /\ i \in 0..n
      BY <1>2
    <2>2. g[i + 1] = SaidStep[<<g[i], s[i + 1]>>] /\ g[i] \in Reasons
      BY <1>1, <2>1 DEF IsRun
    <2>3. g[i + 1] = IF s[i + 1].why = "none" THEN Val(i) ELSE s[i + 1].why
      BY <1>2, <1>3, <1>5, <2>1, <2>2
    <2>4. CASE i = k
      BY <2>1, <2>3, <2>4
    <2>5. CASE i # k
      <3>1. s[i + 1].why = "none"
        BY <2>1, <2>5
      <3>2. k < i <=> k < i + 1
        BY <2>5
      <3> QED
        BY <2>1, <2>3, <3>1, <3>2
    <2> QED
      BY <2>4, <2>5
  <1> HIDE DEF U, n
  <1>6. \A i \in 0..n : i \in U
    BY <1>2, <1>4, <1>5, UpToInduction
  <1> QED
    BY <1>1, <1>2, <1>6 DEF U, n

\* The same of the outcome.
LEMMA OutcomeIs ==
  ASSUME NEW s \in Seq(Frame), NEW k \in Nat,
         \A i \in 1..Len(s) : i # k + 1 => s[i].why = "none" /\ s[i].kind \notin {"error", "bad", "busy"}
  PROVE  Outcome(s) = IF k < Len(s) THEN OutcomeStep[<<"none", s[k + 1]>>] ELSE "none"
  <1> DEFINE n == Len(s)
             Val(i) == IF k < i THEN OutcomeStep[<<"none", s[k + 1]>>] ELSE "none"
  <1>1. PICK g : IsRun(g, "none", OutcomeStep, s, Contract!Verdicts) /\ Outcome(s) = g[n]
    BY OutcomeRun
  <1>2. n \in Nat /\ \A i \in 1..n : s[i] \in Frame
    BY LenProperties, ElementOfSeq
  <1>3. \A v \in Contract!Verdicts : \A f \in Frame :
          f.why = "none" /\ f.kind \notin {"error", "bad", "busy"} => OutcomeStep[<<v, f>>] = v
    BY DEF OutcomeStep
  <1> DEFINE U == {i \in 0..n : g[i] = Val(i)}
  <1>4. 0 \in U
    BY <1>1, <1>2 DEF IsRun
  <1>5. ASSUME NEW i \in 0..n - 1, i \in U PROVE i + 1 \in U
    <2>1. i + 1 \in 1..n /\ (i + 1) - 1 = i /\ i \in 0..n
      BY <1>2
    <2>2. g[i + 1] = OutcomeStep[<<g[i], s[i + 1]>>] /\ g[i] \in Contract!Verdicts
      BY <1>1, <2>1 DEF IsRun
    <2>4. CASE i = k
      <3>1. g[i] = "none"
        BY <1>5, <2>4
      <3> QED
        BY <2>1, <2>2, <2>4, <3>1
    <2>5. CASE i # k
      <3>1. s[i + 1].why = "none" /\ s[i + 1].kind \notin {"error", "bad", "busy"}
        BY <2>1, <2>5
      <3>2. g[i + 1] = g[i]
        BY <1>2, <1>3, <2>1, <2>2, <3>1
      <3>3. k < i <=> k < i + 1
        BY <2>5
      <3> QED
        BY <1>5, <2>1, <3>2, <3>3
    <2> QED
      BY <2>4, <2>5
  <1> HIDE DEF U, n
  <1>6. \A i \in 0..n : i \in U
    BY <1>2, <1>4, <1>5, UpToInduction
  <1> QED
    BY <1>1, <1>2, <1>6 DEF U, n

-----------------------------------------------------------------------------
(***************************************************************************)
(* What a client has read, from the shape of its stream.                   *)
(***************************************************************************)

\* f carries the token usage of the request in slot r.
Carries(f, r) == f.kind \in {"usage", "body"} \/ (f.kind = "finish" /\ ~req[r].chat)

\* The fields of the frames.
LEMMA FrameFields ==
  /\ \A k : Plain(k).kind = k /\ Plain(k).why = "none" /\ Plain(k).lo = 1 /\ Plain(k).hi = 0
  /\ \A w : Finish(w).kind = "finish" /\ Finish(w).why = w
  /\ \A w, p, n : LET f == FinishWith(w, p, n) IN
       f.kind = "finish" /\ f.why = w /\ f.p = p /\ f.n = n
  /\ \A p, n : LET f == UsageOf(p, n) IN
       f.kind = "usage" /\ f.why = "none" /\ f.p = p /\ f.n = n
  /\ \A hi, w, p, n : LET f == Body(hi, w, p, n) IN
       f.kind = "body" /\ f.why = w /\ f.p = p /\ f.n = n /\ f.lo = 1 /\ f.hi = hi
  <1> USE DEF Plain, Finish, FinishWith, UsageOf, Body
  <1>1. \A k : Plain(k).kind = k /\ Plain(k).why = "none" /\ Plain(k).lo = 1 /\ Plain(k).hi = 0
    OBVIOUS
  <1>2. \A w : Finish(w).kind = "finish" /\ Finish(w).why = w
    OBVIOUS
  <1>3. \A w, p, n : LET f == FinishWith(w, p, n) IN
          f.kind = "finish" /\ f.why = w /\ f.p = p /\ f.n = n
    OBVIOUS
  <1>4. \A p, n : LET f == UsageOf(p, n) IN
          f.kind = "usage" /\ f.why = "none" /\ f.p = p /\ f.n = n
    OBVIOUS
  <1>5. \A hi, w, p, n : LET f == Body(hi, w, p, n) IN
          f.kind = "body" /\ f.why = w /\ f.p = p /\ f.n = n /\ f.lo = 1 /\ f.hi = hi
    OBVIOUS
  <1> QED
    BY <1>1, <1>2, <1>3, <1>4, <1>5

\* A frame after frames.
LEMMA Followed ==
  ASSUME NEW s \in Seq(Frame), NEW f \in Frame
  PROVE  /\ s \o <<f>> \in Seq(Frame) /\ Len(s) \in Nat /\ Len(s \o <<f>>) = Len(s) + 1
         /\ \A i \in 1..Len(s) : (s \o <<f>>)[i] = s[i]
         /\ (s \o <<f>>)[Len(s) + 1] = f
  <1> DEFINE t == <<f>>
  <1>1. t \in Seq(Frame) /\ Len(t) = 1 /\ t[1] = f /\ 1 \in 1..1
    OBVIOUS
  <1> HIDE DEF t
  <1>2. /\ s \o t \in Seq(Frame) /\ Len(s) \in Nat /\ Len(s \o t) = Len(s) + Len(t)
        /\ \A i \in 1..Len(s) : (s \o t)[i] = s[i]
        /\ \A i \in 1..Len(t) : (s \o t)[Len(s) + i] = t[i]
    BY <1>1, Joined
  <1>3. (s \o t)[Len(s) + 1] = f
    BY <1>1, <1>2
  <1> QED
    BY <1>1, <1>2, <1>3 DEF t

\* The same when few frames come before it.
LEMMA InARow ==
  /\ \A a, b \in Frame : <<a>> \o <<b>> = <<a, b>>
  /\ \A a, b, c \in Frame : <<a, b>> \o <<c>> = <<a, b, c>>
  /\ \A a \in Frame : <<a>> \o <<>> = <<a>>
  <1>1. ASSUME NEW a \in Frame, NEW b \in Frame PROVE <<a>> \o <<b>> = <<a, b>>
    <2> DEFINE s == <<a>>  u == s \o <<b>>  d == <<a, b>>
    <2>1. s \in Seq(Frame) /\ Len(s) = 1 /\ s[1] = a /\ 1 \in 1..1
      OBVIOUS
    <2>2. d \in Seq(Frame) /\ Len(d) = 2 /\ d[1] = a /\ d[2] = b /\ 1 + 1 = 2
      OBVIOUS
    <2> HIDE DEF s, d
    <2>3. u \in Seq(Frame) /\ Len(u) = Len(s) + 1 /\ u[Len(s) + 1] = b
          /\ \A i \in 1..Len(s) : u[i] = s[i]
      BY <2>1, Followed
    <2> HIDE DEF u
    <2>4. \A i \in 1..2 : i = 1 \/ i = 2
      OBVIOUS
    <2>5. Len(u) = Len(d) /\ \A i \in 1..Len(u) : u[i] = d[i]
      BY <2>1, <2>2, <2>3, <2>4
    <2>6. u = d
      BY <2>2, <2>3, <2>5, SeqEqual
    <2> QED
      BY <2>6 DEF s, u, d
  <1>2. ASSUME NEW a \in Frame, NEW b \in Frame, NEW c \in Frame
        PROVE  <<a, b>> \o <<c>> = <<a, b, c>>
    <2> DEFINE s == <<a, b>>  u == s \o <<c>>  d == <<a, b, c>>
    <2>1. s \in Seq(Frame) /\ Len(s) = 2 /\ s[1] = a /\ s[2] = b /\ 1 \in 1..2 /\ 2 \in 1..2
      OBVIOUS
    <2>2. d \in Seq(Frame) /\ Len(d) = 3 /\ d[1] = a /\ d[2] = b /\ d[3] = c /\ 2 + 1 = 3
      OBVIOUS
    <2> HIDE DEF s, d
    <2>3. u \in Seq(Frame) /\ Len(u) = Len(s) + 1 /\ u[Len(s) + 1] = c
          /\ \A i \in 1..Len(s) : u[i] = s[i]
      BY <2>1, Followed
    <2> HIDE DEF u
    <2>4. \A i \in 1..3 : i = 1 \/ i = 2 \/ i = 3
      OBVIOUS
    <2>5. Len(u) = Len(d) /\ \A i \in 1..Len(u) : u[i] = d[i]
      BY <2>1, <2>2, <2>3, <2>4
    <2>6. u = d
      BY <2>2, <2>3, <2>5, SeqEqual
    <2> QED
      BY <2>6 DEF s, u, d
  <1>3. ASSUME NEW a \in Frame PROVE <<a>> \o <<>> = <<a>>
    OBVIOUS
  <1> QED
    BY <1>1, <1>2, <1>3

\* The three forms of an epilogue.
LEMMA EpilogueIs ==
  ASSUME NEW q, NEW w \in {"stop", "length"}, NEW p \in Nat, NEW n \in Nat
  PROVE  /\ ~q.chat => Epilogue(q, w, p, n) = <<FinishWith(w, p, n), Plain("done")>>
         /\ q.chat /\ q.usage =>
              Epilogue(q, w, p, n) = <<Finish(w), UsageOf(p, n), Plain("done")>>
         /\ q.chat /\ ~q.usage => Epilogue(q, w, p, n) = <<Finish(w), Plain("done")>>
  <1> DEFINE a == Finish(w)  b == FinishWith(w, p, n)  u == UsageOf(p, n)  d == Plain("done")
  <1>1. a \in Frame /\ b \in Frame /\ u \in Frame /\ d \in Frame
    BY FrameTypes
  <1>2. Epilogue(q, w, p, n) =
          IF ~q.chat THEN <<b, d>> ELSE <<a>> \o (IF q.usage THEN <<u>> ELSE <<>>) \o <<d>>
    BY DEF Epilogue
  <1> HIDE DEF a, b, u, d
  <1>3. /\ <<a>> \o <<u>> = <<a, u>> /\ <<a>> \o <<>> = <<a>>
        /\ <<a, u>> \o <<d>> = <<a, u, d>> /\ <<a>> \o <<d>> = <<a, d>>
    BY <1>1, InARow
  <1>4. ~q.chat => Epilogue(q, w, p, n) = <<b, d>>
    BY <1>2, <1>3, Zenon
  <1>5. q.chat /\ q.usage => Epilogue(q, w, p, n) = <<a, u, d>>
    BY <1>2, <1>3, Zenon
  <1>6. q.chat /\ ~q.usage => Epilogue(q, w, p, n) = <<a, d>>
    BY <1>2, <1>3, Zenon
  <1> QED
    BY <1>4, <1>5, <1>6 DEF a, b, u, d

\* Ending e says w with usage p, n, and that is true of the text of r.
Closing(e, r, w, p, n) ==
  /\ Honest(r, w, p, n)
  /\ e[1].kind = "finish" /\ e[1].why = w
  /\ \A i \in 1..Len(e) : Carries(e[i], r) => e[i].p = p /\ e[i].n = n

\* The frames of an ending: the verdict, the usage if it is asked for, [DONE].
EndingFacts(e, r) ==
  /\ e \in Seq(Frame) /\ Len(e) \in {2, 3}
  /\ \A i \in 1..Len(e) :
       /\ e[i].kind \in {"finish", "usage", "done", "error"}
       /\ e[i].kind = "done" <=> i = Len(e)
       /\ e[i].kind \in {"finish", "error"} <=> i = 1
       /\ i # 1 => e[i].why = "none"
  /\ \A i, j \in 1..Len(e) : i < j => Rank[e[i].kind] < Rank[e[j].kind]
  /\ \/ UserError(req[r]) /\ e[1].kind = "error" /\ e[1].why = "none" /\ Len(e) = 2
     \/ \E w \in {"stop", "length"} : \E p, n \in Nat : Closing(e, r, w, p, n)

\* An ending is as described.
LEMMA EndingIs ==
  ASSUME NEW r \in Requests, NEW e, IsEnding(e, r)
  PROVE  EndingFacts(e, r)
  <1>0. /\ Rank["finish"] = 2 /\ Rank["error"] = 2 /\ Rank["usage"] = 3 /\ Rank["done"] = 4
    BY DEF Rank
  <1>1. CASE UserError(req[r]) /\ e = <<Plain("error"), Plain("done")>>
    <2>1. /\ Plain("error") \in Frame /\ Plain("done") \in Frame
          /\ Plain("error").kind = "error" /\ Plain("done").kind = "done"
          /\ Plain("error").why = "none" /\ Plain("done").why = "none"
      BY FrameTypes, FrameFields
    <2>2. e \in Seq(Frame) /\ Len(e) = 2 /\ e[1] = Plain("error") /\ e[2] = Plain("done")
      BY <1>1, <2>1
    <2>3. \A i \in 1..2 : i = 1 \/ i = 2
      OBVIOUS
    <2> QED
      BY <1>0, <1>1, <2>1, <2>2, <2>3 DEF EndingFacts
  <1>2. ASSUME NEW w \in {"stop", "length"}, NEW p \in Nat, NEW n \in Nat, Honest(r, w, p, n),
               e = Epilogue(req[r], w, p, n)
        PROVE  EndingFacts(e, r)
    <2>1. /\ Plain("done") \in Frame /\ Finish(w) \in Frame /\ FinishWith(w, p, n) \in Frame
          /\ UsageOf(p, n) \in Frame
      BY FrameTypes
    <2>2. \E c, u :
            /\ c \in Frame /\ c.kind = "finish" /\ c.why = w
            /\ ~req[r].chat => c.p = p /\ c.n = n
            /\ u \in Frame /\ u.kind = "usage" /\ u.why = "none" /\ u.p = p /\ u.n = n
            /\ e = <<c, Plain("done")>> \/ e = <<c, u, Plain("done")>>
      <3>1. UsageOf(p, n).kind = "usage" /\ UsageOf(p, n).why = "none"
            /\ UsageOf(p, n).p = p /\ UsageOf(p, n).n = n
        BY FrameFields
      <3>2. CASE ~req[r].chat
        <4>1. FinishWith(w, p, n).kind = "finish" /\ FinishWith(w, p, n).why = w
              /\ FinishWith(w, p, n).p = p /\ FinishWith(w, p, n).n = n
          BY FrameFields
        <4> QED
          BY <1>2, <2>1, <3>1, <3>2, <4>1, EpilogueIs
      <3>3. CASE req[r].chat
        <4>1. Finish(w).kind = "finish" /\ Finish(w).why = w
          BY FrameFields
        <4> QED
          BY <1>2, <2>1, <3>1, <3>3, <4>1, EpilogueIs
      <3> QED
        BY <3>2, <3>3
    <2>3. PICK c, u :
            /\ c \in Frame /\ c.kind = "finish" /\ c.why = w
            /\ ~req[r].chat => c.p = p /\ c.n = n
            /\ u \in Frame /\ u.kind = "usage" /\ u.why = "none" /\ u.p = p /\ u.n = n
            /\ e = <<c, Plain("done")>> \/ e = <<c, u, Plain("done")>>
      BY <2>2
    <2> DEFINE d == Plain("done")
    <2>4. d \in Frame /\ d.kind = "done" /\ d.why = "none"
      BY <2>1, FrameFields
    <2> HIDE DEF d
    <2>5. CASE e = <<c, Plain("done")>>
      <3>1. e \in Seq(Frame) /\ Len(e) = 2 /\ e[1] = c /\ e[2] = d
        BY <2>3, <2>4, <2>5 DEF d
      <3>2. \A i \in 1..2 : i = 1 \/ i = 2
        OBVIOUS
      <3>3. \A i \in 1..Len(e) : Carries(e[i], r) => e[i].p = p /\ e[i].n = n
        BY <2>3, <2>4, <3>1, <3>2 DEF Carries
      <3> QED
        BY <1>0, <1>2, <2>3, <2>4, <3>1, <3>2, <3>3 DEF EndingFacts, Closing
    <2>6. CASE e = <<c, u, Plain("done")>>
      <3>1. e \in Seq(Frame) /\ Len(e) = 3 /\ e[1] = c /\ e[2] = u /\ e[3] = d
        BY <2>3, <2>4, <2>6 DEF d
      <3>2. \A i \in 1..3 : i = 1 \/ i = 2 \/ i = 3
        OBVIOUS
      <3>3. \A i \in 1..Len(e) : Carries(e[i], r) => e[i].p = p /\ e[i].n = n
        BY <2>3, <2>4, <3>1, <3>2 DEF Carries
      <3> QED
        BY <1>0, <1>2, <2>3, <2>4, <3>1, <3>2, <3>3 DEF EndingFacts, Closing
    <2> QED
      BY <2>3, <2>5, <2>6
  <1> QED
    BY <1>1, <1>2 DEF IsEnding

\* One frame alone.
LEMMA OneFrame ==
  ASSUME NEW f \in Frame
  PROVE  /\ <<f>> \in Seq(Frame) /\ Len(<<f>>) = 1 /\ <<f>>[1] = f
         /\ Follow(<<f>>, 1) = IF f.kind \notin {"seg", "body"} THEN 1
                               ELSE IF f.lo = 1 THEN f.hi + 1 ELSE 0
         /\ Said(<<f>>) = f.why
         /\ Outcome(<<f>>) = OutcomeStep[<<"none", f>>]
  <1> DEFINE s == <<f>>
  <1>1. s \in Seq(Frame) /\ Len(s) = 1 /\ s[1] = f
    OBVIOUS
  <1> HIDE DEF s
  <1>2. 0 \in Nat /\ 0 + 1 = 1 /\ (\A i \in 1..Len(s) : i = 1) /\ 0 < Len(s)
    BY <1>1
  <1>3. Said(s) = f.why
    <2>1. \A i \in 1..Len(s) : i # 0 + 1 => s[i].why = "none"
      BY <1>2
    <2>2. Said(s) = IF 0 < Len(s) THEN s[0 + 1].why ELSE "none"
      BY <1>1, <2>1, SaidIs
    <2> QED
      BY <1>1, <1>2, <2>2
  <1>4. Outcome(s) = OutcomeStep[<<"none", f>>]
    <2>1. \A i \in 1..Len(s) :
            i # 0 + 1 => s[i].why = "none" /\ s[i].kind \notin {"error", "bad", "busy"}
      BY <1>2
    <2>2. Outcome(s) = IF 0 < Len(s) THEN OutcomeStep[<<"none", s[0 + 1]>>] ELSE "none"
      BY <1>1, <2>1, OutcomeIs
    <2> QED
      BY <1>1, <1>2, <2>2
  <1>5. Follow(s, 1) = IF f.kind \notin {"seg", "body"} THEN 1
                       ELSE IF f.lo = 1 THEN f.hi + 1 ELSE 0
    <2>1. PICK g : IsRun(g, 1, FollowStep, s, Nat) /\ Follow(s, 1) = g[Len(s)]
      BY <1>1, FollowRun
    <2>2. g[0] = 1 /\ g[1] = FollowStep[<<g[0], f>>]
      <3>1. 1 \in 1..Len(s) /\ 1 - 1 = 0
        BY <1>1
      <3>2. g[1] = FollowStep[<<g[1 - 1], s[1]>>]
        BY <2>1, <3>1 DEF IsRun
      <3> QED
        BY <1>1, <2>1, <3>1, <3>2 DEF IsRun
    <2> QED
      BY <1>1, <2>1, <2>2, FollowOne
  <1> QED
    BY <1>1, <1>3, <1>4, <1>5 DEF s

\* No frame at all.
LEMMA NoFrame == Follow(<<>>, 1) = 1 /\ Said(<<>>) = "none" /\ Outcome(<<>>) = "none"
  <1> DEFINE s == <<>>
  <1>1. s \in Seq(Frame) /\ Len(s) = 0 /\ (\A i \in 1..Len(s) : FALSE) /\ 0 \in Nat /\ 1 \in Nat
    OBVIOUS
  <1> HIDE DEF s
  <1>2. Follow(s, 1) = 1
    BY <1>1, FollowNoText
  <1>a. \A i \in 1..Len(s) :
          i # 0 + 1 => s[i].why = "none" /\ s[i].kind \notin {"error", "bad", "busy"}
    BY <1>1
  <1>3. Said(s) = IF 0 < Len(s) THEN s[0 + 1].why ELSE "none"
    BY <1>1, <1>a, SaidIs
  <1>4. Outcome(s) = IF 0 < Len(s) THEN OutcomeStep[<<"none", s[0 + 1]>>] ELSE "none"
    BY <1>1, <1>a, OutcomeIs
  <1> QED
    BY <1>1, <1>2, <1>3, <1>4 DEF s

\* What the frames w say, those a client has read of an opening b and an ending e.
ReadOf(w, b, e, r) ==
  /\ w \in Seq(Frame) /\ Len(w) \in Nat /\ Len(b) \in Nat /\ Len(w) <= Len(b) + Len(e)
  /\ \A i \in 1..Len(w) : w[i] = IF i <= Len(b) THEN b[i] ELSE e[i - Len(b)]
  /\ Follow(w, 1) \in Nat /\ 0 < Follow(w, 1) /\ Follow(w, 1) <= out[r] + 1
  /\ Len(b) <= Len(w) => Follow(w, 1) = out[r] + 1
  /\ Said(w) = IF Len(b) < Len(w) THEN e[1].why ELSE "none"
  /\ Outcome(w) = IF Len(b) < Len(w)
                    THEN IF e[1].kind = "error" THEN "error" ELSE e[1].why ELSE "none"

\* The frames read so far of an opening, or of an opening and an ending, are so.
LEMMA ReadsOf ==
  ASSUME NEW r \in Requests, out[r] \in Nat, NEW b, IsOpening(b, r),
         NEW e, e = <<>> \/ IsEnding(e, r),
         NEW w \in Seq(Frame), NEW t \in Seq(Frame), w \o t = b \o e
  PROVE  ReadOf(w, b, e, r) /\ Follow(b \o e, 1) = out[r] + 1
  <1> DEFINE s == b \o e  k == Len(b)  m == Len(w)
  <1>1. b \in Seq(Frame) /\ Follow(b, 1) = out[r] + 1
    BY DEF IsOpening
  <1>2. \A i \in 1..k : b[i].why = "none" /\ b[i].kind \in {"role", "seg"}
                        /\ (b[i].kind = "seg" => IsText(b[i]))
    BY DEF IsOpening, IsText
  <1>3. /\ e \in Seq(Frame)
        /\ \A i \in 1..Len(e) :
             /\ e[i].kind \in {"finish", "usage", "done", "error"}
             /\ e[i].kind \in {"finish", "error"} <=> i = 1
             /\ i # 1 => e[i].why = "none"
    <2>1. CASE e = <<>>
      <3>1. e \in Seq(Frame) /\ \A i \in 1..Len(e) : FALSE
        BY <2>1
      <3> QED
        BY <3>1
    <2>2. CASE IsEnding(e, r)
      BY <2>2, EndingIs DEF EndingFacts
    <2> QED
      BY <2>1, <2>2
  <1>s. s = b \o e /\ s = w \o t /\ k = Len(b) /\ m = Len(w)
    OBVIOUS
  <1> HIDE DEF s, k, m
  <1>a. s = b \o e /\ s = w \o t
    BY <1>s
  <1>4. /\ s \in Seq(Frame) /\ k \in Nat /\ Len(e) \in Nat /\ Len(s) = k + Len(e)
        /\ \A i \in 1..k : s[i] = b[i] /\ b[i] \in Frame
        /\ \A i \in 1..Len(e) : s[k + i] = e[i] /\ e[i] \in Frame
    <2>1. /\ b \o e \in Seq(Frame) /\ Len(b) \in Nat /\ Len(e) \in Nat
          /\ Len(b \o e) = Len(b) + Len(e)
          /\ \A i \in 1..Len(b) : (b \o e)[i] = b[i] /\ b[i] \in Frame
          /\ \A i \in 1..Len(e) : (b \o e)[Len(b) + i] = e[i] /\ e[i] \in Frame
      BY <1>1, <1>3, Joined
    <2> QED
      BY <1>s, <2>1, Zenon
  <1>5. /\ m \in Nat /\ Len(t) \in Nat /\ Len(s) = m + Len(t)
        /\ \A i \in 1..m : s[i] = w[i] /\ w[i] \in Frame
        /\ \A i \in 1..Len(t) : s[m + i] = t[i] /\ t[i] \in Frame
    <2>1. /\ Len(w) \in Nat /\ Len(t) \in Nat
          /\ Len(w \o t) = Len(w) + Len(t)
          /\ \A i \in 1..Len(w) : (w \o t)[i] = w[i] /\ w[i] \in Frame
          /\ \A i \in 1..Len(t) : (w \o t)[Len(w) + i] = t[i] /\ t[i] \in Frame
      BY Joined
    <2> QED
      BY <1>s, <2>1, Zenon
  <1>6. \A i \in 1..m : w[i] = IF i <= k THEN b[i] ELSE e[i - k]
    <2>1. ASSUME NEW i \in 1..m, i <= k PROVE w[i] = b[i]
      BY <1>4, <1>5, <2>1
    <2>2. ASSUME NEW i \in 1..m, ~(i <= k) PROVE w[i] = e[i - k]
      <3>1. i - k \in 1..Len(e) /\ k + (i - k) = i
        BY <1>4, <1>5, <2>2
      <3> QED
        BY <1>4, <1>5, <3>1
    <2> QED
      BY <2>1, <2>2
  <1>7. \A i \in 1..Len(s) : s[i] = IF i <= k THEN b[i] ELSE e[i - k]
    <2>1. ASSUME NEW i \in 1..Len(s), ~(i <= k) PROVE s[i] = e[i - k]
      <3>1. i - k \in 1..Len(e) /\ k + (i - k) = i
        BY <1>4, <2>1
      <3> QED
        BY <1>4, <3>1
    <2> QED
      BY <1>4, <2>1
  <1>8. \A i \in 1..Len(s) :
          IF i <= k THEN s[i].why = "none" /\ s[i].kind \in {"role", "seg"}
                         /\ (s[i].kind = "seg" => IsText(s[i]))
          ELSE /\ s[i].kind \in {"finish", "usage", "done", "error"}
               /\ (i # k + 1 => s[i].why = "none" /\ s[i].kind # "error")
    <2> SUFFICES ASSUME NEW i \in 1..Len(s)
                 PROVE IF i <= k THEN s[i].why = "none" /\ s[i].kind \in {"role", "seg"}
                                      /\ (s[i].kind = "seg" => IsText(s[i]))
                       ELSE /\ s[i].kind \in {"finish", "usage", "done", "error"}
                            /\ (i # k + 1 => s[i].why = "none" /\ s[i].kind # "error")
      OBVIOUS
    <2>1. CASE i <= k
      <3>1. i \in 1..k /\ s[i] = b[i]
        BY <1>4, <1>7, <2>1
      <3> QED
        BY <1>2, <2>1, <3>1 DEF k
    <2>2. CASE ~(i <= k)
      <3> DEFINE j == i - k
      <3>1. j \in 1..Len(e) /\ s[i] = e[j] /\ (i # k + 1 => j # 1)
        BY <1>4, <1>7, <2>2
      <3> HIDE DEF j
      <3> QED
        BY <1>3, <2>2, <3>1
    <2> QED
      BY <2>1, <2>2
  <1>9. \A i \in 1..m : i \in 1..Len(s) /\ w[i] = s[i]
    BY <1>5
  <1>10. Follow(s, 1) = out[r] + 1
    <2>a. 1 \in Nat /\ out[r] + 1 \in Nat
      OBVIOUS
    <2>b. Follow(b \o e, 1) = Follow(e, Follow(b, 1))
      BY <1>1, <1>3, <2>a, FollowConcat
    <2>1. Follow(s, 1) = Follow(e, out[r] + 1)
      BY <1>a, <1>1, <2>b, Zenon
    <2>2. Follow(e, out[r] + 1) = out[r] + 1
      <3>1. \A i \in 1..Len(e) : e[i].kind \notin {"seg", "body"}
        BY <1>3
      <3> QED
        BY <1>3, <2>a, <3>1, FollowNoText
    <2> QED
      BY <2>1, <2>2
  <1>11. Follow(w, 1) \in Nat /\ Follow(s, 1) = Follow(t, Follow(w, 1))
    <2>1. 1 \in Nat
      OBVIOUS
    <2>2. Follow(w, 1) \in Nat /\ Follow(w \o t, 1) = Follow(t, Follow(w, 1))
      BY <2>1, FollowConcat
    <2> QED
      BY <1>a, <2>2, Zenon
  <1>12. \A i \in 1..Len(t) : m + i \in 1..Len(s) /\ t[i] = s[m + i]
    BY <1>5
  <1>13. 0 < Follow(w, 1) /\ Follow(w, 1) <= out[r] + 1
    <2>1. \A i \in 1..Len(t) : IsText(t[i]) \/ t[i].kind \notin {"seg", "body"}
      BY <1>8, <1>12
    <2>2. Follow(t, Follow(w, 1)) > 0
      BY <1>10, <1>11
    <2> QED
      BY <1>10, <1>11, <2>1, <2>2, FollowGrows
  <1>14. k <= m => Follow(w, 1) = out[r] + 1
    <2> SUFFICES ASSUME k <= m PROVE Follow(w, 1) = out[r] + 1
      OBVIOUS
    <2>1. ASSUME NEW i \in 1..Len(t) PROVE t[i].kind \notin {"seg", "body"}
      <3>1. ~(m + i <= k)
        BY <1>4, <1>5
      <3> QED
        BY <1>8, <1>12, <3>1
    <2>2. Follow(t, Follow(w, 1)) = Follow(w, 1)
      BY <1>11, <2>1, FollowNoText
    <2> QED
      BY <1>10, <1>11, <2>2
  <1>15. \A i \in 1..m : i # k + 1 => w[i].why = "none" /\ w[i].kind \notin {"error", "bad", "busy"}
    BY <1>8, <1>9
  <1>16. k < m => k + 1 \in 1..m /\ w[k + 1] = e[1] /\ 1 \in 1..Len(e) /\ e[1] \in Frame
    <2> SUFFICES ASSUME k < m PROVE k + 1 \in 1..m /\ w[k + 1] = e[1] /\ 1 \in 1..Len(e)
                                    /\ e[1] \in Frame
      OBVIOUS
    <2>1. k + 1 \in 1..m /\ ~(k + 1 <= k) /\ (k + 1) - k = 1 /\ 1 \in 1..Len(e)
      BY <1>4, <1>5
    <2>2. w[k + 1] = e[(k + 1) - k]
      BY <1>6, <2>1
    <2> QED
      BY <1>4, <2>1, <2>2
  <1>17. Said(w) = IF k < m THEN e[1].why ELSE "none"
    BY <1>4, <1>15, <1>16, SaidIs DEF m
  <1>18. Outcome(w) = IF k < m THEN IF e[1].kind = "error" THEN "error" ELSE e[1].why ELSE "none"
    <2>1. Outcome(w) = IF k < m THEN OutcomeStep[<<"none", w[k + 1]>>] ELSE "none"
      BY <1>4, <1>15, OutcomeIs DEF m
    <2>2. k < m => OutcomeStep[<<"none", e[1]>>] = IF e[1].kind = "error" THEN "error" ELSE e[1].why
      <3>1. k < m => e[1] \in Frame /\ e[1].kind \in {"finish", "error"}
        BY <1>3, <1>16
      <3>2. \A f \in Frame : f.kind \in {"finish", "error"} =>
              OutcomeStep[<<"none", f>>] = IF f.kind = "error" THEN "error" ELSE f.why
        BY DEF OutcomeStep, Contract!Verdicts
      <3> QED
        BY <3>1, <3>2
    <2> QED
      BY <1>16, <2>1, <2>2
  <1>19. m <= k + Len(e)
    BY <1>4, <1>5
  <1> QED
    BY <1>4, <1>5, <1>6, <1>10, <1>11, <1>13, <1>14, <1>17, <1>18, <1>19 DEF ReadOf, s, k, m

\* Sequences of frames chain.
LEMMA Regrouped ==
  ASSUME NEW a \in Seq(Frame), NEW b \in Seq(Frame), NEW c \in Seq(Frame)
  PROVE  /\ a \o b \in Seq(Frame) /\ b \o c \in Seq(Frame)
         /\ (a \o b) \o c = a \o (b \o c)
  BY ConcatProperties, ConcatAssociative

\* No frame more changes nothing.
LEMMA NoneMore ==
  ASSUME NEW a \in Seq(Frame)
  PROVE  a \o <<>> = a /\ <<>> \o a = a
  BY ConcatEmptySeq

\* What is on the wire of r: an opening, perhaps with an ending, as far as read.
IsReading(b, e, r) ==
  /\ IsOpening(b, r)
  /\ IF Waiting(r) THEN e = <<>> ELSE IsEnding(e, r)
  /\ ReadOf(wire[r], b, e, r)
  /\ Follow(Stream(r), 1) = out[r] + 1
  /\ client[r] = "closed" => e # <<>> /\ Len(wire[r]) = Len(b) + Len(e)

ReadsStream(r) == \E b, e : IsReading(b, e, r)

\* The four shapes a wire can have.
LEMMA WireShapes ==
  ASSUME ClientInv, NEW r \in Requests
  PROVE  \/ client[r] \in {"idle", "gone"} /\ wire[r] = <<>>
         \/ Refused(r)
         \/ client[r] \in {"open", "closed", "lost"} /\ ~Refused(r) /\ req[r].sse /\ ReadsStream(r)
         \/ ~req[r].sse /\ wire[r] = <<>>
         \/ ~req[r].sse /\ client[r] = "closed" /\ \E f : IsAnswer(f, r) /\ wire[r] = <<f>>
  <1>1. WireInv(r) /\ IndInv
    BY DEF ClientInv
  <1>2. /\ wire[r] \in Seq(Frame) /\ frames[r] \in Seq(Frame) /\ pend[r] \in Seq(Frame)
        /\ out[r] \in Nat /\ client[r] \in {"idle", "open", "closed", "gone", "lost"}
    BY <1>1, HandlerTypes, ChanTypes
  <1>3. CASE client[r] \in {"open", "closed", "lost"} /\ ~Refused(r) /\ req[r].sse
    <2>1. StreamOK(r)
      BY <1>1, <1>3 DEF WireInv
    <2>2. PICK b : IsOpening(b, r) /\ IF Waiting(r) THEN Stream(r) = b
                                      ELSE \E e : IsEnding(e, r) /\ Stream(r) = b \o e
      BY <2>1 DEF StreamOK
    <2>3. b \in Seq(Frame)
      BY <2>2 DEF IsOpening
    <2>4. \E e : /\ IF Waiting(r) THEN e = <<>> ELSE IsEnding(e, r)
                 /\ Stream(r) = b \o e
      BY <2>2, <2>3, NoneMore
    <2>5. PICK e : /\ IF Waiting(r) THEN e = <<>> ELSE IsEnding(e, r)
                   /\ Stream(r) = b \o e
      BY <2>4
    <2> DEFINE t == frames[r] \o pend[r]
    <2>6. t \in Seq(Frame) /\ Stream(r) = wire[r] \o t
      BY <1>2, Regrouped DEF Stream
    <2> HIDE DEF t
    <2>7. wire[r] \o t = b \o e
      BY <2>5, <2>6
    <2>8. e = <<>> \/ IsEnding(e, r)
      BY <2>5
    <2>9. ReadOf(wire[r], b, e, r) /\ Follow(b \o e, 1) = out[r] + 1
      BY <1>2, <2>2, <2>6, <2>7, <2>8, ReadsOf
    <2>10. ASSUME client[r] = "closed" PROVE e # <<>> /\ Len(wire[r]) = Len(b) + Len(e)
      <3>1. ~Waiting(r) /\ frames[r] = <<>> /\ pend[r] = <<>>
        BY <1>1, <2>10 DEF WireInv, Waiting
      <3>2. Stream(r) = wire[r]
        BY <1>2, <3>1, NoneMore DEF Stream
      <3>3. e \in Seq(Frame) /\ Len(e) \in {2, 3}
        BY <2>5, <3>1, EndingIs DEF EndingFacts
      <3>4. Len(b \o e) = Len(b) + Len(e)
        BY <2>3, <3>3, Joined
      <3>5. Len(<<>>) = 0
        OBVIOUS
      <3>6. e # <<>>
        BY <3>3, <3>5
      <3>7. wire[r] = b \o e
        BY <2>5, <3>2
      <3>8. Len(wire[r]) = Len(b) + Len(e)
        BY <3>4, <3>7, Zenon
      <3> QED
        BY <3>6, <3>8
    <2> QED
      BY <1>3, <2>2, <2>5, <2>9, <2>10 DEF ReadsStream, IsReading
  <1>4. CASE client[r] \in {"open", "closed", "lost"} /\ ~Refused(r) /\ ~req[r].sse
    BY <1>1, <1>4 DEF WireInv, AnswerOK
  <1>5. CASE client[r] \in {"idle", "gone"}
    BY <1>1, <1>5 DEF WireInv
  <1> QED
    BY <1>2, <1>3, <1>4, <1>5

\* The whole body of a JSON answer, and the refusal, as the folds see them.
LEMMA AnswerRead ==
  ASSUME NEW r \in Requests, out[r] \in Nat, NEW f, IsAnswer(f, r)
  PROVE  /\ f \in Frame
         /\ \/ /\ UserError(req[r]) /\ f.kind = "bad" /\ Said(<<f>>) = "none"
               /\ Follow(<<f>>, 1) = 1 /\ Outcome(<<f>>) = "error"
            \/ \E w \in {"stop", "length"} : \E p, n \in Nat :
                 /\ Honest(r, w, p, n) /\ f.kind = "body" /\ f.p = p /\ f.n = n
                 /\ Said(<<f>>) = w /\ Follow(<<f>>, 1) = out[r] + 1 /\ Outcome(<<f>>) = w
  <1>1. CASE UserError(req[r]) /\ f = Plain("bad")
    <2>1. f \in Frame /\ f.kind = "bad" /\ f.why = "none"
      BY <1>1, FrameTypes, FrameFields
    <2>2. OutcomeStep[<<"none", f>>] = "error"
      BY <2>1 DEF OutcomeStep, Contract!Verdicts
    <2> QED
      BY <1>1, <2>1, <2>2, OneFrame
  <1>2. ASSUME NEW w \in {"stop", "length"}, NEW p \in Nat, NEW n \in Nat,
               Honest(r, w, p, n), f = Body(out[r], w, p, n)
        PROVE  /\ f \in Frame /\ f.kind = "body" /\ f.p = p /\ f.n = n
               /\ Said(<<f>>) = w /\ Follow(<<f>>, 1) = out[r] + 1 /\ Outcome(<<f>>) = w
    <2>1. f \in Frame /\ f.kind = "body" /\ f.why = w /\ f.p = p /\ f.n = n
          /\ f.lo = 1 /\ f.hi = out[r]
      <3>1. Body(out[r], w, p, n) \in Frame
        BY FrameTypes
      <3>2. LET g == Body(out[r], w, p, n) IN
              g.kind = "body" /\ g.why = w /\ g.p = p /\ g.n = n /\ g.lo = 1 /\ g.hi = out[r]
        BY FrameFields
      <3> QED
        BY <1>2, <3>1, <3>2, Zenon
    <2>2. OutcomeStep[<<"none", f>>] = w
      BY <2>1 DEF OutcomeStep, Contract!Verdicts
    <2> QED
      BY <2>1, <2>2, OneFrame
  <1> QED
    BY <1>1, <1>2 DEF IsAnswer

\* What a 429 answer says.
LEMMA BusyRead ==
  /\ Plain("busy") \in Frame /\ Plain("busy").kind = "busy"
  /\ Follow(<<Plain("busy")>>, 1) = 1 /\ Said(<<Plain("busy")>>) = "none"
  /\ Outcome(<<Plain("busy")>>) = "busy"
  <1>1. Plain("busy") \in Frame /\ Plain("busy").kind = "busy" /\ Plain("busy").why = "none"
    BY FrameTypes, FrameFields
  <1>2. OutcomeStep[<<"none", Plain("busy")>>] = "busy"
    BY <1>1 DEF OutcomeStep, Contract!Verdicts
  <1> QED
    BY <1>1, <1>2, OneFrame

\* Text on every wire is contiguous, and with what is under way it is what drain
\* released.
LEMMA OrderHolds == ClientInv => TextInOrder
  <1> SUFFICES ASSUME ClientInv, NEW r \in Requests
               PROVE  /\ Follow(wire[r], 1) > 0
                      /\ client[r] = "open" /\ req[r].sse =>
                           Follow(wire[r] \o frames[r] \o pend[r], 1) = out[r] + 1
    BY DEF TextInOrder
  <1>1. out[r] \in Nat
    BY HandlerTypes DEF ClientInv, IndInv
  <1>2. CASE client[r] \in {"idle", "gone"} /\ wire[r] = <<>>
    BY <1>2, NoFrame
  <1>3. CASE Refused(r)
    BY <1>3, BusyRead DEF Refused
  <1>4. CASE ReadsStream(r)
    BY <1>4 DEF ReadsStream, IsReading, ReadOf, Stream
  <1>5. CASE ~req[r].sse /\ wire[r] = <<>>
    BY <1>5, NoFrame
  <1>6. ASSUME ~req[r].sse, NEW f, IsAnswer(f, r), wire[r] = <<f>>
        PROVE  Follow(wire[r], 1) > 0
    BY <1>1, <1>6, AnswerRead
  <1> QED
    BY <1>2, <1>3, <1>4, <1>5, <1>6, WireShapes

\* What Verdict and Delivered are worth, when a verdict is on the wire.
LEMMA VerdictRead ==
  ASSUME ClientInv, NEW r \in Requests, Verdict(r) # "none"
  PROVE  \E p, n \in Nat : Honest(r, Verdict(r), p, n) /\ Delivered(r) = out[r]
  <1>1. out[r] \in Nat
    BY HandlerTypes DEF ClientInv, IndInv
  <1>2. CASE wire[r] = <<>>
    BY <1>2, NoFrame DEF Verdict
  <1>3. CASE Refused(r)
    BY <1>3, BusyRead DEF Refused, Verdict
  <1>4. ASSUME NEW b, NEW e, IsReading(b, e, r)
        PROVE  \E p, n \in Nat : Honest(r, Verdict(r), p, n) /\ Delivered(r) = out[r]
    <2>1. ReadOf(wire[r], b, e, r)
      BY <1>4 DEF IsReading
    <2>2. Len(b) < Len(wire[r]) /\ Verdict(r) = e[1].why /\ Len(b) \in Nat
          /\ Len(wire[r]) \in Nat /\ Len(wire[r]) <= Len(b) + Len(e)
      BY <2>1 DEF ReadOf, Verdict
    <2>3. Len(<<>>) = 0
      OBVIOUS
    <2>4. EndingFacts(e, r)
      BY <1>4, <2>2, <2>3, EndingIs DEF IsReading
    <2>5. Follow(wire[r], 1) = out[r] + 1
      BY <2>1, <2>2 DEF ReadOf
    <2>6. \E w \in {"stop", "length"} : \E p, n \in Nat : Honest(r, w, p, n) /\ e[1].why = w
      BY <2>2, <2>4 DEF EndingFacts, Closing
    <2> QED
      BY <1>1, <2>2, <2>5, <2>6 DEF Delivered
  <1>5. ASSUME NEW f, IsAnswer(f, r), wire[r] = <<f>>
        PROVE  \E p, n \in Nat : Honest(r, Verdict(r), p, n) /\ Delivered(r) = out[r]
    BY <1>1, <1>5, AnswerRead DEF Verdict, Delivered
  <1> QED
    BY <1>2, <1>3, <1>4, <1>5, WireShapes DEF ReadsStream

\* "length" is the whole budget.
LEMMA LengthHolds == ClientInv => LengthMeansWhole
  BY VerdictRead DEF LengthMeansWhole, Honest

\* The usage on a wire is that of the ending it belongs to.
LEMMA UsageRead ==
  ASSUME ClientInv, NEW r \in Requests, NEW i \in DOMAIN wire[r], Carries(wire[r][i], r)
  PROVE  \E w \in {"stop", "length"} : \E p, n \in Nat :
           /\ Honest(r, w, p, n) /\ wire[r][i].p = p /\ wire[r][i].n = n
           /\ Verdict(r) = w /\ Delivered(r) = out[r]
  <1>1. out[r] \in Nat /\ wire[r] \in Seq(Frame)
    BY HandlerTypes, ChanTypes DEF ClientInv, IndInv
  <1>a. i \in 1..Len(wire[r]) /\ Len(wire[r]) \in Nat
    BY <1>1
  <1>2. CASE wire[r] = <<>>
    BY <1>2
  <1>3. CASE Refused(r)
    <2>1. wire[r][i] = Plain("busy")
      BY <1>3 DEF Refused
    <2> QED
      BY <2>1, BusyRead DEF Carries
  <1>4. ASSUME NEW b, NEW e, IsReading(b, e, r)
        PROVE  \E w \in {"stop", "length"} : \E p, n \in Nat :
                 /\ Honest(r, w, p, n) /\ wire[r][i].p = p /\ wire[r][i].n = n
                 /\ Verdict(r) = w /\ Delivered(r) = out[r]
    <2>1. ReadOf(wire[r], b, e, r) /\ IsOpening(b, r)
      BY <1>4 DEF IsReading
    <2>2. /\ Len(b) \in Nat /\ Len(wire[r]) <= Len(b) + Len(e)
          /\ wire[r][i] = IF i <= Len(b) THEN b[i] ELSE e[i - Len(b)]
      BY <1>a, <2>1 DEF ReadOf
    <2>3. ~(i <= Len(b))
      <3> SUFFICES ASSUME i <= Len(b) PROVE FALSE
        OBVIOUS
      <3>1. i \in 1..Len(b)
        BY <1>a, <2>2
      <3>2. b[i].kind \in {"role", "seg"}
        BY <2>1, <3>1 DEF IsOpening
      <3> QED
        BY <2>2, <3>2 DEF Carries
    <2> DEFINE j == i - Len(b)
    <2>4. e # <<>>
      <3>1. Len(<<>>) = 0
        OBVIOUS
      <3> QED
        BY <1>a, <2>2, <2>3, <3>1
    <2>5. EndingFacts(e, r)
      BY <1>4, <2>4, EndingIs DEF IsReading
    <2>6. j \in 1..Len(e) /\ wire[r][i] = e[j] /\ Len(b) < Len(wire[r])
      <3>1. Len(e) \in Nat
        BY <2>5 DEF EndingFacts
      <3> QED
        BY <1>a, <2>2, <2>3, <3>1
    <2> HIDE DEF j
    <2>7. Verdict(r) = e[1].why /\ Follow(wire[r], 1) = out[r] + 1
      BY <1>a, <2>1, <2>2, <2>6 DEF ReadOf, Verdict
    <2>8. Len(e) # 2 \/ e[1].kind # "error"
      <3> SUFFICES ASSUME Len(e) = 2, e[1].kind = "error" PROVE FALSE
        OBVIOUS
      <3>1. j = 1 \/ j = 2
        BY <2>6
      <3>2. e[j].kind \in {"error", "done"}
        <4>1. 2 \in 1..Len(e)
          OBVIOUS
        <4>2. e[2].kind = "done"
          BY <2>5, <4>1 DEF EndingFacts
        <4> QED
          BY <3>1, <4>2
      <3> QED
        BY <2>6, <3>2 DEF Carries
    <2>9. \E w \in {"stop", "length"} : \E p, n \in Nat :
            Closing(e, r, w, p, n)
      BY <2>5, <2>8 DEF EndingFacts
    <2>10. PICK w \in {"stop", "length"} : \E p, n \in Nat : Closing(e, r, w, p, n)
      BY <2>9
    <2>11. PICK p \in Nat, n \in Nat : Closing(e, r, w, p, n)
      BY <2>10
    <2>12. wire[r][i].p = p /\ wire[r][i].n = n /\ Honest(r, w, p, n) /\ e[1].why = w
      BY <2>6, <2>11 DEF Closing
    <2>13. Delivered(r) = out[r]
      BY <1>1, <2>7 DEF Delivered
    <2> QED
      BY <2>7, <2>12, <2>13
  <1>5. ASSUME NEW f, IsAnswer(f, r), wire[r] = <<f>>
        PROVE  \E w \in {"stop", "length"} : \E p, n \in Nat :
                 /\ Honest(r, w, p, n) /\ wire[r][i].p = p /\ wire[r][i].n = n
                 /\ Verdict(r) = w /\ Delivered(r) = out[r]
    <2>1. wire[r][i] = f
      BY <1>5
    <2>2. f.kind # "bad"
      BY <2>1 DEF Carries
    <2>3. \E w \in {"stop", "length"} : \E p, n \in Nat :
            /\ Honest(r, w, p, n) /\ f.p = p /\ f.n = n
            /\ Said(<<f>>) = w /\ Follow(<<f>>, 1) = out[r] + 1
      BY <1>1, <1>5, <2>2, AnswerRead
    <2>4. Verdict(r) = Said(<<f>>) /\ Delivered(r) = Follow(<<f>>, 1) - 1
      BY <1>5 DEF Verdict, Delivered
    <2> QED
      BY <1>1, <2>1, <2>3, <2>4
  <1> QED
    BY <1>2, <1>3, <1>4, <1>5, WireShapes DEF ReadsStream

\* The usage is honest.
LEMMA UsageHolds == ClientInv => UsageHonest
  <1> SUFFICES ASSUME ClientInv, NEW r \in Requests, NEW i \in DOMAIN wire[r],
                      ~Victim(r), Carries(wire[r][i], r)
               PROVE  /\ wire[r][i].p = req[r].prompt
                      /\ Delivered(r) <= wire[r][i].n /\ wire[r][i].n <= Budget(req[r])
                      /\ Verdict(r) = "length" => wire[r][i].n = Delivered(r)
                      /\ Verdict(r) = "stop" /\ ~req[r].stops => wire[r][i].n = Delivered(r) + 1
    BY DEF UsageHonest, Carries
  <1>1. PICK w \in {"stop", "length"} : \E p, n \in Nat :
           /\ Honest(r, w, p, n) /\ wire[r][i].p = p /\ wire[r][i].n = n
           /\ Verdict(r) = w /\ Delivered(r) = out[r]
    BY UsageRead
  <1> QED
    BY <1>1 DEF Honest

\* The kinds of frames, as a sequence.
LEMMA KindsAre ==
  ASSUME NEW s \in Seq(Frame)
  PROVE  /\ Len(s) \in Nat /\ DOMAIN Kinds(s) = 1..Len(s)
         /\ \A i \in 1..Len(s) : Kinds(s)[i] = s[i].kind
         /\ s # <<>> => 1 \in 1..Len(s) /\ Last(Kinds(s)) = s[Len(s)].kind
  <1>1. Len(s) \in Nat /\ DOMAIN s = 1..Len(s) /\ (s # <<>> => Len(s) > 0)
    BY EmptySeq
  <1>2. DOMAIN Kinds(s) = 1..Len(s) /\ \A i \in 1..Len(s) : Kinds(s)[i] = s[i].kind
    BY <1>1 DEF Kinds
  <1>3. Len(Kinds(s)) = Len(s)
    <2>1. Kinds(s) = [i \in 1..Len(s) |-> s[i].kind]
      BY <1>1 DEF Kinds
    <2>2. Len([i \in 1..Len(s) |-> s[i].kind]) = Len(s)
      BY <1>1
    <2> QED
      BY <2>1, <2>2, Zenon
  <1>4. s # <<>> => 1 \in 1..Len(s) /\ Len(s) \in 1..Len(s)
    BY <1>1
  <1> QED
    BY <1>1, <1>2, <1>3, <1>4 DEF Last

\* A stream is an opening, then an ending.
LEMMA GrammarHolds == ClientInv => StreamGrammar
  <1> SUFFICES ASSUME ClientInv, NEW r \in Requests,
                      req[r].sse, wire[r] # <<>>, Kinds(wire[r]) # <<"busy">>
               PROVE  LET k == Kinds(wire[r]) IN
                      /\ \A i \in DOMAIN k : k[i] \in DOMAIN Rank
                      /\ \A i, j \in DOMAIN k :
                           i < j => Rank[k[i]] < Rank[k[j]] \/ (k[i] = "seg" /\ k[j] = "seg")
                      /\ (k[1] = "role") <=> req[r].chat
                      /\ \A j \in DOMAIN k : k[j] = "done" =>
                           \E i \in 1..(j-1) :
                             k[i] = "error" \/ (k[i] = "finish" /\ Verdict(r) # "none")
                      /\ client[r] = "closed" => Last(k) = "done"
    BY DEF StreamGrammar
  <1>1. wire[r] \in Seq(Frame) /\ out[r] \in Nat
    BY HandlerTypes, ChanTypes DEF ClientInv, IndInv
  <1>2. ~Refused(r)
    <2> SUFFICES ASSUME Refused(r) PROVE FALSE
      OBVIOUS
    <2>1. Kinds(<<Plain("busy")>>) = <<"busy">>
      <3> DEFINE f == Plain("busy")
      <3>1. f.kind = "busy"
        BY BusyRead
      <3> HIDE DEF f
      <3>2. Kinds(<<f>>) = [i \in 1..1 |-> f.kind]
        BY DEF Kinds
      <3>3. <<"busy">> = [i \in 1..1 |-> "busy"]
        OBVIOUS
      <3> QED
        BY <3>1, <3>2, <3>3 DEF f
    <2> QED
      BY <2>1 DEF Refused
  <1>3. ReadsStream(r)
    BY <1>2, WireShapes
  <1>4. PICK b, e : IsReading(b, e, r)
    BY <1>3 DEF ReadsStream
  <1> DEFINE w == wire[r]  m == Len(b)  n == Len(w)  k == Kinds(w)
  <1>5. n \in Nat /\ m \in Nat /\ Len(w) = n /\ 1 \in 1..n /\ n \in 1..n
        /\ DOMAIN k = 1..n /\ (\A i \in 1..n : k[i] = w[i].kind) /\ Last(k) = w[n].kind
    BY <1>1, <1>4, KindsAre DEF IsReading, ReadOf
  <1>6. \A i \in 1..n : w[i] = IF i <= m THEN b[i] ELSE e[i - m]
    BY <1>4 DEF IsReading, ReadOf
  <1>7. n <= m + Len(e) /\ (client[r] = "closed" => e # <<>> /\ n = m + Len(e))
    BY <1>4 DEF IsReading, ReadOf
  <1>8. /\ req[r].chat => m > 0
        /\ \A i \in 1..m : IF req[r].chat /\ i = 1 THEN b[i].kind = "role" ELSE b[i].kind = "seg"
    <2>1. b \in Seq(Frame) /\ (req[r].chat => b # <<>>)
      BY <1>4 DEF IsReading, IsOpening
    <2>2. b # <<>> => m > 0
      BY <2>1, EmptySeq
    <2>3. \A i \in 1..m : IF req[r].chat /\ i = 1 THEN b[i].kind = "role" ELSE b[i].kind = "seg"
      BY <1>4 DEF IsReading, IsOpening
    <2> QED
      BY <2>1, <2>2, <2>3
  <1>9. m < n \/ client[r] = "closed" => EndingFacts(e, r) /\ Len(e) \in {2, 3}
    <2>1. Len(<<>>) = 0
      OBVIOUS
    <2>2. m < n \/ client[r] = "closed" => IsEnding(e, r)
      BY <1>4, <1>5, <1>7, <2>1 DEF IsReading
    <2> QED
      BY <2>2, EndingIs DEF EndingFacts
  <1>10. Verdict(r) = IF m < n THEN e[1].why ELSE "none"
    BY <1>4 DEF IsReading, ReadOf, Verdict
  <1>r. /\ DOMAIN Rank = {"role", "seg", "finish", "error", "usage", "done"}
        /\ Rank["role"] = 0 /\ Rank["seg"] = 1 /\ Rank["finish"] = 2 /\ Rank["error"] = 2
        /\ Rank["usage"] = 3 /\ Rank["done"] = 4
    BY DEF Rank
  <1>n. n \in Nat /\ m \in Nat
    BY <1>5
  <1> HIDE DEF w, m, n, k
  <1>11. ASSUME NEW i \in 1..n, i <= m
         PROVE  k[i] = IF req[r].chat /\ i = 1 THEN "role" ELSE "seg"
    <2>1. i \in 1..m /\ k[i] = b[i].kind
      BY <1>5, <1>6, <1>11
    <2> QED
      BY <1>8, <2>1
  <1>12. ASSUME NEW i \in 1..n, ~(i <= m)
         PROVE  /\ m < n /\ EndingFacts(e, r) /\ i - m \in 1..Len(e) /\ k[i] = e[i - m].kind
                /\ k[i] \in {"finish", "usage", "done", "error"}
                /\ k[i] = "done" <=> i - m = Len(e)
                /\ k[i] \in {"finish", "error"} <=> i - m = 1
    <2> DEFINE j == i - m
    <2>1. m < n
      BY <1>5, <1>12
    <2>2. EndingFacts(e, r) /\ Len(e) \in {2, 3}
      BY <1>9, <2>1
    <2>3. j \in 1..Len(e)
      BY <1>5, <1>7, <1>12, <2>2
    <2>4. k[i] = e[j].kind
      BY <1>5, <1>6, <1>12
    <2> HIDE DEF j
    <2>5. k[i] \in {"finish", "usage", "done", "error"} /\ (k[i] = "done" <=> j = Len(e))
          /\ (k[i] \in {"finish", "error"} <=> j = 1)
      BY <2>2, <2>3, <2>4 DEF EndingFacts
    <2> QED
      BY <2>1, <2>2, <2>3, <2>4, <2>5 DEF j
  <1>13. \A i \in 1..n : k[i] \in DOMAIN Rank
    <2>1. ASSUME NEW i \in 1..n PROVE k[i] \in {"role", "seg", "finish", "error", "usage", "done"}
      <3>1. CASE i <= m
        BY <1>11, <3>1
      <3>2. CASE ~(i <= m)
        BY <1>12, <3>2
      <3> QED
        BY <3>1, <3>2
    <2> QED
      BY <1>r, <2>1
  <1>14. ASSUME NEW i \in 1..n, NEW j \in 1..n, i < j
         PROVE  Rank[k[i]] < Rank[k[j]] \/ (k[i] = "seg" /\ k[j] = "seg")
    <2>1. CASE j <= m
      <3>1. i <= m /\ j # 1
        BY <1>n, <1>14, <2>1
      <3>2. k[j] = "seg" /\ k[i] \in {"role", "seg"}
        BY <1>11, <2>1, <3>1
      <3> QED
        BY <1>r, <3>2
    <2>2. CASE i <= m /\ ~(j <= m)
      <3>1. k[i] \in {"role", "seg"} /\ k[j] \in {"finish", "usage", "done", "error"}
        BY <1>11, <1>12, <2>2
      <3>2. Rank[k[i]] \in {0, 1} /\ Rank[k[j]] \in {2, 3, 4}
        BY <1>r, <3>1
      <3> QED
        BY <3>2
    <2>3. CASE ~(i <= m)
      <3>1. ~(j <= m) /\ i - m < j - m
        BY <1>n, <1>14, <2>3
      <3>2. EndingFacts(e, r) /\ i - m \in 1..Len(e) /\ k[i] = e[i - m].kind
        BY <1>12, <2>3
      <3>3. j - m \in 1..Len(e) /\ k[j] = e[j - m].kind
        BY <1>12, <3>1
      <3> DEFINE x == i - m  y == j - m
      <3>4. x \in 1..Len(e) /\ y \in 1..Len(e) /\ x < y /\ k[i] = e[x].kind /\ k[j] = e[y].kind
        BY <3>1, <3>2, <3>3
      <3> HIDE DEF x, y
      <3> QED
        BY <3>2, <3>4 DEF EndingFacts
    <2> QED
      BY <2>1, <2>2, <2>3
  <1>15. (k[1] = "role") <=> req[r].chat
    <2>1. CASE 1 <= m
      BY <1>5, <1>11, <2>1
    <2>2. CASE ~(1 <= m)
      <3>1. k[1] # "role"
        BY <1>5, <1>12, <2>2
      <3> QED
        BY <1>5, <1>8, <2>2, <3>1
    <2> QED
      BY <2>1, <2>2
  <1>16. ASSUME NEW j \in 1..n, k[j] = "done"
         PROVE  \E i \in 1..(j-1) : k[i] = "error" \/ (k[i] = "finish" /\ Verdict(r) # "none")
    <2>1. ~(j <= m)
      BY <1>11, <1>16
    <2>2. m < n /\ EndingFacts(e, r) /\ j - m = Len(e)
      BY <1>12, <1>16, <2>1
    <2>3. Len(e) \in {2, 3}
      BY <2>2 DEF EndingFacts
    <2>4. m + 1 \in 1..(j-1) /\ m + 1 \in 1..n /\ ~(m + 1 <= m) /\ (m + 1) - m = 1
      <3> DEFINE x == Len(e)
      <3>1. j - m = x /\ x \in Nat /\ 1 < x
        BY <2>2, <2>3
      <3> HIDE DEF x
      <3> QED
        BY <1>n, <3>1
    <2>5. k[m + 1] = e[1].kind
      <3>1. k[m + 1] = e[(m + 1) - m].kind
        BY <1>12, <2>4
      <3> QED
        BY <2>4, <3>1
    <2>6. e[1].kind = "error" \/ (e[1].kind = "finish" /\ e[1].why # "none")
      BY <2>2 DEF EndingFacts, Closing
    <2>7. k[m + 1] = "error" \/ (k[m + 1] = "finish" /\ Verdict(r) # "none")
      BY <1>10, <2>2, <2>5, <2>6
    <2> QED
      BY <2>4, <2>7
  <1>17. client[r] = "closed" => Last(k) = "done"
    <2> SUFFICES ASSUME client[r] = "closed" PROVE Last(k) = "done"
      OBVIOUS
    <2>1. n = m + Len(e) /\ Len(e) \in {2, 3}
      BY <1>7, <1>9
    <2>2. ~(n <= m) /\ n - m = Len(e)
      <3> DEFINE x == Len(e)
      <3>a. x \in {2, 3} /\ n = m + x
        BY <2>1
      <3>1. x \in Nat /\ 1 < x /\ n = m + x
        <4> HIDE DEF x
        <4> QED
          BY <3>a
      <3> HIDE DEF x
      <3>2. ~(n <= m) /\ n - m = x
        BY <1>n, <3>1
      <3> QED
        BY <3>2 DEF x
    <2>3. k[n] = "done"
      BY <1>5, <1>12, <2>2
    <2> QED
      BY <1>5, <2>3
  <1> QED
    BY <1>5, <1>13, <1>14, <1>15, <1>16, <1>17 DEF k, w

-----------------------------------------------------------------------------
(***************************************************************************)
(* What a step leaves alone.                                               *)
(***************************************************************************)

\* A slot whose text stays where it is, and whose verdict is still due as before.
Framed(r) ==
  /\ out'[r] = out[r] /\ req'[r] = req[r]
  /\ Victim(r) => Victim(r)'

\* Then an opening stays one, and so do an ending and an answer.
LEMMA ShapesKept ==
  ASSUME NEW r \in Requests, Framed(r)
  PROVE  /\ \A b : IsOpening(b, r) => IsOpening(b, r)'
         /\ \A e : IsEnding(e, r) => IsEnding(e, r)'
         /\ \A f : IsAnswer(f, r) => IsAnswer(f, r)'
  <1>1. out'[r] = out[r] /\ req'[r] = req[r] /\ (Victim(r) => Victim(r)')
    BY DEF Framed
  <1>2. ASSUME NEW w \in {"stop", "length"}, NEW p \in Nat, NEW n \in Nat, Honest(r, w, p, n)
        PROVE  Honest(r, w, p, n)'
    BY <1>1, <1>2 DEF Honest
  <1>3. \A b : IsOpening(b, r) => IsOpening(b, r)'
    BY <1>1 DEF IsOpening
  <1>4. \A e : IsEnding(e, r) => IsEnding(e, r)'
    BY <1>1, <1>2 DEF IsEnding
  <1>5. \A f : IsAnswer(f, r) => IsAnswer(f, r)'
    BY <1>1, <1>2 DEF IsAnswer
  <1> QED
    BY <1>3, <1>4, <1>5

\* A stream whose frames only move is the same stream.
LEMMA StreamKept ==
  ASSUME NEW r \in Requests, Framed(r), StreamOK(r), Stream(r)' = Stream(r),
         Waiting(r)' <=> Waiting(r)
  PROVE  StreamOK(r)'
  <1>1. PICK b : IsOpening(b, r) /\ IF Waiting(r) THEN Stream(r) = b
                                    ELSE \E e : IsEnding(e, r) /\ Stream(r) = b \o e
    BY DEF StreamOK
  <1>2. IsOpening(b, r)'
    BY <1>1, ShapesKept
  <1>3. CASE Waiting(r)
    BY <1>1, <1>2, <1>3 DEF StreamOK
  <1>4. CASE ~Waiting(r)
    <2>1. PICK e : IsEnding(e, r) /\ Stream(r) = b \o e
      BY <1>1, <1>4
    <2>2. IsEnding(e, r)'
      BY <2>1, ShapesKept
    <2> QED
      BY <1>2, <1>4, <2>1, <2>2 DEF StreamOK
  <1> QED
    BY <1>3, <1>4

\* What WireInv speaks of stays as it is; only the count of tokens may grow.
Untouched(q) ==
  /\ Framed(q)
  /\ hpc'[q] = hpc[q] /\ pend'[q] = pend[q] /\ frames'[q] = frames[q]
  /\ wire'[q] = wire[q] /\ client'[q] = client[q]
  /\ ctoks[q] <= ctoks'[q] /\ ctoks'[q] \in Nat

\* A slot left alone keeps WireInv.
LEMMA WireKept ==
  ASSUME IndInv, NEW q \in Requests, WireInv(q), Untouched(q),
         proc = "exited" => proc' = "exited"
  PROVE  WireInv(q)'
  <1>1. /\ out'[q] = out[q] /\ req'[q] = req[q] /\ hpc'[q] = hpc[q] /\ pend'[q] = pend[q]
        /\ frames'[q] = frames[q] /\ wire'[q] = wire[q] /\ client'[q] = client[q]
        /\ ctoks[q] <= ctoks'[q] /\ ctoks'[q] \in Nat
    BY DEF Untouched, Framed
  <1>2. out[q] \in Nat /\ ctoks[q] \in Nat
    BY HandlerTypes
  <1>3. Waiting(q)' <=> Waiting(q)
    BY <1>1 DEF Waiting
  <1>4. Stream(q)' = Stream(q) /\ Room(q)' = Room(q) /\ (Refused(q)' <=> Refused(q))
    BY <1>1 DEF Stream, Room, Refused
  <1>5. StreamOK(q) => StreamOK(q)'
    BY <1>3, <1>4, StreamKept DEF Untouched
  <1>6. AnswerOK(q) => AnswerOK(q)'
    <2>1. \A f : IsAnswer(f, q) => IsAnswer(f, q)'
      BY ShapesKept DEF Untouched
    <2> QED
      BY <1>1, <2>1 DEF AnswerOK
  <1>7. Waiting(q)' => out'[q] <= ctoks'[q]
    BY <1>1, <1>2, <1>3 DEF WireInv
  <1> QED
    BY <1>1, <1>4, <1>5, <1>6, <1>7 DEF WireInv

\* What EventInv speaks of stays as it is, but for a receiver that may go.
Unheard(q) ==
  /\ chan'[q] = chan[q] /\ ctoks'[q] = ctoks[q] /\ ptoks'[q] = ptoks[q]
  /\ req'[q] = req[q] /\ (client'[q] = "idle" <=> client[q] = "idle")
  /\ rx'[q] => rx[q]
  /\ cur' = q /\ epc' \in {"step", "push", "done"} =>
       cur = q /\ epc' = epc /\ finish' = finish /\ completion' = completion

\* A slot the step is not about keeps EventInv.
LEMMA EventKept ==
  ASSUME NEW q \in Requests, EventInv(q), Unheard(q)
  PROVE  EventInv(q)'
  <1>1. Room(q)' = Room(q) /\ Taken(q)' = Taken(q) /\ (PromptKnown(q)' <=> PromptKnown(q))
    BY DEF Unheard, Room, Taken, PromptKnown
  <1>2. \A e : TrueEvent(q, e) => TrueEvent(q, e)'
    BY <1>1 DEF TrueEvent, Tally, Unheard
  <1>3. cur' = q /\ epc' = "done" /\ Tally(q, finish, completion, Taken(q)) =>
          Tally(q, finish, completion, Taken(q))'
    BY <1>1 DEF Tally, Unheard
  <1> QED
    BY <1>1, <1>2, <1>3 DEF EventInv, Unheard

-----------------------------------------------------------------------------
(***************************************************************************)
(* The engine puts only true events into the channels.                     *)
(***************************************************************************)

\* What an engine step leaves alone on the side of the clients.
LEMMA EngineLeavesWire ==
  ASSUME ClientInv, EngineKeeps, UNCHANGED handlerVars, UNCHANGED proc,
         epc # "panicked"
  PROVE  \A q \in Requests : WireInv(q)'
  <1> SUFFICES ASSUME NEW q \in Requests PROVE WireInv(q)'
    OBVIOUS
  <1>1. /\ UNCHANGED <<req, rx, frames, client, wire>>
        /\ UNCHANGED <<hpc, pend, ptoks, ctoks, out>>
    BY DEF EngineKeeps, handlerVars
  <1>2. ctoks[q] \in Nat
    BY HandlerTypes DEF ClientInv
  <1>3. Untouched(q)
    BY <1>1, <1>2 DEF Untouched, Framed, Victim
  <1> QED
    BY <1>3, WireKept DEF ClientInv

\* An event joins the channel of the running request; what is there stays true.
LEMMA EventSent ==
  ASSUME ClientInv, EngineKeeps, UNCHANGED handlerVars, epc \in {"start", "push", "done", "error"},
         NEW r \in Requests, cur = r, rx[r], NEW c, c = chan[r],
         NEW e \in Event, CanSend(r), chan' = Sent(r, e), e.kind = "start" => c = <<>>
  PROVE  /\ chan'[r] = Append(c, e) /\ c \in Seq(Event)
         /\ \A i \in 1..Len(c) :
              TrueEvent(r, c[i])' /\ c[i].kind # "done"
         /\ \A i \in 1..Len(c) : c[i].kind = "token" => PromptKnown(r)'
         /\ PromptKnown(r) => PromptKnown(r)'
         /\ ctoks[r] <= Room(r) /\ Room(r)' = Room(r)
         /\ e.kind # "start" => Taken(r)' = Taken(r) + 1
         /\ Taken(r) \in Int
  <1>0. tx[r]
    BY CurRuns DEF ClientInv
  <1>1. c \in Seq(Event) /\ chan'[r] = Append(c, e) /\ Len(c) \in Nat /\ ctoks[r] \in Nat
    BY <1>0, SentFacts, ChanTypes, HandlerTypes, LenProperties DEF ClientInv
  <1>2. /\ UNCHANGED <<req, rx, frames, client, wire>>
        /\ UNCHANGED <<hpc, pend, ptoks, ctoks, out>>
    BY DEF EngineKeeps, handlerVars
  <1>3. /\ Len(Append(c, e)) = Len(c) + 1 /\ Append(c, e) # <<>>
        /\ Head(Append(c, e)) = IF c = <<>> THEN e ELSE Head(c)
    <2>1. /\ Append(c, e) \in Seq(Event) /\ Len(Append(c, e)) = Len(c) + 1
          /\ Append(c, e) # <<>> /\ Append(c, e)[Len(c) + 1] = e
          /\ \A i \in 1..Len(c) : Append(c, e)[i] = c[i]
      BY <1>1, SeqAppend
    <2>2. Head(Append(c, e)) = Append(c, e)[1]
      BY <2>1, SeqTail
    <2>3. CASE c = <<>>
      <3>1. Len(c) = 0
        BY <2>3
      <3> QED
        BY <2>1, <2>2, <2>3, <3>1
    <2>4. CASE c # <<>>
      <3>1. Head(c) = c[1] /\ 1 \in 1..Len(c)
        BY <1>1, <2>4, SeqTail
      <3> QED
        BY <2>1, <2>2, <2>4, <3>1
    <2> QED
      BY <2>3, <2>4
  <1>4. \A i \in 1..Len(c) : ~Terminal(c[i])
    BY <1>0 DEF ClientInv, IndInv, ChanInv, InOrder
  <1>5. EventInv(r)
    BY <1>0 DEF ClientInv
  <1>6. PromptKnown(r) => PromptKnown(r)'
    BY <1>1, <1>2, <1>3 DEF PromptKnown, Started
  <1>7. Room(r)' = Room(r)
    BY <1>2 DEF Room
  <1>8. \A i \in 1..Len(c) : TrueEvent(r, c[i])' /\ c[i].kind # "done"
    <2>1. \A i \in 1..Len(c) : TrueEvent(r, c[i]) /\ c[i].kind # "done"
      BY <1>4, <1>5 DEF EventInv, Terminal
    <2> QED
      BY <1>2, <1>7, <2>1 DEF TrueEvent
  <1>9. \A i \in 1..Len(c) : c[i].kind = "token" => PromptKnown(r)'
    BY <1>5, <1>6 DEF EventInv
  <1>10. e.kind # "start" => Taken(r)' = Taken(r) + 1
    <2> SUFFICES ASSUME e.kind # "start" PROVE Taken(r)' = Taken(r) + 1
      OBVIOUS
    <2>1. Started(Append(c, e)) = Started(c) /\ Started(c) \in {0, 1}
      BY <1>3 DEF Started
    <2>2. Taken(r)' = ctoks[r] + (Len(c) + 1) - Started(c)
      BY <1>1, <1>2, <1>3, <2>1 DEF Taken
    <2> QED
      BY <1>1, <2>1, <2>2 DEF Taken
  <1>11. Taken(r) \in Int
    <2>1. Started(c) \in {0, 1}
      BY DEF Started
    <2> QED
      BY <1>1, <2>1 DEF Taken
  <1> QED
    BY <1>1, <1>5, <1>6, <1>7, <1>8, <1>9, <1>10, <1>11 DEF EventInv

\* ClientInv, but for IndInv, which ServeProofs has.
Promises ==
  /\ epc = "error" => UserError(req[cur])
  /\ \A r \in Requests : EventInv(r) /\ WireInv(r)

\* blocking_recv: a request the engine takes has told its client nothing.
LEMMA EngineRecvKeeps ==
  ASSUME ClientInv, EngineRecv, UNCHANGED handlerVars
  PROVE  Promises'
  <1>1. /\ epc = "idle" /\ UNCHANGED <<chan, proc>> /\ EngineKeeps
        /\ UNCHANGED <<req, rx, frames, client, wire>>
        /\ UNCHANGED <<hpc, pend, ptoks, ctoks, out>>
        /\ \/ UNCHANGED <<epc, cur, maxEff, completion, filled, finish>>
           \/ epc' = "error" /\ UserError(req[cur'])
           \/ epc' = "start"
    BY DEF EngineRecv, EngineKeeps, handlerVars, engineVars
  <1>2. \A q \in Requests : WireInv(q)'
    BY <1>1, EngineLeavesWire
  <1>3. ASSUME NEW q \in Requests PROVE EventInv(q)'
    <2>1. Unheard(q)
      BY <1>1 DEF Unheard
    <2> QED
      BY <2>1, EventKept DEF ClientInv
  <1>4. epc' = "error" => UserError(req[cur])'
    BY <1>1
  <1> QED
    BY <1>2, <1>3, <1>4 DEF Promises

\* An event that the engine sends, whatever it says.
LEMMA SendKeeps ==
  ASSUME ClientInv, EngineKeeps, UNCHANGED handlerVars, UNCHANGED proc,
         epc \in {"start", "push", "done", "error"}, epc' # "error",
         NEW r \in Requests, cur = r, cur' \in {r, NoReq},
         NEW e \in Event, CanSend(r), chan' = Sent(r, e),
         rx[r] /\ e.kind = "start" => chan[r] = <<>>,
         rx[r] => TrueEvent(r, e)',
         rx[r] /\ e.kind \in {"token", "done"} => PromptKnown(r) ,
         rx[r] /\ cur' = r /\ epc' \in {"step", "push", "done"} => PromptKnown(r)',
         rx[r] /\ cur' = r /\ epc' = "done" => Tally(r, finish, completion, Taken(r))'
  PROVE  Promises'
  <1>1. /\ UNCHANGED <<req, rx, frames, client, wire>>
        /\ UNCHANGED <<hpc, pend, ptoks, ctoks, out>>
    BY DEF EngineKeeps, handlerVars
  <1>2. \A q \in Requests : WireInv(q)'
    BY EngineLeavesWire
  <1>3. ASSUME NEW q \in Requests, q # r PROVE EventInv(q)'
    <2>1. chan'[q] = chan[q]
      BY <1>3, SentFacts DEF ClientInv
    <2>2. cur' # q
      BY <1>3, EngineTypes DEF ClientInv
    <2>3. Unheard(q)
      BY <1>1, <2>1, <2>2 DEF Unheard
    <2> QED
      BY <2>3, EventKept DEF ClientInv
  <1>4. ASSUME rx[r] PROVE EventInv(r)'
    <2>0. PICK c : c = chan[r]
      OBVIOUS
    <2>a. e.kind = "start" => c = <<>>
      BY <1>4, <2>0
    <2>1. /\ chan'[r] = Append(c, e) /\ c \in Seq(Event)
          /\ \A i \in 1..Len(c) : TrueEvent(r, c[i])' /\ c[i].kind # "done"
          /\ \A i \in 1..Len(c) : c[i].kind = "token" => PromptKnown(r)'
          /\ PromptKnown(r) => PromptKnown(r)'
          /\ ctoks[r] <= Room(r) /\ Room(r)' = Room(r)
      BY <1>4, <2>0, <2>a, EventSent
    <2>2. /\ Len(c) \in Nat /\ Len(Append(c, e)) = Len(c) + 1 /\ Append(c, e)[Len(c) + 1] = e
          /\ \A i \in 1..Len(c) : Append(c, e)[i] = c[i]
      BY <2>1, SeqAppend, LenProperties
    <2>3. PICK d : d = Append(c, e)
      OBVIOUS
    <2>4. ASSUME NEW i \in 1..Len(d)
          PROVE  TrueEvent(r, d[i])' /\ (d[i].kind \in {"token", "done"} => PromptKnown(r)')
      <3>1. CASE i = Len(c) + 1
        BY <1>4, <2>1, <2>2, <2>3, <3>1
      <3>2. CASE i \in 1..Len(c)
        BY <2>1, <2>2, <2>3, <3>2
      <3> QED
        BY <2>2, <2>3, <3>1, <3>2
    <2>5. ctoks'[r] <= Room(r)'
      BY <1>1, <2>1
    <2>6. chan'[r] = d
      BY <2>1, <2>3
    <2> QED
      BY <1>4, <2>4, <2>5, <2>6 DEF EventInv
  <1>5. ~rx[r] => EventInv(r)'
    BY <1>1 DEF EventInv
  <1> QED
    BY <1>2, <1>3, <1>4, <1>5 DEF Promises

\* sink.start gives the prompt length as tokenized.
LEMMA EngineStartKeeps ==
  ASSUME ClientInv, EngineStart, UNCHANGED handlerVars
  PROVE  Promises'
  <1>0. PICK e : e = Start(req[cur].prompt)
    OBVIOUS
  <1>1. /\ epc = "start" /\ epc' = "step" /\ CanSend(cur) /\ chan' = Sent(cur, e)
        /\ UNCHANGED <<proc, cur>> /\ EngineKeeps /\ UNCHANGED <<req, rx>>
    BY <1>0 DEF EngineStart, EngineKeeps
  <1>2. cur \in Requests /\ req[cur].prompt \in Nat
    BY <1>1, CurRuns DEF ClientInv
  <1>3. e \in Event /\ e.kind = "start" /\ e.p = req[cur].prompt
    <2>1. \A p \in Nat : Start(p) \in Event /\ Start(p).kind = "start" /\ Start(p).p = p
      BY EventTypes DEF Start
    <2> QED
      BY <1>0, <1>2, <2>1
  <1>4. PICK s \in Requests : s = cur
    BY <1>2
  <1>5. rx[s] => chan[s] = <<>>
    BY <1>1, <1>4 DEF ClientInv, IndInv, ChanInv
  <1>6. TrueEvent(s, e)'
    BY <1>1, <1>3, <1>4 DEF TrueEvent
  <1>7. rx[s] => PromptKnown(s)'
    <2> SUFFICES ASSUME rx[s] PROVE PromptKnown(s)'
      OBVIOUS
    <2>1. chan'[s] = Append(<<>>, e)
      BY <1>1, <1>3, <1>4, <1>5, SentFacts DEF ClientInv
    <2>2. Append(<<>>, e) # <<>> /\ Head(Append(<<>>, e)) = e
      BY <1>3
    <2> QED
      BY <1>3, <2>1, <2>2 DEF PromptKnown, Started
  <1> QED
    BY <1>1, <1>3, <1>4, <1>5, <1>6, <1>7, SendKeeps

\* What the engine knows of the count, before it steps.
LEMMA Reckoned ==
  ASSUME ClientInv, epc \in {"step", "push"}
  PROVE  /\ cur \in Requests /\ ~UserError(req[cur]) /\ client[cur] # "idle"
         /\ maxEff = Budget(req[cur]) /\ Budget(req[cur]) \in Nat /\ Room(cur) = Budget(req[cur])
         /\ completion \in Nat /\ completion <= maxEff
         /\ rx[cur] => completion = Taken(cur) /\ PromptKnown(cur)
  <1>1. cur \in Requests /\ client[cur] # "idle" /\ req[cur] \in Profiles
    BY CurRuns DEF ClientInv
  <1>2. ~UserError(req[cur]) /\ maxEff = Budget(req[cur]) /\ completion <= maxEff
    BY DEF ClientInv, IndInv, EngineInv
  <1>3. completion \in Nat
    BY EngineTypes DEF ClientInv
  <1>4. Budget(req[cur]) \in Nat
    BY <1>1, <1>2, BudgetType
  <1>5. rx[cur] => completion = Taken(cur)
    BY <1>1 DEF ClientInv, IndInv, ChanInv, Taken
  <1>6. rx[cur] => PromptKnown(cur)
    BY <1>1 DEF ClientInv, EventInv
  <1> QED
    BY <1>1, <1>2, <1>3, <1>4, <1>5, <1>6 DEF Room

\* step_token: when it stops, the count it stops on is the true one.
LEMMA EngineStepKeeps ==
  ASSUME ClientInv, EngineStep, UNCHANGED handlerVars
  PROVE  Promises'
  <1>1. /\ epc = "step" /\ UNCHANGED <<queue, tx, chan, proc, cur, maxEff>> /\ EngineKeeps
        /\ UNCHANGED <<req, rx, frames, client, wire>>
        /\ UNCHANGED <<hpc, pend, ptoks, ctoks, out>>
        /\ \/ completion >= maxEff /\ finish' = "length" /\ epc' = "done" /\ completion' = completion
           \/ completion < maxEff /\ finish' = "stop" /\ epc' = "done" /\ completion' = completion + 1
           \/ epc' = "push"
    BY DEF EngineStep, EngineKeeps, handlerVars
  <1>2. \A q \in Requests : WireInv(q)'
    BY <1>1, EngineLeavesWire
  <1>3. ASSUME NEW q \in Requests, q # cur PROVE EventInv(q)'
    <2>1. Unheard(q)
      BY <1>1, <1>3 DEF Unheard
    <2> QED
      BY <2>1, EventKept DEF ClientInv
  <1>4. PICK r \in Requests : r = cur
    BY <1>1, Reckoned
  <1>5. EventInv(r)'
    <2> SUFFICES ASSUME rx[r] PROVE EventInv(r)'
      BY <1>1 DEF EventInv
    <2>1. Room(r)' = Room(r) /\ Taken(r)' = Taken(r) /\ (PromptKnown(r)' <=> PromptKnown(r))
      BY <1>1 DEF Room, Taken, PromptKnown
    <2>2. \A e : TrueEvent(r, e) => TrueEvent(r, e)'
      BY <1>1, <2>1 DEF TrueEvent, Tally
    <2>3. /\ ~UserError(req[r]) /\ maxEff = Budget(req[r]) /\ Budget(req[r]) \in Nat
          /\ completion \in Nat /\ completion <= maxEff /\ completion = Taken(r) /\ PromptKnown(r)
      BY <1>1, <1>4, Reckoned
    <2>4. epc' = "done" => Tally(r, finish', completion', Taken(r))
      BY <1>1, <2>3 DEF Tally
    <2>5. epc' = "done" => Tally(r, finish, completion, Taken(r))'
      BY <1>1, <2>1, <2>4 DEF Tally
    <2>6. EventInv(r)
      BY DEF ClientInv
    <2> QED
      BY <1>1, <2>1, <2>2, <2>3, <2>5, <2>6 DEF EventInv
  <1> QED
    BY <1>1, <1>2, <1>3, <1>4, <1>5 DEF Promises

\* push_token: a token within the budget, and the budget's last one ends the run.
LEMMA EnginePushKeeps ==
  ASSUME ClientInv, EnginePush, UNCHANGED handlerVars
  PROVE  Promises'
  <1>0. PICK e : e = Token(completion + 1)
    OBVIOUS
  <1>1. /\ epc = "push" /\ CanSend(cur) /\ chan' = Sent(cur, e) /\ UNCHANGED proc /\ EngineKeeps
        /\ UNCHANGED <<req, rx, frames, client, wire>>
        /\ UNCHANGED <<hpc, pend, ptoks, ctoks, out>>
        /\ ~rx[cur] => cur' = NoReq /\ epc' = "idle"
        /\ rx[cur] => /\ cur' = cur /\ completion' = completion + 1
                      /\ \/ completion + 1 >= maxEff /\ finish' = "length" /\ epc' = "done"
                         \/ epc' = "step"
    BY <1>0 DEF EnginePush, Release, EngineKeeps, handlerVars
  <1>2. /\ cur \in Requests /\ ~UserError(req[cur]) /\ client[cur] # "idle"
        /\ maxEff = Budget(req[cur]) /\ Budget(req[cur]) \in Nat /\ Room(cur) = Budget(req[cur])
        /\ completion \in Nat
        /\ rx[cur] => completion = Taken(cur) /\ PromptKnown(cur)
    BY <1>1, Reckoned
  <1>3. completion < maxEff
    BY <1>1 DEF ClientInv, IndInv, EngineInv
  <1>4. e \in Event /\ e.kind = "token" /\ e.n = completion + 1
    <2>1. \A n \in Nat : Token(n) \in Event /\ Token(n).kind = "token" /\ Token(n).n = n
      BY EventTypes DEF Token
    <2>2. completion + 1 \in Nat
      BY <1>2
    <2> QED
      BY <1>0, <2>1, <2>2
  <1>5. PICK r \in Requests : r = cur
    BY <1>2
  <1>6. epc' # "error" /\ cur' \in {r, NoReq}
    BY <1>1, <1>5
  <1>7. CASE ~rx[r]
    BY <1>1, <1>4, <1>5, <1>6, <1>7, SendKeeps
  <1>8. CASE rx[r]
    <2>1. PICK c : c = chan[r]
      OBVIOUS
    <2>2. /\ PromptKnown(r) => PromptKnown(r)'
          /\ Room(r)' = Room(r) /\ Taken(r)' = Taken(r) + 1
      BY <1>1, <1>4, <1>5, <1>8, <2>1, EventSent
    <2>3. TrueEvent(r, e)'
      BY <1>2, <1>3, <1>4, <1>5, <2>2 DEF TrueEvent
    <2>4. PromptKnown(r) /\ PromptKnown(r)'
      BY <1>2, <1>5, <1>8, <2>2
    <2>5. cur' = r /\ epc' = "done" => Tally(r, finish, completion, Taken(r))'
      <3> SUFFICES ASSUME epc' = "done" PROVE Tally(r, finish, completion, Taken(r))'
        OBVIOUS
      <3>1. completion' = completion + 1 /\ completion + 1 >= maxEff /\ finish' = "length"
        BY <1>1, <1>5, <1>8
      <3>2. completion' = Budget(req[r]) /\ Taken(r)' = completion' /\ completion' \in Nat
        BY <1>2, <1>3, <1>5, <1>8, <2>2, <3>1
      <3> QED
        BY <1>1, <1>2, <1>5, <3>1, <3>2 DEF Tally
    <2> QED
      BY <1>1, <1>4, <1>5, <1>6, <2>3, <2>4, <2>5, SendKeeps
  <1> QED
    BY <1>7, <1>8

\* sink.finish and sink.user_error: the terminal event is what the run came to.
LEMMA EngineFinishKeeps ==
  ASSUME ClientInv, EngineFinish, UNCHANGED handlerVars
  PROVE  Promises'
  <1>0. PICK e : e = IF epc = "error" THEN Failed ELSE Done(req[cur].prompt, completion, finish)
    OBVIOUS
  <1>1. /\ epc \in {"done", "error"} /\ CanSend(cur) /\ chan' = Sent(cur, e)
        /\ UNCHANGED proc /\ EngineKeeps /\ UNCHANGED <<req, rx>>
        /\ cur' = NoReq /\ epc' = "idle"
    BY <1>0 DEF EngineFinish, Release, EngineKeeps
  <1>2. PICK r \in Requests : r = cur
    BY <1>1, CurRuns DEF ClientInv
  <1>3. epc = "done" => req[r].prompt \in Nat
    BY <1>1, <1>2, CurRuns DEF ClientInv
  <1>4. /\ e \in Event
        /\ e.kind = IF epc = "error" THEN "error" ELSE "done"
        /\ epc = "done" => e.p = req[r].prompt /\ e.n = completion /\ e.why = finish
    <2>1. \A p, n \in Nat : \A w \in {"none", "stop", "length"} :
            LET d == Done(p, n, w) IN
            d \in Event /\ d.kind = "done" /\ d.p = p /\ d.n = n /\ d.why = w
      BY EventTypes DEF Done
    <2>2. Failed \in Event /\ Failed.kind = "error"
      BY EventTypes DEF Failed
    <2>3. completion \in Nat /\ finish \in {"none", "stop", "length"}
      BY EngineTypes DEF ClientInv
    <2>4. CASE epc = "error"
      BY <1>0, <2>2, <2>4
    <2>5. CASE epc = "done"
      BY <1>0, <1>2, <1>3, <2>1, <2>3, <2>5
    <2> QED
      BY <1>1, <2>4, <2>5
  <1>5. ASSUME rx[r] PROVE TrueEvent(r, e)' /\ (e.kind \in {"token", "done"} => PromptKnown(r))
    <2>1. PICK c : c = chan[r]
      OBVIOUS
    <2>2. Taken(r)' = Taken(r) + 1 /\ Taken(r) \in Int
      BY <1>1, <1>2, <1>4, <1>5, <2>1, EventSent
    <2>3. CASE epc = "error"
      <3>1. UserError(req[r])
        BY <1>2, <2>3 DEF ClientInv
      <3> QED
        BY <1>1, <1>4, <2>3, <3>1 DEF TrueEvent
    <2>4. CASE epc = "done"
      <3>1. Tally(r, finish, completion, Taken(r)) /\ PromptKnown(r)
        BY <1>2, <1>5, <2>4 DEF ClientInv, EventInv
      <3>2. Taken(r)' - 1 = Taken(r)
        BY <2>2
      <3>3. Tally(r, e.why, e.n, Taken(r) - 1)'
        BY <1>1, <1>4, <2>4, <3>1, <3>2 DEF Tally
      <3> QED
        BY <1>1, <1>4, <2>4, <3>1, <3>3 DEF TrueEvent
    <2> QED
      BY <1>1, <2>3, <2>4
  <1>6. NoReq \notin Requests
    BY EngineTypes DEF ClientInv
  <1> QED
    BY <1>1, <1>2, <1>4, <1>5, <1>6, SendKeeps

\* A panic sends nothing.
LEMMA EnginePanicKeeps ==
  ASSUME ClientInv, EnginePanic, UNCHANGED handlerVars
  PROVE  Promises'
  <1>1. /\ epc = "step" /\ epc' = "panicked"
        /\ UNCHANGED <<queue, chan, proc, cur, maxEff, completion, filled, finish>> /\ EngineKeeps
        /\ UNCHANGED <<req, rx, frames, client, wire>>
        /\ UNCHANGED <<hpc, pend, ptoks, ctoks, out>>
    BY DEF EnginePanic, EngineKeeps, handlerVars
  <1>2. \A q \in Requests : WireInv(q)'
    BY <1>1, EngineLeavesWire
  <1>3. ASSUME NEW q \in Requests PROVE EventInv(q)'
    <2>1. Unheard(q)
      BY <1>1 DEF Unheard
    <2> QED
      BY <2>1, EventKept DEF ClientInv
  <1> QED
    BY <1>1, <1>2, <1>3 DEF Promises

\* The end of the process cuts the open exchanges where they are.
LEMMA EngineExitKeeps ==
  ASSUME ClientInv, EngineExit, UNCHANGED handlerVars
  PROVE  Promises'
  <1>1. /\ epc = "panicked" /\ proc' = "exited"
        /\ client' = [r \in Requests |-> IF client[r] = "open" THEN "lost" ELSE client[r]]
        /\ UNCHANGED <<queue, req, tx, rx, chan, frames, wire>>
        /\ UNCHANGED <<epc, cur, maxEff, completion, filled, finish>>
        /\ UNCHANGED <<hpc, pend, ptoks, ctoks, out>>
    BY DEF EngineExit, engineVars, handlerVars
  <1>2. ASSUME NEW q \in Requests PROVE EventInv(q)' /\ WireInv(q)'
    <2>1. client'[q] = IF client[q] = "open" THEN "lost" ELSE client[q]
      BY <1>1
    <2>2. EventInv(q)'
      <3>1. Unheard(q)
        BY <1>1, <2>1 DEF Unheard
      <3> QED
        BY <3>1, EventKept DEF ClientInv
    <2>3. WireInv(q)
      BY DEF ClientInv
    <2>4. CASE client[q] # "open"
      <3>1. ctoks[q] \in Nat
        BY HandlerTypes DEF ClientInv
      <3>2. Untouched(q)
        BY <1>1, <2>1, <2>4, <3>1 DEF Untouched, Framed, Victim
      <3> QED
        BY <1>1, <2>2, <2>3, <3>2, WireKept DEF ClientInv
    <2>5. CASE client[q] = "open"
      <3>1. Framed(q) /\ (Waiting(q)' <=> Waiting(q)) /\ Stream(q)' = Stream(q) /\ Room(q)' = Room(q)
        BY <1>1, <2>1, <2>5 DEF Framed, Victim, Waiting, Stream, Room
      <3>2. StreamOK(q) => StreamOK(q)'
        BY <3>1, StreamKept
      <3>3. AnswerOK(q) => AnswerOK(q)'
        BY <1>1, <2>1, <2>5 DEF AnswerOK
      <3>4. ~Refused(q)
        BY <2>5 DEF Refused
      <3> QED
        BY <1>1, <2>1, <2>2, <2>3, <2>5, <3>1, <3>2, <3>3, <3>4 DEF WireInv
    <2> QED
      BY <2>2, <2>4, <2>5
  <1> QED
    BY <1>1, <1>2 DEF Promises

\* A graceful shutdown touches no exchange.
LEMMA ShutdownKeeps ==
  ASSUME ClientInv, Shutdown \/ ShutdownExit \/ UNCHANGED vars
  PROVE  Promises'
  <1>1. /\ UNCHANGED <<queue, req, tx, rx, chan, frames, client, wire>>
        /\ UNCHANGED <<epc, cur, maxEff, completion, filled, finish>>
        /\ UNCHANGED <<hpc, pend, ptoks, ctoks, out>>
        /\ proc = "exited" => proc' = "exited"
    BY DEF Shutdown, ShutdownExit, vars, channelVars, engineVars, handlerVars
  <1>2. ASSUME NEW q \in Requests PROVE EventInv(q)' /\ WireInv(q)'
    <2>1. ctoks[q] \in Nat
      BY HandlerTypes DEF ClientInv
    <2>2. Unheard(q) /\ Untouched(q)
      BY <1>1, <2>1 DEF Unheard, Untouched, Framed, Victim
    <2> QED
      BY <1>1, <2>2, EventKept, WireKept DEF ClientInv
  <1> QED
    BY <1>1, <1>2 DEF Promises, ClientInv

-----------------------------------------------------------------------------
(***************************************************************************)
(* The handlers pass on what they hear.                                    *)
(***************************************************************************)

\* A step of one slot leaves the others alone.
Apart(q) ==
  /\ req'[q] = req[q] /\ rx'[q] = rx[q] /\ chan'[q] = chan[q] /\ frames'[q] = frames[q]
  /\ client'[q] = client[q] /\ wire'[q] = wire[q] /\ hpc'[q] = hpc[q] /\ pend'[q] = pend[q]
  /\ ptoks'[q] = ptoks[q] /\ ctoks'[q] = ctoks[q] /\ out'[q] = out[q]

\* So the slot of the step is all there is to look at.
LEMMA OthersKeep ==
  ASSUME ClientInv, NEW r \in Requests, UNCHANGED engineVars, UNCHANGED proc,
         \A q \in Requests : q # r => Apart(q),
         req'[r] = req[r] \/ cur # r,
         EventInv(r)', WireInv(r)'
  PROVE  Promises'
  <1>1. UNCHANGED <<epc, cur, maxEff, completion, filled, finish>>
    BY DEF engineVars
  <1>2. ASSUME NEW q \in Requests, q # r PROVE EventInv(q)' /\ WireInv(q)'
    <2>1. Apart(q) /\ ctoks[q] \in Nat
      BY <1>2, HandlerTypes DEF ClientInv
    <2>2. Unheard(q) /\ Untouched(q)
      BY <1>1, <2>1 DEF Unheard, Untouched, Framed, Victim, Apart
    <2> QED
      BY <2>2, EventKept, WireKept DEF ClientInv
  <1>3. epc' = "error" => UserError(req[cur])'
    <2> SUFFICES ASSUME epc' = "error" PROVE UserError(req[cur])'
      OBVIOUS
    <2>1. cur \in Requests /\ UserError(req[cur])
      BY <1>1, CurRuns DEF ClientInv
    <2>2. req'[cur] = req[cur]
      BY <2>1 DEF Apart
    <2> QED
      BY <1>1, <2>1, <2>2
  <1> QED
    BY <1>2, <1>3 DEF Promises

\* A slot in the middle of a stream.
LEMMA StreamingInv ==
  ASSUME NEW r \in Requests, client'[r] = "open", req'[r].sse, StreamOK(r)',
         hpc'[r] # "send" => pend'[r] = <<>>,
         hpc'[r] = "send" => \A i \in 1..Len(pend'[r]) - 1 : pend'[r][i].kind # "done",
         out'[r] <= Room(r)', Waiting(r)' => out'[r] <= ctoks'[r]
  PROVE  WireInv(r)'
  BY DEF WireInv

\* A slot that its client has left.
LEMMA LeftInv ==
  ASSUME NEW r \in Requests, client'[r] = "gone", wire'[r] = <<>>, frames'[r] = <<>>,
         ~req'[r].sse => hpc'[r] = "end",
         hpc'[r] # "send" => pend'[r] = <<>>,
         hpc'[r] = "send" => \A i \in 1..Len(pend'[r]) - 1 : pend'[r][i].kind # "done",
         out'[r] <= Room(r)', Waiting(r)' => out'[r] <= ctoks'[r]
  PROVE  WireInv(r)'
  BY DEF WireInv

\* A frame that moves from one channel to the next.
LEMMA Moved ==
  ASSUME NEW a \in Seq(Frame), NEW s \in Seq(Frame), s # <<>>
  PROVE  Append(a, Head(s)) \o Tail(s) = a \o s
  <1> DEFINE h == <<Head(s)>>  t == Tail(s)
  <1>1. /\ t \in Seq(Frame) /\ Len(s) \in Nat \ {0} /\ Len(t) = Len(s) - 1
        /\ Head(s) = s[1] /\ Head(s) \in Frame
        /\ \A i \in 1..Len(s) - 1 : t[i] = s[i + 1]
    BY SeqTail
  <1>2. h \in Seq(Frame) /\ Len(h) = 1 /\ h[1] = s[1] /\ 1 \in 1..1
    BY <1>1
  <1>3. Append(a, Head(s)) = a \o h
    BY <1>1, AppendIsConcat
  <1> HIDE DEF h, t
  <1> DEFINE c == h \o t
  <1>4. c \in Seq(Frame) /\ Len(c) = Len(h) + Len(t)
        /\ (\A i \in 1..Len(h) : c[i] = h[i])
        /\ (\A i \in 1..Len(t) : c[Len(h) + i] = t[i])
    BY <1>1, <1>2, Joined
  <1> HIDE DEF c
  <1>5. Len(c) = Len(s)
    BY <1>1, <1>2, <1>4
  <1>6. \A i \in 1..Len(c) : c[i] = s[i]
    <2> SUFFICES ASSUME NEW i \in 1..Len(c) PROVE c[i] = s[i]
      OBVIOUS
    <2>1. CASE i = 1
      BY <1>2, <1>4, <2>1
    <2>2. CASE i # 1
      <3>1. i - 1 \in 1..Len(s) - 1 /\ (i - 1) + 1 = i /\ 1 + (i - 1) = i
        BY <1>1, <1>5, <2>2
      <3>2. t[i - 1] = s[i]
        BY <1>1, <3>1
      <3>3. c[1 + (i - 1)] = t[i - 1]
        BY <1>1, <1>2, <1>4, <3>1
      <3> QED
        BY <3>1, <3>2, <3>3
    <2> QED
      BY <2>1, <2>2
  <1>7. c = s
    BY <1>4, <1>5, <1>6, SeqEqual
  <1>8. (a \o h) \o t = a \o (h \o t)
    BY <1>1, <1>2, Regrouped
  <1> QED
    BY <1>3, <1>7, <1>8 DEF c, t

\* Text more: the opening grows.
LEMMA OpeningGrows ==
  ASSUME NEW r \in Requests, NEW b, IsOpening(b, r), req'[r] = req[r], out[r] \in Nat,
         NEW t \in Seq(Frame), Follow(t, out[r] + 1) = out'[r] + 1,
         \A i \in 1..Len(t) : IsText(t[i]) /\ t[i].why = "none"
  PROVE  IsOpening(b \o t, r)'
  <1> DEFINE c == b \o t  m == Len(b)
  <1>1. /\ b \in Seq(Frame) /\ Follow(b, 1) = out[r] + 1 /\ (req[r].chat => b # <<>>)
        /\ \A i \in 1..Len(b) :
             /\ b[i].why = "none"
             /\ IF req[r].chat /\ i = 1 THEN b[i].kind = "role"
                ELSE b[i].kind = "seg" /\ 1 <= b[i].lo /\ b[i].lo <= b[i].hi
    BY DEF IsOpening
  <1>2. /\ c \in Seq(Frame) /\ m \in Nat /\ Len(t) \in Nat /\ Len(c) = m + Len(t)
        /\ \A i \in 1..m : c[i] = b[i]
        /\ \A i \in 1..Len(t) : c[m + i] = t[i]
    BY <1>1, Joined
  <1>3. Follow(c, 1) = out'[r] + 1
    <2>1. 1 \in Nat
      OBVIOUS
    <2>2. Follow(b \o t, 1) = Follow(t, Follow(b, 1))
      BY <1>1, <2>1, FollowConcat
    <2> QED
      BY <1>1, <2>2
  <1>4. req[r].chat => m > 0
    BY <1>1, EmptySeq
  <1> HIDE DEF c, m
  <1>5. req[r].chat => c # <<>>
    BY <1>2, <1>4, EmptySeq
  <1>6. ASSUME NEW i \in 1..Len(c)
        PROVE  /\ c[i].why = "none"
               /\ IF req[r].chat /\ i = 1 THEN c[i].kind = "role"
                  ELSE c[i].kind = "seg" /\ 1 <= c[i].lo /\ c[i].lo <= c[i].hi
    <2>1. CASE i \in 1..m
      BY <1>1, <1>2, <2>1 DEF m
    <2>2. CASE i \notin 1..m
      <3>1. i - m \in 1..Len(t) /\ m + (i - m) = i
        BY <1>2, <2>2
      <3>2. c[i] = t[i - m]
        BY <1>2, <3>1
      <3>3. req[r].chat => i # 1
        BY <1>2, <1>4, <2>2
      <3> QED
        BY <3>1, <3>2, <3>3 DEF IsText
    <2> QED
      BY <2>1, <2>2
  <1> QED
    BY <1>2, <1>3, <1>5, <1>6 DEF IsOpening, c

\* [DONE] comes last, and only last, in an ending.
LastDone(e) ==
  /\ e \in Seq(Frame) /\ Len(e) \in Nat \ {0}
  /\ \A i \in 1..Len(e) : e[i].kind = "done" <=> i = Len(e)

\* Every ending has [DONE] at its end, and nowhere else.
LEMMA EndingsLastDone ==
  /\ LastDone(<<Plain("error"), Plain("done")>>)
  /\ \A q : \A w \in {"stop", "length"} : \A p, n \in Nat : LastDone(Epilogue(q, w, p, n))
  <1>1. \A a, d \in Frame : a.kind # "done" /\ d.kind = "done" => LastDone(<<a, d>>)
    BY DEF LastDone
  <1>2. \A a, u, d \in Frame :
          a.kind # "done" /\ u.kind # "done" /\ d.kind = "done" => LastDone(<<a, u, d>>)
    BY DEF LastDone
  <1>3. /\ Plain("error") \in Frame /\ Plain("error").kind = "error"
        /\ Plain("done") \in Frame /\ Plain("done").kind = "done"
    BY FrameTypes
  <1>4. ASSUME NEW q, NEW w \in {"stop", "length"}, NEW p \in Nat, NEW n \in Nat
        PROVE  LastDone(Epilogue(q, w, p, n))
    <2>1. /\ Finish(w) \in Frame /\ Finish(w).kind = "finish"
          /\ FinishWith(w, p, n) \in Frame /\ FinishWith(w, p, n).kind = "finish"
          /\ UsageOf(p, n) \in Frame /\ UsageOf(p, n).kind = "usage"
      BY FrameTypes
    <2>2. LastDone(<<FinishWith(w, p, n), Plain("done")>>) /\ LastDone(<<Finish(w), Plain("done")>>)
      BY <1>1, <1>3, <2>1
    <2>3. LastDone(<<Finish(w), UsageOf(p, n), Plain("done")>>)
      BY <1>2, <1>3, <2>1
    <2> QED
      BY <2>2, <2>3, EpilogueIs
  <1> QED
    BY <1>1, <1>3, <1>4

\* What the event at the head of a channel says.
LEMMA HeadSays ==
  ASSUME ClientInv, NEW r \in Requests, NEW k, Receives(r, k), UNCHANGED engineVars
  PROVE  \E e \in Event :
           /\ e = Head(chan[r]) /\ e.kind = k /\ TrueEvent(r, e)
           /\ k \in {"token", "done"} => PromptKnown(r) /\ Started(chan[r]) = 0
           /\ Taken(r) \in Int /\ ctoks[r] \in Nat /\ ctoks[r] <= Room(r)
           /\ k = "token" => e.n = ctoks[r] + 1
           /\ k \in {"done", "error"} =>
                Tail(chan[r]) = <<>> /\ ~tx[r] /\ (k = "done" => Taken(r) = ctoks[r] + 1)
  <1> DEFINE c == chan[r]  e == Head(c)
  <1>1. /\ hpc[r] = "recv" /\ rx[r] /\ c \in Seq(Event) /\ c # <<>>
        /\ e \in Event /\ e.kind = k /\ InOrder(c, ctoks[r], tx[r])
    BY ReceivesFacts DEF ClientInv
  <1>2. Len(c) \in Nat \ {0} /\ e = c[1] /\ 1 \in 1..Len(c)
    BY <1>1, SeqTail
  <1>3. ctoks[r] \in Nat /\ tx[r] \in BOOLEAN
    BY HandlerTypes, QueueTypes DEF ClientInv
  <1>4. EventInv(r)
    BY DEF ClientInv
  <1> HIDE DEF c, e
  <1>5. ctoks[r] <= Room(r)
    BY <1>1, <1>4 DEF EventInv
  <1>6. TrueEvent(r, c[1]) /\ (c[1].kind \in {"token", "done"} => PromptKnown(r))
    BY <1>1, <1>2, <1>4 DEF EventInv, c
  <1>7. Started(c) \in {0, 1} /\ (k \in {"token", "done"} => Started(c) = 0)
    BY <1>1 DEF Started, e
  <1>8. Taken(r) = ctoks[r] + Len(c) - Started(c)
    BY DEF Taken, c
  <1>9. k = "token" => e.n = ctoks[r] + 1
    BY <1>1, <1>3, OrderTail DEF e
  <1>10. k \in {"done", "error"} => Tail(c) = <<>>
    BY <1>1, <1>3, OrderTail DEF e, Terminal
  <1>11. k \in {"done", "error"} => ~tx[r] /\ Len(c) = 1
    BY <1>1, <1>2 DEF InOrder, Terminal
  <1>12. Taken(r) \in Int /\ (k = "done" => Taken(r) = ctoks[r] + 1)
    <2>1. Taken(r) \in Int
      BY <1>2, <1>3, <1>7, <1>8
    <2>2. k = "done" => Len(c) = 1 /\ Started(c) = 0
      BY <1>7, <1>11
    <2>3. ASSUME k = "done" PROVE Taken(r) = ctoks[r] + 1
      <3>1. Len(c) = 1 /\ Started(c) = 0
        BY <2>2, <2>3
      <3>2. Taken(r) = ctoks[r] + 1 - 0
        BY <1>8, <3>1, Zenon
      <3> QED
        BY <1>3, <3>2
    <2> QED
      BY <2>1, <2>3
  <1>13. TrueEvent(r, e)
    BY <1>2, <1>6
  <1> QED
    BY <1>1, <1>2, <1>3, <1>5, <1>6, <1>7, <1>9, <1>10, <1>11, <1>12, <1>13 DEF e, c

\* An event that ends nothing, taken off the channel: what is left stays true.
LEMMA Heard ==
  ASSUME ClientInv, NEW r \in Requests, NEW k \in {"start", "token"}, Receives(r, k),
         UNCHANGED engineVars, client'[r] # "idle",
         k = "token" => ctoks'[r] = ctoks[r] + 1 /\ ptoks'[r] = ptoks[r],
         k = "start" => ctoks'[r] = ctoks[r] /\ ptoks'[r] = Head(chan[r]).p
  PROVE  EventInv(r)'
  <1>0. PICK c : c = chan[r]
    OBVIOUS
  <1>1. PICK d : d = Tail(c)
    OBVIOUS
  <1>2. /\ rx[r] /\ client[r] # "idle" /\ c \in Seq(Event) /\ c # <<>> /\ Head(c).kind = k
        /\ chan'[r] = d /\ UNCHANGED <<queue, req, tx, proc, frames>>
        /\ UNCHANGED <<epc, cur, maxEff, completion, filled, finish>>
        /\ InOrder(c, ctoks[r], tx[r])
    BY <1>0, <1>1, ReceivesFacts DEF ClientInv
  <1>3. PICK e \in Event :
          /\ e = Head(c) /\ TrueEvent(r, e)
          /\ k \in {"token", "done"} => PromptKnown(r) /\ Started(c) = 0
          /\ ctoks[r] \in Nat /\ ctoks[r] <= Room(r)
          /\ k = "token" => e.n = ctoks[r] + 1
    BY <1>0, HeadSays
  <1>4. Room(r)' = Room(r)
    BY <1>2 DEF Room
  <1>5. /\ Len(c) \in Nat \ {0} /\ Len(d) = Len(c) - 1
        /\ \A i \in 1..Len(c) - 1 : d[i] = c[i + 1]
    BY <1>1, <1>2, SeqTail
  <1>6. Taken(r)' = Taken(r)
    <2>1. Started(c) \in {0, 1} /\ Started(d) \in {0, 1}
      BY DEF Started
    <2>2. tx[r] \in BOOLEAN
      BY QueueTypes DEF ClientInv
    <2>3. Taken(r) = ctoks[r] + Len(c) - Started(c) /\ Taken(r)' = ctoks'[r] + Len(d) - Started(d)
      BY <1>0, <1>2 DEF Taken
    <2>4. CASE k = "token"
      <3>1. Len(d) - Started(d) = Len(c) - Started(c) - 1
        BY <1>1, <1>2, <1>3, <2>2, <2>4, OrderTail
      <3>2. ctoks'[r] = ctoks[r] + 1 /\ ctoks[r] \in Nat
        BY <1>3, <2>4
      <3>3. Len(c) \in Nat /\ Len(d) \in Nat
        BY <1>5
      <3>4. (ctoks[r] + 1) + Len(d) - Started(d) = ctoks[r] + Len(c) - Started(c)
        BY <2>1, <3>1, <3>2, <3>3
      <3> QED
        BY <2>3, <3>2, <3>4
    <2>5. CASE k = "start"
      <3>1. Len(d) - Started(d) = Len(c) - Started(c)
        BY <1>1, <1>2, <1>3, <2>2, <2>5, OrderTail
      <3>2. ctoks'[r] = ctoks[r]
        BY <2>5
      <3> QED
        BY <1>3, <1>5, <2>1, <2>3, <3>1, <3>2
    <2> QED
      BY <2>4, <2>5
  <1>7. PromptKnown(r)'
    <2>1. CASE k = "token"
      BY <1>0, <1>2, <1>3, <2>1 DEF PromptKnown
    <2>2. CASE k = "start"
      <3>1. e.kind = "start"
        BY <1>2, <1>3, <2>2
      <3> QED
        BY <1>0, <1>2, <1>3, <2>2, <3>1 DEF PromptKnown, TrueEvent
    <2> QED
      BY <2>1, <2>2
  <1>8. \A x : TrueEvent(r, x) => TrueEvent(r, x)'
    BY <1>2, <1>4, <1>6 DEF TrueEvent, Tally
  <1>9. EventInv(r)
    BY DEF ClientInv
  <1>10. \A i \in 1..Len(d) : TrueEvent(r, d[i])'
    <2> SUFFICES ASSUME NEW i \in 1..Len(d) PROVE TrueEvent(r, d[i])'
      OBVIOUS
    <2>1. i + 1 \in 1..Len(c) /\ d[i] = c[i + 1]
      BY <1>5
    <2>2. TrueEvent(r, c[i + 1])
      BY <1>0, <1>2, <1>9, <2>1 DEF EventInv
    <2> QED
      BY <1>8, <2>1, <2>2
  <1>11. ctoks'[r] <= Room(r)'
    <2>1. CASE k = "token"
      <3>1. e.kind = "token"
        BY <1>2, <1>3, <2>1
      <3> QED
        BY <1>3, <1>4, <2>1, <3>1 DEF TrueEvent
    <2>2. CASE k = "start"
      BY <1>3, <1>4, <2>2
    <2> QED
      BY <2>1, <2>2
  <1>12. cur' = r /\ epc' = "done" => Tally(r, finish, completion, Taken(r))'
    BY <1>2, <1>6, <1>9 DEF EventInv, Tally
  <1> QED
    BY <1>2, <1>7, <1>10, <1>11, <1>12 DEF EventInv

\* After a terminal event nothing more is said.
LEMMA LastHeard ==
  ASSUME ClientInv, NEW r \in Requests, NEW k \in {"done", "error"}, Receives(r, k),
         UNCHANGED engineVars, rx'[r] => ctoks'[r] <= Room(r)'
  PROVE  EventInv(r)'
  <1>1. chan'[r] = Tail(chan[r]) /\ UNCHANGED <<epc, cur, maxEff, completion, filled, finish>>
    BY ReceivesFacts DEF ClientInv
  <1>2. chan'[r] = <<>> /\ ~tx[r]
    BY <1>1, HeadSays
  <1>3. ~(cur' = r /\ epc' \in {"step", "push", "done"})
    BY <1>1, <1>2 DEF ClientInv, IndInv, SenderOwned
  <1>4. \A i \in 1..Len(chan'[r]) : FALSE
    BY <1>2
  <1> QED
    BY <1>3, <1>4 DEF EventInv

\* The handler of an open or of a left slot hears, and no other.
LEMMA WhoHears ==
  ASSUME ClientInv, NEW r \in Requests, hpc[r] \in {"recv", "send"}, proc # "exited"
  PROVE  /\ client[r] \in {"open", "gone"} /\ ~Refused(r)
         /\ client[r] = "gone" => req[r].sse /\ wire[r] = <<>> /\ frames[r] = <<>>
         /\ client[r] = "open" => IF req[r].sse THEN StreamOK(r) ELSE AnswerOK(r)
         /\ hpc[r] = "recv" => pend[r] = <<>> /\ Waiting(r)
         /\ out[r] \in Nat /\ ctoks[r] \in Nat /\ out[r] <= Room(r)
         /\ hpc[r] = "recv" => out[r] <= ctoks[r]
  <1>1. WireInv(r) /\ SlotInv(r) /\ client[r] \in {"idle", "open", "closed", "gone", "lost"}
    BY ChanTypes DEF ClientInv, IndInv
  <1>2. out[r] \in Nat /\ ctoks[r] \in Nat
    BY HandlerTypes DEF ClientInv
  <1>3. client[r] \in {"open", "gone"}
    BY <1>1 DEF WireInv, SlotInv
  <1>4. ~Refused(r)
    BY <1>3 DEF Refused
  <1>5. hpc[r] = "recv" => Waiting(r)
    BY DEF Waiting
  <1> QED
    BY <1>1, <1>2, <1>3, <1>4, <1>5 DEF WireInv

\* The stream of an open slot, when text and an ending are handed to the sends.
LEMMA StreamEnds ==
  ASSUME ClientInv, NEW r \in Requests, hpc[r] = "recv", proc # "exited", req[r].sse,
         NEW t \in Seq(Frame), NEW e,
         Follow(t, out[r] + 1) = out'[r] + 1,
         \A i \in 1..Len(t) : IsText(t[i]) /\ t[i].why = "none",
         IsEnding(e, r)', LastDone(e),
         pend'[r] = t \o e, hpc'[r] = "send",
         wire'[r] = wire[r], frames'[r] = frames[r], client'[r] = client[r], req'[r] = req[r],
         out'[r] \in Nat, out'[r] <= Room(r)'
  PROVE  WireInv(r)'
  <1> DEFINE p == t \o e
  <1>1. e \in Seq(Frame) /\ Len(e) \in Nat \ {0} /\ \A i \in 1..Len(e) : e[i].kind = "done" <=> i = Len(e)
    BY DEF LastDone
  <1>2. /\ p \in Seq(Frame) /\ Len(t) \in Nat /\ Len(p) = Len(t) + Len(e)
        /\ \A i \in 1..Len(t) : p[i] = t[i]
        /\ \A i \in 1..Len(e) : p[Len(t) + i] = e[i]
    BY <1>1, Joined
  <1>3. pend'[r] = p
    OBVIOUS
  <1> HIDE DEF p
  <1>4. \A i \in 1..Len(p) : p[i].kind = "done" <=> i = Len(p)
    <2> SUFFICES ASSUME NEW i \in 1..Len(p) PROVE p[i].kind = "done" <=> i = Len(p)
      OBVIOUS
    <2>1. CASE i \in 1..Len(t)
      <3>1. p[i].kind # "done"
        BY <1>2, <2>1 DEF IsText
      <3> QED
        BY <1>1, <1>2, <2>1, <3>1
    <2>2. CASE i \notin 1..Len(t)
      <3>1. i - Len(t) \in 1..Len(e) /\ Len(t) + (i - Len(t)) = i
        BY <1>1, <1>2, <2>2
      <3>2. p[i] = e[i - Len(t)]
        BY <1>2, <3>1
      <3> QED
        BY <1>1, <1>2, <3>1, <3>2
    <2> QED
      BY <2>1, <2>2
  <1>5. Len(p) \in 1..Len(p) /\ \A i \in 1..Len(p) - 1 : i \in 1..Len(p) /\ i # Len(p)
    BY <1>1, <1>2
  <1>6. ~Waiting(r)'
    BY <1>3, <1>4, <1>5 DEF Waiting
  <1>7. \A i \in 1..Len(pend'[r]) - 1 : pend'[r][i].kind # "done"
    BY <1>3, <1>4, <1>5
  <1>8. /\ client[r] \in {"open", "gone"}
        /\ client[r] = "gone" => wire[r] = <<>> /\ frames[r] = <<>>
        /\ client[r] = "open" => StreamOK(r)
        /\ pend[r] = <<>> /\ Waiting(r) /\ out[r] \in Nat
    BY WhoHears
  <1>9. ASSUME client[r] = "open" PROVE StreamOK(r)'
    <2>1. PICK b : IsOpening(b, r) /\ Stream(r) = b
      BY <1>8, <1>9 DEF StreamOK
    <2>2. wire[r] \in Seq(Frame) /\ frames[r] \in Seq(Frame) /\ b \in Seq(Frame)
      BY <2>1, ChanTypes DEF ClientInv, IsOpening
    <2>3. wire[r] \o frames[r] = b
      <3>1. wire[r] \o frames[r] \in Seq(Frame)
        BY <2>2, ConcatProperties
      <3>2. (wire[r] \o frames[r]) \o <<>> = wire[r] \o frames[r]
        BY <3>1, NoneMore
      <3> QED
        BY <1>8, <2>1, <3>2 DEF Stream
    <2>4. Stream(r)' = b \o (t \o e)
      <3>1. wire'[r] \o frames'[r] = b
        BY <2>3
      <3>2. Stream(r)' = wire'[r] \o frames'[r] \o pend'[r]
        BY DEF Stream
      <3> QED
        BY <3>1, <3>2
    <2>5. (b \o t) \o e = b \o (t \o e)
      <3>1. \A x, y \in Seq(Frame) : (x \o t) \o y = x \o (t \o y)
        BY Regrouped
      <3>2. e \in Seq(Frame) /\ b \in Seq(Frame)
        BY <1>1, <2>2
      <3> QED
        BY <3>1, <3>2, Zenon
    <2>6. IsOpening(b \o t, r)'
      BY <1>8, <2>1, OpeningGrows
    <2> QED
      BY <1>6, <2>4, <2>5, <2>6 DEF StreamOK
  <1> QED
    BY <1>6, <1>7, <1>8, <1>9, StreamingInv, LeftInv

\* A JSON answer is given to a client that has nothing yet.
LEMMA AnswerGiven ==
  ASSUME ClientInv, NEW r \in Requests, hpc[r] = "recv", proc # "exited", ~req[r].sse,
         NEW f, IsAnswer(f, r)', Answer(r, f), UNCHANGED <<frames, req>>,
         out'[r] \in Nat, out'[r] <= Room(r)'
  PROVE  WireInv(r)'
  <1>1. /\ client[r] = "open" /\ AnswerOK(r) /\ pend[r] = <<>>
    BY WhoHears
  <1>2. wire[r] = <<>> /\ frames[r] = <<>>
    BY <1>1 DEF AnswerOK
  <1>3. wire'[r] = <<f>> /\ client'[r] = "closed" /\ hpc'[r] = "end" /\ pend'[r] = <<>>
    BY <1>1, <1>2, ChanTypes, HandlerTypes DEF Answer, Return, ClientInv
  <1>4. frames'[r] = <<>> /\ ~req'[r].sse
    BY <1>2
  <1>5. AnswerOK(r)'
    BY <1>3, <1>4 DEF AnswerOK
  <1> QED
    BY <1>3, <1>4, <1>5 DEF WireInv, Waiting

\* A frame sent goes from the task's hands to the frame channel; with a client that
\* left, the stream is given up or emptied.
LEMMA SendFrameKeeps ==
  ASSUME ClientInv, NEW r \in Requests, SendFrame(r), UNCHANGED engineVars
  PROVE  Promises'
  <1>0. PICK p : p = pend[r]
    OBVIOUS
  <1>d. PICK d : d = Tail(p)
    OBVIOUS
  <1>f. PICK f : f = Head(p)
    OBVIOUS
  <1>1. /\ hpc[r] = "send" /\ proc # "exited" /\ UNCHANGED <<chan, client, wire, ptoks, ctoks, out>>
        /\ UNCHANGED <<queue, req, tx, proc>>
        /\ UNCHANGED <<epc, cur, maxEff, completion, filled, finish>>
    BY DEF SendFrame, Keeps, engineVars
  <1>2. /\ p \in Seq(Frame) /\ p # <<>> /\ p[Len(p)].kind \in {"role", "seg", "done"}
        /\ rx[r] /\ WireInv(r) /\ EventInv(r)
    BY <1>0, <1>1, HandlerTypes DEF ClientInv, IndInv, SlotInv
  <1>3. /\ Len(p) \in Nat \ {0} /\ f \in Frame /\ f = p[1] /\ d \in Seq(Frame)
        /\ Len(d) = Len(p) - 1 /\ (d = <<>> <=> Len(p) <= 1)
        /\ \A i \in 1..Len(p) - 1 : d[i] = p[i + 1]
    BY <1>2, <1>d, <1>f, SeqTail
  <1>4. \A i \in 1..Len(p) - 1 : p[i].kind # "done"
    BY <1>0, <1>1, <1>2 DEF WireInv
  <1>5. \A i \in 1..Len(d) - 1 : d[i].kind # "done"
    <2> SUFFICES ASSUME NEW i \in 1..Len(d) - 1 PROVE d[i].kind # "done"
      OBVIOUS
    <2>1. i + 1 \in 1..Len(p) - 1 /\ i \in 1..Len(p) - 1
      BY <1>3
    <2> QED
      BY <1>3, <1>4, <2>1
  <1>6. Len(p) > 1 => Len(d) > 0 /\ d[Len(d)] = p[Len(p)] /\ f.kind # "done"
    <2> SUFFICES ASSUME Len(p) > 1
                 PROVE  Len(d) > 0 /\ d[Len(d)] = p[Len(p)] /\ f.kind # "done"
      OBVIOUS
    <2>1. /\ Len(d) \in 1..Len(p) - 1 /\ Len(d) + 1 = Len(p) /\ Len(d) > 0
          /\ 1 \in 1..Len(p) - 1
      BY <1>3
    <2>2. d[Len(d)] = p[Len(d) + 1]
      BY <1>3, <2>1
    <2>3. f.kind # "done"
      BY <1>3, <1>4, <2>1
    <2> QED
      BY <2>1, <2>2, <2>3
  <1>7. Len(p) <= 1 => Len(p) = 1 /\ d = <<>> /\ f = p[Len(p)]
    BY <1>3
  <1>8. /\ client[r] \in {"open", "gone"} /\ req[r].sse
        /\ client[r] = "gone" => wire[r] = <<>> /\ frames[r] = <<>>
        /\ client[r] = "open" => StreamOK(r)
        /\ out[r] \in Nat /\ ctoks[r] \in Nat /\ out[r] <= Room(r)
    BY <1>1, WhoHears DEF AnswerOK
  <1>9. \/ /\ client[r] = "open"
           /\ frames' = [frames EXCEPT ![r] = Append(@, f)]
           /\ pend' = [pend EXCEPT ![r] = d]
           /\ \/ f.kind = "done" /\ Return(r)
              \/ /\ f.kind # "done" /\ rx' = rx
                 /\ hpc' = IF Len(p) = 1 THEN [hpc EXCEPT ![r] = "recv"] ELSE hpc
        \/ client[r] = "gone" /\ frames' = frames /\ pend' = [pend EXCEPT ![r] = <<>>] /\ Return(r)
        \/ /\ client[r] = "gone" /\ frames' = frames /\ pend' = [pend EXCEPT ![r] = d]
           /\ \/ f.kind = "done" /\ Return(r)
              \/ f.kind \notin {"role", "seg", "done"} /\ hpc' = hpc /\ rx' = rx
    BY <1>0, <1>d, <1>f, <1>8 DEF SendFrame
  <1>10. /\ \A q \in Requests : q # r => Apart(q)
         /\ Return(r) => hpc'[r] = "end"
    BY <1>1, <1>9, QueueTypes, ChanTypes, HandlerTypes DEF Apart, Return, ClientInv
  <1>11. Framed(r) /\ Room(r)' = Room(r) /\ Unheard(r)
    BY <1>1, <1>2 DEF Framed, Victim, Room, Unheard
  <1>12. Waiting(r) <=> p[Len(p)].kind \in {"role", "seg"}
    BY <1>0, <1>1 DEF Waiting
  <1>13. ASSUME pend'[r] = d, hpc'[r] = "send", Len(p) > 1
         PROVE  Waiting(r)' <=> Waiting(r)
    BY <1>6, <1>12, <1>13 DEF Waiting
  <1>14. ASSUME client[r] = "open" PROVE WireInv(r)'
    <2>1. frames'[r] = Append(frames[r], f) /\ pend'[r] = d
      BY <1>9, <1>14, ChanTypes, HandlerTypes DEF ClientInv
    <2>2. /\ hpc'[r] # "send" => d = <<>>
          /\ Waiting(r)' <=> Waiting(r)
      <3>1. CASE f.kind = "done" /\ Return(r)
        <4>1. hpc'[r] = "end" /\ d = <<>> /\ p[Len(p)].kind = "done"
          BY <1>3, <1>6, <1>7, <1>10, <3>1
        <4> QED
          BY <1>12, <4>1 DEF Waiting
      <3>2. CASE /\ f.kind # "done" /\ rx' = rx
                 /\ hpc' = IF Len(p) = 1 THEN [hpc EXCEPT ![r] = "recv"] ELSE hpc
        <4>1. CASE Len(p) <= 1
          <5>1. hpc'[r] = "recv"
            BY <1>7, <3>2, <4>1, HandlerTypes DEF ClientInv
          <5> QED
            BY <1>2, <1>7, <1>12, <3>2, <4>1, <5>1 DEF Waiting
        <4>2. CASE ~(Len(p) <= 1)
          <5>1. Len(p) > 1 /\ Len(p) # 1
            BY <1>3, <4>2
          <5>2. hpc'[r] = "send"
            BY <1>1, <3>2, <5>1
          <5> QED
            BY <1>13, <2>1, <5>1, <5>2
        <4> QED
          BY <4>1, <4>2
      <3> QED
        BY <1>9, <1>14, <3>1, <3>2
    <2>3. Stream(r)' = Stream(r)
      <3> DEFINE w == wire[r]  c == frames[r]  g == <<f>>
      <3>1. w \in Seq(Frame) /\ c \in Seq(Frame) /\ g \in Seq(Frame)
        BY <1>3, ChanTypes DEF ClientInv
      <3>2. Append(c, f) = c \o g
        BY <1>3, <3>1, AppendIsConcat
      <3>3. Append(c, f) \o d = c \o p
        BY <1>2, <1>d, <1>f, <3>1, Moved
      <3> HIDE DEF w, c, g
      <3>a. d \in Seq(Frame) /\ p \in Seq(Frame) /\ c \o g \in Seq(Frame)
        BY <1>2, <1>3, <3>1, Regrouped
      <3>b. \A x, y, z \in Seq(Frame) : (x \o y) \o z = x \o (y \o z)
        BY Regrouped
      <3>4. (w \o (c \o g)) \o d = w \o ((c \o g) \o d)
        <4>1. w \in Seq(Frame) /\ c \o g \in Seq(Frame) /\ d \in Seq(Frame)
          BY <3>1, <3>a
        <4> QED
          BY <3>b, <4>1, Zenon
      <3>5. (w \o c) \o p = w \o (c \o p)
        <4>1. w \in Seq(Frame) /\ c \in Seq(Frame) /\ p \in Seq(Frame)
          BY <3>1, <3>a
        <4> QED
          BY <3>b, <4>1, Zenon
      <3>6. (w \o Append(c, f)) \o d = (w \o c) \o p
        BY <3>2, <3>3, <3>4, <3>5, Zenon
      <3>7. Stream(r) = (w \o c) \o p
        BY <1>0 DEF Stream, w, c
      <3>8. Stream(r)' = (w \o Append(c, f)) \o d
        BY <1>1, <2>1 DEF Stream, w, c
      <3> QED
        BY <3>6, <3>7, <3>8
    <2>4. StreamOK(r)'
      BY <1>8, <1>11, <1>14, <2>2, <2>3, StreamKept
    <2>5. Waiting(r)' => out'[r] <= ctoks'[r]
      BY <1>1, <1>2, <2>2 DEF WireInv
    <2>6. WireInv(r)'
      BY <1>1, <1>5, <1>8, <1>11, <1>14, <2>1, <2>2, <2>4, <2>5, StreamingInv
    <2> QED
      BY <2>6
  <1>15. ASSUME client[r] = "gone" PROVE WireInv(r)'
    <2>1. \/ hpc'[r] = "end" /\ pend'[r] = <<>>
          \/ hpc'[r] = "end" /\ pend'[r] = d /\ d = <<>>
          \/ hpc'[r] = "send" /\ pend'[r] = d /\ Len(p) > 1
      <3>1. CASE pend' = [pend EXCEPT ![r] = <<>>] /\ Return(r)
        BY <1>10, <3>1, HandlerTypes DEF ClientInv
      <3>2. CASE pend' = [pend EXCEPT ![r] = d] /\ f.kind = "done" /\ Return(r)
        <4>1. d = <<>>
          BY <1>3, <1>6, <1>7, <3>2
        <4> QED
          BY <1>10, <3>2, <4>1, HandlerTypes DEF ClientInv
      <3>3. CASE pend' = [pend EXCEPT ![r] = d] /\ f.kind \notin {"role", "seg", "done"} /\ hpc' = hpc
        <4>1. Len(p) > 1
          BY <1>2, <1>3, <1>7, <3>3
        <4> QED
          BY <1>1, <3>3, <4>1, HandlerTypes DEF ClientInv
      <3> QED
        BY <1>9, <1>15, <3>1, <3>2, <3>3
    <2>2. /\ hpc'[r] # "send" => pend'[r] = <<>>
          /\ hpc'[r] = "send" => \A i \in 1..Len(pend'[r]) - 1 : pend'[r][i].kind # "done"
      BY <1>5, <2>1
    <2>3. Waiting(r)' => Waiting(r)
      <3>1. CASE hpc'[r] = "end"
        BY <3>1 DEF Waiting
      <3>2. CASE hpc'[r] = "send" /\ pend'[r] = d /\ Len(p) > 1
        BY <1>13, <3>2
      <3> QED
        BY <2>1, <3>1, <3>2
    <2>4. Waiting(r)' => out'[r] <= ctoks'[r]
      BY <1>1, <1>2, <2>3 DEF WireInv
    <2>5. frames'[r] = <<>> /\ wire'[r] = <<>> /\ client'[r] = "gone" /\ req'[r].sse
      BY <1>1, <1>8, <1>9, <1>15
    <2> QED
      BY <1>1, <1>8, <1>11, <2>2, <2>4, <2>5, LeftInv
  <1>16. EventInv(r)'
    BY <1>2, <1>11, EventKept
  <1> QED
    BY <1>1, <1>8, <1>10, <1>14, <1>15, <1>16, OthersKeep

\* Start: only a client that left is noticed.
LEMMA RecvStartKeeps ==
  ASSUME ClientInv, NEW r \in Requests, RecvStart(r), UNCHANGED engineVars
  PROVE  Promises'
  <1>1. /\ Receives(r, "start") /\ ptoks' = [ptoks EXCEPT ![r] = Head(chan[r]).p]
        /\ UNCHANGED <<client, wire, pend, ctoks, out>>
        /\ \/ req[r].sse /\ client[r] # "open" /\ Return(r)
           \/ UNCHANGED <<hpc, rx>>
    BY DEF RecvStart
  <1>2. /\ hpc[r] = "recv" /\ rx[r] /\ client[r] # "idle" /\ Head(chan[r]).kind = "start"
        /\ \A q \in Requests : q # r => chan'[q] = chan[q]
        /\ UNCHANGED <<queue, req, tx, proc, frames>>
        /\ UNCHANGED <<epc, cur, maxEff, completion, filled, finish>>
    BY <1>1, ReceivesFacts DEF ClientInv
  <1>3. proc # "exited"
    BY <1>1 DEF Receives
  <1>4. ptoks'[r] = Head(chan[r]).p
    BY <1>1, HandlerTypes DEF ClientInv
  <1>5. EventInv(r)'
    BY <1>1, <1>2, <1>4, Heard
  <1>6. \A q \in Requests : q # r => Apart(q)
    BY <1>1, <1>2, QueueTypes, HandlerTypes DEF Apart, Return, ClientInv
  <1>7. /\ client[r] \in {"open", "gone"}
        /\ client[r] = "gone" => wire[r] = <<>> /\ frames[r] = <<>>
        /\ pend[r] = <<>> /\ ctoks[r] \in Nat /\ out[r] <= Room(r)
    BY <1>2, <1>3, WhoHears
  <1>8. CASE UNCHANGED <<hpc, rx>>
    <2>1. Untouched(r)
      BY <1>1, <1>2, <1>7, <1>8 DEF Untouched, Framed, Victim
    <2>2. WireInv(r)'
      BY <1>2, <1>3, <2>1, WireKept DEF ClientInv
    <2> QED
      BY <1>2, <1>5, <1>6, <2>2, OthersKeep
  <1>9. CASE req[r].sse /\ client[r] # "open" /\ Return(r)
    <2>1. hpc'[r] = "end" /\ client'[r] = "gone" /\ wire'[r] = <<>> /\ frames'[r] = <<>>
          /\ pend'[r] = <<>> /\ req'[r].sse
      BY <1>1, <1>2, <1>7, <1>9, HandlerTypes DEF Return, ClientInv
    <2>2. Room(r)' = Room(r) /\ out'[r] = out[r]
      BY <1>1, <1>2 DEF Room
    <2>3. ~Waiting(r)'
      BY <2>1 DEF Waiting
    <2>4. WireInv(r)'
      BY <1>7, <2>1, <2>2, <2>3, LeftInv
    <2> QED
      BY <1>2, <1>5, <1>6, <2>4, OthersKeep
  <1> QED
    BY <1>1, <1>8, <1>9

\* The stream of an open slot, when text is handed to the sends.
LEMMA TextSent ==
  ASSUME ClientInv, NEW r \in Requests, hpc[r] = "recv", proc # "exited", req[r].sse,
         NEW t \in Seq(Frame), t # <<>>,
         Follow(t, out[r] + 1) = out'[r] + 1,
         \A i \in 1..Len(t) : IsText(t[i]) /\ t[i].why = "none",
         pend'[r] = t, hpc'[r] = "send",
         wire'[r] = wire[r], frames'[r] = frames[r], client'[r] = client[r], req'[r] = req[r],
         out'[r] <= Room(r)', out'[r] <= ctoks'[r]
  PROVE  WireInv(r)'
  <1>1. /\ client[r] \in {"open", "gone"}
        /\ client[r] = "gone" => wire[r] = <<>> /\ frames[r] = <<>>
        /\ client[r] = "open" => StreamOK(r)
        /\ pend[r] = <<>> /\ Waiting(r) /\ out[r] \in Nat
    BY WhoHears
  <1>2. Len(t) \in Nat \ {0} /\ Len(t) \in 1..Len(t) /\ \A i \in 1..Len(t) - 1 : i \in 1..Len(t)
    BY EmptySeq, LenProperties
  <1>3. t[Len(t)].kind = "seg" /\ \A i \in 1..Len(t) - 1 : t[i].kind # "done"
    BY <1>2 DEF IsText
  <1>4. Waiting(r)' /\ \A i \in 1..Len(pend'[r]) - 1 : pend'[r][i].kind # "done"
    BY <1>3 DEF Waiting
  <1>5. ASSUME client[r] = "open" PROVE StreamOK(r)'
    <2>1. PICK b : IsOpening(b, r) /\ Stream(r) = b
      BY <1>1, <1>5 DEF StreamOK
    <2>2. wire[r] \in Seq(Frame) /\ frames[r] \in Seq(Frame)
      BY ChanTypes DEF ClientInv
    <2>3. wire[r] \o frames[r] = b
      <3>1. wire[r] \o frames[r] \in Seq(Frame)
        BY <2>2, ConcatProperties
      <3>2. (wire[r] \o frames[r]) \o <<>> = wire[r] \o frames[r]
        BY <3>1, NoneMore
      <3> QED
        BY <1>1, <2>1, <3>2 DEF Stream
    <2>4. Stream(r)' = b \o t
      BY <2>3 DEF Stream
    <2>5. IsOpening(b \o t, r)'
      BY <1>1, <2>1, OpeningGrows
    <2> QED
      BY <1>4, <2>4, <2>5 DEF StreamOK
  <1> QED
    BY <1>1, <1>4, <1>5, StreamingInv, LeftInv

\* A token: what it releases is sent on a stream, and kept for the answer otherwise.
LEMMA RecvTokenKeeps ==
  ASSUME ClientInv, NEW r \in Requests, RecvToken(r), UNCHANGED engineVars
  PROVE  Promises'
  <1>1. /\ Receives(r, "token") /\ ctoks' = [ctoks EXCEPT ![r] = @ + 1]
        /\ UNCHANGED <<rx, client, wire, ptoks>>
    BY DEF RecvToken
  <1>2. PICK e \in Event :
          /\ e = Head(chan[r]) /\ e.kind = "token" /\ TrueEvent(r, e)
          /\ ctoks[r] \in Nat /\ e.n = ctoks[r] + 1
    BY <1>1, HeadSays
  <1>3. PICK hi \in out[r]..e.n :
          /\ out' = [out EXCEPT ![r] = hi]
          /\ IF req[r].sse /\ hi > out[r]
               THEN /\ pend' = [pend EXCEPT ![r] = Text(out[r] + 1, hi)]
                    /\ hpc' = [hpc EXCEPT ![r] = "send"]
               ELSE UNCHANGED <<pend, hpc>>
    BY <1>2 DEF RecvToken
  <1>4. /\ hpc[r] = "recv" /\ rx[r] /\ client[r] # "idle" /\ proc # "exited"
        /\ \A q \in Requests : q # r => chan'[q] = chan[q]
        /\ UNCHANGED <<queue, req, tx, proc, frames>>
        /\ UNCHANGED <<epc, cur, maxEff, completion, filled, finish>>
    BY <1>1, ReceivesFacts DEF ClientInv, Receives
  <1>5. /\ ctoks'[r] = ctoks[r] + 1 /\ out'[r] = hi
        /\ \A q \in Requests : q # r => ctoks'[q] = ctoks[q] /\ out'[q] = out[q]
    BY <1>1, <1>3, HandlerTypes DEF ClientInv
  <1>6. \A q \in Requests : q # r => Apart(q)
    BY <1>1, <1>3, <1>4, <1>5, HandlerTypes DEF Apart, ClientInv
  <1>7. EventInv(r)'
    BY <1>1, <1>4, <1>5, Heard
  <1>8. /\ client[r] \in {"open", "gone"} /\ (client[r] = "gone" => req[r].sse)
        /\ client[r] = "open" => IF req[r].sse THEN StreamOK(r) ELSE AnswerOK(r)
        /\ pend[r] = <<>> /\ out[r] \in Nat
    BY <1>4, WhoHears
  <1>9. out[r] <= hi /\ hi <= ctoks[r] + 1 /\ hi \in Nat
    BY <1>2, <1>3, <1>8
  <1>10. Room(r)' = Room(r) /\ hi <= Room(r)
    <2>1. Room(r)' = Room(r)
      BY <1>1, <1>4 DEF Room
    <2>2. ctoks[r] + 1 <= Room(r)
      BY <1>2 DEF TrueEvent
    <2>3. Room(r) \in Nat
      <3>1. req[r] \in Profiles
        BY ChanTypes DEF ClientInv
      <3> QED
        BY <3>1, BudgetType DEF Room
    <2> QED
      BY <1>2, <1>9, <2>1, <2>2, <2>3
  <1>11. CASE req[r].sse /\ hi > out[r]
    <2> DEFINE t == Text(out[r] + 1, hi)
    <2>1. /\ t \in Seq(Frame) /\ Follow(t, out[r] + 1) = hi + 1
          /\ \A i \in 1..Len(t) : IsText(t[i]) /\ t[i].why = "none"
      <3>1. out[r] + 1 \in Nat \ {0} /\ out[r] + 1 <= hi + 1
        BY <1>8, <1>9
      <3> QED
        BY <1>9, <3>1, FollowText
    <2>2. t # <<>>
      <3>1. ~(out[r] + 1 > hi)
        BY <1>8, <1>9, <1>11
      <3> QED
        BY <3>1 DEF Text
    <2> HIDE DEF t
    <2>3. pend'[r] = t /\ hpc'[r] = "send"
      BY <1>3, <1>11, <2>1, HandlerTypes DEF ClientInv, t
    <2>4. WireInv(r)'
      BY <1>1, <1>4, <1>5, <1>9, <1>10, <1>11, <2>1, <2>2, <2>3, TextSent
    <2> QED
      BY <1>4, <1>6, <1>7, <2>4, OthersKeep
  <1>12. CASE ~(req[r].sse /\ hi > out[r]) /\ req[r].sse
    <2>1. out'[r] = out[r] /\ ctoks[r] <= ctoks'[r] /\ ctoks'[r] \in Nat
      BY <1>2, <1>5, <1>8, <1>9, <1>12
    <2>2. Untouched(r)
      BY <1>1, <1>3, <1>4, <1>12, <2>1 DEF Untouched, Framed, Victim
    <2>3. WireInv(r)'
      BY <1>4, <2>2, WireKept DEF ClientInv
    <2> QED
      BY <1>4, <1>6, <1>7, <2>3, OthersKeep
  <1>13. CASE ~req[r].sse
    <2>1. pend' = pend /\ hpc' = hpc
      BY <1>3, <1>13
    <2>2. client'[r] = "open" /\ AnswerOK(r)' /\ ~req'[r].sse
      BY <1>1, <1>4, <1>8, <1>13, <2>1 DEF AnswerOK
    <2>3. out'[r] <= Room(r)' /\ out'[r] <= ctoks'[r]
      BY <1>5, <1>9, <1>10
    <2>4. pend'[r] = <<>> /\ hpc'[r] = "recv"
      BY <1>4, <1>8, <2>1
    <2>5. WireInv(r)'
      BY <2>2, <2>3, <2>4 DEF WireInv
    <2> QED
      BY <1>4, <1>6, <1>7, <2>5, OthersKeep
  <1> QED
    BY <1>11, <1>12, <1>13

\* The end of the drain loop, when the verdict is true of the text.
LEMMA ConcludeKeeps ==
  ASSUME ClientInv, NEW r \in Requests, hpc[r] = "recv", proc # "exited",
         NEW t \in Seq(Frame), NEW hi \in Nat, NEW w \in {"stop", "length"},
         NEW p \in Nat, NEW n \in Nat, Conclude(r, t, hi, w, p, n),
         UNCHANGED <<frames, req>>, out'[r] = hi,
         Follow(t, out[r] + 1) = hi + 1,
         \A i \in 1..Len(t) : IsText(t[i]) /\ t[i].why = "none",
         Honest(r, w, p, n)', hi <= Room(r)
  PROVE  /\ WireInv(r)' /\ client'[r] # "idle" /\ (rx'[r] => rx[r])
         /\ \A q \in Requests : q # r =>
              /\ rx'[q] = rx[q] /\ client'[q] = client[q] /\ wire'[q] = wire[q]
              /\ hpc'[q] = hpc[q] /\ pend'[q] = pend[q]
  <1>1. client[r] \in {"open", "gone"} /\ (client[r] = "gone" => req[r].sse)
    BY WhoHears
  <1>2. CASE req[r].sse
    <2>e. PICK e : e = Epilogue(req[r], w, p, n)
      OBVIOUS
    <2>1. pend' = [pend EXCEPT ![r] = t \o e] /\ hpc' = [hpc EXCEPT ![r] = "send"]
          /\ UNCHANGED <<rx, wire, client>>
      BY <1>2, <2>e DEF Conclude
    <2>2. LastDone(e)
      BY <2>e, EndingsLastDone
    <2>3. IsEnding(e, r)'
      BY <2>e DEF IsEnding
    <2>4. pend'[r] = t \o e /\ hpc'[r] = "send"
          /\ \A q \in Requests : q # r => hpc'[q] = hpc[q] /\ pend'[q] = pend[q]
      BY <2>1, HandlerTypes DEF ClientInv
    <2>5. Room(r)' = Room(r)
      BY <2>1 DEF Room
    <2>6. /\ wire'[r] = wire[r] /\ frames'[r] = frames[r] /\ client'[r] = client[r]
          /\ req'[r] = req[r] /\ out'[r] \in Nat /\ out'[r] <= Room(r)'
          /\ Follow(t, out[r] + 1) = out'[r] + 1
      BY <2>1, <2>5
    <2>7. WireInv(r)'
      BY <1>2, <2>2, <2>3, <2>4, <2>6, StreamEnds
    <2> QED
      BY <1>1, <2>1, <2>4, <2>7
  <1>3. CASE ~req[r].sse
    <2> DEFINE f == Body(hi, w, p, n)
    <2>1. Answer(r, f)
      BY <1>3 DEF Conclude
    <2>2. IsAnswer(f, r)'
      BY DEF IsAnswer
    <2> HIDE DEF f
    <2>3. /\ client'[r] = "closed" /\ (rx'[r] => rx[r])
          /\ \A q \in Requests : q # r =>
              /\ rx'[q] = rx[q] /\ client'[q] = client[q] /\ wire'[q] = wire[q]
              /\ hpc'[q] = hpc[q] /\ pend'[q] = pend[q]
      BY <2>1, QueueTypes, ChanTypes, HandlerTypes DEF Answer, Return, ClientInv
    <2>4. Room(r)' = Room(r)
      BY <1>1, <2>3 DEF Room
    <2>5. WireInv(r)'
      BY <1>3, <2>1, <2>2, <2>4, AnswerGiven
    <2> QED
      BY <2>3, <2>5
  <1> QED
    BY <1>2, <1>3


\* A count within the room of a request is one of a request the engine accepts.
LEMMA RoomIs ==
  ASSUME ClientInv, NEW r \in Requests, client[r] # "idle"
  PROVE  /\ Room(r) \in Nat
         /\ Room(r) > 0 => ~UserError(req[r])
         /\ ~UserError(req[r]) => Room(r) = Budget(req[r])
  <1>1. req[r] \in Profiles
    BY ChanTypes DEF ClientInv
  <1> QED
    BY <1>1, BudgetType DEF Room

\* A token that completes a stop string: the text is cut, the count is the token's.
LEMMA RecvStopKeeps ==
  ASSUME ClientInv, NEW r \in Requests, RecvStop(r), UNCHANGED engineVars
  PROVE  Promises'
  <1>1. /\ Receives(r, "token") /\ ctoks' = [ctoks EXCEPT ![r] = @ + 1] /\ UNCHANGED ptoks
        /\ req[r].stops
    BY DEF RecvStop
  <1>2. PICK e \in Event :
          /\ e = Head(chan[r]) /\ e.kind = "token" /\ TrueEvent(r, e)
          /\ PromptKnown(r) /\ Started(chan[r]) = 0
          /\ ctoks[r] \in Nat /\ e.n = ctoks[r] + 1
    BY <1>1, HeadSays
  <1>a. PICK hi \in out[r]..e.n : \E mid \in out[r]..hi :
          /\ out' = [out EXCEPT ![r] = hi]
          /\ Conclude(r, Text(out[r] + 1, mid) \o Text(mid + 1, hi), hi, "stop",
                      ptoks[r], ctoks[r] + 1)
    BY <1>2 DEF RecvStop
  <1>3. PICK mid \in out[r]..hi :
          /\ out' = [out EXCEPT ![r] = hi]
          /\ Conclude(r, Text(out[r] + 1, mid) \o Text(mid + 1, hi), hi, "stop",
                      ptoks[r], ctoks[r] + 1)
    BY <1>a
  <1>4. /\ hpc[r] = "recv" /\ rx[r] /\ client[r] # "idle" /\ proc # "exited"
        /\ \A q \in Requests : q # r => chan'[q] = chan[q]
        /\ UNCHANGED <<queue, req, tx, proc, frames>>
        /\ UNCHANGED <<epc, cur, maxEff, completion, filled, finish>>
    BY <1>1, ReceivesFacts DEF ClientInv, Receives
  <1>5. /\ ctoks'[r] = ctoks[r] + 1 /\ out'[r] = hi
        /\ \A q \in Requests : q # r => ctoks'[q] = ctoks[q] /\ out'[q] = out[q]
    BY <1>1, <1>3, HandlerTypes DEF ClientInv
  <1>6. out[r] \in Nat /\ ptoks[r] \in Nat /\ ctoks[r] + 1 \in Nat
    BY <1>2, HandlerTypes DEF ClientInv
  <1>7. /\ hi \in Nat /\ mid \in Nat /\ out[r] <= mid /\ mid <= hi /\ hi <= ctoks[r] + 1
    BY <1>2, <1>3, <1>6
  <1>8. ctoks[r] + 1 <= Room(r)
    BY <1>2 DEF TrueEvent
  <1>9. /\ hi <= Room(r) /\ ~UserError(req[r]) /\ Room(r) = Budget(req[r])
    <2>1. Room(r) \in Nat /\ Room(r) > 0
      BY <1>2, <1>4, <1>8, RoomIs
    <2> QED
      BY <1>4, <1>6, <1>7, <1>8, <2>1, RoomIs
  <1>10. ptoks[r] = req[r].prompt
    BY <1>2 DEF PromptKnown
  <1>p. PICK p : p = ptoks[r]
    OBVIOUS
  <1>n. PICK n : n = ctoks[r] + 1
    OBVIOUS
  <1>11. Honest(r, "stop", p, n)'
    <2>1. ~UserError(req'[r]) /\ p \in Nat /\ n \in Nat /\ req'[r].stops
          /\ p = req'[r].prompt /\ out'[r] <= n /\ n <= Budget(req'[r])
      BY <1>1, <1>4, <1>5, <1>6, <1>7, <1>8, <1>9, <1>10, <1>p, <1>n
    <2> QED
      BY <2>1 DEF Honest
  <1> DEFINE u == Text(out[r] + 1, mid)  v == Text(mid + 1, hi)
  <1>12. /\ u \in Seq(Frame) /\ Follow(u, out[r] + 1) = mid + 1
         /\ \A i \in 1..Len(u) : IsText(u[i]) /\ u[i].why = "none"
    <2>1. out[r] + 1 \in Nat \ {0} /\ out[r] + 1 <= mid + 1
      BY <1>6, <1>7
    <2> QED
      BY <1>7, <2>1, FollowText
  <1>13. /\ v \in Seq(Frame) /\ Follow(v, mid + 1) = hi + 1
         /\ \A i \in 1..Len(v) : IsText(v[i]) /\ v[i].why = "none"
    <2>1. mid + 1 \in Nat \ {0} /\ mid + 1 <= hi + 1
      BY <1>7
    <2> QED
      BY <1>7, <2>1, FollowText
  <1>14. Conclude(r, u \o v, hi, "stop", ptoks[r], ctoks[r] + 1)
    BY <1>3
  <1> HIDE DEF u, v
  <1>15. /\ u \o v \in Seq(Frame) /\ Follow(u \o v, out[r] + 1) = hi + 1
         /\ \A i \in 1..Len(u \o v) : IsText((u \o v)[i]) /\ (u \o v)[i].why = "none"
    <2>1. /\ u \o v \in Seq(Frame) /\ Len(u) \in Nat /\ Len(v) \in Nat /\ Len(u \o v) = Len(u) + Len(v)
          /\ \A i \in 1..Len(u) : (u \o v)[i] = u[i]
          /\ \A i \in 1..Len(v) : (u \o v)[Len(u) + i] = v[i]
      BY <1>12, <1>13, Joined
    <2>2. Follow(u \o v, out[r] + 1) = hi + 1
      <3>1. out[r] + 1 \in Nat
        BY <1>6
      <3>2. Follow(u \o v, out[r] + 1) = Follow(v, Follow(u, out[r] + 1))
        BY <1>12, <1>13, <3>1, FollowConcat
      <3> QED
        BY <1>12, <1>13, <3>2
    <2>3. ASSUME NEW i \in 1..Len(u \o v)
          PROVE  IsText((u \o v)[i]) /\ (u \o v)[i].why = "none"
      <3>1. CASE i \in 1..Len(u)
        BY <1>12, <2>1, <3>1
      <3>2. CASE i \notin 1..Len(u)
        <4>1. i - Len(u) \in 1..Len(v) /\ Len(u) + (i - Len(u)) = i
          BY <2>1, <3>2
        <4>2. (u \o v)[i] = v[i - Len(u)]
          BY <2>1, <4>1
        <4> QED
          BY <1>13, <4>1, <4>2
      <3> QED
        BY <3>1, <3>2
    <2> QED
      BY <2>1, <2>2, <2>3
  <1>16. /\ WireInv(r)' /\ client'[r] # "idle"
         /\ \A q \in Requests : q # r =>
              /\ rx'[q] = rx[q] /\ client'[q] = client[q] /\ wire'[q] = wire[q]
              /\ hpc'[q] = hpc[q] /\ pend'[q] = pend[q]
    <2>1. frames' = frames /\ req' = req /\ hpc[r] = "recv" /\ proc # "exited" /\ "stop" \in {"stop", "length"}
      BY <1>4
    <2>2. hi \in Nat /\ ptoks[r] \in Nat /\ ctoks[r] + 1 \in Nat /\ out'[r] = hi /\ hi <= Room(r)
      BY <1>5, <1>6, <1>7, <1>9
    <2>s. PICK s : s = u \o v
      OBVIOUS
    <2>4. Conclude(r, s, hi, "stop", p, n)
      BY <1>14, <1>p, <1>n, <2>s
    <2>5. /\ s \in Seq(Frame) /\ Follow(s, out[r] + 1) = hi + 1
          /\ \A i \in 1..Len(s) : IsText(s[i]) /\ s[i].why = "none"
      BY <1>15, <2>s
    <2>6. p \in Nat /\ n \in Nat
      BY <2>2, <1>p, <1>n
    <2> QED
      BY <1>11, <2>1, <2>2, <2>4, <2>5, <2>6, ConcludeKeeps
  <1>17. EventInv(r)'
    BY <1>1, <1>4, <1>5, <1>16, Heard
  <1>18. \A q \in Requests : q # r => Apart(q)
    BY <1>1, <1>4, <1>5, <1>16 DEF Apart
  <1> QED
    BY <1>4, <1>16, <1>17, <1>18, OthersKeep

\* Done: the usage the engine reports is true of the whole text.
LEMMA RecvDoneKeeps ==
  ASSUME ClientInv, NEW r \in Requests, RecvDone(r), UNCHANGED engineVars
  PROVE  Promises'
  <1>1. Receives(r, "done")
    BY DEF RecvDone
  <1>2. PICK e \in Event :
          /\ e = Head(chan[r]) /\ e.kind = "done" /\ TrueEvent(r, e)
          /\ ctoks[r] \in Nat /\ ctoks[r] <= Room(r)
          /\ Taken(r) = ctoks[r] + 1
    BY <1>1, HeadSays
  <1>k. PICK k : k = ctoks[r]
    OBVIOUS
  <1>3. /\ ptoks' = [ptoks EXCEPT ![r] = e.p]
        /\ Conclude(r, Text(out[r] + 1, k), k, e.why, e.p, e.n)
        /\ ctoks' = [ctoks EXCEPT ![r] = e.n]
        /\ out' = [out EXCEPT ![r] = k]
    BY <1>2, <1>k DEF RecvDone
  <1>4. /\ hpc[r] = "recv" /\ rx[r] /\ client[r] # "idle" /\ proc # "exited"
        /\ \A q \in Requests : q # r => chan'[q] = chan[q]
        /\ UNCHANGED <<queue, req, tx, proc, frames>>
        /\ UNCHANGED <<epc, cur, maxEff, completion, filled, finish>>
    BY <1>1, ReceivesFacts DEF ClientInv, Receives
  <1>5. e.p \in Nat /\ e.n \in Nat /\ k \in Nat /\ k <= Room(r)
    BY <1>2, <1>k DEF Event
  <1>6. /\ ctoks'[r] = e.n /\ out'[r] = k
        /\ \A q \in Requests : q # r =>
             ctoks'[q] = ctoks[q] /\ out'[q] = out[q] /\ ptoks'[q] = ptoks[q]
    BY <1>3, <1>5, HandlerTypes DEF ClientInv
  <1>7. e.p = req[r].prompt /\ Tally(r, e.why, e.n, k)
    <2>1. Taken(r) - 1 = k
      BY <1>2, <1>5, <1>k
    <2>2. Tally(r, e.why, e.n, Taken(r) - 1)
      BY <1>2 DEF TrueEvent
    <2> QED
      BY <1>2, <2>1, <2>2 DEF TrueEvent
  <1>8. /\ ~UserError(req[r]) /\ e.n <= Budget(req[r]) /\ e.why \in {"stop", "length"}
        /\ e.why = "length" => e.n = k /\ k = Budget(req[r])
        /\ e.why = "stop" => e.n = k + 1
    BY <1>7 DEF Tally
  <1>9. k <= e.n
    BY <1>5, <1>8
  <1>10. Honest(r, e.why, e.p, e.n)'
    BY <1>4, <1>5, <1>6, <1>7, <1>8, <1>9 DEF Honest
  <1>11. out[r] \in Nat /\ out[r] <= k
    BY <1>4, <1>k, WhoHears
  <1> DEFINE t == Text(out[r] + 1, k)
  <1>12. /\ t \in Seq(Frame) /\ Follow(t, out[r] + 1) = k + 1
         /\ \A i \in 1..Len(t) : IsText(t[i]) /\ t[i].why = "none"
    <2>1. out[r] + 1 \in Nat \ {0} /\ out[r] + 1 <= k + 1
      BY <1>5, <1>11
    <2> QED
      BY <1>5, <2>1, FollowText
  <1>13. Conclude(r, t, k, e.why, e.p, e.n)
    BY <1>3
  <1> HIDE DEF t
  <1>14. /\ WireInv(r)' /\ client'[r] # "idle"
         /\ \A q \in Requests : q # r =>
              /\ rx'[q] = rx[q] /\ client'[q] = client[q] /\ wire'[q] = wire[q]
              /\ hpc'[q] = hpc[q] /\ pend'[q] = pend[q]
    <2>1. frames' = frames /\ req' = req /\ e.why \in {"stop", "length"}
      BY <1>4, <1>8
    <2> QED
      BY <1>4, <1>5, <1>6, <1>10, <1>12, <1>13, <2>1, ConcludeKeeps
  <1>15. EventInv(r)'
    <2>1. ctoks'[r] <= Room(r)'
      BY <1>4, <1>6, <1>8, <1>14 DEF Room
    <2> QED
      BY <1>1, <2>1, LastHeard
  <1>16. \A q \in Requests : q # r => Apart(q)
    BY <1>4, <1>6, <1>14 DEF Apart
  <1> QED
    BY <1>4, <1>14, <1>15, <1>16, OthersKeep


\* Error: only a request the engine refuses hears it.
LEMMA RecvErrorKeeps ==
  ASSUME ClientInv, NEW r \in Requests, RecvError(r), UNCHANGED engineVars
  PROVE  Promises'
  <1>1. Receives(r, "error") /\ UNCHANGED <<ptoks, ctoks, out>>
    BY DEF RecvError
  <1>2. UserError(req[r]) /\ ctoks[r] <= Room(r)
    BY <1>1, HeadSays DEF TrueEvent
  <1>3. /\ hpc[r] = "recv" /\ rx[r] /\ client[r] # "idle" /\ proc # "exited"
        /\ \A q \in Requests : q # r => chan'[q] = chan[q]
        /\ UNCHANGED <<queue, req, tx, proc, frames>>
        /\ UNCHANGED <<epc, cur, maxEff, completion, filled, finish>>
    BY <1>1, ReceivesFacts DEF ClientInv, Receives
  <1>4. /\ client[r] \in {"open", "gone"} /\ (client[r] = "gone" => req[r].sse)
        /\ out[r] \in Nat /\ out[r] <= Room(r)
    BY <1>3, WhoHears
  <1>5. /\ WireInv(r)' /\ client'[r] # "idle"
        /\ \A q \in Requests : q # r =>
             /\ rx'[q] = rx[q] /\ client'[q] = client[q] /\ wire'[q] = wire[q]
             /\ hpc'[q] = hpc[q] /\ pend'[q] = pend[q]
    <2>1. CASE req[r].sse
      <3> DEFINE e == <<Plain("error"), Plain("done")>>  t == <<>>
      <3>1. pend' = [pend EXCEPT ![r] = e] /\ hpc' = [hpc EXCEPT ![r] = "send"]
            /\ UNCHANGED <<rx, wire, client>>
        BY <2>1 DEF RecvError
      <3>2. LastDone(e) /\ IsEnding(e, r)'
        BY <1>2, <1>3, EndingsLastDone DEF IsEnding
      <3>3. t \in Seq(Frame) /\ \A i \in 1..Len(t) : FALSE
        OBVIOUS
      <3>e. e \in Seq(Frame)
        BY <3>2 DEF LastDone
      <3> HIDE DEF e
      <3>4. t \o e = e
        BY <3>e, NoneMore
      <3> HIDE DEF t
      <3>5. Follow(t, out[r] + 1) = out[r] + 1
        <4>1. out[r] + 1 \in Nat
          BY <1>4
        <4> QED
          BY <3>3, <4>1, FollowNoText
      <3>6. pend'[r] = t \o e /\ hpc'[r] = "send"
            /\ \A q \in Requests : q # r => hpc'[q] = hpc[q] /\ pend'[q] = pend[q]
        BY <3>1, <3>e, <3>4, HandlerTypes DEF ClientInv
      <3>7. /\ wire'[r] = wire[r] /\ frames'[r] = frames[r] /\ client'[r] = client[r]
            /\ req'[r] = req[r] /\ out'[r] \in Nat /\ out'[r] <= Room(r)'
            /\ out'[r] = out[r]
        BY <1>1, <1>3, <1>4, <3>1 DEF Room
      <3>8. WireInv(r)'
        BY <1>3, <2>1, <3>2, <3>3, <3>5, <3>6, <3>7, StreamEnds
      <3> QED
        BY <1>3, <3>1, <3>6, <3>8
    <2>2. CASE ~req[r].sse
      <3>1. Answer(r, Plain("bad"))
        BY <2>2 DEF RecvError
      <3>2. IsAnswer(Plain("bad"), r)'
        BY <1>2, <1>3 DEF IsAnswer
      <3>3. /\ client'[r] = "closed"
            /\ \A q \in Requests : q # r =>
                 /\ rx'[q] = rx[q] /\ client'[q] = client[q] /\ wire'[q] = wire[q]
                 /\ hpc'[q] = hpc[q] /\ pend'[q] = pend[q]
        BY <3>1, QueueTypes, ChanTypes, HandlerTypes DEF Answer, Return, ClientInv
      <3>4. out'[r] \in Nat /\ out'[r] <= Room(r)'
        BY <1>1, <1>3, <1>4, <3>3 DEF Room
      <3>5. WireInv(r)'
        BY <1>3, <2>2, <3>1, <3>2, <3>4, AnswerGiven
      <3> QED
        BY <3>3, <3>5
    <2> QED
      BY <2>1, <2>2
  <1>6. EventInv(r)'
    <2>1. ctoks'[r] <= Room(r)'
      BY <1>1, <1>2, <1>3, <1>5 DEF Room
    <2> QED
      BY <1>1, <2>1, LastHeard
  <1>7. \A q \in Requests : q # r => Apart(q)
    BY <1>1, <1>3, <1>5 DEF Apart
  <1> QED
    BY <1>3, <1>5, <1>6, <1>7, OthersKeep

\* A channel that closes without a terminal event: the verdict of a panicked run.
LEMMA RecvClosedKeeps ==
  ASSUME ClientInv, NEW r \in Requests, RecvClosed(r), UNCHANGED engineVars
  PROVE  Promises'
  <1>k. PICK k : k = ctoks[r]
    OBVIOUS
  <1>p. PICK p : p = ptoks[r]
    OBVIOUS
  <1>1. /\ hpc[r] = "recv" /\ proc # "exited" /\ chan[r] = <<>> /\ ~tx[r]
        /\ Conclude(r, Text(out[r] + 1, k), k, "stop", p, k)
        /\ out' = [out EXCEPT ![r] = k]
        /\ UNCHANGED <<chan, frames, ptoks, ctoks>> /\ UNCHANGED <<queue, req, tx, proc>>
        /\ UNCHANGED <<epc, cur, maxEff, completion, filled, finish>>
    BY <1>k, <1>p DEF RecvClosed, Keeps, engineVars
  <1>2. k \in Nat /\ p \in Nat
    BY <1>k, <1>p, HandlerTypes DEF ClientInv
  <1>3. SlotInv(r) /\ ChanInv(r) /\ EventInv(r)
    BY DEF ClientInv, IndInv
  <1>4. rx[r] /\ client[r] # "idle" /\ Waiting(r)
    BY <1>1, <1>3 DEF SlotInv, Waiting
  <1>5. Victim(r)
    BY <1>1, <1>3, <1>4 DEF ChanInv
  <1>6. ~UserError(req[r])
    BY <1>5 DEF ClientInv, IndInv, EngineInv, Victim
  <1>7. k <= Room(r)
    BY <1>3, <1>4, <1>k DEF EventInv
  <1>8. out'[r] = k /\ \A q \in Requests : q # r => out'[q] = out[q]
    BY <1>1, HandlerTypes DEF ClientInv
  <1>9. Honest(r, "stop", p, k)'
    <2>1. Victim(r)' /\ ~UserError(req'[r])
      BY <1>1, <1>5, <1>6 DEF Victim
    <2> QED
      BY <1>2, <2>1 DEF Honest
  <1>10. out[r] \in Nat /\ out[r] <= k
    BY <1>1, <1>k, WhoHears
  <1> DEFINE t == Text(out[r] + 1, k)
  <1>11. /\ t \in Seq(Frame) /\ Follow(t, out[r] + 1) = k + 1
         /\ \A i \in 1..Len(t) : IsText(t[i]) /\ t[i].why = "none"
    <2>1. out[r] + 1 \in Nat \ {0} /\ out[r] + 1 <= k + 1
      BY <1>2, <1>10
    <2> QED
      BY <1>2, <2>1, FollowText
  <1>12. Conclude(r, t, k, "stop", p, k)
    BY <1>1
  <1> HIDE DEF t
  <1>13. /\ WireInv(r)' /\ client'[r] # "idle" /\ (rx'[r] => rx[r])
         /\ \A q \in Requests : q # r =>
              /\ rx'[q] = rx[q] /\ client'[q] = client[q] /\ wire'[q] = wire[q]
              /\ hpc'[q] = hpc[q] /\ pend'[q] = pend[q]
    <2>1. frames' = frames /\ req' = req /\ "stop" \in {"stop", "length"}
      BY <1>1
    <2> QED
      BY <1>1, <1>2, <1>7, <1>8, <1>9, <1>11, <1>12, <2>1, ConcludeKeeps
  <1>14. EventInv(r)'
    <2>1. Unheard(r)
      BY <1>1, <1>4, <1>13 DEF Unheard
    <2> QED
      BY <1>3, <2>1, EventKept
  <1>15. \A q \in Requests : q # r => Apart(q)
    BY <1>1, <1>8, <1>13 DEF Apart
  <1> QED
    BY <1>1, <1>13, <1>14, <1>15, OthersKeep

-----------------------------------------------------------------------------
(***************************************************************************)
(* The clients read, leave and come back.                                  *)
(***************************************************************************)

\* A frame read goes from the frame channel to the client.
LEMMA ClientReadKeeps ==
  ASSUME ClientInv, NEW r \in Requests, ClientRead(r), UNCHANGED engineVars
  PROVE  Promises'
  <1>c. PICK c : c = frames[r]
    OBVIOUS
  <1>w. PICK w : w = wire[r]
    OBVIOUS
  <1>1. /\ client[r] = "open" /\ proc # "exited" /\ c # <<>>
        /\ wire' = [wire EXCEPT ![r] = Append(w, Head(c))]
        /\ frames' = [frames EXCEPT ![r] = Tail(c)]
        /\ UNCHANGED <<rx, chan, client, hpc, pend, ptoks, ctoks, out>>
        /\ UNCHANGED <<queue, req, tx, proc>>
        /\ UNCHANGED <<epc, cur, maxEff, completion, filled, finish>>
    BY <1>c, <1>w DEF ClientRead, Keeps, handlerVars, engineVars
  <1>2. c \in Seq(Frame) /\ w \in Seq(Frame) /\ pend[r] \in Seq(Frame)
    BY <1>c, <1>w, ChanTypes, HandlerTypes DEF ClientInv
  <1>3. /\ wire'[r] = Append(w, Head(c)) /\ frames'[r] = Tail(c)
        /\ \A q \in Requests : q # r => wire'[q] = wire[q] /\ frames'[q] = frames[q]
    BY <1>1, ChanTypes DEF ClientInv
  <1>4. WireInv(r) /\ EventInv(r)
    BY DEF ClientInv
  <1>5. req[r].sse /\ StreamOK(r)
    <2>1. ~Refused(r)
      BY <1>1 DEF Refused
    <2> QED
      BY <1>1, <1>4, <1>c, <2>1 DEF WireInv, AnswerOK
  <1>6. /\ Framed(r) /\ Room(r)' = Room(r) /\ Unheard(r) /\ (Waiting(r)' <=> Waiting(r))
    BY <1>1 DEF Framed, Victim, Room, Unheard, Waiting
  <1>7. Stream(r)' = Stream(r)
    <2>1. Append(w, Head(c)) \o Tail(c) = w \o c
      BY <1>1, <1>2, Moved
    <2>2. Stream(r) = (w \o c) \o pend[r]
      BY <1>c, <1>w DEF Stream
    <2>3. Stream(r)' = (Append(w, Head(c)) \o Tail(c)) \o pend[r]
      BY <1>1, <1>3 DEF Stream
    <2> QED
      BY <2>1, <2>2, <2>3
  <1>8. StreamOK(r)'
    BY <1>5, <1>6, <1>7, StreamKept
  <1>9. WireInv(r)'
    <2>1. out[r] <= Room(r) /\ (Waiting(r) => out[r] <= ctoks[r])
      BY <1>4 DEF WireInv
    <2>2. /\ hpc'[r] # "send" => pend'[r] = <<>>
          /\ hpc'[r] = "send" => \A i \in 1..Len(pend'[r]) - 1 : pend'[r][i].kind # "done"
      BY <1>1, <1>4 DEF WireInv
    <2> QED
      BY <1>1, <1>5, <1>6, <1>8, <2>1, <2>2, StreamingInv
  <1>10. EventInv(r)'
    BY <1>4, <1>6, EventKept
  <1>11. \A q \in Requests : q # r => Apart(q)
    BY <1>1, <1>3 DEF Apart
  <1> QED
    BY <1>1, <1>9, <1>10, <1>11, OthersKeep

\* The body of a stream ends after its last frame.
LEMMA ClientEofKeeps ==
  ASSUME ClientInv, NEW r \in Requests, ClientEof(r), UNCHANGED engineVars
  PROVE  Promises'
  <1>1. /\ client[r] = "open" /\ proc # "exited" /\ frames[r] = <<>> /\ hpc[r] = "end"
        /\ client' = [client EXCEPT ![r] = "closed"]
        /\ UNCHANGED <<rx, chan, frames, wire, hpc, pend, ptoks, ctoks, out>>
        /\ UNCHANGED <<queue, req, tx, proc>>
        /\ UNCHANGED <<epc, cur, maxEff, completion, filled, finish>>
    BY DEF ClientEof, Keeps, handlerVars, engineVars
  <1>2. client'[r] = "closed" /\ \A q \in Requests : q # r => client'[q] = client[q]
    BY <1>1, ChanTypes DEF ClientInv
  <1>3. WireInv(r) /\ EventInv(r)
    BY DEF ClientInv
  <1>4. req[r].sse /\ StreamOK(r)
    <2>1. ~Refused(r)
      BY <1>1 DEF Refused
    <2> QED
      BY <1>1, <1>3, <2>1 DEF WireInv, AnswerOK
  <1>5. /\ Framed(r) /\ Room(r)' = Room(r) /\ Unheard(r) /\ (Waiting(r)' <=> Waiting(r))
        /\ Stream(r)' = Stream(r)
    BY <1>1, <1>2 DEF Framed, Victim, Room, Unheard, Waiting, Stream
  <1>6. StreamOK(r)'
    BY <1>4, <1>5, StreamKept
  <1>7. WireInv(r)'
    BY <1>1, <1>2, <1>3, <1>4, <1>5, <1>6 DEF WireInv
  <1>8. EventInv(r)'
    BY <1>3, <1>5, EventKept
  <1>9. \A q \in Requests : q # r => Apart(q)
    BY <1>1, <1>2 DEF Apart
  <1> QED
    BY <1>1, <1>7, <1>8, <1>9, OthersKeep

\* A client leaves: its stream is dropped, its JSON handler is cancelled.
LEMMA ClientGoneKeeps ==
  ASSUME ClientInv, NEW r \in Requests, ClientGone(r), UNCHANGED engineVars
  PROVE  Promises'
  <1>1. /\ client[r] = "open" /\ proc # "exited"
        /\ client' = [client EXCEPT ![r] = "gone"]
        /\ frames' = [frames EXCEPT ![r] = <<>>] /\ wire' = [wire EXCEPT ![r] = <<>>]
        /\ IF req[r].sse THEN UNCHANGED <<hpc, rx>> ELSE Return(r)
        /\ UNCHANGED <<chan, pend, ptoks, ctoks, out>> /\ UNCHANGED <<queue, req, tx, proc>>
        /\ UNCHANGED <<epc, cur, maxEff, completion, filled, finish>>
    BY DEF ClientGone, Keeps, engineVars
  <1>2. /\ client'[r] = "gone" /\ frames'[r] = <<>> /\ wire'[r] = <<>>
        /\ \A q \in Requests : q # r =>
             client'[q] = client[q] /\ frames'[q] = frames[q] /\ wire'[q] = wire[q]
    BY <1>1, ChanTypes DEF ClientInv
  <1>3. /\ \A q \in Requests : q # r => hpc'[q] = hpc[q] /\ rx'[q] = rx[q]
        /\ IF req[r].sse THEN hpc'[r] = hpc[r] /\ rx'[r] = rx[r] ELSE hpc'[r] = "end" /\ ~rx'[r]
    BY <1>1, QueueTypes, HandlerTypes DEF Return, ClientInv
  <1>4. WireInv(r) /\ EventInv(r)
    BY DEF ClientInv
  <1>5. ~req[r].sse => hpc[r] # "send"
    <2>1. ~Refused(r)
      BY <1>1 DEF Refused
    <2> QED
      BY <1>1, <1>4, <2>1 DEF WireInv, AnswerOK
  <1>6. Room(r)' = Room(r) /\ Unheard(r)
    BY <1>1, <1>2, <1>3 DEF Room, Unheard
  <1>7. /\ hpc'[r] # "send" => pend'[r] = <<>>
        /\ hpc'[r] = "send" => \A i \in 1..Len(pend'[r]) - 1 : pend'[r][i].kind # "done"
    BY <1>1, <1>3, <1>4, <1>5 DEF WireInv
  <1>8. Waiting(r)' => Waiting(r)
    BY <1>1, <1>3 DEF Waiting
  <1>9. out'[r] <= Room(r)' /\ (Waiting(r)' => out'[r] <= ctoks'[r])
    BY <1>1, <1>4, <1>6, <1>8 DEF WireInv
  <1>10. ~req'[r].sse => hpc'[r] = "end"
    BY <1>1, <1>3
  <1>11. WireInv(r)'
    BY <1>2, <1>7, <1>9, <1>10, LeftInv
  <1>12. EventInv(r)'
    BY <1>4, <1>6, EventKept
  <1>13. \A q \in Requests : q # r => Apart(q)
    BY <1>1, <1>2, <1>3 DEF Apart
  <1> QED
    BY <1>1, <1>11, <1>12, <1>13, OthersKeep

\* A slot that is over starts afresh.
LEMMA ForgetKeeps ==
  ASSUME ClientInv, NEW r \in Requests, cur # r, Forget(r), UNCHANGED engineVars
  PROVE  Promises'
  <1>1. /\ client[r] \in {"closed", "gone"} /\ hpc[r] = "end" /\ proc # "exited"
        /\ client' = [client EXCEPT ![r] = "idle"] /\ req' = [req EXCEPT ![r] = NoProfile]
        /\ hpc' = [hpc EXCEPT ![r] = "idle"] /\ chan' = [chan EXCEPT ![r] = <<>>]
        /\ wire' = [wire EXCEPT ![r] = <<>>] /\ ptoks' = [ptoks EXCEPT ![r] = 0]
        /\ ctoks' = [ctoks EXCEPT ![r] = 0] /\ out' = [out EXCEPT ![r] = 0]
        /\ UNCHANGED <<queue, tx, proc, rx, frames, pend>>
    BY DEF Forget
  <1>2. /\ client'[r] = "idle" /\ hpc'[r] = "idle" /\ wire'[r] = <<>> /\ out'[r] = 0
        /\ \A q \in Requests : q # r =>
             /\ client'[q] = client[q] /\ req'[q] = req[q] /\ hpc'[q] = hpc[q]
             /\ chan'[q] = chan[q] /\ wire'[q] = wire[q] /\ ptoks'[q] = ptoks[q]
             /\ ctoks'[q] = ctoks[q] /\ out'[q] = out[q]
    BY <1>1, ChanTypes, HandlerTypes DEF ClientInv
  <1>3. WireInv(r) /\ SlotInv(r)
    BY DEF ClientInv, IndInv
  <1>4. frames'[r] = <<>> /\ pend'[r] = <<>> /\ ~rx'[r]
    BY <1>1, <1>3 DEF WireInv, SlotInv
  <1>5. Room(r)' = 0 /\ ~Waiting(r)'
    BY <1>2 DEF Room, Waiting
  <1>6. WireInv(r)'
    BY <1>2, <1>4, <1>5 DEF WireInv
  <1>7. EventInv(r)'
    BY <1>4 DEF EventInv
  <1>8. \A q \in Requests : q # r => Apart(q)
    BY <1>1, <1>2 DEF Apart
  <1> QED
    BY <1>1, <1>6, <1>7, <1>8, OthersKeep

\* A request arrives: refused, or with the beginning of its stream.
LEMMA SubmitKeeps ==
  ASSUME ClientInv, NEW r \in Requests, NEW p \in Profiles, Submit(r, p), UNCHANGED engineVars
  PROVE  Promises'
  <1>1. /\ client[r] = "idle" /\ proc = "up" /\ req' = [req EXCEPT ![r] = p]
        /\ UNCHANGED <<chan, frames, proc, ptoks, ctoks, out>>
        /\ UNCHANGED <<epc, cur, maxEff, completion, filled, finish>>
    BY DEF Submit, engineVars
  <1>2. WireInv(r) /\ SlotInv(r)
    BY DEF ClientInv, IndInv
  <1>3. /\ hpc[r] = "idle" /\ cur # r /\ chan[r] = <<>> /\ ctoks[r] = 0 /\ out[r] = 0
        /\ wire[r] = <<>> /\ frames[r] = <<>> /\ pend[r] = <<>>
    BY <1>1, <1>2 DEF SlotInv, WireInv
  <1>4. req'[r] = p /\ \A q \in Requests : q # r => req'[q] = req[q]
    BY <1>1, ChanTypes DEF ClientInv
  <1>5. client'[r] # "idle" => Room(r)' \in Nat
    BY <1>4, BudgetType DEF Room
  <1>6. CASE ~HasRoom(queue, QueueCap)
    <2>1. Answer(r, Plain("busy"))
      BY <1>6 DEF Submit
    <2>2. /\ client'[r] = "closed" /\ hpc'[r] = "end" /\ ~rx'[r] /\ pend'[r] = <<>>
          /\ wire'[r] = <<Plain("busy")>>
          /\ \A q \in Requests : q # r =>
               /\ rx'[q] = rx[q] /\ client'[q] = client[q] /\ wire'[q] = wire[q]
               /\ hpc'[q] = hpc[q] /\ pend'[q] = pend[q]
      BY <1>3, <2>1, QueueTypes, ChanTypes, HandlerTypes DEF Answer, Return, ClientInv
    <2>3. Refused(r)' /\ ~Waiting(r)'
      BY <1>1, <1>3, <2>2 DEF Refused, Waiting
    <2>4. out'[r] <= Room(r)'
      BY <1>1, <1>3, <1>5, <2>2
    <2>5. WireInv(r)'
      BY <1>1, <1>3, <2>2, <2>3, <2>4 DEF WireInv
    <2>6. EventInv(r)'
      BY <2>2 DEF EventInv
    <2>7. \A q \in Requests : q # r => Apart(q)
      BY <1>1, <1>4, <2>2 DEF Apart
    <2> QED
      BY <1>1, <1>3, <2>5, <2>6, <2>7, OthersKeep
  <1>7. CASE HasRoom(queue, QueueCap)
    <2>1. /\ rx' = [rx EXCEPT ![r] = TRUE] /\ client' = [client EXCEPT ![r] = "open"]
          /\ UNCHANGED wire
          /\ IF p.sse /\ p.chat
               THEN /\ hpc' = [hpc EXCEPT ![r] = "send"]
                    /\ pend' = [pend EXCEPT ![r] = <<Plain("role")>>]
               ELSE hpc' = [hpc EXCEPT ![r] = "recv"] /\ pend' = pend
      BY <1>7 DEF Submit
    <2> DEFINE b == IF p.sse /\ p.chat THEN <<Plain("role")>> ELSE <<>>
    <2>2. /\ client'[r] = "open"
          /\ hpc'[r] = IF p.sse /\ p.chat THEN "send" ELSE "recv"
          /\ pend'[r] = b
          /\ \A q \in Requests : q # r =>
               /\ rx'[q] = rx[q] /\ client'[q] = client[q] /\ hpc'[q] = hpc[q]
               /\ pend'[q] = pend[q]
      BY <1>3, <2>1, QueueTypes, ChanTypes, HandlerTypes DEF ClientInv
    <2>3. /\ b \in Seq(Frame) /\ Follow(b, 1) = 1
          /\ p.sse /\ p.chat => Len(b) = 1 /\ b[1] = Plain("role") /\ b # <<>>
          /\ ~(p.sse /\ p.chat) => b = <<>> /\ Len(b) = 0
      <3>1. CASE p.sse /\ p.chat
        <4>1. Plain("role") \in Frame /\ Plain("role").kind = "role"
          BY FrameTypes
        <4>2. <<Plain("role")>> \in Seq(Frame) /\ Follow(<<Plain("role")>>, 1) = 1
          BY <4>1, OneFrame
        <4> QED
          BY <3>1, <4>2
      <3>2. CASE ~(p.sse /\ p.chat)
        BY <3>2, NoFrame
      <3> QED
        BY <3>1, <3>2
    <2>r. Plain("role").kind = "role" /\ Plain("role").why = "none"
      BY DEF Plain
    <2>o. out'[r] = 0 /\ 1 = 0 + 1
      BY <1>1, <1>3
    <2> HIDE DEF b
    <2>4. Waiting(r)'
      BY <2>2, <2>3, <2>r DEF Waiting
    <2>5. ASSUME p.sse PROVE WireInv(r)'
      <3>1. ASSUME NEW i \in 1..Len(b)
            PROVE  /\ b[i].why = "none"
                   /\ p.chat /\ i = 1 /\ b[i].kind = "role"
        <4>1. p.chat
          BY <2>3, <2>5, <3>1
        <4>2. i = 1
          <5>1. Len(b) = 1 /\ i \in 1..Len(b)
            BY <2>3, <2>5, <4>1
          <5>2. i \in 1..1
            BY <5>1
          <5> QED
            BY <5>2
        <4> QED
          BY <2>3, <2>5, <2>r, <4>1, <4>2
      <3>2. p.chat => b # <<>>
        BY <2>3, <2>5
      <3>3. IsOpening(b, r)'
        BY <1>4, <2>3, <2>o, <3>1, <3>2 DEF IsOpening
      <3>4. Stream(r)' = b
        <4>1. wire'[r] = <<>> /\ frames'[r] = <<>> /\ pend'[r] = b
          BY <1>1, <1>3, <2>1, <2>2
        <4>2. <<>> \o <<>> = <<>> /\ <<>> \o b = b
          <5>1. <<>> \in Seq(Frame)
            OBVIOUS
          <5> QED
            BY <2>3, <5>1, NoneMore
        <4> QED
          BY <4>1, <4>2 DEF Stream
      <3>5. StreamOK(r)'
        BY <2>4, <3>3, <3>4 DEF StreamOK
      <3>6. \A i \in 1..Len(b) - 1 : FALSE
        <4>1. Len(b) = 1 \/ Len(b) = 0
          BY <2>3
        <4>2. (\A i \in 1..1 - 1 : FALSE) /\ (\A i \in 1..0 - 1 : FALSE)
          OBVIOUS
        <4> QED
          BY <4>1, <4>2
      <3>7. /\ hpc'[r] # "send" => pend'[r] = <<>>
            /\ hpc'[r] = "send" => \A i \in 1..Len(pend'[r]) - 1 : pend'[r][i].kind # "done"
        BY <2>2, <2>3, <3>6
      <3>8. out'[r] <= Room(r)' /\ out'[r] <= ctoks'[r]
        BY <1>1, <1>3, <1>5, <2>2
      <3>9. WireInv(r)'
        BY <1>4, <2>2, <2>5, <3>5, <3>7, <3>8, StreamingInv
      <3> QED
        BY <3>9
    <2>6. ASSUME ~p.sse PROVE WireInv(r)'
      <3>1. hpc'[r] = "recv" /\ pend'[r] = <<>>
        BY <2>2, <2>3, <2>6
      <3>2. AnswerOK(r)'
        BY <1>1, <1>3, <2>1, <2>2, <3>1 DEF AnswerOK
      <3>3. out'[r] <= Room(r)' /\ out'[r] <= ctoks'[r]
        BY <1>1, <1>3, <1>5, <2>2
      <3>4. WireInv(r)'
        BY <1>4, <2>2, <2>6, <3>1, <3>2, <3>3 DEF WireInv
      <3> QED
        BY <3>4
    <2>7. EventInv(r)'
      <3>1. ctoks'[r] <= Room(r)'
        BY <1>1, <1>3, <1>5, <2>2
      <3>2. chan'[r] = <<>> /\ cur' # r
        BY <1>1, <1>3
      <3>3. \A i \in 1..Len(chan'[r]) : FALSE
        BY <3>2
      <3> QED
        BY <3>1, <3>2, <3>3 DEF EventInv
    <2>8. \A q \in Requests : q # r => Apart(q)
      BY <1>1, <1>4, <2>1, <2>2 DEF Apart
    <2> QED
      BY <1>1, <1>3, <2>5, <2>6, <2>7, <2>8, OthersKeep
  <1> QED
    BY <1>6, <1>7
-----------------------------------------------------------------------------
(***************************************************************************)
(* The invariant and what it promises.                                     *)
(***************************************************************************)

\* At first there is nothing to promise anything about.
LEMMA ClientInit == Init => ClientInv
  <1> SUFFICES ASSUME Init PROVE ClientInv
    OBVIOUS
  <1>1. IndInv
    BY InitInv
  <1>2. /\ epc = "idle"
        /\ \A r \in Requests :
             /\ ~rx[r] /\ client[r] = "idle" /\ wire[r] = <<>> /\ frames[r] = <<>>
             /\ hpc[r] = "idle" /\ pend[r] = <<>> /\ out[r] = 0
    BY DEF Init, ChannelsInit, EngineInit, HandlersInit
  <1>3. ASSUME NEW r \in Requests PROVE EventInv(r) /\ WireInv(r)
    <2>1. EventInv(r)
      BY <1>2 DEF EventInv
    <2>2. Room(r) = 0 /\ ~Waiting(r) /\ out[r] <= 0
      BY <1>2 DEF Room, Waiting
    <2>3. WireInv(r)
      BY <1>2, <2>2 DEF WireInv
    <2> QED
      BY <2>1, <2>3
  <1> QED
    BY <1>1, <1>2, <1>3 DEF ClientInv

\* No step breaks a promise.
LEMMA ClientNext == ClientInv /\ [Next]_vars => ClientInv'
  <1> SUFFICES ASSUME ClientInv, [Next]_vars PROVE ClientInv'
    OBVIOUS
  <1>1. IndInv'
    BY NextInv DEF ClientInv
  <1>2. CASE Engine
    <2>1. EngineRecv => Promises'
      BY <1>2, EngineRecvKeeps DEF Engine
    <2>2. EngineStart => Promises'
      BY <1>2, EngineStartKeeps DEF Engine
    <2>3. EngineStep => Promises'
      BY <1>2, EngineStepKeeps DEF Engine
    <2>4. EnginePush => Promises'
      BY <1>2, EnginePushKeeps DEF Engine
    <2>5. EngineFinish => Promises'
      BY <1>2, EngineFinishKeeps DEF Engine
    <2>6. EngineExit => Promises'
      BY <1>2, EngineExitKeeps DEF Engine
    <2>7. Promises'
      BY <1>2, <2>1, <2>2, <2>3, <2>4, <2>5, <2>6 DEF Engine, EngineNext
    <2> QED
      BY <1>1, <2>7 DEF Promises, ClientInv
  <1>3. CASE Panic
    <2>1. Promises'
      BY <1>3, EnginePanicKeeps DEF Panic
    <2> QED
      BY <1>1, <2>1 DEF Promises, ClientInv
  <1>4. ASSUME NEW r \in Requests, Handler(r) PROVE ClientInv'
    <2>1. UNCHANGED engineVars
      BY <1>4 DEF Handler
    <2>2. SendFrame(r) => Promises'
      BY <2>1, SendFrameKeeps
    <2>3. RecvStart(r) => Promises'
      BY <2>1, RecvStartKeeps
    <2>4. RecvToken(r) => Promises'
      BY <2>1, RecvTokenKeeps
    <2>5. RecvStop(r) => Promises'
      BY <2>1, RecvStopKeeps
    <2>6. RecvDone(r) => Promises'
      BY <2>1, RecvDoneKeeps
    <2>7. RecvError(r) => Promises'
      BY <2>1, RecvErrorKeeps
    <2>8. RecvClosed(r) => Promises'
      BY <2>1, RecvClosedKeeps
    <2>9. Promises'
      BY <1>4, <2>2, <2>3, <2>4, <2>5, <2>6, <2>7, <2>8 DEF Handler, HandlerNext
    <2> QED
      BY <1>1, <2>9 DEF Promises, ClientInv
  <1>5. ASSUME NEW r \in Requests, Reader(r) \/ Arrive(r) \/ Leave(r) \/ Reuse(r)
        PROVE  ClientInv'
    <2>1. Reader(r) => Promises'
      BY ClientReadKeeps, ClientEofKeeps DEF Reader
    <2>2. Arrive(r) => Promises'
      BY SubmitKeeps DEF Arrive
    <2>3. Leave(r) => Promises'
      BY ClientGoneKeeps DEF Leave
    <2>4. Reuse(r) => Promises'
      BY ForgetKeeps DEF Reuse
    <2>5. Promises'
      BY <1>5, <2>1, <2>2, <2>3, <2>4
    <2> QED
      BY <1>1, <2>5 DEF Promises, ClientInv
  <1>6. CASE Shutdown \/ ShutdownExit \/ UNCHANGED vars
    <2>1. Promises'
      BY <1>6, ShutdownKeeps
    <2> QED
      BY <1>1, <2>1 DEF Promises, ClientInv
  <1> QED
    BY <1>2, <1>3, <1>4, <1>5, <1>6 DEF Next, Exited

\* The strengthening behind the theorems on what clients are promised.
THEOREM ClientInvariance == Spec => []ClientInv
  <1>1. Init => ClientInv
    BY ClientInit
  <1>2. ClientInv /\ [Next]_vars => ClientInv'
    BY ClientNext
  <1> QED
    BY <1>1, <1>2, PTL DEF Spec

\* Whatever the capacities, the requests and the interleaving of engine, handlers
\* and clients, a stream brings the text drain released, in order, without gap or
\* repetition.
THEOREM TextOrder == Spec => []TextInOrder
  BY ClientInvariance, OrderHolds, PTL

\* finish_reason "length" is said to a client that holds the text of its whole budget.
THEOREM LengthIsWhole == Spec => []LengthMeansWhole
  BY ClientInvariance, LengthHolds, PTL

\* The usage a client is told is the prompt as tokenized and the text it holds, but
\* for a run that panicked.
THEOREM UsageIsHonest == Spec => []UsageHonest
  BY ClientInvariance, UsageHolds, PTL

\* Every stream of run_chat and run_completion follows the grammar, and a body that
\* ends has come to [DONE].
THEOREM StreamsFollowGrammar == Spec => []StreamGrammar
  BY ClientInvariance, GrammarHolds, PTL

-----------------------------------------------------------------------------
(***************************************************************************)
(* The exchanges implement ServeContract. Told says of one state what the  *)
(* contract needs of it; then every step of Serve is a step of the         *)
(* contract or leaves its variables alone.                                 *)
(***************************************************************************)
TextSoFar(w) == Follow(w, 1) - 1

\* Wire w may be what the client of an accepted request r has.
Fitting(w, r) ==
  /\ TextSoFar(w) \in Nat
  /\ Outcome(w) \in {"none", "stop", "length", "error"}
  /\ Contract!Fits(TextSoFar(w), Room(r), Outcome(w))

Told(r) ==
  /\ Room(r) \in Nat
  /\ ~Refused(r) => Fitting(wire[r], r)
  /\ client[r] = "closed" => Outcome(wire[r]) # "none"

\* What has been read of an opening and an ending is fitting.
LEMMA ReadingFits ==
  ASSUME ClientInv, NEW r \in Requests, client[r] # "idle", NEW w, NEW b, NEW e,
         e = <<>> \/ IsEnding(e, r), ReadOf(w, b, e, r)
  PROVE  Fitting(w, r) /\ (Len(b) < Len(w) => Outcome(w) # "none")
  <1>1. WireInv(r) /\ out[r] \in Nat
    BY HandlerTypes DEF ClientInv
  <1>2. out[r] <= Room(r) /\ Room(r) \in Nat /\ (UserError(req[r]) => Room(r) = 0)
        /\ (~UserError(req[r]) => Room(r) = Budget(req[r]))
    BY <1>1, RoomIs DEF WireInv, Room
  <1> DEFINE t == Follow(w, 1)
  <1>3. /\ t \in Nat /\ 0 < t /\ t <= out[r] + 1
        /\ Len(b) <= Len(w) => t = out[r] + 1
        /\ Len(b) \in Nat /\ Len(w) \in Nat /\ Len(w) <= Len(b) + Len(e)
        /\ Outcome(w) = IF Len(b) < Len(w)
                          THEN IF e[1].kind = "error" THEN "error" ELSE e[1].why ELSE "none"
    BY DEF ReadOf
  <1> HIDE DEF t
  <1>4. t - 1 \in Nat /\ t - 1 <= out[r] /\ t - 1 <= Room(r)
    BY <1>1, <1>2, <1>3
  <1>5. CASE ~(Len(b) < Len(w))
    BY <1>3, <1>4, <1>5 DEF Fitting, TextSoFar, Contract!Fits, t
  <1>6. CASE Len(b) < Len(w)
    <2>1. e # <<>>
      <3>1. Len(<<>>) = 0
        OBVIOUS
      <3> QED
        BY <1>3, <1>6, <3>1
    <2>2. EndingFacts(e, r)
      BY <2>1, EndingIs
    <2>3. t = out[r] + 1
      BY <1>3, <1>6
    <2>4. CASE UserError(req[r]) /\ e[1].kind = "error"
      <3>1. t - 1 = 0 /\ Outcome(w) = "error"
        BY <1>1, <1>2, <1>3, <1>6, <2>3, <2>4
      <3> QED
        BY <1>4, <3>1 DEF Fitting, TextSoFar, Contract!Fits, t
    <2>5. ASSUME NEW v \in {"stop", "length"}, NEW p \in Nat, NEW n \in Nat, Closing(e, r, v, p, n)
          PROVE  Fitting(w, r) /\ Outcome(w) # "none"
      <3>1. Outcome(w) = v /\ ~UserError(req[r]) /\ (v = "length" => out[r] = Budget(req[r]))
        BY <1>3, <1>6, <2>5 DEF Closing, Honest
      <3>2. v = "length" => t - 1 = Room(r)
        BY <1>1, <1>2, <2>3, <3>1
      <3> QED
        BY <1>4, <3>1, <3>2 DEF Fitting, TextSoFar, Contract!Fits, t
    <2> QED
      BY <1>6, <2>2, <2>4, <2>5 DEF EndingFacts, Fitting
  <1> QED
    BY <1>5, <1>6

\* What every client has been told agrees with the contract.
LEMMA ToldHolds == ClientInv => \A r \in Requests : Told(r)
  <1> SUFFICES ASSUME ClientInv, NEW r \in Requests PROVE Told(r)
    OBVIOUS
  <1>1. WireInv(r) /\ out[r] \in Nat
    BY HandlerTypes DEF ClientInv
  <1>2. Room(r) \in Nat
    BY RoomIs DEF Room
  <1>3. wire[r] = <<>> => Fitting(wire[r], r) /\ Outcome(wire[r]) = "none"
    <2> SUFFICES ASSUME wire[r] = <<>> PROVE Fitting(wire[r], r) /\ Outcome(wire[r]) = "none"
      OBVIOUS
    <2>1. TextSoFar(wire[r]) = 0 /\ Outcome(wire[r]) = "none"
      BY NoFrame DEF TextSoFar
    <2> QED
      BY <1>2, <2>1 DEF Fitting, Contract!Fits
  <1>4. ASSUME NEW f, IsAnswer(f, r), wire[r] = <<f>>, client[r] # "idle"
        PROVE  Fitting(wire[r], r) /\ Outcome(wire[r]) # "none"
    <2>1. out[r] <= Room(r) /\ (UserError(req[r]) => Room(r) = 0)
          /\ (~UserError(req[r]) => Room(r) = Budget(req[r]))
      BY <1>1, <1>4, RoomIs DEF WireInv, Room
    <2>2. CASE UserError(req[r]) /\ Follow(<<f>>, 1) = 1 /\ Outcome(<<f>>) = "error"
      <3>1. TextSoFar(wire[r]) = 0 /\ Outcome(wire[r]) = "error"
        BY <1>4, <2>2 DEF TextSoFar
      <3> QED
        BY <1>2, <3>1 DEF Fitting, Contract!Fits
    <2>3. ASSUME NEW v \in {"stop", "length"}, NEW p \in Nat, NEW n \in Nat, Honest(r, v, p, n),
                 Follow(<<f>>, 1) = out[r] + 1, Outcome(<<f>>) = v
          PROVE  Fitting(wire[r], r) /\ Outcome(wire[r]) # "none"
      <3>1. TextSoFar(wire[r]) = out[r] /\ Outcome(wire[r]) = v
        BY <1>1, <1>4, <2>3 DEF TextSoFar
      <3>2. v = "length" => out[r] = Room(r)
        BY <2>1, <2>3 DEF Honest
      <3> QED
        BY <1>1, <2>1, <3>1, <3>2 DEF Fitting, Contract!Fits
    <2> QED
      BY <1>1, <1>4, <2>2, <2>3, AnswerRead
  <1>5. CASE client[r] \in {"idle", "gone"} /\ wire[r] = <<>>
    BY <1>2, <1>3, <1>5 DEF Told
  <1>6. CASE Refused(r)
    BY <1>2, <1>6, BusyRead DEF Told, Refused
  <1>7. ASSUME client[r] \in {"open", "closed", "lost"}, NEW b, NEW e, IsReading(b, e, r)
        PROVE  Told(r)
    <2>1. e = <<>> \/ IsEnding(e, r)
      BY <1>7 DEF IsReading
    <2>2. Fitting(wire[r], r) /\ (Len(b) < Len(wire[r]) => Outcome(wire[r]) # "none")
      BY <1>7, <2>1, ReadingFits DEF IsReading
    <2>3. client[r] = "closed" => Len(b) < Len(wire[r])
      <3> SUFFICES ASSUME client[r] = "closed" PROVE Len(b) < Len(wire[r])
        OBVIOUS
      <3>1. IsEnding(e, r) /\ Len(wire[r]) = Len(b) + Len(e)
        BY <1>7 DEF IsReading
      <3>2. Len(e) \in {2, 3}
        BY <3>1, EndingIs DEF EndingFacts
      <3>3. Len(b) \in Nat
        BY <1>7 DEF IsReading, ReadOf
      <3> DEFINE x == Len(b) y == Len(e) z == Len(wire[r])
      <3>4. z = x + y /\ y \in {2, 3} /\ x \in Nat
        BY <3>1, <3>2, <3>3
      <3> HIDE DEF x, y, z
      <3>5. x < z
        BY <3>4
      <3> QED
        BY <3>5 DEF x, z
    <2> QED
      BY <1>2, <2>2, <2>3 DEF Told
  <1>8. CASE ~req[r].sse /\ wire[r] = <<>> /\ client[r] # "closed"
    BY <1>2, <1>3, <1>8 DEF Told
  <1>9. CASE ~req[r].sse /\ client[r] = "closed" /\ ~Refused(r)
    <2>1. PICK f : IsAnswer(f, r) /\ wire[r] = <<f>>
      BY <1>1, <1>9 DEF WireInv, AnswerOK
    <2> QED
      BY <1>2, <1>4, <1>9, <2>1 DEF Told
  <1> QED
    BY <1>5, <1>6, <1>7, <1>8, <1>9, WireShapes DEF ReadsStream

\* Nothing a client of slot q sees changes.
Quiet(q) == client'[q] = client[q] /\ wire'[q] = wire[q] /\ req'[q] = req[q]

\* The phases by the states of a client.
LEMMA PhaseIs ==
  /\ Phase["idle"] = "idle" /\ Phase["open"] = "open" /\ Phase["closed"] = "over"
  /\ Phase["gone"] = "left" /\ Phase["lost"] = "cut"
  BY DEF Phase

\* A step about one slot changes the contract's variables there only.
LEMMA Elsewhere ==
  ASSUME NEW r \in Requests, \A q \in Requests : q # r => Quiet(q)
  PROVE  /\ [q \in Requests |-> Phase[client'[q]]]
              = [[q \in Requests |-> Phase[client[q]]] EXCEPT ![r] = Phase[client'[r]]]
         /\ [q \in Requests |-> Room(q)]' = [[q \in Requests |-> Room(q)] EXCEPT ![r] = Room(r)']
         /\ [q \in Requests |-> Delivered(q)]'
              = [[q \in Requests |-> Delivered(q)] EXCEPT ![r] = Delivered(r)']
         /\ [q \in Requests |-> Outcome(wire'[q])]
              = [[q \in Requests |-> Outcome(wire[q])] EXCEPT ![r] = Outcome(wire'[r])]
  <1>1. \A q \in Requests : q # r =>
          client'[q] = client[q] /\ wire'[q] = wire[q] /\ req'[q] = req[q]
    BY DEF Quiet
  <1>2. \A q \in Requests : q # r => Follow(wire'[q], 1) = Follow(wire[q], 1)
                                     /\ Outcome(wire'[q]) = Outcome(wire[q])
    BY <1>1
  <1> QED
    BY <1>1, <1>2 DEF Room, Delivered

\* A step no client can see.
LEMMA Unseen ==
  ASSUME \A q \in Requests : Quiet(q)
  PROVE  UNCHANGED Contract!vars
  <1>1. \A q \in Requests :
          client'[q] = client[q] /\ wire'[q] = wire[q] /\ req'[q] = req[q]
    BY DEF Quiet
  <1>2. \A q \in Requests : Follow(wire'[q], 1) = Follow(wire[q], 1)
                            /\ Outcome(wire'[q]) = Outcome(wire[q])
    BY <1>1
  <1> QED
    BY <1>1, <1>2 DEF Room, Delivered, Contract!vars

\* Text or a verdict that fit, given to a client that waits for them.
LEMMA Responds ==
  ASSUME NEW r \in Requests, \A q \in Requests : q # r => Quiet(q),
         client[r] = "open", Outcome(wire[r]) = "none", client'[r] \in {"open", "closed"},
         Room(r)' = Room(r), NEW t \in Nat, NEW u \in Nat, t <= u,
         Delivered(r) = t, Delivered(r)' = u,
         Outcome(wire'[r]) \in {"none", "stop", "length", "error"},
         Contract!Fits(u, Room(r), Outcome(wire'[r])),
         client'[r] = "closed" => Outcome(wire'[r]) # "none"
  PROVE  Contract!Next
  <1>1. Contract!Respond(r)
    BY Elsewhere, PhaseIs DEF Contract!Respond, Contract!Verdicts
  <1> QED
    BY <1>1 DEF Contract!Next

\* A JSON answer.
LEMMA AnswerRefines ==
  ASSUME ClientInv, \A q \in Requests : Told(q)', NEW r \in Requests, hpc[r] = "recv", proc # "exited",
         ~req[r].sse, NEW f, f.kind # "busy", Answer(r, f), UNCHANGED req
  PROVE  Contract!Next
  <1>1. client[r] = "open" /\ wire[r] = <<>>
    BY WhoHears DEF AnswerOK
  <1>2. /\ wire'[r] = <<f>> /\ client'[r] = "closed"
        /\ \A q \in Requests : q # r => Quiet(q)
    BY <1>1, ChanTypes DEF Answer, ClientInv, Quiet
  <1>3. ~Refused(r)'
    <2>1. <<f>> # <<Plain("busy")>>
      BY BusyRead
    <2> QED
      BY <1>2, <2>1 DEF Refused
  <1>4. /\ Follow(wire'[r], 1) - 1 \in Nat
        /\ Outcome(wire'[r]) \in {"none", "stop", "length", "error"}
        /\ Contract!Fits(Follow(wire'[r], 1) - 1, Room(r)', Outcome(wire'[r]))
        /\ Outcome(wire'[r]) # "none"
    BY <1>2, <1>3 DEF Told, Fitting, TextSoFar
  <1>5. Room(r)' = Room(r) /\ Delivered(r)' = Follow(wire'[r], 1) - 1
    BY <1>1, <1>2 DEF Room, Delivered
  <1>6. Delivered(r) = 0 /\ Outcome(wire[r]) = "none"
    BY <1>1, NoFrame DEF Delivered
  <1>7. 0 \in Nat /\ 0 <= Follow(wire'[r], 1) - 1
    BY <1>4
  <1> QED
    BY <1>1, <1>2, <1>4, <1>5, <1>6, <1>7, Responds

\* The end of the drain loop: frames for a stream, or the JSON answer.
LEMMA ConcludeRefines ==
  ASSUME ClientInv, \A q \in Requests : Told(q)', NEW r \in Requests, hpc[r] = "recv", proc # "exited",
         UNCHANGED req, NEW segs, NEW hi, NEW why, NEW p, NEW n, Conclude(r, segs, hi, why, p, n)
  PROVE  Contract!Next \/ UNCHANGED Contract!vars
  <1>1. CASE req[r].sse
    <2>1. \A q \in Requests : Quiet(q)
      BY <1>1 DEF Conclude, Quiet
    <2> QED
      BY <2>1, Unseen
  <1>2. CASE ~req[r].sse
    <2>1. Answer(r, Body(hi, why, p, n))
      BY <1>2 DEF Conclude
    <2>2. Body(hi, why, p, n).kind # "busy"
      BY DEF Body
    <2> QED
      BY <1>2, <2>1, <2>2, AnswerRefines
  <1> QED
    BY <1>1, <1>2

\* A handler's step.
LEMMA HandlerRefines ==
  ASSUME ClientInv, \A q \in Requests : Told(q)', NEW r \in Requests, HandlerNext(r)
  PROVE  Contract!Next \/ UNCHANGED Contract!vars
  <1>1. CASE SendFrame(r) \/ RecvStart(r) \/ RecvToken(r)
    <2>1. UNCHANGED <<client, wire, req>>
      BY <1>1 DEF SendFrame, RecvStart, RecvToken, Receives, Keeps
    <2> QED
      BY <2>1, Unseen DEF Quiet
  <1>2. CASE RecvStop(r)
    <2>1. hpc[r] = "recv" /\ proc # "exited" /\ UNCHANGED req
      BY <1>2 DEF RecvStop, Receives, Keeps
    <2>2. \E segs, hi, why, p, n : Conclude(r, segs, hi, why, p, n)
      BY <1>2 DEF RecvStop
    <2> QED
      BY <2>1, <2>2, ConcludeRefines
  <1>3. CASE RecvDone(r)
    <2>1. hpc[r] = "recv" /\ proc # "exited" /\ UNCHANGED req
      BY <1>3 DEF RecvDone, Receives, Keeps
    <2>2. \E segs, hi, why, p, n : Conclude(r, segs, hi, why, p, n)
      BY <1>3 DEF RecvDone
    <2> QED
      BY <2>1, <2>2, ConcludeRefines
  <1>4. CASE RecvClosed(r)
    <2>1. hpc[r] = "recv" /\ proc # "exited" /\ UNCHANGED req
      BY <1>4 DEF RecvClosed, Keeps
    <2>2. \E segs, hi, why, p, n : Conclude(r, segs, hi, why, p, n)
      BY <1>4 DEF RecvClosed
    <2> QED
      BY <2>1, <2>2, ConcludeRefines
  <1>5. CASE RecvError(r)
    <2>1. hpc[r] = "recv" /\ proc # "exited" /\ UNCHANGED req
      BY <1>5 DEF RecvError, Receives, Keeps
    <2>2. CASE req[r].sse
      <3>1. UNCHANGED <<client, wire, req>>
        BY <1>5, <2>1, <2>2 DEF RecvError
      <3> QED
        BY <3>1, Unseen DEF Quiet
    <2>3. CASE ~req[r].sse
      <3>1. Answer(r, Plain("bad")) /\ Plain("bad").kind # "busy"
        BY <1>5, <2>3 DEF RecvError, Plain
      <3> QED
        BY <2>1, <2>3, <3>1, AnswerRefines
    <2> QED
      BY <2>2, <2>3
  <1> QED
    BY <1>1, <1>2, <1>3, <1>4, <1>5 DEF HandlerNext

\* A frame read: text or a verdict on a stream that had none, or no news.
LEMMA ReadRefines ==
  ASSUME ClientInv, \A q \in Requests : Told(q)', NEW r \in Requests, ClientRead(r)
  PROVE  Contract!Next \/ UNCHANGED Contract!vars
  <1>c. PICK c : c = frames[r]
    OBVIOUS
  <1>w. PICK w : w = wire[r]
    OBVIOUS
  <1>p. PICK p : p = pend[r]
    OBVIOUS
  <1>f. PICK f : f = Head(c)
    OBVIOUS
  <1>v. PICK v : v = w \o <<f>>
    OBVIOUS
  <1>1. /\ client[r] = "open" /\ proc # "exited" /\ c # <<>>
        /\ wire' = [wire EXCEPT ![r] = Append(w, f)]
        /\ frames' = [frames EXCEPT ![r] = Tail(c)]
        /\ UNCHANGED <<client, pend, out, req>>
    BY <1>c, <1>w, <1>f DEF ClientRead, Keeps, handlerVars
  <1>2. c \in Seq(Frame) /\ w \in Seq(Frame) /\ p \in Seq(Frame) /\ out[r] \in Nat
    BY <1>c, <1>w, <1>p, ChanTypes, HandlerTypes DEF ClientInv
  <1>3. f \in Frame /\ Tail(c) \in Seq(Frame)
    BY <1>1, <1>2, <1>f, SeqTail
  <1>4. v = Append(w, f) /\ v \in Seq(Frame) /\ Len(v) = Len(w) + 1 /\ Len(w) \in Nat
    BY <1>2, <1>3, <1>v, AppendIsConcat, Followed
  <1>5. wire'[r] = v /\ \A q \in Requests : q # r => Quiet(q)
    BY <1>1, <1>4, ChanTypes DEF ClientInv, Quiet
  <1>6. req[r].sse /\ StreamOK(r) /\ WireInv(r)
    <2>1. ~Refused(r) /\ WireInv(r)
      BY <1>1 DEF Refused, ClientInv
    <2> QED
      BY <1>1, <1>c, <2>1 DEF WireInv, AnswerOK
  <1>7. PICK b, e : IsOpening(b, r) /\ (e = <<>> \/ IsEnding(e, r)) /\ Stream(r) = b \o e
    <2>1. PICK b : IsOpening(b, r) /\ IF Waiting(r) THEN Stream(r) = b
                                      ELSE \E e : IsEnding(e, r) /\ Stream(r) = b \o e
      BY <1>6 DEF StreamOK
    <2>2. b \o <<>> = b
      BY <2>1, NoneMore DEF IsOpening
    <2> QED
      BY <2>1, <2>2
  <1>8. ReadOf(w, b, e, r) /\ ReadOf(v, b, e, r)
    <2>a. \A x, y, z \in Seq(Frame) :
            (x \o y) \o z = x \o (y \o z) /\ y \o z \in Seq(Frame)
      BY Regrouped
    <2>1. Stream(r) = w \o (c \o p) /\ c \o p \in Seq(Frame)
      <3>1. Stream(r) = (w \o c) \o p
        BY <1>c, <1>w, <1>p DEF Stream
      <3>2. w \in Seq(Frame) /\ c \in Seq(Frame) /\ p \in Seq(Frame)
        BY <1>2
      <3> QED
        BY <2>a, <3>1, <3>2, Zenon
    <2>2. v \o Tail(c) = w \o c
      BY <1>1, <1>2, <1>4, <1>f, Moved
    <2>3. (v \o Tail(c)) \o p = v \o (Tail(c) \o p) /\ Tail(c) \o p \in Seq(Frame)
      <3>1. v \in Seq(Frame) /\ Tail(c) \in Seq(Frame) /\ p \in Seq(Frame)
        BY <1>2, <1>3, <1>4
      <3> QED
        BY <2>a, <3>1, Zenon
    <2>4. (w \o c) \o p = w \o (c \o p)
      <3>1. w \in Seq(Frame) /\ c \in Seq(Frame) /\ p \in Seq(Frame)
        BY <1>2
      <3> QED
        BY <2>a, <3>1, Zenon
    <2>5. b \o e = w \o (c \o p) /\ b \o e = v \o (Tail(c) \o p)
      BY <1>7, <2>1, <2>2, <2>3, <2>4
    <2>6. ReadOf(w, b, e, r)
      BY <1>2, <1>7, <2>1, <2>5, ReadsOf
    <2> QED
      BY <1>2, <1>4, <1>7, <2>3, <2>5, <2>6, ReadsOf
  <1>9. Delivered(r) = Follow(w, 1) - 1 /\ Delivered(r)' = Follow(v, 1) - 1
        /\ Outcome(wire[r]) = Outcome(w) /\ Outcome(wire'[r]) = Outcome(v)
    BY <1>w, <1>5 DEF Delivered
  <1>10. CASE Len(b) < Len(w)
    <2>1. Len(b) < Len(v) /\ Len(b) <= Len(w) /\ Len(b) <= Len(v)
      BY <1>4, <1>8, <1>10 DEF ReadOf
    <2>2. Follow(v, 1) = Follow(w, 1) /\ Outcome(v) = Outcome(w)
      BY <1>8, <1>10, <2>1 DEF ReadOf
    <2>3. /\ [q \in Requests |-> Phase[client'[q]]] = [q \in Requests |-> Phase[client[q]]]
          /\ [q \in Requests |-> Room(q)]' = [q \in Requests |-> Room(q)]
      BY <1>1 DEF Room
    <2>4. \A q \in Requests : Follow(wire'[q], 1) - 1 = Follow(wire[q], 1) - 1
                              /\ Outcome(wire'[q]) = Outcome(wire[q])
      BY <1>5, <1>w, <2>2 DEF Quiet
    <2> QED
      BY <2>3, <2>4 DEF Contract!vars, Delivered
  <1>11. CASE ~(Len(b) < Len(w))
    <2>1. Outcome(w) = "none"
      BY <1>8, <1>11 DEF ReadOf
    <2>2. Follow(w, 1) \in Nat /\ 0 < Follow(w, 1) /\ Follow(v, 1) \in Nat /\ 0 < Follow(v, 1)
      BY <1>8 DEF ReadOf
    <2>3. Follow(w, 1) <= Follow(v, 1)
      <3>1. <<f>> \in Seq(Frame) /\ Len(<<f>>) = 1 /\ <<f>>[1] = f
        BY <1>3, OneFrame
      <3>2. Follow(v, 1) = Follow(<<f>>, Follow(w, 1))
        <4>1. \A x, y \in Seq(Frame) : Follow(x \o y, 1) = Follow(y, Follow(x, 1))
          BY FollowConcat
        <4>2. w \in Seq(Frame) /\ <<f>> \in Seq(Frame)
          BY <1>2, <3>1
        <4>3. Follow(w \o <<f>>, 1) = Follow(<<f>>, Follow(w, 1))
          BY <4>1, <4>2, Zenon
        <4> QED
          BY <1>v, <4>3
      <3>3. IsText(f) \/ f.kind \notin {"seg", "body"}
        <4>1. Len(w) + 1 \in 1..Len(v) /\ v[Len(w) + 1] = f
          BY <1>2, <1>3, <1>4, <1>v, Followed
        <4>2. f = IF Len(w) + 1 <= Len(b) THEN b[Len(w) + 1] ELSE e[Len(w) + 1 - Len(b)]
          BY <1>8, <4>1 DEF ReadOf
        <4>3. CASE Len(w) + 1 <= Len(b)
          <5>1. Len(w) + 1 \in 1..Len(b)
            BY <1>4, <1>8, <4>3 DEF ReadOf
          <5> QED
            BY <4>2, <4>3, <5>1, <1>7 DEF IsOpening, IsText
        <4>4. CASE ~(Len(w) + 1 <= Len(b))
          <5>1. Len(w) + 1 - Len(b) \in 1..Len(e) /\ e # <<>>
            <6>1. Len(b) \in Nat /\ Len(v) <= Len(b) + Len(e)
              BY <1>8 DEF ReadOf
            <6>2. e = <<>> => Len(e) = 0
              OBVIOUS
            <6>3. Len(e) \in Nat
              BY <1>7, <6>2, EndingIs DEF EndingFacts
            <6> QED
              BY <1>4, <4>4, <6>1, <6>2, <6>3
          <5>2. EndingFacts(e, r)
            BY <1>7, <5>1, EndingIs
          <5> QED
            BY <4>2, <4>4, <5>1, <5>2 DEF EndingFacts
        <4> QED
          BY <4>3, <4>4
      <3>4. \A i \in 1..Len(<<f>>) : IsText(<<f>>[i]) \/ <<f>>[i].kind \notin {"seg", "body"}
        BY <3>1, <3>3
      <3> QED
        BY <2>2, <3>1, <3>2, <3>4, FollowGrows
    <2>4. /\ Outcome(v) \in {"none", "stop", "length", "error"}
          /\ Contract!Fits(Follow(v, 1) - 1, Room(r)', Outcome(v))
      <3>1. ~Refused(r)'
        BY <1>1 DEF Refused
      <3> QED
        BY <1>5, <3>1 DEF Told, Fitting, TextSoFar
    <2>5. Room(r)' = Room(r)
      BY <1>1 DEF Room
    <2>6. Follow(w, 1) - 1 \in Nat /\ Follow(v, 1) - 1 \in Nat /\ Follow(w, 1) - 1 <= Follow(v, 1) - 1
      BY <2>2, <2>3
    <2> QED
      BY <1>1, <1>5, <1>9, <2>1, <2>4, <2>5, <2>6, Responds
  <1> QED
    BY <1>10, <1>11

\* The steps of the contract in which a connection closes, a client leaves, or a
\* slot is used again.
LEMMA Parts ==
  ASSUME NEW r \in Requests, \A q \in Requests : q # r => Quiet(q)
  PROVE  /\ /\ client[r] = "open" /\ Outcome(wire[r]) # "none" /\ client'[r] = "closed"
            /\ Room(r)' = Room(r) /\ Delivered(r)' = Delivered(r)
            /\ Outcome(wire'[r]) = Outcome(wire[r])
            => Contract!Close(r)
         /\ /\ client[r] = "open" /\ client'[r] = "gone"
            /\ Room(r)' = Room(r) /\ Delivered(r)' = 0 /\ Outcome(wire'[r]) = "none"
            => Contract!Leave(r)
         /\ /\ client[r] \in {"closed", "gone"} /\ client'[r] = "idle"
            /\ Room(r)' = 0 /\ Delivered(r)' = 0 /\ Outcome(wire'[r]) = "none"
            => Contract!Reuse(r)
  <1>1. ASSUME client[r] = "open", Outcome(wire[r]) # "none", client'[r] = "closed",
               Room(r)' = Room(r), Delivered(r)' = Delivered(r),
               Outcome(wire'[r]) = Outcome(wire[r])
        PROVE  Contract!Close(r)
    <2>1. Phase[client[r]] = "open" /\ Phase[client'[r]] = "over"
      BY <1>1, PhaseIs
    <2> QED
      BY <1>1, <2>1, Elsewhere DEF Contract!Close
  <1>2. ASSUME client[r] = "open", client'[r] = "gone",
               Room(r)' = Room(r), Delivered(r)' = 0, Outcome(wire'[r]) = "none"
        PROVE  Contract!Leave(r)
    <2>1. Phase[client[r]] = "open" /\ Phase[client'[r]] = "left"
      BY <1>2, PhaseIs
    <2> QED
      BY <1>2, <2>1, Elsewhere DEF Contract!Leave
  <1>3. ASSUME client[r] \in {"closed", "gone"}, client'[r] = "idle",
               Room(r)' = 0, Delivered(r)' = 0, Outcome(wire'[r]) = "none"
        PROVE  Contract!Reuse(r)
    <2>1. Phase[client[r]] \in {"over", "left"} /\ Phase[client'[r]] = "idle"
      BY <1>3, PhaseIs
    <2> QED
      BY <1>3, <2>1, Elsewhere DEF Contract!Reuse
  <1> QED
    BY <1>1, <1>2, <1>3

\* Those in which a request is accepted or refused.
LEMMA Begins ==
  ASSUME NEW r \in Requests, \A q \in Requests : q # r => Quiet(q),
         client[r] = "idle", Room(r)' \in Nat, Delivered(r)' = Delivered(r),
         Outcome(wire[r]) = "none"
  PROVE  /\ client'[r] = "open" /\ Outcome(wire'[r]) = "none" => Contract!Open(r)
         /\ client'[r] = "closed" /\ Outcome(wire'[r]) = "busy" => Contract!Refuse(r)
  <1>1. ASSUME client'[r] = "open", Outcome(wire'[r]) = "none" PROVE Contract!Open(r)
    <2>1. Phase[client[r]] = "idle" /\ Phase[client'[r]] = "open"
      BY <1>1, PhaseIs
    <2> QED
      BY <1>1, <2>1, Elsewhere DEF Contract!Open
  <1>2. ASSUME client'[r] = "closed", Outcome(wire'[r]) = "busy" PROVE Contract!Refuse(r)
    <2>1. Phase[client[r]] = "idle" /\ Phase[client'[r]] = "over"
      BY <1>2, PhaseIs
    <2> QED
      BY <1>2, <2>1, Elsewhere DEF Contract!Refuse
  <1> QED
    BY <1>1, <1>2

\* A stream that ends, a client that leaves, a slot used again.
LEMMA EndsRefine ==
  ASSUME ClientInv, \A q \in Requests : Told(q)', \A q \in Requests : Told(q), NEW r \in Requests,
         ClientEof(r) \/ ClientGone(r) \/ Forget(r)
  PROVE  Contract!Next
  <1>t. /\ client \in [Requests -> {"idle", "open", "closed", "gone", "lost"}]
        /\ wire \in [Requests -> Seq(Frame)] /\ req \in [Requests -> Profiles]
    BY ChanTypes DEF ClientInv
  <1>1. CASE ClientEof(r)
    <2>1. /\ client[r] = "open" /\ client'[r] = "closed" /\ wire' = wire /\ req' = req
          /\ \A q \in Requests : q # r => Quiet(q)
      BY <1>1, <1>t DEF ClientEof, Keeps, Quiet
    <2>2. Outcome(wire[r]) # "none"
      BY <2>1 DEF Told
    <2>3. Room(r)' = Room(r) /\ Delivered(r)' = Delivered(r)
      BY <2>1 DEF Room, Delivered
    <2>4. Contract!Close(r)
      BY <2>1, <2>2, <2>3, Parts
    <2> QED
      BY <2>4 DEF Contract!Next
  <1>2. CASE ClientGone(r)
    <2>1. /\ client[r] = "open" /\ client'[r] = "gone" /\ wire'[r] = <<>> /\ req' = req
          /\ \A q \in Requests : q # r => Quiet(q)
      BY <1>2, <1>t DEF ClientGone, Keeps, Quiet
    <2>2. Room(r)' = Room(r) /\ Delivered(r)' = 0 /\ Outcome(wire'[r]) = "none"
      BY <2>1, NoFrame DEF Room, Delivered
    <2>3. Contract!Leave(r)
      BY <2>1, <2>2, Parts
    <2> QED
      BY <2>3 DEF Contract!Next
  <1>3. CASE Forget(r)
    <2>1. /\ client[r] \in {"closed", "gone"} /\ client'[r] = "idle" /\ wire'[r] = <<>>
          /\ \A q \in Requests : q # r => Quiet(q)
      BY <1>3, <1>t DEF Forget, Quiet
    <2>2. Room(r)' = 0 /\ Delivered(r)' = 0 /\ Outcome(wire'[r]) = "none"
      BY <2>1, NoFrame DEF Room, Delivered
    <2>3. Contract!Reuse(r)
      BY <2>1, <2>2, Parts
    <2> QED
      BY <2>3 DEF Contract!Next
  <1> QED
    BY <1>1, <1>2, <1>3

\* A request that arrives is accepted or refused.
LEMMA SubmitRefines ==
  ASSUME ClientInv, \A q \in Requests : Told(q)', NEW r \in Requests, NEW p \in Profiles, Submit(r, p)
  PROVE  Contract!Next
  <1>t. /\ client \in [Requests -> {"idle", "open", "closed", "gone", "lost"}]
        /\ wire \in [Requests -> Seq(Frame)] /\ req \in [Requests -> Profiles]
    BY ChanTypes DEF ClientInv
  <1>1. client[r] = "idle" /\ wire[r] = <<>>
    BY DEF Submit, ClientInv, WireInv
  <1>2. Room(r)' \in Nat
    BY DEF Told
  <1>3. Delivered(r) = 0 /\ Outcome(wire[r]) = "none"
    BY <1>1, NoFrame DEF Delivered
  <1>4. CASE HasRoom(queue, QueueCap)
    <2>1. /\ client'[r] = "open" /\ wire' = wire
          /\ \A q \in Requests : q # r => Quiet(q)
      BY <1>4, <1>t DEF Submit, Quiet
    <2>2. Delivered(r)' = Delivered(r) /\ Outcome(wire'[r]) = "none"
      BY <1>3, <2>1 DEF Delivered
    <2>3. Contract!Open(r)
      BY <1>1, <1>2, <1>3, <2>1, <2>2, Begins
    <2> QED
      BY <2>3 DEF Contract!Next
  <1>5. CASE ~HasRoom(queue, QueueCap)
    <2>1. /\ client'[r] = "closed" /\ wire'[r] = <<Plain("busy")>>
          /\ \A q \in Requests : q # r => Quiet(q)
      BY <1>1, <1>5, <1>t DEF Submit, Answer, Quiet
    <2>2. Outcome(wire'[r]) = "busy" /\ Delivered(r)' = 0
      BY <2>1, BusyRead DEF Delivered
    <2>3. Contract!Refuse(r)
      BY <1>1, <1>2, <1>3, <2>1, <2>2, Begins
    <2> QED
      BY <2>3 DEF Contract!Next
  <1> QED
    BY <1>4, <1>5

\* The process exits under the exchanges still open.
LEMMA ExitRefines ==
  ASSUME ClientInv, EngineExit
  PROVE  Contract!Next
  <1>1. /\ client' = [r \in Requests |-> IF client[r] = "open" THEN "lost" ELSE client[r]]
        /\ wire' = wire /\ req' = req
    BY DEF EngineExit
  <1>2. client \in [Requests -> {"idle", "open", "closed", "gone", "lost"}]
    BY ChanTypes DEF ClientInv
  <1>3. \A q \in Requests : Phase[client'[q]] = IF Phase[client[q]] = "open" THEN "cut"
                                                ELSE Phase[client[q]]
    BY <1>1, <1>2, PhaseIs
  <1>4. [q \in Requests |-> Room(q)]' = [q \in Requests |-> Room(q)]
    BY <1>1, <1>2 DEF Room
  <1>5. [q \in Requests |-> Delivered(q)]' = [q \in Requests |-> Delivered(q)]
    BY <1>1 DEF Delivered
  <1>6. Contract!Cut
    BY <1>1, <1>3, <1>4, <1>5 DEF Contract!Cut
  <1> QED
    BY <1>6 DEF Contract!Next

\* Every step is one of the contract, or one no client can see.
LEMMA StepRefines ==
  ASSUME ClientInv, \A r \in Requests : Told(r), \A r \in Requests : Told(r)', [Next]_vars
  PROVE  [Contract!Next]_(Contract!vars)
  <1>1. CASE Engine /\ ~EngineExit
    <2>1. UNCHANGED <<client, wire, req>>
      BY <1>1 DEF Engine, EngineNext, EngineRecv, EngineStart, EngineStep, EnginePush, EngineFinish,
                  EngineKeeps
    <2> QED
      BY <2>1, Unseen DEF Quiet
  <1>2. CASE EngineExit
    BY <1>2, ExitRefines
  <1>3. CASE Panic \/ Shutdown \/ ShutdownExit \/ UNCHANGED vars
    <2>1. UNCHANGED <<client, wire, req>>
      BY <1>3 DEF Panic, EnginePanic, EngineKeeps, Shutdown, ShutdownExit, vars, channelVars
    <2> QED
      BY <2>1, Unseen DEF Quiet
  <1>4. ASSUME NEW r \in Requests, Handler(r) \/ Reader(r) \/ Arrive(r) \/ Leave(r) \/ Reuse(r)
        PROVE  Contract!Next \/ UNCHANGED Contract!vars
    BY <1>4, HandlerRefines, ReadRefines, EndsRefine, SubmitRefines
       DEF Handler, Reader, Arrive, Leave, Reuse
  <1> QED
    BY <1>1, <1>2, <1>3, <1>4 DEF Next, Exited

\* No exchange at first, in the contract either.
LEMMA InitRefines == Init => Contract!Init
  <1> SUFFICES ASSUME Init PROVE Contract!Init
    OBVIOUS
  <1>1. \A r \in Requests : client[r] = "idle" /\ wire[r] = <<>>
    BY DEF Init, ChannelsInit
  <1>2. \A r \in Requests : Phase[client[r]] = "idle" /\ Room(r) = 0
    BY <1>1, PhaseIs DEF Room
  <1>3. \A r \in Requests : Delivered(r) = 0 /\ Outcome(wire[r]) = "none"
    <2> SUFFICES ASSUME NEW r \in Requests PROVE Delivered(r) = 0 /\ Outcome(wire[r]) = "none"
      OBVIOUS
    <2>1. wire[r] = <<>>
      BY <1>1
    <2> QED
      BY <2>1, NoFrame DEF Delivered
  <1> QED
    BY <1>2, <1>3 DEF Contract!Init

\* Whatever the capacities, the requests and the interleaving, the exchanges as the
\* clients see them implement the abstract contract.
THEOREM ExchangesKeepContract == Spec => RefinesContract
  <1>1. ClientInv => \A r \in Requests : Told(r)
    BY ToldHolds
  <1>2. ClientInv /\ (\A r \in Requests : Told(r)) /\ (\A r \in Requests : Told(r))' /\ [Next]_vars
          => [Contract!Next]_(Contract!vars)
    BY StepRefines
  <1> QED
    BY <1>1, <1>2, ClientInvariance, InitRefines, PTL DEF Spec, RefinesContract, Contract!Spec
=============================================================================
