---------------------------- MODULE ServeProofs ----------------------------
(***************************************************************************)
(* Proofs of the safety properties of Serve, for any set of requests, any  *)
(* profiles and any channel capacities.                                    *)
(***************************************************************************)
EXTENDS Serve, SequenceTheorems, TLAPS

\* A sequence grows by one element at its end.
LEMMA SeqAppend ==
  ASSUME NEW S, NEW s \in Seq(S), NEW e \in S
  PROVE  /\ Append(s, e) \in Seq(S)
         /\ Len(Append(s, e)) = Len(s) + 1
         /\ Append(s, e) # <<>>
         /\ Append(s, e)[Len(s) + 1] = e
         /\ \A i \in 1..Len(s) : Append(s, e)[i] = s[i]
  OBVIOUS

\* A nonempty sequence loses its head.
LEMMA SeqTail ==
  ASSUME NEW S, NEW s \in Seq(S), s # <<>>
  PROVE  /\ Tail(s) \in Seq(S)
         /\ Len(s) \in Nat \ {0}
         /\ Len(Tail(s)) = Len(s) - 1
         /\ Head(s) = s[1] /\ Head(s) \in S
         /\ \A i \in 1..Len(s) : s[i] \in S
         /\ \A i \in 1..Len(s) - 1 : Tail(s)[i] = s[i + 1]
         /\ Tail(s) = <<>> <=> Len(s) <= 1
  <1>1. Len(s) \in Nat \ {0}
    BY EmptySeq, LenProperties
  <1>2. /\ Head(s) \in S /\ Tail(s) \in Seq(S) /\ Len(Tail(s)) = Len(s) - 1
        /\ \A i \in 1..Len(Tail(s)) : Tail(s)[i] = s[i + 1]
    BY HeadTailProperties
  <1>3. Head(s) = s[1]
    OBVIOUS
  <1>4. \A i \in 1..Len(s) : s[i] \in S
    BY ElementOfSeq
  <1>5. Tail(s) = <<>> <=> Len(Tail(s)) = 0
    BY <1>2, EmptySeq
  <1> QED
    BY <1>1, <1>2, <1>3, <1>4, <1>5

\* The events of the engine are events.
LEMMA EventTypes ==
  /\ \A p, n \in Nat : \A w \in {"none", "stop", "length"} :
       Start(p) \in Event /\ Token(n) \in Event /\ Done(p, n, w) \in Event
  /\ Failed \in Event
  BY DEF Start, Token, Done, Failed, Event

\* What appending an event does to the order of a channel, and what taking one off.
LEMMA OrderAppend ==
  ASSUME NEW c \in Seq(Event), NEW e \in Event, NEW n \in Nat, NEW live \in BOOLEAN,
         InOrder(c, n, TRUE),
         e.kind = "start" => c = <<>>,
         e.kind = "token" => e.n = n + Len(c) + 1 - Started(c),
         Terminal(e) => ~live
  PROVE  /\ InOrder(Append(c, e), n, live)
         /\ e.kind = "start" => Len(Append(c, e)) = Started(Append(c, e))
         /\ e.kind = "token" => Started(Append(c, e)) = Started(c)
  <1> DEFINE d == Append(c, e)
  <1>1. /\ d \in Seq(Event) /\ Len(c) \in Nat /\ Len(d) = Len(c) + 1 /\ d # <<>>
        /\ d[Len(c) + 1] = e /\ \A i \in 1..Len(c) : d[i] = c[i]
    BY SeqAppend, LenProperties
  <1>2. Head(d) = d[1]
    BY <1>1, SeqTail
  <1>3. CASE c = <<>>
    <2>1. Len(c) = 0
      BY <1>3
    <2>2. Len(d) <= 1 /\ 1 <= Len(d) /\ d[1] = e
      BY <1>1, <2>1
    <2>3. \A i \in 1..Len(d) : i = 1 /\ d[i] = e
      BY <2>2
    <2>4. Started(c) = 0 /\ (Started(d) = IF e.kind = "start" THEN 1 ELSE 0)
      BY <1>1, <1>2, <1>3, <2>2 DEF Started
    <2>5. e.kind = "token" => e.n = n + 1
      BY <2>1, <2>4
    <2>6. InOrder(d, n, live)
      BY <2>2, <2>3, <2>4, <2>5, <1>3 DEF InOrder
    <2> QED
      BY <2>2, <2>4, <2>6
  <1>4. CASE c # <<>>
    <2>1. Len(c) \in Nat \ {0} /\ Head(c) = c[1]
      BY <1>4, SeqTail
    <2>2. Started(d) = Started(c) /\ Started(c) \in {0, 1}
      BY <1>1, <1>2, <1>4, <2>1 DEF Started
    <2>3. ASSUME NEW i \in 1..Len(d)
          PROVE  /\ d[i].kind = "start" => i = 1
                 /\ Terminal(d[i]) => i = Len(d) /\ ~live
                 /\ d[i].kind = "token" => d[i].n = n + i - Started(d)
      <3>1. CASE i = Len(c) + 1
        BY <3>1, <1>1, <1>4, <2>2
      <3>2. CASE i \in 1..Len(c)
        BY <3>2, <1>1, <2>2 DEF InOrder
      <3> QED
        BY <3>1, <3>2, <1>1
    <2> QED
      BY <2>2, <2>3, <1>4 DEF InOrder
  <1> QED
    BY <1>3, <1>4

\* Taking the head off: a token takes the count along, a terminal event is the last.
LEMMA OrderTail ==
  ASSUME NEW c \in Seq(Event), c # <<>>, NEW n \in Nat, NEW live \in BOOLEAN,
         InOrder(c, n, live)
  PROVE  /\ Head(c).kind = "token" =>
              /\ InOrder(Tail(c), n + 1, live) /\ Head(c).n = n + 1
              /\ Len(Tail(c)) - Started(Tail(c)) = Len(c) - Started(c) - 1
         /\ Head(c).kind = "start" =>
              /\ InOrder(Tail(c), n, live)
              /\ Len(Tail(c)) - Started(Tail(c)) = Len(c) - Started(c)
         /\ Terminal(Head(c)) => Tail(c) = <<>>
  <1> DEFINE d == Tail(c)
  <1>1. /\ d \in Seq(Event) /\ Len(c) \in Nat \ {0} /\ Len(d) = Len(c) - 1
        /\ Head(c) = c[1] /\ c[1] \in Event
        /\ \A i \in 1..Len(c) - 1 : d[i] = c[i + 1]
        /\ d = <<>> <=> Len(c) <= 1
    BY SeqTail
  <1> HIDE DEF d
  <1>2. Started(d) = 0
    <2>1. CASE d # <<>>
      <3>1. Head(d) = d[1] /\ 2 \in 1..Len(c) /\ d[1] = c[2]
        BY <2>1, <1>1, SeqTail
      <3> QED
        BY <3>1 DEF InOrder, Started
    <2> QED
      BY <2>1 DEF Started
  <1>3. /\ Terminal(c[1]) => d = <<>>
        /\ c[1].kind = "token" => c[1].n = n + 1 - Started(c)
    <2>1. 1 \in 1..Len(c)
      BY <1>1
    <2>2. Terminal(c[1]) => Len(c) <= 1
      BY <2>1 DEF InOrder
    <2>3. c[1].kind = "token" => c[1].n = n + 1 - Started(c)
      BY <2>1 DEF InOrder
    <2> QED
      BY <2>2, <2>3, <1>1
  <1>4. ASSUME NEW i \in 1..Len(d)
        PROVE  /\ d[i].kind # "start"
               /\ Terminal(d[i]) => i = Len(d) /\ ~live
               /\ d[i].kind = "token" => d[i].n = n + i + 1 - Started(c)
    <2>1. i + 1 \in 1..Len(c) /\ d[i] = c[i + 1] /\ i \in Nat /\ i + 1 # 1
      BY <1>1
    <2>2. /\ c[i + 1].kind # "start"
          /\ Terminal(c[i + 1]) => i + 1 = Len(c) /\ ~live
          /\ c[i + 1].kind = "token" => c[i + 1].n = n + (i + 1) - Started(c)
      BY <2>1 DEF InOrder
    <2>3. Started(c) \in Int
      BY DEF Started
    <2> QED
      BY <2>1, <2>2, <2>3, <1>1
  <1>5. CASE c[1].kind = "token"
    <2>1. Started(c) = 0
      BY <1>1, <1>5 DEF Started
    <2>2. InOrder(d, n + 1, live)
      BY <1>1, <1>2, <1>4, <2>1 DEF InOrder
    <2>3. c[1].n = n + 1 /\ Len(d) - Started(d) = Len(c) - Started(c) - 1
      BY <1>1, <1>2, <1>3, <1>5, <2>1
    <2> QED
      BY <1>1, <1>5, <2>2, <2>3 DEF d, Terminal
  <1>6. CASE c[1].kind = "start"
    <2>1. Started(c) = 1
      BY <1>1, <1>6 DEF Started
    <2>2. InOrder(d, n, live)
      BY <1>1, <1>2, <1>4, <2>1 DEF InOrder
    <2>3. Len(d) - Started(d) = Len(c) - Started(c)
      BY <1>1, <1>2, <2>1
    <2> QED
      BY <1>1, <1>6, <2>2, <2>3 DEF d, Terminal
  <1> QED
    BY <1>1, <1>3, <1>5, <1>6 DEF Terminal, d

\* The frames of the handlers are frames.
LEMMA FrameTypes ==
  /\ \A k \in {"role", "seg", "finish", "usage", "done", "error", "body", "bad", "busy"} :
       Plain(k) \in Frame /\ Plain(k).kind = k
  /\ \A lo, hi \in Nat : Segment(lo, hi) \in Frame /\ Segment(lo, hi).kind = "seg"
  /\ \A p, n, hi \in Nat : \A w \in {"none", "stop", "length"} :
       /\ Finish(w) \in Frame /\ Finish(w).kind = "finish"
       /\ FinishWith(w, p, n) \in Frame /\ FinishWith(w, p, n).kind = "finish"
       /\ UsageOf(p, n) \in Frame /\ UsageOf(p, n).kind = "usage"
       /\ Body(hi, w, p, n) \in Frame
  <1>1. \A k \in {"role", "seg", "finish", "usage", "done", "error", "body", "bad", "busy"} :
          Plain(k) \in Frame /\ Plain(k).kind = k
    BY DEF Plain, Frame
  <1>2. \A lo, hi \in Nat : Segment(lo, hi) \in Frame /\ Segment(lo, hi).kind = "seg"
    BY DEF Plain, Segment, Frame
  <1>3. \A w \in {"none", "stop", "length"} : Finish(w) \in Frame /\ Finish(w).kind = "finish"
    BY DEF Plain, Finish, Frame
  <1>4. \A p, n \in Nat : UsageOf(p, n) \in Frame /\ UsageOf(p, n).kind = "usage"
    BY DEF Plain, UsageOf, Frame
  <1>5. \A p, n \in Nat : \A w \in {"none", "stop", "length"} :
          FinishWith(w, p, n) \in Frame /\ FinishWith(w, p, n).kind = "finish"
    BY <1>3 DEF FinishWith, Frame
  <1>6. \A p, n, hi \in Nat : \A w \in {"none", "stop", "length"} : Body(hi, w, p, n) \in Frame
    BY DEF Body, FinishWith, Finish, Plain, Frame
  <1> QED
    BY <1>1, <1>2, <1>3, <1>4, <1>5, <1>6

\* A request that passes the checks of run_request fits the context limit.
LEMMA BudgetType ==
  ASSUME NEW p \in Profiles, ~UserError(p)
  PROVE  Budget(p) \in Nat /\ p.prompt \in Nat /\ p.prompt + Budget(p) <= TMax
  BY ChannelsAssumption DEF Profile, UserError, Budget
-----------------------------------------------------------------------------
(***************************************************************************)
(* The inductive invariant. A step changes at most one slot; Same(q) says  *)
(* that slot q keeps all the invariant speaks of.                          *)
(***************************************************************************)
Same(q) ==
  /\ tx'[q] = tx[q] /\ rx'[q] = rx[q] /\ chan'[q] = chan[q]
  /\ client'[q] = "idle" <=> client[q] = "idle"
  /\ hpc'[q] = hpc[q] /\ pend'[q] = pend[q] /\ ctoks'[q] = ctoks[q]

\* What r's channel took is read off the channel and the count.
LEMMA TakenKept ==
  ASSUME NEW q, chan'[q] = chan[q], ctoks'[q] = ctoks[q]
  PROVE  Taken(q)' = Taken(q)
  BY DEF Taken, Started

\* A slot a step does not touch keeps its invariants.
LEMMA SlotKept ==
  ASSUME NEW q \in Requests, SlotInv(q), ChanInv(q), Same(q),
         Queued(q)' => Queued(q),
         cur' = q <=> cur = q,
         cur = q => UNCHANGED <<epc, completion, filled>> /\ req'[q].prompt = req[q].prompt
  PROVE  SlotInv(q)' /\ ChanInv(q)'
  <1>1. SlotInv(q)'
    BY DEF SlotInv, Same
  <1>2. Waiting(q)' = Waiting(q) /\ Victim(q)' = Victim(q)
    BY DEF Same, Waiting, Victim
  <1>3. Taken(q)' = Taken(q)
    BY TakenKept DEF Same
  <1>4. ChanInv(q)'
    BY <1>2, <1>3 DEF ChanInv, Same
  <1> QED
    BY <1>1, <1>4

\* The types of the state, by the part of the invariant an argument needs.
LEMMA QueueTypes ==
  ASSUME IndInv
  PROVE  /\ queue \in Seq(Requests) /\ Len(queue) \in Nat /\ Len(queue) <= QueueCap
         /\ QueueCap \in Nat \ {0}
         /\ tx \in [Requests -> BOOLEAN] /\ rx \in [Requests -> BOOLEAN]
         /\ proc \in {"up", "draining", "exited"}
  BY ChannelsAssumption, LenProperties DEF IndInv, TypeOK, ChannelsTypeOK, QueueCap

\* The types of what a request slot shares.
LEMMA ChanTypes ==
  ASSUME IndInv
  PROVE  /\ chan \in [Requests -> Seq(Event)] /\ frames \in [Requests -> Seq(Frame)]
         /\ \A r \in Requests : Len(chan[r]) <= ChanCap /\ Len(frames[r]) <= FrameCap
         /\ wire \in [Requests -> Seq(Frame)]
         /\ client \in [Requests -> {"idle", "open", "closed", "gone", "lost"}]
         /\ req \in [Requests -> Profiles]
         /\ ChanCap \in Nat \ {0} /\ FrameCap \in Nat \ {0}
  BY ChannelsAssumption DEF IndInv, TypeOK, ChannelsTypeOK

\* The types of the engine thread.
LEMMA EngineTypes ==
  ASSUME IndInv
  PROVE  /\ cur \in Requests \cup {NoReq} /\ NoReq \notin Requests
         /\ maxEff \in Nat /\ completion \in Nat /\ filled \in Nat
         /\ epc \in {"idle", "start", "step", "push", "done", "error", "panicked"}
         /\ finish \in {"none", "stop", "length"}
  BY ChannelsAssumption DEF IndInv, TypeOK, EngineTypeOK

\* The types of the handler tasks.
LEMMA HandlerTypes ==
  ASSUME IndInv
  PROVE  /\ hpc \in [Requests -> {"idle", "recv", "send", "end"}]
         /\ pend \in [Requests -> Seq(Frame)]
         /\ ptoks \in [Requests -> Nat] /\ ctoks \in [Requests -> Nat]
         /\ out \in [Requests -> Nat]
  BY DEF IndInv, TypeOK, HandlersTypeOK

\* The initial states satisfy the inductive invariant.
LEMMA InitInv == Init => IndInv
  <1> SUFFICES ASSUME Init PROVE IndInv
    OBVIOUS
  <1> USE DEF Init, ChannelsInit, EngineInit, HandlersInit
  <1>1. TypeOK
    <2>1. NoProfile \in Profiles
      BY ChannelsAssumption DEF NoProfile
    <2>2. ChannelsTypeOK
      <3>1. QueueCap \in Nat /\ 0 <= QueueCap
        BY ChannelsAssumption DEF QueueCap
      <3> QED
        BY <2>1, <3>1, ChannelsAssumption DEF ChannelsTypeOK
    <2>3. EngineTypeOK /\ HandlersTypeOK
      BY DEF EngineTypeOK, HandlersTypeOK
    <2> QED
      BY <2>2, <2>3 DEF TypeOK
  <1>2. SenderOwned
    BY ChannelsAssumption DEF SenderOwned, Queued
  <1>3. EngineInv
    BY DEF EngineInv
  <1>4. \A r \in Requests : SlotInv(r) /\ ChanInv(r)
    BY ChannelsAssumption DEF SlotInv, ChanInv, Queued, Waiting, Terminal
  <1> QED
    BY <1>1, <1>2, <1>3, <1>4 DEF IndInv
-----------------------------------------------------------------------------
(***************************************************************************)
(* The steps of the engine thread.                                         *)
(***************************************************************************)

\* Taking a request off the queue keeps the queue's order and its uniqueness.
LEMMA EngineRecvInv ==
  ASSUME IndInv, EngineRecv, UNCHANGED handlerVars
  PROVE  IndInv'
  <1> DEFINE r == Head(queue)
  <1>1. /\ queue \in Seq(Requests) /\ queue # <<>> /\ epc = "idle" /\ cur = NoReq
        /\ queue' = Tail(queue)
    BY DEF IndInv, TypeOK, ChannelsTypeOK, EngineRecv, EngineInv
  <1>2. /\ r = queue[1] /\ r \in Requests /\ Queued(r) /\ r # cur
        /\ queue' \in Seq(Requests) /\ Len(queue) \in Nat \ {0} /\ Len(queue') = Len(queue) - 1
        /\ \A i \in 1..Len(queue) - 1 : queue'[i] = queue[i + 1]
    BY <1>1, SeqTail, ChannelsAssumption DEF Queued
  <1>3. \A q \in Requests : Queued(q)' <=> Queued(q) /\ q # r
    <2>1. \A q \in Requests : Queued(q)' => Queued(q) /\ q # r
      BY <1>2 DEF Queued, IndInv, SenderOwned
    <2>2. \A q \in Requests : Queued(q) /\ q # r => Queued(q)'
      <3> SUFFICES ASSUME NEW q \in Requests, q # r, NEW i \in 1..Len(queue), queue[i] = q
                   PROVE  Queued(q)'
        BY DEF Queued
      <3>1. i - 1 \in 1..Len(queue)' /\ queue'[i - 1] = queue[i]
        BY <1>2
      <3> QED
        BY <3>1 DEF Queued
    <2> QED
      BY <2>1, <2>2
  <1>4. /\ completion' = 0 /\ completion = 0 /\ filled' = 0 /\ filled = 0 /\ finish' = finish
        /\ UNCHANGED <<chan, proc, req, rx, frames, client, wire>>
        /\ UNCHANGED <<hpc, pend, ptoks, ctoks, out>>
    BY <1>1 DEF EngineRecv, EngineKeeps, engineVars, handlerVars, IndInv, EngineInv
  <1>5. \/ ~rx[r] /\ tx' = [tx EXCEPT ![r] = FALSE] /\ cur' = NoReq /\ epc' = "idle"
           /\ maxEff' = maxEff
        \/ rx[r] /\ tx' = tx /\ UserError(req[r]) /\ cur' = r /\ epc' = "error"
           /\ maxEff' = maxEff
        \/ rx[r] /\ tx' = tx /\ ~UserError(req[r]) /\ cur' = r /\ epc' = "start"
           /\ maxEff' = Budget(req[r])
    BY <1>1 DEF EngineRecv, engineVars
  <1>6. TypeOK'
    <2>1. maxEff' \in Nat
      <3>1. req[r] \in Profiles
        BY <1>2, ChanTypes
      <3> QED
        BY <3>1, <1>5, EngineTypes, BudgetType
    <2>2. EngineTypeOK'
      BY <2>1, <1>2, <1>4, <1>5, EngineTypes DEF EngineTypeOK
    <2>3. HandlersTypeOK'
      BY <1>4, HandlerTypes DEF HandlersTypeOK
    <2>4. tx' \in [Requests -> BOOLEAN]
      BY <1>2, <1>5, QueueTypes
    <2>5. Len(queue') <= QueueCap
      BY <1>2, QueueTypes
    <2>6. ChannelsTypeOK'
      BY <1>2, <1>4, <2>4, <2>5, QueueTypes, ChanTypes DEF ChannelsTypeOK, QueueCap
    <2> QED
      BY <2>2, <2>3, <2>6 DEF TypeOK
  <1>7. SenderOwned'
    <2>1. \A q \in Requests : tx'[q] <=> Queued(q)' \/ (cur' = q /\ epc' # "panicked")
      <3>1. \A q \in Requests : q # r => tx'[q] = tx[q]
        BY <1>2, <1>5, QueueTypes
      <3>2. tx[r] /\ (tx'[r] <=> cur' = r) /\ (cur' = r => epc' # "panicked")
        BY <1>2, <1>5, QueueTypes, EngineTypes DEF IndInv, SenderOwned
      <3>3. \A q \in Requests : q # r => cur' # q /\ cur # q
        BY <1>1, <1>2, <1>5, EngineTypes
      <3> QED
        BY <1>2, <1>3, <3>1, <3>2, <3>3 DEF IndInv, SenderOwned
    <2>2. \A q \in Requests : Queued(q)' => cur' # q
      BY <1>2, <1>3, <1>5, EngineTypes
    <2>3. \A i, j \in 1..Len(queue)' : i # j => queue'[i] # queue'[j]
      BY <1>2 DEF IndInv, SenderOwned
    <2> QED
      BY <2>1, <2>2, <2>3 DEF SenderOwned
  <1>8. EngineInv'
    <2>1. CASE cur' = r /\ epc' = "start"
      <3>1. ~UserError(req[r]) /\ maxEff' = Budget(req[r])
        BY <2>1, <1>5
      <3>2. Budget(req[r]) \in Nat /\ req[r].prompt \in Nat
        BY <1>2, <3>1, ChanTypes, BudgetType
      <3> QED
        BY <2>1, <3>1, <3>2, <1>2, <1>4, EngineTypes DEF EngineInv
    <2>2. CASE epc' \in {"idle", "error"}
      BY <2>2, <1>2, <1>4, <1>5, EngineTypes DEF EngineInv
    <2> QED
      BY <2>1, <2>2, <1>5
  <1>9. ASSUME NEW q \in Requests PROVE SlotInv(q)' /\ ChanInv(q)'
    <2>0. SlotInv(q) /\ ChanInv(q)
      BY DEF IndInv
    <2>1. CASE q # r
      <3>1. Same(q)
        BY <2>1, <1>2, <1>4, <1>5, QueueTypes DEF Same
      <3>2. cur' # q /\ cur # q
        BY <2>1, <1>1, <1>2, <1>5, EngineTypes
      <3> QED
        BY <2>0, <2>1, <3>1, <3>2, <1>3, SlotKept
    <2>2. CASE q = r
      <3>1. tx[q] /\ client[q] # "idle" /\ (rx[q] => tx'[q] /\ cur' = q)
        BY <2>0, <2>2, <1>2, <1>5 DEF IndInv, SenderOwned, SlotInv
      <3>2. SlotInv(q)'
        BY <2>0, <2>2, <3>1, <1>4 DEF SlotInv
      <3>3. chan[q] = <<>> /\ ctoks[q] = 0
        BY <2>0, <2>2, <1>2 DEF ChanInv
      <3>4. (Waiting(q) => rx[q]) /\ Waiting(q)' = Waiting(q)
        BY <2>0, <2>2, <1>4 DEF Waiting, SlotInv
      <3>5. epc' \notin {"step", "push", "done"}
        BY <2>2, <1>5
      <3>6. Len(<<>>) = 0 /\ rx'[q] = rx[q] /\ chan'[q] = chan[q] /\ ctoks'[q] = ctoks[q]
        BY <1>4
      <3>7. ChanInv(q)'
        BY <3>6, <3>1, <3>3, <3>4, <3>5 DEF ChanInv, InOrder
      <3> QED
        BY <3>2, <3>7
    <2> QED
      BY <2>1, <2>2
  <1> QED
    BY <1>6, <1>7, <1>8, <1>9 DEF IndInv

\* The request the engine runs: no longer queued, its slot in use, its sender live.
LEMMA CurRuns ==
  ASSUME IndInv, epc # "idle"
  PROVE  /\ cur \in Requests /\ ~Queued(cur) /\ client[cur] # "idle"
         /\ tx[cur] <=> epc # "panicked"
         /\ req[cur] \in Profiles
         /\ epc # "error" => req[cur].prompt \in Nat
  <1>1. cur \in Requests
    BY EngineTypes DEF IndInv, EngineInv
  <1>2. req[cur] \in Profiles
    BY <1>1, ChanTypes
  <1>3. epc # "error" => req[cur].prompt \in Nat
    BY <1>2, BudgetType DEF IndInv, EngineInv
  <1> QED
    BY <1>1, <1>2, <1>3 DEF IndInv, SenderOwned, SlotInv

\* Senders stay where they are as long as no request starts, ends or panics.
LEMMA OwnedKept ==
  ASSUME IndInv, UNCHANGED <<queue, tx, cur>>, epc' = "panicked" <=> epc = "panicked"
  PROVE  SenderOwned' /\ \A q \in Requests : Queued(q)' <=> Queued(q)
  <1>1. \A q \in Requests : Queued(q)' <=> Queued(q)
    BY DEF Queued
  <1> QED
    BY <1>1 DEF IndInv, SenderOwned

\* A send appends the event, or nothing to a closed channel.
LEMMA SentFacts ==
  ASSUME IndInv, NEW r \in Requests, NEW e \in Event, CanSend(r)
  PROVE  /\ Sent(r, e) \in [Requests -> Seq(Event)]
         /\ \A q \in Requests : Len(Sent(r, e)[q]) <= ChanCap
         /\ \A q \in Requests : q # r => Sent(r, e)[q] = chan[q]
         /\ rx[r] => Sent(r, e)[r] = Append(chan[r], e)
         /\ ~rx[r] => Sent(r, e)[r] = chan[r]
  <1>1. CASE ~rx[r]
    BY <1>1, ChanTypes DEF Sent
  <1>2. CASE rx[r]
    <2>1. chan[r] \in Seq(Event) /\ Len(chan[r]) \in Nat /\ Len(chan[r]) < ChanCap
      BY <1>2, ChanTypes, LenProperties DEF CanSend, HasRoom
    <2>2. Append(chan[r], e) \in Seq(Event) /\ Len(Append(chan[r], e)) = Len(chan[r]) + 1
      BY <2>1, SeqAppend
    <2>3. Sent(r, e) = [chan EXCEPT ![r] = Append(chan[r], e)]
      BY <1>2 DEF Sent
    <2> QED
      BY <1>2, <2>1, <2>2, <2>3, ChanTypes
  <1> QED
    BY <1>1, <1>2

\* The types of a step that only touches the engine's state, a sender and a channel.
LEMMA EngineStepTypes ==
  ASSUME IndInv, EngineTypeOK', UNCHANGED <<queue, proc>>, EngineKeeps, UNCHANGED handlerVars,
         tx' \in [Requests -> BOOLEAN], chan' \in [Requests -> Seq(Event)],
         \A q \in Requests : Len(chan'[q]) <= ChanCap
  PROVE  TypeOK'
  <1>1. HandlersTypeOK'
    BY HandlerTypes DEF HandlersTypeOK, handlerVars
  <1>2. ChannelsTypeOK'
    BY QueueTypes, ChanTypes DEF ChannelsTypeOK, EngineKeeps, QueueCap
  <1> QED
    BY <1>1, <1>2 DEF TypeOK

\* Start is the first event of a channel that was empty.
LEMMA EngineStartInv ==
  ASSUME IndInv, EngineStart, UNCHANGED handlerVars
  PROVE  IndInv'
  <1> DEFINE e == Start(req[cur].prompt)
  <1>1. /\ epc = "start" /\ epc' = "step" /\ CanSend(cur) /\ chan' = Sent(cur, e)
        /\ UNCHANGED <<queue, tx, proc, cur, maxEff, completion, filled, finish>>
        /\ EngineKeeps /\ UNCHANGED <<req, rx, frames, client, wire>>
        /\ UNCHANGED <<hpc, pend, ptoks, ctoks, out>>
    BY DEF EngineStart, EngineKeeps, handlerVars
  <1>2. /\ cur \in Requests /\ ~Queued(cur) /\ client[cur] # "idle" /\ tx[cur]
        /\ req[cur].prompt \in Nat
    BY <1>1, CurRuns
  <1>3. e \in Event /\ e.kind = "start"
    BY <1>2, EventTypes DEF Start
  <1>4. /\ chan' \in [Requests -> Seq(Event)] /\ \A q \in Requests : Len(chan'[q]) <= ChanCap
        /\ \A q \in Requests : q # cur => chan'[q] = chan[q]
        /\ rx[cur] => chan'[cur] = Append(chan[cur], e)
        /\ ~rx[cur] => chan'[cur] = chan[cur]
    BY <1>1, <1>2, <1>3, SentFacts
  <1>5. TypeOK'
    <2>1. EngineTypeOK'
      BY <1>1, <1>2, EngineTypes DEF EngineTypeOK
    <2> QED
      BY <1>1, <1>4, <2>1, QueueTypes, EngineStepTypes
  <1>6. SenderOwned' /\ \A q \in Requests : Queued(q)' <=> Queued(q)
    BY <1>1, OwnedKept
  <1>7. EngineInv'
    BY <1>1, <1>2, EngineTypes DEF IndInv, EngineInv
  <1>8. ASSUME NEW q \in Requests PROVE SlotInv(q)' /\ ChanInv(q)'
    <2>0. SlotInv(q) /\ ChanInv(q)
      BY DEF IndInv
    <2>1. CASE q # cur
      BY <2>0, <2>1, <1>1, <1>4, <1>6, SlotKept DEF Same
    <2>2. CASE q = cur
      <3>1. SlotInv(q)'
        BY <2>0, <2>2, <1>1, <1>2 DEF SlotInv
      <3>2. chan[q] = <<>> /\ ctoks[q] = 0 /\ completion = 0
        BY <2>0, <2>2, <1>1 DEF ChanInv, IndInv, EngineInv
      <3>3. rx[q] => /\ InOrder(chan'[q], ctoks'[q], tx'[q])
                     /\ Len(chan'[q]) = Started(chan'[q])
        <4> SUFFICES ASSUME rx[q] PROVE InOrder(Append(chan[q], e), ctoks[q], tx[q])
                                        /\ Len(Append(chan[q], e)) = Started(Append(chan[q], e))
          BY <1>1, <1>4, <2>2
        <4>1. chan[q] \in Seq(Event) /\ tx[q] \in BOOLEAN /\ ctoks[q] \in Nat
          BY ChanTypes, QueueTypes, HandlerTypes
        <4>2. InOrder(chan[q], ctoks[q], TRUE)
          BY <3>2 DEF InOrder
        <4> QED
          BY <3>2, <4>1, <4>2, <1>3, OrderAppend DEF Terminal
      <3>4. rx'[q] = rx[q] /\ tx'[q] /\ ctoks'[q] = ctoks[q] /\ ~Queued(q)'
        BY <2>2, <1>1, <1>2, <1>6
      <3>5. chan'[q] \in Seq(Event) /\ Len(chan'[q]) \in Nat
        BY <1>4, LenProperties
      <3>6. completion' = Taken(q)'
        <4>1. Started(chan'[q]) \in Int
          BY DEF Started
        <4>2. completion' = completion /\ ctoks'[q] = ctoks[q] /\ rx'[q] = rx[q]
          BY <3>4, <1>1
        <4>3. Len(chan'[q]) = Started(chan'[q])
          <5>1. ~rx[q] => chan'[q] = <<>>
            BY <3>2, <2>2, <1>4
          <5> QED
            BY <3>3, <5>1 DEF Started
        <4> QED
          BY <3>2, <4>3, <3>5, <4>1, <4>2 DEF Taken
      <3>8. ChanInv(q)'
        BY <3>3, <3>4, <3>6, <1>1 DEF ChanInv
      <3> QED
        BY <3>1, <3>8
    <2> QED
      BY <2>1, <2>2
  <1> QED
    BY <1>5, <1>6, <1>7, <1>8 DEF IndInv

\* A channel without a terminal event is in order whether or not its sender lives.
LEMMA OrderLive ==
  ASSUME NEW c, NEW n, InOrder(c, n, TRUE)
  PROVE  \A live \in BOOLEAN : InOrder(c, n, live)
  BY DEF InOrder

\* The budget check and the sampling touch no channel.
LEMMA EngineStepInv ==
  ASSUME IndInv, EngineStep, UNCHANGED handlerVars
  PROVE  IndInv'
  <1>1. /\ epc = "step" /\ epc' \in {"push", "done"} /\ completion' \in {completion, completion + 1}
        /\ epc' = "push" => completion' = completion /\ completion < maxEff
        /\ completion' <= maxEff \/ completion' = completion
        /\ epc' = "done" => \/ (completion' = completion /\ completion >= maxEff)
                            \/ completion' = completion + 1
        /\ filled' = Forwarded /\ finish' \in {finish, "stop", "length"}
        /\ UNCHANGED <<queue, tx, chan, proc, cur, maxEff>> /\ EngineKeeps
        /\ UNCHANGED <<req, rx, frames, client, wire>>
        /\ UNCHANGED <<hpc, pend, ptoks, ctoks, out>>
    BY EngineTypes DEF EngineStep, EngineKeeps, handlerVars
  <1>2. /\ cur \in Requests /\ ~Queued(cur) /\ tx[cur] /\ req[cur].prompt \in Nat
    BY <1>1, CurRuns
  <1>3. completion' \in Nat /\ completion <= completion'
    BY <1>1, EngineTypes
  <1>f. /\ filled' = req[cur].prompt + completion /\ filled' \in Nat
        /\ req[cur].prompt <= filled' /\ completion = Taken(cur)
    <2>1. filled = IF completion = 0 THEN 0 ELSE req[cur].prompt + completion - 1
      BY <1>1 DEF IndInv, EngineInv
    <2>2. req[cur].prompt # 0
      BY <1>1 DEF IndInv, EngineInv, UserError
    <2>3. completion = Taken(cur)
      BY <1>1, <1>2 DEF IndInv, ChanInv
    <2> QED
      BY <2>1, <2>2, <2>3, <1>1, <1>2, EngineTypes DEF Forwarded
  <1>4. TypeOK'
    <2>1. EngineTypeOK'
      BY <1>1, <1>3, <1>f, EngineTypes DEF EngineTypeOK
    <2> QED
      BY <1>1, <2>1, QueueTypes, ChanTypes, EngineStepTypes
  <1>5. SenderOwned' /\ \A q \in Requests : Queued(q)' <=> Queued(q)
    BY <1>1, OwnedKept
  <1>6. EngineInv'
    <2>1. /\ cur # NoReq /\ ~UserError(req[cur]) /\ maxEff = Budget(req[cur])
          /\ completion <= maxEff
      BY <1>1, <1>2, EngineTypes DEF IndInv, EngineInv
    <2> QED
      BY <1>1, <1>2, <1>3, <1>f, <2>1, EngineTypes DEF EngineInv
  <1>7. ASSUME NEW q \in Requests PROVE SlotInv(q)' /\ ChanInv(q)'
    <2>0. SlotInv(q) /\ ChanInv(q)
      BY DEF IndInv
    <2>1. CASE q # cur
      BY <2>0, <2>1, <1>1, <1>5, SlotKept DEF Same
    <2>2. CASE q = cur
      <3>1. SlotInv(q)'
        BY <2>0, <2>2, <1>1 DEF SlotInv
      <3>2. Taken(q)' = Taken(q)
        BY <1>1, TakenKept
      <3>3. filled' - req'[q].prompt = Taken(q)' /\ (epc' = "push" => completion' = Taken(q)')
        BY <2>2, <1>1, <1>2, <1>f, <3>2, EngineTypes
      <3>4. ChanInv(q)'
        BY <2>0, <2>2, <1>1, <1>2, <1>5, <3>3 DEF ChanInv
      <3> QED
        BY <3>1, <3>4
    <2> QED
      BY <2>1, <2>2
  <1> QED
    BY <1>4, <1>5, <1>6, <1>7 DEF IndInv

\* A release ends the life of the running request's sender and of nothing else.
LEMMA ReleaseFacts ==
  ASSUME IndInv, epc \notin {"idle", "panicked"}, Release(cur), UNCHANGED queue
  PROVE  /\ EngineTypeOK' /\ EngineInv' /\ SenderOwned'
         /\ tx' \in [Requests -> BOOLEAN] /\ ~tx'[cur]
         /\ \A q \in Requests : Queued(q)' <=> Queued(q)
         /\ \A q \in Requests : q # cur => tx'[q] = tx[q]
         /\ \A q \in Requests : cur' # q
         /\ epc' = "idle"
  <1>1. cur \in Requests /\ ~Queued(cur)
    BY CurRuns
  <1>2. /\ tx' = [tx EXCEPT ![cur] = FALSE] /\ cur' = NoReq /\ epc' = "idle"
        /\ maxEff' = 0 /\ completion' = 0 /\ filled' = 0 /\ finish' = "none"
    BY DEF Release
  <1>3. /\ tx' \in [Requests -> BOOLEAN] /\ ~tx'[cur]
        /\ \A q \in Requests : q # cur => tx'[q] = tx[q]
    BY <1>1, <1>2, QueueTypes
  <1>4. \A q \in Requests : Queued(q)' <=> Queued(q)
    BY DEF Queued
  <1>5. \A q \in Requests : cur' # q
    BY <1>2, EngineTypes
  <1>6. SenderOwned'
    BY <1>1, <1>2, <1>3, <1>4, <1>5 DEF IndInv, SenderOwned
  <1>7. EngineTypeOK' /\ EngineInv'
    BY <1>2 DEF EngineTypeOK, EngineInv
  <1> QED
    BY <1>2, <1>3, <1>4, <1>5, <1>6, <1>7

\* The terminal event is the last of its channel, and the channel closes with it.
LEMMA EngineFinishInv ==
  ASSUME IndInv, EngineFinish, UNCHANGED handlerVars
  PROVE  IndInv'
  <1> DEFINE e == IF epc = "error" THEN Failed ELSE Done(req[cur].prompt, completion, finish)
  <1>1. /\ epc \in {"done", "error"} /\ CanSend(cur) /\ chan' = Sent(cur, e)
        /\ Release(cur) /\ UNCHANGED <<queue, proc>> /\ EngineKeeps
        /\ UNCHANGED <<req, rx, frames, client, wire>>
        /\ UNCHANGED <<hpc, pend, ptoks, ctoks, out>>
    BY DEF EngineFinish, EngineKeeps, handlerVars
  <1>2. cur \in Requests /\ ~Queued(cur) /\ tx[cur] /\ client[cur] # "idle"
    BY <1>1, CurRuns
  <1>3. e \in Event /\ Terminal(e) /\ e.kind \notin {"start", "token"}
    <2>1. CASE epc = "error"
      BY <2>1, EventTypes DEF Failed, Terminal
    <2>2. CASE epc = "done"
      <3>1. req[cur].prompt \in Nat
        BY <2>2, CurRuns
      <3> QED
        BY <2>2, <3>1, EventTypes, EngineTypes DEF Done, Terminal
    <2> QED
      BY <1>1, <2>1, <2>2
  <1> HIDE DEF e
  <1>4. /\ chan' \in [Requests -> Seq(Event)] /\ \A q \in Requests : Len(chan'[q]) <= ChanCap
        /\ \A q \in Requests : q # cur => chan'[q] = chan[q]
        /\ rx[cur] => chan'[cur] = Append(chan[cur], e)
    BY <1>1, <1>2, <1>3, SentFacts
  <1>5. /\ EngineTypeOK' /\ EngineInv' /\ SenderOwned'
        /\ tx' \in [Requests -> BOOLEAN] /\ ~tx'[cur]
        /\ \A q \in Requests : Queued(q)' <=> Queued(q)
        /\ \A q \in Requests : q # cur => tx'[q] = tx[q]
        /\ \A q \in Requests : cur' # q
    BY <1>1, ReleaseFacts
  <1>6. TypeOK'
    BY <1>1, <1>4, <1>5, EngineStepTypes
  <1>7. ASSUME NEW q \in Requests PROVE SlotInv(q)' /\ ChanInv(q)'
    <2>0. SlotInv(q) /\ ChanInv(q)
      BY DEF IndInv
    <2>1. CASE q # cur
      BY <2>0, <2>1, <1>1, <1>4, <1>5, SlotKept DEF Same
    <2>2. CASE q = cur
      <3>1. SlotInv(q)'
        BY <2>0, <2>2, <1>1, <1>2, <1>5 DEF SlotInv
      <3>2. chan[q] \in Seq(Event) /\ ctoks[q] \in Nat
        BY ChanTypes, HandlerTypes
      <3>3. rx[q] => InOrder(chan[q], ctoks[q], TRUE)
        BY <2>0, <2>2, <1>2 DEF ChanInv
      <3>4. rx[q] => InOrder(Append(chan[q], e), ctoks[q], FALSE)
        BY <3>2, <3>3, <1>3, OrderAppend
      <3>5. rx[q] => /\ chan'[q] # <<>> /\ Terminal(chan'[q][Len(chan'[q])])
                     /\ InOrder(chan'[q], ctoks'[q], tx'[q])
        <4>1. rx[q] => InOrder(chan'[q], ctoks'[q], tx'[q])
          BY <3>4, <2>2, <1>1, <1>4, <1>5
        <4>2. LET d == Append(chan[q], e) IN d # <<>> /\ d[Len(d)] = e
          BY <3>2, <1>3, SeqAppend
        <4> QED
          BY <4>1, <4>2, <2>2, <1>3, <1>4
      <3>6. Waiting(q)' => rx[q]
        BY <2>0, <1>1 DEF Waiting, SlotInv
      <3>7. ChanInv(q)'
        BY <2>2, <1>1, <1>2, <1>5, <3>5, <3>6 DEF ChanInv
      <3> QED
        BY <3>1, <3>7
    <2> QED
      BY <2>1, <2>2
  <1> QED
    BY <1>5, <1>6, <1>7 DEF IndInv

\* The next token follows all those still in the channel and all those counted.
LEMMA EnginePushInv ==
  ASSUME IndInv, EnginePush, UNCHANGED handlerVars
  PROVE  IndInv'
  <1> DEFINE e == Token(completion + 1)
  <1>1. /\ epc = "push" /\ CanSend(cur) /\ chan' = Sent(cur, e)
        /\ UNCHANGED <<queue, proc>> /\ EngineKeeps
        /\ UNCHANGED <<req, rx, frames, client, wire>>
        /\ UNCHANGED <<hpc, pend, ptoks, ctoks, out>>
    BY DEF EnginePush, EngineKeeps, handlerVars
  <1>2. /\ cur \in Requests /\ ~Queued(cur) /\ tx[cur] /\ client[cur] # "idle"
        /\ req[cur].prompt \in Nat
    BY <1>1, CurRuns
  <1>3. e \in Event /\ e.kind = "token" /\ e.n = completion + 1 /\ ~Terminal(e)
    BY EventTypes, EngineTypes DEF Token, Terminal
  <1> HIDE DEF e
  <1>4. /\ chan' \in [Requests -> Seq(Event)] /\ \A q \in Requests : Len(chan'[q]) <= ChanCap
        /\ \A q \in Requests : q # cur => chan'[q] = chan[q]
        /\ rx[cur] => chan'[cur] = Append(chan[cur], e)
        /\ ~rx[cur] => chan'[cur] = chan[cur]
    BY <1>1, <1>2, <1>3, SentFacts
  <1>5. CASE ~rx[cur]
    <2>1. Release(cur)
      BY <1>5 DEF EnginePush
    <2>2. /\ EngineTypeOK' /\ EngineInv' /\ SenderOwned'
          /\ tx' \in [Requests -> BOOLEAN]
          /\ \A q \in Requests : Queued(q)' <=> Queued(q)
          /\ \A q \in Requests : q # cur => tx'[q] = tx[q]
          /\ \A q \in Requests : cur' # q
      BY <1>1, <2>1, ReleaseFacts
    <2>3. TypeOK'
      BY <1>1, <1>4, <2>2, EngineStepTypes
    <2>4. ASSUME NEW q \in Requests PROVE SlotInv(q)' /\ ChanInv(q)'
      <3>0. SlotInv(q) /\ ChanInv(q)
        BY DEF IndInv
      <3>1. CASE q # cur
        BY <3>0, <3>1, <1>1, <1>4, <2>2, SlotKept DEF Same
      <3>2. CASE q = cur
        <4>1. SlotInv(q)'
          BY <3>0, <3>2, <1>1, <1>2, <2>2 DEF SlotInv
        <4>2. Waiting(q)' => rx[q]
          BY <3>0, <1>1 DEF Waiting, SlotInv
        <4>3. ChanInv(q)'
          BY <3>2, <1>1, <1>2, <1>5, <2>2, <4>2 DEF ChanInv
        <4> QED
          BY <4>1, <4>3
      <3> QED
        BY <3>1, <3>2
    <2> QED
      BY <2>2, <2>3, <2>4 DEF IndInv
  <1>6. CASE rx[cur]
    <2>1. /\ completion' = completion + 1 /\ UNCHANGED <<tx, cur, maxEff>>
          /\ filled' = filled
          /\ \/ epc' = "done" /\ finish' = "length"
             \/ epc' = "step" /\ finish' = finish
      BY <1>1, <1>6 DEF EnginePush
    <2>2. /\ cur # NoReq /\ ~UserError(req[cur]) /\ maxEff = Budget(req[cur])
          /\ filled = req[cur].prompt + completion /\ completion < maxEff
      BY <1>1, <1>2, EngineTypes DEF IndInv, EngineInv
    <2>3. EngineTypeOK'
      BY <2>1, EngineTypes DEF EngineTypeOK
    <2>4. EngineInv'
      BY <1>1, <1>2, <2>1, <2>2, EngineTypes DEF EngineInv
    <2>5. TypeOK'
      BY <1>1, <1>4, <2>1, <2>3, QueueTypes, EngineStepTypes
    <2>6. SenderOwned' /\ \A q \in Requests : Queued(q)' <=> Queued(q)
      BY <1>1, <2>1, OwnedKept
    <2>7. ASSUME NEW q \in Requests PROVE SlotInv(q)' /\ ChanInv(q)'
      <3>0. SlotInv(q) /\ ChanInv(q)
        BY DEF IndInv
      <3>1. CASE q # cur
        BY <3>0, <3>1, <1>1, <1>4, <2>1, <2>6, SlotKept DEF Same
      <3>2. CASE q = cur
        <4>1. SlotInv(q)'
          BY <3>0, <3>2, <1>1, <1>2, <2>1 DEF SlotInv
        <4>2. /\ chan[q] \in Seq(Event) /\ Len(chan[q]) \in Nat /\ ctoks[q] \in Nat
              /\ tx[q] \in BOOLEAN /\ Started(chan[q]) \in Int /\ completion \in Nat
          BY ChanTypes, HandlerTypes, QueueTypes, EngineTypes, LenProperties DEF Started
        <4>3. InOrder(chan[q], ctoks[q], TRUE)
              /\ completion = ctoks[q] + Len(chan[q]) - Started(chan[q])
          BY <3>0, <3>2, <1>1, <1>2, <1>6 DEF ChanInv, Taken
        <4>4. e.n = ctoks[q] + Len(chan[q]) + 1 - Started(chan[q])
          BY <4>2, <4>3, <1>3
        <4>5. InOrder(Append(chan[q], e), ctoks[q], TRUE)
              /\ Started(Append(chan[q], e)) = Started(chan[q])
          BY <4>2, <4>3, <4>4, <1>3, OrderAppend
        <4>6. Len(Append(chan[q], e)) = Len(chan[q]) + 1
          BY <4>2, <1>3, SeqAppend
        <4>7. chan'[q] = Append(chan[q], e) /\ tx'[q] = TRUE /\ ctoks'[q] = ctoks[q]
          BY <3>2, <1>1, <1>2, <1>4, <1>6, <2>1, <4>2
        <4>8. InOrder(chan'[q], ctoks'[q], tx'[q])
          BY <4>5, <4>7
        <4>9. completion' = Taken(q)' /\ filled' - req'[q].prompt = Taken(q)' - 1
          <5>1. completion' = ctoks'[q] + Len(chan'[q]) - Started(chan'[q])
            BY <2>1, <4>2, <4>3, <4>5, <4>6, <4>7
          <5>2. filled' - req'[q].prompt = completion' - 1
            BY <2>1, <2>2, <3>2, <1>1, <1>2, <4>2
          <5> QED
            BY <5>1, <5>2 DEF Taken
        <4>10. ChanInv(q)'
          BY <3>2, <1>1, <1>2, <2>1, <2>6, <4>7, <4>8, <4>9 DEF ChanInv
        <4> QED
          BY <4>1, <4>10
      <3> QED
        BY <3>1, <3>2
    <2> QED
      BY <2>4, <2>5, <2>6, <2>7 DEF IndInv
  <1> QED
    BY <1>5, <1>6

\* A panic drops the running request's sender: the request becomes the victim.
LEMMA EnginePanicInv ==
  ASSUME IndInv, EnginePanic, UNCHANGED handlerVars
  PROVE  IndInv'
  <1>1. /\ epc = "step" /\ epc' = "panicked" /\ tx' = [tx EXCEPT ![cur] = FALSE]
        /\ UNCHANGED <<queue, chan, proc, cur, maxEff, completion, filled, finish>> /\ EngineKeeps
        /\ UNCHANGED <<req, rx, frames, client, wire>>
        /\ UNCHANGED <<hpc, pend, ptoks, ctoks, out>>
    BY DEF EnginePanic, EngineKeeps, handlerVars
  <1>2. cur \in Requests /\ ~Queued(cur) /\ tx[cur] /\ client[cur] # "idle"
    BY <1>1, CurRuns
  <1>3. /\ tx' \in [Requests -> BOOLEAN] /\ ~tx'[cur]
        /\ \A q \in Requests : q # cur => tx'[q] = tx[q]
    BY <1>1, <1>2, QueueTypes
  <1>4. TypeOK'
    <2>1. EngineTypeOK'
      BY <1>1, EngineTypes DEF EngineTypeOK
    <2> QED
      BY <1>1, <1>3, <2>1, ChanTypes, EngineStepTypes
  <1>5. \A q \in Requests : Queued(q)' <=> Queued(q)
    BY <1>1 DEF Queued
  <1>6. SenderOwned'
    BY <1>1, <1>2, <1>3, <1>5 DEF IndInv, SenderOwned
  <1>7. EngineInv'
    BY <1>1 DEF IndInv, EngineInv
  <1>8. ASSUME NEW q \in Requests PROVE SlotInv(q)' /\ ChanInv(q)'
    <2>0. SlotInv(q) /\ ChanInv(q)
      BY DEF IndInv
    <2>1. CASE q # cur
      BY <2>0, <2>1, <1>1, <1>3, <1>5, SlotKept DEF Same
    <2>2. CASE q = cur
      <3>1. SlotInv(q)'
        BY <2>0, <2>2, <1>1, <1>2 DEF SlotInv
      <3>2. rx[q] => InOrder(chan[q], ctoks[q], TRUE)
        BY <2>0, <2>2, <1>2 DEF ChanInv
      <3>3. rx'[q] => InOrder(chan'[q], ctoks'[q], tx'[q])
        BY <3>2, <2>2, <1>1, <1>3, OrderLive
      <3>4. Victim(q)'
        BY <2>2, <1>1 DEF Victim
      <3>5. ChanInv(q)'
        BY <2>2, <1>1, <1>2, <1>5, <3>3, <3>4 DEF ChanInv
      <3> QED
        BY <3>1, <3>5
    <2> QED
      BY <2>1, <2>2
  <1> QED
    BY <1>4, <1>6, <1>7, <1>8 DEF IndInv

\* The end of the process changes no slot that the invariant speaks of.
LEMMA ProcessInv ==
  ASSUME IndInv, proc' \in {"up", "draining", "exited"},
         client' = client \/ client' = [r \in Requests |-> IF client[r] = "open" THEN "lost"
                                                           ELSE client[r]],
         UNCHANGED <<queue, req, tx, rx, chan, frames, wire, engineVars, handlerVars>>
  PROVE  IndInv'
  <1>1. /\ UNCHANGED <<queue, req, tx, rx, chan, frames, wire>>
        /\ UNCHANGED <<epc, cur, maxEff, completion, filled, finish>>
        /\ UNCHANGED <<hpc, pend, ptoks, ctoks, out>>
    BY DEF engineVars, handlerVars
  <1>2. client' \in [Requests -> {"idle", "open", "closed", "gone", "lost"}]
    BY ChanTypes
  <1>3. TypeOK'
    <2>1. ChannelsTypeOK'
      BY <1>1, <1>2, QueueTypes, ChanTypes DEF ChannelsTypeOK, QueueCap
    <2>2. EngineTypeOK' /\ HandlersTypeOK'
      BY <1>1, EngineTypes, HandlerTypes DEF EngineTypeOK, HandlersTypeOK
    <2> QED
      BY <2>1, <2>2 DEF TypeOK
  <1>4. SenderOwned' /\ \A q \in Requests : Queued(q)' <=> Queued(q)
    BY <1>1, OwnedKept
  <1>5. EngineInv'
    BY <1>1 DEF IndInv, EngineInv
  <1>6. ASSUME NEW q \in Requests PROVE SlotInv(q)' /\ ChanInv(q)'
    <2>1. client'[q] = "idle" <=> client[q] = "idle"
      BY ChanTypes
    <2>2. Same(q)
      BY <2>1, <1>1 DEF Same
    <2> QED
      BY <2>2, <1>1, <1>4, SlotKept DEF IndInv
  <1> QED
    BY <1>3, <1>4, <1>5, <1>6 DEF IndInv
-----------------------------------------------------------------------------
(***************************************************************************)
(* The steps of a handler and of its client: they leave the engine alone,  *)
(* and every slot but their own.                                           *)
(***************************************************************************)

\* Every slot but r is kept.
Others(r) == \A q \in Requests : q # r => Same(q)

\* A handler step that leaves the queue and the senders alone: its own slot is
\* all there is to look at.
LEMMA HandlerStep ==
  ASSUME IndInv, NEW r \in Requests, UNCHANGED <<queue, req, tx, proc>>, UNCHANGED engineVars,
         Others(r), TypeOK', EngineInv', SlotInv(r)', ChanInv(r)'
  PROVE  IndInv'
  <1>1. UNCHANGED <<epc, cur, maxEff, completion, filled, finish>>
    BY DEF engineVars
  <1>2. SenderOwned' /\ \A q \in Requests : Queued(q)' <=> Queued(q)
    BY <1>1, OwnedKept
  <1>3. ASSUME NEW q \in Requests, q # r PROVE SlotInv(q)' /\ ChanInv(q)'
    BY <1>3, <1>1, <1>2, SlotKept DEF IndInv, Others
  <1> QED
    BY <1>2, <1>3 DEF IndInv

\* The variables of the handlers and the clients keep their types.
SlotTypesOK ==
  /\ rx \in [Requests -> BOOLEAN] /\ chan \in [Requests -> Seq(Event)]
  /\ frames \in [Requests -> Seq(Frame)]
  /\ \A q \in Requests : Len(chan[q]) <= ChanCap /\ Len(frames[q]) <= FrameCap
  /\ client \in [Requests -> {"idle", "open", "closed", "gone", "lost"}]
  /\ wire \in [Requests -> Seq(Frame)]
  /\ HandlersTypeOK

\* A well-typed handler step keeps the types and what the engine knows.
LEMMA HandlerKeepsRest ==
  ASSUME IndInv, UNCHANGED <<queue, req, tx, proc>>, UNCHANGED engineVars, SlotTypesOK'
  PROVE  TypeOK' /\ EngineInv'
  <1>1. UNCHANGED <<epc, cur, maxEff, completion, filled, finish>>
    BY DEF engineVars
  <1>2. ChannelsTypeOK'
    BY QueueTypes, ChanTypes DEF SlotTypesOK, ChannelsTypeOK, QueueCap
  <1>3. EngineTypeOK'
    BY <1>1, EngineTypes DEF EngineTypeOK
  <1>4. EngineInv'
    BY <1>1 DEF IndInv, EngineInv
  <1> QED
    BY <1>2, <1>3, <1>4 DEF TypeOK, SlotTypesOK

\* Frame sequences that end in [DONE].
EndsDone(s) == s \in Seq(Frame) /\ s # <<>> /\ s[Len(s)].kind = "done"

\* Whatever precedes it, an ending stays one.
LEMMA EndsDoneConcat ==
  ASSUME NEW s \in Seq(Frame), NEW t, EndsDone(t)
  PROVE  EndsDone(s \o t)
  <1>1. t \in Seq(Frame) /\ Len(s) \in Nat /\ Len(t) \in Nat \ {0}
    BY EmptySeq, LenProperties DEF EndsDone
  <1>2. /\ s \o t \in Seq(Frame) /\ Len(s \o t) = Len(s) + Len(t)
        /\ \A i \in 1..Len(s) + Len(t) :
             (s \o t)[i] = IF i <= Len(s) THEN s[i] ELSE t[i - Len(s)]
    BY <1>1, ConcatProperties
  <1>3. (s \o t)[Len(s) + Len(t)] = t[Len(t)]
    BY <1>1, <1>2
  <1>4. s \o t # <<>>
    <2>1. 0 < Len(s \o t)
      BY <1>1, <1>2
    <2> QED
      BY <2>1
  <1> QED
    BY <1>2, <1>3, <1>4 DEF EndsDone

\* An error answer and every epilogue end in [DONE].
LEMMA EndingsEndDone ==
  /\ EndsDone(<<Plain("done")>>)
  /\ EndsDone(<<Plain("error"), Plain("done")>>)
  /\ \A p \in Profiles : \A w \in {"none", "stop", "length"} : \A pt, ct \in Nat :
       EndsDone(Epilogue(p, w, pt, ct))
  <1>1. EndsDone(<<Plain("done")>>)
    BY FrameTypes DEF EndsDone
  <1>2. EndsDone(<<Plain("error"), Plain("done")>>)
    BY FrameTypes DEF EndsDone
  <1>3. ASSUME NEW p \in Profiles, NEW w \in {"none", "stop", "length"}, NEW pt \in Nat,
               NEW ct \in Nat
        PROVE  EndsDone(Epilogue(p, w, pt, ct))
    <2>1. CASE ~p.chat
      BY <2>1, FrameTypes DEF EndsDone, Epilogue
    <2>2. CASE p.chat
      <3> DEFINE u == IF p.usage THEN <<UsageOf(pt, ct)>> ELSE <<>>
      <3>1. <<Finish(w)>> \in Seq(Frame) /\ u \in Seq(Frame)
        BY FrameTypes
      <3>2. <<Finish(w)>> \o u \in Seq(Frame)
        BY <3>1, ConcatProperties
      <3>3. EndsDone(<<Finish(w)>> \o u \o <<Plain("done")>>)
        BY <3>2, <1>1, EndsDoneConcat
      <3> QED
        BY <2>2, <3>3 DEF Epilogue
    <2> QED
      BY <2>1, <2>2
  <1> QED
    BY <1>1, <1>2, <1>3

\* The task of r is past its drain loop: it sends the end of a stream, or is over.
Concluded(r) ==
  \/ hpc'[r] = "send" /\ rx'[r] = rx[r] /\ client'[r] = client[r] /\ EndsDone(pend'[r])
  \/ hpc'[r] = "end" /\ ~rx'[r] /\ client'[r] # "idle"

\* What the end of the drain loop may change, and how it leaves slot r.
EndOfDrain(r) ==
  /\ rx' \in [Requests -> BOOLEAN] /\ wire' \in [Requests -> Seq(Frame)]
  /\ client' \in [Requests -> {"idle", "open", "closed", "gone", "lost"}]
  /\ hpc' \in [Requests -> {"idle", "recv", "send", "end"}]
  /\ pend' \in [Requests -> Seq(Frame)]
  /\ \A q \in Requests : q # r =>
       /\ rx'[q] = rx[q] /\ client'[q] = client[q] /\ hpc'[q] = hpc[q] /\ pend'[q] = pend[q]
  /\ Concluded(r)

\* A JSON answer ends the task.
LEMMA AnswerEnds ==
  ASSUME IndInv, NEW r \in Requests, NEW f \in Frame, Answer(r, f)
  PROVE  EndOfDrain(r) /\ hpc'[r] = "end"
  <1>1. Append(wire[r], f) \in Seq(Frame)
    BY ChanTypes, SeqAppend
  <1> QED
    BY <1>1, QueueTypes, ChanTypes, HandlerTypes DEF Answer, Return, EndOfDrain, Concluded

\* So does handing the ending of a stream to the sends.
LEMMA SendsEnd ==
  ASSUME IndInv, NEW r \in Requests, NEW s, EndsDone(s),
         pend' = [pend EXCEPT ![r] = s], hpc' = [hpc EXCEPT ![r] = "send"],
         UNCHANGED <<rx, wire, client>>
  PROVE  EndOfDrain(r)
  <1>1. s \in Seq(Frame)
    BY DEF EndsDone
  <1> QED
    BY <1>1, QueueTypes, ChanTypes, HandlerTypes DEF EndOfDrain, Concluded

\* Both ways to conclude end the drain loop.
LEMMA ConcludeEnds ==
  ASSUME IndInv, NEW r \in Requests, NEW segs \in Seq(Frame), NEW hi \in Nat,
         NEW w \in {"none", "stop", "length"}, NEW pt \in Nat, NEW ct \in Nat,
         Conclude(r, segs, hi, w, pt, ct)
  PROVE  EndOfDrain(r)
  <1>1. CASE req[r].sse
    <2>1. req[r] \in Profiles
      BY ChanTypes
    <2>2. EndsDone(segs \o Epilogue(req[r], w, pt, ct))
      BY <2>1, EndingsEndDone, EndsDoneConcat
    <2> QED
      BY <1>1, <2>2, SendsEnd DEF Conclude
  <1>2. CASE ~req[r].sse
    <2>1. Body(hi, w, pt, ct) \in Frame
      BY FrameTypes
    <2> QED
      BY <1>2, <2>1, AnswerEnds DEF Conclude
  <1> QED
    BY <1>1, <1>2

\* A task past its drain loop owes its slot nothing more.
LEMMA ConcludedSlot ==
  ASSUME NEW r \in Requests, SlotInv(r), Concluded(r), hpc[r] = "recv",
         UNCHANGED <<tx, cur>>
  PROVE  SlotInv(r)' /\ ~Waiting(r)' /\ (rx'[r] => rx[r])
  <1>1. CASE hpc'[r] = "send" /\ rx'[r] = rx[r] /\ client'[r] = client[r] /\ EndsDone(pend'[r])
    BY <1>1 DEF SlotInv, Waiting, EndsDone
  <1>2. CASE hpc'[r] = "end" /\ ~rx'[r] /\ client'[r] # "idle"
    BY <1>2 DEF SlotInv, Waiting
  <1> QED
    BY <1>1, <1>2 DEF Concluded
-----------------------------------------------------------------------------
(***************************************************************************)
(* The drain loop.                                                         *)
(***************************************************************************)

\* An event leaves the channel of a task that is receiving.
LEMMA ReceivesFacts ==
  ASSUME IndInv, NEW r \in Requests, NEW k, Receives(r, k), UNCHANGED engineVars
  PROVE  /\ hpc[r] = "recv" /\ rx[r] /\ client[r] # "idle" /\ Waiting(r)
         /\ chan[r] \in Seq(Event) /\ chan[r] # <<>>
         /\ Head(chan[r]) \in Event /\ Head(chan[r]).kind = k
         /\ chan' \in [Requests -> Seq(Event)] /\ \A q \in Requests : Len(chan'[q]) <= ChanCap
         /\ chan'[r] = Tail(chan[r])
         /\ \A q \in Requests : q # r => chan'[q] = chan[q]
         /\ UNCHANGED <<queue, req, tx, proc, frames>>
         /\ UNCHANGED <<epc, cur, maxEff, completion, filled, finish>>
         /\ InOrder(chan[r], ctoks[r], tx[r])
         /\ ~(cur = r /\ epc \in {"start", "error"}) /\ ~Queued(r)
  <1>1. /\ hpc[r] = "recv" /\ chan[r] # <<>> /\ Head(chan[r]).kind = k
        /\ chan' = [chan EXCEPT ![r] = Tail(@)]
        /\ UNCHANGED <<queue, req, tx, proc, frames>>
        /\ UNCHANGED <<epc, cur, maxEff, completion, filled, finish>>
    BY DEF Receives, Keeps, engineVars
  <1>2. chan[r] \in Seq(Event)
    BY ChanTypes
  <1>3. /\ Head(chan[r]) \in Event /\ Tail(chan[r]) \in Seq(Event)
        /\ Len(Tail(chan[r])) = Len(chan[r]) - 1 /\ Len(chan[r]) \in Nat
    BY <1>1, <1>2, SeqTail
  <1>4. /\ chan' \in [Requests -> Seq(Event)] /\ chan'[r] = Tail(chan[r])
        /\ \A q \in Requests : q # r => chan'[q] = chan[q]
    BY <1>1, <1>3, ChanTypes
  <1>5. \A q \in Requests : Len(chan'[q]) <= ChanCap
    <2>1. Len(chan'[r]) <= ChanCap
      <3>1. Len(chan[r]) <= ChanCap /\ ChanCap \in Nat
        BY ChanTypes
      <3> QED
        BY <3>1, <1>3, <1>4
    <2>2. \A q \in Requests : Len(chan[q]) <= ChanCap
      BY ChanTypes
    <2> QED
      BY <2>1, <2>2, <1>4
  <1>6. rx[r] /\ client[r] # "idle" /\ Waiting(r)
    BY <1>1 DEF IndInv, SlotInv, Waiting
  <1>7. /\ InOrder(chan[r], ctoks[r], tx[r])
        /\ ~(cur = r /\ epc \in {"start", "error"}) /\ ~Queued(r)
    BY <1>1, <1>6 DEF IndInv, ChanInv
  <1> QED
    BY <1>1, <1>2, <1>3, <1>4, <1>5, <1>6, <1>7

\* Behind an event that ends nothing, a channel keeps its terminal event.
LEMMA TerminalStays ==
  ASSUME NEW c \in Seq(Event), c # <<>>, ~Terminal(Head(c)), Terminal(c[Len(c)])
  PROVE  Tail(c) # <<>> /\ Terminal(Tail(c)[Len(Tail(c))])
  <1> DEFINE d == Tail(c)
  <1>1. /\ Len(c) \in Nat \ {0} /\ Len(d) = Len(c) - 1 /\ Head(c) = c[1]
        /\ \A i \in 1..Len(c) - 1 : d[i] = c[i + 1]
        /\ d = <<>> <=> Len(c) <= 1
    BY SeqTail
  <1> HIDE DEF d
  <1>2. Len(c) # 1
    <2>1. Len(c) <= 1 => c[Len(c)] = c[1]
      BY <1>1
    <2>2. ~(Len(c) <= 1)
      BY <2>1, <1>1
    <2> QED
      BY <2>2
  <1>3. Len(d) \in 1..Len(c) - 1 /\ d[Len(d)] = c[Len(c)]
    BY <1>1, <1>2
  <1> QED
    BY <1>1, <1>2, <1>3 DEF d

\* A task that goes on receiving or sending segments is still owed its end.
LEMMA StillWaiting ==
  ASSUME IndInv, NEW r \in Requests, NEW k, Receives(r, k), k \in {"start", "token"},
         UNCHANGED engineVars
  PROVE  tx'[r] \/ Victim(r)' \/ (chan'[r] # <<>> /\ Terminal(chan'[r][Len(chan'[r])]))
  <1>1. tx[r] \/ Victim(r) \/ (chan[r] # <<>> /\ Terminal(chan[r][Len(chan[r])]))
    BY ReceivesFacts DEF IndInv, ChanInv
  <1>2. ~Terminal(Head(chan[r]))
    BY ReceivesFacts DEF Terminal
  <1>3. Terminal(chan[r][Len(chan[r])]) =>
          chan'[r] # <<>> /\ Terminal(chan'[r][Len(chan'[r])])
    BY <1>2, ReceivesFacts, TerminalStays
  <1>4. tx'[r] = tx[r] /\ Victim(r)' = Victim(r)
    BY ReceivesFacts DEF Victim
  <1> QED
    BY <1>1, <1>3, <1>4

\* What is left in the channel, once the head is taken and a token counted.
LEMMA Counted ==
  ASSUME IndInv, NEW r \in Requests, NEW k, Receives(r, k), UNCHANGED engineVars,
         k = "token" => ctoks'[r] = ctoks[r] + 1,
         k = "start" => ctoks'[r] = ctoks[r],
         k \in {"token", "start", "done", "error"}
  PROVE  /\ InOrder(chan'[r], ctoks'[r], tx'[r])
         /\ cur' = r /\ epc' \in {"step", "push", "done"} => Taken(r)' = Taken(r)
  <1> DEFINE c == chan[r]
  <1>0. /\ ctoks[r] \in Nat /\ tx[r] \in BOOLEAN /\ completion \in Nat
    BY HandlerTypes, QueueTypes, EngineTypes
  <1>a. /\ c \in Seq(Event) /\ c # <<>> /\ Head(c).kind = k /\ chan'[r] = Tail(c)
        /\ InOrder(c, ctoks[r], tx[r])
        /\ tx' = tx /\ cur' = cur /\ epc' = epc
    BY ReceivesFacts
  <1>1. Taken(r) = ctoks[r] + Len(c) - Started(c)
    BY DEF Taken
  <1> HIDE DEF c
  <1>2. /\ Started(c) \in Int /\ Started(Tail(c)) \in Int
        /\ Len(c) \in Nat /\ Len(Tail(c)) \in Nat
    <2>1. Started(c) \in Int /\ Started(Tail(c)) \in Int
      BY DEF Started
    <2>2. Len(c) \in Nat /\ Len(Tail(c)) \in Nat
      BY <1>a, SeqTail, LenProperties
    <2> QED
      BY <2>1, <2>2
  <1>3. CASE k = "token"
    <2>1. /\ InOrder(Tail(c), ctoks[r] + 1, tx[r])
          /\ Len(Tail(c)) - Started(Tail(c)) = Len(c) - Started(c) - 1
      BY <1>0, <1>a, <1>3, OrderTail
    <2>2. ctoks'[r] = ctoks[r] + 1
      BY <1>3
    <2>3. InOrder(chan'[r], ctoks'[r], tx'[r])
      BY <1>a, <2>1, <2>2
    <2>4. Taken(r) = ctoks[r] + 1 + Len(Tail(c)) - Started(Tail(c))
      BY <1>0, <1>1, <1>2, <2>1
    <2> QED
      BY <1>a, <2>2, <2>3, <2>4 DEF Taken
  <1>4. CASE k = "start"
    <2>1. /\ InOrder(Tail(c), ctoks[r], tx[r])
          /\ Len(Tail(c)) - Started(Tail(c)) = Len(c) - Started(c)
      BY <1>0, <1>a, <1>4, OrderTail
    <2>2. ctoks'[r] = ctoks[r]
      BY <1>4
    <2>3. InOrder(chan'[r], ctoks'[r], tx'[r])
      BY <1>a, <2>1, <2>2
    <2>4. Taken(r) = ctoks[r] + Len(Tail(c)) - Started(Tail(c))
      BY <1>0, <1>1, <1>2, <2>1
    <2> QED
      BY <1>a, <2>2, <2>3, <2>4 DEF Taken
  <1>5. CASE k \in {"done", "error"}
    <2>1. Terminal(Head(c)) /\ Head(c) = c[1] /\ 1 \in 1..Len(c)
      BY <1>a, <1>5, SeqTail DEF Terminal
    <2>2. chan'[r] = <<>>
      BY <1>0, <1>a, <2>1, OrderTail
    <2>3. ~tx[r]
      BY <1>a, <2>1 DEF InOrder
    <2>4. ~(cur' = r /\ epc' \in {"step", "push", "done"})
      BY <1>a, <2>3 DEF IndInv, SenderOwned
    <2>5. InOrder(chan'[r], ctoks'[r], tx'[r])
      BY <2>2 DEF InOrder
    <2> QED
      BY <2>4, <2>5
  <1> QED
    BY <1>3, <1>4, <1>5

\* Taking an event keeps the invariant, whatever the task does with it, if the task
\* counts the tokens and goes on waiting only after an event that ends nothing.
LEMMA RecvStep ==
  ASSUME IndInv, NEW r \in Requests, NEW k \in {"token", "start", "done", "error"},
         Receives(r, k), UNCHANGED engineVars,
         SlotTypesOK', Others(r), SlotInv(r)',
         k = "token" => ctoks'[r] = ctoks[r] + 1,
         k = "start" => ctoks'[r] = ctoks[r],
         Waiting(r)' => k \in {"start", "token"}
  PROVE  IndInv'
  <1>1. TypeOK' /\ EngineInv'
    BY ReceivesFacts, HandlerKeepsRest
  <1>2. /\ InOrder(chan'[r], ctoks'[r], tx'[r])
        /\ cur' = r /\ epc' \in {"step", "push", "done"} => Taken(r)' = Taken(r)
    BY Counted
  <1>3. Waiting(r)' =>
          tx'[r] \/ Victim(r)' \/ (chan'[r] # <<>> /\ Terminal(chan'[r][Len(chan'[r])]))
    BY StillWaiting
  <1>4. ~(cur' = r /\ epc' \in {"start", "error"}) /\ ~Queued(r)'
    BY ReceivesFacts DEF Queued
  <1>5. cur' = r /\ epc' \in {"step", "push"} => completion' = Taken(r)'
    BY <1>2, ReceivesFacts DEF IndInv, ChanInv
  <1>6. cur' = r /\ epc' = "done" => filled' - req'[r].prompt \in {Taken(r)' - 1, Taken(r)'}
    BY <1>2, ReceivesFacts DEF IndInv, ChanInv
  <1>7. ChanInv(r)'
    BY <1>2, <1>3, <1>4, <1>5, <1>6 DEF ChanInv
  <1> QED
    BY <1>1, <1>7, ReceivesFacts, HandlerStep

\* The types of a receiving step that leaves ptoks, ctoks and out well-typed.
LEMMA DrainTypes ==
  ASSUME IndInv, NEW r \in Requests,
         chan' \in [Requests -> Seq(Event)], \A q \in Requests : Len(chan'[q]) <= ChanCap,
         UNCHANGED frames, EndOfDrain(r),
         ptoks' \in [Requests -> Nat], ctoks' \in [Requests -> Nat], out' \in [Requests -> Nat]
  PROVE  SlotTypesOK'
  BY ChanTypes DEF SlotTypesOK, HandlersTypeOK, EndOfDrain

\* Start: the task goes on, or returns because its client left.
LEMMA RecvStartInv ==
  ASSUME IndInv, NEW r \in Requests, RecvStart(r), UNCHANGED engineVars
  PROVE  IndInv'
  <1>1. /\ Receives(r, "start") /\ ptoks' = [ptoks EXCEPT ![r] = Head(chan[r]).p]
        /\ UNCHANGED <<client, wire, pend, ctoks, out>>
        /\ Return(r) \/ UNCHANGED <<hpc, rx>>
    BY DEF RecvStart
  <1>2. Head(chan[r]).p \in Nat
    BY <1>1, ReceivesFacts DEF Event
  <1>3. /\ rx' \in [Requests -> BOOLEAN]
        /\ hpc' \in [Requests -> {"idle", "recv", "send", "end"}]
        /\ \A q \in Requests : q # r => rx'[q] = rx[q] /\ hpc'[q] = hpc[q]
        /\ (hpc'[r] = hpc[r] /\ rx'[r] = rx[r]) \/ (hpc'[r] = "end" /\ ~rx'[r])
    BY <1>1, QueueTypes, HandlerTypes DEF Return
  <1>4. SlotTypesOK'
    BY <1>1, <1>2, <1>3, ReceivesFacts, ChanTypes, HandlerTypes DEF SlotTypesOK, HandlersTypeOK
  <1>5. Others(r)
    BY <1>1, <1>3, ReceivesFacts DEF Others, Same
  <1>6. SlotInv(r)'
    <2>1. SlotInv(r) /\ hpc[r] = "recv" /\ client[r] # "idle"
      BY <1>1, ReceivesFacts DEF IndInv
    <2> QED
      BY <2>1, <1>1, <1>3 DEF SlotInv
  <1>7. ctoks'[r] = ctoks[r]
    BY <1>1
  <1> QED
    BY <1>1, <1>4, <1>5, <1>6, <1>7, RecvStep

\* Token: counted; its text, if any is released, is sent before the next event.
LEMMA RecvTokenInv ==
  ASSUME IndInv, NEW r \in Requests, RecvToken(r), UNCHANGED engineVars
  PROVE  IndInv'
  <1>1. /\ Receives(r, "token") /\ ctoks' = [ctoks EXCEPT ![r] = @ + 1]
        /\ UNCHANGED <<rx, client, wire, ptoks>>
    BY DEF RecvToken
  <1>2. PICK hi \in out[r]..Head(chan[r]).n :
          /\ out' = [out EXCEPT ![r] = hi]
          /\ \/ /\ hi > out[r]
                /\ pend' = [pend EXCEPT ![r] = Text(out[r] + 1, hi)]
                /\ hpc' = [hpc EXCEPT ![r] = "send"]
             \/ UNCHANGED <<pend, hpc>>
    BY DEF RecvToken
  <1>3. out[r] \in Nat /\ Head(chan[r]).n \in Nat
    BY <1>1, ReceivesFacts, HandlerTypes DEF Event
  <1>4. hi \in Nat
    BY <1>2, <1>3
  <1>5. hi > out[r] => /\ Text(out[r] + 1, hi) = <<Segment(out[r] + 1, hi)>>
                       /\ Segment(out[r] + 1, hi) \in Frame
                       /\ Segment(out[r] + 1, hi).kind = "seg"
    BY <1>3, <1>4, FrameTypes DEF Text
  <1>6. /\ pend' \in [Requests -> Seq(Frame)]
        /\ hpc' \in [Requests -> {"idle", "recv", "send", "end"}]
        /\ \A q \in Requests : q # r => pend'[q] = pend[q] /\ hpc'[q] = hpc[q]
        /\ \/ hpc'[r] = hpc[r]
           \/ hpc'[r] = "send" /\ pend'[r] = <<Segment(out[r] + 1, hi)>>
              /\ Segment(out[r] + 1, hi).kind = "seg"
    <2> DEFINE t == <<Segment(out[r] + 1, hi)>>
    <2>1. CASE /\ hi > out[r]
               /\ pend' = [pend EXCEPT ![r] = Text(out[r] + 1, hi)]
               /\ hpc' = [hpc EXCEPT ![r] = "send"]
      <3>a. t = Text(out[r] + 1, hi)
        BY <2>1, <1>5
      <3>b. t \in Seq(Frame)
        BY <2>1, <1>5
      <3> HIDE DEF t
      <3>1. pend' = [pend EXCEPT ![r] = t] /\ t \in Seq(Frame)
        BY <2>1, <3>a, <3>b
      <3>2. pend' \in [Requests -> Seq(Frame)] /\ pend'[r] = t
            /\ \A q \in Requests : q # r => pend'[q] = pend[q]
        BY <3>1, HandlerTypes
      <3> QED
        BY <2>1, <3>2, <1>5, HandlerTypes DEF t
    <2>2. CASE UNCHANGED <<pend, hpc>>
      BY <2>2, HandlerTypes
    <2> QED
      BY <2>1, <2>2, <1>2
  <1>7. /\ ctoks' \in [Requests -> Nat] /\ out' \in [Requests -> Nat]
        /\ \A q \in Requests : q # r => ctoks'[q] = ctoks[q]
        /\ ctoks'[r] = ctoks[r] + 1
    BY <1>1, <1>2, <1>4, HandlerTypes
  <1>8. SlotTypesOK'
    <2>1. /\ chan' \in [Requests -> Seq(Event)] /\ \A q \in Requests : Len(chan'[q]) <= ChanCap
          /\ UNCHANGED frames
      BY <1>1, ReceivesFacts
    <2>2. HandlersTypeOK'
      BY <1>1, <1>6, <1>7, HandlerTypes DEF HandlersTypeOK
    <2>3. rx' \in [Requests -> BOOLEAN]
      BY <1>1, QueueTypes
    <2> QED
      BY <1>1, <2>1, <2>2, <2>3, ChanTypes DEF SlotTypesOK
  <1>9. Others(r)
    BY <1>1, <1>6, <1>7, ReceivesFacts DEF Others, Same
  <1>10. SlotInv(r)'
    <2>1. SlotInv(r) /\ hpc[r] = "recv" /\ client[r] # "idle"
      BY <1>1, ReceivesFacts DEF IndInv
    <2>2. CASE hpc'[r] = hpc[r]
      BY <2>1, <2>2, <1>1 DEF SlotInv
    <2>3. CASE hpc'[r] = "send" /\ pend'[r] = <<Segment(out[r] + 1, hi)>>
               /\ Segment(out[r] + 1, hi).kind = "seg"
      BY <2>1, <2>3, <1>1 DEF SlotInv
    <2> QED
      BY <2>2, <2>3, <1>6
  <1> QED
    BY <1>1, <1>7, <1>8, <1>9, <1>10, RecvStep

\* The last event of the drain loop: its end, whatever the answer.
LEMMA LastEvent ==
  ASSUME IndInv, NEW r \in Requests, NEW k \in {"token", "done", "error"},
         Receives(r, k), UNCHANGED engineVars, EndOfDrain(r),
         ptoks' \in [Requests -> Nat], out' \in [Requests -> Nat],
         NEW n \in Nat, ctoks' = [ctoks EXCEPT ![r] = n],
         k = "token" => n = ctoks[r] + 1
  PROVE  IndInv'
  <1>1. /\ ctoks' \in [Requests -> Nat] /\ ctoks'[r] = n
        /\ \A q \in Requests : q # r => ctoks'[q] = ctoks[q]
    BY HandlerTypes
  <1>2. SlotTypesOK'
    BY <1>1, ReceivesFacts, DrainTypes
  <1>3. Others(r)
    BY <1>1, ReceivesFacts DEF Others, Same, EndOfDrain
  <1>4. SlotInv(r)' /\ ~Waiting(r)'
    <2>1. SlotInv(r) /\ hpc[r] = "recv" /\ UNCHANGED <<tx, cur>> /\ Concluded(r)
      BY ReceivesFacts DEF IndInv, EndOfDrain
    <2> QED
      BY <2>1, ConcludedSlot
  <1> QED
    BY <1>1, <1>2, <1>3, <1>4, RecvStep

\* A piece of text is a sequence of frames.
LEMMA TextIsFrames ==
  ASSUME NEW lo \in Nat, NEW hi \in Nat
  PROVE  Text(lo, hi) \in Seq(Frame)
  <1>1. Segment(lo, hi) \in Frame
    BY FrameTypes
  <1> QED
    BY <1>1 DEF Text

\* A stop string ends the drain loop before the engine is done.
LEMMA RecvStopInv ==
  ASSUME IndInv, NEW r \in Requests, RecvStop(r), UNCHANGED engineVars
  PROVE  IndInv'
  <1>1. /\ Receives(r, "token") /\ ctoks' = [ctoks EXCEPT ![r] = @ + 1] /\ UNCHANGED ptoks
    BY DEF RecvStop
  <1>a. PICK hi \in out[r]..Head(chan[r]).n : \E mid \in out[r]..hi :
          /\ out' = [out EXCEPT ![r] = hi]
          /\ Conclude(r, Text(out[r] + 1, mid) \o Text(mid + 1, hi), hi, "stop",
                      ptoks[r], ctoks[r] + 1)
    BY DEF RecvStop
  <1>2. PICK mid \in out[r]..hi :
          /\ out' = [out EXCEPT ![r] = hi]
          /\ Conclude(r, Text(out[r] + 1, mid) \o Text(mid + 1, hi), hi, "stop",
                      ptoks[r], ctoks[r] + 1)
    BY <1>a
  <1>3. /\ out[r] \in Nat /\ Head(chan[r]).n \in Nat /\ ctoks[r] + 1 \in Nat
        /\ ptoks[r] \in Nat
    BY <1>1, ReceivesFacts, HandlerTypes DEF Event
  <1>4. hi \in Nat /\ mid \in Nat /\ out[r] + 1 \in Nat /\ mid + 1 \in Nat
    BY <1>3
  <1>5. Text(out[r] + 1, mid) \o Text(mid + 1, hi) \in Seq(Frame)
    <2>1. Text(out[r] + 1, mid) \in Seq(Frame) /\ Text(mid + 1, hi) \in Seq(Frame)
      BY <1>4, TextIsFrames
    <2> QED
      BY <2>1, ConcatProperties
  <1>6. EndOfDrain(r)
    BY <1>2, <1>3, <1>4, <1>5, ConcludeEnds
  <1>7. ptoks' \in [Requests -> Nat] /\ out' \in [Requests -> Nat]
    BY <1>1, <1>2, <1>4, HandlerTypes
  <1>8. ctoks' = [ctoks EXCEPT ![r] = ctoks[r] + 1]
    BY <1>1
  <1> QED
    BY <1>1, <1>3, <1>6, <1>7, <1>8, LastEvent

\* Done ends the drain loop.
LEMMA RecvDoneInv ==
  ASSUME IndInv, NEW r \in Requests, RecvDone(r), UNCHANGED engineVars
  PROVE  IndInv'
  <1> DEFINE e == Head(chan[r])
  <1>1. /\ Receives(r, "done") /\ ptoks' = [ptoks EXCEPT ![r] = e.p]
        /\ Conclude(r, Text(out[r] + 1, ctoks[r]), ctoks[r], e.why, e.p, e.n)
        /\ ctoks' = [ctoks EXCEPT ![r] = e.n]
        /\ out' = [out EXCEPT ![r] = ctoks[r]]
    BY DEF RecvDone
  <1>2. e.p \in Nat /\ e.n \in Nat /\ e.why \in {"none", "stop", "length"}
    BY <1>1, ReceivesFacts DEF Event
  <1> HIDE DEF e
  <1>3. out[r] + 1 \in Nat /\ ctoks[r] \in Nat
    BY HandlerTypes
  <1>4. EndOfDrain(r)
    <2>1. Text(out[r] + 1, ctoks[r]) \in Seq(Frame)
      BY <1>3, TextIsFrames
    <2> QED
      BY <1>1, <1>2, <1>3, <2>1, ConcludeEnds
  <1>5. ptoks' \in [Requests -> Nat] /\ out' \in [Requests -> Nat]
    BY <1>1, <1>2, <1>3, HandlerTypes
  <1> QED
    BY <1>1, <1>2, <1>4, <1>5, LastEvent

\* Error ends the drain loop.
LEMMA RecvErrorInv ==
  ASSUME IndInv, NEW r \in Requests, RecvError(r), UNCHANGED engineVars
  PROVE  IndInv'
  <1>1. Receives(r, "error") /\ UNCHANGED <<ptoks, ctoks, out>>
    BY DEF RecvError
  <1>2. EndOfDrain(r)
    <2>1. CASE req[r].sse
      BY <2>1, EndingsEndDone, SendsEnd DEF RecvError
    <2>2. CASE ~req[r].sse
      <3>1. Plain("bad") \in Frame
        BY FrameTypes
      <3> QED
        BY <2>2, <3>1, AnswerEnds DEF RecvError
    <2> QED
      BY <2>1, <2>2
  <1>3. /\ ctoks[r] \in Nat /\ ctoks' = [ctoks EXCEPT ![r] = ctoks[r]]
        /\ ptoks' \in [Requests -> Nat] /\ out' \in [Requests -> Nat]
    BY <1>1, HandlerTypes
  <1> QED
    BY <1>1, <1>2, <1>3, LastEvent

\* A closed channel ends the drain loop.
LEMMA RecvClosedInv ==
  ASSUME IndInv, NEW r \in Requests, RecvClosed(r), UNCHANGED engineVars
  PROVE  IndInv'
  <1>1. /\ hpc[r] = "recv" /\ chan[r] = <<>> /\ ~tx[r]
        /\ Conclude(r, Text(out[r] + 1, ctoks[r]), ctoks[r], "stop", ptoks[r], ctoks[r])
        /\ out' = [out EXCEPT ![r] = ctoks[r]]
        /\ UNCHANGED <<chan, frames, ptoks, ctoks>> /\ UNCHANGED <<queue, req, tx, proc>>
        /\ UNCHANGED <<epc, cur, maxEff, completion, filled, finish>>
    BY DEF RecvClosed, Keeps, engineVars
  <1>2. out[r] + 1 \in Nat /\ ctoks[r] \in Nat /\ ptoks[r] \in Nat
    BY HandlerTypes
  <1>3. EndOfDrain(r)
    <2>1. Text(out[r] + 1, ctoks[r]) \in Seq(Frame)
      BY <1>2, TextIsFrames
    <2> QED
      BY <1>1, <1>2, <2>1, ConcludeEnds
  <1>4. SlotTypesOK'
    <2>1. chan' \in [Requests -> Seq(Event)] /\ \A q \in Requests : Len(chan'[q]) <= ChanCap
      BY <1>1, ChanTypes
    <2>2. /\ ptoks' \in [Requests -> Nat] /\ ctoks' \in [Requests -> Nat]
          /\ out' \in [Requests -> Nat]
      BY <1>1, <1>2, HandlerTypes
    <2> QED
      BY <1>1, <1>3, <2>1, <2>2, DrainTypes
  <1>5. Others(r)
    BY <1>1, <1>3 DEF Others, Same, EndOfDrain
  <1>6. SlotInv(r)' /\ ~Waiting(r)' /\ (rx'[r] => rx[r])
    BY <1>1, <1>3, ConcludedSlot DEF IndInv, EndOfDrain
  <1>7. ChanInv(r)'
    <2>1. Queued(r)' <=> Queued(r)
      BY <1>1 DEF Queued
    <2>2. ChanInv(r)
      BY DEF IndInv
    <2> QED
      BY <2>1, <2>2, <1>1, <1>6, TakenKept DEF ChanInv
  <1>8. TypeOK' /\ EngineInv'
    BY <1>1, <1>4, HandlerKeepsRest
  <1> QED
    BY <1>1, <1>5, <1>6, <1>7, <1>8, HandlerStep

\* A frame leaves the task's hands; with the last one it goes back to receiving, or
\* returns.
LEMMA SendFrameInv ==
  ASSUME IndInv, NEW r \in Requests, SendFrame(r), UNCHANGED engineVars
  PROVE  IndInv'
  <1> DEFINE p == pend[r]
             f == Head(p)
  <1>1. /\ hpc[r] = "send" /\ UNCHANGED <<chan, client, wire, ptoks, ctoks, out>>
        /\ UNCHANGED <<queue, req, tx, proc>>
        /\ UNCHANGED <<epc, cur, maxEff, completion, filled, finish>>
    BY DEF SendFrame, Keeps, engineVars
  <1>2. /\ p \in Seq(Frame) /\ p # <<>> /\ p[Len(p)].kind \in {"role", "seg", "done"}
        /\ rx[r] /\ client[r] # "idle"
    BY <1>1, HandlerTypes DEF IndInv, SlotInv
  <1>3. /\ Len(p) \in Nat \ {0} /\ f \in Frame /\ f = p[1] /\ Tail(p) \in Seq(Frame)
        /\ Len(Tail(p)) = Len(p) - 1 /\ (Tail(p) = <<>> <=> Len(p) <= 1)
        /\ \A i \in 1..Len(p) - 1 : Tail(p)[i] = p[i + 1]
    BY <1>2, SeqTail
  <1> HIDE DEF p, f
  <1>4. ~(Len(p) <= 1) => Tail(p)[Len(Tail(p))] = p[Len(p)]
    <2> SUFFICES ASSUME ~(Len(p) <= 1) PROVE Tail(p)[Len(p) - 1] = p[Len(p)]
      BY <1>3
    <2>1. Len(p) - 1 \in 1..Len(p) - 1
      BY <1>3
    <2> QED
      BY <2>1, <1>3
  <1>5. Len(p) <= 1 => f.kind = p[Len(p)].kind
    <2>1. Len(p) <= 1 => Len(p) = 1
      BY <1>3
    <2> QED
      BY <2>1, <1>3
  <1>6. \/ /\ frames' = [frames EXCEPT ![r] = Append(@, f)] /\ HasRoom(frames[r], FrameCap)
           /\ pend' = [pend EXCEPT ![r] = Tail(p)]
           /\ \/ f.kind = "done" /\ Return(r)
              \/ /\ f.kind # "done" /\ rx' = rx
                 /\ hpc' = IF Len(p) = 1 THEN [hpc EXCEPT ![r] = "recv"] ELSE hpc
        \/ /\ frames' = frames /\ pend' = [pend EXCEPT ![r] = <<>>] /\ Return(r)
        \/ /\ frames' = frames /\ pend' = [pend EXCEPT ![r] = Tail(p)]
           /\ \/ f.kind = "done" /\ Return(r)
              \/ f.kind \notin {"role", "seg", "done"} /\ hpc' = hpc /\ rx' = rx
    BY DEF SendFrame, p, f
  <1>7. /\ pend' \in [Requests -> Seq(Frame)]
        /\ \A q \in Requests : q # r => pend'[q] = pend[q]
    <2>1. \A s \in Seq(Frame) : pend' = [pend EXCEPT ![r] = s] =>
            /\ pend' \in [Requests -> Seq(Frame)]
            /\ \A q \in Requests : q # r => pend'[q] = pend[q]
      BY HandlerTypes
    <2>2. <<>> \in Seq(Frame)
      OBVIOUS
    <2> QED
      BY <1>3, <1>6, <2>1, <2>2
  <1>8. /\ rx' \in [Requests -> BOOLEAN] /\ hpc' \in [Requests -> {"idle", "recv", "send", "end"}]
        /\ \A q \in Requests : q # r => rx'[q] = rx[q] /\ hpc'[q] = hpc[q]
    BY <1>6, QueueTypes, HandlerTypes DEF Return
  <1>9. frames' \in [Requests -> Seq(Frame)] /\ \A q \in Requests : Len(frames'[q]) <= FrameCap
    <2>1. CASE frames' = frames
      BY <2>1, ChanTypes
    <2>2. CASE frames' = [frames EXCEPT ![r] = Append(@, f)] /\ HasRoom(frames[r], FrameCap)
      <3>1. /\ Append(frames[r], f) \in Seq(Frame) /\ Len(frames[r]) \in Nat
            /\ Len(Append(frames[r], f)) = Len(frames[r]) + 1
        BY <1>3, ChanTypes, SeqAppend, LenProperties
      <3>2. frames'[r] = Append(frames[r], f) /\ \A q \in Requests : q # r => frames'[q] = frames[q]
        BY <2>2, ChanTypes
      <3>3. Len(frames'[r]) <= FrameCap
        BY <2>2, <3>1, <3>2, ChanTypes DEF HasRoom
      <3>4. \A q \in Requests : Len(frames[q]) <= FrameCap
        BY ChanTypes
      <3> QED
        BY <2>2, <3>1, <3>2, <3>3, <3>4, ChanTypes
    <2> QED
      BY <2>1, <2>2, <1>6
  <1>10. SlotTypesOK'
    BY <1>1, <1>7, <1>8, <1>9, ChanTypes, HandlerTypes DEF SlotTypesOK, HandlersTypeOK
  <1>11. Others(r)
    BY <1>1, <1>7, <1>8 DEF Others, Same
  <1>12. \/ hpc'[r] = "end" /\ ~rx'[r]
         \/ Len(p) <= 1 /\ hpc'[r] = "recv" /\ rx'[r] /\ p[Len(p)].kind \in {"role", "seg"}
         \/ ~(Len(p) <= 1) /\ hpc'[r] = "send" /\ rx'[r] /\ pend'[r] = Tail(p)
    <2>1. CASE Return(r)
      BY <2>1, QueueTypes, HandlerTypes DEF Return
    <2>2. CASE /\ pend' = [pend EXCEPT ![r] = Tail(p)] /\ f.kind # "done" /\ rx' = rx
               /\ hpc' = IF Len(p) = 1 THEN [hpc EXCEPT ![r] = "recv"] ELSE hpc
      <3>1. Len(p) = 1 <=> Len(p) <= 1
        BY <1>3
      <3>2. CASE Len(p) <= 1
        <4>1. hpc' = [hpc EXCEPT ![r] = "recv"]
          BY <2>2, <3>1, <3>2
        <4> QED
          BY <2>2, <3>2, <4>1, <1>2, <1>5, HandlerTypes
      <3>3. CASE ~(Len(p) <= 1)
        <4>1. hpc' = hpc
          BY <2>2, <3>1, <3>3
        <4> QED
          BY <2>2, <3>3, <4>1, <1>1, <1>2, HandlerTypes
      <3> QED
        BY <3>2, <3>3
    <2>3. CASE /\ pend' = [pend EXCEPT ![r] = Tail(p)]
               /\ f.kind \notin {"role", "seg", "done"} /\ hpc' = hpc /\ rx' = rx
      <3>1. ~(Len(p) <= 1)
        BY <2>3, <1>2, <1>5
      <3> QED
        BY <2>3, <3>1, <1>1, <1>2, HandlerTypes
    <2> QED
      BY <2>1, <2>2, <2>3, <1>6
  <1>13. /\ hpc'[r] = "send" => pend'[r] # <<>> /\ pend'[r][Len(pend'[r])] = p[Len(p)]
         /\ rx'[r] <=> hpc'[r] \in {"recv", "send"}
         /\ hpc'[r] # "idle"
    BY <1>3, <1>4, <1>12
  <1>14. SlotInv(r)'
    BY <1>1, <1>2, <1>13 DEF SlotInv
  <1>15. Waiting(r)' => Waiting(r)
    <2>1. CASE hpc'[r] = "end"
      BY <2>1 DEF Waiting
    <2>2. CASE hpc'[r] = "recv"
      BY <2>2, <1>1, <1>12 DEF Waiting, p
    <2>3. CASE hpc'[r] = "send"
      BY <2>3, <1>1, <1>13 DEF Waiting, p
    <2> QED
      BY <2>1, <2>2, <2>3, <1>12
  <1>16. ChanInv(r)'
    <2>1. (Queued(r)' <=> Queued(r)) /\ (Victim(r)' <=> Victim(r))
      BY <1>1 DEF Queued, Victim
    <2>2. ChanInv(r) /\ rx[r]
      BY <1>2 DEF IndInv
    <2> QED
      BY <2>1, <2>2, <1>1, <1>15, TakenKept DEF ChanInv
  <1>17. TypeOK' /\ EngineInv'
    BY <1>1, <1>10, HandlerKeepsRest
  <1> QED
    BY <1>1, <1>11, <1>14, <1>16, <1>17, HandlerStep
-----------------------------------------------------------------------------
(***************************************************************************)
(* The clients: reading, leaving, and the arrival and end of a request.    *)
(***************************************************************************)

\* A step that keeps every slot as far as the invariant goes.
LEMMA AllSame ==
  ASSUME IndInv, UNCHANGED <<queue, req, tx, proc>>, UNCHANGED engineVars, SlotTypesOK',
         \A q \in Requests : Same(q)
  PROVE  IndInv'
  <1>1. UNCHANGED <<epc, cur, maxEff, completion, filled, finish>>
    BY DEF engineVars
  <1>2. SenderOwned' /\ \A q \in Requests : Queued(q)' <=> Queued(q)
    BY <1>1, OwnedKept
  <1>3. ASSUME NEW q \in Requests PROVE SlotInv(q)' /\ ChanInv(q)'
    BY <1>3, <1>1, <1>2, SlotKept DEF IndInv
  <1> QED
    BY <1>2, <1>3, HandlerKeepsRest DEF IndInv

\* Reading a frame touches the frame channel and the wire only.
LEMMA ClientReadInv ==
  ASSUME IndInv, NEW r \in Requests, ClientRead(r), UNCHANGED engineVars
  PROVE  IndInv'
  <1> DEFINE c == frames[r]
  <1>1. /\ c # <<>> /\ wire' = [wire EXCEPT ![r] = Append(@, Head(c))]
        /\ frames' = [frames EXCEPT ![r] = Tail(c)]
        /\ UNCHANGED <<rx, chan, client, hpc, pend, ptoks, ctoks, out>>
        /\ UNCHANGED <<queue, req, tx, proc>>
    BY DEF ClientRead, Keeps, handlerVars
  <1>2. c \in Seq(Frame) /\ Len(c) <= FrameCap /\ wire[r] \in Seq(Frame) /\ FrameCap \in Nat
    BY ChanTypes
  <1> HIDE DEF c
  <1>3. /\ Head(c) \in Frame /\ Tail(c) \in Seq(Frame) /\ Len(c) \in Nat
        /\ Len(Tail(c)) = Len(c) - 1
    BY <1>1, <1>2, SeqTail
  <1>4. Append(wire[r], Head(c)) \in Seq(Frame)
    BY <1>2, <1>3, SeqAppend
  <1>5. wire' \in [Requests -> Seq(Frame)]
    BY <1>1, <1>4, ChanTypes
  <1>6. frames' \in [Requests -> Seq(Frame)] /\ \A q \in Requests : Len(frames'[q]) <= FrameCap
    <2>1. /\ frames' \in [Requests -> Seq(Frame)] /\ frames'[r] = Tail(c)
          /\ \A q \in Requests : q # r => frames'[q] = frames[q]
      BY <1>1, <1>3, ChanTypes
    <2>2. Len(frames'[r]) <= FrameCap
      BY <2>1, <1>2, <1>3
    <2>3. \A q \in Requests : Len(frames[q]) <= FrameCap
      BY ChanTypes
    <2> QED
      BY <2>1, <2>2, <2>3
  <1>7. SlotTypesOK'
    BY <1>1, <1>5, <1>6, QueueTypes, ChanTypes, HandlerTypes DEF SlotTypesOK, HandlersTypeOK
  <1>8. \A q \in Requests : Same(q)
    BY <1>1 DEF Same
  <1> QED
    BY <1>1, <1>7, <1>8, AllSame

\* The end of the body closes the exchange.
LEMMA ClientEofInv ==
  ASSUME IndInv, NEW r \in Requests, ClientEof(r), UNCHANGED engineVars
  PROVE  IndInv'
  <1>1. /\ client[r] = "open" /\ client' = [client EXCEPT ![r] = "closed"]
        /\ UNCHANGED <<rx, chan, frames, wire, hpc, pend, ptoks, ctoks, out>>
        /\ UNCHANGED <<queue, req, tx, proc>>
    BY DEF ClientEof, Keeps, handlerVars
  <1>2. SlotTypesOK'
    BY <1>1, QueueTypes, ChanTypes, HandlerTypes DEF SlotTypesOK, HandlersTypeOK
  <1>3. \A q \in Requests : client'[q] = "idle" <=> client[q] = "idle"
    BY <1>1, ChanTypes
  <1>4. \A q \in Requests : Same(q)
    BY <1>1, <1>3 DEF Same
  <1> QED
    BY <1>1, <1>2, <1>4, AllSame

\* A client that leaves takes its JSON handler with it.
LEMMA ClientGoneInv ==
  ASSUME IndInv, NEW r \in Requests, ClientGone(r), UNCHANGED engineVars
  PROVE  IndInv'
  <1>1. /\ client[r] = "open" /\ client' = [client EXCEPT ![r] = "gone"]
        /\ frames' = [frames EXCEPT ![r] = <<>>] /\ wire' = [wire EXCEPT ![r] = <<>>]
        /\ Return(r) \/ UNCHANGED <<hpc, rx>>
        /\ UNCHANGED <<chan, pend, ptoks, ctoks, out>> /\ UNCHANGED <<queue, req, tx, proc>>
        /\ UNCHANGED <<epc, cur, maxEff, completion, filled, finish>>
    BY DEF ClientGone, Keeps, engineVars
  <1>2. /\ rx' \in [Requests -> BOOLEAN] /\ hpc' \in [Requests -> {"idle", "recv", "send", "end"}]
        /\ \A q \in Requests : q # r => rx'[q] = rx[q] /\ hpc'[q] = hpc[q]
        /\ (hpc'[r] = hpc[r] /\ rx'[r] = rx[r]) \/ (hpc'[r] = "end" /\ ~rx'[r])
    BY <1>1, QueueTypes, HandlerTypes DEF Return
  <1>3. \A q \in Requests : client'[q] = "idle" <=> client[q] = "idle"
    BY <1>1, ChanTypes
  <1>4. frames' \in [Requests -> Seq(Frame)] /\ \A q \in Requests : Len(frames'[q]) <= FrameCap
    <2>1. /\ frames' \in [Requests -> Seq(Frame)] /\ frames'[r] = <<>>
          /\ \A q \in Requests : q # r => frames'[q] = frames[q]
      BY <1>1, ChanTypes
    <2>2. Len(frames'[r]) <= FrameCap
      BY <2>1, ChanTypes
    <2> QED
      BY <2>1, <2>2, ChanTypes
  <1>5. SlotTypesOK'
    <2>1. client' \in [Requests -> {"idle", "open", "closed", "gone", "lost"}]
      BY <1>1, ChanTypes
    <2>2. wire' \in [Requests -> Seq(Frame)]
      BY <1>1, ChanTypes
    <2> QED
      BY <2>1, <2>2, <1>1, <1>2, <1>4, ChanTypes, HandlerTypes DEF SlotTypesOK, HandlersTypeOK
  <1>6. Others(r)
    BY <1>1, <1>2, <1>3 DEF Others, Same
  <1>7. SlotInv(r)'
    <2>1. SlotInv(r)
      BY DEF IndInv
    <2> QED
      BY <2>1, <1>1, <1>2, <1>3 DEF SlotInv
  <1>8. (Waiting(r)' => Waiting(r)) /\ (Victim(r)' <=> Victim(r)) /\ (Queued(r)' <=> Queued(r))
    BY <1>1, <1>2 DEF Waiting, Victim, Queued
  <1>9. ChanInv(r)'
    <2>1. ChanInv(r) /\ (rx'[r] => rx[r])
      BY <1>2 DEF IndInv
    <2> QED
      BY <2>1, <1>1, <1>8, TakenKept DEF ChanInv
  <1> QED
    BY <1>1, <1>5, <1>6, <1>7, <1>9, HandlerKeepsRest, HandlerStep

\* A profile change in a slot the engine does not run, all types kept.
LEMMA SlotChange ==
  ASSUME IndInv, NEW r \in Requests, cur # r, UNCHANGED engineVars,
         queue' \in Seq(Requests), Len(queue') <= QueueCap,
         req' \in [Requests -> Profiles], \A q \in Requests : q # r => req'[q] = req[q],
         tx' \in [Requests -> BOOLEAN], UNCHANGED proc, SlotTypesOK'
  PROVE  TypeOK' /\ EngineInv'
  <1>1. UNCHANGED <<epc, cur, maxEff, completion, filled, finish>>
    BY DEF engineVars
  <1>2. ChannelsTypeOK'
    BY QueueTypes DEF SlotTypesOK, ChannelsTypeOK, QueueCap
  <1>3. EngineTypeOK'
    BY <1>1, EngineTypes DEF EngineTypeOK
  <1>4. cur # NoReq => req'[cur] = req[cur]
    BY EngineTypes
  <1>5. EngineInv'
    BY <1>1, <1>4 DEF IndInv, EngineInv
  <1> QED
    BY <1>2, <1>3, <1>5 DEF TypeOK, SlotTypesOK

\* A slot that is over on both sides becomes idle.
LEMMA ForgetInv ==
  ASSUME IndInv, NEW r \in Requests, cur # r, Forget(r), UNCHANGED engineVars
  PROVE  IndInv'
  <1>1. /\ hpc[r] = "end" /\ ~tx[r]
        /\ client' = [client EXCEPT ![r] = "idle"] /\ req' = [req EXCEPT ![r] = NoProfile]
        /\ hpc' = [hpc EXCEPT ![r] = "idle"] /\ chan' = [chan EXCEPT ![r] = <<>>]
        /\ wire' = [wire EXCEPT ![r] = <<>>] /\ ptoks' = [ptoks EXCEPT ![r] = 0]
        /\ ctoks' = [ctoks EXCEPT ![r] = 0] /\ out' = [out EXCEPT ![r] = 0]
        /\ UNCHANGED <<queue, tx, proc, rx, frames, pend>>
        /\ UNCHANGED <<epc, cur, maxEff, completion, filled, finish>>
    BY DEF Forget, engineVars
  <1>2. NoProfile \in Profiles
    BY ChannelsAssumption DEF NoProfile
  <1>3. req' \in [Requests -> Profiles] /\ \A q \in Requests : q # r => req'[q] = req[q]
    BY <1>1, <1>2, ChanTypes
  <1>4. /\ chan' \in [Requests -> Seq(Event)] /\ chan'[r] = <<>>
        /\ \A q \in Requests : q # r => chan'[q] = chan[q]
        /\ \A q \in Requests : Len(chan'[q]) <= ChanCap
    <2>1. /\ chan' \in [Requests -> Seq(Event)] /\ chan'[r] = <<>>
          /\ \A q \in Requests : q # r => chan'[q] = chan[q]
      BY <1>1, ChanTypes
    <2>2. Len(chan'[r]) <= ChanCap
      BY <2>1, ChanTypes
    <2> QED
      BY <2>1, <2>2, ChanTypes
  <1>5. /\ client' \in [Requests -> {"idle", "open", "closed", "gone", "lost"}]
        /\ client'[r] = "idle" /\ \A q \in Requests : q # r => client'[q] = client[q]
        /\ hpc' \in [Requests -> {"idle", "recv", "send", "end"}]
        /\ hpc'[r] = "idle" /\ \A q \in Requests : q # r => hpc'[q] = hpc[q]
    BY <1>1, ChanTypes, HandlerTypes
  <1>6. /\ ctoks' \in [Requests -> Nat] /\ ptoks' \in [Requests -> Nat]
        /\ out' \in [Requests -> Nat] /\ ctoks'[r] = 0
        /\ \A q \in Requests : q # r => ctoks'[q] = ctoks[q]
    BY <1>1, HandlerTypes
  <1>7. SlotTypesOK'
    <2>1. wire' \in [Requests -> Seq(Frame)]
      BY <1>1, ChanTypes
    <2> QED
      BY <2>1, <1>1, <1>4, <1>5, <1>6, QueueTypes, ChanTypes, HandlerTypes
      DEF SlotTypesOK, HandlersTypeOK
  <1>8. TypeOK' /\ EngineInv'
    BY <1>1, <1>3, <1>7, QueueTypes, SlotChange
  <1>9. SenderOwned' /\ \A q \in Requests : Queued(q)' <=> Queued(q)
    BY <1>1, OwnedKept
  <1>10. ASSUME NEW q \in Requests PROVE SlotInv(q)' /\ ChanInv(q)'
    <2>1. CASE q # r
      BY <2>1, <1>1, <1>4, <1>5, <1>6, <1>9, SlotKept DEF IndInv, Same
    <2>2. CASE q = r
      <3>1. ~rx'[q] /\ ~tx'[q] /\ cur' # q /\ chan'[q] = <<>> /\ ctoks'[q] = 0
        BY <2>2, <1>1, <1>4, <1>6 DEF IndInv, SlotInv
      <3>2. hpc'[q] = "idle" /\ client'[q] = "idle"
        BY <2>2, <1>5
      <3> QED
        BY <3>1, <3>2 DEF SlotInv, ChanInv, Waiting
    <2> QED
      BY <2>1, <2>2
  <1> QED
    BY <1>8, <1>9, <1>10 DEF IndInv

\* A new request enters the queue once, behind all others, with an empty channel.
LEMMA SubmitInv ==
  ASSUME IndInv, NEW r \in Requests, NEW p \in Profiles, Submit(r, p), UNCHANGED engineVars
  PROVE  IndInv'
  <1>1. /\ client[r] = "idle" /\ req' = [req EXCEPT ![r] = p]
        /\ UNCHANGED <<chan, frames, proc, ptoks, ctoks, out>>
        /\ UNCHANGED <<epc, cur, maxEff, completion, filled, finish>>
    BY DEF Submit, engineVars
  <1>2. /\ hpc[r] = "idle" /\ ~tx[r] /\ ~rx[r] /\ cur # r /\ chan[r] = <<>> /\ ctoks[r] = 0
        /\ ~Queued(r)
    BY <1>1 DEF IndInv, SlotInv, SenderOwned
  <1>3. req' \in [Requests -> Profiles] /\ \A q \in Requests : q # r => req'[q] = req[q]
    BY <1>1, ChanTypes
  <1>4. CASE ~HasRoom(queue, QueueCap)
    <2>1. Answer(r, Plain("busy")) /\ UNCHANGED <<queue, tx>>
      BY <1>4 DEF Submit
    <2>2. EndOfDrain(r) /\ hpc'[r] = "end"
      BY <2>1, AnswerEnds, FrameTypes
    <2>3. SlotTypesOK'
      <3>1. /\ chan' \in [Requests -> Seq(Event)] /\ \A q \in Requests : Len(chan'[q]) <= ChanCap
        BY <1>1, ChanTypes
      <3>2. /\ ptoks' \in [Requests -> Nat] /\ ctoks' \in [Requests -> Nat]
            /\ out' \in [Requests -> Nat]
        BY <1>1, HandlerTypes
      <3> QED
        BY <1>1, <2>2, <3>1, <3>2, DrainTypes
    <2>4. TypeOK' /\ EngineInv'
      BY <1>1, <1>2, <1>3, <2>1, <2>3, QueueTypes, SlotChange
    <2>5. SenderOwned' /\ \A q \in Requests : Queued(q)' <=> Queued(q)
      BY <1>1, <2>1, OwnedKept
    <2>6. ASSUME NEW q \in Requests PROVE SlotInv(q)' /\ ChanInv(q)'
      <3>1. CASE q # r
        BY <3>1, <1>1, <1>3, <2>1, <2>2, <2>5, SlotKept DEF IndInv, Same, EndOfDrain
      <3>2. CASE q = r
        <4>1. hpc'[q] = "end" /\ ~rx'[q] /\ client'[q] # "idle"
          BY <3>2, <2>2 DEF EndOfDrain, Concluded
        <4>2. cur' # q /\ ~Queued(q)'
          BY <3>2, <1>1, <1>2, <2>5
        <4> QED
          BY <4>1, <4>2 DEF SlotInv, ChanInv, Waiting
      <3> QED
        BY <3>1, <3>2
    <2> QED
      BY <2>4, <2>5, <2>6 DEF IndInv
  <1>5. CASE HasRoom(queue, QueueCap)
    <2>1. /\ queue' = Append(queue, r) /\ tx' = [tx EXCEPT ![r] = TRUE]
          /\ rx' = [rx EXCEPT ![r] = TRUE] /\ client' = [client EXCEPT ![r] = "open"]
          /\ UNCHANGED wire
          /\ \/ /\ hpc' = [hpc EXCEPT ![r] = "send"]
                /\ pend' = [pend EXCEPT ![r] = <<Plain("role")>>]
             \/ /\ hpc' = [hpc EXCEPT ![r] = "recv"] /\ pend' = pend
      BY <1>5 DEF Submit
    <2>2. /\ queue' \in Seq(Requests) /\ Len(queue) \in Nat /\ Len(queue') = Len(queue) + 1
          /\ queue'[Len(queue) + 1] = r /\ \A i \in 1..Len(queue) : queue'[i] = queue[i]
      BY <2>1, QueueTypes, SeqAppend
    <2>3. Len(queue') <= QueueCap
      BY <1>5, <2>2, QueueTypes DEF HasRoom
    <2>4. \A q \in Requests : Queued(q)' <=> Queued(q) \/ q = r
      <3>1. ASSUME NEW q \in Requests, Queued(q) PROVE Queued(q)'
        BY <3>1, <2>2 DEF Queued
      <3>2. Queued(r)'
        BY <2>2 DEF Queued
      <3>3. ASSUME NEW q \in Requests, Queued(q)', q # r PROVE Queued(q)
        BY <3>3, <2>2 DEF Queued
      <3> QED
        BY <3>1, <3>2, <3>3
    <2>5. /\ tx' \in [Requests -> BOOLEAN] /\ tx'[r] /\ rx' \in [Requests -> BOOLEAN] /\ rx'[r]
          /\ \A q \in Requests : q # r => tx'[q] = tx[q] /\ rx'[q] = rx[q]
      BY <2>1, QueueTypes
    <2>6. /\ client' \in [Requests -> {"idle", "open", "closed", "gone", "lost"}]
          /\ client'[r] = "open" /\ \A q \in Requests : q # r => client'[q] = client[q]
      BY <2>1, ChanTypes
    <2>7. /\ hpc' \in [Requests -> {"idle", "recv", "send", "end"}]
          /\ pend' \in [Requests -> Seq(Frame)]
          /\ \A q \in Requests : q # r => hpc'[q] = hpc[q] /\ pend'[q] = pend[q]
          /\ hpc'[r] \in {"recv", "send"}
          /\ hpc'[r] = "send" => pend'[r] = <<Plain("role")>>
      <3>1. Plain("role") \in Frame
        BY FrameTypes
      <3>2. <<Plain("role")>> \in Seq(Frame)
        BY <3>1
      <3> QED
        BY <2>1, <3>2, HandlerTypes
    <2>8. SlotTypesOK'
      BY <1>1, <2>1, <2>5, <2>6, <2>7, ChanTypes, HandlerTypes DEF SlotTypesOK, HandlersTypeOK
    <2>9. TypeOK' /\ EngineInv'
      BY <1>1, <1>2, <1>3, <2>2, <2>3, <2>5, <2>8, SlotChange
    <2>10. SenderOwned'
      <3>1. \A q \in Requests : tx'[q] <=> Queued(q)' \/ (cur' = q /\ epc' # "panicked")
        BY <1>1, <1>2, <2>4, <2>5 DEF IndInv, SenderOwned
      <3>2. \A q \in Requests : Queued(q)' => cur' # q
        BY <1>1, <1>2, <2>4 DEF IndInv, SenderOwned
      <3>3. \A i, j \in 1..Len(queue') : i # j => queue'[i] # queue'[j]
        <4>1. \A i, j \in 1..Len(queue) : i # j => queue[i] # queue[j]
          BY DEF IndInv, SenderOwned
        <4>2. \A i \in 1..Len(queue) : queue[i] # r
          BY <1>2 DEF Queued
        <4> QED
          BY <2>2, <4>1, <4>2
      <3> QED
        BY <3>1, <3>2, <3>3 DEF SenderOwned
    <2>11. ASSUME NEW q \in Requests PROVE SlotInv(q)' /\ ChanInv(q)'
      <3>1. CASE q # r
        BY <3>1, <1>1, <1>3, <2>4, <2>5, <2>6, <2>7, SlotKept DEF IndInv, Same
      <3>2. CASE q = r
        <4>1. SlotInv(q)'
          <5>1. hpc'[q] = "send" => /\ pend'[q] # <<>>
                                    /\ pend'[q][Len(pend'[q])].kind = "role"
            <6>1. Plain("role").kind = "role"
              BY FrameTypes
            <6> DEFINE s == <<Plain("role")>>
            <6>2. s # <<>> /\ s[Len(s)] = Plain("role")
              OBVIOUS
            <6>3. hpc'[q] = "send" => pend'[q] = s
              BY <3>2, <2>7
            <6> HIDE DEF s
            <6> QED
              BY <6>1, <6>2, <6>3
          <5> QED
            BY <3>2, <5>1, <2>5, <2>6, <2>7 DEF SlotInv
        <4>2. chan'[q] = <<>> /\ ctoks'[q] = 0 /\ cur' # q /\ tx'[q]
          BY <3>2, <1>1, <1>2, <2>5
        <4>3. InOrder(chan'[q], ctoks'[q], tx'[q])
          BY <4>2 DEF InOrder
        <4>4. ChanInv(q)'
          BY <4>2, <4>3 DEF ChanInv
        <4> QED
          BY <4>1, <4>4
      <3> QED
        BY <3>1, <3>2
    <2> QED
      BY <2>9, <2>10, <2>11 DEF IndInv
  <1> QED
    BY <1>4, <1>5
-----------------------------------------------------------------------------
(***************************************************************************)
(* The theorems.                                                           *)
(***************************************************************************)

\* IndInv is inductive: it holds initially and every step keeps it.
LEMMA NextInv == IndInv /\ [Next]_vars => IndInv'
  <1> SUFFICES ASSUME IndInv, [Next]_vars PROVE IndInv'
    OBVIOUS
  <1>1. CASE Engine
    <2>1. CASE EngineRecv
      BY <1>1, <2>1, EngineRecvInv DEF Engine
    <2>2. CASE EngineStart
      BY <1>1, <2>2, EngineStartInv DEF Engine
    <2>3. CASE EngineStep
      BY <1>1, <2>3, EngineStepInv DEF Engine
    <2>4. CASE EnginePush
      BY <1>1, <2>4, EnginePushInv DEF Engine
    <2>5. CASE EngineFinish
      BY <1>1, <2>5, EngineFinishInv DEF Engine
    <2>6. CASE EngineExit
      BY <1>1, <2>6, ProcessInv DEF Engine, EngineExit
    <2> QED
      BY <1>1, <2>1, <2>2, <2>3, <2>4, <2>5, <2>6 DEF Engine, EngineNext
  <1>2. CASE Panic
    BY <1>2, EnginePanicInv DEF Panic
  <1>3. ASSUME NEW r \in Requests, Handler(r) PROVE IndInv'
    <2>1. UNCHANGED engineVars
      BY <1>3 DEF Handler
    <2>2. CASE SendFrame(r)
      BY <2>1, <2>2, SendFrameInv
    <2>3. CASE RecvStart(r)
      BY <2>1, <2>3, RecvStartInv
    <2>4. CASE RecvToken(r)
      BY <2>1, <2>4, RecvTokenInv
    <2>5. CASE RecvStop(r)
      BY <2>1, <2>5, RecvStopInv
    <2>6. CASE RecvDone(r)
      BY <2>1, <2>6, RecvDoneInv
    <2>7. CASE RecvError(r)
      BY <2>1, <2>7, RecvErrorInv
    <2>8. CASE RecvClosed(r)
      BY <2>1, <2>8, RecvClosedInv
    <2> QED
      BY <1>3, <2>2, <2>3, <2>4, <2>5, <2>6, <2>7, <2>8 DEF Handler, HandlerNext
  <1>4. ASSUME NEW r \in Requests, Reader(r) PROVE IndInv'
    BY <1>4, ClientReadInv, ClientEofInv DEF Reader
  <1>5. ASSUME NEW r \in Requests, Arrive(r) PROVE IndInv'
    BY <1>5, SubmitInv DEF Arrive
  <1>6. ASSUME NEW r \in Requests, Leave(r) PROVE IndInv'
    BY <1>6, ClientGoneInv DEF Leave
  <1>7. ASSUME NEW r \in Requests, Reuse(r) PROVE IndInv'
    BY <1>7, ForgetInv DEF Reuse
  <1>8. CASE Shutdown
    BY <1>8, ProcessInv DEF Shutdown
  <1>9. CASE ShutdownExit
    BY <1>9, ProcessInv DEF ShutdownExit
  <1>10. CASE UNCHANGED vars
    <2>1. UNCHANGED <<queue, req, tx, rx, chan, frames, wire, engineVars, handlerVars>>
          /\ UNCHANGED <<client, proc>>
      BY <1>10 DEF vars, channelVars
    <2> QED
      BY <2>1, QueueTypes, ProcessInv
  <1> QED
    BY <1>1, <1>2, <1>3, <1>4, <1>5, <1>6, <1>7, <1>8, <1>9, <1>10 DEF Next, Exited

\* The strengthening behind all the theorems below holds in every reachable state.
THEOREM Invariance == Spec => []IndInv
  <1>1. Init => IndInv
    BY InitInv
  <1>2. IndInv /\ [Next]_vars => IndInv'
    BY NextInv
  <1> QED
    BY <1>1, <1>2, PTL DEF Spec

\* Whatever the capacities and the requests, no variable leaves its type and no
\* channel its capacity (blocking_send and send().await never overfill).
THEOREM TypeCorrect == Spec => []TypeOK
  <1>1. IndInv => TypeOK
    BY DEF IndInv
  <1> QED
    BY <1>1, Invariance, PTL

\* The reply sender of a request is in the queue or with the engine, exactly as
\* long as it lives: dropping it ends the request on the engine side.
THEOREM SenderOwnership == Spec => []SenderOwned
  <1>1. IndInv => SenderOwned
    BY DEF IndInv
  <1> QED
    BY <1>1, Invariance, PTL

\* The running request stays within the columns run_request allocated for it, and
\* within the context limit.
THEOREM CacheCapacity == Spec => []CacheFits
  <1>1. IndInv => CacheFits
    <2> SUFFICES ASSUME IndInv, cur # NoReq, epc # "error"
                 PROVE  /\ filled <= req[cur].prompt + maxEff
                        /\ req[cur].prompt + maxEff <= TMax
                        /\ completion <= maxEff
      BY DEF CacheFits
    <2>1. /\ cur \in Requests /\ epc # "idle" /\ req[cur] \in Profiles
          /\ ~UserError(req[cur]) /\ maxEff = Budget(req[cur])
          /\ filled <= req[cur].prompt + completion /\ completion <= maxEff
      BY EngineTypes, ChanTypes DEF IndInv, EngineInv
    <2>2. req[cur].prompt \in Nat /\ req[cur].prompt + maxEff <= TMax
      BY <2>1, BudgetType
    <2> QED
      BY <2>1, <2>2, EngineTypes
  <1> QED
    BY <1>1, Invariance, PTL

\* Between EngineHandle and drain no token is lost, repeated or overtaken.
THEOREM TokenOrder == Spec => []TokensInOrder
  <1>1. IndInv => TokensInOrder
    BY DEF IndInv, ChanInv, InOrder, TokensInOrder
  <1> QED
    BY <1>1, Invariance, PTL

\* drain sees its channel close without a terminal event only after a panic.
THEOREM ClosedAfterPanicOnly == Spec => []ClosedMeansPanic
  <1>1. IndInv => ClosedMeansPanic
    BY DEF IndInv, ChanInv, Waiting, ClosedMeansPanic
  <1> QED
    BY <1>1, Invariance, PTL

\* run_request feeds the model what the return channel took, the last token late at
\* most: a receiver that is gone costs the forward pass that was due, and no other.
THEOREM FeedsWhatWasTaken == Spec => []FedIsTaken
  <1>1. IndInv => FedIsTaken
    <2> SUFFICES ASSUME IndInv, cur # NoReq, epc # "panicked"
                 PROVE  IF filled = 0 THEN Taken(cur) = 0
                        ELSE filled - req[cur].prompt \in {Taken(cur) - 1, Taken(cur)}
      BY DEF FedIsTaken
    <2>1. cur \in Requests /\ epc # "idle" /\ ChanInv(cur)
      BY EngineTypes DEF IndInv, EngineInv
    <2>2. filled \in Nat /\ completion \in Nat /\ epc \in {"start", "error", "step", "push", "done"}
      BY <2>1, EngineTypes
    <2>3. CASE epc \in {"start", "error"}
      <3>1. chan[cur] = <<>> /\ ctoks[cur] = 0 /\ filled = 0
        BY <2>1, <2>3 DEF ChanInv, IndInv, EngineInv
      <3> QED
        BY <3>1 DEF Taken, Started
    <2>4. CASE epc \in {"step", "push", "done"}
      <3>1. req[cur].prompt \in Nat /\ req[cur].prompt # 0
        BY <2>1, <2>4, CurRuns DEF IndInv, EngineInv, UserError
      <3>2. CASE epc = "step"
        BY <3>1, <3>2, <2>1, <2>2 DEF ChanInv, IndInv, EngineInv
      <3>3. CASE epc = "push"
        BY <3>1, <3>3, <2>1, <2>2 DEF ChanInv, IndInv, EngineInv
      <3>4. CASE epc = "done"
        BY <3>1, <3>4, <2>1, <2>2 DEF ChanInv, IndInv, EngineInv
      <3> QED
        BY <2>4, <3>2, <3>3, <3>4
    <2> QED
      BY <2>2, <2>3, <2>4
  <1> QED
    BY <1>1, Invariance, PTL
=============================================================================
