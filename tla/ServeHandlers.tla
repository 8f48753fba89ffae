--------------------------- MODULE ServeHandlers ---------------------------
(***************************************************************************)
(* The HTTP side of serve/handlers.rs for requests that passed validation: *)
(* submit, the drain loop (engine events -> detok -> think splitter ->     *)
(* frames) and the epilogues of run_chat and run_completion, together with *)
(* the HTTP clients that read the frames or disconnect.                    *)
(*                                                                         *)
(* Detok and splitter appear as what they may do to the token order: they  *)
(* hold some text back and release the rest in order, and a stop string    *)
(* cuts the text somewhere after what was already released.                *)
(***************************************************************************)
EXTENDS ServeChannels

VARIABLES
  hpc,   \* where r's handler task is
  pend,  \* frames the task has yet to send into the frame channel
  ptoks, \* prompt_tokens of drain
  ctoks, \* completion_tokens of drain
  out    \* the text of tokens 1..out has left detok and splitter

handlerVars == <<hpc, pend, ptoks, ctoks, out>>

HandlersTypeOK ==
  /\ hpc \in [Requests -> {"idle", "recv", "send", "end"}]
  /\ pend \in [Requests -> Seq(Frame)]
  /\ ptoks \in [Requests -> Nat]
  /\ ctoks \in [Requests -> Nat]
  /\ out \in [Requests -> Nat]

HandlersInit ==
  /\ hpc = [r \in Requests |-> "idle"]
  /\ pend = [r \in Requests |-> <<>>]
  /\ ptoks = [r \in Requests |-> 0]
  /\ ctoks = [r \in Requests |-> 0]
  /\ out = [r \in Requests |-> 0]
-----------------------------------------------------------------------------
\* Mutant: the receiver is leaked.
ReturnLeakingReceiver(r) ==
  /\ hpc' = [hpc EXCEPT ![r] = "end"]
  /\ UNCHANGED rx

\* The task returns: it drops the receiver and the frame sender.
Return(r) ==
  /\ hpc' = [hpc EXCEPT ![r] = "end"]
  /\ rx' = [rx EXCEPT ![r] = FALSE]

\* Text of the tokens lo..hi as segments: none when there is no such token.
Text(lo, hi) == IF lo > hi THEN <<>> ELSE <<Segment(lo, hi)>>

\* The frames run_chat and run_completion end a stream with.
Epilogue(p, why, pt, ct) ==
  IF ~p.chat THEN <<FinishWith(why, pt, ct), Plain("done")>>
  ELSE <<Finish(why)>> \o (IF p.usage THEN <<UsageOf(pt, ct)>> ELSE <<>>) \o <<Plain("done")>>

\* A JSON answer leaves in one piece and ends the exchange.
Answer(r, frame) ==
  /\ wire' = [wire EXCEPT ![r] = Append(@, frame)]
  /\ client' = [client EXCEPT ![r] = "closed"]
  /\ Return(r)
  /\ UNCHANGED pend

\* Mutant: the held-back text is delivered after the epilogue has begun.
ConcludeTailLast(r, segs, hi, why, pt, ct) ==
  LET e == Epilogue(req[r], why, pt, ct) IN
  IF req[r].sse
    THEN /\ pend' = [pend EXCEPT ![r] = <<Head(e)>> \o segs \o Tail(e)]
         /\ hpc' = [hpc EXCEPT ![r] = "send"]
         /\ UNCHANGED <<rx, wire, client>>
    ELSE Answer(r, Body(hi, why, pt, ct))

\* The drain loop is over: segs is the text still to deliver, text ends at hi.
Conclude(r, segs, hi, why, pt, ct) ==
  IF req[r].sse
    THEN /\ pend' = [pend EXCEPT ![r] = segs \o Epilogue(req[r], why, pt, ct)]
         /\ hpc' = [hpc EXCEPT ![r] = "send"]
         /\ UNCHANGED <<rx, wire, client>>
    ELSE Answer(r, Body(hi, why, pt, ct))

\* A client sends request p; the handler submits it with a fresh return channel.
\* A full queue is answered 429. run_chat opens the stream with a role frame.
Submit(r, p) ==
  /\ proc = "up" /\ client[r] = "idle"
  /\ req' = [req EXCEPT ![r] = p]
  /\ IF HasRoom(queue, QueueCap)
       THEN /\ queue' = Append(queue, r)
            /\ tx' = [tx EXCEPT ![r] = TRUE]
            /\ rx' = [rx EXCEPT ![r] = TRUE]
            /\ client' = [client EXCEPT ![r] = "open"]
            /\ IF p.sse /\ p.chat
                 THEN /\ hpc' = [hpc EXCEPT ![r] = "send"]
                      /\ pend' = [pend EXCEPT ![r] = <<Plain("role")>>]
                 ELSE /\ hpc' = [hpc EXCEPT ![r] = "recv"]
                      /\ UNCHANGED pend
            /\ UNCHANGED wire
       ELSE /\ Answer(r, Plain("busy"))
            /\ UNCHANGED <<queue, tx>>
  /\ UNCHANGED <<chan, frames, proc, ptoks, ctoks, out>>

Keeps == UNCHANGED <<queue, req, tx, proc>>

\* ftx.send(..).await: a failed send of the role frame or of a segment cancels
\* the request; the sends of the epilogue ignore the failure.
SendFrame(r) ==
  /\ proc # "exited" /\ hpc[r] = "send"
  /\ LET f == Head(pend[r]) IN
       \/ /\ client[r] = "open" /\ HasRoom(frames[r], FrameCap)
          /\ frames' = [frames EXCEPT ![r] = Append(@, f)]
          /\ pend' = [pend EXCEPT ![r] = Tail(@)]
          /\ IF f.kind = "done" THEN Return(r)
             ELSE /\ hpc' = IF Len(pend[r]) = 1 THEN [hpc EXCEPT ![r] = "recv"] ELSE hpc
                  /\ UNCHANGED rx
       \/ /\ client[r] # "open" /\ f.kind \in {"role", "seg"}
          /\ pend' = [pend EXCEPT ![r] = <<>>]
          /\ Return(r)
          /\ UNCHANGED frames
       \/ /\ client[r] # "open" /\ f.kind \notin {"role", "seg"}
          /\ pend' = [pend EXCEPT ![r] = Tail(@)]
          /\ IF f.kind = "done" THEN Return(r) ELSE UNCHANGED <<hpc, rx>>
          /\ UNCHANGED frames
  /\ UNCHANGED <<chan, client, wire, ptoks, ctoks, out>> /\ Keeps
-----------------------------------------------------------------------------
\* The next engine event of the drain loop, taken off the return channel.
Receives(r, kind) ==
  /\ proc # "exited" /\ hpc[r] = "recv"
  /\ chan[r] # <<>> /\ Head(chan[r]).kind = kind
  /\ chan' = [chan EXCEPT ![r] = Tail(@)]
  /\ UNCHANGED frames /\ Keeps

\* Start: the prompt length for the usage; a client that left is noticed here.
RecvStart(r) ==
  /\ Receives(r, "start")
  /\ ptoks' = [ptoks EXCEPT ![r] = Head(chan[r]).p]
  /\ IF req[r].sse /\ client[r] # "open" THEN Return(r) ELSE UNCHANGED <<hpc, rx>>
  /\ UNCHANGED <<client, wire, pend, ctoks, out>>

\* Mutant: only tokens that release text are counted.
RecvTokenCountingText(r) ==
  /\ Receives(r, "token")
  /\ \E hi \in out[r]..Head(chan[r]).n :
       /\ out' = [out EXCEPT ![r] = hi]
       /\ ctoks' = [ctoks EXCEPT ![r] = IF hi > out[r] THEN @ + 1 ELSE @]
       /\ IF req[r].sse /\ hi > out[r]
            THEN /\ pend' = [pend EXCEPT ![r] = Text(out[r] + 1, hi)]
                 /\ hpc' = [hpc EXCEPT ![r] = "send"]
            ELSE UNCHANGED <<pend, hpc>>
  /\ UNCHANGED <<rx, client, wire, ptoks>>

\* Token: counted, pushed through detok and splitter, which release the text of
\* some tokens and hold back the rest; a streaming handler then awaits the send.
RecvToken(r) ==
  /\ Receives(r, "token")
  /\ ctoks' = [ctoks EXCEPT ![r] = @ + 1]
  /\ \E hi \in out[r]..Head(chan[r]).n :
       /\ out' = [out EXCEPT ![r] = hi]
       /\ IF req[r].sse /\ hi > out[r]
            THEN /\ pend' = [pend EXCEPT ![r] = Text(out[r] + 1, hi)]
                 /\ hpc' = [hpc EXCEPT ![r] = "send"]
            ELSE UNCHANGED <<pend, hpc>>
  /\ UNCHANGED <<rx, client, wire, ptoks>>

\* Token that completes a stop string: the text is cut at hi; mid marks what the
\* push itself releases, the splitter's finish flushes the rest.
RecvStop(r) ==
  /\ Receives(r, "token") /\ req[r].stops
  /\ ctoks' = [ctoks EXCEPT ![r] = @ + 1]
  /\ \E hi \in out[r]..Head(chan[r]).n : \E mid \in out[r]..hi :
       /\ out' = [out EXCEPT ![r] = hi]
       /\ Conclude(r, Text(out[r] + 1, mid) \o Text(mid + 1, hi), hi, "stop",
                   ptoks[r], ctoks[r] + 1)
  /\ UNCHANGED ptoks

\* Mutant: the held-back tail is forgotten.
RecvDoneNoFlush(r) ==
  /\ Receives(r, "done")
  /\ LET e == Head(chan[r]) IN
       /\ ptoks' = [ptoks EXCEPT ![r] = e.p]
       /\ Conclude(r, <<>>, out[r], e.why, e.p, e.n)
       /\ ctoks' = [ctoks EXCEPT ![r] = e.n]
  /\ out' = [out EXCEPT ![r] = ctoks[r]]

\* Done: the engine's usage replaces the counts; the held-back tail is flushed.
RecvDone(r) ==
  /\ Receives(r, "done")
  /\ LET e == Head(chan[r]) IN
       /\ ptoks' = [ptoks EXCEPT ![r] = e.p]
       /\ Conclude(r, Text(out[r] + 1, ctoks[r]), ctoks[r], e.why, e.p, e.n)
       /\ ctoks' = [ctoks EXCEPT ![r] = e.n]
  /\ out' = [out EXCEPT ![r] = ctoks[r]]

\* Mutant: the regular epilogue follows the error frame.
RecvErrorFallingThrough(r) ==
  /\ Receives(r, "error")
  /\ IF req[r].sse
       THEN /\ pend' = [pend EXCEPT ![r] = <<Plain("error")>> \o Epilogue(req[r], "stop", 0, 0)]
            /\ hpc' = [hpc EXCEPT ![r] = "send"]
            /\ UNCHANGED <<rx, wire, client>>
       ELSE Answer(r, Plain("bad"))
  /\ UNCHANGED <<ptoks, ctoks, out>>

\* Error: an error frame and [DONE] on a stream, a 400 otherwise; no tail.
RecvError(r) ==
  /\ Receives(r, "error")
  /\ IF req[r].sse
       THEN /\ pend' = [pend EXCEPT ![r] = <<Plain("error"), Plain("done")>>]
            /\ hpc' = [hpc EXCEPT ![r] = "send"]
            /\ UNCHANGED <<rx, wire, client>>
       ELSE Answer(r, Plain("bad"))
  /\ UNCHANGED <<ptoks, ctoks, out>>

\* recv() returns None: the sender is gone and the channel is empty. The loop
\* ends with the initial finish_reason "stop" and no error.
RecvClosed(r) ==
  /\ proc # "exited" /\ hpc[r] = "recv" /\ chan[r] = <<>> /\ ~tx[r]
  /\ Conclude(r, Text(out[r] + 1, ctoks[r]), ctoks[r], "stop", ptoks[r], ctoks[r])
  /\ out' = [out EXCEPT ![r] = ctoks[r]]
  /\ UNCHANGED <<chan, frames, ptoks, ctoks>> /\ Keeps

HandlerNext(r) ==
  \/ SendFrame(r)
  \/ RecvStart(r) \/ RecvToken(r) \/ RecvStop(r)
  \/ RecvDone(r) \/ RecvError(r) \/ RecvClosed(r)
-----------------------------------------------------------------------------
\* hyper writes the next frame to the client, or ends the body once the task
\* has dropped the frame sender and the channel is empty.
ClientRead(r) ==
  /\ proc # "exited" /\ client[r] = "open" /\ frames[r] # <<>>
  /\ wire' = [wire EXCEPT ![r] = Append(@, Head(frames[r]))]
  /\ frames' = [frames EXCEPT ![r] = Tail(@)]
  /\ UNCHANGED <<rx, chan, client, handlerVars>> /\ Keeps

ClientEof(r) ==
  /\ proc # "exited" /\ client[r] = "open" /\ frames[r] = <<>> /\ hpc[r] = "end"
  /\ client' = [client EXCEPT ![r] = "closed"]
  /\ UNCHANGED <<rx, chan, frames, wire, handlerVars>> /\ Keeps

\* The client disconnects. The body of a stream is dropped, and with it the frame
\* receiver; the future of a JSON handler is dropped, and with it the receiver.
\* What a client that left has read no longer matters.
ClientGone(r) ==
  /\ proc # "exited" /\ client[r] = "open"
  /\ client' = [client EXCEPT ![r] = "gone"]
  /\ frames' = [frames EXCEPT ![r] = <<>>]
  /\ wire' = [wire EXCEPT ![r] = <<>>]
  /\ IF req[r].sse THEN UNCHANGED <<hpc, rx>> ELSE Return(r)
  /\ UNCHANGED <<chan, pend, ptoks, ctoks, out>> /\ Keeps

\* A slot whose request is over on both sides serves another request.
Forget(r) ==
  /\ proc # "exited" /\ client[r] \in {"closed", "gone"} /\ hpc[r] = "end" /\ ~tx[r]
  /\ client' = [client EXCEPT ![r] = "idle"]
  /\ req' = [req EXCEPT ![r] = NoProfile]
  /\ hpc' = [hpc EXCEPT ![r] = "idle"]
  /\ chan' = [chan EXCEPT ![r] = <<>>]
  /\ wire' = [wire EXCEPT ![r] = <<>>]
  /\ ptoks' = [ptoks EXCEPT ![r] = 0]
  /\ ctoks' = [ctoks EXCEPT ![r] = 0]
  /\ out' = [out EXCEPT ![r] = 0]
  /\ UNCHANGED <<queue, tx, proc, rx, frames, pend>>
=============================================================================
