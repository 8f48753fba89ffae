------------------------------- MODULE Serve -------------------------------
(***************************************************************************)
(* The server: the engine thread, one handler task per request, the HTTP   *)
(* clients and the process, over the channels of ServeChannels.            *)
(***************************************************************************)
EXTENDS ServeEngine, ServeHandlers

vars == <<channelVars, engineVars, handlerVars>>

\* Ctrl-C: axum takes no new request and waits for the open connections.
Shutdown ==
  /\ proc = "up"
  /\ proc' = "draining"
  /\ UNCHANGED <<queue, req, tx, rx, chan, frames, client, wire, engineVars, handlerVars>>

\* Mutant: a connection its client has left is waited for.
ShutdownExitWaitingForAll ==
  /\ proc = "draining" /\ \A r \in Requests : client[r] = "idle"
  /\ proc' = "exited"
  /\ UNCHANGED <<queue, req, tx, rx, chan, frames, client, wire, engineVars, handlerVars>>

\* Every connection is closed: main returns and the process ends.
ShutdownExit ==
  /\ proc = "draining" /\ \A r \in Requests : client[r] # "open"
  /\ proc' = "exited"
  /\ UNCHANGED <<queue, req, tx, rx, chan, frames, client, wire, engineVars, handlerVars>>

\* The process is gone for good.
Exited == proc = "exited" /\ UNCHANGED vars

Init == ChannelsInit /\ EngineInit /\ HandlersInit

Engine     == EngineNext /\ UNCHANGED handlerVars
Panic      == EnginePanic /\ UNCHANGED handlerVars
Handler(r) == HandlerNext(r) /\ UNCHANGED engineVars
Reader(r)  == (ClientRead(r) \/ ClientEof(r)) /\ UNCHANGED engineVars
Arrive(r)  == (\E p \in Profiles : Submit(r, p)) /\ UNCHANGED engineVars
Leave(r)   == ClientGone(r) /\ UNCHANGED engineVars
Reuse(r)   == cur # r /\ Forget(r) /\ UNCHANGED engineVars

Next ==
  \/ Engine
  \/ Panic
  \/ \E r \in Requests : Handler(r) \/ Reader(r) \/ Arrive(r) \/ Leave(r) \/ Reuse(r)
  \/ Shutdown \/ ShutdownExit
  \/ Exited

Spec == Init /\ [][Next]_vars

\* The engine thread is never descheduled for good, tokio polls every ready
\* task, and a client that stays connected keeps reading its stream.
Fairness ==
  /\ WF_vars(Engine)
  /\ \A r \in Requests : WF_vars(Handler(r)) /\ WF_vars(Reader(r))
  /\ WF_vars(ShutdownExit)

FairSpec == Spec /\ Fairness
-----------------------------------------------------------------------------
\* All variables keep their types, and every channel its capacity.
TypeOK == ChannelsTypeOK /\ EngineTypeOK /\ HandlersTypeOK

\* The request whose run panicked.
Victim(r) == epc = "panicked" /\ cur = r

\* r waits in the submit queue.
Queued(r) == \E i \in 1..Len(queue) : queue[i] = r

\* A live reply sender sits in the queue or with the engine, in one place only:
\* the drop of a sender really ends its request.
SenderOwned ==
  /\ \A r \in Requests : tx[r] <=> Queued(r) \/ (cur = r /\ epc # "panicked")
  /\ \A r \in Requests : Queued(r) => cur # r
  /\ \A i, j \in 1..Len(queue) : i # j => queue[i] # queue[j]

\* The KV cache of the running request is never written past prompt_len +
\* max_tokens_effective columns, nor past the context limit.
CacheFits ==
  cur # NoReq /\ epc # "error" =>
    /\ filled <= req[cur].prompt + maxEff
    /\ req[cur].prompt + maxEff <= TMax
    /\ completion <= maxEff

\* 1 if a Start event, which is not a token, is still at the head of channel c.
Started(c) == IF c # <<>> /\ Head(c).kind = "start" THEN 1 ELSE 0

\* The tokens r's return channel has taken so far: those the handler counted and
\* those it has yet to receive. Nothing adds to them once the receiver is gone.
Taken(r) == ctoks[r] + Len(chan[r]) - Started(chan[r])

\* The tokens in a return channel are the ones right after those the handler
\* counted, and with them they are all the engine has pushed: none is lost,
\* repeated or overtaken between the engine and drain.
TokensInOrder ==
  \A r \in Requests : rx[r] =>
    /\ \A i \in 1..Len(chan[r]) :
         chan[r][i].kind = "token" => chan[r][i].n = ctoks[r] + i - Started(chan[r])
    /\ cur = r /\ epc \in {"step", "push"} => completion = Taken(r)

\* A channel that closes on a handler still waiting for the terminal event is
\* the mark of a panic, and of nothing else.
ClosedMeansPanic ==
  \A r \in Requests :
    hpc[r] = "recv" /\ chan[r] = <<>> /\ ~tx[r] => Victim(r)

\* The model is fed in step with the return channel: before the prefill the channel
\* took no token, after it the model was fed the tokens the channel took, all of
\* them or all but the last. As a dropped receiver takes no more, it costs the one
\* forward pass that was due (the prefill, or the token pushed just before the
\* drop) and no further one.
FedIsTaken ==
  cur # NoReq /\ epc # "panicked" =>
    IF filled = 0 THEN Taken(cur) = 0
    ELSE filled - req[cur].prompt \in {Taken(cur) - 1, Taken(cur)}
-----------------------------------------------------------------------------
\* Every exchange ends: the client gets its whole answer, leaves, or loses the
\* connection to a process exit.
EveryExchangeEnds ==
  \A r \in Requests : (client[r] = "open") ~> (client[r] # "open")

\* A client that left does not hold the engine or the queue forever.
EngineFreed ==
  \A r \in Requests : (client[r] = "gone") ~> (~tx[r] \/ proc = "exited")

\* A graceful shutdown completes.
ShutdownCompletes == (proc = "draining") ~> (proc = "exited")
-----------------------------------------------------------------------------
(***************************************************************************)
(* The inductive invariant behind the safety properties above.             *)
(***************************************************************************)
Terminal(e) == e.kind \in {"done", "error"}

\* r's handler has not yet seen the end of the generation.
Waiting(r) ==
  \/ hpc[r] = "recv"
  \/ hpc[r] = "send" /\ pend[r][Len(pend[r])].kind \in {"role", "seg"}

\* An idle slot carries nothing over; the receiver lives as long as the task; the
\* frames still to send end in one that decides how the task goes on.
SlotInv(r) ==
  /\ client[r] = "idle" <=> hpc[r] = "idle"
  /\ client[r] = "idle" => ~tx[r] /\ cur # r /\ chan[r] = <<>> /\ ctoks[r] = 0
  /\ rx[r] <=> hpc[r] \in {"recv", "send"}
  /\ hpc[r] = "send" =>
       pend[r] # <<>> /\ pend[r][Len(pend[r])].kind \in {"role", "seg", "done"}

\* What the engine thread knows about the request it runs.
EngineInv ==
  /\ epc = "idle" <=> cur = NoReq
  /\ epc \in {"idle", "start", "error"} => completion = 0 /\ filled = 0
  /\ epc \notin {"idle", "error"} =>
       /\ ~UserError(req[cur]) /\ maxEff = Budget(req[cur])
       /\ filled <= req[cur].prompt + completion
       /\ completion <= maxEff
  /\ epc = "step" => filled = IF completion = 0 THEN 0 ELSE req[cur].prompt + completion - 1
  /\ epc = "push" => completion < maxEff /\ filled = req[cur].prompt + completion
  /\ epc = "done" => filled >= req[cur].prompt

\* The events of channel c: a Start at its head at most, a terminal event at its
\* end at most and only once the sender is gone, in between the tokens that
\* follow the n already counted.
InOrder(c, n, live) ==
  \A i \in 1..Len(c) :
    /\ c[i].kind = "start" => i = 1
    /\ Terminal(c[i]) => i = Len(c) /\ ~live
    /\ c[i].kind = "token" => c[i].n = n + i - Started(c)

\* The return channel of r: empty until the engine starts on r, then in order,
\* holding all that was pushed and not yet counted, and closed only at the end.
ChanInv(r) ==
  /\ Queued(r) \/ (cur = r /\ epc \in {"start", "error"}) => chan[r] = <<>> /\ ctoks[r] = 0
  /\ rx[r] => InOrder(chan[r], ctoks[r], tx[r])
  /\ cur = r /\ epc \in {"step", "push"} => completion = Taken(r)
  /\ cur = r /\ epc = "done" => filled - req[r].prompt \in {Taken(r) - 1, Taken(r)}
  /\ Waiting(r) =>
       tx[r] \/ Victim(r) \/ (chan[r] # <<>> /\ Terminal(chan[r][Len(chan[r])]))

IndInv ==
  /\ TypeOK /\ SenderOwned /\ EngineInv
  /\ \A r \in Requests : SlotInv(r) /\ ChanInv(r)
=============================================================================
