---------------------------- MODULE ServeEngine ----------------------------
(***************************************************************************)
(* The engine thread of serve/engine.rs: a FIFO loop that takes one        *)
(* request at a time off the submit queue, checks it, prefills a fresh KV  *)
(* cache, decodes token by token with blocking sends into the request's    *)
(* return channel, and releases the request. A panic in a request drops    *)
(* the request's sender, waits a grace period and exits the process.       *)
(***************************************************************************)
EXTENDS ServeChannels

VARIABLES
  epc,         \* where the engine thread is
  cur,         \* the request being run
  maxEff,      \* max_eff of run_request
  completion,  \* completion of run_request
  filled,      \* columns of the request's KV cache written so far
  finish       \* the FinishReason about to be sent

engineVars == <<epc, cur, maxEff, completion, filled, finish>>

EngineTypeOK ==
  /\ epc \in {"idle", "start", "step", "push", "done", "error", "panicked"}
  /\ cur \in Requests \cup {NoReq}
  /\ maxEff \in Nat
  /\ completion \in Nat
  /\ filled \in Nat
  /\ finish \in {"none", "stop", "length"}

EngineInit ==
  /\ epc = "idle" /\ cur = NoReq
  /\ maxEff = 0 /\ completion = 0 /\ filled = 0
  /\ finish = "none"
-----------------------------------------------------------------------------
\* Every variable of the shared channels but the ones an engine step may change.
EngineKeeps == UNCHANGED <<req, rx, frames, client, wire>>

\* Mutant: the sender outlives the request.
ReleaseKeepingSender(r) ==
  /\ UNCHANGED tx
  /\ cur' = NoReq /\ epc' = "idle"
  /\ maxEff' = 0 /\ completion' = 0 /\ filled' = 0 /\ finish' = "none"

\* The sink, and with it the reply sender, is dropped; back to blocking_recv.
Release(r) ==
  /\ tx' = [tx EXCEPT ![r] = FALSE]
  /\ cur' = NoReq /\ epc' = "idle"
  /\ maxEff' = 0 /\ completion' = 0 /\ filled' = 0 /\ finish' = "none"

\* Mutants: one event too many fits; a closed channel is not noticed while waiting.
CanSendOffByOne(r) == ~rx[r] \/ Len(chan[r]) <= ChanCap
CanSendOnlyIfRoom(r) == HasRoom(chan[r], ChanCap)

\* blocking_send: waits for room unless the receiver is gone.
CanSend(r) == ~rx[r] \/ HasRoom(chan[r], ChanCap)

\* What blocking_send leaves in the channel (a closed channel takes nothing).
Sent(r, e) == IF rx[r] THEN [chan EXCEPT ![r] = Append(@, e)] ELSE chan

\* blocking_recv of the next request. One whose receiver is already gone is
\* skipped; one that fails the checks of run_request gets a user error.
EngineRecv ==
  /\ proc # "exited" /\ epc = "idle" /\ queue # <<>>
  /\ LET r == Head(queue) IN
       /\ queue' = Tail(queue)
       /\ \/ /\ ~rx[r]
             /\ tx' = [tx EXCEPT ![r] = FALSE]
             /\ UNCHANGED engineVars
          \/ /\ rx[r] /\ UserError(req[r])
             /\ cur' = r /\ epc' = "error"
             /\ UNCHANGED <<tx, maxEff, completion, filled, finish>>
          \/ /\ rx[r] /\ ~UserError(req[r])
             /\ cur' = r /\ epc' = "start"
             /\ maxEff' = Budget(req[r])
             /\ UNCHANGED <<tx, completion, filled, finish>>
  /\ UNCHANGED <<chan, proc>> /\ EngineKeeps

\* sink.start: the prompt length, its send error ignored.
EngineStart ==
  /\ proc # "exited" /\ epc = "start" /\ CanSend(cur)
  /\ chan' = Sent(cur, Start(req[cur].prompt))
  /\ epc' = "step"
  /\ UNCHANGED <<queue, tx, proc, cur, maxEff, completion, filled, finish>> /\ EngineKeeps

\* The cache after the forward pass that is due: the prefill of the prompt into a
\* fresh cache, or one more column for the token that was pushed last.
Forwarded == IF filled = 0 THEN req[cur].prompt ELSE filled + 1

\* Mutants: the length stop comes one token early; the EOS token is not counted.
EngineStepEarly ==
  /\ proc # "exited" /\ epc = "step"
  /\ IF completion + 1 >= maxEff
       THEN finish' = "length" /\ epc' = "done" ELSE epc' = "push" /\ UNCHANGED finish
  /\ filled' = Forwarded
  /\ UNCHANGED <<queue, tx, chan, proc, cur, maxEff, completion>> /\ EngineKeeps
EngineStepEosUncounted ==
  /\ proc # "exited" /\ epc = "step"
  /\ \/ finish' = (IF completion >= maxEff THEN "length" ELSE "stop") /\ epc' = "done"
     \/ completion < maxEff /\ epc' = "push" /\ UNCHANGED finish
  /\ filled' = Forwarded
  /\ UNCHANGED <<queue, tx, chan, proc, cur, maxEff, completion>> /\ EngineKeeps

\* From one push to the next, all of it inside the thread: the forward pass, then
\* step_token's budget check, then the sampled token, which is an EOS token
\* (counted, not emitted) or one to emit. Whoever drops the receiver meanwhile is
\* noticed by the next push only.
EngineStep ==
  /\ proc # "exited" /\ epc = "step"
  /\ filled' = Forwarded
  /\ \/ /\ completion >= maxEff
        /\ finish' = "length" /\ epc' = "done"
        /\ UNCHANGED completion
     \/ /\ completion < maxEff
        /\ completion' = completion + 1
        /\ finish' = "stop" /\ epc' = "done"
     \/ /\ completion < maxEff
        /\ epc' = "push"
        /\ UNCHANGED <<completion, finish>>
  /\ UNCHANGED <<queue, tx, chan, proc, cur, maxEff>> /\ EngineKeeps

\* Mutant: the send error is ignored.
EnginePushIgnoringError ==
  /\ proc # "exited" /\ epc = "push" /\ CanSend(cur)
  /\ completion' = completion + 1
  /\ IF completion + 1 >= maxEff
       THEN finish' = "length" /\ epc' = "done"
       ELSE epc' = "step" /\ UNCHANGED finish
  /\ chan' = Sent(cur, Token(completion + 1))
  /\ UNCHANGED <<queue, proc, tx, cur, maxEff, filled>> /\ EngineKeeps

\* push_token: a send error cancels the request; otherwise the token is counted,
\* and either the budget is reached or the token is the one to feed next.
EnginePush ==
  /\ proc # "exited" /\ epc = "push" /\ CanSend(cur)
  /\ \/ /\ ~rx[cur]
        /\ Release(cur)
     \/ /\ rx[cur]
        /\ completion' = completion + 1
        /\ IF completion + 1 >= maxEff
             THEN finish' = "length" /\ epc' = "done"
             ELSE epc' = "step" /\ UNCHANGED finish
        /\ UNCHANGED <<tx, cur, maxEff, filled>>
  /\ chan' = Sent(cur, Token(completion + 1))
  /\ UNCHANGED <<queue, proc>> /\ EngineKeeps

\* Mutant: try_send, so that the terminal event is lost on a full channel.
EngineFinishTrySend ==
  /\ proc # "exited" /\ epc \in {"done", "error"}
  /\ chan' = IF HasRoom(chan[cur], ChanCap)
               THEN Sent(cur, IF epc = "error" THEN Failed
                              ELSE Done(req[cur].prompt, completion, finish))
               ELSE chan
  /\ Release(cur)
  /\ UNCHANGED <<queue, proc>> /\ EngineKeeps

\* sink.finish or sink.user_error: the terminal event, send error ignored.
EngineFinish ==
  /\ proc # "exited" /\ epc \in {"done", "error"} /\ CanSend(cur)
  /\ chan' = Sent(cur, IF epc = "error" THEN Failed
                       ELSE Done(req[cur].prompt, completion, finish))
  /\ Release(cur)
  /\ UNCHANGED <<queue, proc>> /\ EngineKeeps

\* A panic in the prefill, a forward or the sampling: the unwinding drops the
\* reply sender, then engine_main sleeps its grace period.
EnginePanic ==
  /\ proc # "exited" /\ epc = "step"
  /\ tx' = [tx EXCEPT ![cur] = FALSE]
  /\ epc' = "panicked"
  /\ UNCHANGED <<queue, chan, proc, cur, maxEff, completion, filled, finish>> /\ EngineKeeps

\* The grace period is over: std::process::exit(1).
EngineExit ==
  /\ proc # "exited" /\ epc = "panicked"
  /\ proc' = "exited"
  /\ client' = [r \in Requests |-> IF client[r] = "open" THEN "lost" ELSE client[r]]
  /\ UNCHANGED <<queue, req, tx, rx, chan, frames, wire, engineVars>>

\* The steps the thread owes as long as the process is up.
EngineNext ==
  EngineRecv \/ EngineStart \/ EngineStep \/ EnginePush \/ EngineFinish \/ EngineExit
=============================================================================
