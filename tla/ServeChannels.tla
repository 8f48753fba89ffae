--------------------------- MODULE ServeChannels ---------------------------
(***************************************************************************)
(* The channels and the per-request data that the engine thread            *)
(* (serve/engine.rs) and the axum handlers (serve/handlers.rs) share: the  *)
(* bounded submit queue, one bounded return channel per request, and one   *)
(* bounded SSE frame channel per streaming request.                        *)
(*                                                                         *)
(* Tokens are numbered 1, 2, ... in the order the engine pushes them, so a *)
(* piece of text is an interval lo..hi of token numbers: what the text     *)
(* says is irrelevant here, which tokens it stands for is not.             *)
(***************************************************************************)
EXTENDS Integers, Sequences

CONSTANTS
  Requests,    \* request slots; a slot is reused once its request is over
  Profiles,    \* the requests clients may make, see Profile below
  QueueDepth,  \* EngineConfig.queue_depth
  ChanCap,     \* capacity of the return channel (4 in submit)
  FrameCap,    \* capacity of the SSE frame channel (8 in run_chat/run_completion)
  TMax,        \* EngineConfig.t_max
  Omitted,     \* max_tokens left out by the client
  NoReq        \* no request

\* What a client asks for, after validation: an SSE stream or one JSON body, on
\* the chat or the completions endpoint, with a usage chunk, with stop strings;
\* the tokenized prompt length (or a prompt the tokenizer refuses); max_tokens.
Profile == [sse : BOOLEAN, chat : BOOLEAN, usage : BOOLEAN, stops : BOOLEAN,
            encodes : BOOLEAN, prompt : Nat, max : Nat \cup {Omitted}]

ASSUME ChannelsAssumption ==
  /\ QueueDepth \in Nat
  /\ ChanCap \in Nat \ {0}
  /\ FrameCap \in Nat \ {0}
  /\ TMax \in Nat
  /\ Omitted \notin Nat
  /\ NoReq \notin Requests
  /\ Profiles \subseteq Profile /\ Profiles # {}

VARIABLES
  queue,   \* the submit queue, oldest request first
  req,     \* req[r]: the profile of the request in slot r
  tx,      \* tx[r]: the engine side still owns r's reply sender
  rx,      \* rx[r]: the handler still owns r's receiver
  chan,    \* chan[r]: the events in r's return channel
  frames,  \* frames[r]: the SSE frames in r's frame channel
  client,  \* client[r]: the HTTP client of r
  wire,    \* wire[r]: the frames the client of r has received
  proc     \* the server process

channelVars == <<queue, req, tx, rx, chan, frames, client, wire, proc>>
-----------------------------------------------------------------------------
\* The profile of a slot that holds no request.
NoProfile == CHOOSE p \in Profiles : TRUE

\* Channel capacities: spawn rounds a queue depth of 0 up to 1.
QueueCap == IF QueueDepth = 0 THEN 1 ELSE QueueDepth

\* max_tokens_effective, defined for a request that passes the length checks
Budget(p) == IF p.max = Omitted THEN TMax - p.prompt ELSE p.max

\* Mutant: the sum is compared with one token too many.
UserErrorOffByOne(p) ==
  \/ ~p.encodes
  \/ p.prompt >= TMax
  \/ p.prompt = 0
  \/ p.max # Omitted /\ p.prompt + p.max > TMax + 1

\* The per-request user errors of run_request, all reported before any decoding.
UserError(p) ==
  \/ ~p.encodes
  \/ p.prompt >= TMax
  \/ p.prompt = 0
  \/ p.max # Omitted /\ p.prompt + p.max > TMax
-----------------------------------------------------------------------------
\* EngineEvent: what travels on a return channel. p and n are the token usage.
Start(p)     == [kind |-> "start", p |-> p, n |-> 0, why |-> "none"]
Token(n)     == [kind |-> "token", p |-> 0, n |-> n, why |-> "none"]
Done(p, n, w) == [kind |-> "done", p |-> p, n |-> n, why |-> w]
Failed       == [kind |-> "error", p |-> 0, n |-> 0, why |-> "none"]

Event == [kind : {"start", "token", "done", "error"},
          p : Nat, n : Nat, why : {"none", "stop", "length"}]

\* What the client receives: SSE frames, or one JSON answer (body, bad, busy).
Plain(kind)           == [kind |-> kind, lo |-> 1, hi |-> 0, why |-> "none", p |-> 0, n |-> 0]
Segment(lo, hi)       == [Plain("seg") EXCEPT !.lo = lo, !.hi = hi]
Finish(why)           == [Plain("finish") EXCEPT !.why = why]
UsageOf(p, n)         == [Plain("usage") EXCEPT !.p = p, !.n = n]
FinishWith(why, p, n) == [Finish(why) EXCEPT !.p = p, !.n = n]
Body(hi, why, p, n)   == [FinishWith(why, p, n) EXCEPT !.kind = "body", !.hi = hi]

Frame == [kind : {"role", "seg", "finish", "usage", "done", "error", "body", "bad", "busy"},
          lo : Nat, hi : Nat, why : {"none", "stop", "length"}, p : Nat, n : Nat]

HasRoom(c, cap) == Len(c) < cap
-----------------------------------------------------------------------------
ChannelsTypeOK ==
  /\ queue \in Seq(Requests) /\ Len(queue) <= QueueCap
  /\ req \in [Requests -> Profiles]
  /\ tx \in [Requests -> BOOLEAN]
  /\ rx \in [Requests -> BOOLEAN]
  /\ chan \in [Requests -> Seq(Event)]
  /\ frames \in [Requests -> Seq(Frame)]
  /\ \A r \in Requests : Len(chan[r]) <= ChanCap /\ Len(frames[r]) <= FrameCap
  /\ client \in [Requests -> {"idle", "open", "closed", "gone", "lost"}]
  /\ wire \in [Requests -> Seq(Frame)]
  /\ proc \in {"up", "draining", "exited"}

ChannelsInit ==
  /\ queue = <<>>
  /\ req = [r \in Requests |-> NoProfile]
  /\ tx = [r \in Requests |-> FALSE]
  /\ rx = [r \in Requests |-> FALSE]
  /\ chan = [r \in Requests |-> <<>>]
  /\ frames = [r \in Requests |-> <<>>]
  /\ client = [r \in Requests |-> "idle"]
  /\ wire = [r \in Requests |-> <<>>]
  /\ proc = "up"
=============================================================================
