---------------------------- MODULE HybridCache ----------------------------
(***************************************************************************)
(* The hybrid cache of the Qwen3.5 tower (cache.rs): the recurrent state   *)
(* of a Gated-DeltaNet layer and the KVCache of the full-attention layer   *)
(* above it. All GDN layers, and all full-attention layers, run the same   *)
(* operations in step, so one of each stands for all.                      *)
(*                                                                         *)
(* The recurrent state is the sequence of the convolution windows it has   *)
(* absorbed; it cannot be cut back, only replaced by a snapshot. What the  *)
(* GDN layer hands up for a token is its state after the token, and the    *)
(* pair of that and the RoPE position is what the KV cache above keeps.    *)
(***************************************************************************)
EXTENDS KVCache

CONSTANT Kernel  \* kernel_dim: the window of the causal convolution

ASSUME KernelAssumption == Kernel \in Nat \ {0, 1}

GdnNew == [state |-> <<>>, conv |-> [i \in 1..Kernel-1 |-> Void], static |-> FALSE]

\* The convolution reads the history and the current token.
Window(g, x) == Append(g.conv, x)

\* The recurrence, a function of the window and the state before.
Absorbed(state, window) == Append(state, window)

\* push_conv: the history moves up by one slot.
PushConv(g, x) == [g EXCEPT !.conv = Tail(Append(@, x))]

SetState(g, state) == [g EXCEPT !.state = state]

\* forward_recurrent: convolve, push_conv, set_state.
GdnStep(g, x) == SetState(PushConv(g, x), Absorbed(g.state, Window(g, x)))

\* What the layer hands up for the token it took last.
HandedUp(g) == g.state

HybridNew(cap) == [gdn |-> GdnNew, kv |-> WithCapacity(cap)]

\* forward_prefill_recurrent: the recurrent layer takes the tokens one by one.
GdnRun(g, toks) ==
  LET after[i \in 0..Len(toks)] == IF i = 0 THEN g ELSE GdnStep(after[i-1], toks[i])
  IN  after

\* What the tokens are when they reach the full-attention layer, at positions from pos.
Fed(c, toks, pos) ==
  <<[i \in DOMAIN toks |-> <<HandedUp(GdnRun(c.gdn, toks)[i]), pos + i - 1>>]>>

HybridForward(c, toks, pos) ==
  [gdn |-> GdnRun(c.gdn, toks)[Len(toks)], kv |-> Forward(c.kv, Fed(c, toks, pos))]

\* The contexts of the logits, one per token.
Contexts(c, toks, pos) == NewCells(c.kv, Fed(c, toks, pos))[1]

\* Mutant: a snapshot without the convolution history.
RollbackStateOnly(c, filled, snap) ==
  [gdn |-> [c.gdn EXCEPT !.state = snap.state], kv |-> Rewind(c.kv, filled)]

\* rewind_kv(filled) and restore_gdn(snap).
Rollback(c, filled, snap) == [gdn |-> snap, kv |-> Rewind(c.kv, filled)]
-----------------------------------------------------------------------------
(* The fused kernel, and the step that a CUDA graph can capture. *)

\* gdn_conv_hist: one thread per channel writes a new history, slot by slot.
ShiftedHistory(conv, x) ==
  [i \in 1..Kernel-1 |-> IF i + 1 <= Kernel - 1 THEN conv[i + 1] ELSE x]

\* The state after a token is a new buffer, computed from the convolution of the whole
\* window and the state before.
GdnStepFused(g, x) ==
  [g EXCEPT !.state = Absorbed(@, Window(g, x)), !.conv = ShiftedHistory(@, x)]

\* init_static keeps what is allocated and fixes its place.
InitStatic(c) == [c EXCEPT !.gdn.static = TRUE]

\* preflight_static.
Preflight(c) == c.gdn.static /\ c.kv.cap > 0

\* push_conv_static: all but the oldest slot, and the current one, copied back.
PushConvStatic(g, x) == [g EXCEPT !.conv = Tail(@) \o <<x>>]

\* set_state_static: the new state is copied over the old.
SetStateStatic(g, state) == [g EXCEPT !.state = state]

\* step_recurrent_static: the history is pushed before the state is read and replaced.
GdnStepStatic(g, x) ==
  LET window == Window(g, x)
      pushed == PushConvStatic(g, x)
  IN  SetStateStatic(pushed, Absorbed(pushed.state, window))

\* forward_prefill_recurrent_static.
GdnRunStatic(g, toks) ==
  LET after[i \in 0..Len(toks)] == IF i = 0 THEN g ELSE GdnStepStatic(after[i-1], toks[i])
  IN  after

\* static_prefill_logits: the recurrent layer steps in place, the full-attention layer
\* prefills as it always does.
FedStatic(c, toks, pos) ==
  <<[i \in DOMAIN toks |-> <<HandedUp(GdnRunStatic(c.gdn, toks)[i]), pos + i - 1>>]>>

HybridPrefillStatic(c, toks) ==
  [gdn |-> GdnRunStatic(c.gdn, toks)[Len(toks)],
   kv  |-> Forward(c.kv, FedStatic(c, toks, 0))]

PrefillContext(c, toks) == Last(NewCells(c.kv, FedStatic(c, toks, 0))[1])

\* forward_decode_static_pre: one token at the device's position.
HybridForwardStatic(c, x, pos) ==
  LET g == GdnStepStatic(c.gdn, x)
  IN  [gdn |-> g, kv |-> ForwardStatic(c.kv, pos, <<HandedUp(g)>>)]

StaticContext(c, x, pos) == StaticCells(c.kv, pos, <<HandedUp(GdnStepStatic(c.gdn, x))>>)[1]

\* One token through the fused kernel.
HybridForwardFused(c, x, pos) ==
  LET g == GdnStepFused(c.gdn, x)
  IN  [gdn |-> g, kv |-> Forward(c.kv, <<<<<<HandedUp(g), pos>>>>>>)]

FusedContext(c, x, pos) ==
  NewCells(c.kv, <<<<<<HandedUp(GdnStepFused(c.gdn, x)), pos>>>>>>)[1][1]
=============================================================================
