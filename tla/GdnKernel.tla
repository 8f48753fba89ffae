------------------------------ MODULE GdnKernel ------------------------------
(***************************************************************************)
(* The fused decode step of the Gated DeltaNet (gdn_kernel.rs): kernel A   *)
(* convolves and shifts the history, one thread per channel; kernel B runs *)
(* one block per value head, a thread per column of the state, and its     *)
(* warps meet at four barriers over a small shared array.                  *)
(*                                                                         *)
(* A warp runs in lockstep and is one actor; warps run at their own pace   *)
(* between barriers. Blocks write disjoint cells: the model follows one.   *)
(* Values are named by the cells that they are computed from.              *)
(***************************************************************************)
EXTENDS Integers, FiniteSets

CONSTANTS
  NumWarps,    \* nwarp
  WarpSize,    \* 32
  KeyDim,      \* kd, at most a block's threads
  KeyHeads,    \* num_key_heads, a divisor of the next
  ValueHeads,  \* num_value_heads
  History      \* kernel_m1

VARIABLES
  head,    \* CUBE_POS_X
  silu,    \* qkv_silu: what each channel convolved
  hist,    \* new_hist, a flat buffer
  pc,      \* where each warp is
  sm,      \* the shared array
  totals,  \* q_sq_total and k_sq_total, as each warp read them
  o,       \* the readout of each warp's columns
  state,   \* the cells of new_state the block wrote
  out      \* what each warp divided its readout by

vars == <<head, silu, hist, pc, sm, totals, o, state, out>>

ValueDim == NumWarps * WarpSize
QDim     == KeyHeads * KeyDim
QkvDim   == 2 * QDim + ValueHeads * ValueDim

Warps    == 0..NumWarps-1
Channels == 0..QkvDim-1

\* The columns of a warp.
Columns(w) == {d \in 0..ValueDim-1 : d \div WarpSize = w}

None == {}

Init ==
  /\ head \in 0..ValueHeads-1
  /\ silu = << >> /\ hist = << >>
  /\ pc = [w \in Warps |-> "conv"]
  /\ sm = [i \in 0..2*NumWarps |-> None]
  /\ totals = [w \in Warps |-> <<None, None>>]
  /\ o = [w \in Warps |-> None]
  /\ state = [w \in Warps |-> None]
  /\ out = [w \in Warps |-> None]
-----------------------------------------------------------------------------
(* Kernel A. Every channel has a thread of its own, the grid rounds up. *)

\* The cells of the old history, and Current for the token's own channel.
HistCell(i, ch) == i * QkvDim + ch

Current(ch) == -1 - ch

ConvHist ==
  /\ \A w \in Warps : pc[w] = "conv"
  /\ silu' = [ch \in Channels |->
                {Current(ch)} \cup {HistCell(i, ch) : i \in 0..History-1}]
  /\ hist' = [c \in 0..History*QkvDim-1 |->
                LET i == c \div QkvDim
                    ch == c % QkvDim
                IN  IF i + 1 < History THEN HistCell(i + 1, ch) ELSE Current(ch)]
  /\ pc' = [w \in Warps |-> "partials"]
  /\ UNCHANGED <<head, sm, totals, o, state, out>>
-----------------------------------------------------------------------------
(* Kernel B. *)

KeyHead == head \div (ValueHeads \div KeyHeads)

QChannel(d) == KeyHead * KeyDim + d
KChannel(d) == QDim + KeyHead * KeyDim + d
VChannel(d) == 2 * QDim + head * ValueDim + d

\* plane_sum of the squares of a warp: the channels that went into it.
QPartial(w) == {[channel |-> QChannel(d)] : d \in {d \in Columns(w) : d < KeyDim}}
KPartial(w) == {[channel |-> KChannel(d)] : d \in {d \in Columns(w) : d < KeyDim}}

Goto(w, label) == pc' = [pc EXCEPT ![w] = label]

\* Lane 0 leaves the partial sums of its warp.
Partials(w) ==
  /\ pc[w] = "partials"
  /\ sm' = [sm EXCEPT ![w] = QPartial(w), ![NumWarps + w] = KPartial(w)]
  /\ Goto(w, "sync1")
  /\ UNCHANGED <<head, silu, hist, totals, o, state, out>>

\* sync_cube: all warps pass when all have come.
Sync(here, next) ==
  /\ \A w \in Warps : pc[w] = here
  /\ pc' = [w \in Warps |-> next]
  /\ UNCHANGED <<head, silu, hist, sm, totals, o, state, out>>

Summed(first) == UNION {sm[first + w] : w \in Warps}

\* Thread 0 sums the partials in place; the others go straight to the barrier.
Broadcast(w) ==
  /\ pc[w] = "broadcast"
  /\ sm' = IF w = 0 THEN [sm EXCEPT ![0] = Summed(0), ![NumWarps] = Summed(NumWarps)] ELSE sm
  /\ Goto(w, "sync2")
  /\ UNCHANGED <<head, silu, hist, totals, o, state, out>>

ReadTotals(w) ==
  /\ pc[w] = "totals"
  /\ totals' = [totals EXCEPT ![w] = <<sm[0], sm[NumWarps]>>]
  /\ Goto(w, "state")
  /\ UNCHANGED <<head, silu, hist, sm, o, state, out>>

StateCell(kd, d) == (head * KeyDim + kd) * ValueDim + d

\* Both passes over the columns of the warp: the new state, and the readout by q.
UpdateState(w) ==
  /\ pc[w] = "state"
  /\ state' = [state EXCEPT ![w] =
       {[cell |-> StateCell(kd, d), key |-> KChannel(kd), value |-> VChannel(d),
         norm |-> totals[w][2]] : kd \in 0..KeyDim-1, d \in Columns(w)}]
  /\ o' = [o EXCEPT ![w] =
       {[cell |-> StateCell(kd, d), query |-> QChannel(kd),
         norm |-> totals[w][1]] : kd \in 0..KeyDim-1, d \in Columns(w)}]
  /\ Goto(w, "opartial")
  /\ UNCHANGED <<head, silu, hist, sm, totals, out>>

\* Lane 0 leaves the sum of its warp where the partials of q were.
OPartial(w) ==
  /\ pc[w] = "opartial"
  /\ sm' = [sm EXCEPT ![w] = o[w]]
  /\ Goto(w, "sync3")
  /\ UNCHANGED <<head, silu, hist, totals, o, state, out>>

OSum(w) ==
  /\ pc[w] = "osum"
  /\ sm' = IF w = 0 THEN [sm EXCEPT ![2 * NumWarps] = Summed(0)] ELSE sm
  /\ Goto(w, "sync4")
  /\ UNCHANGED <<head, silu, hist, totals, o, state, out>>

\* RMSNorm and gate.
Gate(w) ==
  /\ pc[w] = "gate"
  /\ out' = [out EXCEPT ![w] = sm[2 * NumWarps]]
  /\ Goto(w, "end")
  /\ UNCHANGED <<head, silu, hist, sm, totals, o, state>>

Next ==
  \/ ConvHist
  \/ \E w \in Warps :
       \/ Partials(w) \/ Broadcast(w) \/ ReadTotals(w) \/ UpdateState(w)
       \/ OPartial(w) \/ OSum(w) \/ Gate(w)
  \/ Sync("sync1", "broadcast") \/ Sync("sync2", "totals")
  \/ Sync("sync3", "osum") \/ Sync("sync4", "gate")

Spec == Init /\ [][Next]_vars
-----------------------------------------------------------------------------
\* Every warp normalises q and k by the sum over all warps, "broadcast via shared memory"
\* (gdn_kernel.rs:185).
TotalsBroadcast ==
  \A w \in Warps : pc[w] \in {"state", "opartial", "sync3", "osum", "sync4", "gate", "end"} =>
    totals[w] = <<UNION {QPartial(v) : v \in Warps}, UNION {KPartial(v) : v \in Warps}>>
=============================================================================
