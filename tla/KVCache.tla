------------------------------ MODULE KVCache ------------------------------
(***************************************************************************)
(* One layer's static KVCache of cache.rs and the attention that reads it. *)
(*                                                                         *)
(* A token that is fed is a pair <<token, RoPE position>>. What a layer    *)
(* keeps of it, its cell, depends on every token it attended to below that *)
(* layer: a cell is the sequence of the pairs that were visible, the       *)
(* token's own last. Logits are a function of the cell of the last token,  *)
(* its context. All layers run the same operations, so one stands for all. *)
(***************************************************************************)
EXTENDS Integers, Sequences, SequencesExt, Subsequence

CONSTANTS
  Void,  \* what attention finds in a column nobody wrote
  Blur   \* what it finds in a column that was added onto a written one

Zero    == <<Void>>
Spoiled == <<Blur>>

Own(cell) == Last(cell)

Owns(cells) == [i \in DOMAIN cells |-> Own(cells[i])]

WithCapacity(cap) == [cap |-> cap, filled |-> 0, rows |-> <<>>]

Allocated(c) == c.rows # <<>>

\* The rows of the buffer, allocated for a batch of n on the first write.
Buffer(c, n) == IF Allocated(c) THEN c.rows
                ELSE [r \in 1..n |-> [col \in 1..c.cap |-> Zero]]

\* The columns that attention reads in the prefix mode.
Prefix(c, r) == SubSeq(c.rows[r], 1, c.filled)

\* Mutant: the write offset is off by one.
UpdateShifted(c, new) ==
  [c EXCEPT !.filled = @ + Len(new[1]),
            !.rows   = [r \in DOMAIN new |-> [col \in 1..c.cap |->
              IF col - c.filled + 1 \in DOMAIN new[r] THEN new[r][col - c.filled + 1]
              ELSE Buffer(c, Len(new))[r][col]]]]

\* slice_assign at the offset `filled`: row r gets the cells new[r].
Update(c, new) ==
  [c EXCEPT !.filled = @ + Len(new[1]),
            !.rows   = [r \in DOMAIN new |-> [col \in 1..c.cap |->
              IF col - c.filled \in DOMAIN new[r] THEN new[r][col - c.filled]
              ELSE Buffer(c, Len(new))[r][col]]]]

\* A cache without a capacity: what is new is concatenated to what there is.
CatNew == [cap |-> 0, filled |-> 0, rows |-> <<>>]

UpdateCat(c, new) ==
  [c EXCEPT !.rows = IF Allocated(c) THEN [r \in DOMAIN new |-> @[r] \o new[r]] ELSE new]

\* select_assign(Add) at the position pos: the sum is an assignment on a zero column
\* only. `filled` stays.
UpdateStatic(c, pos, new) ==
  [c EXCEPT !.rows = [r \in DOMAIN new |-> [Buffer(c, Len(new))[r] EXCEPT
              ![pos + 1] = IF @ = Zero THEN new[r] ELSE Spoiled]]]

SelectRows(c, keep) == [c EXCEPT !.rows = [i \in DOMAIN keep |-> @[keep[i]]]]

Rewind(c, n) == [c EXCEPT !.filled = n]
-----------------------------------------------------------------------------
\* The cells of the tokens `fed` behind the cells `past`: token i sees all of `past`
\* and the fed tokens up to itself.
Cells(past, fed) == [i \in DOMAIN fed |-> Owns(past) \o SubSeq(fed, 1, i)]

\* forward_with_cache: fed[r] is what row r is fed.
NewCells(c, fed) ==
  [r \in DOMAIN fed |-> Cells(IF Allocated(c) THEN Prefix(c, r) ELSE <<>>, fed[r])]

Forward(c, fed) == Update(c, NewCells(c, fed))

Logits(c, fed) == [r \in DOMAIN fed |-> Last(NewCells(c, fed)[r])]

\* forward_with_cache on a cache without a capacity attends to all of it.
NewCellsCat(c, fed) ==
  [r \in DOMAIN fed |-> Cells(IF Allocated(c) THEN c.rows[r] ELSE <<>>, fed[r])]

ForwardCat(c, fed) == UpdateCat(c, NewCellsCat(c, fed))

\* forward_with_cache_static: one token per row at the position pos. The mask leaves
\* the columns 0..pos, whatever is in them.
StaticCells(c, pos, toks) ==
  [r \in DOMAIN toks |->
     Append(Owns(SubSeq(c.rows[r], 1, pos)),
            IF c.rows[r][pos + 1] = Zero THEN <<toks[r], pos>> ELSE Blur)]

ForwardStatic(c, pos, toks) == UpdateStatic(c, pos, StaticCells(c, pos, toks))

\* forward without a cache: the context of the last of the tokens `fed`. A column
\* whose real[k] is FALSE is padding, visible to itself alone.
Context(fed, real) == SubAt(fed, {k \in DOMAIN fed : real[k] \/ k = Len(fed)})
=============================================================================
