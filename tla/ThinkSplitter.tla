--------------------------- MODULE ThinkSplitter ---------------------------
(***************************************************************************)
(* ThinkSplitter of serve/handlers.rs, as operators on its struct: the     *)
(* text of a generation is routed to reasoning up to the closing think     *)
(* tag, to content after it, whatever the chunks it arrives in.            *)
(***************************************************************************)
EXTENDS Integers, Sequences, SequencesExt, FiniteSetsExt

CONSTANTS
  OpenTag, CloseTag,  \* <think> and </think>
  Gap                 \* "\n\n", dropped once after the closing tag

ASSUME SplitterAssumption == Len(OpenTag) > 0 /\ Len(CloseTag) > 0 /\ Len(Gap) = 2

\* state: "think" (InThink), "maybe" (MaybeOpen), "strip" and "content"
\* (Content with and without its strip flag).
NewSplitter(inThink) == [state |-> IF inThink THEN "think" ELSE "maybe", buf |-> <<>>]

Rest(s, n) == SubSeq(s, n + 1, Len(s))

\* The segments of one push: at most one piece of reasoning, then one of content.
Routed(sp, r, c) == [splitter |-> sp, reasoning |-> r, content |-> c]
-----------------------------------------------------------------------------
\* find_or_holdback: where the tag begins, or how much can be released without it.
TagAt(buf, tag) == {i \in 1..Len(buf) : IsPrefix(tag, SubSeq(buf, i, Len(buf)))}

SafeLen(buf, tag) ==
  Min({Len(buf)} \cup
      {i - 1 : i \in {j \in 1..Len(buf) : IsStrictPrefix(SubSeq(buf, j, Len(buf)), tag)}})

\* Mutant: anything but a whole tag is content at once.
MaybeOpenHasty(sp) ==
  CASE sp.state # "maybe" \/ sp.buf = <<>> -> sp
    [] sp.state = "maybe" /\ IsPrefix(OpenTag, sp.buf) ->
         [state |-> "think", buf |-> Rest(sp.buf, Len(OpenTag))]
    [] OTHER -> [sp EXCEPT !.state = "content"]

\* MaybeOpen: a leading tag is swallowed, a proper prefix of it waits, anything
\* else is content.
MaybeOpen(sp) ==
  CASE sp.state # "maybe" \/ sp.buf = <<>> -> sp
    [] sp.state = "maybe" /\ IsPrefix(OpenTag, sp.buf) ->
         [state |-> "think", buf |-> Rest(sp.buf, Len(OpenTag))]
    [] sp.state = "maybe" /\ sp.buf # <<>> /\ IsStrictPrefix(sp.buf, OpenTag) -> sp
    [] OTHER -> [sp EXCEPT !.state = "content"]

\* InThink: reasoning up to the closing tag, or up to what may become one.
InThink(sp) ==
  LET at == TagAt(sp.buf, CloseTag) n == SafeLen(sp.buf, CloseTag) IN
  IF sp.state # "think" THEN Routed(sp, <<>>, <<>>)
  ELSE IF at # {}
    THEN Routed([state |-> "strip", buf |-> Rest(sp.buf, Min(at) - 1 + Len(CloseTag))],
                SubSeq(sp.buf, 1, Min(at) - 1), <<>>)
    ELSE Routed([sp EXCEPT !.buf = Rest(@, n)], SubSeq(sp.buf, 1, n), <<>>)

\* Content owing its strip: the gap is dropped, half of it waits.
Strip(sp) ==
  CASE sp.state # "strip" \/ sp.buf = <<>> -> sp
    [] sp.state = "strip" /\ IsPrefix(Gap, sp.buf) -> [state |-> "content", buf |-> Rest(sp.buf, 2)]
    [] sp.state = "strip" /\ sp.buf = <<Gap[1]>> -> sp
    [] OTHER -> [sp EXCEPT !.state = "content"]

\* push: the states only move on in this order, so one pass is the whole loop.
SplitPush(sp, text) ==
  LET think == InThink(MaybeOpen([sp EXCEPT !.buf = @ \o text]))
      last  == Strip(think.splitter)
  IN IF last.state = "content"
       THEN Routed([last EXCEPT !.buf = <<>>], think.reasoning, last.buf)
       ELSE Routed(last, think.reasoning, <<>>)

\* finish: what is still held back is genuine text of the current state.
SplitFinish(sp) ==
  LET empty == [sp EXCEPT !.buf = <<>>] IN
  CASE sp.state = "think" -> Routed(empty, sp.buf, <<>>)
    [] sp.state \in {"maybe", "content"} -> Routed(empty, <<>>, sp.buf)
    [] sp.state = "strip" ->
         Routed(empty, <<>>, IF IsPrefix(Gap, sp.buf) THEN Rest(sp.buf, 2) ELSE sp.buf)
=============================================================================
