----------------------------- MODULE ServeText -----------------------------
(***************************************************************************)
(* The text path of drain in serve/handlers.rs: every token goes through   *)
(* the detokenizer and the think splitter, and what they release is        *)
(* delivered to the client; the end of the generation flushes both.        *)
(***************************************************************************)
EXTENDS Detok, ThinkSplitter

CONSTANTS
  Vocab,      \* the tokens the model may sample, as byte sequences
  Modes,      \* the requests served, out of "thinking", "chat" and "completions"
  MaxTokens   \* bound on the generation

ASSUME TextAssumption ==
  /\ Vocab # {} /\ <<>> \notin Vocab
  /\ Modes \subseteq {"thinking", "chat", "completions"}
  /\ MaxTokens \in Nat

VARIABLES
  mode,       \* what was requested: chat with thinking on or off, or a completion
  detok,      \* drain's IncrementalDetok
  splitter,   \* drain's ThinkSplitter
  said,       \* all the text the detokenizer has released
  reasoning,  \* the text delivered as reasoning
  content,    \* the text delivered as content
  over        \* drain has returned

vars == <<mode, detok, splitter, said, reasoning, content, over>>

\* initial_think: the rendered prompt ends in an opening tag, on chat only.
Init ==
  /\ mode \in Modes
  /\ detok = NewDetok
  /\ splitter = NewSplitter(mode = "thinking")
  /\ said = <<>> /\ reasoning = <<>> /\ content = <<>>
  /\ over = FALSE
-----------------------------------------------------------------------------
\* The segments of a push are delivered in order.
Deliver(text) ==
  LET out == SplitPush(splitter, text) IN
  /\ splitter' = out.splitter
  /\ reasoning' = reasoning \o out.reasoning
  /\ content' = content \o out.content

\* The last text and the splitter's tail.
DeliverLast(text) ==
  LET out == SplitPush(splitter, text)
      tail == SplitFinish(out.splitter) IN
  /\ splitter' = tail.splitter
  /\ reasoning' = reasoning \o out.reasoning \o tail.reasoning
  /\ content' = content \o out.content \o tail.content

\* A token that completes no stop string.
Token(id) ==
  LET pushed == Push(detok, id) IN
  /\ ~over /\ Len(detok.tokens) < MaxTokens
  /\ ~pushed.hit
  /\ detok' = pushed.detok
  /\ said' = said \o pushed.text
  /\ Deliver(pushed.text)
  /\ UNCHANGED <<mode, over>>

\* A token that does: drain leaves its loop, and only the splitter has a tail.
StopToken(id) ==
  LET pushed == Push(detok, id) IN
  /\ ~over /\ Len(detok.tokens) < MaxTokens
  /\ pushed.hit
  /\ detok' = pushed.detok
  /\ said' = said \o pushed.text
  /\ DeliverLast(pushed.text)
  /\ over' = TRUE
  /\ UNCHANGED mode

\* The engine is done: detok and splitter are flushed.
End ==
  LET tail == Finish(detok) IN
  /\ ~over
  /\ detok' = tail.detok
  /\ said' = said \o tail.text
  /\ DeliverLast(tail.text)
  /\ over' = TRUE
  /\ UNCHANGED mode

Next ==
  \/ \E id \in Vocab : Token(id) \/ StopToken(id)
  \/ End

Spec == Init /\ [][Next]_vars
-----------------------------------------------------------------------------
\* The text of the whole generation, decoded at once.
Whole == Decode(detok.tokens)

CutAtStop(t) ==
  LET hits == UNION {Occurrences(s, t) : s \in Stops} IN
  IF hits = {} THEN t ELSE SubSeq(t, 1, Min(hits) - 1)

\* The committed text was torn inside a codepoint that has come whole since: the
\* window can no longer match it.
Stuck == ~IsPrefix(OldText(detok), NewText(detok))

\* The token-by-token text is the text decoded at once: cut at its first stop
\* string, less only what is held back, at the end less an incomplete codepoint.
SaidIsDecode ==
  ~Stuck =>
    IF detok.stopped THEN said = CutAtStop(Whole)
    ELSE IF over THEN /\ IsPrefix(said, Whole)
                      /\ \A i \in Len(said)+1..Len(Whole) : Whole[i] = FFFD
    ELSE /\ said \o detok.pending = Decode(SubSeq(detok.tokens, 1, detok.read))
         /\ IsPrefix(said \o detok.pending, Whole)

\* Every suffix of the text that begins a stop string is still pending as a whole.
HeldBackEnough ==
  ~over => LET t == said \o detok.pending IN
    /\ \A s \in Stops : Occurrences(s, t) = {}
    /\ \A i \in 1..Len(said) : \A s \in Stops : ~IsStrictPrefix(From(t, i), s)

\* Pending text begins a stop string, the undecoded tail is shorter than a codepoint
\* can take, the splitter's text begins the tag or the gap it waits for.
HeldOnlyIfNeeded ==
  ~over /\ ~Stuck =>
    /\ detok.pending # <<>> => \E s \in Stops : IsStrictPrefix(detok.pending, s)
    /\ Len(detok.tokens) - detok.read <= MaxHold
    /\ splitter.buf # <<>> =>
         \/ splitter.state = "maybe" /\ IsStrictPrefix(splitter.buf, OpenTag)
         \/ splitter.state = "think" /\ IsStrictPrefix(splitter.buf, CloseTag)
         \/ splitter.state = "strip" /\ IsStrictPrefix(splitter.buf, Gap)

\* Nothing leaves that a stop string could still claim, and nothing is held back
\* without a reason.
HeldBackExactly == HeldBackEnough /\ HeldOnlyIfNeeded

\* The split of a text as a whole: an opening tag at its start is dropped, the
\* closing tag ends the reasoning, a gap after it is dropped.
SplitWhole(t, inThink) ==
  LET opens == ~inThink /\ IsPrefix(OpenTag, t)
      body  == IF opens THEN Rest(t, Len(OpenTag)) ELSE t
      at    == TagAt(body, CloseTag)
      after == Rest(body, Min(at) - 1 + Len(CloseTag))
  IN CASE ~inThink /\ ~opens -> <<<<>>, t>>
       [] (inThink \/ opens) /\ at = {} -> <<body, <<>>>>
       [] OTHER -> <<SubSeq(body, 1, Min(at) - 1),
                     IF IsPrefix(Gap, after) THEN Rest(after, 2) ELSE after>>

\* The chunks the text arrives in do not matter: what was delivered is the split of
\* the text as a whole.
SplitIsWhole ==
  over => <<reasoning, content>> = SplitWhole(said, mode = "thinking")
=============================================================================
