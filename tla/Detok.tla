------------------------------- MODULE Detok -------------------------------
(***************************************************************************)
(* IncrementalDetok of serve/detok.rs, as operators on its struct: tokens  *)
(* become text through a bounded decode window that holds back a split     *)
(* codepoint, and text leaves through a stop-string scan that holds back   *)
(* what may still grow into a stop string.                                 *)
(*                                                                         *)
(* A token is a sequence of bytes, a text a sequence of characters. LEAD   *)
(* opens a codepoint of Width bytes, CONT continues it, FFFD stands for    *)
(* the bytes of a literal replacement character; any other byte is a       *)
(* character by itself.                                                    *)
(***************************************************************************)
EXTENDS Integers, Sequences, SequencesExt, FiniteSetsExt

CONSTANTS
  Stops,     \* the non-empty stop strings of the request
  Width,     \* bytes of a multi-byte codepoint
  MaxHold    \* MAX_UTF8_HOLDBACK_TOKENS

LEAD == "lead"
CONT == "cont"
WIDE == "wide"   \* the character LEAD CONT ... CONT
FFFD == "fffd"   \* U+FFFD

ASSUME DetokAssumption ==
  /\ <<>> \notin Stops
  /\ Width \in Nat /\ Width > 1
  /\ MaxHold \in Nat /\ MaxHold >= Width
-----------------------------------------------------------------------------
\* The characters of s from position i on.
From(s, i) == SubSeq(s, i, Len(s))

\* The positions at which s occurs in t, and the first of them.
Occurrences(s, t) ==
  {i \in 1..Len(t) : i + Len(s) - 1 <= Len(t) /\ SubSeq(t, i, i + Len(s) - 1) = s}

\* One byte of the lossy decoding; need counts the continuation bytes that the
\* open codepoint lacks. A cut-off codepoint becomes one U+FFFD, and so does a
\* continuation byte out of place.
DecodeByte(st, b) ==
  IF b = CONT
    THEN CASE st.need > 1 -> [st EXCEPT !.need = @ - 1]
           [] st.need = 1 -> [text |-> Append(st.text, WIDE), need |-> 0]
           [] st.need = 0 -> [st EXCEPT !.text = Append(@, FFFD)]
    ELSE LET t == IF st.need > 0 THEN Append(st.text, FFFD) ELSE st.text IN
         IF b = LEAD THEN [text |-> t, need |-> Width - 1]
                     ELSE [text |-> Append(t, b), need |-> 0]

\* Tokenizer::decode: the bytes of the tokens, decoded lossily.
Decoding(ids) == FoldLeft(DecodeByte, [text |-> <<>>, need |-> 0], FlattenSeq(ids))
Decode(ids)   == LET st == Decoding(ids) IN
                 IF st.need > 0 THEN Append(st.text, FFFD) ELSE st.text

NewDetok == [tokens |-> <<>>, prefix |-> 0, read |-> 0, pending |-> <<>>, stopped |-> FALSE]

\* The decode of the window up to its committed edge, and of all of it.
OldText(d) == Decode(SubSeq(d.tokens, d.prefix + 1, d.read))
NewText(d) == Decode(From(d.tokens, d.prefix + 1))
-----------------------------------------------------------------------------
\* Mutant: the shortest suffix is held back.
ScanShortest(pending) ==
  LET hits == UNION {Occurrences(s, pending) : s \in Stops}
      held == {i \in 1..Len(pending) : \E s \in Stops : IsStrictPrefix(From(pending, i), s)}
  IN IF hits # {} THEN [emit |-> Min(hits) - 1, hit |-> TRUE]
     ELSE [emit |-> IF held = {} THEN Len(pending) ELSE Max(held) - 1, hit |-> FALSE]

\* scan_stops: the earliest stop cuts the text; without one, the longest suffix
\* that is a proper prefix of a stop is held back.
Scan(pending) ==
  LET hits == UNION {Occurrences(s, pending) : s \in Stops}
      held == {i \in 1..Len(pending) : \E s \in Stops : IsStrictPrefix(From(pending, i), s)}
  IN IF hits # {} THEN [emit |-> Min(hits) - 1, hit |-> TRUE]
     ELSE [emit |-> IF held = {} THEN Len(pending) ELSE Min(held) - 1, hit |-> FALSE]

\* scan_and_release: the result of a push.
Release(d) ==
  LET scan == Scan(d.pending) IN
  [text |-> SubSeq(d.pending, 1, scan.emit), hit |-> scan.hit,
   detok |-> [d EXCEPT !.pending = IF scan.hit THEN <<>> ELSE From(@, scan.emit + 1),
                       !.stopped = scan.hit]]

\* The window moves on: what was decoded beyond its committed edge is pending.
Commit(d, text) ==
  [d EXCEPT !.prefix = d.read, !.read = Len(d.tokens), !.pending = @ \o text]

\* The tail is committed when it grew out of the old text and does not end in
\* U+FFFD, or when it has been held for longer than a codepoint can take.
Advance(d) ==
  LET old == OldText(d)
      new == NewText(d)
      incomplete == new # <<>> /\ Last(new) = FFFD
      force == incomplete /\ Len(d.tokens) - d.read > MaxHold
  IN IF IsStrictPrefix(old, new) /\ (~incomplete \/ force)
       THEN Commit(d, From(new, Len(old) + 1)) ELSE d

\* push: inert once stopped.
Push(d, id) ==
  IF d.stopped THEN [text |-> <<>>, hit |-> FALSE, detok |-> d]
  ELSE Release(Advance([d EXCEPT !.tokens = Append(@, id)]))

\* s without its trailing U+FFFD.
DropIncomplete(s) ==
  SubSeq(s, 1, Max({0} \cup {i \in 1..Len(s) : s[i] # FFFD}))

\* Mutant: the uncommitted tail is not flushed.
FinishPendingOnly(d) == [text |-> d.pending, detok |-> [d EXCEPT !.pending = <<>>]]

\* finish: the text still held back, then the tail of the window that has not been
\* committed, less its incomplete end. Nothing after a stop.
Finish(d) ==
  LET old == OldText(d)
      new == NewText(d)
      whole == IF IsStrictPrefix(old, new)
                 THEN Commit(d, DropIncomplete(From(new, Len(old) + 1))) ELSE d
  IN IF d.stopped THEN [text |-> <<>>, detok |-> d]
     ELSE [text |-> whole.pending, detok |-> [whole EXCEPT !.pending = <<>>]]
=============================================================================
