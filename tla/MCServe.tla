------------------------------ MODULE MCServe ------------------------------
(* Instances of Serve for TLC, and the properties stated over what a client *)
(* has received.                                                            *)
EXTENDS ServeClient, TLC

CONSTANTS r1, r2

P(sse, chat, usage, stops, encodes, prompt, max) ==
  [sse |-> sse, chat |-> chat, usage |-> usage, stops |-> stops,
   encodes |-> encodes, prompt |-> prompt, max |-> max]

ChatStream   == P(TRUE, TRUE, TRUE, TRUE, TRUE, 1, 2)
ChatOpen     == P(TRUE, TRUE, FALSE, FALSE, TRUE, 2, Omitted)
TextStream   == P(TRUE, FALSE, FALSE, FALSE, TRUE, 2, 1)
JsonAnswer   == P(FALSE, TRUE, FALSE, TRUE, TRUE, 1, 2)
JsonNothing  == P(FALSE, FALSE, FALSE, FALSE, TRUE, 2, 0)
TooMany      == P(TRUE, TRUE, FALSE, FALSE, TRUE, 2, 2)
TooLong      == P(FALSE, TRUE, FALSE, FALSE, TRUE, 3, Omitted)
EmptyPrompt  == P(TRUE, FALSE, FALSE, FALSE, TRUE, 0, Omitted)
Unencodable  == P(FALSE, TRUE, FALSE, FALSE, FALSE, 1, 1)

AllProfiles == {ChatStream, ChatOpen, TextStream, JsonAnswer, JsonNothing,
                TooMany, TooLong, EmptyPrompt, Unencodable}
ShortStream  == P(TRUE, TRUE, FALSE, TRUE, TRUE, 1, 1)
ShortJson    == P(FALSE, TRUE, FALSE, FALSE, TRUE, 2, Omitted)
WireProfiles == {ChatStream, TextStream, ShortJson, TooMany, Unencodable}
LiveProfiles == {ShortStream, ShortJson}

Slots == {r1, r2}
Symmetry == Permutations(Slots)
=============================================================================
