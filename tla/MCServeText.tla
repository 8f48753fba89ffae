---------------------------- MODULE MCServeText ----------------------------
(* Instances of ServeText for TLC: tags and stop strings shortened to a few *)
(* characters that keep their overlaps.                                     *)
EXTENDS ServeText

Open  == <<"<", "t">>
Close == <<"<", "/", "t">>
Gap2  == <<"n", "n">>

\* One stop string that overlaps itself, one that begins like a tag begins, one
\* that ends like one.
SomeStops == {<<"n", "a", "n">>, <<"a", "<">>}

\* A continuation byte out of place decodes as a replacement character does.
SomeVocab == {<<"a">>, <<"n">>, <<"<">>, <<"t">>, <<"/", "t">>, Open, Close,
              <<LEAD>>, <<CONT>>, <<"a", LEAD>>}
=============================================================================
