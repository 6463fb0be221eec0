----------------------------- MODULE MCMarshal -----------------------------
(* Formats of three or four pieces: text, conversions with and without stars,   *)
(* %%, long double, sets, and a directive that the terminator cuts short.    *)
(* After the terminator memory goes on with another string.                  *)
EXTENDS Marshal

Pieces == {<<"x">>, <<"pct", "d">>, <<"pct", "x", "f">>, <<"pct", "star", "d">>,
           <<"pct", "star", "x", "star", "f">>, <<"pct", "pct">>, <<"pct", "L", "f">>,
           <<"pct", "[", "x", "]">>, <<"pct", "x">>}

MCTexts ==
  {t1 \o t2 \o t3 \o t4 \o <<"nul", "d", "nul">> :
     t1 \in Pieces \cup {<<>>}, t2 \in Pieces, t3 \in Pieces, t4 \in Pieces}
MCFunctions == {[nfixed |-> 1, scan |-> FALSE, nsformat |-> TRUE],
                [nfixed |-> 2, scan |-> FALSE, nsformat |-> FALSE],
                [nfixed |-> 1, scan |-> TRUE, nsformat |-> FALSE]}
=============================================================================
