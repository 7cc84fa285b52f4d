--------------------------- MODULE MCSessionText ---------------------------
(* Limits of a few bytes, lines and entries, so that each of them is met.    *)
EXTENDS SessionText

Size(c, r) == [columns |-> c, rows |-> r]
MCFirstSize == Size(2, 2)
MCSizes == {Size(1, 1), Size(3, 3), Size(0, 0)}
MCViewers == {"v"}
MCViewSizes == {Size(2, 1), Size(2, 3)}
MCReads ==
  {<<"x">>, <<"nl">>, <<"tab">>, <<"lead">>, <<"cont">>, <<"lead", "cont">>,
   <<"x", "cr", "x">>, <<"x", "x", "nl", "x">>, <<"esc", "x", "nl", "nl", "x">>}
MCLines == {[len |-> 0, has |-> {}], [len |-> 1, has |-> {}], [len |-> 2, has |-> {"p"}],
            [len |-> 5, has |-> {"p"}]}
MCWatched == {"s1", "s2"}
=============================================================================
