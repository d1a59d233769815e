--------------------------- MODULE MCReadTransaction ---------------------------
(* Two documents with up to three stored versions each, two index keys.        *)
EXTENDS ReadTransaction, TLC

CONSTANTS a, b

\* Versions 1, 2 and 3 of a document.
Stored(x, y, z) == (0 :> Absent) @@ (1 :> x) @@ (2 :> y) @@ (3 :> z)

MCHistories ==
  LET changed == Stored(a, b, Absent)
      gone == Stored(a, Tombstone, b)
      late == Stored(Absent, Absent, a)
  IN {(1 :> x) @@ (2 :> y) :
        <<x, y>> \in {<<changed, gone>>, <<gone, changed>>, <<changed, changed>>, <<late, changed>>}}

MCKey == {<<>>, <<1>>}
MCEntrySets == {{<< <<>>, 1 >>, << <<1>>, 2 >>}, {<< <<1>>, 1 >>, << <<1>>, 2 >>}}
=============================================================================
