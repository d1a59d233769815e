----------------------------- MODULE MCIndexTrie -----------------------------
(* Segments of two bytes; keys of zero to three segments that share paths: a   *)
(* key that ends where another goes on, siblings at two depths.                *)
EXTENDS IndexTrie

MCKey == {<<>>, <<0, 1, 0>>, <<0, 1, 0, 0, 1>>, <<0, 1, 0, 1, 0>>}
=============================================================================
