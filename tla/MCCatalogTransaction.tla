-------------------------- MODULE MCCatalogTransaction --------------------------
(* A transaction of three writes beside one of two, on an empty store and on    *)
(* one with a collection and an index.                                          *)
EXTENDS CatalogTransaction

CONSTANTS a, b, t1, t2

MCName == {<<1>>, <<1, 1>>}
MCMaxWrites == (t1 :> 3) @@ (t2 :> 2)

Seed == [NoWrites EXCEPT !.newCollections = -1 :> <<1, 1>>,
                         !.newIndexes = <<-1, -2>> :> [name |-> <<1>>, metadata |-> b],
                         !.metadata = -1 :> b]
MCStores == {EmptyStore, Put(EmptyStore, Seed, 1)}
=============================================================================
