----------------------------- MODULE MCIndexCursor -----------------------------
(* Segments of two bytes; two documents under keys of zero to three segments.  *)
EXTENDS IndexCursor

MCKey == {<<>>, <<0, 1>>, <<0, 1, 0>>, <<0, 1, 0, 0, 1>>, <<0, 2>>, <<1>>, <<0, 1, 1, 1, 0>>}

Put(t, entry) == PutEntry(t, entry[1], entry[2])
Built(entries) == FoldLeft(Put, Empty, Ascending(entries, PositionLess))
Everything == Built(MCKey \X {1, 2})

\* Every index of up to four of these keys, one with two documents per key, and the
\* ones a delete makes of it.
MCTries ==
  {Built({<<k, 1>> : k \in keys}) : keys \in {s \in SUBSET MCKey : Cardinality(s) <= 4}}
    \cup {Everything} \cup {DeleteEntry(Everything, k, 1) : k \in MCKey}
    \cup {DeleteEntry(DeleteEntry(Everything, k, 1), k, 2) : k \in MCKey}
=============================================================================
