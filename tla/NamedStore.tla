------------------------------ MODULE NamedStore ------------------------------
(* What a write set means to its author: collections, indexes, documents and    *)
(* index entries by name, without ids.                                          *)
CONSTANT Empty

VARIABLE content   \* tables by name: collections and docs by version as well

\* The rows written, over those of a table.
Over(rows, table) ==
  [k \in DOMAIN rows \cup DOMAIN table |-> IF k \in DOMAIN rows THEN rows[k] ELSE table[k]]

\* A collection that exists stays, an index that exists keeps its configuration, and
\* everything else is written as it is named.
Applied(c, w, version) ==
  LET known == {k[1] : k \in DOMAIN c.collections}
      created == [k \in {<<n, version>> : n \in w.create \ known} |-> Empty]
      updated == [k \in {<<n, version>> : n \in DOMAIN w.metadata} |-> w.metadata[k[1]]]
      written == [k \in {<<d[1], d[2], version>> : d \in DOMAIN w.docs} |-> w.docs[<<k[1], k[2]>>]]
  IN [collections |-> Over(updated, Over(created, c.collections)),
      indexes |-> Over(c.indexes, w.indexes),
      docs |-> Over(written, c.docs),
      entries |-> (c.entries \ w.deleted) \cup w.put]

Commit(w, version) == content' = Applied(content, w, version)
=============================================================================
