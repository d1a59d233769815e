------------------------------ MODULE WriteBatch ------------------------------
(***************************************************************************)
(* Write sets, and what Datastore::put makes of one: collections and       *)
(* indexes are found by name or created, the temporary (negative) ids of   *)
(* the write set are replaced by theirs, and the rows are written.         *)
(*                                                                         *)
(* A table is a function from its keys to its rows.  The timestamp checks, *)
(* the saved counters and the failures of LMDB are in HeedEngine, the      *)
(* layout of index entries in IndexLayout.                                 *)
(***************************************************************************)
EXTENDS CursorOrder, TLC

CONSTANTS
  Empty   \* the metadata of a collection created without any

NoTable == [key \in {} |-> 0]

\* A table with one row more or another row at key, and with all rows of another one.
Inserted(table, key, row) ==
  [k \in DOMAIN table \cup {key} |-> IF k = key THEN row ELSE table[k]]
Overwritten(table, rows) ==
  [k \in DOMAIN table \cup DOMAIN rows |-> IF k \in DOMAIN rows THEN rows[k] ELSE table[k]]

\* collection_ids_by_name, collections_catalog by <<id, version>>, indexes_catalog by
\* <<collection, name>>, documents by <<collection, document, version>>, the entries of
\* all indexes as <<index, document>>, and the two id counters.
EmptyStore ==
  [ids |-> NoTable, rows |-> NoTable, indexes |-> NoTable, docs |-> NoTable,
   entries |-> {}, lastCollection |-> 0, lastIndex |-> 0]

\* new_collections by temporary id, new_indexes by <<collection, temporary id>>, and of
\* every CollectionWriteSet: documents by <<collection, document>>, index_entries by
\* <<collection, index, document>>, metadata by collection.
NoWrites ==
  [newCollections |-> NoTable, newIndexes |-> NoTable,
   docs |-> NoTable, entries |-> NoTable, metadata |-> NoTable]

\* The collections a write set has a CollectionWriteSet for.
Written(w) ==
  {k[1] : k \in DOMAIN w.docs} \cup {k[1] : k \in DOMAIN w.entries} \cup DOMAIN w.metadata

\* A BTreeMap of ids is walked in their order.
InIdOrder(ids) == Ascending(ids, LAMBDA i, j : i < j)

-----------------------------------------------------------------------------
(* The catalogs *)

\* Mutation of CreateCollection: a name always gets an id of its own.
CreateCollectionAnew(s, name, version) ==
  LET id == s.lastCollection + 1 IN
  [s EXCEPT !.lastCollection = id,
            !.ids = Inserted(@, name, id),
            !.rows = Inserted(@, <<id, version>>, [name |-> name, metadata |-> Empty])]

CreateCollection(s, name, version) ==
  IF name \in DOMAIN s.ids THEN s
  ELSE LET id == s.lastCollection + 1 IN
       [s EXCEPT !.lastCollection = id,
                 !.ids = Inserted(@, name, id),
                 !.rows = Inserted(@, <<id, version>>, [name |-> name, metadata |-> Empty])]

\* Mutation of CreateIndex: an index that exists gets the new configuration.
CreateIndexAgain(s, collection, index) ==
  LET known == <<collection, index.name>> \in DOMAIN s.indexes
      id == IF known THEN s.indexes[<<collection, index.name>>].id ELSE s.lastIndex + 1
  IN [s EXCEPT !.lastIndex = Max({@, id}),
               !.indexes = Inserted(@, <<collection, index.name>>,
                                    [id |-> id, metadata |-> index.metadata])]

\* The existing index keeps its configuration.
CreateIndex(s, collection, index) ==
  IF <<collection, index.name>> \in DOMAIN s.indexes THEN s
  ELSE LET id == s.lastIndex + 1 IN
       [s EXCEPT !.lastIndex = id,
                 !.indexes = Inserted(@, <<collection, index.name>>,
                                      [id |-> id, metadata |-> index.metadata])]

AllVersionsOf(s, id) == {k[2] : k \in {r \in DOMAIN s.rows : r[1] = id}}
VersionsOf(s, id, ts) == {v \in AllVersionsOf(s, id) : v <= ts}
Known(s, id, ts) == VersionsOf(s, id, ts) # {}

\* The newest catalog row of a collection up to ts.
RowOf(s, id, ts) == s.rows[<<id, Max(VersionsOf(s, id, ts))>>]

\* update_collection_metadata: the name is the one of the newest row of all.
UpdatedMetadata(s, id, metadata, version) ==
  LET name == s.rows[<<id, Max(AllVersionsOf(s, id))>>].name
  IN Inserted(s.rows, <<id, version>>, [name |-> name, metadata |-> metadata])

-----------------------------------------------------------------------------
(* put *)

CollectionsCreated(s, w, version) ==
  LET temps == InIdOrder(DOMAIN w.newCollections)
  IN FoldLeft(LAMBDA t, temp : CreateCollection(t, w.newCollections[temp], version), s, temps)

\* Mutation of NewIds: only collections that did not exist get a place in the map.
NewIdsOfCreated(s, w) ==
  LET created == {t \in DOMAIN w.newCollections : w.newCollections[t] \notin DOMAIN s.ids}
      c == CollectionsCreated(s, w, 0)
  IN [t \in created |-> c.ids[w.newCollections[t]]]

\* The local map new_collections: what each temporary collection id stands for.
NewIds(s, w) ==
  LET c == CollectionsCreated(s, w, 0)
  IN [t \in DOMAIN w.newCollections |-> c.ids[w.newCollections[t]]]

\* resolve_collection_id, resolve_index_id: an id that is not negative is taken as it is.
Resolves(id, new) == id >= 0 \/ id \in DOMAIN new

Resolve(id, new) == IF id >= 0 THEN id ELSE new[id]

\* By collection, then by temporary index id.
NewIndexesInOrder(w) ==
  Ascending(DOMAIN w.newIndexes, LAMBDA k, l : k[1] < l[1] \/ (k[1] = l[1] /\ k[2] < l[2]))

IndexesCreated(s, w, new) ==
  FoldLeft(LAMBDA t, k : CreateIndex(t, Resolve(k[1], new), w.newIndexes[k]),
           s, NewIndexesInOrder(w))

\* The local map new_indexes, by temporary index id alone: of two collections that use
\* the same one, the later collection's index stays.  The index of a name is the one in
\* the catalog, created here or found.
NewIndexIds(s, w, new) ==
  FoldLeft(LAMBDA map, k :
             Inserted(map, k[2], s.indexes[<<Resolve(k[1], new), w.newIndexes[k].name>>].id),
           NoTable, NewIndexesInOrder(w))

\* One CollectionWriteSet c, its id resolved.
WriteCollection(s, w, c, new, newIndex, version) ==
  LET id == Resolve(c, new)
      docs == {k[2] : k \in {l \in DOMAIN w.docs : l[1] = c}}
      entries == {k \in DOMAIN w.entries : k[1] = c}
      Positions(op) ==
        {<<Resolve(k[2], newIndex), k[3]>> : k \in {e \in entries : w.entries[e] = op}}
  IN [s EXCEPT
        !.docs = Overwritten(@, [k \in {<<id, d, version>> : d \in docs} |-> w.docs[<<c, k[2]>>]]),
        !.entries = (@ \ Positions("Deleted")) \cup Positions("Put"),
        !.rows = IF c \in DOMAIN w.metadata
                 THEN UpdatedMetadata(s, id, w.metadata[c], version) ELSE @]

\* Every temporary id is introduced by the write set, and every collection whose metadata
\* is written exists; otherwise put returns an error and nothing is stored.
Applicable(s, w) ==
  LET new == NewIds(s, w)
      created == CollectionsCreated(s, w, 0)
      temps == [t \in {k[2] : k \in DOMAIN w.newIndexes} |-> t]
  IN /\ \A k \in DOMAIN w.newIndexes : Resolves(k[1], new)
     /\ \A c \in Written(w) : Resolves(c, new)
     /\ \A k \in DOMAIN w.entries : Resolves(k[2], temps)
     /\ \A c \in DOMAIN w.metadata : AllVersionsOf(created, Resolve(c, new)) # {}

Put(s, w, version) ==
  LET new == NewIds(s, w)
      indexed == IndexesCreated(CollectionsCreated(s, w, version), w, new)
      newIndex == NewIndexIds(indexed, w, new)
  IN FoldLeft(LAMBDA t, c : WriteCollection(t, w, c, new, newIndex, version),
              indexed, InIdOrder(Written(w)))
=============================================================================
