-------------------------- MODULE CatalogTransaction --------------------------
(***************************************************************************)
(* Transactions that read the catalogs with their own writes over them,    *)
(* record writes under the ids they find or make up, and hand the write    *)
(* set to Datastore::put, with commits of others in between.               *)
(*                                                                         *)
(* The callers are external: they look a name up before they create it,    *)
(* number their temporary ids downwards, and commit above every timestamp  *)
(* used before.                                                            *)
(***************************************************************************)
EXTENDS WriteBatch, MergedCursor

CONSTANTS
  Tx,          \* transactions; each runs once
  Name,        \* names of collections and indexes, sequences of naturals
  Doc,         \* document ids
  Metadata,    \* what catalog rows carry
  Stores,      \* the stores the transactions may find, written at timestamp 1
  MaxWrites    \* bound on the rows each transaction writes

ASSUME CatalogAssumption ==
  /\ Name \subseteq Seq(Nat)
  /\ Empty \in Metadata
  /\ MaxWrites \in [Tx -> Nat]

IsTable(table, keys, rows) == table \in [DOMAIN table -> rows] /\ DOMAIN table \subseteq keys

\* The rows of a store have their types, up to version ts.
WellTyped(s, ts) ==
  /\ s \in [ids : {s.ids}, rows : {s.rows}, indexes : {s.indexes}, docs : {s.docs},
            entries : SUBSET (Nat \X Doc), lastCollection : Nat, lastIndex : Nat]
  /\ IsTable(s.ids, Name, 1 .. s.lastCollection)
  /\ IsTable(s.rows, Nat \X (0 .. ts), [name : Name, metadata : Metadata])
  /\ IsTable(s.indexes, Nat \X Name, [id : Nat, metadata : Metadata])
  /\ IsFiniteSet(DOMAIN s.indexes)
  /\ IsTable(s.docs, Nat \X Doc \X Nat, Tx)

\* Every index has an id of its own, and the counter is beyond none.
Numbered(s) ==
  /\ \A k \in DOMAIN s.indexes : s.indexes[k].id <= s.lastIndex
  /\ \A k, l \in DOMAIN s.indexes : s.indexes[k].id = s.indexes[l].id => k = l

\* Every collection has a name, an id of its own and a row up to version ts.
Catalogued(s, ts) ==
  /\ WellTyped(s, ts) /\ Numbered(s)
  /\ \A m, n \in DOMAIN s.ids : s.ids[m] = s.ids[n] => m = n
  /\ \A n \in DOMAIN s.ids : \E k \in DOMAIN s.rows : k[1] = s.ids[n]
  /\ \A k \in DOMAIN s.rows : \E n \in DOMAIN s.ids : k[1] = s.ids[n] /\ s.rows[k].name = n

\* Nothing is of a collection or an index that is not there.
Owned(s) ==
  /\ \A k \in DOMAIN s.indexes \cup DOMAIN s.docs : \E n \in DOMAIN s.ids : k[1] = s.ids[n]
  /\ \A e \in s.entries : \E k \in DOMAIN s.indexes : s.indexes[k].id = e[1]

\* The stores are ones that put has made.
ASSUME StoresAssumption == \A s \in Stores : Catalogued(s, 1) /\ Owned(s)

VARIABLES
  store,     \* the committed state
  lastTs,    \* the last timestamp committed
  visible,   \* the last timestamp published
  tx         \* the transactions

vars == <<store, lastTs, visible, tx>>

NoTx == [phase |-> "idle", snapshot |-> EmptyStore, ts |-> 0, writes |-> NoWrites, lastTemp |-> 0]
NoId == 0

Init ==
  /\ store \in Stores
  /\ lastTs = 1
  /\ visible = 1
  /\ tx = [t \in Tx |-> NoTx]

-----------------------------------------------------------------------------
(* Reading: r is a transaction *)

New(r) == DOMAIN r.writes.newCollections

\* stored_collection_entry, visible_collection
Shown(r, id) == Known(r.snapshot, id, r.ts)
Row(r, id) == RowOf(r.snapshot, id, r.ts)

\* Mutation of Collection: only stored collections are looked up.
CollectionStored(r, name) ==
  IF name \in DOMAIN r.snapshot.ids /\ Shown(r, r.snapshot.ids[name])
  THEN r.snapshot.ids[name] ELSE NoId

Collection(r, name) ==
  LET new == {c \in New(r) : r.writes.newCollections[c] = name}
  IN IF new # {} THEN Min(new)
     ELSE IF name \in DOMAIN r.snapshot.ids /\ Shown(r, r.snapshot.ids[name])
     THEN r.snapshot.ids[name] ELSE NoId

\* The catalogs are ordered by name; the sort that orders a transaction's own
\* entries is stable, and they come by id.
PlaceOf(name) == <<name, 0>>
Place == {PlaceOf(name) : name \in Name}
EntryLess(e, f) == PositionLess(<<e.at[1], e.id>>, <<f.at[1], f.id>>)

Entry(id, name, metadata) == [at |-> PlaceOf(name), id |-> id, metadata |-> metadata]

From(set, direction, start) ==
  Directed(direction, {e \in set : Accepts(direction, start, e.at)}, EntryLess)

Own(r, c) == IF c \in DOMAIN r.writes.metadata THEN r.writes.metadata[c] ELSE Empty

\* Mutation of OwnCollections: a new collection shows no metadata.
OwnCollectionsBare(r) ==
  {Entry(c, r.writes.newCollections[c], Empty) : c \in New(r)}
    \cup {Entry(c, Row(r, c).name, Own(r, c)) :
            c \in {d \in DOMAIN r.writes.metadata \ New(r) : Shown(r, d)}}

OwnCollections(r) ==
  {Entry(c, r.writes.newCollections[c], Own(r, c)) : c \in New(r)}
    \cup {Entry(c, Row(r, c).name, Own(r, c)) :
            c \in {d \in DOMAIN r.writes.metadata \ New(r) : Shown(r, d)}}

\* Mutation of StoredCollections: collections created after the timestamp are shown.
StoredCollectionsAll(r) ==
  LET ids == r.snapshot.ids
      Newest(n) == RowOf(r.snapshot, ids[n], lastTs)
  IN {Entry(ids[n], n, Newest(n).metadata) : n \in DOMAIN ids}

StoredCollections(r) ==
  LET ids == {i \in {r.snapshot.ids[n] : n \in DOMAIN r.snapshot.ids} : Shown(r, i)}
  IN {Entry(i, Row(r, i).name, Row(r, i).metadata) : i \in ids}

\* Hidden by a touched id or a touched name.
CollectionCursor(r, direction, start) ==
  LET overlay == OwnCollections(r)
      Touched(entry) == \E own \in overlay : own.id = entry.id \/ own.at = entry.at
  IN Opened("Collections", direction, start,
            From({e \in StoredCollections(r) : ~Touched(e)}, direction, start),
            From(overlay, direction, start))

OwnIndexes(r, c) ==
  {Entry(k[2], r.writes.newIndexes[k].name, r.writes.newIndexes[k].metadata) :
     k \in {l \in DOMAIN r.writes.newIndexes : l[1] = c}}

\* The index catalog has no versions.
StoredIndexes(r, c) ==
  {Entry(r.snapshot.indexes[k].id, k[2], r.snapshot.indexes[k].metadata) :
     k \in {l \in DOMAIN r.snapshot.indexes : l[1] = c}}

IndexCatalogCursor(r, c, direction, start) ==
  LET overlay == OwnIndexes(r, c)
      Touched(entry) == \E own \in overlay : own.at = entry.at
  IN Opened("Indexes", direction, start,
            From({e \in StoredIndexes(r, c) : ~Touched(e)}, direction, start),
            From(overlay, direction, start))

\* What a cursor returns when it is drained; the transaction cannot write meanwhile.
Returned(cursor) ==
  LET Next(c, i) == IF TakesBase(c) THEN BaseTaken(c) ELSE OverlayTaken(c)
      Step(c, i) == IF Drained(c) THEN c ELSE Next(c, i)
  IN FoldLeft(Step, cursor, [i \in 1 .. Len(cursor.base) + Len(cursor.overlay) |-> i]).out

FromFirst == [kind |-> "Unbounded", at |-> << <<>>, 0 >>]

\* The indexes of collection c as the transaction sees them.
Indexes(r, c) ==
  LET entries == Returned(IndexCatalogCursor(r, c, "Forward", FromFirst))
  IN {entries[i] : i \in DOMAIN entries}

-----------------------------------------------------------------------------
(* Actions *)

Begin(t) ==
  /\ tx[t].phase = "idle"
  /\ tx' = [tx EXCEPT ![t] = [NoTx EXCEPT !.phase = "open", !.snapshot = store, !.ts = visible]]
  /\ UNCHANGED <<store, lastTs, visible>>

Size(w) ==
  Cardinality(DOMAIN w.newCollections) + Cardinality(DOMAIN w.newIndexes)
    + Cardinality(DOMAIN w.docs) + Cardinality(DOMAIN w.entries) + Cardinality(DOMAIN w.metadata)

Record(t, writes, lastTemp) ==
  /\ tx[t].phase = "open"
  /\ Size(writes) <= MaxWrites[t]
  /\ tx' = [tx EXCEPT ![t].writes = writes, ![t].lastTemp = lastTemp]
  /\ UNCHANGED <<store, lastTs, visible>>

\* The temporary id the caller uses next, for a collection or an index.
NextTemp(t) == tx[t].lastTemp - 1

NewCollection(t, name) ==
  /\ Collection(tx[t], name) = NoId
  /\ Record(t, [tx[t].writes EXCEPT !.newCollections = Inserted(@, NextTemp(t), name)], NextTemp(t))

NewIndex(t, collection, name, metadata) ==
  LET c == Collection(tx[t], collection) IN
  /\ c # NoId
  /\ \A e \in Indexes(tx[t], c) : e.at # PlaceOf(name)
  /\ Record(t, [tx[t].writes EXCEPT !.newIndexes =
                  Inserted(@, <<c, NextTemp(t)>>, [name |-> name, metadata |-> metadata])], NextTemp(t))

\* put and put_many, delete and delete_many, one document at a time.  A row, or a
\* tombstone, is told apart by its author.
WriteDocument(t, collection, doc) ==
  LET c == Collection(tx[t], collection) IN
  /\ c # NoId
  /\ Record(t, [tx[t].writes EXCEPT !.docs = Inserted(@, <<c, doc>>, t)], tx[t].lastTemp)

WriteIndexEntry(t, collection, name, doc, op) ==
  LET c == Collection(tx[t], collection) IN
  /\ c # NoId
  /\ \E e \in Indexes(tx[t], c) :
       /\ e.at = PlaceOf(name)
       /\ Record(t, [tx[t].writes EXCEPT !.entries = Inserted(@, <<c, e.id, doc>>, op)],
                 tx[t].lastTemp)

UpdateCollectionMetadata(t, collection, metadata) ==
  LET c == Collection(tx[t], collection) IN
  /\ c # NoId
  /\ Record(t, [tx[t].writes EXCEPT !.metadata = Inserted(@, c, metadata)], tx[t].lastTemp)

\* into_write_set and put; a write set that cannot be applied leaves no trace.
Commit(t) ==
  /\ tx[t].phase = "open"
  /\ store' = IF Applicable(store, tx[t].writes) THEN Put(store, tx[t].writes, lastTs + 1)
              ELSE store
  /\ lastTs' = lastTs + 1
  /\ tx' = [tx EXCEPT ![t] = [NoTx EXCEPT !.phase = "done"]]
  /\ UNCHANGED visible

Publish ==
  /\ visible < lastTs
  /\ visible' = lastTs
  /\ UNCHANGED <<store, lastTs, tx>>

Next ==
  \/ \E t \in Tx : Begin(t)
  \/ \E t \in Tx, name \in Name : NewCollection(t, name)
  \/ \E t \in Tx, collection \in Name, name \in Name, metadata \in Metadata :
       NewIndex(t, collection, name, metadata)
  \/ \E t \in Tx, collection \in Name, doc \in Doc : WriteDocument(t, collection, doc)
  \/ \E t \in Tx, collection \in Name, name \in Name, doc \in Doc, op \in {"Put", "Deleted"} :
       WriteIndexEntry(t, collection, name, doc, op)
  \/ \E t \in Tx, collection \in Name, metadata \in Metadata :
       UpdateCollectionMetadata(t, collection, metadata)
  \/ \E t \in Tx : Commit(t)
  \/ Publish

Spec == Init /\ [][Next]_vars

-----------------------------------------------------------------------------
(* Properties *)

\* put: whatever others have committed since a transaction began, its write set can be
\* applied; a name they created in between is found, not refused.
WritesAlwaysApply == \A t \in Tx : Applicable(store, tx[t].writes)

\* put resolves every temporary id and takes the others as they are: no document, index
\* entry, index or name is ever stored under an id that the catalogs do not know.
NothingOrphaned ==
  LET collections == {k[1] : k \in DOMAIN store.rows}
  IN /\ \A n \in DOMAIN store.ids :
          Known(store, store.ids[n], lastTs) /\ RowOf(store, store.ids[n], lastTs).name = n
     /\ collections = {store.ids[n] : n \in DOMAIN store.ids}
     /\ \A k \in DOMAIN store.docs \cup DOMAIN store.indexes : k[1] \in collections
     /\ \A e \in store.entries : \E k \in DOMAIN store.indexes : store.indexes[k].id = e[1]

\* What a transaction reads depends on no other one; it is looked at where no other is open.
OpenAlone(t) == tx[t].phase = "open" /\ \A u \in Tx \ {t} : tx[u].phase # "open"

\* What the transaction would have committed, alone with what it sees.
AsSeen(r) ==
  LET ids == r.snapshot.ids
      rows == r.snapshot.rows
      names == {n \in DOMAIN ids : Shown(r, ids[n])}
  IN [r.snapshot EXCEPT !.ids = [n \in names |-> ids[n]],
                        !.rows = [k \in {l \in DOMAIN rows : l[2] <= r.ts} |-> rows[k]]]

After(r) == Put(AsSeen(r), r.writes, r.ts + 1)

\* The id that a found collection has after the commit.
Settled(r, id) == Resolve(id, NewIds(AsSeen(r), r.writes))

\* collection: a name finds the collection it will name after the commit.
LookupSeesCommit ==
  \A t \in Tx, name \in Name :
    LET ids == After(tx[t]).ids
        found == Collection(tx[t], name)
    IN OpenAlone(t) =>
         IF name \in DOMAIN ids THEN found # NoId /\ Settled(tx[t], found) = ids[name]
         ELSE found = NoId

\* The catalogs after the commit, by name.
CollectionsAfter(r) ==
  LET s == After(r)
  IN {Entry(s.ids[n], n, RowOf(s, s.ids[n], r.ts + 1).metadata) : n \in DOMAIN s.ids}

IndexesAfter(r, c) ==
  LET s == After(r)
  IN {Entry(s.indexes[k].id, k[2], s.indexes[k].metadata) :
        k \in {l \in DOMAIN s.indexes : l[1] = Settled(r, c)}}

Listed(entries, direction, start) ==
  LET listed == Directed(direction, {e \in entries : FromStart(direction, start, e.at)}, EntryLess)
  IN [i \in DOMAIN listed |-> <<listed[i].at, listed[i].metadata>>]

SameListing(out, listing) ==
  /\ DOMAIN out = DOMAIN listing
  /\ \A i \in DOMAIN out : listing[i] = <<out[i].at, out[i].metadata>>

\* get_collections_catalog_cursor, get_indexes_catalog_cursor: what a transaction's
\* catalog cursors return is what they would after its commit, each name once, in both
\* directions and from every start.
CatalogReadsOwnWrites ==
  \A t \in Tx : OpenAlone(t) =>
    LET r == tx[t]
        own == {c \in {Collection(r, n) : n \in Name} : c # NoId}
        collections == CollectionsAfter(r)
        indexes == [c \in own |-> IndexesAfter(r, c)]
    IN \A direction \in Direction, start \in StartAt(Place) :
         /\ SameListing(Returned(CollectionCursor(r, direction, start)),
                        Listed(collections, direction, start))
         /\ \A c \in own :
              SameListing(Returned(IndexCatalogCursor(r, c, direction, start)),
                          Listed(indexes[c], direction, start))

\* The name in the newest row of a collection; without a row it would show as the empty one.
NameOf(s, id) ==
  IF AllVersionsOf(s, id) # {} THEN s.rows[<<id, Max(AllVersionsOf(s, id))>>].name ELSE <<>>

IndexOf(s, id) == CHOOSE k \in DOMAIN s.indexes : s.indexes[k].id = id

\* A table under other keys, and the metadata of its rows.
Renamed(table, key) ==
  [n \in {key[k] : k \in DOMAIN table} |-> table[CHOOSE k \in DOMAIN table : key[k] = n]]
Described(table) == [k \in DOMAIN table |-> table[k].metadata]

\* The store by name.
Content(s) ==
  LET ByName(table) == Renamed(table, [k \in DOMAIN table |-> [k EXCEPT ![1] = NameOf(s, @)]])
      NamedEntry(e) == <<NameOf(s, IndexOf(s, e[1])[1]), IndexOf(s, e[1])[2], e[2]>>
  IN [collections |-> ByName(Described(s.rows)),
      indexes |-> ByName(Described(s.indexes)),
      docs |-> ByName(s.docs),
      entries |-> {NamedEntry(e) : e \in s.entries}]

\* The write set by name: an id stands for the name it was looked up or made up for.
NameMeant(r, c) == IF c < 0 THEN r.writes.newCollections[c] ELSE Row(r, c).name
IndexMeant(r, c, i) ==
  IF i < 0 THEN r.writes.newIndexes[<<c, i>>].name ELSE IndexOf(r.snapshot, i)[2]

Meant(r) ==
  LET w == r.writes
      IndexName(k) == <<NameMeant(r, k[1]), w.newIndexes[k].name>>
      DocName(k) == <<NameMeant(r, k[1]), k[2]>>
      EntryName(k) == <<NameMeant(r, k[1]), IndexMeant(r, k[1], k[2]), k[3]>>
      NamedEntries(op) == {EntryName(k) : k \in {e \in DOMAIN w.entries : w.entries[e] = op}}
  IN [create |-> {w.newCollections[c] : c \in DOMAIN w.newCollections},
      indexes |-> Renamed(Described(w.newIndexes), [k \in DOMAIN w.newIndexes |-> IndexName(k)]),
      docs |-> Renamed(w.docs, [k \in DOMAIN w.docs |-> DocName(k)]),
      put |-> NamedEntries("Put"), deleted |-> NamedEntries("Deleted"),
      metadata |-> Renamed(w.metadata, [c \in DOMAIN w.metadata |-> NameMeant(r, c)])]

Named == INSTANCE NamedStore WITH content <- Content(store)

\* Datastore::put: a commit does by name what its author meant by name, whichever ids the
\* names had when they were looked up and whoever created them meanwhile; and nothing
\* else changes the store.
CommitsMeanNames ==
  [][\/ UNCHANGED store
     \/ \E t \in Tx : Commit(t) /\ Named!Commit(Meant(tx[t]), lastTs + 1)]_vars
=============================================================================
