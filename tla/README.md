# Verification of OtterLake DB

TLA+ models of the storage engine (`crates/storage`) and of the front end: transactions,
queries and documents (`crates/database`), the TLC runs that check them, and proofs for TLAPS.

## 1. Inventory

| Part | State | Operations | What makes it correct |
|---|---|---|---|
| `HeedStorageEngine` (datastore.rs) | eight LMDB databases; in memory the global timestamp, the published timestamp, three id counters with dirty flags | `put`, `set_ts`, `set_visible_ts`, `flush`, `open`, `transaction` | ids are unique for ever; a name keeps its id; the persisted timestamp protects every persisted version; a commit appends versions; a read at a timestamp is a snapshot; what was flushed survives |
| index trie (datastore.rs, encoding.rs) | edges and leaves per index, the chain id counter | `put_index_entry`, `delete_index_entry`, pruning | the trie stays a tree in which every entry can be reached, and is the set of entries written |
| index cursor (cursors.rs) | a stack of frames over one LMDB snapshot | `next` | entries come in index order, all of them, once |
| read transaction (transaction.rs) | an LMDB snapshot, a timestamp, its own writes | `get`, four kinds of cursors, recorded writes | it reads what a reader would see after its commit |
| write set (write_set.rs) | last write per row, temporary negative ids | `put`, `delete`, `new_collection`, `new_index`, … | the last write wins; temporary ids resolve to the ids allocated for them |
| `Database`, `Transaction` (database.rs, transaction.rs) | id allocator, round robin counter, one sender per worker | `transaction`, `collection`, `query`, `get`, `commit`, drop | commands follow their start on one channel; every request resolves |
| worker thread (worker.rs) | a channel, a map of transaction contexts | one arm per command | it outlives every sender and then returns |
| key encoding (encoding.rs) | none | `encode_entry` | byte order is value order |
| query builder (builder.rs, query.rs) | a chain of calls under construction | `with_index`, `filter`, `order`, `take`, `first`, `unique`, `collect` | a key range holds exactly the entries its bounds describe; encoded filters mean what the chain's filters mean; each terminal asks for enough |
| document model (document.rs) | an ordered list of entries | `insert`, `remove`, `with_id`, `to_document`, `from_document`, `from_document_with_id`, conversions | what is accepted for writing is read back as it was |
| configuration, errors, read set, write ahead log | data, or a stub | - | - |

How they interact. A task calls `Database::transaction`, which draws an id, picks a worker and
sends it `StartTransaction`; afterwards the task sends its requests to that worker and awaits
oneshot responders. The workers own a clone of the datastore; the arms that will use it are
still empty, so the front end and the storage engine only meet at `get_ts` and
`get_visible_ts`. Inside the engine, LMDB serialises write calls, while readers and the
atomics do not wait for them.

What is hard:

* a write call works on a private LMDB transaction but changes the atomics as it goes, so an
  error return or a crash leaves the two halves at different moments;
* the environment is opened with `NO_SYNC`, so a commit is not durable until `flush`;
* a reader takes its timestamp and its LMDB snapshot at two moments;
* index entries are physical rows in a trie whose paths are shared and pruned;
* a write set names new collections and indexes by temporary ids while others may create the
  same names, and its author reads them back before they exist;
* a value passes through two translations, one for the store and one for a query, that must
  agree;
* tasks interleave between drawing an id, drawing a worker and sending, drop futures that are
  pending, and drop the database handle while transactions live.

`PROJECT.json` lists every hazard at its line with the properties that cover it.

## 2. Modules

| Module | What it is | Code |
|---|---|---|
| `Versions` | timestamped rows and what a read at a timestamp finds | documents table, `stored_document` |
| `HeedEngine` | the engine as a state machine | datastore.rs |
| `MvccStore` | what the engine promises: an abstract multi-version store | - |
| `HeedEngineMvcc` | the refinement mapping from `HeedEngine` to `MvccStore` | - |
| `HeedEngineProofs` | theorems about the engine, and that it implements `MvccStore` | - |
| `IndexLayout` | the trie operations as functions: split, put, delete, prune | `split_index_key` … `index_node_has_entries` |
| `IndexTrie`, `OrderedIndex` | one index under puts, deletes, failed puts and restarts; the set of entries it implements | `put` |
| `IndexTrieProofs` | theorems: the trie stays a tree, implements `OrderedIndex`, and is what a cursor relies on | - |
| `CursorOrder` | the orders cursors walk in, and where they start | types.rs, `compare_order` |
| `OrderProofs` | lemmas the other proofs share: places, folds, byte strings, sorted lists, merged cursors | - |
| `IndexCursor` | the depth-first cursor over a trie | cursors.rs |
| `IndexCursorProofs` | theorems: the cursor returns the entries in order, and all of them | - |
| `MergedCursor` | a stored stream and a transaction's own one, merged | `MergedDocumentCursor` and its three siblings |
| `ReadTransaction` | a transaction's reads and cursors over its own writes | transaction.rs, `HeedDocumentCursor`, write_set.rs |
| `WriteBatch` | write sets and what `put` makes of one: creation by name, temporary ids, rows | write_set.rs, `put`, `create_collection`, `create_index` |
| `ReadTransactionProofs` | theorems: lookups and cursors see the commit | - |
| `CatalogTransaction` | transactions that look names up, list catalogs, record writes and commit them beside others | transaction.rs, `HeedCollectionCatalogCursor`, `HeedIndexCatalogCursor` |
| `CatalogTransactionProofs` | theorems: write sets apply, catalogs stay complete, lookups and cursors see the commit, commits mean names | - |
| `NamedStore` | what a write set means to its author: the same commit without ids | - |
| `DocumentValues` | the document data model and its serde bridge as functions | document.rs |
| `StoredDocument` | a value on its way into the store and back | document.rs |
| `StoredDocumentProofs` | theorems: keys are unique, what is read back, with and without the id, what queries ask for, what numbers become | - |
| `KeyEncoding` | the order-preserving encoding of index fields, and the order it stands for | encoding.rs of the database |
| `IndexRange` | the `with_index` builder and the key range it makes | builder.rs |
| `QueryBuilder` | every stage and terminal of a query, and the Query they assemble | builder.rs, query.rs |
| `DatabaseProofs` | theorems about queries and workers: encoded keys sort as their fields, ranges are exact, filters keep their meaning, terminals ask for enough; commands, requests and ends of transactions | - |
| `TransactionWorker` | tasks, channels and worker threads | database.rs, transaction.rs, worker.rs |
| `MC*` | instances for TLC | - |

### HeedEngine

`disk` is the committed LMDB state, `dirty` the private copy of the one open write
transaction, `flushed` the last state forced to the device. `ts`, `visibleTs`, `counter` and
`changed` are the atomics. `pc` says where the open call stands:

```
put             catalog -> entries -> save -> commit
Datastore::set_ts          set_ts -> commit
set_visible_ts        set_visible -> commit
```

A call is cut into actions exactly where an atomic, `dirty` or `disk` changes: allocation of
one id (`AllocateObject`), the document rows (`WriteDocuments`), the inner `set_ts` (`SetTs`,
`RejectTs`), `save_counters` (`SaveCounters`), `Commit`. Between two of them any reader, flush,
crash or power failure may step in. Each place where the code returns an error is an action
(`FailBody`, `FailSetTs`, `FailSave`, `FailSetVisible`, `FailCommit`): it drops `dirty` and
leaves in the atomics what the code leaves there. `Reopen` and `PowerFailure` restart from
`disk` and from `flushed` through `load_counters` (`Load`).

An `Object` is anything that draws an id from a counter: a collection name, an index name, a
trie edge. The row that maps it to its id is `ids[o]`. `Document` stands for every row keyed by
(id, version). The compare-exchange loop of `set_ts` is one step, because all its callers hold
LMDB's write lock.

Two switches are constants. `LateFailure` says whether LMDB may refuse a metadata put or the
commit (map full, I/O error) after the engine has changed its atomics. `Disciplined` says
whether callers write only above the published timestamp and never lower it; the engine does
not enforce this, and snapshot reads need it.

LMDB is external: one write transaction at a time, a commit publishes all of it at once, a read
transaction sees one commit for its whole life, a process crash keeps every commit. After a
power failure the model recovers the last forced sync; with `WRITE_MAP` and without syncs LMDB
gives no better guarantee.

### IndexLayout, IndexTrie, IndexCursor

A trie is a record of edges, leaves and the chain id counter. The LMDB key
`[index id][chain id][segment]` becomes the tuple it encodes, and the index id is left out,
because it is the first part of every key and no operation crosses it. `PrefixOf` reads the
path of a node back, `EntriesOf` the set of entries; they are the refinement mapping from
`IndexTrie` to `OrderedIndex`. The cursor's frames hold what its two LMDB prefix iterators
still have to return; one action is one turn of the loop in `next_unfiltered`.

The cursor reads a snapshot, so `IndexCursor` takes its index from a constant, `Tries`, and
assumes of it what a scan relies on: `WellFormed`. `WritesKeepIndexesWellFormed` proves that
every index reached in `IndexTrie` is so, and TLC evaluates it for the indexes of the run.

### ReadTransaction

One collection and one index, seen by one transaction. `history`, `entries` and `ts` are its
snapshot and never change; `docWrites` and `indexWrites` hold the last write to each row. While
a cursor is open the borrow checker allows no write, so the actions are: write a row, open a
cursor, take the next entry from one of its two streams, close it. What `next_base` would skip
one by one is filtered when the cursor opens, since nothing it depends on can change.

The document stream is folded from the rows in key order as `HeedDocumentCursor` does it: the
scan starts at an id with version 0 or `u64::MAX` (`ScanEdge`), rows above the timestamp are
skipped, and of a run of versions the last one (forward) or the first one (reverse) counts. The
stream of stored index entries is what `IndexCursor` is shown to return. The reference the
cursors are compared with, `Expected`, uses none of this: it commits the writes with the
operators of `Versions` and orders what is visible.

### WriteBatch, NamedStore, CatalogTransaction

`WriteBatch` is `WriteSet` and `put` as functions on a committed state: collections are created
in the order of their temporary ids, then indexes, then each `CollectionWriteSet` is resolved and
written. The two local maps are the code's, `new_indexes` keyed by the temporary index id alone.
The timestamp checks, saved counters and failures of the same call are in `HeedEngine`, where the
rows do not matter. `vacuum_targets` is left out: `put` writes it and no code reads it.

In `CatalogTransaction` transactions take a snapshot, read the catalogs with their own writes
over them, record writes, and commit, with the commits of others in between. Their authors are
external, and disciplined as the write set expects: they look a name up before they create it,
count temporary ids downwards over collections and indexes together, and commit above every
timestamp used before. An id that is looked up is used as it is; a wrong one would be stored where
no name leads, and `NothingOrphaned` shows that this does not happen to such callers.

The collection catalog is versioned and found through an index of names that is not, so a name
may lead to a collection the timestamp does not see. The index catalog has no versions at all. A
transaction's own entries are collected by id and sorted by name, and an updated collection
appears in both streams under the same name. `LookupSeesCommit` and `CatalogReadsOwnWrites`
compare what a transaction is shown with what its commit alone would make (`After`), by name and
metadata, because the ids it is shown are still temporary.

`CommitsMeanNames` is a refinement: `Content` is the store by name, `Meant` the write set by
name, and every commit is one commit of `NamedStore`, where ids do not exist. It fails as soon as
a temporary id is resolved to another row than its author looked up, also when another
transaction has created the name in between.

### DocumentValues, StoredDocument

A Rust type is a record that says how it is built; a value of it is plain data. `Serialize` and
`Deserialize` follow the code's `Serializer` and `Deserializer` method by method, with what serde's
derived code does with them modelled from its use. A document is read back by the type that wrote
it, with and without the storage id; a map is iterated in one order. `Half` and `Byte` stand for
2^63 and 2^8, and floats are counted in halves.

What depends on a type is a recursive function: a level says what it is for a type from what it is
for the types this one is built from (`SerializeAs` and `Serialize`, `DeserializeAs` and
`Deserialize`, `FromAs` and `From`). `Types` is any set of types closed under `Parts`, `Data` what a
program holds of each, `Depth` how deep they nest, at most `Nesting`; `TypeAssumption` and
`DataAssumption` say so, and that a struct has no two fields of one name and a map no key twice.
`StartAssumption` says that a caller of `Document` starts from one without a key twice, as all its
constructors make it.

The coercions of derived code are left out: a struct out of a sequence, text out of bytes, bytes out
of text. The bytes of a UUIDv7 are practically never the UTF-8 that text would need. `Char`, the
strings of one character, keeps a `char` from reading the name `_id`.

The properties say exactly which values survive. Those that do not are accepted without an error:

* a `u64` of 2^63 or more wraps to a negative integer and cannot be read back (`serialize_u64`);
* `Some` of something stored as null, `Some(())` or `Some(None)`, comes back as `None`;
* a map whose keys are not text is stored under text keys, which its type cannot read back;
* a `Vec<u8>` is `Bytes` in a query and an `Array` in a document, so that equality finds nothing.

The repository promises nothing else about these. It does about a float beyond `i64`, which is
finding 3.

With its id a document has one more entry, `_id`, in front. `IdName` and `IdBytes` say what a type
reads out of that name and out of the bytes, one value or none, and `Joined` what a value then comes
back as: a `Document` and a map get the entry, a struct does not see it, and newtypes and options do
as what they are around. A map takes it if its key type reads `_id` and its value type reads bytes,
as `HashMap<String, Value>` does; any other map refuses, and so does an enum at the root, which is
written as a map of one entry. All of these can be stored. `IdTypes` are the types a caller's struct
may read `_id` as. `document.rs:30` says that it "decodes cleanly into `uuid::Uuid` or raw bytes":
that holds of types that ask for bytes (`uuid::Uuid`, `serde_bytes`), of `Value`, and of
`TryFrom<Value>` for `Vec<u8>`. It does not hold of a field `_id: Vec<u8>` with derived
`Deserialize`, which is a seq and refuses bytes; `IdIsOneMoreEntry` pins both.

`QueriesAskForWhatIsStored` compares every type both translations take, also `Value` itself, whose
conversion is the identity: it differs from the store only for a `Value` that holds a key twice.

### KeyEncoding, IndexRange, QueryBuilder

A byte is a number up to `MaxByte`, which stands for `0xFF`, and the eight bytes of an integer or
a float are one: the encoding treats them as a word, flips its sign bit or all of its bits, and
writes it most significant byte first, so that one byte shows everything it does. `Rank`,
`ValueLess` and `EntryLess` are the reference order, stated on values. `IndexRange` is the typed
builder as a state machine (its stages are the guards) and `build_with_index` as its last step.

`QueryBuilder` puts the stages around it: `filter` and `order` in the places the types allow, then
one terminal, which assembles the Query. A filter is a tree, kept as a function from the paths of
its nodes, so that lowering (`Lowered`) encodes the operand of every comparison and leaves the rest;
`All` puts several below a new And, and `Truth` is a recursive function from the leaves up. The worker's `Query` arm is empty, so
its answer is external: the documents that the Query describes, in the order of the index or of
their ids, up to the limit; no order given is read as ascending. The reference, `Means`, compares
values and never looks at bytes. The `_as` terminals read each document as `StoredDocument` does,
and `get` passes one request to the worker.

### TransactionWorker

One action per call of the front end, per arm of the worker's loop, and per way a future can
end. A request is in flight from its send until its responder is dropped (the arms send no
answer yet); `Cancel` and `CancelCommit` drop the future instead, `DropTransaction` is
`impl Drop`, which also runs at the end of `commit(self)`. The three kinds of requests are a
constant, `RequestKind`, since their arms do the same. `RollbackTransaction` and `Write` are
left out: nothing constructs them. A pool of size zero, which `Config` does not refuse and which
would divide by zero, is excluded by `PoolAssumption`.

`commit(self)` sends the end of the transaction, and `Drop` sends it again when the call returns
or its future is dropped. `EndIsFinal` says that this is all that can follow: Rust's borrow rules
keep requests from being sent after it, because a request borrows the transaction.

## 3. Runs

| Run | Checks | Instance | Why that is enough |
|---|---|---|---|
| `engine` | `IdsNeverReused`, `NamesKeepTheirIds`, `ReaderSeesItsSnapshot`, `FlushedSnapshotsSurvive`, `ImplementsMvccStore` | late failures, disciplined callers; in one part two collections, one index, two edges and two ids per counter, in the other two documents, timestamps 0..2 and one reader | two objects per counter compete for one id, and the second id is drawn after an abort; readers do not affect each other, so one is enough, and writers overtake it twice |
| `engine_ts` | `TypeOK`, `TsCoversVersions`, `AppendOnly` | two documents, timestamps 0..2, no late failures, callers without discipline | a version below, at and above another one; a restart between |
| `engine_late_failure` | violates `AppendOnly` | two documents, timestamps 0..2, late failures, disciplined callers, no reader | finding 1 |
| `index_trie` | `TypeOK`, `NothingDetached`, `IsTree`, `NoDeadEdges`, `WritesAreExact`, `ImplementsOrderedIndex` | segments of two bytes, four keys of zero to three segments, two documents, six chain ids | keys share no, one and two edges; a key ends where another goes on |
| `index_cursor` | `InOrder`, `Complete` | every index of up to four of seven keys, and the full one before and after deletes, all start positions, both directions, any visible documents | keys end inside, at and beyond a boundary; a leaf and an edge with equal segments |
| `read_transaction` | `GetSeesCommit`, `ReadsOwnWrites` | two documents with stored versions below and above the timestamp, timestamps 0..2, two index keys, up to three rows written, every start position and direction | every pair of a stored and an own entry meets before, at and after each other |
| `catalog_transaction` | `WritesAlwaysApply`, `NothingOrphaned`, `LookupSeesCommit`, `CatalogReadsOwnWrites`, `CommitsMeanNames` | two transactions, of three writes and of two, two names of which one is the prefix of the other, an empty store and one with a collection and an index | both create the same name, either first; a collection is new, found, or too new for the reader; an index is new in a new or in a found collection |
| `documents` | `KeysAreUnique`, `ReadsWhatWasWritten`, `IdIsOneMoreEntry`, `QueriesAskForWhatIsStored`, `NumbersAreNotInvented` | 91 types: 30 types and structs of one or two fields of them, newtypes, options, tuples and maps of `Document`, maps whose keys and values take the id or refuse it, and newtypes and options of structs at the root, with the values at the bounds of each; a field `_id` of five types; documents edited with two keys | every method of the serializer and deserializer, nested once in every container |
| `number_overflow` | violates `FloatsReportOverflow` | the types and values of `documents` | finding 3 |
| `query_builder` | `RangeIsExact`, `KeysOrderEntries`, `FiltersAreExact`, `TerminalsTellAll` | an index of two fields over 17 values: both zeros, two NaNs, the largest and smallest integer, strings of `0x00` and `0xFF`; seven filters, among them a negation, a nested one, an empty one and one that cannot be encoded; one and five documents; chains of up to three calls | the carry of `prefix_successor`, escaping at the end of a field, comparison across kinds, more and fewer matches than each terminal expects |
| `range_bounds` | violates `BoundsReadAsDocumented` | the index and values of `query_builder`, chains of any length | finding 2 |
| `worker` | `TypeOK`, `StartPrecedesUse`, `SendersKeepWorkersRunning`, `PendingIsQueued`, `EndIsFinal`, `EveryRequestResolves`, `WorkersReturn` | two tasks, two workers, two transactions, two kinds of requests, two requests per task | either task draws its worker first or runs both transactions; both may share a channel after a task ran first on each; a request is cancelled and followed by another; the handle is dropped at any time |

Bounds: `MaxTs` (timestamps), `MaxId` (each id counter), `MaxChain` (chain ids), `MaxTx`
(transactions), `MaxRequests` (requests per task), `MaxWrites` (rows or catalog
entries one transaction writes), `MaxParts` (calls of a query before its terminal). They limit how often something happens,
never what happens at the limit: no property mentions them.

Fairness. `TransactionWorker` assumes weak fairness of a worker's receive step and of its exit:
the operating system runs a thread that is not blocked. Tasks get none, since a task may be
dropped or never polled. `IndexCursor` assumes weak fairness of its own loop: a caller that
keeps calling `next`. The other modules state safety only and need none.

`CHECK_DEADLOCK FALSE` is set where the system may stop: workers that have all returned, a
cursor that is exhausted.

`MCHeedEngine` explores `HeedEngine` in two parts: callers that submit batches of names and edges,
and callers that write documents, publish and read. `OnePart`, a state constraint, stops a behaviour
where the marks of both meet. Ids are drawn without a look at timestamps or rows, and rows are
written without a look at ids, so a behaviour that mixes both shows nothing new, and the two
together would not fit a run. The theorems about `HeedEngine` are of all batches, without this cut.

### Findings

1. `set_ts` moves the memory timestamp before its metadata row is written. If that put, a later
   one or the commit fails, a retry at the same timestamp takes the `ts == current` return and
   commits without ever writing the row. After a restart the store accepts a timestamp below
   versions it holds, against `traits.rs:128`.
2. `build_with_index` turns `gt(v)` and `lte(v)` into bounds that exclude and include the single
   key of `v`. When the index has fields after `v`'s, the keys of the entries that hold `v` are
   longer and sort after it, so `gt` returns them and `lte` leaves them out, against the comments
   on both. `RangeIsExact` shows that everything else the builder can ask is exact.
3. The integer conversions cast a float with `f as i64` and compare only the result with the range
   of the target. The cast saturates: into `i64` a float of 2^63 or more converts to `i64::MAX`, one
   below -2^63 to `i64::MIN`, and NaN to 0 into every type, without an error, while
   `document.rs:310` says of them "Conversions that don't fit the target's range report
   `ConversionError::Overflow`". A narrower type does report the first two.
   `NumbersAreNotInvented` shows that all numbers inside `i64`, and no others, are converted as
   that comment says.

## 4. Proofs

Everything below is proved for every value of the constants: sets of objects, documents, write
sets, readers, tasks and workers, and all bounds.

`HeedEngineProofs` begins with the lemmas about rows: `Newest` picks an existing version, a view at `t`
depends on versions up to `t` only, `Installed` changes one version of the rows it is given.

| Theorem | Property | Assumes | Argument |
|---|---|---|---|
| `TypeCorrect` | `TypeOK` of the engine | - | inductive by itself |
| `IdsAreNeverReused`, `NamesAreStable` | `IdsNeverReused`, `NamesKeepTheirIds` | - | `IdInv` |
| `TsCovers`, `CommitsAppend` | `TsCoversVersions`, `AppendOnly` | `~LateFailure` | `TsInv` |
| `SnapshotsAreStable`, `FlushedSnapshotsAreDurable` | `ReaderSeesItsSnapshot`, `FlushedSnapshotsSurvive` | `Disciplined` | `SnapInv` |
| `EngineImplementsStore` | `ImplementsMvccStore` | `Disciplined` | `SnapInv`, `RefInv` |
| `WorkerTypes` | `TypeOK` of the worker module | - | `TypeInv` |
| `SendersKeepRunning` | `SendersKeepWorkersRunning` | - | `SendersInv` |
| `StartsPrecedeUses` | `StartPrecedesUse` | - | `StartInv` |
| `PendingIsInChannel` | `PendingIsQueued` | - | `PendInv` |
| `EndsAreFinal` | `EndIsFinal` | - | `EndInv` |
| `GetsSeeTheCommit` | `GetSeesCommit` | - | `ReadInv`, `StoredIsNewest` |
| `CursorsSeeTheCommit` | `ReadsOwnWrites` | - | `CursorInv`, `MergingPromises`, `StoredStreams` |
| `WriteSetsApply`, `CatalogsAreComplete` | `WritesAlwaysApply`, `NothingOrphaned` | - | `CatalogInv`, `PutKeepsCatalogs` |
| `LookupsSeeTheCommit` | `LookupSeesCommit` | - | `CatalogInv`, `SeenIsComplete` |
| `CatalogCursorsSeeTheCommit` | `CatalogReadsOwnWrites` | - | `TidyInv`, `MergedListing`, `PutUnfolds` |
| `CommitsMean` | `CommitsMeanNames` | - | `BelongInv`, `CommitPuts`, `OverRenamed` |
| `PrefixRangeIsExact` | - | - | `FirstDifference` |
| `IntegersKeepTheirOrder`, `FloatsKeepTheirOrder` | - | - | `FloatWord` |
| `KeysFollowFields` | `KeysOrderEntries` | - | `ValueKeepsOrder`, `EntriesCompare` |
| `RangesAreExact` | `RangeIsExact` | - | `BuilderInv`, `LowerEndIsExact`, `UpperEndIsExact` |
| `QueriesBuildRanges`, `QueriesUseExactRanges` | `RangeIsExact`, `KeysOrderEntries` inside a query | - | `QueryStep` |
| `FiltersKeepMeaning` | `FiltersAreExact` | - | `QueryInv`, `EvaluationExists`, `JoinedTruth`, `OneFieldCompares` |
| `TerminalsAnswer` | `TerminalsTellAll` | - | `QueryInv`, `SelectedAsMeant`, `FirstIsFirst`, `TwoTellOne` |
| `KeysHoldOnce` | `KeysAreUnique` | - | `DocumentInv`, `WritesAreStored`, `EditedKeepsKeys` |
| `WrittenIsRead` | `ReadsWhatWasWritten` | - | `DocumentInv`, `RoundTrip` |
| `IdComesWithTheValue` | `IdIsOneMoreEntry` | - | `DocumentInv`, `IdJoins`, `IdNameReads`, `IdBytesReads`, `IdentifiedReads` |
| `QueriesAndStoreAgree` | `QueriesAskForWhatIsStored` | - | `DocumentInv`, `QueriesAsk` |
| `NumbersAreKept` | `NumbersAreNotInvented` | - | `DocumentInv`, `NumbersKept` |
| `SegmentsFit`, `EdgesFormATree`, `EntriesAreReachable`, `DeletesPrune` | `TypeOK`, `IsTree`, `NothingDetached`, `NoDeadEdges` of the trie | - | `IndexInv` |
| `EntriesAreExact`, `TrieImplementsIndex` | `WritesAreExact`, `ImplementsOrderedIndex` | - | `IndexInv`, `LeafOfKey`, `PairsAgree` |
| `WritesKeepIndexesWellFormed` | `TrieAssumption` of the cursor | - | `IndexInv`, `Spared` |
| `ScansInOrder`, `EndsWithAll` | `InOrder`, and that nothing is missing at the end | `TrieAssumption` | `IInv`, `LeafTaken`, `EdgeTaken` |

`IdInv` says what the code relies on without saying it: every id in `disk`, `dirty` or
`flushed` is at most the counter it came from; a committed state's ids are covered by its
*saved* counters; and where `dirty` holds an id above its saved counter, the flag is still set.
The last part is the delicate one, since aborted calls leave flags set and failing saves clear
them: what makes it inductive is that an abort also takes back the ids.

`TsInv` relates the memory timestamp, the metadata row and the versions at every stage of a
call. It needs `~LateFailure`; finding 1 is its counterexample otherwise.

`SnapInv` says that every stage leaves the views up to the published timestamp alone, also the
published timestamp of the flushed state. `RefInv` adds what the private copy may differ in:
either it holds the rows of `disk` and at most a new published timestamp, or it is `disk` with
the batch installed above the published timestamp. With it each `Commit` maps to a `Write` or a
`Record` of `MvccStore`, the new timestamp in memory to `Publish`, restarts to its `Crash` and
`PowerFailure`, and what a call does before its commit, its error returns included, to stutters. The theorem covers late failures too.

`SendersInv` adds to the property that a task between drawing an id and sending holds the database
handle, so its channel is still open. `StartInv` says of every channel that each command of a
transaction has its start before it, or was started at the worker, and of every task that holds a
transaction that the same is true of whatever it sends next. `PendInv` needs that a request
number occurs at one worker only, once, and that an awaited one is the last its task has used: a
request that was cancelled, and is still queued, is not mistaken for a later one. `EndInv` needs that ids in
use are below the next one and differ between tasks, and that a channel is quiet about a
transaction until its task commits or drops it. Sequences enter through the lemmas on what
sending and receiving do to a queue, so that no induction over it is needed.

`ReadInv` is only the types of a transaction's state. What carries `GetsSeeTheCommit` is
`StoredIsNewest`: the greatest row up to (id, timestamp) is the document's newest version, or
another document's when it has none. `LastIsGreatest` reads it off the sorted rows by counting.

`CursorInv` says of an open cursor that what it has returned is the beginning of what it should
return, and that its two streams hold the rest, each in order, without a position in common
(`Merging`, `Parted`). Then the lesser head is the next entry that is due, in either direction
(`TakeHead`), and a step that takes it keeps the invariant. That it holds when the cursor opens
is the larger half: a stream shows a set of positions in order (`Streams`); the fold over the
scanned rows leaves the newest row of each document it met (`Grouped`, kept by one more row in
`RegroupKeeps`), the scan's edges cut between documents and never between versions
(`ScanAccepts`), so the fold streams what `stored_document` finds (`StoredStreams`); and hiding
the touched positions leaves two streams whose union is what the commit will make
(`DocumentsOpen`, `EntriesOpen`). `FiniteAssumption` is used here: what is stored is finite, so
it can be listed; what is written is finite because every step writes one row.

`CatalogInv` has two halves. The store is complete (`Catalogued`, `Owned`): every name has an id of
its own and a row, every row a name, every index, document and entry its collection or index. And
every transaction is `Sane`: the store still has all names and ids of its snapshot (`Extends`), and
its writes name only collections and indexes that it made up or was shown (`Sound`). The second half
is why a write set applies however many commits came in between, the first why lookups lead
somewhere. `Commit` is the step that needs both: `CollectionsAreCreated` and `IndexesAreCreated`
follow the loops of `put` and show that every temporary id ends in the catalog,
`WrittenCollection` that rows go to resolved ids only. `IndexesFound` shows that the ids a caller
takes from an index cursor are its own or the snapshot's, by draining the merged cursor entry by
entry. For `LookupsSeeTheCommit`, what a transaction sees is itself a complete store
(`SeenIsComplete`), so the same lemma says what its own commit would make of it; the ids of new
collections do not depend on the version they are written at. `StoresAssumption` says that the
stores found in the beginning are complete, as `put` leaves them; TLC evaluates it for the stores
of the run.

`TidyInv` strengthens `CatalogInv` for the catalog cursors: the names that a transaction has made
up are not among those that it is shown, of collections and of each collection's indexes, and each
is made up once (`NewNamed`). It is inductive because callers look a name up first, and because
what they look at tells all: that an index name is not listed means that it is neither stored nor
pending (`IndexNamesFound`), which already is the statement about the merged cursor. `MergedListing` is
that statement for any two sets of entries without a name in common (`Covering`): drained in either
direction and from every start, the cursor returns their union in order. It rests on the same
`Merging` as the document cursors (`OrderProofs`) and on a count of what is pending, since a drained
cursor is a fold of as many steps as there are entries. What remains is that the streams and the
catalog after the commit are of the same names and metadata. `PutUnfolds` follows `put` through its
three loops and keeps what each does to the rows (`Grown`, `IndexGrown`, `Rewritten`); `Settles`
says that distinct temporary and found ids end as distinct ids, the new ones beyond all that the
snapshot has handed out, so that no row is written twice; and `RowsAfter`, `IndexCursorSees` read
off the metadata. The theorem does not need that no other transaction is open, which the checked
property assumes to save time.

`BelongInv` strengthens `TidyInv` once more for `CommitsMean`: of the new indexes of a transaction
no two have one temporary id, not even in different collections, and every index entry it has
written is of an index of its own collection (`Belongs`). Without the first, `put` would file the
entries of two indexes under one (datastore.rs:510), and by name they would be another index's. The
store has to number its indexes as it does its collections: an id of their own, none above the
counter (`Numbered`, a part of `Catalogued`; `NumbersStay`). Then an id has one name in a store
(`NamesDiffer`, `IndexesHaveKeys`) and keeps it in every later one (`NamesLast`), and what `put`
resolves an id to bears the name its author meant (`CollectionsMean`, `EntriesMean`). `PutFills`
follows the loop over the collections for the documents and entries, as `PutUnfolds` did for the
rows; that no collection's entries undo another's is where `Belongs` is needed (`Apart`,
`WrittenFills`). Each table of the commit is then rows over those of a table (`IsOver`), and
`OverRenamed` says that giving the keys their names commutes with that, as long as no two keys
share one: `CollectionsByName`, `IndexesByName`, `DocsByName` and `EntriesByName` are its four uses.

`PrefixRangeIsExact` is the carry of `prefix_successor`: the first place where a key leaves the
prefix decides on which side of the range it is. `IntegersKeepTheirOrder` and
`FloatsKeepTheirOrder` hold for every width of a word, so for the 64 bits that the runs reduce to
four.

`KeysFollowFields` puts these together with strings and whole entries. `Below` is the part of the
byte order that what follows cannot change; an escaped string is below another one whenever the
string is less, a proper prefix included, because the terminator is below every escaped byte
(`EscapedKeepsOrder`); so a value's encoding is below that of a greater value, and never begins it
(`ValueKeepsOrder`), and the first field that differs decides (`EntriesCompare`). `BuilderInv` says
what the builder has gathered: bounds within the fields of the index. `RangesAreExact` then
compares an entry with both ends of the built range, by cases on the bounds that were set; the
upper end of a prefix is `PrefixRangeIsExact`. The one assumption on the constants is
`QueryAssumption`: the scalars that are queried and stored are `Value`s of the document model.

`QueryInv` says that a Query exists once the terminal was called and is the one of the chain's
filters and terminal, all of whose operands are scalars. A chain of calls implements `IndexRange`
(`QueriesBuildRanges`), so what was shown of ranges holds inside it. For the filters, every tree of
a largest depth has one evaluation (`EvaluationExists`, `EvaluationIsUnique`, by levels from the
leaves up); lowering keeps shape and operators, and a lowered comparison holds where the comparison
does, since a value on its own is an entry of one field (`OneFieldCompares`). A conjunction of
several trees is evaluated by the evaluations of its operands, moved below the new root
(`JoinedTruth`). `ExprAssumption` says that a `FilterExpr` is such a tree, which its type makes it.
Then the worker's answer is the beginning of the matching documents, and one document is enough for
`first`, two for `unique`; `CollectionAssumption` adds that collections are finite.

`IndexInv` is the shape of the trie: a tree whose child ids rise and are no greater than the saved
counter (`Tree`), every edge and leaf hanging on the root (`Rooted`), every edge above an entry.
One put is a walk that creates at most one edge per segment (`Sound`, `Walked`: the node the walk
stands at may be without entries until the leaf is written), one delete a lookup (`Leads`) and a
walk back (`Prunable`). For the refinement, `PrefixOf` spells the bytes from the root to a node;
`OneWay` says that a node on the way of a key can only be reached by that key's segments, and
`LeafOfKey` that a leaf which spells the key is the leaf a put of that key writes. That is why a
delete takes away one entry, whatever edges it shares, and why no other entry can hide a put.
`Spared` adds what only a scan needs: every edge bears a full segment, and a leaf below one is not
empty, because `split_index_key` cuts no empty last segment.

For the cursor, `Stacked` says where a walk stands: some leaves have been visited, every other one
is under exactly the frames that are still to lead to it, and what a frame leads to (`Pending`)
comes before all that the frames below it lead to. `IInv` adds that the visited leaves, as far as
they are visible and accepted, are out in order (`Walked`). The invariant is about whole subtrees,
and so is the reason why it is kept. All keys under an edge begin with the node's bytes and the
edge's segment and go on (`WordsUnder`); a full segment is never a proper prefix of another, so an
edge that is less than a sibling has its whole subtree before the sibling's (`EdgeAndEdge`), and a
leaf's segment that is not greater than an edge's comes before all under the edge, since it is at most as
long (`LeafAndEdge`). That is the comparison in `choose_action`, with the leaf first on equal
segments, and last when the scan goes backwards. `LeafTaken` and `EdgeTaken` say the same of one turn
of the loop: what it takes comes before all else its frame leads to. A step takes a frame off the
stack and puts one or two back (`Popped`, `Pushed`, `Visited`). At any time the visited leaves come
before all others, and a list of elements that come before all others begins the list of all
(`ListsBegin`): that is `InOrder`. When the stack is empty nothing is pending, so nothing is
missing. `accepts_start` is exact by the totality of the order (`StartIsExact`).

How data of any length is reasoned about: `FoldLeft` and `MapThenFoldSet` are defined by recursive
functions, and `OrderProofs` states first-order facts about those (`FoldExists`, `WalkExists`:
there is a function of the places that makes one step at each) from which an invariant of the walk
follows by the least counterexample (`UpTo`, `DownFrom`). No induction theorem with an operator
parameter is needed. `DirectedLists` says of the sorted list of a finite set what a cursor needs:
each element once, in order.

The document proofs hold for every set of types, of any nesting, and for every width of an integer
and a byte (`WidthAssumption`), so for 2^63 and 2^8. The assumptions are those that `DocumentValues`
and `StoredDocument` state about their constants; TLC evaluates them for the types of the run.
A type is deeper than its parts, so a set that contains every type whose parts it contains holds all
types (`TypeInduction`, by the least depth of a counterexample). That replaces induction over data,
and is used twice: first for the recursive functions themselves, which are the union of their values
level by level (`SerializeSteps`, `DeserializeSteps` and the other `...Steps`), then for each
property. `RoundTrip` says what a value is read back as from what it was written as, one shape of
type at a time, given the same of its parts; `IdJoins` the same with the id in front, for which
`IdNameReads` and `IdBytesReads` say what each type reads out of its name and its bytes. Two facts
carry them.
Inserting pairs whose keys differ leaves them as they are (`InsertedStays`), so a
struct's field or a map's pair stands at the place at which it was written; a struct has no two
fields of one name, a map no two keys, and `Text` of a key that is not text is never read back, which
is why such maps are not `Faithful`. And a value without a key twice at any depth is stored and read
as it is, since its entries, inserted anew, stay (`RebuiltStays`, by the depth of the value).
`DocumentInv` is then short: what the caller holds is of its type and without a key twice, also after
an edit (`EditedKeepsKeys`), what is stored is `Serialize` of it without an `_id`, and what was read
is the function of what is stored.

Every invariant and action property that a run with `expect` pass checks is a theorem, and so are the two
refinements of `HeedEngine` and `IndexTrie` and that of commits to `NamedStore`. Only model-checked is
liveness: TLAPS 1.4.5 proves nothing about `ENABLED`, and so about fairness. That is
`EveryRequestResolves` and `WorkersReturn` of the workers, and that a cursor ends (`Complete`, of
which `EndsWithAll` proves that nothing is missing when it does).

## 5. What is not modelled, and the plan

Not modelled:

* conflict detection, the read set and the write ahead log: data structures and a stub, without
  code that uses them;
* the worker's answers: its arms are empty. That a context is never removed (worker.rs:31) is
  what an empty arm does;
* the contract that index entries are removed only when no reader can need them
  (`crates/storage/README.md`), and that the index catalog, which has no versions, is read at old
  timestamps (datastore.rs:352): both bind layers above the engine that do not exist yet;
* that a commit future dropped while it is pending may still commit (transaction.rs:31): the
  worker does not answer it either way yet;
* of the document model: text rendering, numeral parsing, `f32`, `i128` and the other integer
  widths, conversions to floats, `bool`, `char` and bytes;
* fixed-width key layouts, which are tuples here, configuration, error wording.

Planned, once the code exists: the worker's arms composed with `ReadTransaction` and
`CatalogTransaction`; the commit path from a transaction to `put` and `set_visible_ts`, with the
caller discipline `HeedEngine` assumes; vacuuming of old versions and index entries beside
readers; replay of the write ahead log.
