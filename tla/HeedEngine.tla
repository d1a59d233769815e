------------------------------ MODULE HeedEngine ------------------------------
(***************************************************************************)
(* The timestamped storage engine of crates/storage: one LMDB environment  *)
(* that holds document versions, names and their ids, and five metadata    *)
(* rows, next to atomics in memory that cache the metadata.                *)
(*                                                                         *)
(* A write call (Datastore::put, set_ts, set_visible_ts) owns LMDB's one   *)
(* write transaction from env.write_txn() to commit or drop.  It works on  *)
(* a private copy, `dirty`, but changes the atomics as it goes, so readers *)
(* of the atomics, failed calls and crashes meet the two halves of the     *)
(* state at different moments.  LMDB itself is external: commit publishes  *)
(* `dirty` at once, a read transaction sees the last commit for its whole  *)
(* life, a process crash keeps every commit and a power failure keeps the  *)
(* last forced sync (the environment is opened with NO_SYNC).              *)
(***************************************************************************)
EXTENDS Versions

CONSTANTS
  Object,      \* what gets an allocated id: collection and index names, trie edges
  KindOf,      \* the id counter each object draws from
  MaxId,       \* bound on each id counter
  Batch,       \* the write sets callers may submit
  Reader,      \* read transactions that may be open at once
  LateFailure, \* may LMDB refuse a metadata put or the commit (map full, I/O error)?
  Disciplined  \* do callers write only above the published timestamp?

Kind == {"collection", "index", "chain"}

WriteSet == [ts : Version, create : SUBSET Object, prune : SUBSET Object,
             docs : [Document -> Cell]]

\* What one committed LMDB state holds.  An id of 0 means "no row".
Store == [ids : [Object -> Nat], saved : [Kind -> Nat],
          ts : Version, visible : Version, docs : History]

ASSUME KindAssumption == KindOf \in [Object -> Kind]
ASSUME MaxIdAssumption == MaxId \in Nat
ASSUME SwitchAssumption == LateFailure \in BOOLEAN /\ Disciplined \in BOOLEAN
ASSUME BatchAssumption ==
  /\ Batch \subseteq WriteSet
  /\ \A b \in Batch : \A o \in b.prune : KindOf[o] = "chain" /\ o \notin b.create

VARIABLES
  disk,       \* the last committed state
  dirty,      \* the write transaction's private copy; disk when none is open
  flushed,    \* the last state forced to the device
  pc,         \* where the open write call stands
  batch,      \* its write set
  todo,       \* the objects it still has to create or prune
  ts, visibleTs, counter, changed,   \* the engine's atomics
  reader      \* read transactions

atomics == <<ts, visibleTs, counter, changed>>
vars == <<disk, dirty, flushed, pc, batch, todo, ts, visibleTs, counter, changed, reader>>

NoBatch == [ts |-> 0, create |-> {}, prune |-> {}, docs |-> NoRow]
Fresh == [ids |-> [o \in Object |-> 0], saved |-> [k \in Kind |-> 0],
          ts |-> 0, visible |-> 0, docs |-> NoHistory]
NoReader == [phase |-> "closed", ts |-> 0, expected |-> NoRow, seen |-> NoRow]

-----------------------------------------------------------------------------
(* The write transaction *)

\* The write transaction ends and its write set is dropped.
Release ==
  /\ pc' = "idle"
  /\ batch' = NoBatch
  /\ todo' = {}

\* An error return: LMDB forgets the transaction, the atomics keep what they got.
Abort ==
  /\ Release
  /\ dirty' = disk

\* The contract the engine leaves to its callers: visible versions are final.
CallerMayPut(b) == Disciplined => b.ts > visibleTs
CallerMayPublish(t) == Disciplined => t >= visibleTs

Open(stage, b) ==
  /\ pc = "idle"
  /\ pc' = stage
  /\ batch' = b
  /\ todo' = b.create \cup b.prune
  /\ UNCHANGED <<disk, dirty, flushed, atomics, reader>>

BeginPut(b) == CallerMayPut(b) /\ Open("catalog", b)

BeginSetTs(t) == Open("set_ts", [NoBatch EXCEPT !.ts = t])

BeginSetVisible(t) == CallerMayPublish(t) /\ Open("set_visible", [NoBatch EXCEPT !.ts = t])

Stage(o) == IF KindOf[o] = "chain" THEN "entries" ELSE "catalog"

\* Collections are created before the indexes, which name them by id.
Ready(o) ==
  /\ o \in todo
  /\ pc = Stage(o)
  /\ KindOf[o] = "index" => \A p \in todo : KindOf[p] # "collection"

\* Mutation of Exists: the lookup by name is forgotten.
ExistsNever(o) == FALSE

Exists(o) == dirty.ids[o] # 0

\* create_collection, create_index or find_or_create_index_edge meets an existing row.
FindObject(o) ==
  /\ Ready(o)
  /\ o \in batch.create
  /\ Exists(o)
  /\ todo' = todo \ {o}
  /\ UNCHANGED <<disk, dirty, flushed, pc, batch, atomics, reader>>

NextId(k) == counter[k] + 1

AllocateObject(o) ==
  LET k == KindOf[o] IN
  /\ Ready(o)
  /\ o \in batch.create
  /\ ~Exists(o)
  /\ counter[k] < MaxId
  /\ counter' = [counter EXCEPT ![k] = @ + 1]
  /\ changed' = [changed EXCEPT ![k] = TRUE]
  /\ dirty' = [dirty EXCEPT !.ids[o] = NextId(k)]
  /\ todo' = todo \ {o}
  /\ UNCHANGED <<disk, flushed, pc, batch, ts, visibleTs, reader>>

\* delete_index_entry removes the edge to a node left without entries.
PruneEdge(o) ==
  /\ Ready(o)
  /\ o \in batch.prune
  /\ dirty' = [dirty EXCEPT !.ids[o] = 0]
  /\ todo' = todo \ {o}
  /\ UNCHANGED <<disk, flushed, pc, batch, atomics, reader>>

WriteDocuments ==
  /\ pc = "catalog"
  /\ \A o \in todo : Stage(o) # "catalog"
  /\ dirty' = [dirty EXCEPT !.docs = Installed(@, batch.ts, batch.docs)]
  /\ pc' = "entries"
  /\ UNCHANGED <<disk, flushed, batch, todo, atomics, reader>>

\* The inner set_ts, reached by put after its last entry and by Datastore::set_ts.
AtSetTs == pc = "set_ts" \/ (pc = "entries" /\ todo = {})
AfterSetTs == IF pc = "entries" THEN "save" ELSE "commit"

\* Mutation of Rejected: a lower timestamp passes.
RejectedNever(t) == FALSE

Rejected(t) == t < ts

\* Mutation of Raised: the next free timestamp is kept instead of the last used one.
RaisedPast(t) == t + 1

\* The memory timestamp as set_ts leaves it when it does not reject.
Raised(t) == t

\* Mutation of TsRow: the timestamp moves in memory only.
TsRowStale(t) == dirty.ts

\* The metadata row is written only when the memory timestamp moves.
TsRow(t) == IF t = ts THEN dirty.ts ELSE t

RejectTs ==
  /\ AtSetTs
  /\ Rejected(batch.ts)
  /\ Abort
  /\ UNCHANGED <<disk, flushed, atomics, reader>>

SetTs ==
  /\ AtSetTs
  /\ ~Rejected(batch.ts)
  /\ ts' = Raised(batch.ts)
  /\ dirty' = [dirty EXCEPT !.ts = TsRow(batch.ts)]
  /\ pc' = AfterSetTs
  /\ UNCHANGED <<disk, flushed, batch, todo, visibleTs, counter, changed, reader>>

\* Mutation of SavedCounters: the chain counter is left out.
SavedNameCounters ==
  [k \in Kind |-> IF changed[k] /\ k # "chain" THEN counter[k] ELSE dirty.saved[k]]

SavedCounters == [k \in Kind |-> IF changed[k] THEN counter[k] ELSE dirty.saved[k]]

SaveCounters ==
  /\ pc = "save"
  /\ dirty' = [dirty EXCEPT !.saved = SavedCounters]
  /\ changed' = [k \in Kind |-> FALSE]
  /\ pc' = "commit"
  /\ UNCHANGED <<disk, flushed, batch, todo, ts, visibleTs, counter, reader>>

SetVisible ==
  /\ pc = "set_visible"
  /\ visibleTs' = batch.ts
  /\ dirty' = [dirty EXCEPT !.visible = batch.ts]
  /\ pc' = "commit"
  /\ UNCHANGED <<disk, flushed, batch, todo, ts, counter, changed, reader>>

Commit ==
  /\ pc = "commit"
  /\ disk' = dirty
  /\ Release
  /\ UNCHANGED <<dirty, flushed, atomics, reader>>

-----------------------------------------------------------------------------
(* Failures of the open write call *)

\* Any `?` before set_ts: an LMDB error, an unknown id, a missing collection.
FailBody ==
  /\ pc \in {"catalog", "entries"}
  /\ Abort
  /\ UNCHANGED <<disk, flushed, atomics, reader>>

\* The compare-exchange succeeded and the put of the metadata row did not.
FailSetTs ==
  /\ LateFailure
  /\ AtSetTs
  /\ batch.ts > ts
  /\ ts' = Raised(batch.ts)
  /\ Abort
  /\ UNCHANGED <<disk, flushed, visibleTs, counter, changed, reader>>

\* save_counters swaps one flag to false after the other and stops at a failed put.
Swapped == [collection |-> {"collection"}, index |-> {"collection", "index"}, chain |-> Kind]

FailSave ==
  /\ LateFailure
  /\ pc = "save"
  /\ \E k \in Kind :
       /\ changed[k]
       /\ changed' = [j \in Kind |-> changed[j] /\ j \notin Swapped[k]]
  /\ Abort
  /\ UNCHANGED <<disk, flushed, ts, visibleTs, counter, reader>>

\* The published timestamp is stored in memory before anything can fail.
FailSetVisible ==
  /\ LateFailure
  /\ pc = "set_visible"
  /\ visibleTs' = batch.ts
  /\ Abort
  /\ UNCHANGED <<disk, flushed, ts, counter, changed, reader>>

FailCommit ==
  /\ LateFailure
  /\ pc = "commit"
  /\ Abort
  /\ UNCHANGED <<disk, flushed, atomics, reader>>

-----------------------------------------------------------------------------
(* Durability and restart *)

Flush ==
  /\ flushed # disk
  /\ flushed' = disk
  /\ UNCHANGED <<disk, dirty, pc, batch, todo, atomics, reader>>

\* Mutation of LoadedVisible: the global timestamp's row is read instead.
LoadedGlobal(s) == s.ts

LoadedVisible(s) == s.visible

\* HeedStorageEngine::new on a recovered state s: the atomics come from its metadata.
Load(s) ==
  /\ disk' = s
  /\ dirty' = s
  /\ ts' = s.ts
  /\ visibleTs' = LoadedVisible(s)
  /\ counter' = s.saved
  /\ changed' = [k \in Kind |-> FALSE]
  /\ reader' = [r \in Reader |-> NoReader]
  /\ Release
  /\ UNCHANGED flushed

\* The process ends, at any point of a write call, and the path is opened again.
Reopen == Load(disk)

PowerFailure == Load(flushed)

-----------------------------------------------------------------------------
(* Read transactions: the timestamp is read first, the LMDB snapshot opened later *)

StartRead(r) ==
  /\ reader[r].phase = "closed"
  /\ reader' = [reader EXCEPT ![r] =
       [phase |-> "starting", ts |-> visibleTs,
        expected |-> View(disk.docs, visibleTs), seen |-> NoRow]]
  /\ UNCHANGED <<disk, dirty, flushed, pc, batch, todo, atomics>>

\* Mutation of SnapshotTs: the timestamp is read again with the snapshot.
SnapshotTsLate(r) == visibleTs

\* HeedDatastoreTransaction::new keeps the timestamp the caller passed.
SnapshotTs(r) == reader[r].ts

OpenRead(r) ==
  /\ reader[r].phase = "starting"
  /\ reader' = [reader EXCEPT ![r].phase = "open", ![r].seen = View(disk.docs, SnapshotTs(r))]
  /\ UNCHANGED <<disk, dirty, flushed, pc, batch, todo, atomics>>

CloseRead(r) ==
  /\ reader[r].phase = "open"
  /\ reader' = [reader EXCEPT ![r] = NoReader]
  /\ UNCHANGED <<disk, dirty, flushed, pc, batch, todo, atomics>>

-----------------------------------------------------------------------------
Init ==
  /\ disk = Fresh
  /\ dirty = Fresh
  /\ flushed = Fresh
  /\ pc = "idle"
  /\ batch = NoBatch
  /\ todo = {}
  /\ ts = 0
  /\ visibleTs = 0
  /\ counter = [k \in Kind |-> 0]
  /\ changed = [k \in Kind |-> FALSE]
  /\ reader = [r \in Reader |-> NoReader]

Next ==
  \/ \E b \in Batch : BeginPut(b)
  \/ \E t \in Version : BeginSetTs(t)
  \/ \E t \in Version : BeginSetVisible(t)
  \/ \E o \in Object : FindObject(o)
  \/ \E o \in Object : AllocateObject(o)
  \/ \E o \in Object : PruneEdge(o)
  \/ WriteDocuments
  \/ RejectTs
  \/ SetTs
  \/ SaveCounters
  \/ SetVisible
  \/ Commit
  \/ FailBody
  \/ FailSetTs
  \/ FailSave
  \/ FailSetVisible
  \/ FailCommit
  \/ Flush
  \/ Reopen
  \/ PowerFailure
  \/ \E r \in Reader : StartRead(r)
  \/ \E r \in Reader : OpenRead(r)
  \/ \E r \in Reader : CloseRead(r)

Spec == Init /\ [][Next]_vars

-----------------------------------------------------------------------------
(* Properties *)

\* Every variable keeps its type.
TypeOK ==
  /\ disk \in Store
  /\ dirty \in Store
  /\ flushed \in Store
  /\ pc \in {"idle", "catalog", "entries", "set_ts", "save", "set_visible", "commit"}
  /\ batch \in WriteSet
  /\ todo \in SUBSET Object
  /\ ts \in Version
  /\ visibleTs \in Version
  /\ counter \in [Kind -> Nat]
  /\ changed \in [Kind -> BOOLEAN]
  /\ reader \in [Reader -> [phase : {"closed", "starting", "open"}, ts : Version,
                            expected : Snapshot, seen : Snapshot]]

\* In two stored states an id belongs to one object of its kind only.
IdsAgree(s, u) ==
  \A o, p \in Object :
    (KindOf[o] = KindOf[p] /\ s.ids[o] # 0 /\ s.ids[o] = u.ids[p]) => o = p

\* allocate_*_id and save_counters: no id names two objects, and an id that reached
\* the device is never handed to another object afterwards, whatever calls were
\* aborted, however their flags were cleared, and wherever the process died.
IdsNeverReused == IdsAgree(disk, disk) /\ IdsAgree(flushed, disk)

\* create_collection and create_index find before they allocate: a name that
\* reached the device keeps its id in every later commit.
NamesKeepTheirIds ==
  \A o \in Object :
    (KindOf[o] # "chain" /\ flushed.ids[o] # 0) => disk.ids[o] = flushed.ids[o]

\* set_ts: the persisted timestamp bounds every persisted version, so the check
\* against it after a restart still protects all of them.
TsCoversVersions ==
  \A d \in Document, v \in Version : disk.docs[d][v] # Absent => v <= disk.ts

\* put: a commit adds versions only at or above the newest version in the store,
\* also after a restart ("Implementations must reject values lower than the
\* current one").
AppendOnly ==
  [][pc = "commit" /\ disk' = dirty =>
       \A d, e \in Document, v, w \in Version :
         (disk'.docs[d][v] # disk.docs[d][v] /\ disk.docs[e][w] # Absent) => w <= v]_vars

\* get_visible_ts then read_txn: what a reader sees at its timestamp is what that
\* timestamp meant when it was read, whatever was committed, published or aborted
\* before and after its LMDB snapshot was opened.
ReaderSeesItsSnapshot ==
  \A r \in Reader : reader[r].phase = "open" => reader[r].seen = reader[r].expected

\* force_sync: a power failure takes back nothing that was published before the
\* last flush; every snapshot up to the flushed visible timestamp still reads the same.
FlushedSnapshotsSurvive ==
  \A t \in 0 .. flushed.visible : View(disk.docs, t) = View(flushed.docs, t)

=============================================================================
