--------------------------- MODULE HeedEngineProofs ---------------------------
(* Theorems about HeedEngine, for every set of objects, documents, batches and *)
(* readers.                                                                    *)
EXTENDS HeedEngineMvcc, OrderProofs

-----------------------------------------------------------------------------
(* Reading and installing versions *)

\* stored_document and the document cursor give every row a value or nothing.
LEMMA ViewType ==
  ASSUME NEW history \in History, NEW t \in Version
  PROVE  View(history, t) \in Snapshot
<1> SUFFICES ASSUME NEW d \in Document
             PROVE  Newest([v \in 0 .. t |-> history[d][v]]) \in Value \cup {Absent}
  BY DEF View, Snapshot
<1> DEFINE row == [v \in 0 .. t |-> history[d][v]]
           written == {v \in DOMAIN row : row[v] # Absent}
<1>1. t \in Nat /\ 0 .. t \subseteq Version
  BY MaxTsAssumption DEF Version
<1>2. \A v \in 0 .. t : row[v] \in Cell
  BY <1>1 DEF History
<1>3. CASE written = {}
  BY <1>3 DEF Newest
<1>4. CASE written # {}
  <2>1. written \in SUBSET (0 .. t)
    OBVIOUS
  <2>2. Max(written) \in written
    BY <1>1, <1>4, <2>1, NewestExists
  <2>3. row[Max(written)] \in Cell
    BY <1>2, <2>2
  <2> QED BY <1>4, <2>3 DEF Newest, Cell
<1> QED BY <1>3, <1>4

\* A read at t depends on the versions up to t only.
LEMMA ViewDependsOnPrefix ==
  ASSUME NEW h, NEW g, NEW t,
         \A d \in Document, v \in 0 .. t : h[d][v] = g[d][v]
  PROVE  View(h, t) = View(g, t)
<1>1. \A d \in Document : [v \in 0 .. t |-> h[d][v]] = [v \in 0 .. t |-> g[d][v]]
  OBVIOUS
<1> QED BY <1>1 DEF View

\* Installing rows keeps the history's shape and touches no other version.
LEMMA InstalledType ==
  ASSUME NEW history \in History, NEW t \in Version, NEW rows \in [Document -> Cell]
  PROVE  Installed(history, t, rows) \in History
BY DEF Installed, History, Cell

LEMMA InstalledElsewhere ==
  ASSUME NEW history \in History, NEW t \in Version, NEW rows \in [Document -> Cell],
         NEW d \in Document, NEW v \in Version, v # t
  PROVE  Installed(history, t, rows)[d][v] = history[d][v]
BY DEF Installed, History

LEMMA FirstHistory == NoHistory \in History
BY DEF NoHistory, History, Cell

LEMMA FirstSnapshot == NoRow \in Snapshot /\ NoRow \in [Document -> Cell]
BY DEF NoRow, Snapshot, Cell

-----------------------------------------------------------------------------
(* Type correctness *)

LEMMA NoBatchType == NoBatch \in WriteSet
BY FirstSnapshot, MaxTsAssumption DEF NoBatch, WriteSet, Version

LEMMA FreshType == Fresh \in Store
BY FirstHistory, MaxTsAssumption DEF Fresh, Store, Version

LEMMA NoReaderType ==
  NoReader \in [phase : {"closed", "starting", "open"}, ts : Version,
                expected : Snapshot, seen : Snapshot]
BY FirstSnapshot, MaxTsAssumption DEF NoReader, Version

LEMMA InitType == Init => TypeOK
BY FreshType, NoBatchType, NoReaderType, MaxTsAssumption DEF Init, TypeOK, Version

\* Every call that opens, steps through or drops the write transaction keeps the types.
LEMMA NextType == TypeOK /\ [Next]_vars => TypeOK'
<1> SUFFICES ASSUME TypeOK, [Next]_vars
             PROVE  TypeOK'
  OBVIOUS
<1> USE DEF TypeOK
<1>1. ASSUME NEW b \in Batch, BeginPut(b)
      PROVE  TypeOK'
  <2>1. b \in WriteSet
    BY BatchAssumption
  <2> QED BY <1>1, <2>1 DEF BeginPut, Open, WriteSet, atomics
<1>2. ASSUME NEW t \in Version, BeginSetTs(t)
      PROVE  TypeOK'
  <2>1. [NoBatch EXCEPT !.ts = t] \in WriteSet
    BY NoBatchType DEF WriteSet
  <2> QED BY <1>2, <2>1 DEF BeginSetTs, Open, WriteSet, atomics
<1>3. ASSUME NEW t \in Version, BeginSetVisible(t)
      PROVE  TypeOK'
  <2>1. [NoBatch EXCEPT !.ts = t] \in WriteSet
    BY NoBatchType DEF WriteSet
  <2> QED BY <1>3, <2>1 DEF BeginSetVisible, Open, WriteSet, atomics
<1>4. ASSUME NEW o \in Object, FindObject(o)
      PROVE  TypeOK'
  BY <1>4 DEF FindObject, atomics
<1>5. ASSUME NEW o \in Object, AllocateObject(o)
      PROVE  TypeOK'
  <2>1. KindOf[o] \in Kind
    BY KindAssumption
  <2>2. NextId(KindOf[o]) \in Nat
    BY <2>1 DEF NextId
  <2>3. dirty' \in Store
    BY <1>5, <2>2 DEF AllocateObject, Store
  <2>4. counter' \in [Kind -> Nat] /\ changed' \in [Kind -> BOOLEAN]
    BY <1>5, <2>1 DEF AllocateObject
  <2> QED BY <1>5, <2>3, <2>4 DEF AllocateObject
<1>6. ASSUME NEW o \in Object, PruneEdge(o)
      PROVE  TypeOK'
  <2>1. dirty' \in Store
    BY <1>6 DEF PruneEdge, Store
  <2> QED BY <1>6, <2>1 DEF PruneEdge, atomics
<1>7. CASE WriteDocuments
  <2>1. Installed(dirty.docs, batch.ts, batch.docs) \in History
    BY InstalledType DEF Store, WriteSet
  <2>2. dirty' \in Store
    BY <1>7, <2>1 DEF WriteDocuments, Store
  <2> QED BY <1>7, <2>2 DEF WriteDocuments, atomics
<1>8. CASE RejectTs
  BY <1>8, NoBatchType DEF RejectTs, Abort, Release, atomics
<1>9. CASE SetTs
  <2>1. batch.ts \in Version /\ dirty.ts \in Version
    BY DEF WriteSet, Store
  <2>2. dirty' \in Store
    BY <1>9, <2>1 DEF SetTs, TsRow, Store
  <2> QED BY <1>9, <2>1, <2>2 DEF SetTs, Raised, AfterSetTs
<1>10. CASE SaveCounters
  <2>1. SavedCounters \in [Kind -> Nat]
    BY DEF SavedCounters, Store
  <2>2. dirty' \in Store
    BY <1>10, <2>1 DEF SaveCounters, Store
  <2> QED BY <1>10, <2>2 DEF SaveCounters
<1>11. CASE SetVisible
  <2>1. batch.ts \in Version
    BY DEF WriteSet
  <2>2. dirty' \in Store
    BY <1>11, <2>1 DEF SetVisible, Store
  <2> QED BY <1>11, <2>1, <2>2 DEF SetVisible
<1>12. CASE Commit
  BY <1>12, NoBatchType DEF Commit, Release, atomics
<1>13. CASE FailBody
  BY <1>13, NoBatchType DEF FailBody, Abort, Release, atomics
<1>14. CASE FailSetTs
  BY <1>14, NoBatchType DEF FailSetTs, Raised, Abort, Release, WriteSet
<1>15. CASE FailSave
  BY <1>15, NoBatchType DEF FailSave, Abort, Release
<1>16. CASE FailSetVisible
  BY <1>16, NoBatchType DEF FailSetVisible, Abort, Release, WriteSet
<1>17. CASE FailCommit
  BY <1>17, NoBatchType DEF FailCommit, Abort, Release, atomics
<1>18. CASE Flush
  BY <1>18 DEF Flush, atomics
<1>19. ASSUME NEW s \in Store, Load(s)
       PROVE  TypeOK'
  BY <1>19, NoBatchType, NoReaderType DEF Load, LoadedVisible, Release, Store
<1>20. CASE Reopen
  BY <1>19, <1>20 DEF Reopen
<1>21. CASE PowerFailure
  BY <1>19, <1>21 DEF PowerFailure
<1>22. ASSUME NEW r \in Reader, StartRead(r)
       PROVE  TypeOK'
  <2>1. View(disk.docs, visibleTs) \in Snapshot
    BY ViewType DEF Store
  <2> QED BY <1>22, <2>1, FirstSnapshot DEF StartRead, atomics
<1>23. ASSUME NEW r \in Reader, OpenRead(r)
       PROVE  TypeOK'
  <2>1. View(disk.docs, SnapshotTs(r)) \in Snapshot
    BY ViewType DEF Store, SnapshotTs
  <2> QED BY <1>23, <2>1 DEF OpenRead, atomics
<1>24. ASSUME NEW r \in Reader, CloseRead(r)
       PROVE  TypeOK'
  BY <1>24, NoReaderType DEF CloseRead, atomics
<1>25. CASE UNCHANGED vars
  BY <1>25 DEF vars
<1> QED
  BY <1>1, <1>2, <1>3, <1>4, <1>5, <1>6, <1>7, <1>8, <1>9, <1>10, <1>11, <1>12, <1>13,
     <1>14, <1>15, <1>16, <1>17, <1>18, <1>20, <1>21, <1>22, <1>23, <1>24, <1>25
  DEF Next

\* The engine's state, in memory and on disk, keeps its type under every call,
\* failure and restart.
THEOREM TypeCorrect == Spec => []TypeOK
BY InitType, NextType, PTL DEF Spec

-----------------------------------------------------------------------------
(* Allocated ids *)

\* No id is above the counter it came from, nor above the saved counter next to it
\* in a state that is or may become durable.
Bounded(s) == \A o \in Object : s.ids[o] <= s.saved[KindOf[o]]

CountersGrow(s, u) == \A k \in Kind : s.saved[k] <= u.saved[k]

\* Ids in the open write transaction may be ahead of its saved counters, but then
\* a counter is marked as changed until save_counters has run.
DirtyBounded ==
  /\ \A o \in Object : dirty.ids[o] <= counter[KindOf[o]]
  /\ \A k \in Kind : dirty.saved[k] <= counter[k]
  /\ \A o \in Object : \/ dirty.ids[o] <= dirty.saved[KindOf[o]]
                       \/ changed[KindOf[o]] /\ pc \in {"catalog", "entries", "save"}

IdsDisjoint ==
  /\ IdsAgree(disk, disk) /\ IdsAgree(dirty, dirty) /\ IdsAgree(flushed, flushed)
  /\ IdsAgree(flushed, disk) /\ IdsAgree(flushed, dirty) /\ IdsAgree(disk, dirty)

NameKept(s, u) ==
  \A o \in Object : (KindOf[o] # "chain" /\ s.ids[o] # 0) => u.ids[o] = s.ids[o]

NamesKept == NameKept(flushed, disk) /\ NameKept(disk, dirty)

PrunesEdgesOnly == \A o \in batch.prune : KindOf[o] = "chain"

IdInv ==
  /\ Bounded(disk) /\ Bounded(flushed)
  /\ CountersGrow(flushed, disk) /\ CountersGrow(disk, dirty)
  /\ DirtyBounded
  /\ IdsDisjoint
  /\ NamesKept
  /\ PrunesEdgesOnly

LEMMA InitIds == Init => IdInv
BY KindAssumption DEF Init, Fresh, NoBatch, IdInv, Bounded, CountersGrow, DirtyBounded,
   IdsDisjoint, IdsAgree, NamesKept, NameKept, PrunesEdgesOnly

\* A call that fails leaves the atomics it moved, and they still bound every id.
LEMMA AbortIds ==
  ASSUME TypeOK, IdInv, Abort, UNCHANGED <<disk, flushed, counter>>
  PROVE  IdInv'
<1>1. \A o \in Object : KindOf[o] \in Kind
  BY KindAssumption
<1>2. PrunesEdgesOnly'
  BY DEF Abort, Release, NoBatch, PrunesEdgesOnly
<1>3. DirtyBounded'
  <2>1. \A o \in Object : disk.ids[o] <= disk.saved[KindOf[o]]
    BY DEF IdInv, Bounded
  <2>2. \A k \in Kind : disk.saved[k] <= counter[k]
    <3>1. \A k \in Kind : disk.saved[k] <= dirty.saved[k] /\ dirty.saved[k] <= counter[k]
      BY DEF IdInv, CountersGrow, DirtyBounded
    <3> QED BY <3>1 DEF TypeOK, Store
  <2>3. \A o \in Object : disk.ids[o] <= counter[KindOf[o]]
    BY <1>1, <2>1, <2>2 DEF TypeOK, Store
  <2> QED BY <2>1, <2>2, <2>3 DEF Abort, DirtyBounded
<1>4. (Bounded(disk) /\ Bounded(flushed) /\ CountersGrow(flushed, disk))'
  BY DEF IdInv, Bounded, CountersGrow
<1>5. CountersGrow(disk, dirty)'
  BY DEF Abort, CountersGrow, TypeOK, Store
<1>6. IdsDisjoint'
  BY DEF Abort, IdInv, IdsDisjoint, IdsAgree
<1>7. NamesKept'
  BY DEF Abort, IdInv, NamesKept, NameKept
<1> QED BY <1>2, <1>3, <1>4, <1>5, <1>6, <1>7 DEF IdInv

\* Restarting from the committed or the flushed state.
LEMMA LoadIds ==
  ASSUME TypeOK, IdInv, NEW s \in {disk, flushed}, Load(s)
  PROVE  IdInv'
<1>1. s \in Store /\ Bounded(s) /\ CountersGrow(flushed, s)
      /\ IdsAgree(s, s) /\ IdsAgree(flushed, s) /\ NameKept(flushed, s)
  BY DEF TypeOK, Store, IdInv, CountersGrow, IdsDisjoint, NamesKept, NameKept
<1>2. disk' = s /\ dirty' = s /\ flushed' = flushed /\ counter' = s.saved
      /\ batch' = NoBatch
  BY DEF Load, Release
<1>3. DirtyBounded'
  BY <1>1, <1>2 DEF DirtyBounded, Bounded, Store
<1>4. IdsDisjoint' /\ NamesKept'
  BY <1>1, <1>2 DEF IdsDisjoint, IdsAgree, NamesKept, NameKept, IdInv
<1>5. (Bounded(disk) /\ Bounded(flushed))'
  BY <1>1, <1>2 DEF IdInv, Bounded
<1>6. (CountersGrow(flushed, disk) /\ CountersGrow(disk, dirty))'
  BY <1>1, <1>2 DEF CountersGrow, Store
<1>7. PrunesEdgesOnly'
  BY <1>2 DEF PrunesEdgesOnly, NoBatch
<1> QED BY <1>3, <1>4, <1>5, <1>6, <1>7 DEF IdInv

\* An allocated id is above every id of its kind in any of the three states.
LEMMA AllocateIds ==
  ASSUME TypeOK, IdInv, NEW o \in Object, AllocateObject(o)
  PROVE  IdInv'
<1> DEFINE k == KindOf[o]
           id == counter[k] + 1
<1>1. \A p \in Object : KindOf[p] \in Kind
  BY KindAssumption
<1>2. /\ dirty.ids[o] = 0
      /\ dirty' = [dirty EXCEPT !.ids[o] = id]
      /\ counter' = [counter EXCEPT ![k] = @ + 1]
      /\ changed' = [changed EXCEPT ![k] = TRUE]
      /\ pc \in {"catalog", "entries"}
      /\ pc' = pc /\ batch' = batch /\ disk' = disk /\ flushed' = flushed
  <2>1. pc \in {"catalog", "entries"}
    BY DEF AllocateObject, Ready, Stage
  <2> QED BY <2>1 DEF AllocateObject, Exists, NextId, TypeOK
<1>3. /\ dirty'.saved = dirty.saved
      /\ dirty'.ids = [dirty.ids EXCEPT ![o] = id]
  BY <1>2 DEF TypeOK, Store
<1>4. id \in Nat /\ \A p \in Object : dirty'.ids[p] = IF p = o THEN id ELSE dirty.ids[p]
  BY <1>1, <1>3 DEF TypeOK, Store
<1>5. \A p \in Object : KindOf[p] = k =>
        /\ disk.ids[p] < id
        /\ flushed.ids[p] < id
        /\ dirty.ids[p] < id
  <2> SUFFICES ASSUME NEW p \in Object, KindOf[p] = k
               PROVE  disk.ids[p] < id /\ flushed.ids[p] < id /\ dirty.ids[p] < id
    OBVIOUS
  <2>1. flushed.ids[p] <= flushed.saved[k] /\ flushed.saved[k] <= disk.saved[k]
    BY <1>1 DEF IdInv, Bounded, CountersGrow
  <2>2. disk.ids[p] <= disk.saved[k] /\ disk.saved[k] <= dirty.saved[k]
    BY <1>1 DEF IdInv, Bounded, CountersGrow
  <2>3. dirty.saved[k] <= counter[k] /\ dirty.ids[p] <= counter[k]
    BY <1>1 DEF IdInv, DirtyBounded
  <2> QED BY <1>1, <2>1, <2>2, <2>3 DEF TypeOK, Store
<1>6. DirtyBounded'
  <2>1. \A p \in Object : dirty.ids[p] \in Nat /\ dirty.saved[KindOf[p]] \in Nat
    BY <1>1 DEF TypeOK, Store
  <2>2. \A j \in Kind : counter[j] \in Nat /\ counter'[j] = IF j = k THEN id ELSE counter[j]
    BY <1>2 DEF TypeOK
  <2>3. \A j \in Kind : changed'[j] = (changed[j] \/ j = k)
    BY <1>1, <1>2 DEF TypeOK
  <2>4. \A p \in Object : dirty'.ids[p] <= counter'[KindOf[p]]
    BY <1>1, <1>4, <2>1, <2>2 DEF IdInv, DirtyBounded
  <2>5. \A j \in Kind : dirty'.saved[j] <= counter'[j]
    BY <1>3, <2>2 DEF IdInv, DirtyBounded, TypeOK, Store
  <2>6. \A p \in Object : \/ dirty'.ids[p] <= dirty'.saved[KindOf[p]]
                          \/ changed'[KindOf[p]] /\ pc' \in {"catalog", "entries", "save"}
    <3> SUFFICES ASSUME NEW p \in Object
                 PROVE  \/ dirty'.ids[p] <= dirty'.saved[KindOf[p]]
                        \/ changed'[KindOf[p]] /\ pc' \in {"catalog", "entries", "save"}
      OBVIOUS
    <3>1. pc' \in {"catalog", "entries", "save"}
      BY <1>2
    <3>2. CASE p = o
      BY <1>1, <2>3, <3>1, <3>2
    <3>3. CASE p # o
      <4>1. dirty'.ids[p] = dirty.ids[p] /\ dirty'.saved = dirty.saved
        BY <1>3, <1>4, <3>3
      <4>2. dirty.ids[p] <= dirty.saved[KindOf[p]] \/ changed[KindOf[p]]
        BY DEF IdInv, DirtyBounded
      <4> QED BY <1>1, <2>3, <3>1, <4>1, <4>2
    <3> QED BY <3>2, <3>3
  <2> QED BY <2>4, <2>5, <2>6 DEF DirtyBounded
<1>7. IdsDisjoint'
  <2>1. IdsAgree(dirty, dirty)'
    BY <1>4, <1>5 DEF IdInv, IdsDisjoint, IdsAgree, TypeOK, Store
  <2>2. IdsAgree(flushed, dirty)' /\ IdsAgree(disk, dirty)'
    BY <1>2, <1>4, <1>5 DEF IdInv, IdsDisjoint, IdsAgree, TypeOK, Store
  <2> QED BY <1>2, <2>1, <2>2 DEF IdInv, IdsDisjoint, IdsAgree
<1>8. NamesKept'
  BY <1>2, <1>4 DEF IdInv, NamesKept, NameKept
<1>9. CountersGrow(disk, dirty)'
  BY <1>2, <1>3 DEF IdInv, CountersGrow
<1> QED BY <1>2, <1>6, <1>7, <1>8, <1>9 DEF IdInv, Bounded, CountersGrow, PrunesEdgesOnly

LEMMA PruneIds ==
  ASSUME TypeOK, IdInv, NEW o \in Object, PruneEdge(o)
  PROVE  IdInv'
<1>1. /\ KindOf[o] = "chain"
      /\ pc \in {"catalog", "entries"} /\ pc' = pc
      /\ UNCHANGED <<batch, disk, flushed, counter, changed>>
  BY DEF PruneEdge, Ready, Stage, IdInv, PrunesEdgesOnly, atomics
<1>2. /\ dirty'.saved = dirty.saved
      /\ \A p \in Object : dirty'.ids[p] = IF p = o THEN 0 ELSE dirty.ids[p]
  BY DEF PruneEdge, TypeOK, Store
<1>3. DirtyBounded'
  BY <1>1, <1>2, KindAssumption DEF IdInv, DirtyBounded, TypeOK, Store
<1>4. IdsDisjoint' /\ NamesKept'
  BY <1>1, <1>2 DEF IdInv, IdsDisjoint, IdsAgree, NamesKept, NameKept
<1> QED BY <1>1, <1>2, <1>3, <1>4 DEF IdInv, Bounded, CountersGrow, PrunesEdgesOnly

\* The counters marked as changed are saved, so the commit carries ids it bounds.
LEMMA SaveIds ==
  ASSUME TypeOK, IdInv, SaveCounters
  PROVE  IdInv'
<1>1. /\ dirty'.ids = dirty.ids
      /\ dirty'.saved = SavedCounters
      /\ pc = "save"
      /\ UNCHANGED <<batch, disk, flushed, counter>>
  BY DEF SaveCounters, TypeOK, Store
<1>2. \A k \in Kind : SavedCounters[k] = IF changed[k] THEN counter[k] ELSE dirty.saved[k]
  BY DEF SavedCounters
<1>3. \A k \in Kind : /\ dirty.saved[k] <= SavedCounters[k]
                      /\ SavedCounters[k] <= counter[k]
  BY <1>2 DEF IdInv, DirtyBounded, TypeOK, Store
<1>4. \A o \in Object : dirty.ids[o] <= SavedCounters[KindOf[o]]
  BY <1>2, KindAssumption DEF IdInv, DirtyBounded
<1>5. DirtyBounded'
  BY <1>1, <1>3, <1>4 DEF IdInv, DirtyBounded
<1>6. CountersGrow(disk, dirty)'
  <2>1. \A k \in Kind : SavedCounters[k] \in Nat
    BY <1>2 DEF TypeOK, Store
  <2> QED BY <1>1, <1>3, <2>1 DEF IdInv, CountersGrow, TypeOK, Store
<1>7. IdsDisjoint' /\ NamesKept'
  BY <1>1 DEF IdInv, IdsDisjoint, IdsAgree, NamesKept, NameKept
<1> QED BY <1>1, <1>5, <1>6, <1>7 DEF IdInv, Bounded, CountersGrow, PrunesEdgesOnly

LEMMA CommitIds ==
  ASSUME TypeOK, IdInv, Commit
  PROVE  IdInv'
<1>1. disk' = dirty /\ batch' = NoBatch /\ UNCHANGED <<dirty, flushed, counter, changed>>
      /\ pc = "commit"
  BY DEF Commit, Release, atomics
<1>2. \A o \in Object : dirty.ids[o] <= dirty.saved[KindOf[o]]
  BY <1>1 DEF IdInv, DirtyBounded
<1>3. Bounded(disk)' /\ Bounded(flushed)' /\ DirtyBounded'
  BY <1>1, <1>2 DEF IdInv, Bounded, DirtyBounded
<1>4. CountersGrow(flushed, disk)' /\ CountersGrow(disk, dirty)'
  BY <1>1 DEF IdInv, CountersGrow, TypeOK, Store
<1>5. IdsDisjoint'
  BY <1>1 DEF IdInv, IdsDisjoint, IdsAgree
<1>6. NamesKept'
  BY <1>1 DEF IdInv, NamesKept, NameKept
<1> QED BY <1>1, <1>3, <1>4, <1>5, <1>6 DEF IdInv, PrunesEdgesOnly, NoBatch

\* A step that leaves ids, saved counters and the counters alone.
LEMMA OtherIds ==
  ASSUME TypeOK, IdInv, UNCHANGED <<disk, flushed, counter, changed>>,
         dirty'.ids = dirty.ids, dirty'.saved = dirty.saved,
         PrunesEdgesOnly',
         pc' \in {"catalog", "entries", "save"} \/ pc \notin {"catalog", "entries", "save"}
  PROVE  IdInv'
<1>1. DirtyBounded'
  BY DEF IdInv, DirtyBounded
<1>2. IdsDisjoint' /\ NamesKept'
  BY DEF IdInv, IdsDisjoint, IdsAgree, NamesKept, NameKept
<1> QED BY <1>1, <1>2 DEF IdInv, Bounded, CountersGrow

LEMMA NextIds == TypeOK /\ IdInv /\ [Next]_vars => IdInv'
<1> SUFFICES ASSUME TypeOK, IdInv, [Next]_vars
             PROVE  IdInv'
  OBVIOUS
<1>1. ASSUME NEW b \in Batch, BeginPut(b)
      PROVE  IdInv'
  BY <1>1, OtherIds, BatchAssumption DEF BeginPut, Open, PrunesEdgesOnly, atomics
<1>2. ASSUME NEW t \in Version, BeginSetTs(t)
      PROVE  IdInv'
  BY <1>2, OtherIds DEF BeginSetTs, Open, PrunesEdgesOnly, NoBatch, atomics
<1>3. ASSUME NEW t \in Version, BeginSetVisible(t)
      PROVE  IdInv'
  BY <1>3, OtherIds DEF BeginSetVisible, Open, PrunesEdgesOnly, NoBatch, atomics
<1>4. ASSUME NEW o \in Object, FindObject(o)
      PROVE  IdInv'
  BY <1>4, OtherIds DEF FindObject, IdInv, PrunesEdgesOnly, atomics
<1>5. ASSUME NEW o \in Object, AllocateObject(o)
      PROVE  IdInv'
  BY <1>5, AllocateIds
<1>6. ASSUME NEW o \in Object, PruneEdge(o)
      PROVE  IdInv'
  BY <1>6, PruneIds
<1>7. CASE WriteDocuments
  BY <1>7, OtherIds DEF WriteDocuments, IdInv, PrunesEdgesOnly, atomics, TypeOK, Store
<1>8. CASE SetTs
  <2>1. pc' \in {"save"} \/ pc = "set_ts"
    BY <1>8 DEF SetTs, AtSetTs, AfterSetTs
  <2> QED BY <1>8, <2>1, OtherIds DEF SetTs, IdInv, PrunesEdgesOnly, TypeOK, Store
<1>9. CASE SaveCounters
  BY <1>9, SaveIds
<1>10. CASE SetVisible
  BY <1>10, OtherIds DEF SetVisible, IdInv, PrunesEdgesOnly, TypeOK, Store
<1>11. CASE Commit
  BY <1>11, CommitIds
<1>12. CASE RejectTs \/ FailBody \/ FailSetTs \/ FailSave \/ FailSetVisible \/ FailCommit
  BY <1>12, AbortIds
  DEF RejectTs, FailBody, FailSetTs, FailSave, FailSetVisible, FailCommit, atomics
<1>13. CASE Flush
  <2>1. flushed' = disk /\ UNCHANGED <<disk, dirty, pc, batch, counter, changed>>
    BY <1>13 DEF Flush, atomics
  <2>2. IdsDisjoint' /\ NamesKept'
    BY <2>1 DEF IdInv, IdsDisjoint, IdsAgree, NamesKept, NameKept
  <2>3. CountersGrow(flushed, disk)'
    BY <2>1 DEF CountersGrow, TypeOK, Store
  <2> QED BY <2>1, <2>2, <2>3 DEF IdInv, Bounded, CountersGrow, DirtyBounded, PrunesEdgesOnly
<1>14. CASE Reopen
  BY <1>14, LoadIds DEF Reopen
<1>15. CASE PowerFailure
  BY <1>15, LoadIds DEF PowerFailure
<1>16. ASSUME NEW r \in Reader, StartRead(r) \/ OpenRead(r) \/ CloseRead(r)
       PROVE  IdInv'
  BY <1>16, OtherIds DEF StartRead, OpenRead, CloseRead, IdInv, PrunesEdgesOnly, atomics
<1>17. CASE UNCHANGED vars
  BY <1>17, OtherIds DEF vars, IdInv, PrunesEdgesOnly
<1> QED
  BY <1>1, <1>2, <1>3, <1>4, <1>5, <1>6, <1>7, <1>8, <1>9, <1>10, <1>11, <1>12, <1>13,
     <1>14, <1>15, <1>16, <1>17
  DEF Next

\* allocate_*_id, save_counters and load_counters: an id is never given to a second
\* object, through any sequence of commits, failures, crashes and power failures.
THEOREM IdsAreNeverReused == Spec => []IdsNeverReused
<1>1. IdInv => IdsNeverReused
  BY DEF IdInv, IdsDisjoint, IdsNeverReused
<1> QED BY <1>1, InitType, NextType, InitIds, NextIds, PTL DEF Spec

\* create_collection and create_index: a durable name keeps its id.
THEOREM NamesAreStable == Spec => []NamesKeepTheirIds
<1>1. IdInv => NamesKeepTheirIds
  BY DEF IdInv, NamesKept, NameKept, NamesKeepTheirIds
<1> QED BY <1>1, InitType, NextType, InitIds, NextIds, PTL DEF Spec

-----------------------------------------------------------------------------
(* Timestamps and versions *)

\* Where a write call stands before it may have touched documents.
Untouched == {"idle", "catalog", "set_ts", "set_visible"}

\* As long as LMDB does not fail late, memory and disk agree on the timestamp outside
\* set_ts..commit, and what is about to be committed lies at the timestamp next to it.
TsInv ==
  /\ \A d \in Document, v \in Version : disk.docs[d][v] # Absent => v <= disk.ts
  /\ \A d \in Document, v \in Version : flushed.docs[d][v] # Absent => v <= flushed.ts
  /\ disk.ts <= ts
  /\ pc \notin {"save", "commit"} => ts = disk.ts /\ dirty.ts = disk.ts
  /\ pc \in {"save", "commit"} => dirty.ts = ts
  /\ pc \in Untouched => dirty.docs = disk.docs
  /\ pc = "entries" => \A d \in Document, v \in Version :
                         dirty.docs[d][v] # disk.docs[d][v] => v = batch.ts
  /\ pc \in {"save", "commit"} => \A d \in Document, v \in Version :
                         dirty.docs[d][v] # disk.docs[d][v] => v = dirty.ts

LEMMA InitTs == Init => TsInv
BY DEF Init, Fresh, NoHistory, TsInv

LEMMA AbortTs ==
  ASSUME TypeOK, TsInv, Abort, ts = disk.ts, UNCHANGED <<disk, flushed, ts>>
  PROVE  TsInv'
BY DEF Abort, Release, TsInv, TypeOK, Store, Untouched

LEMMA LoadTs ==
  ASSUME TypeOK, TsInv, NEW s \in {disk, flushed}, Load(s)
  PROVE  TsInv'
<1>1. s \in Store /\ \A d \in Document, v \in Version : s.docs[d][v] # Absent => v <= s.ts
  BY DEF TypeOK, TsInv
<1>2. disk' = s /\ dirty' = s /\ flushed' = flushed /\ ts' = s.ts /\ pc' = "idle"
  BY DEF Load, Release
<1>3. s.ts <= s.ts
  BY <1>1, MaxTsAssumption DEF Store, Version
<1> QED BY <1>1, <1>2, <1>3 DEF TsInv, Untouched

\* A step within one stage of the call that moves neither timestamps nor documents.
LEMMA OtherTs ==
  ASSUME TypeOK, TsInv, UNCHANGED <<disk, flushed, ts>>,
         dirty'.ts = dirty.ts, dirty'.docs = dirty.docs,
         \/ pc' = pc /\ batch' = batch
         \/ pc = "idle" /\ pc' \in Untouched
         \/ pc = "save" /\ pc' = "commit"
  PROVE  TsInv'
BY DEF TsInv, Untouched

LEMMA WriteDocumentsTs ==
  ASSUME TypeOK, TsInv, WriteDocuments
  PROVE  TsInv'
<1>1. /\ pc = "catalog" /\ pc' = "entries"
      /\ UNCHANGED <<disk, flushed, batch, ts>>
      /\ dirty.docs = disk.docs
  BY DEF WriteDocuments, atomics, TsInv, Untouched
<1>2. dirty'.ts = dirty.ts /\ dirty'.docs = Installed(dirty.docs, batch.ts, batch.docs)
  BY DEF WriteDocuments, TypeOK, Store
<1>3. \A d \in Document, v \in Version : dirty'.docs[d][v] # disk.docs[d][v] => v = batch.ts
  BY <1>1, <1>2, InstalledElsewhere DEF TypeOK, Store, WriteSet
<1> QED BY <1>1, <1>2, <1>3 DEF TsInv, Untouched

LEMMA SetTsTs ==
  ASSUME TypeOK, TsInv, SetTs
  PROVE  TsInv'
<1>1. /\ pc \in {"set_ts", "entries"}
      /\ pc' \in {"save", "commit"}
      /\ ts' = batch.ts
      /\ ~(batch.ts < ts)
      /\ UNCHANGED <<disk, flushed>>
  BY DEF SetTs, AtSetTs, AfterSetTs, Rejected, Raised
<1>2. dirty'.ts = TsRow(batch.ts) /\ dirty'.docs = dirty.docs
  BY DEF SetTs, TypeOK, Store
<1>3. ts = disk.ts /\ dirty.ts = disk.ts
  BY <1>1 DEF TsInv
<1>4. dirty'.ts = ts'
  BY <1>1, <1>2, <1>3 DEF TsRow
<1>5. disk.ts <= ts'
  BY <1>1, <1>3, MaxTsAssumption DEF TypeOK, WriteSet, Version
<1>6. \A d \in Document, v \in Version : dirty'.docs[d][v] # disk.docs[d][v] => v = dirty'.ts
  BY <1>1, <1>2, <1>4 DEF TsInv, Untouched
<1> QED BY <1>1, <1>4, <1>5, <1>6 DEF TsInv, Untouched

\* The versions a commit adds lie at its timestamp, which is not below the stored one.
LEMMA CommitAppends ==
  ASSUME TypeOK, TsInv, pc = "commit", disk' = dirty
  PROVE  \A d, e \in Document, v, w \in Version :
           (disk'.docs[d][v] # disk.docs[d][v] /\ disk.docs[e][w] # Absent) => w <= v
<1>1. \A d \in Document, v \in Version : disk'.docs[d][v] # disk.docs[d][v] => v = dirty.ts
  BY DEF TsInv
<1>2. disk.ts <= dirty.ts
  BY DEF TsInv
<1>3. \A e \in Document, w \in Version : disk.docs[e][w] # Absent => w <= disk.ts
  BY DEF TsInv
<1> QED BY <1>1, <1>2, <1>3, MaxTsAssumption DEF TypeOK, Store, Version

LEMMA CommitTs ==
  ASSUME TypeOK, TsInv, Commit
  PROVE  TsInv'
<1>1. /\ pc = "commit" /\ pc' = "idle" /\ disk' = dirty
      /\ UNCHANGED <<dirty, flushed, ts>>
  BY DEF Commit, Release, atomics
<1>2. dirty.ts = ts /\ disk.ts <= ts
  BY <1>1 DEF TsInv
<1>3. \A d \in Document, v \in Version : dirty.docs[d][v] # Absent => v <= dirty.ts
  <2> SUFFICES ASSUME NEW d \in Document, NEW v \in Version, dirty.docs[d][v] # Absent
               PROVE  v <= dirty.ts
    OBVIOUS
  <2>1. CASE dirty.docs[d][v] = disk.docs[d][v]
    <3>1. v <= disk.ts
      BY <2>1 DEF TsInv
    <3> QED BY <3>1, <1>2, MaxTsAssumption DEF TypeOK, Store, Version
  <2>2. CASE dirty.docs[d][v] # disk.docs[d][v]
    BY <1>1, <2>2, MaxTsAssumption DEF TsInv, Version
  <2> QED BY <2>1, <2>2
<1> QED BY <1>1, <1>2, <1>3, MaxTsAssumption DEF TsInv, TypeOK, Store, Version, Untouched

LEMMA NextTs ==
  ASSUME ~LateFailure, TypeOK, TsInv, [Next]_vars
  PROVE  TsInv'
<1>1. ASSUME NEW b \in Batch, BeginPut(b)
      PROVE  TsInv'
  BY <1>1, OtherTs DEF BeginPut, Open, Untouched, atomics
<1>2. ASSUME NEW t \in Version, BeginSetTs(t) \/ BeginSetVisible(t)
      PROVE  TsInv'
  BY <1>2, OtherTs DEF BeginSetTs, BeginSetVisible, Open, Untouched, atomics
<1>3. ASSUME NEW o \in Object, FindObject(o) \/ AllocateObject(o) \/ PruneEdge(o)
      PROVE  TsInv'
  BY <1>3, OtherTs DEF FindObject, AllocateObject, PruneEdge, atomics, TypeOK, Store
<1>4. CASE WriteDocuments
  BY <1>4, WriteDocumentsTs
<1>5. CASE SetTs
  BY <1>5, SetTsTs
<1>6. CASE SaveCounters
  BY <1>6, OtherTs DEF SaveCounters, TypeOK, Store
<1>7. CASE SetVisible
  <2>1. /\ pc = "set_visible" /\ pc' = "commit"
        /\ UNCHANGED <<disk, flushed, ts>>
        /\ dirty'.ts = dirty.ts /\ dirty'.docs = dirty.docs
    BY <1>7 DEF SetVisible, TypeOK, Store
  <2> QED BY <2>1 DEF TsInv, Untouched
<1>8. CASE Commit
  BY <1>8, CommitTs
<1>9. CASE RejectTs \/ FailBody
  <2>1. pc \notin {"save", "commit"} /\ Abort /\ UNCHANGED <<disk, flushed, ts>>
    BY <1>9 DEF RejectTs, FailBody, AtSetTs, atomics
  <2> QED BY <2>1, AbortTs DEF TsInv
<1>10. CASE FailSetTs \/ FailSave \/ FailSetVisible \/ FailCommit
  BY <1>10 DEF FailSetTs, FailSave, FailSetVisible, FailCommit
<1>11. CASE Flush
  BY <1>11 DEF Flush, atomics, TsInv, Untouched
<1>12. CASE Reopen
  BY <1>12, LoadTs DEF Reopen
<1>13. CASE PowerFailure
  BY <1>13, LoadTs DEF PowerFailure
<1>14. ASSUME NEW r \in Reader, StartRead(r) \/ OpenRead(r) \/ CloseRead(r)
       PROVE  TsInv'
  BY <1>14, OtherTs DEF StartRead, OpenRead, CloseRead, atomics
<1>15. CASE UNCHANGED vars
  BY <1>15, OtherTs DEF vars
<1> QED
  BY <1>1, <1>2, <1>3, <1>4, <1>5, <1>6, <1>7, <1>8, <1>9, <1>10, <1>11, <1>12, <1>13,
     <1>14, <1>15
  DEF Next

\* set_ts and load_counters: when LMDB does not fail late, the persisted timestamp
\* bounds every stored version.
THEOREM TsCovers == ASSUME ~LateFailure PROVE Spec => []TsCoversVersions
<1>1. TsInv => TsCoversVersions
  BY DEF TsInv, TsCoversVersions
<1>2. TypeOK /\ TsInv /\ [Next]_vars => TsInv'
  BY NextTs
<1> QED BY <1>1, <1>2, InitType, NextType, InitTs, PTL DEF Spec

\* put: when LMDB does not fail late, no commit ever writes below a stored version.
THEOREM CommitsAppend == ASSUME ~LateFailure PROVE Spec => AppendOnly
<1> DEFINE Appends ==
      pc = "commit" /\ disk' = dirty =>
        \A d, e \in Document, v, w \in Version :
          (disk'.docs[d][v] # disk.docs[d][v] /\ disk.docs[e][w] # Absent) => w <= v
<1>1. TypeOK /\ TsInv /\ [Next]_vars => TsInv'
  BY NextTs
<1>2. TypeOK /\ TsInv /\ [Next]_vars => [Appends]_vars
  BY CommitAppends
<1> QED BY <1>1, <1>2, InitType, NextType, InitTs, PTL DEF Spec, AppendOnly

-----------------------------------------------------------------------------
(* Snapshots *)

\* As long as callers write above the published timestamp, published versions are
\* the same in the open write transaction, on disk and, up to the flushed
\* publication, on the device.
SnapInv ==
  /\ flushed.visible <= disk.visible
  /\ disk.visible <= dirty.visible
  /\ dirty.visible <= visibleTs
  /\ pc \in Untouched => dirty.docs = disk.docs
  /\ pc \in {"catalog"} => visibleTs < batch.ts
  /\ pc = "set_visible" => visibleTs <= batch.ts
  /\ \A d \in Document, v \in Version : v <= visibleTs => dirty.docs[d][v] = disk.docs[d][v]
  /\ \A d \in Document, v \in Version :
       v <= flushed.visible => disk.docs[d][v] = flushed.docs[d][v]
  /\ \A r \in Reader : reader[r].phase # "closed" =>
       /\ reader[r].ts <= visibleTs
       /\ reader[r].expected = View(disk.docs, reader[r].ts)
       /\ reader[r].phase = "open" => reader[r].seen = reader[r].expected

LEMMA InitSnap == Init => SnapInv
BY DEF Init, Fresh, NoReader, SnapInv

LEMMA AbortSnap ==
  ASSUME TypeOK, SnapInv, Abort, UNCHANGED <<disk, flushed, reader>>,
         visibleTs' \in Version, visibleTs <= visibleTs'
  PROVE  SnapInv'
<1>1. dirty' = disk /\ pc' = "idle"
  BY DEF Abort, Release
<1>2. disk.visible <= visibleTs'
  BY MaxTsAssumption DEF Version, SnapInv, TypeOK, Store
<1>3. \A r \in Reader : reader[r].phase # "closed" => reader[r].ts <= visibleTs'
  BY MaxTsAssumption DEF Version, SnapInv, TypeOK
<1>4. disk.visible <= disk.visible
  BY MaxTsAssumption DEF Version, TypeOK, Store
<1> QED BY <1>1, <1>2, <1>3, <1>4 DEF SnapInv, Untouched

LEMMA LoadSnap ==
  ASSUME TypeOK, SnapInv, NEW s \in {disk, flushed}, Load(s)
  PROVE  SnapInv'
<1>1. s \in Store /\ flushed.visible <= s.visible /\ s.visible <= s.visible
  BY MaxTsAssumption DEF Version, TypeOK, SnapInv, Store
<1>2. /\ disk' = s /\ dirty' = s /\ flushed' = flushed /\ visibleTs' = s.visible
      /\ pc' = "idle" /\ reader' = [r \in Reader |-> NoReader]
  BY DEF Load, LoadedVisible, Release
<1>3. \A d \in Document, v \in Version :
        v <= flushed.visible => s.docs[d][v] = flushed.docs[d][v]
  BY DEF SnapInv
<1> QED BY <1>1, <1>2, <1>3 DEF SnapInv, Untouched, NoReader

\* A step that touches neither documents nor publications nor readers.
LEMMA OtherSnap ==
  ASSUME TypeOK, SnapInv, UNCHANGED <<disk, flushed, visibleTs, reader>>,
         dirty'.visible = dirty.visible, dirty'.docs = dirty.docs,
         \/ pc' = pc /\ batch' = batch
         \/ pc' \in {"save", "commit"}
         \/ /\ pc = "idle" /\ pc' \in Untouched
            /\ pc' = "catalog" => visibleTs < batch'.ts
            /\ pc' = "set_visible" => visibleTs <= batch'.ts
  PROVE  SnapInv'
BY DEF SnapInv, Untouched

LEMMA WriteDocumentsSnap ==
  ASSUME TypeOK, SnapInv, WriteDocuments
  PROVE  SnapInv'
<1>1. /\ pc = "catalog" /\ pc' = "entries"
      /\ UNCHANGED <<disk, flushed, visibleTs, reader>>
  BY DEF WriteDocuments, atomics
<1>2. /\ dirty'.visible = dirty.visible
      /\ dirty'.docs = Installed(dirty.docs, batch.ts, batch.docs)
  BY DEF WriteDocuments, TypeOK, Store
<1>3. \A d \in Document, v \in Version :
        v <= visibleTs => dirty'.docs[d][v] = disk.docs[d][v]
  <2> SUFFICES ASSUME NEW d \in Document, NEW v \in Version, v <= visibleTs
               PROVE  dirty'.docs[d][v] = disk.docs[d][v]
    OBVIOUS
  <2>1. v # batch.ts
    BY <1>1, MaxTsAssumption DEF Version, SnapInv, TypeOK, WriteSet
  <2>2. dirty'.docs[d][v] = dirty.docs[d][v]
    BY <1>2, <2>1, InstalledElsewhere DEF TypeOK, Store, WriteSet
  <2> QED BY <2>2 DEF SnapInv
<1> QED BY <1>1, <1>2, <1>3 DEF SnapInv, Untouched

LEMMA SetVisibleSnap ==
  ASSUME TypeOK, SnapInv, SetVisible
  PROVE  SnapInv'
<1>1. /\ pc = "set_visible" /\ pc' = "commit"
      /\ UNCHANGED <<disk, flushed, reader>>
      /\ visibleTs' = batch.ts /\ visibleTs <= batch.ts
  BY DEF SetVisible, SnapInv
<1>2. dirty'.visible = batch.ts /\ dirty'.docs = disk.docs
  BY <1>1 DEF SetVisible, TypeOK, Store, SnapInv, Untouched
<1>3. disk.visible <= batch.ts /\ batch.ts <= batch.ts
  BY <1>1, MaxTsAssumption DEF Version, SnapInv, TypeOK, Store, WriteSet
<1>4. \A r \in Reader : reader[r].phase # "closed" => reader[r].ts <= batch.ts
  BY <1>1, MaxTsAssumption DEF Version, SnapInv, TypeOK, WriteSet
<1> QED BY <1>1, <1>2, <1>3, <1>4 DEF SnapInv, Untouched

LEMMA CommitSnap ==
  ASSUME TypeOK, SnapInv, Commit
  PROVE  SnapInv'
<1>1. /\ pc' = "idle" /\ disk' = dirty
      /\ UNCHANGED <<dirty, flushed, visibleTs, reader>>
  BY DEF Commit, Release, atomics
<1>2. flushed.visible <= dirty.visible /\ dirty.visible <= dirty.visible
      /\ flushed.visible <= visibleTs
  BY MaxTsAssumption DEF Version, SnapInv, TypeOK, Store
<1>3. \A d \in Document, v \in Version :
        v <= flushed.visible => dirty.docs[d][v] = flushed.docs[d][v]
  <2> SUFFICES ASSUME NEW d \in Document, NEW v \in Version, v <= flushed.visible
               PROVE  dirty.docs[d][v] = flushed.docs[d][v]
    OBVIOUS
  <2>1. v <= visibleTs
    BY <1>2, MaxTsAssumption DEF Version, TypeOK, Store
  <2> QED BY <2>1 DEF SnapInv
<1>4. \A r \in Reader : reader[r].phase # "closed" =>
        View(dirty.docs, reader[r].ts) = View(disk.docs, reader[r].ts)
  <2> SUFFICES ASSUME NEW r \in Reader, reader[r].phase # "closed"
               PROVE  View(dirty.docs, reader[r].ts) = View(disk.docs, reader[r].ts)
    OBVIOUS
  <2>1. reader[r].ts \in Version /\ reader[r].ts <= visibleTs
    BY DEF SnapInv, TypeOK
  <2>2. \A v \in 0 .. reader[r].ts : v \in Version /\ v <= visibleTs
    BY <2>1, MaxTsAssumption DEF Version, TypeOK
  <2>3. \A d \in Document, v \in 0 .. reader[r].ts : dirty.docs[d][v] = disk.docs[d][v]
    BY <2>2 DEF SnapInv
  <2> QED BY <2>3, ViewDependsOnPrefix
<1> QED BY <1>1, <1>2, <1>3, <1>4 DEF SnapInv, Untouched

LEMMA FlushSnap ==
  ASSUME TypeOK, SnapInv, Flush
  PROVE  SnapInv'
<1>1. flushed' = disk /\ UNCHANGED <<disk, dirty, pc, batch, visibleTs, reader>>
  BY DEF Flush, atomics
<1>2. disk.visible <= disk.visible
  BY MaxTsAssumption DEF Version, TypeOK, Store
<1> QED BY <1>1, <1>2 DEF SnapInv, Untouched

LEMMA ReadSnap ==
  ASSUME TypeOK, SnapInv, NEW r \in Reader, StartRead(r) \/ OpenRead(r) \/ CloseRead(r)
  PROVE  SnapInv'
<1>1. UNCHANGED <<disk, dirty, flushed, pc, batch, visibleTs>>
  BY DEF StartRead, OpenRead, CloseRead, atomics
<1>2. visibleTs <= visibleTs
  BY MaxTsAssumption DEF Version, TypeOK
<1>3. \A p \in Reader : reader'[p].phase # "closed" =>
        /\ reader'[p].ts <= visibleTs
        /\ reader'[p].expected = View(disk.docs, reader'[p].ts)
        /\ reader'[p].phase = "open" => reader'[p].seen = reader'[p].expected
  <2>1. CASE StartRead(r)
    BY <1>2, <2>1 DEF StartRead, SnapInv, TypeOK
  <2>2. CASE OpenRead(r)
    BY <2>2 DEF OpenRead, SnapshotTs, SnapInv, TypeOK
  <2>3. CASE CloseRead(r)
    BY <2>3 DEF CloseRead, NoReader, SnapInv, TypeOK
  <2> QED BY <2>1, <2>2, <2>3
<1> QED BY <1>1, <1>3 DEF SnapInv

LEMMA NextSnap ==
  ASSUME Disciplined, TypeOK, SnapInv, [Next]_vars
  PROVE  SnapInv'
<1>1. ASSUME NEW b \in Batch, BeginPut(b)
      PROVE  SnapInv'
  <2>1. visibleTs < b.ts
    BY <1>1, BatchAssumption, MaxTsAssumption
    DEF Version, BeginPut, CallerMayPut, TypeOK, WriteSet
  <2> QED BY <1>1, <2>1, OtherSnap DEF BeginPut, Open, Untouched, atomics
<1>2. ASSUME NEW t \in Version, BeginSetTs(t)
      PROVE  SnapInv'
  BY <1>2, OtherSnap DEF BeginSetTs, Open, Untouched, atomics
<1>3. ASSUME NEW t \in Version, BeginSetVisible(t)
      PROVE  SnapInv'
  <2>1. [NoBatch EXCEPT !.ts = t].ts = t
    BY NoBatchType DEF WriteSet
  <2>2. visibleTs <= t
    BY <1>3, MaxTsAssumption DEF Version, BeginSetVisible, CallerMayPublish, TypeOK
  <2> QED BY <1>3, <2>1, <2>2, OtherSnap DEF BeginSetVisible, Open, Untouched, atomics
<1>4. ASSUME NEW o \in Object, FindObject(o) \/ AllocateObject(o) \/ PruneEdge(o)
      PROVE  SnapInv'
  BY <1>4, OtherSnap DEF FindObject, AllocateObject, PruneEdge, atomics, TypeOK, Store
<1>5. CASE WriteDocuments
  BY <1>5, WriteDocumentsSnap
<1>6. CASE SetTs
  BY <1>6, OtherSnap DEF SetTs, AfterSetTs, TypeOK, Store
<1>7. CASE SaveCounters
  BY <1>7, OtherSnap DEF SaveCounters, TypeOK, Store
<1>8. CASE SetVisible
  BY <1>8, SetVisibleSnap
<1>9. CASE Commit
  BY <1>9, CommitSnap
<1>10. CASE RejectTs \/ FailBody \/ FailSetTs \/ FailSave \/ FailCommit
  <2>1. Abort /\ UNCHANGED <<disk, flushed, reader, visibleTs>>
    BY <1>10 DEF RejectTs, FailBody, FailSetTs, FailSave, FailCommit, atomics
  <2> QED BY <2>1, AbortSnap, MaxTsAssumption DEF Version, TypeOK
<1>11. CASE FailSetVisible
  BY <1>11, AbortSnap DEF FailSetVisible, SnapInv, TypeOK, WriteSet
<1>12. CASE Flush
  BY <1>12, FlushSnap
<1>13. CASE Reopen
  BY <1>13, LoadSnap DEF Reopen
<1>14. CASE PowerFailure
  BY <1>14, LoadSnap DEF PowerFailure
<1>15. ASSUME NEW r \in Reader, StartRead(r) \/ OpenRead(r) \/ CloseRead(r)
       PROVE  SnapInv'
  BY <1>15, ReadSnap
<1>16. CASE UNCHANGED vars
  BY <1>16, OtherSnap DEF vars
<1> QED
  BY <1>1, <1>2, <1>3, <1>4, <1>5, <1>6, <1>7, <1>8, <1>9, <1>10, <1>11, <1>12, <1>13,
     <1>14, <1>15, <1>16
  DEF Next

LEMMA AlwaysSnap == ASSUME Disciplined PROVE Spec => [](TypeOK /\ SnapInv)
<1>1. TypeOK /\ SnapInv /\ [Next]_vars => SnapInv'
  BY NextSnap
<1> QED BY <1>1, InitType, NextType, InitSnap, PTL DEF Spec

\* get_visible_ts and transaction: when callers write above the published timestamp,
\* a reader sees what its timestamp meant when it was read, also if LMDB fails late.
THEOREM SnapshotsAreStable == ASSUME Disciplined PROVE Spec => []ReaderSeesItsSnapshot
<1>1. TypeOK /\ SnapInv => ReaderSeesItsSnapshot
  BY DEF SnapInv, ReaderSeesItsSnapshot
<1> QED BY <1>1, AlwaysSnap, PTL

\* flush: when callers write above the published timestamp, a power failure takes
\* back no snapshot published before the last flush.
THEOREM FlushedSnapshotsAreDurable ==
  ASSUME Disciplined PROVE Spec => []FlushedSnapshotsSurvive
<1>1. TypeOK /\ SnapInv => FlushedSnapshotsSurvive
  <2> SUFFICES ASSUME TypeOK, SnapInv, NEW t \in 0 .. flushed.visible
               PROVE  View(disk.docs, t) = View(flushed.docs, t)
    BY DEF FlushedSnapshotsSurvive
  <2>1. \A v \in 0 .. t : v \in Version /\ v <= flushed.visible
    BY MaxTsAssumption DEF Version, TypeOK, Store
  <2>2. \A d \in Document, v \in 0 .. t : disk.docs[d][v] = flushed.docs[d][v]
    BY <2>1 DEF SnapInv
  <2> QED BY <2>2, ViewDependsOnPrefix
<1> QED BY <1>1, AlwaysSnap, PTL

-----------------------------------------------------------------------------
(* The two copies of the definitions in Versions *)

LEMMA SameView == ASSUME NEW h, NEW t PROVE Mvcc!View(h, t) = View(h, t)
BY DEF Mvcc!View, View, Mvcc!Newest, Newest, Mvcc!Max, Max

LEMMA SameInstalled ==
  ASSUME NEW h, NEW t, NEW rows
  PROVE  Mvcc!Installed(h, t, rows) = Installed(h, t, rows)
BY DEF Mvcc!Installed, Installed

-----------------------------------------------------------------------------
(* What a commit adds to the committed state *)

\* The open write transaction differs from the committed state by its batch alone, or
\* by a publication alone.
RefInv ==
  /\ pc \in Untouched => dirty.visible = disk.visible
  /\ \/ dirty.docs = disk.docs /\ dirty.visible \in {disk.visible, visibleTs}
     \/ /\ dirty.docs = Installed(disk.docs, batch.ts, batch.docs)
        /\ visibleTs < batch.ts
        /\ dirty.visible = disk.visible

LEMMA InitRef == Init => RefInv
BY DEF Init, Fresh, RefInv

\* A step of the write transaction that leaves documents and publications alone.
LEMMA OtherRef ==
  ASSUME RefInv, UNCHANGED <<disk, visibleTs>>,
         dirty'.visible = dirty.visible, dirty'.docs = dirty.docs,
         \/ pc' = pc /\ batch' = batch
         \/ pc' \in {"save", "commit"} /\ batch' = batch
         \/ pc = "idle" /\ dirty.docs = disk.docs
  PROVE  RefInv'
BY DEF RefInv, Untouched

\* The write transaction ended: the copy is the committed state again.
LEMMA EqualRef == ASSUME dirty' = disk' PROVE RefInv'
BY DEF RefInv

LEMMA NextRef ==
  ASSUME Disciplined, TypeOK, SnapInv, RefInv, [Next]_vars
  PROVE  RefInv'
<1>1. CASE \/ \E b \in Batch : BeginPut(b)
           \/ \E t \in Version : BeginSetTs(t) \/ BeginSetVisible(t)
  <2>1. pc = "idle" /\ dirty.docs = disk.docs /\ UNCHANGED <<disk, dirty, visibleTs>>
    BY <1>1 DEF BeginPut, BeginSetTs, BeginSetVisible, Open, atomics, SnapInv, Untouched
  <2> QED BY <2>1, OtherRef
<1>2. CASE \E o \in Object : FindObject(o) \/ AllocateObject(o) \/ PruneEdge(o)
  BY <1>2, OtherRef DEF FindObject, AllocateObject, PruneEdge, atomics, TypeOK, Store
<1>3. CASE WriteDocuments
  <2>1. /\ pc = "catalog" /\ pc' = "entries"
        /\ UNCHANGED <<disk, batch, visibleTs>>
        /\ dirty'.visible = dirty.visible
        /\ dirty'.docs = Installed(dirty.docs, batch.ts, batch.docs)
    BY <1>3 DEF WriteDocuments, atomics, TypeOK, Store
  <2>2. dirty.docs = disk.docs /\ dirty.visible = disk.visible /\ visibleTs < batch.ts
    BY <2>1 DEF SnapInv, RefInv, Untouched
  <2> QED BY <2>1, <2>2 DEF RefInv, Untouched
<1>4. CASE SetTs
  BY <1>4, OtherRef DEF SetTs, AfterSetTs, TypeOK, Store
<1>5. CASE SaveCounters
  BY <1>5, OtherRef DEF SaveCounters, TypeOK, Store
<1>6. CASE SetVisible
  <2>1. /\ pc = "set_visible" /\ pc' = "commit" /\ disk' = disk /\ visibleTs' = batch.ts
        /\ dirty'.visible = batch.ts /\ dirty'.docs = dirty.docs
    BY <1>6 DEF SetVisible, TypeOK, Store
  <2>2. dirty.docs = disk.docs
    BY <2>1 DEF SnapInv, Untouched
  <2> QED BY <2>1, <2>2 DEF RefInv, Untouched
<1>7. CASE Commit
  BY <1>7, EqualRef DEF Commit
<1>8. CASE RejectTs \/ FailBody \/ FailSetTs \/ FailSave \/ FailCommit \/ FailSetVisible
  <2>1. dirty' = disk /\ disk' = disk
    BY <1>8 DEF RejectTs, FailBody, FailSetTs, FailSave, FailCommit, FailSetVisible, Abort
  <2> QED BY <2>1, EqualRef
<1>9. CASE Reopen \/ PowerFailure
  BY <1>9, EqualRef DEF Reopen, PowerFailure, Load
<1>10. CASE Flush \/ \E r \in Reader : StartRead(r) \/ OpenRead(r) \/ CloseRead(r)
  BY <1>10, OtherRef DEF Flush, StartRead, OpenRead, CloseRead, atomics
<1>11. CASE UNCHANGED vars
  BY <1>11, OtherRef DEF vars
<1> QED
  BY <1>1, <1>2, <1>3, <1>4, <1>5, <1>6, <1>7, <1>8, <1>9, <1>10, <1>11 DEF Next

-----------------------------------------------------------------------------
(* Every step maps to a step of the abstract store, or to none *)

Views == [r \in Reader |-> Seen(r)]

LEMMA InitMaps == Init => Mvcc!Init
<1> SUFFICES ASSUME Init PROVE Mvcc!Init
  OBVIOUS
<1>1. \A r \in Reader : Seen(r) = <<>>
  BY DEF Init, NoReader, Seen
<1>2. Mvcc!NoHistory = NoHistory
  BY DEF Mvcc!NoHistory, NoHistory, Mvcc!Version, Version
<1> QED BY <1>1, <1>2 DEF Init, Fresh, Mvcc!Init, Mvcc!NoView

\* A step that changes nothing a reader is promised.
LEMMA Stutters ==
  ASSUME disk'.docs = disk.docs, disk'.visible = disk.visible, flushed' = flushed,
         visibleTs' = visibleTs, \A r \in Reader : Seen(r)' = Seen(r)
  PROVE  UNCHANGED Mvcc!vars
BY DEF Mvcc!vars

LEMMA SameSeen ==
  ASSUME UNCHANGED reader,
         \A r \in Reader : reader[r].phase = "starting" =>
           View(disk'.docs, reader[r].ts) = View(disk.docs, reader[r].ts)
  PROVE  \A r \in Reader : Seen(r)' = Seen(r)
<1> SUFFICES ASSUME NEW r \in Reader PROVE Seen(r)' = Seen(r)
  OBVIOUS
<1>1. CASE reader[r].phase = "starting"
  BY <1>1 DEF Seen
<1>2. CASE reader[r].phase # "starting"
  BY <1>2 DEF Seen
<1> QED BY <1>1, <1>2

LEMMA CommitMaps ==
  ASSUME TypeOK, SnapInv, RefInv, Commit
  PROVE  Mvcc!Next \/ UNCHANGED Mvcc!vars
<1>1. disk' = dirty /\ UNCHANGED <<flushed, visibleTs, reader>>
  BY DEF Commit, atomics
<1>2. \A r \in Reader : reader[r].phase = "starting" =>
        View(disk'.docs, reader[r].ts) = View(disk.docs, reader[r].ts)
  <2>1. SnapInv'
    BY CommitSnap
  <2>2. \A r \in Reader : reader[r].phase = "starting" =>
          /\ reader[r].expected = View(disk.docs, reader[r].ts)
          /\ reader'[r].expected = View(disk'.docs, reader'[r].ts)
    BY <1>1, <2>1 DEF SnapInv
  <2> QED BY <1>1, <2>2
<1>3. Views' = Views
  BY <1>1, <1>2, SameSeen DEF Views
<1>4. CASE disk'.docs = disk.docs /\ disk'.visible = disk.visible
  BY <1>1, <1>3, <1>4 DEF Mvcc!vars, Views
<1>5. CASE disk'.docs = disk.docs /\ disk'.visible = visibleTs
  <2>1. Mvcc!Record
    BY <1>1, <1>3, <1>5 DEF Mvcc!Record, Views
  <2> QED BY <2>1 DEF Mvcc!Next
<1>6. CASE /\ disk'.docs = Installed(disk.docs, batch.ts, batch.docs)
           /\ visibleTs < batch.ts /\ disk'.visible = disk.visible
  <2>1. batch.ts \in Mvcc!Version /\ batch.docs \in [Document -> Mvcc!Cell]
    BY DEF TypeOK, WriteSet, Mvcc!Version, Version, Mvcc!Cell, Cell
  <2>2. batch.ts > visibleTs
    BY <1>6, MaxTsAssumption DEF TypeOK, WriteSet, Version
  <2>3. disk'.docs = Mvcc!Installed(disk.docs, batch.ts, batch.docs)
    BY <1>6, SameInstalled
  <2>4. Mvcc!Write(batch.ts, batch.docs)
    BY <1>1, <1>3, <1>6, <2>2, <2>3 DEF Mvcc!Write, Views
  <2> QED BY <2>1, <2>4 DEF Mvcc!Next
<1> QED BY <1>1, <1>4, <1>5, <1>6 DEF RefInv

\* The published timestamp moves in memory first.
LEMMA PublishMaps ==
  ASSUME TypeOK, visibleTs' \in Version, visibleTs <= visibleTs',
         UNCHANGED <<disk, flushed, reader>>
  PROVE  Mvcc!Next \/ UNCHANGED Mvcc!vars
<1>1. Views' = Views
  BY SameSeen DEF Views
<1>2. CASE visibleTs' = visibleTs
  BY <1>1, <1>2 DEF Mvcc!vars, Views
<1>3. CASE visibleTs' # visibleTs
  <2>1. visibleTs' > visibleTs /\ visibleTs' \in Mvcc!Version
    BY <1>3, MaxTsAssumption DEF TypeOK, Version, Mvcc!Version
  <2>2. Mvcc!Publish(visibleTs')
    BY <1>1, <2>1 DEF Mvcc!Publish, Views
  <2> QED BY <2>1, <2>2 DEF Mvcc!Next
<1> QED BY <1>2, <1>3

LEMMA LoadMaps ==
  ASSUME NEW s, s = disk \/ s = flushed, Load(s)
  PROVE  Mvcc!Next
<1>1. /\ disk' = s /\ visibleTs' = s.visible /\ flushed' = flushed
      /\ reader' = [r \in Reader |-> NoReader]
  BY DEF Load, LoadedVisible
<1>2. Views' = [r \in Reader |-> Mvcc!NoView]
  BY <1>1 DEF Views, Seen, NoReader, Mvcc!NoView
<1>3. Mvcc!Restart(s.docs, s.visible)
  BY <1>1, <1>2 DEF Mvcc!Restart, Views
<1> QED BY <1>3 DEF Mvcc!Next, Mvcc!Crash, Mvcc!PowerFailure

LEMMA ReadMaps ==
  ASSUME TypeOK, SnapInv, NEW r \in Reader, StartRead(r) \/ OpenRead(r) \/ CloseRead(r)
  PROVE  Mvcc!Next \/ UNCHANGED Mvcc!vars
<1>1. /\ UNCHANGED <<disk, flushed, visibleTs>>
      /\ \A p \in Reader \ {r} : reader'[p] = reader[p]
      /\ reader' \in [Reader -> [phase : {"closed", "starting", "open"}, ts : Version,
                                 expected : Snapshot, seen : Snapshot]]
  <2>1. TypeOK'
    BY NextType DEF Next
  <2> QED BY <2>1 DEF StartRead, OpenRead, CloseRead, atomics, TypeOK
<1>2. \A p \in Reader \ {r} : Seen(p)' = Seen(p)
  BY <1>1 DEF Seen
<1>3. CASE StartRead(r)
  <2>1. Seen(r) = <<>> /\ Seen(r)' = <<Mvcc!View(disk.docs, visibleTs)>>
    BY <1>1, <1>3, SameView DEF StartRead, Seen, TypeOK
  <2>2. Views' = [Views EXCEPT ![r] = <<Mvcc!View(disk.docs, visibleTs)>>] /\ Views[r] = <<>>
    BY <1>2, <2>1 DEF Views
  <2>3. Mvcc!Begin(r)
    BY <1>1, <2>2 DEF Mvcc!Begin, Mvcc!NoView, Views
  <2> QED BY <2>3 DEF Mvcc!Next
<1>4. CASE OpenRead(r)
  <2>1. Seen(r)' = Seen(r)
    BY <1>1, <1>4 DEF OpenRead, SnapshotTs, Seen, TypeOK
  <2> QED BY <1>1, <1>2, <2>1, Stutters
<1>5. CASE CloseRead(r)
  <2>1. Seen(r)' = <<>>
    BY <1>1, <1>5 DEF CloseRead, NoReader, Seen, TypeOK
  <2>2. Views' = [Views EXCEPT ![r] = <<>>]
    BY <1>2, <2>1 DEF Views
  <2>3. Mvcc!End(r)
    BY <1>1, <2>2 DEF Mvcc!End, Mvcc!NoView, Views
  <2> QED BY <2>3 DEF Mvcc!Next
<1> QED BY <1>3, <1>4, <1>5

LEMMA NextMaps ==
  ASSUME Disciplined, TypeOK, SnapInv, RefInv, [Next]_vars
  PROVE  Mvcc!Next \/ UNCHANGED Mvcc!vars
<1>1. ASSUME UNCHANGED <<disk, flushed, visibleTs, reader>>
      PROVE  UNCHANGED Mvcc!vars
  BY <1>1, SameSeen, Stutters
<1>2. CASE \/ \E b \in Batch : BeginPut(b)
           \/ \E t \in Version : BeginSetTs(t) \/ BeginSetVisible(t)
           \/ \E o \in Object : FindObject(o) \/ AllocateObject(o) \/ PruneEdge(o)
           \/ WriteDocuments \/ SetTs \/ SaveCounters
           \/ RejectTs \/ FailBody \/ FailSetTs \/ FailSave \/ FailCommit
           \/ UNCHANGED vars
  <2>1. UNCHANGED <<disk, flushed, visibleTs, reader>>
    BY <1>2 DEF BeginPut, BeginSetTs, BeginSetVisible, Open, FindObject, AllocateObject,
                PruneEdge, WriteDocuments, SetTs, SaveCounters, RejectTs, FailBody,
                FailSetTs, FailSave, FailCommit, atomics, vars
  <2> QED BY <1>1, <2>1
<1>3. CASE SetVisible \/ FailSetVisible
  <2>1. /\ visibleTs' = batch.ts /\ visibleTs <= batch.ts /\ batch.ts \in Version
        /\ UNCHANGED <<disk, flushed, reader>>
    BY <1>3 DEF SetVisible, FailSetVisible, SnapInv, TypeOK, WriteSet
  <2> QED BY <2>1, PublishMaps
<1>4. CASE Commit
  BY <1>4, CommitMaps
<1>5. CASE Flush
  <2>1. flushed' = disk /\ UNCHANGED <<disk, visibleTs, reader>>
    BY <1>5 DEF Flush, atomics
  <2>2. Views' = Views
    BY <2>1, SameSeen DEF Views
  <2>3. Mvcc!Checkpoint
    BY <2>1, <2>2 DEF Mvcc!Checkpoint, Views
  <2> QED BY <2>3 DEF Mvcc!Next
<1>6. CASE Reopen \/ PowerFailure
  BY <1>6, LoadMaps DEF Reopen, PowerFailure
<1>7. CASE \E r \in Reader : StartRead(r) \/ OpenRead(r) \/ CloseRead(r)
  BY <1>7, ReadMaps
<1> QED BY <1>2, <1>3, <1>4, <1>5, <1>6, <1>7 DEF Next

\* put, set_visible_ts, transaction, flush and reopening: as long as callers write above
\* the published timestamp, the engine is a versioned store whose readers take their
\* snapshot in one step.
THEOREM EngineImplementsStore == ASSUME Disciplined PROVE Spec => ImplementsMvccStore
<1>1. Spec => [](TypeOK /\ SnapInv)
  BY AlwaysSnap
<1>2. TypeOK /\ SnapInv /\ RefInv /\ [Next]_vars => RefInv'
  BY NextRef
<1>3. TypeOK /\ SnapInv /\ RefInv /\ [Next]_vars => [Mvcc!Next]_(Mvcc!vars)
  BY NextMaps
<1> QED BY <1>1, <1>2, <1>3, InitRef, InitMaps, PTL DEF Spec, ImplementsMvccStore, Mvcc!Spec
=============================================================================
