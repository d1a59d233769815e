---------------------------- MODULE ReadTransaction ----------------------------
(***************************************************************************)
(* One transaction on one collection: what it reads when its own writes    *)
(* lie over the rows of its snapshot.  A cursor merges two sorted streams, *)
(* the snapshot's entries and the transaction's own; the document stream   *)
(* is itself folded from the versions stored in key order.  A cursor       *)
(* borrows the transaction, so no write happens while one is open.         *)
(***************************************************************************)
EXTENDS Versions, MergedCursor

CONSTANTS
  Key,        \* index keys, sequences of naturals
  Histories,  \* the stored documents a transaction may find
  EntrySets,  \* the physical entries of the index it may find
  MaxWrites   \* bound on the rows one transaction writes

ASSUME StoreAssumption ==
  /\ Document \subseteq Nat
  /\ Key \subseteq Seq(Nat)
  /\ Histories \subseteq History
  /\ \A set \in EntrySets : set \subseteq Key \X Document
  /\ MaxWrites \in Nat

\* What is stored is finite.
ASSUME FiniteAssumption ==
  /\ \A h \in Histories : IsFiniteSet({d \in Document : \E v \in Version : h[d][v] # Absent})
  /\ \A set \in EntrySets : IsFiniteSet(set)

Position == Key \X Document

\* The documents of a collection are ordered by id alone.
PlaceOf(d) == << <<>>, d >>
Place == {PlaceOf(d) : d \in Document}

VARIABLES
  history, entries, ts,     \* the LMDB snapshot, and the timestamp read at
  docWrites, indexWrites,   \* the write set: the last write to each row
  cursor                    \* the open cursor

vars == <<history, entries, ts, docWrites, indexWrites, cursor>>
snapshot == <<history, entries, ts>>
writes == <<docWrites, indexWrites>>

TouchedDocuments == {p \in Place : docWrites[p[2]] # Absent}
TouchedPositions == {p \in Position : indexWrites[p] # "None"}
WritesBounded == Cardinality(TouchedDocuments) + Cardinality(TouchedPositions) <= MaxWrites

-----------------------------------------------------------------------------
(* Document rows, ordered by id, then version *)

Rows == {row \in Document \X Version : history[row[1]][row[2]] # Absent}
RowLess(r, s) == r[1] < s[1] \/ (r[1] = s[1] /\ r[2] < s[2])
Decoded(cell) == IF cell = Tombstone THEN Absent ELSE cell

\* Mutation of StoredDocument: the row below the key is taken for the document's.
StoredBelow(d) ==
  LET below == {row \in Rows : ~RowLess(<<d, ts>>, row)}
      row == Last(Ascending(below, RowLess))
  IN IF below = {} THEN Absent ELSE Decoded(history[row[1]][row[2]])

\* stored_document: the greatest key up to (id, ts), if it is of this document.
StoredDocument(d) ==
  LET below == {row \in Rows : ~RowLess(<<d, ts>>, row)}
      row == Last(Ascending(below, RowLess))
  IN IF below = {} \/ row[1] # d THEN Absent ELSE Decoded(history[d][row[2]])

VisibleDocument(d) ==
  IF docWrites[d] = Absent THEN StoredDocument(d) ELSE Decoded(docWrites[d])

\* Mutation of ScanEdge: an exclusive start names the document's oldest version.
ScanEdgeOldest(direction, start) == <<start.at[2], 0>>

\* document_cursor_bounds: the key the scan starts from, u64::MAX above any version.
ScanEdge(direction, start) ==
  IF (direction = "Forward") = (start.kind = "Included")
  THEN <<start.at[2], 0>> ELSE <<start.at[2], MaxTs + 1>>

InScan(row, direction, start) ==
  LET edge == ScanEdge(direction, start)
  IN \/ start.kind = "Unbounded"
     \/ IF direction = "Forward" THEN RowLess(edge, row) ELSE RowLess(row, edge)
     \/ start.kind = "Included" /\ row = edge

\* Mutation of Regroup: the first version met is kept in both directions.
RegroupFirst(groups, row, direction) ==
  IF groups # <<>> /\ Last(groups)[1] = row[1] THEN groups ELSE Append(groups, row)

\* Of a run of one document's versions, the newest: the last one met forward, the
\* first in reverse.
Regroup(groups, row, direction) ==
  IF groups = <<>> \/ Last(groups)[1] # row[1] THEN Append(groups, row)
  ELSE IF direction = "Forward" THEN Append(Front(groups), row)
  ELSE groups

\* Mutation of ScannedRows: versions after the timestamp are read.
ScannedRowsAll(direction, start) ==
  Directed(direction, {row \in Rows : InScan(row, direction, start)}, RowLess)

ScannedRows(direction, start) ==
  Directed(direction, {row \in Rows : InScan(row, direction, start) /\ row[2] <= ts}, RowLess)

\* HeedDocumentCursor: the snapshot's documents, tombstones left out.
StoredDocuments(direction, start) ==
  LET Step(groups, row) == Regroup(groups, row, direction)
      newest == FoldLeft(Step, <<>>, ScannedRows(direction, start))
      Live(shown, row) ==
        LET value == Decoded(history[row[1]][row[2]])
        IN IF value = Absent THEN shown
           ELSE Append(shown, [at |-> PlaceOf(row[1]), value |-> value])
  IN FoldLeft(Live, <<>>, newest)

-----------------------------------------------------------------------------
(* What a cursor merges *)

\* Entries at these positions, with the document each shows; none for a document
\* that cannot be seen.
Shown(positions, direction) ==
  LET seen == {p \in positions : VisibleDocument(p[2]) # Absent}
      ordered == Directed(direction, seen, PositionLess)
  IN [i \in DOMAIN ordered |-> [at |-> ordered[i], value |-> VisibleDocument(ordered[i][2])]]

\* Mutation of Untouched: rows the transaction wrote are not hidden.
UntouchedNot(stored, touched) == stored

\* next_base
Untouched(stored, touched) ==
  LET Keep(kept, entry) == IF entry.at \in touched THEN kept ELSE Append(kept, entry)
  IN FoldLeft(Keep, <<>>, stored)

DocumentCursor(direction, start) ==
  Opened("Documents", direction, start,
         Untouched(StoredDocuments(direction, start), TouchedDocuments),
         Shown({p \in TouchedDocuments : Accepts(direction, start, p)}, direction))

\* The base is what IndexCursor promises for the entries of the snapshot's index.
IndexEntryCursor(direction, start) ==
  LET put == {p \in Position : indexWrites[p] = "Put"}
      From(positions) == {p \in positions : Accepts(direction, start, p)}
  IN Opened("Index", direction, start,
            Untouched(Shown(From(entries), direction), TouchedPositions),
            Shown(From(put), direction))

-----------------------------------------------------------------------------
(* Actions *)

WriteDocument(d, cell) ==
  /\ cursor = Closed
  /\ docWrites' = [docWrites EXCEPT ![d] = cell]
  /\ UNCHANGED <<snapshot, indexWrites, cursor>>
  /\ WritesBounded'

PutDocument(d, v) == WriteDocument(d, v)
DeleteDocument(d) == WriteDocument(d, Tombstone)

WriteIndexEntry(p, write) ==
  /\ cursor = Closed
  /\ indexWrites' = [indexWrites EXCEPT ![p] = write]
  /\ UNCHANGED <<snapshot, docWrites, cursor>>
  /\ WritesBounded'

GetCursor(direction, start) ==
  /\ cursor = Closed
  /\ cursor' = DocumentCursor(direction, start)
  /\ UNCHANGED <<snapshot, writes>>

GetIndexCursor(direction, start) ==
  /\ cursor = Closed
  /\ cursor' = IndexEntryCursor(direction, start)
  /\ UNCHANGED <<snapshot, writes>>

TakeBase ==
  /\ cursor # Closed
  /\ TakesBase(cursor)
  /\ cursor' = BaseTaken(cursor)
  /\ UNCHANGED <<snapshot, writes>>

TakeOverlay ==
  /\ cursor # Closed
  /\ TakesOverlay(cursor)
  /\ cursor' = OverlayTaken(cursor)
  /\ UNCHANGED <<snapshot, writes>>

CloseCursor ==
  /\ cursor # Closed
  /\ cursor' = Closed
  /\ UNCHANGED <<snapshot, writes>>

-----------------------------------------------------------------------------
Init ==
  /\ history \in Histories
  /\ entries \in EntrySets
  /\ ts \in 0 .. MaxTs - 1
  /\ docWrites = NoRow
  /\ indexWrites = [p \in Position |-> "None"]
  /\ cursor = Closed

Next ==
  \/ \E d \in Document, v \in Value : PutDocument(d, v)
  \/ \E d \in Document : DeleteDocument(d)
  \/ \E p \in Position, write \in {"Put", "Deleted"} : WriteIndexEntry(p, write)
  \/ \E direction \in Direction, start \in StartAt(Place) : GetCursor(direction, start)
  \/ \E direction \in Direction, start \in StartAt(Position) : GetIndexCursor(direction, start)
  \/ TakeBase
  \/ TakeOverlay
  \/ CloseCursor

Spec == Init /\ [][Next]_vars

-----------------------------------------------------------------------------
(* Properties *)

\* The documents a later transaction would find had this one been committed on top
\* of its snapshot.
Committed ==
  LET seen == [d \in Document |-> [v \in Version |-> IF v <= ts THEN history[d][v] ELSE Absent]]
  IN View(Installed(seen, ts + 1, docWrites), ts + 1)

CommittedEntries ==
  {p \in Position :
     indexWrites[p] = "Put" \/ (indexWrites[p] = "None" /\ p \in entries)}

Expected ==
  LET positions == IF cursor.kind = "Documents" THEN Place ELSE CommittedEntries
      found == {p \in positions :
                  Committed[p[2]] # Absent /\ FromStart(cursor.direction, cursor.start, p)}
      ordered == Directed(cursor.direction, found, PositionLess)
  IN [i \in DOMAIN ordered |-> [at |-> ordered[i], value |-> Committed[ordered[i][2]]]]

\* get: a document reads in the transaction as it would after its commit.
GetSeesCommit == \A d \in Document : VisibleDocument(d) = Committed[d]

\* get_cursor, get_index_cursor: a cursor returns what it would after the commit, in
\* order, each entry once, from the start it was given, and has returned all of it
\* when both streams are drained.
ReadsOwnWrites ==
  cursor # Closed =>
    /\ IsPrefix(cursor.out, Expected)
    /\ Drained(cursor) => cursor.out = Expected
=============================================================================
