------------------------- MODULE ReadTransactionProofs -------------------------
(* A lookup and a cursor in a transaction see what its commit will make, for    *)
(* every set of documents, values, keys, histories, entries and writes.         *)
EXTENDS ReadTransaction, OrderProofs

-----------------------------------------------------------------------------
(* Rows in key order *)

\* Keys are compared by document, then by version: no key precedes itself, and of
\* two keys only one precedes the other.
LEMMA KeysAreOrdered ==
  ASSUME NEW r \in Nat \X Nat, NEW s \in Nat \X Nat
  PROVE  /\ ~RowLess(r, r)
         /\ RowLess(r, s) => ~RowLess(s, r)
         /\ r # s => RowLess(r, s) \/ RowLess(s, r)
<1>1. r = <<r[1], r[2]>> /\ s = <<s[1], s[2]>>
  OBVIOUS
<1> QED BY <1>1 DEF RowLess

\* The last of the rows in ascending order is the one that all others precede.
LEMMA LastIsGreatest ==
  ASSUME NEW S \in SUBSET (Nat \X Nat), IsFiniteSet(S),
         NEW x \in S, \A y \in S : y # x => RowLess(y, x)
  PROVE  Last(Ascending(S, RowLess)) = x
<1> DEFINE n == Cardinality(S)
           Under(z) == {y \in S : RowLess(y, z)}
<1>1. n \in Nat /\ n # 0
  BY FS_CardinalityType, FS_EmptySet
<1>2. IsFiniteSet(S \ {x}) /\ Cardinality(S \ {x}) = n - 1
  BY FS_RemoveElement
<1>3. Under(x) = S \ {x}
  BY KeysAreOrdered
<1>4. ASSUME NEW z \in S, z # x
      PROVE  Cardinality(Under(z)) # n - 1
  <2>1. Under(z) \subseteq (S \ {x}) \ {z}
    BY <1>4, KeysAreOrdered
  <2> DEFINE R == S \ {x}
  <2>2. IsFiniteSet(R) /\ Cardinality(R) = n - 1 /\ z \in R
    BY <1>2, <1>4
  <2> HIDE DEF n, Under
  <2>3. IsFiniteSet(R \ {z}) /\ Cardinality(R \ {z}) = (n - 1) - 1
    <3> HIDE DEF R
    <3> QED BY <2>2, FS_RemoveElement
  <2>4. Cardinality(Under(z)) <= (n - 1) - 1 /\ Cardinality(Under(z)) \in Nat
    BY <2>1, <2>3, FS_Subset, FS_CardinalityType
  <2> QED BY <1>1, <2>4
<1> DEFINE At(i) == CHOOSE z \in S : Cardinality(Under(z)) = i - 1
<1>5. At(n) = x
  BY <1>2, <1>3, <1>4
<1>6. Last(Ascending(S, RowLess)) = At(n)
  <2>1. Ascending(S, RowLess) = [i \in 1 .. n |-> At(i)]
    BY DEF Ascending
  <2> HIDE DEF At, n
  <2>2. Len([i \in 1 .. n |-> At(i)]) = n
    BY <1>1
  <2> QED BY <1>1, <2>1, <2>2 DEF Last
<1> QED BY <1>5, <1>6

\* Rows up to a key have a greatest one.
LEMMA GreatestRow ==
  ASSUME NEW n \in Nat, NEW k \in Nat, NEW S \in SUBSET ((0 .. n) \X (0 .. k)), S # {}
  PROVE  \E x \in S : \A y \in S : y # x => RowLess(y, x)
<1> DEFINE Ids == {r[1] : r \in S}
           d == Max(Ids)
           Versions == {v \in 0 .. k : <<d, v>> \in S}
           x == <<d, Max(Versions)>>
<1>1. Ids \in SUBSET (0 .. n) /\ Ids # {}
  OBVIOUS
<1>2. d \in Ids /\ \A i \in Ids : i <= d
  <2> HIDE DEF Ids
  <2> QED BY <1>1, NewestExists
<1>3. Versions \in SUBSET (0 .. k) /\ Versions # {}
  <2>1. PICK r \in S : r[1] = d
    BY <1>2
  <2>2. r = <<d, r[2]>> /\ r[2] \in 0 .. k
    BY <2>1
  <2> QED BY <2>1, <2>2
<1>4. Max(Versions) \in Versions /\ \A v \in Versions : v <= Max(Versions)
  <2> HIDE DEF Versions
  <2> QED BY <1>3, NewestExists
<1>5. x \in S
  BY <1>4
<1>6. ASSUME NEW y \in S, y # x
      PROVE  RowLess(y, x)
  <2>1. /\ y = <<y[1], y[2]>> /\ y[1] \in 0 .. n /\ y[2] \in 0 .. k
        /\ d \in 0 .. n /\ Max(Versions) \in 0 .. k
    BY <1>1, <1>2, <1>3, <1>4
  <2>2. y[1] <= d
    BY <1>2
  <2>3. y[1] = d => y[2] <= Max(Versions)
    BY <1>4, <2>1
  <2>4. x[1] = d /\ x[2] = Max(Versions)
    OBVIOUS
  <2> HIDE DEF d, Versions, x
  <2>5. y[1] = d => y[2] # Max(Versions)
    BY <1>6, <2>1 DEF x
  <2> QED BY <2>1, <2>2, <2>3, <2>4, <2>5 DEF RowLess
<1> QED BY <1>5, <1>6

-----------------------------------------------------------------------------
(* Types *)

\* The types of what a lookup reads.
ReadInv ==
  /\ history \in History
  /\ ts \in Nat /\ ts < MaxTs
  /\ docWrites \in [Document -> Cell]

\* They hold at first.
LEMMA InitRead == Init => ReadInv
BY StoreAssumption, MaxTsAssumption DEF Init, ReadInv, NoRow, Cell

\* Every step keeps them.
LEMMA NextRead == ReadInv /\ [Next]_vars => ReadInv'
<1> SUFFICES ASSUME ReadInv, [Next]_vars
             PROVE  ReadInv'
  OBVIOUS
<1> USE DEF ReadInv, snapshot, writes
<1>1. ASSUME NEW d \in Document, NEW cell \in Cell, WriteDocument(d, cell)
      PROVE  ReadInv'
  BY <1>1 DEF WriteDocument
<1>2. CASE \E d \in Document, v \in Value : PutDocument(d, v)
  BY <1>1, <1>2 DEF PutDocument, Cell
<1>3. CASE \E d \in Document : DeleteDocument(d)
  BY <1>1, <1>3 DEF DeleteDocument, Cell
<1>4. CASE \E p \in Position, write \in {"Put", "Deleted"} : WriteIndexEntry(p, write)
  BY <1>4 DEF WriteIndexEntry
<1>5. CASE \E direction \in Direction, start \in StartAt(Place) : GetCursor(direction, start)
  BY <1>5 DEF GetCursor
<1>6. CASE \E direction \in Direction, start \in StartAt(Position) :
             GetIndexCursor(direction, start)
  BY <1>6 DEF GetIndexCursor
<1>7. CASE TakeBase
  BY <1>7 DEF TakeBase
<1>8. CASE TakeOverlay
  BY <1>8 DEF TakeOverlay
<1>9. CASE CloseCursor
  BY <1>9 DEF CloseCursor
<1>10. CASE UNCHANGED vars
  BY <1>10 DEF vars
<1> QED BY <1>2, <1>3, <1>4, <1>5, <1>6, <1>7, <1>8, <1>9, <1>10 DEF Next

-----------------------------------------------------------------------------
(* Lookups *)

\* What the snapshot holds of d up to the timestamp.
VersionsSeen(d) == {v \in 0 .. ts : history[d][v] # Absent}
\* The rows at or below the key of d at the timestamp.
RowsBelow(d) == {row \in Rows : ~RowLess(<<d, ts>>, row)}

\* The scan below (id, timestamp) is over finitely many rows.
LEMMA BelowIsFinite ==
  ASSUME ReadInv, NEW d \in Document
  PROVE  /\ RowsBelow(d) \in SUBSET ((0 .. d) \X (0 .. MaxTs))
         /\ IsFiniteSet(RowsBelow(d))
<1>1. Document \subseteq Nat /\ MaxTs \in Nat
  BY StoreAssumption, MaxTsAssumption
<1>2. ASSUME NEW row \in RowsBelow(d)
      PROVE  row \in (0 .. d) \X (0 .. MaxTs)
  <2>1. row = <<row[1], row[2]>> /\ row[1] \in Nat /\ row[2] \in 0 .. MaxTs
    <3>1. row \in Document \X (0 .. MaxTs)
      BY DEF RowsBelow, Rows, Version
    <3>2. row = <<row[1], row[2]>> /\ row[1] \in Document /\ row[2] \in 0 .. MaxTs
      BY <3>1
    <3> QED BY <1>1, <3>2
  <2>2. row[1] <= d
    BY <1>1, <2>1 DEF RowsBelow, RowLess
  <2> QED BY <1>1, <2>1, <2>2
<1>3. IsFiniteSet((0 .. d) \X (0 .. MaxTs))
  <2>1. d \in Int /\ MaxTs \in Int /\ 0 \in Int
    BY <1>1
  <2>2. IsFiniteSet(0 .. d) /\ IsFiniteSet(0 .. MaxTs)
    BY <2>1, FS_Interval
  <2> QED BY <2>2, FS_Product
<1> QED BY <1>2, <1>3, FS_Subset

\* stored_document finds the newest version up to the timestamp, a tombstone reading as
\* absent, and nothing where the greatest key belongs to another document.
LEMMA StoredIsNewest ==
  ASSUME ReadInv, NEW d \in Document
  PROVE  StoredDocument(d) =
           LET cell == history[d][Max(VersionsSeen(d))]
           IN IF VersionsSeen(d) = {} THEN Absent ELSE Decoded(cell)
<1> DEFINE S == RowsBelow(d)
           m == Max(VersionsSeen(d))
           row == Last(Ascending(S, RowLess))
<1>1. d \in Nat /\ MaxTs \in Nat /\ ts \in Nat /\ ts < MaxTs
  BY StoreAssumption, MaxTsAssumption DEF ReadInv
<1>2. S \in SUBSET ((0 .. d) \X (0 .. MaxTs)) /\ IsFiniteSet(S)
  BY BelowIsFinite
<1>3. (0 .. d) \X (0 .. MaxTs) \subseteq Nat \X Nat
  BY <1>1
<1>4. StoredDocument(d) =
        IF S = {} \/ row[1] # d THEN Absent ELSE Decoded(history[d][row[2]])
  BY DEF StoredDocument, RowsBelow
<1>5. \A v \in Version :
        <<d, v>> \in S <=> v \in VersionsSeen(d)
  BY <1>1 DEF RowsBelow, Rows, RowLess, VersionsSeen, Version
<1>6. CASE VersionsSeen(d) = {}
  <2>1. \A r \in S : r[1] # d
    <3> SUFFICES ASSUME NEW r \in S, r[1] = d
                 PROVE  FALSE
      OBVIOUS
    <3>1. r = <<d, r[2]>> /\ r[2] \in Version
      BY DEF RowsBelow, Rows
    <3> QED BY <1>5, <1>6, <3>1
  <2>2. S # {} => row \in S
    <3> SUFFICES ASSUME S # {}
                 PROVE  row \in S
      OBVIOUS
    <3>1. PICK x \in S : \A y \in S : y # x => RowLess(y, x)
      BY <1>1, <1>2, GreatestRow
    <3>2. row = x
      BY <1>2, <1>3, <3>1, LastIsGreatest
    <3> QED BY <3>1, <3>2
  <2> HIDE DEF S, row
  <2> QED BY <1>4, <1>6, <2>1, <2>2
<1>7. CASE VersionsSeen(d) # {}
  <2>1. m \in VersionsSeen(d) /\ \A v \in VersionsSeen(d) : v <= m
    <3>1. VersionsSeen(d) \in SUBSET (0 .. ts)
      BY DEF VersionsSeen
    <3> QED BY <1>1, <1>7, <3>1, NewestExists
  <2>2. m \in Version /\ <<d, m>> \in S
    <3>1. m \in Version
      BY <1>1, <2>1 DEF VersionsSeen, Version
    <3> QED BY <1>5, <2>1, <3>1
  <2>3. ASSUME NEW y \in S, y # <<d, m>>
        PROVE  RowLess(y, <<d, m>>)
    <3>1. y = <<y[1], y[2]>> /\ y[1] \in 0 .. d /\ y[2] \in Version
      BY <1>2 DEF RowsBelow, Rows
    <3>2. y[1] = d => y[2] <= m /\ y[2] # m
      BY <1>5, <2>1, <2>3, <3>1
    <3> QED BY <1>1, <2>2, <3>1, <3>2 DEF RowLess, Version
  <2>4. row = <<d, m>>
    BY <1>2, <1>3, <2>2, <2>3, LastIsGreatest
  <2> HIDE DEF S, row, m
  <2>5. StoredDocument(d) = Decoded(history[d][m])
    BY <1>4, <2>2, <2>4
  <2> QED BY <1>7, <2>5 DEF m
<1> QED BY <1>6, <1>7

\* The row of d that is read after the commit.
LEMMA CommittedRow ==
  ASSUME ReadInv, NEW d \in Document
  PROVE  Committed[d] =
           Newest([v \in 0 .. ts + 1 |->
                     IF v = ts + 1 THEN docWrites[d] ELSE history[d][v]])
<1> DEFINE seen == [e \in Document |->
                     [v \in Version |-> IF v <= ts THEN history[e][v] ELSE Absent]]
<1>1. ts \in Nat /\ ts + 1 \in Version /\ 0 .. ts + 1 \subseteq Version
  BY MaxTsAssumption DEF ReadInv, Version
<1>2. Committed[d] = Newest([v \in 0 .. ts + 1 |-> Installed(seen, ts + 1, docWrites)[d][v]])
  BY DEF Committed, View
<1>3. \A v \in 0 .. ts + 1 :
        Installed(seen, ts + 1, docWrites)[d][v] =
          IF v = ts + 1 THEN docWrites[d] ELSE history[d][v]
  BY <1>1 DEF Installed
<1> HIDE DEF seen
<1>4. [v \in 0 .. ts + 1 |-> Installed(seen, ts + 1, docWrites)[d][v]] =
      [v \in 0 .. ts + 1 |-> IF v = ts + 1 THEN docWrites[d] ELSE history[d][v]]
  BY <1>3
<1> QED BY <1>2, <1>4

\* A row written hides the stored ones, as the version it becomes will.
LEMMA VisibleIsCommitted ==
  ASSUME ReadInv, NEW d \in Document
  PROVE  VisibleDocument(d) = Committed[d]
<1> DEFINE row == [v \in 0 .. ts + 1 |-> IF v = ts + 1 THEN docWrites[d] ELSE history[d][v]]
           written == {v \in DOMAIN row : row[v] # Absent}
<1>1. ts \in Nat
  BY DEF ReadInv
<1>2. Committed[d] =
        IF written = {} \/ row[Max(written)] = Tombstone THEN Absent ELSE row[Max(written)]
  BY CommittedRow DEF Newest
<1>3. CASE docWrites[d] = Absent
  <2>1. written = VersionsSeen(d)
    BY <1>1, <1>3 DEF VersionsSeen
  <2>2. written # {} => Max(written) \in written
    <3>1. written \in SUBSET (0 .. ts + 1)
      OBVIOUS
    <3> HIDE DEF written
    <3> QED BY <1>1, <3>1, NewestExists
  <2>3. written # {} => row[Max(written)] = history[d][Max(written)]
    <3> SUFFICES ASSUME written # {}
                 PROVE  row[Max(written)] = history[d][Max(written)]
      OBVIOUS
    <3>1. Max(written) \in 0 .. ts
      BY <2>1, <2>2 DEF VersionsSeen
    <3> QED BY <1>1, <3>1
  <2> HIDE DEF row, written
  <2> QED BY <1>2, <1>3, <2>1, <2>3, StoredIsNewest DEF VisibleDocument, Decoded
<1>4. CASE docWrites[d] # Absent
  <2>1. ts + 1 \in written /\ \A v \in written : v <= ts + 1
    BY <1>1, <1>4
  <2>2. Max(written) = ts + 1
    <3>1. written \in SUBSET (0 .. ts + 1)
      OBVIOUS
    <3>2. Max(written) \in written /\ \A v \in written : v <= Max(written)
      <4> HIDE DEF written
      <4> QED BY <1>1, <2>1, <3>1, NewestExists
    <3> QED BY <1>1, <2>1, <3>1, <3>2
  <2>3. row[ts + 1] = docWrites[d]
    BY <1>1
  <2> HIDE DEF row, written
  <2> QED BY <1>2, <1>4, <2>1, <2>2, <2>3 DEF VisibleDocument, Decoded
<1> QED BY <1>3, <1>4

\* get: whatever the snapshot holds and whatever the transaction has written, a document
\* reads as it would after the commit.
THEOREM GetsSeeTheCommit == Spec => []GetSeesCommit
<1>1. ReadInv => GetSeesCommit
  BY VisibleIsCommitted DEF GetSeesCommit
<1> QED BY <1>1, InitRead, NextRead, PTL DEF Spec

-----------------------------------------------------------------------------
(* Streams *)

\* The entries at the positions P; an entry shows its document.
Shows(P, val) == {[at |-> p, value |-> val[p[2]]] : p \in P}

\* s shows the positions P, in the cursor's order.
Streams(s, P, val, direction) ==
  /\ s \in Seq(Shows(P, val))
  /\ Ascends(s, direction)
  /\ \A p \in P : \E i \in 1 .. Len(s) : s[i].at = p

\* What a stream consists of.
LEMMA StreamType ==
  ASSUME NEW P, NEW val, NEW direction, NEW s, Streams(s, P, val, direction)
  PROVE  /\ Len(s) \in Nat /\ DOMAIN s = 1 .. Len(s)
         /\ \A i \in 1 .. Len(s) : /\ s[i].at \in P
                                   /\ s[i] = [at |-> s[i].at, value |-> val[s[i].at[2]]]
<1> DEFINE E == Shows(P, val)
<1>1. s \in Seq(E) /\ \A e \in E : e.at \in P /\ e = [at |-> e.at, value |-> val[e.at[2]]]
  BY DEF Streams, Shows
<1> HIDE DEF E
<1>2. Len(s) \in Nat /\ DOMAIN s = 1 .. Len(s) /\ \A i \in 1 .. Len(s) : s[i] \in E
  BY <1>1
<1> QED BY <1>1, <1>2

\* Entries at the same position of two streams of the same documents are the same.
LEMMA StreamFinds ==
  ASSUME NEW P, NEW Q, P \subseteq Q, NEW val, NEW direction,
         NEW s, Streams(s, P, val, direction), NEW t, Streams(t, Q, val, direction)
  PROVE  \A i \in 1 .. Len(s) : \E m \in 1 .. Len(t) : s[i] = t[m]
<1>1. \A i \in 1 .. Len(s) : s[i].at \in P /\ s[i] = [at |-> s[i].at, value |-> val[s[i].at[2]]]
  BY StreamType
<1>2. \A m \in 1 .. Len(t) : t[m] = [at |-> t[m].at, value |-> val[t[m].at[2]]]
  BY StreamType
<1> SUFFICES ASSUME NEW i \in 1 .. Len(s)
             PROVE  \E m \in 1 .. Len(t) : s[i] = t[m]
  OBVIOUS
<1>3. PICK m \in 1 .. Len(t) : t[m].at = s[i].at
  BY <1>1 DEF Streams
<1> QED BY <1>1, <1>2, <1>3

\* Its entries are those of the wider stream.
LEMMA StreamWithin ==
  ASSUME NEW P, NEW Q, P \subseteq Q, NEW val, NEW direction,
         NEW s, Streams(s, P, val, direction), NEW t, Streams(t, Q, val, direction)
  PROVE  s \in Seq({t[m] : m \in 1 .. Len(t)}) /\ Beyond(s, t, 0)
<1> DEFINE T == {t[m] : m \in 1 .. Len(t)}
           E == Shows(P, val)
<1>1. \A i \in 1 .. Len(s) : \E m \in 1 .. Len(t) : s[i] = t[m]
  BY StreamFinds
<1>2. \A i \in 1 .. Len(s) : s[i] \in T
  BY <1>1
<1>3. s \in Seq(E)
  BY DEF Streams
<1>4. s \in Seq(T)
  <2> HIDE DEF T, E
  <2> QED BY <1>2, <1>3
<1>5. \A m \in 1 .. Len(t) : m > 0
  OBVIOUS
<1> HIDE DEF T
<1>6. Beyond(s, t, 0)
  BY <1>1, <1>5 DEF Beyond
<1> QED BY <1>4, <1>6 DEF T

\* A cursor that opens on two streams without a position in common merges them.
LEMMA MergeOpens ==
  ASSUME NEW P \in SUBSET Spot, NEW Q \in SUBSET Spot, P \cap Q = {}, NEW val, NEW direction,
         NEW kind, NEW start,
         NEW base, Streams(base, P, val, direction),
         NEW overlay, Streams(overlay, Q, val, direction),
         NEW exp, Streams(exp, P \cup Q, val, direction)
  PROVE  Merging(Opened(kind, direction, start, base, overlay), exp)
<1> DEFINE c == Opened(kind, direction, start, base, overlay)
           E == {exp[m] : m \in 1 .. Len(exp)}
           R == Seq(E)
           F == P \cup Q
<1>1. /\ c.kind = kind /\ c.out = <<>> /\ c.base = base /\ c.overlay = overlay
      /\ c.direction = direction /\ c.start = start
  BY DEF Opened
<1>2. P \subseteq F /\ Q \subseteq F /\ F \in SUBSET Spot
  OBVIOUS
<1>3. Streams(exp, F, val, direction)
  OBVIOUS
<1> HIDE DEF F
<1>4. base \in R /\ Beyond(base, exp, 0)
  BY <1>2, <1>3, StreamWithin
<1>5. overlay \in R /\ Beyond(overlay, exp, 0)
  BY <1>2, <1>3, StreamWithin
<1>6. Placed(base)
  <2>1. Len(base) \in Nat /\ \A i \in 1 .. Len(base) : base[i].at \in P
    BY StreamType
  <2> QED BY <2>1 DEF Placed
<1>7. Placed(overlay)
  <2>1. Len(overlay) \in Nat /\ \A i \in 1 .. Len(overlay) : overlay[i].at \in Q
    BY StreamType
  <2> QED BY <2>1 DEF Placed
<1>8. /\ Len(exp) \in Nat
      /\ \A i \in 1 .. Len(exp) : /\ exp[i].at \in F
                                  /\ exp[i] = [at |-> exp[i].at, value |-> val[exp[i].at[2]]]
  BY <1>3, StreamType
<1>9. Placed(exp)
  BY <1>2, <1>8 DEF Placed
<1>10. Ascends(base, direction) /\ Ascends(overlay, direction) /\ Ascends(exp, direction)
  BY DEF Streams
<1>11. ASSUME NEW m \in 1 .. Len(exp)
       PROVE  \/ \E i \in 1 .. Len(base) : base[i] = exp[m]
              \/ \E i \in 1 .. Len(overlay) : overlay[i] = exp[m]
  <2>1. CASE exp[m].at \in P
    <3>1. PICK i \in 1 .. Len(base) : base[i].at = exp[m].at
      BY <2>1 DEF Streams
    <3>2. base[i] = [at |-> base[i].at, value |-> val[base[i].at[2]]]
      BY StreamType
    <3> QED BY <1>8, <3>1, <3>2
  <2>2. CASE exp[m].at \in Q
    <3>1. PICK i \in 1 .. Len(overlay) : overlay[i].at = exp[m].at
      BY <2>2 DEF Streams
    <3>2. overlay[i] = [at |-> overlay[i].at, value |-> val[overlay[i].at[2]]]
      BY StreamType
    <3> QED BY <1>8, <3>1, <3>2
  <2>3. exp[m].at \in P \cup Q
    BY <1>8 DEF F
  <2> QED BY <2>1, <2>2, <2>3
<1>12. ASSUME NEW i \in 1 .. Len(base), NEW j \in 1 .. Len(overlay)
       PROVE  base[i].at # overlay[j].at
  <2>1. base[i].at \in P
    BY StreamType
  <2>2. overlay[j].at \in Q
    BY StreamType
  <2> QED BY <2>1, <2>2
<1>13. Parted(0, base, overlay, exp, direction)
  BY <1>4, <1>5, <1>6, <1>7, <1>9, <1>10, <1>11, <1>12 DEF Parted
<1>14. <<>> \in R
  OBVIOUS
<1>15. c \in Cursors(c, R)
  <2> HIDE DEF R
  <2> QED BY <1>4, <1>5, <1>14 DEF Cursors, Opened
<1>16. Len(c.out) = 0 /\ \A i \in 1 .. 0 : FALSE
  BY <1>1
<1> HIDE DEF c, E
<1>17. Merging(c, exp)
  BY <1>1, <1>13, <1>15, <1>16 DEF Merging, E, R
<1> QED BY <1>17 DEF c

\* The images of chosen places are a stream, if they are in order.
LEMMA ChosenStreams ==
  ASSUME NEW n \in Nat, NEW K \in SUBSET (1 .. n), NEW f, NEW g, NEW s, Chosen(g, K, f, s),
         NEW P, NEW val, NEW direction, NEW Y, s \in Seq(Y),
         \A k \in K : f[k] \in Shows(P, val),
         \A k, l \in K : k < l => Before(direction, f[k].at, f[l].at),
         \A p \in P : \E k \in K : f[k].at = p
  PROVE  Streams(s, P, val, direction)
<1> DEFINE m == Len(s)
           E == Shows(P, val)
<1>1. m \in Nat /\ \A a \in 1 .. m : g[a] \in K /\ s[a] = f[g[a]]
  BY DEF Chosen
<1>2. \A a, b \in 1 .. m : a < b => g[a] < g[b]
  BY DEF Chosen
<1>3. \A k \in K : \E a \in 1 .. m : g[a] = k
  BY DEF Chosen
<1>4. s \in Seq(E)
  <2>1. \A a \in 1 .. m : s[a] \in E
    BY <1>1
  <2> HIDE DEF E
  <2> QED BY <2>1
<1> HIDE DEF m, E
<1>5. \A a, b \in 1 .. m : a < b => Before(direction, s[a].at, s[b].at)
  BY <1>1, <1>2
<1>6. \A p \in P : \E a \in 1 .. m : s[a].at = p
  BY <1>1, <1>3
<1> QED BY <1>4, <1>5, <1>6 DEF Streams, Ascends, m, E

\* A stream of fewer values that agree.
LEMMA SameStream ==
  ASSUME NEW P, NEW val, NEW new, NEW direction, NEW s, Streams(s, P, val, direction),
         \A p \in P : val[p[2]] = new[p[2]]
  PROVE  Streams(s, P, new, direction)
<1>1. Shows(P, val) = Shows(P, new)
  BY DEF Shows
<1> QED BY <1>1 DEF Streams

-----------------------------------------------------------------------------
(* Streams of a transaction *)

\* A sorted list of positions, each with its document, is a stream.
LEMMA ListStream ==
  ASSUME NEW S \in SUBSET Spot, IsFiniteSet(S), NEW val, NEW direction, NEW L,
         L = Directed(direction, S, PositionLess), NEW u,
         u = [i \in DOMAIN L |-> [at |-> L[i], value |-> val[L[i][2]]]]
  PROVE  Streams(u, S, val, direction)
<1>1. Lists(L, S, Pairs(S, direction))
  BY DirectedLists DEF Spot
<1> DEFINE n == Len(L)
           E == Shows(S, val)
<1>2. L \in Seq(S) /\ n \in Nat /\ DOMAIN L = 1 .. n /\ \A i \in 1 .. n : L[i] \in S
  BY <1>1 DEF Lists
<1>3. \A i, j \in 1 .. n : i < j => Before(direction, L[i], L[j])
  <2> SUFFICES ASSUME NEW i \in 1 .. n, NEW j \in 1 .. n, i < j
               PROVE  Before(direction, L[i], L[j])
    OBVIOUS
  <2>1. <<L[i], L[j]>> \in Pairs(S, direction)
    BY <1>1 DEF Lists
  <2> QED BY <2>1 DEF Pairs
<1>4. \A p \in S : \E i \in 1 .. n : L[i] = p
  BY <1>1 DEF Lists
<1> HIDE DEF n
<1>5. u = [i \in 1 .. n |-> [at |-> L[i], value |-> val[L[i][2]]]]
  BY <1>2
<1>6. \A i \in 1 .. n : u[i].at = L[i] /\ u[i] \in E
  BY <1>2, <1>5 DEF Shows
<1>7. u \in Seq(E) /\ Len(u) = n
  <2> HIDE DEF E
  <2> QED BY <1>2, <1>5, <1>6
<1>8. Ascends(u, direction)
  BY <1>3, <1>6, <1>7 DEF Ascends
<1>9. \A p \in S : \E i \in 1 .. Len(u) : u[i].at = p
  BY <1>4, <1>6, <1>7
<1> QED BY <1>7, <1>8, <1>9 DEF Streams

\* Shown lists the positions whose document can be seen.
LEMMA ShownStreams ==
  ASSUME ReadInv, NEW Q \in SUBSET Spot, \A p \in Q : p[2] \in Document, NEW direction,
         NEW S, S = {p \in Q : Committed[p[2]] # Absent}, IsFiniteSet(S)
  PROVE  Streams(Shown(Q, direction), S, Committed, direction)
<1> DEFINE L == Directed(direction, S, PositionLess)
           u == [i \in DOMAIN L |-> [at |-> L[i], value |-> Committed[L[i][2]]]]
           See(i) == [at |-> L[i], value |-> VisibleDocument(L[i][2])]
           Com(i) == [at |-> L[i], value |-> Committed[L[i][2]]]
<1>1. S = {p \in Q : VisibleDocument(p[2]) # Absent}
  BY VisibleIsCommitted
<1>2. Shown(Q, direction) = [i \in DOMAIN L |-> See(i)]
  BY <1>1 DEF Shown
<1>3. \A i \in DOMAIN L : L[i] \in S
  BY DirectedLists DEF Spot, Lists
<1>4. \A i \in DOMAIN L : See(i) = Com(i)
  BY <1>3, VisibleIsCommitted
<1>5. Shown(Q, direction) = u
  <2>1. u = [i \in DOMAIN L |-> Com(i)]
    OBVIOUS
  <2> HIDE DEF L, u, See, Com
  <2> QED BY <1>2, <1>4, <2>1
<1> HIDE DEF L
<1>6. S \in SUBSET Spot
  OBVIOUS
<1>7. Streams(u, S, Committed, direction)
  BY <1>6, ListStream DEF L
<1> QED BY <1>5, <1>7

\* next_base passes over the entries whose position the transaction touched.
LEMMA UntouchedStreams ==
  ASSUME NEW s, NEW P, NEW val, NEW direction, Streams(s, P, val, direction), NEW touched
  PROVE  Streams(Untouched(s, touched), P \ touched, val, direction)
<1> DEFINE n == Len(s)
           Y == Shows(P, val)
           X == Seq(Y)
           Keep(kept, entry) == IF entry.at \in touched THEN kept ELSE Append(kept, entry)
           D == SUBSET (1 .. n)
           Fold1(f, r) == IF r = {} THEN <<>> ELSE Keep(f[r \ {Max(r)}], s[Max(r)])
           fold == CHOOSE f : f = [r \in D |-> Fold1(f, r)]
           Step == [x \in X \X (1 .. n) |-> Keep(x[1], s[x[2]])]
           K == {i \in 1 .. n : s[i].at \notin touched}
<1>1. /\ n \in Nat /\ DOMAIN s = 1 .. n
      /\ \A i \in 1 .. n : s[i].at \in P
  BY StreamType
<1>2. \A i \in 1 .. n : s[i] \in Y
  <2>1. s \in Seq(Y)
    BY DEF Streams
  <2> HIDE DEF Y
  <2> QED BY <2>1
<1>3. Untouched(s, touched) = fold[1 .. n]
  BY <1>1 DEF Untouched, FoldLeft, MapThenFoldSet
<1>4. <<>> \in X
  OBVIOUS
<1>5. ASSUME NEW x \in X, NEW i \in 1 .. n
      PROVE  Keep(x, s[i]) \in X
  <2>1. s[i] \in Y
    BY <1>2
  <2> HIDE DEF Y
  <2> QED BY <2>1
<1>6. Step \in [X \X (1 .. n) -> X]
  <2> HIDE DEF X, n, Keep
  <2> QED BY <1>5
<1>7. \A r \in D : r # {} => Max(r) \in r
  BY <1>1, PlacesHaveEnds
<1>8. \E f \in [D -> X] : f = [r \in D |-> Fold1(f, r)]
  <2>1. PICK f \in [D -> X] : Folded(f, n, <<>>, Step)
    <3> HIDE DEF Step, n, X
    <3> QED BY <1>1, <1>4, <1>6, LeftFoldExists
  <2>2. ASSUME NEW r \in D
        PROVE  f[r] = Fold1(f, r)
    <3> HIDE DEF X, n, Keep
    <3>1. r # {} => r \ {Max(r)} \in D /\ f[r \ {Max(r)}] \in X /\ Max(r) \in 1 .. n
      BY <1>7, <2>1
    <3>2. f[r] = IF r = {} THEN <<>> ELSE Step[<<f[r \ {Max(r)}], Max(r)>>]
      BY <2>1 DEF Folded
    <3> QED BY <3>1, <3>2 DEF Step
  <2> HIDE DEF Fold1, X, D
  <2> QED BY <2>1, <2>2
<1>9. fold = [r \in D |-> Fold1(fold, r)]
  BY <1>8
<1> HIDE DEF fold
<1>10. Folds(fold, n, X, <<>>, Step)
  <2>1. fold[{}] = <<>>
    BY <1>9
  <2>2. ASSUME NEW r \in SUBSET (1 .. n), r # {}, fold[r \ {Max(r)}] \in X
        PROVE  fold[r] = Step[<<fold[r \ {Max(r)}], Max(r)>>]
    <3>1. fold[r] = Keep(fold[r \ {Max(r)}], s[Max(r)])
      BY <1>9, <2>2
    <3>2. Max(r) \in 1 .. n
      BY <1>7, <2>2
    <3> HIDE DEF X, n, Keep
    <3> QED BY <2>2, <3>1, <3>2
  <2> HIDE DEF Step, X, n
  <2> QED BY <2>1, <2>2 DEF Folds
<1>11. PICK w \in [0 .. n -> X] : IsWalk(w, n, <<>>, Step) /\ w[n] = fold[1 .. n]
  <2>1. n \in Nat
    BY <1>1
  <2> HIDE DEF Step, X, n, D, Y, K, Keep
  <2>2. EndsWalk(fold, n, X, <<>>, Step)
    BY <1>4, <1>6, <1>10, <2>1, FoldIsWalk
  <2> QED BY <2>2 DEF EndsWalk
<1>12. Passes(w, n, K, s)
  <2>1. w[0] = <<>>
    BY <1>11 DEF IsWalk
  <2>2. ASSUME NEW i \in 1 .. n
        PROVE  w[i] = IF i \in K THEN Append(w[i - 1], s[i]) ELSE w[i - 1]
    <3>1. i - 1 \in 0 .. n
      BY <1>1
    <3>2. w[i - 1] \in X
      <4> HIDE DEF X, n
      <4> QED BY <1>11, <3>1
    <3>3. w[i] = Step[<<w[i - 1], i>>]
      BY <1>11 DEF IsWalk
    <3>4. w[i] = Keep(w[i - 1], s[i])
      <4> HIDE DEF X, n, Keep
      <4> QED BY <3>2, <3>3
    <3> QED BY <3>4
  <2> QED BY <2>1, <2>2 DEF Passes
<1>13. K \in SUBSET (1 .. n) /\ \A i \in K : s[i] \in Y /\ s[i].at \in P \ touched
  BY <1>1, <1>2
<1>14. w \in [0 .. n -> Seq(Y)]
  BY <1>11
<1>15. w[n] \in Seq(Y)
  BY <1>1, <1>14
<1>16. PICK g : Chosen(g, K, s, w[n])
  <2> HIDE DEF K, n, Y
  <2> QED BY <1>1, <1>12, <1>13, <1>14, FilterWalk
<1>17. \A k \in K : s[k] \in Shows(P \ touched, val)
  <2>1. \A i \in 1 .. n : s[i] = [at |-> s[i].at, value |-> val[s[i].at[2]]]
    BY StreamType
  <2> QED BY <1>13, <2>1 DEF Shows
<1>18. \A k, l \in K : k < l => Before(direction, s[k].at, s[l].at)
  BY DEF Streams, Ascends
<1>19. \A p \in P \ touched : \E k \in K : s[k].at = p
  BY DEF Streams
<1>20. Streams(w[n], P \ touched, val, direction)
  <2> DEFINE R == P \ touched
  <2> HIDE DEF K, n, Y, R
  <2> QED BY <1>1, <1>13, <1>15, <1>16, <1>17, <1>18, <1>19, ChosenStreams DEF R
<1> QED BY <1>3, <1>11, <1>20

-----------------------------------------------------------------------------
(* Rows in order *)

\* The cursor's order of rows, and the pairs of rows in it.
RowBefore(direction, r, s) == IF direction = "Forward" THEN RowLess(r, s) ELSE RowLess(s, r)
RowPairs(S, direction) == {p \in S \X S : RowBefore(direction, p[1], p[2])}

\* Rows are ordered by document, then version.
LEMMA RowsAreOrdered ==
  ASSUME NEW r \in Nat \X Nat, NEW s \in Nat \X Nat, NEW t \in Nat \X Nat
  PROVE  /\ ~RowLess(r, r)
         /\ RowLess(r, s) /\ RowLess(s, t) => RowLess(r, t)
<1>1. /\ r[1] \in Nat /\ r[2] \in Nat /\ s[1] \in Nat /\ s[2] \in Nat
      /\ t[1] \in Nat /\ t[2] \in Nat
  OBVIOUS
<1> QED BY <1>1 DEF RowLess

\* Directed lists a finite set of rows in the cursor's order.
LEMMA DirectedRows ==
  ASSUME NEW S \in SUBSET (Nat \X Nat), IsFiniteSet(S), NEW direction
  PROVE  Lists(Directed(direction, S, RowLess), S, RowPairs(S, direction))
<1> DEFINE R == RowPairs(S, "Forward")
           L == Ascending(S, RowLess)
<1>1. Orders(R, S)
  <2>1. \A x, y \in S : <<x, y>> \in R <=> RowLess(x, y)
    BY DEF RowPairs, RowBefore
  <2>2. \A x, y, z \in S : /\ ~RowLess(x, x)
                           /\ RowLess(x, y) /\ RowLess(y, z) => RowLess(x, z)
                           /\ x # y => RowLess(x, y) \/ RowLess(y, x)
    BY RowsAreOrdered, KeysAreOrdered
  <2> HIDE DEF R
  <2> QED BY <2>1, <2>2 DEF Orders
<1>2. L = Enumeration(S, R)
  <2>1. ASSUME NEW x \in S
        PROVE  {y \in S : RowLess(y, x)} = {y \in S : <<y, x>> \in R}
    BY DEF RowPairs, RowBefore
  <2> DEFINE At(i) == CHOOSE x \in S : Cardinality({y \in S : RowLess(y, x)}) = i - 1
             In(i) == CHOOSE x \in S : Cardinality({y \in S : <<y, x>> \in R}) = i - 1
  <2>2. \A i \in 1 .. Cardinality(S) : At(i) = In(i)
    BY <2>1
  <2>3. /\ L = [i \in 1 .. Cardinality(S) |-> At(i)]
        /\ Enumeration(S, R) = [i \in 1 .. Cardinality(S) |-> In(i)]
    BY DEF Ascending, Enumeration
  <2> HIDE DEF At, In, L, R
  <2> QED BY <2>2, <2>3
<1>3. Lists(L, S, R)
  <2> HIDE DEF L, R
  <2> QED BY <1>1, <1>2, EnumerationLists
<1>4. CASE direction = "Forward"
  BY <1>3, <1>4 DEF Directed
<1>5. CASE direction # "Forward"
  <2>1. \A x, y \in S : <<x, y>> \in R => <<y, x>> \in RowPairs(S, direction)
    BY <1>5 DEF RowPairs, RowBefore
  <2>2. Directed(direction, S, RowLess) = Reverse(L)
    BY <1>5 DEF Directed
  <2> HIDE DEF L, R
  <2> QED BY <1>3, <2>1, <2>2, ReverseLists
<1> QED BY <1>4, <1>5

-----------------------------------------------------------------------------
(* Regrouping *)

\* L lists rows in the cursor's order.
RowList(L, direction) ==
  /\ Len(L) \in Nat
  /\ \A i \in 1 .. Len(L) : L[i] \in Nat \X Nat
  /\ \A i, j \in 1 .. Len(L) : i < j => RowBefore(direction, L[i], L[j])

\* The cursor's order of document ids.
DocBefore(direction, d, e) == IF direction = "Forward" THEN d < e ELSE e < d

\* G holds the newest of the first i rows for each of their documents, in order.
Grouped(G, i, L, direction) ==
  /\ G \in Seq(Nat \X Nat)
  /\ \A a \in 1 .. Len(G) : \E j \in 1 .. i : G[a] = L[j]
  /\ \A a, b \in 1 .. Len(G) : a < b => DocBefore(direction, G[a][1], G[b][1])
  /\ \A a \in 1 .. Len(G), j \in 1 .. i : L[j][1] = G[a][1] => L[j][2] <= G[a][2]
  /\ \A j \in 1 .. i : \E a \in 1 .. Len(G) : G[a][1] = L[j][1]
  /\ i > 0 => Len(G) > 0 /\ G[Len(G)][1] = L[i][1]

\* What groups consist of.
LEMMA GroupType ==
  ASSUME NEW L, NEW direction, NEW i, NEW G, Grouped(G, i, L, direction)
  PROVE  /\ G \in Seq(Nat \X Nat) /\ Len(G) \in Nat
         /\ \A a \in 1 .. Len(G) : G[a] \in Nat \X Nat /\ G[a][1] \in Nat /\ G[a][2] \in Nat
<1> DEFINE R == Nat \X Nat
<1>1. G \in Seq(R)
  BY DEF Grouped
<1>2. \A r \in R : r[1] \in Nat /\ r[2] \in Nat
  OBVIOUS
<1> HIDE DEF R
<1>3. Len(G) \in Nat /\ \A a \in 1 .. Len(G) : G[a] \in R
  BY <1>1
<1> QED BY <1>1, <1>2, <1>3 DEF R

\* A row of another document opens a group of its own.
LEMMA AppendGroups ==
  ASSUME NEW L, NEW direction, RowList(L, direction), NEW i \in 1 .. Len(L),
         NEW G, Grouped(G, i - 1, L, direction),
         G # <<>> => G[Len(G)][1] # L[i][1]
  PROVE  Grouped(Append(G, L[i]), i, L, direction)
<1> DEFINE m == Len(G)
           H == Append(G, L[i])
           x == L[i]
<1>1. /\ x \in Nat \X Nat /\ x[1] \in Nat /\ x[2] \in Nat
      /\ i \in Nat /\ i - 1 \in Nat /\ Len(L) \in Nat
      /\ \A j \in 1 .. i : j \in 1 .. Len(L)
      /\ \A j \in 1 .. Len(L) : L[j] \in Nat \X Nat /\ L[j][1] \in Nat /\ L[j][2] \in Nat
  BY DEF RowList
<1>2. /\ G \in Seq(Nat \X Nat) /\ m \in Nat
      /\ \A a \in 1 .. m : G[a] \in Nat \X Nat /\ G[a][1] \in Nat /\ G[a][2] \in Nat
  BY GroupType
<1>3. /\ H \in Seq(Nat \X Nat) /\ Len(H) = m + 1 /\ H[m + 1] = x
      /\ \A a \in 1 .. m : H[a] = G[a]
  BY <1>1, <1>2
<1>4. \A a \in 1 .. m + 1 : a = m + 1 \/ a \in 1 .. m
  BY <1>2
<1>5. \A j \in 1 .. i : j = i \/ j \in 1 .. i - 1
  BY <1>1
<1>6. \A j \in 1 .. i - 1 : j \in 1 .. i /\ j < i
  BY <1>1
<1>7. i > 1 => i - 1 \in 1 .. i - 1 /\ i - 1 > 0
  BY <1>1
<1> HIDE DEF H, x
<1>8. \A a \in 1 .. m : DocBefore(direction, G[a][1], x[1])
  <2> SUFFICES ASSUME NEW a \in 1 .. m
               PROVE  DocBefore(direction, G[a][1], x[1])
    OBVIOUS
  <2>1. PICK j \in 1 .. i - 1 : G[a] = L[j]
    BY DEF Grouped
  <2>2. i > 1
    BY <1>1, <2>1
  <2>3. G[m][1] = L[i - 1][1] /\ m > 0 /\ m \in 1 .. m
    BY <1>2, <1>7, <2>2 DEF Grouped
  <2>4. G # <<>>
    BY <2>3
  <2>5. RowBefore(direction, L[i - 1], L[i])
    BY <1>1, <1>6, <1>7, <2>2 DEF RowList
  <2>6. L[i - 1][1] # x[1]
    BY <2>3, <2>4 DEF x
  <2>7. DocBefore(direction, L[i - 1][1], x[1])
    BY <2>5, <2>6 DEF RowBefore, RowLess, DocBefore, x
  <2>8. a = m \/ DocBefore(direction, G[a][1], G[m][1])
    <3>1. a = m \/ a < m
      BY <1>2
    <3> QED BY <2>3, <3>1 DEF Grouped
  <2>9. G[a][1] \in Nat /\ G[m][1] \in Nat
    BY <1>2, <2>3
  <2>10. DocBefore(direction, G[m][1], x[1]) /\ x[1] \in Nat
    BY <1>1, <2>3, <2>7 DEF x
  <2> QED BY <2>8, <2>9, <2>10 DEF DocBefore
<1>9. \A j \in 1 .. i - 1 : L[j][1] # x[1]
  <2> SUFFICES ASSUME NEW j \in 1 .. i - 1
               PROVE  L[j][1] # x[1]
    OBVIOUS
  <2>1. PICK a \in 1 .. m : G[a][1] = L[j][1]
    BY DEF Grouped
  <2>2. DocBefore(direction, G[a][1], x[1]) /\ G[a][1] \in Nat
    BY <1>2, <1>8
  <2> QED BY <1>1, <2>1, <2>2 DEF DocBefore, x
<1>10. \A a \in 1 .. m + 1 : \E j \in 1 .. i : H[a] = L[j]
  <2> SUFFICES ASSUME NEW a \in 1 .. m + 1
               PROVE  \E j \in 1 .. i : H[a] = L[j]
    OBVIOUS
  <2>1. CASE a = m + 1
    <3>1. i \in 1 .. i
      BY <1>1
    <3> QED BY <1>3, <2>1, <3>1 DEF x
  <2>2. CASE a \in 1 .. m
    <3>1. PICK j \in 1 .. i - 1 : G[a] = L[j]
      BY <2>2 DEF Grouped
    <3> QED BY <1>3, <1>6, <2>2, <3>1
  <2> QED BY <1>4, <2>1, <2>2
<1>11. \A a, b \in 1 .. m + 1 : a < b => DocBefore(direction, H[a][1], H[b][1])
  <2> SUFFICES ASSUME NEW a \in 1 .. m + 1, NEW b \in 1 .. m + 1, a < b
               PROVE  DocBefore(direction, H[a][1], H[b][1])
    OBVIOUS
  <2>1. a \in 1 .. m
    BY <1>2
  <2>2. CASE b = m + 1
    BY <1>3, <1>8, <2>1, <2>2
  <2>3. CASE b \in 1 .. m
    BY <1>3, <2>1, <2>3 DEF Grouped
  <2> QED BY <1>4, <2>2, <2>3
<1>12. \A a \in 1 .. m + 1, j \in 1 .. i : L[j][1] = H[a][1] => L[j][2] <= H[a][2]
  <2> SUFFICES ASSUME NEW a \in 1 .. m + 1, NEW j \in 1 .. i, L[j][1] = H[a][1]
               PROVE  L[j][2] <= H[a][2]
    OBVIOUS
  <2>1. CASE a = m + 1
    <3>1. j = i
      BY <1>3, <1>5, <1>9, <2>1
    <3> QED BY <1>1, <1>3, <2>1, <3>1 DEF x
  <2>2. CASE a \in 1 .. m
    <3>1. H[a] = G[a] /\ G[a][1] \in Nat /\ DocBefore(direction, G[a][1], x[1])
      BY <1>2, <1>3, <1>8, <2>2
    <3>2. j # i
      BY <1>1, <3>1 DEF DocBefore, x
    <3>3. j \in 1 .. i - 1
      BY <1>5, <3>2
    <3> QED BY <2>2, <3>1, <3>3 DEF Grouped
  <2> QED BY <1>4, <2>1, <2>2
<1>13. \A j \in 1 .. i : \E a \in 1 .. m + 1 : H[a][1] = L[j][1]
  <2> SUFFICES ASSUME NEW j \in 1 .. i
               PROVE  \E a \in 1 .. m + 1 : H[a][1] = L[j][1]
    OBVIOUS
  <2>1. CASE j = i
    <3>1. m + 1 \in 1 .. m + 1
      BY <1>2
    <3> QED BY <1>3, <2>1, <3>1 DEF x
  <2>2. CASE j \in 1 .. i - 1
    <3>1. PICK a \in 1 .. m : G[a][1] = L[j][1]
      BY <2>2 DEF Grouped
    <3>2. a \in 1 .. m + 1
      BY <1>2
    <3> QED BY <1>3, <3>1, <3>2
  <2> QED BY <1>5, <2>1, <2>2
<1>14. m + 1 > 0
  BY <1>2
<1> HIDE DEF m
<1>15. Grouped(H, i, L, direction)
  BY <1>3, <1>10, <1>11, <1>12, <1>13, <1>14 DEF Grouped, x
<1> QED BY <1>15 DEF H

\* A list without its last element.
LEMMA Fronts ==
  ASSUME NEW R, NEW G \in Seq(R), NEW k \in Nat, Len(G) = k + 1
  PROVE  /\ SubSeq(G, 1, k) \in Seq(R) /\ Len(SubSeq(G, 1, k)) = k
         /\ \A a \in 1 .. k : SubSeq(G, 1, k)[a] = G[a]
<1>1. \A a \in 1 .. k : a \in 1 .. k + 1 /\ G[a] \in R
  OBVIOUS
<1>2. SubSeq(G, 1, k) \in Seq(R)
  BY <1>1, SubSeqProperties
<1>3. Len(SubSeq(G, 1, k)) = k
  BY <1>1, SubSeqProperties
<1>4. \A a \in 1 .. k : SubSeq(G, 1, k)[a] = G[a]
  BY <1>1, SubSeqProperties
<1> QED BY <1>2, <1>3, <1>4

\* A newer row of the last group's document takes the place of that group's row.
LEMMA ReplaceGroups ==
  ASSUME NEW L, NEW direction, direction = "Forward", RowList(L, direction),
         NEW i \in 1 .. Len(L), NEW G, Grouped(G, i - 1, L, direction),
         G # <<>>, G[Len(G)][1] = L[i][1]
  PROVE  Grouped(Append(Front(G), L[i]), i, L, direction)
<1> DEFINE m == Len(G)
           H == Append(Front(G), L[i])
           x == L[i]
<1>1. /\ x \in Nat \X Nat /\ x[1] \in Nat /\ x[2] \in Nat
      /\ i \in Nat /\ i - 1 \in Nat /\ Len(L) \in Nat
      /\ \A j \in 1 .. i : j \in 1 .. Len(L)
      /\ \A j \in 1 .. Len(L) : L[j] \in Nat \X Nat /\ L[j][1] \in Nat /\ L[j][2] \in Nat
  BY DEF RowList
<1>2. /\ G \in Seq(Nat \X Nat) /\ m \in Nat /\ m # 0
      /\ \A a \in 1 .. m : G[a] \in Nat \X Nat /\ G[a][1] \in Nat /\ G[a][2] \in Nat
  <2>1. m # 0
    BY GroupType
  <2> QED BY <2>1, GroupType
<1>3. /\ H \in Seq(Nat \X Nat) /\ Len(H) = m /\ H[m] = x
      /\ \A a \in 1 .. m - 1 : H[a] = G[a] /\ a \in 1 .. m
  <2> DEFINE F == SubSeq(G, 1, m - 1)
             R == Nat \X Nat
  <2>1. G \in Seq(R) /\ x \in R
    BY <1>1, <1>2
  <2> HIDE DEF R, x
  <2>2. F \in Seq(R) /\ Len(F) = m - 1 /\ \A a \in 1 .. m - 1 : F[a] = G[a] /\ a \in 1 .. m
    <3>1. m - 1 \in Nat /\ Len(G) = (m - 1) + 1
      BY <1>2
    <3>2. \A a \in 1 .. m - 1 : a \in 1 .. m
      BY <1>2
    <3>3. /\ F \in Seq(R) /\ Len(F) = m - 1
          /\ \A a \in 1 .. m - 1 : F[a] = G[a]
      <4> HIDE DEF m
      <4> QED BY <2>1, <3>1, Fronts
    <3> QED BY <3>2, <3>3
  <2>3. H = Append(F, x)
    BY DEF Front, x
  <2> HIDE DEF F, H
  <2>4. H \in Seq(R) /\ Len(H) = (m - 1) + 1 /\ H[(m - 1) + 1] = x
        /\ \A a \in 1 .. m - 1 : H[a] = F[a]
    BY <1>2, <2>1, <2>2, <2>3
  <2>5. (m - 1) + 1 = m
    BY <1>2
  <2> QED BY <2>2, <2>4, <2>5 DEF R
<1>4. \A a \in 1 .. m : a = m \/ a \in 1 .. m - 1
  BY <1>2
<1>5. \A j \in 1 .. i : j = i \/ j \in 1 .. i - 1
  BY <1>1
<1>6. \A j \in 1 .. i - 1 : j \in 1 .. i /\ j < i
  BY <1>1
<1>7. m \in 1 .. m
  BY <1>2
<1>8. G[m][1] = x[1]
  OBVIOUS
<1> HIDE DEF H, x
<1>9. \A j \in 1 .. i - 1 : L[j][1] = x[1] => L[j][2] <= x[2]
  <2> SUFFICES ASSUME NEW j \in 1 .. i - 1, L[j][1] = x[1]
               PROVE  L[j][2] <= x[2]
    OBVIOUS
  <2>1. RowLess(L[j], L[i])
    BY <1>1, <1>6 DEF RowList, RowBefore
  <2>2. L[j][2] \in Nat
    BY <1>1, <1>6
  <2> QED BY <1>1, <2>1, <2>2 DEF RowLess, x
<1>10. \A a \in 1 .. m : \E j \in 1 .. i : H[a] = L[j]
  <2> SUFFICES ASSUME NEW a \in 1 .. m
               PROVE  \E j \in 1 .. i : H[a] = L[j]
    OBVIOUS
  <2>1. CASE a = m
    <3>1. i \in 1 .. i
      BY <1>1
    <3> QED BY <1>3, <2>1, <3>1 DEF x
  <2>2. CASE a \in 1 .. m - 1
    <3>1. PICK j \in 1 .. i - 1 : G[a] = L[j]
      BY <1>3, <2>2 DEF Grouped
    <3> QED BY <1>3, <1>6, <2>2, <3>1
  <2> QED BY <1>4, <2>1, <2>2
<1>11. \A a \in 1 .. m : H[a][1] = G[a][1]
  BY <1>3, <1>4, <1>8
<1>12. \A a, b \in 1 .. m : a < b => DocBefore(direction, H[a][1], H[b][1])
  BY <1>11 DEF Grouped
<1>13. \A a \in 1 .. m, j \in 1 .. i : L[j][1] = H[a][1] => L[j][2] <= H[a][2]
  <2> SUFFICES ASSUME NEW a \in 1 .. m, NEW j \in 1 .. i, L[j][1] = H[a][1]
               PROVE  L[j][2] <= H[a][2]
    OBVIOUS
  <2>1. CASE a = m
    <3>1. CASE j = i
      BY <1>1, <1>3, <2>1, <3>1 DEF x
    <3>2. CASE j \in 1 .. i - 1
      BY <1>3, <1>9, <2>1, <3>2
    <3> QED BY <1>5, <3>1, <3>2
  <2>2. CASE a \in 1 .. m - 1
    <3>1. H[a] = G[a] /\ G[a][1] \in Nat /\ a < m
      BY <1>2, <1>3, <2>2
    <3>2. G[a][1] < G[m][1]
      BY <1>7, <3>1 DEF Grouped, DocBefore
    <3>3. j # i
      BY <1>1, <1>8, <3>1, <3>2 DEF x
    <3>4. j \in 1 .. i - 1
      BY <1>5, <3>3
    <3> QED BY <3>1, <3>4 DEF Grouped
  <2> QED BY <1>4, <2>1, <2>2
<1>14. \A j \in 1 .. i : \E a \in 1 .. m : H[a][1] = L[j][1]
  <2> SUFFICES ASSUME NEW j \in 1 .. i
               PROVE  \E a \in 1 .. m : H[a][1] = L[j][1]
    OBVIOUS
  <2>1. CASE j = i
    BY <1>3, <1>7, <2>1 DEF x
  <2>2. CASE j \in 1 .. i - 1
    <3>1. PICK a \in 1 .. m : G[a][1] = L[j][1]
      BY <2>2 DEF Grouped
    <3> QED BY <1>11, <3>1
  <2> QED BY <1>5, <2>1, <2>2
<1>15. m > 0
  BY <1>2
<1> HIDE DEF m
<1>16. Grouped(H, i, L, direction)
  BY <1>3, <1>10, <1>12, <1>13, <1>14, <1>15 DEF Grouped, x
<1> QED BY <1>16 DEF H

\* An older row of the last group's document changes nothing.
LEMMA KeepGroups ==
  ASSUME NEW L, NEW direction, direction # "Forward", RowList(L, direction),
         NEW i \in 1 .. Len(L), NEW G, Grouped(G, i - 1, L, direction),
         G # <<>>, G[Len(G)][1] = L[i][1]
  PROVE  Grouped(G, i, L, direction)
<1> DEFINE m == Len(G)
           x == L[i]
<1>1. /\ x[1] \in Nat /\ x[2] \in Nat
      /\ i \in Nat /\ i - 1 \in Nat /\ Len(L) \in Nat
      /\ \A j \in 1 .. i : j \in 1 .. Len(L)
      /\ \A j \in 1 .. Len(L) : L[j] \in Nat \X Nat /\ L[j][1] \in Nat /\ L[j][2] \in Nat
  BY DEF RowList
<1>2. /\ G \in Seq(Nat \X Nat) /\ m \in Nat /\ m # 0 /\ m > 0
      /\ \A a \in 1 .. m : G[a] \in Nat \X Nat /\ G[a][1] \in Nat /\ G[a][2] \in Nat
  <2>1. m # 0
    BY GroupType
  <2>2. m \in Nat
    BY GroupType
  <2>3. m > 0
    BY <2>1, <2>2
  <2> QED BY <2>1, <2>3, GroupType
<1>3. \A j \in 1 .. i : j = i \/ j \in 1 .. i - 1
  BY <1>1
<1>4. \A j \in 1 .. i - 1 : j \in 1 .. i /\ j < i
  BY <1>1
<1>5. m \in 1 .. m /\ \A a \in 1 .. m : a = m \/ a < m
  BY <1>2
<1>6. G[m][1] = x[1]
  OBVIOUS
<1> HIDE DEF m, x
<1>7. x[2] <= G[m][2]
  <2>1. PICK j \in 1 .. i - 1 : G[m] = L[j]
    BY <1>5 DEF Grouped, m
  <2>2. RowLess(L[i], L[j])
    BY <1>1, <1>4, <2>1 DEF RowList, RowBefore
  <2>3. L[j][1] = x[1] /\ L[j][2] \in Nat
    BY <1>1, <1>4, <1>6, <2>1
  <2> QED BY <1>1, <2>1, <2>2, <2>3 DEF RowLess, x
<1>8. \A a \in 1 .. m : \E j \in 1 .. i : G[a] = L[j]
  BY <1>4 DEF Grouped, m
<1>9. \A a \in 1 .. m, j \in 1 .. i : L[j][1] = G[a][1] => L[j][2] <= G[a][2]
  <2> SUFFICES ASSUME NEW a \in 1 .. m, NEW j \in 1 .. i, L[j][1] = G[a][1]
               PROVE  L[j][2] <= G[a][2]
    OBVIOUS
  <2>1. CASE j = i
    <3>1. CASE a = m
      BY <1>7, <2>1, <3>1 DEF x
    <3>2. CASE a < m
      <4>1. DocBefore(direction, G[a][1], G[m][1])
        BY <1>5, <3>2 DEF Grouped, m
      <4> QED BY <1>1, <1>2, <1>6, <2>1, <4>1 DEF DocBefore, x
    <3> QED BY <1>5, <3>1, <3>2
  <2>2. CASE j \in 1 .. i - 1
    BY <2>2 DEF Grouped, m
  <2> QED BY <1>3, <2>1, <2>2
<1>10. \A j \in 1 .. i : \E a \in 1 .. m : G[a][1] = L[j][1]
  <2> SUFFICES ASSUME NEW j \in 1 .. i
               PROVE  \E a \in 1 .. m : G[a][1] = L[j][1]
    OBVIOUS
  <2>1. CASE j = i
    BY <1>5, <1>6, <2>1 DEF x
  <2>2. CASE j \in 1 .. i - 1
    BY <2>2 DEF Grouped, m
  <2> QED BY <1>3, <2>1, <2>2
<1>11. \A a, b \in 1 .. m : a < b => DocBefore(direction, G[a][1], G[b][1])
  BY DEF Grouped, m
<1> QED BY <1>2, <1>6, <1>8, <1>9, <1>10, <1>11 DEF Grouped, m, x

\* The next row of the scan is grouped with the rows before it.
LEMMA RegroupKeeps ==
  ASSUME NEW L, NEW direction, RowList(L, direction), NEW i \in 1 .. Len(L),
         NEW G, Grouped(G, i - 1, L, direction)
  PROVE  Grouped(Regroup(G, L[i], direction), i, L, direction)
<1>1. CASE G = <<>> \/ G[Len(G)][1] # L[i][1]
  <2>1. Grouped(Append(G, L[i]), i, L, direction)
    BY <1>1, AppendGroups
  <2>2. Regroup(G, L[i], direction) = Append(G, L[i])
    BY <1>1 DEF Regroup, Last
  <2> QED BY <2>1, <2>2
<1>2. CASE G # <<>> /\ G[Len(G)][1] = L[i][1] /\ direction = "Forward"
  <2>1. Grouped(Append(Front(G), L[i]), i, L, direction)
    BY <1>2, ReplaceGroups
  <2>2. Regroup(G, L[i], direction) = Append(Front(G), L[i])
    BY <1>2 DEF Regroup, Last
  <2> QED BY <2>1, <2>2
<1>3. CASE G # <<>> /\ G[Len(G)][1] = L[i][1] /\ direction # "Forward"
  <2>1. Grouped(G, i, L, direction)
    BY <1>3, KeepGroups
  <2>2. Regroup(G, L[i], direction) = G
    BY <1>3 DEF Regroup, Last
  <2> QED BY <2>1, <2>2
<1> QED BY <1>1, <1>2, <1>3

-----------------------------------------------------------------------------
(* Folding the scan *)

\* What StoredDocuments folds the scanned rows into, and what it shows of them.
Groups(L, direction) ==
  LET Step(groups, row) == Regroup(groups, row, direction)
  IN FoldLeft(Step, <<>>, L)

\* Of a list of rows, the entries of the live ones.
Lives(G) ==
  LET Live(shown, row) ==
        LET value == Decoded(history[row[1]][row[2]])
        IN IF value = Absent THEN shown
           ELSE Append(shown, [at |-> PlaceOf(row[1]), value |-> value])
  IN FoldLeft(Live, <<>>, G)

\* StoredDocuments is the one fold over the other.
LEMMA DocumentsAreLives ==
  ASSUME NEW direction, NEW start
  PROVE  StoredDocuments(direction, start) = Lives(Groups(ScannedRows(direction, start), direction))
BY DEF StoredDocuments, Lives, Groups

\* Regrouping makes a list of rows of a list of rows.
LEMMA RegroupType ==
  ASSUME NEW R, NEW G \in Seq(R), NEW row \in R, NEW direction
  PROVE  Regroup(G, row, direction) \in Seq(R)
<1>1. Append(G, row) \in Seq(R)
  OBVIOUS
<1>2. ASSUME G # <<>>
      PROVE  Append(Front(G), row) \in Seq(R)
  <2>1. Len(G) \in Nat /\ Len(G) # 0
    BY <1>2
  <2> DEFINE k == Len(G) - 1
  <2>2. k \in Nat /\ Len(G) = k + 1
    BY <2>1
  <2> HIDE DEF k
  <2>3. SubSeq(G, 1, k) \in Seq(R)
    BY <2>2, Fronts
  <2>4. Front(G) = SubSeq(G, 1, k)
    BY DEF Front, k
  <2> QED BY <2>3, <2>4
<1> QED BY <1>1, <1>2 DEF Regroup

\* The scan ends with the newest row of each document it met.
LEMMA GroupsAreNewest ==
  ASSUME NEW direction, NEW L \in Seq(Nat \X Nat), RowList(L, direction)
  PROVE  Grouped(Groups(L, direction), Len(L), L, direction)
<1> DEFINE n == Len(L)
           R == Nat \X Nat
           X == Seq(R)
           Keep(groups, row) == Regroup(groups, row, direction)
           D == SUBSET (1 .. n)
           Fold1(f, r) == IF r = {} THEN <<>> ELSE Keep(f[r \ {Max(r)}], L[Max(r)])
           fold == CHOOSE f : f = [r \in D |-> Fold1(f, r)]
           Step == [x \in X \X (1 .. n) |-> Keep(x[1], L[x[2]])]
<1>1. n \in Nat /\ DOMAIN L = 1 .. n /\ \A i \in 1 .. n : L[i] \in R
  <2> HIDE DEF R
  <2> QED BY DEF R
<1>2. Groups(L, direction) = fold[1 .. n]
  BY <1>1 DEF Groups, FoldLeft, MapThenFoldSet
<1>3. <<>> \in X
  OBVIOUS
<1>4. ASSUME NEW x \in X, NEW i \in 1 .. n
      PROVE  Keep(x, L[i]) \in X
  <2> HIDE DEF R
  <2> QED BY <1>1, RegroupType
<1>5. Step \in [X \X (1 .. n) -> X]
  <2> HIDE DEF X, n, Keep
  <2> QED BY <1>4
<1>6. \A r \in D : r # {} => Max(r) \in r
  BY <1>1, PlacesHaveEnds
<1>7. \E f \in [D -> X] : f = [r \in D |-> Fold1(f, r)]
  <2>1. PICK f \in [D -> X] : Folded(f, n, <<>>, Step)
    <3> HIDE DEF Step, n, X
    <3> QED BY <1>1, <1>3, <1>5, LeftFoldExists
  <2>2. ASSUME NEW r \in D
        PROVE  f[r] = Fold1(f, r)
    <3> HIDE DEF X, n, Keep
    <3>1. r # {} => r \ {Max(r)} \in D /\ f[r \ {Max(r)}] \in X /\ Max(r) \in 1 .. n
      BY <1>6, <2>1
    <3>2. f[r] = IF r = {} THEN <<>> ELSE Step[<<f[r \ {Max(r)}], Max(r)>>]
      BY <2>1 DEF Folded
    <3> QED BY <3>1, <3>2 DEF Step
  <2> HIDE DEF Fold1, X, D
  <2> QED BY <2>1, <2>2
<1>8. fold = [r \in D |-> Fold1(fold, r)]
  BY <1>7
<1> HIDE DEF fold
<1>9. Folds(fold, n, X, <<>>, Step)
  <2>1. fold[{}] = <<>>
    BY <1>8
  <2>2. ASSUME NEW r \in SUBSET (1 .. n), r # {}, fold[r \ {Max(r)}] \in X
        PROVE  fold[r] = Step[<<fold[r \ {Max(r)}], Max(r)>>]
    <3>1. fold[r] = Keep(fold[r \ {Max(r)}], L[Max(r)])
      BY <1>8, <2>2
    <3>2. Max(r) \in 1 .. n
      BY <1>6, <2>2
    <3> HIDE DEF X, n, Keep
    <3> QED BY <2>2, <3>1, <3>2
  <2> HIDE DEF Step, X, n
  <2> QED BY <2>1, <2>2 DEF Folds
<1>10. PICK w \in [0 .. n -> X] : IsWalk(w, n, <<>>, Step) /\ w[n] = fold[1 .. n]
  <2>1. n \in Nat
    BY <1>1
  <2> HIDE DEF Step, X, n, D, Keep
  <2>2. EndsWalk(fold, n, X, <<>>, Step)
    BY <1>3, <1>5, <1>9, <2>1, FoldIsWalk
  <2> QED BY <2>2 DEF EndsWalk
<1> DEFINE S == {i \in 0 .. n : Grouped(w[i], i, L, direction)}
<1>11. 0 \in S
  <2>1. w[0] = <<>> /\ 0 \in 0 .. n
    BY <1>1, <1>10 DEF IsWalk
  <2>2. Grouped(<<>>, 0, L, direction)
    BY DEF Grouped
  <2> QED BY <2>1, <2>2
<1>12. ASSUME NEW i \in 1 .. n, i - 1 \in S
       PROVE  i \in S
  <2>1. i - 1 \in 0 .. n /\ i \in 0 .. n
    BY <1>1
  <2>2. w[i - 1] \in X
    <3> HIDE DEF X, n, S
    <3> QED BY <1>10, <2>1
  <2>3. w[i] = Step[<<w[i - 1], i>>]
    BY <1>10 DEF IsWalk
  <2>4. w[i] = Regroup(w[i - 1], L[i], direction)
    <3>1. w[i] = Keep(w[i - 1], L[i])
      <4> HIDE DEF X, n, Keep, S
      <4> QED BY <2>2, <2>3
    <3> QED BY <3>1
  <2>5. Grouped(w[i - 1], i - 1, L, direction)
    BY <1>12
  <2>6. Grouped(w[i], i, L, direction)
    BY <2>4, <2>5, RegroupKeeps
  <2> QED BY <2>1, <2>6
<1>13. \A i \in 0 .. n : i \in S
  <2> HIDE DEF S, n
  <2> QED BY <1>1, <1>11, <1>12, UpTo
<1>14. n \in 0 .. n
  BY <1>1
<1> QED BY <1>2, <1>10, <1>13, <1>14

\* Of each row the value it shows, if any.
RowShows(G) ==
  [i \in 1 .. Len(G) |-> [at |-> PlaceOf(G[i][1]), value |-> Decoded(history[G[i][1]][G[i][2]])]]

\* The live rows are shown, in the order of the list.
LEMMA LivesAreChosen ==
  ASSUME NEW R, NEW G \in Seq(R), NEW f, f = RowShows(G),
         NEW K, K = {i \in 1 .. Len(G) : f[i].value # Absent}
  PROVE  /\ Lives(G) \in Seq({f[i] : i \in 1 .. Len(G)})
         /\ \E g : Chosen(g, K, f, Lives(G))
<1> DEFINE n == Len(G)
           Y == {f[i] : i \in 1 .. n}
           X == Seq(Y)
           Val(row) == Decoded(history[row[1]][row[2]])
           Keep(shown, row) ==
             IF Val(row) = Absent THEN shown
             ELSE Append(shown, [at |-> PlaceOf(row[1]), value |-> Val(row)])
           D == SUBSET (1 .. n)
           Fold1(h, r) == IF r = {} THEN <<>> ELSE Keep(h[r \ {Max(r)}], G[Max(r)])
           fold == CHOOSE h : h = [r \in D |-> Fold1(h, r)]
           Step == [x \in X \X (1 .. n) |-> Keep(x[1], G[x[2]])]
<1>1. n \in Nat /\ DOMAIN G = 1 .. n
  OBVIOUS
<1>2. \A i \in 1 .. n : f[i] = [at |-> PlaceOf(G[i][1]), value |-> Val(G[i])]
  BY DEF RowShows
<1>3. Lives(G) = fold[1 .. n]
  BY <1>1 DEF Lives, FoldLeft, MapThenFoldSet
<1>4. <<>> \in X
  OBVIOUS
<1>5. ASSUME NEW x \in X, NEW i \in 1 .. n
      PROVE  Keep(x, G[i]) = IF i \in K THEN Append(x, f[i]) ELSE x
  BY <1>2
<1>6. ASSUME NEW x \in X, NEW i \in 1 .. n
      PROVE  Keep(x, G[i]) \in X
  <2>1. f[i] \in Y
    OBVIOUS
  <2>2. Append(x, f[i]) \in X
    <3> HIDE DEF Y
    <3> QED BY <2>1
  <2> HIDE DEF X, Keep
  <2> QED BY <1>5, <2>2
<1>7. Step \in [X \X (1 .. n) -> X]
  <2> HIDE DEF X, n, Keep
  <2> QED BY <1>6
<1>8. \A r \in D : r # {} => Max(r) \in r
  BY <1>1, PlacesHaveEnds
<1>9. \E h \in [D -> X] : h = [r \in D |-> Fold1(h, r)]
  <2>1. PICK h \in [D -> X] : Folded(h, n, <<>>, Step)
    <3> HIDE DEF Step, n, X
    <3> QED BY <1>1, <1>4, <1>7, LeftFoldExists
  <2>2. ASSUME NEW r \in D
        PROVE  h[r] = Fold1(h, r)
    <3> HIDE DEF X, n, Keep
    <3>1. r # {} => r \ {Max(r)} \in D /\ h[r \ {Max(r)}] \in X /\ Max(r) \in 1 .. n
      BY <1>8, <2>1
    <3>2. h[r] = IF r = {} THEN <<>> ELSE Step[<<h[r \ {Max(r)}], Max(r)>>]
      BY <2>1 DEF Folded
    <3> QED BY <3>1, <3>2 DEF Step
  <2> HIDE DEF Fold1, X, D
  <2> QED BY <2>1, <2>2
<1>10. fold = [r \in D |-> Fold1(fold, r)]
  BY <1>9
<1> HIDE DEF fold
<1>11. Folds(fold, n, X, <<>>, Step)
  <2>1. fold[{}] = <<>>
    BY <1>10
  <2>2. ASSUME NEW r \in SUBSET (1 .. n), r # {}, fold[r \ {Max(r)}] \in X
        PROVE  fold[r] = Step[<<fold[r \ {Max(r)}], Max(r)>>]
    <3>1. fold[r] = Keep(fold[r \ {Max(r)}], G[Max(r)])
      BY <1>10, <2>2
    <3>2. Max(r) \in 1 .. n
      BY <1>8, <2>2
    <3> HIDE DEF X, n, Keep
    <3> QED BY <2>2, <3>1, <3>2
  <2> HIDE DEF Step, X, n
  <2> QED BY <2>1, <2>2 DEF Folds
<1>12. PICK w \in [0 .. n -> X] : IsWalk(w, n, <<>>, Step) /\ w[n] = fold[1 .. n]
  <2>1. n \in Nat
    BY <1>1
  <2> HIDE DEF Step, X, n, D, Y, Keep
  <2>2. EndsWalk(fold, n, X, <<>>, Step)
    BY <1>4, <1>7, <1>11, <2>1, FoldIsWalk
  <2> QED BY <2>2 DEF EndsWalk
<1>13. Passes(w, n, K, f)
  <2>1. w[0] = <<>>
    BY <1>12 DEF IsWalk
  <2>2. ASSUME NEW i \in 1 .. n
        PROVE  w[i] = IF i \in K THEN Append(w[i - 1], f[i]) ELSE w[i - 1]
    <3>1. i - 1 \in 0 .. n
      BY <1>1
    <3>2. w[i - 1] \in X
      <4> HIDE DEF X, n
      <4> QED BY <1>12, <3>1
    <3>3. w[i] = Step[<<w[i - 1], i>>]
      BY <1>12 DEF IsWalk
    <3>4. w[i] = Keep(w[i - 1], G[i])
      <4> HIDE DEF X, n, Keep
      <4> QED BY <3>2, <3>3
    <3> HIDE DEF X, n, Keep
    <3> QED BY <1>5, <3>2, <3>4
  <2> QED BY <2>1, <2>2 DEF Passes
<1>14. K \in SUBSET (1 .. n) /\ \A i \in K : f[i] \in Y
  OBVIOUS
<1>15. w \in [0 .. n -> Seq(Y)]
  BY <1>12
<1>16. w[n] \in Seq(Y)
  <2> HIDE DEF Y, n
  <2> QED BY <1>1, <1>15
<1>17. \E g : Chosen(g, K, f, w[n])
  <2> HIDE DEF n, Y
  <2> QED BY <1>1, <1>13, <1>14, <1>15, FilterWalk
<1> QED BY <1>3, <1>12, <1>16, <1>17

-----------------------------------------------------------------------------
(* The documents of the snapshot *)

\* Places are ordered as their documents are.
LEMMA PlacesInOrder ==
  ASSUME NEW d \in Nat, NEW e \in Nat, NEW direction
  PROVE  /\ PlaceOf(d) \in Spot /\ PlaceOf(d)[2] = d
         /\ Before(direction, PlaceOf(d), PlaceOf(e)) <=> DocBefore(direction, d, e)
         /\ PlaceOf(d) = PlaceOf(e) <=> d = e
<1>1. ~Less(<<>>, <<>>)
  BY DEF Less
<1>2. PlaceOf(d) = << <<>>, d >> /\ PlaceOf(e) = << <<>>, e >>
  BY DEF PlaceOf
<1>3. <<>> \in Seq(Nat)
  OBVIOUS
<1> DEFINE o == <<>>
<1>4. o \in Seq(Nat) /\ ~Less(o, o)
  BY <1>1, <1>3
<1>5. PlaceOf(d) = <<o, d>> /\ PlaceOf(e) = <<o, e>> /\ ~Less(o, o)
  BY <1>1, <1>2
<1> HIDE DEF o
<1>8. PlaceOf(d) \in Spot
  BY <1>4, <1>5 DEF Spot
<1>6. PositionLess(PlaceOf(d), PlaceOf(e)) <=> d < e
  BY <1>5 DEF PositionLess
<1>7. PositionLess(PlaceOf(e), PlaceOf(d)) <=> e < d
  BY <1>5 DEF PositionLess
<1> QED BY <1>5, <1>6, <1>7, <1>8 DEF Before, DocBefore

\* A start among the places of documents names one.
LEMMA StartPlaces ==
  ASSUME NEW start \in StartAt(Place)
  PROVE  \/ start.kind = "Unbounded"
         \/ /\ start.kind \in {"Included", "Excluded"}
            /\ \E e \in Document : start.at = PlaceOf(e) /\ e = start.at[2]
<1>1. \A p \in Place : \E e \in Document : p = PlaceOf(e) /\ e = p[2]
  BY DEF Place, PlaceOf
<1> QED BY <1>1 DEF StartAt

\* document_cursor_bounds: the scan meets all versions of a document the start accepts,
\* and none of another.
LEMMA ScanAccepts ==
  ASSUME NEW d \in Document, NEW v \in Version, NEW direction \in Direction,
         NEW start \in StartAt(Place)
  PROVE  InScan(<<d, v>>, direction, start) <=> Accepts(direction, start, PlaceOf(d))
<1>1. d \in Nat /\ v \in Nat /\ v < MaxTs + 1 /\ MaxTs + 1 \in Nat
  BY StoreAssumption, MaxTsAssumption DEF Version
<1>2. CASE start.kind = "Unbounded"
  BY <1>2 DEF InScan, Accepts
<1>3. ASSUME NEW e \in Document, start.at = PlaceOf(e), e = start.at[2],
             start.kind \in {"Included", "Excluded"}
      PROVE  InScan(<<d, v>>, direction, start) <=> Accepts(direction, start, PlaceOf(d))
  <2>1. e \in Nat
    BY StoreAssumption
  <2>2. Accepts(direction, start, PlaceOf(d)) <=>
          DocBefore(direction, e, d) \/ (start.kind = "Included" /\ d = e)
    BY <1>1, <1>3, <2>1, PlacesInOrder DEF Accepts
  <2>3. /\ RowLess(<<d, v>>, <<e, 0>>) <=> d < e
        /\ RowLess(<<e, 0>>, <<d, v>>) <=> e < d \/ (e = d /\ 0 < v)
        /\ RowLess(<<e, MaxTs + 1>>, <<d, v>>) <=> e < d
        /\ RowLess(<<d, v>>, <<e, MaxTs + 1>>) <=> d < e \/ d = e
    BY <1>1, <2>1 DEF RowLess
  <2>4. /\ <<d, v>> = <<e, 0>> <=> d = e /\ v = 0
        /\ <<d, v>> # <<e, MaxTs + 1>>
    BY <1>1, <2>1
  <2>5. v = 0 \/ 0 < v
    BY <1>1
  <2>6. CASE direction = "Forward" /\ start.kind = "Included"
    <3>1. ScanEdge(direction, start) = <<e, 0>>
      BY <1>3, <2>6 DEF ScanEdge
    <3> QED BY <2>2, <2>3, <2>4, <2>5, <2>6, <3>1 DEF InScan, DocBefore
  <2>7. CASE direction = "Forward" /\ start.kind = "Excluded"
    <3>1. ScanEdge(direction, start) = <<e, MaxTs + 1>>
      BY <1>3, <2>7 DEF ScanEdge
    <3> QED BY <2>2, <2>3, <2>4, <2>5, <2>7, <3>1 DEF InScan, DocBefore
  <2>8. CASE direction = "Reverse" /\ start.kind = "Included"
    <3>1. ScanEdge(direction, start) = <<e, MaxTs + 1>>
      BY <1>3, <2>8 DEF ScanEdge
    <3> QED BY <2>2, <2>3, <2>4, <2>5, <2>8, <3>1 DEF InScan, DocBefore
  <2>9. CASE direction = "Reverse" /\ start.kind = "Excluded"
    <3>1. ScanEdge(direction, start) = <<e, 0>>
      BY <1>3, <2>9 DEF ScanEdge
    <3> QED BY <2>2, <2>3, <2>4, <2>5, <2>9, <3>1 DEF InScan, DocBefore
  <2> QED BY <1>3, <2>6, <2>7, <2>8, <2>9 DEF Direction
<1> QED BY <1>2, <1>3, StartPlaces

\* What a scan reads.
Scanned(direction, start) == {row \in Rows : InScan(row, direction, start) /\ row[2] <= ts}

\* It is finite, and lists the versions seen of the documents the start accepts.
LEMMA ScanIsFinite ==
  ASSUME ReadInv, history \in Histories, NEW direction, NEW start
  PROVE  IsFiniteSet(Scanned(direction, start)) /\ Scanned(direction, start) \in SUBSET (Nat \X Nat)
<1> DEFINE D == {d \in Document : \E v \in Version : history[d][v] # Absent}
<1>1. IsFiniteSet(D)
  BY FiniteAssumption
<1>2. IsFiniteSet(Version)
  <2>1. 0 \in Int /\ MaxTs \in Int
    BY MaxTsAssumption
  <2> QED BY <2>1, FS_Interval DEF Version
<1>3. IsFiniteSet(D \X Version)
  <2> HIDE DEF D
  <2> QED BY <1>1, <1>2, FS_Product
<1>4. Scanned(direction, start) \subseteq D \X Version
  <2> SUFFICES ASSUME NEW row \in Scanned(direction, start)
               PROVE  row \in D \X Version
    OBVIOUS
  <2>1. row \in Document \X Version /\ history[row[1]][row[2]] # Absent
    <3> HIDE DEF D
    <3> QED BY DEF Scanned, Rows
  <2>2. row = <<row[1], row[2]>> /\ row[1] \in Document /\ row[2] \in Version
    BY <2>1
  <2> QED BY <2>1, <2>2
<1>5. D \X Version \subseteq Nat \X Nat
  <2>1. Document \subseteq Nat
    BY StoreAssumption
  <2>2. D \subseteq Nat
    BY <2>1
  <2>3. Version \subseteq Nat
    BY MaxTsAssumption DEF Version
  <2> HIDE DEF D
  <2> QED BY <2>2, <2>3
<1> HIDE DEF D
<1> QED BY <1>3, <1>4, <1>5, FS_Subset

\* A scan meets the versions seen of the documents the start accepts, and no others.
LEMMA ScanMeets ==
  ASSUME ReadInv, NEW direction \in Direction, NEW start \in StartAt(Place),
         NEW d \in Document, NEW v \in Nat
  PROVE  <<d, v>> \in Scanned(direction, start) <=>
           v \in VersionsSeen(d) /\ Accepts(direction, start, PlaceOf(d))
<1>1. ts \in Nat /\ ts < MaxTs /\ MaxTs \in Nat
  BY MaxTsAssumption DEF ReadInv
<1>2. \A w \in Nat : w <= ts => w \in Version /\ w \in 0 .. ts
  BY <1>1 DEF Version
<1>3. \A w \in 0 .. ts : w <= ts /\ w \in Version
  BY <1>1 DEF Version
<1> QED BY <1>2, <1>3, ScanAccepts DEF Scanned, Rows, VersionsSeen

\* The newest row the scan meets of a document is the one stored_document finds.
LEMMA GroupShows ==
  ASSUME ReadInv, NEW direction \in Direction, NEW start \in StartAt(Place),
         NEW L, Lists(L, Scanned(direction, start), RowPairs(Scanned(direction, start), direction)),
         NEW G, Grouped(G, Len(L), L, direction), NEW k \in 1 .. Len(G)
  PROVE  /\ G[k][1] \in Document /\ Accepts(direction, start, PlaceOf(G[k][1]))
         /\ Decoded(history[G[k][1]][G[k][2]]) = StoredDocument(G[k][1])
<1> DEFINE d == G[k][1]
           m == G[k][2]
           n == Len(L)
<1>1. PICK j \in 1 .. n : G[k] = L[j]
  BY DEF Grouped
<1>2. n \in Nat /\ L[j] \in Scanned(direction, start)
  BY DEF Lists
<1>3. G[k] \in Document \X Version
  BY <1>1, <1>2 DEF Scanned, Rows
<1>4. d \in Document /\ m \in Version /\ G[k] = <<d, m>>
  BY <1>3
<1> HIDE DEF d, m
<1>5. m \in Nat /\ d \in Nat /\ ts \in Nat
  <2>1. m \in Nat
    BY <1>4, MaxTsAssumption DEF Version
  <2>2. d \in Nat
    BY <1>4, StoreAssumption
  <2> QED BY <2>1, <2>2 DEF ReadInv
<1>6. m \in VersionsSeen(d) /\ Accepts(direction, start, PlaceOf(d))
  <2>1. <<d, m>> \in Scanned(direction, start)
    BY <1>1, <1>2, <1>4
  <2> QED BY <1>4, <1>5, <2>1, ScanMeets
<1>7. ASSUME NEW v \in VersionsSeen(d)
      PROVE  v <= m
  <2>1. v \in Nat
    <3>1. v \in 0 .. ts
      BY DEF VersionsSeen
    <3> QED BY <1>5, <3>1
  <2>2. <<d, v>> \in Scanned(direction, start)
    BY <1>4, <1>6, <2>1, ScanMeets
  <2>3. PICK i \in 1 .. n : L[i] = <<d, v>>
    BY <2>2 DEF Lists
  <2>4. L[i][1] = d /\ L[i][2] = v
    BY <2>3
  <2> QED BY <2>4 DEF Grouped, d, m
<1>8. Max(VersionsSeen(d)) = m
  <2>1. VersionsSeen(d) \in SUBSET (0 .. ts) /\ VersionsSeen(d) # {}
    BY <1>6 DEF VersionsSeen
  <2>2. /\ Max(VersionsSeen(d)) \in VersionsSeen(d)
        /\ \A v \in VersionsSeen(d) : v <= Max(VersionsSeen(d))
    BY <1>5, <2>1, NewestExists
  <2>3. Max(VersionsSeen(d)) \in Nat
    BY <1>5, <2>1, <2>2
  <2> DEFINE x == Max(VersionsSeen(d))
  <2> HIDE DEF x
  <2>4. x \in Nat /\ x <= m /\ m <= x
    BY <1>6, <1>7, <2>2, <2>3 DEF x
  <2>5. x = m
    BY <1>5, <2>4
  <2> QED BY <2>5 DEF x
<1>9. StoredDocument(d) = Decoded(history[d][m])
  BY <1>4, <1>6, <1>8, StoredIsNewest
<1> QED BY <1>4, <1>6, <1>9 DEF d, m

\* HeedDocumentCursor streams the stored documents from the start.
LEMMA StoredStreams ==
  ASSUME ReadInv, history \in Histories, NEW direction \in Direction,
         NEW start \in StartAt(Place),
         NEW P, P = {p \in Place : /\ Accepts(direction, start, p)
                                   /\ StoredDocument(p[2]) # Absent},
         NEW val, val = [d \in Document |-> StoredDocument(d)]
  PROVE  Streams(StoredDocuments(direction, start), P, val, direction)
<1> DEFINE T == Scanned(direction, start)
           L == ScannedRows(direction, start)
           G == Groups(L, direction)
           f == RowShows(G)
           n == Len(G)
           K == {i \in 1 .. n : f[i].value # Absent}
           s == Lives(G)
           R == Nat \X Nat
<1>1. IsFiniteSet(T) /\ T \in SUBSET R
  BY ScanIsFinite
<1>2. L = Directed(direction, T, RowLess)
  BY DEF ScannedRows, Scanned
<1>3. Lists(L, T, RowPairs(T, direction))
  <2> HIDE DEF T, L
  <2> QED BY <1>1, <1>2, DirectedRows
<1>4. L \in Seq(R) /\ RowList(L, direction)
  <2> HIDE DEF L, T
  <2>1. L \in Seq(T) /\ Len(L) \in Nat /\ \A i \in 1 .. Len(L) : L[i] \in T
    BY <1>3 DEF Lists
  <2>2. \A i \in 1 .. Len(L) : L[i] \in R
    BY <1>1, <2>1
  <2>3. L \in Seq(R)
    <3> HIDE DEF R
    <3> QED BY <2>1, <2>2
  <2>4. \A i, j \in 1 .. Len(L) : i < j => RowBefore(direction, L[i], L[j])
    <3> SUFFICES ASSUME NEW i \in 1 .. Len(L), NEW j \in 1 .. Len(L), i < j
                 PROVE  RowBefore(direction, L[i], L[j])
      OBVIOUS
    <3>1. <<L[i], L[j]>> \in RowPairs(T, direction)
      BY <1>3 DEF Lists
    <3> QED BY <3>1 DEF RowPairs
  <2> QED BY <2>1, <2>2, <2>3, <2>4 DEF RowList
<1> HIDE DEF L
<1>5. Grouped(G, Len(L), L, direction)
  BY <1>4, GroupsAreNewest
<1> HIDE DEF G
<1>6. G \in Seq(R) /\ n \in Nat /\ \A a \in 1 .. n : G[a][1] \in Nat
  BY <1>5, GroupType
<1>7. \A k \in 1 .. n : /\ G[k][1] \in Document /\ Accepts(direction, start, PlaceOf(G[k][1]))
                        /\ Decoded(history[G[k][1]][G[k][2]]) = StoredDocument(G[k][1])
  BY <1>3, <1>5, GroupShows
<1>8. \A k \in 1 .. n : /\ f[k] = [at |-> PlaceOf(G[k][1]), value |-> val[G[k][1]]]
                        /\ f[k].at = PlaceOf(G[k][1]) /\ f[k].value = StoredDocument(G[k][1])
  BY <1>7 DEF RowShows
<1> HIDE DEF f
<1>9. s \in Seq({f[i] : i \in 1 .. n}) /\ \E g : Chosen(g, K, f, s)
  <2> HIDE DEF R
  <2> QED BY <1>6, LivesAreChosen DEF f
<1>10. PICK g : Chosen(g, K, f, s)
  BY <1>9
<1>11. \A k \in K : f[k] \in Shows(P, val)
  <2> SUFFICES ASSUME NEW k \in K
               PROVE  f[k] \in Shows(P, val)
    OBVIOUS
  <2>0. k \in 1 .. n /\ f[k].value # Absent
    OBVIOUS
  <2> HIDE DEF K
  <2>1. StoredDocument(G[k][1]) # Absent
    BY <1>8, <2>0
  <2>2. PlaceOf(G[k][1]) \in Place /\ PlaceOf(G[k][1])[2] = G[k][1]
    BY <1>7, <2>0 DEF Place, PlaceOf
  <2>3. PlaceOf(G[k][1]) \in P
    BY <1>7, <2>0, <2>1, <2>2
  <2>4. f[k] = [at |-> PlaceOf(G[k][1]), value |-> val[PlaceOf(G[k][1])[2]]]
    BY <1>8, <2>0, <2>2
  <2> QED BY <2>3, <2>4 DEF Shows
<1>12. \A k, l \in K : k < l => Before(direction, f[k].at, f[l].at)
  <2> SUFFICES ASSUME NEW k \in K, NEW l \in K, k < l
               PROVE  Before(direction, f[k].at, f[l].at)
    OBVIOUS
  <2>1. DocBefore(direction, G[k][1], G[l][1])
    BY <1>5 DEF Grouped
  <2>2. G[k][1] \in Nat /\ G[l][1] \in Nat
    BY <1>6
  <2>3. f[k].at = PlaceOf(G[k][1]) /\ f[l].at = PlaceOf(G[l][1])
    BY <1>8
  <2> QED BY <2>1, <2>2, <2>3, PlacesInOrder
<1>13. \A p \in P : \E k \in K : f[k].at = p
  <2> SUFFICES ASSUME NEW p \in P
               PROVE  \E k \in K : f[k].at = p
    OBVIOUS
  <2>1. PICK d \in Document : p = PlaceOf(d)
    BY DEF Place
  <2>2. p[2] = d /\ Accepts(direction, start, PlaceOf(d)) /\ StoredDocument(d) # Absent
    BY <2>1 DEF PlaceOf
  <2>3. PICK v \in VersionsSeen(d) : TRUE
    BY <2>2, StoredIsNewest
  <2>4. v \in Nat
    <3>1. v \in 0 .. ts /\ ts \in Nat
      BY DEF VersionsSeen, ReadInv
    <3> QED BY <3>1
  <2>5. <<d, v>> \in T
    BY <2>2, <2>4, ScanMeets
  <2>6. PICK j \in 1 .. Len(L) : L[j] = <<d, v>>
    BY <1>3, <2>5 DEF Lists
  <2>7. L[j][1] = d
    BY <2>6
  <2>8. PICK a \in 1 .. n : G[a][1] = d
    BY <1>5, <2>7 DEF Grouped
  <2>9. f[a].at = p /\ f[a].value # Absent
    BY <1>8, <2>1, <2>2, <2>8
  <2> QED BY <2>9
<1>14. Streams(s, P, val, direction)
  <2> DEFINE Y == {f[i] : i \in 1 .. n}
  <2>1. s \in Seq(Y) /\ K \in SUBSET (1 .. n)
    BY <1>9
  <2> HIDE DEF Y, K, n, s
  <2> QED BY <1>6, <1>10, <1>11, <1>12, <1>13, <2>1, ChosenStreams
<1>15. StoredDocuments(direction, start) = s
  BY DocumentsAreLives DEF G, L
<1> QED BY <1>14, <1>15

-----------------------------------------------------------------------------
(* What a cursor is opened on *)

\* Accepts is what CursorStart promises.
LEMMA AcceptsIsFromStart ==
  ASSUME NEW A \in SUBSET Spot, NEW start \in StartAt(A), NEW p \in Spot, NEW direction
  PROVE  Accepts(direction, start, p) <=> FromStart(direction, start, p)
<1>1. CASE start.kind = "Unbounded"
  BY <1>1 DEF Accepts, FromStart
<1>2. CASE start.kind # "Unbounded"
  <2>1. start.at \in Spot
    BY <1>2 DEF StartAt
  <2> DEFINE q == start.at
  <2> HIDE DEF q
  <2>2. q \in Seq(Nat) \X Nat /\ p \in Seq(Nat) \X Nat
    BY <2>1 DEF q, Spot
  <2>3. /\ ~Before(direction, p, p)
        /\ Before(direction, p, q) /\ Before(direction, q, p) => Before(direction, p, p)
        /\ p # q => Before(direction, p, q) \/ Before(direction, q, p)
    BY <2>2, BeforeIsOrder
  <2> QED BY <1>2, <2>3 DEF Accepts, FromStart, q
<1> QED BY <1>1, <1>2

\* A stream shows finitely many positions.
LEMMA StreamIsFinite ==
  ASSUME NEW P, NEW val, NEW direction, NEW s, Streams(s, P, val, direction)
  PROVE  IsFiniteSet(P)
<1> DEFINE n == Len(s)
           I == {i \in 1 .. n : s[i].at \in P}
           f == [i \in 1 .. n |-> s[i].at]
<1>1. n \in Nat /\ \A i \in 1 .. n : s[i].at \in P
  BY StreamType
<1>2. IsFiniteSet(1 .. n)
  <2>1. 1 \in Int /\ n \in Int
    BY <1>1
  <2> QED BY <2>1, FS_Interval
<1>3. f \in Surjection(1 .. n, P)
  <2>1. f \in [1 .. n -> P]
    BY <1>1
  <2>2. \A p \in P : \E i \in 1 .. n : f[i] = p
    BY DEF Streams
  <2> HIDE DEF f
  <2> QED BY <2>1, <2>2 DEF Surjection
<1> HIDE DEF f, n
<1> QED BY <1>2, <1>3, FS_Surjection

\* What a cursor is to return: Expected, of what the cursor was opened with.
Found(kind, direction, start) ==
  {p \in IF kind = "Documents" THEN Place ELSE CommittedEntries :
     Committed[p[2]] # Absent /\ FromStart(direction, start, p)}

\* The entries at those positions, in order.
Promised(kind, direction, start) ==
  LET ordered == Directed(direction, Found(kind, direction, start), PositionLess)
  IN [i \in DOMAIN ordered |-> [at |-> ordered[i], value |-> Committed[ordered[i][2]]]]

\* Expected is promised when the cursor opens.
LEMMA ExpectedIsPromised == Expected = Promised(cursor.kind, cursor.direction, cursor.start)
BY DEF Expected, Promised, Found

\* What is stored and written is finite.
StoreInv ==
  /\ ReadInv
  /\ history \in Histories
  /\ entries \in EntrySets
  /\ indexWrites \in [Position -> {"None", "Put", "Deleted"}]
  /\ IsFiniteSet(TouchedDocuments)
  /\ IsFiniteSet(TouchedPositions)

\* Positions of documents and of entries.
LEMMA PositionsAreSpots ==
  /\ Place \in SUBSET Spot /\ \A p \in Place : p[2] \in Document
  /\ Position \in SUBSET Spot /\ \A p \in Position : p[2] \in Document
<1>1. \A d \in Document : d \in Nat
  BY StoreAssumption
<1>2. \A p \in Place : \E d \in Document : p = PlaceOf(d)
  BY DEF Place
<1>3. \A d \in Document : PlaceOf(d) \in Spot /\ PlaceOf(d)[2] = d
  BY <1>1, PlacesInOrder
<1>4. \A p \in Place : p \in Spot /\ p[2] \in Document
  BY <1>2, <1>3
<1>5. \A p \in Position : p[1] \in Key /\ p[2] \in Document /\ p = <<p[1], p[2]>>
  BY DEF Position
<1>6. Key \subseteq Seq(Nat)
  BY StoreAssumption
<1>7. \A p \in Position : p \in Spot
  <2> DEFINE R == Seq(Nat)
  <2>1. Key \subseteq R
    BY <1>6
  <2>2. Spot = R \X Nat
    BY DEF Spot
  <2> HIDE DEF R
  <2> QED BY <1>1, <1>5, <2>1, <2>2
<1> QED BY <1>4, <1>5, <1>7

\* A cursor that opens on streams of the positions to be found merges what is promised.
LEMMA CursorOpens ==
  ASSUME NEW kind, NEW direction, NEW start,
         NEW P \in SUBSET Spot, NEW Q \in SUBSET Spot, P \cap Q = {},
         P \cup Q = Found(kind, direction, start),
         NEW base, Streams(base, P, Committed, direction),
         NEW overlay, Streams(overlay, Q, Committed, direction)
  PROVE  /\ Merging(Opened(kind, direction, start, base, overlay),
                    Promised(kind, direction, start))
         /\ Streams(Promised(kind, direction, start), P \cup Q, Committed, direction)
<1> DEFINE F == P \cup Q
           L == Directed(direction, F, PositionLess)
           u == Promised(kind, direction, start)
<1>1. IsFiniteSet(F)
  <2>1. IsFiniteSet(P) /\ IsFiniteSet(Q)
    BY StreamIsFinite
  <2> QED BY <2>1, FS_Union
<1>2. u = [i \in DOMAIN L |-> [at |-> L[i], value |-> Committed[L[i][2]]]]
  BY DEF Promised
<1>3. F \in SUBSET Spot
  OBVIOUS
<1>4. Streams(u, F, Committed, direction)
  <2> HIDE DEF u, F
  <2> QED BY <1>1, <1>2, <1>3, ListStream
<1> HIDE DEF u
<1>5. Merging(Opened(kind, direction, start, base, overlay), u)
  BY <1>4, MergeOpens
<1> QED BY <1>4, <1>5 DEF u

\* get_cursor merges the documents there will be.
LEMMA DocumentsOpen ==
  ASSUME StoreInv, NEW direction \in Direction, NEW start \in StartAt(Place)
  PROVE  /\ Merging(DocumentCursor(direction, start), Promised("Documents", direction, start))
         /\ \E F : Streams(Promised("Documents", direction, start), F, Committed, direction)
<1> DEFINE T == TouchedDocuments
           P0 == {p \in Place : Accepts(direction, start, p) /\ StoredDocument(p[2]) # Absent}
           P == P0 \ T
           Q0 == {p \in T : Accepts(direction, start, p)}
           Q == {p \in Q0 : Committed[p[2]] # Absent}
           val == [d \in Document |-> StoredDocument(d)]
           base == Untouched(StoredDocuments(direction, start), T)
           overlay == Shown(Q0, direction)
<1>1. ReadInv /\ history \in Histories /\ IsFiniteSet(T)
  BY DEF StoreInv
<1>2. T \subseteq Place /\ \A p \in Place : p \notin T => docWrites[p[2]] = Absent
  BY DEF TouchedDocuments
<1>3. \A p \in Place : p \in Spot /\ p[2] \in Document
  BY PositionsAreSpots
<1>4. \A p \in Place : p \notin T => StoredDocument(p[2]) = Committed[p[2]]
  BY <1>1, <1>2, <1>3, VisibleIsCommitted DEF VisibleDocument
<1>5. \A p \in Place : Accepts(direction, start, p) <=> FromStart(direction, start, p)
  BY <1>3, AcceptsIsFromStart
<1> HIDE DEF T
<1>6. Streams(base, P, val, direction)
  <2>1. Streams(StoredDocuments(direction, start), P0, val, direction)
    BY <1>1, StoredStreams
  <2> HIDE DEF P0, val
  <2> QED BY <2>1, UntouchedStreams
<1>7. Streams(base, P, Committed, direction)
  <2>1. \A p \in P : val[p[2]] = Committed[p[2]]
    BY <1>3, <1>4
  <2> HIDE DEF P, val, base
  <2> QED BY <1>6, <2>1, SameStream
<1>8. Streams(overlay, Q, Committed, direction)
  <2>1. Q0 \in SUBSET Spot /\ \A p \in Q0 : p[2] \in Document
    BY <1>2, <1>3
  <2>2. IsFiniteSet(Q)
    <3>1. Q \subseteq T
      OBVIOUS
    <3> HIDE DEF Q
    <3> QED BY <1>1, <3>1, FS_Subset
  <2> HIDE DEF Q0
  <2> QED BY <1>1, <2>1, <2>2, ShownStreams
<1>9. P \cup Q = Found("Documents", direction, start)
  <2>1. Found("Documents", direction, start) =
          {p \in Place : Committed[p[2]] # Absent /\ FromStart(direction, start, p)}
    BY DEF Found
  <2> QED BY <1>2, <1>4, <1>5, <2>1
<1>10. P \in SUBSET Spot /\ Q \in SUBSET Spot /\ P \cap Q = {}
  BY <1>2, <1>3
<1>11. DocumentCursor(direction, start) = Opened("Documents", direction, start, base, overlay)
  BY DEF DocumentCursor, T
<1> HIDE DEF P, Q, base, overlay
<1> QED BY <1>7, <1>8, <1>9, <1>10, <1>11, CursorOpens

\* get_index_cursor merges the entries there will be.
LEMMA EntriesOpen ==
  ASSUME StoreInv, NEW direction \in Direction, NEW start \in StartAt(Position)
  PROVE  /\ Merging(IndexEntryCursor(direction, start), Promised("Index", direction, start))
         /\ \E F : Streams(Promised("Index", direction, start), F, Committed, direction)
<1> DEFINE T == TouchedPositions
           put == {p \in Position : indexWrites[p] = "Put"}
           From(positions) == {p \in positions : Accepts(direction, start, p)}
           P0 == {p \in From(entries) : Committed[p[2]] # Absent}
           P == P0 \ T
           Q == {p \in From(put) : Committed[p[2]] # Absent}
           base == Untouched(Shown(From(entries), direction), T)
           overlay == Shown(From(put), direction)
<1>1. ReadInv /\ IsFiniteSet(T) /\ entries \in EntrySets
  BY DEF StoreInv
<1>2. /\ put \subseteq T /\ T \subseteq Position
      /\ \A p \in Position : p \notin T <=> indexWrites[p] = "None"
  BY DEF TouchedPositions
<1>3. entries \subseteq Position /\ IsFiniteSet(entries)
  BY <1>1, StoreAssumption, FiniteAssumption DEF Position
<1>4. \A p \in Position : p \in Spot /\ p[2] \in Document
  BY PositionsAreSpots
<1>5. \A p \in Position : Accepts(direction, start, p) <=> FromStart(direction, start, p)
  <2>1. Position \in SUBSET Spot
    BY PositionsAreSpots
  <2> QED BY <1>4, <2>1, AcceptsIsFromStart
<1> HIDE DEF T
<1>6. Streams(base, P, Committed, direction)
  <2> DEFINE E == From(entries)
  <2>1. E \in SUBSET Spot /\ \A p \in E : p[2] \in Document
    BY <1>3, <1>4
  <2>2. IsFiniteSet(P0)
    <3>1. P0 \subseteq entries
      OBVIOUS
    <3> HIDE DEF P0
    <3> QED BY <1>3, <3>1, FS_Subset
  <2>3. Streams(Shown(E, direction), P0, Committed, direction)
    <3>1. P0 = {p \in E : Committed[p[2]] # Absent}
      OBVIOUS
    <3> HIDE DEF P0, E
    <3> QED BY <1>1, <2>1, <2>2, <3>1, ShownStreams
  <2> HIDE DEF P0
  <2> QED BY <2>3, UntouchedStreams
<1>7. Streams(overlay, Q, Committed, direction)
  <2> DEFINE E == From(put)
  <2>1. E \in SUBSET Spot /\ \A p \in E : p[2] \in Document
    BY <1>2, <1>4
  <2>2. IsFiniteSet(Q)
    <3>1. Q \subseteq T
      BY <1>2
    <3> HIDE DEF Q
    <3> QED BY <1>1, <3>1, FS_Subset
  <2>3. Q = {p \in E : Committed[p[2]] # Absent}
    OBVIOUS
  <2>4. Streams(Shown(E, direction), Q, Committed, direction)
    <3> HIDE DEF Q, E
    <3> QED BY <1>1, <2>1, <2>2, <2>3, ShownStreams
  <2> QED BY <2>4
<1>8. P \cup Q = Found("Index", direction, start)
  <2>1. Found("Index", direction, start) =
          {p \in CommittedEntries : Committed[p[2]] # Absent /\ FromStart(direction, start, p)}
    BY DEF Found
  <2>2. \A p \in Position :
          p \in CommittedEntries <=> p \in put \/ (p \notin T /\ p \in entries)
    BY <1>2 DEF CommittedEntries
  <2>3. CommittedEntries \subseteq Position
    BY DEF CommittedEntries
  <2>4. put \subseteq Position
    OBVIOUS
  <2> HIDE DEF put
  <2> QED BY <1>2, <1>3, <1>5, <2>1, <2>2, <2>3, <2>4
<1>9. P \in SUBSET Spot /\ Q \in SUBSET Spot /\ P \cap Q = {}
  BY <1>2, <1>3, <1>4
<1>10. IndexEntryCursor(direction, start) = Opened("Index", direction, start, base, overlay)
  BY DEF IndexEntryCursor, T
<1> HIDE DEF P, Q, base, overlay
<1> QED BY <1>6, <1>7, <1>8, <1>9, <1>10, CursorOpens

-----------------------------------------------------------------------------
(* Every cursor *)

\* An open cursor merges what it is expected to return.
CursorInv ==
  /\ StoreInv
  /\ cursor # Closed =>
       /\ Merging(cursor, Expected)
       /\ \E F : Streams(Expected, F, Committed, cursor.direction)

\* No cursor is open at first, and nothing is written.
LEMMA InitCursor == Init => CursorInv
<1> SUFFICES ASSUME Init
             PROVE  CursorInv
  OBVIOUS
<1>1. ReadInv
  BY InitRead
<1>2. indexWrites \in [Position -> {"None", "Put", "Deleted"}]
  BY DEF Init
<1>3. TouchedDocuments = {} /\ TouchedPositions = {}
  <2>1. TouchedDocuments = {}
    BY DEF Init, TouchedDocuments, NoRow, Place, PlaceOf
  <2>2. TouchedPositions = {}
    BY DEF Init, TouchedPositions
  <2> QED BY <2>1, <2>2
<1>4. IsFiniteSet(TouchedDocuments) /\ IsFiniteSet(TouchedPositions)
  BY <1>3, FS_EmptySet
<1> QED BY <1>1, <1>2, <1>4 DEF Init, CursorInv, StoreInv

\* A step that only moves the cursor leaves what is promised as it was.
LEMMA StoreStays ==
  ASSUME UNCHANGED <<snapshot, writes>>
  PROVE  /\ Committed' = Committed
         /\ TouchedDocuments' = TouchedDocuments /\ TouchedPositions' = TouchedPositions
         /\ Expected' = Promised(cursor'.kind, cursor'.direction, cursor'.start)
<1>1. /\ history' = history /\ entries' = entries /\ ts' = ts
      /\ docWrites' = docWrites /\ indexWrites' = indexWrites
  BY DEF snapshot, writes
<1>2. Committed' = Committed
  BY <1>1 DEF Committed
<1>3. CommittedEntries' = CommittedEntries
  BY <1>1 DEF CommittedEntries
<1>4. TouchedDocuments' = TouchedDocuments
  BY <1>1 DEF TouchedDocuments
<1>5. TouchedPositions' = TouchedPositions
  BY <1>1 DEF TouchedPositions
<1>6. Expected' = Promised(cursor'.kind, cursor'.direction, cursor'.start)
  <2>1. Place' = Place
    BY DEF Place, PlaceOf
  <2> QED BY <1>2, <1>3, <2>1 DEF Expected, Promised, Found
<1> QED BY <1>2, <1>4, <1>5, <1>6

\* Nor does such a step disturb what is stored and written.
LEMMA StoreInvStays ==
  ASSUME StoreInv, UNCHANGED <<snapshot, writes>>
  PROVE  StoreInv'
<1>1. TouchedDocuments' = TouchedDocuments /\ TouchedPositions' = TouchedPositions
  BY StoreStays
<1>2. ReadInv'
  BY DEF StoreInv, ReadInv, snapshot, writes
<1> QED BY <1>1, <1>2 DEF StoreInv, snapshot, writes

\* A write touches one place more.
LEMMA WriteKeepsStore ==
  ASSUME StoreInv
  PROVE  /\ \A d \in Document, cell \in Cell : WriteDocument(d, cell) => StoreInv'
         /\ \A p \in Position, write \in {"Put", "Deleted"} :
              WriteIndexEntry(p, write) => StoreInv'
<1>1. ASSUME NEW d \in Document, NEW cell \in Cell, WriteDocument(d, cell)
      PROVE  StoreInv'
  <2>1. /\ history' = history /\ entries' = entries /\ ts' = ts /\ indexWrites' = indexWrites
        /\ docWrites' = [docWrites EXCEPT ![d] = cell]
    BY <1>1 DEF WriteDocument, snapshot
  <2>2. ReadInv'
    BY <2>1 DEF StoreInv, ReadInv
  <2>3. TouchedPositions' = TouchedPositions
    BY <2>1 DEF TouchedPositions
  <2>4. TouchedDocuments' \subseteq TouchedDocuments \cup {PlaceOf(d)}
    <3> SUFFICES ASSUME NEW p \in Place, docWrites'[p[2]] # Absent
                 PROVE  p \in TouchedDocuments \/ p = PlaceOf(d)
      BY DEF TouchedDocuments
    <3>1. PICK e \in Document : p = PlaceOf(e) /\ p[2] = e
      BY DEF Place, PlaceOf
    <3>2. e # d => docWrites'[e] = docWrites[e]
      BY <2>1 DEF StoreInv, ReadInv
    <3> QED BY <3>1, <3>2 DEF TouchedDocuments
  <2>5. IsFiniteSet(TouchedDocuments')
    <3>1. IsFiniteSet(TouchedDocuments \cup {PlaceOf(d)})
      BY FS_AddElement DEF StoreInv
    <3> QED BY <2>4, <3>1, FS_Subset
  <2> QED BY <2>1, <2>2, <2>3, <2>5 DEF StoreInv
<1>2. ASSUME NEW p \in Position, NEW write \in {"Put", "Deleted"}, WriteIndexEntry(p, write)
      PROVE  StoreInv'
  <2>1. /\ history' = history /\ entries' = entries /\ ts' = ts /\ docWrites' = docWrites
        /\ indexWrites' = [indexWrites EXCEPT ![p] = write]
    BY <1>2 DEF WriteIndexEntry, snapshot
  <2>2. ReadInv'
    BY <2>1 DEF StoreInv, ReadInv
  <2>3. TouchedDocuments' = TouchedDocuments
    BY <2>1 DEF TouchedDocuments
  <2>4. TouchedPositions' \subseteq TouchedPositions \cup {p}
    BY <2>1 DEF TouchedPositions, StoreInv
  <2>5. IsFiniteSet(TouchedPositions')
    <3>1. IsFiniteSet(TouchedPositions \cup {p})
      BY FS_AddElement DEF StoreInv
    <3> QED BY <2>4, <3>1, FS_Subset
  <2>6. indexWrites' \in [Position -> {"None", "Put", "Deleted"}]
    BY <2>1 DEF StoreInv
  <2> QED BY <2>1, <2>2, <2>3, <2>5, <2>6 DEF StoreInv
<1> QED BY <1>1, <1>2

\* Taking an entry leaves the cursor's kind, direction and start.
LEMMA TakingKeeps ==
  ASSUME NEW c, NEW exp, Merging(c, exp)
  PROVE  /\ BaseTaken(c).kind = c.kind /\ BaseTaken(c).direction = c.direction
         /\ BaseTaken(c).start = c.start
         /\ OverlayTaken(c).kind = c.kind /\ OverlayTaken(c).direction = c.direction
         /\ OverlayTaken(c).start = c.start
<1> DEFINE Q == Seq({exp[m] : m \in 1 .. Len(exp)})
<1>1. c \in Cursors(c, Q)
  BY DEF Merging
<1> HIDE DEF Q
<1> QED BY <1>1 DEF Cursors, BaseTaken, OverlayTaken

\* Opening a cursor merges, taking an entry goes on merging, and no write happens meanwhile.
LEMMA NextCursor == CursorInv /\ [Next]_vars => CursorInv'
<1> SUFFICES ASSUME CursorInv, [Next]_vars
             PROVE  CursorInv'
  OBVIOUS
<1>1. StoreInv
  BY DEF CursorInv
<1>2. ASSUME NEW d \in Document, NEW cell \in Cell, WriteDocument(d, cell)
      PROVE  CursorInv'
  <2>1. StoreInv'
    BY <1>1, <1>2, WriteKeepsStore
  <2>2. cursor' = Closed
    BY <1>2 DEF WriteDocument
  <2>3. Closed' = Closed
    BY DEF Closed
  <2> QED BY <2>1, <2>2, <2>3 DEF CursorInv
<1>3. ASSUME NEW p \in Position, NEW write \in {"Put", "Deleted"}, WriteIndexEntry(p, write)
      PROVE  CursorInv'
  <2>1. StoreInv'
    BY <1>1, <1>3, WriteKeepsStore
  <2>2. cursor' = Closed
    BY <1>3 DEF WriteIndexEntry
  <2>3. Closed' = Closed
    BY DEF Closed
  <2> QED BY <2>1, <2>2, <2>3 DEF CursorInv
<1>4. ASSUME NEW kind, NEW direction, NEW start, UNCHANGED <<snapshot, writes>>,
             cursor'.kind = kind, cursor'.direction = direction, cursor'.start = start,
             Merging(cursor', Promised(kind, direction, start)),
             NEW F, Streams(Promised(kind, direction, start), F, Committed, direction)
      PROVE  CursorInv'
  <2>1. StoreInv' /\ Committed' = Committed
    BY <1>1, <1>4, StoreInvStays, StoreStays
  <2>2. Expected' = Promised(kind, direction, start)
    BY <1>4, StoreStays
  <2>3. Merging(cursor', Expected')
    BY <1>4, <2>2
  <2>4. Streams(Expected', F, Committed', cursor'.direction)
    BY <1>4, <2>1, <2>2
  <2> QED BY <2>1, <2>3, <2>4 DEF CursorInv
<1>5. ASSUME NEW direction \in Direction, NEW start \in StartAt(Place), GetCursor(direction, start)
      PROVE  CursorInv'
  <2>1. cursor' = DocumentCursor(direction, start) /\ UNCHANGED <<snapshot, writes>>
    BY <1>5 DEF GetCursor
  <2>2. cursor'.kind = "Documents" /\ cursor'.direction = direction /\ cursor'.start = start
    BY <2>1 DEF DocumentCursor, Opened
  <2>3. Merging(cursor', Promised("Documents", direction, start))
    BY <1>1, <2>1, DocumentsOpen
  <2>4. PICK F : Streams(Promised("Documents", direction, start), F, Committed, direction)
    BY <1>1, DocumentsOpen
  <2> QED BY <1>4, <2>1, <2>2, <2>3, <2>4
<1>6. ASSUME NEW direction \in Direction, NEW start \in StartAt(Position),
             GetIndexCursor(direction, start)
      PROVE  CursorInv'
  <2>1. cursor' = IndexEntryCursor(direction, start) /\ UNCHANGED <<snapshot, writes>>
    BY <1>6 DEF GetIndexCursor
  <2>2. cursor'.kind = "Index" /\ cursor'.direction = direction /\ cursor'.start = start
    BY <2>1 DEF IndexEntryCursor, Opened
  <2>3. Merging(cursor', Promised("Index", direction, start))
    BY <1>1, <2>1, EntriesOpen
  <2>4. PICK F : Streams(Promised("Index", direction, start), F, Committed, direction)
    BY <1>1, EntriesOpen
  <2> QED BY <1>4, <2>1, <2>2, <2>3, <2>4
<1>7. ASSUME cursor # Closed, UNCHANGED <<snapshot, writes>>,
             cursor'.kind = cursor.kind, cursor'.direction = cursor.direction,
             cursor'.start = cursor.start, Merging(cursor', Expected)
      PROVE  CursorInv'
  <2>1. Expected = Promised(cursor.kind, cursor.direction, cursor.start)
    BY ExpectedIsPromised
  <2>2. PICK F : Streams(Expected, F, Committed, cursor.direction)
    BY <1>7 DEF CursorInv
  <2> QED BY <1>4, <1>7, <2>1, <2>2
<1>8. CASE TakeBase
  <2>1. /\ cursor # Closed /\ TakesBase(cursor) /\ cursor' = BaseTaken(cursor)
        /\ UNCHANGED <<snapshot, writes>>
    BY <1>8 DEF TakeBase
  <2>2. Merging(cursor, Expected)
    BY <2>1 DEF CursorInv
  <2>3. Merging(cursor', Expected)
    BY <2>1, <2>2, BaseKeepsMerging
  <2>4. /\ cursor'.kind = cursor.kind /\ cursor'.direction = cursor.direction
        /\ cursor'.start = cursor.start
    BY <2>1, <2>2, TakingKeeps
  <2> QED BY <1>7, <2>1, <2>3, <2>4
<1>9. CASE TakeOverlay
  <2>1. /\ cursor # Closed /\ TakesOverlay(cursor) /\ cursor' = OverlayTaken(cursor)
        /\ UNCHANGED <<snapshot, writes>>
    BY <1>9 DEF TakeOverlay
  <2>2. Merging(cursor, Expected)
    BY <2>1 DEF CursorInv
  <2>3. Merging(cursor', Expected)
    BY <2>1, <2>2, OverlayKeepsMerging
  <2>4. /\ cursor'.kind = cursor.kind /\ cursor'.direction = cursor.direction
        /\ cursor'.start = cursor.start
    BY <2>1, <2>2, TakingKeeps
  <2> QED BY <1>7, <2>1, <2>3, <2>4
<1>10. CASE CloseCursor
  <2>1. cursor' = Closed /\ UNCHANGED <<snapshot, writes>>
    BY <1>10 DEF CloseCursor
  <2>2. StoreInv'
    BY <1>1, <2>1, StoreInvStays
  <2>3. Closed' = Closed
    BY DEF Closed
  <2> QED BY <2>1, <2>2, <2>3 DEF CursorInv
<1>11. CASE UNCHANGED vars
  <2>1. UNCHANGED <<snapshot, writes>> /\ cursor' = cursor
    BY <1>11 DEF vars, snapshot, writes
  <2>2. CASE cursor = Closed
    <3>1. StoreInv'
      BY <1>1, <2>1, StoreInvStays
    <3>2. Closed' = Closed
      BY DEF Closed
    <3> QED BY <2>1, <2>2, <3>1, <3>2 DEF CursorInv
  <2>3. CASE cursor # Closed
    <3>1. Merging(cursor', Expected)
      BY <2>1, <2>3 DEF CursorInv
    <3> QED BY <1>7, <2>1, <2>3, <3>1
  <2> QED BY <2>2, <2>3
<1>12. CASE \E d \in Document, v \in Value : PutDocument(d, v)
  BY <1>2, <1>12 DEF PutDocument, Cell
<1>13. CASE \E d \in Document : DeleteDocument(d)
  BY <1>2, <1>13 DEF DeleteDocument, Cell
<1> QED BY <1>3, <1>5, <1>6, <1>8, <1>9, <1>10, <1>11, <1>12, <1>13 DEF Next

\* get_cursor, get_index_cursor: over every snapshot and after every sequence of writes, a
\* cursor in either direction returns, entry by entry, what it would after the commit.
THEOREM CursorsSeeTheCommit == Spec => []ReadsOwnWrites
<1>1. CursorInv => ReadsOwnWrites
  <2> SUFFICES ASSUME CursorInv, cursor # Closed
               PROVE  /\ IsPrefix(cursor.out, Expected)
                      /\ Drained(cursor) => cursor.out = Expected
    BY DEF ReadsOwnWrites
  <2>1. PICK F : Streams(Expected, F, Committed, cursor.direction)
    BY DEF CursorInv
  <2>2. Expected \in Seq(Shows(F, Committed)) /\ Merging(cursor, Expected)
    BY <2>1 DEF CursorInv, Streams
  <2> QED BY <2>2, MergingPromises
<1> QED BY <1>1, InitCursor, NextCursor, PTL DEF Spec
=============================================================================
