---------------------------- MODULE IndexTrieProofs ----------------------------
(* The index layout stays a tree that holds exactly the entries put and not     *)
(* deleted since, under every sequence of puts, deletes, failed puts and        *)
(* restarts, for every segment size and every set of keys.                      *)
EXTENDS IndexTrie, OrderProofs

-----------------------------------------------------------------------------
(* split_index_key *)

Full == [1 .. SegSize -> Byte]

\* Division by a positive number.
LEMMA Quotient ==
  ASSUME NEW a \in Nat, NEW d \in Nat \ {0}
  PROVE  /\ a \div d \in Nat
         /\ (a \div d) * d <= a /\ a < (a \div d) * d + d
OBVIOUS

\* Products grow with their factor.
LEMMA Products ==
  ASSUME NEW i \in Nat, NEW k \in Nat, NEW d \in Nat, i <= k
  PROVE  i * d \in Nat /\ i * d <= k * d
OBVIOUS

\* One segment less.
LEMMA OneLess ==
  ASSUME NEW i \in Int, NEW d \in Nat
  PROVE  (i - 1) * d = i * d - d
OBVIOUS

\* A full segment is a segment.
LEMMA FullFits == Full \subseteq Segment
BY SegAssumption DEF Full, Segment

\* What is between two places of a key is a string of bytes.
LEMMA PieceType ==
  ASSUME NEW key \in Seq(Byte), NEW a \in Nat, NEW c \in Nat, a <= c, c <= Len(key)
  PROVE  /\ SubSeq(key, a + 1, c) \in [1 .. c - a -> Byte]
         /\ SubSeq(key, a + 1, c) \in Seq(Byte) /\ Len(SubSeq(key, a + 1, c)) = c - a
<1>1. \A j \in a + 1 .. c : key[j] \in Byte
  OBVIOUS
<1>2. /\ SubSeq(key, a + 1, c) \in Seq(Byte)
      /\ Len(SubSeq(key, a + 1, c)) = c - a
  BY <1>1, SubSeqProperties
<1>3. DOMAIN SubSeq(key, a + 1, c) = 1 .. c - a
  BY <1>2, LenProperties
<1> QED BY <1>2, <1>3, LenProperties

\* The segments of a key are its bytes in order: all are full but the last, which has
\* at least one byte unless the key has none.
LEMMA SplitPieces ==
  ASSUME NEW key \in Seq(Byte)
  PROVE  LET n == Len(Split(key))
             full == (n - 1) * SegSize
         IN /\ n \in Nat \ {0}
            /\ Split(key) \in [1 .. n -> Segment] /\ Split(key) \in Seq(Segment)
            /\ full \in 0 .. Len(key) /\ Len(key) <= full + SegSize
            /\ key # <<>> => full < Len(key)
            /\ \A i \in 1 .. n - 1 :
                 /\ Split(key)[i] \in Full
                 /\ Split(key)[i] = SubSeq(key, (i - 1) * SegSize + 1, i * SegSize)
                 /\ (i - 1) * SegSize \in Nat /\ i * SegSize \in 0 .. full
                 /\ (i - 1) * SegSize = i * SegSize - SegSize
            /\ Split(key)[n] = SubSeq(key, full + 1, Len(key))
<1> DEFINE last == (Len(key) + SegSize - 1) \div SegSize
           Upto(i) == IF i = last THEN Len(key) ELSE i * SegSize
           Piece(i) == SubSeq(key, (i - 1) * SegSize + 1, Upto(i))
<1>1. SegSize \in Nat \ {0} /\ Len(key) \in Nat /\ \A i \in 1 .. Len(key) : key[i] \in Byte
  BY SegAssumption
<1>2. CASE key = <<>>
  <2>1. Split(key) = << <<>> >>
    BY <1>2 DEF Split
  <2>2. <<>> \in [1 .. 0 -> Byte]
    OBVIOUS
  <2>3. <<>> \in Segment
    BY <1>1, <2>2 DEF Segment
  <2>4. SubSeq(key, 1, 0) = <<>>
    BY <1>2
  <2>5. Len(<< <<>> >>) = 1 /\ << <<>> >> \in [1 .. 1 -> Segment] /\ Len(<<>>) = 0
    BY <2>3
  <2>6. (1 - 1) * SegSize = 0
    BY <1>1
  <2>7. Len(Split(key)) = 1 /\ (Len(Split(key)) - 1) * SegSize = 0 /\ Len(key) = 0
    BY <1>1, <1>2, <2>1, <2>5, <2>6
  <2>8. Split(key) \in [1 .. 1 -> Segment] /\ Split(key) \in Seq(Segment)
    BY <2>1, <2>5
  <2>9. Split(key)[1] = SubSeq(key, 0 + 1, Len(key))
    BY <2>1, <2>4, <2>7
  <2>10. \A i \in 1 .. 1 - 1 : FALSE
    OBVIOUS
  <2> QED BY <1>1, <1>2, <2>7, <2>8, <2>9, <2>10
<1>3. CASE key # <<>>
  <2>1. Split(key) = [i \in 1 .. last |-> Piece(i)]
    BY <1>3 DEF Split
  <2>2. Len(key) >= 1
    BY <1>1, <1>3
  <2>3. /\ last \in Nat
        /\ last * SegSize <= Len(key) + SegSize - 1
        /\ Len(key) + SegSize - 1 < last * SegSize + SegSize
        /\ last * SegSize \in Nat
    <3> DEFINE a == Len(key) + SegSize - 1
    <3>1. a \in Nat
      BY <1>1, <2>2
    <3>2. /\ a \div SegSize \in Nat
          /\ (a \div SegSize) * SegSize <= a
          /\ a < (a \div SegSize) * SegSize + SegSize
      <4> HIDE DEF a
      <4> QED BY <1>1, <3>1, Quotient
    <3>3. last * SegSize \in Nat
      <4> HIDE DEF a
      <4> QED BY <1>1, <3>2, Products
    <3> QED BY <3>2, <3>3
  <2>4. last # 0
    BY <1>1, <2>2, <2>3
  <2>5. (last - 1) * SegSize = last * SegSize - SegSize
    BY <1>1, <2>3, OneLess
  <2> HIDE DEF last
  <2>6. /\ (last - 1) * SegSize \in 0 .. Len(key) /\ (last - 1) * SegSize < Len(key)
        /\ Len(key) <= (last - 1) * SegSize + SegSize
    <3>1. (last - 1) * SegSize \in Nat
      BY <1>1, <2>3, <2>4, Products
    <3> QED BY <1>1, <2>3, <2>5, <3>1
  <2>7. ASSUME NEW i \in 1 .. last - 1
        PROVE  /\ Piece(i) \in Full
               /\ Piece(i) = SubSeq(key, (i - 1) * SegSize + 1, i * SegSize)
               /\ (i - 1) * SegSize \in Nat /\ i * SegSize \in 0 .. (last - 1) * SegSize
               /\ (i - 1) * SegSize = i * SegSize - SegSize
    <3>1. i - 1 \in Nat /\ i \in Nat /\ last - 1 \in Nat /\ i <= last - 1 /\ i # last
      BY <2>3
    <3>2. i * SegSize \in Nat /\ i * SegSize <= (last - 1) * SegSize
      BY <1>1, <3>1, Products
    <3>3. (i - 1) * SegSize = i * SegSize - SegSize
      BY <1>1, <3>1, OneLess
    <3>4. (i - 1) * SegSize \in Nat /\ (last - 1) * SegSize \in Nat
      BY <1>1, <3>1, Products
    <3>5. Piece(i) = SubSeq(key, (i - 1) * SegSize + 1, i * SegSize)
      BY <3>1
    <3>6. Piece(i) \in Full
      <4> DEFINE a == (i - 1) * SegSize
                 c == i * SegSize
      <4>1. a \in Nat /\ c \in Nat /\ a <= c /\ c <= Len(key) /\ c - a = SegSize
        BY <1>1, <2>6, <3>2, <3>3, <3>4
      <4>2. Piece(i) = SubSeq(key, a + 1, c)
        BY <3>5
      <4> HIDE DEF a, c, Piece
      <4>3. SubSeq(key, a + 1, c) \in [1 .. c - a -> Byte]
        BY <4>1, PieceType
      <4> QED BY <4>1, <4>2, <4>3 DEF Full
    <3> QED BY <3>2, <3>3, <3>4, <3>5, <3>6
  <2>8. Piece(last) = SubSeq(key, (last - 1) * SegSize + 1, Len(key))
    OBVIOUS
  <2>9. ASSUME NEW i \in 1 .. last
        PROVE  Piece(i) \in Segment
    <3>1. PICK a \in Nat, c \in Nat :
            /\ Piece(i) = SubSeq(key, a + 1, c) /\ c <= Len(key)
            /\ a <= c /\ c - a <= SegSize
      <4>1. CASE i = last
        BY <1>1, <2>6, <2>8, <4>1
      <4>2. CASE i # last
        <5>1. i \in 1 .. last - 1
          BY <2>3, <4>2
        <5> DEFINE a == (i - 1) * SegSize
                   c == i * SegSize
        <5>2. /\ Piece(i) = SubSeq(key, a + 1, c) /\ a \in Nat
              /\ c \in 0 .. (last - 1) * SegSize /\ a = c - SegSize
          BY <2>7, <5>1
        <5> HIDE DEF Piece, a, c
        <5>3. c \in Nat /\ c <= Len(key) /\ a <= c /\ c - a <= SegSize
          BY <1>1, <2>6, <5>2
        <5> QED BY <5>2, <5>3
      <4> QED BY <4>1, <4>2
    <3> HIDE DEF Piece
    <3>2. SubSeq(key, a + 1, c) \in [1 .. c - a -> Byte]
      BY <3>1, PieceType
    <3>3. c - a \in 0 .. SegSize
      BY <1>1, <3>1
    <3> QED BY <3>1, <3>2, <3>3 DEF Segment
  <2> HIDE DEF Piece
  <2>10. /\ Split(key) \in [1 .. last -> Segment] /\ Split(key) \in Seq(Segment)
         /\ Len(Split(key)) = last
    BY <2>1, <2>3, <2>9
  <2>11. /\ Split(key)[last] = Piece(last)
         /\ \A i \in 1 .. last - 1 : Split(key)[i] = Piece(i)
    BY <2>1, <2>3, <2>4
  <2>12. last \in Nat \ {0}
    BY <2>3, <2>4
  <2> HIDE DEF Upto
  <2> QED BY <1>3, <2>6, <2>7, <2>8, <2>10, <2>11, <2>12
<1> QED BY <1>2, <1>3

-----------------------------------------------------------------------------
(* Types *)

EdgeRow == [parent : Nat, segment : Full, child : Nat]
LeafRow == [chain : Nat, segment : Segment, doc : Doc]
Trie == [edges : SUBSET EdgeRow, leaves : SUBSET LeafRow, counter : Nat]
Walk == [chain : Nat, trie : Trie]

\* A walk goes on to a walk.
LEMMA FindOrCreateType ==
  ASSUME NEW w \in Walk, NEW segment \in Full
  PROVE  FindOrCreate(w, segment) \in Walk
<1> DEFINE found == EdgesAt(w.trie, w.chain, segment)
<1>1. found \subseteq EdgeRow /\ w.trie \in Trie /\ w.chain \in Nat
  BY DEF EdgesAt, Walk, Trie
<1>2. CASE found # {}
  <2>1. (CHOOSE e \in found : TRUE) \in EdgeRow
    BY <1>1, <1>2
  <2> QED BY <1>2, <2>1 DEF FindOrCreate, Walk, EdgeRow
<1>3. CASE found = {}
  <2>1. w.trie.counter + 1 \in Nat
    BY <1>1 DEF Trie
  <2>2. [parent |-> w.chain, segment |-> segment, child |-> w.trie.counter + 1] \in EdgeRow
    BY <1>1, <2>1 DEF EdgeRow
  <2> QED BY <1>1, <1>3, <2>1, <2>2 DEF FindOrCreate, Walk, Trie
<1> QED BY <1>2, <1>3

\* put_index_entry walks one segment after the other.
LEMMA PutWalks ==
  ASSUME NEW b \in Walk, NEW segments \in Seq(Full)
  PROVE  \E w \in [0 .. Len(segments) -> Walk] :
           /\ w[0] = b
           /\ \A i \in 1 .. Len(segments) : w[i] = FindOrCreate(w[i - 1], segments[i])
           /\ FoldLeft(FindOrCreate, b, segments) = w[Len(segments)]
<1> DEFINE n == Len(segments)
           D == SUBSET (1 .. n)
           Next1(f, s) == IF s = {} THEN b ELSE FindOrCreate(f[s \ {Max(s)}], segments[Max(s)])
           fold == CHOOSE f : f = [s \in D |-> Next1(f, s)]
           pick == [s \in D |-> Max(s)]
           Step == [x \in Walk \X (1 .. n) |-> FindOrCreate(x[1], segments[x[2]])]
<1>1. n \in Nat /\ DOMAIN segments = 1 .. n /\ \A i \in 1 .. n : segments[i] \in Full
  OBVIOUS
<1>2. FoldLeft(FindOrCreate, b, segments) = fold[1 .. n]
  BY <1>1 DEF FoldLeft, MapThenFoldSet
<1>3. \A s \in D : s # {} => Max(s) \in s
  BY <1>1, PlacesHaveEnds
<1>4. Step \in [Walk \X (1 .. n) -> Walk]
  BY <1>1, FindOrCreateType
<1>5. \E f \in [D -> Walk] : f = [s \in D |-> Next1(f, s)]
  <2>1. Picks(pick, n)
    BY <1>3 DEF Picks
  <2>2. PICK f \in [D -> Walk] : IsFold(f, n, b, pick, Step)
    <3> HIDE DEF Step, pick, n
    <3> QED BY <1>1, <1>4, <2>1, FoldExists
  <2> HIDE DEF Step, pick
  <2>3. ASSUME NEW s \in D
        PROVE  f[s] = Next1(f, s)
    <3>1. s # {} => f[s \ {Max(s)}] \in Walk /\ Max(s) \in 1 .. n
      BY <1>3, <2>2
    <3>2. f[s] = IF s = {} THEN b ELSE Step[<<f[s \ {pick[s]}], pick[s]>>]
      BY <2>2 DEF IsFold
    <3> QED BY <3>1, <3>2 DEF Step, pick
  <2>4. f = [s \in D |-> Next1(f, s)]
    BY <2>2, <2>3
  <2> QED BY <2>4
<1>6. fold = [s \in D |-> Next1(fold, s)]
  BY <1>5
<1> HIDE DEF fold
<1> DEFINE w == [i \in 0 .. n |-> fold[1 .. i]]
<1>7. w[0] = b
  BY <1>1, <1>6
<1>8. \A i \in 1 .. n : w[i] = FindOrCreate(w[i - 1], segments[i])
  <2> SUFFICES ASSUME NEW i \in 1 .. n
               PROVE  w[i] = FindOrCreate(w[i - 1], segments[i])
    OBVIOUS
  <2>1. /\ 1 .. i \in D /\ 1 .. i # {} /\ i - 1 \in 0 .. n
        /\ Max(1 .. i) = i /\ (1 .. i) \ {i} = 1 .. i - 1
    <3> HIDE DEF n
    <3> QED BY <1>1, LastPlace
  <2>3. fold[1 .. i] = FindOrCreate(fold[1 .. i - 1], segments[i])
    BY <1>6, <2>1
  <2> QED BY <2>1, <2>3
<1>9. w \in [0 .. n -> Walk]
  <2> DEFINE S == {i \in 0 .. n : w[i] \in Walk}
  <2> HIDE DEF w
  <2>1. 0 \in S
    BY <1>1, <1>7
  <2>2. \A i \in 1 .. n : i - 1 \in S => i \in S
    BY <1>1, <1>8, FindOrCreateType
  <2>3. \A i \in 0 .. n : i \in S
    <3> HIDE DEF S
    <3> QED BY <1>1, <2>1, <2>2, UpTo
  <2> QED BY <2>3 DEF w
<1>10. FoldLeft(FindOrCreate, b, segments) = w[n]
  BY <1>1, <1>2
<1> QED BY <1>7, <1>8, <1>9, <1>10

-----------------------------------------------------------------------------
(* Trees *)

\* Edges lead away from the root, a child has one edge and a place names one child.
Tree(t) ==
  \A e, f \in t.edges :
    /\ e.parent < e.child /\ e.child <= t.counter
    /\ (e.child = f.child \/ (e.parent = f.parent /\ e.segment = f.segment)) => e = f

\* What hangs below a node can be reached.
Rooted(t) ==
  /\ \A l \in t.leaves : Attached(t, l.chain)
  /\ \A e \in t.edges : Attached(t, e.parent)

\* Only edges to this node may lead nowhere.
AliveBut(t, chain) == \A e \in t.edges : e.child # chain => HasEntries(t, e.child)

\* While put_index_entry walks, the trie is a tree and only the node the walk stands at
\* may have no entries.
Sound(w) ==
  /\ w \in Walk /\ Tree(w.trie) /\ Rooted(w.trie)
  /\ Attached(w.trie, w.chain) /\ AliveBut(w.trie, w.chain)

\* From one node of a walk to the next there is an edge that bears the segment, and
\* nothing is lost.
Walked(w, segment, v) ==
  /\ v.trie.leaves = w.trie.leaves /\ w.trie.edges \subseteq v.trie.edges
  /\ v.trie.counter >= w.trie.counter
  /\ \E e \in v.trie.edges : e.parent = w.chain /\ e.segment = segment /\ e.child = v.chain

\* find_or_create_edge keeps the tree, and the walk stands below the segment.
LEMMA FindOrCreateKeeps ==
  ASSUME NEW w, Sound(w), NEW segment \in Full
  PROVE  /\ Sound(FindOrCreate(w, segment))
         /\ Walked(w, segment, FindOrCreate(w, segment))
<1> DEFINE found == EdgesAt(w.trie, w.chain, segment)
           v == FindOrCreate(w, segment)
           id == w.trie.counter + 1
           new == [parent |-> w.chain, segment |-> segment, child |-> id]
<1>1. w \in Walk /\ v \in Walk
  BY FindOrCreateType DEF Sound
<1>2. /\ w.chain \in Nat /\ w.trie.counter \in Nat
      /\ \A e \in w.trie.edges : e \in EdgeRow /\ e.parent \in Nat /\ e.child \in Nat
  BY <1>1 DEF Walk, Trie, EdgeRow
<1>3. CASE found # {}
  <2> DEFINE e == CHOOSE e \in found : TRUE
  <2>1. e \in w.trie.edges /\ e.parent = w.chain /\ e.segment = segment
    BY <1>3 DEF EdgesAt
  <2>2. v.trie = w.trie /\ v.chain = e.child
    BY <1>1, <1>3 DEF FindOrCreate, Walk
  <2> HIDE DEF e, v
  <2>3. AliveBut(w.trie, e.child)
    BY <2>1 DEF Sound, AliveBut, HasEntries
  <2>4. Attached(w.trie, e.child)
    BY <2>1 DEF Attached
  <2>5. Sound(v)
    BY <1>1, <2>2, <2>3, <2>4 DEF Sound
  <2>6. Walked(w, segment, v)
    BY <1>2, <2>1, <2>2 DEF Walked
  <2> QED BY <2>5, <2>6 DEF v
<1>4. CASE found = {}
  <2>1. /\ v.trie.edges = w.trie.edges \cup {new} /\ v.trie.leaves = w.trie.leaves
        /\ v.trie.counter = id /\ v.chain = id
    BY <1>1, <1>4 DEF FindOrCreate, Walk, Trie
  <2>2. new.parent = w.chain /\ new.segment = segment /\ new.child = id
    OBVIOUS
  <2>3. id \in Nat /\ w.trie.counter < id
    BY <1>2
  <2> HIDE DEF id, new, v
  <2>4. w.chain < id
    BY <1>2, <2>3 DEF Sound, Attached, Tree, Root
  <2>5. Tree(v.trie)
    <3> SUFFICES ASSUME NEW e \in v.trie.edges, NEW f \in v.trie.edges
                 PROVE  /\ e.parent < e.child /\ e.child <= id
                        /\ (e.child = f.child \/ (e.parent = f.parent /\ e.segment = f.segment))
                              => e = f
      BY <2>1 DEF Tree
    <3>1. \A g \in w.trie.edges : g.parent < g.child /\ g.child <= w.trie.counter
      BY DEF Sound, Tree
    <3>2. \A g \in w.trie.edges : g.child < id
      BY <1>2, <2>3, <3>1
    <3>3. \A g \in w.trie.edges : ~(g.parent = w.chain /\ g.segment = segment)
      BY <1>4 DEF EdgesAt
    <3>4. e.parent < e.child /\ e.child <= id
      BY <1>2, <2>1, <2>2, <2>3, <2>4, <3>1, <3>2
    <3>5. CASE e \in w.trie.edges /\ f \in w.trie.edges
      BY <3>4, <3>5 DEF Sound, Tree
    <3>6. CASE e = new /\ f = new
      BY <3>4, <3>6
    <3>7. CASE (e = new /\ f \in w.trie.edges) \/ (f = new /\ e \in w.trie.edges)
      BY <1>2, <2>2, <2>3, <3>2, <3>3, <3>4, <3>7
    <3> QED BY <2>1, <3>5, <3>6, <3>7
  <2>6. \A chain : Attached(w.trie, chain) => Attached(v.trie, chain)
    BY <2>1 DEF Attached
  <2>7. Rooted(v.trie)
    BY <2>1, <2>2, <2>6 DEF Sound, Rooted
  <2>8. Attached(v.trie, v.chain)
    BY <2>1, <2>2 DEF Attached
  <2>9. AliveBut(v.trie, v.chain)
    <3> SUFFICES ASSUME NEW e \in w.trie.edges
                 PROVE  HasEntries(v.trie, e.child)
      BY <2>1, <2>2 DEF AliveBut
    <3>1. CASE e.child = w.chain
      BY <2>1, <2>2, <3>1 DEF HasEntries
    <3>2. CASE e.child # w.chain
      BY <2>1, <3>2 DEF Sound, AliveBut, HasEntries
    <3> QED BY <3>1, <3>2
  <2>10. Walked(w, segment, v)
    BY <1>2, <2>1, <2>2, <2>3 DEF Walked
  <2> QED BY <1>1, <2>5, <2>7, <2>8, <2>9, <2>10 DEF Sound, v
<1> QED BY <1>3, <1>4

\* A tree none of whose edges leads nowhere; only a leaf of the root may have no bytes.
Indexed(t) ==
  /\ t \in Trie /\ Tree(t) /\ Rooted(t)
  /\ \A e \in t.edges : HasEntries(t, e.child)
  /\ \A l \in t.leaves : l.chain = Root \/ l.segment # <<>>

\* put_index_entry: the walk keeps the tree all along.
LEMMA PutKeepsWalk ==
  ASSUME NEW t, Indexed(t), NEW segments \in Seq(Full)
  PROVE  \E w \in [0 .. Len(segments) -> Walk] :
           /\ w[0] = [trie |-> t, chain |-> Root]
           /\ \A i \in 0 .. Len(segments) : Sound(w[i])
           /\ \A i \in 1 .. Len(segments) : Walked(w[i - 1], segments[i], w[i])
           /\ FoldLeft(FindOrCreate, [trie |-> t, chain |-> Root], segments) = w[Len(segments)]
<1> DEFINE b == [trie |-> t, chain |-> Root]
           n == Len(segments)
<1>1. n \in Nat /\ \A i \in 1 .. n : segments[i] \in Full
  OBVIOUS
<1>2. b \in Walk /\ b.trie = t /\ b.chain = Root
  BY DEF Indexed, Walk, Root
<1>3. Sound(b)
  BY <1>2 DEF Sound, Indexed, AliveBut, Attached
<1>4. PICK w \in [0 .. n -> Walk] :
        /\ w[0] = b
        /\ \A i \in 1 .. n : w[i] = FindOrCreate(w[i - 1], segments[i])
        /\ FoldLeft(FindOrCreate, b, segments) = w[n]
  <2> HIDE DEF b
  <2> QED BY <1>2, PutWalks
<1> DEFINE S == {i \in 0 .. n : Sound(w[i])}
<1> HIDE DEF b, n
<1>5. 0 \in S
  BY <1>1, <1>3, <1>4
<1>6. \A i \in 1 .. n : i - 1 \in S => i \in S
  BY <1>1, <1>4, FindOrCreateKeeps
<1>7. \A i \in 0 .. n : i \in S
  <2> HIDE DEF S
  <2> QED BY <1>1, <1>5, <1>6, UpTo
<1>8. \A i \in 1 .. n : Walked(w[i - 1], segments[i], w[i])
  BY <1>1, <1>4, <1>7, FindOrCreateKeeps
<1> QED BY <1>4, <1>7, <1>8 DEF b, n

\* All segments of a key but the last.
LEMMA Edges ==
  ASSUME NEW key \in Seq(Byte)
  PROVE  /\ Front(Split(key)) \in Seq(Full)
         /\ Len(Front(Split(key))) = Len(Split(key)) - 1
         /\ \A i \in 1 .. Len(Split(key)) - 1 : Front(Split(key))[i] = Split(key)[i]
         /\ Last(Split(key)) = Split(key)[Len(Split(key))] /\ Last(Split(key)) \in Segment
<1> DEFINE s == Split(key)
           n == Len(s)
<1>1. n \in Nat \ {0} /\ s \in [1 .. n -> Segment] /\ \A i \in 1 .. n - 1 : s[i] \in Full
  BY SplitPieces
<1> HIDE DEF s, n
<1>2. \A i \in 1 .. n - 1 : s[i] \in Full
  BY <1>1
<1>3. /\ SubSeq(s, 1, n - 1) \in Seq(Full)
      /\ Len(SubSeq(s, 1, n - 1)) = n - 1
      /\ \A i \in 1 .. n - 1 : SubSeq(s, 1, n - 1)[i] = s[i]
  <2>1. n - 1 \in Int /\ 1 \in Int
    BY <1>1
  <2>2. /\ SubSeq(s, 1, n - 1) \in Seq(Full)
        /\ Len(SubSeq(s, 1, n - 1)) = IF 1 <= n - 1 THEN (n - 1) - 1 + 1 ELSE 0
        /\ \A i \in 1 .. (n - 1) - 1 + 1 : SubSeq(s, 1, n - 1)[i] = s[1 + i - 1]
    BY <1>2, <2>1, SubSeqProperties
  <2> QED BY <1>1, <2>2
<1>4. s[n] \in Segment
  BY <1>1
<1> QED BY <1>3, <1>4 DEF Front, Last, s, n

\* Only the empty key leaves an empty segment for the leaf.
LEMMA LastPiece ==
  ASSUME NEW key \in Seq(Byte)
  PROVE  Len(Split(key)) = 1 \/ Last(Split(key)) # <<>>
<1> DEFINE n == Len(Split(key))
           full == (n - 1) * SegSize
<1>1. CASE key = <<>>
  BY <1>1 DEF Split
<1>2. CASE key # <<>>
  <2>1. full \in Nat /\ full < Len(key) /\ Split(key)[n] = SubSeq(key, full + 1, Len(key))
    BY <1>2, SplitPieces
  <2> HIDE DEF full
  <2>2. Len(SubSeq(key, full + 1, Len(key))) = Len(key) - full
    BY <2>1, PieceType
  <2>3. Len(<<>>) = 0 /\ Len(key) \in Nat
    OBVIOUS
  <2>4. Last(Split(key)) = SubSeq(key, full + 1, Len(key))
    BY <2>1 DEF Last
  <2> DEFINE d == SubSeq(key, full + 1, Len(key))
             last == Last(Split(key))
  <2>5. last = d /\ Len(d) = Len(key) - full
    BY <2>2, <2>4
  <2>6. Len(d) # 0
    <3> HIDE DEF d
    <3> QED BY <2>1, <2>3, <2>5
  <2>7. last # <<>>
    <3> HIDE DEF d, last
    <3> QED BY <2>3, <2>5, <2>6
  <2> QED BY <2>7
<1> QED BY <1>1, <1>2

\* The nodes on the way that the first k segments of a key spell from the root.
Way(t, key, k, c) ==
  /\ c \in [0 .. k -> Nat] /\ c[0] = Root
  /\ \A i \in 1 .. k :
       \E e \in t.edges : e.parent = c[i - 1] /\ e.segment = Split(key)[i] /\ e.child = c[i]

LeafAt(chain, key, doc) == [chain |-> chain, segment |-> Last(Split(key)), doc |-> doc]

\* put_index_entry adds one leaf at the end of the key's way, and what it builds is an
\* index again.
LEMMA PutKeepsIndex ==
  ASSUME NEW t, Indexed(t), NEW key \in Seq(Byte), NEW doc \in Doc
  PROVE  LET v == PutEntry(t, key, doc)
             n == Len(Split(key)) - 1
         IN /\ Indexed(v) /\ v.counter >= t.counter /\ t.edges \subseteq v.edges
            /\ \E c : Way(v, key, n, c) /\ v.leaves = t.leaves \cup {LeafAt(c[n], key, doc)}
<1> DEFINE segments == Front(Split(key))
           n == Len(segments)
           b == [trie |-> t, chain |-> Root]
<1>1. /\ segments \in Seq(Full) /\ n \in Nat /\ n = Len(Split(key)) - 1
      /\ \A i \in 1 .. n : segments[i] = Split(key)[i]
      /\ Last(Split(key)) \in Segment /\ Len(Split(key)) \in Nat
  BY Edges, SplitPieces
<1>2. PICK w \in [0 .. n -> Walk] :
        /\ w[0] = b
        /\ \A i \in 0 .. n : Sound(w[i])
        /\ \A i \in 1 .. n : Walked(w[i - 1], segments[i], w[i])
        /\ FoldLeft(FindOrCreate, b, segments) = w[n]
  <2> HIDE DEF segments
  <2> QED BY <1>1, PutKeepsWalk
<1> DEFINE u == w[n].trie
           leaf == LeafAt(w[n].chain, key, doc)
           v == PutEntry(t, key, doc)
<1>3. v = [u EXCEPT !.leaves = @ \cup {leaf}]
  BY <1>2 DEF PutEntry, LeafAt
<1>4. Sound(w[n])
  BY <1>1, <1>2
<1>5. leaf \in LeafRow /\ u \in Trie
  BY <1>1, <1>4 DEF Sound, Walk, LeafRow, LeafAt
<1>6. leaf.chain = w[n].chain /\ leaf.segment = Last(Split(key))
  BY DEF LeafAt
<1>7. w[0].chain = Root /\ w[0].trie = t
  BY <1>2
<1> HIDE DEF segments, n, b, u, leaf
<1>8. /\ v.leaves = u.leaves \cup {leaf} /\ v.edges = u.edges /\ v.counter = u.counter
      /\ v \in Trie
  BY <1>3, <1>5 DEF Trie
<1> HIDE DEF v
<1>9. Tree(v)
  BY <1>4, <1>8 DEF Tree, Sound, u
<1>10. Rooted(v)
  BY <1>4, <1>6, <1>8 DEF Rooted, Attached, Sound, u
<1>11. \A e \in v.edges : HasEntries(v, e.child)
  <2> SUFFICES ASSUME NEW e \in u.edges
               PROVE  HasEntries(v, e.child)
    BY <1>8
  <2>1. CASE e.child = w[n].chain
    BY <1>6, <1>8, <2>1 DEF HasEntries
  <2>2. CASE e.child # w[n].chain
    BY <1>4, <1>8, <2>2 DEF Sound, AliveBut, HasEntries, u
  <2> QED BY <2>1, <2>2
<1>12. ASSUME NEW i \in 0 .. n
       PROVE  /\ w[i].trie.counter >= t.counter /\ w[i].trie.leaves = t.leaves
              /\ t.edges \subseteq w[i].trie.edges
  <2> DEFINE S == {j \in 0 .. n :
                     /\ w[j].trie.counter >= t.counter /\ w[j].trie.leaves = t.leaves
                     /\ t.edges \subseteq w[j].trie.edges}
  <2>1. t.counter \in Nat /\ \A j \in 0 .. n : w[j].trie.counter \in Nat
    BY <1>2 DEF Sound, Walk, Trie, Indexed
  <2>2. 0 \in S
    BY <1>1, <1>7, <2>1
  <2>3. ASSUME NEW j \in 1 .. n, j - 1 \in S
        PROVE  j \in S
    <3>1. Walked(w[j - 1], segments[j], w[j])
      BY <1>2
    <3>2. j - 1 \in 0 .. n /\ j \in 0 .. n
      BY <1>1
    <3> QED BY <2>1, <2>3, <3>1, <3>2 DEF Walked
  <2>4. \A j \in 0 .. n : j \in S
    <3> HIDE DEF S
    <3> QED BY <1>1, <2>2, <2>3, UpTo
  <2> QED BY <2>4
<1>13. \A i \in 0 .. n : w[i].trie.edges \subseteq u.edges
  <2> DEFINE S == {i \in 0 .. n : w[i].trie.edges \subseteq u.edges}
  <2>1. n \in S
    BY <1>1 DEF u
  <2>2. ASSUME NEW i \in 1 .. n, i \in S
        PROVE  i - 1 \in S
    <3>1. w[i - 1].trie.edges \subseteq w[i].trie.edges
      BY <1>2 DEF Walked
    <3> QED BY <1>1, <2>2, <3>1
  <2>3. \A i \in 0 .. n : i \in S
    <3> HIDE DEF S
    <3> QED BY <1>1, <2>1, <2>2, DownFrom
  <2> QED BY <2>3
<1> DEFINE c == [i \in 0 .. n |-> w[i].chain]
<1>14. Way(v, key, n, c)
  <2>1. c \in [0 .. n -> Nat] /\ c[0] = Root
    BY <1>1, <1>2, <1>7 DEF Walk
  <2>2. ASSUME NEW i \in 1 .. n
        PROVE  \E e \in v.edges :
                 e.parent = c[i - 1] /\ e.segment = Split(key)[i] /\ e.child = c[i]
    <3>1. PICK e \in w[i].trie.edges :
            e.parent = w[i - 1].chain /\ e.segment = segments[i] /\ e.child = w[i].chain
      BY <1>2 DEF Walked
    <3>2. i \in 0 .. n /\ i - 1 \in 0 .. n
      BY <1>1
    <3>3. e \in v.edges
      BY <1>8, <1>13, <3>2
    <3> QED BY <1>1, <3>1, <3>2, <3>3
  <2> HIDE DEF c
  <2> QED BY <2>1, <2>2 DEF Way
<1>15. v.leaves = t.leaves \cup {LeafAt(c[n], key, doc)}
  <2>1. c[n] = w[n].chain
    BY <1>1
  <2> QED BY <1>1, <1>8, <1>12, <2>1 DEF u, leaf
<1>16. \A l \in v.leaves : l.chain = Root \/ l.segment # <<>>
  <2>1. CASE n = 0
    BY <1>6, <1>7, <1>8, <1>12, <2>1 DEF u, Indexed
  <2>2. CASE n # 0
    <3>1. leaf.segment # <<>>
      <4> HIDE DEF c
      <4>1. Len(Split(key)) # 1
        BY <1>1, <2>2
      <4>2. Last(Split(key)) # <<>>
        BY <4>1, LastPiece
      <4> QED BY <1>6, <4>2
    <3> QED BY <1>1, <1>8, <1>12, <3>1 DEF u, Indexed
  <2> QED BY <2>1, <2>2
<1>17. Indexed(v) /\ v.counter >= t.counter /\ t.edges \subseteq v.edges
  BY <1>1, <1>8, <1>9, <1>10, <1>11, <1>12, <1>16 DEF Indexed, u
<1> HIDE DEF c
<1> QED BY <1>1, <1>14, <1>15, <1>17 DEF v

-----------------------------------------------------------------------------
(* Deletes *)

Journey == [chain : Nat, path : Seq(EdgeRow), lost : BOOLEAN]
NoJourney == [chain |-> Root, path |-> <<>>, lost |-> FALSE]

\* One step of Follow.
Followed(t, w, segment) ==
  LET found == EdgesAt(t, w.chain, segment)
      edge == CHOOSE e \in found : TRUE
  IN IF w.lost \/ found = {} THEN [w EXCEPT !.lost = TRUE]
     ELSE [w EXCEPT !.chain = edge.child, !.path = Append(@, edge)]

\* A lookup goes on to a lookup.
LEMMA FollowedType ==
  ASSUME NEW t \in Trie, NEW w \in Journey, NEW segment
  PROVE  Followed(t, w, segment) \in Journey
<1> DEFINE found == EdgesAt(t, w.chain, segment)
           edge == CHOOSE e \in found : TRUE
<1>1. found \subseteq EdgeRow
  BY DEF EdgesAt, Trie
<1>2. CASE w.lost \/ found = {}
  BY <1>2 DEF Followed, Journey
<1>3. CASE ~(w.lost \/ found = {})
  <2>1. edge \in EdgeRow /\ edge.child \in Nat
    BY <1>1, <1>3 DEF EdgeRow
  <2>2. Append(w.path, edge) \in Seq(EdgeRow)
    BY <2>1, AppendProperties DEF Journey
  <2>3. Followed(t, w, segment) = [w EXCEPT !.chain = edge.child, !.path = Append(@, edge)]
    BY <1>3 DEF Followed
  <2> HIDE DEF edge
  <2> QED BY <2>1, <2>2, <2>3 DEF Journey
<1> QED BY <1>2, <1>3

\* delete_index_entry follows one segment after the other.
LEMMA FollowWalks ==
  ASSUME NEW t \in Trie, NEW segments \in Seq(Full)
  PROVE  \E w \in [0 .. Len(segments) -> Journey] :
           /\ w[0] = NoJourney
           /\ \A i \in 1 .. Len(segments) : w[i] = Followed(t, w[i - 1], segments[i])
           /\ Follow(t, segments) = w[Len(segments)]
<1> DEFINE n == Len(segments)
           D == SUBSET (1 .. n)
           Next1(f, s) ==
             IF s = {} THEN NoJourney ELSE Followed(t, f[s \ {Max(s)}], segments[Max(s)])
           fold == CHOOSE f : f = [s \in D |-> Next1(f, s)]
           pick == [s \in D |-> Max(s)]
           Step == [x \in Journey \X (1 .. n) |-> Followed(t, x[1], segments[x[2]])]
<1>1. n \in Nat /\ DOMAIN segments = 1 .. n /\ \A i \in 1 .. n : segments[i] \in Full
  OBVIOUS
<1>2. Follow(t, segments) = fold[1 .. n]
  BY <1>1 DEF Follow, Followed, NoJourney, FoldLeft, MapThenFoldSet
<1>3. \A s \in D : s # {} => Max(s) \in s
  BY <1>1, PlacesHaveEnds
<1>4. Step \in [Journey \X (1 .. n) -> Journey]
  BY <1>1, FollowedType
<1>5. NoJourney \in Journey
  BY DEF NoJourney, Journey, Root
<1>6. \E f \in [D -> Journey] : f = [s \in D |-> Next1(f, s)]
  <2>1. Picks(pick, n)
    BY <1>3 DEF Picks
  <2>2. PICK f \in [D -> Journey] : IsFold(f, n, NoJourney, pick, Step)
    <3> HIDE DEF Step, pick, n
    <3> QED BY <1>1, <1>4, <1>5, <2>1, FoldExists
  <2> HIDE DEF Step, pick
  <2>3. ASSUME NEW s \in D
        PROVE  f[s] = Next1(f, s)
    <3>1. s # {} => f[s \ {Max(s)}] \in Journey /\ Max(s) \in 1 .. n
      BY <1>3, <2>2
    <3>2. f[s] = IF s = {} THEN NoJourney ELSE Step[<<f[s \ {pick[s]}], pick[s]>>]
      BY <2>2 DEF IsFold
    <3> QED BY <3>1, <3>2 DEF Step, pick
  <2>4. f = [s \in D |-> Next1(f, s)]
    BY <2>2, <2>3
  <2> QED BY <2>4
<1>7. fold = [s \in D |-> Next1(fold, s)]
  BY <1>6
<1> HIDE DEF fold
<1> DEFINE w == [i \in 0 .. n |-> fold[1 .. i]]
<1>8. w[0] = NoJourney
  BY <1>1, <1>7
<1>9. \A i \in 1 .. n : w[i] = Followed(t, w[i - 1], segments[i])
  <2> SUFFICES ASSUME NEW i \in 1 .. n
               PROVE  w[i] = Followed(t, w[i - 1], segments[i])
    OBVIOUS
  <2>1. /\ 1 .. i \in D /\ 1 .. i # {} /\ i - 1 \in 0 .. n
        /\ Max(1 .. i) = i /\ (1 .. i) \ {i} = 1 .. i - 1
    <3> HIDE DEF n
    <3> QED BY <1>1, LastPlace
  <2>2. fold[1 .. i] = Followed(t, fold[1 .. i - 1], segments[i])
    BY <1>7, <2>1
  <2> QED BY <2>1, <2>2
<1>10. w \in [0 .. n -> Journey]
  <2> DEFINE S == {i \in 0 .. n : w[i] \in Journey}
  <2> HIDE DEF w
  <2>1. 0 \in S
    BY <1>1, <1>5, <1>8
  <2>2. \A i \in 1 .. n : i - 1 \in S => i \in S
    BY <1>1, <1>9, FollowedType
  <2>3. \A i \in 0 .. n : i \in S
    <3> HIDE DEF S
    <3> QED BY <1>1, <2>1, <2>2, UpTo
  <2> QED BY <2>3 DEF w
<1>11. Follow(t, segments) = w[n]
  BY <1>1, <1>2
<1> QED BY <1>8, <1>9, <1>10, <1>11

\* The edges of a journey lead from the root to the node it stands at.
Leads(t, segments, i, w) ==
  /\ Len(w.path) = i
  /\ \A j \in 1 .. i :
       /\ w.path[j] \in t.edges /\ w.path[j].segment = segments[j]
       /\ w.path[j].parent = IF j = 1 THEN Root ELSE w.path[j - 1].child
  /\ w.chain = IF i = 0 THEN Root ELSE w.path[i].child

\* A lookup that is not lost found an edge for every segment.
LEMMA FollowLeads ==
  ASSUME NEW t \in Trie, NEW segments \in Seq(Full)
  PROVE  /\ Follow(t, segments) \in Journey
         /\ ~Follow(t, segments).lost => Leads(t, segments, Len(segments), Follow(t, segments))
<1> DEFINE n == Len(segments)
<1>1. PICK w \in [0 .. n -> Journey] :
        /\ w[0] = NoJourney
        /\ \A i \in 1 .. n : w[i] = Followed(t, w[i - 1], segments[i])
        /\ Follow(t, segments) = w[n]
  BY FollowWalks
<1>2. n \in Nat
  OBVIOUS
<1> DEFINE S == {i \in 0 .. n : ~w[i].lost => Leads(t, segments, i, w[i])}
<1>3. 0 \in S
  BY <1>1, <1>2 DEF Leads, NoJourney
<1>4. ASSUME NEW i \in 1 .. n, i - 1 \in S
      PROVE  i \in S
  <2> SUFFICES ASSUME ~w[i].lost
               PROVE  Leads(t, segments, i, w[i])
    OBVIOUS
  <2> DEFINE u == w[i - 1]
             found == EdgesAt(t, u.chain, segments[i])
             edge == CHOOSE e \in found : TRUE
  <2>1. i - 1 \in 0 .. n /\ i \in Nat /\ u \in Journey /\ w[i] = Followed(t, u, segments[i])
    BY <1>1, <1>2
  <2>2. ~(u.lost \/ found = {})
    <3> SUFFICES ASSUME u.lost \/ found = {}
                 PROVE  w[i].lost
      OBVIOUS
    <3>1. w[i] = [u EXCEPT !.lost = TRUE]
      BY <2>1 DEF Followed
    <3> HIDE DEF u
    <3> QED BY <2>1, <3>1 DEF Journey
  <2>3. w[i] = [u EXCEPT !.chain = edge.child, !.path = Append(@, edge)]
    BY <2>1, <2>2 DEF Followed
  <2>4. edge \in t.edges /\ edge.parent = u.chain /\ edge.segment = segments[i]
    BY <2>2 DEF EdgesAt
  <2>5. Leads(t, segments, i - 1, u)
    BY <1>4, <2>2
  <2>6. edge \in EdgeRow /\ u.path \in Seq(EdgeRow)
    BY <2>1, <2>4 DEF Trie, Journey
  <2> HIDE DEF u, edge
  <2>7. /\ Len(Append(u.path, edge)) = i /\ Append(u.path, edge)[i] = edge
        /\ \A j \in 1 .. i - 1 : Append(u.path, edge)[j] = u.path[j]
    BY <2>1, <2>5, <2>6 DEF Leads
  <2>8. w[i].path = Append(u.path, edge) /\ w[i].chain = edge.child
    BY <2>1, <2>3 DEF Journey
  <2>9. ASSUME NEW j \in 1 .. i
        PROVE  /\ w[i].path[j] \in t.edges /\ w[i].path[j].segment = segments[j]
               /\ w[i].path[j].parent = IF j = 1 THEN Root ELSE w[i].path[j - 1].child
    <3>1. CASE j = i
      BY <2>1, <2>4, <2>5, <2>7, <2>8, <3>1 DEF Leads
    <3>2. CASE j # i
      <4>1. j \in 1 .. i - 1 /\ (j # 1 => j - 1 \in 1 .. i - 1)
        BY <2>1, <3>2
      <4>2. /\ u.path[j] \in t.edges /\ u.path[j].segment = segments[j]
            /\ u.path[j].parent = IF j = 1 THEN Root ELSE u.path[j - 1].child
        BY <2>5, <4>1 DEF Leads
      <4>3. w[i].path[j] = u.path[j] /\ (j # 1 => w[i].path[j - 1] = u.path[j - 1])
        BY <2>7, <2>8, <4>1
      <4> QED BY <4>2, <4>3
    <3> QED BY <3>1, <3>2
  <2>10. i # 0 /\ w[i].path[i] = edge
    BY <2>1, <2>7, <2>8
  <2> QED BY <2>7, <2>8, <2>9, <2>10 DEF Leads
<1>5. n \in S
  <2> HIDE DEF S, n
  <2>1. \A i \in 0 .. n : i \in S
    BY <1>2, <1>3, <1>4, UpTo
  <2> QED BY <1>2, <2>1
<1> QED BY <1>1, <1>2, <1>5

Pruning == [trie : Trie, stop : BOOLEAN]

\* One step of Prune.
Pruned(edge, acc) ==
  IF acc.stop \/ HasEntries(acc.trie, edge.child) THEN [acc EXCEPT !.stop = TRUE]
  ELSE [acc EXCEPT !.trie.edges = @ \ {edge}]

\* Each step of the prune loop yields a trie.
LEMMA PrunedType ==
  ASSUME NEW acc \in Pruning, NEW edge
  PROVE  Pruned(edge, acc) \in Pruning
BY DEF Pruned, Pruning, Trie

\* delete_index_entry goes back along the path, from the last edge to the first.
LEMMA PruneWalks ==
  ASSUME NEW t \in Trie, NEW path \in Seq(EdgeRow)
  PROVE  \E w \in [0 .. Len(path) -> Pruning] :
           /\ w[Len(path)] = [trie |-> t, stop |-> FALSE]
           /\ \A i \in 1 .. Len(path) : w[i - 1] = Pruned(path[i], w[i])
           /\ Prune(t, path) = w[0].trie
<1> DEFINE n == Len(path)
           b == [trie |-> t, stop |-> FALSE]
           D == SUBSET (1 .. n)
           Next1(f, s) == IF s = {} THEN b ELSE Pruned(path[Min(s)], f[s \ {Min(s)}])
           fold == CHOOSE f : f = [s \in D |-> Next1(f, s)]
           pick == [s \in D |-> Min(s)]
           Step == [x \in Pruning \X (1 .. n) |-> Pruned(path[x[2]], x[1])]
<1>1. n \in Nat /\ DOMAIN path = 1 .. n
  OBVIOUS
<1>2. Prune(t, path) = fold[1 .. n].trie
  BY <1>1 DEF Prune, Pruned, FoldRight, MapThenFoldSet
<1>3. \A s \in D : s # {} => Min(s) \in s
  BY <1>1, PlacesHaveEnds
<1>4. Step \in [Pruning \X (1 .. n) -> Pruning]
  BY <1>1, PrunedType
<1>5. b \in Pruning
  BY DEF Pruning
<1>6. \E f \in [D -> Pruning] : f = [s \in D |-> Next1(f, s)]
  <2>1. Picks(pick, n)
    BY <1>3 DEF Picks
  <2>2. PICK f \in [D -> Pruning] : IsFold(f, n, b, pick, Step)
    <3> HIDE DEF Step, pick, n, b
    <3> QED BY <1>1, <1>4, <1>5, <2>1, FoldExists
  <2> HIDE DEF Step, pick, b
  <2>3. ASSUME NEW s \in D
        PROVE  f[s] = Next1(f, s)
    <3>1. s # {} => f[s \ {Min(s)}] \in Pruning /\ Min(s) \in 1 .. n
      BY <1>3, <2>2
    <3>2. f[s] = IF s = {} THEN b ELSE Step[<<f[s \ {pick[s]}], pick[s]>>]
      BY <2>2 DEF IsFold
    <3> QED BY <3>1, <3>2 DEF Step, pick
  <2>4. f = [s \in D |-> Next1(f, s)]
    BY <2>2, <2>3
  <2> QED BY <2>4
<1>7. fold = [s \in D |-> Next1(fold, s)]
  BY <1>6
<1> HIDE DEF fold, b
<1> DEFINE w == [i \in 0 .. n |-> fold[i + 1 .. n]]
<1>8. w[n] = b
  <2>1. n + 1 .. n = {} /\ n \in 0 .. n
    BY <1>1
  <2> QED BY <1>7, <2>1
<1>9. \A i \in 1 .. n : w[i - 1] = Pruned(path[i], w[i])
  <2> SUFFICES ASSUME NEW i \in 1 .. n
               PROVE  w[i - 1] = Pruned(path[i], w[i])
    OBVIOUS
  <2>1. /\ i .. n \in D /\ i .. n # {}
        /\ Min(i .. n) = i /\ (i .. n) \ {i} = i + 1 .. n
    <3> HIDE DEF n
    <3> QED BY <1>1, FirstPlace
  <2>2. fold[i .. n] = Pruned(path[i], fold[i + 1 .. n])
    BY <1>7, <2>1
  <2>3. i - 1 \in 0 .. n /\ i \in 0 .. n /\ (i - 1) + 1 = i
    BY <1>1
  <2>4. w[i - 1] = fold[i .. n] /\ w[i] = fold[i + 1 .. n]
    BY <2>3
  <2> QED BY <2>2, <2>4
<1>10. w \in [0 .. n -> Pruning]
  <2> DEFINE S == {i \in 0 .. n : w[i] \in Pruning}
  <2> HIDE DEF w
  <2>1. n \in S
    BY <1>1, <1>5, <1>8
  <2>2. \A i \in 1 .. n : i \in S => i - 1 \in S
    BY <1>1, <1>9, PrunedType
  <2>3. \A i \in 0 .. n : i \in S
    <3> HIDE DEF S
    <3> QED BY <1>1, <2>1, <2>2, DownFrom
  <2> QED BY <2>3 DEF w
<1>11. Prune(t, path) = w[0].trie
  BY <1>1, <1>2
<1> QED BY <1>8, <1>9, <1>10, <1>11 DEF b

\* While delete_index_entry goes back the trie is a tree, and unless it has stopped only
\* the next edge of the path may lead nowhere.
Prunable(t, path, i, acc) ==
  /\ acc \in Pruning
  /\ acc.trie.leaves = t.leaves /\ acc.trie.counter = t.counter
  /\ acc.trie.edges \subseteq t.edges
  /\ Rooted(acc.trie)
  /\ IF acc.stop THEN \A e \in acc.trie.edges : HasEntries(acc.trie, e.child)
     ELSE \A e \in acc.trie.edges : (i = 0 \/ e # path[i]) => HasEntries(acc.trie, e.child)

\* A path of edges from the root.
IsPath(t, path) ==
  \A j \in 1 .. Len(path) :
    /\ path[j] \in t.edges
    /\ path[j].parent = IF j = 1 THEN Root ELSE path[j - 1].child

\* prune_edge: an edge without entries below it goes, the rest of the tree stays.
LEMMA PrunedKeeps ==
  ASSUME NEW t \in Trie, Tree(t), NEW path \in Seq(EdgeRow), IsPath(t, path),
         NEW i \in 1 .. Len(path), NEW acc, Prunable(t, path, i, acc)
  PROVE  Prunable(t, path, i - 1, Pruned(path[i], acc))
<1> DEFINE v == Pruned(path[i], acc)
           u == acc.trie
<1>1. /\ v \in Pruning /\ u \in Trie /\ acc.stop \in BOOLEAN
      /\ \A e \in t.edges : e.parent \in Nat /\ e.child \in Nat
      /\ i \in Nat /\ i # 0
  <2>1. v \in Pruning
    BY PrunedType DEF Prunable
  <2> HIDE DEF v
  <2> QED BY <2>1 DEF Prunable, Pruning, Trie, EdgeRow
<1>2. CASE acc.stop
  <2>1. v = [acc EXCEPT !.stop = TRUE]
    BY <1>2 DEF Pruned
  <2>2. v.trie = u /\ v.stop
    BY <2>1 DEF Prunable, Pruning
  <2> HIDE DEF v
  <2>3. Prunable(t, path, i - 1, v)
    BY <1>1, <1>2, <2>2 DEF Prunable
  <2> QED BY <2>3 DEF v
<1>3. CASE ~acc.stop /\ HasEntries(u, path[i].child)
  <2>1. v = [acc EXCEPT !.stop = TRUE]
    BY <1>3 DEF Pruned
  <2>2. v.trie = u /\ v.stop
    BY <2>1 DEF Prunable, Pruning
  <2> HIDE DEF v
  <2>3. \A e \in u.edges : HasEntries(u, e.child)
    BY <1>3 DEF Prunable
  <2>4. Prunable(t, path, i - 1, v)
    BY <1>1, <2>2, <2>3 DEF Prunable
  <2> QED BY <2>4 DEF v
<1>4. CASE ~acc.stop /\ ~HasEntries(u, path[i].child)
  <2> DEFINE edge == path[i]
  <2>1. v = [acc EXCEPT !.trie.edges = @ \ {edge}]
    BY <1>4 DEF Pruned
  <2>2. /\ v.trie.edges = u.edges \ {edge} /\ v.trie.leaves = u.leaves
        /\ v.trie.counter = u.counter /\ ~v.stop
    BY <1>1, <1>4, <2>1 DEF Prunable, Pruning, Trie
  <2>3. edge \in t.edges /\ edge.parent = IF i = 1 THEN Root ELSE path[i - 1].child
    BY DEF IsPath
  <2>4. u.edges \subseteq t.edges
    BY DEF Prunable
  <2>5. \A e, f \in t.edges :
          /\ e.parent < e.child
          /\ e.child = f.child => e = f
    BY DEF Tree
  <2> HIDE DEF v, u, edge
  <2>6. \A chain : Attached(u, chain) /\ chain # edge.child => Attached(v.trie, chain)
    BY <2>2 DEF Attached
  <2>7. Rooted(v.trie)
    <3>1. \A l \in u.leaves : l.chain # edge.child
      BY <1>4 DEF HasEntries, edge
    <3>2. \A e \in u.edges : e.parent # edge.child
      BY <1>4 DEF HasEntries, edge
    <3>3. Rooted(u)
      BY DEF Prunable, u
    <3> QED BY <2>2, <2>6, <3>1, <3>2, <3>3 DEF Rooted
  <2>8. ASSUME NEW e \in v.trie.edges, i - 1 = 0 \/ e # path[i - 1]
        PROVE  HasEntries(v.trie, e.child)
    <3>1. e \in u.edges /\ e # edge
      BY <2>2, <2>8
    <3>2. HasEntries(u, e.child)
      BY <1>4, <3>1 DEF Prunable, u, edge
    <3>3. edge.parent # e.child
      <4>1. CASE i = 1
        BY <1>1, <2>3, <2>4, <2>5, <3>1, <4>1 DEF Root
      <4>2. CASE i # 1
        <5>1. i - 1 \in 1 .. Len(path) /\ i - 1 # 0
          BY <1>1, <4>2
        <5>2. path[i - 1] \in t.edges /\ edge.parent = path[i - 1].child
          BY <2>3, <4>2, <5>1 DEF IsPath
        <5> QED BY <2>4, <2>5, <2>8, <3>1, <5>1, <5>2
      <4> QED BY <4>1, <4>2
    <3> QED BY <2>2, <3>2, <3>3 DEF HasEntries
  <2>9. v.trie.edges \subseteq t.edges /\ v.trie.leaves = t.leaves /\ v.trie.counter = t.counter
    BY <2>2, <2>4 DEF Prunable, u
  <2>10. Prunable(t, path, i - 1, v)
    BY <1>1, <2>2, <2>7, <2>8, <2>9 DEF Prunable
  <2> QED BY <2>10 DEF v
<1> QED BY <1>1, <1>2, <1>3, <1>4

\* Follow finds the way of a key, and is lost where there is none.
LEMMA FollowFinds ==
  ASSUME NEW t, t \in Trie, Tree(t), NEW key \in Seq(Byte)
  PROVE  LET walk == Follow(t, Front(Split(key)))
             n == Len(Split(key)) - 1
         IN IF walk.lost THEN \A c : ~Way(t, key, n, c)
            ELSE \E c : Way(t, key, n, c) /\ walk.chain = c[n]
<1> DEFINE segments == Front(Split(key))
           n == Len(segments)
           walk == Follow(t, segments)
<1>1. /\ segments \in Seq(Full) /\ n \in Nat /\ n = Len(Split(key)) - 1
      /\ \A i \in 1 .. n : segments[i] = Split(key)[i]
  BY Edges
<1>2. /\ walk \in Journey
      /\ ~walk.lost => Leads(t, segments, n, walk)
  <2> HIDE DEF segments
  <2> QED BY <1>1, FollowLeads
<1>3. CASE ~walk.lost
  <2> DEFINE c == [i \in 0 .. n |-> IF i = 0 THEN Root ELSE walk.path[i].child]
  <2> HIDE DEF walk, segments, n
  <2>1. c \in [0 .. n -> Nat]
    BY <1>1, <1>2, <1>3 DEF Root, Leads, Trie, EdgeRow
  <2>2. ASSUME NEW i \in 1 .. n
        PROVE  \E e \in t.edges :
                 e.parent = c[i - 1] /\ e.segment = Split(key)[i] /\ e.child = c[i]
    <3>1. /\ walk.path[i] \in t.edges /\ walk.path[i].segment = segments[i]
          /\ walk.path[i].parent = IF i = 1 THEN Root ELSE walk.path[i - 1].child
      BY <1>2, <1>3 DEF Leads
    <3>2. i \in 0 .. n /\ i - 1 \in 0 .. n /\ i # 0 /\ (i = 1 <=> i - 1 = 0)
      BY <1>1
    <3> QED BY <1>1, <3>1, <3>2
  <2>3. c[0] = Root /\ walk.chain = c[n]
    BY <1>1, <1>2, <1>3 DEF Leads
  <2> HIDE DEF c
  <2>4. Way(t, key, n, c)
    BY <2>1, <2>2, <2>3 DEF Way
  <2> QED BY <1>1, <1>3, <2>3, <2>4 DEF walk, segments
<1>4. ASSUME walk.lost, NEW c, Way(t, key, n, c)
      PROVE  FALSE
  <2>1. PICK w \in [0 .. n -> Journey] :
          /\ w[0] = NoJourney
          /\ \A i \in 1 .. n : w[i] = Followed(t, w[i - 1], segments[i])
          /\ walk = w[n]
    <3> HIDE DEF segments
    <3> QED BY <1>1, FollowWalks
  <2> HIDE DEF walk, segments, n
  <2> DEFINE S == {i \in 0 .. n : ~w[i].lost /\ w[i].chain = c[i]}
  <2>2. 0 \in S
    BY <1>1, <1>4, <2>1 DEF NoJourney, Way
  <2>3. ASSUME NEW i \in 1 .. n, i - 1 \in S
        PROVE  i \in S
    <3> DEFINE u == w[i - 1]
               found == EdgesAt(t, u.chain, segments[i])
               edge == CHOOSE e \in found : TRUE
    <3> HIDE DEF found, edge
    <3>9. i \in 0 .. n /\ i - 1 \in 0 .. n
      BY <1>1
    <3>8. u \in Journey /\ ~u.lost /\ u.chain = c[i - 1]
      BY <2>1, <2>3, <3>9
    <3>1. /\ u \in Journey /\ ~u.lost /\ u.chain = c[i - 1] /\ i \in 0 .. n
          /\ w[i] = Followed(t, u, segments[i])
      BY <2>1, <3>8, <3>9
    <3> USE DEF found, edge
    <3>2. PICK e \in t.edges :
            e.parent = c[i - 1] /\ e.segment = Split(key)[i] /\ e.child = c[i]
      BY <1>4 DEF Way
    <3>3. e \in found
      BY <1>1, <3>1, <3>2 DEF EdgesAt
    <3>4. edge \in t.edges /\ edge.parent = e.parent /\ edge.segment = e.segment
      BY <1>1, <3>1, <3>2, <3>3 DEF EdgesAt
    <3>5. w[i] = [u EXCEPT !.chain = edge.child, !.path = Append(@, edge)]
      BY <3>1, <3>3 DEF Followed
    <3> HIDE DEF u, edge
    <3>6. edge = e
      BY <3>4 DEF Tree
    <3>7. w[i].lost = u.lost /\ w[i].chain = edge.child
      BY <3>1, <3>5 DEF Journey
    <3> QED BY <3>1, <3>2, <3>6, <3>7
  <2>4. \A i \in 0 .. n : i \in S
    <3> HIDE DEF S
    <3> QED BY <1>1, <2>2, <2>3, UpTo
  <2> QED BY <1>1, <1>4, <2>1, <2>4
<1> HIDE DEF walk, segments, n
<1> QED BY <1>1, <1>3, <1>4 DEF walk, segments

\* delete_index_entry takes the leaf at the end of the key's way, if there is one, and
\* the edges that then lead nowhere; what it leaves is an index again.
LEMMA DeleteKeepsIndex ==
  ASSUME NEW t, Indexed(t), NEW key \in Seq(Byte), NEW doc
  PROVE  LET v == DeleteEntry(t, key, doc)
             n == Len(Split(key)) - 1
         IN /\ Indexed(v) /\ v.counter = t.counter /\ v.edges \subseteq t.edges
            /\ \/ v.leaves = t.leaves /\ \A c : ~Way(t, key, n, c)
               \/ \E c : Way(t, key, n, c) /\ v.leaves = t.leaves \ {LeafAt(c[n], key, doc)}
<1> DEFINE segments == Front(Split(key))
           walk == Follow(t, segments)
           leaf == LeafAt(walk.chain, key, doc)
           v == DeleteEntry(t, key, doc)
           u == [t EXCEPT !.leaves = @ \ {leaf}]
           path == walk.path
           n == Len(path)
<1>1. segments \in Seq(Full) /\ t \in Trie
  BY Edges DEF Indexed
<1>2. walk \in Journey /\ (~walk.lost => Leads(t, segments, Len(segments), walk))
  <2> HIDE DEF segments
  <2> QED BY <1>1, FollowLeads
<1> DEFINE m == Len(Split(key)) - 1
<1>3. IF walk.lost THEN \A c : ~Way(t, key, m, c)
      ELSE \E c : Way(t, key, m, c) /\ walk.chain = c[m]
  BY FollowFinds DEF Indexed
<1>4. CASE walk.lost
  <2>1. v = t
    BY <1>4 DEF DeleteEntry
  <2> HIDE DEF v, walk, m
  <2>2. v.leaves = t.leaves /\ \A c : ~Way(t, key, m, c)
    BY <1>3, <1>4, <2>1
  <2> QED BY <2>1, <2>2 DEF v, m, Indexed, Trie
<1>5. CASE ~walk.lost
  <2>1. v = Prune(u, path)
    BY <1>5 DEF DeleteEntry, LeafAt
  <2>2. /\ u \in Trie /\ u.edges = t.edges /\ u.leaves = t.leaves \ {leaf}
        /\ u.counter = t.counter
    BY <1>1 DEF Trie
  <2>3. path \in Seq(EdgeRow) /\ n \in Nat /\ leaf.chain = walk.chain
    BY <1>2 DEF Journey, LeafAt
  <2>4. /\ n = Len(segments)
        /\ walk.chain = IF n = 0 THEN Root ELSE path[n].child
        /\ IsPath(u, path)
    BY <1>2, <1>5, <2>2 DEF Leads, IsPath
  <2> HIDE DEF segments, walk, leaf, v, u, path, n, m
  <2>5. PICK w \in [0 .. n -> Pruning] :
          /\ w[n] = [trie |-> u, stop |-> FALSE]
          /\ \A i \in 1 .. n : w[i - 1] = Pruned(path[i], w[i])
          /\ Prune(u, path) = w[0].trie
    BY <2>2, <2>3, PruneWalks DEF n
  <2>6. Tree(u)
    BY <2>2 DEF Indexed, Tree
  <2> DEFINE S == {i \in 0 .. n : Prunable(u, path, i, w[i])}
  <2>7. n \in S
    <3>1. w[n] \in Pruning /\ w[n].trie = u /\ ~w[n].stop
      BY <2>2, <2>5 DEF Pruning
    <3>2. Rooted(u)
      BY <2>2 DEF Indexed, Rooted, Attached
    <3>3. ASSUME NEW e \in u.edges, n = 0 \/ e # path[n]
          PROVE  HasEntries(u, e.child)
      <4>1. e.child # leaf.chain
        <5>1. CASE n = 0
          BY <2>2, <2>3, <2>4, <5>1 DEF Indexed, Tree, Root, Trie, EdgeRow
        <5>2. CASE n # 0
          <6>1. n \in 1 .. n
            BY <2>3, <5>2
          <6>2. path[n] \in u.edges
            BY <2>4, <6>1 DEF IsPath, n
          <6> QED BY <2>3, <2>4, <2>6, <3>3, <5>2, <6>2 DEF Tree
        <5> QED BY <5>1, <5>2
      <4>2. HasEntries(t, e.child)
        BY <2>2 DEF Indexed
      <4> QED BY <2>2, <4>1, <4>2 DEF HasEntries
    <3>4. Prunable(u, path, n, w[n])
      BY <3>1, <3>2, <3>3 DEF Prunable
    <3> QED BY <2>3, <3>4
  <2>8. \A i \in 1 .. n : i \in S => i - 1 \in S
    BY <2>2, <2>3, <2>4, <2>5, <2>6, PrunedKeeps DEF n
  <2>9. 0 \in S
    <3> HIDE DEF S
    <3> QED BY <2>3, <2>7, <2>8, DownFrom
  <2>10. v = w[0].trie /\ Prunable(u, path, 0, w[0])
    BY <2>1, <2>5, <2>9
  <2>11. /\ v \in Trie /\ v.leaves = u.leaves /\ v.counter = u.counter
         /\ v.edges \subseteq u.edges /\ Rooted(v)
         /\ \A e \in v.edges : HasEntries(v, e.child)
    BY <2>10 DEF Prunable, Pruning
  <2>12. Tree(v)
    BY <2>6, <2>11 DEF Tree
  <2>13. Indexed(v)
    BY <2>2, <2>11, <2>12 DEF Indexed
  <2>14. v.counter = t.counter /\ v.edges \subseteq t.edges /\ v.leaves = t.leaves \ {leaf}
    BY <2>2, <2>11
  <2>15. \E c : Way(t, key, m, c) /\ v.leaves = t.leaves \ {LeafAt(c[m], key, doc)}
    BY <1>3, <1>5, <2>14 DEF leaf
  <2> QED BY <2>13, <2>14, <2>15 DEF v, m
<1> QED BY <1>4, <1>5

-----------------------------------------------------------------------------
(* The invariants *)

IndexInv ==
  /\ Indexed(trie)
  /\ saved \in Nat /\ saved <= trie.counter /\ trie.counter <= MaxChain
  /\ \A e \in trie.edges : e.child <= saved

\* An empty trie is well formed.
LEMMA InitIndex == Init => IndexInv
<1> SUFFICES ASSUME Init
             PROVE  IndexInv
  OBVIOUS
<1>1. trie.edges = {} /\ trie.leaves = {} /\ trie.counter = 0 /\ saved = 0
  BY DEF Init, Empty, Root
<1>2. trie \in Trie
  BY DEF Init, Empty, Root, Trie
<1> QED BY <1>1, <1>2, ChainAssumption DEF IndexInv, Indexed, Tree, Rooted

\* Every write, every failed put and every restart keeps the trie well formed.
LEMMA NextIndex == IndexInv /\ [Next]_vars => IndexInv'
<1> SUFFICES ASSUME IndexInv, [Next]_vars
             PROVE  IndexInv'
  OBVIOUS
<1>1. Indexed(trie) /\ trie \in Trie /\ trie.counter \in Nat
  BY DEF IndexInv, Indexed, Trie
<1>2. Key \subseteq Seq(Byte)
  BY KeyAssumption
<1>3. ASSUME NEW key \in Key, NEW doc \in Doc, Put(key, doc)
      PROVE  IndexInv'
  <2>1. Indexed(trie')
    BY <1>1, <1>2, <1>3, PutKeepsIndex DEF Put
  <2>2. saved' = trie'.counter /\ trie'.counter <= MaxChain
    BY <1>3 DEF Put
  <2>3. trie'.counter \in Nat /\ \A e \in trie'.edges : e.child <= trie'.counter
    BY <2>1 DEF Indexed, Trie, Tree
  <2> QED BY <2>1, <2>2, <2>3 DEF IndexInv
<1>4. ASSUME NEW key \in Key, NEW doc \in Doc, Delete(key, doc)
      PROVE  IndexInv'
  <2>1. Indexed(trie') /\ trie'.counter = trie.counter
    BY <1>1, <1>2, <1>4, DeleteKeepsIndex DEF Delete
  <2>2. saved' = trie.counter
    BY <1>4 DEF Delete
  <2>3. \A e \in trie'.edges : e.child <= trie'.counter
    BY <2>1 DEF Indexed, Tree
  <2> QED BY <1>1, <2>1, <2>2, <2>3 DEF IndexInv
<1>5. ASSUME NEW n \in Nat, n >= saved, n <= MaxChain,
             trie' = [trie EXCEPT !.counter = n], UNCHANGED saved
      PROVE  IndexInv'
  <2>1. /\ trie'.edges = trie.edges /\ trie'.leaves = trie.leaves /\ trie'.counter = n
        /\ trie' \in Trie
    BY <1>1, <1>5 DEF Trie
  <2>2. \A e \in trie.edges : e.child <= n
    BY <1>1, <1>5 DEF IndexInv, Trie, EdgeRow
  <2>3. Tree(trie')
    BY <1>1, <2>1, <2>2 DEF Indexed, Tree
  <2>4. Rooted(trie') /\ \A e \in trie'.edges : HasEntries(trie', e.child)
    BY <1>1, <2>1 DEF Indexed, Rooted, Attached, HasEntries
  <2> QED BY <1>5, <2>1, <2>3, <2>4 DEF IndexInv, Indexed
<1>6. ASSUME NEW key \in Key, NEW doc \in Doc, AbortPut(key, doc)
      PROVE  IndexInv'
  <2> DEFINE n == PutEntry(trie, key, doc).counter
  <2>1. n \in Nat /\ n >= trie.counter
    BY <1>1, <1>2, PutKeepsIndex DEF Indexed, Trie
  <2>2. trie' = [trie EXCEPT !.counter = n] /\ trie'.counter <= MaxChain /\ UNCHANGED saved
    BY <1>6 DEF AbortPut
  <2> HIDE DEF n
  <2>3. trie'.counter = n
    BY <1>1, <2>2 DEF Trie
  <2>4. n >= saved /\ n <= MaxChain
    BY <1>1, <2>1, <2>2, <2>3 DEF IndexInv
  <2> QED BY <1>5, <2>1, <2>2, <2>4
<1>7. CASE Reopen
  <2>1. saved \in Nat /\ saved >= saved /\ saved <= MaxChain
    BY <1>1, ChainAssumption DEF IndexInv
  <2> QED BY <1>5, <1>7, <2>1 DEF Reopen
<1>8. CASE UNCHANGED vars
  BY <1>8 DEF vars, IndexInv
<1> QED BY <1>3, <1>4, <1>6, <1>7, <1>8 DEF Next

\* Every variable keeps its type, and every stored segment fits an LMDB key.
LEMMA IndexTyped == IndexInv => TypeOK
<1> SUFFICES ASSUME IndexInv
             PROVE  TypeOK
  OBVIOUS
<1>1. trie \in Trie /\ saved \in Nat /\ saved <= trie.counter /\ trie.counter <= MaxChain
  BY DEF IndexInv, Indexed
<1>2. trie.counter \in Chain /\ saved \in Chain /\ 0 \in Chain
  BY <1>1, ChainAssumption DEF Chain, Trie
<1>3. ASSUME NEW e \in trie.edges
      PROVE  e.parent \in Chain /\ e.child \in Chain /\ e.segment \in Segment
  <2>1. e \in EdgeRow /\ e.parent < e.child /\ e.child <= trie.counter
    BY <1>1 DEF IndexInv, Indexed, Tree, Trie
  <2>2. trie.counter \in Nat
    BY <1>1 DEF Trie
  <2> QED BY <1>1, <2>1, <2>2, ChainAssumption, FullFits DEF EdgeRow, Chain
<1>4. ASSUME NEW l \in trie.leaves
      PROVE  l.chain \in Chain /\ l.doc \in Doc /\ l.segment \in Segment
  <2>1. l \in LeafRow
    BY <1>1 DEF Trie
  <2>2. l.chain = Root \/ \E e \in trie.edges : e.child = l.chain
    BY DEF IndexInv, Indexed, Rooted, Attached
  <2> QED BY <1>2, <1>3, <2>1, <2>2 DEF LeafRow, Root
<1> QED BY <1>2, <1>3, <1>4 DEF TypeOK

\* put, delete and a restart: the index is a tree whose every entry can be reached and
\* whose every edge leads to an entry.
LEMMA IndexShaped == IndexInv => IsTree /\ NothingDetached /\ NoDeadEdges
<1> SUFFICES ASSUME IndexInv
             PROVE  IsTree /\ NothingDetached /\ NoDeadEdges
  OBVIOUS
<1>1. IsTree
  BY DEF IndexInv, Indexed, Tree, IsTree
<1>2. NothingDetached
  BY DEF IndexInv, Indexed, Rooted, NothingDetached
<1>3. NoDeadEdges
  BY DEF IndexInv, Indexed, HasEntries, NoDeadEdges
<1> QED BY <1>1, <1>2, <1>3

\* The trie is well formed in every state.
LEMMA Indexing == Spec => []IndexInv
BY InitIndex, NextIndex, PTL DEF Spec

\* TypeOK for every segment size and every set of keys and documents.
THEOREM SegmentsFit == Spec => []TypeOK
BY Indexing, IndexTyped, PTL

\* allocate_chain_id and save_counters: the edges form a tree, whatever puts failed and
\* however often the counter was taken back.
THEOREM EdgesFormATree == Spec => []IsTree
BY Indexing, IndexShaped, PTL

\* No scan from the root can miss an entry.
THEOREM EntriesAreReachable == Spec => []NothingDetached
BY Indexing, IndexShaped, PTL

\* delete_index_entry leaves no edge that leads nowhere.
THEOREM DeletesPrune == Spec => []NoDeadEdges
BY Indexing, IndexShaped, PTL

-----------------------------------------------------------------------------
(* What a scan relies on *)

\* Only the root holds a leaf whose key ends with the way to its node.
Spared(t) ==
  /\ IsFiniteSet(t.leaves)
  /\ \A l \in t.leaves : l.segment = <<>> => l.chain = Root

\* A put adds one leaf, an empty segment only to a key that is empty itself.
LEMMA PutSpares ==
  ASSUME NEW t, Indexed(t), Spared(t), NEW key \in Seq(Byte), NEW doc \in Doc
  PROVE  Spared(PutEntry(t, key, doc))
<1> DEFINE v == PutEntry(t, key, doc)
           n == Len(Split(key)) - 1
<1>1. PICK c : Way(v, key, n, c) /\ v.leaves = t.leaves \cup {LeafAt(c[n], key, doc)}
  BY PutKeepsIndex
<1>2. IsFiniteSet(v.leaves)
  <2> HIDE DEF v
  <2> QED BY <1>1, FS_AddElement DEF Spared
<1>3. Last(Split(key)) = <<>> => n = 0
  BY LastPiece
<1>4. c[0] = Root
  BY <1>1 DEF Way
<1>5. \A l \in v.leaves : l.segment = <<>> => l.chain = Root
  <2> HIDE DEF v, n
  <2> QED BY <1>1, <1>3, <1>4 DEF Spared, LeafAt
<1> QED BY <1>2, <1>5 DEF Spared

\* A delete takes leaves away.
LEMMA DeleteSpares ==
  ASSUME NEW t, Indexed(t), Spared(t), NEW key \in Seq(Byte), NEW doc
  PROVE  Spared(DeleteEntry(t, key, doc))
<1> DEFINE v == DeleteEntry(t, key, doc)
<1>1. v.leaves \in SUBSET t.leaves
  BY DeleteKeepsIndex
<1> HIDE DEF v
<1>2. IsFiniteSet(v.leaves)
  BY <1>1, FS_Subset DEF Spared
<1>3. \A l \in v.leaves : l.segment = <<>> => l.chain = Root
  BY <1>1 DEF Spared
<1>4. Spared(v)
  BY <1>2, <1>3 DEF Spared
<1> QED BY <1>4 DEF v

\* Every write, every failed put and every restart spares the nodes.
LEMMA NextSpares ==
  ASSUME IndexInv, Spared(trie), [Next]_vars
  PROVE  Spared(trie)'
<1>1. Indexed(trie) /\ trie \in Trie /\ Key \subseteq Seq(Byte)
  BY KeyAssumption DEF IndexInv, Indexed
<1>2. ASSUME trie'.leaves = trie.leaves
      PROVE  Spared(trie)'
  BY <1>2 DEF Spared
<1>3. ASSUME NEW key \in Key, NEW doc \in Doc, Put(key, doc)
      PROVE  Spared(trie)'
  BY <1>1, <1>3, PutSpares DEF Put
<1>4. ASSUME NEW key \in Key, NEW doc \in Doc, Delete(key, doc)
      PROVE  Spared(trie)'
  BY <1>1, <1>4, DeleteSpares DEF Delete
<1>5. ASSUME NEW key \in Key, NEW doc \in Doc, AbortPut(key, doc)
      PROVE  Spared(trie)'
  BY <1>1, <1>2, <1>5 DEF AbortPut, Trie
<1>6. CASE Reopen
  BY <1>1, <1>2, <1>6 DEF Reopen, Trie
<1>7. CASE UNCHANGED vars
  BY <1>2, <1>7 DEF vars
<1> QED BY <1>3, <1>4, <1>5, <1>6, <1>7 DEF Next

\* Segments are byte strings no longer than SegSize.
LEMMA SegmentBytes == Segment \subseteq Seq(Byte) /\ \A s \in Segment : Len(s) \in 0 .. SegSize
<1> SUFFICES ASSUME NEW s \in Segment
             PROVE  s \in Seq(Byte) /\ Len(s) \in 0 .. SegSize
  OBVIOUS
<1>1. PICK n \in 0 .. SegSize : s \in [1 .. n -> Byte]
  BY DEF Segment
<1>2. n \in Nat
  OBVIOUS
<1> QED BY <1>1, <1>2

\* Full segments have SegSize bytes.
LEMMA FullBytes == Full \subseteq Seq(Byte) /\ \A s \in Full : Len(s) = SegSize
BY SegAssumption DEF Full

\* An index whose nodes are spared is well formed.
LEMMA SparedIsWellFormed ==
  ASSUME NEW t, Indexed(t), Spared(t)
  PROVE  WellFormed(t)
<1>1. t \in Trie /\ Tree(t) /\ Rooted(t) /\ t.counter \in Nat
  BY DEF Indexed, Trie
<1>2. Byte \subseteq Nat /\ Doc \subseteq Nat
  BY KeyAssumption
<1>3. t.edges \subseteq [parent : Nat, segment : [1 .. SegSize -> Nat], child : 1 .. t.counter]
  <2> SUFFICES ASSUME NEW e \in t.edges
               PROVE  e \in [parent : Nat, segment : [1 .. SegSize -> Nat], child : 1 .. t.counter]
    OBVIOUS
  <2>1. e \in EdgeRow /\ e.parent < e.child /\ e.child <= t.counter
    BY <1>1 DEF Trie, Tree
  <2>2. e.parent \in Nat /\ e.child \in 1 .. t.counter
    BY <1>1, <2>1 DEF EdgeRow
  <2>3. e.segment \in [1 .. SegSize -> Nat]
    BY <1>2, <2>1 DEF EdgeRow, Full
  <2>4. e = [parent |-> e.parent, segment |-> e.segment, child |-> e.child]
    BY <2>1 DEF EdgeRow
  <2> QED BY <2>2, <2>3, <2>4
<1>4. t.leaves \subseteq [chain : Nat, segment : Seq(Nat), doc : Nat]
  <2> SUFFICES ASSUME NEW l \in t.leaves
               PROVE  l \in [chain : Nat, segment : Seq(Nat), doc : Nat]
    OBVIOUS
  <2>1. l \in LeafRow
    BY <1>1 DEF Trie
  <2>2. l.chain \in Nat /\ l.segment \in Segment /\ l.doc \in Nat
    BY <1>2, <2>1 DEF LeafRow
  <2>3. l.segment \in Seq(Nat)
    <3>1. l.segment \in Seq(Byte)
      BY <2>2, SegmentBytes
    <3>2. /\ Len(l.segment) \in Nat /\ \A i \in 1 .. Len(l.segment) : l.segment[i] \in Byte
          /\ l.segment = [i \in 1 .. Len(l.segment) |-> l.segment[i]]
      BY <3>1
    <3>3. \A i \in 1 .. Len(l.segment) : l.segment[i] \in Nat
      BY <1>2, <3>2
    <3> QED BY <3>2, <3>3
  <2>4. l = [chain |-> l.chain, segment |-> l.segment, doc |-> l.doc]
    BY <2>1 DEF LeafRow
  <2> QED BY <2>2, <2>3, <2>4
<1>5. \A e \in t.edges : e.parent < e.child /\ Attached(t, e.parent)
  BY <1>1 DEF Tree, Rooted
<1>6. \A e, f \in t.edges :
        e.child = f.child \/ (e.parent = f.parent /\ e.segment = f.segment) => e = f
  BY <1>1 DEF Tree
<1>7. \A l \in t.leaves :
        /\ Attached(t, l.chain) /\ Len(l.segment) <= SegSize
        /\ l.segment = <<>> => l.chain = Root
  <2> SUFFICES ASSUME NEW l \in t.leaves
               PROVE  /\ Attached(t, l.chain) /\ Len(l.segment) <= SegSize
                      /\ l.segment = <<>> => l.chain = Root
    OBVIOUS
  <2>1. l.segment \in Segment
    BY <1>1 DEF Trie, LeafRow
  <2>2. Len(l.segment) <= SegSize
    BY <2>1, SegmentBytes, SegAssumption
  <2> QED BY <1>1, <2>2 DEF Rooted, Spared
<1>8. IsFiniteSet(t.leaves)
  BY DEF Spared
<1> QED BY <1>1, <1>3, <1>4, <1>5, <1>6, <1>7, <1>8 DEF WellFormed

\* put_index_entry, delete_index_entry and load_counters: whatever was written, failed or
\* restarted, the index has the shape a cursor's walk needs.
THEOREM WritesKeepIndexesWellFormed == Spec => []WellFormed(trie)
<1>1. Init => Spared(trie)
  BY FS_EmptySet DEF Init, Empty, Spared
<1>2. IndexInv /\ Spared(trie) /\ [Next]_vars => Spared(trie)'
  BY NextSpares
<1>3. IndexInv /\ Spared(trie) => WellFormed(trie)
  BY SparedIsWellFormed DEF IndexInv
<1> QED BY <1>1, <1>2, <1>3, Indexing, PTL DEF Spec

-----------------------------------------------------------------------------
(* Bytes along the edges *)

\* p and s are the first m bytes of the key.
Cut(key, m, p, s) == p \o s = SubSeq(key, 1, m)

\* A sequence that starts another is cut off it by its length.
LEMMA Divided ==
  ASSUME NEW key \in Seq(Byte), NEW p \in Seq(Byte), NEW s \in Seq(Byte),
         NEW m \in 0 .. Len(key), Cut(key, m, p, s)
  PROVE  /\ Len(p) + Len(s) = m
         /\ p = SubSeq(key, 1, Len(p)) /\ s = SubSeq(key, Len(p) + 1, m)
<1>1. Len(p) \in Nat /\ Len(s) \in Nat /\ m \in Nat /\ Len(key) \in Nat
  OBVIOUS
<1>2. /\ Len(p \o s) = Len(p) + Len(s)
      /\ \A i \in 1 .. Len(p) + Len(s) :
           (p \o s)[i] = IF i <= Len(p) THEN p[i] ELSE s[i - Len(p)]
  BY ConcatProperties
<1>9. p \o s = SubSeq(key, 1, m)
  BY DEF Cut
<1>3. \A i \in 1 .. m : key[i] \in Byte
  BY <1>1
<1>4. /\ Len(SubSeq(key, 1, m)) = m
      /\ \A i \in 1 .. m : SubSeq(key, 1, m)[i] = key[i]
  BY <1>1, <1>3, SubSeqProperties
<1>5. Len(p) + Len(s) = m
  BY <1>2, <1>4, <1>9
<1>6. /\ \A i \in 1 .. Len(p) : p[i] = key[i]
      /\ \A i \in 1 .. Len(s) : s[i] = key[Len(p) + i]
  <2>1. ASSUME NEW i \in 1 .. Len(p)
        PROVE  p[i] = key[i]
    BY <1>1, <1>2, <1>4, <1>5, <1>9
  <2>2. ASSUME NEW i \in 1 .. Len(s)
        PROVE  s[i] = key[Len(p) + i]
    <3>1. Len(p) + i \in 1 .. m /\ ~(Len(p) + i <= Len(p)) /\ (Len(p) + i) - Len(p) = i
      BY <1>1, <1>5
    <3> QED BY <1>2, <1>4, <1>5, <1>9, <3>1
  <2> QED BY <2>1, <2>2
<1>7. p = SubSeq(key, 1, Len(p))
  <2>1. Len(p) <= m /\ Len(p) <= Len(key)
    BY <1>1, <1>5
  <2>2. \A i \in 1 .. Len(p) : key[i] \in Byte
    BY <1>1, <2>1
  <2>3. /\ SubSeq(key, 1, Len(p)) \in Seq(Byte)
        /\ Len(SubSeq(key, 1, Len(p))) = Len(p)
        /\ \A i \in 1 .. Len(p) : SubSeq(key, 1, Len(p))[i] = key[i]
    BY <1>1, <2>2, SubSeqProperties
  <2> QED BY <1>6, <2>3, SeqEqual
<1>8. s = SubSeq(key, Len(p) + 1, m)
  <2>1. \A i \in Len(p) + 1 .. m : key[i] \in Byte
    BY <1>1
  <2>2. Len(p) + 1 \in Int /\ m \in Int /\ m - (Len(p) + 1) + 1 = Len(s)
    BY <1>1, <1>5
  <2>3. /\ SubSeq(key, Len(p) + 1, m) \in Seq(Byte)
        /\ Len(SubSeq(key, Len(p) + 1, m)) =
             IF Len(p) + 1 <= m THEN m - (Len(p) + 1) + 1 ELSE 0
        /\ \A i \in 1 .. m - (Len(p) + 1) + 1 :
             SubSeq(key, Len(p) + 1, m)[i] = key[Len(p) + 1 + i - 1]
    BY <2>1, <2>2, SubSeqProperties
  <2>4. Len(SubSeq(key, Len(p) + 1, m)) = Len(s)
    BY <1>1, <1>5, <2>2, <2>3
  <2>5. ASSUME NEW i \in 1 .. Len(s)
        PROVE  s[i] = SubSeq(key, Len(p) + 1, m)[i]
    <3>1. Len(p) + 1 + i - 1 = Len(p) + i
      BY <1>1
    <3> QED BY <1>6, <2>2, <2>3, <3>1
  <2> QED BY <2>3, <2>4, <2>5, SeqEqual
<1> QED BY <1>5, <1>7, <1>8

\* p names the bytes from the root to every node.
Spells(t, p) ==
  /\ p \in [0 .. t.counter -> Seq(Byte)] /\ p[Root] = <<>>
  /\ \A e \in t.edges : p[e.child] = p[e.parent] \o e.segment

\* The key a leaf stands for.
Word(p, l) == p[l.chain] \o l.segment

\* The nodes of a trie are numbered up to its counter, and its edges bear full segments.
LEMMA Numbered ==
  ASSUME NEW t, Indexed(t)
  PROVE  /\ t.counter \in Nat /\ Root \in 0 .. t.counter
         /\ \A e \in t.edges :
              /\ e.parent \in 0 .. t.counter /\ e.child \in 0 .. t.counter
              /\ e.parent < e.child /\ e.child # Root
              /\ e.segment \in Seq(Byte) /\ Len(e.segment) = SegSize
         /\ \A l \in t.leaves :
              /\ l.chain \in 0 .. t.counter /\ Attached(t, l.chain)
              /\ l.segment \in Seq(Byte) /\ Len(l.segment) \in 0 .. SegSize
<1>1. t \in Trie /\ t.counter \in Nat
  BY DEF Indexed, Trie
<1>2. ASSUME NEW e \in t.edges
      PROVE  /\ e.parent \in 0 .. t.counter /\ e.child \in 0 .. t.counter
             /\ e.parent < e.child /\ e.child # Root
             /\ e.segment \in Seq(Byte) /\ Len(e.segment) = SegSize
  <2>1. /\ e.parent \in Nat /\ e.child \in Nat /\ e.segment \in Full
        /\ e.parent < e.child /\ e.child <= t.counter
    BY <1>1 DEF Indexed, Tree, Trie, EdgeRow
  <2>2. e.segment \in Seq(Byte) /\ Len(e.segment) = SegSize
    BY <2>1, FullBytes
  <2>3. e.parent \in 0 .. t.counter /\ e.child \in 0 .. t.counter /\ e.child # Root
    BY <1>1, <2>1 DEF Root
  <2> QED BY <2>1, <2>2, <2>3
<1>3. ASSUME NEW l \in t.leaves
      PROVE  /\ l.chain \in 0 .. t.counter /\ Attached(t, l.chain)
             /\ l.segment \in Seq(Byte) /\ Len(l.segment) \in 0 .. SegSize
  <2>1. l.segment \in Segment /\ Attached(t, l.chain)
    BY <1>1 DEF Indexed, Rooted, Trie, LeafRow
  <2>2. l.chain \in 0 .. t.counter
    BY <1>1, <1>2, <2>1 DEF Attached, Root
  <2> QED BY <2>1, <2>2, SegmentBytes
<1>4. Root \in 0 .. t.counter
  BY <1>1 DEF Root
<1> QED BY <1>1, <1>2, <1>3, <1>4

\* PrefixOf is the function its definition describes: a node's edge comes from a lower one.
LEMMA PrefixSpells ==
  ASSUME NEW t, Indexed(t)
  PROVE  Spells(t, PrefixOf(t))
<1> DEFINE D == 0 .. t.counter
           Up(a) == {e \in t.edges : e.child = a /\ e.parent < a}
           edge(a) == CHOOSE e \in Up(a) : TRUE
           Bytes(f, a) == IF Up(a) = {} THEN <<>> ELSE f[edge(a).parent] \o edge(a).segment
           prefix == CHOOSE f : f = [a \in D |-> Bytes(f, a)]
           Reached == {k \in D : \E f \in [D -> Seq(Byte)] : \A a \in 0 .. k : f[a] = Bytes(f, a)}
<1>1. /\ t.counter \in Nat
      /\ \A e \in t.edges :
           /\ e.parent \in 0 .. t.counter /\ e.child \in 0 .. t.counter
           /\ e.parent < e.child /\ e.child # Root
           /\ e.segment \in Seq(Byte)
  BY Numbered
<1>2. PrefixOf(t) = prefix
  BY DEF PrefixOf
<1>3. ASSUME NEW a \in D, Up(a) # {}
      PROVE  /\ edge(a) \in t.edges /\ edge(a).child = a
             /\ edge(a).parent \in D /\ edge(a).parent < a /\ edge(a).segment \in Seq(Byte)
  <2>1. edge(a) \in Up(a)
    BY <1>3
  <2> HIDE DEF edge
  <2> QED BY <1>1, <2>1
<1> HIDE DEF edge, Up
<1>4. \A f \in [D -> Seq(Byte)], a \in D : Bytes(f, a) \in Seq(Byte)
  <2> SUFFICES ASSUME NEW f \in [D -> Seq(Byte)], NEW a \in D
               PROVE  Bytes(f, a) \in Seq(Byte)
    OBVIOUS
  <2>1. CASE Up(a) = {}
    BY <2>1
  <2>2. CASE Up(a) # {}
    <3>1. f[edge(a).parent] \in Seq(Byte) /\ edge(a).segment \in Seq(Byte)
      BY <1>3, <2>2
    <3>2. f[edge(a).parent] \o edge(a).segment \in Seq(Byte)
      BY <3>1, ConcatProperties
    <3> QED BY <2>2, <3>2
  <2> QED BY <2>1, <2>2
<1>5. ASSUME NEW f, NEW g, NEW a \in D, \A b \in D : b < a => f[b] = g[b]
      PROVE  Bytes(f, a) = Bytes(g, a)
  BY <1>3, <1>5
<1>6. Up(0) = {}
  BY <1>1 DEF Up, Root
<1>7. 0 \in Reached
  <2> DEFINE f == [a \in D |-> <<>>]
  <2>1. f \in [D -> Seq(Byte)]
    OBVIOUS
  <2>2. \A a \in 0 .. 0 : f[a] = Bytes(f, a)
    BY <1>1, <1>6
  <2> HIDE DEF f, Bytes
  <2> QED BY <1>1, <2>1, <2>2
<1>8. ASSUME NEW k \in 1 .. t.counter, k - 1 \in Reached
      PROVE  k \in Reached
  <2>1. PICK f \in [D -> Seq(Byte)] : \A a \in 0 .. k - 1 : f[a] = Bytes(f, a)
    BY <1>8
  <2> DEFINE g == [f EXCEPT ![k] = Bytes(f, k)]
  <2> HIDE DEF Bytes
  <2>2. k \in D /\ \A b \in D : b < k => b # k
    BY <1>1
  <2>3. g \in [D -> Seq(Byte)]
    BY <1>4, <2>2
  <2>4. g[k] = Bytes(f, k) /\ \A b \in D : b # k => g[b] = f[b]
    BY <2>1, <2>2
  <2> HIDE DEF g
  <2>5. ASSUME NEW a \in 0 .. k
        PROVE  g[a] = Bytes(g, a)
    <3>1. a \in D /\ \A b \in D : b < a => g[b] = f[b]
      BY <1>1, <2>4
    <3>2. Bytes(g, a) = Bytes(f, a)
      BY <1>5, <3>1
    <3>3. CASE a = k
      BY <2>4, <3>2, <3>3
    <3>4. CASE a # k
      <4>1. a \in 0 .. k - 1
        BY <1>1, <3>4
      <4> QED BY <2>1, <2>4, <3>1, <3>2, <3>4, <4>1
    <3> QED BY <3>3, <3>4
  <2> QED BY <2>2, <2>3, <2>5
<1>9. t.counter \in Reached
  <2>1. \A i \in 0 .. t.counter : i \in Reached
    <3> HIDE DEF Reached
    <3> QED BY <1>1, <1>7, <1>8, UpTo
  <2> HIDE DEF Reached
  <2> QED BY <1>1, <2>1
<1>10. PICK f \in [D -> Seq(Byte)] : \A a \in D : f[a] = Bytes(f, a)
  BY <1>9
<1>11. f = [a \in D |-> Bytes(f, a)]
  <2> HIDE DEF Bytes
  <2> QED BY <1>10
<1>12. prefix = [a \in D |-> Bytes(prefix, a)]
  BY <1>11
<1> HIDE DEF prefix
<1>13. \A a \in D : prefix[a] = Bytes(prefix, a)
  <2> HIDE DEF Bytes
  <2> QED BY <1>12
<1>14. prefix \in [D -> Seq(Byte)]
  <2> DEFINE S == {k \in D : \A a \in 0 .. k : prefix[a] \in Seq(Byte)}
  <2>1. 0 \in S
    BY <1>1, <1>6, <1>13
  <2>2. ASSUME NEW k \in 1 .. t.counter, k - 1 \in S
        PROVE  k \in S
    <3>1. k \in D /\ \A b \in D : b < k => b \in 0 .. k - 1
      BY <1>1
    <3>2. \A b \in D : b < k => prefix[b] \in Seq(Byte)
      BY <2>2, <3>1
    <3>3. Bytes(prefix, k) \in Seq(Byte)
      <4>1. CASE Up(k) = {}
        BY <4>1
      <4>2. CASE Up(k) # {}
        <5>1. prefix[edge(k).parent] \in Seq(Byte) /\ edge(k).segment \in Seq(Byte)
          BY <1>3, <3>1, <3>2, <4>2
        <5>2. prefix[edge(k).parent] \o edge(k).segment \in Seq(Byte)
          BY <5>1, ConcatProperties
        <5> QED BY <4>2, <5>2
      <4> QED BY <4>1, <4>2
    <3>4. \A a \in 0 .. k : a = k \/ a \in 0 .. k - 1
      OBVIOUS
    <3>5. prefix[k] \in Seq(Byte)
      BY <1>13, <3>1, <3>3
    <3> QED BY <2>2, <3>1, <3>4, <3>5
  <2>3. \A i \in 0 .. t.counter : i \in S
    <3> HIDE DEF S
    <3> QED BY <1>1, <2>1, <2>2, UpTo
  <2>4. \A a \in D : prefix[a] \in Seq(Byte)
    BY <1>1, <2>3
  <2> QED BY <1>12, <2>4
<1>15. prefix[Root] = <<>>
  BY <1>1, <1>6, <1>13 DEF Root
<1>16. ASSUME NEW e \in t.edges
       PROVE  prefix[e.child] = prefix[e.parent] \o e.segment
  <2>1. e.child \in D /\ e \in Up(e.child)
    BY <1>1 DEF Up
  <2>2. edge(e.child) \in t.edges /\ edge(e.child).child = e.child
    BY <1>3, <2>1
  <2>3. edge(e.child) = e
    BY <2>2 DEF Indexed, Tree
  <2> QED BY <1>13, <2>1, <2>3
<1> HIDE DEF D
<1> QED BY <1>2, <1>14, <1>15, <1>16 DEF Spells, D

\* Where two tries share their edges the same nodes have the same bytes.
LEMMA Agree ==
  ASSUME NEW t, Indexed(t), NEW u, Indexed(u), t.edges \subseteq u.edges,
         NEW p, Spells(t, p), NEW q, Spells(u, q), NEW node, Attached(t, node)
  PROVE  p[node] = q[node]
<1> DEFINE Bad == {a \in Nat : Attached(t, a) /\ p[a] # q[a]}
<1>1. \A e \in t.edges : e.parent \in Nat /\ e.child \in Nat /\ e.parent < e.child
  BY Numbered
<1>2. Bad = {}
  <2> SUFFICES ASSUME Bad # {}
               PROVE  FALSE
    OBVIOUS
  <2>1. PICK a \in Bad : \A b \in Bad : a <= b
    <3>1. Bad \in SUBSET Nat
      OBVIOUS
    <3> HIDE DEF Bad
    <3> QED BY <3>1, LeastExists
  <2>2. a # Root
    BY <2>1 DEF Spells
  <2>3. PICK e \in t.edges : e.child = a
    BY <2>1, <2>2 DEF Attached
  <2>4. Attached(t, e.parent) /\ e.parent \in Nat /\ e.parent < a
    BY <1>1, <2>3 DEF Indexed, Rooted
  <2>5. p[e.parent] = q[e.parent]
    BY <2>1, <2>4
  <2> QED BY <2>1, <2>3, <2>5 DEF Spells
<1>3. node \in Nat
  BY <1>1 DEF Attached, Root
<1> QED BY <1>2, <1>3

-----------------------------------------------------------------------------
(* Ways and bytes *)

\* The pieces of a key, for a number of full segments k of at most n.
LEMMA Pieces ==
  ASSUME NEW key \in Seq(Byte), NEW k \in Nat, k <= Len(Split(key)) - 1
  PROVE  LET n == Len(Split(key)) - 1
         IN /\ n \in Nat /\ k * SegSize \in 0 .. Len(key) /\ n * SegSize \in 0 .. Len(key)
            /\ k * SegSize <= n * SegSize
            /\ k # 0 => /\ Split(key)[k] = SubSeq(key, (k - 1) * SegSize + 1, k * SegSize)
                        /\ (k - 1) * SegSize = k * SegSize - SegSize
                        /\ (k - 1) * SegSize \in 0 .. Len(key)
            /\ Last(Split(key)) = SubSeq(key, n * SegSize + 1, Len(key))
            /\ Len(key) <= n * SegSize + SegSize
            /\ key # <<>> => n * SegSize < Len(key)
<1> DEFINE N == Len(Split(key))
           n == N - 1
           full == n * SegSize
<1>1. /\ N \in Nat \ {0}
      /\ full \in 0 .. Len(key) /\ Len(key) <= full + SegSize
      /\ key # <<>> => full < Len(key)
      /\ \A i \in 1 .. N - 1 :
           /\ Split(key)[i] = SubSeq(key, (i - 1) * SegSize + 1, i * SegSize)
           /\ (i - 1) * SegSize \in Nat
           /\ (i - 1) * SegSize = i * SegSize - SegSize
      /\ Split(key)[N] = SubSeq(key, full + 1, Len(key))
  BY SplitPieces
<1>2. Last(Split(key)) = SubSeq(key, full + 1, Len(key))
  BY <1>1 DEF Last
<1> HIDE DEF N
<1>3. n \in Nat /\ k <= n /\ SegSize \in Nat /\ Len(key) \in Nat
  BY <1>1, SegAssumption DEF N
<1>4. k * SegSize \in Nat /\ k * SegSize <= n * SegSize
  BY <1>3, Products
<1>5. k # 0 => k \in 1 .. N - 1
  BY <1>3
<1> HIDE DEF full
<1>6. k * SegSize <= full
  BY <1>4 DEF full
<1>7. k * SegSize \in 0 .. Len(key)
  BY <1>1, <1>3, <1>4, <1>6
<1>8. k # 0 => /\ Split(key)[k] = SubSeq(key, (k - 1) * SegSize + 1, k * SegSize)
               /\ (k - 1) * SegSize = k * SegSize - SegSize
               /\ (k - 1) * SegSize \in Nat
  BY <1>1, <1>5
<1>9. k # 0 => (k - 1) * SegSize \in 0 .. Len(key)
  <2> DEFINE x == (k - 1) * SegSize
             y == k * SegSize
  <2>1. k # 0 => x = y - SegSize /\ x \in Nat
    BY <1>8
  <2>2. y \in 0 .. Len(key)
    BY <1>7
  <2> HIDE DEF x, y
  <2>3. k # 0 => x \in 0 .. Len(key)
    BY <1>3, <2>1, <2>2
  <2> QED BY <2>3 DEF x
<1> QED BY <1>1, <1>2, <1>3, <1>4, <1>7, <1>8, <1>9 DEF N, full

\* A way spells the key, so far as it goes.
LEMMA WaySpells ==
  ASSUME NEW t, Indexed(t), NEW p, Spells(t, p), NEW key \in Seq(Byte), NEW c,
         Way(t, key, Len(Split(key)) - 1, c)
  PROVE  LET n == Len(Split(key)) - 1
         IN /\ n \in Nat /\ Attached(t, c[n])
            /\ p[c[n]] \o Last(Split(key)) = key
<1> DEFINE n == Len(Split(key)) - 1
           S == {i \in 0 .. n : /\ Attached(t, c[i])
                                /\ p[c[i]] = SubSeq(key, 1, i * SegSize)}
<1>1. n \in Nat /\ SegSize \in Nat /\ Len(key) \in Nat /\ 0 * SegSize = 0
  <2>1. Len(Split(key)) \in Nat \ {0}
    BY SplitPieces
  <2> QED BY <2>1, SegAssumption
<1>2. 0 \in S
  <2> DEFINE z == 0 * SegSize
  <2>1. SubSeq(key, 1, z) = <<>>
    <3>1. SubSeq(key, 1, 0) = <<>>
      BY SubSeqEmpty
    <3> HIDE DEF z
    <3>2. z = 0
      BY <1>1 DEF z
    <3> QED BY <3>1, <3>2
  <2>2. c[0] = Root
    BY DEF Way
  <2>3. p[Root] = <<>> /\ Attached(t, Root)
    BY DEF Spells, Attached
  <2>4. p[c[0]] = SubSeq(key, 1, z) /\ Attached(t, c[0])
    BY <2>1, <2>2, <2>3
  <2> HIDE DEF n
  <2>5. 0 \in 0 .. n
    BY <1>1
  <2> QED BY <2>4, <2>5 DEF z
<1>3. ASSUME NEW i \in 1 .. n, i - 1 \in S
      PROVE  i \in S
  <2>1. PICK e \in t.edges : e.parent = c[i - 1] /\ e.segment = Split(key)[i] /\ e.child = c[i]
    BY DEF Way
  <2>2. Attached(t, c[i])
    BY <2>1 DEF Attached
  <2> DEFINE x == (i - 1) * SegSize
             y == i * SegSize
  <2>3. i \in Nat /\ i <= n /\ i # 0 /\ i \in 0 .. n
    BY <1>1
  <2>4. /\ Split(key)[i] = SubSeq(key, x + 1, y)
        /\ x = y - SegSize /\ x \in 0 .. Len(key) /\ y \in 0 .. Len(key)
    BY <2>3, Pieces
  <2>5. p[c[i - 1]] = SubSeq(key, 1, x)
    BY <1>3
  <2>6. p[c[i]] = SubSeq(key, 1, x) \o SubSeq(key, x + 1, y)
    BY <2>1, <2>4, <2>5 DEF Spells
  <2> HIDE DEF x, y, n
  <2>7. 1 \in 1 .. Len(key) + 1 /\ x \in 1 - 1 .. Len(key) /\ y \in x .. Len(key)
    BY <1>1, <2>4
  <2>8. SubSeq(key, 1, x) \o SubSeq(key, x + 1, y) = SubSeq(key, 1, y)
    BY <2>7, ConcatAdjacentSubSeq
  <2>9. p[c[i]] = SubSeq(key, 1, y)
    BY <2>6, <2>8
  <2> QED BY <2>2, <2>3, <2>9 DEF y
<1>4. n \in S
  <2>1. \A i \in 0 .. n : i \in S
    <3> HIDE DEF S, n
    <3> QED BY <1>1, <1>2, <1>3, UpTo
  <2> HIDE DEF S
  <2> QED BY <1>1, <2>1
<1> DEFINE x == n * SegSize
           m == Len(key)
<1>5. /\ Last(Split(key)) = SubSeq(key, x + 1, m) /\ x \in 0 .. m
      /\ p[c[n]] = SubSeq(key, 1, x) /\ Attached(t, c[n])
  <2>1. /\ Last(Split(key)) = SubSeq(key, x + 1, m) /\ x \in 0 .. m
    BY <1>1, Pieces
  <2> QED BY <1>4, <2>1
<1> HIDE DEF x
<1>6. SubSeq(key, 1, x) \o SubSeq(key, x + 1, m) = SubSeq(key, 1, m)
  <2>1. 1 \in 1 .. m + 1 /\ x \in 1 - 1 .. m /\ m \in x .. m
    BY <1>1, <1>5
  <2> QED BY <2>1, ConcatAdjacentSubSeq
<1>7. SubSeq(key, 1, m) = key
  BY SubSeqFull
<1> QED BY <1>1, <1>5, <1>6, <1>7

\* A place names one child, so a key has one way.
LEMMA OneWay ==
  ASSUME NEW t, Tree(t), NEW key, NEW n \in Nat, NEW c, Way(t, key, n, c),
         NEW d, Way(t, key, n, d)
  PROVE  c[n] = d[n]
<1> DEFINE S == {i \in 0 .. n : c[i] = d[i]}
<1>1. 0 \in S
  BY DEF Way
<1>2. ASSUME NEW i \in 1 .. n, i - 1 \in S
      PROVE  i \in S
  <2>1. PICK e \in t.edges : e.parent = c[i - 1] /\ e.segment = Split(key)[i] /\ e.child = c[i]
    BY DEF Way
  <2>2. PICK f \in t.edges : f.parent = d[i - 1] /\ f.segment = Split(key)[i] /\ f.child = d[i]
    BY DEF Way
  <2>3. e = f
    BY <1>2, <2>1, <2>2 DEF Tree
  <2> QED BY <2>1, <2>2, <2>3
<1>3. \A i \in 0 .. n : i \in S
  <2> HIDE DEF S
  <2> QED BY <1>1, <1>2, UpTo
<1> QED BY <1>3

\* The first k segments of a key lead to the node.
OnWay(t, p, key, node, k) ==
  /\ k \in Nat /\ k <= Len(Split(key)) - 1 /\ Len(p[node]) = k * SegSize
  /\ \E c : Way(t, key, k, c) /\ c[k] = node

\* A node whose bytes start a key, and do not reach its end, stands on the key's way.
LEMMA StandsOnWay ==
  ASSUME NEW t, Indexed(t), NEW p, Spells(t, p), NEW key \in Seq(Byte),
         NEW node, Attached(t, node), node = Root \/ Len(p[node]) < Len(key),
         Len(p[node]) <= Len(key), p[node] = SubSeq(key, 1, Len(p[node]))
  PROVE  \E k : OnWay(t, p, key, node, k)
<1> DEFINE n == Len(Split(key)) - 1
           Begins(a) == /\ a = Root \/ Len(p[a]) < Len(key)
                        /\ Len(p[a]) <= Len(key) /\ p[a] = SubSeq(key, 1, Len(p[a]))
           Found(a) == \E k : OnWay(t, p, key, a, k)
           Bad == {a \in Nat : Attached(t, a) /\ Begins(a) /\ ~Found(a)}
<1>1. /\ SegSize \in Nat \ {0} /\ n \in Nat /\ Len(key) \in Nat
      /\ Len(key) <= n * SegSize + SegSize /\ n * SegSize \in Nat
  <2>1. Len(Split(key)) \in Nat \ {0}
    BY SplitPieces
  <2>2. SegSize \in Nat \ {0} /\ n \in Nat /\ Len(key) \in Nat
    BY <2>1, SegAssumption
  <2>3. Len(key) <= n * SegSize + SegSize /\ n * SegSize \in Nat
    BY <2>2, Pieces
  <2> QED BY <2>2, <2>3
<1>2. /\ \A e \in t.edges :
           /\ e.parent \in Nat /\ e.child \in Nat /\ e.parent < e.child
           /\ e.parent \in 0 .. t.counter /\ e.child \in 0 .. t.counter
           /\ e.segment \in Seq(Byte) /\ Len(e.segment) = SegSize
      /\ \A a : Attached(t, a) => a \in 0 .. t.counter /\ a \in Nat
  <2>1. /\ t.counter \in Nat /\ Root \in 0 .. t.counter
        /\ \A e \in t.edges :
             /\ e.parent \in 0 .. t.counter /\ e.child \in 0 .. t.counter
             /\ e.parent < e.child
             /\ e.segment \in Seq(Byte) /\ Len(e.segment) = SegSize
    BY Numbered
  <2> QED BY <2>1 DEF Attached
<1>3. p \in [0 .. t.counter -> Seq(Byte)] /\ p[Root] = <<>>
  BY DEF Spells
<1>4. Found(Root)
  <2> DEFINE c == [i \in 0 .. 0 |-> Root]
  <2>1. Way(t, key, 0, c) /\ c[0] = Root
    BY DEF Way, Root
  <2>2. Len(p[Root]) = 0 * SegSize /\ 0 \in Nat /\ 0 <= n
    <3>1. 0 * SegSize = 0
      BY <1>1
    <3>2. Len(p[Root]) = 0
      BY <1>3
    <3> QED BY <1>1, <3>1, <3>2
  <2> HIDE DEF c
  <2> QED BY <2>1, <2>2 DEF OnWay
<1>5. Bad = {}
  <2> SUFFICES ASSUME Bad # {}
               PROVE  FALSE
    OBVIOUS
  <2>1. PICK a \in Bad : \A b \in Bad : a <= b
    <3>1. Bad \in SUBSET Nat
      OBVIOUS
    <3> HIDE DEF Bad
    <3> QED BY <3>1, LeastExists
  <2>2. a # Root /\ Begins(a) /\ ~Found(a) /\ Attached(t, a)
    BY <1>4, <2>1
  <2>3. PICK e \in t.edges : e.child = a
    BY <2>2 DEF Attached
  <2> DEFINE b == e.parent
             d == e.segment
  <2>4. Attached(t, b) /\ b \in Nat /\ b < a /\ p[a] = p[b] \o d
    BY <1>2, <2>3 DEF Indexed, Rooted, Spells
  <2>5. p[a] \in Seq(Byte) /\ p[b] \in Seq(Byte) /\ d \in Seq(Byte) /\ Len(d) = SegSize
    BY <1>2, <1>3, <2>3
  <2> DEFINE m == Len(p[a])
  <2>6. m \in 0 .. Len(key) /\ m < Len(key) /\ p[b] \o d = SubSeq(key, 1, m)
    <3>1. m \in Nat
      BY <2>5
    <3>2. m < Len(key) /\ p[a] = SubSeq(key, 1, m)
      BY <2>2
    <3>3. p[b] \o d = SubSeq(key, 1, m)
      BY <2>4, <3>2
    <3> HIDE DEF m
    <3>4. m \in 0 .. Len(key)
      BY <1>1, <3>1, <3>2
    <3> QED BY <3>2, <3>3, <3>4
  <2> HIDE DEF b, d, m, Begins, Found, n
  <2>7. /\ Len(p[b]) + SegSize = m
        /\ p[b] = SubSeq(key, 1, Len(p[b])) /\ d = SubSeq(key, Len(p[b]) + 1, m)
    <3> DEFINE q == p[b]
    <3>1. q \in Seq(Byte) /\ Cut(key, m, q, d)
      BY <2>5, <2>6 DEF Cut
    <3> HIDE DEF q
    <3>3. m \in 0 .. Len(key) /\ d \in Seq(Byte)
      BY <2>5, <2>6
    <3>2. Len(q) + Len(d) = m /\ q = SubSeq(key, 1, Len(q)) /\ d = SubSeq(key, Len(q) + 1, m)
      BY <3>1, <3>3, Divided
    <3> QED BY <2>5, <3>2 DEF q
  <2>8. Len(p[b]) \in Nat
    BY <2>5
  <2>9. Begins(b)
    <3>1. Len(p[b]) < Len(key) /\ Len(p[b]) <= Len(key)
      BY <1>1, <2>6, <2>7, <2>8
    <3> QED BY <2>7, <3>1 DEF Begins
  <2>10. Found(b)
    <3>1. b \notin Bad
      BY <2>1, <2>4
    <3> QED BY <2>4, <2>9, <3>1
  <2>20. PICK k : OnWay(t, p, key, b, k)
    BY <2>10 DEF Found
  <2>11. k \in Nat /\ k <= n /\ Len(p[b]) = k * SegSize
    BY <2>20 DEF OnWay, n
  <2>12. PICK c : Way(t, key, k, c) /\ c[k] = b
    BY <2>20 DEF OnWay
  <2>13. k + 1 \in Nat /\ k <= n /\ (k + 1) - 1 = k /\ k + 1 # 0
    BY <2>11
  <2>14. (k + 1) * SegSize = m /\ k * SegSize = Len(p[b])
    <3> DEFINE j == k + 1
    <3>5. j \in Nat /\ j \in Int /\ SegSize \in Nat
      BY <1>1, <2>13
    <3>6. (j - 1) * SegSize = j * SegSize - SegSize /\ j * SegSize \in Nat
      <4> HIDE DEF j
      <4>1. (j - 1) * SegSize = j * SegSize - SegSize
        BY <3>5, OneLess
      <4>2. j * SegSize \in Nat
        BY <3>5, Products
      <4> QED BY <4>1, <4>2
    <3>1. ((k + 1) - 1) * SegSize = (k + 1) * SegSize - SegSize /\ (k + 1) * SegSize \in Nat
      BY <3>6
    <3> DEFINE x == k * SegSize
               y == (k + 1) * SegSize
    <3>2. x = y - SegSize /\ y \in Nat
      BY <2>13, <3>1
    <3>3. x = Len(p[b])
      BY <2>11
    <3> HIDE DEF x, y
    <3>4. y = m
      <4> DEFINE z == Len(p[b])
      <4>1. z \in Nat /\ SegSize \in Nat /\ z + SegSize = m /\ x = z
        BY <1>1, <2>7, <2>8, <3>3
      <4> HIDE DEF z
      <4> QED BY <3>2, <4>1
    <3> QED BY <3>3, <3>4 DEF x, y
  <2>15. k + 1 <= n
    <3> SUFFICES ASSUME ~(k + 1 <= n)
                 PROVE  FALSE
      OBVIOUS
    <3>1. n + 1 <= k + 1 /\ n + 1 \in Nat /\ (n + 1) - 1 = n
      BY <1>1, <2>13
    <3>2. (n + 1) * SegSize <= (k + 1) * SegSize /\ (n + 1) * SegSize \in Nat
      BY <1>1, <2>13, <3>1, Products
    <3>3. n * SegSize = (n + 1) * SegSize - SegSize
      BY <1>1, <3>1, OneLess
    <3> DEFINE x == n * SegSize
               y == (n + 1) * SegSize
    <3>4. y <= m /\ x = y - SegSize /\ Len(key) <= x + SegSize /\ x \in Nat /\ y \in Nat
      BY <1>1, <2>14, <3>2, <3>3
    <3> HIDE DEF x, y
    <3> QED BY <1>1, <2>6, <3>4
  <2>16. d = Split(key)[k + 1]
    <3>1. /\ Split(key)[k + 1] = SubSeq(key, ((k + 1) - 1) * SegSize + 1, (k + 1) * SegSize)
      BY <2>13, <2>15, Pieces DEF n
    <3> QED BY <2>7, <2>13, <2>14, <3>1
  <2> DEFINE w == [i \in 0 .. k + 1 |-> IF i = k + 1 THEN a ELSE c[i]]
  <2>17. Way(t, key, k + 1, w)
    <3>1. /\ c \in [0 .. k -> Nat] /\ c[0] = Root
          /\ \A i \in 1 .. k :
               \E f \in t.edges : f.parent = c[i - 1] /\ f.segment = Split(key)[i] /\ f.child = c[i]
      BY <2>12 DEF Way
    <3>2. w \in [0 .. k + 1 -> Nat]
      <4>2. \A i \in 0 .. k + 1 : i # k + 1 => i \in 0 .. k
        BY <2>11
      <4>1. a \in Nat /\ \A i \in 0 .. k + 1 : i # k + 1 => i \in 0 .. k
        BY <1>2, <2>2, <4>2
      <4> QED BY <3>1, <4>1
    <3>3. w[0] = Root
      BY <2>13, <3>1
    <3>4. ASSUME NEW i \in 1 .. k + 1
          PROVE  \E f \in t.edges : f.parent = w[i - 1] /\ f.segment = Split(key)[i] /\ f.child = w[i]
      <4>1. CASE i = k + 1
        <5>1. w[i] = a /\ w[i - 1] = b
          BY <2>12, <2>13, <4>1
        <5>2. e.parent = w[i - 1] /\ e.segment = Split(key)[i] /\ e.child = w[i]
          BY <2>3, <2>16, <4>1, <5>1 DEF b, d
        <5> QED BY <5>2
      <4>2. CASE i # k + 1
        <5>2. i \in 1 .. k /\ i \in 0 .. k + 1 /\ i - 1 \in 0 .. k + 1 /\ i - 1 # k + 1
          BY <2>11, <4>2
        <5>1. i \in 1 .. k /\ w[i] = c[i] /\ w[i - 1] = c[i - 1]
          BY <4>2, <5>2
        <5> QED BY <3>1, <5>1
      <4> QED BY <4>1, <4>2
    <3> HIDE DEF w
    <3> QED BY <3>2, <3>3, <3>4 DEF Way
  <2>18. w[k + 1] = a
    BY <2>13
  <2> HIDE DEF w
  <2>19. Found(a)
    <3>1. OnWay(t, p, key, a, k + 1)
      BY <2>13, <2>14, <2>15, <2>17, <2>18 DEF OnWay, m, n
    <3> QED BY <3>1 DEF Found
  <2> QED BY <2>2, <2>19
<1> QED BY <1>2, <1>5

\* Two numbers of full segments that both end within one segment of the same length, and
\* before it, are the same.
LEMMA SameNumber ==
  ASSUME NEW k \in Nat, NEW n \in Nat, k <= n, NEW len \in Nat, NEW size \in Nat \ {0},
         len <= k * size + size, n * size < len \/ n = k
  PROVE  k = n
<1> SUFFICES ASSUME k # n
             PROVE  FALSE
  OBVIOUS
<1>1. k + 1 <= n /\ k + 1 \in Nat /\ (k + 1) - 1 = k
  OBVIOUS
<1>2. (k + 1) * size <= n * size /\ n * size \in Nat /\ (k + 1) * size \in Nat
  BY <1>1, Products
<1>3. k * size = (k + 1) * size - size
  BY <1>1, OneLess
<1> DEFINE x == k * size
           y == n * size
           z == (k + 1) * size
<1>4. z <= y /\ x = z - size /\ y < len /\ len <= x + size /\ y \in Nat /\ z \in Nat
  BY <1>2, <1>3
<1> HIDE DEF x, y, z
<1> QED BY <1>4

\* A leaf that spells a key is the one at the end of the key's way.
LEMMA LeafOfKey ==
  ASSUME NEW t, Indexed(t), NEW p, Spells(t, p), NEW key \in Seq(Byte),
         NEW l \in t.leaves, Word(p, l) = key
  PROVE  \E c : /\ Way(t, key, Len(Split(key)) - 1, c)
                /\ l.chain = c[Len(Split(key)) - 1] /\ l.segment = Last(Split(key))
<1> DEFINE n == Len(Split(key)) - 1
           s == p[l.chain]
           m == Len(key)
<1>1. /\ l.chain \in 0 .. t.counter /\ Attached(t, l.chain)
      /\ l.segment \in Seq(Byte) /\ Len(l.segment) \in 0 .. SegSize
  BY Numbered
<1>2. s \in Seq(Byte) /\ Len(s) \in Nat /\ m \in Nat
  BY <1>1 DEF Spells
<1>3. Cut(key, m, s, l.segment) /\ m \in 0 .. Len(key)
  <2>1. SubSeq(key, 1, m) = key
    BY SubSeqFull
  <2>2. s \o l.segment = SubSeq(key, 1, m)
    BY <2>1 DEF Word
  <2>3. m \in 0 .. Len(key)
    BY <1>2
  <2> QED BY <2>2, <2>3 DEF Cut
<1> HIDE DEF s, m
<1>4. /\ Len(s) + Len(l.segment) = m
      /\ s = SubSeq(key, 1, Len(s)) /\ l.segment = SubSeq(key, Len(s) + 1, m)
  <2> DEFINE g == l.segment
  <2>1. g \in Seq(Byte) /\ Cut(key, m, s, g)
    BY <1>1, <1>3
  <2> HIDE DEF g
  <2>2. Len(s) + Len(g) = m /\ s = SubSeq(key, 1, Len(s)) /\ g = SubSeq(key, Len(s) + 1, m)
    BY <1>2, <1>3, <2>1, Divided
  <2> QED BY <2>2 DEF g
<1>14. Len(s) + Len(l.segment) = m
  BY <1>4
<1>13. Len(l.segment) \in Nat
  BY <1>1
<1>15. Len(l.segment) <= SegSize /\ SegSize \in Nat
  BY <1>1, SegAssumption
<1>5. l.chain = Root \/ Len(s) < m
  <2>1. l.chain = Root \/ l.segment # <<>>
    BY DEF Indexed
  <2> DEFINE d == l.segment
  <2>2. d # <<>> => Len(d) # 0
    <3>1. d \in Seq(Byte)
      BY <1>1
    <3> HIDE DEF d
    <3> QED BY <3>1
  <2>3. l.chain = Root \/ Len(l.segment) # 0
    BY <2>1, <2>2
  <2> HIDE DEF d
  <2> QED BY <1>2, <1>13, <1>14, <2>3
<1>6. Len(s) <= m
  BY <1>2, <1>13, <1>14
<1>7. PICK k : OnWay(t, p, key, l.chain, k)
  BY <1>1, <1>4, <1>5, <1>6, StandsOnWay DEF s, m
<1>11. k \in Nat /\ k <= n /\ Len(s) = k * SegSize
  BY <1>7 DEF OnWay, s
<1>12. PICK c : Way(t, key, k, c) /\ c[k] = l.chain
  BY <1>7 DEF OnWay
<1>8. /\ n \in Nat /\ SegSize \in Nat \ {0}
      /\ Last(Split(key)) = SubSeq(key, n * SegSize + 1, m)
      /\ key # <<>> => n * SegSize < m
      /\ n * SegSize \in 0 .. m
  BY <1>11, Pieces, SegAssumption DEF m
<1>9. k = n
  <2>1. m <= k * SegSize + SegSize
    <3> DEFINE x == k * SegSize
    <3>1. Len(s) = x
      BY <1>11
    <3> HIDE DEF x
    <3>2. m <= x + SegSize
      BY <1>2, <1>14, <1>15, <3>1
    <3> QED BY <3>2 DEF x
  <2>2. CASE key # <<>>
    <3> HIDE DEF n, m
    <3> QED BY <1>2, <1>8, <1>11, <2>1, <2>2, SameNumber
  <2>3. CASE key = <<>>
    <3>1. n = 0
      BY <2>3 DEF Split
    <3> HIDE DEF n
    <3> QED BY <1>11, <3>1
  <2> QED BY <2>2, <2>3
<1>10. l.segment = Last(Split(key))
  BY <1>4, <1>8, <1>9, <1>11
<1> HIDE DEF n
<1> QED BY <1>9, <1>10, <1>12 DEF n

-----------------------------------------------------------------------------
(* What puts and deletes change *)

Spelled(p, leaves) == {<<Word(p, l), l.doc>> : l \in leaves}

\* Every leaf of an index is one of its entries.
LEMMA EntriesArePairs ==
  ASSUME NEW t, Indexed(t)
  PROVE  EntriesOf(t) = Spelled(PrefixOf(t), t.leaves)
<1>1. {k \in t.leaves : Attached(t, k.chain)} = t.leaves
  BY DEF Indexed, Rooted
<1> QED BY <1>1 DEF EntriesOf, Spelled, Word

\* Where two tries share their edges the same leaves stand for the same keys.
LEMMA PairsAgree ==
  ASSUME NEW t, Indexed(t), NEW u, Indexed(u), t.edges \subseteq u.edges,
         NEW leaves, leaves \subseteq t.leaves
  PROVE  Spelled(PrefixOf(t), leaves) = Spelled(PrefixOf(u), leaves)
<1> DEFINE p == PrefixOf(t)
           q == PrefixOf(u)
<1>1. Spells(t, p) /\ Spells(u, q)
  BY PrefixSpells
<1> HIDE DEF p, q
<1>2. \A l \in leaves : p[l.chain] = q[l.chain]
  BY <1>1, Agree DEF Indexed, Rooted
<1>3. \A l \in leaves : <<Word(p, l), l.doc>> = <<Word(q, l), l.doc>>
  BY <1>2 DEF Word
<1>4. Spelled(p, leaves) = Spelled(q, leaves)
  BY <1>3 DEF Spelled
<1> QED BY <1>4 DEF p, q

\* put_index_entry adds the entry it is given and no other.
LEMMA PutAdds ==
  ASSUME NEW t, Indexed(t), NEW key \in Seq(Byte), NEW doc \in Doc
  PROVE  EntriesOf(PutEntry(t, key, doc)) = EntriesOf(t) \cup {<<key, doc>>}
<1> DEFINE v == PutEntry(t, key, doc)
           n == Len(Split(key)) - 1
           q == PrefixOf(v)
<1>1. Indexed(v) /\ t.edges \subseteq v.edges
  BY PutKeepsIndex
<1>2. PICK c : Way(v, key, n, c) /\ v.leaves = t.leaves \cup {LeafAt(c[n], key, doc)}
  BY PutKeepsIndex
<1> HIDE DEF v
<1> DEFINE leaf == LeafAt(c[n], key, doc)
<1>3. Spells(v, q)
  BY <1>1, PrefixSpells
<1>4. Word(q, leaf) = key /\ leaf.doc = doc
  <2>1. q[c[n]] \o Last(Split(key)) = key
    <3> HIDE DEF q
    <3> QED BY <1>1, <1>2, <1>3, WaySpells
  <2> QED BY <2>1 DEF Word, LeafAt
<1> HIDE DEF q, leaf
<1>5. Spelled(q, v.leaves) = Spelled(q, t.leaves) \cup {<<key, doc>>}
  <2>1. v.leaves = t.leaves \cup {leaf}
    BY <1>2 DEF leaf
  <2> QED BY <1>4, <2>1 DEF Spelled
<1>6. Spelled(PrefixOf(t), t.leaves) = Spelled(q, t.leaves)
  BY <1>1, PairsAgree DEF q
<1> QED BY <1>1, <1>5, <1>6, EntriesArePairs DEF v, q

\* delete_index_entry takes the entry it is given away and no other.
LEMMA DeleteRemoves ==
  ASSUME NEW t, Indexed(t), NEW key \in Seq(Byte), NEW doc \in Doc
  PROVE  EntriesOf(DeleteEntry(t, key, doc)) = EntriesOf(t) \ {<<key, doc>>}
<1> DEFINE v == DeleteEntry(t, key, doc)
           n == Len(Split(key)) - 1
           p == PrefixOf(t)
<1>1. /\ Indexed(v) /\ v.edges \subseteq t.edges
      /\ \/ v.leaves = t.leaves /\ \A c : ~Way(t, key, n, c)
         \/ \E c : Way(t, key, n, c) /\ v.leaves = t.leaves \ {LeafAt(c[n], key, doc)}
  BY DeleteKeepsIndex
<1>2. n \in Nat
  <2>1. Len(Split(key)) \in Nat \ {0}
    BY SplitPieces
  <2> QED BY <2>1
<1>3. Spells(t, p)
  BY PrefixSpells
<1> HIDE DEF v, p
<1>4. ASSUME NEW l \in t.leaves, Word(p, l) = key, l.doc = doc
      PROVE  \E c : Way(t, key, n, c) /\ l = LeafAt(c[n], key, doc)
  <2>1. PICK c : Way(t, key, n, c) /\ l.chain = c[n] /\ l.segment = Last(Split(key))
    BY <1>3, <1>4, LeafOfKey
  <2>2. l = [chain |-> l.chain, segment |-> l.segment, doc |-> l.doc]
    BY DEF Indexed, Trie, LeafRow
  <2> QED BY <1>4, <2>1, <2>2 DEF LeafAt
<1>5. v.leaves = {l \in t.leaves : ~(Word(p, l) = key /\ l.doc = doc)}
  <2>1. CASE v.leaves = t.leaves /\ \A c : ~Way(t, key, n, c)
    <3> HIDE DEF n
    <3> QED BY <1>4, <2>1
  <2>2. CASE \E c : Way(t, key, n, c) /\ v.leaves = t.leaves \ {LeafAt(c[n], key, doc)}
    <3>1. PICK c : Way(t, key, n, c) /\ v.leaves = t.leaves \ {LeafAt(c[n], key, doc)}
      BY <2>2
    <3> DEFINE leaf == LeafAt(c[n], key, doc)
    <3>2. Word(p, leaf) = key /\ leaf.doc = doc
      <4>1. p[c[n]] \o Last(Split(key)) = key
        BY <1>3, <3>1, WaySpells
      <4> QED BY <4>1 DEF Word, LeafAt
    <3>3. ASSUME NEW l \in t.leaves, Word(p, l) = key, l.doc = doc
          PROVE  l = leaf
      <4>1. PICK d : Way(t, key, n, d) /\ l = LeafAt(d[n], key, doc)
        BY <1>4, <3>3
      <4>2. c[n] = d[n]
        <5> HIDE DEF n
        <5> QED BY <1>2, <3>1, <4>1, OneWay DEF Indexed
      <4> QED BY <4>1, <4>2
    <3> HIDE DEF leaf
    <3>4. v.leaves = t.leaves \ {leaf}
      BY <3>1 DEF leaf
    <3> QED BY <3>2, <3>3, <3>4
  <2> HIDE DEF n
  <2> QED BY <1>1, <2>1, <2>2
<1>6. v.leaves \subseteq t.leaves
  BY <1>5
<1>7. Spelled(p, v.leaves) = Spelled(p, t.leaves) \ {<<key, doc>>}
  BY <1>5 DEF Spelled
<1>8. Spelled(PrefixOf(v), v.leaves) = Spelled(p, v.leaves)
  BY <1>1, PairsAgree DEF p
<1> QED BY <1>1, <1>7, <1>8, EntriesArePairs DEF v, p

\* The counter says nothing of the entries.
LEMMA CounterKeeps ==
  ASSUME NEW t, Indexed(t), NEW u, Indexed(u), u.edges = t.edges, u.leaves = t.leaves
  PROVE  EntriesOf(u) = EntriesOf(t)
<1>1. Spelled(PrefixOf(u), t.leaves) = Spelled(PrefixOf(t), t.leaves)
  BY PairsAgree
<1> QED BY <1>1, EntriesArePairs

-----------------------------------------------------------------------------
(* The index is the ordered index it promises *)

\* Each step changes the set of entries as the abstract index does, or not at all.
LEMMA StepsAreExact ==
  ASSUME IndexInv, [Next]_vars, IndexInv'
  PROVE  /\ \A key \in Key, doc \in Doc :
              /\ Put(key, doc) => Index!Put(key, doc)
              /\ Delete(key, doc) => Index!Delete(key, doc)
         /\ [Index!Next]_(EntriesOf(trie))
<1>1. Indexed(trie) /\ Indexed(trie') /\ trie \in Trie
  BY DEF IndexInv, Indexed
<1>2. Key \subseteq Seq(Byte)
  BY KeyAssumption
<1>3. ASSUME NEW key \in Key, NEW doc \in Doc, Put(key, doc)
      PROVE  Index!Put(key, doc)
  <2>1. EntriesOf(trie') = EntriesOf(trie) \cup {<<key, doc>>}
    BY <1>1, <1>2, <1>3, PutAdds DEF Put
  <2> QED BY <2>1 DEF Index!Put
<1>4. ASSUME NEW key \in Key, NEW doc \in Doc, Delete(key, doc)
      PROVE  Index!Delete(key, doc)
  <2>1. EntriesOf(trie') = EntriesOf(trie) \ {<<key, doc>>}
    BY <1>1, <1>2, <1>4, DeleteRemoves DEF Delete
  <2> QED BY <2>1 DEF Index!Delete
<1>5. ASSUME NEW n, trie' = [trie EXCEPT !.counter = n]
      PROVE  UNCHANGED EntriesOf(trie)
  <2>1. trie'.edges = trie.edges /\ trie'.leaves = trie.leaves
    BY <1>1, <1>5 DEF Trie
  <2>2. EntriesOf(trie') = EntriesOf(trie)
    BY <1>1, <2>1, CounterKeeps
  <2> QED BY <2>2
<1>6. [Index!Next]_(EntriesOf(trie))
  <2>1. CASE \E key \in Key, doc \in Doc : Put(key, doc)
    BY <1>3, <2>1 DEF Index!Next
  <2>2. CASE \E key \in Key, doc \in Doc : Delete(key, doc)
    BY <1>4, <2>2 DEF Index!Next
  <2>3. CASE \E key \in Key, doc \in Doc : AbortPut(key, doc)
    BY <1>5, <2>3 DEF AbortPut
  <2>4. CASE Reopen
    BY <1>5, <2>4 DEF Reopen
  <2>5. CASE UNCHANGED vars
    BY <2>5 DEF vars
  <2> QED BY <2>1, <2>2, <2>3, <2>4, <2>5 DEF Next
<1> QED BY <1>3, <1>4, <1>6

\* put_index_entry and delete_index_entry change exactly the entry they are given, for
\* every segment size and every set of keys.
THEOREM EntriesAreExact == Spec => WritesAreExact
<1>1. IndexInv /\ IndexInv' /\ [Next]_vars =>
        [\A key \in Key, doc \in Doc :
           /\ Put(key, doc) => Index!Put(key, doc)
           /\ Delete(key, doc) => Index!Delete(key, doc)]_vars
  BY StepsAreExact
<1> QED BY <1>1, Indexing, PTL DEF Spec, WritesAreExact

\* The chains, segments and counter of the layout implement the set of entries that
\* the index promises: a failed put and a restart change nothing of it.
THEOREM TrieImplementsIndex == Spec => ImplementsOrderedIndex
<1>1. Init => Index!Init
  <2> SUFFICES ASSUME Init
               PROVE  EntriesOf(trie) = {}
    BY DEF Index!Init
  <2>1. trie.leaves = {}
    BY DEF Init, Empty
  <2> QED BY <2>1 DEF EntriesOf
<1>2. IndexInv /\ IndexInv' /\ [Next]_vars => [Index!Next]_(EntriesOf(trie))
  BY StepsAreExact
<1> QED BY <1>1, <1>2, Indexing, PTL DEF Spec, ImplementsOrderedIndex, Index!Spec
=============================================================================
