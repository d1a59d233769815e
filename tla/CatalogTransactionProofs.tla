------------------------ MODULE CatalogTransactionProofs ------------------------
(* Whatever names, documents and transactions there are, what put makes of a     *)
(* write set keeps the catalogs complete, every write set can be applied, and    *)
(* lookups and catalog cursors see what the commit will make.                    *)
EXTENDS CatalogTransaction, OrderProofs

-----------------------------------------------------------------------------
(* Tables *)

Tables(K, V) == UNION {[D -> V] : D \in SUBSET K}

\* A table has its keys and its rows.
LEMMA TableType ==
  ASSUME NEW K, NEW V, NEW t
  PROVE  IsTable(t, K, V) <=> t \in Tables(K, V)
<1>1. ASSUME IsTable(t, K, V)
      PROVE  t \in Tables(K, V)
  BY <1>1 DEF IsTable, Tables
<1>2. ASSUME t \in Tables(K, V)
      PROVE  IsTable(t, K, V)
  <2>1. PICK D \in SUBSET K : t \in [D -> V]
    BY <1>2 DEF Tables
  <2>2. DOMAIN t = D
    BY <2>1
  <2> QED BY <2>1, <2>2 DEF IsTable
<1> QED BY <1>1, <1>2

\* u is t with the row v at k.
IsInserted(u, t, k, v) ==
  /\ DOMAIN u = DOMAIN t \cup {k}
  /\ u[k] = v
  /\ \A j \in DOMAIN t : j # k => u[j] = t[j]

\* A row more.
LEMMA InsertedRow ==
  ASSUME NEW t, NEW k, NEW v
  PROVE  IsInserted(Inserted(t, k, v), t, k, v)
BY DEF Inserted, IsInserted

\* It has the type of the others.
LEMMA InsertedType ==
  ASSUME NEW K, NEW V, NEW t, IsTable(t, K, V), NEW k \in K, NEW v \in V
  PROVE  IsTable(Inserted(t, k, v), K, V)
<1> DEFINE D == DOMAIN t \cup {k}
           u == Inserted(t, k, v)
<1>1. u = [j \in D |-> IF j = k THEN v ELSE t[j]]
  BY DEF Inserted
<1>2. D \subseteq K /\ \A j \in DOMAIN t : t[j] \in V
  BY DEF IsTable
<1> HIDE DEF u
<1>3. DOMAIN u = D
  BY <1>1
<1>4. u \in [D -> V]
  BY <1>1, <1>2
<1>5. IsTable(u, K, V)
  BY <1>2, <1>3, <1>4 DEF IsTable
<1> QED BY <1>5 DEF u

\* The rows of another table.
LEMMA OverwrittenRows ==
  ASSUME NEW K, NEW V, NEW t, IsTable(t, K, V), NEW s, IsTable(s, K, V)
  PROVE  /\ IsTable(Overwritten(t, s), K, V)
         /\ DOMAIN Overwritten(t, s) = DOMAIN t \cup DOMAIN s
<1> DEFINE D == DOMAIN t \cup DOMAIN s
           u == Overwritten(t, s)
<1>1. u = [j \in D |-> IF j \in DOMAIN s THEN s[j] ELSE t[j]]
  BY DEF Overwritten
<1>2. D \subseteq K /\ (\A j \in DOMAIN t : t[j] \in V) /\ (\A j \in DOMAIN s : s[j] \in V)
  BY DEF IsTable
<1> HIDE DEF u
<1>3. DOMAIN u = D
  BY <1>1
<1>4. u \in [D -> V]
  BY <1>1, <1>2
<1>5. IsTable(u, K, V)
  BY <1>2, <1>3, <1>4 DEF IsTable
<1> QED BY <1>3, <1>5 DEF u

\* Wider types.
LEMMA WiderTable ==
  ASSUME NEW K, NEW V, NEW t, IsTable(t, K, V), NEW L, NEW W, K \subseteq L, V \subseteq W
  PROVE  IsTable(t, L, W)
BY DEF IsTable

-----------------------------------------------------------------------------
(* Stores *)

Rows == [name : Name, metadata : Metadata]
IndexRows == [id : Nat, metadata : Metadata]
RowKeys(ts) == Nat \X (0 .. ts)
IndexKeys == Nat \X Name
DocKeys == Nat \X Doc \X Nat
Ids(n) == 1 .. n
Keyed == [ids : Tables(Name, Nat), rows : Tables(Nat \X Nat, Rows),
          indexes : Tables(IndexKeys, IndexRows), docs : Tables(DocKeys, Tx),
          entries : SUBSET (Nat \X Doc), lastCollection : Nat, lastIndex : Nat]

\* The types of a store's fields.
LEMMA FieldTypes ==
  ASSUME NEW s, NEW ts
  PROVE  WellTyped(s, ts) <=>
           /\ s \in [ids : {s.ids}, rows : {s.rows}, indexes : {s.indexes}, docs : {s.docs},
                     entries : {s.entries}, lastCollection : {s.lastCollection},
                     lastIndex : {s.lastIndex}]
           /\ s.entries \subseteq Nat \X Doc /\ s.lastCollection \in Nat /\ s.lastIndex \in Nat
           /\ IsTable(s.ids, Name, Ids(s.lastCollection))
           /\ IsTable(s.rows, RowKeys(ts), Rows)
           /\ IsTable(s.indexes, IndexKeys, IndexRows)
           /\ IsFiniteSet(DOMAIN s.indexes)
           /\ IsTable(s.docs, DocKeys, Tx)
BY DEF WellTyped, Rows, IndexRows, RowKeys, IndexKeys, DocKeys, Ids

\* Stores are of one set.
LEMMA StoresAreKeyed ==
  ASSUME NEW s, NEW ts \in Nat, WellTyped(s, ts)
  PROVE  s \in Keyed
<1>1. /\ IsTable(s.ids, Name, Nat)
      /\ IsTable(s.rows, Nat \X Nat, Rows)
      /\ IsTable(s.indexes, IndexKeys, IndexRows)
      /\ IsTable(s.docs, DocKeys, Tx)
  <2>1. Ids(s.lastCollection) \subseteq Nat /\ RowKeys(ts) \subseteq Nat \X Nat
    BY DEF Ids, RowKeys
  <2> QED BY <2>1, WiderTable, FieldTypes
<1>2. /\ s.ids \in Tables(Name, Nat) /\ s.rows \in Tables(Nat \X Nat, Rows)
      /\ s.indexes \in Tables(IndexKeys, IndexRows) /\ s.docs \in Tables(DocKeys, Tx)
  BY <1>1, TableType
<1>3. /\ s.entries \in SUBSET (Nat \X Doc) /\ s.lastCollection \in Nat /\ s.lastIndex \in Nat
      /\ s \in [ids : {s.ids}, rows : {s.rows}, indexes : {s.indexes}, docs : {s.docs},
                entries : {s.entries}, lastCollection : {s.lastCollection},
                lastIndex : {s.lastIndex}]
  BY FieldTypes
<1> QED BY <1>2, <1>3 DEF Keyed

\* Later timestamps allow more versions.
LEMMA LaterTypes ==
  ASSUME NEW s, NEW ts \in Nat, NEW later \in Nat, ts <= later
  PROVE  /\ WellTyped(s, ts) => WellTyped(s, later)
         /\ Catalogued(s, ts) => Catalogued(s, later)
<1>1. RowKeys(ts) \subseteq RowKeys(later)
  BY DEF RowKeys
<1>2. IsTable(s.rows, RowKeys(ts), Rows) => IsTable(s.rows, RowKeys(later), Rows)
  BY <1>1, WiderTable
<1>3. WellTyped(s, ts) => WellTyped(s, later)
  BY <1>2, FieldTypes
<1> QED BY <1>3 DEF Catalogued

-----------------------------------------------------------------------------
(* Lists of ids and entries *)

\* The order of ids.
IdPairs(S) == {p \in S \X S : p[1] < p[2]}

\* A finite set of ids is listed in their order.
LEMMA IdsAreListed ==
  ASSUME NEW S \in SUBSET Int, IsFiniteSet(S)
  PROVE  Lists(InIdOrder(S), S, IdPairs(S))
<1> DEFINE R == IdPairs(S)
           L == InIdOrder(S)
<1>1. Orders(R, S)
  <2>1. \A x, y \in S : <<x, y>> \in R <=> x < y
    BY DEF IdPairs
  <2>2. \A x, y, z \in S : /\ ~(x < x)
                           /\ x < y /\ y < z => x < z
                           /\ x # y => x < y \/ y < x
    OBVIOUS
  <2> HIDE DEF R
  <2> QED BY <2>1, <2>2 DEF Orders
<1>2. L = Enumeration(S, R)
  <2>1. ASSUME NEW x \in S
        PROVE  {y \in S : y < x} = {y \in S : <<y, x>> \in R}
    BY DEF IdPairs
  <2> DEFINE At(i) == CHOOSE x \in S : Cardinality({y \in S : y < x}) = i - 1
             In(i) == CHOOSE x \in S : Cardinality({y \in S : <<y, x>> \in R}) = i - 1
  <2>2. \A i \in 1 .. Cardinality(S) : At(i) = In(i)
    BY <2>1
  <2>3. /\ L = [i \in 1 .. Cardinality(S) |-> At(i)]
        /\ Enumeration(S, R) = [i \in 1 .. Cardinality(S) |-> In(i)]
    BY DEF InIdOrder, Ascending, Enumeration
  <2> HIDE DEF At, In, L, R
  <2> QED BY <2>2, <2>3
<1> HIDE DEF L, R
<1>3. Lists(L, S, R)
  BY <1>1, <1>2, EnumerationLists
<1> QED BY <1>3 DEF L, R

\* New indexes are ordered by collection, then by temporary id.
KeyLess(k, l) == k[1] < l[1] \/ (k[1] = l[1] /\ k[2] < l[2])
KeyPairs(S) == {p \in S \X S : KeyLess(p[1], p[2])}

\* Keys are ordered by their parts.
LEMMA KeysAreOrdered ==
  ASSUME NEW j \in Int \X Int, NEW k \in Int \X Int, NEW l \in Int \X Int
  PROVE  /\ ~KeyLess(j, j)
         /\ KeyLess(j, k) /\ KeyLess(k, l) => KeyLess(j, l)
         /\ j # k => KeyLess(j, k) \/ KeyLess(k, j)
<1>1. /\ j[1] \in Int /\ j[2] \in Int /\ k[1] \in Int /\ k[2] \in Int
      /\ l[1] \in Int /\ l[2] \in Int /\ j = <<j[1], j[2]>> /\ k = <<k[1], k[2]>>
  OBVIOUS
<1> QED BY <1>1 DEF KeyLess

\* The new indexes of a write set are listed in that order.
LEMMA IndexesAreListed ==
  ASSUME NEW w, DOMAIN w.newIndexes \in SUBSET (Int \X Int), IsFiniteSet(DOMAIN w.newIndexes)
  PROVE  Lists(NewIndexesInOrder(w), DOMAIN w.newIndexes, KeyPairs(DOMAIN w.newIndexes))
<1> DEFINE S == DOMAIN w.newIndexes
           R == KeyPairs(S)
           L == NewIndexesInOrder(w)
<1>1. Orders(R, S)
  <2>1. \A x, y \in S : <<x, y>> \in R <=> KeyLess(x, y)
    BY DEF KeyPairs
  <2>2. \A x, y, z \in S : /\ ~KeyLess(x, x)
                           /\ KeyLess(x, y) /\ KeyLess(y, z) => KeyLess(x, z)
                           /\ x # y => KeyLess(x, y) \/ KeyLess(y, x)
    BY KeysAreOrdered
  <2> HIDE DEF R
  <2> QED BY <2>1, <2>2 DEF Orders
<1>2. L = Enumeration(S, R)
  <2>1. ASSUME NEW x \in S
        PROVE  {y \in S : y[1] < x[1] \/ (y[1] = x[1] /\ y[2] < x[2])} = {y \in S : <<y, x>> \in R}
    BY DEF KeyPairs, KeyLess
  <2> DEFINE At(i) == CHOOSE x \in S :
                        Cardinality({y \in S : y[1] < x[1] \/ (y[1] = x[1] /\ y[2] < x[2])}) = i - 1
             In(i) == CHOOSE x \in S : Cardinality({y \in S : <<y, x>> \in R}) = i - 1
  <2>2. \A i \in 1 .. Cardinality(S) : At(i) = In(i)
    BY <2>1
  <2>3. /\ L = [i \in 1 .. Cardinality(S) |-> At(i)]
        /\ Enumeration(S, R) = [i \in 1 .. Cardinality(S) |-> In(i)]
    BY DEF NewIndexesInOrder, Ascending, Enumeration
  <2> HIDE DEF At, In, L, R
  <2> QED BY <2>2, <2>3
<1> HIDE DEF L, R
<1>3. IsFiniteSet(S)
  OBVIOUS
<1>4. Lists(L, S, R)
  <2> HIDE DEF S
  <2> QED BY <1>1, <1>2, <1>3, EnumerationLists
<1> QED BY <1>4 DEF L, R

\* The entries of a catalog cursor: a name, an id, metadata.
Entries == [at : Place, id : Int, metadata : Metadata]
\* One for each name and id.
Distinct(S) == \A e, f \in S : e.at = f.at /\ e.id = f.id => e = f

EntryPairs(S, direction) ==
  {p \in S \X S : IF direction = "Forward" THEN EntryLess(p[1], p[2]) ELSE EntryLess(p[2], p[1])}

\* An entry is at its name.
LEMMA EntryType ==
  ASSUME NEW e \in Entries
  PROVE  /\ e.at[1] \in Seq(Nat) /\ e.at = <<e.at[1], 0>> /\ e.id \in Int
         /\ e.at \in Place /\ e.metadata \in Metadata
<1>1. e.at \in Place /\ e.id \in Int /\ e.metadata \in Metadata
  BY DEF Entries
<1>2. PICK name \in Name : e.at = <<name, 0>>
  BY <1>1 DEF Place, PlaceOf
<1>3. name \in Seq(Nat)
  BY CatalogAssumption
<1> HIDE DEF Entries
<1> QED BY <1>1, <1>2, <1>3

\* Entries are ordered by name, then by id.
LEMMA EntriesAreOrdered ==
  ASSUME NEW e \in Entries, NEW f \in Entries, NEW g \in Entries
  PROVE  /\ ~EntryLess(e, e)
         /\ EntryLess(e, f) /\ EntryLess(f, g) => EntryLess(e, g)
         /\ EntryLess(e, f) \/ (e.at = f.at /\ e.id = f.id) \/ EntryLess(f, e)
<1> DEFINE N == Seq(Nat)
<1>1. /\ e.at[1] \in N /\ e.id \in Int /\ e.at = <<e.at[1], 0>>
      /\ f.at[1] \in N /\ f.id \in Int /\ f.at = <<f.at[1], 0>>
      /\ g.at[1] \in N /\ g.id \in Int
  BY EntryType
<1>2. \A x, y \in Entries :
        EntryLess(x, y) <=> Less(x.at[1], y.at[1]) \/ (x.at[1] = y.at[1] /\ x.id < y.id)
  BY DEF EntryLess, PositionLess
<1>3. /\ ~Less(e.at[1], e.at[1])
      /\ Less(e.at[1], f.at[1]) /\ Less(f.at[1], g.at[1]) => Less(e.at[1], g.at[1])
  BY <1>1, LessIsStrict
<1>4. Less(e.at[1], f.at[1]) \/ e.at[1] = f.at[1] \/ Less(f.at[1], e.at[1])
  BY <1>1, LessIsTotal
<1> HIDE DEF N
<1> DEFINE a == e.at[1]
           b == f.at[1]
           c == g.at[1]
           i == e.id
           j == f.id
           k == g.id
<1>5. i \in Int /\ j \in Int /\ k \in Int
  BY <1>1
<1>6. a = b => e.at = f.at
  BY <1>1
<1>7. /\ EntryLess(e, e) <=> Less(a, a) \/ (a = a /\ i < i)
      /\ EntryLess(e, f) <=> Less(a, b) \/ (a = b /\ i < j)
      /\ EntryLess(f, g) <=> Less(b, c) \/ (b = c /\ j < k)
      /\ EntryLess(e, g) <=> Less(a, c) \/ (a = c /\ i < k)
      /\ EntryLess(f, e) <=> Less(b, a) \/ (b = a /\ j < i)
  BY <1>2
<1>8. /\ ~Less(a, a) /\ (Less(a, b) /\ Less(b, c) => Less(a, c))
      /\ (Less(a, b) \/ a = b \/ Less(b, a))
  BY <1>3, <1>4
<1> HIDE DEF a, b, c, i, j, k
<1>9. ~EntryLess(e, e)
  BY <1>5, <1>7, <1>8
<1>10. EntryLess(e, f) /\ EntryLess(f, g) => EntryLess(e, g)
  BY <1>5, <1>7, <1>8
<1>11. EntryLess(e, f) \/ (a = b /\ i = j) \/ EntryLess(f, e)
  BY <1>5, <1>7, <1>8
<1> QED BY <1>6, <1>9, <1>10, <1>11 DEF i, j

\* A finite set of distinct entries is listed in the cursor's order.
LEMMA EntriesAreListed ==
  ASSUME NEW S \in SUBSET Entries, IsFiniteSet(S), Distinct(S), NEW direction
  PROVE  Lists(Directed(direction, S, EntryLess), S, EntryPairs(S, direction))
<1> DEFINE R == EntryPairs(S, "Forward")
           L == Ascending(S, EntryLess)
<1>1. Orders(R, S)
  <2>1. \A x, y \in S : <<x, y>> \in R <=> EntryLess(x, y)
    BY DEF EntryPairs
  <2>2. \A x, y, z \in S : /\ ~EntryLess(x, x)
                           /\ EntryLess(x, y) /\ EntryLess(y, z) => EntryLess(x, z)
                           /\ x # y => EntryLess(x, y) \/ EntryLess(y, x)
    BY EntriesAreOrdered DEF Distinct
  <2> HIDE DEF R
  <2> QED BY <2>1, <2>2 DEF Orders
<1>2. L = Enumeration(S, R)
  <2>1. ASSUME NEW x \in S
        PROVE  {y \in S : EntryLess(y, x)} = {y \in S : <<y, x>> \in R}
    BY DEF EntryPairs
  <2> DEFINE At(i) == CHOOSE x \in S : Cardinality({y \in S : EntryLess(y, x)}) = i - 1
             In(i) == CHOOSE x \in S : Cardinality({y \in S : <<y, x>> \in R}) = i - 1
  <2>2. \A i \in 1 .. Cardinality(S) : At(i) = In(i)
    BY <2>1
  <2>3. /\ L = [i \in 1 .. Cardinality(S) |-> At(i)]
        /\ Enumeration(S, R) = [i \in 1 .. Cardinality(S) |-> In(i)]
    BY DEF Ascending, Enumeration
  <2> HIDE DEF At, In, L, R
  <2> QED BY <2>2, <2>3
<1>3. Lists(L, S, R)
  <2> HIDE DEF L, R
  <2> QED BY <1>1, <1>2, EnumerationLists
<1>4. CASE direction = "Forward"
  BY <1>3, <1>4 DEF Directed
<1>5. CASE direction # "Forward"
  <2>1. \A x, y \in S : <<x, y>> \in R => <<y, x>> \in EntryPairs(S, direction)
    BY <1>5 DEF EntryPairs
  <2>2. Directed(direction, S, EntryLess) = Reverse(L)
    BY <1>5 DEF Directed
  <2> HIDE DEF L, R
  <2> QED BY <1>3, <2>1, <2>2, ReverseLists
<1> QED BY <1>4, <1>5

-----------------------------------------------------------------------------
(* What put does step by step *)

\* Collections are created one after the other.
CollectionsStay(X, L, s, w, version) ==
  \A x \in X, i \in 1 .. Len(L) : CreateCollection(x, w.newCollections[L[i]], version) \in X
\* and the last one is what it makes.
CollectionsEnd(X, L, s, w, version) ==
  \E walk \in [0 .. Len(L) -> X] :
    /\ walk[0] = s
    /\ \A i \in 1 .. Len(L) :
         walk[i] = CreateCollection(walk[i - 1], w.newCollections[L[i]], version)
    /\ walk[Len(L)] = CollectionsCreated(s, w, version)

\* It takes those steps, where they stay in a set.
LEMMA CollectionsWalk ==
  ASSUME NEW s, NEW w, NEW version, NEW X, s \in X,
         NEW L, L = InIdOrder(DOMAIN w.newCollections), NEW E, L \in Seq(E),
         CollectionsStay(X, L, s, w, version)
  PROVE  CollectionsEnd(X, L, s, w, version)
<1> DEFINE n == Len(L)
           Keep(x, l) == CreateCollection(x, w.newCollections[l], version)
           D == SUBSET (1 .. n)
           Fold1(f, r) == IF r = {} THEN s ELSE Keep(f[r \ {Max(r)}], L[Max(r)])
           fold == CHOOSE f : f = [r \in D |-> Fold1(f, r)]
           Step == [x \in X \X (1 .. n) |-> Keep(x[1], L[x[2]])]
<1>1. n \in Nat /\ DOMAIN L = 1 .. n
  OBVIOUS
<1>2. CollectionsCreated(s, w, version) = fold[1 .. n]
  BY <1>1 DEF CollectionsCreated, FoldLeft, MapThenFoldSet
<1>3. \A x \in X, i \in 1 .. n : Keep(x, L[i]) \in X
  BY DEF CollectionsStay
<1>4. Step \in [X \X (1 .. n) -> X]
  <2> HIDE DEF n, Keep
  <2> QED BY <1>3
<1>5. \A r \in D : r # {} => Max(r) \in r
  BY <1>1, PlacesHaveEnds
<1>6. \E f \in [D -> X] : f = [r \in D |-> Fold1(f, r)]
  <2>1. PICK f \in [D -> X] : Folded(f, n, s, Step)
    <3> HIDE DEF Step, n
    <3> QED BY <1>1, <1>4, LeftFoldExists
  <2>2. ASSUME NEW r \in D
        PROVE  f[r] = Fold1(f, r)
    <3> HIDE DEF n, Keep
    <3>1. r # {} => r \ {Max(r)} \in D /\ f[r \ {Max(r)}] \in X /\ Max(r) \in 1 .. n
      BY <1>5, <2>1
    <3>2. f[r] = IF r = {} THEN s ELSE Step[<<f[r \ {Max(r)}], Max(r)>>]
      BY <2>1 DEF Folded
    <3> QED BY <3>1, <3>2 DEF Step
  <2> HIDE DEF Fold1, D
  <2> QED BY <2>1, <2>2
<1>7. fold = [r \in D |-> Fold1(fold, r)]
  BY <1>6
<1> HIDE DEF fold
<1>8. Folds(fold, n, X, s, Step)
  <2>1. fold[{}] = s
    BY <1>7
  <2>2. ASSUME NEW r \in SUBSET (1 .. n), r # {}, fold[r \ {Max(r)}] \in X
        PROVE  fold[r] = Step[<<fold[r \ {Max(r)}], Max(r)>>]
    <3> HIDE DEF Keep
    <3>1. fold[r] = Keep(fold[r \ {Max(r)}], L[Max(r)])
      BY <1>7, <2>2
    <3>2. Max(r) \in 1 .. n
      BY <1>5, <2>2
    <3> HIDE DEF n
    <3> QED BY <2>2, <3>1, <3>2
  <2> HIDE DEF Step, n
  <2> QED BY <2>1, <2>2 DEF Folds
<1>9. PICK walk \in [0 .. n -> X] : IsWalk(walk, n, s, Step) /\ walk[n] = fold[1 .. n]
  <2> HIDE DEF Step, n, D, Keep
  <2>1. EndsWalk(fold, n, X, s, Step)
    BY <1>1, <1>4, <1>8, FoldIsWalk
  <2> QED BY <2>1 DEF EndsWalk
<1>10. ASSUME NEW i \in 1 .. n
       PROVE  walk[i] = Keep(walk[i - 1], L[i])
  <2>1. i - 1 \in 0 .. n
    BY <1>1
  <2> HIDE DEF n, Keep
  <2>2. walk[i - 1] \in X
    BY <1>9, <2>1
  <2> QED BY <1>9, <2>2 DEF IsWalk
<1>11. walk[0] = s
  BY <1>9 DEF IsWalk
<1> QED BY <1>2, <1>9, <1>10, <1>11 DEF CollectionsEnd

\* Indexes are created one after the other.
IndexesStay(X, L, s, w, new) ==
  \A x \in X, i \in 1 .. Len(L) : CreateIndex(x, Resolve(L[i][1], new), w.newIndexes[L[i]])
           \in X
\* and the last one is what it makes.
IndexesEnd(X, L, s, w, new) ==
  \E walk \in [0 .. Len(L) -> X] :
    /\ walk[0] = s
    /\ \A i \in 1 .. Len(L) :
         walk[i] = CreateIndex(walk[i - 1], Resolve(L[i][1], new), w.newIndexes[L[i]])
    /\ walk[Len(L)] = IndexesCreated(s, w, new)

\* It takes those steps, where they stay in a set.
LEMMA IndexesWalk ==
  ASSUME NEW s, NEW w, NEW new, NEW X, s \in X,
         NEW L, L = NewIndexesInOrder(w), NEW E, L \in Seq(E),
         IndexesStay(X, L, s, w, new)
  PROVE  IndexesEnd(X, L, s, w, new)
<1> DEFINE n == Len(L)
           Keep(x, l) == CreateIndex(x, Resolve(l[1], new), w.newIndexes[l])
           D == SUBSET (1 .. n)
           Fold1(f, r) == IF r = {} THEN s ELSE Keep(f[r \ {Max(r)}], L[Max(r)])
           fold == CHOOSE f : f = [r \in D |-> Fold1(f, r)]
           Step == [x \in X \X (1 .. n) |-> Keep(x[1], L[x[2]])]
<1>1. n \in Nat /\ DOMAIN L = 1 .. n
  OBVIOUS
<1>2. IndexesCreated(s, w, new) = fold[1 .. n]
  BY <1>1 DEF IndexesCreated, FoldLeft, MapThenFoldSet
<1>3. \A x \in X, i \in 1 .. n : Keep(x, L[i]) \in X
  BY DEF IndexesStay
<1>4. Step \in [X \X (1 .. n) -> X]
  <2> HIDE DEF n, Keep
  <2> QED BY <1>3
<1>5. \A r \in D : r # {} => Max(r) \in r
  BY <1>1, PlacesHaveEnds
<1>6. \E f \in [D -> X] : f = [r \in D |-> Fold1(f, r)]
  <2>1. PICK f \in [D -> X] : Folded(f, n, s, Step)
    <3> HIDE DEF Step, n
    <3> QED BY <1>1, <1>4, LeftFoldExists
  <2>2. ASSUME NEW r \in D
        PROVE  f[r] = Fold1(f, r)
    <3> HIDE DEF n, Keep
    <3>1. r # {} => r \ {Max(r)} \in D /\ f[r \ {Max(r)}] \in X /\ Max(r) \in 1 .. n
      BY <1>5, <2>1
    <3>2. f[r] = IF r = {} THEN s ELSE Step[<<f[r \ {Max(r)}], Max(r)>>]
      BY <2>1 DEF Folded
    <3> QED BY <3>1, <3>2 DEF Step
  <2> HIDE DEF Fold1, D
  <2> QED BY <2>1, <2>2
<1>7. fold = [r \in D |-> Fold1(fold, r)]
  BY <1>6
<1> HIDE DEF fold
<1>8. Folds(fold, n, X, s, Step)
  <2>1. fold[{}] = s
    BY <1>7
  <2>2. ASSUME NEW r \in SUBSET (1 .. n), r # {}, fold[r \ {Max(r)}] \in X
        PROVE  fold[r] = Step[<<fold[r \ {Max(r)}], Max(r)>>]
    <3> HIDE DEF Keep
    <3>1. fold[r] = Keep(fold[r \ {Max(r)}], L[Max(r)])
      BY <1>7, <2>2
    <3>2. Max(r) \in 1 .. n
      BY <1>5, <2>2
    <3> HIDE DEF n
    <3> QED BY <2>2, <3>1, <3>2
  <2> HIDE DEF Step, n
  <2> QED BY <2>1, <2>2 DEF Folds
<1>9. PICK walk \in [0 .. n -> X] : IsWalk(walk, n, s, Step) /\ walk[n] = fold[1 .. n]
  <2> HIDE DEF Step, n, D, Keep
  <2>1. EndsWalk(fold, n, X, s, Step)
    BY <1>1, <1>4, <1>8, FoldIsWalk
  <2> QED BY <2>1 DEF EndsWalk
<1>10. ASSUME NEW i \in 1 .. n
       PROVE  walk[i] = Keep(walk[i - 1], L[i])
  <2>1. i - 1 \in 0 .. n
    BY <1>1
  <2> HIDE DEF n, Keep
  <2>2. walk[i - 1] \in X
    BY <1>9, <2>1
  <2> QED BY <1>9, <2>2 DEF IsWalk
<1>11. walk[0] = s
  BY <1>9 DEF IsWalk
<1> QED BY <1>2, <1>9, <1>10, <1>11 DEF IndexesEnd

\* The id that the new index k has in the catalog.
IdFor(s, w, new, k) == s.indexes[<<Resolve(k[1], new), w.newIndexes[k].name>>].id

\* The map of index ids grows by one index after the other.
IndexIdsStay(X, L, s, w, new) ==
  \A x \in X, i \in 1 .. Len(L) :
           Inserted(x, L[i][2], IdFor(s, w, new, L[i])) \in X
\* and the last one is what it makes.
IndexIdsEnd(X, L, s, w, new) ==
  \E walk \in [0 .. Len(L) -> X] :
    /\ walk[0] = NoTable
    /\ \A i \in 1 .. Len(L) :
         walk[i] = Inserted(walk[i - 1], L[i][2], IdFor(s, w, new, L[i]))
    /\ walk[Len(L)] = NewIndexIds(s, w, new)

\* It takes those steps, where they stay in a set.
LEMMA IndexIdsWalk ==
  ASSUME NEW s, NEW w, NEW new, NEW X, NoTable \in X,
         NEW L, L = NewIndexesInOrder(w), NEW E, L \in Seq(E),
         IndexIdsStay(X, L, s, w, new)
  PROVE  IndexIdsEnd(X, L, s, w, new)
<1> DEFINE n == Len(L)
           Keep(x, l) == Inserted(x, l[2], IdFor(s, w, new, l))
           D == SUBSET (1 .. n)
           Fold1(f, r) == IF r = {} THEN NoTable ELSE Keep(f[r \ {Max(r)}], L[Max(r)])
           fold == CHOOSE f : f = [r \in D |-> Fold1(f, r)]
           Step == [x \in X \X (1 .. n) |-> Keep(x[1], L[x[2]])]
<1>1. n \in Nat /\ DOMAIN L = 1 .. n
  OBVIOUS
<1>2. NewIndexIds(s, w, new) = fold[1 .. n]
  BY <1>1 DEF NewIndexIds, IdFor, FoldLeft, MapThenFoldSet
<1>3. \A x \in X, i \in 1 .. n : Keep(x, L[i]) \in X
  BY DEF IndexIdsStay
<1>4. Step \in [X \X (1 .. n) -> X]
  <2> HIDE DEF n, Keep
  <2> QED BY <1>3
<1>5. \A r \in D : r # {} => Max(r) \in r
  BY <1>1, PlacesHaveEnds
<1>6. \E f \in [D -> X] : f = [r \in D |-> Fold1(f, r)]
  <2>1. PICK f \in [D -> X] : Folded(f, n, NoTable, Step)
    <3> HIDE DEF Step, n
    <3> QED BY <1>1, <1>4, LeftFoldExists
  <2>2. ASSUME NEW r \in D
        PROVE  f[r] = Fold1(f, r)
    <3> HIDE DEF n, Keep
    <3>1. r # {} => r \ {Max(r)} \in D /\ f[r \ {Max(r)}] \in X /\ Max(r) \in 1 .. n
      BY <1>5, <2>1
    <3>2. f[r] = IF r = {} THEN NoTable ELSE Step[<<f[r \ {Max(r)}], Max(r)>>]
      BY <2>1 DEF Folded
    <3> QED BY <3>1, <3>2 DEF Step
  <2> HIDE DEF Fold1, D
  <2> QED BY <2>1, <2>2
<1>7. fold = [r \in D |-> Fold1(fold, r)]
  BY <1>6
<1> HIDE DEF fold
<1>8. Folds(fold, n, X, NoTable, Step)
  <2>1. fold[{}] = NoTable
    BY <1>7
  <2>2. ASSUME NEW r \in SUBSET (1 .. n), r # {}, fold[r \ {Max(r)}] \in X
        PROVE  fold[r] = Step[<<fold[r \ {Max(r)}], Max(r)>>]
    <3> HIDE DEF Keep
    <3>1. fold[r] = Keep(fold[r \ {Max(r)}], L[Max(r)])
      BY <1>7, <2>2
    <3>2. Max(r) \in 1 .. n
      BY <1>5, <2>2
    <3> HIDE DEF n
    <3> QED BY <2>2, <3>1, <3>2
  <2> HIDE DEF Step, n
  <2> QED BY <2>1, <2>2 DEF Folds
<1>9. PICK walk \in [0 .. n -> X] : IsWalk(walk, n, NoTable, Step) /\ walk[n] = fold[1 .. n]
  <2> HIDE DEF Step, n, D, Keep
  <2>1. EndsWalk(fold, n, X, NoTable, Step)
    BY <1>1, <1>4, <1>8, FoldIsWalk
  <2> QED BY <2>1 DEF EndsWalk
<1>10. ASSUME NEW i \in 1 .. n
       PROVE  walk[i] = Keep(walk[i - 1], L[i])
  <2>1. i - 1 \in 0 .. n
    BY <1>1
  <2> HIDE DEF n, Keep
  <2>2. walk[i - 1] \in X
    BY <1>9, <2>1
  <2> QED BY <1>9, <2>2 DEF IsWalk
<1>11. walk[0] = NoTable
  BY <1>9 DEF IsWalk
<1> QED BY <1>2, <1>9, <1>10, <1>11 DEF IndexIdsEnd

\* Collections are written one after the other.
PutStay(X, L, s, w, version, new, indexed, newIndex) ==
  \A x \in X, i \in 1 .. Len(L) : WriteCollection(x, w, L[i], new, newIndex, version) \in X
\* and the last one is what it makes.
PutEnd(X, L, s, w, version, new, indexed, newIndex) ==
  \E walk \in [0 .. Len(L) -> X] :
    /\ walk[0] = indexed
    /\ \A i \in 1 .. Len(L) :
         walk[i] = WriteCollection(walk[i - 1], w, L[i], new, newIndex, version)
    /\ walk[Len(L)] = Put(s, w, version)

\* It takes those steps, where they stay in a set.
LEMMA PutWalk ==
  ASSUME NEW s, NEW w, NEW version, NEW new, new = NewIds(s, w),
         NEW indexed, indexed = IndexesCreated(CollectionsCreated(s, w, version), w, new),
         NEW newIndex, newIndex = NewIndexIds(indexed, w, new), NEW X, indexed \in X,
         NEW L, L = InIdOrder(Written(w)), NEW E, L \in Seq(E),
         PutStay(X, L, s, w, version, new, indexed, newIndex)
  PROVE  PutEnd(X, L, s, w, version, new, indexed, newIndex)
<1> DEFINE n == Len(L)
           Keep(x, l) == WriteCollection(x, w, l, new, newIndex, version)
           D == SUBSET (1 .. n)
           Fold1(f, r) == IF r = {} THEN indexed ELSE Keep(f[r \ {Max(r)}], L[Max(r)])
           fold == CHOOSE f : f = [r \in D |-> Fold1(f, r)]
           Step == [x \in X \X (1 .. n) |-> Keep(x[1], L[x[2]])]
<1>1. n \in Nat /\ DOMAIN L = 1 .. n
  OBVIOUS
<1>2. Put(s, w, version) = fold[1 .. n]
  BY <1>1 DEF Put, FoldLeft, MapThenFoldSet
<1>3. \A x \in X, i \in 1 .. n : Keep(x, L[i]) \in X
  BY DEF PutStay
<1>4. Step \in [X \X (1 .. n) -> X]
  <2> HIDE DEF n, Keep
  <2> QED BY <1>3
<1>5. \A r \in D : r # {} => Max(r) \in r
  BY <1>1, PlacesHaveEnds
<1>6. \E f \in [D -> X] : f = [r \in D |-> Fold1(f, r)]
  <2>1. PICK f \in [D -> X] : Folded(f, n, indexed, Step)
    <3> HIDE DEF Step, n
    <3> QED BY <1>1, <1>4, LeftFoldExists
  <2>2. ASSUME NEW r \in D
        PROVE  f[r] = Fold1(f, r)
    <3> HIDE DEF n, Keep
    <3>1. r # {} => r \ {Max(r)} \in D /\ f[r \ {Max(r)}] \in X /\ Max(r) \in 1 .. n
      BY <1>5, <2>1
    <3>2. f[r] = IF r = {} THEN indexed ELSE Step[<<f[r \ {Max(r)}], Max(r)>>]
      BY <2>1 DEF Folded
    <3> QED BY <3>1, <3>2 DEF Step
  <2> HIDE DEF Fold1, D
  <2> QED BY <2>1, <2>2
<1>7. fold = [r \in D |-> Fold1(fold, r)]
  BY <1>6
<1> HIDE DEF fold
<1>8. Folds(fold, n, X, indexed, Step)
  <2>1. fold[{}] = indexed
    BY <1>7
  <2>2. ASSUME NEW r \in SUBSET (1 .. n), r # {}, fold[r \ {Max(r)}] \in X
        PROVE  fold[r] = Step[<<fold[r \ {Max(r)}], Max(r)>>]
    <3> HIDE DEF Keep
    <3>1. fold[r] = Keep(fold[r \ {Max(r)}], L[Max(r)])
      BY <1>7, <2>2
    <3>2. Max(r) \in 1 .. n
      BY <1>5, <2>2
    <3> HIDE DEF n
    <3> QED BY <2>2, <3>1, <3>2
  <2> HIDE DEF Step, n
  <2> QED BY <2>1, <2>2 DEF Folds
<1>9. PICK walk \in [0 .. n -> X] : IsWalk(walk, n, indexed, Step) /\ walk[n] = fold[1 .. n]
  <2> HIDE DEF Step, n, D, Keep
  <2>1. EndsWalk(fold, n, X, indexed, Step)
    BY <1>1, <1>4, <1>8, FoldIsWalk
  <2> QED BY <2>1 DEF EndsWalk
<1>10. ASSUME NEW i \in 1 .. n
       PROVE  walk[i] = Keep(walk[i - 1], L[i])
  <2>1. i - 1 \in 0 .. n
    BY <1>1
  <2> HIDE DEF n, Keep
  <2>2. walk[i - 1] \in X
    BY <1>9, <2>1
  <2> QED BY <1>9, <2>2 DEF IsWalk
<1>11. walk[0] = indexed
  BY <1>9 DEF IsWalk
<1> QED BY <1>2, <1>9, <1>10, <1>11 DEF PutEnd

\* The next entry out, if there is any.
Moved(c) ==
  IF Drained(c) THEN c ELSE IF TakesBase(c) THEN BaseTaken(c) ELSE OverlayTaken(c)

\* Enough steps to drain it.
Steps(c) == [i \in 1 .. Len(c.base) + Len(c.overlay) |-> i]

\* A cursor is drained entry by entry.
ReturnedStay(X, L, cursor) ==
  \A x \in X, i \in 1 .. Len(L) : Moved(x) \in X
\* and the last one is what it makes.
ReturnedEnd(X, L, cursor) ==
  \E walk \in [0 .. Len(L) -> X] :
    /\ walk[0] = cursor
    /\ \A i \in 1 .. Len(L) :
         walk[i] = Moved(walk[i - 1])
    /\ walk[Len(L)].out = Returned(cursor)

\* It takes those steps, where they stay in a set.
LEMMA ReturnedWalk ==
  ASSUME NEW cursor, NEW X, cursor \in X,
         NEW L, L = Steps(cursor), NEW E, L \in Seq(E),
         ReturnedStay(X, L, cursor)
  PROVE  ReturnedEnd(X, L, cursor)
<1> DEFINE n == Len(L)
           Keep(x, l) == Moved(x)
           D == SUBSET (1 .. n)
           Fold1(f, r) == IF r = {} THEN cursor ELSE Keep(f[r \ {Max(r)}], L[Max(r)])
           fold == CHOOSE f : f = [r \in D |-> Fold1(f, r)]
           Step == [x \in X \X (1 .. n) |-> Keep(x[1], L[x[2]])]
<1>1. n \in Nat /\ DOMAIN L = 1 .. n
  OBVIOUS
<1>2. Returned(cursor) = fold[1 .. n].out
  BY <1>1 DEF Returned, Moved, Steps, FoldLeft, MapThenFoldSet
<1>3. \A x \in X, i \in 1 .. n : Keep(x, L[i]) \in X
  BY DEF ReturnedStay
<1>4. Step \in [X \X (1 .. n) -> X]
  <2> HIDE DEF n, Keep
  <2> QED BY <1>3
<1>5. \A r \in D : r # {} => Max(r) \in r
  BY <1>1, PlacesHaveEnds
<1>6. \E f \in [D -> X] : f = [r \in D |-> Fold1(f, r)]
  <2>1. PICK f \in [D -> X] : Folded(f, n, cursor, Step)
    <3> HIDE DEF Step, n
    <3> QED BY <1>1, <1>4, LeftFoldExists
  <2>2. ASSUME NEW r \in D
        PROVE  f[r] = Fold1(f, r)
    <3> HIDE DEF n, Keep
    <3>1. r # {} => r \ {Max(r)} \in D /\ f[r \ {Max(r)}] \in X /\ Max(r) \in 1 .. n
      BY <1>5, <2>1
    <3>2. f[r] = IF r = {} THEN cursor ELSE Step[<<f[r \ {Max(r)}], Max(r)>>]
      BY <2>1 DEF Folded
    <3> QED BY <3>1, <3>2 DEF Step
  <2> HIDE DEF Fold1, D
  <2> QED BY <2>1, <2>2
<1>7. fold = [r \in D |-> Fold1(fold, r)]
  BY <1>6
<1> HIDE DEF fold
<1>8. Folds(fold, n, X, cursor, Step)
  <2>1. fold[{}] = cursor
    BY <1>7
  <2>2. ASSUME NEW r \in SUBSET (1 .. n), r # {}, fold[r \ {Max(r)}] \in X
        PROVE  fold[r] = Step[<<fold[r \ {Max(r)}], Max(r)>>]
    <3> HIDE DEF Keep
    <3>1. fold[r] = Keep(fold[r \ {Max(r)}], L[Max(r)])
      BY <1>7, <2>2
    <3>2. Max(r) \in 1 .. n
      BY <1>5, <2>2
    <3> HIDE DEF n
    <3> QED BY <2>2, <3>1, <3>2
  <2> HIDE DEF Step, n
  <2> QED BY <2>1, <2>2 DEF Folds
<1>9. PICK walk \in [0 .. n -> X] : IsWalk(walk, n, cursor, Step) /\ walk[n] = fold[1 .. n]
  <2> HIDE DEF Step, n, D, Keep
  <2>1. EndsWalk(fold, n, X, cursor, Step)
    BY <1>1, <1>4, <1>8, FoldIsWalk
  <2> QED BY <2>1 DEF EndsWalk
<1>10. ASSUME NEW i \in 1 .. n
       PROVE  walk[i] = Keep(walk[i - 1], L[i])
  <2>1. i - 1 \in 0 .. n
    BY <1>1
  <2> HIDE DEF n, Keep
  <2>2. walk[i - 1] \in X
    BY <1>9, <2>1
  <2> QED BY <1>9, <2>2 DEF IsWalk
<1>11. walk[0] = cursor
  BY <1>9 DEF IsWalk
<1> QED BY <1>2, <1>9, <1>10, <1>11 DEF ReturnedEnd

-----------------------------------------------------------------------------
(* Catalogs *)

CollectionIds(s) == {s.ids[n] : n \in DOMAIN s.ids}
IndexIds(s) == {s.indexes[k].id : k \in DOMAIN s.indexes}

\* t has the names of s, under the same ids.
Extends(s, t) ==
  /\ DOMAIN s.ids \subseteq DOMAIN t.ids /\ \A n \in DOMAIN s.ids : t.ids[n] = s.ids[n]
  /\ DOMAIN s.indexes \subseteq DOMAIN t.indexes
  /\ \A k \in DOMAIN s.indexes : t.indexes[k].id = s.indexes[k].id

\* So do stores that extend it.
LEMMA ExtendsIsOrder ==
  ASSUME NEW s, NEW t, NEW u
  PROVE  /\ Extends(s, s)
         /\ Extends(s, t) /\ Extends(t, u) => Extends(s, u)
         /\ Extends(s, t) => CollectionIds(s) \subseteq CollectionIds(t)
         /\ Extends(s, t) => IndexIds(s) \subseteq IndexIds(t)
<1>1. Extends(s, s)
  BY DEF Extends
<1>2. ASSUME Extends(s, t), Extends(t, u)
      PROVE  Extends(s, u)
  BY <1>2 DEF Extends
<1>3. ASSUME Extends(s, t)
      PROVE  CollectionIds(s) \subseteq CollectionIds(t)
  BY <1>3 DEF Extends, CollectionIds
<1>4. ASSUME Extends(s, t)
      PROVE  IndexIds(s) \subseteq IndexIds(t)
  BY <1>4 DEF Extends, IndexIds
<1> QED BY <1>1, <1>2, <1>3, <1>4

\* Ids are not temporary, and none is 0.
LEMMA IdsArePositive ==
  ASSUME NEW s, NEW ts, WellTyped(s, ts)
  PROVE  /\ CollectionIds(s) \subseteq 1 .. s.lastCollection /\ s.lastCollection \in Nat
         /\ IndexIds(s) \subseteq Nat
         /\ \A n \in DOMAIN s.ids : s.ids[n] \in 1 .. s.lastCollection
<1>1. IsTable(s.ids, Name, Ids(s.lastCollection)) /\ s.lastCollection \in Nat
  BY FieldTypes
<1>2. IsTable(s.indexes, IndexKeys, IndexRows)
  BY FieldTypes
<1>3. \A n \in DOMAIN s.ids : s.ids[n] \in 1 .. s.lastCollection
  BY <1>1 DEF IsTable, Ids
<1>4. \A k \in DOMAIN s.indexes : s.indexes[k].id \in Nat
  BY <1>2 DEF IsTable, IndexRows
<1> QED BY <1>1, <1>3, <1>4 DEF CollectionIds, IndexIds

\* A store like s with another table of ids, rows or indexes.
LEMMA FieldsChange ==
  ASSUME NEW s, NEW ts, WellTyped(s, ts), NEW a, NEW b, NEW c, NEW d, NEW e
  PROVE  /\ LET t == [s EXCEPT !.lastCollection = a, !.ids = b, !.rows = c]
            IN /\ t \in [ids : {b}, rows : {c}, indexes : {s.indexes}, docs : {s.docs},
                         entries : {s.entries}, lastCollection : {a}, lastIndex : {s.lastIndex}]
               /\ t.ids = b /\ t.rows = c /\ t.indexes = s.indexes /\ t.docs = s.docs
               /\ t.entries = s.entries /\ t.lastCollection = a /\ t.lastIndex = s.lastIndex
         /\ LET t == [s EXCEPT !.lastIndex = a, !.indexes = b]
            IN /\ t \in [ids : {s.ids}, rows : {s.rows}, indexes : {b}, docs : {s.docs},
                         entries : {s.entries}, lastCollection : {s.lastCollection},
                         lastIndex : {a}]
               /\ t.ids = s.ids /\ t.rows = s.rows /\ t.indexes = b /\ t.docs = s.docs
               /\ t.entries = s.entries /\ t.lastCollection = s.lastCollection
               /\ t.lastIndex = a
         /\ LET t == [s EXCEPT !.docs = a, !.entries = b, !.rows = c]
            IN /\ t \in [ids : {s.ids}, rows : {c}, indexes : {s.indexes}, docs : {a},
                         entries : {b}, lastCollection : {s.lastCollection},
                         lastIndex : {s.lastIndex}]
               /\ t.ids = s.ids /\ t.rows = c /\ t.indexes = s.indexes /\ t.docs = a
               /\ t.entries = b /\ t.lastCollection = s.lastCollection
               /\ t.lastIndex = s.lastIndex
<1>1. s \in [ids : {s.ids}, rows : {s.rows}, indexes : {s.indexes}, docs : {s.docs},
             entries : {s.entries}, lastCollection : {s.lastCollection},
             lastIndex : {s.lastIndex}]
  BY FieldTypes
<1> QED BY <1>1

\* The numbers of indexes depend on nothing else.
LEMMA NumbersStay ==
  ASSUME NEW s, NEW ts, Catalogued(s, ts), NEW t, t.indexes = s.indexes, t.lastIndex = s.lastIndex
  PROVE  Numbered(t)
BY DEF Catalogued, Numbered

\* What CreateCollection does to the catalog, whichever the version of the row.
LEMMA CreatedCollection ==
  ASSUME NEW ts \in Nat, NEW s, Catalogued(s, ts), NEW name \in Name, NEW v \in 0 .. ts,
         NEW c, c = CreateCollection(s, name, v)
  PROVE  /\ Catalogued(c, ts) /\ Extends(s, c) /\ DOMAIN c.ids = DOMAIN s.ids \cup {name}
         /\ c.indexes = s.indexes /\ c.docs = s.docs /\ c.entries = s.entries
         /\ c.ids = IF name \in DOMAIN s.ids THEN s.ids
                    ELSE Inserted(s.ids, name, s.lastCollection + 1)
         /\ c.lastCollection = IF name \in DOMAIN s.ids THEN s.lastCollection
                               ELSE s.lastCollection + 1
<1>1. CASE name \in DOMAIN s.ids
  <2>1. c = s
    BY <1>1 DEF CreateCollection
  <2> QED BY <1>1, <2>1, ExtendsIsOrder
<1>2. CASE name \notin DOMAIN s.ids
  <2> DEFINE id == s.lastCollection + 1
             row == [name |-> name, metadata |-> Empty]
             ids == Inserted(s.ids, name, id)
             rows == Inserted(s.rows, <<id, v>>, row)
  <2>1. WellTyped(s, ts)
    BY DEF Catalogued
  <2>2. /\ s.lastCollection \in Nat
        /\ IsTable(s.ids, Name, Ids(s.lastCollection))
        /\ IsTable(s.rows, RowKeys(ts), Rows)
    BY <2>1, FieldTypes
  <2>3. id \in Nat /\ id \in Ids(id) /\ Ids(s.lastCollection) \subseteq Ids(id)
        /\ id \notin 1 .. s.lastCollection
    BY <2>2 DEF Ids
  <2>4. row \in Rows /\ row.name = name
    BY CatalogAssumption DEF Rows
  <2>5. c = [s EXCEPT !.lastCollection = id, !.ids = ids, !.rows = rows]
    BY <1>2 DEF CreateCollection
  <2> HIDE DEF id, row
  <2>6. IsTable(s.ids, Name, Ids(id))
    BY <2>2, <2>3, WiderTable
  <2>7. /\ IsTable(ids, Name, Ids(id)) /\ DOMAIN ids = DOMAIN s.ids \cup {name}
        /\ ids[name] = id /\ \A n \in DOMAIN s.ids : ids[n] = s.ids[n]
    <3>1. IsTable(ids, Name, Ids(id))
      BY <2>3, <2>6, InsertedType
    <3>2. IsInserted(ids, s.ids, name, id)
      BY InsertedRow
    <3> QED BY <1>2, <3>1, <3>2 DEF IsInserted
  <2>8. <<id, v>> \in RowKeys(ts)
    BY <2>3 DEF RowKeys
  <2>9. /\ IsTable(rows, RowKeys(ts), Rows) /\ DOMAIN rows = DOMAIN s.rows \cup {<<id, v>>}
        /\ rows[<<id, v>>] = row
        /\ \A k \in DOMAIN s.rows : k # <<id, v>> => rows[k] = s.rows[k]
    <3>1. IsTable(rows, RowKeys(ts), Rows)
      BY <2>2, <2>4, <2>8, InsertedType
    <3>2. IsInserted(rows, s.rows, <<id, v>>, row)
      BY InsertedRow
    <3> QED BY <3>1, <3>2 DEF IsInserted
  <2> HIDE DEF ids, rows
  <2>10. /\ c \in [ids : {ids}, rows : {rows}, indexes : {s.indexes}, docs : {s.docs},
                   entries : {s.entries}, lastCollection : {id}, lastIndex : {s.lastIndex}]
         /\ c.ids = ids /\ c.rows = rows /\ c.indexes = s.indexes /\ c.docs = s.docs
         /\ c.entries = s.entries /\ c.lastCollection = id /\ c.lastIndex = s.lastIndex
    BY <2>1, <2>5, FieldsChange
  <2>11. WellTyped(c, ts)
    BY <2>1, <2>3, <2>7, <2>9, <2>10, FieldTypes
  <2>12. \A n \in DOMAIN s.ids : s.ids[n] \in 1 .. s.lastCollection
    BY <2>1, IdsArePositive
  <2>13. \A m, n \in DOMAIN c.ids : c.ids[m] = c.ids[n] => m = n
    BY <2>3, <2>7, <2>10, <2>12 DEF Catalogued
  <2>14. \A n \in DOMAIN c.ids : \E k \in DOMAIN c.rows : k[1] = c.ids[n]
    <3>1. \A n \in DOMAIN s.ids : \E k \in DOMAIN s.rows : k[1] = s.ids[n]
      BY DEF Catalogued
    <3>2. <<id, v>>[1] = id
      OBVIOUS
    <3> QED BY <2>7, <2>9, <2>10, <3>1, <3>2
  <2>15. \A k \in DOMAIN c.rows :
           \E n \in DOMAIN c.ids : k[1] = c.ids[n] /\ c.rows[k].name = n
    <3> SUFFICES ASSUME NEW k \in DOMAIN c.rows
                 PROVE  \E n \in DOMAIN c.ids : k[1] = c.ids[n] /\ c.rows[k].name = n
      OBVIOUS
    <3>1. CASE k = <<id, v>>
      BY <2>4, <2>7, <2>9, <2>10, <3>1
    <3>2. CASE k # <<id, v>>
      <4>1. k \in DOMAIN s.rows /\ c.rows[k] = s.rows[k]
        BY <2>9, <2>10, <3>2
      <4>2. PICK n \in DOMAIN s.ids : k[1] = s.ids[n] /\ s.rows[k].name = n
        BY <4>1 DEF Catalogued
      <4> QED BY <2>7, <2>10, <4>1, <4>2
    <3> QED BY <3>1, <3>2
  <2>16. Catalogued(c, ts)
    <3>1. Numbered(c)
      BY <2>10, NumbersStay
    <3> QED BY <2>11, <2>13, <2>14, <2>15, <3>1 DEF Catalogued
  <2>17. Extends(s, c)
    BY <2>7, <2>10 DEF Extends
  <2> QED BY <1>2, <2>7, <2>10, <2>16, <2>17 DEF id, ids
<1> QED BY <1>1, <1>2

\* c is s with an index at the key, and nothing else.
HasIndex(c, s, key, ts) ==
  /\ Catalogued(c, ts) /\ Extends(s, c)
  /\ DOMAIN c.indexes = DOMAIN s.indexes \cup {key}
  /\ c.ids = s.ids /\ c.rows = s.rows /\ c.docs = s.docs /\ c.entries = s.entries

\* What CreateIndex does to the catalog.
LEMMA CreatedIndex ==
  ASSUME NEW ts \in Nat, NEW s, Catalogued(s, ts), NEW collection \in Nat, NEW index \in Rows
  PROVE  HasIndex(CreateIndex(s, collection, index), s, <<collection, index.name>>, ts)
<1> DEFINE key == <<collection, index.name>>
           c == CreateIndex(s, collection, index)
<1>1. CASE key \in DOMAIN s.indexes
  <2>1. c = s
    BY <1>1 DEF CreateIndex
  <2> QED BY <1>1, <2>1, ExtendsIsOrder DEF HasIndex
<1>2. CASE key \notin DOMAIN s.indexes
  <2> DEFINE id == s.lastIndex + 1
             row == [id |-> id, metadata |-> index.metadata]
             indexes == Inserted(s.indexes, key, row)
  <2>1. WellTyped(s, ts)
    BY DEF Catalogued
  <2>2. /\ s.lastIndex \in Nat
        /\ IsTable(s.indexes, IndexKeys, IndexRows) /\ IsFiniteSet(DOMAIN s.indexes)
    BY <2>1, FieldTypes
  <2>3. id \in Nat /\ key \in IndexKeys /\ row \in IndexRows
    BY <2>2 DEF Rows, IndexRows, IndexKeys
  <2>4. c = [s EXCEPT !.lastIndex = id, !.indexes = indexes]
    BY <1>2 DEF CreateIndex
  <2> HIDE DEF id, row, key, c
  <2>5. /\ IsTable(indexes, IndexKeys, IndexRows)
        /\ DOMAIN indexes = DOMAIN s.indexes \cup {key}
        /\ indexes[key] = row /\ \A k \in DOMAIN s.indexes : indexes[k] = s.indexes[k]
    <3>1. IsTable(indexes, IndexKeys, IndexRows)
      BY <2>2, <2>3, InsertedType
    <3>2. IsInserted(indexes, s.indexes, key, row)
      BY InsertedRow
    <3> QED BY <1>2, <3>1, <3>2 DEF IsInserted
  <2> HIDE DEF indexes
  <2>6. IsFiniteSet(DOMAIN indexes)
    BY <2>2, <2>5, FS_AddElement
  <2>7. /\ c \in [ids : {s.ids}, rows : {s.rows}, indexes : {indexes}, docs : {s.docs},
                  entries : {s.entries}, lastCollection : {s.lastCollection}, lastIndex : {id}]
        /\ c.ids = s.ids /\ c.rows = s.rows /\ c.indexes = indexes /\ c.docs = s.docs
        /\ c.entries = s.entries /\ c.lastCollection = s.lastCollection /\ c.lastIndex = id
    BY <2>1, <2>4, FieldsChange
  <2>8. WellTyped(c, ts)
    BY <2>1, <2>3, <2>5, <2>6, <2>7, FieldTypes
  <2>9. Catalogued(c, ts)
    <3>1. Numbered(c)
      <4>1. /\ \A k \in DOMAIN s.indexes : s.indexes[k].id \in Nat /\ s.indexes[k].id <= s.lastIndex
            /\ \A k, l \in DOMAIN s.indexes : s.indexes[k].id = s.indexes[l].id => k = l
        BY <2>2 DEF Catalogued, Numbered, IsTable, IndexRows
      <4>2. indexes[key].id = id /\ id = s.lastIndex + 1
        BY <2>5 DEF row, id
      <4>3. \A k \in DOMAIN s.indexes : indexes[k].id # id /\ indexes[k].id <= id
        BY <2>2, <2>5, <4>1, <4>2
      <4>4. \A k \in DOMAIN indexes : indexes[k].id <= id
        BY <2>3, <2>5, <4>2, <4>3
      <4>5. \A k, l \in DOMAIN indexes : indexes[k].id = indexes[l].id => k = l
        BY <2>5, <4>1, <4>2, <4>3
      <4> QED BY <2>7, <4>4, <4>5 DEF Numbered
    <3> QED BY <2>7, <2>8, <3>1 DEF Catalogued
  <2>10. Extends(s, c)
    BY <2>5, <2>7 DEF Extends
  <2>11. HasIndex(c, s, key, ts)
    BY <2>5, <2>7, <2>9, <2>10 DEF HasIndex
  <2> QED BY <2>11 DEF key, c
<1> QED BY <1>1, <1>2

-----------------------------------------------------------------------------
(* Collections of a write set *)

Temporary == {i \in Int : i < 0}

\* The collections that w creates, by name and by temporary id.
NewNames(w) == {w.newCollections[c] : c \in DOMAIN w.newCollections}
NewCollections(w) ==
  IsTable(w.newCollections, Temporary, Name) /\ IsFiniteSet(DOMAIN w.newCollections)

\* A finite set's list: its length, and its elements.
LEMMA ListType ==
  ASSUME NEW L, NEW S, NEW R, Lists(L, S, R)
  PROVE  /\ L \in Seq(S) /\ Len(L) \in Nat
         /\ \A i \in 1 .. Len(L) : L[i] \in S
         /\ \A x \in S : \E i \in 1 .. Len(L) : L[i] = x
BY DEF Lists

\* c is s with the collections in it, and nothing else.
Created(c, s, w, ts) ==
  /\ Catalogued(c, ts) /\ Extends(s, c)
  /\ DOMAIN c.ids = DOMAIN s.ids \cup NewNames(w)
  /\ c.indexes = s.indexes /\ c.docs = s.docs /\ c.entries = s.entries

\* put's collections: every name of the write set is there afterwards, and the ids
\* are the same for every version.
LEMMA CollectionsAreCreated ==
  ASSUME NEW ts \in Nat, NEW s, Catalogued(s, ts), NEW w, NewCollections(w), NEW v \in 0 .. ts
  PROVE  /\ Created(CollectionsCreated(s, w, v), s, w, ts)
         /\ CollectionsCreated(s, w, v).ids = CollectionsCreated(s, w, 0).ids
<1> DEFINE X == {t \in Keyed : Catalogued(t, ts)}
           S == DOMAIN w.newCollections
           L == InIdOrder(S)
           n == Len(L)
           name(i) == w.newCollections[L[i]]
<1>1. S \in SUBSET Int /\ IsFiniteSet(S) /\ \A c \in S : w.newCollections[c] \in Name
  BY DEF NewCollections, IsTable, Temporary
<1>2. /\ L \in Seq(S) /\ n \in Nat /\ \A i \in 1 .. n : L[i] \in S
      /\ \A x \in S : \E i \in 1 .. n : L[i] = x
  <2>1. Lists(L, S, IdPairs(S))
    <3> HIDE DEF S
    <3> QED BY <1>1, IdsAreListed
  <2> HIDE DEF S, L
  <2> QED BY <2>1, ListType
<1>3. \A i \in 1 .. n : name(i) \in NewNames(w) /\ name(i) \in Name
  <2> HIDE DEF L
  <2> QED BY <1>1, <1>2 DEF NewNames
<1>4. ASSUME NEW m \in NewNames(w)
      PROVE  \E i \in 1 .. n : name(i) = m
  <2> HIDE DEF L
  <2>1. PICK c \in S : w.newCollections[c] = m
    BY DEF NewNames
  <2>2. PICK i \in 1 .. n : L[i] = c
    BY <1>2, <2>1
  <2> QED BY <2>1, <2>2
<1>5. \A t \in X : Catalogued(t, ts)
  OBVIOUS
<1>6. \A t : Catalogued(t, ts) => t \in X
  BY StoresAreKeyed DEF Catalogued
<1> HIDE DEF X
<1>7. ASSUME NEW u \in 0 .. ts
      PROVE  \E walk \in [0 .. n -> X] :
               /\ walk[0] = s
               /\ \A i \in 1 .. n : walk[i] = CreateCollection(walk[i - 1], name(i), u)
               /\ walk[n] = CollectionsCreated(s, w, u)
  <2>1. CollectionsStay(X, L, s, w, u)
    <3> SUFFICES ASSUME NEW x \in X, NEW i \in 1 .. n
                 PROVE  Catalogued(CreateCollection(x, name(i), u), ts)
      BY <1>6 DEF CollectionsStay
    <3> DEFINE m == name(i)
    <3>1. m \in Name /\ Catalogued(x, ts)
      BY <1>3, <1>5
    <3> HIDE DEF m
    <3>2. Catalogued(CreateCollection(x, m, u), ts)
      BY <3>1, CreatedCollection
    <3> QED BY <3>2 DEF m
  <2>2. s \in X
    BY <1>6
  <2>3. CollectionsEnd(X, L, s, w, u)
    <3> HIDE DEF L
    <3> QED BY <1>2, <2>1, <2>2, CollectionsWalk DEF L
  <2> HIDE DEF L
  <2> QED BY <2>3 DEF CollectionsEnd
<1>8. PICK walk \in [0 .. n -> X] :
        /\ walk[0] = s
        /\ \A i \in 1 .. n : walk[i] = CreateCollection(walk[i - 1], name(i), v)
        /\ walk[n] = CollectionsCreated(s, w, v)
  BY <1>7
<1>9. PICK base \in [0 .. n -> X] :
        /\ base[0] = s
        /\ \A i \in 1 .. n : base[i] = CreateCollection(base[i - 1], name(i), 0)
        /\ base[n] = CollectionsCreated(s, w, 0)
  <2>1. 0 \in 0 .. ts
    OBVIOUS
  <2> QED BY <1>7, <2>1
<1> HIDE DEF S, L, n, name
<1> DEFINE Same(i) ==
             walk[i].ids = base[i].ids /\ walk[i].lastCollection = base[i].lastCollection
           Has(i) ==
             /\ Extends(s, walk[i])
             /\ \A j \in 1 .. i : name(j) \in DOMAIN walk[i].ids
             /\ \A m \in DOMAIN walk[i].ids : m \in DOMAIN s.ids \cup NewNames(w)
             /\ walk[i].indexes = s.indexes /\ walk[i].docs = s.docs
             /\ walk[i].entries = s.entries
           G == {i \in 0 .. n : Same(i) /\ Has(i)}
<1>10. 0 \in G
  <2>1. Same(0)
    BY <1>8, <1>9
  <2>2. Has(0)
    BY <1>8, ExtendsIsOrder
  <2>3. 0 \in 0 .. n
    BY <1>2
  <2> HIDE DEF Same, Has
  <2> QED BY <2>1, <2>2, <2>3
<1>11. ASSUME NEW i \in 1 .. n, i - 1 \in G
       PROVE  i \in G
  <2> DEFINE t == walk[i - 1]
             b == base[i - 1]
             m == name(i)
  <2>1. i \in 0 .. n /\ i - 1 \in 0 .. n
    BY <1>2
  <2>2. Same(i - 1) /\ Has(i - 1)
    BY <1>11
  <2>3. Catalogued(t, ts) /\ Catalogued(b, ts) /\ m \in Name /\ m \in NewNames(w)
    BY <1>3, <1>5, <1>8, <1>9, <2>1
  <2>4. walk[i] = CreateCollection(t, m, v) /\ base[i] = CreateCollection(b, m, 0)
    BY <1>8, <1>9
  <2>5. /\ t.ids = b.ids /\ t.lastCollection = b.lastCollection /\ Extends(s, t)
        /\ \A j \in 1 .. i - 1 : name(j) \in DOMAIN t.ids
        /\ \A k \in DOMAIN t.ids : k \in DOMAIN s.ids \cup NewNames(w)
        /\ t.indexes = s.indexes /\ t.docs = s.docs /\ t.entries = s.entries
    BY <2>2
  <2> HIDE DEF t, b, G, m
  <2>6. /\ Extends(t, walk[i]) /\ DOMAIN walk[i].ids = DOMAIN t.ids \cup {m}
        /\ walk[i].indexes = t.indexes /\ walk[i].docs = t.docs /\ walk[i].entries = t.entries
        /\ walk[i].ids = IF m \in DOMAIN t.ids THEN t.ids
                         ELSE Inserted(t.ids, m, t.lastCollection + 1)
        /\ walk[i].lastCollection = IF m \in DOMAIN t.ids THEN t.lastCollection
                                    ELSE t.lastCollection + 1
    BY <2>3, <2>4, CreatedCollection
  <2>7. /\ base[i].ids = IF m \in DOMAIN b.ids THEN b.ids
                         ELSE Inserted(b.ids, m, b.lastCollection + 1)
        /\ base[i].lastCollection = IF m \in DOMAIN b.ids THEN b.lastCollection
                                    ELSE b.lastCollection + 1
    <3>1. 0 \in 0 .. ts
      OBVIOUS
    <3> QED BY <2>3, <2>4, <3>1, CreatedCollection
  <2>8. Same(i)
    BY <2>5, <2>6, <2>7
  <2>9. \A j \in 1 .. i : name(j) \in DOMAIN walk[i].ids
    <3> SUFFICES ASSUME NEW j \in 1 .. i
                 PROVE  name(j) \in DOMAIN walk[i].ids
      OBVIOUS
    <3>1. CASE j = i
      BY <2>6, <3>1 DEF m
    <3>2. CASE j # i
      <4>1. j \in 1 .. i - 1
        BY <3>2
      <4> QED BY <2>5, <2>6, <4>1
    <3> QED BY <3>1, <3>2
  <2>10. Extends(s, walk[i])
    BY <2>5, <2>6, ExtendsIsOrder
  <2>11. \A k \in DOMAIN walk[i].ids : k \in DOMAIN s.ids \cup NewNames(w)
    BY <2>3, <2>5, <2>6
  <2>12. Has(i)
    BY <2>5, <2>6, <2>9, <2>10, <2>11
  <2> HIDE DEF Same, Has
  <2> QED BY <2>1, <2>8, <2>12 DEF G
<1>12. \A i \in 0 .. n : i \in G
  <2> HIDE DEF G
  <2> QED BY <1>2, <1>10, <1>11, UpTo
<1>13. Same(n) /\ Has(n) /\ walk[n] \in X
  <2>1. n \in 0 .. n
    BY <1>2
  <2> QED BY <1>8, <1>12, <2>1
<1> DEFINE c == CollectionsCreated(s, w, v)
<1>14. c.ids = CollectionsCreated(s, w, 0).ids
  BY <1>8, <1>9, <1>13
<1>15. /\ Extends(s, c) /\ \A j \in 1 .. n : name(j) \in DOMAIN c.ids
       /\ \A m \in DOMAIN c.ids : m \in DOMAIN s.ids \cup NewNames(w)
       /\ c.indexes = s.indexes /\ c.docs = s.docs /\ c.entries = s.entries
  BY <1>8, <1>13
<1>16. Catalogued(c, ts)
  BY <1>5, <1>8, <1>13
<1> HIDE DEF c
<1>17. DOMAIN c.ids = DOMAIN s.ids \cup NewNames(w)
  BY <1>4, <1>15 DEF Extends
<1> QED BY <1>14, <1>15, <1>16, <1>17 DEF c, Created

-----------------------------------------------------------------------------
(* Indexes of a write set *)

\* The temporary ids of the indexes of w, and the place of each in the catalog.
Temps(w) == {k[2] : k \in DOMAIN w.newIndexes}
KeyFor(w, new, k) == <<Resolve(k[1], new), w.newIndexes[k].name>>
NewKeys(w, new) == {KeyFor(w, new, k) : k \in DOMAIN w.newIndexes}

\* The new indexes of w are of the collections in cols.
NewIndexes(w, cols) ==
  IsTable(w.newIndexes, cols \X Temporary, Rows) /\ IsFiniteSet(DOMAIN w.newIndexes)

\* i is s with the indexes in it, and nothing else.
Indexed(i, s, w, new, ts) ==
  /\ Catalogued(i, ts) /\ Extends(s, i)
  /\ DOMAIN i.indexes = DOMAIN s.indexes \cup NewKeys(w, new)
  /\ i.ids = s.ids /\ i.rows = s.rows /\ i.docs = s.docs /\ i.entries = s.entries

\* L has the new indexes of w, in collections of cols.
IndexList(L, w, cols) ==
  LET S == DOMAIN w.newIndexes
  IN /\ L \in Seq(S) /\ Len(L) \in Nat
     /\ \A i \in 1 .. Len(L) : L[i] \in S
     /\ \A k \in S : \E i \in 1 .. Len(L) : L[i] = k
     /\ \A k \in S : /\ k[1] \in cols /\ k[2] \in Temporary
                     /\ w.newIndexes[k] \in Rows /\ w.newIndexes[k].name \in Name

\* What the list of new indexes consists of.
LEMMA NewIndexType ==
  ASSUME NEW cols \in SUBSET Int, NEW w, NewIndexes(w, cols), NEW L, L = NewIndexesInOrder(w)
  PROVE  IndexList(L, w, cols)
<1> DEFINE S == DOMAIN w.newIndexes
<1>1. \A k \in S : k \in cols \X Temporary /\ w.newIndexes[k] \in Rows
  BY DEF NewIndexes, IsTable
<1>2. \A k \in S : k[1] \in cols /\ k[2] \in Temporary /\ w.newIndexes[k].name \in Name
  <2> SUFFICES ASSUME NEW k \in S
               PROVE  k[1] \in cols /\ k[2] \in Temporary /\ w.newIndexes[k].name \in Name
    OBVIOUS
  <2>1. k \in cols \X Temporary
    BY <1>1
  <2>2. w.newIndexes[k].name \in Name
    BY <1>1 DEF Rows
  <2> QED BY <2>1, <2>2
<1>3. S \in SUBSET (Int \X Int)
  <2>1. cols \X Temporary \subseteq Int \X Int
    BY DEF Temporary
  <2> QED BY <1>1, <2>1
<1>4. Lists(L, S, KeyPairs(S))
  BY <1>3, IndexesAreListed DEF NewIndexes
<1> HIDE DEF S
<1>5. /\ L \in Seq(S) /\ Len(L) \in Nat /\ \A i \in 1 .. Len(L) : L[i] \in S
      /\ \A x \in S : \E i \in 1 .. Len(L) : L[i] = x
  BY <1>4, ListType
<1> QED BY <1>1, <1>2, <1>5 DEF IndexList, S

\* put's indexes: each is in the catalog afterwards, and those that were keep their ids.
LEMMA IndexesAreCreated ==
  ASSUME NEW ts \in Nat, NEW s, Catalogued(s, ts), NEW cols \in SUBSET Int, NEW w,
         NewIndexes(w, cols), NEW new, \A c \in cols : Resolve(c, new) \in CollectionIds(s)
  PROVE  Indexed(IndexesCreated(s, w, new), s, w, new, ts)
<1> DEFINE X == {t \in Keyed : Catalogued(t, ts)}
           S == DOMAIN w.newIndexes
           L == NewIndexesInOrder(w)
           n == Len(L)
<1>1. /\ L \in Seq(S) /\ n \in Nat /\ \A i \in 1 .. n : L[i] \in S
      /\ \A k \in S : \E i \in 1 .. n : L[i] = k
      /\ \A k \in S : k[1] \in cols /\ w.newIndexes[k] \in Rows
  <2>1. L = NewIndexesInOrder(w)
    OBVIOUS
  <2> HIDE DEF L
  <2>2. IndexList(L, w, cols)
    BY <2>1, NewIndexType
  <2> QED BY <2>2 DEF IndexList
<1>2. \A t \in X : Catalogued(t, ts)
  OBVIOUS
<1>3. \A t : Catalogued(t, ts) => t \in X
  BY StoresAreKeyed DEF Catalogued
<1>4. \A k \in S : Resolve(k[1], new) \in Nat
  <2>1. CollectionIds(s) \subseteq Nat
    <3>1. WellTyped(s, ts)
      BY DEF Catalogued
    <3>2. CollectionIds(s) \subseteq 1 .. s.lastCollection
      BY <3>1, IdsArePositive
    <3> QED BY <3>2
  <2> HIDE DEF S
  <2> QED BY <1>1, <2>1
<1> HIDE DEF X, S, L
<1>5. ASSUME NEW x \in X, NEW i \in 1 .. n
      PROVE  /\ Catalogued(x, ts) /\ Resolve(L[i][1], new) \in Nat
             /\ w.newIndexes[L[i]] \in Rows /\ L[i] \in S
  BY <1>1, <1>2, <1>4
<1>6. IndexesStay(X, L, s, w, new)
  <2> SUFFICES ASSUME NEW x \in X, NEW i \in 1 .. Len(L)
               PROVE  CreateIndex(x, Resolve(L[i][1], new), w.newIndexes[L[i]]) \in X
    BY DEF IndexesStay
  <2> DEFINE id == Resolve(L[i][1], new)
             index == w.newIndexes[L[i]]
  <2>1. Catalogued(x, ts) /\ id \in Nat /\ index \in Rows
    BY <1>5
  <2> HIDE DEF id, index
  <2>2. Catalogued(CreateIndex(x, id, index), ts)
    BY <2>1, CreatedIndex DEF HasIndex
  <2> QED BY <1>3, <2>2 DEF id, index
<1>7. IndexesEnd(X, L, s, w, new)
  BY <1>1, <1>3, <1>6, IndexesWalk DEF L
<1>8. PICK walk \in [0 .. n -> X] :
        /\ walk[0] = s
        /\ \A i \in 1 .. n :
             walk[i] = CreateIndex(walk[i - 1], Resolve(L[i][1], new), w.newIndexes[L[i]])
        /\ walk[n] = IndexesCreated(s, w, new)
  BY <1>7 DEF IndexesEnd
<1> DEFINE Has(i) ==
             /\ Extends(s, walk[i])
             /\ \A j \in 1 .. i : KeyFor(w, new, L[j]) \in DOMAIN walk[i].indexes
             /\ \A k \in DOMAIN walk[i].indexes : k \in DOMAIN s.indexes \cup NewKeys(w, new)
             /\ walk[i].ids = s.ids /\ walk[i].rows = s.rows /\ walk[i].docs = s.docs
             /\ walk[i].entries = s.entries
           G == {i \in 0 .. n : Has(i)}
<1>9. 0 \in G
  <2>1. Has(0)
    BY <1>8, ExtendsIsOrder
  <2>2. 0 \in 0 .. n
    BY <1>1
  <2> HIDE DEF Has
  <2> QED BY <2>1, <2>2
<1>10. ASSUME NEW i \in 1 .. n, i - 1 \in G
       PROVE  i \in G
  <2> DEFINE t == walk[i - 1]
             id == Resolve(L[i][1], new)
             index == w.newIndexes[L[i]]
             key == KeyFor(w, new, L[i])
  <2>1. i \in 0 .. n /\ i - 1 \in 0 .. n
    BY <1>1
  <2>2. Catalogued(t, ts) /\ id \in Nat /\ index \in Rows /\ key \in NewKeys(w, new)
    <3>1. t \in X
      BY <1>8, <2>1
    <3>2. L[i] \in S
      BY <1>1
    <3>3. key \in NewKeys(w, new)
      BY <3>2 DEF NewKeys, S
    <3> HIDE DEF t, key
    <3> QED BY <1>5, <3>1, <3>3
  <2>3. walk[i] = CreateIndex(t, id, index) /\ key = <<id, index.name>>
    BY <1>8 DEF KeyFor
  <2>4. /\ Extends(s, t)
        /\ \A j \in 1 .. i - 1 : KeyFor(w, new, L[j]) \in DOMAIN t.indexes
        /\ \A k \in DOMAIN t.indexes : k \in DOMAIN s.indexes \cup NewKeys(w, new)
        /\ t.ids = s.ids /\ t.rows = s.rows /\ t.docs = s.docs /\ t.entries = s.entries
    BY <1>10
  <2> HIDE DEF t, id, index, key, G
  <2>5. /\ Extends(t, walk[i]) /\ DOMAIN walk[i].indexes = DOMAIN t.indexes \cup {key}
        /\ walk[i].ids = t.ids /\ walk[i].rows = t.rows /\ walk[i].docs = t.docs
        /\ walk[i].entries = t.entries
    <3>1. HasIndex(CreateIndex(t, id, index), t, <<id, index.name>>, ts)
      BY <2>2, CreatedIndex
    <3>2. HasIndex(walk[i], t, key, ts)
      BY <2>3, <3>1
    <3> QED BY <3>2 DEF HasIndex
  <2>6. Extends(s, walk[i])
    BY <2>4, <2>5, ExtendsIsOrder
  <2>7. \A j \in 1 .. i : KeyFor(w, new, L[j]) \in DOMAIN walk[i].indexes
    <3> SUFFICES ASSUME NEW j \in 1 .. i
                 PROVE  KeyFor(w, new, L[j]) \in DOMAIN walk[i].indexes
      OBVIOUS
    <3>1. CASE j = i
      BY <2>5, <3>1 DEF key
    <3>2. CASE j # i
      <4>1. j \in 1 .. i - 1
        BY <3>2
      <4> QED BY <2>4, <2>5, <4>1
    <3> QED BY <3>1, <3>2
  <2>8. Has(i)
    BY <2>2, <2>4, <2>5, <2>6, <2>7
  <2> HIDE DEF Has
  <2> QED BY <2>1, <2>8 DEF G
<1>11. \A i \in 0 .. n : i \in G
  <2> HIDE DEF G
  <2> QED BY <1>1, <1>9, <1>10, UpTo
<1>12. Has(n) /\ Catalogued(walk[n], ts)
  <2>1. n \in 0 .. n
    BY <1>1
  <2> QED BY <1>2, <1>8, <1>11, <2>1
<1> DEFINE c == IndexesCreated(s, w, new)
<1>13. /\ Extends(s, c) /\ \A j \in 1 .. n : KeyFor(w, new, L[j]) \in DOMAIN c.indexes
       /\ \A k \in DOMAIN c.indexes : k \in DOMAIN s.indexes \cup NewKeys(w, new)
       /\ c.ids = s.ids /\ c.rows = s.rows /\ c.docs = s.docs /\ c.entries = s.entries
       /\ Catalogued(c, ts)
  BY <1>8, <1>12
<1> HIDE DEF c
<1>14. NewKeys(w, new) \subseteq DOMAIN c.indexes
  BY <1>1, <1>13 DEF NewKeys, S
<1>15. DOMAIN c.indexes = DOMAIN s.indexes \cup NewKeys(w, new)
  BY <1>13, <1>14 DEF Extends
<1> QED BY <1>13, <1>15 DEF c, Indexed

\* put's map of index ids: a place for every temporary id, and only ids of the catalog;
\* temporary ids that differ get the ids of their indexes.
LEMMA IndexIdsAreKnown ==
  ASSUME NEW cols \in SUBSET Int, NEW w, NewIndexes(w, cols), NEW s, NEW new,
         NewKeys(w, new) \subseteq DOMAIN s.indexes
  PROVE  /\ DOMAIN NewIndexIds(s, w, new) = Temps(w)
         /\ \A i \in Temps(w) : NewIndexIds(s, w, new)[i] \in IndexIds(s)
         /\ (\A k, l \in DOMAIN w.newIndexes : k[2] = l[2] => k = l) =>
              \A k \in DOMAIN w.newIndexes : NewIndexIds(s, w, new)[k[2]] = IdFor(s, w, new, k)
<1> DEFINE X == Tables(Temps(w), IndexIds(s))
           S == DOMAIN w.newIndexes
           L == NewIndexesInOrder(w)
           n == Len(L)
<1>1. /\ L \in Seq(S) /\ n \in Nat /\ \A i \in 1 .. n : L[i] \in S
      /\ \A k \in S : \E i \in 1 .. n : L[i] = k
  <2>1. L = NewIndexesInOrder(w)
    OBVIOUS
  <2> HIDE DEF L
  <2>2. IndexList(L, w, cols)
    BY <2>1, NewIndexType
  <2> QED BY <2>2 DEF IndexList
<1>2. \A k \in S : k[2] \in Temps(w) /\ IdFor(s, w, new, k) \in IndexIds(s)
  BY DEF Temps, IdFor, IndexIds, NewKeys, KeyFor
<1>3. \A t : t \in X <=> IsTable(t, Temps(w), IndexIds(s))
  BY TableType
<1> HIDE DEF X, S, L
<1>4. NoTable \in X
  <2>1. IsTable(NoTable, Temps(w), IndexIds(s))
    BY DEF IsTable, NoTable
  <2> QED BY <1>3, <2>1
<1>5. IndexIdsStay(X, L, s, w, new)
  <2> SUFFICES ASSUME NEW x \in X, NEW i \in 1 .. Len(L)
               PROVE  Inserted(x, L[i][2], IdFor(s, w, new, L[i])) \in X
    BY DEF IndexIdsStay
  <2> DEFINE k == L[i][2]
             id == IdFor(s, w, new, L[i])
  <2>1. IsTable(x, Temps(w), IndexIds(s)) /\ k \in Temps(w) /\ id \in IndexIds(s)
    BY <1>1, <1>2, <1>3
  <2> HIDE DEF k, id
  <2>2. IsTable(Inserted(x, k, id), Temps(w), IndexIds(s))
    BY <2>1, InsertedType
  <2> QED BY <1>3, <2>2 DEF k, id
<1>6. IndexIdsEnd(X, L, s, w, new)
  BY <1>1, <1>4, <1>5, IndexIdsWalk DEF L
<1>7. PICK walk \in [0 .. n -> X] :
        /\ walk[0] = NoTable
        /\ \A i \in 1 .. n : walk[i] = Inserted(walk[i - 1], L[i][2], IdFor(s, w, new, L[i]))
        /\ walk[n] = NewIndexIds(s, w, new)
  BY <1>6 DEF IndexIdsEnd
<1> DEFINE Differ == \A k, l \in S : k[2] = l[2] => k = l
           Has(m, k) == /\ k[2] \in DOMAIN m
                        /\ Differ => m[k[2]] = IdFor(s, w, new, k)
           G == {i \in 0 .. n : \A j \in 1 .. i : Has(walk[i], L[j])}
<1>8. 0 \in G
  <2>1. 0 \in 0 .. n /\ 1 .. 0 = {}
    BY <1>1
  <2> QED BY <2>1
<1>9. ASSUME NEW i \in 1 .. n, i - 1 \in G
      PROVE  i \in G
  <2>1. i \in 0 .. n /\ \A j \in 1 .. i - 1 : j \in 1 .. n /\ Has(walk[i - 1], L[j])
    BY <1>9
  <2>2. IsInserted(walk[i], walk[i - 1], L[i][2], IdFor(s, w, new, L[i]))
    BY <1>7, InsertedRow
  <2>3. /\ L[i][2] \in DOMAIN walk[i] /\ walk[i][L[i][2]] = IdFor(s, w, new, L[i])
        /\ \A x \in DOMAIN walk[i - 1] :
             x \in DOMAIN walk[i] /\ (x # L[i][2] => walk[i][x] = walk[i - 1][x])
    BY <2>2 DEF IsInserted
  <2>4. \A j \in 1 .. i : j # i => j \in 1 .. i - 1
    OBVIOUS
  <2>5. ASSUME NEW j \in 1 .. i
        PROVE  Has(walk[i], L[j])
    <3>1. CASE j = i
      BY <2>3, <3>1
    <3>2. CASE j # i
      <4>1. Has(walk[i - 1], L[j]) /\ L[j] \in S /\ L[i] \in S
        BY <1>1, <2>1, <2>4, <3>2
      <4>2. CASE L[j] = L[i]
        BY <2>3, <4>2
      <4>3. CASE L[j] # L[i]
        BY <2>3, <4>1, <4>3
      <4> QED BY <4>2, <4>3
    <3> QED BY <3>1, <3>2
  <2> QED BY <2>1, <2>5
<1>10. \A i \in 0 .. n : i \in G
  <2> HIDE DEF G
  <2> QED BY <1>1, <1>8, <1>9, UpTo
<1> DEFINE m == NewIndexIds(s, w, new)
<1>11. m \in X /\ \A j \in 1 .. n : Has(m, L[j])
  <2>1. n \in 0 .. n
    BY <1>1
  <2> QED BY <1>7, <1>10, <2>1
<1> HIDE DEF m
<1>12. \A k \in S : Has(m, k)
  BY <1>1, <1>11
<1>13. IsTable(m, Temps(w), IndexIds(s))
  BY <1>3, <1>11
<1>14. Temps(w) \subseteq DOMAIN m
  BY <1>12 DEF Temps, S
<1> QED BY <1>12, <1>13, <1>14 DEF IsTable, m, S

-----------------------------------------------------------------------------
(* The collections of a write set, written one by one *)

\* A finite set of ids has a first and a last one.
LEMMA IdsHaveEnds ==
  ASSUME NEW S \in SUBSET Int, IsFiniteSet(S), S # {}
  PROVE  Max(S) \in S /\ Min(S) \in S
<1> DEFINE L == InIdOrder(S)
           n == Len(L)
<1>1. /\ L \in Seq(S) /\ n \in Nat
      /\ \A i \in 1 .. n : L[i] \in S
      /\ \A i, j \in 1 .. n : i < j => <<L[i], L[j]>> \in IdPairs(S)
      /\ \A x \in S : \E i \in 1 .. n : L[i] = x
  <2>1. Lists(L, S, IdPairs(S))
    BY IdsAreListed
  <2> HIDE DEF L
  <2> QED BY <2>1, ListType DEF Lists
<1> HIDE DEF L, n
<1>2. \A i, j \in 1 .. n : i < j => L[i] < L[j]
  BY <1>1 DEF IdPairs
<1>3. n \in 1 .. n /\ 1 \in 1 .. n
  <2>1. PICK i \in 1 .. n : TRUE
    BY <1>1
  <2> QED BY <1>1, <2>1
<1>4. \A x \in S : L[1] <= x /\ x <= L[n]
  <2> SUFFICES ASSUME NEW x \in S
               PROVE  L[1] <= x /\ x <= L[n]
    OBVIOUS
  <2>1. PICK i \in 1 .. n : L[i] = x
    BY <1>1
  <2>2. L[1] \in Int /\ L[n] \in Int /\ x \in Int
    BY <1>1, <1>3
  <2>3. i = 1 \/ 1 < i
    OBVIOUS
  <2>4. i = n \/ i < n
    BY <1>1
  <2>5. L[1] <= x
    BY <1>2, <1>3, <2>1, <2>2, <2>3
  <2>6. x <= L[n]
    BY <1>2, <1>3, <2>1, <2>2, <2>4
  <2> QED BY <2>5, <2>6
<1>5. L[1] \in S /\ L[n] \in S
  BY <1>1, <1>3
<1>6. \E x \in S : \A y \in S : x >= y
  BY <1>4, <1>5
<1>7. \E x \in S : \A y \in S : x =< y
  BY <1>4, <1>5
<1> QED BY <1>6, <1>7 DEF Max, Min

\* The collections that a transaction can name: its own, and those it finds.
Cols(w, ids) == DOMAIN w.newCollections \cup ids
DocPlaces(C) == C \X Doc
EntryPlaces(C, I) == C \X I \X Doc
Ops == {"Put", "Deleted"}

\* The writes of a transaction that found the collections in ids and the indexes in indexIds.
Sound(w, ids, indexIds) ==
  /\ ids \subseteq Nat /\ indexIds \subseteq Nat
  /\ w \in [newCollections : {w.newCollections}, newIndexes : {w.newIndexes}, docs : {w.docs},
            entries : {w.entries}, metadata : {w.metadata}]
  /\ NewCollections(w) /\ NewIndexes(w, Cols(w, ids))
  /\ IsTable(w.docs, DocPlaces(Cols(w, ids)), Tx)
  /\ IsTable(w.entries, EntryPlaces(Cols(w, ids), Temps(w) \cup indexIds), Ops)
  /\ IsTable(w.metadata, Cols(w, ids), Metadata)
  /\ IsFiniteSet(Written(w))

\* Where the rows of a write set belong.
LEMMA WritesBelong ==
  ASSUME NEW w, NEW ids, NEW indexIds, Sound(w, ids, indexIds)
  PROVE  /\ Cols(w, ids) \in SUBSET Int
         /\ \A k \in DOMAIN w.docs : k[1] \in Cols(w, ids) /\ k[2] \in Doc /\ k = <<k[1], k[2]>>
         /\ \A k \in DOMAIN w.docs : w.docs[k] \in Tx
         /\ \A k \in DOMAIN w.entries :
              k[1] \in Cols(w, ids) /\ k[2] \in Temps(w) \cup indexIds /\ k[3] \in Doc
         /\ \A c \in DOMAIN w.metadata : c \in Cols(w, ids) /\ w.metadata[c] \in Metadata
         /\ \A k \in DOMAIN w.newIndexes : k[1] \in Cols(w, ids)
         /\ Written(w) \subseteq Cols(w, ids)
<1> DEFINE C == Cols(w, ids)
           I == Temps(w) \cup indexIds
<1>1. C \in SUBSET Int
  BY DEF Sound, NewCollections, IsTable, Temporary, Cols
<1>2. /\ \A k \in DOMAIN w.docs : k \in C \X Doc /\ w.docs[k] \in Tx
      /\ \A k \in DOMAIN w.entries : k \in C \X I \X Doc
      /\ \A c \in DOMAIN w.metadata : c \in C /\ w.metadata[c] \in Metadata
      /\ \A k \in DOMAIN w.newIndexes : k \in C \X Temporary
  BY DEF Sound, NewIndexes, IsTable, DocPlaces, EntryPlaces
<1> HIDE DEF C, I
<1>3. \A k \in DOMAIN w.docs : k[1] \in C /\ k[2] \in Doc /\ k = <<k[1], k[2]>>
  BY <1>2
<1>4. \A k \in DOMAIN w.entries : k[1] \in C /\ k[2] \in I /\ k[3] \in Doc
  BY <1>2
<1>5. \A k \in DOMAIN w.newIndexes : k[1] \in C
  BY <1>2
<1>6. Written(w) \subseteq C
  BY <1>2, <1>3, <1>4 DEF Written
<1>7. \A k \in DOMAIN w.docs : w.docs[k] \in Tx
  BY <1>2
<1>8. \A c \in DOMAIN w.metadata : c \in C /\ w.metadata[c] \in Metadata
  BY <1>2
<1> QED BY <1>1, <1>3, <1>4, <1>5, <1>6, <1>7, <1>8 DEF C, I

\* Every collection that a write set names stands for one that is there when the new
\* ones have been created.
LEMMA CollectionsResolve ==
  ASSUME NEW ts \in Nat, NEW s, Catalogued(s, ts), NEW w, NEW v \in 0 .. ts,
         NEW ids, NEW indexIds, Sound(w, ids, indexIds), ids \subseteq CollectionIds(s),
         NEW c \in Cols(w, ids)
  PROVE  /\ Resolves(c, NewIds(s, w))
         /\ Resolve(c, NewIds(s, w)) \in CollectionIds(CollectionsCreated(s, w, v))
<1> DEFINE created == CollectionsCreated(s, w, v)
           unversioned == CollectionsCreated(s, w, 0)
           new == NewIds(s, w)
<1>1. NewCollections(w)
  BY DEF Sound
<1>2. Created(created, s, w, ts) /\ created.ids = unversioned.ids
  BY <1>1, CollectionsAreCreated
<1>3. new = [t \in DOMAIN w.newCollections |-> unversioned.ids[w.newCollections[t]]]
  BY DEF NewIds
<1> HIDE DEF created, unversioned, new
<1>4. /\ NewNames(w) \subseteq DOMAIN created.ids /\ Extends(s, created)
  BY <1>2 DEF Created
<1>5. CASE c \in DOMAIN w.newCollections
  <2>1. c \in Int /\ ~(c >= 0)
    BY <1>1, <1>5 DEF NewCollections, IsTable, Temporary
  <2>2. w.newCollections[c] \in DOMAIN created.ids
    BY <1>4, <1>5 DEF NewNames
  <2>3. new[c] = created.ids[w.newCollections[c]] /\ c \in DOMAIN new
    BY <1>2, <1>3, <1>5
  <2>4. new[c] \in CollectionIds(created)
    BY <2>2, <2>3 DEF CollectionIds
  <2> QED BY <2>1, <2>3, <2>4 DEF Resolves, Resolve, new, created
<1>6. CASE c \in ids
  <2>1. c >= 0 /\ c \in CollectionIds(s)
    BY <1>6 DEF Sound
  <2>2. c \in CollectionIds(created)
    BY <1>4, <2>1, ExtendsIsOrder
  <2> QED BY <2>1, <2>2 DEF Resolves, Resolve, new, created
<1> QED BY <1>5, <1>6 DEF Cols

\* The newest row of a collection is one that the store has.
LEMMA NewestStored ==
  ASSUME NEW ts \in Nat, NEW s, WellTyped(s, ts), NEW id, NEW k \in DOMAIN s.rows, k[1] = id
  PROVE  /\ <<id, Max(AllVersionsOf(s, id))>> \in DOMAIN s.rows
         /\ id \in Nat /\ AllVersionsOf(s, id) # {}
<1> DEFINE V == AllVersionsOf(s, id)
<1>1. \A l \in DOMAIN s.rows : l \in RowKeys(ts)
  <2>1. IsTable(s.rows, RowKeys(ts), Rows)
    BY FieldTypes
  <2> QED BY <2>1 DEF IsTable
<1>2. \A l \in DOMAIN s.rows : l[1] \in Nat /\ l[2] \in 0 .. ts /\ l = <<l[1], l[2]>>
  BY <1>1 DEF RowKeys
<1>3. V \subseteq 0 .. ts /\ V # {} /\ \A v \in V : <<id, v>> \in DOMAIN s.rows
  BY <1>2 DEF AllVersionsOf
<1>4. IsFiniteSet(V)
  <2>1. IsFiniteSet(0 .. ts)
    <3>1. 0 \in Int /\ ts \in Int
      OBVIOUS
    <3> QED BY <3>1, FS_Interval
  <2> HIDE DEF V
  <2> QED BY <1>3, <2>1, FS_Subset
<1> HIDE DEF V
<1>5. V \in SUBSET Int
  BY <1>3
<1>6. Max(V) \in V
  BY <1>3, <1>4, <1>5, IdsHaveEnds
<1> QED BY <1>2, <1>3, <1>6 DEF V

\* t is s with other rows of collections and indexes that are there.
Kept(t, s, ts) ==
  /\ Catalogued(t, ts) /\ t.ids = s.ids /\ t.indexes = s.indexes /\ (Owned(s) => Owned(t))

\* A row of metadata leaves the catalog complete.
LEMMA UpdatedRows ==
  ASSUME NEW ts \in Nat, NEW s, Catalogued(s, ts), NEW id \in CollectionIds(s),
         NEW m \in Metadata, NEW v \in 0 .. ts, NEW rows, rows = UpdatedMetadata(s, id, m, v)
  PROVE  /\ IsTable(rows, RowKeys(ts), Rows)
         /\ DOMAIN s.rows \subseteq DOMAIN rows
         /\ \A k \in DOMAIN rows : \E n \in DOMAIN s.ids : k[1] = s.ids[n] /\ rows[k].name = n
<1> DEFINE newest == <<id, Max(AllVersionsOf(s, id))>>
           name == s.rows[newest].name
           row == [name |-> name, metadata |-> m]
           key == <<id, v>>
<1>1. WellTyped(s, ts)
  BY DEF Catalogued
<1>2. PICK k \in DOMAIN s.rows : k[1] = id
  BY DEF Catalogued, CollectionIds
<1>3. newest \in DOMAIN s.rows /\ id \in Nat
  BY <1>1, <1>2, NewestStored
<1>4. PICK n \in DOMAIN s.ids : newest[1] = s.ids[n] /\ s.rows[newest].name = n
  <2> HIDE DEF newest
  <2> QED BY <1>3 DEF Catalogued
<1>5. n \in DOMAIN s.ids /\ id = s.ids[n] /\ name = n
  BY <1>4
<1>6. IsTable(s.rows, RowKeys(ts), Rows) /\ name \in Name
  <2>1. IsTable(s.rows, RowKeys(ts), Rows)
    BY <1>1, FieldTypes
  <2> HIDE DEF newest
  <2>2. s.rows[newest] \in Rows
    BY <1>3, <2>1 DEF IsTable
  <2> QED BY <2>1, <2>2 DEF Rows
<1>7. rows = Inserted(s.rows, key, row)
  BY DEF UpdatedMetadata
<1> HIDE DEF newest, name
<1>8. row \in Rows /\ row.name = n
  BY <1>5, <1>6 DEF Rows
<1>9. key \in RowKeys(ts) /\ key[1] = id
  BY <1>3 DEF RowKeys
<1> HIDE DEF row, key
<1>10. IsTable(rows, RowKeys(ts), Rows)
  BY <1>6, <1>7, <1>8, <1>9, InsertedType
<1>11. IsInserted(rows, s.rows, key, row)
  BY <1>7, InsertedRow
<1>12. /\ DOMAIN rows = DOMAIN s.rows \cup {key} /\ rows[key] = row
       /\ \A j \in DOMAIN s.rows : j # key => rows[j] = s.rows[j]
  BY <1>11 DEF IsInserted
<1>13. ASSUME NEW j \in DOMAIN rows
       PROVE  \E i \in DOMAIN s.ids : j[1] = s.ids[i] /\ rows[j].name = i
  <2>1. CASE j = key
    BY <1>5, <1>8, <1>9, <1>12, <2>1
  <2>2. CASE j # key
    <3>1. j \in DOMAIN s.rows /\ rows[j] = s.rows[j]
      BY <1>12, <2>2
    <3> QED BY <3>1 DEF Catalogued
  <2> QED BY <2>1, <2>2
<1> QED BY <1>10, <1>12, <1>13

\* One collection written.
LEMMA WrittenCollection ==
  ASSUME NEW ts \in Nat, NEW s, Catalogued(s, ts), NEW v \in 0 .. ts,
         NEW w, NEW ids, NEW indexIds, Sound(w, ids, indexIds), NEW c, NEW new, NEW newIndex,
         Resolve(c, new) \in CollectionIds(s),
         \A k \in DOMAIN w.entries : Resolve(k[2], newIndex) \in IndexIds(s)
  PROVE  Kept(WriteCollection(s, w, c, new, newIndex, v), s, ts)
<1> DEFINE id == Resolve(c, new)
           these == {k[2] : k \in {l \in DOMAIN w.docs : l[1] = c}}
           those == {k \in DOMAIN w.entries : k[1] = c}
           Positions(op) ==
             {<<Resolve(k[2], newIndex), k[3]>> : k \in {e \in those : w.entries[e] = op}}
           added == [k \in {<<id, d, v>> : d \in these} |-> w.docs[<<c, k[2]>>]]
           docs == Overwritten(s.docs, added)
           entries == (s.entries \ Positions("Deleted")) \cup Positions("Put")
           rows == IF c \in DOMAIN w.metadata
                   THEN UpdatedMetadata(s, id, w.metadata[c], v) ELSE s.rows
           t == WriteCollection(s, w, c, new, newIndex, v)
<1>1. WellTyped(s, ts)
  BY DEF Catalogued
<1>2. t = [s EXCEPT !.docs = docs, !.entries = entries, !.rows = rows]
  BY DEF WriteCollection
<1>3. id \in Nat /\ id \in CollectionIds(s)
  <2>1. CollectionIds(s) \subseteq 1 .. s.lastCollection
    BY <1>1, IdsArePositive
  <2> HIDE DEF id
  <2> QED BY <2>1 DEF id
<1>4. IsTable(docs, DocKeys, Tx) /\ DOMAIN docs = DOMAIN s.docs \cup DOMAIN added
  <2>1. \A d \in these : d \in Doc /\ <<c, d>> \in DOMAIN w.docs /\ w.docs[<<c, d>>] \in Tx
    BY WritesBelong
  <2>2. \A d \in these : <<id, d, v>> \in DocKeys
    <3>1. v \in Nat
      OBVIOUS
    <3> HIDE DEF these, id
    <3> QED BY <1>3, <2>1, <3>1 DEF DocKeys
  <2> HIDE DEF these, id
  <2>3. IsTable(added, DocKeys, Tx)
    BY <2>1, <2>2 DEF IsTable
  <2>4. IsTable(s.docs, DocKeys, Tx)
    BY <1>1, FieldTypes
  <2> HIDE DEF added
  <2>5. IsTable(docs, DocKeys, Tx)
    BY <2>3, <2>4, OverwrittenRows
  <2>6. DOMAIN docs = DOMAIN s.docs \cup DOMAIN added
    BY DEF Overwritten
  <2> QED BY <2>5, <2>6
<1>5. \A k \in DOMAIN added : k[1] = id
  OBVIOUS
<1>6. \A e \in Positions("Put") : e[1] \in IndexIds(s) /\ e \in Nat \X Doc
  <2>1. IndexIds(s) \subseteq Nat
    BY <1>1, IdsArePositive
  <2> SUFFICES ASSUME NEW k \in those
               PROVE  /\ Resolve(k[2], newIndex) \in IndexIds(s) /\ k[3] \in Doc
                      /\ Resolve(k[2], newIndex) \in Nat
    OBVIOUS
  <2>2. k[3] \in Doc
    BY WritesBelong
  <2>3. Resolve(k[2], newIndex) \in IndexIds(s)
    OBVIOUS
  <2> QED BY <2>1, <2>2, <2>3
<1>7. s.entries \subseteq Nat \X Doc
  BY <1>1, FieldTypes
<1>8. /\ IsTable(rows, RowKeys(ts), Rows)
      /\ DOMAIN s.rows \subseteq DOMAIN rows
      /\ \A k \in DOMAIN rows : \E n \in DOMAIN s.ids : k[1] = s.ids[n] /\ rows[k].name = n
  <2>1. CASE c \in DOMAIN w.metadata
    <3>1. w.metadata[c] \in Metadata
      BY <2>1, WritesBelong
    <3> DEFINE m == w.metadata[c]
    <3>2. rows = UpdatedMetadata(s, id, m, v)
      BY <2>1
    <3> HIDE DEF id, rows, m
    <3> QED BY <1>3, <3>1, <3>2, UpdatedRows DEF m
  <2>2. CASE c \notin DOMAIN w.metadata
    <3>1. IsTable(s.rows, RowKeys(ts), Rows)
      BY <1>1, FieldTypes
    <3> QED BY <2>2, <3>1 DEF Catalogued
  <2> QED BY <2>1, <2>2
<1> DEFINE gone == Positions("Deleted")
           put == Positions("Put")
<1>9. entries = (s.entries \ gone) \cup put /\ \A e \in put : e[1] \in IndexIds(s) /\ e \in Nat \X Doc
  BY <1>6
<1> HIDE DEF id, these, those, gone, put, docs, entries, rows, added, t
<1>10. /\ t \in [ids : {s.ids}, rows : {rows}, indexes : {s.indexes}, docs : {docs},
                 entries : {entries}, lastCollection : {s.lastCollection},
                 lastIndex : {s.lastIndex}]
       /\ t.ids = s.ids /\ t.rows = rows /\ t.indexes = s.indexes /\ t.docs = docs
       /\ t.entries = entries /\ t.lastCollection = s.lastCollection /\ t.lastIndex = s.lastIndex
  BY <1>1, <1>2, FieldsChange
<1>11. entries \subseteq Nat \X Doc
  BY <1>7, <1>9
<1>12. WellTyped(t, ts)
  BY <1>1, <1>4, <1>8, <1>10, <1>11, FieldTypes
<1>13. \A n \in DOMAIN t.ids : \E k \in DOMAIN t.rows : k[1] = t.ids[n]
  BY <1>8, <1>10 DEF Catalogued
<1>14. Catalogued(t, ts)
  <2>1. Numbered(t)
    BY <1>10, NumbersStay
  <2> QED BY <1>8, <1>10, <1>12, <1>13, <2>1 DEF Catalogued
<1>15. ASSUME Owned(s)
       PROVE  Owned(t)
  <2>1. \A k \in DOMAIN s.indexes \cup DOMAIN docs : \E n \in DOMAIN s.ids : k[1] = s.ids[n]
    BY <1>3, <1>4, <1>5, <1>15 DEF Owned, CollectionIds
  <2>2. \A e \in entries : \E k \in DOMAIN s.indexes : s.indexes[k].id = e[1]
    BY <1>9, <1>15 DEF Owned, IndexIds
  <2> QED BY <1>10, <2>1, <2>2 DEF Owned
<1> QED BY <1>10, <1>14, <1>15 DEF Kept, t

\* p is s with a write set in it: complete, and with all names and ids that s has.
Stored(p, s, w, ts) ==
  /\ Catalogued(p, ts) /\ Extends(s, p) /\ (Owned(s) => Owned(p))
  /\ p.ids = CollectionsCreated(s, w, 0).ids
  /\ DOMAIN p.ids = DOMAIN s.ids \cup NewNames(w)

\* put writes one collection after the other, and the catalogs are complete all the time.
PutSteps(s, w, v, ts) ==
  LET new == NewIds(s, w)
      indexed == IndexesCreated(CollectionsCreated(s, w, v), w, new)
      newIndex == NewIndexIds(indexed, w, new)
      L == InIdOrder(Written(w))
  IN \E walk \in [0 .. Len(L) -> Keyed] :
       /\ walk[0] = indexed
       /\ \A i \in 1 .. Len(L) :
            walk[i] = WriteCollection(walk[i - 1], w, L[i], new, newIndex, v)
       /\ \A i \in 0 .. Len(L) : Kept(walk[i], indexed, ts)
       /\ walk[Len(L)] = Put(s, w, v)

\* put keeps the catalogs complete.
LEMMA PutKeepsCatalogs ==
  ASSUME NEW ts \in Nat, NEW s, Catalogued(s, ts), NEW v \in 0 .. ts,
         NEW w, NEW ids, NEW indexIds, Sound(w, ids, indexIds),
         ids \subseteq CollectionIds(s), indexIds \subseteq IndexIds(s)
  PROVE  Stored(Put(s, w, v), s, w, ts) /\ PutSteps(s, w, v, ts)
<1> DEFINE new == NewIds(s, w)
           created == CollectionsCreated(s, w, v)
           indexed == IndexesCreated(created, w, new)
           newIndex == NewIndexIds(indexed, w, new)
           C == Cols(w, ids)
           L == InIdOrder(Written(w))
           n == Len(L)
           X == {t \in Keyed : Kept(t, indexed, ts)}
<1>1. /\ C \in SUBSET Int /\ Written(w) \subseteq C /\ IsFiniteSet(Written(w))
      /\ NewCollections(w) /\ NewIndexes(w, C) /\ indexIds \subseteq Nat
      /\ Temps(w) \subseteq Temporary
  <2>1. C \in SUBSET Int /\ Written(w) \subseteq C
    BY WritesBelong
  <2>2. IsFiniteSet(Written(w)) /\ NewCollections(w) /\ NewIndexes(w, C) /\ indexIds \subseteq Nat
    BY DEF Sound
  <2> HIDE DEF C
  <2>3. \A k \in DOMAIN w.newIndexes : k \in C \X Temporary
    BY <2>2 DEF NewIndexes, IsTable
  <2>4. Temps(w) \subseteq Temporary
    BY <2>3 DEF Temps
  <2> QED BY <2>1, <2>2, <2>4
<1>2. Created(created, s, w, ts) /\ created.ids = CollectionsCreated(s, w, 0).ids
  BY <1>1, CollectionsAreCreated
<1>3. \A c \in C : Resolve(c, new) \in CollectionIds(created)
  BY CollectionsResolve
<1> HIDE DEF new, created, C
<1>4. Catalogued(created, ts)
  BY <1>2 DEF Created
<1>5. Indexed(indexed, created, w, new, ts)
  BY <1>1, <1>3, <1>4, IndexesAreCreated
<1> HIDE DEF indexed
<1>6. /\ Catalogued(indexed, ts) /\ Extends(created, indexed) /\ indexed.ids = created.ids
      /\ NewKeys(w, new) \subseteq DOMAIN indexed.indexes
  BY <1>5 DEF Indexed
<1>7. DOMAIN newIndex = Temps(w) /\ \A i \in Temps(w) : newIndex[i] \in IndexIds(indexed)
  BY <1>1, <1>6, IndexIdsAreKnown
<1>8. Extends(s, indexed)
  BY <1>2, <1>6, ExtendsIsOrder DEF Created
<1> HIDE DEF newIndex
<1>9. \A k \in DOMAIN w.entries : Resolve(k[2], newIndex) \in IndexIds(indexed)
  <2> SUFFICES ASSUME NEW k \in DOMAIN w.entries
               PROVE  Resolve(k[2], newIndex) \in IndexIds(indexed)
    OBVIOUS
  <2>1. k[2] \in Temps(w) \cup indexIds
    BY WritesBelong
  <2>2. CASE k[2] \in Temps(w)
    <3>1. ~(k[2] >= 0)
      BY <1>1, <2>2 DEF Temporary
    <3> QED BY <1>7, <2>2, <3>1 DEF Resolve
  <2>3. CASE k[2] \in indexIds
    <3> DEFINE i == k[2]
    <3>a. i \in Nat
      BY <1>1, <2>3
    <3>b. i >= 0
      <4> HIDE DEF i
      <4> QED BY <3>a
    <3>1. k[2] >= 0
      BY <3>b
    <3>2. k[2] \in IndexIds(indexed)
      BY <1>8, <2>3, ExtendsIsOrder
    <3> QED BY <3>1, <3>2 DEF Resolve
  <2> QED BY <2>1, <2>2, <2>3
<1>10. Owned(s) => Owned(indexed)
  <2> SUFFICES ASSUME Owned(s)
               PROVE  Owned(indexed)
    OBVIOUS
  <2>1. /\ DOMAIN indexed.indexes = DOMAIN s.indexes \cup NewKeys(w, new)
        /\ indexed.docs = s.docs /\ indexed.entries = s.entries
    BY <1>2, <1>5 DEF Created, Indexed
  <2>2. \A k \in NewKeys(w, new) : k[1] \in CollectionIds(indexed)
    <3>1. \A l \in DOMAIN w.newIndexes : l[1] \in C
      BY WritesBelong DEF C
    <3>2. \A l \in DOMAIN w.newIndexes : Resolve(l[1], new) \in CollectionIds(indexed)
      BY <1>3, <1>6, <3>1 DEF CollectionIds
    <3> QED BY <3>2 DEF NewKeys, KeyFor
  <2>3. \A k \in DOMAIN s.indexes \cup DOMAIN s.docs : k[1] \in CollectionIds(indexed)
    <3>1. CollectionIds(s) \subseteq CollectionIds(indexed)
      BY <1>8, ExtendsIsOrder
    <3>2. \A k \in DOMAIN s.indexes \cup DOMAIN s.docs : k[1] \in CollectionIds(s)
      BY DEF Owned, CollectionIds
    <3> QED BY <3>1, <3>2
  <2>4. \A e \in s.entries : e[1] \in IndexIds(indexed)
    <3>1. IndexIds(s) \subseteq IndexIds(indexed)
      BY <1>8, ExtendsIsOrder
    <3>2. \A e \in s.entries : e[1] \in IndexIds(s)
      BY DEF Owned, IndexIds
    <3> QED BY <3>1, <3>2
  <2> QED BY <2>1, <2>2, <2>3, <2>4 DEF Owned, CollectionIds, IndexIds
<1>11. /\ L \in Seq(Written(w)) /\ n \in Nat /\ \A i \in 1 .. n : L[i] \in Written(w)
  <2>1. Written(w) \in SUBSET Int
    BY <1>1
  <2>2. Lists(L, Written(w), IdPairs(Written(w)))
    BY <1>1, <2>1, IdsAreListed
  <2> HIDE DEF L
  <2> QED BY <2>2, ListType
<1>12. \A t \in X : Kept(t, indexed, ts)
  OBVIOUS
<1>13. \A t : Kept(t, indexed, ts) => t \in X
  BY StoresAreKeyed DEF Catalogued, Kept
<1> HIDE DEF X, L
<1>14. indexed \in X
  BY <1>6, <1>13 DEF Kept
<1>15. PutStay(X, L, s, w, v, new, indexed, newIndex)
  <2> SUFFICES ASSUME NEW x \in X, NEW i \in 1 .. Len(L)
               PROVE  Kept(WriteCollection(x, w, L[i], new, newIndex, v), indexed, ts)
    BY <1>13 DEF PutStay
  <2> DEFINE c == L[i]
  <2>1. c \in C
    BY <1>1, <1>11
  <2>2. Catalogued(x, ts) /\ x.ids = indexed.ids /\ x.indexes = indexed.indexes
        /\ (Owned(indexed) => Owned(x))
    BY <1>12 DEF Kept
  <2>3. Resolve(c, new) \in CollectionIds(x)
    <3> HIDE DEF c
    <3> QED BY <1>3, <1>6, <2>1, <2>2 DEF CollectionIds
  <2>4. \A k \in DOMAIN w.entries : Resolve(k[2], newIndex) \in IndexIds(x)
    BY <1>9, <2>2 DEF IndexIds
  <2> HIDE DEF c
  <2>5. Kept(WriteCollection(x, w, c, new, newIndex, v), x, ts)
    BY <2>2, <2>3, <2>4, WrittenCollection
  <2>6. Kept(WriteCollection(x, w, c, new, newIndex, v), indexed, ts)
    BY <2>2, <2>5 DEF Kept
  <2> QED BY <2>6 DEF c
<1>16. PutEnd(X, L, s, w, v, new, indexed, newIndex)
  BY <1>11, <1>14, <1>15, PutWalk DEF L, new, indexed, newIndex, created
<1>17. PICK walk \in [0 .. n -> X] :
        /\ walk[0] = indexed
        /\ \A i \in 1 .. n : walk[i] = WriteCollection(walk[i - 1], w, L[i], new, newIndex, v)
        /\ walk[n] = Put(s, w, v)
  BY <1>16 DEF PutEnd
<1>18. \A i \in 0 .. n : Kept(walk[i], indexed, ts)
  BY <1>12
<1>19. PutSteps(s, w, v, ts)
  <2>1. walk \in [0 .. n -> Keyed]
    BY DEF X
  <2> QED BY <1>17, <1>18, <2>1 DEF PutSteps, L, new, indexed, newIndex, created
<1>20. Kept(Put(s, w, v), indexed, ts)
  <2>1. n \in 0 .. n
    BY <1>11
  <2> QED BY <1>17, <1>18, <2>1
<1> DEFINE p == Put(s, w, v)
<1>21. /\ Catalogued(p, ts) /\ p.ids = indexed.ids /\ p.indexes = indexed.indexes
       /\ (Owned(indexed) => Owned(p))
  BY <1>20 DEF Kept
<1> HIDE DEF p
<1>22. Extends(s, p)
  BY <1>8, <1>21 DEF Extends
<1>23. p.ids = CollectionsCreated(s, w, 0).ids /\ DOMAIN p.ids = DOMAIN s.ids \cup NewNames(w)
  BY <1>2, <1>6, <1>21 DEF Created
<1>24. Stored(p, s, w, ts)
  BY <1>10, <1>21, <1>22, <1>23 DEF Stored
<1> QED BY <1>19, <1>24 DEF p

\* A sound write set can be applied.
LEMMA SoundApplies ==
  ASSUME NEW ts \in Nat, NEW s, Catalogued(s, ts),
         NEW w, NEW ids, NEW indexIds, Sound(w, ids, indexIds), ids \subseteq CollectionIds(s)
  PROVE  Applicable(s, w)
<1> DEFINE new == NewIds(s, w)
           created == CollectionsCreated(s, w, 0)
           temps == [t \in {k[2] : k \in DOMAIN w.newIndexes} |-> t]
           C == Cols(w, ids)
<1>1. 0 \in 0 .. ts
  OBVIOUS
<1>2. \A c \in C : Resolves(c, new) /\ Resolve(c, new) \in CollectionIds(created)
  BY <1>1, CollectionsResolve
<1>3. Catalogued(created, ts)
  BY <1>1, CollectionsAreCreated DEF Created, Sound
<1>4. DOMAIN temps = Temps(w)
  BY DEF Temps
<1>5. \A k \in DOMAIN w.newIndexes : k[1] \in C
  BY WritesBelong
<1>6. Written(w) \subseteq C /\ DOMAIN w.metadata \subseteq C
  BY WritesBelong
<1>7. \A k \in DOMAIN w.entries : k[2] \in Temps(w) \cup indexIds
  BY WritesBelong
<1>8. indexIds \subseteq Nat
  BY DEF Sound
<1>9. ASSUME NEW id \in CollectionIds(created)
      PROVE  AllVersionsOf(created, id) # {}
  <2> HIDE DEF created
  <2>1. PICK k \in DOMAIN created.rows : k[1] = id
    BY <1>3 DEF Catalogued, CollectionIds
  <2> QED BY <2>1 DEF AllVersionsOf
<1> HIDE DEF new, created, temps, C
<1>10. \A k \in DOMAIN w.entries : Resolves(k[2], temps)
  <2>1. \A i \in indexIds : i >= 0
    <3> SUFFICES ASSUME NEW i \in indexIds
                 PROVE  i >= 0
      OBVIOUS
    <3>1. i \in Nat
      BY <1>8
    <3> QED BY <3>1
  <2> QED BY <1>4, <1>7, <2>1 DEF Resolves
<1>11. /\ \A k \in DOMAIN w.newIndexes : Resolves(k[1], new)
       /\ \A c \in Written(w) : Resolves(c, new)
       /\ \A c \in DOMAIN w.metadata : AllVersionsOf(created, Resolve(c, new)) # {}
  BY <1>2, <1>5, <1>6, <1>9
<1> QED BY <1>10, <1>11 DEF Applicable, new, created, temps

-----------------------------------------------------------------------------
(* What a transaction finds *)

\* The collections of the snapshot that transaction r is shown.
ShownIds(r) == {i \in CollectionIds(r.snapshot) : Shown(r, i)}

\* collection finds a collection that the transaction may write to, or none.
LEMMA CollectionsFound ==
  ASSUME NEW r, NewCollections(r.writes), NEW name
  PROVE  Collection(r, name) \in Cols(r.writes, ShownIds(r)) \cup {NoId}
<1> DEFINE new == {c \in New(r) : r.writes.newCollections[c] = name}
<1>1. New(r) \subseteq Int /\ IsFiniteSet(New(r))
  BY DEF NewCollections, IsTable, Temporary, New
<1>2. new \in SUBSET Int /\ IsFiniteSet(new)
  <2>1. new \subseteq New(r)
    OBVIOUS
  <2> HIDE DEF new
  <2> QED BY <1>1, <2>1, FS_Subset
<1>3. CASE new # {}
  <2>1. Min(new) \in new
    <3> HIDE DEF new
    <3> QED BY <1>2, <1>3, IdsHaveEnds
  <2>2. Collection(r, name) = Min(new)
    BY <1>3 DEF Collection
  <2> QED BY <2>1, <2>2 DEF Cols, New
<1>4. CASE new = {}
  <2>1. Collection(r, name) = IF name \in DOMAIN r.snapshot.ids /\ Shown(r, r.snapshot.ids[name])
                              THEN r.snapshot.ids[name] ELSE NoId
    BY <1>4 DEF Collection
  <2> QED BY <2>1 DEF Cols, ShownIds, CollectionIds
<1> QED BY <1>3, <1>4

\* A cursor returns entries of its streams.
LEMMA ReturnedEntries ==
  ASSUME NEW E, NEW base \in Seq(E), NEW overlay \in Seq(E), NEW kind, NEW direction, NEW start,
         NEW cursor, cursor = Opened(kind, direction, start, base, overlay)
  PROVE  Returned(cursor) \in Seq(E)
<1> DEFINE Q == Seq(E)
           X == Cursors(cursor, Q)
           L == Steps(cursor)
<1>1. /\ cursor.base = base /\ cursor.overlay = overlay /\ cursor.out = <<>>
      /\ cursor.kind = kind /\ cursor.direction = direction /\ cursor.start = start
  BY DEF Opened
<1>2. base \in Q /\ overlay \in Q /\ <<>> \in Q
  OBVIOUS
<1>3. cursor \in X
  <2> HIDE DEF Q
  <2> QED BY <1>2 DEF Opened, Cursors
<1>4. L \in Seq(Nat)
  <2>1. Len(base) \in Nat /\ Len(overlay) \in Nat
    OBVIOUS
  <2> QED BY <1>1, <2>1 DEF Steps
<1>5. ASSUME NEW x \in X
      PROVE  Moved(x) \in X
  <2>1. /\ x.base \in Q /\ x.overlay \in Q /\ x.out \in Q
        /\ x \in [kind : {cursor.kind}, direction : {cursor.direction}, start : {cursor.start},
                  base : Q, overlay : Q, out : Q]
    BY DEF Cursors
  <2>2. \A q \in Q : q # <<>> => Head(q) \in E /\ Tail(q) \in Q
    OBVIOUS
  <2>3. \A e \in E : Append(x.out, e) \in Q
    BY <2>1
  <2> HIDE DEF Q, L, X
  <2>4. CASE Drained(x)
    BY <2>4 DEF Moved
  <2>5. CASE ~Drained(x) /\ TakesBase(x)
    <3>1. x.base # <<>>
      BY <2>5 DEF TakesBase
    <3>2. Tail(x.base) \in Q /\ Append(x.out, Head(x.base)) \in Q
      BY <2>1, <2>2, <2>3, <3>1
    <3>3. Moved(x) = [x EXCEPT !.out = Append(x.out, Head(x.base)), !.base = Tail(x.base)]
      BY <2>5 DEF Moved, BaseTaken
    <3> QED BY <2>1, <3>2, <3>3 DEF X, Cursors
  <2>6. CASE ~Drained(x) /\ ~TakesBase(x)
    <3>1. x.overlay # <<>>
      BY <2>6 DEF TakesBase, TakesOverlay, Drained
    <3> DEFINE rest == IF x.base # <<>> /\ Head(x.base).at = Head(x.overlay).at
                       THEN Tail(x.base) ELSE x.base
    <3>2. /\ Tail(x.overlay) \in Q /\ Append(x.out, Head(x.overlay)) \in Q /\ rest \in Q
      BY <2>1, <2>2, <2>3, <3>1
    <3>3. Moved(x) = [x EXCEPT !.out = Append(x.out, Head(x.overlay)),
                               !.overlay = Tail(x.overlay), !.base = rest]
      BY <2>6 DEF Moved, OverlayTaken
    <3> HIDE DEF rest
    <3> QED BY <2>1, <3>2, <3>3 DEF X, Cursors
  <2> QED BY <2>4, <2>5, <2>6
<1> HIDE DEF X, L
<1>6. ReturnedStay(X, L, cursor)
  BY <1>5 DEF ReturnedStay
<1>7. ReturnedEnd(X, L, cursor)
  BY <1>3, <1>4, <1>6, ReturnedWalk DEF L
<1>8. PICK walk \in [0 .. Len(L) -> X] : walk[Len(L)].out = Returned(cursor)
  BY <1>7 DEF ReturnedEnd
<1>9. walk[Len(L)] \in X
  <2>1. Len(L) \in 0 .. Len(L)
    BY <1>4
  <2> QED BY <1>8, <2>1
<1> HIDE DEF Q
<1>10. walk[Len(L)].out \in Q
  BY <1>9 DEF X, Cursors
<1> QED BY <1>8, <1>10 DEF Q

\* A list's elements are those of its set.
LEMMA FromLists ==
  ASSUME NEW S \in SUBSET Entries, IsFiniteSet(S), Distinct(S), NEW direction, NEW start
  PROVE  From(S, direction, start) \in Seq(S)
<1> DEFINE T == {e \in S : Accepts(direction, start, e.at)}
<1>1. T \in SUBSET S
  OBVIOUS
<1> HIDE DEF T
<1>2. T \in SUBSET Entries /\ IsFiniteSet(T) /\ Distinct(T)
  BY <1>1, FS_Subset DEF Distinct
<1>3. Lists(Directed(direction, T, EntryLess), T, EntryPairs(T, direction))
  BY <1>2, EntriesAreListed
<1>4. Directed(direction, T, EntryLess) \in Seq(T)
  BY <1>3 DEF Lists
<1>5. Directed(direction, T, EntryLess) \in Seq(S)
  BY <1>1, <1>4
<1> QED BY <1>5 DEF From, T

\* A transaction's own indexes, and those of its snapshot, are entries.
LEMMA IndexEntries ==
  ASSUME NEW ts, NEW r, WellTyped(r.snapshot, ts), NEW ids, NEW indexIds,
         Sound(r.writes, ids, indexIds), NEW c
  PROVE  /\ OwnIndexes(r, c) \in SUBSET Entries /\ IsFiniteSet(OwnIndexes(r, c))
         /\ Distinct(OwnIndexes(r, c))
         /\ StoredIndexes(r, c) \in SUBSET Entries /\ IsFiniteSet(StoredIndexes(r, c))
         /\ Distinct(StoredIndexes(r, c))
<1> DEFINE w == r.writes
           s == r.snapshot
           own == OwnIndexes(r, c)
           stored == StoredIndexes(r, c)
           mine == {l \in DOMAIN w.newIndexes : l[1] = c}
           theirs == {l \in DOMAIN s.indexes : l[1] = c}
<1>1. /\ IsFiniteSet(DOMAIN w.newIndexes)
      /\ \A k \in DOMAIN w.newIndexes : /\ k = <<k[1], k[2]>> /\ k[2] \in Int
                                        /\ w.newIndexes[k].name \in Name
                                        /\ w.newIndexes[k].metadata \in Metadata
  <2>1. NewIndexes(w, Cols(w, ids)) /\ IsFiniteSet(DOMAIN w.newIndexes)
    BY DEF Sound, NewIndexes
  <2> SUFFICES ASSUME NEW k \in DOMAIN w.newIndexes
               PROVE  /\ k = <<k[1], k[2]>> /\ k[2] \in Int
                      /\ w.newIndexes[k].name \in Name /\ w.newIndexes[k].metadata \in Metadata
    BY <2>1
  <2> DEFINE C == Cols(w, ids)
             row == w.newIndexes[k]
  <2>2. k \in C \X Temporary /\ row \in Rows
    BY <2>1 DEF NewIndexes, IsTable
  <2> HIDE DEF C, row
  <2>3. k = <<k[1], k[2]>> /\ k[2] \in Int
    BY <2>2 DEF Temporary
  <2>4. row.name \in Name /\ row.metadata \in Metadata
    BY <2>2 DEF Rows
  <2> QED BY <2>3, <2>4 DEF row
<1>2. /\ IsFiniteSet(DOMAIN s.indexes)
      /\ \A k \in DOMAIN s.indexes : /\ k = <<k[1], k[2]>> /\ k[2] \in Name
                                     /\ s.indexes[k].id \in Int
                                     /\ s.indexes[k].metadata \in Metadata
  <2>1. IsTable(s.indexes, IndexKeys, IndexRows) /\ IsFiniteSet(DOMAIN s.indexes)
    BY FieldTypes
  <2> HIDE DEF s
  <2>2. \A k \in DOMAIN s.indexes : k \in IndexKeys /\ s.indexes[k] \in IndexRows
    BY <2>1 DEF IsTable
  <2> QED BY <2>1, <2>2 DEF IndexKeys, IndexRows
<1>3. own \in SUBSET Entries /\ stored \in SUBSET Entries
  BY <1>1, <1>2 DEF OwnIndexes, StoredIndexes, Entry, Entries, Place
<1>4. Distinct(own)
  BY <1>1 DEF Distinct, OwnIndexes, Entry
<1>5. Distinct(stored)
  BY <1>2 DEF Distinct, StoredIndexes, Entry, PlaceOf
<1>6. IsFiniteSet(own)
  <2>1. IsFiniteSet(mine)
    BY <1>1, FS_Subset
  <2> DEFINE f == [k \in mine |-> Entry(k[2], w.newIndexes[k].name, w.newIndexes[k].metadata)]
  <2>2. f \in Surjection(mine, own)
    BY DEF OwnIndexes, Surjection
  <2> HIDE DEF own, mine, f
  <2> QED BY <2>1, <2>2, FS_Surjection
<1>7. IsFiniteSet(stored)
  <2>1. IsFiniteSet(theirs)
    BY <1>2, FS_Subset
  <2> DEFINE f == [k \in theirs |-> Entry(s.indexes[k].id, k[2], s.indexes[k].metadata)]
  <2>2. f \in Surjection(theirs, stored)
    BY DEF StoredIndexes, Surjection
  <2> HIDE DEF stored, theirs, f
  <2> QED BY <2>1, <2>2, FS_Surjection
<1> QED BY <1>3, <1>4, <1>5, <1>6, <1>7

\* The indexes a transaction sees of a collection are its own and those of the snapshot.
LEMMA IndexesAreEntries ==
  ASSUME NEW ts, NEW r, WellTyped(r.snapshot, ts), NEW ids, NEW indexIds,
         Sound(r.writes, ids, indexIds), NEW c, NEW e \in Indexes(r, c)
  PROVE  e \in OwnIndexes(r, c) \cup StoredIndexes(r, c)
<1> DEFINE own == OwnIndexes(r, c)
           stored == StoredIndexes(r, c)
           base == {f \in stored : ~\E o \in own : o.at = f.at}
<1>1. /\ own \in SUBSET Entries /\ IsFiniteSet(own) /\ Distinct(own)
      /\ stored \in SUBSET Entries /\ IsFiniteSet(stored) /\ Distinct(stored)
  BY IndexEntries
<1>2. Indexes(r, c) = {Returned(IndexCatalogCursor(r, c, "Forward", FromFirst))[i] :
                         i \in DOMAIN Returned(IndexCatalogCursor(r, c, "Forward", FromFirst))}
  BY DEF Indexes
<1>3. IndexCatalogCursor(r, c, "Forward", FromFirst) =
        Opened("Indexes", "Forward", FromFirst,
               From(base, "Forward", FromFirst), From(own, "Forward", FromFirst))
  BY DEF IndexCatalogCursor
<1> HIDE DEF own, stored, base
<1>4. base \subseteq stored
  BY DEF base
<1>5. base \in SUBSET Entries /\ IsFiniteSet(base) /\ Distinct(base)
  BY <1>1, <1>4, FS_Subset DEF Distinct
<1>6. From(base, "Forward", FromFirst) \in Seq(own \cup stored)
  <2>1. From(base, "Forward", FromFirst) \in Seq(base)
    BY <1>5, FromLists
  <2> QED BY <1>4, <2>1
<1>7. From(own, "Forward", FromFirst) \in Seq(own \cup stored)
  <2>1. From(own, "Forward", FromFirst) \in Seq(own)
    BY <1>1, FromLists
  <2> QED BY <2>1
<1>8. Returned(IndexCatalogCursor(r, c, "Forward", FromFirst)) \in Seq(own \cup stored)
  BY <1>3, <1>6, <1>7, ReturnedEntries
<1> QED BY <1>2, <1>8 DEF own, stored

\* Their ids are those that the transaction knows.
LEMMA IndexesFound ==
  ASSUME NEW ts, NEW r, WellTyped(r.snapshot, ts), NEW ids, NEW indexIds,
         Sound(r.writes, ids, indexIds), NEW c, NEW e \in Indexes(r, c)
  PROVE  e.id \in Temps(r.writes) \cup IndexIds(r.snapshot)
<1>1. /\ \A o \in OwnIndexes(r, c) : o.id \in Temps(r.writes)
      /\ \A o \in StoredIndexes(r, c) : o.id \in IndexIds(r.snapshot)
  BY DEF OwnIndexes, StoredIndexes, Entry, Temps, IndexIds
<1>2. e \in OwnIndexes(r, c) \cup StoredIndexes(r, c)
  BY IndexesAreEntries
<1> QED BY <1>1, <1>2

-----------------------------------------------------------------------------
(* What a transaction records *)

\* One write more names only what the transaction can name.
LEMMA RecordsStaySound ==
  ASSUME NEW w, NEW ids, NEW indexIds, Sound(w, ids, indexIds)
  PROVE  /\ \A temp \in Temporary, name \in Name :
              Sound([w EXCEPT !.newCollections = Inserted(@, temp, name)], ids, indexIds)
         /\ \A c \in Cols(w, ids), temp \in Temporary, index \in Rows :
              Sound([w EXCEPT !.newIndexes = Inserted(@, <<c, temp>>, index)], ids, indexIds)
         /\ \A c \in Cols(w, ids), doc \in Doc, t \in Tx :
              Sound([w EXCEPT !.docs = Inserted(@, <<c, doc>>, t)], ids, indexIds)
         /\ \A c \in Cols(w, ids), i \in Temps(w) \cup indexIds, doc \in Doc, op \in Ops :
              Sound([w EXCEPT !.entries = Inserted(@, <<c, i, doc>>, op)], ids, indexIds)
         /\ \A c \in Cols(w, ids), m \in Metadata :
              Sound([w EXCEPT !.metadata = Inserted(@, c, m)], ids, indexIds)
<1> DEFINE C == Cols(w, ids)
           I == Temps(w) \cup indexIds
<1>1. /\ ids \subseteq Nat /\ indexIds \subseteq Nat
      /\ w \in [newCollections : {w.newCollections}, newIndexes : {w.newIndexes}, docs : {w.docs},
                entries : {w.entries}, metadata : {w.metadata}]
      /\ IsTable(w.newCollections, Temporary, Name) /\ IsFiniteSet(DOMAIN w.newCollections)
      /\ IsTable(w.newIndexes, C \X Temporary, Rows) /\ IsFiniteSet(DOMAIN w.newIndexes)
      /\ IsTable(w.docs, DocPlaces(C), Tx)
      /\ IsTable(w.entries, EntryPlaces(C, I), Ops)
      /\ IsTable(w.metadata, C, Metadata)
      /\ IsFiniteSet(Written(w))
  BY DEF Sound, NewCollections, NewIndexes
<1> HIDE DEF C, I
<1>2. ASSUME NEW temp \in Temporary, NEW name \in Name
      PROVE  Sound([w EXCEPT !.newCollections = Inserted(@, temp, name)], ids, indexIds)
  <2> DEFINE table == Inserted(w.newCollections, temp, name)
             u == [w EXCEPT !.newCollections = table]
             D == Cols(u, ids)
  <2>1. IsTable(table, Temporary, Name)
    BY <1>1, InsertedType
  <2>2. DOMAIN table = DOMAIN w.newCollections \cup {temp}
    BY DEF Inserted
  <2>3. IsFiniteSet(DOMAIN table)
    BY <1>1, <2>2, FS_AddElement
  <2> HIDE DEF table
  <2>4. /\ u \in [newCollections : {table}, newIndexes : {w.newIndexes}, docs : {w.docs},
                  entries : {w.entries}, metadata : {w.metadata}]
        /\ u.newCollections = table /\ u.newIndexes = w.newIndexes /\ u.docs = w.docs
        /\ u.entries = w.entries /\ u.metadata = w.metadata
    BY <1>1
  <2> HIDE DEF u
  <2>5. C \subseteq D /\ Temps(u) = Temps(w) /\ Written(u) = Written(w)
    BY <2>2, <2>4 DEF Temps, Written, Cols, C
  <2> HIDE DEF D
  <2>6. C \X Temporary \subseteq D \X Temporary /\ DocPlaces(C) \subseteq DocPlaces(D)
        /\ EntryPlaces(C, I) \subseteq EntryPlaces(D, I)
    BY <2>5 DEF DocPlaces, EntryPlaces
  <2>7. IsTable(w.newIndexes, D \X Temporary, Rows)
    BY <1>1, <2>6 DEF IsTable
  <2>8. IsTable(w.docs, DocPlaces(D), Tx) /\ IsTable(w.entries, EntryPlaces(D, I), Ops)
        /\ IsTable(w.metadata, D, Metadata)
    BY <1>1, <2>5, <2>6 DEF IsTable
  <2>9. Sound(u, ids, indexIds)
    BY <1>1, <2>1, <2>3, <2>4, <2>5, <2>7, <2>8 DEF Sound, NewCollections, NewIndexes, D, I
  <2> QED BY <2>9 DEF u, table
<1>3. ASSUME NEW c \in C, NEW temp \in Temporary, NEW index \in Rows
      PROVE  Sound([w EXCEPT !.newIndexes = Inserted(@, <<c, temp>>, index)], ids, indexIds)
  <2> DEFINE key == <<c, temp>>
             table == Inserted(w.newIndexes, key, index)
             u == [w EXCEPT !.newIndexes = table]
             J == Temps(u) \cup indexIds
  <2>1. key \in C \X Temporary
    OBVIOUS
  <2> HIDE DEF key
  <2>2. IsTable(table, C \X Temporary, Rows)
    BY <1>1, <2>1, InsertedType
  <2>3. DOMAIN table = DOMAIN w.newIndexes \cup {key}
    BY DEF Inserted
  <2>4. IsFiniteSet(DOMAIN table)
    BY <1>1, <2>3, FS_AddElement
  <2> HIDE DEF table
  <2>5. /\ u \in [newCollections : {w.newCollections}, newIndexes : {table}, docs : {w.docs},
                  entries : {w.entries}, metadata : {w.metadata}]
        /\ u.newCollections = w.newCollections /\ u.newIndexes = table /\ u.docs = w.docs
        /\ u.entries = w.entries /\ u.metadata = w.metadata
    BY <1>1
  <2> HIDE DEF u
  <2>6. Cols(u, ids) = C /\ Temps(w) \subseteq Temps(u) /\ Written(u) = Written(w)
    BY <2>3, <2>5 DEF Temps, Written, Cols, C
  <2>7. EntryPlaces(C, I) \subseteq EntryPlaces(C, J)
    BY <2>6 DEF EntryPlaces, I
  <2>8. IsTable(w.entries, EntryPlaces(C, J), Ops)
    BY <1>1, <2>7 DEF IsTable
  <2>9. Sound(u, ids, indexIds)
    BY <1>1, <2>2, <2>4, <2>5, <2>6, <2>8 DEF Sound, NewCollections, NewIndexes
  <2> QED BY <2>9 DEF u, table, key
<1>4. ASSUME NEW c \in C, NEW doc \in Doc, NEW t \in Tx
      PROVE  Sound([w EXCEPT !.docs = Inserted(@, <<c, doc>>, t)], ids, indexIds)
  <2> DEFINE key == <<c, doc>>
             table == Inserted(w.docs, key, t)
             u == [w EXCEPT !.docs = table]
  <2>1. key \in DocPlaces(C) /\ key[1] = c
    BY DEF DocPlaces
  <2> HIDE DEF key
  <2>2. IsTable(table, DocPlaces(C), Tx)
    BY <1>1, <2>1, InsertedType
  <2>3. DOMAIN table = DOMAIN w.docs \cup {key}
    BY DEF Inserted
  <2> HIDE DEF table
  <2>4. /\ u \in [newCollections : {w.newCollections}, newIndexes : {w.newIndexes}, docs : {table},
                  entries : {w.entries}, metadata : {w.metadata}]
        /\ u.newCollections = w.newCollections /\ u.newIndexes = w.newIndexes /\ u.docs = table
        /\ u.entries = w.entries /\ u.metadata = w.metadata
    BY <1>1
  <2> HIDE DEF u
  <2>5. Cols(u, ids) = C /\ Temps(u) = Temps(w) /\ Written(u) = Written(w) \cup {c}
    BY <2>1, <2>3, <2>4 DEF Temps, Written, Cols, C
  <2>6. IsFiniteSet(Written(u))
    BY <1>1, <2>5, FS_AddElement
  <2>7. Sound(u, ids, indexIds)
    BY <1>1, <2>2, <2>4, <2>5, <2>6 DEF Sound, NewCollections, NewIndexes, I
  <2> QED BY <2>7 DEF u, table, key
<1>5. ASSUME NEW c \in C, NEW i \in I, NEW doc \in Doc, NEW op \in Ops
      PROVE  Sound([w EXCEPT !.entries = Inserted(@, <<c, i, doc>>, op)], ids, indexIds)
  <2> DEFINE key == <<c, i, doc>>
             table == Inserted(w.entries, key, op)
             u == [w EXCEPT !.entries = table]
  <2>1. key \in EntryPlaces(C, I) /\ key[1] = c
    BY DEF EntryPlaces
  <2> HIDE DEF key
  <2>2. IsTable(table, EntryPlaces(C, I), Ops)
    BY <1>1, <2>1, InsertedType
  <2>3. DOMAIN table = DOMAIN w.entries \cup {key}
    BY DEF Inserted
  <2> HIDE DEF table
  <2>4. /\ u \in [newCollections : {w.newCollections}, newIndexes : {w.newIndexes}, docs : {w.docs},
                  entries : {table}, metadata : {w.metadata}]
        /\ u.newCollections = w.newCollections /\ u.newIndexes = w.newIndexes /\ u.docs = w.docs
        /\ u.entries = table /\ u.metadata = w.metadata
    BY <1>1
  <2> HIDE DEF u
  <2>5. Cols(u, ids) = C /\ Temps(u) = Temps(w) /\ Written(u) = Written(w) \cup {c}
    BY <2>1, <2>3, <2>4 DEF Temps, Written, Cols, C
  <2>6. IsFiniteSet(Written(u))
    BY <1>1, <2>5, FS_AddElement
  <2>7. Sound(u, ids, indexIds)
    BY <1>1, <2>2, <2>4, <2>5, <2>6 DEF Sound, NewCollections, NewIndexes, I
  <2> QED BY <2>7 DEF u, table, key
<1>6. ASSUME NEW c \in C, NEW m \in Metadata
      PROVE  Sound([w EXCEPT !.metadata = Inserted(@, c, m)], ids, indexIds)
  <2> DEFINE table == Inserted(w.metadata, c, m)
             u == [w EXCEPT !.metadata = table]
  <2>1. IsTable(table, C, Metadata)
    BY <1>1, InsertedType
  <2>2. DOMAIN table = DOMAIN w.metadata \cup {c}
    BY DEF Inserted
  <2> HIDE DEF table
  <2>3. /\ u \in [newCollections : {w.newCollections}, newIndexes : {w.newIndexes}, docs : {w.docs},
                  entries : {w.entries}, metadata : {table}]
        /\ u.newCollections = w.newCollections /\ u.newIndexes = w.newIndexes /\ u.docs = w.docs
        /\ u.entries = w.entries /\ u.metadata = table
    BY <1>1
  <2> HIDE DEF u
  <2>4. Cols(u, ids) = C /\ Temps(u) = Temps(w) /\ Written(u) = Written(w) \cup {c}
    BY <2>2, <2>3 DEF Temps, Written, Cols, C
  <2>5. IsFiniteSet(Written(u))
    BY <1>1, <2>4, FS_AddElement
  <2>6. Sound(u, ids, indexIds)
    BY <1>1, <2>1, <2>3, <2>4, <2>5 DEF Sound, NewCollections, NewIndexes, I
  <2> QED BY <2>6 DEF u, table
<1> QED BY <1>2, <1>3, <1>4, <1>5, <1>6 DEF C, I

-----------------------------------------------------------------------------
(* The inductive invariant *)

\* Transaction r began in a store that s extends, and has written what it may.
Sane(r, s, ts) ==
  /\ r \in [phase : {r.phase}, snapshot : {r.snapshot}, ts : Nat, writes : {r.writes},
            lastTemp : Int]
  /\ r.lastTemp <= 0
  /\ Catalogued(r.snapshot, ts) /\ Extends(r.snapshot, s)
  /\ Sound(r.writes, ShownIds(r), IndexIds(r.snapshot))

\* The catalogs are complete, and every transaction's writes fit the store, whatever
\* others have committed.
CatalogInv ==
  /\ lastTs \in Nat /\ visible \in Nat
  /\ Catalogued(store, lastTs) /\ Owned(store)
  /\ tx = [t \in Tx |-> tx[t]]
  /\ \A t \in Tx : Sane(tx[t], store, lastTs)

\* Nothing written is sound.
LEMMA NothingWritten ==
  ASSUME NEW ids \in SUBSET Nat, NEW indexIds \in SUBSET Nat
  PROVE  Sound(NoWrites, ids, indexIds)
<1>1. \A K, V : IsTable(NoTable, K, V)
  BY DEF IsTable, NoTable
<1>2. DOMAIN NoTable = {} /\ IsFiniteSet({})
  BY FS_EmptySet DEF NoTable
<1>3. /\ NoWrites \in [newCollections : {NoTable}, newIndexes : {NoTable}, docs : {NoTable},
                       entries : {NoTable}, metadata : {NoTable}]
      /\ NoWrites.newCollections = NoTable /\ NoWrites.newIndexes = NoTable
      /\ NoWrites.docs = NoTable /\ NoWrites.entries = NoTable /\ NoWrites.metadata = NoTable
  BY DEF NoWrites
<1>4. Written(NoWrites) = {}
  BY <1>2, <1>3 DEF Written
<1> QED BY <1>1, <1>2, <1>3, <1>4 DEF Sound, NewCollections, NewIndexes

\* A transaction that has written nothing.
Fresh(r) ==
  r \in [phase : {r.phase}, snapshot : {r.snapshot}, ts : Nat, writes : {NoWrites},
         lastTemp : {0}]

\* It is sane when its snapshot is.
LEMMA FreshIsSane ==
  ASSUME NEW ts, NEW s, NEW r, Fresh(r), Catalogued(r.snapshot, ts), Extends(r.snapshot, s)
  PROVE  Sane(r, s, ts)
<1>1. ShownIds(r) \in SUBSET Nat /\ IndexIds(r.snapshot) \in SUBSET Nat
  <2> DEFINE b == r.snapshot
  <2>1. WellTyped(b, ts)
    BY DEF Catalogued
  <2> HIDE DEF b
  <2>2. CollectionIds(b) \subseteq 1 .. b.lastCollection /\ IndexIds(b) \subseteq Nat
    BY <2>1, IdsArePositive
  <2> QED BY <2>2 DEF ShownIds, b
<1>2. Sound(NoWrites, ShownIds(r), IndexIds(r.snapshot))
  BY <1>1, NothingWritten
<1> QED BY <1>2 DEF Sane, Fresh

\* An empty store is complete, and every store extends it.
LEMMA EmptyIsComplete ==
  ASSUME NEW ts \in Nat, NEW s
  PROVE  Catalogued(EmptyStore, ts) /\ Extends(EmptyStore, s)
<1>1. \A K, V : IsTable(NoTable, K, V)
  BY DEF IsTable, NoTable
<1>2. DOMAIN NoTable = {} /\ IsFiniteSet({})
  BY FS_EmptySet DEF NoTable
<1>3. /\ EmptyStore \in [ids : {NoTable}, rows : {NoTable}, indexes : {NoTable},
                         docs : {NoTable}, entries : {{}}, lastCollection : {0}, lastIndex : {0}]
      /\ EmptyStore.ids = NoTable /\ EmptyStore.rows = NoTable /\ EmptyStore.indexes = NoTable
      /\ EmptyStore.docs = NoTable /\ EmptyStore.entries = {}
      /\ EmptyStore.lastCollection = 0 /\ EmptyStore.lastIndex = 0
  BY DEF EmptyStore
<1>4. WellTyped(EmptyStore, ts)
  BY <1>1, <1>2, <1>3, FieldTypes
<1>5. Numbered(EmptyStore)
  BY <1>2, <1>3 DEF Numbered
<1> QED BY <1>2, <1>3, <1>4, <1>5 DEF Catalogued, Extends

\* A transaction stays sane when another one commits.
LEMMA SaneLater ==
  ASSUME NEW r, NEW s, NEW ts \in Nat, Sane(r, s, ts), NEW t, Extends(s, t),
         NEW later \in Nat, ts <= later
  PROVE  Sane(r, t, later)
<1>1. Catalogued(r.snapshot, later)
  BY LaterTypes DEF Sane
<1>2. Extends(r.snapshot, t)
  BY ExtendsIsOrder DEF Sane
<1> QED BY <1>1, <1>2 DEF Sane

\* A transaction is as sane with other sound writes.
LEMMA SaneWrites ==
  ASSUME NEW r, NEW s, NEW ts, Sane(r, s, ts), NEW writes,
         Sound(writes, ShownIds(r), IndexIds(r.snapshot)), NEW lastTemp \in Int, lastTemp <= 0
  PROVE  Sane([r EXCEPT !.writes = writes, !.lastTemp = lastTemp], s, ts)
<1> DEFINE q == [r EXCEPT !.writes = writes, !.lastTemp = lastTemp]
<1>1. /\ q \in [phase : {r.phase}, snapshot : {r.snapshot}, ts : Nat, writes : {writes},
                lastTemp : Int]
      /\ q.phase = r.phase /\ q.snapshot = r.snapshot /\ q.ts = r.ts /\ q.writes = writes
      /\ q.lastTemp = lastTemp
  BY DEF Sane
<1> HIDE DEF q
<1>2. ShownIds(q) = ShownIds(r)
  BY <1>1 DEF ShownIds, Shown
<1>3. Sane(q, s, ts)
  BY <1>1, <1>2 DEF Sane
<1> QED BY <1>3 DEF q

\* The catalogs are complete in the beginning.
LEMMA CatalogInit == Init => CatalogInv
<1> SUFFICES ASSUME Init
             PROVE  CatalogInv
  OBVIOUS
<1>1. lastTs = 1 /\ visible = 1 /\ tx = [t \in Tx |-> NoTx]
  BY DEF Init
<1>2. Catalogued(store, 1) /\ Owned(store)
  BY StoresAssumption DEF Init
<1>3. Sane(NoTx, store, 1)
  <2>1. Catalogued(EmptyStore, 1) /\ Extends(EmptyStore, store)
    BY EmptyIsComplete
  <2>2. Fresh(NoTx) /\ NoTx.snapshot = EmptyStore
    BY DEF NoTx, Fresh
  <2> QED BY <2>1, <2>2, FreshIsSane
<1> QED BY <1>1, <1>2, <1>3 DEF CatalogInv

\* Writes that are sound can be recorded.
LEMMA RecordKeeps ==
  ASSUME CatalogInv, NEW t \in Tx, NEW writes, NEW lastTemp \in Int, lastTemp <= 0,
         Sound(writes, ShownIds(tx[t]), IndexIds(tx[t].snapshot)), Record(t, writes, lastTemp)
  PROVE  CatalogInv'
<1> DEFINE q == [tx[t] EXCEPT !.writes = writes, !.lastTemp = lastTemp]
<1>1. store' = store /\ lastTs' = lastTs /\ visible' = visible
  BY DEF Record
<1>2. tx' = [tx EXCEPT ![t] = q]
  BY DEF Record
<1>3. Sane(q, store, lastTs)
  BY SaneWrites DEF CatalogInv
<1> HIDE DEF q
<1>4. tx = [u \in Tx |-> tx[u]]
  BY DEF CatalogInv
<1>5. tx' = [u \in Tx |-> tx'[u]] /\ tx'[t] = q /\ \A u \in Tx : u # t => tx'[u] = tx[u]
  BY <1>2, <1>4
<1>6. \A u \in Tx : Sane(tx'[u], store, lastTs)
  BY <1>3, <1>5 DEF CatalogInv
<1> QED BY <1>1, <1>5, <1>6 DEF CatalogInv

\* Every step keeps them complete.
LEMMA CatalogStep == CatalogInv /\ [Next]_vars => CatalogInv'
<1> SUFFICES ASSUME CatalogInv, [Next]_vars
             PROVE  CatalogInv'
  OBVIOUS
<1>1. /\ lastTs \in Nat /\ visible \in Nat
      /\ Catalogued(store, lastTs) /\ Owned(store)
      /\ tx = [t \in Tx |-> tx[t]]
      /\ \A t \in Tx : Sane(tx[t], store, lastTs)
  BY DEF CatalogInv
<1>2. \A t \in Tx : /\ Sound(tx[t].writes, ShownIds(tx[t]), IndexIds(tx[t].snapshot))
                    /\ tx[t].lastTemp \in Int /\ tx[t].lastTemp <= 0
  BY <1>1 DEF Sane
<1>3. ASSUME NEW t \in Tx, NEW name, Collection(tx[t], name) # NoId
      PROVE  Collection(tx[t], name) \in Cols(tx[t].writes, ShownIds(tx[t]))
  <2>1. NewCollections(tx[t].writes)
    BY <1>2 DEF Sound
  <2> QED BY <1>3, <2>1, CollectionsFound
<1>4. ASSUME NEW t \in Tx
      PROVE  NextTemp(t) \in Temporary /\ NextTemp(t) \in Int /\ NextTemp(t) <= 0
  BY <1>2 DEF NextTemp, Temporary
<1>5. ASSUME NEW t \in Tx, Begin(t)
      PROVE  CatalogInv'
  <2> DEFINE q == [NoTx EXCEPT !.phase = "open", !.snapshot = store, !.ts = visible]
  <2>1. Sane(q, store, lastTs)
    <3>1. Fresh(q) /\ q.snapshot = store
      BY <1>1 DEF NoTx, Fresh
    <3> HIDE DEF q
    <3>2. Extends(store, store)
      BY ExtendsIsOrder
    <3> QED BY <1>1, <3>1, <3>2, FreshIsSane
  <2>2. /\ tx' = [tx EXCEPT ![t] = q]
        /\ store' = store /\ lastTs' = lastTs /\ visible' = visible
    BY <1>5 DEF Begin
  <2> HIDE DEF q
  <2>3. tx' = [u \in Tx |-> tx'[u]] /\ \A u \in Tx : tx'[u] = IF u = t THEN q ELSE tx[u]
    BY <1>1, <2>2
  <2> QED BY <1>1, <2>1, <2>2, <2>3 DEF CatalogInv
<1>6. ASSUME NEW t \in Tx, NEW name \in Name, NewCollection(t, name)
      PROVE  CatalogInv'
  <2> DEFINE writes == [tx[t].writes EXCEPT !.newCollections = Inserted(@, NextTemp(t), name)]
  <2>1. Sound(writes, ShownIds(tx[t]), IndexIds(tx[t].snapshot))
    BY <1>2, <1>4, RecordsStaySound
  <2>2. Record(t, writes, NextTemp(t))
    BY <1>6 DEF NewCollection
  <2> HIDE DEF writes
  <2> QED BY <1>4, <2>1, <2>2, RecordKeeps
<1>7. ASSUME NEW t \in Tx, NEW collection \in Name, NEW name \in Name, NEW metadata \in Metadata,
             NewIndex(t, collection, name, metadata)
      PROVE  CatalogInv'
  <2> DEFINE c == Collection(tx[t], collection)
             index == [name |-> name, metadata |-> metadata]
             writes == [tx[t].writes EXCEPT !.newIndexes = Inserted(@, <<c, NextTemp(t)>>, index)]
  <2>1. c \in Cols(tx[t].writes, ShownIds(tx[t])) /\ index \in Rows
    BY <1>3, <1>7 DEF NewIndex, Rows
  <2>2. Record(t, writes, NextTemp(t))
    BY <1>7 DEF NewIndex
  <2> HIDE DEF c, index
  <2>3. Sound(writes, ShownIds(tx[t]), IndexIds(tx[t].snapshot))
    BY <1>2, <1>4, <2>1, RecordsStaySound
  <2> HIDE DEF writes
  <2> QED BY <1>4, <2>2, <2>3, RecordKeeps
<1>8. ASSUME NEW t \in Tx, NEW collection \in Name, NEW doc \in Doc,
             WriteDocument(t, collection, doc)
      PROVE  CatalogInv'
  <2> DEFINE c == Collection(tx[t], collection)
             writes == [tx[t].writes EXCEPT !.docs = Inserted(@, <<c, doc>>, t)]
  <2>1. c \in Cols(tx[t].writes, ShownIds(tx[t]))
    BY <1>3, <1>8 DEF WriteDocument
  <2>2. Record(t, writes, tx[t].lastTemp)
    BY <1>8 DEF WriteDocument
  <2> HIDE DEF c
  <2>3. Sound(writes, ShownIds(tx[t]), IndexIds(tx[t].snapshot))
    BY <1>2, <2>1, RecordsStaySound
  <2> HIDE DEF writes
  <2> QED BY <1>2, <2>2, <2>3, RecordKeeps
<1>9. ASSUME NEW t \in Tx, NEW collection \in Name, NEW name \in Name, NEW doc \in Doc,
             NEW op \in {"Put", "Deleted"}, WriteIndexEntry(t, collection, name, doc, op)
      PROVE  CatalogInv'
  <2> DEFINE c == Collection(tx[t], collection)
  <2>1. PICK e \in Indexes(tx[t], c) :
          Record(t, [tx[t].writes EXCEPT !.entries = Inserted(@, <<c, e.id, doc>>, op)],
                 tx[t].lastTemp)
    BY <1>9 DEF WriteIndexEntry
  <2> DEFINE i == e.id
             writes == [tx[t].writes EXCEPT !.entries = Inserted(@, <<c, i, doc>>, op)]
  <2>2. c \in Cols(tx[t].writes, ShownIds(tx[t])) /\ op \in Ops
    BY <1>3, <1>9 DEF WriteIndexEntry, Ops
  <2>3. i \in Temps(tx[t].writes) \cup IndexIds(tx[t].snapshot)
    <3>1. WellTyped(tx[t].snapshot, lastTs)
      BY <1>1 DEF Sane, Catalogued
    <3> HIDE DEF c
    <3> QED BY <1>2, <3>1, IndexesFound
  <2>4. Record(t, writes, tx[t].lastTemp)
    BY <2>1
  <2> HIDE DEF c, i
  <2>5. Sound(writes, ShownIds(tx[t]), IndexIds(tx[t].snapshot))
    BY <1>2, <2>2, <2>3, RecordsStaySound
  <2> HIDE DEF writes
  <2> QED BY <1>2, <2>4, <2>5, RecordKeeps
<1>10. ASSUME NEW t \in Tx, NEW collection \in Name, NEW metadata \in Metadata,
              UpdateCollectionMetadata(t, collection, metadata)
       PROVE  CatalogInv'
  <2> DEFINE c == Collection(tx[t], collection)
             writes == [tx[t].writes EXCEPT !.metadata = Inserted(@, c, metadata)]
  <2>1. c \in Cols(tx[t].writes, ShownIds(tx[t]))
    BY <1>3, <1>10 DEF UpdateCollectionMetadata
  <2>2. Record(t, writes, tx[t].lastTemp)
    BY <1>10 DEF UpdateCollectionMetadata
  <2> HIDE DEF c
  <2>3. Sound(writes, ShownIds(tx[t]), IndexIds(tx[t].snapshot))
    BY <1>2, <2>1, RecordsStaySound
  <2> HIDE DEF writes
  <2> QED BY <1>2, <2>2, <2>3, RecordKeeps
<1>11. ASSUME NEW t \in Tx, Commit(t)
       PROVE  CatalogInv'
  <2> DEFINE later == lastTs + 1
             s == store'
             q == [NoTx EXCEPT !.phase = "done"]
  <2>1. later \in Nat /\ lastTs <= later /\ later \in 0 .. later
    BY <1>1
  <2>2. /\ lastTs' = later /\ visible' = visible /\ tx' = [tx EXCEPT ![t] = q]
        /\ \/ s = store
           \/ s = Put(store, tx[t].writes, later)
    BY <1>11 DEF Commit
  <2> HIDE DEF later
  <2>3. Catalogued(store, later)
    BY <1>1, <2>1, LaterTypes
  <2>4. Stored(Put(store, tx[t].writes, later), store, tx[t].writes, later)
    <3>1. /\ ShownIds(tx[t]) \subseteq CollectionIds(store)
          /\ IndexIds(tx[t].snapshot) \subseteq IndexIds(store)
      BY <1>1, ExtendsIsOrder DEF Sane, ShownIds
    <3> QED BY <1>2, <2>1, <2>3, <3>1, PutKeepsCatalogs
  <2>5. Catalogued(s, later) /\ Owned(s) /\ Extends(store, s)
    BY <1>1, <2>2, <2>3, <2>4, ExtendsIsOrder DEF Stored
  <2> HIDE DEF s
  <2>6. \A u \in Tx : Sane(tx[u], s, later)
    BY <1>1, <2>1, <2>5, SaneLater
  <2>7. Sane(q, s, later)
    <3>1. Fresh(q) /\ q.snapshot = EmptyStore
      BY DEF NoTx, Fresh
    <3>2. Catalogued(EmptyStore, later) /\ Extends(EmptyStore, s)
      BY <2>1, EmptyIsComplete
    <3> HIDE DEF q
    <3> QED BY <3>1, <3>2, FreshIsSane
  <2> HIDE DEF q
  <2>8. tx' = [u \in Tx |-> tx'[u]] /\ \A u \in Tx : tx'[u] = IF u = t THEN q ELSE tx[u]
    BY <1>1, <2>2
  <2>9. \A u \in Tx : Sane(tx'[u], s, later)
    BY <2>6, <2>7, <2>8
  <2> QED BY <1>1, <2>1, <2>2, <2>5, <2>8, <2>9 DEF CatalogInv, s
<1>12. CASE Publish
  <2>1. store' = store /\ lastTs' = lastTs /\ tx' = tx /\ visible' = lastTs
    BY <1>12 DEF Publish
  <2> QED BY <1>1, <2>1 DEF CatalogInv
<1>13. CASE UNCHANGED vars
  <2>1. store' = store /\ lastTs' = lastTs /\ tx' = tx /\ visible' = visible
    BY <1>13 DEF vars
  <2> QED BY <1>1, <2>1 DEF CatalogInv
<1> QED BY <1>5, <1>6, <1>7, <1>8, <1>9, <1>10, <1>11, <1>12, <1>13 DEF Next

\* The catalogs stay complete.
LEMMA CatalogsHold == Spec => []CatalogInv
<1> QED BY CatalogInit, CatalogStep, PTL DEF Spec

\* Each document, index and entry stored is of a collection and an index that the
\* catalogs know, and each name has a row.
LEMMA CompleteCatalogs == CatalogInv => NothingOrphaned
<1> SUFFICES ASSUME CatalogInv
             PROVE  NothingOrphaned
  OBVIOUS
<1> DEFINE collections == {k[1] : k \in DOMAIN store.rows}
<1>1. /\ lastTs \in Nat /\ Catalogued(store, lastTs) /\ Owned(store) /\ WellTyped(store, lastTs)
  BY DEF CatalogInv, Catalogued
<1>2. ASSUME NEW n \in DOMAIN store.ids
      PROVE  Known(store, store.ids[n], lastTs) /\ RowOf(store, store.ids[n], lastTs).name = n
  <2> DEFINE id == store.ids[n]
             newest == <<id, Max(AllVersionsOf(store, id))>>
  <2>1. PICK k \in DOMAIN store.rows : k[1] = id
    BY <1>1 DEF Catalogued
  <2>2. newest \in DOMAIN store.rows /\ AllVersionsOf(store, id) # {}
    <3> HIDE DEF id
    <3> QED BY <1>1, <2>1, NewestStored
  <2>3. VersionsOf(store, id, lastTs) = AllVersionsOf(store, id)
    <3>1. IsTable(store.rows, RowKeys(lastTs), Rows)
      BY <1>1, FieldTypes
    <3>2. \A l \in DOMAIN store.rows : l[2] \in 0 .. lastTs
      BY <3>1 DEF IsTable, RowKeys
    <3>3. \A v \in AllVersionsOf(store, id) : v <= lastTs
      BY <3>2 DEF AllVersionsOf
    <3> QED BY <3>3 DEF VersionsOf
  <2>4. PICK m \in DOMAIN store.ids : newest[1] = store.ids[m] /\ store.rows[newest].name = m
    <3> HIDE DEF newest
    <3> QED BY <1>1, <2>2 DEF Catalogued
  <2>5. m = n
    BY <1>1, <2>4 DEF Catalogued
  <2> QED BY <2>2, <2>3, <2>4, <2>5 DEF Known, RowOf
<1>3. collections = {store.ids[n] : n \in DOMAIN store.ids}
  <2>1. \A k \in DOMAIN store.rows : \E n \in DOMAIN store.ids : k[1] = store.ids[n]
    BY <1>1 DEF Catalogued
  <2>2. \A n \in DOMAIN store.ids : \E k \in DOMAIN store.rows : k[1] = store.ids[n]
    BY <1>1 DEF Catalogued
  <2> QED BY <2>1, <2>2
<1>4. \A k \in DOMAIN store.docs \cup DOMAIN store.indexes : k[1] \in collections
  <2> HIDE DEF collections
  <2> QED BY <1>1, <1>3 DEF Owned
<1>5. \A e \in store.entries : \E k \in DOMAIN store.indexes : store.indexes[k].id = e[1]
  BY <1>1 DEF Owned
<1> QED BY <1>2, <1>3, <1>4, <1>5 DEF NothingOrphaned

\* put resolves every temporary id and takes the others as they are: no document, index
\* entry, index or name is ever stored under an id that the catalogs do not know.
THEOREM CatalogsAreComplete == Spec => []NothingOrphaned
<1> QED BY CatalogsHold, CompleteCatalogs, PTL

\* put: whatever others have committed since a transaction began, its write set can be
\* applied.
THEOREM WriteSetsApply == Spec => []WritesAlwaysApply
<1>1. CatalogInv => WritesAlwaysApply
  <2> SUFFICES ASSUME CatalogInv, NEW t \in Tx
               PROVE  Applicable(store, tx[t].writes)
    BY DEF WritesAlwaysApply
  <2>1. /\ lastTs \in Nat /\ Catalogued(store, lastTs) /\ Extends(tx[t].snapshot, store)
        /\ Sound(tx[t].writes, ShownIds(tx[t]), IndexIds(tx[t].snapshot))
    BY DEF CatalogInv, Sane
  <2>2. ShownIds(tx[t]) \subseteq CollectionIds(store)
    BY <2>1, ExtendsIsOrder DEF ShownIds
  <2> QED BY <2>1, <2>2, SoundApplies
<1> QED BY <1>1, CatalogsHold, PTL

-----------------------------------------------------------------------------
(* What a transaction sees *)

\* What the transaction sees is complete by itself: every collection it is shown has a
\* row up to its timestamp.
LEMMA SeenIsComplete ==
  ASSUME NEW ts, NEW r, Catalogued(r.snapshot, ts), r.ts \in Nat
  PROVE  /\ Catalogued(AsSeen(r), r.ts) /\ CollectionIds(AsSeen(r)) = ShownIds(r)
         /\ AsSeen(r).indexes = r.snapshot.indexes
         /\ \A n : n \in DOMAIN AsSeen(r).ids <=>
                     n \in DOMAIN r.snapshot.ids /\ Shown(r, r.snapshot.ids[n])
         /\ \A n \in DOMAIN AsSeen(r).ids : AsSeen(r).ids[n] = r.snapshot.ids[n]
<1> DEFINE s == r.snapshot
           names == {n \in DOMAIN s.ids : Shown(r, s.ids[n])}
           ids == [n \in names |-> s.ids[n]]
           keys == {l \in DOMAIN s.rows : l[2] <= r.ts}
           rows == [k \in keys |-> s.rows[k]]
           a == AsSeen(r)
<1>1. WellTyped(s, ts)
  BY DEF Catalogued
<1>2. /\ IsTable(s.ids, Name, Ids(s.lastCollection)) /\ IsTable(s.rows, RowKeys(ts), Rows)
      /\ s \in [ids : {s.ids}, rows : {s.rows}, indexes : {s.indexes}, docs : {s.docs},
                entries : {s.entries}, lastCollection : {s.lastCollection},
                lastIndex : {s.lastIndex}]
  <2> HIDE DEF s
  <2> QED BY <1>1, FieldTypes
<1>3. a = [s EXCEPT !.ids = ids, !.rows = rows]
  BY DEF AsSeen
<1> HIDE DEF a
<1>4. /\ a \in [ids : {ids}, rows : {rows}, indexes : {s.indexes}, docs : {s.docs},
                entries : {s.entries}, lastCollection : {s.lastCollection},
                lastIndex : {s.lastIndex}]
      /\ a.ids = ids /\ a.rows = rows /\ a.indexes = s.indexes /\ a.docs = s.docs
      /\ a.entries = s.entries /\ a.lastCollection = s.lastCollection
      /\ a.lastIndex = s.lastIndex
  <2> HIDE DEF ids, rows, s
  <2> QED BY <1>2, <1>3
<1>5. DOMAIN ids = names /\ \A n \in names : ids[n] = s.ids[n]
  OBVIOUS
<1>6. DOMAIN rows = keys /\ \A k \in keys : rows[k] = s.rows[k]
  OBVIOUS
<1>7. IsTable(ids, Name, Ids(s.lastCollection))
  BY <1>2 DEF IsTable
<1>8. keys \subseteq RowKeys(r.ts)
  <2> SUFFICES ASSUME NEW k \in keys
               PROVE  k \in RowKeys(r.ts)
    OBVIOUS
  <2>1. k \in RowKeys(ts) /\ k[2] <= r.ts
    BY <1>2 DEF IsTable
  <2> QED BY <2>1 DEF RowKeys
<1>9. IsTable(rows, RowKeys(r.ts), Rows)
  BY <1>2, <1>8 DEF IsTable
<1>10. WellTyped(a, r.ts)
  <2>1. /\ s.entries \subseteq Nat \X Doc /\ s.lastCollection \in Nat /\ s.lastIndex \in Nat
        /\ IsTable(s.indexes, IndexKeys, IndexRows) /\ IsFiniteSet(DOMAIN s.indexes)
        /\ IsTable(s.docs, DocKeys, Tx)
    <3> HIDE DEF s
    <3> QED BY <1>1, FieldTypes
  <2> HIDE DEF ids, rows, s
  <2> QED BY <1>4, <1>7, <1>9, <2>1, FieldTypes
<1>11. /\ \A m, n \in DOMAIN s.ids : s.ids[m] = s.ids[n] => m = n
       /\ \A k \in DOMAIN s.rows :
            \E n \in DOMAIN s.ids : k[1] = s.ids[n] /\ s.rows[k].name = n
  BY DEF Catalogued
<1>12. \A m, n \in DOMAIN a.ids : a.ids[m] = a.ids[n] => m = n
  <2>1. \A m, n \in names : s.ids[m] = s.ids[n] => m = n
    BY <1>11
  <2> HIDE DEF ids, names, s
  <2> QED BY <1>4, <1>5, <2>1
<1>13. \A n \in DOMAIN a.ids : \E k \in DOMAIN a.rows : k[1] = a.ids[n]
  <2> SUFFICES ASSUME NEW n \in names
               PROVE  \E k \in keys : k[1] = s.ids[n]
    <3> HIDE DEF ids, rows, names, keys
    <3> QED BY <1>4, <1>5, <1>6
  <2>1. VersionsOf(s, s.ids[n], r.ts) # {}
    BY DEF Shown, Known
  <2> QED BY <2>1 DEF VersionsOf, AllVersionsOf
<1>14. \A k \in DOMAIN a.rows : \E n \in DOMAIN a.ids : k[1] = a.ids[n] /\ a.rows[k].name = n
  <2> SUFFICES ASSUME NEW k \in keys
               PROVE  \E n \in names : k[1] = s.ids[n] /\ s.rows[k].name = n
    <3> HIDE DEF ids, rows, names, keys
    <3> QED BY <1>4, <1>5, <1>6
  <2>1. PICK n \in DOMAIN s.ids : k[1] = s.ids[n] /\ s.rows[k].name = n
    BY <1>11
  <2>2. k[2] \in VersionsOf(s, s.ids[n], r.ts)
    BY <2>1 DEF VersionsOf, AllVersionsOf
  <2>3. n \in names
    BY <2>2 DEF Shown, Known
  <2> QED BY <2>1, <2>3
<1>15. Catalogued(a, r.ts)
  <2>1. Numbered(a)
    BY <1>4, NumbersStay
  <2> QED BY <1>10, <1>12, <1>13, <1>14, <2>1 DEF Catalogued
<1>16. CollectionIds(a) = ShownIds(r)
  <2>1. \A i \in ShownIds(r) : \E n \in names : s.ids[n] = i
    BY DEF ShownIds, CollectionIds
  <2>2. \A n \in names : s.ids[n] \in ShownIds(r)
    BY DEF ShownIds, CollectionIds
  <2> HIDE DEF ids, names, s
  <2> QED BY <1>4, <1>5, <2>1, <2>2 DEF CollectionIds
<1>17. \A n : n \in DOMAIN a.ids <=> n \in DOMAIN s.ids /\ Shown(r, s.ids[n])
  BY <1>4, <1>5
<1>18. \A n \in DOMAIN a.ids : a.ids[n] = s.ids[n]
  BY <1>4, <1>5
<1> QED BY <1>4, <1>15, <1>16, <1>17, <1>18 DEF a

\* What the commit would make of what the transaction sees.
LEMMA AfterIsStored ==
  ASSUME NEW ts, NEW s, NEW r, Sane(r, s, ts)
  PROVE  Stored(After(r), AsSeen(r), r.writes, r.ts + 1)
<1> DEFINE a == AsSeen(r)
           later == r.ts + 1
<1>1. r.ts \in Nat /\ Catalogued(r.snapshot, ts)
      /\ Sound(r.writes, ShownIds(r), IndexIds(r.snapshot))
  BY DEF Sane
<1>2. Catalogued(a, r.ts) /\ CollectionIds(a) = ShownIds(r) /\ a.indexes = r.snapshot.indexes
  BY <1>1, SeenIsComplete
<1>3. IndexIds(a) = IndexIds(r.snapshot)
  BY <1>2 DEF IndexIds
<1>4. later \in Nat /\ r.ts <= later /\ later \in 0 .. later
  BY <1>1
<1> HIDE DEF a, later
<1>5. Catalogued(a, later)
  BY <1>1, <1>2, <1>4, LaterTypes
<1>6. Stored(Put(a, r.writes, later), a, r.writes, later)
  BY <1>1, <1>2, <1>3, <1>4, <1>5, PutKeepsCatalogs
<1> QED BY <1>6 DEF After, a, later

\* collection: a name finds the collection it will name after the commit.
THEOREM LookupsSeeTheCommit == Spec => []LookupSeesCommit
<1>1. ASSUME CatalogInv, NEW t \in Tx, NEW name \in Name
      PROVE  LET ids == After(tx[t]).ids
                 found == Collection(tx[t], name)
             IN IF name \in DOMAIN ids THEN found # NoId /\ Settled(tx[t], found) = ids[name]
                ELSE found = NoId
  <2> DEFINE r == tx[t]
             w == r.writes
             a == AsSeen(r)
             p == After(r)
             found == Collection(r, name)
             new == {c \in New(r) : w.newCollections[c] = name}
             shown == name \in DOMAIN r.snapshot.ids /\ Shown(r, r.snapshot.ids[name])
  <2>1. Sane(r, store, lastTs)
    BY <1>1 DEF CatalogInv
  <2>2. Stored(p, a, w, r.ts + 1)
    BY <2>1, AfterIsStored
  <2>3. /\ Catalogued(a, r.ts)
        /\ name \in DOMAIN a.ids <=> shown
        /\ name \in DOMAIN a.ids => a.ids[name] = r.snapshot.ids[name]
    BY <2>1, SeenIsComplete DEF Sane
  <2>4. IsTable(w.newCollections, Temporary, Name) /\ IsFiniteSet(New(r))
    BY <2>1 DEF Sane, Sound, NewCollections, New
  <2>5. /\ p.ids = CollectionsCreated(a, w, 0).ids
        /\ DOMAIN p.ids = DOMAIN a.ids \cup NewNames(w)
        /\ name \in DOMAIN a.ids => p.ids[name] = a.ids[name]
    BY <2>2 DEF Stored, Extends
  <2>6. name \in NewNames(w) <=> new # {}
    BY DEF NewNames, New
  <2>7. found = IF new # {} THEN Min(new) ELSE IF shown THEN r.snapshot.ids[name] ELSE NoId
    BY DEF Collection
  <2>8. \A i : Settled(r, i) = IF i >= 0 THEN i ELSE NewIds(a, w)[i]
    BY DEF Settled, Resolve
  <2>9. CASE new # {}
    <3>1. Min(new) \in new
      <4>1. new \in SUBSET New(r) /\ New(r) \subseteq Int
        BY <2>4 DEF IsTable, Temporary, New
      <4>2. new \in SUBSET Int /\ IsFiniteSet(new)
        BY <2>4, <4>1, FS_Subset
      <4> HIDE DEF new
      <4> QED BY <2>9, <4>2, IdsHaveEnds
    <3>2. found \in DOMAIN w.newCollections /\ w.newCollections[found] = name
      BY <2>7, <2>9, <3>1 DEF New
    <3> HIDE DEF found, p, a, w
    <3>3. found \in Int /\ found < 0
      BY <2>4, <3>2 DEF IsTable, Temporary
    <3>4. NewIds(a, w)[found] = p.ids[name]
      BY <2>5, <3>2 DEF NewIds
    <3>5. found # NoId /\ ~(found >= 0)
      BY <3>3 DEF NoId
    <3>6. Settled(r, found) = p.ids[name]
      BY <2>8, <3>4, <3>5
    <3>7. name \in DOMAIN p.ids
      BY <2>5, <2>6, <2>9
    <3> QED BY <3>5, <3>6, <3>7 DEF found, p
  <2>10. CASE new = {} /\ shown
    <3>1. found = r.snapshot.ids[name] /\ name \in DOMAIN a.ids
      BY <2>3, <2>7, <2>10
    <3>2. found = a.ids[name] /\ p.ids[name] = found /\ name \in DOMAIN p.ids
      BY <2>3, <2>5, <3>1
    <3>3. found \in 1 .. a.lastCollection
      <4>1. WellTyped(a, r.ts)
        BY <2>3 DEF Catalogued
      <4> HIDE DEF a, found
      <4> QED BY <3>1, <3>2, <4>1, IdsArePositive
    <3> HIDE DEF found, p, a
    <3>4. found # NoId /\ found >= 0
      BY <3>3 DEF NoId
    <3> QED BY <2>8, <3>2, <3>4 DEF found, p
  <2>11. CASE new = {} /\ ~shown
    <3>1. found = NoId
      BY <2>7, <2>11
    <3>2. name \notin DOMAIN p.ids
      BY <2>3, <2>5, <2>6, <2>11
    <3> QED BY <3>1, <3>2
  <2> QED BY <2>9, <2>10, <2>11
<1>2. CatalogInv => LookupSeesCommit
  BY <1>1 DEF LookupSeesCommit
<1> QED BY <1>2, CatalogsHold, PTL

-----------------------------------------------------------------------------
(* What a catalog cursor returns *)

\* A finite set of entries, one for each name.
Listable(S) ==
  S \in SUBSET Entries /\ IsFiniteSet(S) /\ \A e, f \in S : e.at = f.at => e = f

\* s holds the entries of S from the start on, in the cursor's order.
Streams(s, S, direction, start) ==
  /\ s \in Seq(S) /\ Placed(s) /\ Ascends(s, direction)
  /\ \A i \in 1 .. Len(s) : s[i] \in S /\ Accepts(direction, start, s[i].at)
  /\ \A e \in S : Accepts(direction, start, e.at) => \E i \in 1 .. Len(s) : s[i] = e

\* Places are positions.
LEMMA PlacesAreSpots == Place \subseteq Spot
<1> SUFFICES ASSUME NEW name \in Name
             PROVE  PlaceOf(name) \in Spot
  BY DEF Place
<1> QED BY CatalogAssumption DEF PlaceOf, Spot

\* Entries of different names are in the order of their places.
LEMMA EntriesByPlace ==
  ASSUME NEW e \in Entries, NEW f \in Entries, e.at # f.at
  PROVE  EntryLess(e, f) <=> PositionLess(e.at, f.at)
<1>1. e.at = <<e.at[1], 0>> /\ f.at = <<f.at[1], 0>>
  BY EntryType
<1>2. e.at[1] # f.at[1]
  BY <1>1
<1> QED BY <1>1, <1>2 DEF EntryLess, PositionLess

\* A stream of a cursor holds what it is to.
LEMMA StreamIsListed ==
  ASSUME NEW S, Listable(S), NEW direction, NEW start
  PROVE  Streams(From(S, direction, start), S, direction, start)
<1> DEFINE T == {e \in S : Accepts(direction, start, e.at)}
           s == From(S, direction, start)
<1>1. T \in SUBSET S
  OBVIOUS
<1>2. \A e \in S : e \in T <=> Accepts(direction, start, e.at)
  OBVIOUS
<1>3. s = Directed(direction, T, EntryLess)
  BY DEF From
<1> HIDE DEF T, s
<1>4. T \in SUBSET Entries /\ IsFiniteSet(T) /\ Distinct(T)
  BY <1>1, FS_Subset DEF Distinct, Listable
<1>5. Lists(s, T, EntryPairs(T, direction))
  BY <1>3, <1>4, EntriesAreListed
<1>6. /\ s \in Seq(T) /\ Len(s) \in Nat /\ \A i \in 1 .. Len(s) : s[i] \in T
      /\ \A x \in T : \E i \in 1 .. Len(s) : s[i] = x
  BY <1>5, ListType
<1>7. s \in Seq(S)
  BY <1>1, <1>6
<1>8. Placed(s)
  <2>1. \A e \in T : e.at \in Spot
    BY <1>4, EntryType, PlacesAreSpots
  <2> QED BY <1>6, <2>1 DEF Placed
<1>9. Ascends(s, direction)
  <2> SUFFICES ASSUME NEW i \in 1 .. Len(s), NEW j \in 1 .. Len(s), i < j
               PROVE  Before(direction, s[i].at, s[j].at)
    BY DEF Ascends
  <2> DEFINE x == s[i]
             y == s[j]
  <2>1. x \in T /\ y \in T /\ <<x, y>> \in EntryPairs(T, direction)
    BY <1>5, <1>6 DEF Lists
  <2> HIDE DEF x, y
  <2>2. IF direction = "Forward" THEN EntryLess(x, y) ELSE EntryLess(y, x)
    BY <2>1 DEF EntryPairs
  <2>3. x \in Entries /\ y \in Entries /\ x \in S /\ y \in S
    BY <1>1, <1>4, <2>1
  <2>4. x.at # y.at
    <3>1. x = y => FALSE
      BY <2>2, <2>3, EntriesAreOrdered
    <3> QED BY <2>3, <3>1 DEF Listable
  <2>5. /\ EntryLess(x, y) <=> PositionLess(x.at, y.at)
        /\ EntryLess(y, x) <=> PositionLess(y.at, x.at)
    BY <2>3, <2>4, EntriesByPlace
  <2>6. Before(direction, x.at, y.at)
    BY <2>2, <2>5 DEF Before
  <2> QED BY <2>6 DEF x, y
<1>10. Streams(s, S, direction, start)
  BY <1>1, <1>2, <1>6, <1>7, <1>8, <1>9 DEF Streams
<1> QED BY <1>10 DEF s

\* At places, a cursor accepts what its start promises.
LEMMA StartsAreKept ==
  ASSUME NEW direction, NEW start \in StartAt(Place), NEW p \in Place
  PROVE  Accepts(direction, start, p) <=> FromStart(direction, start, p)
<1>1. CASE start.kind = "Unbounded"
  BY <1>1 DEF Accepts, FromStart
<1>2. CASE start.kind # "Unbounded"
  <2>1. start \in [kind : {"Included", "Excluded"}, at : Place]
    BY <1>2 DEF StartAt
  <2> DEFINE q == start.at
  <2>2. q \in Spot /\ p \in Spot
    BY <2>1, PlacesAreSpots
  <2> HIDE DEF q
  <2>3. /\ ~Before(direction, p, p)
        /\ Before(direction, q, p) => ~Before(direction, p, q)
        /\ p # q => Before(direction, p, q) \/ Before(direction, q, p)
    BY <2>2, BeforeIsOrder DEF Spot
  <2> QED BY <1>2, <2>3 DEF Accepts, FromStart, q
<1> QED BY <1>1, <1>2

\* How much is left in the streams.
Pending(c) == Len(c.base) + Len(c.overlay)

\* Every step takes something, and keeps to what is expected.
LEMMA MovedKeepsMerging ==
  ASSUME NEW c, NEW exp, Merging(c, exp), NEW S, c \in Cursors(c, Seq(S))
  PROVE  /\ Merging(Moved(c), exp)
         /\ Moved(c).kind = c.kind /\ Moved(c).direction = c.direction
         /\ Moved(c).start = c.start
         /\ Pending(c) \in Nat /\ Pending(Moved(c)) \in Nat
         /\ ~Drained(c) => Pending(Moved(c)) < Pending(c)
<1> DEFINE Q == Seq(S)
<1>1. /\ c.base \in Q /\ c.overlay \in Q /\ c.out \in Q
      /\ c \in [kind : {c.kind}, direction : {c.direction}, start : {c.start},
                base : {c.base}, overlay : {c.overlay}, out : {c.out}]
  <2>1. c \in Cursors(c, Q)
    OBVIOUS
  <2> HIDE DEF Q
  <2> QED BY <2>1 DEF Cursors
<1>2. \A q \in Q : /\ Len(q) \in Nat
                   /\ q # <<>> => Tail(q) \in Q /\ Len(Tail(q)) = Len(q) - 1 /\ Len(q) > 0
  OBVIOUS
<1> HIDE DEF Q
<1>3. Pending(c) \in Nat
  BY <1>1, <1>2 DEF Pending
<1>4. CASE Drained(c)
  <2>1. Moved(c) = c
    BY <1>4 DEF Moved
  <2> QED BY <1>3, <1>4, <2>1
<1>5. CASE ~Drained(c) /\ TakesBase(c)
  <2> DEFINE d == BaseTaken(c)
  <2>1. Moved(c) = d /\ Merging(d, exp) /\ c.base # <<>>
    BY <1>5, BaseKeepsMerging DEF Moved, TakesBase
  <2>2. /\ d.base = Tail(c.base) /\ d.overlay = c.overlay
        /\ d.kind = c.kind /\ d.direction = c.direction /\ d.start = c.start
    BY <1>1 DEF BaseTaken
  <2> HIDE DEF d
  <2>3. Pending(d) \in Nat /\ Pending(d) < Pending(c)
    BY <1>1, <1>2, <2>1, <2>2 DEF Pending
  <2> QED BY <1>3, <2>1, <2>2, <2>3
<1>6. CASE ~Drained(c) /\ ~TakesBase(c)
  <2> DEFINE d == OverlayTaken(c)
             same == c.base # <<>> /\ Head(c.base).at = Head(c.overlay).at
             rest == IF same THEN Tail(c.base) ELSE c.base
  <2>1. TakesOverlay(c) /\ c.overlay # <<>>
    BY <1>6 DEF TakesBase, TakesOverlay, Drained
  <2>2. Moved(c) = d /\ Merging(d, exp)
    BY <1>6, <2>1, OverlayKeepsMerging DEF Moved
  <2>3. /\ d.base = rest /\ d.overlay = Tail(c.overlay)
        /\ d.kind = c.kind /\ d.direction = c.direction /\ d.start = c.start
    BY <1>1 DEF OverlayTaken
  <2>4. Len(rest) \in Nat /\ Len(rest) <= Len(c.base)
    BY <1>1, <1>2
  <2> HIDE DEF d, rest
  <2>5. Pending(d) \in Nat /\ Pending(d) < Pending(c)
    BY <1>1, <1>2, <2>1, <2>3, <2>4 DEF Pending
  <2> QED BY <1>3, <2>2, <2>3, <2>5
<1> QED BY <1>4, <1>5, <1>6

\* A cursor that merges what is expected returns it.
LEMMA MergedIsReturned ==
  ASSUME NEW S, NEW exp \in Seq(S), NEW cursor, Merging(cursor, exp)
  PROVE  Returned(cursor) = exp
<1> DEFINE E == {exp[m] : m \in 1 .. Len(exp)}
           X == {c \in Cursors(cursor, Seq(E)) : Merging(c, exp)}
           L == Steps(cursor)
           n == Pending(cursor)
<1>1. cursor \in Cursors(cursor, Seq(E))
  BY DEF Merging
<1>2. cursor \in X
  BY <1>1
<1>3. n \in Nat
  <2> HIDE DEF E
  <2> QED BY <1>1, MovedKeepsMerging
<1>4. L \in Seq(Nat) /\ Len(L) = n
  <2>1. L = [i \in 1 .. n |-> i]
    BY DEF Steps, Pending
  <2> HIDE DEF L, n
  <2> QED BY <1>3, <2>1
<1>5. ASSUME NEW c \in X
      PROVE  /\ Moved(c) \in X /\ Pending(c) \in Nat /\ Pending(Moved(c)) \in Nat
             /\ ~Drained(c) => Pending(Moved(c)) < Pending(c)
  <2> DEFINE d == Moved(c)
  <2>1. /\ Merging(c, exp) /\ c \in Cursors(cursor, Seq(E))
        /\ c.kind = cursor.kind /\ c.direction = cursor.direction /\ c.start = cursor.start
    <3> HIDE DEF E
    <3> QED BY DEF Cursors
  <2>2. c \in Cursors(c, Seq(E))
    BY <2>1 DEF Merging
  <2> HIDE DEF X
  <2>3. /\ Merging(d, exp) /\ Pending(c) \in Nat /\ Pending(d) \in Nat
        /\ d.kind = c.kind /\ d.direction = c.direction /\ d.start = c.start
        /\ ~Drained(c) => Pending(d) < Pending(c)
    <3> HIDE DEF E
    <3> QED BY <2>1, <2>2, MovedKeepsMerging
  <2> HIDE DEF d
  <2>4. d \in Cursors(d, Seq(E))
    BY <2>3 DEF Merging
  <2>5. d \in Cursors(cursor, Seq(E))
    <3> HIDE DEF E
    <3> QED BY <2>1, <2>3, <2>4 DEF Cursors
  <2>6. d \in X
    BY <2>3, <2>5 DEF X
  <2> QED BY <2>3, <2>6 DEF d
<1>6. \A c \in X : Merging(c, exp)
  OBVIOUS
<1> HIDE DEF X, L, n, E
<1>7. ReturnedStay(X, L, cursor)
  BY <1>5 DEF ReturnedStay
<1>8. ReturnedEnd(X, L, cursor)
  BY <1>2, <1>4, <1>7, ReturnedWalk DEF L
<1>9. PICK walk \in [0 .. n -> X] :
        /\ walk[0] = cursor
        /\ \A i \in 1 .. n : walk[i] = Moved(walk[i - 1])
        /\ walk[n].out = Returned(cursor)
  BY <1>4, <1>8 DEF ReturnedEnd
<1> DEFINE G == {i \in 0 .. n : Drained(walk[i]) \/ Pending(walk[i]) <= n - i}
<1>10. 0 \in G
  BY <1>3, <1>9 DEF n
<1>11. ASSUME NEW i \in 1 .. n, i - 1 \in G
       PROVE  i \in G
  <2> DEFINE c == walk[i - 1]
             d == walk[i]
  <2>1. i \in 0 .. n /\ i - 1 \in 0 .. n
    BY <1>3
  <2>2. c \in X /\ d = Moved(c) /\ (Drained(c) \/ Pending(c) <= n - (i - 1))
    BY <1>9, <1>11, <2>1
  <2>3. Drained(d) \/ Pending(d) <= n - i
    <3> HIDE DEF c, d, G
    <3>1. CASE Drained(c)
      BY <2>2, <3>1 DEF Moved
    <3>2. CASE ~Drained(c)
      <4>1. Pending(c) \in Nat /\ Pending(d) \in Nat /\ Pending(d) < Pending(c)
        BY <1>5, <2>2, <3>2
      <4> QED BY <1>3, <2>1, <2>2, <3>2, <4>1
    <3> QED BY <3>1, <3>2
  <2> QED BY <2>1, <2>3
<1>12. \A i \in 0 .. n : i \in G
  <2> HIDE DEF G
  <2> QED BY <1>3, <1>10, <1>11, UpTo
<1> DEFINE last == walk[n]
<1>13. last \in X /\ (Drained(last) \/ Pending(last) <= 0)
  <2>1. n \in 0 .. n
    BY <1>3
  <2>2. n \in G
    BY <1>12, <2>1
  <2> QED BY <1>3, <1>9, <2>1, <2>2
<1>14. last.out = Returned(cursor)
  BY <1>9
<1> HIDE DEF last, G
<1>15. Merging(last, exp)
  BY <1>6, <1>13
<1>16. Drained(last)
  <2> SUFFICES ASSUME Pending(last) <= 0
               PROVE  Drained(last)
    BY <1>13
  <2>1. last \in Cursors(last, Seq(E))
    BY <1>15 DEF Merging, E
  <2>2. last.base \in Seq(E) /\ last.overlay \in Seq(E)
    BY <2>1 DEF Cursors
  <2>3. Len(last.base) \in Nat /\ Len(last.overlay) \in Nat
    BY <2>2
  <2>4. Len(last.base) = 0 /\ Len(last.overlay) = 0
    <3>1. \A a, b \in Nat : a + b <= 0 => a = 0 /\ b = 0
      OBVIOUS
    <3>2. Len(last.base) + Len(last.overlay) <= 0
      BY DEF Pending
    <3> QED BY <2>3, <3>1, <3>2
  <2> QED BY <2>2, <2>4 DEF Drained
<1>17. last.out = exp
  BY <1>15, <1>16, MergingPromises
<1> QED BY <1>14, <1>17

\* F holds the entries of the two sets by place and metadata, which have no place in common.
Covering(F, B, O) ==
  /\ \A e \in F : \E f \in B \cup O : f.at = e.at /\ f.metadata = e.metadata
  /\ \A f \in B \cup O : \E e \in F : e.at = f.at /\ e.metadata = f.metadata
  /\ \A f \in B, o \in O : f.at # o.at

\* A cursor over the two sets returns what is in F.
LEMMA MergedListing ==
  ASSUME NEW B, Listable(B), NEW O, Listable(O), NEW F, Listable(F), Covering(F, B, O),
         NEW direction \in Direction, NEW start \in StartAt(Place), NEW kind,
         NEW cursor, cursor = Opened(kind, direction, start, From(B, direction, start),
                                     From(O, direction, start))
  PROVE  SameListing(Returned(cursor), Listed(F, direction, start))
<1> DEFINE base == From(B, direction, start)
           over == From(O, direction, start)
           l == From(F, direction, start)
           n == Len(l)
           U == B \cup O
           At(m) == CHOOSE f \in U : f.at = l[m].at
           exp == [m \in 1 .. n |-> At(m)]
           E == {exp[m] : m \in 1 .. Len(exp)}
           Q == Seq(E)
<1>1. Listed(F, direction, start) = [i \in DOMAIN l |-> <<l[i].at, l[i].metadata>>]
  <2>1. \A e \in F : e.at \in Place
    BY DEF Listable, Entries
  <2>2. {e \in F : FromStart(direction, start, e.at)} = {e \in F : Accepts(direction, start, e.at)}
    BY <2>1, StartsAreKept
  <2> QED BY <2>2 DEF Listed, From
<1>2. /\ Streams(base, B, direction, start) /\ Streams(over, O, direction, start)
      /\ Streams(l, F, direction, start)
  BY StreamIsListed
<1> HIDE DEF base, over, l
<1>3. n \in Nat /\ DOMAIN l = 1 .. n
  BY <1>2 DEF Streams
<1>4. \A f, g \in U : f.at = g.at => f = g
  BY DEF Listable, Covering
<1>5. ASSUME NEW m \in 1 .. n
      PROVE  exp[m] \in U /\ exp[m].at = l[m].at /\ exp[m].metadata = l[m].metadata
  <2>1. l[m] \in F
    BY <1>2 DEF Streams
  <2>2. PICK f \in U : f.at = l[m].at /\ f.metadata = l[m].metadata
    BY <2>1 DEF Covering
  <2>3. At(m) \in U /\ At(m).at = l[m].at
    BY <2>2
  <2> HIDE DEF At, U
  <2>4. At(m) = f
    BY <1>4, <2>2, <2>3
  <2> QED BY <2>2, <2>4
<1>6. Len(exp) = n /\ exp \in Seq(U)
  <2> HIDE DEF U, At
  <2>1. \A m \in 1 .. n : exp[m] \in U
    BY <1>5
  <2>2. exp \in [1 .. n -> U]
    BY <2>1
  <2> HIDE DEF exp
  <2> QED BY <1>3, <2>2
<1> HIDE DEF exp, n
<1>7. ASSUME NEW f \in U, Accepts(direction, start, f.at)
      PROVE  \E m \in 1 .. n : exp[m] = f
  <2>1. PICK e \in F : e.at = f.at
    BY DEF Covering
  <2>2. PICK m \in 1 .. n : l[m] = e
    BY <1>2, <1>7, <2>1 DEF Streams, n
  <2>3. exp[m] \in U /\ exp[m].at = f.at
    BY <1>5, <2>1, <2>2
  <2> HIDE DEF U
  <2> QED BY <1>4, <2>3
<1>8. /\ \A i \in 1 .. Len(base) : \E m \in 1 .. n : exp[m] = base[i]
      /\ \A i \in 1 .. Len(over) : \E m \in 1 .. n : exp[m] = over[i]
  BY <1>2, <1>7 DEF Streams
<1>9. base \in Q /\ over \in Q /\ <<>> \in Q
  <2>1. base \in Seq(B) /\ over \in Seq(O)
    BY <1>2 DEF Streams
  <2>2. /\ \A i \in 1 .. Len(base) : base[i] \in E
        /\ \A i \in 1 .. Len(over) : over[i] \in E
    BY <1>6, <1>8
  <2> HIDE DEF E
  <2> QED BY <2>1, <2>2
<1>10. Placed(exp) /\ Ascends(exp, direction)
  <2>1. Placed(l) /\ Ascends(l, direction)
    BY <1>2 DEF Streams
  <2> HIDE DEF U
  <2> QED BY <1>3, <1>5, <1>6, <2>1 DEF Placed, Ascends, n
<1>11. Parted(0, base, over, exp, direction)
  <2>1. Placed(base) /\ Ascends(base, direction) /\ Placed(over) /\ Ascends(over, direction)
    BY <1>2 DEF Streams
  <2>2. Beyond(base, exp, 0) /\ Beyond(over, exp, 0)
    <3>1. \A m \in 1 .. n : m > 0
      OBVIOUS
    <3> QED BY <1>6, <1>8, <3>1 DEF Beyond
  <2>3. ASSUME NEW m \in 1 .. Len(exp)
        PROVE  \/ \E i \in 1 .. Len(base) : base[i] = exp[m]
               \/ \E i \in 1 .. Len(over) : over[i] = exp[m]
    <3>1. exp[m] \in U /\ exp[m].at = l[m].at
      BY <1>5, <1>6
    <3>2. Accepts(direction, start, exp[m].at)
      BY <1>2, <1>6, <3>1 DEF Streams, n
    <3> QED BY <1>2, <3>1, <3>2 DEF Streams
  <2>4. \A i \in 1 .. Len(base), j \in 1 .. Len(over) : base[i].at # over[j].at
    BY <1>2 DEF Streams, Covering
  <2> QED BY <1>10, <2>1, <2>2, <2>3, <2>4 DEF Parted
<1>12. /\ cursor \in Cursors(cursor, Q) /\ cursor.base = base /\ cursor.overlay = over
       /\ cursor.direction = direction /\ cursor.out = <<>>
  <2>1. cursor = Opened(kind, direction, start, base, over)
    BY DEF base, over
  <2> HIDE DEF Q
  <2> QED BY <1>9, <2>1 DEF Opened, Cursors
<1>13. Merging(cursor, exp)
  <2>1. Len(<<>>) = 0 /\ \A i \in 1 .. 0 : FALSE
    OBVIOUS
  <2> QED BY <1>11, <1>12, <2>1 DEF Merging, E, Q
<1>14. Returned(cursor) = exp
  <2> HIDE DEF U
  <2> QED BY <1>6, <1>13, MergedIsReturned
<1>15. DOMAIN exp = DOMAIN l
  BY <1>3, <1>6
<1> QED BY <1>1, <1>3, <1>5, <1>14, <1>15 DEF SameListing

-----------------------------------------------------------------------------
(* The names of the indexes that a transaction sees *)

\* The names in w are new to s, where ids are the collections shown, and each is of one
\* collection, or of one index of a collection.
NewNamed(w, s, ids) ==
  /\ \A c, d \in DOMAIN w.newCollections : w.newCollections[c] = w.newCollections[d] => c = d
  /\ \A c \in DOMAIN w.newCollections, n \in DOMAIN s.ids :
       s.ids[n] \in ids => w.newCollections[c] # n
  /\ \A k, l \in DOMAIN w.newIndexes :
       k[1] = l[1] /\ w.newIndexes[k].name = w.newIndexes[l].name => k = l
  /\ \A k \in DOMAIN w.newIndexes : <<k[1], w.newIndexes[k].name>> \notin DOMAIN s.indexes

\* Entries are at the same place when they have the same name.
LEMMA SamePlace ==
  ASSUME NEW m, NEW n
  PROVE  PlaceOf(m) = PlaceOf(n) <=> m = n
<1> QED BY DEF PlaceOf

\* Each index of a collection that the transaction sees has a name of its own.
LEMMA IndexesAreNamed ==
  ASSUME NEW ts, NEW r, WellTyped(r.snapshot, ts), NEW ids, NEW indexIds,
         Sound(r.writes, ids, indexIds), NewNamed(r.writes, r.snapshot, ids), NEW c
  PROVE  /\ Listable(OwnIndexes(r, c)) /\ Listable(StoredIndexes(r, c))
         /\ \A f \in StoredIndexes(r, c), o \in OwnIndexes(r, c) : f.at # o.at
<1> DEFINE w == r.writes
           s == r.snapshot
<1>1. ASSUME NEW e \in OwnIndexes(r, c)
      PROVE  \E k \in DOMAIN w.newIndexes :
               /\ k[1] = c /\ e.at = PlaceOf(w.newIndexes[k].name)
               /\ e = Entry(k[2], w.newIndexes[k].name, w.newIndexes[k].metadata)
  BY DEF OwnIndexes, Entry
<1>2. ASSUME NEW e \in StoredIndexes(r, c)
      PROVE  \E k \in DOMAIN s.indexes :
               /\ k[1] = c /\ e.at = PlaceOf(k[2])
               /\ e = Entry(s.indexes[k].id, k[2], s.indexes[k].metadata)
  BY DEF StoredIndexes, Entry
<1>3. \A k \in DOMAIN s.indexes : k = <<k[1], k[2]>>
  <2>1. IsTable(s.indexes, IndexKeys, IndexRows)
    BY FieldTypes
  <2> HIDE DEF s
  <2> QED BY <2>1 DEF IsTable, IndexKeys
<1>4. \A e, f \in OwnIndexes(r, c) : e.at = f.at => e = f
  <2> SUFFICES ASSUME NEW e \in OwnIndexes(r, c), NEW f \in OwnIndexes(r, c), e.at = f.at
               PROVE  e = f
    OBVIOUS
  <2>1. PICK k \in DOMAIN w.newIndexes :
               /\ k[1] = c /\ e.at = PlaceOf(w.newIndexes[k].name)
               /\ e = Entry(k[2], w.newIndexes[k].name, w.newIndexes[k].metadata)
    BY <1>1
  <2>2. PICK l \in DOMAIN w.newIndexes :
               /\ l[1] = c /\ f.at = PlaceOf(w.newIndexes[l].name)
               /\ f = Entry(l[2], w.newIndexes[l].name, w.newIndexes[l].metadata)
    BY <1>1
  <2>3. w.newIndexes[k].name = w.newIndexes[l].name
    BY <2>1, <2>2, SamePlace
  <2>4. k = l
    BY <2>1, <2>2, <2>3 DEF NewNamed
  <2> QED BY <2>1, <2>2, <2>4
<1>5. \A e, f \in StoredIndexes(r, c) : e.at = f.at => e = f
  <2> SUFFICES ASSUME NEW e \in StoredIndexes(r, c), NEW f \in StoredIndexes(r, c), e.at = f.at
               PROVE  e = f
    OBVIOUS
  <2>1. PICK k \in DOMAIN s.indexes :
               /\ k[1] = c /\ e.at = PlaceOf(k[2])
               /\ e = Entry(s.indexes[k].id, k[2], s.indexes[k].metadata)
    BY <1>2
  <2>2. PICK l \in DOMAIN s.indexes :
               /\ l[1] = c /\ f.at = PlaceOf(l[2])
               /\ f = Entry(s.indexes[l].id, l[2], s.indexes[l].metadata)
    BY <1>2
  <2>3. k[2] = l[2]
    BY <2>1, <2>2, SamePlace
  <2>4. k = l
    BY <1>3, <2>1, <2>2, <2>3
  <2> QED BY <2>1, <2>2, <2>4
<1>6. \A f \in StoredIndexes(r, c), o \in OwnIndexes(r, c) : f.at # o.at
  <2> SUFFICES ASSUME NEW f \in StoredIndexes(r, c), NEW o \in OwnIndexes(r, c), f.at = o.at
               PROVE  FALSE
    OBVIOUS
  <2>1. PICK k \in DOMAIN s.indexes : k[1] = c /\ f.at = PlaceOf(k[2])
    BY <1>2
  <2>2. PICK l \in DOMAIN w.newIndexes : l[1] = c /\ o.at = PlaceOf(w.newIndexes[l].name)
    BY <1>1
  <2>3. k[2] = w.newIndexes[l].name
    BY <2>1, <2>2, SamePlace
  <2>4. k = <<l[1], w.newIndexes[l].name>>
    BY <1>3, <2>1, <2>2, <2>3
  <2> QED BY <2>4 DEF NewNamed
<1> QED BY <1>4, <1>5, <1>6, IndexEntries DEF Listable

\* The names of a collection's indexes, and of no others, are found.
LEMMA IndexNamesFound ==
  ASSUME NEW ts, NEW r, WellTyped(r.snapshot, ts), NEW ids, NEW indexIds,
         Sound(r.writes, ids, indexIds), NewNamed(r.writes, r.snapshot, ids), NEW c,
         NEW f \in OwnIndexes(r, c) \cup StoredIndexes(r, c)
  PROVE  \E e \in Indexes(r, c) : e.at = f.at
<1> DEFINE own == OwnIndexes(r, c)
           stored == StoredIndexes(r, c)
           base == {e \in stored : ~\E o \in own : o.at = e.at}
           U == own \cup stored
           cursor == IndexCatalogCursor(r, c, "Forward", FromFirst)
           out == Returned(cursor)
           listing == Listed(U, "Forward", FromFirst)
<1>1. /\ Listable(own) /\ Listable(stored) /\ \A e \in stored, o \in own : e.at # o.at
  BY IndexesAreNamed
<1>2. base = stored
  BY <1>1
<1>3. cursor = Opened("Indexes", "Forward", FromFirst,
                      From(base, "Forward", FromFirst), From(own, "Forward", FromFirst))
  BY DEF IndexCatalogCursor
<1>4. Indexes(r, c) = {out[i] : i \in DOMAIN out}
  BY DEF Indexes
<1> HIDE DEF own, stored, base, cursor, out
<1>5. Listable(U)
  <2>1. U \in SUBSET Entries /\ IsFiniteSet(U)
    BY <1>1, FS_Union DEF Listable
  <2>2. \A e, g \in U : e.at = g.at => e = g
    BY <1>1 DEF Listable
  <2> HIDE DEF U
  <2> QED BY <2>1, <2>2 DEF Listable
<1>6. Covering(U, stored, own)
  BY <1>1 DEF Covering
<1>7. FromFirst \in StartAt(Place) /\ "Forward" \in Direction
      /\ \A p : Accepts("Forward", FromFirst, p) /\ FromStart("Forward", FromFirst, p)
  BY DEF FromFirst, StartAt, Direction, Accepts, FromStart
<1> HIDE DEF U
<1>8. SameListing(out, listing)
  <2>1. cursor = Opened("Indexes", "Forward", FromFirst,
                        From(stored, "Forward", FromFirst), From(own, "Forward", FromFirst))
    BY <1>2, <1>3
  <2>2. SameListing(Returned(cursor), Listed(U, "Forward", FromFirst))
    BY <1>1, <1>5, <1>6, <1>7, <2>1, MergedListing
  <2> QED BY <2>2 DEF out
<1>9. Streams(From(U, "Forward", FromFirst), U, "Forward", FromFirst)
  BY <1>5, StreamIsListed
<1> DEFINE l == From(U, "Forward", FromFirst)
<1>10. listing = [i \in DOMAIN l |-> <<l[i].at, l[i].metadata>>]
  <2>1. {e \in U : FromStart("Forward", FromFirst, e.at)}
          = {e \in U : Accepts("Forward", FromFirst, e.at)}
    BY <1>7
  <2> QED BY <2>1 DEF Listed, From
<1>11. f \in U
  BY DEF U, own, stored
<1> HIDE DEF l, listing
<1>12. PICK i \in 1 .. Len(l) : l[i] = f
  BY <1>7, <1>9, <1>11 DEF Streams, l
<1>13. i \in DOMAIN l
  <2>1. l \in Seq(U)
    BY <1>9 DEF Streams, l
  <2> QED BY <1>12, <2>1
<1>14. i \in DOMAIN out /\ <<out[i].at, out[i].metadata>> = <<f.at, f.metadata>>
  BY <1>8, <1>10, <1>12, <1>13 DEF SameListing
<1> QED BY <1>4, <1>14

-----------------------------------------------------------------------------
(* New names stay new *)

\* Transaction r began in a store that nothing was orphaned in, and the names of what it
\* creates are not among those that it sees.
Tidy(r) == Owned(r.snapshot) /\ NewNamed(r.writes, r.snapshot, ShownIds(r))
TidyInv == CatalogInv /\ \A t \in Tx : Tidy(tx[t])

\* One write more, whose name is not among those of the writes nor of the store.
LEMMA NamesStayNew ==
  ASSUME NEW w, NEW ids, NEW indexIds, Sound(w, ids, indexIds), NEW s, NewNamed(w, s, ids)
  PROVE  /\ \A temp, name :
              /\ \A c \in DOMAIN w.newCollections : w.newCollections[c] # name
              /\ \A n \in DOMAIN s.ids : s.ids[n] \in ids => name # n
              => NewNamed([w EXCEPT !.newCollections = Inserted(@, temp, name)], s, ids)
         /\ \A c, temp, index :
              /\ \A k \in DOMAIN w.newIndexes : k[1] = c => w.newIndexes[k].name # index.name
              /\ <<c, index.name>> \notin DOMAIN s.indexes
              => NewNamed([w EXCEPT !.newIndexes = Inserted(@, <<c, temp>>, index)], s, ids)
         /\ \A v : v.newCollections = w.newCollections /\ v.newIndexes = w.newIndexes
                     => NewNamed(v, s, ids)
<1>1. w \in [newCollections : {w.newCollections}, newIndexes : {w.newIndexes}, docs : {w.docs},
             entries : {w.entries}, metadata : {w.metadata}]
  BY DEF Sound
<1>2. ASSUME NEW temp, NEW name,
             \A c \in DOMAIN w.newCollections : w.newCollections[c] # name,
             \A n \in DOMAIN s.ids : s.ids[n] \in ids => name # n
      PROVE  NewNamed([w EXCEPT !.newCollections = Inserted(@, temp, name)], s, ids)
  <2> DEFINE table == Inserted(w.newCollections, temp, name)
             v == [w EXCEPT !.newCollections = table]
  <2>1. v.newCollections = table /\ v.newIndexes = w.newIndexes
    BY <1>1
  <2>2. /\ DOMAIN table = DOMAIN w.newCollections \cup {temp} /\ table[temp] = name
        /\ \A c \in DOMAIN w.newCollections : c # temp => table[c] = w.newCollections[c]
    <3>1. IsInserted(table, w.newCollections, temp, name)
      BY InsertedRow
    <3> HIDE DEF table
    <3> QED BY <3>1 DEF IsInserted
  <2> HIDE DEF v, table
  <2>3. \A c, d \in DOMAIN table : table[c] = table[d] => c = d
    BY <1>2, <2>2 DEF NewNamed
  <2>4. \A c \in DOMAIN table, n \in DOMAIN s.ids : s.ids[n] \in ids => table[c] # n
    BY <1>2, <2>2 DEF NewNamed
  <2>5. NewNamed(v, s, ids)
    BY <2>1, <2>3, <2>4 DEF NewNamed
  <2> QED BY <2>5 DEF v, table
<1>3. ASSUME NEW c, NEW temp, NEW index,
             \A k \in DOMAIN w.newIndexes : k[1] = c => w.newIndexes[k].name # index.name,
             <<c, index.name>> \notin DOMAIN s.indexes
      PROVE  NewNamed([w EXCEPT !.newIndexes = Inserted(@, <<c, temp>>, index)], s, ids)
  <2> DEFINE key == <<c, temp>>
             table == Inserted(w.newIndexes, key, index)
             v == [w EXCEPT !.newIndexes = table]
  <2>1. v.newIndexes = table /\ v.newCollections = w.newCollections
    BY <1>1
  <2>2. key[1] = c
    OBVIOUS
  <2> HIDE DEF key
  <2>3. /\ DOMAIN table = DOMAIN w.newIndexes \cup {key} /\ table[key] = index
        /\ \A k \in DOMAIN w.newIndexes : k # key => table[k] = w.newIndexes[k]
    <3>1. IsInserted(table, w.newIndexes, key, index)
      BY InsertedRow
    <3> HIDE DEF table
    <3> QED BY <3>1 DEF IsInserted
  <2> HIDE DEF v, table
  <2>4. \A k, l \in DOMAIN table : k[1] = l[1] /\ table[k].name = table[l].name => k = l
    <3> SUFFICES ASSUME NEW k \in DOMAIN table, NEW l \in DOMAIN table,
                        k[1] = l[1], table[k].name = table[l].name
                 PROVE  k = l
      OBVIOUS
    <3>1. CASE k # key /\ l # key
      BY <2>3, <3>1 DEF NewNamed
    <3>2. CASE k = key /\ l # key
      BY <1>3, <2>2, <2>3, <3>2
    <3>3. CASE k # key /\ l = key
      BY <1>3, <2>2, <2>3, <3>3
    <3> QED BY <3>1, <3>2, <3>3
  <2>5. \A k \in DOMAIN table : <<k[1], table[k].name>> \notin DOMAIN s.indexes
    BY <1>3, <2>2, <2>3 DEF NewNamed
  <2>6. NewNamed(v, s, ids)
    BY <2>1, <2>4, <2>5 DEF NewNamed
  <2> QED BY <2>6 DEF v, table, key
<1>4. \A v : v.newCollections = w.newCollections /\ v.newIndexes = w.newIndexes
               => NewNamed(v, s, ids)
  BY DEF NewNamed
<1> QED BY <1>2, <1>3, <1>4

\* A name that finds no collection is not among those that the transaction sees.
LEMMA NotFoundIsNew ==
  ASSUME NEW ts, NEW r, WellTyped(r.snapshot, ts), NewCollections(r.writes), NEW name,
         Collection(r, name) = NoId
  PROVE  /\ \A c \in DOMAIN r.writes.newCollections : r.writes.newCollections[c] # name
         /\ \A n \in DOMAIN r.snapshot.ids : r.snapshot.ids[n] \in ShownIds(r) => name # n
<1> DEFINE new == {c \in New(r) : r.writes.newCollections[c] = name}
           s == r.snapshot
<1>1. new \in SUBSET Temporary /\ IsFiniteSet(new)
  <2>1. new \subseteq New(r) /\ New(r) \subseteq Temporary /\ IsFiniteSet(New(r))
    BY DEF NewCollections, IsTable, New
  <2> HIDE DEF new
  <2> QED BY <2>1, FS_Subset
<1>2. Collection(r, name) =
        IF new # {} THEN Min(new)
        ELSE IF name \in DOMAIN s.ids /\ Shown(r, s.ids[name]) THEN s.ids[name] ELSE NoId
  BY DEF Collection
<1> HIDE DEF new
<1>3. new = {}
  <2> SUFFICES ASSUME new # {}
               PROVE  FALSE
    OBVIOUS
  <2>1. new \in SUBSET Int
    BY <1>1 DEF Temporary
  <2>2. Min(new) \in new
    BY <1>1, <2>1, IdsHaveEnds
  <2> QED BY <1>1, <1>2, <2>2 DEF Temporary, NoId
<1>4. ~(name \in DOMAIN s.ids /\ Shown(r, s.ids[name]))
  <2> SUFFICES ASSUME name \in DOMAIN s.ids, Shown(r, s.ids[name])
               PROVE  FALSE
    OBVIOUS
  <2>1. s.ids[name] = NoId
    BY <1>2, <1>3
  <2> HIDE DEF s
  <2>2. s.ids[name] \in 1 .. s.lastCollection /\ s.lastCollection \in Nat
    BY IdsArePositive DEF s
  <2> QED BY <2>1, <2>2 DEF NoId
<1> QED BY <1>3, <1>4 DEF new, New, ShownIds

\* A name that is not among the indexes that the transaction sees is new.
LEMMA NoIndexIsNew ==
  ASSUME NEW ts, NEW r, WellTyped(r.snapshot, ts), NEW ids, NEW indexIds,
         Sound(r.writes, ids, indexIds), NewNamed(r.writes, r.snapshot, ids), NEW c,
         NEW name, \A e \in Indexes(r, c) : e.at # PlaceOf(name)
  PROVE  /\ \A k \in DOMAIN r.writes.newIndexes :
              k[1] = c => r.writes.newIndexes[k].name # name
         /\ <<c, name>> \notin DOMAIN r.snapshot.indexes
<1> DEFINE w == r.writes
           s == r.snapshot
<1>1. ASSUME NEW f \in OwnIndexes(r, c) \cup StoredIndexes(r, c)
      PROVE  f.at # PlaceOf(name)
  <2>1. PICK e \in Indexes(r, c) : e.at = f.at
    BY IndexNamesFound
  <2> QED BY <2>1
<1>2. ASSUME NEW k \in DOMAIN w.newIndexes, k[1] = c
      PROVE  w.newIndexes[k].name # name
  <2> DEFINE f == Entry(k[2], w.newIndexes[k].name, w.newIndexes[k].metadata)
  <2>1. f \in OwnIndexes(r, c)
    BY <1>2 DEF OwnIndexes
  <2>2. f.at = PlaceOf(w.newIndexes[k].name)
    BY DEF Entry
  <2> QED BY <1>1, <2>1, <2>2
<1>3. <<c, name>> \notin DOMAIN s.indexes
  <2> SUFFICES ASSUME <<c, name>> \in DOMAIN s.indexes
               PROVE  FALSE
    OBVIOUS
  <2> DEFINE k == <<c, name>>
             f == Entry(s.indexes[k].id, name, s.indexes[k].metadata)
  <2>1. k[1] = c /\ k[2] = name
    OBVIOUS
  <2>2. f \in StoredIndexes(r, c)
    BY <2>1 DEF StoredIndexes
  <2>3. f.at = PlaceOf(name)
    BY DEF Entry
  <2> QED BY <1>1, <2>2, <2>3
<1> QED BY <1>2, <1>3

\* A transaction stays tidy with other tidy writes.
LEMMA RecordStaysTidy ==
  ASSUME TidyInv, NEW t \in Tx, NEW writes, NEW lastTemp, Record(t, writes, lastTemp),
         NewNamed(writes, tx[t].snapshot, ShownIds(tx[t]))
  PROVE  \A u \in Tx : Tidy(tx'[u])
<1> DEFINE r == tx[t]
           q == [r EXCEPT !.writes = writes, !.lastTemp = lastTemp]
<1>1. r \in [phase : {r.phase}, snapshot : {r.snapshot}, ts : Nat, writes : {r.writes},
             lastTemp : Int]
  BY DEF TidyInv, CatalogInv, Sane
<1>2. tx' = [tx EXCEPT ![t] = q] /\ tx = [u \in Tx |-> tx[u]]
  BY DEF Record, TidyInv, CatalogInv
<1> HIDE DEF r
<1>3. q.snapshot = r.snapshot /\ q.ts = r.ts /\ q.writes = writes
  BY <1>1
<1> HIDE DEF q
<1>4. ShownIds(q) = ShownIds(r)
  BY <1>3 DEF ShownIds, Shown
<1>5. Tidy(q)
  BY <1>3, <1>4 DEF Tidy, TidyInv, r
<1>6. \A u \in Tx : tx'[u] = IF u = t THEN q ELSE tx[u]
  BY <1>2
<1> QED BY <1>5, <1>6 DEF TidyInv

\* A transaction that has written nothing is tidy.
LEMMA FreshIsTidy ==
  ASSUME NEW r, Fresh(r), Owned(r.snapshot)
  PROVE  Tidy(r)
<1>1. r.writes = NoWrites
  BY DEF Fresh
<1>2. /\ NoWrites.newCollections = NoTable /\ NoWrites.newIndexes = NoTable
      /\ DOMAIN NoTable = {}
  BY DEF NoWrites, NoTable
<1> QED BY <1>1, <1>2 DEF Tidy, NewNamed

\* Every step keeps the new names new.
LEMMA TidyStep == TidyInv /\ [Next]_vars => TidyInv'
<1> SUFFICES ASSUME TidyInv, [Next]_vars
             PROVE  \A t \in Tx : Tidy(tx'[t])
  <2>1. TidyInv /\ [Next]_vars => CatalogInv'
    BY CatalogStep DEF TidyInv
  <2> QED BY <2>1 DEF TidyInv
<1>1. /\ Owned(store) /\ tx = [t \in Tx |-> tx[t]]
      /\ \A t \in Tx : Tidy(tx[t]) /\ Sane(tx[t], store, lastTs)
  BY DEF TidyInv, CatalogInv
<1>2. \A t \in Tx : /\ WellTyped(tx[t].snapshot, lastTs)
                    /\ Sound(tx[t].writes, ShownIds(tx[t]), IndexIds(tx[t].snapshot))
                    /\ NewCollections(tx[t].writes)
                    /\ NewNamed(tx[t].writes, tx[t].snapshot, ShownIds(tx[t]))
  BY <1>1 DEF Sane, Sound, Catalogued, Tidy
<1>3. ASSUME NEW t \in Tx, NEW q, Tidy(q), tx' = [tx EXCEPT ![t] = q]
      PROVE  \A u \in Tx : Tidy(tx'[u])
  <2>1. \A u \in Tx : tx'[u] = IF u = t THEN q ELSE tx[u]
    BY <1>1, <1>3
  <2> QED BY <1>1, <1>3, <2>1
<1>4. ASSUME NEW t \in Tx, NEW v, NEW lastTemp, Record(t, v, lastTemp),
             v.newCollections = tx[t].writes.newCollections,
             v.newIndexes = tx[t].writes.newIndexes
      PROVE  \A u \in Tx : Tidy(tx'[u])
  <2>1. NewNamed(v, tx[t].snapshot, ShownIds(tx[t]))
    BY <1>2, <1>4, NamesStayNew
  <2> QED BY <1>4, <2>1, RecordStaysTidy
<1>5. ASSUME NEW t \in Tx, Begin(t)
      PROVE  \A u \in Tx : Tidy(tx'[u])
  <2> DEFINE q == [NoTx EXCEPT !.phase = "open", !.snapshot = store, !.ts = visible]
  <2>1. Fresh(q) /\ q.snapshot = store
    BY DEF NoTx, Fresh, TidyInv, CatalogInv
  <2>2. tx' = [tx EXCEPT ![t] = q]
    BY <1>5 DEF Begin
  <2> HIDE DEF q
  <2>3. Tidy(q)
    BY <1>1, <2>1, FreshIsTidy
  <2> QED BY <1>3, <2>2, <2>3
<1>6. ASSUME NEW t \in Tx, NEW name \in Name, NewCollection(t, name)
      PROVE  \A u \in Tx : Tidy(tx'[u])
  <2> DEFINE r == tx[t]
             writes == [r.writes EXCEPT !.newCollections = Inserted(@, NextTemp(t), name)]
  <2>1. Record(t, writes, NextTemp(t)) /\ Collection(r, name) = NoId
    BY <1>6 DEF NewCollection
  <2>2. /\ WellTyped(r.snapshot, lastTs) /\ NewCollections(r.writes)
        /\ Sound(r.writes, ShownIds(r), IndexIds(r.snapshot))
        /\ NewNamed(r.writes, r.snapshot, ShownIds(r))
    BY <1>2
  <2> HIDE DEF r
  <2>3. /\ \A c \in DOMAIN r.writes.newCollections : r.writes.newCollections[c] # name
        /\ \A n \in DOMAIN r.snapshot.ids : r.snapshot.ids[n] \in ShownIds(r) => name # n
    BY <2>1, <2>2, NotFoundIsNew
  <2>4. NewNamed(writes, r.snapshot, ShownIds(r))
    BY <2>2, <2>3, NamesStayNew
  <2> HIDE DEF writes
  <2> QED BY <2>1, <2>4, RecordStaysTidy DEF r
<1>7. ASSUME NEW t \in Tx, NEW collection \in Name, NEW name \in Name, NEW metadata \in Metadata,
             NewIndex(t, collection, name, metadata)
      PROVE  \A u \in Tx : Tidy(tx'[u])
  <2> DEFINE r == tx[t]
             c == Collection(r, collection)
             index == [name |-> name, metadata |-> metadata]
             writes == [r.writes EXCEPT !.newIndexes = Inserted(@, <<c, NextTemp(t)>>, index)]
  <2>1. Record(t, writes, NextTemp(t)) /\ \A e \in Indexes(r, c) : e.at # PlaceOf(name)
    BY <1>7 DEF NewIndex
  <2>2. /\ WellTyped(r.snapshot, lastTs)
        /\ Sound(r.writes, ShownIds(r), IndexIds(r.snapshot))
        /\ NewNamed(r.writes, r.snapshot, ShownIds(r))
    BY <1>2
  <2>3. index.name = name
    OBVIOUS
  <2> HIDE DEF r, c, index
  <2>4. /\ \A k \in DOMAIN r.writes.newIndexes :
             k[1] = c => r.writes.newIndexes[k].name # index.name
        /\ <<c, index.name>> \notin DOMAIN r.snapshot.indexes
    BY <2>1, <2>2, <2>3, NoIndexIsNew
  <2>5. NewNamed(writes, r.snapshot, ShownIds(r))
    BY <2>2, <2>4, NamesStayNew
  <2> HIDE DEF writes
  <2> QED BY <2>1, <2>5, RecordStaysTidy DEF r
<1>8. \A t \in Tx : LET w == tx[t].writes
                    IN w \in [newCollections : {w.newCollections}, newIndexes : {w.newIndexes},
                              docs : {w.docs}, entries : {w.entries}, metadata : {w.metadata}]
  BY <1>2 DEF Sound
<1>9. ASSUME NEW t \in Tx, NEW collection \in Name, NEW doc \in Doc,
             WriteDocument(t, collection, doc)
      PROVE  \A u \in Tx : Tidy(tx'[u])
  <2> DEFINE c == Collection(tx[t], collection)
             v == [tx[t].writes EXCEPT !.docs = Inserted(@, <<c, doc>>, t)]
  <2>1. Record(t, v, tx[t].lastTemp)
    BY <1>9 DEF WriteDocument
  <2> HIDE DEF c
  <2>2. v.newCollections = tx[t].writes.newCollections /\ v.newIndexes = tx[t].writes.newIndexes
    BY <1>8
  <2> HIDE DEF v
  <2> QED BY <1>4, <2>1, <2>2
<1>10. ASSUME NEW t \in Tx, NEW collection \in Name, NEW name \in Name, NEW doc \in Doc,
              NEW op \in {"Put", "Deleted"}, WriteIndexEntry(t, collection, name, doc, op)
       PROVE  \A u \in Tx : Tidy(tx'[u])
  <2> DEFINE c == Collection(tx[t], collection)
  <2>1. PICK e \in Indexes(tx[t], c) :
          Record(t, [tx[t].writes EXCEPT !.entries = Inserted(@, <<c, e.id, doc>>, op)],
                 tx[t].lastTemp)
    BY <1>10 DEF WriteIndexEntry
  <2> DEFINE v == [tx[t].writes EXCEPT !.entries = Inserted(@, <<c, e.id, doc>>, op)]
  <2>2. Record(t, v, tx[t].lastTemp)
    BY <2>1
  <2> HIDE DEF c
  <2>3. v.newCollections = tx[t].writes.newCollections /\ v.newIndexes = tx[t].writes.newIndexes
    BY <1>8
  <2> HIDE DEF v
  <2> QED BY <1>4, <2>2, <2>3
<1>11. ASSUME NEW t \in Tx, NEW collection \in Name, NEW metadata \in Metadata,
              UpdateCollectionMetadata(t, collection, metadata)
       PROVE  \A u \in Tx : Tidy(tx'[u])
  <2> DEFINE c == Collection(tx[t], collection)
             v == [tx[t].writes EXCEPT !.metadata = Inserted(@, c, metadata)]
  <2>1. Record(t, v, tx[t].lastTemp)
    BY <1>11 DEF UpdateCollectionMetadata
  <2> HIDE DEF c
  <2>2. v.newCollections = tx[t].writes.newCollections /\ v.newIndexes = tx[t].writes.newIndexes
    BY <1>8
  <2> HIDE DEF v
  <2> QED BY <1>4, <2>1, <2>2
<1>12. ASSUME NEW t \in Tx, Commit(t)
       PROVE  \A u \in Tx : Tidy(tx'[u])
  <2> DEFINE q == [NoTx EXCEPT !.phase = "done"]
  <2>1. Fresh(q) /\ q.snapshot = EmptyStore
    BY DEF NoTx, Fresh
  <2>2. tx' = [tx EXCEPT ![t] = q]
    BY <1>12 DEF Commit
  <2>3. Owned(EmptyStore)
    BY DEF Owned, EmptyStore, NoTable
  <2> HIDE DEF q
  <2>4. Tidy(q)
    BY <2>1, <2>3, FreshIsTidy
  <2> QED BY <1>3, <2>2, <2>4
<1>13. CASE Publish \/ UNCHANGED vars
  <2>1. tx' = tx
    BY <1>13 DEF Publish, vars
  <2> QED BY <1>1, <2>1
<1> QED BY <1>5, <1>6, <1>7, <1>9, <1>10, <1>11, <1>12, <1>13 DEF Next

\* They are new in the beginning.
LEMMA TidyInit == Init => TidyInv
<1> SUFFICES ASSUME Init
             PROVE  TidyInv
  OBVIOUS
<1>1. tx = [t \in Tx |-> NoTx]
  BY DEF Init
<1>2. Fresh(NoTx) /\ NoTx.snapshot = EmptyStore /\ Owned(EmptyStore)
  BY DEF NoTx, Fresh, Owned, EmptyStore, NoTable
<1>3. Tidy(NoTx)
  BY <1>2, FreshIsTidy
<1> QED BY <1>1, <1>3, CatalogInit DEF TidyInv

\* The new names stay new.
LEMMA NewNamesHold == Spec => []TidyInv
<1> QED BY TidyInit, TidyStep, PTL DEF Spec

-----------------------------------------------------------------------------
(* The rows that put writes *)

\* c is s with a row at version v for every collection that has been created in it.
Grown(c, s, v) ==
  /\ DOMAIN s.rows \subseteq DOMAIN c.rows
  /\ \A k \in DOMAIN s.rows : c.rows[k] = s.rows[k]
  /\ \A k \in DOMAIN c.rows : k \notin DOMAIN s.rows =>
       k[2] = v /\ c.rows[k].metadata = Empty /\ k[1] > s.lastCollection
  /\ s.lastCollection <= c.lastCollection
  /\ \A n \in DOMAIN c.ids : n \notin DOMAIN s.ids =>
       c.ids[n] > s.lastCollection /\ <<c.ids[n], v>> \in DOMAIN c.rows

\* The ids of a catalog's rows.
LEMMA RowIds ==
  ASSUME NEW ts, NEW s, Catalogued(s, ts)
  PROVE  /\ s.lastCollection \in Nat
         /\ \A k \in DOMAIN s.rows : k[1] \in 1 .. s.lastCollection /\ k[2] \in 0 .. ts
                                     /\ k = <<k[1], k[2]>>
<1>1. WellTyped(s, ts)
  BY DEF Catalogued
<1>2. IsTable(s.rows, RowKeys(ts), Rows)
  BY <1>1, FieldTypes
<1>3. s.lastCollection \in Nat /\ \A n \in DOMAIN s.ids : s.ids[n] \in 1 .. s.lastCollection
  BY <1>1, IdsArePositive
<1>4. \A k \in DOMAIN s.rows : k[1] \in 1 .. s.lastCollection
  BY <1>3 DEF Catalogued
<1>5. \A k \in DOMAIN s.rows : k[2] \in 0 .. ts /\ k = <<k[1], k[2]>>
  BY <1>2 DEF IsTable, RowKeys
<1> QED BY <1>3, <1>4, <1>5

\* One collection more.
LEMMA CreatedGrows ==
  ASSUME NEW ts \in Nat, NEW s, Catalogued(s, ts), NEW v \in 0 .. ts, NEW t, Catalogued(t, ts),
         Grown(t, s, v), NEW name \in Name
  PROVE  Grown(CreateCollection(t, name, v), s, v)
<1>1. CASE name \in DOMAIN t.ids
  <2>1. CreateCollection(t, name, v) = t
    BY <1>1 DEF CreateCollection
  <2> QED BY <2>1
<1>2. CASE name \notin DOMAIN t.ids
  <2> DEFINE id == t.lastCollection + 1
             key == <<id, v>>
             row == [name |-> name, metadata |-> Empty]
             ids == Inserted(t.ids, name, id)
             rows == Inserted(t.rows, key, row)
             c == CreateCollection(t, name, v)
  <2>1. c = [t EXCEPT !.lastCollection = id, !.ids = ids, !.rows = rows]
    BY <1>2 DEF CreateCollection
  <2>2. WellTyped(t, ts)
    BY DEF Catalogued
  <2>3. s.lastCollection \in Nat /\ t.lastCollection \in Nat
        /\ \A k \in DOMAIN t.rows : k[1] \in 1 .. t.lastCollection
    BY RowIds
  <2>4. s.lastCollection <= t.lastCollection
    BY DEF Grown
  <2>5. id > s.lastCollection /\ s.lastCollection <= id /\ id > t.lastCollection
    BY <2>3, <2>4
  <2>6. key[1] = id /\ key[2] = v /\ row.metadata = Empty
    OBVIOUS
  <2>7. IsInserted(ids, t.ids, name, id) /\ IsInserted(rows, t.rows, key, row)
    BY InsertedRow
  <2> HIDE DEF c, ids, rows, row
  <2>8. c.lastCollection = id /\ c.ids = ids /\ c.rows = rows
    BY <2>1, <2>2, FieldsChange
  <2>9. key \notin DOMAIN t.rows
    <3> SUFFICES ASSUME key \in DOMAIN t.rows
                 PROVE  FALSE
      OBVIOUS
    <3>1. id \in 1 .. t.lastCollection
      BY <2>3, <2>6
    <3> QED BY <2>3, <3>1
  <2>10. /\ DOMAIN ids = DOMAIN t.ids \cup {name} /\ ids[name] = id
         /\ \A n \in DOMAIN t.ids : ids[n] = t.ids[n]
    BY <1>2, <2>7 DEF IsInserted
  <2>11. <<id, v>> \in DOMAIN rows
    BY <2>7 DEF IsInserted
  <2> HIDE DEF key, id
  <2>12. /\ DOMAIN rows = DOMAIN t.rows \cup {key} /\ rows[key] = row
         /\ \A k \in DOMAIN t.rows : rows[k] = t.rows[k]
    BY <2>7, <2>9 DEF IsInserted
  <2>13. /\ DOMAIN s.rows \subseteq DOMAIN rows
         /\ \A k \in DOMAIN s.rows : rows[k] = s.rows[k]
    BY <2>12 DEF Grown
  <2>14. \A k \in DOMAIN rows : k \notin DOMAIN s.rows =>
           k[2] = v /\ rows[k].metadata = Empty /\ k[1] > s.lastCollection
    BY <2>5, <2>6, <2>12 DEF Grown
  <2>15. \A n \in DOMAIN ids : n \notin DOMAIN s.ids =>
           ids[n] > s.lastCollection /\ <<ids[n], v>> \in DOMAIN rows
    BY <2>5, <2>10, <2>11, <2>12 DEF Grown
  <2>16. Grown(c, s, v)
    BY <2>5, <2>8, <2>13, <2>14, <2>15 DEF Grown
  <2> QED BY <2>16 DEF c
<1> QED BY <1>1, <1>2

\* What collections are created, and their rows.
LEMMA CollectionsGrow ==
  ASSUME NEW ts \in Nat, NEW s, Catalogued(s, ts), NEW w, NewCollections(w), NEW v \in 0 .. ts
  PROVE  Grown(CollectionsCreated(s, w, v), s, v)
<1> DEFINE X == {t \in Keyed : Catalogued(t, ts) /\ Grown(t, s, v)}
           S == DOMAIN w.newCollections
           L == InIdOrder(S)
<1>1. S \in SUBSET Int /\ IsFiniteSet(S) /\ \A c \in S : w.newCollections[c] \in Name
  BY DEF NewCollections, IsTable, Temporary
<1>2. L \in Seq(S) /\ Len(L) \in Nat /\ \A i \in 1 .. Len(L) : L[i] \in S
  <2>1. Lists(L, S, IdPairs(S))
    <3> HIDE DEF S
    <3> QED BY <1>1, IdsAreListed
  <2> HIDE DEF S, L
  <2> QED BY <2>1, ListType
<1>3. \A t \in X : Catalogued(t, ts) /\ Grown(t, s, v)
  OBVIOUS
<1>4. \A t : Catalogued(t, ts) /\ Grown(t, s, v) => t \in X
  BY StoresAreKeyed DEF Catalogued
<1> HIDE DEF X, L
<1>5. s \in X
  <2>1. s.lastCollection \in Nat /\ \A k : k \in DOMAIN s.rows => k \in DOMAIN s.rows
    BY RowIds
  <2>2. Grown(s, s, v)
    BY <2>1 DEF Grown
  <2> QED BY <1>4, <2>2
<1>6. CollectionsStay(X, L, s, w, v)
  <2> SUFFICES ASSUME NEW x \in X, NEW i \in 1 .. Len(L)
               PROVE  CreateCollection(x, w.newCollections[L[i]], v) \in X
    BY DEF CollectionsStay
  <2> DEFINE m == w.newCollections[L[i]]
  <2>1. m \in Name /\ Catalogued(x, ts) /\ Grown(x, s, v)
    BY <1>1, <1>2, <1>3
  <2> HIDE DEF m
  <2>2. Catalogued(CreateCollection(x, m, v), ts)
    BY <2>1, CreatedCollection
  <2>3. Grown(CreateCollection(x, m, v), s, v)
    BY <2>1, CreatedGrows
  <2> QED BY <1>4, <2>2, <2>3 DEF m
<1>7. CollectionsEnd(X, L, s, w, v)
  BY <1>2, <1>5, <1>6, CollectionsWalk DEF L
<1>8. PICK walk \in [0 .. Len(L) -> X] : walk[Len(L)] = CollectionsCreated(s, w, v)
  BY <1>7 DEF CollectionsEnd
<1>9. Len(L) \in 0 .. Len(L)
  BY <1>2
<1> QED BY <1>3, <1>8, <1>9

\* t is s with indexes of the write set w, under their names and with their metadata.
IndexGrown(t, s, w, new) ==
  /\ DOMAIN s.indexes \subseteq DOMAIN t.indexes
  /\ \A k \in DOMAIN s.indexes : t.indexes[k] = s.indexes[k]
  /\ \A key \in DOMAIN t.indexes : key \notin DOMAIN s.indexes =>
       \E k \in DOMAIN w.newIndexes :
         key = KeyFor(w, new, k) /\ t.indexes[key].metadata = w.newIndexes[k].metadata

\* What indexes are created, and their rows.
LEMMA IndexesGrow ==
  ASSUME NEW ts \in Nat, NEW s, Catalogued(s, ts), NEW cols \in SUBSET Int, NEW w,
         NewIndexes(w, cols), NEW new, \A c \in cols : Resolve(c, new) \in CollectionIds(s)
  PROVE  IndexGrown(IndexesCreated(s, w, new), s, w, new)
<1> DEFINE X == {t \in Keyed : Catalogued(t, ts) /\ IndexGrown(t, s, w, new)}
           S == DOMAIN w.newIndexes
           L == NewIndexesInOrder(w)
<1>1. /\ L \in Seq(S) /\ Len(L) \in Nat /\ \A i \in 1 .. Len(L) : L[i] \in S
      /\ \A k \in S : k[1] \in cols /\ w.newIndexes[k] \in Rows
  <2>1. L = NewIndexesInOrder(w)
    OBVIOUS
  <2> HIDE DEF L
  <2>2. IndexList(L, w, cols)
    BY <2>1, NewIndexType
  <2> QED BY <2>2 DEF IndexList
<1>2. \A t \in X : Catalogued(t, ts) /\ IndexGrown(t, s, w, new)
  OBVIOUS
<1>3. \A t : Catalogued(t, ts) /\ IndexGrown(t, s, w, new) => t \in X
  BY StoresAreKeyed DEF Catalogued
<1>4. \A k \in S : Resolve(k[1], new) \in Nat
  <2>1. CollectionIds(s) \subseteq Nat
    <3>1. WellTyped(s, ts)
      BY DEF Catalogued
    <3>2. CollectionIds(s) \subseteq 1 .. s.lastCollection
      BY <3>1, IdsArePositive
    <3> QED BY <3>2
  <2> HIDE DEF S
  <2> QED BY <1>1, <2>1
<1> HIDE DEF X, L
<1>5. s \in X
  <2>1. IndexGrown(s, s, w, new)
    BY DEF IndexGrown
  <2> QED BY <1>3, <2>1
<1>6. IndexesStay(X, L, s, w, new)
  <2> SUFFICES ASSUME NEW x \in X, NEW i \in 1 .. Len(L)
               PROVE  CreateIndex(x, Resolve(L[i][1], new), w.newIndexes[L[i]]) \in X
    BY DEF IndexesStay
  <2> DEFINE k == L[i]
             id == Resolve(k[1], new)
             index == w.newIndexes[k]
             key == <<id, index.name>>
             c == CreateIndex(x, id, index)
             row == [id |-> x.lastIndex + 1, metadata |-> index.metadata]
             table == Inserted(x.indexes, key, row)
  <2>1. /\ Catalogued(x, ts) /\ IndexGrown(x, s, w, new) /\ id \in Nat /\ index \in Rows
        /\ k \in S
    BY <1>1, <1>2, <1>4
  <2>2. key = KeyFor(w, new, k)
    BY DEF KeyFor
  <2>3. c = IF key \in DOMAIN x.indexes THEN x
            ELSE [x EXCEPT !.lastIndex = x.lastIndex + 1, !.indexes = table]
    BY DEF CreateIndex
  <2>4. row.metadata = w.newIndexes[k].metadata
    OBVIOUS
  <2>5. Catalogued(c, ts)
    <3> HIDE DEF id, index
    <3> QED BY <2>1, CreatedIndex DEF HasIndex
  <2> HIDE DEF k, c, key, row
  <2>6. CASE key \in DOMAIN x.indexes
    BY <1>3, <2>1, <2>3, <2>6 DEF c, id, index, k
  <2>7. CASE key \notin DOMAIN x.indexes
    <3>1. IsInserted(table, x.indexes, key, row)
      BY InsertedRow
    <3>2. WellTyped(x, ts)
      BY <2>1 DEF Catalogued
    <3> HIDE DEF table
    <3>3. c.indexes = table
      BY <2>3, <2>7, <3>2, FieldsChange
    <3>4. /\ DOMAIN table = DOMAIN x.indexes \cup {key} /\ table[key] = row
          /\ \A j \in DOMAIN x.indexes : table[j] = x.indexes[j]
      BY <2>7, <3>1 DEF IsInserted
    <3>5. /\ DOMAIN s.indexes \subseteq DOMAIN table
          /\ \A j \in DOMAIN s.indexes : table[j] = s.indexes[j]
      BY <2>1, <3>4 DEF IndexGrown
    <3>6. ASSUME NEW j \in DOMAIN table, j \notin DOMAIN s.indexes
          PROVE  \E l \in S :
                   j = KeyFor(w, new, l) /\ table[j].metadata = w.newIndexes[l].metadata
      <4>1. CASE j = key
        BY <2>1, <2>2, <2>4, <3>4, <4>1
      <4>2. CASE j # key
        <5>1. j \in DOMAIN x.indexes /\ table[j] = x.indexes[j]
          BY <3>4, <4>2
        <5> QED BY <2>1, <3>6, <5>1 DEF IndexGrown
      <4> QED BY <4>1, <4>2
    <3>7. IndexGrown(c, s, w, new)
      BY <3>3, <3>5, <3>6 DEF IndexGrown
    <3>8. c \in X
      BY <1>3, <2>5, <3>7
    <3> QED BY <3>8 DEF c, id, index, k
  <2> QED BY <2>6, <2>7
<1>7. IndexesEnd(X, L, s, w, new)
  BY <1>1, <1>5, <1>6, IndexesWalk DEF L
<1>8. PICK walk \in [0 .. Len(L) -> X] : walk[Len(L)] = IndexesCreated(s, w, new)
  BY <1>7 DEF IndexesEnd
<1>9. Len(L) \in 0 .. Len(L)
  BY <1>1
<1> QED BY <1>2, <1>8, <1>9

\* p is c with the metadata of the write set w at version v, and no other row.
Rewritten(p, c, w, new, v) ==
  /\ DOMAIN c.rows \subseteq DOMAIN p.rows
  /\ \A k \in DOMAIN p.rows :
       (\A d \in DOMAIN w.metadata : k # <<Resolve(d, new), v>>)
         => k \in DOMAIN c.rows /\ p.rows[k] = c.rows[k]
  /\ \A d \in DOMAIN w.metadata :
       /\ <<Resolve(d, new), v>> \in DOMAIN p.rows
       /\ p.rows[<<Resolve(d, new), v>>].metadata = w.metadata[d]

\* What writing a collection does to the catalogs.
LEMMA WrittenRows ==
  ASSUME NEW ts, NEW t, WellTyped(t, ts), NEW w, NEW c, NEW new, NEW newIndex, NEW v,
         NEW u, u = WriteCollection(t, w, c, new, newIndex, v),
         NEW key, key = <<Resolve(c, new), v>>
  PROVE  /\ u.indexes = t.indexes
         /\ c \notin DOMAIN w.metadata => u.rows = t.rows
         /\ c \in DOMAIN w.metadata =>
              /\ DOMAIN u.rows = DOMAIN t.rows \cup {key}
              /\ u.rows[key].metadata = w.metadata[c]
              /\ \A k \in DOMAIN t.rows : k # key => u.rows[k] = t.rows[k]
<1> DEFINE id == Resolve(c, new)
           name == t.rows[<<id, Max(AllVersionsOf(t, id))>>].name
           row == [name |-> name, metadata |-> w.metadata[c]]
           rows == IF c \in DOMAIN w.metadata THEN Inserted(t.rows, key, row) ELSE t.rows
           these == {k[2] : k \in {l \in DOMAIN w.docs : l[1] = c}}
           those == {k \in DOMAIN w.entries : k[1] = c}
           Positions(op) ==
             {<<Resolve(k[2], newIndex), k[3]>> : k \in {e \in those : w.entries[e] = op}}
           docs == Overwritten(t.docs, [k \in {<<id, d, v>> : d \in these} |-> w.docs[<<c, k[2]>>]])
           entries == (t.entries \ Positions("Deleted")) \cup Positions("Put")
<1>1. u = [t EXCEPT !.docs = docs, !.entries = entries, !.rows = rows]
  BY DEF WriteCollection, UpdatedMetadata
<1>2. row.metadata = w.metadata[c]
  OBVIOUS
<1>3. IsInserted(Inserted(t.rows, key, row), t.rows, key, row)
  BY InsertedRow
<1> HIDE DEF docs, entries, row
<1>4. u.indexes = t.indexes /\ u.rows = rows
  <2> HIDE DEF rows
  <2> QED BY <1>1, FieldsChange
<1> QED BY <1>2, <1>3, <1>4 DEF IsInserted

\* put writes the metadata of every collection it is to, and no other.
LEMMA PutRewrites ==
  ASSUME NEW ts \in Nat, NEW s, NEW v, NEW w, NEW cols \in SUBSET Int,
         Written(w) \subseteq cols, IsFiniteSet(Written(w)), PutSteps(s, w, v, ts),
         NEW new, new = NewIds(s, w),
         \A c, d \in DOMAIN w.metadata : Resolve(c, new) = Resolve(d, new) => c = d,
         NEW i, i = IndexesCreated(CollectionsCreated(s, w, v), w, new)
  PROVE  Rewritten(Put(s, w, v), i, w, new, v) /\ Put(s, w, v).indexes = i.indexes
<1> DEFINE newIndex == NewIndexIds(i, w, new)
           L == InIdOrder(Written(w))
           n == Len(L)
           Key(c) == <<Resolve(c, new), v>>
<1>1. PICK walk \in [0 .. n -> Keyed] :
        /\ walk[0] = i
        /\ \A j \in 1 .. n : walk[j] = WriteCollection(walk[j - 1], w, L[j], new, newIndex, v)
        /\ \A j \in 0 .. n : Kept(walk[j], i, ts)
        /\ walk[n] = Put(s, w, v)
  BY DEF PutSteps
<1> HIDE DEF newIndex
<1>2. n \in Nat /\ \A c \in Written(w) : \E j \in 1 .. n : L[j] = c
  <2>1. Written(w) \in SUBSET Int
    OBVIOUS
  <2>2. Lists(L, Written(w), IdPairs(Written(w)))
    BY <2>1, IdsAreListed
  <2> HIDE DEF L
  <2> QED BY <2>2, ListType
<1>3. \A c, d \in DOMAIN w.metadata : Key(c) = Key(d) => c = d
  OBVIOUS
<1> HIDE DEF L, n
<1>4. \A j \in 0 .. n : WellTyped(walk[j], ts) /\ walk[j].indexes = i.indexes
  BY <1>1 DEF Kept, Catalogued
<1> DEFINE Has(j) ==
             /\ DOMAIN i.rows \subseteq DOMAIN walk[j].rows
             /\ \A k \in DOMAIN walk[j].rows :
                  (\A d \in DOMAIN w.metadata : k # Key(d))
                    => k \in DOMAIN i.rows /\ walk[j].rows[k] = i.rows[k]
             /\ \A m \in 1 .. j : L[m] \in DOMAIN w.metadata =>
                  /\ Key(L[m]) \in DOMAIN walk[j].rows
                  /\ walk[j].rows[Key(L[m])].metadata = w.metadata[L[m]]
           G == {j \in 0 .. n : Has(j)}
<1> HIDE DEF Key
<1>5. 0 \in G
  <2>1. Has(0)
    BY <1>1
  <2> HIDE DEF Has
  <2> QED BY <1>2, <2>1
<1>6. ASSUME NEW j \in 1 .. n, j - 1 \in G
      PROVE  j \in G
  <2> DEFINE t == walk[j - 1]
             u == walk[j]
             c == L[j]
  <2>1. j \in 0 .. n /\ j - 1 \in 0 .. n
    BY <1>2
  <2>2. WellTyped(t, ts) /\ u = WriteCollection(t, w, c, new, newIndex, v)
    BY <1>1, <1>4, <2>1
  <2>3. /\ DOMAIN i.rows \subseteq DOMAIN t.rows
        /\ \A k \in DOMAIN t.rows :
             (\A d \in DOMAIN w.metadata : k # Key(d))
               => k \in DOMAIN i.rows /\ t.rows[k] = i.rows[k]
        /\ \A m \in 1 .. j - 1 : L[m] \in DOMAIN w.metadata =>
             Key(L[m]) \in DOMAIN t.rows /\ t.rows[Key(L[m])].metadata = w.metadata[L[m]]
    BY <1>6
  <2> HIDE DEF t, u, G
  <2>4. /\ c \notin DOMAIN w.metadata => u.rows = t.rows
        /\ c \in DOMAIN w.metadata =>
             /\ DOMAIN u.rows = DOMAIN t.rows \cup {Key(c)}
             /\ u.rows[Key(c)].metadata = w.metadata[c]
             /\ \A k \in DOMAIN t.rows : k # Key(c) => u.rows[k] = t.rows[k]
    <3> HIDE DEF c
    <3> QED BY <2>2, WrittenRows DEF Key
  <2>5. /\ DOMAIN i.rows \subseteq DOMAIN u.rows
        /\ \A k \in DOMAIN u.rows :
             (\A d \in DOMAIN w.metadata : k # Key(d))
               => k \in DOMAIN i.rows /\ u.rows[k] = i.rows[k]
    <3> HIDE DEF c
    <3>1. CASE c \notin DOMAIN w.metadata
      BY <2>3, <2>4, <3>1
    <3>2. CASE c \in DOMAIN w.metadata
      <4>1. DOMAIN i.rows \subseteq DOMAIN u.rows
        BY <2>3, <2>4, <3>2
      <4>2. ASSUME NEW k \in DOMAIN u.rows, \A d \in DOMAIN w.metadata : k # Key(d)
            PROVE  k \in DOMAIN i.rows /\ u.rows[k] = i.rows[k]
        <5>1. k # Key(c) /\ k \in DOMAIN t.rows
          BY <2>4, <3>2, <4>2
        <5>2. u.rows[k] = t.rows[k]
          BY <2>4, <3>2, <5>1
        <5> QED BY <2>3, <4>2, <5>1, <5>2
      <4> QED BY <4>1, <4>2
    <3> QED BY <3>1, <3>2
  <2>6. ASSUME NEW m \in 1 .. j, L[m] \in DOMAIN w.metadata
        PROVE  /\ Key(L[m]) \in DOMAIN u.rows
               /\ u.rows[Key(L[m])].metadata = w.metadata[L[m]]
    <3> DEFINE d == L[m]
    <3>1. CASE d = c
      BY <2>4, <2>6, <3>1
    <3>2. CASE d # c
      <4>1. m \in 1 .. j - 1
        BY <3>2
      <4>2. Key(d) \in DOMAIN t.rows /\ t.rows[Key(d)].metadata = w.metadata[d]
        BY <2>3, <2>6, <4>1
      <4>3. c \in DOMAIN w.metadata => Key(d) # Key(c)
        BY <1>3, <2>6, <3>2
      <4> HIDE DEF c, d
      <4>4. CASE c \in DOMAIN w.metadata
        BY <2>4, <4>2, <4>3, <4>4 DEF d
      <4>5. CASE c \notin DOMAIN w.metadata
        BY <2>4, <4>2, <4>5 DEF d
      <4> QED BY <4>4, <4>5
    <3> QED BY <3>1, <3>2
  <2>7. Has(j)
    BY <2>5, <2>6 DEF u
  <2> HIDE DEF Has
  <2> QED BY <2>1, <2>7 DEF G
<1>7. \A j \in 0 .. n : j \in G
  <2> HIDE DEF G
  <2> QED BY <1>2, <1>5, <1>6, UpTo
<1>8. Has(n) /\ n \in 0 .. n
  <2>1. n \in 0 .. n
    BY <1>2
  <2> QED BY <1>7, <2>1
<1> DEFINE p == Put(s, w, v)
<1>9. p.indexes = i.indexes
  BY <1>1, <1>4, <1>8
<1>10. walk[n] = p
  BY <1>1
<1> HIDE DEF p
<1>11. ASSUME NEW d \in DOMAIN w.metadata
       PROVE  Key(d) \in DOMAIN p.rows /\ p.rows[Key(d)].metadata = w.metadata[d]
  <2>1. d \in Written(w)
    BY DEF Written
  <2>2. PICK m \in 1 .. n : L[m] = d
    BY <1>2, <2>1
  <2> QED BY <1>8, <1>10, <2>2
<1>12. /\ DOMAIN i.rows \subseteq DOMAIN p.rows
       /\ \A k \in DOMAIN p.rows :
            (\A d \in DOMAIN w.metadata : k # Key(d))
              => k \in DOMAIN i.rows /\ p.rows[k] = i.rows[k]
  BY <1>8, <1>10
<1>13. Rewritten(p, i, w, new, v)
  BY <1>11, <1>12 DEF Rewritten, Key
<1> QED BY <1>9, <1>13 DEF p

-----------------------------------------------------------------------------
(* What becomes of a transaction's collections *)

\* The collections that transaction r can name.
Mine(r) == Cols(r.writes, ShownIds(r))

\* Each has an id of its own after the commit: one beyond all others if it is new, and
\* its own otherwise.
Settles(r) ==
  /\ Mine(r) \in SUBSET Int /\ IsFiniteSet(Mine(r)) /\ r.snapshot.lastCollection \in Nat
  /\ \A c \in New(r) : /\ ~(c >= 0) /\ r.writes.newCollections[c] \in DOMAIN After(r).ids
                       /\ Settled(r, c) = After(r).ids[r.writes.newCollections[c]]
                       /\ Settled(r, c) > r.snapshot.lastCollection
  /\ \A c \in ShownIds(r) : c >= 0 /\ Settled(r, c) = c /\ c \in 1 .. r.snapshot.lastCollection
  /\ \A c \in Mine(r) : Settled(r, c) \in Nat
  /\ \A c, d \in Mine(r) : Settled(r, c) = Settled(r, d) => c = d

\* The rows that a transaction sees.
LEMMA SeenRows ==
  ASSUME NEW ts, NEW r, WellTyped(r.snapshot, ts)
  PROVE  /\ DOMAIN AsSeen(r).rows = {k \in DOMAIN r.snapshot.rows : k[2] <= r.ts}
         /\ \A k \in DOMAIN AsSeen(r).rows : AsSeen(r).rows[k] = r.snapshot.rows[k]
         /\ AsSeen(r).lastCollection = r.snapshot.lastCollection
<1> DEFINE s == r.snapshot
           ids == [n \in {n \in DOMAIN s.ids : Shown(r, s.ids[n])} |-> s.ids[n]]
           rows == [k \in {l \in DOMAIN s.rows : l[2] <= r.ts} |-> s.rows[k]]
           a == AsSeen(r)
<1>1. s \in [ids : {s.ids}, rows : {s.rows}, indexes : {s.indexes}, docs : {s.docs},
             entries : {s.entries}, lastCollection : {s.lastCollection},
             lastIndex : {s.lastIndex}]
  <2> HIDE DEF s
  <2> QED BY FieldTypes DEF s
<1>2. a = [s EXCEPT !.ids = ids, !.rows = rows]
  BY DEF AsSeen
<1>3. a.rows = rows /\ a.lastCollection = s.lastCollection
  <2> HIDE DEF a, s, ids, rows
  <2> QED BY <1>1, <1>2
<1> HIDE DEF a
<1> QED BY <1>3 DEF a

\* What a transaction sees, as what it commits to.
LEMMA SeenIsSound ==
  ASSUME NEW ts, NEW s, NEW r, Sane(r, s, ts)
  PROVE  /\ r.ts + 1 \in Nat /\ r.ts + 1 \in 0 .. r.ts + 1 /\ 0 \in 0 .. r.ts + 1
         /\ Catalogued(AsSeen(r), r.ts) /\ Catalogued(AsSeen(r), r.ts + 1)
         /\ CollectionIds(AsSeen(r)) = ShownIds(r)
         /\ Sound(r.writes, ShownIds(r), IndexIds(AsSeen(r)))
         /\ NewCollections(r.writes) /\ NewIndexes(r.writes, Mine(r))
<1> DEFINE a == AsSeen(r)
           later == r.ts + 1
<1>1. r.ts \in Nat /\ Catalogued(r.snapshot, ts)
      /\ Sound(r.writes, ShownIds(r), IndexIds(r.snapshot))
  BY DEF Sane
<1>2. Catalogued(a, r.ts) /\ CollectionIds(a) = ShownIds(r) /\ a.indexes = r.snapshot.indexes
  BY <1>1, SeenIsComplete
<1>3. IndexIds(a) = IndexIds(r.snapshot)
  BY <1>2 DEF IndexIds
<1>4. later \in Nat /\ r.ts <= later /\ later \in 0 .. later /\ 0 \in 0 .. later
  BY <1>1
<1> HIDE DEF a, later
<1>5. Catalogued(a, later)
  BY <1>1, <1>2, <1>4, LaterTypes
<1>6. NewCollections(r.writes) /\ NewIndexes(r.writes, Mine(r))
  BY <1>1 DEF Sound, Mine
<1> QED BY <1>1, <1>2, <1>3, <1>4, <1>5, <1>6 DEF a, later

\* The collections of a transaction settle.
LEMMA CollectionsSettle ==
  ASSUME NEW ts, NEW s, NEW r, Sane(r, s, ts), Tidy(r)
  PROVE  Settles(r)
<1> DEFINE a == AsSeen(r)
           w == r.writes
           C == Mine(r)
           p == After(r)
           last == r.snapshot.lastCollection
           created == CollectionsCreated(a, w, 0)
<1>1. /\ Catalogued(a, r.ts + 1) /\ CollectionIds(a) = ShownIds(r) /\ NewCollections(w)
      /\ r.ts + 1 \in Nat /\ 0 \in 0 .. r.ts + 1
      /\ Sound(w, ShownIds(r), IndexIds(a))
  BY SeenIsSound
<1>2. WellTyped(a, r.ts + 1)
  BY <1>1 DEF Catalogued
<1>3. a.lastCollection = last
  <2>1. WellTyped(r.snapshot, ts)
    BY DEF Sane, Catalogued
  <2> QED BY <2>1, SeenRows
<1>4. last \in Nat /\ ShownIds(r) \subseteq 1 .. last
  <2> HIDE DEF a, last
  <2> QED BY <1>1, <1>2, <1>3, IdsArePositive
<1>5. /\ Stored(p, a, w, r.ts + 1) /\ p.ids = created.ids
      /\ DOMAIN p.ids = DOMAIN a.ids \cup NewNames(w) /\ Catalogued(p, r.ts + 1)
  BY AfterIsStored DEF Stored
<1>6. Grown(created, a, 0)
  <2> HIDE DEF a
  <2> QED BY <1>1, CollectionsGrow
<1>7. C \in SUBSET Int /\ IsFiniteSet(C)
  <2>1. C \in SUBSET Int
    BY <1>1, WritesBelong DEF Mine
  <2>2. IsFiniteSet(ShownIds(r))
    <3>1. IsFiniteSet(1 .. last)
      <4>1. 1 \in Int /\ last \in Int
        BY <1>4
      <4> HIDE DEF last
      <4> QED BY <4>1, FS_Interval
    <3> QED BY <1>4, <3>1, FS_Subset
  <2>3. IsFiniteSet(New(r))
    BY <1>1 DEF NewCollections, New
  <2>4. C = New(r) \cup ShownIds(r)
    BY DEF Mine, Cols, New
  <2> QED BY <2>1, <2>2, <2>3, <2>4, FS_Union
<1>8. \A n \in DOMAIN a.ids : a.ids[n] = r.snapshot.ids[n] /\ n \in DOMAIN r.snapshot.ids
                              /\ a.ids[n] \in ShownIds(r)
  <2>1. Catalogued(r.snapshot, ts) /\ r.ts \in Nat
    BY DEF Sane
  <2>2. \A n \in DOMAIN a.ids : a.ids[n] = r.snapshot.ids[n] /\ n \in DOMAIN r.snapshot.ids
    BY <2>1, SeenIsComplete
  <2>3. \A n \in DOMAIN a.ids : a.ids[n] \in ShownIds(r)
    BY <1>1 DEF CollectionIds
  <2> QED BY <2>2, <2>3
<1> HIDE DEF a, p, last, created
<1>9. ASSUME NEW c \in New(r)
      PROVE  /\ ~(c >= 0) /\ w.newCollections[c] \in DOMAIN p.ids
             /\ Settled(r, c) = p.ids[w.newCollections[c]]
             /\ Settled(r, c) > last
  <2> DEFINE n == w.newCollections[c]
  <2>1. c \in DOMAIN w.newCollections /\ c \in Int /\ ~(c >= 0)
    BY <1>1 DEF NewCollections, IsTable, Temporary, New
  <2>2. n \in DOMAIN p.ids
    BY <1>5, <2>1 DEF NewNames
  <2>3. n \notin DOMAIN a.ids
    <3> SUFFICES ASSUME n \in DOMAIN a.ids
                 PROVE  FALSE
      OBVIOUS
    <3>1. n \in DOMAIN r.snapshot.ids /\ r.snapshot.ids[n] \in ShownIds(r)
      BY <1>8
    <3> QED BY <2>1, <3>1 DEF Tidy, NewNamed
  <2>4. Settled(r, c) = p.ids[n]
    BY <1>5, <2>1 DEF Settled, Resolve, NewIds, created, a
  <2>5. p.ids[n] > last
    BY <1>3, <1>5, <1>6, <2>2, <2>3 DEF Grown
  <2> QED BY <2>1, <2>2, <2>4, <2>5
<1>10. \A c \in ShownIds(r) : c >= 0 /\ Settled(r, c) = c /\ c \in 1 .. last
  BY <1>4 DEF Settled, Resolve
<1>11. \A c \in C : c \in New(r) \/ c \in ShownIds(r)
  BY DEF Mine, Cols, New
<1>12. \A n \in DOMAIN p.ids : p.ids[n] \in Nat
  <2>1. WellTyped(p, r.ts + 1)
    BY <1>5 DEF Catalogued
  <2>2. p.lastCollection \in Nat /\ \A n \in DOMAIN p.ids : p.ids[n] \in 1 .. p.lastCollection
    BY <2>1, IdsArePositive
  <2> QED BY <2>2
<1>13. \A c \in C : Settled(r, c) \in Nat
  BY <1>4, <1>9, <1>10, <1>11, <1>12
<1>14. ASSUME NEW c \in C, NEW d \in C, Settled(r, c) = Settled(r, d)
       PROVE  c = d
  <2>1. CASE c \in New(r) /\ d \in New(r)
    <3> DEFINE m == w.newCollections[c]
               n == w.newCollections[d]
    <3>1. m \in DOMAIN p.ids /\ n \in DOMAIN p.ids /\ p.ids[m] = p.ids[n]
      BY <1>9, <1>14, <2>1
    <3>2. m = n
      BY <1>5, <3>1 DEF Catalogued
    <3> QED BY <2>1, <3>2 DEF Tidy, NewNamed, New
  <2>2. CASE c \in ShownIds(r) /\ d \in ShownIds(r)
    BY <1>10, <1>14, <2>2
  <2>3. CASE c \in New(r) /\ d \in ShownIds(r)
    <3>1. Settled(r, c) > last /\ Settled(r, c) \in 1 .. last
      BY <1>9, <1>10, <1>14, <2>3
    <3> QED BY <1>4, <3>1
  <2>4. CASE d \in New(r) /\ c \in ShownIds(r)
    <3>1. Settled(r, d) > last /\ Settled(r, d) \in 1 .. last
      BY <1>9, <1>10, <1>14, <2>4
    <3> QED BY <1>4, <3>1
  <2> QED BY <1>11, <2>1, <2>2, <2>3, <2>4
<1> QED BY <1>4, <1>7, <1>9, <1>10, <1>13, <1>14 DEF Settles, p, last

\* The name and the metadata that a transaction sees of a collection.
NameIn(r, c) == IF c \in New(r) THEN r.writes.newCollections[c] ELSE Row(r, c).name
Told(r, c) ==
  IF c \in DOMAIN r.writes.metadata THEN r.writes.metadata[c]
  ELSE IF c \in New(r) THEN Empty ELSE Row(r, c).metadata

\* The name of a collection that was found, and the row that it is of.
LEMMA ShownRows ==
  ASSUME NEW ts, NEW s, NEW r, Sane(r, s, ts), NEW c \in ShownIds(r)
  PROVE  /\ VersionsOf(AsSeen(r), c, r.ts + 1) = VersionsOf(r.snapshot, c, r.ts)
         /\ <<c, Max(VersionsOf(r.snapshot, c, r.ts))>> \in DOMAIN AsSeen(r).rows
         /\ Row(r, c) = AsSeen(r).rows[<<c, Max(VersionsOf(r.snapshot, c, r.ts))>>]
         /\ Row(r, c) \in Rows
         /\ \E n \in DOMAIN AsSeen(r).ids : AsSeen(r).ids[n] = c /\ Row(r, c).name = n
<1> DEFINE b == r.snapshot
           a == AsSeen(r)
           V == VersionsOf(b, c, r.ts)
           key == <<c, Max(V)>>
<1>1. r.ts \in Nat /\ Catalogued(b, ts) /\ WellTyped(b, ts)
  BY DEF Sane, Catalogued
<1>2. /\ DOMAIN a.rows = {k \in DOMAIN b.rows : k[2] <= r.ts}
      /\ \A k \in DOMAIN a.rows : a.rows[k] = b.rows[k]
  BY <1>1, SeenRows
<1>3. /\ Catalogued(a, r.ts)
      /\ \A k \in DOMAIN b.rows : k[2] \in 0 .. ts /\ k = <<k[1], k[2]>>
  <2>1. Catalogued(a, r.ts)
    BY SeenIsSound
  <2> HIDE DEF b
  <2> QED BY <1>1, <2>1, RowIds
<1>4. IsTable(a.rows, RowKeys(r.ts), Rows)
  <2>1. WellTyped(a, r.ts)
    BY <1>3 DEF Catalogued
  <2> QED BY <2>1, FieldTypes
<1>5. V # {}
  BY DEF ShownIds, Shown, Known
<1> HIDE DEF a, b
<1>6. \A v : v \in V <=> v <= r.ts /\ \E k \in DOMAIN b.rows : k[1] = c /\ k[2] = v
  BY DEF VersionsOf, AllVersionsOf
<1>7. \A v : v \in VersionsOf(a, c, r.ts + 1) <=>
               v <= r.ts + 1 /\ \E k \in DOMAIN a.rows : k[1] = c /\ k[2] = v
  BY DEF VersionsOf, AllVersionsOf
<1> HIDE DEF V
<1>8. VersionsOf(a, c, r.ts + 1) = V
  <2>1. ASSUME NEW v \in V
        PROVE  v \in VersionsOf(a, c, r.ts + 1)
    <3>1. PICK k \in DOMAIN b.rows : k[1] = c /\ k[2] = v /\ v <= r.ts
      BY <1>6
    <3>2. k \in DOMAIN a.rows /\ v \in Int
      BY <1>2, <1>3, <3>1
    <3>3. v <= r.ts + 1
      BY <1>1, <3>1, <3>2
    <3> QED BY <1>7, <3>1, <3>2, <3>3
  <2>2. ASSUME NEW v \in VersionsOf(a, c, r.ts + 1)
        PROVE  v \in V
    <3>1. PICK k \in DOMAIN a.rows : k[1] = c /\ k[2] = v
      BY <1>7
    <3> QED BY <1>2, <1>6, <3>1
  <2> QED BY <2>1, <2>2
<1>9. V \subseteq 0 .. ts /\ IsFiniteSet(V)
  <2>1. V \subseteq 0 .. r.ts
    <3> SUFFICES ASSUME NEW v \in V
                 PROVE  v \in 0 .. r.ts
      OBVIOUS
    <3>1. v \in 0 .. ts /\ v <= r.ts
      BY <1>3, <1>6
    <3> QED BY <1>1, <3>1
  <2>2. IsFiniteSet(0 .. r.ts)
    <3>1. 0 \in Int /\ r.ts \in Int
      BY <1>1
    <3> QED BY <3>1, FS_Interval
  <2>3. V \subseteq 0 .. ts
    BY <1>3, <1>6
  <2> QED BY <2>1, <2>2, <2>3, FS_Subset
<1>10. Max(V) \in V
  <2>1. V \in SUBSET Int
    BY <1>9
  <2> QED BY <1>5, <1>9, <2>1, IdsHaveEnds
<1>11. key \in DOMAIN a.rows
  <2>1. PICK k \in DOMAIN b.rows : k[1] = c /\ k[2] = Max(V) /\ Max(V) <= r.ts
    BY <1>6, <1>10
  <2>2. k = key
    BY <1>3, <2>1
  <2> QED BY <1>2, <2>1, <2>2
<1>12. Row(r, c) = a.rows[key]
  BY <1>2, <1>11 DEF Row, RowOf, V, b
<1>13. a.rows[key] \in Rows
  BY <1>4, <1>11 DEF IsTable
<1>14. key[1] = c
  OBVIOUS
<1> HIDE DEF key
<1>15. \E n \in DOMAIN a.ids : a.ids[n] = c /\ a.rows[key].name = n
  BY <1>3, <1>11, <1>14 DEF Catalogued
<1> QED BY <1>8, <1>11, <1>12, <1>13, <1>15 DEF key, V, a, b

\* The collections after the commit are the transaction's, by name.
Names(r) ==
  /\ \A c \in Mine(r) : /\ NameIn(r, c) \in Name /\ NameIn(r, c) \in DOMAIN After(r).ids
                        /\ After(r).ids[NameIn(r, c)] = Settled(r, c)
                        /\ Told(r, c) \in Metadata
  /\ \A n \in DOMAIN After(r).ids : \E c \in Mine(r) : NameIn(r, c) = n

\* So they are.
LEMMA CollectionsAreNamed ==
  ASSUME NEW ts, NEW s, NEW r, Sane(r, s, ts), Tidy(r)
  PROVE  Names(r)
<1> DEFINE a == AsSeen(r)
           w == r.writes
           p == After(r)
<1>1. /\ \A c \in DOMAIN w.metadata : w.metadata[c] \in Metadata
      /\ NewCollections(w) /\ CollectionIds(a) = ShownIds(r)
      /\ Sound(w, ShownIds(r), IndexIds(a))
  BY SeenIsSound, WritesBelong
<1>2. /\ \A n \in DOMAIN a.ids : n \in DOMAIN p.ids /\ p.ids[n] = a.ids[n]
      /\ DOMAIN p.ids = DOMAIN a.ids \cup NewNames(w)
  BY AfterIsStored DEF Stored, Extends
<1>3. Settles(r) /\ Empty \in Metadata
  BY CollectionsSettle, CatalogAssumption
<1>4. ASSUME NEW c \in ShownIds(r)
      PROVE  /\ Row(r, c) \in Rows
             /\ \E n \in DOMAIN a.ids : a.ids[n] = c /\ Row(r, c).name = n
  BY ShownRows
<1>5. \A c \in ShownIds(r) : c \notin New(r)
  BY <1>3 DEF Settles
<1>6. \A c \in New(r) : w.newCollections[c] \in Name
  BY <1>1 DEF NewCollections, IsTable, New
<1>7. \A m, n \in DOMAIN a.ids : a.ids[m] = a.ids[n] => m = n
  BY SeenIsSound DEF Catalogued
<1> HIDE DEF a, p
<1>8. ASSUME NEW c \in Mine(r)
      PROVE  /\ NameIn(r, c) \in Name /\ NameIn(r, c) \in DOMAIN p.ids
             /\ p.ids[NameIn(r, c)] = Settled(r, c)
             /\ Told(r, c) \in Metadata
  <2>1. CASE c \in New(r)
    <3>1. NameIn(r, c) = w.newCollections[c]
      BY <2>1 DEF NameIn
    <3>2. Told(r, c) \in Metadata
      BY <1>1, <1>3, <2>1 DEF Told
    <3> QED BY <1>3, <1>6, <2>1, <3>1, <3>2 DEF Settles, p
  <2>2. CASE c \notin New(r)
    <3>1. c \in ShownIds(r)
      BY <2>2 DEF Mine, Cols, New
    <3>2. Row(r, c).name \in Name /\ Row(r, c).metadata \in Metadata
      BY <1>4, <3>1 DEF Rows
    <3>3. NameIn(r, c) = Row(r, c).name
      BY <2>2 DEF NameIn
    <3>4. Told(r, c) \in Metadata
      BY <1>1, <2>2, <3>2 DEF Told
    <3>5. Settled(r, c) = c
      BY <1>3, <3>1 DEF Settles
    <3> QED BY <1>2, <1>4, <3>1, <3>2, <3>3, <3>4, <3>5
  <2> QED BY <2>1, <2>2
<1>9. ASSUME NEW n \in DOMAIN p.ids
      PROVE  \E c \in Mine(r) : NameIn(r, c) = n
  <2>1. CASE n \in NewNames(w)
    <3>1. PICK c \in New(r) : w.newCollections[c] = n
      BY <2>1 DEF NewNames, New
    <3>2. c \in Mine(r) /\ NameIn(r, c) = n
      BY <3>1 DEF Mine, Cols, New, NameIn
    <3> QED BY <3>2
  <2>2. CASE n \in DOMAIN a.ids
    <3> DEFINE c == a.ids[n]
    <3>1. c \in ShownIds(r)
      BY <1>1, <2>2 DEF CollectionIds
    <3> HIDE DEF c
    <3>2. PICK m \in DOMAIN a.ids : a.ids[m] = c /\ Row(r, c).name = m
      BY <1>4, <3>1
    <3>3. m = n
      BY <1>7, <2>2, <3>2 DEF c
    <3>4. NameIn(r, c) = n /\ c \in Mine(r)
      BY <1>5, <3>1, <3>2, <3>3 DEF NameIn, Mine, Cols
    <3> QED BY <3>4
  <2> QED BY <1>2, <2>1, <2>2
<1> QED BY <1>8, <1>9 DEF Names, p

-----------------------------------------------------------------------------
(* What becomes of their rows *)

\* What put makes of a transaction's writes, in its three steps.
Unfolds(r) ==
  LET a == AsSeen(r)
      w == r.writes
      v == r.ts + 1
      new == NewIds(a, w)
      created == CollectionsCreated(a, w, v)
      indexed == IndexesCreated(created, w, new)
  IN /\ Grown(created, a, v) /\ Created(created, a, w, v)
     /\ IndexGrown(indexed, created, w, new) /\ Indexed(indexed, created, w, new, v)
     /\ Rewritten(After(r), indexed, w, new, v) /\ After(r).indexes = indexed.indexes
     /\ Catalogued(After(r), v)

\* So it does.
LEMMA PutUnfolds ==
  ASSUME NEW ts, NEW s, NEW r, Sane(r, s, ts), Tidy(r)
  PROVE  Unfolds(r)
<1> DEFINE a == AsSeen(r)
           w == r.writes
           v == r.ts + 1
           C == Mine(r)
           new == NewIds(a, w)
           created == CollectionsCreated(a, w, v)
           indexed == IndexesCreated(created, w, new)
           ids == ShownIds(r)
<1>1. /\ v \in Nat /\ v \in 0 .. v /\ Catalogued(a, v) /\ CollectionIds(a) = ids
      /\ Sound(w, ids, IndexIds(a)) /\ NewCollections(w) /\ NewIndexes(w, C)
      /\ C = Cols(w, ids)
  BY SeenIsSound DEF Mine
<1>2. After(r) = Put(a, w, v) /\ \A c : Settled(r, c) = Resolve(c, new)
  BY DEF After, Settled
<1>3. Settles(r) /\ Catalogued(After(r), v)
  BY CollectionsSettle, AfterIsStored DEF Stored
<1>4. C \in SUBSET Int /\ Written(w) \subseteq C /\ \A c \in DOMAIN w.metadata : c \in C
  BY <1>1, WritesBelong
<1>5. IsFiniteSet(Written(w))
  BY <1>1 DEF Sound
<1> HIDE DEF a, w, v, C, new, ids
<1>6. Grown(created, a, v) /\ Created(created, a, w, v)
  BY <1>1, CollectionsGrow, CollectionsAreCreated
<1>7. \A c \in C : Resolve(c, new) \in CollectionIds(created)
  BY <1>1, CollectionsResolve DEF new
<1>8. Catalogued(created, v)
  BY <1>6 DEF Created
<1> HIDE DEF created
<1>9. IndexGrown(indexed, created, w, new) /\ Indexed(indexed, created, w, new, v)
  BY <1>1, <1>4, <1>7, <1>8, IndexesGrow, IndexesAreCreated
<1>10. PutSteps(a, w, v, v)
  BY <1>1, PutKeepsCatalogs
<1>11. \A c, d \in DOMAIN w.metadata : Resolve(c, new) = Resolve(d, new) => c = d
  BY <1>2, <1>3, <1>4 DEF Settles, C
<1>12. Rewritten(Put(a, w, v), indexed, w, new, v) /\ Put(a, w, v).indexes = indexed.indexes
  BY <1>1, <1>4, <1>5, <1>10, <1>11, PutRewrites DEF new, created
<1> QED BY <1>2, <1>3, <1>6, <1>9, <1>12 DEF Unfolds, a, w, v, new, created

\* A row of the newest version of all is the newest.
LEMMA NewestRow ==
  ASSUME NEW v \in Nat, NEW p, Catalogued(p, v), NEW id, <<id, v>> \in DOMAIN p.rows
  PROVE  RowOf(p, id, v) = p.rows[<<id, v>>]
<1> DEFINE V == VersionsOf(p, id, v)
<1>1. \A k \in DOMAIN p.rows : k[2] \in 0 .. v
  BY RowIds
<1>2. V \subseteq 0 .. v
  BY <1>1 DEF VersionsOf, AllVersionsOf
<1>3. v \in V
  <2> DEFINE k == <<id, v>>
  <2>1. k \in DOMAIN p.rows /\ k[1] = id /\ k[2] = v /\ v <= v
    OBVIOUS
  <2> HIDE DEF k
  <2> QED BY <2>1 DEF VersionsOf, AllVersionsOf
<1> HIDE DEF V
<1>4. \A x \in V : v >= x /\ (x >= v => x = v)
  BY <1>2
<1>5. Max(V) = v
  BY <1>3, <1>4 DEF Max
<1> QED BY <1>5 DEF RowOf, V

\* The commit leaves each collection with the metadata that the transaction sees.
LEMMA RowsAfter ==
  ASSUME NEW ts, NEW s, NEW r, Sane(r, s, ts), Tidy(r), NEW c \in Mine(r)
  PROVE  RowOf(After(r), Settled(r, c), r.ts + 1).metadata = Told(r, c)
<1> DEFINE a == AsSeen(r)
           w == r.writes
           v == r.ts + 1
           new == NewIds(a, w)
           created == CollectionsCreated(a, w, v)
           indexed == IndexesCreated(created, w, new)
           p == After(r)
           id == Settled(r, c)
           last == r.snapshot.lastCollection
<1>1. /\ Grown(created, a, v) /\ indexed.rows = created.rows
      /\ Rewritten(p, indexed, w, new, v) /\ Catalogued(p, v)
      /\ DOMAIN p.ids = DOMAIN a.ids \cup NewNames(w) /\ p.ids = CollectionsCreated(a, w, 0).ids
  BY PutUnfolds, AfterIsStored DEF Unfolds, Indexed, Stored
<1>2. created.ids = p.ids
  <2>1. /\ v \in Nat /\ v \in 0 .. v /\ Catalogued(a, v) /\ NewCollections(w)
    BY SeenIsSound
  <2> HIDE DEF a, w, v
  <2> QED BY <1>1, <2>1, CollectionsAreCreated
<1>3. /\ v \in Nat /\ r.ts \in Nat /\ v > r.ts /\ Catalogued(a, r.ts)
      /\ NewCollections(w) /\ \A d \in DOMAIN w.metadata : d \in Mine(r)
  <2>1. r.ts \in Nat
    BY DEF Sane
  <2>2. Sound(w, ShownIds(r), IndexIds(a)) /\ NewCollections(w) /\ Catalogued(a, r.ts)
    BY SeenIsSound
  <2>3. \A d \in DOMAIN w.metadata : d \in Mine(r)
    BY <2>2, WritesBelong DEF Mine
  <2> QED BY <2>1, <2>2, <2>3
<1>4. Settles(r) /\ \A d : Settled(r, d) = Resolve(d, new)
  BY CollectionsSettle DEF Settled
<1>5. \A k \in DOMAIN a.rows : k[1] \in 1 .. a.lastCollection /\ k[2] \in 0 .. r.ts
  BY <1>3, RowIds
<1>6. a.lastCollection = last
  <2>1. WellTyped(r.snapshot, ts)
    BY DEF Sane, Catalogued
  <2> QED BY <2>1, SeenRows
<1> HIDE DEF a, created, indexed, p, last, new
<1>7. ASSUME NEW k \in DOMAIN p.rows, k[1] = id, c \notin DOMAIN w.metadata
      PROVE  k \in DOMAIN created.rows /\ p.rows[k] = created.rows[k]
  <2>1. ASSUME NEW d \in DOMAIN w.metadata
        PROVE  k # <<Resolve(d, new), v>>
    <3>1. d \in Mine(r) /\ d # c
      BY <1>3, <1>7
    <3>2. Settled(r, d) # Settled(r, c)
      BY <1>4, <3>1 DEF Settles
    <3>3. Resolve(d, new) # id
      BY <1>4, <3>2
    <3> HIDE DEF id
    <3> QED BY <1>7, <3>3
  <2> QED BY <1>1, <2>1 DEF Rewritten
<1>8. DOMAIN a.rows \subseteq DOMAIN created.rows /\ DOMAIN created.rows \subseteq DOMAIN p.rows
  BY <1>1 DEF Grown, Rewritten
<1>9. CASE c \in DOMAIN w.metadata
  <2>1. /\ <<id, v>> \in DOMAIN p.rows /\ p.rows[<<id, v>>].metadata = w.metadata[c]
    BY <1>1, <1>4, <1>9 DEF Rewritten
  <2>2. RowOf(p, id, v) = p.rows[<<id, v>>]
    <3> HIDE DEF id, v
    <3> QED BY <1>1, <1>3, <2>1, NewestRow
  <2> QED BY <1>9, <2>1, <2>2 DEF Told, p
<1>10. CASE c \notin DOMAIN w.metadata /\ c \in New(r)
  <2> DEFINE n == w.newCollections[c]
             key == <<id, v>>
  <2>1. n \in DOMAIN p.ids /\ id = p.ids[n] /\ id > last
    BY <1>4, <1>10 DEF Settles, p, last
  <2>2. n \notin DOMAIN a.ids
    <3> SUFFICES ASSUME n \in DOMAIN a.ids
                 PROVE  FALSE
      OBVIOUS
    <3>1. WellTyped(a, r.ts)
      BY <1>3 DEF Catalogued
    <3>2. a.ids[n] \in 1 .. last
      BY <1>6, <3>1, IdsArePositive
    <3>3. p.ids[n] = a.ids[n]
      BY AfterIsStored DEF Stored, Extends, p, a
    <3>4. last \in Nat
      BY <1>4 DEF Settles, last
    <3> QED BY <2>1, <3>2, <3>3, <3>4
  <2>3. key \in DOMAIN created.rows
    BY <1>1, <1>2, <2>1, <2>2 DEF Grown
  <2>4. key \in DOMAIN p.rows /\ key[1] = id /\ key[2] = v
    BY <1>8, <2>3
  <2> HIDE DEF key, id, v
  <2>5. p.rows[key] = created.rows[key]
    BY <1>7, <1>10, <2>4
  <2>6. key \notin DOMAIN a.rows
    BY <1>3, <1>5, <2>4
  <2>7. created.rows[key].metadata = Empty
    BY <1>1, <2>3, <2>6 DEF Grown
  <2>8. RowOf(p, id, v) = p.rows[key]
    BY <1>1, <1>3, <2>4, NewestRow DEF key
  <2> QED BY <1>10, <2>5, <2>7, <2>8 DEF Told, p, id, v
<1>11. CASE c \notin DOMAIN w.metadata /\ c \notin New(r)
  <2>1. c \in ShownIds(r)
    BY <1>11 DEF Mine, Cols, New
  <2>2. id = c /\ c \in 1 .. last /\ last \in Nat
    BY <1>4, <2>1 DEF Settles, last
  <2> DEFINE V == VersionsOf(r.snapshot, c, r.ts)
             key == <<c, Max(V)>>
  <2>3. VersionsOf(a, c, v) = V /\ key \in DOMAIN a.rows /\ Row(r, c) = a.rows[key]
    BY <2>1, ShownRows DEF a
  <2> HIDE DEF V, v
  <2>4. ASSUME NEW k, k[1] = c
        PROVE  k \in DOMAIN p.rows <=> k \in DOMAIN a.rows
    <3>1. k \in DOMAIN a.rows => k \in DOMAIN p.rows
      BY <1>8
    <3>2. ASSUME k \in DOMAIN p.rows
          PROVE  k \in DOMAIN a.rows
      <4>1. k \in DOMAIN created.rows
        BY <1>7, <1>11, <2>2, <2>4, <3>2
      <4>2. k \notin DOMAIN a.rows => k[1] > last
        BY <1>1, <1>6, <4>1 DEF Grown
      <4> QED BY <2>2, <2>4, <4>2
    <3> QED BY <3>1, <3>2
  <2>5. VersionsOf(p, c, v) = V
    <3>1. {k \in DOMAIN p.rows : k[1] = c} = {k \in DOMAIN a.rows : k[1] = c}
      BY <2>4
    <3>2. VersionsOf(p, c, v) = VersionsOf(a, c, v)
      BY <3>1 DEF VersionsOf, AllVersionsOf
    <3> QED BY <2>3, <3>2
  <2>6. key[1] = c
    OBVIOUS
  <2>7. RowOf(p, c, v) = p.rows[key]
    BY <2>5 DEF RowOf
  <2> HIDE DEF key
  <2>8. p.rows[key] = created.rows[key] /\ created.rows[key] = a.rows[key]
    <3>1. key \in DOMAIN p.rows
      BY <2>3, <2>4, <2>6
    <3>2. p.rows[key] = created.rows[key]
      BY <1>7, <1>11, <2>2, <2>6, <3>1
    <3>3. created.rows[key] = a.rows[key]
      BY <1>1, <2>3 DEF Grown
    <3> QED BY <3>2, <3>3
  <2> QED BY <1>11, <2>2, <2>3, <2>7, <2>8 DEF Told, p, v
<1> QED BY <1>9, <1>10, <1>11

-----------------------------------------------------------------------------
(* The catalogs that a transaction sees, and those after its commit *)

\* The entries of finitely many keys, each with a name of its own.
LEMMA ImageIsListable ==
  ASSUME NEW C, NEW f \in [C -> Entries], NEW D \in SUBSET C, IsFiniteSet(D),
         \A c, d \in D : f[c].at = f[d].at => c = d
  PROVE  Listable({f[c] : c \in D})
<1> DEFINE S == {f[c] : c \in D}
           g == [c \in D |-> f[c]]
<1>1. S \in SUBSET Entries
  OBVIOUS
<1>2. IsFiniteSet(S)
  <2>1. g \in Surjection(D, S)
    BY DEF Surjection
  <2> HIDE DEF S, g
  <2> QED BY <2>1, FS_Surjection
<1>3. \A e, d \in S : e.at = d.at => e = d
  OBVIOUS
<1> QED BY <1>1, <1>2, <1>3 DEF Listable

\* An entry's parts.
LEMMA EntryParts ==
  ASSUME NEW id, NEW name, NEW metadata
  PROVE  /\ Entry(id, name, metadata).id = id /\ Entry(id, name, metadata).at = PlaceOf(name)
         /\ Entry(id, name, metadata).metadata = metadata
         /\ id \in Int /\ name \in Name /\ metadata \in Metadata
              => Entry(id, name, metadata) \in Entries
BY DEF Entry, Entries, Place

\* Collections with the ids that the transaction knows, and those that the commit gives.
Listing(r) == [c \in Mine(r) |-> Entry(c, NameIn(r, c), Told(r, c))]
Committed(r) == [c \in Mine(r) |-> Entry(Settled(r, c), NameIn(r, c), Told(r, c))]
\* The collections that the transaction has written the catalog row of.
Overlaid(r) == New(r) \cup DOMAIN r.writes.metadata

\* What the two streams of the collection catalog's cursor are of, and what the catalog
\* is after the commit.
Collected(r) ==
  LET own == OwnCollections(r)
      stored == StoredCollections(r)
  IN /\ own = {Listing(r)[c] : c \in Overlaid(r)}
     /\ {e \in stored : ~\E o \in own : o.id = e.id \/ o.at = e.at}
          = {Listing(r)[c] : c \in Mine(r) \ Overlaid(r)}
     /\ CollectionsAfter(r) = {Committed(r)[c] : c \in Mine(r)}
     /\ Listing(r) \in [Mine(r) -> Entries] /\ Committed(r) \in [Mine(r) -> Entries]
     /\ Overlaid(r) \subseteq Mine(r)
     /\ \A c \in Mine(r) : Listing(r)[c].at = Committed(r)[c].at
                           /\ Listing(r)[c].metadata = Committed(r)[c].metadata
     /\ \A c, d \in Mine(r) : Listing(r)[c].at = Listing(r)[d].at => c = d

\* That is what they are.
LEMMA CollectionsAreCollected ==
  ASSUME NEW ts, NEW s, NEW r, Sane(r, s, ts), Tidy(r)
  PROVE  Collected(r)
<1> DEFINE w == r.writes
           b == r.snapshot
           C == Mine(r)
           T == Overlaid(r)
           E == Listing(r)
           F == Committed(r)
           p == After(r)
           v == r.ts + 1
           own == OwnCollections(r)
           stored == StoredCollections(r)
<1>1. Settles(r) /\ Names(r)
  BY CollectionsSettle, CollectionsAreNamed
<1>2. \A c \in C : RowOf(p, Settled(r, c), v).metadata = Told(r, c)
  BY RowsAfter
<1>3. T \subseteq C
  <2>1. Sound(w, ShownIds(r), IndexIds(b))
    BY DEF Sane
  <2>2. \A c \in DOMAIN w.metadata : c \in C
    BY <2>1, WritesBelong DEF Mine
  <2> QED BY <2>2 DEF Overlaid, Mine, Cols, New
<1>4. \A c \in C : c \in New(r) \/ c \in ShownIds(r)
  BY DEF Mine, Cols, New
<1>5. \A c \in ShownIds(r) : c \in C /\ c \notin New(r)
  BY <1>1 DEF Settles, Mine, Cols
<1>6. \A c, d \in C : NameIn(r, c) = NameIn(r, d) => c = d
  BY <1>1 DEF Settles, Names
<1>7. \A c \in C : /\ c \in Int /\ Settled(r, c) \in Int
                   /\ NameIn(r, c) \in Name /\ Told(r, c) \in Metadata
  BY <1>1 DEF Settles, Names
<1>8. \A c \in C : /\ E[c] = Entry(c, NameIn(r, c), Told(r, c))
                   /\ F[c] = Entry(Settled(r, c), NameIn(r, c), Told(r, c))
  BY DEF Listing, Committed
<1>9. \A c \in C : /\ E[c] \in Entries /\ E[c].id = c /\ E[c].at = PlaceOf(NameIn(r, c))
                   /\ E[c].metadata = Told(r, c)
                   /\ F[c] \in Entries /\ F[c].at = PlaceOf(NameIn(r, c))
                   /\ F[c].metadata = Told(r, c)
  BY <1>7, <1>8, EntryParts
<1>10. E \in [C -> Entries] /\ F \in [C -> Entries]
  <2>1. /\ E = [c \in C |-> Entry(c, NameIn(r, c), Told(r, c))]
        /\ F = [c \in C |-> Entry(Settled(r, c), NameIn(r, c), Told(r, c))]
    BY DEF Listing, Committed
  <2> HIDE DEF E, F, C
  <2> QED BY <1>8, <1>9, <2>1
<1>11. \A c, d \in C : E[c].at = E[d].at => c = d
  BY <1>6, <1>9, SamePlace
<1>12. own = {E[c] : c \in T}
  <2>1. \A c \in New(r) : /\ c \in T /\ c \in C /\ NameIn(r, c) = w.newCollections[c]
                          /\ Told(r, c) = Own(r, c)
    BY <1>3 DEF Overlaid, NameIn, Told, Own
  <2>2. \A c \in DOMAIN w.metadata \ New(r) :
          /\ c \in T /\ c \in C /\ Shown(r, c) /\ NameIn(r, c) = Row(r, c).name
          /\ Told(r, c) = Own(r, c)
    BY <1>3, <1>4 DEF Overlaid, NameIn, Told, Own, ShownIds
  <2>3. own = {Entry(c, w.newCollections[c], Own(r, c)) : c \in New(r)}
                \cup {Entry(c, Row(r, c).name, Own(r, c)) :
                        c \in {d \in DOMAIN w.metadata \ New(r) : Shown(r, d)}}
    BY DEF OwnCollections
  <2>4. T = New(r) \cup (DOMAIN w.metadata \ New(r))
    BY DEF Overlaid
  <2> HIDE DEF own, T, C, E, F
  <2>5. /\ \A c \in New(r) : E[c] = Entry(c, w.newCollections[c], Own(r, c))
        /\ \A c \in DOMAIN w.metadata \ New(r) : E[c] = Entry(c, Row(r, c).name, Own(r, c))
    BY <1>8, <2>1, <2>2
  <2>6. {d \in DOMAIN w.metadata \ New(r) : Shown(r, d)} = DOMAIN w.metadata \ New(r)
    BY <2>2
  <2>7. /\ {Entry(c, w.newCollections[c], Own(r, c)) : c \in New(r)} = {E[c] : c \in New(r)}
        /\ {Entry(c, Row(r, c).name, Own(r, c)) : c \in DOMAIN w.metadata \ New(r)}
             = {E[c] : c \in DOMAIN w.metadata \ New(r)}
    BY <2>5
  <2> QED BY <2>3, <2>4, <2>6, <2>7
<1>13. {e \in stored : ~\E o \in own : o.id = e.id \/ o.at = e.at} = {E[c] : c \in C \ T}
  <2> DEFINE e0(c) == Entry(c, Row(r, c).name, Row(r, c).metadata)
  <2>1. stored = {e0(c) : c \in ShownIds(r)}
    BY DEF StoredCollections, ShownIds, CollectionIds
  <2>2. \A c \in ShownIds(r) : /\ e0(c).id = c /\ e0(c).at = PlaceOf(Row(r, c).name)
                               /\ NameIn(r, c) = Row(r, c).name
    BY <1>5, EntryParts DEF NameIn
  <2>3. \A c \in ShownIds(r) : c \notin T => e0(c) = E[c]
    BY <1>5, <1>8 DEF Overlaid, NameIn, Told
  <2>4. \A c \in C \ T : c \in ShownIds(r)
    BY <1>4 DEF Overlaid
  <2> HIDE DEF e0, own, stored, C, T, E, F
  <2>5. ASSUME NEW c \in ShownIds(r)
        PROVE  c \notin T <=> ~\E o \in own : o.id = e0(c).id \/ o.at = e0(c).at
    <3>1. ASSUME c \in T
          PROVE  \E o \in own : o.id = e0(c).id
      <4>1. E[c] \in own /\ E[c].id = c
        BY <1>5, <1>9, <1>12, <3>1
      <4> QED BY <2>2, <4>1
    <3>2. ASSUME NEW o \in own, o.id = e0(c).id \/ o.at = e0(c).at
          PROVE  c \in T
      <4>1. PICK d \in T : o = E[d]
        BY <1>12
      <4>2. d \in C /\ c \in C
        BY <1>3, <1>5
      <4>3. o.id = d /\ o.at = PlaceOf(NameIn(r, d))
        BY <1>9, <4>1, <4>2
      <4>4. d = c
        <5>1. CASE o.id = e0(c).id
          BY <2>2, <4>3, <5>1
        <5>2. CASE o.at = e0(c).at
          <6>1. PlaceOf(NameIn(r, d)) = PlaceOf(NameIn(r, c))
            BY <2>2, <4>3, <5>2
          <6> QED BY <1>6, <4>2, <6>1, SamePlace
        <5> QED BY <3>2, <5>1, <5>2
      <4> QED BY <4>4
    <3> QED BY <3>1, <3>2
  <2> QED BY <1>5, <2>1, <2>3, <2>4, <2>5
<1>14. CollectionsAfter(r) = {F[c] : c \in C}
  <2> DEFINE f0(n) == Entry(p.ids[n], n, RowOf(p, p.ids[n], v).metadata)
  <2>1. CollectionsAfter(r) = {f0(n) : n \in DOMAIN p.ids}
    BY DEF CollectionsAfter
  <2>2. \A c \in C : NameIn(r, c) \in DOMAIN p.ids /\ p.ids[NameIn(r, c)] = Settled(r, c)
    BY <1>1 DEF Names
  <2>3. \A c \in C : F[c] = f0(NameIn(r, c))
    BY <1>2, <1>8, <2>2
  <2>4. \A n \in DOMAIN p.ids : \E c \in C : NameIn(r, c) = n
    BY <1>1 DEF Names
  <2> HIDE DEF f0, p, C, F
  <2> QED BY <2>1, <2>2, <2>3, <2>4
<1>15. \A c \in C : E[c].at = F[c].at /\ E[c].metadata = F[c].metadata
  BY <1>9
<1> HIDE DEF own, stored, C, T, E, F
<1> QED BY <1>3, <1>10, <1>11, <1>12, <1>13, <1>14, <1>15
        DEF Collected, own, stored, C, T, E, F

\* The collection catalog's cursor returns what it would after the commit.
LEMMA CollectionCursorSees ==
  ASSUME NEW ts, NEW s, NEW r, Sane(r, s, ts), Tidy(r),
         NEW direction \in Direction, NEW start \in StartAt(Place)
  PROVE  SameListing(Returned(CollectionCursor(r, direction, start)),
                     Listed(CollectionsAfter(r), direction, start))
<1> DEFINE C == Mine(r)
           T == Overlaid(r)
           E == Listing(r)
           G == Committed(r)
           O == OwnCollections(r)
           B == {e \in StoredCollections(r) : ~\E o \in O : o.id = e.id \/ o.at = e.at}
           F == CollectionsAfter(r)
           cursor == CollectionCursor(r, direction, start)
<1>1. cursor = Opened("Collections", direction, start,
                      From(B, direction, start), From(O, direction, start))
  BY DEF CollectionCursor
<1>2. /\ O = {E[c] : c \in T} /\ B = {E[c] : c \in C \ T} /\ F = {G[c] : c \in C}
      /\ E \in [C -> Entries] /\ G \in [C -> Entries] /\ T \subseteq C
      /\ \A c \in C : E[c].at = G[c].at /\ E[c].metadata = G[c].metadata
      /\ \A c, d \in C : E[c].at = E[d].at => c = d
  BY CollectionsAreCollected DEF Collected
<1>3. IsFiniteSet(C)
  BY CollectionsSettle DEF Settles
<1> HIDE DEF C, T, E, G, O, B, F, cursor
<1>4. IsFiniteSet(T) /\ IsFiniteSet(C \ T)
  BY <1>2, <1>3, FS_Subset
<1>5. Listable(O)
  BY <1>2, <1>4, ImageIsListable
<1>6. Listable(B)
  <2>1. C \ T \in SUBSET C /\ \A c, d \in C \ T : E[c].at = E[d].at => c = d
    BY <1>2
  <2>2. Listable({E[c] : c \in C \ T})
    BY <1>2, <1>4, <2>1, ImageIsListable
  <2> QED BY <1>2, <2>2
<1>7. Listable(F)
  <2>1. C \in SUBSET C /\ \A c, d \in C : G[c].at = G[d].at => c = d
    BY <1>2
  <2>2. Listable({G[c] : c \in C})
    BY <1>2, <1>3, <2>1, ImageIsListable
  <2> QED BY <1>2, <2>2
<1>8. Covering(F, B, O)
  <2>1. \A e \in F : \E f \in B \cup O : f.at = e.at /\ f.metadata = e.metadata
    <3> SUFFICES ASSUME NEW c \in C
                 PROVE  \E f \in B \cup O : f.at = G[c].at /\ f.metadata = G[c].metadata
      BY <1>2
    <3>1. E[c] \in B \cup O
      BY <1>2
    <3> QED BY <1>2, <3>1
  <2>2. \A f \in B \cup O : \E e \in F : e.at = f.at /\ e.metadata = f.metadata
    BY <1>2
  <2>3. \A f \in B, o \in O : f.at # o.at
    BY <1>2
  <2> QED BY <2>1, <2>2, <2>3 DEF Covering
<1>9. SameListing(Returned(cursor), Listed(F, direction, start))
  BY <1>1, <1>5, <1>6, <1>7, <1>8, MergedListing
<1> QED BY <1>9 DEF cursor, F

\* The indexes of a store's collection, as a catalog cursor lists them.
LEMMA IndexesAreListable ==
  ASSUME NEW ts, NEW p, WellTyped(p, ts), NEW id
  PROVE  Listable({Entry(p.indexes[k].id, k[2], p.indexes[k].metadata) :
                     k \in {l \in DOMAIN p.indexes : l[1] = id}})
<1> DEFINE q == [snapshot |-> p, writes |-> NoWrites]
<1>1. q.snapshot = p /\ q.writes = NoWrites
  OBVIOUS
<1> HIDE DEF q
<1>2. Sound(q.writes, {}, {})
  <2>1. Sound(NoWrites, {}, {})
    BY NothingWritten
  <2> QED BY <1>1, <2>1
<1>3. NewNamed(q.writes, q.snapshot, {})
  <2>1. /\ NoWrites.newCollections = NoTable /\ NoWrites.newIndexes = NoTable
        /\ DOMAIN NoTable = {}
    BY DEF NoWrites, NoTable
  <2> QED BY <1>1, <2>1 DEF NewNamed
<1>4. Listable(StoredIndexes(q, id))
  BY <1>1, <1>2, <1>3, IndexesAreNamed
<1> QED BY <1>1, <1>4 DEF StoredIndexes

\* The index catalog's cursor returns what it would after the commit, for every collection
\* that the transaction can name.
LEMMA IndexCursorSees ==
  ASSUME NEW ts, NEW s, NEW r, Sane(r, s, ts), Tidy(r), NEW c \in Mine(r),
         NEW direction \in Direction, NEW start \in StartAt(Place)
  PROVE  SameListing(Returned(IndexCatalogCursor(r, c, direction, start)),
                     Listed(IndexesAfter(r, c), direction, start))
<1> DEFINE w == r.writes
           b == r.snapshot
           a == AsSeen(r)
           v == r.ts + 1
           new == NewIds(a, w)
           created == CollectionsCreated(a, w, v)
           indexed == IndexesCreated(created, w, new)
           p == After(r)
           id == Settled(r, c)
           last == b.lastCollection
           O == OwnIndexes(r, c)
           S == StoredIndexes(r, c)
           B == {e \in S : ~\E o \in O : o.at = e.at}
           F == IndexesAfter(r, c)
           cursor == IndexCatalogCursor(r, c, direction, start)
           Key(l) == KeyFor(w, new, l)
           Of(l) == Entry(l[2], w.newIndexes[l].name, w.newIndexes[l].metadata)
           Was(k) == Entry(b.indexes[k].id, k[2], b.indexes[k].metadata)
           Is(k) == Entry(p.indexes[k].id, k[2], p.indexes[k].metadata)
<1>1. cursor = Opened("Indexes", direction, start,
                      From(B, direction, start), From(O, direction, start))
  BY DEF IndexCatalogCursor
<1>2. /\ Catalogued(b, ts) /\ WellTyped(b, ts) /\ r.ts \in Nat
      /\ Sound(w, ShownIds(r), IndexIds(b))
      /\ Owned(b) /\ NewNamed(w, b, ShownIds(r))
  BY DEF Sane, Catalogued, Tidy
<1>3. Listable(O) /\ Listable(S) /\ \A f \in S, o \in O : f.at # o.at
  BY <1>2, IndexesAreNamed
<1>4. B = S
  BY <1>3
<1>5. /\ F = {Is(k) : k \in {l \in DOMAIN p.indexes : l[1] = id}}
      /\ S = {Was(k) : k \in {l \in DOMAIN b.indexes : l[1] = c}}
      /\ O = {Of(l) : l \in {l \in DOMAIN w.newIndexes : l[1] = c}}
  BY DEF IndexesAfter, StoredIndexes, OwnIndexes
<1>6. Settles(r) /\ Unfolds(r) /\ \A d : Settled(r, d) = Resolve(d, new)
  BY CollectionsSettle, PutUnfolds DEF Settled
<1>7. Listable(F)
  <2>1. WellTyped(p, v)
    BY <1>6 DEF Unfolds, Catalogued
  <2> HIDE DEF p, v, id, F
  <2>2. Listable({Entry(p.indexes[k].id, k[2], p.indexes[k].metadata) :
                    k \in {l \in DOMAIN p.indexes : l[1] = id}})
    BY <2>1, IndexesAreListable
  <2> QED BY <1>5, <2>2
<1>8. /\ DOMAIN b.indexes \subseteq DOMAIN p.indexes
      /\ \A k \in DOMAIN b.indexes : p.indexes[k] = b.indexes[k]
      /\ \A k \in DOMAIN p.indexes : k \notin DOMAIN b.indexes =>
           \E l \in DOMAIN w.newIndexes :
             k = Key(l) /\ p.indexes[k].metadata = w.newIndexes[l].metadata
      /\ \A l \in DOMAIN w.newIndexes : Key(l) \in DOMAIN p.indexes
  <2>1. /\ IndexGrown(indexed, created, w, new) /\ p.indexes = indexed.indexes
        /\ DOMAIN indexed.indexes = DOMAIN created.indexes \cup NewKeys(w, new)
        /\ created.indexes = a.indexes
    BY <1>6 DEF Unfolds, Indexed, Created
  <2>2. a.indexes = b.indexes
    BY <1>2, SeenIsComplete
  <2>3. \A l \in DOMAIN w.newIndexes : Key(l) \in NewKeys(w, new)
    BY DEF NewKeys
  <2> HIDE DEF indexed, created, p, a, b, new, Key
  <2> QED BY <2>1, <2>2, <2>3 DEF IndexGrown, Key
<1>9. \A k \in DOMAIN b.indexes : k[1] \in 1 .. last /\ k = <<k[1], k[2]>>
  <2>1. IsTable(b.indexes, IndexKeys, IndexRows)
    <3> HIDE DEF b
    <3> QED BY <1>2, FieldTypes
  <2>2. \A n \in DOMAIN b.ids : b.ids[n] \in 1 .. last
    <3> HIDE DEF b
    <3> QED BY <1>2, IdsArePositive DEF b
  <2>3. \A k \in DOMAIN b.indexes : k[1] \in 1 .. last
    BY <1>2, <2>2 DEF Owned
  <2>4. \A k \in DOMAIN b.indexes : k = <<k[1], k[2]>>
    BY <2>1 DEF IsTable, IndexKeys
  <2> QED BY <2>3, <2>4
<1>10. ASSUME id \in 1 .. last \/ c \in 1 .. last
       PROVE  id = c
  <2>1. c \in New(r) \/ c \in ShownIds(r)
    BY DEF Mine, Cols, New
  <2>2. c \notin New(r)
    <3> SUFFICES ASSUME c \in New(r)
                 PROVE  FALSE
      OBVIOUS
    <3>1. ~(c >= 0) /\ id > last /\ last \in Nat
      BY <1>6 DEF Settles
    <3> HIDE DEF id, last
    <3> QED BY <1>10, <3>1
  <2> QED BY <1>6, <2>1, <2>2 DEF Settles
<1>11. \A l \in DOMAIN w.newIndexes : Key(l)[1] = Settled(r, l[1])
                                      /\ Key(l)[2] = w.newIndexes[l].name
                                      /\ Key(l) = <<Settled(r, l[1]), w.newIndexes[l].name>>
  BY <1>6 DEF KeyFor
<1>12. ASSUME NEW l \in DOMAIN w.newIndexes, Settled(r, l[1]) = id
       PROVE  l[1] = c
  <2>1. l[1] \in Mine(r)
    BY <1>2, WritesBelong DEF Mine
  <2> QED BY <1>6, <1>12, <2>1 DEF Settles
<1>13. /\ \A k : Is(k).at = PlaceOf(k[2]) /\ Is(k).metadata = p.indexes[k].metadata
       /\ \A k : Was(k).at = PlaceOf(k[2]) /\ Was(k).metadata = b.indexes[k].metadata
       /\ \A l : /\ Of(l).at = PlaceOf(w.newIndexes[l].name)
                 /\ Of(l).metadata = w.newIndexes[l].metadata
  BY EntryParts
<1> HIDE DEF Is, Was, Of, Key, F, S, O, B, p, id, last, cursor
<1>14. ASSUME NEW e \in F
       PROVE  \E f \in S \cup O : f.at = e.at /\ f.metadata = e.metadata
  <2>1. PICK k \in DOMAIN p.indexes : k[1] = id /\ e = Is(k)
    BY <1>5
  <2>2. CASE k \in DOMAIN b.indexes
    <3>1. k[1] = c /\ p.indexes[k] = b.indexes[k]
      BY <1>8, <1>9, <1>10, <2>1, <2>2
    <3>2. Was(k) \in S
      BY <1>5, <2>2, <3>1
    <3>3. Is(k).at = Was(k).at /\ Is(k).metadata = Was(k).metadata
      BY <1>13, <3>1
    <3> QED BY <2>1, <3>2, <3>3
  <2>3. CASE k \notin DOMAIN b.indexes
    <3>1. PICK l \in DOMAIN w.newIndexes :
            k = Key(l) /\ p.indexes[k].metadata = w.newIndexes[l].metadata
      BY <1>8, <2>3
    <3>2. l[1] = c /\ k[2] = w.newIndexes[l].name
      BY <1>11, <1>12, <2>1, <3>1
    <3>3. Of(l) \in O
      BY <1>5, <3>2
    <3>4. e.at = PlaceOf(k[2]) /\ e.metadata = p.indexes[k].metadata
      BY <1>13, <2>1
    <3>5. Of(l).at = PlaceOf(k[2]) /\ Of(l).metadata = w.newIndexes[l].metadata
      BY <1>13, <3>2
    <3> QED BY <3>1, <3>3, <3>4, <3>5
  <2> QED BY <2>2, <2>3
<1>15. ASSUME NEW f \in S
       PROVE  \E e \in F : e.at = f.at /\ e.metadata = f.metadata
  <2>1. PICK k \in DOMAIN b.indexes : k[1] = c /\ f = Was(k)
    BY <1>5
  <2>2. k[1] = id /\ k \in DOMAIN p.indexes /\ p.indexes[k] = b.indexes[k]
    BY <1>8, <1>9, <1>10, <2>1
  <2>3. Is(k) \in F
    BY <1>5, <2>2
  <2> QED BY <1>13, <2>1, <2>2, <2>3
<1>16. ASSUME NEW f \in O
       PROVE  \E e \in F : e.at = f.at /\ e.metadata = f.metadata
  <2>1. PICK l \in DOMAIN w.newIndexes : l[1] = c /\ f = Of(l)
    BY <1>5
  <2> DEFINE k == Key(l)
  <2>2. k \in DOMAIN p.indexes /\ k[1] = id /\ k[2] = w.newIndexes[l].name
        /\ k = <<id, w.newIndexes[l].name>>
    BY <1>8, <1>11, <2>1 DEF id
  <2> HIDE DEF k
  <2>3. k \notin DOMAIN b.indexes
    <3> SUFFICES ASSUME k \in DOMAIN b.indexes
                 PROVE  FALSE
      OBVIOUS
    <3>1. id = c
      BY <1>9, <1>10, <2>2
    <3>2. k = <<l[1], w.newIndexes[l].name>>
      BY <2>1, <2>2, <3>1
    <3> QED BY <1>2, <3>2 DEF NewNamed
  <2>4. PICK m \in DOMAIN w.newIndexes :
          k = Key(m) /\ p.indexes[k].metadata = w.newIndexes[m].metadata
    BY <1>8, <2>2, <2>3
  <2>5. m[1] = l[1] /\ w.newIndexes[m].name = w.newIndexes[l].name
    BY <1>11, <1>12, <2>1, <2>2, <2>4
  <2>6. m = l
    BY <1>2, <2>5 DEF NewNamed
  <2>7. Is(k) \in F
    BY <1>5, <2>2
  <2>8. f.at = PlaceOf(k[2]) /\ f.metadata = w.newIndexes[l].metadata
    BY <1>13, <2>1, <2>2
  <2>9. Is(k).at = PlaceOf(k[2]) /\ Is(k).metadata = w.newIndexes[l].metadata
    BY <1>13, <2>4, <2>6
  <2> QED BY <2>7, <2>8, <2>9
<1>17. Covering(F, S, O)
  BY <1>3, <1>14, <1>15, <1>16 DEF Covering
<1>18. SameListing(Returned(cursor), Listed(F, direction, start))
  <2>1. cursor = Opened("Indexes", direction, start,
                        From(S, direction, start), From(O, direction, start))
    BY <1>1, <1>4
  <2> QED BY <1>3, <1>7, <1>17, <2>1, MergedListing
<1> QED BY <1>18 DEF cursor, F

\* get_collections_catalog_cursor, get_indexes_catalog_cursor: what a transaction's
\* catalog cursors return is what they would after its commit, each name once, in both
\* directions and from every start.
THEOREM CatalogCursorsSeeTheCommit == Spec => []CatalogReadsOwnWrites
<1>1. ASSUME TidyInv, NEW t \in Tx, NEW direction \in Direction, NEW start \in StartAt(Place)
      PROVE  /\ SameListing(Returned(CollectionCursor(tx[t], direction, start)),
                            Listed(CollectionsAfter(tx[t]), direction, start))
             /\ \A c \in {Collection(tx[t], n) : n \in Name} : c # NoId =>
                  SameListing(Returned(IndexCatalogCursor(tx[t], c, direction, start)),
                              Listed(IndexesAfter(tx[t], c), direction, start))
  <2> DEFINE r == tx[t]
  <2>1. Sane(r, store, lastTs) /\ Tidy(r)
    BY <1>1 DEF TidyInv, CatalogInv
  <2>2. NewCollections(r.writes)
    BY <2>1 DEF Sane, Sound
  <2> HIDE DEF r
  <2>3. SameListing(Returned(CollectionCursor(r, direction, start)),
                    Listed(CollectionsAfter(r), direction, start))
    BY <2>1, CollectionCursorSees
  <2>4. ASSUME NEW n \in Name, Collection(r, n) # NoId
        PROVE  LET c == Collection(r, n)
               IN SameListing(Returned(IndexCatalogCursor(r, c, direction, start)),
                              Listed(IndexesAfter(r, c), direction, start))
    <3>1. Collection(r, n) \in Mine(r)
      BY <2>2, <2>4, CollectionsFound DEF Mine
    <3> QED BY <2>1, <3>1, IndexCursorSees
  <2> QED BY <2>3, <2>4 DEF r
<1>2. TidyInv => CatalogReadsOwnWrites
  BY <1>1 DEF CatalogReadsOwnWrites
<1> QED BY <1>2, NewNamesHold, PTL

-----------------------------------------------------------------------------
(* Whose the index ids of a transaction are *)

\* Index i is one of collection c: a new one of the write set w, or one of the store s.
IndexOfCollection(w, s, c, i) ==
  \/ <<c, i>> \in DOMAIN w.newIndexes
  \/ \E k \in DOMAIN s.indexes : k[1] = c /\ s.indexes[k].id = i

\* No two new indexes of w have one temporary id, the next one is new as well, and every
\* index entry is of an index of its collection.
Belongs(w, s, lastTemp) ==
  /\ \A k \in DOMAIN w.newIndexes : k[2] >= lastTemp
  /\ \A k, l \in DOMAIN w.newIndexes : k[2] = l[2] => k = l
  /\ \A k \in DOMAIN w.entries : IndexOfCollection(w, s, k[1], k[2])

\* So it is for every transaction.
BelongInv == TidyInv /\ \A t \in Tx : Belongs(tx[t].writes, tx[t].snapshot, tx[t].lastTemp)

\* One index more with the next temporary id, or one entry more of an index of its collection.
LEMMA WritesStillBelong ==
  ASSUME NEW w, NEW ids, NEW indexIds, Sound(w, ids, indexIds), NEW s, NEW last \in Int,
         Belongs(w, s, last)
  PROVE  /\ \A c, index :
              Belongs([w EXCEPT !.newIndexes = Inserted(@, <<c, last - 1>>, index)], s, last - 1)
         /\ \A c, i, doc, op : IndexOfCollection(w, s, c, i)
              => Belongs([w EXCEPT !.entries = Inserted(@, <<c, i, doc>>, op)], s, last)
         /\ \A v : v.newIndexes = w.newIndexes /\ v.entries = w.entries
                     => Belongs(v, s, last) /\ Belongs(v, s, last - 1)
<1>1. w \in [newCollections : {w.newCollections}, newIndexes : {w.newIndexes}, docs : {w.docs},
             entries : {w.entries}, metadata : {w.metadata}]
  BY DEF Sound
<1>2. \A k \in DOMAIN w.newIndexes : k[2] \in Int /\ k[2] >= last
  BY DEF Sound, NewIndexes, IsTable, Temporary, Belongs
<1>3. ASSUME NEW c, NEW index
      PROVE  Belongs([w EXCEPT !.newIndexes = Inserted(@, <<c, last - 1>>, index)], s, last - 1)
  <2> DEFINE key == <<c, last - 1>>
             table == Inserted(w.newIndexes, key, index)
             v == [w EXCEPT !.newIndexes = table]
  <2>1. v.newIndexes = table /\ v.entries = w.entries
    BY <1>1
  <2>2. key[2] = last - 1
    OBVIOUS
  <2>3. DOMAIN table = DOMAIN w.newIndexes \cup {key}
    BY DEF Inserted
  <2> HIDE DEF key, table, v
  <2>4. \A k \in DOMAIN table : k[2] >= last - 1
    BY <1>2, <2>2, <2>3
  <2>5. \A k \in DOMAIN w.newIndexes : k[2] # key[2]
    BY <1>2, <2>2
  <2>6. \A k, l \in DOMAIN table : k[2] = l[2] => k = l
    BY <2>3, <2>5 DEF Belongs
  <2>7. \A k \in DOMAIN w.entries : IndexOfCollection(v, s, k[1], k[2])
    BY <2>1, <2>3 DEF Belongs, IndexOfCollection
  <2>8. Belongs(v, s, last - 1)
    BY <2>1, <2>4, <2>6, <2>7 DEF Belongs
  <2> QED BY <2>8 DEF v, table, key
<1>4. ASSUME NEW c, NEW i, NEW doc, NEW op, IndexOfCollection(w, s, c, i)
      PROVE  Belongs([w EXCEPT !.entries = Inserted(@, <<c, i, doc>>, op)], s, last)
  <2> DEFINE key == <<c, i, doc>>
             table == Inserted(w.entries, key, op)
             v == [w EXCEPT !.entries = table]
  <2>1. v.newIndexes = w.newIndexes /\ v.entries = table
    BY <1>1
  <2>2. key[1] = c /\ key[2] = i
    OBVIOUS
  <2>3. DOMAIN table = DOMAIN w.entries \cup {key}
    BY DEF Inserted
  <2> HIDE DEF key, table, v
  <2>4. \A k \in DOMAIN table : IndexOfCollection(w, s, k[1], k[2])
    BY <1>4, <2>2, <2>3 DEF Belongs
  <2>5. Belongs(v, s, last)
    BY <2>1, <2>4 DEF Belongs, IndexOfCollection
  <2> QED BY <2>5 DEF v, table, key
<1>5. ASSUME NEW v, v.newIndexes = w.newIndexes, v.entries = w.entries
      PROVE  Belongs(v, s, last) /\ Belongs(v, s, last - 1)
  <2>1. \A k \in DOMAIN w.newIndexes : k[2] >= last /\ k[2] >= last - 1
    BY <1>2
  <2> QED BY <1>5, <2>1 DEF Belongs, IndexOfCollection
<1> QED BY <1>3, <1>4, <1>5

\* An index that a transaction finds is one of the collection.
LEMMA FoundBelong ==
  ASSUME NEW ts, NEW r, WellTyped(r.snapshot, ts), NEW ids, NEW indexIds,
         Sound(r.writes, ids, indexIds), NEW c, NEW e \in Indexes(r, c)
  PROVE  IndexOfCollection(r.writes, r.snapshot, c, e.id)
<1>1. e \in OwnIndexes(r, c) \cup StoredIndexes(r, c)
  BY IndexesAreEntries
<1>2. ASSUME e \in OwnIndexes(r, c)
      PROVE  <<c, e.id>> \in DOMAIN r.writes.newIndexes
  <2>1. PICK k \in DOMAIN r.writes.newIndexes : k[1] = c /\ e.id = k[2]
    BY <1>2 DEF OwnIndexes, Entry
  <2>2. k = <<k[1], k[2]>>
    BY DEF Sound, NewIndexes, IsTable
  <2> QED BY <2>1, <2>2
<1>3. ASSUME e \in StoredIndexes(r, c)
      PROVE  \E k \in DOMAIN r.snapshot.indexes : k[1] = c /\ r.snapshot.indexes[k].id = e.id
  BY <1>3 DEF StoredIndexes, Entry
<1> QED BY <1>1, <1>2, <1>3 DEF IndexOfCollection

\* A transaction's writes belong where they do when they are recorded.
LEMMA RecordStillBelongs ==
  ASSUME BelongInv, NEW t \in Tx, NEW writes, NEW lastTemp, Record(t, writes, lastTemp),
         Belongs(writes, tx[t].snapshot, lastTemp)
  PROVE  \A u \in Tx : Belongs(tx'[u].writes, tx'[u].snapshot, tx'[u].lastTemp)
<1> DEFINE r == tx[t]
           q == [r EXCEPT !.writes = writes, !.lastTemp = lastTemp]
<1>1. r \in [phase : {r.phase}, snapshot : {r.snapshot}, ts : Nat, writes : {r.writes},
             lastTemp : Int]
  BY DEF BelongInv, TidyInv, CatalogInv, Sane
<1>2. tx' = [tx EXCEPT ![t] = q] /\ tx = [u \in Tx |-> tx[u]]
  BY DEF Record, BelongInv, TidyInv, CatalogInv
<1> HIDE DEF r
<1>3. q.snapshot = r.snapshot /\ q.lastTemp = lastTemp /\ q.writes = writes
  BY <1>1
<1> HIDE DEF q
<1>4. \A u \in Tx : tx'[u] = IF u = t THEN q ELSE tx[u]
  BY <1>2
<1> QED BY <1>3, <1>4 DEF BelongInv, r

\* A transaction that has written nothing.
LEMMA FreshBelongs ==
  ASSUME NEW r, Fresh(r)
  PROVE  Belongs(r.writes, r.snapshot, r.lastTemp)
<1>1. r.writes = NoWrites
  BY DEF Fresh
<1>2. DOMAIN NoWrites.newIndexes = {} /\ DOMAIN NoWrites.entries = {}
  BY DEF NoWrites, NoTable
<1> QED BY <1>1, <1>2 DEF Belongs

\* Every step keeps the writes where they belong.
LEMMA BelongStep == BelongInv /\ [Next]_vars => BelongInv'
<1> DEFINE P == \A t \in Tx : Belongs(tx'[t].writes, tx'[t].snapshot, tx'[t].lastTemp)
<1> SUFFICES ASSUME BelongInv, [Next]_vars
             PROVE  P
  <2>1. BelongInv /\ [Next]_vars => TidyInv'
    BY TidyStep DEF BelongInv
  <2> QED BY <2>1 DEF BelongInv
<1>1. /\ tx = [t \in Tx |-> tx[t]]
      /\ \A t \in Tx : /\ Belongs(tx[t].writes, tx[t].snapshot, tx[t].lastTemp)
                       /\ Sane(tx[t], store, lastTs)
  BY DEF BelongInv, TidyInv, CatalogInv
<1>2. \A t \in Tx : /\ WellTyped(tx[t].snapshot, lastTs) /\ tx[t].lastTemp \in Int
                    /\ Sound(tx[t].writes, ShownIds(tx[t]), IndexIds(tx[t].snapshot))
                    /\ NextTemp(t) = tx[t].lastTemp - 1
  BY <1>1 DEF Sane, Catalogued, NextTemp
<1>3. \A t \in Tx : LET w == tx[t].writes
                    IN w \in [newCollections : {w.newCollections}, newIndexes : {w.newIndexes},
                              docs : {w.docs}, entries : {w.entries}, metadata : {w.metadata}]
  BY <1>2 DEF Sound
<1>4. ASSUME NEW t \in Tx, NEW q, Fresh(q), tx' = [tx EXCEPT ![t] = q]
      PROVE  P
  <2>1. \A u \in Tx : tx'[u] = IF u = t THEN q ELSE tx[u]
    BY <1>1, <1>4
  <2>2. Belongs(q.writes, q.snapshot, q.lastTemp)
    BY <1>4, FreshBelongs
  <2> QED BY <1>1, <2>1, <2>2
<1>5. ASSUME NEW t \in Tx, NEW v, NEW last \in {tx[t].lastTemp, NextTemp(t)}, Record(t, v, last),
             v.newIndexes = tx[t].writes.newIndexes, v.entries = tx[t].writes.entries
      PROVE  P
  <2> DEFINE w == tx[t].writes
             s == tx[t].snapshot
             temp == tx[t].lastTemp
  <2>1. /\ Sound(w, ShownIds(tx[t]), IndexIds(s)) /\ temp \in Int /\ Belongs(w, s, temp)
        /\ v.newIndexes = w.newIndexes /\ v.entries = w.entries
    BY <1>1, <1>2, <1>5
  <2>2. last = temp \/ last = temp - 1
    BY <1>2
  <2> HIDE DEF w, s, temp
  <2>3. Belongs(v, s, last)
    BY <2>1, <2>2, WritesStillBelong
  <2> QED BY <1>5, <2>3, RecordStillBelongs DEF s
<1>6. ASSUME NEW t \in Tx, Begin(t)
      PROVE  P
  <2> DEFINE q == [NoTx EXCEPT !.phase = "open", !.snapshot = store, !.ts = visible]
  <2>1. Fresh(q)
    BY DEF NoTx, Fresh, BelongInv, TidyInv, CatalogInv
  <2>2. tx' = [tx EXCEPT ![t] = q]
    BY <1>6 DEF Begin
  <2> HIDE DEF q
  <2> QED BY <1>4, <2>1, <2>2
<1>7. ASSUME NEW t \in Tx, NEW name \in Name, NewCollection(t, name)
      PROVE  P
  <2> DEFINE v == [tx[t].writes EXCEPT !.newCollections = Inserted(@, NextTemp(t), name)]
  <2>1. Record(t, v, NextTemp(t))
    BY <1>7 DEF NewCollection
  <2>2. v.newIndexes = tx[t].writes.newIndexes /\ v.entries = tx[t].writes.entries
    BY <1>3
  <2> HIDE DEF v
  <2> QED BY <1>5, <2>1, <2>2
<1>8. ASSUME NEW t \in Tx, NEW collection \in Name, NEW name \in Name, NEW metadata \in Metadata,
             NewIndex(t, collection, name, metadata)
      PROVE  P
  <2> DEFINE r == tx[t]
             c == Collection(r, collection)
             index == [name |-> name, metadata |-> metadata]
             last == NextTemp(t)
             writes == [r.writes EXCEPT !.newIndexes = Inserted(@, <<c, last>>, index)]
  <2>1. Record(t, writes, last)
    BY <1>8 DEF NewIndex
  <2>2. /\ Sound(r.writes, ShownIds(r), IndexIds(r.snapshot)) /\ r.lastTemp \in Int
        /\ Belongs(r.writes, r.snapshot, r.lastTemp) /\ last = r.lastTemp - 1
    BY <1>1, <1>2
  <2> HIDE DEF c, index, r, last
  <2>3. Belongs(writes, r.snapshot, last)
    BY <2>2, WritesStillBelong
  <2> HIDE DEF writes
  <2> QED BY <2>1, <2>3, RecordStillBelongs DEF r
<1>9. ASSUME NEW t \in Tx, NEW collection \in Name, NEW doc \in Doc,
             WriteDocument(t, collection, doc)
      PROVE  P
  <2> DEFINE c == Collection(tx[t], collection)
             v == [tx[t].writes EXCEPT !.docs = Inserted(@, <<c, doc>>, t)]
  <2>1. Record(t, v, tx[t].lastTemp)
    BY <1>9 DEF WriteDocument
  <2> HIDE DEF c
  <2>2. v.newIndexes = tx[t].writes.newIndexes /\ v.entries = tx[t].writes.entries
    BY <1>3
  <2> HIDE DEF v
  <2> QED BY <1>5, <2>1, <2>2
<1>10. ASSUME NEW t \in Tx, NEW collection \in Name, NEW name \in Name, NEW doc \in Doc,
              NEW op \in {"Put", "Deleted"}, WriteIndexEntry(t, collection, name, doc, op)
       PROVE  P
  <2> DEFINE r == tx[t]
             c == Collection(r, collection)
  <2>1. PICK e \in Indexes(r, c) :
          Record(t, [r.writes EXCEPT !.entries = Inserted(@, <<c, e.id, doc>>, op)], r.lastTemp)
    BY <1>10 DEF WriteIndexEntry
  <2> DEFINE i == e.id
             writes == [r.writes EXCEPT !.entries = Inserted(@, <<c, i, doc>>, op)]
             last == r.lastTemp
  <2>2. Record(t, writes, last)
    BY <2>1
  <2>3. /\ Sound(r.writes, ShownIds(r), IndexIds(r.snapshot)) /\ last \in Int
        /\ Belongs(r.writes, r.snapshot, last) /\ WellTyped(r.snapshot, lastTs)
    BY <1>1, <1>2
  <2> HIDE DEF c, r
  <2>4. IndexOfCollection(r.writes, r.snapshot, c, i)
    BY <2>3, FoundBelong
  <2> HIDE DEF i, last
  <2>5. Belongs(writes, r.snapshot, last)
    BY <2>3, <2>4, WritesStillBelong
  <2> HIDE DEF writes
  <2> QED BY <2>2, <2>5, RecordStillBelongs DEF r
<1>11. ASSUME NEW t \in Tx, NEW collection \in Name, NEW metadata \in Metadata,
              UpdateCollectionMetadata(t, collection, metadata)
       PROVE  P
  <2> DEFINE c == Collection(tx[t], collection)
             v == [tx[t].writes EXCEPT !.metadata = Inserted(@, c, metadata)]
  <2>1. Record(t, v, tx[t].lastTemp)
    BY <1>11 DEF UpdateCollectionMetadata
  <2> HIDE DEF c
  <2>2. v.newIndexes = tx[t].writes.newIndexes /\ v.entries = tx[t].writes.entries
    BY <1>3
  <2> HIDE DEF v
  <2> QED BY <1>5, <2>1, <2>2
<1>12. ASSUME NEW t \in Tx, Commit(t)
       PROVE  P
  <2> DEFINE q == [NoTx EXCEPT !.phase = "done"]
  <2>1. Fresh(q)
    BY DEF NoTx, Fresh
  <2>2. tx' = [tx EXCEPT ![t] = q]
    BY <1>12 DEF Commit
  <2> HIDE DEF q
  <2> QED BY <1>4, <2>1, <2>2
<1>13. CASE Publish \/ UNCHANGED vars
  <2>1. tx' = tx
    BY <1>13 DEF Publish, vars
  <2> QED BY <1>1, <2>1
<1> HIDE DEF P
<1> QED BY <1>6, <1>7, <1>8, <1>9, <1>10, <1>11, <1>12, <1>13 DEF Next

\* They belong there in the beginning.
LEMMA BelongInit == Init => BelongInv
<1> SUFFICES ASSUME Init
             PROVE  BelongInv
  OBVIOUS
<1>1. tx = [t \in Tx |-> NoTx] /\ Fresh(NoTx)
  BY DEF Init, NoTx, Fresh
<1>2. Belongs(NoTx.writes, NoTx.snapshot, NoTx.lastTemp)
  BY <1>1, FreshBelongs
<1> QED BY <1>1, <1>2, TidyInit DEF BelongInv

-----------------------------------------------------------------------------
(* Tables under other keys *)

\* F has the rows of table t, each under the key that f gives for its own.
IsRenamed(F, t, f) ==
  /\ F = [x \in DOMAIN F |-> F[x]]
  /\ DOMAIN F = {f[k] : k \in DOMAIN t}
  /\ \A k \in DOMAIN t : F[f[k]] = t[k]

\* p has the rows of r, and those of t at other keys.
IsOver(p, r, t) ==
  /\ DOMAIN p = DOMAIN r \cup DOMAIN t
  /\ \A k \in DOMAIN p : p[k] = IF k \in DOMAIN r THEN r[k] ELSE t[k]

\* Keys that differ are given different ones.
Injective(f, S) == \A k, l \in S : f[k] = f[l] => k = l

\* What Renamed does.
LEMMA TableRenamed ==
  ASSUME NEW t, NEW f, Injective(f, DOMAIN t)
  PROVE  IsRenamed(Renamed(t, f), t, f)
<1> DEFINE D == DOMAIN t
           Of(n) == CHOOSE k \in D : f[k] = n
           F == [n \in {f[k] : k \in D} |-> t[Of(n)]]
<1>1. ASSUME NEW k \in D
      PROVE  Of(f[k]) = k
  <2>1. Of(f[k]) \in D /\ f[Of(f[k])] = f[k]
    OBVIOUS
  <2> HIDE DEF Of
  <2> QED BY <2>1 DEF Injective
<1>2. F = Renamed(t, f)
  BY DEF Renamed
<1>3. \A k \in D : F[f[k]] = t[Of(f[k])]
  <2> HIDE DEF Of
  <2> QED OBVIOUS
<1>4. F = [x \in DOMAIN F |-> F[x]] /\ DOMAIN F = {f[k] : k \in D}
  <2> HIDE DEF Of
  <2> QED OBVIOUS
<1> HIDE DEF F, Of
<1> QED BY <1>1, <1>2, <1>3, <1>4 DEF IsRenamed

\* One table is under those keys.
LEMMA RenamedIsOne ==
  ASSUME NEW F, NEW G, NEW t, NEW f, IsRenamed(F, t, f), IsRenamed(G, t, f)
  PROVE  F = G
<1>1. DOMAIN F = DOMAIN G
  BY DEF IsRenamed
<1>2. \A x \in DOMAIN F : F[x] = G[x]
  BY DEF IsRenamed
<1>3. F = [x \in DOMAIN F |-> F[x]] /\ G = [x \in DOMAIN G |-> G[x]]
  BY DEF IsRenamed
<1> QED BY <1>1, <1>2, <1>3

\* Other keys under other keys, and the same keys by another function.
LEMMA RenamedAgain ==
  ASSUME NEW F, NEW t, NEW f, IsRenamed(F, t, f), NEW g
  PROVE  /\ (\A k \in DOMAIN t : g[k] = f[k]) => IsRenamed(F, t, g)
         /\ \A u, h : IsRenamed(u, t, h) /\ (\A k \in DOMAIN t : f[k] = g[h[k]])
                        => IsRenamed(F, u, g)
         /\ \A G : IsRenamed(G, F, g) => IsRenamed(G, t, [k \in DOMAIN t |-> g[f[k]]])
<1>1. (\A k \in DOMAIN t : g[k] = f[k]) => IsRenamed(F, t, g)
  BY DEF IsRenamed
<1>2. ASSUME NEW u, NEW h, IsRenamed(u, t, h), \A k \in DOMAIN t : f[k] = g[h[k]]
      PROVE  IsRenamed(F, u, g)
  <2>1. DOMAIN F = {g[k] : k \in DOMAIN u}
    BY <1>2 DEF IsRenamed
  <2>2. \A k \in DOMAIN u : F[g[k]] = u[k]
    BY <1>2 DEF IsRenamed
  <2> QED BY <2>1, <2>2 DEF IsRenamed
<1>3. ASSUME NEW G, IsRenamed(G, F, g)
      PROVE  IsRenamed(G, t, [k \in DOMAIN t |-> g[f[k]]])
  <2> DEFINE e == [k \in DOMAIN t |-> g[f[k]]]
  <2>1. \A k \in DOMAIN t : e[k] = g[f[k]]
    OBVIOUS
  <2> HIDE DEF e
  <2>2. DOMAIN G = {e[k] : k \in DOMAIN t}
    BY <1>3, <2>1 DEF IsRenamed
  <2>3. \A k \in DOMAIN t : G[e[k]] = t[k]
    BY <1>3, <2>1 DEF IsRenamed
  <2>4. IsRenamed(G, t, e)
    BY <1>3, <2>2, <2>3 DEF IsRenamed
  <2> QED BY <2>4 DEF e
<1> QED BY <1>1, <1>2, <1>3

\* Rows over those of a table, under other keys.
LEMMA OverRenamed ==
  ASSUME NEW p, NEW r, NEW t, IsOver(p, r, t), NEW f, Injective(f, DOMAIN p),
         NEW G, IsRenamed(G, r, f), NEW H, IsRenamed(H, t, f)
  PROVE  IsRenamed(Named!Over(G, H), p, f)
<1> DEFINE F == Named!Over(G, H)
<1>1. F = [k \in DOMAIN G \cup DOMAIN H |-> IF k \in DOMAIN G THEN G[k] ELSE H[k]]
  BY DEF Named!Over
<1>2. /\ F = [x \in DOMAIN F |-> F[x]] /\ DOMAIN F = DOMAIN G \cup DOMAIN H
      /\ \A x \in DOMAIN F : F[x] = IF x \in DOMAIN G THEN G[x] ELSE H[x]
  BY <1>1
<1> HIDE DEF F
<1>3. DOMAIN F = {f[k] : k \in DOMAIN p}
  BY <1>2 DEF IsRenamed, IsOver
<1>4. ASSUME NEW k \in DOMAIN p
      PROVE  F[f[k]] = p[k]
  <2>1. f[k] \in DOMAIN F
    BY <1>3
  <2>2. CASE k \in DOMAIN r
    BY <1>2, <2>1, <2>2 DEF IsRenamed, IsOver
  <2>3. CASE k \notin DOMAIN r
    <3>1. f[k] \notin DOMAIN G
      <4> SUFFICES ASSUME f[k] \in DOMAIN G
                   PROVE  FALSE
        OBVIOUS
      <4>1. PICK l \in DOMAIN r : f[l] = f[k]
        BY DEF IsRenamed
      <4>2. l \in DOMAIN p
        BY DEF IsOver
      <4> QED BY <2>3, <4>1, <4>2 DEF Injective
    <3>2. k \in DOMAIN t /\ p[k] = t[k]
      BY <2>3 DEF IsOver
    <3> QED BY <1>2, <2>1, <3>1, <3>2 DEF IsRenamed
  <2> QED BY <2>2, <2>3
<1>5. IsRenamed(F, p, f)
  BY <1>2, <1>3, <1>4 DEF IsRenamed
<1> QED BY <1>5 DEF F

-----------------------------------------------------------------------------
(* The store by name *)

\* Every collection has the name that its id was given for.
LEMMA IdsHaveNames ==
  ASSUME NEW ts \in Nat, NEW s, Catalogued(s, ts)
  PROVE  /\ \A n \in DOMAIN s.ids : NameOf(s, s.ids[n]) = n
         /\ \A id \in CollectionIds(s) : NameOf(s, id) \in DOMAIN s.ids /\ s.ids[NameOf(s, id)] = id
<1>1. WellTyped(s, ts)
  BY DEF Catalogued
<1>2. ASSUME NEW n \in DOMAIN s.ids
      PROVE  NameOf(s, s.ids[n]) = n
  <2> DEFINE id == s.ids[n]
             newest == <<id, Max(AllVersionsOf(s, id))>>
  <2>1. PICK k \in DOMAIN s.rows : k[1] = id
    BY DEF Catalogued
  <2> HIDE DEF id
  <2>2. newest \in DOMAIN s.rows /\ AllVersionsOf(s, id) # {}
    BY <1>1, <2>1, NewestStored
  <2>3. newest[1] = id
    OBVIOUS
  <2>4. NameOf(s, id) = s.rows[newest].name
    BY <2>2 DEF NameOf
  <2> HIDE DEF newest
  <2>5. PICK m \in DOMAIN s.ids : newest[1] = s.ids[m] /\ s.rows[newest].name = m
    BY <2>2 DEF Catalogued
  <2>6. m = n
    BY <2>3, <2>5 DEF Catalogued, id
  <2> QED BY <2>4, <2>5, <2>6 DEF id
<1> QED BY <1>2 DEF CollectionIds

\* So has every index.
LEMMA IndexesHaveKeys ==
  ASSUME NEW s, Numbered(s)
  PROVE  \A k \in DOMAIN s.indexes : IndexOf(s, s.indexes[k].id) = k
<1> SUFFICES ASSUME NEW k \in DOMAIN s.indexes
             PROVE  IndexOf(s, s.indexes[k].id) = k
  OBVIOUS
<1> DEFINE l == CHOOSE l \in DOMAIN s.indexes : s.indexes[l].id = s.indexes[k].id
<1>1. l \in DOMAIN s.indexes /\ s.indexes[l].id = s.indexes[k].id
  OBVIOUS
<1>2. l = IndexOf(s, s.indexes[k].id)
  BY DEF IndexOf
<1> HIDE DEF l
<1> QED BY <1>1, <1>2 DEF Numbered

\* The names last.
LEMMA NamesLast ==
  ASSUME NEW ts \in Nat, NEW s, Catalogued(s, ts), NEW later \in Nat, NEW t, Catalogued(t, later),
         Extends(s, t)
  PROVE  /\ \A id \in CollectionIds(s) : id \in CollectionIds(t) /\ NameOf(t, id) = NameOf(s, id)
         /\ \A k \in DOMAIN s.indexes :
              k \in DOMAIN t.indexes /\ IndexOf(t, s.indexes[k].id) = k
<1>1. ASSUME NEW n \in DOMAIN s.ids
      PROVE  s.ids[n] \in CollectionIds(t) /\ NameOf(t, s.ids[n]) = NameOf(s, s.ids[n])
  <2>1. n \in DOMAIN t.ids /\ t.ids[n] = s.ids[n]
    BY DEF Extends
  <2>2. NameOf(s, s.ids[n]) = n
    BY IdsHaveNames
  <2>3. NameOf(t, t.ids[n]) = n
    BY <2>1, IdsHaveNames
  <2> QED BY <2>1, <2>2, <2>3 DEF CollectionIds
<1>2. \A k \in DOMAIN t.indexes : IndexOf(t, t.indexes[k].id) = k
  BY IndexesHaveKeys DEF Catalogued
<1>3. \A k \in DOMAIN s.indexes : k \in DOMAIN t.indexes /\ IndexOf(t, s.indexes[k].id) = k
  BY <1>2 DEF Extends
<1> QED BY <1>1, <1>3 DEF CollectionIds

\* The keys of a store's tables by name.
PairName(s, k) == <<NameOf(s, k[1]), k[2]>>
TripleName(s, k) == <<NameOf(s, k[1]), k[2], k[3]>>
RowNames(s, D) == [k \in D |-> PairName(s, k)]
DocNames(s, D) == [k \in D |-> TripleName(s, k)]
EntryNamed(s, e) == <<NameOf(s, IndexOf(s, e[1])[1]), IndexOf(s, e[1])[2], e[2]>>

\* They are what Content makes of them.
LEMMA KeysAreNamed ==
  ASSUME NEW s
  PROVE  /\ \A k \in Nat \X Nat : [k EXCEPT ![1] = NameOf(s, @)] = PairName(s, k)
         /\ \A k \in IndexKeys : [k EXCEPT ![1] = NameOf(s, @)] = PairName(s, k)
         /\ \A k \in DocKeys : [k EXCEPT ![1] = NameOf(s, @)] = TripleName(s, k)
<1>1. ASSUME NEW a, NEW b
      PROVE  [<<a, b>> EXCEPT ![1] = NameOf(s, @)] = <<NameOf(s, a), b>>
  OBVIOUS
<1>2. ASSUME NEW a, NEW b, NEW c
      PROVE  [<<a, b, c>> EXCEPT ![1] = NameOf(s, @)] = <<NameOf(s, a), b, c>>
  OBVIOUS
<1>3. \A k \in Nat \X Nat : k = <<k[1], k[2]>>
  OBVIOUS
<1>4. \A k \in IndexKeys : k = <<k[1], k[2]>>
  BY DEF IndexKeys
<1>5. \A k \in DocKeys : k = <<k[1], k[2], k[3]>>
  BY DEF DocKeys
<1>6. \A k : k = <<k[1], k[2]>> => [k EXCEPT ![1] = NameOf(s, @)] = PairName(s, k)
  BY <1>1 DEF PairName
<1>7. \A k : k = <<k[1], k[2], k[3]>> => [k EXCEPT ![1] = NameOf(s, @)] = TripleName(s, k)
  BY <1>2 DEF TripleName
<1> QED BY <1>3, <1>4, <1>5, <1>6, <1>7

\* Keys of collections that are there have names of their own.
LEMMA NamesDiffer ==
  ASSUME NEW ts \in Nat, NEW s, Catalogued(s, ts)
  PROVE  /\ \A i, j \in CollectionIds(s) : NameOf(s, i) = NameOf(s, j) => i = j
         /\ \A D : (\A k \in D : k[1] \in CollectionIds(s) /\ k = <<k[1], k[2]>>)
                     => Injective(RowNames(s, D), D)
         /\ \A D : (\A k \in D : k[1] \in CollectionIds(s) /\ k = <<k[1], k[2], k[3]>>)
                     => Injective(DocNames(s, D), D)
<1>1. ASSUME NEW i \in CollectionIds(s), NEW j \in CollectionIds(s), NameOf(s, i) = NameOf(s, j)
      PROVE  i = j
  <2>1. s.ids[NameOf(s, i)] = i /\ s.ids[NameOf(s, j)] = j
    BY IdsHaveNames
  <2> QED BY <1>1, <2>1
<1>2. ASSUME NEW D, \A k \in D : k[1] \in CollectionIds(s) /\ k = <<k[1], k[2]>>
      PROVE  Injective(RowNames(s, D), D)
  <2> SUFFICES ASSUME NEW k \in D, NEW l \in D, RowNames(s, D)[k] = RowNames(s, D)[l]
               PROVE  k = l
    BY DEF Injective
  <2>1. PairName(s, k) = PairName(s, l)
    BY DEF RowNames
  <2>2. NameOf(s, k[1]) = NameOf(s, l[1]) /\ k[2] = l[2]
    BY <2>1 DEF PairName
  <2> QED BY <1>1, <1>2, <2>2
<1>3. ASSUME NEW D, \A k \in D : k[1] \in CollectionIds(s) /\ k = <<k[1], k[2], k[3]>>
      PROVE  Injective(DocNames(s, D), D)
  <2> SUFFICES ASSUME NEW k \in D, NEW l \in D, DocNames(s, D)[k] = DocNames(s, D)[l]
               PROVE  k = l
    BY DEF Injective
  <2>1. TripleName(s, k) = TripleName(s, l)
    BY DEF DocNames
  <2>2. NameOf(s, k[1]) = NameOf(s, l[1]) /\ k[2] = l[2] /\ k[3] = l[3]
    BY <2>1 DEF TripleName
  <2> QED BY <1>1, <1>3, <2>2
<1> QED BY <1>1, <1>2, <1>3

\* The keys of a store's tables.
KeysOf(s) ==
  /\ \A k \in DOMAIN s.rows :
       k[1] \in CollectionIds(s) /\ k = <<k[1], k[2]>> /\ k \in Nat \X Nat
  /\ \A k \in DOMAIN s.indexes :
       k[1] \in CollectionIds(s) /\ k = <<k[1], k[2]>> /\ k \in IndexKeys
  /\ \A k \in DOMAIN s.docs :
       k[1] \in CollectionIds(s) /\ k = <<k[1], k[2], k[3]>> /\ k \in DocKeys

\* They are of collections that are there.
LEMMA KeysAreOwned ==
  ASSUME NEW ts \in Nat, NEW s, Catalogued(s, ts), Owned(s)
  PROVE  KeysOf(s)
<1>1. WellTyped(s, ts)
  BY DEF Catalogued
<1>2. /\ DOMAIN s.rows \subseteq RowKeys(ts) /\ DOMAIN s.indexes \subseteq IndexKeys
      /\ DOMAIN s.docs \subseteq DocKeys
  BY <1>1, FieldTypes DEF IsTable
<1>3. \A k \in DOMAIN s.rows \cup DOMAIN s.indexes \cup DOMAIN s.docs : k[1] \in CollectionIds(s)
  BY DEF Catalogued, Owned, CollectionIds
<1>4. \A k \in RowKeys(ts) : k \in Nat \X Nat /\ k = <<k[1], k[2]>>
  BY DEF RowKeys
<1>5. \A k \in IndexKeys : k = <<k[1], k[2]>>
  BY DEF IndexKeys
<1>6. \A k \in DocKeys : k = <<k[1], k[2], k[3]>>
  BY DEF DocKeys
<1> QED BY <1>2, <1>3, <1>4, <1>5, <1>6 DEF KeysOf

\* c is the store s by name.
ByName(c, s) ==
  /\ c \in [collections : {c.collections}, indexes : {c.indexes}, docs : {c.docs},
            entries : {c.entries}]
  /\ IsRenamed(c.collections, Described(s.rows), RowNames(s, DOMAIN s.rows))
  /\ IsRenamed(c.indexes, Described(s.indexes), RowNames(s, DOMAIN s.indexes))
  /\ IsRenamed(c.docs, s.docs, DocNames(s, DOMAIN s.docs))
  /\ c.entries = {EntryNamed(s, e) : e \in s.entries}

\* That is what Content is.
LEMMA ContentIsByName ==
  ASSUME NEW ts \in Nat, NEW s, Catalogued(s, ts), Owned(s)
  PROVE  ByName(Content(s), s)
<1> DEFINE Keys(table) == [k \in DOMAIN table |-> [k EXCEPT ![1] = NameOf(s, @)]]
           collections == Renamed(Described(s.rows), Keys(Described(s.rows)))
           indexes == Renamed(Described(s.indexes), Keys(Described(s.indexes)))
           docs == Renamed(s.docs, Keys(s.docs))
           entries == {EntryNamed(s, e) : e \in s.entries}
           c == Content(s)
<1>1. c = [collections |-> collections, indexes |-> indexes, docs |-> docs, entries |-> entries]
  BY DEF Content, EntryNamed
<1>2. /\ KeysOf(s)
      /\ DOMAIN Described(s.rows) = DOMAIN s.rows
      /\ DOMAIN Described(s.indexes) = DOMAIN s.indexes
  BY KeysAreOwned DEF Described
<1>3. Keys(Described(s.rows)) = RowNames(s, DOMAIN s.rows)
  <2> SUFFICES ASSUME NEW k \in DOMAIN s.rows
               PROVE  [k EXCEPT ![1] = NameOf(s, @)] = PairName(s, k)
    BY <1>2 DEF RowNames
  <2>1. k \in Nat \X Nat
    BY <1>2 DEF KeysOf
  <2> QED BY <2>1, KeysAreNamed
<1>4. Keys(Described(s.indexes)) = RowNames(s, DOMAIN s.indexes)
  <2> SUFFICES ASSUME NEW k \in DOMAIN s.indexes
               PROVE  [k EXCEPT ![1] = NameOf(s, @)] = PairName(s, k)
    BY <1>2 DEF RowNames
  <2>1. k \in IndexKeys
    BY <1>2 DEF KeysOf
  <2> QED BY <2>1, KeysAreNamed
<1>5. Keys(s.docs) = DocNames(s, DOMAIN s.docs)
  <2> SUFFICES ASSUME NEW k \in DOMAIN s.docs
               PROVE  [k EXCEPT ![1] = NameOf(s, @)] = TripleName(s, k)
    BY DEF DocNames
  <2>1. k \in DocKeys
    BY <1>2 DEF KeysOf
  <2> QED BY <2>1, KeysAreNamed
<1>6. /\ Injective(RowNames(s, DOMAIN s.rows), DOMAIN s.rows)
      /\ Injective(RowNames(s, DOMAIN s.indexes), DOMAIN s.indexes)
      /\ Injective(DocNames(s, DOMAIN s.docs), DOMAIN s.docs)
  BY <1>2, NamesDiffer DEF KeysOf
<1> HIDE DEF Keys
<1>7. IsRenamed(collections, Described(s.rows), RowNames(s, DOMAIN s.rows))
  BY <1>2, <1>3, <1>6, TableRenamed
<1>8. IsRenamed(indexes, Described(s.indexes), RowNames(s, DOMAIN s.indexes))
  BY <1>2, <1>4, <1>6, TableRenamed
<1>9. IsRenamed(docs, s.docs, DocNames(s, DOMAIN s.docs))
  BY <1>5, <1>6, TableRenamed
<1> HIDE DEF collections, indexes, docs, entries, c
<1>10. ByName(c, s)
  BY <1>1, <1>7, <1>8, <1>9 DEF ByName, entries
<1> QED BY <1>10 DEF c

-----------------------------------------------------------------------------
(* The documents and index entries that put writes *)

\* Where put writes a document and an index entry of a write set.
DocKey(k, new, v) == <<Resolve(k[1], new), k[2], v>>
PlaceIn(k, newIndex) == <<Resolve(k[2], newIndex), k[3]>>

\* The documents that w writes in the collections C, and its entries there that are put or
\* deleted.
DocsIn(w, C) == {k \in DOMAIN w.docs : k[1] \in C}
EntriesIn(w, C, op) == {k \in DOMAIN w.entries : k[1] \in C /\ w.entries[k] = op}
PlacesIn(w, C, op, newIndex) == {PlaceIn(k, newIndex) : k \in EntriesIn(w, C, op)}

\* t is i with what w writes in the collections C.
Filled(t, i, w, new, newIndex, v, C) ==
  /\ DOMAIN t.docs = DOMAIN i.docs \cup {DocKey(k, new, v) : k \in DocsIn(w, C)}
  /\ \A k \in DocsIn(w, C) : t.docs[DocKey(k, new, v)] = w.docs[k]
  /\ \A x \in DOMAIN i.docs :
       (\A k \in DOMAIN w.docs : x # DocKey(k, new, v)) => t.docs[x] = i.docs[x]
  /\ t.entries = (i.entries \ PlacesIn(w, C, "Deleted", newIndex))
                   \cup PlacesIn(w, C, "Put", newIndex)

\* Documents have places of their own, and collections do not share entries.
Apart(w, new, newIndex, v) ==
  /\ \A k \in DOMAIN w.docs : k = <<k[1], k[2]>>
  /\ \A k, l \in DOMAIN w.docs : DocKey(k, new, v) = DocKey(l, new, v) => k = l
  /\ \A k, l \in DOMAIN w.entries : PlaceIn(k, newIndex) = PlaceIn(l, newIndex) => k[1] = l[1]

\* u is t with what w writes in the collection c.
Wrote(u, t, w, c, new, newIndex, v) ==
  LET D == DocsIn(w, {c})
  IN /\ DOMAIN u.docs = DOMAIN t.docs \cup {DocKey(k, new, v) : k \in D}
     /\ \A k \in D : u.docs[DocKey(k, new, v)] = w.docs[k]
     /\ \A x \in DOMAIN t.docs : (\A k \in D : x # DocKey(k, new, v)) => u.docs[x] = t.docs[x]
     /\ u.entries = (t.entries \ PlacesIn(w, {c}, "Deleted", newIndex))
                      \cup PlacesIn(w, {c}, "Put", newIndex)

\* What writing a collection does to the documents and entries.
LEMMA WrittenFields ==
  ASSUME NEW ts, NEW t, WellTyped(t, ts), NEW w, NEW c, NEW new, NEW newIndex, NEW v,
         Apart(w, new, newIndex, v)
  PROVE  Wrote(WriteCollection(t, w, c, new, newIndex, v), t, w, c, new, newIndex, v)
<1> DEFINE u == WriteCollection(t, w, c, new, newIndex, v)
           D == DocsIn(w, {c})
           id == Resolve(c, new)
           rows == IF c \in DOMAIN w.metadata
                   THEN UpdatedMetadata(t, id, w.metadata[c], v) ELSE t.rows
           these == {k[2] : k \in {l \in DOMAIN w.docs : l[1] = c}}
           those == {k \in DOMAIN w.entries : k[1] = c}
           Positions(op) ==
             {<<Resolve(k[2], newIndex), k[3]>> : k \in {e \in those : w.entries[e] = op}}
           added == [k \in {<<id, d, v>> : d \in these} |-> w.docs[<<c, k[2]>>]]
           docs == Overwritten(t.docs, added)
           entries == (t.entries \ Positions("Deleted")) \cup Positions("Put")
<1>1. u = [t EXCEPT !.docs = docs, !.entries = entries, !.rows = rows]
  BY DEF WriteCollection
<1> HIDE DEF u
<1>2. u.docs = docs /\ u.entries = entries
  <2> HIDE DEF docs, entries, rows
  <2> QED BY <1>1, FieldsChange
<1>3. entries = (t.entries \ PlacesIn(w, {c}, "Deleted", newIndex))
                  \cup PlacesIn(w, {c}, "Put", newIndex)
  <2>1. \A op : Positions(op) = PlacesIn(w, {c}, op, newIndex)
    BY DEF PlacesIn, EntriesIn, PlaceIn
  <2> HIDE DEF Positions
  <2> QED BY <2>1
<1>4. \A k \in D : k[1] = c /\ k[2] \in these /\ k = <<c, k[2]>> /\ k \in DOMAIN w.docs
                   /\ DocKey(k, new, v) = <<id, k[2], v>>
  BY DEF DocsIn, Apart, DocKey
<1>5. \A d \in these : <<c, d>> \in D /\ DocKey(<<c, d>>, new, v) = <<id, d, v>>
  BY DEF DocsIn, Apart, DocKey
<1>6. DOMAIN added = {DocKey(k, new, v) : k \in D}
  <2>1. DOMAIN added = {<<id, d, v>> : d \in these}
    OBVIOUS
  <2> HIDE DEF added, these, id
  <2>2. \A x \in DOMAIN added : \E k \in D : x = DocKey(k, new, v)
    BY <1>5, <2>1
  <2>3. \A k \in D : DocKey(k, new, v) \in DOMAIN added
    BY <1>4, <2>1
  <2> QED BY <2>2, <2>3
<1>7. \A k \in D : added[DocKey(k, new, v)] = w.docs[k]
  <2> SUFFICES ASSUME NEW k \in D
               PROVE  added[<<id, k[2], v>>] = w.docs[k]
    BY <1>4
  <2>1. <<id, k[2], v>> \in {<<id, d, v>> : d \in these}
    BY <1>4
  <2> HIDE DEF these, id
  <2>2. added[<<id, k[2], v>>] = w.docs[<<c, k[2]>>]
    BY <2>1
  <2> QED BY <1>4, <2>2
<1> HIDE DEF added, entries, id, these
<1>8. /\ DOMAIN docs = DOMAIN t.docs \cup DOMAIN added
      /\ \A x \in DOMAIN docs : docs[x] = IF x \in DOMAIN added THEN added[x] ELSE t.docs[x]
  BY DEF Overwritten
<1> HIDE DEF docs
<1>9. DOMAIN docs = DOMAIN t.docs \cup {DocKey(k, new, v) : k \in D}
  BY <1>6, <1>8
<1>10. \A k \in D : docs[DocKey(k, new, v)] = w.docs[k]
  BY <1>6, <1>7, <1>8
<1>11. \A x \in DOMAIN t.docs : (\A k \in D : x # DocKey(k, new, v)) => docs[x] = t.docs[x]
  BY <1>6, <1>8
<1> QED BY <1>2, <1>3, <1>9, <1>10, <1>11 DEF Wrote, u

\* One collection more is filled.
LEMMA WrittenFills ==
  ASSUME NEW ts, NEW t, WellTyped(t, ts), NEW w, NEW c, NEW new, NEW newIndex, NEW v,
         Apart(w, new, newIndex, v), NEW i, NEW C, Filled(t, i, w, new, newIndex, v, C),
         NEW u, u = WriteCollection(t, w, c, new, newIndex, v)
  PROVE  Filled(u, i, w, new, newIndex, v, C \cup {c})
<1> DEFINE B == C \cup {c}
           D == DocsIn(w, {c})
           Key(k) == DocKey(k, new, v)
           Gone(S) == PlacesIn(w, S, "Deleted", newIndex)
           Here(S) == PlacesIn(w, S, "Put", newIndex)
<1>1. /\ DOMAIN u.docs = DOMAIN t.docs \cup {Key(k) : k \in D}
      /\ \A k \in D : u.docs[Key(k)] = w.docs[k]
      /\ \A x \in DOMAIN t.docs : (\A k \in D : x # Key(k)) => u.docs[x] = t.docs[x]
      /\ u.entries = (t.entries \ Gone({c})) \cup Here({c})
  <2>1. Wrote(u, t, w, c, new, newIndex, v)
    BY WrittenFields
  <2> QED BY <2>1 DEF Wrote
<1>2. DocsIn(w, B) = DocsIn(w, C) \cup D /\ D \subseteq DOMAIN w.docs
      /\ DocsIn(w, C) \subseteq DOMAIN w.docs
  BY DEF DocsIn
<1>3. /\ DOMAIN t.docs = DOMAIN i.docs \cup {Key(k) : k \in DocsIn(w, C)}
      /\ \A k \in DocsIn(w, C) : t.docs[Key(k)] = w.docs[k]
      /\ \A x \in DOMAIN i.docs :
           (\A k \in DOMAIN w.docs : x # Key(k)) => t.docs[x] = i.docs[x]
      /\ t.entries = (i.entries \ Gone(C)) \cup Here(C)
  BY DEF Filled
<1>4. \A k, l \in DOMAIN w.docs : Key(k) = Key(l) => k = l
  BY DEF Apart
<1>5. Gone(B) = Gone(C) \cup Gone({c}) /\ Here(B) = Here(C) \cup Here({c})
  BY DEF PlacesIn, EntriesIn
<1>6. \A x \in Here(C) : x \in Gone({c}) => x \in Here({c})
  <2> SUFFICES ASSUME NEW x \in Here(C), x \in Gone({c})
               PROVE  x \in Here({c})
    OBVIOUS
  <2>1. PICK k \in EntriesIn(w, C, "Put") : x = PlaceIn(k, newIndex)
    BY DEF PlacesIn
  <2>2. PICK l \in EntriesIn(w, {c}, "Deleted") : x = PlaceIn(l, newIndex)
    BY DEF PlacesIn
  <2>3. k[1] = l[1]
    BY <2>1, <2>2 DEF Apart, EntriesIn
  <2>4. k \in EntriesIn(w, {c}, "Put")
    BY <2>2, <2>3 DEF EntriesIn
  <2> QED BY <2>1, <2>4 DEF PlacesIn
<1> HIDE DEF Gone, Here, D, Key, B
<1>7. u.entries = (i.entries \ Gone(B)) \cup Here(B)
  BY <1>1, <1>3, <1>5, <1>6
<1>8. DOMAIN u.docs = DOMAIN i.docs \cup {Key(k) : k \in DocsIn(w, B)}
  BY <1>1, <1>2, <1>3
<1>9. ASSUME NEW k \in DocsIn(w, B)
      PROVE  u.docs[Key(k)] = w.docs[k]
  <2>1. CASE k \in D
    BY <1>1, <2>1
  <2>2. CASE k \notin D
    <3>1. k \in DocsIn(w, C)
      BY <1>2, <2>2
    <3>2. \A l \in D : Key(k) # Key(l)
      BY <1>2, <1>4, <2>2, <3>1
    <3>3. Key(k) \in DOMAIN t.docs
      BY <1>3, <3>1
    <3> QED BY <1>1, <1>3, <3>1, <3>2, <3>3
  <2> QED BY <2>1, <2>2
<1>10. \A x \in DOMAIN i.docs : (\A k \in DOMAIN w.docs : x # Key(k)) => u.docs[x] = i.docs[x]
  BY <1>1, <1>2, <1>3
<1> QED BY <1>7, <1>8, <1>9, <1>10 DEF Filled, Gone, Here, Key, B

\* put writes the documents and entries of all collections.
LEMMA PutFills ==
  ASSUME NEW ts \in Nat, NEW s, NEW v, NEW w, NEW cols \in SUBSET Int,
         Written(w) \subseteq cols, IsFiniteSet(Written(w)), PutSteps(s, w, v, ts),
         NEW new, new = NewIds(s, w),
         NEW i, i = IndexesCreated(CollectionsCreated(s, w, v), w, new),
         NEW newIndex, newIndex = NewIndexIds(i, w, new), Apart(w, new, newIndex, v)
  PROVE  Filled(Put(s, w, v), i, w, new, newIndex, v, Written(w))
<1> DEFINE L == InIdOrder(Written(w))
           n == Len(L)
           Done(j) == {L[m] : m \in 1 .. j}
<1>1. PICK walk \in [0 .. n -> Keyed] :
        /\ walk[0] = i
        /\ \A j \in 1 .. n : walk[j] = WriteCollection(walk[j - 1], w, L[j], new, newIndex, v)
        /\ \A j \in 0 .. n : Kept(walk[j], i, ts)
        /\ walk[n] = Put(s, w, v)
  BY DEF PutSteps
<1>2. n \in Nat /\ Done(n) = Written(w)
  <2>1. Written(w) \in SUBSET Int
    OBVIOUS
  <2>2. Lists(L, Written(w), IdPairs(Written(w)))
    BY <2>1, IdsAreListed
  <2> HIDE DEF L
  <2>3. /\ n \in Nat /\ \A m \in 1 .. n : L[m] \in Written(w)
        /\ \A c \in Written(w) : \E m \in 1 .. n : L[m] = c
    BY <2>2, ListType
  <2> QED BY <2>3
<1> HIDE DEF L, n
<1>3. \A j \in 0 .. n : WellTyped(walk[j], ts)
  BY <1>1 DEF Kept, Catalogued
<1> DEFINE G == {j \in 0 .. n : Filled(walk[j], i, w, new, newIndex, v, Done(j))}
<1>4. 0 \in G
  <2>1. Done(0) = {}
    OBVIOUS
  <2>2. DocsIn(w, {}) = {} /\ \A op : PlacesIn(w, {}, op, newIndex) = {}
    BY DEF DocsIn, PlacesIn, EntriesIn
  <2>3. Filled(i, i, w, new, newIndex, v, {})
    BY <2>2 DEF Filled
  <2> HIDE DEF Done
  <2>4. Filled(walk[0], i, w, new, newIndex, v, Done(0))
    BY <1>1, <2>1, <2>3
  <2>5. 0 \in 0 .. n
    BY <1>2
  <2> QED BY <2>4, <2>5
<1>5. ASSUME NEW j \in 1 .. n, j - 1 \in G
      PROVE  j \in G
  <2>1. j \in 0 .. n /\ j - 1 \in 0 .. n /\ 1 .. j = (1 .. j - 1) \cup {j}
    BY <1>2
  <2>2. Done(j) = Done(j - 1) \cup {L[j]}
    BY <2>1
  <2> HIDE DEF Done
  <2>3. Filled(walk[j - 1], i, w, new, newIndex, v, Done(j - 1))
    BY <1>5
  <2>4. WellTyped(walk[j - 1], ts)
    BY <1>3, <2>1
  <2>5. Filled(walk[j], i, w, new, newIndex, v, Done(j))
    BY <1>1, <2>2, <2>3, <2>4, WrittenFills
  <2> QED BY <2>1, <2>5
<1>6. \A j \in 0 .. n : j \in G
  <2> HIDE DEF G
  <2> QED BY <1>2, <1>4, <1>5, UpTo
<1> HIDE DEF Done
<1>7. Filled(walk[n], i, w, new, newIndex, v, Done(n))
  <2>1. n \in 0 .. n
    BY <1>2
  <2> QED BY <1>6, <2>1
<1> QED BY <1>1, <1>2, <1>7

-----------------------------------------------------------------------------
(* What the ids of a write set stand for when it is committed *)

\* The stages of put for the writes w in the store s: the ids of new collections, the store
\* with the collections and with the indexes, and the ids of new indexes.
Stages(s, w, v, new, c, i, m) ==
  /\ new = NewIds(s, w) /\ c = CollectionsCreated(s, w, v)
  /\ i = IndexesCreated(c, w, new) /\ m = NewIndexIds(i, w, new)
  /\ Catalogued(s, v) /\ Created(c, s, w, v) /\ Grown(c, s, v)
  /\ c.ids = CollectionsCreated(s, w, 0).ids
  /\ Indexed(i, c, w, new, v) /\ IndexGrown(i, c, w, new)

\* A transaction that commits to the store s at version v.
Committing(r, s, v) ==
  /\ v \in Nat /\ Sane(r, s, v) /\ Tidy(r) /\ Belongs(r.writes, r.snapshot, r.lastTemp)
  /\ Catalogued(s, v) /\ Owned(s)

\* What it writes is sound in that store.
LEMMA CommittedIsSound ==
  ASSUME NEW r, NEW s, NEW v, Committing(r, s, v)
  PROVE  /\ v \in Nat /\ v \in 0 .. v /\ Catalogued(s, v) /\ Extends(r.snapshot, s)
         /\ Catalogued(r.snapshot, v)
         /\ Sound(r.writes, ShownIds(r), IndexIds(r.snapshot))
         /\ ShownIds(r) \subseteq CollectionIds(s) /\ IndexIds(r.snapshot) \subseteq IndexIds(s)
         /\ NewCollections(r.writes) /\ NewIndexes(r.writes, Mine(r)) /\ Mine(r) \in SUBSET Int
         /\ Written(r.writes) \subseteq Mine(r) /\ IsFiniteSet(Written(r.writes))
<1>1. /\ v \in Nat /\ Catalogued(s, v) /\ Catalogued(r.snapshot, v) /\ Extends(r.snapshot, s)
      /\ Sound(r.writes, ShownIds(r), IndexIds(r.snapshot))
  BY DEF Committing, Sane
<1>2. v \in 0 .. v
  BY <1>1
<1>3. /\ ShownIds(r) \subseteq CollectionIds(s)
      /\ IndexIds(r.snapshot) \subseteq IndexIds(s)
  BY <1>1, ExtendsIsOrder DEF ShownIds
<1>4. Mine(r) \in SUBSET Int /\ Written(r.writes) \subseteq Mine(r)
  BY <1>1, WritesBelong DEF Mine
<1>5. /\ NewCollections(r.writes) /\ NewIndexes(r.writes, Mine(r))
      /\ IsFiniteSet(Written(r.writes))
  BY <1>1 DEF Sound, Mine
<1> QED BY <1>1, <1>2, <1>3, <1>4, <1>5

\* The stages of its commit.
LEMMA CommitStages ==
  ASSUME NEW r, NEW s, NEW v, Committing(r, s, v), NEW w, w = r.writes,
         NEW new, new = NewIds(s, w), NEW c, c = CollectionsCreated(s, w, v),
         NEW i, i = IndexesCreated(c, w, new)
  PROVE  Stages(s, w, v, new, c, i, NewIndexIds(i, w, new))
<1>1. /\ v \in Nat /\ v \in 0 .. v /\ Catalogued(s, v) /\ NewCollections(w)
      /\ Sound(w, ShownIds(r), IndexIds(r.snapshot)) /\ ShownIds(r) \subseteq CollectionIds(s)
      /\ NewIndexes(w, Mine(r)) /\ Mine(r) \in SUBSET Int
  BY CommittedIsSound
<1>2. Created(c, s, w, v) /\ Grown(c, s, v) /\ c.ids = CollectionsCreated(s, w, 0).ids
  BY <1>1, CollectionsAreCreated, CollectionsGrow
<1>3. \A d \in Mine(r) : Resolve(d, new) \in CollectionIds(c)
  BY <1>1, CollectionsResolve DEF Mine
<1>4. Catalogued(c, v)
  BY <1>2 DEF Created
<1>5. Indexed(i, c, w, new, v) /\ IndexGrown(i, c, w, new)
  BY <1>1, <1>3, <1>4, IndexesGrow, IndexesAreCreated
<1> QED BY <1>1, <1>2, <1>5 DEF Stages

\* The ids of r's collections stand for their names in the store c.
IdsMean(r, c, new) ==
  /\ \A d \in Mine(r) :
       Resolve(d, new) \in CollectionIds(c) /\ NameOf(c, Resolve(d, new)) = NameMeant(r, d)
  /\ \A d, e \in Mine(r) : NameMeant(r, d) = NameMeant(r, e) => d = e
  /\ \A d, e \in Mine(r) : Resolve(d, new) = Resolve(e, new) => d = e
  /\ \A d \in New(r) : NameMeant(r, d) = r.writes.newCollections[d]

\* So they do.
LEMMA CollectionsMean ==
  ASSUME NEW r, NEW s, NEW v, Committing(r, s, v),
         NEW new, NEW c, NEW i, NEW m, Stages(s, r.writes, v, new, c, i, m)
  PROVE  IdsMean(r, c, new)
<1> DEFINE w == r.writes
           b == r.snapshot
<1>1. /\ v \in Nat /\ Extends(b, s) /\ NewCollections(w) /\ Catalogued(b, v)
      /\ Catalogued(c, v) /\ Extends(s, c) /\ DOMAIN c.ids = DOMAIN s.ids \cup NewNames(w)
      /\ new = [t \in DOMAIN w.newCollections |-> c.ids[w.newCollections[t]]]
      /\ NewNamed(w, b, ShownIds(r)) /\ Sane(r, s, v)
  BY CommittedIsSound DEF Stages, Created, NewIds, Committing, Tidy
<1>2. ASSUME NEW d \in New(r)
      PROVE  /\ d \in DOMAIN w.newCollections /\ NameMeant(r, d) = w.newCollections[d]
             /\ w.newCollections[d] \in DOMAIN c.ids
             /\ Resolve(d, new) = c.ids[w.newCollections[d]]
  <2>1. d \in DOMAIN w.newCollections /\ d \in Int /\ d < 0 /\ ~(d >= 0)
    BY <1>1 DEF New, NewCollections, IsTable, Temporary
  <2> QED BY <1>1, <2>1 DEF NameMeant, Resolve, NewNames
<1>3. ASSUME NEW d \in ShownIds(r)
      PROVE  /\ NameMeant(r, d) \in DOMAIN b.ids /\ b.ids[NameMeant(r, d)] = d
             /\ NameMeant(r, d) \in DOMAIN c.ids /\ c.ids[NameMeant(r, d)] = d
             /\ Resolve(d, new) = d
  <2>1. PICK n \in DOMAIN AsSeen(r).ids : AsSeen(r).ids[n] = d /\ Row(r, d).name = n
    <3>1. Sane(r, s, v)
      BY <1>1
    <3> QED BY <3>1, ShownRows
  <2>2. n \in DOMAIN b.ids /\ b.ids[n] = d
    <3>1. r.ts \in Nat
      BY <1>1 DEF Sane
    <3>2. /\ n \in DOMAIN b.ids
          /\ AsSeen(r).ids[n] = b.ids[n]
      BY <1>1, <2>1, <3>1, SeenIsComplete
    <3> QED BY <2>1, <3>2
  <2>3. n \in DOMAIN c.ids /\ c.ids[n] = d
    BY <1>1, <2>2 DEF Extends
  <2>4. d \in Nat /\ ~(d < 0) /\ d >= 0
    <3>1. WellTyped(b, v)
      BY <1>1 DEF Catalogued
    <3>2. b.lastCollection \in Nat /\ \A k \in DOMAIN b.ids : b.ids[k] \in 1 .. b.lastCollection
      BY <3>1, IdsArePositive
    <3> QED BY <2>2, <3>2
  <2> QED BY <2>1, <2>2, <2>3, <2>4 DEF NameMeant, Resolve
<1>4. \A d \in Mine(r) : d \in New(r) \/ d \in ShownIds(r)
  BY DEF Mine, Cols, New
<1>5. \A n \in DOMAIN c.ids : c.ids[n] \in CollectionIds(c) /\ NameOf(c, c.ids[n]) = n
  BY <1>1, IdsHaveNames DEF CollectionIds
<1>6. \A d \in Mine(r) :
        Resolve(d, new) \in CollectionIds(c) /\ NameOf(c, Resolve(d, new)) = NameMeant(r, d)
  BY <1>2, <1>3, <1>4, <1>5
<1>7. ASSUME NEW d \in Mine(r), NEW e \in Mine(r), NameMeant(r, d) = NameMeant(r, e)
      PROVE  d = e
  <2>1. CASE d \in New(r) /\ e \in New(r)
    BY <1>1, <1>2, <1>7, <2>1 DEF NewNamed
  <2>2. CASE d \in ShownIds(r) /\ e \in ShownIds(r)
    BY <1>3, <1>7, <2>2
  <2>3. CASE d \in New(r) /\ e \in ShownIds(r)
    BY <1>1, <1>2, <1>3, <1>7, <2>3 DEF NewNamed
  <2>4. CASE e \in New(r) /\ d \in ShownIds(r)
    BY <1>1, <1>2, <1>3, <1>7, <2>4 DEF NewNamed
  <2> QED BY <1>4, <2>1, <2>2, <2>3, <2>4
<1> QED BY <1>2, <1>6, <1>7 DEF IdsMean

\* The ids of the indexes that r writes entries of stand for their names in the store i.
IndexesMean(r, i, new, m) ==
  \A k \in DOMAIN r.writes.entries :
    \E key \in DOMAIN i.indexes :
      /\ key = <<Resolve(k[1], new), IndexMeant(r, k[1], k[2])>>
      /\ i.indexes[key].id = Resolve(k[2], m)

\* So they do.
LEMMA EntriesMean ==
  ASSUME NEW r, NEW s, NEW v, Committing(r, s, v),
         NEW new, NEW c, NEW i, NEW m, Stages(s, r.writes, v, new, c, i, m)
  PROVE  IndexesMean(r, i, new, m)
<1> DEFINE w == r.writes
           b == r.snapshot
<1>1. /\ v \in Nat /\ Extends(b, s) /\ Extends(s, c) /\ Extends(c, i)
      /\ NewIndexes(w, Mine(r)) /\ Mine(r) \in SUBSET Int /\ Catalogued(b, v)
      /\ DOMAIN i.indexes = DOMAIN c.indexes \cup NewKeys(w, new)
      /\ m = NewIndexIds(i, w, new) /\ Belongs(w, b, r.lastTemp)
  BY CommittedIsSound DEF Stages, Created, Indexed, Committing
<1> SUFFICES ASSUME NEW k \in DOMAIN w.entries
             PROVE  \E key \in DOMAIN i.indexes :
                      /\ key = <<Resolve(k[1], new), IndexMeant(r, k[1], k[2])>>
                      /\ i.indexes[key].id = Resolve(k[2], m)
  BY DEF IndexesMean
<1>2. /\ DOMAIN m = Temps(w)
      /\ \A l \in DOMAIN w.newIndexes : m[l[2]] = IdFor(i, w, new, l)
  <2>1. \A l, n \in DOMAIN w.newIndexes : l[2] = n[2] => l = n
    BY <1>1 DEF Belongs
  <2>2. NewKeys(w, new) \subseteq DOMAIN i.indexes
    BY <1>1
  <2> HIDE DEF w
  <2> QED BY <1>1, <2>1, <2>2, IndexIdsAreKnown
<1>3. CASE <<k[1], k[2]>> \in DOMAIN w.newIndexes
  <2> DEFINE l == <<k[1], k[2]>>
  <2>1. l[1] = k[1] /\ l[2] = k[2] /\ l \in DOMAIN w.newIndexes
    BY <1>3
  <2>2. k[2] \in Int /\ k[2] < 0 /\ ~(k[2] >= 0)
    <3>1. k[2] \in Temporary
      BY <1>1, <2>1 DEF NewIndexes, IsTable
    <3> QED BY <3>1 DEF Temporary
  <2>3. IndexMeant(r, k[1], k[2]) = w.newIndexes[l].name
    BY <2>2 DEF IndexMeant
  <2> HIDE DEF l
  <2>4. Resolve(k[2], m) = i.indexes[KeyFor(w, new, l)].id
    BY <1>2, <2>1, <2>2 DEF Resolve, IdFor, KeyFor
  <2>5. KeyFor(w, new, l) \in DOMAIN i.indexes
    BY <1>1, <2>1 DEF NewKeys
  <2>6. KeyFor(w, new, l) = <<Resolve(k[1], new), IndexMeant(r, k[1], k[2])>>
    BY <2>1, <2>3 DEF KeyFor
  <2> QED BY <2>4, <2>5, <2>6
<1>4. ASSUME NEW l \in DOMAIN b.indexes, l[1] = k[1], b.indexes[l].id = k[2]
      PROVE  \E key \in DOMAIN i.indexes :
                      /\ key = <<Resolve(k[1], new), IndexMeant(r, k[1], k[2])>>
                      /\ i.indexes[key].id = Resolve(k[2], m)
  <2>1. l = <<l[1], l[2]>> /\ l[1] \in Nat /\ k[2] \in Nat
    <3>1. IsTable(b.indexes, IndexKeys, IndexRows)
      <4>1. WellTyped(b, v)
        BY <1>1 DEF Catalogued
      <4> QED BY <4>1, FieldTypes
    <3> QED BY <1>4, <3>1 DEF IsTable, IndexKeys, IndexRows
  <2>2. Resolve(k[1], new) = l[1] /\ Resolve(k[2], m) = k[2] /\ ~(k[2] < 0)
    BY <1>4, <2>1 DEF Resolve
  <2>3. IndexMeant(r, k[1], k[2]) = l[2]
    <3>1. IndexOf(b, b.indexes[l].id) = l
      BY <1>1, IndexesHaveKeys DEF Catalogued
    <3> QED BY <1>4, <2>2, <3>1 DEF IndexMeant
  <2>4. l \in DOMAIN i.indexes /\ i.indexes[l].id = k[2]
    BY <1>1, <1>4 DEF Extends
  <2> QED BY <2>1, <2>2, <2>3, <2>4
<1> QED BY <1>1, <1>3, <1>4 DEF Belongs, IndexOfCollection

\* So the documents that are written are apart, and the entries of different collections.
LEMMA WritesAreApart ==
  ASSUME NEW r, NEW s, NEW v, Committing(r, s, v),
         NEW new, NEW c, NEW i, NEW m, Stages(s, r.writes, v, new, c, i, m)
  PROVE  Apart(r.writes, new, m, v)
<1> DEFINE w == r.writes
<1>1. IdsMean(r, c, new) /\ IndexesMean(r, i, new, m)
  BY CollectionsMean, EntriesMean
<1>2. /\ \A k \in DOMAIN w.docs : k[1] \in Mine(r) /\ k = <<k[1], k[2]>>
      /\ \A k \in DOMAIN w.entries : k[1] \in Mine(r)
  <2>1. Sound(w, ShownIds(r), IndexIds(r.snapshot))
    BY CommittedIsSound
  <2> QED BY <2>1, WritesBelong DEF Mine
<1>3. Numbered(i)
  BY DEF Stages, Indexed, Catalogued
<1>4. ASSUME NEW k \in DOMAIN w.docs, NEW l \in DOMAIN w.docs, DocKey(k, new, v) = DocKey(l, new, v)
      PROVE  k = l
  <2>1. Resolve(k[1], new) = Resolve(l[1], new) /\ k[2] = l[2]
    BY <1>4 DEF DocKey
  <2> QED BY <1>1, <1>2, <2>1 DEF IdsMean
<1>5. ASSUME NEW k \in DOMAIN w.entries, NEW l \in DOMAIN w.entries, PlaceIn(k, m) = PlaceIn(l, m)
      PROVE  k[1] = l[1]
  <2>1. Resolve(k[2], m) = Resolve(l[2], m)
    BY <1>5 DEF PlaceIn
  <2>2. PICK x \in DOMAIN i.indexes : /\ x = <<Resolve(k[1], new), IndexMeant(r, k[1], k[2])>>
                                      /\ i.indexes[x].id = Resolve(k[2], m)
    BY <1>1 DEF IndexesMean
  <2>3. PICK y \in DOMAIN i.indexes : /\ y = <<Resolve(l[1], new), IndexMeant(r, l[1], l[2])>>
                                      /\ i.indexes[y].id = Resolve(l[2], m)
    BY <1>1 DEF IndexesMean
  <2>4. x = y
    BY <1>3, <2>1, <2>2, <2>3 DEF Numbered
  <2>5. Resolve(k[1], new) = Resolve(l[1], new)
    BY <2>2, <2>3, <2>4
  <2> QED BY <1>1, <1>2, <2>5 DEF IdsMean
<1> QED BY <1>2, <1>4, <1>5 DEF Apart

\* What put makes of a transaction's writes.
Puts(r, s, v, p, new, c, i, m) ==
  /\ Stages(s, r.writes, v, new, c, i, m) /\ IdsMean(r, c, new) /\ IndexesMean(r, i, new, m)
  /\ Stored(p, s, r.writes, v) /\ Extends(i, p) /\ p.ids = c.ids /\ p.indexes = i.indexes
  /\ Rewritten(p, i, r.writes, new, v)
  /\ Filled(p, i, r.writes, new, m, v, Written(r.writes))

\* So it does.
LEMMA CommitPuts ==
  ASSUME NEW r, NEW s, NEW v, Committing(r, s, v)
  PROVE  \E new, c, i, m : Puts(r, s, v, Put(s, r.writes, v), new, c, i, m)
<1> DEFINE w == r.writes
           p == Put(s, w, v)
           new == NewIds(s, w)
           c == CollectionsCreated(s, w, v)
           i == IndexesCreated(c, w, new)
           m == NewIndexIds(i, w, new)
<1>1. Stages(s, w, v, new, c, i, m)
  BY CommitStages
<1>2. /\ v \in Nat /\ v \in 0 .. v /\ Catalogued(s, v)
      /\ Sound(w, ShownIds(r), IndexIds(r.snapshot))
      /\ ShownIds(r) \subseteq CollectionIds(s) /\ IndexIds(r.snapshot) \subseteq IndexIds(s)
      /\ Mine(r) \in SUBSET Int /\ Written(w) \subseteq Mine(r) /\ IsFiniteSet(Written(w))
  BY CommittedIsSound
<1>3. Stored(p, s, w, v) /\ PutSteps(s, w, v, v)
  <2> HIDE DEF w
  <2> QED BY <1>2, PutKeepsCatalogs
<1> HIDE DEF c, i, m, new
<1>4. IdsMean(r, c, new) /\ IndexesMean(r, i, new, m) /\ Apart(w, new, m, v)
  BY <1>1, CollectionsMean, EntriesMean, WritesAreApart
<1>5. \A d, e \in DOMAIN w.metadata : Resolve(d, new) = Resolve(e, new) => d = e
  BY <1>2, <1>4 DEF IdsMean, Written
<1> HIDE DEF w
<1>6. Rewritten(p, i, w, new, v) /\ p.indexes = i.indexes
  BY <1>2, <1>3, <1>5, PutRewrites DEF c, i, new
<1>7. Filled(p, i, w, new, m, v, Written(w))
  BY <1>2, <1>3, <1>4, PutFills DEF c, i, m, new
<1>8. p.ids = c.ids /\ i.ids = c.ids
  BY <1>1, <1>3 DEF Stages, Stored, Indexed
<1>9. Extends(i, p)
  BY <1>6, <1>8 DEF Extends
<1>10. Puts(r, s, v, p, new, c, i, m)
  BY <1>1, <1>3, <1>4, <1>6, <1>7, <1>8, <1>9 DEF Puts, w
<1> QED BY <1>10 DEF p, w

-----------------------------------------------------------------------------
(* What a commit does by name *)

\* p has the names of the store s, and those that r gave.
Said(r, s, p, new) ==
  /\ KeysOf(s) /\ KeysOf(p)
  /\ \A id \in CollectionIds(s) : id \in CollectionIds(p) /\ NameOf(p, id) = NameOf(s, id)
  /\ \A d \in Mine(r) :
       Resolve(d, new) \in CollectionIds(p) /\ NameOf(p, Resolve(d, new)) = NameMeant(r, d)
  /\ \A n \in DOMAIN p.ids : p.ids[n] \in CollectionIds(p) /\ NameOf(p, p.ids[n]) = n

\* So it has.
LEMMA PutNames ==
  ASSUME NEW r, NEW s, NEW v, Committing(r, s, v),
         NEW p, NEW new, NEW c, NEW i, NEW m, Puts(r, s, v, p, new, c, i, m)
  PROVE  /\ v \in Nat /\ Catalogued(s, v) /\ Catalogued(c, v) /\ Catalogued(p, v)
         /\ Owned(s) /\ Owned(p) /\ Said(r, s, p, new)
<1>1. /\ v \in Nat /\ Catalogued(s, v) /\ Catalogued(c, v) /\ Catalogued(p, v)
      /\ Owned(s) /\ Owned(p) /\ Extends(s, p) /\ Extends(c, i) /\ Extends(i, p)
  BY DEF Committing, Puts, Stages, Stored, Indexed, Created
<1>2. KeysOf(s) /\ KeysOf(p)
  BY <1>1, KeysAreOwned
<1>3. \A id \in CollectionIds(s) : id \in CollectionIds(p) /\ NameOf(p, id) = NameOf(s, id)
  BY <1>1, NamesLast
<1>4. Extends(c, p)
  BY <1>1 DEF Extends
<1>5. \A id \in CollectionIds(c) : id \in CollectionIds(p) /\ NameOf(p, id) = NameOf(c, id)
  BY <1>1, <1>4, NamesLast
<1>6. \A d \in Mine(r) :
        Resolve(d, new) \in CollectionIds(p) /\ NameOf(p, Resolve(d, new)) = NameMeant(r, d)
  BY <1>5 DEF Puts, IdsMean
<1>7. \A n \in DOMAIN p.ids : p.ids[n] \in CollectionIds(p) /\ NameOf(p, p.ids[n]) = n
  BY <1>1, IdsHaveNames DEF CollectionIds
<1> QED BY <1>1, <1>2, <1>3, <1>6, <1>7 DEF Said

\* Rows that put writes over those of a table are by name rows over those of the table.
LEMMA OverByName ==
  ASSUME NEW p, NEW t, NEW w, NEW K, Injective(K, DOMAIN w), IsOver(p, Renamed(w, K), t),
         NEW f, Injective(f, DOMAIN p), NEW G, NEW g, IsRenamed(G, w, g),
         \A k \in DOMAIN w : g[k] = f[K[k]], NEW H, IsRenamed(H, t, f)
  PROVE  IsRenamed(Named!Over(G, H), p, f)
<1> DEFINE u == Renamed(w, K)
<1>1. IsRenamed(u, w, K)
  BY TableRenamed
<1> HIDE DEF u
<1>2. IsRenamed(G, u, f)
  BY <1>1, RenamedAgain
<1>3. IsOver(p, u, t)
  BY DEF u
<1> QED BY <1>2, <1>3, OverRenamed

\* The documents.
LEMMA DocsByName ==
  ASSUME NEW r, NEW s, NEW v, Committing(r, s, v),
         NEW p, NEW new, NEW c, NEW i, NEW m, Puts(r, s, v, p, new, c, i, m),
         NEW H, IsRenamed(H, s.docs, DocNames(s, DOMAIN s.docs))
  PROVE  IsRenamed(Named!Over(
             [k \in {<<d[1], d[2], v>> : d \in DOMAIN Meant(r).docs} |->
                Meant(r).docs[<<k[1], k[2]>>]], H),
           p.docs, DocNames(p, DOMAIN p.docs))
<1> DEFINE w == r.writes
           D == DOMAIN w.docs
           K == [k \in D |-> DocKey(k, new, v)]
           f == DocNames(p, DOMAIN p.docs)
           M == Meant(r).docs
           N == [k \in D |-> <<NameMeant(r, k[1]), k[2]>>]
           G == [k \in {<<d[1], d[2], v>> : d \in DOMAIN M} |-> M[<<k[1], k[2]>>]]
           V == [d \in DOMAIN M |-> <<d[1], d[2], v>>]
           g == [k \in D |-> V[N[k]]]
<1>1. Said(r, s, p, new) /\ Catalogued(p, v) /\ v \in Nat /\ IdsMean(r, c, new)
  BY PutNames DEF Puts
<1>2. \A k \in D : k[1] \in Mine(r) /\ k = <<k[1], k[2]>>
  <2>1. Sound(w, ShownIds(r), IndexIds(r.snapshot))
    BY CommittedIsSound
  <2> QED BY <2>1, WritesBelong DEF Mine
<1>3. Injective(K, D)
  <2>1. Apart(w, new, m, v)
    BY WritesAreApart DEF Puts
  <2> QED BY <2>1 DEF Apart, Injective
<1>4. Injective(N, D)
  <2> SUFFICES ASSUME NEW k \in D, NEW l \in D, N[k] = N[l]
               PROVE  k = l
    BY DEF Injective
  <2>1. NameMeant(r, k[1]) = NameMeant(r, l[1]) /\ k[2] = l[2]
    OBVIOUS
  <2> HIDE DEF N, D
  <2>2. k[1] = l[1]
    BY <1>1, <1>2, <2>1 DEF IdsMean
  <2> QED BY <1>2, <2>1, <2>2
<1>5. M = Renamed(w.docs, N)
  BY DEF Meant
<1> HIDE DEF M
<1>6. IsRenamed(M, w.docs, N)
  <2> HIDE DEF N
  <2> QED BY <1>4, <1>5, TableRenamed
<1>7. \A d \in DOMAIN M : d = <<d[1], d[2]>>
  <2>1. \A k \in D : N[k] = <<N[k][1], N[k][2]>>
    OBVIOUS
  <2> HIDE DEF N, D
  <2>2. DOMAIN M = {N[k] : k \in D}
    BY <1>6 DEF IsRenamed, D
  <2> QED BY <2>1, <2>2
<1>8. IsRenamed(G, M, V)
  <2>1. DOMAIN G = {V[d] : d \in DOMAIN M}
    OBVIOUS
  <2>2. \A d \in DOMAIN M : G[V[d]] = M[d]
    <3> SUFFICES ASSUME NEW d \in DOMAIN M
                 PROVE  G[<<d[1], d[2], v>>] = M[d]
      OBVIOUS
    <3>1. <<d[1], d[2], v>> \in DOMAIN G
      OBVIOUS
    <3>2. G[<<d[1], d[2], v>>] = M[<<d[1], d[2]>>]
      BY <3>1
    <3> QED BY <1>7, <3>2
  <2>3. G = [x \in DOMAIN G |-> G[x]]
    OBVIOUS
  <2> HIDE DEF G, V
  <2> QED BY <2>1, <2>2, <2>3 DEF IsRenamed
<1>9. IsRenamed(G, w.docs, g)
  <2> HIDE DEF G, V, N
  <2> QED BY <1>6, <1>8, RenamedAgain
<1>10. /\ DOMAIN p.docs = DOMAIN s.docs \cup {DocKey(k, new, v) : k \in D}
       /\ \A k \in D : p.docs[DocKey(k, new, v)] = w.docs[k]
       /\ \A x \in DOMAIN s.docs :
            (\A k \in D : x # DocKey(k, new, v)) => p.docs[x] = s.docs[x]
  <2>1. Filled(p, i, w, new, m, v, Written(w)) /\ i.docs = s.docs
    BY DEF Puts, Stages, Created, Indexed
  <2>2. DocsIn(w, Written(w)) = D
    BY DEF DocsIn, Written
  <2> HIDE DEF w
  <2> QED BY <2>1, <2>2 DEF Filled
<1>11. IsOver(p.docs, Renamed(w.docs, K), s.docs)
  <2> DEFINE u == Renamed(w.docs, K)
  <2>1. IsRenamed(u, w.docs, K)
    <3> HIDE DEF K
    <3> QED BY <1>3, TableRenamed
  <2>2. \A k \in D : K[k] = DocKey(k, new, v)
    OBVIOUS
  <2> HIDE DEF u, K, w
  <2>3. DOMAIN u = {DocKey(k, new, v) : k \in D} /\ \A k \in D : u[DocKey(k, new, v)] = w.docs[k]
    BY <2>1, <2>2 DEF IsRenamed
  <2>4. DOMAIN p.docs = DOMAIN u \cup DOMAIN s.docs
    BY <1>10, <2>3
  <2>5. ASSUME NEW x \in DOMAIN p.docs
        PROVE  p.docs[x] = IF x \in DOMAIN u THEN u[x] ELSE s.docs[x]
    <3>1. CASE x \in DOMAIN u
      BY <1>10, <2>3, <3>1
    <3>2. CASE x \notin DOMAIN u
      BY <1>10, <2>3, <2>4, <3>2
    <3> QED BY <3>1, <3>2
  <2>6. IsOver(p.docs, u, s.docs)
    BY <2>4, <2>5 DEF IsOver
  <2> QED BY <2>6 DEF u
<1>12. Injective(f, DOMAIN p.docs)
  BY <1>1, NamesDiffer DEF Said, KeysOf
<1>13. ASSUME NEW k \in D
       PROVE  g[k] = f[K[k]]
  <2>1. K[k] = DocKey(k, new, v) /\ DocKey(k, new, v) \in DOMAIN p.docs
    BY <1>10
  <2>2. f[K[k]] = TripleName(p, DocKey(k, new, v))
    BY <2>1 DEF DocNames
  <2>3. TripleName(p, DocKey(k, new, v)) = <<NameMeant(r, k[1]), k[2], v>>
    BY <1>1, <1>2 DEF TripleName, DocKey, Said
  <2>4. N[k] \in DOMAIN M /\ N[k] = <<NameMeant(r, k[1]), k[2]>>
    BY <1>6 DEF IsRenamed
  <2>5. g[k] = <<N[k][1], N[k][2], v>>
    BY <2>4
  <2> QED BY <2>2, <2>3, <2>4, <2>5
<1>14. IsRenamed(H, s.docs, f)
  <2>1. ASSUME NEW k \in DOMAIN s.docs
        PROVE  f[k] = DocNames(s, DOMAIN s.docs)[k]
    <3>1. k[1] \in CollectionIds(s) /\ k \in DOMAIN p.docs
      BY <1>1, <1>10 DEF Said, KeysOf
    <3>2. TripleName(p, k) = TripleName(s, k)
      BY <1>1, <3>1 DEF TripleName, Said
    <3> QED BY <3>1, <3>2 DEF DocNames
  <2> HIDE DEF f
  <2> QED BY <2>1, RenamedAgain
<1> HIDE DEF K, f, G, g, w
<1>15. IsRenamed(Named!Over(G, H), p.docs, f)
  BY <1>3, <1>9, <1>11, <1>12, <1>13, <1>14, OverByName
<1> QED BY <1>15 DEF G, f, M

\* The metadata of collections that put creates and updates.
MetadataOver(r, s, v, p, new, c) ==
  LET w == r.writes
      K == [d \in DOMAIN w.metadata |-> <<Resolve(d, new), v>>]
      fresh == [k \in {<<c.ids[n], v>> : n \in NewNames(w) \ DOMAIN s.ids} |-> Empty]
  IN /\ DOMAIN c.rows \subseteq DOMAIN p.rows
     /\ IsOver(Described(c.rows), fresh, Described(s.rows))
     /\ Injective(K, DOMAIN w.metadata)
     /\ IsOver(Described(p.rows), Renamed(w.metadata, K), Described(c.rows))

LEMMA MetadataPut ==
  ASSUME NEW r, NEW s, NEW v, Committing(r, s, v),
         NEW p, NEW new, NEW c, NEW i, NEW m, Puts(r, s, v, p, new, c, i, m)
  PROVE  MetadataOver(r, s, v, p, new, c)
<1> DEFINE w == r.writes
           D == DOMAIN w.metadata
           K == [d \in D |-> <<Resolve(d, new), v>>]
           made == NewNames(w) \ DOMAIN s.ids
           fresh == [k \in {<<c.ids[n], v>> : n \in made} |-> Empty]
           u == Renamed(w.metadata, K)
<1>1. /\ v \in Nat /\ Catalogued(s, v) /\ Catalogued(c, v) /\ KeysOf(s)
      /\ IdsMean(r, c, new) /\ Extends(s, c) /\ Grown(c, s, v) /\ i.rows = c.rows
      /\ DOMAIN c.ids = DOMAIN s.ids \cup NewNames(w) /\ Rewritten(p, i, w, new, v)
  BY PutNames DEF Puts, Stages, Created, Indexed, Said
<1>2. \A d \in D : d \in Mine(r)
  BY CommittedIsSound DEF Written
<1>3. Injective(K, D)
  <2>1. \A d \in D : K[d] = <<Resolve(d, new), v>>
    OBVIOUS
  <2> HIDE DEF K, D
  <2> QED BY <1>1, <1>2, <2>1 DEF Injective, IdsMean
<1>4. \A k \in DOMAIN c.rows : k = <<k[1], k[2]>>
  <2>1. DOMAIN c.rows \subseteq RowKeys(v)
    BY <1>1, FieldTypes DEF Catalogued, IsTable
  <2> QED BY <2>1 DEF RowKeys
<1>5. s.lastCollection \in Nat /\ \A n \in DOMAIN s.ids : s.ids[n] \in 1 .. s.lastCollection
  <2>1. WellTyped(s, v)
    BY <1>1 DEF Catalogued
  <2> QED BY <2>1, IdsArePositive
<1>6. \A k \in DOMAIN s.rows : ~(k[1] > s.lastCollection)
  BY <1>1, <1>5 DEF Catalogued
<1>7. \A n \in made : n \in DOMAIN c.ids /\ n \notin DOMAIN s.ids
  BY <1>1
<1>8. ASSUME NEW k \in DOMAIN c.rows, k \notin DOMAIN s.rows
      PROVE  \E n \in made : k = <<c.ids[n], v>>
  <2>1. PICK n \in DOMAIN c.ids : k[1] = c.ids[n]
    BY <1>1 DEF Catalogued
  <2>2. k[2] = v /\ k[1] > s.lastCollection
    BY <1>1, <1>8 DEF Grown
  <2>3. n \notin DOMAIN s.ids
    <3> SUFFICES ASSUME n \in DOMAIN s.ids
                 PROVE  FALSE
      OBVIOUS
    <3>1. k[1] = s.ids[n]
      BY <1>1, <2>1 DEF Extends
    <3> QED BY <1>5, <2>2, <3>1
  <2>4. n \in made
    BY <1>1, <2>3
  <2>5. k = <<c.ids[n], v>>
    BY <1>4, <2>1, <2>2
  <2> QED BY <2>4, <2>5
<1>9. ASSUME NEW n \in made
      PROVE  <<c.ids[n], v>> \in DOMAIN c.rows /\ <<c.ids[n], v>> \notin DOMAIN s.rows
  <2>1. c.ids[n] > s.lastCollection /\ <<c.ids[n], v>> \in DOMAIN c.rows
    BY <1>1, <1>7 DEF Grown
  <2> QED BY <1>6, <2>1
<1>10. DOMAIN fresh = {<<c.ids[n], v>> : n \in made} /\ \A k \in DOMAIN fresh : fresh[k] = Empty
  OBVIOUS
<1> HIDE DEF fresh, made
<1>11. DOMAIN c.rows = DOMAIN fresh \cup DOMAIN s.rows
  <2>1. DOMAIN s.rows \subseteq DOMAIN c.rows
    BY <1>1 DEF Grown
  <2>2. \A k \in DOMAIN fresh : k \in DOMAIN c.rows
    BY <1>9, <1>10
  <2>3. \A k \in DOMAIN c.rows : k \in DOMAIN fresh \/ k \in DOMAIN s.rows
    BY <1>8, <1>10
  <2> QED BY <2>1, <2>2, <2>3
<1>12. IsOver(Described(c.rows), fresh, Described(s.rows))
  <2>1. ASSUME NEW k \in DOMAIN c.rows
        PROVE  c.rows[k].metadata = IF k \in DOMAIN fresh THEN fresh[k] ELSE s.rows[k].metadata
    <3>1. CASE k \in DOMAIN fresh
      <4>1. k \notin DOMAIN s.rows
        BY <1>9, <1>10, <3>1
      <4> QED BY <1>1, <1>10, <3>1, <4>1 DEF Grown
    <3>2. CASE k \notin DOMAIN fresh
      BY <1>1, <1>11, <3>2 DEF Grown
    <3> QED BY <3>1, <3>2
  <2> QED BY <1>11, <2>1 DEF IsOver, Described
<1>13. IsRenamed(u, w.metadata, K)
  <2> HIDE DEF K
  <2> QED BY <1>3, TableRenamed
<1>14. /\ DOMAIN u = {<<Resolve(d, new), v>> : d \in D}
       /\ \A d \in D : u[<<Resolve(d, new), v>>] = w.metadata[d]
  <2>1. \A d \in D : K[d] = <<Resolve(d, new), v>>
    OBVIOUS
  <2> HIDE DEF K, u, w, D
  <2>2. DOMAIN u = {K[d] : d \in D} /\ \A d \in D : u[K[d]] = w.metadata[d]
    BY <1>13 DEF IsRenamed, D
  <2> QED BY <2>1, <2>2
<1> HIDE DEF u, K
<1>15. DOMAIN p.rows = DOMAIN u \cup DOMAIN c.rows
  <2> HIDE DEF w
  <2> QED BY <1>1, <1>14 DEF Rewritten
<1>16. IsOver(Described(p.rows), u, Described(c.rows))
  <2>1. ASSUME NEW k \in DOMAIN p.rows
        PROVE  p.rows[k].metadata = IF k \in DOMAIN u THEN u[k] ELSE c.rows[k].metadata
    <3>1. CASE k \in DOMAIN u
      <4>1. PICK d \in D : k = <<Resolve(d, new), v>>
        BY <1>14, <3>1
      <4>2. p.rows[<<Resolve(d, new), v>>].metadata = w.metadata[d]
        <5> HIDE DEF w
        <5> QED BY <1>1 DEF Rewritten
      <4> QED BY <1>14, <3>1, <4>1, <4>2
    <3>2. CASE k \notin DOMAIN u
      <4>1. \A d \in D : k # <<Resolve(d, new), v>>
        BY <1>14, <3>2
      <4> HIDE DEF w
      <4> QED BY <1>1, <3>2, <4>1 DEF Rewritten
    <3> QED BY <3>1, <3>2
  <2>2. DOMAIN Described(p.rows) = DOMAIN p.rows /\ DOMAIN Described(c.rows) = DOMAIN c.rows
    BY DEF Described
  <2>3. ASSUME NEW k \in DOMAIN p.rows
        PROVE  Described(p.rows)[k] = IF k \in DOMAIN u THEN u[k] ELSE Described(c.rows)[k]
    <3>1. k \notin DOMAIN u => k \in DOMAIN c.rows
      BY <1>15
    <3> QED BY <2>1, <3>1 DEF Described
  <2> QED BY <1>15, <2>2, <2>3 DEF IsOver
<1>17. DOMAIN c.rows \subseteq DOMAIN p.rows
  BY <1>15
<1> QED BY <1>3, <1>12, <1>16, <1>17 DEF MetadataOver, fresh, u, K, made

\* The collections that r writes, over those of the table H, are the ones of p.
CollectionsMeant(r, v, p, H) ==
  LET w == Meant(r)
      known == {k[1] : k \in DOMAIN H}
  IN IsRenamed(Named!Over([k \in {<<n, v>> : n \in DOMAIN w.metadata} |-> w.metadata[k[1]]],
                 Named!Over([k \in {<<n, v>> : n \in w.create \ known} |-> Empty], H)),
               Described(p.rows), RowNames(p, DOMAIN p.rows))

\* So they are.
LEMMA CollectionsByName ==
  ASSUME NEW r, NEW s, NEW v, Committing(r, s, v),
         NEW p, NEW new, NEW c, NEW i, NEW m, Puts(r, s, v, p, new, c, i, m),
         NEW H, IsRenamed(H, Described(s.rows), RowNames(s, DOMAIN s.rows))
  PROVE  CollectionsMeant(r, v, p, H)
<1> DEFINE w == r.writes
           known == {k[1] : k \in DOMAIN H}
           D == DOMAIN w.metadata
           K == [d \in D |-> <<Resolve(d, new), v>>]
           made == NewNames(w) \ DOMAIN s.ids
           fresh == [k \in {<<c.ids[n], v>> : n \in made} |-> Empty]
           f == RowNames(p, DOMAIN p.rows)
           M == Meant(r).metadata
           N == [d \in D |-> NameMeant(r, d)]
           V == [n \in DOMAIN M |-> <<n, v>>]
           g == [d \in D |-> V[N[d]]]
           G == [k \in {<<n, v>> : n \in DOMAIN M} |-> M[k[1]]]
           E == [k \in {<<n, v>> : n \in made} |-> Empty]
<1>1. /\ v \in Nat /\ Catalogued(s, v) /\ Catalogued(c, v) /\ Catalogued(p, v)
      /\ Said(r, s, p, new) /\ IdsMean(r, c, new) /\ MetadataOver(r, s, v, p, new, c)
      /\ p.ids = c.ids /\ DOMAIN c.ids = DOMAIN s.ids \cup NewNames(w)
  BY PutNames, MetadataPut DEF Puts, Stages, Created
<1>2. /\ DOMAIN c.rows \subseteq DOMAIN p.rows
      /\ IsOver(Described(c.rows), fresh, Described(s.rows))
      /\ Injective(K, D) /\ IsOver(Described(p.rows), Renamed(w.metadata, K), Described(c.rows))
  BY <1>1 DEF MetadataOver
<1>3. /\ DOMAIN Described(p.rows) = DOMAIN p.rows /\ DOMAIN Described(c.rows) = DOMAIN c.rows
      /\ DOMAIN Described(s.rows) = DOMAIN s.rows
  BY DEF Described
<1>4. Injective(f, DOMAIN p.rows)
  BY <1>1, NamesDiffer DEF Said, KeysOf
<1>5. Injective(f, DOMAIN c.rows)
  BY <1>2, <1>4 DEF Injective
<1>6. DOMAIN s.rows \subseteq DOMAIN c.rows /\ DOMAIN fresh \subseteq DOMAIN c.rows
  <2> HIDE DEF fresh
  <2> QED BY <1>2, <1>3 DEF IsOver
<1>7. IsRenamed(H, Described(s.rows), f)
  <2>1. ASSUME NEW k \in DOMAIN s.rows
        PROVE  f[k] = RowNames(s, DOMAIN s.rows)[k]
    <3>1. k[1] \in CollectionIds(s) /\ k \in DOMAIN p.rows
      BY <1>1, <1>2, <1>6 DEF Said, KeysOf
    <3>2. PairName(p, k) = PairName(s, k)
      BY <1>1, <3>1 DEF PairName, Said
    <3> QED BY <3>1, <3>2 DEF RowNames
  <2> HIDE DEF f
  <2> QED BY <1>3, <2>1, RenamedAgain
<1>8. known = DOMAIN s.ids
  <2>1. DOMAIN H = {PairName(s, k) : k \in DOMAIN s.rows}
    <3>1. DOMAIN H = {RowNames(s, DOMAIN s.rows)[k] : k \in DOMAIN s.rows}
      BY <1>3 DEF IsRenamed
    <3>2. \A k \in DOMAIN s.rows : RowNames(s, DOMAIN s.rows)[k] = PairName(s, k)
      BY DEF RowNames
    <3> QED BY <3>1, <3>2
  <2>2. \A k \in DOMAIN s.rows : k[1] \in CollectionIds(s)
    BY <1>1 DEF Said, KeysOf
  <2>3. /\ \A n \in DOMAIN s.ids : NameOf(s, s.ids[n]) = n
        /\ \A id \in CollectionIds(s) : NameOf(s, id) \in DOMAIN s.ids
    BY <1>1, IdsHaveNames
  <2>4. \A k \in DOMAIN s.rows : PairName(s, k)[1] = NameOf(s, k[1])
    BY DEF PairName
  <2>5. known = {PairName(s, k)[1] : k \in DOMAIN s.rows}
    BY <2>1
  <2> HIDE DEF known
  <2>6. \A n \in known : n \in DOMAIN s.ids
    BY <2>2, <2>3, <2>4, <2>5
  <2>7. \A n \in DOMAIN s.ids : n \in known
    <3> SUFFICES ASSUME NEW n \in DOMAIN s.ids
                 PROVE  n \in known
      OBVIOUS
    <3>1. PICK k \in DOMAIN s.rows : k[1] = s.ids[n]
      BY <1>1 DEF Catalogued
    <3>2. PairName(s, k)[1] = n
      BY <2>3, <2>4, <3>1
    <3>3. PairName(s, k)[1] \in {PairName(s, l)[1] : l \in DOMAIN s.rows}
      OBVIOUS
    <3> QED BY <2>5, <3>2, <3>3
  <2> QED BY <2>6, <2>7
<1>9. Meant(r).create \ known = made
  BY <1>8 DEF Meant, NewNames
<1>10. IsRenamed(E, fresh, f)
  <2>1. \A n \in made : f[<<c.ids[n], v>>] = <<n, v>>
    <3> SUFFICES ASSUME NEW n \in made
                 PROVE  f[<<c.ids[n], v>>] = <<n, v>>
      OBVIOUS
    <3>1. <<c.ids[n], v>> \in DOMAIN p.rows
      BY <1>2, <1>6
    <3>2. n \in DOMAIN p.ids /\ p.ids[n] = c.ids[n]
      BY <1>1
    <3>3. PairName(p, <<c.ids[n], v>>) = <<n, v>>
      BY <1>1, <3>2 DEF PairName, Said
    <3> QED BY <3>1, <3>3 DEF RowNames
  <2>2. /\ DOMAIN E = {<<n, v>> : n \in made} /\ E = [x \in DOMAIN E |-> E[x]]
        /\ \A x \in DOMAIN E : E[x] = Empty
    OBVIOUS
  <2>3. /\ DOMAIN fresh = {<<c.ids[n], v>> : n \in made}
        /\ \A x \in DOMAIN fresh : fresh[x] = Empty
    OBVIOUS
  <2> HIDE DEF E, fresh, f, made
  <2>4. DOMAIN E = {f[x] : x \in DOMAIN fresh}
    <3>1. \A y \in DOMAIN E : \E x \in DOMAIN fresh : y = f[x]
      BY <2>1, <2>2, <2>3
    <3>2. \A x \in DOMAIN fresh : f[x] \in DOMAIN E
      BY <2>1, <2>2, <2>3
    <3> QED BY <3>1, <3>2
  <2>5. \A x \in DOMAIN fresh : E[f[x]] = fresh[x]
    BY <2>2, <2>3, <2>4
  <2> QED BY <2>2, <2>4, <2>5 DEF IsRenamed
<1>11. IsRenamed(Named!Over(E, H), Described(c.rows), f)
  <2> HIDE DEF E, fresh, f
  <2> QED BY <1>2, <1>3, <1>5, <1>7, <1>10, OverRenamed
<1>12. \A d \in D : d \in Mine(r)
  BY CommittedIsSound DEF Written
<1>13. IsRenamed(M, w.metadata, N)
  <2>1. M = Renamed(w.metadata, N)
    BY DEF Meant
  <2>2. \A d \in D : N[d] = NameMeant(r, d)
    OBVIOUS
  <2> HIDE DEF M, N, D
  <2>3. Injective(N, D)
    BY <1>1, <1>12, <2>2 DEF IdsMean, Injective
  <2> QED BY <2>1, <2>3, TableRenamed DEF D
<1> HIDE DEF M
<1>14. IsRenamed(G, M, V)
  <2>1. DOMAIN G = {V[n] : n \in DOMAIN M} /\ G = [x \in DOMAIN G |-> G[x]]
    OBVIOUS
  <2>2. \A n \in DOMAIN M : G[<<n, v>>] = M[n]
    OBVIOUS
  <2>3. \A n \in DOMAIN M : V[n] = <<n, v>>
    OBVIOUS
  <2> HIDE DEF G, V
  <2> QED BY <2>1, <2>2, <2>3 DEF IsRenamed
<1>15. IsRenamed(G, w.metadata, g)
  <2> HIDE DEF G, V, N
  <2> QED BY <1>13, <1>14, RenamedAgain
<1>16. ASSUME NEW d \in D
       PROVE  g[d] = f[K[d]]
  <2>1. K[d] = <<Resolve(d, new), v>> /\ N[d] = NameMeant(r, d)
    OBVIOUS
  <2>2. K[d] \in DOMAIN p.rows
    <3> HIDE DEF K, D
    <3>1. IsRenamed(Renamed(w.metadata, K), w.metadata, K)
      BY <1>2, TableRenamed DEF D
    <3> QED BY <1>2, <1>3, <3>1 DEF IsRenamed, IsOver, D
  <2>3. f[K[d]] = PairName(p, K[d])
    BY <2>2 DEF RowNames
  <2>4. PairName(p, K[d]) = <<NameMeant(r, d), v>>
    BY <1>1, <1>12, <2>1 DEF PairName, Said
  <2>5. N[d] \in DOMAIN M
    BY <1>13 DEF IsRenamed
  <2>6. g[d] = <<N[d], v>>
    BY <2>5
  <2> QED BY <2>1, <2>3, <2>4, <2>6
<1>17. IsRenamed(Named!Over(G, Named!Over(E, H)), Described(p.rows), f)
  <2> HIDE DEF K, f, G, g, w, E, D
  <2> QED BY <1>2, <1>3, <1>4, <1>11, <1>15, <1>16, OverByName DEF D
<1> QED BY <1>9, <1>17 DEF CollectionsMeant, G, E, f, M

\* The indexes.
LEMMA IndexesByName ==
  ASSUME NEW r, NEW s, NEW v, Committing(r, s, v),
         NEW p, NEW new, NEW c, NEW i, NEW m, Puts(r, s, v, p, new, c, i, m),
         NEW H, IsRenamed(H, Described(s.indexes), RowNames(s, DOMAIN s.indexes))
  PROVE  IsRenamed(Named!Over(H, Meant(r).indexes), Described(p.indexes),
                   RowNames(p, DOMAIN p.indexes))
<1> DEFINE w == r.writes
           D == DOMAIN w.newIndexes
           K == [k \in D |-> KeyFor(w, new, k)]
           t == Described(w.newIndexes)
           u == Renamed(t, K)
           f == RowNames(p, DOMAIN p.indexes)
           M == Meant(r).indexes
           N == [k \in D |-> <<NameMeant(r, k[1]), w.newIndexes[k].name>>]
<1>1. /\ v \in Nat /\ Catalogued(p, v) /\ Said(r, s, p, new) /\ IdsMean(r, c, new)
      /\ IndexGrown(i, c, w, new) /\ DOMAIN i.indexes = DOMAIN c.indexes \cup NewKeys(w, new)
      /\ c.indexes = s.indexes /\ p.indexes = i.indexes
      /\ NewNamed(w, r.snapshot, ShownIds(r))
  BY PutNames DEF Puts, Stages, Created, Indexed, Committing, Tidy
<1>2. \A k \in D : k[1] \in Mine(r)
  <2>1. NewIndexes(w, Mine(r))
    BY CommittedIsSound
  <2> QED BY <2>1 DEF NewIndexes, IsTable
<1>3. /\ DOMAIN t = D /\ \A k \in D : t[k] = w.newIndexes[k].metadata
      /\ DOMAIN Described(s.indexes) = DOMAIN s.indexes
      /\ DOMAIN Described(p.indexes) = DOMAIN p.indexes
      /\ \A k \in DOMAIN s.indexes : Described(s.indexes)[k] = s.indexes[k].metadata
      /\ \A k \in DOMAIN p.indexes : Described(p.indexes)[k] = p.indexes[k].metadata
  BY DEF Described
<1>4. /\ \A k \in D : K[k] = KeyFor(w, new, k)
      /\ \A k \in D : N[k] = <<NameMeant(r, k[1]), w.newIndexes[k].name>>
  OBVIOUS
<1>5. \A k, l \in D : k[1] = l[1] /\ w.newIndexes[k].name = w.newIndexes[l].name => k = l
  BY <1>1 DEF NewNamed
<1>6. M = Renamed(t, N)
  BY DEF Meant
<1> HIDE DEF K, N, t, f, M
<1>7. Injective(K, D)
  <2> SUFFICES ASSUME NEW k \in D, NEW l \in D, K[k] = K[l]
               PROVE  k = l
    BY DEF Injective
  <2>1. Resolve(k[1], new) = Resolve(l[1], new) /\ w.newIndexes[k].name = w.newIndexes[l].name
    BY <1>4 DEF KeyFor
  <2>2. k[1] = l[1]
    BY <1>1, <1>2, <2>1 DEF IdsMean
  <2> QED BY <1>5, <2>1, <2>2
<1>8. Injective(N, D)
  <2> SUFFICES ASSUME NEW k \in D, NEW l \in D, N[k] = N[l]
               PROVE  k = l
    BY DEF Injective
  <2>1. NameMeant(r, k[1]) = NameMeant(r, l[1]) /\ w.newIndexes[k].name = w.newIndexes[l].name
    BY <1>4
  <2>2. k[1] = l[1]
    BY <1>1, <1>2, <2>1 DEF IdsMean
  <2> QED BY <1>5, <2>1, <2>2
<1>9. IsRenamed(u, t, K) /\ IsRenamed(M, t, N)
  BY <1>3, <1>6, <1>7, <1>8, TableRenamed
<1> HIDE DEF u
<1>10. /\ DOMAIN u = NewKeys(w, new)
       /\ \A k \in D : u[KeyFor(w, new, k)] = w.newIndexes[k].metadata
  <2>1. DOMAIN u = {K[k] : k \in D} /\ \A k \in D : u[K[k]] = t[k]
    BY <1>3, <1>9 DEF IsRenamed
  <2> HIDE DEF D
  <2>2. DOMAIN u = {KeyFor(w, new, k) : k \in D}
    BY <1>4, <2>1
  <2>3. \A k \in D : u[KeyFor(w, new, k)] = w.newIndexes[k].metadata
    BY <1>3, <1>4, <2>1
  <2> QED BY <2>2, <2>3 DEF NewKeys, D
<1>11. IsOver(Described(p.indexes), Described(s.indexes), u)
  <2>1. DOMAIN p.indexes = DOMAIN s.indexes \cup DOMAIN u
    BY <1>1, <1>10
  <2>2. ASSUME NEW x \in DOMAIN p.indexes
        PROVE  p.indexes[x].metadata = IF x \in DOMAIN s.indexes THEN s.indexes[x].metadata ELSE u[x]
    <3>1. CASE x \in DOMAIN s.indexes
      BY <1>1, <3>1 DEF IndexGrown
    <3>2. CASE x \notin DOMAIN s.indexes
      <4>1. PICK k \in D :
              x = KeyFor(w, new, k) /\ p.indexes[x].metadata = w.newIndexes[k].metadata
        BY <1>1, <3>2 DEF IndexGrown
      <4> QED BY <1>10, <3>2, <4>1
    <3> QED BY <3>1, <3>2
  <2> QED BY <1>3, <2>1, <2>2 DEF IsOver
<1>12. Injective(f, DOMAIN p.indexes)
  BY <1>1, NamesDiffer DEF Said, KeysOf, f
<1>13. DOMAIN s.indexes \subseteq DOMAIN p.indexes /\ \A k \in D : KeyFor(w, new, k) \in DOMAIN p.indexes
  BY <1>1 DEF NewKeys
<1>14. IsRenamed(H, Described(s.indexes), f)
  <2>1. ASSUME NEW k \in DOMAIN s.indexes
        PROVE  f[k] = RowNames(s, DOMAIN s.indexes)[k]
    <3>1. k[1] \in CollectionIds(s) /\ k \in DOMAIN p.indexes
      BY <1>1, <1>13 DEF Said, KeysOf
    <3>2. PairName(p, k) = PairName(s, k)
      BY <1>1, <3>1 DEF PairName, Said
    <3> QED BY <3>1, <3>2 DEF RowNames, f
  <2> QED BY <1>3, <2>1, RenamedAgain
<1>15. ASSUME NEW k \in D
       PROVE  N[k] = f[K[k]]
  <2>1. f[K[k]] = PairName(p, KeyFor(w, new, k))
    BY <1>4, <1>13 DEF RowNames, f
  <2>2. PairName(p, KeyFor(w, new, k)) = <<NameMeant(r, k[1]), w.newIndexes[k].name>>
    BY <1>1, <1>2 DEF PairName, KeyFor, Said
  <2> QED BY <1>4, <2>1, <2>2
<1>16. IsRenamed(M, u, f)
  <2>1. \A k \in DOMAIN t : N[k] = f[K[k]]
    BY <1>3, <1>15
  <2> HIDE DEF D, w
  <2> QED BY <1>9, <2>1, RenamedAgain
<1>17. IsRenamed(Named!Over(H, M), Described(p.indexes), f)
  BY <1>3, <1>11, <1>12, <1>14, <1>16, OverRenamed
<1> QED BY <1>17 DEF f, M

\* The index entries.
LEMMA EntriesByName ==
  ASSUME NEW r, NEW s, NEW v, Committing(r, s, v),
         NEW p, NEW new, NEW c, NEW i, NEW m, Puts(r, s, v, p, new, c, i, m)
  PROVE  {EntryNamed(p, e) : e \in p.entries} =
           ({EntryNamed(s, e) : e \in s.entries} \ Meant(r).deleted) \cup Meant(r).put
<1> DEFINE w == r.writes
           D == DOMAIN w.entries
           Places(op) == {PlaceIn(k, m) : k \in {e \in D : w.entries[e] = op}}
           Of(k) == <<NameMeant(r, k[1]), IndexMeant(r, k[1], k[2]), k[3]>>
           Meanings(op) == {Of(k) : k \in {e \in D : w.entries[e] = op}}
           HasKey(e) == e = <<e[1], e[2]>> /\ \E k \in DOMAIN p.indexes : p.indexes[k].id = e[1]
<1>1. /\ v \in Nat /\ Catalogued(s, v) /\ Catalogued(p, v) /\ Owned(s) /\ Said(r, s, p, new)
      /\ IndexesMean(r, i, new, m) /\ p.indexes = i.indexes /\ Extends(s, p)
      /\ i.entries = s.entries /\ Filled(p, i, w, new, m, v, Written(w))
  BY PutNames DEF Puts, Stages, Created, Indexed, Stored
<1>2. \A k \in D : k[1] \in Mine(r)
  <2>1. Sound(w, ShownIds(r), IndexIds(r.snapshot))
    BY CommittedIsSound
  <2> QED BY <2>1, WritesBelong DEF Mine
<1>3. \A k \in DOMAIN p.indexes : IndexOf(p, p.indexes[k].id) = k
  BY <1>1, IndexesHaveKeys DEF Catalogued
<1>4. p.entries = (s.entries \ Places("Deleted")) \cup Places("Put")
  <2>1. \A op : EntriesIn(w, Written(w), op) = {e \in D : w.entries[e] = op}
    BY DEF EntriesIn, Written
  <2>2. \A op : PlacesIn(w, Written(w), op, m) = Places(op)
    BY <2>1 DEF PlacesIn
  <2> HIDE DEF Places, w
  <2> QED BY <1>1, <2>2 DEF Filled
<1>5. ASSUME NEW k \in D
      PROVE  EntryNamed(p, PlaceIn(k, m)) = Of(k) /\ HasKey(PlaceIn(k, m))
  <2>1. PICK key \in DOMAIN p.indexes :
          /\ key = <<Resolve(k[1], new), IndexMeant(r, k[1], k[2])>>
          /\ p.indexes[key].id = Resolve(k[2], m)
    BY <1>1 DEF IndexesMean
  <2>2. IndexOf(p, Resolve(k[2], m)) = key
    BY <1>3, <2>1
  <2>3. NameOf(p, key[1]) = NameMeant(r, k[1]) /\ key[2] = IndexMeant(r, k[1], k[2])
    BY <1>1, <1>2, <2>1 DEF Said
  <2>4. PlaceIn(k, m)[1] = Resolve(k[2], m) /\ PlaceIn(k, m)[2] = k[3]
        /\ PlaceIn(k, m) = <<Resolve(k[2], m), k[3]>>
    BY DEF PlaceIn
  <2>5. EntryNamed(p, PlaceIn(k, m)) = Of(k)
    BY <2>2, <2>3, <2>4 DEF EntryNamed
  <2>6. HasKey(PlaceIn(k, m))
    BY <2>1, <2>4
  <2> QED BY <2>5, <2>6
<1>6. ASSUME NEW e \in s.entries
      PROVE  EntryNamed(p, e) = EntryNamed(s, e) /\ HasKey(e)
  <2>1. e = <<e[1], e[2]>>
    <3>1. s.entries \subseteq Nat \X Doc
      BY <1>1 DEF Catalogued, WellTyped
    <3> QED BY <3>1
  <2>2. PICK k \in DOMAIN s.indexes : s.indexes[k].id = e[1]
    BY <1>1 DEF Owned
  <2>3. k \in DOMAIN p.indexes /\ p.indexes[k].id = e[1] /\ IndexOf(p, e[1]) = k
    BY <1>1, <1>3, <2>2 DEF Extends
  <2>4. IndexOf(s, e[1]) = k
    BY <1>1, <2>2, IndexesHaveKeys DEF Catalogued
  <2>5. NameOf(p, k[1]) = NameOf(s, k[1])
    BY <1>1 DEF Said, KeysOf
  <2> QED BY <2>1, <2>3, <2>4, <2>5 DEF EntryNamed
<1>7. ASSUME NEW e, HasKey(e), NEW x, HasKey(x), EntryNamed(p, e) = EntryNamed(p, x)
      PROVE  e = x
  <2>1. PICK k \in DOMAIN p.indexes : p.indexes[k].id = e[1]
    BY <1>7
  <2>2. PICK l \in DOMAIN p.indexes : p.indexes[l].id = x[1]
    BY <1>7
  <2>3. IndexOf(p, e[1]) = k /\ IndexOf(p, x[1]) = l
    BY <1>3, <2>1, <2>2
  <2>4. NameOf(p, k[1]) = NameOf(p, l[1]) /\ k[2] = l[2] /\ e[2] = x[2]
    BY <1>7, <2>3 DEF EntryNamed
  <2>5. k[1] = l[1]
    BY <1>1, <2>4, NamesDiffer DEF Said, KeysOf
  <2>6. k = l
    BY <1>1, <2>4, <2>5 DEF Said, KeysOf
  <2> QED BY <1>7, <2>1, <2>2, <2>4, <2>6
<1>8. Meant(r).deleted = Meanings("Deleted") /\ Meant(r).put = Meanings("Put")
  BY DEF Meant
<1> HIDE DEF HasKey, Of
<1>9. ASSUME NEW op
      PROVE  {EntryNamed(p, x) : x \in Places(op)} = Meanings(op)
  <2>1. \A x \in Places(op) : EntryNamed(p, x) \in Meanings(op)
    BY <1>5
  <2>2. \A y \in Meanings(op) : \E x \in Places(op) : y = EntryNamed(p, x)
    BY <1>5
  <2> HIDE DEF Places, Meanings
  <2> QED BY <2>1, <2>2
<1>10. ASSUME NEW op
       PROVE  \A x \in Places(op) : HasKey(x)
  BY <1>5
<1> HIDE DEF Places, Meanings
<1> DEFINE There == {EntryNamed(p, e) : e \in p.entries}
           Here == {EntryNamed(s, e) : e \in s.entries}
<1>11. ASSUME NEW y \in There
       PROVE  y \in (Here \ Meanings("Deleted")) \cup Meanings("Put")
  <2>1. PICK e \in p.entries : y = EntryNamed(p, e)
    OBVIOUS
  <2>2. CASE e \in Places("Put")
    BY <1>9, <2>1, <2>2
  <2>3. CASE e \in s.entries /\ e \notin Places("Deleted")
    <3>1. y \in Here
      BY <1>6, <2>1, <2>3
    <3>2. y \notin Meanings("Deleted")
      <4> SUFFICES ASSUME y \in Meanings("Deleted")
                   PROVE  FALSE
        OBVIOUS
      <4>1. PICK x \in Places("Deleted") : y = EntryNamed(p, x)
        BY <1>9
      <4>2. e = x
        BY <1>6, <1>7, <1>10, <2>1, <2>3, <4>1
      <4> QED BY <2>3, <4>2
    <3> QED BY <3>1, <3>2
  <2> QED BY <1>4, <2>2, <2>3
<1>12. ASSUME NEW y \in (Here \ Meanings("Deleted")) \cup Meanings("Put")
       PROVE  y \in There
  <2>1. CASE y \in Meanings("Put")
    <3>1. PICK x \in Places("Put") : y = EntryNamed(p, x)
      BY <1>9, <2>1
    <3> QED BY <1>4, <3>1
  <2>2. CASE y \in Here /\ y \notin Meanings("Deleted")
    <3>1. PICK e \in s.entries : y = EntryNamed(s, e)
      BY <2>2
    <3>2. y = EntryNamed(p, e)
      BY <1>6, <3>1
    <3>3. e \notin Places("Deleted")
      BY <1>9, <2>2, <3>2
    <3> QED BY <1>4, <3>2, <3>3
  <2> QED BY <2>1, <2>2
<1> HIDE DEF Here, There
<1>13. There = (Here \ Meanings("Deleted")) \cup Meanings("Put")
  BY <1>11, <1>12
<1> QED BY <1>8, <1>13 DEF Here, There

\* By name, put does what the transaction meant.
LEMMA PutByName ==
  ASSUME NEW r, NEW s, NEW v, Committing(r, s, v)
  PROVE  Content(Put(s, r.writes, v)) = Named!Applied(Content(s), Meant(r), v)
<1> DEFINE p == Put(s, r.writes, v)
           a == Content(s)
           b == Content(p)
           w == Meant(r)
           known == {k[1] : k \in DOMAIN a.collections}
           updated == [k \in {<<n, v>> : n \in DOMAIN w.metadata} |-> w.metadata[k[1]]]
           created == [k \in {<<n, v>> : n \in w.create \ known} |-> Empty]
           written == [k \in {<<d[1], d[2], v>> : d \in DOMAIN w.docs} |-> w.docs[<<k[1], k[2]>>]]
           collections == Named!Over(updated, Named!Over(created, a.collections))
           indexes == Named!Over(a.indexes, w.indexes)
           docs == Named!Over(written, a.docs)
           entries == (a.entries \ w.deleted) \cup w.put
<1>1. PICK new, c, i, m : Puts(r, s, v, p, new, c, i, m)
  BY CommitPuts
<1> HIDE DEF p
<1>2. /\ v \in Nat /\ Catalogued(s, v) /\ Catalogued(p, v) /\ Owned(s) /\ Owned(p)
  BY <1>1, PutNames
<1>3. ByName(a, s) /\ ByName(b, p)
  BY <1>2, ContentIsByName
<1>4. Named!Applied(a, w, v) =
        [collections |-> collections, indexes |-> indexes, docs |-> docs, entries |-> entries]
  BY DEF Named!Applied
<1> HIDE DEF a, b, w
<1>5. b.collections = collections
  <2>1. IsRenamed(a.collections, Described(s.rows), RowNames(s, DOMAIN s.rows))
    BY <1>3 DEF ByName
  <2>2. IsRenamed(b.collections, Described(p.rows), RowNames(p, DOMAIN p.rows))
    BY <1>3 DEF ByName
  <2>3. IsRenamed(collections, Described(p.rows), RowNames(p, DOMAIN p.rows))
    <3>1. CollectionsMeant(r, v, p, a.collections)
      BY <1>1, <2>1, CollectionsByName
    <3> QED BY <3>1 DEF CollectionsMeant, known, w
  <2> HIDE DEF collections
  <2> QED BY <2>2, <2>3, RenamedIsOne
<1>6. b.indexes = indexes
  <2>1. IsRenamed(a.indexes, Described(s.indexes), RowNames(s, DOMAIN s.indexes))
    BY <1>3 DEF ByName
  <2>2. IsRenamed(b.indexes, Described(p.indexes), RowNames(p, DOMAIN p.indexes))
    BY <1>3 DEF ByName
  <2>3. IsRenamed(indexes, Described(p.indexes), RowNames(p, DOMAIN p.indexes))
    BY <1>1, <2>1, IndexesByName DEF w
  <2> HIDE DEF indexes
  <2> QED BY <2>2, <2>3, RenamedIsOne
<1>7. b.docs = docs
  <2>1. IsRenamed(a.docs, s.docs, DocNames(s, DOMAIN s.docs))
    BY <1>3 DEF ByName
  <2>2. IsRenamed(b.docs, p.docs, DocNames(p, DOMAIN p.docs))
    BY <1>3 DEF ByName
  <2>3. IsRenamed(docs, p.docs, DocNames(p, DOMAIN p.docs))
    BY <1>1, <2>1, DocsByName DEF w
  <2> HIDE DEF docs
  <2> QED BY <2>2, <2>3, RenamedIsOne
<1>8. b.entries = entries
  <2>1. {EntryNamed(p, e) : e \in p.entries} =
          ({EntryNamed(s, e) : e \in s.entries} \ w.deleted) \cup w.put
    BY <1>1, EntriesByName DEF w
  <2> QED BY <1>3, <2>1 DEF ByName
<1>9. b = [collections |-> b.collections, indexes |-> b.indexes, docs |-> b.docs,
           entries |-> b.entries]
  BY <1>3 DEF ByName
<1> HIDE DEF collections, indexes, docs, entries
<1>10. b = Named!Applied(a, w, v)
  BY <1>4, <1>5, <1>6, <1>7, <1>8, <1>9
<1> QED BY <1>10 DEF a, b, w, p

\* Datastore::put: a commit does by name what its author meant by name, whichever ids the
\* names had when they were looked up and whoever created them meanwhile; and nothing
\* else changes the store.
THEOREM CommitsMean == Spec => CommitsMeanNames
<1> DEFINE A == \/ UNCHANGED store
                \/ \E t \in Tx : Commit(t) /\ Named!Commit(Meant(tx[t]), lastTs + 1)
<1>1. ASSUME BelongInv, NEW t \in Tx, Commit(t)
      PROVE  Named!Commit(Meant(tx[t]), lastTs + 1)
  <2> DEFINE v == lastTs + 1
             r == tx[t]
  <2>1. /\ lastTs \in Nat /\ Catalogued(store, lastTs) /\ Owned(store)
        /\ Sane(r, store, lastTs) /\ Tidy(r) /\ Belongs(r.writes, r.snapshot, r.lastTemp)
    BY <1>1 DEF BelongInv, TidyInv, CatalogInv
  <2>2. v \in Nat /\ lastTs <= v
    BY <2>1
  <2>3. Applicable(store, r.writes)
    <3>1. Sound(r.writes, ShownIds(r), IndexIds(r.snapshot)) /\ Extends(r.snapshot, store)
      BY <2>1 DEF Sane
    <3>2. ShownIds(r) \subseteq CollectionIds(store)
      BY <3>1, ExtendsIsOrder DEF ShownIds
    <3> HIDE DEF r
    <3> QED BY <2>1, <3>1, <3>2, SoundApplies
  <2>4. store' = Put(store, r.writes, v)
    BY <1>1, <2>3 DEF Commit
  <2> HIDE DEF v, r
  <2>5. Extends(store, store)
    BY DEF Extends
  <2>6. Catalogued(store, v) /\ Sane(r, store, v)
    BY <2>1, <2>2, <2>5, LaterTypes, SaneLater
  <2>7. Committing(r, store, v)
    BY <2>1, <2>2, <2>6 DEF Committing
  <2>8. Content(Put(store, r.writes, v)) = Named!Applied(Content(store), Meant(r), v)
    BY <2>7, PutByName
  <2>9. Content(store') = Named!Applied(Content(store), Meant(r), v)
    BY <2>4, <2>8
  <2>10. Named!Commit(Meant(r), v)
    BY <2>9 DEF Named!Commit
  <2> QED BY <2>10 DEF v, r
<1>2. BelongInv /\ [Next]_vars => [A]_vars
  <2> SUFFICES ASSUME BelongInv, Next, store' # store
               PROVE  \E t \in Tx : Commit(t) /\ Named!Commit(Meant(tx[t]), lastTs + 1)
    BY DEF vars
  <2>1. \A t, w, temp : ~Record(t, w, temp)
    BY DEF Record
  <2>2. ASSUME NEW t \in Tx
        PROVE  /\ ~Begin(t)
               /\ \A name \in Name : ~NewCollection(t, name)
               /\ \A collection \in Name, name \in Name, metadata \in Metadata :
                    ~NewIndex(t, collection, name, metadata)
               /\ \A collection \in Name, doc \in Doc : ~WriteDocument(t, collection, doc)
    BY <2>1 DEF Begin, NewCollection, NewIndex, WriteDocument
  <2>3. ASSUME NEW t \in Tx
        PROVE  /\ \A collection \in Name, name \in Name, doc \in Doc, op \in {"Put", "Deleted"} :
                    ~WriteIndexEntry(t, collection, name, doc, op)
               /\ \A collection \in Name, metadata \in Metadata :
                    ~UpdateCollectionMetadata(t, collection, metadata)
    BY <2>1 DEF WriteIndexEntry, UpdateCollectionMetadata
  <2>4. ~Publish
    BY DEF Publish
  <2>5. \E t \in Tx : Commit(t)
    BY <2>2, <2>3, <2>4 DEF Next
  <2> QED BY <1>1, <2>5
<1>3. CommitsMeanNames <=> [][A]_vars
  BY DEF CommitsMeanNames
<1> HIDE DEF A
<1> QED BY <1>2, <1>3, BelongInit, BelongStep, PTL DEF Spec
=============================================================================
