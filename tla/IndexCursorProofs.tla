--------------------------- MODULE IndexCursorProofs ---------------------------
(* A cursor's walk of an index returns the entries from its start on, in order, *)
(* each once, and none is left out when it ends: for every segment size, every  *)
(* well formed index, every start and both directions.                          *)
EXTENDS IndexCursor, OrderProofs

-----------------------------------------------------------------------------
(* Nodes and their bytes *)

\* The nodes of a trie are numbered up to its counter, and its edges bear full segments.
LEMMA Numbers ==
  ASSUME NEW t, WellFormed(t)
  PROVE  /\ t.counter \in Nat /\ Root \in 0 .. t.counter
         /\ \A e \in t.edges :
              /\ e.parent \in 0 .. t.counter /\ e.child \in 0 .. t.counter
              /\ e.parent < e.child /\ e.child # Root
              /\ e.segment \in Seq(Nat) /\ Len(e.segment) = SegSize
         /\ \A l \in t.leaves :
              /\ l.chain \in 0 .. t.counter /\ l.doc \in Nat
              /\ l.segment \in Seq(Nat) /\ Len(l.segment) \in Nat /\ Len(l.segment) <= SegSize
<1>1. t.counter \in Nat /\ Root \in 0 .. t.counter
  BY DEF WellFormed, Root
<1>2. ASSUME NEW e \in t.edges
      PROVE  /\ e.parent \in 0 .. t.counter /\ e.child \in 0 .. t.counter
             /\ e.parent < e.child /\ e.child # Root
             /\ e.segment \in Seq(Nat) /\ Len(e.segment) = SegSize
  <2>1. /\ e.parent \in Nat /\ e.child \in 1 .. t.counter /\ e.segment \in [1 .. SegSize -> Nat]
        /\ e.parent < e.child
    BY DEF WellFormed
  <2>2. e.segment \in Seq(Nat) /\ Len(e.segment) = SegSize
    BY <2>1, SegAssumption
  <2> QED BY <1>1, <2>1, <2>2 DEF Root
<1>3. ASSUME NEW l \in t.leaves
      PROVE  /\ l.chain \in 0 .. t.counter /\ l.doc \in Nat
             /\ l.segment \in Seq(Nat) /\ Len(l.segment) \in Nat /\ Len(l.segment) <= SegSize
  <2>1. /\ l.segment \in Seq(Nat) /\ l.doc \in Nat /\ Len(l.segment) <= SegSize
        /\ l.chain = Root \/ \E e \in t.edges : e.child = l.chain
    BY DEF WellFormed, Attached
  <2>2. l.chain \in 0 .. t.counter
    BY <1>1, <1>2, <2>1
  <2> QED BY <2>1, <2>2
<1> QED BY <1>1, <1>2, <1>3

\* p gives each node the bytes of the segments on the way to it.
Spells(t, p) ==
  /\ p \in [0 .. t.counter -> Seq(Nat)] /\ p[Root] = <<>>
  /\ \A e \in t.edges : p[e.child] = p[e.parent] \o e.segment

\* PrefixOf is the function its definition describes: a node's edge comes from a lower one.
LEMMA PrefixSpells ==
  ASSUME NEW t, WellFormed(t)
  PROVE  Spells(t, PrefixOf(t))
<1> DEFINE D == 0 .. t.counter
           Q == Seq(Nat)
           Up(a) == {e \in t.edges : e.child = a /\ e.parent < a}
           edge(a) == CHOOSE e \in Up(a) : TRUE
           Bytes(f, a) == IF Up(a) = {} THEN <<>> ELSE f[edge(a).parent] \o edge(a).segment
           prefix == CHOOSE f : f = [a \in D |-> Bytes(f, a)]
           S == {a \in D : Up(a) # {}}
           up == [a \in S |-> edge(a).parent]
           Step == [x \in Q \X D |-> IF x[2] \in S THEN x[1] \o edge(x[2]).segment ELSE <<>>]
<1>1. /\ t.counter \in Nat /\ Root \in D
      /\ \A e \in t.edges :
           /\ e.parent \in D /\ e.child \in D /\ e.parent < e.child /\ e.child # Root
           /\ e.segment \in Q
  BY Numbers
<1>2. PrefixOf(t) = prefix
  BY DEF PrefixOf
<1>3. ASSUME NEW a \in S
      PROVE  /\ edge(a) \in t.edges /\ edge(a).child = a
             /\ edge(a).parent \in D /\ edge(a).parent < a /\ edge(a).segment \in Q
  <2>1. edge(a) \in Up(a)
    OBVIOUS
  <2> HIDE DEF edge
  <2> QED BY <1>1, <2>1
<1> HIDE DEF edge, Up
<1>4. Step \in [Q \X D -> Q]
  <2>1. ASSUME NEW x \in Q \X D
        PROVE  (IF x[2] \in S THEN x[1] \o edge(x[2]).segment ELSE <<>>) \in Q
    <3>1. CASE x[2] \in S
      <4>1. x[1] \in Q /\ edge(x[2]).segment \in Q
        BY <1>3, <3>1
      <4>2. x[1] \o edge(x[2]).segment \in Q
        BY <4>1, ConcatProperties
      <4> QED BY <3>1, <4>2
    <3>2. CASE x[2] \notin S
      BY <3>2
    <3> QED BY <3>1, <3>2
  <2> HIDE DEF Q, D, S
  <2> QED BY <2>1
<1>5. PICK f \in [D -> Q] : Climbs(f, t.counter, S, up, <<>>, Step)
  <2>1. S \in SUBSET D /\ <<>> \in Q
    OBVIOUS
  <2>2. \A a \in S : up[a] \in D /\ up[a] < a
    BY <1>3
  <2> HIDE DEF S, up, Step, Q
  <2> QED BY <1>1, <1>4, <2>1, <2>2, ClimbExists
<1>6. f = [a \in D |-> Bytes(f, a)]
  <2>1. ASSUME NEW a \in D
        PROVE  (IF a \in S THEN Step[<<f[up[a]], a>>] ELSE <<>>) = Bytes(f, a)
    <3>1. CASE a \in S
      <4>1. f[up[a]] \in Q /\ up[a] = edge(a).parent
        BY <1>3, <3>1
      <4>2. Step[<<f[up[a]], a>>] = f[up[a]] \o edge(a).segment
        BY <3>1, <4>1
      <4> QED BY <3>1, <4>1, <4>2
    <3>2. CASE a \notin S
      BY <3>2
    <3> QED BY <3>1, <3>2
  <2>2. f = [a \in D |-> IF a \in S THEN Step[<<f[up[a]], a>>] ELSE <<>>]
    BY <1>5 DEF Climbs
  <2> HIDE DEF Step, Bytes, S, up, D, Q
  <2> QED BY <2>1, <2>2
<1>7. prefix = [a \in D |-> Bytes(prefix, a)]
  BY <1>6
<1> HIDE DEF prefix
<1>8. \A i \in D : i \in {k \in D : \A a \in 0 .. k : prefix[a] = f[a]}
  <2> DEFINE T == {k \in D : \A a \in 0 .. k : prefix[a] = f[a]}
  <2>1. ASSUME NEW k \in D, \A b \in D : b < k => prefix[b] = f[b]
        PROVE  prefix[k] = f[k]
    <3>1. prefix[k] = Bytes(prefix, k) /\ f[k] = Bytes(f, k)
      <4> HIDE DEF Bytes
      <4> QED BY <1>6, <1>7
    <3>2. Bytes(prefix, k) = Bytes(f, k)
      BY <1>3, <2>1
    <3> QED BY <3>1, <3>2
  <2> HIDE DEF Bytes
  <2>2. 0 \in T
    BY <1>1, <2>1
  <2>3. ASSUME NEW k \in 1 .. t.counter, k - 1 \in T
        PROVE  k \in T
    <3>1. k \in D /\ (\A b \in D : b < k => b \in 0 .. k - 1)
          /\ \A a \in 0 .. k : a = k \/ a \in 0 .. k - 1
      BY <1>1
    <3> QED BY <2>1, <2>3, <3>1
  <2> HIDE DEF T
  <2>4. \A i \in D : i \in T
    BY <1>1, <2>2, <2>3, UpTo
  <2> QED BY <2>4 DEF T
<1>9. \A a \in D : prefix[a] = f[a]
  BY <1>1, <1>8
<1>10. prefix \in [D -> Q] /\ \A a \in D : prefix[a] = Bytes(prefix, a)
  <2>1. prefix = [a \in D |-> prefix[a]]
    <3> HIDE DEF Bytes
    <3> QED BY <1>7
  <2> HIDE DEF Bytes, D, Q
  <2> QED BY <1>7, <1>9, <2>1
<1>11. prefix[Root] = <<>>
  <2>1. Up(Root) = {}
    BY <1>1 DEF Up
  <2> QED BY <1>1, <1>10, <2>1
<1>12. ASSUME NEW e \in t.edges
       PROVE  prefix[e.child] = prefix[e.parent] \o e.segment
  <2>1. e.child \in S /\ e \in Up(e.child)
    BY <1>1 DEF Up
  <2>2. edge(e.child) = e
    BY <1>3, <2>1 DEF WellFormed
  <2> QED BY <1>10, <2>1, <2>2
<1> QED BY <1>2, <1>10, <1>11, <1>12 DEF Spells
-----------------------------------------------------------------------------
(* Below a node *)

\* S holds what hangs below its nodes.
Downward(t, S) == \A e \in t.edges : e.parent \in S => e.child \in S

\* The node and those below it: no set that holds it and goes down leaves them out.
Under(t, c) ==
  {a \in 0 .. t.counter : \A S \in SUBSET (0 .. t.counter) : c \in S /\ Downward(t, S) => a \in S}

LeavesUnder(t, c) == {l \in t.leaves : l.chain \in Under(t, c)}

\* A node is under itself, and the children of a node under it are so too.
LEMMA UnderGrows ==
  ASSUME NEW t, WellFormed(t), NEW c \in 0 .. t.counter
  PROVE  /\ c \in Under(t, c) /\ Under(t, c) \in SUBSET (0 .. t.counter)
         /\ Downward(t, Under(t, c))
<1>1. c \in Under(t, c) /\ Under(t, c) \in SUBSET (0 .. t.counter)
  BY DEF Under
<1>2. ASSUME NEW e \in t.edges, e.parent \in Under(t, c)
      PROVE  e.child \in Under(t, c)
  <2>1. e.child \in 0 .. t.counter
    BY Numbers
  <2>2. ASSUME NEW S \in SUBSET (0 .. t.counter), c \in S, Downward(t, S)
        PROVE  e.child \in S
    BY <1>2, <2>2 DEF Under, Downward
  <2> QED BY <2>1, <2>2 DEF Under
<1> QED BY <1>1, <1>2 DEF Downward

\* What is true of a node and handed down its edges is true of all under it.
LEMMA UnderLeast ==
  ASSUME NEW t, NEW c, NEW S \in SUBSET (0 .. t.counter), c \in S, Downward(t, S)
  PROVE  Under(t, c) \subseteq S
BY DEF Under

\* The leaves under a node are its own and those under its children.
LEMMA LeavesSplit ==
  ASSUME NEW t, WellFormed(t), NEW c \in 0 .. t.counter, NEW l \in t.leaves
  PROVE  l \in LeavesUnder(t, c) <=>
           \/ l.chain = c
           \/ \E e \in t.edges : e.parent = c /\ l \in LeavesUnder(t, e.child)
<1> DEFINE S == {a \in 0 .. t.counter :
                   a = c \/ \E e \in t.edges : e.parent = c /\ a \in Under(t, e.child)}
<1>1. \A e \in t.edges : e.parent \in 0 .. t.counter /\ e.child \in 0 .. t.counter
  BY Numbers
<1>2. Downward(t, S)
  <2> SUFFICES ASSUME NEW e \in t.edges, e.parent \in S
               PROVE  e.child \in S
    BY DEF Downward
  <2>1. CASE e.parent = c
    BY <1>1, <2>1, UnderGrows
  <2>2. CASE e.parent # c
    <3>1. PICK f \in t.edges : f.parent = c /\ e.parent \in Under(t, f.child)
      BY <2>2
    <3>2. e.child \in Under(t, f.child)
      BY <1>1, <3>1, UnderGrows DEF Downward
    <3> QED BY <1>1, <3>1, <3>2
  <2> QED BY <2>1, <2>2
<1>3. Under(t, c) \subseteq S
  <2>1. S \in SUBSET (0 .. t.counter) /\ c \in S
    OBVIOUS
  <2> HIDE DEF S
  <2> QED BY <1>2, <2>1, UnderLeast
<1>4. ASSUME NEW e \in t.edges, e.parent = c
      PROVE  Under(t, e.child) \subseteq Under(t, c)
  <2> DEFINE U == Under(t, c)
  <2>1. U \in SUBSET (0 .. t.counter) /\ e.child \in U /\ Downward(t, U)
    BY <1>4, UnderGrows DEF Downward
  <2> HIDE DEF U
  <2>2. Under(t, e.child) \subseteq U
    BY <2>1, UnderLeast
  <2> QED BY <2>2 DEF U
<1>5. c \in Under(t, c)
  BY UnderGrows
<1> QED BY <1>3, <1>4, <1>5 DEF LeavesUnder

\* Every leaf is under the root.
LEMMA RootHasAll ==
  ASSUME NEW t, WellFormed(t)
  PROVE  LeavesUnder(t, Root) = t.leaves
<1> DEFINE Bad == {a \in Nat : Attached(t, a) /\ a \notin Under(t, Root)}
<1>1. /\ Root \in 0 .. t.counter
      /\ \A e \in t.edges :
           e.parent \in 0 .. t.counter /\ e.child \in 0 .. t.counter /\ e.parent < e.child
  BY Numbers
<1>2. Root \in Under(t, Root) /\ Downward(t, Under(t, Root))
  BY <1>1, UnderGrows
<1>3. Bad = {}
  <2> SUFFICES ASSUME Bad # {}
               PROVE  FALSE
    OBVIOUS
  <2>1. PICK a \in Bad : \A b \in Bad : a <= b
    <3>1. Bad \in SUBSET Nat
      OBVIOUS
    <3> HIDE DEF Bad
    <3> QED BY <3>1, LeastExists
  <2>2. PICK e \in t.edges : e.child = a
    BY <1>2, <2>1 DEF Attached
  <2>3. e.parent \in Nat /\ e.parent < a /\ Attached(t, e.parent)
    BY <1>1, <2>2 DEF WellFormed
  <2>4. e.parent \in Under(t, Root)
    BY <2>1, <2>3
  <2> QED BY <1>2, <2>1, <2>2, <2>4 DEF Downward
<1>4. \A l \in t.leaves : l.chain \in Nat /\ Attached(t, l.chain)
  BY DEF WellFormed
<1> QED BY <1>3, <1>4 DEF LeavesUnder

-----------------------------------------------------------------------------
(* Byte strings *)

\* Three strings joined.
Joined(a, b, c, d) == (a \o b) \o c = d

LEMMA Associates ==
  ASSUME NEW a \in Seq(Nat), NEW b \in Seq(Nat), NEW c \in Seq(Nat)
  PROVE  a \o b \in Seq(Nat) /\ Joined(a, b, c, a \o (b \o c))
<1>1. a \o b \in Seq(Nat)
  OBVIOUS
<1>2. (a \o b) \o c = a \o (b \o c)
  BY ConcatAssociative
<1> QED BY <1>1, <1>2 DEF Joined

-----------------------------------------------------------------------------
(* The keys of leaves *)

Word(p, l) == p[l.chain] \o l.segment
At(p, l) == <<Word(p, l), l.doc>>

\* A leaf's key is a string of bytes.
LEMMA AtType ==
  ASSUME NEW t, WellFormed(t), NEW p, Spells(t, p), NEW l \in t.leaves
  PROVE  /\ p[l.chain] \in Seq(Nat) /\ l.segment \in Seq(Nat) /\ l.doc \in Nat
         /\ At(p, l) \in Seq(Nat) \X Nat
<1>1. l.chain \in 0 .. t.counter /\ l.doc \in Nat /\ l.segment \in Seq(Nat)
  BY Numbers
<1>2. p[l.chain] \in Seq(Nat)
  BY <1>1 DEF Spells
<1>3. Word(p, l) \in Seq(Nat)
  BY <1>1, <1>2, ConcatProperties DEF Word
<1> QED BY <1>1, <1>2, <1>3 DEF At

\* t goes on where s ends.
Continues(s, t) == \E r \in Seq(Nat) : t = s \o r

\* A node's bytes begin those of every node under it.
LEMMA BytesUnder ==
  ASSUME NEW t, WellFormed(t), NEW p, Spells(t, p), NEW c \in 0 .. t.counter,
         NEW a \in Under(t, c)
  PROVE  p[c] \in Seq(Nat) /\ Continues(p[c], p[a])
<1> DEFINE S == {k \in 0 .. t.counter : \E r \in Seq(Nat) : p[k] = p[c] \o r}
<1>1. p[c] \in Seq(Nat) /\ <<>> \in Seq(Nat) /\ p[c] \o <<>> = p[c]
  <2>1. p[c] \in Seq(Nat)
    BY DEF Spells
  <2> QED BY <2>1, ConcatEmptySeq
<1>2. c \in S
  BY <1>1
<1>3. Downward(t, S)
  <2> SUFFICES ASSUME NEW e \in t.edges, e.parent \in S
               PROVE  e.child \in S
    BY DEF Downward
  <2>1. e.child \in 0 .. t.counter /\ e.segment \in Seq(Nat)
    BY Numbers
  <2>2. PICK r \in Seq(Nat) : p[e.parent] = p[c] \o r
    OBVIOUS
  <2>3. Joined(p[c], r, e.segment, p[c] \o (r \o e.segment)) /\ r \o e.segment \in Seq(Nat)
    BY <1>1, <2>1, Associates
  <2>4. p[e.child] = p[c] \o (r \o e.segment)
    BY <2>2, <2>3 DEF Spells, Joined
  <2> QED BY <2>1, <2>3, <2>4
<1>4. Under(t, c) \subseteq S
  <2>1. S \in SUBSET (0 .. t.counter)
    OBVIOUS
  <2> HIDE DEF S
  <2> QED BY <1>2, <1>3, <2>1, UnderLeast
<1> QED BY <1>1, <1>4 DEF Continues

\* t is q, then the segment, then more.
LeadsBy(q, segment, t) == \E r \in Seq(Nat) : r # <<>> /\ t = q \o (segment \o r)

\* The keys under an edge go on after its segment.
LEMMA WordsUnder ==
  ASSUME NEW t, WellFormed(t), NEW p, Spells(t, p), NEW e \in t.edges,
         NEW l \in LeavesUnder(t, e.child)
  PROVE  LeadsBy(p[e.parent], e.segment, Word(p, l))
<1>1. /\ e.child \in 0 .. t.counter /\ e.child # Root /\ e.segment \in Seq(Nat)
      /\ e.parent \in 0 .. t.counter /\ \A f \in t.edges : f.child # Root
      /\ \A f \in t.edges : f.child \in 0 .. t.counter
  BY Numbers
<1>2. l \in t.leaves /\ l.chain \in Under(t, e.child) /\ l.segment \in Seq(Nat)
  BY AtType DEF LeavesUnder
<1>3. l.segment # <<>>
  <2> DEFINE S == (0 .. t.counter) \ {Root}
  <2>1. S \in SUBSET (0 .. t.counter) /\ e.child \in S /\ Downward(t, S)
    BY <1>1 DEF Downward
  <2> HIDE DEF S
  <2>2. Under(t, e.child) \subseteq S
    BY <2>1, UnderLeast
  <2> QED BY <1>2, <2>2 DEF S, WellFormed
<1>4. PICK s \in Seq(Nat) : p[l.chain] = p[e.child] \o s
  <2>1. Continues(p[e.child], p[l.chain])
    BY <1>1, <1>2, BytesUnder
  <2> QED BY <2>1 DEF Continues
<1> DEFINE a == p[e.parent]
           r == s \o l.segment
<1>5. a \in Seq(Nat) /\ p[e.child] = a \o e.segment
  BY <1>1 DEF Spells
<1> HIDE DEF a
<1>6. e.segment \o s \in Seq(Nat) /\ r \in Seq(Nat)
  BY <1>1, <1>2, Associates
<1>7. Joined(e.segment, s, l.segment, e.segment \o r)
  BY <1>1, <1>2, Associates
<1>8. Joined(a, e.segment, s, a \o (e.segment \o s))
  BY <1>1, <1>5, Associates
<1>9. Joined(a, e.segment \o s, l.segment, a \o ((e.segment \o s) \o l.segment))
  BY <1>2, <1>5, <1>6, Associates
<1>10. r # <<>>
  BY <1>2, <1>3, ConcatEqualIffEmpty
<1> HIDE DEF r
<1>11. Word(p, l) = a \o (e.segment \o r)
  BY <1>4, <1>5, <1>7, <1>8, <1>9 DEF Word, Joined
<1> QED BY <1>6, <1>10, <1>11 DEF a, LeadsBy

-----------------------------------------------------------------------------
(* The order of keys *)

\* Strings that begin alike compare by what follows.
LEMMA LessBehind ==
  ASSUME NEW q \in Seq(Nat), NEW s \in Seq(Nat), NEW t \in Seq(Nat), Less(s, t)
  PROVE  Less(q \o s, q \o t)
<1> DEFINE k == Len(q)
           x == q \o s
           y == q \o t
<1>1. /\ k \in Nat /\ Len(s) \in Nat /\ Len(t) \in Nat
      /\ Len(x) = k + Len(s) /\ Len(y) = k + Len(t)
      /\ \A i \in 1 .. k + Len(s) : x[i] = IF i <= k THEN q[i] ELSE s[i - k]
      /\ \A i \in 1 .. k + Len(t) : y[i] = IF i <= k THEN q[i] ELSE t[i - k]
  BY ConcatProperties
<1>2. PICK n \in 0 .. Len(s) : /\ n < Len(t) /\ \A i \in 1 .. n : s[i] = t[i]
                               /\ n < Len(s) => s[n + 1] < t[n + 1]
  BY DEF Less
<1> HIDE DEF k, x, y
<1>3. k + n \in 0 .. Len(x) /\ k + n < Len(y)
  BY <1>1, <1>2
<1>4. ASSUME NEW i \in 1 .. k + n
      PROVE  x[i] = y[i]
  <2>1. i \in 1 .. k + Len(s) /\ i \in 1 .. k + Len(t)
    BY <1>1, <1>2
  <2>2. CASE i <= k
    BY <1>1, <2>1, <2>2
  <2>3. CASE ~(i <= k)
    <3>1. i - k \in 1 .. n
      BY <1>1, <2>3
    <3>2. s[i - k] = t[i - k]
      BY <1>2, <3>1
    <3> QED BY <1>1, <2>1, <2>3, <3>2
  <2> QED BY <2>2, <2>3
<1>5. ASSUME k + n < Len(x)
      PROVE  x[(k + n) + 1] < y[(k + n) + 1]
  <2>1. /\ n < Len(s) /\ (k + n) + 1 \in 1 .. k + Len(s) /\ (k + n) + 1 \in 1 .. k + Len(t)
        /\ ~((k + n) + 1 <= k) /\ ((k + n) + 1) - k = n + 1
    BY <1>1, <1>2, <1>5
  <2> QED BY <1>1, <1>2, <2>1
<1>6. Less(x, y)
  BY <1>3, <1>4, <1>5 DEF Less
<1> QED BY <1>6 DEF x, y

\* A string comes before the longer ones it begins.
LEMMA LessExtended ==
  ASSUME NEW s \in Seq(Nat), NEW r \in Seq(Nat), r # <<>>
  PROVE  Less(s, s \o r)
<1>1. /\ Len(s) \in Nat /\ Len(r) \in Nat \ {0} /\ Len(s \o r) = Len(s) + Len(r)
      /\ \A i \in 1 .. Len(s) : (s \o r)[i] = s[i]
  BY EmptySeq, ConcatProperties
<1>2. Len(s) \in 0 .. Len(s) /\ Len(s) < Len(s \o r)
  BY <1>1
<1> QED BY <1>1, <1>2 DEF Less

\* What is added to the greater string does not matter.
LEMMA LessLonger ==
  ASSUME NEW s \in Seq(Nat), NEW t \in Seq(Nat), NEW r \in Seq(Nat), Less(s, t)
  PROVE  Less(s, t \o r)
<1> DEFINE y == t \o r
<1>1. /\ Len(s) \in Nat /\ Len(t) \in Nat /\ Len(r) \in Nat /\ Len(y) = Len(t) + Len(r)
      /\ \A i \in 1 .. Len(t) : y[i] = t[i]
  BY ConcatProperties
<1>2. PICK n \in 0 .. Len(s) : /\ n < Len(t) /\ \A i \in 1 .. n : s[i] = t[i]
                               /\ n < Len(s) => s[n + 1] < t[n + 1]
  BY DEF Less
<1> HIDE DEF y
<1>3. n < Len(y) /\ (\A i \in 1 .. n : i \in 1 .. Len(t)) /\ n + 1 \in 1 .. Len(t)
  BY <1>1, <1>2
<1>4. Less(s, y)
  BY <1>1, <1>2, <1>3 DEF Less
<1> QED BY <1>4 DEF y

\* Nor what is added to the lesser one, when it is the longer of the two.
LEMMA LessBranches ==
  ASSUME NEW s \in Seq(Nat), NEW t \in Seq(Nat), NEW r \in Seq(Nat), Less(s, t),
         Len(t) <= Len(s)
  PROVE  Less(s \o r, t)
<1> DEFINE x == s \o r
<1>1. /\ Len(s) \in Nat /\ Len(t) \in Nat /\ Len(r) \in Nat /\ Len(x) = Len(s) + Len(r)
      /\ \A i \in 1 .. Len(s) : x[i] = s[i]
  BY ConcatProperties
<1>2. PICK n \in 0 .. Len(s) : /\ n < Len(t) /\ \A i \in 1 .. n : s[i] = t[i]
                               /\ n < Len(s) => s[n + 1] < t[n + 1]
  BY DEF Less
<1> HIDE DEF x
<1>3. /\ n < Len(s) /\ n \in 0 .. Len(x) /\ (\A i \in 1 .. n : i \in 1 .. Len(s))
      /\ n + 1 \in 1 .. Len(s)
  BY <1>1, <1>2
<1>4. Less(x, t)
  BY <1>1, <1>2, <1>3 DEF Less
<1> QED BY <1>4 DEF x

\* Leaves of one node compare by segment, then by document.
LEMMA LeafAndLeaf ==
  ASSUME NEW t, WellFormed(t), NEW p, Spells(t, p), NEW l \in t.leaves, NEW m \in t.leaves,
         l.chain = m.chain, PositionLess(<<l.segment, l.doc>>, <<m.segment, m.doc>>)
  PROVE  PositionLess(At(p, l), At(p, m))
<1>1. /\ p[l.chain] \in Seq(Nat) /\ l.segment \in Seq(Nat) /\ m.segment \in Seq(Nat)
  BY AtType
<1>2. CASE Less(l.segment, m.segment)
  BY <1>1, <1>2, LessBehind DEF PositionLess, At, Word
<1>3. CASE l.segment = m.segment /\ l.doc < m.doc
  BY <1>3 DEF PositionLess, At, Word
<1> QED BY <1>2, <1>3 DEF PositionLess

\* The keys under an edge come after a leaf beside it, unless its segment is less.
LEMMA LeafAndEdge ==
  ASSUME NEW t, WellFormed(t), NEW p, Spells(t, p), NEW l \in t.leaves, NEW e \in t.edges,
         l.chain = e.parent, NEW m \in LeavesUnder(t, e.child)
  PROVE  IF Less(e.segment, l.segment) THEN PositionLess(At(p, m), At(p, l))
         ELSE PositionLess(At(p, l), At(p, m))
<1> DEFINE q == p[l.chain]
           s == l.segment
           g == e.segment
<1>1. q \in Seq(Nat) /\ s \in Seq(Nat)
  BY AtType
<1>2. g \in Seq(Nat) /\ Len(s) <= Len(g)
  BY Numbers
<1>3. PICK r \in Seq(Nat) : r # <<>> /\ Word(p, m) = q \o (g \o r)
  <2>1. LeadsBy(p[e.parent], e.segment, Word(p, m))
    BY WordsUnder
  <2> QED BY <2>1 DEF LeadsBy
<1>4. g \o r \in Seq(Nat) /\ Word(p, l) = q \o s
  BY <1>2, ConcatProperties DEF Word
<1> HIDE DEF q, s, g
<1>5. CASE Less(g, s)
  <2>1. Less(g \o r, s)
    BY <1>1, <1>2, <1>5, LessBranches
  <2>2. Less(q \o (g \o r), q \o s)
    BY <1>1, <1>4, <2>1, LessBehind
  <2> QED BY <1>3, <1>4, <1>5, <2>2 DEF PositionLess, At, s, g
<1>6. CASE ~Less(g, s)
  <2>1. Less(s, g) \/ s = g
    BY <1>1, <1>2, <1>6, LessIsTotal
  <2>2. Less(s, g \o r)
    BY <1>1, <1>2, <1>3, <2>1, LessExtended, LessLonger
  <2>3. Less(q \o s, q \o (g \o r))
    BY <1>1, <1>4, <2>2, LessBehind
  <2> QED BY <1>3, <1>4, <1>6, <2>3 DEF PositionLess, At, s, g
<1> QED BY <1>5, <1>6

\* The keys under edges of one node compare by the edges' segments.
LEMMA EdgeAndEdge ==
  ASSUME NEW t, WellFormed(t), NEW p, Spells(t, p), NEW e \in t.edges, NEW f \in t.edges,
         e.parent = f.parent, Less(e.segment, f.segment),
         NEW l \in LeavesUnder(t, e.child), NEW m \in LeavesUnder(t, f.child)
  PROVE  PositionLess(At(p, l), At(p, m))
<1> DEFINE q == p[e.parent]
           g == e.segment
           h == f.segment
<1>1. /\ q \in Seq(Nat) /\ g \in Seq(Nat) /\ h \in Seq(Nat) /\ Len(h) <= Len(g)
  BY Numbers, SegAssumption DEF Spells
<1>2. PICK r \in Seq(Nat) : r # <<>> /\ Word(p, l) = q \o (g \o r)
  <2>1. LeadsBy(p[e.parent], e.segment, Word(p, l))
    BY WordsUnder
  <2> QED BY <2>1 DEF LeadsBy
<1>3. PICK s \in Seq(Nat) : s # <<>> /\ Word(p, m) = q \o (h \o s)
  <2>1. LeadsBy(p[f.parent], f.segment, Word(p, m))
    BY WordsUnder
  <2> QED BY <2>1 DEF LeadsBy
<1>4. g \o r \in Seq(Nat) /\ h \o s \in Seq(Nat)
  BY <1>1, ConcatProperties
<1>5. Less(g, h)
  OBVIOUS
<1> HIDE DEF q, g, h
<1>6. Less(g \o r, h)
  BY <1>1, <1>5, LessBranches
<1>7. Less(g \o r, h \o s)
  BY <1>1, <1>4, <1>6, LessLonger
<1>8. Less(q \o (g \o r), q \o (h \o s))
  BY <1>1, <1>4, <1>7, LessBehind
<1> QED BY <1>2, <1>3, <1>8 DEF PositionLess, At

-----------------------------------------------------------------------------
(* Frames *)

OwnLeaves(t, c) == {l \in t.leaves : l.chain = c}
OwnEdges(t, c) == {e \in t.edges : e.parent = c}

\* The orders the iterators of a frame run in.
LeafLess(l, m) == PositionLess(<<l.segment, l.doc>>, <<m.segment, m.doc>>)
LeafBefore(way, l, m) == Before(way, <<l.segment, l.doc>>, <<m.segment, m.doc>>)
EdgeLess(e, f) == Less(e.segment, f.segment)
EdgeBefore(way, e, f) == IF way = "Forward" THEN EdgeLess(e, f) ELSE EdgeLess(f, e)

\* A finite set that R orders is listed in that order or, backwards, in the other.
LEMMA EitherWay ==
  ASSUME NEW S, IsFiniteSet(S), NEW R, Orders(R, S), NEW way, NEW Q,
         \A x, y \in S : <<x, y>> \in Q <=> IF way = "Forward" THEN <<x, y>> \in R ELSE <<y, x>> \in R,
         NEW L, L = IF way = "Forward" THEN Enumeration(S, R) ELSE Reverse(Enumeration(S, R))
  PROVE  Lists(L, S, Q)
<1> DEFINE M == Enumeration(S, R)
<1>1. Lists(M, S, R)
  BY EnumerationLists
<1> HIDE DEF M
<1>2. CASE way = "Forward"
  <2>1. M \in Seq(S) /\ \A i \in 1 .. Len(M) : M[i] \in S
    BY <1>1 DEF Lists
  <2>2. Lists(M, S, Q)
    BY <1>1, <1>2, <2>1 DEF Lists
  <2> QED BY <1>2, <2>2 DEF M
<1>3. CASE way # "Forward"
  <2>1. \A x, y \in S : <<x, y>> \in R => <<y, x>> \in Q
    BY <1>3
  <2>2. Lists(Reverse(M), S, Q)
    BY <1>1, <2>1, ReverseLists
  <2> QED BY <1>3, <2>2 DEF M
<1> QED BY <1>2, <1>3

LeafPairs(S, way) == {x \in S \X S : LeafBefore(way, x[1], x[2])}
EdgePairs(S, way) == {x \in S \X S : EdgeBefore(way, x[1], x[2])}

\* The leaf iterator lists a node's leaves.
LEMMA LeavesListed ==
  ASSUME NEW t, WellFormed(t), NEW c, NEW way
  PROVE  Lists(Directed(way, OwnLeaves(t, c), LeafLess), OwnLeaves(t, c),
               LeafPairs(OwnLeaves(t, c), way))
<1> DEFINE S == OwnLeaves(t, c)
           R == LeafPairs(S, "Forward")
           L == Ascending(S, LeafLess)
           pos == [l \in S |-> <<l.segment, l.doc>>]
<1>1. /\ \A l \in S : pos[l] = <<l.segment, l.doc>> /\ pos[l] \in Seq(Nat) \X Nat
      /\ \A l, m \in S : pos[l] = pos[m] => l = m
  <2>1. \A l \in S : l \in [chain : Nat, segment : Seq(Nat), doc : Nat] /\ l.chain = c
    BY DEF OwnLeaves, WellFormed
  <2> HIDE DEF S
  <2>2. \A l, m \in S : l.segment = m.segment /\ l.doc = m.doc => l = m
    BY <2>1
  <2> QED BY <2>1, <2>2
<1>2. IsFiniteSet(S)
  <2>1. S \in SUBSET t.leaves /\ IsFiniteSet(t.leaves)
    BY DEF OwnLeaves, WellFormed
  <2> QED BY <2>1, FS_Subset
<1> HIDE DEF S
<1>3. \A l, m \in S : <<l, m>> \in R <=> Before("Forward", pos[l], pos[m])
  BY <1>1 DEF LeafPairs, LeafBefore
<1>4. Orders(R, S)
  <2> HIDE DEF R, pos
  <2> QED BY <1>1, <1>3, BeforeIsOrder DEF Orders
<1>5. L = Enumeration(S, R)
  <2> DEFINE Less1(i) == CHOOSE x \in S : Cardinality({y \in S : LeafLess(y, x)}) = i - 1
             In(i) == CHOOSE x \in S : Cardinality({y \in S : <<y, x>> \in R}) = i - 1
  <2>1. ASSUME NEW x \in S
        PROVE  {y \in S : LeafLess(y, x)} = {y \in S : <<y, x>> \in R}
    BY DEF LeafPairs, LeafBefore, LeafLess, Before
  <2>2. \A i \in 1 .. Cardinality(S) : Less1(i) = In(i)
    BY <2>1
  <2>3. /\ L = [i \in 1 .. Cardinality(S) |-> Less1(i)]
        /\ Enumeration(S, R) = [i \in 1 .. Cardinality(S) |-> In(i)]
    BY DEF Ascending, Enumeration
  <2> HIDE DEF Less1, In, L, R
  <2> QED BY <2>2, <2>3
<1>6. \A x, y \in S : <<x, y>> \in LeafPairs(S, way)
                        <=> IF way = "Forward" THEN <<x, y>> \in R ELSE <<y, x>> \in R
  BY DEF LeafPairs, LeafBefore, Before
<1>7. Directed(way, S, LeafLess) = IF way = "Forward" THEN L ELSE Reverse(L)
  BY DEF Directed
<1> HIDE DEF L, R
<1>8. Lists(Directed(way, S, LeafLess), S, LeafPairs(S, way))
  BY <1>2, <1>4, <1>5, <1>6, <1>7, EitherWay
<1> QED BY <1>8 DEF S

\* A trie has finitely many edges: each has a child for itself.
LEMMA FewEdges ==
  ASSUME NEW t, WellFormed(t)
  PROVE  IsFiniteSet(t.edges)
<1> DEFINE T == 0 .. t.counter
           f == [e \in t.edges |-> e.child]
<1>1. f \in Injection(t.edges, T)
  <2>1. f \in [t.edges -> T] /\ \A e \in t.edges : f[e] = e.child
    BY Numbers
  <2>2. \A e, g \in t.edges : e.child = g.child => e = g
    BY DEF WellFormed
  <2> HIDE DEF f
  <2> QED BY <2>1, <2>2 DEF Injection, IsInjective
<1>2. IsFiniteSet(T)
  <2>1. 0 \in Int /\ t.counter \in Int
    BY Numbers
  <2> QED BY <2>1, FS_Interval
<1> HIDE DEF T, f
<1> QED BY <1>1, <1>2, FS_Injection

\* The edge iterator lists a node's edges.
LEMMA EdgesListed ==
  ASSUME NEW t, WellFormed(t), NEW c, NEW way
  PROVE  Lists(Directed(way, OwnEdges(t, c), EdgeLess), OwnEdges(t, c),
               EdgePairs(OwnEdges(t, c), way))
<1> DEFINE S == OwnEdges(t, c)
           R == EdgePairs(S, "Forward")
           L == Ascending(S, EdgeLess)
<1>1. /\ \A e \in S : e.segment \in Seq(Nat)
      /\ \A e, f \in S : e.segment = f.segment => e = f
  <2>1. \A e \in S : e \in t.edges /\ e.parent = c
    BY DEF OwnEdges
  <2>2. \A e \in t.edges : e.segment \in Seq(Nat)
    BY Numbers
  <2> HIDE DEF S
  <2> QED BY <2>1, <2>2 DEF WellFormed
<1>2. IsFiniteSet(S)
  <2>1. S \in SUBSET t.edges /\ IsFiniteSet(t.edges)
    BY FewEdges DEF OwnEdges
  <2> QED BY <2>1, FS_Subset
<1> HIDE DEF S
<1>3. \A e, f \in S : <<e, f>> \in R <=> Less(e.segment, f.segment)
  BY DEF EdgePairs, EdgeBefore, EdgeLess
<1>4. Orders(R, S)
  <2> HIDE DEF R
  <2>1. \A e, f \in S : e # f => Less(e.segment, f.segment) \/ Less(f.segment, e.segment)
    BY <1>1, LessIsTotal
  <2>2. \A e, f, g \in S : /\ ~Less(e.segment, e.segment)
                           /\ Less(e.segment, f.segment) /\ Less(f.segment, g.segment)
                                => Less(e.segment, g.segment)
    BY <1>1, LessIsStrict
  <2> QED BY <1>3, <2>1, <2>2 DEF Orders
<1>5. L = Enumeration(S, R)
  <2> DEFINE Less1(i) == CHOOSE x \in S : Cardinality({y \in S : EdgeLess(y, x)}) = i - 1
             In(i) == CHOOSE x \in S : Cardinality({y \in S : <<y, x>> \in R}) = i - 1
  <2>1. ASSUME NEW x \in S
        PROVE  {y \in S : EdgeLess(y, x)} = {y \in S : <<y, x>> \in R}
    BY DEF EdgePairs, EdgeBefore
  <2>2. \A i \in 1 .. Cardinality(S) : Less1(i) = In(i)
    BY <2>1
  <2>3. /\ L = [i \in 1 .. Cardinality(S) |-> Less1(i)]
        /\ Enumeration(S, R) = [i \in 1 .. Cardinality(S) |-> In(i)]
    BY DEF Ascending, Enumeration
  <2> HIDE DEF Less1, In, L, R
  <2> QED BY <2>2, <2>3
<1>6. \A x, y \in S : <<x, y>> \in EdgePairs(S, way)
                        <=> IF way = "Forward" THEN <<x, y>> \in R ELSE <<y, x>> \in R
  BY DEF EdgePairs, EdgeBefore
<1>7. Directed(way, S, EdgeLess) = IF way = "Forward" THEN L ELSE Reverse(L)
  BY DEF Directed
<1> HIDE DEF L, R
<1>8. Lists(Directed(way, S, EdgeLess), S, EdgePairs(S, way))
  BY <1>2, <1>4, <1>5, <1>6, <1>7, EitherWay
<1> QED BY <1>8 DEF S

FrameRow(t) == [prefix : Seq(Nat), leaves : Seq(t.leaves), edges : Seq(t.edges)]

\* The leaves and edges a frame has still to visit are those of node c, in order.
Framed(t, p, way, f, c) ==
  /\ f \in FrameRow(t) /\ c \in 0 .. t.counter /\ f.prefix = p[c]
  /\ \A i \in 1 .. Len(f.leaves) : f.leaves[i] \in OwnLeaves(t, c)
  /\ \A i, j \in 1 .. Len(f.leaves) : i < j => LeafBefore(way, f.leaves[i], f.leaves[j])
  /\ \A i \in 1 .. Len(f.edges) : f.edges[i] \in OwnEdges(t, c)
  /\ \A i, j \in 1 .. Len(f.edges) : i < j => EdgeBefore(way, f.edges[i], f.edges[j])

\* The leaves a frame leads to.
Pending(t, f) ==
  {l \in t.leaves : \/ \E i \in 1 .. Len(f.leaves) : f.leaves[i] = l
                    \/ \E i \in 1 .. Len(f.edges) : l \in LeavesUnder(t, f.edges[i].child)}

\* IndexCursorFrame::new has all of its node before it.
LEMMA FrameIsNew ==
  ASSUME NEW c \in 0 .. trie.counter, WellFormed(trie), NEW p, Spells(trie, p)
  PROVE  /\ Framed(trie, p, direction, Frame(c, p[c]), c)
         /\ Pending(trie, Frame(c, p[c])) = LeavesUnder(trie, c)
<1> DEFINE S == OwnLeaves(trie, c)
           T == OwnEdges(trie, c)
           L == Directed(direction, S, LeafLess)
           M == Directed(direction, T, EdgeLess)
           f == Frame(c, p[c])
<1>1. f = [prefix |-> p[c], leaves |-> L, edges |-> M]
  BY DEF Frame, OwnLeaves, OwnEdges, Directed, Ascending, LeafLess, EdgeLess
<1>2. Lists(L, S, LeafPairs(S, direction)) /\ Lists(M, T, EdgePairs(T, direction))
  BY LeavesListed, EdgesListed
<1> HIDE DEF L, M
<1>3. S \subseteq trie.leaves /\ T \subseteq trie.edges /\ p[c] \in Seq(Nat)
  BY DEF OwnLeaves, OwnEdges, Spells
<1>4. /\ L \in Seq(S) /\ (\A i \in 1 .. Len(L) : L[i] \in S) /\ \A l \in S : \E i \in 1 .. Len(L) : L[i] = l
      /\ \A i, j \in 1 .. Len(L) : i < j => LeafBefore(direction, L[i], L[j])
  <2>1. L \in Seq(S)
    BY <1>2 DEF Lists
  <2>2. \A i \in 1 .. Len(L) : L[i] \in S
    BY <2>1
  <2> QED BY <1>2, <2>1, <2>2 DEF Lists, LeafPairs
<1>5. /\ M \in Seq(T) /\ (\A i \in 1 .. Len(M) : M[i] \in T) /\ \A e \in T : \E i \in 1 .. Len(M) : M[i] = e
      /\ \A i, j \in 1 .. Len(M) : i < j => EdgeBefore(direction, M[i], M[j])
  <2>1. M \in Seq(T)
    BY <1>2 DEF Lists
  <2>2. \A i \in 1 .. Len(M) : M[i] \in T
    BY <2>1
  <2> QED BY <1>2, <2>1, <2>2 DEF Lists, EdgePairs
<1>6. L \in Seq(trie.leaves) /\ M \in Seq(trie.edges)
  BY <1>3, <1>4, <1>5, SeqMonotonic
<1> HIDE DEF f, S, T
<1>7. Framed(trie, p, direction, f, c)
  <2>1. f \in FrameRow(trie)
    BY <1>1, <1>3, <1>6 DEF FrameRow
  <2>2. f.prefix = p[c] /\ f.leaves = L /\ f.edges = M
    BY <1>1
  <2> QED BY <1>4, <1>5, <2>1, <2>2 DEF Framed, S, T
<1>8. Pending(trie, f) = LeavesUnder(trie, c)
  <2>1. \A l \in trie.leaves : (\E i \in 1 .. Len(L) : L[i] = l) <=> l.chain = c
    BY <1>4 DEF S, OwnLeaves
  <2>2. ASSUME NEW l \in trie.leaves
        PROVE  (\E i \in 1 .. Len(M) : l \in LeavesUnder(trie, M[i].child))
                 <=> \E e \in trie.edges : e.parent = c /\ l \in LeavesUnder(trie, e.child)
    BY <1>5 DEF T, OwnEdges
  <2>3. f.leaves = L /\ f.edges = M
    BY <1>1
  <2>4. \A l \in trie.leaves : l \in Pending(trie, f) <=> l \in LeavesUnder(trie, c)
    BY <2>1, <2>2, <2>3, LeavesSplit DEF Pending
  <2> QED BY <2>4 DEF Pending, LeavesUnder
<1> QED BY <1>7, <1>8 DEF f

\* Leaves of one node are returned in the order of the iterator.
LEMMA LeafThenLeaf ==
  ASSUME NEW t, WellFormed(t), NEW p, Spells(t, p), NEW l \in t.leaves, NEW m \in t.leaves,
         l.chain = m.chain, NEW way, LeafBefore(way, l, m)
  PROVE  Before(way, At(p, l), At(p, m))
BY LeafAndLeaf DEF LeafBefore, Before

\* A leaf taken before an edge comes before all under it.
LEMMA LeafThenEdge ==
  ASSUME WellFormed(trie), NEW p, Spells(trie, p), NEW l \in trie.leaves, NEW e \in trie.edges,
         l.chain = e.parent, NEW m \in LeavesUnder(trie, e.child), LeafFirst(l, e)
  PROVE  Before(direction, At(p, l), At(p, m))
<1>1. IF Less(e.segment, l.segment) THEN PositionLess(At(p, m), At(p, l))
      ELSE PositionLess(At(p, l), At(p, m))
  BY LeafAndEdge
<1> QED BY <1>1 DEF LeafFirst, Before

\* All under an edge taken before a leaf comes before the leaf.
LEMMA EdgeThenLeaf ==
  ASSUME WellFormed(trie), NEW p, Spells(trie, p), NEW l \in trie.leaves, NEW e \in trie.edges,
         l.chain = e.parent, NEW m \in LeavesUnder(trie, e.child), ~LeafFirst(l, e)
  PROVE  Before(direction, At(p, m), At(p, l))
<1>1. IF Less(e.segment, l.segment) THEN PositionLess(At(p, m), At(p, l))
      ELSE PositionLess(At(p, l), At(p, m))
  BY LeafAndEdge
<1> QED BY <1>1 DEF LeafFirst, Before

\* All under an edge comes before what is under the next ones.
LEMMA EdgeThenEdge ==
  ASSUME NEW t, WellFormed(t), NEW p, Spells(t, p), NEW e \in t.edges, NEW f \in t.edges,
         e.parent = f.parent, NEW way, EdgeBefore(way, e, f),
         NEW l \in LeavesUnder(t, e.child), NEW m \in LeavesUnder(t, f.child)
  PROVE  Before(way, At(p, l), At(p, m))
<1>1. CASE way = "Forward"
  BY <1>1, EdgeAndEdge DEF EdgeBefore, EdgeLess, Before
<1>2. CASE way # "Forward"
  BY <1>2, EdgeAndEdge DEF EdgeBefore, EdgeLess, Before
<1> QED BY <1>1, <1>2

\* A leaf taken before an edge is taken before the next ones.
LEMMA LeafStaysFirst ==
  ASSUME NEW l, l.segment \in Seq(Nat), NEW e, e.segment \in Seq(Nat),
         NEW f, f.segment \in Seq(Nat), LeafFirst(l, e), EdgeBefore(direction, e, f)
  PROVE  LeafFirst(l, f)
<1>1. /\ Less(e.segment, f.segment) /\ Less(f.segment, l.segment) => Less(e.segment, l.segment)
      /\ Less(f.segment, e.segment) /\ Less(e.segment, l.segment) => Less(f.segment, l.segment)
  BY LessIsStrict
<1> QED BY <1>1 DEF LeafFirst, EdgeBefore, EdgeLess

\* An edge taken before a leaf is taken before the next ones.
LEMMA EdgeStaysFirst ==
  ASSUME NEW e, e.segment \in Seq(Nat), NEW l, l.segment \in Seq(Nat),
         NEW m, m.segment \in Seq(Nat), ~LeafFirst(l, e), LeafBefore(direction, l, m)
  PROVE  ~LeafFirst(m, e)
<1>1. /\ Less(e.segment, l.segment) /\ Less(l.segment, m.segment) => Less(e.segment, m.segment)
      /\ Less(e.segment, m.segment) /\ Less(m.segment, l.segment) => Less(e.segment, l.segment)
  BY LessIsStrict
<1>2. CASE direction = "Forward"
  <2>1. Less(l.segment, m.segment) \/ l.segment = m.segment
    BY <1>2 DEF LeafBefore, Before, PositionLess
  <2> QED BY <1>1, <1>2, <2>1 DEF LeafFirst
<1>3. CASE direction # "Forward"
  <2>1. Less(m.segment, l.segment) \/ l.segment = m.segment
    BY <1>3 DEF LeafBefore, Before, PositionLess
  <2> QED BY <1>1, <1>3, <2>1 DEF LeafFirst
<1> QED BY <1>2, <1>3

\* What a frame becomes.
LeafGone(f) == [f EXCEPT !.leaves = Tail(@)]
EdgeGone(f) == [f EXCEPT !.edges = Tail(@)]

\* The entry of l is returned before those of the leaves in S.
Precedes(p, way, l, S) == \A m \in S : Before(way, At(p, l), At(p, m))

\* next_action: the leaf a frame visits comes before all else it leads to.
LEMMA LeafTaken ==
  ASSUME WellFormed(trie), NEW p, Spells(trie, p), NEW f, NEW c,
         Framed(trie, p, direction, f, c), TakesLeaf(f)
  PROVE  /\ Framed(trie, p, direction, LeafGone(f), c)
         /\ Head(f.leaves) \in trie.leaves
         /\ f.prefix \o Head(f.leaves).segment = Word(p, Head(f.leaves))
         /\ Pending(trie, f) = Pending(trie, LeafGone(f)) \cup {Head(f.leaves)}
         /\ Precedes(p, direction, Head(f.leaves), Pending(trie, LeafGone(f)))
<1> DEFINE L == f.leaves
           M == f.edges
           l == Head(L)
           g == LeafGone(f)
           K == Tail(L)
<1>1. f \in FrameRow(trie) /\ L \in Seq(trie.leaves) /\ M \in Seq(trie.edges) /\ L # <<>>
  BY DEF Framed, FrameRow, TakesLeaf
<1>2. g \in FrameRow(trie) /\ g.prefix = f.prefix /\ g.leaves = K /\ g.edges = M
  <2>1. K \in Seq(trie.leaves)
    BY <1>1, HeadTailProperties
  <2> HIDE DEF K
  <2>2. g = [f EXCEPT !.leaves = K]
    BY DEF LeafGone, K
  <2> QED BY <1>1, <2>1, <2>2 DEF FrameRow
<1>3. /\ l = L[1] /\ 1 \in 1 .. Len(L) /\ Len(K) = Len(L) - 1 /\ Len(L) \in Nat
      /\ \A i \in 1 .. Len(K) : K[i] = L[i + 1] /\ i + 1 \in 1 .. Len(L) /\ 1 < i + 1
      /\ \A i \in 1 .. Len(L) : i # 1 => i - 1 \in 1 .. Len(K) /\ L[i] = K[i - 1]
  <2>1. /\ l = L[1] /\ 1 \in 1 .. Len(L) /\ Len(K) = Len(L) - 1 /\ Len(L) \in Nat
        /\ \A i \in 1 .. Len(L) - 1 : K[i] = L[i + 1] /\ i + 1 \in 1 .. Len(L)
        /\ \A i \in 1 .. Len(L) : i # 1 => i - 1 \in 1 .. Len(L) - 1 /\ (i - 1) + 1 = i
    BY <1>1, Tails
  <2> HIDE DEF K, l, L
  <2>2. \A i \in 1 .. Len(K) : 1 < i + 1
    OBVIOUS
  <2>3. \A i \in 1 .. Len(L) : i # 1 => L[i] = K[i - 1]
    <3> SUFFICES ASSUME NEW i \in 1 .. Len(L), i # 1
                 PROVE  L[i] = K[i - 1]
      OBVIOUS
    <3>1. i - 1 \in 1 .. Len(L) - 1 /\ (i - 1) + 1 = i
      BY <2>1
    <3>2. K[i - 1] = L[(i - 1) + 1]
      BY <2>1, <3>1
    <3> QED BY <3>1, <3>2
  <2> QED BY <2>1, <2>2, <2>3
<1>4. /\ f.prefix = p[c] /\ c \in 0 .. trie.counter
      /\ \A i \in 1 .. Len(L) : L[i] \in trie.leaves /\ L[i].chain = c
      /\ \A i, j \in 1 .. Len(L) : i < j => LeafBefore(direction, L[i], L[j])
      /\ \A i \in 1 .. Len(M) : M[i] \in trie.edges /\ M[i].parent = c
      /\ \A i, j \in 1 .. Len(M) : i < j => EdgeBefore(direction, M[i], M[j])
  BY DEF Framed, OwnLeaves, OwnEdges
<1>5. l \in trie.leaves /\ l.chain = c
  BY <1>3, <1>4
<1>6. M # <<>> => LeafFirst(l, M[1])
  <2>1. M # <<>> => Head(M) = M[1]
    BY <1>1, Tails
  <2> QED BY <2>1 DEF TakesLeaf
<1> HIDE DEF L, M, l, g, K
<1>7. Framed(trie, p, direction, g, c)
  <2>1. \A i \in 1 .. Len(K) : K[i] \in OwnLeaves(trie, c)
    BY <1>3, <1>4 DEF OwnLeaves
  <2>2. \A i, j \in 1 .. Len(K) : i < j => LeafBefore(direction, K[i], K[j])
    <3> SUFFICES ASSUME NEW i \in 1 .. Len(K), NEW j \in 1 .. Len(K), i < j
                 PROVE  LeafBefore(direction, K[i], K[j])
      OBVIOUS
    <3>1. i + 1 < j + 1
      OBVIOUS
    <3> QED BY <1>3, <1>4, <3>1
  <2>3. \A i \in 1 .. Len(M) : M[i] \in OwnEdges(trie, c)
    BY <1>4 DEF OwnEdges
  <2> QED BY <1>2, <1>4, <2>1, <2>2, <2>3 DEF Framed
<1>8. Pending(trie, f) = Pending(trie, g) \cup {l}
  <2>1. ASSUME NEW m \in trie.leaves
        PROVE  (\E i \in 1 .. Len(L) : L[i] = m) <=> m = l \/ \E i \in 1 .. Len(K) : K[i] = m
    BY <1>3
  <2>2. \A m \in trie.leaves : m \in Pending(trie, f) <=> m \in Pending(trie, g) \/ m = l
    BY <1>2, <2>1 DEF Pending, L, M
  <2> QED BY <1>5, <2>2 DEF Pending
<1>9. ASSUME NEW m \in Pending(trie, g)
      PROVE  Before(direction, At(p, l), At(p, m))
  <2>1. CASE \E i \in 1 .. Len(K) : K[i] = m
    <3>1. PICK i \in 1 .. Len(K) : K[i] = m
      BY <2>1
    <3>2. m \in trie.leaves /\ m.chain = c /\ LeafBefore(direction, l, m)
      BY <1>3, <1>4, <3>1
    <3> QED BY <1>5, <3>2, LeafThenLeaf
  <2>2. CASE \E i \in 1 .. Len(M) : m \in LeavesUnder(trie, M[i].child)
    <3>1. PICK i \in 1 .. Len(M) : m \in LeavesUnder(trie, M[i].child)
      BY <2>2
    <3>2. M # <<>> /\ 1 \in 1 .. Len(M) /\ (i = 1 \/ 1 < i)
      BY <1>1, <3>1
    <3>3. LeafFirst(l, M[i])
      <4>1. CASE i = 1
        BY <1>6, <3>2, <4>1
      <4>2. CASE 1 < i
        <5> DEFINE e == M[1]
                   h == M[i]
        <5>1. EdgeBefore(direction, e, h) /\ LeafFirst(l, e) /\ e \in trie.edges /\ h \in trie.edges
          BY <1>4, <1>6, <3>2, <4>2
        <5> HIDE DEF e, h
        <5>2. l.segment \in Seq(Nat) /\ e.segment \in Seq(Nat) /\ h.segment \in Seq(Nat)
          BY <1>5, <5>1, Numbers
        <5>3. LeafFirst(l, h)
          BY <5>1, <5>2, LeafStaysFirst
        <5> QED BY <5>3 DEF h
      <4> QED BY <3>2, <4>1, <4>2
    <3>4. M[i] \in trie.edges /\ M[i].parent = c
      BY <1>4
    <3> QED BY <1>5, <3>1, <3>3, <3>4, LeafThenEdge
  <2> QED BY <1>2, <2>1, <2>2 DEF Pending
<1>10. f.prefix \o l.segment = Word(p, l)
  BY <1>4, <1>5 DEF Word
<1> QED BY <1>5, <1>7, <1>8, <1>9, <1>10 DEF Precedes, l, L, g

\* next_action: what is under the edge a frame descends comes before all else it leads to.
LEMMA EdgeTaken ==
  ASSUME WellFormed(trie), NEW p, Spells(trie, p), NEW f, NEW c,
         Framed(trie, p, direction, f, c), TakesEdge(f)
  PROVE  /\ Framed(trie, p, direction, EdgeGone(f), c)
         /\ Head(f.edges) \in trie.edges
         /\ f.prefix \o Head(f.edges).segment = p[Head(f.edges).child]
         /\ Pending(trie, f) = Pending(trie, EdgeGone(f)) \cup LeavesUnder(trie, Head(f.edges).child)
         /\ \A l \in LeavesUnder(trie, Head(f.edges).child) :
              Precedes(p, direction, l, Pending(trie, EdgeGone(f)))
<1> DEFINE L == f.leaves
           M == f.edges
           e == Head(M)
           g == EdgeGone(f)
           K == Tail(M)
<1>1. f \in FrameRow(trie) /\ L \in Seq(trie.leaves) /\ M \in Seq(trie.edges) /\ M # <<>>
  BY DEF Framed, FrameRow, TakesEdge
<1>2. g \in FrameRow(trie) /\ g.prefix = f.prefix /\ g.leaves = L /\ g.edges = K
  <2>1. K \in Seq(trie.edges)
    BY <1>1, HeadTailProperties
  <2> HIDE DEF K
  <2>2. g = [f EXCEPT !.edges = K]
    BY DEF EdgeGone, K
  <2> QED BY <1>1, <2>1, <2>2 DEF FrameRow
<1>3. /\ e = M[1] /\ 1 \in 1 .. Len(M) /\ Len(K) = Len(M) - 1 /\ Len(M) \in Nat
      /\ \A i \in 1 .. Len(K) : K[i] = M[i + 1] /\ i + 1 \in 1 .. Len(M) /\ 1 < i + 1
      /\ \A i \in 1 .. Len(M) : i # 1 => i - 1 \in 1 .. Len(K) /\ M[i] = K[i - 1]
  <2>1. /\ e = M[1] /\ 1 \in 1 .. Len(M) /\ Len(K) = Len(M) - 1 /\ Len(M) \in Nat
        /\ \A i \in 1 .. Len(M) - 1 : K[i] = M[i + 1] /\ i + 1 \in 1 .. Len(M)
        /\ \A i \in 1 .. Len(M) : i # 1 => i - 1 \in 1 .. Len(M) - 1 /\ (i - 1) + 1 = i
    BY <1>1, Tails
  <2> HIDE DEF K, e, M
  <2>2. \A i \in 1 .. Len(K) : 1 < i + 1
    OBVIOUS
  <2>3. \A i \in 1 .. Len(M) : i # 1 => M[i] = K[i - 1]
    <3> SUFFICES ASSUME NEW i \in 1 .. Len(M), i # 1
                 PROVE  M[i] = K[i - 1]
      OBVIOUS
    <3>1. i - 1 \in 1 .. Len(M) - 1 /\ (i - 1) + 1 = i
      BY <2>1
    <3>2. K[i - 1] = M[(i - 1) + 1]
      BY <2>1, <3>1
    <3> QED BY <3>1, <3>2
  <2> QED BY <2>1, <2>2, <2>3
<1>4. /\ f.prefix = p[c] /\ c \in 0 .. trie.counter
      /\ \A i \in 1 .. Len(L) : L[i] \in trie.leaves /\ L[i].chain = c
      /\ \A i, j \in 1 .. Len(L) : i < j => LeafBefore(direction, L[i], L[j])
      /\ \A i \in 1 .. Len(M) : M[i] \in trie.edges /\ M[i].parent = c
      /\ \A i, j \in 1 .. Len(M) : i < j => EdgeBefore(direction, M[i], M[j])
  BY DEF Framed, OwnLeaves, OwnEdges
<1>5. e \in trie.edges /\ e.parent = c
  BY <1>3, <1>4
<1>6. L # <<>> => ~LeafFirst(L[1], e)
  <2>1. L # <<>> => Head(L) = L[1]
    BY <1>1, Tails
  <2> QED BY <2>1 DEF TakesLeaf, TakesEdge
<1> HIDE DEF L, M, e, g, K
<1>7. Framed(trie, p, direction, g, c)
  <2>1. \A i \in 1 .. Len(K) : K[i] \in OwnEdges(trie, c)
    BY <1>3, <1>4 DEF OwnEdges
  <2>2. \A i, j \in 1 .. Len(K) : i < j => EdgeBefore(direction, K[i], K[j])
    <3> SUFFICES ASSUME NEW i \in 1 .. Len(K), NEW j \in 1 .. Len(K), i < j
                 PROVE  EdgeBefore(direction, K[i], K[j])
      OBVIOUS
    <3>1. i + 1 < j + 1
      OBVIOUS
    <3> QED BY <1>3, <1>4, <3>1
  <2>3. \A i \in 1 .. Len(L) : L[i] \in OwnLeaves(trie, c)
    BY <1>4 DEF OwnLeaves
  <2> QED BY <1>2, <1>4, <2>1, <2>2, <2>3 DEF Framed
<1>8. Pending(trie, f) = Pending(trie, g) \cup LeavesUnder(trie, e.child)
  <2>1. ASSUME NEW m \in trie.leaves
        PROVE  (\E i \in 1 .. Len(M) : m \in LeavesUnder(trie, M[i].child)) <=>
                 \/ m \in LeavesUnder(trie, e.child)
                 \/ \E i \in 1 .. Len(K) : m \in LeavesUnder(trie, K[i].child)
    BY <1>3
  <2>2. \A m \in trie.leaves : m \in Pending(trie, f) <=>
                                 m \in Pending(trie, g) \/ m \in LeavesUnder(trie, e.child)
    BY <1>2, <2>1 DEF Pending, L, M
  <2>3. LeavesUnder(trie, e.child) \subseteq trie.leaves
    BY DEF LeavesUnder
  <2> QED BY <2>2, <2>3 DEF Pending
<1>9. ASSUME NEW l \in LeavesUnder(trie, e.child), NEW m \in Pending(trie, g)
      PROVE  Before(direction, At(p, l), At(p, m))
  <2>1. CASE \E i \in 1 .. Len(L) : L[i] = m
    <3>1. PICK i \in 1 .. Len(L) : L[i] = m
      BY <2>1
    <3>2. L # <<>> /\ 1 \in 1 .. Len(L) /\ (i = 1 \/ 1 < i)
      BY <1>1, <3>1
    <3>3. ~LeafFirst(m, e)
      <4>1. CASE i = 1
        BY <1>6, <3>1, <3>2, <4>1
      <4>2. CASE 1 < i
        <5> DEFINE k == L[1]
        <5>1. LeafBefore(direction, k, m) /\ ~LeafFirst(k, e) /\ k \in trie.leaves /\ m \in trie.leaves
          BY <1>4, <1>6, <3>1, <3>2, <4>2
        <5> HIDE DEF k
        <5>2. k.segment \in Seq(Nat) /\ e.segment \in Seq(Nat) /\ m.segment \in Seq(Nat)
          BY <1>5, <5>1, Numbers
        <5> QED BY <5>1, <5>2, EdgeStaysFirst
      <4> QED BY <3>2, <4>1, <4>2
    <3>4. m \in trie.leaves /\ m.chain = e.parent
      BY <1>4, <1>5, <3>1
    <3> QED BY <1>5, <3>3, <3>4, EdgeThenLeaf
  <2>2. CASE \E i \in 1 .. Len(K) : m \in LeavesUnder(trie, K[i].child)
    <3>1. PICK i \in 1 .. Len(K) : m \in LeavesUnder(trie, K[i].child)
      BY <2>2
    <3> DEFINE h == K[i]
    <3>2. h \in trie.edges /\ h.parent = e.parent /\ EdgeBefore(direction, e, h)
      BY <1>3, <1>4, <1>5
    <3> HIDE DEF h
    <3>3. m \in LeavesUnder(trie, h.child)
      BY <3>1 DEF h
    <3> QED BY <1>5, <3>2, <3>3, EdgeThenEdge
  <2> QED BY <1>2, <2>1, <2>2 DEF Pending
<1>10. f.prefix \o e.segment = p[e.child]
  BY <1>4, <1>5 DEF Spells
<1> QED BY <1>5, <1>7, <1>8, <1>9, <1>10 DEF Precedes, e, M, g

-----------------------------------------------------------------------------
(* The stack *)

\* The leaves in N have been visited.  Those in P come next, then those the frames of s
\* lead to, the top one's first.
Stacked(t, p, way, s, N, P) ==
  /\ s \in Seq(FrameRow(t)) /\ N \subseteq t.leaves /\ P \subseteq t.leaves
  /\ \A i \in 1 .. Len(s) : \E c : Framed(t, p, way, s[i], c)
  /\ \A l \in t.leaves : l \in N \cup P \/ \E i \in 1 .. Len(s) : l \in Pending(t, s[i])
  /\ \A i, j \in 1 .. Len(s) :
       i < j => \A l \in Pending(t, s[j]) : Precedes(p, way, l, Pending(t, s[i]))
  /\ \A l \in N \cup P, i \in 1 .. Len(s) : Precedes(p, way, l, Pending(t, s[i]))
  /\ \A l \in N : Precedes(p, way, l, P)

\* The front of a list.
LEMMA Fronts ==
  ASSUME NEW F, NEW s \in Seq(F), s # <<>>
  PROVE  /\ Front(s) \in Seq(F) /\ Len(s) \in Nat /\ Len(s) \in 1 .. Len(s) /\ Last(s) = s[Len(s)]
         /\ Len(Front(s)) = Len(s) - 1 /\ Len(s) - 1 \in Nat
         /\ \A i \in 1 .. Len(s) - 1 : Front(s)[i] = s[i] /\ i \in 1 .. Len(s) /\ i < Len(s)
         /\ \A i \in 1 .. Len(s) : i \in 1 .. Len(s) - 1 \/ i = Len(s)
<1> DEFINE n == Len(s)
           b == Front(s)
<1>1. n \in Nat /\ n # 0 /\ \A i \in 1 .. n : s[i] \in F
  BY EmptySeq
<1>2. b = [i \in 1 .. n - 1 |-> s[i]]
  <2>1. b = SubSeq(s, 1, n - 1)
    BY DEF Front
  <2> HIDE DEF b
  <2> QED BY <1>1, <2>1
<1>3. \A i \in 1 .. n - 1 : i \in 1 .. n /\ i < n
  BY <1>1
<1>4. n - 1 \in Nat
  BY <1>1
<1>5. b \in Seq(F) /\ Len(b) = n - 1 /\ \A i \in 1 .. n - 1 : b[i] = s[i]
  <2> HIDE DEF b, n
  <2> QED BY <1>1, <1>2, <1>3, <1>4
<1>6. Last(s) = s[n]
  BY DEF Last
<1> HIDE DEF b
<1>7. n \in 1 .. n /\ \A i \in 1 .. n : i \in 1 .. n - 1 \/ i = n
  <2> HIDE DEF n
  <2> QED BY <1>1
<1> QED BY <1>1, <1>3, <1>4, <1>5, <1>6, <1>7 DEF b

\* Taken off the stack, what a frame leads to comes next.
LEMMA Popped ==
  ASSUME NEW t, NEW p, NEW way, NEW s, NEW N, Stacked(t, p, way, s, N, {}), s # <<>>
  PROVE  /\ Stacked(t, p, way, Front(s), N, Pending(t, Last(s)))
         /\ \E c : Framed(t, p, way, Last(s), c)
<1> DEFINE n == Len(s)
           b == Front(s)
           f == Last(s)
           P == Pending(t, f)
<1>1. /\ s \in Seq(FrameRow(t)) /\ N \subseteq t.leaves
      /\ \A i \in 1 .. n : \E c : Framed(t, p, way, s[i], c)
      /\ \A l \in t.leaves : l \in N \/ \E i \in 1 .. n : l \in Pending(t, s[i])
      /\ \A i, j \in 1 .. n :
           i < j => \A l \in Pending(t, s[j]) : Precedes(p, way, l, Pending(t, s[i]))
      /\ \A l \in N, i \in 1 .. n : Precedes(p, way, l, Pending(t, s[i]))
  BY DEF Stacked
<1>2. /\ b \in Seq(FrameRow(t)) /\ n \in 1 .. n /\ f = s[n] /\ Len(b) = n - 1
      /\ \A i \in 1 .. n - 1 : b[i] = s[i] /\ i \in 1 .. n /\ i < n
      /\ \A i \in 1 .. n : i \in 1 .. n - 1 \/ i = n
  BY <1>1, Fronts
<1>3. P \subseteq t.leaves
  BY DEF Pending
<1> HIDE DEF n, b, f
<1>4. P = Pending(t, s[n])
  BY <1>2
<1> HIDE DEF P
<1>5. \A l \in t.leaves : l \in N \cup P \/ \E i \in 1 .. Len(b) : l \in Pending(t, b[i])
  <2> SUFFICES ASSUME NEW l \in t.leaves, l \notin N, l \notin P
               PROVE  \E i \in 1 .. n - 1 : l \in Pending(t, b[i])
    BY <1>2
  <2>1. PICK i \in 1 .. n : l \in Pending(t, s[i])
    BY <1>1
  <2>2. i \in 1 .. n - 1
    BY <1>2, <1>4, <2>1
  <2> QED BY <1>2, <2>1, <2>2
<1>6. \A i, j \in 1 .. Len(b) :
        i < j => \A l \in Pending(t, b[j]) : Precedes(p, way, l, Pending(t, b[i]))
  BY <1>1, <1>2
<1>7. \A l \in N \cup P, i \in 1 .. Len(b) : Precedes(p, way, l, Pending(t, b[i]))
  BY <1>1, <1>2, <1>4
<1>8. \A l \in N : Precedes(p, way, l, P)
  BY <1>1, <1>2, <1>4
<1>9. \A i \in 1 .. Len(b) : \E c : Framed(t, p, way, b[i], c)
  BY <1>1, <1>2
<1>10. Stacked(t, p, way, b, N, P)
  BY <1>1, <1>2, <1>3, <1>5, <1>6, <1>7, <1>8, <1>9 DEF Stacked
<1>11. \E c : Framed(t, p, way, f, c)
  BY <1>1, <1>2
<1> QED BY <1>10, <1>11 DEF b, f, P

\* Put on the stack, a frame leads to what comes after Q.
LEMMA Pushed ==
  ASSUME NEW t, NEW p, NEW way, NEW s, NEW N, NEW P, Stacked(t, p, way, s, N, P),
         NEW f, NEW c, Framed(t, p, way, f, c), NEW Q, P = Pending(t, f) \cup Q,
         \A l \in Q : Precedes(p, way, l, Pending(t, f))
  PROVE  Stacked(t, p, way, Append(s, f), N, Q)
<1> DEFINE n == Len(s)
           b == Append(s, f)
           G == Pending(t, f)
<1>1. /\ s \in Seq(FrameRow(t)) /\ N \subseteq t.leaves /\ P \subseteq t.leaves
      /\ \A i \in 1 .. n : \E d : Framed(t, p, way, s[i], d)
      /\ \A l \in t.leaves : l \in N \cup P \/ \E i \in 1 .. n : l \in Pending(t, s[i])
      /\ \A i, j \in 1 .. n :
           i < j => \A l \in Pending(t, s[j]) : Precedes(p, way, l, Pending(t, s[i]))
      /\ \A l \in N \cup P, i \in 1 .. n : Precedes(p, way, l, Pending(t, s[i]))
      /\ \A l \in N : Precedes(p, way, l, P)
  BY DEF Stacked
<1>2. f \in FrameRow(t)
  BY DEF Framed
<1>3. n \in Nat
  <2> DEFINE F == FrameRow(t)
  <2>1. s \in Seq(F)
    BY <1>1
  <2> HIDE DEF F
  <2> QED BY <2>1
<1>4. /\ b \in Seq(FrameRow(t)) /\ Len(b) = n + 1 /\ b[n + 1] = f
      /\ \A i \in 1 .. n : b[i] = s[i]
  <2> DEFINE F == FrameRow(t)
  <2>1. s \in Seq(F) /\ f \in F
    BY <1>1, <1>2
  <2> HIDE DEF F
  <2>2. b \in Seq(F) /\ Len(b) = n + 1 /\ b[n + 1] = f /\ \A i \in 1 .. n : b[i] = s[i]
    BY <2>1, AppendProperties
  <2> QED BY <2>2 DEF F
<1> HIDE DEF b, n, G
<1>5. n + 1 \in 1 .. n + 1 /\ \A i \in 1 .. n + 1 : i \in 1 .. n \/ i = n + 1
  BY <1>3
<1>6. \A i \in 1 .. n : i \in 1 .. n + 1 /\ i < n + 1
  BY <1>3
<1>7. P = G \cup Q /\ Pending(t, b[n + 1]) = G
  BY <1>4 DEF G
<1>8. \A l \in t.leaves : l \in N \cup Q \/ \E i \in 1 .. n + 1 : l \in Pending(t, b[i])
  <2> SUFFICES ASSUME NEW l \in t.leaves, l \notin N, l \notin Q
               PROVE  \E i \in 1 .. n + 1 : l \in Pending(t, b[i])
    OBVIOUS
  <2>1. CASE l \in G
    BY <1>5, <1>7, <2>1
  <2>2. CASE l \notin G
    <3>1. PICK i \in 1 .. n : l \in Pending(t, s[i])
      BY <1>1, <1>7, <2>2
    <3> QED BY <1>4, <1>6, <3>1
  <2> QED BY <2>1, <2>2
<1>9. ASSUME NEW i \in 1 .. n + 1, NEW j \in 1 .. n + 1, i < j,
             NEW l \in Pending(t, b[j])
      PROVE  Precedes(p, way, l, Pending(t, b[i]))
  <2>1. i \in 1 .. n
    BY <1>3, <1>9
  <2>2. CASE j \in 1 .. n
    BY <1>1, <1>4, <1>9, <2>1, <2>2
  <2>3. CASE j = n + 1
    BY <1>1, <1>4, <1>7, <2>1, <2>3
  <2> QED BY <1>5, <2>2, <2>3
<1>10. ASSUME NEW l \in N \cup Q, NEW i \in 1 .. n + 1
      PROVE  Precedes(p, way, l, Pending(t, b[i]))
  <2>1. CASE i \in 1 .. n
    BY <1>1, <1>4, <1>7, <2>1
  <2>2. CASE i = n + 1
    <3>1. CASE l \in N
      BY <1>1, <1>7, <2>2, <3>1 DEF Precedes
    <3>2. CASE l \notin N
      BY <1>7, <2>2, <3>2 DEF G
    <3> QED BY <3>1, <3>2
  <2> QED BY <1>5, <2>1, <2>2
<1>11. \A l \in N : Precedes(p, way, l, Q)
  BY <1>1, <1>7 DEF Precedes
<1>12. \A i \in 1 .. n + 1 : \E d : Framed(t, p, way, b[i], d)
  BY <1>1, <1>4, <1>5
<1>13. Q \subseteq t.leaves
  BY <1>1, <1>7
<1>14. Stacked(t, p, way, b, N, Q)
  BY <1>1, <1>4, <1>8, <1>9, <1>10, <1>11, <1>12, <1>13 DEF Stacked
<1> QED BY <1>14 DEF b

\* What comes next is visited.
LEMMA Visited ==
  ASSUME NEW t, NEW p, NEW way, NEW s, NEW N, NEW P, Stacked(t, p, way, s, N, P)
  PROVE  Stacked(t, p, way, s, N \cup P, {})
BY DEF Stacked, Precedes

-----------------------------------------------------------------------------
(* The walk *)

\* The entries of the leaves in N that the cursor returns.
Shown(N) ==
  LET p == PrefixOf(trie)
  IN {At(p, l) : l \in {m \in N : Returns(At(p, m))}}

\* Some leaves have been visited, and what they show is out in order; the frames lead to
\* the others, nearest the cursor first, and all of those come after.
Walked(N) ==
  /\ Stacked(trie, PrefixOf(trie), direction, stack, N, {})
  /\ Lists(out, Shown(N), Pairs(Spot, direction))

IInv ==
  /\ trie \in Tries /\ start \in Start
  /\ \E N : Walked(N)

\* A cursor of a well formed trie.
LEMMA Snapshot ==
  ASSUME trie \in Tries
  PROVE  WellFormed(trie) /\ Spells(trie, PrefixOf(trie))
BY TrieAssumption, PrefixSpells

\* The scan starts at the root with all leaves before it.
LEMMA InitWalks == Init => IInv
<1> SUFFICES ASSUME Init
             PROVE  IInv
  OBVIOUS
<1> DEFINE p == PrefixOf(trie)
           f == Frame(Root, <<>>)
<1>1. trie \in Tries /\ start \in Start /\ stack = <<f>> /\ out = <<>>
  BY DEF Init
<1>2. WellFormed(trie) /\ Spells(trie, p) /\ Root \in 0 .. trie.counter /\ p[Root] = <<>>
  BY <1>1, Snapshot, Numbers DEF Spells
<1> HIDE DEF p
<1>3. /\ Framed(trie, p, direction, Frame(Root, p[Root]), Root)
      /\ Pending(trie, Frame(Root, p[Root])) = LeavesUnder(trie, Root)
  BY <1>2, FrameIsNew
<1>4. Framed(trie, p, direction, f, Root) /\ Pending(trie, f) = trie.leaves
  BY <1>2, <1>3, RootHasAll
<1> HIDE DEF f
<1>5. Stacked(trie, p, direction, <<>>, {}, trie.leaves)
  <2>1. <<>> \in Seq(FrameRow(trie)) /\ Len(<<>>) = 0
    <3> DEFINE F == FrameRow(trie)
    <3> HIDE DEF F
    <3>1. <<>> \in Seq(F) /\ Len(<<>>) = 0
      OBVIOUS
    <3> QED BY <3>1 DEF F
  <2>2. \A i \in 1 .. 0 : FALSE
    OBVIOUS
  <2> QED BY <2>1, <2>2 DEF Stacked
<1>6. Stacked(trie, p, direction, Append(<<>>, f), {}, {})
  <2>1. trie.leaves = Pending(trie, f) \cup {}
    BY <1>4
  <2> QED BY <1>4, <1>5, <2>1, Pushed
<1>7. Append(<<>>, f) = <<f>>
  OBVIOUS
<1>8. Lists(out, Shown({}), Pairs(Spot, direction))
  <2>1. Shown({}) = {}
    BY DEF Shown
  <2> QED BY <1>1, <2>1 DEF Lists
<1>9. Walked({})
  BY <1>1, <1>6, <1>7, <1>8 DEF Walked, p
<1> QED BY <1>1, <1>9 DEF IInv

\* What is shown does not change while the cursor stays.
LEMMA SameCursor ==
  ASSUME NEW N, UNCHANGED cursor
  PROVE  /\ Shown(N)' = Shown(N) /\ trie' = trie /\ direction' = direction /\ start' = start
         /\ PrefixOf(trie)' = PrefixOf(trie)
<1>1. trie' = trie /\ visible' = visible /\ direction' = direction /\ start' = start
  BY DEF cursor
<1>2. PrefixOf(trie)' = PrefixOf(trie)
  BY <1>1
<1>3. \A q : Returns(q)' = Returns(q)
  BY <1>1 DEF Returns
<1>4. Shown(N)' = Shown(N)
  BY <1>2, <1>3 DEF Shown
<1> QED BY <1>1, <1>2, <1>4

\* What makes a step of the walk: the leaves visited and the stack and output after it.
LEMMA WalksOn ==
  ASSUME IInv, UNCHANGED cursor, NEW N,
         Stacked(trie, PrefixOf(trie), direction, stack', N, {}),
         Lists(out', Shown(N), Pairs(Spot, direction))
  PROVE  IInv'
<1>1. /\ Shown(N)' = Shown(N) /\ trie' = trie /\ direction' = direction /\ start' = start
      /\ PrefixOf(trie)' = PrefixOf(trie)
  BY SameCursor
<1>2. Walked(N)'
  BY <1>1 DEF Walked
<1> QED BY <1>1, <1>2 DEF IInv

\* A leaf is visited.
LEMMA VisitLeafWalks ==
  ASSUME IInv, VisitLeaf
  PROVE  IInv'
<1> DEFINE p == PrefixOf(trie)
           b == Below
           f == Top
           g == LeafGone(f)
           l == Head(f.leaves)
           R == Pairs(Spot, direction)
           q == <<f.prefix \o l.segment, l.doc>>
<1>1. PICK N : Walked(N)
  BY DEF IInv
<1>2. WellFormed(trie) /\ Spells(trie, p)
  BY Snapshot DEF IInv
<1>3. /\ stack # <<>> /\ TakesLeaf(f) /\ stack' = Append(b, g) /\ UNCHANGED cursor
      /\ out' = IF Returns(q) THEN Append(out, q) ELSE out
  BY DEF VisitLeaf, LeafGone
<1>4. /\ Stacked(trie, p, direction, b, N, Pending(trie, f))
      /\ \E c : Framed(trie, p, direction, f, c)
  BY <1>1, <1>3, Popped DEF Walked, Below, Top
<1> HIDE DEF p, b, f, g
<1>5. PICK c : Framed(trie, p, direction, f, c)
  BY <1>4
<1>6. /\ Framed(trie, p, direction, g, c) /\ l \in trie.leaves
      /\ f.prefix \o l.segment = Word(p, l)
      /\ Pending(trie, f) = Pending(trie, g) \cup {l}
      /\ Precedes(p, direction, l, Pending(trie, g))
  BY <1>2, <1>3, <1>5, LeafTaken DEF g
<1>7. q = At(p, l)
  BY <1>6 DEF At
<1> HIDE DEF q, l, R
<1>8. Stacked(trie, p, direction, stack', N, {l})
  <2>1. \A m \in {l} : Precedes(p, direction, m, Pending(trie, g))
    BY <1>6
  <2>2. Stacked(trie, p, direction, Append(b, g), N, {l})
    BY <1>4, <1>6, <2>1, Pushed
  <2> QED BY <1>3, <2>2
<1>9. Stacked(trie, p, direction, stack', N \cup {l}, {})
  BY <1>8, Visited
<1>10. Lists(out', Shown(N \cup {l}), R)
  <2>1. Lists(out, Shown(N), R)
    BY <1>1 DEF Walked, R
  <2>2. CASE ~Returns(q)
    <3>1. Shown(N \cup {l}) = Shown(N)
      BY <1>7, <2>2 DEF Shown, p
    <3> QED BY <1>3, <2>1, <2>2, <3>1
  <2>3. CASE Returns(q)
    <3>1. Shown(N \cup {l}) = Shown(N) \cup {q}
      BY <1>7, <2>3 DEF Shown, p
    <3>2. ASSUME NEW y \in Shown(N)
          PROVE  <<y, q>> \in R
      <4>1. PICK m \in N : y = At(p, m)
        BY DEF Shown, p
      <4>2. m \in trie.leaves /\ Precedes(p, direction, m, Pending(trie, f))
        BY <1>4 DEF Stacked
      <4>3. Before(direction, y, q)
        BY <1>6, <1>7, <4>1, <4>2 DEF Precedes
      <4>4. y \in Spot /\ q \in Spot
        BY <1>2, <1>6, <1>7, <4>1, <4>2, AtType DEF Spot
      <4> QED BY <4>3, <4>4 DEF R, Pairs
    <3>3. Lists(Append(out, q), Shown(N) \cup {q}, R)
      BY <2>1, <3>2, ListsMore
    <3> QED BY <1>3, <2>3, <3>1, <3>3
  <2> QED BY <2>2, <2>3
<1> QED BY <1>3, <1>9, <1>10, WalksOn DEF p, R

\* An edge is descended.
LEMMA DescendWalks ==
  ASSUME IInv, Descend
  PROVE  IInv'
<1> DEFINE p == PrefixOf(trie)
           b == Below
           f == Top
           g == EdgeGone(f)
           e == Head(f.edges)
           h == Frame(e.child, p[e.child])
<1>1. PICK N : Walked(N)
  BY DEF IInv
<1>2. WellFormed(trie) /\ Spells(trie, p)
  BY Snapshot DEF IInv
<1>3. /\ stack # <<>> /\ TakesEdge(f) /\ UNCHANGED cursor /\ out' = out
      /\ stack' = b \o <<g, Frame(e.child, f.prefix \o e.segment)>>
  BY DEF Descend, EdgeGone
<1>4. /\ Stacked(trie, p, direction, b, N, Pending(trie, f))
      /\ \E c : Framed(trie, p, direction, f, c)
  BY <1>1, <1>3, Popped DEF Walked, Below, Top
<1> HIDE DEF p, b, f, g
<1>5. PICK c : Framed(trie, p, direction, f, c)
  BY <1>4
<1>6. /\ Framed(trie, p, direction, g, c) /\ e \in trie.edges
      /\ f.prefix \o e.segment = p[e.child]
      /\ Pending(trie, f) = Pending(trie, g) \cup LeavesUnder(trie, e.child)
      /\ \A l \in LeavesUnder(trie, e.child) : Precedes(p, direction, l, Pending(trie, g))
  BY <1>2, <1>3, <1>5, EdgeTaken DEF g
<1> HIDE DEF e
<1>7. e.child \in 0 .. trie.counter
  BY <1>2, <1>6, Numbers
<1>8. Framed(trie, p, direction, h, e.child) /\ Pending(trie, h) = LeavesUnder(trie, e.child)
  BY <1>2, <1>7, FrameIsNew
<1>9. stack' = b \o <<g, h>>
  BY <1>3, <1>6
<1> HIDE DEF h
<1>10. Stacked(trie, p, direction, Append(b, g), N, Pending(trie, h))
  BY <1>4, <1>6, <1>8, Pushed
<1>11. Stacked(trie, p, direction, Append(Append(b, g), h), N, {})
  <2>1. Pending(trie, h) = Pending(trie, h) \cup {}
    OBVIOUS
  <2> QED BY <1>8, <1>10, <2>1, Pushed
<1>12. Append(Append(b, g), h) = b \o <<g, h>>
  <2> DEFINE F == FrameRow(trie)
  <2>1. b \in Seq(F) /\ g \in F /\ h \in F
    BY <1>4, <1>6, <1>8 DEF Stacked, Framed
  <2> HIDE DEF F
  <2> QED BY <2>1
<1>13. Stacked(trie, p, direction, stack', N, {})
  BY <1>9, <1>11, <1>12
<1>14. Lists(out', Shown(N), Pairs(Spot, direction))
  BY <1>1, <1>3 DEF Walked
<1> QED BY <1>3, <1>13, <1>14, WalksOn DEF p

\* A node is done.
LEMMA AscendWalks ==
  ASSUME IInv, Ascend
  PROVE  IInv'
<1> DEFINE p == PrefixOf(trie)
<1>1. PICK N : Walked(N)
  BY DEF IInv
<1>2. /\ stack # <<>> /\ Top.leaves = <<>> /\ Top.edges = <<>> /\ stack' = Below
      /\ UNCHANGED cursor /\ out' = out
  BY DEF Ascend
<1>3. Stacked(trie, p, direction, Below, N, Pending(trie, Top))
  BY <1>1, <1>2, Popped DEF Walked, Below, Top
<1>4. Pending(trie, Top) = {}
  <2>1. Len(Top.leaves) = 0 /\ Len(Top.edges) = 0
    BY <1>2
  <2>2. \A i \in 1 .. 0 : FALSE
    OBVIOUS
  <2> QED BY <2>1, <2>2 DEF Pending
<1>5. Stacked(trie, p, direction, stack', N, {})
  BY <1>2, <1>3, <1>4
<1>6. Lists(out', Shown(N), Pairs(Spot, direction))
  BY <1>1, <1>2 DEF Walked
<1> QED BY <1>2, <1>5, <1>6, WalksOn

LEMMA StepsWalk == IInv /\ [Next]_vars => IInv'
<1> SUFFICES ASSUME IInv, [Next]_vars
             PROVE  IInv'
  OBVIOUS
<1>1. CASE VisitLeaf
  BY <1>1, VisitLeafWalks
<1>2. CASE Descend
  BY <1>2, DescendWalks
<1>3. CASE Ascend
  BY <1>3, AscendWalks
<1>4. CASE UNCHANGED vars
  <2>1. PICK N : Walked(N)
    BY DEF IInv
  <2>2. UNCHANGED cursor /\ stack' = stack /\ out' = out
    BY <1>4 DEF vars, cursor
  <2> QED BY <2>1, <2>2, WalksOn DEF Walked
<1> QED BY <1>1, <1>2, <1>3, <1>4 DEF Next

-----------------------------------------------------------------------------
(* What the cursor returns *)

\* accepts_start lets through what CursorStart promises.
LEMMA StartIsExact ==
  ASSUME NEW way, NEW from \in Start, NEW q \in Spot
  PROVE  Accepts(way, from, q) <=> FromStart(way, from, q)
<1>1. CASE from.kind = "Unbounded"
  BY <1>1 DEF Accepts, FromStart
<1>2. CASE from.kind # "Unbounded"
  <2>1. from \in [kind : {"Included", "Excluded"}, at : Position]
    BY <1>2 DEF Start, StartAt
  <2>2. from.at \in Spot
    BY <2>1, PositionAssumption DEF Position, Spot
  <2>3. /\ ~Before(way, q, q)
        /\ Before(way, from.at, q) => ~Before(way, q, from.at)
        /\ q # from.at => Before(way, from.at, q) \/ Before(way, q, from.at)
    BY <2>2, BeforeIsOrder DEF Spot
  <2> QED BY <1>2, <2>1, <2>3 DEF Accepts, FromStart
<1> QED BY <1>1, <1>2

\* Expected lists what all the leaves show.
LEMMA ExpectedLists ==
  ASSUME IInv
  PROVE  /\ Lists(Expected, Shown(trie.leaves), Pairs(Spot, direction))
         /\ Shown(trie.leaves) \subseteq Spot
<1> DEFINE p == PrefixOf(trie)
           S == Shown(trie.leaves)
           shown == {q \in EntriesOf(trie) : q[2] \in visible /\ FromStart(direction, start, q)}
           L == Directed(direction, shown, PositionLess)
<1>1. WellFormed(trie) /\ Spells(trie, p) /\ start \in Start
  BY Snapshot DEF IInv
<1>2. \A l \in trie.leaves : At(p, l) \in Spot
  BY <1>1, AtType DEF Spot
<1>3. EntriesOf(trie) = {At(p, l) : l \in trie.leaves}
  <2>1. {k \in trie.leaves : Attached(trie, k.chain)} = trie.leaves
    BY <1>1 DEF WellFormed
  <2>2. EntriesOf(trie) = {<<p[l.chain] \o l.segment, l.doc>> :
                             l \in {k \in trie.leaves : Attached(trie, k.chain)}}
    BY DEF EntriesOf
  <2> HIDE DEF p
  <2> QED BY <2>1, <2>2 DEF At, Word
<1> HIDE DEF p
<1>4. \A l \in trie.leaves : Returns(At(p, l)) <=>
        At(p, l)[2] \in visible /\ FromStart(direction, start, At(p, l))
  BY <1>1, <1>2, StartIsExact DEF Returns
<1>5. S = {At(p, l) : l \in {m \in trie.leaves : Returns(At(p, m))}}
  BY DEF Shown, p
<1>6. S = shown /\ S \subseteq Spot
  <2>1. \A q : q \in S <=> q \in shown
    BY <1>3, <1>4, <1>5
  <2> QED BY <1>2, <1>5, <2>1
<1>7. IsFiniteSet(S)
  <2> DEFINE T == {m \in trie.leaves : Returns(At(p, m))}
             f == [l \in T |-> At(p, l)]
  <2>1. IsFiniteSet(T)
    <3>1. T \in SUBSET trie.leaves /\ IsFiniteSet(trie.leaves)
      BY <1>1 DEF WellFormed
    <3> HIDE DEF T
    <3> QED BY <3>1, FS_Subset
  <2>2. f \in [T -> S] /\ \A q \in S : \E l \in T : f[l] = q
    BY <1>5
  <2> HIDE DEF f, T, S
  <2>3. f \in Surjection(T, S)
    BY <2>2 DEF Surjection
  <2> QED BY <2>1, <2>3, FS_Surjection
<1>8. Expected = L
  BY DEF Expected
<1> HIDE DEF shown, L, S
<1>9. Lists(L, S, Pairs(S, direction))
  <2>1. S \in SUBSET (Seq(Nat) \X Nat)
    BY <1>6 DEF Spot
  <2>2. Lists(Directed(direction, S, PositionLess), S, Pairs(S, direction))
    BY <1>7, <2>1, DirectedLists
  <2> QED BY <1>6, <2>2 DEF L
<1>10. Pairs(S, direction) \subseteq Pairs(Spot, direction)
  BY <1>6 DEF Pairs
<1>11. Lists(L, S, Pairs(Spot, direction))
  <2> DEFINE R == Pairs(S, direction)
             Q == Pairs(Spot, direction)
  <2>1. Lists(L, S, R) /\ R \subseteq Q
    BY <1>9, <1>10
  <2> HIDE DEF R, Q
  <2>2. Lists(L, S, Q)
    BY <2>1 DEF Lists
  <2> QED BY <2>2 DEF Q
<1> QED BY <1>6, <1>8, <1>11 DEF S

\* In every state of the walk: what is out begins what is expected, and when the stack is
\* empty nothing is missing.
LEMMA WalkPromises ==
  ASSUME IInv
  PROVE  IsPrefix(out, Expected) /\ (stack = <<>> => out = Expected)
<1> DEFINE p == PrefixOf(trie)
           R == Pairs(Spot, direction)
           S == Shown(trie.leaves)
<1>1. PICK N : Walked(N)
  BY DEF IInv
<1> DEFINE D == Shown(N)
<1>2. WellFormed(trie) /\ Spells(trie, p)
  BY Snapshot DEF IInv
<1>3. Stacked(trie, p, direction, stack, N, {}) /\ Lists(out, D, R)
  BY <1>1 DEF Walked
<1>4. Lists(Expected, S, R) /\ S \subseteq Spot
  BY ExpectedLists
<1> HIDE DEF p
<1>5. D \subseteq S /\ (N = trie.leaves => D = S)
  BY <1>3 DEF Stacked, Shown
<1>6. Orders(R, S)
  <2>1. \A x, y \in S : <<x, y>> \in R <=> Before(direction, x, y)
    BY <1>4 DEF Pairs
  <2> HIDE DEF R, S
  <2> QED BY <1>4, <2>1, BeforeIsOrder DEF Orders, Spot
<1>7. ASSUME NEW x \in D, NEW y \in S \ D
      PROVE  <<x, y>> \in R
  <2>1. PICK l \in N : x = At(p, l)
    BY DEF Shown, p
  <2>2. PICK m \in trie.leaves : y = At(p, m) /\ Returns(At(p, m))
    BY DEF Shown, p
  <2>3. m \notin N
    BY <2>2, <1>7 DEF Shown, p
  <2>4. PICK i \in 1 .. Len(stack) : m \in Pending(trie, stack[i])
    BY <1>3, <2>2, <2>3 DEF Stacked
  <2>5. Precedes(p, direction, l, Pending(trie, stack[i]))
    BY <1>3, <2>1, <2>4 DEF Stacked
  <2>6. Before(direction, x, y)
    BY <2>1, <2>2, <2>4, <2>5 DEF Precedes
  <2> QED BY <1>4, <1>5, <2>6 DEF Pairs
<1>8. ASSUME stack = <<>>
      PROVE  D = S
  <2>1. Len(stack) = 0 /\ \A i \in 1 .. 0 : FALSE
    BY <1>8
  <2>2. N = trie.leaves
    BY <1>3, <2>1 DEF Stacked
  <2> QED BY <1>5, <2>2
<1> HIDE DEF D, S, R
<1>9. IsPrefix(out, Expected) /\ (D = S => out = Expected)
  BY <1>3, <1>4, <1>5, <1>6, <1>7, ListsBegin
<1> QED BY <1>8, <1>9

\* get_index_cursor: in every state, for every well formed index, segment size, start
\* bound and direction, the cursor has returned the first of the visible entries from the
\* start on, in index order, none skipped and none twice.
THEOREM ScansInOrder == Spec => []InOrder
<1>1. Init => IInv
  BY InitWalks
<1>2. IInv /\ [Next]_vars => IInv'
  BY StepsWalk
<1>3. IInv => InOrder
  BY WalkPromises DEF InOrder
<1> QED BY <1>1, <1>2, <1>3, PTL DEF Spec

\* next: a cursor that has no frame left has returned every visible entry from its start
\* on, so the end it reports is the end of the index.
THEOREM EndsWithAll == Spec => [](stack = <<>> => out = Expected)
<1>1. Init => IInv
  BY InitWalks
<1>2. IInv /\ [Next]_vars => IInv'
  BY StepsWalk
<1>3. IInv => (stack = <<>> => out = Expected)
  BY WalkPromises
<1> QED BY <1>1, <1>2, <1>3, PTL DEF Spec
=============================================================================
