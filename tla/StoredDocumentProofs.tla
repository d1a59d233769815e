-------------------------- MODULE StoredDocumentProofs --------------------------
(***************************************************************************)
(* The invariants of StoredDocument, for every set of types.  What a type  *)
(* writes and reads is known from its parts (TypeInduction), so a property *)
(* of all types is proved one shape at a time.                             *)
(***************************************************************************)
EXTENDS StoredDocument, OrderProofs

-----------------------------------------------------------------------------
(* Values by how deep they nest *)

\* Arrays and Documents of the values of s.
Grown(s) ==
  [kind : {"Array"}, array : Seq(s)] \cup [kind : {"Document"}, entries : Seq(STRING \X s)]

Level(g, n) == Atom \cup (IF n = 0 THEN {} ELSE Grown(g[n - 1]))

LEMMA ValuesAreLevels ==
  /\ DOMAIN Values = 0 .. Nesting
  /\ Values[0] = Atom
  /\ \A n \in 1 .. Nesting : Values[n] = Atom \cup Grown(Values[n - 1])
<1> DEFINE Good(g, m) == \A n \in 0 .. m : g[n] = Level(g, n)
           Reached == {m \in 0 .. Nesting : \E g : Good(g, m)}
<1>1. Nesting \in Nat
  BY TypeAssumption
<1>2. 0 \in Reached
  <2> DEFINE g == [n \in {0} |-> Atom]
  <2>1. Good(g, 0)
    BY DEF Level
  <2> HIDE DEF Good, g
  <2> QED BY <1>1, <2>1
<1>3. ASSUME NEW m \in 1 .. Nesting, m - 1 \in Reached
      PROVE  m \in Reached
  <2>1. PICK g : Good(g, m - 1)
    BY <1>3
  <2> DEFINE h == [n \in 0 .. m |-> Level(g, n)]
  <2>2. ASSUME NEW n \in 0 .. m
        PROVE  h[n] = Level(h, n)
    <3>1. n # 0 => n - 1 \in 0 .. m /\ n - 1 \in 0 .. m - 1
      BY <1>1
    <3>2. n # 0 => h[n - 1] = g[n - 1]
      BY <2>1, <3>1
    <3> QED BY <3>2 DEF Level
  <2>3. Good(h, m)
    BY <2>2
  <2> HIDE DEF Good, h
  <2> QED BY <2>3
<1>4. Nesting \in Reached
  <2> HIDE DEF Reached
  <2> QED BY <1>1, <1>2, <1>3, UpTo
<1>5. PICK g : Good(g, Nesting)
  BY <1>4
<1> DEFINE f == [n \in 0 .. Nesting |-> Level(g, n)]
<1>6. f = [n \in 0 .. Nesting |-> Level(f, n)]
  <2>1. ASSUME NEW n \in 0 .. Nesting
        PROVE  Level(g, n) = Level(f, n)
    <3>1. n # 0 => n - 1 \in 0 .. Nesting
      BY <1>1
    <3>2. n # 0 => f[n - 1] = g[n - 1]
      BY <1>5, <3>1
    <3> QED BY <3>2 DEF Level
  <2> QED BY <2>1
<1> HIDE DEF f
<1>7. f = [n \in 0 .. Nesting |->
             Atom \cup
               (IF n = 0 THEN {}
                ELSE [kind : {"Array"}, array : Seq(f[n - 1])]
                       \cup [kind : {"Document"}, entries : Seq(STRING \X f[n - 1])])]
  BY <1>6 DEF Level, Grown
<1>8. Values = [n \in 0 .. Nesting |-> Level(Values, n)]
  <2>1. Values = [n \in 0 .. Nesting |->
             Atom \cup
               (IF n = 0 THEN {}
                ELSE [kind : {"Array"}, array : Seq(Values[n - 1])]
                       \cup [kind : {"Document"}, entries : Seq(STRING \X Values[n - 1])])]
    BY <1>7 DEF Values
  <2> QED BY <2>1 DEF Level, Grown
<1>9. \A n \in 0 .. Nesting : Values[n] = Level(Values, n)
  BY <1>8
<1>10. 0 \in 0 .. Nesting /\ \A n \in 1 .. Nesting : n \in 0 .. Nesting /\ n # 0
  BY <1>1
<1> QED BY <1>8, <1>9, <1>10 DEF Level

\* No key comes twice.
KeysOnce(entries) == \A i, j \in DOMAIN entries : entries[i][1] = entries[j][1] => i = j

GrownOnce(s) ==
  [kind : {"Array"}, array : Seq(s)]
    \cup {doc \in [kind : {"Document"}, entries : Seq(STRING \X s)] :
            \A i, j \in DOMAIN doc.entries : doc.entries[i][1] = doc.entries[j][1] => i = j}

LevelOnce(g, n) == Atom \cup (IF n = 0 THEN {} ELSE GrownOnce(g[n - 1]))

LEMMA UnambiguousAreLevels ==
  /\ DOMAIN Unambiguous = 0 .. Nesting
  /\ Unambiguous[0] = Atom
  /\ \A n \in 1 .. Nesting : Unambiguous[n] = Atom \cup GrownOnce(Unambiguous[n - 1])
<1> DEFINE Good(g, m) == \A n \in 0 .. m : g[n] = LevelOnce(g, n)
           Reached == {m \in 0 .. Nesting : \E g : Good(g, m)}
<1>1. Nesting \in Nat
  BY TypeAssumption
<1>2. 0 \in Reached
  <2> DEFINE g == [n \in {0} |-> Atom]
  <2>1. Good(g, 0)
    BY DEF LevelOnce
  <2> HIDE DEF Good, g
  <2> QED BY <1>1, <2>1
<1>3. ASSUME NEW m \in 1 .. Nesting, m - 1 \in Reached
      PROVE  m \in Reached
  <2>1. PICK g : Good(g, m - 1)
    BY <1>3
  <2> DEFINE h == [n \in 0 .. m |-> LevelOnce(g, n)]
  <2>2. ASSUME NEW n \in 0 .. m
        PROVE  h[n] = LevelOnce(h, n)
    <3>1. n # 0 => n - 1 \in 0 .. m /\ n - 1 \in 0 .. m - 1
      BY <1>1
    <3>2. n # 0 => h[n - 1] = g[n - 1]
      BY <2>1, <3>1
    <3> QED BY <3>2 DEF LevelOnce
  <2>3. Good(h, m)
    BY <2>2
  <2> HIDE DEF Good, h
  <2> QED BY <2>3
<1>4. Nesting \in Reached
  <2> HIDE DEF Reached
  <2> QED BY <1>1, <1>2, <1>3, UpTo
<1>5. PICK g : Good(g, Nesting)
  BY <1>4
<1> DEFINE f == [n \in 0 .. Nesting |-> LevelOnce(g, n)]
<1>6. f = [n \in 0 .. Nesting |-> LevelOnce(f, n)]
  <2>1. ASSUME NEW n \in 0 .. Nesting
        PROVE  LevelOnce(g, n) = LevelOnce(f, n)
    <3>1. n # 0 => n - 1 \in 0 .. Nesting
      BY <1>1
    <3>2. n # 0 => f[n - 1] = g[n - 1]
      BY <1>5, <3>1
    <3> QED BY <3>2 DEF LevelOnce
  <2> QED BY <2>1
<1> HIDE DEF f
<1>7. f = [n \in 0 .. Nesting |->
             Atom \cup
               (IF n = 0 THEN {}
                ELSE [kind : {"Array"}, array : Seq(f[n - 1])]
                       \cup {doc \in [kind : {"Document"}, entries : Seq(STRING \X f[n - 1])] :
                               \A i, j \in DOMAIN doc.entries :
                                 doc.entries[i][1] = doc.entries[j][1] => i = j})]
  BY <1>6 DEF LevelOnce, GrownOnce
<1>8. Unambiguous = [n \in 0 .. Nesting |-> LevelOnce(Unambiguous, n)]
  <2>1. Unambiguous = [n \in 0 .. Nesting |->
             Atom \cup
               (IF n = 0 THEN {}
                ELSE [kind : {"Array"}, array : Seq(Unambiguous[n - 1])]
                       \cup {doc \in [kind : {"Document"}, entries : Seq(STRING \X Unambiguous[n - 1])] :
                               \A i, j \in DOMAIN doc.entries :
                                 doc.entries[i][1] = doc.entries[j][1] => i = j})]
    BY <1>7 DEF Unambiguous
  <2> QED BY <2>1 DEF LevelOnce, GrownOnce
<1>9. \A n \in 0 .. Nesting : Unambiguous[n] = LevelOnce(Unambiguous, n)
  BY <1>8
<1>10. 0 \in 0 .. Nesting /\ \A n \in 1 .. Nesting : n \in 0 .. Nesting /\ n # 0
  BY <1>1
<1> QED BY <1>8, <1>9, <1>10 DEF LevelOnce

\* More depth, more values.
LEMMA SequencesGrow ==
  ASSUME NEW S, NEW T, S \subseteq T
  PROVE  Seq(S) \subseteq Seq(T) /\ Seq(STRING \X S) \subseteq Seq(STRING \X T)
<1>1. STRING \X S \subseteq STRING \X T
  OBVIOUS
<1>2. ASSUME NEW A, NEW B, A \subseteq B
      PROVE  Seq(A) \subseteq Seq(B)
  <2> SUFFICES ASSUME NEW s \in Seq(A)
               PROVE  s \in Seq(B)
    OBVIOUS
  <2>1. s = [i \in 1 .. Len(s) |-> s[i]] /\ Len(s) \in Nat /\ \A i \in 1 .. Len(s) : s[i] \in B
    BY <1>2
  <2> QED BY <2>1
<1> QED BY <1>1, <1>2

LEMMA GrownGrows ==
  ASSUME NEW S, NEW T, S \subseteq T
  PROVE  Grown(S) \subseteq Grown(T) /\ GrownOnce(S) \subseteq GrownOnce(T)
<1>1. Seq(S) \subseteq Seq(T) /\ Seq(STRING \X S) \subseteq Seq(STRING \X T)
  BY SequencesGrow
<1> DEFINE A == Seq(S)
           B == Seq(T)
           C == Seq(STRING \X S)
           D == Seq(STRING \X T)
<1>2. A \subseteq B /\ C \subseteq D
  BY <1>1
<1>3. Grown(S) = [kind : {"Array"}, array : A] \cup [kind : {"Document"}, entries : C]
  BY DEF Grown
<1>4. Grown(T) = [kind : {"Array"}, array : B] \cup [kind : {"Document"}, entries : D]
  BY DEF Grown
<1>5. GrownOnce(S) = [kind : {"Array"}, array : A]
                       \cup {doc \in [kind : {"Document"}, entries : C] : KeysOnce(doc.entries)}
  BY DEF GrownOnce, KeysOnce
<1>6. GrownOnce(T) = [kind : {"Array"}, array : B]
                       \cup {doc \in [kind : {"Document"}, entries : D] : KeysOnce(doc.entries)}
  BY DEF GrownOnce, KeysOnce
<1> HIDE DEF A, B, C, D
<1> QED BY <1>2, <1>3, <1>4, <1>5, <1>6

LEMMA LevelsGrow ==
  ASSUME NEW n \in 0 .. Nesting, NEW m \in 0 .. n
  PROVE  Values[m] \subseteq Values[n] /\ Unambiguous[m] \subseteq Unambiguous[n]
<1> DEFINE S == {k \in 0 .. Nesting : \A i \in 0 .. k : Values[i] \subseteq Values[k]
                                                  /\ Unambiguous[i] \subseteq Unambiguous[k]}
           V(i) == Values[i]
           U(i) == Unambiguous[i]
<1>1. Nesting \in Nat
  BY TypeAssumption
<1>2. 0 \in S
  BY <1>1
<1>3. ASSUME NEW k \in 1 .. Nesting, k - 1 \in S
      PROVE  k \in S
  <2>1. V(k - 1) \subseteq V(k) /\ U(k - 1) \subseteq U(k)
    <3>1. CASE k = 1
      <4>1. V(0) = Atom /\ U(0) = Atom /\ k - 1 = 0
        BY <3>1, ValuesAreLevels, UnambiguousAreLevels
      <4>2. Atom \subseteq V(k) /\ Atom \subseteq U(k)
        BY ValuesAreLevels, UnambiguousAreLevels
      <4> HIDE DEF V, U
      <4> QED BY <4>1, <4>2
    <3>2. CASE k # 1
      <4>1. k - 1 \in 1 .. Nesting /\ (k - 1) - 1 = k - 2 /\ k - 2 \in 0 .. k - 1
        BY <1>1, <3>2
      <4>2. V(k - 1) = Atom \cup Grown(V(k - 2)) /\ V(k) = Atom \cup Grown(V(k - 1))
        BY <4>1, ValuesAreLevels
      <4>3. U(k - 1) = Atom \cup GrownOnce(U(k - 2)) /\ U(k) = Atom \cup GrownOnce(U(k - 1))
        BY <4>1, UnambiguousAreLevels
      <4>4. V(k - 2) \subseteq V(k - 1) /\ U(k - 2) \subseteq U(k - 1)
        BY <1>3, <4>1
      <4> HIDE DEF V, U
      <4>5. Grown(V(k - 2)) \subseteq Grown(V(k - 1)) /\ GrownOnce(U(k - 2)) \subseteq GrownOnce(U(k - 1))
        BY <4>4, GrownGrows
      <4> QED BY <4>2, <4>3, <4>5
    <3> QED BY <3>1, <3>2
  <2>2. ASSUME NEW i \in 0 .. k
        PROVE  V(i) \subseteq V(k) /\ U(i) \subseteq U(k)
    <3>1. i = k \/ i \in 0 .. k - 1
      OBVIOUS
    <3>2. i \in 0 .. k - 1 => V(i) \subseteq V(k - 1) /\ U(i) \subseteq U(k - 1)
      BY <1>3
    <3> HIDE DEF V, U
    <3> QED BY <2>1, <3>1, <3>2
  <2> QED BY <2>2
<1>4. \A k \in 0 .. Nesting : k \in S
  <2> HIDE DEF S
  <2> QED BY <1>1, <1>2, <1>3, UpTo
<1> QED BY <1>4

LEMMA UnambiguousAreValues ==
  ASSUME NEW n \in 0 .. Nesting
  PROVE  Unambiguous[n] \subseteq Values[n]
<1> DEFINE S == {k \in 0 .. Nesting : Unambiguous[k] \subseteq Values[k]}
<1>1. Nesting \in Nat
  BY TypeAssumption
<1>2. 0 \in S
  BY <1>1, ValuesAreLevels, UnambiguousAreLevels
<1>3. ASSUME NEW k \in 1 .. Nesting, k - 1 \in S
      PROVE  k \in S
  <2> DEFINE U == Unambiguous[k - 1]
             V == Values[k - 1]
  <2>1. Unambiguous[k] = Atom \cup GrownOnce(U) /\ Values[k] = Atom \cup Grown(V)
    BY ValuesAreLevels, UnambiguousAreLevels
  <2>2. U \subseteq V
    BY <1>3
  <2> HIDE DEF U, V
  <2>3. GrownOnce(U) \subseteq Grown(U)
    BY DEF Grown, GrownOnce
  <2>4. Grown(U) \subseteq Grown(V)
    BY <2>2, GrownGrows
  <2>5. Unambiguous[k] \subseteq Values[k]
    BY <2>1, <2>3, <2>4
  <2> QED BY <2>5
<1>4. \A k \in 0 .. Nesting : k \in S
  <2> HIDE DEF S
  <2> QED BY <1>1, <1>2, <1>3, UpTo
<1> QED BY <1>4

-----------------------------------------------------------------------------
(* Sequences *)

LEMMA SeqParts ==
  ASSUME NEW E, NEW s \in Seq(E)
  PROVE  /\ Len(s) \in Nat /\ DOMAIN s = 1 .. Len(s) /\ s \in [1 .. Len(s) -> E]
         /\ \A i \in DOMAIN s : s[i] \in E
OBVIOUS

LEMMA SeqMade ==
  ASSUME NEW E, NEW n \in Nat, NEW s, DOMAIN s = 1 .. n, s = [i \in 1 .. n |-> s[i]],
         \A i \in 1 .. n : s[i] \in E
  PROVE  s \in Seq(E) /\ Len(s) = n
<1>1. s \in [1 .. n -> E]
  OBVIOUS
<1> QED BY <1>1

\* u is s and then e, s and then t, e and then s.
Appends(E, u, s, e) ==
  /\ u \in Seq(E) /\ DOMAIN u = 1 .. Len(s) + 1
  /\ \A i \in 1 .. Len(s) : u[i] = s[i]
  /\ u[Len(s) + 1] = e
Joins(E, u, s, t) ==
  /\ u \in Seq(E) /\ Len(u) = Len(s) + Len(t)
  /\ \A i \in 1 .. Len(s) : u[i] = s[i]
  /\ \A i \in 1 .. Len(t) : u[Len(s) + i] = t[i]
Fronts(E, u, e, s) ==
  /\ u \in Seq(E) /\ Len(u) = Len(s) + 1 /\ DOMAIN u = 1 .. Len(s) + 1
  /\ u[1] = e
  /\ \A i \in 1 .. Len(s) : u[i + 1] = s[i]

LEMMA SeqAppends ==
  ASSUME NEW E, NEW s \in Seq(E), NEW e \in E
  PROVE  Appends(E, Append(s, e), s, e)
BY DEF Appends

LEMMA SeqJoins ==
  ASSUME NEW E, NEW s \in Seq(E), NEW t \in Seq(E)
  PROVE  Joins(E, s \o t, s, t)
BY DEF Joins

LEMMA SeqFronts ==
  ASSUME NEW E, NEW e \in E, NEW s \in Seq(E)
  PROVE  Fronts(E, <<e>> \o s, e, s)
<1>1. <<e>> \in Seq(E) /\ Len(<<e>>) = 1 /\ <<e>>[1] = e
  OBVIOUS
<1> DEFINE f == <<e>>
           u == f \o s
<1>2. f \in Seq(E) /\ Len(f) = 1 /\ f[1] = e
  BY <1>1
<1> HIDE DEF f
<1>3. /\ u \in Seq(E) /\ Len(u) = 1 + Len(s) /\ Len(s) \in Nat
      /\ \A i \in 1 .. 1 : u[i] = f[i]
      /\ \A i \in 1 .. Len(s) : u[1 + i] = s[i]
  <2>1. Joins(E, u, f, s)
    BY <1>2, SeqJoins
  <2> HIDE DEF u
  <2> QED BY <1>2, <2>1 DEF Joins
<1> HIDE DEF u
<1>4. DOMAIN u = 1 .. Len(s) + 1 /\ 1 + Len(s) = Len(s) + 1
  BY <1>3
<1>5. \A i \in 1 .. Len(s) : u[i + 1] = s[i]
  BY <1>3
<1>6. u[1] = e
  BY <1>2, <1>3
<1>7. Fronts(E, u, e, s)
  BY <1>3, <1>4, <1>5, <1>6 DEF Fronts
<1> QED BY <1>7 DEF u, f

LEMMA SeqChanges ==
  ASSUME NEW E, NEW s \in Seq(E), NEW p \in DOMAIN s, NEW e \in E
  PROVE  [s EXCEPT ![p] = e] \in Seq(E)
OBVIOUS

LEMMA AtomKinds ==
  \A a \in Atom : a.kind \in {"Null", "Bool", "I64", "F64", "String", "Bytes"}
BY DEF Atom, Null

\* A value is an atom, or made of values a level below.
LEMMA ValueCases ==
  ASSUME NEW n \in 0 .. Nesting, NEW v \in Values[n]
  PROVE  \/ v \in Atom /\ v.kind \notin {"Array", "Document"}
         \/ /\ n \in 1 .. Nesting /\ n - 1 \in 0 .. Nesting
            /\ v.kind = "Array" /\ v = Array(v.array) /\ v.array \in Seq(Values[n - 1])
         \/ /\ n \in 1 .. Nesting /\ n - 1 \in 0 .. Nesting
            /\ v.kind = "Document" /\ v = Document(v.entries)
            /\ v.entries \in Seq(STRING \X Values[n - 1])
<1> DEFINE V == Values[n - 1]
<1>1. Nesting \in Nat
  BY TypeAssumption
<1>2. v \in Atom => v.kind \notin {"Array", "Document"}
  BY AtomKinds
<1>3. v \notin Atom => n \in 1 .. Nesting /\ v \in Grown(V) /\ n - 1 \in 0 .. Nesting
  BY <1>1, ValuesAreLevels
<1> HIDE DEF V
<1>4. ASSUME v \in Grown(V)
      PROVE  \/ v.kind = "Array" /\ v = Array(v.array) /\ v.array \in Seq(V)
             \/ v.kind = "Document" /\ v = Document(v.entries) /\ v.entries \in Seq(STRING \X V)
  BY <1>4 DEF Grown, Array, Document
<1> QED BY <1>2, <1>3, <1>4 DEF V

LEMMA UnambiguousCases ==
  ASSUME NEW n \in 0 .. Nesting, NEW v \in Unambiguous[n]
  PROVE  \/ v \in Atom /\ v.kind \notin {"Array", "Document"}
         \/ /\ n \in 1 .. Nesting /\ n - 1 \in 0 .. Nesting
            /\ v.kind = "Array" /\ v = Array(v.array) /\ v.array \in Seq(Unambiguous[n - 1])
         \/ /\ n \in 1 .. Nesting /\ n - 1 \in 0 .. Nesting
            /\ v.kind = "Document" /\ v = Document(v.entries)
            /\ v.entries \in Seq(STRING \X Unambiguous[n - 1]) /\ KeysOnce(v.entries)
<1> DEFINE V == Unambiguous[n - 1]
<1>1. Nesting \in Nat
  BY TypeAssumption
<1>2. v \in Atom => v.kind \notin {"Array", "Document"}
  BY AtomKinds
<1>3. v \notin Atom => n \in 1 .. Nesting /\ v \in GrownOnce(V) /\ n - 1 \in 0 .. Nesting
  BY <1>1, UnambiguousAreLevels
<1> HIDE DEF V
<1>4. ASSUME v \in GrownOnce(V)
      PROVE  \/ v.kind = "Array" /\ v = Array(v.array) /\ v.array \in Seq(V)
             \/ /\ v.kind = "Document" /\ v = Document(v.entries) /\ v.entries \in Seq(STRING \X V)
                /\ KeysOnce(v.entries)
  BY <1>4 DEF GrownOnce, Array, Document, KeysOnce
<1> QED BY <1>2, <1>3, <1>4 DEF V

LEMMA ValuesMade ==
  ASSUME NEW n \in 1 .. Nesting
  PROVE  /\ \A a \in Seq(Values[n - 1]) : Array(a) \in Values[n]
         /\ \A e \in Seq(STRING \X Values[n - 1]) : Document(e) \in Values[n]
<1> DEFINE V == Values[n - 1]
<1>1. Grown(V) \subseteq Values[n]
  BY ValuesAreLevels
<1> HIDE DEF V
<1>2. /\ \A a \in Seq(V) : Array(a) \in Grown(V)
      /\ \A e \in Seq(STRING \X V) : Document(e) \in Grown(V)
  BY DEF Grown, Array, Document
<1> QED BY <1>1, <1>2 DEF V

LEMMA UnambiguousMade ==
  ASSUME NEW n \in 1 .. Nesting
  PROVE  /\ \A a \in Seq(Unambiguous[n - 1]) : Array(a) \in Unambiguous[n]
         /\ \A e \in Seq(STRING \X Unambiguous[n - 1]) :
              KeysOnce(e) => Document(e) \in Unambiguous[n]
<1> DEFINE V == Unambiguous[n - 1]
<1>1. GrownOnce(V) \subseteq Unambiguous[n]
  BY UnambiguousAreLevels
<1> HIDE DEF V
<1>2. /\ \A a \in Seq(V) : Array(a) \in GrownOnce(V)
      /\ \A e \in Seq(STRING \X V) : KeysOnce(e) => Document(e) \in GrownOnce(V)
  BY DEF GrownOnce, Array, Document, KeysOnce
<1> QED BY <1>1, <1>2 DEF V

LEMMA AtomsInside ==
  ASSUME NEW n \in 0 .. Nesting
  PROVE  Atom \subseteq Values[n] /\ Atom \subseteq Unambiguous[n]
<1>1. Nesting \in Nat /\ (n = 0 \/ n \in 1 .. Nesting)
  BY TypeAssumption
<1> QED BY <1>1, ValuesAreLevels, UnambiguousAreLevels

LEMMA ValueIsTop ==
  /\ Nesting \in 0 .. Nesting
  /\ \A n \in 0 .. Nesting : n \in 0 .. Nesting /\ Values[n] \subseteq Value
<1>1. Nesting \in Nat
  BY TypeAssumption
<1>2. Nesting \in 0 .. Nesting
  BY <1>1
<1>3. \A n \in 0 .. Nesting : Values[n] \subseteq Values[Nesting]
  BY <1>2, LevelsGrow
<1> QED BY <1>2, <1>3 DEF Value

-----------------------------------------------------------------------------
(* Edits of a Document *)

\* A place with the key is the only one.
LEMMA PlaceHasKey ==
  ASSUME NEW entries, NEW key, ContainsKey(entries, key)
  PROVE  PlaceIn(entries, key) \in DOMAIN entries /\ entries[PlaceIn(entries, key)][1] = key
BY DEF ContainsKey, PlaceIn

LEMMA OnlyPlace ==
  ASSUME NEW entries, KeysOnce(entries), NEW i \in DOMAIN entries
  PROVE  ContainsKey(entries, entries[i][1]) /\ PlaceIn(entries, entries[i][1]) = i
<1>1. ContainsKey(entries, entries[i][1])
  BY DEF ContainsKey
<1> QED BY <1>1, PlaceHasKey DEF KeysOnce

LEMMA InsertKeepsKeys ==
  ASSUME NEW S, NEW entries \in Seq(STRING \X S), KeysOnce(entries), NEW key \in STRING, NEW v \in S
  PROVE  Insert(entries, key, v) \in Seq(STRING \X S) /\ KeysOnce(Insert(entries, key, v))
<1> DEFINE E == STRING \X S
<1>0. <<key, v>> \in E /\ entries \in Seq(E) /\ Len(entries) \in Nat /\ DOMAIN entries = 1 .. Len(entries)
  <2>1. <<key, v>> \in E /\ entries \in Seq(E)
    OBVIOUS
  <2> HIDE DEF E
  <2> QED BY <2>1, SeqParts
<1>1. CASE ContainsKey(entries, key)
  <2> DEFINE p == PlaceIn(entries, key)
             s == [entries EXCEPT ![p] = <<key, v>>]
  <2>1. p \in DOMAIN entries /\ entries[p][1] = key /\ Insert(entries, key, v) = s
    BY <1>1, PlaceHasKey DEF Insert
  <2> HIDE DEF p
  <2>2. s \in Seq(E)
    <3> HIDE DEF E
    <3> QED BY <1>0, <2>1, SeqChanges
  <2>3. DOMAIN s = DOMAIN entries /\ \A i \in DOMAIN s : s[i][1] = entries[i][1]
    BY <2>1
  <2> HIDE DEF s
  <2>4. KeysOnce(s)
    BY <2>3 DEF KeysOnce
  <2> QED BY <2>1, <2>2, <2>4
<1>2. CASE ~ContainsKey(entries, key)
  <2> DEFINE s == Append(entries, <<key, v>>)
             n == Len(entries)
  <2>1. Insert(entries, key, v) = s
    BY <1>2 DEF Insert
  <2>2. s \in Seq(E) /\ DOMAIN s = 1 .. n + 1 /\ (\A i \in 1 .. n : s[i] = entries[i]) /\ s[n + 1] = <<key, v>>
    <3> HIDE DEF E
    <3>1. Appends(E, s, entries, <<key, v>>)
      BY <1>0, SeqAppends
    <3> HIDE DEF s
    <3> QED BY <3>1 DEF Appends
  <2>3. \A i \in 1 .. n : entries[i][1] # key
    BY <1>0, <1>2 DEF ContainsKey
  <2> HIDE DEF s
  <2>4. KeysOnce(s)
    <3> SUFFICES ASSUME NEW i \in 1 .. n + 1, NEW j \in 1 .. n + 1, s[i][1] = s[j][1]
                 PROVE  i = j
      BY <2>2 DEF KeysOnce
    <3>1. n \in Nat /\ (i = n + 1 \/ i \in 1 .. n) /\ (j = n + 1 \/ j \in 1 .. n)
      BY <1>0
    <3>2. s[n + 1][1] = key
      BY <2>2
    <3>3. \A k \in 1 .. n : s[k][1] = entries[k][1]
      BY <2>2
    <3>4. i \in 1 .. n /\ j \in 1 .. n => i = j
      BY <1>0, <3>3 DEF KeysOnce
    <3>5. i \in 1 .. n => s[i][1] # key
      BY <3>3, <2>3
    <3>6. j \in 1 .. n => s[j][1] # key
      BY <3>3, <2>3
    <3> QED BY <3>1, <3>2, <3>4, <3>5, <3>6
  <2> QED BY <2>1, <2>2, <2>4
<1> QED BY <1>1, <1>2

LEMMA RemoveKeepsKeys ==
  ASSUME NEW S, NEW entries \in Seq(STRING \X S), KeysOnce(entries), NEW key
  PROVE  /\ RemoveKey(entries, key) \in Seq(STRING \X S) /\ KeysOnce(RemoveKey(entries, key))
         /\ ~ContainsKey(RemoveKey(entries, key), key)
<1> DEFINE E == STRING \X S
           n == Len(entries)
<1>0. entries \in Seq(E) /\ n \in Nat /\ DOMAIN entries = 1 .. n
  <2>1. entries \in Seq(E)
    OBVIOUS
  <2> HIDE DEF E
  <2> QED BY <2>1, SeqParts
<1>1. CASE ContainsKey(entries, key)
  <2> DEFINE p == PlaceIn(entries, key)
             f == SubSeq(entries, 1, p - 1)
             g == SubSeq(entries, p + 1, n)
             s == f \o g
             at(i) == IF i < p THEN i ELSE i + 1
  <2>1. p \in 1 .. n /\ entries[p][1] = key
    BY <1>0, <1>1, PlaceHasKey
  <2>2. RemoveKey(entries, key) = s
    BY <1>1 DEF RemoveKey, RemoveAt
  <2> HIDE DEF p
  <2>3. /\ f \in Seq(E) /\ Len(f) = p - 1 /\ \A i \in 1 .. p - 1 : f[i] = entries[i]
        /\ g \in Seq(E) /\ Len(g) = n - p /\ \A i \in 1 .. n - p : g[i] = entries[p + i]
    <3> HIDE DEF E
    <3>0. \A i \in 1 .. n : entries[i] \in E
      BY <1>0, SeqParts
    <3> HIDE DEF n
    <3>1. 1 \in Int /\ p - 1 \in Int /\ p + 1 \in Int /\ n \in Int /\ p \in Int
      BY <1>0, <2>1
    <3>2. \A i \in 1 .. p - 1 : entries[i] \in E
      BY <1>0, <2>1, <3>0
    <3>3. \A i \in p + 1 .. n : entries[i] \in E
      BY <1>0, <2>1, <3>0
    <3>4. f \in Seq(E) /\ Len(f) = p - 1 /\ \A i \in 1 .. p - 1 : f[i] = entries[i]
      <4>1. /\ f \in Seq(E)
            /\ Len(f) = IF 1 <= p - 1 THEN (p - 1) - 1 + 1 ELSE 0
            /\ \A i \in 1 .. (p - 1) - 1 + 1 : f[i] = entries[1 + i - 1]
        BY <1>0, <3>1, <3>2, SubSeqProperties
      <4> HIDE DEF f
      <4>2. Len(f) = p - 1 /\ (p - 1) - 1 + 1 = p - 1
        BY <4>1, <2>1
      <4>3. \A i \in 1 .. p - 1 : 1 + i - 1 = i
        BY <2>1
      <4> QED BY <4>1, <4>2, <4>3
    <3>5. g \in Seq(E) /\ Len(g) = n - p /\ \A i \in 1 .. n - p : g[i] = entries[p + i]
      <4>1. /\ g \in Seq(E)
            /\ Len(g) = IF p + 1 <= n THEN n - (p + 1) + 1 ELSE 0
            /\ \A i \in 1 .. n - (p + 1) + 1 : g[i] = entries[(p + 1) + i - 1]
        BY <1>0, <3>1, <3>3, SubSeqProperties
      <4> HIDE DEF g
      <4>2. Len(g) = n - p /\ n - (p + 1) + 1 = n - p
        BY <4>1, <1>0, <2>1
      <4>3. \A i \in 1 .. n - p : (p + 1) + i - 1 = p + i
        BY <1>0, <2>1
      <4> QED BY <4>1, <4>2, <4>3
    <3> QED BY <3>4, <3>5
  <2>4. s \in Seq(E) /\ Len(s) = n - 1 /\ \A i \in 1 .. n - 1 : s[i] = entries[at(i)]
    <3> HIDE DEF E, f, g
    <3>a. Joins(E, s, f, g)
      BY <2>3, SeqJoins
    <3> HIDE DEF s
    <3>1. s \in Seq(E) /\ Len(s) = n - 1
      BY <1>0, <2>1, <2>3, <3>a DEF Joins
    <3>2. ASSUME NEW i \in 1 .. n - 1
          PROVE  s[i] = entries[at(i)]
      <4>1. CASE i < p
        <5>1. i \in 1 .. p - 1
          BY <2>1, <4>1
        <5>2. s[i] = f[i]
          BY <2>3, <5>1, <3>a DEF Joins
        <5> QED BY <2>3, <5>1, <5>2, <4>1
      <4>2. CASE ~(i < p)
        <5>1. i - (p - 1) \in 1 .. n - p /\ p + (i - (p - 1)) = i + 1 /\ (p - 1) + (i - (p - 1)) = i
          BY <1>0, <2>1, <4>2
        <5>2. s[i] = g[i - (p - 1)]
          BY <2>3, <3>a, <5>1 DEF Joins
        <5> QED BY <2>3, <5>1, <5>2, <4>2
      <4> QED BY <4>1, <4>2
    <3> QED BY <3>1, <3>2
  <2> HIDE DEF s, f, g
  <2>5. ASSUME NEW i \in 1 .. n - 1
        PROVE  at(i) \in 1 .. n /\ at(i) # p
    BY <1>0, <2>1
  <2>6. \A i, j \in 1 .. n - 1 : at(i) = at(j) => i = j
    BY <1>0, <2>1
  <2>7. DOMAIN s = 1 .. n - 1
    BY <2>4
  <2> HIDE DEF at
  <2>8. KeysOnce(s)
    <3> SUFFICES ASSUME NEW i \in 1 .. n - 1, NEW j \in 1 .. n - 1, s[i][1] = s[j][1]
                 PROVE  i = j
      BY <2>7 DEF KeysOnce
    <3>1. entries[at(i)][1] = entries[at(j)][1]
      BY <2>4
    <3>2. at(i) = at(j)
      BY <3>1, <2>5, <1>0 DEF KeysOnce
    <3> QED BY <3>2, <2>6
  <2>9. ~ContainsKey(s, key)
    <3> SUFFICES ASSUME NEW i \in 1 .. n - 1, s[i][1] = key
                 PROVE  FALSE
      BY <2>7 DEF ContainsKey
    <3>1. entries[at(i)][1] = key
      BY <2>4
    <3> QED BY <3>1, <2>5, <2>1, <1>0 DEF KeysOnce
  <2> QED BY <2>2, <2>4, <2>8, <2>9
<1>2. CASE ~ContainsKey(entries, key)
  BY <1>2 DEF RemoveKey
<1> QED BY <1>1, <1>2

\* The entry in front, and the others after it in their order.
LEMMA FrontKeepsKeys ==
  ASSUME NEW S, NEW entries \in Seq(STRING \X S), KeysOnce(entries), NEW key \in STRING, NEW v \in S
  PROVE  /\ InsertFront(entries, key, v) \in Seq(STRING \X S) /\ KeysOnce(InsertFront(entries, key, v))
         /\ Len(InsertFront(entries, key, v)) = Len(RemoveKey(entries, key)) + 1
         /\ InsertFront(entries, key, v)[1] = <<key, v>>
         /\ \A i \in 1 .. Len(RemoveKey(entries, key)) :
              InsertFront(entries, key, v)[i + 1] = RemoveKey(entries, key)[i]
<1> DEFINE E == STRING \X S
           r == RemoveKey(entries, key)
           n == Len(r)
           s == << <<key, v>> >> \o r
<1>1. r \in Seq(E) /\ KeysOnce(r) /\ ~ContainsKey(r, key) /\ InsertFront(entries, key, v) = s
  BY RemoveKeepsKeys DEF InsertFront
<1>2. <<key, v>> \in E
  OBVIOUS
<1> HIDE DEF r
<1>3. /\ n \in Nat /\ s \in Seq(E) /\ Len(s) = n + 1 /\ DOMAIN s = 1 .. n + 1 /\ s[1] = <<key, v>>
      /\ \A i \in 1 .. n : s[i + 1] = r[i]
      /\ DOMAIN r = 1 .. n
  <2> HIDE DEF E
  <2>1. n \in Nat /\ DOMAIN r = 1 .. n
    BY <1>1, SeqParts, Zenon
  <2> DEFINE p == <<key, v>>
  <2>2. p \in E
    BY <1>2
  <2> HIDE DEF p
  <2>3. Fronts(E, <<p>> \o r, p, r)
    BY <1>1, <2>2, SeqFronts
  <2>4. Fronts(E, s, <<key, v>>, r)
    BY <2>3 DEF p
  <2> HIDE DEF s
  <2> QED BY <2>1, <2>4 DEF Fronts
<1> HIDE DEF s
<1>4. KeysOnce(s)
  <2> SUFFICES ASSUME NEW i \in 1 .. n + 1, NEW j \in 1 .. n + 1, s[i][1] = s[j][1]
               PROVE  i = j
    BY <1>3 DEF KeysOnce
  <2>1. \A k \in 1 .. n : r[k][1] # key
    BY <1>1, <1>3 DEF ContainsKey
  <2>2. ASSUME NEW k \in 1 .. n + 1, k # 1
        PROVE  k - 1 \in 1 .. n /\ s[k] = r[k - 1]
    <3>1. k - 1 \in 1 .. n /\ (k - 1) + 1 = k
      BY <1>3, <2>2
    <3> QED BY <1>3, <3>1
  <2>3. s[1][1] = key
    BY <1>3
  <2>4. i # 1 => s[i][1] # key
    BY <2>1, <2>2
  <2>5. j # 1 => s[j][1] # key
    BY <2>1, <2>2
  <2>6. CASE i # 1 /\ j # 1
    <3>1. i - 1 \in DOMAIN r /\ j - 1 \in DOMAIN r /\ r[i - 1][1] = r[j - 1][1]
      BY <2>2, <2>6, <1>3
    <3>2. i - 1 = j - 1
      BY <3>1, <1>1 DEF KeysOnce
    <3> HIDE DEF n
    <3> QED BY <3>2, <1>3
  <2> QED BY <2>3, <2>4, <2>5, <2>6
<1> QED BY <1>1, <1>3, <1>4 DEF r

-----------------------------------------------------------------------------
(* Entries inserted one after the other *)

OnceSeq(S) == {entries \in Seq(STRING \X S) : KeysOnce(entries)}

\* The steps of the insertions.
InsertedEnd(X, pairs) ==
  \E walk \in [0 .. Len(pairs) -> X] :
    /\ walk[0] = <<>>
    /\ \A i \in 1 .. Len(pairs) : walk[i] = Insert(walk[i - 1], pairs[i][1], pairs[i][2])
    /\ walk[Len(pairs)] = Inserted(pairs)

LEMMA InsertedWalk ==
  ASSUME NEW S, NEW pairs \in Seq(STRING \X S)
  PROVE  InsertedEnd(OnceSeq(S), pairs)
<1> DEFINE E == STRING \X S
           X == OnceSeq(S)
           n == Len(pairs)
           Keep(x, p) == Insert(x, p[1], p[2])
           D == SUBSET (1 .. n)
           Fold1(f, r) == IF r = {} THEN <<>> ELSE Keep(f[r \ {Max(r)}], pairs[Max(r)])
           fold == CHOOSE f : f = [r \in D |-> Fold1(f, r)]
           Step == [x \in X \X (1 .. n) |-> Keep(x[1], pairs[x[2]])]
<1>0. n \in Nat /\ DOMAIN pairs = 1 .. n /\ \A i \in 1 .. n : pairs[i] \in E
  <2>1. pairs \in Seq(E)
    OBVIOUS
  <2> HIDE DEF E
  <2> QED BY <2>1, SeqParts
<1>1. n \in Nat /\ DOMAIN pairs = 1 .. n
  BY <1>0
<1>s. <<>> \in X
  BY DEF OnceSeq, KeysOnce
<1>2. Inserted(pairs) = fold[1 .. n]
  BY <1>1 DEF Inserted, FoldLeft, MapThenFoldSet
<1>3. \A x \in X, i \in 1 .. n : Keep(x, pairs[i]) \in X
  <2> SUFFICES ASSUME NEW x \in X, NEW i \in 1 .. n
               PROVE  Keep(x, pairs[i]) \in X
    OBVIOUS
  <2>1. pairs[i][1] \in STRING /\ pairs[i][2] \in S
    <3> HIDE DEF n
    <3> QED BY <1>0
  <2>2. x \in Seq(STRING \X S) /\ KeysOnce(x)
    BY DEF OnceSeq
  <2>3. Insert(x, pairs[i][1], pairs[i][2]) \in Seq(STRING \X S)
        /\ KeysOnce(Insert(x, pairs[i][1], pairs[i][2]))
    BY <2>1, <2>2, InsertKeepsKeys
  <2> QED BY <2>3 DEF OnceSeq
<1>4. Step \in [X \X (1 .. n) -> X]
  <2> HIDE DEF n, Keep, X
  <2> QED BY <1>3
<1>5. \A r \in D : r # {} => Max(r) \in r
  BY <1>1, PlacesHaveEnds
<1> HIDE DEF X
<1>6. \E f \in [D -> X] : f = [r \in D |-> Fold1(f, r)]
  <2>1. PICK f \in [D -> X] : Folded(f, n, <<>>, Step)
    <3> HIDE DEF Step, n
    <3> QED BY <1>1, <1>4, <1>s, LeftFoldExists
  <2>2. ASSUME NEW r \in D
        PROVE  f[r] = Fold1(f, r)
    <3> HIDE DEF n, Keep
    <3>1. r # {} => r \ {Max(r)} \in D /\ f[r \ {Max(r)}] \in X /\ Max(r) \in 1 .. n
      BY <1>5, <2>1
    <3>2. f[r] = IF r = {} THEN <<>> ELSE Step[<<f[r \ {Max(r)}], Max(r)>>]
      BY <2>1 DEF Folded
    <3> QED BY <3>1, <3>2 DEF Step
  <2> HIDE DEF Fold1, D
  <2> QED BY <2>1, <2>2
<1>7. fold = [r \in D |-> Fold1(fold, r)]
  BY <1>6
<1> HIDE DEF fold
<1>8. Folds(fold, n, X, <<>>, Step)
  <2>1. fold[{}] = <<>>
    BY <1>7
  <2>2. ASSUME NEW r \in SUBSET (1 .. n), r # {}, fold[r \ {Max(r)}] \in X
        PROVE  fold[r] = Step[<<fold[r \ {Max(r)}], Max(r)>>]
    <3> HIDE DEF Keep
    <3>1. fold[r] = Keep(fold[r \ {Max(r)}], pairs[Max(r)])
      BY <1>7, <2>2
    <3>2. Max(r) \in 1 .. n
      BY <1>5, <2>2
    <3> HIDE DEF n
    <3> QED BY <2>2, <3>1, <3>2
  <2> HIDE DEF Step, n
  <2> QED BY <2>1, <2>2 DEF Folds
<1>9. PICK walk \in [0 .. n -> X] : IsWalk(walk, n, <<>>, Step) /\ walk[n] = fold[1 .. n]
  <2> HIDE DEF Step, n, D, Keep
  <2>1. EndsWalk(fold, n, X, <<>>, Step)
    BY <1>1, <1>4, <1>8, <1>s, FoldIsWalk
  <2> QED BY <2>1 DEF EndsWalk
<1>10. ASSUME NEW i \in 1 .. n
       PROVE  walk[i] = Keep(walk[i - 1], pairs[i])
  <2>1. i - 1 \in 0 .. n
    BY <1>1
  <2> HIDE DEF n, Keep
  <2>2. walk[i - 1] \in X
    BY <1>9, <2>1
  <2> QED BY <1>9, <2>2 DEF IsWalk
<1>11. walk[0] = <<>>
  BY <1>9 DEF IsWalk
<1> QED BY <1>2, <1>9, <1>10, <1>11 DEF InsertedEnd, X

\* Inserted again, entries hold every key that was there, and none twice.
LEMMA InsertedKeepsKeys ==
  ASSUME NEW S, NEW pairs \in Seq(STRING \X S)
  PROVE  /\ Inserted(pairs) \in Seq(STRING \X S) /\ KeysOnce(Inserted(pairs))
         /\ \A i \in DOMAIN pairs : ContainsKey(Inserted(pairs), pairs[i][1])
<1> DEFINE n == Len(pairs)
<1>1. n \in Nat /\ DOMAIN pairs = 1 .. n
  OBVIOUS
<1>2. PICK walk \in [0 .. n -> OnceSeq(S)] :
        /\ \A i \in 1 .. n : walk[i] = Insert(walk[i - 1], pairs[i][1], pairs[i][2])
        /\ walk[n] = Inserted(pairs)
  BY InsertedWalk DEF InsertedEnd
<1>3. Inserted(pairs) \in OnceSeq(S)
  BY <1>1, <1>2
<1> DEFINE T == {i \in 0 .. n : \A j \in 1 .. i : ContainsKey(walk[i], pairs[j][1])}
<1>4. 0 \in T
  BY <1>1
<1>5. ASSUME NEW i \in 1 .. n, i - 1 \in T
      PROVE  i \in T
  <2> DEFINE e == walk[i - 1]
             k == pairs[i][1]
             v == pairs[i][2]
  <2>1. walk[i] = Insert(e, k, v) /\ \A j \in 1 .. i - 1 : ContainsKey(e, pairs[j][1])
    BY <1>2, <1>5
  <2>2. e \in OnceSeq(S)
    <3>1. i - 1 \in 0 .. n
      BY <1>1
    <3> QED BY <1>2, <3>1
  <2> HIDE DEF e, k, v
  <2>3. \A x : ContainsKey(e, x) \/ x = k => ContainsKey(Insert(e, k, v), x)
    <3>1. e \in Seq(STRING \X S)
      BY <2>2 DEF OnceSeq
    <3>2. CASE ContainsKey(e, k)
      <4> DEFINE p == PlaceIn(e, k)
      <4>1. p \in DOMAIN e /\ e[p][1] = k /\ Insert(e, k, v) = [e EXCEPT ![p] = <<k, v>>]
        BY <3>2, PlaceHasKey DEF Insert
      <4> HIDE DEF p
      <4>2. DOMAIN Insert(e, k, v) = DOMAIN e /\ \A m \in DOMAIN e : Insert(e, k, v)[m][1] = e[m][1]
        BY <4>1
      <4> QED BY <4>1, <4>2 DEF ContainsKey
    <3>3. CASE ~ContainsKey(e, k)
      <4>1. Insert(e, k, v) = Append(e, <<k, v>>)
        BY <3>3 DEF Insert
      <4> DEFINE u == Append(e, <<k, v>>)
      <4>2. /\ Len(e) \in Nat /\ DOMAIN e = 1 .. Len(e) /\ DOMAIN u = 1 .. Len(e) + 1
            /\ \A m \in 1 .. Len(e) : u[m] = e[m]
            /\ u[Len(e) + 1] = <<k, v>>
        <5>1. e \in Seq(STRING \X S)
          BY <3>1
        <5> DEFINE E == STRING \X S
                   F == E \cup {<<k, v>>}
        <5>2. e \in Seq(F) /\ <<k, v>> \in F
          <6>1. e \in Seq(E) /\ E \subseteq F
            BY <5>1
          <6> HIDE DEF E, F
          <6>2. e = [m \in 1 .. Len(e) |-> e[m]] /\ Len(e) \in Nat /\ \A m \in 1 .. Len(e) : e[m] \in F
            BY <6>1
          <6> QED BY <6>2 DEF F
        <5> HIDE DEF F
        <5>3. Appends(F, u, e, <<k, v>>)
          BY <5>2, SeqAppends
        <5>4. Len(e) \in Nat /\ DOMAIN e = 1 .. Len(e)
          BY <5>2, SeqParts
        <5> HIDE DEF u
        <5> QED BY <5>3, <5>4 DEF Appends
      <4> HIDE DEF u
      <4>3. Len(e) + 1 \in DOMAIN u /\ \A m \in DOMAIN e : m \in DOMAIN u
        BY <4>2
      <4>4. u[Len(e) + 1][1] = k /\ \A m \in DOMAIN e : u[m][1] = e[m][1]
        BY <4>2
      <4>5. \A x : ContainsKey(e, x) \/ x = k => ContainsKey(u, x)
        BY <4>3, <4>4 DEF ContainsKey
      <4> QED BY <4>1, <4>5 DEF u
    <3> QED BY <3>2, <3>3
  <2>4. \A j \in 1 .. i : j \in 1 .. i - 1 \/ j = i
    BY <1>1
  <2>5. \A j \in 1 .. i : ContainsKey(e, pairs[j][1]) \/ pairs[j][1] = k
    BY <2>1, <2>4 DEF k
  <2>6. \A j \in 1 .. i : ContainsKey(walk[i], pairs[j][1])
    BY <2>1, <2>3, <2>5
  <2> QED BY <2>6, <1>1
<1>6. n \in T
  <2> HIDE DEF T, n
  <2>1. \A i \in 0 .. n : i \in T
    BY <1>1, <1>4, <1>5, UpTo
  <2> QED BY <2>1, <1>1
<1>7. \A i \in DOMAIN pairs : ContainsKey(Inserted(pairs), pairs[i][1])
  BY <1>1, <1>2, <1>6
<1> QED BY <1>3, <1>7 DEF OnceSeq

\* Where no key comes twice the entries stay as they are.
LEMMA InsertedStays ==
  ASSUME NEW S, NEW pairs \in Seq(STRING \X S), KeysOnce(pairs)
  PROVE  Inserted(pairs) = pairs
<1> DEFINE n == Len(pairs)
           E == STRING \X S
<1>1. n \in Nat /\ DOMAIN pairs = 1 .. n /\ pairs \in Seq(E) /\ \A i \in 1 .. n : pairs[i] \in E
  <2>1. pairs \in Seq(E)
    OBVIOUS
  <2> HIDE DEF E
  <2> QED BY <2>1, SeqParts
<1>2. PICK walk \in [0 .. n -> OnceSeq(S)] :
        /\ walk[0] = <<>>
        /\ \A i \in 1 .. n : walk[i] = Insert(walk[i - 1], pairs[i][1], pairs[i][2])
        /\ walk[n] = Inserted(pairs)
  BY InsertedWalk DEF InsertedEnd
<1> DEFINE T == {i \in 0 .. n : Len(walk[i]) = i /\ \A j \in 1 .. i : walk[i][j] = pairs[j]}
<1>4. 0 \in T
  BY <1>1, <1>2
<1>5. ASSUME NEW i \in 1 .. n, i - 1 \in T
      PROVE  i \in T
  <2> DEFINE e == walk[i - 1]
             p == pairs[i]
  <2>1. walk[i] = Insert(e, p[1], p[2]) /\ Len(e) = i - 1 /\ \A j \in 1 .. i - 1 : e[j] = pairs[j]
    BY <1>2, <1>5
  <2>2. e \in Seq(E)
    <3>1. i - 1 \in 0 .. n
      BY <1>1
    <3> QED BY <1>2, <3>1 DEF OnceSeq
  <2>3. p \in E /\ p = <<p[1], p[2]>>
    BY <1>1
  <2>4. ~ContainsKey(e, p[1])
    <3> SUFFICES ASSUME NEW j \in DOMAIN e, e[j][1] = p[1]
                 PROVE  FALSE
      BY DEF ContainsKey
    <3>1. j \in 1 .. i - 1 /\ j \in 1 .. n /\ j # i /\ i \in 1 .. n
      <4> HIDE DEF E
      <4>1. DOMAIN e = 1 .. Len(e)
        BY <2>2, SeqParts
      <4> QED BY <4>1, <2>1, <1>1
    <3>2. pairs[j][1] = pairs[i][1]
      BY <3>1, <2>1
    <3> QED BY <3>1, <3>2, <1>1 DEF KeysOnce
  <2>5. walk[i] = Append(e, p)
    BY <2>1, <2>3, <2>4 DEF Insert
  <2> HIDE DEF e, p, E
  <2>6. Appends(E, walk[i], e, p)
    BY <2>2, <2>3, <2>5, SeqAppends
  <2>7. i \in 0 .. n /\ (i - 1) + 1 = i /\ \A j \in 1 .. i : j \in 1 .. i - 1 \/ j = i
    BY <1>1
  <2>8. Len(walk[i]) = i
    <3>1. DOMAIN walk[i] = 1 .. i /\ walk[i] \in Seq(E) /\ i \in Nat
      BY <2>6, <2>1, <2>7, <1>1 DEF Appends
    <3> QED BY <3>1
  <2>9. \A j \in 1 .. i : walk[i][j] = pairs[j]
    BY <2>6, <2>1, <2>7 DEF Appends, p
  <2> QED BY <2>7, <2>8, <2>9
<1>6. n \in T
  <2> HIDE DEF T, n
  <2>1. \A i \in 0 .. n : i \in T
    BY <1>1, <1>4, <1>5, UpTo
  <2> QED BY <2>1, <1>1
<1>7. Len(Inserted(pairs)) = n /\ \A j \in 1 .. n : Inserted(pairs)[j] = pairs[j]
  BY <1>2, <1>6
<1>8. Inserted(pairs) \in Seq(E)
  BY InsertedKeepsKeys
<1> HIDE DEF E
<1> QED BY <1>1, <1>7, <1>8

LEMMA InsertedIsEmpty ==
  ASSUME NEW S, NEW pairs \in Seq(STRING \X S)
  PROVE  Inserted(pairs) = <<>> <=> pairs = <<>>
<1>1. ASSUME pairs # <<>>
      PROVE  Inserted(pairs) # <<>>
  <2>1. 1 \in DOMAIN pairs
    BY <1>1
  <2>2. ContainsKey(Inserted(pairs), pairs[1][1])
    BY <2>1, InsertedKeepsKeys
  <2> QED BY <2>2 DEF ContainsKey
<1>2. ASSUME pairs = <<>>
      PROVE  Inserted(pairs) = <<>>
  <2>1. KeysOnce(pairs)
    BY <1>2 DEF KeysOnce
  <2> QED BY <2>1, <1>2, InsertedStays
<1> QED BY <1>1, <1>2

-----------------------------------------------------------------------------
(* A Value passed on *)

\* One step of Rebuilt, which goes on with f.
Rebuild(f, value) ==
  CASE value.kind = "Array" -> Array([i \in DOMAIN value.array |-> f[value.array[i]]])
    [] value.kind = "Document" ->
         Document(Inserted([i \in DOMAIN value.entries |->
                              <<value.entries[i][1], f[value.entries[i][2]]>>]))
    [] OTHER -> value

\* It depends on what is inside the value.
LEMMA RebuildLooksInside ==
  ASSUME NEW n \in 0 .. Nesting, NEW v \in Values[n], NEW f, NEW g,
         n # 0 => \A u \in Values[n - 1] : f[u] = g[u]
  PROVE  Rebuild(f, v) = Rebuild(g, v)
<1>1. CASE v \in Atom /\ v.kind \notin {"Array", "Document"}
  BY <1>1 DEF Rebuild
<1>2. CASE n \in 1 .. Nesting /\ v.kind = "Array" /\ v.array \in Seq(Values[n - 1])
  <2> DEFINE V == Values[n - 1]
             a == v.array
  <2>1. a \in Seq(V) /\ \A u \in V : f[u] = g[u]
    BY <1>2
  <2> HIDE DEF V, a
  <2>2. \A i \in DOMAIN a : f[a[i]] = g[a[i]]
    BY <2>1, SeqParts
  <2>3. [i \in DOMAIN a |-> f[a[i]]] = [i \in DOMAIN a |-> g[a[i]]]
    BY <2>2
  <2> QED BY <1>2, <2>3 DEF Rebuild, a
<1>3. CASE n \in 1 .. Nesting /\ v.kind = "Document" /\ v.entries \in Seq(STRING \X Values[n - 1])
  <2> DEFINE V == Values[n - 1]
             E == STRING \X V
             e == v.entries
  <2>1. e \in Seq(E) /\ \A u \in V : f[u] = g[u]
    BY <1>3
  <2>2. \A p \in E : f[p[2]] = g[p[2]]
    <3> HIDE DEF V
    <3> QED BY <2>1
  <2> HIDE DEF E, e
  <2>3. \A i \in DOMAIN e : f[e[i][2]] = g[e[i][2]]
    BY <2>1, <2>2, SeqParts
  <2>4. [i \in DOMAIN e |-> <<e[i][1], f[e[i][2]]>>] = [i \in DOMAIN e |-> <<e[i][1], g[e[i][2]]>>]
    BY <2>3
  <2> QED BY <1>3, <2>4 DEF Rebuild, e
<1> QED BY <1>1, <1>2, <1>3, ValueCases

LEMMA RebuiltIsRebuild ==
  \A v \in Value : Rebuilt[v] = Rebuild(Rebuilt, v)
<1> DEFINE Good(g, m) == \A v \in Values[m] : g[v] = Rebuild(g, v)
           Reached == {m \in 0 .. Nesting : \E g : Good(g, m)}
<1>1. Nesting \in Nat
  BY TypeAssumption
<1>2. 0 \in Reached
  <2> DEFINE g == [v \in Values[0] |-> v]
  <2>1. ASSUME NEW v \in Values[0]
        PROVE  g[v] = Rebuild(g, v)
    <3>1. v.kind \notin {"Array", "Document"}
      BY ValuesAreLevels, AtomKinds
    <3> QED BY <3>1 DEF Rebuild
  <2>2. Good(g, 0)
    BY <2>1
  <2> HIDE DEF Good, g
  <2> QED BY <1>1, <2>2
<1>3. ASSUME NEW m \in 1 .. Nesting, m - 1 \in Reached
      PROVE  m \in Reached
  <2>0. m \in 0 .. Nesting /\ m # 0 /\ m - 1 \in 0 .. m
    BY <1>1
  <2>1. PICK g : Good(g, m - 1)
    BY <1>3
  <2> DEFINE h == [v \in Values[m] |-> Rebuild(g, v)]
  <2>2. ASSUME NEW u \in Values[m - 1]
        PROVE  h[u] = g[u]
    <3>1. u \in Values[m]
      BY <2>0, LevelsGrow
    <3> QED BY <3>1, <2>1
  <2>3. ASSUME NEW v \in Values[m]
        PROVE  Rebuild(g, v) = Rebuild(h, v)
    <3> HIDE DEF h
    <3> QED BY <2>0, <2>2, RebuildLooksInside
  <2>4. Good(h, m)
    BY <2>3
  <2> HIDE DEF Good, h
  <2> QED BY <2>4, <2>0
<1>4. Nesting \in Reached
  <2> HIDE DEF Reached
  <2> QED BY <1>1, <1>2, <1>3, UpTo
<1>5. PICK g : Good(g, Nesting)
  BY <1>4
<1> DEFINE f == [v \in Value |-> Rebuild(g, v)]
<1>6. \A v \in Value : f[v] = g[v]
  BY <1>5 DEF Value
<1>7. f = [v \in Value |-> Rebuild(f, v)]
  <2>1. ASSUME NEW v \in Value
        PROVE  Rebuild(g, v) = Rebuild(f, v)
    <3> HIDE DEF f
    <3>1. Nesting # 0 => \A u \in Values[Nesting - 1] : g[u] = f[u]
      <4>1. Nesting # 0 => Nesting - 1 \in 0 .. Nesting
        BY <1>1
      <4> QED BY <4>1, <1>6, ValueIsTop
    <3> QED BY <3>1, ValueIsTop, RebuildLooksInside DEF Value
  <2> QED BY <2>1
<1> HIDE DEF f
<1>8. f = [value \in Value |->
  CASE value.kind = "Array" -> Array([i \in DOMAIN value.array |-> f[value.array[i]]])
    [] value.kind = "Document" ->
         Document(Inserted([i \in DOMAIN value.entries |->
                              <<value.entries[i][1], f[value.entries[i][2]]>>]))
    [] OTHER -> value]
  BY <1>7 DEF Rebuild
<1>9. Rebuilt = [value \in Value |->
  CASE value.kind = "Array" -> Array([i \in DOMAIN value.array |-> Rebuilt[value.array[i]]])
    [] value.kind = "Document" ->
         Document(Inserted([i \in DOMAIN value.entries |->
                              <<value.entries[i][1], Rebuilt[value.entries[i][2]]>>]))
    [] OTHER -> value]
  BY <1>8 DEF Rebuilt
<1>10. Rebuilt = [v \in Value |-> Rebuild(Rebuilt, v)]
  BY <1>9 DEF Rebuild
<1> QED BY <1>10

\* It comes out unambiguous, at every depth, and as it was where it was unambiguous.
LEMMA RebuiltKeepsKeys ==
  ASSUME NEW n \in 0 .. Nesting, NEW v \in Values[n]
  PROVE  Rebuilt[v] \in Unambiguous[n] /\ (v \in Unambiguous[n] => Rebuilt[v] = v)
<1> DEFINE Good(k) == \A u \in Values[k] :
                        Rebuilt[u] \in Unambiguous[k] /\ (u \in Unambiguous[k] => Rebuilt[u] = u)
           S == {k \in 0 .. Nesting : Good(k)}
<1>1. Nesting \in Nat
  BY TypeAssumption
<1>2. ASSUME NEW k \in 0 .. Nesting, NEW u \in Values[k]
      PROVE  /\ Rebuilt[u] = Rebuild(Rebuilt, u)
             /\ u \in Atom => Rebuilt[u] = u /\ u \in Unambiguous[k]
  <2>1. u \in Value
    BY ValueIsTop
  <2>2. u \in Atom => u.kind \notin {"Array", "Document"}
    BY AtomKinds
  <2> QED BY <2>1, <2>2, RebuiltIsRebuild, AtomsInside DEF Rebuild
<1>3. 0 \in S
  <2>1. 0 \in 0 .. Nesting
    BY <1>1
  <2> QED BY <2>1, <1>2, ValuesAreLevels
<1>4. ASSUME NEW k \in 1 .. Nesting, k - 1 \in S
      PROVE  k \in S
  <2> DEFINE V == Values[k - 1]
             U == Unambiguous[k - 1]
  <2>0. k \in 0 .. Nesting /\ k - 1 \in 0 .. Nesting
    BY <1>1
  <2>1. \A u \in V : Rebuilt[u] \in U /\ (u \in U => Rebuilt[u] = u)
    BY <1>4
  <2>2. ASSUME NEW u \in Values[k]
        PROVE  Rebuilt[u] \in Unambiguous[k] /\ (u \in Unambiguous[k] => Rebuilt[u] = u)
    <3>1. Rebuilt[u] = Rebuild(Rebuilt, u)
      BY <2>0, <1>2
    <3>2. CASE u \in Atom
      BY <2>0, <1>2, <3>2
    <3>3. CASE u.kind = "Array" /\ u = Array(u.array) /\ u.array \in Seq(V)
      <4> DEFINE a == u.array
                 b == [i \in DOMAIN a |-> Rebuilt[a[i]]]
      <4>1. Rebuilt[u] = Array(b)
        BY <3>1, <3>3 DEF Rebuild
      <4>2. a \in Seq(V) /\ u = Array(a)
        BY <3>3
      <4> HIDE DEF a, V, U
      <4>3. Len(a) \in Nat /\ DOMAIN a = 1 .. Len(a) /\ \A i \in DOMAIN a : a[i] \in V
        BY <4>2, SeqParts
      <4>4. DOMAIN b = 1 .. Len(a) /\ b = [i \in 1 .. Len(a) |-> b[i]] /\ \A i \in 1 .. Len(a) : b[i] \in U
        BY <4>3, <2>1
      <4>5. b \in Seq(U)
        <5> HIDE DEF b
        <5> QED BY <4>3, <4>4, SeqMade
      <4>6. Array(b) \in Unambiguous[k]
        BY <4>5, UnambiguousMade DEF U
      <4>7. ASSUME u \in Unambiguous[k]
            PROVE  a = b
        <5>1. a \in Seq(U)
          BY <2>0, <4>7, <3>3, UnambiguousCases DEF a, U
        <5>2. \A i \in DOMAIN a : a[i] \in U /\ a[i] \in V
          BY <5>1, <4>3, SeqParts
        <5>3. \A i \in DOMAIN a : a[i] = Rebuilt[a[i]]
          BY <5>2, <2>1
        <5>4. a = [i \in DOMAIN a |-> a[i]]
          BY <4>2
        <5> QED BY <5>3, <5>4
      <4> QED BY <4>1, <4>2, <4>6, <4>7
    <3>4. CASE u.kind = "Document" /\ u = Document(u.entries) /\ u.entries \in Seq(STRING \X V)
      <4> DEFINE e == u.entries
                 b == [i \in DOMAIN e |-> <<e[i][1], Rebuilt[e[i][2]]>>]
                 E == STRING \X V
      <4>1. Rebuilt[u] = Document(Inserted(b))
        BY <3>1, <3>4 DEF Rebuild
      <4>2. e \in Seq(E) /\ u = Document(e)
        BY <3>4
      <4> HIDE DEF e
      <4>3. Len(e) \in Nat /\ DOMAIN e = 1 .. Len(e) /\ \A i \in DOMAIN e : e[i] \in E
        <5> HIDE DEF E
        <5> QED BY <4>2, SeqParts
      <4>4. \A i \in DOMAIN e : e[i][1] \in STRING /\ e[i][2] \in V /\ e[i] = <<e[i][1], e[i][2]>>
        <5> HIDE DEF V
        <5> QED BY <4>3
      <4> HIDE DEF V, U
      <4>5. b \in Seq(STRING \X U)
        <5>1. \A i \in 1 .. Len(e) : b[i] \in STRING \X U
          BY <4>3, <4>4, <2>1
        <5>2. DOMAIN b = 1 .. Len(e) /\ b = [i \in 1 .. Len(e) |-> b[i]]
          BY <4>3
        <5> DEFINE F == STRING \X U
        <5> HIDE DEF b, F
        <5>3. b \in Seq(F)
          BY <4>3, <5>1, <5>2, SeqMade DEF F
        <5> QED BY <5>3 DEF F
      <4>6. Inserted(b) \in Seq(STRING \X U) /\ KeysOnce(Inserted(b))
        <5> HIDE DEF b
        <5> QED BY <4>5, InsertedKeepsKeys
      <4>7. Document(Inserted(b)) \in Unambiguous[k]
        <5> HIDE DEF b
        <5> QED BY <4>6, UnambiguousMade DEF U
      <4>8. ASSUME u \in Unambiguous[k]
            PROVE  e = Inserted(b)
        <5>1. e \in Seq(STRING \X U) /\ KeysOnce(e)
          BY <2>0, <4>8, <3>4, UnambiguousCases DEF e, U
        <5>2. \A i \in DOMAIN e : e[i][2] \in U
          <6> DEFINE F == STRING \X U
          <6>1. \A i \in DOMAIN e : e[i] \in F
            <7>1. e \in Seq(F)
              BY <5>1
            <7> HIDE DEF F
            <7> QED BY <7>1, SeqParts
          <6> QED BY <6>1
        <5>3. \A i \in DOMAIN e : e[i] = <<e[i][1], Rebuilt[e[i][2]]>>
          BY <5>2, <4>4, <2>1
        <5>4. e = [i \in DOMAIN e |-> e[i]]
          <6> HIDE DEF E
          <6> QED BY <4>2
        <5>5. e = b
          BY <5>3, <5>4
        <5> HIDE DEF b
        <5> QED BY <5>5, <5>1, InsertedStays
      <4> HIDE DEF b
      <4> QED BY <4>1, <4>2, <4>7, <4>8
    <3> QED BY <3>2, <3>3, <3>4, <2>0, ValueCases
  <2> QED BY <2>0, <2>2
<1>5. n \in S
  <2> HIDE DEF S
  <2> QED BY <1>1, <1>3, <1>4, UpTo
<1> QED BY <1>5

\* So the unambiguous values are those it leaves alone.
LEMMA RebuiltStays ==
  ASSUME NEW v \in Value
  PROVE  /\ Rebuilt[v] \in Unambiguous[Nesting]
         /\ Rebuilt[v] = v <=> v \in Unambiguous[Nesting]
BY ValueIsTop, RebuiltKeepsKeys DEF Value

-----------------------------------------------------------------------------
(* Results *)

Result(r) == r.ok \in BOOLEAN /\ (r.ok => r = Ok(r.value))

LEMMA ResultsMade ==
  /\ \A x : Result(Ok(x)) /\ Ok(x).ok /\ Ok(x).value = x
  /\ \A why : Result(Error(why)) /\ ~Error(why).ok
  /\ \A x, y : Ok(x) = Ok(y) => x = y
  /\ \A x, why : Ok(x) # Error(why)
<1>1. \A x : Ok(x).ok = TRUE /\ Ok(x).value = x
  BY DEF Ok
<1>2. \A why : Error(why).ok = FALSE
  BY DEF Error
<1>3. (\A x : Result(Ok(x)) /\ Ok(x).ok) /\ (\A why : Result(Error(why)) /\ ~Error(why).ok)
  BY <1>1, <1>2 DEF Result
<1> QED BY <1>1, <1>2, <1>3

\* A result is the Ok of x where it is ok and has x.
LEMMA ResultIsOk ==
  ASSUME NEW r, Result(r), NEW x
  PROVE  r = Ok(x) <=> r.ok /\ r.value = x
BY ResultsMade DEF Result

\* A loop over results is ok where each is, and has their values.
LEMMA CollectedResults ==
  ASSUME NEW results, DOMAIN results \subseteq Nat, \A i \in DOMAIN results : Result(results[i])
  PROVE  /\ Result(Collected(results))
         /\ Collected(results).ok <=> \A i \in DOMAIN results : results[i].ok
         /\ Collected(results).ok =>
              Collected(results).value = [i \in DOMAIN results |-> results[i].value]
<1> DEFINE failed == {i \in DOMAIN results : ~results[i].ok}
<1>1. CASE failed = {}
  <2>1. Collected(results) = Ok([i \in DOMAIN results |-> results[i].value])
    BY <1>1 DEF Collected
  <2>2. \A i \in DOMAIN results : results[i].ok
    BY <1>1
  <2> QED BY <2>1, <2>2, ResultsMade
<1>2. CASE failed # {}
  <2>1. failed \in SUBSET Nat
    OBVIOUS
  <2> DEFINE k == CHOOSE i \in failed : \A j \in failed : i <= j
  <2>2. Collected(results) = results[k]
    BY <1>2 DEF Collected
  <2> HIDE DEF failed
  <2>3. k \in failed
    BY <1>2, <2>1, LeastExists
  <2> HIDE DEF k
  <2>4. k \in DOMAIN results /\ ~results[k].ok
    BY <2>3 DEF failed
  <2> QED BY <2>2, <2>4
<1> QED BY <1>1, <1>2

\* So it is the Ok of a function where each result is the Ok of its value.
LEMMA CollectedIsOk ==
  ASSUME NEW results, DOMAIN results \subseteq Nat, \A i \in DOMAIN results : Result(results[i]),
         NEW f, DOMAIN f = DOMAIN results, f = [i \in DOMAIN f |-> f[i]]
  PROVE  Collected(results) = Ok(f) <=> \A i \in DOMAIN results : results[i] = Ok(f[i])
<1> DEFINE c == Collected(results)
           D == DOMAIN results
           g == [i \in D |-> results[i].value]
<1>1. Result(c) /\ (c.ok <=> \A i \in D : results[i].ok) /\ (c.ok => c.value = g)
  BY CollectedResults
<1> HIDE DEF c
<1>2. g = f <=> \A i \in D : results[i].value = f[i]
  <2>1. f = [i \in D |-> f[i]]
    OBVIOUS
  <2>2. ASSUME \A i \in D : results[i].value = f[i]
        PROVE  g = f
    BY <2>1, <2>2
  <2>3. ASSUME g = f, NEW i \in D
        PROVE  results[i].value = f[i]
    <3>1. g[i] = results[i].value
      OBVIOUS
    <3> QED BY <2>3, <3>1
  <2> QED BY <2>2, <2>3
<1>3. \A i \in D : results[i] = Ok(f[i]) <=> results[i].ok /\ results[i].value = f[i]
  BY ResultIsOk
<1>4. c = Ok(f) <=> c.ok /\ c.value = f
  BY <1>1, ResultIsOk
<1> HIDE DEF g, D
<1>5. c = Ok(f) <=> (\A i \in D : results[i].ok) /\ \A i \in D : results[i].value = f[i]
  BY <1>1, <1>2, <1>4
<1>6. c = Ok(f) <=> \A i \in D : results[i] = Ok(f[i])
  BY <1>3, <1>5
<1> QED BY <1>6 DEF c, D

-----------------------------------------------------------------------------
(* Types and their parts *)

LEMMA PartsOf ==
  ASSUME NEW t \in Types
  PROVE  /\ t.t \in TypeName /\ Depth(t) \in 1 .. Nesting
         /\ \A p \in Parts(t) : p \in Types /\ Depth(p) \in 0 .. Depth(t) - 1
         /\ t.t \in {"option", "newtype", "seq"} => t.of \in Parts(t)
         /\ t.t = "tuple" => t.of \in Seq(Types) /\ \A i \in DOMAIN t.of : t.of[i] \in Parts(t)
         /\ t.t = "map" => t.key \in Parts(t) /\ t.of \in Parts(t)
         /\ t.t = "struct" => /\ t.fields \in Seq(STRING \X Types)
                              /\ \A i \in DOMAIN t.fields : t.fields[i][2] \in Parts(t)
         /\ t.t = "enum" => \A v \in DOMAIN t.variants : t.variants[v] \in Parts(t)
<1>1. t.t \in TypeName /\ Depth(t) \in 1 .. Nesting
  BY TypeAssumption
<1>2. ASSUME NEW p \in Parts(t)
      PROVE  p \in Types /\ Depth(p) \in 0 .. Depth(t) - 1
  <2>1. p \in Types /\ Depth(p) < Depth(t)
    BY TypeAssumption
  <2>2. Depth(p) \in 1 .. Nesting /\ Nesting \in Nat
    BY <2>1, TypeAssumption
  <2> QED BY <2>1, <2>2, <1>1
<1>3. t.t \in {"option", "newtype", "seq"} => t.of \in Parts(t)
  BY DEF Parts
<1>4. t.t = "tuple" => t.of \in Seq(Types) /\ \A i \in DOMAIN t.of : t.of[i] \in Parts(t)
  BY TypeAssumption DEF Parts, Range
<1>5. t.t = "map" => t.key \in Parts(t) /\ t.of \in Parts(t)
  BY DEF Parts
<1>6. t.t = "struct" => /\ t.fields \in Seq(STRING \X Types)
                        /\ \A i \in DOMAIN t.fields : t.fields[i][2] \in Parts(t)
  BY TypeAssumption DEF Parts, Range
<1>7. t.t = "enum" => \A v \in DOMAIN t.variants : t.variants[v] \in Parts(t)
  BY DEF Parts
<1> QED BY <1>1, <1>2, <1>3, <1>4, <1>5, <1>6, <1>7

\* What holds of a type where it holds of its parts holds of all.
LEMMA TypeInduction ==
  ASSUME NEW S, \A t \in Types : Parts(t) \subseteq S => t \in S
  PROVE  \A t \in Types : t \in S
<1> DEFINE T == {m \in 0 .. Nesting : \A t \in Types : Depth(t) <= m => t \in S}
<1>1. Nesting \in Nat
  BY TypeAssumption
<1>2. 0 \in T
  BY <1>1, PartsOf
<1>3. ASSUME NEW m \in 1 .. Nesting, m - 1 \in T
      PROVE  m \in T
  <2> SUFFICES ASSUME NEW t \in Types, Depth(t) <= m
               PROVE  t \in S
    BY <1>1
  <2>1. ASSUME NEW p \in Parts(t)
        PROVE  p \in S
    <3>1. p \in Types /\ Depth(p) \in 0 .. Depth(t) - 1 /\ Depth(t) \in 1 .. Nesting
      BY PartsOf
    <3>2. Depth(p) <= m - 1
      BY <3>1, <1>1
    <3> QED BY <3>1, <3>2, <1>3
  <2> QED BY <2>1
<1>4. Nesting \in T
  <2> HIDE DEF T
  <2> QED BY <1>1, <1>2, <1>3, UpTo
<1> QED BY <1>4, <1>1, PartsOf

-----------------------------------------------------------------------------
(* What the program holds *)

LEMMA HeldIsOf ==
  ASSUME NEW t \in Types, NEW x \in Held(t)
  PROVE  IsOf(t, x)
<1>1. CASE t.t = "any"
  <2>1. x \in Values[Depth(t)]
    BY <1>1 DEF Held
  <2> QED BY <1>1, <2>1 DEF IsOf, IntType
<1>2. CASE t.t # "any"
  BY <1>2, DataAssumption DEF Held
<1> QED BY <1>1, <1>2

\* Values of the atomic types.
LEMMA HeldAtoms ==
  ASSUME NEW t \in Types, NEW x \in Held(t)
  PROVE  /\ t.t = "any" => x \in Values[Depth(t)] /\ x \in Value
         /\ t.t = "unit" => x = <<>>
         /\ t.t = "bool" => x \in BOOLEAN
         /\ t.t \in IntType => x \in RangeOf(t.t)
         /\ t.t = "f64" => x \in Int
         /\ t.t \in {"str", "char"} => x \in STRING
         /\ t.t = "char" => x \in Char
         /\ t.t = "bytes" => x \in Seq(0 .. Byte - 1)
<1>1. IsOf(t, x)
  BY HeldIsOf
<1>2. t.t = "any" => x \in Values[Depth(t)]
  BY <1>1 DEF IsOf, IntType
<1>3. Depth(t) \in 0 .. Nesting
  <2>1. Depth(t) \in 1 .. Nesting /\ Nesting \in Nat
    BY PartsOf, TypeAssumption
  <2> QED BY <2>1
<1>4. t.t = "any" => x \in Value
  BY <1>2, <1>3, ValueIsTop
<1>5. /\ t.t = "unit" => x = <<>>
      /\ t.t = "bool" => x \in BOOLEAN
      /\ t.t \in IntType => x \in RangeOf(t.t)
      /\ t.t = "f64" => x \in Int
      /\ t.t = "str" => x \in STRING
      /\ t.t = "char" => x \in Char
      /\ t.t = "bytes" => x \in Seq(0 .. Byte - 1)
  BY <1>1 DEF IsOf, IntType
<1>6. Char \subseteq STRING
  BY CharAssumption
<1> QED BY <1>2, <1>4, <1>5, <1>6

\* Values of the types that are built from others.
LEMMA HeldParts ==
  ASSUME NEW t \in Types, NEW x \in Held(t)
  PROVE  /\ t.t = "newtype" => x \in Held(t.of)
         /\ t.t = "option" => x = <<>> \/ (x = <<x[1]>> /\ x[1] \in Held(t.of) /\ DOMAIN x = {1})
         /\ t.t = "seq" => x \in Seq(Held(t.of))
         /\ t.t = "tuple" => /\ x = [i \in DOMAIN x |-> x[i]] /\ DOMAIN x = DOMAIN t.of
                             /\ \A i \in DOMAIN x : x[i] \in Held(t.of[i])
         /\ t.t = "map" => x \in Seq(Held(t.key) \X Held(t.of)) /\ KeysOnce(x)
         /\ t.t = "struct" => /\ x = [i \in DOMAIN x |-> x[i]] /\ DOMAIN x = DOMAIN t.fields
                              /\ \A i \in DOMAIN x : x[i] \in Held(t.fields[i][2])
         /\ t.t = "enum" => /\ x = [variant |-> x.variant, data |-> x.data]
                            /\ x.variant \in DOMAIN t.variants
                            /\ x.data \in Held(t.variants[x.variant])
<1>1. IsOf(t, x)
  BY HeldIsOf
<1>2. t.t = "newtype" => x \in Held(t.of)
  BY <1>1 DEF IsOf, IntType
<1>3. ASSUME t.t = "option"
      PROVE  x = <<>> \/ (x = <<x[1]>> /\ x[1] \in Held(t.of) /\ DOMAIN x = {1})
  <2> DEFINE H == Held(t.of)
  <2>1. x \in Seq(H) /\ Len(x) <= 1
    BY <1>1, <1>3 DEF IsOf, IntType
  <2> HIDE DEF H
  <2>2. CASE Len(x) = 0
    BY <2>1, <2>2
  <2>3. CASE Len(x) = 1
    <3>1. x[1] \in H /\ DOMAIN x = 1 .. 1
      BY <2>1, <2>3
    <3>2. x = <<x[1]>>
      BY <2>1, <2>3
    <3> QED BY <3>1, <3>2 DEF H
  <2>4. Len(x) = 0 \/ Len(x) = 1
    <3>1. Len(x) \in Nat
      BY <2>1, SeqParts
    <3>2. Len(x) <= 1
      BY <2>1
    <3> DEFINE l == Len(x)
    <3> HIDE DEF l
    <3> QED BY <3>1, <3>2 DEF l
  <2> QED BY <2>2, <2>3, <2>4
<1>4. t.t = "seq" => x \in Seq(Held(t.of))
  BY <1>1 DEF IsOf, IntType
<1>5. ASSUME t.t = "tuple"
      PROVE  /\ x = [i \in DOMAIN x |-> x[i]] /\ DOMAIN x = DOMAIN t.of
             /\ \A i \in DOMAIN x : x[i] \in Held(t.of[i])
  <2>1. x = [i \in DOMAIN t.of |-> x[i]] /\ \A i \in DOMAIN x : x[i] \in Held(t.of[i])
    BY <1>1, <1>5 DEF IsOf, IntType
  <2> QED BY <2>1
<1>6. t.t = "map" => x \in Seq(Held(t.key) \X Held(t.of)) /\ KeysOnce(x)
  BY <1>1 DEF IsOf, IntType, KeysOnce
<1>7. ASSUME t.t = "struct"
      PROVE  /\ x = [i \in DOMAIN x |-> x[i]] /\ DOMAIN x = DOMAIN t.fields
             /\ \A i \in DOMAIN x : x[i] \in Held(t.fields[i][2])
  <2>1. x = [i \in DOMAIN t.fields |-> x[i]] /\ \A i \in DOMAIN x : x[i] \in Held(t.fields[i][2])
    BY <1>1, <1>7 DEF IsOf, IntType
  <2> QED BY <2>1
<1>8. t.t = "enum" => /\ x = [variant |-> x.variant, data |-> x.data]
                      /\ x.variant \in DOMAIN t.variants
                      /\ x.data \in Held(t.variants[x.variant])
  BY <1>1 DEF IsOf, IntType
<1> QED BY <1>2, <1>3, <1>4, <1>5, <1>6, <1>7, <1>8

-----------------------------------------------------------------------------
(* The steps of the recursions over types *)

SameOnParts(f, g, t) == \A p \in Parts(t) : f[p] = g[p]

LEMMA TypeNames ==
  ASSUME NEW t \in Types
  PROVE  \/ t.t = "any" \/ t.t = "unit" \/ t.t = "bool" \/ t.t \in IntType \/ t.t = "f64"
         \/ t.t \in {"str", "char"} \/ t.t = "bytes" \/ t.t = "option" \/ t.t = "newtype"
         \/ t.t = "seq" \/ t.t = "tuple" \/ t.t = "map" \/ t.t = "struct" \/ t.t = "enum"
BY PartsOf DEF TypeName, Composite

LEMMA SerializeLooksInside ==
  ASSUME NEW t \in Types, NEW x \in Held(t), NEW f, NEW g, SameOnParts(f, g, t)
  PROVE  SerializeAs(f, t, x) = SerializeAs(g, t, x)
<1>1. CASE \/ t.t = "any" \/ t.t = "unit" \/ t.t = "bool" \/ t.t \in IntType \/ t.t = "f64"
           \/ t.t \in {"str", "char"} \/ t.t = "bytes"
  BY <1>1 DEF SerializeAs, IntType
<1>2. CASE t.t \in {"option", "newtype", "seq"}
  <2>1. f[t.of] = g[t.of]
    BY <1>2, PartsOf DEF SameOnParts
  <2> QED BY <1>2, <2>1 DEF SerializeAs, IntType, SerializeOption
<1>3. CASE t.t = "tuple"
  <2>1. \A i \in DOMAIN x : f[t.of[i]] = g[t.of[i]]
    BY <1>3, PartsOf, HeldParts DEF SameOnParts
  <2>2. [i \in DOMAIN x |-> f[t.of[i]][x[i]]] = [i \in DOMAIN x |-> g[t.of[i]][x[i]]]
    BY <2>1
  <2> QED BY <1>3, <2>2 DEF SerializeAs, IntType
<1>4. CASE t.t = "map"
  <2>1. f[t.of] = g[t.of]
    BY <1>4, PartsOf DEF SameOnParts
  <2> QED BY <1>4, <2>1 DEF SerializeAs, IntType, SerializeMap
<1>5. CASE t.t = "struct"
  <2>1. \A i \in DOMAIN x : f[t.fields[i][2]] = g[t.fields[i][2]]
    BY <1>5, PartsOf, HeldParts DEF SameOnParts
  <2>2. [i \in DOMAIN x |-> f[t.fields[i][2]][x[i]]] = [i \in DOMAIN x |-> g[t.fields[i][2]][x[i]]]
    BY <2>1
  <2> QED BY <1>5, <2>2 DEF SerializeAs, IntType, SerializeStruct
<1>6. CASE t.t = "enum"
  <2>1. f[t.variants[x.variant]] = g[t.variants[x.variant]]
    BY <1>6, PartsOf, HeldParts DEF SameOnParts
  <2> QED BY <1>6, <2>1 DEF SerializeAs, IntType, SerializeEnum
<1> QED BY <1>1, <1>2, <1>3, <1>4, <1>5, <1>6, TypeNames

LEMMA DeserializeLooksInside ==
  ASSUME NEW t \in Types, NEW v, NEW f, NEW g, SameOnParts(f, g, t)
  PROVE  DeserializeAs(f, t, v) = DeserializeAs(g, t, v)
<1>1. CASE \/ t.t = "any" \/ t.t = "unit" \/ t.t = "bool" \/ t.t \in IntType \/ t.t = "f64"
           \/ t.t \in {"str", "char"} \/ t.t = "bytes"
  BY <1>1 DEF DeserializeAs, IntType
<1>2. CASE t.t \in {"option", "newtype", "seq"}
  <2>1. f[t.of] = g[t.of]
    BY <1>2, PartsOf DEF SameOnParts
  <2> QED BY <1>2, <2>1 DEF DeserializeAs, IntType, DeserializeOption, DeserializeAll
<1>3. CASE t.t = "tuple"
  <2>1. \A i \in DOMAIN t.of : f[t.of[i]] = g[t.of[i]]
    BY <1>3, PartsOf DEF SameOnParts
  <2>2. [i \in DOMAIN t.of |-> f[t.of[i]][v.array[i]]] = [i \in DOMAIN t.of |-> g[t.of[i]][v.array[i]]]
    BY <2>1
  <2>3. DeserializeTuple(f, t.of, v.array) = DeserializeTuple(g, t.of, v.array)
    BY <2>2 DEF DeserializeTuple
  <2> QED BY <1>3, <2>3 DEF DeserializeAs, IntType
<1>4. CASE t.t = "map"
  <2>1. f[t.of] = g[t.of] /\ f[t.key] = g[t.key]
    BY <1>4, PartsOf DEF SameOnParts
  <2> QED BY <1>4, <2>1 DEF DeserializeAs, IntType, DeserializeMap
<1>5. CASE t.t = "struct"
  <2>1. \A i \in DOMAIN t.fields : f[t.fields[i][2]] = g[t.fields[i][2]]
    BY <1>5, PartsOf DEF SameOnParts
  <2>2. \A i \in DOMAIN t.fields :
          DeserializeField(f, t.fields[i], v.entries) = DeserializeField(g, t.fields[i], v.entries)
    BY <2>1 DEF DeserializeField
  <2>3. DeserializeStruct(f, t, v.entries) = DeserializeStruct(g, t, v.entries)
    BY <2>2 DEF DeserializeStruct
  <2> QED BY <1>5, <2>3 DEF DeserializeAs, IntType
<1>6. CASE t.t = "enum"
  <2>1. \A w \in DOMAIN t.variants : f[t.variants[w]] = g[t.variants[w]]
    BY <1>6, PartsOf DEF SameOnParts
  <2>2. \A w, u : DeserializeVariant(f, t, w, u) = DeserializeVariant(g, t, w, u)
    BY <2>1 DEF DeserializeVariant
  <2> QED BY <1>6, <2>2 DEF DeserializeAs, IntType, DeserializeEnum
<1> QED BY <1>1, <1>2, <1>3, <1>4, <1>5, <1>6, TypeNames

-----------------------------------------------------------------------------
(* The recursions over types *)

LEMMA BareSteps ==
  DOMAIN Bare = Types /\ \A t \in Types : Bare[t] = (IF t.t = "newtype" THEN Bare[t.of] ELSE t)
<1> DEFINE Step(f, t) == (IF t.t = "newtype" THEN f[t.of] ELSE t)
           Good(g, m) == \A t \in Types : Depth(t) <= m => g[t] = Step(g, t)
           Reached == {m \in 0 .. Nesting : \E g : Good(g, m)}
<1>1. Nesting \in Nat /\ \A t \in Types : Depth(t) \in 1 .. Nesting
  BY TypeAssumption, PartsOf
<1>2. ASSUME NEW t \in Types, NEW f, NEW g, \A p \in Parts(t) \cap Types : f[p] = g[p]
      PROVE  Step(f, t) = Step(g, t)
  BY <1>2, PartsOf
<1> HIDE DEF Step
<1>3. 0 \in Reached
  <2>1. Good(<<>>, 0)
    BY <1>1
  <2> HIDE DEF Good
  <2> QED BY <1>1, <2>1
<1>4. ASSUME NEW m \in 1 .. Nesting, m - 1 \in Reached
      PROVE  m \in Reached
  <2>1. PICK g : Good(g, m - 1)
    BY <1>4
  <2> DEFINE h == [t \in Types |-> Step(g, t)]
  <2>2. ASSUME NEW t \in Types, Depth(t) <= m
        PROVE  h[t] = Step(h, t)
    <3>1. ASSUME NEW p \in Parts(t) \cap Types
          PROVE  g[p] = h[p]
      <4>1. Depth(p) \in 0 .. Depth(t) - 1 /\ Depth(t) \in 1 .. Nesting
        BY PartsOf, <1>1
      <4>2. Depth(p) <= m - 1
        BY <4>1, <2>2, <1>1
      <4> QED BY <4>2, <2>1
    <3>2. Step(g, t) = Step(h, t)
      <4> HIDE DEF h
      <4> QED BY <3>1, <1>2
    <3> QED BY <3>2
  <2>3. Good(h, m)
    BY <2>2
  <2> HIDE DEF Good, h
  <2> QED BY <2>3, <1>1
<1>5. Nesting \in Reached
  <2> HIDE DEF Reached
  <2> QED BY <1>1, <1>3, <1>4, UpTo
<1>6. PICK g : \A t \in Types : g[t] = Step(g, t)
  <2>1. PICK g : Good(g, Nesting)
    BY <1>5
  <2> QED BY <2>1, <1>1
<1> DEFINE f == [t \in Types |-> Step(g, t)]
<1>7. f = [t \in Types |-> Step(f, t)]
  <2>1. \A t \in Types : f[t] = g[t]
    BY <1>6
  <2>2. \A t \in Types : Step(g, t) = Step(f, t)
    <3> HIDE DEF f
    <3> QED BY <2>1, <1>2
  <2> QED BY <2>2
<1> HIDE DEF f
<1>8. Bare = [t \in Types |-> (IF t.t = "newtype" THEN Bare[t.of] ELSE t)]
  BY <1>7 DEF Step, Bare
<1> QED BY <1>8

LEMMA SerializeSteps ==
  DOMAIN Serialize = Types /\ \A t \in Types : Serialize[t] = [x \in Held(t) |-> SerializeAs(Serialize, t, x)]
<1> DEFINE Step(f, t) == [x \in Held(t) |-> SerializeAs(f, t, x)]
           Good(g, m) == \A t \in Types : Depth(t) <= m => g[t] = Step(g, t)
           Reached == {m \in 0 .. Nesting : \E g : Good(g, m)}
<1>1. Nesting \in Nat /\ \A t \in Types : Depth(t) \in 1 .. Nesting
  BY TypeAssumption, PartsOf
<1>2. ASSUME NEW t \in Types, NEW f, NEW g, \A p \in Parts(t) \cap Types : f[p] = g[p]
      PROVE  Step(f, t) = Step(g, t)
  <2>1. SameOnParts(f, g, t)
    BY <1>2, PartsOf DEF SameOnParts
  <2>2. \A x \in Held(t) : SerializeAs(f, t, x) = SerializeAs(g, t, x)
    BY <2>1, SerializeLooksInside
  <2> QED BY <2>2
<1> HIDE DEF Step
<1>3. 0 \in Reached
  <2>1. Good(<<>>, 0)
    BY <1>1
  <2> HIDE DEF Good
  <2> QED BY <1>1, <2>1
<1>4. ASSUME NEW m \in 1 .. Nesting, m - 1 \in Reached
      PROVE  m \in Reached
  <2>1. PICK g : Good(g, m - 1)
    BY <1>4
  <2> DEFINE h == [t \in Types |-> Step(g, t)]
  <2>2. ASSUME NEW t \in Types, Depth(t) <= m
        PROVE  h[t] = Step(h, t)
    <3>1. ASSUME NEW p \in Parts(t) \cap Types
          PROVE  g[p] = h[p]
      <4>1. Depth(p) \in 0 .. Depth(t) - 1 /\ Depth(t) \in 1 .. Nesting
        BY PartsOf, <1>1
      <4>2. Depth(p) <= m - 1
        BY <4>1, <2>2, <1>1
      <4> QED BY <4>2, <2>1
    <3>2. Step(g, t) = Step(h, t)
      <4> HIDE DEF h
      <4> QED BY <3>1, <1>2
    <3> QED BY <3>2
  <2>3. Good(h, m)
    BY <2>2
  <2> HIDE DEF Good, h
  <2> QED BY <2>3, <1>1
<1>5. Nesting \in Reached
  <2> HIDE DEF Reached
  <2> QED BY <1>1, <1>3, <1>4, UpTo
<1>6. PICK g : \A t \in Types : g[t] = Step(g, t)
  <2>1. PICK g : Good(g, Nesting)
    BY <1>5
  <2> QED BY <2>1, <1>1
<1> DEFINE f == [t \in Types |-> Step(g, t)]
<1>7. f = [t \in Types |-> Step(f, t)]
  <2>1. \A t \in Types : f[t] = g[t]
    BY <1>6
  <2>2. \A t \in Types : Step(g, t) = Step(f, t)
    <3> HIDE DEF f
    <3> QED BY <2>1, <1>2
  <2> QED BY <2>2
<1> HIDE DEF f
<1>8. Serialize = [t \in Types |-> [x \in Held(t) |-> SerializeAs(Serialize, t, x)]]
  BY <1>7 DEF Step, Serialize
<1> QED BY <1>8

LEMMA DeserializeSteps ==
  DOMAIN Deserialize = Types /\ \A t \in Types : Deserialize[t] = [value \in Value |-> DeserializeAs(Deserialize, t, value)]
<1> DEFINE Step(f, t) == [value \in Value |-> DeserializeAs(f, t, value)]
           Good(g, m) == \A t \in Types : Depth(t) <= m => g[t] = Step(g, t)
           Reached == {m \in 0 .. Nesting : \E g : Good(g, m)}
<1>1. Nesting \in Nat /\ \A t \in Types : Depth(t) \in 1 .. Nesting
  BY TypeAssumption, PartsOf
<1>2. ASSUME NEW t \in Types, NEW f, NEW g, \A p \in Parts(t) \cap Types : f[p] = g[p]
      PROVE  Step(f, t) = Step(g, t)
  <2>1. SameOnParts(f, g, t)
    BY <1>2, PartsOf DEF SameOnParts
  <2>2. \A value \in Value : DeserializeAs(f, t, value) = DeserializeAs(g, t, value)
    BY <2>1, DeserializeLooksInside
  <2> QED BY <2>2
<1> HIDE DEF Step
<1>3. 0 \in Reached
  <2>1. Good(<<>>, 0)
    BY <1>1
  <2> HIDE DEF Good
  <2> QED BY <1>1, <2>1
<1>4. ASSUME NEW m \in 1 .. Nesting, m - 1 \in Reached
      PROVE  m \in Reached
  <2>1. PICK g : Good(g, m - 1)
    BY <1>4
  <2> DEFINE h == [t \in Types |-> Step(g, t)]
  <2>2. ASSUME NEW t \in Types, Depth(t) <= m
        PROVE  h[t] = Step(h, t)
    <3>1. ASSUME NEW p \in Parts(t) \cap Types
          PROVE  g[p] = h[p]
      <4>1. Depth(p) \in 0 .. Depth(t) - 1 /\ Depth(t) \in 1 .. Nesting
        BY PartsOf, <1>1
      <4>2. Depth(p) <= m - 1
        BY <4>1, <2>2, <1>1
      <4> QED BY <4>2, <2>1
    <3>2. Step(g, t) = Step(h, t)
      <4> HIDE DEF h
      <4> QED BY <3>1, <1>2
    <3> QED BY <3>2
  <2>3. Good(h, m)
    BY <2>2
  <2> HIDE DEF Good, h
  <2> QED BY <2>3, <1>1
<1>5. Nesting \in Reached
  <2> HIDE DEF Reached
  <2> QED BY <1>1, <1>3, <1>4, UpTo
<1>6. PICK g : \A t \in Types : g[t] = Step(g, t)
  <2>1. PICK g : Good(g, Nesting)
    BY <1>5
  <2> QED BY <2>1, <1>1
<1> DEFINE f == [t \in Types |-> Step(g, t)]
<1>7. f = [t \in Types |-> Step(f, t)]
  <2>1. \A t \in Types : f[t] = g[t]
    BY <1>6
  <2>2. \A t \in Types : Step(g, t) = Step(f, t)
    <3> HIDE DEF f
    <3> QED BY <2>1, <1>2
  <2> QED BY <2>2
<1> HIDE DEF f
<1>8. Deserialize = [t \in Types |-> [value \in Value |-> DeserializeAs(Deserialize, t, value)]]
  BY <1>7 DEF Step, Deserialize
<1> QED BY <1>8

\* One step of Convertible, IdName, IdBytes and StoredOtherwise, which go on with f.
ConvertibleStep(f, t) ==
  \/ t.t \in {"any", "unit", "bool", "i64", "u8", "f64", "str", "char", "bytes"}
  \/ t.t = "seq" /\ t.of.t = "u8"
  \/ t.t = "option" /\ f[t.of]
  \/ t.t = "tuple" /\ \A i, j \in DOMAIN t.of : t.of[i] = t.of[j] /\ f[t.of[i]]
  \/ t.t = "map" /\ t.key.t = "str" /\ f[t.of]

IdNameStep(f, t) ==
  CASE t.t = "any" -> {String("_id")}
    [] t.t = "str" -> {"_id"}
    [] t.t = "newtype" -> f[t.of]
    [] t.t = "option" -> Some(f[t.of])
    [] t.t = "enum" -> {[variant |-> v, data |-> <<>>] :
                          v \in {w \in DOMAIN t.variants : w = "_id" /\ t.variants[w].t = "unit"}}
    [] OTHER -> {}

IdBytesStep(f, t) ==
  CASE t.t = "any" -> {Bytes(Id)}
    [] t.t = "bytes" -> {Id}
    [] t.t = "newtype" -> f[t.of]
    [] t.t = "option" -> Some(f[t.of])
    [] OTHER -> {}

OtherwiseStep(f, t, x) ==
  \/ t.t = "seq"
  \/ t.t = "any" /\ x \notin Unambiguous[Nesting]
  \/ t.t = "option" /\ \E i \in DOMAIN x : f[t.of][x[i]]
  \/ t.t = "tuple" /\ \E i \in DOMAIN x : f[t.of[i]][x[i]]
  \/ t.t = "map" /\ \E i \in DOMAIN x : f[t.of][x[i][2]]

LEMMA ConvertibleSteps ==
  DOMAIN Convertible = Types /\ \A t \in Types : Convertible[t] = ConvertibleStep(Convertible, t)
<1> DEFINE Step(f, t) == ConvertibleStep(f, t)
           Good(g, m) == \A t \in Types : Depth(t) <= m => g[t] = Step(g, t)
           Reached == {m \in 0 .. Nesting : \E g : Good(g, m)}
<1>1. Nesting \in Nat /\ \A t \in Types : Depth(t) \in 1 .. Nesting
  BY TypeAssumption, PartsOf
<1>2. ASSUME NEW t \in Types, NEW f, NEW g, \A p \in Parts(t) \cap Types : f[p] = g[p]
      PROVE  Step(f, t) = Step(g, t)
  <2>1. t.t \in {"option", "map"} => f[t.of] = g[t.of]
    BY <1>2, PartsOf
  <2>2. t.t = "tuple" => \A i \in DOMAIN t.of : f[t.of[i]] = g[t.of[i]]
    BY <1>2, PartsOf
  <2> QED BY <2>1, <2>2 DEF ConvertibleStep
<1> HIDE DEF Step
<1>3. 0 \in Reached
  <2>1. Good(<<>>, 0)
    BY <1>1
  <2> HIDE DEF Good
  <2> QED BY <1>1, <2>1
<1>4. ASSUME NEW m \in 1 .. Nesting, m - 1 \in Reached
      PROVE  m \in Reached
  <2>1. PICK g : Good(g, m - 1)
    BY <1>4
  <2> DEFINE h == [t \in Types |-> Step(g, t)]
  <2>2. ASSUME NEW t \in Types, Depth(t) <= m
        PROVE  h[t] = Step(h, t)
    <3>1. ASSUME NEW p \in Parts(t) \cap Types
          PROVE  g[p] = h[p]
      <4>1. Depth(p) \in 0 .. Depth(t) - 1 /\ Depth(t) \in 1 .. Nesting
        BY PartsOf, <1>1
      <4>2. Depth(p) <= m - 1
        BY <4>1, <2>2, <1>1
      <4> QED BY <4>2, <2>1
    <3>2. Step(g, t) = Step(h, t)
      <4> HIDE DEF h
      <4> QED BY <3>1, <1>2
    <3> QED BY <3>2
  <2>3. Good(h, m)
    BY <2>2
  <2> HIDE DEF Good, h
  <2> QED BY <2>3, <1>1
<1>5. Nesting \in Reached
  <2> HIDE DEF Reached
  <2> QED BY <1>1, <1>3, <1>4, UpTo
<1>6. PICK g : \A t \in Types : g[t] = Step(g, t)
  <2>1. PICK g : Good(g, Nesting)
    BY <1>5
  <2> QED BY <2>1, <1>1
<1> DEFINE f == [t \in Types |-> Step(g, t)]
<1>7. f = [t \in Types |-> Step(f, t)]
  <2>1. \A t \in Types : f[t] = g[t]
    BY <1>6
  <2>2. \A t \in Types : Step(g, t) = Step(f, t)
    <3> HIDE DEF f
    <3> QED BY <2>1, <1>2
  <2> QED BY <2>2
<1> HIDE DEF f
<1>8. Convertible = [t \in Types |-> ConvertibleStep(Convertible, t)]
  BY <1>7 DEF Step, Convertible, ConvertibleStep
<1> QED BY <1>8

LEMMA PartsQueried ==
  ASSUME NEW t \in Queried
  PROVE  /\ t \in Types
         /\ t.t \in {"any", "unit", "bool", "i64", "u8", "f64", "str", "char", "bytes", "seq", "option",
                    "tuple", "map"}
         /\ t.t = "seq" => t.of.t = "u8"
         /\ t.t = "option" => t.of \in Queried /\ t.of \in Parts(t)
         /\ t.t = "tuple" => \A i \in DOMAIN t.of : t.of[i] \in Queried /\ t.of[i] \in Parts(t)
         /\ t.t = "map" => t.key.t = "str" /\ t.of \in Queried /\ t.of \in Parts(t)
<1>1. t \in Types /\ Convertible[t]
  BY DEF Queried
<1>2. ConvertibleStep(Convertible, t)
  BY <1>1, ConvertibleSteps
<1>3. t.t = "option" => t.of \in Types /\ t.of \in Parts(t) /\ Convertible[t.of]
  BY <1>1, <1>2, PartsOf DEF ConvertibleStep
<1>4. t.t = "tuple" => \A i \in DOMAIN t.of : t.of[i] \in Types /\ t.of[i] \in Parts(t) /\ Convertible[t.of[i]]
  BY <1>1, <1>2, PartsOf DEF ConvertibleStep
<1>5. t.t = "map" => t.key.t = "str" /\ t.of \in Types /\ t.of \in Parts(t) /\ Convertible[t.of]
  BY <1>1, <1>2, PartsOf DEF ConvertibleStep
<1> QED BY <1>1, <1>2, <1>3, <1>4, <1>5 DEF Queried, ConvertibleStep

LEMMA FromSteps ==
  DOMAIN From = Queried /\ \A t \in Queried : From[t] = [x \in Held(t) |-> FromAs(From, t, x)]
<1> DEFINE Step(f, t) == [x \in Held(t) |-> FromAs(f, t, x)]
           Good(g, m) == \A t \in Queried : Depth(t) <= m => g[t] = Step(g, t)
           Reached == {m \in 0 .. Nesting : \E g : Good(g, m)}
<1>1. Nesting \in Nat /\ \A t \in Queried : Depth(t) \in 1 .. Nesting
  BY TypeAssumption, PartsOf DEF Queried
<1>2. ASSUME NEW t \in Queried, NEW f, NEW g, \A p \in Parts(t) \cap Queried : f[p] = g[p]
      PROVE  Step(f, t) = Step(g, t)
  <2>1. ASSUME NEW x \in Held(t)
        PROVE  FromAs(f, t, x) = FromAs(g, t, x)
    <3>1. t.t \in {"option", "map"} => f[t.of] = g[t.of]
      BY <1>2, PartsQueried
    <3>2. CASE t.t = "tuple"
      <4>1. \A i \in DOMAIN x : f[t.of[i]] = g[t.of[i]]
        <5>1. t \in Types /\ \A i \in DOMAIN t.of : t.of[i] \in Queried /\ t.of[i] \in Parts(t)
          BY <3>2, PartsQueried
        <5>2. DOMAIN x = DOMAIN t.of
          BY <3>2, <5>1, HeldParts
        <5> QED BY <1>2, <5>1, <5>2
      <4>2. [i \in DOMAIN x |-> f[t.of[i]][x[i]]] = [i \in DOMAIN x |-> g[t.of[i]][x[i]]]
        BY <4>1
      <4> QED BY <3>2, <4>2 DEF FromAs, IntType
    <3>3. CASE t.t = "map"
      BY <3>3, <3>1 DEF FromAs, IntType
    <3>4. CASE t.t = "option"
      BY <3>4, <3>1 DEF FromAs, IntType
    <3>5. CASE t.t \in {"any", "unit", "bool", "i64", "u8", "f64", "str", "char", "bytes", "seq"}
      BY <3>5 DEF FromAs, IntType
    <3> QED BY <3>2, <3>3, <3>4, <3>5, PartsQueried
  <2> QED BY <2>1
<1> HIDE DEF Step
<1>3. 0 \in Reached
  <2>1. Good(<<>>, 0)
    BY <1>1
  <2> HIDE DEF Good
  <2> QED BY <1>1, <2>1
<1>4. ASSUME NEW m \in 1 .. Nesting, m - 1 \in Reached
      PROVE  m \in Reached
  <2>1. PICK g : Good(g, m - 1)
    BY <1>4
  <2> DEFINE h == [t \in Queried |-> Step(g, t)]
  <2>2. ASSUME NEW t \in Queried, Depth(t) <= m
        PROVE  h[t] = Step(h, t)
    <3>1. ASSUME NEW p \in Parts(t) \cap Queried
          PROVE  g[p] = h[p]
      <4>1. Depth(p) \in 0 .. Depth(t) - 1 /\ Depth(t) \in 1 .. Nesting
        BY PartsOf, <1>1 DEF Queried
      <4>2. Depth(p) <= m - 1
        BY <4>1, <2>2, <1>1
      <4> QED BY <4>2, <2>1
    <3>2. Step(g, t) = Step(h, t)
      <4> HIDE DEF h
      <4> QED BY <3>1, <1>2
    <3> QED BY <3>2
  <2>3. Good(h, m)
    BY <2>2
  <2> HIDE DEF Good, h
  <2> QED BY <2>3, <1>1
<1>5. Nesting \in Reached
  <2> HIDE DEF Reached
  <2> QED BY <1>1, <1>3, <1>4, UpTo
<1>6. PICK g : \A t \in Queried : g[t] = Step(g, t)
  <2>1. PICK g : Good(g, Nesting)
    BY <1>5
  <2> QED BY <2>1, <1>1
<1> DEFINE f == [t \in Queried |-> Step(g, t)]
<1>7. f = [t \in Queried |-> Step(f, t)]
  <2>1. \A t \in Queried : f[t] = g[t]
    BY <1>6
  <2>2. \A t \in Queried : Step(g, t) = Step(f, t)
    <3> HIDE DEF f
    <3> QED BY <2>1, <1>2
  <2> QED BY <2>2
<1> HIDE DEF f
<1>8. From = [t \in Queried |-> [x \in Held(t) |-> FromAs(From, t, x)]]
  BY <1>7 DEF Step, From, Queried
<1> QED BY <1>8

LEMMA FaithfulSteps ==
  DOMAIN Faithful = Types /\ \A t \in Types : Faithful[t] = [x \in Held(t) |->
     CASE t.t = "any" -> x \in Unambiguous[Nesting]
       [] t.t \in IntType -> x < Half
       [] t.t = "option" ->
            \A i \in DOMAIN x : Faithful[t.of][x[i]] /\ Serialize[t.of][x[i]] # Ok(Null)
       [] t.t = "newtype" -> Faithful[t.of][x]
       [] t.t = "seq" -> \A i \in DOMAIN x : Faithful[t.of][x[i]]
       [] t.t = "tuple" -> \A i \in DOMAIN x : Faithful[t.of[i]][x[i]]
       [] t.t = "map" -> /\ x = <<>> \/ Textual(t.key)
                         /\ \A i \in DOMAIN x : Faithful[t.of][x[i][2]]
       [] t.t = "struct" -> \A i \in DOMAIN x : Faithful[t.fields[i][2]][x[i]]
       [] t.t = "enum" -> \/ t.variants[x.variant].t = "unit"
                          \/ Faithful[t.variants[x.variant]][x.data]
       [] OTHER -> TRUE]
<1> DEFINE Step(f, t) == [x \in Held(t) |->
     CASE t.t = "any" -> x \in Unambiguous[Nesting]
       [] t.t \in IntType -> x < Half
       [] t.t = "option" ->
            \A i \in DOMAIN x : f[t.of][x[i]] /\ Serialize[t.of][x[i]] # Ok(Null)
       [] t.t = "newtype" -> f[t.of][x]
       [] t.t = "seq" -> \A i \in DOMAIN x : f[t.of][x[i]]
       [] t.t = "tuple" -> \A i \in DOMAIN x : f[t.of[i]][x[i]]
       [] t.t = "map" -> /\ x = <<>> \/ Textual(t.key)
                         /\ \A i \in DOMAIN x : f[t.of][x[i][2]]
       [] t.t = "struct" -> \A i \in DOMAIN x : f[t.fields[i][2]][x[i]]
       [] t.t = "enum" -> \/ t.variants[x.variant].t = "unit"
                          \/ f[t.variants[x.variant]][x.data]
       [] OTHER -> TRUE]
           Good(g, m) == \A t \in Types : Depth(t) <= m => g[t] = Step(g, t)
           Reached == {m \in 0 .. Nesting : \E g : Good(g, m)}
<1>1. Nesting \in Nat /\ \A t \in Types : Depth(t) \in 1 .. Nesting
  BY TypeAssumption, PartsOf
<1>2. ASSUME NEW t \in Types, NEW f, NEW g, \A p \in Parts(t) \cap Types : f[p] = g[p]
      PROVE  Step(f, t) = Step(g, t)
  <2>1. t.t \in {"option", "newtype", "seq", "map"} => f[t.of] = g[t.of]
    BY <1>2, PartsOf
  <2>2. ASSUME NEW x \in Held(t)
        PROVE  Step(f, t)[x] = Step(g, t)[x]
    <3>1. CASE t.t \in {"option", "newtype", "seq", "map"}
      BY <3>1, <2>1
    <3>2. CASE t.t = "tuple"
      <4>1. \A i \in DOMAIN x : f[t.of[i]] = g[t.of[i]]
        BY <1>2, <3>2, PartsOf, HeldParts
      <4> QED BY <3>2, <4>1
    <3>3. CASE t.t = "struct"
      <4>1. \A i \in DOMAIN x : f[t.fields[i][2]] = g[t.fields[i][2]]
        BY <1>2, <3>3, PartsOf, HeldParts
      <4> QED BY <3>3, <4>1
    <3>4. CASE t.t = "enum"
      <4>1. f[t.variants[x.variant]] = g[t.variants[x.variant]]
        BY <1>2, <3>4, PartsOf, HeldParts
      <4> QED BY <3>4, <4>1
    <3>5. CASE t.t \notin {"option", "newtype", "seq", "map", "tuple", "struct", "enum"}
      BY <3>5
    <3> QED BY <3>1, <3>2, <3>3, <3>4, <3>5
  <2>3. Step(f, t) = [x \in Held(t) |-> Step(f, t)[x]] /\ Step(g, t) = [x \in Held(t) |-> Step(g, t)[x]]
    OBVIOUS
  <2> HIDE DEF Step
  <2> QED BY <2>2, <2>3
<1> HIDE DEF Step
<1>3. 0 \in Reached
  <2>1. Good(<<>>, 0)
    BY <1>1
  <2> HIDE DEF Good
  <2> QED BY <1>1, <2>1
<1>4. ASSUME NEW m \in 1 .. Nesting, m - 1 \in Reached
      PROVE  m \in Reached
  <2>1. PICK g : Good(g, m - 1)
    BY <1>4
  <2> DEFINE h == [t \in Types |-> Step(g, t)]
  <2>2. ASSUME NEW t \in Types, Depth(t) <= m
        PROVE  h[t] = Step(h, t)
    <3>1. ASSUME NEW p \in Parts(t) \cap Types
          PROVE  g[p] = h[p]
      <4>1. Depth(p) \in 0 .. Depth(t) - 1 /\ Depth(t) \in 1 .. Nesting
        BY PartsOf, <1>1
      <4>2. Depth(p) <= m - 1
        BY <4>1, <2>2, <1>1
      <4> QED BY <4>2, <2>1
    <3>2. Step(g, t) = Step(h, t)
      <4> HIDE DEF h
      <4> QED BY <3>1, <1>2
    <3> QED BY <3>2
  <2>3. Good(h, m)
    BY <2>2
  <2> HIDE DEF Good, h
  <2> QED BY <2>3, <1>1
<1>5. Nesting \in Reached
  <2> HIDE DEF Reached
  <2> QED BY <1>1, <1>3, <1>4, UpTo
<1>6. PICK g : \A t \in Types : g[t] = Step(g, t)
  <2>1. PICK g : Good(g, Nesting)
    BY <1>5
  <2> QED BY <2>1, <1>1
<1> DEFINE f == [t \in Types |-> Step(g, t)]
<1>7. f = [t \in Types |-> Step(f, t)]
  <2>1. \A t \in Types : f[t] = g[t]
    BY <1>6
  <2>2. \A t \in Types : Step(g, t) = Step(f, t)
    <3> HIDE DEF f
    <3> QED BY <2>1, <1>2
  <2> QED BY <2>2
<1> HIDE DEF f
<1>8. Faithful = [t \in Types |-> [x \in Held(t) |->
     CASE t.t = "any" -> x \in Unambiguous[Nesting]
       [] t.t \in IntType -> x < Half
       [] t.t = "option" ->
            \A i \in DOMAIN x : Faithful[t.of][x[i]] /\ Serialize[t.of][x[i]] # Ok(Null)
       [] t.t = "newtype" -> Faithful[t.of][x]
       [] t.t = "seq" -> \A i \in DOMAIN x : Faithful[t.of][x[i]]
       [] t.t = "tuple" -> \A i \in DOMAIN x : Faithful[t.of[i]][x[i]]
       [] t.t = "map" -> /\ x = <<>> \/ Textual(t.key)
                         /\ \A i \in DOMAIN x : Faithful[t.of][x[i][2]]
       [] t.t = "struct" -> \A i \in DOMAIN x : Faithful[t.fields[i][2]][x[i]]
       [] t.t = "enum" -> \/ t.variants[x.variant].t = "unit"
                          \/ Faithful[t.variants[x.variant]][x.data]
       [] OTHER -> TRUE]]
  BY <1>7 DEF Step, Faithful
<1> QED BY <1>8

LEMMA IdNameSteps ==
  DOMAIN IdName = Types /\ \A t \in Types : IdName[t] = IdNameStep(IdName, t)
<1> DEFINE Step(f, t) == IdNameStep(f, t)
           Good(g, m) == \A t \in Types : Depth(t) <= m => g[t] = Step(g, t)
           Reached == {m \in 0 .. Nesting : \E g : Good(g, m)}
<1>1. Nesting \in Nat /\ \A t \in Types : Depth(t) \in 1 .. Nesting
  BY TypeAssumption, PartsOf
<1>2. ASSUME NEW t \in Types, NEW f, NEW g, \A p \in Parts(t) \cap Types : f[p] = g[p]
      PROVE  Step(f, t) = Step(g, t)
  BY <1>2, PartsOf DEF IdNameStep
<1> HIDE DEF Step
<1>3. 0 \in Reached
  <2>1. Good(<<>>, 0)
    BY <1>1
  <2> HIDE DEF Good
  <2> QED BY <1>1, <2>1
<1>4. ASSUME NEW m \in 1 .. Nesting, m - 1 \in Reached
      PROVE  m \in Reached
  <2>1. PICK g : Good(g, m - 1)
    BY <1>4
  <2> DEFINE h == [t \in Types |-> Step(g, t)]
  <2>2. ASSUME NEW t \in Types, Depth(t) <= m
        PROVE  h[t] = Step(h, t)
    <3>1. ASSUME NEW p \in Parts(t) \cap Types
          PROVE  g[p] = h[p]
      <4>1. Depth(p) \in 0 .. Depth(t) - 1 /\ Depth(t) \in 1 .. Nesting
        BY PartsOf, <1>1
      <4>2. Depth(p) <= m - 1
        BY <4>1, <2>2, <1>1
      <4> QED BY <4>2, <2>1
    <3>2. Step(g, t) = Step(h, t)
      <4> HIDE DEF h
      <4> QED BY <3>1, <1>2
    <3> QED BY <3>2
  <2>3. Good(h, m)
    BY <2>2
  <2> HIDE DEF Good, h
  <2> QED BY <2>3, <1>1
<1>5. Nesting \in Reached
  <2> HIDE DEF Reached
  <2> QED BY <1>1, <1>3, <1>4, UpTo
<1>6. PICK g : \A t \in Types : g[t] = Step(g, t)
  <2>1. PICK g : Good(g, Nesting)
    BY <1>5
  <2> QED BY <2>1, <1>1
<1> DEFINE f == [t \in Types |-> Step(g, t)]
<1>7. f = [t \in Types |-> Step(f, t)]
  <2>1. \A t \in Types : f[t] = g[t]
    BY <1>6
  <2>2. \A t \in Types : Step(g, t) = Step(f, t)
    <3> HIDE DEF f
    <3> QED BY <2>1, <1>2
  <2> QED BY <2>2
<1> HIDE DEF f
<1>8. IdName = [t \in Types |-> IdNameStep(IdName, t)]
  BY <1>7 DEF Step, IdName, IdNameStep
<1> QED BY <1>8

LEMMA IdBytesSteps ==
  DOMAIN IdBytes = Types /\ \A t \in Types : IdBytes[t] = IdBytesStep(IdBytes, t)
<1> DEFINE Step(f, t) == IdBytesStep(f, t)
           Good(g, m) == \A t \in Types : Depth(t) <= m => g[t] = Step(g, t)
           Reached == {m \in 0 .. Nesting : \E g : Good(g, m)}
<1>1. Nesting \in Nat /\ \A t \in Types : Depth(t) \in 1 .. Nesting
  BY TypeAssumption, PartsOf
<1>2. ASSUME NEW t \in Types, NEW f, NEW g, \A p \in Parts(t) \cap Types : f[p] = g[p]
      PROVE  Step(f, t) = Step(g, t)
  BY <1>2, PartsOf DEF IdBytesStep
<1> HIDE DEF Step
<1>3. 0 \in Reached
  <2>1. Good(<<>>, 0)
    BY <1>1
  <2> HIDE DEF Good
  <2> QED BY <1>1, <2>1
<1>4. ASSUME NEW m \in 1 .. Nesting, m - 1 \in Reached
      PROVE  m \in Reached
  <2>1. PICK g : Good(g, m - 1)
    BY <1>4
  <2> DEFINE h == [t \in Types |-> Step(g, t)]
  <2>2. ASSUME NEW t \in Types, Depth(t) <= m
        PROVE  h[t] = Step(h, t)
    <3>1. ASSUME NEW p \in Parts(t) \cap Types
          PROVE  g[p] = h[p]
      <4>1. Depth(p) \in 0 .. Depth(t) - 1 /\ Depth(t) \in 1 .. Nesting
        BY PartsOf, <1>1
      <4>2. Depth(p) <= m - 1
        BY <4>1, <2>2, <1>1
      <4> QED BY <4>2, <2>1
    <3>2. Step(g, t) = Step(h, t)
      <4> HIDE DEF h
      <4> QED BY <3>1, <1>2
    <3> QED BY <3>2
  <2>3. Good(h, m)
    BY <2>2
  <2> HIDE DEF Good, h
  <2> QED BY <2>3, <1>1
<1>5. Nesting \in Reached
  <2> HIDE DEF Reached
  <2> QED BY <1>1, <1>3, <1>4, UpTo
<1>6. PICK g : \A t \in Types : g[t] = Step(g, t)
  <2>1. PICK g : Good(g, Nesting)
    BY <1>5
  <2> QED BY <2>1, <1>1
<1> DEFINE f == [t \in Types |-> Step(g, t)]
<1>7. f = [t \in Types |-> Step(f, t)]
  <2>1. \A t \in Types : f[t] = g[t]
    BY <1>6
  <2>2. \A t \in Types : Step(g, t) = Step(f, t)
    <3> HIDE DEF f
    <3> QED BY <2>1, <1>2
  <2> QED BY <2>2
<1> HIDE DEF f
<1>8. IdBytes = [t \in Types |-> IdBytesStep(IdBytes, t)]
  BY <1>7 DEF Step, IdBytes, IdBytesStep
<1> QED BY <1>8

LEMMA JoinedSteps ==
  DOMAIN Joined = Types /\ \A t \in Types : Joined[t] = [x \in Held(t) |->
     CASE t.t = "any" /\ x.kind = "Document" -> {Document(WithId(x.entries, Id))}
       [] t.t = "map" -> Behind(IdEntry(t), x)
       [] t.t = "struct" -> {x}
       [] t.t = "newtype" -> Joined[t.of][x]
       [] t.t = "option" -> Some(UNION {Joined[t.of][x[i]] : i \in DOMAIN x})
       [] OTHER -> {}]
<1> DEFINE Step(f, t) == [x \in Held(t) |->
     CASE t.t = "any" /\ x.kind = "Document" -> {Document(WithId(x.entries, Id))}
       [] t.t = "map" -> Behind(IdEntry(t), x)
       [] t.t = "struct" -> {x}
       [] t.t = "newtype" -> f[t.of][x]
       [] t.t = "option" -> Some(UNION {f[t.of][x[i]] : i \in DOMAIN x})
       [] OTHER -> {}]
           Good(g, m) == \A t \in Types : Depth(t) <= m => g[t] = Step(g, t)
           Reached == {m \in 0 .. Nesting : \E g : Good(g, m)}
<1>1. Nesting \in Nat /\ \A t \in Types : Depth(t) \in 1 .. Nesting
  BY TypeAssumption, PartsOf
<1>2. ASSUME NEW t \in Types, NEW f, NEW g, \A p \in Parts(t) \cap Types : f[p] = g[p]
      PROVE  Step(f, t) = Step(g, t)
  <2>1. t.t \in {"option", "newtype"} => f[t.of] = g[t.of]
    BY <1>2, PartsOf
  <2> QED BY <2>1
<1> HIDE DEF Step
<1>3. 0 \in Reached
  <2>1. Good(<<>>, 0)
    BY <1>1
  <2> HIDE DEF Good
  <2> QED BY <1>1, <2>1
<1>4. ASSUME NEW m \in 1 .. Nesting, m - 1 \in Reached
      PROVE  m \in Reached
  <2>1. PICK g : Good(g, m - 1)
    BY <1>4
  <2> DEFINE h == [t \in Types |-> Step(g, t)]
  <2>2. ASSUME NEW t \in Types, Depth(t) <= m
        PROVE  h[t] = Step(h, t)
    <3>1. ASSUME NEW p \in Parts(t) \cap Types
          PROVE  g[p] = h[p]
      <4>1. Depth(p) \in 0 .. Depth(t) - 1 /\ Depth(t) \in 1 .. Nesting
        BY PartsOf, <1>1
      <4>2. Depth(p) <= m - 1
        BY <4>1, <2>2, <1>1
      <4> QED BY <4>2, <2>1
    <3>2. Step(g, t) = Step(h, t)
      <4> HIDE DEF h
      <4> QED BY <3>1, <1>2
    <3> QED BY <3>2
  <2>3. Good(h, m)
    BY <2>2
  <2> HIDE DEF Good, h
  <2> QED BY <2>3, <1>1
<1>5. Nesting \in Reached
  <2> HIDE DEF Reached
  <2> QED BY <1>1, <1>3, <1>4, UpTo
<1>6. PICK g : \A t \in Types : g[t] = Step(g, t)
  <2>1. PICK g : Good(g, Nesting)
    BY <1>5
  <2> QED BY <2>1, <1>1
<1> DEFINE f == [t \in Types |-> Step(g, t)]
<1>7. f = [t \in Types |-> Step(f, t)]
  <2>1. \A t \in Types : f[t] = g[t]
    BY <1>6
  <2>2. \A t \in Types : Step(g, t) = Step(f, t)
    <3> HIDE DEF f
    <3> QED BY <2>1, <1>2
  <2> QED BY <2>2
<1> HIDE DEF f
<1>8. Joined = [t \in Types |-> [x \in Held(t) |->
     CASE t.t = "any" /\ x.kind = "Document" -> {Document(WithId(x.entries, Id))}
       [] t.t = "map" -> Behind(IdEntry(t), x)
       [] t.t = "struct" -> {x}
       [] t.t = "newtype" -> Joined[t.of][x]
       [] t.t = "option" -> Some(UNION {Joined[t.of][x[i]] : i \in DOMAIN x})
       [] OTHER -> {}]]
  BY <1>7 DEF Step, Joined
<1> QED BY <1>8

LEMMA StoredOtherwiseSteps ==
  DOMAIN StoredOtherwise = Types /\ \A t \in Types : StoredOtherwise[t] = [x \in Held(t) |-> OtherwiseStep(StoredOtherwise, t, x)]
<1> DEFINE Step(f, t) == [x \in Held(t) |-> OtherwiseStep(f, t, x)]
           Good(g, m) == \A t \in Types : Depth(t) <= m => g[t] = Step(g, t)
           Reached == {m \in 0 .. Nesting : \E g : Good(g, m)}
<1>1. Nesting \in Nat /\ \A t \in Types : Depth(t) \in 1 .. Nesting
  BY TypeAssumption, PartsOf
<1>2. ASSUME NEW t \in Types, NEW f, NEW g, \A p \in Parts(t) \cap Types : f[p] = g[p]
      PROVE  Step(f, t) = Step(g, t)
  <2>1. t.t \in {"option", "map"} => f[t.of] = g[t.of]
    BY <1>2, PartsOf
  <2>2. ASSUME NEW x \in Held(t)
        PROVE  Step(f, t)[x] = Step(g, t)[x]
    <3>1. CASE t.t \in {"option", "map"}
      BY <3>1, <2>1 DEF OtherwiseStep
    <3>2. CASE t.t = "tuple"
      <4>1. \A i \in DOMAIN x : f[t.of[i]] = g[t.of[i]]
        BY <1>2, <3>2, PartsOf, HeldParts
      <4> QED BY <3>2, <4>1 DEF OtherwiseStep
    <3>3. CASE t.t \notin {"option", "map", "tuple"}
      BY <3>3 DEF OtherwiseStep
    <3> QED BY <3>1, <3>2, <3>3
  <2>3. Step(f, t) = [x \in Held(t) |-> Step(f, t)[x]] /\ Step(g, t) = [x \in Held(t) |-> Step(g, t)[x]]
    OBVIOUS
  <2> HIDE DEF Step
  <2> QED BY <2>2, <2>3
<1> HIDE DEF Step
<1>3. 0 \in Reached
  <2>1. Good(<<>>, 0)
    BY <1>1
  <2> HIDE DEF Good
  <2> QED BY <1>1, <2>1
<1>4. ASSUME NEW m \in 1 .. Nesting, m - 1 \in Reached
      PROVE  m \in Reached
  <2>1. PICK g : Good(g, m - 1)
    BY <1>4
  <2> DEFINE h == [t \in Types |-> Step(g, t)]
  <2>2. ASSUME NEW t \in Types, Depth(t) <= m
        PROVE  h[t] = Step(h, t)
    <3>1. ASSUME NEW p \in Parts(t) \cap Types
          PROVE  g[p] = h[p]
      <4>1. Depth(p) \in 0 .. Depth(t) - 1 /\ Depth(t) \in 1 .. Nesting
        BY PartsOf, <1>1
      <4>2. Depth(p) <= m - 1
        BY <4>1, <2>2, <1>1
      <4> QED BY <4>2, <2>1
    <3>2. Step(g, t) = Step(h, t)
      <4> HIDE DEF h
      <4> QED BY <3>1, <1>2
    <3> QED BY <3>2
  <2>3. Good(h, m)
    BY <2>2
  <2> HIDE DEF Good, h
  <2> QED BY <2>3, <1>1
<1>5. Nesting \in Reached
  <2> HIDE DEF Reached
  <2> QED BY <1>1, <1>3, <1>4, UpTo
<1>6. PICK g : \A t \in Types : g[t] = Step(g, t)
  <2>1. PICK g : Good(g, Nesting)
    BY <1>5
  <2> QED BY <2>1, <1>1
<1> DEFINE f == [t \in Types |-> Step(g, t)]
<1>7. f = [t \in Types |-> Step(f, t)]
  <2>1. \A t \in Types : f[t] = g[t]
    BY <1>6
  <2>2. \A t \in Types : Step(g, t) = Step(f, t)
    <3> HIDE DEF f
    <3> QED BY <2>1, <1>2
  <2> QED BY <2>2
<1> HIDE DEF f
<1> DEFINE P(h) == h = [t \in Types |-> [x \in Held(t) |->
     \/ t.t = "seq"
     \/ t.t = "any" /\ x \notin Unambiguous[Nesting]
     \/ t.t = "option" /\ \E i \in DOMAIN x : h[t.of][x[i]]
     \/ t.t = "tuple" /\ \E i \in DOMAIN x : h[t.of[i]][x[i]]
     \/ t.t = "map" /\ \E i \in DOMAIN x : h[t.of][x[i][2]]]]
           c == CHOOSE h : P(h)
<1>a. P(f)
  BY <1>7 DEF Step, OtherwiseStep
<1>b. P(c)
  <2> HIDE DEF P
  <2> QED BY <1>a
<1>c. StoredOtherwise = c
  BY Zenon DEF StoredOtherwise
<1> HIDE DEF c
<1>d. P(StoredOtherwise)
  <2> HIDE DEF P
  <2> QED BY <1>b, <1>c
<1>8. StoredOtherwise = [t \in Types |-> [x \in Held(t) |-> OtherwiseStep(StoredOtherwise, t, x)]]
  BY <1>d DEF OtherwiseStep
<1> QED BY <1>8

-----------------------------------------------------------------------------
(* What is written and read, by the shape of the type *)

LEMMA SerializeOf ==
  ASSUME NEW t \in Types, NEW x \in Held(t)
  PROVE  Serialize[t][x] = SerializeAs(Serialize, t, x)
BY SerializeSteps

LEMMA DeserializeOf ==
  ASSUME NEW t \in Types, NEW v \in Value
  PROVE  Deserialize[t][v] = DeserializeAs(Deserialize, t, v)
BY DeserializeSteps

LEMMA DepthOf ==
  ASSUME NEW t \in Types
  PROVE  /\ Depth(t) \in 1 .. Nesting /\ Depth(t) \in 0 .. Nesting /\ Depth(t) - 1 \in 0 .. Nesting
         /\ \A p \in Parts(t) : p \in Types /\ Depth(p) \in 0 .. Depth(t) - 1
<1>1. Depth(t) \in 1 .. Nesting /\ Nesting \in Nat
  BY PartsOf, TypeAssumption
<1>2. Depth(t) \in 0 .. Nesting /\ Depth(t) - 1 \in 0 .. Nesting
  BY <1>1
<1> QED BY <1>1, <1>2, PartsOf

LEMMA InsideValue ==
  ASSUME NEW v \in Value
  PROVE  /\ v.kind = "Array" => v = Array(v.array) /\ v.array \in Seq(Value)
         /\ v.kind = "Document" => v = Document(v.entries) /\ v.entries \in Seq(STRING \X Value)
<1>1. v \in Values[Nesting] /\ Nesting \in 0 .. Nesting
  BY ValueIsTop DEF Value
<1>2. Nesting \in 1 .. Nesting =>
        Seq(Values[Nesting - 1]) \subseteq Seq(Value)
          /\ Seq(STRING \X Values[Nesting - 1]) \subseteq Seq(STRING \X Value)
  <2> SUFFICES ASSUME Nesting \in 1 .. Nesting
               PROVE  Seq(Values[Nesting - 1]) \subseteq Seq(Value)
                        /\ Seq(STRING \X Values[Nesting - 1]) \subseteq Seq(STRING \X Value)
    OBVIOUS
  <2>1. Nesting - 1 \in 0 .. Nesting
    BY TypeAssumption
  <2>2. Values[Nesting - 1] \subseteq Value
    BY <2>1, ValueIsTop
  <2> QED BY <2>2, SequencesGrow
<1> QED BY <1>1, <1>2, ValueCases

LEMMA AtomsMade ==
  /\ Null \in Atom
  /\ \A b \in BOOLEAN : Bool(b) \in Atom
  /\ \A n \in -Half .. Half - 1 : I64(n) \in Atom
  /\ \A f \in Int : F64(f) \in Atom
  /\ \A s \in STRING : String(s) \in Atom
  /\ \A b \in Seq(0 .. Byte - 1) : Bytes(b) \in Atom
BY DEF Atom, Null, Bool, I64, F64, String, Bytes

LEMMA AsI64InRange ==
  ASSUME NEW n \in Int
  PROVE  AsI64(n) \in -Half .. Half - 1
<1>1. Half \in Nat /\ Half > 0
  BY WidthAssumption
<1> DEFINE m == n + Half
           w == 2 * Half
<1>2. m \in Int /\ w \in Nat /\ w > 0 /\ w = Half + Half
  BY <1>1
<1> HIDE DEF m, w
<1>3. m % w \in 0 .. w - 1
  BY <1>2
<1> DEFINE r == m % w
<1>4. r \in 0 .. w - 1
  BY <1>3
<1> HIDE DEF r
<1>5. r - Half \in -Half .. Half - 1
  BY <1>1, <1>2, <1>4
<1> QED BY <1>5 DEF AsI64, r, m, w

LEMMA AsI64Keeps ==
  ASSUME NEW n \in Int, -Half <= n, n < Half
  PROVE  AsI64(n) = n
<1>1. Half \in Nat /\ Half > 0
  BY WidthAssumption
<1> DEFINE m == n + Half
           w == 2 * Half
<1>2. m \in Int /\ w \in Nat /\ 0 <= m /\ m < w /\ m - Half = n
  BY <1>1
<1> HIDE DEF m, w
<1>3. m % w = m
  BY <1>2
<1> QED BY <1>2, <1>3 DEF AsI64, m, w

\* A result that is a value that nests n deep, with no key twice, where it is ok.
Stored(r, n) == Result(r) /\ (r.ok => r.value \in Unambiguous[n])

LEMMA StoredGrows ==
  ASSUME NEW n \in 0 .. Nesting, NEW m \in 0 .. n, NEW r, Stored(r, m)
  PROVE  Stored(r, n)
BY LevelsGrow DEF Stored

LEMMA StoredMade ==
  ASSUME NEW n \in 0 .. Nesting
  PROVE  /\ \A v \in Unambiguous[n] : Stored(Ok(v), n)
         /\ \A v \in Atom : Stored(Ok(v), n)
         /\ \A why : Stored(Error(why), n)
BY AtomsInside, ResultsMade DEF Stored

\* What a sequence becomes.
LEMMA AllStored ==
  ASSUME NEW n \in 1 .. Nesting, NEW k \in Nat, NEW results, DOMAIN results = 1 .. k,
         \A i \in 1 .. k : Stored(results[i], n - 1)
  PROVE  /\ Stored(SerializeAll(results), n)
         /\ SerializeAll(results).ok <=> \A i \in 1 .. k : results[i].ok
         /\ SerializeAll(results).ok =>
              SerializeAll(results).value = Array([i \in 1 .. k |-> results[i].value])
<1> DEFINE U == Unambiguous[n - 1]
           c == Collected(results)
           s == [i \in 1 .. k |-> results[i].value]
<1>1. DOMAIN results \subseteq Nat /\ n \in 0 .. Nesting
  OBVIOUS
<1>2. \A i \in DOMAIN results : Result(results[i])
  BY DEF Stored
<1>3. Result(c) /\ (c.ok <=> \A i \in 1 .. k : results[i].ok) /\ (c.ok => c.value = s)
  BY <1>1, <1>2, CollectedResults
<1>4. c.ok => s \in Seq(U)
  <2> SUFFICES ASSUME \A i \in 1 .. k : results[i].ok
               PROVE  s \in Seq(U)
    BY <1>3
  <2>1. \A i \in 1 .. k : s[i] \in U
    BY DEF Stored
  <2>2. DOMAIN s = 1 .. k /\ s = [i \in 1 .. k |-> s[i]]
    OBVIOUS
  <2> HIDE DEF s, U
  <2> QED BY <2>1, <2>2, SeqMade
<1>5. c.ok => Array(s) \in Unambiguous[n]
  <2> HIDE DEF s, c
  <2> QED BY <1>4, UnambiguousMade
<1>6. SerializeAll(results) = IF c.ok THEN Ok(Array(c.value)) ELSE c
  BY DEF SerializeAll
<1> HIDE DEF c, s
<1>7. CASE c.ok
  <2>1. SerializeAll(results) = Ok(Array(s))
    BY <1>3, <1>6, <1>7
  <2> QED BY <2>1, <1>1, <1>3, <1>5, <1>7, StoredMade, ResultsMade DEF s
<1>8. CASE ~c.ok
  <2>1. SerializeAll(results) = c
    BY <1>6, <1>8
  <2> QED BY <2>1, <1>3, <1>8 DEF Stored
<1> QED BY <1>7, <1>8

NamedPairs(k, names, results) == [i \in 1 .. k |-> <<names[i], results[i].value>>]

LEMMA NamedStored ==
  ASSUME NEW n \in 1 .. Nesting, NEW k \in Nat, NEW results, DOMAIN results = 1 .. k,
         NEW names, DOMAIN names = 1 .. k, \A i \in 1 .. k : names[i] \in STRING,
         \A i \in 1 .. k : Stored(results[i], n - 1)
  PROVE  /\ Stored(Named(names, results), n)
         /\ Named(names, results).ok <=> \A i \in 1 .. k : results[i].ok
         /\ Named(names, results).ok =>
              /\ NamedPairs(k, names, results) \in Seq(STRING \X Unambiguous[n - 1])
              /\ Named(names, results).value = Document(Inserted(NamedPairs(k, names, results)))
<1> DEFINE U == Unambiguous[n - 1]
           E == STRING \X U
           c == Collected(results)
           s == [i \in 1 .. k |-> results[i].value]
           p == NamedPairs(k, names, results)
<1>1. DOMAIN results \subseteq Nat /\ n \in 0 .. Nesting
  OBVIOUS
<1>2. \A i \in DOMAIN results : Result(results[i])
  BY DEF Stored
<1>3. Result(c) /\ (c.ok <=> \A i \in 1 .. k : results[i].ok) /\ (c.ok => c.value = s)
  BY <1>1, <1>2, CollectedResults
<1>4. c.ok => p \in Seq(E)
  <2> SUFFICES ASSUME \A i \in 1 .. k : results[i].ok
               PROVE  p \in Seq(E)
    BY <1>3
  <2>1. \A i \in 1 .. k : p[i] \in E
    BY DEF Stored, NamedPairs
  <2>2. DOMAIN p = 1 .. k /\ p = [i \in 1 .. k |-> p[i]]
    BY DEF NamedPairs
  <2> HIDE DEF p, E
  <2> QED BY <2>1, <2>2, SeqMade
<1>5. c.ok => Document(Inserted(p)) \in Unambiguous[n]
  <2> HIDE DEF p, c
  <2>1. c.ok => Inserted(p) \in Seq(E) /\ KeysOnce(Inserted(p))
    BY <1>4, InsertedKeepsKeys
  <2> QED BY <2>1, UnambiguousMade
<1>6. Named(names, results) =
        IF c.ok THEN Ok(Document(Inserted([i \in 1 .. k |-> <<names[i], c.value[i]>>]))) ELSE c
  BY DEF Named
<1>7. CASE c.ok
  <2>1. p = [i \in 1 .. k |-> <<names[i], c.value[i]>>]
    BY <1>3, <1>7 DEF NamedPairs
  <2>2. Named(names, results) = Ok(Document(Inserted(p)))
    BY <1>6, <1>7, <2>1
  <2> HIDE DEF c, p
  <2>3. Stored(Named(names, results), n)
    BY <2>2, <1>1, <1>5, <1>7, StoredMade
  <2> QED BY <2>2, <2>3, <1>3, <1>4, <1>7, ResultsMade DEF p
<1>8. CASE ~c.ok
  <2>1. Named(names, results) = c
    BY <1>6, <1>8
  <2> HIDE DEF c
  <2> QED BY <2>1, <1>3, <1>8 DEF Stored
<1> QED BY <1>7, <1>8

-----------------------------------------------------------------------------
(* Map keys *)

\* A newtype is written and read as what it holds.
BareAs(t) ==
  /\ Bare[t] \in Types /\ Bare[t].t # "newtype" /\ Held(t) \subseteq Held(Bare[t])
  /\ \A v \in Value : Deserialize[t][v] = Deserialize[Bare[t]][v]

LEMMA BareIs ==
  \A t \in Types : BareAs(t)
<1> DEFINE S == {t \in Types : BareAs(t)}
<1>1. ASSUME NEW t \in Types, Parts(t) \subseteq S
      PROVE  t \in S
  <2>1. CASE t.t = "newtype"
    <3>1. t.of \in Parts(t) /\ t.of \in Types
      BY <2>1, PartsOf
    <3>2. Bare[t] = Bare[t.of] /\ BareAs(t.of)
      BY <2>1, <3>1, <1>1, BareSteps
    <3>3. Held(t) \subseteq Held(t.of)
      BY <2>1, HeldParts
    <3>4. \A v \in Value : Deserialize[t][v] = Deserialize[t.of][v]
      BY <2>1, DeserializeOf DEF DeserializeAs, IntType
    <3> QED BY <3>2, <3>3, <3>4 DEF BareAs
  <2>2. CASE t.t # "newtype"
    <3>1. Bare[t] = t
      BY <2>2, BareSteps
    <3> QED BY <2>2, <3>1 DEF BareAs
  <2> QED BY <2>1, <2>2
<1>2. \A t \in Types : t \in S
  <2> HIDE DEF S
  <2> QED BY <1>1, TypeInduction
<1> QED BY <1>2

LEMMA UnitHolds ==
  ASSUME NEW t \in Types, t.t = "unit", NEW x \in Held(t)
  PROVE  x = <<>>
BY HeldAtoms

LEMMA IntHolds ==
  ASSUME NEW t \in Types, t.t \in IntType, NEW x \in Held(t)
  PROVE  x \in RangeOf(t.t) /\ x \in Int /\ -Half <= x
<1>1. Half \in Nat /\ Byte \in Nat
  BY WidthAssumption
<1>2. x \in RangeOf(t.t)
  BY HeldAtoms
<1> QED BY <1>1, <1>2 DEF RangeOf, IntType

LEMMA StringIsValue ==
  \A s \in STRING : String(s) \in Value /\ String(s).kind = "String" /\ String(s).string = s
BY AtomsMade, AtomsInside, ValueIsTop DEF Value, String

\* The text of a key.
LEMMA KeyIs ==
  ASSUME NEW key \in Types, NEW x \in Held(key)
  PROVE  /\ Result(SerializeKey(key, x))
         /\ SerializeKey(key, x).ok => SerializeKey(key, x).value \in STRING
         /\ SerializeKey(key, x).ok /\ Textual(key) =>
              Deserialize[key][String(SerializeKey(key, x).value)] = Ok(x)
         /\ SerializeKey(key, x).ok /\ ~Textual(key) =>
              \A s \in STRING : Deserialize[key][String(s)] = Mismatch
<1> DEFINE b == Bare[key]
           r == SerializeKey(key, x)
<1>1. /\ b \in Types /\ x \in Held(b)
      /\ \A s \in STRING : Deserialize[key][String(s)] = DeserializeAs(Deserialize, b, String(s))
  BY BareIs, DeserializeOf, StringIsValue DEF BareAs
<1>2. r = CASE b.t \in {"str", "char"} -> Ok(x)
            [] b.t \in IntType \cup {"bool"} -> Ok(Text(x))
            [] b.t = "enum" /\ b.variants[x.variant].t = "unit" -> Ok(x.variant)
            [] OTHER -> Error("NonStringKey")
  BY DEF SerializeKey
<1>3. Textual(key) <=> b.t \in {"str", "char", "enum"}
  BY DEF Textual
<1> HIDE DEF b, r
<1>4. CASE b.t \in {"str", "char"}
  <2>1. r = Ok(x) /\ x \in STRING /\ (b.t = "char" => x \in Char)
    BY <1>1, <1>2, <1>4, HeldAtoms DEF IntType
  <2>2. DeserializeAs(Deserialize, b, String(x)) = Ok(x)
    BY <1>4, <2>1, StringIsValue DEF DeserializeAs, IntType
  <2> QED BY <1>1, <1>3, <1>4, <2>1, <2>2, ResultsMade DEF r
<1>5. CASE b.t \in IntType
  <2>1. r = Ok(Text(x)) /\ Text(x) \in STRING
    <3>1. x \in RangeOf(b.t)
      BY <1>1, <1>5, HeldAtoms
    <3>2. Text(x) \in STRING
      BY <1>5, <3>1, DataAssumption
    <3> QED BY <1>2, <1>5, <3>2 DEF IntType
  <2>2. \A s \in STRING : DeserializeAs(Deserialize, b, String(s)) = Mismatch
    BY <1>5, StringIsValue DEF DeserializeAs, IntType
  <2>3. ~Textual(key)
    BY <1>3, <1>5 DEF IntType
  <2> QED BY <1>1, <2>1, <2>2, <2>3, ResultsMade DEF r
<1>6. CASE b.t = "bool"
  <2>1. r = Ok(Text(x)) /\ Text(x) \in STRING
    BY <1>1, <1>2, <1>6, HeldAtoms, DataAssumption DEF IntType
  <2>2. \A s \in STRING : DeserializeAs(Deserialize, b, String(s)) = Mismatch
    BY <1>6, StringIsValue DEF DeserializeAs, IntType
  <2>3. ~Textual(key)
    BY <1>3, <1>6
  <2> QED BY <1>1, <2>1, <2>2, <2>3, ResultsMade DEF r
<1>7. CASE b.t = "enum" /\ b.variants[x.variant].t = "unit"
  <2>1. /\ x = [variant |-> x.variant, data |-> x.data] /\ x.variant \in DOMAIN b.variants
        /\ x.data \in Held(b.variants[x.variant])
    BY <1>1, <1>7, HeldParts
  <2>2. x.variant \in STRING
    BY <1>1, <1>7, <2>1, TypeAssumption
  <2>3. x.data = <<>>
    <3>1. b.variants[x.variant] \in Types
      BY <1>1, <1>7, <2>1, PartsOf
    <3> QED BY <1>7, <2>1, <3>1, UnitHolds
  <2>4. r = Ok(x.variant)
    BY <1>2, <1>7 DEF IntType
  <2>5. DeserializeAs(Deserialize, b, String(x.variant)) = DeserializeEnum(Deserialize, b, String(x.variant))
    BY <1>7 DEF DeserializeAs, IntType
  <2>6. DeserializeEnum(Deserialize, b, String(x.variant)) = Ok([variant |-> x.variant, data |-> <<>>])
    BY <1>7, <2>1, <2>2, StringIsValue DEF DeserializeEnum
  <2>7. Textual(key) /\ r.ok /\ r.value = x.variant /\ Result(r)
    BY <1>3, <1>7, <2>4, ResultsMade
  <2>8. Deserialize[key][String(r.value)] = Ok(x)
    BY <1>1, <2>1, <2>2, <2>3, <2>5, <2>6, <2>7
  <2> QED BY <2>2, <2>7, <2>8 DEF r
<1>8. CASE /\ b.t \notin {"str", "char"} \cup IntType \cup {"bool"}
           /\ ~(b.t = "enum" /\ b.variants[x.variant].t = "unit")
  <2>1. r = Error("NonStringKey")
    BY <1>2, <1>8
  <2> QED BY <2>1, ResultsMade DEF r
<1> QED BY <1>4, <1>5, <1>6, <1>7, <1>8

-----------------------------------------------------------------------------
(* Every type writes values that hold no key twice *)

\* The keys of a map as they are written, and what is written under them.
WrittenKeys(t, x) == Collected([i \in DOMAIN x |-> SerializeKey(t.key, x[i][1])])
WrittenValues(t, x) == [i \in DOMAIN x |-> Serialize[t.of][x[i][2]]]

LEMMA KeysWritten ==
  ASSUME NEW t \in Types, t.t = "map", NEW x \in Held(t)
  PROVE  /\ Len(x) \in Nat /\ DOMAIN x = 1 .. Len(x)
         /\ \A i \in DOMAIN x : x[i] = <<x[i][1], x[i][2]>> /\ x[i][1] \in Held(t.key) /\ x[i][2] \in Held(t.of)
         /\ Result(WrittenKeys(t, x))
         /\ WrittenKeys(t, x).ok <=> \A i \in DOMAIN x : SerializeKey(t.key, x[i][1]).ok
         /\ WrittenKeys(t, x).ok =>
              /\ WrittenKeys(t, x).value = [i \in DOMAIN x |-> SerializeKey(t.key, x[i][1]).value]
              /\ \A i \in DOMAIN x : WrittenKeys(t, x).value[i] \in STRING
<1> DEFINE K == Held(t.key)
           V == Held(t.of)
           E == K \X V
           n == Len(x)
           c == WrittenKeys(t, x)
           keys == [i \in DOMAIN x |-> SerializeKey(t.key, x[i][1])]
<1>1. x \in Seq(E) /\ t.key \in Types
  BY HeldParts, PartsOf
<1>2. n \in Nat /\ DOMAIN x = 1 .. n /\ \A i \in DOMAIN x : x[i] \in E
  <2> HIDE DEF E
  <2> QED BY <1>1, SeqParts
<1>3. \A i \in DOMAIN x : x[i] = <<x[i][1], x[i][2]>> /\ x[i][1] \in K /\ x[i][2] \in V
  <2> HIDE DEF K, V
  <2> QED BY <1>2
<1>4. \A i \in DOMAIN x :
        Result(keys[i]) /\ keys[i] = SerializeKey(t.key, x[i][1]) /\ (keys[i].ok => keys[i].value \in STRING)
  BY <1>1, <1>3, KeyIs
<1>5. DOMAIN keys = DOMAIN x /\ DOMAIN keys \subseteq Nat
  BY <1>2
<1>6. c = Collected(keys)
  BY DEF WrittenKeys
<1> HIDE DEF keys, c
<1>7. /\ Result(c)
      /\ c.ok <=> \A i \in DOMAIN x : keys[i].ok
      /\ c.ok => c.value = [i \in DOMAIN x |-> keys[i].value]
  BY <1>4, <1>5, <1>6, CollectedResults
<1>8. c.ok => c.value = [i \in DOMAIN x |-> SerializeKey(t.key, x[i][1]).value]
  BY <1>4, <1>7
<1>9. c.ok => \A i \in DOMAIN x : c.value[i] \in STRING
  BY <1>4, <1>7
<1> QED BY <1>2, <1>3, <1>4, <1>7, <1>8, <1>9 DEF c

WritesStored(t) == \A x \in Held(t) : Stored(Serialize[t][x], Depth(t))

LEMMA SerializeTyped ==
  \A t \in Types : WritesStored(t)
<1> DEFINE S == {t \in Types : WritesStored(t)}
<1>1. ASSUME NEW t \in Types, Parts(t) \subseteq S
      PROVE  t \in S
  <2> DEFINE d == Depth(t)
  <2>1. d \in 1 .. Nesting /\ d \in 0 .. Nesting /\ d - 1 \in 0 .. Nesting /\ d - 1 \in 0 .. d
    <3>1. d \in 1 .. Nesting /\ Nesting \in Nat
      BY DepthOf, TypeAssumption
    <3> QED BY <3>1
  <2>2. ASSUME NEW p \in Parts(t), NEW x \in Held(p)
        PROVE  Stored(Serialize[p][x], d - 1)
    <3>1. WritesStored(p) /\ Depth(p) \in 0 .. d - 1
      BY <1>1, DepthOf
    <3>2. Stored(Serialize[p][x], Depth(p))
      BY <3>1 DEF WritesStored
    <3> QED BY <2>1, <3>1, <3>2, StoredGrows
  <2>3. ASSUME NEW p \in Parts(t), NEW x \in Held(p)
        PROVE  Stored(Serialize[p][x], d)
    <3>1. Stored(Serialize[p][x], d - 1)
      BY <2>2
    <3> QED BY <2>1, <3>1, StoredGrows
  <2> SUFFICES ASSUME NEW x \in Held(t)
               PROVE  Stored(SerializeAs(Serialize, t, x), d)
    BY SerializeOf DEF WritesStored
  <2> HIDE DEF d
  <2>4. CASE t.t = "any"
    <3>1. x \in Values[d]
      BY <2>4, HeldAtoms DEF d
    <3>2. Rebuilt[x] \in Unambiguous[d]
      BY <2>1, <3>1, RebuiltKeepsKeys
    <3> QED BY <2>1, <2>4, <3>2, StoredMade DEF SerializeAs, SerializeAny, IntType
  <2>5. CASE t.t \in {"unit", "bool", "f64", "str", "char", "bytes"}
    <3>1. PICK a \in Atom : SerializeAs(Serialize, t, x) = Ok(a)
      BY <2>5, HeldAtoms, AtomsMade DEF SerializeAs, IntType
    <3> QED BY <2>1, <3>1, StoredMade
  <2>6. CASE t.t \in IntType
    <3>1. I64(AsI64(x)) \in Atom
      BY <2>6, IntHolds, AsI64InRange, AtomsMade
    <3>2. SerializeAs(Serialize, t, x) = Ok(I64(AsI64(x)))
      BY <2>6 DEF SerializeAs, IntType
    <3> QED BY <2>1, <3>1, <3>2, StoredMade
  <2>7. CASE t.t = "option"
    <3>1. SerializeAs(Serialize, t, x) = IF x = <<>> THEN Ok(Null) ELSE Serialize[t.of][x[1]]
      BY <2>7 DEF SerializeAs, SerializeOption, IntType
    <3>2. x # <<>> => Stored(Serialize[t.of][x[1]], d)
      BY <2>3, <2>7, HeldParts, PartsOf
    <3> QED BY <2>1, <3>1, <3>2, StoredMade, AtomsMade
  <2>8. CASE t.t = "newtype"
    <3>1. Stored(Serialize[t.of][x], d)
      BY <2>3, <2>8, HeldParts, PartsOf
    <3> QED BY <2>8, <3>1 DEF SerializeAs, IntType
  <2>9. CASE t.t = "seq"
    <3> DEFINE r == [i \in DOMAIN x |-> Serialize[t.of][x[i]]]
    <3>1. Len(x) \in Nat /\ DOMAIN x = 1 .. Len(x) /\ \A i \in DOMAIN x : x[i] \in Held(t.of)
      BY <2>9, HeldParts, SeqParts
    <3>2. DOMAIN r = 1 .. Len(x) /\ \A i \in 1 .. Len(x) : Stored(r[i], d - 1)
      BY <2>2, <2>9, <3>1, PartsOf
    <3>3. SerializeAs(Serialize, t, x) = SerializeAll(r)
      BY <2>9 DEF SerializeAs, IntType
    <3> HIDE DEF r
    <3> QED BY <2>1, <3>1, <3>2, <3>3, AllStored
  <2>10. CASE t.t = "tuple"
    <3> DEFINE r == [i \in DOMAIN x |-> Serialize[t.of[i]][x[i]]]
               n == Len(t.of)
    <3>1. n \in Nat /\ DOMAIN x = 1 .. n
      <4>1. t.of \in Seq(Types) /\ DOMAIN x = DOMAIN t.of
        BY <2>10, HeldParts, PartsOf
      <4> QED BY <4>1, SeqParts
    <3>2. DOMAIN r = 1 .. n /\ \A i \in 1 .. n : Stored(r[i], d - 1)
      <4>1. \A i \in 1 .. n : t.of[i] \in Parts(t) /\ x[i] \in Held(t.of[i])
        BY <2>10, <3>1, HeldParts, PartsOf
      <4> QED BY <2>2, <3>1, <4>1
    <3>3. SerializeAs(Serialize, t, x) = SerializeAll(r)
      BY <2>10 DEF SerializeAs, IntType
    <3> HIDE DEF r
    <3> QED BY <2>1, <3>1, <3>2, <3>3, AllStored
  <2>11. CASE t.t = "map"
    <3> DEFINE r == WrittenValues(t, x)
               c == WrittenKeys(t, x)
               n == Len(x)
    <3>1. SerializeAs(Serialize, t, x) = IF c.ok THEN Named(c.value, r) ELSE c
      BY <2>11 DEF SerializeAs, SerializeMap, WrittenKeys, WrittenValues, IntType
    <3>2. n \in Nat /\ DOMAIN x = 1 .. n /\ Result(c)
      BY <2>11, KeysWritten
    <3>3. c.ok => DOMAIN c.value = 1 .. n /\ \A i \in 1 .. n : c.value[i] \in STRING
      BY <2>11, <3>2, KeysWritten
    <3>4. DOMAIN r = 1 .. n /\ \A i \in 1 .. n : Stored(r[i], d - 1)
      <4>1. \A i \in 1 .. n : x[i][2] \in Held(t.of) /\ t.of \in Parts(t)
        BY <2>11, <3>2, KeysWritten, PartsOf
      <4> QED BY <2>2, <3>2, <4>1 DEF WrittenValues
    <3> HIDE DEF r, c
    <3>5. c.ok => Stored(Named(c.value, r), d)
      BY <2>1, <3>2, <3>3, <3>4, NamedStored
    <3>6. ~c.ok => Stored(c, d)
      BY <3>2 DEF Stored
    <3> QED BY <3>1, <3>5, <3>6
  <2>12. CASE t.t = "struct"
    <3> DEFINE r == [i \in DOMAIN x |-> Serialize[t.fields[i][2]][x[i]]]
               names == [i \in DOMAIN x |-> t.fields[i][1]]
               n == Len(t.fields)
    <3>1. n \in Nat /\ DOMAIN x = 1 .. n /\ \A i \in 1 .. n : t.fields[i] \in STRING \X Types
      <4> DEFINE E == STRING \X Types
      <4>1. t.fields \in Seq(E) /\ DOMAIN x = DOMAIN t.fields
        BY <2>12, HeldParts, PartsOf
      <4> HIDE DEF E
      <4> QED BY <4>1, SeqParts DEF E
    <3>2. DOMAIN r = 1 .. n /\ \A i \in 1 .. n : Stored(r[i], d - 1)
      <4>1. \A i \in 1 .. n : t.fields[i][2] \in Parts(t) /\ x[i] \in Held(t.fields[i][2])
        BY <2>12, <3>1, HeldParts, PartsOf
      <4> QED BY <2>2, <3>1, <4>1
    <3>3. DOMAIN names = 1 .. n /\ \A i \in 1 .. n : names[i] \in STRING
      BY <3>1
    <3>4. SerializeAs(Serialize, t, x) = Named(names, r)
      BY <2>12 DEF SerializeAs, SerializeStruct, IntType
    <3> HIDE DEF r, names
    <3> QED BY <2>1, <3>1, <3>2, <3>3, <3>4, NamedStored
  <2>13. CASE t.t = "enum"
    <3> DEFINE p == t.variants[x.variant]
               r == <<Serialize[p][x.data]>>
               names == <<x.variant>>
    <3>1. p \in Parts(t) /\ x.data \in Held(p) /\ x.variant \in STRING
      BY <2>13, HeldParts, PartsOf, TypeAssumption
    <3>2. SerializeAs(Serialize, t, x) = IF p.t = "unit" THEN Ok(String(x.variant)) ELSE Named(names, r)
      BY <2>13 DEF SerializeAs, SerializeEnum, IntType
    <3>3. Stored(Serialize[p][x.data], d - 1)
      BY <2>2, <3>1
    <3>4. DOMAIN r = 1 .. 1 /\ DOMAIN names = 1 .. 1 /\ \A i \in 1 .. 1 : names[i] \in STRING /\ Stored(r[i], d - 1)
      BY <3>1, <3>3
    <3>5. Stored(Ok(String(x.variant)), d)
      BY <2>1, <3>1, AtomsMade, StoredMade
    <3> HIDE DEF r, names
    <3>6. Stored(Named(names, r), d)
      BY <2>1, <3>4, NamedStored
    <3> QED BY <3>2, <3>5, <3>6
  <2> QED BY <2>4, <2>5, <2>6, <2>7, <2>8, <2>9, <2>10, <2>11, <2>12, <2>13, TypeNames
<1>2. \A t \in Types : t \in S
  <2> HIDE DEF S
  <2> QED BY <1>1, TypeInduction
<1> QED BY <1>2

-----------------------------------------------------------------------------
(* Every read has a result *)

LEMMA FieldRead ==
  ASSUME NEW field, NEW entries \in Seq(STRING \X Value),
         \A v \in Value : Result(Deserialize[field[2]][v])
  PROVE  Result(DeserializeField(Deserialize, field, entries))
<1> DEFINE E == STRING \X Value
           p == PlaceIn(entries, field[1])
<1>1. CASE ContainsKey(entries, field[1])
  <2>1. p \in DOMAIN entries
    BY <1>1, PlaceHasKey
  <2> HIDE DEF p
  <2>2. entries[p] \in E
    <3>1. entries \in Seq(E)
      OBVIOUS
    <3> HIDE DEF E
    <3> QED BY <2>1, <3>1, SeqParts
  <2>3. entries[p][2] \in Value
    BY <2>2
  <2> QED BY <1>1, <2>3 DEF DeserializeField, p
<1>2. CASE ~ContainsKey(entries, field[1])
  BY <1>2, ResultsMade DEF DeserializeField, Mismatch
<1> QED BY <1>1, <1>2

ReadsResult(t) == \A v \in Value : Result(Deserialize[t][v])

LEMMA DeserializeTyped ==
  \A t \in Types : ReadsResult(t)
<1> DEFINE S == {t \in Types : ReadsResult(t)}
<1>1. ASSUME NEW t \in Types, Parts(t) \subseteq S
      PROVE  t \in S
  <2>1. \A p \in Parts(t) : \A v \in Value : Result(Deserialize[p][v])
    BY <1>1 DEF ReadsResult
  <2> SUFFICES ASSUME NEW v \in Value
               PROVE  Result(DeserializeAs(Deserialize, t, v))
    BY DeserializeOf DEF ReadsResult
  <2>m. Result(Mismatch)
    BY ResultsMade DEF Mismatch
  <2>2. CASE t.t \in {"any", "unit", "bool", "f64", "str", "char", "bytes"} \cup IntType
    BY <2>2, <2>m, ResultsMade DEF DeserializeAs, DeserializeAny, IntType
  <2>3. CASE t.t = "option"
    <3>1. Result(Deserialize[t.of][v])
      BY <2>1, <2>3, PartsOf
    <3> QED BY <2>3, <3>1, ResultsMade DEF DeserializeAs, DeserializeOption, IntType
  <2>4. CASE t.t = "newtype"
    <3>1. Result(Deserialize[t.of][v])
      BY <2>1, <2>4, PartsOf
    <3> QED BY <2>4, <3>1 DEF DeserializeAs, IntType
  <2>5. CASE t.t = "seq" /\ v.kind = "Array"
    <3> DEFINE r == [i \in DOMAIN v.array |-> Deserialize[t.of][v.array[i]]]
    <3>1. DOMAIN v.array \subseteq Nat /\ \A i \in DOMAIN v.array : v.array[i] \in Value
      BY <2>5, InsideValue, SeqParts
    <3>2. DOMAIN r \subseteq Nat /\ \A i \in DOMAIN r : Result(r[i])
      BY <2>1, <2>5, <3>1, PartsOf
    <3>3. DeserializeAs(Deserialize, t, v) = Collected(r)
      BY <2>5 DEF DeserializeAs, DeserializeAll, IntType
    <3> HIDE DEF r
    <3> QED BY <3>2, <3>3, CollectedResults
  <2>6. CASE t.t = "tuple" /\ v.kind = "Array"
    <3> DEFINE r == [i \in DOMAIN t.of |-> Deserialize[t.of[i]][v.array[i]]]
    <3>1. /\ Len(v.array) \in Nat /\ DOMAIN v.array = 1 .. Len(v.array)
          /\ \A i \in DOMAIN v.array : v.array[i] \in Value
      BY <2>6, InsideValue, SeqParts
    <3>2. Len(t.of) \in Nat /\ DOMAIN t.of = 1 .. Len(t.of) /\ \A i \in DOMAIN t.of : t.of[i] \in Parts(t)
      <4>1. t.of \in Seq(Types) /\ \A i \in DOMAIN t.of : t.of[i] \in Parts(t)
        BY <2>6, PartsOf
      <4> QED BY <4>1, SeqParts
    <3>3. DeserializeAs(Deserialize, t, v) = IF Len(v.array) < Len(t.of) THEN Mismatch ELSE Collected(r)
      BY <2>6 DEF DeserializeAs, DeserializeTuple, IntType
    <3>4. ~(Len(v.array) < Len(t.of)) => \A i \in DOMAIN t.of : i \in DOMAIN v.array
      BY <3>1, <3>2
    <3>5. ~(Len(v.array) < Len(t.of)) => DOMAIN r \subseteq Nat /\ \A i \in DOMAIN r : Result(r[i])
      BY <2>1, <3>1, <3>2, <3>4
    <3> HIDE DEF r
    <3> QED BY <2>m, <3>3, <3>5, CollectedResults
  <2>7. CASE t.t = "map" /\ v.kind = "Document"
    BY <2>m, <2>7, ResultsMade DEF DeserializeAs, DeserializeMap, IntType
  <2>8. CASE t.t = "struct" /\ v.kind = "Document"
    <3> DEFINE r == [i \in DOMAIN t.fields |-> DeserializeField(Deserialize, t.fields[i], v.entries)]
    <3>1. v.entries \in Seq(STRING \X Value)
      BY <2>8, InsideValue
    <3>2. DOMAIN t.fields \subseteq Nat
      <4> DEFINE E == STRING \X Types
      <4>1. t.fields \in Seq(E)
        BY <2>8, PartsOf
      <4> HIDE DEF E
      <4>2. Len(t.fields) \in Nat /\ DOMAIN t.fields = 1 .. Len(t.fields)
        BY <4>1, SeqParts
      <4> QED BY <4>2
    <3>3. \A i \in DOMAIN t.fields : Result(DeserializeField(Deserialize, t.fields[i], v.entries))
      BY <2>1, <2>8, <3>1, PartsOf, FieldRead
    <3>4. DOMAIN r \subseteq Nat /\ \A i \in DOMAIN r : Result(r[i])
      BY <3>2, <3>3
    <3>5. DeserializeAs(Deserialize, t, v) = Collected(r)
      BY <2>8 DEF DeserializeAs, DeserializeStruct, IntType
    <3> HIDE DEF r
    <3> QED BY <3>4, <3>5, CollectedResults
  <2>9. CASE t.t = "enum"
    <3>1. DeserializeAs(Deserialize, t, v) = DeserializeEnum(Deserialize, t, v)
      BY <2>9 DEF DeserializeAs, IntType
    <3>2. CASE v.kind = "Document" /\ Len(v.entries) = 1
      <4> DEFINE w == v.entries[1][1]
                 u == v.entries[1][2]
      <4>1. u \in Value
        <5> DEFINE E == STRING \X Value
        <5>1. v.entries \in Seq(E)
          BY <3>2, InsideValue
        <5>2. v.entries[1] \in E
          <6> HIDE DEF E
          <6>1. DOMAIN v.entries = 1 .. 1
            BY <3>2, <5>1, SeqParts
          <6> QED BY <5>1, <6>1, SeqParts
        <5> QED BY <5>2
      <4>2. DeserializeEnum(Deserialize, t, v) = DeserializeVariant(Deserialize, t, w, u)
        BY <3>2 DEF DeserializeEnum
      <4> HIDE DEF w, u
      <4>3. w \in DOMAIN t.variants => Result(Deserialize[t.variants[w]][u])
        BY <2>1, <2>9, <4>1, PartsOf
      <4> QED BY <2>m, <3>1, <4>2, <4>3, ResultsMade DEF DeserializeVariant, Tagged
    <3>3. CASE ~(v.kind = "Document" /\ Len(v.entries) = 1)
      BY <2>m, <3>1, <3>3, ResultsMade DEF DeserializeEnum
    <3> QED BY <3>2, <3>3
  <2>10. CASE \/ t.t \in {"seq", "tuple"} /\ v.kind # "Array"
              \/ t.t \in {"map", "struct"} /\ v.kind # "Document"
    BY <2>m, <2>10 DEF DeserializeAs, IntType
  <2> QED BY <2>2, <2>3, <2>4, <2>5, <2>6, <2>7, <2>8, <2>9, <2>10, TypeNames
<1>2. \A t \in Types : t \in S
  <2> HIDE DEF S
  <2> QED BY <1>1, TypeInduction
<1> QED BY <1>2

LEMMA ReadsAreResults ==
  ASSUME NEW t \in Types, NEW v \in Value
  PROVE  Result(Deserialize[t][v])
BY DeserializeTyped DEF ReadsResult

LEMMA WritesAreStored ==
  ASSUME NEW t \in Types, NEW x \in Held(t)
  PROVE  /\ Result(Serialize[t][x])
         /\ Serialize[t][x].ok => /\ Serialize[t][x].value \in Unambiguous[Depth(t)]
                                  /\ Serialize[t][x].value \in Value
<1>1. Stored(Serialize[t][x], Depth(t)) /\ Depth(t) \in 0 .. Nesting
  BY SerializeTyped, DepthOf DEF WritesStored
<1> QED BY <1>1, UnambiguousAreValues, ValueIsTop DEF Stored

-----------------------------------------------------------------------------
(* What the composite types write *)

\* The i-th entry is a field and what it is written as.
StructEntries(t, x, e) ==
  /\ e \in Seq(STRING \X Value) /\ KeysOnce(e) /\ Len(e) = Len(t.fields)
  /\ \A i \in DOMAIN t.fields :
       /\ i \in DOMAIN e /\ e[i][1] = t.fields[i][1] /\ e[i][2] \in Value
       /\ Serialize[t.fields[i][2]][x[i]] = Ok(e[i][2])

LEMMA PairsInValue ==
  ASSUME NEW n \in 0 .. Nesting
  PROVE  /\ Unambiguous[n] \subseteq Value /\ Seq(Unambiguous[n]) \subseteq Seq(Value)
         /\ Seq(STRING \X Unambiguous[n]) \subseteq Seq(STRING \X Value)
<1>1. Unambiguous[n] \subseteq Value
  BY UnambiguousAreValues, ValueIsTop
<1> QED BY <1>1, SequencesGrow

LEMMA PairParts ==
  ASSUME NEW S, NEW e \in Seq(STRING \X S)
  PROVE  /\ Len(e) \in Nat /\ DOMAIN e = 1 .. Len(e)
         /\ \A i \in DOMAIN e : e[i] = <<e[i][1], e[i][2]>> /\ e[i][1] \in STRING /\ e[i][2] \in S
<1> DEFINE E == STRING \X S
<1>1. Len(e) \in Nat /\ DOMAIN e = 1 .. Len(e) /\ \A i \in DOMAIN e : e[i] \in E
  <2>1. e \in Seq(E)
    OBVIOUS
  <2> HIDE DEF E
  <2> QED BY <2>1, SeqParts
<1> QED BY <1>1

LEMMA FieldsOf ==
  ASSUME NEW t \in Types, t.t = "struct"
  PROVE  /\ Len(t.fields) \in Nat /\ DOMAIN t.fields = 1 .. Len(t.fields) /\ KeysOnce(t.fields)
         /\ \A i \in DOMAIN t.fields :
              /\ t.fields[i][1] \in STRING /\ t.fields[i][2] \in Types /\ t.fields[i][2] \in Parts(t)
              /\ t.fields[i] = <<t.fields[i][1], t.fields[i][2]>>
<1>1. t.fields \in Seq(STRING \X Types) /\ \A i \in DOMAIN t.fields : t.fields[i][2] \in Parts(t)
  BY PartsOf
<1>2. KeysOnce(t.fields)
  BY TypeAssumption DEF KeysOnce
<1> QED BY <1>1, <1>2, PairParts

LEMMA StructWritten ==
  ASSUME NEW t \in Types, t.t = "struct", NEW x \in Held(t), Serialize[t][x].ok
  PROVE  \E e : Serialize[t][x].value = Document(e) /\ StructEntries(t, x, e)
<1> DEFINE r == [i \in DOMAIN x |-> Serialize[t.fields[i][2]][x[i]]]
           names == [i \in DOMAIN x |-> t.fields[i][1]]
           n == Len(t.fields)
           d == Depth(t)
           p == NamedPairs(n, names, r)
           U == Unambiguous[d - 1]
<1>1. n \in Nat /\ DOMAIN x = 1 .. n /\ d \in 1 .. Nesting /\ d - 1 \in 0 .. Nesting
  BY FieldsOf, HeldParts, DepthOf
<1>2. ASSUME NEW i \in 1 .. n
      PROVE  Stored(r[i], d - 1) /\ r[i] = Serialize[t.fields[i][2]][x[i]]
             /\ names[i] = t.fields[i][1] /\ names[i] \in STRING
  <2> DEFINE q == t.fields[i][2]
  <2>1. q \in Parts(t) /\ q \in Types /\ x[i] \in Held(q) /\ Depth(q) \in 0 .. d - 1
    <3>1. q \in Parts(t) /\ q \in Types
      BY <1>1, FieldsOf
    <3>2. x[i] \in Held(q)
      BY <1>1, HeldParts
    <3> QED BY <3>1, <3>2, DepthOf
  <2>2. Stored(Serialize[q][x[i]], Depth(q))
    BY <2>1, SerializeTyped DEF WritesStored
  <2> HIDE DEF q, d
  <2>3. Stored(Serialize[q][x[i]], d - 1)
    BY <1>1, <2>1, <2>2, StoredGrows
  <2> QED BY <1>1, <2>3, FieldsOf DEF q
<1>3. DOMAIN r = 1 .. n /\ DOMAIN names = 1 .. n
  BY <1>1
<1>4. Serialize[t][x] = Named(names, r)
  BY SerializeOf DEF SerializeAs, SerializeStruct, IntType
<1> HIDE DEF r, names, d, n
<1>5. /\ \A i \in 1 .. n : r[i].ok
      /\ p \in Seq(STRING \X U) /\ Serialize[t][x].value = Document(Inserted(p))
  <2>1. /\ Named(names, r).ok <=> \A i \in 1 .. n : r[i].ok
        /\ Named(names, r).ok =>
              /\ NamedPairs(n, names, r) \in Seq(STRING \X Unambiguous[d - 1])
              /\ Named(names, r).value = Document(Inserted(NamedPairs(n, names, r)))
    <3>1. \A i \in 1 .. n : names[i] \in STRING /\ Stored(r[i], d - 1)
      BY <1>2
    <3> QED BY <1>1, <1>3, <3>1, NamedStored, ZenonT(60)
  <2> QED BY <1>4, <2>1
<1>6. DOMAIN p = 1 .. n /\ \A i \in 1 .. n : p[i] = <<names[i], r[i].value>>
  BY DEF NamedPairs
<1> HIDE DEF p
<1>7. KeysOnce(p)
  <2> SUFFICES ASSUME NEW i \in 1 .. n, NEW j \in 1 .. n, p[i][1] = p[j][1]
               PROVE  i = j
    BY <1>6 DEF KeysOnce
  <2>1. t.fields[i][1] = t.fields[j][1]
    BY <1>2, <1>6
  <2> QED BY <2>1, FieldsOf DEF KeysOnce, n
<1>8. Inserted(p) = p
  BY <1>5, <1>7, InsertedStays
<1>9. p \in Seq(STRING \X Value) /\ U \subseteq Value
  BY <1>1, <1>5, PairsInValue
<1>10. Len(p) = n
  BY <1>1, <1>6, <1>9, PairParts
<1>11. ASSUME NEW i \in 1 .. n
       PROVE  /\ i \in DOMAIN p /\ p[i][1] = t.fields[i][1] /\ p[i][2] \in Value
              /\ Serialize[t.fields[i][2]][x[i]] = Ok(p[i][2])
  <2>1. p[i][1] = names[i] /\ p[i][2] = r[i].value
    BY <1>6
  <2>2. r[i] = Ok(r[i].value)
    BY <1>2, <1>5 DEF Stored, Result
  <2>3. p[i][2] \in Value
    BY <1>6, <1>9, PairParts
  <2> QED BY <1>2, <1>6, <2>1, <2>2, <2>3
<1>12. StructEntries(t, x, p)
  <2>1. DOMAIN t.fields = 1 .. n
    BY FieldsOf DEF n
  <2> QED BY <1>7, <1>9, <1>10, <1>11, <2>1 DEF StructEntries, n
<1> QED BY <1>5, <1>8, <1>12

\* The entries of a map: in its order where keys come back, else of keys that do not.
MapEntries(t, x, e) ==
  /\ e \in Seq(STRING \X Value) /\ KeysOnce(e) /\ (e = <<>> <=> x = <<>>)
  /\ Textual(t.key) \/ x = <<>> =>
       /\ Len(e) = Len(x)
       /\ \A i \in DOMAIN x :
            /\ i \in DOMAIN e /\ e[i][2] \in Value
            /\ Serialize[t.of][x[i][2]] = Ok(e[i][2])
            /\ SerializeKey(t.key, x[i][1]) = Ok(e[i][1])
            /\ Deserialize[t.key][String(e[i][1])] = Ok(x[i][1])
  /\ ~Textual(t.key) /\ x # <<>> => \A s \in STRING : Deserialize[t.key][String(s)] = Mismatch

LEMMA MapWritten ==
  ASSUME NEW t \in Types, t.t = "map", NEW x \in Held(t), Serialize[t][x].ok
  PROVE  \E e : Serialize[t][x].value = Document(e) /\ MapEntries(t, x, e)
<1> DEFINE c == WrittenKeys(t, x)
           r == WrittenValues(t, x)
           names == c.value
           n == Len(x)
           d == Depth(t)
           p == NamedPairs(n, names, r)
           U == Unambiguous[d - 1]
<1>1. /\ n \in Nat /\ DOMAIN x = 1 .. n /\ d \in 1 .. Nesting /\ d - 1 \in 0 .. Nesting
      /\ t.key \in Types /\ t.of \in Types /\ Depth(t.of) \in 0 .. d - 1
      /\ \A i \in 1 .. n : x[i] = <<x[i][1], x[i][2]>> /\ x[i][1] \in Held(t.key) /\ x[i][2] \in Held(t.of)
  <2>1. t.key \in Parts(t) /\ t.of \in Parts(t)
    BY PartsOf
  <2> QED BY <2>1, KeysWritten, DepthOf
<1>2. ASSUME NEW i \in 1 .. n
      PROVE  Stored(r[i], d - 1) /\ r[i] = Serialize[t.of][x[i][2]]
  <2>1. r[i] = Serialize[t.of][x[i][2]]
    BY <1>1 DEF WrittenValues
  <2>2. Stored(Serialize[t.of][x[i][2]], Depth(t.of))
    BY <1>1, SerializeTyped DEF WritesStored
  <2> HIDE DEF d, n
  <2> QED BY <1>1, <2>1, <2>2, StoredGrows
<1>3. DOMAIN r = 1 .. n
  BY <1>1 DEF WrittenValues
<1>4. Serialize[t][x] = IF c.ok THEN Named(names, r) ELSE c
  BY SerializeOf DEF SerializeAs, SerializeMap, WrittenKeys, WrittenValues, IntType
<1>5. c.ok /\ DOMAIN names = 1 .. n
      /\ \A i \in 1 .. n : names[i] \in STRING /\ SerializeKey(t.key, x[i][1]) = Ok(names[i])
  <2>1. c.ok
    BY <1>4
  <2>2. names = [i \in DOMAIN x |-> SerializeKey(t.key, x[i][1]).value]
    BY <2>1, KeysWritten
  <2>3. ASSUME NEW i \in 1 .. n
        PROVE  names[i] \in STRING /\ SerializeKey(t.key, x[i][1]) = Ok(names[i])
    <3>1. SerializeKey(t.key, x[i][1]).ok /\ names[i] = SerializeKey(t.key, x[i][1]).value
      BY <1>1, <2>1, <2>2, KeysWritten
    <3>2. Result(SerializeKey(t.key, x[i][1])) /\ SerializeKey(t.key, x[i][1]).value \in STRING
      BY <1>1, <3>1, KeyIs
    <3> QED BY <3>1, <3>2 DEF Result
  <2> QED BY <1>1, <2>1, <2>2, <2>3
<1> HIDE DEF r, c, d, n
<1>6. /\ \A i \in 1 .. n : r[i].ok
      /\ p \in Seq(STRING \X U) /\ Serialize[t][x].value = Document(Inserted(p))
  <2>1. /\ Named(names, r).ok <=> \A i \in 1 .. n : r[i].ok
        /\ Named(names, r).ok =>
              /\ NamedPairs(n, names, r) \in Seq(STRING \X Unambiguous[d - 1])
              /\ Named(names, r).value = Document(Inserted(NamedPairs(n, names, r)))
    <3> HIDE DEF names
    <3>1. d \in 1 .. Nesting /\ n \in Nat
      BY <1>1
    <3>2. DOMAIN names = 1 .. n /\ \A i \in 1 .. n : names[i] \in STRING
      BY <1>5
    <3>3. DOMAIN r = 1 .. n /\ \A i \in 1 .. n : Stored(r[i], d - 1)
      BY <1>2, <1>3
    <3> QED BY <3>1, <3>2, <3>3, NamedStored, ZenonT(60)
  <2> QED BY <1>4, <1>5, <2>1
<1>7. DOMAIN p = 1 .. n /\ \A i \in 1 .. n : p[i] = <<names[i], r[i].value>>
  BY DEF NamedPairs
<1> HIDE DEF names
<1> DEFINE e == Inserted(p)
<1> HIDE DEF p
<1>8. ASSUME NEW i \in 1 .. n, Textual(t.key)
      PROVE  Deserialize[t.key][String(names[i])] = Ok(x[i][1])
  <2>1. SerializeKey(t.key, x[i][1]).ok /\ SerializeKey(t.key, x[i][1]).value = names[i]
    BY <1>5, ResultsMade
  <2> QED BY <1>1, <1>8, <2>1, KeyIs
<1>9. Textual(t.key) \/ x = <<>> => KeysOnce(p)
  <2>1. ASSUME Textual(t.key), NEW i \in 1 .. n, NEW j \in 1 .. n, p[i][1] = p[j][1]
        PROVE  i = j
    <3>1. names[i] = names[j]
      BY <1>7, <2>1
    <3>2. Ok(x[i][1]) = Ok(x[j][1])
      BY <1>8, <2>1, <3>1
    <3>3. x[i][1] = x[j][1]
      BY <3>2, ResultsMade
    <3>4. KeysOnce(x)
      BY HeldParts
    <3> QED BY <3>3, <3>4, <1>1 DEF KeysOnce
  <2>2. x = <<>> => n = 0
    BY DEF n
  <2> QED BY <1>7, <2>1, <2>2 DEF KeysOnce
<1>10. e \in Seq(STRING \X U) /\ e \in Seq(STRING \X Value) /\ KeysOnce(e) /\ p \in Seq(STRING \X Value)
  <2>1. e \in Seq(STRING \X U) /\ KeysOnce(e)
    BY <1>6, InsertedKeepsKeys
  <2> QED BY <1>1, <1>6, <2>1, PairsInValue
<1>11. Len(p) = n /\ (p = <<>> <=> x = <<>>) /\ \A i \in 1 .. n : p[i][2] \in Value
  <2>1. Len(p) \in Nat /\ DOMAIN p = 1 .. Len(p) /\ \A i \in DOMAIN p : p[i][2] \in Value
    BY <1>10, PairParts
  <2>2. Len(p) = n
    BY <1>1, <1>7, <2>1
  <2>3. p = <<>> <=> n = 0
    BY <1>10, <2>1, <2>2
  <2>4. x = <<>> <=> n = 0
    <3> DEFINE E == Held(t.key) \X Held(t.of)
    <3>1. x \in Seq(E)
      BY HeldParts
    <3> HIDE DEF E
    <3> QED BY <3>1 DEF n
  <2> QED BY <1>7, <2>1, <2>2, <2>3, <2>4
<1>12. e = <<>> <=> x = <<>>
  BY <1>6, <1>11, InsertedIsEmpty
<1>13. ASSUME Textual(t.key) \/ x = <<>>
       PROVE  /\ Len(e) = n
              /\ \A i \in 1 .. n : /\ i \in DOMAIN e /\ e[i][2] \in Value
                                   /\ Serialize[t.of][x[i][2]] = Ok(e[i][2])
                                   /\ SerializeKey(t.key, x[i][1]) = Ok(e[i][1])
                                   /\ Deserialize[t.key][String(e[i][1])] = Ok(x[i][1])
  <2>1. e = p
    BY <1>6, <1>9, <1>13, InsertedStays
  <2>2. ASSUME NEW i \in 1 .. n
        PROVE  /\ i \in DOMAIN p /\ p[i][2] \in Value
               /\ Serialize[t.of][x[i][2]] = Ok(p[i][2])
               /\ SerializeKey(t.key, x[i][1]) = Ok(p[i][1])
               /\ Deserialize[t.key][String(p[i][1])] = Ok(x[i][1])
    <3>1. p[i][1] = names[i] /\ p[i][2] = r[i].value /\ i \in DOMAIN p /\ p[i][2] \in Value
      BY <1>7, <1>11
    <3>2. r[i] = Ok(r[i].value)
      BY <1>2, <1>6 DEF Stored, Result
    <3>3. x # <<>>
      <4>1. n # 0
        BY <1>1
      <4> QED BY <4>1 DEF n
    <3> QED BY <1>2, <1>5, <1>8, <1>13, <3>1, <3>2, <3>3
  <2> QED BY <1>11, <2>1, <2>2
<1>14. ASSUME ~Textual(t.key), x # <<>>
       PROVE  \A s \in STRING : Deserialize[t.key][String(s)] = Mismatch
  <2>1. 1 \in 1 .. n
    <3> DEFINE E == Held(t.key) \X Held(t.of)
    <3>1. x \in Seq(E)
      BY HeldParts
    <3> HIDE DEF E
    <3> QED BY <3>1, <1>14 DEF n
  <2>2. SerializeKey(t.key, x[1][1]).ok /\ x[1][1] \in Held(t.key)
    BY <1>1, <1>5, <2>1, ResultsMade
  <2> QED BY <1>1, <1>14, <2>2, KeyIs
<1> HIDE DEF e
<1>15. MapEntries(t, x, e)
  BY <1>1, <1>10, <1>12, <1>13, <1>14 DEF MapEntries, n
<1> QED BY <1>6, <1>15 DEF e

\* An enum other than a unit variant is one entry.
LEMMA EnumWritten ==
  ASSUME NEW t \in Types, t.t = "enum", NEW x \in Held(t), Serialize[t][x].ok
  PROVE  LET p == t.variants[x.variant] IN
         IF p.t = "unit" THEN Serialize[t][x].value = String(x.variant)
         ELSE \E v \in Value : /\ Serialize[p][x.data] = Ok(v)
                               /\ Serialize[t][x].value = Document(<< <<x.variant, v>> >>)
<1> DEFINE p == t.variants[x.variant]
           r == <<Serialize[p][x.data]>>
           names == <<x.variant>>
           d == Depth(t)
           U == Unambiguous[d - 1]
           v == Serialize[p][x.data].value
<1>1. /\ p \in Types /\ x.data \in Held(p) /\ x.variant \in STRING
      /\ d \in 1 .. Nesting /\ d - 1 \in 0 .. Nesting /\ Depth(p) \in 0 .. d - 1
  <2>1. p \in Parts(t) /\ x.data \in Held(p) /\ x.variant \in STRING
    BY HeldParts, PartsOf, TypeAssumption
  <2> QED BY <2>1, DepthOf
<1>2. Serialize[t][x] = IF p.t = "unit" THEN Ok(String(x.variant)) ELSE Named(names, r)
  BY SerializeOf DEF SerializeAs, SerializeEnum, IntType
<1>3. CASE p.t = "unit"
  BY <1>2, <1>3, ResultsMade
<1>4. CASE p.t # "unit"
  <2>1. Stored(Serialize[p][x.data], d - 1)
    <3>1. Stored(Serialize[p][x.data], Depth(p))
      BY <1>1, SerializeTyped DEF WritesStored
    <3> HIDE DEF p, d
    <3> QED BY <1>1, <3>1, StoredGrows
  <2>2. DOMAIN r = 1 .. 1 /\ DOMAIN names = 1 .. 1 /\ r[1] = Serialize[p][x.data]
        /\ names[1] = x.variant /\ \A i \in 1 .. 1 : names[i] \in STRING /\ Stored(r[i], d - 1)
    BY <1>1, <2>1
  <2> DEFINE q == NamedPairs(1, names, r)
  <2> HIDE DEF r, names
  <2>3. /\ Named(names, r).ok <=> \A i \in 1 .. 1 : r[i].ok
        /\ Named(names, r).ok => /\ q \in Seq(STRING \X U)
                                 /\ Named(names, r).value = Document(Inserted(q))
    <3> HIDE DEF d, p
    <3>1. 1 \in Nat /\ d \in 1 .. Nesting /\ DOMAIN r = 1 .. 1 /\ DOMAIN names = 1 .. 1
      BY <1>1, <2>2
    <3>2. (\A i \in 1 .. 1 : names[i] \in STRING) /\ (\A i \in 1 .. 1 : Stored(r[i], d - 1))
      BY <2>2
    <3>3. /\ Named(names, r).ok <=> \A i \in 1 .. 1 : r[i].ok
          /\ Named(names, r).ok =>
                /\ NamedPairs(1, names, r) \in Seq(STRING \X Unambiguous[d - 1])
                /\ Named(names, r).value = Document(Inserted(NamedPairs(1, names, r)))
      BY <3>1, <3>2, NamedStored, ZenonT(60)
    <3> QED BY <3>3
  <2>4. q = << <<x.variant, v>> >>
    BY <2>2 DEF NamedPairs
  <2>5. Serialize[p][x.data].ok /\ q \in Seq(STRING \X U) /\ Serialize[t][x].value = Document(Inserted(q))
    BY <1>2, <1>4, <2>2, <2>3
  <2>6. KeysOnce(q)
    BY <2>4 DEF KeysOnce
  <2>7. Inserted(q) = q
    <3> HIDE DEF q
    <3> QED BY <2>5, <2>6, InsertedStays
  <2>8. Serialize[p][x.data] = Ok(v) /\ v \in Value
    BY <1>1, <2>5, WritesAreStored DEF Result
  <2> QED BY <1>4, <2>4, <2>5, <2>7, <2>8
<1> QED BY <1>3, <1>4

-----------------------------------------------------------------------------
(* What is written is read back *)

LEMMA FaithfulCases ==
  ASSUME NEW t \in Types, NEW x \in Held(t)
  PROVE  /\ t.t = "any" => (Faithful[t][x] <=> x \in Unambiguous[Nesting])
         /\ t.t \in {"unit", "bool", "f64", "str", "char", "bytes"} => Faithful[t][x]
         /\ t.t \in IntType => (Faithful[t][x] <=> x < Half)
         /\ t.t = "option" =>
              (Faithful[t][x] <=>
                 \A i \in DOMAIN x : Faithful[t.of][x[i]] /\ Serialize[t.of][x[i]] # Ok(Null))
         /\ t.t = "newtype" => (Faithful[t][x] <=> Faithful[t.of][x])
         /\ t.t = "seq" => (Faithful[t][x] <=> \A i \in DOMAIN x : Faithful[t.of][x[i]])
         /\ t.t = "tuple" => (Faithful[t][x] <=> \A i \in DOMAIN x : Faithful[t.of[i]][x[i]])
         /\ t.t = "map" =>
              (Faithful[t][x] <=>
                 (x = <<>> \/ Textual(t.key)) /\ \A i \in DOMAIN x : Faithful[t.of][x[i][2]])
         /\ t.t = "struct" => (Faithful[t][x] <=> \A i \in DOMAIN x : Faithful[t.fields[i][2]][x[i]])
         /\ t.t = "enum" =>
              (Faithful[t][x] <=> \/ t.variants[x.variant].t = "unit"
                                  \/ Faithful[t.variants[x.variant]][x.data])
<1>1. Faithful[t][x] =
        CASE t.t = "any" -> x \in Unambiguous[Nesting]
          [] t.t \in IntType -> x < Half
          [] t.t = "option" ->
               \A i \in DOMAIN x : Faithful[t.of][x[i]] /\ Serialize[t.of][x[i]] # Ok(Null)
          [] t.t = "newtype" -> Faithful[t.of][x]
          [] t.t = "seq" -> \A i \in DOMAIN x : Faithful[t.of][x[i]]
          [] t.t = "tuple" -> \A i \in DOMAIN x : Faithful[t.of[i]][x[i]]
          [] t.t = "map" -> /\ x = <<>> \/ Textual(t.key)
                            /\ \A i \in DOMAIN x : Faithful[t.of][x[i][2]]
          [] t.t = "struct" -> \A i \in DOMAIN x : Faithful[t.fields[i][2]][x[i]]
          [] t.t = "enum" -> \/ t.variants[x.variant].t = "unit"
                             \/ Faithful[t.variants[x.variant]][x.data]
          [] OTHER -> TRUE
  BY FaithfulSteps
<1>2. CASE t.t \in {"any", "unit", "bool", "f64", "str", "char", "bytes"} \cup IntType
  BY <1>1, <1>2 DEF IntType
<1>3. CASE t.t = "option"
  BY <1>1, <1>3 DEF IntType
<1>4. CASE t.t = "newtype"
  BY <1>1, <1>4 DEF IntType
<1>5. CASE t.t = "seq"
  BY <1>1, <1>5 DEF IntType
<1>6. CASE t.t = "tuple"
  BY <1>1, <1>6 DEF IntType
<1>7. CASE t.t = "map"
  BY <1>1, <1>7 DEF IntType
<1>8. CASE t.t = "struct"
  BY <1>1, <1>8 DEF IntType
<1>9. CASE t.t = "enum"
  BY <1>1, <1>9 DEF IntType
<1> QED BY <1>2, <1>3, <1>4, <1>5, <1>6, <1>7, <1>8, <1>9, TypeNames

\* A type reads what it wrote back, for the faithful values.
ReadsBack(t, x) ==
  Serialize[t][x].ok => (Deserialize[t][Serialize[t][x].value] = Ok(x) <=> Faithful[t][x])

ReadsParts(t) == \A p \in Parts(t) : \A x \in Held(p) : ReadsBack(p, x)

LEMMA PartReads ==
  ASSUME NEW t \in Types, ReadsParts(t), NEW p \in Parts(t), NEW x \in Held(p),
         NEW v, Serialize[p][x] = Ok(v)
  PROVE  /\ v \in Value
         /\ Deserialize[p][v] = Ok(x) <=> Faithful[p][x]
<1>1. Serialize[p][x].ok /\ Serialize[p][x].value = v /\ p \in Types
  BY ResultsMade, DepthOf
<1> QED BY <1>1, WritesAreStored DEF ReadsParts, ReadsBack

LEMMA AnyReadsBack ==
  ASSUME NEW t \in Types, t.t = "any", NEW x \in Held(t)
  PROVE  ReadsBack(t, x)
<1>1. Serialize[t][x] = Ok(Rebuilt[x]) /\ x \in Value
  BY SerializeOf, HeldAtoms DEF SerializeAs, SerializeAny, IntType
<1> DEFINE v == Rebuilt[x]
<1>2. Serialize[t][x].value = v /\ v \in Value /\ v \in Unambiguous[Nesting]
  BY <1>1, ResultsMade, WritesAreStored, RebuiltStays
<1>3. Deserialize[t][v] = Ok(Rebuilt[v])
  BY <1>2, DeserializeOf DEF DeserializeAs, DeserializeAny, IntType
<1>4. Rebuilt[v] = v
  BY <1>2, RebuiltStays
<1>5. v = x <=> x \in Unambiguous[Nesting]
  BY <1>1, RebuiltStays
<1>6. Faithful[t][x] <=> x \in Unambiguous[Nesting]
  BY FaithfulCases
<1> HIDE DEF v
<1>7. Ok(v) = Ok(x) <=> v = x
  BY ResultsMade
<1> QED BY <1>2, <1>3, <1>4, <1>5, <1>6, <1>7 DEF ReadsBack

LEMMA AtomsWritten ==
  ASSUME NEW t \in Types, NEW x \in Held(t)
  PROVE  /\ t.t = "unit" => Serialize[t][x] = Ok(Null)
         /\ t.t = "bool" => Serialize[t][x] = Ok(Bool(x))
         /\ t.t \in IntType => Serialize[t][x] = Ok(I64(AsI64(x)))
         /\ t.t = "f64" => Serialize[t][x] = Ok(F64(x))
         /\ t.t \in {"str", "char"} => Serialize[t][x] = Ok(String(x))
         /\ t.t = "bytes" => Serialize[t][x] = Ok(Bytes(x))
<1>1. Serialize[t][x] = SerializeAs(Serialize, t, x)
  BY SerializeOf
<1> DEFINE f == Serialize
           r == Serialize[t][x]
<1>2. r = SerializeAs(f, t, x)
  BY <1>1
<1> HIDE DEF r, f
<1>3. /\ t.t = "unit" => r = Ok(Null)
      /\ t.t = "bool" => r = Ok(Bool(x))
      /\ t.t \in IntType => r = Ok(I64(AsI64(x)))
      /\ t.t = "f64" => r = Ok(F64(x))
      /\ t.t \in {"str", "char"} => r = Ok(String(x))
      /\ t.t = "bytes" => r = Ok(Bytes(x))
  BY <1>2 DEF SerializeAs, IntType
<1> QED BY <1>3 DEF r

LEMMA AtomReadsBack ==
  ASSUME NEW t \in Types, t.t \in {"unit", "bool", "f64", "str", "char", "bytes"} \cup IntType,
         NEW x \in Held(t)
  PROVE  ReadsBack(t, x)
<1> DEFINE v == Serialize[t][x].value
<1>1. v \in Value
  <2>1. Serialize[t][x].ok
    BY AtomsWritten, ResultsMade
  <2> QED BY <2>1, WritesAreStored
<1>2. CASE t.t \in {"unit", "bool", "f64", "str", "char", "bytes"}
  <2>1. Faithful[t][x]
    BY <1>2, FaithfulCases
  <2>2. CASE t.t = "unit"
    <3>1. v = Null /\ x = <<>>
      BY <2>2, AtomsWritten, HeldAtoms, ResultsMade
    <3> HIDE DEF v
    <3>2. Deserialize[t][v] = Ok(<<>>)
      BY <2>2, <1>1, <3>1, DeserializeOf DEF DeserializeAs, IntType, Null
    <3> QED BY <2>1, <3>1, <3>2 DEF ReadsBack, v
  <2>3. CASE t.t = "bool"
    <3>1. v = Bool(x)
      BY <2>3, AtomsWritten, ResultsMade
    <3> HIDE DEF v
    <3>2. Deserialize[t][v] = Ok(x)
      BY <2>3, <1>1, <3>1, DeserializeOf DEF DeserializeAs, IntType, Bool
    <3> QED BY <2>1, <3>2 DEF ReadsBack, v
  <2>4. CASE t.t = "f64"
    <3>1. v = F64(x)
      BY <2>4, AtomsWritten, ResultsMade
    <3> HIDE DEF v
    <3>2. Deserialize[t][v] = Ok(x)
      BY <2>4, <1>1, <3>1, DeserializeOf DEF DeserializeAs, IntType, F64
    <3> QED BY <2>1, <3>2 DEF ReadsBack, v
  <2>5. CASE t.t \in {"str", "char"}
    <3>1. v = String(x) /\ (t.t = "char" => x \in Char)
      BY <2>5, AtomsWritten, HeldAtoms, ResultsMade
    <3> HIDE DEF v
    <3>2. Deserialize[t][v] = Ok(x)
      BY <2>5, <1>1, <3>1, DeserializeOf DEF DeserializeAs, IntType, String
    <3> QED BY <2>1, <3>2 DEF ReadsBack, v
  <2>6. CASE t.t = "bytes"
    <3>1. v = Bytes(x)
      BY <2>6, AtomsWritten, ResultsMade
    <3> HIDE DEF v
    <3>2. Deserialize[t][v] = Ok(x)
      BY <2>6, <1>1, <3>1, DeserializeOf DEF DeserializeAs, IntType, Bytes
    <3> QED BY <2>1, <3>2 DEF ReadsBack, v
  <2> QED BY <1>2, <2>2, <2>3, <2>4, <2>5, <2>6
<1>3. CASE t.t \in IntType
  <2> DEFINE n == AsI64(x)
  <2>1. x \in RangeOf(t.t) /\ x \in Int /\ -Half <= x /\ Half \in Nat
    BY <1>3, IntHolds, WidthAssumption
  <2>2. v = I64(n)
    BY <1>3, AtomsWritten, ResultsMade
  <2>3. n \in -Half .. Half - 1 /\ (x < Half => n = x)
    BY <2>1, AsI64InRange, AsI64Keeps
  <2> HIDE DEF n
  <2>4. Deserialize[t][v] = IF n \in RangeOf(t.t) THEN Ok(n) ELSE Mismatch
    BY <1>1, <1>3, <2>2, DeserializeOf DEF DeserializeAs, IntType, I64
  <2>5. Faithful[t][x] <=> x < Half
    BY <1>3, FaithfulCases
  <2>6. CASE x < Half
    BY <2>1, <2>3, <2>4, <2>5, <2>6 DEF ReadsBack
  <2>7. CASE ~(x < Half)
    <3>1. n # x
      BY <2>1, <2>3, <2>7
    <3>2. Deserialize[t][v] # Ok(x)
      BY <2>4, <3>1, ResultsMade DEF Mismatch
    <3> QED BY <2>5, <2>7, <3>2 DEF ReadsBack
  <2> QED BY <2>6, <2>7
<1> QED BY <1>2, <1>3

LEMMA OptionReadsBack ==
  ASSUME NEW t \in Types, t.t = "option", NEW x \in Held(t), ReadsParts(t), Serialize[t][x].ok
  PROVE  ReadsBack(t, x)
<1>1. Serialize[t][x] = IF x = <<>> THEN Ok(Null) ELSE Serialize[t.of][x[1]]
  BY SerializeOf DEF SerializeAs, SerializeOption, IntType
<1> DEFINE v == Serialize[t][x].value
           some == Deserialize[t.of][v]
<1>2. v \in Value /\ t.of \in Types /\ t.of \in Parts(t) /\ Result(some)
  BY WritesAreStored, PartsOf, ReadsAreResults
<1>3. Deserialize[t][v] = IF v = Null THEN Ok(<<>>) ELSE IF some.ok THEN Ok(<<some.value>>) ELSE some
  <2> HIDE DEF v
  <2>1. Deserialize[t][v] = DeserializeAs(Deserialize, t, v)
    BY <1>2, DeserializeOf
  <2>2. DeserializeAs(Deserialize, t, v) = DeserializeOption(Deserialize, t, v)
    BY DEF DeserializeAs, IntType
  <2> QED BY <2>1, <2>2 DEF DeserializeOption
<1>4. CASE x = <<>>
  <2>1. v = Null
    BY <1>1, <1>4, ResultsMade
  <2>2. Faithful[t][x]
    BY <1>4, FaithfulCases
  <2> QED BY <1>3, <1>4, <2>1, <2>2 DEF ReadsBack
<1>5. CASE x # <<>>
  <2> DEFINE y == x[1]
  <2>1. x = <<y>> /\ y \in Held(t.of) /\ DOMAIN x = {1}
    BY <1>5, HeldParts
  <2>2. Serialize[t.of][y] = Ok(v)
    BY <1>1, <1>5, WritesAreStored DEF Result
  <2>3. some = Ok(y) <=> Faithful[t.of][y]
    BY <1>2, <2>1, <2>2, PartReads
  <2>4. Faithful[t][x] <=> Faithful[t.of][y] /\ v # Null
    <3>1. Faithful[t][x] <=> Faithful[t.of][y] /\ Serialize[t.of][y] # Ok(Null)
      BY <2>1, FaithfulCases
    <3>2. Serialize[t.of][y] = Ok(Null) <=> v = Null
      BY <2>2, ResultsMade
    <3> QED BY <3>1, <3>2
  <2> HIDE DEF v, some, y
  <2>5. some = Ok(y) <=> some.ok /\ some.value = y
    BY <1>2, ResultIsOk
  <2>6. <<some.value>> = x <=> some.value = y
    BY <2>1
  <2>7. Ok(<<>>) # Ok(x)
    BY <1>5, ResultsMade
  <2>8. Deserialize[t][v] = Ok(x) <=> v # Null /\ some.ok /\ some.value = y
    BY <1>2, <1>3, <2>6, <2>7, ResultsMade
  <2> QED BY <2>3, <2>4, <2>5, <2>8 DEF ReadsBack, v
<1> QED BY <1>4, <1>5

LEMMA SeqReadsBack ==
  ASSUME NEW t \in Types, t.t = "seq", NEW x \in Held(t), ReadsParts(t), Serialize[t][x].ok
  PROVE  ReadsBack(t, x)
<1> DEFINE r == [i \in DOMAIN x |-> Serialize[t.of][x[i]]]
           n == Len(x)
           d == Depth(t)
           s == [i \in 1 .. n |-> r[i].value]
           g == [i \in DOMAIN s |-> Deserialize[t.of][s[i]]]
           v == Serialize[t][x].value
<1>1. /\ n \in Nat /\ DOMAIN x = 1 .. n /\ x = [i \in DOMAIN x |-> x[i]]
      /\ \A i \in 1 .. n : x[i] \in Held(t.of)
      /\ t.of \in Parts(t) /\ t.of \in Types /\ Depth(t.of) \in 0 .. d - 1 /\ d \in 1 .. Nesting
      /\ d - 1 \in 0 .. Nesting
  <2>1. x \in Seq(Held(t.of)) /\ t.of \in Parts(t)
    BY HeldParts, PartsOf
  <2> QED BY <2>1, SeqParts, DepthOf
<1>2. Serialize[t][x] = SerializeAll(r)
  BY SerializeOf DEF SerializeAs, IntType
<1>3. ASSUME NEW i \in 1 .. n
      PROVE  Stored(r[i], d - 1) /\ r[i] = Serialize[t.of][x[i]]
  <2>1. Stored(Serialize[t.of][x[i]], Depth(t.of))
    BY <1>1, SerializeTyped DEF WritesStored
  <2> HIDE DEF d, n
  <2> QED BY <1>1, <2>1, StoredGrows
<1>4. DOMAIN r = 1 .. n
  BY <1>1
<1> HIDE DEF r, d
<1>5. (\A i \in 1 .. n : r[i].ok) /\ v = Array(s)
  <2> HIDE DEF n
  <2>1. /\ SerializeAll(r).ok <=> \A i \in 1 .. n : r[i].ok
        /\ SerializeAll(r).ok => SerializeAll(r).value = Array([i \in 1 .. n |-> r[i].value])
    <3>1. d \in 1 .. Nesting /\ n \in Nat
      BY <1>1
    <3>2. \A i \in 1 .. n : Stored(r[i], d - 1)
      BY <1>3
    <3> QED BY <1>4, <3>1, <3>2, AllStored, SMTT(30)
  <2> QED BY <1>2, <2>1
<1>6. ASSUME NEW i \in 1 .. n
      PROVE  s[i] \in Value /\ (Deserialize[t.of][s[i]] = Ok(x[i]) <=> Faithful[t.of][x[i]])
             /\ Result(Deserialize[t.of][s[i]])
  <2>1. Serialize[t.of][x[i]] = Ok(s[i])
    BY <1>3, <1>5 DEF Stored, Result
  <2> HIDE DEF s
  <2>2. s[i] \in Value /\ (Deserialize[t.of][s[i]] = Ok(x[i]) <=> Faithful[t.of][x[i]])
    BY <1>1, <2>1, PartReads
  <2> QED BY <1>1, <2>2, ReadsAreResults
<1>7. DOMAIN g = 1 .. n /\ DOMAIN g \subseteq Nat /\ DOMAIN x = DOMAIN g
      /\ \A i \in DOMAIN g : Result(g[i]) /\ (g[i] = Ok(x[i]) <=> Faithful[t.of][x[i]])
  <2>1. DOMAIN s = 1 .. n
    OBVIOUS
  <2> HIDE DEF s, n
  <2>2. DOMAIN g = 1 .. n /\ \A i \in 1 .. n : g[i] = Deserialize[t.of][s[i]]
    BY <1>1, <2>1
  <2> HIDE DEF g
  <2> QED BY <1>1, <1>6, <2>2
<1>8. Deserialize[t][v] = Collected(g)
  <2>1. v \in Value
    BY WritesAreStored
  <2>2. v.kind = "Array" /\ v.array = s
    BY <1>5 DEF Array
  <2> HIDE DEF v, s
  <2> QED BY <2>1, <2>2, DeserializeOf DEF DeserializeAs, DeserializeAll, IntType
<1>9. Faithful[t][x] <=> \A i \in DOMAIN x : Faithful[t.of][x[i]]
  BY FaithfulCases
<1> HIDE DEF g, v
<1>10. Collected(g) = Ok(x) <=> \A i \in DOMAIN g : g[i] = Ok(x[i])
  BY <1>1, <1>7, CollectedIsOk
<1> QED BY <1>7, <1>8, <1>9, <1>10 DEF ReadsBack, v

LEMMA TupleReadsBack ==
  ASSUME NEW t \in Types, t.t = "tuple", NEW x \in Held(t), ReadsParts(t), Serialize[t][x].ok
  PROVE  ReadsBack(t, x)
<1> DEFINE r == [i \in DOMAIN x |-> Serialize[t.of[i]][x[i]]]
           n == Len(t.of)
           d == Depth(t)
           s == [i \in 1 .. n |-> r[i].value]
           g == [i \in DOMAIN t.of |-> Deserialize[t.of[i]][s[i]]]
           v == Serialize[t][x].value
<1>1. /\ n \in Nat /\ DOMAIN t.of = 1 .. n /\ DOMAIN x = 1 .. n /\ x = [i \in DOMAIN x |-> x[i]]
      /\ d \in 1 .. Nesting /\ d - 1 \in 0 .. Nesting
      /\ \A i \in 1 .. n : x[i] \in Held(t.of[i]) /\ t.of[i] \in Parts(t) /\ t.of[i] \in Types
                             /\ Depth(t.of[i]) \in 0 .. d - 1
  <2>1. t.of \in Seq(Types) /\ \A i \in DOMAIN t.of : t.of[i] \in Parts(t)
    BY PartsOf
  <2>2. n \in Nat /\ DOMAIN t.of = 1 .. n
    BY <2>1, SeqParts
  <2> QED BY <2>1, <2>2, HeldParts, DepthOf
<1>2. Serialize[t][x] = SerializeAll(r)
  BY SerializeOf DEF SerializeAs, IntType
<1>3. ASSUME NEW i \in 1 .. n
      PROVE  Stored(r[i], d - 1) /\ r[i] = Serialize[t.of[i]][x[i]]
  <2>1. Stored(Serialize[t.of[i]][x[i]], Depth(t.of[i]))
    BY <1>1, SerializeTyped DEF WritesStored
  <2> HIDE DEF d, n
  <2> QED BY <1>1, <2>1, StoredGrows
<1>4. DOMAIN r = 1 .. n
  BY <1>1
<1> HIDE DEF r, d
<1>5. (\A i \in 1 .. n : r[i].ok) /\ v = Array(s)
  <2> HIDE DEF n
  <2>1. /\ SerializeAll(r).ok <=> \A i \in 1 .. n : r[i].ok
        /\ SerializeAll(r).ok => SerializeAll(r).value = Array([i \in 1 .. n |-> r[i].value])
    <3>1. d \in 1 .. Nesting /\ n \in Nat
      BY <1>1
    <3>2. \A i \in 1 .. n : Stored(r[i], d - 1)
      BY <1>3
    <3> QED BY <1>4, <3>1, <3>2, AllStored, SMTT(30)
  <2> QED BY <1>2, <2>1
<1>6. ASSUME NEW i \in 1 .. n
      PROVE  s[i] \in Value /\ (Deserialize[t.of[i]][s[i]] = Ok(x[i]) <=> Faithful[t.of[i]][x[i]])
             /\ Result(Deserialize[t.of[i]][s[i]])
  <2>1. Serialize[t.of[i]][x[i]] = Ok(s[i])
    BY <1>3, <1>5 DEF Stored, Result
  <2> HIDE DEF s
  <2>2. s[i] \in Value /\ (Deserialize[t.of[i]][s[i]] = Ok(x[i]) <=> Faithful[t.of[i]][x[i]])
    BY <1>1, <2>1, PartReads
  <2> QED BY <1>1, <2>2, ReadsAreResults
<1>7. DOMAIN g = 1 .. n /\ DOMAIN g \subseteq Nat /\ DOMAIN x = DOMAIN g
      /\ \A i \in DOMAIN g : Result(g[i]) /\ (g[i] = Ok(x[i]) <=> Faithful[t.of[i]][x[i]])
  <2>1. DOMAIN s = 1 .. n
    OBVIOUS
  <2> HIDE DEF s, n
  <2>2. DOMAIN g = 1 .. n /\ \A i \in 1 .. n : g[i] = Deserialize[t.of[i]][s[i]]
    BY <1>1, <2>1
  <2> HIDE DEF g
  <2> QED BY <1>1, <1>6, <2>2
<1>8. Deserialize[t][v] = Collected(g)
  <2>1. v \in Value
    BY WritesAreStored
  <2>2. v.kind = "Array" /\ v.array = s
    BY <1>5 DEF Array
  <2>3. Len(s) = n
    BY <1>1
  <2> HIDE DEF v, s
  <2>4. ~(Len(v.array) < Len(t.of))
    BY <1>1, <2>2, <2>3
  <2>5. DeserializeTuple(Deserialize, t.of, v.array) = Collected(g)
    BY <2>2, <2>4 DEF DeserializeTuple
  <2> HIDE DEF g
  <2> QED BY <2>1, <2>2, <2>5, DeserializeOf DEF DeserializeAs, IntType
<1>9. Faithful[t][x] <=> \A i \in DOMAIN x : Faithful[t.of[i]][x[i]]
  BY FaithfulCases
<1> HIDE DEF g, v
<1>10. Collected(g) = Ok(x) <=> \A i \in DOMAIN g : g[i] = Ok(x[i])
  BY <1>1, <1>7, CollectedIsOk
<1> QED BY <1>7, <1>8, <1>9, <1>10 DEF ReadsBack, v

\* The entries of g under the names of the fields are those of e.
Serves(t, g, e) ==
  \A i \in DOMAIN t.fields :
    ContainsKey(g, t.fields[i][1]) /\ g[PlaceIn(g, t.fields[i][1])][2] = e[i][2]

LEMMA FieldsReadBack ==
  ASSUME NEW t \in Types, t.t = "struct", NEW x \in Held(t), ReadsParts(t),
         NEW e, StructEntries(t, x, e), NEW g \in Seq(STRING \X Value), Serves(t, g, e)
  PROVE  /\ DeserializeStruct(Deserialize, t, g) = Ok(x) <=> Faithful[t][x]
         /\ \A i \in DOMAIN t.fields :
              /\ Result(DeserializeField(Deserialize, t.fields[i], g))
              /\ DeserializeField(Deserialize, t.fields[i], g) = Ok(x[i]) <=> Faithful[t.fields[i][2]][x[i]]
<1> DEFINE r == [i \in DOMAIN t.fields |-> DeserializeField(Deserialize, t.fields[i], g)]
           n == Len(t.fields)
<1>1. n \in Nat /\ DOMAIN t.fields = 1 .. n /\ DOMAIN x = 1 .. n /\ x = [i \in DOMAIN x |-> x[i]]
  BY FieldsOf, HeldParts
<1>2. ASSUME NEW i \in 1 .. n
      PROVE  /\ Result(DeserializeField(Deserialize, t.fields[i], g))
             /\ DeserializeField(Deserialize, t.fields[i], g) = Ok(x[i]) <=> Faithful[t.fields[i][2]][x[i]]
  <2> DEFINE q == t.fields[i][2]
             v == e[i][2]
  <2>1. q \in Parts(t) /\ q \in Types /\ x[i] \in Held(q) /\ Serialize[q][x[i]] = Ok(v)
    BY <1>1, FieldsOf, HeldParts DEF StructEntries
  <2>2. v \in Value /\ (Deserialize[q][v] = Ok(x[i]) <=> Faithful[q][x[i]])
    <3> HIDE DEF q, v
    <3> QED BY <2>1, PartReads
  <2>3. DeserializeField(Deserialize, t.fields[i], g) = Deserialize[q][v]
    BY <1>1 DEF DeserializeField, Serves
  <2> HIDE DEF q, v
  <2>4. Result(Deserialize[q][v])
    BY <2>1, <2>2, ReadsAreResults
  <2> QED BY <2>2, <2>3, <2>4 DEF q
<1>3. DOMAIN r = 1 .. n /\ DOMAIN r \subseteq Nat /\ DOMAIN x = DOMAIN r
      /\ \A i \in DOMAIN r : Result(r[i]) /\ (r[i] = Ok(x[i]) <=> Faithful[t.fields[i][2]][x[i]])
  BY <1>1, <1>2
<1>4. DeserializeStruct(Deserialize, t, g) = Collected(r)
  BY DEF DeserializeStruct
<1>5. Faithful[t][x] <=> \A i \in DOMAIN x : Faithful[t.fields[i][2]][x[i]]
  BY FaithfulCases
<1> HIDE DEF r, n
<1>6. Collected(r) = Ok(x) <=> \A i \in DOMAIN r : r[i] = Ok(x[i])
  <2>1. \A i \in DOMAIN r : Result(r[i])
    BY <1>3
  <2>2. DOMAIN x = DOMAIN r /\ DOMAIN r \subseteq Nat
    BY <1>3
  <2>3. x = [i \in DOMAIN x |-> x[i]]
    BY <1>1
  <2> QED BY <2>1, <2>2, <2>3, CollectedIsOk
<1> QED BY <1>1, <1>2, <1>3, <1>4, <1>5, <1>6

LEMMA StructReadsBack ==
  ASSUME NEW t \in Types, t.t = "struct", NEW x \in Held(t), ReadsParts(t), Serialize[t][x].ok
  PROVE  ReadsBack(t, x)
<1>1. PICK e : Serialize[t][x].value = Document(e) /\ StructEntries(t, x, e)
  BY StructWritten
<1>2. e \in Seq(STRING \X Value) /\ KeysOnce(e)
  BY <1>1 DEF StructEntries
<1>3. Serves(t, e, e)
  <2> SUFFICES ASSUME NEW i \in DOMAIN t.fields
               PROVE  ContainsKey(e, t.fields[i][1]) /\ e[PlaceIn(e, t.fields[i][1])][2] = e[i][2]
    BY DEF Serves
  <2>1. i \in DOMAIN e /\ e[i][1] = t.fields[i][1]
    BY <1>1 DEF StructEntries
  <2>2. ContainsKey(e, e[i][1]) /\ PlaceIn(e, e[i][1]) = i
    BY <1>2, <2>1, OnlyPlace
  <2> QED BY <2>1, <2>2
<1>4. DeserializeStruct(Deserialize, t, e) = Ok(x) <=> Faithful[t][x]
  BY <1>1, <1>2, <1>3, FieldsReadBack
<1> DEFINE v == Document(e)
<1>5. v \in Value
  BY <1>1, WritesAreStored
<1>6. v.kind = "Document" /\ v.entries = e
  BY DEF Document
<1> HIDE DEF v
<1>7. Deserialize[t][v] = DeserializeStruct(Deserialize, t, e)
  BY <1>5, <1>6, DeserializeOf DEF DeserializeAs, IntType
<1> QED BY <1>1, <1>4, <1>7 DEF ReadsBack, v

\* The keys and the values of a map as they are read.
ReadKeys(t, e) == Collected([i \in DOMAIN e |-> Deserialize[t.key][String(e[i][1])]])
ReadValues(t, e) == Collected([i \in DOMAIN e |-> Deserialize[t.of][e[i][2]]])

LEMMA MapRead ==
  ASSUME NEW t \in Types, t.t = "map", NEW e \in Seq(STRING \X Value), Document(e) \in Value
  PROVE  /\ Deserialize[t][Document(e)] =
              IF ReadKeys(t, e).ok /\ ReadValues(t, e).ok
              THEN Ok([i \in DOMAIN e |-> <<ReadKeys(t, e).value[i], ReadValues(t, e).value[i]>>])
              ELSE Mismatch
         /\ ReadKeys(t, e).ok <=> \A i \in DOMAIN e : Deserialize[t.key][String(e[i][1])].ok
         /\ ReadKeys(t, e).ok =>
              ReadKeys(t, e).value = [i \in DOMAIN e |-> Deserialize[t.key][String(e[i][1])].value]
         /\ ReadValues(t, e).ok <=> \A i \in DOMAIN e : Deserialize[t.of][e[i][2]].ok
         /\ ReadValues(t, e).ok =>
              ReadValues(t, e).value = [i \in DOMAIN e |-> Deserialize[t.of][e[i][2]].value]
<1> DEFINE v == Document(e)
           f == [i \in DOMAIN e |-> Deserialize[t.key][String(e[i][1])]]
           g == [i \in DOMAIN e |-> Deserialize[t.of][e[i][2]]]
<1>1. v \in Value /\ v.kind = "Document" /\ v.entries = e
  BY DEF Document
<1> HIDE DEF v
<1>2. Deserialize[t][v] =
        IF ReadKeys(t, e).ok /\ ReadValues(t, e).ok
        THEN Ok([i \in DOMAIN e |-> <<ReadKeys(t, e).value[i], ReadValues(t, e).value[i]>>])
        ELSE Mismatch
  <2>1. Deserialize[t][v] = DeserializeMap(Deserialize, t, e)
    BY <1>1, DeserializeOf DEF DeserializeAs, IntType
  <2> QED BY <2>1 DEF DeserializeMap, ReadKeys, ReadValues
<1>3. /\ t.key \in Types /\ t.of \in Types /\ DOMAIN e \subseteq Nat
      /\ \A i \in DOMAIN e : String(e[i][1]) \in Value /\ e[i][2] \in Value
  <2>1. t.key \in Types /\ t.of \in Types
    BY PartsOf
  <2>2. Len(e) \in Nat /\ DOMAIN e = 1 .. Len(e) /\ \A i \in DOMAIN e : e[i][1] \in STRING /\ e[i][2] \in Value
    BY PairParts
  <2>3. DOMAIN e \subseteq Nat
    BY <2>2
  <2> QED BY <2>1, <2>2, <2>3, StringIsValue
<1>4. \A i \in DOMAIN e : /\ Result(f[i]) /\ f[i] = Deserialize[t.key][String(e[i][1])]
                          /\ Result(g[i]) /\ g[i] = Deserialize[t.of][e[i][2]]
  BY <1>3, ReadsAreResults
<1>5. DOMAIN f = DOMAIN e /\ DOMAIN g = DOMAIN e
      /\ ReadKeys(t, e) = Collected(f) /\ ReadValues(t, e) = Collected(g)
  BY DEF ReadKeys, ReadValues
<1> HIDE DEF f, g
<1>6. /\ ReadKeys(t, e).ok <=> \A i \in DOMAIN e : f[i].ok
      /\ ReadKeys(t, e).ok => ReadKeys(t, e).value = [i \in DOMAIN e |-> f[i].value]
  BY <1>3, <1>4, <1>5, CollectedResults
<1>7. /\ ReadValues(t, e).ok <=> \A i \in DOMAIN e : g[i].ok
      /\ ReadValues(t, e).ok => ReadValues(t, e).value = [i \in DOMAIN e |-> g[i].value]
  BY <1>3, <1>4, <1>5, CollectedResults
<1>8. /\ ReadKeys(t, e).ok <=> \A i \in DOMAIN e : Deserialize[t.key][String(e[i][1])].ok
      /\ ReadKeys(t, e).ok =>
           ReadKeys(t, e).value = [i \in DOMAIN e |-> Deserialize[t.key][String(e[i][1])].value]
  BY <1>4, <1>6
<1>9. /\ ReadValues(t, e).ok <=> \A i \in DOMAIN e : Deserialize[t.of][e[i][2]].ok
      /\ ReadValues(t, e).ok =>
           ReadValues(t, e).value = [i \in DOMAIN e |-> Deserialize[t.of][e[i][2]].value]
  BY <1>4, <1>7
<1> QED BY <1>2, <1>8, <1>9 DEF v

\* y holds a pair for every index of g.
PairsOver(g, y) == y = [i \in DOMAIN g |-> <<y[i][1], y[i][2]>>]

\* A map is read as y when each key and each value is read as y has it.
LEMMA MapReadIs ==
  ASSUME NEW t \in Types, t.t = "map", NEW g \in Seq(STRING \X Value), Document(g) \in Value,
         NEW y, PairsOver(g, y)
  PROVE  Deserialize[t][Document(g)] = Ok(y) <=>
           \A i \in DOMAIN g : /\ Deserialize[t.key][String(g[i][1])] = Ok(y[i][1])
                               /\ Deserialize[t.of][g[i][2]] = Ok(y[i][2])
<1> DEFINE K(i) == Deserialize[t.key][String(g[i][1])]
           V(i) == Deserialize[t.of][g[i][2]]
           ks == ReadKeys(t, g)
           vs == ReadValues(t, g)
           m == [i \in DOMAIN g |-> <<ks.value[i], vs.value[i]>>]
           r == Deserialize[t][Document(g)]
<1>1. /\ r = IF ks.ok /\ vs.ok THEN Ok(m) ELSE Mismatch
      /\ ks.ok <=> \A i \in DOMAIN g : K(i).ok
      /\ ks.ok => ks.value = [i \in DOMAIN g |-> K(i).value]
      /\ vs.ok <=> \A i \in DOMAIN g : V(i).ok
      /\ vs.ok => vs.value = [i \in DOMAIN g |-> V(i).value]
  BY MapRead
<1>2. ASSUME NEW i \in DOMAIN g
      PROVE  /\ K(i) = Ok(y[i][1]) <=> K(i).ok /\ K(i).value = y[i][1]
             /\ V(i) = Ok(y[i][2]) <=> V(i).ok /\ V(i).value = y[i][2]
  <2>1. g[i][1] \in STRING /\ g[i][2] \in Value /\ t.key \in Types /\ t.of \in Types
    BY PairParts, PartsOf
  <2>2. Result(K(i)) /\ Result(V(i))
    BY <2>1, StringIsValue, ReadsAreResults
  <2> QED BY <2>2, ResultIsOk
<1> HIDE DEF ks, vs, r, K, V
<1>3. ASSUME ks.ok, vs.ok
      PROVE  m = y <=> \A i \in DOMAIN g : K(i).value = y[i][1] /\ V(i).value = y[i][2]
  <2>1. m = [i \in DOMAIN g |-> <<K(i).value, V(i).value>>]
    BY <1>1, <1>3
  <2> HIDE DEF m
  <2>2. ASSUME m = y, NEW i \in DOMAIN g
        PROVE  K(i).value = y[i][1] /\ V(i).value = y[i][2]
    <3>1. m[i] = <<K(i).value, V(i).value>>
      BY <2>1
    <3> QED BY <2>2, <3>1
  <2>3. ASSUME \A i \in DOMAIN g : K(i).value = y[i][1] /\ V(i).value = y[i][2]
        PROVE  m = y
    BY <2>1, <2>3 DEF PairsOver
  <2> QED BY <2>2, <2>3
<1> HIDE DEF m
<1>4. r = Ok(y) <=> ks.ok /\ vs.ok /\ m = y
  <2>1. Mismatch # Ok(y) /\ (Ok(m) = Ok(y) <=> m = y)
    BY ResultsMade DEF Mismatch
  <2> QED BY <1>1, <2>1
<1>5. r = Ok(y) <=> \A i \in DOMAIN g : K(i) = Ok(y[i][1]) /\ V(i) = Ok(y[i][2])
  BY <1>1, <1>2, <1>3, <1>4
<1> QED BY <1>5 DEF r, K, V

LEMMA MapReadsBack ==
  ASSUME NEW t \in Types, t.t = "map", NEW x \in Held(t), ReadsParts(t), Serialize[t][x].ok
  PROVE  ReadsBack(t, x)
<1>1. PICK e : Serialize[t][x].value = Document(e) /\ MapEntries(t, x, e)
  BY MapWritten
<1>2. e \in Seq(STRING \X Value) /\ Document(e) \in Value
  BY <1>1, WritesAreStored DEF MapEntries
<1> DEFINE ks == ReadKeys(t, e)
           vs == ReadValues(t, e)
           m == [i \in DOMAIN e |-> <<ks.value[i], vs.value[i]>>]
<1>3. Deserialize[t][Document(e)] = IF ks.ok /\ vs.ok THEN Ok(m) ELSE Mismatch
  BY <1>2, MapRead
<1>4. /\ Len(x) \in Nat /\ DOMAIN x = 1 .. Len(x) /\ x = [i \in DOMAIN x |-> x[i]]
      /\ \A i \in DOMAIN x : x[i] = <<x[i][1], x[i][2]>> /\ x[i][2] \in Held(t.of)
      /\ t.of \in Parts(t) /\ t.of \in Types /\ t.key \in Types
  <2> DEFINE E == Held(t.key) \X Held(t.of)
  <2>1. x \in Seq(E)
    BY HeldParts
  <2> HIDE DEF E
  <2>2. x = [i \in DOMAIN x |-> x[i]]
    BY <2>1
  <2>3. /\ Len(x) \in Nat /\ DOMAIN x = 1 .. Len(x)
        /\ \A i \in DOMAIN x : x[i] = <<x[i][1], x[i][2]>> /\ x[i][2] \in Held(t.of)
    BY KeysWritten
  <2>4. t.of \in Parts(t) /\ t.of \in Types /\ t.key \in Types
    BY PartsOf
  <2> QED BY <2>2, <2>3, <2>4
<1>5. Faithful[t][x] <=> (x = <<>> \/ Textual(t.key)) /\ \A i \in DOMAIN x : Faithful[t.of][x[i][2]]
  BY FaithfulCases
<1>6. CASE Textual(t.key) \/ x = <<>>
  <2>1. Len(e) = Len(x) /\ DOMAIN e = DOMAIN x
    <3>1. Len(e) = Len(x)
      BY <1>1, <1>6 DEF MapEntries
    <3> QED BY <1>2, <1>4, <3>1, PairParts
  <2>2. ASSUME NEW i \in DOMAIN x
        PROVE  /\ Deserialize[t.key][String(e[i][1])] = Ok(x[i][1])
               /\ Deserialize[t.of][e[i][2]] = Ok(x[i][2]) <=> Faithful[t.of][x[i][2]]
               /\ Result(Deserialize[t.of][e[i][2]])
    <3>1. Serialize[t.of][x[i][2]] = Ok(e[i][2]) /\ Deserialize[t.key][String(e[i][1])] = Ok(x[i][1])
      BY <1>1, <1>6 DEF MapEntries
    <3>2. e[i][2] \in Value /\ (Deserialize[t.of][e[i][2]] = Ok(x[i][2]) <=> Faithful[t.of][x[i][2]])
      BY <1>4, <3>1, PartReads
    <3> QED BY <1>4, <3>1, <3>2, ReadsAreResults
  <2>3. PairsOver(e, x)
    BY <1>4, <2>1 DEF PairsOver
  <2>4. Deserialize[t][Document(e)] = Ok(x) <=>
          \A i \in DOMAIN e : /\ Deserialize[t.key][String(e[i][1])] = Ok(x[i][1])
                              /\ Deserialize[t.of][e[i][2]] = Ok(x[i][2])
    BY <1>2, <2>3, MapReadIs
  <2>5. Deserialize[t][Document(e)] = Ok(x) <=> \A i \in DOMAIN x : Faithful[t.of][x[i][2]]
    BY <2>1, <2>2, <2>4
  <2> QED BY <1>1, <1>5, <1>6, <2>5 DEF ReadsBack
<1>7. CASE ~(Textual(t.key) \/ x = <<>>)
  <2>1. e # <<>> /\ \A s \in STRING : Deserialize[t.key][String(s)] = Mismatch
    BY <1>1, <1>7 DEF MapEntries
  <2>2. 1 \in DOMAIN e /\ e[1][1] \in STRING
    <3>1. Len(e) \in Nat /\ DOMAIN e = 1 .. Len(e) /\ \A i \in DOMAIN e : e[i][1] \in STRING
      BY <1>2, PairParts
    <3>2. 1 \in DOMAIN e
      <4> DEFINE E == STRING \X Value
      <4>1. e \in Seq(E)
        BY <1>2
      <4> HIDE DEF E
      <4> QED BY <2>1, <4>1
    <3> QED BY <3>1, <3>2
  <2>3. ~Deserialize[t.key][String(e[1][1])].ok
    BY <2>1, <2>2, ResultsMade DEF Mismatch
  <2>4. ~ks.ok
    BY <1>2, <2>2, <2>3, MapRead
  <2>5. Deserialize[t][Document(e)] # Ok(x)
    <3>1. Mismatch # Ok(x)
      BY ResultsMade DEF Mismatch
    <3> HIDE DEF ks, vs, m
    <3> QED BY <1>3, <2>4, <3>1
  <2> QED BY <1>1, <1>5, <1>7, <2>5 DEF ReadsBack
<1> QED BY <1>6, <1>7

LEMMA EnumReadsBack ==
  ASSUME NEW t \in Types, t.t = "enum", NEW x \in Held(t), ReadsParts(t), Serialize[t][x].ok
  PROVE  ReadsBack(t, x)
<1> DEFINE p == t.variants[x.variant]
           v == Serialize[t][x].value
<1>1. /\ x = [variant |-> x.variant, data |-> x.data] /\ x.variant \in DOMAIN t.variants
      /\ p \in Parts(t) /\ p \in Types /\ x.data \in Held(p) /\ v \in Value
  BY HeldParts, PartsOf, WritesAreStored
<1>2. Deserialize[t][v] = DeserializeEnum(Deserialize, t, v)
  <2> HIDE DEF v
  <2> QED BY <1>1, DeserializeOf DEF DeserializeAs, IntType
<1>3. Faithful[t][x] <=> p.t = "unit" \/ Faithful[p][x.data]
  BY FaithfulCases
<1>4. CASE p.t = "unit"
  <2>1. v = String(x.variant)
    BY <1>4, EnumWritten
  <2>2. x.data = <<>>
    BY <1>1, <1>4, UnitHolds
  <2>3. v.kind = "String" /\ v.string = x.variant
    BY <2>1 DEF String
  <2> HIDE DEF v
  <2>4. DeserializeEnum(Deserialize, t, v) = Ok([variant |-> x.variant, data |-> <<>>])
    BY <1>1, <1>4, <2>3 DEF DeserializeEnum
  <2> QED BY <1>1, <1>2, <1>3, <1>4, <2>2, <2>4 DEF ReadsBack, v
<1>5. CASE p.t # "unit"
  <2>1. PICK u \in Value : Serialize[p][x.data] = Ok(u) /\ v = Document(<< <<x.variant, u>> >>)
    BY <1>5, EnumWritten
  <2> DEFINE data == Deserialize[p][u]
  <2>2. data = Ok(x.data) <=> Faithful[p][x.data]
    <3> HIDE DEF p
    <3> QED BY <1>1, <2>1, PartReads
  <2>3. Result(data)
    BY <1>1, ReadsAreResults
  <2>4. v.kind = "Document" /\ v.entries = << <<x.variant, u>> >>
    BY <2>1 DEF Document
  <2> HIDE DEF v
  <2>5. DeserializeEnum(Deserialize, t, v) = DeserializeVariant(Deserialize, t, x.variant, u)
    <3>1. Len(v.entries) = 1 /\ v.entries[1][1] = x.variant /\ v.entries[1][2] = u
      BY <2>4
    <3> QED BY <2>4, <3>1 DEF DeserializeEnum
  <2>6. DeserializeVariant(Deserialize, t, x.variant, u) = Tagged(x.variant, data)
    BY <1>1, <1>5 DEF DeserializeVariant
  <2> HIDE DEF data
  <2>7. Tagged(x.variant, data) = Ok(x) <=> data = Ok(x.data)
    <3>1. data = Ok(x.data) <=> data.ok /\ data.value = x.data
      BY <2>3, ResultIsOk
    <3> DEFINE y == [variant |-> x.variant, data |-> data.value]
    <3>2. y = x <=> data.value = x.data
      BY <1>1
    <3>3. Ok(y) = Ok(x) <=> y = x
      BY ResultsMade
    <3>4. Tagged(x.variant, data) = IF data.ok THEN Ok(y) ELSE data
      BY DEF Tagged
    <3>5. ~data.ok => data # Ok(x)
      BY ResultsMade
    <3> HIDE DEF y
    <3> QED BY <3>1, <3>2, <3>3, <3>4, <3>5
  <2> QED BY <1>2, <1>3, <1>5, <2>2, <2>5, <2>6, <2>7 DEF ReadsBack, v
<1> QED BY <1>4, <1>5

LEMMA NewtypeReadsBack ==
  ASSUME NEW t \in Types, t.t = "newtype", NEW x \in Held(t), ReadsParts(t), Serialize[t][x].ok
  PROVE  ReadsBack(t, x)
<1>1. t.of \in Parts(t) /\ x \in Held(t.of)
  BY HeldParts, PartsOf
<1>2. Serialize[t][x] = Serialize[t.of][x]
  BY SerializeOf DEF SerializeAs, IntType
<1> DEFINE v == Serialize[t][x].value
<1>3. v \in Value
  BY WritesAreStored
<1> HIDE DEF v
<1>4. Deserialize[t][v] = Deserialize[t.of][v]
  BY <1>3, DeserializeOf DEF DeserializeAs, IntType
<1>5. Faithful[t][x] <=> Faithful[t.of][x]
  BY FaithfulCases
<1> QED BY <1>1, <1>2, <1>4, <1>5 DEF ReadsBack, ReadsParts, v

LEMMA RoundTrip ==
  \A t \in Types : \A x \in Held(t) : ReadsBack(t, x)
<1> DEFINE S == {t \in Types : \A x \in Held(t) : ReadsBack(t, x)}
<1>1. ASSUME NEW t \in Types, Parts(t) \subseteq S
      PROVE  t \in S
  <2>1. ReadsParts(t)
    BY <1>1 DEF ReadsParts
  <2> SUFFICES ASSUME NEW x \in Held(t), Serialize[t][x].ok
               PROVE  ReadsBack(t, x)
    BY DEF ReadsBack
  <2> QED BY <2>1, TypeNames, AnyReadsBack, AtomReadsBack, OptionReadsBack, NewtypeReadsBack,
             SeqReadsBack, TupleReadsBack, MapReadsBack, StructReadsBack, EnumReadsBack
<1>2. \A t \in Types : t \in S
  <2> HIDE DEF S
  <2> QED BY <1>1, TypeInduction
<1> QED BY <1>2

-----------------------------------------------------------------------------
(* What is read with the id *)

LEMMA JoinedCases ==
  ASSUME NEW t \in Types, NEW x \in Held(t)
  PROVE  /\ t.t = "any" /\ x.kind = "Document" => Joined[t][x] = {Document(WithId(x.entries, Id))}
         /\ t.t = "map" =>
              Joined[t][x] = Behind(IdEntry(t), x)
         /\ t.t = "struct" => Joined[t][x] = {x}
         /\ t.t = "newtype" => Joined[t][x] = Joined[t.of][x]
         /\ t.t = "option" =>
              Joined[t][x] = Some(UNION {Joined[t.of][x[i]] : i \in DOMAIN x})
         /\ t.t \notin {"any", "map", "struct", "newtype", "option"} => Joined[t][x] = {}
<1>1. Joined[t][x] =
        CASE t.t = "any" /\ x.kind = "Document" -> {Document(WithId(x.entries, Id))}
          [] t.t = "map" ->
               Behind(IdEntry(t), x)
          [] t.t = "struct" -> {x}
          [] t.t = "newtype" -> Joined[t.of][x]
          [] t.t = "option" -> Some(UNION {Joined[t.of][x[i]] : i \in DOMAIN x})
          [] OTHER -> {}
  BY JoinedSteps
<1> QED BY <1>1

\* s holds what type t reads out of v, if it reads it.
ReadsOnly(t, v, s) ==
  /\ s = {} => ~Deserialize[t][v].ok
  /\ \A a \in s : Deserialize[t][v] = Ok(a)

LEMMA MismatchReads ==
  ASSUME NEW t, NEW v, Deserialize[t][v] = Mismatch
  PROVE  ReadsOnly(t, v, {})
BY ResultsMade DEF ReadsOnly, Mismatch

LEMMA NewtypeReads ==
  ASSUME NEW t \in Types, t.t = "newtype", NEW v \in Value, NEW s, ReadsOnly(t.of, v, s)
  PROVE  ReadsOnly(t, v, s)
<1>1. Deserialize[t][v] = Deserialize[t.of][v]
  BY DeserializeOf DEF DeserializeAs, IntType
<1> QED BY <1>1 DEF ReadsOnly

LEMMA OptionReads ==
  ASSUME NEW t \in Types, t.t = "option", NEW v \in Value, v # Null, NEW s, ReadsOnly(t.of, v, s)
  PROVE  ReadsOnly(t, v, Some(s))
<1> DEFINE some == Deserialize[t.of][v]
<1>1. Deserialize[t][v] = IF some.ok THEN Ok(<<some.value>>) ELSE some
  BY DeserializeOf DEF DeserializeAs, DeserializeOption, IntType
<1> HIDE DEF some
<1>2. (s = {} => ~some.ok) /\ \A a \in s : some = Ok(a)
  BY DEF ReadsOnly, some
<1>3. \A a \in s : some.ok /\ some.value = a
  BY <1>2, ResultsMade
<1>4. Some(s) = {} <=> s = {}
  BY DEF Some
<1>5. \A b \in Some(s) : \E a \in s : b = <<a>>
  BY DEF Some
<1> QED BY <1>1, <1>2, <1>3, <1>4, <1>5 DEF ReadsOnly

LEMMA IdNameReads ==
  \A t \in Types : ReadsOnly(t, String("_id"), IdName[t])
<1> DEFINE v == String("_id")
           S == {t \in Types : ReadsOnly(t, v, IdName[t])}
<1>1. v \in Value /\ v.kind = "String" /\ v.string = "_id" /\ v # Null /\ Rebuilt[v] = v
  <2>1. "_id" \in STRING
    BY EditAssumption
  <2>2. v \in Value /\ v.kind = "String" /\ v.string = "_id"
    BY <2>1, StringIsValue
  <2>3. v # Null
    BY DEF String, Null
  <2>4. Rebuilt[v] = Rebuild(Rebuilt, v)
    BY <2>2, RebuiltIsRebuild
  <2> HIDE DEF v
  <2> QED BY <2>2, <2>3, <2>4 DEF Rebuild
<1> HIDE DEF v
<1>2. ASSUME NEW t \in Types, Parts(t) \subseteq S
      PROVE  ReadsOnly(t, v, IdName[t])
  <2>1. Deserialize[t][v] = DeserializeAs(Deserialize, t, v) /\ IdName[t] = IdNameStep(IdName, t)
    BY <1>1, DeserializeOf, IdNameSteps
  <2>2. CASE t.t = "any"
    <3>1. Deserialize[t][v] = Ok(v) /\ IdName[t] = {v}
      BY <1>1, <2>1, <2>2 DEF DeserializeAs, DeserializeAny, IdNameStep, IntType, v
    <3> QED BY <3>1 DEF ReadsOnly
  <2>3. CASE t.t = "str"
    <3>1. Deserialize[t][v] = Ok("_id") /\ IdName[t] = {"_id"}
      BY <1>1, <2>1, <2>3 DEF DeserializeAs, IdNameStep, IntType
    <3> QED BY <3>1 DEF ReadsOnly
  <2>4. CASE t.t = "newtype"
    <3>1. IdName[t] = IdName[t.of] /\ t.of \in S
      BY <1>2, <2>1, <2>4, PartsOf DEF IdNameStep
    <3> QED BY <1>1, <2>4, <3>1, NewtypeReads
  <2>5. CASE t.t = "option"
    <3>1. IdName[t] = Some(IdName[t.of]) /\ t.of \in S
      BY <1>2, <2>1, <2>5, PartsOf DEF IdNameStep
    <3> QED BY <1>1, <2>5, <3>1, OptionReads
  <2>6. CASE t.t = "enum"
    <3> DEFINE named == "_id" \in DOMAIN t.variants /\ t.variants["_id"].t = "unit"
               x == [variant |-> "_id", data |-> <<>>]
    <3>1. Deserialize[t][v] = DeserializeEnum(Deserialize, t, v)
      BY <2>1, <2>6 DEF DeserializeAs, IntType
    <3>2. Deserialize[t][v] = IF named THEN Ok(x) ELSE Mismatch
      BY <1>1, <3>1 DEF DeserializeEnum
    <3>3. IdName[t] = {[variant |-> a, data |-> <<>>] :
                         a \in {w \in DOMAIN t.variants : w = "_id" /\ t.variants[w].t = "unit"}}
      BY <2>1, <2>6 DEF IdNameStep
    <3>4. IdName[t] = IF named THEN {x} ELSE {}
      BY <3>3
    <3> HIDE DEF named, x
    <3>5. CASE named
      BY <3>2, <3>4, <3>5 DEF ReadsOnly
    <3>6. CASE ~named
      BY <3>2, <3>4, <3>6, MismatchReads
    <3> QED BY <3>5, <3>6
  <2>7. CASE t.t \notin {"any", "str", "newtype", "option", "enum"}
    <3>1. IdName[t] = {}
      BY <2>1, <2>7 DEF IdNameStep
    <3>2. v.string \notin Char
      BY <1>1, CharAssumption
    <3>3. Deserialize[t][v] = Mismatch
      BY <1>1, <2>1, <2>7, <3>2 DEF DeserializeAs, IntType
    <3> QED BY <3>1, <3>3, MismatchReads
  <2> QED BY <2>2, <2>3, <2>4, <2>5, <2>6, <2>7
<1>3. \A t \in Types : t \in S
  <2>1. \A t \in Types : Parts(t) \subseteq S => t \in S
    BY <1>2
  <2> HIDE DEF S
  <2> QED BY <2>1, TypeInduction
<1> QED BY <1>3 DEF v

LEMMA BytesOfId ==
  LET v == Bytes(Id) IN
  v \in Value /\ v.kind = "Bytes" /\ v.bytes = Id /\ v # Null /\ Rebuilt[v] = v
<1> DEFINE v == Bytes(Id)
<1>1. v \in Value /\ v.kind = "Bytes" /\ v.bytes = Id
  BY AtomsMade, AtomsInside, ValueIsTop, EditAssumption DEF Bytes
<1>2. v # Null
  BY DEF Bytes, Null
<1> HIDE DEF v
<1>3. Rebuilt[v] = v
  BY <1>1, RebuiltIsRebuild DEF Rebuild
<1> QED BY <1>1, <1>2, <1>3 DEF v

LEMMA IdBytesReads ==
  \A t \in Types : ReadsOnly(t, Bytes(Id), IdBytes[t])
<1> DEFINE v == Bytes(Id)
           S == {t \in Types : ReadsOnly(t, v, IdBytes[t])}
<1>1. v \in Value /\ v.kind = "Bytes" /\ v.bytes = Id /\ v # Null /\ Rebuilt[v] = v
  BY BytesOfId
<1> HIDE DEF v
<1>2. ASSUME NEW t \in Types, Parts(t) \subseteq S
      PROVE  ReadsOnly(t, v, IdBytes[t])
  <2>1. Deserialize[t][v] = DeserializeAs(Deserialize, t, v) /\ IdBytes[t] = IdBytesStep(IdBytes, t)
    BY <1>1, DeserializeOf, IdBytesSteps
  <2>2. CASE t.t = "any"
    <3>1. Deserialize[t][v] = Ok(v) /\ IdBytes[t] = {v}
      BY <1>1, <2>1, <2>2 DEF DeserializeAs, DeserializeAny, IdBytesStep, IntType, v
    <3> QED BY <3>1 DEF ReadsOnly
  <2>3. CASE t.t = "bytes"
    <3>1. Deserialize[t][v] = Ok(Id) /\ IdBytes[t] = {Id}
      BY <1>1, <2>1, <2>3 DEF DeserializeAs, IdBytesStep, IntType
    <3> QED BY <3>1 DEF ReadsOnly
  <2>4. CASE t.t = "newtype"
    <3>1. IdBytes[t] = IdBytes[t.of] /\ t.of \in S
      BY <1>2, <2>1, <2>4, PartsOf DEF IdBytesStep
    <3> QED BY <1>1, <2>4, <3>1, NewtypeReads
  <2>5. CASE t.t = "option"
    <3>1. IdBytes[t] = Some(IdBytes[t.of]) /\ t.of \in S
      BY <1>2, <2>1, <2>5, PartsOf DEF IdBytesStep
    <3> QED BY <1>1, <2>5, <3>1, OptionReads
  <2>6. CASE t.t \notin {"any", "bytes", "newtype", "option"}
    <3>1. IdBytes[t] = {}
      BY <2>1, <2>6 DEF IdBytesStep
    <3>2. DeserializeEnum(Deserialize, t, v) = Mismatch
      BY <1>1 DEF DeserializeEnum
    <3>3. Deserialize[t][v] = Mismatch
      BY <1>1, <2>1, <2>6, <3>2 DEF DeserializeAs, IntType
    <3> QED BY <3>1, <3>3, MismatchReads
  <2> QED BY <2>2, <2>3, <2>4, <2>5, <2>6
<1>3. \A t \in Types : t \in S
  <2>1. \A t \in Types : Parts(t) \subseteq S => t \in S
    BY <1>2
  <2> HIDE DEF S
  <2> QED BY <2>1, TypeInduction
<1> QED BY <1>3 DEF v

\* g is e with the id in front.
IdInFront(e, g, n) ==
  /\ e \in Seq(STRING \X Value) /\ KeysOnce(e) /\ g \in Seq(STRING \X Value) /\ KeysOnce(g)
  /\ Len(e) \in Nat /\ DOMAIN e = 1 .. Len(e) /\ Len(g) = Len(e) + 1 /\ DOMAIN g = 1 .. Len(e) + 1
  /\ g[1] = <<"_id", Bytes(Id)>> /\ \A i \in 1 .. Len(e) : g[i + 1] = e[i]
  /\ Document(g) \in Unambiguous[n] /\ Document(g) \in Value

LEMMA IdAdded ==
  ASSUME NEW n \in 1 .. Nesting, NEW e, Document(e) \in Unambiguous[n], ~ContainsKey(e, "_id")
  PROVE  IdInFront(e, WithId(e, Id), n)
<1> DEFINE S == Unambiguous[n - 1]
           g == WithId(e, Id)
<1>1. n \in 0 .. Nesting /\ n - 1 \in 0 .. Nesting
  BY TypeAssumption
<1>2. e \in Seq(STRING \X S) /\ KeysOnce(e)
  <2> DEFINE v == Document(e)
  <2>1. v \in Unambiguous[n] /\ v.kind = "Document" /\ v.entries = e
    BY DEF Document
  <2> HIDE DEF v
  <2> QED BY <1>1, <2>1, UnambiguousCases
<1>3. Bytes(Id) \in S /\ "_id" \in STRING
  <2>1. Bytes(Id) \in Atom
    BY AtomsMade, EditAssumption
  <2>2. Atom \subseteq Unambiguous[n - 1]
    BY <1>1, AtomsInside
  <2> QED BY <2>1, <2>2, EditAssumption
<1>4. RemoveKey(e, "_id") = e /\ g = InsertFront(e, "_id", Bytes(Id))
  BY DEF RemoveKey, WithId
<1> HIDE DEF S, g
<1>5. /\ g \in Seq(STRING \X S) /\ KeysOnce(g) /\ Len(g) = Len(e) + 1 /\ g[1] = <<"_id", Bytes(Id)>>
      /\ \A i \in 1 .. Len(e) : g[i + 1] = e[i]
  <2> DEFINE E == STRING \X S
             p == <<"_id", Bytes(Id)>>
  <2>1. g = <<p>> \o e
    BY <1>4 DEF InsertFront
  <2>2. p \in E /\ e \in Seq(E)
    BY <1>2, <1>3
  <2>3. KeysOnce(g)
    <3> DEFINE k == "_id"
               w == Bytes(Id)
    <3>1. w \in S /\ k \in STRING /\ g = InsertFront(e, k, w)
      BY <1>3, <1>4
    <3> HIDE DEF k, w
    <3> QED BY <1>2, <3>1, FrontKeepsKeys
  <2> HIDE DEF E, p
  <2>4. Fronts(E, g, p, e)
    BY <2>1, <2>2, SeqFronts
  <2> QED BY <2>3, <2>4 DEF Fronts, E, p
<1>6. Document(g) \in Unambiguous[n]
  BY <1>5, UnambiguousMade DEF S
<1>7. e \in Seq(STRING \X Value) /\ g \in Seq(STRING \X Value) /\ Document(g) \in Value
  BY <1>1, <1>2, <1>5, <1>6, PairsInValue DEF S
<1>8. Len(e) \in Nat /\ DOMAIN e = 1 .. Len(e) /\ DOMAIN g = 1 .. Len(g)
  BY <1>7, PairParts
<1>9. IdInFront(e, g, n)
  BY <1>2, <1>5, <1>6, <1>7, <1>8 DEF IdInFront
<1> QED BY <1>9 DEF g

LEMMA FrontsAreSame ==
  ASSUME NEW E, NEW p \in E, NEW a \in Seq(E), NEW b \in Seq(E), <<p>> \o a = <<p>> \o b
  PROVE  a = b
<1> DEFINE u == <<p>> \o a
<1>1. Fronts(E, u, p, a) /\ Fronts(E, <<p>> \o b, p, b)
  BY SeqFronts
<1>2. Fronts(E, u, p, b)
  BY <1>1
<1>3. Len(a) \in Nat /\ Len(b) \in Nat /\ DOMAIN a = 1 .. Len(a) /\ DOMAIN b = 1 .. Len(b)
      /\ a = [i \in 1 .. Len(a) |-> a[i]] /\ b = [i \in 1 .. Len(b) |-> b[i]]
  BY SeqParts
<1> HIDE DEF u
<1>4. Len(u) = Len(a) + 1 /\ Len(u) = Len(b) + 1
  BY <1>1, <1>2 DEF Fronts
<1>5. Len(a) = Len(b)
  <2> DEFINE n == Len(a)
             m == Len(b)
  <2>1. n \in Nat /\ m \in Nat /\ n + 1 = m + 1
    BY <1>3, <1>4
  <2> HIDE DEF n, m
  <2>2. n = m
    BY <2>1
  <2> QED BY <2>2 DEF n, m
<1>6. \A i \in 1 .. Len(a) : u[i + 1] = a[i] /\ u[i + 1] = b[i]
  BY <1>1, <1>2, <1>5 DEF Fronts
<1> QED BY <1>3, <1>5, <1>6

\* r is what reading x with its id should come to.
Joint(t, x, r) ==
  /\ Joined[t][x] = {} => ~r.ok
  /\ \A y \in Joined[t][x] : r = Ok(y) <=> Faithful[t][x]

\* A type reads what it wrote with the id in front.
JoinsId(t, x) ==
  \A e : Serialize[t][x] = Ok(Document(e)) /\ ~ContainsKey(e, "_id") =>
    Joint(t, x, Deserialize[t][Document(WithId(e, Id))])

JoinsParts(t) == \A p \in Parts(t) : \A x \in Held(p) : JoinsId(p, x)

LEMMA WrittenWithId ==
  ASSUME NEW t \in Types, NEW x \in Held(t), NEW e, Serialize[t][x] = Ok(Document(e)),
         ~ContainsKey(e, "_id")
  PROVE  IdInFront(e, WithId(e, Id), Depth(t))
<1>1. Document(e) \in Unambiguous[Depth(t)]
  BY WritesAreStored, ResultsMade
<1> QED BY <1>1, DepthOf, IdAdded

LEMMA AnyJoinsId ==
  ASSUME NEW t \in Types, t.t = "any", NEW x \in Held(t)
  PROVE  JoinsId(t, x)
<1> SUFFICES ASSUME NEW e, Serialize[t][x] = Ok(Document(e)), ~ContainsKey(e, "_id")
             PROVE  Joint(t, x, Deserialize[t][Document(WithId(e, Id))])
  BY DEF JoinsId
<1> DEFINE g == WithId(e, Id)
           d == Depth(t)
           v == Document(g)
           xe == x.entries
<1>1. IdInFront(e, g, d)
  BY WrittenWithId
<1>2. x \in Values[d] /\ x \in Value /\ d \in 0 .. Nesting
  BY HeldAtoms, DepthOf
<1>3. Rebuilt[x] = Document(e)
  <2>1. Serialize[t][x] = Ok(Rebuilt[x])
    BY SerializeOf DEF SerializeAs, SerializeAny, IntType
  <2> QED BY <2>1, ResultsMade
<1>4. v \in Value /\ Rebuilt[v] = v /\ Deserialize[t][v] = Ok(v)
  <2>1. v \in Value /\ v \in Unambiguous[d]
    BY <1>1 DEF IdInFront
  <2> HIDE DEF v
  <2>2. Rebuilt[v] = v
    BY <1>2, <2>1, UnambiguousAreValues, RebuiltKeepsKeys
  <2>3. Deserialize[t][v] = Ok(Rebuilt[v])
    BY <2>1, DeserializeOf DEF DeserializeAs, DeserializeAny, IntType
  <2> QED BY <2>1, <2>2, <2>3
<1> DEFINE p == [i \in DOMAIN xe |-> <<xe[i][1], Rebuilt[xe[i][2]]>>]
<1>5. x.kind = "Document" /\ x = Document(xe) /\ e = Inserted(p) /\ d - 1 \in 0 .. Nesting
      /\ xe \in Seq(STRING \X Values[d - 1])
  <2>1. Rebuilt[x] = Rebuild(Rebuilt, x)
    BY <1>2, RebuiltIsRebuild
  <2>2. Document(e).kind = "Document" /\ Document(e).entries = e
    BY DEF Document
  <2>3. CASE x \in Atom /\ x.kind \notin {"Array", "Document"}
    <3>1. Rebuilt[x].kind = x.kind
      BY <2>1, <2>3 DEF Rebuild
    <3> QED BY <1>3, <2>2, <2>3, <3>1
  <2>4. CASE x.kind = "Array"
    <3>1. Rebuilt[x].kind = "Array"
      BY <2>1, <2>4 DEF Rebuild, Array
    <3> QED BY <1>3, <2>2, <3>1
  <2>5. CASE x.kind = "Document" /\ x = Document(xe) /\ d - 1 \in 0 .. Nesting
             /\ xe \in Seq(STRING \X Values[d - 1])
    <3>1. Rebuilt[x] = Document(Inserted(p))
      BY <2>1, <2>5 DEF Rebuild
    <3> HIDE DEF p
    <3>2. Document(Inserted(p)).entries = Inserted(p)
      BY DEF Document
    <3> QED BY <1>3, <2>2, <2>5, <3>1, <3>2
  <2> HIDE DEF p, v, g
  <2>6. \/ x \in Atom /\ x.kind \notin {"Array", "Document"}
        \/ x.kind = "Array"
        \/ x.kind = "Document" /\ x = Document(xe) /\ d - 1 \in 0 .. Nesting
             /\ xe \in Seq(STRING \X Values[d - 1])
    BY <1>2, ValueCases
  <2> QED BY <2>3, <2>4, <2>5, <2>6
<1>6. ~ContainsKey(xe, "_id")
  <2>1. p \in Seq(STRING \X Unambiguous[d - 1]) /\ DOMAIN p = DOMAIN xe
        /\ \A i \in DOMAIN xe : p[i][1] = xe[i][1]
    <3> DEFINE n == Len(xe)
    <3>1. n \in Nat /\ DOMAIN xe = 1 .. n /\ \A i \in DOMAIN xe : xe[i][1] \in STRING /\ xe[i][2] \in Values[d - 1]
      BY <1>5, PairParts
    <3>2. \A i \in 1 .. n : Rebuilt[xe[i][2]] \in Unambiguous[d - 1]
      BY <1>5, <3>1, RebuiltKeepsKeys
    <3> DEFINE E == STRING \X Unambiguous[d - 1]
    <3>3. DOMAIN p = 1 .. n /\ p = [i \in 1 .. n |-> p[i]] /\ \A i \in 1 .. n : p[i] \in E
                                 /\ p[i][1] = xe[i][1]
      BY <3>1, <3>2
    <3> HIDE DEF p, E, n
    <3>4. p \in Seq(E)
      BY <3>1, <3>3, SeqMade
    <3> QED BY <3>1, <3>3, <3>4 DEF E
  <2> HIDE DEF p
  <2>2. \A i \in DOMAIN p : ContainsKey(e, p[i][1])
    BY <1>5, <2>1, InsertedKeepsKeys
  <2> QED BY <2>1, <2>2 DEF ContainsKey
<1> DEFINE j == Document(WithId(xe, Id))
<1>7. Joined[t][x] = {j}
  BY <1>5, JoinedCases
<1>8. WithId(xe, Id) = g <=> xe = e
  <2> DEFINE q == <<"_id", Bytes(Id)>>
             E == STRING \X Value
  <2>1. WithId(xe, Id) = <<q>> \o xe /\ g = <<q>> \o e
    BY <1>6 DEF WithId, InsertFront, RemoveKey
  <2>2. q \in E /\ e \in Seq(E) /\ xe \in Seq(E)
    <3>1. Bytes(Id) \in Value
      BY AtomsMade, AtomsInside, ValueIsTop, EditAssumption
    <3>2. e \in Seq(E)
      BY <1>1 DEF IdInFront
    <3>3. xe \in Seq(E)
      BY <1>2, <1>5, InsideValue
    <3>4. q \in E
      BY <3>1, EditAssumption
    <3> HIDE DEF q, E
    <3> QED BY <3>2, <3>3, <3>4
  <2> HIDE DEF q, E, g
  <2> QED BY <2>1, <2>2, FrontsAreSame
<1>9. Faithful[t][x] <=> Document(e) = x
  BY <1>2, <1>3, FaithfulCases, RebuiltStays
<1>10. Document(e) = x <=> e = xe
  BY <1>5 DEF Document
<1>11. v = j <=> g = WithId(xe, Id)
  BY DEF Document
<1> HIDE DEF g, v, j, p, xe
<1>12. Ok(v) = Ok(j) <=> v = j
  BY ResultsMade
<1>13. Ok(v) = Ok(j) <=> Faithful[t][x]
  BY <1>8, <1>9, <1>10, <1>11, <1>12
<1>14. Joint(t, x, Deserialize[t][v])
  BY <1>4, <1>7, <1>13 DEF Joint
<1> QED BY <1>14 DEF v, g

LEMMA NewtypeJoinsId ==
  ASSUME NEW t \in Types, t.t = "newtype", NEW x \in Held(t), JoinsParts(t)
  PROVE  JoinsId(t, x)
<1> SUFFICES ASSUME NEW e, Serialize[t][x] = Ok(Document(e)), ~ContainsKey(e, "_id")
             PROVE  Joint(t, x, Deserialize[t][Document(WithId(e, Id))])
  BY DEF JoinsId
<1> DEFINE v == Document(WithId(e, Id))
<1>1. t.of \in Parts(t) /\ x \in Held(t.of)
  BY HeldParts, PartsOf
<1>2. Serialize[t.of][x] = Ok(Document(e))
  BY SerializeOf DEF SerializeAs, IntType
<1>3. v \in Value
  BY WrittenWithId DEF IdInFront
<1>4. Joint(t.of, x, Deserialize[t.of][v])
  BY <1>1, <1>2 DEF JoinsParts, JoinsId
<1> HIDE DEF v
<1>5. Deserialize[t][v] = Deserialize[t.of][v]
  BY <1>3, DeserializeOf DEF DeserializeAs, IntType
<1>6. (Faithful[t][x] <=> Faithful[t.of][x]) /\ Joined[t][x] = Joined[t.of][x]
  BY FaithfulCases, JoinedCases
<1>7. Joint(t, x, Deserialize[t][v])
  BY <1>4, <1>5, <1>6 DEF Joint
<1> QED BY <1>7 DEF v

LEMMA OptionJoinsId ==
  ASSUME NEW t \in Types, t.t = "option", NEW x \in Held(t), JoinsParts(t)
  PROVE  JoinsId(t, x)
<1> SUFFICES ASSUME NEW e, Serialize[t][x] = Ok(Document(e)), ~ContainsKey(e, "_id")
             PROVE  Joint(t, x, Deserialize[t][Document(WithId(e, Id))])
  BY DEF JoinsId
<1> DEFINE v == Document(WithId(e, Id))
           some == Deserialize[t.of][v]
           y == x[1]
           j == Joined[t.of][y]
<1>1. Document(e) # Null /\ v # Null
  BY DEF Document, Null
<1>2. x # <<>> /\ Serialize[t.of][y] = Ok(Document(e))
  <2>1. Serialize[t][x] = IF x = <<>> THEN Ok(Null) ELSE Serialize[t.of][x[1]]
    BY SerializeOf DEF SerializeAs, SerializeOption, IntType
  <2>2. x # <<>>
    BY <1>1, <2>1, ResultsMade
  <2> QED BY <2>1, <2>2
<1>3. x = <<y>> /\ y \in Held(t.of) /\ DOMAIN x = {1}
  BY <1>2, HeldParts
<1>4. v \in Value /\ t.of \in Types /\ t.of \in Parts(t) /\ Result(some)
  <2>1. v \in Value
    BY WrittenWithId DEF IdInFront
  <2>2. t.of \in Types /\ t.of \in Parts(t)
    BY PartsOf
  <2> HIDE DEF v
  <2> QED BY <2>1, <2>2, ReadsAreResults
<1>5. Joint(t.of, y, some)
  BY <1>2, <1>3, <1>4 DEF JoinsParts, JoinsId
<1>6. Deserialize[t][v] = IF some.ok THEN Ok(<<some.value>>) ELSE some
  <2> HIDE DEF v
  <2>1. Deserialize[t][v] = DeserializeAs(Deserialize, t, v)
    BY <1>4, DeserializeOf
  <2>2. DeserializeAs(Deserialize, t, v) = DeserializeOption(Deserialize, t, v)
    BY DEF DeserializeAs, IntType
  <2> QED BY <1>1, <2>1, <2>2 DEF DeserializeOption
<1>7. Faithful[t][x] <=> Faithful[t.of][y]
  <2>1. Faithful[t][x] <=> Faithful[t.of][y] /\ Serialize[t.of][y] # Ok(Null)
    BY <1>3, FaithfulCases
  <2> QED BY <1>1, <1>2, <2>1, ResultsMade
<1>8. Joined[t][x] = Some(j)
  <2>1. Joined[t][x] = Some(UNION {Joined[t.of][x[i]] : i \in DOMAIN x})
    BY JoinedCases
  <2>2. UNION {Joined[t.of][x[i]] : i \in DOMAIN x} = j
    BY <1>3
  <2> QED BY <2>1, <2>2
<1>9. (j = {} => ~some.ok) /\ \A z \in j : some = Ok(z) <=> Faithful[t.of][y]
  BY <1>5 DEF Joint
<1> HIDE DEF v, some, y, j
<1>10. (Some(j) = {} <=> j = {}) /\ \A b \in Some(j) : \E z \in j : b = <<z>>
  BY DEF Some
<1>11. ASSUME NEW z
       PROVE  Deserialize[t][v] = Ok(<<z>>) <=> some = Ok(z)
  <2>1. some = Ok(z) <=> some.ok /\ some.value = z
    BY <1>4, ResultIsOk
  <2>2. Ok(<<some.value>>) = Ok(<<z>>) <=> some.value = z
    BY ResultsMade
  <2>3. ~some.ok => some # Ok(<<z>>)
    BY ResultsMade
  <2> QED BY <1>6, <2>1, <2>2, <2>3
<1>12. Joint(t, x, Deserialize[t][v])
  BY <1>6, <1>7, <1>8, <1>9, <1>10, <1>11 DEF Joint
<1> QED BY <1>12 DEF v

\* The fields of a struct are found behind the id.
LEMMA IdServes ==
  ASSUME NEW t \in Types, t.t = "struct", NEW x \in Held(t), NEW e, NEW n,
         Serialize[t][x] = Ok(Document(e)), NEW g, IdInFront(e, g, n)
  PROVE  StructEntries(t, x, e) /\ Serves(t, g, e) /\ g \in Seq(STRING \X Value)
<1>1. PICK f : Serialize[t][x].value = Document(f) /\ StructEntries(t, x, f)
  BY StructWritten, ResultsMade
<1>2. StructEntries(t, x, e)
  <2>1. Document(f) = Document(e)
    BY <1>1, ResultsMade
  <2>2. f = e
    BY <2>1 DEF Document
  <2> QED BY <1>1, <2>2
<1>3. ASSUME NEW i \in DOMAIN t.fields
      PROVE  ContainsKey(g, t.fields[i][1]) /\ g[PlaceIn(g, t.fields[i][1])][2] = e[i][2]
  <2>1. i \in 1 .. Len(e) /\ Len(e) \in Nat /\ e[i][1] = t.fields[i][1]
    BY <1>2 DEF StructEntries, IdInFront
  <2> DEFINE k == i + 1
  <2>2. k \in DOMAIN g /\ g[k] = e[i] /\ KeysOnce(g)
    BY <2>1 DEF IdInFront
  <2> HIDE DEF k
  <2>3. ContainsKey(g, g[k][1]) /\ PlaceIn(g, g[k][1]) = k
    BY <2>2, OnlyPlace
  <2> QED BY <2>1, <2>2, <2>3
<1>4. Serves(t, g, e)
  BY <1>3 DEF Serves
<1> QED BY <1>2, <1>4 DEF IdInFront

LEMMA StructJoinsId ==
  ASSUME NEW t \in Types, t.t = "struct", NEW x \in Held(t)
  PROVE  JoinsId(t, x)
<1> SUFFICES ASSUME NEW e, Serialize[t][x] = Ok(Document(e)), ~ContainsKey(e, "_id")
             PROVE  Joint(t, x, Deserialize[t][Document(WithId(e, Id))])
  BY DEF JoinsId
<1> DEFINE g == WithId(e, Id)
           v == Document(g)
<1>1. IdInFront(e, g, Depth(t))
  BY WrittenWithId
<1>2. v \in Value /\ v.kind = "Document" /\ v.entries = g
  BY <1>1 DEF IdInFront, Document
<1> HIDE DEF g
<1>3. StructEntries(t, x, e) /\ Serves(t, g, e) /\ g \in Seq(STRING \X Value)
  BY <1>1, IdServes
<1>4. ReadsParts(t)
  BY RoundTrip, DepthOf DEF ReadsParts
<1>5. DeserializeStruct(Deserialize, t, g) = Ok(x) <=> Faithful[t][x]
  BY <1>3, <1>4, FieldsReadBack
<1> HIDE DEF v
<1>6. Deserialize[t][v] = DeserializeStruct(Deserialize, t, g)
  BY <1>2, DeserializeOf DEF DeserializeAs, IntType
<1>7. Joined[t][x] = {x}
  BY JoinedCases
<1>8. Joint(t, x, Deserialize[t][v])
  BY <1>5, <1>6, <1>7 DEF Joint
<1> QED BY <1>8 DEF v, g

LEMMA EachBehind ==
  ASSUME NEW s, NEW x
  PROVE  /\ Behind(s, x) = {} <=> s = {}
         /\ \A y \in Behind(s, x) : \E a \in s : y = <<a>> \o x
BY DEF Behind

LEMMA EntryBehind ==
  ASSUME NEW t, NEW x
  PROVE  /\ Behind(IdEntry(t), x) = {} <=> IdName[t.key] = {} \/ IdBytes[t.of] = {}
         /\ \A y \in Behind(IdEntry(t), x) :
              \E a \in IdName[t.key], b \in IdBytes[t.of] : y = << <<a, b>> >> \o x
<1> DEFINE A == IdName[t.key]
           B == IdBytes[t.of]
<1>1. IdEntry(t) = A \X B
  BY DEF IdEntry
<1> HIDE DEF A, B
<1>2. ASSUME A # {}, B # {}
      PROVE  IdEntry(t) # {}
  <2>1. PICK a \in A, b \in B : TRUE
    BY <1>2
  <2>2. <<a, b>> \in A \X B
    BY <2>1
  <2> QED BY <1>1, <2>2
<1>3. \A p \in IdEntry(t) : \E a \in A, b \in B : p = <<a, b>>
  BY <1>1
<1>4. IdEntry(t) = {} <=> A = {} \/ B = {}
  BY <1>2, <1>3
<1>5. /\ Behind(IdEntry(t), x) = {} <=> IdEntry(t) = {}
      /\ \A y \in Behind(IdEntry(t), x) : \E p \in IdEntry(t) : y = <<p>> \o x
  BY EachBehind
<1>6. ASSUME NEW y \in Behind(IdEntry(t), x)
      PROVE  \E a \in A, b \in B : y = << <<a, b>> >> \o x
  <2>1. PICK p \in IdEntry(t) : y = <<p>> \o x
    BY <1>5
  <2>2. PICK a \in A, b \in B : p = <<a, b>>
    BY <1>3
  <2> QED BY <2>1, <2>2
<1> QED BY <1>4, <1>5, <1>6 DEF A, B

\* A map has the id as its first entry, if its types read it.
LEMMA MapJoinsId ==
  ASSUME NEW t \in Types, t.t = "map", NEW x \in Held(t)
  PROVE  JoinsId(t, x)
<1> SUFFICES ASSUME NEW e, Serialize[t][x] = Ok(Document(e)), ~ContainsKey(e, "_id")
             PROVE  Joint(t, x, Deserialize[t][Document(WithId(e, Id))])
  BY DEF JoinsId
<1> DEFINE g == WithId(e, Id)
           K(i) == Deserialize[t.key][String(g[i][1])]
           V(i) == Deserialize[t.of][g[i][2]]
           r == Deserialize[t][Document(g)]
           n == Len(x)
<1>1. IdInFront(e, g, Depth(t))
  BY WrittenWithId
<1>2. Joined[t][x] = Behind(IdEntry(t), x)
  BY JoinedCases
<1>3. MapEntries(t, x, e)
  <2>1. PICK f : Serialize[t][x].value = Document(f) /\ MapEntries(t, x, f)
    BY MapWritten, ResultsMade
  <2>2. Document(f) = Document(e)
    BY <2>1, ResultsMade
  <2>3. f = e
    BY <2>2 DEF Document
  <2> QED BY <2>1, <2>3
<1> HIDE DEF g
<1>4. /\ g \in Seq(STRING \X Value) /\ Document(g) \in Value
      /\ 1 \in DOMAIN g /\ g[1][1] = "_id" /\ g[1][2] = Bytes(Id)
  BY <1>1 DEF IdInFront
<1>5. t.key \in Types /\ t.of \in Types /\ t.of \in Parts(t)
  BY PartsOf
<1>6. /\ IdName[t.key] = {} => ~K(1).ok
      /\ \A name \in IdName[t.key] : K(1) = Ok(name)
      /\ IdBytes[t.of] = {} => ~V(1).ok
      /\ \A id \in IdBytes[t.of] : V(1) = Ok(id)
  <2>1. ReadsOnly(t.key, String("_id"), IdName[t.key]) /\ ReadsOnly(t.of, Bytes(Id), IdBytes[t.of])
    BY <1>5, IdNameReads, IdBytesReads
  <2> QED BY <1>4, <2>1 DEF ReadsOnly
<1>7. CASE IdName[t.key] = {} \/ IdBytes[t.of] = {}
  <2>1. ~K(1).ok \/ ~V(1).ok
    BY <1>6, <1>7
  <2>2. ~(ReadKeys(t, g).ok /\ ReadValues(t, g).ok)
    BY <1>4, <2>1, MapRead
  <2>3. r = Mismatch
    BY <1>4, <2>2, MapRead
  <2>4. Joined[t][x] = {}
    BY <1>2, <1>7, EntryBehind
  <2>5. ~r.ok
    BY <2>3, ResultsMade DEF Mismatch
  <2> QED BY <2>4, <2>5 DEF Joint, g
<1>8. ASSUME NEW name \in IdName[t.key], NEW id \in IdBytes[t.of]
      PROVE  r = Ok(<< <<name, id>> >> \o x) <=> Faithful[t][x]
  <2> DEFINE p == <<name, id>>
             y == <<p>> \o x
             E == (Held(t.key) \cup {name}) \X (Held(t.of) \cup {id})
  <2>1. Faithful[t][x] <=> (x = <<>> \/ Textual(t.key)) /\ \A i \in DOMAIN x : Faithful[t.of][x[i][2]]
    BY FaithfulCases
  <2>2. K(1) = Ok(name) /\ V(1) = Ok(id)
    BY <1>6
  <2>3. Textual(t.key) \/ x = <<>>
    <3> SUFFICES ASSUME ~(Textual(t.key) \/ x = <<>>)
                 PROVE  FALSE
      OBVIOUS
    <3>1. K(1) = Mismatch
      BY <1>3, <1>4, EditAssumption DEF MapEntries
    <3> QED BY <2>2, <3>1, ResultsMade DEF Mismatch
  <2>4. n \in Nat /\ DOMAIN x = 1 .. n /\ \A i \in 1 .. n : x[i] = <<x[i][1], x[i][2]>> /\ x[i][2] \in Held(t.of)
    BY KeysWritten
  <2>5. DOMAIN g = 1 .. n + 1 /\ \A i \in 1 .. n : g[i + 1] = e[i]
    <3>1. Len(e) = n
      BY <1>3, <2>3 DEF MapEntries
    <3> QED BY <1>1, <3>1 DEF IdInFront
  <2>6. DOMAIN y = 1 .. n + 1 /\ y \in Seq(E) /\ y[1] = p /\ \A i \in 1 .. n : y[i + 1] = x[i]
    <3>1. p \in E /\ Held(t.key) \X Held(t.of) \subseteq E
      OBVIOUS
    <3>2. x \in Seq(Held(t.key) \X Held(t.of))
      BY HeldParts
    <3> HIDE DEF E, p
    <3>3. x \in Seq(E)
      BY <3>1, <3>2, SequencesGrow
    <3>4. Fronts(E, y, p, x)
      BY <3>1, <3>3, SeqFronts
    <3> HIDE DEF y
    <3> QED BY <3>4 DEF Fronts
  <2>7. PairsOver(g, y)
    <3> HIDE DEF y, n
    <3>1. \A i \in DOMAIN y : y[i] \in E
      BY <2>6, SeqParts
    <3>2. \A i \in DOMAIN y : y[i] = <<y[i][1], y[i][2]>>
      BY <3>1
    <3> HIDE DEF E
    <3>3. y = [i \in DOMAIN y |-> y[i]]
      BY <2>6
    <3> QED BY <2>5, <2>6, <3>2, <3>3 DEF PairsOver
  <2>8. r = Ok(y) <=> \A i \in 1 .. n + 1 : K(i) = Ok(y[i][1]) /\ V(i) = Ok(y[i][2])
    <3> HIDE DEF y, n
    <3>1. r = Ok(y) <=> \A i \in DOMAIN g : K(i) = Ok(y[i][1]) /\ V(i) = Ok(y[i][2])
      BY <1>4, <2>7, MapReadIs
    <3> HIDE DEF r, K, V
    <3> QED BY <2>5, <3>1
  <2>9. ASSUME NEW i \in 1 .. n
        PROVE  /\ K(i + 1) = Ok(y[i + 1][1])
               /\ V(i + 1) = Ok(y[i + 1][2]) <=> Faithful[t.of][x[i][2]]
    <3>1. /\ Serialize[t.of][x[i][2]] = Ok(e[i][2])
          /\ Deserialize[t.key][String(e[i][1])] = Ok(x[i][1])
      BY <1>3, <2>3, <2>4 DEF MapEntries
    <3>2. ReadsParts(t)
      BY RoundTrip, DepthOf DEF ReadsParts
    <3>3. Deserialize[t.of][e[i][2]] = Ok(x[i][2]) <=> Faithful[t.of][x[i][2]]
      BY <1>5, <2>4, <3>1, <3>2, PartReads
    <3>4. K(i + 1) = Deserialize[t.key][String(e[i][1])] /\ V(i + 1) = Deserialize[t.of][e[i][2]]
      BY <2>5
    <3> QED BY <2>6, <3>1, <3>3, <3>4
  <2>10. K(1) = Ok(y[1][1]) /\ V(1) = Ok(y[1][2])
    BY <2>2, <2>6
  <2> HIDE DEF n, y, K, V
  <2>11. 1 \in 1 .. n + 1 /\ (\A i \in 1 .. n : i + 1 \in 1 .. n + 1)
         /\ \A k \in 1 .. n + 1 : k = 1 \/ \E i \in 1 .. n : k = i + 1
    <3>1. ASSUME NEW k \in 1 .. n + 1, k # 1
          PROVE  k - 1 \in 1 .. n /\ k = (k - 1) + 1
      BY <2>4, <3>1
    <3> QED BY <2>4, <3>1
  <2>12. r = Ok(y) <=> \A i \in 1 .. n : Faithful[t.of][x[i][2]]
    BY <2>8, <2>9, <2>10, <2>11
  <2> QED BY <2>1, <2>3, <2>4, <2>12 DEF y
<1>9. CASE ~(IdName[t.key] = {} \/ IdBytes[t.of] = {})
  <2>1. Joined[t][x] # {}
    BY <1>2, <1>9, EntryBehind
  <2>2. ASSUME NEW y \in Joined[t][x]
        PROVE  r = Ok(y) <=> Faithful[t][x]
    <3>1. PICK name \in IdName[t.key], id \in IdBytes[t.of] : y = << <<name, id>> >> \o x
      BY <1>2, <2>2, EntryBehind
    <3> HIDE DEF r
    <3> QED BY <1>8, <3>1
  <2> QED BY <2>1, <2>2 DEF Joint, g
<1> QED BY <1>7, <1>9

\* An enum is a map of one entry, and the id makes it two.
LEMMA EnumJoinsId ==
  ASSUME NEW t \in Types, t.t = "enum", NEW x \in Held(t)
  PROVE  JoinsId(t, x)
<1> SUFFICES ASSUME NEW e, Serialize[t][x] = Ok(Document(e)), ~ContainsKey(e, "_id")
             PROVE  Joint(t, x, Deserialize[t][Document(WithId(e, Id))])
  BY DEF JoinsId
<1> DEFINE p == t.variants[x.variant]
           g == WithId(e, Id)
           v == Document(g)
<1>1. IdInFront(e, g, Depth(t))
  BY WrittenWithId
<1>2. v \in Value /\ v.kind = "Document" /\ v.entries = g
  BY <1>1 DEF IdInFront, Document
<1>3. Serialize[t][x].ok /\ Serialize[t][x].value = Document(e)
  BY ResultsMade
<1>4. p.t # "unit"
  <2>1. String(x.variant) # Document(e)
    BY DEF String, Document
  <2> QED BY <1>3, <2>1, EnumWritten
<1>5. PICK u \in Value : Document(e) = Document(<< <<x.variant, u>> >>)
  BY <1>3, <1>4, EnumWritten
<1>6. e = << <<x.variant, u>> >>
  BY <1>5 DEF Document
<1>7. Len(e) = 1
  BY <1>6
<1>8. Len(g) = 2
  BY <1>1, <1>7 DEF IdInFront
<1> HIDE DEF v, g
<1>9. Deserialize[t][v] = Mismatch
  <2>1. DeserializeEnum(Deserialize, t, v) = Mismatch
    BY <1>2, <1>8 DEF DeserializeEnum
  <2> QED BY <1>2, <2>1, DeserializeOf DEF DeserializeAs, IntType
<1>10. Joined[t][x] = {} /\ ~Mismatch.ok
  BY JoinedCases, ResultsMade DEF Mismatch
<1>11. Joint(t, x, Deserialize[t][v])
  BY <1>9, <1>10 DEF Joint
<1> QED BY <1>11 DEF v, g

\* The others are no Document.
LEMMA OthersJoinNoId ==
  ASSUME NEW t \in Types, NEW x \in Held(t),
         t.t \in {"unit", "bool", "f64", "str", "char", "bytes", "seq", "tuple"} \cup IntType
  PROVE  JoinsId(t, x)
<1> SUFFICES ASSUME NEW e, Serialize[t][x] = Ok(Document(e))
             PROVE  FALSE
  BY DEF JoinsId
<1> DEFINE v == Document(e)
<1>1. v.kind = "Document" /\ Serialize[t][x] = Ok(v)
  BY DEF Document
<1> HIDE DEF v
<1>2. CASE t.t \in {"unit", "bool", "f64", "str", "char", "bytes"} \cup IntType
  <2>1. \/ v = Null \/ v = Bool(x) \/ v = I64(AsI64(x)) \/ v = F64(x) \/ v = String(x) \/ v = Bytes(x)
    BY <1>1, <1>2, AtomsWritten, ResultsMade
  <2> QED BY <1>1, <2>1 DEF Null, Bool, I64, F64, String, Bytes
<1>3. ASSUME NEW r, Serialize[t][x] = SerializeAll(r)
      PROVE  FALSE
  <2> DEFINE all == Collected(r)
  <2>1. Ok(v) = IF all.ok THEN Ok(Array(all.value)) ELSE all
    BY <1>1, <1>3 DEF SerializeAll
  <2> HIDE DEF all
  <2>2. Ok(v) = Ok(Array(all.value))
    BY <2>1, ResultsMade
  <2>3. v = Array(all.value)
    BY <2>2, ResultsMade
  <2> QED BY <1>1, <2>3 DEF Array
<1>4. CASE t.t = "seq"
  <2>1. Serialize[t][x] = SerializeAll([i \in DOMAIN x |-> Serialize[t.of][x[i]]])
    BY <1>4, SerializeOf DEF SerializeAs, IntType
  <2> QED BY <1>3, <2>1
<1>5. CASE t.t = "tuple"
  <2>1. Serialize[t][x] = SerializeAll([i \in DOMAIN x |-> Serialize[t.of[i]][x[i]]])
    BY <1>5, SerializeOf DEF SerializeAs, IntType
  <2> QED BY <1>3, <2>1
<1> QED BY <1>2, <1>4, <1>5

LEMMA IdJoins ==
  \A t \in Types : \A x \in Held(t) : JoinsId(t, x)
<1> DEFINE S == {t \in Types : \A x \in Held(t) : JoinsId(t, x)}
<1>1. ASSUME NEW t \in Types, Parts(t) \subseteq S
      PROVE  t \in S
  <2>1. JoinsParts(t)
    BY <1>1 DEF JoinsParts
  <2> SUFFICES ASSUME NEW x \in Held(t)
               PROVE  JoinsId(t, x)
    OBVIOUS
  <2> QED BY <2>1, TypeNames, AnyJoinsId, NewtypeJoinsId, OptionJoinsId, StructJoinsId,
             MapJoinsId, EnumJoinsId, OthersJoinNoId
<1>2. \A t \in Types : t \in S
  <2> HIDE DEF S
  <2> QED BY <1>1, TypeInduction
<1> QED BY <1>2

\* The struct with the field _id has the id before the fields it had.
LEMMA IdentifiedFields ==
  ASSUME NEW t \in Types, t.t = "struct", NEW of \in IdTypes
  PROVE  LET q == Identified(t, of)
             n == Len(t.fields) IN
         /\ q.t = "struct" /\ DOMAIN q.fields = 1 .. n + 1
         /\ q.fields[1] = <<"_id", of>>
         /\ \A i \in 1 .. n : q.fields[i + 1] = t.fields[i]
<1> DEFINE E == STRING \X Types
           p == <<"_id", of>>
           s == t.fields
<1>1. p \in E /\ s \in Seq(E)
  BY EditAssumption, PartsOf
<1>2. Identified(t, of).t = "struct" /\ Identified(t, of).fields = <<p>> \o s
  BY DEF Identified
<1> HIDE DEF E, p, s
<1>3. Fronts(E, <<p>> \o s, p, s)
  BY <1>1, SeqFronts
<1> QED BY <1>2, <1>3 DEF Fronts, p, s

\* It refuses what its _id refuses, and else the value is read behind the id.
LEMMA IdentifiedReads ==
  ASSUME NEW t \in Types, t.t = "struct", NEW x \in Held(t), NEW e,
         Serialize[t][x] = Ok(Document(e)), ~ContainsKey(e, "_id"), NEW of \in IdTypes, NEW id
  PROVE  LET r == FromDocumentWithId(Identified(t, of), e, Id)
             read == Deserialize[of][Bytes(Id)] IN
         /\ ~read.ok => ~r.ok
         /\ read = Ok(id) => (r = Ok(<<id>> \o x) <=> Faithful[t][x])
<1> DEFINE g == WithId(e, Id)
           q == Identified(t, of)
           n == Len(t.fields)
           F(i) == DeserializeField(Deserialize, q.fields[i], g)
           r == [i \in DOMAIN q.fields |-> F(i)]
           y == <<id>> \o x
           read == Deserialize[of][Bytes(Id)]
<1>1. IdInFront(e, g, Depth(t))
  BY WrittenWithId
<1>2. /\ q.t = "struct" /\ DOMAIN q.fields = 1 .. n + 1
      /\ q.fields[1] = <<"_id", of>>
      /\ \A i \in 1 .. n : q.fields[i + 1] = t.fields[i]
  BY IdentifiedFields
<1>3. n \in Nat /\ DOMAIN t.fields = 1 .. n /\ DOMAIN x = 1 .. n /\ x = [i \in 1 .. n |-> x[i]]
  <2>1. x = [i \in DOMAIN x |-> x[i]] /\ DOMAIN x = DOMAIN t.fields
    BY HeldParts
  <2>2. n \in Nat /\ DOMAIN t.fields = 1 .. n
    BY FieldsOf
  <2> HIDE DEF n
  <2> QED BY <2>1, <2>2
<1>4. Len(y) = n + 1 /\ DOMAIN y = 1 .. n + 1 /\ y = [i \in DOMAIN y |-> y[i]] /\ y[1] = id
      /\ \A i \in 1 .. n : y[i + 1] = x[i]
  <2> DEFINE E == {x[i] : i \in 1 .. n} \cup {id}
  <2> HIDE DEF n
  <2>1. id \in E /\ \A i \in 1 .. n : x[i] \in E
    OBVIOUS
  <2> HIDE DEF E
  <2>2. x \in Seq(E) /\ Len(x) = n
    BY <1>3, <2>1, SeqMade
  <2>3. Fronts(E, y, id, x)
    BY <2>1, <2>2, SeqFronts
  <2> HIDE DEF y
  <2>4. y \in Seq(E) /\ Len(y) = n + 1 /\ DOMAIN y = 1 .. n + 1
    BY <2>2, <2>3 DEF Fronts
  <2>5. y = [i \in DOMAIN y |-> y[i]]
    BY <2>4
  <2> QED BY <2>2, <2>3, <2>4, <2>5 DEF Fronts
<1> HIDE DEF g, q, y
<1>5. F(1) = read /\ Result(read)
  <2>1. KeysOnce(g) /\ 1 \in DOMAIN g /\ g[1] = <<"_id", Bytes(Id)>>
    BY <1>1 DEF IdInFront
  <2>2. ContainsKey(g, g[1][1]) /\ PlaceIn(g, g[1][1]) = 1
    BY <2>1, OnlyPlace
  <2>3. g[1][1] = "_id" /\ g[1][2] = Bytes(Id)
    BY <2>1
  <2>4. q.fields[1][1] = "_id" /\ q.fields[1][2] = of
    BY <1>2
  <2>5. F(1) = read
    BY <2>2, <2>3, <2>4 DEF DeserializeField
  <2>6. of \in Types /\ Bytes(Id) \in Value
    BY BytesOfId, EditAssumption
  <2> QED BY <2>5, <2>6, ReadsAreResults
<1>6. ASSUME NEW i \in 1 .. n
      PROVE  Result(F(i + 1)) /\ (F(i + 1) = Ok(x[i]) <=> Faithful[t.fields[i][2]][x[i]])
  <2>1. StructEntries(t, x, e) /\ Serves(t, g, e) /\ g \in Seq(STRING \X Value)
    BY <1>1, IdServes
  <2>2. ReadsParts(t)
    BY RoundTrip, DepthOf DEF ReadsParts
  <2>3. i \in DOMAIN t.fields
    BY <1>3
  <2>4. /\ Result(DeserializeField(Deserialize, t.fields[i], g))
        /\ DeserializeField(Deserialize, t.fields[i], g) = Ok(x[i]) <=> Faithful[t.fields[i][2]][x[i]]
    BY <2>1, <2>2, <2>3, FieldsReadBack
  <2> QED BY <1>2, <2>4
<1>7. FromDocumentWithId(q, e, Id) = Collected(r)
  <2> DEFINE v == Document(g)
  <2>1. v.kind = "Document" /\ v.entries = g
    BY DEF Document
  <2>2. FromDocumentWithId(q, e, Id) = DeserializeAs(Deserialize, q, v)
    BY DEF FromDocumentWithId, FromDocument, g
  <2> HIDE DEF v
  <2>3. DeserializeAs(Deserialize, q, v) = DeserializeStruct(Deserialize, q, g)
    BY <1>2, <2>1 DEF DeserializeAs, IntType
  <2> QED BY <2>2, <2>3 DEF DeserializeStruct
<1>8. DOMAIN r = 1 .. n + 1 /\ \A i \in 1 .. n + 1 : r[i] = F(i)
  BY <1>2
<1> HIDE DEF r, F, read
<1>9. ASSUME NEW k \in 1 .. n + 1
      PROVE  k = 1 \/ (k - 1 \in 1 .. n /\ (k - 1) + 1 = k)
  <2> HIDE DEF n
  <2> QED BY <1>3
<1>10. ASSUME NEW k \in 1 .. n + 1
       PROVE  Result(r[k])
  <2>1. CASE k = 1
    BY <1>5, <1>8, <2>1
  <2>2. CASE k - 1 \in 1 .. n /\ (k - 1) + 1 = k
    <3> DEFINE i == k - 1
    <3>1. i \in 1 .. n /\ k = i + 1
      BY <2>2
    <3> HIDE DEF i
    <3> QED BY <1>6, <1>8, <3>1
  <2> QED BY <1>9, <2>1, <2>2
<1>11. DOMAIN r \subseteq Nat /\ DOMAIN y = DOMAIN r /\ \A k \in DOMAIN r : Result(r[k])
  <2>1. 1 .. n + 1 \subseteq Nat
    <3> HIDE DEF n
    <3> QED BY <1>3
  <2> QED BY <1>4, <1>8, <1>10, <2>1
<1>12. Collected(r) = Ok(y) <=> \A k \in DOMAIN r : r[k] = Ok(y[k])
  <2>1. y = [i \in DOMAIN y |-> y[i]]
    BY <1>4
  <2> QED BY <1>11, <2>1, CollectedIsOk
<1>13. read = Ok(id) =>
         ((\A k \in 1 .. n + 1 : r[k] = Ok(y[k])) <=> \A i \in 1 .. n : Faithful[t.fields[i][2]][x[i]])
  <2> SUFFICES ASSUME read = Ok(id)
               PROVE  (\A k \in 1 .. n + 1 : r[k] = Ok(y[k]))
                        <=> \A i \in 1 .. n : Faithful[t.fields[i][2]][x[i]]
    OBVIOUS
  <2>1. \A i \in 1 .. n : i + 1 \in 1 .. n + 1
    <3> HIDE DEF n
    <3> QED BY <1>3
  <2>2. ASSUME \A k \in 1 .. n + 1 : r[k] = Ok(y[k]), NEW i \in 1 .. n
        PROVE  Faithful[t.fields[i][2]][x[i]]
    <3> DEFINE k == i + 1
    <3>1. k \in 1 .. n + 1 /\ y[k] = x[i] /\ (F(k) = Ok(x[i]) <=> Faithful[t.fields[i][2]][x[i]])
      BY <1>4, <1>6, <2>1
    <3> HIDE DEF k
    <3> QED BY <1>8, <2>2, <3>1
  <2>3. ASSUME \A i \in 1 .. n : Faithful[t.fields[i][2]][x[i]], NEW k \in 1 .. n + 1
        PROVE  r[k] = Ok(y[k])
    <3>1. CASE k = 1
      BY <1>4, <1>5, <1>8, <3>1
    <3>2. CASE k - 1 \in 1 .. n /\ (k - 1) + 1 = k
      <4> DEFINE i == k - 1
      <4>1. i \in 1 .. n /\ k = i + 1
        BY <3>2
      <4> HIDE DEF i
      <4> QED BY <1>4, <1>6, <1>8, <2>3, <4>1
    <3> QED BY <1>9, <3>1, <3>2
  <2> QED BY <2>2, <2>3
<1>14. Faithful[t][x] <=> \A i \in DOMAIN x : Faithful[t.fields[i][2]][x[i]]
  BY FaithfulCases
<1>15. ~read.ok => ~Collected(r).ok
  <2>1. 1 \in 1 .. n + 1
    <3> HIDE DEF n
    <3> QED BY <1>3
  <2>2. Collected(r).ok => r[1].ok
    BY <1>8, <1>11, <2>1, CollectedResults
  <2> QED BY <1>5, <1>8, <2>1, <2>2
<1>16. read = Ok(id) => (Collected(r) = Ok(y) <=> Faithful[t][x])
  BY <1>3, <1>8, <1>12, <1>13, <1>14
<1> QED BY <1>7, <1>15, <1>16 DEF q, y, read

-----------------------------------------------------------------------------
(* Queries and numbers *)

LEMMA OtherwiseCases ==
  ASSUME NEW t \in Types, NEW x \in Held(t)
  PROVE  /\ t.t = "seq" => StoredOtherwise[t][x]
         /\ t.t = "option" => (StoredOtherwise[t][x] <=> \E i \in DOMAIN x : StoredOtherwise[t.of][x[i]])
         /\ t.t = "tuple" => (StoredOtherwise[t][x] <=> \E i \in DOMAIN x : StoredOtherwise[t.of[i]][x[i]])
         /\ t.t = "map" => (StoredOtherwise[t][x] <=> \E i \in DOMAIN x : StoredOtherwise[t.of][x[i][2]])
         /\ t.t = "any" => (StoredOtherwise[t][x] <=> x \notin Unambiguous[Nesting])
         /\ t.t \notin {"any", "seq", "option", "tuple", "map"} => ~StoredOtherwise[t][x]
<1>1. StoredOtherwise[t][x] <=> OtherwiseStep(StoredOtherwise, t, x)
  BY StoredOtherwiseSteps
<1>2. CASE t.t = "seq"
  BY <1>1, <1>2 DEF OtherwiseStep
<1>3. CASE t.t = "option"
  BY <1>1, <1>3 DEF OtherwiseStep
<1>4. CASE t.t = "tuple"
  BY <1>1, <1>4 DEF OtherwiseStep
<1>5. CASE t.t = "map"
  BY <1>1, <1>5 DEF OtherwiseStep
<1>6. CASE t.t = "any"
  BY <1>1, <1>6 DEF OtherwiseStep
<1>7. CASE t.t \notin {"any", "seq", "option", "tuple", "map"}
  BY <1>1, <1>7 DEF OtherwiseStep
<1> QED BY <1>2, <1>3, <1>4, <1>5, <1>6, <1>7

LEMMA FromOf ==
  ASSUME NEW t \in Queried, NEW x \in Held(t)
  PROVE  From[t][x] = FromAs(From, t, x)
BY FromSteps

\* A query asks for what is stored, for values without a Vec<u8> or a doubled key.
Asks(t, x) == Ok(From[t][x]) = Serialize[t][x] <=> ~StoredOtherwise[t][x]

AsksParts(t) == \A p \in Parts(t) : p \in Queried => \A x \in Held(p) : Asks(p, x)

LEMMA AtomAsks ==
  ASSUME NEW t \in Queried, t.t \in {"unit", "bool", "i64", "u8", "f64", "str", "char", "bytes"},
         NEW x \in Held(t)
  PROVE  Asks(t, x)
<1>1. t \in Types /\ ~StoredOtherwise[t][x]
  BY OtherwiseCases DEF Queried
<1> DEFINE f == From
           r == From[t][x]
<1>2. r = FromAs(f, t, x)
  BY FromOf
<1> HIDE DEF f, r
<1>3. CASE t.t \in {"i64", "u8"}
  <2>1. x \in RangeOf(t.t) /\ x \in Int /\ -Half <= x
    BY <1>1, <1>3, IntHolds DEF IntType
  <2>2. x < Half
    BY <1>3, <2>1, WidthAssumption DEF RangeOf
  <2>3. AsI64(x) = x
    BY <2>1, <2>2, AsI64Keeps
  <2>4. r = I64(x)
    BY <1>2, <1>3 DEF FromAs, IntType
  <2>5. Serialize[t][x] = Ok(I64(x))
    BY <1>1, <1>3, <2>3, AtomsWritten DEF IntType
  <2> QED BY <1>1, <2>4, <2>5 DEF Asks, r
<1>4. CASE t.t \in {"unit", "bool", "f64", "str", "char", "bytes"}
  <2>1. /\ t.t = "unit" => r = Null
        /\ t.t = "bool" => r = Bool(x)
        /\ t.t = "f64" => r = F64(x)
        /\ t.t \in {"str", "char"} => r = String(x)
        /\ t.t = "bytes" => r = Bytes(x)
    BY <1>2 DEF FromAs, IntType
  <2>2. Serialize[t][x] = Ok(r)
    BY <1>1, <1>4, <2>1, AtomsWritten
  <2> QED BY <1>1, <2>2 DEF Asks, r
<1> QED BY <1>3, <1>4

LEMMA AnyAsks ==
  ASSUME NEW t \in Queried, t.t = "any", NEW x \in Held(t)
  PROVE  Asks(t, x)
<1>1. t \in Types /\ (StoredOtherwise[t][x] <=> x \notin Unambiguous[Nesting])
  BY OtherwiseCases DEF Queried
<1>2. x \in Value
  BY <1>1, HeldAtoms
<1>3. From[t][x] = x
  BY FromOf DEF FromAs, IntType
<1>4. Serialize[t][x] = Ok(Rebuilt[x])
  BY <1>1, SerializeOf DEF SerializeAs, SerializeAny, IntType
<1>5. Rebuilt[x] = x <=> x \in Unambiguous[Nesting]
  BY <1>2, RebuiltStays
<1>6. Ok(x) = Ok(Rebuilt[x]) <=> Rebuilt[x] = x
  BY ResultsMade
<1> QED BY <1>1, <1>3, <1>4, <1>5, <1>6 DEF Asks

LEMMA AllIsArray ==
  ASSUME NEW r, NEW f, Result(Collected(r))
  PROVE  /\ SerializeAll(r) = Ok(Array(f)) <=> Collected(r) = Ok(f)
         /\ \A b : SerializeAll(r) # Ok(Bytes(b))
<1> DEFINE c == Collected(r)
<1>1. SerializeAll(r) = IF c.ok THEN Ok(Array(c.value)) ELSE c
  BY DEF SerializeAll
<1> HIDE DEF c
<1>2. Result(c)
  BY DEF c
<1>3. /\ \A a, b : Array(a) # Bytes(b)
      /\ \A a, b : Array(a) = Array(b) => a = b
  BY DEF Array, Bytes
<1>4. \A x : ~c.ok => c # Ok(x)
  BY ResultsMade
<1>5. SerializeAll(r) = Ok(Array(f)) <=> c.ok /\ c.value = f
  BY <1>1, <1>3, <1>4, ResultsMade
<1>6. c = Ok(f) <=> c.ok /\ c.value = f
  BY <1>2, ResultIsOk
<1>7. \A b : SerializeAll(r) # Ok(Bytes(b))
  BY <1>1, <1>3, <1>4, ResultsMade
<1> QED BY <1>5, <1>6, <1>7 DEF c

LEMMA SeqAsks ==
  ASSUME NEW t \in Queried, t.t = "seq", NEW x \in Held(t)
  PROVE  Asks(t, x)
<1>1. t \in Types /\ StoredOtherwise[t][x]
  BY OtherwiseCases DEF Queried
<1>2. From[t][x] = Bytes(x)
  BY FromOf DEF FromAs, IntType
<1> DEFINE r == [i \in DOMAIN x |-> Serialize[t.of][x[i]]]
<1>3. Serialize[t][x] = SerializeAll(r)
  BY <1>1, SerializeOf DEF SerializeAs, IntType
<1>4. Result(Collected(r))
  <2> DEFINE E == Held(t.of)
  <2>1. x \in Seq(E) /\ t.of \in Types
    BY <1>1, HeldParts, PartsOf
  <2> HIDE DEF E
  <2>2. DOMAIN x \subseteq Nat /\ \A i \in DOMAIN x : x[i] \in E
    <3>1. Len(x) \in Nat /\ DOMAIN x = 1 .. Len(x) /\ \A i \in DOMAIN x : x[i] \in E
      BY <2>1, SeqParts
    <3> QED BY <3>1
  <2>3. DOMAIN r = DOMAIN x /\ \A i \in DOMAIN r : Result(r[i])
    BY <2>1, <2>2, WritesAreStored DEF E
  <2> HIDE DEF r
  <2> QED BY <2>2, <2>3, CollectedResults
<1> HIDE DEF r
<1>5. SerializeAll(r) # Ok(Bytes(x))
  BY <1>4, AllIsArray
<1> QED BY <1>1, <1>2, <1>3, <1>5 DEF Asks

LEMMA OptionAsks ==
  ASSUME NEW t \in Queried, t.t = "option", NEW x \in Held(t), AsksParts(t)
  PROVE  Asks(t, x)
<1>1. t \in Types /\ t.of \in Queried /\ t.of \in Parts(t)
  BY PartsQueried
<1>2. From[t][x] = IF x = <<>> THEN Null ELSE From[t.of][x[1]]
  BY FromOf DEF FromAs, IntType
<1>3. Serialize[t][x] = IF x = <<>> THEN Ok(Null) ELSE Serialize[t.of][x[1]]
  BY <1>1, SerializeOf DEF SerializeAs, SerializeOption, IntType
<1>4. StoredOtherwise[t][x] <=> \E i \in DOMAIN x : StoredOtherwise[t.of][x[i]]
  BY <1>1, OtherwiseCases
<1>5. CASE x = <<>>
  BY <1>2, <1>3, <1>4, <1>5 DEF Asks
<1>6. CASE x # <<>>
  <2>1. x = <<x[1]>> /\ x[1] \in Held(t.of) /\ DOMAIN x = {1}
    BY <1>1, <1>6, HeldParts
  <2>2. Asks(t.of, x[1])
    BY <1>1, <2>1 DEF AsksParts
  <2>3. StoredOtherwise[t][x] <=> StoredOtherwise[t.of][x[1]]
    BY <1>4, <2>1
  <2> QED BY <1>2, <1>3, <1>6, <2>2, <2>3 DEF Asks
<1> QED BY <1>5, <1>6

LEMMA TupleAsks ==
  ASSUME NEW t \in Queried, t.t = "tuple", NEW x \in Held(t), AsksParts(t)
  PROVE  Asks(t, x)
<1> DEFINE r == [i \in DOMAIN x |-> Serialize[t.of[i]][x[i]]]
           f == [i \in DOMAIN x |-> From[t.of[i]][x[i]]]
<1>1. t \in Types /\ \A i \in DOMAIN t.of : t.of[i] \in Queried /\ t.of[i] \in Parts(t)
  BY PartsQueried
<1>2. /\ DOMAIN x \subseteq Nat
      /\ \A i \in DOMAIN x : /\ x[i] \in Held(t.of[i]) /\ t.of[i] \in Types
                             /\ t.of[i] \in Queried /\ t.of[i] \in Parts(t)
  <2>1. t.of \in Seq(Types)
    BY <1>1, PartsOf
  <2>2. Len(t.of) \in Nat /\ DOMAIN t.of = 1 .. Len(t.of)
    BY <2>1, SeqParts
  <2>3. DOMAIN t.of \subseteq Nat
    BY <2>2
  <2>4. DOMAIN x = DOMAIN t.of /\ \A i \in DOMAIN x : x[i] \in Held(t.of[i])
    BY <1>1, HeldParts
  <2> QED BY <1>1, <2>3, <2>4 DEF Queried
<1>3. From[t][x] = Array(f)
  BY FromOf DEF FromAs, IntType
<1>4. Serialize[t][x] = SerializeAll(r)
  BY <1>1, SerializeOf DEF SerializeAs, IntType
<1>5. DOMAIN r = DOMAIN x /\ DOMAIN f = DOMAIN r /\ f = [i \in DOMAIN f |-> f[i]]
      /\ \A i \in DOMAIN x : r[i] = Serialize[t.of[i]][x[i]] /\ f[i] = From[t.of[i]][x[i]]
  OBVIOUS
<1> HIDE DEF r, f
<1>6. \A i \in DOMAIN r : Result(r[i]) /\ (r[i] = Ok(f[i]) <=> ~StoredOtherwise[t.of[i]][x[i]])
  <2> SUFFICES ASSUME NEW i \in DOMAIN x
               PROVE  Result(r[i]) /\ (r[i] = Ok(f[i]) <=> ~StoredOtherwise[t.of[i]][x[i]])
    BY <1>5
  <2>1. Result(Serialize[t.of[i]][x[i]])
    BY <1>2, WritesAreStored
  <2>2. Asks(t.of[i], x[i])
    BY <1>2 DEF AsksParts
  <2> QED BY <1>5, <2>1, <2>2 DEF Asks
<1>7. Result(Collected(r))
  <2>1. \A i \in DOMAIN r : Result(r[i])
    BY <1>6
  <2>2. DOMAIN r \subseteq Nat
    BY <1>2, <1>5
  <2> QED BY <2>1, <2>2, CollectedResults
<1>8. Collected(r) = Ok(f) <=> \A i \in DOMAIN r : r[i] = Ok(f[i])
  <2>1. \A i \in DOMAIN r : Result(r[i])
    BY <1>6
  <2>2. DOMAIN r \subseteq Nat /\ DOMAIN f = DOMAIN r
    BY <1>2, <1>5
  <2>3. f = [i \in DOMAIN f |-> f[i]]
    BY <1>5
  <2> QED BY <2>1, <2>2, <2>3, CollectedIsOk
<1>9. SerializeAll(r) = Ok(Array(f)) <=> Collected(r) = Ok(f)
  BY <1>7, AllIsArray
<1>10. StoredOtherwise[t][x] <=> \E i \in DOMAIN x : StoredOtherwise[t.of[i]][x[i]]
  BY <1>1, OtherwiseCases
<1>11. (\A i \in DOMAIN r : r[i] = Ok(f[i])) <=> ~StoredOtherwise[t][x]
  BY <1>5, <1>6, <1>10
<1> QED BY <1>3, <1>4, <1>8, <1>9, <1>11 DEF Asks

LEMMA MapAsks ==
  ASSUME NEW t \in Queried, t.t = "map", NEW x \in Held(t), AsksParts(t)
  PROVE  Asks(t, x)
<1> DEFINE c == WrittenKeys(t, x)
           r == WrittenValues(t, x)
           names == c.value
           n == Len(x)
           d == Depth(t)
           p == NamedPairs(n, names, r)
           f == [i \in DOMAIN x |-> <<x[i][1], From[t.of][x[i][2]]>>]
<1>1. /\ t \in Types /\ t.key \in Types /\ t.key.t = "str"
      /\ t.of \in Queried /\ t.of \in Types /\ t.of \in Parts(t)
  BY PartsQueried, PartsOf DEF Queried
<1>2. /\ n \in Nat /\ DOMAIN x = 1 .. n /\ d \in 1 .. Nesting /\ d - 1 \in 0 .. Nesting
      /\ Depth(t.of) \in 0 .. d - 1
      /\ \A i \in 1 .. n : x[i] = <<x[i][1], x[i][2]>> /\ x[i][1] \in Held(t.key) /\ x[i][2] \in Held(t.of)
  BY <1>1, KeysWritten, DepthOf
<1>3. \A i \in 1 .. n : x[i][1] \in STRING /\ SerializeKey(t.key, x[i][1]) = Ok(x[i][1])
  <2> SUFFICES ASSUME NEW i \in 1 .. n
               PROVE  x[i][1] \in STRING /\ SerializeKey(t.key, x[i][1]) = Ok(x[i][1])
    OBVIOUS
  <2>1. x[i][1] \in STRING
    BY <1>1, <1>2, HeldAtoms
  <2>2. Bare[t.key] = t.key
    BY <1>1, BareSteps
  <2>3. SerializeKey(t.key, x[i][1]) = Ok(x[i][1])
    BY <1>1, <2>2 DEF SerializeKey, IntType
  <2> QED BY <2>1, <2>3
<1>4. ASSUME NEW i \in 1 .. n
      PROVE  Stored(r[i], d - 1) /\ r[i] = Serialize[t.of][x[i][2]]
  <2>1. r[i] = Serialize[t.of][x[i][2]]
    BY <1>2 DEF WrittenValues
  <2>2. Stored(Serialize[t.of][x[i][2]], Depth(t.of))
    BY <1>1, <1>2, SerializeTyped DEF WritesStored
  <2> HIDE DEF d, n
  <2> QED BY <1>2, <2>1, <2>2, StoredGrows
<1>5. DOMAIN r = 1 .. n
  BY <1>2 DEF WrittenValues
<1>6. Serialize[t][x] = IF c.ok THEN Named(names, r) ELSE c
  BY <1>1, SerializeOf DEF SerializeAs, SerializeMap, WrittenKeys, WrittenValues, IntType
<1>7. From[t][x] = Document(Inserted(f))
  BY FromOf DEF FromAs, IntType
<1>8. DOMAIN f = 1 .. n /\ f = [i \in 1 .. n |-> f[i]]
      /\ \A i \in 1 .. n : f[i] = <<x[i][1], From[t.of][x[i][2]]>>
  BY <1>2
<1>9. c.ok /\ DOMAIN names = 1 .. n /\ \A i \in 1 .. n : names[i] \in STRING /\ names[i] = x[i][1]
  <2>1. \A i \in DOMAIN x : SerializeKey(t.key, x[i][1]).ok /\ SerializeKey(t.key, x[i][1]).value = x[i][1]
    BY <1>2, <1>3, ResultsMade
  <2>2. c.ok
    BY <1>1, <2>1, KeysWritten
  <2>3. names = [i \in DOMAIN x |-> SerializeKey(t.key, x[i][1]).value]
    BY <1>1, <2>2, KeysWritten
  <2> HIDE DEF names, c, n
  <2> QED BY <1>2, <1>3, <2>1, <2>2, <2>3
<1> HIDE DEF r, c, d, n, names, f
<1>10. /\ Named(names, r).ok <=> \A i \in 1 .. n : r[i].ok
       /\ Named(names, r).ok =>
             /\ p \in Seq(STRING \X Unambiguous[d - 1])
             /\ Named(names, r).value = Document(Inserted(p))
  BY <1>2, <1>4, <1>5, <1>9, NamedStored
<1>11. DOMAIN p = 1 .. n /\ p = [i \in 1 .. n |-> p[i]] /\ \A i \in 1 .. n : p[i] = <<x[i][1], r[i].value>>
  BY <1>9 DEF NamedPairs
<1>12. Result(Named(names, r))
  BY <1>2, <1>4, <1>5, <1>9, NamedStored DEF Stored
<1> HIDE DEF p
<1>13. KeysOnce(f) /\ KeysOnce(p)
  <2>1. KeysOnce(x)
    BY <1>1, HeldParts
  <2>2. \A i \in 1 .. n : f[i][1] = x[i][1] /\ p[i][1] = x[i][1]
    BY <1>8, <1>11
  <2> QED BY <1>2, <1>8, <1>11, <2>1, <2>2 DEF KeysOnce
<1>14. Inserted(f) = f
  <2> DEFINE S == {From[t.of][x[i][2]] : i \in 1 .. n}
             E == STRING \X S
  <2>1. \A i \in 1 .. n : f[i] \in E
    <3>1. \A i \in 1 .. n : From[t.of][x[i][2]] \in S
      OBVIOUS
    <3> HIDE DEF S
    <3> SUFFICES ASSUME NEW i \in 1 .. n
                 PROVE  f[i] \in E
      BY Zenon
    <3>2. f[i] = <<x[i][1], From[t.of][x[i][2]]>>
      BY <1>8
    <3>3. x[i][1] \in STRING /\ From[t.of][x[i][2]] \in S
      BY <1>3, <3>1
    <3> QED BY <3>2, <3>3
  <2> HIDE DEF E
  <2>2. f \in Seq(E)
    BY <1>2, <1>8, <2>1, SeqMade
  <2> HIDE DEF S
  <2> QED BY <1>13, <2>2, InsertedStays DEF E
<1>15. Named(names, r).ok => Inserted(p) = p
  BY <1>10, <1>13, InsertedStays
<1>16. f = p <=> \A i \in 1 .. n : From[t.of][x[i][2]] = r[i].value
  <2>1. f = p <=> \A i \in 1 .. n : f[i] = p[i]
    BY <1>8, <1>11
  <2>2. \A i \in 1 .. n : f[i] = p[i] <=> From[t.of][x[i][2]] = r[i].value
    BY <1>8, <1>11
  <2> QED BY <2>1, <2>2
<1>17. Ok(From[t][x]) = Serialize[t][x] <=> Named(names, r).ok /\ f = p
  <2> DEFINE w == Named(names, r)
  <2>1. Serialize[t][x] = w /\ From[t][x] = Document(f)
    BY <1>6, <1>7, <1>9, <1>14
  <2>2. w.ok => w = Ok(Document(p))
    BY <1>10, <1>12, <1>15 DEF Result
  <2> HIDE DEF w
  <2>3. ~w.ok => w # Ok(Document(f))
    BY ResultsMade
  <2>4. Ok(Document(f)) = Ok(Document(p)) <=> f = p
    BY ResultsMade DEF Document
  <2>5. Ok(Document(f)) = w <=> w.ok /\ f = p
    BY <2>2, <2>3, <2>4
  <2> QED BY <2>1, <2>5 DEF w
<1>18. ASSUME NEW i \in 1 .. n
       PROVE  r[i].ok /\ From[t.of][x[i][2]] = r[i].value <=> ~StoredOtherwise[t.of][x[i][2]]
  <2>1. Asks(t.of, x[i][2]) /\ Result(r[i]) /\ r[i] = Serialize[t.of][x[i][2]]
    BY <1>1, <1>2, <1>4 DEF AsksParts, Stored
  <2>2. r[i] = Ok(From[t.of][x[i][2]]) <=> r[i].ok /\ r[i].value = From[t.of][x[i][2]]
    BY <2>1, ResultIsOk
  <2> QED BY <2>1, <2>2 DEF Asks
<1>19. StoredOtherwise[t][x] <=> \E i \in 1 .. n : StoredOtherwise[t.of][x[i][2]]
  BY <1>1, <1>2, OtherwiseCases
<1>20. Named(names, r).ok /\ f = p <=> ~StoredOtherwise[t][x]
  BY <1>10, <1>16, <1>18, <1>19
<1> QED BY <1>17, <1>20 DEF Asks

LEMMA QueriesAsk ==
  \A t \in Queried : \A x \in Held(t) : Asks(t, x)
<1> DEFINE S == {t \in Types : t \in Queried => \A x \in Held(t) : Asks(t, x)}
<1>1. ASSUME NEW t \in Types, Parts(t) \subseteq S
      PROVE  t \in S
  <2> SUFFICES ASSUME t \in Queried, NEW x \in Held(t)
               PROVE  Asks(t, x)
    OBVIOUS
  <2>1. AsksParts(t)
    BY <1>1 DEF AsksParts
  <2> HIDE DEF S
  <2>2. t.t \in {"any", "unit", "bool", "i64", "u8", "f64", "str", "char", "bytes", "seq", "option",
                    "tuple", "map"}
    BY PartsQueried
  <2> QED BY <2>1, <2>2, AnyAsks, AtomAsks, SeqAsks, OptionAsks, TupleAsks, MapAsks
<1>2. \A t \in Types : t \in S
  <2> HIDE DEF S
  <2> QED BY <1>1, TypeInduction
<1> QED BY <1>2 DEF Queried

LEMMA NumbersKept ==
  ASSUME NEW t \in Types, NEW x \in Held(t), NEW w,
         \/ t.t \in IntType /\ x < Half /\ w = x
         \/ t.t = "f64" /\ x # NaN /\ Truncated(x) \in RangeOf("i64") /\ w = Truncated(x),
         NEW u \in IntType
  PROVE  TryInt(u, Serialize[t][x].value) = IF w \in RangeOf(u) THEN Ok(w) ELSE Error("Overflow")
<1> DEFINE v == Serialize[t][x].value
<1>1. CASE t.t \in IntType /\ x < Half /\ w = x
  <2>1. v = I64(AsI64(x))
    BY <1>1, AtomsWritten, ResultsMade
  <2>2. AsI64(x) = x
    BY <1>1, IntHolds, AsI64Keeps
  <2>3. v.kind = "I64" /\ v.int = w
    BY <1>1, <2>1, <2>2 DEF I64
  <2> HIDE DEF v
  <2>4. TryInt(u, v) = Narrow(u, w)
    BY <2>3 DEF TryInt
  <2> QED BY <2>4 DEF Narrow, v
<1>2. CASE t.t = "f64" /\ x # NaN /\ Truncated(x) \in RangeOf("i64") /\ w = Truncated(x)
  <2>1. v = F64(x)
    BY <1>2, AtomsWritten, ResultsMade
  <2>2. v.kind = "F64" /\ v.float = x
    BY <2>1 DEF F64
  <2> HIDE DEF v
  <2>3. w \in -Half .. Half - 1 /\ Half \in Nat
    BY <1>2, WidthAssumption DEF RangeOf
  <2>4. FloatAsI64(x) = w
    <3>1. FloatAsI64(x) = CASE x = NaN -> 0
                            [] x # NaN /\ w < -Half -> -Half
                            [] x # NaN /\ w >= Half -> Half - 1
                            [] OTHER -> w
      BY <1>2 DEF FloatAsI64
    <3>2. ~(w < -Half) /\ ~(w >= Half)
      BY <2>3
    <3> QED BY <1>2, <3>1, <3>2
  <2>5. TryInt(u, v) = Narrow(u, w)
    BY <2>2, <2>4 DEF TryInt
  <2> QED BY <2>5 DEF Narrow, v
<1> QED BY <1>1, <1>2

\* To an i64 every stored number is converted.
LEMMA NumbersBecomeI64 ==
  ASSUME NEW t \in Types, NEW x \in Held(t), t.t \in IntType \cup {"f64"}
  PROVE  TryInt("i64", Serialize[t][x].value).ok
<1> DEFINE v == Serialize[t][x].value
<1>1. Half \in Nat /\ Half > 0
  BY WidthAssumption
<1>2. CASE t.t \in IntType
  <2>1. v = I64(AsI64(x))
    BY <1>2, AtomsWritten, ResultsMade
  <2>2. AsI64(x) \in RangeOf("i64")
    BY <1>2, IntHolds, AsI64InRange DEF RangeOf
  <2>3. v.kind = "I64" /\ v.int \in RangeOf("i64")
    BY <2>1, <2>2 DEF I64
  <2> HIDE DEF v
  <2>4. TryInt("i64", v) = Ok(v.int)
    BY <2>3 DEF TryInt, Narrow
  <2> QED BY <2>4, ResultsMade DEF v
<1>3. CASE t.t = "f64"
  <2>1. v = F64(x) /\ x \in Int
    BY <1>3, AtomsWritten, HeldAtoms, ResultsMade
  <2>2. v.kind = "F64" /\ v.float = x
    BY <2>1 DEF F64
  <2>3. Truncated(x) \in Int
    BY <2>1 DEF Truncated
  <2>4. FloatAsI64(x) \in RangeOf("i64")
    BY <1>1, <2>3 DEF FloatAsI64, RangeOf
  <2> HIDE DEF v
  <2>5. TryInt("i64", v) = Ok(FloatAsI64(x))
    BY <2>2, <2>4 DEF TryInt, Narrow
  <2> QED BY <2>5, ResultsMade DEF v
<1> QED BY <1>2, <1>3

-----------------------------------------------------------------------------
(* The state *)

\* What the caller holds is of its type, and a Document it edits is
\* unambiguous; a stored document is what the serializer made of it, without
\* an _id; a result is what the reader makes of that.
DocumentInv ==
  /\ type \in Types /\ datum \in Held(type)
  /\ type = Anything => datum \in Unambiguous[Depth(type)]
  /\ stage \in {"held", "refused", "stored", "read", "readWithId"}
  /\ stage \in {"held", "refused"} => document = <<>>
  /\ stage \in {"stored", "read", "readWithId"} =>
       Serialize[type][datum] = Ok(Document(document)) /\ ~ContainsKey(document, "_id")
  /\ stage = "read" => result = FromDocument(type, document)
  /\ stage = "readWithId" =>
       reader \in Readers(type) /\ result = FromDocumentWithId(reader, document, Id)

LEMMA EditedKeepsKeys ==
  ASSUME NEW S, NEW entries \in Seq(STRING \X S), KeysOnce(entries), Entry \subseteq S, Bytes(Id) \in S,
         NEW edited \in Edited(entries)
  PROVE  edited \in Seq(STRING \X S) /\ KeysOnce(edited)
<1>1. CASE \E key \in Key, value \in Entry : edited = Insert(entries, key, value)
  <2>1. PICK key \in Key, value \in Entry : edited = Insert(entries, key, value)
    BY <1>1
  <2>2. key \in STRING /\ value \in S
    BY EditAssumption
  <2> QED BY <2>1, <2>2, InsertKeepsKeys
<1>2. CASE \E key \in Key, value \in Entry : edited = InsertFront(entries, key, value)
  <2>1. PICK key \in Key, value \in Entry : edited = InsertFront(entries, key, value)
    BY <1>2
  <2>2. key \in STRING /\ value \in S
    BY EditAssumption
  <2> QED BY <2>1, <2>2, FrontKeepsKeys
<1>3. CASE \E key \in Key : edited = RemoveKey(entries, key)
  <2>1. PICK key \in Key : edited = RemoveKey(entries, key)
    BY <1>3
  <2> QED BY <2>1, RemoveKeepsKeys
<1>4. CASE edited = WithId(entries, Id)
  <2> DEFINE k == "_id"
             v == Bytes(Id)
  <2>1. edited = InsertFront(entries, k, v) /\ k \in STRING /\ v \in S
    BY <1>4, EditAssumption DEF WithId
  <2> HIDE DEF k, v
  <2> QED BY <2>1, FrontKeepsKeys
<1> QED BY <1>1, <1>2, <1>3, <1>4 DEF Edited

LEMMA InitDatum ==
  ASSUME Init
  PROVE  DocumentInv
<1>1. type \in Types /\ datum \in Data(type) /\ stage = "held" /\ document = <<>>
  BY DEF Init
<1>2. IsOf(type, datum)
  BY <1>1, DataAssumption
<1>3. datum \in Held(type)
  <2>1. CASE type.t = "any"
    <3>1. IsOf(type, datum) <=> datum \in Values[Depth(type)]
      BY <2>1 DEF IsOf, IntType
    <3> QED BY <1>2, <2>1, <3>1 DEF Held
  <2>2. CASE type.t # "any"
    BY <1>1, <2>2 DEF Held
  <2> QED BY <2>1, <2>2
<1>4. type = Anything => datum \in Unambiguous[Depth(type)]
  BY <1>1, StartAssumption DEF Anything
<1> QED BY <1>1, <1>3, <1>4 DEF DocumentInv

LEMMA EditKeepsInv ==
  ASSUME DocumentInv, Edit
  PROVE  DocumentInv'
<1>1. /\ stage = "held" /\ type = Anything /\ datum.kind = "Document"
      /\ type' = type /\ stage' = stage /\ document' = document
  BY DEF Edit
<1>2. PICK e \in Edited(datum.entries) : datum' = Document(e)
  BY DEF Edit
<1> DEFINE d == Depth(type)
           S == Unambiguous[d - 1]
<1>3. type \in Types /\ type.t = "any" /\ datum \in Unambiguous[d] /\ document = <<>>
  BY <1>1 DEF DocumentInv, Anything
<1>4. d \in 1 .. Nesting /\ d \in 0 .. Nesting /\ d - 1 \in 0 .. Nesting
  BY <1>3, DepthOf
<1> HIDE DEF d
<1>5. datum.entries \in Seq(STRING \X S) /\ KeysOnce(datum.entries)
  BY <1>1, <1>3, <1>4, UnambiguousCases
<1>6. Entry \subseteq S /\ Bytes(Id) \in S
  <2>1. Atom \subseteq S
    BY <1>4, AtomsInside
  <2>2. Bytes(Id) \in Atom /\ Entry \subseteq Atom
    BY AtomsMade, EditAssumption
  <2> QED BY <2>1, <2>2
<1>7. e \in Seq(STRING \X S) /\ KeysOnce(e)
  <2> HIDE DEF S
  <2> QED BY <1>2, <1>5, <1>6, EditedKeepsKeys
<1>8. datum' \in Unambiguous[d]
  BY <1>2, <1>4, <1>7, UnambiguousMade
<1>9. datum' \in Held(type)
  BY <1>3, <1>4, <1>8, UnambiguousAreValues DEF Held, d
<1> QED BY <1>1, <1>3, <1>8, <1>9 DEF DocumentInv, d

LEMMA WriteKeepsInv ==
  ASSUME DocumentInv, Write
  PROVE  DocumentInv'
<1> DEFINE root == Serialize[type][datum]
           written == ToDocument(type, datum)
<1>1. /\ stage = "held" /\ type' = type /\ datum' = datum
      /\ stage' = (IF written.ok THEN "stored" ELSE "refused")
      /\ document' = (IF written.ok THEN written.value ELSE <<>>)
  BY DEF Write
<1>2. /\ type \in Types /\ datum \in Held(type)
      /\ type = Anything => datum \in Unambiguous[Depth(type)]
  BY DEF DocumentInv
<1>3. CASE ~written.ok
  <2>1. stage' = "refused" /\ document' = <<>>
    BY <1>1, <1>3
  <2> QED BY <1>1, <1>2, <2>1 DEF DocumentInv
<1>4. CASE written.ok
  <2>1. /\ root.ok /\ root.value.kind = "Document" /\ ~ContainsKey(root.value.entries, "_id")
        /\ written = Ok(root.value.entries)
    <3>1. written = IF ~root.ok THEN root
                    ELSE IF root.value.kind # "Document" THEN Error("RootNotDocument")
                    ELSE IF ContainsKey(root.value.entries, "_id") THEN Error("IdNotAllowed")
                    ELSE Ok(root.value.entries)
      BY DEF ToDocument
    <3> HIDE DEF written, root
    <3> QED BY <1>4, <3>1, ResultsMade
  <2>2. root = Ok(root.value) /\ root.value \in Value
    BY <1>2, <2>1, WritesAreStored DEF Result
  <2>3. root.value = Document(root.value.entries)
    <3> DEFINE v == root.value
    <3>1. v \in Value /\ v.kind = "Document"
      BY <2>1, <2>2
    <3> HIDE DEF v
    <3>2. v = Document(v.entries)
      BY <3>1, InsideValue
    <3> QED BY <3>2 DEF v
  <2>4. stage' = "stored" /\ document' = root.value.entries
    BY <1>1, <1>4, <2>1, ResultsMade
  <2>5. root = Ok(Document(document')) /\ ~ContainsKey(document', "_id")
    BY <2>1, <2>2, <2>3, <2>4
  <2> QED BY <1>1, <1>2, <2>4, <2>5 DEF DocumentInv
<1> QED BY <1>3, <1>4

LEMMA NextKeepsInv ==
  ASSUME DocumentInv, [Next]_vars
  PROVE  DocumentInv'
<1>1. CASE Edit
  BY <1>1, EditKeepsInv
<1>2. CASE Write
  BY <1>2, WriteKeepsInv
<1>3. CASE Read
  BY <1>3 DEF Read, DocumentInv
<1>4. CASE ReadWithId
  <2>1. /\ stage = "stored" /\ stage' = "readWithId" /\ reader' \in Readers(type)
        /\ result' = FromDocumentWithId(reader', document, Id)
        /\ type' = type /\ datum' = datum /\ document' = document
    BY <1>4 DEF ReadWithId
  <2> QED BY <2>1 DEF DocumentInv
<1>5. CASE UNCHANGED vars
  BY <1>5 DEF vars, DocumentInv
<1> QED BY <1>1, <1>2, <1>3, <1>4, <1>5 DEF Next

LEMMA DocumentInvariant == Spec => []DocumentInv
BY InitDatum, NextKeepsInv, PTL DEF Spec

LEMMA InvKeepsKeys ==
  ASSUME DocumentInv
  PROVE  KeysAreUnique
<1> DEFINE d == Depth(type)
<1>1. type \in Types /\ datum \in Held(type)
  BY DEF DocumentInv
<1>2. d \in 1 .. Nesting /\ Nesting \in 0 .. Nesting /\ d \in 0 .. Nesting /\ 1 \in 1 .. Nesting
      /\ 1 \in 0 .. Nesting /\ d \in 0 .. Nesting /\ Nesting \in Nat
  <2>1. d \in 1 .. Nesting /\ Nesting \in Nat
    BY <1>1, DepthOf, TypeAssumption
  <2> HIDE DEF d
  <2> QED BY <2>1
<1>3. Unambiguous[d] \subseteq Unambiguous[Nesting] /\ Unambiguous[1] \subseteq Unambiguous[Nesting]
  <2> HIDE DEF d
  <2> QED BY <1>2, LevelsGrow
<1>4. Document(document) \in Unambiguous[Nesting]
  <2>1. CASE stage \in {"held", "refused"}
    <3>1. document = <<>>
      BY <2>1 DEF DocumentInv
    <3>2. Document(<<>>) \in Unambiguous[1]
      <4>1. KeysOnce(<<>>) /\ <<>> \in Seq(STRING \X Unambiguous[1 - 1])
        BY DEF KeysOnce
      <4> QED BY <1>2, <4>1, UnambiguousMade
    <3> QED BY <1>3, <3>1, <3>2
  <2>2. CASE stage \in {"stored", "read", "readWithId"}
    <3>1. Serialize[type][datum] = Ok(Document(document))
      BY <2>2 DEF DocumentInv
    <3>2. Document(document) \in Unambiguous[d]
      BY <1>1, <3>1, WritesAreStored, ResultsMade
    <3> QED BY <1>3, <3>2
  <2> QED BY <2>1, <2>2 DEF DocumentInv
<1> QED BY <1>3, <1>4 DEF DocumentInv, KeysAreUnique

\* No document ever holds a key twice, at any depth, whatever the edits
\* (Document::insert, insert_front, remove).
THEOREM KeysHoldOnce == Spec => []KeysAreUnique
BY DocumentInvariant, InvKeepsKeys, PTL

LEMMA InvReadsBack ==
  ASSUME DocumentInv
  PROVE  ReadsWhatWasWritten
<1> SUFFICES ASSUME stage = "read"
             PROVE  result = Ok(datum) <=> Faithful[type][datum]
  BY DEF ReadsWhatWasWritten
<1> DEFINE v == Document(document)
<1>1. /\ type \in Types /\ datum \in Held(type) /\ Serialize[type][datum] = Ok(v)
      /\ result = FromDocument(type, document)
  BY DEF DocumentInv
<1>2. Serialize[type][datum].ok /\ Serialize[type][datum].value = v /\ v \in Value
  BY <1>1, ResultsMade, WritesAreStored
<1>3. result = Deserialize[type][v]
  BY <1>1, <1>2, DeserializeOf DEF FromDocument
<1>4. ReadsBack(type, datum)
  BY <1>1, RoundTrip
<1> QED BY <1>2, <1>3, <1>4 DEF ReadsBack

\* What was accepted for writing is read back as it was, for exactly the
\* faithful values, of every type (to_document, from_document).
THEOREM WrittenIsRead == Spec => []ReadsWhatWasWritten
BY DocumentInvariant, InvReadsBack, PTL

LEMMA InvJoinsId ==
  ASSUME DocumentInv
  PROVE  IdIsOneMoreEntry
<1> SUFFICES ASSUME stage = "readWithId"
             PROVE  /\ Received = {} => ~result.ok
                    /\ \A y \in Received : result = Ok(y) <=> Faithful[type][datum]
  BY DEF IdIsOneMoreEntry
<1> DEFINE v == Document(WithId(document, Id))
<1>1. /\ type \in Types /\ datum \in Held(type) /\ Serialize[type][datum] = Ok(Document(document))
      /\ ~ContainsKey(document, "_id")
      /\ reader \in Readers(type) /\ result = FromDocumentWithId(reader, document, Id)
  BY DEF DocumentInv
<1>2. CASE reader = type
  <2>1. v \in Value
    BY <1>1, WrittenWithId DEF IdInFront
  <2>2. result = Deserialize[type][v]
    BY <1>1, <1>2, <2>1, DeserializeOf DEF FromDocumentWithId, FromDocument
  <2>3. Joint(type, datum, result)
    BY <1>1, <2>2, IdJoins DEF JoinsId
  <2>4. Received = Joined[type][datum]
    BY <1>2 DEF Received
  <2> QED BY <2>3, <2>4 DEF Joint
<1>3. CASE reader # type
  <2>1. PICK of \in IdTypes : reader = Identified(type, of)
    BY <1>1, <1>3 DEF Readers
  <2>2. type.t = "struct"
    BY <1>1, <1>3 DEF Readers
  <2>3. Received = Behind(IdBytes[of], datum)
    <3>1. reader.fields[1] = <<"_id", of>>
      BY <1>1, <2>1, <2>2, IdentifiedFields
    <3> QED BY <1>3, <3>1 DEF Received
  <2> DEFINE read == Deserialize[of][Bytes(Id)]
  <2>4. /\ IdBytes[of] = {} => ~read.ok
        /\ \A id \in IdBytes[of] : read = Ok(id)
    BY EditAssumption, IdBytesReads DEF ReadsOnly
  <2>5. ASSUME NEW id
        PROVE  /\ ~read.ok => ~result.ok
               /\ read = Ok(id) => (result = Ok(<<id>> \o datum) <=> Faithful[type][datum])
    <3>1. result = FromDocumentWithId(Identified(type, of), document, Id)
      BY <1>1, <2>1
    <3> QED BY <1>1, <2>2, <3>1, IdentifiedReads
  <2> HIDE DEF read
  <2>6. ASSUME NEW y \in Received
        PROVE  result = Ok(y) <=> Faithful[type][datum]
    <3>1. PICK id \in IdBytes[of] : y = <<id>> \o datum
      BY <2>3, EachBehind
    <3> QED BY <2>4, <2>5, <3>1
  <2>7. Received = {} => ~result.ok
    BY <2>3, <2>4, <2>5, EachBehind
  <2> QED BY <2>6, <2>7
<1> QED BY <1>2, <1>3

\* A value is read with its id as one more entry or field, for exactly the
\* faithful values, by exactly the readers whose types take the id, whatever
\* type these read _id as (from_document_with_id).
THEOREM IdComesWithTheValue == Spec => []IdIsOneMoreEntry
BY DocumentInvariant, InvJoinsId, PTL

LEMMA InvAsks ==
  ASSUME DocumentInv
  PROVE  QueriesAskForWhatIsStored
BY QueriesAsk DEF DocumentInv, QueriesAskForWhatIsStored, Asks, Queried

\* A query asks for what is stored, but for values that hold a Vec<u8> or a
\* doubled key
\* (From for Value, and the Serializer).
THEOREM QueriesAndStoreAgree == Spec => []QueriesAskForWhatIsStored
BY DocumentInvariant, InvAsks, PTL

LEMMA InvKeepsNumbers ==
  ASSUME DocumentInv
  PROVE  NumbersAreNotInvented
<1> DEFINE v == Serialize[type][datum].value
           inside == IsWhole /\ Whole \in RangeOf("i64")
<1> SUFFICES ASSUME type.t \in IntType \cup {"f64"}
             PROVE  (\A t \in IntType : TryInt(t, v) = Fitting(t)) <=> inside
  BY DEF NumbersAreNotInvented, IsNumber
<1>1. type \in Types /\ datum \in Held(type)
  BY DEF DocumentInv
<1>2. CASE inside
  <2>1. \/ type.t \in IntType /\ datum < Half /\ Whole = datum
        \/ type.t = "f64" /\ datum # NaN /\ Truncated(datum) \in RangeOf("i64") /\ Whole = Truncated(datum)
    <3>1. CASE type.t = "f64"
      BY <1>2, <3>1 DEF IsWhole, Whole
    <3>2. CASE type.t \in IntType
      <4>1. Whole = datum /\ datum \in -Half .. Half - 1
        BY <1>2, <3>2 DEF Whole, RangeOf, IntType
      <4>2. Half \in Nat
        BY WidthAssumption
      <4> QED BY <3>2, <4>1, <4>2
    <3> QED BY <3>1, <3>2
  <2>2. ASSUME NEW t \in IntType
        PROVE  TryInt(t, v) = Fitting(t)
    <3> DEFINE w == Whole
    <3>1. Fitting(t) = IF w \in RangeOf(t) THEN Ok(w) ELSE Error("Overflow")
      BY <1>2 DEF Fitting
    <3> HIDE DEF w
    <3>2. TryInt(t, v) = IF w \in RangeOf(t) THEN Ok(w) ELSE Error("Overflow")
      BY <1>1, <2>1, NumbersKept DEF w
    <3> QED BY <3>1, <3>2
  <2> QED BY <1>2, <2>2
<1>3. CASE ~inside
  <2>1. "i64" \in IntType /\ Fitting("i64") = Error("Overflow")
    BY <1>3 DEF Fitting, IntType
  <2>2. TryInt("i64", v).ok
    BY <1>1, NumbersBecomeI64
  <2>3. TryInt("i64", v) # Fitting("i64")
    BY <2>1, <2>2, ResultsMade
  <2> QED BY <1>3, <2>1, <2>3
<1> QED BY <1>2, <1>3

\* A stored number is converted to each integer type to itself or to an error,
\* for exactly the numbers inside i64 (impl_try_int, serialize_u64).
THEOREM NumbersAreKept == Spec => []NumbersAreNotInvented
BY DocumentInvariant, InvKeepsNumbers, PTL
================================================================================
