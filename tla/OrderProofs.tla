------------------------------ MODULE OrderProofs ------------------------------
(* What other proofs need of orders: least and greatest elements, the order a  *)
(* fold of the community modules takes its steps in, byte strings, lists of a  *)
(* finite set in order, and merged cursors.  Steps are functions and orders    *)
(* are relations.                                                              *)
EXTENDS MergedCursor, FiniteSetTheorems, SequenceTheorems, WellFoundedInduction, TLAPS

-----------------------------------------------------------------------------
(* Induction *)

\* A nonempty set of naturals has a least element.
LEMMA LeastExists ==
  ASSUME NEW S \in SUBSET Nat, S # {}
  PROVE  \E x \in S : \A y \in S : x <= y
<1>1. IsWellFoundedOn(OpToRel(<, Nat), Nat)
  BY NatLessThanWellFounded
<1>2. PICK x \in S : \A y \in S : <<y, x>> \notin OpToRel(<, Nat)
  <2> DEFINE R == OpToRel(<, Nat)
  <2> HIDE DEF R
  <2> QED BY <1>1, WFMin DEF R
<1>3. \A y \in S : ~(y < x)
  BY <1>2 DEF OpToRel
<1> QED BY <1>3

\* A nonempty set of timestamps has a newest one.
LEMMA NewestExists ==
  ASSUME NEW n \in Nat, NEW S \in SUBSET (0 .. n), S # {}
  PROVE  Max(S) \in S /\ \A s \in S : s <= Max(S)
<1> DEFINE R == OpToRel(<, Nat)
           T == {k \in Nat : n - k \in S}
<1>1. IsWellFoundedOn(R, Nat)
  BY NatLessThanWellFounded
<1>2. T # {}
  <2>1. PICK s \in S : TRUE
    OBVIOUS
  <2>2. n - s \in Nat /\ n - (n - s) = s
    BY <2>1
  <2> QED BY <2>1, <2>2
<1>3. T \subseteq Nat
  OBVIOUS
<1> HIDE DEF R, T
<1>4. PICK x \in T : \A y \in T : <<y, x>> \notin R
  BY <1>1, <1>2, <1>3, WFMin
<1>5. x \in Nat /\ n - x \in S
  BY DEF T
<1>6. \A s \in S : n - x >= s
  <2> SUFFICES ASSUME NEW s \in S, s > n - x
               PROVE  FALSE
    BY <1>5
  <2>1. n - s \in Nat /\ n - (n - s) = s /\ n - s < x
    BY <1>5
  <2>2. n - s \in T
    BY <2>1 DEF T
  <2>3. <<n - s, x>> \in R
    BY <2>1, <1>5 DEF R, OpToRel
  <2> QED BY <2>2, <2>3, <1>4
<1>7. \E m \in S : \A s \in S : m >= s
  BY <1>5, <1>6
<1>8. Max(S) \in S /\ \A s \in S : Max(S) >= s
  BY <1>7 DEF Max
<1> QED BY <1>8

\* A set that holds 0, and with each number below n the next one, holds all up to n.
LEMMA UpTo ==
  ASSUME NEW n \in Nat, NEW S, 0 \in S, \A i \in 1 .. n : i - 1 \in S => i \in S
  PROVE  \A i \in 0 .. n : i \in S
<1> SUFFICES ASSUME NEW i \in 0 .. n, i \notin S
             PROVE  FALSE
  OBVIOUS
<1> DEFINE Missing == {k \in 0 .. n : k \notin S}
<1>1. Missing \in SUBSET Nat /\ Missing # {}
  OBVIOUS
<1>2. PICK k \in Missing : \A j \in Missing : k <= j
  <2> HIDE DEF Missing
  <2> QED BY <1>1, LeastExists
<1>3. k \in 1 .. n /\ k - 1 \in 0 .. n /\ k - 1 < k
  BY <1>2
<1>4. k - 1 \in S
  BY <1>2, <1>3
<1> QED BY <1>2, <1>3, <1>4

\* The same from n down to 0.
LEMMA DownFrom ==
  ASSUME NEW n \in Nat, NEW S, n \in S, \A i \in 1 .. n : i \in S => i - 1 \in S
  PROVE  \A i \in 0 .. n : i \in S
<1> DEFINE T == {k \in 0 .. n : n - k \in S}
<1>1. 0 \in T
  OBVIOUS
<1>2. \A k \in 1 .. n : k - 1 \in T => k \in T
  <2> SUFFICES ASSUME NEW k \in 1 .. n, k - 1 \in T
               PROVE  k \in T
    OBVIOUS
  <2>1. n - (k - 1) \in 1 .. n /\ n - (k - 1) \in S /\ (n - (k - 1)) - 1 = n - k
    OBVIOUS
  <2> QED BY <2>1
<1>3. \A k \in 0 .. n : k \in T
  <2> HIDE DEF T
  <2> QED BY <1>1, <1>2, UpTo
<1> QED
  <2> SUFFICES ASSUME NEW i \in 0 .. n
               PROVE  i \in S
    OBVIOUS
  <2>1. n - i \in 0 .. n /\ n - (n - i) = i
    OBVIOUS
  <2> QED BY <2>1, <1>3

-----------------------------------------------------------------------------
(* Folds *)

\* pick names an element of every nonempty set of places.
Picks(pick, n) == \A s \in SUBSET (1 .. n) : s # {} => pick[s] \in s

\* f is the result of folding Step over each set of places, the picked one last.
IsFold(f, n, b, pick, Step) ==
  \A s \in SUBSET (1 .. n) :
    f[s] = IF s = {} THEN b ELSE Step[<<f[s \ {pick[s]}], pick[s]>>]

\* A fold over places is defined: whatever place is picked from a set next, there is a
\* function that takes one step for it from the result for the rest.
LEMMA FoldExists ==
  ASSUME NEW n \in Nat, NEW X, NEW b \in X,
         NEW pick, Picks(pick, n), NEW Step \in [X \X (1 .. n) -> X]
  PROVE  \E f \in [SUBSET (1 .. n) -> X] : IsFold(f, n, b, pick, Step)
<1> DEFINE D == SUBSET (1 .. n)
           Size(s) == Cardinality(s)
           Good(f, k) == \A s \in D : Size(s) <= k =>
                           f[s] = IF s = {} THEN b ELSE Step[<<f[s \ {pick[s]}], pick[s]>>]
           Reached == {k \in 0 .. n : \E f \in [D -> X] : Good(f, k)}
<1>1. /\ IsFiniteSet(1 .. n) /\ Cardinality(1 .. n) = n
      /\ \A s \in D : IsFiniteSet(s) /\ Size(s) \in 0 .. n /\ (Size(s) = 0 <=> s = {})
  <2>1. IsFiniteSet(1 .. n) /\ Cardinality(1 .. n) = n
    BY FS_Interval
  <2>2. ASSUME NEW s \in D
        PROVE  IsFiniteSet(s) /\ Size(s) \in 0 .. n /\ (Size(s) = 0 <=> s = {})
    <3> DEFINE P == 1 .. n
    <3>1. IsFiniteSet(P) /\ Cardinality(P) = n /\ s \in SUBSET P
      BY <2>1
    <3> HIDE DEF P
    <3>2. IsFiniteSet(s) /\ Cardinality(s) <= n
      BY <3>1, FS_Subset
    <3>3. Cardinality(s) \in Nat
      BY <3>2, FS_CardinalityType
    <3>4. Cardinality(s) = 0 <=> s = {}
      BY <3>2, FS_EmptySet
    <3> QED BY <3>2, <3>3, <3>4
  <2> QED BY <2>1, <2>2
<1>2. ASSUME NEW s \in D, s # {}
      PROVE  s \ {pick[s]} \in D /\ Size(s \ {pick[s]}) = Size(s) - 1 /\ Size(s) > 0
  <2>1. IsFiniteSet(s) /\ pick[s] \in s
    BY <1>1, <1>2 DEF Picks
  <2>2. Cardinality(s \ {pick[s]}) = Cardinality(s) - 1
    BY <2>1, FS_RemoveElement
  <2>3. Cardinality(s) # 0
    BY <2>1, FS_EmptySet
  <2>4. s \in D /\ s \ {pick[s]} \in D
    BY <1>2
  <2>5. Size(s) \in Nat
    BY <1>1
  <2> QED BY <2>2, <2>3, <2>4, <2>5
<1>3. 0 \in Reached
  <2> DEFINE f == [s \in D |-> b]
  <2>1. f \in [D -> X]
    OBVIOUS
  <2>2. Good(f, 0)
    <3>1. \A s \in D : Size(s) <= 0 => s = {}
      BY <1>1
    <3> HIDE DEF Size
    <3> QED BY <3>1
  <2> HIDE DEF f, Good
  <2> QED BY <2>1, <2>2
<1>4. ASSUME NEW k \in 1 .. n, k - 1 \in Reached
      PROVE  k \in Reached
  <2>1. PICK g \in [D -> X] : Good(g, k - 1)
    BY <1>4
  <2> DEFINE f == [s \in D |-> IF Size(s) = k THEN Step[<<g[s \ {pick[s]}], pick[s]>>] ELSE g[s]]
  <2>2. f \in [D -> X]
    <3> SUFFICES ASSUME NEW s \in D, Size(s) = k
                 PROVE  Step[<<g[s \ {pick[s]}], pick[s]>>] \in X
      BY <2>1
    <3>1. s # {}
      BY <1>1
    <3>2. g[s \ {pick[s]}] \in X /\ pick[s] \in 1 .. n
      <4>1. pick[s] \in s /\ s \ {pick[s]} \in D
        BY <3>1, <1>2 DEF Picks
      <4> QED BY <4>1, <2>1
    <3> QED BY <3>2
  <2>3. ASSUME NEW s \in D, Size(s) <= k
        PROVE  f[s] = IF s = {} THEN b ELSE Step[<<f[s \ {pick[s]}], pick[s]>>]
    <3>1. s # {} => f[s \ {pick[s]}] = g[s \ {pick[s]}]
      <4> HAVE s # {}
      <4> DEFINE r == s \ {pick[s]}
      <4>1. r \in D /\ Size(r) = Size(s) - 1 /\ Size(s) \in Int
        BY <1>1, <1>2
      <4>2. Size(r) # k
        <5> HIDE DEF r, Size
        <5> QED BY <4>1, <2>3
      <4> HIDE DEF r, Size, D
      <4> QED BY <4>1, <4>2 DEF r
    <3>2. CASE Size(s) = k
      <4>1. s # {}
        BY <1>1, <3>2
      <4>2. f[s] = Step[<<g[s \ {pick[s]}], pick[s]>>]
        BY <3>2
      <4> HIDE DEF f
      <4> QED BY <3>1, <4>1, <4>2
    <3>3. CASE Size(s) # k
      <4>1. Size(s) <= k - 1
        BY <3>3, <2>3, <1>1
      <4>2. f[s] = g[s]
        BY <3>3
      <4>3. g[s] = IF s = {} THEN b ELSE Step[<<g[s \ {pick[s]}], pick[s]>>]
        BY <2>1, <4>1
      <4> HIDE DEF f, D, Size
      <4> QED BY <3>1, <4>2, <4>3
    <3> QED BY <3>2, <3>3
  <2> HIDE DEF f
  <2>4. Good(f, k)
    BY <2>3
  <2> HIDE DEF Good
  <2> QED BY <2>2, <2>4
<1>5. n \in Reached
  <2> HIDE DEF Reached
  <2> QED BY <1>3, <1>4, UpTo
<1>6. PICK f \in [D -> X] : Good(f, n)
  BY <1>5
<1>7. \A s \in D : Size(s) <= n
  BY <1>1
<1> QED BY <1>6, <1>7 DEF IsFold

\* The places up to k have k for their last one.
LEMMA LastPlace ==
  ASSUME NEW n \in Nat, NEW k \in 1 .. n
  PROVE  /\ 1 .. k \in SUBSET (1 .. n) /\ 1 .. k # {} /\ k - 1 \in 0 .. n
         /\ Max(1 .. k) = k /\ (1 .. k) \ {k} = 1 .. k - 1
<1>1. k \in 1 .. k /\ \A y \in 1 .. k : k >= y
  OBVIOUS
<1>2. Max(1 .. k) \in 1 .. k /\ Max(1 .. k) >= k
  BY <1>1 DEF Max
<1>3. Max(1 .. k) = k
  BY <1>2
<1>4. 1 .. k \in SUBSET (1 .. n)
  OBVIOUS
<1>5. (1 .. k) \ {k} = 1 .. k - 1
  OBVIOUS
<1>6. k - 1 \in 0 .. n
  OBVIOUS
<1> QED BY <1>1, <1>3, <1>4, <1>5, <1>6

\* The places from k up to n have k for their first one.
LEMMA FirstPlace ==
  ASSUME NEW n \in Nat, NEW k \in 1 .. n
  PROVE  /\ k .. n \in SUBSET (1 .. n) /\ k .. n # {}
         /\ Min(k .. n) = k /\ (k .. n) \ {k} = k + 1 .. n
<1>1. k \in k .. n /\ \A y \in k .. n : k <= y
  OBVIOUS
<1>2. Min(k .. n) \in k .. n /\ Min(k .. n) <= k
  BY <1>1 DEF Min
<1>3. Min(k .. n) = k
  BY <1>2
<1>4. k .. n \in SUBSET (1 .. n)
  OBVIOUS
<1>5. (k .. n) \ {k} = k + 1 .. n
  OBVIOUS
<1> QED BY <1>1, <1>3, <1>4, <1>5

\* A nonempty set of places has a greatest and a least one.
LEMMA PlacesHaveEnds ==
  ASSUME NEW n \in Nat, NEW S \in SUBSET (1 .. n), S # {}
  PROVE  /\ Max(S) \in S /\ \A y \in S : y <= Max(S)
         /\ Min(S) \in S /\ \A y \in S : Min(S) <= y
<1>1. S \in SUBSET Nat
  OBVIOUS
<1>2. \E x \in S : \A y \in S : x <= y
  BY <1>1, LeastExists
<1>3. \E x \in S : \A y \in S : x >= y
  <2> DEFINE T == {n - i : i \in S}
  <2>1. T \in SUBSET Nat /\ T # {}
    <3>1. \A i \in S : n - i \in Nat
      OBVIOUS
    <3> QED BY <3>1
  <2>2. PICK k \in T : \A j \in T : k <= j
    <3> HIDE DEF T
    <3> QED BY <2>1, LeastExists
  <2>3. PICK x \in S : k = n - x
    BY <2>2
  <2>4. \A y \in S : n - x <= n - y
    BY <2>2, <2>3
  <2> QED BY <2>3, <2>4
<1> QED BY <1>2, <1>3 DEF Max, Min

\* w starts at b and takes one step for every place, in order.
IsWalk(w, n, b, Step) == w[0] = b /\ \A i \in 1 .. n : w[i] = Step[<<w[i - 1], i>>]

\* There is a walk to every place.
LEMMA WalkExists ==
  ASSUME NEW n \in Nat, NEW X, NEW b \in X, NEW Step \in [X \X (1 .. n) -> X]
  PROVE  \E w \in [0 .. n -> X] : IsWalk(w, n, b, Step)
<1> DEFINE pick == [s \in SUBSET (1 .. n) |-> Max(s)]
<1>1. Picks(pick, n)
  BY PlacesHaveEnds DEF Picks
<1> HIDE DEF pick
<1>2. PICK f \in [SUBSET (1 .. n) -> X] : IsFold(f, n, b, pick, Step)
  BY <1>1, FoldExists
<1> DEFINE w == [i \in 0 .. n |-> f[1 .. i]]
<1>3. \A i \in 0 .. n : 1 .. i \in SUBSET (1 .. n)
  OBVIOUS
<1>4. w \in [0 .. n -> X]
  BY <1>2, <1>3
<1>5. w[0] = b
  <2>1. 1 .. 0 = {} /\ {} \in SUBSET (1 .. n) /\ 0 \in 0 .. n
    OBVIOUS
  <2> QED BY <1>2, <2>1 DEF IsFold
<1>6. ASSUME NEW i \in 1 .. n
      PROVE  w[i] = Step[<<w[i - 1], i>>]
  <2>1. /\ 1 .. i \in SUBSET (1 .. n) /\ 1 .. i # {} /\ i - 1 \in 0 .. n /\ i \in 0 .. n
        /\ Max(1 .. i) = i /\ (1 .. i) \ {i} = 1 .. i - 1
    BY LastPlace
  <2>2. pick[1 .. i] = i
    BY <2>1 DEF pick
  <2>3. f[1 .. i] = Step[<<f[1 .. i - 1], i>>]
    BY <1>2, <2>1, <2>2 DEF IsFold
  <2> QED BY <2>1, <2>3
<1> HIDE DEF w
<1>7. IsWalk(w, n, b, Step)
  BY <1>5, <1>6 DEF IsWalk
<1> QED BY <1>4, <1>7

-----------------------------------------------------------------------------
(* Functions of a node and the one above it *)

\* f takes a step from the node above for each node of S, and is b elsewhere.
Climbs(f, n, S, up, b, Step) ==
  f = [a \in 0 .. n |-> IF a \in S THEN Step[<<f[up[a]], a>>] ELSE b]

\* There is such a function when the node above has a lower number.
LEMMA ClimbExists ==
  ASSUME NEW n \in Nat, NEW Q, NEW b \in Q, NEW S \in SUBSET (0 .. n),
         NEW up, \A a \in S : up[a] \in 0 .. n /\ up[a] < a,
         NEW Step \in [Q \X (0 .. n) -> Q]
  PROVE  \E f \in [0 .. n -> Q] : Climbs(f, n, S, up, b, Step)
<1> DEFINE D == 0 .. n
           Next1(f, a) == IF a \in S THEN Step[<<f[up[a]], a>>] ELSE b
           Reached == {k \in D : \E f \in [D -> Q] : \A a \in 0 .. k : f[a] = Next1(f, a)}
<1>1. \A f \in [D -> Q], a \in D : Next1(f, a) \in Q
  OBVIOUS
<1>2. \A f, g : \A a \in D : (\A c \in D : c < a => f[c] = g[c]) => Next1(f, a) = Next1(g, a)
  OBVIOUS
<1>3. 0 \in Reached
  <2> DEFINE f == [a \in D |-> b]
  <2>1. f \in [D -> Q] /\ 0 \in D
    OBVIOUS
  <2>2. 0 \notin S
    OBVIOUS
  <2>3. \A a \in 0 .. 0 : f[a] = Next1(f, a)
    BY <2>1, <2>2
  <2> HIDE DEF f, Next1
  <2> QED BY <2>1, <2>3
<1> HIDE DEF Next1
<1>4. ASSUME NEW k \in 1 .. n, k - 1 \in Reached
      PROVE  k \in Reached
  <2>1. PICK f \in [D -> Q] : \A a \in 0 .. k - 1 : f[a] = Next1(f, a)
    BY <1>4
  <2> DEFINE g == [f EXCEPT ![k] = Next1(f, k)]
  <2>2. k \in D /\ \A c \in D : c < k => c # k
    OBVIOUS
  <2>3. g \in [D -> Q] /\ g[k] = Next1(f, k) /\ \A c \in D : c # k => g[c] = f[c]
    BY <1>1, <2>2
  <2> HIDE DEF g
  <2>4. ASSUME NEW a \in 0 .. k
        PROVE  g[a] = Next1(g, a)
    <3>1. a \in D /\ \A c \in D : c < a => g[c] = f[c]
      BY <2>3
    <3>2. Next1(g, a) = Next1(f, a)
      BY <1>2, <3>1
    <3>3. a = k \/ a \in 0 .. k - 1
      OBVIOUS
    <3> QED BY <2>1, <2>2, <2>3, <3>1, <3>2, <3>3
  <2> QED BY <2>2, <2>3, <2>4
<1>5. n \in Reached
  <2>1. \A i \in 0 .. n : i \in Reached
    <3> HIDE DEF Reached
    <3> QED BY <1>3, <1>4, UpTo
  <2> HIDE DEF Reached
  <2> QED BY <2>1
<1>6. PICK f \in [D -> Q] : \A a \in D : f[a] = Next1(f, a)
  BY <1>5
<1>7. f = [a \in D |-> Next1(f, a)]
  BY <1>6
<1> QED BY <1>6, <1>7 DEF Climbs, Next1

-----------------------------------------------------------------------------
(* Byte strings *)

\* No string is less than itself, and a string less than a lesser one is less.
LEMMA LessIsStrict ==
  ASSUME NEW s \in Seq(Nat), NEW t \in Seq(Nat), NEW u \in Seq(Nat)
  PROVE  /\ ~Less(s, s)
         /\ Less(s, t) /\ Less(t, u) => Less(s, u)
<1>1. /\ Len(s) \in Nat /\ \A i \in 1 .. Len(s) : s[i] \in Nat
      /\ Len(t) \in Nat /\ \A i \in 1 .. Len(t) : t[i] \in Nat
      /\ Len(u) \in Nat /\ \A i \in 1 .. Len(u) : u[i] \in Nat
  OBVIOUS
<1>2. ~Less(s, s)
  <2> SUFFICES ASSUME NEW n \in 0 .. Len(s), n < Len(s), s[n + 1] < s[n + 1]
               PROVE  FALSE
    BY DEF Less
  <2>1. n + 1 \in 1 .. Len(s)
    BY <1>1
  <2>2. s[n + 1] \in Nat
    BY <1>1, <2>1
  <2> QED BY <2>2
<1>3. ASSUME Less(s, t), Less(t, u)
      PROVE  Less(s, u)
  <2>1. PICK n \in 0 .. Len(s) :
          /\ n < Len(t) /\ \A i \in 1 .. n : s[i] = t[i]
          /\ n < Len(s) => s[n + 1] < t[n + 1]
    BY <1>3 DEF Less
  <2>2. PICK m \in 0 .. Len(t) :
          /\ m < Len(u) /\ \A i \in 1 .. m : t[i] = u[i]
          /\ m < Len(t) => t[m + 1] < u[m + 1]
    BY <1>3 DEF Less
  <2>3. CASE n < m
    <3>1. n < Len(u) /\ n + 1 \in 1 .. m /\ \A i \in 1 .. n : s[i] = u[i]
      BY <1>1, <2>1, <2>2, <2>3
    <3>2. n < Len(s) => s[n + 1] < u[n + 1]
      BY <2>1, <2>2, <3>1
    <3> QED BY <3>1, <3>2 DEF Less
  <2>4. CASE n = m
    <3>1. n < Len(u) /\ \A i \in 1 .. n : s[i] = u[i]
      BY <2>1, <2>2, <2>4
    <3>2. ASSUME n < Len(s)
          PROVE  s[n + 1] < u[n + 1]
      <4>1. n + 1 \in 1 .. Len(s) /\ n + 1 \in 1 .. Len(t) /\ n + 1 \in 1 .. Len(u)
        BY <1>1, <2>1, <3>1, <3>2
      <4> DEFINE x == s[n + 1]
                 y == t[n + 1]
                 z == u[n + 1]
      <4>2. x < y /\ y < z
        BY <2>1, <2>2, <2>4, <3>2, <4>1
      <4>3. x \in Nat /\ y \in Nat /\ z \in Nat
        BY <1>1, <4>1
      <4> HIDE DEF x, y, z
      <4>4. x < z
        BY <4>2, <4>3
      <4> QED BY <4>4 DEF x, z
    <3> QED BY <3>1, <3>2 DEF Less
  <2>5. CASE n > m
    <3>1. m \in 0 .. Len(s) /\ m + 1 \in 1 .. n /\ m < Len(t) /\ \A i \in 1 .. m : s[i] = u[i]
      BY <1>1, <2>1, <2>2, <2>5
    <3>2. s[m + 1] < u[m + 1]
      BY <2>1, <2>2, <3>1
    <3> QED BY <2>2, <3>1, <3>2 DEF Less
  <2> QED BY <1>1, <2>3, <2>4, <2>5
<1> QED BY <1>2, <1>3

\* Of two strings one is less, or they are the same.
LEMMA LessIsTotal ==
  ASSUME NEW s \in Seq(Nat), NEW t \in Seq(Nat)
  PROVE  Less(s, t) \/ s = t \/ Less(t, s)
<1>1. /\ Len(s) \in Nat /\ \A i \in 1 .. Len(s) : s[i] \in Nat
      /\ Len(t) \in Nat /\ \A i \in 1 .. Len(t) : t[i] \in Nat
  OBVIOUS
<1> DEFINE m == IF Len(s) <= Len(t) THEN Len(s) ELSE Len(t)
           D == {i \in 1 .. m : s[i] # t[i]}
<1>2. m \in Nat /\ m <= Len(s) /\ m <= Len(t) /\ (m = Len(s) \/ m = Len(t))
  BY <1>1
<1> HIDE DEF m
<1>3. CASE D = {}
  <2>1. \A i \in 1 .. m : s[i] = t[i]
    BY <1>3
  <2>2. CASE Len(s) = Len(t)
    BY <1>2, <2>1, <2>2, SeqEqual
  <2>3. CASE Len(s) < Len(t)
    <3>1. m \in 0 .. Len(s) /\ m < Len(t) /\ ~(m < Len(s))
      BY <1>1, <1>2, <2>3
    <3> QED BY <2>1, <3>1 DEF Less
  <2>4. CASE Len(t) < Len(s)
    <3>1. m \in 0 .. Len(t) /\ m < Len(s) /\ ~(m < Len(t))
      BY <1>1, <1>2, <2>4
    <3> QED BY <2>1, <3>1 DEF Less
  <2> QED BY <1>1, <2>2, <2>3, <2>4
<1>4. CASE D # {}
  <2>1. D \in SUBSET Nat
    BY <1>2
  <2>2. PICK j \in D : \A i \in D : j <= i
    <3> HIDE DEF D
    <3> QED BY <1>4, <2>1, LeastExists
  <2> DEFINE n == j - 1
  <2>3. /\ n \in 0 .. Len(s) /\ n \in 0 .. Len(t) /\ n < Len(s) /\ n < Len(t) /\ n + 1 = j
        /\ j \in 1 .. Len(s) /\ j \in 1 .. Len(t)
    BY <1>1, <1>2
  <2>4. \A i \in 1 .. n : s[i] = t[i]
    <3> SUFFICES ASSUME NEW i \in 1 .. n
                 PROVE  s[i] = t[i]
      OBVIOUS
    <3>1. i \in 1 .. m /\ i \notin D
      BY <1>2, <2>2
    <3> QED BY <3>1
  <2> HIDE DEF n
  <2>5. s[j] < t[j] \/ t[j] < s[j]
    BY <1>1, <2>3
  <2> QED BY <2>3, <2>4, <2>5 DEF Less
<1> QED BY <1>3, <1>4

-----------------------------------------------------------------------------
(* Lists in order *)

\* R orders S.
Orders(R, S) ==
  /\ \A x \in S : <<x, x>> \notin R
  /\ \A x, y, z \in S : <<x, y>> \in R /\ <<y, z>> \in R => <<x, z>> \in R
  /\ \A x, y \in S : x # y => <<x, y>> \in R \/ <<y, x>> \in R

\* L holds the elements of S in the order R, each once.
Lists(L, S, R) ==
  /\ L \in Seq(S)
  /\ \A i, j \in 1 .. Len(L) : i < j => <<L[i], L[j]>> \in R
  /\ \A x \in S : \E i \in 1 .. Len(L) : L[i] = x

\* Ascending, with the order as a set of pairs.
Enumeration(S, R) ==
  [i \in 1 .. Cardinality(S) |->
     CHOOSE x \in S : Cardinality({y \in S : <<y, x>> \in R}) = i - 1]

\* Every finite set is listed by its elements' numbers of predecessors.
LEMMA EnumerationLists ==
  ASSUME NEW S, NEW R, IsFiniteSet(S), Orders(R, S)
  PROVE  Lists(Enumeration(S, R), S, R)
<1> DEFINE n == Cardinality(S)
           Under(x) == {y \in S : <<y, x>> \in R}
           rank == [x \in S |-> Cardinality(Under(x))]
<1>1. n \in Nat
  BY FS_CardinalityType
<1>2. ASSUME NEW x \in S
      PROVE  IsFiniteSet(Under(x)) /\ rank[x] \in 0 .. n - 1
  <2>1. Under(x) \in SUBSET (S \ {x})
    BY DEF Orders
  <2>2. IsFiniteSet(S \ {x}) /\ Cardinality(S \ {x}) = n - 1
    BY FS_RemoveElement
  <2> HIDE DEF Under, n
  <2>3. IsFiniteSet(Under(x)) /\ Cardinality(Under(x)) <= n - 1
    BY <2>1, <2>2, FS_Subset
  <2>4. Cardinality(Under(x)) \in Nat
    BY <2>3, FS_CardinalityType
  <2> QED BY <1>1, <2>3, <2>4
<1>3. ASSUME NEW x \in S, NEW y \in S, <<x, y>> \in R
      PROVE  rank[x] < rank[y]
  <2>1. Under(x) \in SUBSET Under(y) /\ x \in Under(y) /\ x \notin Under(x)
    BY <1>3 DEF Orders
  <2>2. IsFiniteSet(Under(y)) /\ rank[x] \in Nat /\ rank[y] \in Nat
    <3> HIDE DEF rank, n, Under
    <3> QED BY <1>1, <1>2
  <2>3. Cardinality(Under(x)) <= Cardinality(Under(y)) /\ Cardinality(Under(x)) # Cardinality(Under(y))
    <3> DEFINE A == Under(x)
               B == Under(y)
    <3>1. A \in SUBSET B /\ A # B /\ IsFiniteSet(B)
      BY <2>1, <2>2
    <3> HIDE DEF A, B, Under
    <3>2. Cardinality(A) <= Cardinality(B) /\ Cardinality(B) # Cardinality(A)
      BY <3>1, FS_Subset
    <3> QED BY <3>2 DEF A, B
  <2> QED BY <2>2, <2>3
<1>4. \A x, y \in S : rank[x] = rank[y] => x = y
  <2> SUFFICES ASSUME NEW x \in S, NEW y \in S, x # y
               PROVE  rank[x] # rank[y]
    OBVIOUS
  <2>1. <<x, y>> \in R \/ <<y, x>> \in R
    BY DEF Orders
  <2>2. rank[x] \in Nat /\ rank[y] \in Nat
    BY <1>1, <1>2
  <2> HIDE DEF rank
  <2> QED BY <1>3, <2>1, <2>2
<1>5. \A k \in 0 .. n - 1 : \E x \in S : rank[x] = k
  <2> DEFINE T == 0 .. n - 1
  <2>1. rank \in Injection(S, T)
    <3> HIDE DEF n, Under
    <3>1. rank \in [S -> T]
      BY <1>2
    <3> QED BY <1>4, <3>1 DEF Injection, IsInjective
  <2>2. IsFiniteSet(T) /\ Cardinality(T) = n
    <3>1. 0 \in Int /\ n - 1 \in Int
      BY <1>1
    <3>2. IsFiniteSet(T) /\ Cardinality(T) = IF 0 > n - 1 THEN 0 ELSE (n - 1) - 0 + 1
      <4> HIDE DEF n
      <4> QED BY <3>1, FS_Interval
    <3> QED BY <1>1, <3>2
  <2>3. rank \in Surjection(S, T)
    <3> HIDE DEF T, rank
    <3> QED BY <2>1, <2>2, FS_Injection
  <2> QED BY <2>3 DEF Surjection
<1> DEFINE L == Enumeration(S, R)
<1>6. ASSUME NEW i \in 1 .. n
      PROVE  L[i] \in S /\ rank[L[i]] = i - 1
  <2>1. i - 1 \in 0 .. n - 1
    BY <1>1
  <2>2. \E x \in S : Cardinality(Under(x)) = i - 1
    BY <1>5, <2>1
  <2>3. L[i] = CHOOSE x \in S : Cardinality(Under(x)) = i - 1
    BY DEF Enumeration
  <2> HIDE DEF L, Under
  <2>4. L[i] \in S /\ Cardinality(Under(L[i])) = i - 1
    BY <2>2, <2>3
  <2> QED BY <2>4
<1>7. L \in Seq(S) /\ Len(L) = n
  <2> DEFINE At(i) == CHOOSE x \in S : Cardinality(Under(x)) = i - 1
             M == [i \in 1 .. n |-> At(i)]
  <2>1. L = M
    BY DEF Enumeration
  <2>2. \A i \in 1 .. n : At(i) \in S
    <3>1. \A i \in 1 .. n : M[i] = At(i)
      OBVIOUS
    <3> HIDE DEF L, M, At
    <3> QED BY <1>6, <2>1, <3>1
  <2> HIDE DEF L, n, At
  <2> QED BY <1>1, <2>1, <2>2
<1>8. ASSUME NEW i \in 1 .. n, NEW j \in 1 .. n, i < j
      PROVE  <<L[i], L[j]>> \in R
  <2>1. /\ L[i] \in S /\ L[j] \in S /\ rank[L[i]] = i - 1 /\ rank[L[j]] = j - 1
    BY <1>6
  <2> HIDE DEF L, rank
  <2>2. L[i] # L[j] /\ ~(<<L[j], L[i]>> \in R)
    BY <1>1, <1>3, <1>8, <2>1
  <2> QED BY <2>1, <2>2 DEF Orders
<1>9. ASSUME NEW x \in S
      PROVE  \E i \in 1 .. n : L[i] = x
  <2> DEFINE i == rank[x] + 1
  <2>1. i \in 1 .. n /\ i - 1 = rank[x]
    <3> DEFINE k == rank[x]
    <3>1. k \in 0 .. n - 1
      BY <1>2
    <3> HIDE DEF k, n
    <3>2. k + 1 \in 1 .. n /\ (k + 1) - 1 = k
      BY <1>1, <3>1
    <3> QED BY <3>2 DEF k
  <2>2. L[i] \in S /\ rank[L[i]] = rank[x]
    BY <1>6, <2>1
  <2> HIDE DEF L, rank
  <2> QED BY <1>4, <2>1, <2>2
<1> HIDE DEF L, n
<1> QED BY <1>7, <1>8, <1>9 DEF Lists, L

\* Backwards, the list is in the order turned around.
LEMMA ReverseLists ==
  ASSUME NEW S, NEW R, NEW L, Lists(L, S, R), NEW Q,
         \A x, y \in S : <<x, y>> \in R => <<y, x>> \in Q
  PROVE  Lists(Reverse(L), S, Q)
<1> DEFINE n == Len(L)
           M == Reverse(L)
<1>1. L \in Seq(S) /\ n \in Nat /\ \A i \in 1 .. n : L[i] \in S
  BY DEF Lists
<1>2. M = [i \in 1 .. n |-> L[(n - i) + 1]]
  BY DEF Reverse
<1>3. \A i \in 1 .. n : (n - i) + 1 \in 1 .. n /\ (n - ((n - i) + 1)) + 1 = i
  BY <1>1
<1>4. M \in Seq(S) /\ Len(M) = n /\ \A i \in 1 .. n : M[i] = L[(n - i) + 1]
  <2> HIDE DEF n, M
  <2> QED BY <1>1, <1>2, <1>3
<1> HIDE DEF M, n
<1>5. ASSUME NEW i \in 1 .. n, NEW j \in 1 .. n, i < j
      PROVE  <<M[i], M[j]>> \in Q
  <2> DEFINE k == (n - i) + 1
             l == (n - j) + 1
  <2>1. k \in 1 .. n /\ l \in 1 .. n /\ l < k
    BY <1>1, <1>5
  <2> HIDE DEF k, l
  <2>2. <<L[l], L[k]>> \in R
    BY <2>1 DEF Lists, n
  <2> QED BY <1>1, <1>4, <2>1, <2>2 DEF k, l
<1>6. ASSUME NEW x \in S
      PROVE  \E i \in 1 .. n : M[i] = x
  <2>1. PICK j \in 1 .. n : L[j] = x
    BY DEF Lists, n
  <2> QED BY <1>3, <1>4, <2>1
<1>7. Lists(M, S, Q)
  BY <1>4, <1>5, <1>6 DEF Lists
<1> QED BY <1>7 DEF M

\* One more element, after all in the list.
LEMMA ListsMore ==
  ASSUME NEW S, NEW R, NEW L, Lists(L, S, R), NEW x, \A y \in S : <<y, x>> \in R
  PROVE  Lists(Append(L, x), S \cup {x}, R)
<1> DEFINE n == Len(L)
           T == S \cup {x}
           M == Append(L, x)
<1>1. L \in Seq(S) /\ n \in Nat /\ \A i \in 1 .. n : L[i] \in S
  BY DEF Lists
<1>2. L \in Seq(T)
  <2>1. S \subseteq T
    OBVIOUS
  <2> HIDE DEF T
  <2> QED BY <1>1, <2>1
<1>3. M \in Seq(T) /\ Len(M) = n + 1 /\ M[n + 1] = x /\ \A i \in 1 .. n : M[i] = L[i]
  <2>1. x \in T
    OBVIOUS
  <2> HIDE DEF T
  <2> QED BY <1>2, <2>1, AppendProperties
<1>4. /\ \A i, j \in 1 .. n : i < j => <<L[i], L[j]>> \in R
      /\ \A y \in S : \E i \in 1 .. n : L[i] = y
  BY DEF Lists
<1> HIDE DEF M, n
<1>5. ASSUME NEW i \in 1 .. n + 1, NEW j \in 1 .. n + 1, i < j
      PROVE  <<M[i], M[j]>> \in R
  <2>1. i \in 1 .. n /\ (j \in 1 .. n \/ j = n + 1)
    BY <1>1, <1>5
  <2>2. M[i] = L[i] /\ L[i] \in S
    BY <1>1, <1>3, <2>1
  <2>3. CASE j \in 1 .. n
    BY <1>3, <1>4, <1>5, <2>1, <2>2, <2>3
  <2>4. CASE j = n + 1
    BY <1>3, <2>2, <2>4
  <2> QED BY <2>1, <2>3, <2>4
<1>6. ASSUME NEW y \in T
      PROVE  \E i \in 1 .. n + 1 : M[i] = y
  <2>1. CASE y \in S
    <3>1. PICK i \in 1 .. n : L[i] = y
      BY <1>4, <2>1
    <3>2. i \in 1 .. n + 1 /\ M[i] = y
      BY <1>1, <1>3, <3>1
    <3> QED BY <3>2
  <2>2. CASE y \notin S
    <3>1. n + 1 \in 1 .. n + 1 /\ y = x
      BY <1>1, <2>2
    <3> QED BY <1>3, <3>1
  <2> QED BY <2>1, <2>2
<1>7. Lists(M, T, R)
  BY <1>3, <1>5, <1>6 DEF Lists
<1> QED BY <1>7 DEF M

\* A list of elements that come before all others begins the list of all.
LEMMA ListsBegin ==
  ASSUME NEW S, NEW R, Orders(R, S), NEW exp, Lists(exp, S, R),
         NEW D, D \subseteq S, NEW out, Lists(out, D, R),
         \A x \in D, y \in S \ D : <<x, y>> \in R
  PROVE  IsPrefix(out, exp) /\ (D = S => out = exp)
<1> DEFINE k == Len(out)
           n == Len(exp)
           Bad == {i \in 1 .. k : ~(i <= n /\ exp[i] = out[i])}
<1>1. /\ out \in Seq(D) /\ k \in Nat /\ (\A i \in 1 .. k : out[i] \in D /\ out[i] \in S)
      /\ exp \in Seq(S) /\ n \in Nat /\ \A i \in 1 .. n : exp[i] \in S
  BY DEF Lists
<1>2. /\ \A i, j \in 1 .. k : i < j => <<out[i], out[j]>> \in R
      /\ \A x \in D : \E i \in 1 .. k : out[i] = x
      /\ \A i, j \in 1 .. n : i < j => <<exp[i], exp[j]>> \in R
      /\ \A x \in S : \E i \in 1 .. n : exp[i] = x
  BY DEF Lists
<1>3. \A x, y \in S : <<x, y>> \in R => <<y, x>> \notin R /\ x # y
  BY DEF Orders
<1> HIDE DEF k, n
<1>4. Bad = {}
  <2> SUFFICES ASSUME Bad # {}
               PROVE  FALSE
    OBVIOUS
  <2>1. PICK i \in Bad : \A j \in Bad : i <= j
    <3>1. Bad \in SUBSET Nat
      OBVIOUS
    <3> HIDE DEF Bad
    <3> QED BY <3>1, LeastExists
  <2>2. i \in 1 .. k /\ out[i] \in S /\ out[i] \in D
    BY <1>1
  <2>3. \A j \in 1 .. k : j < i => j <= n /\ exp[j] = out[j]
    BY <2>1
  <2>4. PICK a \in 1 .. n : exp[a] = out[i]
    BY <1>2, <2>2
  <2>5. ~(a < i)
    <3> SUFFICES ASSUME a < i
                 PROVE  FALSE
      OBVIOUS
    <3>1. a \in 1 .. k /\ exp[a] = out[a]
      BY <1>1, <2>2, <2>3
    <3>2. <<out[a], out[i]>> \in R
      BY <1>2, <2>2, <3>1
    <3> QED BY <1>1, <1>3, <2>2, <2>4, <3>1, <3>2
  <2>6. i \in 1 .. n /\ a # i /\ i < a
    BY <1>1, <2>1, <2>2, <2>4, <2>5
  <2>7. <<exp[i], out[i]>> \in R /\ exp[i] \in S
    BY <1>1, <1>2, <2>4, <2>6
  <2>8. CASE exp[i] \notin D
    BY <1>3, <2>2, <2>7, <2>8
  <2>9. CASE exp[i] \in D
    <3>1. PICK b \in 1 .. k : out[b] = exp[i]
      BY <1>2, <2>9
    <3>2. CASE b < i
      <4>1. b \in 1 .. n /\ exp[b] = out[b]
        BY <1>1, <2>3, <3>2
      <4>2. <<exp[b], exp[i]>> \in R
        BY <1>2, <2>6, <3>2, <4>1
      <4> QED BY <1>3, <2>7, <3>1, <4>1, <4>2
    <3>3. CASE b = i
      BY <1>3, <2>2, <2>7, <3>1, <3>3
    <3>4. CASE i < b
      <4>1. <<out[i], out[b]>> \in R
        BY <1>2, <2>2, <3>4
      <4> QED BY <1>3, <2>2, <2>7, <3>1, <4>1
    <3>5. b < i \/ b = i \/ i < b
      BY <1>1, <2>2
    <3> QED BY <3>2, <3>3, <3>4, <3>5
  <2> QED BY <2>8, <2>9
<1>5. \A i \in 1 .. k : i <= n /\ exp[i] = out[i]
  BY <1>4
<1>6. k <= n
  <2>1. k = 0 \/ k \in 1 .. k
    BY <1>1
  <2> QED BY <1>1, <1>5, <2>1
<1>7. SubSeq(out, 1, k) = SubSeq(exp, 1, k)
  <2>1. SubSeq(out, 1, k) = [i \in 1 .. k |-> out[(i + 1) - 1]]
    BY <1>1
  <2>2. SubSeq(exp, 1, k) = [i \in 1 .. k |-> exp[(i + 1) - 1]]
    BY <1>1
  <2>3. \A i \in 1 .. k : (i + 1) - 1 = i
    OBVIOUS
  <2> QED BY <1>5, <2>1, <2>2, <2>3
<1>8. ASSUME D = S
      PROVE  out = exp
  <2>1. ~(k < n)
    <3> SUFFICES ASSUME k < n
                 PROVE  FALSE
      OBVIOUS
    <3>1. k + 1 \in 1 .. n
      BY <1>1
    <3>2. PICK b \in 1 .. k : out[b] = exp[k + 1]
      BY <1>1, <1>2, <1>8, <3>1
    <3>3. b \in 1 .. n /\ b < k + 1 /\ exp[b] = out[b]
      BY <1>1, <1>5, <3>1
    <3>4. <<exp[b], exp[k + 1]>> \in R
      BY <1>2, <3>1, <3>3
    <3> QED BY <1>1, <1>3, <3>1, <3>2, <3>3, <3>4
  <2>2. k = n
    BY <1>1, <1>6, <2>1
  <2>3. out = [i \in 1 .. k |-> out[i]] /\ exp = [i \in 1 .. n |-> exp[i]]
    BY <1>1 DEF k, n
  <2> QED BY <1>5, <2>2, <2>3
<1> QED BY <1>6, <1>7, <1>8 DEF IsPrefix, k, n

-----------------------------------------------------------------------------
(* Positions *)

\* The positions of a set in the order of a cursor.
Pairs(S, direction) == {p \in S \X S : Before(direction, p[1], p[2])}

\* Of two positions one is before the other, in either direction.
LEMMA BeforeIsOrder ==
  ASSUME NEW p \in Seq(Nat) \X Nat, NEW q \in Seq(Nat) \X Nat, NEW r \in Seq(Nat) \X Nat,
         NEW direction
  PROVE  /\ ~Before(direction, p, p)
         /\ Before(direction, p, q) /\ Before(direction, q, r) => Before(direction, p, r)
         /\ Before(direction, p, q) => ~Before(direction, q, p)
         /\ p # q => Before(direction, p, q) \/ Before(direction, q, p)
<1>1. ASSUME NEW x \in Seq(Nat) \X Nat, NEW y \in Seq(Nat) \X Nat, NEW z \in Seq(Nat) \X Nat
      PROVE  /\ ~PositionLess(x, x)
             /\ PositionLess(x, y) /\ PositionLess(y, z) => PositionLess(x, z)
             /\ x # y => PositionLess(x, y) \/ PositionLess(y, x)
  <2> DEFINE S == Seq(Nat)
  <2>1. /\ x[1] \in S /\ y[1] \in S /\ z[1] \in S
        /\ x[2] \in Nat /\ y[2] \in Nat /\ z[2] \in Nat
        /\ x # y => x[1] # y[1] \/ x[2] # y[2]
    <3>1. x \in S \X Nat /\ y \in S \X Nat /\ z \in S \X Nat
      OBVIOUS
    <3> HIDE DEF S
    <3>2. x = <<x[1], x[2]>> /\ y = <<y[1], y[2]>>
      BY <3>1
    <3>3. x # y => x[1] # y[1] \/ x[2] # y[2]
      BY <3>2
    <3> QED BY <3>1, <3>3
  <2>2. ~PositionLess(x, x)
    BY <2>1, LessIsStrict DEF PositionLess
  <2>3. ASSUME PositionLess(x, y), PositionLess(y, z)
        PROVE  PositionLess(x, z)
    <3>1. Less(x[1], y[1]) /\ Less(y[1], z[1]) => Less(x[1], z[1])
      BY <2>1, LessIsStrict
    <3>2. x[2] < y[2] /\ y[2] < z[2] => x[2] < z[2]
      BY <2>1
    <3> QED BY <2>3, <3>1, <3>2 DEF PositionLess
  <2>4. x # y => PositionLess(x, y) \/ PositionLess(y, x)
    <3>1. Less(x[1], y[1]) \/ x[1] = y[1] \/ Less(y[1], x[1])
      BY <2>1, LessIsTotal
    <3>2. x[2] < y[2] \/ x[2] = y[2] \/ y[2] < x[2]
      BY <2>1
    <3> QED BY <2>1, <3>1, <3>2 DEF PositionLess
  <2> QED BY <2>2, <2>3, <2>4
<1>2. \A x, y \in Seq(Nat) \X Nat :
        Before(direction, x, y) <=>
          IF direction = "Forward" THEN PositionLess(x, y) ELSE PositionLess(y, x)
  BY DEF Before
<1>3. CASE direction = "Forward"
  BY <1>1, <1>2, <1>3
<1>4. CASE direction # "Forward"
  BY <1>1, <1>2, <1>4
<1> QED BY <1>3, <1>4

\* Directed lists a finite set of positions in the cursor's order.
LEMMA DirectedLists ==
  ASSUME NEW S \in SUBSET (Seq(Nat) \X Nat), IsFiniteSet(S), NEW direction
  PROVE  Lists(Directed(direction, S, PositionLess), S, Pairs(S, direction))
<1> DEFINE R == Pairs(S, "Forward")
           L == Ascending(S, PositionLess)
<1>1. Orders(R, S)
  <2>1. \A x, y \in S : <<x, y>> \in R <=> Before("Forward", x, y)
    BY DEF Pairs
  <2> HIDE DEF R
  <2> QED BY <2>1, BeforeIsOrder DEF Orders
<1>2. L = Enumeration(S, R)
  <2>1. ASSUME NEW x \in S
        PROVE  {y \in S : PositionLess(y, x)} = {y \in S : <<y, x>> \in R}
    BY DEF Pairs, Before
  <2> DEFINE At(i) == CHOOSE x \in S : Cardinality({y \in S : PositionLess(y, x)}) = i - 1
             In(i) == CHOOSE x \in S : Cardinality({y \in S : <<y, x>> \in R}) = i - 1
  <2>2. \A i \in 1 .. Cardinality(S) : At(i) = In(i)
    BY <2>1
  <2>3. /\ L = [i \in 1 .. Cardinality(S) |-> At(i)]
        /\ Enumeration(S, R) = [i \in 1 .. Cardinality(S) |-> In(i)]
    BY DEF Ascending, Enumeration
  <2> HIDE DEF At, In, L, R
  <2> QED BY <2>2, <2>3
<1>3. Lists(L, S, R)
  <2> HIDE DEF L, R
  <2> QED BY <1>1, <1>2, EnumerationLists
<1>4. CASE direction = "Forward"
  BY <1>3, <1>4 DEF Directed
<1>5. CASE direction # "Forward"
  <2>1. \A x, y \in S : <<x, y>> \in R => <<y, x>> \in Pairs(S, direction)
    BY <1>5 DEF Pairs, Before
  <2>2. Directed(direction, S, PositionLess) = Reverse(L)
    BY <1>5 DEF Directed
  <2> HIDE DEF L, R
  <2> QED BY <1>3, <2>1, <2>2, ReverseLists
<1> QED BY <1>4, <1>5

-----------------------------------------------------------------------------
(* Walks that pass over places *)

\* s holds the images of the places in K, in order.
Chosen(g, K, f, s) ==
  /\ g \in Seq(K) /\ Len(g) = Len(s)
  /\ \A a, b \in 1 .. Len(g) : a < b => g[a] < g[b]
  /\ \A a \in 1 .. Len(g) : s[a] = f[g[a]]
  /\ \A k \in K : \E a \in 1 .. Len(g) : g[a] = k

\* w appends the image of each place in K, and stands still at the others.
Passes(w, n, K, f) ==
  /\ w[0] = <<>>
  /\ \A i \in 1 .. n : w[i] = IF i \in K THEN Append(w[i - 1], f[i]) ELSE w[i - 1]

\* One place more.
LEMMA ChosenMore ==
  ASSUME NEW K \in SUBSET Nat, NEW i \in Nat, \A k \in K : k < i, NEW Y, NEW f, f[i] \in Y,
         NEW s \in Seq(Y), NEW g, Chosen(g, K, f, s)
  PROVE  Chosen(Append(g, i), K \cup {i}, f, Append(s, f[i]))
<1> DEFINE h == Append(g, i)
           t == Append(s, f[i])
           B == K \cup {i}
           m == Len(g)
<1>1. g \in Seq(K) /\ m \in Nat /\ Len(s) = m
  BY DEF Chosen
<1>2. g \in Seq(B) /\ i \in B
  BY <1>1
<1>3. h \in Seq(B) /\ Len(h) = m + 1 /\ h[m + 1] = i /\ \A a \in 1 .. m : h[a] = g[a]
  <2> HIDE DEF B
  <2> QED BY <1>2
<1>4. \A a \in 1 .. m : g[a] \in K
  BY <1>1
<1>5. Len(t) = m + 1 /\ t[m + 1] = f[i] /\ \A a \in 1 .. m : t[a] = s[a]
  <2> HIDE DEF m
  <2> QED BY <1>1
<1> HIDE DEF h, t
<1>6. \A a, b \in 1 .. Len(h) : a < b => h[a] < h[b]
  <2> SUFFICES ASSUME NEW a \in 1 .. m + 1, NEW b \in 1 .. m + 1, a < b
               PROVE  h[a] < h[b]
    BY <1>3
  <2>1. a \in 1 .. m
    BY <1>1
  <2>2. h[a] = g[a] /\ g[a] < i
    BY <1>3, <1>4, <2>1
  <2>3. CASE b = m + 1
    BY <1>3, <2>2, <2>3
  <2>4. CASE b # m + 1
    <3>1. b \in 1 .. m
      BY <1>1, <2>4
    <3>2. g[a] < g[b]
      BY <2>1, <3>1 DEF Chosen
    <3> QED BY <1>3, <2>2, <3>1, <3>2
  <2> QED BY <2>3, <2>4
<1>7. \A a \in 1 .. Len(h) : t[a] = f[h[a]]
  <2> SUFFICES ASSUME NEW a \in 1 .. m + 1
               PROVE  t[a] = f[h[a]]
    BY <1>3
  <2>1. CASE a = m + 1
    BY <1>3, <1>5, <2>1
  <2>2. CASE a # m + 1
    <3>1. a \in 1 .. m
      BY <1>1, <2>2
    <3>2. s[a] = f[g[a]]
      BY <3>1 DEF Chosen
    <3> QED BY <1>3, <1>5, <3>1, <3>2
  <2> QED BY <2>1, <2>2
<1>8. \A k \in B : \E a \in 1 .. Len(h) : h[a] = k
  <2> SUFFICES ASSUME NEW k \in B
               PROVE  \E a \in 1 .. m + 1 : h[a] = k
    BY <1>3
  <2>1. CASE k = i
    <3>1. m + 1 \in 1 .. m + 1
      BY <1>1
    <3> QED BY <1>3, <2>1, <3>1
  <2>2. CASE k # i
    <3>1. PICK a \in 1 .. m : g[a] = k
      BY <2>2 DEF Chosen
    <3>2. a \in 1 .. m + 1
      BY <1>1
    <3> QED BY <1>3, <3>1, <3>2
  <2> QED BY <2>1, <2>2
<1>9. Chosen(h, B, f, t)
  <2> HIDE DEF B
  <2> QED BY <1>3, <1>5, <1>6, <1>7, <1>8 DEF Chosen
<1> QED BY <1>9 DEF h, t

\* The places of K up to i.
Within(K, i) == {k \in K : k <= i}

\* There are none at first, and all of K at last.
LEMMA WithinEnds ==
  ASSUME NEW n \in Nat, NEW K \in SUBSET (1 .. n)
  PROVE  Within(K, 0) = {} /\ Within(K, n) = K
<1>1. \A k \in K : k \in Nat /\ 1 <= k /\ k <= n
  OBVIOUS
<1>2. \A k \in K : ~(k <= 0)
  BY <1>1
<1> QED BY <1>1, <1>2 DEF Within

\* They grow by i, if it is in K.
LEMMA WithinGrows ==
  ASSUME NEW n \in Nat, NEW K \in SUBSET (1 .. n), NEW i \in 1 .. n
  PROVE  /\ Within(K, i - 1) \in SUBSET Nat /\ \A k \in Within(K, i - 1) : k < i
         /\ i \notin K => Within(K, i) = Within(K, i - 1)
         /\ i \in K => Within(K, i) = Within(K, i - 1) \cup {i}
<1>1. \A k \in K : k \in Nat /\ 1 <= k /\ k <= n
  OBVIOUS
<1>2. \A k \in K : (k <= i - 1 <=> k < i) /\ (k <= i <=> k < i \/ k = i) /\ ~(k <= 0)
  BY <1>1
<1>3. i <= i /\ ~(i < i)
  OBVIOUS
<1> QED BY <1>1, <1>2, <1>3 DEF Within

\* A walk that appends at some places and stands still at the others ends with the
\* images of those places.
LEMMA FilterWalk ==
  ASSUME NEW n \in Nat, NEW Y, NEW K \in SUBSET (1 .. n), NEW f, \A i \in K : f[i] \in Y,
         NEW w \in [0 .. n -> Seq(Y)], Passes(w, n, K, f)
  PROVE  \E g : Chosen(g, K, f, w[n])
<1> DEFINE S == {i \in 0 .. n : \E g : Chosen(g, Within(K, i), f, w[i])}
<1>1. 0 \in S
  <2>1. Within(K, 0) = {} /\ w[0] = <<>>
    BY WithinEnds DEF Passes
  <2>2. Chosen(<<>>, {}, f, <<>>)
    BY DEF Chosen
  <2>3. Chosen(<<>>, Within(K, 0), f, w[0])
    BY <2>1, <2>2
  <2>4. 0 \in 0 .. n
    OBVIOUS
  <2> QED BY <2>3, <2>4
<1>2. ASSUME NEW i \in 1 .. n, i - 1 \in S
      PROVE  i \in S
  <2>1. PICK g : Chosen(g, Within(K, i - 1), f, w[i - 1])
    BY <1>2
  <2>2. i \in Nat /\ i \in 0 .. n /\ i - 1 \in 0 .. n
    OBVIOUS
  <2>3. w[i - 1] \in Seq(Y)
    BY <2>2
  <2>4. Within(K, i - 1) \in SUBSET Nat /\ \A k \in Within(K, i - 1) : k < i
    BY WithinGrows
  <2>5. CASE i \notin K
    <3>1. Within(K, i) = Within(K, i - 1)
      BY <2>5, WithinGrows
    <3>2. w[i] = w[i - 1]
      BY <2>5 DEF Passes
    <3> QED BY <2>1, <2>2, <3>1, <3>2
  <2>6. CASE i \in K
    <3>1. Within(K, i) = Within(K, i - 1) \cup {i}
      BY <2>6, WithinGrows
    <3>2. w[i] = Append(w[i - 1], f[i])
      BY <2>6 DEF Passes
    <3>3. f[i] \in Y
      BY <2>6
    <3>4. Chosen(Append(g, i), Within(K, i - 1) \cup {i}, f, Append(w[i - 1], f[i]))
      BY <2>1, <2>2, <2>3, <2>4, <3>3, ChosenMore
    <3> QED BY <2>2, <3>1, <3>2, <3>4
  <2> QED BY <2>5, <2>6
<1>3. \A i \in 0 .. n : i \in S
  <2> HIDE DEF S
  <2> QED BY <1>1, <1>2, UpTo
<1>4. Within(K, n) = K
  BY WithinEnds
<1>5. n \in 0 .. n
  OBVIOUS
<1> QED BY <1>3, <1>4, <1>5

-----------------------------------------------------------------------------
(* Left folds *)

\* f folds Step over every set of places, the last place last.
Folded(f, n, b, Step) ==
  \A s \in SUBSET (1 .. n) :
    f[s] = IF s = {} THEN b ELSE Step[<<f[s \ {Max(s)}], Max(s)>>]

\* There is such a function.
LEMMA LeftFoldExists ==
  ASSUME NEW n \in Nat, NEW X, NEW b \in X, NEW Step \in [X \X (1 .. n) -> X]
  PROVE  \E f \in [SUBSET (1 .. n) -> X] : Folded(f, n, b, Step)
<1> DEFINE pick == [s \in SUBSET (1 .. n) |-> Max(s)]
<1>1. Picks(pick, n)
  BY PlacesHaveEnds DEF Picks
<1>2. \A s \in SUBSET (1 .. n) : pick[s] = Max(s)
  OBVIOUS
<1> HIDE DEF pick
<1>3. PICK f \in [SUBSET (1 .. n) -> X] : IsFold(f, n, b, pick, Step)
  BY <1>1, FoldExists
<1>4. Folded(f, n, b, Step)
  BY <1>2, <1>3 DEF IsFold, Folded
<1> QED BY <1>3, <1>4

\* fold takes the step for the last place of a set, from a result of its kind.
Folds(fold, n, X, b, Step) ==
  /\ fold[{}] = b
  /\ \A s \in SUBSET (1 .. n) :
       s # {} /\ fold[s \ {Max(s)}] \in X => fold[s] = Step[<<fold[s \ {Max(s)}], Max(s)>>]

\* A walk ends with what was folded.
EndsWalk(fold, n, X, b, Step) ==
  \E w \in [0 .. n -> X] : IsWalk(w, n, b, Step) /\ w[n] = fold[1 .. n]

\* A left fold is the end of a walk.
LEMMA FoldIsWalk ==
  ASSUME NEW n \in Nat, NEW X, NEW b \in X, NEW Step \in [X \X (1 .. n) -> X],
         NEW fold, Folds(fold, n, X, b, Step)
  PROVE  EndsWalk(fold, n, X, b, Step)
<1> DEFINE w == [i \in 0 .. n |-> fold[1 .. i]]
           S == {i \in 0 .. n : fold[1 .. i] \in X}
<1>1. 1 .. 0 = {} /\ fold[{}] = b /\ 0 \in 0 .. n /\ n \in 0 .. n
  BY DEF Folds
<1>2. 0 \in S /\ w[0] = b
  BY <1>1
<1>3. ASSUME NEW i \in 1 .. n, fold[1 .. i - 1] \in X
      PROVE  fold[1 .. i] = Step[<<fold[1 .. i - 1], i>>]
  <2> DEFINE s == 1 .. i
             r == 1 .. i - 1
  <2>1. s \in SUBSET (1 .. n) /\ s # {} /\ Max(s) = i /\ s \ {i} = r
    BY LastPlace
  <2>2. fold[r] \in X
    BY <1>3
  <2> HIDE DEF s, r
  <2>3. fold[s] = Step[<<fold[r], i>>]
    BY <2>1, <2>2 DEF Folds
  <2> QED BY <2>3 DEF s, r
<1>4. ASSUME NEW i \in 1 .. n, i - 1 \in S
      PROVE  i \in S
  <2>1. fold[1 .. i - 1] \in X /\ i \in 0 .. n
    BY <1>4
  <2>2. fold[1 .. i] = Step[<<fold[1 .. i - 1], i>>]
    BY <1>3, <2>1
  <2>3. fold[1 .. i] \in X
    <3> DEFINE x == fold[1 .. i - 1]
    <3>1. x \in X
      BY <2>1
    <3> HIDE DEF x
    <3>2. Step[<<x, i>>] \in X
      BY <3>1
    <3> QED BY <2>2, <3>2 DEF x
  <2> QED BY <2>1, <2>3
<1>5. \A i \in 0 .. n : i \in S
  <2> HIDE DEF S
  <2> QED BY <1>2, <1>4, UpTo
<1>6. w \in [0 .. n -> X] /\ w[n] = fold[1 .. n]
  BY <1>1, <1>5
<1>7. ASSUME NEW i \in 1 .. n
      PROVE  w[i] = Step[<<w[i - 1], i>>]
  <2>1. i \in 0 .. n /\ i - 1 \in 0 .. n
    OBVIOUS
  <2>2. w[i] = fold[1 .. i] /\ w[i - 1] = fold[1 .. i - 1] /\ fold[1 .. i - 1] \in X
    BY <1>5, <2>1
  <2> HIDE DEF w, S
  <2> QED BY <1>3, <2>2
<1> HIDE DEF w, S
<1>8. IsWalk(w, n, b, Step)
  BY <1>2, <1>7 DEF IsWalk
<1> QED BY <1>6, <1>8 DEF EndsWalk

-----------------------------------------------------------------------------
(* Merging *)

\* Positions: a byte string, and a number for what lies there.
Spot == Seq(Nat) \X Nat

\* s is in the cursor's order.
Ascends(s, direction) ==
  \A i, j \in 1 .. Len(s) : i < j => Before(direction, s[i].at, s[j].at)

\* s is a list of entries at positions.
Placed(s) == Len(s) \in Nat /\ \A i \in 1 .. Len(s) : s[i].at \in Spot

\* s holds entries of exp after the first k.
Beyond(s, exp, k) ==
  \A i \in 1 .. Len(s) : \E m \in 1 .. Len(exp) : m > k /\ s[i] = exp[m]

\* The first k entries of exp are out; s and t hold the others, in order.
Parted(k, s, t, exp, direction) ==
  /\ Placed(exp) /\ Ascends(exp, direction)
  /\ Placed(s) /\ Ascends(s, direction) /\ Beyond(s, exp, k)
  /\ Placed(t) /\ Ascends(t, direction) /\ Beyond(t, exp, k)
  /\ \A m \in 1 .. Len(exp) :
       m > k => \/ \E i \in 1 .. Len(s) : s[i] = exp[m]
                \/ \E i \in 1 .. Len(t) : t[i] = exp[m]
  /\ \A i \in 1 .. Len(s), j \in 1 .. Len(t) : s[i].at # t[j].at

\* The tail of a list.
LEMMA Tails ==
  ASSUME NEW E, NEW s \in Seq(E), s # <<>>
  PROVE  /\ Head(s) = s[1] /\ 1 \in 1 .. Len(s) /\ Tail(s) \in Seq(E)
         /\ Len(s) \in Nat /\ Len(s) > 0 /\ Len(Tail(s)) = Len(s) - 1
         /\ \A i \in 1 .. Len(s) - 1 : Tail(s)[i] = s[i + 1] /\ i + 1 \in 1 .. Len(s)
         /\ \A i \in 1 .. Len(s) : i # 1 => i - 1 \in 1 .. Len(s) - 1 /\ (i - 1) + 1 = i
BY HeadTailProperties

\* Taking the head of s is right unless the head of t comes before it.
LEMMA TakeHead ==
  ASSUME NEW E, NEW s \in Seq(E), NEW t \in Seq(E), NEW exp, NEW direction,
         NEW k \in Nat, Parted(k, s, t, exp, direction),
         s # <<>>, t # <<>> => ~Before(direction, t[1].at, s[1].at)
  PROVE  /\ k + 1 \in 1 .. Len(exp) /\ Head(s) = exp[k + 1]
         /\ Parted(k + 1, Tail(s), t, exp, direction)
<1> DEFINE B(p, q) == Before(direction, p, q)
           a == Len(s)
           b == Len(t)
           n == Len(exp)
           r == Tail(s)
<1>1. /\ a \in Nat /\ b \in Nat /\ n \in Nat
      /\ \A i \in 1 .. a : s[i].at \in Spot
      /\ \A i \in 1 .. b : t[i].at \in Spot
      /\ \A i \in 1 .. n : exp[i].at \in Spot
  BY DEF Parted, Placed
<1>2. /\ \A i, j \in 1 .. a : i < j => B(s[i].at, s[j].at)
      /\ \A i, j \in 1 .. b : i < j => B(t[i].at, t[j].at)
      /\ \A i, j \in 1 .. n : i < j => B(exp[i].at, exp[j].at)
  BY DEF Parted, Ascends
<1>3. /\ \A i \in 1 .. a : \E m \in 1 .. n : m > k /\ s[i] = exp[m]
      /\ \A i \in 1 .. b : \E m \in 1 .. n : m > k /\ t[i] = exp[m]
      /\ \A m \in 1 .. n : m > k => \/ \E i \in 1 .. a : s[i] = exp[m]
                                    \/ \E i \in 1 .. b : t[i] = exp[m]
      /\ \A i \in 1 .. a, j \in 1 .. b : s[i].at # t[j].at
  BY DEF Parted, Beyond
<1>4. \A p, q, x \in Spot :
        /\ ~B(p, p)
        /\ B(p, q) /\ B(q, x) => B(p, x)
        /\ B(p, q) => ~B(q, p)
  BY BeforeIsOrder DEF Spot
<1>5. /\ Head(s) = s[1] /\ 1 \in 1 .. a /\ r \in Seq(E) /\ a > 0 /\ Len(r) = a - 1
      /\ \A i \in 1 .. a - 1 : r[i] = s[i + 1] /\ i + 1 \in 1 .. a
      /\ \A i \in 1 .. a : i # 1 => i - 1 \in 1 .. a - 1 /\ (i - 1) + 1 = i
  BY Tails
<1>6. b > 0 => 1 \in 1 .. b /\ ~B(t[1].at, s[1].at)
  <2>1. b > 0 => t # <<>>
    OBVIOUS
  <2> QED BY <1>1, <2>1
<1> HIDE DEF B, a, b, n, r
<1>7. PICK m \in 1 .. n : m > k /\ s[1] = exp[m]
  BY <1>3, <1>5
<1>8. k + 1 \in 1 .. n
  BY <1>1, <1>7
<1>9. m = k + 1
  <2> SUFFICES ASSUME m # k + 1
               PROVE  FALSE
    OBVIOUS
  <2>1. B(exp[k + 1].at, exp[m].at)
    <3>1. k + 1 < m
      BY <1>1, <1>7
    <3> QED BY <1>2, <1>8, <3>1
  <2>2. ASSUME NEW i \in 1 .. a, s[i] = exp[k + 1]
        PROVE  FALSE
    <3>1. CASE i = 1
      BY <1>1, <1>4, <1>5, <1>7, <2>1, <2>2, <3>1
    <3>2. CASE i # 1
      <4>1. 1 < i
        BY <1>1, <3>2
      <4>2. B(s[1].at, s[i].at)
        BY <1>2, <1>5, <4>1
      <4> QED BY <1>1, <1>4, <1>5, <1>7, <2>1, <2>2, <4>2
    <3> QED BY <3>1, <3>2
  <2>3. ASSUME NEW i \in 1 .. b, t[i] = exp[k + 1]
        PROVE  FALSE
    <3>1. b > 0 /\ 1 \in 1 .. b
      BY <1>1
    <3>2. B(t[i].at, s[1].at)
      BY <1>7, <2>1, <2>3
    <3>3. CASE i = 1
      BY <1>6, <3>1, <3>2, <3>3
    <3>4. CASE i # 1
      <4>1. 1 < i
        BY <1>1, <3>4
      <4>2. B(t[1].at, t[i].at)
        BY <1>2, <3>1, <4>1
      <4>3. t[1].at \in Spot /\ t[i].at \in Spot /\ s[1].at \in Spot
        BY <1>1, <1>5, <3>1
      <4>4. B(t[1].at, s[1].at)
        BY <1>4, <3>2, <4>2, <4>3
      <4> QED BY <1>6, <3>1, <4>4
    <3> QED BY <3>3, <3>4
  <2>4. k + 1 > k
    OBVIOUS
  <2> QED BY <1>3, <1>8, <2>2, <2>3, <2>4
<1>10. Head(s) = exp[k + 1] /\ s[1] = exp[k + 1]
  BY <1>5, <1>7, <1>9
<1>11. Placed(r) /\ Ascends(r, direction) /\ Beyond(r, exp, k + 1)
  <2>1. a - 1 \in Nat /\ \A i, j \in 1 .. a - 1 : i < j => i + 1 < j + 1
    BY <1>1, <1>5
  <2>2. Placed(r)
    BY <1>1, <1>5, <2>1 DEF Placed
  <2>3. Ascends(r, direction)
    <3> SUFFICES ASSUME NEW i \in 1 .. a - 1, NEW j \in 1 .. a - 1, i < j
                 PROVE  B(r[i].at, r[j].at)
      BY <1>5 DEF Ascends, B
    <3> QED BY <1>2, <1>5, <2>1
  <2>4. Beyond(r, exp, k + 1)
    <3> SUFFICES ASSUME NEW i \in 1 .. a - 1
                 PROVE  \E l \in 1 .. n : l > k + 1 /\ r[i] = exp[l]
      BY <1>5 DEF Beyond, n
    <3>1. r[i] = s[i + 1] /\ i + 1 \in 1 .. a /\ 1 < i + 1
      BY <1>1, <1>5
    <3>2. PICK l \in 1 .. n : l > k /\ s[i + 1] = exp[l]
      BY <1>3, <3>1
    <3>3. B(s[1].at, s[i + 1].at)
      BY <1>2, <1>5, <3>1
    <3>4. l # k + 1
      BY <1>1, <1>4, <1>5, <1>10, <3>2, <3>3
    <3>5. l > k + 1
      BY <1>1, <3>2, <3>4
    <3> QED BY <3>1, <3>2, <3>5
  <2> QED BY <2>2, <2>3, <2>4
<1>12. Beyond(t, exp, k + 1)
  <2> SUFFICES ASSUME NEW i \in 1 .. b
               PROVE  \E l \in 1 .. n : l > k + 1 /\ t[i] = exp[l]
    BY DEF Beyond, b, n
  <2>1. PICK l \in 1 .. n : l > k /\ t[i] = exp[l]
    BY <1>3
  <2>2. l # k + 1
    <3>1. s[1].at # t[i].at
      BY <1>3, <1>5
    <3> QED BY <1>10, <2>1, <3>1
  <2>3. l > k + 1
    BY <1>1, <2>1, <2>2
  <2> QED BY <2>1, <2>3
<1>13. ASSUME NEW l \in 1 .. n, l > k + 1
       PROVE  \/ \E i \in 1 .. a - 1 : r[i] = exp[l]
              \/ \E i \in 1 .. b : t[i] = exp[l]
  <2>1. l > k /\ k + 1 < l
    BY <1>1, <1>13
  <2>2. CASE \E i \in 1 .. b : t[i] = exp[l]
    BY <2>2
  <2>3. CASE \E i \in 1 .. a : s[i] = exp[l]
    <3>1. PICK i \in 1 .. a : s[i] = exp[l]
      BY <2>3
    <3>2. B(exp[k + 1].at, exp[l].at)
      BY <1>2, <1>8, <2>1
    <3>3. i # 1
      BY <1>1, <1>4, <1>5, <1>10, <3>1, <3>2
    <3>4. i - 1 \in 1 .. a - 1 /\ r[i - 1] = s[i]
      BY <1>5, <3>3
    <3> QED BY <3>1, <3>4
  <2> QED BY <1>3, <2>1, <2>2, <2>3
<1>14. \A i \in 1 .. a - 1, j \in 1 .. b : r[i].at # t[j].at
  <2> SUFFICES ASSUME NEW i \in 1 .. a - 1, NEW j \in 1 .. b
               PROVE  r[i].at # t[j].at
    OBVIOUS
  <2>1. i + 1 \in 1 .. a /\ r[i] = s[i + 1]
    BY <1>5
  <2>2. s[i + 1].at # t[j].at
    BY <1>3, <2>1
  <2> QED BY <2>1, <2>2
<1>15. Parted(k + 1, r, t, exp, direction)
  <2>1. /\ \A l \in 1 .. Len(exp) :
             l > k + 1 => \/ \E i \in 1 .. Len(r) : r[i] = exp[l]
                          \/ \E i \in 1 .. Len(t) : t[i] = exp[l]
        /\ \A i \in 1 .. Len(r), j \in 1 .. Len(t) : r[i].at # t[j].at
    BY <1>5, <1>13, <1>14 DEF n, b
  <2> QED BY <1>11, <1>12, <2>1 DEF Parted
<1> QED BY <1>8, <1>10, <1>15 DEF n, r

\* The two streams may change places.
LEMMA PartedEitherWay ==
  ASSUME NEW k, NEW s, NEW t, NEW exp, NEW direction, Parted(k, s, t, exp, direction)
  PROVE  Parted(k, t, s, exp, direction)
BY DEF Parted

\* Cursors whose streams are in Q.
Cursors(c, Q) ==
  [kind : {c.kind}, direction : {c.direction}, start : {c.start},
   base : Q, overlay : Q, out : Q]

\* The cursor c has returned the first entries of exp, and its streams hold the others.
Merging(c, exp) ==
  LET E == {exp[m] : m \in 1 .. Len(exp)}
  IN /\ c \in Cursors(c, Seq(E))
     /\ \A i \in 1 .. Len(c.out) : i \in 1 .. Len(exp) /\ c.out[i] = exp[i]
     /\ Parted(Len(c.out), c.base, c.overlay, exp, c.direction)

\* One more entry of exp is out.
LEMMA OneMore ==
  ASSUME NEW E, NEW out \in Seq(E), NEW exp, Len(exp) \in Nat,
         \A i \in 1 .. Len(out) : i \in 1 .. Len(exp) /\ out[i] = exp[i],
         NEW e \in E, Len(out) + 1 \in 1 .. Len(exp), e = exp[Len(out) + 1]
  PROVE  /\ Append(out, e) \in Seq(E) /\ Len(Append(out, e)) = Len(out) + 1
         /\ \A i \in 1 .. Len(out) + 1 : i \in 1 .. Len(exp) /\ Append(out, e)[i] = exp[i]
<1> DEFINE v == Append(out, e)
           k == Len(out)
<1>1. v \in Seq(E) /\ Len(v) = k + 1 /\ v[k + 1] = e /\ \A i \in 1 .. k : v[i] = out[i]
  OBVIOUS
<1>2. k \in Nat
  OBVIOUS
<1> HIDE DEF v
<1>3. ASSUME NEW i \in 1 .. k + 1
      PROVE  i \in 1 .. Len(exp) /\ v[i] = exp[i]
  <2>1. CASE i = k + 1
    BY <1>1, <2>1
  <2>2. CASE i # k + 1
    <3>1. i \in 1 .. k
      BY <1>2, <2>2
    <3> QED BY <1>1, <3>1
  <2> QED BY <2>1, <2>2
<1> QED BY <1>1, <1>3 DEF v, k

\* d is c with these streams and this output.
Becomes(c, d, Q, base, overlay, out) ==
  /\ d \in Cursors(d, Q)
  /\ d.kind = c.kind /\ d.direction = c.direction /\ d.start = c.start
  /\ d.base = base /\ d.overlay = overlay /\ d.out = out

\* What taking an entry changes, when the heads are at different positions.
LEMMA Taken ==
  ASSUME NEW Q, NEW c, c \in Cursors(c, Q)
  PROVE  /\ Tail(c.base) \in Q /\ Append(c.out, Head(c.base)) \in Q =>
              Becomes(c, BaseTaken(c), Q, Tail(c.base), c.overlay, Append(c.out, Head(c.base)))
         /\ Tail(c.overlay) \in Q /\ Append(c.out, Head(c.overlay)) \in Q
              /\ ~(c.base # <<>> /\ Head(c.base).at = Head(c.overlay).at) =>
              Becomes(c, OverlayTaken(c), Q, c.base, Tail(c.overlay),
                      Append(c.out, Head(c.overlay)))
<1> DEFINE x == Append(c.out, Head(c.base))
           y == Tail(c.base)
           v == Append(c.out, Head(c.overlay))
           z == Tail(c.overlay)
           d == [c EXCEPT !.out = x, !.base = y]
           e == [c EXCEPT !.out = v, !.overlay = z, !.base = c.base]
<1>1. BaseTaken(c) = d
  BY DEF BaseTaken
<1>2. ~(c.base # <<>> /\ Head(c.base).at = Head(c.overlay).at) => OverlayTaken(c) = e
  BY DEF OverlayTaken
<1> HIDE DEF x, y, v, z
<1>3. x \in Q /\ y \in Q => Becomes(c, d, Q, y, c.overlay, x)
  BY DEF Cursors, Becomes
<1>4. v \in Q /\ z \in Q => Becomes(c, e, Q, c.base, z, v)
  BY DEF Cursors, Becomes
<1> HIDE DEF d, e
<1>5. x \in Q /\ y \in Q => Becomes(c, BaseTaken(c), Q, y, c.overlay, x)
  BY <1>1, <1>3
<1>6. v \in Q /\ z \in Q /\ ~(c.base # <<>> /\ Head(c.base).at = Head(c.overlay).at) =>
        Becomes(c, OverlayTaken(c), Q, c.base, z, v)
  BY <1>2, <1>4
<1> QED BY <1>5, <1>6 DEF x, y, v, z

\* The next entry out of the base.
LEMMA BaseKeepsMerging ==
  ASSUME NEW c, NEW exp, Merging(c, exp), TakesBase(c)
  PROVE  Merging(BaseTaken(c), exp)
<1> DEFINE E == {exp[m] : m \in 1 .. Len(exp)}
           Q == Seq(E)
           d == BaseTaken(c)
           k == Len(c.out)
           e == Head(c.base)
<1>1. c \in Cursors(c, Q) /\ Parted(k, c.base, c.overlay, exp, c.direction)
      /\ \A i \in 1 .. k : i \in 1 .. Len(exp) /\ c.out[i] = exp[i]
  BY DEF Merging
<1>2. c.base \in Seq(E) /\ c.overlay \in Seq(E) /\ c.out \in Seq(E) /\ Len(exp) \in Nat
  <2>1. Len(exp) \in Nat
    BY <1>1 DEF Parted, Placed
  <2>2. c.base \in Q /\ c.overlay \in Q /\ c.out \in Q
    <3> HIDE DEF Q
    <3> QED BY <1>1 DEF Cursors
  <2> HIDE DEF E
  <2> QED BY <2>1, <2>2
<1> HIDE DEF E
<1>4. k \in Nat
  BY <1>2
<1>5. c.base # <<>> /\ (c.overlay # <<>> => Before(c.direction, Head(c.base).at, Head(c.overlay).at))
  BY DEF TakesBase, TakesOverlay
<1>6. /\ Head(c.base) = c.base[1] /\ Tail(c.base) \in Seq(E) /\ 1 \in 1 .. Len(c.base)
  BY <1>2, <1>5, Tails
<1>7. e \in E
  BY <1>2, <1>6
<1>8. ASSUME c.overlay # <<>>
      PROVE  ~Before(c.direction, c.overlay[1].at, c.base[1].at)
  <2>1. Head(c.overlay) = c.overlay[1] /\ 1 \in 1 .. Len(c.overlay)
    BY <1>2, <1>8, Tails
  <2>2. c.overlay[1].at \in Spot /\ c.base[1].at \in Spot
    BY <1>1, <1>6, <2>1 DEF Parted, Placed
  <2>3. Before(c.direction, c.base[1].at, c.overlay[1].at)
    BY <1>5, <1>6, <1>8, <2>1
  <2> QED BY <2>2, <2>3, BeforeIsOrder DEF Spot
<1>9. /\ k + 1 \in 1 .. Len(exp) /\ Head(c.base) = exp[k + 1]
      /\ Parted(k + 1, Tail(c.base), c.overlay, exp, c.direction)
  BY <1>1, <1>2, <1>4, <1>5, <1>8, TakeHead
<1>10. /\ Append(c.out, e) \in Seq(E) /\ Len(Append(c.out, e)) = k + 1
       /\ \A i \in 1 .. k + 1 : i \in 1 .. Len(exp) /\ Append(c.out, e)[i] = exp[i]
  BY <1>1, <1>2, <1>7, <1>9, OneMore
<1>11. Becomes(c, d, Q, Tail(c.base), c.overlay, Append(c.out, e))
  <2>1. Tail(c.base) \in Q /\ Append(c.out, e) \in Q
    BY <1>6, <1>10
  <2> HIDE DEF Q
  <2> QED BY <1>1, <2>1, Taken
<1> HIDE DEF d, Q
<1>12. /\ d \in Cursors(d, Q) /\ d.direction = c.direction
       /\ d.base = Tail(c.base) /\ d.overlay = c.overlay /\ d.out = Append(c.out, e)
  BY <1>11 DEF Becomes
<1>13. Merging(d, exp)
  BY <1>9, <1>10, <1>12 DEF Merging, E, Q
<1> QED BY <1>13 DEF d

\* The next entry out of the overlay.
LEMMA OverlayKeepsMerging ==
  ASSUME NEW c, NEW exp, Merging(c, exp), TakesOverlay(c)
  PROVE  Merging(OverlayTaken(c), exp)
<1> DEFINE E == {exp[m] : m \in 1 .. Len(exp)}
           Q == Seq(E)
           d == OverlayTaken(c)
           k == Len(c.out)
           e == Head(c.overlay)
<1>1. c \in Cursors(c, Q) /\ Parted(k, c.base, c.overlay, exp, c.direction)
      /\ \A i \in 1 .. k : i \in 1 .. Len(exp) /\ c.out[i] = exp[i]
  BY DEF Merging
<1>2. c.base \in Seq(E) /\ c.overlay \in Seq(E) /\ c.out \in Seq(E) /\ Len(exp) \in Nat
  <2>1. Len(exp) \in Nat
    BY <1>1 DEF Parted, Placed
  <2>2. c.base \in Q /\ c.overlay \in Q /\ c.out \in Q
    <3> HIDE DEF Q
    <3> QED BY <1>1 DEF Cursors
  <2> HIDE DEF E
  <2> QED BY <2>1, <2>2
<1> HIDE DEF E
<1>4. k \in Nat
  BY <1>2
<1>5. c.overlay # <<>> /\ (c.base # <<>> => ~Before(c.direction, Head(c.base).at, Head(c.overlay).at))
  BY DEF TakesOverlay
<1>6. /\ Head(c.overlay) = c.overlay[1] /\ Tail(c.overlay) \in Seq(E) /\ 1 \in 1 .. Len(c.overlay)
  BY <1>2, <1>5, Tails
<1>7. e \in E
  BY <1>2, <1>6
<1>8. ASSUME c.base # <<>>
      PROVE  /\ ~Before(c.direction, c.base[1].at, c.overlay[1].at)
             /\ Head(c.base).at # e.at
  <2>1. Head(c.base) = c.base[1] /\ 1 \in 1 .. Len(c.base)
    BY <1>2, <1>8, Tails
  <2>2. c.base[1].at # c.overlay[1].at
    BY <1>1, <1>6, <2>1 DEF Parted
  <2> QED BY <1>5, <1>6, <1>8, <2>1, <2>2
<1>9. /\ k + 1 \in 1 .. Len(exp) /\ e = exp[k + 1]
      /\ Parted(k + 1, c.base, Tail(c.overlay), exp, c.direction)
  <2>1. Parted(k, c.overlay, c.base, exp, c.direction)
    BY <1>1, PartedEitherWay
  <2>2. /\ k + 1 \in 1 .. Len(exp) /\ e = exp[k + 1]
        /\ Parted(k + 1, Tail(c.overlay), c.base, exp, c.direction)
    BY <1>2, <1>4, <1>5, <1>8, <2>1, TakeHead
  <2> QED BY <2>2, PartedEitherWay
<1>10. /\ Append(c.out, e) \in Seq(E) /\ Len(Append(c.out, e)) = k + 1
       /\ \A i \in 1 .. k + 1 : i \in 1 .. Len(exp) /\ Append(c.out, e)[i] = exp[i]
  BY <1>1, <1>2, <1>7, <1>9, OneMore
<1>11. Becomes(c, d, Q, c.base, Tail(c.overlay), Append(c.out, e))
  <2>1. Tail(c.overlay) \in Q /\ Append(c.out, e) \in Q
    BY <1>6, <1>10
  <2>2. ~(c.base # <<>> /\ Head(c.base).at = Head(c.overlay).at)
    BY <1>8
  <2> HIDE DEF Q
  <2> QED BY <1>1, <2>1, <2>2, Taken
<1> HIDE DEF d, Q
<1>12. /\ d \in Cursors(d, Q) /\ d.direction = c.direction
       /\ d.base = c.base /\ d.overlay = Tail(c.overlay) /\ d.out = Append(c.out, e)
  BY <1>11 DEF Becomes
<1>13. Merging(d, exp)
  BY <1>9, <1>10, <1>12 DEF Merging, E, Q
<1> QED BY <1>13 DEF d

\* What has been returned is the beginning of exp, and all of it in the end.
LEMMA MergingPromises ==
  ASSUME NEW c, NEW E, NEW exp \in Seq(E), Merging(c, exp)
  PROVE  IsPrefix(c.out, exp) /\ (Drained(c) => c.out = exp)
<1> DEFINE F == {exp[m] : m \in 1 .. Len(exp)}
           Q == Seq(F)
           out == c.out
           k == Len(out)
           n == Len(exp)
<1>1. /\ \A i \in 1 .. k : i \in 1 .. n /\ out[i] = exp[i]
      /\ Parted(k, c.base, c.overlay, exp, c.direction)
  BY DEF Merging
<1>2. out \in Seq(F)
  <2>1. c \in Cursors(c, Q)
    BY DEF Merging
  <2> HIDE DEF Q
  <2>2. c.out \in Q
    BY <2>1 DEF Cursors
  <2> QED BY <2>2 DEF Q
<1> HIDE DEF F
<1>3. k \in Nat /\ n \in Nat
  BY <1>2
<1>4. k <= n
  <2>1. CASE k = 0
    BY <1>3, <2>1
  <2>2. CASE k # 0
    <3>1. k \in 1 .. k
      BY <1>3, <2>2
    <3> QED BY <1>1, <1>3, <3>1
  <2> QED BY <2>1, <2>2
<1>5. SubSeq(out, 1, k) = SubSeq(exp, 1, k)
  <2>1. SubSeq(out, 1, k) = [i \in 1 .. k |-> out[(i + 1) - 1]]
    BY <1>3
  <2>2. SubSeq(exp, 1, k) = [i \in 1 .. k |-> exp[(i + 1) - 1]]
    BY <1>3
  <2>3. \A i \in 1 .. k : (i + 1) - 1 = i
    OBVIOUS
  <2> HIDE DEF k, out
  <2> QED BY <1>1, <2>1, <2>2, <2>3
<1>6. ASSUME Drained(c)
      PROVE  out = exp
  <2>1. Len(c.base) = 0 /\ Len(c.overlay) = 0
    BY <1>6 DEF Drained
  <2>2. \A m \in 1 .. n : ~(m > k)
    BY <1>1, <2>1 DEF Parted
  <2>3. k = n
    <3>1. CASE n = 0
      BY <1>3, <1>4, <3>1
    <3>2. CASE n # 0
      <4>1. n \in 1 .. n
        BY <1>3, <3>2
      <4> QED BY <1>3, <1>4, <2>2, <4>1
    <3> QED BY <3>1, <3>2
  <2>4. DOMAIN out = 1 .. k /\ DOMAIN exp = 1 .. n /\ out = [i \in 1 .. k |-> out[i]]
        /\ exp = [i \in 1 .. n |-> exp[i]]
    <3> HIDE DEF out
    <3> QED BY <1>2 DEF k, n
  <2> HIDE DEF k, n, out
  <2> QED BY <1>1, <2>3, <2>4
<1> QED BY <1>4, <1>5, <1>6 DEF IsPrefix
=============================================================================
