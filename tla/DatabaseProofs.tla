-------------------------- MODULE DatabaseProofs --------------------------
(***************************************************************************)
(* Encoded keys sort as the fields they encode, a built range holds the    *)
(* entries its bounds name, and an assembled query selects the documents   *)
(* its filters describe, for every byte width, value, number of fields and *)
(* filter.  A transaction's commands follow its start, what a task waits   *)
(* for is in the channel of a live worker, and an end is final, for all    *)
(* tasks and workers.                                                      *)
(***************************************************************************)
EXTENDS QueryBuilder, TransactionWorker, OrderProofs

-----------------------------------------------------------------------------
(* prefix_successor *)

Bytestring == Seq(0 .. MaxByte)

Begins(prefix, key) == Len(prefix) <= Len(key) /\ \A i \in 1 .. Len(prefix) : key[i] = prefix[i]

\* The keys of Begins(prefix, _) lie at or above the prefix and below its successor.
LEMMA ExtensionsAreInside ==
  ASSUME NEW prefix \in Bytestring, NEW key \in Bytestring, Begins(prefix, key),
         NEW l \in 1 .. Len(prefix), prefix[l] < MaxByte
  PROVE  Less(key, Append(SubSeq(prefix, 1, l - 1), prefix[l] + 1))
<1> DEFINE end == Append(SubSeq(prefix, 1, l - 1), prefix[l] + 1)
<1>1. /\ Len(prefix) \in Nat /\ Len(key) \in Nat /\ l \in Nat /\ l - 1 \in Nat
      /\ \A i \in 1 .. Len(prefix) : prefix[i] \in Nat
  BY ByteAssumption DEF Bytestring
<1>2. Len(end) = l /\ end[l] = prefix[l] + 1 /\ \A i \in 1 .. l - 1 : end[i] = prefix[i]
  BY <1>1 DEF Bytestring
<1> HIDE DEF end
<1>3. l - 1 \in 0 .. Len(key) /\ l - 1 < Len(end)
  BY <1>1, <1>2 DEF Begins
<1>4. \A i \in 1 .. l - 1 : key[i] = end[i]
  BY <1>1, <1>2 DEF Begins
<1>5. key[(l - 1) + 1] < end[(l - 1) + 1]
  BY <1>1, <1>2 DEF Begins
<1>6. Less(key, end)
  BY <1>3, <1>4, <1>5 DEF Less
<1> QED BY <1>6 DEF end

\* A key is not below its own prefix.
LEMMA ExtensionsAreNotBelow ==
  ASSUME NEW prefix \in Bytestring, NEW key \in Bytestring, Begins(prefix, key)
  PROVE  ~Less(key, prefix)
<1> SUFFICES ASSUME NEW n \in 0 .. Len(key), n < Len(prefix),
                    n < Len(key) => key[n + 1] < prefix[n + 1]
             PROVE  FALSE
  BY DEF Less
<1>1. /\ Len(prefix) \in Nat /\ Len(key) \in Nat
      /\ n + 1 \in 1 .. Len(prefix) /\ n < Len(key)
  BY DEF Bytestring, Begins
<1>2. key[n + 1] = prefix[n + 1] /\ prefix[n + 1] \in Nat
  BY <1>1, ByteAssumption DEF Begins, Bytestring
<1> QED BY <1>1, <1>2

\* A key that does not begin with the prefix leaves it at some place.
LEMMA FirstDifference ==
  ASSUME NEW prefix \in Bytestring, NEW key \in Bytestring, ~Begins(prefix, key)
  PROVE  \E j \in 1 .. Len(prefix) :
           /\ j <= Len(key) + 1
           /\ \A i \in 1 .. j - 1 : key[i] = prefix[i]
           /\ j <= Len(key) => key[j] # prefix[j]
<1> DEFINE D == {j \in 1 .. Len(prefix) : j > Len(key) \/ key[j] # prefix[j]}
<1>1. Len(prefix) \in Nat /\ Len(key) \in Nat
  BY DEF Bytestring
<1>2. D # {}
  <2>1. CASE Len(prefix) > Len(key)
    BY <1>1, <2>1
  <2>2. CASE Len(prefix) <= Len(key)
    BY <1>1, <2>2 DEF Begins
  <2> QED BY <1>1, <2>1, <2>2
<1>3. PICK j \in D : \A i \in D : j <= i
  <2>1. D \in SUBSET Nat
    BY <1>1
  <2> HIDE DEF D
  <2> QED BY <1>2, <2>1, LeastExists
<1>4. \A i \in 1 .. j - 1 : i \in 1 .. Len(prefix) /\ i \notin D
  BY <1>1, <1>3
<1>5. j <= Len(key) + 1
  BY <1>1, <1>3, <1>4
<1> QED BY <1>1, <1>3, <1>4, <1>5

\* A key that leaves the prefix at or above it is at or above the successor too, whose
\* bytes after l were all 0xFF.
LEMMA OthersAreOutside ==
  ASSUME NEW prefix \in Bytestring, NEW key \in Bytestring, ~Begins(prefix, key),
         ~Less(key, prefix)
  PROVE  /\ \E i \in 1 .. Len(prefix) : prefix[i] < MaxByte
         /\ \A l \in 1 .. Len(prefix) :
              (prefix[l] < MaxByte /\ \A i \in l + 1 .. Len(prefix) : prefix[i] = MaxByte)
                => ~Less(key, Append(SubSeq(prefix, 1, l - 1), prefix[l] + 1))
<1>1. /\ Len(prefix) \in Nat /\ Len(key) \in Nat
      /\ \A i \in 1 .. Len(prefix) : prefix[i] \in 0 .. MaxByte
      /\ \A i \in 1 .. Len(key) : key[i] \in 0 .. MaxByte
      /\ MaxByte \in Nat
  BY ByteAssumption DEF Bytestring
<1>2. PICK j \in 1 .. Len(prefix) :
        /\ j <= Len(key) + 1
        /\ \A i \in 1 .. j - 1 : key[i] = prefix[i]
        /\ j <= Len(key) => key[j] # prefix[j]
  BY FirstDifference
<1>3. j <= Len(key) /\ key[j] > prefix[j]
  <2> SUFFICES ASSUME ~(j <= Len(key) /\ key[j] > prefix[j])
               PROVE  Less(key, prefix)
    OBVIOUS
  <2>1. j - 1 \in 0 .. Len(key) /\ j - 1 < Len(prefix) /\ (j - 1) + 1 = j
    BY <1>1, <1>2
  <2>2. j - 1 < Len(key) => key[j] < prefix[j]
    BY <1>1, <1>2
  <2> QED BY <1>2, <2>1, <2>2 DEF Less
<1>4. prefix[j] < MaxByte
  BY <1>1, <1>3
<1>5. ASSUME NEW l \in 1 .. Len(prefix), prefix[l] < MaxByte,
             \A i \in l + 1 .. Len(prefix) : prefix[i] = MaxByte
      PROVE  ~Less(key, Append(SubSeq(prefix, 1, l - 1), prefix[l] + 1))
  <2> DEFINE end == Append(SubSeq(prefix, 1, l - 1), prefix[l] + 1)
  <2>1. Len(end) = l /\ end[l] = prefix[l] + 1 /\ \A i \in 1 .. l - 1 : end[i] = prefix[i]
    BY <1>1 DEF Bytestring
  <2> HIDE DEF end
  <2>2. j <= l
    BY <1>1, <1>4, <1>5
  <2>3. ASSUME NEW n \in 0 .. Len(key), n < Len(end), \A i \in 1 .. n : key[i] = end[i],
               n < Len(key) => key[n + 1] < end[n + 1]
        PROVE  FALSE
    <3>1. CASE n + 1 < j
      <4>1. key[n + 1] = prefix[n + 1] /\ end[n + 1] = prefix[n + 1] /\ n + 1 \in 1 .. Len(prefix)
        BY <1>1, <1>2, <2>1, <2>2, <3>1
      <4>2. prefix[n + 1] \in Nat /\ n < Len(key)
        BY <1>1, <1>3, <3>1, <4>1
      <4> QED BY <2>3, <4>1, <4>2
    <3>2. CASE n + 1 = j
      <4>1. key[j] < end[j]
        BY <1>1, <1>3, <2>3, <3>2
      <4>2. end[j] \in Nat /\ end[j] <= prefix[j] + 1
        <5>1. CASE j = l
          BY <1>1, <2>1, <5>1
        <5>2. CASE j < l
          <6>1. end[j] = prefix[j]
            BY <1>1, <2>1, <5>2
          <6> QED BY <1>1, <6>1
        <5> QED BY <1>1, <2>2, <5>1, <5>2
      <4>3. key[j] \in Nat /\ prefix[j] \in Nat
        BY <1>1, <1>3
      <4>4. j = l
        BY <1>1, <1>3, <2>1, <2>2, <4>1, <4>2, <4>3
      <4> QED BY <1>1, <1>3, <2>1, <4>1, <4>2, <4>3, <4>4
    <3>3. CASE n + 1 > j
      <4>1. j \in 1 .. n /\ j < l
        BY <1>1, <2>1, <2>3, <3>3
      <4>2. key[j] = end[j] /\ end[j] = prefix[j]
        BY <1>1, <2>1, <2>3, <4>1
      <4> QED BY <1>1, <1>2, <1>3, <4>2
    <3> QED BY <1>1, <3>1, <3>2, <3>3
  <2>4. ~Less(key, end)
    BY <2>3 DEF Less
  <2> QED BY <2>4 DEF end
<1> QED BY <1>4, <1>5

\* prefix_successor: the keys from the prefix up to its successor are those that begin
\* with the prefix, whatever bytes it ends in; without a successor there is no key
\* above the prefix that does not begin with it.
THEOREM PrefixRangeIsExact ==
  ASSUME NEW prefix \in Bytestring, NEW key \in Bytestring
  PROVE  Begins(prefix, key) <=>
           /\ ~Less(key, prefix)
           /\ LET end == PrefixSuccessor(prefix)
              IN end.kind = "Excluded" => Less(key, end.key)
<1> DEFINE low == {i \in DOMAIN prefix : prefix[i] < MaxByte}
           l == CHOOSE i \in low : \A j \in low : j <= i
           end == Append(SubSeq(prefix, 1, l - 1), prefix[l] + 1)
<1>1. /\ Len(prefix) \in Nat /\ DOMAIN prefix = 1 .. Len(prefix) /\ MaxByte \in Nat
      /\ \A i \in 1 .. Len(prefix) : prefix[i] \in 0 .. MaxByte
  BY ByteAssumption DEF Bytestring
<1>2. PrefixSuccessor(prefix) =
        IF low = {} THEN Unbounded ELSE [kind |-> "Excluded", key |-> end]
  BY DEF PrefixSuccessor
<1>3. CASE low = {}
  <2>1. ~(\E i \in 1 .. Len(prefix) : prefix[i] < MaxByte)
    BY <1>1, <1>3
  <2>2. PrefixSuccessor(prefix).kind # "Excluded"
    BY <1>2, <1>3 DEF Unbounded
  <2>3. Begins(prefix, key) <=> ~Less(key, prefix)
    BY <2>1, ExtensionsAreNotBelow, OthersAreOutside
  <2> QED BY <2>2, <2>3
<1>4. CASE low # {}
  <2>1. l \in low /\ \A j \in low : j <= l
    <3>1. low \in SUBSET (1 .. Len(prefix))
      BY <1>1
    <3>2. \E i \in low : \A j \in low : j <= i
      <4> HIDE DEF low
      <4> QED BY <1>1, <1>4, <3>1, PlacesHaveEnds
    <3> QED BY <3>2
  <2>2. l \in 1 .. Len(prefix) /\ prefix[l] < MaxByte
    BY <1>1, <2>1
  <2>3. \A i \in l + 1 .. Len(prefix) : prefix[i] = MaxByte
    <3> SUFFICES ASSUME NEW i \in l + 1 .. Len(prefix)
                 PROVE  prefix[i] = MaxByte
      OBVIOUS
    <3>1. i \in 1 .. Len(prefix) /\ i \notin low
      BY <1>1, <2>1, <2>2
    <3> QED BY <1>1, <3>1
  <2>4. PrefixSuccessor(prefix) = [kind |-> "Excluded", key |-> end]
    BY <1>2, <1>4
  <2> HIDE DEF low, l
  <2>5. Begins(prefix, key) => ~Less(key, prefix) /\ Less(key, end)
    BY <2>2, ExtensionsAreInside, ExtensionsAreNotBelow
  <2>6. ~Begins(prefix, key) /\ ~Less(key, prefix) => ~Less(key, end)
    BY <2>2, <2>3, OthersAreOutside
  <2> HIDE DEF end
  <2> QED BY <2>4, <2>5, <2>6
<1> QED BY <1>3, <1>4

-----------------------------------------------------------------------------
(* Numbers *)

I64 == {[kind |-> "I64", data |-> <<n>>] : n \in -Sign .. Sign - 1}
F64 == {[kind |-> "F64", data |-> <<bits>>] : bits \in 0 .. MaxByte}

\* A word holds twice as many numbers as its sign bit is worth.
LEMMA WordSize == Sign \in Nat /\ Sign >= 4 /\ MaxByte = 2 * Sign - 1
BY ByteAssumption DEF Sign

\* The remainder of a number below the divisor.
LEMMA Remainder ==
  ASSUME NEW d \in Nat, d # 0, NEW n \in 0 .. d - 1
  PROVE  n % d = n
OBVIOUS

\* The remainder of a number from the divisor to twice it.
LEMMA RemainderAbove ==
  ASSUME NEW d \in Nat, d # 0, NEW n \in d .. 2 * d - 1
  PROVE  n % d = n - d
OBVIOUS

\* Strings of one byte compare as their bytes.
LEMMA OneByteLess ==
  ASSUME NEW m \in Int, NEW n \in Int
  PROVE  Less(<<m>>, <<n>>) <=> m < n
<1>1. Len(<<m>>) = 1 /\ Len(<<n>>) = 1 /\ <<m>>[1] = m /\ <<n>>[1] = n
  OBVIOUS
<1>2. ASSUME Less(<<m>>, <<n>>)
      PROVE  m < n
  <2>1. PICK k \in 0 .. 1 : k < 1 /\ (k < 1 => <<m>>[k + 1] < <<n>>[k + 1])
    BY <1>1, <1>2 DEF Less
  <2> QED BY <1>1, <2>1
<1>3. ASSUME m < n
      PROVE  Less(<<m>>, <<n>>)
  <2>1. /\ 0 \in 0 .. Len(<<m>>) /\ 0 < Len(<<n>>)
        /\ \A i \in 1 .. 0 : <<m>>[i] = <<n>>[i]
        /\ <<m>>[0 + 1] < <<n>>[0 + 1]
    BY <1>1, <1>3
  <2> QED BY <2>1 DEF Less
<1> QED BY <1>2, <1>3

\* encode_value: the flipped sign bit makes the bytes of integers compare as the
\* integers do, in words of every width.
THEOREM IntegersKeepTheirOrder ==
  ASSUME NEW v \in I64, NEW w \in I64
  PROVE  /\ Less(Content(v), Content(w)) <=> ValueLess(v, w)
         /\ Content(v) = Content(w) <=> SameValue(v, w)
<1>1. PICK m \in -Sign .. Sign - 1 : v = [kind |-> "I64", data |-> <<m>>]
  BY DEF I64
<1>2. PICK n \in -Sign .. Sign - 1 : w = [kind |-> "I64", data |-> <<n>>]
  BY DEF I64
<1>3. ASSUME NEW i \in -Sign .. Sign - 1
      PROVE  FlipSign(i) = i + Sign
  <2>1. i + Sign \in 0 .. (2 * Sign) - 1 /\ 2 * Sign \in Nat /\ 2 * Sign # 0
    BY WordSize
  <2> HIDE DEF Sign
  <2>2. (i + Sign) % (2 * Sign) = i + Sign
    BY <2>1, Remainder
  <2> QED BY <2>2 DEF FlipSign
<1>4. Content(v) = <<m + Sign>> /\ Content(w) = <<n + Sign>>
  BY <1>1, <1>2, <1>3 DEF Content
<1>5. Rank(v) = <<m>> /\ Rank(w) = <<n>> /\ v.kind = w.kind
  BY <1>1, <1>2 DEF Rank
<1>6. ~(Tag[v.kind] < Tag[w.kind])
  BY <1>1, <1>2 DEF Tag
<1>7. m \in Int /\ n \in Int /\ m + Sign \in Int /\ n + Sign \in Int /\ Sign \in Nat
  BY WordSize
<1>8. Less(Content(v), Content(w)) <=> Less(Rank(v), Rank(w))
  BY <1>4, <1>5, <1>7, OneByteLess
<1>9. Content(v) = Content(w) <=> Rank(v) = Rank(w)
  BY <1>4, <1>5, <1>7
<1> QED BY <1>5, <1>6, <1>8, <1>9 DEF ValueLess, SameValue

\* What a float is worth, and the word it becomes.
LEMMA FloatWord ==
  ASSUME NEW bits \in 0 .. MaxByte
  PROVE  LET v == [kind |-> "F64", data |-> <<bits>>]
         IN \E r, o \in Int :
              /\ Rank(v) = <<r>> /\ Content(v) = <<o>>
              /\ \/ r \in 0 .. Infinity /\ o = Sign + r
                 \/ r \in -Infinity .. -1 /\ o = Sign - 1 + r
                 \/ r = MaxByte /\ o = Sign + CanonicalNaN
<1> DEFINE v == [kind |-> "F64", data |-> <<bits>>]
           magnitude == bits % Sign
           word == OrderedBits(Canonical(bits))
<1>1. /\ Sign \in Nat /\ Sign >= 4 /\ MaxByte = 2 * Sign - 1
      /\ Infinity \in 1 .. Sign - 2 /\ CanonicalNaN \in Infinity + 1 .. Sign - 1
  BY WordSize, FloatAssumption
<1>2. Content(v) = <<word>>
  BY DEF Content
<1>3. Rank(v) = IF magnitude > Infinity THEN <<MaxByte>>
                ELSE IF bits < Sign THEN <<magnitude>> ELSE <<-magnitude>>
  BY DEF Rank
<1>4. /\ bits < Sign => magnitude = bits
      /\ bits >= Sign => magnitude = bits - Sign
  <2> HIDE DEF Sign
  <2> QED BY <1>1, Remainder, RemainderAbove
<1> HIDE DEF v, magnitude, word
<1>5. CASE magnitude > Infinity
  <2>1. word = Sign + CanonicalNaN
    BY <1>1, <1>5 DEF word, magnitude, Canonical, OrderedBits
  <2>2. Rank(v) = <<MaxByte>>
    BY <1>3, <1>5
  <2>3. MaxByte \in Int /\ word \in Int
    BY <1>1, <2>1
  <2> QED BY <1>2, <2>1, <2>2, <2>3 DEF v
<1>6. CASE magnitude = 0
  <2>1. word = Sign
    BY <1>1, <1>6 DEF word, magnitude, Canonical, OrderedBits
  <2>2. Rank(v) = <<0>>
    BY <1>1, <1>3, <1>6
  <2>3. 0 \in 0 .. Infinity /\ word = Sign + 0 /\ word \in Int
    BY <1>1, <2>1
  <2> QED BY <1>2, <2>2, <2>3 DEF v
<1>7. CASE magnitude \in 1 .. Infinity /\ bits < Sign
  <2>1. word = Sign + magnitude
    BY <1>1, <1>4, <1>7 DEF word, magnitude, Canonical, OrderedBits
  <2>2. Rank(v) = <<magnitude>>
    BY <1>1, <1>3, <1>7
  <2>3. magnitude \in 0 .. Infinity /\ magnitude \in Int /\ word \in Int
    BY <1>1, <1>7, <2>1
  <2> QED BY <1>2, <2>1, <2>2, <2>3 DEF v
<1>8. CASE magnitude \in 1 .. Infinity /\ bits >= Sign
  <2>1. word = Sign - 1 + (-magnitude)
    BY <1>1, <1>4, <1>8 DEF word, magnitude, Canonical, OrderedBits
  <2>2. Rank(v) = <<-magnitude>>
    BY <1>1, <1>3, <1>8
  <2>3. -magnitude \in -Infinity .. -1 /\ -magnitude \in Int /\ word \in Int
    BY <1>1, <1>8, <2>1
  <2> QED BY <1>2, <2>1, <2>2, <2>3 DEF v
<1>9. magnitude \in Nat
  BY <1>1, <1>4
<1> QED BY <1>1, <1>5, <1>6, <1>7, <1>8, <1>9 DEF v

\* encode_value: negative floats with all bits flipped, the others with the sign bit, one
\* zero and one NaN: the bytes compare as the values do, every NaN last, and are equal
\* for equal values only, in words of every width.
THEOREM FloatsKeepTheirOrder ==
  ASSUME NEW v \in F64, NEW w \in F64
  PROVE  /\ Less(Content(v), Content(w)) <=> ValueLess(v, w)
         /\ Content(v) = Content(w) <=> SameValue(v, w)
<1>1. PICK a \in 0 .. MaxByte : v = [kind |-> "F64", data |-> <<a>>]
  BY DEF F64
<1>2. PICK b \in 0 .. MaxByte : w = [kind |-> "F64", data |-> <<b>>]
  BY DEF F64
<1>3. PICK r, o \in Int :
        /\ Rank(v) = <<r>> /\ Content(v) = <<o>>
        /\ \/ r \in 0 .. Infinity /\ o = Sign + r
           \/ r \in -Infinity .. -1 /\ o = Sign - 1 + r
           \/ r = MaxByte /\ o = Sign + CanonicalNaN
  BY <1>1, FloatWord
<1>4. PICK q, p \in Int :
        /\ Rank(w) = <<q>> /\ Content(w) = <<p>>
        /\ \/ q \in 0 .. Infinity /\ p = Sign + q
           \/ q \in -Infinity .. -1 /\ p = Sign - 1 + q
           \/ q = MaxByte /\ p = Sign + CanonicalNaN
  BY <1>2, FloatWord
<1>5. (o < p <=> r < q) /\ (o = p <=> r = q)
  <2>1. /\ Sign \in Nat /\ Sign >= 4 /\ MaxByte = 2 * Sign - 1
        /\ Infinity \in 1 .. Sign - 2 /\ CanonicalNaN \in Infinity + 1 .. Sign - 1
    BY WordSize, FloatAssumption
  <2> QED BY <1>3, <1>4, <2>1
<1>6. Less(Content(v), Content(w)) <=> Less(Rank(v), Rank(w))
  BY <1>3, <1>4, <1>5, OneByteLess
<1>7. Content(v) = Content(w) <=> Rank(v) = Rank(w)
  BY <1>3, <1>4, <1>5
<1>8. v.kind = w.kind /\ ~(Tag[v.kind] < Tag[w.kind])
  BY <1>1, <1>2 DEF Tag
<1> QED BY <1>6, <1>7, <1>8 DEF ValueLess, SameValue

-----------------------------------------------------------------------------
(* Byte strings side by side *)

\* s and t differ at some place of both, and s has the smaller byte there.
Below(s, t) ==
  \E n \in Nat :
    /\ n < Len(s) /\ n < Len(t)
    /\ \A i \in 1 .. n : s[i] = t[i]
    /\ s[n + 1] < t[n + 1]

\* What a byte string consists of.
LEMMA Bytes ==
  ASSUME NEW s \in Bytestring
  PROVE  /\ s \in Seq(0 .. MaxByte) /\ Len(s) \in Nat
         /\ \A i \in 1 .. Len(s) : s[i] \in Nat /\ s[i] \in 0 .. MaxByte
BY ByteAssumption DEF Bytestring

\* Below is the strict part of Less that extensions do not change.
LEMMA BelowIsLess ==
  ASSUME NEW s \in Bytestring, NEW t \in Bytestring, Below(s, t)
  PROVE  Less(s, t) /\ ~Less(t, s) /\ s # t
<1>1. PICK n \in Nat :
        /\ n < Len(s) /\ n < Len(t)
        /\ \A i \in 1 .. n : s[i] = t[i]
        /\ s[n + 1] < t[n + 1]
  BY DEF Below
<1>2. /\ Len(s) \in Nat /\ Len(t) \in Nat /\ n + 1 \in 1 .. Len(s) /\ n + 1 \in 1 .. Len(t)
      /\ s[n + 1] \in Nat /\ t[n + 1] \in Nat
  <2>1. Len(s) \in Nat /\ Len(t) \in Nat
    BY Bytes
  <2>2. n + 1 \in 1 .. Len(s) /\ n + 1 \in 1 .. Len(t)
    BY <1>1, <2>1
  <2> QED BY <2>1, <2>2, Bytes
<1>3. Less(s, t)
  <2>1. n \in 0 .. Len(s)
    BY <1>1, <1>2
  <2> QED BY <1>1, <2>1 DEF Less
<1>4. ASSUME NEW m \in 0 .. Len(t), m < Len(s), \A i \in 1 .. m : t[i] = s[i],
             m < Len(t) => t[m + 1] < s[m + 1]
      PROVE  FALSE
  <2>1. CASE m < n
    <3>1. m + 1 \in 1 .. n /\ m + 1 \in 1 .. Len(s) /\ m < Len(t)
      BY <1>1, <1>2, <2>1
    <3>2. s[m + 1] = t[m + 1] /\ s[m + 1] \in Nat
      BY <1>1, <3>1, Bytes
    <3> QED BY <1>4, <3>1, <3>2
  <2>2. CASE m = n
    BY <1>1, <1>2, <1>4, <2>2
  <2>3. CASE m > n
    <3>1. n + 1 \in 1 .. m
      BY <1>1, <2>3
    <3> QED BY <1>1, <1>2, <1>4, <3>1
  <2>4. m \in Nat
    OBVIOUS
  <2> QED BY <2>1, <2>2, <2>3, <2>4
<1>5. ~Less(t, s)
  BY <1>4 DEF Less
<1>6. s # t
  BY <1>1, <1>2
<1> QED BY <1>3, <1>5, <1>6

\* Of two byte strings one is less, or they are the same.
LEMMA BytesAreTotal ==
  ASSUME NEW s \in Bytestring, NEW t \in Bytestring
  PROVE  Less(s, t) \/ s = t \/ Less(t, s)
<1>1. s \in Seq(Nat) /\ t \in Seq(Nat)
  BY ByteAssumption DEF Bytestring
<1> QED BY <1>1, LessIsTotal

\* A concatenation, byte by byte.
LEMMA Joins ==
  ASSUME NEW s \in Bytestring, NEW t \in Bytestring
  PROVE  /\ s \o t \in Bytestring /\ Len(s \o t) = Len(s) + Len(t)
         /\ \A i \in 1 .. Len(s) : (s \o t)[i] = s[i]
         /\ \A i \in 1 .. Len(t) : (s \o t)[Len(s) + i] = t[i]
<1>1. /\ s \o t \in Bytestring /\ Len(s \o t) = Len(s) + Len(t)
      /\ \A i \in 1 .. Len(s) + Len(t) :
           (s \o t)[i] = IF i <= Len(s) THEN s[i] ELSE t[i - Len(s)]
  BY ConcatProperties DEF Bytestring
<1>2. Len(s) \in Nat /\ Len(t) \in Nat
  BY Bytes
<1>3. \A i \in 1 .. Len(s) : (s \o t)[i] = s[i]
  BY <1>1, <1>2
<1>4. ASSUME NEW i \in 1 .. Len(t)
      PROVE  (s \o t)[Len(s) + i] = t[i]
  <2>1. Len(s) + i \in 1 .. Len(s) + Len(t) /\ ~(Len(s) + i <= Len(s)) /\ (Len(s) + i) - Len(s) = i
    BY <1>2
  <2> QED BY <1>1, <2>1
<1> QED BY <1>1, <1>3, <1>4

\* What comes before and after the difference does not matter.
LEMMA BelowAfter ==
  ASSUME NEW s \in Bytestring, NEW t \in Bytestring, Below(s, t), NEW p \in Bytestring
  PROVE  Below(p \o s, p \o t)
<1>1. PICK n \in Nat :
        /\ n < Len(s) /\ n < Len(t)
        /\ \A i \in 1 .. n : s[i] = t[i]
        /\ s[n + 1] < t[n + 1]
  BY DEF Below
<1> DEFINE x == p \o s
           y == p \o t
           k == Len(p)
<1>2. /\ Len(s) \in Nat /\ Len(t) \in Nat /\ k \in Nat
      /\ Len(x) = k + Len(s) /\ Len(y) = k + Len(t)
      /\ \A i \in 1 .. k : x[i] = p[i] /\ y[i] = p[i]
      /\ \A i \in 1 .. Len(s) : x[k + i] = s[i]
      /\ \A i \in 1 .. Len(t) : y[k + i] = t[i]
  BY Bytes, Joins
<1> HIDE DEF x, y, k
<1>3. k + n \in Nat /\ k + n < Len(x) /\ k + n < Len(y)
  BY <1>1, <1>2
<1>4. ASSUME NEW i \in 1 .. k + n
      PROVE  x[i] = y[i]
  <2>1. CASE i <= k
    BY <1>2, <2>1
  <2>2. CASE i > k
    <3>1. i - k \in 1 .. n /\ i - k \in 1 .. Len(s) /\ i - k \in 1 .. Len(t) /\ k + (i - k) = i
      BY <1>1, <1>2, <2>2
    <3>2. x[i] = s[i - k] /\ y[i] = t[i - k]
      BY <1>2, <3>1
    <3> QED BY <1>1, <3>1, <3>2
  <2> QED BY <1>2, <2>1, <2>2
<1>5. x[(k + n) + 1] < y[(k + n) + 1]
  <2>1. n + 1 \in 1 .. Len(s) /\ n + 1 \in 1 .. Len(t) /\ k + (n + 1) = (k + n) + 1
    BY <1>1, <1>2
  <2>2. x[(k + n) + 1] = s[n + 1] /\ y[(k + n) + 1] = t[n + 1]
    BY <1>2, <2>1
  <2> QED BY <1>1, <2>2
<1>6. Below(x, y)
  BY <1>3, <1>4, <1>5 DEF Below
<1> QED BY <1>6 DEF x, y

\* What follows does not matter once the bytes differ.
LEMMA BelowBefore ==
  ASSUME NEW s \in Bytestring, NEW t \in Bytestring, Below(s, t),
         NEW p \in Bytestring, NEW q \in Bytestring
  PROVE  Below(s \o p, t \o q)
<1>1. PICK n \in Nat :
        /\ n < Len(s) /\ n < Len(t)
        /\ \A i \in 1 .. n : s[i] = t[i]
        /\ s[n + 1] < t[n + 1]
  BY DEF Below
<1> DEFINE x == s \o p
           y == t \o q
<1>2. /\ Len(s) \in Nat /\ Len(t) \in Nat /\ Len(p) \in Nat /\ Len(q) \in Nat
      /\ Len(x) = Len(s) + Len(p) /\ Len(y) = Len(t) + Len(q)
      /\ \A i \in 1 .. Len(s) : x[i] = s[i]
      /\ \A i \in 1 .. Len(t) : y[i] = t[i]
  BY Bytes, Joins
<1> HIDE DEF x, y
<1>3. n < Len(x) /\ n < Len(y)
  BY <1>1, <1>2
<1>4. ASSUME NEW i \in 1 .. n
      PROVE  x[i] = y[i]
  <2>1. i \in 1 .. Len(s) /\ i \in 1 .. Len(t)
    BY <1>1, <1>2
  <2> QED BY <1>1, <1>2, <2>1
<1>5. x[n + 1] < y[n + 1]
  <2>1. n + 1 \in 1 .. Len(s) /\ n + 1 \in 1 .. Len(t)
    BY <1>1, <1>2
  <2> QED BY <1>1, <1>2, <2>1
<1>6. Below(x, y)
  BY <1>3, <1>4, <1>5 DEF Below
<1> QED BY <1>6 DEF x, y

\* A byte string is not above what it begins.
LEMMA LessThanExtended ==
  ASSUME NEW s \in Bytestring, NEW p \in Bytestring
  PROVE  ~Less(s \o p, s) /\ (Less(s, s \o p) \/ s \o p = s)
<1>1. s \o p \in Bytestring /\ Begins(s, s \o p)
  BY Bytes, Joins DEF Begins
<1>2. ~Less(s \o p, s)
  BY <1>1, ExtensionsAreNotBelow
<1> QED BY <1>1, <1>2, BytesAreTotal

-----------------------------------------------------------------------------
(* One field after the other *)

\* w names the bytes of the first fields, by their number.
Joined(seqs, w) ==
  /\ w \in [0 .. Len(seqs) -> Bytestring] /\ w[0] = <<>>
  /\ \A i \in 1 .. Len(seqs) : w[i] = w[i - 1] \o seqs[i]

\* The empty string.
LEMMA NoBytes == <<>> \in Bytestring /\ \A s \in Bytestring : <<>> \o s = s /\ s \o <<>> = s
BY ConcatEmptySeq DEF Bytestring

\* FlattenSeq joins its strings from left to right.
LEMMA Flattens ==
  ASSUME NEW seqs \in Seq(Bytestring)
  PROVE  \E w : Joined(seqs, w) /\ FlattenSeq(seqs) = w[Len(seqs)]
<1> DEFINE n == Len(seqs)
           Step == [x \in Bytestring \X (1 .. n) |-> x[1] \o seqs[x[2]]]
           Line(f, i) == IF i = 1 THEN seqs[i] ELSE f[i - 1] \o seqs[i]
           flatten == CHOOSE f : f = [i \in 1 .. n |-> Line(f, i)]
<1>1. n \in Nat /\ \A i \in 1 .. n : seqs[i] \in Bytestring
  OBVIOUS
<1>2. Step \in [Bytestring \X (1 .. n) -> Bytestring]
  BY <1>1, Joins
<1>3. PICK w \in [0 .. n -> Bytestring] :
        w[0] = <<>> /\ \A i \in 1 .. n : w[i] = Step[<<w[i - 1], i>>]
  <2> DEFINE none == <<>>
             X == Bytestring
  <2>1. n \in Nat /\ none \in X /\ Step \in [X \X (1 .. n) -> X]
    BY <1>1, <1>2, NoBytes
  <2> HIDE DEF n, Step, none, X
  <2>2. PICK w \in [0 .. n -> X] : IsWalk(w, n, none, Step)
    BY <2>1, WalkExists
  <2> QED BY <2>2 DEF none, X, IsWalk
<1>4. \A i \in 1 .. n : i - 1 \in 0 .. n /\ w[i - 1] \in Bytestring
  BY <1>1, <1>3
<1>5. \A i \in 1 .. n : w[i] = w[i - 1] \o seqs[i]
  BY <1>3, <1>4
<1> HIDE DEF Step
<1>6. Joined(seqs, w)
  BY <1>3, <1>5 DEF Joined
<1>7. CASE n = 0
  <2>1. FlattenSeq(seqs) = seqs /\ seqs = <<>>
    BY <1>7 DEF FlattenSeq
  <2> QED BY <1>3, <1>6, <1>7, <2>1
<1>8. CASE n # 0
  <2>1. FlattenSeq(seqs) = flatten[n]
    BY <1>8 DEF FlattenSeq
  <2> DEFINE g == [i \in 1 .. n |-> w[i]]
  <2>2. g = [i \in 1 .. n |-> Line(g, i)]
    <3> SUFFICES ASSUME NEW i \in 1 .. n
                 PROVE  w[i] = Line(g, i)
      OBVIOUS
    <3>1. CASE i = 1
      <4>1. w[1] = <<>> \o seqs[1]
        BY <1>3, <1>5, <3>1
      <4> QED BY <1>1, <3>1, <4>1, NoBytes
    <3>2. CASE i # 1
      <4>1. i - 1 \in 1 .. n
        BY <1>1, <3>2
      <4> QED BY <1>5, <3>2, <4>1
    <3> QED BY <3>1, <3>2
  <2>3. flatten = [i \in 1 .. n |-> Line(flatten, i)]
    BY <2>2
  <2> HIDE DEF flatten
  <2> DEFINE S == {0} \cup {i \in 1 .. n : flatten[i] = w[i]}
  <2>4. ASSUME NEW i \in 1 .. n, i - 1 \in S
        PROVE  i \in S
    <3>1. flatten[i] = Line(flatten, i)
      BY <2>3
    <3>2. CASE i = 1
      <4>1. w[1] = <<>> \o seqs[1]
        BY <1>3, <1>5, <3>2
      <4> QED BY <1>1, <3>1, <3>2, <4>1, NoBytes
    <3>3. CASE i # 1
      <4>1. i - 1 # 0
        BY <3>3
      <4>2. flatten[i - 1] = w[i - 1]
        BY <2>4, <4>1
      <4> QED BY <1>5, <3>1, <3>3, <4>2
    <3> QED BY <3>2, <3>3
  <2>5. \A i \in 0 .. n : i \in S
    <3>1. 0 \in S
      OBVIOUS
    <3> HIDE DEF S, n
    <3> QED BY <1>1, <2>4, <3>1, UpTo
  <2>6. flatten[n] = w[n]
    BY <1>1, <1>8, <2>5
  <2> QED BY <1>6, <2>1, <2>6
<1> QED BY <1>7, <1>8

\* Fields that are the same have the same bytes.
LEMMA JoinedSame ==
  ASSUME NEW s, NEW w, Joined(s, w), NEW t, NEW x, Joined(t, x),
         NEW k \in Nat, k <= Len(s), k <= Len(t), Len(s) \in Nat, Len(t) \in Nat,
         \A i \in 1 .. k : s[i] = t[i]
  PROVE  w[k] = x[k]
<1> DEFINE S == {i \in 0 .. k : w[i] = x[i]}
<1>1. 0 \in S
  BY DEF Joined
<1>2. ASSUME NEW i \in 1 .. k, i - 1 \in S
      PROVE  i \in S
  <2>1. i \in 1 .. Len(s) /\ i \in 1 .. Len(t) /\ s[i] = t[i] /\ w[i - 1] = x[i - 1]
    BY <1>2
  <2>2. w[i] = w[i - 1] \o s[i] /\ x[i] = x[i - 1] \o t[i]
    BY <2>1 DEF Joined
  <2>3. i \in 0 .. k /\ w[i] = x[i]
    BY <2>1, <2>2
  <2> QED BY <2>3
<1>3. \A i \in 0 .. k : i \in S
  <2> HIDE DEF S
  <2> QED BY <1>1, <1>2, UpTo
<1> QED BY <1>3

\* The bytes of the first fields begin those of all.
LEMMA JoinedExtends ==
  ASSUME NEW s, s \in Seq(Bytestring), NEW w, Joined(s, w), NEW k \in 0 .. Len(s)
  PROVE  \E r \in Bytestring : w[Len(s)] = w[k] \o r
<1> DEFINE n == Len(s)
           S == {i \in 0 .. n : i < k \/ \E r \in Bytestring : w[i] = w[k] \o r}
<1>1. n \in Nat /\ k \in Nat /\ k <= n /\ w[k] \in Bytestring
  BY DEF Joined
<1>2. k \in S
  <2>1. w[k] = w[k] \o <<>> /\ <<>> \in Bytestring
    BY <1>1, NoBytes
  <2> QED BY <2>1
<1>3. 0 \in S
  BY <1>1, <1>2
<1>4. ASSUME NEW i \in 1 .. n, i - 1 \in S
      PROVE  i \in S
  <2>1. CASE i < k
    BY <1>1, <2>1
  <2>2. CASE i = k
    BY <1>2, <2>2
  <2>3. CASE i > k
    <3>1. ~(i - 1 < k)
      BY <1>1, <2>3
    <3>2. PICK r \in Bytestring : w[i - 1] = w[k] \o r
      BY <1>4, <3>1
    <3>3. w[i] = w[i - 1] \o s[i] /\ s[i] \in Bytestring
      BY DEF Joined
    <3>4. w[i] = w[k] \o (r \o s[i])
      <4> DEFINE a == w[k]
                 b == s[i]
                 B == 0 .. MaxByte
      <4>1. a \in Seq(B) /\ b \in Seq(B) /\ r \in Seq(B)
        BY <1>1, <3>3 DEF Bytestring
      <4> HIDE DEF a, b, B
      <4>2. (a \o r) \o b = a \o (r \o b)
        BY <4>1, ConcatAssociative
      <4> QED BY <3>2, <3>3, <4>2 DEF a, b
    <3>5. r \o s[i] \in Bytestring
      BY <3>2, <3>3, Joins
    <3>6. i \in 0 .. n
      OBVIOUS
    <3> QED BY <3>4, <3>5, <3>6
  <2>4. i < k \/ i = k \/ i > k
    BY <1>1
  <2> QED BY <2>1, <2>2, <2>3, <2>4
<1>5. \A i \in 0 .. n : i \in S
  <2> HIDE DEF S, n
  <2> QED BY <1>1, <1>3, <1>4, UpTo
<1>6. n \in S /\ ~(n < k)
  <2> HIDE DEF S
  <2> QED BY <1>1, <1>5
<1> QED BY <1>6

\* Concatenation is associative.
LEMMA JoinsAnyhow ==
  ASSUME NEW s \in Bytestring, NEW t \in Bytestring, NEW u \in Bytestring
  PROVE  (s \o t) \o u = s \o (t \o u)
<1> DEFINE B == 0 .. MaxByte
<1>1. s \in Seq(B) /\ t \in Seq(B) /\ u \in Seq(B)
  BY DEF Bytestring
<1> HIDE DEF B
<1> QED BY <1>1, ConcatAssociative

\* Joined byte strings are a byte string.
LEMMA FlattenIsBytes ==
  ASSUME NEW s \in Seq(Bytestring)
  PROVE  FlattenSeq(s) \in Bytestring
<1>1. PICK w : Joined(s, w) /\ FlattenSeq(s) = w[Len(s)]
  BY Flattens
<1>2. Len(s) \in 0 .. Len(s)
  OBVIOUS
<1> QED BY <1>1, <1>2 DEF Joined

\* The first field that differs decides, whatever follows it.
LEMMA FlattenBelow ==
  ASSUME NEW s \in Seq(Bytestring), NEW t \in Seq(Bytestring),
         NEW k \in 1 .. Len(s), k <= Len(t),
         \A i \in 1 .. k - 1 : s[i] = t[i], Below(s[k], t[k])
  PROVE  Below(FlattenSeq(s), FlattenSeq(t))
<1>1. PICK w : Joined(s, w) /\ FlattenSeq(s) = w[Len(s)]
  BY Flattens
<1>2. PICK x : Joined(t, x) /\ FlattenSeq(t) = x[Len(t)]
  BY Flattens
<1>3. /\ Len(s) \in Nat /\ Len(t) \in Nat /\ k - 1 \in Nat
      /\ k - 1 <= Len(s) /\ k - 1 <= Len(t)
      /\ k \in 0 .. Len(s) /\ k \in 1 .. Len(t) /\ k \in 0 .. Len(t)
      /\ k - 1 \in 0 .. Len(s) /\ k - 1 \in 0 .. Len(t)
  OBVIOUS
<1>4. s[k] \in Bytestring /\ t[k] \in Bytestring
  BY <1>3
<1>5. w[k - 1] = x[k - 1]
  <2> DEFINE j == k - 1
  <2>1. /\ j \in Nat /\ j <= Len(s) /\ j <= Len(t) /\ \A i \in 1 .. j : s[i] = t[i]
    BY <1>3
  <2> HIDE DEF j
  <2>2. w[j] = x[j]
    BY <1>1, <1>2, <1>3, <2>1, JoinedSame
  <2> QED BY <2>2 DEF j
<1>6. /\ w[k] = w[k - 1] \o s[k] /\ x[k] = w[k - 1] \o t[k]
      /\ w[k - 1] \in Bytestring /\ w[k] \in Bytestring /\ x[k] \in Bytestring
  BY <1>1, <1>2, <1>3, <1>5 DEF Joined
<1>7. Below(w[k], x[k])
  <2> DEFINE p == w[k - 1]
             a == s[k]
             b == t[k]
  <2>1. p \in Bytestring /\ a \in Bytestring /\ b \in Bytestring /\ Below(a, b)
    BY <1>4, <1>6
  <2>2. w[k] = p \o a /\ x[k] = p \o b
    BY <1>6
  <2> HIDE DEF p, a, b
  <2> QED BY <2>1, <2>2, BelowAfter
<1>8. PICK q \in Bytestring : w[Len(s)] = w[k] \o q
  BY <1>1, <1>3, JoinedExtends
<1>9. PICK r \in Bytestring : x[Len(t)] = x[k] \o r
  BY <1>2, <1>3, JoinedExtends
<1>10. Below(w[k] \o q, x[k] \o r)
  <2> DEFINE a == w[k]
             b == x[k]
  <2>1. a \in Bytestring /\ b \in Bytestring /\ Below(a, b)
    BY <1>6, <1>7
  <2> HIDE DEF a, b
  <2>2. Below(a \o q, b \o r)
    BY <2>1, BelowBefore
  <2> QED BY <2>2 DEF a, b
<1> QED BY <1>1, <1>2, <1>8, <1>9, <1>10

\* The bytes of the first fields begin those of all, and are all of them when no field
\* follows.
LEMMA FlattenBegins ==
  ASSUME NEW s \in Seq(Bytestring), NEW t \in Seq(Bytestring), Len(s) <= Len(t),
         \A i \in 1 .. Len(s) : s[i] = t[i]
  PROVE  /\ \E r \in Bytestring : FlattenSeq(t) = FlattenSeq(s) \o r
         /\ Len(s) = Len(t) => FlattenSeq(t) = FlattenSeq(s)
<1>1. PICK w : Joined(s, w) /\ FlattenSeq(s) = w[Len(s)]
  BY Flattens
<1>2. PICK x : Joined(t, x) /\ FlattenSeq(t) = x[Len(t)]
  BY Flattens
<1>3. Len(s) \in Nat /\ Len(t) \in Nat /\ Len(s) \in 0 .. Len(t) /\ Len(s) <= Len(s)
  OBVIOUS
<1>4. w[Len(s)] = x[Len(s)]
  BY <1>1, <1>2, <1>3, JoinedSame
<1>5. PICK r \in Bytestring : x[Len(t)] = x[Len(s)] \o r
  BY <1>2, <1>3, JoinedExtends
<1> QED BY <1>1, <1>2, <1>4, <1>5

-----------------------------------------------------------------------------
(* encode_escaped *)

\* What a byte of a string is written as.
Cell(b) == IF b = 0 THEN <<0, MaxByte>> ELSE <<b>>

Cells(bytes) == [i \in DOMAIN bytes |-> Cell(bytes[i])]

\* One or two bytes are a byte string.
LEMMA FewBytes ==
  ASSUME NEW b \in 0 .. MaxByte, NEW c \in 0 .. MaxByte
  PROVE  /\ <<b>> \in Bytestring /\ Len(<<b>>) = 1 /\ <<b>>[1] = b
         /\ <<b, c>> \in Bytestring /\ Len(<<b, c>>) = 2 /\ <<b, c>>[1] = b /\ <<b, c>>[2] = c
BY DEF Bytestring

\* An escaped byte is a byte string, and so is the terminator.
LEMMA CellType ==
  /\ \A b \in 0 .. MaxByte : Cell(b) \in Bytestring
  /\ <<0, 0>> \in Bytestring
<1>1. 0 \in 0 .. MaxByte /\ MaxByte \in 0 .. MaxByte
  BY ByteAssumption
<1> QED BY <1>1, FewBytes DEF Cell

\* A byte below another is written below it, and the end of a field below any byte.
LEMMA CellsKeepOrder ==
  ASSUME NEW b \in 0 .. MaxByte, NEW c \in 0 .. MaxByte
  PROVE  /\ b < c => Below(Cell(b), Cell(c))
         /\ Below(<<0, 0>>, Cell(c))
<1>1. /\ Len(<<b>>) = 1 /\ <<b>>[1] = b /\ Len(<<c>>) = 1 /\ <<c>>[1] = c
      /\ Len(<<0, MaxByte>>) = 2 /\ <<0, MaxByte>>[1] = 0 /\ <<0, MaxByte>>[2] = MaxByte
      /\ Len(<<0, 0>>) = 2 /\ <<0, 0>>[1] = 0 /\ <<0, 0>>[2] = 0
      /\ MaxByte \in Nat /\ MaxByte > 0 /\ b \in Nat /\ c \in Nat
  BY ByteAssumption
<1>2. /\ 0 < Len(Cell(b)) /\ Cell(b)[1] = b
      /\ 0 < Len(Cell(c)) /\ Cell(c)[1] = c
      /\ c = 0 => 1 < Len(Cell(c)) /\ Cell(c)[1] = 0 /\ Cell(c)[2] = MaxByte
  BY <1>1 DEF Cell
<1>3. ASSUME b < c
      PROVE  Below(Cell(b), Cell(c))
  <2>1. 0 \in Nat /\ 0 + 1 = 1 /\ \A i \in 1 .. 0 : Cell(b)[i] = Cell(c)[i]
    OBVIOUS
  <2> QED BY <1>2, <1>3, <2>1 DEF Below
<1>4. Below(<<0, 0>>, Cell(c))
  <2>1. CASE c = 0
    <3>1. 1 \in Nat /\ 1 + 1 = 2 /\ \A i \in 1 .. 1 : <<0, 0>>[i] = Cell(c)[i]
      BY <1>1, <1>2, <2>1
    <3>2. 1 < Len(<<0, 0>>) /\ 1 < Len(Cell(c)) /\ <<0, 0>>[2] < Cell(c)[2]
      BY <1>1, <1>2, <2>1
    <3> QED BY <3>1, <3>2 DEF Below
  <2>2. CASE c # 0
    <3>1. 0 \in Nat /\ 0 + 1 = 1 /\ \A i \in 1 .. 0 : <<0, 0>>[i] = Cell(c)[i]
      OBVIOUS
    <3>2. 0 < Len(<<0, 0>>) /\ 0 < Len(Cell(c)) /\ <<0, 0>>[1] < Cell(c)[1]
      BY <1>1, <1>2, <2>2
    <3> QED BY <3>1, <3>2 DEF Below
  <2> QED BY <2>1, <2>2
<1> QED BY <1>3, <1>4

\* An escaped string is its escaped bytes and the terminator.
LEMMA CellsType ==
  ASSUME NEW a \in Bytestring
  PROVE  /\ Cells(a) \in Seq(Bytestring) /\ Len(Cells(a)) = Len(a)
         /\ \A i \in 1 .. Len(a) : Cells(a)[i] = Cell(a[i])
         /\ Escaped(a) = FlattenSeq(Cells(a)) \o <<0, 0>> /\ Escaped(a) \in Bytestring
<1>1. Len(a) \in Nat /\ DOMAIN a = 1 .. Len(a) /\ \A i \in 1 .. Len(a) : a[i] \in 0 .. MaxByte
  <2>1. DOMAIN a = 1 .. Len(a)
    BY DEF Bytestring
  <2> QED BY <2>1, Bytes
<1>2. Cells(a) = [i \in 1 .. Len(a) |-> Cell(a[i])]
  BY <1>1 DEF Cells
<1>3. \A i \in 1 .. Len(a) : Cell(a[i]) \in Bytestring
  BY <1>1, CellType
<1>4. /\ Cells(a) \in Seq(Bytestring) /\ Len(Cells(a)) = Len(a)
      /\ \A i \in 1 .. Len(a) : Cells(a)[i] = Cell(a[i])
  BY <1>1, <1>2, <1>3
<1>5. Escaped(a) = FlattenSeq(Cells(a)) \o <<0, 0>>
  BY DEF Escaped, Cells, Cell
<1>6. Escaped(a) \in Bytestring
  <2>1. FlattenSeq(Cells(a)) \in Bytestring
    BY <1>4, FlattenIsBytes
  <2> QED BY <1>5, <2>1, CellType, Joins
<1> QED BY <1>4, <1>5, <1>6

\* encode_escaped keeps the order of strings, and no string's bytes begin another's.
LEMMA EscapedKeepsOrder ==
  ASSUME NEW a \in Bytestring, NEW b \in Bytestring, Less(a, b)
  PROVE  Below(Escaped(a), Escaped(b))
<1> DEFINE s == Cells(a)
           t == Cells(b)
           stop == <<0, 0>>
<1>1. /\ s \in Seq(Bytestring) /\ Len(s) = Len(a) /\ \A i \in 1 .. Len(a) : s[i] = Cell(a[i])
      /\ t \in Seq(Bytestring) /\ Len(t) = Len(b) /\ \A i \in 1 .. Len(b) : t[i] = Cell(b[i])
      /\ Escaped(a) = FlattenSeq(s) \o stop /\ Escaped(b) = FlattenSeq(t) \o stop
      /\ Len(a) \in Nat /\ Len(b) \in Nat /\ stop \in Bytestring
      /\ FlattenSeq(s) \in Bytestring /\ FlattenSeq(t) \in Bytestring
  BY CellsType, CellType, Bytes, FlattenIsBytes
<1>2. PICK n \in 0 .. Len(a) :
        /\ n < Len(b)
        /\ \A i \in 1 .. n : a[i] = b[i]
        /\ n < Len(a) => a[n + 1] < b[n + 1]
  BY DEF Less
<1> HIDE DEF s, t
<1>3. /\ n \in Nat /\ n + 1 \in 1 .. Len(b) /\ b[n + 1] \in 0 .. MaxByte /\ t[n + 1] = Cell(b[n + 1])
      /\ \A i \in 1 .. n : s[i] = t[i]
  <2>1. n \in Nat /\ n + 1 \in 1 .. Len(b) /\ \A i \in 1 .. n : i \in 1 .. Len(a) /\ i \in 1 .. Len(b)
    BY <1>1, <1>2
  <2> QED BY <1>1, <1>2, <2>1, Bytes
<1>4. CASE n < Len(a)
  <2> DEFINE k == n + 1
  <2>1. /\ k \in 1 .. Len(s) /\ k <= Len(t) /\ k - 1 = n
        /\ a[k] \in 0 .. MaxByte /\ s[k] = Cell(a[k]) /\ a[k] < b[k]
    <3>1. k \in 1 .. Len(a) /\ k <= Len(t) /\ k - 1 = n
      BY <1>1, <1>2, <1>3, <1>4
    <3> QED BY <1>1, <1>2, <1>4, <3>1, Bytes
  <2>2. Below(s[k], t[k])
    BY <1>3, <2>1, CellsKeepOrder
  <2>3. \A i \in 1 .. k - 1 : s[i] = t[i]
    BY <1>3, <2>1
  <2> HIDE DEF k, stop
  <2>4. Below(FlattenSeq(s), FlattenSeq(t))
    BY <1>1, <2>1, <2>2, <2>3, FlattenBelow
  <2> DEFINE x == FlattenSeq(s)
             y == FlattenSeq(t)
  <2>5. x \in Bytestring /\ y \in Bytestring /\ stop \in Bytestring /\ Below(x, y)
    BY <1>1, <2>4
  <2> HIDE DEF x, y
  <2>6. Below(x \o stop, y \o stop)
    BY <2>5, BelowBefore
  <2> QED BY <1>1, <2>6 DEF x, y
<1>5. CASE n = Len(a)
  <2>1. PICK w : Joined(s, w) /\ FlattenSeq(s) = w[Len(s)]
    BY <1>1, Flattens
  <2>2. PICK x : Joined(t, x) /\ FlattenSeq(t) = x[Len(t)]
    BY <1>1, Flattens
  <2> DEFINE c == t[n + 1]
             u == w[n]
             y == x[n + 1]
  <2>3. w[n] = x[n] /\ FlattenSeq(s) = w[n]
    <3>1. n <= Len(s) /\ n <= Len(t) /\ Len(s) \in Nat /\ Len(t) \in Nat /\ n = Len(s)
      BY <1>1, <1>2, <1>5
    <3> QED BY <1>3, <2>1, <2>2, <3>1, JoinedSame
  <2>4. x[n + 1] = x[n] \o t[n + 1] /\ x[n + 1] \in Bytestring
    <3>1. n + 1 \in 1 .. Len(t) /\ n + 1 \in 0 .. Len(t) /\ (n + 1) - 1 = n
      BY <1>1, <1>3
    <3> QED BY <2>2, <3>1 DEF Joined
  <2>5. PICK r \in Bytestring : x[Len(t)] = x[n + 1] \o r
    <3> DEFINE k == n + 1
    <3>1. k \in 0 .. Len(t)
      BY <1>1, <1>3
    <3> HIDE DEF k
    <3>2. \E r \in Bytestring : x[Len(t)] = x[k] \o r
      BY <1>1, <2>2, <3>1, JoinedExtends
    <3> QED BY <3>2 DEF k
  <2>6. c \in Bytestring /\ Below(stop, c)
    BY <1>3, CellType, CellsKeepOrder
  <2>7. u \in Bytestring /\ y = u \o c /\ y \in Bytestring
    BY <1>1, <2>3, <2>4
  <2> HIDE DEF c, u, y, stop
  <2>8. u \o stop \in Bytestring /\ Below(u \o stop, y)
    BY <1>1, <2>6, <2>7, BelowAfter, Joins
  <2>9. r \o stop \in Bytestring /\ Below((u \o stop) \o <<>>, y \o (r \o stop))
    BY <1>1, <2>7, <2>8, BelowBefore, Joins, NoBytes
  <2>10. (u \o stop) \o <<>> = u \o stop /\ y \o (r \o stop) = (y \o r) \o stop
    <3>1. stop \in Bytestring
      BY <1>1
    <3>2. (u \o stop) \o <<>> = u \o stop
      BY <2>8, NoBytes
    <3>3. (y \o r) \o stop = y \o (r \o stop)
      <4>1. y \in Bytestring /\ r \in Bytestring
        BY <2>5, <2>7
      <4> QED BY <3>1, <4>1, JoinsAnyhow
    <3> QED BY <3>2, <3>3
  <2>11. Escaped(a) = u \o stop /\ Escaped(b) = (y \o r) \o stop
    BY <1>1, <2>2, <2>3, <2>5 DEF u, y
  <2> QED BY <2>9, <2>10, <2>11
<1> QED BY <1>1, <1>2, <1>4, <1>5

-----------------------------------------------------------------------------
(* encode_value *)

\* A single byte below another.
LEMMA OneByteBelow ==
  ASSUME NEW b \in Int, NEW c \in Int, b < c
  PROVE  Below(<<b>>, <<c>>)
<1>1. Len(<<b>>) = 1 /\ Len(<<c>>) = 1 /\ <<b>>[1] = b /\ <<c>>[1] = c
  OBVIOUS
<1>2. 0 \in Nat /\ 0 + 1 = 1 /\ \A i \in 1 .. 0 : <<b>>[i] = <<c>>[i]
  OBVIOUS
<1> QED BY <1>1, <1>2 DEF Below

\* The scalars by their kind.
LEMMA Kinds ==
  ASSUME NEW v \in ScalarValue
  PROVE  \/ v.kind \in {"Undefined", "Null"} /\ v.data = <<>>
         \/ v.kind = "I64" /\ v \in I64
         \/ v.kind = "F64" /\ v \in F64
         \/ v.kind = "Bool" /\ v.data \in {<<0>>, <<1>>}
         \/ v.kind \in {"String", "Bytes"} /\ v.data \in Bytestring
BY DEF ScalarValue, I64, F64, Bytestring

\* The tag of each kind of value.
LEMMA Tags ==
  /\ Tag["Undefined"] = 0 /\ Tag["Null"] = 1 /\ Tag["I64"] = 2 /\ Tag["F64"] = 3
  /\ Tag["Bool"] = 4 /\ Tag["String"] = 5 /\ Tag["Bytes"] = 6
BY DEF Tag

\* A tag is a byte.
LEMMA TagType ==
  ASSUME NEW v \in ScalarValue
  PROVE  Tag[v.kind] \in 0 .. MaxByte /\ Tag[v.kind] \in Nat
<1>1. v.kind \in {"Undefined", "Null", "I64", "F64", "Bool", "String", "Bytes"}
  BY Kinds
<1> QED BY <1>1, Tags, ByteAssumption

\* Every kind has a tag of its own.
LEMMA TagsDiffer ==
  ASSUME NEW v \in ScalarValue, NEW w \in ScalarValue
  PROVE  Tag[v.kind] = Tag[w.kind] <=> v.kind = w.kind
<1>1. /\ v.kind \in {"Undefined", "Null", "I64", "F64", "Bool", "String", "Bytes"}
      /\ w.kind \in {"Undefined", "Null", "I64", "F64", "Bool", "String", "Bytes"}
  BY Kinds
<1> QED BY <1>1, Tags

\* The word of an integer or a float is one byte, and what it is worth a number.
LEMMA Words ==
  ASSUME NEW v \in I64 \cup F64
  PROVE  \E b \in 0 .. MaxByte, r \in Int : Content(v) = <<b>> /\ Rank(v) = <<r>>
<1>1. /\ Sign \in Nat /\ Sign >= 4 /\ MaxByte = 2 * Sign - 1
      /\ Infinity \in 1 .. Sign - 2 /\ CanonicalNaN \in Infinity + 1 .. Sign - 1
  BY WordSize, FloatAssumption
<1>2. CASE v \in I64
  <2>1. PICK n \in -Sign .. Sign - 1 : v = [kind |-> "I64", data |-> <<n>>]
    BY <1>2 DEF I64
  <2>2. n + Sign \in 0 .. (2 * Sign) - 1 /\ 2 * Sign \in Nat /\ 2 * Sign # 0 /\ n \in Int
    BY <1>1
  <2>3. FlipSign(n) = n + Sign
    <3> HIDE DEF Sign
    <3>1. (n + Sign) % (2 * Sign) = n + Sign
      BY <2>2, Remainder
    <3> QED BY <3>1 DEF FlipSign
  <2>4. Content(v) = <<n + Sign>> /\ Rank(v) = <<n>>
    BY <2>1, <2>3 DEF Content, Rank
  <2>5. n + Sign \in 0 .. MaxByte
    BY <1>1, <2>2
  <2> QED BY <2>2, <2>4, <2>5
<1>3. CASE v \in F64
  <2>1. PICK bits \in 0 .. MaxByte : v = [kind |-> "F64", data |-> <<bits>>]
    BY <1>3 DEF F64
  <2>2. PICK r, o \in Int :
          /\ Rank(v) = <<r>> /\ Content(v) = <<o>>
          /\ \/ r \in 0 .. Infinity /\ o = Sign + r
             \/ r \in -Infinity .. -1 /\ o = Sign - 1 + r
             \/ r = MaxByte /\ o = Sign + CanonicalNaN
    BY <2>1, FloatWord
  <2>3. o \in 0 .. MaxByte
    BY <1>1, <2>2
  <2> QED BY <2>2, <2>3
<1> QED BY <1>2, <1>3

\* encode_value writes bytes.
LEMMA EncodeType ==
  ASSUME NEW v \in ScalarValue
  PROVE  /\ Content(v) \in Bytestring /\ <<Tag[v.kind]>> \in Bytestring
         /\ EncodeValue(v) = <<Tag[v.kind]>> \o Content(v) /\ EncodeValue(v) \in Bytestring
<1>1. Content(v) \in Bytestring
  <2>1. CASE v.kind \in {"Undefined", "Null"} /\ v.data = <<>>
    BY <2>1, NoBytes DEF Content
  <2>2. CASE v \in I64 \cup F64
    <3>1. PICK b \in 0 .. MaxByte : Content(v) = <<b>>
      BY <2>2, Words
    <3> QED BY <3>1, FewBytes
  <2>3. CASE v.kind = "Bool" /\ v.data \in {<<0>>, <<1>>}
    <3>1. Content(v) = v.data
      BY <2>3 DEF Content
    <3>2. 0 \in 0 .. MaxByte /\ 1 \in 0 .. MaxByte
      BY ByteAssumption
    <3>3. <<0>> \in Bytestring /\ <<1>> \in Bytestring
      BY <3>2, FewBytes
    <3> QED BY <2>3, <3>1, <3>3
  <2>4. CASE v.kind \in {"String", "Bytes"} /\ v.data \in Bytestring
    <3>1. Content(v) = Escaped(v.data)
      BY <2>4 DEF Content
    <3> QED BY <2>4, <3>1, CellsType
  <2> QED BY <2>1, <2>2, <2>3, <2>4, Kinds
<1>2. <<Tag[v.kind]>> \in Bytestring
  BY TagType, FewBytes
<1> QED BY <1>1, <1>2, Joins DEF EncodeValue

\* Within a kind the content keeps the order of the values, and any two are ordered.
LEMMA ContentKeepsOrder ==
  ASSUME NEW v \in ScalarValue, NEW w \in ScalarValue, v.kind = w.kind
  PROVE  /\ Less(Rank(v), Rank(w)) => Below(Content(v), Content(w))
         /\ Rank(v) = Rank(w) => Content(v) = Content(w)
         /\ Less(Rank(v), Rank(w)) \/ Rank(v) = Rank(w) \/ Less(Rank(w), Rank(v))
<1>1. CASE v.kind \in {"Undefined", "Null"}
  <2>1. v.data = <<>> /\ w.data = <<>>
    BY <1>1, Kinds
  <2>2. /\ Rank(v) = <<>> /\ Rank(w) = <<>> /\ Content(v) = <<>> /\ Content(w) = <<>>
    BY <1>1, <2>1 DEF Rank, Content
  <2>3. ~Less(<<>>, <<>>)
    BY DEF Less
  <2> QED BY <2>2, <2>3
<1>2. CASE v.kind = "I64"
  <2>1. v \in I64 /\ w \in I64
    BY <1>2, Kinds
  <2>2. PICK b \in 0 .. MaxByte, m \in Int : Content(v) = <<b>> /\ Rank(v) = <<m>>
    BY <2>1, Words
  <2>3. PICK c \in 0 .. MaxByte, n \in Int : Content(w) = <<c>> /\ Rank(w) = <<n>>
    BY <2>1, Words
  <2>4. /\ Less(Content(v), Content(w)) <=> ValueLess(v, w)
        /\ Content(v) = Content(w) <=> SameValue(v, w)
    BY <2>1, IntegersKeepTheirOrder
  <2>5. Less(Rank(v), Rank(w)) => Below(Content(v), Content(w))
    <3> SUFFICES ASSUME Less(Rank(v), Rank(w))
                 PROVE  Below(Content(v), Content(w))
      OBVIOUS
    <3>1. Less(<<b>>, <<c>>)
      BY <2>2, <2>3, <2>4 DEF ValueLess
    <3>2. b < c /\ b \in Int /\ c \in Int
      BY <3>1, OneByteLess
    <3> QED BY <2>2, <2>3, <3>2, OneByteBelow
  <2>6. Rank(v) = Rank(w) => Content(v) = Content(w)
    BY <2>4 DEF SameValue
  <2>7. Less(<<m>>, <<n>>) \/ <<m>> = <<n>> \/ Less(<<n>>, <<m>>)
    <3>1. m < n \/ m = n \/ n < m
      OBVIOUS
    <3> QED BY <3>1, OneByteLess
  <2> QED BY <2>2, <2>3, <2>5, <2>6, <2>7
<1>3. CASE v.kind = "F64"
  <2>1. v \in F64 /\ w \in F64
    BY <1>3, Kinds
  <2>2. PICK b \in 0 .. MaxByte, m \in Int : Content(v) = <<b>> /\ Rank(v) = <<m>>
    BY <2>1, Words
  <2>3. PICK c \in 0 .. MaxByte, n \in Int : Content(w) = <<c>> /\ Rank(w) = <<n>>
    BY <2>1, Words
  <2>4. /\ Less(Content(v), Content(w)) <=> ValueLess(v, w)
        /\ Content(v) = Content(w) <=> SameValue(v, w)
    BY <2>1, FloatsKeepTheirOrder
  <2>5. Less(Rank(v), Rank(w)) => Below(Content(v), Content(w))
    <3> SUFFICES ASSUME Less(Rank(v), Rank(w))
                 PROVE  Below(Content(v), Content(w))
      OBVIOUS
    <3>1. Less(<<b>>, <<c>>)
      BY <2>2, <2>3, <2>4 DEF ValueLess
    <3>2. b < c /\ b \in Int /\ c \in Int
      BY <3>1, OneByteLess
    <3> QED BY <2>2, <2>3, <3>2, OneByteBelow
  <2>6. Rank(v) = Rank(w) => Content(v) = Content(w)
    BY <2>4 DEF SameValue
  <2>7. Less(<<m>>, <<n>>) \/ <<m>> = <<n>> \/ Less(<<n>>, <<m>>)
    <3>1. m < n \/ m = n \/ n < m
      OBVIOUS
    <3> QED BY <3>1, OneByteLess
  <2> QED BY <2>2, <2>3, <2>5, <2>6, <2>7
<1>4. CASE v.kind = "Bool"
  <2>1. v.data \in {<<0>>, <<1>>} /\ w.data \in {<<0>>, <<1>>}
    BY <1>4, Kinds
  <2>2. PICK b \in {0, 1} : v.data = <<b>>
    BY <2>1
  <2>3. PICK c \in {0, 1} : w.data = <<c>>
    BY <2>1
  <2>4. /\ Rank(v) = <<b>> /\ Content(v) = <<b>> /\ Rank(w) = <<c>> /\ Content(w) = <<c>>
        /\ b \in Int /\ c \in Int
    BY <1>4, <2>2, <2>3 DEF Rank, Content
  <2>5. b < c \/ b = c \/ c < b
    BY <2>4
  <2> QED BY <2>4, <2>5, OneByteLess, OneByteBelow
<1>5. CASE v.kind \in {"String", "Bytes"}
  <2>1. v.data \in Bytestring /\ w.data \in Bytestring
    BY <1>5, Kinds
  <2>2. /\ Rank(v) = v.data /\ Rank(w) = w.data
        /\ Content(v) = Escaped(v.data) /\ Content(w) = Escaped(w.data)
    BY <1>5 DEF Rank, Content
  <2>3. Less(v.data, w.data) => Below(Escaped(v.data), Escaped(w.data))
    BY <2>1, EscapedKeepsOrder
  <2>4. Less(v.data, w.data) \/ v.data = w.data \/ Less(w.data, v.data)
    BY <2>1, BytesAreTotal
  <2> QED BY <2>2, <2>3, <2>4
<1> QED BY <1>1, <1>2, <1>3, <1>4, <1>5, Kinds

\* encode_value: the bytes of a lesser value are below those of a greater one, the same
\* value has the same bytes, and of two values that are not the same one is less.
LEMMA ValueKeepsOrder ==
  ASSUME NEW v \in ScalarValue, NEW w \in ScalarValue
  PROVE  /\ ValueLess(v, w) => Below(EncodeValue(v), EncodeValue(w))
         /\ SameValue(v, w) => EncodeValue(v) = EncodeValue(w)
         /\ ValueLess(v, w) \/ SameValue(v, w) \/ ValueLess(w, v)
<1>1. /\ Content(v) \in Bytestring /\ <<Tag[v.kind]>> \in Bytestring
      /\ Content(w) \in Bytestring /\ <<Tag[w.kind]>> \in Bytestring
      /\ EncodeValue(v) = <<Tag[v.kind]>> \o Content(v)
      /\ EncodeValue(w) = <<Tag[w.kind]>> \o Content(w)
      /\ Tag[v.kind] \in Int /\ Tag[w.kind] \in Int
  <2>1. /\ Content(v) \in Bytestring /\ <<Tag[v.kind]>> \in Bytestring
        /\ EncodeValue(v) = <<Tag[v.kind]>> \o Content(v)
    BY EncodeType
  <2>2. /\ Content(w) \in Bytestring /\ <<Tag[w.kind]>> \in Bytestring
        /\ EncodeValue(w) = <<Tag[w.kind]>> \o Content(w)
    BY EncodeType
  <2>3. Tag[v.kind] \in Int /\ Tag[w.kind] \in Int
    BY TagType
  <2> QED BY <2>1, <2>2, <2>3
<1>2. CASE v.kind = w.kind
  <2>1. /\ Less(Rank(v), Rank(w)) => Below(Content(v), Content(w))
        /\ Rank(v) = Rank(w) => Content(v) = Content(w)
        /\ Less(Rank(v), Rank(w)) \/ Rank(v) = Rank(w) \/ Less(Rank(w), Rank(v))
    BY <1>2, ContentKeepsOrder
  <2>2. ~(Tag[v.kind] < Tag[w.kind]) /\ ~(Tag[w.kind] < Tag[v.kind])
    BY <1>1, <1>2
  <2>3. ASSUME ValueLess(v, w)
        PROVE  Below(EncodeValue(v), EncodeValue(w))
    <3> DEFINE a == Content(v)
               b == Content(w)
               tag == <<Tag[v.kind]>>
    <3>1. a \in Bytestring /\ b \in Bytestring /\ tag \in Bytestring /\ Below(a, b)
      BY <1>1, <2>1, <2>2, <2>3 DEF ValueLess
    <3>2. EncodeValue(v) = tag \o a /\ EncodeValue(w) = tag \o b
      BY <1>1, <1>2
    <3> HIDE DEF a, b, tag
    <3> QED BY <3>1, <3>2, BelowAfter
  <2> QED BY <1>1, <1>2, <2>1, <2>3 DEF SameValue, ValueLess
<1>3. CASE v.kind # w.kind
  <2>1. Tag[v.kind] < Tag[w.kind] \/ Tag[w.kind] < Tag[v.kind]
    BY <1>1, <1>3, TagsDiffer
  <2>2. ASSUME Tag[v.kind] < Tag[w.kind]
        PROVE  Below(EncodeValue(v), EncodeValue(w))
    <3> DEFINE a == <<Tag[v.kind]>>
               b == <<Tag[w.kind]>>
               p == Content(v)
               q == Content(w)
    <3>1. a \in Bytestring /\ b \in Bytestring /\ p \in Bytestring /\ q \in Bytestring
      BY <1>1
    <3>2. Below(a, b)
      BY <1>1, <2>2, OneByteBelow
    <3>3. EncodeValue(v) = a \o p /\ EncodeValue(w) = b \o q
      BY <1>1
    <3> HIDE DEF a, b, p, q
    <3> QED BY <3>1, <3>2, <3>3, BelowBefore
  <2> QED BY <1>3, <2>1, <2>2 DEF SameValue, ValueLess
<1> QED BY <1>2, <1>3

-----------------------------------------------------------------------------
(* encode_entry *)

Fields == Seq(ScalarValue)

\* The bytes of an entry, field by field.
Encoded(e) == [i \in DOMAIN e |-> EncodeValue(e[i])]

\* An entry is encoded field by field.
LEMMA EncodedType ==
  ASSUME NEW e \in Fields
  PROVE  /\ Encoded(e) \in Seq(Bytestring) /\ Len(Encoded(e)) = Len(e) /\ Len(e) \in Nat
         /\ \A i \in 1 .. Len(e) : Encoded(e)[i] = EncodeValue(e[i]) /\ e[i] \in ScalarValue
         /\ EncodeEntry(e) = FlattenSeq(Encoded(e)) /\ EncodeEntry(e) \in Bytestring
<1>1. Len(e) \in Nat /\ DOMAIN e = 1 .. Len(e) /\ \A i \in 1 .. Len(e) : e[i] \in ScalarValue
  <2> DEFINE V == ScalarValue
  <2>1. e \in Seq(V)
    BY DEF Fields
  <2> HIDE DEF V
  <2>2. Len(e) \in Nat /\ DOMAIN e = 1 .. Len(e) /\ \A i \in 1 .. Len(e) : e[i] \in V
    BY <2>1
  <2> QED BY <2>2 DEF V
<1>2. Encoded(e) = [i \in 1 .. Len(e) |-> EncodeValue(e[i])]
  BY <1>1 DEF Encoded
<1>3. \A i \in 1 .. Len(e) : EncodeValue(e[i]) \in Bytestring
  BY <1>1, EncodeType
<1>4. /\ Encoded(e) \in Seq(Bytestring) /\ Len(Encoded(e)) = Len(e)
      /\ \A i \in 1 .. Len(e) : Encoded(e)[i] = EncodeValue(e[i])
  BY <1>1, <1>2, <1>3
<1>5. EncodeEntry(e) = FlattenSeq(Encoded(e))
  BY DEF EncodeEntry, Encoded
<1>6. EncodeEntry(e) \in Bytestring
  BY <1>4, <1>5, FlattenIsBytes
<1> QED BY <1>1, <1>4, <1>5, <1>6

\* e and f hold the same values in their first fields.
Agree(e, f, n) == \A i \in 1 .. n : SameValue(e[i], f[i])

\* The first k-1 fields agree, and e's field k is less than f's.
LessAt(e, f, k) == Agree(e, f, k - 1) /\ ValueLess(e[k], f[k])

\* The first field that differs decides the order of the keys.
LEMMA EntryBelow ==
  ASSUME NEW e \in Fields, NEW f \in Fields, NEW k \in 1 .. Len(e), k <= Len(f), LessAt(e, f, k)
  PROVE  Below(EncodeEntry(e), EncodeEntry(f))
<1> DEFINE s == Encoded(e)
           t == Encoded(f)
<1>1. /\ s \in Seq(Bytestring) /\ Len(s) = Len(e) /\ Len(e) \in Nat
      /\ \A i \in 1 .. Len(e) : s[i] = EncodeValue(e[i]) /\ e[i] \in ScalarValue
      /\ EncodeEntry(e) = FlattenSeq(s)
  BY EncodedType
<1>2. /\ t \in Seq(Bytestring) /\ Len(t) = Len(f) /\ Len(f) \in Nat
      /\ \A i \in 1 .. Len(f) : t[i] = EncodeValue(f[i]) /\ f[i] \in ScalarValue
      /\ EncodeEntry(f) = FlattenSeq(t)
  BY EncodedType
<1> HIDE DEF s, t
<1>3. k \in 1 .. Len(f) /\ k \in 1 .. Len(s) /\ k <= Len(t)
  BY <1>1, <1>2
<1>4. \A i \in 1 .. k - 1 : s[i] = t[i]
  <2> SUFFICES ASSUME NEW i \in 1 .. k - 1
               PROVE  s[i] = t[i]
    OBVIOUS
  <2>1. i \in 1 .. Len(e) /\ i \in 1 .. Len(f)
    BY <1>1, <1>2, <1>3
  <2>2. SameValue(e[i], f[i])
    BY DEF LessAt, Agree
  <2> QED BY <1>1, <1>2, <2>1, <2>2, ValueKeepsOrder
<1>5. Below(s[k], t[k])
  <2>1. ValueLess(e[k], f[k])
    BY DEF LessAt
  <2> QED BY <1>1, <1>2, <1>3, <2>1, ValueKeepsOrder
<1>6. Below(FlattenSeq(s), FlattenSeq(t))
  BY <1>1, <1>2, <1>3, <1>4, <1>5, FlattenBelow
<1> QED BY <1>1, <1>2, <1>6

\* The key of the first fields begins the entry's, and is all of it when no field follows.
LEMMA EntryBegins ==
  ASSUME NEW e \in Fields, NEW f \in Fields, Len(e) <= Len(f), Agree(e, f, Len(e))
  PROVE  /\ \E r \in Bytestring : EncodeEntry(f) = EncodeEntry(e) \o r
         /\ Len(e) = Len(f) => EncodeEntry(f) = EncodeEntry(e)
<1> DEFINE s == Encoded(e)
           t == Encoded(f)
<1>1. /\ s \in Seq(Bytestring) /\ Len(s) = Len(e) /\ Len(e) \in Nat
      /\ \A i \in 1 .. Len(e) : s[i] = EncodeValue(e[i]) /\ e[i] \in ScalarValue
      /\ EncodeEntry(e) = FlattenSeq(s)
  BY EncodedType
<1>2. /\ t \in Seq(Bytestring) /\ Len(t) = Len(f) /\ Len(f) \in Nat
      /\ \A i \in 1 .. Len(f) : t[i] = EncodeValue(f[i]) /\ f[i] \in ScalarValue
      /\ EncodeEntry(f) = FlattenSeq(t)
  BY EncodedType
<1> HIDE DEF s, t
<1>3. \A i \in 1 .. Len(e) : s[i] = t[i]
  <2> SUFFICES ASSUME NEW i \in 1 .. Len(e)
               PROVE  s[i] = t[i]
    OBVIOUS
  <2>1. i \in 1 .. Len(f)
    BY <1>1, <1>2
  <2>2. SameValue(e[i], f[i])
    BY DEF Agree
  <2> QED BY <1>1, <1>2, <2>1, <2>2, ValueKeepsOrder
<1>4. /\ \E r \in Bytestring : FlattenSeq(t) = FlattenSeq(s) \o r
      /\ Len(s) = Len(t) => FlattenSeq(t) = FlattenSeq(s)
  <2>1. Len(s) <= Len(t) /\ \A i \in 1 .. Len(s) : s[i] = t[i]
    BY <1>1, <1>2, <1>3
  <2> QED BY <1>1, <1>2, <2>1, FlattenBegins
<1> QED BY <1>1, <1>2, <1>4

\* The fields of the shorter entry agree with the other's, or a first one does not.
LEMMA EntriesCompare ==
  ASSUME NEW e \in Fields, NEW f \in Fields, Len(e) <= Len(f)
  PROVE  \/ Agree(e, f, Len(e))
         \/ \E k \in 1 .. Len(e) : LessAt(e, f, k) \/ LessAt(f, e, k)
<1>1. /\ Len(e) \in Nat /\ \A i \in 1 .. Len(e) : e[i] \in ScalarValue
      /\ Len(f) \in Nat /\ \A i \in 1 .. Len(f) : f[i] \in ScalarValue
  BY EncodedType
<1> SUFFICES ASSUME ~Agree(e, f, Len(e))
             PROVE  \E k \in 1 .. Len(e) : LessAt(e, f, k) \/ LessAt(f, e, k)
  OBVIOUS
<1> DEFINE D == {i \in 1 .. Len(e) : ~SameValue(e[i], f[i])}
<1>2. D \in SUBSET Nat /\ D # {}
  BY <1>1 DEF Agree
<1>3. PICK k \in D : \A i \in D : k <= i
  <2> HIDE DEF D
  <2> QED BY <1>2, LeastExists
<1>4. k \in 1 .. Len(e) /\ k \in 1 .. Len(f) /\ ~SameValue(e[k], f[k])
  BY <1>1, <1>3
<1>5. ASSUME NEW i \in 1 .. k - 1
      PROVE  SameValue(e[i], f[i])
  <2>1. i \in 1 .. Len(e) /\ i \notin D
    BY <1>1, <1>3, <1>4
  <2> QED BY <2>1
<1>6. Agree(e, f, k - 1) /\ Agree(f, e, k - 1)
  BY <1>5 DEF Agree, SameValue
<1>7. ValueLess(e[k], f[k]) \/ ValueLess(f[k], e[k])
  BY <1>1, <1>4, ValueKeepsOrder
<1> QED BY <1>4, <1>6, <1>7 DEF LessAt

\* The order of two values excludes the others.
LEMMA OneOrder ==
  ASSUME NEW v \in ScalarValue, NEW w \in ScalarValue
  PROVE  /\ ValueLess(v, w) => ~ValueLess(w, v) /\ ~SameValue(v, w) /\ ~SameValue(w, v)
         /\ SameValue(v, w) <=> SameValue(w, v)
<1>1. EncodeValue(v) \in Bytestring /\ EncodeValue(w) \in Bytestring
  BY EncodeType
<1>2. ASSUME ValueLess(v, w)
      PROVE  ~ValueLess(w, v) /\ ~SameValue(v, w) /\ ~SameValue(w, v)
  <2>1. Below(EncodeValue(v), EncodeValue(w))
    BY <1>2, ValueKeepsOrder
  <2>2. ~Less(EncodeValue(w), EncodeValue(v)) /\ EncodeValue(v) # EncodeValue(w)
    BY <1>1, <2>1, BelowIsLess
  <2>3. ~Below(EncodeValue(w), EncodeValue(v))
    BY <1>1, <2>2, BelowIsLess
  <2> QED BY <2>2, <2>3, ValueKeepsOrder
<1> QED BY <1>2 DEF SameValue

-----------------------------------------------------------------------------
(* The builder *)

\* The stages of the builder leave room for the field that is bounded, and a built range
\* is the one of the values and bounds given.
BuilderInv ==
  /\ eq \in Seq(FieldValue) /\ Len(eq) <= FieldCount
  /\ lower # None => lower \in [op : {"Gt", "Gte"}, value : FieldValue] /\ Len(eq) < FieldCount
  /\ upper # None => upper \in [op : {"Lt", "Lte"}, value : FieldValue] /\ Len(eq) < FieldCount
  /\ range.kind = "Keys" =>
       Encodable /\ range = [kind |-> "Keys", lower |-> LowerEnd(eq, lower),
                             upper |-> UpperEnd(eq, upper)]

\* A new builder holds no bound.
LEMMA InitBuilder == Init => BuilderInv
<1> SUFFICES ASSUME Init PROVE BuilderInv
  OBVIOUS
<1>1. eq = <<>> /\ lower = None /\ upper = None /\ range.kind = "Unbuilt"
  BY DEF Init, Unbuilt
<1>2. <<>> \in Seq(FieldValue) /\ Len(<<>>) = 0 /\ 0 <= FieldCount
  BY FieldCountAssumption
<1> QED BY <1>1, <1>2 DEF BuilderInv

\* Every builder call keeps the bounds scalar and within the fields of the index.
LEMMA NextBuilder == BuilderInv /\ [Next]_vars => BuilderInv'
<1> SUFFICES ASSUME BuilderInv, [Next]_vars
             PROVE  BuilderInv'
  OBVIOUS
<1>1. /\ eq \in Seq(FieldValue) /\ Len(eq) <= FieldCount /\ Len(eq) \in Nat
      /\ FieldCount \in Nat
  BY FieldCountAssumption DEF BuilderInv
<1>2. ASSUME NEW v \in FieldValue, Eq(v)
      PROVE  BuilderInv'
  <2>1. /\ range' = Unbuilt /\ lower' = None /\ upper' = None
        /\ eq' = Append(eq, v) /\ Len(eq) < FieldCount
    BY <1>2 DEF Eq
  <2>2. eq' \in Seq(FieldValue) /\ Len(eq') = Len(eq) + 1
    BY <1>1, <2>1
  <2>3. Len(eq') <= FieldCount
    BY <1>1, <2>1, <2>2
  <2> QED BY <2>1, <2>2, <2>3 DEF BuilderInv, Unbuilt
<1>3. ASSUME NEW op \in {"Gt", "Gte"}, NEW v \in FieldValue, LowerBound(op, v)
      PROVE  BuilderInv'
  <2>1. /\ range' = Unbuilt /\ lower' = [op |-> op, value |-> v] /\ Len(eq) < FieldCount
        /\ eq' = eq /\ upper' = upper
    BY <1>3 DEF LowerBound
  <2> QED BY <1>1, <2>1 DEF BuilderInv, Unbuilt
<1>4. ASSUME NEW op \in {"Lt", "Lte"}, NEW v \in FieldValue, UpperBound(op, v)
      PROVE  BuilderInv'
  <2>1. /\ range' = Unbuilt /\ upper' = [op |-> op, value |-> v] /\ Len(eq) < FieldCount
        /\ eq' = eq /\ lower' = lower
    BY <1>4 DEF UpperBound
  <2> QED BY <1>1, <2>1 DEF BuilderInv, Unbuilt
<1>5. ASSUME BuildWithIndex
      PROVE  BuilderInv'
  <2>1. /\ eq' = eq /\ lower' = lower /\ upper' = upper
        /\ range' = IF Encodable
                    THEN [kind |-> "Keys", lower |-> LowerEnd(eq, lower), upper |-> UpperEnd(eq, upper)]
                    ELSE NotAScalar
    BY <1>5 DEF BuildWithIndex
  <2>2. Encodable' <=> Encodable
    BY <2>1 DEF Encodable
  <2>3. CASE Encodable
    <3>1. range' = [kind |-> "Keys", lower |-> LowerEnd(eq', lower'), upper |-> UpperEnd(eq', upper')]
      BY <2>1, <2>3
    <3> QED BY <2>1, <2>2, <2>3, <3>1 DEF BuilderInv
  <2>4. CASE ~Encodable
    <3>1. range'.kind = "NotAScalar"
      BY <2>1, <2>4 DEF NotAScalar
    <3> QED BY <2>1, <3>1 DEF BuilderInv
  <2> QED BY <2>3, <2>4
<1>6. CASE UNCHANGED vars
  BY <1>6 DEF BuilderInv, Encodable, vars
<1> QED BY <1>2, <1>3, <1>4, <1>5, <1>6 DEF Next

\* The builder holds scalar bounds in every state.
LEMMA Builder == Spec => []BuilderInv
BY InitBuilder, NextBuilder, PTL DEF Spec

\* The scalars a query or a document holds are those the encoding knows.
LEMMA ScalarsOnly == /\ \A v \in FieldValue : Scalar(v) => v \in ScalarValue
                     /\ StoredValue \subseteq ScalarValue
BY QueryAssumption

\* The values a built range was made from are scalars.
LEMMA BuiltFromScalars ==
  ASSUME BuilderInv, range.kind = "Keys"
  PROVE  /\ eq \in Fields /\ Len(eq) \in Nat /\ Len(eq) <= FieldCount
         /\ lower # None => /\ lower.op \in {"Gt", "Gte"} /\ lower.value \in ScalarValue
                            /\ Len(eq) < FieldCount
         /\ upper # None => /\ upper.op \in {"Lt", "Lte"} /\ upper.value \in ScalarValue
                            /\ Len(eq) < FieldCount
         /\ range.lower = LowerEnd(eq, lower) /\ range.upper = UpperEnd(eq, upper)
<1>1. eq \in Seq(FieldValue) /\ Len(eq) \in Nat /\ DOMAIN eq = 1 .. Len(eq) /\ Encodable
  BY DEF BuilderInv
<1>2. \A i \in 1 .. Len(eq) : eq[i] \in FieldValue /\ Scalar(eq[i])
  BY <1>1 DEF Encodable
<1>3. eq \in Fields
  <2> DEFINE V == ScalarValue
  <2>1. \A i \in 1 .. Len(eq) : eq[i] \in V
    BY <1>2, ScalarsOnly
  <2> HIDE DEF V
  <2>2. eq \in Seq(V)
    BY <1>1, <2>1
  <2> QED BY <2>2 DEF V, Fields
<1>4. lower # None => /\ lower.op \in {"Gt", "Gte"} /\ lower.value \in ScalarValue
                      /\ Len(eq) < FieldCount
  BY <1>1, ScalarsOnly DEF BuilderInv, Encodable
<1>5. upper # None => /\ upper.op \in {"Lt", "Lte"} /\ upper.value \in ScalarValue
                      /\ Len(eq) < FieldCount
  BY <1>1, ScalarsOnly DEF BuilderInv, Encodable
<1>6. range.lower = LowerEnd(eq, lower) /\ range.upper = UpperEnd(eq, upper)
  BY DEF BuilderInv
<1> QED BY <1>1, <1>3, <1>4, <1>5, <1>6 DEF BuilderInv

\* An entry has a scalar for every field of the index.
LEMMA EntryType ==
  ASSUME NEW entry \in Entry
  PROVE  /\ entry \in Fields /\ Len(entry) = FieldCount /\ FieldCount \in Nat
         /\ \A i \in 1 .. FieldCount : entry[i] \in ScalarValue
<1>1. FieldCount \in Nat /\ entry \in [1 .. FieldCount -> StoredValue]
  BY FieldCountAssumption DEF Entry
<1> DEFINE V == ScalarValue
<1>2. \A i \in 1 .. FieldCount : entry[i] \in V
  BY <1>1, ScalarsOnly
<1> HIDE DEF V
<1>3. entry \in Seq(V) /\ Len(entry) = FieldCount
  <2>1. entry = [i \in 1 .. FieldCount |-> entry[i]]
    BY <1>1
  <2> QED BY <1>1, <1>2, <2>1
<1> QED BY <1>1, <1>2, <1>3 DEF V, Fields

\* encode_entry: comparing two encoded entries byte by byte orders them as their fields
\* do, and only equal entries share a key, whatever the fields hold.
THEOREM KeysFollowFields == Spec => []KeysOrderEntries
<1>1. BuilderInv => KeysOrderEntries
  <2> SUFFICES ASSUME BuilderInv, range.kind = "Keys", Len(eq) = FieldCount, NEW entry \in Entry
               PROVE  /\ Less(EncodeEntry(eq), EncodeEntry(entry)) <=> EntryLess(eq, entry)
                      /\ EncodeEntry(eq) = EncodeEntry(entry) <=> SameEntry(eq, entry)
    BY DEF KeysOrderEntries
  <2>1. /\ eq \in Fields /\ Len(eq) \in Nat /\ entry \in Fields /\ Len(entry) = Len(eq)
        /\ Len(eq) <= Len(entry) /\ DOMAIN eq = 1 .. Len(eq)
    <3>1. eq \in Fields /\ entry \in Fields /\ Len(entry) = Len(eq) /\ Len(eq) \in Nat
      BY BuiltFromScalars, EntryType
    <3>2. DOMAIN eq = 1 .. Len(eq)
      BY DEF BuilderInv
    <3> QED BY <3>1, <3>2
  <2> DEFINE a == EncodeEntry(eq)
             b == EncodeEntry(entry)
  <2>2. a \in Bytestring /\ b \in Bytestring
    BY <2>1, EncodedType
  <2>3. SameEntry(eq, entry) <=> Agree(eq, entry, Len(eq))
    BY <2>1 DEF SameEntry, Agree
  <2>4. EntryLess(eq, entry) <=> \E k \in 1 .. Len(eq) : LessAt(eq, entry, k)
    BY <2>1 DEF EntryLess, LessAt, Agree
  <2>5. \A k \in 1 .. Len(eq) :
          /\ LessAt(eq, entry, k) => Below(a, b)
          /\ LessAt(entry, eq, k) => Below(b, a)
    BY <2>1, EntryBelow
  <2>6. Agree(eq, entry, Len(eq)) => a = b
    BY <2>1, EntryBegins
  <2>7. \/ Agree(eq, entry, Len(eq))
        \/ \E k \in 1 .. Len(eq) : LessAt(eq, entry, k) \/ LessAt(entry, eq, k)
    BY <2>1, EntriesCompare
  <2> HIDE DEF a, b
  <2>8. /\ Below(a, b) => Less(a, b) /\ ~Less(b, a) /\ a # b
        /\ Below(b, a) => Less(b, a) /\ ~Less(a, b) /\ a # b
        /\ a = b => ~Less(a, b)
    <3>1. ~Less(a, a)
      <4>1. Begins(a, a)
        BY <2>2, Bytes DEF Begins
      <4> QED BY <2>2, <4>1, ExtensionsAreNotBelow
    <3> QED BY <2>2, <3>1, BelowIsLess
  <2>9. /\ Less(a, b) <=> \E k \in 1 .. Len(eq) : LessAt(eq, entry, k)
        /\ a = b <=> Agree(eq, entry, Len(eq))
    BY <2>5, <2>6, <2>7, <2>8
  <2> QED BY <2>3, <2>4, <2>9 DEF a, b
<1> QED BY <1>1, Builder, PTL

-----------------------------------------------------------------------------
(* The built range *)

\* Where an entry lies whose first fields agree with those of a shorter one.
LEMMA BelowIsOutside ==
  ASSUME NEW s \in Bytestring, NEW t \in Bytestring, Below(s, t)
  PROVE  ~Begins(s, t)
<1>1. PICK n \in Nat :
        /\ n < Len(s) /\ n < Len(t)
        /\ s[n + 1] < t[n + 1]
  BY DEF Below
<1>2. Len(s) \in Nat /\ n + 1 \in 1 .. Len(s) /\ s[n + 1] \in Nat
  <2>1. Len(s) \in Nat /\ n + 1 \in 1 .. Len(s)
    BY <1>1, Bytes
  <2> QED BY <2>1, Bytes
<1> QED BY <1>1, <1>2 DEF Begins

\* An equality and the bound after it, as the fields of one entry.
LEMMA Bounded ==
  ASSUME NEW e \in Fields, NEW f \in Fields, NEW v \in ScalarValue, Len(e) < Len(f),
         Agree(e, f, Len(e))
  PROVE  LET p == Append(e, v)
             n == Len(e) + 1
         IN /\ p \in Fields /\ Len(p) = n /\ n \in 1 .. Len(f)
            /\ EncodeEntry(p) \in Bytestring
            /\ f[n] \in ScalarValue
            /\ ValueLess(f[n], v) => Below(EncodeEntry(f), EncodeEntry(p))
            /\ ValueLess(v, f[n]) => Below(EncodeEntry(p), EncodeEntry(f))
            /\ SameValue(f[n], v) =>
                 /\ \E r \in Bytestring : EncodeEntry(f) = EncodeEntry(p) \o r
                 /\ Len(f) = n => EncodeEntry(f) = EncodeEntry(p)
<1> DEFINE p == Append(e, v)
           n == Len(e) + 1
<1>1. /\ Len(e) \in Nat /\ Len(f) \in Nat
      /\ \A i \in 1 .. Len(e) : e[i] \in ScalarValue
      /\ \A i \in 1 .. Len(f) : f[i] \in ScalarValue
  BY EncodedType
<1>2. /\ p \in Fields /\ Len(p) = n /\ p[n] = v /\ \A i \in 1 .. Len(e) : p[i] = e[i]
  <2> DEFINE V == ScalarValue
  <2>1. e \in Seq(V) /\ v \in V
    BY DEF Fields
  <2> HIDE DEF V
  <2>2. p \in Seq(V) /\ Len(p) = n /\ p[n] = v /\ \A i \in 1 .. Len(e) : p[i] = e[i]
    BY <2>1, <1>1
  <2> QED BY <2>2 DEF V, Fields
<1>3. n \in 1 .. Len(f) /\ f[n] \in ScalarValue
  <2>1. n \in 1 .. Len(f)
    BY <1>1
  <2> QED BY <1>1, <2>1
<1>4. Agree(p, f, n - 1) /\ Agree(f, p, n - 1) /\ n - 1 = Len(e) /\ n \in Nat
  BY <1>1, <1>2 DEF Agree, SameValue
<1> HIDE DEF p, n
<1>5. n \in 1 .. Len(p) /\ n <= Len(f) /\ n <= Len(p) /\ Len(p) <= Len(f)
  BY <1>2, <1>3, <1>4
<1>6. EncodeEntry(p) \in Bytestring
  BY <1>2, EncodedType
<1>7. ASSUME ValueLess(f[n], v)
      PROVE  Below(EncodeEntry(f), EncodeEntry(p))
  <2>1. LessAt(f, p, n)
    BY <1>2, <1>4, <1>7 DEF LessAt
  <2> QED BY <1>2, <1>3, <1>5, <2>1, EntryBelow
<1>8. ASSUME ValueLess(v, f[n])
      PROVE  Below(EncodeEntry(p), EncodeEntry(f))
  <2>1. LessAt(p, f, n)
    BY <1>2, <1>4, <1>8 DEF LessAt
  <2> QED BY <1>2, <1>3, <1>5, <2>1, EntryBelow
<1>9. ASSUME SameValue(f[n], v)
      PROVE  /\ \E r \in Bytestring : EncodeEntry(f) = EncodeEntry(p) \o r
             /\ Len(f) = n => EncodeEntry(f) = EncodeEntry(p)
  <2>1. Agree(p, f, Len(p))
    <3> SUFFICES ASSUME NEW i \in 1 .. n
                 PROVE  SameValue(p[i], f[i])
      BY <1>2 DEF Agree
    <3>1. CASE i = n
      BY <1>2, <1>9, <3>1 DEF SameValue
    <3>2. CASE i # n
      <4>1. i \in 1 .. n - 1
        BY <1>4, <3>2
      <4> QED BY <1>4, <4>1 DEF Agree
    <3> QED BY <3>1, <3>2
  <2> QED BY <1>2, <1>5, <2>1, EntryBegins
<1> QED BY <1>2, <1>3, <1>6, <1>7, <1>8, <1>9 DEF p, n

\* A field that differs from its equality puts the entry's key outside the range.
LEMMA OtherFieldsAreOutside ==
  ASSUME BuilderInv, range.kind = "Keys", NEW entry \in Entry, NEW k \in 1 .. Len(eq),
         LessAt(eq, entry, k) \/ LessAt(entry, eq, k)
  PROVE  ~InRange(EncodeEntry(entry)) /\ ~Asked(entry)
<1> DEFINE key == EncodeEntry(entry)
<1>1. /\ eq \in Fields /\ Len(eq) \in Nat /\ Len(eq) <= FieldCount
      /\ lower # None => lower.op \in {"Gt", "Gte"} /\ lower.value \in ScalarValue
      /\ upper # None => upper.op \in {"Lt", "Lte"} /\ upper.value \in ScalarValue
      /\ range.lower = LowerEnd(eq, lower) /\ range.upper = UpperEnd(eq, upper)
      /\ entry \in Fields /\ Len(entry) = FieldCount /\ FieldCount \in Nat
      /\ \A i \in 1 .. FieldCount : entry[i] \in ScalarValue
      /\ \A i \in 1 .. Len(eq) : eq[i] \in ScalarValue
      /\ DOMAIN eq = 1 .. Len(eq) /\ eq # <<>>
  <2>1. \A i \in 1 .. Len(eq) : eq[i] \in ScalarValue
    BY BuiltFromScalars, EncodedType
  <2>2. DOMAIN eq = 1 .. Len(eq) /\ eq # <<>>
    <3>1. eq \in Seq(FieldValue)
      BY DEF BuilderInv
    <3> QED BY <3>1
  <2> QED BY <2>1, <2>2, BuiltFromScalars, EntryType
<1>2. k \in 1 .. FieldCount /\ eq[k] \in ScalarValue /\ entry[k] \in ScalarValue /\ k <= FieldCount
  <2>1. k \in 1 .. FieldCount
    BY <1>1
  <2> QED BY <1>1, <2>1
<1>3. ~Asked(entry)
  <2>1. ValueLess(eq[k], entry[k]) \/ ValueLess(entry[k], eq[k])
    BY DEF LessAt
  <2>2. ~SameValue(entry[k], eq[k])
    BY <1>2, <2>1, OneOrder
  <2> QED BY <1>1, <2>2 DEF Asked
<1>4. key \in Bytestring /\ EncodeEntry(eq) \in Bytestring
  BY <1>1, EncodedType
\* With or without a bound after them, the equalities put the key on one side.
<1>5. ASSUME NEW p \in Fields, Len(eq) <= Len(p), \A i \in 1 .. Len(eq) : p[i] = eq[i]
      PROVE  /\ EncodeEntry(p) \in Bytestring
             /\ LessAt(entry, eq, k) => Below(key, EncodeEntry(p))
             /\ LessAt(eq, entry, k) => Below(EncodeEntry(p), key)
  <2>1. EncodeEntry(p) \in Bytestring /\ Len(p) \in Nat
    BY EncodedType
  <2>2. k \in 1 .. Len(p) /\ k <= Len(p) /\ k \in 1 .. Len(entry) /\ k <= Len(entry)
    BY <1>1, <1>2, <1>5, <2>1
  <2>3. \A i \in 1 .. k : p[i] = eq[i]
    BY <1>1, <1>5
  <2>4. /\ LessAt(entry, eq, k) => LessAt(entry, p, k)
        /\ LessAt(eq, entry, k) => LessAt(p, entry, k)
    <3>1. k \in 1 .. k /\ \A i \in 1 .. k - 1 : i \in 1 .. k
      OBVIOUS
    <3> QED BY <2>3, <3>1 DEF LessAt, Agree
  <2> QED BY <1>1, <2>1, <2>2, <2>4, EntryBelow
<1>6. ASSUME NEW v \in ScalarValue
      PROVE  LET p == Append(eq, v)
             IN /\ EncodeEntry(p) \in Bytestring
                /\ LessAt(entry, eq, k) => Below(key, EncodeEntry(p))
                /\ LessAt(eq, entry, k) => Below(EncodeEntry(p), key)
  <2> DEFINE p == Append(eq, v)
             V == ScalarValue
  <2>1. eq \in Seq(V) /\ v \in V
    BY <1>1 DEF Fields
  <2> HIDE DEF V
  <2>2. p \in Seq(V) /\ Len(eq) <= Len(p) /\ \A i \in 1 .. Len(eq) : p[i] = eq[i]
    BY <2>1, <1>1
  <2>3. p \in Fields
    BY <2>2 DEF V, Fields
  <2> HIDE DEF p
  <2>4. /\ EncodeEntry(p) \in Bytestring
        /\ LessAt(entry, eq, k) => Below(key, EncodeEntry(p))
        /\ LessAt(eq, entry, k) => Below(EncodeEntry(p), key)
    BY <1>5, <2>2, <2>3
  <2> QED BY <2>4 DEF p
<1>7. /\ LessAt(entry, eq, k) => Below(key, EncodeEntry(eq))
      /\ LessAt(eq, entry, k) => Below(EncodeEntry(eq), key)
  BY <1>1, <1>5
<1> HIDE DEF key
<1>8. CASE LessAt(entry, eq, k)
  <2>1. ASSUME NEW x \in Bytestring, Below(key, x)
        PROVE  ~Less(x, key) /\ key # x
    BY <1>4, <2>1, BelowIsLess
  <2>2. CASE lower # None
    <3> DEFINE x == EncodeEntry(Append(eq, lower.value))
    <3>1. x \in Bytestring /\ Below(key, x)
      BY <1>1, <1>6, <1>8, <2>2
    <3>2. range.lower.key = x /\ range.lower.kind \in {"Excluded", "Included"}
      BY <1>1, <2>2 DEF LowerEnd
    <3> HIDE DEF x
    <3> QED BY <1>3, <2>1, <3>1, <3>2 DEF InRange, AfterLower, key
  <2>3. CASE lower = None
    <3> DEFINE x == EncodeEntry(eq)
    <3>1. x \in Bytestring /\ Below(key, x)
      BY <1>4, <1>7, <1>8
    <3>2. range.lower.key = x /\ range.lower.kind = "Included"
      BY <1>1, <2>3 DEF LowerEnd
    <3> HIDE DEF x
    <3> QED BY <1>3, <2>1, <3>1, <3>2 DEF InRange, AfterLower, key
  <2> QED BY <2>2, <2>3
<1>9. CASE LessAt(eq, entry, k)
  <2>1. ASSUME NEW x \in Bytestring, Below(x, key)
        PROVE  ~Less(key, x) /\ key # x
    BY <1>4, <2>1, BelowIsLess
  <2>2. CASE upper # None
    <3> DEFINE x == EncodeEntry(Append(eq, upper.value))
    <3>1. x \in Bytestring /\ Below(x, key)
      BY <1>1, <1>6, <1>9, <2>2
    <3>2. range.upper.key = x /\ range.upper.kind \in {"Excluded", "Included"}
      BY <1>1, <2>2 DEF UpperEnd
    <3> HIDE DEF x
    <3> QED BY <1>3, <2>1, <3>1, <3>2 DEF InRange, BeforeUpper, key
  <2>3. CASE upper = None
    <3> DEFINE x == EncodeEntry(eq)
               end == PrefixSuccessor(x)
    <3>1. x \in Bytestring /\ Below(x, key)
      BY <1>4, <1>7, <1>9
    <3>2. ~Begins(x, key) /\ ~Less(key, x)
      BY <1>4, <2>1, <3>1, BelowIsOutside
    <3>3. range.upper = end
      BY <1>1, <2>3 DEF UpperEnd
    <3> HIDE DEF x
    <3>4. end.kind = "Excluded" /\ ~Less(key, end.key)
      BY <1>4, <3>1, <3>2, PrefixRangeIsExact
    <3> HIDE DEF end
    <3> QED BY <1>3, <3>3, <3>4 DEF InRange, BeforeUpper, key
  <2> QED BY <2>2, <2>3
<1> QED BY <1>8, <1>9

\* Among the entries that hold the values asked for, the lower end keeps those whose next
\* field satisfies the lower bound.
LEMMA LowerEndIsExact ==
  ASSUME BuilderInv, range.kind = "Keys", NEW entry \in Entry, Agree(eq, entry, Len(eq)),
         lower.op = "Gt" => Len(eq) = FieldCount - 1
  PROVE  AfterLower(EncodeEntry(entry)) <=>
           (Len(eq) < FieldCount => AboveLower(entry[Len(eq) + 1]))
<1> DEFINE key == EncodeEntry(entry)
           n == Len(eq) + 1
<1>1. /\ eq \in Fields /\ Len(eq) \in Nat /\ Len(eq) <= FieldCount
      /\ lower # None => /\ lower.op \in {"Gt", "Gte"} /\ lower.value \in ScalarValue
                         /\ Len(eq) < FieldCount
      /\ range.lower = LowerEnd(eq, lower)
      /\ entry \in Fields /\ Len(entry) = FieldCount /\ FieldCount \in Nat
  BY BuiltFromScalars, EntryType
<1>2. key \in Bytestring /\ EncodeEntry(eq) \in Bytestring
  BY <1>1, EncodedType
<1>3. CASE lower = None
  <2>1. Len(eq) < FieldCount => AboveLower(entry[n])
    BY <1>3 DEF AboveLower
  <2>2. CASE eq = <<>>
    <3>1. range.lower.kind = "Unbounded"
      BY <1>1, <1>3, <2>2 DEF LowerEnd, Unbounded
    <3> QED BY <2>1, <3>1 DEF AfterLower
  <2>3. CASE eq # <<>>
    <3> DEFINE x == EncodeEntry(eq)
    <3>1. range.lower.kind = "Included" /\ range.lower.key = x
      BY <1>1, <1>3, <2>3 DEF LowerEnd
    <3>2. PICK r \in Bytestring : key = x \o r
      BY <1>1, EntryBegins
    <3> HIDE DEF x, key
    <3>3. Less(x, key) \/ key = x
      <4>1. x \in Bytestring
        BY <1>2 DEF x
      <4> QED BY <3>2, <4>1, LessThanExtended
    <3>4. AfterLower(key)
      BY <3>1, <3>3 DEF AfterLower
    <3> QED BY <2>1, <3>4 DEF key
  <2> QED BY <2>2, <2>3
<1>4. CASE lower # None
  <2> DEFINE v == lower.value
             f == entry[n]
             x == EncodeEntry(Append(eq, v))
  <2>1. v \in ScalarValue /\ Len(eq) < FieldCount /\ Len(eq) < Len(entry)
    BY <1>1, <1>4
  <2>2. /\ x \in Bytestring /\ f \in ScalarValue
        /\ ValueLess(f, v) => Below(key, x)
        /\ ValueLess(v, f) => Below(x, key)
        /\ SameValue(f, v) =>
             /\ \E r \in Bytestring : key = x \o r
             /\ Len(entry) = n => key = x
    BY <1>1, <2>1, Bounded
  <2>3. range.lower.key = x /\ range.lower.kind = IF lower.op = "Gt" THEN "Excluded" ELSE "Included"
    BY <1>1, <1>4 DEF LowerEnd
  <2>4. AboveLower(f) <=> ValueLess(v, f) \/ (lower.op = "Gte" /\ SameValue(f, v))
    BY <1>4 DEF AboveLower
  <2>5. lower.op = "Gt" => Len(entry) = n
    BY <1>1
  <2>6. lower.op \in {"Gt", "Gte"}
    BY <1>1, <1>4
  <2> HIDE DEF x, key, f, v
  <2>7. AfterLower(key) <=> Less(x, key) \/ (lower.op = "Gte" /\ key = x)
    BY <2>3, <2>6 DEF AfterLower
  <2>8. CASE ValueLess(f, v)
    <3>1. ~ValueLess(v, f) /\ ~SameValue(f, v)
      BY <2>1, <2>2, <2>8, OneOrder
    <3>2. ~Less(x, key) /\ key # x
      BY <1>2, <2>2, <2>8, BelowIsLess
    <3>3. ~AboveLower(f) /\ ~AfterLower(key)
      BY <2>4, <2>7, <3>1, <3>2
    <3> QED BY <2>1, <3>3 DEF f, key
  <2>9. CASE ValueLess(v, f)
    <3>1. Less(x, key)
      BY <1>2, <2>2, <2>9, BelowIsLess DEF key
    <3>2. AboveLower(f) /\ AfterLower(key)
      BY <2>4, <2>7, <2>9, <3>1
    <3> QED BY <2>1, <3>2 DEF f, key
  <2>10. CASE SameValue(f, v)
    <3>1. ~ValueLess(v, f)
      BY <2>1, <2>2, <2>10, OneOrder
    <3>2. Less(x, key) \/ key = x
      <4>1. PICK r \in Bytestring : key = x \o r
        BY <2>2, <2>10
      <4> QED BY <2>2, <4>1, LessThanExtended
    <3>3. lower.op = "Gt" => ~Less(x, key)
      <4>1. lower.op = "Gt" => key = x
        BY <2>2, <2>5, <2>10
      <4>2. ~Less(x, x)
        <5>1. x \o <<>> = x /\ <<>> \in Bytestring
          BY <2>2, NoBytes
        <5> QED BY <2>2, <5>1, LessThanExtended
      <4> QED BY <4>1, <4>2
    <3>4. AboveLower(f) <=> AfterLower(key)
      BY <2>4, <2>6, <2>7, <2>10, <3>1, <3>2, <3>3
    <3> QED BY <2>1, <3>4 DEF f, key
  <2> QED BY <2>1, <2>2, <2>8, <2>9, <2>10, ValueKeepsOrder
<1> QED BY <1>3, <1>4

\* And the upper end those whose next field satisfies the upper bound.
LEMMA UpperEndIsExact ==
  ASSUME BuilderInv, range.kind = "Keys", NEW entry \in Entry, Agree(eq, entry, Len(eq)),
         upper.op = "Lte" => Len(eq) = FieldCount - 1
  PROVE  BeforeUpper(EncodeEntry(entry)) <=>
           (Len(eq) < FieldCount => BelowUpper(entry[Len(eq) + 1]))
<1> DEFINE key == EncodeEntry(entry)
           n == Len(eq) + 1
<1>1. /\ eq \in Fields /\ Len(eq) \in Nat /\ Len(eq) <= FieldCount
      /\ upper # None => /\ upper.op \in {"Lt", "Lte"} /\ upper.value \in ScalarValue
                         /\ Len(eq) < FieldCount
      /\ range.upper = UpperEnd(eq, upper)
      /\ entry \in Fields /\ Len(entry) = FieldCount /\ FieldCount \in Nat
  BY BuiltFromScalars, EntryType
<1>2. key \in Bytestring /\ EncodeEntry(eq) \in Bytestring
  BY <1>1, EncodedType
<1>3. CASE upper = None
  <2>1. Len(eq) < FieldCount => BelowUpper(entry[n])
    BY <1>3 DEF BelowUpper
  <2> DEFINE x == EncodeEntry(eq)
             end == PrefixSuccessor(x)
  <2>2. range.upper = end
    BY <1>1, <1>3 DEF UpperEnd
  <2>3. end.kind = "Unbounded" \/ end.kind = "Excluded"
    BY DEF PrefixSuccessor, Unbounded
  <2>4. PICK r \in Bytestring : key = x \o r
    BY <1>1, EntryBegins
  <2> HIDE DEF x, key
  <2>5. x \in Bytestring /\ key \in Bytestring
    BY <1>2 DEF x
  <2>6. Begins(x, key)
    <3>1. \A i \in 1 .. Len(x) : (x \o r)[i] = x[i]
      BY <2>5, Joins
    <3>2. Len(x) <= Len(x \o r)
      BY <2>5, Joins, Bytes
    <3> QED BY <2>4, <3>1, <3>2 DEF Begins
  <2>7. end.kind = "Excluded" => Less(key, end.key)
    BY <2>5, <2>6, PrefixRangeIsExact
  <2> HIDE DEF end
  <2>8. BeforeUpper(key)
    BY <2>2, <2>3, <2>7 DEF BeforeUpper
  <2> QED BY <2>1, <2>8 DEF key
<1>4. CASE upper # None
  <2> DEFINE v == upper.value
             f == entry[n]
             x == EncodeEntry(Append(eq, v))
  <2>1. v \in ScalarValue /\ Len(eq) < FieldCount /\ Len(eq) < Len(entry)
    BY <1>1, <1>4
  <2>2. /\ x \in Bytestring /\ f \in ScalarValue
        /\ ValueLess(f, v) => Below(key, x)
        /\ ValueLess(v, f) => Below(x, key)
        /\ SameValue(f, v) =>
             /\ \E r \in Bytestring : key = x \o r
             /\ Len(entry) = n => key = x
    BY <1>1, <2>1, Bounded
  <2>3. range.upper.key = x /\ range.upper.kind = IF upper.op = "Lt" THEN "Excluded" ELSE "Included"
    BY <1>1, <1>4 DEF UpperEnd
  <2>4. BelowUpper(f) <=> ValueLess(f, v) \/ (upper.op = "Lte" /\ SameValue(f, v))
    BY <1>4 DEF BelowUpper
  <2>5. upper.op = "Lte" => Len(entry) = n
    BY <1>1
  <2>6. upper.op \in {"Lt", "Lte"}
    BY <1>1, <1>4
  <2> HIDE DEF x, key, f, v
  <2>7. BeforeUpper(key) <=> Less(key, x) \/ (upper.op = "Lte" /\ key = x)
    BY <2>3, <2>6 DEF BeforeUpper
  <2>8. CASE ValueLess(v, f)
    <3>1. ~ValueLess(f, v) /\ ~SameValue(f, v)
      BY <2>1, <2>2, <2>8, OneOrder
    <3>2. ~Less(key, x) /\ key # x
      BY <1>2, <2>2, <2>8, BelowIsLess
    <3>3. ~BelowUpper(f) /\ ~BeforeUpper(key)
      BY <2>4, <2>7, <3>1, <3>2
    <3> QED BY <2>1, <3>3 DEF f, key
  <2>9. CASE ValueLess(f, v)
    <3>1. Less(key, x)
      BY <1>2, <2>2, <2>9, BelowIsLess DEF key
    <3>2. BelowUpper(f) /\ BeforeUpper(key)
      BY <2>4, <2>7, <2>9, <3>1
    <3> QED BY <2>1, <3>2 DEF f, key
  <2>10. CASE SameValue(f, v)
    <3>1. ~ValueLess(f, v)
      BY <2>1, <2>2, <2>10, OneOrder
    <3>2. ~Less(key, x)
      <4>1. PICK r \in Bytestring : key = x \o r
        BY <2>2, <2>10
      <4> QED BY <2>2, <4>1, LessThanExtended
    <3>3. upper.op = "Lte" => key = x
      BY <2>2, <2>5, <2>10
    <3>4. BelowUpper(f) <=> BeforeUpper(key)
      BY <2>4, <2>6, <2>7, <2>10, <3>1, <3>2, <3>3
    <3> QED BY <2>1, <3>4 DEF f, key
  <2> QED BY <2>1, <2>2, <2>8, <2>9, <2>10, ValueKeepsOrder
<1> QED BY <1>3, <1>4

\* builder.rs: the built range holds the keys of the entries asked for and of no others,
\* for any values, fields and widths of the encoding; an exclusive lower or inclusive
\* upper bound has to be on the index's last field.
THEOREM RangesAreExact == Spec => []RangeIsExact
<1>1. BuilderInv => RangeIsExact
  <2> SUFFICES ASSUME BuilderInv, range.kind = "Keys", NEW entry \in Entry,
                      lower.op = "Gt" \/ upper.op = "Lte" => Len(eq) = FieldCount - 1
               PROVE  InRange(EncodeEntry(entry)) <=> Asked(entry)
    BY DEF RangeIsExact, Exact
  <2>1. /\ eq \in Fields /\ entry \in Fields /\ Len(eq) <= Len(entry)
        /\ DOMAIN eq = 1 .. Len(eq)
    <3>1. eq \in Seq(FieldValue)
      BY DEF BuilderInv
    <3> QED BY <3>1, BuiltFromScalars, EntryType
  <2>2. CASE Agree(eq, entry, Len(eq))
    <3>1. \A i \in DOMAIN eq : SameValue(entry[i], eq[i])
      BY <2>1, <2>2 DEF Agree, SameValue
    <3>2. /\ AfterLower(EncodeEntry(entry)) <=>
               (Len(eq) < FieldCount => AboveLower(entry[Len(eq) + 1]))
          /\ BeforeUpper(EncodeEntry(entry)) <=>
               (Len(eq) < FieldCount => BelowUpper(entry[Len(eq) + 1]))
      BY <2>2, LowerEndIsExact, UpperEndIsExact
    <3> QED BY <3>1, <3>2 DEF InRange, Asked
  <2>3. CASE ~Agree(eq, entry, Len(eq))
    <3>1. PICK k \in 1 .. Len(eq) : LessAt(eq, entry, k) \/ LessAt(entry, eq, k)
      BY <2>1, <2>3, EntriesCompare
    <3> QED BY <3>1, OtherFieldsAreOutside
  <2> QED BY <2>2, <2>3
<1> QED BY <1>1, Builder, PTL


-----------------------------------------------------------------------------
(* Filter trees *)

\* A filter, before or after its operands are encoded, is a tree of known operators.
IsTree(f) ==
  /\ <<>> \in DOMAIN f
  /\ \A p \in DOMAIN f : p \in Seq(Nat) /\ f[p].op \in {"Comparison", "And", "Or", "Not"}
  /\ \E n \in Nat : \A p \in DOMAIN f : Len(p) <= n

\* holds says of each node of f whether it holds.
Evaluates(f, holding, holds) ==
  holds \in [DOMAIN f -> BOOLEAN] /\ \A p \in DOMAIN f : holds[p] <=> HoldsAt(f, holding, holds, p)

\* An operand is one step below its operator.
LEMMA OperandsAreBelow ==
  ASSUME NEW f, IsTree(f), NEW p \in DOMAIN f, NEW q \in Operands(f, p)
  PROVE  q \in DOMAIN f /\ Len(q) = Len(p) + 1 /\ Len(p) \in Nat
<1>1. /\ q \in Seq(Nat) /\ p \in Seq(Nat) /\ q \in DOMAIN f /\ q # <<>>
      /\ p = SubSeq(q, 1, Len(q) - 1)
  BY DEF Operands, Front, IsTree
<1>2. Len(q) \in Nat \ {0} /\ Len(p) \in Nat
  BY <1>1
<1>3. Len(SubSeq(q, 1, Len(q) - 1)) = Len(q) - 1
  <2> DEFINE m == Len(q) - 1
  <2>1. m \in Int /\ m >= 0 /\ \A i \in 1 .. m : q[i] \in Nat
    BY <1>1, <1>2
  <2> HIDE DEF m
  <2>2. Len(SubSeq(q, 1, m)) = IF 1 <= m THEN m - 1 + 1 ELSE 0
    BY <2>1, SubSeqProperties
  <2>3. Len(SubSeq(q, 1, m)) = m
    BY <2>1, <2>2
  <2> QED BY <2>3 DEF m
<1> QED BY <1>1, <1>2, <1>3

\* A node depends on its operands only.
LEMMA HoldsIsLocal ==
  ASSUME NEW f, IsTree(f), NEW holding, NEW p \in DOMAIN f, NEW s, NEW t,
         \A q \in Operands(f, p) : s[q] <=> t[q]
  PROVE  HoldsAt(f, holding, s, p) <=> HoldsAt(f, holding, t, p)
<1>1. f[p].op \in {"Comparison", "And", "Or", "Not"}
  BY DEF IsTree
<1>2. CASE f[p].op = "Comparison"
  BY <1>2 DEF HoldsAt
<1>3. CASE f[p].op = "And"
  BY <1>3 DEF HoldsAt
<1>4. CASE f[p].op = "Or"
  BY <1>4 DEF HoldsAt
<1>5. CASE f[p].op = "Not"
  BY <1>5 DEF HoldsAt
<1> QED BY <1>1, <1>2, <1>3, <1>4, <1>5

\* A node holds or does not.
LEMMA HoldsIsBoolean ==
  ASSUME NEW f, IsTree(f), NEW holding, NEW p \in DOMAIN f, NEW holds
  PROVE  HoldsAt(f, holding, holds, p) \in BOOLEAN
<1>1. f[p].op \in {"Comparison", "And", "Or", "Not"}
  BY DEF IsTree
<1>2. CASE f[p].op = "Comparison"
  BY <1>2 DEF HoldsAt
<1>3. CASE f[p].op = "And"
  BY <1>3 DEF HoldsAt
<1>4. CASE f[p].op = "Or"
  BY <1>4 DEF HoldsAt
<1>5. CASE f[p].op = "Not"
  BY <1>5 DEF HoldsAt
<1> QED BY <1>1, <1>2, <1>3, <1>4, <1>5

\* From the leaves up, every node of a filter has one value.
LEMMA EvaluationExists ==
  ASSUME NEW f, IsTree(f), NEW holding
  PROVE  \E holds : Evaluates(f, holding, holds)
<1>1. PICK n \in Nat : \A p \in DOMAIN f : Len(p) <= n
  BY DEF IsTree
<1>2. \A p \in DOMAIN f : Len(p) \in Nat
  BY DEF IsTree
<1> DEFINE Right(t, p) == t[p] <=> HoldsAt(f, holding, t, p)
           Done == {k \in 0 .. n + 1 : \E t \in [DOMAIN f -> BOOLEAN] :
                                         \A p \in DOMAIN f : Len(p) > n - k => Right(t, p)}
<1>3. 0 \in Done
  <2>1. [p \in DOMAIN f |-> TRUE] \in [DOMAIN f -> BOOLEAN]
    OBVIOUS
  <2>2. \A p \in DOMAIN f : ~(Len(p) > n - 0)
    BY <1>1, <1>2
  <2> HIDE DEF Right
  <2>3. \E t \in [DOMAIN f -> BOOLEAN] :
          \A p \in DOMAIN f : Len(p) > n - 0 => Right(t, p)
    BY <2>1, <2>2
  <2> QED BY <2>3
<1>4. \A k \in 1 .. n + 1 : k - 1 \in Done => k \in Done
  <2> SUFFICES ASSUME NEW k \in 1 .. n + 1, k - 1 \in Done
               PROVE  k \in Done
    OBVIOUS
  <2>1. PICK t \in [DOMAIN f -> BOOLEAN] :
          \A p \in DOMAIN f : Len(p) > n - (k - 1) => Right(t, p)
    OBVIOUS
  <2> DEFINE u == [p \in DOMAIN f |-> IF Len(p) > n - (k - 1) THEN t[p]
                                      ELSE HoldsAt(f, holding, t, p)]
  <2>2. u \in [DOMAIN f -> BOOLEAN]
    BY HoldsIsBoolean
  <2>3. ASSUME NEW p \in DOMAIN f, Len(p) > n - k
        PROVE  Right(u, p)
    <3>1. \A q \in Operands(f, p) : q \in DOMAIN f /\ Len(q) > n - (k - 1)
      BY <1>2, <2>3, OperandsAreBelow
    <3>2. \A q \in Operands(f, p) : t[q] <=> u[q]
      BY <3>1
    <3>3. HoldsAt(f, holding, t, p) <=> HoldsAt(f, holding, u, p)
      <4> HIDE DEF u
      <4> QED BY <3>2, HoldsIsLocal
    <3>4. u[p] <=> HoldsAt(f, holding, t, p)
      <4>1. CASE Len(p) > n - (k - 1)
        BY <2>1, <4>1
      <4>2. CASE ~(Len(p) > n - (k - 1))
        BY <4>2
      <4> QED BY <4>1, <4>2
    <3> QED BY <3>3, <3>4
  <2>4. \A p \in DOMAIN f : Len(p) > n - k => Right(u, p)
    BY <2>3
  <2> HIDE DEF u, Right
  <2> QED BY <2>2, <2>4
<1>5. n + 1 \in Done
  <2> HIDE DEF Done
  <2>1. \A i \in 0 .. n + 1 : i \in Done
    <3> DEFINE m == n + 1
    <3>1. m \in Nat
      OBVIOUS
    <3>2. \A i \in 1 .. m : i - 1 \in Done => i \in Done
      BY <1>4
    <3> HIDE DEF m
    <3>3. \A i \in 0 .. m : i \in Done
      BY <1>3, <3>1, <3>2, UpTo
    <3> QED BY <3>3 DEF m
  <2> QED BY <2>1
<1>6. PICK t \in [DOMAIN f -> BOOLEAN] :
        \A p \in DOMAIN f : Len(p) > n - (n + 1) => Right(t, p)
  BY <1>5
<1>7. \A p \in DOMAIN f : Right(t, p)
  BY <1>2, <1>6
<1> QED BY <1>6, <1>7 DEF Evaluates

\* And no other.
LEMMA EvaluationIsUnique ==
  ASSUME NEW f, IsTree(f), NEW holding, NEW s, NEW t,
         Evaluates(f, holding, s), Evaluates(f, holding, t)
  PROVE  s = t
<1>1. PICK n \in Nat : \A p \in DOMAIN f : Len(p) <= n
  BY DEF IsTree
<1>2. \A p \in DOMAIN f : Len(p) \in Nat
  BY DEF IsTree
<1> DEFINE m == n + 1
           Done == {k \in 0 .. m : \A p \in DOMAIN f : Len(p) > n - k => (s[p] <=> t[p])}
<1>3. 0 \in Done
  BY <1>1, <1>2
<1>4. \A k \in 1 .. m : k - 1 \in Done => k \in Done
  <2> SUFFICES ASSUME NEW k \in 1 .. m, k - 1 \in Done, NEW p \in DOMAIN f, Len(p) > n - k
               PROVE  s[p] <=> t[p]
    OBVIOUS
  <2>1. \A q \in Operands(f, p) : q \in DOMAIN f /\ Len(q) > n - (k - 1)
    BY <1>2, OperandsAreBelow
  <2>2. \A q \in Operands(f, p) : s[q] <=> t[q]
    BY <2>1
  <2> HIDE DEF Done
  <2>3. HoldsAt(f, holding, s, p) <=> HoldsAt(f, holding, t, p)
    BY <2>2, HoldsIsLocal
  <2> QED BY <2>3 DEF Evaluates
<1>5. m \in Done
  <2>1. m \in Nat
    OBVIOUS
  <2> HIDE DEF Done, m
  <2>2. \A i \in 0 .. m : i \in Done
    BY <1>3, <1>4, <2>1, UpTo
  <2> QED BY <2>1, <2>2
<1>6. \A p \in DOMAIN f : s[p] <=> t[p]
  BY <1>2, <1>5
<1>7. s \in [DOMAIN f -> BOOLEAN] /\ t \in [DOMAIN f -> BOOLEAN]
  BY DEF Evaluates
<1>8. \A p \in DOMAIN f : s[p] = t[p]
  BY <1>6, <1>7
<1> QED BY <1>7, <1>8

\* A filter is true when any evaluation says so of its root.
LEMMA TruthIsEvaluated ==
  ASSUME NEW f, IsTree(f), NEW holding, NEW holds, Evaluates(f, holding, holds)
  PROVE  Truth(f, holding) <=> holds[<<>>]
<1> DEFINE Meets(t) == t = [p \in DOMAIN f |-> HoldsAt(f, holding, t, p)]
           c == CHOOSE t : Meets(t)
<1>1. ASSUME NEW t, Meets(t)
      PROVE  t = holds
  <2>1. t \in [DOMAIN f -> BOOLEAN]
    <3>1. \A p \in DOMAIN f : HoldsAt(f, holding, t, p) \in BOOLEAN
      BY HoldsIsBoolean
    <3> QED BY <1>1, <3>1
  <2>2. Evaluates(f, holding, t)
    BY <1>1, <2>1 DEF Evaluates
  <2> QED BY <2>2, EvaluationIsUnique
<1>2. Meets(holds)
  <2>1. \A p \in DOMAIN f : HoldsAt(f, holding, holds, p) \in BOOLEAN
    BY HoldsIsBoolean
  <2>2. \A p \in DOMAIN f : holds[p] = HoldsAt(f, holding, holds, p)
    BY <2>1 DEF Evaluates
  <2>3. holds = [p \in DOMAIN f |-> holds[p]]
    BY DEF Evaluates
  <2> QED BY <2>2, <2>3
<1>3. Truth(f, holding) = c[<<>>]
  BY DEF Truth
<1>4. c = holds
  <2>1. Meets(c)
    BY <1>2
  <2> HIDE DEF c, Meets
  <2> QED BY <1>1, <2>1
<1> QED BY <1>3, <1>4
-----------------------------------------------------------------------------
(* A conjunction of filters *)

\* The path of a node of the i-th operand.
Under(i, q) == <<i>> \o q

\* A path under an operand leads there first.
LEMMA UnderBegins ==
  ASSUME NEW i \in Nat, NEW q \in Seq(Nat)
  PROVE  /\ Under(i, q) \in Seq(Nat) /\ Len(Under(i, q)) = Len(q) + 1 /\ Under(i, q) # <<>>
         /\ Head(Under(i, q)) = i /\ Tail(Under(i, q)) = q
         /\ q # <<>> => Front(q) \in Seq(Nat) /\ Front(Under(i, q)) = Under(i, Front(q))
         /\ Front(Under(i, <<>>)) = <<>>
<1> DEFINE p == Under(i, q)
<1>1. /\ p \in Seq(Nat) /\ Len(p) = Len(q) + 1 /\ Len(q) \in Nat
      /\ p[1] = i /\ \A k \in 1 .. Len(q) : p[k + 1] = q[k]
  BY DEF Under
<1> HIDE DEF p
<1>2. p # <<>>
  BY <1>1
<1>3. Head(p) = i
  BY <1>1, <1>2
<1>4. Tail(p) = q
  <2>1. /\ Tail(p) \in Seq(Nat) /\ Len(Tail(p)) = Len(q)
        /\ \A k \in 1 .. Len(Tail(p)) : Tail(p)[k] = p[k + 1]
    BY <1>1, <1>2, HeadTailProperties
  <2> DEFINE t == Tail(p)
  <2>2. t \in Seq(Nat) /\ Len(t) = Len(q) /\ \A k \in 1 .. Len(q) : t[k] = q[k]
    BY <1>1, <2>1
  <2> HIDE DEF t
  <2>3. t = q
    <3>1. t = [k \in 1 .. Len(q) |-> t[k]] /\ q = [k \in 1 .. Len(q) |-> q[k]]
      BY <2>2
    <3> QED BY <2>2, <3>1
  <2> QED BY <2>3 DEF t
<1>5. ASSUME q # <<>>
      PROVE  Front(q) \in Seq(Nat) /\ Front(p) = Under(i, Front(q))
  <2> DEFINE n == Len(q)
             a == SubSeq(q, 1, n - 1)
             b == SubSeq(p, 1, n)
             c == Under(i, a)
  <2>1. n \in Nat /\ n >= 1 /\ Len(p) - 1 = n
    BY <1>1, <1>5
  <2>2. Front(q) = a /\ Front(p) = b
    BY <1>2, <1>5, <2>1 DEF Front
  <2> HIDE DEF n
  <2>3. /\ a \in Seq(Nat) /\ Len(a) = n - 1
        /\ \A k \in 1 .. n - 1 : a[k] = q[k]
    <3>1. n - 1 \in Int /\ \A k \in 1 .. n - 1 : q[k] \in Nat
      BY <2>1 DEF n
    <3> DEFINE m == n - 1
    <3>2. m \in Int /\ m >= 0 /\ \A k \in 1 .. m : q[k] \in Nat
      BY <2>1, <3>1
    <3> HIDE DEF m
    <3>3. /\ SubSeq(q, 1, m) \in Seq(Nat)
          /\ Len(SubSeq(q, 1, m)) = IF 1 <= m THEN m - 1 + 1 ELSE 0
          /\ \A k \in 1 .. m - 1 + 1 : SubSeq(q, 1, m)[k] = q[1 + k - 1]
      BY <3>2, SubSeqProperties
    <3>4. Len(SubSeq(q, 1, m)) = m /\ \A k \in 1 .. m : SubSeq(q, 1, m)[k] = q[k]
      BY <3>2, <3>3
    <3> QED BY <3>3, <3>4 DEF m
  <2>4. /\ b \in Seq(Nat) /\ Len(b) = n
        /\ \A k \in 1 .. n : b[k] = p[k]
    <3>1. n \in Int /\ \A k \in 1 .. n : p[k] \in Nat
      BY <1>1, <2>1
    <3>2. /\ SubSeq(p, 1, n) \in Seq(Nat)
          /\ Len(SubSeq(p, 1, n)) = IF 1 <= n THEN n - 1 + 1 ELSE 0
          /\ \A k \in 1 .. n - 1 + 1 : SubSeq(p, 1, n)[k] = p[1 + k - 1]
      BY <3>1, SubSeqProperties
    <3> QED BY <2>1, <3>2
  <2> HIDE DEF a, b
  <2>5. /\ c \in Seq(Nat) /\ Len(c) = n /\ c[1] = i
        /\ \A k \in 1 .. n - 1 : c[k + 1] = a[k]
    BY <2>1, <2>3 DEF Under
  <2>6. \A k \in 1 .. n : b[k] = c[k]
    <3> HIDE DEF c
    <3> SUFFICES ASSUME NEW k \in 1 .. n
                 PROVE  b[k] = c[k]
      OBVIOUS
    <3>1. CASE k = 1
      BY <1>1, <2>1, <2>4, <2>5, <3>1
    <3>2. CASE k > 1
      <4>1. k - 1 \in 1 .. n - 1 /\ (k - 1) + 1 = k /\ k - 1 \in 1 .. Len(q)
        BY <2>1, <3>2 DEF n
      <4>2. p[k] = q[k - 1] /\ c[k] = a[k - 1] /\ a[k - 1] = q[k - 1]
        BY <1>1, <2>3, <2>5, <4>1
      <4> QED BY <2>4, <4>2
    <3> QED BY <2>1, <3>1, <3>2
  <2>7. b = c
    <3> HIDE DEF c
    <3> QED BY <2>4, <2>5, <2>6
  <2> QED BY <2>2, <2>3, <2>7
<1>6. Front(Under(i, <<>>)) = <<>>
  <2>1. Under(i, <<>>) = <<i>> /\ Len(<<i>>) = 1
    BY DEF Under
  <2>2. Front(<<i>>) = SubSeq(<<i>>, 1, 0)
    BY <2>1 DEF Front
  <2>3. SubSeq(<<i>>, 1, 0) = <<>>
    BY SubSeqEmpty
  <2> QED BY <2>1, <2>2, <2>3
<1> QED BY <1>1, <1>2, <1>3, <1>4, <1>5, <1>6 DEF p

\* Filters to join.
Trees(fs, n) == n \in Nat /\ DOMAIN fs = 1 .. n /\ \A i \in 1 .. n : IsTree(fs[i])

\* The nodes of a conjunction are its root and those of its operands.
LEMMA JoinedNodes ==
  ASSUME NEW fs, NEW n, Trees(fs, n)
  PROVE  /\ <<>> \in DOMAIN All(fs) /\ All(fs)[<<>>].op = "And"
         /\ \A i \in 1 .. n : \A q \in DOMAIN fs[i] :
              Under(i, q) \in DOMAIN All(fs) /\ All(fs)[Under(i, q)] = fs[i][q]
         /\ \A p \in DOMAIN All(fs) :
              p = <<>> \/ \E i \in 1 .. n : \E q \in DOMAIN fs[i] : p = Under(i, q)
<1> DEFINE D == {<<>>} \cup UNION {{<<i>> \o q : q \in DOMAIN fs[i]} : i \in DOMAIN fs}
<1>1. DOMAIN All(fs) = D /\ DOMAIN fs = 1 .. n
      /\ \A p \in D : All(fs)[p] = IF p = <<>> THEN [op |-> "And"] ELSE fs[Head(p)][Tail(p)]
  BY DEF All, Trees
<1>2. ASSUME NEW i \in 1 .. n, NEW q \in DOMAIN fs[i]
      PROVE  Under(i, q) \in D /\ All(fs)[Under(i, q)] = fs[i][q]
  <2>1. Under(i, q) \in D
    BY <1>1 DEF Under
  <2>2. i \in Nat /\ q \in Seq(Nat)
    BY DEF Trees, IsTree
  <2>3. Under(i, q) # <<>> /\ Head(Under(i, q)) = i /\ Tail(Under(i, q)) = q
    BY <2>2, UnderBegins
  <2> HIDE DEF D
  <2> QED BY <1>1, <2>1, <2>3
<1>3. <<>> \in D
  OBVIOUS
<1>4. \A p \in D : p = <<>> \/ \E i \in 1 .. n : \E q \in DOMAIN fs[i] : p = Under(i, q)
  BY <1>1 DEF Under
<1> HIDE DEF D
<1> QED BY <1>1, <1>2, <1>3, <1>4

\* And its operands are their roots.
LEMMA JoinedOperands ==
  ASSUME NEW fs, NEW n, Trees(fs, n)
  PROVE  /\ \A x : x \in Operands(All(fs), <<>>) <=> \E i \in 1 .. n : x = Under(i, <<>>)
         /\ \A i \in 1 .. n : \A q \in DOMAIN fs[i] :
              \A x : x \in Operands(All(fs), Under(i, q)) <=>
                        \E r \in Operands(fs[i], q) : x = Under(i, r)
<1>1. \A i \in 1 .. n : i \in Nat /\ <<>> \in DOMAIN fs[i]
  BY DEF Trees, IsTree
<1>2. \A i \in 1 .. n : \A q \in DOMAIN fs[i] : q \in Seq(Nat)
  BY DEF Trees, IsTree
<1>3. ASSUME NEW x, x \in Operands(All(fs), <<>>)
      PROVE  \E i \in 1 .. n : x = Under(i, <<>>)
  <2>1. x \in DOMAIN All(fs) /\ x # <<>> /\ Front(x) = <<>>
    BY <1>3 DEF Operands
  <2>2. PICK i \in 1 .. n : \E q \in DOMAIN fs[i] : x = Under(i, q)
    BY <2>1, JoinedNodes
  <2>3. PICK q \in DOMAIN fs[i] : x = Under(i, q)
    BY <2>2
  <2>4. q = <<>>
    <3> SUFFICES ASSUME q # <<>>
                 PROVE  FALSE
      OBVIOUS
    <3>1. Front(q) \in Seq(Nat) /\ Front(x) = Under(i, Front(q))
      BY <1>1, <1>2, <2>3, UnderBegins
    <3> DEFINE r == Front(q)
    <3>2. r \in Seq(Nat)
      BY <3>1
    <3> HIDE DEF r
    <3>3. Under(i, r) # <<>>
      BY <1>1, <3>2, UnderBegins
    <3> QED BY <2>1, <3>1, <3>3 DEF r
  <2> QED BY <2>3, <2>4
<1>4. ASSUME NEW i \in 1 .. n
      PROVE  Under(i, <<>>) \in Operands(All(fs), <<>>)
  <2>1. Under(i, <<>>) \in DOMAIN All(fs)
    BY <1>1, JoinedNodes
  <2>2. <<>> \in Seq(Nat)
    OBVIOUS
  <2>3. Under(i, <<>>) # <<>> /\ Front(Under(i, <<>>)) = <<>>
    BY <1>1, <2>2, UnderBegins
  <2> QED BY <2>1, <2>3 DEF Operands
<1>5. ASSUME NEW i \in 1 .. n, NEW q \in DOMAIN fs[i], NEW x, x \in Operands(All(fs), Under(i, q))
      PROVE  \E r \in Operands(fs[i], q) : x = Under(i, r)
  <2>1. x \in DOMAIN All(fs) /\ x # <<>> /\ Front(x) = Under(i, q)
    BY <1>5 DEF Operands
  <2>2. PICK j \in 1 .. n : \E r \in DOMAIN fs[j] : x = Under(j, r)
    BY <2>1, JoinedNodes
  <2>3. PICK r \in DOMAIN fs[j] : x = Under(j, r)
    BY <2>2
  <2>4. Under(i, q) # <<>> /\ Head(Under(i, q)) = i /\ Tail(Under(i, q)) = q
    BY <1>1, <1>2, UnderBegins
  <2>5. r # <<>>
    <3>1. <<>> \in Seq(Nat)
      OBVIOUS
    <3>2. Front(Under(j, <<>>)) = <<>>
      BY <1>1, <3>1, UnderBegins
    <3> QED BY <2>1, <2>3, <2>4, <3>2
  <2>6. Front(r) \in Seq(Nat) /\ Front(x) = Under(j, Front(r))
    BY <1>1, <1>2, <2>3, <2>5, UnderBegins
  <2> DEFINE s == Front(r)
  <2>7. s \in Seq(Nat) /\ Under(j, s) = Under(i, q)
    BY <2>1, <2>6
  <2> HIDE DEF s
  <2>8. Head(Under(j, s)) = j /\ Tail(Under(j, s)) = s
    BY <1>1, <2>7, UnderBegins
  <2>9. j = i /\ s = q
    BY <2>4, <2>7, <2>8
  <2> QED BY <2>3, <2>5, <2>9 DEF Operands, s
<1>6. ASSUME NEW i \in 1 .. n, NEW q \in DOMAIN fs[i], NEW r \in Operands(fs[i], q)
      PROVE  Under(i, r) \in Operands(All(fs), Under(i, q))
  <2>1. r \in DOMAIN fs[i] /\ r # <<>> /\ Front(r) = q
    BY DEF Operands
  <2>2. Under(i, r) # <<>> /\ Front(Under(i, r)) = Under(i, Front(r))
    BY <1>1, <1>2, <2>1, UnderBegins
  <2>3. Under(i, r) \in DOMAIN All(fs)
    BY <2>1, JoinedNodes
  <2> QED BY <2>1, <2>2, <2>3 DEF Operands
<1> QED BY <1>3, <1>4, <1>5, <1>6

\* A conjunction of trees is a tree.
LEMMA JoinedIsTree ==
  ASSUME NEW fs, NEW n, Trees(fs, n)
  PROVE  IsTree(All(fs))
<1>1. n \in Nat /\ \A i \in 1 .. n : i \in Nat /\ IsTree(fs[i])
  BY DEF Trees
<1> DEFINE Bounds(k, m) == \A i \in 1 .. k : \A q \in DOMAIN fs[i] : Len(q) <= m
           Done == {k \in 0 .. n : \E m \in Nat : Bounds(k, m)}
<1>2. 0 \in Done
  BY <1>1
<1>3. \A k \in 1 .. n : k - 1 \in Done => k \in Done
  <2> SUFFICES ASSUME NEW k \in 1 .. n, k - 1 \in Done
               PROVE  k \in Done
    OBVIOUS
  <2>1. PICK m \in Nat : \A i \in 1 .. k - 1 : \A q \in DOMAIN fs[i] : Len(q) <= m
    OBVIOUS
  <2>2. PICK l \in Nat : \A q \in DOMAIN fs[k] : Len(q) <= l
    BY <1>1 DEF IsTree
  <2>3. \A i \in 1 .. n : \A q \in DOMAIN fs[i] : Len(q) \in Nat
    BY <1>1 DEF IsTree
  <2>4. \A i \in 1 .. k : \A q \in DOMAIN fs[i] : Len(q) <= m + l
    <3> SUFFICES ASSUME NEW i \in 1 .. k, NEW q \in DOMAIN fs[i]
                 PROVE  Len(q) <= m + l
      OBVIOUS
    <3>1. Len(q) \in Nat
      BY <2>3
    <3>2. CASE i = k
      BY <2>2, <3>1, <3>2
    <3>3. CASE i \in 1 .. k - 1
      BY <2>1, <3>1, <3>3
    <3> QED BY <3>2, <3>3
  <2>5. m + l \in Nat /\ k \in 0 .. n
    OBVIOUS
  <2>6. Bounds(k, m + l)
    BY <2>4
  <2> HIDE DEF Bounds
  <2> QED BY <2>5, <2>6
<1>4. n \in Done
  <2> HIDE DEF Done
  <2>1. \A i \in 0 .. n : i \in Done
    BY <1>1, <1>2, <1>3, UpTo
  <2> QED BY <1>1, <2>1
<1>5. PICK m \in Nat : \A i \in 1 .. n : \A q \in DOMAIN fs[i] : Len(q) <= m
  BY <1>4
<1>6. ASSUME NEW p \in DOMAIN All(fs)
      PROVE  /\ p \in Seq(Nat) /\ Len(p) <= m + 1
             /\ All(fs)[p].op \in {"Comparison", "And", "Or", "Not"}
  <2>1. CASE p = <<>>
    BY <2>1, JoinedNodes
  <2>2. ASSUME NEW i \in 1 .. n, NEW q \in DOMAIN fs[i], p = Under(i, q)
        PROVE  /\ p \in Seq(Nat) /\ Len(p) <= m + 1
               /\ All(fs)[p].op \in {"Comparison", "And", "Or", "Not"}
    <3>1. q \in Seq(Nat) /\ i \in Nat /\ fs[i][q].op \in {"Comparison", "And", "Or", "Not"}
      BY <1>1 DEF IsTree
    <3>2. p \in Seq(Nat) /\ Len(p) = Len(q) + 1 /\ Len(q) \in Nat
      BY <2>2, <3>1, UnderBegins
    <3>3. All(fs)[p] = fs[i][q]
      BY <2>2, JoinedNodes
    <3>4. Len(q) <= m
      BY <1>5
    <3> QED BY <3>1, <3>2, <3>3, <3>4
  <2> QED BY <2>1, <2>2, JoinedNodes
<1>7. m + 1 \in Nat /\ <<>> \in DOMAIN All(fs)
  BY JoinedNodes
<1> QED BY <1>6, <1>7 DEF IsTree

\* A conjunction is true when all of its operands are.
LEMMA JoinedTruth ==
  ASSUME NEW fs, NEW n, Trees(fs, n), NEW holding, NEW each,
         \A i \in 1 .. n : \A q \in DOMAIN fs[i] : Under(i, q) \in holding <=> q \in each[i]
  PROVE  Truth(All(fs), holding) <=> \A i \in 1 .. n : Truth(fs[i], each[i])
<1> DEFINE e == [i \in 1 .. n |-> CHOOSE t : Evaluates(fs[i], each[i], t)]
           t == [p \in DOMAIN All(fs) |-> IF p = <<>> THEN \A i \in 1 .. n : e[i][<<>>]
                                          ELSE e[Head(p)][Tail(p)]]
<1>1. ASSUME NEW i \in 1 .. n
      PROVE  i \in Nat /\ IsTree(fs[i]) /\ Evaluates(fs[i], each[i], e[i])
  <2>1. i \in Nat /\ IsTree(fs[i])
    BY DEF Trees
  <2>2. \E u : Evaluates(fs[i], each[i], u)
    BY <2>1, EvaluationExists
  <2> QED BY <2>1, <2>2
<1> HIDE DEF e
<1>2. \A i \in 1 .. n : \A q \in DOMAIN fs[i] :
        e[i][q] \in BOOLEAN /\ (e[i][q] <=> HoldsAt(fs[i], each[i], e[i], q))
  BY <1>1 DEF Evaluates
<1>3. \A i \in 1 .. n : <<>> \in DOMAIN fs[i] /\ \A q \in DOMAIN fs[i] : q \in Seq(Nat)
  BY <1>1 DEF IsTree
<1>4. t[<<>>] <=> \A i \in 1 .. n : e[i][<<>>]
  BY JoinedNodes
<1>5. \A i \in 1 .. n : \A q \in DOMAIN fs[i] : t[Under(i, q)] = e[i][q]
  <2> SUFFICES ASSUME NEW i \in 1 .. n, NEW q \in DOMAIN fs[i]
               PROVE  t[Under(i, q)] = e[i][q]
    OBVIOUS
  <2>1. Under(i, q) # <<>> /\ Head(Under(i, q)) = i /\ Tail(Under(i, q)) = q
    BY <1>1, <1>3, UnderBegins
  <2>2. Under(i, q) \in DOMAIN All(fs)
    BY JoinedNodes
  <2> QED BY <2>1, <2>2
<1>6. t \in [DOMAIN All(fs) -> BOOLEAN]
  <2>1. ASSUME NEW p \in DOMAIN All(fs)
        PROVE  t[p] \in BOOLEAN
    <3>1. CASE p = <<>>
      BY <3>1
    <3>2. ASSUME NEW i \in 1 .. n, NEW q \in DOMAIN fs[i], p = Under(i, q)
          PROVE  t[p] \in BOOLEAN
      <4> HIDE DEF t
      <4> QED BY <1>2, <1>5, <3>2
    <3>3. p = <<>> \/ \E i \in 1 .. n : \E q \in DOMAIN fs[i] : p = Under(i, q)
      BY JoinedNodes
    <3> HIDE DEF t
    <3> QED BY <3>1, <3>2, <3>3
  <2> QED BY <2>1
<1> HIDE DEF t
<1>7. ASSUME NEW p \in DOMAIN All(fs)
      PROVE  t[p] <=> HoldsAt(All(fs), holding, t, p)
  <2>1. CASE p = <<>>
    <3>1. HoldsAt(All(fs), holding, t, p) <=> \A x \in Operands(All(fs), <<>>) : t[x]
      <4>1. All(fs)[p].op = "And"
        BY <2>1, JoinedNodes
      <4> QED BY <2>1, <4>1 DEF HoldsAt
    <3>2. (\A x \in Operands(All(fs), <<>>) : t[x]) <=> \A i \in 1 .. n : t[Under(i, <<>>)]
      BY JoinedOperands
    <3>3. \A i \in 1 .. n : t[Under(i, <<>>)] <=> e[i][<<>>]
      BY <1>3, <1>5
    <3> QED BY <1>4, <2>1, <3>1, <3>2, <3>3
  <2>2. ASSUME NEW i \in 1 .. n, NEW q \in DOMAIN fs[i], p = Under(i, q)
        PROVE  t[p] <=> HoldsAt(All(fs), holding, t, p)
    <3>1. All(fs)[p] = fs[i][q] /\ (p \in holding <=> q \in each[i])
      BY <2>2, JoinedNodes
    <3>2. \A x : x \in Operands(All(fs), p) <=> \E r \in Operands(fs[i], q) : x = Under(i, r)
      BY <2>2, JoinedOperands
    <3>3. \A r \in Operands(fs[i], q) : t[Under(i, r)] <=> e[i][r]
      <4>1. \A r \in Operands(fs[i], q) : r \in DOMAIN fs[i]
        BY DEF Operands
      <4> QED BY <1>5, <4>1
    <3>4. fs[i][q].op \in {"Comparison", "And", "Or", "Not"}
      BY <1>1 DEF IsTree
    <3>5. HoldsAt(All(fs), holding, t, p) <=> HoldsAt(fs[i], each[i], e[i], q)
      <4>1. CASE fs[i][q].op = "Comparison"
        BY <3>1, <4>1 DEF HoldsAt
      <4>2. CASE fs[i][q].op = "And"
        <5>1. HoldsAt(All(fs), holding, t, p) <=> \A x \in Operands(All(fs), p) : t[x]
          BY <3>1, <4>2 DEF HoldsAt
        <5>2. HoldsAt(fs[i], each[i], e[i], q) <=> \A r \in Operands(fs[i], q) : e[i][r]
          BY <4>2 DEF HoldsAt
        <5> QED BY <3>2, <3>3, <5>1, <5>2
      <4>3. CASE fs[i][q].op = "Or"
        <5>1. HoldsAt(All(fs), holding, t, p) <=> \E x \in Operands(All(fs), p) : t[x]
          BY <3>1, <4>3 DEF HoldsAt
        <5>2. HoldsAt(fs[i], each[i], e[i], q) <=> \E r \in Operands(fs[i], q) : e[i][r]
          BY <4>3 DEF HoldsAt
        <5> QED BY <3>2, <3>3, <5>1, <5>2
      <4>4. CASE fs[i][q].op = "Not"
        <5>1. HoldsAt(All(fs), holding, t, p) <=> \A x \in Operands(All(fs), p) : ~t[x]
          BY <3>1, <4>4 DEF HoldsAt
        <5>2. HoldsAt(fs[i], each[i], e[i], q) <=> \A r \in Operands(fs[i], q) : ~e[i][r]
          BY <4>4 DEF HoldsAt
        <5> QED BY <3>2, <3>3, <5>1, <5>2
      <4> QED BY <3>4, <4>1, <4>2, <4>3, <4>4
    <3>6. t[p] <=> e[i][q]
      BY <1>5, <2>2
    <3> QED BY <1>2, <3>5, <3>6
  <2> QED BY <2>1, <2>2, JoinedNodes
<1>8. Truth(All(fs), holding) <=> t[<<>>]
  <2>1. IsTree(All(fs))
    BY JoinedIsTree
  <2>2. Evaluates(All(fs), holding, t)
    BY <1>6, <1>7 DEF Evaluates
  <2> QED BY <2>1, <2>2, TruthIsEvaluated
<1>9. \A i \in 1 .. n : Truth(fs[i], each[i]) <=> e[i][<<>>]
  BY <1>1, TruthIsEvaluated
<1> QED BY <1>4, <1>8, <1>9

-----------------------------------------------------------------------------
(* Lowering *)

\* filter_expr_to_filter keeps the shape of a filter and encodes its operands.
LEMMA LoweredShape ==
  ASSUME NEW f
  PROVE  /\ DOMAIN Lowered(f) = DOMAIN f
         /\ \A p : Operands(Lowered(f), p) = Operands(f, p)
         /\ \A p \in DOMAIN f :
              f[p].op = "Comparison" =>
                Lowered(f)[p] = [f[p] EXCEPT !.value = EncodeEntry(<<f[p].value>>)]
         /\ \A p \in DOMAIN f : f[p].op # "Comparison" => Lowered(f)[p] = f[p]
<1>1. DOMAIN Lowered(f) = DOMAIN f
  BY DEF Lowered
<1>2. \A p : Operands(Lowered(f), p) = Operands(f, p)
  BY <1>1 DEF Operands
<1>3. \A p \in DOMAIN f :
        Lowered(f)[p] = IF f[p].op = "Comparison"
                        THEN [f[p] EXCEPT !.value = EncodeEntry(<<f[p].value>>)] ELSE f[p]
  BY DEF Lowered
<1> QED BY <1>1, <1>2, <1>3

\* The filters that a query may use.
LEMMA ExprType ==
  ASSUME NEW f \in Expr
  PROVE  /\ IsTree(f)
         /\ \A c \in Comparisons(f) :
              /\ c \in DOMAIN f /\ f[c].op = "Comparison"
              /\ DOMAIN f[c] = {"op", "field", "operator", "value"}
              /\ f[c].field \in 1 .. FieldCount /\ f[c].value \in FieldValue
              /\ f[c].operator \in {"Eq", "Neq", "Lt", "Lte", "Gt", "Gte"}
<1>1. /\ \A p \in DOMAIN f : p \in Seq(Nat) /\ f[p] \in FilterNode
      /\ <<>> \in DOMAIN f
      /\ \E deepest \in DOMAIN f : \A p \in DOMAIN f : Len(p) <= Len(deepest)
  BY ExprAssumption
<1>2. \A p \in DOMAIN f : f[p].op \in {"Comparison", "And", "Or", "Not"}
  BY <1>1 DEF FilterNode
<1>3. \E n \in Nat : \A p \in DOMAIN f : Len(p) <= n
  <2>1. PICK deepest \in DOMAIN f : \A p \in DOMAIN f : Len(p) <= Len(deepest)
    BY <1>1
  <2>2. Len(deepest) \in Nat
    BY <1>1
  <2> QED BY <2>1, <2>2
<1>4. IsTree(f)
  BY <1>1, <1>2, <1>3 DEF IsTree
<1>5. ASSUME NEW c \in Comparisons(f)
      PROVE  /\ c \in DOMAIN f /\ f[c].op = "Comparison"
             /\ DOMAIN f[c] = {"op", "field", "operator", "value"}
             /\ f[c].field \in 1 .. FieldCount /\ f[c].value \in FieldValue
             /\ f[c].operator \in {"Eq", "Neq", "Lt", "Lte", "Gt", "Gte"}
  <2>1. c \in DOMAIN f /\ f[c].op = "Comparison"
    BY DEF Comparisons
  <2>2. f[c] \in [op : {"Comparison"}, field : 1 .. FieldCount,
                  operator : {"Eq", "Neq", "Lt", "Lte", "Gt", "Gte"}, value : FieldValue]
    BY <1>1, <2>1 DEF FilterNode
  <2> QED BY <2>1, <2>2
<1> QED BY <1>4, <1>5

\* Lowered filters are trees whose comparisons sit where they did.
LEMMA LoweredType ==
  ASSUME NEW f \in Expr
  PROVE  /\ IsTree(Lowered(f)) /\ Comparisons(Lowered(f)) = Comparisons(f)
         /\ \A p \in DOMAIN f : Lowered(f)[p].op = f[p].op
         /\ \A c \in Comparisons(f) :
              /\ Lowered(f)[c].field = f[c].field /\ Lowered(f)[c].operator = f[c].operator
              /\ Lowered(f)[c].value = EncodeEntry(<<f[c].value>>)
<1>1. ASSUME NEW c \in Comparisons(f)
      PROVE  /\ Lowered(f)[c].field = f[c].field /\ Lowered(f)[c].operator = f[c].operator
             /\ Lowered(f)[c].value = EncodeEntry(<<f[c].value>>)
             /\ Lowered(f)[c].op = f[c].op
  <2>1. /\ c \in DOMAIN f /\ f[c].op = "Comparison"
        /\ DOMAIN f[c] = {"op", "field", "operator", "value"}
    BY ExprType
  <2>2. Lowered(f)[c] = [f[c] EXCEPT !.value = EncodeEntry(<<f[c].value>>)]
    BY <2>1, LoweredShape
  <2> DEFINE b == EncodeEntry(<<f[c].value>>)
  <2> HIDE DEF b
  <2>3. Lowered(f)[c] = [f[c] EXCEPT !.value = b]
    BY <2>2 DEF b
  <2>4. Lowered(f)[c].field = f[c].field /\ Lowered(f)[c].operator = f[c].operator
        /\ Lowered(f)[c].value = b /\ Lowered(f)[c].op = f[c].op
    BY <2>1, <2>3
  <2> QED BY <2>4 DEF b
<1>2. \A p \in DOMAIN f : Lowered(f)[p].op = f[p].op
  <2> SUFFICES ASSUME NEW p \in DOMAIN f
               PROVE  Lowered(f)[p].op = f[p].op
    OBVIOUS
  <2>1. CASE f[p].op = "Comparison"
    BY <1>1, <2>1 DEF Comparisons
  <2>2. CASE f[p].op # "Comparison"
    BY <2>2, LoweredShape
  <2> QED BY <2>1, <2>2
<1>3. DOMAIN Lowered(f) = DOMAIN f
  BY LoweredShape
<1>4. IsTree(Lowered(f))
  <2>1. IsTree(f)
    BY ExprType
  <2> QED BY <1>2, <1>3, <2>1 DEF IsTree
<1>5. Comparisons(Lowered(f)) = Comparisons(f)
  BY <1>2, <1>3 DEF Comparisons
<1> QED BY <1>1, <1>2, <1>4, <1>5

\* And mean what they did, whichever of their comparisons hold.
LEMMA LoweredTruth ==
  ASSUME NEW f \in Expr, NEW holding
  PROVE  Truth(Lowered(f), holding) <=> Truth(f, holding)
<1>1. IsTree(f) /\ IsTree(Lowered(f))
  BY ExprType, LoweredType
<1>2. PICK t : Evaluates(f, holding, t)
  BY <1>1, EvaluationExists
<1>3. /\ DOMAIN Lowered(f) = DOMAIN f
      /\ \A p : Operands(Lowered(f), p) = Operands(f, p)
      /\ \A p \in DOMAIN f : Lowered(f)[p].op = f[p].op
  BY LoweredShape, LoweredType
<1>4. \A p \in DOMAIN f : HoldsAt(Lowered(f), holding, t, p) <=> HoldsAt(f, holding, t, p)
  <2> SUFFICES ASSUME NEW p \in DOMAIN f
               PROVE  HoldsAt(Lowered(f), holding, t, p) <=> HoldsAt(f, holding, t, p)
    OBVIOUS
  <2> DEFINE g == Lowered(f)
  <2>1. f[p].op \in {"Comparison", "And", "Or", "Not"}
    BY <1>1 DEF IsTree
  <2>2. g[p].op = f[p].op /\ Operands(g, p) = Operands(f, p)
    BY <1>3
  <2> HIDE DEF g
  <2>3. HoldsAt(g, holding, t, p) <=> HoldsAt(f, holding, t, p)
    <3>1. CASE f[p].op = "Comparison"
      BY <2>2, <3>1 DEF HoldsAt
    <3>2. CASE f[p].op = "And"
      BY <2>2, <3>2 DEF HoldsAt
    <3>3. CASE f[p].op = "Or"
      BY <2>2, <3>3 DEF HoldsAt
    <3>4. CASE f[p].op = "Not"
      BY <2>2, <3>4 DEF HoldsAt
    <3> QED BY <2>1, <3>1, <3>2, <3>3, <3>4
  <2> QED BY <2>3 DEF g
<1>5. Evaluates(Lowered(f), holding, t)
  BY <1>2, <1>3, <1>4 DEF Evaluates
<1>6. Truth(f, holding) <=> t[<<>>]
  BY <1>1, <1>2, TruthIsEvaluated
<1>7. Truth(Lowered(f), holding) <=> t[<<>>]
  BY <1>1, <1>5, TruthIsEvaluated
<1> QED BY <1>6, <1>7

\* A value on its own is encoded as an entry of one field, and compares as one.
LEMMA OneFieldCompares ==
  ASSUME NEW v \in ScalarValue, NEW w \in ScalarValue
  PROVE  /\ Less(EncodeEntry(<<v>>), EncodeEntry(<<w>>)) <=> ValueLess(v, w)
         /\ EncodeEntry(<<v>>) = EncodeEntry(<<w>>) <=> SameValue(v, w)
<1> DEFINE e == <<v>>
           f == <<w>>
<1>1. /\ e \in Fields /\ f \in Fields /\ Len(e) = 1 /\ Len(f) = 1
      /\ e[1] = v /\ f[1] = w
  <2> DEFINE V == ScalarValue
  <2>1. v \in V /\ w \in V
    OBVIOUS
  <2> HIDE DEF V
  <2>2. <<v>> \in Seq(V) /\ <<w>> \in Seq(V)
    BY <2>1
  <2> QED BY <2>2 DEF V, Fields
<1> HIDE DEF e, f
<1>2. EncodeEntry(e) \in Bytestring /\ EncodeEntry(f) \in Bytestring
  BY <1>1, EncodedType
<1>3. \A i \in 1 .. 0 : FALSE
  OBVIOUS
<1>4. ASSUME ValueLess(v, w)
      PROVE  Below(EncodeEntry(e), EncodeEntry(f))
  <2>1. LessAt(e, f, 1)
    BY <1>1, <1>3, <1>4 DEF LessAt, Agree
  <2>2. 1 \in 1 .. Len(e) /\ 1 <= Len(f)
    BY <1>1
  <2> QED BY <1>1, <2>1, <2>2, EntryBelow
<1>5. ASSUME ValueLess(w, v)
      PROVE  Below(EncodeEntry(f), EncodeEntry(e))
  <2>1. LessAt(f, e, 1)
    BY <1>1, <1>3, <1>5 DEF LessAt, Agree
  <2>2. 1 \in 1 .. Len(f) /\ 1 <= Len(e)
    BY <1>1
  <2> QED BY <1>1, <2>1, <2>2, EntryBelow
<1>6. ASSUME SameValue(v, w)
      PROVE  EncodeEntry(f) = EncodeEntry(e)
  <2>1. Agree(e, f, Len(e))
    BY <1>1, <1>6 DEF Agree
  <2>2. Len(e) <= Len(f) /\ Len(e) = Len(f)
    BY <1>1
  <2> QED BY <1>1, <2>1, <2>2, EntryBegins
<1>7. ~Less(EncodeEntry(e), EncodeEntry(e))
  <2> DEFINE x == EncodeEntry(e)
  <2>1. x \in Bytestring
    BY <1>2
  <2> HIDE DEF x
  <2>2. x \o <<>> = x /\ <<>> \in Bytestring
    BY <2>1, NoBytes
  <2>3. ~Less(x, x)
    BY <2>1, <2>2, LessThanExtended
  <2> QED BY <2>3 DEF x
<1>8. ValueLess(v, w) \/ SameValue(v, w) \/ ValueLess(w, v)
  BY ValueKeepsOrder
<1>9. /\ ValueLess(v, w) => ~ValueLess(w, v) /\ ~SameValue(v, w)
      /\ ValueLess(w, v) => ~ValueLess(v, w) /\ ~SameValue(v, w)
  BY OneOrder
<1> DEFINE x == EncodeEntry(e)
           y == EncodeEntry(f)
<1>10. (Less(x, y) <=> ValueLess(v, w)) /\ (x = y <=> SameValue(v, w))
  <2> HIDE DEF x, y
  <2>1. CASE ValueLess(v, w)
    BY <1>2, <1>4, <1>9, <2>1, BelowIsLess DEF x, y
  <2>2. CASE ValueLess(w, v)
    BY <1>2, <1>5, <1>9, <2>2, BelowIsLess DEF x, y
  <2>3. CASE SameValue(v, w)
    BY <1>6, <1>7, <1>9, <2>3 DEF x, y
  <2> QED BY <1>8, <2>1, <2>2, <2>3
<1> QED BY <1>10 DEF e, f

\* Does the document d pass the comparison c, by its bytes or by its value?
PassesEncoded(c, d) ==
  Compared(c.operator, Less(EncodeEntry(<<d.fields[c.field]>>), c.value),
           EncodeEntry(<<d.fields[c.field]>>) = c.value)
PassesByValue(c, d) ==
  Compared(c.operator, ValueLess(d.fields[c.field], c.value), SameValue(d.fields[c.field], c.value))

\* A lowered comparison tells documents apart as the comparison does.
LEMMA ComparisonsAgree ==
  ASSUME NEW f \in Expr, NEW c \in Comparisons(f), Scalar(f[c].value), NEW d, d.fields \in Entry
  PROVE  PassesEncoded(Lowered(f)[c], d) <=> PassesByValue(f[c], d)
<1> DEFINE v == d.fields[f[c].field]
           w == f[c].value
           x == EncodeEntry(<<v>>)
           y == EncodeEntry(<<w>>)
           operator == f[c].operator
<1>1. f[c].field \in 1 .. FieldCount /\ w \in FieldValue
      /\ operator \in {"Eq", "Neq", "Lt", "Lte", "Gt", "Gte"}
  BY ExprType
<1>2. w \in ScalarValue
  BY <1>1, ScalarsOnly
<1>3. v \in ScalarValue
  BY <1>1, EntryType
<1>4. (Less(x, y) <=> ValueLess(v, w)) /\ (x = y <=> SameValue(v, w))
  BY <1>2, <1>3, OneFieldCompares
<1>5. /\ Lowered(f)[c].field = f[c].field /\ Lowered(f)[c].operator = operator
      /\ Lowered(f)[c].value = y
  BY LoweredType
<1>6. PassesEncoded(Lowered(f)[c], d) <=> Compared(operator, Less(x, y), x = y)
  BY <1>5 DEF PassesEncoded
<1>7. PassesByValue(f[c], d) <=> Compared(operator, ValueLess(v, w), SameValue(v, w))
  BY DEF PassesByValue
<1> HIDE DEF x, y, v, w, operator
<1>8. Compared(operator, Less(x, y), x = y) <=> Compared(operator, ValueLess(v, w), SameValue(v, w))
  <2>1. CASE operator = "Eq"
    BY <1>4, <2>1 DEF Compared
  <2>2. CASE operator = "Neq"
    BY <1>4, <2>2 DEF Compared
  <2>3. CASE operator = "Lt"
    BY <1>4, <2>3 DEF Compared
  <2>4. CASE operator = "Lte"
    BY <1>4, <2>4 DEF Compared
  <2>5. CASE operator = "Gt"
    BY <1>4, <2>5 DEF Compared
  <2>6. CASE operator = "Gte"
    BY <1>4, <2>6 DEF Compared
  <2> QED BY <1>1, <2>1, <2>2, <2>3, <2>4, <2>5, <2>6
<1> QED BY <1>6, <1>7, <1>8

-----------------------------------------------------------------------------
(* The chain of calls *)

Terminals == [kind : {"take"}, n : Limit] \cup [kind : {"first", "unique", "collect"}]

\* A Query exists once a terminal was called, and is the one of the filters and the
\* terminal of the chain.
QueryInv ==
  /\ filters \in Seq(Expr)
  /\ query.kind = "Query" =>
       /\ stage = "done" /\ terminal \in Terminals /\ Comparable(filters)
       /\ query = [kind |-> "Query", filter |-> BuiltFilter(filters), limit |-> LimitOf(terminal)]

\* A step of a chain is a call of the range builder or leaves the range alone.
LEMMA QueryStep ==
  ASSUME [QueryNext]_<<vars, queryVars>>
  PROVE  [Next]_vars
<1>1. CASE WithIndex
  BY <1>1 DEF WithIndex, vars
<1>2. ASSUME NEW v \in FieldValue, RangeEq(v)
      PROVE  [Next]_vars
  BY <1>2 DEF RangeEq, RangeCall, Next
<1>3. ASSUME NEW op \in {"Gt", "Gte"}, NEW v \in FieldValue, RangeLower(op, v)
      PROVE  [Next]_vars
  BY <1>3 DEF RangeLower, RangeCall, Next
<1>4. ASSUME NEW op \in {"Lt", "Lte"}, NEW v \in FieldValue, RangeUpper(op, v)
      PROVE  [Next]_vars
  BY <1>4 DEF RangeUpper, RangeCall, Next
<1>5. ASSUME NEW expr \in Expr, Filter(expr)
      PROVE  [Next]_vars
  BY <1>5 DEF Filter, vars
<1>6. ASSUME NEW direction \in {"Asc", "Desc"}, OrderBy(direction)
      PROVE  [Next]_vars
  BY <1>6 DEF OrderBy, vars
<1>7. ASSUME NEW t, Terminal(t)
      PROVE  [Next]_vars
  BY <1>7 DEF Terminal, Next, vars
<1>8. CASE UNCHANGED <<vars, queryVars>>
  BY <1>8
<1> QED BY <1>1, <1>2, <1>3, <1>4, <1>5, <1>6, <1>7, <1>8 DEF QueryNext

\* QueryBuilder::with_index: the range of a query is built as a range on its own is.
THEOREM QueriesBuildRanges == QuerySpec => Spec
<1>1. QueryInit => Init
  BY DEF QueryInit
<1>2. [QueryNext]_<<vars, queryVars>> => [Next]_vars
  BY QueryStep
<1> QED BY <1>1, <1>2, PTL DEF QuerySpec, Spec

\* The limits of the terminals.
LEMMA TerminalType ==
  /\ \A n \in Limit : [kind |-> "take", n |-> n] \in Terminals
  /\ [kind |-> "first"] \in Terminals /\ [kind |-> "unique"] \in Terminals
  /\ [kind |-> "collect"] \in Terminals
BY DEF Terminals

\* No query is assembled at first.
LEMMA InitQuery == QueryInit => QueryInv
BY DEF QueryInit, QueryInv, Unassembled

\* A terminal assembles the Query of its chain.
LEMMA TerminalQuery ==
  ASSUME QueryInv, NEW t \in Terminals, Terminal(t)
  PROVE  QueryInv'
<1>1. /\ stage' = "done" /\ terminal' = t /\ filters' = filters
      /\ query' = IF Comparable(filters) /\ (indexed => Encodable)
                  THEN [kind |-> "Query", filter |-> BuiltFilter(filters), limit |-> LimitOf(t)]
                  ELSE NotAScalar
  BY DEF Terminal
<1>2. filters' \in Seq(Expr)
  BY <1>1 DEF QueryInv
<1>3. CASE Comparable(filters) /\ (indexed => Encodable)
  <2>1. query' = [kind |-> "Query", filter |-> BuiltFilter(filters'), limit |-> LimitOf(terminal')]
    BY <1>1, <1>3
  <2>2. Comparable(filters')
    BY <1>1, <1>3
  <2> QED BY <1>1, <1>2, <2>1, <2>2 DEF QueryInv
<1>4. CASE ~(Comparable(filters) /\ (indexed => Encodable))
  <2>1. query'.kind = "NotAScalar"
    BY <1>1, <1>4 DEF NotAScalar
  <2> QED BY <1>2, <2>1 DEF QueryInv
<1> QED BY <1>3, <1>4

\* Calls after the terminal do not exist, so the Query stays that of its chain.
LEMMA NextQuery == QueryInv /\ [QueryNext]_<<vars, queryVars>> => QueryInv'
<1> SUFFICES ASSUME QueryInv, [QueryNext]_<<vars, queryVars>>
             PROVE  QueryInv'
  OBVIOUS
<1>1. ASSUME UNCHANGED queryVars
      PROVE  QueryInv'
  BY <1>1 DEF QueryInv, queryVars
<1>2. ASSUME stage # "done", query' = query, filters' \in Seq(Expr)
      PROVE  QueryInv'
  BY <1>2 DEF QueryInv
<1>3. CASE WithIndex
  BY <1>2, <1>3 DEF WithIndex, QueryInv
<1>4. ASSUME NEW v \in FieldValue, RangeEq(v)
      PROVE  QueryInv'
  BY <1>1, <1>4 DEF RangeEq, RangeCall
<1>5. ASSUME NEW op \in {"Gt", "Gte"}, NEW v \in FieldValue, RangeLower(op, v)
      PROVE  QueryInv'
  BY <1>1, <1>5 DEF RangeLower, RangeCall
<1>6. ASSUME NEW op \in {"Lt", "Lte"}, NEW v \in FieldValue, RangeUpper(op, v)
      PROVE  QueryInv'
  BY <1>1, <1>6 DEF RangeUpper, RangeCall
<1>7. ASSUME NEW expr \in Expr, Filter(expr)
      PROVE  QueryInv'
  <2>1. stage # "done" /\ query' = query /\ filters' = Append(filters, expr)
    BY <1>7 DEF Filter
  <2>2. filters' \in Seq(Expr)
    BY <2>1 DEF QueryInv
  <2> QED BY <1>2, <2>1, <2>2
<1>8. ASSUME NEW direction \in {"Asc", "Desc"}, OrderBy(direction)
      PROVE  QueryInv'
  BY <1>2, <1>8 DEF OrderBy, QueryInv
<1>9. ASSUME NEW t \in Terminals, Terminal(t)
      PROVE  QueryInv'
  BY <1>9, TerminalQuery
<1>10. CASE UNCHANGED <<vars, queryVars>>
  BY <1>1, <1>10
<1> QED
  BY <1>3, <1>4, <1>5, <1>6, <1>7, <1>8, <1>9, <1>10, TerminalType DEF QueryNext

LEMMA Query == QuerySpec => []QueryInv
BY InitQuery, NextQuery, PTL DEF QuerySpec

-----------------------------------------------------------------------------
(* What a Query means *)

\* The one filter of a chain, or the conjunction of several or none, selects the documents
\* that all of them describe.
LEMMA SelectedAsMeant ==
  ASSUME QueryInv, query.kind = "Query", NEW d, d.fields \in Entry
  PROVE  Selects(d) <=> MeansAll(d)
<1> DEFINE n == Len(filters)
           fs == [i \in 1 .. n |-> Lowered(filters[i])]
           each == [i \in 1 .. n |-> {p \in Comparisons(filters[i]) : PassesByValue(filters[i][p], d)}]
           holding == {p \in Comparisons(query.filter) : PassesEncoded(query.filter[p], d)}
<1>1. /\ n \in Nat /\ DOMAIN filters = 1 .. n /\ \A i \in 1 .. n : filters[i] \in Expr
      /\ Comparable(filters)
      /\ query = [kind |-> "Query", filter |-> BuiltFilter(filters), limit |-> LimitOf(terminal)]
  BY DEF QueryInv
<1>2. query.filter = IF n = 1 THEN fs[1] ELSE All(fs)
  BY <1>1 DEF BuiltFilter
<1>3. Selects(d) <=> Truth(query.filter, holding)
  BY DEF Selects, PassesEncoded
<1>4. MeansAll(d) <=> \A i \in 1 .. n : Truth(filters[i], each[i])
  <2>1. \A i \in 1 .. n : Means(filters[i], d) <=> Truth(filters[i], each[i])
    BY DEF Means, PassesByValue
  <2> HIDE DEF each
  <2> QED BY <1>1, <2>1 DEF MeansAll
<1>5. ASSUME NEW i \in 1 .. n, NEW c \in Comparisons(filters[i])
      PROVE  PassesEncoded(Lowered(filters[i])[c], d) <=> PassesByValue(filters[i][c], d)
  <2>1. filters[i] \in Expr /\ Scalar(filters[i][c].value)
    BY <1>1 DEF Comparable
  <2> QED BY <2>1, ComparisonsAgree
<1>6. \A i \in 1 .. n : /\ fs[i] = Lowered(filters[i]) /\ IsTree(fs[i])
                        /\ Comparisons(fs[i]) = Comparisons(filters[i])
                        /\ DOMAIN fs[i] = DOMAIN filters[i]
  BY <1>1, LoweredType, LoweredShape
<1>7. \A i \in 1 .. n : \A p : p \in each[i] <=> /\ p \in Comparisons(filters[i])
                                               /\ PassesByValue(filters[i][p], d)
  OBVIOUS
<1>8. \A p : p \in holding <=> p \in Comparisons(query.filter) /\ PassesEncoded(query.filter[p], d)
  OBVIOUS
<1>9. DOMAIN fs = 1 .. n
  OBVIOUS
<1>10. \A i \in 1 .. n : Truth(fs[i], each[i]) <=> Truth(filters[i], each[i])
  BY <1>1, <1>6, LoweredTruth
<1> HIDE DEF n, fs, each, holding
<1>11. CASE n = 1
  <2>1. query.filter = fs[1] /\ 1 \in 1 .. n
    BY <1>2, <1>11
  <2>2. \A p : p \in holding <=> p \in each[1]
    BY <1>5, <1>6, <1>7, <1>8, <2>1
  <2>3. holding = each[1]
    BY <2>2
  <2>4. \A i \in 1 .. n : i = 1
    BY <1>11
  <2> QED BY <1>3, <1>4, <1>10, <2>1, <2>3, <2>4
<1>12. CASE n # 1
  <2>1. query.filter = All(fs)
    BY <1>2, <1>12
  <2>2. Trees(fs, n)
    BY <1>1, <1>6, <1>9 DEF Trees
  <2>3. ASSUME NEW i \in 1 .. n, NEW q \in DOMAIN fs[i]
        PROVE  Under(i, q) \in holding <=> q \in each[i]
    <3>1. Under(i, q) \in DOMAIN All(fs) /\ All(fs)[Under(i, q)] = fs[i][q]
      BY <2>2, JoinedNodes
    <3>2. Under(i, q) \in Comparisons(All(fs)) <=> q \in Comparisons(fs[i])
      BY <3>1 DEF Comparisons
    <3>3. Under(i, q) \in holding <=> q \in Comparisons(filters[i]) /\ PassesEncoded(fs[i][q], d)
      BY <1>6, <1>8, <2>1, <3>1, <3>2
    <3> QED BY <1>5, <1>6, <1>7, <3>3
  <2>4. Truth(All(fs), holding) <=> \A i \in 1 .. n : Truth(fs[i], each[i])
    BY <2>2, <2>3, JoinedTruth
  <2> QED BY <1>3, <1>4, <1>10, <2>1, <2>4
<1> QED BY <1>11, <1>12

\* filter, build_filter, filter_expr_to_filter and encode_entry: whatever filters a chain
\* holds, however nested, comparing encoded operands selects the documents that all of
\* them describe by value.
THEOREM FiltersKeepMeaning == QuerySpec => []FiltersAreExact
<1>1. QueryInv => FiltersAreExact
  <2> SUFFICES ASSUME QueryInv, query.kind = "Query", NEW docs \in Collections, NEW d \in docs
               PROVE  Selects(d) <=> MeansAll(d)
    BY DEF FiltersAreExact
  <2>1. d.fields \in Entry
    BY CollectionAssumption
  <2> QED BY <2>1, SelectedAsMeant
<1> QED BY <1>1, Query, PTL

-----------------------------------------------------------------------------
(* Terminals *)

\* The lesser of two numbers.
LEMMA LesserOf ==
  ASSUME NEW k \in Nat, NEW n \in Nat
  PROVE  Min({k, n}) = IF k <= n THEN k ELSE n
<1>1. \E x \in {k, n} : \A y \in {k, n} : x <= y
  OBVIOUS
<1>2. Min({k, n}) \in {k, n} /\ \A y \in {k, n} : Min({k, n}) <= y
  BY <1>1 DEF Min
<1> QED BY <1>2

\* The first elements of a list.
LEMMA FirstElements ==
  ASSUME NEW T, NEW s \in Seq(T), NEW k \in Nat
  PROVE  LET m == IF k <= Len(s) THEN k ELSE Len(s)
             u == SubSeq(s, 1, Min({k, Len(s)}))
         IN u \in Seq(T) /\ Len(u) = m /\ \A i \in 1 .. m : u[i] = s[i]
<1> DEFINE m == IF k <= Len(s) THEN k ELSE Len(s)
<1>1. m \in Int /\ m >= 0 /\ \A i \in 1 .. m : s[i] \in T
  OBVIOUS
<1>2. Min({k, Len(s)}) = m
  <2>1. Len(s) \in Nat
    OBVIOUS
  <2> QED BY <2>1, LesserOf
<1> HIDE DEF m
<1>3. /\ SubSeq(s, 1, m) \in Seq(T)
      /\ Len(SubSeq(s, 1, m)) = IF 1 <= m THEN m - 1 + 1 ELSE 0
      /\ \A i \in 1 .. m - 1 + 1 : SubSeq(s, 1, m)[i] = s[1 + i - 1]
  BY <1>1, SubSeqProperties
<1>4. Len(SubSeq(s, 1, m)) = m /\ \A i \in 1 .. m : SubSeq(s, 1, m)[i] = s[i]
  BY <1>1, <1>3
<1> QED BY <1>2, <1>3, <1>4 DEF m

\* The first document of a list is that of its first one.
LEMMA FirstIsFirst ==
  ASSUME NEW T, NEW s \in Seq(T)
  PROVE  FirstOf(Upto(s, 1)) = FirstOf(s)
<1> DEFINE u == SubSeq(s, 1, Min({1, Len(s)}))
           w == SubSeq(u, 1, Min({1, Len(u)}))
           m == IF 1 <= Len(s) THEN 1 ELSE Len(s)
<1>1. u \in Seq(T) /\ Len(u) = m /\ \A i \in 1 .. m : u[i] = s[i]
  BY FirstElements
<1>2. Upto(s, 1) = u /\ FirstOf(s) = u
  BY DEF Upto, NoLimit, FirstOf
<1>3. m \in {0, 1}
  BY DEF m
<1> HIDE DEF u, m
<1>4. /\ w \in Seq(T) /\ Len(w) = (IF 1 <= Len(u) THEN 1 ELSE Len(u))
      /\ \A i \in 1 .. (IF 1 <= Len(u) THEN 1 ELSE Len(u)) : w[i] = u[i]
  BY <1>1, FirstElements
<1> HIDE DEF w
<1>5. Len(w) = Len(u) /\ \A i \in 1 .. Len(u) : w[i] = u[i]
  BY <1>1, <1>3, <1>4
<1>6. w = u
  BY <1>1, <1>4, <1>5
<1> QED BY <1>2, <1>6 DEF FirstOf, w

\* Two documents are enough to tell whether there is exactly one.
LEMMA TwoTellOne ==
  ASSUME NEW T, NEW s \in Seq(T)
  PROVE  ExactlyOne(Upto(s, 2)) = ExactlyOne(s)
<1> DEFINE u == SubSeq(s, 1, Min({2, Len(s)}))
           m == IF 2 <= Len(s) THEN 2 ELSE Len(s)
<1>1. u \in Seq(T) /\ Len(u) = m /\ \A i \in 1 .. m : u[i] = s[i]
  BY FirstElements
<1>2. Upto(s, 2) = u
  BY DEF Upto, NoLimit
<1>3. Len(s) \in Nat
  OBVIOUS
<1> HIDE DEF u
<1>4. Len(s) = 1 => u = s
  BY <1>1
<1>5. Len(u) = 1 <=> Len(s) = 1
  BY <1>1, <1>3
<1> QED BY <1>2, <1>4, <1>5 DEF ExactlyOne

\* The documents of a finite set are in a list.
LEMMA OrderedIsList ==
  ASSUME NEW S, IsFiniteSet(S)
  PROVE  \E T : InOrder(S) \in Seq(T)
<1> DEFINE L == [i \in 1 .. Cardinality(S) |->
                  CHOOSE x \in S : Cardinality({y \in S : DocumentLess(y, x)}) = i - 1]
           T == {L[i] : i \in 1 .. Cardinality(S)}
<1>1. Cardinality(S) \in Nat
  BY FS_CardinalityType
<1>2. Ascending(S, DocumentLess) = L
  BY DEF Ascending
<1> DEFINE n == Cardinality(S)
<1>3. L = [i \in 1 .. n |-> L[i]]
  OBVIOUS
<1> HIDE DEF L, n
<1>4. L \in Seq(T)
  <2>1. \A i \in 1 .. n : L[i] \in T
    BY DEF n
  <2> HIDE DEF T
  <2>2. n \in Nat
    BY <1>1 DEF n
  <2> QED BY <1>3, <2>1, <2>2
<1>5. Reverse(L) \in Seq(T)
  <2> HIDE DEF T
  <2> QED BY <1>4 DEF Reverse
<1>6. InOrder(S) = IF order = "Desc" THEN Reverse(L) ELSE L
  BY <1>2 DEF InOrder
<1> QED BY <1>4, <1>5, <1>6

\* assemble and the terminals: take, first, unique and collect say of the worker's answer
\* what they would say of every document that matches.
THEOREM TerminalsAnswer == QuerySpec => []TerminalsTellAll
<1> DEFINE Matching(docs) == InOrder({d \in docs : InIndexRange(d) /\ MeansAll(d)})
           Got(docs) == Shaped(terminal, Answer(docs))
<1>1. ASSUME QueryInv, query.kind = "Query", NEW docs \in Collections
      PROVE  /\ terminal.kind = "take" => Got(docs) = Upto(Matching(docs), terminal.n)
             /\ terminal.kind = "first" => Got(docs) = FirstOf(Matching(docs))
             /\ terminal.kind = "unique" => Got(docs) = ExactlyOne(Matching(docs))
             /\ terminal.kind = "collect" => Got(docs) = Matching(docs)
  <2> DEFINE S == {d \in docs : InIndexRange(d) /\ MeansAll(d)}
             R == {d \in docs : InIndexRange(d) /\ Selects(d)}
             M == InOrder(S)
  <2>1. IsFiniteSet(docs) /\ \A d \in docs : d.fields \in Entry
    BY <1>1, CollectionAssumption
  <2>2. R = S
    <3>1. \A d \in docs : Selects(d) <=> MeansAll(d)
      BY <1>1, <2>1, SelectedAsMeant
    <3> QED BY <3>1
  <2>3. PICK T : M \in Seq(T)
    <3>1. S \in SUBSET docs
      OBVIOUS
    <3> HIDE DEF S
    <3>2. IsFiniteSet(S)
      BY <2>1, <3>1, FS_Subset
    <3> QED BY <3>2, OrderedIsList
  <2>4. /\ query.limit = LimitOf(terminal)
        /\ terminal \in Terminals
    BY <1>1 DEF QueryInv
  <2>5. Answer(docs) = Upto(M, LimitOf(terminal))
    BY <2>2, <2>4 DEF Answer
  <2>6. Matching(docs) = M
    OBVIOUS
  <2> HIDE DEF M, Matching
  <2>7. CASE terminal.kind = "take"
    BY <2>5, <2>6, <2>7 DEF LimitOf, Shaped
  <2>8. CASE terminal.kind = "first"
    <3>1. Got(docs) = FirstOf(Upto(M, 1))
      BY <2>5, <2>8 DEF LimitOf, Shaped
    <3> QED BY <2>3, <2>6, <2>8, <3>1, FirstIsFirst
  <2>9. CASE terminal.kind = "unique"
    <3>1. Got(docs) = ExactlyOne(Upto(M, 2))
      BY <2>5, <2>9 DEF LimitOf, Shaped
    <3> QED BY <2>3, <2>6, <2>9, <3>1, TwoTellOne
  <2>10. CASE terminal.kind = "collect"
    BY <2>5, <2>6, <2>10 DEF LimitOf, Shaped, Upto
  <2> QED BY <2>7, <2>8, <2>9, <2>10
<1>2. QueryInv => TerminalsTellAll
  <2> SUFFICES ASSUME QueryInv, query.kind = "Query", NEW docs \in Collections
               PROVE  CASE terminal.kind = "take" -> Got(docs) = Upto(Matching(docs), terminal.n)
                        [] terminal.kind = "first" -> Got(docs) = FirstOf(Matching(docs))
                        [] terminal.kind = "unique" -> Got(docs) = ExactlyOne(Matching(docs))
                        [] terminal.kind = "collect" -> Got(docs) = Matching(docs)
    BY DEF TerminalsTellAll
  <2>1. terminal.kind \in {"take", "first", "unique", "collect"}
    BY DEF QueryInv, Terminals
  <2> HIDE DEF Got, Matching
  <2>2. CASE terminal.kind = "take"
    BY <1>1, <2>2
  <2>3. CASE terminal.kind = "first"
    BY <1>1, <2>3
  <2>4. CASE terminal.kind = "unique"
    BY <1>1, <2>4
  <2>5. CASE terminal.kind = "collect"
    BY <1>1, <2>5
  <2> QED BY <2>1, <2>2, <2>3, <2>4, <2>5
<1> QED BY <1>2, Query, PTL

\* Inside a chain of calls too, the range built for a query holds the keys of the entries
\* asked for and of no others, and keys order entries as their fields do.
THEOREM QueriesUseExactRanges == QuerySpec => []RangeIsExact /\ []KeysOrderEntries
BY QueriesBuildRanges, RangesAreExact, KeysFollowFields, PTL

-----------------------------------------------------------------------------
(* What a send and a receive do to a channel *)

LEMMA Sent ==
  ASSUME NEW S, NEW q \in Seq(S), NEW e \in S
  PROVE  /\ Append(q, e) \in Seq(S)
         /\ Len(q) \in Nat
         /\ Len(Append(q, e)) = Len(q) + 1
         /\ \A i \in 1 .. Len(q) : Append(q, e)[i] = q[i]
         /\ Append(q, e)[Len(q) + 1] = e
  OBVIOUS

LEMMA Received ==
  ASSUME NEW S, NEW q \in Seq(S), q # <<>>
  PROVE  /\ Tail(q) \in Seq(S)
         /\ Head(q) \in S
         /\ Len(q) \in Nat \ {0}
         /\ Head(q) = q[1]
         /\ Len(Tail(q)) = Len(q) - 1
         /\ \A i \in 1 .. Len(q) - 1 : Tail(q)[i] = q[i + 1]
BY HeadTailProperties, EmptySeq

LEMMA SentEntries ==
  ASSUME NEW S, NEW q \in Seq(S), NEW e \in S
  PROVE  \A i \in 1 .. Len(Append(q, e)) :
           \/ i \in 1 .. Len(q) /\ Append(q, e)[i] = q[i]
           \/ i = Len(q) + 1 /\ Append(q, e)[i] = e
BY Sent

LEMMA ReceivedEntries ==
  ASSUME NEW S, NEW q \in Seq(S), q # <<>>
  PROVE  \A i \in 1 .. Len(Tail(q)) :
           i \in Nat /\ i + 1 \in 1 .. Len(q) /\ Tail(q)[i] = q[i + 1]
BY Received

-----------------------------------------------------------------------------
(* Type correctness *)

ClientState == [phase : {"outside", "allocated", "idle", "waiting", "committing"},
                tx : Nat, mode : Mode, worker : Worker,
                await : Nat, reply : {"none", "dropped"}, made : Nat]

\* The types, and that every transaction in use has an id that was drawn.
TypeInv ==
  /\ TypeOK
  /\ \A c \in Client : client[c].phase # "outside" => client[c].tx \in TxId

LEMMA PickedIsWorker == ASSUME NEW n \in Nat PROVE Picked(n) \in Worker
BY PoolAssumption DEF Picked, Worker

LEMMA InitTypes == WorkerInit => TypeInv
<1> SUFFICES ASSUME WorkerInit PROVE TypeInv
  OBVIOUS
<1>1. 0 \in Worker
  BY PoolAssumption DEF Worker
<1>2. <<>> \in Seq(Command)
  BY EmptySeq
<1> QED BY <1>1, <1>2, BoundAssumption DEF WorkerInit, TypeInv, TypeOK, Outside, Mode

\* A send from a task that holds a transaction keeps the channels typed.
LEMMA SendTypes ==
  ASSUME TypeInv, NEW c \in Client, client[c].phase # "outside",
         NEW kind \in RequestKind \cup EndKind, NEW req \in Nat, Send(c, kind, req)
  PROVE  queue' \in [Worker -> Seq(Command)]
<1> DEFINE cmd == [kind |-> kind, tx |-> client[c].tx, from |-> c, req |-> req]
<1>1. cmd \in Command
  BY DEF Command, TypeInv, TypeOK
<1>2. \A w \in Worker : Append(queue[w], cmd) \in Seq(Command)
  BY <1>1, Sent DEF TypeInv, TypeOK
<1> QED BY <1>2 DEF Send, TypeInv, TypeOK

\* The parts of the invariant, by variable.
Typed(cl, q, cx, run) ==
  /\ cl \in [Client -> ClientState]
  /\ \A c \in Client : cl[c].phase # "outside" => cl[c].tx \in TxId
  /\ q \in [Worker -> Seq(Command)]
  /\ cx \in [Worker -> SUBSET TxId]
  /\ run \in [Worker -> BOOLEAN]

LEMMA TypeInvParts ==
  TypeInv <=> /\ dbAlive \in BOOLEAN
              /\ nextTx \in 1 .. MaxTx + 1
              /\ poolRr \in Nat
              /\ Typed(client, queue, ctx, running)
BY DEF TypeInv, TypeOK, Typed, ClientState

\* A change of one task that keeps its fields typed keeps the tasks typed.
LEMMA OneTask ==
  ASSUME NEW cl, NEW q, NEW cx, NEW run, Typed(cl, q, cx, run),
         NEW c \in Client, NEW r \in ClientState, r.phase # "outside" => r.tx \in TxId
  PROVE  Typed([cl EXCEPT ![c] = r], q, cx, run)
BY DEF Typed

\* The states a task moves to are typed.
LEMMA TaskTypes ==
  ASSUME NEW x \in ClientState, NEW n \in Nat, NEW w \in Worker, NEW mode \in Mode,
         NEW phase \in {"waiting", "committing"}
  PROVE  /\ [x EXCEPT !.phase = "allocated", !.tx = n, !.mode = mode] \in ClientState
         /\ [x EXCEPT !.phase = "idle", !.worker = w] \in ClientState
         /\ [x EXCEPT !.phase = phase, !.await = n, !.reply = "none", !.made = n] \in ClientState
         /\ [x EXCEPT !.phase = "idle", !.await = 0, !.reply = "none"] \in ClientState
         /\ [x EXCEPT !.reply = "dropped"] \in ClientState
BY DEF ClientState

LEMMA NextTypes == TypeInv /\ [WorkerNext]_workerVars => TypeInv'
<1> SUFFICES ASSUME TypeInv, [WorkerNext]_workerVars PROVE TypeInv'
  OBVIOUS
<1>a. /\ dbAlive \in BOOLEAN
      /\ nextTx \in 1 .. MaxTx + 1
      /\ poolRr \in Nat
      /\ Typed(client, queue, ctx, running)
  BY TypeInvParts
<1>b. \A c \in Client : /\ client[c] \in ClientState
                        /\ client[c].made \in Nat
                        /\ client[c].phase # "outside" => client[c].tx \in TxId
  BY <1>a DEF Typed, ClientState
<1>c. \A w \in Worker : queue[w] \in Seq(Command)
  BY <1>a DEF Typed
<1> SUFFICES /\ dbAlive' \in BOOLEAN
             /\ nextTx' \in 1 .. MaxTx + 1
             /\ poolRr' \in Nat
             /\ Typed(client', queue', ctx', running')
  BY DEF TypeInv, TypeOK, Typed, ClientState
<1>1. ASSUME NEW c \in Client, NEW mode \in Mode, AllocateTx(c, mode)
      PROVE  nextTx' \in 1 .. MaxTx + 1 /\ Typed(client', queue', ctx', running')
  <2> DEFINE r == [client[c] EXCEPT !.phase = "allocated", !.tx = nextTx, !.mode = mode]
  <2>1. nextTx \in TxId /\ nextTx \in Nat /\ nextTx' \in 1 .. MaxTx + 1
    BY <1>1, <1>a, BoundAssumption DEF AllocateTx, TxId
  <2>2. 0 \in Worker
    BY PoolAssumption DEF Worker
  <2>3. r \in ClientState
    BY <1>b, <2>1, <2>2, TaskTypes
  <2>4. r.tx = nextTx
    BY <1>b DEF ClientState
  <2>5. client' = [client EXCEPT ![c] = r]
    BY <1>1 DEF AllocateTx
  <2>6. Typed([client EXCEPT ![c] = r], queue, ctx, running)
    <3> HIDE DEF r
    <3> QED BY <1>a, <2>1, <2>3, <2>4, OneTask
  <2> QED BY <1>1, <2>1, <2>5, <2>6 DEF AllocateTx
<1>2. ASSUME NEW c \in Client, DispatchStart(c)
      PROVE  poolRr' \in Nat /\ Typed(client', queue', ctx', running')
  <2> DEFINE r == [client[c] EXCEPT !.phase = "idle", !.worker = Kept(poolRr)]
  <2>1. Picked(poolRr) \in Worker /\ Kept(poolRr) \in Worker
    BY <1>a, PickedIsWorker DEF Kept
  <2>2. StartCommand(c) \in Command
    BY <1>2, <1>b DEF DispatchStart, StartCommand, Command
  <2>3. queue' \in [Worker -> Seq(Command)]
    BY <1>2, <1>a, <1>c, <2>1, <2>2, Sent DEF DispatchStart, Typed
  <2>4. r \in ClientState
    BY <1>b, <2>1, TaskTypes DEF Mode
  <2>5. r.tx \in TxId
    BY <1>2, <1>b DEF DispatchStart, ClientState
  <2>6. client' = [client EXCEPT ![c] = r]
    BY <1>2 DEF DispatchStart
  <2>7. Typed([client EXCEPT ![c] = r], queue, ctx, running)
    <3> HIDE DEF r
    <3> QED BY <1>a, <2>4, <2>5, OneTask
  <2>8. poolRr' \in Nat
    BY <1>2, <1>a DEF DispatchStart
  <2> QED BY <1>2, <2>3, <2>6, <2>7, <2>8 DEF DispatchStart, Typed
<1>3. ASSUME NEW c \in Client, NEW kind \in RequestKind \cup EndKind,
             NEW phase \in {"waiting", "committing"}, Await(c, kind, phase)
      PROVE  Typed(client', queue', ctx', running')
  <2> DEFINE n == client[c].made + 1
             r == [client[c] EXCEPT !.phase = phase, !.await = n, !.reply = "none", !.made = n]
  <2>1. n \in Nat /\ client[c].phase # "outside"
    BY <1>3, <1>b DEF Await
  <2>2. queue' \in [Worker -> Seq(Command)]
    BY <1>3, <2>1, SendTypes DEF Await
  <2>3. 0 \in Worker
    BY PoolAssumption DEF Worker
  <2>4. r \in ClientState
    BY <1>b, <2>1, <2>3, TaskTypes DEF Mode
  <2>5. r.tx \in TxId
    BY <1>b, <2>1 DEF ClientState
  <2>6. client' = [client EXCEPT ![c] = r]
    BY <1>3 DEF Await
  <2>7. Typed([client EXCEPT ![c] = r], queue, ctx, running)
    <3> HIDE DEF r
    <3> QED BY <1>a, <2>4, <2>5, OneTask
  <2> QED BY <1>3, <2>2, <2>6, <2>7 DEF Await, Typed
<1>4. ASSUME NEW c \in Client, FinishRequest(c)
      PROVE  Typed(client', queue', ctx', running')
  <2> DEFINE r == [client[c] EXCEPT !.phase = "idle", !.await = 0, !.reply = "none"]
  <2>1. 0 \in Worker
    BY PoolAssumption DEF Worker
  <2>2. r \in ClientState
    BY <1>b, <2>1, TaskTypes DEF Mode
  <2>3. r.tx \in TxId
    BY <1>4, <1>b DEF FinishRequest, ClientState
  <2>4. client' = [client EXCEPT ![c] = r]
    BY <1>4 DEF FinishRequest
  <2>5. Typed([client EXCEPT ![c] = r], queue, ctx, running)
    <3> HIDE DEF r
    <3> QED BY <1>a, <2>2, <2>3, OneTask
  <2> QED BY <1>4, <2>4, <2>5 DEF FinishRequest
<1>5. ASSUME NEW c \in Client, client[c].phase # "outside", DropTransaction(c)
      PROVE  Typed(client', queue', ctx', running')
  <2> DEFINE r == [Outside EXCEPT !.made = client[c].made]
  <2>1. EndOf(client[c].mode) \in EndKind
    BY DEF EndOf, EndKind
  <2>2. queue' \in [Worker -> Seq(Command)]
    BY <1>5, <2>1, SendTypes DEF DropTransaction
  <2>3. 0 \in Worker
    BY PoolAssumption DEF Worker
  <2>4. r \in ClientState /\ r.phase = "outside"
    BY <1>b, <2>3 DEF Outside, Mode, ClientState
  <2>5. client' = [client EXCEPT ![c] = r]
    BY <1>5 DEF DropTransaction
  <2>6. Typed([client EXCEPT ![c] = r], queue, ctx, running)
    <3> HIDE DEF r
    <3> QED BY <1>a, <2>4, OneTask
  <2> QED BY <1>5, <2>2, <2>5, <2>6 DEF DropTransaction, Typed
<1>6. ASSUME NEW w \in Worker, HandleStart(w)
      PROVE  Typed(client', queue', ctx', running')
  <2>1. Head(queue[w]) \in Command /\ Tail(queue[w]) \in Seq(Command)
    BY <1>6, <1>c, Received DEF HandleStart
  <2>2. Head(queue[w]).tx \in TxId
    BY <2>1 DEF Command
  <2> QED BY <1>6, <1>a, <2>1, <2>2 DEF HandleStart, Typed
<1>7. ASSUME NEW w \in Worker, HandleOther(w)
      PROVE  Typed(client', queue', ctx', running')
  <2> DEFINE cmd == Head(queue[w])
             r == [client[cmd.from] EXCEPT !.reply = "dropped"]
  <2>1. cmd \in Command /\ Tail(queue[w]) \in Seq(Command)
    BY <1>7, <1>c, Received DEF HandleOther
  <2>2. cmd.from \in Client
    BY <2>1 DEF Command
  <2>3. 0 \in Worker
    BY PoolAssumption DEF Worker
  <2>4. r \in ClientState
    BY <1>b, <2>2, <2>3, TaskTypes DEF Mode
  <2>5. r.phase # "outside" => r.tx \in TxId
    BY <1>b, <2>2 DEF ClientState
  <2>6. client' = client \/ client' = [client EXCEPT ![cmd.from] = r]
    BY <1>7 DEF HandleOther
  <2>7. Typed([client EXCEPT ![cmd.from] = r], queue, ctx, running)
    <3> HIDE DEF r, cmd
    <3> QED BY <1>a, <2>2, <2>4, <2>5, OneTask
  <2>8. queue' \in [Worker -> Seq(Command)] /\ UNCHANGED <<ctx, running>>
    BY <1>7, <1>a, <2>1 DEF HandleOther, Typed
  <2> QED BY <1>a, <2>6, <2>7, <2>8 DEF Typed
<1>8. ASSUME NEW w \in Worker, Exit(w)
      PROVE  Typed(client', queue', ctx', running')
  BY <1>8, <1>a DEF Exit, Typed
<1>9. CASE \E c \in Client, mode \in Mode : AllocateTx(c, mode)
  BY <1>9, <1>1, <1>a DEF AllocateTx
<1>10. CASE \E c \in Client : DispatchStart(c)
  BY <1>10, <1>2, <1>a DEF DispatchStart
<1>11. CASE \E c \in Client, kind \in RequestKind : Request(c, kind)
  BY <1>11, <1>3, <1>a DEF Request, Await
<1>12. CASE \E c \in Client : Commit(c)
  BY <1>12, <1>3, <1>a DEF Commit, Await, EndKind
<1>13. CASE \E c \in Client : Resolve(c) \/ Cancel(c)
  BY <1>13, <1>4, <1>a DEF Resolve, Cancel, FinishRequest
<1>14. CASE \E c \in Client : Drop(c) \/ ResolveCommit(c) \/ CancelCommit(c)
  <2>1. PICK c \in Client : Drop(c) \/ ResolveCommit(c) \/ CancelCommit(c)
    BY <1>14
  <2>2. client[c].phase # "outside" /\ DropTransaction(c)
    BY <2>1 DEF Drop, ResolveCommit, CancelCommit
  <2> QED BY <2>2, <1>5, <1>a DEF DropTransaction
<1>15. CASE DropDatabase
  BY <1>15, <1>a DEF DropDatabase
<1>16. CASE \E w \in Worker : HandleStart(w)
  BY <1>16, <1>6, <1>a DEF HandleStart
<1>17. CASE \E w \in Worker : HandleOther(w)
  BY <1>17, <1>7, <1>a DEF HandleOther
<1>18. CASE \E w \in Worker : Exit(w)
  BY <1>18, <1>8, <1>a DEF Exit
<1>19. CASE UNCHANGED workerVars
  BY <1>19, <1>a DEF workerVars
<1> QED BY <1>9, <1>10, <1>11, <1>12, <1>13, <1>14, <1>15, <1>16, <1>17, <1>18, <1>19 DEF WorkerNext

\* Every variable keeps its type (Database::transaction, Transaction, the worker loop).
THEOREM WorkerTypes == WorkerSpec => []TypeOK
<1>1. TypeInv => TypeOK
  BY DEF TypeInv
<1> QED BY InitTypes, NextTypes, <1>1, PTL DEF WorkerSpec

-----------------------------------------------------------------------------
(* What each action does to the tasks and the channels *)

LEMMA Typing ==
  ASSUME TypeInv
  PROVE  /\ poolRr \in Nat
         /\ \A c \in Client : /\ client[c] \in ClientState
                              /\ client[c].worker \in Worker
                              /\ client[c].await \in Nat /\ client[c].made \in Nat
         /\ \A w \in Worker : queue[w] \in Seq(Command)
BY TypeInvParts DEF Typed, ClientState

\* Only task c changes.
Only(c) == \A d \in Client \ {c} : client'[d] = client[d]

\* Only channel w changes: e is appended, or its head is taken.
Sends(w, e) ==
  /\ queue'[w] = Append(queue[w], e)
  /\ \A v \in Worker \ {w} : queue'[v] = queue[v]

Takes(w) ==
  /\ queue[w] # <<>>
  /\ queue'[w] = Tail(queue[w])
  /\ \A v \in Worker \ {w} : queue'[v] = queue[v]

LEMMA AllocateEffect ==
  ASSUME TypeInv, NEW c \in Client, NEW mode \in Mode, AllocateTx(c, mode)
  PROVE  /\ Only(c) /\ client[c].phase = "outside" /\ client'[c].phase = "allocated"
         /\ client'[c].await = client[c].await /\ client'[c].made = client[c].made
         /\ dbAlive /\ UNCHANGED <<dbAlive, queue, ctx, running>>
BY TypeInvParts DEF Typed, ClientState, AllocateTx, Only

LEMMA DispatchEffect ==
  ASSUME TypeInv, NEW c \in Client, DispatchStart(c)
  PROVE  /\ Only(c) /\ client[c].phase = "allocated" /\ client'[c].phase = "idle"
         /\ client'[c].worker = Kept(poolRr) /\ Kept(poolRr) \in Worker
         /\ client'[c].tx = client[c].tx
         /\ client'[c].await = client[c].await /\ client'[c].made = client[c].made
         /\ Sends(Kept(poolRr), StartCommand(c)) /\ StartCommand(c) \in Command
         /\ UNCHANGED <<dbAlive, ctx, running>>
<1>1. Kept(poolRr) \in Worker /\ Kept(poolRr) = Picked(poolRr)
  BY Typing, PickedIsWorker DEF Kept
<1>2. StartCommand(c) \in Command
  BY DEF DispatchStart, StartCommand, Command, TypeInv
<1> QED BY <1>1, <1>2, TypeInvParts DEF Typed, ClientState, DispatchStart, Only, Sends

\* The command a task sends.
CommandOf(c, kind, req) == [kind |-> kind, tx |-> client[c].tx, from |-> c, req |-> req]

LEMMA AwaitEffect ==
  ASSUME TypeInv, NEW c \in Client, NEW kind \in RequestKind \cup EndKind,
         NEW phase \in {"waiting", "committing"}, Await(c, kind, phase)
  PROVE  /\ Only(c) /\ client[c].phase = "idle" /\ client'[c].phase = phase
         /\ client'[c].worker = client[c].worker /\ client'[c].tx = client[c].tx
         /\ client'[c].await = client[c].made + 1 /\ client'[c].made = client[c].made + 1
         /\ client'[c].reply = "none"
         /\ Sends(client[c].worker, CommandOf(c, kind, client[c].made + 1))
         /\ CommandOf(c, kind, client[c].made + 1) \in Command
         /\ UNCHANGED <<dbAlive, ctx, running>>
<1>1. CommandOf(c, kind, client[c].made + 1) \in Command
  BY Typing DEF CommandOf, Command, Await, TypeInv
<1>2. Sends(client[c].worker, CommandOf(c, kind, client[c].made + 1))
  BY Typing, TypeInvParts DEF Await, Send, Sends, CommandOf, Typed
<1> QED BY <1>1, <1>2, TypeInvParts DEF Typed, ClientState, Await, Only

LEMMA FinishEffect ==
  ASSUME TypeInv, NEW c \in Client, FinishRequest(c)
  PROVE  /\ Only(c) /\ client[c].phase = "waiting" /\ client'[c].phase = "idle"
         /\ client'[c].worker = client[c].worker /\ client'[c].tx = client[c].tx
         /\ client'[c].await = 0 /\ client'[c].made = client[c].made
         /\ UNCHANGED <<dbAlive, queue, ctx, running>>
BY TypeInvParts DEF Typed, ClientState, FinishRequest, Only

\* The ways a transaction is dropped.
Dropping(c) == Drop(c) \/ ResolveCommit(c) \/ CancelCommit(c)

LEMMA DropEffect ==
  ASSUME TypeInv, NEW c \in Client, Dropping(c)
  PROVE  /\ Only(c) /\ Holds(c) /\ client'[c].phase = "outside"
         /\ client'[c].await = 0 /\ client'[c].made = client[c].made
         /\ Sends(client[c].worker, CommandOf(c, EndOf(client[c].mode), 0))
         /\ CommandOf(c, EndOf(client[c].mode), 0) \in Command
         /\ UNCHANGED <<dbAlive, ctx, running>>
<1>1. DropTransaction(c) /\ Holds(c)
  BY DEF Dropping, Drop, ResolveCommit, CancelCommit, Holds
<1>2. EndOf(client[c].mode) \in EndKind
  BY DEF EndOf, EndKind
<1>3. CommandOf(c, EndOf(client[c].mode), 0) \in Command
  BY <1>1, <1>2 DEF CommandOf, Command, TypeInv, Holds
<1>4. Sends(client[c].worker, CommandOf(c, EndOf(client[c].mode), 0))
  BY <1>1, Typing, TypeInvParts DEF DropTransaction, Send, Sends, CommandOf, Typed
<1>5. client' = [client EXCEPT ![c] = [Outside EXCEPT !.made = client[c].made]]
  BY <1>1 DEF DropTransaction
<1>6. client'[c] = [Outside EXCEPT !.made = client[c].made] /\ Only(c)
  BY <1>5, TypeInvParts DEF Typed, Only
<1>7. client'[c].phase = "outside" /\ client'[c].await = 0 /\ client'[c].made = client[c].made
  BY <1>6 DEF Outside
<1> QED BY <1>1, <1>3, <1>4, <1>6, <1>7 DEF DropTransaction

LEMMA StartEffect ==
  ASSUME TypeInv, NEW w \in Worker, HandleStart(w)
  PROVE  /\ Takes(w) /\ Head(queue[w]).kind = "StartTransaction"
         /\ ctx'[w] = ctx[w] \cup {Head(queue[w]).tx}
         /\ \A v \in Worker \ {w} : ctx'[v] = ctx[v]
         /\ UNCHANGED <<dbAlive, client, running>>
BY TypeInvParts DEF Typed, HandleStart, Takes

LEMMA OtherEffect ==
  ASSUME TypeInv, NEW w \in Worker, HandleOther(w)
  PROVE  /\ Takes(w) /\ Head(queue[w]).kind # "StartTransaction"
         /\ \A d \in Client :
              /\ client'[d].phase = client[d].phase /\ client'[d].worker = client[d].worker
              /\ client'[d].tx = client[d].tx /\ client'[d].await = client[d].await
              /\ client'[d].made = client[d].made
              /\ client'[d].reply =
                   IF Head(queue[w]).from = d /\ Waits(Head(queue[w])) THEN "dropped"
                   ELSE client[d].reply
         /\ UNCHANGED <<dbAlive, ctx, running>>
<1> DEFINE cmd == Head(queue[w])
<1>1. cmd \in Command
  BY Typing, Received DEF HandleOther
<1>2. cmd.from \in Client
  BY <1>1 DEF Command
<1>3. Takes(w) /\ cmd.kind # "StartTransaction"
  BY TypeInvParts DEF Typed, HandleOther, Takes
<1>4. CASE Waits(cmd)
  <2>1. client' = [client EXCEPT ![cmd.from].reply = "dropped"]
    BY <1>4 DEF HandleOther
  <2> HIDE DEF cmd
  <2>2. \A d \in Client :
          client'[d] = IF d = cmd.from THEN [client[d] EXCEPT !.reply = "dropped"] ELSE client[d]
    BY <1>2, <2>1, TypeInvParts DEF Typed
  <2>3. \A d \in Client :
          LET r == [client[d] EXCEPT !.reply = "dropped"]
          IN /\ r.phase = client[d].phase /\ r.worker = client[d].worker
             /\ r.tx = client[d].tx /\ r.await = client[d].await
             /\ r.made = client[d].made /\ r.reply = "dropped"
    BY Typing DEF ClientState
  <2>4. \A d \in Client :
          /\ client'[d].phase = client[d].phase /\ client'[d].worker = client[d].worker
          /\ client'[d].tx = client[d].tx /\ client'[d].await = client[d].await
          /\ client'[d].made = client[d].made
          /\ client'[d].reply = IF cmd.from = d THEN "dropped" ELSE client[d].reply
    BY <2>2, <2>3
  <2>5. UNCHANGED <<dbAlive, ctx, running>>
    BY DEF HandleOther
  <2> QED BY <1>3, <1>4, <2>4, <2>5 DEF cmd
<1>5. CASE ~Waits(cmd)
  BY <1>3, <1>5 DEF HandleOther
<1> QED BY <1>4, <1>5

LEMMA ExitEffect ==
  ASSUME TypeInv, NEW w \in Worker, Exit(w)
  PROVE  /\ queue[w] = <<>> /\ ~HasSender(w)
         /\ ~running'[w] /\ ctx'[w] = {}
         /\ \A v \in Worker \ {w} : running'[v] = running[v] /\ ctx'[v] = ctx[v]
         /\ UNCHANGED <<dbAlive, client, queue>>
BY TypeInvParts DEF Typed, Exit

\* Every step is one of these.
LEMMA Steps ==
  ASSUME [WorkerNext]_workerVars
  PROVE  \/ \E c \in Client, mode \in Mode : AllocateTx(c, mode)
         \/ \E c \in Client : DispatchStart(c)
         \/ \E c \in Client, kind \in RequestKind \cup EndKind,
              phase \in {"waiting", "committing"} :
              Await(c, kind, phase) /\ (kind \in EndKind <=> phase = "committing")
         \/ \E c \in Client : FinishRequest(c)
         \/ \E c \in Client : Dropping(c)
         \/ DropDatabase
         \/ \E w \in Worker : HandleStart(w)
         \/ \E w \in Worker : HandleOther(w)
         \/ \E w \in Worker : Exit(w)
         \/ UNCHANGED workerVars
BY KindAssumption DEF WorkerNext, Request, Commit, Resolve, Cancel, Dropping, EndKind
-----------------------------------------------------------------------------
(* A worker lives as long as anyone can send to it *)

\* The handle outlives the calls that borrow it, so the worker a task is about to
\* start a transaction at is running.
SendersInv ==
  /\ SendersKeepWorkersRunning
  /\ \A c \in Client : client[c].phase = "allocated" => dbAlive

LEMMA InitSenders == WorkerInit => SendersInv
BY DEF WorkerInit, SendersInv, SendersKeepWorkersRunning, Holds, Outside

LEMMA NextSenders == TypeInv /\ SendersInv /\ [WorkerNext]_workerVars => SendersInv'
<1> SUFFICES ASSUME TypeInv, SendersInv, [WorkerNext]_workerVars PROVE SendersInv'
  OBVIOUS
<1> USE DEF SendersInv, SendersKeepWorkersRunning, Holds
<1>1. CASE \E c \in Client, mode \in Mode : AllocateTx(c, mode)
  BY <1>1, AllocateEffect DEF Only
<1>2. CASE \E c \in Client : DispatchStart(c)
  BY <1>2, DispatchEffect DEF Only
<1>3. CASE \E c \in Client, kind \in RequestKind \cup EndKind,
              phase \in {"waiting", "committing"} : Await(c, kind, phase)
  BY <1>3, AwaitEffect DEF Only
<1>4. CASE \E c \in Client : FinishRequest(c)
  BY <1>4, FinishEffect DEF Only
<1>5. CASE \E c \in Client : Dropping(c)
  BY <1>5, DropEffect DEF Only
<1>6. CASE DropDatabase
  BY <1>6 DEF DropDatabase
<1>7. CASE \E w \in Worker : HandleStart(w)
  BY <1>7, StartEffect
<1>8. CASE \E w \in Worker : HandleOther(w)
  <2>1. PICK w \in Worker : HandleOther(w)
    BY <1>8
  <2>2. /\ \A d \in Client : client'[d].phase = client[d].phase
                          /\ client'[d].worker = client[d].worker
        /\ UNCHANGED <<dbAlive, running>>
    BY <2>1, OtherEffect
  <2> QED BY <2>2
<1>9. CASE \E w \in Worker : Exit(w)
  <2>1. PICK w \in Worker : Exit(w)
    BY <1>9
  <2>2. /\ \A v \in Worker \ {w} : running'[v] = running[v]
        /\ UNCHANGED <<dbAlive, client>>
    BY <2>1, ExitEffect
  <2>3. ~dbAlive /\ \A c \in Client : Holds(c) => client[c].worker # w
    BY <2>1, ExitEffect DEF HasSender
  <2> QED BY <2>2, <2>3, Typing
<1>10. CASE UNCHANGED workerVars
  BY <1>10 DEF workerVars
<1> QED BY <1>1, <1>2, <1>3, <1>4, <1>5, <1>6, <1>7, <1>8, <1>9, <1>10, Steps

\* run_transaction_thread returns only when no one can send to it, in every pool.
THEOREM SendersKeepRunning == WorkerSpec => []SendersKeepWorkersRunning
<1>1. SendersInv => SendersKeepWorkersRunning
  BY DEF SendersInv
<1> QED BY InitTypes, NextTypes, InitSenders, NextSenders, <1>1, PTL DEF WorkerSpec

-----------------------------------------------------------------------------
(* No command overtakes the start of its transaction *)

\* A channel q, with the contexts x of its worker: tx started before position i.
StartedIn(q, x, tx, i) ==
  \/ tx \in x
  \/ \E j \in 1 .. Len(q) : j < i /\ q[j].kind = "StartTransaction" /\ q[j].tx = tx

Ordered(q, x) ==
  \A i \in 1 .. Len(q) : q[i].kind # "StartTransaction" => StartedIn(q, x, q[i].tx, i)

\* What a task sends next is also in order.
StartInv ==
  /\ \A w \in Worker : Ordered(queue[w], ctx[w])
  /\ \A c \in Client : Holds(c) =>
       LET w == client[c].worker
       IN StartedIn(queue[w], ctx[w], client[c].tx, Len(queue[w]) + 1)

LEMMA AppendKeepsStarted ==
  ASSUME NEW q \in Seq(Command), NEW e \in Command, NEW x, NEW tx,
         StartedIn(q, x, tx, Len(q) + 1)
  PROVE  /\ StartedIn(Append(q, e), x, tx, Len(q) + 1)
         /\ StartedIn(Append(q, e), x, tx, Len(Append(q, e)) + 1)
<1>1. CASE tx \in x
  BY <1>1 DEF StartedIn
<1>2. ASSUME NEW j \in 1 .. Len(q), q[j].kind = "StartTransaction" /\ q[j].tx = tx
      PROVE  /\ j \in 1 .. Len(Append(q, e)) /\ j < Len(q) + 1
             /\ j < Len(Append(q, e)) + 1 /\ Append(q, e)[j] = q[j]
  BY Sent
<1> QED BY <1>1, <1>2 DEF StartedIn

LEMMA AppendStarts ==
  ASSUME NEW q \in Seq(Command), NEW e \in Command, NEW x,
         e.kind = "StartTransaction"
  PROVE  StartedIn(Append(q, e), x, e.tx, Len(Append(q, e)) + 1)
<1>1. Len(q) + 1 \in 1 .. Len(Append(q, e)) /\ Len(q) + 1 < Len(Append(q, e)) + 1
  BY Sent
<1> QED BY <1>1, Sent DEF StartedIn

LEMMA AppendOrdered ==
  ASSUME NEW q \in Seq(Command), NEW e \in Command, NEW x, Ordered(q, x),
         e.kind # "StartTransaction" => StartedIn(q, x, e.tx, Len(q) + 1)
  PROVE  Ordered(Append(q, e), x)
<1> DEFINE p == Append(q, e)
<1>1. /\ Len(q) \in Nat /\ Len(p) = Len(q) + 1
      /\ \A i \in 1 .. Len(q) : p[i] = q[i]
      /\ p[Len(q) + 1] = e
  BY Sent
<1>2. e.kind # "StartTransaction" => StartedIn(p, x, e.tx, Len(q) + 1)
  BY AppendKeepsStarted
<1> HIDE DEF p
<1>3. ASSUME NEW i \in 1 .. Len(q), p[i].kind # "StartTransaction"
      PROVE  StartedIn(p, x, p[i].tx, i)
  <2>1. StartedIn(q, x, q[i].tx, i)
    BY <1>1, <1>3 DEF Ordered
  <2>2. ASSUME NEW j \in 1 .. Len(q) PROVE j \in 1 .. Len(p) /\ p[j] = q[j]
    BY <1>1
  <2> QED BY <1>1, <2>1, <2>2 DEF StartedIn
<1>4. \A i \in 1 .. Len(p) : i \in 1 .. Len(q) \/ i = Len(q) + 1
  BY <1>1
<1> QED BY <1>1, <1>2, <1>3, <1>4 DEF Ordered, p

LEMMA TakeKeepsStarted ==
  ASSUME NEW q \in Seq(Command), q # <<>>, NEW x, NEW y, NEW tx, NEW i \in Nat,
         x \subseteq y, q[1].kind = "StartTransaction" => q[1].tx \in y,
         StartedIn(q, x, tx, i + 1)
  PROVE  StartedIn(Tail(q), y, tx, i)
<1>1. /\ Len(q) \in Nat \ {0} /\ Len(Tail(q)) = Len(q) - 1
      /\ \A k \in 1 .. Len(q) - 1 : Tail(q)[k] = q[k + 1]
  BY Received
<1>2. CASE tx \in x
  BY <1>2 DEF StartedIn
<1>3. ASSUME NEW j \in 1 .. Len(q), j < i + 1,
             q[j].kind = "StartTransaction", q[j].tx = tx
      PROVE  StartedIn(Tail(q), y, tx, i)
  <2>1. CASE j = 1
    BY <2>1, <1>3 DEF StartedIn
  <2>2. CASE j # 1
    <3>1. j - 1 \in 1 .. Len(Tail(q)) /\ j - 1 < i /\ Tail(q)[j - 1] = q[j]
      BY <1>1, <1>3, <2>2
    <3> QED BY <1>3, <3>1 DEF StartedIn
  <2> QED BY <2>1, <2>2
<1> QED BY <1>2, <1>3 DEF StartedIn

LEMMA TakeOrdered ==
  ASSUME NEW q \in Seq(Command), q # <<>>, NEW x, NEW y,
         x \subseteq y, q[1].kind = "StartTransaction" => q[1].tx \in y,
         Ordered(q, x)
  PROVE  Ordered(Tail(q), y)
<1>1. /\ Len(q) \in Nat \ {0} /\ Len(Tail(q)) = Len(q) - 1
      /\ \A k \in 1 .. Len(q) - 1 : Tail(q)[k] = q[k + 1]
  BY Received
<1> SUFFICES ASSUME NEW i \in 1 .. Len(Tail(q)), Tail(q)[i].kind # "StartTransaction"
             PROVE  StartedIn(Tail(q), y, Tail(q)[i].tx, i)
  BY DEF Ordered
<1>2. i \in Nat /\ i + 1 \in 1 .. Len(q) /\ Tail(q)[i] = q[i + 1]
  BY <1>1
<1>3. StartedIn(q, x, q[i + 1].tx, i + 1)
  BY <1>2 DEF Ordered
<1> QED BY <1>2, <1>3, TakeKeepsStarted

\* A send in order keeps every channel in order.
LEMMA SendStarts ==
  ASSUME TypeInv, StartInv, NEW w \in Worker, NEW e \in Command, Sends(w, e),
         e.kind # "StartTransaction" => StartedIn(queue[w], ctx[w], e.tx, Len(queue[w]) + 1),
         UNCHANGED ctx
  PROVE  /\ \A v \in Worker : Ordered(queue'[v], ctx'[v])
         /\ \A c \in Client : Holds(c) =>
              StartedIn(queue'[client[c].worker], ctx'[client[c].worker],
                        client[c].tx, Len(queue'[client[c].worker]) + 1)
<1>1. \A v \in Worker : Ordered(queue'[v], ctx'[v])
  BY Typing, AppendOrdered DEF Sends, StartInv
<1>2. ASSUME NEW c \in Client, Holds(c)
      PROVE  StartedIn(queue'[client[c].worker], ctx'[client[c].worker],
                       client[c].tx, Len(queue'[client[c].worker]) + 1)
  <2> DEFINE v == client[c].worker
  <2>1. v \in Worker /\ queue[v] \in Seq(Command)
    BY Typing
  <2>2. StartedIn(queue[v], ctx[v], client[c].tx, Len(queue[v]) + 1)
    BY <1>2 DEF StartInv
  <2> HIDE DEF v
  <2>3. v = w => StartedIn(queue'[v], ctx'[v], client[c].tx, Len(queue'[v]) + 1)
    BY <2>1, <2>2, AppendKeepsStarted DEF Sends
  <2>4. v # w => StartedIn(queue'[v], ctx'[v], client[c].tx, Len(queue'[v]) + 1)
    BY <2>1, <2>2 DEF Sends
  <2> QED BY <2>3, <2>4 DEF v
<1> QED BY <1>1, <1>2

\* So does a receive that records the start it takes.
LEMMA ReceiveStarts ==
  ASSUME TypeInv, StartInv, NEW w \in Worker, Takes(w),
         \A v \in Worker : ctx[v] \subseteq ctx'[v],
         Head(queue[w]).kind = "StartTransaction" => Head(queue[w]).tx \in ctx'[w],
         \A v \in Worker \ {w} : ctx'[v] = ctx[v]
  PROVE  /\ \A v \in Worker : Ordered(queue'[v], ctx'[v])
         /\ \A c \in Client : Holds(c) =>
              StartedIn(queue'[client[c].worker], ctx'[client[c].worker],
                        client[c].tx, Len(queue'[client[c].worker]) + 1)
<1>0. /\ queue[w] \in Seq(Command) /\ queue[w] # <<>>
      /\ Head(queue[w]) = queue[w][1]
      /\ Len(queue[w]) \in Nat /\ Len(queue'[w]) + 1 = Len(queue[w])
      /\ queue'[w] = Tail(queue[w])
  BY Typing, Received DEF Takes
<1>1. \A v \in Worker : Ordered(queue'[v], ctx'[v])
  <2>1. Ordered(queue'[w], ctx'[w])
    BY <1>0, TakeOrdered DEF StartInv
  <2> QED BY <2>1 DEF Takes, StartInv
<1>2. ASSUME NEW c \in Client, Holds(c)
      PROVE  StartedIn(queue'[client[c].worker], ctx'[client[c].worker],
                       client[c].tx, Len(queue'[client[c].worker]) + 1)
  <2> DEFINE v == client[c].worker
  <2>1. v \in Worker
    BY Typing
  <2>2. StartedIn(queue[v], ctx[v], client[c].tx, Len(queue[v]) + 1)
    BY <1>2 DEF StartInv
  <2> HIDE DEF v
  <2>3. v = w => StartedIn(queue'[v], ctx'[v], client[c].tx, Len(queue'[v]) + 1)
    <3>1. Len(queue'[w]) \in Nat
      BY <1>0, Received
    <3> SUFFICES ASSUME v = w
                 PROVE  StartedIn(Tail(queue[w]), ctx'[w], client[c].tx, Len(queue'[w]) + 1)
      BY <1>0
    <3>2. StartedIn(queue[w], ctx[w], client[c].tx, (Len(queue'[w]) + 1) + 1)
      BY <1>0, <2>2
    <3>3. queue[w][1].kind = "StartTransaction" => queue[w][1].tx \in ctx'[w]
      BY <1>0
    <3>4. ctx[w] \subseteq ctx'[w] /\ Len(queue'[w]) + 1 \in Nat
      BY <3>1
    <3> QED BY <1>0, <3>2, <3>3, <3>4, TakeKeepsStarted
  <2>4. v # w => StartedIn(queue'[v], ctx'[v], client[c].tx, Len(queue'[v]) + 1)
    BY <2>1, <2>2 DEF Takes
  <2> QED BY <2>3, <2>4 DEF v
<1> QED BY <1>1, <1>2

LEMMA InitStarts == WorkerInit => StartInv
BY EmptySeq DEF WorkerInit, StartInv, Ordered, Holds, Outside

LEMMA NextStarts == TypeInv /\ StartInv /\ [WorkerNext]_workerVars => StartInv'
<1> SUFFICES ASSUME TypeInv, StartInv, [WorkerNext]_workerVars PROVE StartInv'
  OBVIOUS
<1>1. ASSUME NEW c \in Client, NEW mode \in Mode, AllocateTx(c, mode) PROVE StartInv'
  BY <1>1, AllocateEffect DEF StartInv, Only, Holds
<1>2. ASSUME NEW c \in Client, DispatchStart(c) PROVE StartInv'
  <2> DEFINE w == Kept(poolRr)
             e == StartCommand(c)
  <2>1. /\ Only(c) /\ client'[c].worker = w /\ client'[c].tx = client[c].tx
        /\ w \in Worker /\ e \in Command /\ Sends(w, e) /\ UNCHANGED ctx
    BY <1>2, DispatchEffect
  <2>2. e.kind = "StartTransaction" /\ e.tx = client[c].tx
    BY DEF StartCommand
  <2> HIDE DEF w, e
  <2>3. StartedIn(queue'[w], ctx'[w], client[c].tx, Len(queue'[w]) + 1)
    BY <2>1, <2>2, Typing, AppendStarts DEF Sends
  <2>4. /\ \A v \in Worker : Ordered(queue'[v], ctx'[v])
        /\ \A d \in Client : Holds(d) =>
             StartedIn(queue'[client[d].worker], ctx'[client[d].worker],
                       client[d].tx, Len(queue'[client[d].worker]) + 1)
    BY <2>1, <2>2, SendStarts
  <2> QED BY <2>1, <2>3, <2>4 DEF StartInv, Only, Holds
<1>3. ASSUME NEW c \in Client, NEW kind \in RequestKind \cup EndKind,
             NEW phase \in {"waiting", "committing"}, Await(c, kind, phase)
      PROVE  StartInv'
  <2> DEFINE w == client[c].worker
             e == CommandOf(c, kind, client[c].made + 1)
  <2>1. /\ Only(c) /\ Holds(c)
        /\ client'[c].worker = w /\ client'[c].tx = client[c].tx
        /\ w \in Worker /\ e \in Command /\ Sends(w, e) /\ UNCHANGED ctx
    BY <1>3, AwaitEffect, Typing DEF Holds
  <2>2. e.tx = client[c].tx
    BY DEF CommandOf
  <2>3. StartedIn(queue[w], ctx[w], e.tx, Len(queue[w]) + 1)
    BY <2>1, <2>2 DEF StartInv
  <2> HIDE DEF w, e
  <2>4. /\ \A v \in Worker : Ordered(queue'[v], ctx'[v])
        /\ \A d \in Client : Holds(d) =>
             StartedIn(queue'[client[d].worker], ctx'[client[d].worker],
                       client[d].tx, Len(queue'[client[d].worker]) + 1)
    BY <2>1, <2>3, SendStarts
  <2>5. w = client[c].worker
    BY DEF w
  <2> QED BY <2>1, <2>4, <2>5 DEF StartInv, Only, Holds
<1>4. ASSUME NEW c \in Client, FinishRequest(c) PROVE StartInv'
  BY <1>4, FinishEffect DEF StartInv, Only, Holds
<1>5. ASSUME NEW c \in Client, Dropping(c) PROVE StartInv'
  <2> DEFINE w == client[c].worker
             e == CommandOf(c, EndOf(client[c].mode), 0)
  <2>1. /\ Only(c) /\ Holds(c) /\ client'[c].phase = "outside"
        /\ w \in Worker /\ e \in Command /\ Sends(w, e) /\ UNCHANGED ctx
    BY <1>5, DropEffect, Typing
  <2>2. e.tx = client[c].tx
    BY DEF CommandOf
  <2>3. StartedIn(queue[w], ctx[w], e.tx, Len(queue[w]) + 1)
    BY <2>1, <2>2 DEF StartInv
  <2> HIDE DEF w, e
  <2>4. /\ \A v \in Worker : Ordered(queue'[v], ctx'[v])
        /\ \A d \in Client : Holds(d) =>
             StartedIn(queue'[client[d].worker], ctx'[client[d].worker],
                       client[d].tx, Len(queue'[client[d].worker]) + 1)
    BY <2>1, <2>3, SendStarts
  <2> QED BY <2>1, <2>4 DEF StartInv, Only, Holds
<1>6. ASSUME NEW w \in Worker, HandleStart(w) PROVE StartInv'
  <2>1. /\ Takes(w) /\ UNCHANGED client
        /\ \A v \in Worker : ctx[v] \subseteq ctx'[v]
        /\ Head(queue[w]).tx \in ctx'[w]
        /\ \A v \in Worker \ {w} : ctx'[v] = ctx[v]
    BY <1>6, StartEffect
  <2> QED BY <2>1, ReceiveStarts DEF StartInv, Holds
<1>7. ASSUME NEW w \in Worker, HandleOther(w) PROVE StartInv'
  <2>1. /\ Takes(w) /\ Head(queue[w]).kind # "StartTransaction" /\ UNCHANGED ctx
        /\ \A d \in Client : /\ client'[d].phase = client[d].phase
                             /\ client'[d].worker = client[d].worker
                             /\ client'[d].tx = client[d].tx
    BY <1>7, OtherEffect
  <2>2. /\ \A v \in Worker : Ordered(queue'[v], ctx'[v])
        /\ \A d \in Client : Holds(d) =>
             StartedIn(queue'[client[d].worker], ctx'[client[d].worker],
                       client[d].tx, Len(queue'[client[d].worker]) + 1)
    BY <2>1, ReceiveStarts
  <2> QED BY <2>1, <2>2 DEF StartInv, Holds
<1>8. ASSUME NEW w \in Worker, Exit(w) PROVE StartInv'
  <2>1. /\ queue[w] = <<>> /\ UNCHANGED <<client, queue>>
        /\ \A c \in Client : Holds(c) => client[c].worker # w
        /\ \A v \in Worker \ {w} : ctx'[v] = ctx[v]
    BY <1>8, ExitEffect DEF HasSender
  <2>2. Ordered(queue'[w], ctx'[w])
    BY <2>1, EmptySeq DEF Ordered
  <2> QED BY <2>1, <2>2, Typing DEF StartInv, Holds
<1>9. CASE DropDatabase
  BY <1>9 DEF DropDatabase, StartInv, Holds
<1>10. CASE UNCHANGED workerVars
  BY <1>10 DEF workerVars, StartInv, Holds
<1> QED BY <1>1, <1>2, <1>3, <1>4, <1>5, <1>6, <1>7, <1>8, <1>9, <1>10, Steps

\* Database::transaction: whatever tasks interleave between the id, the worker and the
\* send, no worker meets a command of a transaction it was not asked to start.
THEOREM StartsPrecedeUses == WorkerSpec => []StartPrecedesUse
<1>1. StartInv => StartPrecedesUse
  BY DEF StartInv, Ordered, StartedIn, StartPrecedesUse, StartedBefore
<1> QED BY InitTypes, NextTypes, InitStarts, NextStarts, <1>1, PTL DEF WorkerSpec

-----------------------------------------------------------------------------
(* An awaited request is in the channel until its responder is dropped *)

\* Request n of task c is in channel q.
Queued(q, c, n) == \E i \in 1 .. Len(q) : q[i].from = c /\ q[i].req = n

\* No request is in q twice, and nobody awaits a StartTransaction.
Once(q) ==
  /\ \A i, j \in 1 .. Len(q) :
       (q[i].req # 0 /\ q[i].from = q[j].from /\ q[i].req = q[j].req) => i = j
  /\ \A i \in 1 .. Len(q) : q[i].kind = "StartTransaction" => q[i].req = 0

\* Requests carry numbers their task has used, each at one worker only.
Numbered(qs, cl) ==
  \A c \in Client, n \in Nat \ {0} : \A w \in Worker : Queued(qs[w], c, n) =>
    /\ n <= cl[c].made
    /\ \A v \in Worker : Queued(qs[v], c, n) => v = w

Awaits(cl) ==
  \A c \in Client : cl[c].await # 0 =>
    cl[c].phase \in {"waiting", "committing"} /\ cl[c].await = cl[c].made

Pending(qs, cl) ==
  \A c \in Client : cl[c].await # 0 =>
    (cl[c].reply = "none" <=> Queued(qs[cl[c].worker], c, cl[c].await))

\* Awaited requests are told apart from stale ones by their numbers.
PendInv ==
  /\ \A w \in Worker : Once(queue[w])
  /\ Numbered(queue, client)
  /\ Awaits(client)
  /\ Pending(queue, client)

LEMMA AppendQueued ==
  ASSUME NEW q \in Seq(Command), NEW e \in Command, NEW c, NEW n
  PROVE  Queued(Append(q, e), c, n) <=> Queued(q, c, n) \/ (e.from = c /\ e.req = n)
<1> DEFINE p == Append(q, e)
<1>1. /\ Len(q) \in Nat /\ Len(p) = Len(q) + 1
      /\ \A i \in 1 .. Len(q) : p[i] = q[i]
      /\ p[Len(q) + 1] = e
  BY Sent
<1> HIDE DEF p
<1>2. \A i : i \in 1 .. Len(p) <=> i \in 1 .. Len(q) \/ i = Len(q) + 1
  BY <1>1
<1> QED BY <1>1, <1>2 DEF Queued, p

LEMMA TakeQueued ==
  ASSUME NEW q \in Seq(Command), q # <<>>, NEW c, NEW n
  PROVE  Queued(q, c, n) <=> Queued(Tail(q), c, n) \/ (q[1].from = c /\ q[1].req = n)
<1> DEFINE p == Tail(q)
<1>1. /\ Len(q) \in Nat \ {0} /\ Len(p) = Len(q) - 1
      /\ \A i \in 1 .. Len(q) - 1 : p[i] = q[i + 1]
  BY Received
<1> HIDE DEF p
<1>2. ASSUME NEW i \in 1 .. Len(p) PROVE i + 1 \in 1 .. Len(q) /\ p[i] = q[i + 1]
  BY <1>1
<1>3. ASSUME NEW i \in 1 .. Len(q), i # 1 PROVE i - 1 \in 1 .. Len(p) /\ p[i - 1] = q[i]
  BY <1>1, <1>3
<1>4. 1 \in 1 .. Len(q)
  BY <1>1
<1> QED BY <1>2, <1>3, <1>4 DEF Queued, p

LEMMA AppendOnce ==
  ASSUME NEW q \in Seq(Command), NEW e \in Command, Once(q),
         e.req = 0 \/ ~Queued(q, e.from, e.req),
         e.kind = "StartTransaction" => e.req = 0
  PROVE  Once(Append(q, e))
<1> DEFINE p == Append(q, e)
<1>1. /\ Len(q) \in Nat /\ Len(p) = Len(q) + 1
      /\ \A i \in 1 .. Len(q) : p[i] = q[i]
      /\ p[Len(q) + 1] = e
  BY Sent
<1> HIDE DEF p
<1>2. \A i \in 1 .. Len(p) : i \in 1 .. Len(q) \/ i = Len(q) + 1
  BY <1>1
<1>3. \A i \in 1 .. Len(q) : q[i].from = e.from /\ q[i].req = e.req => e.req = 0
  BY DEF Queued
<1> QED BY <1>1, <1>2, <1>3 DEF Once, p

LEMMA TakeOnce ==
  ASSUME NEW q \in Seq(Command), q # <<>>, Once(q)
  PROVE  /\ Once(Tail(q))
         /\ q[1].req # 0 => ~Queued(Tail(q), q[1].from, q[1].req)
         /\ q[1].kind = "StartTransaction" => q[1].req = 0
<1> DEFINE p == Tail(q)
<1>1. /\ Len(q) \in Nat \ {0} /\ Len(p) = Len(q) - 1
      /\ \A i \in 1 .. Len(q) - 1 : p[i] = q[i + 1]
  BY Received
<1> HIDE DEF p
<1>2. ASSUME NEW i \in 1 .. Len(p)
      PROVE i \in Nat /\ i + 1 \in 1 .. Len(q) /\ i + 1 # 1 /\ p[i] = q[i + 1]
  BY <1>1
<1>3. 1 \in 1 .. Len(q)
  BY <1>1
<1>4. Once(p)
  <2>1. ASSUME NEW i \in 1 .. Len(p), NEW j \in 1 .. Len(p), p[i].req # 0,
               p[i].from = p[j].from, p[i].req = p[j].req
        PROVE  i = j
    <3>1. i + 1 = j + 1
      BY <1>2, <2>1 DEF Once
    <3> QED BY <1>2, <3>1
  <2>2. \A i \in 1 .. Len(p) : p[i].kind = "StartTransaction" => p[i].req = 0
    BY <1>2 DEF Once
  <2> QED BY <2>1, <2>2 DEF Once
<1>5. q[1].req # 0 => ~Queued(p, q[1].from, q[1].req)
  BY <1>2, <1>3 DEF Once, Queued
<1> QED BY <1>3, <1>4, <1>5 DEF Once, p

\* A send nobody awaits changes no channel's requests.
LEMMA UnawaitedSend ==
  ASSUME TypeInv, PendInv, NEW w \in Worker, NEW e \in Command, Sends(w, e), e.req = 0
  PROVE  /\ \A v \in Worker : Once(queue'[v])
         /\ \A v \in Worker, c \in Client, n \in Nat \ {0} :
              Queued(queue'[v], c, n) <=> Queued(queue[v], c, n)
<1>1. \A v \in Worker : Once(queue'[v])
  BY Typing, AppendOnce DEF Sends, PendInv
<1>2. \A c \in Client, n \in Nat \ {0} : Queued(queue'[w], c, n) <=> Queued(queue[w], c, n)
  BY Typing, AppendQueued DEF Sends
<1> QED BY <1>1, <1>2 DEF Sends

\* The parts of the invariant that follow when the channels keep their requests.
LEMMA SameRequests ==
  ASSUME TypeInv, TypeInv', PendInv,
         \A v \in Worker : Once(queue'[v]),
         \A v \in Worker, c \in Client, n \in Nat \ {0} :
           Queued(queue'[v], c, n) <=> Queued(queue[v], c, n),
         \A c \in Client : client'[c].made = client[c].made,
         \A c \in Client : client'[c].await # 0 =>
           /\ client'[c].await = client[c].await /\ client'[c].reply = client[c].reply
           /\ client'[c].worker = client[c].worker /\ client'[c].phase = client[c].phase
  PROVE  PendInv'
<1>1. Numbered(queue', client')
  BY DEF PendInv, Numbered
<1>2. Awaits(client')
  BY DEF PendInv, Awaits
<1>3. Pending(queue', client')
  <2> SUFFICES ASSUME NEW c \in Client, client'[c].await # 0
               PROVE  client'[c].reply = "none"
                        <=> Queued(queue'[client'[c].worker], c, client'[c].await)
    BY DEF Pending
  <2>1. client[c].worker \in Worker /\ client[c].await \in Nat \ {0}
    BY Typing
  <2> QED BY <2>1 DEF PendInv, Pending
<1> QED BY <1>1, <1>2, <1>3 DEF PendInv

LEMMA InitPending == WorkerInit => PendInv
<1> SUFFICES ASSUME WorkerInit PROVE PendInv
  OBVIOUS
<1>1. \A c \in Client : client[c].await = 0
  BY DEF WorkerInit, Outside
<1>2. \A w \in Worker : queue[w] = <<>> /\ 1 .. Len(queue[w]) = {}
  BY DEF WorkerInit
<1>3. \A w \in Worker : Once(queue[w])
  BY <1>2 DEF Once
<1>4. \A w \in Worker : \A c, n : ~Queued(queue[w], c, n)
  BY <1>2 DEF Queued
<1> QED BY <1>1, <1>3, <1>4 DEF PendInv, Numbered, Awaits, Pending

LEMMA AwaitPending ==
  ASSUME TypeInv, PendInv, NEW c \in Client, NEW kind \in RequestKind \cup EndKind,
         NEW phase \in {"waiting", "committing"}, Await(c, kind, phase)
  PROVE  PendInv'
<1> DEFINE n == client[c].made + 1
           w == client[c].worker
           e == CommandOf(c, kind, n)
<1>1. /\ Only(c) /\ client'[c].phase = phase /\ client'[c].worker = w
      /\ client'[c].await = n /\ client'[c].made = n /\ client'[c].reply = "none"
      /\ Sends(w, e) /\ e \in Command
  BY AwaitEffect
<1>2. /\ w \in Worker /\ client[c].made \in Nat /\ n \in Nat \ {0}
      /\ ~(n <= client[c].made) /\ \A k \in Nat : k <= client[c].made => k <= n
  BY Typing
<1>3. e.from = c /\ e.req = n /\ e.kind # "StartTransaction"
  BY KindAssumption DEF CommandOf, EndKind
<1>4. \A v \in Worker : ~Queued(queue[v], c, n)
  BY <1>2 DEF PendInv, Numbered
<1> HIDE DEF n, w, e
<1>5. \A v \in Worker : Once(queue'[v])
  BY <1>1, <1>2, <1>3, <1>4, Typing, AppendOnce DEF Sends, PendInv
<1>6. \A v \in Worker, d \in Client, k \in Nat \ {0} :
        Queued(queue'[v], d, k) <=> Queued(queue[v], d, k) \/ (v = w /\ d = c /\ k = n)
  <2>1. \A d, k : Queued(queue'[w], d, k) <=> Queued(queue[w], d, k) \/ (d = c /\ k = n)
    BY <1>1, <1>2, <1>3, Typing, AppendQueued DEF Sends
  <2> QED BY <1>1, <2>1 DEF Sends
<1>7. \A d \in Client : client'[d].made \in Nat /\ client[d].made <= client'[d].made
  BY <1>1, <1>2, Typing DEF Only, n
<1>8. Numbered(queue', client')
  <2> SUFFICES ASSUME NEW d \in Client, NEW k \in Nat \ {0}, NEW v \in Worker,
                      Queued(queue'[v], d, k)
               PROVE  /\ k <= client'[d].made
                      /\ \A u \in Worker : Queued(queue'[u], d, k) => u = v
    BY DEF Numbered
  <2>1. CASE d = c /\ k = n
    BY <1>1, <1>2, <1>4, <1>6, <2>1
  <2>2. CASE ~(d = c /\ k = n)
    <3>1. Queued(queue[v], d, k)
      BY <1>6, <2>2
    <3>2. k <= client[d].made
      BY <3>1 DEF PendInv, Numbered
    <3>3. k <= client'[d].made
      BY <1>7, <3>2, Typing
    <3>4. \A u \in Worker : Queued(queue'[u], d, k) => u = v
      BY <1>6, <2>2, <3>1 DEF PendInv, Numbered
    <3> QED BY <3>3, <3>4
  <2> QED BY <2>1, <2>2
<1>9. Awaits(client')
  BY <1>1 DEF PendInv, Awaits, Only
<1>10. Pending(queue', client')
  <2> SUFFICES ASSUME NEW d \in Client, client'[d].await # 0
               PROVE  client'[d].reply = "none"
                        <=> Queued(queue'[client'[d].worker], d, client'[d].await)
    BY DEF Pending
  <2>1. CASE d = c
    BY <1>1, <1>2, <1>6, <2>1
  <2>2. CASE d # c
    <3>1. client'[d] = client[d]
      BY <1>1, <2>2 DEF Only
    <3>2. client[d].worker \in Worker /\ client[d].await \in Nat \ {0}
      BY <3>1, Typing
    <3>3. client[d].reply = "none" <=> Queued(queue[client[d].worker], d, client[d].await)
      BY <3>1 DEF PendInv, Pending
    <3> QED BY <1>6, <2>2, <3>1, <3>2, <3>3
  <2> QED BY <2>1, <2>2
<1> QED BY <1>5, <1>8, <1>9, <1>10 DEF PendInv

LEMMA OtherPending ==
  ASSUME TypeInv, PendInv, NEW w \in Worker, HandleOther(w)
  PROVE  PendInv'
<1> DEFINE cmd == queue[w][1]
<1>1. /\ Takes(w) /\ queue[w] \in Seq(Command) /\ queue[w] # <<>>
      /\ Head(queue[w]) = cmd /\ cmd \in Command
  BY OtherEffect, Typing, Received DEF Takes
<1>2. \A d \in Client :
        /\ client'[d].phase = client[d].phase /\ client'[d].worker = client[d].worker
        /\ client'[d].await = client[d].await /\ client'[d].made = client[d].made
        /\ client'[d].reply = IF cmd.from = d /\ Waits(cmd) THEN "dropped" ELSE client[d].reply
  BY <1>1, OtherEffect
<1>3. /\ Once(queue'[w])
      /\ cmd.req # 0 => ~Queued(queue'[w], cmd.from, cmd.req)
      /\ \A c, n : Queued(queue[w], c, n)
           <=> Queued(queue'[w], c, n) \/ (cmd.from = c /\ cmd.req = n)
  BY <1>1, TakeOnce, TakeQueued DEF Takes, PendInv
<1> HIDE DEF cmd
<1>4. \A v \in Worker : \A c, n :
        Queued(queue[v], c, n)
          <=> Queued(queue'[v], c, n) \/ (v = w /\ cmd.from = c /\ cmd.req = n)
  BY <1>1, <1>3 DEF Takes
<1>5. \A v \in Worker : Once(queue'[v])
  BY <1>1, <1>3 DEF Takes, PendInv
<1>6. Numbered(queue', client')
  BY <1>2, <1>4 DEF PendInv, Numbered
<1>7. Awaits(client')
  BY <1>2 DEF PendInv, Awaits
<1>8. Pending(queue', client')
  <2> SUFFICES ASSUME NEW d \in Client, client[d].await # 0
               PROVE  client'[d].reply = "none"
                        <=> Queued(queue'[client[d].worker], d, client[d].await)
    BY <1>2 DEF Pending
  <2> DEFINE v == client[d].worker
             n == client[d].await
  <2>1. v \in Worker /\ n \in Nat \ {0}
    BY Typing
  <2>2. client[d].reply = "none" <=> Queued(queue[v], d, n)
    BY DEF PendInv, Pending
  <2>3. cmd.from = d => (Waits(cmd) <=> cmd.req = n)
    BY <2>1 DEF Waits
  <2>4. client'[d].reply =
          IF cmd.from = d /\ cmd.req = n THEN "dropped" ELSE client[d].reply
    BY <1>2, <2>3
  <2> HIDE DEF v, n
  <2>5. CASE cmd.from = d /\ cmd.req = n
    <3>1. Queued(queue[w], d, n) /\ ~Queued(queue'[w], d, n)
      BY <1>1, <1>3, <2>1, <2>5
    <3>2. v # w => ~Queued(queue[v], d, n)
      BY <1>1, <2>1, <3>1 DEF PendInv, Numbered
    <3>3. ~Queued(queue'[v], d, n)
      BY <1>4, <2>1, <3>1, <3>2
    <3> QED BY <2>4, <2>5, <3>3 DEF v, n
  <2>6. CASE ~(cmd.from = d /\ cmd.req = n)
    <3>1. Queued(queue'[v], d, n) <=> Queued(queue[v], d, n)
      BY <1>4, <2>1, <2>6
    <3> QED BY <2>2, <2>4, <2>6, <3>1 DEF v, n
  <2> QED BY <2>5, <2>6
<1> QED BY <1>5, <1>6, <1>7, <1>8 DEF PendInv

LEMMA NextPending == TypeInv /\ TypeInv' /\ PendInv /\ [WorkerNext]_workerVars => PendInv'
<1> SUFFICES ASSUME TypeInv, TypeInv', PendInv, [WorkerNext]_workerVars PROVE PendInv'
  OBVIOUS
<1>0. \A c \in Client : client[c].phase \notin {"waiting", "committing"} => client[c].await = 0
  BY DEF PendInv, Awaits
<1>a. ASSUME UNCHANGED queue
      PROVE  /\ \A v \in Worker : Once(queue'[v])
             /\ \A v \in Worker, c \in Client, n \in Nat \ {0} :
                  Queued(queue'[v], c, n) <=> Queued(queue[v], c, n)
  BY <1>a DEF PendInv
<1>1. ASSUME NEW c \in Client, NEW mode \in Mode, AllocateTx(c, mode) PROVE PendInv'
  <2>1. /\ Only(c) /\ client'[c].await = 0 /\ client'[c].made = client[c].made
        /\ UNCHANGED queue
    BY <1>1, <1>0, AllocateEffect
  <2> QED BY <2>1, <1>a, SameRequests DEF Only
<1>2. ASSUME NEW c \in Client, DispatchStart(c) PROVE PendInv'
  <2> DEFINE w == Kept(poolRr)
             e == StartCommand(c)
  <2>1. /\ Only(c) /\ client'[c].await = 0 /\ client'[c].made = client[c].made
        /\ w \in Worker /\ e \in Command /\ Sends(w, e)
    BY <1>2, <1>0, DispatchEffect
  <2>2. e.req = 0
    BY DEF StartCommand
  <2> HIDE DEF w, e
  <2>3. /\ \A v \in Worker : Once(queue'[v])
        /\ \A v \in Worker, d \in Client, n \in Nat \ {0} :
             Queued(queue'[v], d, n) <=> Queued(queue[v], d, n)
    BY <2>1, <2>2, UnawaitedSend
  <2> QED BY <2>1, <2>3, SameRequests DEF Only
<1>3. ASSUME NEW c \in Client, FinishRequest(c) PROVE PendInv'
  <2>1. /\ Only(c) /\ client'[c].await = 0 /\ client'[c].made = client[c].made
        /\ UNCHANGED queue
    BY <1>3, FinishEffect
  <2> QED BY <2>1, <1>a, SameRequests DEF Only
<1>4. ASSUME NEW c \in Client, Dropping(c) PROVE PendInv'
  <2> DEFINE w == client[c].worker
             e == CommandOf(c, EndOf(client[c].mode), 0)
  <2>1. /\ Only(c) /\ client'[c].await = 0 /\ client'[c].made = client[c].made
        /\ w \in Worker /\ e \in Command /\ Sends(w, e)
    BY <1>4, DropEffect, Typing
  <2>2. e.req = 0
    BY DEF CommandOf
  <2> HIDE DEF w, e
  <2>3. /\ \A v \in Worker : Once(queue'[v])
        /\ \A v \in Worker, d \in Client, n \in Nat \ {0} :
             Queued(queue'[v], d, n) <=> Queued(queue[v], d, n)
    BY <2>1, <2>2, UnawaitedSend
  <2> QED BY <2>1, <2>3, SameRequests DEF Only
<1>5. ASSUME NEW w \in Worker, HandleStart(w) PROVE PendInv'
  <2>1. /\ Takes(w) /\ UNCHANGED client /\ Head(queue[w]).kind = "StartTransaction"
    BY <1>5, StartEffect
  <2>2. /\ queue[w] \in Seq(Command) /\ queue[w] # <<>> /\ Head(queue[w]) = queue[w][1]
    BY <2>1, Typing, Received DEF Takes
  <2>3. Once(queue'[w]) /\ queue[w][1].req = 0
    BY <2>1, <2>2, TakeOnce DEF Takes, PendInv
  <2>4. \A d \in Client, n \in Nat \ {0} : Queued(queue'[w], d, n) <=> Queued(queue[w], d, n)
    BY <2>1, <2>2, <2>3, TakeQueued DEF Takes
  <2>5. /\ \A v \in Worker : Once(queue'[v])
        /\ \A v \in Worker, d \in Client, n \in Nat \ {0} :
             Queued(queue'[v], d, n) <=> Queued(queue[v], d, n)
    BY <2>1, <2>3, <2>4 DEF Takes, PendInv
  <2> QED BY <2>1, <2>5, SameRequests
<1>6. CASE \E w \in Worker : Exit(w)
  <2>1. UNCHANGED <<client, queue>>
    BY <1>6, ExitEffect
  <2> QED BY <2>1, <1>a, SameRequests
<1>7. CASE DropDatabase \/ UNCHANGED workerVars
  <2>1. UNCHANGED <<client, queue>>
    BY <1>7 DEF DropDatabase, workerVars
  <2> QED BY <2>1, <1>a, SameRequests
<1> QED BY <1>1, <1>2, <1>3, <1>4, <1>5, <1>6, <1>7, AwaitPending, OtherPending, Steps

\* collection, get, query and commit: while nothing came back, the request is in the
\* channel of the task's worker, and no stale answer is taken for it.
THEOREM PendingIsInChannel == WorkerSpec => []PendingIsQueued
<1>1. PendInv => PendingIsQueued
  BY DEF PendInv, Pending, Queued, PendingIsQueued
<1> QED BY InitTypes, NextTypes, InitPending, NextPending, <1>1, PTL DEF WorkerSpec

-----------------------------------------------------------------------------
(* A transaction ends once, and for good *)

\* What channel q may hold of transaction T while its task is in this phase.
Quiet(q, T, phase) ==
  \A i \in 1 .. Len(q) : q[i].tx = T =>
    /\ phase # "allocated"
    /\ q[i].kind \in EndKind => phase = "committing" /\ q[i].req # 0

Final(q) ==
  \A i, j \in 1 .. Len(q) :
    (i < j /\ q[i].tx = q[j].tx /\ q[i].kind \in EndKind) =>
      q[i].req # 0 /\ q[j].kind \in EndKind /\ q[j].req = 0

Drawn(q, n) == \A i \in 1 .. Len(q) : q[i].tx < n

InUse(c) == client[c].phase # "outside"

\* Every transaction has its own id, drawn before, and what was sent for it fits what
\* its task does.
EndInv ==
  /\ \A w \in Worker : Final(queue[w]) /\ Drawn(queue[w], nextTx)
  /\ \A c \in Client : InUse(c) => client[c].tx < nextTx
  /\ \A c, d \in Client : InUse(c) /\ InUse(d) /\ client[c].tx = client[d].tx => c = d
  /\ \A w \in Worker, c \in Client :
       InUse(c) => Quiet(queue[w], client[c].tx, client[c].phase)

LEMMA AppendFits ==
  ASSUME NEW q \in Seq(Command), NEW e \in Command, NEW n, NEW T, NEW phase
  PROVE  /\ Drawn(q, n) /\ e.tx < n => Drawn(Append(q, e), n)
         /\ Quiet(q, T, phase) /\ e.tx # T => Quiet(Append(q, e), T, phase)
         /\ (/\ Quiet(q, T, phase)
             /\ phase # "allocated"
             /\ e.kind \in EndKind => phase = "committing" /\ e.req # 0)
            => Quiet(Append(q, e), T, phase)
BY SentEntries DEF Drawn, Quiet

LEMMA AppendFinal ==
  ASSUME NEW q \in Seq(Command), NEW e \in Command, Final(q),
         \A i \in 1 .. Len(q) : q[i].tx = e.tx /\ q[i].kind \in EndKind =>
           q[i].req # 0 /\ e.kind \in EndKind /\ e.req = 0
  PROVE  Final(Append(q, e))
<1> DEFINE p == Append(q, e)
<1>1. /\ Len(q) \in Nat
      /\ \A i \in 1 .. Len(p) : \/ i \in 1 .. Len(q) /\ p[i] = q[i]
                                \/ i = Len(q) + 1 /\ p[i] = e
  BY Sent, SentEntries
<1> HIDE DEF p
<1> SUFFICES ASSUME NEW i \in 1 .. Len(p), NEW j \in 1 .. Len(p),
                    i < j, p[i].tx = p[j].tx, p[i].kind \in EndKind
             PROVE  p[i].req # 0 /\ p[j].kind \in EndKind /\ p[j].req = 0
  BY DEF Final, p
<1>2. i \in 1 .. Len(q) /\ p[i] = q[i]
  BY <1>1
<1>3. CASE j \in 1 .. Len(q) /\ p[j] = q[j]
  BY <1>2, <1>3 DEF Final
<1>4. CASE p[j] = e
  BY <1>2, <1>4
<1> QED BY <1>1, <1>3, <1>4

LEMMA TakeFits ==
  ASSUME NEW q \in Seq(Command), q # <<>>
  PROVE  /\ \A n : Drawn(q, n) => Drawn(Tail(q), n)
         /\ \A T, phase : Quiet(q, T, phase) => Quiet(Tail(q), T, phase)
         /\ Final(q) => Final(Tail(q))
<1>1. \A i \in 1 .. Len(Tail(q)) :
        i \in Nat /\ i + 1 \in 1 .. Len(q) /\ Tail(q)[i] = q[i + 1]
  BY ReceivedEntries
<1>2. (\A n : Drawn(q, n) => Drawn(Tail(q), n))
      /\ \A T, phase : Quiet(q, T, phase) => Quiet(Tail(q), T, phase)
  BY <1>1 DEF Drawn, Quiet
<1>3. ASSUME Final(q), NEW i \in 1 .. Len(Tail(q)), NEW j \in 1 .. Len(Tail(q)), i < j,
             Tail(q)[i].tx = Tail(q)[j].tx, Tail(q)[i].kind \in EndKind
      PROVE  Tail(q)[i].req # 0 /\ Tail(q)[j].kind \in EndKind /\ Tail(q)[j].req = 0
  <2>1. /\ i + 1 \in 1 .. Len(q) /\ j + 1 \in 1 .. Len(q) /\ i + 1 < j + 1
        /\ Tail(q)[i] = q[i + 1] /\ Tail(q)[j] = q[j + 1]
    BY <1>1, <1>3
  <2> QED BY <2>1, <1>3 DEF Final
<1>4. Final(q) => Final(Tail(q))
  BY <1>3 DEF Final
<1> QED BY <1>2, <1>4

\* A send for c's transaction leaves the channels in order for the others.
LEMMA SendFits ==
  ASSUME TypeInv, EndInv, NEW c \in Client, InUse(c),
         NEW w \in Worker, NEW e \in Command, Sends(w, e), e.tx = client[c].tx
  PROVE  /\ \A v \in Worker : Drawn(queue'[v], nextTx)
         /\ \A v \in Worker, d \in Client \ {c} :
              InUse(d) => Quiet(queue'[v], client[d].tx, client[d].phase)
         /\ \A v \in Worker \ {w} : Final(queue'[v])
<1>1. queue[w] \in Seq(Command)
  BY Typing
<1>2. e.tx < nextTx
  BY DEF EndInv
<1>3. Drawn(queue'[w], nextTx)
  BY <1>1, <1>2, AppendFits DEF Sends, EndInv
<1>4. ASSUME NEW d \in Client \ {c}, InUse(d)
      PROVE  Quiet(queue'[w], client[d].tx, client[d].phase)
  <2>1. e.tx # client[d].tx
    BY <1>4 DEF EndInv
  <2>2. Quiet(queue[w], client[d].tx, client[d].phase)
    BY <1>4 DEF EndInv
  <2> QED BY <1>1, <2>1, <2>2, AppendFits DEF Sends
<1> QED BY <1>3, <1>4 DEF Sends, EndInv

\* A receive takes nothing from the order.
LEMMA ReceiveFits ==
  ASSUME TypeInv, EndInv, NEW w \in Worker, Takes(w), UNCHANGED nextTx,
         \A d \in Client : client'[d].phase = client[d].phase /\ client'[d].tx = client[d].tx
  PROVE  EndInv'
<1>1. queue[w] \in Seq(Command) /\ queue[w] # <<>> /\ queue'[w] = Tail(queue[w])
  BY Typing DEF Takes
<1>2. Final(queue'[w]) /\ Drawn(queue'[w], nextTx)
  BY <1>1, TakeFits DEF EndInv
<1>3. \A c \in Client : InUse(c) => Quiet(queue'[w], client[c].tx, client[c].phase)
  BY <1>1, TakeFits DEF EndInv
<1> QED BY <1>2, <1>3 DEF Takes, EndInv, InUse

LEMMA InitEnds == WorkerInit => EndInv
<1> SUFFICES ASSUME WorkerInit PROVE EndInv
  OBVIOUS
<1>1. \A w \in Worker : queue[w] = <<>> /\ 1 .. Len(queue[w]) = {}
  BY DEF WorkerInit
<1>2. \A w \in Worker : Final(queue[w]) /\ Drawn(queue[w], nextTx)
  BY <1>1 DEF Final, Drawn
<1>3. \A c \in Client : ~InUse(c)
  BY DEF WorkerInit, Outside, InUse
<1> QED BY <1>2, <1>3 DEF EndInv

LEMMA IdsAreNaturals ==
  ASSUME TypeInv
  PROVE  /\ nextTx \in Nat
         /\ \A w \in Worker : \A i \in 1 .. Len(queue[w]) : queue[w][i].tx \in Nat
         /\ \A c \in Client : InUse(c) => client[c].tx \in Nat
<1>1. MaxTx \in Nat /\ \A n \in TxId : n \in Nat
  BY BoundAssumption DEF TxId
<1>2. nextTx \in Nat
  BY <1>1 DEF TypeInv, TypeOK
<1>3. \A w \in Worker : \A i \in 1 .. Len(queue[w]) : queue[w][i] \in Command
  BY Typing
<1> QED BY <1>1, <1>2, <1>3 DEF Command, TypeInv, InUse

LEMMA AllocateEnds ==
  ASSUME TypeInv, EndInv, NEW c \in Client, NEW mode \in Mode, AllocateTx(c, mode)
  PROVE  EndInv'
<1>1. /\ Only(c) /\ client'[c].phase = "allocated" /\ UNCHANGED queue
      /\ nextTx' = nextTx + 1 /\ nextTx \in Nat
  BY AllocateEffect, IdsAreNaturals DEF AllocateTx
<1>2. client'[c].tx = nextTx
  BY TypeInvParts DEF AllocateTx, Typed, ClientState
<1>3. \A w \in Worker : \A i \in 1 .. Len(queue[w]) : queue[w][i].tx \in Nat
  BY IdsAreNaturals
<1>4. \A w \in Worker : Drawn(queue[w], nextTx')
  BY <1>1, <1>3 DEF EndInv, Drawn
<1>5. \A d \in Client \ {c} : InUse(d) =>
        /\ client[d].tx \in Nat /\ client[d].tx # nextTx /\ client[d].tx < nextTx'
  BY <1>1, IdsAreNaturals DEF EndInv
<1>6. \A w \in Worker : Quiet(queue[w], nextTx, "allocated")
  BY <1>1, <1>3 DEF EndInv, Drawn, Quiet
<1>7. nextTx < nextTx'
  BY <1>1
<1>8. \A w \in Worker, d \in Client :
        InUse(d)' => Quiet(queue'[w], client'[d].tx, client'[d].phase)
  BY <1>1, <1>2, <1>6 DEF EndInv, Only, InUse
<1>9. \A d \in Client : InUse(d)' => client'[d].tx < nextTx'
  BY <1>1, <1>2, <1>5, <1>7 DEF Only, InUse
<1>10. \A d, f \in Client : InUse(d)' /\ InUse(f)' /\ client'[d].tx = client'[f].tx => d = f
  BY <1>1, <1>2, <1>5 DEF EndInv, Only, InUse
<1> QED BY <1>1, <1>4, <1>8, <1>9, <1>10 DEF EndInv

\* A send by a task that goes on with its transaction, or lets it go.
LEMMA SendEnds ==
  ASSUME TypeInv, EndInv, NEW c \in Client, InUse(c), Only(c), UNCHANGED nextTx,
         client'[c].phase # "outside" => client'[c].tx = client[c].tx,
         NEW w \in Worker, NEW e \in Command, Sends(w, e), e.tx = client[c].tx,
         Final(queue'[w]),
         client'[c].phase # "outside" =>
           \A v \in Worker : Quiet(queue'[v], client[c].tx, client'[c].phase)
  PROVE  EndInv'
<1>1. /\ \A v \in Worker : Drawn(queue'[v], nextTx)
      /\ \A v \in Worker, d \in Client \ {c} :
           InUse(d) => Quiet(queue'[v], client[d].tx, client[d].phase)
      /\ \A v \in Worker \ {w} : Final(queue'[v])
  BY SendFits
<1>2. \A v \in Worker : Final(queue'[v]) /\ Drawn(queue'[v], nextTx')
  BY <1>1
<1>3. \A d \in Client : InUse(d)' => InUse(d) /\ client'[d].tx = client[d].tx
  BY DEF Only, InUse
<1>4. \A v \in Worker, d \in Client :
        InUse(d)' => Quiet(queue'[v], client'[d].tx, client'[d].phase)
  BY <1>1, <1>3 DEF Only, InUse
<1> QED BY <1>2, <1>3, <1>4 DEF EndInv

LEMMA NextEnds == TypeInv /\ EndInv /\ [WorkerNext]_workerVars => EndInv'
<1> SUFFICES ASSUME TypeInv, EndInv, [WorkerNext]_workerVars PROVE EndInv'
  OBVIOUS
<1>1. ASSUME NEW c \in Client, DispatchStart(c) PROVE EndInv'
  <2> DEFINE w == Kept(poolRr)
             e == StartCommand(c)
  <2>1. /\ Only(c) /\ InUse(c) /\ client[c].phase = "allocated" /\ client'[c].phase = "idle"
        /\ client'[c].tx = client[c].tx
        /\ w \in Worker /\ e \in Command /\ Sends(w, e) /\ UNCHANGED nextTx
    BY <1>1, DispatchEffect DEF DispatchStart, InUse
  <2>2. e.tx = client[c].tx /\ e.kind \notin EndKind
    BY DEF StartCommand, EndKind
  <2> HIDE DEF w, e
  <2>3. \A v \in Worker : Quiet(queue[v], client[c].tx, "allocated")
    BY <2>1 DEF EndInv
  <2>4. \A v \in Worker : Quiet(queue[v], client[c].tx, "idle")
    BY <2>3 DEF Quiet
  <2>5. Quiet(queue'[w], client[c].tx, "idle")
    BY <2>1, <2>2, <2>4, Typing, AppendFits DEF Sends
  <2>6. Final(queue'[w])
    <3>1. \A i \in 1 .. Len(queue[w]) : queue[w][i].tx # e.tx
      BY <2>1, <2>2, <2>3 DEF Quiet
    <3> QED BY <2>1, <3>1, Typing, AppendFinal DEF Sends, EndInv
  <2>7. \A v \in Worker : Quiet(queue'[v], client[c].tx, "idle")
    BY <2>1, <2>4, <2>5 DEF Sends
  <2> QED BY <2>1, <2>2, <2>6, <2>7, SendEnds
<1>2. ASSUME NEW c \in Client, NEW kind \in RequestKind \cup EndKind,
             NEW phase \in {"waiting", "committing"}, Await(c, kind, phase),
             kind \in EndKind <=> phase = "committing"
      PROVE  EndInv'
  <2> DEFINE w == client[c].worker
             e == CommandOf(c, kind, client[c].made + 1)
  <2>1. /\ Only(c) /\ InUse(c) /\ client[c].phase = "idle" /\ client'[c].phase = phase
        /\ client'[c].tx = client[c].tx
        /\ w \in Worker /\ e \in Command /\ Sends(w, e) /\ UNCHANGED nextTx
    BY <1>2, AwaitEffect, Typing DEF Await, InUse
  <2>2. e.tx = client[c].tx /\ e.kind = kind /\ e.req # 0
    BY Typing DEF CommandOf
  <2> HIDE DEF w, e
  <2>3. \A v \in Worker : Quiet(queue[v], client[c].tx, "idle")
    BY <2>1 DEF EndInv
  <2>4. \A v \in Worker : Quiet(queue[v], client[c].tx, phase)
    BY <2>3 DEF Quiet
  <2>5. Quiet(queue'[w], client[c].tx, phase)
    BY <1>2, <2>1, <2>2, <2>4, Typing, AppendFits DEF Sends
  <2>6. Final(queue'[w])
    <3>1. \A i \in 1 .. Len(queue[w]) : queue[w][i].tx = e.tx => queue[w][i].kind \notin EndKind
      BY <2>1, <2>2, <2>3 DEF Quiet
    <3> QED BY <2>1, <3>1, Typing, AppendFinal DEF Sends, EndInv
  <2>7. \A v \in Worker : Quiet(queue'[v], client[c].tx, phase)
    BY <2>1, <2>4, <2>5 DEF Sends
  <2> QED BY <2>1, <2>2, <2>6, <2>7, SendEnds
<1>3. ASSUME NEW c \in Client, FinishRequest(c) PROVE EndInv'
  <2>1. /\ Only(c) /\ InUse(c) /\ client[c].phase = "waiting" /\ client'[c].phase = "idle"
        /\ client'[c].tx = client[c].tx /\ UNCHANGED <<queue, nextTx>>
    BY <1>3, FinishEffect DEF FinishRequest, InUse
  <2>2. \A v \in Worker : Quiet(queue[v], client[c].tx, "idle")
    BY <2>1 DEF EndInv, Quiet
  <2>3. \A d \in Client : InUse(d)' => InUse(d) /\ client'[d].tx = client[d].tx
    BY <2>1 DEF Only, InUse
  <2>4. \A v \in Worker, d \in Client :
          InUse(d)' => Quiet(queue'[v], client'[d].tx, client'[d].phase)
    BY <2>1, <2>2, <2>3 DEF EndInv, Only
  <2> QED BY <2>1, <2>3, <2>4 DEF EndInv
<1>4. ASSUME NEW c \in Client, Dropping(c) PROVE EndInv'
  <2> DEFINE w == client[c].worker
             e == CommandOf(c, EndOf(client[c].mode), 0)
  <2>1. /\ Only(c) /\ InUse(c) /\ client[c].phase # "allocated" /\ client'[c].phase = "outside"
        /\ w \in Worker /\ e \in Command /\ Sends(w, e) /\ UNCHANGED nextTx
    BY <1>4, DropEffect, Typing
    DEF Dropping, Drop, ResolveCommit, CancelCommit, DropTransaction, Holds, InUse
  <2>2. e.tx = client[c].tx /\ e.kind \in EndKind /\ e.req = 0
    BY DEF CommandOf, EndOf, EndKind
  <2> HIDE DEF w, e
  <2>3. \A i \in 1 .. Len(queue[w]) :
          queue[w][i].tx = e.tx /\ queue[w][i].kind \in EndKind => queue[w][i].req # 0
    BY <2>1, <2>2 DEF EndInv, Quiet
  <2>4. Final(queue'[w])
    BY <2>1, <2>2, <2>3, Typing, AppendFinal DEF Sends, EndInv
  <2> QED BY <2>1, <2>2, <2>4, SendEnds
<1>5. ASSUME NEW w \in Worker, HandleStart(w) PROVE EndInv'
  BY <1>5, StartEffect, ReceiveFits DEF HandleStart
<1>6. ASSUME NEW w \in Worker, HandleOther(w) PROVE EndInv'
  <2>1. /\ Takes(w) /\ UNCHANGED nextTx
        /\ \A d \in Client : client'[d].phase = client[d].phase /\ client'[d].tx = client[d].tx
    BY <1>6, OtherEffect DEF HandleOther
  <2> QED BY <2>1, ReceiveFits
<1>7. CASE \/ DropDatabase \/ UNCHANGED workerVars
           \/ \E w \in Worker : Exit(w)
  <2>1. UNCHANGED <<client, queue, nextTx>>
    BY <1>7 DEF DropDatabase, Exit, workerVars
  <2> QED BY <2>1 DEF EndInv, InUse
<1> QED BY <1>1, <1>2, <1>3, <1>4, <1>5, <1>6, <1>7, AllocateEnds, Steps

\* commit and Drop: whatever is cancelled, a channel holds at most the two ends of a
\* transaction, the awaited one first, and no request after them.
THEOREM EndsAreFinal == WorkerSpec => []EndIsFinal
<1>1. EndInv => EndIsFinal
  BY DEF EndInv, Final, EndIsFinal
<1> QED BY InitTypes, NextTypes, InitEnds, NextEnds, <1>1, PTL DEF WorkerSpec
=============================================================================
