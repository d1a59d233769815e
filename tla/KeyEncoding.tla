------------------------------ MODULE KeyEncoding ------------------------------
(***************************************************************************)
(* The order-preserving encoding of index fields.  A byte is a number up   *)
(* to MaxByte, which stands for 0xFF, and the eight bytes of an integer or *)
(* a float are one: what the encoding does to a word it does to its sign   *)
(* bit and to all of its bits, and both are there in a word of one byte.   *)
(***************************************************************************)
EXTENDS CursorOrder

CONSTANTS
  MaxByte,       \* 0xFF
  Infinity,      \* the bits of an infinite float's magnitude, below every NaN's
  CanonicalNaN   \* CANONICAL_NAN_BITS

Sign == (MaxByte + 1) \div 2   \* SIGN_BIT

ASSUME ByteAssumption == MaxByte \in Nat /\ MaxByte >= 7 /\ MaxByte % 2 = 1
ASSUME FloatAssumption ==
  /\ Infinity \in 1 .. Sign - 2
  /\ CanonicalNaN \in Infinity + 1 .. Sign - 1

\* A field is a kind and its content: an integer, a float's bits, a boolean or bytes.
\* An absent field is Undefined; an array or a document is a Composite.
Tag == [Undefined |-> 0, Null |-> 1, I64 |-> 2, F64 |-> 3, Bool |-> 4, String |-> 5, Bytes |-> 6]
Scalar(v) == v.kind \in DOMAIN Tag

ScalarValue ==
  [kind : {"Undefined", "Null"}, data : {<<>>}]
    \cup {[kind |-> "I64", data |-> <<n>>] : n \in -Sign .. Sign - 1}
    \cup {[kind |-> "F64", data |-> <<bits>>] : bits \in 0 .. MaxByte}
    \cup [kind : {"Bool"}, data : {<<0>>, <<1>>}]
    \cup [kind : {"String", "Bytes"}, data : Seq(0 .. MaxByte)]

-----------------------------------------------------------------------------
\* Mutation of FlipSign: the two's complement is stored as it is.
FlipSignNot(n) == n % (2 * Sign)

FlipSign(n) == (n + Sign) % (2 * Sign)

\* Mutation of Canonical: the sign of a zero is kept.
CanonicalSignedZero(bits) == IF bits % Sign > Infinity THEN CanonicalNaN ELSE bits

\* One zero, and one NaN.
Canonical(bits) ==
  IF bits % Sign > Infinity THEN CanonicalNaN
  ELSE IF bits % Sign = 0 THEN 0
  ELSE bits

\* Positive: the sign bit is flipped.  Negative: every bit is.
OrderedBits(bits) == IF bits < Sign THEN bits + Sign ELSE MaxByte - bits

\* Mutation of Escaped: a zero byte is written as it is.
EscapedNot(bytes) == bytes \o <<0, 0>>

\* encode_escaped: 0x00 becomes 0x00 0xFF, and 0x00 0x00 ends the field.
Escaped(bytes) ==
  FlattenSeq([i \in DOMAIN bytes |-> IF bytes[i] = 0 THEN <<0, MaxByte>> ELSE <<bytes[i]>>])
    \o <<0, 0>>

Content(v) ==
  CASE v.kind = "I64" -> <<FlipSign(v.data[1])>>
    [] v.kind = "F64" -> <<OrderedBits(Canonical(v.data[1]))>>
    [] v.kind \in {"String", "Bytes"} -> Escaped(v.data)
    [] OTHER -> v.data

EncodeValue(v) == <<Tag[v.kind]>> \o Content(v)

EncodeEntry(entry) == FlattenSeq([i \in DOMAIN entry |-> EncodeValue(entry[i])])

-----------------------------------------------------------------------------
(* The order the encoding stands for *)

\* Numbers by value, every NaN above them; the rest by its bytes.
Rank(v) ==
  LET bits == v.data[1]
      magnitude == bits % Sign
  IN IF v.kind # "F64" THEN v.data
     ELSE IF magnitude > Infinity THEN <<MaxByte>>
     ELSE IF bits < Sign THEN <<magnitude>> ELSE <<-magnitude>>

ValueLess(v, w) ==
  \/ Tag[v.kind] < Tag[w.kind]
  \/ v.kind = w.kind /\ Less(Rank(v), Rank(w))

SameValue(v, w) == v.kind = w.kind /\ Rank(v) = Rank(w)

SameEntry(e, f) == \A i \in DOMAIN e : SameValue(e[i], f[i])

EntryLess(e, f) ==
  \E n \in DOMAIN e :
    /\ \A i \in 1 .. n - 1 : SameValue(e[i], f[i])
    /\ ValueLess(e[n], f[n])
=============================================================================
