------------------------------ MODULE IndexRange ------------------------------
(***************************************************************************)
(* The index-range builder: equalities on the first fields of an index,    *)
(* then at most one lower and one upper bound on the next, in either       *)
(* order, turned into one range of encoded keys.  The names the builder    *)
(* carries beside the values are those of the index's fields, in order.    *)
(***************************************************************************)
EXTENDS KeyEncoding

CONSTANTS
  FieldValue,   \* the values queried for, scalar or not
  StoredValue,  \* the values stored in an index's fields, all scalar
  FieldCount    \* the fields of the index

ASSUME QueryAssumption ==
  StoredValue \cup {v \in FieldValue : Scalar(v)} \subseteq ScalarValue
ASSUME FieldCountAssumption == FieldCount \in Nat \ {0}

VARIABLES
  eq,            \* the values of the first fields
  lower, upper,  \* the bounds, or None
  range          \* the built range of keys, or why there is none yet

vars == <<eq, lower, upper, range>>

None == [op |-> "None"]
Unbuilt == [kind |-> "Unbuilt"]
NotAScalar == [kind |-> "NotAScalar"]

Init == eq = <<>> /\ lower = None /\ upper = None /\ range = Unbuilt

-----------------------------------------------------------------------------
(* The stages of the builder *)

Eq(v) ==
  /\ range = Unbuilt
  /\ lower = None /\ upper = None
  /\ Len(eq) < FieldCount
  /\ eq' = Append(eq, v)
  /\ UNCHANGED <<lower, upper, range>>

LowerBound(op, v) ==
  /\ range = Unbuilt
  /\ lower = None
  /\ Len(eq) < FieldCount
  /\ lower' = [op |-> op, value |-> v]
  /\ UNCHANGED <<eq, upper, range>>

UpperBound(op, v) ==
  /\ range = Unbuilt
  /\ upper = None
  /\ Len(eq) < FieldCount
  /\ upper' = [op |-> op, value |-> v]
  /\ UNCHANGED <<eq, lower, range>>

-----------------------------------------------------------------------------
(* build_with_index *)

Unbounded == [kind |-> "Unbounded"]

\* Mutation of PrefixSuccessor: trailing 0xFF bytes give up the bound.
PrefixSuccessorShort(prefix) ==
  IF prefix = <<>> \/ Last(prefix) = MaxByte THEN Unbounded
  ELSE [kind |-> "Excluded", key |-> Append(Front(prefix), Last(prefix) + 1)]

\* The end of the keys that begin with the prefix: its last byte below 0xFF, one up.
PrefixSuccessor(prefix) ==
  LET low == {i \in DOMAIN prefix : prefix[i] < MaxByte}
      last == CHOOSE i \in low : \A j \in low : j <= i
  IN IF low = {} THEN Unbounded
     ELSE [kind |-> "Excluded", key |-> Append(SubSeq(prefix, 1, last - 1), prefix[last] + 1)]

\* Mutation of LowerEnd: an open lower end is unbounded even after equalities.
LowerEndOpen(fields, bound) ==
  IF bound = None THEN Unbounded
  ELSE [kind |-> IF bound.op = "Gt" THEN "Excluded" ELSE "Included",
        key |-> EncodeEntry(Append(fields, bound.value))]

LowerEnd(fields, bound) ==
  IF bound # None
  THEN [kind |-> IF bound.op = "Gt" THEN "Excluded" ELSE "Included",
        key |-> EncodeEntry(Append(fields, bound.value))]
  ELSE IF fields = <<>> THEN Unbounded
  ELSE [kind |-> "Included", key |-> EncodeEntry(fields)]

UpperEnd(fields, bound) ==
  IF bound # None
  THEN [kind |-> IF bound.op = "Lt" THEN "Excluded" ELSE "Included",
        key |-> EncodeEntry(Append(fields, bound.value))]
  ELSE PrefixSuccessor(EncodeEntry(fields))

Encodable ==
  /\ \A i \in DOMAIN eq : Scalar(eq[i])
  /\ lower # None => Scalar(lower.value)
  /\ upper # None => Scalar(upper.value)

BuildWithIndex ==
  /\ range = Unbuilt
  /\ range' = IF Encodable
              THEN [kind |-> "Keys", lower |-> LowerEnd(eq, lower), upper |-> UpperEnd(eq, upper)]
              ELSE NotAScalar
  /\ UNCHANGED <<eq, lower, upper>>

Next ==
  \/ \E v \in FieldValue : Eq(v)
  \/ \E op \in {"Gt", "Gte"}, v \in FieldValue : LowerBound(op, v)
  \/ \E op \in {"Lt", "Lte"}, v \in FieldValue : UpperBound(op, v)
  \/ BuildWithIndex

Spec == Init /\ [][Next]_vars

-----------------------------------------------------------------------------
(* Properties *)

AfterLower(key) ==
  \/ range.lower.kind = "Unbounded"
  \/ Less(range.lower.key, key)
  \/ range.lower.kind = "Included" /\ key = range.lower.key

BeforeUpper(key) ==
  \/ range.upper.kind = "Unbounded"
  \/ Less(key, range.upper.key)
  \/ range.upper.kind = "Included" /\ key = range.upper.key

InRange(key) == AfterLower(key) /\ BeforeUpper(key)

AboveLower(v) ==
  lower # None => ValueLess(lower.value, v) \/ (lower.op = "Gte" /\ SameValue(v, lower.value))

BelowUpper(v) ==
  upper # None => ValueLess(v, upper.value) \/ (upper.op = "Lte" /\ SameValue(v, upper.value))

Asked(entry) ==
  /\ \A i \in DOMAIN eq : SameValue(entry[i], eq[i])
  /\ Len(eq) < FieldCount => AboveLower(entry[Len(eq) + 1]) /\ BelowUpper(entry[Len(eq) + 1])

Entry == [1 .. FieldCount -> StoredValue]

Exact == \A entry \in Entry : InRange(EncodeEntry(entry)) <=> Asked(entry)

\* builder.rs: the range holds the keys of the entries asked for and of no others: with
\* equalities alone, with bounds that stop short of their value (gte, lt), and with any
\* bound on the index's last field.
RangeIsExact ==
  range.kind = "Keys" /\ (lower.op = "Gt" \/ upper.op = "Lte" => Len(eq) = FieldCount - 1)
    => Exact

\* encode_entry: comparing two encoded entries byte by byte orders them as their fields
\* do, and only equal entries share a key: a field's bytes never run into the next one's.
KeysOrderEntries ==
  range.kind = "Keys" /\ Len(eq) = FieldCount =>
    \A entry \in Entry :
      /\ Less(EncodeEntry(eq), EncodeEntry(entry)) <=> EntryLess(eq, entry)
      /\ EncodeEntry(eq) = EncodeEntry(entry) <=> SameEntry(eq, entry)

\* builder.rs: a lower bound is "`> v` (exclusive) or `>= v` (inclusive)", an upper
\* one "`< v` (exclusive) or `<= v` (inclusive)", on whichever field of the index.
BoundsReadAsDocumented == range.kind = "Keys" => Exact
=============================================================================
