----------------------------- MODULE DocumentValues -----------------------------
(***************************************************************************)
(* The document data model and its serde bridge: what a Rust value of a    *)
(* type with derived Serialize and Deserialize becomes as a Value, and     *)
(* what a type reads out of one.                                           *)
(*                                                                         *)
(* A type is a record: t names its shape, of (or fields, variants, key)    *)
(* the types it is built from.  An option is an empty or a one-element     *)
(* sequence, a map its pairs in the order it is iterated, an enum value a  *)
(* variant and its data.  Type "any" is Value and Document themselves;     *)
(* "bytes" is a type that asks for bytes, as uuid::Uuid or serde_bytes     *)
(* do: a Vec<u8> of derived code is a seq of u8.                           *)
(* What serde's derived code does with the bridge is external.             *)
(*                                                                         *)
(* A function of types is defined from what it does with the parts of a    *)
(* type; self is the function itself.                                      *)
(***************************************************************************)
EXTENDS Integers, Sequences, SequencesExt

CONSTANTS
  Half,      \* 2^63: an i64 is in -Half .. Half - 1
  Byte,      \* 2^8, or less: a u8 is in 0 .. Byte - 1
  NaN,       \* the float that is no number; the others are counted in halves
  Text(_),   \* to_string of an integer or a boolean
  Char,      \* the strings of one character
  Types,     \* the types of the program, with the types these are built from
  Data(_),   \* the values of a type; for "any" those a caller starts from
  Depth(_),  \* how deep the values of a type nest
  Nesting    \* bound on that

ASSUME WidthAssumption == Half \in Nat /\ Byte \in 1 .. Half
ASSUME NaNAssumption == NaN \in Int
ASSUME CharAssumption == Char \subseteq STRING /\ "_id" \notin Char

Ok(x) == [ok |-> TRUE, value |-> x]
Error(why) == [ok |-> FALSE, error |-> why]

\* The results of a loop that stops at the first error.
Collected(results) ==
  LET failed == {i \in DOMAIN results : ~results[i].ok}
  IN IF failed = {} THEN Ok([i \in DOMAIN results |-> results[i].value])
     ELSE results[CHOOSE i \in failed : \A j \in failed : i <= j]

\* Value
Null == [kind |-> "Null"]
Bool(b) == [kind |-> "Bool", bool |-> b]
I64(n) == [kind |-> "I64", int |-> n]
F64(f) == [kind |-> "F64", float |-> f]
String(s) == [kind |-> "String", string |-> s]
Bytes(b) == [kind |-> "Bytes", bytes |-> b]
Array(vec) == [kind |-> "Array", array |-> vec]
Document(entries) == [kind |-> "Document", entries |-> entries]

Atom ==
  {Null} \cup [kind : {"Bool"}, bool : BOOLEAN] \cup [kind : {"I64"}, int : -Half .. Half - 1]
    \cup [kind : {"F64"}, float : Int] \cup [kind : {"String"}, string : STRING]
    \cup [kind : {"Bytes"}, bytes : Seq(0 .. Byte - 1)]

\* The values that nest at most n deep.
Values[n \in 0 .. Nesting] ==
  Atom \cup
    (IF n = 0 THEN {}
     ELSE [kind : {"Array"}, array : Seq(Values[n - 1])]
            \cup [kind : {"Document"}, entries : Seq(STRING \X Values[n - 1])])

Value == Values[Nesting]

-----------------------------------------------------------------------------
(* Types *)

IntType == {"i64", "u64", "u8"}
Composite == {"option", "newtype", "seq", "tuple", "map", "struct", "enum"}
TypeName == IntType \cup {"any", "unit", "bool", "f64", "str", "char", "bytes"} \cup Composite

RangeOf(t) ==
  CASE t = "i64" -> -Half .. Half - 1
    [] t = "u64" -> 0 .. 2 * Half - 1
    [] t = "u8" -> 0 .. Byte - 1

Parts(type) ==
  CASE type.t \in {"option", "newtype", "seq"} -> {type.of}
    [] type.t = "tuple" -> Range(type.of)
    [] type.t = "map" -> {type.key, type.of}
    [] type.t = "struct" -> {field[2] : field \in Range(type.fields)}
    [] type.t = "enum" -> {type.variants[v] : v \in DOMAIN type.variants}
    [] OTHER -> {}

ASSUME TypeAssumption ==
  /\ Nesting \in Nat
  /\ \A type \in Types :
       /\ type.t \in TypeName /\ Depth(type) \in 1 .. Nesting
       /\ \A part \in Parts(type) : part \in Types /\ Depth(part) < Depth(type)
       /\ type.t = "tuple" => type.of \in Seq(Types)
       /\ type.t = "struct" =>
            /\ type.fields \in Seq(STRING \X Types)
            /\ \A i, j \in DOMAIN type.fields : type.fields[i][1] = type.fields[j][1] => i = j
       /\ type.t = "enum" => DOMAIN type.variants \subseteq STRING

\* What the program can hold of a type.
Held(type) == IF type.t = "any" THEN Values[Depth(type)] ELSE Data(type)

IsOf(type, x) ==
  CASE type.t = "any" -> x \in Values[Depth(type)]
    [] type.t = "unit" -> x = <<>>
    [] type.t = "bool" -> x \in BOOLEAN
    [] type.t \in IntType -> x \in RangeOf(type.t)
    [] type.t = "f64" -> x \in Int
    [] type.t = "str" -> x \in STRING
    [] type.t = "char" -> x \in Char
    [] type.t = "bytes" -> x \in Seq(0 .. Byte - 1)
    [] type.t = "option" -> x \in Seq(Held(type.of)) /\ Len(x) <= 1
    [] type.t = "newtype" -> x \in Held(type.of)
    [] type.t = "seq" -> x \in Seq(Held(type.of))
    [] type.t = "tuple" ->
         /\ x = [i \in DOMAIN type.of |-> x[i]]
         /\ \A i \in DOMAIN x : x[i] \in Held(type.of[i])
    [] type.t = "map" ->
         /\ x \in Seq(Held(type.key) \X Held(type.of))
         /\ \A i, j \in DOMAIN x : x[i][1] = x[j][1] => i = j
    [] type.t = "struct" ->
         /\ x = [i \in DOMAIN type.fields |-> x[i]]
         /\ \A i \in DOMAIN x : x[i] \in Held(type.fields[i][2])
    [] type.t = "enum" ->
         /\ x = [variant |-> x.variant, data |-> x.data]
         /\ x.variant \in DOMAIN type.variants
         /\ x.data \in Held(type.variants[x.variant])

ASSUME DataAssumption ==
  /\ \A type \in Types : \A x \in Data(type) : IsOf(type, x)
  /\ \A t \in IntType : \A n \in RangeOf(t) : Text(n) \in STRING
  /\ \A b \in BOOLEAN : Text(b) \in STRING

-----------------------------------------------------------------------------
(* Document: entries in the order they came *)

ContainsKey(entries, key) == \E i \in DOMAIN entries : entries[i][1] = key
PlaceIn(entries, key) == CHOOSE i \in DOMAIN entries : entries[i][1] = key

\* Mutation of Insert: a key is pushed without looking for it.
InsertPushed(entries, key, value) == Append(entries, <<key, value>>)

Insert(entries, key, value) ==
  IF ContainsKey(entries, key) THEN [entries EXCEPT ![PlaceIn(entries, key)] = <<key, value>>]
  ELSE Append(entries, <<key, value>>)

RemoveKey(entries, key) ==
  IF ContainsKey(entries, key) THEN RemoveAt(entries, PlaceIn(entries, key)) ELSE entries

InsertFront(entries, key, value) == << <<key, value>> >> \o RemoveKey(entries, key)

\* Mutation of WithId: the id is given as text.
WithIdText(entries, id) == InsertFront(entries, "_id", String(Text(id)))

WithId(entries, id) == InsertFront(entries, "_id", Bytes(id))

\* FromIterator, and the loops of the serializers.
Inserted(pairs) == FoldLeft(LAMBDA entries, p : Insert(entries, p[1], p[2]), <<>>, pairs)

\* A Value passed on as it is: its entries are inserted anew.
Rebuilt[value \in Value] ==
  CASE value.kind = "Array" -> Array([i \in DOMAIN value.array |-> Rebuilt[value.array[i]]])
    [] value.kind = "Document" ->
         Document(Inserted([i \in DOMAIN value.entries |->
                              <<value.entries[i][1], Rebuilt[value.entries[i][2]]>>]))
    [] OTHER -> value

-----------------------------------------------------------------------------
(* Serializer *)

\* v as i64
AsI64(n) == ((n + Half) % (2 * Half)) - Half

\* A type without the newtypes around it, whose values are the same.
Bare[type \in Types] == IF type.t = "newtype" THEN Bare[type.of] ELSE type

\* MapKeySerializer
SerializeKey(type, x) ==
  LET key == Bare[type] IN
  CASE key.t \in {"str", "char"} -> Ok(x)
    [] key.t \in IntType \cup {"bool"} -> Ok(Text(x))
    [] key.t = "enum" /\ key.variants[x.variant].t = "unit" -> Ok(x.variant)
    [] OTHER -> Error("NonStringKey")

Named(names, results) ==
  LET all == Collected(results)
  IN IF all.ok THEN Ok(Document(Inserted([i \in DOMAIN names |-> <<names[i], all.value[i]>>])))
     ELSE all

\* Mutation of SerializeOption: Some is wrapped, as an enum would be.
SerializeOptionTagged(self, type, x) ==
  IF x = <<>> THEN Ok(Null)
  ELSE LET some == self[type.of][x[1]]
       IN IF some.ok THEN Ok(Document(<< <<"Some", some.value>> >>)) ELSE some

SerializeOption(self, type, x) == IF x = <<>> THEN Ok(Null) ELSE self[type.of][x[1]]

SerializeMap(self, type, x) ==
  LET keys == Collected([i \in DOMAIN x |-> SerializeKey(type.key, x[i][1])])
  IN IF keys.ok THEN Named(keys.value, [i \in DOMAIN x |-> self[type.of][x[i][2]]]) ELSE keys

SerializeStruct(self, type, x) ==
  Named([i \in DOMAIN x |-> type.fields[i][1]],
        [i \in DOMAIN x |-> self[type.fields[i][2]][x[i]]])

\* Externally tagged: a unit variant is its name, another one a map with one entry.
SerializeEnum(self, type, x) ==
  IF type.variants[x.variant].t = "unit" THEN Ok(String(x.variant))
  ELSE Named(<<x.variant>>, <<self[type.variants[x.variant]][x.data]>>)

SerializeAll(results) == LET all == Collected(results) IN IF all.ok THEN Ok(Array(all.value)) ELSE all

SerializeAny(value) == Ok(Rebuilt[value])

SerializeAs(self, type, x) ==
  CASE type.t = "any" -> SerializeAny(x)
    [] type.t = "unit" -> Ok(Null)
    [] type.t = "bool" -> Ok(Bool(x))
    [] type.t \in IntType -> Ok(I64(AsI64(x)))
    [] type.t = "f64" -> Ok(F64(x))
    [] type.t \in {"str", "char"} -> Ok(String(x))
    [] type.t = "bytes" -> Ok(Bytes(x))
    [] type.t = "option" -> SerializeOption(self, type, x)
    [] type.t = "newtype" -> self[type.of][x]
    [] type.t = "seq" -> SerializeAll([i \in DOMAIN x |-> self[type.of][x[i]]])
    [] type.t = "tuple" -> SerializeAll([i \in DOMAIN x |-> self[type.of[i]][x[i]]])
    [] type.t = "map" -> SerializeMap(self, type, x)
    [] type.t = "struct" -> SerializeStruct(self, type, x)
    [] type.t = "enum" -> SerializeEnum(self, type, x)

Serialize[type \in Types] == [x \in Held(type) |-> SerializeAs(Serialize, type, x)]

ToDocument(type, x) ==
  LET root == Serialize[type][x]
  IN IF ~root.ok THEN root
     ELSE IF root.value.kind # "Document" THEN Error("RootNotDocument")
     ELSE IF ContainsKey(root.value.entries, "_id") THEN Error("IdNotAllowed")
     ELSE Ok(root.value.entries)

-----------------------------------------------------------------------------
(* Deserializer *)

Mismatch == Error("Message")

DeserializeAll(self, of, vec) == Collected([i \in DOMAIN vec |-> self[of][vec[i]]])

\* A tuple takes as many elements as it has.
DeserializeTuple(self, types, vec) ==
  IF Len(vec) < Len(types) THEN Mismatch
  ELSE Collected([i \in DOMAIN types |-> self[types[i]][vec[i]]])

\* MapDeserializer: every key comes back as a string.
DeserializeMap(self, type, entries) ==
  LET keys == Collected([i \in DOMAIN entries |-> self[type.key][String(entries[i][1])]])
      values == Collected([i \in DOMAIN entries |-> self[type.of][entries[i][2]]])
  IN IF keys.ok /\ values.ok
     THEN Ok([i \in DOMAIN entries |-> <<keys.value[i], values.value[i]>>])
     ELSE Mismatch

\* Unknown keys are skipped; an absent field is an error unless it is an option.
DeserializeField(self, field, entries) ==
  IF ContainsKey(entries, field[1])
  THEN self[field[2]][entries[PlaceIn(entries, field[1])][2]]
  ELSE IF field[2].t = "option" THEN Ok(<<>>) ELSE Mismatch

DeserializeStruct(self, type, entries) ==
  Collected([i \in DOMAIN type.fields |-> DeserializeField(self, type.fields[i], entries)])

Tagged(variant, data) ==
  IF data.ok THEN Ok([variant |-> variant, data |-> data.value]) ELSE data

\* VariantDeserializer: what stands beside the name is read as the variant's type.
DeserializeVariant(self, type, variant, value) ==
  IF variant \in DOMAIN type.variants /\ type.variants[variant].t # "unit"
  THEN Tagged(variant, self[type.variants[variant]][value]) ELSE Mismatch

DeserializeEnum(self, type, value) ==
  CASE value.kind = "String" ->
         IF value.string \in DOMAIN type.variants /\ type.variants[value.string].t = "unit"
         THEN Ok([variant |-> value.string, data |-> <<>>]) ELSE Mismatch
    [] value.kind = "Document" /\ Len(value.entries) = 1 ->
         DeserializeVariant(self, type, value.entries[1][1], value.entries[1][2])
    [] OTHER -> Mismatch

\* Mutation of DeserializeOption: null is passed on.
DeserializeOptionAlways(self, type, value) ==
  LET some == self[type.of][value] IN IF some.ok THEN Ok(<<some.value>>) ELSE some

DeserializeOption(self, type, value) ==
  IF value = Null THEN Ok(<<>>)
  ELSE LET some == self[type.of][value] IN IF some.ok THEN Ok(<<some.value>>) ELSE some

\* ValueVisitor
DeserializeAny(value) == Ok(Rebuilt[value])

\* Types read what they wrote themselves; the further coercions of derived code, a struct
\* out of a sequence, text out of bytes or bytes out of text, are left out.
DeserializeAs(self, type, value) ==
  CASE type.t = "any" -> DeserializeAny(value)
    [] type.t = "unit" /\ value.kind = "Null" -> Ok(<<>>)
    [] type.t = "bool" /\ value.kind = "Bool" -> Ok(value.bool)
    [] type.t \in IntType /\ value.kind = "I64" ->
         IF value.int \in RangeOf(type.t) THEN Ok(value.int) ELSE Mismatch
    [] type.t = "f64" /\ value.kind = "F64" -> Ok(value.float)
    [] type.t = "str" /\ value.kind = "String" -> Ok(value.string)
    [] type.t = "char" /\ value.kind = "String" /\ value.string \in Char -> Ok(value.string)
    [] type.t = "bytes" /\ value.kind = "Bytes" -> Ok(value.bytes)
    [] type.t = "option" -> DeserializeOption(self, type, value)
    [] type.t = "newtype" -> self[type.of][value]
    [] type.t = "seq" /\ value.kind = "Array" -> DeserializeAll(self, type.of, value.array)
    [] type.t = "tuple" /\ value.kind = "Array" -> DeserializeTuple(self, type.of, value.array)
    [] type.t = "map" /\ value.kind = "Document" -> DeserializeMap(self, type, value.entries)
    [] type.t = "struct" /\ value.kind = "Document" -> DeserializeStruct(self, type, value.entries)
    [] type.t = "enum" -> DeserializeEnum(self, type, value)
    [] OTHER -> Mismatch

Deserialize[type \in Types] == [value \in Value |-> DeserializeAs(Deserialize, type, value)]

\* The type read at the root may have a field for the id.
FromDocument(type, entries) == DeserializeAs(Deserialize, type, Document(entries))

FromDocumentWithId(type, entries, id) == FromDocument(type, WithId(entries, id))

-----------------------------------------------------------------------------
(* Conversions of single values, which queries and callers use beside serde *)

\* The types that have a From into Value, Value itself among them: no u64, and
\* Vec<u8> before Vec<T>.
Convertible[type \in Types] ==
  \/ type.t \in {"any", "unit", "bool", "i64", "u8", "f64", "str", "char", "bytes"}
  \/ type.t = "seq" /\ type.of.t = "u8"
  \/ type.t = "option" /\ Convertible[type.of]
  \/ type.t = "tuple" /\ \A i, j \in DOMAIN type.of :
       type.of[i] = type.of[j] /\ Convertible[type.of[i]]
  \/ type.t = "map" /\ type.key.t = "str" /\ Convertible[type.of]

Queried == {type \in Types : Convertible[type]}

FromAs(self, type, x) ==
  CASE type.t = "any" -> x
    [] type.t = "unit" -> Null
    [] type.t = "bool" -> Bool(x)
    [] type.t \in IntType -> I64(x)
    [] type.t = "f64" -> F64(x)
    [] type.t \in {"str", "char"} -> String(x)
    [] type.t \in {"bytes", "seq"} -> Bytes(x)
    [] type.t = "option" -> IF x = <<>> THEN Null ELSE self[type.of][x[1]]
    [] type.t = "tuple" -> Array([i \in DOMAIN x |-> self[type.of[i]][x[i]]])
    [] type.t = "map" ->
         Document(Inserted([i \in DOMAIN x |-> <<x[i][1], self[type.of][x[i][2]]>>]))

From[type \in Queried] == [x \in Held(type) |-> FromAs(From, type, x)]

\* f as i64: towards zero, and saturating; floats are counted in halves.
Truncated(f) == IF f >= 0 THEN f \div 2 ELSE -((-f) \div 2)

FloatAsI64(f) ==
  CASE f = NaN -> 0
    [] f # NaN /\ Truncated(f) < -Half -> -Half
    [] f # NaN /\ Truncated(f) >= Half -> Half - 1
    [] OTHER -> Truncated(f)

\* Mutation of Narrow: an "as" cast.
NarrowCast(t, n) == Ok(IF t = "u8" THEN n % Byte ELSE n)

Narrow(t, n) == IF n \in RangeOf(t) THEN Ok(n) ELSE Error("Overflow")

\* TryFrom<Value> for the integers; no string of the model is a numeral.
TryInt(t, value) ==
  CASE value.kind = "I64" -> Narrow(t, value.int)
    [] value.kind = "F64" -> Narrow(t, FloatAsI64(value.float))
    [] value.kind = "Bool" -> Ok(IF value.bool THEN 1 ELSE 0)
    [] value.kind = "String" -> Error("Parse")
    [] OTHER -> Error("TypeMismatch")
=============================================================================
