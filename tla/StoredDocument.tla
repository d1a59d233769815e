----------------------------- MODULE StoredDocument -----------------------------
(***************************************************************************)
(* One document on its way into the store and back: a caller holds a value *)
(* of some type, writes it with to_document, and reads it with             *)
(* from_document or from_document_with_id.  A caller that works with       *)
(* Document itself edits it before it is written.                          *)
(***************************************************************************)
EXTENDS DocumentValues

CONSTANTS
  Key,       \* the keys a Document is edited with
  Entry,     \* the values an edit gives them
  Id,        \* the storage id, as the bytes _id is read from
  IdTypes    \* the types callers read _id as

VARIABLES
  type,      \* the type of the value the caller holds
  datum,     \* the value
  stage,     \* "held", "stored", "refused", "read" or "readWithId"
  document,  \* what to_document made of it
  reader,    \* the type it is read into
  result     \* what the read returned

vars == <<type, datum, stage, document, reader, result>>

Anything == [t |-> "any"]

ASSUME EditAssumption ==
  /\ Key \cup {"_id"} \subseteq STRING /\ Entry \subseteq Atom
  /\ Id \in Seq(0 .. Byte - 1) /\ IdTypes \subseteq Types

\* The struct that also has a field _id.
Identified(t, of) == [t |-> "struct", fields |-> << <<"_id", of>> >> \o t.fields]

Readers(t) == {t} \cup IF t.t = "struct" THEN {Identified(t, of) : of \in IdTypes} ELSE {}

Init ==
  /\ type \in Types
  /\ datum \in Data(type)
  /\ stage = "held"
  /\ document = <<>>
  /\ reader = type
  /\ result = Error("not read")

\* Document::insert, insert_front, remove and with_id.
Edited(entries) ==
  {Insert(entries, key, value) : key \in Key, value \in Entry}
    \cup {InsertFront(entries, key, value) : key \in Key, value \in Entry}
    \cup {RemoveKey(entries, key) : key \in Key}
    \cup {WithId(entries, Id)}

Edit ==
  /\ stage = "held" /\ type = Anything /\ datum.kind = "Document"
  /\ \E entries \in Edited(datum.entries) : datum' = Document(entries)
  /\ UNCHANGED <<type, stage, document, reader, result>>

Write ==
  LET written == ToDocument(type, datum) IN
  /\ stage = "held"
  /\ stage' = IF written.ok THEN "stored" ELSE "refused"
  /\ document' = IF written.ok THEN written.value ELSE <<>>
  /\ UNCHANGED <<type, datum, reader, result>>

Read ==
  /\ stage = "stored"
  /\ stage' = "read"
  /\ result' = FromDocument(type, document)
  /\ UNCHANGED <<type, datum, document, reader>>

ReadWithId ==
  /\ stage = "stored"
  /\ stage' = "readWithId"
  /\ reader' \in Readers(type)
  /\ result' = FromDocumentWithId(reader', document, Id)
  /\ UNCHANGED <<type, datum, document>>

Next == Edit \/ Write \/ Read \/ ReadWithId

Spec == Init /\ [][Next]_vars

-----------------------------------------------------------------------------
(* Properties *)

\* The values that nest at most n deep and hold no key twice, at any depth.
Unambiguous[n \in 0 .. Nesting] ==
  Atom \cup
    (IF n = 0 THEN {}
     ELSE [kind : {"Array"}, array : Seq(Unambiguous[n - 1])]
            \cup {doc \in [kind : {"Document"}, entries : Seq(STRING \X Unambiguous[n - 1])] :
                    \A i, j \in DOMAIN doc.entries :
                      doc.entries[i][1] = doc.entries[j][1] => i = j})

\* Callers start from unambiguous Values.
ASSUME StartAssumption == \A t \in Types : t.t = "any" => Data(t) \subseteq Unambiguous[Depth(t)]

\* No document ever holds a key twice, whatever the edits and the order they
\* are made in, nor does a stored one at any depth: lookups take the first
\* entry, so a second one would be stored and never seen
\* (Document::insert, insert_front).
KeysAreUnique ==
  /\ Document(document) \in Unambiguous[Nesting]
  /\ type = Anything => datum \in Unambiguous[Nesting]

\* The types whose values serve as map keys and come back from one.
Textual(key) == Bare[key].t \in {"str", "char", "enum"}

\* A value that comes back as it went in: it holds no Some of a value that is
\* stored as null, no integer beyond i64, and no map with keys that are not
\* text.
Faithful[t \in Types] ==
  [x \in Held(t) |->
     CASE t.t = "any" -> x \in Unambiguous[Nesting]
       [] t.t \in IntType -> x < Half
       [] t.t = "option" ->
            \A i \in DOMAIN x : Faithful[t.of][x[i]] /\ Serialize[t.of][x[i]] # Ok(Null)
       [] t.t = "newtype" -> Faithful[t.of][x]
       [] t.t = "seq" -> \A i \in DOMAIN x : Faithful[t.of][x[i]]
       [] t.t = "tuple" -> \A i \in DOMAIN x : Faithful[t.of[i]][x[i]]
       [] t.t = "map" -> /\ x = <<>> \/ Textual(t.key)
                         /\ \A i \in DOMAIN x : Faithful[t.of][x[i][2]]
       [] t.t = "struct" -> \A i \in DOMAIN x : Faithful[t.fields[i][2]][x[i]]
       [] t.t = "enum" -> \/ t.variants[x.variant].t = "unit"
                          \/ Faithful[t.variants[x.variant]][x.data]
       [] OTHER -> TRUE]

\* A value that was accepted for writing is read back as it was written, for
\* exactly the faithful values.  The others are accepted too and are lost or
\* changed without an error on the write (to_document, from_document).
ReadsWhatWasWritten ==
  stage = "read" => (result = Ok(datum) <=> Faithful[type][datum])

\* The Some of each, and x behind each.
Some(s) == {<<y>> : y \in s}
Behind(s, x) == {<<y>> \o x : y \in s}

\* What a type reads out of the name _id, and out of the bytes of the id: one
\* value or, where it refuses them, none.
IdName[t \in Types] ==
  CASE t.t = "any" -> {String("_id")}
    [] t.t = "str" -> {"_id"}
    [] t.t = "newtype" -> IdName[t.of]
    [] t.t = "option" -> Some(IdName[t.of])
    [] t.t = "enum" -> {[variant |-> v, data |-> <<>>] :
                          v \in {w \in DOMAIN t.variants : w = "_id" /\ t.variants[w].t = "unit"}}
    [] OTHER -> {}

IdBytes[t \in Types] ==
  CASE t.t = "any" -> {Bytes(Id)}
    [] t.t = "bytes" -> {Id}
    [] t.t = "newtype" -> IdBytes[t.of]
    [] t.t = "option" -> Some(IdBytes[t.of])
    [] OTHER -> {}

\* The entry of the id in a map of type t.
IdEntry(t) == IdName[t.key] \X IdBytes[t.of]

\* A value as it comes back with the id, if its type can take the id: one more
\* entry of a Document or a map, none of a struct that does not ask for it.
Joined[t \in Types] ==
  [x \in Held(t) |->
     CASE t.t = "any" /\ x.kind = "Document" -> {Document(WithId(x.entries, Id))}
       [] t.t = "map" -> Behind(IdEntry(t), x)
       [] t.t = "struct" -> {x}
       [] t.t = "newtype" -> Joined[t.of][x]
       [] t.t = "option" -> Some(UNION {Joined[t.of][x[i]] : i \in DOMAIN x})
       [] OTHER -> {}]

\* What a read with the id may return: a reader with a field for it has it there.
Received == IF reader = type THEN Joined[type][datum]
            ELSE Behind(IdBytes[reader.fields[1][2]], datum)

\* A value that was accepted for writing is read with its id as one more entry
\* or field, for exactly the faithful values, and by exactly the readers that
\* can take it: the entry meets the key and value type of a map, the one entry
\* of an enum, and the type of a field _id.  A Vec<u8> is a seq and refuses it,
\* though _id "decodes cleanly into uuid::Uuid or raw bytes"
\* (from_document_with_id, deserialize_any, deserialize_enum).
IdIsOneMoreEntry ==
  stage = "readWithId" =>
    /\ Received = {} => ~result.ok
    /\ \A y \in Received : result = Ok(y) <=> Faithful[type][datum]

\* A value that is one thing in a query and another in the store: a Vec<u8>,
\* which derived code serializes as a sequence, or a Value that holds a key
\* twice.
StoredOtherwise[t \in Types] ==
  [x \in Held(t) |->
     \/ t.t = "seq"
     \/ t.t = "any" /\ x \notin Unambiguous[Nesting]
     \/ t.t = "option" /\ \E i \in DOMAIN x : StoredOtherwise[t.of][x[i]]
     \/ t.t = "tuple" /\ \E i \in DOMAIN x : StoredOtherwise[t.of[i]][x[i]]
     \/ t.t = "map" /\ \E i \in DOMAIN x : StoredOtherwise[t.of][x[i][2]]]

\* A query asks for what is stored: the two translations of a Rust value, From
\* in the query builder and the Serializer on the write, agree on every type
\* both take, Value among them.  They differ on exactly the values that hold a
\* Vec<u8>, Bytes in a query and an Array in the store, or a doubled key.
QueriesAskForWhatIsStored ==
  Convertible[type] =>
    (Ok(From[type][datum]) = Serialize[type][datum] <=> ~StoredOtherwise[type][datum])

\* The integer a number stands for, and what its conversion should come to.
IsNumber == type.t \in IntType \cup {"f64"}
IsWhole == type.t = "f64" => datum # NaN
Whole == IF type.t = "f64" THEN Truncated(datum) ELSE datum
Fitting(t) == IF IsWhole /\ Whole \in RangeOf(t) THEN Ok(Whole) ELSE Error("Overflow")

\* A stored number is converted to each integer type to itself, or to an error
\* when the type can not hold it, for exactly the numbers inside i64.  Beyond
\* it the conversion makes another number up: a u64 comes out negative, a
\* float as the nearest bound of i64 and NaN as zero (impl_try_int,
\* serialize_u64).
NumbersAreNotInvented ==
  IsNumber =>
    ((\A t \in IntType : TryInt(t, Serialize[type][datum].value) = Fitting(t))
       <=> IsWhole /\ Whole \in RangeOf("i64"))

\* "Conversions that don't fit the target's range report Overflow": so the
\* comment of impl_try_int, of a float too.  It does not hold: f as i64
\* saturates before the range is checked.
FloatsReportOverflow ==
  type.t = "f64" => \A t \in IntType : TryInt(t, F64(datum)) = Fitting(t)
=============================================================================
