---------------------------- MODULE MCStoredDocument ----------------------------
EXTENDS StoredDocument, FiniteSetsExt

T(t) == [t |-> t]
OptionOf(of) == [t |-> "option", of |-> of]
VecOf(of) == [t |-> "seq", of |-> of]
TupleWith(of) == [t |-> "tuple", of |-> of]
NewtypeOf(of) == [t |-> "newtype", of |-> of]
MapOf(key, of) == [t |-> "map", key |-> key, of |-> of]
StructOf(fields) == [t |-> "struct", fields |-> fields]
EnumOf(variants) == [t |-> "enum", variants |-> variants]

Kind == EnumOf([Unit |-> T("unit"), Newtype |-> NewtypeOf(T("u8")),
                Tuple |-> TupleWith(<<T("u8"), T("bool")>>),
                Struct |-> StructOf(<< <<"a", T("bool")>> >>)])

\* Types of one field, and of the roots that are no struct.
FieldTypes ==
  {T("unit"), T("bool"), T("i64"), T("u64"), T("u8"), T("f64"), T("str"), T("char"),
   T("bytes"), Kind, NewtypeOf(T("u64")), VecOf(T("u8")), VecOf(Kind),
   TupleWith(<<T("u8"), T("u8")>>), TupleWith(<<T("bytes"), T("bytes")>>),
   OptionOf(T("unit")), OptionOf(T("u8")), OptionOf(OptionOf(T("bool"))),
   OptionOf(NewtypeOf(T("unit"))), OptionOf(VecOf(T("u8"))), OptionOf(Kind),
   VecOf(OptionOf(OptionOf(T("bool")))),
   MapOf(T("str"), T("u64")), MapOf(T("u8"), T("bool")), MapOf(T("bool"), T("bool")),
   MapOf(Kind, T("bool")), MapOf(NewtypeOf(T("char")), OptionOf(T("unit"))),
   MapOf(T("str"), VecOf(T("u8"))), MapOf(OptionOf(T("str")), T("bool")),
   MapOf(T("f64"), T("bool"))}

\* An enum whose name for one variant is the key of the id.
Renamed == EnumOf([_id |-> T("unit"), a |-> T("unit")])

\* Maps that take the id as one more entry, and maps that refuse its key or its value.
IdMaps == {MapOf(key, of) : key \in {T("str"), T("char"), Renamed},
                            of \in {T("bytes"), NewtypeOf(Anything)}}

MCIdTypes == {T("bytes"), VecOf(T("u8")), Anything, OptionOf(NewtypeOf(T("bytes"))), T("i64")}

Node == StructOf(<< <<"a", T("u64")>>, <<"b", OptionOf(T("u8"))>> >>)

\* The types built from these are there too.
RECURSIVE WithParts(_)
WithParts(types) ==
  LET all == types \cup UNION {Parts(t) : t \in types}
  IN IF all = types THEN types ELSE WithParts(all)

MCTypes ==
  WithParts(
    FieldTypes \cup IdMaps \cup MCIdTypes
      \cup {NewtypeOf(Anything), OptionOf(Anything), TupleWith(<<Anything, Anything>>)}
      \cup {MapOf(T("str"), Anything), MapOf(OptionOf(T("str")), OptionOf(T("bytes")))}
      \cup {StructOf(<< <<"a", t>> >>) : t \in FieldTypes \cup {Anything}}
      \cup {StructOf(<< <<"a", Kind>>, <<"b", OptionOf(T("u8"))>> >>)}
      \cup {Node, NewtypeOf(Node), OptionOf(Node), OptionOf(MapOf(T("str"), T("bytes")))}
      \cup {StructOf(<< <<"_id", T("bytes")>> >>),
            StructOf(<< <<"a", StructOf(<< <<"_id", T("str")>> >>)>> >>)})

RECURSIVE MCDepth(_)
MCDepth(t) ==
  IF t = Anything THEN 2 ELSE 1 + Max({0} \cup {MCDepth(part) : part \in Parts(t)})

RECURSIVE MCData(_)
MCData(held) ==
  LET Of == MCData(held.of)
      Keys == MCData(held.key)
      Pairs(k) == {<<k, x>> : x \in Of}
      RECURSIVE Product(_)
      Product(of) ==
        IF of = <<>> THEN {<<>>}
        ELSE {<<x>> \o rest : x \in MCData(Head(of)), rest \in Product(Tail(of))}
  IN CASE held = Anything -> {Document(<<>>), Array(<<Null>>)}
       [] held.t = "unit" -> {<<>>}
       [] held.t = "bool" -> BOOLEAN
       [] held.t = "i64" -> {-Half, -1, Half - 1}
       [] held.t = "u64" -> {0, Half - 1, Half, 2 * Half - 1}
       [] held.t = "u8" -> {0, Byte - 1}
       [] held.t = "f64" -> {NaN, -2 * Half - 1, -3, 0, 2 * Byte + 1, 2 * Half}
       [] held.t = "str" -> {"a", "_id"}
       [] held.t = "char" -> {"a"}
       [] held.t = "bytes" -> {<<>>, <<0>>}
       [] held.t = "option" -> {<<>>} \cup {<<x>> : x \in Of}
       [] held.t = "newtype" -> Of
       [] held.t = "seq" -> {<<>>} \cup {<<x>> : x \in Of} \cup {<<x, y>> : x, y \in Of}
       [] held.t = "tuple" -> Product(held.of)
       [] held.t = "struct" -> Product([i \in DOMAIN held.fields |-> held.fields[i][2]])
       [] held.t = "enum" ->
            UNION {{[variant |-> v, data |-> x] : x \in MCData(held.variants[v])} :
                   v \in DOMAIN held.variants}
       [] held.t = "map" ->
            {<<>>} \cup {<<p>> : p \in UNION {Pairs(k) : k \in Keys}}
              \cup UNION {{<<p, q>> : p \in Pairs(k), q \in Pairs(l)} :
                          <<k, l>> \in {kl \in Keys \X Keys : kl[1] # kl[2]}}

MCEntry == {Null, I64(0)}
MCText(x) == ToString(x)
MCChar == {"a", "b"} \cup {ToString(n) : n \in 0 .. 9}
MCId == <<1>>
MCNaN == 1000
=============================================================================
