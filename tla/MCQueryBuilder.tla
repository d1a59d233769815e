---------------------------- MODULE MCQueryBuilder ----------------------------
(* The index of MCIndexRange, and filters that compare across kinds, with both *)
(* zeros and a NaN, nested two deep, one of them with an operand without order.*)
EXTENDS QueryBuilder, MCIndexRange

V(kind, data) == [kind |-> kind, data |-> data]
Compare(field, operator, value) ==
  <<>> :> [op |-> "Comparison", field |-> field, operator |-> operator, value |-> value]
Logic(op, args) == (<<>> :> [op |-> op]) @@ All(args)

Low == Compare(1, "Lt", V("I64", <<7>>))
Zero == Compare(2, "Eq", V("F64", <<8>>))
Number == Compare(2, "Lte", V("F64", <<14>>))

MCExpr ==
  {Zero, Compare(1, "Neq", V("Null", <<>>)), Compare(2, "Gt", V("Bytes", <<0>>)),
   Compare(1, "Gte", V("Composite", <<>>)),
   Logic("Not", <<Low>>), Logic("Or", <<Low, Logic("And", <<Zero, Number>>)>>),
   Logic("And", <<>>)}

Doc(id, first, second) == [id |-> id, fields |-> <<first, second>>]

MCCollections ==
  LET d1 == Doc(1, V("I64", <<-1>>), V("F64", <<0>>))
      d2 == Doc(2, V("I64", <<7>>), V("F64", <<9>>))
      d3 == Doc(3, V("Null", <<>>), V("Bytes", <<0, 1>>))
      d4 == Doc(4, V("I64", <<-8>>), V("F64", <<7>>))
      d5 == Doc(5, V("I64", <<-1>>), V("Undefined", <<>>))
  IN {{d1}, {d1, d2, d3, d4, d5}}
=============================================================================
