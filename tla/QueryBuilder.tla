----------------------------- MODULE QueryBuilder -----------------------------
(***************************************************************************)
(* A query as a chain of calls: an index range, filters, an order and a    *)
(* terminal, assembled into one Query and sent to the worker.  The worker  *)
(* is external, since its Query arm is still empty: it is taken to return  *)
(* the documents that the Query describes, in order, up to its limit.      *)
(***************************************************************************)
EXTENDS IndexRange

CONSTANTS
  Expr,         \* the filter expressions a chain may use
  Collections,  \* sets of documents: an id, and the values of the index's fields
  Limit,        \* the numbers take is called with
  MaxParts      \* bound on the calls before collect; one less before another terminal

\* A FilterExpr is a tree: its nodes at their paths, which say at each operator from the
\* root down which operand comes next.
FilterNode ==
  [op : {"And", "Or", "Not"}]
    \cup [op : {"Comparison"}, field : 1 .. FieldCount,
          operator : {"Eq", "Neq", "Lt", "Lte", "Gt", "Gte"}, value : FieldValue]

ASSUME ExprAssumption ==
  \A f \in Expr :
    /\ \A p \in DOMAIN f : p \in Seq(Nat) /\ f[p] \in FilterNode
    /\ <<>> \in DOMAIN f
    /\ \A p \in DOMAIN f : p # <<>> => Front(p) \in DOMAIN f
    /\ \E deepest \in DOMAIN f : \A p \in DOMAIN f : Len(p) <= Len(deepest)

ASSUME CollectionAssumption ==
  \A docs \in Collections :
    IsFiniteSet(docs) /\ \A d \in docs : d.id \in Nat /\ d.fields \in Entry
ASSUME LimitAssumption == Limit \subseteq Nat /\ MaxParts \in Nat

VARIABLES
  stage,     \* which builder the chain is at
  indexed,   \* was with_index called?
  filters,   \* the FilterExpr list
  order,     \* Asc, Desc or none given
  terminal,  \* the terminal called
  query      \* the assembled Query, or why there is none

queryVars == <<stage, indexed, filters, order, terminal, query>>

NoTerminal == [kind |-> "none"]
Unassembled == [kind |-> "Unassembled"]

QueryInit ==
  /\ Init
  /\ stage = "initial"
  /\ indexed = FALSE
  /\ filters = <<>>
  /\ order = "None"
  /\ terminal = NoTerminal
  /\ query = Unassembled

Parts ==
  Len(eq) + Len(filters) + Cardinality({b \in {"lower", "upper"} :
                                          (IF b = "lower" THEN lower ELSE upper) # None})
    + (IF order = "None" THEN 0 ELSE 1)

-----------------------------------------------------------------------------
(* Filters *)

\* The paths of the comparisons of an expression, before or after they are encoded.
Comparisons(f) == {p \in DOMAIN f : f[p].op = "Comparison"}

Operands(f, path) == {p \in DOMAIN f : p # <<>> /\ Front(p) = path}

\* Does the node at this path hold, its operands holding as given?
HoldsAt(f, holding, holds, p) ==
  CASE f[p].op = "Comparison" -> p \in holding
    [] f[p].op = "And" -> \A q \in Operands(f, p) : holds[q]
    [] f[p].op = "Or" -> \E q \in Operands(f, p) : holds[q]
    [] f[p].op = "Not" -> \A q \in Operands(f, p) : ~holds[q]

\* Is f true when these of its comparisons hold?
Truth(f, holding) ==
  LET holds[p \in DOMAIN f] == HoldsAt(f, holding, holds, p) IN holds[<<>>]

\* Mutation of Lowered: a negation is lost.
LoweredBare(f) ==
  [p \in DOMAIN f |->
     CASE f[p].op = "Comparison" -> [f[p] EXCEPT !.value = EncodeEntry(<<f[p].value>>)]
       [] f[p].op = "Not" -> [f[p] EXCEPT !.op = "And"]
       [] OTHER -> f[p]]

\* filter_expr_to_filter
Lowered(f) ==
  [p \in DOMAIN f |->
     IF f[p].op = "Comparison" THEN [f[p] EXCEPT !.value = EncodeEntry(<<f[p].value>>)] ELSE f[p]]

\* And(fs): a new root above the others.
All(fs) ==
  [p \in {<<>>} \cup UNION {{<<i>> \o q : q \in DOMAIN fs[i]} : i \in DOMAIN fs} |->
     IF p = <<>> THEN [op |-> "And"] ELSE fs[Head(p)][Tail(p)]]

\* build_filter; without filters there is nothing to hold, as with an And of none.
BuiltFilter(fs) ==
  LET converted == [i \in DOMAIN fs |-> Lowered(fs[i])]
  IN IF Len(fs) = 1 THEN converted[1] ELSE All(converted)

Comparable(fs) == \A i \in DOMAIN fs : \A c \in Comparisons(fs[i]) : Scalar(fs[i][c].value)

-----------------------------------------------------------------------------
(* The stages *)

\* The closure of with_index builds the range.
WithIndex ==
  /\ stage = "initial"
  /\ stage' = "range"
  /\ indexed' = TRUE
  /\ UNCHANGED <<filters, order, terminal, query, eq, lower, upper, range>>

RangeCall(call) ==
  /\ stage = "range"
  /\ Parts < MaxParts
  /\ call
  /\ UNCHANGED queryVars

RangeEq(v) == RangeCall(Eq(v))
RangeLower(op, v) == RangeCall(LowerBound(op, v))
RangeUpper(op, v) == RangeCall(UpperBound(op, v))

Filter(expr) ==
  /\ stage \in {"initial", "range", "filtered"}
  /\ Parts < MaxParts
  /\ stage' = "filtered"
  /\ filters' = Append(filters, expr)
  /\ UNCHANGED <<indexed, order, terminal, query, eq, lower, upper, range>>

OrderBy(direction) ==
  /\ stage \in {"initial", "range", "filtered"}
  /\ Parts < MaxParts
  /\ stage' = "ordered"
  /\ order' = direction
  /\ UNCHANGED <<indexed, filters, terminal, query, eq, lower, upper, range>>

-----------------------------------------------------------------------------
(* Terminals *)

NoLimit == -1

\* Mutation of LimitOf: one document is asked for where one is expected.
LimitOfOne(t) == IF t.kind = "collect" THEN NoLimit ELSE IF t.kind = "take" THEN t.n ELSE 1

LimitOf(t) ==
  CASE t.kind = "take" -> t.n
    [] t.kind = "first" -> 1
    [] t.kind = "unique" -> 2
    [] t.kind = "collect" -> NoLimit

\* assemble: an operand without an order is an error, whichever side of the query it is on.
Terminal(t) ==
  /\ stage # "done"
  /\ t.kind # "collect" => Parts < MaxParts
  /\ stage' = "done"
  /\ terminal' = t
  /\ IF indexed THEN BuildWithIndex ELSE UNCHANGED <<eq, lower, upper, range>>
  /\ query' = IF Comparable(filters) /\ (indexed => Encodable)
              THEN [kind |-> "Query", filter |-> BuiltFilter(filters), limit |-> LimitOf(t)]
              ELSE NotAScalar
  /\ UNCHANGED <<indexed, filters, order>>

\* What the terminal makes of the worker's answer.
FirstOf(docs) == SubSeq(docs, 1, Min({1, Len(docs)}))
NotOne == <<[error |-> "unique() expected exactly one document"]>>
ExactlyOne(docs) == IF Len(docs) = 1 THEN docs ELSE NotOne

Shaped(t, docs) ==
  CASE t.kind = "first" -> FirstOf(docs)
    [] t.kind = "unique" -> ExactlyOne(docs)
    [] OTHER -> docs

-----------------------------------------------------------------------------
QueryNext ==
  \/ WithIndex
  \/ \E v \in FieldValue : RangeEq(v)
  \/ \E op \in {"Gt", "Gte"}, v \in FieldValue : RangeLower(op, v)
  \/ \E op \in {"Lt", "Lte"}, v \in FieldValue : RangeUpper(op, v)
  \/ \E expr \in Expr : Filter(expr)
  \/ \E direction \in {"Asc", "Desc"} : OrderBy(direction)
  \/ \E n \in Limit : Terminal([kind |-> "take", n |-> n])
  \/ Terminal([kind |-> "first"])
  \/ Terminal([kind |-> "unique"])
  \/ Terminal([kind |-> "collect"])

QuerySpec == QueryInit /\ [][QueryNext]_<<vars, queryVars>>

-----------------------------------------------------------------------------
(* The worker *)

Compared(operator, less, same) ==
  CASE operator = "Eq" -> same
    [] operator = "Neq" -> ~same
    [] operator = "Lt" -> less
    [] operator = "Lte" -> less \/ same
    [] operator = "Gt" -> ~less /\ ~same
    [] operator = "Gte" -> ~less

\* The Query holds bytes, which are compared with the bytes of the document's field.
Selects(d) ==
  LET Holds(c) ==
        LET field == EncodeEntry(<<d.fields[c.field]>>)
        IN Compared(c.operator, Less(field, c.value), field = c.value)
  IN Truth(query.filter, {p \in Comparisons(query.filter) : Holds(query.filter[p])})

KeyOf(d) == IF indexed THEN EncodeEntry(d.fields) ELSE <<>>

DocumentLess(d, e) == Less(KeyOf(d), KeyOf(e)) \/ (KeyOf(d) = KeyOf(e) /\ d.id < e.id)

InOrder(docs) ==
  IF order = "Desc" THEN Reverse(Ascending(docs, DocumentLess))
  ELSE Ascending(docs, DocumentLess)

Upto(docs, limit) ==
  IF limit = NoLimit THEN docs ELSE SubSeq(docs, 1, Min({limit, Len(docs)}))

InIndexRange(d) == indexed => InRange(KeyOf(d))

Answer(docs) == Upto(InOrder({d \in docs : InIndexRange(d) /\ Selects(d)}), query.limit)

-----------------------------------------------------------------------------
(* Properties *)

\* What an expression says of a document.
Means(expr, d) ==
  LET Holds(c) == LET field == d.fields[c.field]
                  IN Compared(c.operator, ValueLess(field, c.value), SameValue(field, c.value))
  IN Truth(expr, {p \in Comparisons(expr) : Holds(expr[p])})

MeansAll(d) == \A i \in DOMAIN filters : Means(filters[i], d)

\* filter, build_filter and encode_entry: comparing encoded operands tells documents apart
\* as all of the chain's filters do by value, however they are nested and across kinds.
FiltersAreExact ==
  query.kind = "Query" =>
    \A docs \in Collections : \A d \in docs : Selects(d) <=> MeansAll(d)

\* take, first, unique and collect: each asks the worker for enough to say what is true of
\* all documents that match: unique fails unless there is exactly one, and no terminal
\* returns less or other than the first ones in the order asked for.
TerminalsTellAll ==
  query.kind = "Query" =>
    \A docs \in Collections :
      LET matching == InOrder({d \in docs : InIndexRange(d) /\ MeansAll(d)})
          got == Shaped(terminal, Answer(docs))
      IN CASE terminal.kind = "take" -> got = Upto(matching, terminal.n)
           [] terminal.kind = "first" -> got = FirstOf(matching)
           [] terminal.kind = "unique" -> got = ExactlyOne(matching)
           [] terminal.kind = "collect" -> got = matching
=============================================================================
