------------------------------ MODULE CursorOrder ------------------------------
(* The orders cursors walk in, and where they start.                           *)
EXTENDS Integers, Sequences, SequencesExt, FiniteSets

Direction == {"Forward", "Reverse"}

\* Byte strings compare lexicographically, a proper prefix first.
Less(s, t) ==
  \E n \in 0 .. Len(s) :
    /\ n < Len(t)
    /\ \A i \in 1 .. n : s[i] = t[i]
    /\ n < Len(s) => s[n + 1] < t[n + 1]

\* IndexPosition derives Ord: the value, then the document id.
PositionLess(p, q) == Less(p[1], q[1]) \/ (p[1] = q[1] /\ p[2] < q[2])

\* The elements in ascending order.
Ascending(set, less(_, _)) ==
  [i \in 1 .. Cardinality(set) |->
     CHOOSE x \in set : Cardinality({y \in set : less(y, x)}) = i - 1]

Directed(direction, set, less(_, _)) ==
  IF direction = "Forward" THEN Ascending(set, less) ELSE Reverse(Ascending(set, less))

\* CursorStart: where a cursor over these positions may start.
StartAt(positions) ==
  [kind : {"Included", "Excluded"}, at : positions]
    \cup {[kind |-> "Unbounded", at |-> << <<>>, 0 >>]}

\* The position p comes before q for a cursor in this direction.
Before(direction, p, q) ==
  IF direction = "Forward" THEN PositionLess(p, q) ELSE PositionLess(q, p)

\* Mutation of Accepts: an excluded start is returned as well.
AcceptsExcluded(direction, start, p) ==
  start.kind = "Unbounded" \/ ~Before(direction, p, start.at)

Accepts(direction, start, p) ==
  \/ start.kind = "Unbounded"
  \/ Before(direction, start.at, p)
  \/ start.kind = "Included" /\ p = start.at

\* What CursorStart promises: nothing before the start, itself only when included.
FromStart(direction, start, p) ==
  \/ start.kind = "Unbounded"
  \/ /\ ~Before(direction, p, start.at)
     /\ p = start.at => start.kind = "Included"
=============================================================================
