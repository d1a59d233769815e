----------------------------- MODULE MergedCursor -----------------------------
(* A cursor of a transaction: a stored stream and the transaction's own one,   *)
(* both sorted in the cursor's direction, merged entry by entry.  An entry is  *)
(* at a position; `out` is what the cursor has returned.                       *)
EXTENDS CursorOrder

Closed == [kind |-> "None"]

Opened(kind, direction, start, base, overlay) ==
  [kind |-> kind, direction |-> direction, start |-> start,
   base |-> base, overlay |-> overlay, out |-> <<>>]

\* Mutation of TakesOverlay: the streams are merged in ascending order only.
TakesOverlayAscending(c) ==
  /\ c.overlay # <<>>
  /\ c.base # <<>> => ~Before("Forward", Head(c.base).at, Head(c.overlay).at)

TakesOverlay(c) ==
  /\ c.overlay # <<>>
  /\ c.base # <<>> => ~Before(c.direction, Head(c.base).at, Head(c.overlay).at)

TakesBase(c) == c.base # <<>> /\ ~TakesOverlay(c)

BaseTaken(c) == [c EXCEPT !.out = Append(@, Head(c.base)), !.base = Tail(@)]

\* A pending base entry at the same position is dropped.
OverlayTaken(c) ==
  LET entry == Head(c.overlay)
      same == c.base # <<>> /\ Head(c.base).at = entry.at
  IN [c EXCEPT !.out = Append(@, entry), !.overlay = Tail(@),
               !.base = IF same THEN Tail(@) ELSE @]

Drained(c) == c.base = <<>> /\ c.overlay = <<>>
=============================================================================
