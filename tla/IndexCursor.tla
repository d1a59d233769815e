------------------------------ MODULE IndexCursor ------------------------------
(***************************************************************************)
(* The index cursor: a depth-first walk of one index trie with a stack of  *)
(* frames, each merging the leaves and the edges of its node, forward or   *)
(* backward.  The cursor reads one LMDB snapshot, so the trie and the      *)
(* documents visible at its timestamp are fixed when it opens.             *)
(***************************************************************************)
EXTENDS IndexLayout, CursorOrder

CONSTANTS
  Key, Doc,   \* index keys, as sequences of naturals, and document ids, as naturals
  Tries       \* the indexes scanned: what the writes of IndexTrie leave behind

ASSUME PositionAssumption == Key \subseteq Seq(Nat) /\ Doc \subseteq Nat
ASSUME TrieAssumption == \A t \in Tries : WellFormed(t)

Position == Key \X Doc
Start == StartAt(Position)

VARIABLES
  trie, visible,      \* the snapshot: the index, and the documents it shows at ts
  direction, start,   \* the cursor's arguments
  stack,              \* frames, the current one last
  out                 \* the positions returned so far

vars == <<trie, visible, direction, start, stack, out>>
cursor == <<trie, visible, direction, start>>

-----------------------------------------------------------------------------
(* IndexCursorFrame *)

\* The two prefix iterators of a node, in LMDB's order: keys, then duplicates.
Frame(chain, prefix) ==
  LET LeafLess(l, m) == PositionLess(<<l.segment, l.doc>>, <<m.segment, m.doc>>)
      EdgeLess(e, f) == Less(e.segment, f.segment)
  IN [prefix |-> prefix,
      leaves |-> Directed(direction, {l \in trie.leaves : l.chain = chain}, LeafLess),
      edges |-> Directed(direction, {e \in trie.edges : e.parent = chain}, EdgeLess)]

\* Mutation of LeafFirst: a key that other keys extend is returned after them.
LeafFirstStrictly(leaf, edge) ==
  IF direction = "Forward" THEN Less(leaf.segment, edge.segment)
  ELSE ~Less(leaf.segment, edge.segment)

\* choose_action, when a leaf and an edge are pending.
LeafFirst(leaf, edge) ==
  IF direction = "Forward" THEN ~Less(edge.segment, leaf.segment)
  ELSE Less(edge.segment, leaf.segment)

TakesLeaf(frame) ==
  /\ frame.leaves # <<>>
  /\ frame.edges # <<>> => LeafFirst(Head(frame.leaves), Head(frame.edges))

\* Mutation of TakesEdge: an edge is only taken against a pending leaf.
TakesEdgeBesideLeaf(frame) == frame.edges # <<>> /\ frame.leaves # <<>> /\ ~TakesLeaf(frame)

TakesEdge(frame) == frame.edges # <<>> /\ ~TakesLeaf(frame)

-----------------------------------------------------------------------------
(* HeedIndexCursor *)

Returns(p) == Accepts(direction, start, p) /\ p[2] \in visible

Top == Last(stack)
Below == Front(stack)

VisitLeaf ==
  /\ stack # <<>>
  /\ TakesLeaf(Top)
  /\ LET leaf == Head(Top.leaves)
         p == <<Top.prefix \o leaf.segment, leaf.doc>>
     IN out' = IF Returns(p) THEN Append(out, p) ELSE out
  /\ stack' = Append(Below, [Top EXCEPT !.leaves = Tail(@)])
  /\ UNCHANGED cursor

Descend ==
  /\ stack # <<>>
  /\ TakesEdge(Top)
  /\ LET edge == Head(Top.edges)
     IN stack' = Below \o << [Top EXCEPT !.edges = Tail(@)],
                             Frame(edge.child, Top.prefix \o edge.segment) >>
  /\ UNCHANGED <<cursor, out>>

Ascend ==
  /\ stack # <<>>
  /\ Top.leaves = <<>> /\ Top.edges = <<>>
  /\ stack' = Below
  /\ UNCHANGED <<cursor, out>>

-----------------------------------------------------------------------------
Init ==
  /\ trie \in Tries
  /\ visible \in SUBSET Doc
  /\ direction \in Direction
  /\ start \in Start
  /\ stack = <<Frame(Root, <<>>)>>
  /\ out = <<>>

Next == VisitLeaf \/ Descend \/ Ascend

Spec == Init /\ [][Next]_vars /\ WF_vars(Next)

-----------------------------------------------------------------------------
(* Properties *)

\* What the cursor is to return: the visible entries from the start bound on, in
\* the cursor's direction.
Expected ==
  LET shown == {p \in EntriesOf(trie) : p[2] \in visible /\ FromStart(direction, start, p)}
  IN Directed(direction, shown, PositionLess)

\* get_index_cursor: entries come in index order, none skipped and none twice, for
\* keys that end inside, at and beyond a segment boundary, in both directions.
InOrder == IsPrefix(out, Expected)

\* The cursor ends, and has returned everything when it does.
Complete == <>(stack = <<>> /\ out = Expected)
=============================================================================
