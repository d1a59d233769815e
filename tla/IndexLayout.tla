------------------------------ MODULE IndexLayout ------------------------------
(***************************************************************************)
(* A secondary index as the storage engine lays it out: index keys are cut *)
(* into segments short enough for an LMDB key, every segment but the last  *)
(* is an edge from a parent chain id to a child chain id, and the last one *)
(* is a leaf that holds document ids.  These are the operations of one put *)
(* call on one index, as functions of the trie and the chain id counter.   *)
(***************************************************************************)
EXTENDS Integers, Sequences, SequencesExt

CONSTANT SegSize   \* MAX_INDEX_SEGMENT_SIZE

ASSUME SegAssumption == SegSize \in Nat \ {0}

Root == 0

Empty == [edges |-> {}, leaves |-> {}, counter |-> Root]


\* Mutation of Split: the key is not cut.
SplitNever(key) == <<key>>

\* split_index_key: an empty key has one empty segment.
Split(key) ==
  LET last == (Len(key) + SegSize - 1) \div SegSize
      Upto(i) == IF i = last THEN Len(key) ELSE i * SegSize
  IN IF key = <<>> THEN << <<>> >>
     ELSE [i \in 1 .. last |-> SubSeq(key, (i - 1) * SegSize + 1, Upto(i))]

\* Mutation of EdgesAt: the parent is left out of the key.
EdgesNamed(t, chain, segment) == {e \in t.edges : e.segment = segment}

\* Mutation of EdgesAt: edges are created without looking.
EdgesUnseen(t, chain, segment) == {}

EdgesAt(t, chain, segment) == {e \in t.edges : e.parent = chain /\ e.segment = segment}

-----------------------------------------------------------------------------
(* put_index_entry *)

\* find_or_create_index_edge, from the node the walk stands at.
FindOrCreate(walk, segment) ==
  LET found == EdgesAt(walk.trie, walk.chain, segment)
      id == walk.trie.counter + 1
      new == [parent |-> walk.chain, segment |-> segment, child |-> id]
  IN IF found # {}
     THEN [walk EXCEPT !.chain = (CHOOSE e \in found : TRUE).child]
     ELSE [chain |-> id,
           trie |-> [walk.trie EXCEPT !.edges = @ \cup {new}, !.counter = id]]

PutEntry(t, key, doc) ==
  LET segments == Split(key)
      walk == FoldLeft(FindOrCreate, [trie |-> t, chain |-> Root], Front(segments))
      leaf == [chain |-> walk.chain, segment |-> Last(segments), doc |-> doc]
  IN [walk.trie EXCEPT !.leaves = @ \cup {leaf}]

-----------------------------------------------------------------------------
(* delete_index_entry *)

\* Mutation of HasEntries: only the leaves of a node are looked at.
HasLeaves(t, chain) == \E l \in t.leaves : l.chain = chain

\* Mutation of HasEntries: nothing is ever found empty.
HasEntriesAlways(t, chain) == TRUE

\* index_node_has_entries
HasEntries(t, chain) ==
  (\E l \in t.leaves : l.chain = chain) \/ (\E e \in t.edges : e.parent = chain)

\* The edges of a key's path, nearest the root first; a walk that meets no edge is lost.
Follow(t, segments) ==
  LET Step(walk, segment) ==
        LET found == EdgesAt(t, walk.chain, segment)
            edge == CHOOSE e \in found : TRUE
        IN IF walk.lost \/ found = {} THEN [walk EXCEPT !.lost = TRUE]
           ELSE [walk EXCEPT !.chain = edge.child, !.path = Append(@, edge)]
  IN FoldLeft(Step, [chain |-> Root, path |-> <<>>, lost |-> FALSE], segments)

\* From the deepest edge up, until a child still has entries.
Prune(t, path) ==
  LET Step(edge, acc) ==
        IF acc.stop \/ HasEntries(acc.trie, edge.child) THEN [acc EXCEPT !.stop = TRUE]
        ELSE [acc EXCEPT !.trie.edges = @ \ {edge}]
  IN FoldRight(Step, path, [trie |-> t, stop |-> FALSE]).trie

DeleteEntry(t, key, doc) ==
  LET segments == Split(key)
      walk == Follow(t, Front(segments))
      leaf == [chain |-> walk.chain, segment |-> Last(segments), doc |-> doc]
  IN IF walk.lost THEN t
     ELSE Prune([t EXCEPT !.leaves = @ \ {leaf}], walk.path)

-----------------------------------------------------------------------------
(* Reading it back *)

\* What hangs below a node can be reached from the root.
Attached(t, chain) == chain = Root \/ \E e \in t.edges : e.child = chain

\* The bytes on the way from the root to each node; a node without a way has none.
PrefixOf(t) ==
  LET prefix[chain \in 0 .. t.counter] ==
        LET up == {e \in t.edges : e.child = chain /\ e.parent < chain}
            edge == CHOOSE e \in up : TRUE
        IN IF up = {} THEN <<>> ELSE prefix[edge.parent] \o edge.segment
  IN prefix

EntriesOf(t) ==
  LET prefix == PrefixOf(t)
  IN {<<prefix[l.chain] \o l.segment, l.doc>> : l \in {k \in t.leaves : Attached(t, k.chain)}}

\* What a scan relies on: full segments on the edges, which form a tree that reaches
\* every leaf, and no key that is spelled in two ways.
WellFormed(t) ==
  /\ t.counter \in Nat /\ IsFiniteSet(t.leaves)
  /\ t.edges \subseteq [parent : Nat, segment : [1 .. SegSize -> Nat], child : 1 .. t.counter]
  /\ t.leaves \subseteq [chain : Nat, segment : Seq(Nat), doc : Nat]
  /\ \A e \in t.edges : e.parent < e.child /\ Attached(t, e.parent)
  /\ \A e, f \in t.edges :
       e.child = f.child \/ (e.parent = f.parent /\ e.segment = f.segment) => e = f
  /\ \A l \in t.leaves :
       /\ Attached(t, l.chain) /\ Len(l.segment) <= SegSize
       /\ l.segment = <<>> => l.chain = Root
=============================================================================
