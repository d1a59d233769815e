------------------------------- MODULE IndexTrie -------------------------------
(* One index under the writes of put calls, some of which fail, and restarts.  *)
(* The chain id counter is the engine's: a failed call leaves it advanced, a   *)
(* restart takes it back to its saved value.                                   *)
EXTENDS IndexLayout

CONSTANTS
  Byte,      \* bytes, as naturals
  Key,       \* the index keys written, sequences of bytes
  Doc,       \* document ids, as naturals
  MaxChain   \* bound on chain ids

ASSUME KeyAssumption == Byte \subseteq Nat /\ Doc \subseteq Nat /\ Key \subseteq Seq(Byte)
ASSUME ChainAssumption == MaxChain \in Nat

VARIABLES
  trie,   \* index_edges and index_leaves as committed, and the chain id counter
  saved   \* the counter's metadata row

vars == <<trie, saved>>

-----------------------------------------------------------------------------
Init == trie = Empty /\ saved = Root

\* The committed writes of one put call, in the order the batch holds them.
Put(key, doc) ==
  /\ trie' = PutEntry(trie, key, doc)
  /\ trie'.counter <= MaxChain
  /\ saved' = trie'.counter

Delete(key, doc) ==
  /\ trie' = DeleteEntry(trie, key, doc)
  /\ saved' = trie.counter

\* A put call fails after this entry: the ids it drew are gone, its edges are not there.
AbortPut(key, doc) ==
  /\ trie' = [trie EXCEPT !.counter = PutEntry(trie, key, doc).counter]
  /\ trie'.counter <= MaxChain
  /\ UNCHANGED saved

\* load_counters
Reopen ==
  /\ trie' = [trie EXCEPT !.counter = saved]
  /\ UNCHANGED saved

Next ==
  \/ \E key \in Key, doc \in Doc : Put(key, doc)
  \/ \E key \in Key, doc \in Doc : Delete(key, doc)
  \/ \E key \in Key, doc \in Doc : AbortPut(key, doc)
  \/ Reopen

Spec == Init /\ [][Next]_vars

-----------------------------------------------------------------------------
(* Properties *)

Chain == 0 .. MaxChain
Segment == UNION {[1 .. n -> Byte] : n \in 0 .. SegSize}

\* Every variable keeps its type; every stored segment fits an LMDB key.
TypeOK ==
  /\ \A e \in trie.edges : e.parent \in Chain /\ e.child \in Chain /\ e.segment \in Segment
  /\ \A l \in trie.leaves : l.chain \in Chain /\ l.doc \in Doc /\ l.segment \in Segment
  /\ trie.counter \in Chain
  /\ saved \in Chain

\* put and delete: every leaf and edge can be reached, so no scan loses an entry.
NothingDetached ==
  /\ \A l \in trie.leaves : Attached(trie, l.chain)
  /\ \A e \in trie.edges : Attached(trie, e.parent)

\* allocate_chain_id and save_counters: an edge has its child for itself, lies above
\* it, and its segment names one child, also after failed puts and a restart.
IsTree ==
  \A e, f \in trie.edges :
    /\ e.parent < e.child
    /\ e.child <= saved
    /\ (e.child = f.child \/ (e.parent = f.parent /\ e.segment = f.segment)) => e = f

\* delete_index_entry leaves no edge that leads nowhere.
NoDeadEdges ==
  \A e \in trie.edges :
    (\E l \in trie.leaves : l.chain = e.child) \/ (\E f \in trie.edges : f.parent = e.child)

Index == INSTANCE OrderedIndex WITH entries <- EntriesOf(trie)

\* put_index_entry and delete_index_entry change exactly the entry they are given,
\* whatever its path shares with others.
WritesAreExact ==
  [][\A key \in Key, doc \in Doc :
       /\ Put(key, doc) => Index!Put(key, doc)
       /\ Delete(key, doc) => Index!Delete(key, doc)]_vars

\* Nothing else changes what the index holds, neither a failed put nor a restart.
ImplementsOrderedIndex == Index!Spec
=============================================================================
