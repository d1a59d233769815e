----------------------------- MODULE MCHeedEngine -----------------------------
(***************************************************************************)
(* The engine under late failures, explored in two parts: callers that     *)
(* compete for names, trie edges and their ids, and callers that write,    *)
(* publish and read.  States with the marks of both are not continued.     *)
(***************************************************************************)
EXTENDS HeedEngineMvcc

CONSTANTS c1, c2, i1, e1, e2, d1, d2, v1

MCObject == {c1, c2, i1, e1, e2}
MCKindOf == [o \in MCObject |-> IF o \in {c1, c2} THEN "collection"
                                ELSE IF o = i1 THEN "index" ELSE "chain"]

WriteOf(t, create, prune, first, second) ==
  [ts |-> t, create |-> create, prune |-> prune,
   docs |-> [d \in {d1, d2} |-> IF d = d1 THEN first ELSE second]]

\* Batches that share names, and a trie edge that is pruned and grown again.
NameBatch ==
  {WriteOf(1, create, {}, Absent, Absent) : create \in {{c1, i1}, {c1, c2}, {e1}}}
    \cup {WriteOf(1, {e2}, {e1}, Absent, Absent)}

\* A put of d1, and its deletion together with a put of d2.
RowBatch ==
  {WriteOf(t, {}, {}, v1, Absent) : t \in Version}
    \cup {WriteOf(t, {}, {}, Tombstone, v1) : t \in Version}

MCBatch == NameBatch \cup RowBatch

\* Names are at work, or left their counters in memory; documents are, or left
\* their versions in the private copy.  Neither is lost while the disk has it.
Named == batch \in NameBatch \/ \E k \in Kind : counter[k] # 0

Written ==
  \/ batch \notin NameBatch \cup {NoBatch}
  \/ dirty.docs # NoHistory
  \/ \E r \in Reader : reader[r] # NoReader

OnePart == ~(Named /\ Written)
=============================================================================
