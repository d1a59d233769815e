---------------------------- MODULE MCHeedEngineTs ----------------------------
(* Timestamps, publication and readers; no ids are allocated. *)
EXTENDS HeedEngineMvcc

CONSTANTS d1, d2, v1

MCKindOf == [o \in {} |-> "chain"]

\* A put of d1, and its deletion together with a put of d2.
MCRow == {[d1 |-> v1, d2 |-> Absent], [d1 |-> Tombstone, d2 |-> v1]}

MCBatch ==
  {[ts |-> t, create |-> {}, prune |-> {},
    docs |-> [d \in {d1, d2} |-> IF d = d1 THEN row.d1 ELSE row.d2]] :
     t \in Version, row \in MCRow}
=============================================================================
