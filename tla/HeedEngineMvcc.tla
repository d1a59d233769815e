---------------------------- MODULE HeedEngineMvcc ----------------------------
(* HeedEngine implements MvccStore, when its callers write above the published *)
(* timestamp.  A concrete reader begins in two steps, the timestamp first and  *)
(* the LMDB snapshot later; the mapping lets it begin with the first, and the  *)
(* refinement says that what happens in between makes no difference.           *)
EXTENDS HeedEngine

Seen(r) ==
  CASE reader[r].phase = "closed" -> <<>>
    [] reader[r].phase = "starting" -> <<View(disk.docs, reader[r].ts)>>
    [] reader[r].phase = "open" -> <<reader[r].seen>>

Mvcc == INSTANCE MvccStore WITH
  history <- disk.docs,
  published <- visibleTs,
  recorded <- disk.visible,
  checkpoint <- [history |-> flushed.docs, recorded |-> flushed.visible],
  view <- [r \in Reader |-> Seen(r)]

\* Datastore: put, set_visible_ts, transaction, flush and reopening behave as the
\* operations of a versioned store whose readers take their snapshot in one step.
ImplementsMvccStore == Mvcc!Spec
=============================================================================
