----------------------------- MODULE OrderedIndex -----------------------------
(* What an index promises: it is the set of (key, document) pairs written and  *)
(* not deleted since; failed writes and restarts change nothing.               *)
CONSTANTS Key, Doc

VARIABLE entries

Init == entries = {}

Put(key, doc) == entries' = entries \cup {<<key, doc>>}
Delete(key, doc) == entries' = entries \ {<<key, doc>>}

Next == \E key \in Key, doc \in Doc : Put(key, doc) \/ Delete(key, doc)

Spec == Init /\ [][Next]_entries
=============================================================================
