------------------------------- MODULE Versions -------------------------------
(* Timestamped rows: what is stored under a key at each version, and what a    *)
(* read at a timestamp finds.                                                  *)
EXTENDS Integers, FiniteSets, FiniteSetsExt

CONSTANTS
  Document,   \* rows keyed by (id, version): documents, and collection catalog rows
  Value, Tombstone, Absent,
  MaxTs       \* bound on timestamps

ASSUME CellAssumption ==
  /\ Absent # Tombstone
  /\ Absent \notin Value
  /\ Tombstone \notin Value
ASSUME MaxTsAssumption == MaxTs \in Nat

Version == 0 .. MaxTs
Cell == Value \cup {Tombstone, Absent}
History == [Document -> [Version -> Cell]]

\* What a reader gets for each row.
Snapshot == [Document -> Value \cup {Absent}]

NoRow == [d \in Document |-> Absent]
NoHistory == [d \in Document |-> [v \in Version |-> Absent]]

\* The value of the newest version written, a tombstone reading as absent.
Newest(row) ==
  LET written == {v \in DOMAIN row : row[v] # Absent}
      cell == row[Max(written)]
  IN IF written = {} \/ cell = Tombstone THEN Absent ELSE cell

View(history, t) == [d \in Document |-> Newest([v \in 0 .. t |-> history[d][v]])]

\* Mutation of Installed: the versions land one timestamp too early.
InstalledEarly(history, t, rows) ==
  [d \in Document |-> IF rows[d] = Absent THEN history[d]
                      ELSE [history[d] EXCEPT ![t - 1] = rows[d]]]

\* The rows become versions at t; an absent row is not part of the write.
Installed(history, t, rows) ==
  [d \in Document |-> IF rows[d] = Absent THEN history[d]
                      ELSE [history[d] EXCEPT ![t] = rows[d]]]
=============================================================================
