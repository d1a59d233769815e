------------------------------ MODULE MvccStore ------------------------------
(* What a store of timestamped versions promises to transactions: a reader     *)
(* begins at the published timestamp and keeps one snapshot until it ends;     *)
(* writes land above the published timestamp; a crash keeps the history and    *)
(* falls back to the last recorded publication; a power failure falls back to  *)
(* the last checkpoint.                                                        *)
EXTENDS Versions

CONSTANT Reader

VARIABLES
  history,     \* committed versions
  published,   \* the timestamp new readers begin at
  recorded,    \* the publication a crash falls back to
  checkpoint,  \* the history and publication a power failure falls back to
  view         \* <<>>, or the one snapshot each active reader reads

vars == <<history, published, recorded, checkpoint, view>>

NoView == <<>>

Init ==
  /\ history = NoHistory
  /\ published = 0
  /\ recorded = 0
  /\ checkpoint = [history |-> NoHistory, recorded |-> 0]
  /\ view = [r \in Reader |-> NoView]

Write(t, rows) ==
  /\ t > published
  /\ history' = Installed(history, t, rows)
  /\ UNCHANGED <<published, recorded, checkpoint, view>>

Publish(t) ==
  /\ t > published
  /\ published' = t
  /\ UNCHANGED <<history, recorded, checkpoint, view>>

Record ==
  /\ recorded' = published
  /\ UNCHANGED <<history, published, checkpoint, view>>

Checkpoint ==
  /\ checkpoint' = [history |-> history, recorded |-> recorded]
  /\ UNCHANGED <<history, published, recorded, view>>

Restart(h, p) ==
  /\ history' = h
  /\ published' = p
  /\ recorded' = p
  /\ view' = [r \in Reader |-> NoView]
  /\ UNCHANGED checkpoint

Crash == Restart(history, recorded)

PowerFailure == Restart(checkpoint.history, checkpoint.recorded)

Begin(r) ==
  /\ view[r] = NoView
  /\ view' = [view EXCEPT ![r] = <<View(history, published)>>]
  /\ UNCHANGED <<history, published, recorded, checkpoint>>

End(r) ==
  /\ view' = [view EXCEPT ![r] = NoView]
  /\ UNCHANGED <<history, published, recorded, checkpoint>>

Next ==
  \/ \E t \in Version, rows \in [Document -> Cell] : Write(t, rows)
  \/ \E t \in Version : Publish(t)
  \/ Record
  \/ Checkpoint
  \/ Crash
  \/ PowerFailure
  \/ \E r \in Reader : Begin(r) \/ End(r)

Spec == Init /\ [][Next]_vars
=============================================================================
