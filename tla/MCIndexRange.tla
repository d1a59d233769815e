----------------------------- MODULE MCIndexRange -----------------------------
(* An index of two fields; words of four bits, bytes of 0x00, 0x01 and 0xFF.   *)
EXTENDS IndexRange

Fields(kind, contents) == {[kind |-> kind, data |-> d] : d \in contents}

MCFieldValue ==
  Fields("Null", {<<>>}) \cup Fields("I64", {<<-8>>, <<-1>>, <<7>>})
    \cup Fields("F64", {<<0>>, <<8>>, <<9>>, <<10>>, <<7>>, <<14>>})
    \cup Fields("Bytes", {<<>>, <<0>>, <<0, 1>>, <<15>>}) \cup Fields("Composite", {<<>>})

MCStoredValue ==
  Fields("Undefined", {<<>>}) \cup Fields("Bool", {<<1>>}) \cup Fields("String", {<<1>>})
    \cup {v \in MCFieldValue : Scalar(v)}
=============================================================================
