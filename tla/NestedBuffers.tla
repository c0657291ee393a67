--------------------------- MODULE NestedBuffers ---------------------------
(***************************************************************************)
(* What the encoder promises about nesting: every length-delimited field   *)
(* with a payload of its own (submessage, map entry, packed list) is as if *)
(* encoded into a temporary buffer that is then copied behind its tag and  *)
(* its length.  An empty packed list leaves no trace.  The caller sees the *)
(* bytes only when the whole message is encoded.                           *)
(***************************************************************************)
EXTENDS Wire

CONSTANTS
  Tags,        \* encoded field tags
  Payload,     \* bytes that payloads are made of
  Running,     \* encode() has not returned
  Error        \* encode() raised

VARIABLES
  bufs,        \* the output and the open temporaries, innermost last
  result       \* what encode() returned

vars == <<bufs, result>>

Root == [tag |-> <<>>, packed |-> FALSE, data |-> <<>>]
Innermost == bufs[Len(bufs)]

Init ==
  /\ bufs = <<Root>>
  /\ result = Running

Append1(s, b) == [s EXCEPT ![Len(s)].data = @ \o b]

\* Bytes without structure: scalars, strings, unknown fields.
Put(b) ==
  /\ result = Running
  /\ bufs' = Append1(bufs, <<b>>)
  /\ UNCHANGED result

Open(tag, packed) ==
  /\ result = Running
  /\ ~ Innermost.packed
  /\ bufs' = Append(bufs, [tag |-> tag, packed |-> packed, data |-> <<>>])
  /\ UNCHANGED result

Field(f) ==
  IF f.packed /\ f.data = <<>> THEN <<>>
                               ELSE f.tag \o WriteVarint(Len(f.data)) \o f.data

Close ==
  /\ result = Running
  /\ Len(bufs) > 1
  /\ bufs' = Append1(SubSeq(bufs, 1, Len(bufs) - 1), Field(Innermost))
  /\ UNCHANGED result

Return ==
  /\ result = Running
  /\ Len(bufs) = 1
  /\ result' = bufs[1].data
  /\ UNCHANGED bufs

Raise ==
  /\ result = Running
  /\ result' = Error
  /\ UNCHANGED bufs

Next ==
  \/ \E b \in Payload : Put(b)
  \/ \E tag \in Tags, packed \in BOOLEAN : Open(tag, packed)
  \/ Close
  \/ Return
  \/ Raise

Spec == Init /\ [][Next]_vars
=============================================================================
