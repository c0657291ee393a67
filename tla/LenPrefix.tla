----------------------------- MODULE LenPrefix -----------------------------
(***************************************************************************)
(* How the encoder writes nested fields into one growing buffer: it        *)
(* reserves one byte for the length, writes the payload behind it and then *)
(* patches the byte, moving the payload right when its length needs more   *)
(* than one byte.  Fields nest, so a payload may already have been moved.   *)
(***************************************************************************)
EXTENDS Wire

CONSTANTS
  Tags,      \* encoded field tags
  Payload,   \* bytes that payloads are made of
  MaxOpen,   \* bound on the nesting
  MaxLen,    \* bound on the length of the buffer: the memory there is
  Running,   \* encode() has not returned
  Error      \* encode() raised

ASSUME LenPrefixAssumption ==
  /\ Tags \subseteq Seq(Byte)
  /\ Payload \subseteq Byte
  /\ MaxOpen \in Nat
  /\ MaxLen \in Nat
  /\ Running # Error
  /\ {Running, Error} \cap Seq(Byte) = {}

VARIABLES
  buf,      \* the output buffer
  open,     \* the fields being written, innermost last: the index of their
            \* tag, that of their length slot, whether they are packed lists
  result    \* what encode() returned

vars == <<buf, open, result>>

Field == [start : Nat \ {0}, slot : Nat \ {0}, packed : BOOLEAN]

Init ==
  /\ buf = <<>>
  /\ open = <<>>
  /\ result = Running

Innermost == open[Len(open)]
Outer == SubSeq(open, 1, Len(open) - 1)
InPacked == open # <<>> /\ Innermost.packed

\* A scalar's bytes, a string's, or those of the unknown fields.
Put(b) ==
  /\ result = Running
  /\ Len(buf) < MaxLen
  /\ buf' = Append(buf, b)
  /\ UNCHANGED <<open, result>>

\* write_tag, then begin_len_prefix.
Begin(tag, packed) ==
  /\ result = Running
  /\ ~ InPacked
  /\ Len(open) < MaxOpen
  /\ Len(buf) + Len(tag) < MaxLen
  /\ buf' = buf \o tag \o <<0>>
  /\ open' = Append(open, [start |-> Len(buf) + 1,
                           slot |-> Len(buf) + Len(tag) + 1,
                           packed |-> packed])
  /\ UNCHANGED result

\* buf[at ..] = bytes
Overwrite(b, at, bytes) ==
  [i \in 1 .. Len(b) |-> IF i \in at .. at + Len(bytes) - 1 THEN bytes[i - at + 1] ELSE b[i]]

\* buf.resize(buf.len() + extra, 0); buf.copy_within(from .., from + extra)
ShiftRight(b, from, extra) ==
  [i \in 1 .. Len(b) + extra |->
     IF i >= from + extra THEN b[i - extra] ELSE IF i <= Len(b) THEN b[i] ELSE 0]

\* Mutant of FinishLenPrefix: no room is made for the longer length.
FinishLenPrefix_NoShift(b, slot) ==
  LET n == Len(b) - slot IN
  IF n < Base THEN [b EXCEPT ![slot] = n] ELSE Overwrite(b, slot, VarintLoop[n])

FinishLenPrefix(b, slot) ==
  LET n == Len(b) - slot IN
  IF n < Base
    THEN [b EXCEPT ![slot] = n]
    ELSE Overwrite(ShiftRight(b, slot + 1, VarintLen(n) - 1), slot, VarintLoop[n])

Finish ==
  /\ result = Running
  /\ open # <<>>
  /\ Innermost.packed => Len(buf) # Innermost.slot
  /\ buf' = FinishLenPrefix(buf, Innermost.slot)
  /\ Len(buf') <= MaxLen
  /\ open' = Outer
  /\ UNCHANGED result

\* Mutant of RollBack: a byte before the tag goes with it.
RollBack_TooFar ==
  /\ result = Running
  /\ open # <<>>
  /\ Innermost.packed
  /\ Len(buf) = Innermost.slot
  /\ buf' = SubSeq(buf, 1, Innermost.start - 2)
  /\ open' = Outer
  /\ UNCHANGED result

\* A packed list turned out to be empty: buf.truncate(tag_start).
RollBack ==
  /\ result = Running
  /\ open # <<>>
  /\ Innermost.packed
  /\ Len(buf) = Innermost.slot
  /\ buf' = SubSeq(buf, 1, Innermost.start - 1)
  /\ open' = Outer
  /\ UNCHANGED result

\* The whole message is encoded.
Return ==
  /\ result = Running
  /\ open = <<>>
  /\ result' = buf
  /\ UNCHANGED <<buf, open>>

\* A value of the wrong type or out of range, a oneof with two members, or
\* too deep a nesting: the buffer goes with the error.
Raise ==
  /\ result = Running
  /\ result' = Error
  /\ UNCHANGED <<buf, open>>

Next ==
  \/ \E b \in Payload : Put(b)
  \/ \E tag \in Tags, packed \in BOOLEAN : Begin(tag, packed)
  \/ Finish
  \/ RollBack
  \/ Return
  \/ Raise

Spec == Init /\ [][Next]_vars

-----------------------------------------------------------------------------
(* Properties. *)

TypeOK ==
  /\ buf \in Seq(Byte) /\ Len(buf) <= MaxLen
  /\ open \in Seq(Field)
  /\ result \in Seq(Byte) \cup {Running, Error}

\* The positions that the encoder holds across the writes of the inner fields
\* stay right however far those move their payloads: every open field still
\* has its tag and its empty length slot where it was opened, before those of
\* the fields inside it.
SlotsKept ==
  /\ \A k \in 1 .. Len(open) :
       /\ open[k].start <= open[k].slot /\ open[k].slot <= Len(buf)
       /\ SubSeq(buf, open[k].start, open[k].slot - 1) \in Tags
       /\ buf[open[k].slot] = 0
  /\ \A j, k \in 1 .. Len(open) : j < k => open[j].slot < open[k].start /\ ~ open[j].packed

\* The inductive invariant.
LenPrefixInv == TypeOK /\ SlotsKept

\* The payload that the message (k = 1) or the field o[k - 1] has so far, that
\* of the fields inside it excluded.
From(o, k) == IF k = 1 THEN 1 ELSE o[k - 1].slot + 1
Until(b, o, k) == IF k <= Len(o) THEN o[k].start - 1 ELSE Len(b)

Level(b, o, k) ==
  [tag |-> IF k = 1 THEN <<>> ELSE SubSeq(b, o[k - 1].start, o[k - 1].slot - 1),
   packed |-> IF k = 1 THEN FALSE ELSE o[k - 1].packed,
   data |-> SubSeq(b, From(o, k), Until(b, o, k))]

\* The temporaries of NestedBuffers that would hold these payloads.
Temporaries == [k \in 1 .. Len(open) + 1 |-> Level(buf, open, k)]

Nested == INSTANCE NestedBuffers WITH bufs <- Temporaries

\* Encoding in place writes the bytes that encoding into temporaries would.
ImplementsNested == Nested!Spec
=============================================================================
