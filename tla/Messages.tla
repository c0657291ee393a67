------------------------------ MODULE Messages ------------------------------
(***************************************************************************)
(* Schemas, wire records and message instances, as the encoder and the     *)
(* decoder see them.                                                       *)
(*                                                                         *)
(* A message on the wire is a sequence of records [num, wire, val].  The   *)
(* val of a "len" record is its payload, a sequence of records (of a       *)
(* submessage), of [bits |-> n] (of a packed list) or of [chr |-> c] (of a  *)
(* string); the empty payload is all three, and anything else is malformed. *)
(* The val of any other record is a number.                                *)
(* An instance is [cls, vals, unknown]: one value per field of the class,  *)
(* and the records of the hidden slot _fastproto_unknown.                  *)
(***************************************************************************)
EXTENDS WellKnown, Records

CONSTANTS
  Class,      \* message classes
  Fields,     \* class -> its fields, in the order of the descriptor
  Group,      \* oneof groups
  MaxDepth,   \* MAX_DEPTH
  None        \* None, and "not seen on the wire"

\* A field is [num, label, kind, oneof, ref, key, elem]: ref is the class of a
\* message field or of a map's message values, key and elem are the kinds of a
\* map's keys and values.
Label == {"single", "optional", "repeated"}
Time == {"timestamp", "duration"}
Kind == {"int", "fixed", "text", "enum", "message", "map"} \cup Time
Field == [num : Nat, label : Label, kind : Kind, oneof : Group \cup {None},
          ref : Class \cup {None}, key : Kind \cup {None}, elem : Kind \cup {None}]

\* What parse_message makes of fields (CodecSafe of Parse) and what the classes
\* are linked to: a map is single, in no oneof and has a scalar key; what is
\* single can be zero; a field of messages, or a map to them, has their class.
IsSchema(fields) ==
  \A k \in 1 .. Len(fields) :
    LET y == fields[k] IN
    /\ y.kind = "map" => /\ y.label = "single" /\ y.oneof = None
                         /\ y.key \in {"int", "fixed", "text"} /\ y.elem \in Kind \ {"map"}
    /\ y.label = "single" => y.oneof = None /\ y.kind \notin {"message"} \cup Time
    /\ "message" \in {y.kind, y.elem} => y.ref \in Class

ASSUME MessagesAssumption ==
  /\ Fields \in [Class -> Seq(Field)]
  /\ \A c \in Class : IsSchema(Fields[c])
  /\ None \notin Group \cup Int
  /\ MaxDepth \in Nat

WireOf(kind) ==
  CASE kind \in {"int", "enum"} -> "varint" [] kind = "fixed" -> "i32" [] OTHER -> "len"

Packable(kind) == kind \in {"int", "fixed", "enum"}

\* What a reader takes for a record, a packed list, a string and a message of
\* scalars.
Readable(r) == IsRecord(r) /\ r.num \in Nat /\ (r.wire # "len" => r.val \in Nat)
AreBits(p) == p \in Seq([bits : Nat])
AreChars(p) == p \in Seq([chr : STRING])
AreRecords(p) == p \in Seq(ToSet(p)) /\ \A r \in ToSet(p) : Readable(r)

\* A map entry is a message with a key in field 1 and a value in field 2.
EntryFields(x) ==
  LET Side(num, kind) == [num |-> num, label |-> "optional", kind |-> kind, oneof |-> None,
                          ref |-> x.ref, key |-> None, elem |-> None]
  IN <<Side(1, x.key), Side(2, x.elem)>>

\* The value of a plain scalar or enum that is not on the wire.
Zero(kind) == IF kind = "text" THEN <<>> ELSE 0

-----------------------------------------------------------------------------
(* Timestamp and Duration on the wire.  Fields other than the two are       *)
(* skipped, a part that is zero is left out.                                *)

EncodeParts(p) ==
  (IF p.secs = 0 THEN <<>> ELSE <<Record(1, "varint", AsUnsigned(p.secs, SecondsBits))>>)
    \o (IF p.nanos = 0 THEN <<>> ELSE <<Record(2, "varint", AsUnsigned(p.nanos, SecondsBits))>>)

DecodeParts(p) ==
  Parts(AsSigned(LastValue(p, 1, "varint", 0), SecondsBits),
        AsSigned(LastValue(p, 2, "varint", 0), NanosBits))

\* The datetime or timedelta of a payload, or the exception that it raises.
TimeOf(kind, p) ==
  IF ~ AreRecords(p) THEN ValueError
  ELSE IF kind = "timestamp" THEN PartsToDatetime(DecodeParts(p))
  ELSE PartsToTimedelta(DecodeParts(p))

PartsOf(kind, t) == IF kind = "timestamp" THEN DatetimeToParts(t) ELSE TimedeltaToParts(t)
=============================================================================
